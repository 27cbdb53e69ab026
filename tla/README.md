# A verification project for csf_assign01 .. csf_assign05

The repository holds five independent programs. This directory models them in
TLA+: TLC checks the models on small instances and TLAPS proves the theorems
about them for every instance. `PROJECT.json` lists every run, every theorem and the
source lines behind every definition.

## 1. Inventory

### csf_assign05: a chat server (C++, pthreads) and its clients

| part | state | operations | talks to |
|---|---|---|---|
| `MessageQueue` (message_queue.cpp) | deque of `Message*`, mutex `m_lock`, semaphore `m_avail` | `enqueue`, `dequeue` (waits at most one second) | used by `Room` and by the receivers' workers |
| `Room` (room.cpp) | set of member `User*`, a mutex | `add_member`, `remove_member`, `broadcast_message` | calls `enqueue` of every member **under the room's mutex** |
| `Server` (server.cpp) | map from names to rooms, a mutex | `handle_client_requests` (accept loop), `find_or_create_room` | starts one detached worker thread per connection |
| workers (server.cpp) | per connection: `current` room, or `User` and room | `worker`, `chat_with_sender`, `chat_with_receiver` | all of the above, and the client by `Connection` |
| `Connection` (connection.cpp, csapp.c) | descriptor, read buffer, last result | `send`, `receive`: one line `tag:data` per message | TCP |
| clients (sender.cpp, receiver.cpp) | where they are in the dialogue, the answer awaited | request/reply loop; print loop | `Connection` |

Hard behaviour: every client has a thread; membership changes while a
broadcast runs; a worker deletes its `User` while others may hold a pointer to
it; waits time out while a post comes in; the first write to a closed
connection succeeds; reads and writes cut lines anywhere; lines longer than the read
buffer are split and shift the answers that follow; either end dies in the middle of a line.

Correct means: one `Room` per name; a member gets everything said since it
joined, once and in the order that all members see; no `User` is used after it is
deleted; no deadlock; a broadcast does not wait for receivers; whatever is queued
is delivered to a client that reads; a receiver that is gone is cleaned up; the k-th answer
a sender reads is that to its k-th command; what is broadcast is what was typed, and a receiver prints what was broadcast.

### csf_assign04: parallel quicksort (parsort.c), with is_sorted, seqsort, gen_rand_data

State: an array of 64-bit integers mapped from a file and shared by a tree of
processes. Operations: `partition`, `quicksort` (fork two children, wait for
both), the threshold below which libc's `qsort` is used. Hard: `fork` or `waitpid` may
fail half-way, a child may die, siblings write the same mapping, unsigned
indices run below zero. Correct means: exit status 0 implies a sorted
permutation of the input that nobody is left to write to, another status that something failed; live processes never
share a segment; no child is left behind.

### csf_assign03: cache simulator (main.cpp)

State: sets of lines (valid, dirty, tag, time stamps), counters. Operations:
`load`, `store` under write-allocate/no-write-allocate,
write-through/write-back, LRU/FIFO. Hard: victim selection over long access
sequences, address split (shifts as wide as a word), cycle accounting that wraps. Correct means: LRU and FIFO behave
as the textbook policies, no block is in a set twice, dirty only in write-back,
hits + misses = accesses, every dirty block evicted is paid for.

### csf_assign01: fixed-point arithmetic (fixpoint.c)

State: the caller's numbers (whole, frac, negative) with 32-bit parts, and its string. Operations:
`add`, `sub`, `mul`, `negate`, `compare`, hexadecimal formatting and parsing. Hard: carries, overflow,
underflow, the sign of zero, a result that is also an operand. Correct means: exact results when OK is returned,
the truncated ones and the right flags otherwise, and a text that reads as the number it was printed from.

### csf_assign02: image transformations (C and x86-64 assembly)

State of a run: the files, the bytes inflated so far, the input and the output image. Operations: `img_read` (pnglite: chunks, inflation, five line
filters, two colour types), `complement`, `transpose`, `ellipse`, `emboss`, written twice, and `img_write`. Hard: coordinates at
the borders, images one pixel wide or high, ties and clamping; filters on first lines and pixels; files that are cut short;
output that goes over the input; writes whose results nobody looks at. Correct means: the two versions agree and each
computes its definition; an image is read as any encoder wrote it; what is written is read back the same; success is reported
only with the result on the disk, unless the disk was full or there was no memory to compress it.

### Left aside

csapp.c (except what the connections use) and tctest.c are third-party, and so is pnglite.c, which is modelled as far
as image.c uses it; the `reference/` binaries and the images are data; the unit tests are not modelled but read.

## 2. The modules

| module | models | code |
|---|---|---|
| `AbstractQueue` | what callers of a queue may see: an atomic first-in first-out queue whose `dequeue` may give up | (specification) |
| `MessageQueue` | deque, mutex, semaphore; producers and consumers step from one synchronization call to the next | message_queue.cpp |
| `ChatRooms` | what members of a room are promised: one log per room, heard in order from the moment of joining | (specification) |
| `ChatServer` | accept, login, the two handlers, `find_or_create_room`, `Room`, and the queues inlined as the workers run them | server.cpp, room.cpp, message_queue.cpp, connection.cpp's `send` |
| `PieceStream` | what one direction of a connection promises: lines in order, in pieces of bounded length, until it ends | (specification) |
| `Framing` | `send` and `receive`, `rio_writen`, `rio_readlineb`, `rio_read`, one system call at a time | connection.cpp, csapp.c |
| `ChatClients` | sender and receiver programs, connections in pieces, the server's workers and its start and end | sender.cpp, receiver.cpp, server.cpp, server_main.cpp, connection.cpp, csapp.c |
| `CachePolicy` | the textbook cache: blocks of a set in order of use or of arrival | (specification) |
| `CacheSim` | lines, tags, time stamps, counters; one action per path through `load` and `store` | csf_assign03/main.cpp |
| `CachePair` | two simulators on one trace | csf_assign03/main.cpp |
| `ParSort` | the tree of processes, `partition` one iteration at a time, `fork`, `waitpid`, the exit status | parsort.c, is_sorted.c |
| `ScaledIntegers` | what fixpoint.h promises: integers, counted in units of the last place, that lose places when they do not fit | (specification) |
| `Fixpoint` | numbers in parts and strings of digits, any sequence of calls on any objects | fixpoint.c |
| `ImageTool` | what the image program promises its user about files and exit status | (specification) |
| `ImgProc` | the transformations in C and in assembly, and the text of imgproc.h | c_imgproc_fns.c, asm_imgproc_fns.S |
| `PngFile` | PNG files: items, filters and what is written; files as other encoders store them | pnglite.c |
| `ImgTool` | one run of the program, from start to exit | c_imgproc_main.c, image.c, pnglite.c |
| `MCCachePair`, `MCFixpoint`, `MCFraming`, `MCChatClients`, `MCImgTool` | constants of TLC's instances: configurations, numbers, messages, typed lines, image files | |
| `MessageQueueProofs`, `ChatServerProofs`, `FramingProofs`, `ChatClientsProofs`, `CacheSimProofs`, `CachePairProofs`, `ParSortProofs`, `FixpointProofs` | the theorems (section 4) | |

`ChatServer` composes: every `User` has a queue, and the refinement
`ImplementsQueues` maps each of them to an instance of `MessageQueue`, so that
the class is used only in the ways in which it was checked. `ChatServer` in turn implements
`ChatRooms`; `CacheSim` implements `CachePolicy`; `Fixpoint` implements
`ScaledIntegers`; `MessageQueue` implements
`AbstractQueue`; `Framing` implements `PieceStream`; `ImgTool` implements `ImageTool`. `ChatClients` stands on what these
specifications say: its connections carry pieces and end as `PieceStream` has it, in the middle of a piece too, and a broadcast, checked step by
step in `ChatServer`, is one step in it. `ImgTool` extends `ImgProc` and `PngFile`.

### How state and steps correspond to the code

*Threads.* `pc[w]` is the point of a worker between two synchronization or blocking calls.
The statements between two such points are one action: they touch only locals or what the
mutex protects, and the lock invariants justify that. `EnqueueLock`,
`EnqueuePush`, `EnqueuePost` are `pthread_mutex_lock`, `push_back` with the end of the
Guard, and `sem_post`; they are apart because other threads may run in between. Objects are named
by the worker that allocates them: `rooms[n]` is a *pointer*, so that two Room
objects for one name can be told apart. `user[w]` is "live" or "freed",
and a dangling pointer is a member or a `dest` whose user is not live.

*Connections.* A client may send any command and may close at any time. The first write to
a closed connection succeeds and makes it "reset"; later writes fail, as TCP has it.
How a line looks on the wire is not in `ChatServer`: a line that does not parse is a failed receive.

*Framing.* `rest` is what `rio_writen` has still to write, `wire` what the kernel holds, `unread` is `rio_buf`, `line` the caller's buffer. `Cut`
in the refinement mapping finds the pieces in the characters that are anywhere between the two ends.

*Clients.* `pc[c]` is where a program is between two reads or writes of its connection or of its terminal, `worker[c]` the same of the
worker that serves it. A line is a sequence of words with a colon between any two; a word is known by its name, and `Size`, `Nul` and `Return` give its
length and where NULs and carriage returns are in it. Names, rooms and texts are such sequences, so they may hold colons. `Received` is what `receive` makes of a piece:
it stops at a NUL and drops carriage returns at the end. What is left of a word that is cut is a `Part` of it; it is never a tag or a part of
another word, whatever it spells. Where a connection ends (a program returns or is killed, a worker returns, the
process of the server ends in `AcceptFails`) some `Remains` of what is under way are left: the pieces from some point on are lost, and of one
a beginning may stay, which the other end takes for a line (`csapp.c:893`). A connection between two programs that both run on does not break in
`ChatClients`; that is in `Framing` and `PieceStream` only. `told`, `cast`, `said` and `meant` are history variables: what a sender was told, what it had broadcast,
what a receiver should have heard, and who typed it. `overlong` holds the clients that sent a line of more than one
piece: such a client and its worker are out of step from then on, and the properties exempt it. `BroadcastsWhatWasTyped` compares what the server broadcast with what a user
typed, `PrintsWhatWasBroadcast` what a receiver prints with what was broadcast. The second is about receivers that are in step themselves, in a room
without a colon in its name, while all they are due comes from senders in step, under names without colons, and fits in one piece; with a colon in a
room or name `receiver.cpp:75` shows another sender and text, which `Shown` models and no property excuses or forbids.

*Image program.* A PNG file is a sequence of the items that pnglite reads at a time, and zlib is the identity, or, where `compress` has no memory,
nothing at all: the result is not looked at (`pnglite.c:494`). `pending` is what stdio holds back, lost when the
program dies. `disk` has an input and an output file, and the command line may name the same file twice. An action ends where main
or a function of pnglite tests a result. The version linked, C or assembly, and the transformation are chosen when they are applied.

*Cache.* `lines`, `nextFifoOrdinal`, `accessTick` and the counters are the
fields of `Set` and `Cache`. Words have `Bits` bits; `cycles` wraps, as the cost of a block does, while the counters that rise by one would take 2^64 accesses to.
The shift that cuts off the tag is undefined in C++ from `Bits` on (`ShiftDefined`): `TagOf` then shifts as the machine does, by the remainder. `CachePair` runs the
other configurations, `CacheSim` alone all that `parseConfig` accepts. `stale` is a history variable: the blocks whose last store is not in memory.

*Fixed point.* `val[o]` is a `fixpoint_t` of the caller; every call takes any objects, so operands and result may be the
same one. A part has `Digits` digits to the base `Radix` (8 and 16 in the code), and 32-bit and 64-bit words wrap
at `B`, the power `Radix^Digits`, and at `B^2`. `fixpoint_mul` writes its result before it looks at its operands again for the sign; all others
have read what they need by then. A string is a sequence of digits, `Minus` and
`Point`; a character that is neither takes the same way through the parser as a misplaced minus sign.

*Sort.* A process is its segment `<<start, end>>`. `Outside` stands for every
index after `--right_index` wraps below zero; a read there gives a foreign word (a member of
`Junk`) or kills the process. A wrapped index never comes back and `left_index`
only grows, so the process dies in the end, and what it wrote outside of
the file no longer matters. `Fault` counts what the environment may do: fail a `fork`, `waitpid`, `open`, `mmap`
or `munmap`, or kill a process. A `waitpid` fails when `SIGCHLD` is ignored, once the child has ended and been reaped. `qsort` and `swap` are one step each.

## 3. The runs

| run | instance | question |
|---|---|---|
| `queue` | 2 producers, 2 consumers, 3 messages | invariants, refinement of `AbstractQueue`, progress |
| `chat` | 1 sender, 1 receiver, 2 names, 2 messages | locks, one Room per name, no use after free, order; refinement of `ChatRooms` and of `MessageQueue`; broadcast, delivery and clean-up end |
| `chat_idle_receiver` (violation) | 1 sender, 1 receiver | README.txt's removal of a receiver that disconnects |
| `framing` | 2 messages of 6 kinds through a buffer of 6 characters, `rio_buf` and kernel of 3 | no overflow, the k-th receive returns the k-th message, refinement of `PieceStream`, every line arrives |
| `clients` | 1 sender with 3 typed lines: a join or a text of two pieces, then any command or one of nine kinds of text, then a text; 1 receiver; a sender with and without a colon in its name, and a room with one; words with a NUL or carriage returns; lines cut at the start of a word or after its first character | answers in step, broadcasts as typed, deliveries printed as broadcast; a sender goes on, a broadcast is printed or its receiver ends |
| `clients_long` (violation) | as `clients` | message.h's limit on an encoded message |
| `cache` | words of 10 bits; 2 and 4 lines in each set, side by side: one set under LRU without write-allocate with 5 blocks and traces of 6 accesses; two sets under every policy (and a rejected set count), 4 blocks and 5 accesses; two sets of blocks of 256 bytes, which leave a tag of one bit and cost more cycles than a word holds, with 4 accesses | refinement of `CachePolicy`, no block twice, no store lost, inclusion of LRU |
| `cache_shift` (violation) | two sets of the largest blocks | README.txt's "every valid cache config" |
| `sort` | files of 0 bytes, 4 bytes, 3 and 4 words over 3 values, thresholds 0 and 2, two faults | exit status, nobody left to write, split, nobody left behind, end |
| `sort_bounds` (violation) | files of 2 to 4 words | the swap outside of the array |
| `fixpoint` | parts of two binary digits, 21 numbers in each of two objects and zero in a third, or 373 texts of up to seven characters; every two calls | refinement of `ScaledIntegers`, the sign of zero, the shape of what is printed |
| `imgtool` | all 2 by 2 images of three pixels, images one pixel wide or high, up to 5 by 4; a 2 by 3 image in every filter of its lines, with and without alpha, in one piece or three, and with a filter type that does not exist; two files cut everywhere; a file written without memory to compress; kinds that are refused | what is read, what is written, refinement of `ImageTool` (both versions compute what imgproc.h says), end |

*Why the bounds are enough.* The hazards of the queue need a second thread of each
kind and a message more than can be in flight. A sender and a receiver meet in every section that a mutex protects;
two names are what it takes to move between rooms, two messages
for the write that is lost before the one that fails. Order and safety with any number of senders and receivers are proved (section 4). A set with two lines and five accesses lets every line be
evicted after a hit reordered it; four lines beside two need a sixth access to evict what the two may still hold.
A line that is longer than `rio_buf` and than the kernel's buffer is cut by every short read and write; a line of just the buffer's
length and one and two more are all the cases of `rio_readlineb`. Three typed lines are enough to enter a room, send a text that is cut in two and
see which answer the next command gets; the lengths of texts are those of the code on both sides of every limit
(247 the longest `sendall` in one line, 241 just too long for a delivery with two more words). A line cut inside a word gives the receiver a
part that is no word, and cut between two words a line with fewer of them or with an empty one: where in a word it is cut makes no other difference.
Three pixels suffice for ties of opposite signs,
for clamping at both ends and for each of the three colours to win; three lines put every filter on a first line, below a filtered
line and above one. Four words make trees of processes three levels deep with
both children at work, a stray left-most child beside a working right-hand one, and empty
children. Two-bit parts are the least with which every carry of `add` and `mul` and every wrap occurs
(of the numbers, `MCGiven` holds the extremes and the pair whose product overflows in the carries alone), one call
is enough to leave a zero with a sign and a second one to use it,
and the texts go past the most digits that a part may have. What is proved does not depend on bounds.

*Deadlock* is checked in the runs of the queue and of the server. In the others the program or the connection
ends (`CHECK_DEADLOCK FALSE`), and `Terminates` and `RunEnds` check that parsort and the image program do.

### Fairness

- `MessageQueue!FairSpec`: a producer in `enqueue` keeps running; a consumer need only
  leave the critical section it is in. That `enqueue` returns (in `CallsReturn`) is checked under that. That
  `dequeue` does, and `EveryMessageTaken`, assume `ConsumersRun`: the loop of `chat_with_receiver` calls
  `dequeue` again and again.
- `ChatServer!FairSpec`: the server's own code runs between blocking calls on a connection. No
  client has to do anything: `BroadcastEnds` is checked under that. Delivery and clean-up
  assume `ClientsRead`: a `send` ends, because the client reads or has closed.
- `Framing!FairSpec`: a `write` with room in the kernel and a `read` with something there return, and the receiving side calls
  `receive` until it fails, as all its callers do. The sender need not send, and the connection may break.
- `ChatClients!FairSpec`: the accept loop, the workers and the programs run; users need not type or stop anything.
- `ImgTool!FairSpec`: the program runs on. Nothing kills it.
- `ParSort!FairSpec`: the kernel schedules every process. Nothing makes it kill one.

Weak fairness is enough for the mutexes although pthread mutexes are not fair: each contender takes them finitely often in
any behaviour of bounded sends, so nobody is overtaken for ever.

### Findings

1. `server.cpp:104`: a receiver that disconnects from a room where nobody speaks stays a member for ever;
   `README.txt:27` says it is removed (`chat_idle_receiver`).
2. `parsort.c:97`: `--right_index` wraps below 0 in the left-most segment if no word before
   its last is less than the pivot. Two equal words and threshold 0 are enough: the program reads below the mapping and
   normally dies of a segmentation fault. It never *claims* success (`ExitStatusIsTrue`).
3. `sender.cpp:57` compares the line typed with `MAX_LEN`, not the message it is sent in: a text of 247 characters goes out in a line
   of 256, more than `message.h:8` allows (`clients_long`). From 248 on it arrives as two messages and is answered twice.
4. `main.cpp:99` of the cache simulator shifts by offset and index bits together. `parseConfig` accepts two sets of blocks of 2^63 bytes, as no block data
   is ever allocated; the shift is then by 64, which C++ leaves undefined and x86-64 takes for a shift by 0: every address has a tag of its own, and the second
   load from a block misses (`cache_shift`). `README.txt:39` says that every valid configuration is handled.

More disagreements were met that need no run to be seen:

- `main.cpp:275` of the cache simulator rejects no-write-allocate with write-back; `README.txt:30` of csf_assign03 claims all combinations of the policies.
- `fixpoint.h:153` gives -1 for a greater left operand; `fixpoint_compare` returns 1 (`fixpoint.c:248`), which is what its callers need.
- `fixpoint.h:178` asks for the format that `fixpoint_format_hex` prints, and for false otherwise; `fixpoint_parse_hex` (`fixpoint.c:308`) also takes zeros
  before the whole part and behind the fraction, and minus zero. `ImplementsIntegers` holds for these texts too: each is read as the number it denotes.
- `room.cpp:39` takes the queue's mutex under the room's, contrary to `README.txt:65` ("no nested locks"). The order is always room before queue,
  and no run finds a deadlock.
- `asm_imgproc_fns.S:81` says that the assembly mirrors the C versions. On an image one pixel wide or high `imgproc_ellipse` keeps
  pixels in C (`c_imgproc_fns.c:50`) and none in assembly (line 272); imgproc.h's inequality divides by zero there. `ImplementsImageTool` allows both there
  and only one result elsewhere.
- `image.h:58` promises an error from `img_write`, but `png_set_data` and `png_close_file` never report one, nor what `compress` returns, so that the program
  exits with 0 when the disk is full, or, with a file that nobody can read, when there is no memory to compress. `ImageTool` allows that and nothing else.
- `c_imgproc_fns.c:34` computes `row * width` in 32 bits, which overflow from 46341 by 46341 pixels on; `ImgProc` uses the products of mathematics.

## 4. The theorems

The theorems hold for every value of the constants that the assumptions of the modules allow:

| module | assumption | why the code justifies it |
|---|---|---|
| `MessageQueue`, `ChatServer` | `ThreadsAssumption`, `NilAssumption`, `ChatAssumption`: sets of threads are finite, `Nil` is none of the values | they are counted, and a null pointer is no object |
| `Framing` | `SizesAssumption`, `CharactersAssumption`: the buffers hold something; newline, return, colon and NUL differ. `LinesAssumption`: no newline in a message | sizes in connection.cpp and csapp.h; tags are constants, texts were read as a line, without its end. User names, and a receiver's room, come from the command line and are not checked (`sender.cpp:76`, `receiver.cpp:15`): those with a newline in them are left out |
| `ChatClients` | `ClientsAssumption`, `LimitsAssumption`; `AnswersAssumption`: ok and err fit in one piece; `WordsAssumption`: lengths and positions are numbers, and tags hold no NUL or carriage return; `LinesAssumption`: names, rooms and texts are made of at least one word, which may be empty | message.h:8 and 27-36. A line typed has no newline in it; for names and rooms it is assumed, as in `Framing` |
| `CachePair` | `PairAssumption`: a word has a bit at least, arguments and addresses are numbers, and the second cache has no fewer lines; by its `Init` the shift of `tagOf` is defined | main.cpp reads them with `stoul`; finding 4 has the other configurations |
| `ParSort` | `SortAssumption`: words and sizes are numbers | int64_t, off_t |
| `Fixpoint` | `FixpointAssumption`: a base of two at least and a digit at least in a part; `GivenAssumption`, `TextsAssumption`: what the caller makes up are words and characters | 16 and 8 in fixpoint.c; the types of its arguments |

*MessageQueue.* `TypeCorrect` (its type invariant is in no run of its own); `MutualExclusion`; `SemaphoreCorrect` and `ClaimsHonoured`; `QueueIsAtomic`.
The inductive invariant `Inv` is the conjunction of types, `LockHeld` and the exact count

    Len(messages) = avail + |producers about to post| + |consumers that took a unit|

The semaphore and the deque disagree whenever a thread is between its two steps, so neither
"avail = length" nor "a consumer finds a message" is inductive alone; the count is, and a claim is honoured because the
claiming consumer is itself counted. `QueueIsAtomic` maps each step to
one of `AbstractQueue` or a stutter.

*ChatServer*, in layers, each proved from the one below:

1. `TypeCorrect`: `Shapes` and what each worker's locals hold at each pc.
2. `LockDiscipline`: a worker owns a mutex exactly while it is in that section. This gives mutual
   exclusion of the three kinds of critical section.
3. `RoomsAreShared`, by `RoomsInv`: besides `OneRoomPerName` it says that a worker about to
   create a room has looked it up under the mutex and found none.
4. `UsersAreSafe`, by `MembersInv`: only workers between `add_member` and `remove_member` are members, their
   User is live, and the user whose queue a broadcaster fills is a member of the room it has locked; so
   a worker can delete its User without a lock.
5. `MembersHearInOrder`, by `OrderInv`: a member's dequeued messages,
   its queue, and what the broadcast in progress still owes it are the room's log since it joined. It needs
   that a queue is empty until its worker joins, that a broadcast's text belongs to the room it has locked,
   that it visits each member once, and that a member's start lies within the log.
6. `ServerIsChatRooms`: `ChatServer` implements `ChatRooms`, each step a step of it or a stutter. Besides the layers below it needs
   `RefineInv`: a receiver that is past its join is a member (`JoinedIsMember`), and every message of a log is older than the one its
   sender is about to broadcast (`LastNumber`, `LogNumbers`), so that nothing is said twice.
7. `QueuesAreUsedRightly` (`ImplementsQueues`): the queue of every User behaves as `MessageQueue`. Its producers are the workers that have
   it as their `dest`, its consumer is the User's own worker, and every other step leaves it as it is. `QueuesInv` says that no log
   has a message twice (`LogsDistinct`), that a worker holds a message only between `dequeue` and its delivery (`InHand`), and that a
   message whose `sem_post` is due has been pushed (`Pushed`).

*Framing.* `NothingOverflows` (`TypeOK`) bounds the caller's buffer, `rio_buf` and the kernel's. `PlainArrive` (`PlainMessagesArrive`):
the k-th piece is the k-th message if all messages are plain. Its invariant `ArriveInv` reads the caller's buffer, `rio_buf`, the
kernel and what `rio_writen` holds, one after the other, as what is left of the lines asked for, from the line after the last piece on;
once the connection is broken it is a beginning of that, and the last piece may be a line cut short.
`StreamOfPieces` (`ImplementsPieceStream`): every step is one of `PieceStream` or changes nothing there, for any messages, plain or not. The `Flow` lemmas,
which both proofs use, say what each step does to the characters on their way: nothing, or a message behind them, a piece off them, or
some lost at the end. What is left is about `Cut`, a recursion along the characters: a text behind whole pieces is cut as if it stood alone (`CutJoin`), a line is cut
into its `Pieces` (`LineInPieces`), and a beginning of a text into a beginning of its pieces (`CutBeginning`). `StreamInv` keeps the newline of the
line that is being read out of the caller's buffer (`LineOpen`), and at the end of what is under way (`LinesWhole`), where the next message begins.

*ChatClients.* `QuestionsInStep` (`InStep`), `BroadcastAsTyped` (`BroadcastsWhatWasTyped`) and `PrintedAsBroadcast` (`PrintsWhatWasBroadcast`), for
any number of clients, any names, rooms and lines, and connections that end in the middle of any line. The first lemmas are about words: what `Received` leaves is
clean (`ReceivedClean`) and is received again as it is (`ReceivedAsIs`), it keeps the tag of a line, a beginning of a piece that still has a colon has
its tag (`BeginningTag`), and of one piece nothing or one piece remains (`RemainsOfOne`).
`Wires` says of every connection that it waits once to be accepted, and that each end is closed just when its program or
its worker has ended. `SendersInTouch` says for each place a sender can be which question or answer, if any, is on the wire, and what
its last command made of the server's room and count of texts: `InStep` compares answers heard with commands, and is inductive only with
the answer that is still under way; of a program that was killed a beginning of its last command may be under way (`OneLine`).
`EntriesTrue` says of each broadcast that it is what its sender typed, or a beginning of it; the latter needs that its sender has ended and nothing more
can come from it (`CutShort`). `ReceiversInTune` follows a receiver up to its join; from then on what it has printed, what is behind the ok on
the wire, and its queue are, in this order, the deliveries of what should have been heard (`Follows`), but for the last one on the wire, and
then for the last one printed, where the server's end is closed.

*Cache.* For every cache that `parseConfig` accepts and that leaves the tag a bit (`ShiftDefined`; for the others the first and the last of these theorems
would be false), in words of any width, and every trace, of any length: `EachBlockOnce` (`OneLinePerBlock`), `StoresAreKept`
(`NothingLost`) and `LargerIsBetter` (`MoreIsBetter`, the inclusion of LRU).
`CacheSimProofs` has the invariant of one simulator: types, the two properties, `Stamped` (no two lines of a set have the same last
use) and `FilledInOrder` (the lines below `nextFifoOrdinal` are the valid ones, so that `ChooseVictim` takes an empty line before it evicts). `PairInv` adds, for LRU, that every
block of the small cache is in the large one (`Included`), that those in both were last used in the same order (`SameOrder`), that the small one is
filled no later (`MoreFills`), and that it has no more hits. `Included` alone is not inductive: when both caches evict,
`SameOrder` shows that the victim of the large one is not a block that the small one keeps.
`SimulatorIsTextbook` (`ImplementsPolicy`): every access is one of `CachePolicy`. The mapping orders the blocks of a set by their stamps,
of last use or of arrival. `Listed` says that the valid lines of a set can be listed so, and `Numbered` that a line filled later
gets a larger number; a hit moves a block to the end of that list or nowhere (`ListAfterHit`), and a fill takes the first one off if the set is full
and puts the new one behind the others (`ListAfterFill`).

*ParSort.* For files of any size, any words, any threshold and any faults: `SortTypes`, `NoOrphans` (`NothingLeftBehind`), `SplitStays`
(`SplitHolds`) and `StatusTellsTheTruth` (`ExitStatusIsTrue`). `Shape`: the processes are a tree of segments of which two are disjoint or one is
inside the other, and where each of them can be, also after a `waitpid` that failed. `Ends`: below a success there are only successes, whatever still runs below a result
descends from a process that was killed, children of a result are reaped, and a failure has a cause. `Data`, as long as no process has strayed outside of the array:
both sides of a scan hold only words of their side, a split stays one while the children rearrange their segments, a success is sorted, and the array is a permutation of the input. A step writes only to the segment of
a process below which nothing runs; with `Shape` this lets each process be reasoned about on its own.

*Fixed point.* For every base, every number of digits and every sequence of calls: `WordsStayWords` (`Types`), `IntegersImplemented`
(`ImplementsIntegers`), `OnlyLossSignsZero` (`SignedZeroIsLoss`) and `PrintedIsCanonical` (`PrintsCanonical`). A number is its `Units`
of the last place, `whole * B + frac`; lemmas about quotients and remainders show that `add`, `sub` and `mul`, with their
wrapped words and carries, compute sum, difference and product in these units (`AddsUp`, `SumsRight`, `ProductFits`,
`CutsProduct`), and `negate` and `compare` theirs. Reading adds up the digits one by one (`ReadState`): what it returns is the number that the digits denote (`ParsesRight`); printing takes
the fewest digits of the whole part and strips zeros off the fraction, and the text denotes the number (`TextOf`). The only invariant needed is
`Types`: what is promised of a call is about that call alone.

*Recursion.* The induction theorems of the library cannot be used, as they take an operator. Where a recursive function
matters (`Cut`, `Power`, the digits of a number), `UpTo`, `Recursion` and `Grown` replace them: they speak of sets of numbers or
sequences, and are proved from the well-foundedness of the natural numbers.

*Only model-checked*, and why:

- progress (every property with `~>` or `<>`): liveness and ENABLED are out of the prover's reach;
- the image program (`ReadsWhatItHolds`, `WritesWhatItMade`, `ImplementsImageTool`): five filters, each a recursion along a line, in a recursion along the
  lines, and every transformation in two versions, have to be unfolded for pictures of any size. TLC evaluates them on all the pictures of section 3.

## 5. Not modelled

- `~Server` (never reached: the accept loop has no exit), and the memory of messages in the queue of a User that is deleted.
- The wrappers of csapp.c and the functions of client_util.cpp that nothing calls.
- Parsing of arguments and traces, and printing. A line of a trace that does not parse changes nothing.
- zlib, CRCs that do not match, and PNG files that have their end but not all their image data: pnglite takes these as complete, and the rest of
  the pixels are whatever the memory held. 16-bit depths and call-backs for input and output, which image.c does not use.
- The doubled image that `create_output_img` makes for "rgb": the table has no such transformation.
- seqsort.cpp and gen_rand_data.c, which call `std::sort` and `rand` on a whole file. (seqsort empties its file before it writes the
  sorted words back, and does not look at the result of the last flush.)
- tctest.c and the unit tests.

## 6. Plan

Done: the models, their runs, and the theorems of section 4. Still worth proving, in this order:

| next | module | content |
|---|---|---|
| 1 | `ImgTool` | `WritesWhatItMade`: a file without filters reads as what it was written from, with the means of `StreamOfPieces` |
| 2 | `ImgTool` | `ReadsWhatItHolds`: every filter undoes what an encoder did, line by line |
| 3 | `ImgProc` | on every image with more than one row and column the versions in C and in assembly compute what imgproc.h says |
