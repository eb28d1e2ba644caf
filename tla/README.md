# A verification project for slirp4tinc

slirp4tinc attaches a SLiRP stack (user-mode TCP/IP, libvdeslirp) to the UML
socket of a tinc daemon, so that a VPN node can reach the host net without root
access. One process, one thread, one `pselect()` loop, two handlers and two
packet rings:

    tinc --UML data socket--> UmlNetworkSocketPlug --u2s ring--> SlirpHandler --> libslirp
    tinc <-UML data socket--- UmlNetworkSocketPlug <-s2u ring--- SlirpHandler <-- libslirp

Paths below are relative to the repository. TLC checks small instances of the
modules; TLAPS proves the safety of the ring, of the program on top of it, of the chain,
of the plug's connection, of the streams, of the options and of the formatting for every
size, every number of participants and every input.

## Inventory

| component | state | operations | interacts with |
|---|---|---|---|
| packet ring, `src/Util/ProducerConsumer.h` | item flags, two pointer buffers with four indices, two counters, semaphores `free`, `item`, `mutex` | `produce`, `release`, `consume`, `cleanup`, `slotsAvailable`, `itemsAvailable`, `operator[]` | called by both handlers; written for many threads |
| semaphore, `src/Util/PosixSemaphore.*` | a POSIX semaphore | `init`, `acquire`, `release` | the ring |
| event loop, `src/Interface/FdSelectHandler.*` | an intrusive doubly linked chain, two wait flags per object | `addTo`, `removeFromChain`, destructor, `waitOn`, `checkAll` | calls `fd()` and `execute()` of the handlers, which may add to the chain and remove or delete themselves |
| UML plug, forwarding, `src/umlplug/UmlNetworkSocketPlug.cpp` | pointers to the rings, `runningTxPacket`, `myErrno` | `fd`, `execute` | rings, data socket |
| UML plug, connection, the same file and `src/umlplug/daemon_user.c` | `privData` (two sockets, three addresses), `xferFd`, `myErrno`, `errno` | constructor (`daemon_user_init`, `connect_to_switch`), `net_recvfrom`, `destroy` (`daemon_remove`) | kernel, tinc |
| SLiRP handler, `src/SlirpHandler.cpp` | pointers to the rings and to the stack | `fd`, `execute`, `destroy` | rings, libvdeslirp |
| program, `src/main.cpp`, `src/Slirp4TincTypes.h` | all of the above | wiring, the endless loop | |
| byte streams, `src/Interface/ByteStream*`, `src/Util/FdIoStream.*` | a non-blocking descriptor, `myErrno` | `write`, `read`, `writeBlock`, `readBlock`, `put_char`, `get_char`, `setFd` | kernel; a library that `main()` does not use |
| formatted output, `src/Util/PrintfToStream.*`, `HexdumpToByteStream.*` | none between two calls | `printf`, `vprintf`, `hexdumpToByteStream` | `put_char()` of a stream; not used by `main()` |
| callbacks, mutex interface, `src/Interface/Callback.h`, `Mutex.*` | none | call forwarding | not used by `main()` |
| option parser, `arg/` | the options and the lines of the help, the words of the last parse; pointers to the client's variables | `add_opt`, `add_help`, `find`, `remove`, `remove_all`, `parse`, the values' `set` and `to_str` | `main()` uses it once at the start, with three options; callbacks may end the process, errors are exceptions |

What is hard here:

* **The ring.** Decisions taken under the mutex (full? empty?) are acted on after
  it was released; counters and semaphores are updated in two steps; an
  overwriting producer competes with the consumers for the oldest item. Correct
  means: no assert fails, nobody shares an item, none is lost, the order is the
  order of `release()`, and a call that waits is woken.
* **The single thread on top of it.** Every wait on a semaphore would be a hang,
  and `produce(false)` on a full ring drops packets. Only the wait flags, renewed
  twice per round, prevent both.
* **The chain.** `execute()` may delete its object, take it out of the chain or add
  others in the middle of the walk. Correct means: the cursor never touches a dead object and
  every ready object is served exactly once.
* **The connection.** Seven calls in a row may fail; descriptors and memory must be
  given back once and only once, though closed numbers are reused by others.
* **The streams.** A block is cut short between two bytes by a full buffer, an empty
  one or an error. Correct means: the counts are exact, so that a client that
  repeats the rest loses and doubles nothing, and an error is not hidden by the
  bytes around it.
* **Formatting.** Integers pass through four types on their way to the text, and
  decimals are rounded apart from the whole number. Correct means: the text reads
  back as the argument, at the ends of the types, too.

* **Options.** What a word of the command line is depends on the options before
  it; keys and names may collide; help lines point to options that can be removed;
  an error leaves the effects of all that came before it. Correct means: every
  option gets the value that is its own, and nothing dangles.

The complete list, with lines, is `hazards` in `PROJECT.json`.

## Modules

| module | models |
|---|---|
| `PacketRing` | the ring as a record and each critical section as a pure operator on it; the invariant `RingInv` of the ring alone |
| `ProducerConsumer` | threads that call the ring, one step per semaphore operation or critical section |
| `BoundedFifo` | abstract: what the ring promises (a bounded FIFO queue that may drop its oldest element) |
| `Bridge` | the program: the loop, both handlers and both rings, composed from `PacketRing` |
| `FdSelectHandler` | the chain and `waitOn()`, with client code that changes the chain between rounds and, within the contract of `execute()`, inside it |
| `UmlPlug` | the life of the plug's connection, call by call, with the descriptor table of the process |
| `ByteStreams` | a sender and a receiver on non-blocking streams with the kernel's buffer between them |
| `PrintfToStream` | format parser, conversions and hexdump as functions, called once each, against a definition of how the text is read |
| `OptionValues` | the values of options (string, list, set, sub-options) and `Option::process()` as functions |
| `OptionParser` | the registry of options and `parse()`, one step per word or per character of a cluster, against a reading of `argv` as a whole |
| `PacketRingProofs`, `ProducerConsumerProofs` | the theorems about the ring, that it implements `BoundedFifo` among them |
| `BridgeProofs` | the theorems about the program |
| `FdSelectHandlerProofs`, `UmlPlugProofs`, `ByteStreamsProofs` | the theorems about the chain, the connection and the streams |
| `PrintfToStreamProofs` | the theorems about the formatting |
| `OptionParserProofs` | the theorems about the registry, the cursors of `parse()` and the shared variable, and that `parse()` does what `argv` read as a whole asks for |
| `MCProducerConsumer`, `MCBridge`, `MCFdSelectHandler`, `MCPrintfToStream`, `MCOptionParser` | instances for TLC |

### How state and actions correspond to the code

`PacketRing`: the fields of the record are the members of the class. An item is
its index in `itemBuffer`; each of its three flags is the set of items that have
it. `EatOldest`, `TakeFree`, `PutReleased`, `TakeOldest`, `PutFree` are the five
critical sections. The bytes of a packet are not part of a ring.

`ProducerConsumer`: a thread is at a label; a label stands for the next semaphore
operation. `produce()` is `ProduceLock`, `ProduceCheck`, optionally
`ProduceItemWait`, `ProduceLock2`, `ProduceEat`, then `ProduceFreeWait`,
`ProduceLock3`, `ProduceTake`; the other three methods likewise. The pointer that
a section works on is read in the step that takes the mutex and used in the step
that gives it back: nothing but the mutex keeps it fresh, and a mutant without
the mutex breaks the properties. The constructor runs before any thread and is
`Init`. A thread releases what it produced before it produces again.

`Bridge`: `Collect`, `Select` or `SelectNothing`, then `AskUml`, the two parts of
the plug's `execute()`, `AskSlirp`, and the two parts of the handler's: `pc`
forces the order of the code. The frames of tinc are numbered. What the kernel
and libslirp do is nondeterministic: descriptors may be writable or not,
receptions may fail, datagrams may be empty. `SlirpHandler::execute()` passes the
address of a local copy to `release()`; this is `Dangling`, and what is read
through it (asserts on flags, `fill`) is a free choice.

`FdSelectHandler`: an object is an address that can be reused after it was
deleted. `wants` stands for the two wait flags; it is forgotten between two calls of
`waitOn()`, which asks `fd()` for them before it looks at them. Between two rounds the client may
do anything to any object. Inside `execute()` it may construct and add objects, and destroy,
remove or delete the one that is being executed (`MayTouch`); that no other one leaves the chain there is
the contract of the comment at line 104. `fd()` and the wait flags of a derived class are chosen freely; the
second `fd()` of a round may want more than the first and never less, which is
what both handlers do (nothing takes slots or items away between the two calls
but a handler's own `execute()`). `FD_ISSET()` with a negative descriptor ends the
process, because `CMakeLists.txt:9` builds with `_FORTIFY_SOURCE=2`.

`UmlPlug`: one action per call of `connect_to_switch()` and its failure; the error
paths (`out_free`, `out_close`, `out`, then `daemon_user_init()` and the
constructor) are one step with the failing call. Other parts of the process open
and close descriptors before the construction and after it.

`ByteStreams`: the bytes of the message are numbered. A call of `writeBlock()` or
`readBlock()` is one step to begin and one per system call; the default block
loops of `ByteStream` (`AfterWrite`, `AfterRead`) go on or return. `::write()` and
`::read()` may take fewer bytes than asked for, `select()` may be wrong about
readiness, and any of them may fail; the end of a stream is the same step as
`EAGAIN`. `SetFd` gives a descriptor to a stream that was constructed without one.
`PrintText` is `PrintfToStream` on such a stream: a character at a time, the result of
`put_char()` ignored; `lost` keeps which characters were refused.

`PrintfToStream`: a text is the sequence of the characters that were put; `prints`,
`printi`, `dbl2stri`, `vprintf` and `hexdumpToByteStream` are the functions of the
same names. `Read` is one character of the format; the order in which the code looks
for flags, width, decimals and length is a stage that only grows inside of a
directive. Clients mean a directive and spell it (`Spelled`), so the properties
cover the way through the parser. `PrintMixed` is one call with a format of several parts: directives and
others, chosen from the list `Mixed`, with repetition. `int` and `long` have a number of bits, a `double` is
a whole number of 1/`Parts`.

`OptionValues`: a string is the sequence of its characters, because the code cuts it
at `=`, `,` and blanks. `Process` is both forms of `Option::process()`: it works on a record of
the client's variables and a status ("parse", "error" for an exception, "exit"). A
`SubParser` is an option whose value is a list of elements for other options.

`OptionParser`: an option is its address; `Erase` is the pair of loops of `remove()`.
The loops of `parse()` are the cursors `i` and `k`; its branches are `TakeWord`, `LongOption`,
`UnknownKey`, `Flag`, `AttachedValue`, `NextValue`, `NoValue` and `EndOfCluster`. The client adds,
removes and parses in any order and goes on after `parse()` has returned or thrown (`Return`). `add_opt_help()` and
`add_opt_version()` add options with the callbacks "help" and "version"; both call
`exit(0)`, and only the help may fail before (a default without a text), so the instance has this one. `main()` is one client among these: three options, one
parse, no handler for exceptions.

## Runs

| run | instance | shows |
|---|---|---|
| `ring_safety` | 2 producers, 2 consumers, 2 items, both modes | types, asserts, exclusive items, conservation, the inductive invariant of the proofs, refinement of `BoundedFifo` |
| `ring_progress` | 1 and 1, both blocking, 2 items, `ConsumingSpec` | `produce()` returns, released items are consumed, no deadlock |
| `bridge_forward` | rings of 2, four frames from tinc, one fault, two frames from SLiRP, `FairSpec` | frames reach SLiRP in order and without loss, no hang, every frame is forwarded while the process runs |
| `chain_walk` | 3 objects, `FairSpec` | the chain is a list, the cursor is valid, every ready object is executed exactly once, `waitOn()` returns |
| `plug_lifecycle` | 3 descriptor numbers | no leak on any failure, no null address, clean repeated destruction |
| `stream_transfer` | 4 bytes through a buffer of 2, two failures, `FairSpec` | every byte exactly once and in order, errors visible, the message arrives; printing loses the refused characters and no others |
| `print_reads_back` | `int` of 9 and `long` of 10 bits, 1/32 as resolution, up to 2 decimals, four widths, dumps of 0, 1, 16 and 17 bytes, formats of up to three of 15 parts | numbers and dumps read back, directives of one format do not disturb each other but for the decimals left to a `%f` without a point, `print_buf` is long enough |
| `options_parse` | a catalogue of 7 options of which up to 2 are added, 15 words, command lines of up to 3 words, 4 additions and words in sum | effects and words as read from `argv` as a whole, no dangling help line, values read back, list elements one by one, a variable set once stays, `parse()` ends; deadlock is checked |
| `ring_nonblocking_hangs` | 1 producer, 2 consumers, none asks to block | **violated**: finding 1 |
| `bridge_release_copy` | one frame from SLiRP | **violated**: finding 2 |
| `plug_failed_cleanup` | 3 descriptor numbers | **violated**: finding 3 |
| `plug_silent_failure` | 3 descriptor numbers | **violated**: finding 4 |

Bounds. Two items are the smallest ring on which order, wrap-around, full,
empty and everything in between differ; two threads of each kind are enough for
every race between two calls of the same and of different methods, and the
proofs remove both bounds. Four frames overfill a ring of two and make all
indices wrap. Three objects have a first, a middle and a last one, and leave
one to be added by the others' `execute()`. Three descriptor numbers are the two
sockets of the plug and one for others. Four bytes fill the kernel's buffer twice
and can be cut at every place. With 9 and 10 bits all digits, signs and wrap-arounds
occur, and the buffer of 6 characters is as tight as the 22 of the code are for 64
bits; the integers that are printed are the ends of both types and those of `Samples` around
powers of ten and sixteen; 31/32 is the fraction that carries with 0 and with 1 decimal; three parts are a
directive with a point, something between (also another point), and a `%f` without one. The catalogue has
two pairs of options with the same key, one with the same name, one option with neither
help line nor name, one for each kind of value, and one for the help; the words are
clusters, long options, values with blanks, commas and `=`, and empty ones. Four
additions and words (`MaxWork`) allow two options (`MaxOpts`) on two words, one option on
three, a second parse after a first, and any number of removals between; a collision of
keys or names is one of two options; the interplay of a value
and the word after it needs two words, and a third shows what follows it. `CHECK_DEADLOCK FALSE` stands where
clients may stop calling, where traffic ends, or where a modelled process has
died; `ring_progress` and `options_parse` check for deadlock.

Fairness. `FairSpec` of the ring: a call that has begun goes on whenever it is
continuously able to, which is what a preemptive scheduler gives; nothing is
assumed about who wins a contended semaphore. `StrongSpec`, stronger than
`sem_wait()`, is used only to show that a hang is not a matter of scheduling.
`ConsumingSpec` adds a consumer that keeps calling. `FairSpec` of the bridge: the
loop runs (`pselect()` has a timeout of 100 ms), and `pselect()` does not ignore for
ever a readable UML socket, or a SLiRP descriptor that is writable again and
again. `FairSpec` of the chain: `pselect()` and `execute()` return. `FairSpec` of the
streams: both clients repeat their calls, as users of a non-blocking interface
must, and the sender does get a descriptor between two calls.

## Findings

1. `consume(false)` can block (`ProducerConsumer.h:206`): the item seen at the check is
   taken by somebody else before the wait. The property also fails for
   `produce(false)` of a single producer (line 139, TLC shows it with
   `ConsumeModes = {TRUE}` and one consumer): when all items were in consumption at the
   check, it waits for an item to overwrite although there is room again; the
   comment at line 25 excludes it.
2. `SlirpHandler.cpp:41` copies the item and releases the copy; the ring holds a
   pointer to a dead stack frame from then on.
3. `destroy()` after a failed connection frees an uninitialised pointer
   (`daemon_user.c:172`) and closes a number that was closed before (line 169).
4. The constructor (`UmlNetworkSocketPlug.cpp:26`) keeps `errno` instead of the
   result: a short handshake leaves an unconnected plug without an error.

Finding 1 needs several threads and does not concern the program as it is:
`NeverHangs` shows that the single thread never waits.

Seen while modelling, without a run of their own:

* `UmlNetworkSocketPlug.cpp:90` writes through `runningTxPacket`, which is never set: the
  process ends at the first packet from SLiRP to tinc (`status = "segfault"` in
  `Bridge`). With finding 2 this means that this direction does not work; the
  properties of the other one hold beside it.
* `FdSelectHandler.cpp:101` tests a negative descriptor that line 69 skips: an object that
  `destroy()`ed its connection and still waits for something ends the process in the
  build with `_FORTIFY_SOURCE=2` (`pc = "aborted"` in `FdSelectHandler`).
* Only the executing object may leave the chain inside of `execute()`: `waitOn()` has saved its
  neighbour (`FdSelectHandler.cpp:105`), and if `execute()` removed or deleted that one, the walk would go
  on with an object that is gone. The comment at line 104 allows the one and does not mention the
  other, nothing in the code prevents it, and neither handler does it. The model and the theorems about the chain take
  it as a contract, as they do with `addTo()` of an object that is already in a chain (line 28).
* `FdSelectHandler.h:23` says "append", `addTo()` prepends.
* `printi()` with the zero flag and `-` or `+` pads `5` to `5000` or `000+5`; `%+d` prints 0
  without a sign; a negative double whose whole part is 0 loses its sign; `%-w.df`
  loses leading zeros of the decimals, and its width wraps around when it is smaller
  than the number; a whole number above `INT_MAX` is printed as a negative one. The
  properties of `PrintfToStream` leave these out and say so.
* `dec_width` is set to 0 once per call (`PrintfToStream.cpp:300`): a `%f` without a point has the decimals of
  the last directive before it with one, whichever its conversion. `DirectivesApart` states this. A directive
  that the format ends in the middle of reads behind the terminator; characters
  that the stream refuses are lost and counted, and an error of one is hidden by the
  next that succeeds.
* `FdIoStream::readBlock()` without a descriptor calls `FD_SET(-1)`.
* `Parser::remove()` of a key or name whose first option has no help line removes the
  line of another option (nothing dangles, but the help is incomplete). The long
  option `--` finds an option without a name; a lone `-` is dropped. The value of an
  option is stored before "can not re-set" is thrown. Long options are cut at
  the first `=`, elements of a `SubParser` at the last. An empty element is an unknown
  name, a trailing separator is accepted. Blanks in front of a string are dropped
  and blanks behind it are an error, which `main()` does not catch. `--n=` for a number
  stores an uninitialised value. A list whose last element is empty does not read back.
  The help throws when the default of a set has no name. An `int` that `set()` names
  without `once()` has no model: `CatalogueAssumption` asks for `once`, and `main()` uses neither. Nor has the
  help of a `SubParser` with defaults to show; without them it cannot fail (`SubOptions`).

## Proofs

Proved by TLAPS, for every value of the constants that the named assumptions allow.
Each invariant is proved from an inductive one, `IInv` (`Init => IInv`,
`IInv /\ [Next]_vars => IInv'`), which TLC was asked about first.

| module | theorems | for every |
|---|---|---|
| `ProducerConsumerProofs` | `TypeCorrect`, `AssertsNeverFail`, `ItemsExclusive`, `ItemsConserved`, `RefinesFifo` (the ring implements `BoundedFifo`) | `ItemNumber > 0`, finite disjoint sets of producers and consumers, choice of modes |
| `BridgeProofs` | `TypeCorrect`, `FramesStayInOrder`, `LoopNeverHangs` | `ItemNumber > 0`, number of frames in each direction and of failures |
| `FdSelectHandlerProofs` | `TypeCorrect`, `ChainStaysList`, `CursorStaysValid`, `ReadyIsServed`, `NobodyServedTwice` (an action property) | finite set of objects; `execute()` removes or deletes no object but its own |
| `UmlPlugProofs` | `TypeCorrect`, `FailureLeaksNothing`, `AddressesThere`, `DestroyIsClean` | set of descriptor numbers of the process |
| `ByteStreamsProofs` | `TypeCorrect`, `ExactlyOnce`, `ErrorsAlwaysShow` | length of the message, capacity of the buffer, number of failures (`ErrorsAlwaysShow` leaves out printing) |
| `OptionParserProofs` | `TypeCorrect`, `HelpLinesStayAlive`, `SetOnceSticks` and `ParseMovesOn` (action properties), `ArgumentsAreTheWords`, `EffectsAreTheUses`, `ElementsAreOneByOne` | catalogue of options in which those that set the shared variable do so once, options of a `SubParser`, set of words, number of calls |
| `PrintfToStreamProofs` | `TextIsCounted` (types and counts), `NumbersReadBack`, `NumbersFitTheBuffer`, `DirectivesKeepApart` | sizes of `int` and `long` from 2 bits on, the `int` not the longer one; length of `print_buf` that holds the digits of a `long`, a sign and a null; integers to print, widths that fit an `int`, decimals that fit an `unsigned int`, resolution of a `double`, lengths of dumps, list of parts and number of them in a format; `NumbersReadBack` leaves out the zero flag together with `-` or `+`, where the code does not read back |

**The ring.** None of the four properties is inductive. That the pointer in
`freeBuffer[nextAdd]` is not null and not in use follows from the *shape* of the
buffers: `Window` says that exactly the entries from one index up to the other are
set, `NoDuplicates` that they differ. That the window is not empty when a thread
reads it follows from `Conservation`: the thread has taken a token that the counters
do not show yet. That the token is still good follows from `MutualExclusion` and
`FreshPointers`. `IInv` is the conjunction of these and of the types and `HeldItems`.

The argument has two layers. `PacketRingProofs` shows that each critical section
keeps `RingInv` under its precondition, with two lemmas about a window that
shrinks at its first and grows at its last index, so that the modular arithmetic
is dealt with once. `ProducerConsumerProofs` counts threads (`CountStep`: a step
moves one thread between two label sets), shows what each kind of step does to
each conjunct, and has one step per action in `NextIInv`.

**The ring as a queue.** The queue of `BoundedFifo` is `ReleasedQueue(ring)`: the
window of `releasedBuffer` read from its oldest entry. `QueueAppends` and
`QueueShrinks` (both in `PacketRingProofs`, because the program needs them, too) say that `PutReleased` is an `Append` and `TakeOldest` and `EatOldest`
are a `Tail` of it, across the wrap of the index; every other step leaves queue and
held items alone (`QuietSimulation`). The steps of the threads then map to `Release`,
`Take` and so on, or to a stutter, under the invariant of the ring.

**The program.** Between two calls of its only thread a ring is `Quiet`: `RingInv` holds,
nothing is in anybody's hands and counters and semaphores agree (`Balanced`), so no call
waits. `Answers` carries what `fd()` and `pselect()` have said to the place where
`execute()` acts on it: a plug that reads has a datagram *and* a free slot. With the
slot, `produce(false)` does not look for an item to overwrite (`NothingOverwritten`), and
the frame ends up behind those the ring holds (`QuietProduces`, `HeldGrows`). So
`FramesInOrder` is a statement about one sequence, what libslirp has got, what the ring
holds and what the socket holds, joined: a call only moves its inner borders
(`HeadMoves`), tinc appends the next number (`NextAtTheEnd`), and an empty item may come
or go anywhere (`EmptyAnywhere`). Of the other ring only indices and counters keep their
types (`LooseRing`), because the pointers in it are not its own (finding 2); that is
enough for `NeverHangs`.

**The chain.** "The links form a list" is stated without walking along them: there is
a numbering of the objects in the chain from 1 on such that the links lead from each
number to its neighbours (`InOrder`). `addTo()` numbers the new object 1 and moves the
others on, a removal closes the gap (`AddOrder`, `RemoveStep`). `Round` says for the same
numbering that every object that is ready lies at or behind the cursor or has been
served, and that those which have been served lie before it; with that, serving
everything and serving nothing twice are two sides of one invariant. `execute()` keeps it because the
object it may remove is the one just served, so that the cursor saved behind it stays in the chain; this is
where the contract of line 104 is used.

**The connection.** `SocketsInv` and `BlocksInv` say, for each label of the sequence of
calls, which numbers and blocks the plug holds; the leak and the null address are
then read off. `HarmInv` relates the numbers in `privData` to the descriptor table,
which other parts of the process change, too; that a number given to the plug was
free before needs that there is a lowest one, from `WellFoundedInduction`.

**The streams.** `ExactlyOnceInOrder` is a statement about one sequence, what has been
received, what the current block holds and what is in the kernel, joined. A write
appends the next numbers to it (`BytesPlaced`), a read only moves the borders between
its parts (`AfterReadStep`), a refused character of `printf()` is skipped
(`NothingPlaced`). `CallsGoOn` adds that only printing goes on after an error, which
`ErrorsShow` needs.

**The options.** Line and option are looked for separately, so `HelpLinesAlive` needs that
both lists are in the order of registration (`OptionsInOrder`): then the first line that
matches cannot be that of a later option than the first option that matches (`Erased`).
Removing from a sequence is dealt with once, as an operation on the entries of any set
(`WithoutKeeps`). `CursorInv` keeps both loops of `parse()` inside of `argv`. For
`SetOnce`, `ProcessSticks` follows the shared variable through `process()`. A `SubParser` does so
for each of its elements, and both the cutting of the list and the run through its
elements are recursive: that these functions exist (`PiecesExist`, `AftersExist`) and
what they preserve (`PiecesAreSequences`, `SubSticks`) is shown by the least number at which it
would fail, which `LeastNumber` gives for each of these sets, as the induction theorems
with an operator as parameter cannot be used.

`WordsAsRead` and `EffectsAsRead` compare what `parse()` has done word by word with a reading of the
whole `argv`, so the invariant has to say what is true in the middle of it. `ReadingInv`: the
cursor `i` is not at a word that the reading gives to the option before (`ValueWords`), `k` is not
behind the character that ends a cluster (`Stop`), and the collected arguments are
`WordsTo[i - 1]`. `DoneInv`: what has been done is the outcome of the words before `i` followed by
that of the first `k - 2` uses of the cluster at `i`; after an exception or `exit()` it is
`Outcome` itself, because uses that follow the end take no effect (`OutcomeSticks`,
`NothingBehindTheEnd`). Each step of `parse()` then is one more use, or the end of one word. That
the reading is defined for every `argv` (`WordsTo`, `AfterUses`, `OutcomeTo`, `ValueWords` are
recursive functions) follows once from `CountUp`. For `ElementsOneByOne` the pieces of `a,b` are shown to be
those of `a` followed by those of `b` (`PiecesOfBoth`), from the last comma on backwards, because that is
how the list is cut, and the run through the elements splits at the same place (`SubOfBoth`).

**Formatting.** The numbers: `Digits` is a recursive function of the number, so what is true of it
is shown by counting up to a bound (`CountUp`) from each number divided by the base to the number
itself (`DigitsUp`). Below `base^n` there are at most `n` digits (`DigitsFit`, from which
`NumbersFitTheBuffer` follows); they read back as the number and have no leading zero
(`Faithful`, `DigitsReadBack`). The way of an `int` through `unsigned long` and back ends at the value that the
conversion asks for (`ValueStored`). `WellPrinted` says how sign, zeros, digits and blanks are put
together for each combination of flags (`PrintiRight`), and `WellPrintedReadsBack` finds the same
parts again by their places, as the property does.

The parser: `vprintf` is a run of `Read` over the characters of the format, and a run over a joined
format is a run over its first part followed by one over its second (`ReadBoth`). A directive is read part
by part, as it was spelled (`SpelledInParts`, `PrefixReads`, `DirectiveReads`); the digits of a width are
the digits of a number again (`NumeralsRead`). `Apart` says of a format what it prints in *every*
context: whatever was printed before, whatever arguments follow, and whatever the flags and width of
an earlier directive have left in the variables, the decimals excepted: it has a number of decimals before and one
after. Every part has it (`PartKeeps`): a directive with a point leaves its own decimals, any other part those it found.
Joining two formats keeps it (`ApartBoth`), and so does joining any number of parts (`MixedPrints`, by `CountUp`), with
the decimals after each part those that the last point before it has set (`DecimalsStep`). For the types, the same reading shows that each call writes as many bytes as it returns
(`DirectiveWritten`), and a dump is the sum of such calls (`TogetherRight`, `LineRight`). The state of
`PrintfToStream` is that of one call, so the invariants need no strengthening over its steps
(`OneCallAtATime`).

Only model-checked, and why:

* All liveness (`ProduceReturns`, `ReleasedIsConsumed`, `EveryFrameForwarded`, `RoundEnds`,
  `MessageArrives`): fairness and `ENABLED` are out of the prover's reach.
* `DoubleReadsBack` of the formatting is a statement about the instance: it holds as long as the
  power of ten of the decimals, multiplied with the fraction, fits an `unsigned int` (with more
  decimals `mult` wraps around in the code), and rounding is arithmetic with products of
  variables, which Z3 does not do.
* `HexdumpReadsBack` holds only of addresses whose numeral has at most the 8 digits that `%08lx`
  pads to; a longer one moves the columns of its line. What is proved of a dump is that it consists of
  bytes and is counted (`TextIsCounted`).
* `DefaultReadsBack` of the options: it depends on the values that the client's variables have at
  first and on the table of the set, both part of the instance, and `SetTable` is a fold, whose
  operator is a parameter of the library's definition.

## Not modelled

Packet bytes, sizes and truncation; the message texts on stderr; `exit(-1)` when a
semaphore call fails; `SlirpHandler::destroy()`, which is never reached because
`main()` does not return; `write()` and `read()` of `ByteStream` itself, a null device without
state; formats that end inside of a directive. Callbacks (`Callback.h`) only forward a call
to a function pointer that never changes, and the mutex interface has no implementation:
there is no state to model. Of `arg/`: conversions of numbers by iostream and `RelValue`, the layout of
the help, destructors. `operator[]` is not called. `addTo()` of an object that is already in a
chain is excluded by contract.

## Plan

Done: the ring with its proofs, the composition, the chain, the connection, the
streams with printing, the formatting with its parser, the option parser. A thread
that holds several items of the ring needs no model of its own: each of its calls is a
call that another thread could make, and the threads release in any order.

Proved: every safety property of the runs that pass, but `DefaultReadsBack` of the options and
`DoubleReadsBack` and `HexdumpReadsBack` of the formatting, for the reasons given above. Left to do
are only these: the first two would have to be stated with the conditions on the client's tables and on
the number of decimals under which they hold.
