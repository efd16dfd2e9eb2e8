# libsrsbsns: a verification project

libsrsbsns ("a serious library") is a C library of containers (ring buffer,
deque, stack, dynamic array, heap, binary tree, hash map, lists, graph), of
input and output helpers (`io_select`, whole writes, lines, a buffered reader),
of socket creation with timeouts, and of two loggers. This directory holds TLA+
models of it, the TLC runs that check them and the TLAPS proofs about them.
`PROJECT.json` lists the runs with their properties, the source lines each
definition stands for, the hazards of the code and the findings.

## 1. Inventory

The library has no threads and no global state but that of the loggers. An
object belongs to its caller; what happens "at the same time" is the outside
world: the kernel, peers, signals, the clock, and memory that runs out. What is
hard here is mostly of four kinds: index arithmetic at the ends of buffers
(wrapping, growing, shrinking), pointer structures with an iterator that outlives
the change of what it points to, functions that fail half-way, and calls that
wait.

| component | state | operations | hard because | correct when |
|---|---|---|---|---|
| ring buffer, `ringbuf.c` | `buf`, `bufsz`, `head`, `tail`, `num` | put, get, peek, clear, count | `head = tail` means empty or full; a cursor may stand one past the end; growing moves two pieces | it is a FIFO queue |
| buffered reader, `bufrd.c` | a ring buffer, `unget`, `eof` | read, getchar, ungetchar, getline, canread, buffered, eof | three sources to drain in order; short reads; lines longer than the buffer | it is an ordered byte stream with pushback |
| `io_select`, `io.c` | none of its own; `errno`, the caller's arrays | `io_select`, `select1r`, `1w`, `2r` | signals, early wake-ups, clock steps | it keeps its deadline and its caller's data |
| stream i/o, `io.c` | none | `io_writeall`, `io_vfprintf`, `io_read_line` | short writes, errors in the middle, end of file | a prefix is written; a line or its beginning is read |
| socket creation, `addr.c` | the list of candidates, the socket under way | `addr_mksocket`, `addr_bind_socket_dgram` | nine ways round the loop; two timeouts, measured by a clock that is read in several places | one socket survives, the one returned, and it is its address the caller is told |
| host specifications, `addr.c` | none | `addr_parse_hostspec`, `addr_parse_hostspec_port`, `addr_make_sockaddr` | brackets and colons; truncation | parsing inverts the documented form |
| binary tree, `bintree.c` | nodes with three links, `count`, an iterator | insert, remove, find, balance, traversals, iterator | relinking; an iterator over a tree that changes | a search tree of exactly the elements put in |
| pointer list, `ptrlist.c` | linked nodes, an iterator | insert, replace, remove, clear, iterate | positions at and beyond the ends; freed nodes | it is a sequence |
| string list, `strlist.c` | a pointer list, the strings it owns | the same, with copies | order of free and copy | each string is owned once |
| hash map, `hashmap.c`, `strmap.c` | two lists per bucket, paired by position; an iterator | put, get, del, clear, iterate | pairing; collisions; changes while iterating | it is a function from keys to values |
| heap, `heap.c` | an array | insert, remove, peek | sifting; growing | it is a priority queue |
| deque and stack, `deque.c`, `stack.c` | an array with its content in the middle; push counts | push, pop, peek at both ends, shrink, iterate | growing to the side that is pushed to | it is a sequence used from its ends |
| dynamic array, `dynarr.c` | an array, apparent size, nulling | get, put, push, truncate, shrink, iterate | growing to an index; unwritten places | elements stay; unwritten places read NULL |
| graph, `graph.c` | nodes and edges, marks | link, unlink, drop, depth- and breadth-first traversal | cycles; marks that stay; lists reordered by removal | traversals meet exactly what can be reached |
| loggers, `log.c`, `intlog.c` | two sets of static variables, one connection to syslog | target, level, colour, log | one connection for two; set-up inside the first message | settings mean what they say |
| `splitquoted`, `misc.c` | none | one call | quotes next to anything; cuts its input | it finds the words of the line |

How they interact: `bufrd.c` keeps its bytes in a ring buffer and asks `io_select`;
`addr.c` waits with `io_select` and computes times with `misc.c`; `hashmap.c` and
`strlist.c` are made of pointer lists, `strmap.c` of a hash map, `stack.c` of a
deque, the graph of dynamic arrays and a stack; everything that does input or
output reports through the internal logger, which itself uses a string map.
Callbacks (hash functions, comparisons, a graph's node and edge functions) run
in the middle of operations.

## 2. Conventions of the models

* One action is one call, or, where a call waits or loops over something that
  can go wrong in between, one step of it. `Next` is the disjunction of the calls
  with arguments from small sets.
* Where the C code would follow a null or a freed pointer or read outside an
  array, there is no outcome to model. Such a call is excluded by a guard, the
  comment says which, and PROJECT.json lists the place as a hazard.
* Memory that nobody wrote is `Junk` (`Garbage`), a value of its own. Properties say
  where it must not show.
* A variable called history in its declaration is not in the code; a property
  needs it.
* An operator marked *mutant* is a plausible bug. It is not used; PROJECT.json
  pairs it with the definition it would replace and the property that notices.
* Where a module needs what another one promises, it uses the abstract
  specification the other one is shown to implement, not its details; where the
  two take turns step by step (`addr_mksocket()` and `io_select()`), it extends the
  other.

## 3. Modules

Abstract specifications: `ByteQueue` (FIFO of bytes), `ByteStream` (bytes in
order, one pushed back), `ElementList` (sequence by position with an iterator),
`KeyValue` (function with a count), `PriorityQueue` (bag, least element out),
`Sides` (sequence used from both ends). A detailed module refers to its
specification by `INSTANCE ... WITH` a refinement mapping.

| module | stands for | state and its counterpart | implements |
|---|---|---|---|
| `Ringbuf` | `ringbuf.c` | the struct's fields, pointers as offsets; `pc`, `nbufsz` for the doubling loop of `ringbuf_put()` | `ByteQueue` |
| `Bufrd` | `bufrd.c` | `q` is the ring buffer, `wire` what the descriptor has | `ByteStream`; uses `ByteQueue`'s contract for `q` |
| `IoSelect` | `io_select()` | `left` is `tsend - now`, `tout` the kernel's timeout, `rfds` the set, `watch` the caller's array | |
| `Mksocket` | `addr_mksocket()`, `addr_bind_socket_dgram()` | `place` is the place in the loop, between any two reads of the clock as well; `hleft` and `softleft` are `hardtsend` and `softtsend` less the time now, `trem` is itself; `open`, `nonblock`, `connected` are facts about descriptors; `sockaddr` is whose address the caller's struct holds and how many bytes of it; `ahead` and `behind` are histories of the clock; while `place` is "select" the steps are `IoSelect`'s own | extends `IoSelect` |
| `Hostspec` | `addr_parse_hostspec()`, `addr_parse_hostspec_port()`, `addr_make_sockaddr()`, `strNcpy()` | pure operators; `hs` is the last call with its arguments and results | |
| `Addr` | a program that prepares an address and then has sockets made | `Mksocket`'s and `hs` | `Mksocket` (proved) |
| `IoStream` | `io_writeall()`, `io_vfprintf()`, `io_read_line()` | one step per `write()` and `read()`; `rbc`, `c`, `dest` of the reader | |
| `Splitquoted` | `splitquoted()` | pure operators, the loop as a fold over the characters; `splitted` is the last call | |
| `Commands` | a program that splits lines and reads and writes them | `IoStream`'s and `splitted` | |
| `Bintree` | `bintree.c` | `t` holds root, count and the nodes' fields | |
| `Ptrlist` | `ptrlist.c` | `next`, `data`, `live` are the heap's nodes | `ElementList` |
| `Strlist` | `strlist.c`, `str_dup()` | extends `Ptrlist` with `mem`, the blocks of the strings | `ElementList` of the blocks |
| `Hashmap` | `hashmap.c` | `keys` and `vals` are `ElementList`'s sequences | `KeyValue` |
| `Strmap` | `strmap.c` | extends `Hashmap` with strings as keys and two of the three hash functions | |
| `Heap` | `heap.c` | the struct's fields; `loop`, `node` for the rounds of `upheap()` and `downheap()` | `PriorityQueue` |
| `Deque` | `deque.c`, `stack.c` | the struct's fields; `lead` is `pfcnt - pbcnt`; `iter` is `Unset` until `deque_first()` | `Sides` |
| `Dynarr` | `dynarr.c` | `d` is the struct, `diter` its iterator; `written` is a history | |
| `Arrays` | a program that uses one of the three containers that are arrays | the three modules' | |
| `Graph` | `graph.c` | `out` and `in` are the dynamic arrays, `stack` the C stack or `stack_t`, `visit` the local variables of `trav_bfs()`'s inner loop; one step per edge | |
| `Logging` | `log.c`, `intlog.c` | `app` and `lib` are the static variables of the two, `conn` the process's connection to syslog, `env` the environment; `said`, `ident`, `asked` are histories | |

Composition. `Addr` is three levels of calls: a program (`Addr`) calls
`addr_mksocket()` (`Mksocket`), which waits in `io_select()` (`IoSelect`); programs
also call `io_select()` themselves, with other arguments, so its properties are
checked for both callers at once. `Strlist` is made of `Ptrlist`'s own steps;
`slist_clear()` is `ptrlist_clear()` with the iterator on the last node, where its
own walk has left it.
`Logging` holds the two loggers that share a connection. `Commands` and `Arrays` put
components side by side that share nothing; a behaviour uses one of them at a
time, which costs no interleavings.

`BufrdProofs`, `AddrProofs`, `ArraysProofs`, `StrlistProofs`, `HashmapProofs` and
`GraphProofs` extend the module they are named after with its theorems, and
with those of the modules it extends: `AddrProofs` is about `IoSelect`, `Mksocket` and
`Hostspec` as well, `ArraysProofs` about `Deque`, `Heap` and `Dynarr`, `StrlistProofs` about
`Ptrlist`. `IoProofs` is about `IoStream` and `Logging`, `RingTreeProofs` about `Ringbuf` and
`Bintree`, which have nothing in common but the module. A module `MCx` gives the constants of
`x` their values for TLC.

## 4. Runs, bounds, and what they show

Every run finishes in about two minutes or less with two workers. Deadlock is
checked in all of them. Symmetry is used in `hashmap` (values) and `strlist`
(blocks), names that the code only compares or copies, and never with a liveness
property. Where a module has one invariant that speaks for its component, its
type invariant and its smaller facts are named conjuncts of that one (`CursorsAgree`
apart, whose `TypeOK` is proved): `LineFits`, `NoSocketLeaks`, `SearchTree`, `OwnsStrings`
(with `NodesAreLinked` of the list below), `IterationVisitsUntouched`, `HeapOrder`,
`UnwrittenIsNull`, `ListsAgree`, `WritesInOrder`, `ProgramsMessages`.

| run | bounds and why they are enough | shows |
|---|---|---|
| `ringbuf` | sizes 0, 1, 3; chunks of up to 3 of two bytes; up to 5 queued: wraps, exact fits, growth while wrapped and one more growth after it | the circular buffer is a FIFO queue (`ImplementsByteQueue`), its cursors agree with its count (`CursorsAgree`), it grows only when it must and not too far (`GrowthIsTight`), a put returns (`PutReturns`) |
| `bufrd` | two bytes, one the newline; `read_more()` gets 3 at a time; lines into buffers of 1, 2 and 4; 5 bytes under way | ordered stream with pushback (`ImplementsByteStream`), lines fit and stop where they should (`LineFits`), `bufrd_canread()` leaves nothing behind (`Drained`) |
| `addr` | two candidates, IPv4 or IPv6, so that one fails and another follows; two descriptors; soft and hard timeouts absent, negative, or 1 and 2 ticks; every system call may fail; programs call `io_select()` as a poll, without a timeout and for two ticks; one step of the clock in each call, one tick back or two on, at any moment of it, and any number of signals; a deadline in the past is followed for one tick. Hostspecs: names of up to three characters, IPv4 and IPv6 addresses, six services from none to "99999", buffers in which nothing, the host or all of it fits | no socket leaks, nor the address list, and only own descriptors are closed (`NoSocketLeaks`); the right socket is returned, in the right mode, and the caller told its address, whose first 16 bytes are there (`ReturnedUsable`); a wait passes the timeouts by no more than the clock moved between the places that read it, through all restarts (`WaitBounded`), and with a hard timeout the call ends (`HardTimeoutEnds`); `io_select()` reports what is so (`ReportsTruly`: `NotBeforeDeadline`, `SignalsLeaveNoTrace`, `ReadyReported`) and returns (`SelectReturns`: `TimeoutEnds`, `WokenWhenReady`); parsing inverts the documented form and IPv4 addresses come out right (`HostspecsUnderstood`: `ParseInverts`, `MakesAddr4`) |
| `addr_six` | the same | *violation*: IPv6 addresses do not come out right (`MakesAddr6`) |
| `commands` | all texts of up to 3 bytes, a letter, the newline and NUL; the kernel keeps 2, so one text waits for room; a print buffer of 3, line buffers of 1 and 3; two writing calls. Lines of up to six characters over two quotes, a letter and a blank; arrays of 0, 1, 2 and 6 | short writes continue where they stopped (`WritesInOrder`); a terminated line or its beginning, and -1 at the end (`LineOrBeginning`); a write returns while the other side reads (`WriteAllReturns`); `splitquoted()` finds the words a recursive grammar says (`FindsWords`) |
| `bintree`, `bintree_remove` | all trees of four keys: a node with two children of which one has a child needs four | search tree with inverse links and a right count (`SearchTree`), iteration in all three orders and across changes (`IterationAgrees`, `IterationAscends`), balancing (`BalanceIsTight`); *violation*: removal loses others (`RemovesOnlyThat`) |
| `strlist` | three nodes, four blocks, two strings; positions 0 to 3 | the lists are a sequence (`ImplementsList`); no node leaks or dangles and each string is owned once (`OwnsStrings`), and freed with its place (`FreedWithPlace`) |
| `hashmap` | four strings in three buckets: the hashes are those of `strhash_small()`, compared with it by an assumption; three keys share one bucket, one bucket is empty; two values; memory does not run out | a function (`ImplementsMap`), iteration while the map changes (`IterationVisitsUntouched`, `IterationPairs`) |
| `arrays` | heap: ranks 1 to 3 with repetitions, up to 6 elements: three levels, two growths from an array of 2. Deque: initial sizes 0, 2, 3; up to 3 elements; pushes of one side exceed the other's by up to 3; arrays of up to 8 before a push; `malloc()` may fail. Dynamic array: first sizes 0, 1, 3, indices 0 to 3, with and without nulling | heap order between and during loops (`HeapOrder`), a priority queue (`ImplementsPriorityQueue`); the deque is a sequence used from its ends (`ImplementsSides`), its content within the array and written (`TypeOK`), a push returns (`PushReturns`); elements of a dynamic array stay (`OthersStay`), places never written or cut off read null (`UnwrittenIsNull`) |
| `graph` | all graphs of three nodes and three edges, with loops and double edges, two tags that differ | the lists of edges agree (`ListsAgree`), traversals are complete and exact (`VisitsAll`) and end (`TraversalEnds`) |
| `logging` | two levels, two source files and a third name, environments of up to two tokens with and without syslog and colours; a program that changes targets, colours and levels at any time | the program's messages look as it asked (`ProgramsMessages`: `FancyWasAsked`, `KeepsIdent`); the environment decides which of the library's are written (`EnvironmentDecides`) |

The bounds are the constants named *bound* in each module (`MaxFill`, `MaxStream`,
`MaxSteps`, `MaxAhead`, `MaxAddr`, `Calls`, `Nodes`, `MaxList`, `MaxHeap`, `MaxCount`,
`MaxBias`, `MaxSize`, `Index`, `Edges`, `Tags`) and the sets of arguments in the MC
modules; they guard the calls that would go beyond them and change nothing else.

Preconditions the runs rely on:

* `PutReturns` excludes a ring buffer created with size 0. Its doubling loop
  never ends: the first put that is not empty hangs. The other properties of
  `Ringbuf` include that size.
* `bufrd_getline()` is called with room for one byte at least, and `io_read_line()`
  as well.
* In `Mksocket` descriptor 0 is not among those `socket()` returns; 0 is what the
  hard timeout returns between two candidates. `ListFreed` and `OnlyOwnClosed`,
  conjuncts of `NoSocketLeaks`, exempt that return. Without a hard timeout the
  soft one is not used (`addr.c:196`), so `WaitBounded` and `HardTimeoutEnds` are
  are about calls with one. `getaddrinfo()` is not bounded by any timeout: the
  time it takes passes before the loop looks at the clock.
* `WaitBounded` does not say that the hard timeout is kept, because it is not:
  what is left of it is measured at `addr.c:177` and added to the clock's time at
  `io.c:149`, after another two reads and a log message. What the clock moves on
  in between (`ahead`) comes on top; a tick while `select()` waits does not, as it
  brings the deadline nearer by as much. A step of the clock forward brings
  the hard deadline nearer and not the kernel's timeout, a step back takes the
  deadlines away from the soft timeout (`behind`).
* `ReturnedUsable` says how much of the address the caller gets. `*sockaddr =
  *(ai->ai_addr)` (`addr.c:149`) copies a `struct sockaddr`, 16 bytes, of which an
  IPv6 address needs 28; `*addrlen` says 28 all the same. The model has the two
  families the code knows, and callers that pass both pointers.
* The iterator of a list whose node was freed is `Gone`, and no call is made that
  would follow it. `slist_clear()` on a list that is not empty leaves it so, and
  `slist_first()` on the then empty list does not reset it (`strlist.c:45-49`): a
  second `slist_clear()` is not made until the list has elements again, nor a
  `slist_next()` until `slist_first()` was called on it then. `OwnsStrings` and
  `FreedWithPlace` are about the other calls.
* `ParseInverts` promises the host back when its buffer holds the whole text
  after "[", because the function cuts a copy of that length apart. With a
  smaller buffer names and IPv4 addresses come back as beginnings; an IPv6
  address does not even do that. `MakesAddr4` speaks of services of up to five
  characters, as many as the local buffer takes, in texts shorter than 256, which
  fit the other one.
* `KeepsIdent` exempts an environment that sends the library's messages to syslog:
  then the program's carry the library's ident (section 7).
* `dynarr_truncate()` is called within the array's memory, and `dynarr_next()` and
  `deque_next()` after `dynarr_first()` and a `deque_first()` that found an element;
  the other calls read memory the array does not have or nobody set.
* `deque_resize()` computes with doubles. The model computes exactly; the two
  differ first at arrays of 25 places, which the run does not reach. The theorems
  about `Deque` are about the exact computation, too.
* `CountsNodes`, a conjunct of `SearchTree`, stops when nodes were cut off, by the removal that
  `bintree_remove` refutes; without that precondition it would report the same
  fault again.
* The runs keep `Hashmap`'s `MallocFails` FALSE and `Graph`'s `FreshTags` TRUE; the
  modules describe what the code does otherwise.
* `VisitsAll` needs a tag nobody carries. `rand()` may return one that is in use;
  then a traversal misses what carries it.
* `Graph`'s callbacks do not change the graph. `Hashmap` and `Bintree` are
  iterated while they change.

## 5. Fairness

* `Ringbuf`, `Deque` (in `Arrays`), `Graph`: `WF` of the steps of a call that has begun. A
  thread inside a function of the library keeps running.
* `Addr`: `WF` of the steps of `addr_mksocket()`, of `io_select()`'s loop and of the
  clock's tick; `SF` of the kernel's answers (`SelectAnswer`), because signals may
  interrupt `select()` again and again and each time take back the state in which
  it could answer. Nothing obliges a descriptor to become ready, a peer to answer
  or a signal to stop. `IoSelect` and `Mksocket` state the same for themselves.
* `Bufrd`: `WF` of a caller that reads whenever `bufrd_canread()` says so: the
  question `Drained` asks.
* `Commands`: `WF` of the writer's steps, which the kernel lets it take when there
  is room; `SF` of the reader's, as `read()` may fail but not every time; `WF` of the
  reading program asking for lines. `WriteAllReturns` says what it needs the
  other side for.
* `Logging`, `Hashmap`, `Bintree` and `Strlist` have safety properties only: their calls
  are single steps.

## 6. What is proved

Each theorem holds for every value of the module's constants that satisfies its
named assumptions, which say what kind of thing a constant is (a set of
natural numbers, a value that is not an element) and, in `Mksocket`, that
descriptor 0 is not free (`NotStdin`). The bounds are constants like others: the
theorems hold for all of them. Three kinds of theorems have a hypothesis besides,
each a thing the code needs and does not look after: that `malloc()` does not
fail (`~MallocFails`), that `rand()` returns no tag in use (`FreshTags`), and that the
length of what is written fits an `int` (`FitsInt`).

| module | theorem | statement |
|---|---|---|
| `RingTreeProofs` | `TypeCorrect` | `Spec => []TypeOK`: cursors in range, only bytes that were put are handed out |
| | `CursorsCorrect` | `Spec => []CursorsAgree` |
| | `GrowthCorrect` | `Spec => GrowthIsTight` |
| | `Refinement` | `Spec => ImplementsByteQueue`: the buffer is a FIFO queue |
| | `TreeSearch` | `TreeSpec => []SearchTree`: for every set of keys, with the links' inverse and the count |
| | `TreeIteration` | `TreeSpec => []IterationAgrees`: in each of the three orders |
| | `TreeAscent` | `TreeSpec => IterationAscends`: also when the tree changes meanwhile |
| | `TreeBalance` | `TreeSpec => BalanceIsTight`: the elements stay, the height is the least |
| | `TreeFinds` | `TreeSpec => []FindsElements`: a key is found exactly when a node has it |
| | `TreeAdds` | `TreeSpec => AddsOnlyThat`: an insert adds its argument and nothing else |
| | `TreeRemoves` | `TreeSpec => RemovesExactly`: a removal removes its argument, and when nothing else |
| `BufrdProofs` | `LinesFit` | `Spec => []LineFits` |
| | `BufrdIsByteStream` | `Spec => ImplementsByteStream`: an ordered stream with pushback, from the ring buffer's contract |
| `AddrProofs` | `TypeCorrect` | `Spec => []TypeOK` (`io_select()`) |
| | `ReportsAreTrue` | `Spec => ReportsTruly` |
| | `SocketsKept` | `SocketSpec => []NoSocketLeaks` |
| | `ResultUsable` | `SocketSpec => []ReturnedUsable`: with its own address, cut off as the code cuts it |
| | `WaitsBounded` | `SocketSpec => []WaitBounded`: wherever the clock stands when it is read, and however it is stepped |
| | `SocketReportsAreTrue` | `SocketSpec => ReportsTruly`: also for calls from `addr_mksocket()` |
| | `AddrImplementsMksocket` | `AddrSpec => SocketSpec`, and from it the four properties above of the composition that TLC checks |
| | `HostspecsAreUnderstood` | `AddrSpec => []HostspecsUnderstood`: for all texts and buffers |
| `IoProofs` | `WritesKeepOrder` | `Spec => []WritesInOrder` |
| | `LinesAreRead` | `FitsInt(m)` implies `Spec => LineOrBeginning` |
| | `ProgramsMessagesHold` | `LogSpec => []ProgramsMessages` |
| | `EnvironmentIsHeeded` | `LogSpec => EnvironmentDecides`: for every environment |
| `ArraysProofs` | `TypeCorrect` | `Spec => []TypeOK`: the deque's elements lie within the array, none is unwritten |
| | `DequeImplementsSides` | `Spec => ImplementsSides`: a sequence used from both ends |
| | `OrderKept` | `HeapSpec => []HeapOrder` |
| | `HeapIsPriorityQueue` | `HeapSpec => ImplementsPriorityQueue` |
| | `UnwrittenReadsNull` | `DynarrSpec => []UnwrittenIsNull` |
| | `OthersUntouched` | `DynarrSpec => OthersStay` |
| | `EachAlone` | `ArraysSpec => Spec /\ DynarrSpec /\ HeapSpec`: so all of the above of the composition that TLC checks |
| `StrlistProofs` | `PtrlistImplementsList` | `Spec => ImplementsList`: the linked nodes are a sequence with an iterator, for every number of nodes |
| | `StrlistImplementsList` | `SSpec => ImplementsList`: so are the strings' blocks, with the iterator `slist_clear()` moves |
| | `StringsOwned` | `SSpec => []OwnsStrings`: no node leaks or dangles, each block is owned once |
| | `StringsFreed` | `SSpec => FreedWithPlace` |
| `HashmapProofs` | `Inductive`, `IterationExact` | `Spec => []IInv`, `Spec => []IterationVisitsUntouched`, also when `malloc()` fails |
| | `HashmapImplementsMap` | `~MallocFails` implies `Spec => ImplementsMap`: a finite map, for every hash function |
| | `HashmapPairs` | `~MallocFails` implies `Spec => IterationPairs` |
| `GraphProofs` | `EdgeListsAgree` | `Spec => []ListsAgree` |
| | `TraversalsVisitAll` | `FreshTags` implies `Spec => []VisitsAll`: in every graph |

The inductive invariants, and why the properties need them:

* `Ringbuf`. `TypeOK` and `CursorsAgree` are not inductive by themselves. A get
  hands out bytes only if the queued places hold bytes (`QueuedBytes`); growing is
  right only if the doubling loop knows that what is to be put did not fit and that
  half of the candidate did not suffice either (`PutProgress`); and the size of the
  first piece of a wrapped content comes out right only because `head` is never 0
  while something is queued (`HeadMoved`): a cursor moves to the front when it is
  next used, not when it arrives at the end. `Refinement` shows that the copy at
  the end of a put appends the chunk to the abstract queue and that a get takes
  its beginning (`PutCopyRefines`, `DoGetRefines`); growing leaves the abstract
  content as it is (`RelocatedContent`, `SameContent`).
* `Bufrd`. `LineFits` and that no more is stored than was consumed; otherwise the
  stored bytes could be a prefix of the line as far as that goes and still be too
  many. The refinement turns on one fact, `DeliverKeeps`: what a read delivers,
  followed by what it leaves pushed back and queued, is what was there before; with
  `CutInTwo` that makes every read a `Take` of the stream.
* `IoSelect`. `Asking`: inside `select()` the set handed to the kernel is the
  caller's, and `errno` is the caller's whatever signals came before. `ReportsTruly`
  is an action property of the step that returns.
* `Mksocket`. `SockInv` says for each place of the loop which candidate it is at,
  which descriptor is open and in which mode (`Walk`, `Sockets`), what the early
  return leaves (`EarlyReturn`), that a wait is about this socket (`WaitBounded`), and,
  from the moment a remaining time is read, how far it may be out of date
  (`Measures`); `WaitBounded` alone says nothing of the steps before the wait. From
  `socket()` on the caller has been told the current candidate's address (`Told`).
  It includes `Asking`, since the loop's steps in the wait are `io_select()`'s.
* `Deque`. `Pending`: the push under way has an element, and an iterator nothing has
  overtaken stands on one. The core is `NewBackFits`: wherever the bias wants the
  elements, they fit behind the place computed for them, at both ends.
  `ResizeKeeps` then gives growth and shrinking, and each operation is compared
  with `Sides` element by element.
* `Heap`. `HeapOrder` says that only the loop's node is out of order, and
  `LoopInTree` where it is. That the root is a least element follows by descent: an
  element less than the root would have a parent less than the root
  (well-foundedness of the natural numbers). That nothing is lost is shown on
  cardinalities of the places an element is at.
* `Dynarr`. An array that was made is a record whose memory is as long as it
  says (`Good`). Every call is shown to move the elements into other memory that
  begins the same (`Carried`), and then to write some places (`Outside` says which it
  left); both properties follow from that. That memory is large enough needs that
  powers of two pass every number (`PowerBeyond`).
* `IoStream`. `Writer`: what was written is the buffer as far as `wbc` says, and a
  call that returned something else than -1 wrote all of it. `Reader`: the line
  has not ended and the buffer holds what fits of it. `LinesAreRead` needs that a
  length does not become negative as an `int`; `Ahead` is the invariant that counts
  all bytes that are on their way.
* `Hashmap`. `Placed`: a key is in the bucket of its hash, once. `Counted`: `count` is
  the number of keys, or more where a `malloc()` failed. `Reached`: the iterator is
  within its bucket. With `Paired` (the two lists of a bucket are of the same length
  and the i-th value is what was put last for the i-th key), which failing
  insertions would break, looking a key up, inserting in front and removing a
  place act on the function as `KeyValue` says (`LookupInFront`, `LookupRemoved`).
* `Graph`. `ListsAgree` with what is on the stack (`Stacked`). That a traversal visits
  all of it takes two more: `Sound`, what is marked is within reach and was called
  back for, and `DfsComplete` or `BfsComplete`: every edge of a marked node is marked,
  except behind the place of a frame on the stack or of the node that is being
  visited, and a marked edge leads to a node that is marked (or, in `trav_bfs()`, on
  the stack). When the stack is empty the marked nodes are closed under edges, and
  what is within reach is the least set that is.
* `Ptrlist`. `PInv`: the live nodes are linked in one chain from the head: `Linked` says
  that a sequence without repetitions begins at the head, that each of its nodes
  leads to the next, and that no other node leads anywhere; the iterator is on one
  of them, at the end, or on freed memory. The module computes the sequence by a
  recursive function; `ChainIs` shows that following the links gives it, and each
  operation is compared with `ElementList` place by place.
* `Bintree`. `TreeInv`. `Sound` says of the tree that every link leads to an allocated
  node and the parent pointer back (`Linked`), that the nodes can be ranked so that
  links lead down (`Acyclic`), that what hangs to the left of a node has lesser keys
  and what hangs to the right greater ones (`Ordered`), and that `count` lies between
  the number of nodes within reach and the number allocated (`Counted`), which
  removals that lose nodes preserve. `Recorded` says of the iterator that what was
  returned, followed by what is left of the walk at its node, is what the recursive
  traversal collects. `SearchTree` is not inductive: the links of nodes that were cut
  off, or the ranks, could be anything. With the ranks every recursive function of
  the module has the values its definition says (`Recursion`); what hangs below a
  node is the least set that its links close (`BelowLeast`). What is left of a walk
  (`PreRest`, `InRest`, `PostRest`) is a recursion up the parent pointers, and
  `PreNext`, `InNext` and `PostNext` show that a step of the iterator takes the first
  element off it. For `bintree_balance()`: inserting the middle first puts each
  element under the middles of the segments around it (`Heaped`), and so each node
  covers a segment (`Covers`) and is as high as halving the segment allows.
  `TreeRemoves` draws the line around the finding of section 7: a removal loses
  something else exactly when the node has two children and the node that
  replaces it has a left child.
* `Strlist`. `Owning`: the live nodes' blocks hold strings and no two of them share one.
* `Hostspec`. No invariant beyond what was called with what (`HostInv`). The text is
  described character by character (`Shape`: the host, a "]" behind an address, ":"
  and the service); from that the places `strchr()` finds, in the text and in every
  beginning of it, and what is cut out between them. That `strtoul()` gives a number
  needs that its recursion has a solution (`PlacesExist`).
* `Logging`. `Connected`: what the connection may be while the program's messages go
  to syslog, and that only an environment that says so gives it to the library.
  `KnowsSettings`: once `intlog.c` has a level, its level and its map are what its loop
  over the tokens computes. That the loop heeds the last setting for each file, and
  the last number, is a fact about each number of tokens (`Heeded`), which one more
  token preserves (`HeedKeeps`); the recursion has a solution (`LoopExists`).

Induction is by least counterexamples: a set of natural numbers that is not
empty has a least member (`NatLessThanWellFounded` and `WFMin`, which the provers
can instantiate with a set). The library's induction theorems take an operator
as a parameter, which they cannot.

Left to TLC: liveness (every leads-to property, and `Drained`), as it depends on
fairness and `ENABLED`; and `FindsWords`: the grammar that it compares `Splitquoted`
with (`Words`) is the one RECURSIVE operator. `Strmap` is the one module that
computes on bits. No module with theorems uses either. The height in
`BalanceIsTight` is compared with `LeastHeight`, which halves, and not with a power of
two, of which the provers know nothing.

## 7. Findings

A finding is a run that ends with a counterexample.

* `bintree_remove`: removing a node with two children cuts off the left subtree of
  the node that replaces it (`bintree.c:232`).
* `addr_six`: `addr_make_sockaddr()` strips brackets that were stripped before, so
  the documented "[a:b:c::h]:port" is refused, or taken for another address
  (`addr.c:442`).

Other places where the code disagrees with its own words or its apparent purpose,
which no run shows: `addr_mksocket()` tells the caller 16 of an IPv6 address's 28
bytes (`addr.c:149`) and waits for longer than the hard timeout by what passes
between its reads of the clock (`addr.c:177`, `io.c:149`); `slist_clear()` leaves the
iterator on a node it frees, and a second one follows it (`strlist.c:48`);
`hmap_put()` ignores failed insertions, after which keys and
values no longer pair up (`hashmap.c:116`); truncating a dynamic array beyond its
memory (`dynarr.c:61`); `TRAV_BFS` keeps the nodes ahead on a stack
(`graph.c:225`); the library's logger takes over the program's connection to syslog
when the environment sends its messages there (`intlog.c:167`); `splitquoted()` cuts
its input also when it only counts (`misc.c:97`; `FindsWords` says what is left).

## 8. What is not modelled

* Running out of memory, where the code does not look at the result of
  `malloc()`: the next access ends the program. It is modelled where the code
  goes on (`Hashmap`, `Deque`).
* Calls with undefined outcomes: see section 2 and the hazards without a property.
* The keys `hmap_put()` duplicates are not modelled as memory, as the strings of a
  string list are.
* Callbacks that change a graph while it is walked: nothing says whether they may.
* The dump functions, which only print; `dump_core()`, which forks and aborts the
  child; counting and finding functions, which only read; the construction of
  messages.
* `strhash_large()`: its 32-bit products are beyond TLC's integers. `splitquoted()`
  with an array of more than `INT_MAX` elements.
* Threads: the library has none and says nothing about them.
* Numbers that overflow: sizes near 2^31 or 2^64 are beyond any instance. In
  particular the theorems about `Dynarr` are about indices below 2^30, from which
  on the shift of an `int` that computes the new size overflows (`dynarr.c:84`);
  the model's power of two has no width.
* The backends of `addr_mksocket()` (`connect()`, `bind()`) beyond success, failure
  and "in progress"; name resolution; `inet_pton()` beyond the set of strings it
  accepts; the wrappers that only pass arguments.
* Unit tests, build files and scripts. The tests were read for what they state.

## 9. Plan

Done, in this order: the ring buffer with its proof, the buffered reader on its
contract, `io_select` and socket creation; the containers from the bottom (lists,
hash map, heap, deque, tree, graph); streams. Then host specifications,
`splitquoted`, the dynamic array, string maps and the loggers; socket creation on
`io_select()` step by step; the proofs of section 6, the binary tree's last.

To come, the most important first:

1. A proof of `FindsWords`, with `Words` as a recursive function of the places of the
   text.
2. Runs of what the present modules already describe: `Hashmap` with a
   failing `malloc()`, `Graph` with colliding tags, and its order of visits
   against a breadth-first one.
3. Compositions. `Graph` on `Dynarr` and `Deque` (a full stack grows during a
   traversal); `Hashmap` on `Ptrlist` instead of `ElementList`, which brings the
   lists' iterators and failing nodes together; `Bufrd` with `IoSelect` (a canread with
   a timeout that races data).
4. Callbacks that change a structure while it is walked, where the code has an
   outcome: `trav_dfs_r()` with links added behind it.
5. Keys as memory in `Hashmap`, for what `hmap_clear()` does not free.
