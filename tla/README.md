# Verification of NDP

NDP ("near-data processing") is a collection of prototypes for running code
next to memory that lives on another machine: a message protocol, a server that
hands out buffers of pages, a remote procedure call triggered by a page fault,
and small programs used as workloads. This directory holds TLA+ models of
these programs, the TLC configurations that check them on small instances, and
theorems checked by TLAPS. `PROJECT.json` lists every run, every definition's
source lines, the hazards considered and the theorems.

## The system

| Part | Source | What it does | Modules |
| --- | --- | --- | --- |
| Message framing | `userfaultfd_rs/bolt` (codec, buffer) | msgpack header (kind, u32 length) and body over TCP; `read_next` reassembles them in a `BytesMut` | `BoltFraming`, `MessageChannel`, `BoltFramingProofs` |
| Read buffer capacity | `userfaultfd_rs/bolt` (buffer) | `regrow` after each message | `BufferCapacity`, `CapacityGraphProofs` |
| Page server | `userfaultfd_rs/edge_server`, `edge` | a tokio task per connection; alloc, read and write on mmapped buffers in an arena behind a `RwLock` | `PageServer`, `PageServerProofs` |
| Server start, client program | `userfaultfd_rs/bolt` (nodes), `edge_server`, `edge_client` | find a port; connect, allocate, then write and read back chunk by chunk; several clients at once | `Throughput`, `ThroughputTaskProofs`, `ThroughputProofs` |
| RPC by page fault, function table | `userfaultfd` (C++), `userfaultfd_rs/edge_client`, `edge` | a caller touches a missing page; a handler thread looks up and runs the function and copies the page in | `FaultRpc`, `RpcSumsProofs` |
| Chat | `POC-client-server` | half-duplex chat that passes a turn | `Chat`, `ChatMerkleProofs` |
| Sorting workload | `microbenchmarks/sortingArray` | sort, replace an element, sort again | `Sorting`, `SortingProofs` |
| Summing workload | `microbenchmarks/sumArray` | sum, least or greatest of an array, again after each replacement | `Sums`, `RpcSumsProofs` |
| Dynamic array workload | `microbenchmarks/dynamicArray` | append to an array that doubles | `DynamicArray`, `CapacityGraphProofs` |
| Graph workloads | `microbenchmarks/graphs` | breadth-first search, Dijkstra's algorithm | `Bfs`, `Dijkstra`, `CapacityGraphProofs` |
| Merkle tree workload | `microbenchmarks/merkle-tree/rust-version` | hash tree over a blob whose bytes the user sets | `MerkleTree`, `ChatMerkleProofs` |

The parts interact like this. The client and the page server exchange bolt
messages. `BoltFraming` shows that framing over a byte stream implements
`MessageChannel`; `PageServer` therefore works with whole messages.
`Throughput` extends `PageServer`: its clients replace the arbitrary clients of
`PageServer` and use its `Send`, `Receive` and `Close`. The fault RPC shares no
state with the page server; `edge_client` in Rust runs one call before it
starts its throughput clients. The workloads are programs of their own;
`MCWorkloads` puts them side by side, one per behaviour, so that one run checks
them.

## The models

### BoltFraming

A byte stream is represented by positions. `wire` is the sequence of messages
written with the position where each starts; `produced`, `received` and
`consumed` are how far the sender has pushed, the socket has delivered and the
reader has taken. `received - consumed` is `buffer.len()`, `header` is
`header_with_target`. `write_to` encodes a message with its length modulo
`U32`; `Push` moves any number of bytes; `read_buf` delivers any number of those
available, so that every split of a stream into reads is covered. The rest of
`read_next` (header attempt, state, decode, header of the next message) is done
in the step that ends in an await or a return, as in the code, where nothing
else can touch the buffer in between. Errors of the header decode are dropped, as
in the code. The close of the peer and a socket error may come at any time.

All of this is about lengths below `U32` where a property says so. `write_to`
casts the body's length and `get_state` the buffer's, and neither is checked. When
one wraps, order, alignment and justified errors still hold (they are proved for
every `U32`), but liveness does not: a buffer whose length is a multiple of
`U32` looks empty, and `read_next` awaits bytes that it already has. With `U32`
set to 4 or 8 and a body of 5 bytes TLC finds `ImplementsChannel` violated in this
way. Hence `NoStall` and `NothingLostAtEnd` are conditional on the buffer's
length, and `bolt_framing` uses a `U32` that no length reaches.

A message is reduced to its kind, the length of its header and the length of its
body. `HeaderParses` and the decoders stand for rmp-serde: a header decodes when
all its bytes are there.

### BufferCapacity

The same loop seen from `capacity()` and `len()`. `reserve` is nondeterministic:
it yields any capacity that leaves the requested room. The comment at the call
(`codec.rs:265`, "Grow the capacity back to the original buffer capacity") is more
than `regrow` does: `reserve(initial - capacity)` does nothing when that much room
is free, so the capacity may stay below the original one. `HalfRegrown` is what
holds.

### PageServer

One task per client. Its steps are the stretches between awaits: `ReadRequest`,
`handle_access` (lock, handle and bounds check of `handle_read` and
`handle_write`), `copy` (one byte), `CopyDone`, `handle_alloc` and `Insert`,
`Reply`. Copies take a step per byte because tasks that share the read lock run
in parallel on worker threads. The `RwLock` is tokio's first come, first served
semaphore. A handler's error is an `unwrap` in `run`: the task ends and its
guards are dropped. `U64` is the number of values of a u64; with
`OverflowChecks` an addition that would wrap panics, as in a debug build.
Clients pipeline any requests, read late and disconnect at any time. A `CALL`
request ends the task, because `RequestBodyOwned::read_from` has no arm for it;
`handle_invoke` is unreachable. The read and write mutexes of the two socket
halves are left out: only the connection's own task ever locks them.

### Throughput

`write_read_throughput`, statement by statement between its awaits. `Fill` is
the random content. The reply to a write is not looked at, as in the code.
`alloc_example` is the case of a single chunk. A client may be killed at any
point.

Before that comes the start. `try_listen_on` binds the port the server was told
to use, and any free one if that is taken; another error ends it. `connect`
goes to port 9090, which is the default of the server but need not be the port it
has: a client then finds nobody, or the program that holds the port
(`elsewhere`, after which nothing is said of it). An error of `accept` ends the
server with all its tasks.

### FaultRpc

The request and response buffers are plain variables, and each load and store of
them is a step. `present` says whether the invoke page is mapped. `poke`
suspends the caller and queues a fault if it is not. The kernel is modelled from
how it is used: `respond_with` (UFFDIO_COPY) maps the page, resumes every
waiting thread and discards their unread faults, and fails with EEXIST if the
page is there. `Init` chooses the program: a client, which has one caller in
`threads` and registers the function, or the C++ server, with a caller per
connection. The server does not register it; several callers with a registered
function are the server with its missing `set_handler` added, which is no
program of the repository and is checked for what its buffers and handler would
do. Only a client, whose single main thread is its one caller, drops the page.
`VolatilePoke = FALSE` stands for an optimised build of the Rust client, which
may drop its unused load. The arguments are constant per program (`fib_n`, and 1
in the server); calls with different arguments without dropping the page would
return stale answers, but no program makes them.

`setup` follows main through the mapping of the buffers, the userfaultfd, the
registration of the invoke page, the function table and the start of the
handler. Every system call may fail. Rust returns each of these errors. In C++
`register_mem` does not notice a failed UFFDIO_REGISTER: it stores the outcome
of `ioctl(...) < 0`, 0 or 1, and tests whether that is negative. The page is
then not `watched`, the kernel fills it by itself, and the call returns the
response as it was mapped; `AnswerCorrect` names this exception. `fns` is the
set of table slots that hold a function. The C++ bounds check lets the slot one
past the end pass, which no program uses (`TableAssumption`). An invalidation
may fail, and the handler may fail to map the page that it copies, which in Rust
ends only its thread (`CallReturns` names that exception).

### Chat

Each program is a control point, the first character of its buffer and
`exit_func`. A word is its first character, and a 1024-byte send is taken to
arrive in one recv. On a closed connection recv leaves the buffer alone, which
decides whether a loop ends. The duplicate declaration in `server_poc.cpp`, which
keeps it from compiling, and failures to connect are left out.

### Sorting

The two sorts are recursive functions, the loop of `main` is the state machine:
`Sort` and `Replace`. `merge` says for each place of `arr` which element of `L` or
`R` its loops store there; `stored` counts, round by round, how many of `L` are
stored already, and `FromL` is the choice that the three loops make together.
`mergeSort` is a function of the calls it makes (`Calls`: an array and two
indices), and `outer` and `inner` are the two loops of `bubbleSort`. `input` remembers the array that was last passed to the
sort, and `algorithm` is `argv[2]`. The properties compare the result with what
sorting means, not with another sort: `OrderedAsCalled` says that `mergeSort`
sorts the array and `bubbleSort` all but its last element.

### Sums

The three functions over an array, and main's loop. The array holds ints and the
functions use uint64_t, so a negative number counts as a large one. `scanf` reads
two numbers, one or none, and what it does not read is used as it was, at
first uninitialised. `ResultAgrees` says what is printed in terms of the ints: the
right number while none is negative.

### DynamicArray

`addElement`, with the doubling of `resizeArray`, and the `getElement` that
follows it in main. `getElement` compares the counter, not its index, with the
size, so it returns -1 for the number that fills the array exactly; `PrintsAdded`
has this exception.

### Bfs

The graph is built edge by edge between any two of the values `rand()%101` can
have, 100 of which are vertices; then the search runs neighbour by neighbour. The
queue is the array with `front` and `rear`. The vertex one past the end is memory
outside both arrays: it behaves like one more vertex or is `undefined`.

### Dijkstra

One action per round of the loop. `nextnode` is uninitialised until a vertex is
found; a first round that finds none reads it (any vertex, or `undefined`).
`ShortestPaths` compares the distances with the least over all paths (`Within`) and
follows `pred`. Weights are not negative, since the matrix is that of a graph, and
below `INFINITY` (`MatrixAssumption`): the code takes 9999 for "no path".

### MerkleTree

`MerkleNode::new` is recursive on halves of the blob; a digest is the block
itself, and a tree is its root with the set of nodes below it, because nothing
follows the links. `NotPower` is the check `block_count - 1 & block_count != 0`,
with `&` taken bit by bit (`shr`, `Share`). A block count of 0 passes it in a
release build, and so does a power of two whose product with `BLOCK_SIZE` wraps to
0. Such a blob is empty and never reaches a leaf, which `StackDepth` turns into
`overflowed`. In a debug build both panic. The loop reads
an index and then a value into the same `String`, which is not cleared: when the
value is parsed the index is still in front. `update` is empty, so the tree
stays that of the first blob. As committed the program does not compile
(`MerkleTree::new` uses `data` after moving it, for a height nothing reads); the
model leaves the height out.

## The runs

| Run | Instance | Shows |
| --- | --- | --- |
| `bolt_framing` | 3 messages of 3 kinds, one not decodable; headers of 1-2, bodies of 1-3 bytes | order, alignment, no stall, justified errors, nothing lost at the end, refinement of `MessageChannel` with liveness |
| `buffer_capacity` | initial capacity 8, messages of 2-11 bytes | `HalfRegrown` |
| `page_server` | 2 clients, 2 pipelined requests each of 9, release build | ordered replies, distinct buffers of the size asked for, full copies, justified panics, stable references |
| `page_server_liveness` | 2 clients, 2 requests each of 4, debug build | every request is answered or its connection ends |
| `page_server_race` (violation) | 2 clients on one handle | writes under the shared lock race |
| `throughput` | 2 clients, buffers with a partial last chunk; port 9090 or another, free or taken | data read back, stored whole, no race with a handle each, every client ends, the server finds a port |
| `fault_rpc` | 3 calls by each of 3 threads (server), or by one thread that may drop the page before any of them (client), or one call (Rust client); any step of the set-up may fail | no lost wakeup, no early read, no double copy, every call returns |
| `fault_rpc_elided` (violation) | Rust client, optimised build | the answer may be read before it is there |
| `chat` | turns of up to 3 ordinary words, any number of turns | turns, no typing into a closed connection, the server's `#` ends both |
| `chat_hash` (violation) | turns of up to 1 word | the client's `#` does not |
| `workloads` | sorts: all arrays of up to 5 elements over 3 values; blobs of 0 to 4 and 8 blocks; graphs of 3 random edges; matrices of up to 4 vertices; 9 additions from size 2; arrays of up to 2 ints | what each program prints is what it should be, with the exceptions its property names |
| `sorting_bubble_order` (violation) | the arrays of the sorts | `bubbleSort`, as it is called, does not sort |

Bounds. Two messages in the buffer and a third arriving cover every state of
`read_next`, which looks at most at one message and the header after it. Two
connections suffice for every conflict at the lock and the arena, since each
involves two holders; the third waiter matters only for fairness, which the
queue gives by construction. Two requests per client reach an allocation
followed by an access, and pipelining. Arrays of five elements have halves of
different length at two levels, and three values give equal neighbours. Nine
additions from size 2 double the array three times and fill it exactly three
times. Three edges between the vertices 0 to 3 fill the queue to its last place;
four vertices give a path that is better with two intermediate stops than with
one. Trees of 4 blocks have two levels of inner nodes, and the size of 8
blocks wraps to 0. `Uint64`, `Usize`, `U8`
and `INFINITY` are small but larger than any sum that does not wrap on purpose.
Three threads in `FaultRpc` give one fault being handled, one queued and one
caller that finds the page. `MaxSent`, `MaxRequests`, `MaxCalls` and
`MaxCapacity` bound the runs; a run that has used them up stops, which is why
these configurations do not check for deadlock. That no one waits forever is
stated by the liveness properties instead.

Symmetry is used for the clients in `page_server` only, which checks no liveness.

Fairness. A step of the reader and of the socket is weakly fair in
`BoltFraming`: TCP delivers what was sent or fails. Every task of the page
server is weakly fair (tokio polls a task that was woken) and clients go on
reading their replies. The last is an assumption about clients: the server holds
the read lock while it writes a reply, so one client that neither reads nor
closes stalls all allocations. `try_listen_on` goes on until bind succeeds or
fails for another reason, and bind to port 0 finds a free port; that it fails is
allowed but never owed. In `FaultRpc` runnable threads are scheduled; the set-up
may stop anywhere. In `Chat` both programs run and their users type when
prompted and end their turns.

## The proofs

The proofs are in modules of their own, one for a large component or for several
small ones that do not depend on each other.

`BoltFramingProofs` proves for all messages, lengths, `U32` and any number of
messages:

- `Typing`, `Ordering`, `Alignment`, `NeverStalls`, `BadFormat` and
  `EndAfterLast`: the six invariants of `bolt_framing`;
- `ChannelSafety`: the initial states and the steps of `BoltFraming` are those
  of `MessageChannel` under the mapping of `ImplementsChannel`.

The assumption is `FramingAssumption`: the constants are typed, and headers and
bodies have at least one byte, as every msgpack encoding has. The inductive
invariant `IInv` adds to the six: where each message starts on the wire
(`WireInv`), that the next header is decoded as soon as all of it is in the
buffer (`HeaderPending`), without which `NoStall` would not survive the return
of a message, and that a call is in progress only on an open connection
(`StatusInv`). `try_read_header` and the tail of `read_next` have a lemma each
(`TryReadHeader`, `PostRead`), stated for any buffer, that the steps use.

`CapacityGraphProofs` is about the three containers that hold what they are
given (the read buffer, the growing array and the queue of the search) and about
the two graph programs.

- `CapacityKept` (`HalfRegrown`) and `CapacityTypeCorrect`, for every initial
  capacity, set of message sizes and allocator. The argument: if `cap <= initial`,
  `reserve` leaves `cap' >= len + (initial - cap)` and `cap' >= cap`; adding both
  gives `2 * cap' >= initial + len`.
- `Prints` (`PrintsAdded`), for every first size and number of additions. `AInv`
  adds that the memory has just `size` elements.
- `SearchComplete` (`ReachesAll`), for every `SIZE` and every graph. `BInv` says
  that each visited vertex is either printed or in the queue, once (`Once`), that
  the neighbours of a printed vertex are visited or still to be looked at
  (`Explored`), that every closed set of vertices contains all of them (`Needed`),
  and that the queue has a free place (`Free`). `Free` is the point: the queue has
  `SIZE` places, reuses the front ones only once it is empty, and `enqueue` drops
  what does not fit, while there may be `SIZE + 1` vertices. Since 0 leaves the
  queue empty, which resets it, `rear` stays two behind the number of visited
  vertices.
- `DistancesShortest` (`ShortestPaths`), for every matrix. The invariant `DInv`
  is the textbook's: vertices taken in are no farther than the others
  (`Ordered`), their edges have been followed (`Relaxed`), each finite distance
  is that of a path of at most `count` edges (`Reached`) along which `pred`
  leads back (`Back`). The code adds two cases: `Taken` covers rounds in which
  no vertex is near, which take in the last one again, and `First` a first round
  that finds none. The loop ends with one vertex not taken in; `AllRelaxed`
  shows that its edges could not have improved anything. `NoneShorter` then
  shows that no path is shorter, where `Within` is the recursive definition of
  the least cost over paths, and `MoreEdges` that allowing more edges never
  costs more, both by induction. The assumption is `MatrixAssumption`.

`PageServerProofs` proves for any set of clients and requests, any number of
requests in flight, every page size, `U64` and build:

- `ArenaStill` (`RefsStable`), `RepliesInOrder` (`OrderedReplies`), `FullCopies`
  (`OkMeansAll`), `PanicsJustified` (`PanicJustified`), `AllocationsHonoured`
  (`AllocHonoured`) and `ServerTypeCorrect` (`TypeOK`): all that `page_server`
  checks.

The assumptions are `ServerAssumption` and `RequestAssumption`: the constants
and the fields of a request are typed, and a page size divides `U64`, as powers of
two do. Without the last a size rounded up to pages could wrap to a size that is
not 0 and too small; with it, it wraps to 0, and mapping 0 bytes fails. The
inductive invariant `SInv` of the connections has three parts. `Locked` says who
holds the lock: a handler that copies is among the readers, one that inserts is
the writer, and a writer excludes readers; it gives `ArenaStill`. `Counted`, `Handled` and `Logged` say that the log is one behind
while a request is worked on and that control point and reply belong to that
request; they give `RepliesInOrder`. `Bounded` carries the bounds check from
`handle_access` to the end of the copy, across steps of others that extend the
arena or write the same buffer. It is needed because the check is made once and
the copy takes many steps; `WindowKept` shows that no step changes the length of
a buffer. With `Window` (past the check there is room for the whole request,
unless the sum wrapped) it gives `FullCopies` and `PanicsJustified`. The proof
of a step has two halves: what it does to its own connection (`ConnectionKeeps`)
and that it leaves the others alone (`OthersUnchanged`, `ConnectionFrame`).
`AInv`, about the arena, extends `AllocHonoured` to an allocation whose reply is
not yet sent (`Given`): the handle is fixed by `Insert`, and other
connections may insert before the reply goes out.

`ThroughputTaskProofs` and `ThroughputProofs` prove for any number of clients,
data of any length, every chunk size and build, and with the server's failures:

- `ReadsBackWrites` (`ReadBack`), `DataStoredWhole` (`StoredWhole`), `NoRaces`
  (`NoDataRace`) and `ThroughputTypeCorrect` (`TTypeOK`).

`ThroughputAssumption` says that the constants are typed and that a client's data
is shorter than `U64`, as every Rust slice is. The inductive invariant `TInv` adds
to `SInv` and `AInv` what a client has asked for (`Asked`: first its buffer, then
only accesses within it) and where it stands (`Phase`). `Phase` gives for each step
of the client which prefix of its data is stored; while a write is in progress,
also that the bytes copied so far are, and while a read is, that the bytes
copied are those stored. That other clients do not disturb it rests on `AInv`:
handles are distinct, so a step of another connection's task writes another
buffer. The first module has the server's steps, the second the client's.

`ChatMerkleProofs` proves, of the chat, `TurnsAlternate` (`OneTurn`),
`NothingTypedAfterClose` (`NoSendAfterClose`) and `ChatTypeCorrect` (`TypeOK`) for
turns of any number of words. `CInv` is the list of the situations the two programs can be in, each with
what may be in flight: the greeting, the turn of either, the end after the
server's `#` (sent twice), a `#` in the client's first turn, whose second copy
reaches the server in a later turn (`FirstHash`), and a `#` in a later turn of the
client's, after which each waits for the other (`BothWait`).

Of the Merkle tree it proves `TreeBuilt` (`TreeCovers`) and `IndexStored`
(`OnlyIndexStored`), for every block size, block count and width of a `usize`.
`MerkleAssumption` has the constants typed, `Bits` wide enough for a `usize`,
`StackDepth` no less than `Bits` (a tree over a blob that fits is not higher), and
the number of blocks that fit a `usize` a power of two, as 2^64 / 4096 is. The
invariant `MerkleInv` adds to the two that the blob is as created until the tree is
built, and that between the two prompts the `String` holds exactly one number,
the index; then a second number makes the whole unreadable, and an empty line
leaves the index to be parsed as the value. `PowerOfTwo` shows that the check with
`&` passes 0 and the powers of two only, by induction over the bits; `BlobSize`
that the product is then exact, or wraps to 0; `TreesCover`, by
induction over the height, that each call of `MerkleNode::new` returns a tree
over its range whose nodes have the digests of their blocks; and `EmptyOverflows`
that an empty blob gets no tree, whatever the stack.

`RpcSumsProofs` proves, of the fault RPC, for any set of threads, number of calls,
argument and table size above 42:

- `NoFaultLost`, `HandlerLives`, `NothingMadeUp` and `RpcTypeCorrect`: four
  invariants of `fault_rpc`;
- `AnswersCorrect` (`AnswerCorrect`), for a build that keeps the load
  (`VolatilePoke`); `AnswersComputed`, for every build, where the page is watched
  and the load cannot be dropped.

Both rest on `KernelComputesFib`: for every argument `fib_kernel`, which adds
modulo `U64`, returns the Fibonacci number modulo `U64`. It is an induction over
the iterations of the loop.

Its invariant `RInv` adds `Started` (before the handler starts nobody has called,
and then the table is filled), `RustWatched` (in Rust the page is watched before
anyone calls), `Faults` (a fault that is queued or worked on means
that the page is watched and missing and the request stored, so UFFDIO_COPY cannot
fail and the lookup finds the function) and `Responses` (the response is stored
before the page is there, and the page is there before a caller goes on).

Of the summing workload it proves `ResultsAgree` (`ResultAgrees`), for arrays of
any length. `SumsAssumption` says that the constants are typed and that a `uint64_t`
has no fewer values than an `int`. The invariant `SumsInv` says that the array holds ints and that the number
printed is the function's value for the array as it is. What that value is, is
proved of the functions: `NaiveSum` that the loop, which reduces each number and
each sum modulo `Uint64`, ends with the sum of the ints modulo `Uint64`
(`RemainderSum`, which the fault RPC uses for `fib`, too), `NaiveMin` and `NaiveMax`
from where the conversion (`Converted`) puts negative numbers. `SumIsLoop` shows
that the sum of `ResultAgrees`, which takes the indices in any order, is that of the
loop.

`SortingProofs` proves `SortsAsCalled` (`OrderedAsCalled`) and `SortsRearrange`
(`Rearranged`) for arrays of any length, with any integers (`SortingAssumption`).
The invariant `SortingInv` says that both arrays have one length and that `arr`,
once sorted, is what the sort made of `input`; the rest is about the sorts.

- A rearrangement is a one-to-one renaming of the indices (`Shuffled`). Swaps are
  rearrangements, and so are two in a row. `ShuffledCount` turns one into the
  statement of `Rearranged`, that each value occurs as often.
- `bubbleSort`: a pass of the inner loop moves the greatest element to its end
  (`InnerPasses`), so that after `i` passes the last `i` places are right
  (`OuterPlaces`).
- `merge`: `CountsBounded` shows that `L` and `R` are not read past their ends,
  `FromLater` that a later place gets a later element of `L` or of `R`. Hence no element
  is taken twice (`MergeShuffles`), and the result is in order when the halves are
  (`MergeSorts`).
- `mergeSort`: `SortedExists` shows that the recursion is well-founded: `Deepening`
  is the function with a bound on the number of open calls, and a call of `k`
  elements does not change any more once the bound has reached `k` (`Stable`).
  `MergeSortSorts` is then an induction over the number of elements.

Induction. The library's theorem about induction takes an operator as a
parameter, which the provers cannot instantiate. `SetInduction` is stated for
a set instead and is proved from the well-foundedness of `<` (`WFMin`,
`NatLessThanWellFounded`). `Recursion` shows in the same way that a function
defined by recursion exists, so that its defining equation may be used
(`PairsDef`, `FibDef`, `WithinDef`, `Shifts`, `NodeBuilt`, `StoredCounts`). Hence the
models have recursive functions and no recursive operators, which tlapm does not
support.

Every invariant and action property that a passing run checks is so proved. Only
model-checked are the liveness half of `ImplementsChannel`, `Answered`,
`Completion`, `ServerStarts`, `CallReturns` and `ServerHashEnds`: liveness under
fairness is out of the prover's reach.

## What was found

Shown by a run that TLC finds violated:

- `handle_write` writes under the shared half of the lock (`page_server_race`).
- The Rust caller's load of the invoke page may be optimised away
  (`fault_rpc_elided`).
- A `#` typed at the chat client does not end the server (`chat_hash`).
- `bubbleSort` is passed one less than its length (`sorting_bubble_order`).

Named as exceptions in properties that hold:

- a failed UFFDIO_REGISTER goes unnoticed in C++ (`AnswerCorrect`);
- a Rust handler thread that cannot map its page leaves the caller suspended
  (`CallReturns`);
- after a fallback to another port the clients do not find the server
  (`Completion`);
- `getElement` returns -1 for the number that fills the array (`PrintsAdded`);
- the Merkle tree program stores the index instead of the value
  (`OnlyIndexStored`), never updates a hash and recurses without end for 0 blocks
  and for so many that the size of the blob wraps to 0 (`TreeCovers`);
- `nextnode` is read uninitialised for a start without edges (`ShortestPaths`), and
  `rand()%101` names a vertex outside the graph (`ReachesAll`);
- min and max treat negative numbers as large ones (`ResultAgrees`).

## Not modelled

- `handle_invoke`: no arm of `RequestBodyOwned::read_from` produces an Invoke.
- The C++ networking buffers (`edge/src/networking`): nothing calls them, and their
  position is never advanced, as their own comment says.
- The userfault prototype: the fault protocol of `FaultRpc` with one caller that
  reads every page once, without request and response.
- The moves and destructors of the C++ `mapped_buf`, which run when the programs
  end, and the set-up of the C++ server's sockets, which carry no data.
- `smarter_sum`, which returns an uninitialised variable, and `createTree.c`;
  `merkle.c` and `bfs.c`, which are unfinished and do not compile.
- Arguments for which main goes on undefined: a sort's index outside the array,
  an unknown algorithm name.
- Timing and memory statistics, command-line parsing and printing, which are pure
  output, and the data files and papers.
