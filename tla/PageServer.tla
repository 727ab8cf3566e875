----------------------------- MODULE PageServer -----------------------------
(***************************************************************************)
(* The edge server (userfaultfd_rs/edge_server): one tokio task per        *)
(* connection that reads a request, handles it and replies, all tasks      *)
(* sharing an arena of mapped buffers behind a tokio RwLock.               *)
(*                                                                         *)
(* Connections are channels of whole messages (MessageChannel, which       *)
(* BoltFraming implements).  The clients here are an arbitrary             *)
(* environment: they pipeline requests, read replies late and disconnect.  *)
(* A handler runs from one await to the next in one step, except for the   *)
(* copies to and from a page: they run in parallel on the worker threads,  *)
(* under a lock that they share, so they take a step per byte.             *)
(***************************************************************************)
EXTENDS Integers, Sequences, FiniteSets

CONSTANTS Clients,
          Requests,       \* the requests the clients may send
          MaxRequests,    \* bound on the requests one client sends
          SockCap,        \* replies that fit between the server and a client
          PageSize,       \* util::page_size()
          U64,            \* the number of values of a u64
          OverflowChecks, \* a debug build: + panics where it would wrap
          Nobody          \* no task: the lock has no writer

ASSUME ServerAssumption ==
    /\ MaxRequests \in Nat /\ SockCap \in Nat \ {0}
    /\ PageSize \in Nat \ {0} /\ U64 \in Nat \ {0} /\ OverflowChecks \in BOOLEAN
    /\ U64 % PageSize = 0   \* both are powers of two
    /\ Nobody \notin Clients

Byte == 0 .. 2

\* RequestBodyOwned: what a message can ask for.  A handle is an index of the
\* arena, which never grows to U64 buffers.
RequestBody ==
    [op : {"ALLOC"}, size : 0 .. U64 - 1]
    \cup [op : {"READ"}, handle : Nat, offset : 0 .. U64 - 1, len : 0 .. U64 - 1]
    \cup [op : {"WRITE"}, handle : Nat, offset : 0 .. U64 - 1, buf : Seq(Byte)]
    \cup [op : {"CALL"}, handle : Nat]

ASSUME RequestAssumption == Requests \subseteq RequestBody

VARIABLES sent,    \* sent[c]: the requests client c has written, in order
          taken,   \* taken[c]: how many of them its task has read
          outbox,  \* outbox[c]: replies in flight to c
          log,     \* log[c]: every request answered, with its reply
          closed,  \* closed[c]: c has dropped its socket
          pc,      \* pc[c]: what the task of c is at
          reply,   \* reply[c]: the reply it is to write
          copied,  \* copied[c]: the bytes it has copied so far
          pages,   \* the arena; the buffer with handle h is pages[h + 1]
          queue,   \* tasks waiting for the RwLock, first come first served
          readers, writer   \* the holders of the lock

client == <<sent, closed>>
lock == <<queue, readers, writer>>
vars == <<sent, taken, outbox, log, closed, pc, reply, copied, pages, lock>>

NoReply == [kind |-> "NONE"]
OkHandle(h) == [kind |-> "OK_H", handle |-> h]
OkBuffer(b) == [kind |-> "OK_B", buf |-> b]
Err(e) == [kind |-> "ERR", error |-> e]

Init ==
    /\ sent = [c \in Clients |-> <<>>]
    /\ taken = [c \in Clients |-> 0]
    /\ outbox = [c \in Clients |-> <<>>]
    /\ log = [c \in Clients |-> <<>>]
    /\ closed = [c \in Clients |-> FALSE]
    /\ pc = [c \in Clients |-> "accept"]
    /\ reply = [c \in Clients |-> NoReply]
    /\ copied = [c \in Clients |-> <<>>]
    /\ pages = <<>>
    /\ queue = <<>> /\ readers = {} /\ writer = Nobody

-----------------------------------------------------------------------------
(* The request a task is working on, and the buffer it names               *)

req(c) == sent[c][taken[c]]
size(r) == IF r.op = "WRITE" THEN Len(r.buf) ELSE r.len
HasPage(r) == r.handle < Len(pages)
page(r) == pages[r.handle + 1]

\* offset + len in u64 arithmetic; in a debug build it must not wrap
Overflows(r) == r.offset + size(r) >= U64
\* Mutant: the bounds check is off by one.
OutOfRange_late(r) == (r.offset + size(r)) % U64 > Len(page(r)) + 1

OutOfRange(r) == (r.offset + size(r)) % U64 > Len(page(r))

Least(a, b) == IF a < b THEN a ELSE b

\* A Cursor whose position is past the end has nothing to read or write there.
Start(r) == Least(r.offset, Len(page(r)))
Room(r) == Len(page(r)) - Start(r)

\* How many bytes a handler copies: read_exact all of them, write what fits
Extent(r) == Least(size(r), Room(r))

\* Mutant: the last, partial page is not counted.
MappedLen_down(n) == ((n \div PageSize) * PageSize) % U64

\* MappedBufMut::with_size: whole pages, at least size bytes
MappedLen(n) == (((n \div PageSize) + (IF n % PageSize > 0 THEN 1 ELSE 0)) * PageSize) % U64

-----------------------------------------------------------------------------
(* The connection's task *)

\* listener.accept and the spawn of the task
accept(c) ==
    /\ pc[c] = "accept"
    /\ pc' = [pc EXCEPT ![c] = "read_next"]
    /\ UNCHANGED <<client, taken, outbox, log, reply, copied, pages, lock>>

\* Mutant: a guard survives its task.
End_leak(c) ==
    /\ pc' = [pc EXCEPT ![c] = "ended"]
    /\ UNCHANGED <<readers, writer>>

\* The task is over; its guards are dropped, also when a panic unwinds it.
End(c) ==
    /\ pc' = [pc EXCEPT ![c] = "ended"]
    /\ readers' = readers \ {c}
    /\ writer' = IF writer = c THEN Nobody ELSE writer

\* read_next returns the next request.  "CALL" has no arm in
\* RequestBodyOwned::read_from: the task leaves its loop.
ReadRequest(c) ==
    /\ pc[c] = "read_next"
    /\ taken[c] < Len(sent[c])
    /\ taken' = [taken EXCEPT ![c] = @ + 1]
    /\ IF sent[c][taken[c] + 1].op = "CALL"
       THEN End(c) /\ UNCHANGED queue
       ELSE /\ pc' = [pc EXCEPT ![c] = "lock"]
            /\ queue' = Append(queue, c)
            /\ UNCHANGED <<readers, writer>>
    /\ UNCHANGED <<client, outbox, log, reply, copied, pages>>

\* read_next reports that the peer disconnected, or reset the connection:
\* requests that were not read yet may be lost.
Disconnected(c) ==
    /\ pc[c] = "read_next"
    /\ closed[c]
    /\ End(c)
    /\ UNCHANGED <<client, taken, outbox, log, reply, copied, pages, queue>>

\* tokio's RwLock is a fair semaphore: only the first waiter may enter.
Acquire(c) ==
    /\ pc[c] = "lock"
    /\ queue # <<>> /\ Head(queue) = c
    /\ writer = Nobody
    /\ queue' = Tail(queue)

AcquireRead(c) ==
    /\ Acquire(c)
    /\ readers' = readers \cup {c}
    /\ UNCHANGED writer

AcquireWrite(c) ==
    /\ Acquire(c)
    /\ readers = {}
    /\ writer' = c
    /\ UNCHANGED readers

\* The handler panics, or returns an error and the unwrap in run panics.
Panic(c) ==
    /\ End(c)
    /\ UNCHANGED <<client, taken, outbox, log, reply, copied, pages>>

\* The handler goes on to write reply m.
\* Mutant: an error is not replied to.
ReplyWith_silent(c, m) ==
    /\ pc' = [pc EXCEPT ![c] = IF m.kind = "ERR" THEN "read_next" ELSE "reply"]
    /\ reply' = [reply EXCEPT ![c] = m]
ReplyWith(c, m) ==
    /\ pc' = [pc EXCEPT ![c] = "reply"]
    /\ reply' = [reply EXCEPT ![c] = m]

\* handle_read and handle_write up to the copy: the lock, the handle, the
\* bounds.  read_exact fails before it copies if the bytes are not all there.
handle_access(c) ==
    /\ pc[c] = "lock" /\ req(c).op \in {"READ", "WRITE"}
    /\ AcquireRead(c)
    /\ copied' = [copied EXCEPT ![c] = <<>>]
    /\ LET r == req(c)
       IN  \/ /\ ~HasPage(r)
              /\ ReplyWith(c, Err("InvalidHandle"))
           \/ /\ HasPage(r) /\ OverflowChecks /\ Overflows(r)
              /\ pc' = [pc EXCEPT ![c] = "panic"] /\ UNCHANGED reply
           \/ /\ HasPage(r) /\ ~(OverflowChecks /\ Overflows(r)) /\ OutOfRange(r)
              /\ ReplyWith(c, Err("ArgumentOutOfRange"))
           \/ /\ HasPage(r) /\ ~(OverflowChecks /\ Overflows(r)) /\ ~OutOfRange(r)
              /\ pc' = [pc EXCEPT ![c] = IF r.op = "READ" /\ size(r) > Room(r)
                                         THEN "panic" ELSE "copy"]
              /\ UNCHANGED reply
    /\ UNCHANGED <<client, taken, outbox, log, pages>>

Unwind(c) ==
    /\ pc[c] = "panic"
    /\ Panic(c)
    /\ UNCHANGED queue

\* One byte of page_cursor.read_exact or page_cursor.write
copy(c) ==
    LET r == req(c)
        k == Len(copied[c])
    IN  /\ pc[c] = "copy"
        /\ k < Extent(r)
        /\ IF r.op = "WRITE"
           THEN /\ pages' = [pages EXCEPT ![r.handle + 1][Start(r) + k + 1] = r.buf[k + 1]]
                /\ copied' = [copied EXCEPT ![c] = Append(@, r.buf[k + 1])]
           ELSE /\ copied' = [copied EXCEPT ![c] = Append(@, page(r)[Start(r) + k + 1])]
                /\ UNCHANGED pages
        /\ UNCHANGED <<client, taken, outbox, log, pc, reply, lock>>

\* The copy is over; how much write copied is not looked at.
CopyDone(c) ==
    /\ pc[c] = "copy"
    /\ Len(copied[c]) = Extent(req(c))
    /\ ReplyWith(c, IF req(c).op = "WRITE" THEN OkHandle(req(c).handle)
                                           ELSE OkBuffer(copied[c]))
    /\ UNCHANGED <<client, taken, outbox, log, copied, pages, lock>>

\* The arena is extended under the write lock.  Mutant: under the shared one.
AllocLock_shared(c) == AcquireRead(c)
AllocLock(c) == AcquireWrite(c)

handle_alloc(c) ==
    /\ pc[c] = "lock" /\ req(c).op = "ALLOC"
    /\ AllocLock(c)
    /\ pc' = [pc EXCEPT ![c] = "insert"]
    /\ UNCHANGED <<client, taken, outbox, log, reply, copied, pages>>

\* The arena's index for a new buffer.  Mutant: one that is in use.
NewHandle_alias == 0
NewHandle == Len(pages)

\* Under the lock: map the buffer (zero-filled) and insert it; the lock is
\* released before the reply.  mmap refuses a length of 0 and may fail on any.
Insert(c) ==
    /\ pc[c] = "insert"
    /\ LET n == MappedLen(req(c).size)
       IN  \/ /\ n > 0
              /\ pages' = Append(pages, [i \in 1 .. n |-> 0])
              /\ ReplyWith(c, OkHandle(NewHandle))
              /\ writer' = Nobody
              /\ UNCHANGED <<client, taken, outbox, log, copied, queue, readers>>
           \/ Panic(c) /\ UNCHANGED queue

\* Mutant: replies are queued without waiting for the socket.
HasRoom_always(c) == TRUE
HasRoom(c) == Len(outbox[c]) < SockCap

\* write_to completes when the socket has room, and so does the handler: a
\* read guard is held until here.
Reply(c) ==
    /\ pc[c] = "reply"
    /\ HasRoom(c)
    /\ outbox' = [outbox EXCEPT ![c] = Append(@, reply[c])]
    /\ log' = [log EXCEPT ![c] = Append(@, [req |-> req(c), reply |-> reply[c]])]
    /\ reply' = [reply EXCEPT ![c] = NoReply]
    /\ readers' = readers \ {c}
    /\ pc' = [pc EXCEPT ![c] = "read_next"]
    /\ UNCHANGED <<client, taken, copied, pages, queue, writer>>

\* write_to fails because the peer is gone.
ReplyFails(c) ==
    /\ pc[c] = "reply"
    /\ closed[c]
    /\ Panic(c)
    /\ UNCHANGED queue

Task(c) ==
    \/ accept(c) \/ ReadRequest(c) \/ Disconnected(c) \/ handle_access(c)
    \/ Unwind(c) \/ copy(c) \/ CopyDone(c) \/ handle_alloc(c) \/ Insert(c)
    \/ Reply(c) \/ ReplyFails(c)

-----------------------------------------------------------------------------
(* The clients *)

Send(c, r) ==
    /\ ~closed[c]
    /\ Len(sent[c]) < MaxRequests
    /\ sent' = [sent EXCEPT ![c] = Append(@, r)]
    /\ UNCHANGED <<taken, outbox, log, closed, pc, reply, copied, pages, lock>>

Receive(c) ==
    /\ ~closed[c]
    /\ outbox[c] # <<>>
    /\ outbox' = [outbox EXCEPT ![c] = Tail(@)]
    /\ UNCHANGED <<client, taken, log, pc, reply, copied, pages, lock>>

Close(c) ==
    /\ ~closed[c]
    /\ closed' = [closed EXCEPT ![c] = TRUE]
    /\ UNCHANGED <<sent, taken, outbox, log, pc, reply, copied, pages, lock>>

Next ==
    \E c \in Clients :
        \/ Task(c)
        \/ \E r \in Requests : Send(c, r)
        \/ Receive(c)
        \/ Close(c)

\* The runtime polls every task that is ready; clients read their replies.
Fairness == \A c \in Clients : WF_vars(Task(c)) /\ WF_vars(Receive(c))

Spec == Init /\ [][Next]_vars /\ Fairness

-----------------------------------------------------------------------------
(* Properties *)

Replies == [kind : {"OK_H"}, handle : Nat] \cup [kind : {"OK_B"}, buf : Seq(Byte)]
           \cup [kind : {"ERR"}, error : {"InvalidHandle", "ArgumentOutOfRange"}]

TypeOK ==
    /\ \A c \in Clients :
          /\ sent[c] \in Seq(RequestBody) /\ taken[c] \in 0 .. Len(sent[c])
          /\ outbox[c] \in Seq(Replies) /\ Len(outbox[c]) <= SockCap
          /\ log[c] \in Seq([req : RequestBody, reply : Replies])
          /\ reply[c] \in Replies \cup {NoReply}
          /\ copied[c] \in Seq(Byte)
          /\ pc[c] \in {"accept", "read_next", "lock", "insert", "copy", "reply",
                        "panic", "ended"}
    /\ closed \in [Clients -> BOOLEAN]
    /\ pages \in Seq(Seq(Byte))
    /\ queue \in Seq(Clients) /\ readers \subseteq Clients
    /\ writer \in Clients \cup {Nobody}

\* A connection's requests are answered one by one in the order they were sent,
\* each with the kind of reply its handler gives, whatever the other connections
\* do and however far the client runs ahead.
OrderedReplies ==
    \A c \in Clients :
        /\ Len(log[c]) <= taken[c]
        /\ pc[c] \in {"accept", "read_next"} => Len(log[c]) = taken[c]
        /\ taken[c] <= Len(log[c]) + 1
        /\ \A i \in DOMAIN log[c] :
              /\ log[c][i].req = sent[c][i]
              /\ \/ log[c][i].reply.kind = "ERR" /\ sent[c][i].op # "ALLOC"
                 \/ log[c][i].reply.kind = "OK_B" /\ sent[c][i].op = "READ"
                 \/ log[c][i].reply.kind = "OK_H" /\ sent[c][i].op \in {"ALLOC", "WRITE"}

Allocs == {a \in UNION {{c} \X DOMAIN log[c] : c \in Clients} :
             log[a[1]][a[2]].req.op = "ALLOC"}

\* Every handle handle_alloc has returned names a buffer of its own of at least
\* the size asked for: no allocation shares or shrinks another's buffer.
AllocHonoured ==
    LET handle(a) == log[a[1]][a[2]].reply.handle
    IN  \A a \in Allocs :
            /\ handle(a) < Len(pages)
            /\ Len(pages[handle(a) + 1]) >= log[a[1]][a[2]].req.size
            /\ \A b \in Allocs : b # a => handle(b) # handle(a)

\* A request that is acknowledged was carried out in full: handle_write ignores
\* what Cursor::write returns, so the bounds check has to make it copy the whole
\* buffer.  The sum in that check must not wrap for this.
OkMeansAll ==
    \A c \in Clients :
        pc[c] = "reply" /\ reply[c].kind # "ERR" /\ req(c).op # "ALLOC"
                        /\ ~Overflows(req(c))
            => Len(copied[c]) = size(req(c))

\* A task that ends on a request (by the unwrap in run) does so because the
\* client is gone, the request is an Invoke, mmap failed or the sum of offset and
\* length does not fit a u64; no other request costs a client its connection.
PanicJustified ==
    \A c \in Clients :
        pc[c] = "ended" /\ taken[c] > Len(log[c])
            => closed[c] \/ req(c).op \in {"CALL", "ALLOC"} \/ Overflows(req(c))

\* The arena, whose insertion may move the buffers' descriptors, never grows
\* while a handler works with a reference into it.
RefsStable ==
    [][Len(pages') # Len(pages) => \A c \in Clients : pc[c] # "copy"]_vars

\* Every request is answered, or its connection ends: no task waits for the lock
\* forever, also when others disconnect or panic while they hold it, as long as
\* the clients go on reading their replies.
Answered ==
    \A c \in Clients, k \in 1 .. MaxRequests :
        Len(sent[c]) >= k ~> Len(log[c]) >= k \/ pc[c] = "ended"

\* No two handlers access a byte of a buffer at the same time, one of them to
\* write it.  MappedBufMut is declared Sync, and handle_write holds the lock that
\* readers share.
Pending(c) ==
    IF pc[c] = "copy"
    THEN {<<req(c).handle, Start(req(c)) + k>> : k \in Len(copied[c]) .. Extent(req(c)) - 1}
    ELSE {}

NoDataRace ==
    \A c, d \in Clients :
        c # d /\ Pending(c) \cap Pending(d) # {}
            => req(c).op = "READ" /\ req(d).op = "READ"
=============================================================================
