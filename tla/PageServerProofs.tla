-------------------------- MODULE PageServerProofs --------------------------
(***************************************************************************)
(* The page server for any number of clients and requests.  First the      *)
(* connections: the lock keeps the arena still while a handler works in    *)
(* it, replies come in order, and an acknowledged access was carried out   *)
(* in full.  Then the arena: every allocation has a buffer of its own,     *)
(* sockets hold the replies they have room for, and a task ends only for a *)
(* reason.                                                                 *)
(***************************************************************************)
EXTENDS PageServer, SequenceTheorems, TLAPS

\* What can happen on connection c
Step(c) == Task(c) \/ (\E r \in RequestBody : Send(c, r)) \/ Receive(c) \/ Close(c)

Points == {"accept", "read_next", "lock", "insert", "copy", "reply", "panic", "ended"}
Busy == {"lock", "insert", "copy", "reply", "panic"}
Entries == [req : RequestBody, reply : Replies]

Typed ==
    /\ sent \in [Clients -> Seq(RequestBody)] /\ taken \in [Clients -> Nat]
    /\ outbox \in [Clients -> Seq(Replies)] /\ log \in [Clients -> Seq(Entries)]
    /\ closed \in [Clients -> BOOLEAN] /\ pc \in [Clients -> Points]
    /\ reply \in [Clients -> Replies \cup {NoReply}]
    /\ copied \in [Clients -> Seq(Byte)] /\ pages \in Seq(Seq(Byte))
    /\ queue \in Seq(Clients) /\ readers \subseteq Clients
    /\ writer \in Clients \cup {Nobody}

\* Who holds the lock: a handler at work in the arena shares it, one that inserts
\* has it alone.
Locked ==
    /\ writer # Nobody => readers = {}
    /\ \A c \in Clients :
          /\ pc[c] = "copy" => c \in readers
          /\ pc[c] = "insert" <=> writer = c

\* Reply m is of a kind that request r can get.
Fits(r, m) ==
    \/ m.kind = "ERR" /\ r.op # "ALLOC"
    \/ m.kind = "OK_B" /\ r.op = "READ"
    \/ m.kind = "OK_H" /\ r.op \in {"ALLOC", "WRITE"}

\* The log is one behind while a request is worked on, and even otherwise.
Counted(c) ==
    /\ taken[c] <= Len(sent[c])
    /\ Len(log[c]) <= taken[c] /\ taken[c] <= Len(log[c]) + 1
    /\ pc[c] \in {"accept", "read_next"} => taken[c] = Len(log[c])
    /\ pc[c] \in Busy => taken[c] = Len(log[c]) + 1

\* The handler is the one for the request, and so is the reply.
Handled(c) ==
    /\ pc[c] = "insert" => req(c).op = "ALLOC"
    /\ pc[c] \in {"copy", "panic"} => req(c).op \in {"READ", "WRITE"}
    /\ pc[c] = "reply" => reply[c] \in Replies /\ Fits(req(c), reply[c])

Logged(c) ==
    \A i \in 1 .. Len(log[c]) :
        log[c][i].req = sent[c][i] /\ Fits(sent[c][i], log[c][i].reply)

\* A handler that copies has passed the bounds check, and one that panics was
\* asked for more than a u64 can address.
Bounded(c) ==
    /\ pc[c] = "copy" => /\ HasPage(req(c)) /\ ~OutOfRange(req(c))
                         /\ Len(copied[c]) <= Extent(req(c))
    /\ pc[c] = "panic" => Overflows(req(c))

\* OkMeansAll for one connection
InFull(c) ==
    pc[c] = "reply" /\ reply[c].kind # "ERR" /\ req(c).op # "ALLOC" /\ ~Overflows(req(c))
        => Len(copied[c]) = size(req(c))

\* The inductive invariant
Connection(c) == Counted(c) /\ Handled(c) /\ Logged(c) /\ Bounded(c) /\ InFull(c)
SInv == Typed /\ Locked /\ \A c \in Clients : Connection(c)

-----------------------------------------------------------------------------
(* RequestBody and replies *)

\* The request a busy task works on is one that was sent.
LEMMA CurrentRequest ==
    ASSUME Typed, NEW c \in Clients, Counted(c), pc[c] \in Busy
    PROVE  req(c) \in RequestBody /\ taken[c] \in 1 .. Len(sent[c])
  BY DEF Typed, Counted, Busy, req

\* The replies of the handlers and their kinds
LEMMA ReplyTypes ==
    /\ \A e \in {"InvalidHandle", "ArgumentOutOfRange"} :
          Err(e) \in Replies /\ Err(e).kind = "ERR"
    /\ \A h \in Nat : OkHandle(h) \in Replies /\ OkHandle(h).kind = "OK_H"
    /\ \A b \in Seq(Byte) : OkBuffer(b) \in Replies /\ OkBuffer(b).kind = "OK_B"
  BY DEF Err, OkHandle, OkBuffer, Replies

\* A sequence with one more element
LEMMA AppendIs ==
    ASSUME NEW S, NEW s \in Seq(S), NEW e
    PROVE  /\ Len(Append(s, e)) = Len(s) + 1 /\ Append(s, e)[Len(s) + 1] = e
           /\ \A i \in 1 .. Len(s) : Append(s, e)[i] = s[i]
  OBVIOUS

\* The fields of a request
LEMMA RequestFields ==
    \A r \in RequestBody :
        /\ r.op \in {"ALLOC", "READ", "WRITE", "CALL"}
        /\ r.op = "ALLOC" => r.size \in 0 .. U64 - 1
        /\ r.op \in {"READ", "WRITE"} => r.handle \in Nat /\ r.offset \in 0 .. U64 - 1
        /\ r.op = "READ" => r.len \in 0 .. U64 - 1
        /\ r.op = "WRITE" => r.buf \in Seq(Byte)
  BY DEF RequestBody

\* The fields of an access are numbers.
LEMMA SizeNat == ASSUME NEW r \in RequestBody, r.op \in {"READ", "WRITE"}
                 PROVE  size(r) \in Nat /\ r.offset \in Nat /\ r.handle \in Nat
  BY RequestFields, ServerAssumption DEF size

\* The sum in the bounds check is exact unless it overflows.
LEMMA ExactSum == ASSUME NEW r \in RequestBody, r.op \in {"READ", "WRITE"}, ~Overflows(r)
                  PROVE  (r.offset + size(r)) % U64 = r.offset + size(r)
<1>1. \A x \in Nat : x < U64 => x % U64 = x
  BY ServerAssumption, SMT DEF ServerAssumption
<1> QED
  BY <1>1, SizeNat, ServerAssumption DEF Overflows

\* The part of a buffer that a request names
LEMMA Window == ASSUME Typed, NEW r \in RequestBody, r.op \in {"READ", "WRITE"}, HasPage(r)
                PROVE  /\ r.handle + 1 \in 1 .. Len(pages) /\ page(r) \in Seq(Byte)
                       /\ Start(r) \in Nat /\ Room(r) \in Nat /\ Extent(r) \in Nat
                       /\ Start(r) + Room(r) = Len(page(r))
                       /\ Extent(r) <= Room(r) /\ Extent(r) <= size(r)
                       /\ ~OutOfRange(r) /\ ~Overflows(r)
                             => Extent(r) = size(r) /\ size(r) <= Room(r)
<1>1. r.handle + 1 \in 1 .. Len(pages) /\ page(r) \in Seq(Byte)
  BY SizeNat DEF Typed, HasPage, page
<1>2. Len(page(r)) \in Nat
  BY <1>1
<1>3. /\ Start(r) \in Nat /\ Room(r) \in Nat /\ Extent(r) \in Nat
      /\ Start(r) + Room(r) = Len(page(r))
      /\ Extent(r) <= Room(r) /\ Extent(r) <= size(r)
  BY <1>2, SizeNat DEF Start, Room, Extent, Least
<1>4. ASSUME ~OutOfRange(r), ~Overflows(r)
      PROVE  Extent(r) = size(r) /\ size(r) <= Room(r)
  <2>1. r.offset + size(r) <= Len(page(r))
    BY <1>2, <1>4, SizeNat, ExactSum DEF OutOfRange
  <2> QED
    BY <1>2, <2>1, SizeNat DEF Start, Room, Extent, Least
<1> QED
  BY <1>1, <1>3, <1>4

-----------------------------------------------------------------------------
(* The steps *)

\* One byte: it lies inside the buffer, and no buffer changes its length.
LEMMA CopyStep ==
    ASSUME SInv, NEW c \in Clients, copy(c)
    PROVE  /\ pages' \in Seq(Seq(Byte)) /\ Len(pages') = Len(pages)
           /\ \A h \in 1 .. Len(pages) : Len(pages'[h]) = Len(pages[h])
           /\ copied' \in [Clients -> Seq(Byte)] /\ Len(copied'[c]) = Len(copied[c]) + 1
<1> DEFINE r == req(c)
           k == Len(copied[c])
<1>1. /\ r \in RequestBody /\ r.op \in {"READ", "WRITE"} /\ HasPage(r)
      /\ k \in Nat /\ k < Extent(r)
  <2>1. copied[c] \in Seq(Byte) /\ pc[c] = "copy" /\ k < Extent(r)
    BY DEF SInv, Typed, copy
  <2>2. r \in RequestBody
    BY <2>1, CurrentRequest DEF SInv, Connection, Busy
  <2>3. r.op \in {"READ", "WRITE"} /\ HasPage(r)
    BY <2>1 DEF SInv, Connection, Handled, Bounded
  <2> QED
    BY <2>1, <2>2, <2>3
<1>2. Start(r) + k + 1 \in 1 .. Len(page(r))
  BY <1>1, Window, SizeNat, SMTT(30) DEF SInv
<1>3. page(r)[Start(r) + k + 1] \in Byte
  BY <1>1, <1>2, Window DEF SInv
<1>4. CASE r.op = "WRITE"
  <2>1. r.buf[k + 1] \in Byte
    <3>1. r.buf \in Seq(Byte) /\ k + 1 \in 1 .. Len(r.buf)
      BY <1>1, <1>4, Window, RequestFields DEF SInv, size
    <3> QED
      BY <3>1
  <2> DEFINE p == [page(r) EXCEPT ![Start(r) + k + 1] = r.buf[k + 1]]
  <2>2. p \in Seq(Byte) /\ Len(p) = Len(page(r))
    BY <1>1, <1>2, <2>1, Window, ExceptSeq DEF SInv
  <2>3. pages' = [pages EXCEPT ![r.handle + 1] = p]
    BY <1>4 DEF copy, page
  <2>4. r.handle + 1 \in 1 .. Len(pages) /\ pages[r.handle + 1] = page(r)
    BY <1>1, Window DEF SInv, page
  <2> HIDE DEF p
  <2>5. /\ pages' \in Seq(Seq(Byte)) /\ Len(pages') = Len(pages)
        /\ \A h \in 1 .. Len(pages) : Len(pages'[h]) = Len(pages[h])
    <3>1. pages \in Seq(Seq(Byte)) /\ p \in Seq(Byte)
      BY <2>2 DEF SInv, Typed
    <3>2. pages' \in Seq(Seq(Byte)) /\ Len(pages') = Len(pages)
      BY <2>3, <2>4, <3>1, ExceptSeq
    <3>3. \A h \in 1 .. Len(pages) : Len(pages'[h]) = Len(pages[h])
      BY <2>2, <2>3, <2>4, <3>1
    <3> QED
      BY <3>2, <3>3
  <2>6. copied' = [copied EXCEPT ![c] = Append(copied[c], r.buf[k + 1])]
    BY <1>4 DEF copy
  <2> QED
    BY <2>1, <2>5, <2>6 DEF SInv, Typed
<1>5. CASE r.op = "READ"
  <2>1. copied' = [copied EXCEPT ![c] = Append(copied[c], page(r)[Start(r) + k + 1])]
        /\ pages' = pages
    BY <1>5 DEF copy
  <2> QED
    BY <1>3, <2>1 DEF SInv, Typed
<1> QED
  BY <1>1, <1>4, <1>5

\* There is a task, with all its state, for every client.
LEMMA Domains ==
    ASSUME Typed
    PROVE  /\ DOMAIN sent = Clients /\ DOMAIN taken = Clients /\ DOMAIN log = Clients
           /\ DOMAIN closed = Clients /\ DOMAIN pc = Clients /\ DOMAIN reply = Clients
           /\ DOMAIN copied = Clients /\ DOMAIN outbox = Clients
  BY DEF Typed

\* A step on one connection leaves the state of the others alone.
LEMMA OthersUnchanged ==
    ASSUME SInv, NEW c \in Clients, Step(c), NEW d \in Clients, d # c
    PROVE  /\ sent'[d] = sent[d] /\ taken'[d] = taken[d] /\ log'[d] = log[d]
           /\ closed'[d] = closed[d] /\ pc'[d] = pc[d] /\ reply'[d] = reply[d]
           /\ copied'[d] = copied[d] /\ outbox'[d] = outbox[d]
<1>0. /\ DOMAIN sent = Clients /\ DOMAIN taken = Clients /\ DOMAIN log = Clients
      /\ DOMAIN closed = Clients /\ DOMAIN pc = Clients /\ DOMAIN reply = Clients
      /\ DOMAIN copied = Clients /\ DOMAIN outbox = Clients
  BY Domains DEF SInv
<1>1. CASE accept(c)
  BY <1>1, <1>0 DEF accept, client, lock
<1>2. CASE ReadRequest(c)
  BY <1>2, <1>0 DEF ReadRequest, client, lock, End
<1>3. CASE Disconnected(c)
  BY <1>3, <1>0 DEF Disconnected, client, lock, End
<1>4. CASE handle_access(c)
  BY <1>4, <1>0 DEF handle_access, client, lock, AcquireRead, Acquire, ReplyWith
<1>5. CASE Unwind(c)
  BY <1>5, <1>0 DEF Unwind, client, lock, Panic, End
<1>6. CASE copy(c)
  BY <1>6, <1>0 DEF copy, client, lock
<1>7. CASE CopyDone(c)
  BY <1>7, <1>0 DEF CopyDone, client, lock, ReplyWith
<1>8. CASE handle_alloc(c)
  BY <1>8, <1>0 DEF handle_alloc, client, lock, AllocLock, AcquireWrite, Acquire
<1>9. CASE Insert(c)
  BY <1>9, <1>0 DEF Insert, client, lock, ReplyWith, Panic, End
<1>10. CASE Reply(c)
  BY <1>10, <1>0 DEF Reply, client, lock
<1>11. CASE ReplyFails(c)
  BY <1>11, <1>0 DEF ReplyFails, client, lock, Panic, End
<1>12. CASE Receive(c)
  BY <1>12, <1>0 DEF Receive, client, lock
<1>13. CASE Close(c)
  BY <1>13, <1>0 DEF Close, client, lock
<1>14. CASE \E r \in RequestBody : Send(c, r)
  BY <1>14, <1>0 DEF Send, client, lock
<1> QED
  BY <1>1, <1>2, <1>3, <1>4, <1>5, <1>6, <1>7, <1>8, <1>9, <1>10, <1>11, <1>12, <1>13,
     <1>14 DEF Step, Task

\* Lengths and counters are natural numbers.
LEMMA Lengths ==
    ASSUME Typed
    PROVE  /\ Len(pages) \in Nat
           /\ \A c \in Clients : Len(sent[c]) \in Nat /\ Len(log[c]) \in Nat /\ taken[c] \in Nat
  BY DEF Typed

\* The first alternative of Insert: the buffer is mapped.
Inserted(c) ==
    /\ pc[c] = "insert" /\ MappedLen(req(c).size) > 0
    /\ pages' = Append(pages, [i \in 1 .. MappedLen(req(c).size) |-> 0])
    /\ ReplyWith(c, OkHandle(NewHandle))
    /\ writer' = Nobody
    /\ UNCHANGED <<client, taken, outbox, log, copied, queue, readers>>

\* The buffer is mapped, or the handler panics.
LEMMA InsertCases == ASSUME NEW c, Insert(c)
                     PROVE  Inserted(c) \/ (Panic(c) /\ UNCHANGED queue)
  BY DEF Insert, Inserted

\* The new buffer comes last; the others stay where they are.
LEMMA InsertStep ==
    ASSUME SInv, NEW c \in Clients, Inserted(c)
    PROVE  /\ pages' \in Seq(Seq(Byte)) /\ Len(pages') = Len(pages) + 1
           /\ \A h \in 1 .. Len(pages) : pages'[h] = pages[h]
<1> DEFINE n == MappedLen(req(c).size)
<1>1. n \in Nat
  <2>1. req(c) \in RequestBody /\ req(c).op = "ALLOC"
    BY CurrentRequest DEF SInv, Connection, Handled, Busy, Inserted
  <2>2. req(c).size \in Nat
    BY <2>1, RequestFields, ServerAssumption
  <2>3. \A x, y \in Nat : y > 0 => x % y \in Nat /\ x \div y \in Nat
    BY SMT
  <2>4. \A x, y \in Nat : x * y \in Nat
    BY SMT
  <2>5. (req(c).size \div PageSize) + (IF req(c).size % PageSize > 0 THEN 1 ELSE 0) \in Nat
    BY <2>2, <2>3, ServerAssumption
  <2> QED
    BY <2>3, <2>4, <2>5, ServerAssumption DEF MappedLen
<1>2. [i \in 1 .. n |-> 0] \in Seq(Byte)
  BY <1>1 DEF Byte
<1> QED
  BY <1>2 DEF SInv, Typed, Inserted

\* Every step keeps the types.
LEMMA TypedKeeps == ASSUME SInv, NEW c \in Clients, Step(c) PROVE Typed'
<1>1. CASE accept(c)
  BY <1>1 DEF SInv, Typed, Points, accept, client, lock
<1>2. CASE ReadRequest(c)
  <2>1. pc' \in [Clients -> Points] /\ readers' \subseteq Clients
        /\ writer' \in Clients \cup {Nobody}
    BY <1>2, Zenon DEF SInv, Typed, Points, ReadRequest, End
  <2>2. queue' = queue \/ queue' = Append(queue, c)
    BY <1>2 DEF ReadRequest
  <2>3. queue' \in Seq(Clients)
    <3>1. queue \in Seq(Clients)
      BY DEF SInv, Typed
    <3> QED
      BY <2>2, <3>1
  <2>4. taken' \in [Clients -> Nat]
    <3>1. taken \in [Clients -> Nat] /\ taken' = [taken EXCEPT ![c] = @ + 1]
      BY <1>2 DEF SInv, Typed, ReadRequest
    <3> QED
      BY <3>1
  <2> QED
    BY <1>2, <2>1, <2>3, <2>4, Zenon DEF SInv, Typed, ReadRequest, client
<1>3. CASE Disconnected(c)
  BY <1>3 DEF SInv, Typed, Points, Disconnected, client, lock, End
<1>4. CASE handle_access(c)
  <2>1. queue' \in Seq(Clients) /\ readers' \subseteq Clients /\ UNCHANGED writer
    <3>1. queue \in Seq(Clients) /\ queue # <<>> /\ queue' = Tail(queue)
      BY <1>4 DEF SInv, Typed, handle_access, AcquireRead, Acquire
    <3>2. readers' \subseteq Clients /\ UNCHANGED writer
      BY <1>4 DEF SInv, Typed, handle_access, AcquireRead
    <3> QED
      BY <3>1, <3>2
  <2>2. pc' \in [Clients -> Points]
    BY <1>4, Zenon DEF SInv, Typed, Points, handle_access, ReplyWith
  <2>3. reply' \in [Clients -> Replies \cup {NoReply}]
    BY <1>4, ReplyTypes, Zenon DEF SInv, Typed, handle_access, ReplyWith
  <2>4. copied' \in [Clients -> Seq(Byte)]
    BY <1>4, EmptySeq DEF SInv, Typed, handle_access
  <2> QED
    BY <1>4, <2>1, <2>2, <2>3, <2>4 DEF SInv, Typed, handle_access, client
<1>5. CASE Unwind(c)
  BY <1>5 DEF SInv, Typed, Points, Unwind, client, lock, Panic, End
<1>6. CASE copy(c)
  BY <1>6, CopyStep DEF SInv, Typed, copy, client, lock
<1>7. CASE CopyDone(c)
  <2>1. req(c) \in RequestBody /\ req(c).op \in {"READ", "WRITE"}
    BY <1>7, CurrentRequest DEF SInv, Connection, Handled, Busy, CopyDone
  <2>2. reply' \in [Clients -> Replies \cup {NoReply}]
    BY <1>7, <2>1, SizeNat, ReplyTypes DEF SInv, Typed, CopyDone, ReplyWith
  <2>3. pc' \in [Clients -> Points]
    BY <1>7 DEF SInv, Typed, Points, CopyDone, ReplyWith
  <2> QED
    BY <1>7, <2>2, <2>3 DEF SInv, Typed, CopyDone, client, lock
<1>8. CASE handle_alloc(c)
  <2>1. queue' \in Seq(Clients)
    <3>1. queue \in Seq(Clients) /\ queue # <<>> /\ queue' = Tail(queue)
      BY <1>8 DEF SInv, Typed, handle_alloc, AllocLock, AcquireWrite, Acquire
    <3> QED
      BY <3>1
  <2>2. pc' \in [Clients -> Points]
    BY <1>8 DEF SInv, Typed, Points, handle_alloc
  <2>3. readers' \subseteq Clients /\ writer' \in Clients \cup {Nobody}
    BY <1>8 DEF SInv, Typed, handle_alloc, AllocLock, AcquireWrite
  <2> QED
    BY <1>8, <2>1, <2>2, <2>3, Zenon DEF SInv, Typed, handle_alloc, client
<1>9. CASE Insert(c)
  <2>1. CASE Inserted(c)
    <3>1. reply' \in [Clients -> Replies \cup {NoReply}]
      BY <2>1, ReplyTypes DEF SInv, Typed, Inserted, ReplyWith, NewHandle
    <3>2. pc' \in [Clients -> Points]
      BY <2>1 DEF SInv, Typed, Points, Inserted, ReplyWith
    <3>3. pages' \in Seq(Seq(Byte))
      BY <2>1, InsertStep DEF SInv
    <3> QED
      BY <2>1, <3>1, <3>2, <3>3, SMTT(30) DEF SInv, Typed, Inserted, client
  <2>2. CASE Panic(c) /\ UNCHANGED queue
    BY <2>2 DEF SInv, Typed, Points, Panic, End, client
  <2> QED
    BY <1>9, <2>1, <2>2, InsertCases
<1>10. CASE Reply(c)
  <2>1. req(c) \in RequestBody /\ reply[c] \in Replies
    BY <1>10, CurrentRequest DEF SInv, Connection, Handled, Busy, Reply
  <2>2. [req |-> req(c), reply |-> reply[c]] \in Entries
    BY <2>1 DEF Entries
  <2>3. outbox' \in [Clients -> Seq(Replies)] /\ log' \in [Clients -> Seq(Entries)]
    BY <1>10, <2>1, <2>2 DEF SInv, Typed, Reply
  <2> QED
    BY <1>10, <2>3 DEF SInv, Typed, Points, Reply, client
<1>11. CASE ReplyFails(c)
  BY <1>11 DEF SInv, Typed, Points, ReplyFails, client, lock, Panic, End
<1>12. CASE Receive(c)
  BY <1>12 DEF SInv, Typed, Points, Receive, client, lock
<1>13. CASE Close(c)
  BY <1>13 DEF SInv, Typed, Points, Close, client, lock
<1>14. CASE \E r \in RequestBody : Send(c, r)
  BY <1>14, SMTT(30) DEF SInv, Typed, Points, Send, client, lock
<1> QED
  BY <1>1, <1>2, <1>3, <1>4, <1>5, <1>6, <1>7, <1>8, <1>9, <1>10, <1>11, <1>12, <1>13,
     <1>14 DEF Step, Task

\* Buffers are added at the end of the arena, and keep their length.
LEMMA PagesKept ==
    ASSUME SInv, NEW c \in Clients, Step(c)
    PROVE  /\ Len(pages') >= Len(pages)
           /\ \A h \in 1 .. Len(pages) : Len(pages'[h]) = Len(pages[h])
<1> Len(pages) \in Nat
  BY Lengths DEF SInv
<1>1. CASE copy(c)
  BY <1>1, CopyStep
<1>2. CASE Inserted(c)
  BY <1>2, InsertStep
<1>3. CASE UNCHANGED pages
  BY <1>3
<1> QED
  BY <1>1, <1>2, <1>3, InsertCases, Zenon DEF Step, Task, accept, ReadRequest, Disconnected,
     handle_access,
     Unwind, CopyDone, handle_alloc, Reply, ReplyFails, Receive, Close, Send, Panic

\* What a request names in the arena stays what it is.
LEMMA WindowKept ==
    ASSUME SInv, NEW c \in Clients, Step(c),
           NEW r \in RequestBody, r.op \in {"READ", "WRITE"}, HasPage(r)
    PROVE  HasPage(r)' /\ (OutOfRange(r)' <=> OutOfRange(r)) /\ Extent(r)' = Extent(r)
<1>1. HasPage(r)' /\ Len(page(r)') = Len(page(r))
  <2>1. r.handle + 1 \in 1 .. Len(pages) /\ Len(pages) \in Nat /\ r.handle \in Nat
    BY Window, SizeNat, Lengths DEF SInv
  <2>2. Len(pages') \in Nat
    BY TypedKeeps DEF Typed
  <2> QED
    BY <2>1, <2>2, PagesKept DEF HasPage, page
<1> QED
  BY <1>1 DEF OutOfRange, Extent, Room, Start, Least, size

\* Every step keeps the lock's exclusion: handlers enter through the semaphore,
\* and leave with their reply or their panic.
LEMMA LockedKeeps == ASSUME SInv, NEW c \in Clients, Step(c) PROVE Locked'
<1>0. Locked /\ DOMAIN pc = Clients /\ Nobody \notin Clients
  BY Domains, ServerAssumption DEF SInv
<1>1. CASE accept(c)
  BY <1>1, <1>0 DEF Locked, accept, client, lock
<1>2. CASE ReadRequest(c)
  BY <1>2, <1>0 DEF Locked, ReadRequest, client, lock, End
<1>3. CASE Disconnected(c)
  BY <1>3, <1>0 DEF Locked, Disconnected, client, lock, End
<1>4. CASE handle_access(c)
  BY <1>4, <1>0 DEF Locked, handle_access, client, lock,
     AcquireRead, Acquire, ReplyWith
<1>5. CASE Unwind(c)
  BY <1>5, <1>0 DEF Locked, Unwind, client, lock, Panic,
     End
<1>6. CASE copy(c)
  BY <1>6, <1>0 DEF Locked, copy, client, lock
<1>7. CASE CopyDone(c)
  BY <1>7, <1>0 DEF Locked, CopyDone, client, lock,
     ReplyWith
<1>8. CASE handle_alloc(c)
  BY <1>8, <1>0 DEF Locked, handle_alloc, client, lock,
     AllocLock, AcquireWrite, Acquire
<1>9. CASE Insert(c)
  BY <1>9, <1>0 DEF Locked, Insert, client, lock,
     ReplyWith, Panic, End
<1>10. CASE Reply(c)
  BY <1>10, <1>0 DEF Locked, Reply, client, lock
<1>11. CASE ReplyFails(c)
  BY <1>11, <1>0 DEF Locked, ReplyFails, client, lock,
     Panic, End
<1>12. CASE Receive(c)
  BY <1>12, <1>0 DEF Locked, Receive, client, lock
<1>13. CASE Close(c)
  BY <1>13, <1>0 DEF Locked, Close, client, lock
<1>14. CASE \E r \in RequestBody : Send(c, r)
  BY <1>14, <1>0 DEF Locked, Send, client, lock
<1> QED
  BY <1>1, <1>2, <1>3, <1>4, <1>5, <1>6, <1>7, <1>8, <1>9, <1>10, <1>11, <1>12, <1>13,
     <1>14 DEF Step, Task

\* A connection that does not move, while its client sends or closes and others
\* work in the arena, keeps its invariant.
LEMMA ConnectionFrame ==
    ASSUME SInv, NEW c \in Clients, Step(c), NEW d \in Clients,
           Len(sent'[d]) >= Len(sent[d]), \A i \in 1 .. Len(sent[d]) : sent'[d][i] = sent[d][i],
           closed[d] => closed'[d],
           taken'[d] = taken[d], log'[d] = log[d], pc'[d] = pc[d], reply'[d] = reply[d],
           copied'[d] = copied[d]
    PROVE  Connection(d)'
<1>1. Typed' /\ Connection(d) /\ Typed
  BY TypedKeeps DEF SInv
<1> /\ sent[d] \in Seq(RequestBody) /\ sent'[d] \in Seq(RequestBody)
    /\ log[d] \in Seq(Entries) /\ taken[d] \in Nat
  BY <1>1 DEF Typed
<1> Len(sent[d]) \in Nat /\ Len(sent'[d]) \in Nat /\ Len(log[d]) \in Nat
  OBVIOUS
<1>2. Counted(d)' /\ Logged(d)'
  BY <1>1 DEF Connection, Counted, Logged, Busy
<1>3. pc[d] \in Busy \/ taken[d] > Len(log[d]) => req(d)' = req(d) /\ req(d) \in RequestBody
  <2>1. pc[d] \in Busy \/ taken[d] > Len(log[d]) => taken[d] \in 1 .. Len(sent[d])
    BY <1>1 DEF Connection, Counted
  <2>2. \A i \in 1 .. Len(sent[d]) : sent[d][i] \in RequestBody
    BY SMTT(30)
  <2> QED
    BY <2>1, <2>2 DEF req
<1>4. Handled(d)' /\ InFull(d)'
  BY <1>1, <1>3, ZenonT(30) DEF Connection, Handled, InFull, Busy, Overflows, size
<1>5. Bounded(d)'
  BY <1>1, <1>3, WindowKept, Zenon DEF Connection, Handled, Bounded, Busy, Overflows, size
<1> QED
  BY <1>2, <1>4, <1>5 DEF Connection

\* A step of a connection keeps that connection's own invariant.
LEMMA ConnectionKeeps == ASSUME SInv, NEW c \in Clients, Step(c) PROVE Connection(c)'
<1>0. /\ Connection(c) /\ Len(sent[c]) \in Nat /\ Len(log[c]) \in Nat /\ taken[c] \in Nat
      /\ DOMAIN taken = Clients /\ DOMAIN pc = Clients /\ DOMAIN log = Clients
  BY Lengths, Domains DEF SInv
<1>1. CASE accept(c)
  <2>1. UNCHANGED <<sent, taken, log>> /\ pc[c] = "accept" /\ pc'[c] = "read_next"
    BY <1>0, <1>1 DEF accept, client
  <2> QED
    BY <1>0, <2>1, Zenon DEF Connection, Counted, Handled, Logged, Bounded, InFull, Busy
<1>2. CASE ReadRequest(c)
  <2>1. /\ UNCHANGED <<sent, log>> /\ taken'[c] = taken[c] + 1
        /\ pc[c] = "read_next" /\ taken[c] < Len(sent[c])
    BY <1>0, <1>2 DEF ReadRequest, client
  <2>2. pc'[c] = "lock" \/ (pc'[c] = "ended" /\ req(c)'.op = "CALL")
    BY <1>0, <1>2, <2>1 DEF ReadRequest, End, req
  <2>3. Counted(c)' /\ Logged(c)'
    <3>1. Counted(c) /\ Logged(c) /\ taken[c] = Len(log[c])
      BY <1>0, <2>1 DEF Connection, Counted
    <3>2. Counted(c)'
      BY <1>0, <2>1, <2>2, <3>1 DEF Counted, Busy
    <3>3. Logged(c)'
      BY <2>1, <3>1 DEF Logged
    <3> QED
      BY <3>2, <3>3
  <2>4. Handled(c)' /\ Bounded(c)' /\ InFull(c)'
    BY <2>2 DEF Handled, Bounded, InFull
  <2> QED
    BY <2>3, <2>4 DEF Connection
<1>3. CASE Disconnected(c)
  <2>1. UNCHANGED <<sent, taken, log>> /\ pc[c] = "read_next" /\ pc'[c] = "ended"
    BY <1>0, <1>3 DEF Disconnected, End, client
  <2>2. Counted(c) /\ Logged(c) /\ taken[c] = Len(log[c])
    BY <1>0, <2>1 DEF Connection, Counted
  <2>3. Counted(c)' /\ Logged(c)'
    BY <1>0, <2>1, <2>2 DEF Counted, Logged, Busy
  <2>4. ~(taken'[c] > Len(log'[c]))
    BY <1>0, <2>1, <2>2
  <2> QED
    BY <2>1, <2>3, <2>4 DEF Connection, Handled, Bounded, InFull
<1>4. CASE handle_access(c)
  <2>0. PICK r \in RequestBody : r = req(c)
    BY <1>4, CurrentRequest DEF SInv, Connection, Busy, handle_access
  <2>1. r.op \in {"READ", "WRITE"} /\ Connection(c) /\ Typed
    BY <1>4, <2>0, SMTT(30) DEF SInv, handle_access
  <2>2. UNCHANGED <<sent, taken, log, pages>> /\ req(c)' = r /\ copied'[c] = <<>>
    BY <1>4, <2>0 DEF SInv, Typed, handle_access, client, req
  <2>3. \/ ~HasPage(r) /\ ReplyWith(c, Err("InvalidHandle"))
        \/ OutOfRange(r) /\ ReplyWith(c, Err("ArgumentOutOfRange"))
        \/ HasPage(r) /\ Overflows(r) /\ pc' = [pc EXCEPT ![c] = "panic"]
        \/ /\ HasPage(r) /\ ~OutOfRange(r)
           /\ pc' = [pc EXCEPT ![c] = IF r.op = "READ" /\ size(r) > Room(r)
                                             THEN "panic" ELSE "copy"]
    BY <1>4, <2>0 DEF handle_access
  <2>4. \/ pc'[c] = "reply" /\ reply'[c] \in Replies /\ reply'[c].kind = "ERR"
        \/ pc'[c] = "panic" /\ Overflows(r)
        \/ pc'[c] = "copy" /\ HasPage(r) /\ ~OutOfRange(r) /\ Extent(r) \in Nat
    <3>1. HasPage(r) /\ ~OutOfRange(r) /\ r.op = "READ" /\ size(r) > Room(r) => Overflows(r)
      BY <2>1, Window, SizeNat
    <3> QED
      BY <2>1, <2>3, <3>1, ReplyTypes, Window, SMTT(30) DEF Typed, ReplyWith
  <2>5. Counted(c)' /\ Logged(c)'
    BY <1>4, <2>1, <2>2, <2>4, Zenon DEF Connection, Counted, Logged, Busy, handle_access
  <2>6. Handled(c)' /\ InFull(c)'
    BY <2>1, <2>2, <2>4 DEF Handled, InFull, Fits
  <2>7. Bounded(c)'
    <3>1. HasPage(r)' = HasPage(r) /\ OutOfRange(r)' = OutOfRange(r) /\ Extent(r)' = Extent(r)
      BY <2>2 DEF HasPage, OutOfRange, Extent, Room, Start, Least, page, size
    <3>2. Len(copied'[c]) = 0
      BY <2>2
    <3>3. pc'[c] = "copy" => HasPage(r)' /\ ~OutOfRange(r)' /\ Len(copied'[c]) <= Extent(r)'
      BY <2>4, <3>1, <3>2
    <3>4. pc'[c] = "panic" => Overflows(r)'
      BY <2>4 DEF Overflows, size
    <3> QED
      BY <2>2, <3>3, <3>4 DEF Bounded
  <2> QED
    BY <2>5, <2>6, <2>7 DEF Connection
<1>5. CASE Unwind(c)
  <2>1. UNCHANGED <<sent, taken, log>> /\ pc[c] = "panic" /\ pc'[c] = "ended"
    BY <1>0, <1>5 DEF Unwind, Panic, End, client
  <2>2. Counted(c)' /\ Logged(c)'
    BY <1>0, <2>1 DEF Connection, Counted, Logged, Busy
  <2>3. Overflows(req(c))'
    BY <1>0, <2>1 DEF Connection, Bounded, Overflows, size, req
  <2> QED
    BY <2>1, <2>2, <2>3 DEF Connection, Handled, Bounded, InFull
<1>6. CASE copy(c)
  <2>0. PICK r \in RequestBody : r = req(c)
    BY <1>6, CurrentRequest DEF SInv, Connection, Busy, copy
  <2>1. r.op \in {"READ", "WRITE"} /\ Connection(c) /\ Typed /\ HasPage(r)
    BY <1>6, <2>0 DEF SInv, Connection, Bounded, Handled, copy
  <2>2. UNCHANGED <<sent, taken, log, pc, reply, closed>> /\ pc[c] = "copy" /\ req(c)' = r
    BY <1>6, <2>0 DEF copy, client, req
  <2>3. Len(copied'[c]) = Len(copied[c]) + 1 /\ Len(copied[c]) < Extent(r)
        /\ Len(copied[c]) \in Nat
    BY <1>6, <2>0, CopyStep DEF SInv, Typed, copy
  <2>4. Counted(c)' /\ Logged(c)' /\ Handled(c)' /\ InFull(c)'
    BY <2>0, <2>1, <2>2 DEF Connection, Counted, Logged, Handled, InFull, Busy
  <2>5. Bounded(c)'
    <3>1. HasPage(r)' /\ (OutOfRange(r)' <=> OutOfRange(r)) /\ Extent(r)' = Extent(r)
      BY <2>1, WindowKept
    <3>2. ~OutOfRange(r) /\ Extent(r) \in Nat
      BY <2>0, <2>1, <2>2, Window DEF Connection, Bounded
    <3> QED
      BY <2>2, <2>3, <3>1, <3>2 DEF Bounded
  <2> QED
    BY <2>4, <2>5 DEF Connection
<1>7. CASE CopyDone(c)
  <2>0. PICK r \in RequestBody : r = req(c)
    BY <1>7, CurrentRequest DEF SInv, Connection, Busy, CopyDone
  <2>1. /\ r.op \in {"READ", "WRITE"} /\ Connection(c) /\ Typed
        /\ HasPage(r) /\ ~OutOfRange(r)
    BY <1>7, <2>0 DEF SInv, Connection, Bounded, Handled, CopyDone
  <2>2. UNCHANGED <<sent, taken, log, copied, closed>> /\ pc[c] = "copy" /\ req(c)' = r
    BY <1>7, <2>0 DEF CopyDone, client, req
  <2>3. Len(copied[c]) = Extent(r) /\ pc'[c] = "reply"
    BY <1>7, <2>0 DEF SInv, Typed, CopyDone, ReplyWith
  <2>4. reply'[c] \in Replies /\ Fits(r, reply'[c])
    <3>1. reply'[c] = IF r.op = "WRITE" THEN OkHandle(r.handle) ELSE OkBuffer(copied[c])
      BY <1>7, <2>0 DEF SInv, Typed, CopyDone, ReplyWith
    <3> QED
      BY <2>1, <3>1, ReplyTypes, SizeNat DEF Typed, Fits
  <2>5. Counted(c)' /\ Logged(c)'
    BY <2>1, <2>2, <2>3 DEF Connection, Counted, Logged, Busy
  <2>6. Handled(c)' /\ Bounded(c)'
    BY <2>2, <2>3, <2>4 DEF Handled, Bounded
  <2>7. InFull(c)'
    <3>1. ~Overflows(r) => Extent(r) = size(r)
      BY <2>1, Window
    <3> QED
      BY <2>2, <2>3, <3>1 DEF InFull, Overflows, size
  <2> QED
    BY <2>5, <2>6, <2>7 DEF Connection
<1>8. CASE handle_alloc(c)
  <2>1. /\ UNCHANGED <<sent, taken, log>> /\ pc[c] = "lock" /\ pc'[c] = "insert"
        /\ req(c).op = "ALLOC" /\ req(c)' = req(c)
    BY <1>0, <1>8 DEF handle_alloc, client, req
  <2>2. Counted(c)' /\ Logged(c)'
    BY <1>0, <2>1 DEF Connection, Counted, Logged, Busy
  <2> QED
    BY <2>1, <2>2 DEF Connection, Handled, Bounded, InFull
<1>9. CASE Insert(c)
  <2>1. req(c).op = "ALLOC" /\ pc[c] = "insert" /\ Connection(c) /\ Typed
    BY <1>9 DEF SInv, Connection, Handled, Insert
  <2>2. UNCHANGED <<sent, taken, log, closed>> /\ req(c)' = req(c)
    BY <1>9 DEF Insert, Panic, client, req
  <2>3. \/ pc'[c] = "reply" /\ reply'[c] \in Replies /\ reply'[c].kind = "OK_H"
        \/ pc'[c] = "ended"
    BY <1>9, <2>1, ReplyTypes, Lengths DEF Typed, Insert, Panic, End, ReplyWith, NewHandle
  <2>4. Counted(c)' /\ Logged(c)'
    BY <2>1, <2>2, <2>3 DEF Connection, Counted, Logged, Busy
  <2>5. Handled(c)' /\ Bounded(c)' /\ InFull(c)'
    BY <2>1, <2>2, <2>3 DEF Handled, Bounded, InFull, Fits
  <2> QED
    BY <2>4, <2>5 DEF Connection
<1>10. CASE Reply(c)
  <2> DEFINE e == [req |-> req(c), reply |-> reply[c]]
  <2>1. /\ UNCHANGED <<sent, taken>> /\ pc[c] = "reply" /\ pc'[c] = "read_next"
        /\ log'[c] = Append(log[c], e)
    BY <1>0, <1>10 DEF Reply, client
  <2>2. taken[c] = Len(log[c]) + 1 /\ Fits(sent[c][taken[c]], reply[c])
    BY <1>0, <2>1 DEF Connection, Counted, Handled, Busy, req
  <2>3. /\ Len(log'[c]) = Len(log[c]) + 1 /\ log'[c][Len(log[c]) + 1] = e
        /\ \A i \in 1 .. Len(log[c]) : log'[c][i] = log[c][i]
    <3>1. log[c] \in Seq(Entries)
      BY DEF SInv, Typed
    <3> HIDE DEF e
    <3>2. /\ Len(Append(log[c], e)) = Len(log[c]) + 1 /\ Append(log[c], e)[Len(log[c]) + 1] = e
          /\ \A i \in 1 .. Len(log[c]) : Append(log[c], e)[i] = log[c][i]
      BY <3>1, AppendIs, Zenon
    <3> QED
      BY <2>1, <3>2, Zenon
  <2>4. Counted(c)'
    <3>1. /\ taken'[c] = Len(log[c]) + 1 /\ Len(log'[c]) = Len(log[c]) + 1
          /\ taken[c] <= Len(sent[c]) /\ taken'[c] = taken[c] /\ sent'[c] = sent[c]
      BY <1>0, <2>1, <2>2, <2>3, Zenon DEF Connection, Counted
    <3>2. pc'[c] \notin Busy
      BY <2>1 DEF Busy
    <3>3. taken'[c] <= Len(sent'[c]) /\ taken'[c] = Len(log'[c])
      BY <3>1, Zenon
    <3>4. taken'[c] <= taken'[c] /\ taken'[c] <= taken'[c] + 1
      BY <1>0, <3>1
    <3> QED
      BY <3>2, <3>3, <3>4, Zenon DEF Counted
  <2>5. Logged(c)'
    <3>1. e.req = sent[c][taken[c]] /\ e.reply = reply[c]
      BY DEF req
    <3>2. \A i \in 1 .. Len(log'[c]) : i \in 1 .. Len(log[c]) \/ i = taken[c]
      BY <1>0, <2>2, <2>3, SMTT(30)
    <3> QED
      BY <1>0, <2>1, <2>2, <2>3, <3>1, <3>2 DEF Connection, Logged
  <2> QED
    BY <2>1, <2>4, <2>5 DEF Connection, Handled, Bounded, InFull
<1>11. CASE ReplyFails(c)
  <2>1. /\ UNCHANGED <<sent, taken, log, closed>> /\ pc[c] = "reply" /\ pc'[c] = "ended"
        /\ closed[c]
    BY <1>0, <1>11 DEF ReplyFails, Panic, End, client
  <2> QED
    BY <1>0, <2>1 DEF Connection, Counted, Handled, Logged, Bounded, InFull, Busy
<1>12. CASE Receive(c)
  BY <1>12, ConnectionFrame DEF SInv, Typed, Receive, client
<1>13. CASE Close(c)
  BY <1>13, ConnectionFrame DEF SInv, Typed, Close, client
<1>14. CASE \E r \in RequestBody : Send(c, r)
  <2>1. PICK r \in RequestBody : Send(c, r)
    BY <1>14
  <2>2. sent'[c] = Append(sent[c], r) /\ sent[c] \in Seq(RequestBody)
    BY <2>1 DEF SInv, Typed, Send
  <2>3. Len(sent'[c]) >= Len(sent[c]) /\ \A i \in 1 .. Len(sent[c]) : sent'[c][i] = sent[c][i]
    BY <2>2
  <2> QED
    BY <2>1, <2>3, ConnectionFrame DEF Send
<1> QED
  BY <1>1, <1>2, <1>3, <1>4, <1>5, <1>6, <1>7, <1>8, <1>9, <1>10, <1>11, <1>12, <1>13,
     <1>14 DEF Step, Task

-----------------------------------------------------------------------------
\* The server starts with no connection, an empty arena and a free lock.
LEMMA InitSInv == Init => SInv
<1> SUFFICES ASSUME Init PROVE SInv
  OBVIOUS
<1>1. Typed
  <2>1. \A S : <<>> \in Seq(S)
    BY EmptySeq
  <2> QED
    BY <2>1 DEF Init, Typed, Points
<1>2. Locked
  BY ServerAssumption DEF Init, Locked
<1>3. ASSUME NEW c \in Clients PROVE Connection(c)
  <2>1. /\ pc[c] = "accept" /\ taken[c] = 0 /\ Len(log[c]) = 0 /\ Len(sent[c]) = 0
    BY DEF Init
  <2> QED
    <3>1. Counted(c) /\ Logged(c)
      BY <2>1 DEF Counted, Logged, Busy
    <3>2. Handled(c) /\ Bounded(c) /\ InFull(c)
      BY <2>1, Zenon DEF Handled, Bounded, InFull
    <3> QED
      BY <3>1, <3>2 DEF Connection
<1> QED
  BY <1>1, <1>2, <1>3 DEF SInv

\* Every step belongs to one connection.
LEMMA NextIsStep == Next => \E c \in Clients : Step(c)
  BY RequestAssumption DEF Next, Step

\* A step keeps the invariant of its own connection and of all others.
LEMMA StepKeeps == ASSUME SInv, NEW c \in Clients, Step(c) PROVE SInv'
<1>1. ASSUME NEW d \in Clients, d # c PROVE Connection(d)'
  <2>1. sent[d] \in Seq(RequestBody) /\ Len(sent[d]) \in Nat
    BY Lengths DEF SInv, Typed
  <2> QED
    BY <1>1, <2>1, OthersUnchanged, ConnectionFrame
<1> QED
  BY <1>1, ConnectionKeeps, TypedKeeps, LockedKeeps DEF SInv

\* SInv is about the server's variables only.
LEMMA SInvStutters == ASSUME SInv, UNCHANGED vars PROVE SInv'
<1>1. Typed' /\ Locked'
  BY DEF SInv, Typed, Locked, vars, lock
<1>2. ASSUME NEW c \in Clients PROVE Connection(c)'
  <2>0. UNCHANGED <<sent, taken, log, closed, pc, reply, copied, pages>> /\ Connection(c)
    BY DEF SInv, vars
  <2>1. Counted(c)' /\ Handled(c)' /\ Logged(c)'
    BY <2>0, Zenon DEF Connection, Counted, Handled, Logged, req
  <2>2. Bounded(c)' /\ InFull(c)'
    BY <2>0, Zenon DEF Connection, Bounded, InFull, req, HasPage, OutOfRange,
                Overflows, Extent, Room, Start, Least, page, size
  <2> QED
    BY <2>1, <2>2 DEF Connection
<1> QED
  BY <1>1, <1>2 DEF SInv

\* SInv is an inductive invariant.
LEMMA SInvInductive == Spec => []SInv
<1>1. SInv /\ [Next]_vars => SInv'
  <2> SUFFICES ASSUME SInv, [Next]_vars PROVE SInv'
    OBVIOUS
  <2>1. CASE Next
    BY <2>1, NextIsStep, StepKeeps
  <2>2. CASE UNCHANGED vars
    BY <2>2, SInvStutters
  <2> QED
    BY <2>1, <2>2
<1> QED
  BY InitSInv, <1>1, PTL DEF Spec

-----------------------------------------------------------------------------
\* No step extends the arena while a handler copies to or from one of its
\* buffers: the write half of the lock excludes the read half.
THEOREM ArenaStill == Spec => RefsStable
<1>1. SInv /\ [Next]_vars
        => [Len(pages') # Len(pages) => \A c \in Clients : pc[c] # "copy"]_vars
  <2> SUFFICES ASSUME SInv, NEW c \in Clients, Step(c), Len(pages') # Len(pages)
               PROVE  \A d \in Clients : pc[d] # "copy"
    BY NextIsStep
  <2>1. Inserted(c)
    BY CopyStep, InsertCases, Zenon DEF Step, Task, accept, ReadRequest, Disconnected,
       handle_access,
       Unwind, CopyDone, handle_alloc, Reply, ReplyFails, Receive, Close, Send, Panic
  <2> QED
    BY <2>1, ServerAssumption DEF SInv, Locked, Inserted
<1> QED
  BY <1>1, SInvInductive, PTL DEF Spec, RefsStable

\* Replies come in the order of the requests and fit them, for any number of
\* connections and pipelined requests.
THEOREM RepliesInOrder == Spec => []OrderedReplies
<1>1. SInv => OrderedReplies
  <2> SUFFICES ASSUME SInv, NEW c \in Clients
               PROVE  /\ Len(log[c]) <= taken[c]
                      /\ pc[c] \in {"accept", "read_next"} => Len(log[c]) = taken[c]
                      /\ taken[c] <= Len(log[c]) + 1
                      /\ \A i \in DOMAIN log[c] :
                            log[c][i].req = sent[c][i] /\ Fits(sent[c][i], log[c][i].reply)
    BY DEF OrderedReplies, Fits
  <2>1. DOMAIN log[c] = 1 .. Len(log[c])
    BY DEF SInv, Typed
  <2> QED
    BY <2>1 DEF SInv, Connection, Counted, Logged
<1> QED
  BY <1>1, SInvInductive, PTL

\* A read or write that is acknowledged was copied in full: past the bounds check
\* Cursor::write has room for the whole buffer, unless the sum wrapped.
THEOREM FullCopies == Spec => []OkMeansAll
<1>1. SInv => OkMeansAll
  BY DEF SInv, Connection, InFull, OkMeansAll
<1> QED
  BY <1>1, SInvInductive, PTL

-----------------------------------------------------------------------------
(* The buffers that were allocated *)

\* Request i of c has its reply, written or about to be.
Given(c, i) == i \in 1 .. Len(log[c]) \/ (pc[c] = "reply" /\ i = taken[c])
Answer(c, i) == IF i \in 1 .. Len(log[c]) THEN log[c][i].reply ELSE reply[c]

\* Request i of c was given the buffer Own(c, i).
Allocated(c, i) == Given(c, i) /\ sent[c][i].op = "ALLOC"
Own(c, i) == Answer(c, i).handle

\* AllocHonoured, from the moment the buffer is in the arena; no buffer is empty.
Exists(c, i) == /\ Own(c, i) \in Nat /\ Own(c, i) < Len(pages)
                /\ Len(pages[Own(c, i) + 1]) >= sent[c][i].size /\ sent[c][i].size > 0
AInv ==
    \A c \in Clients, i \in Nat : Allocated(c, i) =>
        /\ Exists(c, i)
        /\ \A d \in Clients, j \in Nat :
              Allocated(d, j) /\ (d # c \/ j # i) => Own(d, j) # Own(c, i)

\* Requests with a reply are among those sent.
LEMMA GivenSent ==
    ASSUME SInv, NEW c \in Clients, NEW i \in Nat, Given(c, i)
    PROVE  i \in 1 .. Len(sent[c]) /\ i \in 1 .. taken[c]
<1>1. /\ Counted(c) /\ Len(sent[c]) \in Nat /\ Len(log[c]) \in Nat /\ taken[c] \in Nat
  BY Lengths DEF SInv, Connection
<1> QED
  BY <1>1 DEF Given, Counted, Busy

\* A step that does not answer request i leaves its reply as it was.
LEMMA AnswerFrame ==
    ASSUME SInv, NEW d \in Clients, NEW i \in Nat, Allocated(d, i)',
           \A k \in 1 .. Len(sent[d]) : sent'[d][k] = sent[d][k],
           log'[d] = log[d],
           i \in 1 .. Len(log[d]) \/ (pc[d] = "reply" /\ taken'[d] = taken[d] /\ reply'[d] = reply[d])
    PROVE  Allocated(d, i) /\ Own(d, i)' = Own(d, i) /\ sent'[d][i] = sent[d][i]
<1>1. Given(d, i)
  BY DEF Allocated, Given
<1>2. sent'[d][i] = sent[d][i]
  BY <1>1, GivenSent
<1> QED
  BY <1>1, <1>2 DEF Allocated, Given, Own, Answer

\* An allocation gets its reply once, in Insert.
LEMMA AllocatedStep ==
    ASSUME SInv, NEW c \in Clients, Step(c), NEW d \in Clients, NEW i \in Nat, Allocated(d, i)'
    PROVE  \/ Allocated(d, i) /\ Own(d, i)' = Own(d, i) /\ sent'[d][i] = sent[d][i]
           \/ /\ Inserted(c) /\ d = c /\ i = taken[c] /\ Own(d, i)' = Len(pages)
              /\ sent'[d][i] = sent[d][i]
<1>0. /\ DOMAIN sent = Clients /\ DOMAIN log = Clients /\ DOMAIN pc = Clients
      /\ DOMAIN reply = Clients
  BY Domains DEF SInv
<1>1. ASSUME d # c PROVE Allocated(d, i) /\ Own(d, i)' = Own(d, i) /\ sent'[d][i] = sent[d][i]
  <2>1. sent'[d] = sent[d] /\ taken'[d] = taken[d] /\ log'[d] = log[d] /\ pc'[d] = pc[d]
        /\ reply'[d] = reply[d]
    BY <1>1, OthersUnchanged
  <2>2. i \in 1 .. Len(log[d]) \/ pc[d] = "reply"
    BY <2>1 DEF Allocated, Given
  <2> QED
    BY <2>1, <2>2, AnswerFrame
<1>2. ASSUME d = c, UNCHANGED <<sent, log>>, pc'[c] # "reply"
      PROVE  Allocated(d, i) /\ Own(d, i)' = Own(d, i) /\ sent'[d][i] = sent[d][i]
  <2>1. i \in 1 .. Len(log[c])
    BY <1>2 DEF Allocated, Given
  <2> QED
    BY <1>2, <2>1, AnswerFrame
<1>3. ASSUME d = c, UNCHANGED <<sent, taken, log>>, req(c).op # "ALLOC"
      PROVE  Allocated(d, i) /\ Own(d, i)' = Own(d, i) /\ sent'[d][i] = sent[d][i]
  <2>1. i \in 1 .. Len(log[c])
    BY <1>3 DEF Allocated, Given, req
  <2> QED
    BY <1>3, <2>1, AnswerFrame
<1>4. ASSUME d = c, log' = log, taken' = taken, pc' = pc, reply' = reply,
             \A k \in 1 .. Len(sent[c]) : sent'[c][k] = sent[c][k]
      PROVE  Allocated(d, i) /\ Own(d, i)' = Own(d, i) /\ sent'[d][i] = sent[d][i]
  <2>1. i \in 1 .. Len(log[c]) \/ pc[c] = "reply"
    BY <1>4 DEF Allocated, Given
  <2> QED
    BY <1>4, <2>1, AnswerFrame
<1>5. CASE accept(c)
  BY <1>0, <1>1, <1>2, <1>5 DEF accept, client
<1>6. CASE ReadRequest(c)
  BY <1>0, <1>1, <1>2, <1>6 DEF ReadRequest, End, client
<1>7. CASE Disconnected(c)
  BY <1>0, <1>1, <1>2, <1>7 DEF Disconnected, End, client
<1>8. CASE handle_access(c)
  BY <1>1, <1>3, <1>8 DEF handle_access, client
<1>9. CASE Unwind(c)
  BY <1>0, <1>1, <1>2, <1>9 DEF Unwind, Panic, End, client
<1>10. CASE copy(c)
  BY <1>1, <1>4, <1>10 DEF copy, client
<1>11. CASE CopyDone(c)
  <2>1. req(c).op # "ALLOC"
    BY <1>11 DEF SInv, Connection, Handled, CopyDone
  <2> QED
    BY <1>1, <1>3, <1>11, <2>1 DEF CopyDone, client
<1>12. CASE handle_alloc(c)
  BY <1>0, <1>1, <1>2, <1>12 DEF handle_alloc, client
<1>13. CASE Inserted(c) /\ d = c
  <2>1. /\ UNCHANGED <<sent, taken, log>> /\ pc'[c] = "reply" /\ reply'[c] = OkHandle(Len(pages))
        /\ pc[c] = "insert"
    BY <1>0, <1>13 DEF Inserted, ReplyWith, NewHandle, client
  <2>2. CASE i \in 1 .. Len(log[c])
    BY <1>13, <2>1, <2>2, AnswerFrame
  <2>3. CASE ~(i \in 1 .. Len(log[c]))
    <3>1. i = taken[c] /\ Own(d, i)' = OkHandle(Len(pages)).handle
      BY <1>13, <2>1, <2>3 DEF Allocated, Given, Own, Answer
    <3> QED
      BY <1>13, <2>1, <3>1 DEF OkHandle
  <2> QED
    BY <2>2, <2>3
<1>14. CASE Insert(c)
  <2>1. CASE Panic(c)
    BY <1>0, <1>1, <1>2, <2>1 DEF Panic, End, client
  <2> QED
    BY <1>1, <1>13, <1>14, <2>1, InsertCases
<1>15. CASE Reply(c) /\ d = c
  <2> DEFINE e == [req |-> req(c), reply |-> reply[c]]
  <2>0. log[c] \in Seq(Entries) /\ Len(log[c]) \in Nat /\ taken[c] \in Nat
    BY Lengths DEF SInv, Typed
  <2>1. /\ UNCHANGED <<sent, taken>> /\ pc[c] = "reply" /\ pc'[c] = "read_next"
        /\ log'[c] = Append(log[c], e)
    BY <1>0, <1>15 DEF Reply, client
  <2>7. taken[c] = Len(log[c]) + 1
    BY <2>1 DEF SInv, Connection, Counted, Busy
  <2>2. e.reply = reply[c]
    OBVIOUS
  <2> HIDE DEF e
  <2>3. /\ Len(log'[c]) = Len(log[c]) + 1 /\ log'[c][Len(log[c]) + 1] = e
        /\ \A k \in 1 .. Len(log[c]) : log'[c][k] = log[c][k]
    <3>1. /\ Len(Append(log[c], e)) = Len(log[c]) + 1 /\ Append(log[c], e)[Len(log[c]) + 1] = e
          /\ \A k \in 1 .. Len(log[c]) : Append(log[c], e)[k] = log[c][k]
      <4>1. log[c] \in Seq(Entries)
        BY <2>0, Zenon
      <4> QED
        BY <4>1, AppendIs, Zenon
    <3> QED
      BY <2>1, <3>1, Zenon
  <2>4. i \in 1 .. Len(log[c]) \/ i = taken[c]
    BY <2>0, <1>15, <2>1, <2>3, <2>7 DEF Allocated, Given
  <2>5. taken[c] \in 1 .. Len(log'[c]) /\ ~(taken[c] \in 1 .. Len(log[c]))
        /\ \A k \in 1 .. Len(log[c]) : k \in 1 .. Len(log'[c])
    BY <2>0, <2>3, <2>7
  <2>6. Given(c, i) /\ Answer(c, i)' = Answer(c, i)
    BY <2>1, <2>2, <2>3, <2>4, <2>5 DEF Given, Answer
  <2> QED
    BY <1>15, <2>1, <2>6 DEF Allocated, Own
<1>16. CASE ReplyFails(c)
  BY <1>0, <1>1, <1>2, <1>16 DEF ReplyFails, Panic, End, client
<1>17. CASE Receive(c) \/ Close(c)
  BY <1>1, <1>4, <1>17 DEF Receive, Close, client
<1>18. CASE \E r \in RequestBody : Send(c, r)
  <2>1. PICK r \in RequestBody : Send(c, r)
    BY <1>18
  <2>2. \A k \in 1 .. Len(sent[c]) : sent'[c][k] = sent[c][k]
    <3>0. sent[c] \in Seq(RequestBody)
      BY DEF SInv, Typed
    <3>1. sent'[c] = Append(sent[c], r)
      BY <1>0, <2>1 DEF Send
    <3>2. \A k \in 1 .. Len(sent[c]) : Append(sent[c], r)[k] = sent[c][k]
      BY <3>0, AppendIs, Zenon
    <3> QED
      BY <3>1, <3>2, Zenon
  <2>3. UNCHANGED <<taken, log, pc, reply>>
    BY <2>1 DEF Send
  <2> QED
    BY <1>1, <1>4, <2>2, <2>3
<1> QED
  BY <1>1, <1>5, <1>6, <1>7, <1>8, <1>9, <1>10, <1>11, <1>12, <1>14, <1>15, <1>16, <1>17,
     <1>18 DEF Step, Task

\* Division by the size of a page
LEMMA DivMod == ASSUME NEW n \in Nat
                PROVE  /\ n \div PageSize \in Nat /\ n % PageSize \in 0 .. PageSize - 1
                       /\ n = PageSize * (n \div PageSize) + (n % PageSize)
  BY ServerAssumption

\* Fewer bytes are fewer pages.
LEMMA FewerPages == ASSUME NEW a \in Nat, NEW b \in Nat, NEW p \in Nat \ {0}, a * p < b * p + p
                    PROVE  a <= b
<1> SUFFICES ASSUME a >= b + 1 PROVE FALSE
  OBVIOUS
<1>1. PICK k \in Nat : a = b + 1 + k
  OBVIOUS
<1>2. a * p = b * p + p + k * p
  BY <1>1
<1>3. k * p \in Nat
  OBVIOUS
<1> QED
  BY <1>2, <1>3

\* with_size maps at least the bytes asked for: rounding up to whole pages wraps
\* only at U64 itself, and then to the length 0 that mmap refuses.
LEMMA MappedLenCovers == ASSUME NEW n \in 0 .. U64 - 1, MappedLen(n) > 0
                         PROVE  MappedLen(n) \in Nat /\ MappedLen(n) >= n
<1> DEFINE q == U64 \div PageSize
           a == n \div PageSize
           k == a + (IF n % PageSize > 0 THEN 1 ELSE 0)
<1>1. q \in Nat /\ U64 = PageSize * q
  BY ServerAssumption, DivMod
<1>2. a \in Nat /\ n % PageSize \in 0 .. PageSize - 1 /\ n = PageSize * a + (n % PageSize)
  BY ServerAssumption, DivMod
<1>3. k \in Nat /\ k * PageSize >= n /\ k * PageSize < n + PageSize
  BY <1>2, ServerAssumption
<1> HIDE DEF q, a
<1>4. k * PageSize < q * PageSize + PageSize
  BY <1>1, <1>3, ServerAssumption
<1> HIDE DEF k
<1>5. k <= q
  BY <1>1, <1>3, <1>4, ServerAssumption, FewerPages
<1>6. k * PageSize <= U64 /\ k * PageSize \in Nat
  BY <1>1, <1>3, <1>5, ServerAssumption
<1>7. MappedLen(n) = (k * PageSize) % U64
  BY DEF MappedLen, k, a
<1>8. U64 % U64 = 0 /\ \A x \in Nat : x < U64 => x % U64 = x
  BY ServerAssumption
<1> QED
  BY <1>3, <1>6, <1>7, <1>8, ServerAssumption

\* The new buffer is as large as the request asks.
LEMMA NewBuffer ==
    ASSUME SInv, NEW c \in Clients, Inserted(c)
    PROVE  Len(pages'[Len(pages) + 1]) >= req(c).size /\ req(c).size > 0
<1> DEFINE n == MappedLen(req(c).size)
           z == [i \in 1 .. n |-> 0]
<1>1. req(c) \in RequestBody /\ req(c).op = "ALLOC" /\ n > 0
  BY CurrentRequest DEF SInv, Connection, Handled, Busy, Inserted
<1>2. n \in Nat /\ n >= req(c).size
  BY <1>1, RequestFields, MappedLenCovers
<1>3. z \in Seq(Byte) /\ Len(z) = n
  BY <1>2 DEF Byte
<1>4. pages \in Seq(Seq(Byte)) /\ pages' = Append(pages, z)
  BY DEF SInv, Typed, Inserted
<1> HIDE DEF z
<1>5. req(c).size > 0
  <2>1. MappedLen(0) = 0
    BY ServerAssumption DEF MappedLen
  <2> QED
    BY <1>1, <2>1, RequestFields, ServerAssumption
<1> QED
  BY <1>2, <1>3, <1>4, <1>5

\* Every step keeps it.
LEMMA AInvKeeps == ASSUME SInv, AInv, NEW c \in Clients, Step(c) PROVE AInv'
<1>0. pages \in Seq(Seq(Byte)) /\ Len(pages) \in Nat
  BY DEF SInv, Typed
<1>00. Len(pages') \in Nat
  BY TypedKeeps DEF Typed
<1>1. ASSUME NEW d \in Clients, NEW i \in Nat, Allocated(d, i)' PROVE Exists(d, i)'
  <2>1. CASE Allocated(d, i) /\ Own(d, i)' = Own(d, i) /\ sent'[d][i] = sent[d][i]
    <3>1. Exists(d, i)
      BY <2>1 DEF AInv
    <3>2. Own(d, i) + 1 \in 1 .. Len(pages) /\ Len(pages') >= Len(pages) /\ Len(pages') \in Nat
      BY <1>0, <1>00, <3>1, PagesKept DEF Exists
    <3>3. Len(pages'[Own(d, i) + 1]) = Len(pages[Own(d, i) + 1])
      BY <3>2, PagesKept
    <3> QED
      BY <1>0, <2>1, <3>1, <3>2, <3>3 DEF Exists
  <2>2. CASE Inserted(c) /\ d = c /\ i = taken[c] /\ Own(d, i)' = Len(pages) /\ sent'[d][i] = sent[d][i]
    BY <1>0, <2>2, NewBuffer, InsertStep DEF Exists, req
  <2> QED
    BY <1>1, <2>1, <2>2, AllocatedStep
<1>2. ASSUME NEW d \in Clients, NEW i \in Nat, Allocated(d, i)',
             NEW e \in Clients, NEW j \in Nat, Allocated(e, j)', e # d \/ j # i
      PROVE  Own(e, j)' # Own(d, i)'
  <2>1. \/ Allocated(d, i) /\ Own(d, i)' = Own(d, i)
        \/ d = c /\ i = taken[c] /\ Own(d, i)' = Len(pages)
    BY <1>2, AllocatedStep
  <2>2. \/ Allocated(e, j) /\ Own(e, j)' = Own(e, j)
        \/ e = c /\ j = taken[c] /\ Own(e, j)' = Len(pages)
    BY <1>2, AllocatedStep
  <2>3. /\ Allocated(d, i) => Own(d, i) \in Nat /\ Own(d, i) < Len(pages)
        /\ Allocated(e, j) => Own(e, j) \in Nat /\ Own(e, j) < Len(pages)
    BY DEF AInv, Exists
  <2>4. Allocated(d, i) /\ Allocated(e, j) => Own(e, j) # Own(d, i)
    BY <1>2 DEF AInv
  <2> QED
    BY <1>0, <1>2, <2>1, <2>2, <2>3, <2>4
<1> QED
  BY <1>1, <1>2 DEF AInv

\* AInv is about the replies and the arena only; whether a reply is written matters
\* only to the one that is about to be.
LEMMA AInvStutters ==
    ASSUME AInv, UNCHANGED <<sent, taken, log, reply, pages>>,
           \A c \in Clients : pc'[c] = "reply" => pc[c] = "reply"
    PROVE  AInv'
<1>1. ASSUME NEW c \in Clients, NEW i \in Nat
      PROVE  /\ Allocated(c, i)' => Allocated(c, i)
             /\ Own(c, i)' = Own(c, i) /\ (Exists(c, i) => Exists(c, i)')
  <2>1. Allocated(c, i)' => Allocated(c, i)
    BY Zenon DEF Allocated, Given
  <2>2. Own(c, i)' = Own(c, i)
    BY Zenon DEF Own, Answer
  <2>3. Exists(c, i) => Exists(c, i)'
    BY <2>2, Zenon DEF Exists
  <2> QED
    BY <2>1, <2>2, <2>3
<1> QED
  BY <1>1 DEF AInv

\* Replies queue up to the capacity of the socket.
Queued == \A c \in Clients : Len(outbox[c]) <= SockCap

\* Every step keeps it.
LEMMA QueuedKeeps == ASSUME SInv, Queued, NEW c \in Clients, Step(c) PROVE Queued'
<1>0. outbox \in [Clients -> Seq(Replies)] /\ SockCap \in Nat
  BY ServerAssumption DEF SInv, Typed
<1>1. Len(outbox'[c]) <= SockCap
  <2>1. CASE Reply(c)
    <3>1. outbox'[c] = Append(outbox[c], reply[c]) /\ Len(outbox[c]) < SockCap
      BY <1>0, <2>1 DEF Reply, HasRoom
    <3>2. reply[c] \in Replies
      BY <2>1 DEF SInv, Connection, Handled, Reply
    <3> QED
      BY <1>0, <3>1, <3>2
  <2>2. CASE Receive(c)
    <3>1. outbox'[c] = Tail(outbox[c]) /\ outbox[c] # <<>> /\ outbox[c] \in Seq(Replies)
      BY <1>0, <2>2 DEF Receive
    <3>2. Len(outbox'[c]) = Len(outbox[c]) - 1 /\ Len(outbox[c]) \in Nat
      BY <3>1, HeadTailProperties
    <3> QED
      BY <1>0, <3>2 DEF Queued
  <2>3. CASE UNCHANGED outbox
    BY <2>3 DEF Queued
  <2> QED
    BY <2>1, <2>2, <2>3, Zenon DEF Step, Task, accept, ReadRequest, Disconnected, handle_access,
       Unwind, copy, CopyDone, handle_alloc, Insert, ReplyFails, Close, Send, Panic
<1> QED
  BY <1>1, OthersUnchanged DEF Queued

\* PanicJustified for one connection
Justified(c) ==
    pc[c] = "ended" /\ taken[c] > Len(log[c])
        => closed[c] \/ req(c).op \in {"CALL", "ALLOC"} \/ Overflows(req(c))

\* Only a request that does not fit a u64, or one that mmap or the message decoder
\* refuses, ends a task that has not answered it.
LEMMA JustifiedKeeps ==
    ASSUME SInv, NEW c \in Clients, Step(c), NEW d \in Clients, Justified(d)
    PROVE  Justified(d)'
<1>0. /\ DOMAIN sent = Clients /\ DOMAIN taken = Clients /\ DOMAIN pc = Clients
      /\ DOMAIN closed = Clients /\ Connection(c)
  BY Domains DEF SInv
<1>1. ASSUME d # c PROVE Justified(d)'
  <2>1. sent'[d] = sent[d] /\ taken'[d] = taken[d] /\ log'[d] = log[d] /\ pc'[d] = pc[d]
        /\ closed'[d] = closed[d]
    BY <1>1, OthersUnchanged
  <2> QED
    BY <2>1, Zenon DEF Justified, req, Overflows, size
<1>2. ASSUME d = c, pc'[c] # "ended" PROVE Justified(d)'
  BY <1>2, Zenon DEF Justified
<1>3. CASE accept(c) \/ handle_access(c) \/ handle_alloc(c) \/ CopyDone(c) \/ Reply(c)
  BY <1>0, <1>1, <1>2, <1>3 DEF accept, handle_access, handle_alloc, CopyDone, Reply, ReplyWith
<1>4. CASE ReadRequest(c)
  <2>1. pc'[c] = "ended" => req(c)'.op = "CALL"
    BY <1>0, <1>4 DEF ReadRequest, req, client
  <2> QED
    BY <1>1, <2>1 DEF Justified
<1>5. CASE Disconnected(c) \/ ReplyFails(c)
  <2>1. closed'[c]
    BY <1>5 DEF Disconnected, ReplyFails, Panic, client
  <2> QED
    BY <1>1, <2>1, Zenon DEF Justified
<1>6. CASE Unwind(c)
  <2>1. Overflows(req(c))'
    BY <1>0, <1>6 DEF Unwind, Panic, Connection, Bounded, Overflows, size, req, client
  <2> QED
    BY <1>1, <2>1, Zenon DEF Justified
<1>7. CASE Insert(c)
  <2>1. req(c)'.op = "ALLOC"
    BY <1>0, <1>7 DEF Insert, Panic, Connection, Handled, req, client
  <2> QED
    BY <1>1, <2>1 DEF Justified
<1>8. CASE copy(c)
  BY <1>1, <1>2, <1>8 DEF copy
<1>9. CASE d = c /\ (Receive(c) \/ Close(c) \/ \E r \in RequestBody : Send(c, r))
  <2>1. UNCHANGED <<taken, log, pc>> /\ (closed[c] => closed'[c])
    BY <1>0, <1>9 DEF Receive, Close, Send, client
  <2>2. ASSUME taken[c] > Len(log[c]) PROVE req(c)' = req(c)
    <3>1. taken[c] \in 1 .. Len(sent[c])
      BY <1>0, <2>2, Lengths DEF SInv, Connection, Counted
    <3>2. ASSUME \E r \in RequestBody : Send(c, r)
          PROVE  sent'[c][taken[c]] = sent[c][taken[c]]
      <4>1. PICK r \in RequestBody : sent'[c] = Append(sent[c], r)
        BY <1>0, <3>2 DEF Send
      <4>2. sent[c] \in Seq(RequestBody)
        BY DEF SInv, Typed
      <4>3. \A k \in 1 .. Len(sent[c]) : Append(sent[c], r)[k] = sent[c][k]
        BY <4>2, AppendIs, Zenon
      <4> QED
        BY <3>1, <4>1, <4>3
    <3>3. sent'[c][taken[c]] = sent[c][taken[c]]
      BY <1>9, <3>2 DEF Receive, Close, client
    <3> QED
      BY <2>1, <3>3 DEF req
  <2> QED
    BY <1>9, <2>1, <2>2, Zenon DEF Justified, Overflows, size
<1> QED
  BY <1>1, <1>3, <1>4, <1>5, <1>6, <1>7, <1>8, <1>9 DEF Step, Task

\* The invariants together
LEMMA ServerInvariance == Spec => [](SInv /\ AInv /\ Queued /\ \A c \in Clients : Justified(c))
<1> DEFINE J == \A c \in Clients : Justified(c)
<1>1. Init => AInv /\ Queued /\ J
  <2> SUFFICES ASSUME Init PROVE AInv /\ Queued /\ J
    OBVIOUS
  <2>1. \A c \in Clients : pc[c] = "accept" /\ Len(log[c]) = 0 /\ Len(outbox[c]) = 0
    BY DEF Init
  <2>2. \A c \in Clients, i \in Nat : ~Given(c, i)
    BY <2>1 DEF Given
  <2>3. AInv /\ J
    BY <2>1, <2>2, Zenon DEF AInv, Allocated, Justified
  <2>4. Queued
    BY <2>1, ServerAssumption DEF Queued
  <2> QED
    BY <2>3, <2>4
<1>2. SInv /\ AInv /\ Queued /\ J /\ [Next]_vars => AInv' /\ Queued' /\ J'
  <2> SUFFICES ASSUME SInv, AInv, Queued, J, [Next]_vars PROVE AInv' /\ Queued' /\ J'
    OBVIOUS
  <2>1. CASE Next
    BY <2>1, NextIsStep, AInvKeeps, QueuedKeeps, JustifiedKeeps
  <2>2. CASE UNCHANGED vars
    <3>1. UNCHANGED <<sent, taken, outbox, log, closed, pc, reply, pages>>
      BY <2>2 DEF vars
    <3>3. AInv'
      BY <3>1, AInvStutters
    <3> QED
      BY <3>1, <3>3, Zenon DEF Queued, Justified, req, Overflows, size
  <2> QED
    BY <2>1, <2>2
<1> QED
  BY <1>1, <1>2, SInvInductive, PTL DEF Spec

-----------------------------------------------------------------------------
\* No connection is lost to a request, but for an Invoke, a failed mmap and a sum
\* that does not fit a u64: read_exact always finds its bytes otherwise.
THEOREM PanicsJustified == Spec => []PanicJustified
<1>1. (\A c \in Clients : Justified(c)) => PanicJustified
  BY Zenon DEF Justified, PanicJustified
<1> QED
  BY <1>1, ServerInvariance, PTL

\* Requests, replies, buffers and the lock's queue are what they are declared to be,
\* and a socket never holds more replies than it has room for.
THEOREM ServerTypeCorrect == Spec => []TypeOK
<1>1. SInv /\ Queued => TypeOK
  <2> SUFFICES ASSUME SInv, Queued PROVE TypeOK
    OBVIOUS
  <2>1. ASSUME NEW c \in Clients PROVE taken[c] \in 0 .. Len(sent[c])
    <3>1. taken[c] \in Nat /\ Len(sent[c]) \in Nat
      BY Lengths DEF SInv
    <3>2. taken[c] <= Len(sent[c])
      BY Zenon DEF SInv, Connection, Counted
    <3> QED
      BY <3>1, <3>2
  <2> QED
    BY <2>1, Zenon DEF SInv, Queued, Typed, TypeOK, Points, Entries
<1> QED
  BY <1>1, ServerInvariance, PTL

\* Every handle that was returned names a buffer of its own, at least as long as was
\* asked for, for any number of clients and allocations and any size of page.
THEOREM AllocationsHonoured == Spec => []AllocHonoured
<1>1. SInv /\ AInv => AllocHonoured
  <2> SUFFICES ASSUME SInv, AInv PROVE AllocHonoured
    OBVIOUS
  <2>1. ASSUME NEW a \in Allocs
        PROVE  /\ a[1] \in Clients /\ a[2] \in Nat /\ a = <<a[1], a[2]>>
               /\ Allocated(a[1], a[2])
               /\ log[a[1]][a[2]].req = sent[a[1]][a[2]]
               /\ log[a[1]][a[2]].reply.handle = Own(a[1], a[2])
    <3>1. PICK c \in Clients : a \in {c} \X DOMAIN log[c]
      BY DEF Allocs
    <3>2. DOMAIN log[c] = 1 .. Len(log[c]) /\ Len(log[c]) \in Nat
      BY DEF SInv, Typed
    <3>3. a[1] = c /\ a[2] \in 1 .. Len(log[c]) /\ a = <<a[1], a[2]>> /\ a[2] \in Nat
      BY <3>1, <3>2
    <3>4. log[c][a[2]].req = sent[c][a[2]]
      BY <3>3 DEF SInv, Connection, Logged
    <3>5. log[c][a[2]].req.op = "ALLOC"
      BY <3>3 DEF Allocs
    <3> QED
      BY <3>3, <3>4, <3>5 DEF Allocated, Given, Own, Answer
  <2>2. ASSUME NEW a \in Allocs
        PROVE  /\ log[a[1]][a[2]].reply.handle < Len(pages)
               /\ Len(pages[log[a[1]][a[2]].reply.handle + 1]) >= log[a[1]][a[2]].req.size
    <3>1. Exists(a[1], a[2])
      BY <2>1 DEF AInv
    <3> QED
      BY <2>1, <3>1 DEF Exists
  <2>3. ASSUME NEW a \in Allocs, NEW b \in Allocs, b # a
        PROVE  log[b[1]][b[2]].reply.handle # log[a[1]][a[2]].reply.handle
    <3>1. b[1] # a[1] \/ b[2] # a[2]
      BY <2>1, <2>3, Zenon
    <3>2. Own(b[1], b[2]) # Own(a[1], a[2])
      BY <2>1, <3>1 DEF AInv
    <3> QED
      BY <2>1, <3>2
  <2> QED
    BY <2>2, <2>3 DEF AllocHonoured
<1> QED
  BY <1>1, ServerInvariance, PTL
=============================================================================
