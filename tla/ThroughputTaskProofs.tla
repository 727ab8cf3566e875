------------------------ MODULE ThroughputTaskProofs ------------------------
(* Any number of throughput clients, buffers and chunks of any size: the    *)
(* inductive invariant (where each client is and what its buffer holds),    *)
(* and what the server's tasks do to it.                                    *)
EXTENDS Throughput, PageServerProofs

\* The buffer that client d was given
Mine(d) == log[d][1].reply.handle
Buf(d) == pages[Mine(d) + 1]

\* Client d asks for its buffer first, and then accesses only that buffer, and in
\* it only the bytes it asked for.
Asked(d) ==
    /\ Len(sent[d]) >= 1 => sent[d][1] = [op |-> "ALLOC", size |-> BufSize(d)]
    /\ \A i \in 2 .. Len(sent[d]) :
          /\ Len(log[d]) >= 1
          /\ sent[d][i].op \in {"READ", "WRITE"} /\ sent[d][i].handle = Mine(d)
          /\ sent[d][i].offset + size(sent[d][i]) <= BufSize(d)

\* No request of d is out, or exactly one: d runs in lock step with its task.
Idle(d) == Len(log[d]) = Len(sent[d]) /\ outbox[d] = <<>>
Waiting(d) ==
    \/ Len(log[d]) + 1 = Len(sent[d]) /\ outbox[d] = <<>>
    \/ Len(log[d]) = Len(sent[d]) /\ outbox[d] = <<log[d][Len(log[d])].reply>>

\* d knows its handle and has a chunk to write and read back.
Placed(d) == Len(log[d]) >= 1 /\ handle[d] = Mine(d) /\ pos[d] \in Nat /\ pos[d] < BufSize(d)

\* The first n bytes are in the buffer.
Stored(d, n) == \A k \in 1 .. n : Buf(d)[k] = Fill[d][k]

\* How far a write has come
Writing(d) ==
    /\ sent[d][Len(sent[d])] = [op |-> "WRITE", handle |-> handle[d], offset |-> pos[d],
                                buf |-> chunk(d)]
    /\ Stored(d, pos[d])
    /\ pc[d] = "copy" => Stored(d, pos[d] + Len(copied[d]))
    /\ pc[d] = "reply" \/ Len(log[d]) = Len(sent[d]) => Stored(d, ChunkEnd(d))

\* How far a read has come
Reading(d) ==
    /\ sent[d][Len(sent[d])] = [op |-> "READ", handle |-> handle[d], offset |-> pos[d],
                                len |-> ChunkEnd(d) - pos[d]]
    /\ Stored(d, ChunkEnd(d))
    /\ pc[d] = "copy" => \A k \in 1 .. Len(copied[d]) : copied[d][k] = Fill[d][pos[d] + k]
    /\ pc[d] = "reply" => reply[d] = OkBuffer(chunk(d))
    /\ Len(log[d]) = Len(sent[d]) => log[d][Len(log[d])].reply = OkBuffer(chunk(d))

Before(d) == sent[d] = <<>> /\ Idle(d) /\ pos[d] = 0
Allocating(d) == Len(sent[d]) = 1 /\ Waiting(d) /\ pos[d] = 0
ToWrite(d) == Idle(d) /\ Placed(d) /\ Stored(d, pos[d])
InWrite(d) == Waiting(d) /\ Placed(d) /\ Writing(d) /\ Len(sent[d]) >= 2
ToRead(d) == Idle(d) /\ Placed(d) /\ Stored(d, ChunkEnd(d))
InRead(d) == Waiting(d) /\ Placed(d) /\ Reading(d) /\ Len(sent[d]) >= 2
Finished(d) == Idle(d) /\ Len(log[d]) >= 1 /\ handle[d] = Mine(d) /\ Stored(d, BufSize(d))

\* Where client d is and what is in its buffer
Phase(d) ==
    \/ step[d] \in {"connect", "ConnectionError", "elsewhere", "alloc"} /\ Before(d)
    \/ step[d] = "allocating" /\ Allocating(d)
    \/ step[d] = "write" /\ ToWrite(d)
    \/ step[d] = "writing" /\ InWrite(d)
    \/ step[d] = "read" /\ ToRead(d)
    \/ step[d] = "reading" /\ InRead(d)
    \/ step[d] = "finished" /\ Finished(d)
    \/ step[d] \in {"ReceiveError", "MessageEncodingError", "killed"}

CTyped ==
    /\ step \in [Clients -> Steps] /\ handle \in [Clients -> Nat] /\ pos \in [Clients -> Nat]
    /\ \A d \in Clients : pos[d] <= BufSize(d) + ChunkSize - 1
    /\ port \in Ports \cup {AnyPort} /\ listen \in {"bind", "listening", "failed"}

\* The inductive invariant
TInv == SInv /\ AInv /\ CTyped /\ \A d \in Clients : Asked(d) /\ Phase(d)

-----------------------------------------------------------------------------
(* A client's buffer *)

\* The client's data
LEMMA FillFacts == ASSUME NEW d \in Clients
                   PROVE  Fill[d] \in Seq(Byte) /\ BufSize(d) \in Nat /\ BufSize(d) < U64
  BY ThroughputAssumption DEF BufSize

\* The current chunk is a part of it, and not empty.
LEMMA ChunkFacts ==
    ASSUME NEW d \in Clients, pos[d] \in Nat, pos[d] < BufSize(d)
    PROVE  /\ ChunkEnd(d) \in Nat /\ pos[d] < ChunkEnd(d) /\ ChunkEnd(d) <= BufSize(d)
           /\ chunk(d) \in Seq(Byte) /\ Len(chunk(d)) = ChunkEnd(d) - pos[d]
           /\ \A k \in 1 .. ChunkEnd(d) - pos[d] : chunk(d)[k] = Fill[d][pos[d] + k]
<1>1. Fill[d] \in Seq(Byte) /\ BufSize(d) \in Nat /\ BufSize(d) = Len(Fill[d]) /\ ChunkSize \in Nat \ {0}
  BY FillFacts, ThroughputAssumption DEF BufSize
<1>2. ChunkEnd(d) \in Nat /\ pos[d] < ChunkEnd(d) /\ ChunkEnd(d) <= BufSize(d)
  BY <1>1 DEF ChunkEnd, Least
<1>3. \A i \in pos[d] + 1 .. ChunkEnd(d) : Fill[d][i] \in Byte
  BY <1>1, <1>2
<1>4. /\ chunk(d) \in Seq(Byte)
      /\ Len(chunk(d)) = IF pos[d] + 1 <= ChunkEnd(d) THEN ChunkEnd(d) - (pos[d] + 1) + 1 ELSE 0
      /\ \A i \in 1 .. ChunkEnd(d) - (pos[d] + 1) + 1 :
            chunk(d)[i] = Fill[d][pos[d] + 1 + i - 1]
  BY <1>2, <1>3, SubSeqProperties DEF chunk
<1>5. /\ ChunkEnd(d) - (pos[d] + 1) + 1 = ChunkEnd(d) - pos[d] /\ pos[d] + 1 <= ChunkEnd(d)
      /\ \A i \in 1 .. ChunkEnd(d) - pos[d] : pos[d] + 1 + i - 1 = pos[d] + i
  BY <1>2
<1>6. Len(chunk(d)) = ChunkEnd(d) - pos[d]
  BY <1>4, <1>5, Zenon
<1>7. ASSUME NEW k \in 1 .. ChunkEnd(d) - pos[d] PROVE chunk(d)[k] = Fill[d][pos[d] + k]
  BY <1>4, <1>5, Zenon
<1> QED
  BY <1>2, <1>4, <1>6, <1>7

\* The buffer that was asked for is there, at least as long as the data.
LEMMA BufferFacts ==
    ASSUME SInv, AInv, NEW d \in Clients, Asked(d), Len(log[d]) >= 1
    PROVE  /\ Allocated(d, 1) /\ Own(d, 1) = Mine(d)
           /\ log[d][1].reply.kind = "OK_H" /\ Mine(d) \in Nat /\ Mine(d) + 1 \in 1 .. Len(pages)
           /\ Buf(d) \in Seq(Byte) /\ Len(Buf(d)) \in Nat /\ Len(Buf(d)) >= BufSize(d)
           /\ BufSize(d) > 0
<1>1. 1 \in 1 .. Len(log[d]) /\ Len(sent[d]) >= 1
  <2>1. Len(log[d]) \in Nat /\ Len(sent[d]) \in Nat /\ taken[d] \in Nat
    BY Lengths DEF SInv
  <2>2. Len(log[d]) <= taken[d] /\ taken[d] <= Len(sent[d])
    BY DEF SInv, Connection, Counted
  <2> QED
    BY <2>1, <2>2
<1>2. sent[d][1].op = "ALLOC" /\ sent[d][1].size = BufSize(d)
  BY <1>1 DEF Asked
<1>3. Allocated(d, 1) /\ Own(d, 1) = Mine(d)
  BY <1>1, <1>2 DEF Allocated, Given, Own, Answer, Mine
<1>4. Exists(d, 1)
  BY <1>3 DEF AInv
<1>5. log[d][1].reply.kind = "OK_H"
  <2>1. Fits(sent[d][1], log[d][1].reply)
    BY <1>1 DEF SInv, Connection, Logged
  <2> QED
    BY <1>2, <2>1 DEF Fits
<1>6. pages \in Seq(Seq(Byte)) /\ Len(pages) \in Nat
  BY DEF SInv, Typed
<1>7. Mine(d) \in Nat /\ Mine(d) + 1 \in 1 .. Len(pages)
  BY <1>3, <1>4, <1>6 DEF Exists
<1>8. Buf(d) \in Seq(Byte)
  BY <1>6, <1>7 DEF Buf
<1>9. Len(Buf(d)) >= BufSize(d) /\ BufSize(d) > 0
  BY <1>2, <1>3, <1>4 DEF Exists, Buf
<1> QED
  BY <1>3, <1>5, <1>7, <1>8, <1>9

\* The buffers of two clients are different ones.
LEMMA BuffersApart ==
    ASSUME SInv, AInv, NEW c \in Clients, NEW d \in Clients, c # d, Asked(c), Asked(d),
           Len(log[c]) >= 1, Len(log[d]) >= 1
    PROVE  Mine(c) # Mine(d)
<1>1. Allocated(c, 1) /\ Own(c, 1) = Mine(c) /\ Allocated(d, 1) /\ Own(d, 1) = Mine(d)
  BY BufferFacts
<1> QED
  BY <1>1 DEF AInv

\* A request that is worked on is the allocation, or stays inside the buffer: it
\* passes the checks of its handler, and names the bytes it seems to name.
LEMMA OwnAccess ==
    ASSUME SInv, AInv, NEW d \in Clients, Asked(d), pc[d] \in Busy
    PROVE  /\ taken[d] = Len(log[d]) + 1 /\ taken[d] \in 1 .. Len(sent[d])
           /\ \/ taken[d] = 1 /\ req(d).op = "ALLOC"
              \/ /\ taken[d] >= 2 /\ Len(log[d]) >= 1 /\ req(d) \in RequestBody
                 /\ req(d).op \in {"READ", "WRITE"} /\ req(d).handle = Mine(d)
                 /\ HasPage(req(d)) /\ page(req(d)) = Buf(d)
                 /\ ~Overflows(req(d)) /\ ~OutOfRange(req(d))
                 /\ Start(req(d)) = req(d).offset /\ Extent(req(d)) = size(req(d))
                 /\ size(req(d)) <= Room(req(d))
<1>1. taken[d] = Len(log[d]) + 1 /\ Len(log[d]) \in Nat
  BY Lengths DEF SInv, Connection, Counted
<1>2. req(d) \in RequestBody /\ taken[d] \in 1 .. Len(sent[d])
  BY CurrentRequest DEF SInv, Connection
<1>3. CASE taken[d] = 1
  <2>1. Len(sent[d]) >= 1
    BY <1>2, <1>3
  <2> QED
    BY <1>1, <1>2, <1>3, <2>1 DEF Asked, req
<1>4. CASE taken[d] # 1
  <2> DEFINE r == req(d)
  <2>1. taken[d] \in 2 .. Len(sent[d]) /\ Len(log[d]) >= 1
    BY <1>1, <1>2, <1>4
  <2>2. r.op \in {"READ", "WRITE"} /\ r.handle = Mine(d) /\ r.offset + size(r) <= BufSize(d)
    BY <2>1 DEF Asked, req
  <2>3. /\ Mine(d) \in Nat /\ Mine(d) + 1 \in 1 .. Len(pages)
        /\ Len(Buf(d)) \in Nat /\ Len(Buf(d)) >= BufSize(d)
    BY <2>1, BufferFacts
  <2>4. HasPage(r) /\ page(r) = Buf(d)
    BY <2>2, <2>3, Lengths DEF HasPage, page, Buf, SInv
  <2>5. size(r) \in Nat /\ r.offset \in Nat /\ BufSize(d) \in Nat /\ BufSize(d) < U64 /\ U64 \in Nat
    BY <1>2, <2>2, SizeNat, FillFacts, ServerAssumption
  <2>6. ~Overflows(r)
    BY <2>2, <2>5 DEF Overflows
  <2>7. ~OutOfRange(r)
    <3>1. (r.offset + size(r)) % U64 = r.offset + size(r)
      BY <1>2, <2>2, <2>6, ExactSum
    <3>2. ~(r.offset + size(r) > Len(Buf(d)))
      BY <2>2, <2>3, <2>5
    <3> QED
      BY <2>4, <3>1, <3>2, Zenon DEF OutOfRange
  <2>8. Start(r) = r.offset
    BY <2>2, <2>3, <2>4, <2>5 DEF Start, Least
  <2>9. Extent(r) = size(r) /\ size(r) <= Room(r)
    BY <1>2, <2>2, <2>4, <2>6, <2>7, Window DEF SInv
  <2> QED
    BY <1>1, <1>2, <2>1, <2>2, <2>4, <2>6, <2>7, <2>8, <2>9
<1> QED
  BY <1>3, <1>4

\* Replies are only added to the log.
LEMMA LogKept ==
    ASSUME SInv, NEW c \in Clients, Step(c), NEW d \in Clients
    PROVE  /\ Len(log'[d]) >= Len(log[d])
           /\ \A i \in 1 .. Len(log[d]) : log'[d][i] = log[d][i]
<1>0. Len(log[d]) \in Nat /\ log[d] \in Seq(Entries) /\ DOMAIN log = Clients
  BY Lengths, Domains DEF SInv, Typed
<1>1. CASE Reply(c) /\ d = c
  <2> DEFINE e == [req |-> req(c), reply |-> reply[c]]
  <2>1. log'[d] = Append(log[d], e)
    BY <1>0, <1>1 DEF Reply
  <2> HIDE DEF e
  <2>2. Len(Append(log[d], e)) = Len(log[d]) + 1
        /\ \A i \in 1 .. Len(log[d]) : Append(log[d], e)[i] = log[d][i]
    <3>1. log[d] \in Seq(Entries)
      BY <1>0, Zenon
    <3> QED
      BY <3>1, AppendIs, Zenon
  <2>3. Len(log'[d]) = Len(log[d]) + 1 /\ \A i \in 1 .. Len(log[d]) : log'[d][i] = log[d][i]
    BY <2>1, <2>2, Zenon
  <2> QED
    BY <1>0, <2>3
<1>2. CASE d # c
  BY <1>0, <1>2, OthersUnchanged
<1>3. CASE UNCHANGED log
  BY <1>0, <1>3
<1> QED
  BY <1>1, <1>2, <1>3, Zenon DEF Step, Task, accept, ReadRequest, Disconnected, handle_access,
     Unwind, copy, CopyDone, handle_alloc, Insert, ReplyFails, Receive, Close, Send, Panic

\* A client's buffer is changed by its own writes only.
LEMMA BufferKept ==
    ASSUME SInv, AInv, NEW c \in Clients, Step(c), NEW d \in Clients, Asked(c), Asked(d),
           Len(log[d]) >= 1, ~(copy(c) /\ c = d /\ req(c).op = "WRITE")
    PROVE  Mine(d)' = Mine(d) /\ Buf(d)' = Buf(d)
<1>0. Mine(d) + 1 \in 1 .. Len(pages) /\ Len(pages) \in Nat /\ Mine(d) \in Nat
  BY BufferFacts, Lengths DEF SInv
<1>1. Mine(d)' = Mine(d)
  <2>1. 1 \in 1 .. Len(log[d])
    BY Lengths DEF SInv
  <2> QED
    BY <2>1, LogKept DEF Mine
<1>2. pages'[Mine(d) + 1] = pages[Mine(d) + 1]
  <2>1. CASE Inserted(c)
    BY <1>0, <2>1, InsertStep
  <2>2. CASE copy(c) /\ req(c).op = "WRITE"
    <3>1. c # d /\ pc[c] \in Busy /\ req(c).op # "ALLOC"
      BY <2>2 DEF copy, Busy
    <3>2. req(c).handle = Mine(c) /\ Len(log[c]) >= 1
      BY <3>1, OwnAccess
    <3>3. Mine(c) # Mine(d) /\ Mine(c) \in Nat
      BY <3>1, <3>2, BuffersApart, BufferFacts
    <3>4. PICK p : pages' = [pages EXCEPT ![Mine(c) + 1] = p]
      BY <2>2, <3>2 DEF copy
    <3>5. Mine(c) + 1 # Mine(d) + 1
      BY <1>0, <3>3
    <3>6. Mine(d) + 1 \in DOMAIN pages
      BY <1>0 DEF SInv, Typed
    <3> QED
      BY <3>4, <3>5, <3>6
  <2>3. CASE copy(c) /\ req(c).op # "WRITE"
    BY <2>3 DEF copy
  <2>4. CASE UNCHANGED pages
    BY <2>4
  <2> QED
    BY <2>1, <2>2, <2>3, <2>4, InsertCases, Zenon DEF Step, Task, accept, ReadRequest,
       Disconnected, handle_access, Unwind, CopyDone, handle_alloc, Reply, ReplyFails, Receive,
       Close, Send, Panic
<1> QED
  BY <1>1, <1>2 DEF Buf

\* What the requests of a client are does not change with its log.
LEMMA AskedFrame ==
    ASSUME SInv, NEW c \in Clients, Step(c), NEW d \in Clients, Asked(d), sent'[d] = sent[d]
    PROVE  Asked(d)'
<1>1. Len(log[d]) >= 1 => Len(log'[d]) >= 1 /\ Mine(d)' = Mine(d)
  <2>1. Len(log[d]) \in Nat
    BY Lengths DEF SInv
  <2>2. Len(log'[d]) \in Nat
    BY TypedKeeps DEF Typed
  <2> QED
    BY <2>1, <2>2, LogKept DEF Mine
<1> QED
  BY <1>1, Zenon DEF Asked, BufSize, size

\* A client that does not move, while its task does not copy or reply, or does not
\* move either, stays in its phase.
LEMMA PhaseFrame ==
    ASSUME NEW d \in Clients, Phase(d),
           sent'[d] = sent[d], outbox'[d] = outbox[d], log'[d] = log[d],
           step'[d] = step[d], handle'[d] = handle[d], pos'[d] = pos[d],
           \/ pc'[d] = pc[d] /\ reply'[d] = reply[d] /\ copied'[d] = copied[d]
           \/ pc'[d] \notin {"copy", "reply"},
           Len(log[d]) >= 1 => Buf(d)' = Buf(d)
    PROVE  Phase(d)'
<1>1. Mine(d)' = Mine(d) /\ ChunkEnd(d)' = ChunkEnd(d) /\ chunk(d)' = chunk(d)
      /\ BufSize(d)' = BufSize(d)
  BY Zenon DEF Mine, ChunkEnd, chunk, BufSize, Least
<1>2. ASSUME NEW n, Len(log[d]) >= 1, Stored(d, n) PROVE \A k \in 1 .. n : Buf(d)'[k] = Fill[d][k]
  BY <1>2 DEF Stored
<1>3. (Idle(d) => Idle(d)') /\ (Waiting(d) => Waiting(d)') /\ (Placed(d) => Placed(d)')
      /\ (Before(d) => Before(d)') /\ (Allocating(d) => Allocating(d)')
  BY <1>1, Zenon DEF Idle, Waiting, Placed, Before, Allocating
<1>4. (ToWrite(d) => ToWrite(d)') /\ (ToRead(d) => ToRead(d)') /\ (Finished(d) => Finished(d)')
  BY <1>1, <1>2, <1>3, Zenon DEF ToWrite, ToRead, Finished, Stored, Placed
<1>5. InWrite(d) => InWrite(d)'
  BY <1>1, <1>2, <1>3, Zenon DEF InWrite, Writing, Stored, Placed
<1>6. InRead(d) => InRead(d)'
  BY <1>1, <1>2, <1>3, Zenon DEF InRead, Reading, Stored, Placed
<1> QED
  BY <1>3, <1>4, <1>5, <1>6, Zenon DEF Phase

-----------------------------------------------------------------------------
(* The task of a client *)

\* The client does not move.
Still == step' = step /\ handle' = handle /\ pos' = pos

Gone == {"ReceiveError", "MessageEncodingError", "killed"}

\* While the task works, its client waits for it, unless it is gone.
LEMMA BusyPhase ==
    ASSUME SInv, AInv, NEW d \in Clients, Asked(d), Phase(d), pc[d] \in Busy, step[d] \notin Gone
    PROVE  /\ Len(log[d]) + 1 = Len(sent[d]) /\ outbox[d] = <<>> /\ taken[d] = Len(sent[d])
           /\ req(d) = sent[d][Len(sent[d])] /\ Len(log[d]) \in Nat
           /\ \/ step[d] = "allocating" /\ Allocating(d)
              \/ step[d] = "writing" /\ InWrite(d)
              \/ step[d] = "reading" /\ InRead(d)
<1>1. taken[d] = Len(log[d]) + 1 /\ taken[d] \in 1 .. Len(sent[d])
  BY OwnAccess
<1>2. Len(log[d]) \in Nat /\ Len(sent[d]) \in Nat
  BY Lengths DEF SInv
<1>3. Len(log[d]) # Len(sent[d])
  BY <1>1, <1>2
<1>4. ~Idle(d)
  BY <1>3 DEF Idle
<1>5. \/ step[d] = "allocating" /\ Allocating(d)
      \/ step[d] = "writing" /\ InWrite(d)
      \/ step[d] = "reading" /\ InRead(d)
  BY <1>4, Zenon DEF Phase, Gone, Before, ToWrite, ToRead, Finished
<1>6. Len(log[d]) + 1 = Len(sent[d]) /\ outbox[d] = <<>>
  BY <1>3, <1>5, Zenon DEF Allocating, InWrite, InRead, Waiting
<1> QED
  BY <1>1, <1>2, <1>5, <1>6 DEF req

\* Every access passes its checks: the handler goes on to the copy.
LEMMA AccessPhase ==
    ASSUME SInv, AInv, NEW d \in Clients, Asked(d), Phase(d), handle_access(d), Still
    PROVE  Phase(d)'
<1>1. CASE step[d] \in Gone
  BY <1>1 DEF Phase, Gone, Still
<1>2. CASE step[d] \notin Gone
  <2>1. pc[d] \in Busy /\ req(d).op \in {"READ", "WRITE"}
    BY DEF handle_access, Busy
  <2>2. HasPage(req(d)) /\ ~Overflows(req(d)) /\ ~OutOfRange(req(d)) /\ size(req(d)) <= Room(req(d))
        /\ size(req(d)) \in Nat /\ Room(req(d)) \in Nat /\ taken[d] >= 2
    <3>1. /\ req(d) \in RequestBody /\ HasPage(req(d)) /\ ~Overflows(req(d))
          /\ ~OutOfRange(req(d)) /\ size(req(d)) <= Room(req(d)) /\ taken[d] >= 2
      BY <2>1, OwnAccess
    <3> QED
      BY <2>1, <3>1, SizeNat, Window DEF SInv
  <2>3. ~(size(req(d)) > Room(req(d)))
    BY <2>2
  <2>4. /\ pc' = [pc EXCEPT ![d] = "copy"] /\ copied' = [copied EXCEPT ![d] = <<>>]
        /\ UNCHANGED <<sent, outbox, log, pages>>
    BY <2>2, <2>3, Zenon DEF handle_access, client
  <2>5. pc'[d] = "copy" /\ copied'[d] = <<>> /\ Len(copied'[d]) = 0
    BY <2>4 DEF SInv, Typed
  <2>6. /\ Len(log[d]) + 1 = Len(sent[d]) /\ taken[d] = Len(sent[d]) /\ Len(log[d]) \in Nat
        /\ \/ step[d] = "allocating" /\ Allocating(d)
           \/ step[d] = "writing" /\ InWrite(d)
           \/ step[d] = "reading" /\ InRead(d)
    BY <1>2, <2>1, BusyPhase
  <2>7. Len(log[d]) # Len(sent[d]) /\ step[d] # "allocating"
    <3>1. Len(log[d]) # Len(sent[d]) /\ Len(sent[d]) # 1
      <4>1. taken[d] >= 2
        BY <2>2, Zenon
      <4>2. Len(log[d]) + 1 = Len(sent[d]) /\ taken[d] = Len(sent[d]) /\ Len(log[d]) \in Nat
        BY <2>6, Zenon
      <4>3. Len(sent[d]) \in Nat /\ taken[d] \in Nat
        BY Lengths DEF SInv
      <4>4. \A a, b, c \in Nat : a + 1 = b /\ c = b /\ c >= 2 => a # b /\ b # 1
        OBVIOUS
      <4> QED
        BY <4>1, <4>2, <4>3, <4>4, Zenon
    <3> QED
      BY <2>6, <3>1, Zenon DEF Allocating
  <2>8. /\ Mine(d)' = Mine(d) /\ Buf(d)' = Buf(d) /\ ChunkEnd(d)' = ChunkEnd(d)
        /\ chunk(d)' = chunk(d) /\ (Waiting(d) => Waiting(d)') /\ (Placed(d) => Placed(d)')
    BY <2>4, Zenon DEF Mine, Buf, ChunkEnd, chunk, Waiting, Placed, BufSize,
       Least, Still
  <2>9. InWrite(d) => InWrite(d)'
    <3>1. Placed(d) => pos[d] + Len(copied'[d]) = pos[d]
      BY <2>5 DEF Placed
    <3> QED
      BY <2>4, <2>5, <2>7, <2>8, <3>1, Zenon DEF InWrite, Writing, Stored, Still
  <2>10. InRead(d) => InRead(d)'
    <3>1. 1 .. Len(copied'[d]) = {}
      BY <2>5
    <3> QED
      BY <2>4, <2>5, <2>7, <2>8, <3>1, Zenon DEF InRead, Reading, Stored, Still
  <2> QED
    BY <2>6, <2>7, <2>9, <2>10, Zenon DEF Phase, Still
<1> QED
  BY <1>1, <1>2

\* One more byte of a prefix
LEMMA OneMore ==
    ASSUME NEW f, NEW g, NEW n \in Nat, n + 1 \in DOMAIN f, \A i \in 1 .. n : f[i] = g[i]
    PROVE  \A i \in 1 .. n + 1 : [f EXCEPT ![n + 1] = g[n + 1]][i] = g[i]
<1> SUFFICES ASSUME NEW i \in 1 .. n + 1 PROVE [f EXCEPT ![n + 1] = g[n + 1]][i] = g[i]
  OBVIOUS
<1>1. CASE i = n + 1
  BY <1>1
<1>2. CASE i # n + 1
  <2>1. i \in 1 .. n
    BY <1>2
  <2>2. f[i] = g[i]
    BY <2>1
  <2>3. CASE i \in DOMAIN f
    BY <1>2, <2>2, <2>3
  <2> QED
    BY <1>2, <2>2, <2>3
<1> QED
  BY <1>1, <1>2

\* What the task of a client that writes or reads works on
LEMMA ChunkAccess ==
    ASSUME SInv, AInv, NEW d \in Clients, Asked(d), Phase(d), pc[d] = "copy", step[d] \notin Gone
    PROVE  /\ Len(log[d]) # Len(sent[d]) /\ Len(log[d]) >= 1 /\ Placed(d)
           /\ req(d).handle = Mine(d) /\ req(d).offset = pos[d] /\ Start(req(d)) = pos[d]
           /\ page(req(d)) = Buf(d) /\ Extent(req(d)) = ChunkEnd(d) - pos[d]
           /\ \/ step[d] = "writing" /\ InWrite(d) /\ req(d).op = "WRITE" /\ req(d).buf = chunk(d)
              \/ step[d] = "reading" /\ InRead(d) /\ req(d).op = "READ"
<1>1. pc[d] \in Busy
  BY DEF Busy
<1>2. /\ Len(log[d]) + 1 = Len(sent[d]) /\ taken[d] = Len(sent[d])
      /\ req(d) = sent[d][Len(sent[d])] /\ Len(log[d]) \in Nat
      /\ \/ step[d] = "allocating" /\ Allocating(d)
         \/ step[d] = "writing" /\ InWrite(d)
         \/ step[d] = "reading" /\ InRead(d)
  BY <1>1, BusyPhase
<1>3. req(d).op # "ALLOC"
  BY DEF SInv, Connection, Handled
<1>4. /\ taken[d] >= 2 /\ Len(log[d]) >= 1 /\ req(d).handle = Mine(d)
      /\ page(req(d)) = Buf(d) /\ Start(req(d)) = req(d).offset
      /\ Extent(req(d)) = size(req(d))
  BY <1>1, <1>3, OwnAccess
<1>5. Len(log[d]) # Len(sent[d]) /\ Len(sent[d]) # 1
  <2>1. Len(log[d]) + 1 = Len(sent[d]) /\ taken[d] = Len(sent[d]) /\ taken[d] >= 2
    BY <1>2, <1>4, Zenon
  <2>2. Len(log[d]) \in Nat /\ Len(sent[d]) \in Nat /\ taken[d] \in Nat
    BY Lengths DEF SInv
  <2>3. \A a, b, c \in Nat : a + 1 = b /\ c = b /\ c >= 2 => a # b /\ b # 1
    OBVIOUS
  <2> QED
    BY <2>1, <2>2, <2>3, Zenon
<1>6. CASE step[d] = "writing" /\ InWrite(d)
  <2>1. Placed(d) /\ req(d) = [op |-> "WRITE", handle |-> handle[d], offset |-> pos[d],
                               buf |-> chunk(d)]
    BY <1>2, <1>6, Zenon DEF InWrite, Writing
  <2>2. req(d).op = "WRITE" /\ req(d).offset = pos[d] /\ req(d).buf = chunk(d)
    BY <2>1
  <2>3. Len(chunk(d)) = ChunkEnd(d) - pos[d]
    BY <2>1, ChunkFacts DEF Placed
  <2>4. Extent(req(d)) = ChunkEnd(d) - pos[d]
    BY <1>4, <2>2, <2>3, Zenon DEF size
  <2> QED
    BY <1>4, <1>5, <1>6, <2>1, <2>2, <2>4, Zenon
<1>7. CASE step[d] = "reading" /\ InRead(d)
  <2>1. Placed(d) /\ req(d) = [op |-> "READ", handle |-> handle[d], offset |-> pos[d],
                               len |-> ChunkEnd(d) - pos[d]]
    BY <1>2, <1>7, Zenon DEF InRead, Reading
  <2>2. req(d).op = "READ" /\ req(d).offset = pos[d] /\ req(d).len = ChunkEnd(d) - pos[d]
    BY <2>1
  <2>3. req(d).op # "WRITE"
    BY <2>2
  <2>4. Extent(req(d)) = ChunkEnd(d) - pos[d]
    BY <1>4, <2>2, <2>3, Zenon DEF size
  <2> QED
    BY <1>4, <1>5, <1>7, <2>1, <2>2, <2>4, Zenon
<1> QED
  BY <1>2, <1>5, <1>6, <1>7, Zenon DEF Allocating

\* A byte is copied: the buffer, or the reply, holds one more byte of the data.
LEMMA CopyPhase ==
    ASSUME SInv, AInv, NEW d \in Clients, Asked(d), Phase(d), copy(d), Still
    PROVE  Phase(d)'
<1>1. CASE step[d] \in Gone
  BY <1>1 DEF Phase, Gone, Still
<1>2. CASE step[d] \notin Gone
  <2> DEFINE k == Len(copied[d])
  <2>1. pc[d] = "copy" /\ k < Extent(req(d)) /\ UNCHANGED <<sent, outbox, log, pc, reply>>
    BY Zenon DEF copy, client
  <2>2. /\ Len(log[d]) # Len(sent[d]) /\ Len(log[d]) >= 1 /\ Placed(d)
        /\ req(d).handle = Mine(d) /\ req(d).offset = pos[d] /\ Start(req(d)) = pos[d]
        /\ page(req(d)) = Buf(d) /\ Extent(req(d)) = ChunkEnd(d) - pos[d]
        /\ \/ step[d] = "writing" /\ InWrite(d) /\ req(d).op = "WRITE" /\ req(d).buf = chunk(d)
           \/ step[d] = "reading" /\ InRead(d) /\ req(d).op = "READ"
    BY <1>2, <2>1, ChunkAccess
  <2>3. /\ Mine(d)' = Mine(d) /\ ChunkEnd(d)' = ChunkEnd(d)
        /\ chunk(d)' = chunk(d) /\ (Waiting(d) => Waiting(d)') /\ (Placed(d) => Placed(d)')
    BY <2>1, Zenon DEF Mine, ChunkEnd, chunk, Waiting, Placed, BufSize, Least,
       Still
  <2>0. copied \in [Clients -> Seq(Byte)] /\ copied[d] \in Seq(Byte)
    BY DEF SInv, Typed
  <2>4. k \in Nat /\ pos[d] \in Nat
    BY <2>0, <2>2 DEF Placed
  <2>5. /\ ChunkEnd(d) \in Nat /\ ChunkEnd(d) <= BufSize(d) /\ pos[d] + k + 1 <= ChunkEnd(d)
        /\ k + 1 \in 1 .. ChunkEnd(d) - pos[d] /\ BufSize(d) \in Nat
    <3>1. ChunkEnd(d) \in Nat /\ ChunkEnd(d) <= BufSize(d) /\ BufSize(d) \in Nat
      BY <2>2, ChunkFacts, FillFacts DEF Placed
    <3>2. k < ChunkEnd(d) - pos[d]
      BY <2>1, <2>2, Zenon
    <3> QED
      BY <3>1, <3>2, <2>4
  <2>6. /\ Mine(d) \in Nat /\ Mine(d) + 1 \in 1 .. Len(pages) /\ Buf(d) \in Seq(Byte)
        /\ Len(Buf(d)) \in Nat /\ Len(Buf(d)) >= BufSize(d) /\ DOMAIN Buf(d) = 1 .. Len(Buf(d))
        /\ DOMAIN pages = 1 .. Len(pages)
    <3>1. /\ Mine(d) \in Nat /\ Mine(d) + 1 \in 1 .. Len(pages) /\ Buf(d) \in Seq(Byte)
          /\ Len(Buf(d)) \in Nat /\ Len(Buf(d)) >= BufSize(d)
      BY <2>2, BufferFacts, Zenon
    <3>2. DOMAIN Buf(d) = 1 .. Len(Buf(d))
      BY <3>1
    <3>3. DOMAIN pages = 1 .. Len(pages)
      BY DEF SInv, Typed
    <3> QED
      BY <3>1, <3>2, <3>3, Zenon
  <2>7. chunk(d)[k + 1] = Fill[d][pos[d] + k + 1]
    <3>1. \A i \in 1 .. ChunkEnd(d) - pos[d] : chunk(d)[i] = Fill[d][pos[d] + i]
      BY <2>2, ChunkFacts DEF Placed
    <3>2. pos[d] + (k + 1) = pos[d] + k + 1
      BY <2>4
    <3>3. k + 1 \in 1 .. ChunkEnd(d) - pos[d]
      BY <2>5, Zenon
    <3>4. chunk(d)[k + 1] = Fill[d][pos[d] + (k + 1)]
      BY <3>1, <3>3, Zenon
    <3> QED
      BY <3>2, <3>4, Zenon
  <2>8. Len(copied'[d]) = k + 1 /\ pos[d] + Len(copied'[d]) = pos[d] + k + 1
    BY <2>4, CopyStep
  <2>9. CASE step[d] = "writing" /\ InWrite(d) /\ req(d).op = "WRITE" /\ req(d).buf = chunk(d)
    <3>1. pages' = [pages EXCEPT ![Mine(d) + 1][pos[d] + k + 1] = Fill[d][pos[d] + k + 1]]
      BY <2>2, <2>7, <2>9, Zenon DEF copy
    <3>2. Buf(d)' = [Buf(d) EXCEPT ![pos[d] + k + 1] = Fill[d][pos[d] + k + 1]]
      BY <2>3, <2>6, <3>1, Zenon DEF Buf
    <3>3. \A i \in 1 .. pos[d] + k : Buf(d)[i] = Fill[d][i]
      BY <2>1, <2>9, Zenon DEF InWrite, Writing, Stored
    <3>4. pos[d] + k \in Nat /\ pos[d] + k + 1 \in DOMAIN Buf(d)
      <4>1. Len(Buf(d)) \in Nat /\ Len(Buf(d)) >= BufSize(d)
        BY <2>6, Zenon
      <4>2. pos[d] + k \in Nat /\ pos[d] + k + 1 \in 1 .. Len(Buf(d))
        <5>1. \A m, n, e, b, l \in Nat :
                 m + n + 1 <= e /\ e <= b /\ l >= b => m + n \in Nat /\ m + n + 1 \in 1 .. l
          OBVIOUS
        <5> QED
          BY <2>4, <2>5, <4>1, <5>1, Zenon
      <4> QED
        BY <2>6, <4>2, Zenon
    <3>5. \A i \in 1 .. pos[d] + k + 1 :
             [Buf(d) EXCEPT ![pos[d] + k + 1] = Fill[d][pos[d] + k + 1]][i] = Fill[d][i]
      <4> DEFINE n == pos[d] + k
      <4>1. n \in Nat /\ n + 1 \in DOMAIN Buf(d) /\ \A i \in 1 .. n : Buf(d)[i] = Fill[d][i]
        BY <3>3, <3>4, Zenon
      <4> HIDE DEF n
      <4>2. \A i \in 1 .. n + 1 : [Buf(d) EXCEPT ![n + 1] = Fill[d][n + 1]][i] = Fill[d][i]
        BY <4>1, OneMore
      <4> QED
        BY <4>2, Zenon DEF n
    <3>6. \A i \in 1 .. pos[d] + k + 1 : Buf(d)'[i] = Fill[d][i]
      BY <3>2, <3>5, Zenon
    <3>7. 1 .. pos[d] \subseteq 1 .. pos[d] + k + 1
      BY <2>4
    <3>8. pc'[d] = "copy" /\ pc'[d] # "reply"
      BY <2>1
    <3>9. Writing(d)'
      <4>1. Stored(d, pos[d])' /\ Stored(d, pos[d] + Len(copied[d]))'
        BY <2>8, <3>6, <3>7, Zenon DEF Stored, Still
      <4> QED
        BY <2>1, <2>2, <2>3, <2>9, <3>8, <4>1, Zenon DEF InWrite, Writing, Still
    <3> QED
      BY <2>1, <2>3, <2>9, <3>9, Zenon DEF InWrite, Phase, Still
  <2>10. CASE step[d] = "reading" /\ InRead(d) /\ req(d).op = "READ"
    <3>1. UNCHANGED pages /\ copied'[d] = Append(copied[d], Buf(d)[pos[d] + k + 1])
      <4>1. req(d).op # "WRITE"
        BY <2>10
      <4>2. UNCHANGED pages
            /\ copied' = [copied EXCEPT ![d] = Append(@, Buf(d)[pos[d] + k + 1])]
        BY <2>2, <4>1, Zenon DEF copy
      <4> QED
        BY <2>0, <4>2, Zenon
    <3>2. Buf(d)[pos[d] + k + 1] = Fill[d][pos[d] + k + 1]
      <4>1. pos[d] + k + 1 \in 1 .. ChunkEnd(d)
        BY <2>4, <2>5
      <4> QED
        BY <2>10, <4>1, Zenon DEF InRead, Reading, Stored
    <3>3. Buf(d)' = Buf(d)
      BY <2>3, <3>1, Zenon DEF Buf
    <3> DEFINE b == Fill[d][pos[d] + k + 1]
    <3>4. copied'[d] = Append(copied[d], b)
      BY <3>1, <3>2, Zenon
    <3> HIDE DEF b
    <3>5. copied'[d][k + 1] = b /\ \A i \in 1 .. k : copied'[d][i] = copied[d][i]
      <4>1. Append(copied[d], b)[k + 1] = b /\ \A i \in 1 .. k : Append(copied[d], b)[i] = copied[d][i]
        <5>1. copied[d] \in Seq(Byte)
          BY <2>0, Zenon
        <5> QED
          BY <5>1, AppendIs, Zenon
      <4> QED
        BY <3>4, <4>1, Zenon
    <3>6. \A i \in 1 .. k : copied[d][i] = Fill[d][pos[d] + i]
      BY <2>1, <2>10, Zenon DEF InRead, Reading
    <3>7. ASSUME NEW i \in 1 .. k + 1 PROVE copied'[d][i] = Fill[d][pos[d] + i]
      <4>1. CASE i = k + 1
        <5>1. pos[d] + i = pos[d] + k + 1
          BY <2>4, <4>1
        <5> QED
          BY <3>5, <4>1, <5>1, Zenon DEF b
      <4>2. CASE i # k + 1
        <5>1. i \in 1 .. k
          BY <2>4, <4>2
        <5> QED
          BY <3>5, <3>6, <5>1, Zenon
      <4> QED
        BY <4>1, <4>2
    <3>8. pc'[d] # "reply"
      BY <2>1
    <3>9. Reading(d)'
      BY <2>1, <2>2, <2>3, <2>8, <2>10, <3>3, <3>7, <3>8, Zenon DEF InRead, Reading, Stored,
         Still
    <3> QED
      BY <2>1, <2>3, <2>10, <3>9, Zenon DEF InRead, Phase, Still
  <2> QED
    BY <2>2, <2>9, <2>10
<1> QED
  BY <1>1, <1>2


\* The copy is over: the chunk is stored, or is the reply.
LEMMA CopyDonePhase ==
    ASSUME SInv, AInv, NEW d \in Clients, Asked(d), Phase(d), CopyDone(d), Still
    PROVE  Phase(d)'
<1>1. CASE step[d] \in Gone
  BY <1>1 DEF Phase, Gone, Still
<1>2. CASE step[d] \notin Gone
  <2>1. /\ pc[d] = "copy" /\ Len(copied[d]) = Extent(req(d))
        /\ UNCHANGED <<sent, outbox, log, pages, copied>>
    BY Zenon DEF CopyDone, client
  <2>2. /\ Len(log[d]) # Len(sent[d]) /\ Len(log[d]) >= 1 /\ Placed(d)
        /\ req(d).handle = Mine(d) /\ req(d).offset = pos[d] /\ Start(req(d)) = pos[d]
        /\ page(req(d)) = Buf(d) /\ Extent(req(d)) = ChunkEnd(d) - pos[d]
        /\ \/ step[d] = "writing" /\ InWrite(d) /\ req(d).op = "WRITE" /\ req(d).buf = chunk(d)
           \/ step[d] = "reading" /\ InRead(d) /\ req(d).op = "READ"
    BY <1>2, <2>1, ChunkAccess
  <2>3. /\ Mine(d)' = Mine(d) /\ ChunkEnd(d)' = ChunkEnd(d) /\ Buf(d)' = Buf(d)
        /\ chunk(d)' = chunk(d) /\ (Waiting(d) => Waiting(d)') /\ (Placed(d) => Placed(d)')
    BY <2>1, Zenon DEF Mine, Buf, ChunkEnd, chunk, Waiting, Placed, BufSize, Least, Still
  <2>4. DOMAIN pc = Clients /\ DOMAIN reply = Clients
    BY Domains DEF SInv
  <2>5. pc'[d] = "reply" /\ pc'[d] # "copy"
    BY <2>4 DEF CopyDone, ReplyWith
  <2>6. /\ ChunkEnd(d) \in Nat /\ pos[d] \in Nat /\ chunk(d) \in Seq(Byte)
        /\ Len(chunk(d)) = ChunkEnd(d) - pos[d]
        /\ \A i \in 1 .. ChunkEnd(d) - pos[d] : chunk(d)[i] = Fill[d][pos[d] + i]
    BY <2>2, ChunkFacts, Zenon DEF Placed
  <2>7. Len(copied[d]) = ChunkEnd(d) - pos[d]
    BY <2>1, <2>2, Zenon
  <2>8. CASE step[d] = "writing" /\ InWrite(d)
    <3>1. pos[d] + (ChunkEnd(d) - pos[d]) = ChunkEnd(d)
      <4>1. \A a, b \in Nat : a + (b - a) = b
        OBVIOUS
      <4> QED
        BY <2>6, <4>1, Zenon
    <3>2. Stored(d, ChunkEnd(d))
      BY <2>1, <2>7, <2>8, <3>1, Zenon DEF InWrite, Writing
    <3>3. Stored(d, pos[d])' /\ Stored(d, ChunkEnd(d))'
      BY <2>3, <2>8, <3>2, Zenon DEF InWrite, Writing, Stored, Still
    <3>4. Writing(d)'
      BY <2>1, <2>3, <2>5, <2>8, <3>3, Zenon DEF InWrite, Writing, Still
    <3> QED
      BY <2>1, <2>3, <2>8, <3>4, Zenon DEF InWrite, Phase, Still
  <2>9. CASE step[d] = "reading" /\ InRead(d) /\ req(d).op = "READ"
    <3>1. \A i \in 1 .. Len(copied[d]) : copied[d][i] = Fill[d][pos[d] + i]
      BY <2>1, <2>9, Zenon DEF InRead, Reading
    <3>2. copied[d] \in Seq(Byte)
      BY DEF SInv, Typed
    <3>3. copied[d] = chunk(d)
      <4>1. Len(copied[d]) = Len(chunk(d)) /\ \A i \in 1 .. Len(copied[d]) : copied[d][i] = chunk(d)[i]
        BY <2>6, <2>7, <3>1, Zenon
      <4>2. chunk(d) \in Seq(Byte)
        BY <2>6, Zenon
      <4> QED
        BY <3>2, <4>1, <4>2, SeqEqual
    <3>4. reply'[d] = OkBuffer(chunk(d))
      <4>1. req(d).op # "WRITE"
        BY <2>9
      <4> QED
        BY <2>4, <3>3, <4>1, Zenon DEF CopyDone, ReplyWith
    <3>5. Reading(d)'
      BY <2>1, <2>2, <2>3, <2>5, <2>9, <3>4, Zenon DEF InRead, Reading, Stored, Still
    <3> QED
      BY <2>1, <2>3, <2>9, <3>5, Zenon DEF InRead, Phase, Still
  <2> QED
    BY <2>2, <2>8, <2>9
<1> QED
  BY <1>1, <1>2

\* The buffer is mapped for a client that waits for it.
LEMMA InsertedPhase ==
    ASSUME SInv, AInv, NEW d \in Clients, Asked(d), Phase(d), Inserted(d), Still
    PROVE  Phase(d)'
<1>1. CASE step[d] \in Gone
  BY <1>1 DEF Phase, Gone, Still
<1>2. CASE step[d] \notin Gone
  <2>1. pc[d] \in Busy /\ UNCHANGED <<sent, outbox, log>>
    BY DEF Inserted, Busy, client
  <2>2. req(d).op = "ALLOC"
    BY DEF Inserted, SInv, Connection, Handled
  <2>3. taken[d] = 1
    BY <2>1, <2>2, OwnAccess
  <2>4. /\ taken[d] = Len(sent[d])
        /\ \/ step[d] = "allocating" /\ Allocating(d)
           \/ step[d] = "writing" /\ InWrite(d)
           \/ step[d] = "reading" /\ InRead(d)
    BY <1>2, <2>1, BusyPhase
  <2>5. ~(Len(sent[d]) >= 2)
    BY <2>3, <2>4
  <2>6. step[d] = "allocating" /\ Allocating(d)
    BY <2>4, <2>5, Zenon DEF InWrite, InRead
  <2>7. Allocating(d)'
    BY <2>1, <2>6, Zenon DEF Allocating, Waiting, Still
  <2> QED
    BY <2>6, <2>7, Zenon DEF Phase, Still
<1> QED
  BY <1>1, <1>2

\* The reply is on its way: the client may read it.
LEMMA ReplyPhase ==
    ASSUME SInv, AInv, NEW d \in Clients, Asked(d), Phase(d), Reply(d), Still
    PROVE  Phase(d)'
<1>1. CASE step[d] \in Gone
  BY <1>1 DEF Phase, Gone, Still
<1>2. CASE step[d] \notin Gone
  <2> DEFINE e == [req |-> req(d), reply |-> reply[d]]
  <2>1. pc[d] = "reply" /\ pc[d] \in Busy /\ UNCHANGED <<sent, pages>>
    BY DEF Reply, Busy, client
  <2>2. /\ Len(log[d]) + 1 = Len(sent[d]) /\ outbox[d] = <<>>
        /\ \/ step[d] = "allocating" /\ Allocating(d)
           \/ step[d] = "writing" /\ InWrite(d)
           \/ step[d] = "reading" /\ InRead(d)
    BY <1>2, <2>1, BusyPhase
  <2>3. DOMAIN pc = Clients /\ DOMAIN log = Clients /\ DOMAIN outbox = Clients
    BY Domains DEF SInv
  <2>4. /\ log'[d] = Append(log[d], e) /\ outbox'[d] = Append(outbox[d], reply[d])
        /\ pc'[d] = "read_next"
    BY <2>3 DEF Reply
  <2>5. outbox'[d] = <<reply[d]>>
    BY <2>2, <2>4
  <2>6. e.reply = reply[d] /\ log[d] \in Seq(Entries)
    BY DEF SInv, Typed
  <2> HIDE DEF e
  <2>7. Len(log'[d]) = Len(log[d]) + 1 /\ log'[d][Len(log[d]) + 1] = e
    <3>1. Len(Append(log[d], e)) = Len(log[d]) + 1 /\ Append(log[d], e)[Len(log[d]) + 1] = e
      BY <2>6, AppendIs, Zenon
    <3> QED
      BY <2>4, <3>1, Zenon
  <2>8. Len(log'[d]) = Len(sent'[d]) /\ log'[d][Len(log'[d])].reply = reply[d]
    BY <2>1, <2>2, <2>6, <2>7, Zenon
  <2>9. Waiting(d)'
    BY <2>5, <2>8, Zenon DEF Waiting
  <2>10. pc'[d] # "copy" /\ pc'[d] # "reply"
    BY <2>4
  <2>11. ASSUME Placed(d) PROVE Placed(d)' /\ Mine(d)' = Mine(d) /\ Buf(d)' = Buf(d)
    <3>1. Step(d) /\ ~(copy(d) /\ d = d /\ req(d).op = "WRITE") /\ Len(log[d]) >= 1
      BY <2>1, <2>11 DEF Step, Task, copy, Placed
    <3>2. Mine(d)' = Mine(d) /\ Buf(d)' = Buf(d)
      BY <3>1, BufferKept
    <3>3. Len(log'[d]) >= 1
      BY <2>7, <3>1, Lengths DEF SInv
    <3> QED
      BY <2>11, <3>2, <3>3, Zenon DEF Placed, Still, BufSize
  <2>12. ChunkEnd(d)' = ChunkEnd(d) /\ chunk(d)' = chunk(d)
    BY Zenon DEF ChunkEnd, chunk, BufSize, Least, Still
  <2>13. CASE step[d] = "allocating" /\ Allocating(d)
    BY <2>1, <2>9, <2>13, Zenon DEF Allocating, Phase, Still
  <2>14. CASE step[d] = "writing" /\ InWrite(d)
    <3>1. Placed(d) /\ Writing(d)
      BY <2>14, Zenon DEF InWrite
    <3>2. Stored(d, pos[d])' /\ Stored(d, ChunkEnd(d))'
      BY <2>1, <2>11, <2>12, <3>1, Zenon DEF Writing, Stored, Still
    <3>3. Writing(d)'
      BY <2>1, <2>10, <2>12, <3>1, <3>2, Zenon DEF Writing, Still
    <3> QED
      BY <2>1, <2>9, <2>11, <2>14, <3>1, <3>3, Zenon DEF InWrite, Phase, Still
  <2>15. CASE step[d] = "reading" /\ InRead(d)
    <3>1. Placed(d) /\ Reading(d)
      BY <2>15, Zenon DEF InRead
    <3>2. Stored(d, ChunkEnd(d))'
      BY <2>1, <2>11, <2>12, <3>1, Zenon DEF Reading, Stored, Still
    <3>3. reply[d] = OkBuffer(chunk(d))
      BY <2>1, <3>1, Zenon DEF Reading
    <3>4. Reading(d)'
      BY <2>1, <2>8, <2>10, <2>12, <3>1, <3>2, <3>3, Zenon DEF Reading, Still
    <3> QED
      BY <2>1, <2>9, <2>11, <2>15, <3>1, <3>4, Zenon DEF InRead, Phase, Still
  <2> QED
    BY <2>2, <2>13, <2>14, <2>15
<1> QED
  BY <1>1, <1>2

\* What a task does to its own client's phase
LEMMA TaskPhase ==
    ASSUME SInv, AInv, NEW d \in Clients, Asked(d), Phase(d), Task(d), Still
    PROVE  Phase(d)'
<1>1. ASSUME UNCHANGED <<sent, outbox, log, pages>>, pc'[d] \notin {"copy", "reply"}
      PROVE  Phase(d)'
  <2>1. /\ sent'[d] = sent[d] /\ outbox'[d] = outbox[d] /\ log'[d] = log[d]
        /\ step'[d] = step[d] /\ handle'[d] = handle[d] /\ pos'[d] = pos[d]
    BY <1>1, Zenon DEF Still
  <2>2. Buf(d)' = Buf(d)
    BY <1>1, Zenon DEF Buf, Mine
  <2> QED
    BY <1>1, <2>1, <2>2, PhaseFrame, Zenon
<1>2. DOMAIN pc = Clients
  BY Domains DEF SInv
<1>3. CASE accept(d) \/ Disconnected(d) \/ Unwind(d) \/ handle_alloc(d) \/ ReplyFails(d)
  <2>1. UNCHANGED <<sent, outbox, log, pages>> /\ pc'[d] \in {"read_next", "ended", "insert"}
    BY <1>2, <1>3 DEF accept, Disconnected, Unwind, handle_alloc, ReplyFails, Panic, End, client
  <2> QED
    BY <1>1, <2>1
<1>4. CASE ReadRequest(d)
  <2>1. UNCHANGED <<sent, outbox, log, pages>> /\ pc'[d] \in {"ended", "lock"}
    BY <1>2, <1>4 DEF ReadRequest, End, client
  <2> QED
    BY <1>1, <2>1
<1>5. CASE Insert(d)
  <2>1. CASE Panic(d)
    <3>1. UNCHANGED <<sent, outbox, log, pages>> /\ pc'[d] = "ended"
      BY <1>2, <2>1 DEF Panic, End, client
    <3> QED
      BY <1>1, <3>1
  <2> QED
    BY <1>5, <2>1, InsertCases, InsertedPhase
<1> QED
  BY <1>3, <1>4, <1>5, AccessPhase, CopyPhase, CopyDonePhase, ReplyPhase, Zenon DEF Task
=============================================================================
