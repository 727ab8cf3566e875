-------------------------- MODULE ThroughputProofs --------------------------
(* The clients' side of the invariant, and what follows from it: each       *)
(* client works in a buffer of its own, and reads back what it wrote.       *)
EXTENDS ThroughputTaskProofs

-----------------------------------------------------------------------------
(* The client *)

\* The task of a client that has all its replies does not work.
LEMMA IdleFree == ASSUME SInv, NEW d \in Clients, Idle(d) PROVE pc[d] \notin {"copy", "reply"}
<1>1. Len(log[d]) \in Nat /\ Len(sent[d]) \in Nat /\ taken[d] \in Nat
  BY Lengths DEF SInv
<1>2. taken[d] <= Len(sent[d]) /\ Len(log[d]) = Len(sent[d])
      /\ (pc[d] \in Busy => taken[d] = Len(log[d]) + 1)
  BY DEF SInv, Connection, Counted, Idle
<1>3. pc[d] \notin Busy
  BY <1>1, <1>2
<1> QED
  BY <1>3 DEF Busy

\* A client sends one request, when none is out.
LEMMA SendStep ==
    ASSUME SInv, NEW c \in Clients, NEW r \in RequestBody, Send(c, r), Idle(c)
    PROVE  /\ Step(c) /\ UNCHANGED <<outbox, log, pc, reply, copied, pages>>
           /\ Len(sent'[c]) = Len(sent[c]) + 1 /\ sent'[c][Len(sent'[c])] = r
           /\ \A i \in 1 .. Len(sent[c]) : sent'[c][i] = sent[c][i]
           /\ Waiting(c)' /\ Len(log'[c]) # Len(sent'[c])
           /\ pc'[c] # "copy" /\ pc'[c] # "reply"
<1>1. Step(c) /\ UNCHANGED <<outbox, log, pc, reply, copied, pages>>
  BY DEF Step, Send
<1>0. sent[c] \in Seq(RequestBody)
  BY DEF SInv, Typed
<1>2. sent'[c] = Append(sent[c], r)
  BY Domains DEF Send, SInv
<1>3. /\ Len(Append(sent[c], r)) = Len(sent[c]) + 1 /\ Append(sent[c], r)[Len(sent[c]) + 1] = r
      /\ \A i \in 1 .. Len(sent[c]) : Append(sent[c], r)[i] = sent[c][i]
  BY <1>0, AppendIs, Zenon
<1>4. /\ Len(sent'[c]) = Len(sent[c]) + 1 /\ sent'[c][Len(sent'[c])] = r
      /\ \A i \in 1 .. Len(sent[c]) : sent'[c][i] = sent[c][i]
  BY <1>2, <1>3, Zenon
<1>5. Len(log[c]) = Len(sent[c]) /\ outbox[c] = <<>>
  BY DEF Idle
<1>6. Len(log'[c]) + 1 = Len(sent'[c]) /\ outbox'[c] = <<>>
  BY <1>1, <1>4, <1>5, Zenon
<1>7. Len(log'[c]) # Len(sent'[c])
  <2>1. Len(log'[c]) \in Nat
    BY <1>1, Lengths DEF SInv
  <2> QED
    BY <1>6, <2>1
<1>8. pc'[c] # "copy" /\ pc'[c] # "reply"
  BY <1>1, IdleFree
<1> QED
  BY <1>1, <1>4, <1>6, <1>7, <1>8, Zenon DEF Waiting

\* The requests stay as they should be when one is added.
LEMMA SendAsked ==
    ASSUME SInv, NEW c \in Clients, Asked(c), NEW r \in RequestBody, Send(c, r), Idle(c),
           Len(sent[c]) = 0 => r = [op |-> "ALLOC", size |-> BufSize(c)],
           Len(sent[c]) # 0 => /\ r.op \in {"READ", "WRITE"} /\ r.handle = Mine(c)
                               /\ r.offset + size(r) <= BufSize(c)
    PROVE  Asked(c)'
<1>1. /\ Len(sent'[c]) = Len(sent[c]) + 1 /\ sent'[c][Len(sent'[c])] = r
      /\ \A i \in 1 .. Len(sent[c]) : sent'[c][i] = sent[c][i]
      /\ log' = log
  BY SendStep, Zenon
<1>2. Len(sent[c]) \in Nat /\ Len(log[c]) = Len(sent[c])
  BY Lengths DEF SInv, Idle
<1>3. sent'[c][1] = [op |-> "ALLOC", size |-> BufSize(c)]
  <2>1. CASE Len(sent[c]) = 0
    <3>1. Len(sent'[c]) = 1
      BY <1>1, <1>2, <2>1
    <3> QED
      BY <1>1, <2>1, <3>1, Zenon
  <2>2. CASE Len(sent[c]) # 0
    <3>1. Len(sent[c]) >= 1 /\ 1 \in 1 .. Len(sent[c])
      BY <1>2, <2>2
    <3> QED
      BY <1>1, <3>1, Zenon DEF Asked
  <2> QED
    BY <2>1, <2>2
<1>4. ASSUME NEW i \in 2 .. Len(sent'[c])
      PROVE  /\ Len(log'[c]) >= 1
             /\ sent'[c][i].op \in {"READ", "WRITE"} /\ sent'[c][i].handle = Mine(c)'
             /\ sent'[c][i].offset + size(sent'[c][i]) <= BufSize(c)
  <2>1. Len(sent[c]) # 0 /\ Len(log'[c]) >= 1 /\ Mine(c)' = Mine(c)
        /\ (i \in 2 .. Len(sent[c]) \/ i = Len(sent'[c])) /\ i \in 1 .. Len(sent'[c])
    BY <1>1, <1>2 DEF Mine
  <2>2. CASE i = Len(sent'[c])
    BY <1>1, <2>1, <2>2, Zenon
  <2>3. CASE i \in 2 .. Len(sent[c])
    <3>1. sent'[c][i] = sent[c][i]
      <4>1. i \in 1 .. Len(sent[c])
        BY <2>3, <1>2
      <4> QED
        BY <1>1, <4>1, Zenon
    <3>2. /\ sent[c][i].op \in {"READ", "WRITE"} /\ sent[c][i].handle = Mine(c)
          /\ sent[c][i].offset + size(sent[c][i]) <= BufSize(c)
      BY <2>3, Zenon DEF Asked
    <3> QED
      BY <2>1, <3>1, <3>2, Zenon
  <2> QED
    BY <2>1, <2>2, <2>3
<1> QED
  BY <1>3, <1>4, Zenon DEF Asked, BufSize, size

\* A reply is read: it is that to the only request that is out.
LEMMA ReceiveStep ==
    ASSUME SInv, NEW c \in Clients, Receive(c), Waiting(c)
    PROVE  /\ Step(c) /\ UNCHANGED <<sent, log, pc, reply, copied, pages>>
           /\ Len(log[c]) = Len(sent[c]) /\ Head(outbox[c]) = log[c][Len(log[c])].reply
           /\ Idle(c)'
<1>1. Step(c) /\ UNCHANGED <<sent, log, pc, reply, copied, pages>> /\ outbox[c] # <<>>
  BY DEF Step, Receive, client
<1>2. Len(log[c]) = Len(sent[c]) /\ outbox[c] = <<log[c][Len(log[c])].reply>>
  BY <1>1, Zenon DEF Waiting
<1>3. outbox'[c] = Tail(outbox[c])
  BY Domains DEF SInv, Receive
<1> DEFINE m == log[c][Len(log[c])].reply
<1>4. outbox[c] = <<m>>
  BY <1>2, Zenon
<1> HIDE DEF m
<1>5. Head(outbox[c]) = m /\ outbox'[c] = <<>>
  BY <1>3, <1>4
<1> QED
  BY <1>1, <1>2, <1>5, Zenon DEF Idle, m

\* The domains of what a client keeps
LEMMA ProgramDomains ==
    ASSUME CTyped PROVE DOMAIN step = Clients /\ DOMAIN handle = Clients /\ DOMAIN pos = Clients
  BY DEF CTyped

\* The allocation is asked for.
LEMMA SendAllocKeeps ==
    ASSUME TInv, NEW c \in Clients, SendAlloc(c)
    PROVE  Step(c) /\ Asked(c)' /\ Phase(c)'
<1> DEFINE r == [op |-> "ALLOC", size |-> BufSize(c)]
<1>1. r \in RequestBody
  BY FillFacts, ServerAssumption DEF RequestBody
<1>2. SInv /\ AInv /\ CTyped /\ Asked(c) /\ Phase(c)
  BY DEF TInv
<1>3. step[c] = "alloc" /\ Send(c, r) /\ Goto(c, "allocating") /\ UNCHANGED <<handle, pos>>
  BY Zenon DEF SendAlloc, Ask
<1>4. Before(c)
  BY <1>2, <1>3 DEF Phase
<1>5. Idle(c) /\ Len(sent[c]) = 0 /\ pos[c] = 0
  BY <1>4 DEF Before
<1>6. Asked(c)'
  BY <1>1, <1>2, <1>3, <1>5, SendAsked
<1>7. Step(c) /\ Len(sent'[c]) = Len(sent[c]) + 1 /\ Waiting(c)'
  BY <1>1, <1>2, <1>3, <1>5, SendStep, Zenon
<1>8. Len(sent'[c]) = 1
  BY <1>5, <1>7
<1>9. step'[c] = "allocating"
  BY <1>2, <1>3, ProgramDomains DEF Goto
<1>10. Allocating(c)'
  BY <1>3, <1>5, <1>7, <1>8, Zenon DEF Allocating
<1> QED
  BY <1>6, <1>7, <1>9, <1>10, Zenon DEF Phase

\* A chunk is sent to be written, or asked for: it lies in the client's buffer.
LEMMA SendChunkKeeps ==
    ASSUME TInv, NEW c \in Clients, SendWrite(c) \/ SendRead(c)
    PROVE  Step(c) /\ Asked(c)' /\ Phase(c)'
<1>1. SInv /\ AInv /\ CTyped /\ Asked(c) /\ Phase(c)
  BY DEF TInv
<1>2. (step[c] = "write" /\ ToWrite(c)) \/ (step[c] = "read" /\ ToRead(c))
  <2>1. step[c] = "write" \/ step[c] = "read"
    BY Zenon DEF SendWrite, SendRead, Ask
  <2>2. ASSUME step[c] = "write" PROVE ToWrite(c)
    BY <1>1, <2>2 DEF Phase
  <2>3. ASSUME step[c] = "read" PROVE ToRead(c)
    BY <1>1, <2>3 DEF Phase
  <2> QED
    BY <2>1, <2>2, <2>3, Zenon
<1>3. Idle(c) /\ Placed(c)
  BY <1>2, Zenon DEF ToWrite, ToRead
<1>4. /\ ChunkEnd(c) \in Nat /\ pos[c] < ChunkEnd(c) /\ ChunkEnd(c) <= BufSize(c)
      /\ Len(chunk(c)) = ChunkEnd(c) - pos[c] /\ pos[c] \in Nat
      /\ BufSize(c) \in Nat /\ BufSize(c) < U64
  BY <1>3, ChunkFacts, FillFacts DEF Placed
<1>5. chunk(c) \in Seq(Byte) /\ handle[c] = Mine(c) /\ Len(log[c]) >= 1
  BY <1>3, ChunkFacts DEF Placed
<1>6. Mine(c) \in Nat
  BY <1>1, <1>5, BufferFacts
<1>7. Len(sent[c]) # 0 /\ Len(sent[c]) >= 1 /\ Len(sent[c]) \in Nat
  BY <1>1, <1>3, <1>5, Lengths DEF SInv, Idle
<1>8. /\ pos[c] \in 0 .. U64 - 1 /\ ChunkEnd(c) - pos[c] \in 0 .. U64 - 1
      /\ pos[c] + (ChunkEnd(c) - pos[c]) <= BufSize(c)
  BY <1>4, ServerAssumption
<1>9. UNCHANGED <<handle, pos>>
  BY Zenon DEF SendWrite, SendRead, Ask
<1>10. ChunkEnd(c)' = ChunkEnd(c) /\ chunk(c)' = chunk(c)
  BY <1>9, Zenon DEF ChunkEnd, chunk, BufSize, Least
<1>11. ASSUME NEW r \in RequestBody, Send(c, r), r.op \in {"READ", "WRITE"}, r.handle = handle[c],
              r.offset = pos[c], size(r) = ChunkEnd(c) - pos[c]
       PROVE  /\ Step(c) /\ Asked(c)' /\ Waiting(c)' /\ Placed(c)' /\ Len(sent'[c]) >= 2
              /\ sent'[c][Len(sent'[c])] = r /\ Len(log'[c]) # Len(sent'[c])
              /\ pc'[c] # "copy" /\ pc'[c] # "reply" /\ Buf(c)' = Buf(c)
  <2>1. Asked(c)'
    BY <1>1, <1>3, <1>5, <1>7, <1>8, <1>11, SendAsked
  <2>2. /\ Step(c) /\ UNCHANGED <<log, pages>> /\ Len(sent'[c]) = Len(sent[c]) + 1 /\ Waiting(c)'
        /\ sent'[c][Len(sent'[c])] = r /\ Len(log'[c]) # Len(sent'[c])
        /\ pc'[c] # "copy" /\ pc'[c] # "reply"
    BY <1>1, <1>3, <1>11, SendStep, Zenon
  <2>3. Len(sent'[c]) >= 2
    <3>1. Len(sent'[c]) = Len(sent[c]) + 1
      BY <2>2, Zenon
    <3> QED
      BY <1>7, <3>1
  <2>4. Placed(c)' /\ Buf(c)' = Buf(c)
    BY <1>3, <1>9, <2>2, Zenon DEF Placed, Mine, Buf, BufSize
  <2> QED
    BY <2>1, <2>2, <2>3, <2>4, Zenon
<1>12. CASE SendWrite(c)
  <2> DEFINE r == [op |-> "WRITE", handle |-> handle[c], offset |-> pos[c], buf |-> chunk(c)]
  <2>1. r \in RequestBody
    <3>1. handle[c] \in Nat
      BY <1>5, <1>6, Zenon
    <3> QED
      BY <1>5, <1>8, <3>1, Zenon DEF RequestBody
  <2>2. size(r) = ChunkEnd(c) - pos[c]
    BY <1>4 DEF size
  <2>3. step[c] = "write" /\ Send(c, r) /\ Goto(c, "writing")
    BY <1>12, Zenon DEF SendWrite, Ask
  <2>4. r.op = "WRITE" /\ r.handle = handle[c] /\ r.offset = pos[c]
    OBVIOUS
  <2>5. Stored(c, pos[c])
    BY <1>2, <2>3 DEF ToWrite
  <2>6. step'[c] = "writing"
    BY <1>1, <2>3, ProgramDomains DEF Goto
  <2> HIDE DEF r
  <2>7. /\ Step(c) /\ Asked(c)' /\ Waiting(c)' /\ Placed(c)' /\ Len(sent'[c]) >= 2
        /\ sent'[c][Len(sent'[c])] = r /\ Len(log'[c]) # Len(sent'[c])
        /\ pc'[c] # "copy" /\ pc'[c] # "reply" /\ Buf(c)' = Buf(c)
    BY <1>11, <2>1, <2>2, <2>3, <2>4
  <2>8. Writing(c)'
    BY <1>9, <1>10, <2>5, <2>7, Zenon DEF Writing, Stored, r
  <2> QED
    BY <2>6, <2>7, <2>8, Zenon DEF InWrite, Phase
<1>13. CASE SendRead(c)
  <2> DEFINE r == [op |-> "READ", handle |-> handle[c], offset |-> pos[c],
                   len |-> ChunkEnd(c) - pos[c]]
  <2>1. r \in RequestBody
    <3>1. handle[c] \in Nat
      BY <1>5, <1>6, Zenon
    <3> QED
      BY <1>8, <3>1, Zenon DEF RequestBody
  <2>2. size(r) = ChunkEnd(c) - pos[c]
    BY DEF size
  <2>3. step[c] = "read" /\ Send(c, r) /\ Goto(c, "reading")
    BY <1>13, Zenon DEF SendRead, Ask
  <2>4. r.op = "READ" /\ r.handle = handle[c] /\ r.offset = pos[c]
    OBVIOUS
  <2>5. Stored(c, ChunkEnd(c))
    BY <1>2, <2>3 DEF ToRead
  <2>6. step'[c] = "reading"
    BY <1>1, <2>3, ProgramDomains DEF Goto
  <2> HIDE DEF r
  <2>7. /\ Step(c) /\ Asked(c)' /\ Waiting(c)' /\ Placed(c)' /\ Len(sent'[c]) >= 2
        /\ sent'[c][Len(sent'[c])] = r /\ Len(log'[c]) # Len(sent'[c])
        /\ pc'[c] # "copy" /\ pc'[c] # "reply" /\ Buf(c)' = Buf(c)
    BY <1>11, <2>1, <2>2, <2>3, <2>4
  <2>8. Reading(c)'
    BY <1>9, <1>10, <2>5, <2>7, Zenon DEF Reading, Stored, r
  <2> QED
    BY <2>6, <2>7, <2>8, Zenon DEF InRead, Phase
<1> QED
  BY <1>12, <1>13

\* The handle arrives: it names the buffer, which is not empty.
LEMMA AllocReplyKeeps ==
    ASSUME TInv, NEW c \in Clients, AllocReply(c)
    PROVE  Step(c) /\ Asked(c)' /\ Phase(c)' /\ handle'[c] = Mine(c) /\ Mine(c) \in Nat
<1>1. SInv /\ AInv /\ CTyped /\ Asked(c) /\ Phase(c)
  BY DEF TInv
<1>2. step[c] = "allocating" /\ Receive(c) /\ UNCHANGED pos
  BY Zenon DEF AllocReply
<1>3. Allocating(c)
  BY <1>1, <1>2 DEF Phase
<1>4. Len(sent[c]) = 1 /\ Waiting(c) /\ pos[c] = 0
  BY <1>3, Zenon DEF Allocating
<1>5. /\ Step(c) /\ UNCHANGED <<sent, log, pages>>
      /\ Len(log[c]) = Len(sent[c]) /\ Head(outbox[c]) = log[c][Len(log[c])].reply
      /\ Idle(c)'
  BY <1>1, <1>2, <1>4, ReceiveStep, Zenon
<1>6. Len(log[c]) = 1 /\ Head(outbox[c]) = log[c][1].reply
  BY <1>4, <1>5, Zenon
<1>7. Len(log[c]) >= 1
  BY <1>6
<1>8. log[c][1].reply.kind = "OK_H" /\ Mine(c) \in Nat /\ BufSize(c) > 0 /\ BufSize(c) \in Nat
  BY <1>1, <1>7, BufferFacts, FillFacts
<1>9. Goto(c, "write") /\ handle' = [handle EXCEPT ![c] = Mine(c)]
  BY <1>6, <1>8, Zenon DEF AllocReply, Mine
<1>10. step'[c] = "write" /\ handle'[c] = Mine(c)
  BY <1>1, <1>9, ProgramDomains DEF Goto
<1>11. Asked(c)'
  BY <1>1, <1>5, AskedFrame
<1>12. Placed(c)'
  <2>1. pos[c] \in Nat /\ pos[c] < BufSize(c)
    BY <1>4, <1>8
  <2> QED
    BY <1>2, <1>5, <1>7, <1>10, <2>1, Zenon DEF Placed, Mine, BufSize
<1>13. Stored(c, pos[c])'
  <2>1. 1 .. pos'[c] = {}
    BY <1>2, <1>4
  <2> QED
    BY <2>1, Zenon DEF Stored
<1> QED
  BY <1>5, <1>8, <1>10, <1>11, <1>12, <1>13, Zenon DEF Phase, ToWrite

\* The reply to a write means that the chunk is stored.
LEMMA WriteReplyKeeps ==
    ASSUME TInv, NEW c \in Clients, WriteReply(c)
    PROVE  Step(c) /\ Asked(c)' /\ Phase(c)'
<1>1. SInv /\ AInv /\ CTyped /\ Asked(c) /\ Phase(c)
  BY DEF TInv
<1>2. step[c] = "writing" /\ Receive(c) /\ Goto(c, "read") /\ UNCHANGED <<handle, pos>>
  BY Zenon DEF WriteReply
<1>3. InWrite(c)
  BY <1>1, <1>2 DEF Phase
<1>4. Waiting(c) /\ Placed(c) /\ Writing(c)
  BY <1>3, Zenon DEF InWrite
<1>5. /\ Step(c) /\ UNCHANGED <<sent, log, pages>> /\ Len(log[c]) = Len(sent[c]) /\ Idle(c)'
  BY <1>1, <1>2, <1>4, ReceiveStep, Zenon
<1>6. step'[c] = "read"
  BY <1>1, <1>2, ProgramDomains DEF Goto
<1>7. Asked(c)'
  BY <1>1, <1>5, AskedFrame
<1>8. Placed(c)'
  BY <1>2, <1>4, <1>5, Zenon DEF Placed, Mine, BufSize
<1>9. Stored(c, ChunkEnd(c))'
  BY <1>2, <1>4, <1>5, Zenon DEF Writing, Stored, Buf, Mine, ChunkEnd, BufSize, Least
<1> QED
  BY <1>5, <1>6, <1>7, <1>8, <1>9, Zenon DEF Phase, ToRead

\* The bytes read are the chunk that was written.
LEMMA ReadReplyKeeps ==
    ASSUME TInv, NEW c \in Clients, ReadReply(c)
    PROVE  /\ Step(c) /\ Asked(c)' /\ Phase(c)' /\ step'[c] # "BadResponse"
           /\ pos'[c] \in Nat /\ pos'[c] <= BufSize(c) + ChunkSize - 1
<1>1. SInv /\ AInv /\ CTyped /\ Asked(c) /\ Phase(c)
  BY DEF TInv
<1>2. /\ step[c] = "reading" /\ Receive(c) /\ UNCHANGED handle
      /\ pos' = [pos EXCEPT ![c] = @ + ChunkSize]
  BY Zenon DEF ReadReply
<1>3. InRead(c)
  BY <1>1, <1>2 DEF Phase
<1>4. Waiting(c) /\ Placed(c) /\ Reading(c)
  BY <1>3, Zenon DEF InRead
<1>5. /\ Step(c) /\ UNCHANGED <<sent, log, pages>> /\ Len(log[c]) = Len(sent[c])
      /\ Head(outbox[c]) = log[c][Len(log[c])].reply /\ Idle(c)'
  BY <1>1, <1>2, <1>4, ReceiveStep, Zenon
<1>6. Head(outbox[c]) = OkBuffer(chunk(c))
  BY <1>4, <1>5, Zenon DEF Reading
<1>7. step'[c] = IF More(c) THEN "write" ELSE "finished"
  <2>1. Goto(c, IF More(c) THEN "write" ELSE "finished")
    BY <1>6, Zenon DEF ReadReply
  <2> QED
    BY <1>1, <2>1, ProgramDomains, Zenon DEF Goto
<1>8. Asked(c)'
  BY <1>1, <1>5, AskedFrame
<1>9. Buf(c)' = Buf(c) /\ Mine(c)' = Mine(c) /\ handle'[c] = Mine(c)' /\ Len(log'[c]) >= 1
  BY <1>2, <1>4, <1>5, Zenon DEF Buf, Mine, Placed
<1>10. pos'[c] = pos[c] + ChunkSize
  BY <1>1, <1>2, ProgramDomains
<1>11. /\ pos[c] \in Nat /\ pos[c] < BufSize(c) /\ BufSize(c) \in Nat /\ ChunkSize \in Nat \ {0}
  BY <1>4, FillFacts, ThroughputAssumption DEF Placed
<1>12. pos[c] + ChunkSize \in Nat /\ pos[c] + ChunkSize <= BufSize(c) + ChunkSize - 1
  BY <1>11
<1>13. Stored(c, ChunkEnd(c))
  BY <1>4, Zenon DEF Reading
<1>14. CASE More(c)
  <2>1. ChunkEnd(c) = pos[c] + ChunkSize /\ pos[c] + ChunkSize < BufSize(c)
    BY <1>14, Zenon DEF More, ChunkEnd, Least
  <2>2. Stored(c, pos[c])'
    BY <1>9, <1>10, <1>13, <2>1, Zenon DEF Stored
  <2>3. Placed(c)'
    BY <1>9, <1>10, <1>12, <2>1, Zenon DEF Placed, BufSize
  <2>4. step'[c] = "write"
    BY <1>7, <1>14
  <2>5. step'[c] # "BadResponse"
    BY <2>4
  <2> QED
    BY <1>5, <1>8, <1>10, <1>12, <2>2, <2>3, <2>4, <2>5, Zenon DEF Phase, ToWrite
<1>15. CASE ~More(c)
  <2>1. ChunkEnd(c) = BufSize(c)
    BY <1>15, Zenon DEF More, ChunkEnd, Least
  <2>2. Stored(c, BufSize(c))'
    BY <1>9, <1>13, <2>1, Zenon DEF Stored, BufSize
  <2>3. step'[c] = "finished"
    BY <1>7, <1>15
  <2>4. step'[c] # "BadResponse"
    BY <2>3
  <2> QED
    BY <1>5, <1>8, <1>9, <1>10, <1>12, <2>2, <2>3, <2>4, Zenon DEF Phase, Finished
<1> QED
  BY <1>14, <1>15

-----------------------------------------------------------------------------
(* All clients *)

\* A client is not affected by what happens on another's connection.
LEMMA OthersKeep ==
    ASSUME TInv, NEW c \in Clients, Step(c), NEW d \in Clients, d # c,
           step'[d] = step[d], handle'[d] = handle[d], pos'[d] = pos[d]
    PROVE  Asked(d)' /\ Phase(d)'
<1>1. SInv /\ AInv /\ Asked(c) /\ Asked(d) /\ Phase(d)
  BY DEF TInv
<1>2. /\ sent'[d] = sent[d] /\ log'[d] = log[d] /\ pc'[d] = pc[d] /\ reply'[d] = reply[d]
      /\ copied'[d] = copied[d] /\ outbox'[d] = outbox[d]
  BY <1>1, OthersUnchanged, Zenon
<1>3. Len(log[d]) >= 1 => Buf(d)' = Buf(d)
  BY <1>1, BufferKept
<1>4. Asked(d)'
  BY <1>1, <1>2, AskedFrame
<1> QED
  BY <1>1, <1>2, <1>3, <1>4, PhaseFrame, Zenon

\* A step that leaves the server alone leaves alone every client that does not move.
LEMMA StillKeeps ==
    ASSUME TInv, UNCHANGED vars
    PROVE  /\ SInv' /\ AInv'
           /\ \A d \in Clients : Asked(d)'
           /\ \A d \in Clients : step'[d] = step[d] /\ handle'[d] = handle[d] /\ pos'[d] = pos[d]
                                    => Phase(d)'
<1>1. SInv /\ AInv /\ \A d \in Clients : Asked(d) /\ Phase(d)
  BY DEF TInv
<1>2. UNCHANGED <<sent, taken, outbox, log, pc, reply, copied, pages>>
  BY DEF vars
<1>3. SInv'
  BY <1>1, SInvStutters
<1>4. AInv'
  BY <1>1, <1>2, AInvStutters
<1>5. ASSUME NEW d \in Clients PROVE Asked(d)'
  BY <1>1, <1>2, Zenon DEF Asked, Mine, BufSize, size
<1>6. ASSUME NEW d \in Clients, step'[d] = step[d], handle'[d] = handle[d], pos'[d] = pos[d]
      PROVE  Phase(d)'
  <2>1. /\ sent'[d] = sent[d] /\ log'[d] = log[d] /\ pc'[d] = pc[d] /\ reply'[d] = reply[d]
        /\ copied'[d] = copied[d] /\ outbox'[d] = outbox[d]
    BY <1>2, Zenon
  <2>2. Buf(d)' = Buf(d)
    BY <1>2, Zenon DEF Buf, Mine
  <2> QED
    BY <1>1, <1>6, <2>1, <2>2, PhaseFrame, Zenon
<1> QED
  BY <1>3, <1>4, <1>5, <1>6

\* The task of client c moves.
LEMMA ServeKeeps == ASSUME TInv, NEW c \in Clients, Serve(c) PROVE TInv'
<1>1. SInv /\ AInv /\ CTyped /\ Asked(c) /\ Phase(c)
  BY DEF TInv
<1>2. Task(c) /\ Step(c) /\ Still /\ UNCHANGED <<port, listen>>
  BY DEF Serve, Step, Still, program, main
<1>3. SInv' /\ AInv'
  BY <1>1, <1>2, StepKeeps, AInvKeeps
<1>4. CTyped'
  BY <1>1, <1>2, Zenon DEF CTyped, Still, BufSize
<1>5. Asked(c)'
  <2>1. sent' = sent
    BY <1>2, Zenon DEF Task, accept, ReadRequest, Disconnected, handle_access, Unwind, copy,
       CopyDone, handle_alloc, Insert, Reply, ReplyFails, Panic, client
  <2> QED
    BY <1>1, <1>2, <2>1, AskedFrame
<1>6. Phase(c)'
  BY <1>1, <1>2, TaskPhase
<1>7. ASSUME NEW d \in Clients, d # c PROVE Asked(d)' /\ Phase(d)'
  BY <1>2, <1>7, OthersKeep DEF Still
<1> QED
  BY <1>3, <1>4, <1>5, <1>6, <1>7, Zenon DEF TInv

\* Client c moves.
LEMMA ClientKeeps == ASSUME TInv, NEW c \in Clients, Client(c) PROVE TInv'
<1>1. SInv /\ AInv /\ CTyped /\ Asked(c) /\ Phase(c)
  BY DEF TInv
<1>2. UNCHANGED <<port, listen>>
  BY DEF Client, main
<1>3. \A d \in Clients : d # c => step'[d] = step[d] /\ handle'[d] = handle[d] /\ pos'[d] = pos[d]
  <2>1. \E s : Goto(c, s)
    BY Zenon DEF Client, connect, SendAlloc, SendWrite, SendRead, Ask, AllocReply, WriteReply,
       ReadReply, Lost
  <2>2. handle' = handle \/ \E h : handle' = [handle EXCEPT ![c] = h]
    BY Zenon DEF Client, connect, SendAlloc, SendWrite, SendRead, Ask, AllocReply, WriteReply,
       ReadReply, Lost
  <2>3. pos' = pos \/ pos' = [pos EXCEPT ![c] = @ + ChunkSize]
    BY Zenon DEF Client, connect, SendAlloc, SendWrite, SendRead, Ask, AllocReply, WriteReply,
       ReadReply, Lost
  <2> QED
    BY <1>1, <2>1, <2>2, <2>3, ProgramDomains DEF Goto
<1>4. ASSUME Step(c), Asked(c)', Phase(c)', CTyped' PROVE TInv'
  <2>1. SInv' /\ AInv'
    BY <1>1, <1>4, StepKeeps, AInvKeeps
  <2>2. ASSUME NEW d \in Clients, d # c PROVE Asked(d)' /\ Phase(d)'
    BY <1>3, <1>4, <2>2, OthersKeep
  <2> QED
    BY <1>4, <2>1, <2>2, Zenon DEF TInv
<1>5. ASSUME UNCHANGED vars, Phase(c)', CTyped' PROVE TInv'
  BY <1>3, <1>5, StillKeeps, Zenon DEF TInv
<1>6. ASSUME NEW s \in Steps, Goto(c, s), UNCHANGED <<handle, pos>> PROVE CTyped'
  BY <1>1, <1>2, <1>6 DEF CTyped, Goto, BufSize
<1>7. CASE connect(c)
  <2>1. PICK s \in {"alloc", "elsewhere", "ConnectionError"} : Goto(c, s)
    BY <1>7 DEF connect
  <2>2. UNCHANGED vars /\ UNCHANGED <<handle, pos>> /\ step[c] = "connect"
    BY <1>7, Zenon DEF connect
  <2>3. Before(c)
    BY <1>1, <2>2 DEF Phase
  <2>4. step'[c] = s
    BY <1>1, <2>1, ProgramDomains DEF Goto
  <2>5. Before(c)'
    BY <2>2, <2>3, Zenon DEF Before, Idle, vars
  <2>6. Phase(c)'
    BY <2>1, <2>4, <2>5 DEF Phase
  <2>7. s \in Steps
    BY <2>1 DEF Steps
  <2> QED
    BY <1>5, <1>6, <2>1, <2>2, <2>6, <2>7
<1>8. CASE Lost(c)
  <2>1. PICK s \in {"ReceiveError", "MessageEncodingError"} : Goto(c, s)
    BY <1>8 DEF Lost
  <2>2. UNCHANGED vars /\ UNCHANGED <<handle, pos>>
    BY <1>8, Zenon DEF Lost
  <2>3. step'[c] = s
    BY <1>1, <2>1, ProgramDomains DEF Goto
  <2>4. Phase(c)'
    BY <2>1, <2>3 DEF Phase
  <2>5. s \in Steps
    BY <2>1 DEF Steps, Over
  <2> QED
    BY <1>5, <1>6, <2>1, <2>2, <2>4, <2>5
<1>9. CASE SendAlloc(c)
  <2>1. Goto(c, "allocating") /\ UNCHANGED <<handle, pos>>
    BY <1>9, Zenon DEF SendAlloc, Ask
  <2>2. CTyped'
    BY <1>6, <2>1 DEF Steps
  <2> QED
    BY <1>4, <1>9, <2>2, SendAllocKeeps
<1>10. CASE SendWrite(c) \/ SendRead(c)
  <2>1. (Goto(c, "writing") \/ Goto(c, "reading")) /\ UNCHANGED <<handle, pos>>
    BY <1>10, Zenon DEF SendWrite, SendRead, Ask
  <2>2. CTyped'
    BY <1>6, <2>1 DEF Steps
  <2> QED
    BY <1>4, <1>10, <2>2, SendChunkKeeps
<1>11. CASE WriteReply(c)
  <2>1. Goto(c, "read") /\ UNCHANGED <<handle, pos>>
    BY <1>11, Zenon DEF WriteReply
  <2>2. CTyped'
    BY <1>6, <2>1 DEF Steps
  <2> QED
    BY <1>4, <1>11, <2>2, WriteReplyKeeps
<1>12. CASE AllocReply(c)
  <2>1. (Goto(c, "write") \/ Goto(c, "BadResponse")) /\ UNCHANGED pos
    BY <1>12, Zenon DEF AllocReply
  <2>2. step' \in [Clients -> Steps]
    BY <1>1, <2>1 DEF CTyped, Goto, Steps, Over
  <2>3. handle' \in [Clients -> Nat]
    <3>1. handle'[c] = Mine(c) /\ Mine(c) \in Nat
      BY <1>12, AllocReplyKeeps
    <3>2. handle' = handle \/ \E h : handle' = [handle EXCEPT ![c] = h]
      BY <1>12, Zenon DEF AllocReply
    <3>3. handle \in [Clients -> Nat]
      BY <1>1 DEF CTyped
    <3> QED
      BY <3>1, <3>2, <3>3
  <2>4. CTyped'
    BY <1>1, <1>2, <2>1, <2>2, <2>3, Zenon DEF CTyped, BufSize
  <2> QED
    BY <1>4, <1>12, <2>4, AllocReplyKeeps
<1>13. CASE ReadReply(c)
  <2>1. /\ pos' = [pos EXCEPT ![c] = @ + ChunkSize] /\ UNCHANGED handle
        /\ \E s \in {"write", "finished", "BadResponse"} : Goto(c, s)
    BY <1>13 DEF ReadReply
  <2>2. step' \in [Clients -> Steps]
    BY <1>1, <2>1 DEF CTyped, Goto, Steps, Over
  <2>3. pos'[c] \in Nat /\ pos'[c] <= BufSize(c) + ChunkSize - 1
    BY <1>13, ReadReplyKeeps
  <2>4. pos \in [Clients -> Nat] /\ \A d \in Clients : pos[d] <= BufSize(d) + ChunkSize - 1
    BY <1>1 DEF CTyped
  <2>5. pos' \in [Clients -> Nat]
    BY <2>1, <2>3, <2>4
  <2>6. \A d \in Clients : pos'[d] <= BufSize(d) + ChunkSize - 1
    BY <1>3, <2>3, <2>4, Zenon
  <2>7. CTyped'
    BY <1>1, <1>2, <2>1, <2>2, <2>5, <2>6, Zenon DEF CTyped, BufSize
  <2> QED
    BY <1>4, <1>13, <2>7, ReadReplyKeeps
<1> QED
  BY <1>7, <1>8, <1>9, <1>10, <1>11, <1>12, <1>13, Zenon DEF Client

\* A client that is done, or dies, drops its socket.
LEMMA DropKeeps == ASSUME TInv, NEW c \in Clients, Drop(c), UNCHANGED main PROVE TInv'
<1>1. SInv /\ AInv /\ CTyped /\ Asked(c) /\ Phase(c)
  BY DEF TInv
<1>2. Close(c) /\ Step(c) /\ UNCHANGED <<handle, pos, port, listen>>
  BY DEF Drop, Step, main
<1>3. UNCHANGED <<sent, outbox, log, pc, reply, copied, pages>>
  BY <1>2 DEF Close
<1>4. step' = step \/ Goto(c, "killed")
  BY Zenon DEF Drop
<1>5. CTyped'
  <2>1. step' \in [Clients -> Steps]
    BY <1>1, <1>4 DEF CTyped, Goto, Steps
  <2> QED
    BY <1>1, <1>2, <2>1, Zenon DEF CTyped, BufSize
<1>6. Asked(c)'
  BY <1>1, <1>2, <1>3, AskedFrame
<1>7. Phase(c)'
  <2>1. CASE step' = step
    <3>1. /\ sent'[c] = sent[c] /\ log'[c] = log[c] /\ pc'[c] = pc[c] /\ reply'[c] = reply[c]
          /\ copied'[c] = copied[c] /\ outbox'[c] = outbox[c] /\ step'[c] = step[c]
          /\ handle'[c] = handle[c] /\ pos'[c] = pos[c]
      BY <1>2, <1>3, <2>1, Zenon
    <3>2. Buf(c)' = Buf(c)
      BY <1>3, Zenon DEF Buf, Mine
    <3> QED
      BY <1>1, <3>1, <3>2, PhaseFrame, Zenon
  <2>2. CASE Goto(c, "killed")
    <3>1. step'[c] = "killed"
      BY <1>1, <2>2, ProgramDomains DEF Goto
    <3> QED
      BY <3>1 DEF Phase
  <2> QED
    BY <1>4, <2>1, <2>2
<1>8. SInv' /\ AInv'
  BY <1>1, <1>2, StepKeeps, AInvKeeps
<1>9. ASSUME NEW d \in Clients, d # c PROVE Asked(d)' /\ Phase(d)'
  <2>1. step'[d] = step[d]
    BY <1>1, <1>4, <1>9, ProgramDomains DEF Goto
  <2> QED
    BY <1>2, <1>9, <2>1, OthersKeep
<1> QED
  BY <1>5, <1>6, <1>7, <1>8, <1>9, Zenon DEF TInv

\* accept fails: every task ends, and the lock with them.
LEMMA AcceptFailsKeeps == ASSUME TInv, AcceptFails PROVE TInv'
<1>1. SInv /\ AInv /\ CTyped /\ \A d \in Clients : Asked(d) /\ Phase(d)
  BY DEF TInv
<1>2. /\ UNCHANGED <<sent, taken, outbox, log, closed, reply, copied, pages>>
      /\ UNCHANGED <<step, handle, pos, port>>
      /\ listen' = "failed" /\ pc' = [c \in Clients |-> "ended"]
      /\ queue' = <<>> /\ readers' = {} /\ writer' = Nobody
  BY DEF AcceptFails, program
<1>3. \A d \in Clients : pc'[d] = "ended"
  BY <1>2
<1>4. Typed'
  BY <1>1, <1>2 DEF SInv, Typed, Points
<1>5. Locked'
  BY <1>2, <1>3, ServerAssumption DEF Locked
<1>6. ASSUME NEW d \in Clients PROVE Connection(d)'
  <2>1. Connection(d) /\ pc'[d] = "ended"
    BY <1>1, <1>3 DEF SInv
  <2>2. pc'[d] \notin Busy /\ pc'[d] \notin {"accept", "read_next", "insert", "copy", "panic", "reply"}
    BY <2>1 DEF Busy
  <2>3. Counted(d)' /\ Logged(d)'
    BY <1>2, <2>1, <2>2, Zenon DEF Connection, Counted, Logged
  <2>4. Handled(d)' /\ Bounded(d)' /\ InFull(d)'
    BY <2>1 DEF Handled, Bounded, InFull
  <2> QED
    BY <2>3, <2>4 DEF Connection
<1>7. AInv'
  <2>1. \A d \in Clients : pc'[d] = "reply" => pc[d] = "reply"
    BY <1>3
  <2> QED
    BY <1>1, <1>2, <2>1, AInvStutters
<1>8. CTyped'
  BY <1>1, <1>2 DEF CTyped, BufSize
<1>9. ASSUME NEW d \in Clients PROVE Asked(d)'
  BY <1>1, <1>2, Zenon DEF Asked, Mine, BufSize, size
<1>10. ASSUME NEW d \in Clients PROVE Phase(d)'
  <2>1. /\ sent'[d] = sent[d] /\ log'[d] = log[d] /\ outbox'[d] = outbox[d]
        /\ step'[d] = step[d] /\ handle'[d] = handle[d] /\ pos'[d] = pos[d]
    BY <1>2, Zenon
  <2>2. pc'[d] \notin {"copy", "reply"}
    BY <1>3
  <2>3. Buf(d)' = Buf(d)
    BY <1>2, Zenon DEF Buf, Mine
  <2> QED
    BY <1>1, <2>1, <2>2, <2>3, PhaseFrame, Zenon
<1> QED
  BY <1>4, <1>5, <1>6, <1>7, <1>8, <1>9, <1>10, Zenon DEF TInv, SInv

\* TInv is an inductive invariant.
LEMMA TInvInductive == TSpec => []TInv
<1>1. TInit => TInv
  <2> SUFFICES ASSUME TInit PROVE TInv
    OBVIOUS
  <2>1. Init /\ SInv
    BY InitSInv DEF TInit
  <2>2. AInv
    <3>1. \A c \in Clients : pc[c] = "accept" /\ Len(log[c]) = 0
      BY <2>1 DEF Init
    <3>2. \A c \in Clients, i \in Nat : ~Given(c, i)
      BY <3>1 DEF Given
    <3> QED
      BY <3>2, Zenon DEF AInv, Allocated
  <2>3. CTyped
    <3>1. \A d \in Clients : pos[d] = 0 /\ BufSize(d) \in Nat /\ ChunkSize \in Nat \ {0}
      BY FillFacts, ThroughputAssumption DEF TInit
    <3>2. \A d \in Clients : pos[d] <= BufSize(d) + ChunkSize - 1
      BY <3>1
    <3> QED
      BY <3>2 DEF TInit, CTyped, Steps
  <2>4. ASSUME NEW d \in Clients PROVE Asked(d) /\ Phase(d)
    <3>1. /\ sent[d] = <<>> /\ log[d] = <<>> /\ outbox[d] = <<>> /\ step[d] = "connect"
          /\ pos[d] = 0 /\ Len(sent[d]) = 0
      BY <2>1 DEF Init, TInit
    <3>2. Before(d)
      BY <3>1, Zenon DEF Before, Idle
    <3>3. Asked(d)
      BY <3>1 DEF Asked
    <3> QED
      BY <3>1, <3>2, <3>3 DEF Phase
  <2> QED
    BY <2>1, <2>2, <2>3, <2>4 DEF TInv
<1>2. TInv /\ [TNext]_allVars => TInv'
  <2> SUFFICES ASSUME TInv, [TNext]_allVars PROVE TInv'
    OBVIOUS
  <2>1. CASE try_listen_on \/ UNCHANGED allVars
    <3>1. UNCHANGED vars /\ UNCHANGED <<step, handle, pos>>
      BY <2>1 DEF try_listen_on, allVars, program
    <3>2. port' \in Ports \cup {AnyPort} /\ listen' \in {"bind", "listening", "failed"}
      BY <2>1 DEF TInv, CTyped, try_listen_on, allVars, main, NextPort
    <3>3. CTyped'
      BY <3>1, <3>2, Zenon DEF TInv, CTyped, BufSize
    <3> QED
      BY <3>1, <3>3, StillKeeps, Zenon DEF TInv
  <2> QED
    BY <2>1, AcceptFailsKeeps, ServeKeeps, ClientKeeps, DropKeeps, Zenon DEF TNext
<1> QED
  BY <1>1, <1>2, PTL DEF TSpec

-----------------------------------------------------------------------------
\* A client is at one of its steps, its loop stays in its buffer, and the server's
\* port is one it was given or any free one.
THEOREM ThroughputTypeCorrect == TSpec => []TTypeOK
<1>1. TInv => TTypeOK
  <2> SUFFICES ASSUME TInv PROVE TTypeOK
    OBVIOUS
  <2>1. ASSUME NEW c \in Clients
        PROVE  /\ pos[c] \in 0 .. BufSize(c) + ChunkSize - 1
               /\ step[c] \in {"write", "writing", "read", "reading"} => pos[c] < BufSize(c)
    <3>1. pos[c] \in Nat /\ pos[c] <= BufSize(c) + ChunkSize - 1
      BY DEF TInv, CTyped
    <3>2. pos[c] \in 0 .. BufSize(c) + ChunkSize - 1
      BY <3>1, FillFacts, ThroughputAssumption
    <3>3. ASSUME step[c] \in {"write", "writing", "read", "reading"} PROVE Placed(c)
      <4>1. Phase(c)
        BY DEF TInv
      <4>2. ToWrite(c) \/ InWrite(c) \/ ToRead(c) \/ InRead(c)
        BY <3>3, <4>1 DEF Phase
      <4> QED
        BY <4>2, Zenon DEF ToWrite, InWrite, ToRead, InRead
    <3> QED
      BY <3>2, <3>3, Zenon DEF Placed
  <2> QED
    BY <2>1, Zenon DEF TInv, CTyped, TTypeOK
<1> QED
  BY <1>1, TInvInductive, PTL

\* For any number of clients, chunks and data: what a client reads back is what it
\* wrote, and no other reply surprises it.
THEOREM ReadsBackWrites == TSpec => []ReadBack
<1>1. TInv => ReadBack
  <2> SUFFICES ASSUME TInv, NEW c \in Clients PROVE step[c] # "BadResponse"
    BY DEF ReadBack
  <2>1. Phase(c)
    BY DEF TInv
  <2> QED
    BY <2>1 DEF Phase
<1> QED
  BY <1>1, TInvInductive, PTL

\* The buffer of a client that has finished holds its data to the last byte.
THEOREM DataStoredWhole == TSpec => []StoredWhole
<1>1. TInv => StoredWhole
  <2> SUFFICES ASSUME TInv, NEW c \in Clients, step[c] = "finished"
               PROVE  SubSeq(pages[handle[c] + 1], 1, BufSize(c)) = Fill[c]
    BY DEF StoredWhole
  <2>1. SInv /\ AInv /\ Asked(c) /\ Phase(c)
    BY DEF TInv
  <2>2. Finished(c)
    BY <2>1 DEF Phase
  <2>3. Len(log[c]) >= 1 /\ pages[handle[c] + 1] = Buf(c) /\ Stored(c, BufSize(c))
    BY <2>2, Zenon DEF Finished, Buf
  <2>4. /\ Buf(c) \in Seq(Byte) /\ Len(Buf(c)) \in Nat /\ Len(Buf(c)) >= BufSize(c)
    BY <2>1, <2>3, BufferFacts
  <2>5. Fill[c] \in Seq(Byte) /\ BufSize(c) \in Nat /\ Len(Fill[c]) = BufSize(c)
    BY FillFacts DEF BufSize
  <2> DEFINE b == Buf(c)
             n == BufSize(c)
             f == Fill[c]
  <2>6. b \in Seq(Byte) /\ n \in Nat /\ Len(b) >= n /\ f \in Seq(Byte) /\ Len(f) = n
        /\ \A k \in 1 .. n : b[k] = f[k]
    BY <2>3, <2>4, <2>5, Zenon DEF Stored
  <2> HIDE DEF b, n, f
  <2>7. \A i \in 1 .. n : b[i] \in Byte
    BY <2>6
  <2>8. /\ SubSeq(b, 1, n) \in Seq(Byte) /\ Len(SubSeq(b, 1, n)) = n
        /\ \A i \in 1 .. n : SubSeq(b, 1, n)[i] = b[i]
    BY <2>6, <2>7, SubSeqProperties
  <2>9. SubSeq(b, 1, n) = f
    BY <2>6, <2>8, SeqEqual
  <2> QED
    BY <2>3, <2>9, Zenon DEF b, n, f
<1> QED
  BY <1>1, TInvInductive, PTL

\* No two handlers access a byte at the same time while one of them writes it: a
\* client works in its own buffer, and its buffer is no other's.
THEOREM NoRaces == TSpec => []NoDataRace
<1>1. TInv => NoDataRace
  <2> SUFFICES ASSUME TInv, NEW c \in Clients, NEW d \in Clients, c # d,
                      Pending(c) \cap Pending(d) # {}
               PROVE  FALSE
    BY DEF NoDataRace
  <2>1. SInv /\ AInv /\ Asked(c) /\ Asked(d)
    BY DEF TInv
  <2>2. PICK x : x \in Pending(c) /\ x \in Pending(d)
    OBVIOUS
  <2>3. ASSUME NEW e \in Clients, Asked(e), x \in Pending(e)
        PROVE  x[1] = Mine(e) /\ Len(log[e]) >= 1
    <3>1. pc[e] = "copy" /\ x[1] = req(e).handle
      BY <2>3 DEF Pending
    <3>2. pc[e] \in Busy /\ req(e).op # "ALLOC"
      BY <2>1, <3>1 DEF Busy, SInv, Connection, Handled
    <3> QED
      BY <2>1, <2>3, <3>1, <3>2, OwnAccess
  <2>4. Mine(c) = Mine(d) /\ Len(log[c]) >= 1 /\ Len(log[d]) >= 1
    BY <2>1, <2>2, <2>3
  <2> QED
    BY <2>1, <2>4, BuffersApart
<1> QED
  BY <1>1, TInvInductive, PTL
=============================================================================
