-------------------------- MODULE BoltFramingProofs --------------------------
(***************************************************************************)
(* Proofs about BoltFraming for any messages, lengths, u32 width and       *)
(* number of messages.                                                     *)
(***************************************************************************)
EXTENDS BoltFraming, TLAPS

Buffers == [received : Nat, consumed : Nat, header : MessageHeader \cup {NoHeader}]

\* The frames follow one another on the wire without gap or overlap.
WireInv ==
    /\ Boundary(1) = 0
    /\ \A i \in 1 .. Len(wire) : Boundary(i + 1) = End(i) /\ End(i) <= encoded
    /\ \A i, j \in 1 .. Len(wire) : i < j => End(i) <= wire[j].start

\* Without a header, the bytes of the next one are not all in the buffer.
HeaderPending(buf, n) ==
    buf.header = NoHeader /\ n <= Len(wire) => buf.received < BodyStart(n)

\* No call after an error, and a reported end of stream is final.
StatusInv ==
    /\ calling => status = "open"
    /\ status = "PeerDisconnectedGracefully" => closed /\ received = produced

IInv ==
    /\ TypeOK /\ WireInv /\ InOrder /\ Aligned
    /\ HeaderPending(Buffer, Following)
    /\ NoStall /\ BadFormatJustified /\ StatusInv /\ NothingLostAtEnd

-----------------------------------------------------------------------------
\* The `as u32` casts: what they leave alone, and their range.
LEMMA ModU32 ==
    ASSUME NEW a \in Nat
    PROVE  /\ a % U32 \in 0 .. U32 - 1 /\ a % U32 \in Nat
           /\ a % U32 <= a
           /\ a < U32 => a % U32 = a
  BY FramingAssumption, SMT DEF FramingAssumption

\* An element of a sequence over S is in S.
LEMMA ElementOfSeq ==
    ASSUME NEW S, NEW s \in Seq(S), NEW i \in 1 .. Len(s)
    PROVE  s[i] \in S
  OBVIOUS

\* The empty sequence is a sequence over S.
LEMMA EmptySeqInSeq ==
    ASSUME NEW S
    PROVE  <<>> \in Seq(S)
  OBVIOUS

\* Header, lengths and positions of a message on the wire.
LEMMA MessageTypes ==
    ASSUME TypeOK, NEW i \in 1 .. Len(wire)
    PROVE  /\ wire[i].msg \in Messages /\ wire[i].start \in Nat
           /\ HLen[wire[i].msg] \in Nat \ {0} /\ BLen[wire[i].msg] \in Nat \ {0}
           /\ Kind[wire[i].msg] \in Kinds
           /\ BodyStart(i) = wire[i].start + HLen[wire[i].msg]
           /\ End(i) = BodyStart(i) + BLen[wire[i].msg]
           /\ BodyStart(i) \in Nat /\ End(i) \in Nat
           /\ wire[i].start < BodyStart(i) /\ BodyStart(i) < End(i)
  <1>1. wire[i] \in [msg : Messages, start : Nat]
    <2>1. wire \in Seq([msg : Messages, start : Nat])
      BY DEF TypeOK
    <2> QED BY <2>1, ElementOfSeq
  <1>2. wire[i].msg \in Messages /\ wire[i].start \in Nat
    BY <1>1
  <1>3. /\ HLen[wire[i].msg] \in Nat \ {0} /\ BLen[wire[i].msg] \in Nat \ {0}
        /\ Kind[wire[i].msg] \in Kinds
    BY <1>2, FramingAssumption DEF FramingAssumption
  <1>4. /\ BodyStart(i) = wire[i].start + HLen[wire[i].msg]
        /\ End(i) = BodyStart(i) + BLen[wire[i].msg]
    BY DEF BodyStart, End
  <1> QED BY <1>2, <1>3, <1>4

\* No two messages start, and no two bodies start, at the same position.
LEMMA StartsDistinct ==
    ASSUME TypeOK, WireInv, NEW i \in 1 .. Len(wire), NEW j \in 1 .. Len(wire),
           wire[i].start = wire[j].start \/ BodyStart(i) = BodyStart(j)
    PROVE  i = j
  <1>1. ASSUME NEW k \in 1 .. Len(wire), NEW l \in 1 .. Len(wire), k < l
        PROVE  wire[k].start < wire[l].start /\ BodyStart(k) < BodyStart(l)
    <2>1. End(k) <= wire[l].start
      BY <1>1 DEF WireInv
    <2>2. /\ wire[k].start \in Nat /\ BodyStart(k) \in Nat /\ End(k) \in Nat
          /\ wire[k].start < BodyStart(k) /\ BodyStart(k) < End(k)
      BY MessageTypes
    <2>3. wire[l].start \in Nat /\ BodyStart(l) \in Nat /\ wire[l].start < BodyStart(l)
      BY MessageTypes
    <2> HIDE DEF BodyStart, End
    <2> QED BY <2>1, <2>2, <2>3, SMTT(30)
  <1> QED BY <1>1, MessageTypes

\* try_read_header on a buffer that is at the start of message n either decodes
\* its header or leaves the buffer alone because the header is incomplete.
LEMMA TryReadHeader ==
    ASSUME TypeOK, WireInv, NEW buf \in Buffers, NEW n \in Nat \ {0},
           n <= Len(wire) + 1,
           buf.header = NoHeader, AlignedAt(buf, n),
           buf.consumed <= buf.received, buf.received <= encoded
    PROVE  LET b == try_read_header(buf)
           IN  /\ b \in Buffers /\ b.received = buf.received
               /\ b.consumed <= b.received
               /\ AlignedAt(b, n) /\ HeaderPending(b, n)
  <1>1. buf.consumed = Boundary(n)
    BY DEF AlignedAt
  <1>2. CASE n <= Len(wire) /\ HLen[wire[n].msg] <= Buffered(buf)
    <2>1. n \in DOMAIN wire /\ wire[n].start = buf.consumed
      BY <1>1, <1>2 DEF Boundary, TypeOK
    <2>2. MessageStartingAt(buf.consumed) = n
      BY <2>1, StartsDistinct DEF MessageStartingAt, TypeOK
    <2>3. HeaderParses(buf)
      BY <2>1, <1>2 DEF HeaderParses
    <2> DEFINE m == wire[n].msg
    <2>4. try_read_header(buf) = [received |-> buf.received,
              consumed |-> buf.consumed + HLen[m],
              header   |-> [kind |-> Kind[m], length |-> BLen[m] % U32]]
      BY <2>2, <2>3 DEF try_read_header
    <2>5. /\ HLen[m] \in Nat /\ BLen[m] \in Nat /\ Kind[m] \in Kinds
          /\ BodyStart(n) = wire[n].start + HLen[m]
      BY <2>1, MessageTypes DEF TypeOK
    <2>6. [kind |-> Kind[m], length |-> BLen[m] % U32] \in MessageHeader
      BY <2>5, ModU32 DEF MessageHeader
    <2>7. [kind |-> Kind[m], length |-> BLen[m] % U32] # NoHeader
      BY <2>6, FramingAssumption DEF FramingAssumption
    <2>8. buf.consumed + HLen[m] <= buf.received
      BY <1>2, <2>5 DEF Buffered, Buffers
    <2> QED BY <1>2, <2>1, <2>4, <2>5, <2>6, <2>7, <2>8
            DEF Buffers, AlignedAt, HeaderPending
  <1>3. CASE ~(n <= Len(wire) /\ HLen[wire[n].msg] <= Buffered(buf))
    <2>1. ~HeaderParses(buf)
      <3> SUFFICES ASSUME NEW i \in DOMAIN wire, wire[i].start = buf.consumed,
                          HLen[wire[i].msg] <= Buffered(buf)
                   PROVE  FALSE
        BY DEF HeaderParses
      <3>1. i \in 1 .. Len(wire)
        BY DEF TypeOK
      <3>2. CASE n <= Len(wire)
        BY <3>1, <3>2, <1>1, <1>3, StartsDistinct DEF Boundary
      <3>3. CASE n > Len(wire)
        <4>1. wire[i].start = encoded
          BY <1>1, <3>3 DEF Boundary, TypeOK
        <4>2. End(i) <= encoded
          BY <3>1 DEF WireInv
        <4> QED BY <3>1, <4>1, <4>2, MessageTypes DEF TypeOK
      <3> QED BY <3>2, <3>3 DEF TypeOK
    <2>2. try_read_header(buf) = buf
      BY <2>1 DEF try_read_header
    <2>3. HeaderPending(buf, n)
      <3> SUFFICES ASSUME n <= Len(wire) PROVE buf.received < BodyStart(n)
        BY DEF HeaderPending
      <3>1. n \in 1 .. Len(wire)
        BY DEF TypeOK
      <3> QED BY <1>1, <1>3, <3>1, MessageTypes DEF Boundary, Buffered, Buffers
    <2> QED BY <2>2, <2>3
  <1> QED BY <1>2, <1>3

\* What follows a decoded body: the buffer is at the start, or at the body, of
\* message n + 1.
LEMMA PostRead ==
    ASSUME TypeOK, WireInv, NEW buf \in Buffers, NEW n \in 1 .. Len(wire),
           buf.header # NoHeader, AlignedAt(buf, n),
           buf.consumed <= buf.received, buf.received <= encoded,
           NEW i \in 1 .. Len(wire), read_from(buf, i)
    PROVE  LET b == post_read(buf, i)
           IN  /\ i = n
               /\ b \in Buffers /\ b.received = buf.received
               /\ b.consumed <= b.received
               /\ AlignedAt(b, n + 1) /\ HeaderPending(b, n + 1)
  <1>1. i = n
    BY StartsDistinct DEF AlignedAt, read_from
  <1> DEFINE rest == [buf EXCEPT !.consumed = @ + BLen[wire[i].msg],
                                 !.header = NoHeader]
  <1>2. /\ rest.received = buf.received
        /\ rest.consumed = buf.consumed + BLen[wire[i].msg]
        /\ rest.header = NoHeader
    BY DEF Buffers
  <1>3. /\ BLen[wire[i].msg] \in Nat
        /\ End(n) = BodyStart(n) + BLen[wire[n].msg]
    BY <1>1, MessageTypes
  <1>4. rest \in Buffers /\ rest.consumed <= rest.received
    <2>1. buf.consumed \in Nat /\ buf.received \in Nat
      BY DEF Buffers
    <2>2. buf.consumed + BLen[wire[i].msg] \in Nat
      BY <1>3, <2>1
    <2>3. rest \in Buffers
      BY <2>2 DEF Buffers
    <2>4. BLen[wire[i].msg] <= buf.received - buf.consumed
      BY DEF read_from, Buffered
    <2>5. rest.consumed <= rest.received
      BY <1>2, <1>3, <2>1, <2>4
    <2> QED BY <2>3, <2>5
  <1>5. rest.consumed = Boundary(n + 1)
    BY <1>1, <1>2, <1>3 DEF AlignedAt, WireInv
  <1>6. AlignedAt(rest, n + 1)
    BY <1>2, <1>5 DEF AlignedAt
  <1>7. n + 1 \in Nat \ {0} /\ n + 1 <= Len(wire) + 1
    BY DEF TypeOK
  <1> HIDE DEF rest
  <1>8. CASE Buffered(rest) > 0
    <2>1. post_read(buf, i) = try_read_header(rest)
      BY <1>8 DEF post_read, rest
    <2> QED BY <1>1, <1>2, <1>4, <1>6, <1>7, <2>1, TryReadHeader
  <1>9. CASE ~(Buffered(rest) > 0)
    <2>1. post_read(buf, i) = rest
      BY <1>9 DEF post_read, rest
    <2>2. rest.received = rest.consumed
      BY <1>4, <1>9 DEF Buffered, Buffers
    <2>3. HeaderPending(rest, n + 1)
      <3> SUFFICES ASSUME n + 1 <= Len(wire)
                   PROVE  rest.received < BodyStart(n + 1)
        BY DEF HeaderPending
      <3>1. n + 1 \in 1 .. Len(wire)
        BY <1>7 DEF TypeOK
      <3>2. rest.received = wire[n + 1].start
        BY <1>5, <2>2 DEF Boundary
      <3> QED BY <3>1, <3>2, MessageTypes
    <2> QED BY <1>1, <1>2, <1>4, <1>6, <2>1, <2>3
  <1> QED BY <1>8, <1>9

-----------------------------------------------------------------------------
\* The part of the invariant that only the buffer, its message number and the
\* wire determine, for a step of the reader that leaves the wire alone.
LEMMA ReaderFrame ==
    ASSUME IInv, UNCHANGED sender, NEW buf \in Buffers, SetBuffer(buf),
           received <= buf.received, buf.received <= produced,
           buf.consumed <= buf.received,
           NEW n \in Nat \ {0}, n = Len(delivered') + 1,
           AlignedAt(buf, n), HeaderPending(buf, n)
    PROVE  /\ WireInv' /\ Aligned' /\ HeaderPending(Buffer, Following)'
           /\ wire' \in Seq([msg : Messages, start : Nat])
           /\ encoded' \in Nat /\ produced' \in 0 .. encoded'
           /\ closed' \in BOOLEAN
           /\ received' \in 0 .. produced'
           /\ consumed' \in 0 .. received'
           /\ header' \in MessageHeader \cup {NoHeader}
  <1>1. /\ wire' = wire /\ encoded' = encoded /\ produced' = produced
        /\ closed' = closed
    BY DEF sender
  <1>2. /\ received' = buf.received /\ consumed' = buf.consumed
        /\ header' = buf.header
    BY DEF SetBuffer
  <1>3. WireInv'
    BY <1>1 DEF IInv, WireInv, Boundary, End, BodyStart
  <1>4. Aligned'
    BY <1>1, <1>2 DEF Aligned, AlignedAt, Buffer, Following, Boundary, BodyStart
  <1>5. HeaderPending(Buffer, Following)'
    BY <1>1, <1>2 DEF HeaderPending, Buffer, Following, BodyStart
  <1>6. /\ wire' \in Seq([msg : Messages, start : Nat])
        /\ encoded' \in Nat /\ produced' \in 0 .. encoded'
        /\ closed' \in BOOLEAN
    BY <1>1 DEF IInv, TypeOK
  <1>7. buf.received \in Nat /\ buf.consumed \in Nat /\ produced \in Nat
    BY DEF Buffers, IInv, TypeOK
  <1>8. received' \in 0 .. produced' /\ consumed' \in 0 .. received'
    BY <1>1, <1>2, <1>7
  <1>9. header' \in MessageHeader \cup {NoHeader}
    BY <1>2 DEF Buffers
  <1> QED BY <1>3, <1>4, <1>5, <1>6, <1>8, <1>9

\* A step of read_next on an aligned buffer keeps the invariant.
LEMMA ProceedStep ==
    ASSUME IInv, status = "open", UNCHANGED sender,
           NEW buf \in Buffers, Proceed(buf),
           received <= buf.received, buf.received <= produced,
           buf.consumed <= buf.received,
           AlignedAt(buf, Following), HeaderPending(buf, Following)
    PROVE  IInv'
  <1> DEFINE n == Following
  <1>1. /\ TypeOK /\ WireInv /\ InOrder
        /\ n \in Nat \ {0} /\ n = Len(delivered) + 1 /\ n <= Len(wire) + 1
        /\ Len(delivered) \in Nat /\ Len(wire) \in Nat
    BY DEF IInv, TypeOK, InOrder, Following
  <1>2. wire' = wire /\ encoded' = encoded /\ produced' = produced /\ closed' = closed
    BY DEF sender
  <1>3. buf.received \in Nat /\ buf.consumed \in Nat /\ Buffered(buf) \in Nat
        /\ Buffered(buf) = buf.received - buf.consumed
    BY DEF Buffers, Buffered
  <1>4. buf.received <= encoded
    BY <1>1, <1>3 DEF TypeOK
  <1>5. ASSUME n <= Len(wire)
        PROVE  /\ n \in 1 .. Len(wire)
               /\ BLen[wire[n].msg] \in Nat /\ BodyStart(n) \in Nat
               /\ End(n) = BodyStart(n) + BLen[wire[n].msg]
               /\ BodyStart(n) < End(n)
    BY <1>1, <1>5, MessageTypes
  <1>6. ASSUME buf.header # NoHeader
        PROVE  /\ n <= Len(wire) /\ buf.consumed = BodyStart(n)
               /\ buf.header.kind = Kind[wire[n].msg]
               /\ buf.header.length = BLen[wire[n].msg] % U32
    BY <1>6 DEF AlignedAt
  <1> HIDE DEF n
  <1>a. CASE /\ get_state(buf) # "Done" /\ SetBuffer(buf) /\ calling' = TRUE
             /\ UNCHANGED <<delivered, status>>
    <2>1. delivered' = delivered /\ status' = status /\ calling' = TRUE
      BY <1>a
    <2>2. /\ WireInv' /\ Aligned' /\ HeaderPending(Buffer, Following)'
          /\ wire' \in Seq([msg : Messages, start : Nat])
          /\ encoded' \in Nat /\ produced' \in 0 .. encoded'
          /\ closed' \in BOOLEAN
          /\ received' \in 0 .. produced'
          /\ consumed' \in 0 .. received'
          /\ header' \in MessageHeader \cup {NoHeader}
      BY <1>a, <1>1, <2>1, ReaderFrame DEF n
    <2>3. TypeOK'
      BY <1>1, <2>1, <2>2 DEF TypeOK
    <2>4. InOrder'
      BY <1>1, <1>2, <2>1 DEF InOrder
    <2>5. NoStall'
      <3> SUFFICES ASSUME n <= Len(wire), Buffered(buf) < U32
                   PROVE  buf.received < End(n)
        BY <1>a, <1>1, <1>2, <1>3, <2>1
        DEF NoStall, SetBuffer, Following, End, BodyStart, n
      <3>1. CASE buf.header = NoHeader
        BY <3>1, <1>3, <1>5 DEF HeaderPending, n
      <3>2. CASE buf.header # NoHeader
        <4>1. Buffered(buf) % U32 = Buffered(buf)
          BY <1>3, ModU32
        <4>2. ~(Buffered(buf) % U32 >= buf.header.length)
          BY <1>a, <3>2 DEF get_state
        <4>3. BLen[wire[n].msg] % U32 <= BLen[wire[n].msg]
              /\ BLen[wire[n].msg] % U32 \in Nat
          BY <1>5, ModU32
        <4> QED BY <4>1, <4>2, <4>3, <3>2, <1>3, <1>5, <1>6
      <3> QED BY <3>1, <3>2
    <2>6. BadFormatJustified' /\ StatusInv' /\ NothingLostAtEnd'
      BY <2>1 DEF BadFormatJustified, StatusInv, NothingLostAtEnd
    <2> QED BY <2>2, <2>3, <2>4, <2>5, <2>6 DEF IInv
  <1>b. ASSUME get_state(buf) = "Done", NEW i \in DOMAIN wire,
               read_from(buf, i), Return(wire[i].msg, post_read(buf, i))
        PROVE  IInv'
    <2>1. buf.header # NoHeader
      BY <1>b DEF get_state
    <2>2. i \in 1 .. Len(wire)
      BY <1>1, <1>b DEF TypeOK
    <2> DEFINE b == post_read(buf, i)
    <2>3. /\ i = n
          /\ b \in Buffers /\ b.received = buf.received
          /\ b.consumed <= b.received
          /\ AlignedAt(b, n + 1) /\ HeaderPending(b, n + 1)
      BY <1>1, <1>3, <1>4, <1>5, <1>6, <1>b, <2>1, <2>2, PostRead DEF n
    <2> HIDE DEF b
    <2>4. /\ SetBuffer(b) /\ delivered' = Append(delivered, wire[n].msg)
          /\ calling' = FALSE /\ status' = status
      BY <1>b, <2>3 DEF Return, b
    <2>5. wire[n].msg \in Messages /\ n <= Len(wire)
      BY <1>1, <2>2, <2>3, MessageTypes
    <2>6. /\ delivered' \in Seq(Messages) /\ Len(delivered') = n
          /\ \A k \in 1 .. Len(delivered) : delivered'[k] = delivered[k]
          /\ delivered'[n] = wire[n].msg
      BY <1>1, <2>4, <2>5 DEF TypeOK
    <2>7. /\ WireInv' /\ Aligned' /\ HeaderPending(Buffer, Following)'
          /\ wire' \in Seq([msg : Messages, start : Nat])
          /\ encoded' \in Nat /\ produced' \in 0 .. encoded'
          /\ closed' \in BOOLEAN
          /\ received' \in 0 .. produced'
          /\ consumed' \in 0 .. received'
          /\ header' \in MessageHeader \cup {NoHeader}
      <3>1. n + 1 \in Nat \ {0} /\ n + 1 = Len(delivered') + 1
        BY <1>1, <2>6
      <3> QED BY <2>3, <2>4, <3>1, ReaderFrame
    <2>8. TypeOK'
      BY <1>1, <2>4, <2>6, <2>7 DEF TypeOK
    <2>9. InOrder'
      BY <1>1, <1>2, <2>5, <2>6 DEF InOrder
    <2>10. NoStall' /\ BadFormatJustified' /\ StatusInv' /\ NothingLostAtEnd'
      BY <2>4 DEF NoStall, BadFormatJustified, StatusInv, NothingLostAtEnd
    <2> QED BY <2>7, <2>8, <2>9, <2>10 DEF IInv
  <1>c. CASE /\ get_state(buf) = "Done"
             /\ \A i \in DOMAIN wire : ~read_from(buf, i)
             /\ ReturnError("BadMessageFormat", buf)
    <2>1. /\ delivered' = delivered /\ status' = "BadMessageFormat"
          /\ calling' = FALSE /\ SetBuffer(buf)
      BY <1>c DEF ReturnError
    <2>2. /\ WireInv' /\ Aligned' /\ HeaderPending(Buffer, Following)'
          /\ wire' \in Seq([msg : Messages, start : Nat])
          /\ encoded' \in Nat /\ produced' \in 0 .. encoded'
          /\ closed' \in BOOLEAN
          /\ received' \in 0 .. produced'
          /\ consumed' \in 0 .. received'
          /\ header' \in MessageHeader \cup {NoHeader}
      BY <1>1, <2>1, ReaderFrame DEF n
    <2>3. TypeOK'
      BY <1>1, <2>1, <2>2 DEF TypeOK, Errors
    <2>4. InOrder'
      BY <1>1, <1>2, <2>1 DEF InOrder
    <2>5. buf.header # NoHeader
      BY <1>c DEF get_state
    <2>6. /\ n <= Len(wire)
          /\ Kind[wire[n].msg] \notin AcceptedKinds \/ BLen[wire[n].msg] >= U32
      <3>1. n \in DOMAIN wire /\ n <= Len(wire)
        BY <1>1, <1>5, <1>6, <2>5 DEF TypeOK
      <3>2. \/ Kind[wire[n].msg] \notin AcceptedKinds
            \/ ~(BLen[wire[n].msg] <= Buffered(buf))
        BY <1>c, <1>6, <2>5, <3>1 DEF read_from
      <3>3. Buffered(buf) % U32 >= BLen[wire[n].msg] % U32
        BY <1>c, <1>6, <2>5 DEF get_state
      <3>4. /\ Buffered(buf) % U32 \in Nat /\ Buffered(buf) % U32 <= Buffered(buf)
            /\ BLen[wire[n].msg] < U32
                 => BLen[wire[n].msg] % U32 = BLen[wire[n].msg]
        BY <1>3, <1>5, <3>1, ModU32
      <3> QED BY <3>1, <3>2, <3>3, <3>4, <1>3, <1>5, FramingAssumption, SMTT(30)
              DEF FramingAssumption
    <2>7. BadFormatJustified'
      BY <1>2, <2>1, <2>6 DEF BadFormatJustified, Following, n
    <2>8. NoStall' /\ StatusInv' /\ NothingLostAtEnd'
      BY <2>1 DEF NoStall, StatusInv, NothingLostAtEnd
    <2> QED BY <2>2, <2>3, <2>4, <2>7, <2>8 DEF IInv
  <1> QED BY <1>a, <1>b, <1>c DEF Proceed

-----------------------------------------------------------------------------
\* The initial buffer of BufferContext::new is aligned on an empty wire.
LEMMA InitIInv == Init => IInv
  <1> SUFFICES ASSUME Init PROVE IInv
    OBVIOUS
  <1>1. TypeOK
    <2>1. wire \in Seq([msg : Messages, start : Nat])
      BY EmptySeqInSeq DEF Init
    <2>2. delivered \in Seq(Messages)
      BY EmptySeqInSeq DEF Init
    <2>3. /\ encoded \in Nat /\ produced \in 0 .. encoded
          /\ received \in 0 .. produced /\ consumed \in 0 .. received
      BY DEF Init
    <2>4. /\ closed \in BOOLEAN /\ calling \in BOOLEAN
          /\ header \in MessageHeader \cup {NoHeader}
          /\ status \in {"open"} \cup Errors
      BY DEF Init
    <2> QED BY <2>1, <2>2, <2>3, <2>4 DEF TypeOK
  <1>2. Len(wire) = 0 /\ Len(delivered) = 0
    BY DEF Init
  <1>3. WireInv /\ InOrder
    BY <1>2 DEF Init, WireInv, InOrder, Boundary
  <1>4. Aligned /\ HeaderPending(Buffer, Following)
    BY <1>2 DEF Init, Aligned, AlignedAt, HeaderPending, Buffer, Following, Boundary
  <1>5. NoStall /\ BadFormatJustified /\ StatusInv /\ NothingLostAtEnd
    BY DEF Init, NoStall, BadFormatJustified, StatusInv, NothingLostAtEnd
  <1> QED BY <1>1, <1>3, <1>4, <1>5 DEF IInv

\* write_to appends a frame at the end of the wire; the reader is not affected.
LEMMA WriteStep ==
    ASSUME IInv, NEW m \in Messages, write_to(m)
    PROVE  IInv'
  <1> DEFINE f == [msg |-> m, start |-> encoded]
  <1>1. /\ wire' = Append(wire, f) /\ encoded' = encoded + HLen[m] + BLen[m]
        /\ produced' = produced /\ closed' = closed /\ received' = received
        /\ consumed' = consumed /\ header' = header /\ delivered' = delivered
        /\ calling' = calling /\ status' = status
        /\ produced = encoded /\ ~closed
    BY DEF write_to
  <1>2. TypeOK /\ WireInv /\ InOrder /\ Aligned /\ HeaderPending(Buffer, Following)
    BY DEF IInv
  <1>3. /\ HLen[m] \in Nat \ {0} /\ BLen[m] \in Nat \ {0}
        /\ f \in [msg : Messages, start : Nat]
    BY <1>2, FramingAssumption DEF FramingAssumption, TypeOK
  <1> DEFINE W == [msg : Messages, start : Nat]
  <1>4. /\ wire' \in Seq(W) /\ Len(wire') = Len(wire) + 1 /\ Len(wire) \in Nat
        /\ \A i \in 1 .. Len(wire) : wire'[i] = wire[i]
        /\ wire'[Len(wire) + 1] = f
    <2>1. wire \in Seq(W)
      BY <1>2 DEF TypeOK
    <2> HIDE DEF W, f
    <2> QED BY <1>1, <1>3, <2>1 DEF W
  <1>5. f.msg = m /\ f.start = encoded
    OBVIOUS
  <1> HIDE DEF f
  <1>6. /\ encoded \in Nat /\ encoded' \in Nat /\ encoded' > encoded
        /\ received \in Nat /\ received <= encoded
        /\ Len(delivered) \in Nat /\ Following = Len(delivered) + 1
        /\ Following <= Len(wire) + 1
    <2>1. encoded \in Nat /\ received \in Nat /\ received <= encoded
      BY <1>2 DEF TypeOK
    <2>2. encoded' \in Nat /\ encoded' > encoded
      BY <1>1, <1>3, <2>1
    <2>3. Len(delivered) \in Nat /\ Following = Len(delivered) + 1
      BY <1>2 DEF TypeOK, Following
    <2>4. Following <= Len(wire) + 1
      BY <1>2, <1>4, <2>3 DEF InOrder
    <2> QED BY <2>1, <2>2, <2>3, <2>4
  <1>7. TypeOK'
    <2>1. produced' \in 0 .. encoded'
      BY <1>1, <1>2, <1>6 DEF TypeOK
    <2> QED BY <1>1, <1>2, <1>4, <1>6, <2>1 DEF TypeOK
  <1>8. \A i \in 1 .. Len(wire) :
           BodyStart(i)' = BodyStart(i) /\ End(i)' = End(i)
    BY <1>4 DEF BodyStart, End
  <1>9. ASSUME NEW k \in Nat, k = Len(wire) + 1
        PROVE  BodyStart(k)' = encoded + HLen[m] /\ End(k)' = encoded'
    BY <1>1, <1>3, <1>4, <1>5, <1>6, <1>9 DEF BodyStart, End
  <1>10. \A i \in 1 .. Len(wire) + 1 : Boundary(i)' = Boundary(i)
    BY <1>4, <1>5 DEF Boundary
  <1>11. WireInv'
    <2>1. Boundary(1)' = 0
      BY <1>2, <1>4, <1>10 DEF WireInv
    <2>2. ASSUME NEW i \in 1 .. Len(wire')
          PROVE  Boundary(i + 1)' = End(i)' /\ End(i)' <= encoded'
      <3>1. CASE i <= Len(wire)
        <4>1. i \in 1 .. Len(wire) /\ i + 1 \in 1 .. Len(wire) + 1
          BY <3>1, <1>4
        <4>2. Boundary(i + 1) = End(i) /\ End(i) <= encoded
          BY <1>2, <4>1 DEF WireInv
        <4> QED BY <1>2, <1>6, <1>8, <1>10, <4>1, <4>2, MessageTypes
      <3>2. CASE i = Len(wire) + 1
        <4>1. End(i)' = encoded'
          BY <1>4, <1>9, <3>2
        <4>2. Boundary(i + 1)' = encoded'
          BY <1>4, <3>2 DEF Boundary
        <4> QED BY <1>6, <4>1, <4>2
      <3> QED BY <1>4, <3>1, <3>2
    <2>3. ASSUME NEW i \in 1 .. Len(wire'), NEW j \in 1 .. Len(wire'), i < j
          PROVE  End(i)' <= wire'[j].start
      <3>1. i \in 1 .. Len(wire)
        BY <1>4, <2>3
      <3>2. CASE j <= Len(wire)
        <4>1. j \in 1 .. Len(wire)
          BY <1>4, <3>2
        <4>2. End(i) <= wire[j].start
          BY <1>2, <2>3, <3>1, <4>1 DEF WireInv
        <4> QED BY <1>4, <1>8, <3>1, <4>1, <4>2
      <3>3. CASE j = Len(wire) + 1
        BY <1>2, <1>4, <1>5, <1>8, <3>1, <3>3 DEF WireInv
      <3> QED BY <1>4, <3>2, <3>3
    <2> QED BY <2>1, <2>2, <2>3 DEF WireInv
  <1>12. InOrder'
    <2>1. delivered' = delivered /\ Len(delivered) <= Len(wire)
      BY <1>1, <1>2 DEF InOrder
    <2>2. Len(delivered) <= Len(wire')
      BY <1>4, <1>6, <2>1
    <2>3. ASSUME NEW i \in 1 .. Len(delivered) PROVE delivered[i] = wire'[i].msg
      <3>1. i \in 1 .. Len(wire) /\ delivered[i] = wire[i].msg
        BY <1>2, <1>4, <1>6, <2>1 DEF InOrder
      <3> QED BY <1>4, <3>1
    <2> QED BY <2>1, <2>2, <2>3 DEF InOrder
  <1>13. Aligned'
    <2>1. Following \in 1 .. Len(wire) + 1
      BY <1>4, <1>6
    <2>2. Following' = Following /\ Buffer' = Buffer
      BY <1>1 DEF Following, Buffer
    <2>3. CASE header = NoHeader
      BY <1>1, <1>2, <1>10, <2>1, <2>2, <2>3 DEF Aligned, AlignedAt, Buffer
    <2>4. CASE header # NoHeader
      <3>1. /\ Following \in 1 .. Len(wire) /\ consumed = BodyStart(Following)
            /\ header = [kind   |-> Kind[wire[Following].msg],
                         length |-> BLen[wire[Following].msg] % U32]
        <4>1. Buffer.header = header /\ Buffer.consumed = consumed
          BY DEF Buffer
        <4>2. AlignedAt(Buffer, Following)
          BY <1>2 DEF Aligned
        <4>3. /\ Following <= Len(wire) /\ consumed = BodyStart(Following)
              /\ header = [kind   |-> Kind[wire[Following].msg],
                           length |-> BLen[wire[Following].msg] % U32]
          BY <2>4, <4>1, <4>2 DEF AlignedAt
        <4>4. Following \in 1 .. Len(wire)
          BY <1>4, <2>1, <4>3
        <4> QED BY <4>3, <4>4
      <3>2. Buffer'.header = header /\ Buffer'.consumed = consumed
        BY <2>2 DEF Buffer
      <3>3. /\ Following <= Len(wire') /\ wire'[Following] = wire[Following]
            /\ BodyStart(Following)' = BodyStart(Following)
        <4>1. /\ Following \in 1 .. Len(wire) /\ Len(wire) \in Nat
              /\ Len(wire') = Len(wire) + 1
          BY <1>4, <3>1
        <4>2. Following <= Len(wire')
          BY <4>1
        <4>3. wire'[Following] = wire[Following]
          BY <1>4, <4>1
        <4>4. BodyStart(Following)' = BodyStart(Following)
          BY <1>8, <2>2, <4>1
        <4> QED BY <4>2, <4>3, <4>4
      <3> QED BY <2>2, <2>4, <3>1, <3>2, <3>3 DEF Aligned, AlignedAt
    <2> QED BY <2>3, <2>4
  <1>14. ASSUME NEW n \in 1 .. Len(wire) + 1
         PROVE  \/ /\ n <= Len(wire) /\ wire'[n] = wire[n]
                   /\ BodyStart(n)' = BodyStart(n) /\ End(n)' = End(n)
                \/ /\ n > Len(wire)
                   /\ received < BodyStart(n)' /\ received < End(n)'
    <2>1. CASE n <= Len(wire)
      <3>1. n \in 1 .. Len(wire)
        BY <2>1, <1>4
      <3> QED BY <2>1, <3>1, <1>4, <1>8
    <2>2. CASE n > Len(wire)
      <3>1. n = Len(wire) + 1
        BY <1>4, <2>2
      <3>2. BodyStart(n)' = encoded + HLen[m] /\ End(n)' = encoded'
        BY <1>9, <3>1
      <3> QED BY <1>3, <1>6, <2>2, <3>2
    <2> QED BY <1>4, <2>1, <2>2
  <1>15. Following' = Following /\ Following \in 1 .. Len(wire) + 1
    BY <1>1, <1>4, <1>6 DEF Following
  <1>16. HeaderPending(Buffer, Following)'
    BY <1>1, <1>2, <1>14, <1>15 DEF HeaderPending, Buffer
  <1>17. NoStall'
    BY <1>1, <1>14, <1>15 DEF IInv, NoStall
  <1>18. BadFormatJustified'
    BY <1>1, <1>4, <1>6, <1>14, <1>15 DEF IInv, BadFormatJustified
  <1>19. StatusInv' /\ NothingLostAtEnd'
    BY <1>1 DEF IInv, StatusInv, NothingLostAtEnd
  <1> QED BY <1>7, <1>11, <1>12, <1>13, <1>16, <1>17, <1>18, <1>19 DEF IInv

\* Bytes that move into the socket, and a close, touch no other state.
LEMMA SenderStep ==
    ASSUME IInv, \/ \E n \in Chunk : Push(n)
                 \/ Close
    PROVE  IInv'
  <1>1. /\ wire' = wire /\ encoded' = encoded /\ received' = received
        /\ consumed' = consumed /\ header' = header /\ delivered' = delivered
        /\ calling' = calling /\ status' = status
        /\ ~closed
    BY DEF Push, Close
  <1>2. TypeOK'
    <2>1. produced' \in Nat /\ produced' >= produced /\ produced' <= encoded
      BY DEF Push, Close, Chunk, IInv, TypeOK
    <2>2. closed' \in BOOLEAN
      BY DEF Push, Close, IInv, TypeOK
    <2>3. produced' \in 0 .. encoded' /\ received' \in 0 .. produced'
      BY <1>1, <2>1 DEF IInv, TypeOK
    <2> QED BY <1>1, <2>2, <2>3 DEF IInv, TypeOK
  <1>3. WireInv' /\ InOrder'
    BY <1>1 DEF IInv, WireInv, InOrder, Boundary, End, BodyStart
  <1>4. Aligned' /\ HeaderPending(Buffer, Following)'
    BY <1>1 DEF IInv, Aligned, AlignedAt, HeaderPending, Buffer, Following,
                Boundary, BodyStart
  <1>5. NoStall' /\ BadFormatJustified'
    BY <1>1 DEF IInv, NoStall, BadFormatJustified, Following, End, BodyStart
  <1>6. StatusInv' /\ NothingLostAtEnd'
    BY <1>1 DEF IInv, StatusInv, NothingLostAtEnd
  <1> QED BY <1>2, <1>3, <1>4, <1>5, <1>6 DEF IInv

\* The current buffer satisfies the hypotheses of the lemmas on buffers.
LEMMA CurrentBuffer ==
    ASSUME IInv
    PROVE  /\ Buffer \in Buffers
           /\ Buffer.received = received /\ Buffer.consumed = consumed
           /\ Buffer.header = header
           /\ AlignedAt(Buffer, Following) /\ HeaderPending(Buffer, Following)
           /\ Following \in Nat \ {0} /\ Following <= Len(wire) + 1
           /\ received \in Nat /\ produced \in Nat /\ encoded \in Nat
           /\ consumed <= received /\ received <= produced /\ produced <= encoded
  BY DEF IInv, TypeOK, InOrder, Aligned, Following, Buffer, Buffers

\* A call of read_next.
LEMMA CallStep == ASSUME IInv, read_next PROVE IInv'
  BY CurrentBuffer, ProceedStep DEF read_next

\* The buffer after a read of n bytes, wherever it cuts the stream.
LEMMA AfterRead ==
    ASSUME IInv, NEW n \in Chunk, read_buf(n)
    PROVE  LET b == after_read(n)
           IN  /\ b \in Buffers /\ b.received = received + n
               /\ b.consumed <= b.received
               /\ AlignedAt(b, Following) /\ HeaderPending(b, Following)
  <1> DEFINE buf == [Buffer EXCEPT !.received = @ + n]
  <1>1. n \in Nat /\ received + n <= produced
    BY DEF read_buf, Chunk, IInv, TypeOK
  <1>2. /\ buf.received = received + n /\ buf.consumed = consumed
        /\ buf.header = header
    BY DEF Buffer
  <1>3. buf \in Buffers
    <2>1. received + n \in Nat
      BY <1>1, CurrentBuffer
    <2> QED BY <2>1, CurrentBuffer DEF Buffers
  <1>4. AlignedAt(buf, Following)
    BY <1>2, CurrentBuffer DEF AlignedAt
  <1>5. TypeOK /\ WireInv
    BY DEF IInv
  <1>6. buf.received <= encoded /\ buf.consumed <= buf.received
    <2>1. /\ received \in Nat /\ consumed \in Nat /\ produced \in Nat
          /\ encoded \in Nat /\ consumed <= received /\ produced <= encoded
      BY <1>5 DEF TypeOK
    <2> QED BY <1>1, <1>2, <2>1
  <1> HIDE DEF buf
  <1>7. CASE header = NoHeader
    <2>1. after_read(n) = try_read_header(buf)
      BY <1>7, CurrentBuffer DEF after_read, get_state, buf
    <2> QED BY <1>2, <1>3, <1>4, <1>5, <1>6, <1>7, <2>1, CurrentBuffer, TryReadHeader
  <1>8. CASE header # NoHeader
    <2>1. after_read(n) = buf
      BY <1>8, CurrentBuffer DEF after_read, get_state, buf
    <2>2. HeaderPending(buf, Following)
      BY <1>2, <1>8 DEF HeaderPending
    <2> QED BY <1>2, <1>3, <1>4, <1>6, <2>1, <2>2
  <1> QED BY <1>7, <1>8

\* A read of n bytes keeps the invariant.
LEMMA ReadStep == ASSUME IInv, NEW n \in Chunk, read_buf(n) PROVE IInv'
  <1>1. /\ n \in Nat /\ received + n <= produced /\ received \in Nat
        /\ UNCHANGED sender /\ Proceed(after_read(n)) /\ status = "open"
    BY DEF read_buf, Chunk, IInv, TypeOK, StatusInv
  <1>2. received <= received + n
    BY <1>1
  <1> QED BY <1>1, <1>2, AfterRead, ProceedStep

\* A read that returns 0 or fails.
LEMMA FailedReadStep == ASSUME IInv, PeerDisconnected \/ SocketError PROVE IInv'
  <1>1. /\ SetBuffer(Buffer) /\ delivered' = delivered /\ calling' = FALSE
        /\ UNCHANGED sender /\ calling /\ closed
        /\ \/ status' = "PeerDisconnectedGracefully" /\ received = produced
           \/ status' = "SocketReadError"
    BY DEF PeerDisconnected, SocketError, ReturnError
  <1>2. Following \in Nat \ {0} /\ Following = Len(delivered') + 1
    BY <1>1, CurrentBuffer DEF Following
  <1>3. /\ WireInv' /\ Aligned' /\ HeaderPending(Buffer, Following)'
        /\ wire' \in Seq([msg : Messages, start : Nat])
        /\ encoded' \in Nat /\ produced' \in 0 .. encoded'
        /\ closed' \in BOOLEAN
        /\ received' \in 0 .. produced'
        /\ consumed' \in 0 .. received'
        /\ header' \in MessageHeader \cup {NoHeader}
    <2>1. /\ Buffer \in Buffers /\ received <= Buffer.received
          /\ Buffer.received <= produced /\ Buffer.consumed <= Buffer.received
          /\ AlignedAt(Buffer, Following) /\ HeaderPending(Buffer, Following)
      BY CurrentBuffer
    <2> QED BY <1>1, <1>2, <2>1, ReaderFrame
  <1>4. TypeOK'
    BY <1>1, <1>3 DEF IInv, TypeOK, Errors
  <1>5. wire' = wire /\ produced' = produced /\ closed' = closed
        /\ received' = received /\ consumed' = consumed
    BY <1>1, CurrentBuffer DEF sender, SetBuffer
  <1>6. InOrder'
    BY <1>1, <1>5 DEF IInv, InOrder
  <1>7. NoStall' /\ BadFormatJustified' /\ StatusInv'
    BY <1>1, <1>5 DEF NoStall, BadFormatJustified, StatusInv
  <1>8. NothingLostAtEnd'
    <2>1. CASE status' = "SocketReadError"
      BY <2>1 DEF NothingLostAtEnd
    <2>2. CASE received = produced
      <3> SUFFICES ASSUME received - consumed < U32, ~(Following > Len(wire))
                   PROVE  produced < End(Following)
        BY <1>1, <1>5 DEF NothingLostAtEnd, Following, End, BodyStart
      <3>1. Following <= Len(wire)
        BY CurrentBuffer DEF IInv, TypeOK
      <3> QED BY <1>1, <2>2, <3>1 DEF IInv, NoStall
    <2> QED BY <1>1, <2>1, <2>2
  <1> QED BY <1>3, <1>4, <1>6, <1>7, <1>8 DEF IInv

\* Every step keeps the inductive invariant.
LEMMA NextIInv == IInv /\ [Next]_vars => IInv'
  <1> SUFFICES ASSUME IInv, [Next]_vars PROVE IInv'
    OBVIOUS
  <1>1. CASE \E m \in Messages : write_to(m)
    BY <1>1, WriteStep
  <1>2. CASE (\E n \in Chunk : Push(n)) \/ Close
    BY <1>2, SenderStep
  <1>3. CASE read_next
    BY <1>3, CallStep
  <1>4. CASE \E n \in Chunk : read_buf(n)
    BY <1>4, ReadStep
  <1>5. CASE PeerDisconnected \/ SocketError
    BY <1>5, FailedReadStep
  <1>6. CASE UNCHANGED vars
    BY <1>6 DEF vars, IInv, TypeOK, WireInv, InOrder, Aligned, AlignedAt,
                HeaderPending, NoStall, BadFormatJustified, StatusInv,
                NothingLostAtEnd, Buffer, Following, Boundary, End, BodyStart
  <1> QED BY <1>1, <1>2, <1>3, <1>4, <1>5, <1>6 DEF Next

\* IInv holds in every reachable state of the bolt reader and writer.
LEMMA Invariance == Spec => []IInv
  BY InitIInv, NextIInv, PTL DEF Spec

\* The reader's counters stay ordered (consumed <= received <= produced <=
\* encoded), whatever the messages and the reads.
THEOREM Typing == Spec => []TypeOK
  BY Invariance, PTL DEF IInv

\* read_next returns what write_to wrote, in order, once each.
THEOREM Ordering == Spec => []InOrder
  BY Invariance, PTL DEF IInv

\* The reader is always at a message boundary or at the body of the header it
\* has decoded, even when `as u32` truncates a length.
THEOREM Alignment == Spec => []Aligned
  BY Invariance, PTL DEF IInv

\* read_next never waits for bytes while it has the whole next message.
THEOREM NeverStalls == Spec => []NoStall
  BY Invariance, PTL DEF IInv

\* BadMessageFormat is only ever the sender's doing.
THEOREM BadFormat == Spec => []BadFormatJustified
  BY Invariance, PTL DEF IInv

\* The end of the stream is reported after the last complete message.
THEOREM EndAfterLast == Spec => []NothingLostAtEnd
  BY Invariance, PTL DEF IInv

-----------------------------------------------------------------------------
(* BoltFraming implements the safety part of MessageChannel. *)

\* The messages of the frames on the wire, in order: the abstract log.
Log == [i \in DOMAIN wire |-> wire[i].msg]

\* The abstract log is a sequence of messages as long as the wire.
LEMMA LogTypes ==
    ASSUME TypeOK
    PROVE  /\ Log \in Seq(Messages) /\ Len(Log) = Len(wire)
           /\ \A i \in 1 .. Len(wire) : Log[i] = wire[i].msg
  <1>1. DOMAIN wire = 1 .. Len(wire) /\ Len(wire) \in Nat
    BY DEF TypeOK
  <1>2. \A i \in 1 .. Len(wire) : wire[i].msg \in Messages
    BY MessageTypes
  <1> QED BY <1>1, <1>2 DEF Log

\* A frame appended to the wire is a message appended to the log.
LEMMA LogAppend ==
    ASSUME IInv, NEW m \in Messages, write_to(m)
    PROVE  Log' = Append(Log, m)
  <1> DEFINE f == [msg |-> m, start |-> encoded]
  <1>1. wire' = Append(wire, f) /\ TypeOK /\ TypeOK'
    BY WriteStep DEF write_to, IInv
  <1>2. f.msg = m
    OBVIOUS
  <1>3. wire \in Seq([msg : Messages, start : Nat]) /\ f \in [msg : Messages, start : Nat]
    BY <1>1 DEF TypeOK
  <1> HIDE DEF f
  <1>4. /\ Len(wire') = Len(wire) + 1 /\ Len(wire) \in Nat
        /\ \A i \in 1 .. Len(wire) : wire'[i] = wire[i]
        /\ wire'[Len(wire) + 1] = f
    BY <1>1, <1>3
  <1>5. /\ Log' \in Seq(Messages) /\ Len(Log') = Len(wire')
        /\ \A i \in 1 .. Len(wire') : Log'[i] = wire'[i].msg
    <2>1. DOMAIN wire' = 1 .. Len(wire') /\ Len(wire') \in Nat
      BY <1>1 DEF TypeOK
    <2>2. \A i \in 1 .. Len(wire') : wire'[i].msg \in Messages
      BY <1>2, <1>4, <1>1, MessageTypes
    <2> QED BY <2>1, <2>2 DEF Log
  <1>6. /\ Log \in Seq(Messages) /\ Len(Log) = Len(wire)
        /\ \A i \in 1 .. Len(wire) : Log[i] = wire[i].msg
    BY <1>1, LogTypes
  <1>7. Append(Log, m) \in Seq(Messages) /\ Len(Append(Log, m)) = Len(wire')
    BY <1>4, <1>6
  <1>8. \A i \in 1 .. Len(wire') : Log'[i] = Append(Log, m)[i]
    BY <1>2, <1>4, <1>5, <1>6
  <1> QED BY <1>5, <1>7, <1>8

\* A step of read_next returns the next message of the log, reports an error or
\* goes on waiting.
LEMMA ProceedReturns ==
    ASSUME IInv, NEW buf \in Buffers, Proceed(buf), AlignedAt(buf, Following)
    PROVE  \/ delivered' = delivered /\ status' = status
           \/ /\ status' = status /\ Following <= Len(wire)
              /\ delivered' = Append(delivered, wire[Following].msg)
           \/ delivered' = delivered /\ status' \in Errors
  <1>1. CASE get_state(buf) # "Done" /\ UNCHANGED <<delivered, status>>
    BY <1>1
  <1>2. ASSUME get_state(buf) = "Done", NEW i \in DOMAIN wire,
               read_from(buf, i), Return(wire[i].msg, post_read(buf, i))
        PROVE  /\ status' = status /\ Following <= Len(wire)
               /\ delivered' = Append(delivered, wire[Following].msg)
    <2>1. buf.header # NoHeader
      BY <1>2 DEF get_state
    <2>2. Following <= Len(wire) /\ BodyStart(Following) = BodyStart(i)
      BY <1>2, <2>1 DEF AlignedAt, read_from
    <2>3. Following \in 1 .. Len(wire) /\ i \in 1 .. Len(wire)
      BY <1>2, <2>2, CurrentBuffer DEF IInv, TypeOK
    <2>4. i = Following
      BY <2>2, <2>3, StartsDistinct DEF IInv
    <2> QED BY <1>2, <2>2, <2>4 DEF Return
  <1>3. CASE ReturnError("BadMessageFormat", buf)
    BY <1>3 DEF ReturnError, Errors
  <1> QED BY <1>1, <1>2, <1>3 DEF Proceed

\* The reader's steps are receptions, failures or stuttering of the channel.
LEMMA ReaderRefines ==
    ASSUME IInv, status = "open", wire' = wire,
           \/ delivered' = delivered /\ status' = status
           \/ /\ status' = status /\ Following <= Len(wire)
              /\ delivered' = Append(delivered, wire[Following].msg)
           \/ delivered' = delivered /\ status' \in Errors
    PROVE  [Channel!Next]_(Channel!vars)
  <1>1. Log' = Log
    BY DEF Log
  <1>2. /\ Len(Log) = Len(wire) /\ Len(delivered) \in Nat /\ Len(wire) \in Nat
        /\ Following = Len(delivered) + 1
        /\ \A i \in 1 .. Len(wire) : Log[i] = wire[i].msg
    BY LogTypes DEF IInv, TypeOK, Following
  <1>3. CASE delivered' = delivered /\ status' = status
    BY <1>1, <1>3 DEF Channel!vars, Log
  <1>4. CASE /\ status' = status /\ Following <= Len(wire)
             /\ delivered' = Append(delivered, wire[Following].msg)
    <2>1. /\ Len(delivered) < Len(Log)
          /\ delivered' = Append(delivered, Log[Len(delivered) + 1])
      BY <1>2, <1>4
    <2>2. Channel!Receive
      BY <1>1, <1>4, <2>1 DEF Channel!Receive, Log
    <2> QED BY <2>2 DEF Channel!Next
  <1>5. CASE delivered' = delivered /\ status' \in Errors
    <2>1. Channel!Fail
      BY <1>1, <1>5 DEF Channel!Fail, Log, Errors
    <2> QED BY <2>1 DEF Channel!Next
  <1> QED BY <1>3, <1>4, <1>5

\* Every step of the framing is a step of the channel or leaves it unchanged.
LEMMA StepRefines == IInv /\ [Next]_vars => [Channel!Next]_(Channel!vars)
  <1> SUFFICES ASSUME IInv, [Next]_vars PROVE [Channel!Next]_(Channel!vars)
    OBVIOUS
  <1>1. ASSUME NEW m \in Messages, write_to(m)
        PROVE  [Channel!Next]_(Channel!vars)
    <2>1. Log' = Append(Log, m)
      BY <1>1, LogAppend
    <2>2. Len(Log) < MaxSent /\ delivered' = delivered /\ status' = status
      BY <1>1, LogTypes DEF write_to, IInv
    <2>3. Channel!Send(m)
      BY <2>1, <2>2 DEF Channel!Send, Log
    <2> QED BY <2>3 DEF Channel!Next
  <1>2. CASE (\E n \in Chunk : Push(n)) \/ Close \/ UNCHANGED vars
    <2>1. wire' = wire /\ delivered' = delivered /\ status' = status
      BY <1>2 DEF Push, Close, vars
    <2> QED BY <2>1 DEF Channel!vars
  <1>3. CASE read_next
    <2>1. wire' = wire /\ status = "open" /\ Proceed(Buffer)
      BY <1>3 DEF read_next, sender
    <2> QED BY <2>1, CurrentBuffer, ProceedReturns, ReaderRefines
  <1>4. ASSUME NEW n \in Chunk, read_buf(n)
        PROVE  [Channel!Next]_(Channel!vars)
    <2>1. wire' = wire /\ status = "open" /\ Proceed(after_read(n))
      BY <1>4 DEF read_buf, sender, IInv, StatusInv
    <2>2. after_read(n) \in Buffers /\ AlignedAt(after_read(n), Following)
      BY <1>4, AfterRead
    <2> QED BY <2>1, <2>2, ProceedReturns, ReaderRefines
  <1>5. CASE PeerDisconnected \/ SocketError
    <2>1. /\ wire' = wire /\ status = "open" /\ delivered' = delivered
          /\ status' \in Errors
      BY <1>5 DEF PeerDisconnected, SocketError, ReturnError, Errors, sender,
                  IInv, StatusInv
    <2> QED BY <2>1, ReaderRefines
  <1> QED BY <1>1, <1>2, <1>3, <1>4, <1>5 DEF Next

\* The byte stream with read_next and write_to behaves like a channel of whole
\* messages: sends append to the log, returns take its next element, errors end
\* it.  (That a sent message is returned or an error reported in the end is a
\* liveness property, left to model checking.)
THEOREM ChannelSafety == Spec => Channel!Init /\ [][Channel!Next]_(Channel!vars)
  <1>1. Init => Channel!Init
    BY DEF Init, Channel!Init
  <1> QED BY <1>1, Invariance, StepRefines, PTL DEF Spec
=============================================================================
