----------------------------- MODULE BoltFraming -----------------------------
(***************************************************************************)
(* One direction of a bolt connection (userfaultfd_rs/bolt): write_to on   *)
(* the sending side, read_next with its BufferContext on the receiving     *)
(* side, and the TCP byte stream between them.                             *)
(*                                                                         *)
(* A byte is represented by its position in the stream.  The receiver's    *)
(* BytesMut holds the positions consumed .. received - 1, the kernel and   *)
(* the network hold received .. produced - 1.  A message is                *)
(* a header of HLen bytes and a body of BLen bytes.                        *)
(***************************************************************************)
EXTENDS Integers, Sequences

CONSTANTS Messages,      \* the messages the sender may send
          Kinds,         \* the values of MessageHeader.kind
          Kind,          \* Kind[m]: the kind of message m
          HLen, BLen,    \* encoded length of m's header and of its body
          AcceptedKinds, \* the kinds R::read_from has a match arm for
          U32,           \* the number of values of a u32
          MaxSent,       \* bound on the number of messages sent
          NoHeader       \* None, for header_with_target

\* header.length is a u32, and so is what get_state compares it with
MessageHeader == [kind : Kinds, length : 0 .. U32 - 1]

ASSUME FramingAssumption ==
    /\ U32 \in Nat \ {0}
    /\ MaxSent \in Nat
    /\ Kind \in [Messages -> Kinds]
    /\ HLen \in [Messages -> Nat \ {0}]
    /\ BLen \in [Messages -> Nat \ {0}]
    /\ AcceptedKinds \subseteq Kinds
    /\ NoHeader \notin MessageHeader

VARIABLES wire,      \* the messages encoded so far and where each one starts
          encoded,   \* bytes handed to write_all
          produced,  \* bytes the socket has taken from the sender
          closed,    \* the sender closed (or lost) its end
          received,  \* bytes read_buf has put into the buffer
          consumed,  \* bytes the buffer has been advanced over
          header,    \* ctx.header_with_target
          delivered, \* the messages read_next has returned, in order
          calling,   \* a call of read_next is in progress
          status     \* "open", or the error that read_next returned

vars == <<wire, encoded, produced, closed, received, consumed, header,
          delivered, calling, status>>

sender == <<wire, encoded, produced, closed>>

Errors == {"PeerDisconnectedGracefully", "SocketReadError", "BadMessageFormat"}

\* Where the body of the i-th message starts, and where the message ends
BodyStart(i) == wire[i].start + HLen[wire[i].msg]
End(i) == BodyStart(i) + BLen[wire[i].msg]

Init ==
    /\ wire = <<>> /\ encoded = 0 /\ produced = 0 /\ closed = FALSE
    /\ received = 0 /\ consumed = 0 /\ header = NoHeader
    /\ delivered = <<>> /\ calling = FALSE /\ status = "open"

-----------------------------------------------------------------------------
(* The sender *)

\* A call of write_to: the header and the body are serialised and handed to
\* write_all one after the other.  Calls do not overlap: each is awaited, the
\* server's under the socket_write mutex.
write_to(m) ==
    /\ ~closed
    /\ produced = encoded
    /\ Len(wire) < MaxSent
    /\ wire' = Append(wire, [msg |-> m, start |-> encoded])
    /\ encoded' = encoded + HLen[m] + BLen[m]
    /\ UNCHANGED <<produced, closed, received, consumed, header, delivered,
                   calling, status>>

\* The socket accepts some of the bytes write_all still has to write.
Push(n) ==
    /\ ~closed
    /\ produced + n <= encoded
    /\ produced' = produced + n
    /\ UNCHANGED <<wire, encoded, closed, received, consumed, header,
                   delivered, calling, status>>

\* The sender drops its half of the socket, possibly in the middle of a message.
Close ==
    /\ ~closed
    /\ closed' = TRUE
    /\ UNCHANGED <<wire, encoded, produced, received, consumed, header,
                   delivered, calling, status>>

-----------------------------------------------------------------------------
(* The receiver.  buf = [received, consumed, header] is a BufferContext.    *)

Buffer == [received |-> received, consumed |-> consumed, header |-> header]

Buffered(buf) == buf.received - buf.consumed

\* serde's derived decoder finds a whole header at the front of the buffer.
\* Elsewhere than at the start of a message nothing is known of the bytes;
\* the receiver is never there (Aligned).
HeaderParses(buf) ==
    \E i \in DOMAIN wire : /\ wire[i].start = buf.consumed
                           /\ HLen[wire[i].msg] <= Buffered(buf)

MessageStartingAt(pos) == CHOOSE i \in DOMAIN wire : wire[i].start = pos

\* Mutant: a failed parse consumes the bytes it looked at.
try_read_header_drops(buf) ==
    IF HeaderParses(buf)
    THEN LET m == wire[MessageStartingAt(buf.consumed)].msg
         IN  [received |-> buf.received,
              consumed |-> buf.consumed + HLen[m],
              header   |-> [kind |-> Kind[m], length |-> BLen[m] % U32]]
    ELSE [buf EXCEPT !.consumed = buf.received]

\* On a parse error nothing is consumed and the header stays as it is.
try_read_header(buf) ==
    IF HeaderParses(buf)
    THEN LET m == wire[MessageStartingAt(buf.consumed)].msg
         IN  [received |-> buf.received,
              consumed |-> buf.consumed + HLen[m],
              header   |-> [kind |-> Kind[m], length |-> BLen[m] % U32]]
    ELSE buf

\* Mutant: the body counts as complete one byte early.
get_state_early(buf) ==
    LET pos == Buffered(buf) % U32
    IN  IF buf.header = NoHeader
        THEN IF pos = 0 THEN "Empty" ELSE "WaitHeader"
        ELSE IF pos + 1 >= buf.header.length THEN "Done" ELSE "WaitData"

get_state(buf) ==
    LET pos == Buffered(buf) % U32
    IN  IF buf.header = NoHeader
        THEN IF pos = 0 THEN "Empty" ELSE "WaitHeader"
        ELSE IF pos >= buf.header.length THEN "Done" ELSE "WaitData"

\* R::read_from succeeds on the i-th message: its kind has a match arm and the
\* whole body is in the buffer.  The length field of the header plays no part.
read_from(buf, i) ==
    /\ BodyStart(i) = buf.consumed
    /\ Kind[wire[i].msg] = buf.header.kind
    /\ buf.header.kind \in AcceptedKinds
    /\ BLen[wire[i].msg] <= Buffered(buf)

\* Mutants: the next header is not looked for; the buffer is cleared; the old
\* header is kept; the header's length is advanced over a second time.
post_read_lazy(buf, i) ==
    [buf EXCEPT !.consumed = @ + BLen[wire[i].msg], !.header = NoHeader]
post_read_clear(buf, i) ==
    [buf EXCEPT !.consumed = buf.received, !.header = NoHeader]
post_read_stale(buf, i) ==
    LET rest == [buf EXCEPT !.consumed = @ + BLen[wire[i].msg]]
    IN  IF Buffered(rest) > 0 THEN try_read_header(rest) ELSE rest
post_read_overrun(buf, i) ==
    LET rest == [buf EXCEPT !.consumed = @ + BLen[wire[i].msg] + HLen[wire[i].msg],
                            !.header = NoHeader]
    IN  IF Buffered(rest) > 0 THEN try_read_header(rest) ELSE rest

\* After a message: forget its header and look for the next one.
post_read(buf, i) ==
    LET rest == [buf EXCEPT !.consumed = @ + BLen[wire[i].msg],
                            !.header = NoHeader]
    IN  IF Buffered(rest) > 0 THEN try_read_header(rest) ELSE rest

SetBuffer(buf) ==
    /\ received' = buf.received
    /\ consumed' = buf.consumed
    /\ header' = buf.header

\* The rest of the loop body once the state is known, up to the next await on
\* the socket or the return.
Return(m, buf) ==
    /\ SetBuffer(buf)
    /\ delivered' = Append(delivered, m)
    /\ calling' = FALSE
    /\ UNCHANGED status

ReturnError(e, buf) ==
    /\ SetBuffer(buf)
    /\ status' = e
    /\ calling' = FALSE
    /\ UNCHANGED delivered

Proceed(buf) ==
    \/ /\ get_state(buf) # "Done"
       /\ SetBuffer(buf)
       /\ calling' = TRUE
       /\ UNCHANGED <<delivered, status>>
    \/ /\ get_state(buf) = "Done"
       /\ \E i \in DOMAIN wire :
             read_from(buf, i) /\ Return(wire[i].msg, post_read(buf, i))
    \/ /\ get_state(buf) = "Done"
       /\ \A i \in DOMAIN wire : ~read_from(buf, i)
       /\ ReturnError("BadMessageFormat", buf)

\* read_next is called; it returns at once when the buffer already holds the
\* body the header announces.  No caller calls again after an error.
read_next ==
    /\ ~calling
    /\ status = "open"
    /\ Proceed(Buffer)
    /\ UNCHANGED sender

\* read_buf returns n bytes.  The header is tried only when the state before
\* the read had none.
after_read(n) ==
    LET buf == [Buffer EXCEPT !.received = @ + n]
    IN  IF get_state(Buffer) \in {"Empty", "WaitHeader"}
        THEN try_read_header(buf)
        ELSE buf

read_buf(n) ==
    /\ calling
    /\ received + n <= produced
    /\ Proceed(after_read(n))
    /\ UNCHANGED sender

\* read_buf returns 0: the peer closed and everything it sent has been read.
PeerDisconnected ==
    /\ calling
    /\ closed
    /\ received = produced
    /\ ReturnError("PeerDisconnectedGracefully", Buffer)
    /\ UNCHANGED sender

\* read_buf fails: the connection was reset.
SocketError ==
    /\ calling
    /\ closed
    /\ ReturnError("SocketReadError", Buffer)
    /\ UNCHANGED sender

-----------------------------------------------------------------------------
Chunk == 1 .. encoded

Reader == read_next \/ (\E n \in Chunk : read_buf(n)) \/ PeerDisconnected

Next ==
    \/ \E m \in Messages : write_to(m)
    \/ \E n \in Chunk : Push(n)
    \/ Close
    \/ read_next
    \/ \E n \in Chunk : read_buf(n)
    \/ PeerDisconnected
    \/ SocketError

\* The tokio tasks on both sides are polled again once their sockets are ready,
\* and the receiver's loop calls read_next again after each message.
Fairness == WF_vars(\E n \in Chunk : Push(n)) /\ WF_vars(Reader)

Spec == Init /\ [][Next]_vars /\ Fairness

-----------------------------------------------------------------------------
(* Properties *)

TypeOK ==
    /\ wire \in Seq([msg : Messages, start : Nat])
    /\ encoded \in Nat /\ produced \in 0 .. encoded
    /\ closed \in BOOLEAN
    /\ received \in 0 .. produced
    /\ consumed \in 0 .. received
    /\ header \in MessageHeader \cup {NoHeader}
    /\ delivered \in Seq(Messages)
    /\ calling \in BOOLEAN
    /\ status \in {"open"} \cup Errors

Following == Len(delivered) + 1

\* read_next returns the messages that were written, in order, none dropped,
\* none twice, whatever the chunks read_buf returns and wherever they split.
InOrder ==
    /\ Len(delivered) <= Len(wire)
    /\ \A i \in 1 .. Len(delivered) : delivered[i] = wire[i].msg

\* The position where the n-th message starts or will start
Boundary(n) == IF n <= Len(wire) THEN wire[n].start ELSE encoded

\* The buffer is where the n-th message starts, or where its body starts if its
\* header has been decoded.
AlignedAt(buf, n) ==
    IF buf.header = NoHeader
    THEN buf.consumed = Boundary(n)
    ELSE /\ n <= Len(wire)
         /\ buf.consumed = BodyStart(n)
         /\ buf.header = [kind   |-> Kind[wire[n].msg],
                          length |-> BLen[wire[n].msg] % U32]

\* try_read_header and read_from leave the buffer at the next undelivered
\* message, never inside a header or a body.
Aligned == AlignedAt(Buffer, Following)

\* read_next never awaits the socket while the next message is entirely in the
\* buffer (as long as the buffer's length fits the u32 get_state casts it to).
\* The peer may be waiting for the answer, and then no byte would ever come.
NoStall ==
    calling /\ Following <= Len(wire) /\ received - consumed < U32
        => received < End(Following)

\* BadMessageFormat means that the next message has a kind read_from does not
\* know, or a body whose length write_to truncated; no split of a well-formed
\* message into reads causes it.
BadFormatJustified ==
    status = "BadMessageFormat"
        => /\ Following <= Len(wire)
           /\ \/ Kind[wire[Following].msg] \notin AcceptedKinds
              \/ BLen[wire[Following].msg] >= U32

\* When the end of the stream is reported, every message that the sender wrote
\* in full has been returned before.
NothingLostAtEnd ==
    status = "PeerDisconnectedGracefully" /\ received - consumed < U32
        => Following > Len(wire) \/ produced < End(Following)

\* Frames over a byte stream implement a channel of whole messages, liveness
\* included: a message that was sent is returned or the reader gets an error.
Channel == INSTANCE MessageChannel
    WITH log   <- [i \in DOMAIN wire |-> wire[i].msg],
         got   <- delivered,
         ended <- status # "open"

ImplementsChannel == Channel!Spec
=============================================================================
