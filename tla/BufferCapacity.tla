--------------------------- MODULE BufferCapacity ---------------------------
(***************************************************************************)
(* The capacity of the read buffer of a connection (bolt/src/buffer.rs and *)
(* read_next in bolt/src/codec.rs): every byte that is taken from the      *)
(* front of a BytesMut is also taken from its capacity, and regrow asks    *)
(* for it back after each message.  The bytes themselves, and what they    *)
(* decode to, are in BoltFraming; here a header may decode as soon as one  *)
(* byte of it is there.                                                    *)
(***************************************************************************)
EXTENDS Naturals

CONSTANTS initial_capacity,
          HeaderLens, BodyLens,  \* sizes of encoded headers and bodies
          ReadReserve,           \* what read_buf reserves when the buffer is full
          Capacities             \* capacities an allocation may end up with

ASSUME CapacityAssumption ==
    /\ initial_capacity \in Nat \ {0}
    /\ HeaderLens \subseteq Nat \ {0}
    /\ BodyLens \subseteq Nat
    /\ ReadReserve \in Nat \ {0}
    /\ Capacities \subseteq Nat

VARIABLES cap, len,   \* BytesMut::capacity() and len()
          header,     \* a header is decoded and its body is awaited
          length,     \* the length that header gives
          returned    \* read_next has just returned a message

vars == <<cap, len, header, length, returned>>

Init ==
    /\ cap = initial_capacity /\ len = 0
    /\ header = FALSE /\ length = 0
    /\ returned = FALSE

\* BytesMut::reserve: nothing if there is room for n more bytes, else a
\* reallocation (or a move to the front) that makes room.
reserve(c, l, n) ==
    IF c - l >= n THEN {c} ELSE {c2 \in Capacities : c2 >= l + n}

\* Mutant: no attempt to grow.
regrow_never(c, l) == {c}
\* checked_sub yields no value when the capacity exceeds the initial one.
regrow(c, l) ==
    IF c <= initial_capacity THEN reserve(c, l, initial_capacity - c) ELSE {c}

\* try_read_header on a buffer of l bytes: it takes a header off the front,
\* or leaves the buffer alone if there is none yet.
Header(l) == {[took |-> h, found |-> TRUE, length |-> b] :
                 h \in {x \in HeaderLens : x <= l}, b \in BodyLens}
try_read_header(l) == Header(l) \cup {[took |-> 0, found |-> FALSE, length |-> 0]}

Done == header /\ len >= length

\* One socket read, and the header if none is pending
read_buf ==
    /\ ~Done
    /\ \E c \in IF len = cap THEN reserve(cap, len, ReadReserve) ELSE {cap} :
       \E n \in 1 .. c - len :
          IF header
          THEN cap' = c /\ len' = len + n /\ UNCHANGED <<header, length>>
          ELSE \E h \in try_read_header(len + n) :
                  /\ cap' = c - h.took
                  /\ len' = len + n - h.took
                  /\ header' = h.found /\ length' = h.length
    /\ returned' = FALSE

\* Mutant: the body is taken although it is not all there.
TakeBody_early ==
    /\ header
    /\ \E h \in try_read_header(len) :
          /\ len' = len - length - h.took
          /\ cap' \in regrow(cap - length - h.took, len')
          /\ header' = h.found /\ length' = h.length
    /\ returned' = TRUE
\* read_from takes the body, the next header is read if bytes are left, and
\* the buffer is regrown.
TakeBody ==
    /\ Done
    /\ \E h \in try_read_header(len - length) :
          /\ len' = len - length - h.took
          /\ cap' \in regrow(cap - length - h.took, len')
          /\ header' = h.found /\ length' = h.length
    /\ returned' = TRUE

Next == read_buf \/ TakeBody

Spec == Init /\ [][Next]_vars

-----------------------------------------------------------------------------
(* Properties *)

TypeOK ==
    /\ cap \in Nat /\ len \in Nat /\ len <= cap
    /\ header \in BOOLEAN /\ length \in BodyLens \cup {0}
    /\ returned \in BOOLEAN

\* What regrow achieves: after each message the capacity is at least half way
\* between what is buffered and the initial capacity, so reading a long stream
\* of messages never wears the buffer down.  The capacity itself need not come
\* back: reserve does nothing when the missing amount is free.
HalfRegrown == returned => 2 * cap >= initial_capacity + len
=============================================================================
