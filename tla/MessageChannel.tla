--------------------------- MODULE MessageChannel ---------------------------
(***************************************************************************)
(* What one direction of a bolt connection promises its users: whole       *)
(* messages, in the order they were sent, until the connection ends.       *)
(* BoltFraming shows that length-prefixed frames over a byte stream keep   *)
(* this promise; PageServer relies on it.                                  *)
(***************************************************************************)
EXTENDS Naturals, Sequences

CONSTANTS Messages, MaxSent   \* bound on the number of messages sent

VARIABLES log,     \* every message handed to the sender, in order
          got,     \* every message returned to the receiver, in order
          ended    \* the receiver was told that the connection is over

vars == <<log, got, ended>>

Init == log = <<>> /\ got = <<>> /\ ended = FALSE

Send(m) ==
    /\ Len(log) < MaxSent
    /\ log' = Append(log, m)
    /\ UNCHANGED <<got, ended>>

Receive ==
    /\ ~ended
    /\ Len(got) < Len(log)
    /\ got' = Append(got, log[Len(got) + 1])
    /\ UNCHANGED <<log, ended>>

Fail ==
    /\ ~ended
    /\ ended' = TRUE
    /\ UNCHANGED <<log, got>>

Next == (\E m \in Messages : Send(m)) \/ Receive \/ Fail

\* A message that was sent is received unless the connection ends.
Spec == Init /\ [][Next]_vars /\ WF_vars(Receive \/ (Fail /\ Len(got) < Len(log)))
=============================================================================
