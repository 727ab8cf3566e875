--------------------------- MODULE MCBoltFraming ---------------------------
(* Small instances of BoltFraming.  "call" has no match arm in             *)
(* RequestBodyOwned::read_from, the other two kinds do.                     *)
EXTENDS BoltFraming

MCMessages == {"alloc", "write", "call"}
MCKinds == {"ALLOC", "WRITE", "CALL"}
MCKind == [m \in MCMessages |->
             CASE m = "alloc" -> "ALLOC" [] m = "write" -> "WRITE" [] m = "call" -> "CALL"]
MCHLen == [m \in MCMessages |-> IF m = "alloc" THEN 1 ELSE 2]
MCBLen == [m \in MCMessages |-> IF m = "write" THEN 3 ELSE 1]
MCAccepted == {"ALLOC", "WRITE"}
=============================================================================
