----------------------------- MODULE MCSorting ------------------------------
(* All arrays of up to MaxLen elements over few values, so that equal       *)
(* elements, odd halves and empty arrays occur.                             *)
EXTENDS Sorting
=============================================================================
