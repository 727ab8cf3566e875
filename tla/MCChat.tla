------------------------------- MODULE MCChat -------------------------------
(* The two programs, with turns of any words that end within MaxWords.      *)
EXTENDS Chat
=============================================================================
