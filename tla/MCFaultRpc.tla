----------------------------- MODULE MCFaultRpc -----------------------------
(* Instances of FaultRpc: threads that share the buffers without ever      *)
(* dropping the page, as in the C++ server, and one caller that does, as in *)
(* the C++ client.                                                          *)
EXTENDS FaultRpc
=============================================================================
