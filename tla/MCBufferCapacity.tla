-------------------------- MODULE MCBufferCapacity --------------------------
(* A buffer of eight bytes; messages from two to eleven bytes; allocations  *)
(* of at most MaxCapacity bytes.                                            *)
EXTENDS BufferCapacity
CONSTANT MaxCapacity
MCCapacities == 0 .. MaxCapacity
=============================================================================
