---------------------------- MODULE MCPageServer ----------------------------
(* Instances of PageServer.  With pages of 2 bytes an allocation of 3 bytes *)
(* maps 4, and with 16 values of a u64 an offset of 15 makes offset + 2      *)
(* wrap.  Handle 0 does not exist before the first allocation.              *)
EXTENDS PageServer, TLC

AllocReq(n) == [op |-> "ALLOC", size |-> n]
WriteReq(h, o, b) == [op |-> "WRITE", handle |-> h, offset |-> o, buf |-> b]
ReadReq(h, o, n) == [op |-> "READ", handle |-> h, offset |-> o, len |-> n]
CallReq(h) == [op |-> "CALL", handle |-> h]

\* Valid, out of range by one, and wrapping accesses
AllRequests == {AllocReq(3), AllocReq(0),
                WriteReq(0, 2, <<1, 2>>), WriteReq(0, 3, <<1, 2>>), WriteReq(0, 15, <<1, 2>>),
                ReadReq(0, 2, 2), ReadReq(0, 3, 2), ReadReq(0, 15, 2),
                CallReq(0)}

FewRequests == {AllocReq(1), WriteReq(0, 0, <<1>>), ReadReq(0, 15, 2), CallReq(0)}

Symmetry == Permutations(Clients)

SharedBuffer == {AllocReq(2), WriteReq(0, 0, <<1, 2>>), ReadReq(0, 0, 2)}
=============================================================================
