---------------------------- MODULE MCThroughput ----------------------------
(* Two clients with chunks of two bytes.  c1 has three bytes, so its second *)
(* chunk is partial and its buffer larger than what it asked for; c2 has    *)
(* one chunk, like alloc_example.  The server is told to listen on 9090 or  *)
(* on another port, and either may be in use.                               *)
EXTENDS Throughput, TLC

CONSTANTS c1, c2

MCFill == c1 :> <<1, 2, 1>> @@ c2 :> <<2, 1>>

MCRequests ==
    [op : {"ALLOC"}, size : {2, 3}]
    \cup [op : {"WRITE"}, handle : 0 .. 1, offset : {0, 2},
          buf : {<<1, 2>>, <<1>>, <<2, 1>>}]
    \cup [op : {"READ"}, handle : 0 .. 1, offset : {0, 2}, len : {1, 2}]
=============================================================================
