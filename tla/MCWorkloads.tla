---------------------------- MODULE MCWorkloads -----------------------------
(* The microbenchmarks side by side: each behaviour is one of the programs. *)
(* The variables of the others keep the values NotRun gives them.           *)
EXTENDS Sorting, MerkleTree, Bfs, Dijkstra, DynamicArray, Sums

VARIABLE running

Programs == {"sorting", "merkle", "bfs", "dijkstra", "array", "sums"}

(* Directed graphs of three vertices and undirected ones of four *)
Pairs(m) == {p \in (0 .. m - 1) \X (0 .. m - 1) : p[1] < p[2]}
Directed(m, W) ==
    {[i \in 0 .. m - 1 |-> [j \in 0 .. m - 1 |-> IF i = j THEN 0 ELSE w[<<i, j>>]]] :
        w \in [{p \in (0 .. m - 1) \X (0 .. m - 1) : p[1] # p[2]} -> W]}
Undirected(m, W) ==
    {[i \in 0 .. m - 1 |-> [j \in 0 .. m - 1 |->
        IF i = j THEN 0 ELSE IF i < j THEN w[<<i, j>>] ELSE w[<<j, i>>]]] :
            w \in [Pairs(m) -> W]}
MCMatrices == [m \in {1, 2, 3, 4} |->
                 IF m = 4 THEN Undirected(4, {0, 1, 3}) ELSE Directed(m, {0, 1, 3})]

MCInts == -2 .. 3

NotRun(p) ==
    CASE p = "sorting" -> /\ algorithm = "none" /\ arr = <<>> /\ input = <<>> /\ phase = "off"
      [] p = "merkle" -> /\ block_count = 0 /\ data = <<>> /\ created = <<>>
                         /\ root = NoTree /\ user_input = <<>> /\ prompt = "off"
      [] p = "bfs" -> /\ adjLists = <<>> /\ visited = {} /\ edges = 0 /\ q = createQueue
                      /\ temp = <<>> /\ seen = <<>> /\ search = "off"
      [] p = "dijkstra" -> /\ n = 0 /\ G = <<>> /\ startnode = 0 /\ distance = <<>>
                           /\ pred = <<>> /\ marked = {} /\ count = 0
                           /\ nextnode = NoNext /\ path = "off"
      [] p = "array" -> /\ size = 0 /\ counter = 0 /\ pointer = <<>> /\ number = 0
                        /\ element = 0
      [] p = "sums" -> /\ function = "sum" /\ array = <<>> /\ idx = 0 /\ new_val = 0
                       /\ result = 0 /\ loop = "off"

WInit ==
    /\ running \in Programs
    /\ IF running = "sorting" THEN Init ELSE NotRun("sorting")
    /\ IF running = "merkle" THEN MInit ELSE NotRun("merkle")
    /\ IF running = "bfs" THEN BInit ELSE NotRun("bfs")
    /\ IF running = "dijkstra" THEN DInit ELSE NotRun("dijkstra")
    /\ IF running = "array" THEN initArray ELSE NotRun("array")
    /\ IF running = "sums" THEN SInit ELSE NotRun("sums")

WNext ==
    \/ running = "sorting" /\ Next /\ UNCHANGED <<running, mvars, bvars, dvars, avars, svars>>
    \/ running = "merkle" /\ MNext /\ UNCHANGED <<running, vars, bvars, dvars, avars, svars>>
    \/ running = "bfs" /\ BNext /\ UNCHANGED <<running, vars, mvars, dvars, avars, svars>>
    \/ running = "dijkstra" /\ DNext /\ UNCHANGED <<running, vars, mvars, bvars, avars, svars>>
    \/ running = "array" /\ Add /\ UNCHANGED <<running, vars, mvars, bvars, dvars, svars>>
    \/ running = "sums" /\ Recompute /\ UNCHANGED <<running, vars, mvars, bvars, dvars, avars>>

WSpec == WInit /\ [][WNext]_<<running, vars, mvars, bvars, dvars, avars, svars>>
=============================================================================
