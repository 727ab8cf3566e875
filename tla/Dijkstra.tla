------------------------------ MODULE Dijkstra ------------------------------
(***************************************************************************)
(* The shortest path workload (microbenchmarks/graphs/sssp): Dijkstra's    *)
(* algorithm on an adjacency matrix that the user types in, in which 0     *)
(* means that there is no edge.                                            *)
(***************************************************************************)
EXTENDS Integers, FiniteSetsExt

CONSTANTS Matrices,   \* Matrices[n]: the matrices tried with n vertices
          INFINITY

\* Edges are lighter than INFINITY.
ASSUME MatrixAssumption ==
    /\ INFINITY \in Nat \ {0} /\ DOMAIN Matrices \subseteq Nat \ {0}
    /\ \A m \in DOMAIN Matrices :
          Matrices[m] \subseteq [0 .. m - 1 -> [0 .. m - 1 -> 0 .. INFINITY - 1]]

VARIABLES n, G, startnode, distance, pred, marked, count,
          nextnode,   \* NoNext until it is first assigned
          path        \* "input", "search", "done" or "undefined"

dvars == <<n, G, startnode, distance, pred, marked, count, nextnode, path>>

Graph == 0 .. n - 1
NoNext == -1
weight(w) == IF w = 0 THEN INFINITY ELSE w
cost(i, j) == weight(G[i][j])

DInit ==
    /\ n \in DOMAIN Matrices /\ G \in Matrices[n] /\ startnode \in Graph
    /\ distance = [i \in Graph |-> INFINITY] /\ pred = [i \in Graph |-> startnode]
    /\ marked = {} /\ count = 0 /\ nextnode = NoNext /\ path = "input"

Begin ==
    /\ path = "input" /\ path' = "search"
    /\ distance' = [i \in Graph |-> IF i = startnode THEN 0 ELSE cost(startnode, i)]
    /\ marked' = {startnode} /\ count' = 1
    /\ UNCHANGED <<n, G, startnode, pred, nextnode>>

\* The loop takes in all vertices but the last.  Mutant: it stops one earlier.
More_less == count < n - 2
More == count < n - 1

\* The vertices among which the first loop finds the nearest
Near == {i \in Graph \ marked : distance[i] < INFINITY}

mindistance == Min({distance[i] : i \in Near} \cup {INFINITY})

\* What nextnode may be after that loop.  If no vertex is near it is what it was:
\* uninitialised in the first round, where it may be a vertex or lie outside
\* visited (NoNext).
Nearest ==
    IF Near # {} THEN {Min({i \in Near : distance[i] = mindistance})}
    ELSE IF nextnode = NoNext THEN Graph \cup {NoNext}
    ELSE {nextnode}

\* One round of the loop
Round ==
    /\ path = "search" /\ More
    /\ nextnode' \in Nearest
    /\ IF nextnode' = NoNext
       THEN path' = "undefined" /\ UNCHANGED <<marked, distance, pred, count>>
       ELSE LET through(i) == mindistance + cost(nextnode', i)
                better == {i \in Graph \ marked' : through(i) < distance[i]}
            IN  /\ marked' = marked \cup {nextnode'} /\ count' = count + 1
                /\ distance' = [i \in Graph |-> IF i \in better THEN through(i) ELSE distance[i]]
                /\ pred' = [i \in Graph |-> IF i \in better THEN nextnode' ELSE pred[i]]
                /\ UNCHANGED path
    /\ UNCHANGED <<n, G, startnode>>

\* The paths are printed.
Finish ==
    /\ path = "search" /\ ~More /\ path' = "done"
    /\ UNCHANGED <<n, G, startnode, distance, pred, marked, count, nextnode>>

DNext == Begin \/ Round \/ Finish

DSpec == DInit /\ [][DNext]_dvars

-----------------------------------------------------------------------------
(* Properties *)

\* Within(m, g, s)[k][i]: the length of a shortest path of at most k edges from s
\* to i in the graph g of m vertices
Within(m, g, s) ==
    LET V == 0 .. m - 1
        W[k \in 0 .. m] ==
            IF k = 0 THEN [i \in V |-> IF i = s THEN 0 ELSE INFINITY]
            ELSE [i \in V |-> Min({W[k - 1][i]} \cup {W[k - 1][j] + weight(g[j][i]) : j \in V})]
    IN  W

\* The distances printed are those of shortest paths, although the last vertex
\* is never taken; and following pred from a vertex with a distance goes along
\* edges whose costs add up to it, so the loop that prints the path ends.  Only
\* for a start without edges among three or more vertices may the search go wrong:
\* nextnode is then read uninitialised.
ShortestPaths ==
    /\ path = "done" =>
          \A i \in Graph :
              /\ distance[i] = Min({INFINITY, Within(n, G, startnode)[n][i]})
              /\ i # startnode /\ distance[i] < INFINITY
                    => G[pred[i]][i] > 0 /\ distance[pred[i]] + G[pred[i]][i] = distance[i]
              /\ distance[i] = INFINITY => pred[i] = startnode
    /\ path = "undefined" => n > 2 /\ \A i \in Graph \ {startnode} : G[startnode][i] = 0
=============================================================================
