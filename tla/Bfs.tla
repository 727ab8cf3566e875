-------------------------------- MODULE Bfs ---------------------------------
(***************************************************************************)
(* The breadth-first search workload (microbenchmarks/graphs/bfs): SIZE    *)
(* random edges between SIZE vertices, then a search from vertex 0 with a  *)
(* queue in an array of SIZE items, whose front room is reused only once   *)
(* the queue is empty.  The ends of an edge are drawn from 0 .. SIZE       *)
(* (rand() % 101 for SIZE = 100); vertex SIZE is outside both arrays, and  *)
(* what an access to it does depends on the allocator: it may reach memory *)
(* that is spare and zero, so that SIZE is one more vertex, or anything.   *)
(***************************************************************************)
EXTENDS Integers, Sequences

CONSTANT SIZE

ASSUME BfsAssumption == SIZE \in Nat \ {0}

Vertices == 0 .. SIZE

VARIABLES adjLists, visited,
          edges,      \* edges added so far
          q,          \* the queue
          temp,       \* the neighbours of currentVertex still to look at
          seen,       \* the vertices printed as visited, in order
          search      \* "graph", "bfs", "done" or "undefined"

bvars == <<adjLists, visited, edges, q, temp, seen, search>>

createQueue == [items |-> [i \in 0 .. SIZE - 1 |-> 0], front |-> -1, rear |-> -1]

isEmpty == q.rear = -1

\* Mutant: the last item is not used.
isFull_early == q.rear = SIZE - 2
isFull == q.rear = SIZE - 1

\* A value that does not fit is dropped with a message.
enqueue(v) ==
    IF isFull THEN q
    ELSE [items |-> [q.items EXCEPT ![q.rear + 1] = v],
          front |-> IF q.front = -1 THEN 0 ELSE q.front,
          rear |-> q.rear + 1]

dequeue == IF q.front + 1 > q.rear THEN [q EXCEPT !.front = -1, !.rear = -1]
                                   ELSE [q EXCEPT !.front = @ + 1]

BInit ==
    /\ adjLists = [v \in Vertices |-> <<>>] /\ visited = {} /\ edges = 0
    /\ q = createQueue /\ temp = <<>> /\ seen = <<>> /\ search = "graph"

\* New nodes go to the front of both lists.
addEdge(src, dest) ==
    /\ search = "graph" /\ edges < SIZE
    /\ edges' = edges + 1
    /\ \/ /\ LET one == [adjLists EXCEPT ![src] = <<dest>> \o @]
             IN  adjLists' = [one EXCEPT ![dest] = <<src>> \o @]
          /\ UNCHANGED search
       \/ SIZE \in {src, dest} /\ search' = "undefined" /\ UNCHANGED adjLists
    /\ UNCHANGED <<visited, q, temp, seen>>

Start ==
    /\ search = "graph" /\ edges = SIZE
    /\ search' = "bfs" /\ visited' = {0} /\ q' = enqueue(0)
    /\ UNCHANGED <<adjLists, edges, temp, seen>>

Visit ==
    /\ search = "bfs" /\ temp = <<>>
    /\ IF isEmpty
       THEN search' = "done" /\ UNCHANGED <<q, temp, seen>>
       ELSE LET currentVertex == q.items[q.front]
            IN  /\ q' = dequeue
                /\ seen' = Append(seen, currentVertex)
                /\ temp' = adjLists[currentVertex]
                /\ UNCHANGED search
    /\ UNCHANGED <<adjLists, visited, edges>>

Neighbour ==
    /\ search = "bfs" /\ temp # <<>>
    /\ temp' = Tail(temp)
    /\ IF Head(temp) \in visited
       THEN UNCHANGED <<visited, q>>
       ELSE visited' = visited \cup {Head(temp)} /\ q' = enqueue(Head(temp))
    /\ UNCHANGED <<adjLists, edges, seen, search>>

BNext == Start \/ Visit \/ Neighbour \/ \E src, dest \in Vertices : addEdge(src, dest)

BSpec == BInit /\ [][BNext]_bvars

-----------------------------------------------------------------------------
(* Properties *)

Closed(S) == 0 \in S /\ \A v \in S : \A i \in DOMAIN adjLists[v] : adjLists[v][i] \in S

\* The search prints every vertex that can be reached from 0, and none twice:
\* no vertex is dropped because the queue is full, although its front room is
\* not reused and vertex SIZE may be one too many: 0 leaves before the others
\* come.
ReachesAll ==
    search = "done" =>
        LET S == {seen[i] : i \in DOMAIN seen}
        IN  /\ Closed(S) /\ \A R \in SUBSET S : Closed(R) => R = S
            /\ \A i, j \in DOMAIN seen : seen[i] = seen[j] => i = j
=============================================================================
