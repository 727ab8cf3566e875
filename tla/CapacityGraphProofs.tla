------------------------ MODULE CapacityGraphProofs -------------------------
(***************************************************************************)
(* What fits, for all sizes: the read buffer keeps half of its capacity    *)
(* for every mix of message sizes and every allocator, the dynamic array   *)
(* grows in time, and the queue of the breadth-first search never fills    *)
(* up, so that the search is complete.  And, in every matrix, Dijkstra's   *)
(* algorithm finds shortest paths.                                         *)
(***************************************************************************)
EXTENDS BufferCapacity, DynamicArray, Bfs, Dijkstra, FiniteSetTheorems,
        SequenceTheorems, WellFoundedInduction, TLAPS

(* The read buffer.  HalfRegrown is inductive with TypeOK, whose len <= cap *)
(* keeps the subtractions meaningful.                                       *)

\* BytesMut::reserve makes room and never shrinks the buffer.
LEMMA Reserve ==
    ASSUME NEW c \in Nat, NEW l \in Nat, l <= c, NEW k \in Nat,
           NEW c2 \in reserve(c, l, k)
    PROVE  c2 \in Nat /\ c2 >= c /\ c2 >= l + k
BY CapacityAssumption DEF reserve

\* regrow leaves at least the mean of the initial capacity and the length.
LEMMA Regrow ==
    ASSUME NEW c \in Nat, NEW l \in Nat, l <= c, NEW c2 \in regrow(c, l)
    PROVE  c2 \in Nat /\ l <= c2 /\ 2 * c2 >= initial_capacity + l
<1>1. CASE c <= initial_capacity
  <2>1. initial_capacity - c \in Nat
    BY <1>1, CapacityAssumption
  <2>2. c2 \in reserve(c, l, initial_capacity - c)
    BY <1>1 DEF regrow
  <2>3. c2 \in Nat /\ c2 >= c /\ c2 >= l + (initial_capacity - c)
    BY <2>1, <2>2, Reserve
  <2> QED BY <2>3, CapacityAssumption
<1>2. CASE ~(c <= initial_capacity)
  BY <1>2, CapacityAssumption DEF regrow
<1> QED BY <1>1, <1>2

\* try_read_header takes no more than the buffer holds.
LEMMA TryReadHeader ==
    ASSUME NEW l \in Nat, NEW h \in try_read_header(l)
    PROVE  /\ h.took \in Nat /\ h.took <= l
           /\ h.found \in BOOLEAN /\ h.length \in BodyLens \cup {0}
<1>1. CASE h \in Header(l)
  <2>1. PICK x \in {y \in HeaderLens : y <= l}, b \in BodyLens :
           h = [took |-> x, found |-> TRUE, length |-> b]
    BY <1>1 DEF Header
  <2>2. h.took = x /\ h.found = TRUE /\ h.length = b
    BY <2>1
  <2> QED BY <2>1, <2>2, CapacityAssumption
<1>2. CASE h = [took |-> 0, found |-> FALSE, length |-> 0]
  <2>1. h.took = 0 /\ h.found = FALSE /\ h.length = 0
    BY <1>2
  <2>2. h.took \in Nat /\ h.took <= l
    BY <2>1
  <2>3. h.found \in BOOLEAN /\ h.length \in BodyLens \cup {0}
    BY <2>1, Zenon
  <2> QED BY <2>2, <2>3
<1> QED BY <1>1, <1>2 DEF try_read_header

\* A socket read keeps the types; read_next has not returned yet.
LEMMA ReadStep == ASSUME TypeOK, read_buf PROVE TypeOK' /\ HalfRegrown'
<1>1. PICK c \in IF len = cap THEN reserve(cap, len, ReadReserve) ELSE {cap} :
        \E k \in 1 .. c - len :
          IF header
          THEN cap' = c /\ len' = len + k /\ UNCHANGED <<header, length>>
          ELSE \E h \in try_read_header(len + k) :
                  /\ cap' = c - h.took
                  /\ len' = len + k - h.took
                  /\ header' = h.found /\ length' = h.length
  BY DEF read_buf
<1>2. c \in Nat /\ len <= c /\ len \in Nat
  BY <1>1, Reserve, CapacityAssumption DEF TypeOK
<1>3. PICK k \in 1 .. c - len :
          IF header
          THEN cap' = c /\ len' = len + k /\ UNCHANGED <<header, length>>
          ELSE \E h \in try_read_header(len + k) :
                  /\ cap' = c - h.took
                  /\ len' = len + k - h.took
                  /\ header' = h.found /\ length' = h.length
  BY <1>1
<1>4. k \in Nat /\ len + k \in Nat /\ len + k <= c
  BY <1>2, <1>3
<1>5. returned' = FALSE
  BY DEF read_buf
<1>6. CASE header
  BY <1>2, <1>3, <1>4, <1>5, <1>6, Zenon DEF TypeOK, HalfRegrown
<1>7. CASE ~header
  <2>1. PICK h \in try_read_header(len + k) :
                  /\ cap' = c - h.took
                  /\ len' = len + k - h.took
                  /\ header' = h.found /\ length' = h.length
    BY <1>3, <1>7
  <2>2. /\ h.took \in Nat /\ h.took <= len + k
        /\ h.found \in BOOLEAN /\ h.length \in BodyLens \cup {0}
    BY <1>4, <2>1, TryReadHeader
  <2>3. cap' \in Nat /\ len' \in Nat /\ len' <= cap'
    BY <1>2, <1>4, <2>1, <2>2
  <2> QED BY <1>5, <2>1, <2>2, <2>3, Zenon DEF TypeOK, HalfRegrown
<1> QED BY <1>6, <1>7

\* Returning a message ends with regrow.
LEMMA BodyStep == ASSUME TypeOK, TakeBody PROVE TypeOK' /\ HalfRegrown'
<1>1. PICK h \in try_read_header(len - length) :
          /\ len' = len - length - h.took
          /\ cap' \in regrow(cap - length - h.took, len')
          /\ header' = h.found /\ length' = h.length
  BY DEF TakeBody
<1>2. length \in Nat /\ len - length \in Nat /\ cap - length \in Nat
      /\ len - length <= cap - length
  BY CapacityAssumption DEF TypeOK, TakeBody, Done
<1>3. /\ h.took \in Nat /\ h.took <= len - length
      /\ h.found \in BOOLEAN /\ h.length \in BodyLens \cup {0}
  BY <1>1, <1>2, TryReadHeader
<1>4. len' \in Nat /\ cap - length - h.took \in Nat /\ len' <= cap - length - h.took
  BY <1>1, <1>2, <1>3
<1>5. cap' \in Nat /\ len' <= cap' /\ 2 * cap' >= initial_capacity + len'
  BY <1>1, <1>4, Regrow
<1>6. returned' = TRUE
  BY DEF TakeBody
<1> QED BY <1>1, <1>3, <1>4, <1>5, <1>6 DEF TypeOK, HalfRegrown

\* TypeOK and HalfRegrown together are inductive.
LEMMA Invariance == Spec => [](TypeOK /\ HalfRegrown)
<1>1. Init => TypeOK /\ HalfRegrown
  <2> SUFFICES ASSUME Init PROVE TypeOK /\ HalfRegrown
    OBVIOUS
  <2>1. returned = FALSE /\ header = FALSE /\ length = 0
    BY DEF Init
  <2>2. cap \in Nat /\ len \in Nat /\ len <= cap
    BY CapacityAssumption DEF Init
  <2> QED BY <2>1, <2>2, Zenon DEF TypeOK, HalfRegrown
<1>2. TypeOK /\ HalfRegrown /\ [Next]_vars => (TypeOK /\ HalfRegrown)'
  <2> SUFFICES ASSUME TypeOK, HalfRegrown, [Next]_vars
               PROVE  (TypeOK /\ HalfRegrown)'
    OBVIOUS
  <2>1. CASE read_buf
    BY <2>1, ReadStep
  <2>2. CASE TakeBody
    BY <2>2, BodyStep
  <2>3. CASE UNCHANGED vars
    BY <2>3 DEF vars, TypeOK, HalfRegrown
  <2> QED BY <2>1, <2>2, <2>3 DEF Next
<1> QED BY <1>1, <1>2, PTL DEF Spec

\* The read buffer keeps at least half of the capacity it was created with
\* (BufferContext::regrow), whatever was received and however BytesMut grows.
THEOREM CapacityKept == Spec => []HalfRegrown
BY Invariance, PTL

\* The bytes in the buffer never exceed its capacity: a message and the header
\* after it are taken only out of bytes that have been read.
THEOREM CapacityTypeCorrect == Spec => []TypeOK
BY Invariance, PTL

-----------------------------------------------------------------------------
(* The dynamic array *)

\* The memory at pointer has room for just the size elements
AInv ==
    /\ size \in Nat \ {0} /\ counter \in Nat
    /\ DOMAIN pointer = 0 .. size - 1
    /\ PrintsAdded

\* The array starts empty.
LEMMA AInvInit == initArray => AInv
  BY ArrayAssumption DEF initArray, AInv, PrintsAdded

\* addElement writes inside the memory, after a resize if the array is full.
LEMMA AInvAdd == AInv /\ Add => AInv'
<1> SUFFICES ASSUME AInv, Add PROVE AInv'
  OBVIOUS
<1>1. /\ size' \in Nat \ {0} /\ counter \in Nat /\ counter' \in Nat
     /\ counter < size' /\ counter' = counter + 1
  BY DEF AInv, Add, Full, PrintsAdded
<1>2. DOMAIN pointer' = 0 .. size' - 1 /\ pointer'[counter] = number'
  <2>1. CASE Full
    BY <1>1, <2>1 DEF AInv, Add, resizeArray
  <2>2. CASE ~Full
    BY <1>1, <2>2 DEF AInv, Add
  <2> QED
    BY <2>1, <2>2
<1>3. PrintsAdded'
  <2>1. element' = IF counter' = size' THEN -1 ELSE number'
    BY <1>1, <1>2 DEF Add, getElement
  <2>2. counter' - 1 = counter
    BY <1>1
  <2>3. pointer'[counter' - 1] = number'
    BY <1>2, <2>2
  <2>4. counter' <= size'
    BY <1>1
  <2> QED
    BY <2>1, <2>3, <2>4 DEF PrintsAdded
<1> QED
  BY <1>1, <1>2, <1>3 DEF AInv

\* Every number added is stored where getElement looks for it, also by the
\* addElement that resizes the array, and printed, unless it fills the array.
THEOREM Prints == ASpec => []PrintsAdded
<1>1. AInv /\ [Add]_avars => AInv'
  <2>1. AInv /\ UNCHANGED avars => AInv'
    BY DEF AInv, PrintsAdded, avars
  <2> QED
    BY <2>1, AInvAdd
<1>2. AInv => PrintsAdded
  BY DEF AInv
<1> QED
  BY AInvInit, <1>1, <1>2, PTL DEF ASpec

-----------------------------------------------------------------------------
(* Breadth-first search *)

Elems(s) == {s[i] : i \in 1 .. Len(s)}

\* The places of the queue in use
Live == {i \in 0 .. SIZE - 1 : q.front <= i /\ i <= q.rear}
Waiting == {q.items[i] : i \in Live}

Shape ==
    /\ q \in [items : [0 .. SIZE - 1 -> Vertices], front : Int, rear : Int]
    /\ \/ q.front = -1 /\ q.rear = -1
       \/ 0 <= q.front /\ q.front <= q.rear /\ q.rear <= SIZE - 1

GraphTyped ==
    /\ adjLists \in [Vertices -> Seq(Vertices)] /\ visited \subseteq Vertices /\ edges \in Nat
    /\ temp \in Seq(Vertices) /\ seen \in Seq(Vertices)
    /\ search \in {"graph", "bfs", "done", "undefined"}

\* Each vertex visited was printed, or waits in the queue, once.
Once ==
    /\ visited = Elems(seen) \cup Waiting
    /\ \A i, j \in 1 .. Len(seen) : seen[i] = seen[j] => i = j
    /\ \A i, j \in Live : q.items[i] = q.items[j] => i = j
    /\ \A i \in 1 .. Len(seen), j \in Live : seen[i] # q.items[j]

\* The neighbours of what was printed are visited, or are being looked at.
Explored ==
    \A v \in Elems(seen) : Elems(adjLists[v]) \subseteq visited \cup Elems(temp)

\* Nothing is visited that cannot be reached.
Needed == \A R \in SUBSET Vertices : Closed(R) => visited \cup Elems(temp) \subseteq R

\* Vertex 0 has left the queue before any other comes: a place is always free.
Free == \/ seen = <<>> /\ temp = <<>> /\ q.rear = 0
        \/ q.rear + 2 <= Cardinality(visited)

BInv ==
    /\ Shape /\ GraphTyped
    /\ search = "graph" => /\ visited = {} /\ temp = <<>> /\ seen = <<>> /\ q.rear = -1
    /\ search \in {"bfs", "done"} => 0 \in visited /\ Once /\ Explored /\ Needed /\ Free
    /\ search = "done" => q.rear = -1 /\ temp = <<>>

\* There are SIZE + 1 vertices.
LEMMA VerticesFinite == IsFiniteSet(Vertices) /\ Cardinality(Vertices) = SIZE + 1
<1>1. 0 \in Int /\ SIZE \in Int /\ ~(0 > SIZE) /\ SIZE - 0 + 1 = SIZE + 1
  BY BfsAssumption
<1>2. IsFiniteSet(0 .. SIZE) /\ Cardinality(0 .. SIZE) = SIZE + 1
  BY <1>1, FS_Interval
<1> QED
  BY <1>2, Zenon DEF Vertices

\* The elements of a sequence that loses its first, or gains a last one
LEMMA ElemsTail == ASSUME NEW S, NEW s \in Seq(S), s # <<>>
                   PROVE  Elems(s) = {Head(s)} \cup Elems(Tail(s))
<1>1. /\ Len(Tail(s)) = Len(s) - 1 /\ Len(s) \in Nat /\ Len(s) >= 1
      /\ \A i \in 1 .. Len(Tail(s)) : Tail(s)[i] = s[i + 1]
      /\ Head(s) = s[1]
  BY HeadTailProperties
<1>2. ASSUME NEW x \in Elems(s) PROVE x \in {Head(s)} \cup Elems(Tail(s))
  <2>1. PICK i \in 1 .. Len(s) : x = s[i]
    BY <1>2 DEF Elems
  <2>2. CASE i = 1
    BY <1>1, <2>1, <2>2
  <2>3. CASE i # 1
    <3>1. i - 1 \in 1 .. Len(Tail(s)) /\ (i - 1) + 1 = i
      BY <1>1, <2>3
    <3>2. Tail(s)[i - 1] = s[i]
      BY <1>1, <3>1
    <3> QED
      BY <2>1, <3>1, <3>2 DEF Elems
  <2> QED
    BY <2>2, <2>3
<1>3. ASSUME NEW x \in Elems(Tail(s)) PROVE x \in Elems(s)
  <2>1. PICK i \in 1 .. Len(Tail(s)) : x = Tail(s)[i]
    BY <1>3, Zenon DEF Elems
  <2>2. i + 1 \in 1 .. Len(s) /\ x = s[i + 1]
    BY <1>1, <2>1
  <2> QED
    BY <2>2 DEF Elems
<1>4. Head(s) \in Elems(s)
  <2>1. 1 \in 1 .. Len(s)
    BY <1>1
  <2> QED
    BY <1>1, <2>1 DEF Elems
<1> QED
  BY <1>2, <1>3, <1>4

\* A new element at the end
LEMMA ElemsAppend == ASSUME NEW S, NEW s \in Seq(S), NEW e
                     PROVE  Elems(Append(s, e)) = Elems(s) \cup {e}
<1>1. /\ Len(Append(s, e)) = Len(s) + 1 /\ Append(s, e)[Len(s) + 1] = e /\ Len(s) \in Nat
      /\ \A i \in 1 .. Len(s) : Append(s, e)[i] = s[i]
  OBVIOUS
<1>2. 1 .. Len(Append(s, e)) = (1 .. Len(s)) \cup {Len(s) + 1}
  BY <1>1
<1> QED
  BY <1>1, <1>2 DEF Elems

\* The queue takes a vertex at its rear.
LEMMA EnqueueStep ==
    ASSUME SIZE \in Nat \ {0}, Shape, NEW v \in Vertices, ~isFull, q' = enqueue(v)
    PROVE  /\ Shape' /\ q'.rear = q.rear + 1
           /\ Live' = Live \cup {q.rear + 1} /\ q.rear + 1 \notin Live
           /\ q'.items[q.rear + 1] = v /\ \A i \in Live : q'.items[i] = q.items[i]
<1>1. /\ q.items \in [0 .. SIZE - 1 -> Vertices] /\ q.front \in Int /\ q.rear \in Int
      /\ \/ q.front = -1 /\ q.rear = -1
         \/ 0 <= q.front /\ q.front <= q.rear /\ q.rear <= SIZE - 1
      /\ q.rear # SIZE - 1
  BY DEF Shape, isFull
<1>2. /\ q'.items = [q.items EXCEPT ![q.rear + 1] = v] /\ q'.rear = q.rear + 1
      /\ q'.front = (IF q.front = -1 THEN 0 ELSE q.front)
      /\ q' = [items |-> q'.items, front |-> q'.front, rear |-> q'.rear]
  BY DEF enqueue
<1>3. q.rear + 1 \in 0 .. SIZE - 1
  BY <1>1
<1>4. q'.front \in Int /\ q'.rear \in Int /\ q'.items \in [0 .. SIZE - 1 -> Vertices]
  BY <1>1, <1>2, <1>3
<1>5. Shape'
  <2>1. q' \in [items : [0 .. SIZE - 1 -> Vertices], front : Int, rear : Int]
    BY <1>2, <1>4
  <2>2. 0 <= q'.front /\ q'.front <= q'.rear /\ q'.rear <= SIZE - 1
    BY <1>1, <1>2
  <2> QED
    BY <2>1, <2>2 DEF Shape
<1>6. ASSUME NEW i \in 0 .. SIZE - 1
      PROVE  (q'.front <= i /\ i <= q'.rear) <=> ((q.front <= i /\ i <= q.rear) \/ i = q.rear + 1)
  BY <1>1, <1>2
<1>7. Live' = Live \cup {q.rear + 1}
  BY <1>3, <1>6 DEF Live
<1>8. q.rear + 1 \notin Live
  BY <1>1 DEF Live
<1>9. q'.items[q.rear + 1] = v
  BY <1>1, <1>2, <1>3
<1>10. ASSUME NEW i \in Live PROVE q'.items[i] = q.items[i]
  <2>1. i # q.rear + 1 /\ i \in 0 .. SIZE - 1
    BY <1>8 DEF Live
  <2> QED
    BY <1>1, <1>2, <2>1
<1> QED
  BY <1>2, <1>5, <1>7, <1>8, <1>9, <1>10

\* The queue gives up the vertex at its front.
LEMMA DequeueStep ==
    ASSUME SIZE \in Nat \ {0}, Shape, ~isEmpty, q' = dequeue
    PROVE  /\ Shape' /\ q'.items = q.items /\ q.front \in Live /\ Live' = Live \ {q.front}
           /\ q'.rear = -1 \/ (q'.rear = q.rear /\ q.rear # 0)
           /\ q.items[q.front] \in Vertices
<1>1. /\ q \in [items : [0 .. SIZE - 1 -> Vertices], front : Int, rear : Int]
      /\ q.items \in [0 .. SIZE - 1 -> Vertices] /\ q.front \in Int /\ q.rear \in Int
      /\ 0 <= q.front /\ q.front <= q.rear /\ q.rear <= SIZE - 1
  BY DEF Shape, isEmpty
<1>2. q.front \in Live /\ q.items[q.front] \in Vertices
  BY <1>1 DEF Live
<1>3. CASE q.front + 1 > q.rear
  <2>1. q' = [q EXCEPT !.front = -1, !.rear = -1]
    BY <1>3 DEF dequeue
  <2>2. q'.items = q.items /\ q'.front = -1 /\ q'.rear = -1
    BY <1>1, <2>1
  <2>3. Shape'
    <3>1. q' \in [items : [0 .. SIZE - 1 -> Vertices], front : Int, rear : Int]
      <4>1. -1 \in Int
        OBVIOUS
      <4>2. \A I : \A r \in [items : I, front : Int, rear : Int] :
               [r EXCEPT !.front = -1, !.rear = -1] \in [items : I, front : Int, rear : Int]
        BY <4>1, Zenon
      <4> QED
        BY <1>1, <2>1, <4>2, Zenon
    <3> QED
      BY <2>2, <3>1 DEF Shape
  <2>4. Live' = {} /\ Live = {q.front}
    BY <1>1, <1>3, <2>2 DEF Live
  <2> QED
    BY <1>2, <2>2, <2>3, <2>4
<1>4. CASE ~(q.front + 1 > q.rear)
  <2>1. q' = [q EXCEPT !.front = @ + 1]
    BY <1>4 DEF dequeue
  <2>2. q'.items = q.items /\ q'.front = q.front + 1 /\ q'.rear = q.rear
    BY <1>1, <2>1
  <2>3. Shape'
    <3>1. q' \in [items : [0 .. SIZE - 1 -> Vertices], front : Int, rear : Int]
      BY <1>1, <2>1
    <3>2. 0 <= q'.front /\ q'.front <= q'.rear /\ q'.rear <= SIZE - 1
      BY <1>1, <1>4, <2>2
    <3> QED
      BY <3>1, <3>2 DEF Shape
  <2>4. Live' = Live \ {q.front}
    <3>1. ASSUME NEW i \in 0 .. SIZE - 1
          PROVE  (q'.front <= i /\ i <= q'.rear) <=> (q.front <= i /\ i <= q.rear /\ i # q.front)
      BY <1>1, <2>2
    <3> QED
      BY <3>1 DEF Live
  <2>5. q.rear # 0
    BY <1>1, <1>4
  <2> QED
    BY <1>2, <2>2, <2>3, <2>4, <2>5
<1> QED
  BY <1>3, <1>4

\* The search starts with vertex 0 in the queue.
LEMMA StartKeeps == ASSUME BInv, Start PROVE BInv'
<1>1. /\ Shape /\ GraphTyped /\ SIZE \in Nat \ {0} /\ search = "graph"
      /\ temp = <<>> /\ seen = <<>> /\ q.rear = -1
      /\ search' = "bfs" /\ visited' = {0} /\ q' = enqueue(0)
      /\ UNCHANGED <<adjLists, edges, temp, seen>>
  BY BfsAssumption DEF BInv, Start
<1>2. 0 \in Vertices /\ ~isFull
  BY <1>1 DEF Vertices, isFull
<1>3. /\ Shape' /\ Live' = Live \cup {q.rear + 1} /\ q'.items[q.rear + 1] = 0
      /\ q'.rear = q.rear + 1
  BY <1>1, <1>2, EnqueueStep
<1>4. Live = {}
  BY <1>1 DEF Live
<1>5. Live' = {0} /\ q'.items[0] = 0
  BY <1>1, <1>3, <1>4
<1>6. Elems(seen)' = {} /\ Elems(temp)' = {} /\ Len(seen') = 0
  BY <1>1 DEF Elems
<1>7. Once'
  BY <1>1, <1>5, <1>6 DEF Once, Waiting
<1>8. Explored' /\ Free'
  <2>1. q'.rear = 0
    BY <1>1, <1>3
  <2> QED
    BY <1>1, <1>6, <2>1, Zenon DEF Explored, Free
<1>9. Needed'
  BY <1>1, <1>6 DEF Needed, Closed
<1>10. GraphTyped'
  BY <1>1, <1>2 DEF GraphTyped
<1> QED
  BY <1>1, <1>3, <1>7, <1>8, <1>9, <1>10 DEF BInv

\* The vertex at the front of the queue is printed, and its neighbours come next; or
\* the queue is empty and the search is over.
LEMMA VisitKeeps == ASSUME BInv, Visit PROVE BInv'
<1>1. /\ Shape /\ GraphTyped /\ SIZE \in Nat \ {0} /\ search = "bfs" /\ temp = <<>>
      /\ 0 \in visited /\ Once /\ Explored /\ Needed /\ Free
      /\ UNCHANGED <<adjLists, visited, edges>>
  BY BfsAssumption DEF BInv, Visit
<1>2. CASE isEmpty
  <2>1. search' = "done" /\ UNCHANGED <<q, temp, seen>> /\ q.rear = -1
    BY <1>2 DEF Visit, isEmpty
  <2>2. Shape' /\ GraphTyped'
    BY <1>1, <2>1 DEF Shape, GraphTyped
  <2>3. Once' /\ Explored' /\ Needed' /\ Free'
    <3>1. UNCHANGED <<adjLists, visited, q, temp, seen>>
      BY <1>1, <2>1, Zenon
    <3>0. Live' = Live /\ Waiting' = Waiting /\ Elems(seen') = Elems(seen) /\ Elems(temp') = Elems(temp)
      BY <3>1, Zenon DEF Live, Waiting
    <3>2. Once' /\ Explored'
      BY <1>1, <3>0, <3>1, Zenon DEF Once, Explored
    <3>3. Needed'
      <4>1. \A R : Closed(R)' <=> Closed(R)
        BY <3>1, Zenon DEF Closed
      <4> QED
        BY <1>1, <3>0, <3>1, <4>1, Zenon DEF Needed
    <3>4. Free'
      BY <1>1, <3>1, Zenon DEF Free
    <3> QED
      BY <3>2, <3>3, <3>4
  <2> QED
    BY <1>1, <2>1, <2>2, <2>3 DEF BInv
<1>3. CASE ~isEmpty
  <2> DEFINE v == q.items[q.front]
  <2>1. q' = dequeue /\ seen' = Append(seen, v) /\ temp' = adjLists[v] /\ search' = search
    BY <1>3, Zenon DEF Visit
  <2>2. /\ Shape' /\ q'.items = q.items /\ q.front \in Live /\ Live' = Live \ {q.front}
        /\ q'.rear = -1 \/ (q'.rear = q.rear /\ q.rear # 0)
        /\ v \in Vertices
    BY <1>1, <1>3, <2>1, DequeueStep
  <2>3. v \in Waiting /\ v \in visited /\ \A i \in 1 .. Len(seen) : seen[i] # v
    BY <1>1, <2>2 DEF Waiting, Once
  <2>4. Waiting' = Waiting \ {v}
    <3>1. \A i \in Live : q.items[i] = v => i = q.front
      BY <1>1, <2>2, Zenon DEF Once
    <3>2. Waiting' = {q.items[i] : i \in Live \ {q.front}}
      BY <2>2, Zenon DEF Waiting
    <3> QED
      BY <3>1, <3>2 DEF Waiting
  <2> HIDE DEF v
  <2>5. seen \in Seq(Vertices) /\ adjLists \in [Vertices -> Seq(Vertices)] /\ Len(seen) \in Nat
    BY <1>1 DEF GraphTyped
  <2>6. Elems(seen') = Elems(seen) \cup {v}
    BY <2>1, <2>5, ElemsAppend
  <2>7. /\ Len(seen') = Len(seen) + 1 /\ seen'[Len(seen) + 1] = v /\ seen' # <<>>
        /\ \A i \in 1 .. Len(seen) : seen'[i] = seen[i]
    <3>1. /\ Len(Append(seen, v)) = Len(seen) + 1 /\ Append(seen, v)[Len(seen) + 1] = v
          /\ Append(seen, v) # <<>> /\ \A i \in 1 .. Len(seen) : Append(seen, v)[i] = seen[i]
      <4>1. seen \in Seq(Vertices) /\ v \in Vertices
        BY <2>2, <2>5, Zenon
      <4> QED
        BY <4>1
    <3> QED
      BY <2>1, <3>1, Zenon
  <2>8. GraphTyped'
    <3>1. seen' \in Seq(Vertices) /\ temp' \in Seq(Vertices)
      BY <2>1, <2>2, <2>5
    <3> QED
      BY <1>1, <2>1, <3>1 DEF GraphTyped
  <2>9. Once'
    <3>1. visited' = Elems(seen') \cup Waiting'
      BY <1>1, <2>3, <2>4, <2>6 DEF Once
    <3>2. ASSUME NEW i \in 1 .. Len(seen'), NEW j \in 1 .. Len(seen'), seen'[i] = seen'[j]
          PROVE  i = j
      <4>1. (i \in 1 .. Len(seen) \/ i = Len(seen) + 1) /\ (j \in 1 .. Len(seen) \/ j = Len(seen) + 1)
        BY <2>5, <2>7
      <4> QED
        BY <1>1, <2>3, <2>7, <3>2, <4>1, Zenon DEF Once
    <3>3. ASSUME NEW i \in 1 .. Len(seen'), NEW j \in Live' PROVE seen'[i] # q'.items[j]
      <4>1. i \in 1 .. Len(seen) \/ i = Len(seen) + 1
        BY <2>5, <2>7
      <4>2. j \in Live /\ j # q.front /\ q'.items[j] = q.items[j]
        BY <2>2
      <4>3. q.items[j] # v
        BY <1>1, <2>2, <4>2, Zenon DEF Once, v
      <4> QED
        BY <1>1, <2>7, <4>1, <4>2, <4>3, Zenon DEF Once
    <3>4. ASSUME NEW i \in Live', NEW j \in Live', q'.items[i] = q'.items[j] PROVE i = j
      BY <1>1, <2>2, <3>4 DEF Once
    <3> QED
      BY <3>1, <3>2, <3>3, <3>4 DEF Once
  <2>10. Elems(temp) = {} /\ Elems(temp') = Elems(adjLists[v])
    <3>1. Elems(temp) = {}
      BY <1>1 DEF Elems
    <3> QED
      BY <2>1, <3>1, Zenon
  <2>11. Explored'
    <3>1. \A w \in Elems(seen) : Elems(adjLists[w]) \subseteq visited
      BY <1>1, <2>10, Zenon DEF Explored
    <3>2. ASSUME NEW w \in Elems(seen') PROVE Elems(adjLists'[w]) \subseteq visited' \cup Elems(temp')
      <4>1. w \in Elems(seen) \/ w = v
        BY <2>6
      <4> QED
        BY <1>1, <2>10, <3>1, <4>1, Zenon
    <3> QED
      BY <3>2, Zenon DEF Explored, Elems
  <2>12. Needed'
    <3> SUFFICES ASSUME NEW R \in SUBSET Vertices, Closed(R)'
                 PROVE  visited' \cup Elems(temp') \subseteq R
      BY Zenon DEF Needed, Elems
    <3>1. Closed(R)
      BY <1>1, Zenon DEF Closed
    <3>2. visited \subseteq R /\ v \in R
      BY <1>1, <2>3, <3>1 DEF Needed
    <3>3. Elems(adjLists[v]) \subseteq R
      <4>1. DOMAIN adjLists[v] = 1 .. Len(adjLists[v])
        BY <2>2, <2>5
      <4> QED
        BY <3>1, <3>2, <4>1 DEF Closed, Elems
    <3> QED
      BY <1>1, <2>10, <3>2, <3>3
  <2>13. Free'
    <3>1. IsFiniteSet(visited) /\ Cardinality(visited) \in Nat /\ Cardinality(visited) >= 1
      <4>1. IsFiniteSet(Vertices)
        BY VerticesFinite
      <4>2. IsFiniteSet(visited)
        BY <1>1, <4>1, FS_Subset DEF GraphTyped
      <4>3. Cardinality(visited) # 0 /\ Cardinality(visited) \in Nat
        BY <1>1, <4>2, FS_EmptySet, FS_CardinalityType
      <4> QED
        BY <4>2, <4>3
    <3>2. q.rear \in Int /\ q'.rear \in Int
      BY <1>1, <2>2 DEF Shape
    <3>3. CASE q'.rear = -1
      BY <1>1, <3>1, <3>3 DEF Free
    <3>4. CASE q'.rear # -1
      <4>1. q'.rear = q.rear /\ q.rear # 0
        BY <2>2, <3>4
      <4>2. q.rear + 2 <= Cardinality(visited)
        BY <1>1, <4>1, Zenon DEF Free
      <4> QED
        BY <1>1, <4>1, <4>2, Zenon DEF Free
    <3> QED
      BY <3>3, <3>4
  <2> QED
    BY <1>1, <2>1, <2>2, <2>8, <2>9, <2>11, <2>12, <2>13 DEF BInv
<1> QED
  BY <1>2, <1>3

\* A neighbour that was not visited yet is, and finds room in the queue.
LEMMA NeighbourKeeps == ASSUME BInv, Neighbour PROVE BInv'
<1> DEFINE v == Head(temp)
<1>1. /\ Shape /\ GraphTyped /\ SIZE \in Nat \ {0} /\ search = "bfs" /\ temp # <<>>
      /\ 0 \in visited /\ Once /\ Explored /\ Needed /\ Free
      /\ temp' = Tail(temp) /\ UNCHANGED <<adjLists, edges, seen, search>>
  BY BfsAssumption DEF BInv, Neighbour
<1>2. temp \in Seq(Vertices)
  BY <1>1 DEF GraphTyped
<1>3. v \in Vertices /\ temp' \in Seq(Vertices)
  BY <1>1, <1>2, HeadTailProperties
<1>4. Elems(temp) = {v} \cup Elems(temp')
  BY <1>1, <1>2, ElemsTail
<1> HIDE DEF v
<1>5. CASE v \in visited
  <2>1. UNCHANGED <<visited, q>>
    BY <1>5, Zenon DEF Neighbour, v
  <2>2. Live' = Live /\ Waiting' = Waiting /\ Elems(seen') = Elems(seen)
    BY <1>1, <2>1, Zenon DEF Live, Waiting
  <2>3. Shape' /\ GraphTyped'
    BY <1>1, <1>3, <2>1 DEF Shape, GraphTyped
  <2>4. Once'
    BY <1>1, <2>1, <2>2, Zenon DEF Once
  <2>5. visited' \cup Elems(temp') = visited \cup Elems(temp)
    BY <1>4, <1>5, <2>1
  <2>6. Explored'
    BY <1>1, <2>2, <2>5, Zenon DEF Explored
  <2>7. Needed'
    <3>1. \A R : Closed(R)' <=> Closed(R)
      BY <1>1, Zenon DEF Closed
    <3> QED
      BY <1>1, <2>5, <3>1, Zenon DEF Needed
  <2>8. Free'
    BY <1>1, <2>1, Zenon DEF Free
  <2> QED
    BY <1>1, <2>1, <2>3, <2>4, <2>6, <2>7, <2>8 DEF BInv
<1>6. CASE v \notin visited
  <2>1. visited' = visited \cup {v} /\ q' = enqueue(v)
    BY <1>6, Zenon DEF Neighbour, v
  <2>2. /\ IsFiniteSet(visited) /\ Cardinality(visited) \in Nat
        /\ Cardinality(visited') = Cardinality(visited) + 1
        /\ Cardinality(visited') <= SIZE + 1
    <3>1. IsFiniteSet(Vertices) /\ Cardinality(Vertices) = SIZE + 1
      BY VerticesFinite
    <3>2. visited \in SUBSET Vertices /\ visited' \in SUBSET Vertices
      BY <1>1, <1>3, <2>1 DEF GraphTyped
    <3>3. IsFiniteSet(visited) /\ Cardinality(visited') <= SIZE + 1
      BY <3>1, <3>2, FS_Subset
    <3>4. Cardinality(visited') = Cardinality(visited) + 1
      BY <1>6, <2>1, <3>3, FS_AddElement
    <3> QED
      BY <3>3, <3>4, FS_CardinalityType
  <2>3. q.rear \in Int /\ q.rear + 2 <= Cardinality(visited)
    BY <1>1, Zenon DEF Shape, Free
  <2>4. ~isFull
    BY <1>1, <2>2, <2>3 DEF isFull
  <2>5. /\ Shape' /\ q'.rear = q.rear + 1
        /\ Live' = Live \cup {q.rear + 1} /\ q.rear + 1 \notin Live
        /\ q'.items[q.rear + 1] = v /\ \A i \in Live : q'.items[i] = q.items[i]
    BY <1>1, <1>3, <2>1, <2>4, EnqueueStep
  <2>6. GraphTyped'
    BY <1>1, <1>3, <2>1 DEF GraphTyped
  <2>7. Waiting' = Waiting \cup {v}
    BY <2>5 DEF Waiting
  <2>8. /\ \A i \in 1 .. Len(seen) : seen[i] # v
        /\ \A i \in Live : q.items[i] # v
    BY <1>1, <1>6 DEF Once, Elems, Waiting
  <2>9. Once'
    <3>1. visited' = Elems(seen') \cup Waiting'
      BY <1>1, <2>1, <2>7 DEF Once
    <3>2. \A i \in Live' : \/ i \in Live /\ q'.items[i] = q.items[i]
                           \/ i = q.rear + 1 /\ q'.items[i] = v
      BY <2>5
    <3>3. \A i, j \in Live' : q'.items[i] = q'.items[j] => i = j
      BY <1>1, <2>8, <3>2 DEF Once
    <3>4. \A i \in 1 .. Len(seen'), j \in Live' : seen'[i] # q'.items[j]
      BY <1>1, <2>8, <3>2 DEF Once
    <3>5. \A i, j \in 1 .. Len(seen') : seen'[i] = seen'[j] => i = j
      BY <1>1, Zenon DEF Once
    <3> QED
      BY <3>1, <3>3, <3>4, <3>5, Zenon DEF Once
  <2>10. visited' \cup Elems(temp') = visited \cup Elems(temp)
    BY <1>4, <2>1
  <2>11. Explored'
    <3>1. Elems(seen') = Elems(seen)
      BY <1>1, Zenon
    <3> QED
      BY <1>1, <2>10, <3>1, Zenon DEF Explored
  <2>12. Needed'
    <3>1. \A R : Closed(R)' <=> Closed(R)
      BY <1>1, Zenon DEF Closed
    <3> QED
      BY <1>1, <2>10, <3>1, Zenon DEF Needed
  <2>13. Free'
    <3>1. q'.rear + 2 <= Cardinality(visited')
      BY <2>2, <2>3, <2>5
    <3> QED
      BY <3>1 DEF Free
  <2> QED
    BY <1>1, <2>1, <2>5, <2>6, <2>9, <2>11, <2>12, <2>13 DEF BInv
<1> QED
  BY <1>5, <1>6

\* An edge is added before the search.
LEMMA AddEdgeKeeps ==
    ASSUME BInv, NEW src \in Vertices, NEW dest \in Vertices, addEdge(src, dest)
    PROVE  BInv'
<1>1. /\ Shape /\ GraphTyped /\ search = "graph" /\ UNCHANGED <<visited, q, temp, seen>>
      /\ visited = {} /\ temp = <<>> /\ seen = <<>> /\ q.rear = -1 /\ edges' = edges + 1
  BY DEF BInv, addEdge
<1>2. Shape'
  BY <1>1, Zenon DEF Shape
<1>3. search' = "graph" \/ search' = "undefined"
  BY <1>1, Zenon DEF addEdge
<1>4. adjLists' \in [Vertices -> Seq(Vertices)]
  <2>1. adjLists \in [Vertices -> Seq(Vertices)]
    BY <1>1 DEF GraphTyped
  <2>2. ASSUME NEW f \in [Vertices -> Seq(Vertices)], NEW x \in Vertices, NEW y \in Vertices
        PROVE  [f EXCEPT ![x] = <<y>> \o @] \in [Vertices -> Seq(Vertices)]
    <3>1. <<y>> \in Seq(Vertices) /\ f[x] \in Seq(Vertices)
      OBVIOUS
    <3>2. <<y>> \o f[x] \in Seq(Vertices)
      BY <3>1, ConcatProperties
    <3> QED
      BY <3>2
  <2>3. CASE adjLists' = adjLists
    BY <2>1, <2>3
  <2>4. CASE adjLists' # adjLists
    <3> DEFINE one == [adjLists EXCEPT ![src] = <<dest>> \o @]
    <3>1. adjLists' = [one EXCEPT ![dest] = <<src>> \o @]
      BY <2>4, Zenon DEF addEdge
    <3>2. one \in [Vertices -> Seq(Vertices)]
      BY <2>1, <2>2
    <3> HIDE DEF one
    <3> QED
      BY <2>2, <3>1, <3>2
  <2> QED
    BY <2>3, <2>4
<1>5. GraphTyped'
  BY <1>1, <1>3, <1>4 DEF GraphTyped
<1> QED
  BY <1>1, <1>2, <1>3, <1>5 DEF BInv

\* For every number of vertices and every graph: the search prints just the vertices
\* that can be reached from 0, each once.  Its queue of SIZE places, which are not
\* used again, holds them all.
THEOREM SearchComplete == BSpec => []ReachesAll
<1>1. BInit => BInv
  <2> SUFFICES ASSUME BInit PROVE BInv
    OBVIOUS
  <2>1. q = createQueue /\ SIZE \in Nat \ {0} /\ 0 \in Vertices /\ search = "graph"
        /\ adjLists = [v \in Vertices |-> <<>>] /\ visited = {} /\ edges = 0
        /\ temp = <<>> /\ seen = <<>>
    BY BfsAssumption DEF BInit, Vertices
  <2>2. Shape /\ q.rear = -1
    BY <2>1 DEF Shape, createQueue
  <2>3. GraphTyped
    BY <2>1 DEF GraphTyped
  <2> QED
    BY <2>1, <2>2, <2>3 DEF BInv
<1>2. BInv /\ [BNext]_bvars => BInv'
  <2> SUFFICES ASSUME BInv, [BNext]_bvars PROVE BInv'
    OBVIOUS
  <2>1. CASE UNCHANGED bvars
    <3>1. UNCHANGED <<adjLists, visited, edges, q, temp, seen, search>>
      BY <2>1 DEF bvars
    <3>2. Live' = Live /\ Waiting' = Waiting /\ Elems(seen') = Elems(seen) /\ Elems(temp') = Elems(temp)
      BY <3>1, Zenon DEF Live, Waiting
    <3>3. \A R : Closed(R)' <=> Closed(R)
      BY <3>1, Zenon DEF Closed
    <3>4. (Once => Once') /\ (Explored => Explored') /\ (Needed => Needed') /\ (Free => Free')
      BY <3>1, <3>2, <3>3, Zenon DEF Once, Explored, Needed, Free
    <3>5. (Shape => Shape') /\ (GraphTyped => GraphTyped')
      BY <3>1, Zenon DEF Shape, GraphTyped
    <3> QED
      BY <3>1, <3>4, <3>5, Zenon DEF BInv
  <2> QED
    BY <2>1, StartKeeps, VisitKeeps, NeighbourKeeps, AddEdgeKeeps DEF BNext
<1>3. BInv => ReachesAll
  <2> SUFFICES ASSUME BInv, search = "done" PROVE ReachesAll
    BY DEF ReachesAll
  <2> DEFINE S == {seen[i] : i \in DOMAIN seen}
  <2>1. /\ 0 \in visited /\ Once /\ Explored /\ Needed /\ q.rear = -1 /\ temp = <<>>
        /\ Shape /\ GraphTyped
    BY DEF BInv
  <2>2. DOMAIN seen = 1 .. Len(seen)
    BY <2>1 DEF GraphTyped
  <2>3. S = Elems(seen)
    BY <2>2, Zenon DEF Elems
  <2>4. Live = {} /\ Elems(temp) = {}
    BY <2>1 DEF Live, Elems
  <2>5. visited = S
    BY <2>1, <2>3, <2>4 DEF Once, Waiting
  <2> HIDE DEF S
  <2>6. S \subseteq Vertices
    BY <2>1, <2>5 DEF GraphTyped
  <2>7. Closed(S)
    <3>1. ASSUME NEW v \in S, NEW i \in DOMAIN adjLists[v] PROVE adjLists[v][i] \in S
      <4>1. Elems(adjLists[v]) \subseteq S
        BY <2>1, <2>3, <2>4, <2>5 DEF Explored
      <4>2. DOMAIN adjLists[v] = 1 .. Len(adjLists[v])
        BY <2>1, <2>6 DEF GraphTyped
      <4> QED
        BY <4>1, <4>2 DEF Elems
    <3> QED
      BY <2>1, <2>5, <3>1 DEF Closed
  <2>8. \A R \in SUBSET S : Closed(R) => R = S
    BY <2>1, <2>5, <2>6 DEF Needed
  <2>9. \A i, j \in DOMAIN seen : seen[i] = seen[j] => i = j
    BY <2>1, <2>2, Zenon DEF Once
  <2> QED
    BY <2>7, <2>8, <2>9, Zenon DEF ReachesAll, S
<1> QED
  BY <1>1, <1>2, <1>3, PTL DEF BSpec

-----------------------------------------------------------------------------
(***************************************************************************)
(* Dijkstra's algorithm.  The invariant is the textbook's: the vertices    *)
(* taken in are the nearest ones, their edges have been followed, and      *)
(* distances are lengths of paths; with what the code adds to it, rounds   *)
(* in which no vertex is near and a last vertex that is not taken in.      *)
(* What the recursive Within computes is proved by induction, from the     *)
(* well-foundedness of <.                                                  *)
(***************************************************************************)

\* A non-empty set of natural numbers has a least one.
LEMMA LeastNat == ASSUME NEW T \in SUBSET Nat, T # {}
                  PROVE  Min(T) \in T /\ \A y \in T : Min(T) <= y
<1> DEFINE R == OpToRel(<, Nat)
<1>1. \E x \in T : \A y \in T : ~ (<<y, x>> \in R)
  BY WFMin, NatLessThanWellFounded, Zenon
<1>2. PICK x \in T : \A y \in T : ~ (<<y, x>> \in R)
  BY <1>1, Zenon
<1>3. ASSUME NEW y \in T PROVE x <= y
  <2>1. ~(<<y, x>> \in OpToRel(<, Nat))
    BY <1>2, Zenon
  <2>2. ~(y < x)
    BY <2>1 DEF OpToRel
  <2> QED
    BY <2>2
<1> QED
  BY <1>3, Zenon DEF Min

\* Induction over the natural numbers, for a set
LEMMA SetInduction ==
    ASSUME NEW S, 0 \in S, \A k \in Nat : k \in S => k + 1 \in S
    PROVE  Nat \subseteq S
<1> SUFFICES ASSUME Nat \ S # {} PROVE FALSE
  OBVIOUS
<1> DEFINE T == Nat \ S
           x == Min(T)
<1>1. x \in T /\ \A y \in T : x <= y
  <2> HIDE DEF x
  <2>1. T \in SUBSET Nat /\ T # {}
    OBVIOUS
  <2> HIDE DEF T
  <2> QED
    BY <2>1, LeastNat DEF x
<1> HIDE DEF x
<1>2. x # 0 /\ x - 1 \in Nat /\ x - 1 + 1 = x
  BY <1>1
<1> QED
  BY <1>1, <1>2

\* f is the sequence of values that starts with a and goes on by step.
Iterates(f, S, a, step) ==
    f \in [Nat -> S] /\ f[0] = a /\ \A k \in Nat : f[k + 1] = step[f[k]]

\* A sequence of values is defined by its first one and a step.
LEMMA Recursion ==
    ASSUME NEW S, NEW a \in S, NEW step \in [S -> S]
    PROVE  \E f : Iterates(f, S, a, step)
<1> DEFINE Upto(m, f) == /\ f \in [0 .. m -> S] /\ f[0] = a
                         /\ \A k \in 0 .. m - 1 : f[k + 1] = step[f[k]]
           Some == {m \in Nat : \E f : Upto(m, f)}
<1>1. Nat \subseteq Some
  <2>1. 0 \in Some
    <3>1. Upto(0, [k \in 0 .. 0 |-> a])
      OBVIOUS
    <3> QED
      BY <3>1, Zenon
  <2>2. ASSUME NEW m \in Nat, m \in Some PROVE m + 1 \in Some
    <3>1. PICK f : Upto(m, f)
      BY <2>2
    <3>2. Upto(m + 1, [k \in 0 .. m + 1 |-> IF k <= m THEN f[k] ELSE step[f[m]]])
      BY <3>1
    <3> QED
      BY <3>2
  <2> HIDE DEF Some
  <2> QED
    BY <2>1, <2>2, SetInduction
<1>2. ASSUME NEW m \in Nat, NEW f, NEW g, Upto(m, f), Upto(m + 1, g)
      PROVE  f[m] = g[m]
  <2> DEFINE Same == {k \in Nat : k <= m => f[k] = g[k]}
  <2>1. 0 \in Same
    BY <1>2
  <2>2. ASSUME NEW k \in Nat, k \in Same PROVE k + 1 \in Same
    BY <1>2, <2>2
  <2>3. Nat \subseteq Same
    <3> HIDE DEF Same
    <3> QED
      BY <2>1, <2>2, SetInduction
  <2> QED
    BY <2>3
<1> DEFINE F(m) == CHOOSE f : Upto(m, f)
           h == [m \in Nat |-> F(m)[m]]
<1>3. ASSUME NEW m \in Nat PROVE Upto(m, F(m))
  BY <1>1, Zenon
<1> HIDE DEF F
<1>4. h \in [Nat -> S]
  BY <1>3
<1>5. h[0] = a
  BY <1>3
<1>6. ASSUME NEW m \in Nat PROVE h[m + 1] = step[h[m]]
  <2>1. F(m)[m] = F(m + 1)[m]
    <3>1. Upto(m, F(m)) /\ Upto(m + 1, F(m + 1))
      BY <1>3
    <3> HIDE DEF Upto
    <3> QED
      BY <1>2, <3>1
  <2>2. F(m + 1)[m + 1] = step[F(m + 1)[m]]
    BY <1>3
  <2> QED
    BY <2>1, <2>2
<1> QED
  BY <1>4, <1>5, <1>6, Zenon DEF Iterates

-----------------------------------------------------------------------------
GraphOf(m) == [0 .. m - 1 -> [0 .. m - 1 -> 0 .. INFINITY - 1]]

\* Within is what its definition says: at k = 0 only s is near, and one edge more
\* leads through a vertex j, or nowhere.
LEMMA WithinDef ==
    ASSUME NEW m \in Nat \ {0}, NEW g \in GraphOf(m), NEW s \in 0 .. m - 1
    PROVE  LET V == 0 .. m - 1
               W == Within(m, g, s)
           IN  /\ \A k \in 0 .. m, i \in V : W[k][i] \in Nat
               /\ \A i \in V : W[0][i] = IF i = s THEN 0 ELSE INFINITY
               /\ \A k \in 0 .. m - 1, i \in V :
                     /\ W[k + 1][i] <= W[k][i]
                     /\ \A j \in V : W[k + 1][i] <= W[k][j] + weight(g[j][i])
                     /\ \/ W[k + 1][i] = W[k][i]
                        \/ \E j \in V : W[k + 1][i] = W[k][j] + weight(g[j][i])
<1> DEFINE V == 0 .. m - 1
           a == [i \in V |-> IF i = s THEN 0 ELSE INFINITY]
           ways(w, i) == {w[i]} \cup {w[j] + weight(g[j][i]) : j \in V}
           next(w) == [i \in V |-> Min(ways(w, i))]
           S == [V -> Nat]
           step == [w \in S |-> next(w)]
           Def(f) == f = [k \in 0 .. m |-> IF k = 0 THEN a ELSE next(f[k - 1])]
<1>0. \A i, j \in V : weight(g[j][i]) \in Nat
  BY MatrixAssumption DEF weight, GraphOf
<1>1. ASSUME NEW w \in S, NEW i \in V
      PROVE  Min(ways(w, i)) \in ways(w, i) /\ Min(ways(w, i)) \in Nat
             /\ \A y \in ways(w, i) : Min(ways(w, i)) <= y
  <2>1. ways(w, i) \in SUBSET Nat /\ ways(w, i) # {}
    <3>1. \A j \in V : w[j] \in Nat
      OBVIOUS
    <3>2. \A j \in V : w[j] + weight(g[j][i]) \in Nat
      <4>1. \A x, y \in Nat : x + y \in Nat
        OBVIOUS
      <4> QED
        BY <1>0, <3>1, <4>1, Zenon
    <3> QED
      BY <3>1, <3>2, Zenon
  <2>2. Min(ways(w, i)) \in ways(w, i) /\ \A y \in ways(w, i) : Min(ways(w, i)) <= y
    <3> HIDE DEF ways
    <3> QED
      BY <2>1, LeastNat
  <2> QED
    BY <2>1, <2>2, Zenon
<1> HIDE DEF ways
<1>2. a \in S /\ step \in [S -> S] /\ \A w \in S : next(w) \in S
  <2>1. a \in S
    BY MatrixAssumption
  <2>2. \A w \in S : next(w) \in S
    BY <1>1
  <2> QED
    BY <2>1, <2>2
<1>3. PICK f : Iterates(f, S, a, step)
  <2>1. a \in S /\ step \in [S -> S]
    BY <1>2, Zenon
  <2> HIDE DEF S, step, a
  <2> QED
    BY <2>1, Recursion, Zenon
<1> HIDE DEF S, next, a
<1> DEFINE h == [k \in 0 .. m |-> f[k]]
<1>4. Def(h)
  <2>1. ASSUME NEW k \in 0 .. m PROVE h[k] = IF k = 0 THEN a ELSE next(h[k - 1])
    <3>1. CASE k = 0
      BY <1>3, <3>1 DEF Iterates
    <3>2. CASE k # 0
      <4>1. k - 1 \in Nat /\ k - 1 \in 0 .. m /\ (k - 1) + 1 = k
        BY <3>2
      <4>2. f[k] = step[f[k - 1]] /\ f[k - 1] \in S
        BY <1>3, <4>1 DEF Iterates
      <4> QED
        BY <3>2, <4>1, <4>2
    <3> QED
      BY <3>1, <3>2
  <2> QED
    BY <2>1
<1> DEFINE W == Within(m, g, s)
<1>5. W = CHOOSE x : Def(x)
  BY DEF Within, next, ways, a
<1>6. Def(W)
  BY <1>4, <1>5, Zenon
<1> HIDE DEF W
<1>7. W[0] = a /\ \A k \in 0 .. m - 1 : W[k + 1] = next(W[k])
  <2>1. \A k \in 0 .. m : W[k] = IF k = 0 THEN a ELSE next(W[k - 1])
    BY <1>6
  <2> QED
    BY <2>1
<1>8. \A k \in 0 .. m : W[k] \in S
  <2> DEFINE T == {k \in Nat : k <= m => W[k] \in S}
  <2>1. 0 \in T
    BY <1>2, <1>7
  <2>2. ASSUME NEW k \in Nat, k \in T PROVE k + 1 \in T
    BY <1>2, <1>7, <2>2
  <2> HIDE DEF T
  <2>3. Nat \subseteq T
    BY <2>1, <2>2, SetInduction
  <2> QED
    BY <2>3 DEF T
<1>9. \A k \in 0 .. m, i \in V : W[k][i] \in Nat
  BY <1>8 DEF S
<1>10. \A i \in V : W[0][i] = IF i = s THEN 0 ELSE INFINITY
  BY <1>7 DEF a
<1>11. ASSUME NEW k \in 0 .. m - 1, NEW i \in V
       PROVE  /\ W[k + 1][i] <= W[k][i]
              /\ \A j \in V : W[k + 1][i] <= W[k][j] + weight(g[j][i])
              /\ \/ W[k + 1][i] = W[k][i]
                 \/ \E j \in V : W[k + 1][i] = W[k][j] + weight(g[j][i])
  <2>1. W[k + 1][i] = Min(ways(W[k], i)) /\ W[k] \in S
    <3>1. k \in 0 .. m
      OBVIOUS
    <3>2. W[k + 1] = next(W[k]) /\ W[k] \in S
      BY <1>7, <1>8, <3>1, Zenon
    <3>3. next(W[k])[i] = Min(ways(W[k], i))
      BY Zenon DEF next
    <3> QED
      BY <3>2, <3>3, Zenon
  <2>2. W[k + 1][i] \in ways(W[k], i) /\ \A y \in ways(W[k], i) : W[k + 1][i] <= y
    BY <1>1, <2>1
  <2>3. W[k][i] \in ways(W[k], i) /\ \A j \in V : W[k][j] + weight(g[j][i]) \in ways(W[k], i)
    BY Zenon DEF ways
  <2>4. W[k + 1][i] = W[k][i] \/ \E j \in V : W[k + 1][i] = W[k][j] + weight(g[j][i])
    BY <2>2, Zenon DEF ways
  <2> HIDE DEF V
  <2> QED
    BY <2>2, <2>3, <2>4, Zenon
<1> QED
  BY <1>9, <1>10, <1>11, Zenon DEF W

-----------------------------------------------------------------------------
\* The shortest paths of at most k edges
Short(k, i) == Within(n, G, startnode)[k][i]

Input ==
    /\ n \in Nat \ {0} /\ G \in GraphOf(n) /\ startnode \in Graph
    /\ path \in {"input", "search", "done", "undefined"}

Arrays ==
    /\ distance \in [Graph -> 0 .. INFINITY] /\ pred \in [Graph -> Graph]
    /\ marked \subseteq Graph /\ nextnode \in Graph \cup {NoNext}

Begun == startnode \in marked /\ distance[startnode] = 0 /\ count \in Nat /\ 1 <= count /\ count <= n

\* The vertices taken in are the nearest ones.
Ordered == \A i \in marked, j \in Graph \ marked : distance[i] <= distance[j]

\* The edges of the vertices taken in have been followed.
Relaxed == \A i \in marked, j \in Graph : distance[j] <= distance[i] + cost(i, j)

\* A distance is the length of a path of as many edges as vertices were taken in.
Reached == \A i \in Graph : distance[i] < INFINITY => Short(count, i) <= distance[i]

\* pred leads back to a vertex taken in, along an edge that makes up the distance.
Back(i) ==
    /\ i # startnode /\ distance[i] < INFINITY
          => /\ pred[i] \in marked /\ G[pred[i]][i] > 0
             /\ distance[pred[i]] + G[pred[i]][i] = distance[i]
    /\ distance[i] = INFINITY => pred[i] = startnode

\* Each round takes in one vertex more, until none is near.
Taken == Cardinality(marked) = count \/ Near = {}

\* nextnode is unassigned in the first round only.
First ==
    nextnode = NoNext =>
        /\ count = 1 /\ marked = {startnode}
        /\ \A i \in Graph \ {startnode} : distance[i] = cost(startnode, i)

Searching ==
    /\ Arrays /\ Begun /\ Ordered /\ Relaxed /\ Reached /\ Taken /\ First
    /\ \A i \in Graph : Back(i)

DInv ==
    /\ Input
    /\ path = "input" => pred = [i \in Graph |-> startnode] /\ nextnode = NoNext
    /\ path \in {"search", "done"} => Searching
    /\ path = "done" => ~More
    /\ path = "undefined" => n > 2 /\ \A i \in Graph \ {startnode} : G[startnode][i] = 0

\* An edge weighs more than nothing and less than INFINITY.
LEMMA CostFacts ==
    ASSUME Input
    PROVE  /\ INFINITY \in Nat /\ 0 < INFINITY
           /\ \A i, j \in Graph : /\ cost(i, j) \in Nat /\ 0 < cost(i, j) /\ cost(i, j) <= INFINITY
                                  /\ cost(i, j) < INFINITY <=> G[i][j] > 0
                                  /\ cost(i, j) < INFINITY => cost(i, j) = G[i][j]
                                  /\ cost(i, j) = INFINITY => G[i][j] = 0
<1>1. INFINITY \in Nat /\ 0 < INFINITY
  BY MatrixAssumption
<1>2. ASSUME NEW i \in Graph, NEW j \in Graph PROVE G[i][j] \in 0 .. INFINITY - 1
  BY Zenon DEF Input, GraphOf, Graph
<1>3. \A x \in 0 .. INFINITY - 1 :
         /\ weight(x) \in Nat /\ 0 < weight(x) /\ weight(x) <= INFINITY
         /\ weight(x) < INFINITY <=> x > 0
         /\ weight(x) < INFINITY => weight(x) = x
         /\ weight(x) = INFINITY => x = 0
  BY <1>1 DEF weight
<1> QED
  BY <1>1, <1>2, <1>3, Zenon DEF cost

\* The distances are numbers, up to INFINITY.
LEMMA DistanceFacts ==
    ASSUME Arrays PROVE \A i \in Graph : distance[i] \in Nat /\ distance[i] <= INFINITY
BY MatrixAssumption DEF Arrays

\* What Within says, for this graph
LEMMA ShortFacts ==
    ASSUME Input
    PROVE  /\ \A k \in 0 .. n, i \in Graph : Short(k, i) \in Nat
           /\ \A i \in Graph : Short(0, i) = IF i = startnode THEN 0 ELSE INFINITY
           /\ \A k \in 0 .. n - 1, i \in Graph :
                 /\ Short(k + 1, i) <= Short(k, i)
                 /\ \A j \in Graph : Short(k + 1, i) <= Short(k, j) + cost(j, i)
                 /\ \/ Short(k + 1, i) = Short(k, i)
                    \/ \E j \in Graph : Short(k + 1, i) = Short(k, j) + cost(j, i)
<1>1. n \in Nat \ {0} /\ G \in GraphOf(n) /\ startnode \in 0 .. n - 1
  BY DEF Input, Graph
<1> QED
  BY <1>1, WithinDef, Zenon DEF Short, Graph, cost

\* The first loop finds a nearest vertex, if one is near.
LEMMA NearestFacts ==
    ASSUME Input, Arrays
    PROVE  /\ Near # {} => \E v \in Graph \ marked :
                             /\ Nearest = {v} /\ distance[v] = mindistance /\ mindistance < INFINITY
                             /\ \A j \in Graph \ marked : mindistance <= distance[j]
           /\ Near = {} => /\ mindistance = INFINITY
                           /\ \A j \in Graph \ marked : distance[j] = INFINITY
                           /\ Nearest \subseteq Graph \cup {NoNext}
                           /\ NoNext \in Nearest => nextnode = NoNext
<1> DEFINE D == {distance[i] : i \in Near} \cup {INFINITY}
<1>1. \A i \in Graph : distance[i] \in Nat /\ distance[i] <= INFINITY
  BY DistanceFacts
<1>2. INFINITY \in Nat
  BY MatrixAssumption
<1>3. mindistance \in D /\ \A y \in D : mindistance <= y
  <2>1. D \in SUBSET Nat /\ D # {}
    BY <1>1, <1>2, Zenon DEF Near
  <2> HIDE DEF D
  <2>2. Min(D) \in D /\ \A y \in D : Min(D) <= y
    BY <2>1, LeastNat
  <2> QED
    BY <2>2, Zenon DEF mindistance, D
<1>4. \A i \in Near : i \in Graph \ marked /\ distance[i] < INFINITY
  BY Zenon DEF Near
<1>5. \A j \in Graph \ marked : j \in Near \/ distance[j] = INFINITY
  BY <1>1, <1>2 DEF Near
<1>6. mindistance <= INFINITY /\ \A j \in Graph \ marked : mindistance <= distance[j]
  BY <1>3, <1>5, Zenon
<1>7. CASE Near # {}
  <2>1. PICK u \in Near : TRUE
    BY <1>7
  <2>2. mindistance # INFINITY
    <3>1. mindistance <= distance[u] /\ distance[u] < INFINITY /\ distance[u] \in Nat
      BY <1>1, <1>3, <1>4, <2>1, Zenon
    <3> QED
      BY <1>2, <3>1
  <2>3. PICK w \in Near : distance[w] = mindistance
    BY <1>3, <2>2, Zenon
  <2> DEFINE C == {i \in Near : distance[i] = mindistance}
  <2>4. C \in SUBSET Nat /\ C # {}
    <3>1. \A i \in Graph : i \in Nat
      BY DEF Graph
    <3> QED
      BY <1>4, <2>3, <3>1, Zenon
  <2>5. Min(C) \in C
    <3> HIDE DEF C
    <3> QED
      BY <2>4, LeastNat
  <2>6. Nearest = {Min(C)}
    BY <1>7, Zenon DEF Nearest
  <2> HIDE DEF C
  <2>7. Min(C) \in Near /\ distance[Min(C)] = mindistance
    BY <2>5, Zenon DEF C
  <2> QED
    BY <1>4, <1>6, <1>7, <2>6, <2>7, Zenon
<1>8. CASE Near = {}
  <2>1. mindistance = INFINITY
    BY <1>3, <1>8, Zenon
  <2>2. \A j \in Graph \ marked : distance[j] = INFINITY
    BY <1>5, <1>8, Zenon
  <2>3. Nearest = IF nextnode = NoNext THEN Graph \cup {NoNext} ELSE {nextnode}
    BY <1>8, Zenon DEF Nearest
  <2>4. nextnode \in Graph \cup {NoNext}
    BY Zenon DEF Arrays
  <2> QED
    BY <1>8, <2>1, <2>2, <2>3, <2>4, Zenon
<1> QED
  BY <1>7, <1>8

\* The graph does not change.
LEMMA SameGraph ==
    ASSUME UNCHANGED <<n, G, startnode>>
    PROVE  /\ Graph' = Graph /\ \A i, j : cost(i, j)' = cost(i, j)
           /\ \A k, i : Short(k, i)' = Short(k, i)
BY Zenon DEF Graph, cost, Short

\* The search begins with the edges of startnode.
LEMMA BeginKeeps == ASSUME DInv, Begin PROVE DInv'
<1>1. /\ Input /\ path' = "search" /\ marked' = {startnode} /\ count' = 1
      /\ UNCHANGED <<n, G, startnode, pred, nextnode>>
      /\ pred = [i \in Graph |-> startnode] /\ nextnode = NoNext
      /\ distance' = [i \in Graph |-> IF i = startnode THEN 0 ELSE cost(startnode, i)]
  BY Zenon DEF DInv, Begin
<1>2. /\ Graph' = Graph /\ \A i, j : cost(i, j)' = cost(i, j)
      /\ \A k, i : Short(k, i)' = Short(k, i)
  BY <1>1, SameGraph
<1>3. startnode \in Graph /\ n \in Nat /\ n >= 1
  BY <1>1 DEF Input
<1>4. /\ INFINITY \in Nat /\ 0 < INFINITY
      /\ \A i, j \in Graph : /\ cost(i, j) \in Nat /\ 0 < cost(i, j) /\ cost(i, j) <= INFINITY
                             /\ cost(i, j) < INFINITY <=> G[i][j] > 0
                             /\ cost(i, j) < INFINITY => cost(i, j) = G[i][j]
  BY <1>1, CostFacts
<1>5. /\ \A i \in Graph : distance'[i] = IF i = startnode THEN 0 ELSE cost(startnode, i)
      /\ \A i \in Graph : pred'[i] = startnode
  BY <1>1, Zenon
<1>6. Input'
  BY <1>1, <1>2 DEF Input
<1>7. Arrays'
  <2>1. \A i \in Graph : (IF i = startnode THEN 0 ELSE cost(startnode, i)) \in 0 .. INFINITY
    BY <1>3, <1>4
  <2>2. distance' \in [Graph -> 0 .. INFINITY]
    BY <1>1, <2>1, Zenon
  <2>3. pred' \in [Graph -> Graph] /\ nextnode' \in Graph \cup {NoNext} /\ marked' \subseteq Graph
    BY <1>1, <1>3, Zenon
  <2> QED
    BY <1>2, <2>2, <2>3, Zenon DEF Arrays
<1>8. Begun'
  BY <1>1, <1>3, <1>5 DEF Begun
<1>9. Ordered' /\ Relaxed'
  <2>1. \A i \in marked' : i = startnode /\ distance'[i] = 0
    BY <1>1, <1>3, <1>5
  <2>2. \A j \in Graph : distance'[j] \in Nat /\ distance'[j] <= cost(startnode, j)
    BY <1>3, <1>4, <1>5
  <2>3. \A j \in Graph : 0 <= distance'[j] /\ distance'[j] <= 0 + cost(startnode, j)
    BY <1>3, <1>4, <2>2
  <2>4. \A i \in marked', j \in Graph' \ marked' : distance'[i] <= distance'[j]
    BY <1>2, <2>1, <2>3, Zenon
  <2>5. \A i \in marked', j \in Graph' : distance'[j] <= distance'[i] + cost(i, j)
    BY <1>2, <2>1, <2>3, Zenon
  <2> QED
    BY <1>2, <2>4, <2>5, Zenon DEF Ordered, Relaxed
<1>10. Reached'
  <2>1. \A i \in Graph : /\ Short(0, i) = IF i = startnode THEN 0 ELSE INFINITY
                         /\ Short(0 + 1, i) <= Short(0, i)
                         /\ Short(0 + 1, i) <= Short(0, startnode) + cost(startnode, i)
    BY <1>1, <1>3, ShortFacts
  <2>2. ASSUME NEW i \in Graph PROVE Short(1, i) <= distance'[i]
    <3>1. Short(0, startnode) = 0 /\ cost(startnode, i) \in Nat
      BY <1>3, <1>4, <2>1
    <3>2. Short(1, i) <= 0 + cost(startnode, i)
      BY <2>1, <3>1
    <3> QED
      BY <1>5, <2>1, <3>1, <3>2
  <2> QED
    BY <1>1, <1>2, <2>2, Zenon DEF Reached
<1>11. Taken'
  BY <1>1, FS_Singleton DEF Taken
<1>12. First'
  BY <1>1, <1>2, <1>5, Zenon DEF First
<1>13. ASSUME NEW i \in Graph PROVE Back(i)'
  <2>1. pred'[i] = startnode /\ startnode \in marked' /\ distance'[startnode] = 0
    BY <1>1, <1>3, <1>5
  <2>2. i # startnode /\ distance'[i] < INFINITY => G[startnode][i] > 0 /\ distance'[i] = G[startnode][i]
    BY <1>3, <1>4, <1>5
  <2>3. i # startnode /\ distance'[i] < INFINITY => 0 + G[startnode][i] = distance'[i]
    BY <1>3, <1>4, <1>5, <2>2
  <2> QED
    BY <1>1, <2>1, <2>2, <2>3, Zenon DEF Back
<1>14. Searching'
  BY <1>2, <1>7, <1>8, <1>9, <1>10, <1>11, <1>12, <1>13, Zenon DEF Searching
<1> QED
  BY <1>1, <1>6, <1>14 DEF DInv

\* A round that finds a vertex near
LEMMA NearRoundKeeps ==
    ASSUME Input, Searching, path = "search", Near # {}, Round PROVE Searching' /\ path' = "search"
<1>1. Arrays /\ Begun /\ Ordered /\ Relaxed /\ Reached /\ Taken /\ \A i \in Graph : Back(i)
  BY Zenon DEF Searching
<1>2. PICK v \in Graph \ marked :
         /\ Nearest = {v} /\ distance[v] = mindistance /\ mindistance < INFINITY
         /\ \A j \in Graph \ marked : mindistance <= distance[j]
  BY <1>1, NearestFacts, Zenon
<1>3. nextnode' = v /\ v # NoNext
  <2>1. nextnode' \in Nearest
    BY Zenon DEF Round
  <2>2. v # NoNext
    BY <1>2 DEF Graph, NoNext
  <2> QED
    BY <1>2, <2>1, <2>2, Zenon
<1> DEFINE through(i) == mindistance + cost(v, i)
           better == {i \in Graph \ marked' : through(i) < distance[i]}
<1>4. /\ marked' = marked \cup {v} /\ count' = count + 1 /\ path' = "search"
      /\ distance' = [i \in Graph |-> IF i \in better THEN through(i) ELSE distance[i]]
      /\ pred' = [i \in Graph |-> IF i \in better THEN v ELSE pred[i]]
      /\ UNCHANGED <<n, G, startnode>> /\ count < n - 1
  BY <1>3, Zenon DEF Round, More
<1>5. /\ Graph' = Graph /\ \A i, j : cost(i, j)' = cost(i, j)
      /\ \A k, i : Short(k, i)' = Short(k, i)
  BY <1>4, SameGraph
<1>6. /\ INFINITY \in Nat /\ 0 < INFINITY
      /\ \A i, j \in Graph : /\ cost(i, j) \in Nat /\ 0 < cost(i, j)
                             /\ cost(i, j) < INFINITY => G[i][j] > 0 /\ cost(i, j) = G[i][j]
  BY CostFacts
<1>7. \A i \in Graph : distance[i] \in Nat /\ distance[i] <= INFINITY
  BY <1>1, DistanceFacts
<1>8. mindistance \in Nat /\ v \in Graph /\ v \notin marked
  BY <1>2, <1>7, Zenon
<1>9. \A i \in Graph : IF i \in better THEN distance'[i] = through(i) /\ pred'[i] = v
                                       ELSE distance'[i] = distance[i] /\ pred'[i] = pred[i]
  BY <1>4, Zenon
<1>10. \A i \in better : i \in Graph /\ i \notin marked /\ i # v /\ through(i) < distance[i]
  BY <1>4, Zenon
<1>11. \A i \in Graph \ marked' : i \notin better => ~(through(i) < distance[i])
  OBVIOUS
<1> HIDE DEF better
<1>12. \A i \in Graph : through(i) \in Nat /\ mindistance <= through(i)
  BY <1>6, <1>8
<1>13. \A i \in Graph : /\ distance'[i] \in Nat /\ distance'[i] <= distance[i]
                        /\ i \notin marked => mindistance <= distance'[i]
  <2> SUFFICES ASSUME NEW i \in Graph
               PROVE  /\ distance'[i] \in Nat /\ distance'[i] <= distance[i]
                      /\ i \notin marked => mindistance <= distance'[i]
    BY Zenon
  <2>1. CASE i \in better
    <3>1. distance'[i] = through(i) /\ through(i) < distance[i]
      BY <1>9, <1>10, <2>1, Zenon
    <3>2. through(i) \in Nat /\ mindistance <= through(i) /\ distance[i] \in Nat
      BY <1>7, <1>12, Zenon
    <3> HIDE DEF through
    <3> QED
      BY <3>1, <3>2
  <2>2. CASE i \notin better
    <3>1. distance'[i] = distance[i] /\ distance[i] \in Nat
      BY <1>7, <1>9, <2>2, Zenon
    <3>2. i \notin marked => mindistance <= distance[i]
      BY <1>2, Zenon
    <3> QED
      BY <3>1, <3>2
  <2> QED
    BY <2>1, <2>2
<1>14. \A i \in marked' : i \in Graph /\ distance'[i] = distance[i] /\ distance[i] <= mindistance
  <2>1. \A i \in marked : i \in Graph /\ distance[i] <= distance[v]
    BY <1>1, <1>8, Zenon DEF Arrays, Ordered
  <2>2. distance[v] <= mindistance
    BY <1>2, <1>8
  <2> QED
    BY <1>2, <1>4, <1>8, <1>9, <1>10, <2>1, <2>2, Zenon
<1> HIDE DEF through
<1>15. Arrays'
  <2>1. \A i \in Graph : distance'[i] \in 0 .. INFINITY
    BY <1>6, <1>7, <1>13
  <2>2. \A i \in Graph : pred'[i] \in Graph
    BY <1>1, <1>8, <1>9 DEF Arrays
  <2>3. distance' = [i \in Graph |-> distance'[i]] /\ pred' = [i \in Graph |-> pred'[i]]
    BY <1>4, Zenon
  <2>4. distance' \in [Graph -> 0 .. INFINITY] /\ pred' \in [Graph -> Graph]
    BY <2>1, <2>2, <2>3, Zenon
  <2>5. marked' \subseteq Graph /\ nextnode' \in Graph \cup {NoNext}
    BY <1>3, <1>8, <1>14, Zenon
  <2> QED
    BY <1>5, <2>4, <2>5, Zenon DEF Arrays
<1>16. Begun'
  <2>1. startnode' \in marked' /\ distance'[startnode'] = 0
    BY <1>1, <1>4, <1>14, Zenon DEF Begun
  <2>2. count \in Nat /\ 1 <= count /\ n \in Nat
    BY <1>1 DEF Begun, Input
  <2>3. count' \in Nat /\ 1 <= count' /\ count' <= n'
    BY <1>4, <2>2
  <2> QED
    BY <2>1, <2>3, Zenon DEF Begun
<1>17. Ordered'
  <2>1. ASSUME NEW i \in marked', NEW j \in Graph \ marked' PROVE distance'[i] <= distance'[j]
    <3>1. distance'[i] <= mindistance /\ i \in Graph
      BY <1>14, Zenon
    <3>2. mindistance <= distance'[j] /\ distance'[j] \in Nat
      <4>1. j \notin marked
        BY <1>4, Zenon
      <4> QED
        BY <1>13, <4>1, Zenon
    <3>3. distance'[i] \in Nat
      BY <1>13, <3>1, Zenon
    <3> QED
      BY <1>8, <3>1, <3>2, <3>3
  <2> QED
    BY <1>5, <2>1, Zenon DEF Ordered
<1>18. Relaxed'
  <2>1. ASSUME NEW i \in marked', NEW j \in Graph PROVE distance'[j] <= distance'[i] + cost(i, j)
    <3>1. /\ i \in Graph /\ distance'[i] = distance[i] /\ distance[i] \in Nat /\ cost(i, j) \in Nat
          /\ distance'[j] \in Nat /\ distance[j] \in Nat /\ distance'[j] <= distance[j]
      BY <1>6, <1>7, <1>13, <1>14, Zenon
    <3>2. CASE i \in marked
      <4>1. distance[j] <= distance[i] + cost(i, j)
        BY <1>1, <3>2, Zenon DEF Relaxed
      <4> QED
        BY <3>1, <4>1
    <3>3. CASE i \notin marked
      <4>1. i = v /\ distance[i] = mindistance
        BY <1>2, <1>4, <3>3, Zenon
      <4>2. CASE j \in marked'
        <5>1. distance'[j] <= mindistance
          BY <1>14, <4>2, Zenon
        <5> QED
          BY <3>1, <4>1, <5>1
      <4>3. CASE j \notin marked'
        <5>1. through(j) = mindistance + cost(i, j)
          BY <4>1, Zenon DEF through
        <5>2. CASE j \in better
          <6>1. distance'[j] = through(j)
            BY <1>9, <5>2, Zenon
          <6> QED
            BY <3>1, <4>1, <5>1, <6>1
        <5>3. CASE j \notin better
          <6>1. ~(through(j) < distance[j])
            BY <1>11, <4>3, <5>3, Zenon
          <6>2. distance'[j] = distance[j]
            BY <1>9, <5>3, Zenon
          <6> QED
            BY <3>1, <4>1, <5>1, <6>1, <6>2
        <5> QED
          BY <5>2, <5>3
      <4> QED
        BY <4>2, <4>3
    <3> QED
      BY <3>2, <3>3
  <2> QED
    BY <1>5, <2>1, Zenon DEF Relaxed
<1>19. Reached'
  <2>1. ASSUME NEW i \in Graph, distance'[i] < INFINITY PROVE Short(count + 1, i) <= distance'[i]
    <3>0. count \in 0 .. n - 1 /\ count \in 0 .. n /\ count + 1 \in 0 .. n
      BY <1>1, <1>4 DEF Begun, Input
    <3>1. /\ Short(count + 1, i) <= Short(count, i)
          /\ Short(count + 1, i) <= Short(count, v) + cost(v, i)
      BY <1>8, <3>0, ShortFacts
    <3>2. /\ Short(count + 1, i) \in Nat /\ Short(count, i) \in Nat /\ Short(count, v) \in Nat
          /\ cost(v, i) \in Nat
      BY <1>6, <1>8, <3>0, ShortFacts, Zenon
    <3>3. distance[v] = mindistance /\ Short(count, v) <= mindistance
      BY <1>1, <1>2, <1>8, Zenon DEF Reached
    <3>4. CASE i \in better
      <4>1. distance'[i] = mindistance + cost(v, i)
        BY <1>9, <3>4, Zenon DEF through
      <4> QED
        BY <1>8, <3>1, <3>2, <3>3, <4>1
    <3>5. CASE i \notin better
      <4>1. distance'[i] = distance[i]
        BY <1>9, <3>5, Zenon
      <4>2. Short(count, i) <= distance[i] /\ distance[i] \in Nat
        BY <1>1, <1>7, <2>1, <4>1, Zenon DEF Reached
      <4> QED
        BY <3>1, <3>2, <4>1, <4>2
    <3> QED
      BY <3>4, <3>5
  <2> QED
    BY <1>4, <1>5, <2>1, Zenon DEF Reached
<1>20. Taken'
  <2>1. Cardinality(marked) = count
    BY <1>1, Zenon DEF Taken
  <2>2. IsFiniteSet(marked)
    <3>1. IsFiniteSet(Graph)
      BY FS_Interval DEF Graph, Input
    <3>2. marked \subseteq Graph
      BY <1>1, Zenon DEF Arrays
    <3> QED
      BY <3>1, <3>2, FS_Subset
  <2>3. Cardinality(marked') = Cardinality(marked) + 1
    BY <1>4, <1>8, <2>2, FS_AddElement, Zenon
  <2> QED
    BY <1>4, <2>1, <2>3, Zenon DEF Taken
<1>21. First'
  BY <1>3, Zenon DEF First, NoNext
<1>22. ASSUME NEW i \in Graph PROVE Back(i)'
  <2>1. CASE i \in better
    <3>1. /\ distance'[i] = mindistance + cost(v, i) /\ pred'[i] = v
          /\ mindistance + cost(v, i) < distance[i]
      BY <1>9, <1>10, <2>1, Zenon DEF through
    <3>2. distance[i] <= INFINITY /\ distance[i] \in Nat /\ cost(v, i) \in Nat
      BY <1>6, <1>7, <1>8, Zenon
    <3>3. cost(v, i) < INFINITY /\ distance'[i] # INFINITY
      BY <1>6, <1>8, <3>1, <3>2
    <3>4. G[v][i] > 0 /\ cost(v, i) = G[v][i]
      BY <1>6, <1>8, <3>3, Zenon
    <3>5. v \in marked' /\ distance'[v] = mindistance
      BY <1>2, <1>4, <1>14, Zenon
    <3> QED
      BY <1>4, <3>1, <3>3, <3>4, <3>5, Zenon DEF Back
  <2>2. CASE i \notin better
    <3>1. distance'[i] = distance[i] /\ pred'[i] = pred[i] /\ Back(i)
      BY <1>1, <1>9, <2>2, Zenon
    <3>2. pred[i] \in marked => pred[i] \in marked' /\ distance'[pred[i]] = distance[pred[i]]
      BY <1>4, <1>14, Zenon
    <3> QED
      BY <1>4, <3>1, <3>2, Zenon DEF Back
  <2> QED
    BY <2>1, <2>2
<1> QED
  BY <1>4, <1>5, <1>15, <1>16, <1>17, <1>18, <1>19, <1>20, <1>21, <1>22, Zenon DEF Searching

\* A round that finds none takes a vertex that is marked already, or far away, and
\* changes nothing else.
LEMMA FarRoundKeeps ==
    ASSUME Input, Searching, path = "search", Near = {}, Round, nextnode' # NoNext
    PROVE  Searching' /\ path' = "search"
<1>1. Arrays /\ Begun /\ Ordered /\ Relaxed /\ Reached /\ \A i \in Graph : Back(i)
  BY Zenon DEF Searching
<1>2. /\ mindistance = INFINITY /\ nextnode' \in Graph
      /\ \A j \in Graph \ marked : distance[j] = INFINITY
  <2>1. nextnode' \in Nearest
    BY Zenon DEF Round
  <2> QED
    BY <1>1, <2>1, NearestFacts, Zenon
<1> DEFINE v == nextnode'
           through(i) == mindistance + cost(v, i)
           better == {i \in Graph \ marked' : through(i) < distance[i]}
<1>3. /\ marked' = marked \cup {v} /\ count' = count + 1 /\ path' = "search"
      /\ distance' = [i \in Graph |-> IF i \in better THEN through(i) ELSE distance[i]]
      /\ pred' = [i \in Graph |-> IF i \in better THEN v ELSE pred[i]]
      /\ UNCHANGED <<n, G, startnode>> /\ count < n - 1
  BY Zenon DEF Round, More
<1>4. /\ Graph' = Graph /\ \A i, j : cost(i, j)' = cost(i, j)
      /\ \A k, i : Short(k, i)' = Short(k, i)
  BY <1>3, SameGraph
<1>5. INFINITY \in Nat /\ \A i, j \in Graph : cost(i, j) \in Nat
  BY CostFacts, Zenon
<1>6. \A i \in Graph : distance[i] \in Nat /\ distance[i] <= INFINITY
  BY <1>1, DistanceFacts
<1>7. better = {}
  <2>1. \A i \in Graph : ~(INFINITY + cost(v, i) < distance[i])
    BY <1>2, <1>5, <1>6
  <2> QED
    BY <1>2, <2>1, Zenon
<1> HIDE DEF better
<1>8. distance' = distance /\ pred' = pred
  <2>1. distance = [i \in Graph |-> distance[i]] /\ pred = [i \in Graph |-> pred[i]]
    BY <1>1, Zenon DEF Arrays
  <2>2. distance' = [i \in Graph |-> distance[i]] /\ pred' = [i \in Graph |-> pred[i]]
    BY <1>3, <1>7, Zenon
  <2> QED
    BY <2>1, <2>2, Zenon
<1>9. \A i \in marked' : i \in marked \/ (i \in Graph /\ distance[i] = INFINITY)
  BY <1>2, <1>3, Zenon
<1>10. \A j \in Graph \ marked' : j \in Graph \ marked
  BY <1>3, Zenon
<1>11. Arrays'
  BY <1>1, <1>2, <1>3, <1>4, <1>8, Zenon DEF Arrays
<1>12. Begun'
  <2>1. startnode' \in marked' /\ distance'[startnode'] = 0
    BY <1>1, <1>3, <1>8, Zenon DEF Begun
  <2>2. count \in Nat /\ 1 <= count /\ n \in Nat
    BY <1>1 DEF Begun, Input
  <2>3. count' \in Nat /\ 1 <= count' /\ count' <= n'
    BY <1>3, <2>2
  <2> QED
    BY <2>1, <2>3, Zenon DEF Begun
<1>13. Ordered'
  <2>1. ASSUME NEW i \in marked', NEW j \in Graph \ marked' PROVE distance[i] <= distance[j]
    <3>1. distance[j] = INFINITY
      BY <1>2, <1>10, Zenon
    <3>2. i \in Graph
      BY <1>1, <1>9, Zenon DEF Arrays
    <3> QED
      BY <1>6, <3>1, <3>2, Zenon
  <2> QED
    BY <1>4, <1>8, <2>1, Zenon DEF Ordered
<1>14. Relaxed'
  <2>1. ASSUME NEW i \in marked', NEW j \in Graph PROVE distance[j] <= distance[i] + cost(i, j)
    <3>1. CASE i \in marked
      BY <1>1, <3>1, Zenon DEF Relaxed
    <3>2. CASE i \notin marked
      <4>1. i \in Graph /\ distance[i] = INFINITY
        BY <1>9, <3>2, Zenon
      <4>2. cost(i, j) \in Nat /\ distance[j] \in Nat /\ distance[j] <= INFINITY
        BY <1>5, <1>6, <4>1, Zenon
      <4> QED
        BY <1>5, <4>1, <4>2
    <3> QED
      BY <3>1, <3>2
  <2> QED
    BY <1>4, <1>8, <2>1, Zenon DEF Relaxed
<1>15. Reached'
  <2>1. ASSUME NEW i \in Graph, distance[i] < INFINITY PROVE Short(count + 1, i) <= distance[i]
    <3>1. count \in 0 .. n - 1 /\ count \in 0 .. n /\ count + 1 \in 0 .. n
      BY <1>1, <1>3 DEF Begun, Input
    <3>2. Short(count + 1, i) <= Short(count, i)
      BY <3>1, ShortFacts, Zenon
    <3>3. Short(count + 1, i) \in Nat /\ Short(count, i) \in Nat
      BY <3>1, ShortFacts, Zenon
    <3>4. Short(count, i) <= distance[i] /\ distance[i] \in Nat
      BY <1>1, <1>6, <2>1, Zenon DEF Reached
    <3> QED
      BY <3>2, <3>3, <3>4
  <2> QED
    BY <1>3, <1>4, <1>8, <2>1, Zenon DEF Reached
<1>16. Taken'
  <2>1. \A j \in Graph \ marked' : ~(distance[j] < INFINITY)
    <3>1. ~(INFINITY < INFINITY)
      BY <1>5
    <3> QED
      BY <1>2, <1>10, <3>1, Zenon
  <2>2. Near' = {}
    BY <1>4, <1>8, <2>1, Zenon DEF Near
  <2> QED
    BY <2>2, Zenon DEF Taken
<1>17. First'
  BY Zenon DEF First, NoNext
<1>18. ASSUME NEW i \in Graph PROVE Back(i)'
  BY <1>1, <1>3, <1>8, Zenon DEF Back
<1> QED
  BY <1>3, <1>4, <1>11, <1>12, <1>13, <1>14, <1>15, <1>16, <1>17, <1>18, Zenon DEF Searching

\* Either round keeps the invariant; nextnode is unassigned after it only if
\* startnode has no edge.
LEMMA RoundKeeps == ASSUME DInv, Round PROVE DInv'
<1>1. /\ Input /\ Searching /\ path = "search" /\ More
      /\ UNCHANGED <<n, G, startnode>>
  BY Zenon DEF DInv, Round
<1>2. Graph' = Graph
  BY <1>1, SameGraph, Zenon
<1>3. path' \in {"search", "undefined"} => Input'
  BY <1>1, <1>2 DEF Input
<1>4. CASE Near # {} \/ nextnode' # NoNext
  <2>1. Searching' /\ path' = "search"
    BY <1>1, <1>4, NearRoundKeeps, FarRoundKeeps, Zenon
  <2> QED
    BY <1>3, <2>1, Zenon DEF DInv
<1>5. CASE Near = {} /\ nextnode' = NoNext
  <2>1. path' = "undefined"
    BY <1>5, Zenon DEF Round
  <2>2. nextnode = NoNext /\ \A j \in Graph \ marked : distance[j] = INFINITY
    <3>1. nextnode' \in Nearest /\ Arrays
      BY <1>1, Zenon DEF Round, Searching
    <3> QED
      BY <1>1, <1>5, <3>1, NearestFacts, Zenon
  <2>3. /\ count = 1 /\ marked = {startnode}
        /\ \A i \in Graph \ {startnode} : distance[i] = cost(startnode, i)
    BY <1>1, <2>2, Zenon DEF Searching, First
  <2>4. n' > 2
    BY <1>1, <2>3 DEF More, Input
  <2>5. \A i \in Graph' \ {startnode'} : G'[startnode'][i] = 0
    <3>1. startnode \in Graph
      BY <1>1, Zenon DEF Input
    <3>2. \A i \in Graph \ {startnode} : cost(startnode, i) = INFINITY
      BY <2>2, <2>3, Zenon
    <3>3. \A i \in Graph : cost(startnode, i) = INFINITY => G[startnode][i] = 0
      BY <1>1, <3>1, CostFacts, Zenon
    <3> QED
      BY <1>1, <1>2, <3>2, <3>3, Zenon
  <2> QED
    BY <1>3, <2>1, <2>4, <2>5 DEF DInv
<1> QED
  BY <1>4, <1>5

\* After the last round the edges of all vertices have been followed: also those of
\* the one vertex that was not taken in, because it is the farthest.
LEMMA AllRelaxed ==
    ASSUME Input, Searching, ~More
    PROVE  \A i, j \in Graph : distance[j] <= distance[i] + cost(i, j)
<1> SUFFICES ASSUME NEW i \in Graph, NEW j \in Graph PROVE distance[j] <= distance[i] + cost(i, j)
  BY Zenon
<1>1. Arrays /\ Begun /\ Ordered /\ Relaxed /\ Taken
  BY Zenon DEF Searching
<1>2. /\ cost(i, j) \in Nat /\ distance[i] \in Nat /\ distance[j] \in Nat /\ INFINITY \in Nat
      /\ distance[j] <= INFINITY
  BY <1>1, CostFacts, DistanceFacts, Zenon
<1>3. CASE i \in marked
  BY <1>1, <1>3, Zenon DEF Relaxed
<1>4. CASE i \notin marked
  <2>1. CASE Near = {}
    <3>1. distance[i] = INFINITY
      BY <1>1, <1>4, <2>1, NearestFacts, Zenon
    <3> QED
      BY <1>2, <3>1
  <2>2. CASE j = i
    BY <1>2, <2>2
  <2>3. CASE j \in marked
    <3>1. distance[j] <= distance[i]
      BY <1>1, <1>4, <2>3, Zenon DEF Ordered
    <3> QED
      BY <1>2, <3>1
  <2>4. CASE Near # {} /\ j # i /\ j \notin marked
    <3>1. n \in Nat /\ count \in Nat /\ ~(count < n - 1) /\ Cardinality(marked) = count
      BY <1>1, <2>4 DEF Input, Begun, Taken, More
    <3>2. IsFiniteSet(Graph) /\ Cardinality(Graph) = n
      <4>1. IsFiniteSet(0 .. n - 1) /\ Cardinality(0 .. n - 1) = n
        BY <3>1, FS_Interval
      <4> QED
        BY <4>1, Zenon DEF Graph
    <3>3. marked \subseteq Graph
      BY <1>1, Zenon DEF Arrays
    <3>4. IsFiniteSet(marked)
      BY <3>2, <3>3, FS_Subset
    <3>5. /\ IsFiniteSet(marked \cup {i})
          /\ Cardinality(marked \cup {i}) = Cardinality(marked) + 1
      BY <1>4, <3>4, FS_AddElement
    <3>6. Cardinality((marked \cup {i}) \cup {j}) = Cardinality(marked \cup {i}) + 1
      BY <2>4, <3>5, FS_AddElement
    <3>7. Cardinality((marked \cup {i}) \cup {j}) <= Cardinality(Graph)
      <4>1. (marked \cup {i}) \cup {j} \in SUBSET Graph
        BY <3>3, Zenon
      <4> QED
        BY <3>2, <4>1, FS_Subset
    <3> QED
      BY <3>1, <3>2, <3>5, <3>6, <3>7
  <2> QED
    BY <2>1, <2>2, <2>3, <2>4
<1> QED
  BY <1>3, <1>4

\* No path is shorter than the distance found.
LEMMA NoneShorter ==
    ASSUME Input, Searching, ~More
    PROVE  \A k \in 0 .. n, i \in Graph : distance[i] <= Short(k, i)
<1>1. \A i, j \in Graph : distance[j] <= distance[i] + cost(i, j)
  BY AllRelaxed
<1>2. n \in Nat /\ distance[startnode] = 0 /\ Arrays
  BY DEF Input, Searching, Begun
<1>3. /\ INFINITY \in Nat
      /\ \A i \in Graph : distance[i] \in Nat /\ distance[i] <= INFINITY
      /\ \A i, j \in Graph : cost(i, j) \in Nat
  BY <1>2, CostFacts, DistanceFacts, Zenon
<1> DEFINE T == {k \in Nat : k <= n => \A i \in Graph : distance[i] <= Short(k, i)}
<1>4. 0 \in T
  <2>1. ASSUME NEW i \in Graph PROVE distance[i] <= Short(0, i)
    <3>1. Short(0, i) = IF i = startnode THEN 0 ELSE INFINITY
      BY ShortFacts, Zenon
    <3> QED
      BY <1>2, <1>3, <3>1
  <2> QED
    BY <2>1
<1>5. ASSUME NEW k \in Nat, k \in T PROVE k + 1 \in T
  <2> SUFFICES ASSUME k + 1 <= n, NEW i \in Graph PROVE distance[i] <= Short(k + 1, i)
    OBVIOUS
  <2>1. k \in 0 .. n - 1 /\ k \in 0 .. n /\ k <= n
    BY <1>2
  <2>2. \A j \in Graph : distance[j] <= Short(k, j) /\ Short(k, j) \in Nat
    BY <1>5, <2>1, ShortFacts, Zenon
  <2>3. CASE Short(k + 1, i) = Short(k, i)
    BY <2>2, <2>3, Zenon
  <2>4. ASSUME NEW j \in Graph, Short(k + 1, i) = Short(k, j) + cost(j, i)
        PROVE  distance[i] <= Short(k + 1, i)
    <3>1. /\ distance[i] <= distance[j] + cost(j, i) /\ distance[j] <= Short(k, j)
          /\ distance[i] \in Nat /\ distance[j] \in Nat /\ cost(j, i) \in Nat
          /\ Short(k, j) \in Nat
      BY <1>1, <1>3, <2>2, Zenon
    <3> QED
      BY <2>4, <3>1
  <2> QED
    BY <2>1, <2>3, <2>4, ShortFacts, Zenon
<1> HIDE DEF T
<1>6. Nat \subseteq T
  BY <1>4, <1>5, SetInduction
<1>7. \A k \in 0 .. n : k \in Nat /\ k <= n
  BY <1>2
<1> QED
  BY <1>6, <1>7, Zenon DEF T

\* More edges make no path longer.
LEMMA MoreEdges ==
    ASSUME Input, NEW c \in 0 .. n, NEW i \in Graph PROVE Short(n, i) <= Short(c, i)
<1>1. n \in Nat
  BY DEF Input
<1> DEFINE T == {k \in Nat : c + k <= n => Short(c + k, i) <= Short(c, i)}
<1>2. \A k \in 0 .. n : Short(k, i) \in Nat
  BY ShortFacts, Zenon
<1>3. 0 \in T
  <2>1. c + 0 = c /\ Short(c, i) \in Nat
    BY <1>2
  <2>2. Short(c, i) <= Short(c, i)
    BY <2>1
  <2> QED
    BY <2>1, <2>2
<1>4. ASSUME NEW k \in Nat, k \in T PROVE k + 1 \in T
  <2> SUFFICES ASSUME c + (k + 1) <= n PROVE Short(c + (k + 1), i) <= Short(c, i)
    OBVIOUS
  <2>1. /\ c + k \in 0 .. n - 1 /\ c + k \in 0 .. n /\ c + (k + 1) = (c + k) + 1
        /\ c + k <= n /\ (c + k) + 1 \in 0 .. n
    BY <1>1
  <2>2. Short((c + k) + 1, i) <= Short(c + k, i)
    BY <2>1, ShortFacts, Zenon
  <2>3. Short(c + k, i) <= Short(c, i)
    BY <1>4, <2>1, Zenon
  <2>4. Short((c + k) + 1, i) \in Nat /\ Short(c + k, i) \in Nat /\ Short(c, i) \in Nat
    BY <1>2, <2>1, Zenon
  <2>5. Short((c + k) + 1, i) <= Short(c, i)
    BY <2>2, <2>3, <2>4
  <2> QED
    BY <2>1, <2>5, Zenon
<1> HIDE DEF T
<1>5. Nat \subseteq T
  BY <1>3, <1>4, SetInduction
<1>6. n - c \in Nat /\ c + (n - c) = n /\ n <= n
  BY <1>1
<1>7. n - c \in T
  BY <1>5, <1>6, Zenon
<1> QED
  BY <1>6, <1>7, Zenon DEF T

\* For every matrix of edges lighter than INFINITY: the distances printed are those
\* of shortest paths, although the last vertex is never taken in, and pred leads back
\* along them; only from a vertex without edges may the search use an unassigned
\* nextnode.
THEOREM DistancesShortest == DSpec => []ShortestPaths
<1>1. DInit => DInv
  <2> SUFFICES ASSUME DInit PROVE DInv
    OBVIOUS
  <2>1. n \in Nat \ {0} /\ G \in GraphOf(n)
    <3>1. n \in DOMAIN Matrices /\ G \in Matrices[n]
      BY Zenon DEF DInit
    <3> QED
      BY <3>1, MatrixAssumption, Zenon DEF GraphOf
  <2>2. /\ startnode \in Graph /\ path = "input" /\ nextnode = NoNext
        /\ pred = [i \in Graph |-> startnode]
    BY Zenon DEF DInit
  <2> QED
    BY <2>1, <2>2 DEF DInv, Input
<1>2. DInv /\ [DNext]_dvars => DInv'
  <2> SUFFICES ASSUME DInv, [DNext]_dvars PROVE DInv'
    OBVIOUS
  <2>1. CASE Finish \/ UNCHANGED dvars
    <3>1. /\ UNCHANGED <<n, G, startnode, distance, pred, marked, count, nextnode>>
          /\ path' = path \/ (path = "search" /\ path' = "done" /\ ~More)
      BY <2>1, Zenon DEF Finish, dvars
    <3>2. /\ Graph' = Graph /\ \A i, j : cost(i, j)' = cost(i, j)
          /\ \A k, i : Short(k, i)' = Short(k, i)
      BY <3>1, SameGraph, Zenon
    <3>3. Near' = Near /\ More' = More /\ \A i : Back(i)' = Back(i)
      BY <3>1, <3>2, Zenon DEF Near, More, Back
    <3>4. Searching => Searching'
      BY <3>1, <3>2, <3>3, Zenon DEF Searching, Arrays, Begun, Ordered, Relaxed, Reached,
                                    Taken, First
    <3>5. Input'
      BY <3>1, <3>2 DEF DInv, Input
    <3> QED
      BY <3>1, <3>2, <3>3, <3>4, <3>5, Zenon DEF DInv
  <2> QED
    BY <2>1, BeginKeeps, RoundKeeps DEF DNext
<1>3. DInv => ShortestPaths
  <2> SUFFICES ASSUME DInv PROVE ShortestPaths
    OBVIOUS
  <2>1. Input
    BY DEF DInv
  <2>2. ASSUME path = "done", NEW i \in Graph
        PROVE  /\ distance[i] = Min({INFINITY, Within(n, G, startnode)[n][i]})
               /\ i # startnode /\ distance[i] < INFINITY
                     => G[pred[i]][i] > 0 /\ distance[pred[i]] + G[pred[i]][i] = distance[i]
               /\ distance[i] = INFINITY => pred[i] = startnode
    <3>1. Searching /\ ~More /\ Arrays /\ Back(i)
      BY <2>2 DEF DInv, Searching
    <3>2. n \in 0 .. n /\ count \in 0 .. n
      BY <2>1, <3>1 DEF Input, Searching, Begun
    <3>3. /\ INFINITY \in Nat /\ distance[i] \in Nat /\ distance[i] <= INFINITY
          /\ Short(n, i) \in Nat /\ Short(count, i) \in Nat
      BY <2>1, <3>1, <3>2, CostFacts, DistanceFacts, ShortFacts, Zenon
    <3>4. distance[i] <= Short(n, i)
      BY <2>1, <3>1, <3>2, NoneShorter, Zenon
    <3>5. distance[i] < INFINITY => Short(n, i) <= distance[i]
      <4>1. distance[i] < INFINITY => Short(count, i) <= distance[i]
        BY <3>1, Zenon DEF Searching, Reached
      <4>2. Short(n, i) <= Short(count, i)
        BY <2>1, <3>2, MoreEdges, Zenon
      <4> QED
        BY <3>3, <4>1, <4>2
    <3> DEFINE M == {INFINITY, Short(n, i)}
    <3>6. distance[i] = Min(M)
      <4>1. Min(M) \in M /\ \A y \in M : Min(M) <= y
        <5>1. M \in SUBSET Nat /\ M # {}
          BY <3>3
        <5> HIDE DEF M
        <5> QED
          BY <5>1, LeastNat
      <4>2. (Min(M) = INFINITY \/ Min(M) = Short(n, i)) /\ Min(M) <= INFINITY /\ Min(M) <= Short(n, i)
        BY <4>1, Zenon
      <4> HIDE DEF M
      <4> QED
        BY <3>3, <3>4, <3>5, <4>2
    <3> QED
      BY <3>1, <3>6, Zenon DEF Back, Short
  <2> QED
    BY <2>2, Zenon DEF ShortestPaths, DInv
<1> QED
  BY <1>1, <1>2, <1>3, PTL DEF DSpec
=============================================================================
