--------------------------- MODULE SortingProofs ----------------------------
(***************************************************************************)
(* Arrays of any length with any values: mergeSort orders the array and    *)
(* bubbleSort all but its last element, and both only rearrange it.  The   *)
(* loops and the recursion are recursive functions; each is shown to exist *)
(* before what it computes is proved by induction on its rounds or calls.  *)
(***************************************************************************)
EXTENDS Sorting, FiniteSetTheorems, FunctionTheorems,
        WellFoundedInduction, TLAPS

-----------------------------------------------------------------------------
(* Induction and recursion over the natural numbers *)

\* Induction, for a set
LEMMA SetInduction ==
    ASSUME NEW S, 0 \in S, \A k \in Nat : k \in S => k + 1 \in S
    PROVE  Nat \subseteq S
<1> SUFFICES ASSUME Nat \ S # {} PROVE FALSE
  OBVIOUS
<1> DEFINE T == Nat \ S
           R == OpToRel(<, Nat)
<1>1. \E x \in T : \A y \in T : ~ (<<y, x>> \in R)
  BY WFMin, NatLessThanWellFounded, Zenon
<1>2. PICK x \in T : \A y \in T : ~ (<<y, x>> \in R)
  BY <1>1, Zenon
<1>3. x \in Nat /\ x # 0
  BY <1>2, Zenon
<1>4. x - 1 \in Nat /\ x - 1 + 1 = x
  BY <1>3
<1>5. x - 1 \in T
  <2>1. x \notin S
    BY <1>2, Zenon
  <2> QED
    BY <1>4, <2>1
<1>6. <<x - 1, x>> \in R
  BY <1>3, <1>4 DEF OpToRel
<1> QED
  BY <1>2, <1>5, <1>6, Zenon

\* h is the sequence of values that starts with a; step[k] leads from the k-th value
\* to the next.
Iterates(h, S, a, step) ==
    h \in [Nat -> S] /\ \A k \in Nat : h[k] = IF k = 0 THEN a ELSE step[k - 1][h[k - 1]]

\* A sequence of values is defined by its first one and its steps.
LEMMA Recursion ==
    ASSUME NEW S, NEW a \in S, NEW step \in [Nat -> [S -> S]]
    PROVE  \E h : Iterates(h, S, a, step)
<1> DEFINE Upto(m, g) == /\ g \in [0 .. m -> S] /\ g[0] = a
                         /\ \A k \in 0 .. m - 1 : g[k + 1] = step[k][g[k]]
           Some == {m \in Nat : \E g : Upto(m, g)}
<1>1. Nat \subseteq Some
  <2>1. 0 \in Some
    <3>1. Upto(0, [k \in 0 .. 0 |-> a])
      OBVIOUS
    <3> QED
      BY <3>1, Zenon
  <2>2. ASSUME NEW m \in Nat, m \in Some PROVE m + 1 \in Some
    <3>1. PICK g : Upto(m, g)
      BY <2>2
    <3>2. Upto(m + 1, [k \in 0 .. m + 1 |-> IF k <= m THEN g[k] ELSE step[m][g[m]]])
      BY <3>1
    <3>3. m + 1 \in Nat
      OBVIOUS
    <3> HIDE DEF Upto
    <3> QED
      BY <3>2, <3>3, Zenon
  <2> HIDE DEF Some
  <2> QED
    BY <2>1, <2>2, SetInduction
<1>2. ASSUME NEW m \in Nat, NEW g, NEW e, Upto(m, g), Upto(m + 1, e)
      PROVE  g[m] = e[m]
  <2> DEFINE Same == {k \in Nat : k <= m => g[k] = e[k]}
  <2>1. 0 \in Same
    BY <1>2
  <2>2. ASSUME NEW k \in Nat, k \in Same PROVE k + 1 \in Same
    BY <1>2, <2>2
  <2>3. Nat \subseteq Same
    <3> HIDE DEF Same
    <3> QED
      BY <2>1, <2>2, SetInduction
  <2> QED
    BY <2>3
<1> DEFINE F(m) == CHOOSE g : Upto(m, g)
           h == [m \in Nat |-> F(m)[m]]
<1>3. ASSUME NEW m \in Nat PROVE Upto(m, F(m))
  BY <1>1, Zenon
<1> HIDE DEF F
<1>4. h \in [Nat -> S]
  BY <1>3
<1>5. h[0] = a
  BY <1>3
<1>6. ASSUME NEW m \in Nat PROVE h[m + 1] = step[m][h[m]]
  <2>1. F(m)[m] = F(m + 1)[m]
    <3>1. Upto(m, F(m)) /\ Upto(m + 1, F(m + 1))
      BY <1>3
    <3> HIDE DEF Upto
    <3> QED
      BY <1>2, <3>1
  <2>2. F(m + 1)[m + 1] = step[m][F(m + 1)[m]]
    BY <1>3
  <2> QED
    BY <2>1, <2>2
<1> HIDE DEF h
<1>7. ASSUME NEW k \in Nat PROVE h[k] = IF k = 0 THEN a ELSE step[k - 1][h[k - 1]]
  <2>1. CASE k = 0
    BY <1>5, <2>1
  <2>2. CASE k # 0
    <3>1. k - 1 \in Nat /\ k - 1 + 1 = k
      BY <2>2
    <3>2. h[k - 1 + 1] = step[k - 1][h[k - 1]]
      BY <1>6, <3>1, Zenon
    <3> QED
      BY <2>2, <3>1, <3>2
  <2> QED
    BY <2>1, <2>2
<1> QED
  BY <1>4, <1>7 DEF Iterates

\* The same for finitely many steps
Rounds(h, m, S, a, step) ==
    h \in [0 .. m -> S] /\ \A k \in 0 .. m : h[k] = IF k = 0 THEN a ELSE step[k - 1][h[k - 1]]

\* Finitely many steps define their values, too.
LEMMA BoundedRecursion ==
    ASSUME NEW m \in Nat, NEW S, NEW a \in S, NEW step \in [0 .. m - 1 -> [S -> S]]
    PROVE  \E h : Rounds(h, m, S, a, step)
<1> DEFINE same == [x \in S |-> x]
           more == [k \in Nat |-> IF k < m THEN step[k] ELSE same]
<1>1. more \in [Nat -> [S -> S]]
  <2>1. ASSUME NEW k \in Nat PROVE (IF k < m THEN step[k] ELSE same) \in [S -> S]
    OBVIOUS
  <2> HIDE DEF same
  <2> QED
    BY <2>1, Zenon
<1>2. ASSUME NEW k \in 0 .. m - 1 PROVE more[k] = step[k]
  OBVIOUS
<1> HIDE DEF more
<1>3. PICK g : Iterates(g, S, a, more)
  BY <1>1, Recursion, Zenon
<1> DEFINE h == [k \in 0 .. m |-> g[k]]
<1>4. h \in [0 .. m -> S]
  BY <1>3 DEF Iterates
<1>5. ASSUME NEW k \in 0 .. m PROVE h[k] = IF k = 0 THEN a ELSE step[k - 1][h[k - 1]]
  <2>1. k \in Nat /\ h[k] = g[k]
    OBVIOUS
  <2>2. g[k] = IF k = 0 THEN a ELSE more[k - 1][g[k - 1]]
    BY <1>3, <2>1, Zenon DEF Iterates
  <2>3. CASE k = 0
    BY <2>1, <2>2, <2>3
  <2>4. CASE k # 0
    <3>1. k - 1 \in 0 .. m - 1 /\ k - 1 \in 0 .. m
      BY <2>4
    <3>2. more[k - 1] = step[k - 1] /\ h[k - 1] = g[k - 1]
      BY <1>2, <3>1
    <3> HIDE DEF h
    <3> QED
      BY <2>1, <2>2, <2>4, <3>2
  <2> QED
    BY <2>3, <2>4
<1> HIDE DEF h
<1> QED
  BY <1>4, <1>5 DEF Rounds

-----------------------------------------------------------------------------
(* Sorting: rearrangements *)

\* p names the elements of D, each once.
Renames(p, D) ==
    /\ \A x \in D : p[x] \in D
    /\ \A x, y \in D : p[x] = p[y] => x = y
    /\ \A y \in D : \E x \in D : p[x] = y

\* b has the elements of a in another order.
Shuffled(b, a, D) == \E p \in [D -> D] : Renames(p, D) /\ \A x \in D : b[x] = a[p[x]]

\* An array left alone is a rearrangement of itself.
LEMMA ShuffledSame == ASSUME NEW a, NEW D PROVE Shuffled(a, a, D)
<1> DEFINE p == [x \in D |-> x]
<1>1. p \in [D -> D] /\ Renames(p, D) /\ \A x \in D : a[x] = a[p[x]]
  BY DEF Renames
<1> QED
  BY <1>1, Zenon DEF Shuffled

\* A rearrangement of a rearrangement is one.
LEMMA ShuffledTwice ==
    ASSUME NEW a, NEW b, NEW c, NEW D, Shuffled(b, a, D), Shuffled(c, b, D)
    PROVE  Shuffled(c, a, D)
<1>1. PICK p \in [D -> D] : Renames(p, D) /\ \A x \in D : b[x] = a[p[x]]
  BY Zenon DEF Shuffled
<1>2. PICK q \in [D -> D] : Renames(q, D) /\ \A x \in D : c[x] = b[q[x]]
  BY Zenon DEF Shuffled
<1> DEFINE r == [x \in D |-> p[q[x]]]
<1>3. r \in [D -> D] /\ \A x \in D : r[x] = p[q[x]]
  BY <1>1, <1>2 DEF Renames
<1> HIDE DEF r
<1>4. Renames(r, D)
  <2>1. \A x \in D : r[x] \in D
    BY <1>3
  <2>2. ASSUME NEW x \in D, NEW y \in D, r[x] = r[y] PROVE x = y
    <3>1. q[x] \in D /\ q[y] \in D /\ p[q[x]] = p[q[y]]
      BY <1>2, <1>3, <2>2
    <3>2. q[x] = q[y]
      BY <1>1, <3>1, Zenon DEF Renames
    <3> QED
      BY <1>2, <3>2, Zenon DEF Renames
  <2>3. ASSUME NEW y \in D PROVE \E x \in D : r[x] = y
    <3>1. PICK z \in D : p[z] = y
      BY <1>1, Zenon DEF Renames
    <3>2. PICK x \in D : q[x] = z
      BY <1>2, Zenon DEF Renames
    <3>3. r[x] = y
      BY <1>3, <3>1, <3>2
    <3> QED
      BY <3>3
  <2> QED
    BY <2>1, <2>2, <2>3 DEF Renames
<1>5. ASSUME NEW x \in D PROVE c[x] = a[r[x]]
  <2>1. q[x] \in D
    BY <1>2
  <2> QED
    BY <1>1, <1>2, <1>3, <2>1
<1> QED
  BY <1>3, <1>4, <1>5, Zenon DEF Shuffled

\* In a finite set, distinct sources are enough.
LEMMA Injected ==
    ASSUME NEW D, IsFiniteSet(D), NEW p \in [D -> D], \A x, y \in D : p[x] = p[y] => x = y
    PROVE  Renames(p, D)
<1>1. p \in Injection(D, D)
  BY Fun_IsInj, Zenon
<1>2. p \in Surjection(D, D)
  BY <1>1, FS_Injection
<1> QED
  BY <1>2 DEF Surjection, Renames

\* Two elements changing places
LEMMA ShuffledSwap ==
    ASSUME NEW D, NEW a, NEW b, NEW i \in D, NEW j \in D, i # j, b[i] = a[j], b[j] = a[i],
           \A x \in D \ {i, j} : b[x] = a[x]
    PROVE  Shuffled(b, a, D)
<1> DEFINE p == [x \in D |-> IF x = i THEN j ELSE IF x = j THEN i ELSE x]
<1>1. p \in [D -> D] /\ \A x \in D : p[x] = IF x = i THEN j ELSE IF x = j THEN i ELSE x
  OBVIOUS
<1> HIDE DEF p
<1>2. ASSUME NEW y \in D PROVE p[p[y]] = y
  BY <1>1
<1>3. Renames(p, D)
  <2>1. \A x \in D : p[x] \in D
    BY <1>1
  <2>2. ASSUME NEW x \in D, NEW y \in D, p[x] = p[y] PROVE x = y
    <3>1. p[p[x]] = x /\ p[p[y]] = y
      BY <1>2
    <3> QED
      BY <2>2, <3>1
  <2>3. ASSUME NEW y \in D PROVE \E x \in D : p[x] = y
    BY <1>2, <2>1
  <2> QED
    BY <2>1, <2>2, <2>3 DEF Renames
<1>4. ASSUME NEW x \in D PROVE b[x] = a[p[x]]
  BY <1>1
<1> QED
  BY <1>1, <1>3, <1>4, Zenon DEF Shuffled

\* A rearrangement has each value as often.
LEMMA ShuffledCount ==
    ASSUME NEW D, IsFiniteSet(D), NEW a, NEW b, Shuffled(b, a, D), NEW v
    PROVE  Cardinality({x \in D : b[x] = v}) = Cardinality({x \in D : a[x] = v})
<1>1. PICK p \in [D -> D] : Renames(p, D) /\ \A x \in D : b[x] = a[p[x]]
  BY Zenon DEF Shuffled
<1> DEFINE S == {x \in D : b[x] = v}
           T == {x \in D : a[x] = v}
           q == [x \in S |-> p[x]]
<1>2. q \in [S -> T]
  BY <1>1
<1>3. \A x, y \in S : q[x] = q[y] => x = y
  BY <1>1 DEF Renames
<1>4. \A y \in T : \E x \in S : q[x] = y
  <2> SUFFICES ASSUME NEW y \in T PROVE \E x \in S : q[x] = y
    OBVIOUS
  <2>1. PICK x \in D : p[x] = y
    BY <1>1, Zenon DEF Renames
  <2>2. x \in S /\ q[x] = y
    BY <1>1, <2>1
  <2> QED
    BY <2>2
<1>5. IsFiniteSet(S)
  BY FS_Subset
<1> HIDE DEF S, T, q
<1>6. q \in Bijection(S, T)
  BY <1>2, <1>3, <1>4, Fun_IsBij, Zenon
<1>7. ExistsBijection(S, T)
  BY <1>6, Zenon DEF ExistsBijection
<1>8. Cardinality(T) = Cardinality(S)
  BY <1>5, <1>7, FS_Bijection, Zenon
<1> QED
  BY <1>8 DEF S, T

-----------------------------------------------------------------------------
(* Sorting: bubbleSort *)

\* The arrays of e values
Arrays(e) == [0 .. e - 1 -> Values]

\* The indices and the elements of an array
LEMMA ArrayType ==
    ASSUME NEW e \in Nat, NEW a \in Arrays(e)
    PROVE  /\ DOMAIN a = 0 .. e - 1
           /\ \A x \in 0 .. e - 1 : a[x] \in Values /\ a[x] \in Int
BY SortingAssumption, Zenon DEF Arrays

\* The body of the inner loop puts two neighbours in order.
LEMMA OrderPair ==
    ASSUME NEW e \in Nat, NEW a \in Arrays(e), NEW j \in 0 .. e - 2
    PROVE  /\ order(a, j) \in Arrays(e)
           /\ Shuffled(order(a, j), a, 0 .. e - 1)
           /\ order(a, j)[j] <= order(a, j)[j + 1]
           /\ order(a, j)[j] \in {a[j], a[j + 1]} /\ order(a, j)[j + 1] \in {a[j], a[j + 1]}
           /\ a[j] <= order(a, j)[j + 1]
           /\ \A x \in 0 .. e - 1 : x # j /\ x # j + 1 => order(a, j)[x] = a[x]
<1> DEFINE D == 0 .. e - 1
           b == [a EXCEPT ![j] = a[j + 1], ![j + 1] = a[j]]
<1>1. j \in D /\ j + 1 \in D /\ j # j + 1
  OBVIOUS
<1>2. a[j] \in Int /\ a[j + 1] \in Int /\ DOMAIN a = D /\ a[j] \in Values /\ a[j + 1] \in Values
  BY <1>1, ArrayType
<1>3. CASE a[j] > a[j + 1]
  <2>1. order(a, j) = b
    BY <1>3 DEF order
  <2>2. b \in Arrays(e)
    BY <1>1, <1>2 DEF Arrays
  <2>3. b[j] = a[j + 1] /\ b[j + 1] = a[j] /\ \A x \in D : x # j /\ x # j + 1 => b[x] = a[x]
    BY <1>1, <1>2
  <2> HIDE DEF b
  <2>4. Shuffled(b, a, D)
    <3>1. \A x \in D \ {j, j + 1} : b[x] = a[x]
      BY <2>3
    <3> HIDE DEF D
    <3> QED
      BY <1>1, <2>3, <3>1, ShuffledSwap, Zenon
  <2>5. b[j] <= b[j + 1] /\ a[j] <= b[j + 1]
    BY <1>2, <1>3, <2>3
  <2> QED
    BY <2>1, <2>2, <2>3, <2>4, <2>5
<1>4. CASE ~(a[j] > a[j + 1])
  <2>1. order(a, j) = a
    BY <1>4 DEF order
  <2>2. a[j] <= a[j + 1]
    BY <1>2, <1>4
  <2> QED
    BY <2>1, <2>2, ShuffledSame
<1> QED
  BY <1>3, <1>4

\* After a pass of the given rounds b has the elements of a; the greatest of the
\* ones compared is the last of them, and the others are as in a.
Passed(b, a, e, rounds) ==
    /\ b \in Arrays(e) /\ Shuffled(b, a, 0 .. e - 1)
    /\ \A x \in 0 .. rounds : b[x] <= b[rounds]
    /\ \A x \in rounds + 1 .. e - 1 : b[x] = a[x]
    /\ \A v \in Int : (\A x \in 0 .. rounds : a[x] <= v) => \A x \in 0 .. rounds : b[x] <= v

\* The inner loop makes such a pass.
LEMMA InnerPasses ==
    ASSUME NEW e \in Nat, NEW a \in Arrays(e), NEW rounds \in 0 .. e - 1
    PROVE  Passed(inner(a, rounds), a, e, rounds)
<1> DEFINE S == Arrays(e)
           step == [k \in 0 .. rounds - 1 |-> [y \in S |-> order(y, k)]]
           Def(g) == g = [j \in 0 .. rounds |-> IF j = 0 THEN a ELSE order(g[j - 1], j - 1)]
           x == CHOOSE g : Def(g)
<1>1. ASSUME NEW k \in 0 .. rounds - 1, NEW y \in S PROVE order(y, k) \in S
  <2>1. k \in 0 .. e - 2
    OBVIOUS
  <2> QED
    BY <2>1, OrderPair
<1>2. PICK h : Rounds(h, rounds, S, a, step)
  <2> HIDE DEF S
  <2>1. step \in [0 .. rounds - 1 -> [S -> S]]
    BY <1>1
  <2>2. rounds \in Nat /\ a \in S
    BY DEF S
  <2> HIDE DEF step
  <2> QED
    BY <2>1, <2>2, BoundedRecursion, Zenon
<1> HIDE DEF S
<1>3. Def(h)
  <2>1. h = [i \in 0 .. rounds |-> h[i]]
    BY <1>2 DEF Rounds
  <2>2. ASSUME NEW i \in 0 .. rounds PROVE h[i] = IF i = 0 THEN a ELSE order(h[i - 1], i - 1)
    <3>1. h[i] = IF i = 0 THEN a ELSE step[i - 1][h[i - 1]]
      <4> HIDE DEF step
      <4> QED
        BY <1>2 DEF Rounds
    <3>2. CASE i = 0
      BY <3>1, <3>2
    <3>3. CASE i # 0
      <4>1. i - 1 \in 0 .. rounds - 1 /\ i - 1 \in 0 .. rounds
        BY <3>3
      <4>2. h[i - 1] \in S
        BY <1>2, <4>1 DEF Rounds
      <4>3. step[i - 1][h[i - 1]] = order(h[i - 1], i - 1)
        BY <4>1, <4>2
      <4> HIDE DEF step
      <4> QED
        BY <3>1, <3>3, <4>3
    <3> QED
      BY <3>2, <3>3
  <2> HIDE DEF step
  <2> QED
    BY <2>1, <2>2, Zenon
<1>4. Def(x)
  BY <1>3, Zenon
<1>5. inner(a, rounds) = x[rounds]
  BY DEF inner
<1> HIDE DEF x
<1>6. ASSUME NEW j \in 0 .. rounds PROVE x[j] = IF j = 0 THEN a ELSE order(x[j - 1], j - 1)
  BY <1>4, Zenon
<1> HIDE DEF Def
<1> DEFINE Bound(b) == \A v \in Int : (\A i \in 0 .. rounds : a[i] <= v)
                                          => \A i \in 0 .. rounds : b[i] <= v
           After(b, j) == /\ b \in Arrays(e) /\ Shuffled(b, a, 0 .. e - 1)
                          /\ \A i \in 0 .. j : b[i] <= b[j]
                          /\ \A i \in j + 1 .. e - 1 : b[i] = a[i]
                          /\ Bound(b)
           OK == {j \in Nat : j <= rounds => After(x[j], j)}
<1>7. 0 \in OK
  <2>1. x[0] = a
    BY <1>6
  <2>2. \A i \in 0 .. 0 : a[i] <= a[0]
    <3>1. a[0] \in Int
      BY ArrayType
    <3> QED
      BY <3>1
  <2>3. After(a, 0)
    BY <2>2, ShuffledSame
  <2> HIDE DEF After
  <2> QED
    BY <2>1, <2>3
<1>8. ASSUME NEW j \in Nat, j \in OK PROVE j + 1 \in OK
  <2> SUFFICES ASSUME j + 1 <= rounds PROVE After(x[j + 1], j + 1)
    <3> HIDE DEF After
    <3> QED
      OBVIOUS
  <2> DEFINE b == x[j]
             c == order(b, j)
  <2>1. x[j + 1] = c
    <3>1. j + 1 \in 0 .. rounds /\ j + 1 # 0 /\ j + 1 - 1 = j
      OBVIOUS
    <3> QED
      BY <1>6, <3>1
  <2>2. After(b, j)
    BY <1>8
  <2> HIDE DEF b
  <2>3. j \in 0 .. e - 2 /\ j \in 0 .. e - 1 /\ j + 1 \in 0 .. e - 1 /\ b \in Arrays(e)
    BY <2>2
  <2>4. /\ c \in Arrays(e) /\ Shuffled(c, b, 0 .. e - 1)
        /\ c[j] <= c[j + 1] /\ b[j] <= c[j + 1]
        /\ c[j] \in {b[j], b[j + 1]} /\ c[j + 1] \in {b[j], b[j + 1]}
        /\ \A i \in 0 .. e - 1 : i # j /\ i # j + 1 => c[i] = b[i]
    BY <2>3, OrderPair
  <2> HIDE DEF c
  <2>5. Shuffled(c, a, 0 .. e - 1)
    BY <2>2, <2>4, ShuffledTwice
  <2>6. \A i \in 0 .. e - 1 : a[i] \in Int /\ b[i] \in Int /\ c[i] \in Int
    BY <2>3, <2>4, ArrayType
  <2>7. ASSUME NEW i \in 0 .. j + 1 PROVE c[i] <= c[j + 1]
    <3>1. CASE i = j + 1
      BY <2>3, <2>6, <3>1
    <3>2. CASE i = j
      BY <2>4, <3>2
    <3>3. CASE i < j
      <4>1. i \in 0 .. e - 1 /\ i \in 0 .. j
        BY <2>3, <3>3
      <4>2. c[i] = b[i] /\ b[i] <= b[j]
        BY <2>2, <2>4, <3>3, <4>1
      <4> QED
        BY <2>3, <2>4, <2>6, <4>1, <4>2
    <3> QED
      BY <3>1, <3>2, <3>3
  <2>8. ASSUME NEW i \in j + 2 .. e - 1 PROVE c[i] = a[i]
    <3>1. i \in 0 .. e - 1 /\ i \in j + 1 .. e - 1 /\ i # j /\ i # j + 1
      OBVIOUS
    <3> QED
      BY <2>2, <2>4, <3>1
  <2>9. Bound(c)
    <3> SUFFICES ASSUME NEW v \in Int, \A i \in 0 .. rounds : a[i] <= v, NEW i \in 0 .. rounds
                 PROVE  c[i] <= v
      OBVIOUS
    <3>1. \A k \in 0 .. rounds : b[k] <= v
      BY <2>2
    <3>2. i \in 0 .. e - 1 /\ j \in 0 .. rounds /\ j + 1 \in 0 .. rounds
      OBVIOUS
    <3>3. c[i] \in {b[i], b[j], b[j + 1]}
      BY <2>4, <3>2
    <3> QED
      BY <3>1, <3>2, <3>3
  <2>10. After(c, j + 1)
    <3>1. j + 1 + 1 = j + 2
      OBVIOUS
    <3> HIDE DEF Bound
    <3> QED
      BY <2>4, <2>5, <2>7, <2>8, <2>9, <3>1
  <2> HIDE DEF After
  <2> QED
    BY <2>1, <2>10
<1>9. Nat \subseteq OK
  <2> HIDE DEF OK
  <2> QED
    BY <1>7, <1>8, SetInduction
<1>10. After(x[rounds], rounds)
  <2> HIDE DEF After
  <2> QED
    BY <1>9
<1> QED
  BY <1>5, <1>10 DEF Passed

\* After i passes over the first k elements of a, the last i of these are in place:
\* none before them is greater.  The elements from k on are as in a.
InPlace(b, a, e, k, i) ==
    /\ b \in Arrays(e) /\ Shuffled(b, a, 0 .. e - 1)
    /\ \A y \in k - i .. k - 1 : \A x \in 0 .. y : b[x] <= b[y]
    /\ \A x \in k .. e - 1 : b[x] = a[x]

\* One pass puts one more element in place.
LEMMA PassPlaces ==
    ASSUME NEW e \in Nat, NEW k \in 0 .. e - 1, NEW i \in 0 .. k - 1, NEW a \in Arrays(e),
           NEW b, InPlace(b, a, e, k, i), NEW c, Passed(c, b, e, k - i - 1)
    PROVE  InPlace(c, a, e, k, i + 1)
<1> DEFINE R == k - i - 1
<1>1. R \in 0 .. e - 1 /\ R + 1 = k - i /\ k - (i + 1) = R /\ R <= k - 1 /\ i \in Nat /\ k \in Nat
  OBVIOUS
<1>2. /\ c \in Arrays(e) /\ Shuffled(c, b, 0 .. e - 1)
      /\ \A x \in 0 .. R : c[x] <= c[R]
      /\ \A x \in R + 1 .. e - 1 : c[x] = b[x]
      /\ \A v \in Int : (\A x \in 0 .. R : b[x] <= v) => \A x \in 0 .. R : c[x] <= v
  BY DEF Passed
<1>3. b \in Arrays(e) /\ Shuffled(b, a, 0 .. e - 1)
  BY DEF InPlace
<1>4. \A y \in k - i .. k - 1 : \A x \in 0 .. y : b[x] <= b[y]
  BY DEF InPlace
<1>5. \A x \in k .. e - 1 : b[x] = a[x]
  BY DEF InPlace
<1>6. \A x \in 0 .. e - 1 : b[x] \in Int
  BY <1>3, ArrayType
<1> HIDE DEF R
<1>7. Shuffled(c, a, 0 .. e - 1)
  BY <1>2, <1>3, ShuffledTwice
<1>8. ASSUME NEW x \in k .. e - 1 PROVE c[x] = a[x]
  <2>1. x \in R + 1 .. e - 1
    BY <1>1
  <2> QED
    BY <1>2, <1>5, <2>1
<1>9. ASSUME NEW y \in R .. k - 1, NEW x \in 0 .. y PROVE c[x] <= c[y]
  <2>1. CASE y = R
    BY <1>2, <2>1
  <2>2. CASE y # R
    <3>1. y \in R + 1 .. k - 1 /\ y \in R + 1 .. e - 1 /\ y \in 0 .. e - 1
      BY <1>1, <2>2
    <3>2. c[y] = b[y] /\ b[y] \in Int
      BY <1>2, <1>6, <3>1
    <3>3. \A z \in 0 .. y : b[z] <= b[y]
      BY <1>1, <1>4, <3>1
    <3>4. CASE x > R
      <4>1. x \in R + 1 .. e - 1
        BY <1>1, <3>1, <3>4
      <4> QED
        BY <1>2, <3>2, <3>3, <4>1
    <3>5. CASE x <= R
      <4>1. \A z \in 0 .. R : b[z] <= b[y]
        BY <1>1, <3>1, <3>3
      <4>2. x \in 0 .. R
        BY <1>1, <3>5
      <4> QED
        BY <1>2, <3>2, <4>1, <4>2, Zenon
    <3> QED
      BY <1>1, <3>4, <3>5
  <2> QED
    BY <2>1, <2>2
<1> QED
  BY <1>1, <1>2, <1>7, <1>8, <1>9 DEF InPlace

\* bubbleSort orders the first k elements and leaves the others.
LEMMA OuterPlaces ==
    ASSUME NEW e \in Nat, NEW k \in 0 .. e - 1, NEW a \in Arrays(e)
    PROVE  InPlace(outer(a, k), a, e, k, k)
<1> DEFINE S == Arrays(e)
           step == [i \in 0 .. k - 1 |-> [y \in S |-> inner(y, k - i - 1)]]
           Def(g) == g = [i \in 0 .. k |-> IF i = 0 THEN a ELSE inner(g[i - 1], k - (i - 1) - 1)]
           x == CHOOSE g : Def(g)
<1>1. ASSUME NEW i \in 0 .. k - 1, NEW y \in S PROVE inner(y, k - i - 1) \in S
  <2>1. k - i - 1 \in 0 .. e - 1
    OBVIOUS
  <2> QED
    BY <2>1, InnerPasses DEF Passed
<1>2. PICK h : Rounds(h, k, S, a, step)
  <2> HIDE DEF S
  <2>1. step \in [0 .. k - 1 -> [S -> S]]
    BY <1>1
  <2>2. k \in Nat /\ a \in S
    BY DEF S
  <2> HIDE DEF step
  <2> QED
    BY <2>1, <2>2, BoundedRecursion, Zenon
<1> HIDE DEF S
<1>3. Def(h)
  <2>1. h = [i \in 0 .. k |-> h[i]]
    BY <1>2 DEF Rounds
  <2>2. ASSUME NEW i \in 0 .. k
        PROVE  h[i] = IF i = 0 THEN a ELSE inner(h[i - 1], k - (i - 1) - 1)
    <3>1. h[i] = IF i = 0 THEN a ELSE step[i - 1][h[i - 1]]
      <4> HIDE DEF step
      <4> QED
        BY <1>2 DEF Rounds
    <3>2. CASE i = 0
      BY <3>1, <3>2
    <3>3. CASE i # 0
      <4>1. i - 1 \in 0 .. k - 1 /\ i - 1 \in 0 .. k
        BY <3>3
      <4>2. h[i - 1] \in S
        BY <1>2, <4>1 DEF Rounds
      <4>3. step[i - 1][h[i - 1]] = inner(h[i - 1], k - (i - 1) - 1)
        BY <4>1, <4>2
      <4> HIDE DEF step
      <4> QED
        BY <3>1, <3>3, <4>3
    <3> QED
      BY <3>2, <3>3
  <2> HIDE DEF step
  <2> QED
    BY <2>1, <2>2, Zenon
<1>4. Def(x)
  BY <1>3, Zenon
<1>5. outer(a, k) = x[k]
  BY DEF outer
<1> HIDE DEF x
<1>6. ASSUME NEW i \in 0 .. k
      PROVE  x[i] = IF i = 0 THEN a ELSE inner(x[i - 1], k - (i - 1) - 1)
  BY <1>4, Zenon
<1> HIDE DEF Def
<1> DEFINE OK == {i \in Nat : i <= k => InPlace(x[i], a, e, k, i)}
<1>7. 0 \in OK
  <2>1. x[0] = a
    BY <1>6
  <2>2. InPlace(a, a, e, k, 0)
    BY ShuffledSame DEF InPlace
  <2> QED
    BY <2>1, <2>2
<1>8. ASSUME NEW i \in Nat, i \in OK PROVE i + 1 \in OK
  <2> SUFFICES ASSUME i + 1 <= k PROVE InPlace(x[i + 1], a, e, k, i + 1)
    OBVIOUS
  <2>1. i + 1 \in 0 .. k /\ i + 1 # 0 /\ i + 1 - 1 = i /\ i \in 0 .. k - 1 /\ k - i - 1 \in 0 .. e - 1
    OBVIOUS
  <2>2. x[i + 1] = inner(x[i], k - i - 1)
    BY <1>6, <2>1
  <2>3. InPlace(x[i], a, e, k, i)
    BY <1>8
  <2>4. x[i] \in Arrays(e)
    BY <2>3 DEF InPlace
  <2>5. Passed(x[i + 1], x[i], e, k - i - 1)
    BY <2>1, <2>2, <2>4, InnerPasses
  <2> QED
    BY <2>1, <2>3, <2>5, PassPlaces
<1>9. Nat \subseteq OK
  <2> HIDE DEF OK
  <2> QED
    BY <1>7, <1>8, SetInduction
<1> QED
  BY <1>5, <1>9

\* The elements from l to r are in order.
SortedIn(a, l, r) == \A x, y \in l .. r : x < y => a[x] <= a[y]

\* What bubbleSort(arr, 0, len - 1) makes of arr
LEMMA BubbleSorts ==
    ASSUME NEW e \in Nat, NEW a \in Arrays(e), NEW place_holder
    PROVE  /\ bubbleSort(a, place_holder, e - 1) \in Arrays(e)
           /\ Shuffled(bubbleSort(a, place_holder, e - 1), a, 0 .. e - 1)
           /\ SortedIn(bubbleSort(a, place_holder, e - 1), 0, e - 2)
           /\ e > 0 => bubbleSort(a, place_holder, e - 1)[e - 1] = a[e - 1]
<1>1. CASE e - 1 > 0
  <2>1. bubbleSort(a, place_holder, e - 1) = outer(a, e - 1)
    BY <1>1 DEF bubbleSort
  <2>2. e - 1 \in 0 .. e - 1
    BY <1>1
  <2> DEFINE b == outer(a, e - 1)
  <2>3. InPlace(b, a, e, e - 1, e - 1)
    BY <2>2, OuterPlaces
  <2> HIDE DEF b
  <2>4. b \in Arrays(e) /\ Shuffled(b, a, 0 .. e - 1)
    BY <2>3 DEF InPlace
  <2>5. \A y \in 0 .. e - 2 : \A x \in 0 .. y : b[x] <= b[y]
    <3>1. e - 1 - (e - 1) = 0 /\ e - 1 - 1 = e - 2
      OBVIOUS
    <3> QED
      BY <2>3, <3>1 DEF InPlace
  <2>6. SortedIn(b, 0, e - 2)
    BY <2>5 DEF SortedIn
  <2>7. b[e - 1] = a[e - 1]
    <3>1. e - 1 \in e - 1 .. e - 1
      BY <1>1
    <3> QED
      BY <2>3, <3>1 DEF InPlace
  <2> QED
    BY <2>1, <2>4, <2>6, <2>7 DEF b
<1>2. CASE ~(e - 1 > 0)
  <2>1. bubbleSort(a, place_holder, e - 1) = a
    BY <1>2 DEF bubbleSort
  <2>2. SortedIn(a, 0, e - 2)
    BY <1>2 DEF SortedIn
  <2> QED
    BY <2>1, <2>2, ShuffledSame
<1> QED
  BY <1>1, <1>2

-----------------------------------------------------------------------------
(* Sorting: merge *)

\* The calls merge(arr, l, m, r) that mergeSort makes
Halved(l, m, r, e) == l \in Nat /\ m \in Nat /\ r \in 0 .. e - 1 /\ l <= m /\ m < r

\* c counts the elements taken from L.
Counting(c, a, l, m, r) ==
    /\ c[0] = 0
    /\ \A k \in 0 .. r - l + 1 : c[k] \in Nat
    /\ \A k \in 0 .. r - l : c[k + 1] = IF FromL(a, l, m, r, c[k], k - c[k]) THEN c[k] + 1 ELSE c[k]

\* stored counts so.
LEMMA StoredCounts ==
    ASSUME NEW a, NEW l \in Int, NEW m \in Int, NEW r \in Int, l <= r
    PROVE  Counting(stored(a, l, m, r), a, l, m, r)
<1> DEFINE t == r - l + 1
           one(k, last) == IF FromL(a, l, m, r, last, k - last) THEN last + 1 ELSE last
           step == [k \in 0 .. t - 1 |-> [last \in Nat |-> one(k, last)]]
           Def(g) == g = [k \in 0 .. t |-> IF k = 0 THEN 0 ELSE one(k - 1, g[k - 1])]
           i == CHOOSE g : Def(g)
<1>0. t \in Nat /\ t - 1 = r - l
  OBVIOUS
<1>1. ASSUME NEW k, NEW last \in Nat PROVE one(k, last) \in Nat
  OBVIOUS
<1>2. stored(a, l, m, r) = i
  BY DEF stored
<1> HIDE DEF one, t
<1>3. PICK h : Rounds(h, t, Nat, 0, step)
  <2>1. step \in [0 .. t - 1 -> [Nat -> Nat]]
    BY <1>1
  <2>2. 0 \in Nat
    OBVIOUS
  <2> HIDE DEF step
  <2> QED
    BY <1>0, <2>1, <2>2, BoundedRecursion, Zenon
<1>4. Def(h)
  <2>1. h = [k \in 0 .. t |-> h[k]]
    BY <1>3 DEF Rounds
  <2>2. ASSUME NEW k \in 0 .. t PROVE h[k] = IF k = 0 THEN 0 ELSE one(k - 1, h[k - 1])
    <3>1. h[k] = IF k = 0 THEN 0 ELSE step[k - 1][h[k - 1]]
      <4> HIDE DEF step
      <4> QED
        BY <1>3 DEF Rounds
    <3>2. CASE k = 0
      BY <3>1, <3>2
    <3>3. CASE k # 0
      <4>1. k - 1 \in 0 .. t - 1 /\ k - 1 \in 0 .. t
        BY <1>0, <3>3
      <4>2. h[k - 1] \in Nat
        BY <1>3, <4>1 DEF Rounds
      <4>3. step[k - 1][h[k - 1]] = one(k - 1, h[k - 1])
        BY <4>1, <4>2
      <4> HIDE DEF step
      <4> QED
        BY <3>1, <3>3, <4>3
    <3> QED
      BY <3>2, <3>3
  <2> HIDE DEF step
  <2> QED
    BY <2>1, <2>2
<1>5. Def(i)
  BY <1>4, Zenon
<1> HIDE DEF i
<1>6. ASSUME NEW k \in 0 .. t PROVE i[k] = IF k = 0 THEN 0 ELSE one(k - 1, i[k - 1])
  BY <1>5, Zenon
<1> HIDE DEF Def
<1>7. i[0] = 0
  BY <1>0, <1>6
<1>8. ASSUME NEW k \in 0 .. t - 1 PROVE i[k + 1] = one(k, i[k])
  <2>1. k + 1 \in 0 .. t /\ k + 1 # 0 /\ k + 1 - 1 = k
    BY <1>0
  <2> QED
    BY <1>6, <2>1
<1> DEFINE Typed == {k \in Nat : k <= t => i[k] \in Nat}
<1>9. 0 \in Typed
  BY <1>7
<1>10. ASSUME NEW k \in Nat, k \in Typed PROVE k + 1 \in Typed
  BY <1>0, <1>1, <1>8, <1>10
<1>11. Nat \subseteq Typed
  <2> HIDE DEF Typed
  <2> QED
    BY <1>9, <1>10, SetInduction
<1>12. ASSUME NEW k \in 0 .. t PROVE i[k] \in Nat
  BY <1>0, <1>11
<1>13. ASSUME NEW k \in 0 .. r - l
       PROVE  i[k + 1] = IF FromL(a, l, m, r, i[k], k - i[k]) THEN i[k] + 1 ELSE i[k]
  BY <1>0, <1>8 DEF one
<1> QED
  BY <1>2, <1>7, <1>12, <1>13 DEF Counting, t

\* L and R are not read past their ends.
LEMMA CountsBounded ==
    ASSUME NEW a, NEW l \in Nat, NEW m \in Nat, NEW r \in Nat, l <= m, m < r,
           NEW c, Counting(c, a, l, m, r), NEW k \in 0 .. r - l + 1
    PROVE  c[k] <= m - l + 1 /\ 0 <= k - c[k] /\ k - c[k] <= r - m
<1> DEFINE In(i) == c[i] <= m - l + 1 /\ 0 <= i - c[i] /\ i - c[i] <= r - m
           OK == {i \in Nat : i <= r - l + 1 => In(i)}
<1>1. 0 \in OK
  BY DEF Counting
<1>2. ASSUME NEW i \in Nat, i \in OK PROVE i + 1 \in OK
  <2> SUFFICES ASSUME i + 1 <= r - l + 1 PROVE In(i + 1)
    <3> HIDE DEF In
    <3> QED
      OBVIOUS
  <2>1. i \in 0 .. r - l /\ i \in 0 .. r - l + 1
    OBVIOUS
  <2>2. c[i] \in Nat /\ c[i] <= m - l + 1 /\ 0 <= i - c[i] /\ i - c[i] <= r - m
    BY <1>2, <2>1 DEF Counting
  <2>3. CASE FromL(a, l, m, r, c[i], i - c[i])
    <3>1. c[i + 1] = c[i] + 1
      BY <2>1, <2>3 DEF Counting
    <3>2. c[i] < m - l + 1
      BY <2>3 DEF FromL
    <3> QED
      BY <2>2, <3>1, <3>2
  <2>4. CASE ~FromL(a, l, m, r, c[i], i - c[i])
    <3>1. c[i + 1] = c[i]
      BY <2>1, <2>4 DEF Counting
    <3>2. c[i] = m - l + 1 \/ i - c[i] < r - m
      BY <2>2, <2>4 DEF FromL
    <3> QED
      BY <2>1, <2>2, <3>1, <3>2
  <2> QED
    BY <2>3, <2>4
<1>3. Nat \subseteq OK
  <2> HIDE DEF OK
  <2> QED
    BY <1>1, <1>2, SetInduction
<1> QED
  BY <1>3

\* The counts only grow.
LEMMA CountsGrow ==
    ASSUME NEW a, NEW l \in Nat, NEW m \in Nat, NEW r \in Nat,
           NEW c, Counting(c, a, l, m, r), NEW k \in 0 .. r - l + 1, NEW j \in k .. r - l + 1
    PROVE  c[k] <= c[j] /\ k - c[k] <= j - c[j]
<1> DEFINE OK == {i \in Nat : k + i <= r - l + 1 =>
                      c[k] <= c[k + i] /\ k - c[k] <= k + i - c[k + i]}
<1>0. c[k] \in Nat
  BY DEF Counting
<1>1. 0 \in OK
  BY <1>0
<1>2. ASSUME NEW i \in Nat, i \in OK PROVE i + 1 \in OK
  <2> SUFFICES ASSUME k + (i + 1) <= r - l + 1
               PROVE  c[k] <= c[k + (i + 1)] /\ k - c[k] <= k + (i + 1) - c[k + (i + 1)]
    OBVIOUS
  <2>1. k + i \in 0 .. r - l /\ k + i \in 0 .. r - l + 1 /\ k + (i + 1) = k + i + 1
    OBVIOUS
  <2>2. c[k + i] \in Nat /\ c[k] <= c[k + i] /\ k - c[k] <= k + i - c[k + i]
    BY <1>2, <2>1 DEF Counting
  <2>3. c[k + i + 1] \in {c[k + i], c[k + i] + 1}
    BY <2>1 DEF Counting
  <2> QED
    BY <1>0, <2>1, <2>2, <2>3
<1>3. Nat \subseteq OK
  <2> HIDE DEF OK
  <2> QED
    BY <1>1, <1>2, SetInduction
<1>4. PICK d \in Nat : j = k + d
  <2>1. j - k \in Nat /\ j = k + (j - k)
    OBVIOUS
  <2> QED
    BY <2>1
<1>5. c[k] <= c[k + d] /\ k - c[k] <= k + d - c[k + d]
  BY <1>3, <1>4
<1>6. c[j] = c[k + d] /\ c[j] \in Nat
  BY <1>4 DEF Counting
<1> QED
  BY <1>0, <1>4, <1>5, <1>6

\* Where merge takes the element for arr[x] from, c being the counts
Took(c, a, l, m, r, x) == FromL(a, l, m, r, c[x - l], x - l - c[x - l])
From(c, a, l, m, r, x) ==
    IF Took(c, a, l, m, r, x) THEN l + c[x - l] ELSE m + 1 + (x - l - c[x - l])

\* merge stores elements of L and R in the places from l to r.
LEMMA FromWhere ==
    ASSUME NEW e \in Nat, NEW a, NEW l, NEW m, NEW r, Halved(l, m, r, e),
           NEW c, Counting(c, a, l, m, r), NEW x \in l .. r
    PROVE  /\ c[x - l] \in Nat /\ x - l - c[x - l] \in Nat
           /\ Took(c, a, l, m, r, x) => From(c, a, l, m, r, x) \in l .. m
           /\ ~Took(c, a, l, m, r, x) => From(c, a, l, m, r, x) \in m + 1 .. r
<1>0. l \in Nat /\ m \in Nat /\ r \in Nat /\ l <= m /\ m < r
  BY DEF Halved
<1> DEFINE k == x - l
           z == k + 1
<1>1. k \in 0 .. r - l /\ k \in 0 .. r - l + 1 /\ z \in 0 .. r - l + 1 /\ z = k + 1
  BY <1>0
<1> HIDE DEF k, z
<1>2. c[k] \in Nat
  BY <1>1 DEF Counting
<1>3. c[k] <= m - l + 1 /\ 0 <= k - c[k] /\ k - c[k] <= r - m
  BY <1>0, <1>1, CountsBounded
<1>4. c[z] \in Nat /\ c[z] <= m - l + 1 /\ z - c[z] <= r - m
  BY <1>0, <1>1, CountsBounded, Zenon DEF Counting
<1>5. CASE Took(c, a, l, m, r, x)
  <2>1. c[z] = c[k] + 1
    BY <1>1, <1>5 DEF Took, Counting, k, z
  <2>2. l + c[k] \in l .. m
    BY <1>0, <1>2, <1>4, <2>1
  <2> QED
    BY <1>0, <1>1, <1>2, <1>3, <1>5, <2>2 DEF From, k
<1>6. CASE ~Took(c, a, l, m, r, x)
  <2>1. c[z] = c[k]
    BY <1>1, <1>6 DEF Took, Counting, k, z
  <2>2. m + 1 + (k - c[k]) \in m + 1 .. r
    BY <1>0, <1>1, <1>2, <1>3, <1>4, <2>1
  <2> QED
    BY <1>0, <1>1, <1>2, <1>3, <1>6, <2>2 DEF From, k
<1> QED
  BY <1>5, <1>6

\* For a later place merge takes from L or R what comes later there.
LEMMA FromLater ==
    ASSUME NEW e \in Nat, NEW a, NEW l, NEW m, NEW r, Halved(l, m, r, e),
           NEW c, Counting(c, a, l, m, r), NEW x \in l .. r, NEW y \in l .. r, x < y
    PROVE  /\ c[x - l] + (IF Took(c, a, l, m, r, x) THEN 1 ELSE 0) <= c[y - l]
           /\ x - l - c[x - l] + (IF Took(c, a, l, m, r, x) THEN 0 ELSE 1) <= y - l - c[y - l]
<1>0. l \in Nat /\ m \in Nat /\ r \in Nat /\ l <= m /\ m < r
  BY DEF Halved
<1> DEFINE k == x - l
           j == y - l
           z == k + 1
<1>1. k \in 0 .. r - l /\ z \in 0 .. r - l + 1 /\ z = k + 1 /\ j \in z .. r - l + 1 /\ j \in Nat
  BY <1>0
<1> HIDE DEF k, j, z
<1>2. c[z] \in Nat /\ c[z] <= c[j] /\ z - c[z] <= j - c[j]
  <2>1. c[z] \in Nat
    BY <1>1 DEF Counting
  <2>2. c[z] <= c[j] /\ z - c[z] <= j - c[j]
    BY <1>0, <1>1, CountsGrow, Zenon
  <2> QED
    BY <2>1, <2>2
<1>3. c[k] \in Nat /\ c[j] \in Nat
  <2>1. k \in 0 .. r - l + 1 /\ j \in 0 .. r - l + 1
    BY <1>0, <1>1
  <2> QED
    BY <2>1 DEF Counting
<1>4. c[z] = c[k] + IF Took(c, a, l, m, r, x) THEN 1 ELSE 0
  BY <1>1, <1>3 DEF Took, Counting, k, z
<1>5. /\ c[k] + (IF Took(c, a, l, m, r, x) THEN 1 ELSE 0) <= c[j]
      /\ k - c[k] + (IF Took(c, a, l, m, r, x) THEN 0 ELSE 1) <= j - c[j]
  BY <1>1, <1>2, <1>3, <1>4
<1> QED
  BY <1>5 DEF k, j

\* merge stores every element of l .. r once and leaves the others.
LEMMA MergeShuffles ==
    ASSUME NEW e \in Nat, NEW a \in Arrays(e), NEW l, NEW m, NEW r, Halved(l, m, r, e)
    PROVE  /\ merge(a, l, m, r) \in Arrays(e)
           /\ Shuffled(merge(a, l, m, r), a, 0 .. e - 1)
           /\ \A x \in 0 .. e - 1 : x \notin l .. r => merge(a, l, m, r)[x] = a[x]
<1>0. l \in Nat /\ m \in Nat /\ r \in Nat /\ l <= m /\ m < r /\ r \in 0 .. e - 1
  BY DEF Halved
<1> DEFINE D == 0 .. e - 1
           c == stored(a, l, m, r)
           F(x) == From(c, a, l, m, r, x)
           p == [x \in D |-> IF x \in l .. r THEN F(x) ELSE x]
           b == merge(a, l, m, r)
<1>1. Counting(c, a, l, m, r)
  BY <1>0, StoredCounts
<1>2. DOMAIN a = D /\ \A x \in D : a[x] \in Values
  BY ArrayType
<1>3. b = [x \in D |-> IF x \in l .. r THEN a[F(x)] ELSE a[x]]
  <2>1. b = [x \in D |-> IF x \notin l .. r THEN a[x]
                         ELSE IF Took(c, a, l, m, r, x) THEN a[l + c[x - l]]
                         ELSE a[m + 1 + (x - l - c[x - l])]]
    BY <1>2 DEF merge, Took
  <2> HIDE DEF b, c, D
  <2> QED
    BY <2>1, Zenon DEF From
<1> HIDE DEF b, c
<1>4. ASSUME NEW x \in l .. r PROVE F(x) \in l .. r /\ F(x) \in D
  <2>1. F(x) \in l .. m \/ F(x) \in m + 1 .. r
    BY <1>1, FromWhere
  <2> HIDE DEF F
  <2> QED
    BY <1>0, <2>1
<1>5. ASSUME NEW x \in l .. r, NEW y \in l .. r, x < y PROVE F(x) # F(y)
  <2>1. /\ c[x - l] + (IF Took(c, a, l, m, r, x) THEN 1 ELSE 0) <= c[y - l]
        /\ x - l - c[x - l] + (IF Took(c, a, l, m, r, x) THEN 0 ELSE 1) <= y - l - c[y - l]
    BY <1>1, <1>5, FromLater
  <2>2. /\ c[x - l] \in Nat /\ x - l - c[x - l] \in Nat
        /\ Took(c, a, l, m, r, x) => F(x) \in l .. m
        /\ ~Took(c, a, l, m, r, x) => F(x) \in m + 1 .. r
    BY <1>1, FromWhere
  <2>3. /\ c[y - l] \in Nat /\ y - l - c[y - l] \in Nat
        /\ Took(c, a, l, m, r, y) => F(y) \in l .. m
        /\ ~Took(c, a, l, m, r, y) => F(y) \in m + 1 .. r
    BY <1>1, FromWhere
  <2>4. CASE Took(c, a, l, m, r, x) /\ Took(c, a, l, m, r, y)
    <3>1. F(x) = l + c[x - l] /\ F(y) = l + c[y - l]
      BY <2>4 DEF From
    <3> QED
      BY <1>0, <2>1, <2>2, <2>3, <2>4, <3>1
  <2>5. CASE ~Took(c, a, l, m, r, x) /\ ~Took(c, a, l, m, r, y)
    <3>1. F(x) = m + 1 + (x - l - c[x - l]) /\ F(y) = m + 1 + (y - l - c[y - l])
      BY <2>5 DEF From
    <3> DEFINE u == x - l - c[x - l]
               v == y - l - c[y - l]
    <3>2. u + 1 <= v /\ u \in Nat /\ v \in Nat
      BY <2>1, <2>2, <2>3, <2>5
    <3>3. F(x) = m + 1 + u /\ F(y) = m + 1 + v
      BY <3>1
    <3> HIDE DEF u, v, F
    <3> QED
      BY <1>0, <3>2, <3>3
  <2>6. CASE Took(c, a, l, m, r, x) /\ ~Took(c, a, l, m, r, y)
    <3> HIDE DEF F
    <3> QED
      BY <1>0, <2>2, <2>3, <2>6
  <2>7. CASE ~Took(c, a, l, m, r, x) /\ Took(c, a, l, m, r, y)
    <3> HIDE DEF F
    <3> QED
      BY <1>0, <2>2, <2>3, <2>7
  <2> QED
    BY <2>4, <2>5, <2>6, <2>7
<1> HIDE DEF F
<1>6. p \in [D -> D] /\ \A x \in D : p[x] = IF x \in l .. r THEN F(x) ELSE x
  BY <1>4
<1> HIDE DEF p
<1>7. ASSUME NEW x \in D, NEW y \in D, p[x] = p[y] PROVE x = y
  <2>1. CASE x \in l .. r /\ y \in l .. r
    <3>1. F(x) = F(y)
      BY <1>6, <1>7, <2>1
    <3>2. ~(x < y) /\ ~(y < x)
      BY <1>5, <2>1, <3>1
    <3> QED
      BY <1>0, <3>2
  <2>2. CASE x \in l .. r /\ y \notin l .. r
    BY <1>4, <1>6, <1>7, <2>2
  <2>3. CASE x \notin l .. r /\ y \in l .. r
    BY <1>4, <1>6, <1>7, <2>3
  <2>4. CASE x \notin l .. r /\ y \notin l .. r
    BY <1>6, <1>7, <2>4
  <2> QED
    BY <2>1, <2>2, <2>3, <2>4
<1>8. Renames(p, D)
  <2>1. IsFiniteSet(D)
    BY FS_Interval
  <2>2. \A x, y \in D : p[x] = p[y] => x = y
    BY <1>7
  <2> HIDE DEF D
  <2> QED
    BY <1>6, <2>1, <2>2, Injected
<1>9. \A x \in D : b[x] = a[p[x]]
  BY <1>3, <1>6
<1>10. Shuffled(b, a, D)
  <2>1. p \in [D -> D]
    BY <1>6
  <2> QED
    BY <1>8, <1>9, <2>1, Zenon DEF Shuffled
<1>11. b \in Arrays(e)
  <2>1. ASSUME NEW x \in D PROVE (IF x \in l .. r THEN a[F(x)] ELSE a[x]) \in Values
    BY <1>2, <1>4
  <2> QED
    BY <1>3, <2>1 DEF Arrays
<1>12. \A x \in D : x \notin l .. r => b[x] = a[x]
  BY <1>3
<1> QED
  BY <1>10, <1>11, <1>12 DEF b

\* merge orders l .. r when both halves are in order.
LEMMA MergeSorts ==
    ASSUME NEW e \in Nat, NEW a \in Arrays(e), NEW l, NEW m, NEW r, Halved(l, m, r, e),
           SortedIn(a, l, m), SortedIn(a, m + 1, r)
    PROVE  SortedIn(merge(a, l, m, r), l, r)
<1>0. l \in Nat /\ m \in Nat /\ r \in Nat /\ l <= m /\ m < r /\ r \in 0 .. e - 1
  BY DEF Halved
<1> DEFINE D == 0 .. e - 1
           c == stored(a, l, m, r)
           T(x) == Took(c, a, l, m, r, x)
           i(x) == c[x - l]
           j(x) == x - l - c[x - l]
           b == merge(a, l, m, r)
<1>1. Counting(c, a, l, m, r)
  BY <1>0, StoredCounts
<1>2. DOMAIN a = D /\ \A x \in D : a[x] \in Int
  BY ArrayType
<1>3. ASSUME NEW x \in l .. r
      PROVE  b[x] = IF T(x) THEN a[l + i(x)] ELSE a[m + 1 + j(x)]
  <2>1. x \in D
    BY <1>0
  <2> HIDE DEF D
  <2> QED
    BY <1>2, <2>1 DEF merge, Took
<1>4. ASSUME NEW x \in l .. r
      PROVE  T(x) <=> (i(x) < m - l + 1 /\ (j(x) < r - m => a[l + i(x)] <= a[m + 1 + j(x)]))
  BY DEF Took, FromL
<1>5. ASSUME NEW x \in l .. r
      PROVE  /\ i(x) \in Nat /\ j(x) \in Nat
             /\ T(x) => l + i(x) \in l .. m
             /\ ~T(x) => m + 1 + j(x) \in m + 1 .. r
  BY <1>1, FromWhere DEF From
<1>6. ASSUME NEW x \in l .. r, NEW y \in l .. r, x < y
      PROVE  /\ i(x) + (IF T(x) THEN 1 ELSE 0) <= i(y)
             /\ j(x) + (IF T(x) THEN 0 ELSE 1) <= j(y)
  BY <1>1, <1>6, FromLater
<1>7. ASSUME NEW u \in Int, NEW v \in Int, l <= u, u <= v, v <= m PROVE a[u] <= a[v]
  <2>1. u \in l .. m /\ v \in l .. m /\ u \in D /\ v \in D
    BY <1>0, <1>7
  <2>2. u < v => a[u] <= a[v]
    BY <2>1 DEF SortedIn
  <2> QED
    BY <1>2, <1>7, <2>1, <2>2
<1>8. ASSUME NEW u \in Int, NEW v \in Int, m + 1 <= u, u <= v, v <= r PROVE a[u] <= a[v]
  <2>1. u \in m + 1 .. r /\ v \in m + 1 .. r /\ u \in D /\ v \in D
    BY <1>0, <1>8
  <2>2. u < v => a[u] <= a[v]
    BY <2>1 DEF SortedIn
  <2> QED
    BY <1>2, <1>8, <2>1, <2>2
<1> HIDE DEF b, c, T, i, j
<1>9. ASSUME NEW x \in l .. r, NEW y \in l .. r, x < y PROVE b[x] <= b[y]
  <2>0. i(x) \in Nat /\ j(x) \in Nat /\ i(y) \in Nat /\ j(y) \in Nat
    BY <1>5
  <2>1. CASE T(x) /\ T(y)
    <3>1. l <= l + i(x) /\ l + i(x) <= l + i(y) /\ l + i(y) <= m
      BY <1>0, <1>5, <1>6, <1>9, <2>0, <2>1
    <3>2. a[l + i(x)] <= a[l + i(y)]
      BY <1>0, <1>7, <2>0, <3>1
    <3> QED
      BY <1>3, <2>1, <3>2
  <2>2. CASE T(x) /\ ~T(y)
    <3>1. /\ m + 1 <= m + 1 + j(x) /\ m + 1 + j(x) <= m + 1 + j(y) /\ m + 1 + j(y) <= r
          /\ j(x) < r - m
      BY <1>0, <1>5, <1>6, <1>9, <2>0, <2>2
    <3>2. a[m + 1 + j(x)] <= a[m + 1 + j(y)]
      BY <1>0, <1>8, <2>0, <3>1
    <3>3. a[l + i(x)] <= a[m + 1 + j(x)]
      BY <1>4, <2>2, <3>1
    <3>4. a[l + i(x)] \in Int /\ a[m + 1 + j(x)] \in Int /\ a[m + 1 + j(y)] \in Int
      <4>1. l + i(x) \in D /\ m + 1 + j(x) \in D /\ m + 1 + j(y) \in D
        BY <1>0, <1>5, <2>0, <2>2, <3>1
      <4> HIDE DEF D
      <4> QED
        BY <1>2, <4>1
    <3>5. a[l + i(x)] <= a[m + 1 + j(y)]
      BY <3>2, <3>3, <3>4
    <3> QED
      BY <1>3, <2>2, <3>5
  <2>3. CASE ~T(x) /\ T(y)
    <3>1. l <= l + i(x) /\ l + i(x) <= l + i(y) /\ l + i(y) <= m /\ i(x) < m - l + 1
      BY <1>0, <1>5, <1>6, <1>9, <2>0, <2>3
    <3>2. a[l + i(x)] <= a[l + i(y)]
      BY <1>0, <1>7, <2>0, <3>1
    <3>3. ~(a[l + i(x)] <= a[m + 1 + j(x)])
      BY <1>4, <2>3, <3>1
    <3>4. a[l + i(x)] \in Int /\ a[l + i(y)] \in Int /\ a[m + 1 + j(x)] \in Int
      <4>1. l + i(x) \in D /\ l + i(y) \in D /\ m + 1 + j(x) \in D
        BY <1>0, <1>5, <2>0, <2>3, <3>1
      <4> HIDE DEF D
      <4> QED
        BY <1>2, <4>1
    <3>5. a[m + 1 + j(x)] <= a[l + i(y)]
      BY <3>2, <3>3, <3>4
    <3> QED
      BY <1>3, <2>3, <3>5
  <2>4. CASE ~T(x) /\ ~T(y)
    <3>1. m + 1 <= m + 1 + j(x) /\ m + 1 + j(x) <= m + 1 + j(y) /\ m + 1 + j(y) <= r
      BY <1>0, <1>5, <1>6, <1>9, <2>0, <2>4
    <3>2. a[m + 1 + j(x)] <= a[m + 1 + j(y)]
      BY <1>0, <1>8, <2>0, <3>1
    <3> QED
      BY <1>3, <2>4, <3>2
  <2> QED
    BY <2>1, <2>2, <2>3, <2>4
<1> QED
  BY <1>9 DEF SortedIn, b

-----------------------------------------------------------------------------
(* Sorting: mergeSort *)

\* Where a call of mergeSort halves the array
Mid(l, r) == l + (r - l) \div 2

\* A call c of mergeSort, when g gives what the calls in it return
SortBody(g, c) ==
    IF c[2] < c[3]
    THEN merge(g[<<g[<<c[1], c[2], Mid(c[2], c[3])>>], Mid(c[2], c[3]) + 1, c[3]>>],
               c[2], Mid(c[2], c[3]), c[3])
    ELSE c[1]

\* The calls for an array of e elements
Ends(e) == 0 .. e - 1 \cup {-1}
CallsOf(e) == Calls(0 .. e - 1)

\* A call has an array, its first index and its last one.
LEMMA CallParts ==
    ASSUME NEW e \in Nat
    PROVE  /\ \A a \in Arrays(e), l \in Nat, r \in Ends(e) : <<a, l, r>> \in CallsOf(e)
           /\ \A c \in CallsOf(e) : /\ c[1] \in Arrays(e) /\ c[2] \in Nat /\ c[3] \in Ends(e)
                                    /\ c = <<c[1], c[2], c[3]>>
<1> DEFINE A == [0 .. e - 1 -> Values]
<1> HIDE DEF A
<1>1. CallsOf(e) = A \X Nat \X Ends(e) /\ Arrays(e) = A
  BY DEF CallsOf, Calls, Ends, Arrays, A
<1> HIDE DEF Ends
<1> QED
  BY <1>1

\* The two halves of a call are smaller calls.
LEMMA MidHalves ==
    ASSUME NEW e \in Nat, NEW l \in Nat, NEW r \in Ends(e), l < r
    PROVE  /\ Halved(l, Mid(l, r), r, e)
           /\ Mid(l, r) \in Ends(e) /\ Mid(l, r) + 1 \in Nat
           /\ Mid(l, r) - l < r - l /\ r - (Mid(l, r) + 1) < r - l
<1>1. r \in 0 .. e - 1
  BY DEF Ends
<1> DEFINE d == r - l
           h == d \div 2
<1>2. d \in Nat /\ d > 0 /\ r = l + d
  BY <1>1
<1> HIDE DEF d
<1>3. h \in Nat /\ h < d
  BY <1>2
<1> HIDE DEF h
<1>4. Mid(l, r) = l + h
  BY DEF Mid, d, h
<1> QED
  BY <1>1, <1>2, <1>3, <1>4 DEF Halved, Ends

\* The arrays on which the calls in a call work
FirstHalf(g, a, l, r) == g[<<a, l, Mid(l, r)>>]
SecondHalf(g, a, l, r) == g[<<FirstHalf(g, a, l, r), Mid(l, r) + 1, r>>]

\* A call of two or more elements merges the two halves.
LEMMA BodyIs ==
    ASSUME NEW g, NEW a, NEW l, NEW r
    PROVE  l < r => SortBody(g, <<a, l, r>>) = merge(SecondHalf(g, a, l, r), l, Mid(l, r), r)
BY DEF SortBody, FirstHalf, SecondHalf

\* g gives arrays for the calls.
Returns(g, e) == \A c \in CallsOf(e) : g[c] \in Arrays(e)

\* A call returns an array when the calls in it do.
LEMMA BodyReturns ==
    ASSUME NEW e \in Nat, NEW g, Returns(g, e), NEW a \in Arrays(e), NEW l \in Nat, NEW r \in Ends(e)
    PROVE  /\ SortBody(g, <<a, l, r>>) \in Arrays(e)
           /\ l < r => FirstHalf(g, a, l, r) \in Arrays(e) /\ SecondHalf(g, a, l, r) \in Arrays(e)
<1>1. CASE l < r
  <2>1. Halved(l, Mid(l, r), r, e) /\ Mid(l, r) \in Ends(e) /\ Mid(l, r) + 1 \in Nat
    BY <1>1, MidHalves
  <2>2. FirstHalf(g, a, l, r) \in Arrays(e)
    <3>1. <<a, l, Mid(l, r)>> \in CallsOf(e)
      BY <2>1, CallParts, Zenon
    <3> QED
      BY <3>1, Zenon DEF Returns, FirstHalf
  <2>3. SecondHalf(g, a, l, r) \in Arrays(e)
    <3>1. <<FirstHalf(g, a, l, r), Mid(l, r) + 1, r>> \in CallsOf(e)
      BY <2>1, <2>2, CallParts, Zenon
    <3> QED
      BY <3>1, Zenon DEF Returns, SecondHalf
  <2>4. merge(SecondHalf(g, a, l, r), l, Mid(l, r), r) \in Arrays(e)
    BY <2>1, <2>3, MergeShuffles, Zenon
  <2> QED
    BY <1>1, <2>2, <2>3, <2>4, BodyIs, Zenon
<1>2. CASE ~(l < r)
  <2>1. SortBody(g, <<a, l, r>>) = a
    BY <1>2 DEF SortBody
  <2> QED
    BY <1>2, <2>1
<1> QED
  BY <1>1, <1>2

\* g and h agree on the calls of up to d elements.
Agree(g, h, e, d) ==
    \A b \in Arrays(e), i \in Nat, j \in Ends(e) : j - i < d => g[<<b, i, j>>] = h[<<b, i, j>>]

\* Then they give the same for a larger call.
LEMMA BodyAgrees ==
    ASSUME NEW e \in Nat, NEW g, NEW h, Returns(g, e),
           NEW a \in Arrays(e), NEW l \in Nat, NEW r \in Ends(e),
           Agree(g, h, e, r - l)
    PROVE  SortBody(g, <<a, l, r>>) = SortBody(h, <<a, l, r>>)
<1>1. CASE l < r
  <2>1. /\ Mid(l, r) \in Ends(e) /\ Mid(l, r) + 1 \in Nat
        /\ Mid(l, r) - l < r - l /\ r - (Mid(l, r) + 1) < r - l
    BY <1>1, MidHalves
  <2>2. FirstHalf(g, a, l, r) \in Arrays(e)
    BY <1>1, BodyReturns, Zenon
  <2>3. FirstHalf(g, a, l, r) = FirstHalf(h, a, l, r)
    BY <2>1, Zenon DEF FirstHalf, Agree
  <2>4. SecondHalf(g, a, l, r) = SecondHalf(h, a, l, r)
    BY <2>1, <2>2, <2>3, Zenon DEF SecondHalf, Agree
  <2>5. SortBody(g, <<a, l, r>>) = merge(SecondHalf(g, a, l, r), l, Mid(l, r), r)
    BY <1>1, BodyIs, Zenon
  <2>6. SortBody(h, <<a, l, r>>) = merge(SecondHalf(h, a, l, r), l, Mid(l, r), r)
    BY <1>1, BodyIs, Zenon
  <2> QED
    BY <2>4, <2>5, <2>6
<1>2. CASE ~(l < r)
  <2>1. SortBody(g, <<a, l, r>>) = a
    BY <1>2 DEF SortBody
  <2>2. SortBody(h, <<a, l, r>>) = a
    BY <1>2 DEF SortBody
  <2> QED
    BY <2>1, <2>2
<1> QED
  BY <1>1, <1>2

\* h[k] gives what the calls return when only k calls may be open at a time.
Deepening(h, e) ==
    /\ \A k \in Nat : Returns(h[k], e)
    /\ \A a \in Arrays(e), l \in Nat, r \in Ends(e) :
          /\ h[0][<<a, l, r>>] = a
          /\ \A k \in Nat : h[k + 1][<<a, l, r>>] = SortBody(h[k], <<a, l, r>>)

\* Such values exist: they are defined one depth after the other.
LEMMA Deepens ==
    ASSUME NEW e \in Nat
    PROVE  \E h : Deepening(h, e)
<1> DEFINE C == CallsOf(e)
           A == Arrays(e)
           S == [C -> A]
           first == [c \in C |-> c[1]]
           deeper(g) == [c \in C |-> SortBody(g, c)]
           step == [k \in Nat |-> [g \in S |-> deeper(g)]]
<1>1. first \in S
  BY CallParts
<1>2. ASSUME NEW g \in S PROVE deeper(g) \in S
  <2>1. Returns(g, e)
    BY DEF Returns
  <2>2. ASSUME NEW c \in C PROVE SortBody(g, c) \in A
    <3>1. c[1] \in Arrays(e) /\ c[2] \in Nat /\ c[3] \in Ends(e) /\ c = <<c[1], c[2], c[3]>>
      BY CallParts
    <3>2. SortBody(g, <<c[1], c[2], c[3]>>) \in Arrays(e)
      BY <2>1, <3>1, BodyReturns, Zenon
    <3> QED
      BY <3>1, <3>2
  <2> HIDE DEF A, C
  <2> QED
    BY <2>2
<1>3. PICK h : Iterates(h, S, first, step)
  <2> HIDE DEF deeper, S
  <2>1. step \in [Nat -> [S -> S]]
    BY <1>2
  <2> HIDE DEF step, first
  <2> QED
    BY <1>1, <2>1, Recursion, Zenon
<1>4. ASSUME NEW k \in Nat PROVE h[k] \in S
  <2> HIDE DEF S, step, first
  <2> QED
    BY <1>3 DEF Iterates
<1>5. ASSUME NEW k \in Nat PROVE Returns(h[k], e)
  BY <1>4 DEF Returns
<1>6. h[0] = first
  <2> HIDE DEF S, step, first
  <2> QED
    BY <1>3 DEF Iterates
<1>7. ASSUME NEW k \in Nat PROVE h[k + 1] = deeper(h[k])
  <2> HIDE DEF S, first
  <2>1. k + 1 \in Nat /\ k + 1 # 0 /\ k + 1 - 1 = k
    OBVIOUS
  <2>2. h[k + 1] = step[k][h[k]]
    <3> HIDE DEF step
    <3>1. \A i \in Nat : h[i] = IF i = 0 THEN first ELSE step[i - 1][h[i - 1]]
      BY <1>3, Zenon DEF Iterates
    <3> QED
      BY <2>1, <3>1
  <2> HIDE DEF deeper
  <2>3. step[k][h[k]] = deeper(h[k])
    BY <1>4
  <2> QED
    BY <2>2, <2>3
<1>8. ASSUME NEW a \in Arrays(e), NEW l \in Nat, NEW r \in Ends(e)
      PROVE  /\ h[0][<<a, l, r>>] = a
             /\ \A k \in Nat : h[k + 1][<<a, l, r>>] = SortBody(h[k], <<a, l, r>>)
  <2>1. <<a, l, r>> \in C
    BY CallParts, Zenon
  <2> HIDE DEF C
  <2>2. first[<<a, l, r>>] = a
    BY <2>1
  <2>3. ASSUME NEW k \in Nat PROVE h[k + 1][<<a, l, r>>] = SortBody(h[k], <<a, l, r>>)
    <3>1. deeper(h[k])[<<a, l, r>>] = SortBody(h[k], <<a, l, r>>)
      BY <2>1, Zenon
    <3> HIDE DEF deeper
    <3> QED
      BY <1>7, <3>1
  <2> HIDE DEF first
  <2> QED
    BY <1>6, <2>2, <2>3
<1> QED
  BY <1>5, <1>8 DEF Deepening

\* A call of r - l + 1 elements needs no more than so many open calls.
LEMMA Stable ==
    ASSUME NEW e \in Nat, NEW h, Deepening(h, e), NEW d \in Nat, NEW k \in Nat,
           NEW a \in Arrays(e), NEW l \in Nat, NEW r \in Ends(e), r - l < k
    PROVE  h[k + d][<<a, l, r>>] = h[k][<<a, l, r>>]
<1>0. Ends(e) \subseteq Int
  BY DEF Ends
<1> DEFINE Same(i, j) == \A b \in Arrays(e), x \in Nat, y \in Ends(e) :
                           y - x < i => h[j][<<b, x, y>>] = h[i][<<b, x, y>>]
           Once == {i \in Nat : Same(i, i + 1)}
<1>1. 0 \in Once
  <2>1. Same(0, 0 + 1)
    <3> SUFFICES ASSUME NEW b \in Arrays(e), NEW x \in Nat, NEW y \in Ends(e), y - x < 0
                 PROVE  h[0 + 1][<<b, x, y>>] = h[0][<<b, x, y>>]
      OBVIOUS
    <3>1. ~(x < y)
      BY <1>0
    <3>2. SortBody(h[0], <<b, x, y>>) = b
      BY <3>1 DEF SortBody
    <3>3. h[0 + 1][<<b, x, y>>] = SortBody(h[0], <<b, x, y>>) /\ h[0][<<b, x, y>>] = b
      <4>1. 0 \in Nat
        OBVIOUS
      <4> QED
        BY <4>1 DEF Deepening
    <3> QED
      BY <3>2, <3>3
  <2> HIDE DEF Same
  <2> QED
    BY <2>1
<1>2. ASSUME NEW i \in Nat, i \in Once PROVE i + 1 \in Once
  <2>1. Same(i, i + 1)
    BY <1>2
  <2>2. Same(i + 1, i + 1 + 1)
    <3> SUFFICES ASSUME NEW b \in Arrays(e), NEW x \in Nat, NEW y \in Ends(e), y - x < i + 1
                 PROVE  h[i + 1 + 1][<<b, x, y>>] = h[i + 1][<<b, x, y>>]
      OBVIOUS
    <3>1. i + 1 \in Nat
      OBVIOUS
    <3>2. h[i + 1 + 1][<<b, x, y>>] = SortBody(h[i + 1], <<b, x, y>>)
      BY <3>1 DEF Deepening
    <3>3. h[i + 1][<<b, x, y>>] = SortBody(h[i], <<b, x, y>>)
      BY DEF Deepening
    <3>4. Returns(h[i + 1], e)
      BY <3>1, Zenon DEF Deepening
    <3>5. ASSUME NEW c \in Arrays(e), NEW u \in Nat, NEW v \in Ends(e), v - u < y - x
          PROVE  h[i + 1][<<c, u, v>>] = h[i][<<c, u, v>>]
      <4>1. v - u < i
        BY <1>0, <3>5
      <4> QED
        BY <2>1, <4>1, Zenon
    <3>6. SortBody(h[i + 1], <<b, x, y>>) = SortBody(h[i], <<b, x, y>>)
      <4>1. Agree(h[i + 1], h[i], e, y - x)
        BY <3>5 DEF Agree
      <4> QED
        BY <3>4, <4>1, BodyAgrees
    <3> QED
      BY <3>2, <3>3, <3>6
  <2> HIDE DEF Same
  <2> QED
    BY <2>2
<1>3. Nat \subseteq Once
  <2> HIDE DEF Once
  <2> QED
    BY <1>1, <1>2, SetInduction
<1> DEFINE OK == {i \in Nat : h[k + i][<<a, l, r>>] = h[k][<<a, l, r>>]}
<1>4. 0 \in OK
  <2>1. k + 0 = k
    OBVIOUS
  <2> QED
    BY <2>1
<1>5. ASSUME NEW i \in Nat, i \in OK PROVE i + 1 \in OK
  <2>1. k + i \in Nat /\ k + (i + 1) = k + i + 1 /\ r - l < k + i
    BY <1>0
  <2>2. Same(k + i, k + i + 1)
    <3> HIDE DEF Same
    <3> QED
      BY <1>3, <2>1
  <2>3. h[k + i + 1][<<a, l, r>>] = h[k + i][<<a, l, r>>]
    BY <2>1, <2>2, Zenon
  <2> QED
    BY <1>5, <2>1, <2>3
<1>6. Nat \subseteq OK
  <2> HIDE DEF OK
  <2> QED
    BY <1>4, <1>5, SetInduction
<1> QED
  BY <1>6

\* mergeSort is defined.
LEMMA SortedExists ==
    ASSUME NEW e \in Nat
    PROVE  \E s : s = [c \in CallsOf(e) |-> SortBody(s, c)]
<1>0. Ends(e) \subseteq Int
  BY DEF Ends
<1>1. PICK h : Deepening(h, e)
  BY Deepens
<1> DEFINE C == CallsOf(e)
           Need(l, r) == IF l <= r THEN r - l + 1 ELSE 0
           s == [c \in C |-> h[Need(c[2], c[3])][c]]
<1>2. ASSUME NEW l \in Nat, NEW r \in Ends(e) PROVE Need(l, r) \in Nat /\ r - l < Need(l, r)
  BY <1>0
<1>3. ASSUME NEW l \in Nat, NEW r \in Ends(e), NEW i \in Nat, NEW j \in Ends(e), j - i < r - l
      PROVE  Need(l, r) - Need(i, j) \in Nat
  BY <1>0, <1>3
<1> HIDE DEF Need
<1>4. ASSUME NEW a \in Arrays(e), NEW l \in Nat, NEW r \in Ends(e)
      PROVE  s[<<a, l, r>>] = h[Need(l, r)][<<a, l, r>>]
  <2>1. <<a, l, r>> \in C
    BY CallParts, Zenon
  <2>2. <<a, l, r>>[2] = l /\ <<a, l, r>>[3] = r
    OBVIOUS
  <2>3. s[<<a, l, r>>] = h[Need(<<a, l, r>>[2], <<a, l, r>>[3])][<<a, l, r>>]
    BY <2>1, Zenon
  <2> QED
    BY <2>2, <2>3
<1>5. ASSUME NEW a \in Arrays(e), NEW l \in Nat, NEW r \in Ends(e)
      PROVE  s[<<a, l, r>>] = SortBody(s, <<a, l, r>>)
  <2> DEFINE k == Need(l, r)
  <2>1. k \in Nat /\ r - l < k
    BY <1>2
  <2> HIDE DEF k, s
  <2>2. h[k + 1][<<a, l, r>>] = h[k][<<a, l, r>>]
    <3>1. 1 \in Nat
      OBVIOUS
    <3> QED
      BY <1>1, <2>1, <3>1, Stable
  <2>3. h[k + 1][<<a, l, r>>] = SortBody(h[k], <<a, l, r>>) /\ Returns(h[k], e)
    <3>1. Returns(h[k], e)
      BY <1>1, <2>1, Zenon DEF Deepening
    <3>2. \A n \in Nat : h[n + 1][<<a, l, r>>] = SortBody(h[n], <<a, l, r>>)
      BY <1>1, Zenon DEF Deepening
    <3> QED
      BY <2>1, <3>1, <3>2, Zenon
  <2>4. ASSUME NEW b \in Arrays(e), NEW i \in Nat, NEW j \in Ends(e), j - i < r - l
        PROVE  h[k][<<b, i, j>>] = s[<<b, i, j>>]
    <3> DEFINE u == Need(i, j)
               d == k - u
    <3>1. u \in Nat /\ j - i < u
      BY <1>2
    <3>2. d \in Nat
      BY <1>3, <2>4 DEF k
    <3>3. u + d = k
      BY <2>1, <3>1
    <3>4. s[<<b, i, j>>] = h[u][<<b, i, j>>]
      BY <1>4
    <3> HIDE DEF u, d
    <3>5. h[u + d][<<b, i, j>>] = h[u][<<b, i, j>>]
      BY <1>1, <3>1, <3>2, Stable
    <3> QED
      BY <3>3, <3>4, <3>5
  <2>5. SortBody(h[k], <<a, l, r>>) = SortBody(s, <<a, l, r>>)
    <3>1. Agree(h[k], s, e, r - l)
      BY <2>4 DEF Agree
    <3> QED
      BY <2>3, <3>1, BodyAgrees
  <2>6. s[<<a, l, r>>] = h[k][<<a, l, r>>]
    BY <1>4 DEF k
  <2> QED
    BY <2>2, <2>3, <2>5, <2>6, Zenon
<1>6. s = [c \in C |-> s[c]]
  OBVIOUS
<1> HIDE DEF s
<1>7. ASSUME NEW c \in C PROVE s[c] = SortBody(s, c)
  <2>1. c[1] \in Arrays(e) /\ c[2] \in Nat /\ c[3] \in Ends(e) /\ c = <<c[1], c[2], c[3]>>
    BY CallParts
  <2>2. s[<<c[1], c[2], c[3]>>] = SortBody(s, <<c[1], c[2], c[3]>>)
    BY <1>5, <2>1, Zenon
  <2> QED
    BY <2>1, <2>2
<1>8. s = [c \in C |-> SortBody(s, c)]
  BY <1>6, <1>7
<1> QED
  BY <1>8

\* b is a with the elements from l to r in order and the others in place.
SortedFrom(b, a, l, r, e) ==
    /\ b \in Arrays(e) /\ Shuffled(b, a, 0 .. e - 1) /\ SortedIn(b, l, r)
    /\ \A x \in 0 .. e - 1 : x \notin l .. r => b[x] = a[x]

\* When the calls for the halves sort, merge completes the sort.
LEMMA HalvesSort ==
    ASSUME NEW e \in Nat, NEW a \in Arrays(e), NEW l, NEW m, NEW r, Halved(l, m, r, e),
           NEW b, SortedFrom(b, a, l, m, e), NEW c, SortedFrom(c, b, m + 1, r, e)
    PROVE  SortedFrom(merge(c, l, m, r), a, l, r, e)
<1>0. l \in Nat /\ m \in Nat /\ r \in Nat /\ l <= m /\ m < r /\ r \in 0 .. e - 1
  BY DEF Halved
<1>1. b \in Arrays(e) /\ Shuffled(b, a, 0 .. e - 1) /\ SortedIn(b, l, m)
  BY DEF SortedFrom
<1>2. c \in Arrays(e) /\ Shuffled(c, b, 0 .. e - 1) /\ SortedIn(c, m + 1, r)
  BY DEF SortedFrom
<1>3. SortedIn(c, l, m)
  <2>1. ASSUME NEW x \in l .. m PROVE c[x] = b[x]
    <3>1. x \in 0 .. e - 1 /\ x \notin m + 1 .. r
      BY <1>0
    <3> QED
      BY <3>1 DEF SortedFrom
  <2> QED
    BY <1>1, <2>1 DEF SortedIn
<1> DEFINE d == merge(c, l, m, r)
<1>4. SortedIn(d, l, r)
  BY <1>2, <1>3, MergeSorts
<1>5. d \in Arrays(e) /\ Shuffled(d, c, 0 .. e - 1)
        /\ \A x \in 0 .. e - 1 : x \notin l .. r => d[x] = c[x]
  BY <1>2, MergeShuffles
<1> HIDE DEF d
<1>6. Shuffled(d, a, 0 .. e - 1)
  <2>1. Shuffled(d, b, 0 .. e - 1)
    BY <1>2, <1>5, ShuffledTwice
  <2> QED
    BY <1>1, <2>1, ShuffledTwice
<1>7. ASSUME NEW x \in 0 .. e - 1, x \notin l .. r PROVE d[x] = a[x]
  <2>1. x \notin l .. m /\ x \notin m + 1 .. r
    BY <1>0, <1>7
  <2>2. b[x] = a[x]
    BY <2>1 DEF SortedFrom
  <2>3. c[x] = b[x]
    BY <2>1 DEF SortedFrom
  <2> QED
    BY <1>5, <1>7, <2>2, <2>3
<1>8. SortedFrom(d, a, l, r, e)
  BY <1>4, <1>5, <1>6, <1>7 DEF SortedFrom
<1> QED
  BY <1>8 DEF d

\* mergeSort(arr, l, r) orders the elements from l to r.
LEMMA MergeSortSorts ==
    ASSUME NEW e \in Nat, NEW a \in Arrays(e), NEW l \in Nat, NEW r \in Ends(e)
    PROVE  SortedFrom(mergeSort(a, l, r), a, l, r, e)
<1>0. Ends(e) \subseteq Int
  BY DEF Ends
<1> DEFINE Def(g) == g = [c \in CallsOf(e) |-> SortBody(g, c)]
           s == CHOOSE g : Def(g)
<1>1. Def(s)
  BY SortedExists
<1>2. mergeSort(a, l, r) = s[<<a, l, r>>]
  <2>1. DOMAIN a = 0 .. e - 1
    BY ArrayType
  <2> QED
    BY <2>1 DEF mergeSort, SortBody, CallsOf, Mid
<1> HIDE DEF s
<1>3. ASSUME NEW b \in Arrays(e), NEW i \in Nat, NEW j \in Ends(e)
      PROVE  s[<<b, i, j>>] = SortBody(s, <<b, i, j>>)
  <2>1. <<b, i, j>> \in CallsOf(e)
    BY CallParts, Zenon
  <2> QED
    BY <1>1, <2>1, Zenon
<1> HIDE DEF Def
<1> DEFINE Sorts(b, i, j) == SortedFrom(s[<<b, i, j>>], b, i, j, e)
           OK == {k \in Nat : \A b \in Arrays(e), i \in Nat, j \in Ends(e) : j - i < k => Sorts(b, i, j)}
<1>4. ASSUME NEW b \in Arrays(e), NEW i \in Nat, NEW j \in Ends(e), ~(i < j)
      PROVE  Sorts(b, i, j)
  <2>1. SortBody(s, <<b, i, j>>) = b
    BY <1>4 DEF SortBody
  <2>2. s[<<b, i, j>>] = b
    BY <1>3, <2>1
  <2>3. SortedIn(b, i, j)
    BY <1>0, <1>4 DEF SortedIn
  <2>4. SortedFrom(b, b, i, j, e)
    BY <2>3, ShuffledSame DEF SortedFrom
  <2> QED
    BY <2>2, <2>4
<1>5. 0 \in OK
  <2>1. ASSUME NEW b \in Arrays(e), NEW i \in Nat, NEW j \in Ends(e), j - i < 0
        PROVE  Sorts(b, i, j)
    <3>1. ~(i < j)
      BY <1>0, <2>1
    <3> QED
      BY <1>4, <3>1
  <2> HIDE DEF Sorts
  <2> QED
    BY <2>1
<1>6. ASSUME NEW k \in Nat, k \in OK PROVE k + 1 \in OK
  <2>0. ASSUME NEW b \in Arrays(e), NEW i \in Nat, NEW j \in Ends(e), j - i < k PROVE Sorts(b, i, j)
    <3> HIDE DEF Sorts
    <3> QED
      BY <1>6, <2>0
  <2>1. ASSUME NEW b \in Arrays(e), NEW i \in Nat, NEW j \in Ends(e), j - i < k + 1
        PROVE  Sorts(b, i, j)
    <3>1. CASE ~(i < j)
      BY <1>4, <3>1
    <3>2. CASE i < j
      <4> DEFINE m == Mid(i, j)
                 c == FirstHalf(s, b, i, j)
                 d == SecondHalf(s, b, i, j)
      <4>1. /\ Halved(i, m, j, e) /\ m \in Ends(e) /\ m + 1 \in Nat
            /\ m - i < j - i /\ j - (m + 1) < j - i
        BY <3>2, MidHalves
      <4>2. m - i < k /\ j - (m + 1) < k
        <5> HIDE DEF m
        <5> QED
          BY <1>0, <2>1, <4>1
      <4>3. SortedFrom(c, b, i, m, e)
        <5>1. Sorts(b, i, m)
          BY <2>0, <4>1, <4>2
        <5> QED
          BY <5>1 DEF FirstHalf
      <4>4. c \in Arrays(e)
        BY <4>3 DEF SortedFrom
      <4>5. SortedFrom(d, c, m + 1, j, e)
        <5>1. Sorts(c, m + 1, j)
          <6> HIDE DEF c, m, Sorts
          <6> QED
            BY <2>0, <4>1, <4>2, <4>4
        <5> QED
          BY <5>1 DEF SecondHalf
      <4>6. s[<<b, i, j>>] = merge(d, i, m, j)
        <5>1. s[<<b, i, j>>] = SortBody(s, <<b, i, j>>)
          BY <1>3
        <5>2. SortBody(s, <<b, i, j>>) = merge(d, i, m, j)
          BY <3>2, BodyIs
        <5> QED
          BY <5>1, <5>2
      <4> HIDE DEF c, d, m
      <4>7. SortedFrom(merge(d, i, m, j), b, i, j, e)
        BY <4>1, <4>3, <4>5, HalvesSort
      <4> QED
        BY <4>6, <4>7
    <3> QED
      BY <3>1, <3>2
  <2> HIDE DEF Sorts
  <2> QED
    BY <2>1
<1>7. Nat \subseteq OK
  <2> HIDE DEF OK
  <2> QED
    BY <1>5, <1>6, SetInduction
<1>8. Sorts(a, l, r)
  <2> DEFINE k == IF l <= r THEN r - l + 1 ELSE 0
  <2>1. k \in Nat /\ r - l < k
    BY <1>0
  <2> HIDE DEF Sorts, k
  <2> QED
    BY <1>7, <2>1
<1> QED
  BY <1>2, <1>8

-----------------------------------------------------------------------------
(* Sorting: the invariant and the theorems *)

\* What every state of the sorting workload satisfies: the arrays have one length,
\* and arr is what the sort made of input.
SortingInv ==
    /\ algorithm \in {"merge", "bubble"}
    /\ \E e \in Nat : arr \in Arrays(e) /\ input \in Arrays(e)
    /\ phase = "sorted" => arr = f(input, 0, Cardinality(DOMAIN input) - 1)

\* The length of an array is the number of its indices.
LEMMA ArrayLength ==
    ASSUME NEW e \in Nat, NEW a \in Arrays(e)
    PROVE  DOMAIN a = 0 .. e - 1 /\ Cardinality(DOMAIN a) = e
<1>1. DOMAIN a = 0 .. e - 1
  BY ArrayType
<1>2. Cardinality(0 .. e - 1) = e
  <2>1. 0 \in Int /\ e - 1 \in Int /\ (0 > e - 1 <=> e = 0) /\ e - 1 - 0 + 1 = e
    OBVIOUS
  <2> QED
    BY <2>1, FS_Interval
<1> QED
  BY <1>1, <1>2

\* What the sort returns is an array of the same length.
LEMMA SortReturns ==
    ASSUME NEW e \in Nat, NEW a \in Arrays(e)
    PROVE  f(a, 0, e - 1) \in Arrays(e) /\ Shuffled(f(a, 0, e - 1), a, 0 .. e - 1)
<1>1. mergeSort(a, 0, e - 1) \in Arrays(e) /\ Shuffled(mergeSort(a, 0, e - 1), a, 0 .. e - 1)
  <2>1. 0 \in Nat /\ e - 1 \in Ends(e)
    BY DEF Ends
  <2> QED
    BY <2>1, MergeSortSorts DEF SortedFrom
<1>2. bubbleSort(a, 0, e - 1) \in Arrays(e) /\ Shuffled(bubbleSort(a, 0, e - 1), a, 0 .. e - 1)
  BY BubbleSorts
<1> QED
  BY <1>1, <1>2 DEF f

\* The invariant holds at first, and every step keeps it: replacing an element of an
\* unsorted array, and the sort.
LEMMA SortingInductive ==
    /\ Init => SortingInv
    /\ SortingInv /\ [Next]_vars => SortingInv'
<1>1. ASSUME Init PROVE SortingInv
  <2>1. PICK e \in 0 .. MaxLen : arr \in [0 .. e - 1 -> Values]
    BY <1>1 DEF Init
  <2>2. e \in Nat /\ arr \in Arrays(e)
    BY <2>1, SortingAssumption DEF Arrays
  <2> QED
    BY <1>1, <2>2 DEF Init, SortingInv
<1>2. ASSUME SortingInv, Sort PROVE SortingInv'
  <2>1. PICK e \in Nat : arr \in Arrays(e)
    BY <1>2 DEF SortingInv
  <2>2. len = e /\ Cardinality(DOMAIN arr) = e
    BY <2>1, ArrayLength DEF len
  <2>3. arr' = f(arr, 0, e - 1) /\ input' = arr /\ algorithm' = algorithm
    BY <1>2, <2>2 DEF Sort
  <2>4. arr' \in Arrays(e) /\ input' \in Arrays(e)
    BY <2>1, <2>3, SortReturns
  <2>5. arr' = f(input, 0, Cardinality(DOMAIN input) - 1)'
    <3>1. f(input, 0, Cardinality(DOMAIN input) - 1)'
            = f(arr, 0, Cardinality(DOMAIN arr) - 1)
      BY <2>3 DEF f
    <3> QED
      BY <2>2, <2>3, <3>1
  <2> QED
    BY <1>2, <2>3, <2>4, <2>5 DEF SortingInv
<1>3. ASSUME SortingInv, Replace PROVE SortingInv'
  <2>1. PICK e \in Nat : arr \in Arrays(e) /\ input \in Arrays(e)
    BY <1>3 DEF SortingInv
  <2>2. PICK i \in DOMAIN arr, v \in Values : arr' = [arr EXCEPT ![i] = v]
    BY <1>3, Zenon DEF Replace
  <2>3. arr' \in Arrays(e)
    BY <2>1, <2>2 DEF Arrays
  <2>4. phase' = "replaced" /\ algorithm' = algorithm /\ input' = input
    BY <1>3 DEF Replace
  <2> QED
    BY <1>3, <2>1, <2>3, <2>4 DEF SortingInv
<1>4. ASSUME SortingInv, UNCHANGED vars PROVE SortingInv'
  <2>1. algorithm' = algorithm /\ arr' = arr /\ input' = input /\ phase' = phase
    BY <1>4 DEF vars
  <2>2. f(input, 0, Cardinality(DOMAIN input) - 1)' = f(input, 0, Cardinality(DOMAIN input) - 1)
    BY <2>1 DEF f
  <2> QED
    BY <1>4, <2>1, <2>2 DEF SortingInv
<1> QED
  BY <1>1, <1>2, <1>3, <1>4 DEF Next

\* The invariant says that the array is in the order that OrderedAsCalled names.
LEMMA SortingInvOrdered == SortingInv => OrderedAsCalled
<1> SUFFICES ASSUME SortingInv, phase = "sorted"
             PROVE  /\ algorithm = "merge" => Ordered
                    /\ algorithm = "bubble" =>
                         /\ \A i, j \in 0 .. len - 2 : i < j => arr[i] <= arr[j]
                         /\ len > 0 => arr[len - 1] = input[len - 1]
  BY DEF OrderedAsCalled, Ordered
<1>1. PICK e \in Nat : arr \in Arrays(e) /\ input \in Arrays(e)
  BY DEF SortingInv
<1>2. DOMAIN arr = 0 .. e - 1 /\ len = e /\ Cardinality(DOMAIN input) = e
  BY <1>1, ArrayLength DEF len
<1>3. arr = f(input, 0, e - 1)
  BY <1>2 DEF SortingInv
<1>4. ASSUME algorithm = "merge" PROVE Ordered
  <2>1. 0 \in Nat /\ e - 1 \in Ends(e)
    BY DEF Ends
  <2>2. arr = mergeSort(input, 0, e - 1)
    BY <1>3, <1>4 DEF f
  <2>3. SortedIn(arr, 0, e - 1)
    BY <1>1, <2>1, <2>2, MergeSortSorts DEF SortedFrom
  <2> QED
    BY <1>2, <2>3 DEF SortedIn, Ordered
<1>5. ASSUME algorithm = "bubble"
      PROVE  /\ \A i, j \in 0 .. len - 2 : i < j => arr[i] <= arr[j]
             /\ len > 0 => arr[len - 1] = input[len - 1]
  <2>1. arr = bubbleSort(input, 0, e - 1)
    BY <1>3, <1>5 DEF f
  <2>2. SortedIn(arr, 0, e - 2) /\ (e > 0 => arr[e - 1] = input[e - 1])
    BY <1>1, <2>1, BubbleSorts
  <2> QED
    BY <1>2, <2>2 DEF SortedIn
<1> QED
  BY <1>4, <1>5

\* It says that the sort is a rearrangement, so each value occurs as often.
LEMMA SortingInvRearranged == SortingInv => Rearranged
<1> SUFFICES ASSUME SortingInv, phase = "sorted", NEW v \in Values
             PROVE  Cardinality({i \in DOMAIN arr : arr[i] = v})
                      = Cardinality({i \in DOMAIN input : input[i] = v})
  BY Zenon DEF Rearranged
<1>1. PICK e \in Nat : arr \in Arrays(e) /\ input \in Arrays(e)
  BY DEF SortingInv
<1> DEFINE D == 0 .. e - 1
<1>2. DOMAIN arr = D /\ DOMAIN input = D /\ Cardinality(DOMAIN input) = e
  BY <1>1, ArrayLength
<1>3. arr = f(input, 0, e - 1)
  BY <1>2 DEF SortingInv
<1>4. Shuffled(arr, input, D)
  BY <1>1, <1>3, SortReturns
<1>5. IsFiniteSet(D)
  BY FS_Interval
<1> HIDE DEF D
<1>6. Cardinality({i \in D : arr[i] = v}) = Cardinality({i \in D : input[i] = v})
  BY <1>4, <1>5, ShuffledCount
<1> QED
  BY <1>2, <1>6

\* Whatever the length and the values of the array, and whichever elements were
\* replaced, mergeSort orders all of it and bubbleSort all but its last element.
THEOREM SortsAsCalled == Spec => []OrderedAsCalled
<1>1. Spec => []SortingInv
  BY SortingInductive, PTL DEF Spec
<1> QED
  BY <1>1, SortingInvOrdered, PTL

\* Neither sort loses or invents an element.
THEOREM SortsRearrange == Spec => []Rearranged
<1>1. Spec => []SortingInv
  BY SortingInductive, PTL DEF Spec
<1> QED
  BY <1>1, SortingInvRearranged, PTL
=============================================================================
