--------------------------- MODULE RpcSumsProofs ----------------------------
(***************************************************************************)
(* The functions that are called: by fault RPC, for any number of threads, *)
(* calls and table slots (no wakeup is lost, no fault is answered twice,   *)
(* and what a call returns is what the function returned), and by the      *)
(* summing workload, for arrays of any length.  Both compute modulo 2^64.  *)
(***************************************************************************)
EXTENDS FaultRpc, Sums, FiniteSetTheorems, FunctionTheorems,
        WellFoundedInduction, TLAPS

-----------------------------------------------------------------------------
(* Induction and recursion over the natural numbers *)

\* Induction, for a set
LEMMA SetInduction ==
    ASSUME NEW S, 0 \in S, \A k \in Nat : k \in S => k + 1 \in S
    PROVE  Nat \subseteq S
<1> SUFFICES ASSUME Nat \ S # {} PROVE FALSE
  OBVIOUS
<1> DEFINE T == Nat \ S
           R == OpToRel(<, Nat)
<1>1. \E x \in T : \A y \in T : ~ (<<y, x>> \in R)
  BY WFMin, NatLessThanWellFounded, Zenon
<1>2. PICK x \in T : \A y \in T : ~ (<<y, x>> \in R)
  BY <1>1, Zenon
<1>3. x \in Nat /\ x # 0
  BY <1>2, Zenon
<1>4. x - 1 \in Nat /\ x - 1 + 1 = x
  BY <1>3
<1>5. x - 1 \in T
  <2>1. x \notin S
    BY <1>2, Zenon
  <2> QED
    BY <1>4, <2>1
<1>6. <<x - 1, x>> \in R
  BY <1>3, <1>4 DEF OpToRel
<1> QED
  BY <1>2, <1>5, <1>6, Zenon

\* h is the sequence of values that starts with a; step[k] leads from the k-th value
\* to the next.
Iterates(h, S, a, step) ==
    h \in [Nat -> S] /\ \A k \in Nat : h[k] = IF k = 0 THEN a ELSE step[k - 1][h[k - 1]]

\* A sequence of values is defined by its first one and its steps.
LEMMA Recursion ==
    ASSUME NEW S, NEW a \in S, NEW step \in [Nat -> [S -> S]]
    PROVE  \E h : Iterates(h, S, a, step)
<1> DEFINE Upto(m, g) == /\ g \in [0 .. m -> S] /\ g[0] = a
                         /\ \A k \in 0 .. m - 1 : g[k + 1] = step[k][g[k]]
           Some == {m \in Nat : \E g : Upto(m, g)}
<1>1. Nat \subseteq Some
  <2>1. 0 \in Some
    <3>1. Upto(0, [k \in 0 .. 0 |-> a])
      OBVIOUS
    <3> QED
      BY <3>1, Zenon
  <2>2. ASSUME NEW m \in Nat, m \in Some PROVE m + 1 \in Some
    <3>1. PICK g : Upto(m, g)
      BY <2>2
    <3>2. Upto(m + 1, [k \in 0 .. m + 1 |-> IF k <= m THEN g[k] ELSE step[m][g[m]]])
      BY <3>1
    <3>3. m + 1 \in Nat
      OBVIOUS
    <3> HIDE DEF Upto
    <3> QED
      BY <3>2, <3>3, Zenon
  <2> HIDE DEF Some
  <2> QED
    BY <2>1, <2>2, SetInduction
<1>2. ASSUME NEW m \in Nat, NEW g, NEW e, Upto(m, g), Upto(m + 1, e)
      PROVE  g[m] = e[m]
  <2> DEFINE Same == {k \in Nat : k <= m => g[k] = e[k]}
  <2>1. 0 \in Same
    BY <1>2
  <2>2. ASSUME NEW k \in Nat, k \in Same PROVE k + 1 \in Same
    BY <1>2, <2>2
  <2>3. Nat \subseteq Same
    <3> HIDE DEF Same
    <3> QED
      BY <2>1, <2>2, SetInduction
  <2> QED
    BY <2>3
<1> DEFINE F(m) == CHOOSE g : Upto(m, g)
           h == [m \in Nat |-> F(m)[m]]
<1>3. ASSUME NEW m \in Nat PROVE Upto(m, F(m))
  BY <1>1, Zenon
<1> HIDE DEF F
<1>4. h \in [Nat -> S]
  BY <1>3
<1>5. h[0] = a
  BY <1>3
<1>6. ASSUME NEW m \in Nat PROVE h[m + 1] = step[m][h[m]]
  <2>1. F(m)[m] = F(m + 1)[m]
    <3>1. Upto(m, F(m)) /\ Upto(m + 1, F(m + 1))
      BY <1>3
    <3> HIDE DEF Upto
    <3> QED
      BY <1>2, <3>1
  <2>2. F(m + 1)[m + 1] = step[m][F(m + 1)[m]]
    BY <1>3
  <2> QED
    BY <2>1, <2>2
<1> HIDE DEF h
<1>7. ASSUME NEW k \in Nat PROVE h[k] = IF k = 0 THEN a ELSE step[k - 1][h[k - 1]]
  <2>1. CASE k = 0
    BY <1>5, <2>1
  <2>2. CASE k # 0
    <3>1. k - 1 \in Nat /\ k - 1 + 1 = k
      BY <2>2
    <3>2. h[k - 1 + 1] = step[k - 1][h[k - 1]]
      BY <1>6, <3>1, Zenon
    <3> QED
      BY <2>2, <3>1, <3>2
  <2> QED
    BY <2>1, <2>2
<1> QED
  BY <1>4, <1>7 DEF Iterates

\* The same for finitely many steps
Rounds(h, m, S, a, step) ==
    h \in [0 .. m -> S] /\ \A k \in 0 .. m : h[k] = IF k = 0 THEN a ELSE step[k - 1][h[k - 1]]

\* Finitely many steps define their values, too.
LEMMA BoundedRecursion ==
    ASSUME NEW m \in Nat, NEW S, NEW a \in S, NEW step \in [0 .. m - 1 -> [S -> S]]
    PROVE  \E h : Rounds(h, m, S, a, step)
<1> DEFINE same == [x \in S |-> x]
           more == [k \in Nat |-> IF k < m THEN step[k] ELSE same]
<1>1. more \in [Nat -> [S -> S]]
  <2>1. ASSUME NEW k \in Nat PROVE (IF k < m THEN step[k] ELSE same) \in [S -> S]
    OBVIOUS
  <2> HIDE DEF same
  <2> QED
    BY <2>1, Zenon
<1>2. ASSUME NEW k \in 0 .. m - 1 PROVE more[k] = step[k]
  OBVIOUS
<1> HIDE DEF more
<1>3. PICK g : Iterates(g, S, a, more)
  BY <1>1, Recursion, Zenon
<1> DEFINE h == [k \in 0 .. m |-> g[k]]
<1>4. h \in [0 .. m -> S]
  BY <1>3 DEF Iterates
<1>5. ASSUME NEW k \in 0 .. m PROVE h[k] = IF k = 0 THEN a ELSE step[k - 1][h[k - 1]]
  <2>1. k \in Nat /\ h[k] = g[k]
    OBVIOUS
  <2>2. g[k] = IF k = 0 THEN a ELSE more[k - 1][g[k - 1]]
    BY <1>3, <2>1, Zenon DEF Iterates
  <2>3. CASE k = 0
    BY <2>1, <2>2, <2>3
  <2>4. CASE k # 0
    <3>1. k - 1 \in 0 .. m - 1 /\ k - 1 \in 0 .. m
      BY <2>4
    <3>2. more[k - 1] = step[k - 1] /\ h[k - 1] = g[k - 1]
      BY <1>2, <3>1
    <3> HIDE DEF h
    <3> QED
      BY <2>1, <2>2, <2>4, <3>2
  <2> QED
    BY <2>3, <2>4
<1> HIDE DEF h
<1> QED
  BY <1>4, <1>5 DEF Rounds

\* The same when every step is the same
LEMMA Repetition ==
    ASSUME NEW S, NEW a \in S, NEW step \in [S -> S]
    PROVE  \E f \in [Nat -> S] : f[0] = a /\ \A n \in Nat : f[n + 1] = step[f[n]]
<1> DEFINE steps == [k \in Nat |-> step]
<1>1. steps \in [Nat -> [S -> S]]
  OBVIOUS
<1>2. PICK h : Iterates(h, S, a, steps)
  <2> HIDE DEF steps
  <2> QED
    BY <1>1, Recursion
<1>3. h \in [Nat -> S] /\ h[0] = a
  BY <1>2 DEF Iterates
<1>4. ASSUME NEW n \in Nat PROVE h[n + 1] = step[h[n]]
  <2> DEFINE k == n + 1
  <2>1. k \in Nat /\ k # 0 /\ k - 1 = n
    OBVIOUS
  <2> HIDE DEF k
  <2>2. h[k] = steps[n][h[n]]
    BY <1>2, <2>1 DEF Iterates
  <2> QED
    BY <2>2 DEF k
<1> QED
  BY <1>3, <1>4

-----------------------------------------------------------------------------
(* Remainders *)

\* A remainder is known by the multiple it leaves.
LEMMA RemainderIs ==
    ASSUME NEW U \in Nat \ {0}, NEW x \in Int, NEW k \in Int, NEW y \in 0 .. U - 1, x = U * k + y
    PROVE  x % U = y
<1>1. x % U \in 0 .. U - 1 /\ x \div U \in Int /\ x = U * (x \div U) + (x % U)
  OBVIOUS
<1> DEFINE d == x \div U
           e == x % U
<1>2. d \in Int /\ e \in 0 .. U - 1 /\ U * (d - k) = y - e
  BY <1>1
<1> HIDE DEF d, e
<1>3. CASE d - k >= 1
  <2>1. U * (d - k) >= U
    BY <1>2, <1>3
  <2> QED
    BY <1>2, <2>1
<1>4. CASE d - k <= -1
  <2>1. U * (d - k) <= -U
    BY <1>2, <1>4
  <2> QED
    BY <1>2, <2>1
<1>5. CASE d - k = 0
  BY <1>2, <1>5 DEF e
<1> QED
  BY <1>2, <1>3, <1>4, <1>5

\* The remainder of a sum is that of the sum of the remainders.
LEMMA RemainderSum ==
    ASSUME NEW U \in Nat \ {0}, NEW x \in Int, NEW y \in Int
    PROVE  ((x % U) + (y % U)) % U = (x + y) % U
<1> DEFINE d == x \div U
           e == y \div U
           s == (x % U) + (y % U)
<1>1. d \in Int /\ e \in Int /\ s \in Int /\ x + y = U * d + U * e + s
  OBVIOUS
<1>2. (x + y) % U \in 0 .. U - 1 /\ (x + y) \div U \in Int
        /\ x + y = U * ((x + y) \div U) + ((x + y) % U)
  OBVIOUS
<1> HIDE DEF d, e, s
<1>3. s = U * ((x + y) \div U - d - e) + ((x + y) % U)
  BY <1>1, <1>2
<1>4. s % U = (x + y) % U
  <2> DEFINE k == (x + y) \div U - d - e
             z == (x + y) % U
  <2>1. k \in Int /\ z \in 0 .. U - 1 /\ s = U * k + z
    BY <1>1, <1>2, <1>3
  <2> HIDE DEF k, z
  <2>2. s % U = z
    BY <1>1, <2>1, RemainderIs
  <2> QED
    BY <2>2 DEF z
<1> QED
  BY <1>4 DEF s

\* The words a uint64_t holds
Word == 0 .. U64 - 1

\* Pairs is what its defining equation says.
LEMMA PairsDef ==
    /\ Pairs \in [Nat -> Word \X Word]
    /\ Pairs[0] = <<U64 - 1, 1 % U64>>
    /\ \A i \in Nat : Pairs[i + 1] = <<Pairs[i][2], (Pairs[i][1] + Pairs[i][2]) % U64>>
<1> DEFINE a == <<U64 - 1, 1 % U64>>
           next(p) == <<p[2], (p[1] + p[2]) % U64>>
           step == [p \in Word \X Word |-> next(p)]
           Def(f) == f = [i \in Nat |-> IF i = 0 THEN a ELSE next(f[i - 1])]
<1>1. a \in Word \X Word /\ step \in [Word \X Word -> Word \X Word]
  <2>1. \A x \in Nat : x % U64 \in Word
    BY RpcAssumption DEF Word
  <2>2. U64 - 1 \in Word /\ 1 % U64 \in Word
    BY RpcAssumption, <2>1 DEF Word
  <2>3. ASSUME NEW p \in Word \X Word PROVE next(p) \in Word \X Word
    <3>1. p[1] \in Word /\ p[2] \in Word
      OBVIOUS
    <3>2. p[1] + p[2] \in Nat
      BY <3>1 DEF Word
    <3> QED
      BY <2>1, <3>1, <3>2
  <2> QED
    BY <2>2, <2>3
<1> HIDE DEF next, a
<1>2. PICK f \in [Nat -> Word \X Word] : f[0] = a /\ \A n \in Nat : f[n + 1] = step[f[n]]
  <2> DEFINE S == Word \X Word
  <2>1. a \in S /\ step \in [S -> S]
    BY <1>1
  <2> HIDE DEF step, S
  <2>2. \E f \in [Nat -> S] : f[0] = a /\ \A n \in Nat : f[n + 1] = step[f[n]]
    BY <2>1, Repetition
  <2> QED
    BY <2>2, Zenon DEF S
<1>3. Def(f)
  <2>1. ASSUME NEW i \in Nat PROVE f[i] = IF i = 0 THEN a ELSE next(f[i - 1])
    <3>1. CASE i = 0
      BY <1>2, <3>1
    <3>2. CASE i # 0
      <4>1. i - 1 \in Nat /\ (i - 1) + 1 = i
        BY <3>2
      <4>2. f[i] = step[f[i - 1]]
        BY <1>2, <4>1, Zenon
      <4>3. f[i - 1] \in Word \X Word
        BY <1>2, <4>1
      <4> QED
        BY <3>2, <4>2, <4>3
    <3> QED
      BY <3>1, <3>2
  <2> QED
    BY <1>2, <2>1
<1>4. Pairs = CHOOSE g : Def(g)
  BY DEF Pairs, next, a
<1>5. Def(Pairs)
  BY <1>3, <1>4
<1>6. \A i \in Nat : Pairs[i] = IF i = 0 THEN a ELSE next(Pairs[i - 1])
  BY <1>5
<1>7. ASSUME NEW i \in Nat PROVE Pairs[i + 1] = next(Pairs[i])
  BY <1>6
<1>8. Pairs[0] = a
  BY <1>6
<1>9. Nat \subseteq {i \in Nat : Pairs[i] \in Word \X Word}
  <2> DEFINE S == {i \in Nat : Pairs[i] \in Word \X Word}
  <2>1. 0 \in S
    BY <1>1, <1>8
  <2>2. ASSUME NEW i \in Nat, i \in S PROVE i + 1 \in S
    <3>1. Pairs[i] \in Word \X Word
      BY <2>2
    <3>2. step[Pairs[i]] \in Word \X Word
      BY <1>1, <3>1
    <3> QED
      BY <1>7, <3>1, <3>2
  <2> HIDE DEF S
  <2>3. Nat \subseteq S
    BY <2>1, <2>2, SetInduction
  <2> QED
    BY <2>3 DEF S
<1>10. Pairs \in [Nat -> Word \X Word]
  BY <1>5, <1>9
<1> QED
  BY <1>7, <1>8, <1>10 DEF next, a

\* The Fibonacci numbers are what their definition says.
LEMMA FibDef ==
    /\ Fib \in [Nat -> Nat] /\ Fib[0] = 0 /\ Fib[1] = 1
    /\ \A n \in Nat : Fib[n + 2] = Fib[n + 1] + Fib[n]
<1> DEFINE next(p) == <<p[2], p[1] + p[2]>>
           step == [p \in Nat \X Nat |-> next(p)]
           Def(f) == f = [n \in Nat |-> IF n < 2 THEN n ELSE f[n - 1] + f[n - 2]]
<1>1. <<0, 1>> \in Nat \X Nat /\ step \in [Nat \X Nat -> Nat \X Nat]
  OBVIOUS
<1>2. PICK g \in [Nat -> Nat \X Nat] : g[0] = <<0, 1>> /\ \A n \in Nat : g[n + 1] = step[g[n]]
  <2> DEFINE first == <<0, 1>>
             S == Nat \X Nat
  <2>1. first \in S /\ step \in [S -> S]
    BY <1>1
  <2> HIDE DEF step, first, S
  <2>2. \E g \in [Nat -> S] : g[0] = first /\ \A n \in Nat : g[n + 1] = step[g[n]]
    BY <2>1, Repetition
  <2> QED
    BY <2>2, Zenon DEF first, S
<1> DEFINE f == [n \in Nat |-> g[n][1]]
<1>3. \A n \in Nat : g[n] \in Nat \X Nat /\ g[n + 1] = <<g[n][2], g[n][1] + g[n][2]>>
  BY <1>2, Zenon
<1>4. ASSUME NEW n \in Nat
      PROVE  /\ f[n] \in Nat /\ f[n + 1] = g[n][2]
             /\ f[n + 2] = f[n + 1] + f[n]
  <2>1. n + 1 \in Nat /\ (n + 1) + 1 = n + 2 /\ n + 2 \in Nat
    OBVIOUS
  <2>2. g[n + 1] = <<g[n][2], g[n][1] + g[n][2]>> /\ g[n][1] \in Nat /\ g[n][2] \in Nat
    BY <1>3, Zenon
  <2>3. g[n + 2] = <<g[n + 1][2], g[n + 1][1] + g[n + 1][2]>>
    BY <1>3, <2>1, Zenon
  <2> QED
    BY <2>1, <2>2, <2>3
<1>5. f[0] = 0 /\ f[1] = 1
  <2>1. f[0] = g[0][1] /\ f[0 + 1] = g[0][2]
    BY <1>4, Zenon
  <2>2. g[0][1] = 0 /\ g[0][2] = 1
    BY <1>2
  <2> QED
    BY <2>1, <2>2
<1> HIDE DEF f
<1>6. Def(f)
  <2>1. ASSUME NEW n \in Nat PROVE f[n] = IF n < 2 THEN n ELSE f[n - 1] + f[n - 2]
    <3>1. CASE n < 2
      <4>1. n = 0 \/ n = 1
        BY <3>1
      <4>2. f[n] = n
        BY <1>5, <4>1, Zenon
      <4> QED
        BY <3>1, <4>2, Zenon
    <3>2. CASE ~(n < 2)
      <4>1. n - 2 \in Nat /\ (n - 2) + 1 = n - 1 /\ (n - 2) + 2 = n
        BY <3>2
      <4>2. f[n] = f[n - 1] + f[n - 2]
        BY <1>4, <4>1
      <4> QED
        BY <3>2, <4>2
    <3> QED
      BY <3>1, <3>2
  <2>2. f = [n \in Nat |-> f[n]]
    BY DEF f
  <2> QED
    BY <2>1, <2>2, Zenon
<1>7. Fib = CHOOSE h : Def(h)
  BY DEF Fib
<1>8. Def(Fib)
  BY <1>6, <1>7, Zenon
<1>9. \A n \in Nat : Fib[n] = IF n < 2 THEN n ELSE Fib[n - 1] + Fib[n - 2]
  BY <1>8
<1>10. Fib[0] = 0 /\ Fib[1] = 1
  BY <1>9
<1>11. ASSUME NEW n \in Nat PROVE Fib[n + 2] = Fib[n + 1] + Fib[n]
  BY <1>9
<1>12. Nat \subseteq {n \in Nat : Fib[n] \in Nat /\ Fib[n + 1] \in Nat}
  <2> DEFINE S == {n \in Nat : Fib[n] \in Nat /\ Fib[n + 1] \in Nat}
  <2>1. 0 \in S
    BY <1>10
  <2>2. ASSUME NEW n \in Nat, n \in S PROVE n + 1 \in S
    <3>1. Fib[n] \in Nat /\ Fib[n + 1] \in Nat
      BY <2>2, Zenon
    <3>2. Fib[n + 2] = Fib[n + 1] + Fib[n]
      BY <1>11, Zenon
    <3>3. \A x, y \in Nat : x + y \in Nat
      OBVIOUS
    <3>4. Fib[n + 2] \in Nat
      BY <3>1, <3>2, <3>3, Zenon
    <3>5. (n + 1) + 1 = n + 2 /\ n + 1 \in Nat
      OBVIOUS
    <3> QED
      BY <3>1, <3>4, <3>5, Zenon
  <2> HIDE DEF S
  <2>3. Nat \subseteq S
    BY <2>1, <2>2, SetInduction, Zenon
  <2> QED
    BY <2>3 DEF S
<1>13. Fib \in [Nat -> Nat]
  BY <1>8, <1>12, Zenon
<1> QED
  BY <1>10, <1>11, <1>13, Zenon

\* The loop of fib_kernel computes the Fibonacci numbers modulo 2^64.
LEMMA KernelComputesFib == \A n \in Nat : fib_kernel(n) = Fib[n] % U64
<1> DEFINE S == {n \in Nat : Pairs[n + 2] = <<Fib[n] % U64, Fib[n + 1] % U64>>}
<1>1. Pairs[1] = <<1 % U64, 0>>
  <2>1. Pairs[1] = <<1 % U64, ((U64 - 1) + (1 % U64)) % U64>>
    <3>1. Pairs[0 + 1] = <<Pairs[0][2], (Pairs[0][1] + Pairs[0][2]) % U64>>
      BY PairsDef
    <3> QED
      BY <3>1, PairsDef
  <2>2. ((U64 - 1) + (1 % U64)) % U64 = 0
    <3>1. CASE U64 = 1
      BY <3>1
    <3>2. CASE U64 # 1
      BY <3>2, RpcAssumption
    <3> QED
      BY <3>1, <3>2
  <2> QED
    BY <2>1, <2>2
<1>2. 0 \in S
  <2>1. Pairs[1 + 1] = <<Pairs[1][2], (Pairs[1][1] + Pairs[1][2]) % U64>>
    BY PairsDef
  <2>2. 1 % U64 \in Nat /\ (1 % U64) % U64 = 1 % U64 /\ 0 % U64 = 0
    BY RpcAssumption
  <2>3. ((1 % U64) + 0) % U64 = 1 % U64
    BY <2>2
  <2>4. Pairs[2] = <<0, 1 % U64>>
    BY <1>1, <2>1, <2>3
  <2>5. Fib[0] = 0 /\ Fib[0 + 1] = 1
    BY FibDef
  <2>6. Pairs[0 + 2] = <<0, 1 % U64>>
    BY <2>4
  <2>7. Pairs[0 + 2] = <<Fib[0] % U64, Fib[0 + 1] % U64>>
    BY <2>2, <2>5, <2>6, Zenon
  <2> QED
    BY <2>7
<1>3. ASSUME NEW n \in Nat, n \in S PROVE n + 1 \in S
  <2>1. Fib[n] \in Nat /\ Fib[n + 1] \in Nat
    <3>1. n + 1 \in Nat
      OBVIOUS
    <3>2. Fib \in [Nat -> Nat]
      BY FibDef, Zenon
    <3> QED
      BY <3>1, <3>2
  <2>2. Fib[n + 2] = Fib[n] + Fib[n + 1]
    BY <2>1, FibDef
  <2>3. Pairs[(n + 2) + 1] = <<Fib[n + 1] % U64, ((Fib[n] % U64) + (Fib[n + 1] % U64)) % U64>>
    <3>1. Pairs[(n + 2) + 1] = <<Pairs[n + 2][2], (Pairs[n + 2][1] + Pairs[n + 2][2]) % U64>>
      BY PairsDef
    <3> QED
      BY <1>3, <3>1
  <2>4. ((Fib[n] % U64) + (Fib[n + 1] % U64)) % U64 = Fib[n + 2] % U64
    <3>1. U64 \in Nat \ {0}
      BY RpcAssumption, Zenon
    <3>2. \A x, y \in Int : ((x % U64) + (y % U64)) % U64 = (x + y) % U64
      BY <3>1, RemainderSum, Zenon
    <3>3. ((Fib[n] % U64) + (Fib[n + 1] % U64)) % U64 = (Fib[n] + Fib[n + 1]) % U64
      <4>1. Fib[n] \in Int /\ Fib[n + 1] \in Int
        BY <2>1
      <4> QED
        BY <3>2, <4>1, Zenon
    <3> QED
      BY <2>2, <3>3, Zenon
  <2>5. (n + 2) + 1 = (n + 1) + 2 /\ n + 2 = (n + 1) + 1
    OBVIOUS
  <2> QED
    BY <2>3, <2>4, <2>5
<1> HIDE DEF S
<1>4. Nat \subseteq S
  BY <1>2, <1>3, SetInduction
<1>5. ASSUME NEW n \in Nat PROVE fib_kernel(n) = Fib[n] % U64
  <2>1. CASE n = 0
    <3>1. 0 % U64 = 0 /\ 0 + 1 = 1
      BY RpcAssumption
    <3>2. Fib[0] = 0
      BY FibDef
    <3>3. fib_kernel(0) = 0
      BY <1>1 DEF fib_kernel
    <3> QED
      BY <2>1, <3>1, <3>2, <3>3, Zenon
  <2>2. CASE n # 0
    <3>1. n - 1 \in S /\ (n - 1) + 2 = n + 1 /\ (n - 1) + 1 = n
      BY <1>4, <2>2
    <3>2. Pairs[n + 1] = <<Fib[n - 1] % U64, Fib[n] % U64>>
      BY <3>1 DEF S
    <3> QED
      BY <3>2 DEF fib_kernel
  <2> QED
    BY <2>1, <2>2
<1> QED
  BY <1>5

-----------------------------------------------------------------------------

\* The handler has a fault to answer.
Working == handler \in {"lookup", "load", "call", "respond"}

Points == {"idle", "arg", "poke", "suspended", "result", "returned"}

Typed ==
    /\ lang \in {"C++", "Rust"} /\ threads \subseteq Callers
    /\ registered \in BOOLEAN /\ watched \in BOOLEAN /\ present \in BOOLEAN
    /\ at \in [Callers -> Points] /\ DOMAIN answer = Callers
    /\ pending \in Seq(Callers)

\* Before the handler is started nobody has called; then the table is complete,
\* and a program that does not register the function has an empty one.
Started ==
    /\ ~registered => lang = "C++" /\ fns = {}
    /\ setup \notin {"up", "exit"} =>
          handler = "none" /\ ~present /\ pending = <<>> /\ \A c \in Callers : at[c] = "idle"
    /\ setup \in {"spawn", "up"} /\ registered => EDGE_FIB_NUM \in fns

\* The Rust client gets as far as a call only with its page watched.
RustWatched ==
    lang = "Rust" =>
        /\ setup \in {"set_handler", "spawn", "up"} => watched
        /\ setup = "exit" => \A c \in Callers : at[c] = "idle"

\* Faults exist only while the page is watched and missing, and only after the
\* request was stored.
Faults ==
    /\ pending # <<>> \/ Working \/ (\E c \in Callers : at[c] = "suspended")
          => watched /\ ~present
    /\ pending # <<>> \/ Working => slot = EDGE_FIB_NUM /\ arg = Arg
    /\ \A c \in Callers :
          /\ at[c] # "idle" => slot = EDGE_FIB_NUM
          /\ at[c] \notin {"idle", "arg"} => arg = Arg
          /\ at[c] = "suspended" /\ handler \in {"none", "start", "poll"}
                => \E i \in DOMAIN pending : pending[i] = c

\* The load of the invoke page is not dropped and the page is watched.
Sound == watched /\ (lang = "C++" \/ VolatilePoke)

\* The response is there before the page is, and the page before a caller goes on.
Responses ==
    /\ handler \in {"load", "call", "respond"} => registered
    /\ handler = "call" => fn_arg = Arg
    /\ handler = "respond" => response = fib_kernel(Arg)
    /\ Sound =>
          /\ present => registered /\ response = fib_kernel(Arg)
          /\ \A c \in Callers :
                at[c] \in {"result", "returned"} => registered /\ response = fib_kernel(Arg)
    /\ Sound => \A c \in Callers : at[c] = "returned" => answer[c] = fib_kernel(Arg)

\* The inductive invariant
RInv == Typed /\ Started /\ RustWatched /\ Faults /\ Responses /\ HandlerSurvives

\* Before main runs nothing is mapped, queued or called.
LEMMA InitRInv == Init => RInv
<1> SUFFICES ASSUME Init PROVE RInv
  OBVIOUS
<1>1. Typed
  <2>1. threads \subseteq Callers
    BY DEF Init
  <2>2. registered \in BOOLEAN /\ watched \in BOOLEAN /\ present \in BOOLEAN
    BY Zenon DEF Init
  <2> QED
    BY <2>1, <2>2 DEF Init, Typed, Points
<1>2. Started /\ RustWatched
  BY DEF Init, Started, RustWatched
<1>3. Faults /\ Responses /\ HandlerSurvives
  BY DEF Init, Faults, Responses, HandlerSurvives, Sound, Working
<1> QED
  BY <1>1, <1>2, <1>3 DEF RInv

\* The set-up: nothing is called yet, and set_handler accepts the slot.
LEMMA SetupKeeps == ASSUME RInv, Setup PROVE RInv'
<1>1. CASE FaultHandlerMemory_new
  BY <1>1 DEF RInv, Typed, Started, RustWatched, Faults, Responses, HandlerSurvives, Sound, Working, Points,
         program, rpc, buffers, callers, FaultHandlerMemory_new
<1>2. CASE CreateUffd
  BY <1>2 DEF RInv, Typed, Started, RustWatched, Faults, Responses, HandlerSurvives, Sound, Working, Points,
         program, rpc, buffers, callers, CreateUffd
<1>3. CASE register
  BY <1>3 DEF RInv, Typed, Started, RustWatched, Faults, Responses, HandlerSurvives, Sound, Working, Points,
         program, rpc, buffers, callers, register
<1>4. CASE set_handler
  BY TableAssumption, <1>4 DEF RInv, Typed, Started, RustWatched, Faults, Responses, HandlerSurvives,
         Sound, Working, Points, program, rpc, buffers, callers, set_handler, OutOfRange
<1>5. CASE Spawn
  BY <1>5 DEF RInv, Typed, Started, RustWatched, Faults, Responses, HandlerSurvives, Sound, Working, Points,
         program, rpc, buffers, callers, Spawn
<1> QED
  BY <1>1, <1>2, <1>3, <1>4, <1>5 DEF Setup

\* A caller's steps: it faults only on a missing page, with its request stored,
\* and loads the result only once the page is there.
LEMMA CallerKeeps == ASSUME RInv, NEW c \in threads, Caller(c) \/ invalidate(c) PROVE RInv'
<1>1. CASE StoreSlot(c)
  BY <1>1 DEF RInv, Typed, Started, RustWatched, Faults, Responses, HandlerSurvives, Sound, Working, Points,
         program, rpc, buffers, callers, StoreSlot, Running, MayCall, Goto, SlotWord
<1>2. CASE StoreArg(c)
  BY <1>2 DEF RInv, Typed, Started, RustWatched, Faults, Responses, HandlerSurvives, Sound, Working, Points,
         program, rpc, buffers, callers, StoreArg, Running, Goto
<1>3. CASE poke(c)
  <2>1. PICK touched \in {TRUE, lang = "C++" \/ VolatilePoke} :
          IF touched /\ watched /\ ~present
          THEN at' = [at EXCEPT ![c] = "suspended"] /\ pending' = Append(pending, c)
               /\ UNCHANGED present
          ELSE at' = [at EXCEPT ![c] = "result"] /\ present' = (present \/ touched)
               /\ UNCHANGED pending
    BY <1>3, Zenon DEF poke, Goto
  <2>2. present' \in BOOLEAN
    BY <2>1, Zenon DEF RInv, Typed
  <2>3. Typed'
    BY <1>3, <2>1, <2>2 DEF RInv, Typed, Points, poke, program, callers
  <2>4. Started' /\ RustWatched' /\ HandlerSurvives'
    BY <1>3 DEF RInv, Started, RustWatched, HandlerSurvives, poke, Running, program
  <2>5. Faults'
    BY <1>3 DEF RInv, Typed, Started, Faults, Working, Points, poke, Running, Goto,
                program, buffers
  <2>6. Responses'
    BY <1>3, Zenon DEF RInv, Typed, Started, RustWatched, Faults, Responses, Sound, Working, Points, poke,
                Running, Goto, program, buffers
  <2> QED
    BY <2>3, <2>4, <2>5, <2>6 DEF RInv
<1>4. CASE LoadResult(c)
  BY <1>4 DEF RInv, Typed, Started, RustWatched, Faults, Responses, HandlerSurvives, Sound, Working, Points,
         program, rpc, buffers, callers, LoadResult, Running, Goto
<1>5. CASE Return(c)
  BY <1>5 DEF RInv, Typed, Started, RustWatched, Faults, Responses, HandlerSurvives, Sound, Working, Points,
         program, rpc, buffers, callers, Return, Running, Goto
<1>6. CASE invalidate(c)
  <2>1. Typed'
    BY <1>6, Zenon DEF RInv, Typed, invalidate, program, callers
  <2>2. Started' /\ RustWatched' /\ HandlerSurvives'
    BY <1>6 DEF RInv, Started, RustWatched, HandlerSurvives, invalidate, Running, program
  <2>3. Faults'
    BY <1>6 DEF RInv, Typed, Faults, Working, invalidate, program, buffers, callers
  <2>4. Responses'
    BY <1>6 DEF RInv, Typed, Responses, Sound, invalidate, program, buffers, callers
  <2> QED
    BY <2>1, <2>2, <2>3, <2>4 DEF RInv
<1> QED
  BY <1>1, <1>2, <1>3, <1>4, <1>5, <1>6 DEF Caller

\* The handler's steps: it finds the function, and copies the page into the
\* hole that the fault it read has kept open.
LEMMA HandlerKeeps == ASSUME RInv, Handler PROVE RInv'
<1> setup = "up"
  BY DEF Handler
<1>1. CASE StartHandler
  BY <1>1 DEF RInv, Typed, Started, RustWatched, Faults, Responses, HandlerSurvives, Sound, Working, Points,
         program, rpc, buffers, callers, StartHandler
<1>2. CASE ReadFault
  BY <1>2 DEF RInv, Typed, Started, RustWatched, Faults, Responses, HandlerSurvives, Sound, Working, Points,
         program, rpc, buffers, callers, ReadFault
<1>3. CASE handler_at
  BY <1>3 DEF RInv, Typed, Started, RustWatched, Faults, Responses, HandlerSurvives, Sound, Working, Points,
         program, rpc, buffers, callers, handler_at, HasFunction
<1>4. CASE LoadArg
  BY <1>4 DEF RInv, Typed, Started, RustWatched, Faults, Responses, HandlerSurvives, Sound, Working, Points,
         program, rpc, buffers, callers, LoadArg, ArgWord
<1>5. CASE CallFn
  BY <1>5 DEF RInv, Typed, Started, RustWatched, Faults, Responses, HandlerSurvives, Sound, Working, Points,
         program, rpc, buffers, callers, CallFn
<1>6. CASE respond_with
  BY <1>6 DEF RInv, Typed, Started, RustWatched, Faults, Responses, HandlerSurvives, Sound, Working, Points,
         program, rpc, buffers, callers, respond_with, Resume
<1> QED
  BY <1>1, <1>2, <1>3, <1>4, <1>5, <1>6 DEF Handler

\* RInv is an inductive invariant.
LEMMA RInvInductive == Spec => []RInv
<1>1. RInv /\ [Next]_vars => RInv'
  <2> SUFFICES ASSUME RInv, [Next]_vars PROVE RInv'
    OBVIOUS
  <2>1. CASE Setup
    BY <2>1, SetupKeeps
  <2>2. CASE Handler
    BY <2>2, HandlerKeeps
  <2>3. CASE \E c \in threads : Caller(c) \/ invalidate(c)
    BY <2>3, CallerKeeps
  <2>4. CASE UNCHANGED vars
    BY <2>4 DEF RInv, Typed, Started, RustWatched, Faults, Responses, HandlerSurvives, Sound, Working,
                vars, program, rpc, buffers, callers
  <2> QED
    BY <2>1, <2>2, <2>3, <2>4 DEF Next
<1> QED
  BY InitRInv, <1>1, PTL DEF Spec

-----------------------------------------------------------------------------
\* A caller that respond_with has not resumed yet has its fault queued or being
\* handled, and waits for a page that is still missing: no wakeup is lost
\* between poll and UFFDIO_COPY, for any number of threads.
THEOREM NoFaultLost == Spec => []NoLostFault
<1>1. RInv => NoLostFault
  BY DEF RInv, Typed, Faults, NoLostFault
<1> QED
  BY <1>1, RInvInductive, PTL

\* With set_handler called, the handler thread reaches neither of its panics: the
\* slot it looks up is filled, and UFFDIO_COPY never finds the page present.
THEOREM HandlerLives == Spec => []HandlerSurvives
<1>1. RInv => HandlerSurvives
  BY DEF RInv
<1> QED
  BY <1>1, RInvInductive, PTL

\* Without set_handler no call of fib returns.
THEOREM NothingMadeUp == Spec => []NoAnswerUnregistered
<1>1. RInv => NoAnswerUnregistered
  BY Zenon DEF RInv, Started, Responses, Sound, NoAnswerUnregistered
<1> QED
  BY <1>1, RInvInductive, PTL

\* What fib returns to a caller is the Fibonacci number of Arg modulo 2^64, if the
\* page is watched and the load is not dropped: the response is stored before the
\* page that lets the caller pass is there, and fib_kernel's loop, which starts
\* from (-1, 1) and overflows, computes just these numbers.
AnswerComputed ==
    Sound => \A c \in Callers : at[c] = "returned" => answer[c] = Fib[Arg] % U64

\* Every call that returns gives back the result of its own argument, in every
\* build of the C++ programs and, if the load is kept, of the Rust one.
THEOREM AnswersComputed == Spec => []AnswerComputed
<1>1. RInv => AnswerComputed
  <2>1. fib_kernel(Arg) = Fib[Arg] % U64
    BY KernelComputesFib, RpcAssumption, Zenon
  <2> QED
    BY <2>1, Zenon DEF RInv, Responses, AnswerComputed
<1> QED
  BY <1>1, RInvInductive, PTL

\* In a build that keeps the load of the invoke page, every call of every program
\* returns fib(n), except in a C++ program that could not register the page: the
\* Rust client makes no call then.
THEOREM AnswersCorrect == ASSUME VolatilePoke PROVE Spec => []AnswerCorrect
<1>1. RInv => AnswerCorrect
  <2> SUFFICES ASSUME RInv, lang = "C++" => watched, NEW c \in Callers, at[c] = "returned"
               PROVE  answer[c] = Fib[Arg] % U64
    BY DEF AnswerCorrect
  <2>1. fib_kernel(Arg) = Fib[Arg] % U64
    BY KernelComputesFib, RpcAssumption, Zenon
  <2>2. setup \in {"up", "exit"} /\ lang \in {"C++", "Rust"}
    BY DEF RInv, Started, Typed
  <2>3. watched
    BY <2>2 DEF RInv, RustWatched
  <2> QED
    BY <2>1, <2>3, Zenon DEF RInv, Responses, Sound
<1> QED
  BY <1>1, RInvInductive, PTL

-----------------------------------------------------------------------------
\* What TypeOK says beyond Typed
Stored ==
    /\ setup \in {"mmap", "userfaultfd", "register", "set_handler", "spawn", "up", "exit"}
    /\ fns \subseteq 0 .. MaxFns - 1
    /\ slot \in {NoSlot, EDGE_FIB_NUM} /\ arg \in {0, Arg}
    /\ handler \in {"none", "start", "failed", "poll", "lookup", "load", "call",
                    "respond", "panic"}
    /\ fn_arg \in {0, Arg}
Counted == calls \in [Callers -> 0 .. MaxCalls]
Words == response \in Word /\ answer \in [Callers -> Word]

\* Table entries, requests and program points
LEMMA StoredStep == ASSUME RInv, Stored, [Next]_vars PROVE Stored'
<1>0. EDGE_FIB_NUM \in 0 .. MaxFns - 1
  BY TableAssumption DEF EDGE_FIB_NUM
<1>1. CASE Setup
  BY <1>0, <1>1, Zenon DEF Stored, Setup, FaultHandlerMemory_new, CreateUffd, register, set_handler,
                    Spawn, program, rpc, buffers
<1>2. CASE Handler
  BY <1>2, Zenon DEF Stored, Handler, StartHandler, ReadFault, handler_at, LoadArg, ArgWord, CallFn,
              respond_with, program, rpc, buffers
<1>3. ASSUME NEW c \in threads, Caller(c) \/ invalidate(c) PROVE Stored'
  BY <1>3, Zenon DEF Stored, Caller, StoreSlot, SlotWord, StoreArg, poke, LoadResult, Return,
              invalidate, program, buffers
<1>4. CASE UNCHANGED vars
  BY <1>4 DEF Stored, vars, program, rpc, buffers
<1> QED
  BY <1>1, <1>2, <1>3, <1>4 DEF Next

\* A caller's calls are bounded.
LEMMA CountedStep == ASSUME RInv, Counted, [Next]_vars PROVE Counted'
<1>1. CASE Setup
  BY <1>1, Zenon DEF Counted, Setup, FaultHandlerMemory_new, CreateUffd, register, set_handler,
                     Spawn, rpc, callers
<1>2. CASE Handler
  BY <1>2, Zenon DEF Counted, Handler, StartHandler, ReadFault, handler_at, LoadArg, CallFn,
                     respond_with, rpc, callers
<1>3. ASSUME NEW c \in threads, Caller(c) \/ invalidate(c) PROVE Counted'
  <2>1. CASE StoreSlot(c)
    <3>1. c \in Callers /\ calls[c] \in Nat /\ calls[c] < MaxCalls
      <4>1. c \in Callers
        BY DEF RInv, Typed
      <4>2. calls[c] \in 0 .. MaxCalls
        BY <4>1 DEF Counted
      <4>3. calls[c] < 1 \/ calls[c] < MaxCalls
        BY <2>1, Zenon DEF StoreSlot, MayCall
      <4> QED
        BY <4>1, <4>2, <4>3, RpcAssumption
    <3>2. calls[c] + 1 \in 0 .. MaxCalls
      BY <3>1, RpcAssumption
    <3> QED
      BY <2>1, <3>1, <3>2 DEF Counted, StoreSlot
  <2>2. CASE UNCHANGED calls
    BY <2>2, Zenon DEF Counted
  <2> QED
    BY <1>3, <2>1, <2>2, Zenon DEF Caller, StoreArg, poke, LoadResult, Return, invalidate,
                                  callers
<1>4. CASE UNCHANGED vars
  BY <1>4, Zenon DEF Counted, vars, rpc, callers
<1> QED
  BY <1>1, <1>2, <1>3, <1>4 DEF Next

\* What fib_kernel returns fits a word, and so does what a caller loads.
LEMMA WordsStep == ASSUME RInv, Stored, Words, [Next]_vars PROVE Words'
<1>1. CASE Setup
  BY <1>1, Zenon DEF Words, Setup, FaultHandlerMemory_new, CreateUffd, register, set_handler,
                     Spawn, rpc, buffers, callers
<1>2. CASE Handler
  <2>1. CASE CallFn
    <3>1. fn_arg \in Nat
      BY RpcAssumption DEF Stored
    <3>2. Pairs \in [Nat -> Word \X Word] /\ fn_arg + 1 \in Nat
      BY <3>1, PairsDef
    <3>3. Pairs[fn_arg + 1] \in Word \X Word
      BY <3>2
    <3>4. fib_kernel(fn_arg) \in Word
      BY <3>3 DEF fib_kernel
    <3>5. response' = fib_kernel(fn_arg) /\ answer' = answer
      BY <2>1, Zenon DEF CallFn, callers
    <3> QED
      BY <3>4, <3>5, Zenon DEF Words
  <2>2. CASE UNCHANGED <<response, answer>>
    BY <2>2, Zenon DEF Words
  <2> QED
    BY <1>2, <2>1, <2>2, Zenon DEF Handler, StartHandler, ReadFault, handler_at, LoadArg,
                                  respond_with, rpc, buffers, callers
<1>3. ASSUME NEW c \in threads, Caller(c) \/ invalidate(c) PROVE Words'
  <2>1. CASE LoadResult(c)
    BY <2>1, Zenon DEF Words, LoadResult, buffers
  <2>2. CASE UNCHANGED <<response, answer>>
    BY <2>2, Zenon DEF Words
  <2> QED
    BY <1>3, <2>1, <2>2, Zenon DEF Caller, StoreSlot, StoreArg, poke, Return, invalidate,
                                  buffers, callers
<1>4. CASE UNCHANGED vars
  BY <1>4, Zenon DEF Words, vars, rpc, buffers, callers
<1> QED
  BY <1>1, <1>2, <1>3, <1>4 DEF Next

\* The table, the buffers and the threads hold what their types allow, for any
\* number of callers, calls and slots: above all, no slot outside the table is
\* filled and no caller's result is wider than a word.
THEOREM RpcTypeCorrect == Spec => []TypeOK
<1>1. Init => Stored /\ Counted /\ Words
  <2> SUFFICES ASSUME Init PROVE Stored /\ Counted /\ Words
    OBVIOUS
  <2>1. Stored
    BY DEF Init, Stored
  <2>2. Counted
    BY RpcAssumption DEF Init, Counted
  <2>3. Words
    BY RpcAssumption DEF Init, Words, Word
  <2> QED
    BY <2>1, <2>2, <2>3
<1>2. RInv /\ Stored /\ Counted /\ Words /\ [Next]_vars => Stored' /\ Counted' /\ Words'
  BY StoredStep, CountedStep, WordsStep
<1>3. RInv /\ Stored /\ Counted /\ Words => TypeOK
  <2> SUFFICES ASSUME RInv, Stored, Counted, Words PROVE TypeOK
    OBVIOUS
  <2>1. {registered, watched, present} \subseteq BOOLEAN
    BY Zenon DEF RInv, Typed
  <2> QED
    BY <2>1, Zenon DEF RInv, Typed, Points, Stored, Counted, Words, Word, TypeOK
<1> QED
  BY <1>1, <1>2, <1>3, RInvInductive, PTL DEF Spec

-----------------------------------------------------------------------------
(* Sums: conversions, and the least and greatest of a set *)

\* What an int becomes as a uint64_t
LEMMA Converted ==
    ASSUME NEW x \in -INT_MAX - 1 .. INT_MAX
    PROVE  x % Uint64 = IF x < 0 THEN x + Uint64 ELSE x
<1>1. Uint64 \in Nat \ {0} /\ 2 * INT_MAX + 2 <= Uint64 /\ INT_MAX \in Nat
  BY SumsAssumption
<1>2. CASE x < 0
  <2>1. x = Uint64 * (-1) + (x + Uint64) /\ x + Uint64 \in 0 .. Uint64 - 1
    BY <1>1, <1>2
  <2> QED
    BY <1>1, <1>2, <2>1, RemainderIs
<1>3. CASE ~(x < 0)
  <2>1. x = Uint64 * 0 + x /\ x \in 0 .. Uint64 - 1
    BY <1>1, <1>3
  <2> QED
    BY <1>1, <1>3, <2>1, RemainderIs
<1> QED
  BY <1>2, <1>3

\* A set of natural numbers has a least element.
LEMMA HasLeast ==
    ASSUME NEW T \in SUBSET Nat, T # {}
    PROVE  \E x \in T : \A y \in T : x <= y
<1> DEFINE R == OpToRel(<, Nat)
<1>1. \E x \in T : \A y \in T : ~ (<<y, x>> \in R)
  BY WFMin, NatLessThanWellFounded, Zenon
<1>2. PICK x \in T : \A y \in T : ~ (<<y, x>> \in R)
  BY <1>1, Zenon
<1>3. ASSUME NEW y \in T PROVE x <= y
  <2>1. ~(<<y, x>> \in OpToRel(<, Nat))
    BY <1>2, Zenon
  <2>2. ~(y < x)
    BY <2>1 DEF OpToRel
  <2> QED
    BY <2>2
<1> QED
  BY <1>3

\* Min and Max are the least and the greatest element, where there is one.
LEMMA MinIs ==
    ASSUME NEW T \in SUBSET Int, NEW x \in T, \A y \in T : x <= y
    PROVE  Min(T) = x
<1>1. Min(T) \in T /\ \A y \in T : Min(T) <= y
  BY Zenon DEF Min
<1>2. Min(T) <= x /\ x <= Min(T) /\ Min(T) \in Int
  BY <1>1, Zenon
<1> QED
  BY <1>2

\* The same for the greatest
LEMMA MaxIs ==
    ASSUME NEW T \in SUBSET Int, NEW x \in T, \A y \in T : x >= y
    PROVE  Max(T) = x
<1>1. Max(T) \in T /\ \A y \in T : Max(T) >= y
  BY Zenon DEF Max
<1>2. Max(T) >= x /\ x >= Max(T) /\ Max(T) \in Int
  BY <1>1, Zenon
<1> QED
  BY <1>2

-----------------------------------------------------------------------------
(* Sums: the loop of naive_sum adds up the elements *)

\* An array of m integers
IntArray(a, m) == a \in [0 .. m - 1 -> Int]

\* g adds up the elements of a with the indices in T, from the first to the m-th.
Adds(g, a, m, T) ==
    /\ \A k \in 0 .. m : g[k] \in Int
    /\ g[0] = 0
    /\ \A k \in 0 .. m - 1 : g[k + 1] = g[k] + IF k \in T THEN a[k] ELSE 0

\* There is such a g.
LEMMA Added ==
    ASSUME NEW m \in Nat, NEW a, IntArray(a, m), NEW T
    PROVE  \E g : Adds(g, a, m, T)
<1> DEFINE add(k) == IF k \in T THEN a[k] ELSE 0
           step == [k \in 0 .. m - 1 |-> [x \in Int |-> x + add(k)]]
<1>1. ASSUME NEW k \in 0 .. m - 1 PROVE add(k) \in Int
  BY DEF IntArray
<1> HIDE DEF add
<1>2. step \in [0 .. m - 1 -> [Int -> Int]]
  <2>1. ASSUME NEW k \in 0 .. m - 1 PROVE [x \in Int |-> x + add(k)] \in [Int -> Int]
    BY <1>1
  <2> QED
    BY <2>1
<1>3. ASSUME NEW k \in 0 .. m - 1, NEW x \in Int PROVE step[k][x] = x + add(k)
  OBVIOUS
<1> HIDE DEF step
<1>4. PICK g : Rounds(g, m, Int, 0, step)
  <2>1. 0 \in Int
    OBVIOUS
  <2> QED
    BY <1>2, <2>1, BoundedRecursion, Zenon
<1>5. \A k \in 0 .. m : g[k] \in Int
  BY <1>4 DEF Rounds
<1>6. \A k \in 0 .. m : g[k] = IF k = 0 THEN 0 ELSE step[k - 1][g[k - 1]]
  BY <1>4 DEF Rounds
<1>7. g[0] = 0
  BY <1>6
<1>8. ASSUME NEW k \in 0 .. m - 1 PROVE g[k + 1] = g[k] + IF k \in T THEN a[k] ELSE 0
  <2>1. k + 1 \in 0 .. m /\ k + 1 # 0 /\ k + 1 - 1 = k /\ k \in 0 .. m
    OBVIOUS
  <2>2. g[k + 1] = step[k][g[k]] /\ g[k] \in Int
    BY <1>5, <1>6, <2>1
  <2> QED
    BY <1>3, <2>2 DEF add
<1> QED
  BY <1>5, <1>7, <1>8 DEF Adds

\* No indices add up to 0.
LEMMA AddedNone ==
    ASSUME NEW m \in Nat, NEW a, NEW g, Adds(g, a, m, {})
    PROVE  g[m] = 0
<1> DEFINE Zero == {k \in Nat : k <= m => g[k] = 0}
<1>1. 0 \in Zero
  BY DEF Adds
<1>2. ASSUME NEW k \in Nat, k \in Zero PROVE k + 1 \in Zero
  BY <1>2 DEF Adds
<1>3. Nat \subseteq Zero
  <2> HIDE DEF Zero
  <2> QED
    BY <1>1, <1>2, SetInduction
<1> QED
  BY <1>3

\* One index more adds its element.
LEMMA AddedOne ==
    ASSUME NEW m \in Nat, NEW a, IntArray(a, m), NEW T, NEW x \in T, x \in 0 .. m - 1,
           NEW g, Adds(g, a, m, T), NEW h, Adds(h, a, m, T \ {x})
    PROVE  g[m] = a[x] + h[m]
<1> DEFINE Same == {k \in Nat : k <= m => g[k] = h[k] + IF x < k THEN a[x] ELSE 0}
<1>0. a[x] \in Int
  BY DEF IntArray
<1>1. 0 \in Same
  BY DEF Adds
<1>2. ASSUME NEW k \in Nat, k \in Same PROVE k + 1 \in Same
  <2> SUFFICES ASSUME k + 1 <= m PROVE g[k + 1] = h[k + 1] + IF x < k + 1 THEN a[x] ELSE 0
    OBVIOUS
  <2>1. k \in 0 .. m - 1 /\ k \in 0 .. m /\ a[k] \in Int
    BY DEF IntArray
  <2>2. g[k] \in Int /\ h[k] \in Int /\ g[k] = h[k] + IF x < k THEN a[x] ELSE 0
    BY <1>2, <2>1 DEF Adds
  <2>3. g[k + 1] = g[k] + (IF k \in T THEN a[k] ELSE 0)
    BY <2>1 DEF Adds
  <2>4. h[k + 1] = h[k] + (IF k \in T /\ k # x THEN a[k] ELSE 0)
    BY <2>1 DEF Adds
  <2>5. CASE k = x
    BY <1>0, <2>1, <2>2, <2>3, <2>4, <2>5
  <2>6. CASE k # x
    <3>1. (x < k + 1) <=> (x < k)
      BY <2>6
    <3> QED
      BY <1>0, <2>1, <2>2, <2>3, <2>4, <2>6, <3>1
  <2> QED
    BY <2>5, <2>6
<1>3. Nat \subseteq Same
  <2> HIDE DEF Same
  <2> QED
    BY <1>1, <1>2, SetInduction
<1>4. m \in Same /\ x < m /\ h[m] \in Int
  BY <1>3 DEF Adds
<1> QED
  BY <1>0, <1>4

\* The equation that MapThenSumSet solves for the elements with indices in D
Folds(a, D, iter) ==
    iter = [s \in SUBSET D |-> IF s = {} THEN 0
              ELSE a[CHOOSE x \in s : TRUE] + iter[s \ {CHOOSE x \in s : TRUE}]]

\* The sum that ResultAgrees names
Total(a, D) == MapThenSumSet(LAMBDA i : a[i], D)

\* It is what the loop over the indices adds up.
LEMMA SumIsLoop ==
    ASSUME NEW m \in Nat, NEW a, IntArray(a, m), NEW g, Adds(g, a, m, 0 .. m - 1)
    PROVE  Total(a, 0 .. m - 1) = g[m]
<1> DEFINE D == 0 .. m - 1
           F(T) == CHOOSE h : Adds(h, a, m, T)
           total == [s \in SUBSET D |-> F(s)[m]]
           some(s) == CHOOSE x \in s : TRUE
<1>1. ASSUME NEW T PROVE Adds(F(T), a, m, T)
  BY Added
<1> HIDE DEF F
<1>2. ASSUME NEW s \in SUBSET D, s # {}
      PROVE  some(s) \in s /\ some(s) \in D
  BY <1>2, Zenon
<1> HIDE DEF some
<1>3. ASSUME NEW s \in SUBSET D
      PROVE  total[s] = IF s = {} THEN 0 ELSE a[some(s)] + total[s \ {some(s)}]
  <2>1. CASE s = {}
    BY <1>1, <2>1, AddedNone
  <2>2. CASE s # {}
    <3>1. some(s) \in s /\ some(s) \in 0 .. m - 1
      BY <1>2, <2>2
    <3>2. F(s)[m] = a[some(s)] + F(s \ {some(s)})[m]
      BY <1>1, <3>1, AddedOne
    <3>3. s \ {some(s)} \in SUBSET D
      OBVIOUS
    <3> QED
      BY <2>2, <3>2, <3>3, Zenon
  <2> QED
    BY <2>1, <2>2
<1> DEFINE iter == CHOOSE e : Folds(a, D, e)
<1>4. Folds(a, D, total)
  <2>1. total = [s \in SUBSET D |-> total[s]]
    OBVIOUS
  <2> HIDE DEF total
  <2>2. total = [s \in SUBSET D |-> IF s = {} THEN 0 ELSE a[some(s)] + total[s \ {some(s)}]]
    BY <1>3, <2>1, Zenon
  <2> QED
    BY <2>2, Zenon DEF Folds, some
<1>5. Folds(a, D, iter)
  BY <1>4, Zenon
<1> HIDE DEF iter
<1>6. ASSUME NEW s \in SUBSET D
      PROVE  iter[s] = IF s = {} THEN 0 ELSE a[some(s)] + iter[s \ {some(s)}]
  <2>1. iter = [t \in SUBSET D |-> IF t = {} THEN 0 ELSE a[some(t)] + iter[t \ {some(t)}]]
    BY <1>5, Zenon DEF Folds, some
  <2> QED
    BY <2>1, Zenon
<1> HIDE DEF total
<1>7. ASSUME NEW s \in SUBSET D PROVE IsFiniteSet(s) /\ Cardinality(s) \in Nat
  <2>1. IsFiniteSet(D)
    BY FS_Interval
  <2>2. IsFiniteSet(s)
    BY <2>1, FS_Subset, Zenon
  <2> QED
    BY <2>2, FS_CardinalityType
<1> DEFINE Same == {k \in Nat : \A s \in SUBSET D : Cardinality(s) = k => iter[s] = total[s]}
<1>8. 0 \in Same
  <2> SUFFICES ASSUME NEW s \in SUBSET D, Cardinality(s) = 0 PROVE iter[s] = total[s]
    OBVIOUS
  <2>1. s = {}
    BY <1>7, FS_EmptySet
  <2> QED
    BY <1>3, <1>6, <2>1, Zenon
<1>9. ASSUME NEW k \in Nat, k \in Same PROVE k + 1 \in Same
  <2> SUFFICES ASSUME NEW s \in SUBSET D, Cardinality(s) = k + 1 PROVE iter[s] = total[s]
    OBVIOUS
  <2>1. s # {}
    <3>1. Cardinality(s) # 0
      OBVIOUS
    <3> QED
      BY <1>7, <3>1, FS_EmptySet
  <2>2. some(s) \in s /\ s \ {some(s)} \in SUBSET D
    BY <1>2, <2>1, Zenon
  <2>3. Cardinality(s \ {some(s)}) = k
    BY <1>7, <2>2, FS_RemoveElement
  <2>4. iter[s \ {some(s)}] = total[s \ {some(s)}]
    BY <1>9, <2>2, <2>3
  <2> QED
    BY <1>3, <1>6, <2>1, <2>4, Zenon
<1>10. Nat \subseteq Same
  <2> HIDE DEF Same
  <2> QED
    BY <1>8, <1>9, SetInduction
<1>11. D \in SUBSET D /\ Cardinality(D) \in Nat
  BY <1>7
<1>12. iter[D] = total[D]
  BY <1>10, <1>11
<1>13. total[D] = F(D)[m]
  BY DEF total
<1>14. F(D)[m] = g[m]
  <2> DEFINE h == F(D)
             Equal == {k \in Nat : k <= m => g[k] = h[k]}
  <2>0. Adds(h, a, m, D)
    BY <1>1
  <2> HIDE DEF h
  <2>1. 0 \in Equal
    BY <2>0 DEF Adds
  <2>2. ASSUME NEW k \in Nat, k \in Equal PROVE k + 1 \in Equal
    BY <2>0, <2>2 DEF Adds
  <2>3. Nat \subseteq Equal
    <3> HIDE DEF Equal
    <3> QED
      BY <2>1, <2>2, SetInduction
  <2>4. g[m] = h[m]
    BY <2>3
  <2> QED
    BY <2>4 DEF h
<1>15. Total(a, 0 .. m - 1) = iter[D]
  BY DEF Total, MapThenSumSet, MapThenFoldSet, Folds, iter
<1> QED
  BY <1>12, <1>13, <1>14, <1>15

\* naive_sum, whatever the length of the array, is the remainder of the sum of its
\* elements, negative ones included.
LEMMA NaiveSum ==
    ASSUME NEW m \in Nat, NEW a, IntArray(a, m)
    PROVE  naive_sum(a) = Total(a, 0 .. m - 1) % Uint64
<1> DEFINE U == Uint64
           step == [k \in 0 .. m - 1 |-> [x \in Int |-> (x + (a[k] % U)) % U]]
           Def(e) == e = [i \in 0 .. m |-> IF i = 0 THEN 0 ELSE (e[i - 1] + (a[i - 1] % U)) % U]
           sum == CHOOSE e : Def(e)
<1>0. U \in Nat \ {0}
  BY SumsAssumption
<1>1. DOMAIN a = 0 .. m - 1 /\ Cardinality(0 .. m - 1) = m
  <2>1. Cardinality(0 .. m - 1) = m - 1 - 0 + 1
    <3>1. 0 \in Int /\ m - 1 \in Int /\ (0 > m - 1 <=> m = 0)
      OBVIOUS
    <3> QED
      BY <3>1, FS_Interval
  <2>2. DOMAIN a = 0 .. m - 1
    BY DEF IntArray
  <2> QED
    BY <2>1, <2>2
<1>2. naive_sum(a) = sum[m]
  BY <1>1, Zenon DEF naive_sum
<1>3. PICK h : Rounds(h, m, Int, 0, step)
  <2>1. ASSUME NEW k \in 0 .. m - 1, NEW x \in Int PROVE (x + (a[k] % U)) % U \in Int
    <3>1. a[k] \in Int
      BY DEF IntArray
    <3> HIDE DEF U
    <3>2. a[k] % U \in Int
      BY <1>0, <3>1
    <3> QED
      BY <1>0, <3>2
  <2> HIDE DEF U
  <2>2. step \in [0 .. m - 1 -> [Int -> Int]]
    BY <2>1
  <2>3. 0 \in Int
    OBVIOUS
  <2> HIDE DEF step
  <2> QED
    BY <2>2, <2>3, BoundedRecursion, Zenon
<1> HIDE DEF U
<1>4. Def(h)
  <2>1. h = [i \in 0 .. m |-> h[i]]
    BY <1>3 DEF Rounds
  <2>2. ASSUME NEW i \in 0 .. m PROVE h[i] = IF i = 0 THEN 0 ELSE (h[i - 1] + (a[i - 1] % U)) % U
    <3>1. h[i] = IF i = 0 THEN 0 ELSE step[i - 1][h[i - 1]]
      BY <1>3, Zenon DEF Rounds
    <3>2. CASE i = 0
      BY <3>1, <3>2
    <3>3. CASE i # 0
      <4>1. i - 1 \in 0 .. m - 1 /\ i - 1 \in 0 .. m
        BY <3>3
      <4>2. h[i - 1] \in Int
        BY <1>3, <4>1 DEF Rounds
      <4>3. step[i - 1][h[i - 1]] = (h[i - 1] + (a[i - 1] % U)) % U
        BY <4>1, <4>2
      <4> HIDE DEF step
      <4> QED
        BY <3>1, <3>3, <4>3
    <3> QED
      BY <3>2, <3>3
  <2> QED
    BY <2>1, <2>2
<1>5. Def(sum)
  BY <1>4, Zenon
<1> HIDE DEF sum
<1>6. ASSUME NEW i \in 0 .. m
      PROVE  sum[i] = IF i = 0 THEN 0 ELSE (sum[i - 1] + (a[i - 1] % U)) % U
  BY <1>5, Zenon
<1> HIDE DEF Def
<1>7. PICK g : Adds(g, a, m, 0 .. m - 1)
  BY Added
<1> DEFINE Same == {k \in Nat : k <= m => sum[k] = g[k] % U}
<1>8. 0 \in Same
  <2>1. 0 \in 0 .. m
    OBVIOUS
  <2>2. sum[0] = 0 /\ g[0] = 0
    BY <1>6, <1>7, <2>1 DEF Adds
  <2>3. 0 % U = 0
    BY <1>0
  <2> QED
    BY <2>2, <2>3
<1>9. ASSUME NEW k \in Nat, k \in Same PROVE k + 1 \in Same
  <2> SUFFICES ASSUME k + 1 <= m PROVE sum[k + 1] = g[k + 1] % U
    OBVIOUS
  <2>1. k + 1 \in 0 .. m /\ k + 1 # 0 /\ k + 1 - 1 = k /\ k \in 0 .. m - 1 /\ k \in 0 .. m
    OBVIOUS
  <2>2. sum[k + 1] = (sum[k] + (a[k] % U)) % U
    BY <1>6, <2>1
  <2>3. g[k + 1] = g[k] + a[k] /\ g[k] \in Int /\ a[k] \in Int
    BY <1>7, <2>1 DEF Adds, IntArray
  <2>4. sum[k] = g[k] % U
    BY <1>9
  <2>5. ((g[k] % U) + (a[k] % U)) % U = (g[k] + a[k]) % U
    BY <1>0, <2>3, RemainderSum, Zenon
  <2> QED
    BY <2>2, <2>3, <2>4, <2>5
<1>10. Nat \subseteq Same
  <2> HIDE DEF Same
  <2> QED
    BY <1>8, <1>9, SetInduction
<1>11. sum[m] = g[m] % U
  BY <1>10
<1>12. Total(a, 0 .. m - 1) = g[m]
  BY <1>7, SumIsLoop
<1> QED
  BY <1>2, <1>11, <1>12 DEF U

-----------------------------------------------------------------------------
(* Sums: the least and the greatest, and the theorem *)

\* An array of m ints
Ints32(a, m) == a \in [0 .. m - 1 -> -INT_MAX - 1 .. INT_MAX]

\* naive_min is the least of INT_MAX and the elements that are not negative.
LEMMA NaiveMin ==
    ASSUME NEW m \in Nat, NEW a, Ints32(a, m)
    PROVE  naive_min(a) = Min({INT_MAX} \cup {x \in {a[i] : i \in DOMAIN a} : ~(x < 0)})
<1> DEFINE E == {INT_MAX} \cup {x \in {a[i] : i \in DOMAIN a} : ~(x < 0)}
           V == {INT_MAX} \cup {a[i] % Uint64 : i \in DOMAIN a}
<1>1. INT_MAX \in Nat /\ Uint64 \in Nat /\ 2 * INT_MAX + 2 <= Uint64
  BY SumsAssumption
<1>2. ASSUME NEW i \in DOMAIN a
      PROVE  a[i] \in -INT_MAX - 1 .. INT_MAX /\ a[i] % Uint64 = IF a[i] < 0 THEN a[i] + Uint64 ELSE a[i]
  <2>1. a[i] \in -INT_MAX - 1 .. INT_MAX
    BY DEF Ints32
  <2> QED
    BY <2>1, Converted
<1>3. E \in SUBSET Nat /\ E # {}
  BY <1>1, <1>2
<1>4. PICK x \in E : \A y \in E : x <= y
  <2> HIDE DEF E
  <2> QED
    BY <1>3, HasLeast
<1>5. Min(E) = x
  <2>1. E \in SUBSET Int
    BY <1>3
  <2> HIDE DEF E
  <2> QED
    BY <1>4, <2>1, MinIs
<1>6. Min(V) = x
  <2>1. V \in SUBSET Int
    BY <1>1, <1>2
  <2>2. x \in V
    BY <1>2, <1>4
  <2>3. ASSUME NEW y \in V PROVE x <= y
    <3>1. x \in Nat /\ x <= INT_MAX
      BY <1>1, <1>3, <1>4
    <3>2. CASE y = INT_MAX
      BY <3>1, <3>2
    <3>3. ASSUME NEW i \in DOMAIN a, y = a[i] % Uint64 PROVE x <= y
      <4>1. CASE a[i] < 0
        BY <1>1, <1>2, <3>1, <3>3, <4>1
      <4>2. CASE ~(a[i] < 0)
        BY <1>2, <1>4, <3>3, <4>2
      <4> QED
        BY <4>1, <4>2
    <3> QED
      BY <3>2, <3>3
  <2> HIDE DEF V
  <2> QED
    BY <2>1, <2>2, <2>3, MinIs, Zenon
<1> QED
  BY <1>5, <1>6 DEF naive_min

\* naive_max is the greatest element; with negative elements it is the greatest of
\* these, 2^64 more.
LEMMA NaiveMax ==
    ASSUME NEW m \in Nat, NEW a, Ints32(a, m), NEW N, N = {x \in {a[i] : i \in DOMAIN a} : x < 0}
    PROVE  naive_max(a) = IF N = {} THEN Max({a[i] : i \in DOMAIN a} \cup {0}) ELSE Uint64 + Max(N)
<1> DEFINE V == {0} \cup {a[i] % Uint64 : i \in DOMAIN a}
<1>1. INT_MAX \in Nat /\ Uint64 \in Nat /\ 2 * INT_MAX + 2 <= Uint64
  BY SumsAssumption
<1>2. ASSUME NEW i \in DOMAIN a
      PROVE  a[i] \in -INT_MAX - 1 .. INT_MAX /\ a[i] % Uint64 = IF a[i] < 0 THEN a[i] + Uint64 ELSE a[i]
  <2>1. a[i] \in -INT_MAX - 1 .. INT_MAX
    BY DEF Ints32
  <2> QED
    BY <2>1, Converted
<1>3. CASE N = {}
  <2>1. ASSUME NEW i \in DOMAIN a PROVE a[i] % Uint64 = a[i]
    BY <1>2, <1>3
  <2>2. V = {a[i] : i \in DOMAIN a} \cup {0}
    BY <2>1
  <2> QED
    BY <1>3, <2>2, Zenon DEF naive_max
<1>4. CASE N # {}
  <2> DEFINE T == {-1 - x : x \in N}
  <2>1. N \in SUBSET Int
    BY <1>2
  <2>2. T \in SUBSET Nat /\ T # {}
    BY <1>4, <2>1
  <2>3. PICK z \in T : \A y \in T : z <= y
    <3> HIDE DEF T
    <3> QED
      BY <2>2, HasLeast
  <2>4. PICK x \in N : z = -1 - x
    BY <2>3
  <2>5. ASSUME NEW y \in N PROVE x >= y
    <3>1. z <= -1 - y
      BY <2>3
    <3> QED
      BY <2>1, <2>4, <3>1
  <2>6. Max(N) = x
    BY <2>1, <2>4, <2>5, MaxIs, Zenon
  <2>7. V \in SUBSET Int
    BY <1>1, <1>2
  <2>8. PICK i \in DOMAIN a : x = a[i] /\ x < 0
    BY <2>4
  <2>9. x \in -INT_MAX - 1 .. INT_MAX /\ Uint64 + x = a[i] % Uint64
    BY <1>1, <1>2, <2>8
  <2>10. Uint64 + x \in V
    BY <2>9
  <2>11. ASSUME NEW y \in V PROVE Uint64 + x >= y
    <3>1. CASE y = 0
      BY <1>1, <2>9, <3>1
    <3>2. ASSUME NEW j \in DOMAIN a, y = a[j] % Uint64 PROVE Uint64 + x >= y
      <4>1. CASE a[j] < 0
        <5>1. a[j] \in N
          BY <4>1
        <5>2. x >= a[j]
          BY <2>5, <5>1
        <5> QED
          BY <1>1, <1>2, <2>9, <3>2, <4>1, <5>2
      <4>2. CASE ~(a[j] < 0)
        BY <1>1, <1>2, <2>9, <3>2, <4>2
      <4> QED
        BY <4>1, <4>2
    <3> QED
      BY <3>1, <3>2
  <2>12. Max(V) = Uint64 + x
    <3> HIDE DEF V
    <3> QED
      BY <2>7, <2>10, <2>11, MaxIs, Zenon
  <2> QED
    BY <1>4, <2>6, <2>12 DEF naive_max
<1> QED
  BY <1>3, <1>4

\* What every state of the summing workload satisfies: the array holds ints, and
\* the number printed last is the function's value for the array as it is.
SumsInv ==
    /\ function \in {"sum", "min", "max"}
    /\ \E m \in Nat : Ints32(array, m)
    /\ new_val \in Ints
    /\ result = apply(array)

\* The function's value is what ResultAgrees says.
LEMMA SumsInvAgrees == SumsInv => ResultAgrees
<1> SUFFICES ASSUME SumsInv PROVE ResultAgrees
  OBVIOUS
<1>1. PICK m \in Nat : Ints32(array, m)
  BY DEF SumsInv
<1>2. DOMAIN array = 0 .. m - 1
  BY <1>1 DEF Ints32
<1> DEFINE N == {x \in Elements : x < 0}
<1>3. CASE function = "sum"
  <2>1. IntArray(array, m)
    <3>1. -INT_MAX - 1 .. INT_MAX \subseteq Int
      BY SumsAssumption
    <3> QED
      BY <1>1, <3>1 DEF Ints32, IntArray
  <2>2. naive_sum(array) = Total(array, DOMAIN array) % Uint64
    BY <1>2, <2>1, NaiveSum
  <2>3. result = naive_sum(array)
    BY <1>3 DEF SumsInv, apply
  <2> QED
    BY <1>3, <2>2, <2>3 DEF ResultAgrees, Total
<1>4. CASE function = "min"
  <2>1. naive_min(array) = Min({INT_MAX} \cup {x \in {array[i] : i \in DOMAIN array} : ~(x < 0)})
    BY <1>1, NaiveMin
  <2>2. {x \in {array[i] : i \in DOMAIN array} : ~(x < 0)} = Elements \ N
    BY DEF Elements
  <2>3. result = naive_min(array)
    BY <1>4 DEF SumsInv, apply
  <2>4. result = Min({INT_MAX} \cup (Elements \ N))
    BY <2>1, <2>2, <2>3
  <2> QED
    BY <1>4, <2>4 DEF ResultAgrees
<1>5. CASE function = "max"
  <2>1. N = {x \in {array[i] : i \in DOMAIN array} : x < 0}
    BY DEF Elements
  <2>2. naive_max(array) = IF N = {} THEN Max({array[i] : i \in DOMAIN array} \cup {0})
                           ELSE Uint64 + Max(N)
    <3> HIDE DEF N
    <3> QED
      BY <1>1, <2>1, NaiveMax
  <2>3. result = naive_max(array)
    BY <1>5 DEF SumsInv, apply
  <2>4. result = IF N = {} THEN Max(Elements \cup {0}) ELSE Uint64 + Max(N)
    BY <2>2, <2>3 DEF Elements
  <2> QED
    BY <1>5, <2>4 DEF ResultAgrees
<1> QED
  BY <1>3, <1>4, <1>5 DEF SumsInv

\* The invariant holds at first and every number the user replaces keeps it.
LEMMA SumsInductive ==
    /\ SInit => SumsInv
    /\ SumsInv /\ [Recompute]_svars => SumsInv'
<1>1. ASSUME SInit PROVE SumsInv
  <2>1. PICK l \in Lengths : array \in [0 .. l - 1 -> Randoms]
    BY <1>1 DEF SInit
  <2>2. l \in Nat /\ Randoms \subseteq -INT_MAX - 1 .. INT_MAX
    BY SumsAssumption
  <2>3. Ints32(array, l)
    BY <2>1, <2>2, Zenon DEF Ints32
  <2> QED
    BY <1>1, <2>2, <2>3 DEF SInit, SumsInv
<1>2. ASSUME SumsInv, Recompute PROVE SumsInv'
  <2>1. PICK m \in Nat : Ints32(array, m)
    BY <1>2 DEF SumsInv
  <2>2. function' = function
    BY <1>2 DEF Recompute
  <2>3. \/ array' = array /\ result' = result
        \/ \E i : array' = [array EXCEPT ![i] = new_val'] /\ result' = apply(array')
    BY <1>2, Zenon DEF Recompute
  <2>6. new_val' \in Ints
    BY <1>2 DEF Recompute, SumsInv
  <2>4. CASE array' = array /\ result' = result
    BY <1>2, <2>2, <2>4, <2>6 DEF SumsInv, apply, Ints32
  <2>5. ASSUME NEW i, array' = [array EXCEPT ![i] = new_val'], result' = apply(array')
        PROVE  SumsInv'
    <3>1. new_val' \in -INT_MAX - 1 .. INT_MAX
      BY <2>6, SumsAssumption
    <3>2. Ints32(array', m)
      BY <2>1, <2>5, <3>1, Zenon DEF Ints32
    <3>3. result' = apply(array)'
      BY <2>2, <2>5 DEF apply
    <3> QED
      BY <1>2, <2>2, <2>6, <3>2, <3>3 DEF SumsInv
  <2> QED
    BY <2>3, <2>4, <2>5
<1>3. ASSUME SumsInv, UNCHANGED svars PROVE SumsInv'
  BY <1>3 DEF SumsInv, svars, apply, Ints32
<1> QED
  BY <1>1, <1>2, <1>3

\* However many numbers the user replaces, and with whatever index, the number
\* printed is the sum of the array, its least or its greatest element, as
\* ResultAgrees words it for negative numbers.
THEOREM ResultsAgree == SSpec => []ResultAgrees
<1>1. SSpec => []SumsInv
  BY SumsInductive, PTL DEF SSpec
<1> QED
  BY <1>1, SumsInvAgrees, PTL
=============================================================================
