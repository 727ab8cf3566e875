------------------------------ MODULE Sorting -------------------------------
(***************************************************************************)
(* The sorting workload (microbenchmarks/sortingArray): an array is        *)
(* filled, sorted and printed; then the user replaces an element and the   *)
(* array is sorted again, for ever.  The sort is mergeSort or bubbleSort,  *)
(* called through one function pointer as f(arr, 0, len - 1).  Arrays are  *)
(* functions on 0 .. len - 1.                                              *)
(***************************************************************************)
EXTENDS Integers, Sequences, FiniteSets

CONSTANTS MaxLen,      \* bound on argv[1]
          Values       \* the values of rand() % LIMIT and of new elements

ASSUME SortingAssumption ==
    MaxLen \in Nat /\ Values \subseteq Int

VARIABLES algorithm,   \* argv[2]
          arr,      \* sortArray
          input,    \* the array when f was last called
          phase     \* "filled", "sorted" (and printed) or "replaced"

vars == <<algorithm, arr, input, phase>>

len == Cardinality(DOMAIN arr)

Init ==
    /\ algorithm \in {"merge", "bubble"}
    /\ \E n \in 0 .. MaxLen : arr \in [0 .. n - 1 -> Values]
    /\ input = arr
    /\ phase = "filled"

\* With i elements of L and j of R stored, the next one comes from L.
FromL(a, l, m, r, i, j) == i < m - l + 1 /\ (j < r - m => a[l + i] <= a[m + 1 + j])

\* i when k elements are stored, in the three loops over L and R
stored(a, l, m, r) ==
    LET i[k \in 0 .. r - l + 1] ==
          IF k = 0 THEN 0
          ELSE LET last == i[k - 1]
               IN  IF FromL(a, l, m, r, last, k - 1 - last) THEN last + 1 ELSE last
    IN  i

\* Mutant: R starts at arr[m].
merge_overlap(a, l, m, r) ==
    LET i(x) == stored(a, l, m, r)[x - l]
        j(x) == x - l - i(x)
    IN  [x \in DOMAIN a |-> IF x \notin l .. r THEN a[x]
                            ELSE IF FromL(a, l, m, r, i(x), j(x)) THEN a[l + i(x)]
                            ELSE a[m + j(x)]]
merge(a, l, m, r) ==
    LET i(x) == stored(a, l, m, r)[x - l]
        j(x) == x - l - i(x)
    IN  [x \in DOMAIN a |-> IF x \notin l .. r THEN a[x]
                            ELSE IF FromL(a, l, m, r, i(x), j(x)) THEN a[l + i(x)]
                            ELSE a[m + 1 + j(x)]]

\* The calls mergeSort(arr, l, r) for an array with the indices D; r is -1 when
\* there are none.
Calls(D) == [D -> Values] \X Nat \X (D \cup {-1})

mergeSort(a, l, r) ==
    LET sorted[c \in Calls(DOMAIN a)] ==
          LET m == c[2] + (c[3] - c[2]) \div 2
          IN  IF c[2] < c[3]
              THEN merge(sorted[<<sorted[<<c[1], c[2], m>>], m + 1, c[3]>>], c[2], m, c[3])
              ELSE c[1]
    IN  sorted[<<a, l, r>>]

\* The body of bubbleSort's inner loop.
order(a, j) ==
    IF a[j] > a[j + 1] THEN [a EXCEPT ![j] = a[j + 1], ![j + 1] = a[j]] ELSE a

\* The inner loop for a number of rounds, and bubbleSort's two loops
inner(a, rounds) ==
    LET x[j \in 0 .. rounds] == IF j = 0 THEN a ELSE order(x[j - 1], j - 1)
    IN  x[rounds]
outer(a, n) ==
    LET x[i \in 0 .. n] == IF i = 0 THEN a ELSE inner(x[i - 1], n - (i - 1) - 1)
    IN  x[n]

\* Mutant: the last pair is not compared.
bubbleSort_short(a, place_holder, n) == IF n > 1 THEN outer(a, n - 1) ELSE a
bubbleSort(a, place_holder, n) == IF n > 0 THEN outer(a, n) ELSE a

f(a, l, r) == IF algorithm = "merge" THEN mergeSort(a, l, r) ELSE bubbleSort(a, l, r)

Sort ==
    /\ phase # "sorted"
    /\ arr' = f(arr, 0, len - 1)
    /\ input' = arr
    /\ phase' = "sorted"
    /\ UNCHANGED algorithm

\* The user names an index of the array.
Replace ==
    /\ phase = "sorted"
    /\ \E idx \in DOMAIN arr, new_val \in Values :
          arr' = [arr EXCEPT ![idx] = new_val]
    /\ phase' = "replaced"
    /\ UNCHANGED <<algorithm, input>>

Next == Sort \/ Replace

Spec == Init /\ [][Next]_vars

-----------------------------------------------------------------------------
(* Properties *)

\* "Sorted Array: ": what is printed after either sort is in order, also after an
\* element was replaced.
Ordered == phase = "sorted" => \A i, j \in DOMAIN arr : i < j => arr[i] <= arr[j]

\* Sorting in place loses and invents no element (merge copies through L and R,
\* bubbleSort through temp).
Rearranged ==
    phase = "sorted" =>
        \A v \in Values : Cardinality({i \in DOMAIN arr : arr[i] = v})
                            = Cardinality({i \in DOMAIN input : input[i] = v})

\* What holds of it: mergeSort orders the array, whatever its length and wherever
\* an element was replaced; bubbleSort, called with len - 1 for its length, orders
\* the array without its last element, which stays where it is.
OrderedAsCalled ==
    /\ algorithm = "merge" => Ordered
    /\ phase = "sorted" /\ algorithm = "bubble" =>
          /\ \A i, j \in 0 .. len - 2 : i < j => arr[i] <= arr[j]
          /\ len > 0 => arr[len - 1] = input[len - 1]
=============================================================================
