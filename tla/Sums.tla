-------------------------------- MODULE Sums --------------------------------
(***************************************************************************)
(* The summing workload (microbenchmarks/sumArray): a function of an array *)
(* of random numbers is printed, and printed again each time the user has  *)
(* replaced a number.  The array holds ints, the functions work with       *)
(* uint64_t: a negative number takes part as a large one.  "smarter sum"   *)
(* returns an uninitialised variable and is left out.                      *)
(***************************************************************************)
EXTENDS Integers, FiniteSets, FiniteSetsExt

CONSTANTS Lengths,      \* the values of argv[1]
          Randoms,      \* the values of rand() % 100
          Ints,         \* the values of new_val and idx
          INT_MAX,
          Uint64        \* the number of values of a uint64_t

ASSUME SumsAssumption ==
    /\ INT_MAX \in Nat /\ Uint64 \in Nat /\ 2 * INT_MAX + 2 <= Uint64
    /\ Lengths \subseteq Nat
    /\ Randoms \subseteq 0 .. INT_MAX /\ Ints \subseteq -INT_MAX - 1 .. INT_MAX

VARIABLES function,     \* argv[2]
          array, idx, new_val,
          result,       \* the number printed last
          loop          \* "running", "ended" or "crashed"

svars == <<function, array, idx, new_val, result, loop>>

\* sum += arr[i], with the int converted.  Mutant: the loop starts with 1.
naive_sum_from_1(a) ==
    LET sum[i \in 0 .. Cardinality(DOMAIN a)] ==
          IF i <= 1 THEN 0 ELSE (sum[i - 1] + (a[i - 1] % Uint64)) % Uint64
    IN  sum[Cardinality(DOMAIN a)]
naive_sum(a) ==
    LET sum[i \in 0 .. Cardinality(DOMAIN a)] ==
          IF i = 0 THEN 0 ELSE (sum[i - 1] + (a[i - 1] % Uint64)) % Uint64
    IN  sum[Cardinality(DOMAIN a)]
naive_min(a) == Min({INT_MAX} \cup {a[i] % Uint64 : i \in DOMAIN a})
naive_max(a) == Max({0} \cup {a[i] % Uint64 : i \in DOMAIN a})

apply(a) == CASE function = "sum" -> naive_sum(a)
              [] function = "min" -> naive_min(a)
              [] function = "max" -> naive_max(a)

\* idx and new_val are not initialised.
SInit ==
    /\ function \in {"sum", "min", "max"}
    /\ \E l \in Lengths : array \in [0 .. l - 1 -> Randoms]
    /\ idx \in Ints /\ new_val \in Ints
    /\ result = apply(array) /\ loop = "running"

\* scanf reads both numbers, the first one only, or none; what it does not read
\* stays and is used again.  ret is 0 after a word and -1 at the end of the
\* input, where the loop goes on.  idx % len is unsigned, so that every idx
\* names an element; a length of 0 is divided by.
Recompute ==
    /\ loop = "running"
    /\ \E ret \in {-1, 0, 1, 2} :
          /\ IF ret >= 1 THEN idx' \in Ints ELSE UNCHANGED idx
          /\ IF ret = 2 THEN new_val' \in Ints ELSE UNCHANGED new_val
          /\ LET len == Cardinality(DOMAIN array)
             IN  IF len = 0
                 THEN loop' = "crashed" /\ UNCHANGED <<array, result>>
                 ELSE /\ array' = [array EXCEPT ![(idx' % Uint64) % len] = new_val']
                      /\ result' = apply(array')
                      /\ loop' = IF ret = 0 THEN "ended" ELSE "running"
    /\ UNCHANGED function

SSpec == SInit /\ [][Recompute]_svars

-----------------------------------------------------------------------------
(* Properties *)

Elements == {array[i] : i \in DOMAIN array}

\* While no number is negative the result is the sum, the least or the greatest
\* of the array; negative numbers do not count for the least, and the greatest of
\* them is, less 2^64, what max gives.
ResultAgrees ==
    LET negative == {x \in Elements : x < 0}
    IN  CASE function = "sum" ->
               result = MapThenSumSet(LAMBDA i : array[i], DOMAIN array) % Uint64
          [] function = "min" ->
               result = Min({INT_MAX} \cup (Elements \ negative))
          [] function = "max" ->
               result = IF negative = {} THEN Max(Elements \cup {0}) ELSE Uint64 + Max(negative)
=============================================================================
