---------------------------- MODULE DynamicArray ----------------------------
(***************************************************************************)
(* The dynamic array workload (microbenchmarks/dynamicArray): main adds    *)
(* random numbers to an array that doubles when it is full, and prints     *)
(* each one as getElement gives it back.  Memory is taken not to run out   *)
(* (the results of calloc and realloc are not looked at).                  *)
(***************************************************************************)
EXTENDS Integers

CONSTANTS InitialSize,   \* 1000
          Additions,     \* 5000
          Numbers        \* the values of rand() % 50000

ASSUME ArrayAssumption ==
    InitialSize \in Nat \ {0} /\ Additions \in Nat /\ Numbers \subseteq Nat

VARIABLES size, counter,
          pointer,       \* the elements the memory at pointer holds
          number,        \* what was added last
          element        \* what getElement returned for it

avars == <<size, counter, pointer, number, element>>

initArray ==
    /\ size = InitialSize /\ counter = 0
    /\ pointer = [i \in 0 .. InitialSize - 1 |-> 0]
    /\ number = 0 /\ element = 0

\* Mutant: the array grows one element late.
Full_late == counter > size
Full == counter >= size

\* realloc keeps what there was; the rest may hold anything, here 0.
resizeArray == [i \in 0 .. 2 * size - 1 |-> IF i < size THEN pointer[i] ELSE 0]

\* getElement tests the counter, not the index.
getElement(p, index) == IF counter' >= size' THEN -1 ELSE p[index]

\* One iteration of main's loop: addElement, getElement
Add ==
    /\ counter < Additions
    /\ number' \in Numbers
    /\ size' = IF Full THEN 2 * size ELSE size
    /\ pointer' = [(IF Full THEN resizeArray ELSE pointer) EXCEPT ![counter] = number']
    /\ counter' = counter + 1
    /\ element' = getElement(pointer', counter)

ASpec == initArray /\ [][Add]_avars

-----------------------------------------------------------------------------
(* Properties *)

\* What is printed is what was added, across resizes, but for the number that
\* fills the array exactly: for that one getElement returns -1.
PrintsAdded ==
    /\ counter <= size
    /\ counter > 0 => /\ pointer[counter - 1] = number
                      /\ element = IF counter = size THEN -1 ELSE number
=============================================================================
