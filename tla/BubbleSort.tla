----------------------------- MODULE BubbleSort -----------------------------
(***************************************************************************)
(* exercise11/task_1: the numbers of the command line are sorted, by the   *)
(* bubble_sort of my_program.c or by that of some_library.c, which does    *)
(* the same and takes its parameters the other way round. Indexes start    *)
(* with 0, as in C.                                                        *)
(***************************************************************************)
EXTENDS Integers, FiniteSets

CONSTANTS
  Numbers,          \* the numbers given,
  MaxSize           \* and how many there can be

VARIABLES
  sorting,          \* where the program is
  input,            \* the numbers as they were read
  numbers,
  size,
  pass,             \* i of the outer loop
  place,            \* j of the inner loop
  swapped           \* s

vars == <<sorting, input, numbers, size, pass, place, swapped>>

Init ==
  /\ sorting = "none"
  /\ input = [k \in {} |-> 0]
  /\ numbers = input
  /\ size = 0
  /\ pass = 0
  /\ place = 0
  /\ swapped = FALSE

Goto(from, to) == sorting = from /\ sorting' = to

Start ==
  /\ Goto("none", "outer")
  /\ size' \in 0 .. MaxSize
  /\ input' \in [0 .. size' - 1 -> Numbers]
  /\ numbers' = input'
  /\ UNCHANGED <<pass, place, swapped>>

Outer ==
  /\ pass < size - 1
  /\ Goto("outer", "inner")
  /\ swapped' = FALSE
  /\ place' = 0
  /\ UNCHANGED <<input, numbers, size, pass>>

\* Mutant: only the last comparison decides whether there is another pass.
InnerForgetting ==
  /\ sorting = "inner"
  /\ place < size - pass - 1
  /\ LET wrong == numbers[place] > numbers[place + 1] IN
       /\ numbers' = IF wrong THEN [numbers EXCEPT ![place] = numbers[place + 1],
                                                   ![place + 1] = numbers[place]]
                     ELSE numbers
       /\ swapped' = wrong
  /\ place' = place + 1
  /\ UNCHANGED <<sorting, input, size, pass>>

\* Two neighbours that are in the wrong order are exchanged.
Inner ==
  /\ sorting = "inner"
  /\ place < size - pass - 1
  /\ LET wrong == numbers[place] > numbers[place + 1] IN
       /\ numbers' = IF wrong THEN [numbers EXCEPT ![place] = numbers[place + 1],
                                                   ![place + 1] = numbers[place]]
                     ELSE numbers
       /\ swapped' = (swapped \/ wrong)
  /\ place' = place + 1
  /\ UNCHANGED <<sorting, input, size, pass>>

\* A pass that has exchanged nothing is the last.
InnerEnds ==
  /\ place >= size - pass - 1
  /\ Goto("inner", IF swapped THEN "outer" ELSE "sorted")
  /\ pass' = pass + 1
  /\ UNCHANGED <<input, numbers, size, place, swapped>>

OuterEnds ==
  /\ pass >= size - 1
  /\ Goto("outer", "sorted")
  /\ UNCHANGED <<input, numbers, size, pass, place, swapped>>

bubble_sort == Outer \/ Inner \/ InnerEnds \/ OuterEnds

Next == Start \/ bubble_sort

Spec == Init /\ [][Next]_vars

---------------------------------------------------------------------------
\* The types.
TypeOK ==
  /\ sorting \in {"none", "outer", "inner", "sorted"}
  /\ size \in 0 .. MaxSize
  /\ input \in [0 .. size - 1 -> Numbers] /\ numbers \in [0 .. size - 1 -> Numbers]
  /\ pass \in Nat /\ place \in Nat
  /\ swapped \in BOOLEAN

Occurrences(f, n) == Cardinality({k \in DOMAIN f : f[k] = n})

\* When the sort returns, at the end of its loops or because a pass exchanged
\* nothing, the numbers ascend; and no number is lost or doubled at any moment.
SortedInTheEnd ==
  /\ \A n \in Numbers : Occurrences(numbers, n) = Occurrences(input, n)
  /\ sorting = "sorted" => \A k \in 1 .. size - 1 : numbers[k - 1] <= numbers[k]
=============================================================================
