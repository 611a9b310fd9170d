------------------------------- MODULE Sorting -------------------------------
(***************************************************************************)
(* nnero::algorithm, sort.hpp: four functions that return a sorted copy of *)
(* an array of ints, the greatest value first.  selectSort() and           *)
(* bubbleSort() are the loops they are, one comparison a step; quickSort() *)
(* and mergeSort() are functions on arrays.  Indices count from 1.         *)
(***************************************************************************)
EXTENDS IntArrays, SequencesExt

VARIABLES sorter,   \* the function called
          input,    \* its argument
          result,   \* the copy it sorts
          i, j,     \* its indices
          sorted    \* BOOLEAN: it has returned

sortVars == <<sorter, input, result, i, j, sorted>>

SortInit ==
  /\ sorter \in {"select", "bubble", "quick", "merge"}
  /\ input \in Arrays /\ result = input
  /\ i = 1 /\ j = IF sorter = "select" THEN 2 ELSE 1
  /\ sorted = FALSE

Swapped(a, k, l) == [a EXCEPT ![k] = a[l], ![l] = a[k]]

Return(array) == result' = array /\ sorted' = TRUE /\ UNCHANGED <<i, j>>

-----------------------------------------------------------------------------
SelectCompare ==
  /\ i <= Len(result) /\ j <= Len(result)
  /\ result' = IF result[i] < result[j] THEN Swapped(result, i, j) ELSE result
  /\ j' = j + 1 /\ UNCHANGED <<i, sorted>>

SelectNextRow ==
  /\ i <= Len(result) /\ j > Len(result)
  /\ i' = i + 1 /\ j' = i + 2 /\ UNCHANGED <<result, sorted>>

SelectSort ==
  /\ sorter = "select"
  /\ \/ Len(input) > 1 /\ (SelectCompare \/ SelectNextRow)
     \/ (Len(input) <= 1 \/ i > Len(result)) /\ Return(result)

BubbleCompare ==
  /\ i <= Len(result) /\ j + 1 <= Len(result) - i + 1
  /\ result' = IF result[j] < result[j+1] THEN Swapped(result, j, j + 1) ELSE result
  /\ j' = j + 1 /\ UNCHANGED <<i, sorted>>

BubbleNextRow ==
  /\ i <= Len(result) /\ j + 1 > Len(result) - i + 1
  /\ i' = i + 1 /\ j' = 1 /\ UNCHANGED <<result, sorted>>

BubbleSort ==
  /\ sorter = "bubble"
  /\ \/ Len(input) > 1 /\ (BubbleCompare \/ BubbleNextRow)
     \/ (Len(input) <= 1 \/ i > Len(result)) /\ Return(result)

-----------------------------------------------------------------------------
Pivot(array) == Len(array) \div 2

(* The values of the array that are in keep, in order.                     *)
Those(array, keep) ==
  LET upTo[k \in 0..Len(array)] ==
        IF k = 0 THEN <<>>
        ELSE IF array[k] \in keep THEN Append(upTo[k-1], array[k]) ELSE upTo[k-1]
  IN upTo[Len(array)]

quickSort[array \in Arrays] ==
  IF Len(array) <= 1 THEN array
  ELSE LET piovt == array[Pivot(array) + 1]
           others == RemoveAt(array, Pivot(array) + 1)
       IN quickSort[Those(others, {x \in Values : x >= piovt})] \o <<piovt>>
          \o quickSort[Those(others, {x \in Values : x < piovt})]

(* Where the inner loop of mergeSort() ends that begins after the first    *)
(* j_index values of right: those up to there are greater than x.          *)
Passed(right, j_index, x) ==
  CHOOSE k \in j_index..Len(right) :
    /\ \A l \in j_index+1..k : right[l] > x
    /\ k < Len(right) => right[k+1] <= x

(* Each value of left in turn, after the values of right that are greater  *)
(* and still there.  What is left of right in the end is not appended.     *)
(* Mutant: right is read from its beginning again for each of them.        *)
MergeFromStart(left, right) ==
  LET upTo[n \in 0..Len(left)] ==
        IF n = 0 THEN <<>>
        ELSE upTo[n-1] \o SubSeq(right, 1, Passed(right, 0, left[n])) \o <<left[n]>>
  IN upTo[Len(left)]

Merge(left, right) ==
  LET upTo[n \in 0..Len(left)] ==
        IF n = 0 THEN [merged |-> <<>>, j_index |-> 0]
        ELSE LET last == upTo[n-1]
                 k == Passed(right, last.j_index, left[n])
             IN [merged |-> last.merged \o SubSeq(right, last.j_index + 1, k)
                              \o <<left[n]>>,
                 j_index |-> k]
  IN upTo[Len(left)].merged

mergeSort[array \in Arrays] ==
  IF Len(array) <= 1 THEN array
  ELSE Merge(mergeSort[SubSeq(array, 1, Pivot(array))],
             mergeSort[SubSeq(array, Pivot(array) + 1, Len(array))])

SortNext ==
  /\ ~sorted
  /\ \/ SelectSort \/ BubbleSort
     \/ sorter = "quick" /\ Return(quickSort[input])
     \/ sorter = "merge" /\ Return(mergeSort[input])
  /\ UNCHANGED <<sorter, input>>

SortSpec == SortInit /\ [][SortNext]_sortVars

-----------------------------------------------------------------------------
Least(array) == CHOOSE x \in Range(array) : \A y \in Range(array) : x <= y

(* Whether in array and in the parts that mergeSort() splits it into the   *)
(* least value of the left half is less than that of the right.            *)
LeastOnTheLeft[array \in Arrays] ==
  Len(array) > 1 =>
    LET left == SubSeq(array, 1, Pivot(array))
        right == SubSeq(array, Pivot(array) + 1, Len(array))
    IN Least(left) < Least(right) /\ LeastOnTheLeft[left] /\ LeastOnTheLeft[right]

(* selectSort(), bubbleSort() and quickSort() return what they were given  *)
(* in descending order.  What mergeSort() returns is in order, holds no    *)
(* value more often than the argument does, and begins with the greatest;  *)
(* but it drops what is left of a right half when the left half has ended, *)
(* so it is all of the argument exactly if every left half ends last.      *)
SortsRight ==
  sorted =>
    /\ Descending(result)
    /\ \A x \in Values :
         IF sorter = "merge" THEN Count(result, x) <= Count(input, x)
         ELSE Count(result, x) = Count(input, x)
    /\ input # <<>> => result # <<>> /\ \A k \in 1..Len(input) : input[k] <= result[1]
    /\ sorter = "merge" => (Len(result) = Len(input) <=> LeastOnTheLeft[input])

(* "merge sort for array": what is sorted is the argument, no less.        *)
MergeSortKeepsAll ==
  sorted /\ sorter = "merge" =>
    \A x \in Values : Count(result, x) = Count(input, x)

=============================================================================
