------------------------------ MODULE Searching ------------------------------
(***************************************************************************)
(* nnero::algorithm, search.hpp: simpleSearch() and binarySearch(), one    *)
(* turn of the loop a step.  Indices count from 0, as the code's do, and   *)
(* are size_t: arithmetic is modulo Word.                                  *)
(***************************************************************************)
EXTENDS IntArrays

CONSTANT Word   \* 2^64: one more than the greatest size_t

ASSUME SearchAssumption == Word \in Nat /\ Word > 2 * MaxLength

VARIABLES
  searcher,        \* the function called
  array, target,   \* its arguments
  low, high,       \* its range; simpleSearch() counts in low
  answer,          \* what it returns: "none" yet, "index", "null", or that it
                   \* is "undefined"
  index            \* the index returned

searchVars == <<searcher, array, target, low, high, answer, index>>

At(k) == array[k + 1]

SearchInit ==
  /\ searcher \in {"simple", "binary"}
  /\ array \in Arrays /\ target \in Values
  /\ low = 0 /\ high = (Len(array) - 1) % Word
  /\ answer = "none" /\ index = 0

Answer(what) == answer' = what /\ UNCHANGED <<low, high, index>>

AnswerIndex(k) == answer' = "index" /\ index' = k /\ UNCHANGED <<low, high>>

NextRange(l, h) == low' = l /\ high' = h /\ UNCHANGED <<answer, index>>

SimpleSearch ==
  /\ searcher = "simple"
  /\ IF low = Len(array) THEN Answer("null")
     ELSE IF At(low) = target THEN AnswerIndex(low) ELSE NextRange(low + 1, high)

(* Mutant: the empty array is not looked for.                              *)
ExhaustedIfCrossed == low > high

Exhausted == array = <<>> \/ low > high

BinarySearch ==
  /\ searcher = "binary"
  /\ LET mid == ((high + low) % Word) \div 2 IN
     IF Exhausted THEN Answer("null")
     ELSE IF mid >= Len(array) THEN Answer("undefined")
     ELSE IF At(mid) = target THEN AnswerIndex(mid)
     ELSE IF target > At(mid) THEN NextRange(low, (mid - 1) % Word)
     ELSE NextRange(mid + 1, high)

SearchNext ==
  /\ answer = "none"
  /\ SimpleSearch \/ BinarySearch
  /\ UNCHANGED <<searcher, array, target>>

SearchSpec == SearchInit /\ [][SearchNext]_searchVars

-----------------------------------------------------------------------------
Indices == 0..Len(array) - 1

(* An index that a search returns holds the target, and simpleSearch()     *)
(* returns the first.  On an array in descending order binarySearch()      *)
(* returns null only if the target is not there, and reads beyond the      *)
(* array, its index having gone below 0, just when the target is greater   *)
(* than every value.  On an empty array neither reads anything.            *)
SearchRight ==
  LET descending == Descending(array)
      absent == \A k \in Indices : At(k) # target IN
  /\ answer = "index" => index \in Indices /\ At(index) = target
  /\ searcher = "simple" /\ answer = "index" => \A k \in 0..index - 1 : At(k) # target
  /\ answer = "null" /\ (searcher = "simple" \/ descending) => absent
  /\ answer = "undefined" => searcher = "binary" /\ array # <<>>
  /\ searcher = "binary" /\ descending /\ array # <<>> /\ answer # "none" =>
       (answer = "undefined" <=> \A k \in Indices : At(k) < target)

=============================================================================
