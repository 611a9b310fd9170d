------------------------------ MODULE IntArrays ------------------------------
(***************************************************************************)
(* The std::vector<int> arguments of nnero::algorithm's functions.         *)
(***************************************************************************)
EXTENDS Integers, Sequences, FiniteSets

CONSTANTS Values,     \* the ints that occur
          MaxLength   \* bound: the length of an array

ASSUME ArrayAssumption == Values \subseteq Int /\ MaxLength \in Nat

Arrays == UNION {[1..n -> Values] : n \in 0..MaxLength}

Count(array, x) == Cardinality({k \in 1..Len(array) : array[k] = x})

Descending(array) ==
  \A k, l \in 1..Len(array) : k < l => array[k] >= array[l]

=============================================================================
