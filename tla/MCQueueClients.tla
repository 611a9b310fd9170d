--------------------------- MODULE MCQueueClients ----------------------------
(***************************************************************************)
(* Instances of QueueClients for TLC: who the threads are.                 *)
(***************************************************************************)
EXTENDS QueueClients, TLC

MCThreads == Producers \cup Consumers \cup Interrupters

Symmetry ==
  Permutations(Producers) \cup Permutations(Consumers)

==============================================================================
