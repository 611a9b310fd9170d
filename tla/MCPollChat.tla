----------------------------- MODULE MCPollChat ------------------------------
(***************************************************************************)
(* PollChat with clients that connect in the order of their numbers, which *)
(* is a matter of naming them.                                             *)
(***************************************************************************)
EXTENDS PollChat

MCClient == 1..3

InOrder ==
  \A c, d \in Client : c < d /\ accepted'[d] # "no" => accepted'[c] # "no"

MCSpec == Init /\ [][Next /\ InOrder]_vars /\ Fairness

=============================================================================
