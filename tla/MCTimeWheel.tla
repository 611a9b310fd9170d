----------------------------- MODULE MCTimeWheel -----------------------------
(***************************************************************************)
(* Instances of TimeWheel for TLC: the delay of a task, in milliseconds,   *)
(* is chosen by the set it is in.                                          *)
(***************************************************************************)
EXTENDS TimeWheel

CONSTANTS Delay10,  \* the next slot
          Delay25,  \* two units, less than a rotation of a wheel of 3
          Delay30,  \* a full rotation of a wheel of 3
          Delay59   \* a rotation and two units

MCTasks == Delay10 \cup Delay25 \cup Delay30 \cup Delay59

MCDelayTime ==
  [x \in MCTasks |-> CASE x \in Delay10 -> 10
                       [] x \in Delay25 -> 25
                       [] x \in Delay30 -> 30
                       [] x \in Delay59 -> 59]

==============================================================================
