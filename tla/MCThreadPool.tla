---------------------------- MODULE MCThreadPool -----------------------------
(***************************************************************************)
(* Instances of ThreadPool for TLC.                                        *)
(***************************************************************************)
EXTENDS ThreadPool, TLC

CONSTANTS Throwing, Interruptible   \* the tasks of the two other kinds

MCThreads == Workers \cup {owner}

MCKind ==
  [x \in Tasks |-> CASE x \in Throwing      -> "throws"
                     [] x \in Interruptible -> "interruptible"
                     [] OTHER                -> "returns"]

==============================================================================
