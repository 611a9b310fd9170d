---------------------------- MODULE TaskExecutor -----------------------------
(***************************************************************************)
(* What a ThreadPool promises its owner, without threads, locks or         *)
(* interrupts: accepted tasks are started in the order they came, each at  *)
(* most once and by one worker, also after the pool was closed; nothing is *)
(* accepted once it is closed and nothing runs once it is stopped.         *)
(***************************************************************************)
EXTENDS Naturals, Sequences

CONSTANTS Workers, Tasks, None, m_max

VARIABLES waiting,  \* Seq(Tasks): accepted and not started, oldest first
          running,  \* [Workers -> Tasks \cup {None}]
          done,     \* SUBSET Tasks: ended, in whatever way
          phase     \* "open", then "closed", then "stopped"

vars == <<waiting, running, done, phase>>

Init ==
  /\ waiting = <<>>
  /\ running = [w \in Workers |-> None]
  /\ done = {}
  /\ phase = "open"

Accept(x) ==
  /\ phase = "open" /\ Len(waiting) < m_max
  /\ x \notin done
  /\ \A i \in 1..Len(waiting) : waiting[i] # x
  /\ \A w \in Workers : running[w] # x
  /\ waiting' = Append(waiting, x)
  /\ UNCHANGED <<running, done, phase>>

Start(w) ==
  /\ phase # "stopped" /\ waiting # <<>> /\ running[w] = None
  /\ running' = [running EXCEPT ![w] = Head(waiting)]
  /\ waiting' = Tail(waiting)
  /\ UNCHANGED <<done, phase>>

Finish(w) ==
  /\ running[w] # None
  /\ running' = [running EXCEPT ![w] = None]
  /\ done' = done \cup {running[w]}
  /\ UNCHANGED <<waiting, phase>>

Close == phase = "open" /\ phase' = "closed" /\ UNCHANGED <<waiting, running, done>>

Stop ==
  /\ phase = "closed" /\ \A w \in Workers : running[w] = None
  /\ phase' = "stopped"
  /\ UNCHANGED <<waiting, running, done>>

Next ==
  \/ \E x \in Tasks : Accept(x)
  \/ \E w \in Workers : Start(w) \/ Finish(w)
  \/ Close \/ Stop

Spec == Init /\ [][Next]_vars

==============================================================================
