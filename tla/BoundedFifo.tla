----------------------------- MODULE BoundedFifo -----------------------------
(***************************************************************************)
(* What a BlockingQueue promises its callers, without locks, conditions or *)
(* interrupts: a first-in first-out buffer of at most m_max elements.      *)
(***************************************************************************)
EXTENDS Naturals, Sequences

CONSTANTS Threads, Elements, None, m_max

VARIABLES items,  \* the buffered elements, oldest first
          holds   \* [Threads -> Elements \cup {None}]: what a thread is about
                  \* to insert or has received last

Init == items = <<>> /\ holds = [t \in Threads |-> None]

(* A thread decides what it wants to insert.                               *)
Choose(t, e) == holds' = [holds EXCEPT ![t] = e] /\ UNCHANGED items

Insert(t) ==
  /\ Len(items) < m_max
  /\ holds[t] \in Elements
  /\ items' = Append(items, holds[t])
  /\ UNCHANGED holds

Remove(t) ==
  /\ items # <<>>
  /\ holds' = [holds EXCEPT ![t] = Head(items)]
  /\ items' = Tail(items)

Next ==
  \E t \in Threads :
     \/ \E e \in Elements : Choose(t, e)
     \/ Insert(t)
     \/ Remove(t)

Spec == Init /\ [][Next]_<<items, holds>>

==============================================================================
