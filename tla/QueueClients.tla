---------------------------- MODULE QueueClients -----------------------------
(***************************************************************************)
(* A BlockingQueue and the threads that use it: consumers call take() and  *)
(* poll(), producers call add(), put() and offer(), and interrupters call  *)
(* Nthread::interrupt() on a client and then wakeUpAll() on the queue, the *)
(* order in which ThreadPool::shutdown() makes these calls.  A client may  *)
(* make any sequence of its calls and may stop at any time.                *)
(***************************************************************************)
EXTENDS BlockingQueue

CONSTANTS Producers, Consumers, Interrupters

ASSUME ClientsAssumption ==
  /\ Threads = Producers \cup Consumers \cup Interrupters
  /\ Producers \cap Consumers = {}
  /\ Interrupters \cap (Producers \cup Consumers) = {}
  /\ IsFiniteSet(Threads)

vars == <<m_inner_queue, m_flag, pc, elem>>

Labels == QueueLabels \cup {"idle", "add", "wakeEmpty", "wakeFull"}

Init ==
  /\ m_inner_queue = <<>>
  /\ NoFlagSet
  /\ pc = [t \in Threads |-> "idle"]
  /\ elem = [t \in Threads |-> None]

-----------------------------------------------------------------------------
CallTake(t) == pc[t] = "idle" /\ Goto(t, "take")

StepTake(t) ==
  \/ Take(t, "idle")
  \/ TakeInterrupted(t, "idle")
  \/ TakeSeesEmpty(t)
  \/ TakeBlocks(t)

CallPoll(t) == pc[t] = "idle" /\ (Poll(t, "idle") \/ PollThrows(t, "idle"))

(* Mutant: the caller passes an element it no longer has.                  *)
CallPushNothing(t, e, operation) ==
  /\ pc[t] = "idle"
  /\ pc' = Move(pc, t, operation)
  /\ UNCHANGED queueVars

(* The caller builds its argument before it enters add, put or offer.      *)
CallPush(t, e, operation) ==
  /\ pc[t] = "idle"
  /\ elem' = [elem EXCEPT ![t] = e]
  /\ pc' = Move(pc, t, operation)
  /\ UNCHANGED <<m_inner_queue, m_flag>>

StepAdd(t) == pc[t] = "add" /\ (Add(t, "idle") \/ AddRefuses(t, "idle"))

StepOffer(t) ==
  \/ Offer(t, "idle")
  \/ OfferInterrupted(t, "idle")
  \/ OfferSeesFull(t)
  \/ OfferBlocks(t)

CallInterrupt(i, t) ==
  /\ pc[i] = "idle"
  /\ Interrupt(t)
  /\ pc' = Move(pc, i, "wakeEmpty")
  /\ UNCHANGED <<m_inner_queue, elem>>

StepWakeUpAll(i) ==
  \/ pc[i] = "wakeEmpty" /\ WakeUpEmpty(i, "wakeFull")
  \/ pc[i] = "wakeFull"  /\ WakeUpFull(i, "idle")

-----------------------------------------------------------------------------
ConsumerNext(t) == CallTake(t) \/ StepTake(t) \/ CallPoll(t)

ProducerNext(t) ==
  \/ \E e \in Elements, operation \in {"add", "offer"} : CallPush(t, e, operation)
  \/ StepAdd(t)
  \/ StepOffer(t)

InterrupterNext(i) ==
  \/ \E t \in Producers \cup Consumers : CallInterrupt(i, t)
  \/ StepWakeUpAll(i)

Next ==
  \/ \E t \in Consumers : ConsumerNext(t)
  \/ \E t \in Producers : ProducerNext(t)
  \/ \E i \in Interrupters : InterrupterNext(i)
  \/ \E t \in Threads : SpuriousWakeUp(t)

Spec == Init /\ [][Next]_vars

-----------------------------------------------------------------------------
TypeOK ==
  /\ m_inner_queue \in Seq(Elements)
  /\ m_flag \in [Threads -> BOOLEAN]
  /\ pc \in [Threads -> Labels]
  /\ elem \in [Threads -> Elements \cup {None}]

(* As long as nobody is interrupted no wake-up is lost: while a consumer   *)
(* is blocked in m_empty_cond, every queued element has a consumer of its  *)
(* own on the way to test the queue; and while a producer is blocked in    *)
(* m_full_cond, every free place has a producer on the way to it.  This is *)
(* what one notify_one per push and per pop has to guarantee, whichever    *)
(* threads overtake the woken ones (take, offer, poll, add and put).       *)
NoLostWakeUp ==
  (\A t \in Threads : ~m_flag[t]) =>
     /\ At("onEmpty") # {} => Len(m_inner_queue) <= Cardinality(At("take"))
     /\ At("onFull") # {} => m_max <= Len(m_inner_queue) + Cardinality(At("offer"))

(* What a thread saw when it decided to block is still so when it blocks:  *)
(* the queue neither gets nor loses an element between the test of a wait  *)
(* predicate and the wait itself, and only one thread is in between.       *)
SawIsStillTrue ==
  /\ At("sawEmpty") # {} => m_inner_queue = <<>>
  /\ At("sawFull") # {} => Len(m_inner_queue) = m_max
  /\ \A t, u \in At("sawEmpty") \cup At("sawFull") : t = u

(* interrupt() followed by wakeUpAll() can miss a thread that has tested   *)
(* its predicate and has not blocked yet, but never two: when every        *)
(* interrupter has finished its calls, at most one interrupted client is   *)
(* asleep.                                                                 *)
AtMostOneMissed ==
  (\A i \in Interrupters : pc[i] = "idle") =>
     \A t, u \in At("onEmpty") \cup At("onFull") :
        m_flag[t] /\ m_flag[u] => t = u

(* The queue is a bounded first-in first-out buffer for its clients, with  *)
(* or without interrupts.                                                  *)
Fifo == INSTANCE BoundedFifo WITH items <- m_inner_queue, holds <- elem

FifoSpec == Fifo!Spec

==============================================================================
