---------------------------- MODULE BlockingQueue ----------------------------
(***************************************************************************)
(* The operations of nnero::queue::BlockingQueue<T>, for the modules whose *)
(* threads call them.                                                      *)
(*                                                                         *)
(* An operation is a list of steps of the calling thread t; the position   *)
(* of t is pc[t], and the last step of an operation moves t to the label k *)
(* its caller passes.  The labels that belong to the queue are             *)
(*   "take"      in take(), about to lock m_mutex and test the predicate,  *)
(*               on entry or after a wake-up                               *)
(*   "sawEmpty"  the predicate was false; t still holds m_mutex and is     *)
(*               about to block                                            *)
(*   "onEmpty"   blocked in m_empty_cond, m_mutex released                 *)
(* and "offer", "sawFull", "onFull", the same three for offer() and        *)
(* m_full_cond.  The wait sets and the owner of m_mutex can be read off    *)
(* these labels, so they need no variable.  A critical section in which    *)
(* the thread does not block is one step: no other step that needs m_mutex *)
(* could come in between.  What CAN come in between the test and the       *)
(* blocking is a step that does not take m_mutex: an interrupt and the     *)
(* notify_all calls of wakeUpAll().                                        *)
(***************************************************************************)
EXTENDS Nthread, Naturals, Sequences, FiniteSets

CONSTANTS Elements,  \* the values of type T
          None,      \* "no element", not a T
          m_max      \* the capacity

ASSUME QueueAssumption == m_max \in Nat /\ None \notin Elements

VARIABLES m_inner_queue,  \* the std::queue<T>
          pc,             \* [Threads -> label]
          elem            \* [Threads -> Elements \cup {None}]: the T a thread
                          \* passes to a push or got from its last pop

queueVars == <<m_inner_queue, m_flag, elem>>

QueueLabels == {"take", "sawEmpty", "onEmpty", "offer", "sawFull", "onFull"}

At(label) == {t \in Threads : pc[t] = label}

(* m_mutex is free unless a thread sits between its test and its wait.     *)
MutexFree == At("sawEmpty") = {} /\ At("sawFull") = {}

-----------------------------------------------------------------------------
(* Condition variables, as functions on program counters.                  *)

Move(f, t, label) == [f EXCEPT ![t] = label]

(* cond.notify_one(): one waiter, if there is any, goes back to its test.  *)
NotifyOne(f, cond, test) ==
  IF \E u \in Threads : f[u] = cond
  THEN {Move(f, u, test) : u \in {w \in Threads : f[w] = cond}}
  ELSE {f}

(* cond.notify_all(): every waiter goes back to its test.                  *)
NotifyAll(f, cond, test) ==
  [u \in Threads |-> IF f[u] = cond THEN test ELSE f[u]]

(* The standard lets a wait return although nobody notified it.            *)
SpuriousWakeUp(t) ==
  /\ \/ pc[t] = "onEmpty" /\ pc' = Move(pc, t, "take")
     \/ pc[t] = "onFull"  /\ pc' = Move(pc, t, "offer")
  /\ UNCHANGED queueVars

-----------------------------------------------------------------------------
(* push and pop, with the notification that follows them.                  *)

(* Mutant: the notify_one after a push is missing.                         *)
PushSilently(t, k) ==
  /\ m_inner_queue' = Append(m_inner_queue, elem[t])
  /\ pc' = Move(pc, t, k)
  /\ UNCHANGED <<m_flag, elem>>

Push(t, k) ==
  /\ m_inner_queue' = Append(m_inner_queue, elem[t])
  /\ pc' \in NotifyOne(Move(pc, t, k), "onEmpty", "take")
  /\ UNCHANGED <<m_flag, elem>>

Pop(t, k) ==
  /\ elem' = [elem EXCEPT ![t] = Head(m_inner_queue)]
  /\ m_inner_queue' = Tail(m_inner_queue)
  /\ pc' \in NotifyOne(Move(pc, t, k), "onFull", "offer")
  /\ UNCHANGED m_flag

(* The thread only moves: it throws, refuses, blocks or goes on.           *)
Goto(t, k) == pc' = Move(pc, t, k) /\ UNCHANGED queueVars

-----------------------------------------------------------------------------
(* take(): wait(lock, pred) where pred calls interruptPoint() first.       *)

Take(t, k) ==
  /\ pc[t] = "take" /\ MutexFree
  /\ ~InterruptPointThrows(t)
  /\ m_inner_queue # <<>>
  /\ Pop(t, k)

TakeInterrupted(t, k) ==
  /\ pc[t] = "take" /\ MutexFree
  /\ InterruptPointThrows(t)
  /\ Goto(t, k)

(* Mutant: take() tests its predicate without m_mutex.                     *)
TakeSeesEmptyUnlocked(t) ==
  /\ pc[t] = "take"
  /\ ~InterruptPointThrows(t)
  /\ m_inner_queue = <<>>
  /\ Goto(t, "sawEmpty")

TakeSeesEmpty(t) ==
  /\ pc[t] = "take" /\ MutexFree
  /\ ~InterruptPointThrows(t)
  /\ m_inner_queue = <<>>
  /\ Goto(t, "sawEmpty")

TakeBlocks(t) == pc[t] = "sawEmpty" /\ Goto(t, "onEmpty")

(* poll(): never blocks, throws when the queue is empty.                   *)
Poll(t, k) == MutexFree /\ m_inner_queue # <<>> /\ Pop(t, k)

PollThrows(t, k) == MutexFree /\ m_inner_queue = <<>> /\ Goto(t, k)

-----------------------------------------------------------------------------
(* Mutant: add() without its lock_guard.                                   *)
AddUnlocked(t, k) == Len(m_inner_queue) # m_max /\ Push(t, k)

(* add() and put(): never block; add returns false and put throws when the *)
(* queue is full.                                                          *)
Add(t, k) == MutexFree /\ Len(m_inner_queue) # m_max /\ Push(t, k)

AddRefuses(t, k) == MutexFree /\ Len(m_inner_queue) = m_max /\ Goto(t, k)

(* Mutant: the predicate of offer() is off by one.                         *)
OfferOffByOne(t, k) ==
  /\ pc[t] = "offer" /\ MutexFree
  /\ ~InterruptPointThrows(t)
  /\ Len(m_inner_queue) <= m_max
  /\ Push(t, k)

(* offer(): blocks while the queue is full.                                *)
Offer(t, k) ==
  /\ pc[t] = "offer" /\ MutexFree
  /\ ~InterruptPointThrows(t)
  /\ Len(m_inner_queue) < m_max
  /\ Push(t, k)

OfferInterrupted(t, k) ==
  /\ pc[t] = "offer" /\ MutexFree
  /\ InterruptPointThrows(t)
  /\ Goto(t, k)

OfferSeesFull(t) ==
  /\ pc[t] = "offer" /\ MutexFree
  /\ ~InterruptPointThrows(t)
  /\ ~(Len(m_inner_queue) < m_max)
  /\ Goto(t, "sawFull")

OfferBlocks(t) == pc[t] = "sawFull" /\ Goto(t, "onFull")

-----------------------------------------------------------------------------
(* wakeUpAll(): two notify_all calls, made WITHOUT m_mutex.                *)

WakeUpEmpty(t, k) ==
  /\ pc' = NotifyAll(Move(pc, t, k), "onEmpty", "take")
  /\ UNCHANGED queueVars

WakeUpFull(t, k) ==
  /\ pc' = NotifyAll(Move(pc, t, k), "onFull", "offer")
  /\ UNCHANGED queueVars

==============================================================================
