--------------------------- MODULE ThreadPoolProofs ---------------------------
(***************************************************************************)
(* Theorems about ThreadPool, for any number of workers, any tasks and any *)
(* capacity of the queue.                                                  *)
(***************************************************************************)
EXTENDS ThreadPool, FiniteSetTheorems, TLAPS

(* A worker at one of these has not counted itself out,                    *)
Working == {"loop", "take", "sawEmpty", "onEmpty", "run",
            "drain", "poll", "drainRun", "exit"}
(* and at one of these it has left the loop of runWorker().                *)
LeftLoop == {"drain", "poll", "drainRun", "exit", "leaving", "ended"}

(* m_threads lists every created worker once.                              *)
Roster ==
  /\ \A i, j \in 1..Len(m_threads) : m_threads[i] = m_threads[j] => i = j
  /\ \A w \in Workers :
       pc[w] # "none" <=> \E i \in 1..Len(m_threads) : m_threads[i] = w

OwnerPhase ==
  /\ pc[owner] \in {"adding", "growing"} => ~m_shutdown
  /\ pc[owner] \in OwnerLocks \cup {"onShutdown", "relock"} => m_shutdown
  /\ pc[owner] = "adding" => elem[owner] \in Tasks

(* Only shutdown() interrupts, and only then do workers leave their loop.  *)
LeaveLate ==
  \A w \in Workers : m_flag[w] \/ pc[w] \in LeftLoop => m_shutdown

(* m_main_lock keeps every worker from counting itself out meanwhile.      *)
NoneOutYet ==
  pc[owner] = "interrupting" => \A w \in Workers : pc[w] \notin {"leaving", "ended"}

Joined ==
  /\ pc[owner] = "joining" \/ Returned =>
       \A w \in Workers : pc[w] \in {"none", "leaving", "ended"}
  /\ pc[owner] = "joining" =>
       \A i \in 1..Len(m_threads) : i < cursor => pc[m_threads[i]] = "ended"
  /\ Returned => \A w \in Workers : pc[w] \in {"none", "ended"}

ControlInv ==
  TypeOK /\ Roster /\ WorkerCount /\ OwnerPhase /\ LeaveLate /\ NoneOutYet /\ Joined

-----------------------------------------------------------------------------
LEMMA OwnerIsNoWorker == owner \in Threads /\ \A w \in Workers : w # owner /\ w \in Threads
BY PoolAssumption

LEMMA CountedFinite ==
  /\ IsFiniteSet(Counted) /\ Cardinality(Counted) \in Nat
  /\ Cardinality(Counted) = 0 <=> Counted = {}
BY PoolAssumption, FS_Subset, FS_CardinalityType, FS_EmptySet DEF Counted

LEMMA ControlInit == Init => ControlInv
<1>. SUFFICES ASSUME Init PROVE ControlInv
  OBVIOUS
<1>. USE OwnerIsNoWorker DEF Init
<1>0. pc[owner] = "idle" /\ \A w \in Workers : pc[w] = "none"
  OBVIOUS
<1>1. TypeOK
  <2>1. pc \in [Threads -> OwnerLabels \cup WorkerLabels]
    BY DEF OwnerLabels, WorkerLabels
  <2>2. m_inner_queue \in Seq(Tasks) /\ m_threads \in Seq(Workers)
    OBVIOUS
  <2>3. fate \in [Tasks -> Fates]
    BY DEF Fates
  <2>4. m_flag \in [Threads -> BOOLEAN] /\ elem \in [Threads -> Tasks \cup {None}]
    BY DEF NoFlagSet
  <2>5. pc[owner] \in OwnerLabels /\ \A w \in Workers : pc[w] \in WorkerLabels
    BY <1>0 DEF OwnerLabels, WorkerLabels
  <2>6. m_shutdown \in BOOLEAN /\ aborted \in BOOLEAN
    OBVIOUS
  <2>7. m_worker_cnt \in Nat /\ cursor \in Nat \ {0}
    OBVIOUS
  <2>8. QED
    BY <2>1, <2>2, <2>3, <2>4, <2>5, <2>6, <2>7 DEF TypeOK
<1>2. Roster
  <2>1. 1..Len(m_threads) = {}  OBVIOUS
  <2>2. QED  BY <1>0, <2>1 DEF Roster
<1>3. WorkerCount
  <2>1. Counted = {}  BY DEF Counted
  <2>2. QED  BY <2>1, FS_EmptySet DEF WorkerCount
<1>4. OwnerPhase  BY DEF OwnerPhase, OwnerLocks
<1>5. LeaveLate  BY DEF LeaveLate, LeftLoop, NoFlagSet
<1>6. NoneOutYet /\ Joined  BY DEF NoneOutYet, Joined, Returned
<1>7. QED  BY <1>1, <1>2, <1>3, <1>4, <1>5, <1>6 DEF ControlInv

(* A worker moves between labels at which it counts as working, and        *)
(* leaves its loop only after m_shutdown is set.  Whatever the step does   *)
(* to the queue, to its element and to the fates has the right type.       *)
LEMMA WorkerMoves ==
  ASSUME ControlInv, NEW w \in Workers, NEW l \in Working,
         pc[w] \in Working, l \in LeftLoop => m_shutdown,
         pc' = Move(pc, w, l),
         UNCHANGED <<m_flag, m_shutdown, m_worker_cnt, m_threads, cursor>>,
         m_inner_queue' \in Seq(Tasks),
         elem' \in [Threads -> Tasks \cup {None}], elem'[owner] = elem[owner],
         aborted' \in BOOLEAN,
         fate' \in [Tasks -> Fates]
  PROVE  ControlInv'
<1>. USE OwnerIsNoWorker DEF ControlInv
<1>0. pc \in [Threads -> OwnerLabels \cup WorkerLabels]
  BY DEF TypeOK
<1>1. /\ pc'[owner] = pc[owner]
      /\ pc'[w] = l
      /\ \A u \in Workers : u # w => pc'[u] = pc[u]
  BY <1>0 DEF Move
<1>2. TypeOK'
  BY <1>0, <1>1 DEF TypeOK, Move, Working, WorkerLabels
<1>3. Roster'
  BY <1>1 DEF Roster, Working
<1>4. WorkerCount'
  <2>1. Counted' = Counted  BY <1>1 DEF Counted, Working
  <2>2. QED  BY <2>1 DEF WorkerCount
<1>5. OwnerPhase'  BY <1>1 DEF OwnerPhase
<1>6. LeaveLate'  BY <1>1 DEF LeaveLate
<1>7. NoneOutYet'  BY <1>1 DEF NoneOutYet, Working
<1>8. Joined'
  BY <1>1 DEF Joined, Returned, Working, TypeOK
<1>9. QED  BY <1>2, <1>3, <1>4, <1>5, <1>6, <1>7, <1>8

(* The owner moves to k within one of its two calls, while a notify_all or *)
(* a notify_one may send workers back from m_empty_cond to their test.     *)
OwnerStep(k) ==
  /\ k \in OwnerLabels \ {"interrupting", "joining"}
  /\ pc' \in [Threads -> OwnerLabels \cup WorkerLabels] /\ pc'[owner] = k
  /\ \A w \in Workers :
        (pc'[w] = pc[w] \/ (pc[w] = "onEmpty" /\ pc'[w] = "take"))
  /\ UNCHANGED <<m_flag, m_shutdown, m_worker_cnt, m_threads, cursor, aborted>>
  /\ m_inner_queue' \in Seq(Tasks)
  /\ elem' \in [Threads -> Tasks \cup {None}]
  /\ fate' \in [Tasks -> Fates]
  /\ k \in {"adding", "growing"} => ~m_shutdown
  /\ k = "adding" => elem'[owner] \in Tasks
  /\ k \in OwnerLocks \cup {"onShutdown", "relock"} => m_shutdown
  /\ m_shutdown => k # "idle"

LEMMA OwnerMoves ==
  ASSUME ControlInv, NEW k, OwnerStep(k)
  PROVE  ControlInv'
<1>. USE OwnerIsNoWorker DEF ControlInv, OwnerStep
<1>1. TypeOK'
  BY DEF TypeOK, WorkerLabels
<1>2. Roster'  BY DEF Roster
<1>3. WorkerCount'
  <2>1. Counted' = Counted  BY DEF Counted
  <2>2. QED  BY <2>1 DEF WorkerCount
<1>4. OwnerPhase'  BY DEF OwnerPhase
<1>5. LeaveLate'  BY DEF LeaveLate, LeftLoop
<1>6. NoneOutYet' /\ Joined'  BY DEF NoneOutYet, Joined, Returned
<1>7. QED  BY <1>1, <1>2, <1>3, <1>4, <1>5, <1>6

-----------------------------------------------------------------------------
(* One lemma for each part of Next.                                        *)

(* What a pop does to the program counters: nobody waits in m_full_cond.   *)
LEMMA PopMoves ==
  ASSUME TypeOK, NEW w \in Workers, NEW k, Pop(w, k)
  PROVE  pc' = Move(pc, w, k) \/ k \notin WorkerLabels
<1>. USE OwnerIsNoWorker
<1>1. \A u \in Threads : pc[u] # "onFull"
  BY PoolAssumption DEF TypeOK, OwnerLabels, OwnerLocks, WorkerLabels
<1>2. k \in WorkerLabels => \A u \in Threads : Move(pc, w, k)[u] # "onFull"
  BY <1>1 DEF Move, WorkerLabels, TypeOK
<1>3. QED  BY <1>2 DEF Pop, NotifyOne

(* A push by the owner sends at most one worker back to its test.          *)
LEMMA PushMoves ==
  ASSUME TypeOK, Push(owner, "growing")
  PROVE  /\ pc'[owner] = "growing"
         /\ \A w \in Workers : pc'[w] = pc[w] \/ (pc[w] = "onEmpty" /\ pc'[w] = "take")
<1>. USE OwnerIsNoWorker
<1>1. PICK f : f = Move(pc, owner, "growing")
  OBVIOUS
<1>2. /\ f \in [Threads -> OwnerLabels \cup WorkerLabels]
      /\ f[owner] = "growing" /\ \A w \in Workers : f[w] = pc[w]
  BY <1>1 DEF Move, TypeOK, OwnerLabels
<1>3. pc' \in NotifyOne(f, "onEmpty", "take")
  BY <1>1 DEF Push
<1>4. pc' = f \/ \E u \in Threads : f[u] = "onEmpty" /\ pc' = [f EXCEPT ![u] = "take"]
  BY <1>3 DEF NotifyOne, Move
<1>5. CASE pc' = f
  BY <1>2, <1>5
<1>6. ASSUME NEW u \in Threads, f[u] = "onEmpty", pc' = [f EXCEPT ![u] = "take"]
      PROVE  /\ pc'[owner] = "growing"
             /\ \A w \in Workers : pc'[w] = pc[w] \/ (pc[w] = "onEmpty" /\ pc'[w] = "take")
  BY <1>2, <1>6
<1>7. QED  BY <1>4, <1>5, <1>6

LEMMA WorkerControl ==
  ASSUME ControlInv, NEW w \in Workers, WorkerNext(w) \/ WorkerSpuriousWakeUp(w)
  PROVE  ControlInv'
<1>. USE OwnerIsNoWorker
<1>. TypeOK  BY DEF ControlInv
<1>1. ASSUME NEW l \in Working, Goto(w, l), pc[w] \in Working,
             l \in LeftLoop => m_shutdown,
             UNCHANGED <<m_shutdown, m_worker_cnt, m_threads, cursor>>,
             aborted' \in BOOLEAN, fate' \in [Tasks -> Fates]
      PROVE  ControlInv'
  BY <1>1, WorkerMoves DEF Goto, queueVars, TypeOK
<1>2. ASSUME NEW l \in Working, Pop(w, l), pc[w] \in Working,
             m_inner_queue # <<>>, l \in LeftLoop => m_shutdown,
             UNCHANGED poolVars
      PROVE  ControlInv'
  <2>1. pc' = Move(pc, w, l)
    BY <1>2, PopMoves DEF Working, WorkerLabels
  <2>2. /\ m_inner_queue' \in Seq(Tasks)
        /\ elem' \in [Threads -> Tasks \cup {None}] /\ elem'[owner] = elem[owner]
        /\ UNCHANGED m_flag
    BY <1>2 DEF Pop, TypeOK
  <2>3. QED  BY <1>2, <2>1, <2>2, WorkerMoves DEF poolVars, TypeOK
<1>3. CASE TestShutdown(w)
  BY <1>3, <1>1 DEF TestShutdown, poolVars, Working, LeftLoop, TypeOK
<1>4. CASE GetTask(w)
  <2>1. CASE Take(w, "run")
    BY <1>4, <2>1, <1>2 DEF GetTask, Take, Working, LeftLoop
  <2>2. CASE TakeInterrupted(w, "drain")
    BY <1>4, <2>2, <1>1 DEF GetTask, TakeInterrupted, InterruptPointThrows,
      poolVars, Working, LeftLoop, ControlInv, LeaveLate, TypeOK
  <2>3. CASE TakeSeesEmpty(w)
    BY <1>4, <2>3, <1>1 DEF GetTask, TakeSeesEmpty, poolVars, Working, LeftLoop,
      TypeOK
  <2>4. CASE TakeBlocks(w)
    BY <1>4, <2>4, <1>1 DEF GetTask, TakeBlocks, poolVars, Working, LeftLoop,
      TypeOK
  <2>5. QED  BY <1>4, <2>1, <2>2, <2>3, <2>4 DEF GetTask
<1>5. ASSUME NEW x, Abort(x) PROVE ControlInv'
  <2>1. /\ UNCHANGED <<queueVars, pc, m_shutdown, m_worker_cnt, m_threads, cursor>>
        /\ aborted' \in BOOLEAN /\ fate' \in [Tasks -> Fates]
    BY <1>5 DEF Abort, TypeOK, Fates
  <2>2. TypeOK'
    BY <2>1 DEF queueVars, TypeOK
  <2>3. Counted' = Counted
    BY <2>1 DEF Counted
  <2>4. QED
    BY <2>1, <2>2, <2>3 DEF queueVars, ControlInv, Roster, WorkerCount,
      OwnerPhase, LeaveLate, NoneOutYet, Joined, Returned
<1>6. CASE RunTask(w)
  <2>1. CASE Goto(w, "loop") /\ SetFate(elem[w], "ran")
    BY <1>6, <2>1, <1>1 DEF RunTask, SetFate, Working, LeftLoop, Fates, TypeOK
  <2>2. CASE /\ BodyThrowsInterrupt(w, elem[w])
             /\ Goto(w, "drain") /\ SetFate(elem[w], "threw")
    BY <1>6, <2>2, <1>1 DEF RunTask, BodyThrowsInterrupt, InterruptPointThrows,
      SetFate, Working, LeftLoop, Fates, TypeOK, ControlInv, LeaveLate
  <2>3. QED  BY <1>6, <2>1, <2>2, <1>5 DEF RunTask
<1>7. CASE TestEmpty(w)
  BY <1>7, <1>1 DEF TestEmpty, poolVars, Working, LeftLoop, TypeOK,
    ControlInv, LeaveLate
<1>8. CASE PollTask(w)
  <2>1. m_shutdown
    BY <1>8 DEF PollTask, ControlInv, LeaveLate, LeftLoop
  <2>2. CASE Poll(w, "drainRun")
    BY <1>8, <2>1, <2>2, <1>2 DEF PollTask, Poll, Working
  <2>3. CASE PollThrows(w, "exit")
    BY <1>8, <2>1, <2>3, <1>1 DEF PollTask, PollThrows, Working, poolVars, TypeOK
  <2>4. QED  BY <1>8, <2>2, <2>3 DEF PollTask
<1>9. CASE DrainTask(w)
  <2>1. m_shutdown
    BY <1>9 DEF DrainTask, ControlInv, LeaveLate, LeftLoop
  <2>2. ASSUME NEW l \in {"drain", "exit"}, NEW f \in {"ran", "threw"},
               Goto(w, l), SetFate(elem[w], f)
        PROVE  ControlInv'
    BY <1>9, <2>1, <2>2, <1>1 DEF DrainTask, SetFate, Working, Fates, TypeOK
  <2>3. QED  BY <1>9, <2>2, <1>5 DEF DrainTask
<1>10. CASE WorkerSpuriousWakeUp(w)
  <2>1. pc[w] = "onEmpty" /\ Goto(w, "take") /\ UNCHANGED poolVars
    BY <1>10 DEF WorkerSpuriousWakeUp, SpuriousWakeUp, Goto, TypeOK, WorkerLabels
  <2>2. QED  BY <2>1, <1>1 DEF poolVars, Working, LeftLoop, TypeOK
<1>11. CASE CountOut(w)
  <2>0. pc \in [Threads -> OwnerLabels \cup WorkerLabels]
    BY DEF TypeOK
  <2>1. /\ pc[w] = "exit" /\ pc'[w] = "leaving"
        /\ \A u \in Workers : u # w => pc'[u] = pc[u]
        /\ pc'[owner] = IF pc[owner] = "onShutdown" THEN "relock" ELSE pc[owner]
        /\ pc' \in [Threads -> OwnerLabels \cup WorkerLabels]
    BY <1>11, <2>0 DEF CountOut, OwnerLabels, WorkerLabels
  <2>2. w \in Counted /\ Counted' = Counted \ {w}
    BY <2>1 DEF Counted
  <2>3. Cardinality(Counted') = Cardinality(Counted) - 1
    BY <2>2, CountedFinite, FS_RemoveElement
  <2>4. WorkerCount' /\ m_worker_cnt' \in Nat
    <3>1. Cardinality(Counted) \in Nat /\ Cardinality(Counted) # 0
      BY <2>2, CountedFinite
    <3>2. m_worker_cnt = Cardinality(Counted) /\ m_worker_cnt' = m_worker_cnt - 1
      BY <1>11 DEF CountOut, ControlInv, WorkerCount
    <3>3. QED  BY <3>1, <3>2, <2>3 DEF WorkerCount
  <2>5. TypeOK'
    BY <1>11, <2>1, <2>4 DEF CountOut, queueVars, TypeOK, OwnerLabels, WorkerLabels
  <2>6. Roster'
    BY <1>11, <2>1 DEF CountOut, ControlInv, Roster
  <2>7. OwnerPhase'
    BY <1>11, <2>1 DEF CountOut, queueVars, ControlInv, OwnerPhase, OwnerLocks
  <2>8. LeaveLate'
    BY <1>11, <2>1 DEF CountOut, queueVars, ControlInv, LeaveLate, LeftLoop
  <2>9. NoneOutYet' /\ Joined'
    BY <1>11, <2>1 DEF CountOut, MainLockFree, ControlInv, NoneOutYet, Joined,
      Returned, OwnerLocks
  <2>10. QED  BY <2>4, <2>5, <2>6, <2>7, <2>8, <2>9 DEF ControlInv
<1>12. CASE End(w)
  <2>1. /\ pc[w] = "leaving" /\ pc'[w] = "ended"
        /\ \A u \in Workers : u # w => pc'[u] = pc[u]
        /\ pc'[owner] = pc[owner]
        /\ pc' \in [Threads -> OwnerLabels \cup WorkerLabels]
    BY <1>12 DEF End, Goto, Move, TypeOK, WorkerLabels
  <2>2. UNCHANGED <<queueVars, poolVars>>
    BY <1>12 DEF End, Goto
  <2>3. Counted' = Counted
    BY <2>1 DEF Counted
  <2>4. TypeOK'
    BY <2>1, <2>2 DEF queueVars, poolVars, TypeOK, WorkerLabels
  <2>5. WorkerCount' /\ Roster' /\ OwnerPhase' /\ LeaveLate'
    BY <2>1, <2>2, <2>3 DEF queueVars, poolVars, ControlInv, WorkerCount, Roster,
      OwnerPhase, LeaveLate, LeftLoop
  <2>6. NoneOutYet'
    BY <2>1, <2>2 DEF ControlInv, NoneOutYet
  <2>7. Joined'
    <3>1. UNCHANGED <<m_threads, cursor, m_shutdown>>
      BY <2>2 DEF poolVars
    <3>2. \A i \in 1..Len(m_threads) : m_threads[i] \in Workers
      BY DEF TypeOK
    <3>3. Returned' = Returned
      BY <2>1, <3>1 DEF Returned
    <3>4. QED  BY <2>1, <3>1, <3>2, <3>3 DEF ControlInv, Joined
  <2>8. QED  BY <2>4, <2>5, <2>6, <2>7 DEF ControlInv
<1>13. QED
  BY <1>3, <1>4, <1>6, <1>7, <1>8, <1>9, <1>10, <1>11, <1>12 DEF WorkerNext

(* The owner moves, and nothing else happens to threads.                   *)
LEMMA OwnerGoto ==
  ASSUME ControlInv,
         NEW k \in OwnerLabels \ {"interrupting", "joining"},
         pc' = Move(pc, owner, k),
         UNCHANGED <<m_inner_queue, m_flag, m_shutdown, m_worker_cnt, m_threads,
                     cursor, aborted>>,
         elem' \in [Threads -> Tasks \cup {None}],
         fate' \in [Tasks -> Fates],
         k \in {"adding", "growing"} => ~m_shutdown,
         k = "adding" => elem'[owner] \in Tasks,
         k \in OwnerLocks \cup {"onShutdown", "relock"} => m_shutdown,
         m_shutdown => k # "idle"
  PROVE  ControlInv'
<1>. USE OwnerIsNoWorker
<1>1. /\ pc' \in [Threads -> OwnerLabels \cup WorkerLabels]
      /\ pc'[owner] = k
      /\ \A w \in Workers : pc'[w] = pc[w]
  BY DEF ControlInv, TypeOK, Move
<1>2. m_inner_queue' \in Seq(Tasks)
  BY DEF ControlInv, TypeOK
<1>3. OwnerStep(k)
  BY <1>1, <1>2 DEF OwnerStep
<1>4. QED  BY <1>3, OwnerMoves

(* execute()                                                               *)
LEMMA ExecuteControl ==
  ASSUME ControlInv, OwnerExecute
  PROVE  ControlInv'
<1>. USE OwnerIsNoWorker
<1>. TypeOK /\ OwnerPhase  BY DEF ControlInv
<1>1. ASSUME NEW x \in Tasks, Execute(x) PROVE ControlInv'
  <2>1. /\ ~m_shutdown /\ pc' = Move(pc, owner, "adding")
        /\ UNCHANGED <<m_inner_queue, m_flag, m_shutdown, m_worker_cnt, m_threads,
                       cursor, aborted, fate>>
    BY <1>1 DEF Execute, poolVars
  <2>2. elem' \in [Threads -> Tasks \cup {None}] /\ elem'[owner] \in Tasks
    BY <1>1 DEF Execute, TypeOK
  <2>3. fate' \in [Tasks -> Fates]
    BY <2>1 DEF TypeOK
  <2>4. "adding" \in OwnerLabels \ {"interrupting", "joining"}
        /\ "adding" \notin OwnerLocks \cup {"onShutdown", "relock"}
    BY DEF OwnerLabels, OwnerLocks
  <2>5. QED  BY <2>1, <2>2, <2>3, <2>4, OwnerGoto
<1>2. ASSUME NEW x \in Tasks, ExecuteRefused(x) PROVE ControlInv'
  <2>1. /\ UNCHANGED <<queueVars, pc, m_shutdown, m_worker_cnt, m_threads, cursor,
                       aborted>>
        /\ fate' \in [Tasks -> Fates]
    BY <1>2 DEF ExecuteRefused, TypeOK, Fates
  <2>2. TypeOK'
    BY <2>1 DEF queueVars, TypeOK
  <2>3. Counted' = Counted
    BY <2>1 DEF Counted
  <2>4. QED
    BY <2>1, <2>2, <2>3 DEF queueVars, ControlInv, Roster, WorkerCount,
      OwnerPhase, LeaveLate, NoneOutYet, Joined, Returned
<1>3. CASE ExecuteAdd
  <2>1. ~m_shutdown
    BY <1>3 DEF ExecuteAdd, OwnerPhase
  <2>2. /\ UNCHANGED <<m_flag, m_shutdown, m_worker_cnt, m_threads, cursor, aborted>>
        /\ elem' = elem
    BY <1>3 DEF ExecuteAdd, Add, Push, AddRefuses, Goto, SetFate, queueVars
  <2>3. fate' \in [Tasks -> Fates]
    BY <1>3 DEF ExecuteAdd, SetFate, TypeOK, Fates
  <2>4. CASE AddRefuses(owner, "growing")
    BY <2>1, <2>2, <2>3, <2>4, OwnerGoto DEF AddRefuses, Goto, queueVars,
      OwnerLabels, OwnerLocks, TypeOK
  <2>5. CASE Add(owner, "growing")
    <3>1. PICK f : f = Move(pc, owner, "growing")
      OBVIOUS
    <3>2. /\ f \in [Threads -> OwnerLabels \cup WorkerLabels]
          /\ f[owner] = "growing"
          /\ \A w \in Workers : f[w] = pc[w]
      BY <3>1 DEF Move, TypeOK, OwnerLabels
    <3>3. /\ pc' \in [Threads -> OwnerLabels \cup WorkerLabels]
          /\ pc'[owner] = "growing"
          /\ \A w \in Workers : (pc'[w] = pc[w]
                                 \/ (pc[w] = "onEmpty" /\ pc'[w] = "take"))
      <4>1. pc' \in NotifyOne(f, "onEmpty", "take")
        BY <2>5, <3>1 DEF Add, Push
      <4>2. pc' = f \/ \E u \in Threads : f[u] = "onEmpty" /\ pc' = [f EXCEPT ![u] = "take"]
        BY <4>1 DEF NotifyOne, Move
      <4>3. CASE pc' = f
        BY <4>3, <3>2
      <4>4. ASSUME NEW u \in Threads, f[u] = "onEmpty", pc' = [f EXCEPT ![u] = "take"]
            PROVE  /\ pc' \in [Threads -> OwnerLabels \cup WorkerLabels]
                   /\ pc'[owner] = "growing"
                   /\ \A w \in Workers : (pc'[w] = pc[w]
                                          \/ (pc[w] = "onEmpty" /\ pc'[w] = "take"))
        <5>1. u # owner
          BY <3>2, <4>4
        <5>2. pc' \in [Threads -> OwnerLabels \cup WorkerLabels]
          BY <3>2, <4>4 DEF WorkerLabels
        <5>3. pc'[owner] = "growing"
          BY <3>2, <4>4, <5>1
        <5>4. QED  BY <3>2, <4>4, <5>2, <5>3
      <4>5. QED  BY <4>2, <4>3, <4>4
    <3>4. m_inner_queue' \in Seq(Tasks)
      BY <1>3, <2>5 DEF ExecuteAdd, Add, Push, OwnerPhase, TypeOK
    <3>5. OwnerStep("growing")
      BY <2>1, <2>2, <2>3, <3>3, <3>4 DEF OwnerStep, OwnerLabels, OwnerLocks, TypeOK
    <3>6. QED  BY <3>5, OwnerMoves
  <2>6. QED  BY <1>3, <2>4, <2>5 DEF ExecuteAdd
<1>4. ASSUME NEW w \in Workers, Grow(w) PROVE ControlInv'
  <2>0. pc \in [Threads -> OwnerLabels \cup WorkerLabels]
    BY DEF TypeOK
  <2>1. /\ pc[w] = "none" /\ pc'[w] = "loop"
        /\ \A u \in Workers : u # w => pc'[u] = pc[u]
        /\ pc[owner] = "growing" /\ pc'[owner] = "idle"
        /\ pc' \in [Threads -> OwnerLabels \cup WorkerLabels]
    BY <1>4, <2>0 DEF Grow, OwnerLabels, WorkerLabels
  <2>2. Counted' = Counted \cup {w} /\ w \notin Counted
    BY <2>1 DEF Counted
  <2>3. WorkerCount' /\ m_worker_cnt' \in Nat
    <3>1. Cardinality(Counted') = Cardinality(Counted) + 1
      BY <2>2, CountedFinite, FS_AddElement
    <3>2. Cardinality(Counted) \in Nat
      BY CountedFinite
    <3>3. QED  BY <1>4, <3>1, <3>2 DEF Grow, ControlInv, WorkerCount
  <2>4. m_threads' = Append(m_threads, w) /\ m_threads \in Seq(Workers)
    BY <1>4 DEF Grow, TypeOK
  <2>5. /\ m_threads' \in Seq(Workers)
        /\ Len(m_threads') = Len(m_threads) + 1 /\ Len(m_threads) \in Nat
        /\ m_threads'[Len(m_threads) + 1] = w
        /\ \A i \in 1..Len(m_threads) : m_threads'[i] = m_threads[i]
    BY <2>4
  <2>6. TypeOK'
    BY <1>4, <2>1, <2>3, <2>5 DEF Grow, queueVars, TypeOK, OwnerLabels, WorkerLabels
  <2>7. Roster'
    <3>1. \A i \in 1..Len(m_threads) : m_threads[i] # w
      BY <2>1, <2>4 DEF ControlInv, Roster
    <3>2. \A i \in 1..Len(m_threads') : i = Len(m_threads) + 1 \/ i \in 1..Len(m_threads)
      BY <2>5
    <3>3. \A i, j \in 1..Len(m_threads') : m_threads'[i] = m_threads'[j] => i = j
      BY <2>5, <3>1, <3>2 DEF ControlInv, Roster
    <3>4. \A u \in Workers :
            pc'[u] # "none" <=> \E i \in 1..Len(m_threads') : m_threads'[i] = u
      <4>1. ASSUME NEW u \in Workers, u # w
            PROVE  pc'[u] # "none" <=> \E i \in 1..Len(m_threads') : m_threads'[i] = u
        <5>1. pc[u] # "none" <=> \E i \in 1..Len(m_threads) : m_threads[i] = u
          BY DEF ControlInv, Roster
        <5>2. \A i \in 1..Len(m_threads) : i \in 1..Len(m_threads')
          BY <2>5
        <5>3. QED  BY <2>1, <2>5, <3>2, <4>1, <5>1, <5>2
      <4>2. Len(m_threads) + 1 \in 1..Len(m_threads')
        BY <2>5
      <4>3. QED  BY <2>1, <2>5, <4>1, <4>2
    <3>5. QED  BY <3>3, <3>4 DEF Roster
  <2>8. OwnerPhase' /\ LeaveLate'
    BY <1>4, <2>1 DEF Grow, queueVars, ControlInv, OwnerPhase, OwnerLocks,
      LeaveLate, LeftLoop
  <2>9. NoneOutYet' /\ Joined'
    BY <1>4, <2>1 DEF Grow, NoneOutYet, Joined, Returned, OwnerPhase
  <2>10. QED  BY <2>3, <2>6, <2>7, <2>8, <2>9 DEF ControlInv
<1>5. CASE DontGrow
  BY <1>5, OwnerGoto DEF DontGrow, Goto, queueVars, poolVars, OwnerPhase,
    OwnerLabels, OwnerLocks, TypeOK
<1>6. QED  BY <1>1, <1>2, <1>3, <1>4, <1>5 DEF OwnerExecute

(* shutdown()                                                              *)
LEMMA WakeControl ==
  ASSUME ControlInv, m_shutdown, UNCHANGED poolVars,
         NEW k \in OwnerLabels \ {"interrupting", "joining", "adding", "growing", "idle"},
         WakeUpEmpty(owner, k) \/ WakeUpFull(owner, k)
  PROVE  ControlInv'
<1>. USE OwnerIsNoWorker
<1>. TypeOK  BY DEF ControlInv
<1>1. PICK f : f = Move(pc, owner, k)
  OBVIOUS
<1>2. /\ f \in [Threads -> OwnerLabels \cup WorkerLabels]
      /\ f[owner] = k
      /\ \A w \in Workers : f[w] = pc[w]
  BY <1>1 DEF Move, TypeOK
<1>3. \/ pc' = NotifyAll(f, "onEmpty", "take")
      \/ pc' = NotifyAll(f, "onFull", "offer")
  BY <1>1 DEF WakeUpEmpty, WakeUpFull
<1>4. k \notin {"onEmpty", "onFull"} /\ \A w \in Workers : pc[w] # "onFull"
  BY DEF TypeOK, OwnerLabels, OwnerLocks, WorkerLabels
<1>5. \A u \in Threads : u = owner \/ u \in Workers
  BY PoolAssumption
<1>6. pc' \in [Threads -> OwnerLabels \cup WorkerLabels]
  BY <1>2, <1>3, <1>4, <1>5 DEF NotifyAll, WorkerLabels
<1>7. pc'[owner] = k
  BY <1>2, <1>3, <1>4 DEF NotifyAll
<1>8. \A w \in Workers : (pc'[w] = pc[w] \/ (pc[w] = "onEmpty" /\ pc'[w] = "take"))
  BY <1>2, <1>3, <1>4 DEF NotifyAll
<1>9. UNCHANGED queueVars
  BY DEF WakeUpEmpty, WakeUpFull
<1>10. OwnerStep(k)
  BY <1>6, <1>7, <1>8, <1>9 DEF OwnerStep, queueVars, poolVars, TypeOK
<1>11. QED  BY <1>10, OwnerMoves

LEMMA ShutdownControl ==
  ASSUME ControlInv, OwnerShutdown \/ SpuriousShutdownWakeUp
  PROVE  ControlInv'
<1>. USE OwnerIsNoWorker
<1>. TypeOK /\ OwnerPhase  BY DEF ControlInv
<1>1. ASSUME m_shutdown, UNCHANGED poolVars,
             NEW k \in OwnerLabels \ {"interrupting", "joining", "adding", "growing", "idle"},
             Goto(owner, k)
      PROVE  ControlInv'
  BY <1>1, OwnerGoto DEF Goto, queueVars, poolVars, TypeOK
<1>2. (* What a step does that only moves the owner, sets m_shutdown or cursor. *)
      ASSUME NEW k \in OwnerLabels, Goto(owner, k), k \notin {"adding", "growing"},
             UNCHANGED <<m_worker_cnt, m_threads, aborted, fate>>,
             m_shutdown' \in BOOLEAN, cursor' \in Nat \ {0}
      PROVE  /\ pc'[owner] = k /\ \A w \in Workers : pc'[w] = pc[w]
             /\ TypeOK' /\ Roster' /\ WorkerCount'
             /\ UNCHANGED <<m_flag, elem>>
  <2>1. /\ pc' \in [Threads -> OwnerLabels \cup WorkerLabels]
        /\ pc'[owner] = k /\ \A w \in Workers : pc'[w] = pc[w]
        /\ UNCHANGED queueVars
    BY <1>2 DEF Goto, Move, TypeOK
  <2>2. TypeOK'
    BY <1>2, <2>1 DEF TypeOK, queueVars
  <2>3. Counted' = Counted
    BY <2>1 DEF Counted
  <2>4. Roster' /\ WorkerCount'
    BY <1>2, <2>1, <2>3 DEF ControlInv, Roster, WorkerCount
  <2>5. QED  BY <2>1, <2>2, <2>4 DEF queueVars
<1>3. CASE Shutdown
  <2>1. /\ pc'[owner] = "interrupting" /\ \A w \in Workers : pc'[w] = pc[w]
        /\ TypeOK' /\ Roster' /\ WorkerCount'
        /\ UNCHANGED <<m_flag, elem>>
    BY <1>3, <1>2 DEF Shutdown, OwnerLabels, OwnerLocks
  <2>2. ~m_shutdown /\ m_shutdown'
    BY <1>3 DEF Shutdown
  <2>3. NoneOutYet' /\ LeaveLate'
    BY <2>1, <2>2 DEF ControlInv, LeaveLate, LeftLoop, NoneOutYet
  <2>4. OwnerPhase' /\ Joined'
    BY <2>1, <2>2 DEF OwnerPhase, Joined, Returned
  <2>5. QED  BY <2>1, <2>3, <2>4 DEF ControlInv
<1>4. CASE InterruptNext
  <2>1. /\ pc[owner] = "interrupting" /\ m_shutdown
        /\ UNCHANGED <<m_inner_queue, elem, pc, m_shutdown, m_worker_cnt, m_threads,
                       aborted, fate>>
        /\ cursor' \in Nat \ {0}
        /\ m_flag' \in [Threads -> BOOLEAN]
    BY <1>4 DEF InterruptNext, Interrupt, OwnerPhase, OwnerLocks, TypeOK
  <2>2. TypeOK'
    BY <2>1 DEF TypeOK
  <2>3. Counted' = Counted
    BY <2>1 DEF Counted
  <2>4. Roster' /\ WorkerCount' /\ OwnerPhase' /\ LeaveLate' /\ NoneOutYet'
    BY <2>1, <2>3 DEF ControlInv, Roster, WorkerCount, OwnerPhase, LeaveLate,
      NoneOutYet
  <2>5. Joined'
    BY <2>1 DEF Joined, Returned
  <2>6. QED  BY <2>2, <2>4, <2>5 DEF ControlInv
<1>5. CASE InterruptedAll
  BY <1>5, <1>1 DEF InterruptedAll, OwnerPhase, OwnerLabels, OwnerLocks
<1>6. CASE WakeWorkers
  <2>1. m_shutdown /\ UNCHANGED poolVars
    BY <1>6 DEF WakeWorkers, OwnerPhase, OwnerLocks
  <2>2. \/ WakeUpEmpty(owner, "wakeFull") \/ WakeUpFull(owner, "testing")
    BY <1>6 DEF WakeWorkers
  <2>3. QED
    BY <2>1, <2>2, WakeControl DEF OwnerLabels, OwnerLocks
<1>7. CASE AwaitWorkers
  <2>1. m_shutdown /\ UNCHANGED poolVars
    BY <1>7 DEF AwaitWorkers, OwnerPhase, OwnerLocks
  <2>2. CASE Goto(owner, "rewakeEmpty") \/ Goto(owner, "testing")
    BY <2>1, <2>2, <1>1 DEF OwnerLabels, OwnerLocks
  <2>3. CASE WakeUpEmpty(owner, "rewakeFull") \/ WakeUpFull(owner, "onShutdown")
    BY <2>1, <2>3, WakeControl DEF OwnerLabels, OwnerLocks
  <2>4. QED  BY <1>7, <2>2, <2>3 DEF AwaitWorkers
<1>8. CASE NoWorkerLeft
  <2>1. /\ pc'[owner] = "joining" /\ \A w \in Workers : pc'[w] = pc[w]
        /\ TypeOK' /\ Roster' /\ WorkerCount'
        /\ UNCHANGED <<m_flag, elem>>
    BY <1>8, <1>2 DEF NoWorkerLeft, OwnerLabels, OwnerLocks, TypeOK
  <2>2. m_shutdown /\ UNCHANGED m_shutdown /\ cursor' = 1
    BY <1>8 DEF NoWorkerLeft, OwnerPhase, OwnerLocks
  <2>3. Counted = {}
    BY <1>8, CountedFinite DEF NoWorkerLeft, ControlInv, WorkerCount
  <2>4. \A w \in Workers : pc[w] \in {"none", "leaving", "ended"}
    BY <2>3 DEF Counted
  <2>5. \A i \in 1..Len(m_threads') : ~(i < cursor')
    BY <2>2
  <2>6. Joined'
    BY <2>1, <2>4, <2>5 DEF Joined, Returned
  <2>7. NoneOutYet' /\ LeaveLate' /\ OwnerPhase'
    BY <2>1, <2>2 DEF ControlInv, LeaveLate, NoneOutYet, OwnerPhase
  <2>8. QED  BY <2>1, <2>6, <2>7 DEF ControlInv
<1>9. CASE JoinNext
  <2>1. /\ pc[owner] = "joining" /\ m_shutdown
        /\ UNCHANGED <<queueVars, pc, m_shutdown, m_worker_cnt, m_threads, aborted, fate>>
        /\ cursor' = cursor + 1 /\ pc[m_threads[cursor]] = "ended"
    BY <1>9 DEF JoinNext, OwnerPhase, OwnerLocks
  <2>2. cursor' \in Nat \ {0}
    BY <2>1 DEF TypeOK
  <2>3. TypeOK'
    BY <2>1, <2>2 DEF TypeOK, queueVars
  <2>4. Counted' = Counted
    BY <2>1 DEF Counted
  <2>5. Roster' /\ WorkerCount' /\ OwnerPhase' /\ LeaveLate' /\ NoneOutYet'
    BY <2>1, <2>4 DEF queueVars, ControlInv, Roster, WorkerCount, OwnerPhase,
      LeaveLate, NoneOutYet
  <2>6. \A i \in 1..Len(m_threads) : i < cursor + 1 => i < cursor \/ i = cursor
    BY DEF TypeOK
  <2>7. Joined'
    BY <2>1, <2>6 DEF ControlInv, Joined, Returned
  <2>8. QED  BY <2>3, <2>5, <2>7 DEF ControlInv
<1>10. CASE ShutdownReturns
  <2>1. /\ pc'[owner] = "idle" /\ \A w \in Workers : pc'[w] = pc[w]
        /\ TypeOK' /\ Roster' /\ WorkerCount'
        /\ UNCHANGED <<m_flag, elem>>
    BY <1>10, <1>2 DEF ShutdownReturns, poolVars, OwnerLabels, TypeOK
  <2>2. /\ m_shutdown /\ UNCHANGED m_shutdown
        /\ pc[owner] = "joining" /\ cursor > Len(m_threads)
    BY <1>10 DEF ShutdownReturns, OwnerPhase, OwnerLocks, poolVars
  <2>3. \A i \in 1..Len(m_threads) : i < cursor
    BY <2>2 DEF TypeOK
  <2>4. \A w \in Workers : pc[w] \in {"none", "ended"}
    BY <2>2, <2>3 DEF ControlInv, Joined, Roster
  <2>5. Joined'
    BY <2>1, <2>4 DEF Joined
  <2>6. NoneOutYet' /\ LeaveLate' /\ OwnerPhase'
    BY <2>1, <2>2 DEF ControlInv, LeaveLate, NoneOutYet, OwnerPhase, OwnerLocks
  <2>7. QED  BY <2>1, <2>5, <2>6 DEF ControlInv
<1>11. CASE SpuriousShutdownWakeUp
  BY <1>11, <1>1 DEF SpuriousShutdownWakeUp, OwnerPhase, OwnerLabels, OwnerLocks
<1>12. QED
  BY <1>3, <1>4, <1>5, <1>6, <1>7, <1>8, <1>9, <1>10, <1>11 DEF OwnerShutdown

LEMMA ControlNext == ControlInv /\ [Next]_vars => ControlInv'
<1>. SUFFICES ASSUME ControlInv, [Next]_vars PROVE ControlInv'
  OBVIOUS
<1>1. CASE UNCHANGED vars
  <2>1. Counted' = Counted
    BY <1>1 DEF vars, Counted
  <2>2. TypeOK'
    BY <1>1 DEF vars, queueVars, poolVars, ControlInv, TypeOK
  <2>3. QED
    BY <1>1, <2>1, <2>2 DEF vars, queueVars, poolVars, ControlInv, Roster,
      WorkerCount, OwnerPhase, LeaveLate, NoneOutYet, Joined, Returned
<1>2. QED
  BY <1>1, ExecuteControl, ShutdownControl, WorkerControl DEF Next, Finished

LEMMA ControlAlways == Spec => []ControlInv
BY ControlInit, ControlNext, PTL DEF Spec

-----------------------------------------------------------------------------
(* Every variable stays within its type.                                   *)
THEOREM TypeCorrect == Spec => []TypeOK
<1>1. ControlInv => TypeOK
  BY DEF ControlInv
<1>2. QED  BY <1>1, ControlAlways, PTL

(* m_worker_cnt counts the workers that have not counted themselves out,   *)
(* however execute(), shutdown() and the workers interleave.               *)
THEOREM CountIsExact == Spec => []WorkerCount
<1>1. ControlInv => WorkerCount
  BY DEF ControlInv
<1>2. QED  BY <1>1, ControlAlways, PTL

(* shutdown() never writes the flag of a thread that has ended: each       *)
(* listed thread was created, and NoneOutYet keeps m_main_lock between it  *)
(* and its end.                                                            *)
THEOREM FlagsAreAlive == Spec => []InterruptsLiveThread
<1>1. ControlInv => InterruptsLiveThread
  <2>. SUFFICES ASSUME ControlInv, pc[owner] = "interrupting", cursor <= Len(m_threads)
                PROVE  m_threads[cursor] \in Counted
    BY DEF InterruptsLiveThread
  <2>1. cursor \in 1..Len(m_threads) /\ m_threads[cursor] \in Workers
    BY DEF ControlInv, TypeOK
  <2>2. pc[m_threads[cursor]] # "none"
    BY <2>1 DEF ControlInv, Roster
  <2>3. pc[m_threads[cursor]] \notin {"leaving", "ended"}
    BY <2>1 DEF ControlInv, NoneOutYet
  <2>4. QED  BY <2>1, <2>2, <2>3 DEF Counted
<1>2. QED  BY <1>1, ControlAlways, PTL

-----------------------------------------------------------------------------
(* Which workers can be asleep while shutdown() waits.                     *)
Asleep == {w \in Workers : pc[w] \in {"sawEmpty", "onEmpty"}}
Interrupted == {"wakeEmpty", "wakeFull", "testing", "rewakeEmpty", "rewakeFull",
                "onShutdown", "relock", "joining"}

(* m_mutex lets one worker at a time between its test and its wait.  The   *)
(* created workers are interrupted from the first on; when all are, nobody *)
(* tests and finds the queue empty any more, and when wakeUpAll() has been *)
(* called there sleeps only the one who was about to then.                 *)
StrandInv ==
  /\ \A u, w \in Workers : pc[u] = "sawEmpty" /\ pc[w] = "sawEmpty" => u = w
  /\ pc[owner] = "interrupting" =>
       \A i \in 1..Len(m_threads) : i < cursor => m_flag[m_threads[i]]
  /\ pc[owner] \in Interrupted \/ Returned =>
       \A w \in Workers : pc[w] # "none" => m_flag[w]
  /\ pc[owner] \in Interrupted \ {"wakeEmpty"} \/ Returned =>
       \A u, w \in Asleep : u = w

LEMMA WorkerSleeps ==
  ASSUME ControlInv, NEW w \in Workers, WorkerNext(w) \/ WorkerSpuriousWakeUp(w)
  PROVE  /\ UNCHANGED <<m_flag, m_threads, cursor, m_shutdown>>
         /\ pc'[owner] = pc[owner] \/ (pc[owner] = "onShutdown" /\ pc'[owner] = "relock")
         /\ \A u \in Workers : u # w => pc'[u] = pc[u]
         /\ pc[w] # "none" /\ pc'[w] # "none"
         /\ pc'[w] = "sawEmpty" => pc[w] = "sawEmpty" \/ (MutexFree /\ ~m_flag[w])
         /\ pc'[w] = "onEmpty" => pc[w] \in {"onEmpty", "sawEmpty"}
<1>. USE OwnerIsNoWorker
<1>. TypeOK  BY DEF ControlInv
<1>. DEFINE Goal == /\ UNCHANGED <<m_flag, m_threads, cursor, m_shutdown>>
                    /\ pc'[owner] = pc[owner]
                         \/ (pc[owner] = "onShutdown" /\ pc'[owner] = "relock")
                    /\ \A u \in Workers : u # w => pc'[u] = pc[u]
                    /\ pc[w] # "none" /\ pc'[w] # "none"
                    /\ pc'[w] = "sawEmpty" =>
                         pc[w] = "sawEmpty" \/ (MutexFree /\ ~m_flag[w])
                    /\ pc'[w] = "onEmpty" => pc[w] \in {"onEmpty", "sawEmpty"}
<1>. SUFFICES Goal
  OBVIOUS
<1>1. ASSUME NEW l, pc' = Move(pc, w, l), l # "none", pc[w] # "none",
             UNCHANGED <<m_flag, m_threads, cursor, m_shutdown>>,
             l = "sawEmpty" => MutexFree /\ ~m_flag[w],
             l = "onEmpty" => pc[w] = "sawEmpty"
      PROVE  Goal
  BY <1>1 DEF Move, TypeOK
<1>2. CASE TestShutdown(w)
  BY <1>2, <1>1 DEF TestShutdown, Goto, queueVars, poolVars
<1>3. CASE GetTask(w)
  <2>1. CASE Take(w, "run")
    <3>1. pc' = Move(pc, w, "run")
      BY <2>1, PopMoves DEF Take, WorkerLabels
    <3>2. QED  BY <1>3, <2>1, <3>1, <1>1 DEF GetTask, Take, Pop, poolVars
  <2>2. CASE TakeInterrupted(w, "drain")
    BY <1>3, <2>2, <1>1 DEF GetTask, TakeInterrupted, Goto, queueVars, poolVars
  <2>3. CASE TakeSeesEmpty(w)
    BY <1>3, <2>3, <1>1 DEF GetTask, TakeSeesEmpty, InterruptPointThrows, Goto,
      queueVars, poolVars
  <2>4. CASE TakeBlocks(w)
    BY <1>3, <2>4, <1>1 DEF GetTask, TakeBlocks, Goto, queueVars, poolVars
  <2>5. QED  BY <1>3, <2>1, <2>2, <2>3, <2>4 DEF GetTask
<1>4. CASE RunTask(w) \/ DrainTask(w)
  <2>1. CASE Abort(elem[w])
    BY <1>4, <2>1 DEF RunTask, DrainTask, Abort, queueVars
  <2>2. ASSUME NEW l \in {"loop", "drain", "exit"}, NEW f,
               Goto(w, l), SetFate(elem[w], f)
        PROVE  Goal
    BY <1>4, <2>2, <1>1 DEF RunTask, DrainTask, Goto, SetFate, queueVars
  <2>. HIDE DEF Goal
  <2>3. QED  BY <1>4, <2>1, <2>2 DEF RunTask, DrainTask
<1>5. CASE TestEmpty(w)
  BY <1>5, <1>1 DEF TestEmpty, Goto, queueVars, poolVars
<1>6. CASE PollTask(w)
  <2>1. CASE Poll(w, "drainRun")
    <3>1. pc' = Move(pc, w, "drainRun")
      BY <2>1, PopMoves DEF Poll, WorkerLabels
    <3>2. QED  BY <1>6, <2>1, <3>1, <1>1 DEF PollTask, Poll, Pop, poolVars
  <2>2. CASE PollThrows(w, "exit")
    BY <1>6, <2>2, <1>1 DEF PollTask, PollThrows, Goto, queueVars, poolVars
  <2>3. QED  BY <1>6, <2>1, <2>2 DEF PollTask
<1>7. CASE WorkerSpuriousWakeUp(w)
  <2>1. pc[w] = "onEmpty" /\ Goto(w, "take") /\ UNCHANGED poolVars
    BY <1>7 DEF WorkerSpuriousWakeUp, SpuriousWakeUp, Goto, TypeOK, WorkerLabels
  <2>2. QED  BY <2>1, <1>1 DEF Goto, queueVars, poolVars
<1>8. CASE CountOut(w)
  <2>1. UNCHANGED <<m_flag, m_threads, cursor, m_shutdown>>
    BY <1>8 DEF CountOut, queueVars
  <2>2. /\ pc'[w] = "leaving" /\ pc[w] = "exit"
        /\ \A u \in Workers : u # w => pc'[u] = pc[u]
        /\ pc'[owner] = IF pc[owner] = "onShutdown" THEN "relock" ELSE pc[owner]
    BY <1>8 DEF CountOut, TypeOK
  <2>3. QED  BY <2>1, <2>2
<1>9. CASE End(w)
  BY <1>9, <1>1 DEF End, Goto, queueVars, poolVars
<1>10. QED
  BY <1>2, <1>3, <1>4, <1>5, <1>6, <1>7, <1>8, <1>9 DEF WorkerNext

LEMMA WorkerStrand ==
  ASSUME ControlInv, StrandInv,
         NEW w \in Workers, WorkerNext(w) \/ WorkerSpuriousWakeUp(w)
  PROVE  StrandInv'
<1>. USE OwnerIsNoWorker
<1>1. /\ UNCHANGED <<m_flag, m_threads, cursor, m_shutdown>>
      /\ pc'[owner] = pc[owner] \/ (pc[owner] = "onShutdown" /\ pc'[owner] = "relock")
      /\ \A u \in Workers : u # w => pc'[u] = pc[u]
      /\ pc[w] # "none" /\ pc'[w] # "none"
      /\ pc'[w] = "sawEmpty" => pc[w] = "sawEmpty" \/ (MutexFree /\ ~m_flag[w])
      /\ pc'[w] = "onEmpty" => pc[w] \in {"onEmpty", "sawEmpty"}
  BY WorkerSleeps
<1>2. MutexFree => \A u \in Workers : pc[u] # "sawEmpty"
  BY DEF MutexFree, At
<1>3. \A u, v \in Workers : pc'[u] = "sawEmpty" /\ pc'[v] = "sawEmpty" => u = v
  BY <1>1, <1>2 DEF StrandInv
<1>4. Returned' = Returned
      /\ (pc'[owner] = pc[owner] \/ {pc[owner], pc'[owner]} \subseteq {"onShutdown", "relock"})
  BY <1>1 DEF Returned
<1>5. pc'[owner] = "interrupting" => pc[owner] = "interrupting"
  BY <1>4
<1>6. pc'[owner] \in Interrupted \/ Returned' => pc[owner] \in Interrupted \/ Returned
  BY <1>4 DEF Interrupted
<1>7. pc'[owner] \in Interrupted \ {"wakeEmpty"} \/ Returned'
        => pc[owner] \in Interrupted \ {"wakeEmpty"} \/ Returned
  BY <1>4 DEF Interrupted
<1>8. pc'[owner] \in Interrupted \/ Returned' =>
         \A u \in Workers : pc'[u] # "none" => m_flag'[u]
  BY <1>1, <1>6 DEF StrandInv
<1>9. ASSUME pc'[owner] \in Interrupted \ {"wakeEmpty"} \/ Returned'
      PROVE  \A u, v \in Asleep' : u = v
  <2>1. m_flag[w]
    BY <1>1, <1>6, <1>9 DEF StrandInv
  <2>2. Asleep' \subseteq Asleep
    BY <1>1, <2>1 DEF Asleep
  <2>3. QED  BY <1>7, <1>9, <2>2 DEF StrandInv
<1>10. QED
  BY <1>1, <1>3, <1>5, <1>8, <1>9 DEF StrandInv

LEMMA OwnerStrand ==
  ASSUME ControlInv, StrandInv,
         OwnerExecute \/ OwnerShutdown \/ SpuriousShutdownWakeUp
  PROVE  StrandInv'
<1>. USE OwnerIsNoWorker
<1>. TypeOK /\ OwnerPhase  BY DEF ControlInv
<1>1. (* During execute() nothing is interrupted yet, and nobody newly sees the *)
      (* queue empty.                                                           *)
      ASSUME ~m_shutdown, UNCHANGED m_shutdown,
             pc'[owner] \notin OwnerLocks \cup {"onShutdown", "relock"},
             \A w \in Workers : pc'[w] = "sawEmpty" => pc[w] = "sawEmpty"
      PROVE  StrandInv'
  BY <1>1 DEF StrandInv, Interrupted, OwnerLocks, Returned
<1>2. CASE OwnerExecute
  <2>1. ASSUME NEW x \in Tasks, Execute(x) PROVE StrandInv'
    BY <2>1, <1>1 DEF Execute, poolVars, Move, TypeOK, OwnerLocks
  <2>2. ASSUME NEW x \in Tasks, ExecuteRefused(x) PROVE StrandInv'
    BY <2>2 DEF ExecuteRefused, queueVars, StrandInv, Returned, Asleep
  <2>3. CASE ExecuteAdd
    <3>1. ~m_shutdown /\ UNCHANGED m_shutdown
      BY <2>3 DEF ExecuteAdd, OwnerPhase, SetFate
    <3>2. CASE AddRefuses(owner, "growing")
      BY <3>1, <3>2, <1>1 DEF AddRefuses, Goto, Move, TypeOK, OwnerLocks
    <3>3. CASE Push(owner, "growing")
      BY <3>1, <3>3, <1>1, PushMoves DEF OwnerLocks
    <3>4. QED  BY <2>3, <3>2, <3>3 DEF ExecuteAdd, Add
  <2>4. ASSUME NEW w \in Workers, Grow(w) PROVE StrandInv'
    <3>1. /\ ~m_shutdown /\ UNCHANGED m_shutdown /\ pc'[owner] = "idle"
          /\ pc'[w] = "loop" /\ \A u \in Workers : u # w => pc'[u] = pc[u]
      BY <2>4 DEF Grow, OwnerPhase, TypeOK
    <3>2. QED  BY <3>1, <1>1 DEF OwnerLocks
  <2>5. CASE DontGrow
    BY <2>5, <1>1 DEF DontGrow, poolVars, Goto, Move, TypeOK, OwnerPhase, OwnerLocks
  <2>6. QED  BY <1>2, <2>1, <2>2, <2>3, <2>4, <2>5 DEF OwnerExecute
<1>3. ASSUME NEW k, Goto(owner, k)
      PROVE  pc'[owner] = k /\ \A w \in Workers : pc'[w] = pc[w] /\ UNCHANGED m_flag
  BY <1>3 DEF Goto, Move, queueVars, TypeOK
<1>4. (* The owner goes on once all are interrupted and all notified.           *)
      ASSUME UNCHANGED <<m_flag, m_shutdown>>,
             pc[owner] \in Interrupted \ {"wakeEmpty"}, pc'[owner] \in Interrupted \cup {"idle"},
             \A w \in Workers : pc'[w] = pc[w] \/ (pc[w] = "onEmpty" /\ pc'[w] = "take")
      PROVE  StrandInv'
  <2>1. Asleep' \subseteq Asleep
    BY <1>4 DEF Asleep
  <2>2. \A u, w \in Asleep' : u = w
    BY <1>4, <2>1 DEF StrandInv
  <2>3. pc'[owner] # "interrupting"
    BY <1>4 DEF Interrupted
  <2>4. \A w \in Workers : pc'[w] # "none" => m_flag'[w]
    BY <1>4 DEF StrandInv
  <2>5. QED  BY <1>4, <2>2, <2>3, <2>4 DEF StrandInv
<1>5. CASE Shutdown
  <2>1. cursor' = 1 /\ UNCHANGED m_threads /\ Goto(owner, "interrupting")
    BY <1>5 DEF Shutdown
  <2>2. pc'[owner] = "interrupting" /\ \A w \in Workers : pc'[w] = pc[w]
    BY <2>1, <1>3
  <2>3. \A i \in 1..Len(m_threads') : ~(i < cursor')
    BY <2>1
  <2>4. QED  BY <2>2, <2>3 DEF StrandInv, Interrupted, Returned
<1>6. CASE InterruptNext
  <2>1. /\ pc[owner] = "interrupting" /\ UNCHANGED <<pc, m_threads>>
        /\ cursor' = cursor + 1 /\ cursor \in 1..Len(m_threads)
        /\ m_flag' = [m_flag EXCEPT ![m_threads[cursor]] = TRUE]
        /\ m_threads[cursor] \in Threads
    BY <1>6 DEF InterruptNext, Interrupt, TypeOK
  <2>2. \A i \in 1..Len(m_threads') : i < cursor' => m_flag'[m_threads'[i]]
    <3>. SUFFICES ASSUME NEW i \in 1..Len(m_threads), i < cursor + 1
                  PROVE  m_flag'[m_threads[i]]
      BY <2>1
    <3>1. i < cursor \/ i = cursor
      BY DEF TypeOK
    <3>2. m_threads[i] \in Threads
      BY DEF TypeOK
    <3>3. i < cursor => m_flag[m_threads[i]]
      BY <2>1 DEF StrandInv
    <3>4. CASE m_threads[i] = m_threads[cursor]
      BY <2>1, <3>4 DEF TypeOK
    <3>5. CASE m_threads[i] # m_threads[cursor]
      BY <2>1, <3>1, <3>2, <3>3, <3>5 DEF TypeOK
    <3>6. QED  BY <3>4, <3>5
  <2>3. QED  BY <2>1, <2>2 DEF StrandInv, Interrupted, Returned
<1>7. CASE InterruptedAll
  <2>1. /\ pc[owner] = "interrupting" /\ cursor > Len(m_threads)
        /\ Goto(owner, "wakeEmpty") /\ UNCHANGED <<m_threads, m_shutdown>>
    BY <1>7 DEF InterruptedAll, poolVars
  <2>2. /\ pc'[owner] = "wakeEmpty" /\ UNCHANGED m_flag
        /\ \A w \in Workers : pc'[w] = pc[w]
    BY <2>1, <1>3 DEF Goto, queueVars
  <2>3. \A i \in 1..Len(m_threads) : m_flag[m_threads[i]]
    BY <2>1 DEF StrandInv, TypeOK
  <2>4. \A w \in Workers : pc'[w] # "none" => m_flag'[w]
    BY <2>2, <2>3 DEF ControlInv, Roster
  <2>5. QED  BY <2>2, <2>4 DEF StrandInv, Returned
<1>8. ASSUME NEW k, WakeUpEmpty(owner, k) \/ WakeUpFull(owner, k),
             k \notin {"onEmpty", "onFull"}
      PROVE  /\ pc'[owner] = k /\ UNCHANGED m_flag
             /\ \A w \in Workers : pc'[w] = pc[w] \/ (pc[w] = "onEmpty" /\ pc'[w] = "take")
             /\ WakeUpEmpty(owner, k) => \A w \in Workers : pc'[w] # "onEmpty"
  <2>1. PICK f : f = Move(pc, owner, k)
    OBVIOUS
  <2>2. f[owner] = k /\ \A w \in Workers : f[w] = pc[w] /\ pc[w] # "onFull"
    BY <2>1 DEF Move, TypeOK, WorkerLabels
  <2>3. \/ pc' = NotifyAll(f, "onEmpty", "take")
        \/ pc' = NotifyAll(f, "onFull", "offer")
    BY <1>8, <2>1 DEF WakeUpEmpty, WakeUpFull
  <2>4. WakeUpEmpty(owner, k) => pc' = NotifyAll(f, "onEmpty", "take")
    BY <2>1 DEF WakeUpEmpty
  <2>5. UNCHANGED m_flag
    BY <1>8 DEF WakeUpEmpty, WakeUpFull, queueVars
  <2>6. QED  BY <1>8, <2>2, <2>3, <2>4, <2>5 DEF NotifyAll
<1>9. CASE WakeWorkers
  <2>1. CASE pc[owner] = "wakeEmpty" /\ WakeUpEmpty(owner, "wakeFull")
    <3>1. /\ pc'[owner] = "wakeFull" /\ UNCHANGED <<m_flag, m_shutdown>>
          /\ \A w \in Workers : pc'[w] = pc[w] \/ (pc[w] = "onEmpty" /\ pc'[w] = "take")
          /\ \A w \in Workers : pc'[w] # "onEmpty"
      BY <1>9, <2>1, <1>8 DEF WakeWorkers, poolVars
    <3>2. \A w \in Asleep' : pc'[w] = "sawEmpty" /\ pc[w] = "sawEmpty"
      BY <3>1 DEF Asleep
    <3>3. \A u, w \in Asleep' : u = w
      BY <3>2 DEF StrandInv, Asleep
    <3>4. \A w \in Workers : pc'[w] # "none" => m_flag'[w]
      BY <2>1, <3>1 DEF StrandInv, Interrupted
    <3>5. QED  BY <3>1, <3>3, <3>4 DEF StrandInv
  <2>2. CASE pc[owner] = "wakeFull" /\ WakeUpFull(owner, "testing")
    BY <1>9, <2>2, <1>4, <1>8 DEF WakeWorkers, poolVars, Interrupted
  <2>3. QED  BY <1>9, <2>1, <2>2 DEF WakeWorkers
<1>10. CASE AwaitWorkers
  BY <1>10, <1>3, <1>4, <1>8 DEF AwaitWorkers, poolVars, Goto, queueVars, Interrupted
<1>11. CASE NoWorkerLeft
  BY <1>11, <1>3, <1>4 DEF NoWorkerLeft, Goto, queueVars, Interrupted
<1>12. CASE JoinNext
  BY <1>12, <1>4 DEF JoinNext, queueVars, Interrupted
<1>13. CASE ShutdownReturns
  BY <1>13, <1>3, <1>4 DEF ShutdownReturns, poolVars, Goto, queueVars, Interrupted
<1>14. CASE SpuriousShutdownWakeUp
  BY <1>14, <1>3, <1>4 DEF SpuriousShutdownWakeUp, poolVars, Goto, queueVars, Interrupted
<1>15. QED
  BY <1>2, <1>5, <1>6, <1>7, <1>9, <1>10, <1>11, <1>12, <1>13, <1>14 DEF OwnerShutdown

(* Once shutdown() waits for its workers, at most one of them sleeps or is *)
(* about to in take(): AtMostOneStranded.                                  *)
THEOREM OneStrandedAtMost == Spec => []AtMostOneStranded
<1>1. Init => StrandInv
  <2>. SUFFICES ASSUME Init PROVE StrandInv
    OBVIOUS
  <2>1. pc[owner] = "idle" /\ ~m_shutdown /\ \A w \in Workers : pc[w] = "none"
    BY OwnerIsNoWorker DEF Init
  <2>2. QED  BY <2>1 DEF StrandInv, Interrupted, Returned
<1>2. ControlInv /\ StrandInv /\ [Next]_vars => StrandInv'
  <2>1. UNCHANGED vars /\ StrandInv => StrandInv'
    BY DEF vars, queueVars, poolVars, StrandInv, Returned, Asleep
  <2>2. QED  BY <2>1, OwnerStrand, WorkerStrand DEF Next, Finished
<1>3. ControlInv /\ StrandInv => AtMostOneStranded
  <2>. SUFFICES ASSUME ControlInv, StrandInv, pc[owner] = "onShutdown",
                       NEW u \in At("sawEmpty") \cup At("onEmpty"),
                       NEW w \in At("sawEmpty") \cup At("onEmpty")
                PROVE  u = w
    BY DEF AtMostOneStranded
  <2>1. u \in Asleep /\ w \in Asleep
    BY PoolAssumption DEF At, Asleep
  <2>2. QED  BY <2>1 DEF StrandInv, Interrupted
<1>4. QED  BY <1>1, <1>2, <1>3, ControlAlways, PTL DEF Spec

-----------------------------------------------------------------------------
(***************************************************************************)
(* Theorems about the tasks of ThreadPool, for any number of workers, any  *)
(* tasks and any capacity of the queue: each accepted task is in one       *)
(* place, nothing is left when shutdown() has returned, and the pool       *)
(* implements TaskExecutor.                                                *)
(***************************************************************************)

Running == {"run", "drainRun"}
(* A worker at one of these takes no task any more.                        *)
Gone == {"exit", "leaving", "ended"}

Held == [w \in Workers |-> IF pc[w] \in Running THEN elem[w] ELSE None]
Queued == {m_inner_queue[i] : i \in 1..Len(m_inner_queue)}

HandsFull == \A w \in Workers : pc[w] \in Running => elem[w] \in Tasks
AddingNew == pc[owner] = "adding" => elem[owner] \in Tasks /\ fate[elem[owner]] = "new"

Placement ==
  /\ \A i, j \in 1..Len(m_inner_queue) : m_inner_queue[i] = m_inner_queue[j] => i = j
  /\ \A i \in 1..Len(m_inner_queue) : fate[m_inner_queue[i]] = "accepted"
  /\ \A w \in Workers : Held[w] # None =>
       Held[w] \in Tasks /\ fate[Held[w]] = "accepted" /\ Held[w] \notin Queued
  /\ \A u, w \in Workers : Held[u] = Held[w] /\ Held[u] # None => u = w
  /\ \A x \in Tasks : fate[x] = "accepted" => x \in Queued \/ \E w \in Workers : Held[w] = x

QueueFits == Len(m_inner_queue) <= m_max

Threw == \E x \in Tasks : fate[x] = "threw"

(* Unless a task threw a worker finds the queue empty when it goes.        *)
Drained ==
  ~Threw /\ (\E w \in Workers : pc[w] \in Gone) => m_inner_queue = <<>>

(* An accepted task has a worker, if the pool may have one.                *)
Staffed ==
  m_core_size > 0 /\ pc[owner] # "growing" /\ (\E x \in Tasks : fate[x] = "accepted")
     => m_threads # <<>>

TaskInv ==
  /\ aborted => Threw
  /\ ~aborted => /\ HandsFull /\ AddingNew /\ Placement /\ QueueFits
                 /\ Drained /\ Staffed

-----------------------------------------------------------------------------
(* What a step can do to the tasks.  It takes nobody's task away from him, *)
(* and a worker goes only if the queue is empty or a task threw.           *)
Frame ==
  /\ HandsFull' /\ AddingNew'
  /\ m_threads # <<>> => m_threads' # <<>>
  /\ pc[owner] = "growing" /\ m_core_size > 0 =>
       pc'[owner] = "growing" \/ m_threads' # <<>>
  /\ \A w \in Workers :
       pc'[w] \in Gone => pc[w] \in Gone \/ m_inner_queue = <<>> \/ Threw'

SamePhase == UNCHANGED m_shutdown /\ Returned' = Returned

Keeps == UNCHANGED <<m_inner_queue, fate, aborted>> /\ Held' = Held

TurnsAway ==
  /\ SamePhase /\ UNCHANGED <<m_inner_queue, aborted>> /\ Held' = Held
  /\ \E x \in Tasks, f \in {"refused", "omitted"} :
       fate[x] = "new" /\ fate' = [fate EXCEPT ![x] = f]

Accepts ==
  /\ SamePhase /\ UNCHANGED aborted /\ Held' = Held
  /\ ~m_shutdown /\ Len(m_inner_queue) # m_max
  /\ pc'[owner] = "growing" /\ \A w \in Workers : pc'[w] \notin Gone
  /\ \E x \in Tasks :
       /\ fate[x] = "new" /\ fate' = [fate EXCEPT ![x] = "accepted"]
       /\ m_inner_queue' = Append(m_inner_queue, x)

Starts(w) ==
  /\ SamePhase /\ UNCHANGED <<fate, aborted>> /\ ~Returned
  /\ m_inner_queue # <<>> /\ Held[w] = None
  /\ Held' = [Held EXCEPT ![w] = Head(m_inner_queue)]
  /\ m_inner_queue' = Tail(m_inner_queue)

Finishes(w) ==
  /\ SamePhase /\ UNCHANGED <<m_inner_queue, aborted>>
  /\ Held[w] # None
  /\ \E f \in {"ran", "threw"} : fate' = [fate EXCEPT ![Held[w]] = f]
  /\ Held' = [Held EXCEPT ![w] = None]

Aborts(w) ==
  /\ SamePhase /\ UNCHANGED m_inner_queue /\ aborted'
  /\ Held[w] # None
  /\ fate' = [fate EXCEPT ![Held[w]] = "threw"] /\ UNCHANGED <<pc, elem>>

Closes == Keeps /\ ~m_shutdown /\ m_shutdown' /\ ~Returned'
Stops == Keeps /\ m_shutdown /\ m_shutdown' /\ ~Returned /\ Returned'

TaskStep ==
  \/ Frame /\ (\/ Keeps /\ SamePhase
               \/ TurnsAway \/ Accepts \/ Closes \/ Stops
               \/ \E w \in Workers : Starts(w) \/ Finishes(w))
  \/ \E w \in Workers : Aborts(w)

-----------------------------------------------------------------------------
LEMMA WorkerGoto ==
  ASSUME ControlInv, HandsFull, AddingNew,
         NEW w \in Workers, NEW l \in WorkerLabels, Goto(w, l), UNCHANGED poolVars,
         pc[w] \notin Running, l \notin Running,
         l \in Gone => pc[w] \in Gone \/ m_inner_queue = <<>>
  PROVE  Frame /\ Keeps /\ SamePhase
<1>. USE OwnerIsNoWorker
<1>1. /\ pc'[owner] = pc[owner] /\ pc'[w] = l
      /\ \A u \in Workers : u # w => pc'[u] = pc[u]
      /\ UNCHANGED <<m_inner_queue, elem>>
  BY DEF Goto, Move, queueVars, ControlInv, TypeOK
<1>2. Keeps
  BY <1>1 DEF Keeps, Held, poolVars
<1>3. SamePhase
  BY <1>1 DEF SamePhase, Returned, poolVars
<1>4. Frame
  BY <1>1 DEF Frame, HandsFull, AddingNew, poolVars
<1>5. QED  BY <1>2, <1>3, <1>4

LEMMA WorkerStarts ==
  ASSUME ControlInv, HandsFull, AddingNew,
         NEW w \in Workers, NEW l \in Running, Pop(w, l), UNCHANGED poolVars,
         m_inner_queue # <<>>, pc[w] \in {"take", "poll"}
  PROVE  Frame /\ Starts(w)
<1>. USE OwnerIsNoWorker
<1>. TypeOK  BY DEF ControlInv
<1>1. pc' = Move(pc, w, l)
  BY PopMoves DEF Running, WorkerLabels
<1>2. /\ pc'[owner] = pc[owner] /\ pc'[w] = l
      /\ \A u \in Workers : u # w => pc'[u] = pc[u]
  BY <1>1 DEF Move, TypeOK
<1>3. /\ elem'[w] = Head(m_inner_queue) /\ elem'[owner] = elem[owner]
      /\ \A u \in Workers : u # w => elem'[u] = elem[u]
      /\ m_inner_queue' = Tail(m_inner_queue)
      /\ Head(m_inner_queue) \in Tasks
  BY DEF Pop, TypeOK
<1>4. Held' = [Held EXCEPT ![w] = Head(m_inner_queue)]
  BY <1>2, <1>3 DEF Held
<1>5. ~Returned
  BY DEF ControlInv, Joined
<1>6. SamePhase
  BY <1>2 DEF SamePhase, Returned, poolVars
<1>7. Held[w] = None
  BY DEF Held, Running
<1>8. Starts(w)
  BY <1>3, <1>4, <1>5, <1>6, <1>7 DEF Starts, poolVars
<1>9. Frame
  BY <1>2, <1>3 DEF Frame, HandsFull, AddingNew, poolVars, Running, Gone
<1>10. QED  BY <1>8, <1>9

LEMMA WorkerFinishes ==
  ASSUME ControlInv, HandsFull, AddingNew, Placement,
         NEW w \in Workers, NEW l \in WorkerLabels, NEW f \in {"ran", "threw"},
         Goto(w, l), SetFate(elem[w], f),
         pc[w] \in Running, l \notin Running, l \in Gone => f = "threw"
  PROVE  Frame /\ Finishes(w)
<1>. USE OwnerIsNoWorker
<1>. TypeOK  BY DEF ControlInv
<1>1. /\ pc'[owner] = pc[owner] /\ pc'[w] = l
      /\ \A u \in Workers : u # w => pc'[u] = pc[u]
      /\ UNCHANGED <<m_inner_queue, elem>>
  BY DEF Goto, Move, queueVars, TypeOK
<1>2. elem[w] \in Tasks /\ elem[w] # None /\ Held[w] = elem[w]
  BY QueueAssumption DEF HandsFull, Held, Tasks
<1>3. fate[elem[w]] = "accepted"
  BY <1>2 DEF Placement
<1>4. fate' = [fate EXCEPT ![elem[w]] = f] /\ UNCHANGED <<m_shutdown, m_threads, aborted>>
  BY DEF SetFate
<1>5. Held' = [Held EXCEPT ![w] = None]
  BY <1>1 DEF Held
<1>6. Finishes(w)
  BY <1>1, <1>2, <1>4, <1>5 DEF Finishes, SamePhase, Returned
<1>7. fate'[elem[w]] = f /\ \A x \in Tasks : x # elem[w] => fate'[x] = fate[x]
  BY <1>2, <1>4 DEF TypeOK
<1>8. HandsFull' /\ AddingNew'
  BY <1>1, <1>3, <1>7 DEF HandsFull, AddingNew
<1>9. l \in Gone => Threw'
  BY <1>2, <1>7 DEF Threw
<1>10. Frame
  BY <1>1, <1>4, <1>8, <1>9 DEF Frame
<1>11. QED  BY <1>6, <1>10

LEMMA WorkerTaskStep ==
  ASSUME ControlInv, HandsFull, AddingNew, Placement, ~aborted,
         NEW w \in Workers, WorkerNext(w) \/ WorkerSpuriousWakeUp(w)
  PROVE  TaskStep
<1>. USE OwnerIsNoWorker
<1>. TypeOK  BY DEF ControlInv
<1>0. ASSUME \/ Frame /\ ((Keeps /\ SamePhase) \/ Starts(w) \/ Finishes(w))
             \/ Aborts(w)
      PROVE  TaskStep
  BY <1>0 DEF TaskStep
<1>1. CASE TestShutdown(w)
  BY <1>1, <1>0, WorkerGoto DEF TestShutdown, WorkerLabels, Running, Gone
<1>2. CASE GetTask(w)
  <2>1. CASE Take(w, "run")
    BY <1>2, <2>1, <1>0, WorkerStarts DEF GetTask, Take, Running
  <2>2. CASE TakeInterrupted(w, "drain")
    BY <1>2, <2>2, <1>0, WorkerGoto DEF GetTask, TakeInterrupted, WorkerLabels, Running, Gone
  <2>3. CASE TakeSeesEmpty(w)
    BY <1>2, <2>3, <1>0, WorkerGoto DEF GetTask, TakeSeesEmpty, WorkerLabels, Running, Gone
  <2>4. CASE TakeBlocks(w)
    BY <1>2, <2>4, <1>0, WorkerGoto DEF GetTask, TakeBlocks, WorkerLabels, Running, Gone
  <2>5. QED  BY <1>2, <2>1, <2>2, <2>3, <2>4 DEF GetTask
<1>3. ASSUME Abort(elem[w]), pc[w] \in Running PROVE Aborts(w)
  <2>1. elem[w] \in Tasks /\ elem[w] # None /\ Held[w] = elem[w]
    BY <1>3, QueueAssumption DEF HandsFull, Held, Tasks
  <2>2. UNCHANGED <<m_inner_queue, elem, pc, m_shutdown>>
    BY <1>3 DEF Abort, queueVars
  <2>3. QED  BY <1>3, <2>1, <2>2 DEF Abort, Aborts, SamePhase, Returned
<1>4. CASE RunTask(w)
  <2>1. pc[w] \in Running /\ "loop" \in WorkerLabels \ (Running \cup Gone)
        /\ "drain" \in WorkerLabels \ (Running \cup Gone)
    BY <1>4 DEF RunTask, WorkerLabels, Running, Gone
  <2>2. CASE Abort(elem[w])
    BY <2>1, <2>2, <1>0, <1>3
  <2>3. ASSUME NEW l \in {"loop", "drain"}, NEW f \in {"ran", "threw"},
               Goto(w, l), SetFate(elem[w], f)
        PROVE  TaskStep
    BY <2>1, <2>3, <1>0, WorkerFinishes
  <2>4. QED  BY <1>4, <2>2, <2>3 DEF RunTask
<1>5. CASE TestEmpty(w)
  BY <1>5, <1>0, WorkerGoto DEF TestEmpty, WorkerLabels, Running, Gone
<1>6. CASE PollTask(w)
  <2>1. CASE Poll(w, "drainRun")
    BY <1>6, <2>1, <1>0, WorkerStarts DEF PollTask, Poll, Running
  <2>2. CASE PollThrows(w, "exit")
    BY <1>6, <2>2, <1>0, WorkerGoto DEF PollTask, PollThrows, WorkerLabels, Running, Gone
  <2>3. QED  BY <1>6, <2>1, <2>2 DEF PollTask
<1>7. CASE DrainTask(w)
  <2>1. pc[w] \in Running /\ "drain" \in WorkerLabels \ (Running \cup Gone)
        /\ "exit" \in WorkerLabels \ Running
    BY <1>7 DEF DrainTask, WorkerLabels, Running, Gone
  <2>2. CASE Abort(elem[w])
    BY <2>1, <2>2, <1>0, <1>3
  <2>3. CASE Goto(w, "drain") /\ SetFate(elem[w], "ran")
    BY <2>1, <2>3, <1>0, WorkerFinishes
  <2>4. CASE Goto(w, "exit") /\ SetFate(elem[w], "threw")
    BY <2>1, <2>4, <1>0, WorkerFinishes
  <2>5. QED  BY <1>7, <2>2, <2>3, <2>4 DEF DrainTask
<1>8. CASE WorkerSpuriousWakeUp(w)
  <2>1. pc[w] = "onEmpty" /\ Goto(w, "take") /\ UNCHANGED poolVars
    BY <1>8 DEF WorkerSpuriousWakeUp, SpuriousWakeUp, Goto, TypeOK, WorkerLabels
  <2>2. QED  BY <2>1, <1>0, WorkerGoto DEF WorkerLabels, Running, Gone
<1>9. CASE CountOut(w)
  <2>1. /\ pc[w] = "exit" /\ pc'[w] = "leaving"
        /\ \A u \in Workers : u # w => pc'[u] = pc[u]
        /\ pc'[owner] = IF pc[owner] = "onShutdown" THEN "relock" ELSE pc[owner]
    BY <1>9 DEF CountOut, TypeOK
  <2>2. UNCHANGED <<m_inner_queue, elem, fate, aborted, m_shutdown, m_threads>>
    BY <1>9 DEF CountOut, queueVars
  <2>3. Held' = Held
    BY <2>1, <2>2 DEF Held, Running
  <2>4. SamePhase
    BY <2>1, <2>2 DEF SamePhase, Returned
  <2>5. Frame
    BY <2>1, <2>2 DEF Frame, HandsFull, AddingNew, Running, Gone
  <2>6. QED  BY <2>2, <2>3, <2>4, <2>5, <1>0 DEF Keeps
<1>10. CASE End(w)
  BY <1>10, <1>0, WorkerGoto DEF End, WorkerLabels, Running, Gone
<1>11. QED
  BY <1>1, <1>2, <1>4, <1>5, <1>6, <1>7, <1>8, <1>9, <1>10 DEF WorkerNext

(* The owner leaves the workers' hands alone, whomever it wakes.           *)
LEMMA HandsStay ==
  ASSUME HandsFull, UNCHANGED m_threads,
         \A w \in Workers :
            /\ elem'[w] = elem[w]
            /\ \/ pc'[w] = pc[w]
               \/ pc[w] \in {"none", "onEmpty"} /\ pc'[w] \in {"loop", "take"},
         AddingNew', pc[owner] # "growing"
  PROVE  Frame /\ Held' = Held
<1>1. Held' = Held  BY DEF Held, Running
<1>2. HandsFull'  BY DEF HandsFull, Running
<1>3. Frame  BY <1>2 DEF Frame, Gone
<1>4. QED  BY <1>1, <1>3

LEMMA ExecuteTaskStep ==
  ASSUME ControlInv, HandsFull, AddingNew, ~aborted, OwnerExecute
  PROVE  TaskStep
<1>. USE OwnerIsNoWorker
<1>. TypeOK /\ OwnerPhase  BY DEF ControlInv
<1>1. ASSUME NEW x \in Tasks, Execute(x) PROVE TaskStep
  <2>1. /\ pc[owner] = "idle" /\ pc'[owner] = "adding" /\ ~m_shutdown
        /\ elem'[owner] = x /\ fate[x] = "new"
        /\ \A w \in Workers : pc'[w] = pc[w] /\ elem'[w] = elem[w]
        /\ UNCHANGED <<m_inner_queue, fate, aborted, m_shutdown, m_threads>>
    BY <1>1 DEF Execute, Move, poolVars, TypeOK
  <2>2. AddingNew'
    BY <2>1 DEF AddingNew
  <2>3. Frame /\ Held' = Held
    BY <2>1, <2>2, HandsStay
  <2>4. QED  BY <2>1, <2>3 DEF TaskStep, Keeps, SamePhase, Returned
<1>2. ASSUME NEW x \in Tasks, ExecuteRefused(x) PROVE TaskStep
  <2>1. /\ pc[owner] = "idle" /\ fate[x] = "new"
        /\ fate' = [fate EXCEPT ![x] = "refused"]
        /\ UNCHANGED <<m_inner_queue, elem, pc, aborted, m_shutdown, m_threads>>
    BY <1>2 DEF ExecuteRefused, queueVars
  <2>2. AddingNew'
    BY <2>1 DEF AddingNew
  <2>3. Frame /\ Held' = Held
    BY <2>1, <2>2, HandsStay
  <2>4. TurnsAway
    BY <2>1, <2>3 DEF TurnsAway, SamePhase, Returned
  <2>5. QED  BY <2>3, <2>4 DEF TaskStep
<1>3. CASE ExecuteAdd
  <2>1. /\ pc[owner] = "adding" /\ ~m_shutdown
        /\ elem[owner] \in Tasks /\ fate[elem[owner]] = "new"
    BY <1>3 DEF ExecuteAdd, OwnerPhase, AddingNew
  <2>2. CASE AddRefuses(owner, "growing") /\ SetFate(elem[owner], "omitted")
    <3>1. /\ pc'[owner] = "growing" /\ \A w \in Workers : pc'[w] = pc[w]
          /\ fate' = [fate EXCEPT ![elem[owner]] = "omitted"]
          /\ UNCHANGED <<m_inner_queue, elem, aborted, m_shutdown, m_threads>>
      BY <2>2 DEF AddRefuses, Goto, Move, queueVars, SetFate, TypeOK
    <3>2. AddingNew'
      BY <3>1 DEF AddingNew
    <3>3. Frame /\ Held' = Held
      BY <2>1, <3>1, <3>2, HandsStay
    <3>4. TurnsAway
      BY <2>1, <3>1, <3>3 DEF TurnsAway, SamePhase, Returned
    <3>5. QED  BY <3>3, <3>4 DEF TaskStep
  <2>3. CASE Add(owner, "growing") /\ SetFate(elem[owner], "accepted")
    <3>1. /\ fate' = [fate EXCEPT ![elem[owner]] = "accepted"]
          /\ m_inner_queue' = Append(m_inner_queue, elem[owner])
          /\ Len(m_inner_queue) # m_max
          /\ UNCHANGED <<elem, aborted, m_shutdown, m_threads>>
      BY <2>3 DEF Add, Push, SetFate
    <3>2. /\ pc'[owner] = "growing"
          /\ \A w \in Workers : pc'[w] = pc[w] \/ (pc[w] = "onEmpty" /\ pc'[w] = "take")
      BY <2>3, PushMoves DEF Add
    <3>3. AddingNew'
      BY <3>2 DEF AddingNew
    <3>4. Frame /\ Held' = Held
      BY <2>1, <3>1, <3>2, <3>3, HandsStay
    <3>5. \A w \in Workers : pc'[w] \notin Gone
      BY <2>1, <3>2 DEF ControlInv, LeaveLate, LeftLoop, Gone
    <3>6. Accepts
      BY <2>1, <3>1, <3>2, <3>4, <3>5 DEF Accepts, SamePhase, Returned
    <3>7. QED  BY <3>4, <3>6 DEF TaskStep
  <2>4. QED  BY <1>3, <2>2, <2>3 DEF ExecuteAdd
<1>4. ASSUME Frame, Held' = Held, UNCHANGED <<m_inner_queue, fate, aborted, m_shutdown>>,
             ~m_shutdown
      PROVE  TaskStep
  BY <1>4 DEF TaskStep, Keeps, SamePhase, Returned
<1>5. ASSUME NEW w \in Workers, Grow(w) PROVE TaskStep
  <2>1. /\ pc[w] = "none" /\ pc'[w] = "loop" /\ pc'[owner] = "idle" /\ ~m_shutdown
        /\ \A u \in Workers : u # w => pc'[u] = pc[u]
        /\ UNCHANGED <<m_inner_queue, elem, fate, aborted, m_shutdown>>
    BY <1>5 DEF Grow, queueVars, TypeOK, OwnerPhase
  <2>2. m_threads' # <<>>
    BY <1>5 DEF Grow, TypeOK
  <2>3. Held' = Held
    BY <2>1 DEF Held, Running
  <2>4. HandsFull' /\ AddingNew'
    BY <2>1 DEF HandsFull, AddingNew, Running
  <2>5. Frame
    BY <2>1, <2>2, <2>4 DEF Frame, Gone
  <2>6. QED  BY <1>4, <2>1, <2>3, <2>5
<1>6. CASE DontGrow
  <2>1. /\ pc'[owner] = "idle" /\ ~m_shutdown
        /\ \A u \in Workers : pc'[u] = pc[u]
        /\ UNCHANGED <<m_inner_queue, elem, fate, aborted, m_shutdown, m_threads>>
    BY <1>6 DEF DontGrow, Goto, Move, queueVars, poolVars, TypeOK, OwnerPhase
  <2>2. m_core_size > 0 => m_threads # <<>>
    <3>1. m_core_size > 0 => m_worker_cnt # 0
      BY <1>6, PoolAssumption DEF DontGrow, TypeOK
    <3>2. m_worker_cnt # 0 => Counted # {}
      BY CountedFinite DEF ControlInv, WorkerCount
    <3>3. Counted # {} => \E i \in 1..Len(m_threads) : TRUE
      BY DEF Counted, ControlInv, Roster
    <3>4. QED  BY <3>1, <3>2, <3>3
  <2>3. Held' = Held
    BY <2>1 DEF Held
  <2>4. HandsFull' /\ AddingNew'
    BY <2>1 DEF HandsFull, AddingNew
  <2>5. Frame
    BY <2>1, <2>2, <2>4 DEF Frame
  <2>6. QED  BY <1>4, <2>1, <2>3, <2>5
<1>7. QED  BY <1>1, <1>2, <1>3, <1>5, <1>6 DEF OwnerExecute

LEMMA ShutdownTaskStep ==
  ASSUME ControlInv, HandsFull, AddingNew, ~aborted,
         OwnerShutdown \/ SpuriousShutdownWakeUp
  PROVE  TaskStep
<1>. USE OwnerIsNoWorker
<1>. TypeOK /\ OwnerPhase  BY DEF ControlInv
<1>1. ASSUME \A w \in Workers : pc'[w] = pc[w] \/ (pc[w] = "onEmpty" /\ pc'[w] = "take"),
             pc[owner] # "growing", pc'[owner] # "adding",
             UNCHANGED <<m_inner_queue, elem, m_threads, fate, aborted>>
      PROVE  Frame /\ Keeps
  <2>1. AddingNew'
    BY <1>1 DEF AddingNew
  <2>2. QED  BY <1>1, <2>1, HandsStay DEF Keeps
<1>2. ASSUME \A w \in Workers : pc'[w] = pc[w] \/ (pc[w] = "onEmpty" /\ pc'[w] = "take"),
             pc[owner] \notin {"growing", "idle"}, pc'[owner] \notin {"adding", "idle"},
             UNCHANGED <<m_inner_queue, elem, m_shutdown, m_threads, fate, aborted>>
      PROVE  TaskStep
  <2>1. Frame /\ Keeps
    BY <1>1, <1>2
  <2>2. SamePhase
    BY <1>2 DEF SamePhase, Returned
  <2>3. QED  BY <2>1, <2>2 DEF TaskStep
<1>3. ASSUME NEW k, Goto(owner, k)
      PROVE  /\ pc'[owner] = k /\ \A w \in Workers : pc'[w] = pc[w]
             /\ UNCHANGED <<m_inner_queue, elem>>
  BY <1>3 DEF Goto, Move, queueVars, TypeOK
<1>4. ASSUME NEW k, WakeUpEmpty(owner, k) \/ WakeUpFull(owner, k),
             k \notin {"onEmpty", "onFull"}
      PROVE  /\ pc'[owner] = k
             /\ \A w \in Workers : pc'[w] = pc[w] \/ (pc[w] = "onEmpty" /\ pc'[w] = "take")
             /\ UNCHANGED <<m_inner_queue, elem>>
  <2>1. PICK f : f = Move(pc, owner, k)
    OBVIOUS
  <2>2. f[owner] = k /\ \A w \in Workers : f[w] = pc[w] /\ pc[w] # "onFull"
    BY <2>1 DEF Move, TypeOK, WorkerLabels
  <2>3. \/ pc' = NotifyAll(f, "onEmpty", "take")
        \/ pc' = NotifyAll(f, "onFull", "offer")
    BY <1>4, <2>1 DEF WakeUpEmpty, WakeUpFull
  <2>4. UNCHANGED <<m_inner_queue, elem>>
    BY <1>4 DEF WakeUpEmpty, WakeUpFull, queueVars
  <2>5. QED  BY <1>4, <2>2, <2>3, <2>4 DEF NotifyAll
<1>5. CASE Shutdown
  <2>1. /\ pc[owner] = "idle" /\ ~m_shutdown /\ m_shutdown'
        /\ Goto(owner, "interrupting")
        /\ UNCHANGED <<m_threads, fate, aborted>>
    BY <1>5 DEF Shutdown
  <2>2. pc'[owner] = "interrupting"
    BY <2>1, <1>3
  <2>3. Frame /\ Keeps
    BY <2>1, <2>2, <1>3, <1>1
  <2>4. Closes
    BY <2>1, <2>2, <2>3 DEF Closes, Returned
  <2>5. QED  BY <2>3, <2>4 DEF TaskStep
<1>6. CASE InterruptNext
  BY <1>6, <1>2 DEF InterruptNext
<1>7. CASE InterruptedAll
  BY <1>7, <1>2, <1>3 DEF InterruptedAll, poolVars
<1>8. CASE WakeWorkers
  BY <1>8, <1>2, <1>4 DEF WakeWorkers, poolVars
<1>9. CASE AwaitWorkers
  BY <1>9, <1>2, <1>3, <1>4 DEF AwaitWorkers, poolVars
<1>10. CASE NoWorkerLeft
  BY <1>10, <1>2, <1>3 DEF NoWorkerLeft
<1>11. CASE JoinNext
  BY <1>11, <1>2 DEF JoinNext, queueVars
<1>12. CASE ShutdownReturns
  <2>1. /\ pc[owner] = "joining" /\ m_shutdown /\ Goto(owner, "idle")
        /\ UNCHANGED <<m_shutdown, m_threads, fate, aborted>>
    BY <1>12 DEF ShutdownReturns, poolVars, OwnerPhase, OwnerLocks
  <2>2. pc'[owner] = "idle"
    BY <2>1, <1>3
  <2>3. Frame /\ Keeps
    BY <2>1, <2>2, <1>3, <1>1
  <2>4. Stops
    BY <2>1, <2>2, <2>3 DEF Stops, Returned
  <2>5. QED  BY <2>3, <2>4 DEF TaskStep
<1>13. CASE SpuriousShutdownWakeUp
  BY <1>13, <1>2, <1>3 DEF SpuriousShutdownWakeUp, poolVars
<1>14. QED
  BY <1>5, <1>6, <1>7, <1>8, <1>9, <1>10, <1>11, <1>12, <1>13 DEF OwnerShutdown

-----------------------------------------------------------------------------
(* Each kind of step preserves the invariant.                              *)
LEMMA HeldIs ==
  ASSUME HandsFull
  PROVE  Held \in [Workers -> Tasks \cup {None}]
BY DEF HandsFull, Held

(* One task's fate is settled, or a new one is turned away: no other task  *)
(* is touched.                                                             *)
LEMMA FateChanges ==
  ASSUME TypeOK, NEW x \in Tasks, NEW f, fate' = [fate EXCEPT ![x] = f]
  PROVE  fate'[x] = f /\ \A y \in Tasks : y # x => fate'[y] = fate[y]
BY DEF TypeOK

LEMMA PlacementKept ==
  ASSUME Placement, Keeps
  PROVE  Placement'
BY DEF Placement, Keeps, Queued

LEMMA PlacementTurnsAway ==
  ASSUME TypeOK, HandsFull, Placement, TurnsAway
  PROVE  Placement'
<1>1. PICK x \in Tasks, f \in {"refused", "omitted"} :
        fate[x] = "new" /\ fate' = [fate EXCEPT ![x] = f]
  BY DEF TurnsAway
<1>2. fate'[x] = f /\ \A y \in Tasks : y # x => fate'[y] = fate[y]
  BY <1>1, FateChanges
<1>3. UNCHANGED m_inner_queue /\ Held' = Held
  BY DEF TurnsAway
<1>4. \A i \in 1..Len(m_inner_queue) : m_inner_queue[i] \in Tasks
  BY DEF TypeOK
<1>5. \A i \in 1..Len(m_inner_queue) : fate'[m_inner_queue[i]] = "accepted"
  BY <1>1, <1>2, <1>4 DEF Placement
<1>6. \A w \in Workers : Held[w] # None =>
         Held[w] \in Tasks /\ fate'[Held[w]] = "accepted" /\ Held[w] \notin Queued
  BY <1>1, <1>2 DEF Placement
<1>7. \A y \in Tasks : fate'[y] = "accepted" => fate[y] = "accepted"
  BY <1>2
<1>8. QED  BY <1>3, <1>5, <1>6, <1>7 DEF Placement, Queued

LEMMA PlacementAccepts ==
  ASSUME TypeOK, HandsFull, Placement, Accepts
  PROVE  Placement'
<1>1. PICK x \in Tasks :
        /\ fate[x] = "new" /\ fate' = [fate EXCEPT ![x] = "accepted"]
        /\ m_inner_queue' = Append(m_inner_queue, x)
  BY DEF Accepts
<1>2. fate'[x] = "accepted" /\ \A y \in Tasks : y # x => fate'[y] = fate[y]
  BY <1>1, FateChanges
<1>3. Held' = Held
  BY DEF Accepts
<1>4. /\ Len(m_inner_queue) \in Nat /\ Len(m_inner_queue') = Len(m_inner_queue) + 1
      /\ \A i \in 1..Len(m_inner_queue) :
            m_inner_queue'[i] = m_inner_queue[i] /\ m_inner_queue[i] \in Tasks
      /\ m_inner_queue'[Len(m_inner_queue) + 1] = x
  BY <1>1 DEF TypeOK
<1>5. \A i \in 1..Len(m_inner_queue) : m_inner_queue[i] # x
  BY <1>1 DEF Placement
<1>6. \A w \in Workers : Held[w] # x
  BY <1>1, QueueAssumption DEF Placement, Tasks
<1>7. \A i \in 1..Len(m_inner_queue') :
        i = Len(m_inner_queue) + 1 \/ i \in 1..Len(m_inner_queue)
  BY <1>4
<1>8. \A i, j \in 1..Len(m_inner_queue') :
        m_inner_queue'[i] = m_inner_queue'[j] => i = j
  BY <1>4, <1>5, <1>7 DEF Placement
<1>9. \A i \in 1..Len(m_inner_queue') : fate'[m_inner_queue'[i]] = "accepted"
  BY <1>2, <1>4, <1>7 DEF Placement
<1>10. \A y \in Tasks : y \in Queued' <=> y \in Queued \/ y = x
  <2>1. \A i \in 1..Len(m_inner_queue) : i \in 1..Len(m_inner_queue')
    BY <1>4
  <2>2. Len(m_inner_queue) + 1 \in 1..Len(m_inner_queue')
    BY <1>4
  <2>3. QED  BY <1>4, <1>7, <2>1, <2>2 DEF Queued
<1>11. \A w \in Workers : Held[w] # None =>
         Held[w] \in Tasks /\ fate'[Held[w]] = "accepted" /\ Held[w] \notin Queued'
  BY <1>2, <1>6, <1>10 DEF Placement
<1>12. \A y \in Tasks : fate'[y] = "accepted" =>
         y \in Queued' \/ \E w \in Workers : Held[w] = y
  BY <1>2, <1>10 DEF Placement
<1>13. \A u, w \in Workers : Held[u] = Held[w] /\ Held[u] # None => u = w
  BY DEF Placement
<1>14. QED
  BY <1>3, <1>8, <1>9, <1>11, <1>12, <1>13 DEF Placement, Queued

LEMMA PlacementStarts ==
  ASSUME TypeOK, HandsFull, Placement, NEW w \in Workers, Starts(w)
  PROVE  Placement'
<1>0. PICK x : x = Head(m_inner_queue)
  OBVIOUS
<1>1. /\ UNCHANGED fate /\ m_inner_queue # <<>>
      /\ m_inner_queue' = Tail(m_inner_queue)
      /\ Held[w] = None /\ Held' = [Held EXCEPT ![w] = x]
  BY <1>0 DEF Starts
<1>2. /\ Len(m_inner_queue) \in Nat \ {0} /\ Len(m_inner_queue') = Len(m_inner_queue) - 1
      /\ x = m_inner_queue[1] /\ x \in Tasks
      /\ \A i \in 1..Len(m_inner_queue') : m_inner_queue'[i] = m_inner_queue[i + 1]
  BY <1>0, <1>1 DEF TypeOK
<1>3. Held'[w] = x /\ \A u \in Workers : u # w => Held'[u] = Held[u]
  BY <1>1, HeldIs
<1>4. \A i \in 1..Len(m_inner_queue') :
         i + 1 \in 1..Len(m_inner_queue) /\ i + 1 # 1 /\ i \in Nat
  BY <1>2
<1>5. 1 \in 1..Len(m_inner_queue) /\ x \in Queued
  BY <1>2 DEF Queued
<1>6. \A i, j \in 1..Len(m_inner_queue') :
        m_inner_queue'[i] = m_inner_queue'[j] => i = j
  <2>. TAKE i, j \in 1..Len(m_inner_queue')
  <2>1. m_inner_queue[i + 1] = m_inner_queue[j + 1] => i + 1 = j + 1
    BY <1>4 DEF Placement
  <2>2. QED  BY <1>2, <1>4, <2>1
<1>7. \A i \in 1..Len(m_inner_queue') :
         fate[m_inner_queue'[i]] = "accepted" /\ m_inner_queue'[i] # x
  <2>. TAKE i \in 1..Len(m_inner_queue')
  <2>1. fate[m_inner_queue[i + 1]] = "accepted" /\ m_inner_queue[i + 1] # m_inner_queue[1]
    BY <1>4, <1>5 DEF Placement
  <2>2. QED  BY <1>2, <2>1
<1>8. \A y \in Tasks : y \in Queued' <=> y \in Queued /\ y # x
  <2>1. ASSUME NEW y \in Tasks, y \in Queued'
        PROVE  y \in Queued /\ y # x
    BY <1>2, <1>4, <1>7, <2>1 DEF Queued
  <2>2. ASSUME NEW y \in Tasks, y \in Queued, y # x
        PROVE  y \in Queued'
    <3>1. PICK i \in 1..Len(m_inner_queue) : m_inner_queue[i] = y
      BY <2>2 DEF Queued
    <3>2. i # 1
      BY <1>2, <2>2, <3>1
    <3>3. i - 1 \in 1..Len(m_inner_queue') /\ (i - 1) + 1 = i
      BY <1>2, <3>2
    <3>4. m_inner_queue'[i - 1] = y
      BY <1>2, <3>1, <3>3
    <3>5. QED  BY <3>3, <3>4 DEF Queued
  <2>3. QED  BY <2>1, <2>2
<1>9. fate[x] = "accepted" /\ \A u \in Workers : Held[u] # x
  BY <1>2, <1>5, QueueAssumption DEF Placement, Tasks
<1>10. \A u \in Workers : Held'[u] # None =>
         Held'[u] \in Tasks /\ fate[Held'[u]] = "accepted" /\ Held'[u] \notin Queued'
  <2>1. x \notin Queued'
    BY <1>2, <1>8
  <2>2. ASSUME NEW u \in Workers, u # w, Held[u] # None
        PROVE  Held[u] \in Tasks /\ fate[Held[u]] = "accepted" /\ Held[u] \notin Queued'
    BY <1>8, <2>2 DEF Placement
  <2>3. QED  BY <1>2, <1>3, <1>9, <2>1, <2>2
<1>11. \A u, v \in Workers : Held'[u] = Held'[v] /\ Held'[u] # None => u = v
  BY <1>3, <1>9 DEF Placement
<1>12. \A y \in Tasks : fate[y] = "accepted" =>
         y \in Queued' \/ \E u \in Workers : Held'[u] = y
  <2>. SUFFICES ASSUME NEW y \in Tasks, fate[y] = "accepted", y \notin Queued'
                PROVE  \E u \in Workers : Held'[u] = y
    OBVIOUS
  <2>1. CASE y = x
    BY <1>3, <2>1
  <2>2. CASE y # x
    <3>1. PICK u \in Workers : Held[u] = y
      BY <1>8, <2>2 DEF Placement
    <3>2. u # w
      BY <1>1, <3>1, QueueAssumption DEF Tasks
    <3>3. QED  BY <1>3, <3>1, <3>2
  <2>3. QED  BY <2>1, <2>2
<1>13. \A i \in 1..Len(m_inner_queue') : fate'[m_inner_queue'[i]] = "accepted"
  BY <1>1, <1>7
<1>14. QED
  BY <1>1, <1>6, <1>10, <1>11, <1>12, <1>13 DEF Placement, Queued

LEMMA PlacementFinishes ==
  ASSUME TypeOK, HandsFull, Placement, NEW w \in Workers, Finishes(w)
  PROVE  Placement'
<1>1. /\ UNCHANGED m_inner_queue /\ Held[w] # None
      /\ Held' = [Held EXCEPT ![w] = None]
  BY DEF Finishes
<1>2. Held[w] \in Tasks /\ Held[w] \notin Queued
  BY <1>1 DEF Placement
<1>3. PICK f \in {"ran", "threw"} : fate' = [fate EXCEPT ![Held[w]] = f]
  BY DEF Finishes
<1>4. fate'[Held[w]] = f /\ \A y \in Tasks : y # Held[w] => fate'[y] = fate[y]
  BY <1>2, <1>3, FateChanges
<1>5. Held'[w] = None /\ \A u \in Workers : u # w => Held'[u] = Held[u]
  BY <1>1, HeldIs
<1>6. \A i \in 1..Len(m_inner_queue) :
         m_inner_queue[i] \in Tasks /\ m_inner_queue[i] # Held[w]
  BY <1>2 DEF Queued, TypeOK
<1>7. \A i \in 1..Len(m_inner_queue) : fate'[m_inner_queue[i]] = "accepted"
  BY <1>4, <1>6 DEF Placement
<1>8. \A u \in Workers : u # w /\ Held[u] # None => Held[u] # Held[w]
  BY DEF Placement
<1>9. \A u \in Workers : Held'[u] # None =>
         Held'[u] \in Tasks /\ fate'[Held'[u]] = "accepted" /\ Held'[u] \notin Queued
  BY <1>4, <1>5, <1>8 DEF Placement
<1>10. \A u, v \in Workers : Held'[u] = Held'[v] /\ Held'[u] # None => u = v
  BY <1>5 DEF Placement
<1>11. \A y \in Tasks : fate'[y] = "accepted" =>
         y \in Queued \/ \E u \in Workers : Held'[u] = y
  <2>. SUFFICES ASSUME NEW y \in Tasks, fate'[y] = "accepted", y \notin Queued
                PROVE  \E u \in Workers : Held'[u] = y
    OBVIOUS
  <2>1. y # Held[w] /\ fate[y] = "accepted"
    BY <1>4
  <2>2. PICK u \in Workers : Held[u] = y
    BY <2>1 DEF Placement
  <2>3. QED  BY <1>5, <2>1, <2>2
<1>12. QED
  BY <1>1, <1>7, <1>9, <1>10, <1>11 DEF Placement, Queued

-----------------------------------------------------------------------------
LEMMA TaskInit == Init => TaskInv
<1>. SUFFICES ASSUME Init PROVE TaskInv
  OBVIOUS
<1>. USE OwnerIsNoWorker DEF Init
<1>1. pc[owner] = "idle" /\ \A w \in Workers : pc[w] = "none"
  OBVIOUS
<1>2. 1..Len(m_inner_queue) = {} /\ QueueFits
  BY QueueAssumption DEF QueueFits
<1>3. \A x \in Tasks : fate[x] = "new"
  OBVIOUS
<1>4. \A w \in Workers : Held[w] = None
  BY <1>1 DEF Held, Running
<1>5. HandsFull /\ AddingNew /\ Drained /\ Staffed
  BY <1>1, <1>3 DEF HandsFull, AddingNew, Drained, Staffed, Running, Gone
<1>6. Placement
  BY <1>2, <1>3, <1>4 DEF Placement, Queued
<1>7. QED  BY <1>2, <1>5, <1>6 DEF TaskInv

(* What happened to the fates in a step.                                   *)
LEMMA FatesMove ==
  ASSUME TypeOK, Placement, TaskStep
  PROVE  /\ Threw => Threw'
         /\ (\E x \in Tasks : fate'[x] = "accepted") =>
               (\E x \in Tasks : fate[x] = "accepted") \/ Accepts
<1>1. CASE UNCHANGED fate
  BY <1>1 DEF Threw
<1>2. ASSUME NEW x \in Tasks, NEW f \in {"refused", "omitted", "ran", "threw", "accepted"},
             fate' = [fate EXCEPT ![x] = f], fate[x] # "threw", f = "accepted" => Accepts
      PROVE  /\ Threw => Threw'
             /\ (\E y \in Tasks : fate'[y] = "accepted") =>
                   (\E y \in Tasks : fate[y] = "accepted") \/ Accepts
  <2>1. fate'[x] = f /\ \A y \in Tasks : y # x => fate'[y] = fate[y]
    BY <1>2, FateChanges
  <2>2. QED  BY <1>2, <2>1 DEF Threw
<1>3. CASE TurnsAway
  BY <1>2, <1>3 DEF TurnsAway
<1>4. CASE Accepts
  BY <1>2, <1>4 DEF Accepts
<1>5. ASSUME NEW w \in Workers, Finishes(w) \/ Aborts(w)
      PROVE  \E x \in Tasks, f \in {"ran", "threw"} :
                fate' = [fate EXCEPT ![x] = f] /\ fate[x] = "accepted"
  <2>1. Held[w] \in Tasks /\ fate[Held[w]] = "accepted"
    BY <1>5 DEF Placement, Finishes, Aborts
  <2>2. QED  BY <1>5, <2>1 DEF Finishes, Aborts
<1>6. ASSUME NEW w \in Workers, Finishes(w) \/ Aborts(w)
      PROVE  /\ Threw => Threw'
             /\ (\E x \in Tasks : fate'[x] = "accepted") =>
                   (\E x \in Tasks : fate[x] = "accepted") \/ Accepts
  BY <1>6, <1>5, <1>2
<1>7. QED
  BY <1>1, <1>3, <1>4, <1>6 DEF TaskStep, Keeps, Closes, Stops, Starts

LEMMA TaskNext == ControlInv /\ TaskInv /\ [Next]_vars => TaskInv'
<1>. SUFFICES ASSUME ControlInv, TaskInv, [Next]_vars PROVE TaskInv'
  OBVIOUS
<1>. TypeOK  BY DEF ControlInv
<1>1. CASE UNCHANGED vars
  BY <1>1 DEF vars, queueVars, poolVars, TaskInv, Threw, HandsFull, AddingNew,
    Placement, Held, Queued, QueueFits, Drained, Staffed
<1>2. ASSUME ~aborted, TaskStep PROVE TaskInv'
  <2>. HandsFull /\ AddingNew /\ Placement /\ QueueFits /\ Drained /\ Staffed
    BY <1>2 DEF TaskInv
  <2>1. CASE \E w \in Workers : Aborts(w)
    <3>1. PICK w \in Workers : Aborts(w)
      BY <2>1
    <3>2. Held[w] \in Tasks /\ fate' = [fate EXCEPT ![Held[w]] = "threw"]
      BY <3>1 DEF Aborts, Placement
    <3>3. Threw'
      BY <3>2, FateChanges DEF Threw
    <3>4. QED  BY <3>1, <3>3 DEF Aborts, TaskInv
  <2>2. CASE ~\E w \in Workers : Aborts(w)
    <3>1. Frame /\ UNCHANGED aborted
      BY <1>2, <2>2 DEF TaskStep, Keeps, TurnsAway, Accepts, Closes, Stops, Starts,
        Finishes
    <3>2. Placement'
      BY <1>2, <2>2, PlacementKept, PlacementTurnsAway, PlacementAccepts,
        PlacementStarts, PlacementFinishes DEF TaskStep, Closes, Stops
    <3>3. QueueFits'
      <4>1. UNCHANGED m_inner_queue
            \/ (Accepts /\ \E x \in Tasks : m_inner_queue' = Append(m_inner_queue, x))
            \/ (m_inner_queue # <<>> /\ m_inner_queue' = Tail(m_inner_queue))
        BY <1>2, <2>2 DEF TaskStep, Keeps, TurnsAway, Accepts, Closes, Stops, Starts,
          Finishes
      <4>2. CASE UNCHANGED m_inner_queue
        BY <4>2 DEF QueueFits
      <4>3. CASE Accepts /\ \E x \in Tasks : m_inner_queue' = Append(m_inner_queue, x)
        BY <4>3, QueueAssumption DEF QueueFits, Accepts, TypeOK
      <4>4. CASE m_inner_queue # <<>> /\ m_inner_queue' = Tail(m_inner_queue)
        BY <4>4, QueueAssumption DEF QueueFits, TypeOK
      <4>5. QED  BY <4>1, <4>2, <4>3, <4>4
    <3>4. Drained'
      <4>. SUFFICES ASSUME ~Threw', NEW w \in Workers, pc'[w] \in Gone
                    PROVE  m_inner_queue' = <<>>
        BY DEF Drained
      <4>1. m_inner_queue = <<>>
        BY <1>2, <3>1, FatesMove DEF Frame, Drained
      <4>2. QED
        BY <1>2, <2>2, <4>1 DEF TaskStep, Keeps, TurnsAway, Accepts, Closes, Stops,
          Starts, Finishes
    <3>5. Staffed'
      <4>. SUFFICES ASSUME m_core_size > 0, pc'[owner] # "growing",
                           \E x \in Tasks : fate'[x] = "accepted"
                    PROVE  m_threads' # <<>>
        BY DEF Staffed
      <4>1. \E x \in Tasks : fate[x] = "accepted"
        BY <1>2, FatesMove DEF Accepts
      <4>2. QED  BY <3>1, <4>1 DEF Frame, Staffed
    <3>6. QED  BY <1>2, <3>1, <3>2, <3>3, <3>4, <3>5 DEF TaskInv, Frame
  <2>3. QED  BY <2>1, <2>2
<1>3. CASE Next
  <2>1. CASE Finished
    BY <1>1, <2>1 DEF Finished
  <2>2. CASE ~aborted /\ OwnerExecute
    BY <1>2, <2>2, ExecuteTaskStep DEF TaskInv
  <2>3. CASE ~aborted /\ (OwnerShutdown \/ SpuriousShutdownWakeUp)
    BY <1>2, <2>3, ShutdownTaskStep DEF TaskInv
  <2>4. ASSUME ~aborted, NEW w \in Workers, WorkerNext(w) \/ WorkerSpuriousWakeUp(w)
        PROVE  TaskInv'
    BY <1>2, <2>4, WorkerTaskStep DEF TaskInv
  <2>5. QED  BY <1>3, <2>1, <2>2, <2>3, <2>4 DEF Next
<1>4. QED  BY <1>1, <1>3

LEMMA TasksAlways == Spec => [](ControlInv /\ TaskInv)
BY ControlInit, ControlNext, TaskInit, TaskNext, PTL DEF Spec

-----------------------------------------------------------------------------
LEMMA AtMostOneElement ==
  ASSUME NEW S, \A a, b \in S : a = b
  PROVE  Cardinality(S) = IF S = {} THEN 0 ELSE 1
<1>1. CASE S = {}
  BY <1>1, FS_EmptySet
<1>2. ASSUME NEW a \in S PROVE Cardinality(S) = 1
  <2>1. S = {a}
    BY <1>2
  <2>2. QED  BY <2>1, FS_Singleton
<1>3. QED  BY <1>1, <1>2

(* An accepted task is neither lost nor duplicated while workers, the      *)
(* owner and shutdown() interleave: TaskPlace.                             *)
THEOREM TasksKeepTheirPlace == Spec => []TaskPlace
<1>1. ControlInv /\ TaskInv => TaskPlace
  <2>. SUFFICES ASSUME ControlInv, TaskInv, ~aborted, NEW x \in Tasks
                PROVE  Cardinality(Places(x)) + Cardinality(Holder(x)) =
                         IF fate[x] = "accepted" THEN 1 ELSE 0
    BY DEF TaskPlace
  <2>. HandsFull /\ Placement  BY DEF TaskInv
  <2>0. x # None
    BY QueueAssumption DEF Tasks
  <2>1. Holder(x) = {w \in Workers : Held[w] = x}
    BY <2>0 DEF Holder, Held, Running
  <2>2. Places(x) # {} <=> x \in Queued
    BY DEF Places, Queued
  <2>3. \A i, j \in Places(x) : i = j
    BY DEF Places, Placement
  <2>4. \A u, w \in Holder(x) : u = w
    BY <2>0, <2>1 DEF Placement
  <2>5. Cardinality(Places(x)) = IF Places(x) = {} THEN 0 ELSE 1
    BY <2>3, AtMostOneElement
  <2>6. Cardinality(Holder(x)) = IF Holder(x) = {} THEN 0 ELSE 1
    BY <2>4, AtMostOneElement
  <2>7. ~(Places(x) # {} /\ Holder(x) # {})
    BY <2>0, <2>1, <2>2 DEF Placement
  <2>8. fate[x] = "accepted" <=> Places(x) # {} \/ Holder(x) # {}
    BY <2>0, <2>1, <2>2 DEF Placement, Queued
  <2>9. QED  BY <2>5, <2>6, <2>7, <2>8
<1>2. QED  BY <1>1, TasksAlways, PTL

(* Once shutdown() has returned no worker thread is left and, if no task   *)
(* threw, no accepted task: ReturnedClean.  There was a worker for it,     *)
(* which has gone, and it goes only from an empty queue.                   *)
THEOREM NothingLeftBehind == Spec => []ReturnedClean
<1>1. ControlInv /\ TaskInv => ReturnedClean
  <2>. SUFFICES ASSUME ControlInv, TaskInv, Returned
                PROVE  /\ \A w \in Workers : pc[w] \in {"none", "ended"}
                       /\ m_worker_cnt = 0
                       /\ m_core_size > 0 /\ ~Threw
                             => \A x \in Tasks : fate[x] # "accepted"
    BY DEF ReturnedClean, Threw
  <2>1. \A w \in Workers : pc[w] \in {"none", "ended"}
    BY DEF ControlInv, Joined
  <2>2. m_worker_cnt = 0
    <3>1. Counted = {}
      BY <2>1 DEF Counted
    <3>2. QED  BY <3>1, CountedFinite DEF ControlInv, WorkerCount
  <2>3. ASSUME m_core_size > 0, ~Threw, NEW x \in Tasks, fate[x] = "accepted"
        PROVE  FALSE
    <3>1. Placement /\ Drained /\ Staffed
      BY <2>3 DEF TaskInv
    <3>2. m_threads # <<>>
      BY <2>3, <3>1 DEF Staffed, Returned
    <3>3. m_threads[1] \in Workers /\ pc[m_threads[1]] = "ended"
      BY <2>1, <3>2 DEF ControlInv, TypeOK, Roster
    <3>4. m_inner_queue = <<>>
      BY <2>3, <3>1, <3>3 DEF Drained, Gone
    <3>5. x \notin Queued
      BY <3>4 DEF Queued
    <3>6. \A w \in Workers : Held[w] # x
      BY <2>1, QueueAssumption DEF Held, Running, Tasks
    <3>7. QED  BY <2>3, <3>1, <3>5, <3>6 DEF Placement
  <2>4. QED  BY <2>1, <2>2, <2>3
<1>2. QED  BY <1>1, TasksAlways, PTL

-----------------------------------------------------------------------------
(* The refinement mapping of ThreadPool.                                   *)
ExRunning == [w \in Workers |->
                IF /\ pc[w] \in {"run", "drainRun"}
                   /\ fate[elem[w]] = "accepted" THEN elem[w] ELSE None]
ExDone == {x \in Tasks : fate[x] \in {"ran", "threw"}}
ExPhase == IF ~m_shutdown THEN "open" ELSE IF Returned THEN "stopped" ELSE "closed"

(* Until the process aborts a worker that holds a task runs it.            *)
LEMMA HeldRuns == HandsFull /\ Placement => ExRunning = Held
<1>. SUFFICES ASSUME HandsFull, Placement PROVE ExRunning = Held
  OBVIOUS
<1>1. ASSUME NEW w \in Workers, pc[w] \in Running
      PROVE  fate[elem[w]] = "accepted"
  BY <1>1, QueueAssumption DEF HandsFull, Placement, Held, Tasks
<1>2. QED  BY <1>1 DEF ExRunning, Held, Running

(* Actions of TaskExecutor, in terms of the mapping.                       *)
LEMMA MappedActions ==
  /\ UNCHANGED <<m_inner_queue, ExRunning, ExDone, ExPhase>> => UNCHANGED Executor!vars
  /\ \A x \in Tasks :
       /\ ExPhase = "open" /\ Len(m_inner_queue) < m_max /\ x \notin ExDone
       /\ \A i \in 1..Len(m_inner_queue) : m_inner_queue[i] # x
       /\ \A w \in Workers : ExRunning[w] # x
       /\ m_inner_queue' = Append(m_inner_queue, x)
       /\ UNCHANGED <<ExRunning, ExDone, ExPhase>>
       => Executor!Accept(x)
  /\ \A w \in Workers :
       /\ ExPhase # "stopped" /\ m_inner_queue # <<>> /\ ExRunning[w] = None
       /\ ExRunning' = [ExRunning EXCEPT ![w] = Head(m_inner_queue)]
       /\ m_inner_queue' = Tail(m_inner_queue)
       /\ UNCHANGED <<ExDone, ExPhase>>
       => Executor!Start(w)
  /\ \A w \in Workers :
       /\ ExRunning[w] # None /\ ExRunning' = [ExRunning EXCEPT ![w] = None]
       /\ ExDone' = ExDone \cup {ExRunning[w]}
       /\ UNCHANGED <<m_inner_queue, ExPhase>>
       => Executor!Finish(w)
  /\ /\ ExPhase = "open" /\ ExPhase' = "closed"
     /\ UNCHANGED <<m_inner_queue, ExRunning, ExDone>>
     => Executor!Close
  /\ /\ ExPhase = "closed" /\ \A w \in Workers : ExRunning[w] = None
     /\ ExPhase' = "stopped" /\ UNCHANGED <<m_inner_queue, ExRunning, ExDone>>
     => Executor!Stop
BY DEF ExRunning, ExDone, ExPhase, Executor!vars, Executor!Accept, Executor!Start,
  Executor!Finish, Executor!Close, Executor!Stop

LEMMA ExecutorTaskStep ==
  ASSUME ControlInv, ControlInv', TaskInv, ~aborted, TaskStep, ~aborted' => ExRunning' = Held'
  PROVE  Executor!Next \/ UNCHANGED Executor!vars
<1>. TypeOK  BY DEF ControlInv
<1>. HandsFull /\ Placement /\ QueueFits
  BY DEF TaskInv
<1>0. ExRunning = Held /\ Held \in [Workers -> Tasks \cup {None}]
  BY HeldRuns, HeldIs
<1>1. SamePhase => UNCHANGED ExPhase
  BY DEF SamePhase, ExPhase
<1>2. ASSUME Keeps, SamePhase \/ Closes \/ Stops
      PROVE  Executor!Next \/ UNCHANGED Executor!vars
  <2>1. UNCHANGED <<m_inner_queue, ExRunning, ExDone>>
    BY <1>0, <1>2 DEF Keeps, ExDone
  <2>2. CASE SamePhase
    BY <1>1, <2>1, <2>2, MappedActions
  <2>3. CASE Closes
    <3>1. ExPhase = "open" /\ ExPhase' = "closed"
      BY <2>3 DEF Closes, ExPhase
    <3>2. QED  BY <2>1, <3>1, MappedActions DEF Executor!Next
  <2>4. CASE Stops
    <3>1. ExPhase = "closed" /\ ExPhase' = "stopped"
      BY <2>4 DEF Stops, ExPhase
    <3>2. \A w \in Workers : pc'[w] \in {"none", "ended"}
      BY <2>4 DEF Stops, ControlInv, Joined
    <3>3. \A w \in Workers : ExRunning'[w] = None
      BY <3>2 DEF ExRunning
    <3>4. Executor!Stop
      BY <2>1, <3>1, <3>3, MappedActions
    <3>5. QED  BY <3>4 DEF Executor!Next
  <2>5. QED  BY <1>2, <2>2, <2>3, <2>4
<1>3. CASE TurnsAway
  <2>1. PICK x \in Tasks, f \in {"refused", "omitted"} :
          fate[x] = "new" /\ fate' = [fate EXCEPT ![x] = f]
    BY <1>3 DEF TurnsAway
  <2>2. fate'[x] = f /\ \A y \in Tasks : y # x => fate'[y] = fate[y]
    BY <2>1, FateChanges
  <2>3. UNCHANGED <<m_inner_queue, ExRunning, ExDone, ExPhase>>
    BY <1>0, <1>1, <1>3, <2>1, <2>2 DEF TurnsAway, ExDone
  <2>4. QED  BY <2>3, MappedActions
<1>4. CASE Accepts
  <2>1. PICK x \in Tasks :
          /\ fate[x] = "new" /\ fate' = [fate EXCEPT ![x] = "accepted"]
          /\ m_inner_queue' = Append(m_inner_queue, x)
    BY <1>4 DEF Accepts
  <2>2. fate'[x] = "accepted" /\ \A y \in Tasks : y # x => fate'[y] = fate[y]
    BY <2>1, FateChanges
  <2>3. ExPhase = "open" /\ UNCHANGED <<ExRunning, ExDone, ExPhase>>
    BY <1>0, <1>1, <1>4, <2>1, <2>2 DEF Accepts, ExDone, ExPhase
  <2>4. Len(m_inner_queue) < m_max
    BY <1>4, QueueAssumption DEF Accepts, QueueFits, TypeOK
  <2>5. x \notin ExDone /\ \A i \in 1..Len(m_inner_queue) : m_inner_queue[i] # x
    BY <2>1 DEF ExDone, Placement
  <2>6. \A w \in Workers : ExRunning[w] # x
    BY <1>0, <2>1, QueueAssumption DEF Placement, Tasks
  <2>7. Executor!Accept(x)
    BY <2>1, <2>3, <2>4, <2>5, <2>6, MappedActions
  <2>8. QED  BY <2>7 DEF Executor!Next
<1>5. ASSUME NEW w \in Workers, Starts(w)
      PROVE  Executor!Next
  <2>1. ExPhase # "stopped" /\ UNCHANGED <<ExDone, ExPhase>>
    BY <1>1, <1>5 DEF Starts, ExPhase, ExDone
  <2>2. /\ m_inner_queue # <<>> /\ ExRunning[w] = None
        /\ ExRunning' = [ExRunning EXCEPT ![w] = Head(m_inner_queue)]
        /\ m_inner_queue' = Tail(m_inner_queue)
    BY <1>0, <1>5 DEF Starts
  <2>3. Executor!Start(w)
    BY <2>1, <2>2, MappedActions
  <2>4. QED  BY <2>3 DEF Executor!Next
<1>6. ASSUME NEW w \in Workers, Held[w] # None, NEW f \in {"ran", "threw"},
             fate' = [fate EXCEPT ![Held[w]] = f]
      PROVE  ExDone' = ExDone \cup {Held[w]}
  <2>1. Held[w] \in Tasks
    BY <1>6 DEF Placement
  <2>2. fate'[Held[w]] = f /\ \A y \in Tasks : y # Held[w] => fate'[y] = fate[y]
    BY <1>6, <2>1, FateChanges
  <2>3. QED  BY <1>6, <2>1, <2>2 DEF ExDone
<1>7. ASSUME NEW w \in Workers, Finishes(w)
      PROVE  Executor!Next
  <2>1. /\ ExRunning[w] # None /\ ExRunning' = [ExRunning EXCEPT ![w] = None]
        /\ UNCHANGED <<m_inner_queue, ExPhase>>
    BY <1>0, <1>1, <1>7 DEF Finishes
  <2>2. ExDone' = ExDone \cup {ExRunning[w]}
    BY <1>0, <1>6, <1>7 DEF Finishes
  <2>3. Executor!Finish(w)
    BY <2>1, <2>2, MappedActions
  <2>4. QED  BY <2>3 DEF Executor!Next
<1>8. ASSUME NEW w \in Workers, Aborts(w)
      PROVE  Executor!Next
  <2>1. /\ UNCHANGED <<m_inner_queue, pc, elem, ExPhase>> /\ Held[w] # None
        /\ fate' = [fate EXCEPT ![Held[w]] = "threw"]
    BY <1>1, <1>8 DEF Aborts
  <2>2. Held[w] \in Tasks
    BY <2>1 DEF Placement
  <2>3. fate'[Held[w]] = "threw" /\ \A y \in Tasks : y # Held[w] => fate'[y] = fate[y]
    BY <2>1, <2>2, FateChanges
  <2>4. ASSUME NEW u \in Workers
        PROVE  ExRunning'[u] = IF u = w THEN None ELSE ExRunning[u]
    <3>1. CASE pc[u] \notin Running
      BY <2>1, <3>1 DEF ExRunning, Running
    <3>2. CASE pc[u] \in Running /\ u = w
      BY <2>1, <2>3, <3>2 DEF ExRunning, Held
    <3>3. CASE pc[u] \in Running /\ u # w
      <4>1. elem[u] \in Tasks /\ Held[u] = elem[u] /\ elem[u] # None
        BY <3>3, QueueAssumption DEF HandsFull, Held, Tasks
      <4>2. elem[u] # Held[w]
        BY <3>3, <4>1 DEF Placement
      <4>3. fate'[elem[u]] = fate[elem[u]]
        BY <2>3, <4>1, <4>2
      <4>4. QED  BY <2>1, <3>3, <4>3 DEF ExRunning
    <3>4. QED  BY <3>1, <3>2, <3>3
  <2>5. ExRunning' = [ExRunning EXCEPT ![w] = None]
    BY <2>4 DEF ExRunning
  <2>6. ExDone' = ExDone \cup {ExRunning[w]}
    BY <1>0, <1>6, <2>1
  <2>7. Executor!Finish(w)
    BY <1>0, <2>1, <2>5, <2>6, MappedActions
  <2>8. QED  BY <2>7 DEF Executor!Next
<1>9. QED
  BY <1>2, <1>3, <1>4, <1>5, <1>7, <1>8 DEF TaskStep, Closes, Stops

LEMMA ExecutorStep ==
  ControlInv /\ ControlInv' /\ TaskInv /\ TaskInv' /\ [Next]_vars
    => [Executor!Next]_(Executor!vars)
<1>. SUFFICES ASSUME ControlInv, ControlInv', TaskInv, TaskInv', [Next]_vars
              PROVE  Executor!Next \/ UNCHANGED Executor!vars
  OBVIOUS
<1>1. CASE UNCHANGED vars
  BY <1>1 DEF vars, queueVars, poolVars, Returned, Executor!vars
<1>2. ~aborted' => ExRunning' = Held'
  <2>1. (HandsFull /\ Placement => ExRunning = Held)'
    BY HeldRuns, PTL
  <2>2. QED  BY <2>1 DEF TaskInv
<1>3. ASSUME ~aborted, TaskStep
      PROVE  Executor!Next \/ UNCHANGED Executor!vars
  BY <1>2, <1>3, ExecutorTaskStep
<1>4. CASE Next
  <2>. ~aborted => HandsFull /\ AddingNew /\ Placement
    BY DEF TaskInv
  <2>1. CASE Finished
    BY <1>1, <2>1 DEF Finished
  <2>2. CASE ~aborted /\ OwnerExecute
    BY <1>3, <2>2, ExecuteTaskStep
  <2>3. CASE ~aborted /\ (OwnerShutdown \/ SpuriousShutdownWakeUp)
    BY <1>3, <2>3, ShutdownTaskStep
  <2>4. ASSUME ~aborted, NEW w \in Workers, WorkerNext(w) \/ WorkerSpuriousWakeUp(w)
        PROVE  Executor!Next \/ UNCHANGED Executor!vars
    BY <1>3, <2>4, WorkerTaskStep
  <2>5. QED  BY <1>4, <2>1, <2>2, <2>3, <2>4 DEF Next
<1>5. QED  BY <1>1, <1>4

(* The pool implements TaskExecutor: tasks start in the order in which     *)
(* execute() accepted them, each once and in one worker, no more wait than *)
(* the queue may hold, none is accepted after shutdown() began and none    *)
(* runs after it has returned.                                             *)
THEOREM ImplementsExecutor == Spec => ExecutorSpec
<1>1. Init => Executor!Init
  <2>1. Init => /\ m_inner_queue = <<>> /\ ExRunning = [w \in Workers |-> None]
                /\ ExDone = {} /\ ExPhase = "open"
    BY OwnerIsNoWorker DEF Init, ExRunning, ExDone, ExPhase
  <2>2. QED  BY <2>1 DEF Executor!Init, ExRunning, ExDone, ExPhase
<1>2. QED
  BY <1>1, TasksAlways, ExecutorStep, PTL DEF Spec, ExecutorSpec, Executor!Spec

=============================================================================
