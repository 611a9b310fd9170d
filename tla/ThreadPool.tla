----------------------------- MODULE ThreadPool ------------------------------
(***************************************************************************)
(* nnero::thread::ThreadPool: one owner thread that calls execute() and    *)
(* then shutdown() (or the destructor, which calls it), and the worker     *)
(* threads the pool creates, all around one BlockingQueue of tasks.        *)
(*                                                                         *)
(* The owner stands for the callers the repository has: the test and       *)
(* TCPServer use a pool from one thread, and TimeWheel::close() joins the  *)
(* thread that calls execute() before it calls shutdown().  Calls of       *)
(* execute() that overlap with shutdown() are not modelled.                *)
(*                                                                         *)
(* A worker is a slot of Workers; it takes these labels besides those of   *)
(* the queue.                                                              *)
(*   "none"     not created         "exit"     about to lock m_main_lock   *)
(*   "loop"     tests m_shutdown    "leaving"  has counted itself out      *)
(*   "run"      runs a task         "ended"    the thread has terminated   *)
(*   "drain", "poll", "drainRun"    the loop of runWithExit()              *)
(* m_main_lock is held by the owner at the labels of OwnerLocks; a worker  *)
(* holds it only within its step from "exit" to "leaving".                 *)
(***************************************************************************)
EXTENDS BlockingQueue

CONSTANTS Workers,      \* slots for created threads
          owner,        \* the thread that owns the pool
          m_core_size,  \* how many workers execute() creates at most
          Kind          \* how the body of a task ends: it returns, it throws a
                        \* runtime_error, or it calls interruptPoint() first

Tasks == Elements       \* T is std::function<void()>

ASSUME PoolAssumption ==
  /\ Threads = Workers \cup {owner} /\ owner \notin Workers
  /\ IsFiniteSet(Workers)
  /\ m_core_size \in Nat /\ m_core_size <= Cardinality(Workers)
  /\ Kind \in [Tasks -> {"returns", "throws", "interruptible"}]

VARIABLES m_shutdown,    \* BOOLEAN
          m_worker_cnt,  \* Nat
          m_threads,     \* Seq(Workers): the Nthread handles, in order
          cursor,        \* the iterator of shutdown()'s two loops over m_threads
          aborted,       \* an exception left a thread function: std::abort()
          fate           \* [Tasks -> ...]: what became of each task so far

poolVars == <<m_shutdown, m_worker_cnt, m_threads, cursor, aborted, fate>>
vars == <<queueVars, pc, poolVars>>

OwnerLocks == {"interrupting", "wakeEmpty", "wakeFull", "testing",
               "rewakeEmpty", "rewakeFull", "joining"}
OwnerLabels ==
  {"idle", "adding", "growing", "onShutdown", "relock"} \cup OwnerLocks
WorkerLabels ==
  {"none", "loop", "take", "sawEmpty", "onEmpty", "run",
   "drain", "poll", "drainRun", "exit", "leaving", "ended"}
Fates == {"new", "accepted", "omitted", "refused", "ran", "threw"}

MainLockFree == pc[owner] \notin OwnerLocks

Init ==
  /\ m_inner_queue = <<>>
  /\ NoFlagSet
  /\ pc = [t \in Threads |-> IF t = owner THEN "idle" ELSE "none"]
  /\ elem = [t \in Threads |-> None]
  /\ m_shutdown = FALSE
  /\ m_worker_cnt = 0
  /\ m_threads = <<>>
  /\ cursor = 1
  /\ aborted = FALSE
  /\ fate = [x \in Tasks |-> "new"]

-----------------------------------------------------------------------------
(* execute(func), called by the owner.                                     *)

(* Mutant: execute() does not test m_shutdown.                             *)
ExecuteAnyTime(x) ==
  /\ pc[owner] = "idle" /\ fate[x] = "new"
  /\ elem' = [elem EXCEPT ![owner] = x]
  /\ pc' = Move(pc, owner, "adding")
  /\ UNCHANGED <<m_inner_queue, m_flag, poolVars>>

(* Mutant: func was moved from when it reaches add().                      *)
ExecuteNothing(x) ==
  /\ pc[owner] = "idle" /\ fate[x] = "new"
  /\ ~m_shutdown
  /\ pc' = Move(pc, owner, "adding")
  /\ UNCHANGED <<queueVars, poolVars>>

Execute(x) ==
  /\ pc[owner] = "idle" /\ fate[x] = "new"
  /\ ~m_shutdown
  /\ elem' = [elem EXCEPT ![owner] = x]
  /\ pc' = Move(pc, owner, "adding")
  /\ UNCHANGED <<m_inner_queue, m_flag, poolVars>>

ExecuteRefused(x) ==
  /\ pc[owner] = "idle" /\ fate[x] = "new"
  /\ m_shutdown
  /\ fate' = [fate EXCEPT ![x] = "refused"]
  /\ UNCHANGED <<queueVars, pc, m_shutdown, m_worker_cnt, m_threads, cursor, aborted>>

SetFate(x, f) ==
  /\ fate' = [fate EXCEPT ![x] = f]
  /\ UNCHANGED <<m_shutdown, m_worker_cnt, m_threads, cursor, aborted>>

(* Mutant: the result of add() is ignored.                                 *)
ExecuteAddUnchecked ==
  /\ pc[owner] = "adding"
  /\ \/ Add(owner, "growing")
     \/ AddRefuses(owner, "growing")
  /\ SetFate(elem[owner], "accepted")

ExecuteAdd ==
  /\ pc[owner] = "adding"
  /\ \/ Add(owner, "growing") /\ SetFate(elem[owner], "accepted")
     \/ AddRefuses(owner, "growing") /\ SetFate(elem[owner], "omitted")

(* Mutant: ++m_worker_cnt is missing.                                      *)
GrowUncounted(w) ==
  /\ pc[owner] = "growing" /\ pc[w] = "none"
  /\ m_worker_cnt < m_core_size
  /\ m_threads' = Append(m_threads, w)
  /\ pc' = [pc EXCEPT ![owner] = "idle", ![w] = "loop"]
  /\ UNCHANGED <<queueVars, m_shutdown, m_worker_cnt, cursor, aborted, fate>>

(* The constructor of Nthread returns only when the new thread runs and    *)
(* has handed over its flag; the handle is then moved into m_threads.      *)
Grow(w) ==
  /\ pc[owner] = "growing" /\ pc[w] = "none"
  /\ m_worker_cnt < m_core_size
  /\ m_worker_cnt' = m_worker_cnt + 1
  /\ m_threads' = Append(m_threads, w)
  /\ pc' = [pc EXCEPT ![owner] = "idle", ![w] = "loop"]
  /\ UNCHANGED <<queueVars, m_shutdown, cursor, aborted, fate>>

DontGrow ==
  /\ pc[owner] = "growing"
  /\ ~(m_worker_cnt < m_core_size)
  /\ Goto(owner, "idle")
  /\ UNCHANGED poolVars

OwnerExecute ==
  \/ \E x \in Tasks : Execute(x) \/ ExecuteRefused(x)
  \/ ExecuteAdd
  \/ \E w \in Workers : Grow(w)
  \/ DontGrow

-----------------------------------------------------------------------------
(* shutdown(), called by the owner.  A second call changes nothing.        *)

Shutdown ==
  /\ pc[owner] = "idle"
  /\ ~m_shutdown
  /\ m_shutdown' = TRUE
  /\ cursor' = 1
  /\ Goto(owner, "interrupting")
  /\ UNCHANGED <<m_worker_cnt, m_threads, aborted, fate>>

InterruptNext ==
  /\ pc[owner] = "interrupting" /\ cursor <= Len(m_threads)
  /\ Interrupt(m_threads[cursor])
  /\ cursor' = cursor + 1
  /\ UNCHANGED <<m_inner_queue, elem, pc, m_shutdown, m_worker_cnt, m_threads, aborted, fate>>

(* Mutant: the loop stops before the last thread.                          *)
InterruptedAllButLast ==
  /\ pc[owner] = "interrupting" /\ cursor >= Len(m_threads)
  /\ Goto(owner, "wakeEmpty")
  /\ UNCHANGED poolVars

InterruptedAll ==
  /\ pc[owner] = "interrupting" /\ cursor > Len(m_threads)
  /\ Goto(owner, "wakeEmpty")
  /\ UNCHANGED poolVars

WakeWorkers ==
  /\ \/ pc[owner] = "wakeEmpty" /\ WakeUpEmpty(owner, "wakeFull")
     \/ pc[owner] = "wakeFull" /\ WakeUpFull(owner, "testing")
  /\ UNCHANGED poolVars

(* m_shutdown_cond.wait(lock, pred): pred wakes the workers again whenever *)
(* it is false; the wait then releases m_main_lock as it blocks.           *)
AwaitWorkers ==
  /\ \/ pc[owner] = "testing" /\ m_worker_cnt # 0 /\ Goto(owner, "rewakeEmpty")
     \/ pc[owner] = "rewakeEmpty" /\ WakeUpEmpty(owner, "rewakeFull")
     \/ pc[owner] = "rewakeFull" /\ WakeUpFull(owner, "onShutdown")
     \/ pc[owner] = "relock" /\ Goto(owner, "testing")
  /\ UNCHANGED poolVars

NoWorkerLeft ==
  /\ pc[owner] = "testing" /\ m_worker_cnt = 0
  /\ cursor' = 1
  /\ Goto(owner, "joining")
  /\ UNCHANGED <<m_shutdown, m_worker_cnt, m_threads, aborted, fate>>

JoinNext ==
  /\ pc[owner] = "joining" /\ cursor <= Len(m_threads)
  /\ pc[m_threads[cursor]] = "ended"
  /\ cursor' = cursor + 1
  /\ UNCHANGED <<queueVars, pc, m_shutdown, m_worker_cnt, m_threads, aborted, fate>>

ShutdownReturns ==
  /\ pc[owner] = "joining" /\ cursor > Len(m_threads)
  /\ Goto(owner, "idle")
  /\ UNCHANGED poolVars

SpuriousShutdownWakeUp ==
  /\ pc[owner] = "onShutdown"
  /\ Goto(owner, "relock")
  /\ UNCHANGED poolVars

OwnerShutdown ==
  \/ Shutdown \/ InterruptNext \/ InterruptedAll \/ WakeWorkers
  \/ AwaitWorkers \/ NoWorkerLeft \/ JoinNext \/ ShutdownReturns

-----------------------------------------------------------------------------
(* runWorker()                                                             *)

(* Mutant: a worker that sees m_shutdown does not drain the queue.         *)
TestShutdownExits(w) ==
  /\ pc[w] = "loop"
  /\ Goto(w, IF m_shutdown THEN "exit" ELSE "take")
  /\ UNCHANGED poolVars

TestShutdown(w) ==
  /\ pc[w] = "loop"
  /\ Goto(w, IF m_shutdown THEN "drain" ELSE "take")
  /\ UNCHANGED poolVars

GetTask(w) ==
  /\ \/ Take(w, "run")
     \/ TakeInterrupted(w, "drain")
     \/ TakeSeesEmpty(w)
     \/ TakeBlocks(w)
  /\ UNCHANGED poolVars

(* How the body of task x ends in thread w.                                *)
BodyReturns(w, x) ==
  \/ Kind[x] = "returns"
  \/ Kind[x] = "interruptible" /\ ~InterruptPointThrows(w)
BodyThrowsError(x) == Kind[x] = "throws"
BodyThrowsInterrupt(w, x) == Kind[x] = "interruptible" /\ InterruptPointThrows(w)

Abort(x) ==
  /\ aborted' = TRUE
  /\ fate' = [fate EXCEPT ![x] = "threw"]
  /\ UNCHANGED <<queueVars, pc, m_shutdown, m_worker_cnt, m_threads, cursor>>

(* Only an InterruptException is caught; anything else leaves the thread.  *)
RunTask(w) ==
  /\ pc[w] = "run"
  /\ LET x == elem[w] IN
     \/ BodyReturns(w, x) /\ Goto(w, "loop") /\ SetFate(x, "ran")
     \/ BodyThrowsInterrupt(w, x) /\ Goto(w, "drain") /\ SetFate(x, "threw")
     \/ BodyThrowsError(x) /\ Abort(x)

(* Mutant: runWithExit() abandons the queue.                               *)
TestEmptyAbandons(w) ==
  /\ pc[w] = "drain" /\ MutexFree
  /\ Goto(w, "exit")
  /\ UNCHANGED poolVars

(* runWithExit(): while(!empty()) poll and run.  A runtime_error, from     *)
(* poll() or from the task, ends the loop; an InterruptException leaves    *)
(* the thread.                                                             *)
TestEmpty(w) ==
  /\ pc[w] = "drain" /\ MutexFree
  /\ Goto(w, IF m_inner_queue = <<>> THEN "exit" ELSE "poll")
  /\ UNCHANGED poolVars

PollTask(w) ==
  /\ pc[w] = "poll"
  /\ \/ Poll(w, "drainRun")
     \/ PollThrows(w, "exit")
  /\ UNCHANGED poolVars

DrainTask(w) ==
  /\ pc[w] = "drainRun"
  /\ LET x == elem[w] IN
     \/ BodyReturns(w, x) /\ Goto(w, "drain") /\ SetFate(x, "ran")
     \/ BodyThrowsError(x) /\ Goto(w, "exit") /\ SetFate(x, "threw")
     \/ BodyThrowsInterrupt(w, x) /\ Abort(x)

(* Mutant: without m_main_lock.                                            *)
CountOutUnlocked(w) ==
  /\ pc[w] = "exit"
  /\ m_worker_cnt' = m_worker_cnt - 1
  /\ pc' = [pc EXCEPT ![w] = "leaving",
                      ![owner] = IF @ = "onShutdown" THEN "relock" ELSE @]
  /\ UNCHANGED <<queueVars, m_shutdown, m_threads, cursor, aborted, fate>>

(* Mutant: without notify_one().                                           *)
CountOutSilently(w) ==
  /\ pc[w] = "exit" /\ MainLockFree
  /\ m_worker_cnt' = m_worker_cnt - 1
  /\ pc' = Move(pc, w, "leaving")
  /\ UNCHANGED <<queueVars, m_shutdown, m_threads, cursor, aborted, fate>>

(* Under m_main_lock: --m_worker_cnt and m_shutdown_cond.notify_one().     *)
CountOut(w) ==
  /\ pc[w] = "exit" /\ MainLockFree
  /\ m_worker_cnt' = m_worker_cnt - 1
  /\ pc' = [pc EXCEPT ![w] = "leaving",
                      ![owner] = IF @ = "onShutdown" THEN "relock" ELSE @]
  /\ UNCHANGED <<queueVars, m_shutdown, m_threads, cursor, aborted, fate>>

(* The thread terminates; its thread_local flag is gone.                   *)
End(w) ==
  /\ pc[w] = "leaving"
  /\ Goto(w, "ended")
  /\ UNCHANGED poolVars

WorkerNext(w) ==
  \/ TestShutdown(w) \/ GetTask(w) \/ RunTask(w)
  \/ TestEmpty(w) \/ PollTask(w) \/ DrainTask(w)
  \/ CountOut(w) \/ End(w)

WorkerSpuriousWakeUp(w) == SpuriousWakeUp(w) /\ UNCHANGED poolVars

-----------------------------------------------------------------------------
Returned == m_shutdown /\ pc[owner] = "idle"

(* The program is over: the pool is shut down, or the process aborted.     *)
Finished ==
  /\ \/ aborted
     \/ Returned /\ \A x \in Tasks : fate[x] # "new"
  /\ UNCHANGED vars

Next ==
  \/ /\ ~aborted
     /\ \/ OwnerExecute
        \/ OwnerShutdown
        \/ SpuriousShutdownWakeUp
        \/ \E w \in Workers : WorkerNext(w) \/ WorkerSpuriousWakeUp(w)
  \/ Finished

Spec == Init /\ [][Next]_vars

(* A thread that can go on does so some day; the owner is not obliged to   *)
(* call execute() or shutdown(), and nobody has to be woken spuriously.    *)
(* Strong fairness of CountOut: a worker that waits for m_main_lock gets   *)
(* it even if shutdown() is spuriously woken, and so locks it, for ever.   *)
Fairness ==
  /\ \A w \in Workers :
        WF_vars(~aborted /\ WorkerNext(w)) /\ SF_vars(~aborted /\ CountOut(w))
  /\ WF_vars(~aborted /\ pc[owner] # "idle" /\ (OwnerExecute \/ OwnerShutdown))

FairSpec == Spec /\ Fairness

-----------------------------------------------------------------------------
TypeOK ==
  /\ m_inner_queue \in Seq(Tasks)
  /\ m_flag \in [Threads -> BOOLEAN]
  /\ pc \in [Threads -> OwnerLabels \cup WorkerLabels]
  /\ pc[owner] \in OwnerLabels
  /\ \A w \in Workers : pc[w] \in WorkerLabels
  /\ elem \in [Threads -> Tasks \cup {None}]
  /\ m_shutdown \in BOOLEAN
  /\ m_worker_cnt \in Nat
  /\ m_threads \in Seq(Workers)
  /\ cursor \in Nat \ {0}
  /\ aborted \in BOOLEAN
  /\ fate \in [Tasks -> Fates]

Counted == {w \in Workers : pc[w] \notin {"none", "leaving", "ended"}}

(* shutdown() writes the InterruptFlag of its workers through pointers     *)
(* into their thread_local storage: the thread whose flag it is about to   *)
(* write has not ended, since a worker needs m_main_lock to get that far   *)
(* and no worker leaves its loop before m_shutdown is set.                 *)
InterruptsLiveThread ==
  pc[owner] = "interrupting" /\ cursor <= Len(m_threads)
     => m_threads[cursor] \in Counted

(* m_worker_cnt, which shutdown() waits for and execute() sizes the pool   *)
(* by, is the number of workers that have not counted themselves out.      *)
WorkerCount == m_worker_cnt = Cardinality(Counted)

Holder(x) == {w \in Workers : pc[w] \in {"run", "drainRun"} /\ elem[w] = x}
Places(x) == {i \in 1..Len(m_inner_queue) : m_inner_queue[i] = x}

(* A task execute() accepted is neither lost nor duplicated: until it has  *)
(* run it is in one place of the queue or in the hands of one worker.      *)
TaskPlace ==
  ~aborted =>
    \A x \in Tasks :
       Cardinality(Places(x)) + Cardinality(Holder(x)) =
          IF fate[x] = "accepted" THEN 1 ELSE 0

(* When shutdown() has returned every worker thread has ended and, unless  *)
(* a task threw or the pool has no worker, every accepted task has run.    *)
ReturnedClean ==
  Returned =>
     /\ \A w \in Workers : pc[w] \in {"none", "ended"}
     /\ m_worker_cnt = 0
     /\ m_core_size > 0 /\ (\A x \in Tasks : fate[x] # "threw")
           => \A x \in Tasks : fate[x] # "accepted"

(* While shutdown() waits for its workers at most one of them can be       *)
(* asleep in take(), or about to fall asleep: the one that had tested the  *)
(* predicate when its flag was raised and that both wakeUpAll() missed.    *)
AtMostOneStranded ==
  pc[owner] = "onShutdown" =>
     \A u, w \in At("sawEmpty") \cup At("onEmpty") : u = w

(* Every worker but those of tasks that throw an error drains the queue to *)
(* its end: with as many such tasks as workers, tasks may be left.         *)
DrainsCutShort ==
  Cardinality({x \in Tasks : Kind[x] = "throws" /\ fate[x] = "threw"}) >= Len(m_threads)

(* Every accepted task is run, before or during shutdown(), also when      *)
(* shutdown() itself never returns, unless the process aborts or there is  *)
(* no worker left whose drain loop was not ended by a task's error.        *)
EveryTaskRuns ==
  \A x \in Tasks :
     fate[x] = "accepted" ~> (fate[x] # "accepted" \/ aborted \/ DrainsCutShort)

(* The only way shutdown() fails to return is to wait for one sleeping     *)
(* worker: all others have ended and the queue is empty.                   *)
OneAsleep ==
  /\ pc[owner] = "onShutdown"
  /\ m_inner_queue = <<>>
  /\ \E u \in Workers :
        /\ pc[u] = "onEmpty"
        /\ \A w \in Workers \ {u} : pc[w] \in {"none", "ended"}

ShutdownSettles == m_shutdown ~> (Returned \/ OneAsleep \/ aborted)

(* shutdown() returns.                                                     *)
ShutdownTerminates == m_shutdown ~> Returned

(* The pool is an executor: a worker runs the task it holds until that     *)
(* task's fate is known, and the pool stops when shutdown() returns.       *)
Executor == INSTANCE TaskExecutor WITH
  waiting <- m_inner_queue,
  running <- [w \in Workers |->
                IF /\ pc[w] \in {"run", "drainRun"}
                   /\ fate[elem[w]] = "accepted" THEN elem[w] ELSE None],
  done <- {x \in Tasks : fate[x] \in {"ran", "threw"}},
  phase <- IF ~m_shutdown THEN "open" ELSE IF Returned THEN "stopped" ELSE "closed"

ExecutorSpec == Executor!Spec

==============================================================================
