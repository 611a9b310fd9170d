------------------------------ MODULE TimeWheel ------------------------------
(***************************************************************************)
(* nnero::time::TimeWheel: the tick thread, the thread that owns the wheel *)
(* (it calls addTask, startTick and close), and the pool that executes the *)
(* tasks, which is the ThreadPool as its clients see it: TaskExecutor.     *)
(*                                                                         *)
(* No lock protects the wheel.  addTask() reads m_curr_index, which tick() *)
(* increments, resets and reads in separate steps, and then appends to a   *)
(* list that tick() may be emptying at that very moment.                   *)
(*                                                                         *)
(* Time is counted in passes of tick(): one pass, MIN_UNIT milliseconds of *)
(* sleep, one slot.                                                        *)
(***************************************************************************)
EXTENDS Integers, Sequences, FiniteSets

CONSTANTS Tasks, None,
          delay_time,  \* [Tasks -> Int]: milliseconds, the argument of addTask
          SIZE,        \* m_time_box.size()
          MIN_UNIT,    \* milliseconds per pass
          SHORT,       \* addTask puts delays up to SHORT into the next slot
          Workers,     \* of m_execute_pool
          m_max,       \* the capacity of the queue of m_execute_pool
          MaxStall     \* bound: passes tick() makes within one addTask()

ASSUME WheelAssumption ==
  /\ None \notin Tasks
  /\ delay_time \in [Tasks -> Int]
  /\ SIZE \in Nat \ {0} /\ MIN_UNIT \in Nat \ {0} /\ SHORT \in Nat
  /\ m_max \in Nat /\ MaxStall \in Nat
  /\ \A x \in Tasks :   \* no overflow of the int in addTask: delays < 248 days
        delay_time[x] \div MIN_UNIT + SIZE < 2147483647

VARIABLES m_time_box,    \* [0..SIZE-1 -> Seq(TimeTask)]
          m_curr_index,  \* std::atomic<int>
          m_close,       \* volatile bool
          tickPc, current, remain_list,          \* of tick()
          ownerPc, adding, slot, rotation,       \* of addTask() and close()
          waiting, running, done, phase,         \* of m_execute_pool
          crashed,       \* why the process terminated, or "no"
          fate,          \* [Tasks -> ...]: what became of each task so far
          age,           \* [Tasks -> Nat]: passes since addTask read the index
          alone          \* [Tasks -> BOOLEAN]: tick() slept during addTask

wheelVars == <<m_time_box, m_curr_index, m_close>>
tickVars == <<tickPc, current, remain_list>>
ownerVars == <<ownerPc, adding, slot, rotation>>
poolVars == <<waiting, running, done, phase>>
ghostVars == <<fate, age, alone>>
vars == <<wheelVars, tickVars, ownerVars, poolVars, crashed, ghostVars>>

Slots == 0..SIZE-1
TimeTask == [func : Tasks, m_rotation : Nat]

Pool == INSTANCE TaskExecutor

Init ==
  /\ m_time_box = [s \in Slots |-> <<>>]
  /\ m_curr_index = 0
  /\ m_close = FALSE
  /\ tickPc = "off" /\ current = 0 /\ remain_list = <<>>
  /\ ownerPc = "idle" /\ adding = None /\ slot = 0 /\ rotation = 0
  /\ Pool!Init
  /\ crashed = "no"
  /\ fate = [x \in Tasks |-> "new"]
  /\ age = [x \in Tasks |-> 0]
  /\ alone = [x \in Tasks |-> FALSE]

Crash(why) ==
  /\ crashed' = why
  /\ UNCHANGED <<wheelVars, tickVars, ownerVars, poolVars, ghostVars>>

-----------------------------------------------------------------------------
(* addTask(f, delay_time), called by the owner.                            *)

(* The passes a task should wait for: tick() is to execute it in the pass  *)
(* after them.                                                             *)
Units(x) == IF delay_time[x] <= SHORT THEN 1 ELSE delay_time[x] \div MIN_UNIT

(* Mutant: the slot is not relative to m_curr_index.                       *)
SlotFromZero(x) ==
  IF delay_time[x] <= SHORT THEN m_curr_index + 1 ELSE Units(x) % SIZE

SlotOf(x) ==
  IF delay_time[x] <= SHORT THEN m_curr_index + 1
                            ELSE (Units(x) + m_curr_index) % SIZE

(* Mutant: the number of rotations is rounded up.                          *)
RotationRoundedUp(x) ==
  IF delay_time[x] <= SHORT THEN 0 ELSE (Units(x) + SIZE - 1) \div SIZE

RotationOf(x) == IF delay_time[x] <= SHORT THEN 0 ELSE Units(x) \div SIZE

Asleep == tickPc \in {"off", "sleep", "test", "bump"}

(* Up to here addTask() has read m_curr_index and has found the list.      *)
AddTask(x) ==
  /\ ownerPc = "idle" /\ fate[x] = "new"
  /\ SlotOf(x) \in Slots
  /\ ownerPc' = "pushing" /\ adding' = x
  /\ slot' = SlotOf(x) /\ rotation' = RotationOf(x)
  /\ fate' = [fate EXCEPT ![x] = "adding"]
  /\ alone' = [alone EXCEPT ![x] = Asleep]
  /\ UNCHANGED <<wheelVars, tickVars, poolVars, crashed, age>>

(* operator[] of std::array does not check: undefined behaviour, and the   *)
(* memory behind the array holds no list.                                  *)
AddTaskOutOfRange(x) ==
  /\ ownerPc = "idle" /\ fate[x] = "new"
  /\ SlotOf(x) \notin Slots
  /\ Crash("index")

PushBack ==
  /\ ownerPc = "pushing"
  /\ m_time_box' = [m_time_box EXCEPT ![slot] =
                      Append(@, [func |-> adding, m_rotation |-> rotation])]
  /\ ownerPc' = "idle" /\ adding' = None
  /\ fate' = [fate EXCEPT ![adding] = "added"]
  /\ alone' = [alone EXCEPT ![adding] = @ /\ age[adding] = 0]
  /\ UNCHANGED <<m_curr_index, m_close, tickVars, slot, rotation,
                 poolVars, crashed, age>>

(* startTick(); assigning to a joinable std::thread terminates.            *)
StartTick ==
  /\ ownerPc = "idle" /\ ~m_close /\ tickPc = "off"
  /\ tickPc' = "test"
  /\ UNCHANGED <<wheelVars, current, remain_list, ownerVars, poolVars, crashed, ghostVars>>

StartTickAgain ==
  /\ ownerPc = "idle" /\ ~m_close /\ tickPc # "off"
  /\ Crash("start")

(* close(); it can be called again, with no effect.  Joining a thread that *)
(* was never started throws, out of the destructor if that called close(). *)
Close ==
  /\ ownerPc = "idle" /\ ~m_close
  /\ tickPc # "off"
  /\ m_close' = TRUE
  /\ ownerPc' = "joining"
  /\ UNCHANGED <<m_time_box, m_curr_index, tickVars, adding, slot, rotation,
                 poolVars, crashed, ghostVars>>

CloseNotStarted ==
  /\ ownerPc = "idle" /\ ~m_close
  /\ tickPc = "off"
  /\ Crash("join")

(* Mutant: the pool is shut down before the tick thread is joined.         *)
ShutdownBeforeJoin ==
  /\ ownerPc = "joining"
  /\ ownerPc' = "stopping"
  /\ Pool!Close
  /\ UNCHANGED <<wheelVars, tickVars, adding, slot, rotation, crashed, ghostVars>>

JoinTick ==
  /\ ownerPc = "joining" /\ tickPc = "over"
  /\ ownerPc' = "stopping"
  /\ Pool!Close
  /\ UNCHANGED <<wheelVars, tickVars, adding, slot, rotation, crashed, ghostVars>>

PoolStopped ==
  /\ ownerPc = "stopping"
  /\ Pool!Stop
  /\ ownerPc' = "idle"
  /\ UNCHANGED <<wheelVars, tickVars, adding, slot, rotation, crashed, ghostVars>>

Owner ==
  \/ \E x \in Tasks : AddTask(x) \/ AddTaskOutOfRange(x)
  \/ PushBack
  \/ StartTick \/ StartTickAgain
  \/ Close \/ CloseNotStarted \/ JoinTick \/ PoolStopped

-----------------------------------------------------------------------------
(* tick()                                                                  *)

(* Mutant: the loop does not look at m_close.                              *)
TickForever ==
  /\ tickPc = "test"
  /\ tickPc' = "bump" /\ current' = m_curr_index
  /\ UNCHANGED <<wheelVars, remain_list, ownerVars, poolVars, crashed, ghostVars>>

TestClose ==
  /\ tickPc = "test"
  /\ IF m_close THEN tickPc' = "over" /\ UNCHANGED current
                ELSE tickPc' = "bump" /\ current' = m_curr_index
  /\ UNCHANGED <<wheelVars, remain_list, ownerVars, poolVars, crashed, ghostVars>>

Bump ==
  /\ tickPc = "bump"
  /\ ownerPc = "pushing" => age[adding] < MaxStall
  /\ m_curr_index' = m_curr_index + 1
  /\ tickPc' = "wrap"
  /\ age' = [x \in Tasks |-> IF fate[x] \in {"adding", "added"} THEN age[x] + 1 ELSE age[x]]
  /\ UNCHANGED <<m_time_box, m_close, current, remain_list, ownerVars,
                 poolVars, crashed, fate, alone>>

(* Mutant: the end of the array is off by one.                             *)
WrapLate ==
  /\ tickPc = "wrap"
  /\ m_curr_index' = IF m_curr_index > SIZE THEN 0 ELSE m_curr_index
  /\ tickPc' = "list"
  /\ UNCHANGED <<m_time_box, m_close, current, remain_list, ownerVars,
                 poolVars, crashed, ghostVars>>

Wrap ==
  /\ tickPc = "wrap"
  /\ m_curr_index' = IF m_curr_index >= SIZE THEN 0 ELSE m_curr_index
  /\ tickPc' = "list"
  /\ UNCHANGED <<m_time_box, m_close, current, remain_list, ownerVars,
                 poolVars, crashed, ghostVars>>

List == m_time_box[current]

(* m_execute_pool.execute(t.get()): omitted when the queue is full.        *)
HandOver(x) ==
  /\ UNCHANGED <<running, done, phase, age, alone>>
  /\ \/ /\ phase = "open" /\ Len(waiting) < m_max
        /\ waiting' = Append(waiting, x)
        /\ fate' = [fate EXCEPT ![x] = "handed"]
     \/ /\ ~(phase = "open" /\ Len(waiting) < m_max)
        /\ fate' = [fate EXCEPT ![x] = "omitted"]
        /\ UNCHANGED waiting

PopFront == m_time_box' = [m_time_box EXCEPT ![current] = Tail(@)]

(* Mutant: a task that was executed stays in the list.                     *)
FireKeepsFront ==
  /\ tickPc = "list" /\ List # <<>> /\ Head(List).m_rotation = 0
  /\ HandOver(Head(List).func)
  /\ UNCHANGED <<wheelVars, tickVars, ownerVars, crashed>>

(* Mutant: a task that cannot run yet is dropped.                          *)
RotateForgets ==
  /\ tickPc = "list" /\ List # <<>> /\ Head(List).m_rotation # 0
  /\ PopFront
  /\ UNCHANGED <<m_curr_index, m_close, tickVars, ownerVars, poolVars,
                 crashed, ghostVars>>

(* checkCanRun() of the front of the list.                                 *)
FireFront ==
  /\ tickPc = "list" /\ List # <<>> /\ Head(List).m_rotation = 0
  /\ HandOver(Head(List).func)
  /\ PopFront
  /\ UNCHANGED <<m_curr_index, m_close, tickVars, ownerVars, crashed>>

RotateFront ==
  /\ tickPc = "list" /\ List # <<>> /\ Head(List).m_rotation # 0
  /\ remain_list' = Append(remain_list, [Head(List) EXCEPT !.m_rotation = @ - 1])
  /\ PopFront
  /\ UNCHANGED <<m_curr_index, m_close, tickPc, current, ownerVars, poolVars,
                 crashed, ghostVars>>

ListDone ==
  /\ tickPc = "list" /\ List = <<>>
  /\ tickPc' = "insert"
  /\ UNCHANGED <<wheelVars, current, remain_list, ownerVars, poolVars, crashed, ghostVars>>

InsertRemain ==
  /\ tickPc = "insert"
  /\ m_time_box' = [m_time_box EXCEPT ![current] = @ \o remain_list]
  /\ remain_list' = <<>>
  /\ tickPc' = "sleep"
  /\ UNCHANGED <<m_curr_index, m_close, current, ownerVars, poolVars, crashed, ghostVars>>

Wake ==
  /\ tickPc = "sleep"
  /\ tickPc' = "test"
  /\ UNCHANGED <<wheelVars, current, remain_list, ownerVars, poolVars, crashed, ghostVars>>

(* Both threads are at the same std::list: a data race.  The operations    *)
(* may still take effect one after the other, which the steps above cover, *)
(* or the list is corrupted, after which nothing more is modelled.         *)
ListRace ==
  /\ tickPc \in {"list", "insert"} /\ ownerPc = "pushing" /\ slot = current
  /\ Crash("race")

Tick ==
  \/ TestClose \/ Bump \/ Wrap
  \/ FireFront \/ RotateFront \/ ListDone \/ InsertRemain
  \/ Wake

-----------------------------------------------------------------------------
ExecutePool ==
  /\ \E w \in Workers : Pool!Start(w) \/ Pool!Finish(w)
  /\ UNCHANGED <<wheelVars, tickVars, ownerVars, crashed, ghostVars>>

Finished == (crashed # "no" \/ phase = "stopped") /\ UNCHANGED vars

Next ==
  \/ crashed = "no" /\ (Owner \/ Tick \/ ListRace \/ ExecutePool)
  \/ Finished

Spec == Init /\ [][Next]_vars

(* The tick thread and the pool run; the owner finishes the calls it has   *)
(* begun, but need not begin any.                                          *)
Fairness ==
  /\ WF_vars(crashed = "no" /\ Tick)
  /\ WF_vars(crashed = "no" /\ (PushBack \/ JoinTick))
  /\ WF_vars(crashed = "no" /\ ExecutePool)

FairSpec == Spec /\ Fairness

-----------------------------------------------------------------------------
TypeOK ==
  /\ m_time_box \in [Slots -> Seq(TimeTask)]
  /\ m_curr_index \in 0..SIZE
  /\ m_close \in BOOLEAN
  /\ tickPc \in {"off", "test", "bump", "wrap", "list", "insert", "sleep", "over"}
  /\ current \in Slots
  /\ remain_list \in Seq(TimeTask)
  /\ ownerPc \in {"idle", "pushing", "joining", "stopping"}
  /\ adding \in Tasks \cup {None}
  /\ slot \in Slots /\ rotation \in Nat
  /\ waiting \in Seq(Tasks)
  /\ running \in [Workers -> Tasks \cup {None}]
  /\ done \subseteq Tasks
  /\ phase \in {"open", "closed", "stopped"}
  /\ crashed \in {"no", "index", "start", "join", "race"}
  /\ fate \in [Tasks -> {"new", "adding", "added", "handed", "omitted"}]
  /\ age \in [Tasks -> Nat]
  /\ alone \in [Tasks -> BOOLEAN]

Due(x) == Units(x) + 1

(* A task whose addTask() met tick() asleep is executed in exactly the     *)
(* pass its delay asks for, however many rotations away.                   *)
PunctualIfAlone ==
  \A x \in Tasks : alone[x] /\ fate[x] \in {"handed", "omitted"} => age[x] = Due(x)

(* Whatever addTask() overlaps with, a task is off by whole rotations of   *)
(* the wheel: one too early only if its slot is the one tick() is at,      *)
(* and late when tick() passed the slot before the push.                   *)
OffByWholeRotations ==
  \A x \in Tasks :
     fate[x] \in {"handed", "omitted"} =>
        \/ age[x] = Due(x)
        \/ age[x] = Due(x) - SIZE /\ Units(x) % SIZE = SIZE - 1
        \/ age[x] > Due(x) /\ (age[x] - Due(x)) % SIZE = 0

(* A task whose addTask() met tick() asleep never waits past its due pass: *)
(* no pass over a list, and no push into it, loses one of its tasks.       *)
NoneForgotten ==
  \A x \in Tasks : alone[x] /\ fate[x] = "added" => age[x] <= Due(x)

(* close() joins tick() before it shuts the pool down, so execute() is     *)
(* never called on a closed pool.                                          *)
PoolOpenWhileTicking == tickPc \notin {"off", "over"} => phase = "open"

(* The wheel uses its pool as an executor: no task is handed over twice,   *)
(* none after the pool was closed.                                         *)
PoolSpec == Pool!Spec

(* Every task added is handed to the pool (or omitted) unless the wheel is *)
(* closed, never started or brought down.                                  *)
EveryTaskFires ==
  \A x \in Tasks :
     fate[x] = "added" /\ tickPc # "off" ~>
        fate[x] \in {"handed", "omitted"} \/ m_close \/ crashed # "no"

(* close() gets past joining the tick thread.                              *)
CloseJoins == ownerPc = "joining" ~> ownerPc = "stopping" \/ crashed # "no"

(* "delay_time is milli seconds": no task runs before its delay.           *)
NeverEarly ==
  \A x \in Tasks : fate[x] = "handed" => age[x] >= Units(x)

(* A delay up to SHORT milliseconds finds a slot whenever addTask is       *)
(* called.                                                                 *)
SlotInRange == crashed # "index"

==============================================================================
