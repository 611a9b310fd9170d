---------------------------- MODULE TimeWheelProofs ----------------------------
(***************************************************************************)
(* Theorems about TimeWheel, for any tasks, delays, size of the wheel and  *)
(* pool.                                                                   *)
(***************************************************************************)
EXTENDS TimeWheel, TLAPS

(* The index leaves the array between its increment and its reset only;    *)
(* a task is being added exactly while addTask() is about to push it.      *)
IndexInside == m_curr_index = SIZE => tickPc = "wrap"

AddingOne == ownerPc = "pushing" => adding \in Tasks

(* The pool is open until close() has joined the tick thread, and close()  *)
(* finds no tick thread to join twice.                                     *)
OpenUntilJoined ==
  /\ phase # "open" => tickPc = "over"
  /\ ownerPc = "stopping" => phase = "closed"
  /\ ownerPc = "joining" => phase = "open" /\ m_close
  /\ ~m_close => phase = "open"

WheelInv == TypeOK /\ IndexInside /\ AddingOne /\ OpenUntilJoined

-----------------------------------------------------------------------------
(* A delay beyond SHORT finds its slot in the array.                       *)
LEMMA SlotOfTask ==
  ASSUME NEW x \in Tasks, m_curr_index \in Int
  PROVE  /\ Units(x) \in Nat
         /\ RotationOf(x) \in Nat
         /\ delay_time[x] > SHORT => SlotOf(x) \in Slots
<1>1. /\ delay_time[x] \in Int /\ SHORT \in Nat
      /\ MIN_UNIT \in Nat \ {0} /\ SIZE \in Nat \ {0}
  BY WheelAssumption
<1>2. \A a \in Nat, b \in Nat \ {0} : a \div b \in Nat
  OBVIOUS
<1>3. \A a \in Int, b \in Nat \ {0} : a % b \in 0..b-1
  OBVIOUS
<1>4. delay_time[x] > SHORT => delay_time[x] \div MIN_UNIT \in Nat
  BY <1>1, <1>2
<1>5. Units(x) \in Nat
  BY <1>1, <1>4 DEF Units
<1>6. RotationOf(x) \in Nat
  BY <1>1, <1>2, <1>5 DEF RotationOf
<1>7. delay_time[x] > SHORT => SlotOf(x) \in Slots
  <2>1. Units(x) + m_curr_index \in Int
    BY <1>5
  <2>2. (Units(x) + m_curr_index) % SIZE \in 0..SIZE-1
    BY <1>1, <1>3, <2>1
  <2>3. QED  BY <1>1, <2>2 DEF SlotOf, Slots
<1>8. QED  BY <1>5, <1>6, <1>7

LEMMA WheelInit == Init => WheelInv
<1>. SUFFICES ASSUME Init PROVE WheelInv
  OBVIOUS
<1>1. 0 \in Slots /\ SIZE # 0 /\ 0 \in 0..SIZE
  BY WheelAssumption DEF Slots
<1>2. /\ m_time_box \in [Slots -> Seq(TimeTask)]
      /\ fate \in [Tasks -> {"new", "adding", "added", "handed", "omitted"}]
      /\ age \in [Tasks -> Nat] /\ alone \in [Tasks -> BOOLEAN]
  BY DEF Init
<1>3. /\ waiting \in Seq(Tasks) /\ running \in [Workers -> Tasks \cup {None}]
      /\ done \subseteq Tasks /\ phase = "open"
  BY DEF Init, Pool!Init
<1>4. /\ m_curr_index = 0 /\ current = 0 /\ slot = 0 /\ rotation = 0
      /\ m_close = FALSE /\ remain_list = <<>>
      /\ tickPc = "off" /\ ownerPc = "idle" /\ adding = None /\ crashed = "no"
  BY DEF Init
<1>5. /\ remain_list = <<>> /\ rotation = 0
      => remain_list \in Seq(TimeTask) /\ rotation \in Nat
  BY SMT
<1>6. TypeOK
  BY <1>1, <1>2, <1>3, <1>4, <1>5, Zenon DEF TypeOK
<1>7. QED
  BY <1>1, <1>3, <1>4, <1>6
  DEF WheelInv, IndexInside, AddingOne, OpenUntilJoined

LEMMA OwnerKeeps == WheelInv /\ Owner => WheelInv'
<1>. SUFFICES ASSUME WheelInv, Owner PROVE WheelInv'
  OBVIOUS
<1>. USE DEF WheelInv, TypeOK, IndexInside, AddingOne, OpenUntilJoined,
       wheelVars, tickVars, ownerVars, poolVars, ghostVars
<1>1. ASSUME NEW x \in Tasks, AddTask(x) PROVE WheelInv'
  <2>1. m_curr_index \in Int
    BY WheelAssumption
  <2>2. RotationOf(x) \in Nat
    BY <2>1, SlotOfTask
  <2>3. alone' \in [Tasks -> BOOLEAN]
    BY <1>1 DEF AddTask, Asleep
  <2>4. QED  BY <1>1, <2>2, <2>3, SMT DEF AddTask
<1>2. ASSUME NEW x \in Tasks, AddTaskOutOfRange(x) PROVE WheelInv'
  BY <1>2 DEF AddTaskOutOfRange, Crash
<1>3. CASE PushBack
  <2>1. [func |-> adding, m_rotation |-> rotation] \in TimeTask
    BY <1>3 DEF PushBack, TimeTask
  <2>2. m_time_box' \in [Slots -> Seq(TimeTask)]
    BY <1>3, <2>1 DEF PushBack
  <2>3. alone' \in [Tasks -> BOOLEAN]
    BY <1>3 DEF PushBack
  <2>4. QED  BY <1>3, <2>2, <2>3, SMT DEF PushBack
<1>4. CASE StartTick  BY <1>4 DEF StartTick
<1>5. CASE StartTickAgain  BY <1>5 DEF StartTickAgain, Crash
<1>6. CASE Close  BY <1>6 DEF Close
<1>7. CASE CloseNotStarted  BY <1>7 DEF CloseNotStarted, Crash
<1>8. CASE JoinTick  BY <1>8 DEF JoinTick, Pool!Close
<1>9. CASE PoolStopped  BY <1>9 DEF PoolStopped, Pool!Stop
<1>. HIDE DEF WheelInv
<1>10. QED
  BY <1>1, <1>2, <1>3, <1>4, <1>5, <1>6, <1>7, <1>8, <1>9 DEF Owner

LEMMA HandOverType ==
  ASSUME waiting \in Seq(Tasks), NEW x \in Tasks, HandOver(x),
         fate \in [Tasks -> {"new", "adding", "added", "handed", "omitted"}]
  PROVE  /\ waiting' \in Seq(Tasks)
         /\ fate' \in [Tasks -> {"new", "adding", "added", "handed", "omitted"}]
BY DEF HandOver

LEMMA RotateType ==
  ASSUME NEW task \in TimeTask, task.m_rotation # 0
  PROVE  [task EXCEPT !.m_rotation = @ - 1] \in TimeTask
<1>1. task.m_rotation - 1 \in Nat
  BY DEF TimeTask
<1>2. QED  BY <1>1 DEF TimeTask

LEMMA TickKeeps == WheelInv /\ Tick => WheelInv'
<1>. SUFFICES ASSUME WheelInv, Tick PROVE WheelInv'
  OBVIOUS
<1>. USE DEF WheelInv, TypeOK, IndexInside, AddingOne, OpenUntilJoined,
       wheelVars, tickVars, ownerVars, poolVars, ghostVars
<1>0. /\ List \in Seq(TimeTask)
      /\ List # <<>> => /\ Head(List) \in TimeTask
                        /\ Tail(List) \in Seq(TimeTask)
  BY SMT DEF List
<1>1. CASE TestClose
  <2>1. m_curr_index \in Slots
    BY <1>1, WheelAssumption, SMT DEF TestClose, Slots
  <2>2. QED  BY <1>1, <2>1, SMT DEF TestClose
<1>2. CASE Bump
  <2>1. m_curr_index + 1 \in 0..SIZE
    BY <1>2, WheelAssumption, SMT DEF Bump
  <2>2. age' \in [Tasks -> Nat]
    BY <1>2, SMT DEF Bump
  <2>3. QED  BY <1>2, <2>1, <2>2, SMT DEF Bump
<1>3. CASE Wrap
  BY <1>3, WheelAssumption, SMTT(20) DEF Wrap
<1>4. CASE FireFront
  <2>1. PICK x \in Tasks : HandOver(x)
    BY <1>0, <1>4, SMT DEF FireFront, TimeTask
  <2>2. m_time_box' \in [Slots -> Seq(TimeTask)]
    BY <1>0, <1>4, SMT DEF FireFront, PopFront, List
  <2>3. waiting' \in Seq(Tasks)
    BY <2>1, HandOverType
  <2>4. fate' \in [Tasks -> {"new", "adding", "added", "handed", "omitted"}]
    BY <2>1, HandOverType
  <2>5. QED  BY <1>4, <2>1, <2>2, <2>3, <2>4, SMT DEF FireFront, HandOver
<1>5. CASE RotateFront
  <2>1. PICK task \in TimeTask : task = Head(List) /\ task.m_rotation # 0
    BY <1>0, <1>5, SMT DEF RotateFront
  <2>2. [task EXCEPT !.m_rotation = @ - 1] \in TimeTask
    BY <2>1, RotateType
  <2>3. remain_list' = Append(remain_list, [task EXCEPT !.m_rotation = @ - 1])
    BY <1>5, <2>1, SMT DEF RotateFront
  <2>4. remain_list' \in Seq(TimeTask)
    BY <2>2, <2>3, SMT
  <2>5. m_time_box' \in [Slots -> Seq(TimeTask)]
    BY <1>0, <1>5, SMT DEF RotateFront, PopFront, List
  <2>6. QED  BY <1>5, <2>4, <2>5, SMT DEF RotateFront
<1>6. CASE ListDone  BY <1>6, SMT DEF ListDone
<1>7. CASE InsertRemain
  <2>1. m_time_box' \in [Slots -> Seq(TimeTask)]
    BY <1>7, SMT DEF InsertRemain
  <2>2. remain_list' \in Seq(TimeTask)
    BY <1>7, SMT DEF InsertRemain
  <2>3. QED  BY <1>7, <2>1, <2>2, SMT DEF InsertRemain
<1>8. CASE Wake  BY <1>8, SMT DEF Wake
<1>. HIDE DEF WheelInv
<1>9. QED
  BY <1>1, <1>2, <1>3, <1>4, <1>5, <1>6, <1>7, <1>8, SMT DEF Tick

LEMMA PoolKeeps == WheelInv /\ ExecutePool => WheelInv'
<1>. SUFFICES ASSUME WheelInv, NEW w \in Workers, Pool!Start(w) \/ Pool!Finish(w),
                     UNCHANGED <<wheelVars, tickVars, ownerVars, crashed, ghostVars>>
              PROVE  WheelInv'
  BY DEF ExecutePool
<1>. USE DEF WheelInv, TypeOK, IndexInside, AddingOne, OpenUntilJoined,
       wheelVars, tickVars, ownerVars, ghostVars
<1>1. CASE Pool!Start(w)
  <2>1. Head(waiting) \in Tasks /\ Tail(waiting) \in Seq(Tasks)
    BY <1>1, SMT DEF Pool!Start
  <2>2. QED  BY <1>1, <2>1, SMT DEF Pool!Start
<1>2. CASE Pool!Finish(w)
  <2>1. running[w] \in Tasks
    BY <1>2, SMT DEF Pool!Finish
  <2>2. QED  BY <1>2, <2>1, SMT DEF Pool!Finish
<1>. HIDE DEF WheelInv
<1>3. QED  BY <1>1, <1>2

LEMMA WheelNext == WheelInv /\ [Next]_vars => WheelInv'
<1>. SUFFICES ASSUME WheelInv, [Next]_vars PROVE WheelInv'
  OBVIOUS
<1>1. CASE ListRace
  BY <1>1, SMT DEF ListRace, Crash, WheelInv, TypeOK, IndexInside, AddingOne,
    OpenUntilJoined, wheelVars, tickVars, ownerVars, poolVars, ghostVars
<1>2. CASE UNCHANGED vars
  BY <1>2, SMT DEF vars, WheelInv, TypeOK, IndexInside, AddingOne,
    OpenUntilJoined, wheelVars, tickVars, ownerVars, poolVars, ghostVars
<1>3. QED
  BY <1>1, <1>2, OwnerKeeps, TickKeeps, PoolKeeps DEF Next, Finished

-----------------------------------------------------------------------------
(* The wheel's variables keep their types: in particular tick() never      *)
(* finds the index outside the array, although it leaves it for the        *)
(* duration of one test, and no rotation gets negative.                    *)
THEOREM TypeCorrect == Spec => []TypeOK
<1>1. WheelInv => TypeOK  BY DEF WheelInv
<1>2. QED  BY WheelInit, WheelNext, <1>1, PTL DEF Spec

(* The pool is not shut down while the tick thread can still hand tasks to *)
(* it, whenever close() is called.                                         *)
THEOREM OpenWhileTicking == Spec => []PoolOpenWhileTicking
<1>1. WheelInv => PoolOpenWhileTicking
  BY DEF WheelInv, OpenUntilJoined, PoolOpenWhileTicking
<1>2. QED  BY WheelInit, WheelNext, <1>1, PTL DEF Spec

-----------------------------------------------------------------------------
(***************************************************************************)
(* When the tasks of a TimeWheel fire, for any size of the wheel and any   *)
(* delays.  The argument: the pass in which a task will fire, counted from *)
(* its addTask(), follows from where it is in the wheel, and no step of    *)
(* tick() changes it.  Only a push that comes late changes it, by one      *)
(* rotation for every time tick() goes past the slot first.                *)
(***************************************************************************)

Elems(q) == {q[i] : i \in 1..Len(q)}

(* How many slots s lies ahead of slot c.                                  *)
Ahead(s, c) == IF s >= c THEN s - c ELSE s - c + SIZE

Following(c) == IF c + 1 >= SIZE THEN 0 ELSE c + 1

(* The passes that begin before tick() is done with slot s, not counting   *)
(* the one it is in.                                                       *)
ToGo(s) == IF tickPc \in {"wrap", "list"} THEN Ahead(s, current)
                                          ELSE Ahead(s, m_curr_index) + 1

Turns(r) == r * SIZE

(* The passes n may be the one in which x is executed, where punctual says *)
(* whether x was added with tick() asleep.                                 *)
Target(x, n, punctual) ==
  \/ n = Due(x)
  \/ ~punctual /\ n = Due(x) - SIZE /\ Units(x) % SIZE = SIZE - 1
  \/ ~punctual /\ n > Due(x) /\ (n - Due(x)) % SIZE = 0

-----------------------------------------------------------------------------
(* Arithmetic of the wheel.                                                *)

LEMMA WheelSize == SIZE \in Nat /\ SIZE > 0
BY WheelAssumption

LEMMA TurnsNext ==
  ASSUME NEW r \in Nat
  PROVE  Turns(r) \in Nat /\ Turns(0) = 0 /\ Turns(r + 1) = Turns(r) + SIZE
<1>1. r * SIZE \in Nat /\ 0 * SIZE = 0 /\ (r + 1) * SIZE = r * SIZE + SIZE
  BY WheelSize
<1>2. QED  BY <1>1 DEF Turns

LEMMA AheadSteps ==
  ASSUME NEW s \in Slots, NEW c \in Slots
  PROVE  /\ Ahead(s, c) \in 0..SIZE-1
         /\ Ahead(c, c) = 0
         /\ Following(c) \in Slots
         /\ Following(c) = c + 1 \/ (Following(c) = 0 /\ c + 1 = SIZE)
         /\ Ahead(c, Following(c)) = SIZE - 1
         /\ s # c => Ahead(s, c) = Ahead(s, Following(c)) + 1
BY WheelSize DEF Slots, Ahead, Following

LEMMA DivMod ==
  ASSUME NEW a \in Nat, NEW n \in Nat, n > 0
  PROVE  \E q \in Nat, d \in 0..n-1 :
            q = a \div n /\ d = a % n /\ a = q * n + d
<1>1. a \div n \in Nat
  BY SMT
<1>2. a % n \in 0..n-1
  BY SMT
<1>3. a = n * (a \div n) + (a % n)
  BY SMT
<1>4. \A q \in Nat : n * q = q * n
  OBVIOUS
<1>5. QED  BY <1>1, <1>2, <1>3, <1>4

LEMMA ModUnique ==
  ASSUME NEW n \in Nat, n > 0, NEW q \in Nat, NEW d \in 0..n-1
  PROVE  (q * n + d) % n = d
<1>1. q * n + d \in Nat
  OBVIOUS
<1>2. PICK p \in Nat, e \in 0..n-1 : e = (q * n + d) % n /\ q * n + d = p * n + e
  BY <1>1, DivMod
<1>3. (q - p) * n = e - d
  BY <1>2
<1>4. q = p
  <2>1. CASE q >= p + 1
    <3>1. (q - p) * n >= n  BY <2>1, <1>2
    <3>2. QED  BY <3>1, <1>3, <1>2
  <2>2. CASE p >= q + 1
    <3>1. (p - q) * n >= n  BY <2>2, <1>2
    <3>2. (p - q) * n = d - e  BY <1>3, <1>2
    <3>3. QED  BY <3>1, <3>2, <1>2
  <2>3. QED  BY <2>1, <2>2, <1>2
<1>5. e = d  BY <1>2, <1>4
<1>6. QED  BY <1>2, <1>5

(* One rotation more is a rotation more.                                   *)
LEMMA ModOneMore ==
  ASSUME NEW a \in Nat, NEW n \in Nat, n > 0, a % n = 0
  PROVE  (a + n) % n = 0
<1>1. PICK q \in Nat : a = q * n
  BY DivMod
<1>2. a + n = (q + 1) * n + 0 /\ q + 1 \in Nat
  BY <1>1
<1>3. QED  BY <1>2, ModUnique, SMTT(20)

(* Slot and rotation stand for the delay, counted from the index that      *)
(* addTask() read; SIZE is the index that tick() is about to reset.        *)
LEMMA SlotAndRotation ==
  ASSUME NEW x \in Tasks, m_curr_index \in 0..SIZE, SlotOf(x) \in Slots,
         NEW c \in Slots, c = m_curr_index \/ (c = 0 /\ m_curr_index = SIZE)
  PROVE  /\ RotationOf(x) \in Nat
         /\ Ahead(SlotOf(x), c) = Units(x) % SIZE
         /\ Units(x) = Ahead(SlotOf(x), c) + Turns(RotationOf(x))
<1>. DEFINE u == Units(x)
<1>1. u \in Nat /\ RotationOf(x) \in Nat
  BY SlotOfTask, WheelSize
<1>2. CASE delay_time[x] <= SHORT
  <2>1. u = 1 /\ SlotOf(x) = m_curr_index + 1 /\ RotationOf(x) = 0
    BY <1>2 DEF Units, SlotOf, RotationOf
  <2>2. SIZE > 1 /\ c = m_curr_index
    BY <2>1, WheelSize DEF Slots
  <2>3. Ahead(SlotOf(x), c) = 1
    BY <2>1, <2>2, WheelSize DEF Ahead, Slots
  <2>4. 1 % SIZE = 1
    BY <2>2, WheelSize, ModUnique
  <2>5. Turns(0) = 0
    BY TurnsNext
  <2>6. QED  BY <1>1, <2>1, <2>3, <2>4, <2>5
<1>3. CASE ~(delay_time[x] <= SHORT)
  <2>. HIDE DEF u
  <2>1. PICK q \in Nat, d \in 0..SIZE-1 :
           q = u \div SIZE /\ d = u % SIZE /\ u = q * SIZE + d
    BY <1>1, WheelSize, DivMod
  <2>2. SlotOf(x) = (u + m_curr_index) % SIZE /\ RotationOf(x) = q
    BY <1>3, <2>1 DEF SlotOf, RotationOf, u
  <2>3. PICK p \in Nat : u + m_curr_index = p * SIZE + (d + c)
    <3>1. CASE c = m_curr_index  BY <2>1, <3>1, WheelSize DEF Slots
    <3>2. CASE c = 0 /\ m_curr_index = SIZE
      <4>1. (q + 1) * SIZE = q * SIZE + SIZE  BY <2>1, WheelSize
      <4>2. u + m_curr_index = (q + 1) * SIZE + (d + c)
        BY <4>1, <2>1, <3>2, WheelSize
      <4>3. q + 1 \in Nat  BY <2>1
      <4>4. QED  BY <4>2, <4>3
    <3>3. QED  BY <3>1, <3>2
  <2>4. Ahead(SlotOf(x), c) = d
    <3>1. CASE d + c < SIZE
      <4>1. d + c \in 0..SIZE-1
        BY <2>1, <3>1, WheelSize DEF Slots
      <4>2. (p * SIZE + (d + c)) % SIZE = d + c
        BY <4>1, <2>3, WheelSize, ModUnique
      <4>3. SlotOf(x) = d + c
        BY <2>2, <2>3, <4>2
      <4>4. QED  BY <4>3, <2>1 DEF Ahead, Slots
    <3>2. CASE d + c >= SIZE
      <4>1. (p + 1) * SIZE = p * SIZE + SIZE  BY <2>3, WheelSize
      <4>2. u + m_curr_index = (p + 1) * SIZE + (d + c - SIZE)
        BY <4>1, <2>1, <2>3, WheelSize DEF Slots
      <4>3. d + c - SIZE \in 0..SIZE-1 /\ p + 1 \in Nat
        BY <2>1, <2>3, <3>2, WheelSize DEF Slots
      <4>4. ((p + 1) * SIZE + (d + c - SIZE)) % SIZE = d + c - SIZE
        BY <4>3, WheelSize, ModUnique
      <4>5. SlotOf(x) = d + c - SIZE
        BY <2>2, <4>2, <4>4
      <4>6. QED  BY <4>5, <2>1, WheelSize DEF Ahead, Slots
    <3>3. QED  BY <3>1, <3>2, <2>1, WheelSize DEF Slots
  <2>5. QED  BY <2>2, <2>1, <2>4, <1>1, WheelSize DEF Turns, u
<1>4. QED  BY <1>2, <1>3

(* What is passed by once more is late by one rotation more.               *)
LEMMA TargetLate ==
  ASSUME NEW x \in Tasks, NEW n \in Int, NEW punctual \in BOOLEAN,
         Target(x, n, punctual), ~punctual, Units(x) \in Nat
  PROVE  Target(x, n + SIZE, punctual)
<1>. Due(x) \in Nat  BY DEF Due
<1>1. CASE n = Due(x)
  <2>1. (1 * SIZE + 0) % SIZE = 0
    BY WheelSize, ModUnique
  <2>2. QED  BY <1>1, <2>1, WheelSize DEF Target
<1>2. CASE n = Due(x) - SIZE
  BY <1>2, WheelSize DEF Target
<1>3. CASE n > Due(x) /\ (n - Due(x)) % SIZE = 0
  <2>1. n - Due(x) \in Nat
    BY <1>3
  <2>2. (n - Due(x) + SIZE) % SIZE = 0
    BY <1>3, <2>1, WheelSize, ModOneMore
  <2>3. (n + SIZE) - Due(x) = n - Due(x) + SIZE /\ n + SIZE > Due(x)
    BY <1>3, WheelSize
  <2>4. ((n + SIZE) - Due(x)) % SIZE = 0
    BY <2>2, <2>3
  <2>5. QED  BY <2>3, <2>4 DEF Target
<1>4. QED  BY <1>1, <1>2, <1>3 DEF Target

-----------------------------------------------------------------------------
(* The tasks in a list.                                                    *)

LEMMA ElemsAppend ==
  ASSUME NEW q \in Seq(TimeTask), NEW e \in TimeTask
  PROVE  Elems(Append(q, e)) = Elems(q) \cup {e}
<1>1. /\ Len(Append(q, e)) = Len(q) + 1 /\ Append(q, e)[Len(q) + 1] = e
      /\ \A i \in 1..Len(q) : Append(q, e)[i] = q[i]
  OBVIOUS
<1>2. 1..Len(q) + 1 = (1..Len(q)) \cup {Len(q) + 1}
  OBVIOUS
<1>3. QED  BY <1>1, <1>2 DEF Elems

LEMMA ElemsTail ==
  ASSUME NEW q \in Seq(TimeTask), q # <<>>
  PROVE  Elems(q) = {Head(q)} \cup Elems(Tail(q))
<1>1. /\ Len(Tail(q)) = Len(q) - 1 /\ Len(q) \in Nat \ {0} /\ Head(q) = q[1]
      /\ \A i \in 1..Len(q) - 1 : Tail(q)[i] = q[i + 1]
  OBVIOUS
<1>2. ASSUME NEW e \in Elems(q) PROVE e = Head(q) \/ e \in Elems(Tail(q))
  <2>1. PICK i \in 1..Len(q) : e = q[i]  BY DEF Elems
  <2>2. CASE i = 1  BY <1>1, <2>1, <2>2
  <2>3. CASE i # 1
    <3>1. i - 1 \in 1..Len(Tail(q)) /\ Tail(q)[i - 1] = e
      BY <1>1, <2>1, <2>3
    <3>2. QED  BY <3>1 DEF Elems
  <2>4. QED  BY <2>2, <2>3
<1>3. ASSUME NEW e \in Elems(Tail(q)) PROVE e \in Elems(q)
  <2>1. PICK i \in 1..Len(Tail(q)) : e = Tail(q)[i]  BY DEF Elems
  <2>2. i + 1 \in 1..Len(q) /\ q[i + 1] = e  BY <1>1, <2>1
  <2>3. QED  BY <2>2 DEF Elems
<1>4. Head(q) \in Elems(q)  BY <1>1 DEF Elems
<1>5. QED  BY <1>2, <1>3, <1>4

LEMMA ElemsConcat ==
  ASSUME NEW q \in Seq(TimeTask), NEW r \in Seq(TimeTask)
  PROVE  Elems(q \o r) = Elems(q) \cup Elems(r)
<1>1. /\ Len(q \o r) = Len(q) + Len(r) /\ Len(q) \in Nat /\ Len(r) \in Nat
      /\ \A i \in 1..Len(q) : (q \o r)[i] = q[i]
      /\ \A i \in 1..Len(r) : (q \o r)[Len(q) + i] = r[i]
  OBVIOUS
<1>2. ASSUME NEW e \in Elems(q \o r) PROVE e \in Elems(q) \/ e \in Elems(r)
  <2>1. PICK i \in 1..Len(q) + Len(r) : e = (q \o r)[i]
    BY <1>1 DEF Elems
  <2>2. CASE i <= Len(q)
    BY <1>1, <2>1, <2>2 DEF Elems
  <2>3. CASE i > Len(q)
    <3>1. i - Len(q) \in 1..Len(r) /\ Len(q) + (i - Len(q)) = i
      BY <1>1, <2>1, <2>3
    <3>2. r[i - Len(q)] = e  BY <1>1, <2>1, <3>1
    <3>3. QED  BY <3>1, <3>2 DEF Elems
  <2>4. QED  BY <1>1, <2>1, <2>2, <2>3
<1>3. ASSUME NEW e \in Elems(q) PROVE e \in Elems(q \o r)
  <2>1. PICK i \in 1..Len(q) : e = q[i]  BY DEF Elems
  <2>2. i \in 1..Len(q \o r) /\ (q \o r)[i] = e  BY <1>1, <2>1
  <2>3. QED  BY <2>2 DEF Elems
<1>4. ASSUME NEW e \in Elems(r) PROVE e \in Elems(q \o r)
  <2>1. PICK i \in 1..Len(r) : e = r[i]  BY DEF Elems
  <2>2. Len(q) + i \in 1..Len(q \o r) /\ (q \o r)[Len(q) + i] = e
    BY <1>1, <2>1
  <2>3. QED  BY <2>2 DEF Elems
<1>5. QED  BY <1>2, <1>3, <1>4

LEMMA ElemsType ==
  /\ \A q \in Seq(TimeTask) : Elems(q) \subseteq TimeTask
  /\ Elems(<<>>) = {}
  /\ \A e \in TimeTask : e.func \in Tasks /\ e.m_rotation \in Nat
<1>1. \A q \in Seq(TimeTask) : Elems(q) \subseteq TimeTask
  BY DEF Elems
<1>2. Elems(<<>>) = {}
  BY DEF Elems
<1>3. \A e \in TimeTask : e.func \in Tasks /\ e.m_rotation \in Nat
  BY DEF TimeTask
<1>4. QED  BY <1>1, <1>2, <1>3

-----------------------------------------------------------------------------
(* The invariant.                                                          *)

(* Where tick() is in a pass, and in which slot.                           *)
IndexSteps ==
  /\ tickPc = "bump" => current = m_curr_index
  /\ tickPc = "wrap" => m_curr_index = current + 1
  /\ tickPc \in {"list", "insert"} => m_curr_index = Following(current)
  /\ tickPc \notin {"list", "insert"} => remain_list = <<>>

(* What is in the wheel was added, and fires in a pass it may fire in if   *)
(* that is n passes ahead.                                                 *)
OnTime(e, n, fates, ages, sole) ==
  /\ fates[e.func] \in {"added", "handed", "omitted"}
  /\ fates[e.func] = "added" => Target(e.func, ages[e.func] + n, sole[e.func])

ListsOnTime ==
  /\ \A s \in Slots : \A e \in Elems(m_time_box[s]) :
        OnTime(e, ToGo(s) + Turns(e.m_rotation), fate, age, alone)
  /\ \A e \in Elems(remain_list) :
        OnTime(e, SIZE + Turns(e.m_rotation), fate, age, alone)

(* The same for the task that addTask() is about to push.                  *)
PushOnTime ==
  ownerPc = "pushing" =>
    /\ fate[adding] = "adding"
    /\ Target(adding, age[adding] + (ToGo(slot) + Turns(rotation)),
              alone[adding] /\ age[adding] = 0)
    /\ alone[adding] /\ age[adding] = 0 => tickPc \notin {"wrap", "list", "insert"}

FiredOnTime ==
  \A x \in Tasks :
    /\ fate[x] = "new" => age[x] = 0
    /\ fate[x] \in {"handed", "omitted"} => Target(x, age[x], alone[x])

(* No task that was added has dropped out of the wheel.                    *)
InTheWheel(x, box, rest) ==
  \/ \E s \in Slots : \E e \in Elems(box[s]) : e.func = x
  \/ \E e \in Elems(rest) : e.func = x

Present ==
  \A x \in Tasks : fate[x] = "added" => InTheWheel(x, m_time_box, remain_list)

DueInv == IndexSteps /\ ListsOnTime /\ PushOnTime /\ FiredOnTime /\ Present

-----------------------------------------------------------------------------
LEMMA DueInit == Init => DueInv
<1>. SUFFICES ASSUME Init PROVE DueInv
  OBVIOUS
<1>1. /\ tickPc = "off" /\ remain_list = <<>> /\ ownerPc = "idle"
      /\ \A s \in Slots : m_time_box[s] = <<>>
      /\ \A x \in Tasks : fate[x] = "new" /\ age[x] = 0
  BY DEF Init
<1>2. Elems(<<>>) = {}
  BY ElemsType
<1>3. QED
  BY <1>1, <1>2
  DEF DueInv, IndexSteps, ListsOnTime, PushOnTime, FiredOnTime, Present

LEMMA ToGoType ==
  ASSUME WheelInv, NEW s \in Slots
  PROVE  ToGo(s) \in Nat
<1>1. \/ tickPc \notin {"wrap", "list"} /\ m_curr_index \in Slots
      \/ tickPc \in {"wrap", "list"} /\ current \in Slots
  BY WheelSize DEF WheelInv, TypeOK, IndexInside, Slots
<1>2. QED
  BY <1>1, WheelSize DEF ToGo, Ahead, Slots

(* A step that moves no task and makes no pass.                            *)
LEMMA DueStill ==
  ASSUME DueInv, UNCHANGED <<m_time_box, remain_list, adding, slot, rotation,
                             fate, age, alone>>,
         slot \in Slots, ownerPc' = "pushing" => ownerPc = "pushing",
         \A s \in Slots : ToGo(s)' = ToGo(s),
         tickPc' \in {"wrap", "list", "insert"} =>
           tickPc \in {"wrap", "list", "insert"}
  PROVE  ListsOnTime' /\ PushOnTime' /\ FiredOnTime' /\ Present'
<1>1. ListsOnTime'
  BY DEF DueInv, ListsOnTime
<1>2. PushOnTime'
  BY DEF DueInv, PushOnTime
<1>3. FiredOnTime'
  BY DEF DueInv, FiredOnTime
<1>4. Present'
  BY DEF DueInv, Present
<1>5. QED  BY <1>1, <1>2, <1>3, <1>4

(* The same for what does not touch tick() at all.                         *)
LEMMA DueElsewhere ==
  ASSUME WheelInv, DueInv, UNCHANGED tickVars, UNCHANGED wheelVars \/
           UNCHANGED <<m_time_box, m_curr_index>>,
         UNCHANGED <<adding, slot, rotation, ghostVars>>,
         ownerPc' = "pushing" => ownerPc = "pushing"
  PROVE  DueInv'
<1>1. UNCHANGED <<tickPc, current, remain_list, m_time_box, m_curr_index,
                  adding, slot, rotation, fate, age, alone>>
  BY DEF tickVars, wheelVars, ghostVars
<1>2. \A s \in Slots : ToGo(s)' = ToGo(s)
  BY <1>1 DEF ToGo
<1>3. slot \in Slots
  BY DEF WheelInv, TypeOK
<1>4. IndexSteps'
  BY <1>1 DEF DueInv, IndexSteps
<1>5. ListsOnTime' /\ PushOnTime' /\ FiredOnTime' /\ Present'
  BY <1>1, <1>2, <1>3, DueStill
<1>6. QED  BY <1>4, <1>5 DEF DueInv

-----------------------------------------------------------------------------
(* The steps of addTask().                                                 *)

(* The slot of the next pass, while m_curr_index is in between as well.    *)
NextSlot == IF tickPc \in {"wrap", "list", "insert"} THEN Following(current)
                                                     ELSE m_curr_index

LEMMA NextSlotIs ==
  ASSUME WheelInv, IndexSteps
  PROVE  /\ NextSlot \in Slots
         /\ NextSlot = m_curr_index \/ (NextSlot = 0 /\ m_curr_index = SIZE)
         /\ tickPc \notin {"wrap", "list"} => NextSlot = m_curr_index
<1>1. current \in Slots /\ Following(current) \in Slots
  BY AheadSteps DEF WheelInv, TypeOK
<1>2. CASE tickPc = "wrap"
  <2>1. m_curr_index = current + 1 /\ NextSlot = Following(current)
    BY <1>2 DEF IndexSteps, NextSlot
  <2>2. QED  BY <1>1, <1>2, <2>1, AheadSteps
<1>3. CASE tickPc \in {"list", "insert"}
  <2>1. m_curr_index = Following(current) /\ NextSlot = Following(current)
    BY <1>3 DEF IndexSteps, NextSlot
  <2>2. QED  BY <1>1, <1>3, <2>1
<1>4. CASE tickPc \notin {"wrap", "list", "insert"}
  <2>1. NextSlot = m_curr_index
    BY <1>4 DEF NextSlot
  <2>2. m_curr_index \in Slots
    BY <1>4, WheelSize DEF WheelInv, TypeOK, IndexInside, Slots
  <2>3. QED  BY <2>1, <2>2
<1>5. QED  BY <1>2, <1>3, <1>4

LEMMA AddTaskDue ==
  ASSUME WheelInv, DueInv, NEW x \in Tasks, AddTask(x)
  PROVE  DueInv'
<1>1. /\ SlotOf(x) \in Slots /\ slot' = SlotOf(x) /\ rotation' = RotationOf(x)
      /\ adding' = x /\ ownerPc' = "pushing" /\ fate[x] = "new"
      /\ fate' = [fate EXCEPT ![x] = "adding"]
      /\ alone' = [alone EXCEPT ![x] = Asleep]
      /\ UNCHANGED <<m_time_box, m_curr_index, tickPc, current, remain_list, age>>
  BY DEF AddTask, wheelVars, tickVars
<1>2. age[x] = 0 /\ Units(x) \in Nat
  BY <1>1, SlotOfTask, WheelSize DEF DueInv, FiredOnTime, WheelInv, TypeOK
<1>3. \A s \in Slots : ToGo(s)' = ToGo(s)
  BY <1>1 DEF ToGo
<1>4. IndexSteps'
  BY <1>1 DEF DueInv, IndexSteps
<1>5. ASSUME NEW e, NEW n, OnTime(e, n, fate, age, alone)
      PROVE  OnTime(e, n, fate', age', alone')
  <2>1. e.func # x
    BY <1>1, <1>5 DEF OnTime
  <2>2. fate'[e.func] = fate[e.func] /\ age' = age /\ alone'[e.func] = alone[e.func]
    BY <1>1, <2>1 DEF WheelInv, TypeOK
  <2>3. QED  BY <1>5, <2>2 DEF OnTime
<1>6. ListsOnTime'
  BY <1>1, <1>3, <1>5 DEF DueInv, ListsOnTime
<1>7. \A y \in Tasks : y # x => fate'[y] = fate[y] /\ alone'[y] = alone[y]
  BY <1>1 DEF WheelInv, TypeOK
<1>8. fate'[x] = "adding" /\ alone'[x] = Asleep
  BY <1>1 DEF WheelInv, TypeOK
<1>9. FiredOnTime'
  BY <1>1, <1>7, <1>8 DEF DueInv, FiredOnTime
<1>10. Present'
  BY <1>1, <1>7, <1>8 DEF DueInv, Present
<1>11. Target(x, ToGo(SlotOf(x)) + Turns(RotationOf(x)), Asleep)
  <2>1. /\ NextSlot \in Slots /\ current \in Slots /\ m_curr_index \in 0..SIZE
        /\ NextSlot = m_curr_index \/ (NextSlot = 0 /\ m_curr_index = SIZE)
        /\ tickPc \notin {"wrap", "list"} => NextSlot = m_curr_index
    BY NextSlotIs DEF DueInv, WheelInv, TypeOK
  <2>2. PICK a \in 0..SIZE-1, t \in Nat :
          /\ a = Ahead(SlotOf(x), NextSlot) /\ t = Turns(RotationOf(x))
          /\ Units(x) = a + t
          /\ Units(x) % SIZE = a
    BY <1>1, <2>1, SlotAndRotation, TurnsNext, AheadSteps
  <2>3. Due(x) = a + t + 1
    BY <2>2 DEF Due
  <2>4. CASE tickPc \in {"wrap", "list"}
    <3>1. /\ ToGo(SlotOf(x)) = Ahead(SlotOf(x), current)
          /\ ~Asleep /\ NextSlot = Following(current)
      BY <2>4 DEF ToGo, Asleep, NextSlot
    <3>2. CASE SlotOf(x) # current
      <4>1. ToGo(SlotOf(x)) = a + 1
        BY <1>1, <2>1, <2>2, <3>1, <3>2, AheadSteps
      <4>2. ToGo(SlotOf(x)) + t = Due(x)
        BY <2>3, <4>1
      <4>3. QED  BY <2>2, <4>2 DEF Target
    <3>3. CASE SlotOf(x) = current
      <4>1. ToGo(SlotOf(x)) = 0 /\ a = SIZE - 1
        BY <2>1, <2>2, <3>1, <3>3, AheadSteps
      <4>2. ToGo(SlotOf(x)) + t = Due(x) - SIZE
        BY <2>3, <4>1, WheelSize
      <4>3. QED  BY <2>2, <3>1, <4>1, <4>2 DEF Target
    <3>4. QED  BY <3>2, <3>3
  <2>5. CASE tickPc \notin {"wrap", "list"}
    <3>1. ToGo(SlotOf(x)) = a + 1
      BY <2>1, <2>2, <2>5 DEF ToGo
    <3>2. ToGo(SlotOf(x)) + t = Due(x)
      BY <2>3, <3>1
    <3>3. QED  BY <2>2, <3>2 DEF Target
  <2>6. QED  BY <2>4, <2>5
<1>12. PushOnTime'
  <2>1. age' [x] = 0 /\ (alone'[x] /\ age'[x] = 0 <=> Asleep)
    BY <1>1, <1>2, <1>8
  <2>2. ToGo(slot)' = ToGo(SlotOf(x)) /\ Turns(rotation)' = Turns(RotationOf(x))
    BY <1>1 DEF ToGo, Turns
  <2>3. ToGo(SlotOf(x)) + Turns(RotationOf(x)) \in Nat
    <3>1. RotationOf(x) \in Nat
      BY SlotOfTask, WheelSize DEF WheelInv, TypeOK
    <3>2. QED  BY <1>1, <3>1, ToGoType, TurnsNext
  <2>4. Target(x, 0 + (ToGo(SlotOf(x)) + Turns(RotationOf(x))), Asleep)
    BY <1>11, <2>3
  <2>5. Asleep => tickPc' \notin {"wrap", "list", "insert"}
    BY <1>1 DEF Asleep
  <2>6. Target(x, age'[x] + (ToGo(slot)' + Turns(rotation)'),
               alone'[x] /\ age'[x] = 0)
    BY <2>1, <2>2, <2>4 DEF Target
  <2>7. QED  BY <1>1, <1>8, <2>1, <2>5, <2>6 DEF PushOnTime
<1>13. QED  BY <1>4, <1>6, <1>9, <1>10, <1>12 DEF DueInv

LEMMA PushBackDue ==
  ASSUME WheelInv, DueInv, PushBack
  PROVE  DueInv'
<1>. DEFINE e0 == [func |-> adding, m_rotation |-> rotation]
<1>1. /\ adding \in Tasks /\ slot \in Slots /\ rotation \in Nat
      /\ m_time_box \in [Slots -> Seq(TimeTask)]
      /\ fate \in [Tasks -> {"new", "adding", "added", "handed", "omitted"}]
      /\ alone \in [Tasks -> BOOLEAN]
  BY DEF PushBack, WheelInv, TypeOK, AddingOne
<1>2. /\ m_time_box' = [m_time_box EXCEPT ![slot] = Append(@, e0)]
      /\ ownerPc = "pushing" /\ ownerPc' = "idle"
      /\ fate' = [fate EXCEPT ![adding] = "added"]
      /\ alone' = [alone EXCEPT ![adding] = @ /\ age[adding] = 0]
      /\ UNCHANGED <<m_curr_index, tickPc, current, remain_list, age>>
  BY DEF PushBack, tickVars
<1>3. \A s \in Slots : ToGo(s)' = ToGo(s)
  BY <1>2 DEF ToGo
<1>4. /\ fate[adding] = "adding"
      /\ Target(adding, age[adding] + (ToGo(slot) + Turns(rotation)),
                alone[adding] /\ age[adding] = 0)
  BY <1>2 DEF DueInv, PushOnTime
<1>5. /\ fate'[adding] = "added"
      /\ alone'[adding] <=> alone[adding] /\ age[adding] = 0
      /\ \A y \in Tasks : y # adding => fate'[y] = fate[y] /\ alone'[y] = alone[y]
  BY <1>1, <1>2
<1>6. ASSUME NEW e \in TimeTask, NEW n, OnTime(e, n, fate, age, alone)
      PROVE  OnTime(e, n, fate', age', alone')
  <2>1. e.func # adding /\ e.func \in Tasks
    BY <1>4, <1>6, ElemsType DEF OnTime
  <2>2. QED  BY <1>2, <1>5, <1>6, <2>1 DEF OnTime
<1>7. e0 \in TimeTask /\ e0.func = adding /\ e0.m_rotation = rotation
  BY <1>1 DEF TimeTask
<1>8. OnTime(e0, ToGo(slot) + Turns(rotation), fate', age', alone')
  <2>1. Target(adding, age'[adding] + (ToGo(slot) + Turns(rotation)), alone'[adding])
    BY <1>2, <1>4, <1>5 DEF Target
  <2>2. QED  BY <1>5, <1>7, <2>1 DEF OnTime
<1>. HIDE DEF e0
<1>9. /\ Elems(m_time_box'[slot]) = Elems(m_time_box[slot]) \cup {e0}
      /\ \A s \in Slots : s # slot => m_time_box'[s] = m_time_box[s]
      /\ \A s \in Slots : Elems(m_time_box[s]) \subseteq TimeTask
  BY <1>1, <1>2, <1>7, ElemsAppend, ElemsType
<1>10. Elems(remain_list) \subseteq TimeTask
  BY ElemsType DEF WheelInv, TypeOK
<1>11. ListsOnTime'
  <2>1. ASSUME NEW s \in Slots, NEW e \in Elems(m_time_box'[s])
        PROVE  OnTime(e, ToGo(s) + Turns(e.m_rotation), fate', age', alone')
    <3>1. CASE e \in Elems(m_time_box[s])
      BY <1>6, <1>9, <3>1 DEF DueInv, ListsOnTime
    <3>2. CASE s = slot /\ e = e0
      BY <1>7, <1>8, <3>2
    <3>3. QED  BY <1>9, <2>1, <3>1, <3>2
  <2>2. ASSUME NEW e \in Elems(remain_list)
        PROVE  OnTime(e, SIZE + Turns(e.m_rotation), fate', age', alone')
    BY <1>6, <1>10 DEF DueInv, ListsOnTime
  <2>3. QED  BY <1>2, <1>3, <2>1, <2>2 DEF ListsOnTime
<1>12. PushOnTime'
  BY <1>2 DEF PushOnTime
<1>13. FiredOnTime'
  BY <1>2, <1>5 DEF DueInv, FiredOnTime
<1>14. Present'
  <2>1. SUFFICES ASSUME NEW y \in Tasks, fate'[y] = "added"
                 PROVE  InTheWheel(y, m_time_box', remain_list')
    BY DEF Present
  <2>2. CASE y = adding
    BY <1>1, <1>7, <1>9, <2>2 DEF InTheWheel
  <2>3. CASE y # adding
    <3>1. InTheWheel(y, m_time_box, remain_list)
      BY <1>5, <2>1, <2>3 DEF DueInv, Present
    <3>2. QED  BY <1>2, <1>9, <3>1 DEF InTheWheel
  <2>4. QED  BY <2>2, <2>3
<1>15. IndexSteps'
  BY <1>2 DEF DueInv, IndexSteps
<1>16. QED  BY <1>11, <1>12, <1>13, <1>14, <1>15 DEF DueInv

LEMMA OwnerDue == WheelInv /\ DueInv /\ Owner => DueInv'
<1>. SUFFICES ASSUME WheelInv, DueInv, Owner PROVE DueInv'
  OBVIOUS
<1>1. CASE \E x \in Tasks : AddTask(x)  BY <1>1, AddTaskDue
<1>2. CASE PushBack  BY <1>2, PushBackDue
<1>3. CASE StartTick
  <2>1. /\ tickPc = "off" /\ tickPc' = "test"
        /\ UNCHANGED <<m_time_box, m_curr_index, remain_list, ownerPc, adding,
                       slot, rotation, fate, age, alone>>
    BY <1>3 DEF StartTick, wheelVars, ownerVars, ghostVars
  <2>2. (\A s \in Slots : ToGo(s)' = ToGo(s)) /\ slot \in Slots
    BY <2>1 DEF ToGo, WheelInv, TypeOK
  <2>3. IndexSteps'
    BY <2>1 DEF DueInv, IndexSteps
  <2>4. QED  BY <2>1, <2>2, <2>3, DueStill DEF DueInv
<1>4. CASE \/ StartTickAgain \/ Close \/ CloseNotStarted \/ JoinTick
           \/ PoolStopped \/ \E x \in Tasks : AddTaskOutOfRange(x)
  <2>1. /\ UNCHANGED tickVars /\ UNCHANGED <<m_time_box, m_curr_index>>
        /\ UNCHANGED <<adding, slot, rotation, ghostVars>>
        /\ ownerPc' = "pushing" => ownerPc = "pushing"
    BY <1>4 DEF StartTickAgain, Close, CloseNotStarted, JoinTick, PoolStopped,
      AddTaskOutOfRange, Crash, wheelVars, ownerVars
  <2>2. QED  BY <2>1, DueElsewhere
<1>5. QED  BY <1>1, <1>2, <1>3, <1>4 DEF Owner

-----------------------------------------------------------------------------
(* The steps of tick().                                                    *)

(* The beginning of a pass: all tasks get older, and all come nearer.      *)
LEMMA BumpDue ==
  ASSUME WheelInv, DueInv, Bump
  PROVE  DueInv'
<1>1. /\ tickPc = "bump" /\ tickPc' = "wrap" /\ m_curr_index' = m_curr_index + 1
      /\ age' = [x \in Tasks |-> IF fate[x] \in {"adding", "added"}
                                 THEN age[x] + 1 ELSE age[x]]
      /\ UNCHANGED <<m_time_box, current, remain_list, ownerPc, adding, slot,
                     rotation, fate, alone>>
  BY DEF Bump, ownerVars
<1>2. current = m_curr_index /\ remain_list = <<>>
  BY <1>1 DEF DueInv, IndexSteps
<1>3. ASSUME NEW s \in Slots
      PROVE  ToGo(s) \in Nat /\ ToGo(s)' \in Nat /\ ToGo(s) = ToGo(s)' + 1
  <2>1. ToGo(s) = Ahead(s, current) + 1 /\ ToGo(s)' = Ahead(s, current)
    BY <1>1, <1>2 DEF ToGo
  <2>2. Ahead(s, current) \in 0..SIZE-1
    BY AheadSteps DEF WheelInv, TypeOK
  <2>3. QED  BY <2>1, <2>2, WheelSize
<1>4. \A x \in Tasks : age[x] \in Nat
  BY DEF WheelInv, TypeOK
<1>5. ListsOnTime'
  <2>1. ASSUME NEW s \in Slots, NEW e \in Elems(m_time_box[s])
        PROVE  OnTime(e, ToGo(s)' + Turns(e.m_rotation), fate, age', alone)
    <3>1. OnTime(e, ToGo(s) + Turns(e.m_rotation), fate, age, alone)
      BY DEF DueInv, ListsOnTime
    <3>2. e.func \in Tasks /\ Turns(e.m_rotation) \in Nat
      BY ElemsType, TurnsNext DEF WheelInv, TypeOK
    <3>3. SUFFICES ASSUME fate[e.func] = "added"
                   PROVE  Target(e.func, age'[e.func] + (ToGo(s)' + Turns(e.m_rotation)),
                                 alone[e.func])
      BY <3>1 DEF OnTime
    <3>4. age'[e.func] + (ToGo(s)' + Turns(e.m_rotation))
            = age[e.func] + (ToGo(s) + Turns(e.m_rotation))
      BY <1>1, <1>3, <1>4, <3>2, <3>3
    <3>5. QED  BY <3>1, <3>3, <3>4 DEF OnTime
  <2>2. Elems(remain_list) = {}
    BY <1>2, ElemsType
  <2>3. QED  BY <1>1, <2>1, <2>2 DEF ListsOnTime
<1>6. PushOnTime'
  <2>1. SUFFICES ASSUME ownerPc = "pushing"
                 PROVE  /\ fate[adding] = "adding"
                        /\ Target(adding, age'[adding] + (ToGo(slot)' + Turns(rotation)),
                                  alone[adding] /\ age'[adding] = 0)
                        /\ ~(age'[adding] = 0)
    BY <1>1 DEF PushOnTime
  <2>2. /\ fate[adding] = "adding"
        /\ Target(adding, age[adding] + (ToGo(slot) + Turns(rotation)),
                  alone[adding] /\ age[adding] = 0)
    BY <2>1 DEF DueInv, PushOnTime
  <2>3. /\ adding \in Tasks /\ slot \in Slots /\ Turns(rotation) \in Nat
    BY <2>1, TurnsNext DEF WheelInv, TypeOK, AddingOne
  <2>4. age'[adding] = age[adding] + 1
    BY <1>1, <2>2, <2>3
  <2>5. age'[adding] + (ToGo(slot)' + Turns(rotation))
          = age[adding] + (ToGo(slot) + Turns(rotation))
    <3>1. ToGo(slot) = Ahead(slot, current) + 1 /\ ToGo(slot)' = Ahead(slot, current)
      BY <1>1, <1>2 DEF ToGo
    <3>2. Ahead(slot, current) \in 0..SIZE-1
      BY <2>3, AheadSteps DEF WheelInv, TypeOK
    <3>3. age[adding] \in Nat
      BY <1>4, <2>3
    <3>4. QED  BY <2>3, <2>4, <3>1, <3>2, <3>3, WheelSize
  <2>6. ~(age'[adding] = 0)
    BY <1>4, <2>3, <2>4
  <2>7. QED  BY <2>2, <2>5, <2>6 DEF Target
<1>7. FiredOnTime'
  BY <1>1 DEF DueInv, FiredOnTime
<1>8. Present'
  BY <1>1 DEF DueInv, Present
<1>9. IndexSteps'
  BY <1>1, <1>2 DEF IndexSteps
<1>10. QED  BY <1>5, <1>6, <1>7, <1>8, <1>9 DEF DueInv

(* checkCanRun() of the front: it is the last pass of what it hands over.  *)
LEMMA FireFrontDue ==
  ASSUME WheelInv, DueInv, FireFront
  PROVE  DueInv'
<1>. DEFINE e0 == Head(List)
            x0 == e0.func
<1>1. /\ List = m_time_box[current] /\ List \in Seq(TimeTask) /\ List # <<>>
      /\ current \in Slots /\ m_time_box \in [Slots -> Seq(TimeTask)]
      /\ fate \in [Tasks -> {"new", "adding", "added", "handed", "omitted"}]
  BY DEF FireFront, List, WheelInv, TypeOK
<1>2. /\ e0 \in TimeTask /\ e0 \in Elems(List)
      /\ Elems(List) = {e0} \cup Elems(Tail(List)) /\ Tail(List) \in Seq(TimeTask)
  BY <1>1, ElemsTail
<1>3. x0 \in Tasks
  BY <1>2, ElemsType
<1>4. /\ tickPc = "list" /\ e0.m_rotation = 0
      /\ UNCHANGED <<m_curr_index, tickPc, current, remain_list, ownerPc, adding,
                     slot, rotation, age, alone>>
      /\ m_time_box' = [m_time_box EXCEPT ![current] = Tail(List)]
      /\ \E end \in {"handed", "omitted"} : fate' = [fate EXCEPT ![x0] = end]
  BY DEF FireFront, HandOver, PopFront, List, tickVars, ownerVars
<1>. HIDE DEF e0, x0
<1>5. /\ fate'[x0] \in {"handed", "omitted"}
      /\ \A y \in Tasks : y # x0 => fate'[y] = fate[y]
  BY <1>1, <1>3, <1>4
<1>6. \A s \in Slots : ToGo(s)' = ToGo(s)
  BY <1>4 DEF ToGo
<1>7. \A s \in Slots : /\ Elems(m_time_box'[s]) \subseteq Elems(m_time_box[s])
                       /\ \A e \in Elems(m_time_box[s]) :
                             e \in Elems(m_time_box'[s]) \/ e = e0
                       /\ Elems(m_time_box[s]) \subseteq TimeTask
  <2>1. m_time_box'[current] = Tail(List)
    BY <1>1, <1>4
  <2>2. \A s \in Slots : s # current => m_time_box'[s] = m_time_box[s]
    BY <1>1, <1>4
  <2>3. QED  BY <1>1, <1>2, <2>1, <2>2, ElemsType
<1>8. fate[x0] \in {"added", "handed", "omitted"} /\ Target(x0, age[x0], alone[x0])
  <2>1. OnTime(e0, ToGo(current) + Turns(e0.m_rotation), fate, age, alone)
    BY <1>1, <1>2 DEF DueInv, ListsOnTime
  <2>2. ToGo(current) = 0 /\ Turns(0) = 0
    BY <1>1, <1>4, AheadSteps, TurnsNext DEF ToGo
  <2>3. age[x0] \in Nat
    BY <1>3 DEF WheelInv, TypeOK
  <2>4. CASE fate[x0] = "added"
    <3>1. Target(x0, age[x0] + (ToGo(current) + Turns(e0.m_rotation)), alone[x0])
      BY <2>1, <2>4 DEF OnTime, x0
    <3>2. age[x0] + (ToGo(current) + Turns(e0.m_rotation)) = age[x0]
      BY <1>4, <2>2, <2>3
    <3>3. QED  BY <2>4, <3>1, <3>2
  <2>5. CASE fate[x0] \in {"handed", "omitted"}
    BY <1>3, <2>5 DEF DueInv, FiredOnTime
  <2>6. QED  BY <2>1, <2>4, <2>5 DEF OnTime, x0
<1>9. ASSUME NEW e \in TimeTask, NEW n, OnTime(e, n, fate, age, alone)
      PROVE  OnTime(e, n, fate', age', alone')
  BY <1>4, <1>5, <1>9, ElemsType DEF OnTime
<1>10. ListsOnTime'
  <2>1. ASSUME NEW s \in Slots, NEW e \in Elems(m_time_box'[s])
        PROVE  OnTime(e, ToGo(s) + Turns(e.m_rotation), fate', age', alone')
    BY <1>7, <1>9 DEF DueInv, ListsOnTime
  <2>2. ASSUME NEW e \in Elems(remain_list)
        PROVE  OnTime(e, SIZE + Turns(e.m_rotation), fate', age', alone')
    <3>1. e \in TimeTask
      BY ElemsType DEF WheelInv, TypeOK
    <3>2. QED  BY <1>9, <3>1 DEF DueInv, ListsOnTime
  <2>3. QED  BY <1>4, <1>6, <2>1, <2>2 DEF ListsOnTime
<1>11. PushOnTime'
  <2>1. SUFFICES ASSUME ownerPc = "pushing" PROVE PushOnTime'
    BY <1>4 DEF PushOnTime
  <2>2. adding \in Tasks /\ slot \in Slots /\ fate[adding] = "adding"
    BY <2>1 DEF WheelInv, TypeOK, AddingOne, DueInv, PushOnTime
  <2>3. fate'[adding] = fate[adding]
    BY <1>5, <1>8, <2>2
  <2>4. ToGo(slot)' = ToGo(slot)
    BY <1>4 DEF ToGo
  <2>5. QED  BY <1>4, <2>3, <2>4 DEF DueInv, PushOnTime
<1>12. FiredOnTime'
  BY <1>4, <1>5, <1>8 DEF DueInv, FiredOnTime
<1>13. Present'
  <2>1. SUFFICES ASSUME NEW y \in Tasks, fate'[y] = "added"
                 PROVE  InTheWheel(y, m_time_box', remain_list)
    BY <1>4 DEF Present
  <2>2. y # x0 /\ fate[y] = "added"
    BY <1>5, <2>1
  <2>3. InTheWheel(y, m_time_box, remain_list)
    BY <2>2 DEF DueInv, Present
  <2>4. QED  BY <1>7, <2>2, <2>3 DEF InTheWheel, x0
<1>14. IndexSteps'
  BY <1>4 DEF DueInv, IndexSteps
<1>15. QED  BY <1>10, <1>11, <1>12, <1>13, <1>14 DEF DueInv

(* A task that is not due moves to remain_list, a rotation nearer.         *)
LEMMA RotateFrontDue ==
  ASSUME WheelInv, DueInv, RotateFront
  PROVE  DueInv'
<1>. DEFINE e0 == Head(List)
            e1 == [e0 EXCEPT !.m_rotation = @ - 1]
<1>1. /\ List = m_time_box[current] /\ List \in Seq(TimeTask) /\ List # <<>>
      /\ current \in Slots /\ m_time_box \in [Slots -> Seq(TimeTask)]
      /\ remain_list \in Seq(TimeTask)
  BY DEF RotateFront, List, WheelInv, TypeOK
<1>2. /\ e0 \in TimeTask /\ e0 \in Elems(List)
      /\ Elems(List) = {e0} \cup Elems(Tail(List)) /\ Tail(List) \in Seq(TimeTask)
  BY <1>1, ElemsTail
<1>3. /\ tickPc = "list" /\ e0.m_rotation # 0
      /\ UNCHANGED <<m_curr_index, tickPc, current, ownerPc, adding, slot,
                     rotation, fate, age, alone>>
      /\ m_time_box' = [m_time_box EXCEPT ![current] = Tail(List)]
      /\ remain_list' = Append(remain_list, e1)
  BY DEF RotateFront, PopFront, List, ownerVars, ghostVars
<1>4. e1 \in TimeTask /\ e1.func = e0.func /\ e1.m_rotation = e0.m_rotation - 1
  BY <1>2, <1>3, RotateType DEF TimeTask
<1>. HIDE DEF e0, e1
<1>5. \A s \in Slots : ToGo(s)' = ToGo(s)
  BY <1>3 DEF ToGo
<1>6. /\ \A s \in Slots : Elems(m_time_box'[s]) \subseteq Elems(m_time_box[s])
      /\ \A s \in Slots : \A e \in Elems(m_time_box[s]) :
            e \in Elems(m_time_box'[s]) \/ e = e0
      /\ Elems(remain_list') = Elems(remain_list) \cup {e1}
  <2>1. m_time_box'[current] = Tail(List)
    BY <1>1, <1>3
  <2>2. \A s \in Slots : s # current => m_time_box'[s] = m_time_box[s]
    BY <1>1, <1>3
  <2>3. QED  BY <1>1, <1>2, <1>3, <1>4, <2>1, <2>2, ElemsAppend
<1>7. OnTime(e1, SIZE + Turns(e1.m_rotation), fate, age, alone)
  <2>1. OnTime(e0, ToGo(current) + Turns(e0.m_rotation), fate, age, alone)
    BY <1>1, <1>2 DEF DueInv, ListsOnTime
  <2>2. ToGo(current) = 0
    BY <1>1, <1>3, AheadSteps DEF ToGo
  <2>3. PICK r \in Nat : e1.m_rotation = r /\ e0.m_rotation = r + 1
    BY <1>2, <1>4, ElemsType
  <2>4. ToGo(current) + Turns(e0.m_rotation) = SIZE + Turns(e1.m_rotation)
    BY <2>2, <2>3, TurnsNext, WheelSize
  <2>5. QED  BY <1>4, <2>1, <2>4 DEF OnTime
<1>8. ListsOnTime'
  <2>1. ASSUME NEW s \in Slots, NEW e \in Elems(m_time_box'[s])
        PROVE  OnTime(e, ToGo(s) + Turns(e.m_rotation), fate, age, alone)
    BY <1>6 DEF DueInv, ListsOnTime
  <2>2. ASSUME NEW e \in Elems(remain_list')
        PROVE  OnTime(e, SIZE + Turns(e.m_rotation), fate, age, alone)
    BY <1>6, <1>7 DEF DueInv, ListsOnTime
  <2>3. QED  BY <1>3, <1>5, <2>1, <2>2 DEF ListsOnTime
<1>9. PushOnTime'
  <2>1. ToGo(slot)' = ToGo(slot)
    BY <1>3 DEF ToGo
  <2>2. QED  BY <1>3, <2>1 DEF DueInv, PushOnTime
<1>10. FiredOnTime'
  BY <1>3 DEF DueInv, FiredOnTime
<1>11. Present'
  <2>1. SUFFICES ASSUME NEW y \in Tasks, fate[y] = "added"
                 PROVE  InTheWheel(y, m_time_box', remain_list')
    BY <1>3 DEF Present
  <2>2. InTheWheel(y, m_time_box, remain_list)
    BY <2>1 DEF DueInv, Present
  <2>3. QED  BY <1>4, <1>6, <2>2 DEF InTheWheel
<1>12. IndexSteps'
  BY <1>3 DEF DueInv, IndexSteps
<1>13. QED  BY <1>8, <1>9, <1>10, <1>11, <1>12 DEF DueInv

(* The pass is over for the slot: it is now the farthest.  A push that     *)
(* still comes is late by one rotation.                                    *)
LEMMA ListDoneDue ==
  ASSUME WheelInv, DueInv, ListDone
  PROVE  DueInv'
<1>1. /\ tickPc = "list" /\ tickPc' = "insert" /\ m_time_box[current] = <<>>
      /\ current \in Slots /\ m_curr_index = Following(current)
      /\ UNCHANGED <<m_time_box, m_curr_index, current, remain_list, ownerPc,
                     adding, slot, rotation, fate, age, alone>>
  BY DEF ListDone, List, wheelVars, ownerVars, ghostVars, WheelInv, TypeOK,
    DueInv, IndexSteps
<1>2. ASSUME NEW s \in Slots, s # current PROVE ToGo(s)' = ToGo(s)
  <2>1. ToGo(s) = Ahead(s, current) /\ ToGo(s)' = Ahead(s, Following(current)) + 1
    BY <1>1 DEF ToGo
  <2>2. QED  BY <1>1, <1>2, <2>1, AheadSteps
<1>3. ListsOnTime'
  <2>1. ASSUME NEW s \in Slots, NEW e \in Elems(m_time_box[s])
        PROVE  OnTime(e, ToGo(s)' + Turns(e.m_rotation), fate, age, alone)
    <3>1. s # current
      BY <1>1, <2>1, ElemsType
    <3>2. QED  BY <1>2, <3>1 DEF DueInv, ListsOnTime
  <2>2. QED  BY <1>1, <2>1 DEF DueInv, ListsOnTime
<1>4. PushOnTime'
  <2>1. SUFFICES ASSUME ownerPc = "pushing" PROVE PushOnTime'
    BY <1>1 DEF PushOnTime
  <2>2. /\ adding \in Tasks /\ slot \in Slots /\ rotation \in Nat
        /\ age[adding] \in Nat
    BY <2>1 DEF WheelInv, TypeOK, AddingOne
  <2>3. /\ fate[adding] = "adding"
        /\ ~(alone[adding] /\ age[adding] = 0)
        /\ Target(adding, age[adding] + (ToGo(slot) + Turns(rotation)), FALSE)
    BY <1>1, <2>1 DEF DueInv, PushOnTime, Target
  <2>4. Target(adding, age[adding] + (ToGo(slot)' + Turns(rotation)), FALSE)
    <3>1. CASE slot # current
      <4>1. ToGo(slot)' = ToGo(slot)
        <5>1. /\ ToGo(slot) = Ahead(slot, current)
              /\ ToGo(slot)' = Ahead(slot, Following(current)) + 1
          BY <1>1 DEF ToGo
        <5>2. QED  BY <1>1, <2>2, <3>1, <5>1, AheadSteps
      <4>2. QED  BY <2>3, <4>1
    <3>2. CASE slot = current
      <4>1. ToGo(slot) = 0 /\ ToGo(slot)' = SIZE
        <5>1. /\ ToGo(slot) = Ahead(current, current)
              /\ ToGo(slot)' = Ahead(current, Following(current)) + 1
          BY <1>1, <3>2 DEF ToGo
        <5>2. QED  BY <1>1, <5>1, AheadSteps, WheelSize
      <4>2. /\ Turns(rotation) \in Nat /\ Units(adding) \in Nat
            /\ age[adding] + (ToGo(slot) + Turns(rotation)) \in Int
        <5>1. m_curr_index \in Int
          BY WheelSize DEF WheelInv, TypeOK
        <5>2. Units(adding) \in Nat
          BY <2>2, <5>1, SlotOfTask
        <5>3. Turns(rotation) \in Nat
          BY <2>2, TurnsNext
        <5>4. QED  BY <2>2, <4>1, <5>2, <5>3
      <4>3. Target(adding, (age[adding] + (ToGo(slot) + Turns(rotation))) + SIZE, FALSE)
        BY <2>2, <2>3, <4>2, TargetLate
      <4>4. (age[adding] + (ToGo(slot) + Turns(rotation))) + SIZE
              = age[adding] + (ToGo(slot)' + Turns(rotation))
        BY <2>2, <4>1, <4>2, WheelSize
      <4>5. QED  BY <4>3, <4>4
    <3>3. QED  BY <3>1, <3>2
  <2>5. QED  BY <1>1, <2>3, <2>4 DEF PushOnTime, Target
<1>5. FiredOnTime'
  BY <1>1 DEF DueInv, FiredOnTime
<1>6. Present'
  BY <1>1 DEF DueInv, Present
<1>7. IndexSteps'
  BY <1>1 DEF DueInv, IndexSteps
<1>8. QED  BY <1>3, <1>4, <1>5, <1>6, <1>7 DEF DueInv

(* What is left goes back into the slot, which is a whole rotation away.   *)
LEMMA InsertRemainDue ==
  ASSUME WheelInv, DueInv, InsertRemain
  PROVE  DueInv'
<1>1. /\ tickPc = "insert" /\ tickPc' = "sleep" /\ remain_list' = <<>>
      /\ m_time_box' = [m_time_box EXCEPT ![current] = @ \o remain_list]
      /\ current \in Slots /\ m_curr_index = Following(current)
      /\ UNCHANGED <<m_curr_index, current, ownerPc, adding, slot, rotation,
                     fate, age, alone>>
  BY DEF InsertRemain, ownerVars, ghostVars, WheelInv, TypeOK, DueInv, IndexSteps
<1>2. /\ m_time_box \in [Slots -> Seq(TimeTask)] /\ remain_list \in Seq(TimeTask)
  BY DEF WheelInv, TypeOK
<1>3. \A s \in Slots : ToGo(s)' = ToGo(s)
  BY <1>1 DEF ToGo
<1>4. ToGo(current) = SIZE
  <2>1. ToGo(current) = Ahead(current, Following(current)) + 1
    BY <1>1 DEF ToGo
  <2>2. QED  BY <1>1, <2>1, AheadSteps, WheelSize
<1>5. /\ Elems(m_time_box'[current]) = Elems(m_time_box[current]) \cup Elems(remain_list)
      /\ \A s \in Slots : s # current => m_time_box'[s] = m_time_box[s]
      /\ Elems(<<>>) = {}
  BY <1>1, <1>2, ElemsConcat, ElemsType
<1>6. ListsOnTime'
  <2>1. ASSUME NEW s \in Slots, NEW e \in Elems(m_time_box'[s])
        PROVE  OnTime(e, ToGo(s) + Turns(e.m_rotation), fate, age, alone)
    <3>1. CASE e \in Elems(m_time_box[s])
      BY <3>1 DEF DueInv, ListsOnTime
    <3>2. CASE s = current /\ e \in Elems(remain_list)
      BY <1>4, <3>2 DEF DueInv, ListsOnTime
    <3>3. QED  BY <1>5, <2>1, <3>1, <3>2
  <2>2. QED  BY <1>1, <1>3, <1>5, <2>1 DEF ListsOnTime
<1>7. PushOnTime'
  <2>1. ToGo(slot)' = ToGo(slot)
    BY <1>1 DEF ToGo
  <2>2. QED  BY <1>1, <2>1 DEF DueInv, PushOnTime
<1>8. FiredOnTime'
  BY <1>1 DEF DueInv, FiredOnTime
<1>9. Present'
  <2>1. SUFFICES ASSUME NEW y \in Tasks, fate[y] = "added"
                 PROVE  InTheWheel(y, m_time_box', remain_list')
    BY <1>1 DEF Present
  <2>2. InTheWheel(y, m_time_box, remain_list)
    BY <2>1 DEF DueInv, Present
  <2>3. \A s \in Slots : Elems(m_time_box[s]) \subseteq Elems(m_time_box'[s])
    BY <1>5
  <2>4. QED  BY <1>1, <1>5, <2>2, <2>3 DEF InTheWheel
<1>10. IndexSteps'
  BY <1>1 DEF IndexSteps
<1>11. QED  BY <1>6, <1>7, <1>8, <1>9, <1>10 DEF DueInv

LEMMA TickDue == WheelInv /\ DueInv /\ Tick => DueInv'
<1>. SUFFICES ASSUME WheelInv, DueInv, Tick PROVE DueInv'
  OBVIOUS
<1>0. slot \in Slots
  BY DEF WheelInv, TypeOK
<1>1. CASE TestClose
  <2>1. /\ tickPc = "test" /\ tickPc' \in {"bump", "over"}
        /\ tickPc' = "bump" => current' = m_curr_index
        /\ UNCHANGED <<m_time_box, m_curr_index, remain_list, ownerPc, adding,
                       slot, rotation, fate, age, alone>>
    BY <1>1 DEF TestClose, wheelVars, ownerVars, ghostVars
  <2>2. \A s \in Slots : ToGo(s)' = ToGo(s)
    BY <2>1 DEF ToGo
  <2>3. IndexSteps'
    BY <2>1 DEF DueInv, IndexSteps
  <2>4. QED  BY <1>0, <2>1, <2>2, <2>3, DueStill DEF DueInv
<1>2. CASE Bump  BY <1>2, BumpDue
<1>3. CASE Wrap
  <2>1. /\ tickPc = "wrap" /\ tickPc' = "list"
        /\ m_curr_index' = IF m_curr_index >= SIZE THEN 0 ELSE m_curr_index
        /\ UNCHANGED <<m_time_box, current, remain_list, ownerPc, adding, slot,
                       rotation, fate, age, alone>>
    BY <1>3 DEF Wrap, ownerVars, ghostVars
  <2>2. \A s \in Slots : ToGo(s)' = ToGo(s)
    BY <2>1 DEF ToGo
  <2>3. IndexSteps'
    BY <2>1 DEF DueInv, IndexSteps, Following
  <2>4. QED  BY <1>0, <2>1, <2>2, <2>3, DueStill DEF DueInv
<1>4. CASE FireFront  BY <1>4, FireFrontDue
<1>5. CASE RotateFront  BY <1>5, RotateFrontDue
<1>6. CASE ListDone  BY <1>6, ListDoneDue
<1>7. CASE InsertRemain  BY <1>7, InsertRemainDue
<1>8. CASE Wake
  <2>1. /\ tickPc = "sleep" /\ tickPc' = "test"
        /\ UNCHANGED <<m_time_box, m_curr_index, current, remain_list, ownerPc,
                       adding, slot, rotation, fate, age, alone>>
    BY <1>8 DEF Wake, wheelVars, ownerVars, ghostVars
  <2>2. \A s \in Slots : ToGo(s)' = ToGo(s)
    BY <2>1 DEF ToGo
  <2>3. IndexSteps'
    BY <2>1 DEF DueInv, IndexSteps
  <2>4. QED  BY <1>0, <2>1, <2>2, <2>3, DueStill DEF DueInv
<1>9. QED
  BY <1>1, <1>2, <1>3, <1>4, <1>5, <1>6, <1>7, <1>8 DEF Tick

LEMMA DueNext == WheelInv /\ DueInv /\ [Next]_vars => DueInv'
<1>. SUFFICES ASSUME WheelInv, DueInv, [Next]_vars PROVE DueInv'
  OBVIOUS
<1>1. CASE ListRace \/ ExecutePool \/ UNCHANGED vars
  <2>1. /\ UNCHANGED tickVars /\ UNCHANGED wheelVars
        /\ UNCHANGED <<ownerPc, adding, slot, rotation, ghostVars>>
    BY <1>1 DEF ListRace, Crash, ExecutePool, vars, ownerVars
  <2>2. QED  BY <2>1, DueElsewhere
<1>2. QED  BY <1>1, OwnerDue, TickDue DEF Next, Finished

-----------------------------------------------------------------------------
LEMMA DueAlways == Spec => [](WheelInv /\ DueInv)
<1>1. Init => WheelInv /\ DueInv  BY WheelInit, DueInit
<1>2. QED  BY <1>1, WheelNext, DueNext, PTL DEF Spec

(* A task added while tick() sleeps fires in exactly the pass its delay    *)
(* asks for, for any size of the wheel, any delay and any number of tasks. *)
THEOREM Punctual == Spec => []PunctualIfAlone
<1>1. DueInv => PunctualIfAlone
  BY DEF DueInv, FiredOnTime, Target, PunctualIfAlone
<1>2. QED  BY <1>1, DueAlways, PTL

(* Whatever tick() does while addTask() runs, the task is off by whole     *)
(* rotations: one too early only if its slot is the one tick() is at.      *)
THEOREM WholeRotations == Spec => []OffByWholeRotations
<1>1. DueInv => OffByWholeRotations
  BY DEF DueInv, FiredOnTime, Target, OffByWholeRotations
<1>2. QED  BY <1>1, DueAlways, PTL

(* A task added while tick() sleeps is never past its pass and still in    *)
(* the wheel, whatever else is moved from list to list.                    *)
THEOREM NeverForgotten == Spec => []NoneForgotten
<1>1. ASSUME WheelInv, DueInv, NEW x \in Tasks, alone[x], fate[x] = "added"
      PROVE  age[x] <= Due(x)
  <2>1. InTheWheel(x, m_time_box, remain_list)
    BY <1>1 DEF DueInv, Present
  <2>2. PICK n \in Nat : Target(x, age[x] + n, alone[x])
    <3>1. ASSUME NEW s \in Slots, NEW e \in Elems(m_time_box[s]), e.func = x
          PROVE  \E n \in Nat : Target(x, age[x] + n, alone[x])
      <4>1. ToGo(s) + Turns(e.m_rotation) \in Nat
        <5>1. e.m_rotation \in Nat
          BY <1>1, ElemsType DEF WheelInv, TypeOK
        <5>2. ToGo(s) \in Nat /\ Turns(e.m_rotation) \in Nat
          BY <1>1, <5>1, ToGoType, TurnsNext
        <5>3. QED  BY <5>2
      <4>2. Target(x, age[x] + (ToGo(s) + Turns(e.m_rotation)), alone[x])
        BY <1>1, <3>1 DEF DueInv, ListsOnTime, OnTime
      <4>3. QED  BY <4>1, <4>2
    <3>2. ASSUME NEW e \in Elems(remain_list), e.func = x
          PROVE  \E n \in Nat : Target(x, age[x] + n, alone[x])
      <4>1. SIZE + Turns(e.m_rotation) \in Nat
        <5>1. e.m_rotation \in Nat
          BY <1>1, ElemsType DEF WheelInv, TypeOK
        <5>2. Turns(e.m_rotation) \in Nat
          BY <5>1, TurnsNext
        <5>3. QED  BY <5>2, WheelSize
      <4>2. Target(x, age[x] + (SIZE + Turns(e.m_rotation)), alone[x])
        BY <1>1, <3>2 DEF DueInv, ListsOnTime, OnTime
      <4>3. QED  BY <4>1, <4>2
    <3>3. QED  BY <2>1, <3>1, <3>2 DEF InTheWheel
  <2>3. age[x] \in Nat /\ age[x] + n = Due(x)
    BY <1>1, <2>2 DEF Target, WheelInv, TypeOK
  <2>4. QED  BY <2>2, <2>3
<1>2. WheelInv /\ DueInv => NoneForgotten
  BY <1>1 DEF NoneForgotten
<1>3. QED  BY <1>2, DueAlways, PTL

-----------------------------------------------------------------------------
(***************************************************************************)
(* The wheel uses its pool as an executor: a task that is in the wheel is  *)
(* there once and has not been handed over, and the pool holds only tasks  *)
(* that were.  So execute() is never called with a task it knows, and the  *)
(* steps of the wheel are steps of TaskExecutor.                           *)
(***************************************************************************)

OnceIn(q) == \A i, j \in 1..Len(q) : q[i].func = q[j].func => i = j

Apart(q, r) == \A d \in Elems(q) : \A e \in Elems(r) : d.func # e.func

AllAdded(q, fates) == \A e \in Elems(q) : fates[e.func] = "added"

EachOnce ==
  /\ \A s \in Slots : /\ OnceIn(m_time_box[s]) /\ AllAdded(m_time_box[s], fate)
                      /\ Apart(m_time_box[s], remain_list)
  /\ \A s, t \in Slots : s # t => Apart(m_time_box[s], m_time_box[t])
  /\ OnceIn(remain_list) /\ AllAdded(remain_list, fate)

InPool(x) ==
  \/ x \in done
  \/ \E i \in 1..Len(waiting) : waiting[i] = x
  \/ \E w \in Workers : running[w] = x

PoolHanded == \A x \in Tasks : InPool(x) => fate[x] = "handed"

LEMMA OnceTail ==
  ASSUME NEW q \in Seq(TimeTask), q # <<>>, OnceIn(q)
  PROVE  /\ OnceIn(Tail(q))
         /\ \A e \in Elems(Tail(q)) : e.func # Head(q).func
<1>1. /\ Len(Tail(q)) = Len(q) - 1 /\ Len(q) \in Nat \ {0} /\ Head(q) = q[1]
      /\ \A i \in 1..Len(q) - 1 : Tail(q)[i] = q[i + 1]
  OBVIOUS
<1>2. \A i \in 1..Len(Tail(q)) : i + 1 \in 1..Len(q) /\ i + 1 # 1 /\ Tail(q)[i] = q[i + 1]
  BY <1>1
<1>3. OnceIn(Tail(q))
  <2>1. ASSUME NEW i \in 1..Len(Tail(q)), NEW j \in 1..Len(Tail(q)),
               Tail(q)[i].func = Tail(q)[j].func
        PROVE  i = j
    <3>1. i + 1 = j + 1
      BY <1>2, <2>1 DEF OnceIn
    <3>2. QED  BY <3>1
  <2>2. QED  BY <2>1 DEF OnceIn
<1>4. ASSUME NEW e \in Elems(Tail(q)) PROVE e.func # Head(q).func
  <2>1. PICK i \in 1..Len(Tail(q)) : e = Tail(q)[i]
    BY DEF Elems
  <2>2. 1 \in 1..Len(q)
    BY <1>1
  <2>3. QED  BY <1>1, <1>2, <2>1, <2>2 DEF OnceIn
<1>5. QED  BY <1>3, <1>4

LEMMA OnceConcat ==
  ASSUME NEW q \in Seq(TimeTask), NEW r \in Seq(TimeTask),
         OnceIn(q), OnceIn(r), Apart(q, r)
  PROVE  OnceIn(q \o r)
<1>1. /\ Len(q \o r) = Len(q) + Len(r) /\ Len(q) \in Nat /\ Len(r) \in Nat
      /\ \A i \in 1..Len(q) + Len(r) :
           (q \o r)[i] = IF i <= Len(q) THEN q[i] ELSE r[i - Len(q)]
  OBVIOUS
<1>2. \A i \in 1..Len(q) : q[i] \in Elems(q)
  BY DEF Elems
<1>3. \A i \in 1..Len(r) : r[i] \in Elems(r)
  BY DEF Elems
<1>4. ASSUME NEW i \in 1..Len(q) + Len(r), NEW j \in 1..Len(q) + Len(r),
             (q \o r)[i].func = (q \o r)[j].func
      PROVE  i = j
  <2>1. CASE i <= Len(q) /\ j <= Len(q)
    <3>1. i \in 1..Len(q) /\ j \in 1..Len(q) /\ q[i].func = q[j].func
      BY <1>1, <1>4, <2>1
    <3>2. QED  BY <3>1 DEF OnceIn
  <2>2. CASE i > Len(q) /\ j > Len(q)
    <3>1. i - Len(q) \in 1..Len(r) /\ j - Len(q) \in 1..Len(r)
      BY <1>1, <2>2
    <3>2. (q \o r)[i] = r[i - Len(q)] /\ (q \o r)[j] = r[j - Len(q)]
      BY <1>1, <2>2
    <3>3. i - Len(q) = j - Len(q)
      BY <1>4, <3>1, <3>2 DEF OnceIn
    <3>4. QED  BY <3>3, <1>1
  <2>3. CASE i <= Len(q) /\ j > Len(q)
    <3>1. i \in 1..Len(q) /\ j - Len(q) \in 1..Len(r)
      BY <1>1, <2>3
    <3>2. (q \o r)[i] = q[i] /\ (q \o r)[j] = r[j - Len(q)]
      BY <1>1, <2>3
    <3>3. QED  BY <1>2, <1>3, <1>4, <3>1, <3>2 DEF Apart
  <2>4. CASE i > Len(q) /\ j <= Len(q)
    <3>1. j \in 1..Len(q) /\ i - Len(q) \in 1..Len(r)
      BY <1>1, <2>4
    <3>2. (q \o r)[j] = q[j] /\ (q \o r)[i] = r[i - Len(q)]
      BY <1>1, <2>4
    <3>3. QED  BY <1>2, <1>3, <1>4, <3>1, <3>2 DEF Apart
  <2>5. QED  BY <1>1, <2>1, <2>2, <2>3, <2>4
<1>5. QED  BY <1>1, <1>4 DEF OnceIn

LEMMA OnceAppend ==
  ASSUME NEW q \in Seq(TimeTask), NEW e \in TimeTask,
         OnceIn(q), \A d \in Elems(q) : d.func # e.func
  PROVE  OnceIn(Append(q, e))
<1>1. Append(q, e) = q \o <<e>> /\ <<e>> \in Seq(TimeTask)
  OBVIOUS
<1>2. Elems(<<e>>) = {e} /\ OnceIn(<<e>>)
  BY DEF Elems, OnceIn
<1>3. Apart(q, <<e>>)
  BY <1>2 DEF Apart
<1>4. QED  BY <1>1, <1>2, <1>3, OnceConcat

-----------------------------------------------------------------------------
(* A step that leaves the lists as they are and takes no task out of the   *)
(* wheel.                                                                  *)
LEMMA OnceStill ==
  ASSUME WheelInv, EachOnce, UNCHANGED <<m_time_box, remain_list>>,
         \A x \in Tasks : fate[x] = "added" => fate'[x] = "added"
  PROVE  EachOnce'
<1>1. /\ \A s \in Slots : Elems(m_time_box[s]) \subseteq TimeTask
      /\ Elems(remain_list) \subseteq TimeTask
  BY ElemsType DEF WheelInv, TypeOK
<1>2. /\ \A s \in Slots : AllAdded(m_time_box[s], fate')
      /\ AllAdded(remain_list, fate')
  BY <1>1, ElemsType DEF EachOnce, AllAdded
<1>3. QED  BY <1>2 DEF EachOnce

(* The task that addTask() pushes is in no list.                           *)
LEMMA PushOnce ==
  ASSUME WheelInv, EachOnce, PushOnTime, PushBack
  PROVE  EachOnce'
<1>. DEFINE e0 == [func |-> adding, m_rotation |-> rotation]
<1>1. /\ ownerPc = "pushing" /\ adding \in Tasks /\ slot \in Slots
      /\ fate \in [Tasks -> {"new", "adding", "added", "handed", "omitted"}]
      /\ fate[adding] = "adding" /\ e0 \in TimeTask /\ e0.func = adding
      /\ m_time_box \in [Slots -> Seq(TimeTask)] /\ remain_list \in Seq(TimeTask)
  BY DEF PushBack, WheelInv, TypeOK, AddingOne, PushOnTime, TimeTask
<1>2. /\ m_time_box' = [m_time_box EXCEPT ![slot] = Append(m_time_box[slot], e0)]
      /\ fate' = [fate EXCEPT ![adding] = "added"]
      /\ remain_list' = remain_list
  BY DEF PushBack, tickVars
<1>. HIDE DEF e0
<1>3. /\ \A s \in Slots : \A e \in Elems(m_time_box[s]) :
            e.func # adding /\ e.func \in Tasks /\ fate'[e.func] = "added"
      /\ \A e \in Elems(remain_list) :
            e.func # adding /\ e.func \in Tasks /\ fate'[e.func] = "added"
  <2>1. /\ \A s \in Slots : Elems(m_time_box[s]) \subseteq TimeTask
        /\ Elems(remain_list) \subseteq TimeTask
    BY <1>1, ElemsType
  <2>2. /\ \A s \in Slots : \A e \in Elems(m_time_box[s]) : e.func # adding
        /\ \A e \in Elems(remain_list) : e.func # adding
    BY <1>1 DEF EachOnce, AllAdded
  <2>3. QED  BY <1>1, <1>2, <2>1, <2>2, ElemsType DEF EachOnce, AllAdded
<1>4. /\ m_time_box'[slot] = Append(m_time_box[slot], e0)
      /\ Elems(m_time_box'[slot]) = Elems(m_time_box[slot]) \cup {e0}
      /\ OnceIn(m_time_box'[slot])
  <2>1. m_time_box'[slot] = Append(m_time_box[slot], e0)
    BY <1>1, <1>2
  <2>2. m_time_box[slot] \in Seq(TimeTask) /\ OnceIn(m_time_box[slot])
    BY <1>1 DEF EachOnce
  <2>3. QED  BY <1>1, <1>3, <2>1, <2>2, ElemsAppend, OnceAppend
<1>5. \A s \in Slots : s # slot => m_time_box'[s] = m_time_box[s]
  BY <1>1, <1>2
<1>6. fate'[adding] = "added"
  BY <1>1, <1>2
<1>7. ASSUME NEW s \in Slots
      PROVE  /\ OnceIn(m_time_box'[s]) /\ AllAdded(m_time_box'[s], fate')
             /\ Apart(m_time_box'[s], remain_list)
  <2>1. CASE s = slot
    BY <1>1, <1>3, <1>4, <1>6, <2>1 DEF EachOnce, AllAdded, Apart
  <2>2. CASE s # slot
    BY <1>3, <1>5, <2>2 DEF EachOnce, AllAdded
  <2>3. QED  BY <2>1, <2>2
<1>8. ASSUME NEW s \in Slots, NEW t \in Slots, s # t
      PROVE  Apart(m_time_box'[s], m_time_box'[t])
  <2>1. Apart(m_time_box[s], m_time_box[t])
    BY <1>8 DEF EachOnce
  <2>2. CASE s = slot
    BY <1>1, <1>3, <1>4, <1>5, <1>8, <2>1, <2>2 DEF Apart
  <2>3. CASE t = slot
    BY <1>1, <1>3, <1>4, <1>5, <1>8, <2>1, <2>3 DEF Apart
  <2>4. CASE s # slot /\ t # slot
    BY <1>5, <2>1, <2>4
  <2>5. QED  BY <2>2, <2>3, <2>4
<1>9. OnceIn(remain_list) /\ AllAdded(remain_list, fate')
  BY <1>3 DEF EachOnce, AllAdded
<1>10. QED  BY <1>2, <1>7, <1>8, <1>9 DEF EachOnce

(* A pass takes the front off its list: the rest of the list, and all      *)
(* others, are without that task.                                          *)
LEMMA PopOnce ==
  ASSUME WheelInv, EachOnce, List # <<>>, PopFront
  PROVE  /\ Head(List) \in Elems(List) /\ Head(List) \in TimeTask
         /\ fate[Head(List).func] = "added"
         /\ \A s \in Slots :
              /\ Elems(m_time_box'[s]) \subseteq Elems(m_time_box[s])
              /\ OnceIn(m_time_box'[s])
              /\ \A e \in Elems(m_time_box'[s]) : e.func # Head(List).func
         /\ \A e \in Elems(remain_list) : e.func # Head(List).func
<1>1. /\ List = m_time_box[current] /\ List \in Seq(TimeTask)
      /\ current \in Slots /\ m_time_box \in [Slots -> Seq(TimeTask)]
  BY DEF List, WheelInv, TypeOK
<1>2. /\ Head(List) \in TimeTask /\ Elems(List) = {Head(List)} \cup Elems(Tail(List))
  BY <1>1, ElemsTail
<1>3. /\ OnceIn(Tail(List)) /\ \A e \in Elems(Tail(List)) : e.func # Head(List).func
  BY <1>1, OnceTail DEF EachOnce
<1>4. /\ m_time_box'[current] = Tail(List)
      /\ \A s \in Slots : s # current => m_time_box'[s] = m_time_box[s]
  BY <1>1 DEF PopFront, List
<1>5. fate[Head(List).func] = "added"
  BY <1>1, <1>2 DEF EachOnce, AllAdded
<1>6. ASSUME NEW s \in Slots
      PROVE  /\ Elems(m_time_box'[s]) \subseteq Elems(m_time_box[s])
             /\ OnceIn(m_time_box'[s])
             /\ \A e \in Elems(m_time_box'[s]) : e.func # Head(List).func
  <2>1. CASE s = current
    BY <1>1, <1>2, <1>3, <1>4, <2>1
  <2>2. CASE s # current
    <3>1. Apart(m_time_box[s], m_time_box[current])
      BY <1>1, <2>2 DEF EachOnce
    <3>2. QED  BY <1>1, <1>2, <1>4, <2>2, <3>1 DEF EachOnce, Apart
  <2>3. QED  BY <2>1, <2>2
<1>7. \A e \in Elems(remain_list) : e.func # Head(List).func
  BY <1>1, <1>2 DEF EachOnce, Apart
<1>8. QED  BY <1>2, <1>5, <1>6, <1>7

LEMMA FireOnce ==
  ASSUME WheelInv, EachOnce, FireFront
  PROVE  EachOnce' /\ fate[Head(List).func] = "added"
<1>. DEFINE x0 == Head(List).func
<1>1. List # <<>> /\ PopFront /\ remain_list' = remain_list
      /\ x0 \in Tasks /\ fate[x0] = "added"
  BY PopOnce, ElemsType DEF FireFront, tickVars
<1>2. \A x \in Tasks : x # x0 => fate'[x] = fate[x]
  BY <1>1 DEF FireFront, HandOver, WheelInv, TypeOK
<1>3. /\ \A s \in Slots :
            /\ Elems(m_time_box'[s]) \subseteq Elems(m_time_box[s])
            /\ OnceIn(m_time_box'[s])
            /\ \A e \in Elems(m_time_box'[s]) : e.func # x0
      /\ \A e \in Elems(remain_list) : e.func # x0
  BY <1>1, PopOnce
<1>. HIDE DEF x0
<1>4. /\ \A s \in Slots : \A e \in Elems(m_time_box[s]) : e.func \in Tasks
      /\ \A e \in Elems(remain_list) : e.func \in Tasks
  BY ElemsType DEF WheelInv, TypeOK
<1>5. /\ \A s \in Slots : AllAdded(m_time_box'[s], fate')
      /\ AllAdded(remain_list, fate')
  BY <1>2, <1>3, <1>4 DEF EachOnce, AllAdded
<1>6. \A s, t \in Slots : s # t => Apart(m_time_box'[s], m_time_box'[t])
  BY <1>3 DEF EachOnce, Apart
<1>7. \A s \in Slots : Apart(m_time_box'[s], remain_list)
  BY <1>3 DEF EachOnce, Apart
<1>8. QED  BY <1>1, <1>3, <1>5, <1>6, <1>7 DEF EachOnce, x0

LEMMA RotateOnce ==
  ASSUME WheelInv, EachOnce, RotateFront
  PROVE  EachOnce'
<1>. DEFINE e0 == Head(List)
            e1 == [e0 EXCEPT !.m_rotation = @ - 1]
<1>1. List # <<>> /\ PopFront /\ remain_list' = Append(remain_list, e1)
      /\ fate' = fate /\ e0 \in TimeTask /\ fate[e0.func] = "added"
      /\ remain_list \in Seq(TimeTask) /\ e0.m_rotation # 0
  BY PopOnce DEF RotateFront, ghostVars, WheelInv, TypeOK
<1>2. e1 \in TimeTask /\ e1.func = e0.func
  BY <1>1, RotateType DEF TimeTask
<1>3. /\ \A s \in Slots :
            /\ Elems(m_time_box'[s]) \subseteq Elems(m_time_box[s])
            /\ OnceIn(m_time_box'[s])
            /\ \A e \in Elems(m_time_box'[s]) : e.func # e1.func
      /\ \A e \in Elems(remain_list) : e.func # e1.func
  BY <1>1, <1>2, PopOnce
<1>. HIDE DEF e0, e1
<1>4. OnceIn(remain_list') /\ Elems(remain_list') = Elems(remain_list) \cup {e1}
  BY <1>1, <1>2, <1>3, OnceAppend, ElemsAppend DEF EachOnce
<1>5. /\ \A s \in Slots : AllAdded(m_time_box'[s], fate)
      /\ AllAdded(remain_list', fate)
  BY <1>1, <1>2, <1>3, <1>4 DEF EachOnce, AllAdded
<1>6. \A s, t \in Slots : s # t => Apart(m_time_box'[s], m_time_box'[t])
  BY <1>3 DEF EachOnce, Apart
<1>7. \A s \in Slots : Apart(m_time_box'[s], remain_list')
  BY <1>3, <1>4 DEF EachOnce, Apart
<1>8. QED  BY <1>1, <1>3, <1>4, <1>5, <1>6, <1>7 DEF EachOnce

LEMMA InsertOnce ==
  ASSUME WheelInv, EachOnce, InsertRemain
  PROVE  EachOnce'
<1>1. /\ m_time_box \in [Slots -> Seq(TimeTask)] /\ remain_list \in Seq(TimeTask)
      /\ current \in Slots
  BY DEF WheelInv, TypeOK
<1>2. /\ m_time_box'[current] = m_time_box[current] \o remain_list
      /\ \A s \in Slots : s # current => m_time_box'[s] = m_time_box[s]
      /\ remain_list' = <<>> /\ fate' = fate
  BY <1>1 DEF InsertRemain, ghostVars
<1>3. OnceIn(m_time_box'[current])
      /\ Elems(m_time_box'[current]) = Elems(m_time_box[current]) \cup Elems(remain_list)
  <2>1. m_time_box[current] \in Seq(TimeTask)
    BY <1>1
  <2>2. QED  BY <1>1, <1>2, <2>1, OnceConcat, ElemsConcat DEF EachOnce
<1>4. Elems(<<>>) = {} /\ OnceIn(<<>>)
  BY DEF Elems, OnceIn
<1>5. ASSUME NEW s \in Slots
      PROVE  /\ OnceIn(m_time_box'[s]) /\ AllAdded(m_time_box'[s], fate)
             /\ Apart(m_time_box'[s], <<>>)
  <2>1. CASE s = current
    BY <1>1, <1>3, <1>4, <2>1 DEF EachOnce, AllAdded, Apart
  <2>2. CASE s # current
    BY <1>2, <1>4, <2>2 DEF EachOnce, Apart
  <2>3. QED  BY <2>1, <2>2
<1>6. ASSUME NEW s \in Slots, NEW t \in Slots, s # t
      PROVE  Apart(m_time_box'[s], m_time_box'[t])
  <2>1. CASE s = current
    BY <1>1, <1>2, <1>3, <1>6, <2>1 DEF EachOnce, Apart
  <2>2. CASE t = current
    BY <1>1, <1>2, <1>3, <1>6, <2>2 DEF EachOnce, Apart
  <2>3. CASE s # current /\ t # current
    BY <1>2, <1>6, <2>3 DEF EachOnce
  <2>4. QED  BY <2>1, <2>2, <2>3
<1>7. QED  BY <1>2, <1>4, <1>5, <1>6 DEF EachOnce, AllAdded

LEMMA OnceInit == Init => EachOnce /\ PoolHanded
<1>. SUFFICES ASSUME Init PROVE EachOnce /\ PoolHanded
  OBVIOUS
<1>1. Elems(<<>>) = {} /\ OnceIn(<<>>)
  BY DEF Elems, OnceIn
<1>2. remain_list = <<>> /\ \A s \in Slots : m_time_box[s] = <<>>
  BY DEF Init
<1>3. EachOnce
  BY <1>1, <1>2 DEF EachOnce, Apart, AllAdded
<1>4. PoolHanded
  <2>1. waiting = <<>> /\ done = {} /\ \A w \in Workers : running[w] = None
    BY DEF Init, Pool!Init
  <2>2. Len(waiting) = 0
    BY <2>1
  <2>3. QED  BY <2>1, <2>2, WheelAssumption DEF PoolHanded, InPool
<1>5. QED  BY <1>3, <1>4

LEMMA OnceNext == WheelInv /\ DueInv /\ EachOnce /\ [Next]_vars => EachOnce'
<1>. SUFFICES ASSUME WheelInv, DueInv, EachOnce, [Next]_vars PROVE EachOnce'
  OBVIOUS
<1>1. CASE UNCHANGED <<m_time_box, remain_list, fate>>
  BY <1>1, OnceStill
<1>2. ASSUME NEW x \in Tasks, AddTask(x) PROVE EachOnce'
  <2>1. UNCHANGED <<m_time_box, remain_list>> /\ fate[x] = "new"
        /\ fate' = [fate EXCEPT ![x] = "adding"]
    BY <1>2 DEF AddTask, wheelVars, tickVars
  <2>2. \A y \in Tasks : fate[y] = "added" => fate'[y] = "added"
    BY <2>1 DEF WheelInv, TypeOK
  <2>3. QED  BY <2>1, <2>2, OnceStill
<1>3. CASE PushBack
  BY <1>3, PushOnce DEF DueInv
<1>4. CASE Tick
  <2>1. CASE TestClose \/ Bump \/ Wrap \/ ListDone \/ Wake
    BY <2>1, <1>1 DEF TestClose, Bump, Wrap, ListDone, Wake, wheelVars, ghostVars
  <2>2. QED  BY <1>4, <2>1, FireOnce, RotateOnce, InsertOnce DEF Tick
<1>5. CASE Owner
  <2>1. ASSUME NEW x \in Tasks, AddTaskOutOfRange(x) PROVE EachOnce'
    BY <1>1, <2>1 DEF AddTaskOutOfRange, Crash, wheelVars, tickVars, ghostVars
  <2>2. CASE StartTick \/ StartTickAgain \/ Close
    BY <1>1, <2>2 DEF StartTick, StartTickAgain, Close, Crash, wheelVars, tickVars,
                      ghostVars
  <2>3. CASE CloseNotStarted \/ JoinTick \/ PoolStopped
    BY <1>1, <2>3 DEF CloseNotStarted, JoinTick, PoolStopped, Crash, wheelVars,
                      tickVars, ghostVars
  <2>4. QED  BY <1>2, <1>3, <1>5, <2>1, <2>2, <2>3 DEF Owner
<1>6. CASE ListRace \/ ExecutePool \/ Finished \/ UNCHANGED vars
  BY <1>1, <1>6 DEF ListRace, Crash, ExecutePool, Finished, vars, wheelVars,
                    tickVars, ghostVars
<1>7. QED  BY <1>4, <1>5, <1>6 DEF Next

LEMMA HandedNext ==
  WheelInv /\ DueInv /\ EachOnce /\ PoolHanded /\ [Next]_vars => PoolHanded'
<1>. SUFFICES ASSUME WheelInv, DueInv, EachOnce, PoolHanded, [Next]_vars
              PROVE  PoolHanded'
  OBVIOUS
<1>0. /\ waiting \in Seq(Tasks) /\ running \in [Workers -> Tasks \cup {None}]
      /\ done \subseteq Tasks
      /\ fate \in [Tasks -> {"new", "adding", "added", "handed", "omitted"}]
  BY DEF WheelInv, TypeOK
<1>1. CASE UNCHANGED <<waiting, running, done>>
  <2>1. \A x \in Tasks : InPool(x)' <=> InPool(x)
    BY <1>1 DEF InPool
  <2>2. ASSUME \A x \in Tasks : fate[x] = "handed" => fate'[x] = "handed"
        PROVE  PoolHanded'
    BY <2>1, <2>2 DEF PoolHanded
  <2>3. CASE fate' = fate
    BY <2>2, <2>3
  <2>4. ASSUME NEW x \in Tasks, fate[x] # "handed", NEW f, fate' = [fate EXCEPT ![x] = f]
        PROVE  PoolHanded'
    BY <1>0, <2>2, <2>4
  <2>5. ASSUME NEW x \in Tasks, AddTask(x) PROVE PoolHanded'
    BY <2>4, <2>5 DEF AddTask
  <2>6. CASE PushBack
    BY <2>4, <2>6 DEF PushBack, WheelInv, AddingOne, DueInv, PushOnTime
  <2>7. CASE FireFront
    <3>1. Head(List).func \in Tasks /\ fate[Head(List).func] = "added"
      <4>1. Head(List) \in TimeTask
        BY <2>7, PopOnce DEF FireFront
      <4>2. QED  BY <2>7, <4>1, FireOnce, ElemsType
    <3>2. \/ fate' = [fate EXCEPT ![Head(List).func] = "handed"]
          \/ fate' = [fate EXCEPT ![Head(List).func] = "omitted"]
      BY <2>7 DEF FireFront, HandOver
    <3>3. QED  BY <2>4, <3>1, <3>2
  <2>8. \/ fate' = fate \/ PushBack \/ FireFront
        \/ \E x \in Tasks : AddTask(x)
    <3>1. CASE Owner
      <4>1. ASSUME NEW x \in Tasks, AddTaskOutOfRange(x) PROVE fate' = fate
        BY <4>1 DEF AddTaskOutOfRange, Crash, ghostVars
      <4>2. CASE \/ StartTick \/ StartTickAgain \/ Close
                 \/ CloseNotStarted \/ JoinTick \/ PoolStopped
        BY <4>2 DEF StartTick, StartTickAgain, Close, CloseNotStarted, JoinTick,
                    PoolStopped, Crash, ghostVars
      <4>3. QED  BY <3>1, <4>1, <4>2 DEF Owner
    <3>2. CASE Tick
      BY <3>2 DEF Tick, TestClose, Bump, Wrap, RotateFront, ListDone, InsertRemain,
                  Wake, ghostVars
    <3>3. CASE ListRace \/ ExecutePool \/ Finished \/ UNCHANGED vars
      BY <3>3 DEF ListRace, Crash, ExecutePool, Finished, vars, ghostVars
    <3>4. QED  BY <3>1, <3>2, <3>3 DEF Next
  <2>9. QED  BY <2>3, <2>5, <2>6, <2>7, <2>8
<1>2. CASE FireFront
  <2>. DEFINE x0 == Head(List).func
  <2>1. x0 \in Tasks
    <3>1. Head(List) \in TimeTask
      BY <1>2, PopOnce DEF FireFront
    <3>2. QED  BY <3>1, ElemsType
  <2>2. UNCHANGED <<running, done>> /\ \/ waiting' = waiting
                                       \/ /\ waiting' = Append(waiting, x0)
                                          /\ fate' = [fate EXCEPT ![x0] = "handed"]
    BY <1>2 DEF FireFront, HandOver
  <2>. HIDE DEF x0
  <2>3. CASE waiting' = waiting
    BY <1>1, <2>2, <2>3
  <2>4. CASE waiting' = Append(waiting, x0) /\ fate' = [fate EXCEPT ![x0] = "handed"]
    <3>1. /\ Len(waiting') = Len(waiting) + 1 /\ Len(waiting) \in Nat
          /\ waiting'[Len(waiting) + 1] = x0
          /\ \A i \in 1..Len(waiting) : waiting'[i] = waiting[i]
      BY <1>0, <2>1, <2>4
    <3>2. \A i \in 1..Len(waiting') : i \in 1..Len(waiting) \/ i = Len(waiting) + 1
      BY <3>1
    <3>3. \A x \in Tasks : InPool(x)' => InPool(x) \/ x = x0
      BY <2>2, <3>1, <3>2 DEF InPool
    <3>4. QED  BY <1>0, <2>1, <2>4, <3>3 DEF PoolHanded
  <2>5. QED  BY <2>2, <2>3, <2>4
<1>3. ASSUME NEW w \in Workers, Pool!Start(w), fate' = fate PROVE PoolHanded'
  <2>1. waiting # <<>> /\ waiting' = Tail(waiting) /\ done' = done
        /\ running' = [running EXCEPT ![w] = Head(waiting)]
    BY <1>3 DEF Pool!Start
  <2>2. /\ Len(waiting) \in Nat \ {0} /\ Head(waiting) = waiting[1]
        /\ Len(Tail(waiting)) = Len(waiting) - 1
        /\ \A i \in 1..Len(waiting) - 1 : Tail(waiting)[i] = waiting[i + 1]
    BY <1>0, <2>1
  <2>3. /\ 1 \in 1..Len(waiting)
        /\ \A i \in 1..Len(waiting') : i + 1 \in 1..Len(waiting) /\ waiting'[i] = waiting[i + 1]
    BY <2>1, <2>2
  <2>4. \A v \in Workers : running'[v] = running[v] \/ running'[v] = waiting[1]
    BY <1>0, <2>1, <2>2
  <2>5. \A x \in Tasks : InPool(x)' => InPool(x)
    BY <2>1, <2>3, <2>4 DEF InPool
  <2>6. QED  BY <1>3, <2>5 DEF PoolHanded
<1>4. ASSUME NEW w \in Workers, Pool!Finish(w), fate' = fate PROVE PoolHanded'
  <2>1. /\ running[w] # None /\ waiting' = waiting /\ done' = done \cup {running[w]}
        /\ running' = [running EXCEPT ![w] = None]
    BY <1>4 DEF Pool!Finish
  <2>2. \A v \in Workers : running'[v] = running[v] \/ running'[v] = None
    BY <1>0, <2>1
  <2>3. \A x \in Tasks : InPool(x)' => InPool(x)
    BY <2>1, <2>2, WheelAssumption DEF InPool
  <2>4. QED  BY <1>4, <2>3 DEF PoolHanded
<1>5. \/ UNCHANGED <<waiting, running, done>> \/ FireFront
      \/ fate' = fate /\ \E w \in Workers : Pool!Start(w) \/ Pool!Finish(w)
  <2>1. CASE Owner
    <3>1. ASSUME NEW x \in Tasks, AddTask(x) \/ AddTaskOutOfRange(x)
          PROVE UNCHANGED <<waiting, running, done>>
      BY <3>1 DEF AddTask, AddTaskOutOfRange, Crash, poolVars
    <3>2. CASE PushBack \/ StartTick \/ StartTickAgain \/ Close \/ CloseNotStarted
      BY <3>2 DEF PushBack, StartTick, StartTickAgain, Close, CloseNotStarted, Crash,
                  poolVars
    <3>3. CASE JoinTick \/ PoolStopped
      BY <3>3 DEF JoinTick, PoolStopped, Pool!Close, Pool!Stop
    <3>4. QED  BY <2>1, <3>1, <3>2, <3>3 DEF Owner
  <2>2. CASE Tick
    BY <2>2 DEF Tick, TestClose, Bump, Wrap, RotateFront, ListDone, InsertRemain,
                Wake, poolVars
  <2>3. CASE ExecutePool
    BY <2>3 DEF ExecutePool, ghostVars
  <2>4. CASE ListRace \/ Finished \/ UNCHANGED vars
    BY <2>4 DEF ListRace, Crash, Finished, vars, poolVars
  <2>5. QED  BY <2>1, <2>2, <2>3, <2>4 DEF Next
<1>6. QED  BY <1>1, <1>2, <1>3, <1>4, <1>5

(* Every step of the wheel is a step of the executor or leaves it alone.   *)
LEMMA PoolStep ==
  WheelInv /\ EachOnce /\ PoolHanded /\ [Next]_vars => [Pool!Next]_(Pool!vars)
<1>. SUFFICES ASSUME WheelInv, EachOnce, PoolHanded, [Next]_vars
              PROVE  [Pool!Next]_(Pool!vars)
  OBVIOUS
<1>1. CASE UNCHANGED poolVars
  BY <1>1 DEF poolVars, Pool!vars
<1>2. CASE FireFront
  <2>. DEFINE x0 == Head(List).func
  <2>1. x0 \in Tasks /\ fate[x0] = "added"
    <3>1. Head(List) \in TimeTask
      BY <1>2, PopOnce DEF FireFront
    <3>2. QED  BY <1>2, <3>1, FireOnce, ElemsType
  <2>2. ~InPool(x0)
    BY <2>1 DEF PoolHanded
  <2>3. UNCHANGED <<running, done, phase>>
        /\ \/ waiting' = waiting
           \/ /\ phase = "open" /\ Len(waiting) < m_max
              /\ waiting' = Append(waiting, x0)
    BY <1>2 DEF FireFront, HandOver
  <2>. HIDE DEF x0
  <2>4. CASE waiting' = waiting
    BY <2>3, <2>4 DEF Pool!vars
  <2>5. CASE waiting' # waiting
    <3>1. Pool!Accept(x0)
      BY <2>2, <2>3, <2>5 DEF InPool, Pool!Accept
    <3>2. QED  BY <2>1, <3>1 DEF Pool!Next
  <2>6. QED  BY <2>4, <2>5
<1>3. CASE ExecutePool
  BY <1>3 DEF ExecutePool, Pool!Next
<1>4. CASE Owner
  <2>1. ASSUME NEW x \in Tasks, AddTask(x) \/ AddTaskOutOfRange(x)
        PROVE UNCHANGED poolVars
    BY <2>1 DEF AddTask, AddTaskOutOfRange, Crash
  <2>2. CASE PushBack \/ StartTick \/ StartTickAgain \/ Close \/ CloseNotStarted
    BY <1>1, <2>2 DEF PushBack, StartTick, StartTickAgain, Close, CloseNotStarted, Crash
  <2>3. CASE JoinTick \/ PoolStopped
    BY <2>3 DEF JoinTick, PoolStopped, Pool!Next
  <2>4. QED  BY <1>1, <1>4, <2>1, <2>2, <2>3 DEF Owner
<1>5. CASE Tick
  BY <1>1, <1>2, <1>5 DEF Tick, TestClose, Bump, Wrap, RotateFront, ListDone,
                          InsertRemain, Wake
<1>6. CASE ListRace \/ Finished \/ UNCHANGED vars
  BY <1>1, <1>6 DEF ListRace, Crash, Finished, vars, poolVars
<1>7. QED  BY <1>3, <1>4, <1>5, <1>6 DEF Next

(* What the wheel does to its pool is what TaskExecutor allows: no task is *)
(* handed over twice, none once the pool is closed, and it is stopped only *)
(* when all of them have ended (time_wheel.cpp:48-54, 59-82).              *)
THEOREM UsesPoolAsExecutor == Spec => PoolSpec
<1>1. Init => Pool!Init
  BY DEF Init
<1>2. Spec => [](EachOnce /\ PoolHanded)
  BY OnceInit, OnceNext, HandedNext, DueAlways, PTL DEF Spec
<1>3. QED
  BY <1>1, <1>2, DueAlways, PoolStep, PTL DEF Spec, PoolSpec, Pool!Spec


===============================================================================
