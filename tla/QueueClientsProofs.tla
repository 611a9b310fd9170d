-------------------------- MODULE QueueClientsProofs --------------------------
(***************************************************************************)
(* Theorems about QueueClients, for any number of clients and interrupters *)
(* and any capacity.                                                       *)
(***************************************************************************)
EXTENDS QueueClients, FiniteSetTheorems, TLAPS

(* A thread that is about to push, or waits to push, has an element.       *)
Pushing == {"add", "offer", "sawFull", "onFull"}
Armed == \A t \in Threads : pc[t] \in Pushing => elem[t] \in Elements

WithinCapacity == Len(m_inner_queue) <= m_max

BaseInv == TypeOK /\ Armed /\ WithinCapacity

-----------------------------------------------------------------------------
(* Facts about program counters.                                           *)

LEMMA MoveType ==
  ASSUME NEW f \in [Threads -> Labels], NEW t \in Threads, NEW k \in Labels
  PROVE  Move(f, t, k) \in [Threads -> Labels]
BY DEF Move

LEMMA NotifyOneIs ==
  ASSUME NEW f, NEW cond, NEW test, NEW g \in NotifyOne(f, cond, test)
  PROVE  \/ g = f /\ \A u \in Threads : f[u] # cond
         \/ \E u \in Threads : f[u] = cond /\ g = Move(f, u, test)
BY DEF NotifyOne

(* The pushing threads after a step are pushing threads from before it,    *)
(* except one that starts to push.                                         *)
LEMMA NotifyOneType ==
  ASSUME NEW f \in [Threads -> Labels], NEW cond, NEW test \in Labels,
         NEW g \in NotifyOne(f, cond, test)
  PROVE  g \in [Threads -> Labels]
BY NotifyOneIs DEF Move

-----------------------------------------------------------------------------
LEMMA BaseInit == Init => BaseInv
BY QueueAssumption DEF Init, NoFlagSet, BaseInv, TypeOK, Armed, WithinCapacity,
  Labels, QueueLabels, Pushing

(* A push by t, after which t is at k.                                     *)
LEMMA PushBase ==
  ASSUME BaseInv, NEW t \in Threads, Push(t, "idle"), pc[t] \in Pushing,
         Len(m_inner_queue) < m_max
  PROVE  BaseInv'
<1>1. elem[t] \in Elements
  BY DEF BaseInv, Armed
<1>2. Move(pc, t, "idle") \in [Threads -> Labels]
  BY DEF BaseInv, TypeOK, Move, Labels
<1>3. pc' \in [Threads -> Labels]
  BY <1>2, NotifyOneType DEF Push, Labels, QueueLabels
<1>4. \A u \in Threads : pc'[u] \in Pushing => pc[u] \in Pushing
  <2>1. pc' \in NotifyOne(Move(pc, t, "idle"), "onEmpty", "take")
    BY DEF Push
  <2>2. CASE pc' = Move(pc, t, "idle")
    BY <2>2 DEF Move, Pushing, BaseInv, TypeOK
  <2>3. CASE \E u \in Threads : pc' = Move(Move(pc, t, "idle"), u, "take")
    BY <2>3 DEF Move, Pushing, BaseInv, TypeOK
  <2>4. QED  BY <2>1, <2>2, <2>3, NotifyOneIs
<1>5. TypeOK'
  BY <1>1, <1>3 DEF Push, BaseInv, TypeOK
<1>6. Armed'
  BY <1>4 DEF BaseInv, Armed, Push
<1>7. WithinCapacity'
  BY <1>1, QueueAssumption DEF Push, BaseInv, TypeOK, WithinCapacity
<1>8. QED  BY <1>5, <1>6, <1>7 DEF BaseInv

(* A pop by t.                                                             *)
LEMMA PopBase ==
  ASSUME BaseInv, NEW t \in Threads, Pop(t, "idle"), m_inner_queue # <<>>
  PROVE  BaseInv'
<1>1. Head(m_inner_queue) \in Elements /\ Tail(m_inner_queue) \in Seq(Elements)
      /\ Len(Tail(m_inner_queue)) = Len(m_inner_queue) - 1
  BY DEF BaseInv, TypeOK
<1>2. Move(pc, t, "idle") \in [Threads -> Labels]
  BY DEF BaseInv, TypeOK, Move, Labels
<1>3. pc' \in [Threads -> Labels]
  BY <1>2, NotifyOneType DEF Pop, Labels, QueueLabels
<1>4. \A u \in Threads : pc'[u] \in Pushing => u # t /\ pc[u] \in Pushing
  <2>1. pc' \in NotifyOne(Move(pc, t, "idle"), "onFull", "offer")
    BY DEF Pop
  <2>2. CASE pc' = Move(pc, t, "idle")
    BY <2>2 DEF Move, Pushing, BaseInv, TypeOK
  <2>3. CASE \E u \in Threads : /\ Move(pc, t, "idle")[u] = "onFull"
                                /\ pc' = Move(Move(pc, t, "idle"), u, "offer")
    BY <2>3 DEF Move, Pushing, BaseInv, TypeOK
  <2>4. QED  BY <2>1, <2>2, <2>3, NotifyOneIs
<1>5. TypeOK'
  BY <1>1, <1>3 DEF Pop, BaseInv, TypeOK
<1>6. Armed'
  BY <1>1, <1>4 DEF BaseInv, Armed, Pop, TypeOK
<1>7. WithinCapacity'
  BY <1>1, QueueAssumption DEF Pop, BaseInv, TypeOK, WithinCapacity
<1>8. QED  BY <1>5, <1>6, <1>7 DEF BaseInv

(* A step of t that moves nothing but t.                                   *)
LEMMA GotoBase ==
  ASSUME BaseInv, NEW t \in Threads, NEW k \in Labels, Goto(t, k),
         k \in Pushing => pc[t] \in Pushing
  PROVE  BaseInv'
BY DEF BaseInv, Goto, queueVars, TypeOK, Armed, WithinCapacity, Move

(* notify_all by t, which goes on at k.                                    *)
LEMMA WakeUpBase ==
  ASSUME BaseInv, NEW t \in Threads, NEW k \in Labels \ Pushing,
         WakeUpEmpty(t, k) \/ WakeUpFull(t, k)
  PROVE  BaseInv'
BY DEF BaseInv, WakeUpEmpty, WakeUpFull, NotifyAll, Move, queueVars, TypeOK,
  Armed, WithinCapacity, Labels, QueueLabels, Pushing

LEMMA BaseNext == BaseInv /\ [Next]_vars => BaseInv'
<1>. SUFFICES ASSUME BaseInv, [Next]_vars PROVE BaseInv'
  OBVIOUS
<1>. USE DEF Labels, QueueLabels, Pushing
<1>1. ASSUME NEW t \in Consumers, ConsumerNext(t) PROVE BaseInv'
  <2>. t \in Threads  BY ClientsAssumption
  <2>1. CASE CallTake(t)
    BY <2>1, GotoBase DEF CallTake
  <2>2. CASE StepTake(t)
    <3>1. CASE Take(t, "idle")  BY <3>1, PopBase DEF Take
    <3>2. CASE TakeInterrupted(t, "idle")
      BY <3>2, GotoBase DEF TakeInterrupted
    <3>3. CASE TakeSeesEmpty(t)  BY <3>3, GotoBase DEF TakeSeesEmpty
    <3>4. CASE TakeBlocks(t)  BY <3>4, GotoBase DEF TakeBlocks
    <3>5. QED  BY <2>2, <3>1, <3>2, <3>3, <3>4 DEF StepTake
  <2>3. CASE CallPoll(t)
    BY <2>3, PopBase, GotoBase DEF CallPoll, Poll, PollThrows
  <2>4. QED  BY <1>1, <2>1, <2>2, <2>3 DEF ConsumerNext
<1>2. ASSUME NEW t \in Producers, ProducerNext(t) PROVE BaseInv'
  <2>. t \in Threads  BY ClientsAssumption
  <2>1. ASSUME NEW e \in Elements, NEW operation \in {"add", "offer"},
               CallPush(t, e, operation)
        PROVE  BaseInv'
    BY <2>1 DEF CallPush, BaseInv, TypeOK, Armed, WithinCapacity, Move
  <2>2. CASE StepAdd(t)
    <3>1. CASE Add(t, "idle")
      <4>1. Len(m_inner_queue) < m_max
        BY <3>1, QueueAssumption DEF Add, BaseInv, TypeOK, WithinCapacity
      <4>2. QED  BY <2>2, <3>1, <4>1, PushBase DEF Add, StepAdd
    <3>2. CASE AddRefuses(t, "idle")
      BY <2>2, <3>2, GotoBase DEF AddRefuses, StepAdd
    <3>3. QED  BY <2>2, <3>1, <3>2 DEF StepAdd
  <2>3. CASE StepOffer(t)
    <3>1. CASE Offer(t, "idle")  BY <3>1, PushBase DEF Offer
    <3>2. CASE OfferInterrupted(t, "idle")
      BY <3>2, GotoBase DEF OfferInterrupted
    <3>3. CASE OfferSeesFull(t)  BY <3>3, GotoBase DEF OfferSeesFull
    <3>4. CASE OfferBlocks(t)  BY <3>4, GotoBase DEF OfferBlocks
    <3>5. QED  BY <2>3, <3>1, <3>2, <3>3, <3>4 DEF StepOffer
  <2>4. QED  BY <1>2, <2>1, <2>2, <2>3 DEF ProducerNext
<1>3. ASSUME NEW i \in Interrupters, InterrupterNext(i) PROVE BaseInv'
  <2>. i \in Threads  BY ClientsAssumption
  <2>1. ASSUME NEW t \in Producers \cup Consumers, CallInterrupt(i, t)
        PROVE  BaseInv'
    BY <2>1 DEF CallInterrupt, Interrupt, Move, BaseInv, TypeOK, Armed,
      WithinCapacity
  <2>2. CASE StepWakeUpAll(i)
    BY <2>2, WakeUpBase DEF StepWakeUpAll
  <2>3. QED  BY <1>3, <2>1, <2>2 DEF InterrupterNext
<1>4. ASSUME NEW t \in Threads, SpuriousWakeUp(t) PROVE BaseInv'
  BY <1>4, GotoBase DEF SpuriousWakeUp, Goto
<1>5. CASE UNCHANGED vars
  BY <1>5 DEF vars, BaseInv, TypeOK, Armed, WithinCapacity
<1>6. QED  BY <1>1, <1>2, <1>3, <1>4, <1>5 DEF Next

(* No queue operation stores anything but a T, every flag stays a Boolean, *)
(* and every thread stays at a label of its operations.                    *)
THEOREM TypeCorrect == Spec => []TypeOK
<1>1. BaseInv => TypeOK  BY DEF BaseInv
<1>2. QED  BY BaseInit, BaseNext, <1>1, PTL DEF Spec

-----------------------------------------------------------------------------
(* The refinement of BoundedFifo.                                          *)

LEMMA FifoStep ==
  BaseInv /\ [Next]_vars => [Fifo!Next]_<<m_inner_queue, elem>>
<1>. SUFFICES ASSUME BaseInv, [Next]_vars
              PROVE  [Fifo!Next]_<<m_inner_queue, elem>>
  OBVIOUS
<1>. USE DEF BaseInv
<1>1. ASSUME NEW t \in Threads, Push(t, "idle"), pc[t] \in Pushing,
             Len(m_inner_queue) < m_max
      PROVE  Fifo!Next
  BY <1>1 DEF Push, Armed, Fifo!Next, Fifo!Insert
<1>2. ASSUME NEW t \in Threads, Pop(t, "idle"), m_inner_queue # <<>>
      PROVE  Fifo!Next
  BY <1>2 DEF Pop, Fifo!Next, Fifo!Remove
<1>3. ASSUME NEW t, NEW k, Goto(t, k)
      PROVE  UNCHANGED <<m_inner_queue, elem>>
  BY <1>3 DEF Goto, queueVars
<1>4. ASSUME NEW t \in Consumers, ConsumerNext(t)
      PROVE  [Fifo!Next]_<<m_inner_queue, elem>>
  <2>. t \in Threads  BY ClientsAssumption
  <2>1. CASE Take(t, "idle")  BY <2>1, <1>2 DEF Take
  <2>2. CASE Poll(t, "idle")  BY <2>2, <1>2 DEF Poll
  <2>3. CASE \E k : Goto(t, k)  BY <2>3, <1>3
  <2>4. QED
    BY <1>4, <2>1, <2>2, <2>3 DEF ConsumerNext, CallTake, StepTake, CallPoll,
      TakeInterrupted, TakeSeesEmpty, TakeBlocks, PollThrows
<1>5. ASSUME NEW t \in Producers, ProducerNext(t)
      PROVE  [Fifo!Next]_<<m_inner_queue, elem>>
  <2>. t \in Threads  BY ClientsAssumption
  <2>1. ASSUME NEW e \in Elements, NEW operation, CallPush(t, e, operation)
        PROVE  Fifo!Next
    BY <2>1 DEF CallPush, Fifo!Next, Fifo!Choose
  <2>2. CASE pc[t] = "add" /\ Add(t, "idle")
    <3>1. Len(m_inner_queue) < m_max
      BY <2>2, QueueAssumption DEF Add, TypeOK, WithinCapacity
    <3>2. QED  BY <2>2, <3>1, <1>1 DEF Add, Pushing
  <2>3. CASE Offer(t, "idle")  BY <2>3, <1>1 DEF Offer, Pushing
  <2>4. CASE \E k : Goto(t, k)  BY <2>4, <1>3
  <2>5. QED
    BY <1>5, <2>1, <2>2, <2>3, <2>4 DEF ProducerNext, StepAdd, StepOffer,
      AddRefuses, OfferInterrupted, OfferSeesFull, OfferBlocks
<1>6. ASSUME NEW i \in Interrupters, InterrupterNext(i)
      PROVE  UNCHANGED <<m_inner_queue, elem>>
  BY <1>6 DEF InterrupterNext, CallInterrupt, StepWakeUpAll, WakeUpEmpty,
    WakeUpFull, queueVars
<1>7. ASSUME NEW t \in Threads, SpuriousWakeUp(t)
      PROVE  UNCHANGED <<m_inner_queue, elem>>
  BY <1>7 DEF SpuriousWakeUp, queueVars
<1>8. CASE UNCHANGED vars  BY <1>8 DEF vars
<1>9. QED  BY <1>4, <1>5, <1>6, <1>7, <1>8 DEF Next

(* The queue implements a bounded first-in first-out buffer: every element *)
(* a take() or poll() returns is the oldest one pushed and not yet         *)
(* returned, and none is pushed beyond the capacity.                       *)
THEOREM ImplementsFifo == Spec => FifoSpec
<1>1. Init => Fifo!Init  BY DEF Init, Fifo!Init
<1>2. QED
  BY <1>1, BaseInit, BaseNext, FifoStep, PTL DEF Spec, FifoSpec, Fifo!Spec

-----------------------------------------------------------------------------
(* SawIsStillTrue is inductive together with BaseInv.                      *)

Saw == {"sawEmpty", "sawFull"}

(* Between its test and its wait a thread holds m_mutex: as long as nobody *)
(* newly arrives there and the queue stays, what was seen is still so.     *)
LEMMA SawStays ==
  ASSUME SawIsStillTrue, UNCHANGED m_inner_queue,
         \A u \in Threads : pc'[u] \in Saw => pc'[u] = pc[u]
  PROVE  SawIsStillTrue'
BY DEF SawIsStillTrue, At, Saw

LEMMA SawNobody ==
  ASSUME MutexFree, \A u \in Threads : pc'[u] \in Saw => pc'[u] = pc[u]
  PROVE  SawIsStillTrue'
BY DEF SawIsStillTrue, MutexFree, At, Saw

LEMMA SawGoto ==
  ASSUME BaseInv, SawIsStillTrue, NEW t \in Threads, NEW k, k \notin Saw, Goto(t, k)
  PROVE  SawIsStillTrue'
<1>1. \A u \in Threads : pc'[u] \in Saw => pc'[u] = pc[u]
  BY DEF Goto, Move, BaseInv, TypeOK
<1>2. QED  BY <1>1, SawStays DEF Goto, queueVars

LEMMA SawPushPop ==
  ASSUME BaseInv, MutexFree, NEW t \in Threads, Push(t, "idle") \/ Pop(t, "idle")
  PROVE  SawIsStillTrue'
<1>1. \A u \in Threads : pc'[u] \in Saw => pc'[u] = pc[u]
  <2>. DEFINE f == Move(pc, t, "idle")
  <2>1. PICK c \in {"onEmpty", "onFull"}, d \in {"take", "offer"} :
           pc' \in NotifyOne(f, c, d)
    BY DEF Push, Pop
  <2>2. f \in [Threads -> Labels] /\ \A u \in Threads : f[u] \in Saw => f[u] = pc[u]
    BY DEF Move, Saw, BaseInv, TypeOK, Labels
  <2>3. CASE pc' = f  BY <2>2, <2>3
  <2>4. CASE \E u \in Threads : pc' = Move(f, u, d)
    BY <2>2, <2>4 DEF Move, Saw
  <2>. HIDE DEF f
  <2>5. QED  BY <2>1, <2>3, <2>4, NotifyOneIs
<1>2. QED  BY <1>1, SawNobody

LEMMA SawNext ==
  BaseInv /\ SawIsStillTrue /\ [Next]_vars => SawIsStillTrue'
<1>. SUFFICES ASSUME BaseInv, SawIsStillTrue, [Next]_vars PROVE SawIsStillTrue'
  OBVIOUS
<1>1. ASSUME NEW t \in Consumers, ConsumerNext(t) PROVE SawIsStillTrue'
  <2>. t \in Threads  BY ClientsAssumption
  <2>1. CASE CallTake(t)  BY <2>1, SawGoto DEF CallTake, Saw
  <2>2. CASE Take(t, "idle")  BY <2>2, SawPushPop DEF Take
  <2>3. CASE TakeInterrupted(t, "idle")
    BY <2>3, SawGoto DEF TakeInterrupted, Saw
  <2>4. CASE TakeSeesEmpty(t)
    BY <2>4 DEF TakeSeesEmpty, Goto, queueVars, Move, MutexFree, At,
      SawIsStillTrue, BaseInv, TypeOK
  <2>5. CASE TakeBlocks(t)  BY <2>5, SawGoto DEF TakeBlocks, Saw
  <2>6. CASE Poll(t, "idle")  BY <2>6, SawPushPop DEF Poll
  <2>7. CASE PollThrows(t, "idle")  BY <2>7, SawGoto DEF PollThrows, Saw
  <2>8. QED
    BY <1>1, <2>1, <2>2, <2>3, <2>4, <2>5, <2>6, <2>7
    DEF ConsumerNext, StepTake, CallPoll
<1>2. ASSUME NEW t \in Producers, ProducerNext(t) PROVE SawIsStillTrue'
  <2>. t \in Threads  BY ClientsAssumption
  <2>1. ASSUME NEW e \in Elements, NEW operation \in {"add", "offer"},
               CallPush(t, e, operation)
        PROVE  SawIsStillTrue'
    <3>1. \A u \in Threads : pc'[u] \in Saw => pc'[u] = pc[u]
      BY <2>1 DEF CallPush, Move, Saw, BaseInv, TypeOK
    <3>2. QED  BY <2>1, <3>1, SawStays DEF CallPush
  <2>2. CASE Add(t, "idle")  BY <2>2, SawPushPop DEF Add
  <2>3. CASE AddRefuses(t, "idle")  BY <2>3, SawGoto DEF AddRefuses, Saw
  <2>4. CASE Offer(t, "idle")  BY <2>4, SawPushPop DEF Offer
  <2>5. CASE OfferInterrupted(t, "idle")
    BY <2>5, SawGoto DEF OfferInterrupted, Saw
  <2>6. CASE OfferSeesFull(t)
    <3>1. Len(m_inner_queue) = m_max
      BY <2>6, QueueAssumption DEF OfferSeesFull, BaseInv, TypeOK, WithinCapacity
    <3>2. QED
      BY <2>6, <3>1 DEF OfferSeesFull, Goto, queueVars, Move, MutexFree, At,
        SawIsStillTrue, BaseInv, TypeOK
  <2>7. CASE OfferBlocks(t)  BY <2>7, SawGoto DEF OfferBlocks, Saw
  <2>8. QED
    BY <1>2, <2>1, <2>2, <2>3, <2>4, <2>5, <2>6, <2>7
    DEF ProducerNext, StepAdd, StepOffer
<1>3. ASSUME NEW i \in Interrupters, InterrupterNext(i) PROVE SawIsStillTrue'
  <2>. i \in Threads  BY ClientsAssumption
  <2>1. UNCHANGED m_inner_queue
    BY <1>3 DEF InterrupterNext, CallInterrupt, StepWakeUpAll, WakeUpEmpty,
      WakeUpFull, queueVars
  <2>2. \A u \in Threads : pc'[u] \in Saw => pc'[u] = pc[u]
    BY <1>3 DEF InterrupterNext, CallInterrupt, StepWakeUpAll, WakeUpEmpty,
      WakeUpFull, NotifyAll, Move, Saw, BaseInv, TypeOK
  <2>3. QED  BY <2>1, <2>2, SawStays
<1>4. ASSUME NEW t \in Threads, SpuriousWakeUp(t) PROVE SawIsStillTrue'
  BY <1>4, SawGoto DEF SpuriousWakeUp, Goto, Saw
<1>5. CASE UNCHANGED vars
  BY <1>5 DEF vars, SawIsStillTrue, At
<1>6. QED  BY <1>1, <1>2, <1>3, <1>4, <1>5 DEF Next

(* The lock covers the gap between testing a wait predicate and waiting:   *)
(* the predicate a thread found false is false when it blocks.             *)
THEOREM SawStillTrue == Spec => []SawIsStillTrue
<1>1. Init => SawIsStillTrue  BY DEF Init, SawIsStillTrue, At
<1>2. QED  BY <1>1, BaseInit, BaseNext, SawNext, PTL DEF Spec

-----------------------------------------------------------------------------
(* No lost wake-up, by counting the threads at each label.                 *)

Num(f, label) == Cardinality({t \in Threads : f[t] = label})

LEMMA NumType ==
  ASSUME NEW f, NEW label
  PROVE  /\ Num(f, label) \in Nat
         /\ Num(f, label) = 0 <=> \A u \in Threads : f[u] # label
<1>1. IsFiniteSet({t \in Threads : f[t] = label})
  BY ClientsAssumption, FS_Subset
<1>2. QED  BY <1>1, FS_CardinalityType, FS_EmptySet DEF Num

LEMMA NumMove ==
  ASSUME NEW f \in [Threads -> Labels], NEW t \in Threads, NEW k \in Labels,
         NEW label
  PROVE  Num(Move(f, t, k), label) =
           Num(f, label) + (IF k = label THEN 1 ELSE 0)
                         - (IF f[t] = label THEN 1 ELSE 0)
<1>. DEFINE S == {u \in Threads : f[u] = label}
            T == {u \in Threads : Move(f, t, k)[u] = label}
<1>1. IsFiniteSet(S)
  BY ClientsAssumption, FS_Subset
<1>2. Cardinality(S) \in Nat
  BY <1>1, FS_CardinalityType
<1>3. t \in S <=> f[t] = label
  OBVIOUS
<1>4. CASE k = label
  <2>1. T = S \cup {t}  BY <1>4 DEF Move
  <2>2. Cardinality(T) = IF t \in S THEN Cardinality(S) ELSE Cardinality(S) + 1
    BY <1>1, <2>1, FS_AddElement
  <2>. HIDE DEF S, T
  <2>3. Cardinality(T) = Cardinality(S) + 1 - (IF f[t] = label THEN 1 ELSE 0)
    BY <1>2, <1>3, <2>2
  <2>4. QED  BY <1>4, <2>3 DEF Num, S, T
<1>5. CASE k # label
  <2>1. T = S \ {t}  BY <1>5 DEF Move
  <2>2. Cardinality(T) = IF t \in S THEN Cardinality(S) - 1 ELSE Cardinality(S)
    BY <1>1, <2>1, FS_RemoveElement
  <2>. HIDE DEF S, T
  <2>3. Cardinality(T) = Cardinality(S) + 0 - (IF f[t] = label THEN 1 ELSE 0)
    BY <1>2, <1>3, <2>2
  <2>4. QED  BY <1>5, <2>3 DEF Num, S, T
<1>6. QED  BY <1>4, <1>5

(* The same after a notify_one: if anyone waits, one waiter moves.         *)
LEMMA NumNotify ==
  ASSUME NEW f \in [Threads -> Labels], NEW cond \in Labels,
         NEW test \in Labels \ {cond}, NEW g \in NotifyOne(f, cond, test)
  PROVE  /\ \A l \in Labels \ {cond, test} : Num(g, l) = Num(f, l)
         /\ Num(f, cond) = 0 => Num(g, cond) = 0 /\ Num(g, test) = Num(f, test)
         /\ Num(f, cond) # 0 => /\ Num(g, cond) = Num(f, cond) - 1
                                /\ Num(g, test) = Num(f, test) + 1
<1>1. CASE g = f /\ \A u \in Threads : f[u] # cond
  BY <1>1, NumType
<1>2. ASSUME NEW u \in Threads, f[u] = cond, g = Move(f, u, test)
      PROVE  /\ \A l \in Labels \ {cond, test} : Num(g, l) = Num(f, l)
             /\ Num(f, cond) # 0
             /\ Num(g, cond) = Num(f, cond) - 1
             /\ Num(g, test) = Num(f, test) + 1
  BY <1>2, NumMove, NumType
<1>3. QED  BY <1>1, <1>2, NotifyOneIs

WakeInv ==
  /\ Num(pc, "onEmpty") # 0 => Len(m_inner_queue) <= Num(pc, "take")
  /\ Num(pc, "onFull") # 0 => m_max <= Len(m_inner_queue) + Num(pc, "offer")

Quiet == \A t \in Threads : ~m_flag[t]

LEMMA WakeInvIs ==
  /\ NoLostWakeUp <=> (Quiet => WakeInv)
  /\ NoLostWakeUp' <=> (Quiet' => WakeInv')
<1>1. NoLostWakeUp <=> (Quiet => WakeInv)
  BY NumType DEF NoLostWakeUp, Quiet, WakeInv, Num, At
<1>2. QED  BY <1>1, PTL

LEMMA WakeMove ==
  ASSUME BaseInv, WakeInv, NEW t \in Threads, NEW k \in Labels,
         pc' = Move(pc, t, k), UNCHANGED m_inner_queue,
         k = "onEmpty" \/ pc[t] = "take" => m_inner_queue = <<>>,
         k = "onFull" \/ pc[t] = "offer" => Len(m_inner_queue) = m_max
  PROVE  WakeInv'
<1>0. pc \in [Threads -> Labels]
  BY DEF BaseInv, TypeOK
<1>1. \A l : Num(pc', l) = Num(pc, l) + (IF k = l THEN 1 ELSE 0)
                                     - (IF pc[t] = l THEN 1 ELSE 0)
  BY <1>0, NumMove
<1>2. Len(m_inner_queue) \in Nat /\ m_max \in Nat
      /\ (m_inner_queue = <<>> => Len(m_inner_queue) = 0)
      /\ Len(m_inner_queue') = Len(m_inner_queue)
  BY QueueAssumption DEF BaseInv, TypeOK
<1>3. \A l : Num(pc, l) \in Nat /\ Num(pc', l) \in Nat
  BY NumType
<1>4. Num(pc', "onEmpty") # 0 => Len(m_inner_queue') <= Num(pc', "take")
  <2>1. CASE k = "onEmpty" \/ pc[t] = "take"  BY <2>1, <1>2, <1>3
  <2>2. CASE k # "onEmpty" /\ pc[t] # "take"
    <3>1. Num(pc', "onEmpty") <= Num(pc, "onEmpty")
      BY <1>1, <1>3, <2>2
    <3>2. Num(pc', "take") >= Num(pc, "take")
      BY <1>1, <1>3, <2>2
    <3>3. QED  BY <1>2, <1>3, <3>1, <3>2 DEF WakeInv
  <2>3. QED  BY <2>1, <2>2
<1>5. Num(pc', "onFull") # 0 => m_max <= Len(m_inner_queue') + Num(pc', "offer")
  <2>1. CASE k = "onFull" \/ pc[t] = "offer"  BY <2>1, <1>2, <1>3
  <2>2. CASE k # "onFull" /\ pc[t] # "offer"
    <3>1. Num(pc', "onFull") <= Num(pc, "onFull")
      BY <1>1, <1>3, <2>2
    <3>2. Num(pc', "offer") >= Num(pc, "offer")
      BY <1>1, <1>3, <2>2
    <3>3. QED  BY <1>2, <1>3, <3>1, <3>2 DEF WakeInv
  <2>3. QED  BY <2>1, <2>2
<1>6. QED  BY <1>4, <1>5 DEF WakeInv

LEMMA WakePush ==
  ASSUME BaseInv, WakeInv, NEW t \in Threads, Push(t, "idle"),
         pc[t] \in {"add", "offer"}
  PROVE  WakeInv'
<1>. DEFINE f == Move(pc, t, "idle")
<1>1. f \in [Threads -> Labels]
  BY MoveType DEF BaseInv, TypeOK, Labels
<1>2. \A l \in QueueLabels : Num(f, l) = Num(pc, l) - (IF pc[t] = l THEN 1 ELSE 0)
  <2>1. pc \in [Threads -> Labels] /\ "idle" \in Labels
    BY DEF BaseInv, TypeOK, Labels
  <2>2. \A l : Num(f, l) = Num(pc, l) + (IF "idle" = l THEN 1 ELSE 0)
                                     - (IF pc[t] = l THEN 1 ELSE 0)
    BY <2>1, NumMove
  <2>3. \A l : Num(pc, l) \in Nat  BY NumType
  <2>. HIDE DEF f
  <2>4. QED  BY <2>2, <2>3 DEF QueueLabels
<1>3. pc' \in NotifyOne(f, "onEmpty", "take")
  BY DEF Push
<1>4. Len(m_inner_queue') = Len(m_inner_queue) + 1 /\ Len(m_inner_queue) \in Nat
  BY DEF Push, BaseInv, TypeOK, Armed, Pushing
<1>. HIDE DEF f
<1>5. /\ Num(pc', "offer") = Num(f, "offer") /\ Num(pc', "onFull") = Num(f, "onFull")
      /\ Num(f, "onEmpty") = 0 => Num(pc', "onEmpty") = 0
      /\ Num(f, "onEmpty") # 0 => Num(pc', "take") = Num(f, "take") + 1
  BY <1>1, <1>3, NumNotify DEF Labels, QueueLabels
<1>6. /\ Num(pc, "take") \in Nat /\ Num(pc, "onEmpty") \in Nat
      /\ Num(pc, "offer") \in Nat /\ Num(pc, "onFull") \in Nat
  BY NumType
<1>7. /\ Num(f, "take") = Num(pc, "take") /\ Num(f, "onEmpty") = Num(pc, "onEmpty")
      /\ Num(f, "onFull") = Num(pc, "onFull")
      /\ Num(f, "offer") >= Num(pc, "offer") - 1
  BY <1>2, <1>6 DEF QueueLabels
<1>8. Num(pc', "onEmpty") # 0 => Len(m_inner_queue') <= Num(pc', "take")
  <2>1. SUFFICES ASSUME Num(pc', "onEmpty") # 0
                 PROVE  Len(m_inner_queue') <= Num(pc', "take")
    OBVIOUS
  <2>2. Num(pc', "take") = Num(pc, "take") + 1 /\ Num(pc, "onEmpty") # 0
    BY <1>5, <1>7, <2>1
  <2>3. QED  BY <1>4, <1>6, <2>2 DEF WakeInv
<1>9. Num(pc', "onFull") # 0 => m_max <= Len(m_inner_queue') + Num(pc', "offer")
  <2>1. Num(pc', "offer") >= Num(pc, "offer") - 1 /\ Num(pc', "onFull") = Num(pc, "onFull")
    BY <1>5, <1>7
  <2>2. Num(pc', "offer") \in Nat
    BY NumType
  <2>3. QED  BY <1>4, <1>6, <2>1, <2>2, QueueAssumption DEF WakeInv
<1>10. QED  BY <1>8, <1>9 DEF WakeInv

LEMMA WakePop ==
  ASSUME BaseInv, WakeInv, NEW t \in Threads, Pop(t, "idle"),
         m_inner_queue # <<>>, pc[t] \in {"take", "idle"}
  PROVE  WakeInv'
<1>. DEFINE f == Move(pc, t, "idle")
<1>1. f \in [Threads -> Labels]
  BY MoveType DEF BaseInv, TypeOK, Labels
<1>2. \A l \in QueueLabels : Num(f, l) = Num(pc, l) - (IF pc[t] = l THEN 1 ELSE 0)
  <2>1. pc \in [Threads -> Labels] /\ "idle" \in Labels
    BY DEF BaseInv, TypeOK, Labels
  <2>2. \A l : Num(f, l) = Num(pc, l) + (IF "idle" = l THEN 1 ELSE 0)
                                     - (IF pc[t] = l THEN 1 ELSE 0)
    BY <2>1, NumMove
  <2>3. \A l : Num(pc, l) \in Nat  BY NumType
  <2>. HIDE DEF f
  <2>4. QED  BY <2>2, <2>3 DEF QueueLabels
<1>3. pc' \in NotifyOne(f, "onFull", "offer")
  BY DEF Pop
<1>4. Len(m_inner_queue') = Len(m_inner_queue) - 1 /\ Len(m_inner_queue) \in Nat
  BY DEF Pop, BaseInv, TypeOK
<1>. HIDE DEF f
<1>5. /\ Num(pc', "take") = Num(f, "take") /\ Num(pc', "onEmpty") = Num(f, "onEmpty")
      /\ Num(f, "onFull") = 0 => Num(pc', "onFull") = 0
      /\ Num(f, "onFull") # 0 => Num(pc', "offer") = Num(f, "offer") + 1
  BY <1>1, <1>3, NumNotify DEF Labels, QueueLabels
<1>6. /\ Num(pc, "take") \in Nat /\ Num(pc, "onEmpty") \in Nat
      /\ Num(pc, "offer") \in Nat /\ Num(pc, "onFull") \in Nat
  BY NumType
<1>7. /\ Num(f, "offer") = Num(pc, "offer") /\ Num(f, "onEmpty") = Num(pc, "onEmpty")
      /\ Num(f, "onFull") = Num(pc, "onFull")
      /\ Num(f, "take") >= Num(pc, "take") - 1
  BY <1>2, <1>6 DEF QueueLabels
<1>8. Num(pc', "onFull") # 0 => m_max <= Len(m_inner_queue') + Num(pc', "offer")
  <2>1. SUFFICES ASSUME Num(pc', "onFull") # 0
                 PROVE  m_max <= Len(m_inner_queue') + Num(pc', "offer")
    OBVIOUS
  <2>2. Num(pc', "offer") = Num(pc, "offer") + 1 /\ Num(pc, "onFull") # 0
    BY <1>5, <1>7, <2>1
  <2>3. QED  BY <1>4, <1>6, <2>2, QueueAssumption DEF WakeInv
<1>9. Num(pc', "onEmpty") # 0 => Len(m_inner_queue') <= Num(pc', "take")
  <2>1. Num(pc', "take") >= Num(pc, "take") - 1 /\ Num(pc', "onEmpty") = Num(pc, "onEmpty")
    BY <1>5, <1>7
  <2>2. Num(pc', "take") \in Nat
    BY NumType
  <2>3. QED  BY <1>4, <1>6, <2>1, <2>2 DEF WakeInv
<1>10. QED  BY <1>8, <1>9 DEF WakeInv

(* notify_all leaves no waiter behind.                                     *)
LEMMA WakeAll ==
  ASSUME BaseInv, WakeInv, NEW t \in Threads, NEW k,
         \/ WakeUpEmpty(t, k) /\ pc[t] = "wakeEmpty" /\ k = "wakeFull"
         \/ WakeUpFull(t, k) /\ pc[t] = "wakeFull" /\ k = "idle"
  PROVE  WakeInv'
<1>1. UNCHANGED m_inner_queue
  BY DEF WakeUpEmpty, WakeUpFull, queueVars
<1>2. CASE WakeUpEmpty(t, k) /\ pc[t] = "wakeEmpty" /\ k = "wakeFull"
  <2>1. \A u \in Threads : pc'[u] # "onEmpty"
    BY <1>2 DEF WakeUpEmpty, NotifyAll, Move, BaseInv, TypeOK
  <2>2. \A l \in {"onFull", "offer"} : \A u \in Threads : pc'[u] = l <=> pc[u] = l
    BY <1>2 DEF WakeUpEmpty, NotifyAll, Move, BaseInv, TypeOK
  <2>3. \A l \in {"onFull", "offer"} : Num(pc', l) = Num(pc, l)
    BY <2>2 DEF Num
  <2>4. Num(pc', "onEmpty") = 0
    BY <2>1, NumType
  <2>5. QED  BY <1>1, <2>3, <2>4 DEF WakeInv
<1>3. CASE WakeUpFull(t, k) /\ pc[t] = "wakeFull" /\ k = "idle"
  <2>1. \A u \in Threads : pc'[u] # "onFull"
    BY <1>3 DEF WakeUpFull, NotifyAll, Move, BaseInv, TypeOK
  <2>2. \A l \in {"onEmpty", "take"} : \A u \in Threads : pc'[u] = l <=> pc[u] = l
    BY <1>3 DEF WakeUpFull, NotifyAll, Move, BaseInv, TypeOK
  <2>3. \A l \in {"onEmpty", "take"} : Num(pc', l) = Num(pc, l)
    BY <2>2 DEF Num
  <2>4. Num(pc', "onFull") = 0
    BY <2>1, NumType
  <2>5. QED  BY <1>1, <2>3, <2>4 DEF WakeInv
<1>4. QED  BY <1>2, <1>3

LEMMA WakeNext ==
  BaseInv /\ SawIsStillTrue /\ NoLostWakeUp /\ [Next]_vars => NoLostWakeUp'
<1>. SUFFICES ASSUME BaseInv, SawIsStillTrue, NoLostWakeUp, [Next]_vars, Quiet'
              PROVE  WakeInv'
  BY WakeInvIs
<1>. USE DEF Labels, QueueLabels
<1>1. Quiet
  <2>1. \A t \in Threads : m_flag[t] => m_flag'[t]
    <3>1. \/ UNCHANGED m_flag
          \/ \E u : m_flag' = [m_flag EXCEPT ![u] = TRUE]
      BY DEF Next, ConsumerNext, CallTake, StepTake, CallPoll, Poll, PollThrows,
        Take, TakeInterrupted, TakeSeesEmpty, TakeBlocks, Goto, Pop, Push,
        ProducerNext, CallPush, StepAdd, Add, AddRefuses, StepOffer, Offer,
        OfferInterrupted, OfferSeesFull, OfferBlocks, InterrupterNext,
        CallInterrupt, Interrupt, StepWakeUpAll, WakeUpEmpty, WakeUpFull,
        SpuriousWakeUp, queueVars, vars
    <3>2. QED  BY <3>1 DEF BaseInv, TypeOK
  <2>2. QED  BY <2>1 DEF Quiet
<1>2. WakeInv
  BY <1>1, WakeInvIs
<1>3. ASSUME NEW t \in Threads, NEW k \in Labels, Goto(t, k),
             k = "onEmpty" \/ pc[t] = "take" => m_inner_queue = <<>>,
             k = "onFull" \/ pc[t] = "offer" => Len(m_inner_queue) = m_max
      PROVE  WakeInv'
  BY <1>2, <1>3, WakeMove DEF Goto, queueVars
<1>4. ASSUME NEW t \in Consumers, ConsumerNext(t) PROVE WakeInv'
  <2>. t \in Threads  BY ClientsAssumption
  <2>1. CASE CallTake(t)  BY <2>1, <1>3 DEF CallTake
  <2>2. CASE Take(t, "idle")  BY <2>2, <1>2, WakePop DEF Take
  <2>3. ~TakeInterrupted(t, "idle")
    BY <1>1 DEF TakeInterrupted, InterruptPointThrows, Quiet
  <2>4. CASE TakeSeesEmpty(t)  BY <2>4, <1>3 DEF TakeSeesEmpty
  <2>5. CASE TakeBlocks(t)
    BY <2>5, <1>3 DEF TakeBlocks, SawIsStillTrue, At
  <2>6. CASE pc[t] = "idle" /\ Poll(t, "idle")  BY <2>6, <1>2, WakePop DEF Poll
  <2>7. CASE pc[t] = "idle" /\ PollThrows(t, "idle")
    BY <2>7, <1>3 DEF PollThrows
  <2>8. QED
    BY <1>4, <2>1, <2>2, <2>3, <2>4, <2>5, <2>6, <2>7
    DEF ConsumerNext, StepTake, CallPoll
<1>5. ASSUME NEW t \in Producers, ProducerNext(t) PROVE WakeInv'
  <2>. t \in Threads  BY ClientsAssumption
  <2>1. ASSUME NEW e \in Elements, NEW operation \in {"add", "offer"},
               CallPush(t, e, operation)
        PROVE  WakeInv'
    BY <2>1, <1>2, WakeMove DEF CallPush
  <2>2. CASE pc[t] = "add" /\ Add(t, "idle")  BY <2>2, <1>2, WakePush DEF Add
  <2>3. CASE pc[t] = "add" /\ AddRefuses(t, "idle")
    BY <2>3, <1>3 DEF AddRefuses
  <2>4. CASE Offer(t, "idle")  BY <2>4, <1>2, WakePush DEF Offer
  <2>5. ~OfferInterrupted(t, "idle")
    BY <1>1 DEF OfferInterrupted, InterruptPointThrows, Quiet
  <2>6. CASE OfferSeesFull(t)
    <3>1. Len(m_inner_queue) = m_max
      BY <2>6, QueueAssumption DEF OfferSeesFull, BaseInv, TypeOK, WithinCapacity
    <3>2. QED  BY <2>6, <3>1, <1>3 DEF OfferSeesFull
  <2>7. CASE OfferBlocks(t)
    BY <2>7, <1>3 DEF OfferBlocks, SawIsStillTrue, At
  <2>8. QED
    BY <1>5, <2>1, <2>2, <2>3, <2>4, <2>5, <2>6, <2>7
    DEF ProducerNext, StepAdd, StepOffer
<1>6. ASSUME NEW i \in Interrupters, InterrupterNext(i) PROVE WakeInv'
  <2>. i \in Threads  BY ClientsAssumption
  <2>1. ASSUME NEW t \in Producers \cup Consumers PROVE ~CallInterrupt(i, t)
    <3>1. t \in Threads  BY ClientsAssumption
    <3>2. CallInterrupt(i, t) => m_flag'[t]
      BY <3>1 DEF CallInterrupt, Interrupt, BaseInv, TypeOK
    <3>3. QED  BY <3>1, <3>2 DEF Quiet
  <2>2. CASE StepWakeUpAll(i)
    BY <2>2, <1>2, WakeAll DEF StepWakeUpAll
  <2>3. QED  BY <1>6, <2>1, <2>2 DEF InterrupterNext
<1>7. ASSUME NEW t \in Threads, SpuriousWakeUp(t) PROVE WakeInv'
  BY <1>7, <1>2, WakeMove DEF SpuriousWakeUp, queueVars
<1>8. CASE UNCHANGED vars
  BY <1>2, <1>8 DEF vars, WakeInv
<1>9. QED  BY <1>4, <1>5, <1>6, <1>7, <1>8 DEF Next

(* No wake-up is lost between clients nobody interrupts, for any number of *)
(* producers and consumers and any capacity: one notify_one per push and   *)
(* per pop is enough.                                                      *)
THEOREM WakeUpNotLost == Spec => []NoLostWakeUp
<1>1. Init => NoLostWakeUp  BY DEF Init, NoLostWakeUp, At
<1>2. QED
  BY <1>1, BaseInit, BaseNext, SawStillTrue, SawNext, WakeNext, PTL DEF Spec

-----------------------------------------------------------------------------
(* At most one interrupted client misses wakeUpAll(), by following what    *)
(* each of its two notify_all calls still has to reach.                    *)

Near == {"sawEmpty", "sawFull", "onEmpty"}
Far == Near \cup {"onFull"}

(* At most one thread at these labels has been interrupted.                *)
OneFlagged(labels) ==
  \A t, u \in Threads :
    pc[t] \in labels /\ pc[u] \in labels /\ m_flag[t] /\ m_flag[u] => t = u

NoneAt(label) == \A i \in Interrupters : pc[i] # label

(* Once nobody has the first notify_all before it, at most one interrupted *)
(* thread holds the mutex or waits in m_empty_cond; once nobody has the    *)
(* second one before it either, at most one waits anywhere.                *)
MissedInv ==
  /\ NoneAt("wakeEmpty") => OneFlagged(Near)
  /\ NoneAt("wakeEmpty") /\ NoneAt("wakeFull") => OneFlagged(Far)

(* An interrupted thread leaves its wait and does not begin one: a step of *)
(* a client adds nobody to those that count.                               *)
LEMMA MissedStays ==
  ASSUME MissedInv, UNCHANGED m_flag,
         \A u \in Threads : m_flag[u] /\ pc'[u] \in Near => pc[u] \in Near,
         \A u \in Threads : m_flag[u] /\ pc'[u] \in Far => pc[u] \in Far,
         \A i \in Interrupters : pc'[i] = pc[i]
  PROVE  MissedInv'
BY DEF MissedInv, OneFlagged, NoneAt

(* A client that moves to a label it may reach while interrupted.          *)
LEMMA MissedGoto ==
  ASSUME BaseInv, MissedInv, NEW t \in Threads \ Interrupters, NEW k \in Labels,
         pc' = Move(pc, t, k), UNCHANGED m_flag,
         \/ k \notin Far
         \/ k \in Near /\ pc[t] \in Near
         \/ k = "onFull" /\ pc[t] \in Far
         \/ ~m_flag[t]
  PROVE  MissedInv'
<1>1. \A u \in Threads : m_flag[u] /\ pc'[u] \in Near => pc[u] \in Near
  BY DEF Move, BaseInv, TypeOK, Near, Far
<1>2. \A u \in Threads : m_flag[u] /\ pc'[u] \in Far => pc[u] \in Far
  BY DEF Move, BaseInv, TypeOK, Near, Far
<1>3. \A i \in Interrupters : pc'[i] = pc[i]
  BY ClientsAssumption DEF Move, BaseInv, TypeOK
<1>4. QED  BY <1>1, <1>2, <1>3, MissedStays

(* The waiter a push or a pop notifies leaves its condition variable; it   *)
(* is no interrupter, for none of them waits.                              *)
InterruptersOutside ==
  \A i \in Interrupters : pc[i] \in {"idle", "wakeEmpty", "wakeFull"}

LEMMA MissedPushPop ==
  ASSUME BaseInv, InterruptersOutside, MissedInv,
         NEW t \in Threads \ Interrupters, Push(t, "idle") \/ Pop(t, "idle")
  PROVE  MissedInv'
<1>. DEFINE f == Move(pc, t, "idle")
<1>1. PICK c \in {"onEmpty", "onFull"}, d \in {"take", "offer"} :
         pc' \in NotifyOne(f, c, d)
  BY DEF Push, Pop
<1>2. \A u \in Threads : f[u] \in Far => f[u] = pc[u]
  BY DEF Move, BaseInv, TypeOK, Near, Far
<1>3. \A i \in Interrupters : i \in Threads /\ f[i] = pc[i] /\ f[i] # c
  BY ClientsAssumption DEF Move, BaseInv, TypeOK, InterruptersOutside
<1>4. f \in [Threads -> Labels]
  BY MoveType DEF BaseInv, TypeOK, Labels
<1>. HIDE DEF f
<1>5. /\ \A u \in Threads : pc'[u] \in Far => pc'[u] = f[u]
      /\ \A i \in Interrupters : pc'[i] = f[i]
  <2>1. CASE pc' = f  BY <2>1, <1>3
  <2>2. ASSUME NEW u \in Threads, f[u] = c, pc' = Move(f, u, d)
        PROVE  /\ \A w \in Threads : pc'[w] \in Far => pc'[w] = f[w]
               /\ \A i \in Interrupters : pc'[i] = f[i]
    BY <2>2, <1>3, <1>4 DEF Move, Near, Far
  <2>3. QED  BY <1>1, <2>1, <2>2, NotifyOneIs
<1>6. UNCHANGED m_flag
  BY DEF Push, Pop
<1>7. Near \subseteq Far
  BY DEF Far
<1>8. QED  BY <1>2, <1>3, <1>5, <1>6, <1>7, MissedStays

LEMMA OutsideNext ==
  BaseInv /\ InterruptersOutside /\ [Next]_vars => InterruptersOutside'
<1>. SUFFICES ASSUME BaseInv, InterruptersOutside, [Next]_vars,
                     NEW i \in Interrupters
              PROVE  pc'[i] \in {"idle", "wakeEmpty", "wakeFull"}
  BY DEF InterruptersOutside
<1>. i \in Threads /\ pc[i] \in {"idle", "wakeEmpty", "wakeFull"}
  BY ClientsAssumption DEF InterruptersOutside
<1>1. ASSUME NEW t \in Threads \ Interrupters, NEW k,
             \/ pc' = Move(pc, t, k)
             \/ pc' \in NotifyOne(Move(pc, t, k), "onEmpty", "take")
             \/ pc' \in NotifyOne(Move(pc, t, k), "onFull", "offer")
      PROVE  pc'[i] = pc[i]
  BY <1>1 DEF NotifyOne, Move, BaseInv, TypeOK
<1>2. ASSUME NEW t \in Consumers, ConsumerNext(t) PROVE pc'[i] = pc[i]
  BY <1>1, <1>2, ClientsAssumption DEF ConsumerNext, CallTake, StepTake,
    CallPoll, Poll, PollThrows, Take, TakeInterrupted, TakeSeesEmpty,
    TakeBlocks, Goto, Pop
<1>3. ASSUME NEW t \in Producers, ProducerNext(t) PROVE pc'[i] = pc[i]
  BY <1>1, <1>3, ClientsAssumption DEF ProducerNext, CallPush, StepAdd, Add,
    AddRefuses, StepOffer, Offer, OfferInterrupted, OfferSeesFull,
    OfferBlocks, Goto, Push
<1>4. ASSUME NEW j \in Interrupters, InterrupterNext(j)
      PROVE  pc'[i] \in {"idle", "wakeEmpty", "wakeFull"}
  BY <1>4 DEF InterrupterNext, CallInterrupt, StepWakeUpAll, WakeUpEmpty,
    WakeUpFull, NotifyAll, Move, BaseInv, TypeOK
<1>5. ASSUME NEW t \in Threads, SpuriousWakeUp(t) PROVE pc'[i] = pc[i]
  BY <1>5 DEF SpuriousWakeUp, Move, BaseInv, TypeOK
<1>6. QED  BY <1>2, <1>3, <1>4, <1>5 DEF Next, vars

LEMMA MissedNext ==
  BaseInv /\ SawIsStillTrue /\ InterruptersOutside /\ MissedInv /\ [Next]_vars
    => MissedInv'
<1>. SUFFICES ASSUME BaseInv, SawIsStillTrue, InterruptersOutside, MissedInv,
                     [Next]_vars
              PROVE  MissedInv'
  OBVIOUS
<1>1. ASSUME NEW t \in Threads \ Interrupters, NEW k \in Labels, Goto(t, k),
             \/ k \notin Far
             \/ k \in Near /\ pc[t] \in Near
             \/ k = "onFull" /\ pc[t] \in Far
             \/ ~m_flag[t]
      PROVE  MissedInv'
  BY <1>1, MissedGoto DEF Goto, queueVars
<1>. USE DEF Labels, QueueLabels
<1>2. ASSUME NEW t \in Consumers, ConsumerNext(t) PROVE MissedInv'
  <2>. t \in Threads \ Interrupters  BY ClientsAssumption
  <2>1. CASE CallTake(t)  BY <2>1, <1>1 DEF CallTake, Near, Far
  <2>2. CASE Take(t, "idle")  BY <2>2, MissedPushPop DEF Take
  <2>3. CASE TakeInterrupted(t, "idle")
    BY <2>3, <1>1 DEF TakeInterrupted, Near, Far
  <2>4. CASE TakeSeesEmpty(t)
    BY <2>4, <1>1 DEF TakeSeesEmpty, InterruptPointThrows
  <2>5. CASE TakeBlocks(t)  BY <2>5, <1>1 DEF TakeBlocks, Near
  <2>6. CASE Poll(t, "idle")  BY <2>6, MissedPushPop DEF Poll
  <2>7. CASE PollThrows(t, "idle")  BY <2>7, <1>1 DEF PollThrows, Near, Far
  <2>8. QED
    BY <1>2, <2>1, <2>2, <2>3, <2>4, <2>5, <2>6, <2>7
    DEF ConsumerNext, StepTake, CallPoll
<1>3. ASSUME NEW t \in Producers, ProducerNext(t) PROVE MissedInv'
  <2>. t \in Threads \ Interrupters  BY ClientsAssumption
  <2>1. ASSUME NEW e \in Elements, NEW operation \in {"add", "offer"},
               CallPush(t, e, operation)
        PROVE  MissedInv'
    BY <2>1, MissedGoto DEF CallPush, Near, Far
  <2>2. CASE Add(t, "idle")  BY <2>2, MissedPushPop DEF Add
  <2>3. CASE AddRefuses(t, "idle")  BY <2>3, <1>1 DEF AddRefuses, Near, Far
  <2>4. CASE Offer(t, "idle")  BY <2>4, MissedPushPop DEF Offer
  <2>5. CASE OfferInterrupted(t, "idle")
    BY <2>5, <1>1 DEF OfferInterrupted, Near, Far
  <2>6. CASE OfferSeesFull(t)
    BY <2>6, <1>1 DEF OfferSeesFull, InterruptPointThrows
  <2>7. CASE OfferBlocks(t)  BY <2>7, <1>1 DEF OfferBlocks, Near, Far
  <2>8. QED
    BY <1>3, <2>1, <2>2, <2>3, <2>4, <2>5, <2>6, <2>7
    DEF ProducerNext, StepAdd, StepOffer
<1>4. ASSUME NEW i \in Interrupters, InterrupterNext(i) PROVE MissedInv'
  <2>. i \in Threads  BY ClientsAssumption
  <2>1. ASSUME NEW t \in Producers \cup Consumers, CallInterrupt(i, t)
        PROVE  MissedInv'
    <3>1. pc'[i] = "wakeEmpty"
      BY <2>1 DEF CallInterrupt, Move, BaseInv, TypeOK
    <3>2. QED  BY <3>1 DEF MissedInv, NoneAt
  <2>2. CASE pc[i] = "wakeEmpty" /\ WakeUpEmpty(i, "wakeFull")
    <3>1. pc'[i] = "wakeFull"
      BY <2>2 DEF WakeUpEmpty, NotifyAll, Move, BaseInv, TypeOK
    <3>2. \A u \in Threads : pc'[u] \in Near => pc[u] \in Saw
      BY <2>2 DEF WakeUpEmpty, NotifyAll, Move, BaseInv, TypeOK, Near, Saw
    <3>3. OneFlagged(Near)'
      BY <3>2 DEF OneFlagged, SawIsStillTrue, At, Saw
    <3>4. QED  BY <3>1, <3>3 DEF MissedInv, NoneAt
  <2>3. CASE pc[i] = "wakeFull" /\ WakeUpFull(i, "idle")
    <3>1. NoneAt("wakeEmpty")' => NoneAt("wakeEmpty")
      BY <2>3, ClientsAssumption
      DEF WakeUpFull, NotifyAll, Move, BaseInv, TypeOK, NoneAt
    <3>2. \A u \in Threads : pc'[u] \in Far => pc[u] \in Near
      BY <2>3 DEF WakeUpFull, NotifyAll, Move, BaseInv, TypeOK, Near, Far
    <3>3. UNCHANGED m_flag /\ Near \subseteq Far
      BY <2>3 DEF WakeUpFull, queueVars, Far
    <3>4. OneFlagged(Near) => OneFlagged(Near)' /\ OneFlagged(Far)'
      BY <3>2, <3>3 DEF OneFlagged
    <3>5. QED  BY <3>1, <3>4 DEF MissedInv
  <2>4. QED  BY <1>4, <2>1, <2>2, <2>3 DEF InterrupterNext, StepWakeUpAll
<1>5. ASSUME NEW t \in Threads, SpuriousWakeUp(t) PROVE MissedInv'
  <2>1. t \notin Interrupters
    BY <1>5 DEF SpuriousWakeUp, InterruptersOutside
  <2>2. UNCHANGED m_flag  BY <1>5 DEF SpuriousWakeUp, queueVars
  <2>3. PICK k \in {"take", "offer"} : pc' = Move(pc, t, k)
    BY <1>5 DEF SpuriousWakeUp
  <2>4. QED  BY <2>1, <2>2, <2>3, MissedGoto DEF Near, Far
<1>6. CASE UNCHANGED vars
  BY <1>6 DEF vars, MissedInv, OneFlagged, NoneAt
<1>7. QED  BY <1>2, <1>3, <1>4, <1>5, <1>6 DEF Next

(* interrupt() followed by wakeUpAll() misses at most one thread, for any  *)
(* number of clients and of interrupters that call at the same time: the   *)
(* first notify_all misses only the thread that holds the mutex, and the   *)
(* second reaches whoever waits for a place.                               *)
THEOREM OneMissedAtMost == Spec => []AtMostOneMissed
<1>1. Init => InterruptersOutside /\ MissedInv
  BY ClientsAssumption
  DEF Init, NoFlagSet, InterruptersOutside, MissedInv, OneFlagged, NoneAt
<1>2. MissedInv => AtMostOneMissed
  BY DEF MissedInv, OneFlagged, NoneAt, AtMostOneMissed, At, Near, Far
<1>3. QED
  BY <1>1, <1>2, BaseInit, BaseNext, OutsideNext, MissedNext, SawStillTrue,
    SawNext, PTL DEF Spec

=============================================================================
