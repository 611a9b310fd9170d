---------------------------- MODULE PollChatProofs ----------------------------
(***************************************************************************)
(* Theorems about PollChat, for any number of clients and of slots, any    *)
(* receive buffer and any number of lines.                                 *)
(***************************************************************************)
EXTENDS PollChat, RecursionLemmas, FiniteSetTheorems

ChatTypes ==
  /\ fd_arr \in [Slot -> Client \cup {Listening, None}]
  /\ revents \in [Slot -> {"none", "in", "err"}]
  /\ connected_fds \in [Slot -> Client \cup {None}]
  /\ connected_num \in Int /\ n_ready \in Int
  /\ i \in 0..POLL_MAX /\ k \in 0..POLL_MAX
  /\ pc \in {"poll", "loop", "write", "crashed"}
  /\ accepted \in [Client -> {"no", "backlog", "yes"}]
  /\ link \in [Client -> {"up", "closed", "reset", "failed"}]
  /\ waiting \in [Client -> BOOLEAN]
  /\ outbox \in [Client -> Nat] /\ inbox \in [Client -> Nat] /\ typed \in [Client -> Nat]

(* Where main() is in its loops; the events that are still ahead are of    *)
(* slots that are still taken.                                             *)
LoopsAgree ==
  /\ pc = "poll" => i = 0
  /\ pc \in {"poll", "loop"} => k = 0
  /\ pc \in {"loop", "write"} => \A s \in Slot : s >= i =>
        /\ revents[s] # "none" => fd_arr[s] # None
        /\ revents[s] = "err" => fd_arr[s] # Listening
  /\ pc = "write" => i \in Slot /\ revents[i] = "in" /\ fd_arr[i] \in Client

(* A client that nobody will wake up.                                      *)
Quiet(c) == link[c] = "up" /\ waiting[c] /\ inbox[c] = 0 /\ outbox[c] = 0

(* d is still to be written to in a pass that writes what x sent.          *)
StillToWrite(x, d) ==
  pc = "write" /\ x = fd_arr[i] /\ \A s \in Slot : connected_fds[s] = d => s >= k

OneQuiet ==
  /\ \A c \in Client : accepted[c] # "yes" => inbox[c] = 0 /\ (waiting[c] => outbox[c] > 0)
  /\ pc # "crashed" => \A c, d \in Watched : c # d /\ Quiet(c) /\ Quiet(d) =>
        StillToWrite(c, d) \/ StillToWrite(d, c)

PollInv == ChatTypes /\ SlotsAgree /\ LoopsAgree /\ OneQuiet

-----------------------------------------------------------------------------
LEMMA SlotNumbers ==
  /\ POLL_MAX \in Nat \ {0} /\ Slot \subseteq Nat /\ 0 \in Slot /\ IsFiniteSet(Slot)
  /\ \A s : s \in Slot <=> s \in Nat /\ s < POLL_MAX
<1>1. POLL_MAX \in Nat \ {0}
  BY PollChatAssumption
<1>2. IsFiniteSet(0..POLL_MAX-1)
  BY <1>1, FS_Interval
<1>3. QED  BY <1>1, <1>2 DEF Slot

LEMMA WatchedFinite ==
  ASSUME ChatTypes
  PROVE  /\ Watched \subseteq Client /\ IsFiniteSet(Watched) /\ Cardinality(Watched) \in Nat
         /\ Listening \notin Client /\ None \notin Client /\ Listening # None
<1>1. Watched \subseteq Client
  BY DEF ChatTypes, Watched
<1>2. IsFiniteSet(Watched) /\ Cardinality(Watched) \in Nat
  BY <1>1, PollChatAssumption, FS_Subset, FS_CardinalityType
<1>3. QED  BY <1>1, <1>2, PollChatAssumption

(* The events ahead are one less once that of slot i is handled.           *)
Ahead(j, r) == {s \in Slot : s >= j /\ r[s] # "none"}

LEMMA AheadOf ==
  ASSUME NEW j \in Nat, NEW r
  PROVE  /\ IsFiniteSet(Ahead(j, r)) /\ Cardinality(Ahead(j, r)) \in Nat
         /\ j \in Slot /\ r[j] # "none" =>
              Cardinality(Ahead(j+1, r)) = Cardinality(Ahead(j, r)) - 1
         /\ j \in Slot /\ r[j] = "none" => Ahead(j+1, r) = Ahead(j, r)
<1>1. IsFiniteSet(Ahead(j, r)) /\ Cardinality(Ahead(j, r)) \in Nat
  BY SlotNumbers, FS_Subset, FS_CardinalityType DEF Ahead
<1>2. ASSUME j \in Slot, r[j] # "none"
      PROVE  Cardinality(Ahead(j+1, r)) = Cardinality(Ahead(j, r)) - 1
  <2>1. j \in Ahead(j, r)
    BY <1>2 DEF Ahead
  <2>2. Ahead(j+1, r) = Ahead(j, r) \ {j}
    BY SlotNumbers DEF Ahead
  <2>3. QED  BY <1>1, <2>1, <2>2, FS_RemoveElement
<1>3. ASSUME j \in Slot, r[j] = "none" PROVE Ahead(j+1, r) = Ahead(j, r)
  BY <1>3, SlotNumbers DEF Ahead
<1>4. QED  BY <1>1, <1>2, <1>3

-----------------------------------------------------------------------------
LEMMA PollInit == Init => PollInv
<1>. SUFFICES ASSUME Init PROVE PollInv
  OBVIOUS
<1>. USE DEF Init
<1>1. ChatTypes
  BY SlotNumbers DEF ChatTypes
<1>2. Watched = {}
  BY DEF Watched
<1>3. SlotsAgree
  BY <1>2, SlotNumbers, FS_EmptySet, PollChatAssumption DEF SlotsAgree
<1>4. LoopsAgree
  BY DEF LoopsAgree
<1>5. OneQuiet
  BY <1>2 DEF OneQuiet
<1>6. QED  BY <1>1, <1>3, <1>4, <1>5 DEF PollInv

-----------------------------------------------------------------------------
(* Steps of the clients.                                                   *)

(* A client's step wakes it up, or leaves it as quiet as it was.           *)
LEMMA ClientStep ==
  ASSUME PollInv, NEW c \in Client,
         Connect(c) \/ Speak(c) \/ Hear(c) \/ Quit(c) \/ Fail(c)
  PROVE  PollInv'
<1>. USE DEF PollInv
<1>1. UNCHANGED serverVars
  BY DEF Connect, Speak, Hear, Quit, Fail
<1>2. ChatTypes'
  <2>1. CASE Hear(c)
    <3>1. PICK n \in 0..inbox[c]-1 : inbox' = [inbox EXCEPT ![c] = n]
      BY <2>1 DEF Hear
    <3>2. n \in Nat
      OBVIOUS
    <3>3. QED  BY <1>1, <2>1, <3>1, <3>2 DEF ChatTypes, Hear, serverVars
  <2>2. CASE Connect(c)
    BY <1>1, <2>2 DEF ChatTypes, Connect, serverVars
  <2>3. CASE Speak(c)
    <3>1. /\ typed' \in [Client -> Nat] /\ outbox' \in [Client -> Nat]
          /\ waiting' \in [Client -> BOOLEAN]
      BY <2>3 DEF ChatTypes, Speak
    <3>2. QED  BY <1>1, <2>3, <3>1 DEF ChatTypes, Speak, serverVars
  <2>4. CASE Quit(c)
    BY <1>1, <2>4 DEF ChatTypes, Quit, serverVars
  <2>5. CASE Fail(c)
    BY <1>1, <2>5 DEF ChatTypes, Fail, serverVars
  <2>6. QED  BY <2>1, <2>2, <2>3, <2>4, <2>5
<1>3. \A d \in Client :
        /\ accepted[d] = "yes" <=> accepted'[d] = "yes"
        /\ inbox'[d] = inbox[d] \/ accepted[d] = "yes" \/ inbox[d] > 0
        /\ waiting'[d] => waiting[d] \/ outbox'[d] > 0
        /\ outbox'[d] >= outbox[d]
        /\ link'[d] = "up" => link[d] = "up"
        /\ waiting'[d] => inbox'[d] = inbox[d]
  <2>1. CASE Connect(c)
    BY <2>1 DEF Connect, ChatTypes
  <2>2. CASE Speak(c)
    BY <2>2 DEF Speak, ChatTypes
  <2>3. CASE Hear(c)
    BY <2>3 DEF Hear, ChatTypes
  <2>4. CASE Quit(c)
    BY <2>4 DEF Quit, ChatTypes
  <2>5. CASE Fail(c)
    BY <2>5 DEF Fail, ChatTypes
  <2>6. QED  BY <2>1, <2>2, <2>3, <2>4, <2>5
<1>4. \A d \in Client : Quiet(d)' => Quiet(d)
  BY <1>2, <1>3 DEF Quiet, ChatTypes
<1>5. SlotsAgree'
  <2>1. Watched' = Watched
    BY <1>1 DEF Watched, serverVars
  <2>2. QED  BY <1>1, <1>3, <2>1, WatchedFinite DEF SlotsAgree, serverVars
<1>6. LoopsAgree'
  BY <1>1 DEF LoopsAgree, serverVars
<1>7. OneQuiet'
  <2>1. Watched' = Watched /\ \A x, d : StillToWrite(x, d)' <=> StillToWrite(x, d)
    BY <1>1 DEF Watched, StillToWrite, serverVars
  <2>2. \A d \in Client : accepted'[d] # "yes" =>
          inbox'[d] = 0 /\ (waiting'[d] => outbox'[d] > 0)
    BY <1>2, <1>3 DEF OneQuiet, ChatTypes
  <2>3. QED  BY <1>1, <1>4, <2>1, <2>2, WatchedFinite DEF OneQuiet, serverVars
<1>8. QED  BY <1>2, <1>5, <1>6, <1>7

-----------------------------------------------------------------------------
(* Steps of the server outside of the loop that writes.                    *)

(* In such a step no client becomes quiet that was not.                    *)
LEMMA StillOneQuiet ==
  ASSUME OneQuiet, pc \in {"poll", "loop"}, UNCHANGED clientVars,
         Watched' \subseteq Watched
  PROVE  OneQuiet'
<1>1. \A c, d \in Watched : c # d => ~(Quiet(c) /\ Quiet(d))
  BY DEF OneQuiet, StillToWrite
<1>2. \A c : Quiet(c)' <=> Quiet(c)
  BY DEF Quiet, clientVars
<1>3. QED  BY <1>1, <1>2 DEF OneQuiet, clientVars

LEMMA PollStep ==
  ASSUME PollInv, Poll
  PROVE  PollInv'
<1>. USE DEF PollInv
<1>1. /\ pc = "poll" /\ i = 0 /\ k = 0 /\ pc' = "loop"
      /\ revents' = [s \in Slot |-> Event(fd_arr[s])]
      /\ n_ready' = Events(revents')
      /\ UNCHANGED <<fd_arr, connected_fds, connected_num, i, k, clientVars>>
  BY DEF Poll, LoopsAgree
<1>2. \A s \in Slot : /\ revents'[s] \in {"none", "in", "err"}
                      /\ revents'[s] # "none" => fd_arr[s] # None
                      /\ revents'[s] = "err" => fd_arr[s] # Listening
  BY <1>1, WatchedFinite DEF Event
<1>3. n_ready' = Cardinality(Ahead(i, revents')) /\ n_ready' \in Int
  <2>1. Ahead(i, revents') = {s \in Slot : revents'[s] # "none"}
    BY <1>1, SlotNumbers DEF Ahead
  <2>2. Cardinality(Ahead(i, revents')) \in Nat
    BY <1>1, AheadOf
  <2>3. Events(revents') = Cardinality(Ahead(i, revents'))
    BY <2>1 DEF Events
  <2>4. QED  BY <1>1, <2>2, <2>3
<1>4. ChatTypes'
  BY <1>1, <1>2, <1>3 DEF ChatTypes, clientVars
<1>5. Watched' = Watched
  BY <1>1 DEF Watched
<1>6. SlotsAgree'
  BY <1>1, <1>3, <1>5 DEF SlotsAgree, Ahead, clientVars
<1>7. LoopsAgree'
  BY <1>1, <1>2 DEF LoopsAgree
<1>8. OneQuiet'
  BY <1>1, <1>5, StillOneQuiet
<1>9. QED  BY <1>4, <1>6, <1>7, <1>8

LEMMA LoopDoneStep ==
  ASSUME PollInv, LoopDone
  PROVE  PollInv'
<1>. USE DEF PollInv
<1>1. /\ pc = "loop" /\ pc' = "poll" /\ i' = 0
      /\ UNCHANGED <<fd_arr, revents, connected_fds, connected_num, n_ready, k, clientVars>>
  BY DEF LoopDone
<1>2. ChatTypes'
  BY <1>1, SlotNumbers DEF ChatTypes, clientVars
<1>3. Watched' = Watched
  BY <1>1 DEF Watched
<1>4. SlotsAgree'
  BY <1>1, <1>3 DEF SlotsAgree, clientVars
<1>5. LoopsAgree'
  BY <1>1 DEF LoopsAgree
<1>6. OneQuiet'
  BY <1>1, <1>3, StillOneQuiet
<1>7. QED  BY <1>2, <1>4, <1>5, <1>6

LEMMA ThisTurn ==
  ASSUME PollInv, NEW event, Turn(event)
  PROVE  /\ pc = "loop" /\ n_ready > 0 /\ i \in Slot /\ revents[i] = event /\ k = 0
         /\ n_ready = Cardinality(Ahead(i, revents)) /\ i \in Nat
BY SlotNumbers DEF PollInv, Turn, ChatTypes, LoopsAgree, SlotsAgree, Ahead

LEMMA NotReadyStep ==
  ASSUME PollInv, NotReady
  PROVE  PollInv'
<1>. USE DEF PollInv
<1>1. /\ pc = "loop" /\ i \in Slot /\ revents[i] = "none" /\ i' = i + 1 /\ i \in Nat
      /\ n_ready = Cardinality(Ahead(i, revents))
      /\ UNCHANGED <<fd_arr, revents, connected_fds, connected_num, n_ready, pc, k, clientVars>>
  BY ThisTurn DEF NotReady
<1>2. ChatTypes'
  BY <1>1, SlotNumbers DEF ChatTypes, clientVars
<1>3. Watched' = Watched
  BY <1>1 DEF Watched
<1>4. SlotsAgree'
  <2>1. n_ready' = Cardinality(Ahead(i', revents'))
    BY <1>1, AheadOf
  <2>2. QED  BY <1>1, <1>3, <2>1 DEF SlotsAgree, Ahead, clientVars
<1>5. LoopsAgree'
  BY <1>1, SlotNumbers DEF LoopsAgree
<1>6. OneQuiet'
  BY <1>1, <1>3, StillOneQuiet
<1>7. QED  BY <1>2, <1>4, <1>5, <1>6

(* The connection of slot i is forgotten, after its end or an error.       *)
LEMMA ForgetStep ==
  ASSUME PollInv, NEW event \in {"in", "err"}, Turn(event), fd_arr[i] # Listening,
         Forget, Handled, UNCHANGED <<revents, k, clientVars>>
  PROVE  PollInv'
<1>. USE DEF PollInv
<1>. DEFINE c == fd_arr[i]
<1>1. /\ pc = "loop" /\ i \in Slot /\ revents[i] # "none" /\ i' = i + 1 /\ i \in Nat
      /\ n_ready = Cardinality(Ahead(i, revents)) /\ n_ready' = n_ready - 1
      /\ pc' = "loop" /\ k = 0
  BY ThisTurn DEF Handled
<1>2. /\ fd_arr' = [fd_arr EXCEPT ![i] = None]
      /\ connected_fds' = [connected_fds EXCEPT ![i] = None]
      /\ connected_num' = connected_num - 1
  BY DEF Forget
<1>3. c \in Client /\ i # 0 /\ connected_fds[i] = c
  BY <1>1 DEF LoopsAgree, SlotsAgree, ChatTypes
<1>4. ChatTypes'
  BY <1>1, <1>2, SlotNumbers DEF ChatTypes, clientVars
<1>5. Watched' = Watched \ {c} /\ c \in Watched
  <2>1. ASSUME NEW s \in Slot, s # i, connected_fds[s] = c PROVE FALSE
    <3>1. s # 0 /\ c # None
      BY <1>3, <2>1, WatchedFinite DEF SlotsAgree
    <3>2. fd_arr[s] = fd_arr[i] /\ fd_arr[s] # None
      BY <2>1, <3>1 DEF SlotsAgree
    <3>3. QED  BY <1>1, <2>1, <3>2 DEF SlotsAgree
  <2>2. \A s \in Slot : connected_fds'[s] = IF s = i THEN None ELSE connected_fds[s]
    BY <1>2 DEF ChatTypes
  <2>3. c # None
    BY <1>3, WatchedFinite
  <2>4. QED  BY <1>1, <1>3, <2>1, <2>2, <2>3 DEF Watched
<1>6. SlotsAgree'
  <2>1. connected_num' = Cardinality(Watched')
    <3>1. Cardinality(Watched \ {c}) = Cardinality(Watched) - 1
      BY <1>5, WatchedFinite, FS_RemoveElement
    <3>2. QED  BY <1>2, <1>5, <3>1 DEF SlotsAgree
  <2>2. n_ready' = Cardinality(Ahead(i', revents'))
    BY <1>1, AheadOf
  <2>3. /\ fd_arr'[0] = Listening /\ connected_fds'[0] = None
        /\ \A s \in Slot \ {0} : fd_arr'[s] = connected_fds'[s]
        /\ \A s, t \in Slot : fd_arr'[s] = fd_arr'[t] /\ fd_arr'[s] # None => s = t
    BY <1>2, <1>3, SlotNumbers DEF SlotsAgree, ChatTypes
  <2>4. QED  BY <1>1, <1>5, <2>1, <2>2, <2>3 DEF SlotsAgree, Ahead, clientVars
<1>7. LoopsAgree'
  <2>1. \A s \in Slot : s >= i' => s >= i /\ s # i
    BY <1>1, SlotNumbers
  <2>2. \A s \in Slot : s # i => fd_arr'[s] = fd_arr[s]
    BY <1>2 DEF ChatTypes
  <2>3. QED  BY <1>1, <2>1, <2>2 DEF LoopsAgree
<1>8. OneQuiet'
  BY <1>1, <1>5, StillOneQuiet
<1>9. QED  BY <1>4, <1>6, <1>7, <1>8

LEMMA AcceptStep ==
  ASSUME PollInv, Accept
  PROVE  PollInv'
<1>. USE DEF PollInv
<1>1. /\ pc = "loop" /\ i \in Slot /\ revents[i] = "in" /\ i' = i + 1 /\ i \in Nat
      /\ n_ready = Cardinality(Ahead(i, revents)) /\ n_ready' = n_ready - 1
      /\ fd_arr[i] = Listening /\ pc' = "loop" /\ k = 0
      /\ UNCHANGED <<revents, k, link, waiting, outbox, inbox, typed>>
  BY ThisTurn DEF Accept, Handled
<1>2. n_ready' = Cardinality(Ahead(i', revents'))
  BY <1>1, AheadOf
<1>3. \A s \in Slot : s >= i' => s >= i /\ s # i
  BY <1>1, SlotNumbers
<1>4. \A c, d \in Watched : c # d => ~(Quiet(c) /\ Quiet(d))
  BY <1>1 DEF OneQuiet, StillToWrite
<1>5. \A c : Quiet(c)' <=> Quiet(c)
  BY <1>1 DEF Quiet
(* No descriptor is left, or no slot.                                      *)
<1>6. ASSUME UNCHANGED <<fd_arr, connected_fds, connected_num>>,
             accepted' = accepted
               \/ \E c \in Client : accepted[c] = "backlog" /\ accepted' = [accepted EXCEPT ![c] = "yes"]
      PROVE  PollInv'
  <2>1. ChatTypes'
    BY <1>1, <1>6, SlotNumbers DEF ChatTypes
  <2>2. Watched' = Watched /\ \A d \in Client : accepted[d] = "yes" => accepted'[d] = "yes"
    BY <1>6 DEF Watched, ChatTypes
  <2>3. SlotsAgree'
    BY <1>1, <1>2, <1>6, <2>2, WatchedFinite DEF SlotsAgree, Ahead
  <2>4. LoopsAgree'
    BY <1>1, <1>3, <1>6 DEF LoopsAgree
  <2>5. OneQuiet'
    BY <1>1, <1>4, <1>5, <2>2 DEF OneQuiet
  <2>6. QED  BY <2>1, <2>3, <2>4, <2>5
<1>7. ASSUME NEW c \in Client, accepted[c] = "backlog",
             accepted' = [accepted EXCEPT ![c] = "yes"],
             NEW s \in Slot, fd_arr[s] = None,
             fd_arr' = [fd_arr EXCEPT ![s] = c],
             connected_fds' = [connected_fds EXCEPT ![s] = c],
             connected_num' = connected_num + 1
      PROVE  PollInv'
  <2>1. ChatTypes'
    BY <1>1, <1>7, SlotNumbers DEF ChatTypes
  <2>2. s # 0 /\ connected_fds[s] = None /\ c # None
    BY <1>7, WatchedFinite DEF SlotsAgree
  <2>3. c \notin Watched
    BY <1>7, WatchedFinite DEF SlotsAgree
  <2>4. Watched' = Watched \cup {c}
    <3>1. \A t \in Slot : connected_fds'[t] = IF t = s THEN c ELSE connected_fds[t]
      BY <1>7 DEF ChatTypes
    <3>2. QED  BY <2>2, <3>1 DEF Watched
  <2>5. SlotsAgree'
    <3>1. connected_num' = Cardinality(Watched')
      <4>1. Cardinality(Watched \cup {c}) = Cardinality(Watched) + 1
        BY <2>3, WatchedFinite, FS_AddElement
      <4>2. QED  BY <1>7, <2>4, <4>1 DEF SlotsAgree
    <3>2. \A d \in Watched' : accepted'[d] = "yes"
      BY <1>7, <2>4, WatchedFinite DEF SlotsAgree, ChatTypes
    <3>3. \A t \in Slot : fd_arr[t] # c
      BY <2>2, <2>3, <1>7, WatchedFinite, SlotNumbers DEF SlotsAgree, Watched
    <3>4. /\ fd_arr'[0] = Listening /\ connected_fds'[0] = None
          /\ \A t \in Slot \ {0} : fd_arr'[t] = connected_fds'[t]
          /\ \A t, u \in Slot : fd_arr'[t] = fd_arr'[u] /\ fd_arr'[t] # None => t = u
      BY <1>7, <2>2, <3>3, SlotNumbers DEF SlotsAgree, ChatTypes
    <3>5. QED  BY <1>1, <1>2, <3>1, <3>2, <3>4 DEF SlotsAgree, Ahead
  <2>6. LoopsAgree'
    <3>1. \A t \in Slot : fd_arr'[t] = IF t = s THEN c ELSE fd_arr[t]
      BY <1>7 DEF ChatTypes
    <3>2. c # Listening
      BY WatchedFinite
    <3>3. QED  BY <1>1, <1>3, <2>2, <3>1, <3>2 DEF LoopsAgree
  <2>7. OneQuiet'
    <3>1. ~Quiet(c)
      BY <1>7 DEF OneQuiet, Quiet, ChatTypes
    <3>2. \A d \in Client : accepted'[d] # "yes" => accepted[d] # "yes"
      BY <1>7 DEF ChatTypes
    <3>3. QED  BY <1>1, <1>4, <1>5, <2>4, <3>1, <3>2 DEF OneQuiet
  <2>8. QED  BY <2>1, <2>5, <2>6, <2>7
<1>8. CASE Cardinality({c \in Client : accepted[c] = "yes"}) >= MaxFd
  BY <1>6, <1>8 DEF Accept
<1>9. CASE ~(Cardinality({c \in Client : accepted[c] = "yes"}) >= MaxFd)
  <2>. DEFINE free == {s \in Slot : fd_arr[s] = None}
              s == CHOOSE t \in free : \A u \in free : t <= u
  <2>1. PICK c \in Client :
          /\ accepted[c] = "backlog" /\ accepted' = [accepted EXCEPT ![c] = "yes"]
          /\ IF free = {} THEN UNCHANGED <<fd_arr, connected_fds, connected_num>>
             ELSE /\ fd_arr' = [fd_arr EXCEPT ![s] = c]
                  /\ connected_fds' = [connected_fds EXCEPT ![s] = c]
                  /\ connected_num' = connected_num + 1
    BY <1>9 DEF Accept
  <2>2. CASE free = {}
    BY <1>6, <2>1, <2>2
  <2>3. CASE free # {}
    <3>1. free \in SUBSET Nat
      BY SlotNumbers
    <3>2. \E t \in free : \A u \in free : t <= u
      BY <2>3, <3>1, LeastNatural
    <3>3. s \in free
      BY <3>2
    <3>4. s \in Slot /\ fd_arr[s] = None
      BY <3>3
    <3>. HIDE DEF s
    <3>5. QED  BY <1>7, <2>1, <2>3, <3>4
  <2>4. QED  BY <2>2, <2>3
<1>10. QED  BY <1>8, <1>9

-----------------------------------------------------------------------------
(* Steps of the loop that writes.                                          *)

LEMMA ReadMessageStep ==
  ASSUME PollInv, ReadMessage
  PROVE  PollInv'
<1>. USE DEF PollInv
<1>. PICK x : x = fd_arr[i]
  OBVIOUS
<1>1. /\ pc = "loop" /\ i \in Slot /\ revents[i] = "in" /\ k = 0 /\ pc' = "write"
      /\ x # Listening
      /\ UNCHANGED <<fd_arr, revents, connected_fds, connected_num, n_ready, i, k,
                     accepted, link, waiting, inbox, typed>>
  BY ThisTurn DEF ReadMessage
<1>2. PICK n \in 0..outbox[x]-1 : outbox' = [outbox EXCEPT ![x] = n]
  BY DEF ReadMessage
<1>3. x \in Client /\ i # 0 /\ connected_fds[i] = x
  <2>1. i \in Nat /\ x # None
    BY <1>1, SlotNumbers DEF LoopsAgree
  <2>2. QED  BY <1>1, <2>1 DEF SlotsAgree, ChatTypes
<1>4. x \in Watched /\ accepted[x] = "yes"
  BY <1>1, <1>3, WatchedFinite DEF Watched, SlotsAgree
<1>5. Watched' = Watched
  BY <1>1 DEF Watched
<1>6. ChatTypes'
  BY <1>1, <1>2, <1>3 DEF ChatTypes
<1>7. SlotsAgree'
  BY <1>1, <1>5 DEF SlotsAgree
<1>8. LoopsAgree'
  BY <1>1, <1>3 DEF LoopsAgree
<1>9. \A d \in Client : d # x => outbox'[d] = outbox[d]
  BY <1>2 DEF ChatTypes
<1>10. OneQuiet'
  <2>1. \A c, d \in Watched : c # d => ~(Quiet(c) /\ Quiet(d))
    BY <1>1 DEF OneQuiet, StillToWrite
  <2>2. \A d \in Watched : d # x => (Quiet(d)' <=> Quiet(d))
    BY <1>1, <1>9, WatchedFinite DEF Quiet
  <2>3. \A d : StillToWrite(x, d)'
    BY <1>1, SlotNumbers DEF StillToWrite
  <2>4. \A c, d \in Watched : c # d /\ Quiet(c)' /\ Quiet(d)' => c = x \/ d = x
    BY <2>1, <2>2
  <2>5. \A d \in Client : accepted'[d] # "yes" =>
          inbox'[d] = 0 /\ (waiting'[d] => outbox'[d] > 0)
    BY <1>1, <1>4, <1>9 DEF OneQuiet
  <2>6. QED  BY <1>1, <1>5, <2>3, <2>4, <2>5 DEF OneQuiet
<1>11. QED  BY <1>6, <1>7, <1>8, <1>10

(* In the loop that writes.                                                *)
LEMMA Writing ==
  ASSUME PollInv, pc = "write"
  PROVE  /\ i \in Slot /\ i # 0 /\ fd_arr[i] \in Client /\ connected_fds[i] = fd_arr[i]
         /\ fd_arr[i] \in Watched /\ k \in Nat /\ k <= POLL_MAX /\ POLL_MAX \in Nat
<1>1. i \in Slot /\ fd_arr[i] \in Client /\ i # 0
  BY WatchedFinite DEF PollInv, LoopsAgree, SlotsAgree
<1>2. connected_fds[i] = fd_arr[i]
  BY <1>1 DEF PollInv, SlotsAgree
<1>3. fd_arr[i] \in Watched
  BY <1>1, <1>2, WatchedFinite DEF Watched, PollInv
<1>4. QED  BY <1>1, <1>2, <1>3, SlotNumbers DEF PollInv, ChatTypes

(* The test that would end the loop early never does: the sender is one of *)
(* the connections, and nothing is written to it.                          *)
LEMMA BreakNeverTaken ==
  ASSUME PollInv, pc = "write"
  PROVE  LoopEnds <=> k = POLL_MAX
<1>. USE DEF PollInv
<1>. DEFINE x == fd_arr[i]
            R == {s \in 0..k-1 : Recipient(connected_fds[s])}
            W == Watched \ {x}
            f == [s \in R |-> connected_fds[s]]
<1>1. x \in Watched /\ k \in Nat /\ k <= POLL_MAX /\ POLL_MAX \in Nat
  BY Writing
<1>2. IsFiniteSet(W) /\ Cardinality(W) = connected_num - 1
  BY <1>1, WatchedFinite, FS_RemoveElement DEF SlotsAgree
<1>3. R \subseteq Slot
  BY <1>1 DEF Slot
<1>4. IsFiniteSet(R) /\ Cardinality(R) \in Nat
  BY <1>3, SlotNumbers, FS_Subset, FS_CardinalityType
<1>5. f \in [R -> W]
  BY <1>3 DEF Recipient, Watched
<1>6. \A s, t \in R : f[s] = f[t] => s = t
  <2>1. ASSUME NEW s \in R, NEW t \in R, f[s] = f[t] PROVE s = t
    <3>1. /\ s \in Slot /\ t \in Slot
          /\ connected_fds[s] = connected_fds[t] /\ connected_fds[s] # None
          /\ connected_fds[t] # None
      BY <1>3, <2>1 DEF Recipient
    <3>2. s # 0 /\ t # 0
      BY <3>1 DEF SlotsAgree
    <3>3. fd_arr[s] = connected_fds[s] /\ fd_arr[t] = connected_fds[t]
      BY <3>1, <3>2 DEF SlotsAgree
    <3>4. QED  BY <3>1, <3>3 DEF SlotsAgree
  <2>2. QED  BY <2>1
<1>. HIDE DEF R, W, f
<1>7. ~(Cardinality(W) < Cardinality(R))
  BY <1>2, <1>4, <1>5, <1>6, FS_PigeonHole
<1>8. connected_num # Cardinality(R)
  BY <1>2, <1>4, <1>7 DEF ChatTypes
<1>9. QED  BY <1>8 DEF LoopEnds, R

(* A step to the next slot, after which no client there is quiet.          *)
LEMMA NextSlot ==
  ASSUME PollInv, ChatTypes', pc = "write", pc' = "write", k' = k + 1,
         UNCHANGED <<fd_arr, revents, connected_fds, connected_num, n_ready, i,
                     accepted, waiting, outbox, typed>>,
         \A d \in Client : inbox'[d] = inbox[d] \/ d \in Watched,
         \A d \in Client : Quiet(d)' => Quiet(d),
         k \in Slot,
         \A d \in Client : d = connected_fds[k] /\ d # fd_arr[i] => ~Quiet(d)'
  PROVE  PollInv'
<1>. USE DEF PollInv
<1>1. Watched' = Watched
  BY DEF Watched
<1>2. SlotsAgree'
  BY <1>1 DEF SlotsAgree
<1>3. LoopsAgree'
  BY DEF LoopsAgree
<1>4. OneQuiet'
  <2>1. ASSUME NEW c \in Watched, NEW d \in Watched, Quiet(d)', StillToWrite(c, d), c # d
        PROVE  StillToWrite(c, d)'
    <3>1. c = fd_arr[i] /\ \A s \in Slot : connected_fds[s] = d => s >= k
      BY <2>1 DEF StillToWrite
    <3>2. connected_fds[k] # d
      BY <2>1, <3>1, WatchedFinite
    <3>3. \A s \in Slot : connected_fds[s] = d => s >= k + 1
      BY <3>1, <3>2, SlotNumbers
    <3>4. QED  BY <3>1, <3>3 DEF StillToWrite
  <2>2. \A d \in Client : accepted'[d] # "yes" =>
          inbox'[d] = 0 /\ (waiting'[d] => outbox'[d] > 0)
    BY DEF OneQuiet, SlotsAgree
  <2>3. ASSUME NEW c \in Watched, NEW d \in Watched, c # d, Quiet(c)', Quiet(d)'
        PROVE  StillToWrite(c, d)' \/ StillToWrite(d, c)'
    <3>1. Quiet(c) /\ Quiet(d)
      BY <2>3, WatchedFinite
    <3>2. StillToWrite(c, d) \/ StillToWrite(d, c)
      BY <2>3, <3>1 DEF OneQuiet
    <3>3. QED  BY <2>1, <2>3, <3>2
  <2>4. QED  BY <1>1, <2>2, <2>3 DEF OneQuiet
<1>5. QED  BY <1>2, <1>3, <1>4

LEMMA SkipStep ==
  ASSUME PollInv, Skip
  PROVE  PollInv'
<1>. USE DEF PollInv
<1>1. /\ pc = "write" /\ pc' = "write" /\ k' = k + 1 /\ k # POLL_MAX
      /\ ~Recipient(connected_fds[k])
      /\ UNCHANGED <<fd_arr, revents, connected_fds, connected_num, n_ready, i, clientVars>>
  BY DEF Skip, LoopEnds
<1>2. k \in Slot /\ k + 1 \in 0..POLL_MAX
  BY <1>1, Writing DEF Slot
<1>3. ChatTypes'
  BY <1>1, <1>2 DEF ChatTypes, clientVars
<1>4. \A d : Quiet(d)' => Quiet(d)
  BY <1>1 DEF Quiet, clientVars
<1>5. ~(connected_fds[k] \in Client /\ connected_fds[k] # fd_arr[i])
  BY <1>1, WatchedFinite DEF Recipient
<1>6. QED  BY <1>1, <1>2, <1>3, <1>4, <1>5, NextSlot DEF clientVars

LEMMA WriteStep ==
  ASSUME PollInv, Write
  PROVE  PollInv'
<1>. USE DEF PollInv
<1>. PICK c : c = connected_fds[k]
  OBVIOUS
<1>1. /\ pc = "write" /\ k # POLL_MAX /\ Recipient(c)
      /\ UNCHANGED <<fd_arr, revents, connected_fds, connected_num, n_ready, i,
                     accepted, waiting, outbox, typed>>
  BY DEF Write, LoopEnds
<1>2. k \in Slot /\ k + 1 \in 0..POLL_MAX
  BY <1>1, Writing DEF Slot
<1>3. c \in Watched /\ c \in Client
  BY <1>1, <1>2, WatchedFinite DEF Recipient, Watched
<1>4. \/ /\ link[c] = "up" /\ inbox' = [inbox EXCEPT ![c] = @ + 1]
         /\ k' = k + 1 /\ UNCHANGED <<link, pc>>
      \/ /\ link[c] # "up" /\ link' = [link EXCEPT ![c] = "reset"]
         /\ k' = k + 1 /\ UNCHANGED <<inbox, pc>>
      \/ /\ link[c] # "up" /\ k' = k + 1 /\ UNCHANGED <<inbox, link, pc>>
      \/ pc' = "crashed" /\ UNCHANGED <<k, inbox, link>>
  BY <1>3 DEF Write, ChatTypes
<1>5. CASE /\ link[c] = "up" /\ inbox' = [inbox EXCEPT ![c] = @ + 1]
           /\ k' = k + 1 /\ UNCHANGED <<link, pc>>
  <2>1. ChatTypes'
    BY <1>1, <1>2, <1>3, <1>5 DEF ChatTypes
  <2>2. \A d \in Client : inbox'[d] = IF d = c THEN inbox[d] + 1 ELSE inbox[d]
    BY <1>5 DEF ChatTypes
  <2>3. \A d \in Client : inbox[d] \in Nat
    BY DEF ChatTypes
  <2>4. (\A d \in Client : Quiet(d)' => Quiet(d)) /\ ~Quiet(c)'
    BY <1>1, <1>3, <1>5, <2>2, <2>3 DEF Quiet
  <2>5. QED  BY <1>1, <1>2, <1>3, <1>5, <2>1, <2>2, <2>4, NextSlot
<1>6. CASE /\ link[c] # "up" /\ link' = [link EXCEPT ![c] = "reset"]
           /\ k' = k + 1 /\ UNCHANGED <<inbox, pc>>
  <2>1. ChatTypes'
    BY <1>1, <1>2, <1>3, <1>6 DEF ChatTypes
  <2>2. (\A d \in Client : Quiet(d)' => Quiet(d)) /\ ~Quiet(c)'
    BY <1>1, <1>3, <1>6 DEF Quiet, ChatTypes
  <2>3. QED  BY <1>1, <1>2, <1>6, <2>1, <2>2, NextSlot
<1>7. CASE link[c] # "up" /\ k' = k + 1 /\ UNCHANGED <<inbox, link, pc>>
  <2>1. ChatTypes'
    BY <1>1, <1>2, <1>7 DEF ChatTypes
  <2>2. (\A d \in Client : Quiet(d)' => Quiet(d)) /\ ~Quiet(c)'
    BY <1>1, <1>7 DEF Quiet
  <2>3. QED  BY <1>1, <1>2, <1>7, <2>1, <2>2, NextSlot
<1>8. CASE pc' = "crashed" /\ UNCHANGED <<k, inbox, link>>
  <2>1. Watched' = Watched
    BY <1>1 DEF Watched
  <2>2. ChatTypes'
    BY <1>1, <1>8 DEF ChatTypes
  <2>3. QED  BY <1>1, <1>8, <2>1, <2>2 DEF SlotsAgree, LoopsAgree, OneQuiet
<1>9. QED  BY <1>4, <1>5, <1>6, <1>7, <1>8

LEMMA WriteDoneStep ==
  ASSUME PollInv, WriteDone
  PROVE  PollInv'
<1>. USE DEF PollInv
<1>1. /\ pc = "write" /\ k = POLL_MAX /\ pc' = "loop" /\ k' = 0
      /\ i' = i + 1 /\ n_ready' = n_ready - 1
      /\ UNCHANGED <<fd_arr, revents, connected_fds, connected_num, clientVars>>
  BY BreakNeverTaken DEF WriteDone, Handled
<1>2. /\ i \in Slot /\ i \in Nat /\ revents[i] = "in"
      /\ n_ready = Cardinality(Ahead(i, revents))
  BY <1>1, SlotNumbers DEF LoopsAgree, SlotsAgree, Ahead
<1>3. ChatTypes'
  BY <1>1, <1>2, SlotNumbers DEF ChatTypes, clientVars
<1>4. Watched' = Watched
  BY <1>1 DEF Watched
<1>5. SlotsAgree'
  <2>1. n_ready' = Cardinality(Ahead(i', revents'))
    BY <1>1, <1>2, AheadOf
  <2>2. QED  BY <1>1, <1>4, <2>1 DEF SlotsAgree, Ahead, clientVars
<1>6. LoopsAgree'
  BY <1>1, <1>2, SlotNumbers DEF LoopsAgree
<1>7. OneQuiet'
  <2>1. \A c, d \in Watched : ~StillToWrite(c, d)
    <3>1. ASSUME NEW d \in Watched, \A s \in Slot : connected_fds[s] = d => s >= k
          PROVE  FALSE
      <4>1. PICK s \in Slot : connected_fds[s] = d
        BY DEF Watched
      <4>2. QED  BY <1>1, <3>1, <4>1, SlotNumbers
    <3>2. QED  BY <3>1 DEF StillToWrite
  <2>2. \A c : Quiet(c)' <=> Quiet(c)
    BY <1>1 DEF Quiet, clientVars
  <2>3. QED  BY <1>1, <1>4, <2>1, <2>2 DEF OneQuiet, clientVars
<1>8. QED  BY <1>3, <1>5, <1>6, <1>7

-----------------------------------------------------------------------------
LEMMA PollInvStep ==
  ASSUME PollInv, [Next]_vars
  PROVE  PollInv'
<1>1. CASE UNCHANGED vars
  BY <1>1 DEF vars, serverVars, clientVars, PollInv, ChatTypes, SlotsAgree, LoopsAgree,
              OneQuiet, Quiet, StillToWrite, Watched
<1>2. CASE Next
  <2>1. CASE Poll
    BY <2>1, PollStep
  <2>2. CASE LoopDone
    BY <2>2, LoopDoneStep
  <2>3. CASE NotReady
    BY <2>3, NotReadyStep
  <2>4. CASE Accept
    BY <2>4, AcceptStep
  <2>5. CASE ReadEnd
    BY <2>5, ForgetStep DEF ReadEnd
  <2>6. CASE ReadMessage
    BY <2>6, ReadMessageStep
  <2>7. CASE HandleError
    <3>1. fd_arr[i] # Listening
      <4>1. i \in Slot /\ revents[i] = "err" /\ pc = "loop" /\ i \in Nat
        BY <2>7, ThisTurn DEF HandleError
      <4>2. QED  BY <4>1 DEF PollInv, LoopsAgree
    <3>2. QED  BY <2>7, <3>1, ForgetStep DEF HandleError
  <2>8. CASE Skip
    BY <2>8, SkipStep
  <2>9. CASE Write
    BY <2>9, WriteStep
  <2>10. CASE WriteDone
    BY <2>10, WriteDoneStep
  <2>11. ASSUME NEW c \in Client,
                Connect(c) \/ Speak(c) \/ Hear(c) \/ Quit(c) \/ Fail(c)
         PROVE  PollInv'
    BY <2>11, ClientStep
  <2>12. QED  BY <1>2, <2>1, <2>2, <2>3, <2>4, <2>5, <2>6, <2>7, <2>8, <2>9, <2>10,
                 <2>11 DEF Next, Server
<1>3. QED  BY <1>1, <1>2

(* PollInv is inductive.                                                   *)
THEOREM PollInvariant == Spec => []PollInv
<1>1. Init => PollInv
  BY PollInit
<1>2. PollInv /\ [Next]_vars => PollInv'
  BY PollInvStep
<1>3. QED  BY <1>1, <1>2, PTL DEF Spec

(* The arrays of main() and its counts agree.                              *)
THEOREM SlotsAlwaysAgree == Spec => []SlotsAgree
BY PollInvariant, PTL DEF PollInv

(* The slots that the loop of processConnOnce() has passed hold all clients*)
(* but the sender when it ends, which is after the last slot.              *)
WrittenTo == {connected_fds[s] : s \in {u \in 0..k-1 : Recipient(connected_fds[u])}}

WritesToAll ==
  pc = "write" /\ LoopEnds => k = POLL_MAX /\ WrittenTo = Watched \ {fd_arr[i]}

(* A message goes to everybody else: the test that breaks the loop off     *)
(* compares the clients written to with a count that the sender is in, so  *)
(* that it never holds, and the loop runs over the whole array.            *)
THEOREM NoEarlyEnd == Spec => []WritesToAll
<1>1. ASSUME PollInv PROVE WritesToAll
  <2>1. SUFFICES ASSUME pc = "write", LoopEnds
                 PROVE  k = POLL_MAX /\ WrittenTo = Watched \ {fd_arr[i]}
    BY DEF WritesToAll
  <2>2. k = POLL_MAX
    BY <1>1, <2>1, BreakNeverTaken
  <2>3. 0..k-1 = Slot
    BY <2>2 DEF Slot
  <2>4. WrittenTo = {connected_fds[s] : s \in {u \in Slot : Recipient(connected_fds[u])}}
    BY <2>3 DEF WrittenTo
  <2>5. QED  BY <2>2, <2>4 DEF Recipient, Watched
<1>2. QED  BY <1>1, PollInvariant, PTL

(* The clients never all wait for one another.                             *)
THEOREM NotAllWaiting == Spec => []NotAllWait
<1>1. ASSUME PollInv PROVE NotAllWait
  <2>. DEFINE here == {c \in Watched : link[c] = "up"}
  <2>. SUFFICES ASSUME pc = "poll", Events([s \in Slot |-> Event(fd_arr[s])]) = 0,
                       \A c \in here : waiting[c] /\ inbox[c] = 0
                PROVE  Cardinality(here) <= 1
    BY DEF NotAllWait
  <2>1. \A s \in Slot : Event(fd_arr[s]) = "none"
    <3>. DEFINE r == [s \in Slot |-> Event(fd_arr[s])]
    <3>1. IsFiniteSet({s \in Slot : r[s] # "none"})
      BY SlotNumbers, FS_Subset
    <3>2. {s \in Slot : r[s] # "none"} = {}
      BY <3>1, FS_EmptySet DEF Events
    <3>3. QED  BY <3>2
  <2>2. ASSUME NEW c \in here PROVE Quiet(c)
    <3>1. PICK s \in Slot : connected_fds[s] = c
      BY DEF Watched
    <3>2. c \in Client /\ c # None /\ c # Listening
      BY <1>1, WatchedFinite DEF PollInv
    <3>3. fd_arr[s] = c
      BY <1>1, <3>1, <3>2 DEF PollInv, SlotsAgree
    <3>4. ~(outbox[c] > 0)
      BY <2>1, <3>2, <3>3 DEF Event
    <3>5. outbox[c] = 0
      BY <1>1, <3>2, <3>4 DEF PollInv, ChatTypes
    <3>6. QED  BY <3>5 DEF Quiet
  <2>3. \A c, d \in here : c = d
    BY <1>1, <2>2 DEF PollInv, OneQuiet, StillToWrite
  <2>4. CASE here = {}
    BY <2>4, FS_EmptySet
  <2>5. CASE here # {}
    <3>1. PICK c \in here : TRUE
      BY <2>5
    <3>. HIDE DEF here
    <3>2. here = {c}
      BY <2>3, <3>1
    <3>3. QED  BY <3>2, FS_Singleton
  <2>6. QED  BY <2>4, <2>5
<1>2. QED  BY <1>1, PollInvariant, PTL

===============================================================================
