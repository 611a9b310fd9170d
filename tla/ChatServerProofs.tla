--------------------------- MODULE ChatServerProofs ---------------------------
(***************************************************************************)
(* Theorems about ChatServer, for any clients, any scripts and ports, any  *)
(* MAX_CLIENTS below POLL_MAX and any size of the read buffer.             *)
(***************************************************************************)
EXTENDS ChatServer, RecursionLemmas, FiniteSetTheorems, SequenceTheorems

(* A client has joined when the others have been greeted with it.          *)
HasJoined(c) == \E k \in 1..Len(spoken) : spoken[k].from = c

(* Where a client is on its way from connect() to the connection map.      *)
Phases ==
  /\ \A f, g \in DOMAIN m_connection_map :
        m_connection_map[f] = m_connection_map[g] => f = g
  /\ \A c \in Accepted \cup Range(active_conns) : HasJoined(c)
  /\ \A c \in Clients : HasJoined(c) => c \notin backlog \cup refused /\ peer[c] # "new"
  /\ \A c \in Clients : ~HasJoined(c) =>
        got[c] = 0 /\ heard[c] = <<>> /\ peer[c] # "failed"
  /\ \A c \in backlog \cup refused : peer[c] # "new"
  /\ backlog \cap refused = {}
  /\ \A c \in Range(active_conns) : c \in Accepted \/ peer[c] = "failed"

(* What the loop has still to handle.                                      *)
Pending ==
  /\ loopPc \in {"loop", "over"} => todo = {}
  /\ loopPc = "read" => msgFrom > 0 /\
        \E fd \in todo : /\ \A other \in todo : fd <= other
                         /\ fd \in DOMAIN m_connection_map /\ m_revents_map[fd] = "READ"
  /\ \A fd \in todo : m_revents_map[fd] = "ERROR" =>
        fd \in DOMAIN m_connection_map /\ peer[m_connection_map[fd]] = "failed"

Reading(c) == loopPc = "read" /\ c = reader

(* How far the server is in the bytes of a client whose last message is j: *)
(* at the message's end, or later in a message begun, or it has dropped    *)
(* the beginning of one because no more bytes can come.                    *)
FarAs(c, j) ==
  \/ got[c] = sent[c] /\ peer[c] # "open"
  \/ Reading(c) /\ msgFrom = spoken[j].last + 1 /\ spoken[j].last <= got[c]
  \/ ~Reading(c) /\ got[c] = spoken[j].last

LastOf(c, j) ==
  /\ spoken[j].from = c
  /\ \A k \in j+1..Len(spoken) : spoken[k].from # c

Progress ==
  /\ \A c \in Clients : got[c] <= sent[c]
  /\ \A c \in Clients : \A j \in 1..Len(spoken) : LastOf(c, j) => FarAs(c, j)

ServerInv ==
  /\ TypeOK /\ DescriptorsAgree /\ Phases /\ Pending
  /\ MembersListed /\ Progress /\ WholeLines /\ EveryMemberHears

-----------------------------------------------------------------------------
(* Lemmas about the operators of the model.                                *)

LEMMA MinIs ==
  ASSUME NEW S \in SUBSET Nat, S # {}
  PROVE  Min(S) \in S /\ \A y \in S : Min(S) <= y
BY LeastNatural DEF Min

LEMMA PartialMaps ==
  ASSUME NEW S, NEW R, NEW f
  PROVE  f \in UNION {[D -> R] : D \in SUBSET S}
           <=> DOMAIN f \subseteq S /\ f \in [DOMAIN f -> R]
<1>1. ASSUME NEW D \in SUBSET S, f \in [D -> R]
      PROVE  DOMAIN f \subseteq S /\ f \in [DOMAIN f -> R]
  <2>1. DOMAIN f = D
    BY <1>1
  <2>2. QED  BY <1>1, <2>1
<1>2. ASSUME DOMAIN f \subseteq S, f \in [DOMAIN f -> R]
      PROVE  f \in UNION {[D -> R] : D \in SUBSET S}
  BY <1>2
<1>3. QED  BY <1>1, <1>2

LEMMA DescriptorNumbers ==
  /\ Cardinality(Clients) \in Nat
  /\ ClientFds \subseteq Nat /\ ServerFd \in Nat \ ClientFds /\ NoFd \notin Nat
  /\ IsFiniteSet(ClientFds) /\ Cardinality(ClientFds) = Cardinality(Clients)
<1>1. Cardinality(Clients) \in Nat
  BY ChatAssumption, FS_CardinalityType
<1>2. IsFiniteSet(ClientFds) /\ Cardinality(ClientFds) = Cardinality(Clients)
  BY <1>1, FS_Interval, SMTT(20) DEF ClientFds, ServerFd
<1>3. QED  BY <1>1, <1>2 DEF ClientFds, ServerFd, NoFd

(* The types of the maps, in a form the provers can use.                   *)
LEMMA Types ==
  ASSUME TypeOK
  PROVE  /\ DOMAIN m_connection_map \subseteq ClientFds
         /\ \A fd \in DOMAIN m_connection_map : m_connection_map[fd] \in Clients
         /\ m_connection_map \in [DOMAIN m_connection_map -> Clients]
         /\ todo \subseteq {ServerFd} \cup ClientFds
         /\ todo \subseteq Nat
         /\ m_revents_map \in [todo -> IO_STATE]
         /\ Accepted \subseteq Clients
         /\ Range(active_conns) \subseteq Clients
<1>1. DOMAIN m_connection_map \subseteq ClientFds
      /\ m_connection_map \in [DOMAIN m_connection_map -> Clients]
  BY PartialMaps DEF TypeOK
<1>2. todo \subseteq {ServerFd} \cup ClientFds /\ m_revents_map \in [todo -> IO_STATE]
  BY PartialMaps DEF TypeOK, todo
<1>3. todo \subseteq Nat
  BY <1>2, DescriptorNumbers
<1>4. Accepted \subseteq Clients
  BY <1>1 DEF Accepted, Range
<1>5. Range(active_conns) \subseteq Clients
  BY RangeOfSeq DEF TypeOK
<1>6. QED  BY <1>1, <1>2, <1>3, <1>4, <1>5

(* Every client has a connection at most, so there are no more connections *)
(* than descriptors, and one is left for a client that has none.           *)
LEMMA FreeDescriptor ==
  ASSUME TypeOK, Phases, NEW c \in Clients, c \notin Accepted
  PROVE  ClientFds \ DOMAIN m_connection_map # {}
<1>. SUFFICES ASSUME DOMAIN m_connection_map = ClientFds PROVE FALSE
  BY Types
<1>1. m_connection_map \in [ClientFds -> Clients \ {c}]
  BY Types DEF Accepted, Range
<1>2. IsFiniteSet(Clients \ {c})
      /\ Cardinality(Clients \ {c}) = Cardinality(Clients) - 1
  BY ChatAssumption, FS_RemoveElement
<1>3. Cardinality(Clients \ {c}) < Cardinality(ClientFds)
  BY <1>2, DescriptorNumbers
<1>4. \E f, g \in ClientFds : f # g /\ m_connection_map[f] = m_connection_map[g]
  BY <1>1, <1>2, <1>3, DescriptorNumbers, FS_PigeonHole
<1>5. QED  BY <1>4 DEF Phases

LEMMA ConnectionsFinite ==
  ASSUME TypeOK
  PROVE  IsFiniteSet(DOMAIN m_connection_map)
         /\ Cardinality(DOMAIN m_connection_map) \in Nat
BY Types, DescriptorNumbers, FS_Subset, FS_CardinalityType

(* The poller has more slots than descriptors to watch.                    *)
LEMMA FreeSlot ==
  ASSUME TypeOK, DescriptorsAgree, m_current_clients # MAX_CLIENTS
  PROVE  {i \in Slots : m_poll_fd[i] = NoFd} # {}
<1>. SUFFICES ASSUME \A i \in Slots : m_poll_fd[i] # NoFd PROVE FALSE
  OBVIOUS
<1>. DEFINE All == DOMAIN m_connection_map \cup {ServerFd}
<1>1. IsFiniteSet(All) /\ Cardinality(All) <= MAX_CLIENTS
  <2>1. Cardinality(DOMAIN m_connection_map) < MAX_CLIENTS
    BY ChatAssumption DEF TypeOK, DescriptorsAgree
  <2>2. IsFiniteSet(All) /\ Cardinality(All) =
          IF ServerFd \in DOMAIN m_connection_map
          THEN Cardinality(DOMAIN m_connection_map)
          ELSE Cardinality(DOMAIN m_connection_map) + 1
    BY ConnectionsFinite, FS_AddElement
  <2>. HIDE DEF All
  <2>3. QED  BY <2>1, <2>2, ConnectionsFinite, ChatAssumption
<1>2. m_poll_fd \in [Slots -> All]
  <2>1. \A i \in Slots : m_poll_fd[i] \in Registered
    BY DEF Registered
  <2>2. Registered \subseteq All
    BY DEF DescriptorsAgree
  <2>3. m_poll_fd \in [Slots -> {NoFd, ServerFd} \cup ClientFds]
    BY DEF TypeOK
  <2>. HIDE DEF All
  <2>4. QED  BY <2>1, <2>2, <2>3
<1>3. IsFiniteSet(Slots) /\ Cardinality(Slots) = POLL_MAX
  BY FS_Interval, PollerAssumption DEF Slots
<1>4. Cardinality(All) < Cardinality(Slots)
  <2>. HIDE DEF All
  <2>1. QED  BY <1>1, <1>3, FS_CardinalityType, ChatAssumption, PollerAssumption
<1>. HIDE DEF All
<1>5. \E i, j \in Slots : i # j /\ m_poll_fd[i] = m_poll_fd[j]
  BY <1>1, <1>2, <1>3, <1>4, FS_PigeonHole
<1>6. QED  BY <1>5 DEF DescriptorsAgree

(* What registerSocket() does while a slot is free.                        *)
LEMMA Registers ==
  ASSUME NEW slots, NEW R, slots \in [Slots -> R], NEW fd,
         {i \in Slots : slots[i] = NoFd} # {}
  PROVE  \E s \in Slots : slots[s] = NoFd
                        /\ RegisterSocket(slots, fd) = [slots EXCEPT ![s] = fd]
<1>. DEFINE free == {i \in Slots : slots[i] = NoFd}
<1>1. free \in SUBSET Nat
  BY DEF Slots
<1>2. Min(free) \in free
  BY <1>1, MinIs
<1>3. QED  BY <1>2 DEF RegisterSocket

-----------------------------------------------------------------------------
LEMMA ServerInit == Init => ServerInv
<1>. SUFFICES ASSUME Init PROVE ServerInv
  OBVIOUS
<1>. USE DEF Init
<1>1. /\ m_connection_map = <<>> /\ m_revents_map = <<>> /\ active_conns = <<>>
      /\ spoken = <<>>
  OBVIOUS
<1>2. /\ DOMAIN m_connection_map = {} /\ todo = {} /\ Len(spoken) = 0
      /\ Len(active_conns) = 0 /\ Range(active_conns) = {} /\ Accepted = {}
  BY <1>1 DEF todo, Range, Accepted
<1>3. /\ m_poll_fd \in [Slots -> {NoFd, ServerFd} \cup ClientFds]
      /\ Registered = {ServerFd}
      /\ \A i, j \in Slots : m_poll_fd[i] = m_poll_fd[j] => i = j \/ m_poll_fd[i] = NoFd
  <2>1. NoneRegistered \in [Slots -> {NoFd}] /\ {i \in Slots : NoneRegistered[i] = NoFd} = Slots
    BY DEF NoneRegistered
  <2>2. 0 \in Slots
    BY ChatAssumption, PollerAssumption DEF Slots
  <2>3. PICK s \in Slots : m_poll_fd = [NoneRegistered EXCEPT ![s] = ServerFd]
    BY <2>1, <2>2, Registers
  <2>4. m_poll_fd = [i \in Slots |-> IF i = s THEN ServerFd ELSE NoFd]
    BY <2>1, <2>3 DEF NoneRegistered
  <2>5. ServerFd # NoFd
    BY DEF ServerFd, NoFd
  <2>. HIDE DEF Init
  <2>6. QED  BY <2>4, <2>5 DEF Registered
<1>4. TypeOK
  <2>1. \A S, R : <<>> \in UNION {[D -> R] : D \in SUBSET S}
    <3>1. \A R : <<>> \in [{} -> R]
      OBVIOUS
    <3>2. QED  BY <3>1
  <2>2. m_revents_map \in UNION {[D -> IO_STATE] : D \in SUBSET ({ServerFd} \cup ClientFds)}
    BY <1>1, <2>1, SMTT(20)
  <2>3. m_connection_map \in UNION {[D -> Clients] : D \in SUBSET ClientFds}
    BY <1>1, <2>1
  <2>4. /\ active_conns \in Seq(Clients) /\ spoken \in Seq(Message)
        /\ heard \in [Clients -> Seq(Message)]
    OBVIOUS
  <2>5. /\ peer \in [Clients -> {"new", "open", "closed", "reset", "failed"}]
        /\ sent \in [Clients -> Nat] /\ got \in [Clients -> Nat]
        /\ m_current_clients \in 0..MAX_CLIENTS
    BY ChatAssumption
  <2>6. QED  BY <1>3, <2>2, <2>3, <2>4, <2>5 DEF TypeOK
<1>5. DescriptorsAgree
  BY <1>2, <1>3, FS_EmptySet DEF DescriptorsAgree
<1>6. Phases
  BY <1>2 DEF Phases, HasJoined
<1>7. Pending
  BY <1>2 DEF Pending
<1>8. MembersListed
  BY <1>2 DEF MembersListed, Dangling
<1>9. Progress
  BY <1>2 DEF Progress
<1>10. WholeLines /\ EveryMemberHears
  BY <1>2 DEF WholeLines, EveryMemberHears
<1>11. QED  BY <1>4, <1>5, <1>6, <1>7, <1>8, <1>9, <1>10 DEF ServerInv

-----------------------------------------------------------------------------
(* Steps that leave what an invariant speaks about as it is.               *)

LEMMA SameDescriptors ==
  ASSUME DescriptorsAgree, UNCHANGED <<pollVars, serverVars>>
  PROVE  DescriptorsAgree'
BY DEF DescriptorsAgree, Registered, todo, pollVars, serverVars

(* The handled descriptor did not have an error.                           *)
LEMMA DoneDescriptors ==
  ASSUME DescriptorsAgree, NEW fd \in todo, m_revents_map[fd] # "ERROR", Done(fd),
         UNCHANGED <<m_poll_fd, m_current_clients, m_connection_map>>
  PROVE  DescriptorsAgree'
<1>1. todo' = todo \ {fd} /\ \A f \in todo' : m_revents_map'[f] = m_revents_map[f]
  BY DEF Done, todo
<1>2. Registered' = Registered
  BY DEF Registered
<1>3. Registered = {ServerFd} \cup
        {g \in DOMAIN m_connection_map : ~(g \in todo /\ m_revents_map[g] = "ERROR")}
  BY DEF DescriptorsAgree
<1>4. \A g \in DOMAIN m_connection_map :
        (g \in todo /\ m_revents_map[g] = "ERROR")
          <=> (g \in todo' /\ m_revents_map'[g] = "ERROR")
  BY <1>1
<1>5. QED  BY <1>1, <1>2, <1>3, <1>4 DEF DescriptorsAgree

LEMMA SameMembers ==
  ASSUME MembersListed, UNCHANGED <<m_connection_map, active_conns, peer>>
  PROVE  MembersListed'
BY DEF MembersListed, Accepted, Dangling

LEMMA SamePhases ==
  ASSUME Phases, UNCHANGED <<m_connection_map, active_conns, spoken, backlog,
                             refused, peer, got, heard>>
  PROVE  Phases'
BY DEF Phases, Accepted, HasJoined

LEMMA SameProgress ==
  ASSUME Progress, loopPc # "read", loopPc' # "read", UNCHANGED <<got, sent, spoken, peer>>
  PROVE  Progress'
BY DEF Progress, LastOf, FarAs, Reading

LEMMA SameLines ==
  ASSUME TypeOK, TypeOK', WholeLines, spoken' = spoken, \A c \in Clients : got[c] <= got'[c]
  PROVE  WholeLines'
<1>. SUFFICES ASSUME NEW j \in 1..Len(spoken), NEW i \in 1..j-1,
                     spoken[i].from = spoken[j].from,
                     \A k \in i+1..j-1 : spoken[k].from # spoken[j].from
              PROVE  /\ spoken[j].first = spoken[i].last + 1
                     /\ spoken[j].last \in spoken[j].first..got'[spoken[j].from]
                     /\ Script[spoken[j].from][spoken[j].last] = "nl"
  BY DEF WholeLines
<1>1. spoken[j] \in Message
  BY ElementOfSeq DEF TypeOK
<1>2. spoken[j].from \in Clients /\ spoken[j].first \in Nat /\ spoken[j].last \in Nat
  BY <1>1 DEF Message
<1>3. got[spoken[j].from] \in Nat /\ got'[spoken[j].from] \in Nat
      /\ got[spoken[j].from] <= got'[spoken[j].from]
  BY <1>2 DEF TypeOK
<1>4. QED  BY <1>2, <1>3 DEF WholeLines

LEMMA SameHearing ==
  ASSUME EveryMemberHears, spoken' = spoken, Range(active_conns)' \subseteq Range(active_conns),
         \A d \in Range(active_conns)' :
            peer'[d] = "open" => peer[d] = "open" /\ heard'[d] = heard[d]
  PROVE  EveryMemberHears'
<1>1. \A d : SpokenTo(d)' = SpokenTo(d)
  BY DEF SpokenTo
<1>2. QED  BY <1>1 DEF EveryMemberHears, HearsAll

LEMMA SameState ==
  ASSUME ServerInv, crashed' \in {"no", "null", "dangling", "sigpipe"},
         UNCHANGED <<pollVars, netVars, serverVars, chatVars, m_quit, loopPc>>
  PROVE  ServerInv'
<1>. USE DEF ServerInv
<1>1. UNCHANGED <<pollVars, netVars, serverVars, chatVars, m_quit, loopPc>>
  OBVIOUS
<1>2. TypeOK'
  BY <1>1 DEF TypeOK, pollVars, netVars, serverVars, chatVars
<1>3. DescriptorsAgree'
  BY <1>1, SameDescriptors
<1>4. Phases'
  BY <1>1, SamePhases DEF pollVars, netVars, serverVars, chatVars
<1>5. Pending'
  BY <1>1 DEF Pending, todo, pollVars, netVars, serverVars, chatVars
<1>6. MembersListed'
  BY <1>1, SameMembers DEF serverVars, netVars
<1>7. Progress'
  BY <1>1 DEF Progress, LastOf, FarAs, Reading, reader, todo, pollVars, netVars,
              serverVars, chatVars
<1>8. WholeLines'
  BY <1>1 DEF WholeLines, chatVars
<1>9. EveryMemberHears'
  BY <1>1, SameHearing DEF serverVars, netVars, chatVars
<1>10. QED  BY <1>2, <1>3, <1>4, <1>5, <1>6, <1>7, <1>8, <1>9

(* When the process ends, nothing else changes.                            *)
LEMMA CrashStep ==
  ASSUME ServerInv, NEW why \in {"null", "dangling", "sigpipe"}, Crash(why)
  PROVE  ServerInv'
BY SameState DEF Crash

(* A step of a client or of its kernel.                                    *)
LEMMA ClientStep ==
  ASSUME ServerInv, NEW c \in Clients, ClientNext(c)
  PROVE  ServerInv'
<1>. USE DEF ServerInv
<1>1. UNCHANGED <<pollVars, serverVars, got, msgFrom, spoken, m_quit, loopPc, crashed, refused>>
  BY DEF ClientNext, Connect, Send, Close, Reset, Fail
<1>2. TypeOK'
  <2>1. peer' \in [Clients -> {"new", "open", "closed", "reset", "failed"}]
    BY DEF TypeOK, ClientNext, Connect, Send, Close, Reset, Fail
  <2>2. backlog' \subseteq Clients /\ sent' \in [Clients -> Nat]
    BY DEF TypeOK, ClientNext, Connect, Send, Close, Reset, Fail
  <2>3. heard' \in [Clients -> Seq(Message)]
    <3>1. <<>> \in Seq(Message)
      OBVIOUS
    <3>2. QED  BY <3>1 DEF TypeOK, ClientNext, Connect, Send, Close, Reset, Fail
  <2>4. QED  BY <1>1, <2>1, <2>2, <2>3 DEF TypeOK, pollVars, serverVars
(* What may change for a client d.                                         *)
<1>3. \A d \in Clients :
        /\ sent'[d] >= sent[d] /\ (sent'[d] # sent[d] => peer[d] = "open")
        /\ peer[d] = "failed" => peer'[d] = "failed"
        /\ peer'[d] = "failed" => peer[d] = "failed" \/ d \in Accepted
        /\ peer'[d] = "open" => peer[d] = "open" \/ peer[d] = "new"
        /\ peer'[d] = "new" => peer[d] = "new"
        /\ d \in backlog' => d \in backlog \/ (peer[d] = "new" /\ peer'[d] # "new")
        /\ peer'[d] = "open" => heard'[d] = heard[d]
        /\ heard'[d] = heard[d] \/ heard'[d] = <<>>
  BY DEF TypeOK, ClientNext, Connect, Send, Close, Reset, Fail
<1>4. DescriptorsAgree'
  BY <1>1, SameDescriptors
<1>5. Accepted' = Accepted /\ Range(active_conns)' = Range(active_conns)
      /\ \A d : HasJoined(d)' <=> HasJoined(d)
  BY <1>1 DEF serverVars, Accepted, HasJoined
<1>6. Accepted \subseteq Clients /\ Range(active_conns) \subseteq Clients
      /\ \A d \in Accepted : HasJoined(d)
  BY Types DEF Phases
<1>7. Phases'
  <2>1. \A f, g \in DOMAIN m_connection_map' :
          m_connection_map'[f] = m_connection_map'[g] => f = g
    BY <1>1 DEF Phases, serverVars
  <2>2. \A d \in Accepted' \cup Range(active_conns)' : HasJoined(d)'
    BY <1>5 DEF Phases
  <2>3. \A d \in Clients : HasJoined(d)' => d \notin backlog' \cup refused' /\ peer'[d] # "new"
    BY <1>1, <1>3, <1>5 DEF Phases
  <2>4. \A d \in Clients : ~HasJoined(d)' =>
          got'[d] = 0 /\ heard'[d] = <<>> /\ peer'[d] # "failed"
    BY <1>1, <1>3, <1>5, <1>6 DEF Phases
  <2>5. \A d \in backlog' \cup refused' : peer'[d] # "new"
    BY <1>1, <1>3 DEF Phases, TypeOK, ClientNext, Connect, Send, Close, Reset, Fail
  <2>6. backlog' \cap refused' = {}
    BY <1>1, <1>3 DEF Phases, TypeOK, ClientNext, Connect, Send, Close, Reset, Fail
  <2>7. \A d \in Range(active_conns)' : d \in Accepted' \/ peer'[d] = "failed"
    BY <1>3, <1>5, <1>6 DEF Phases
  <2>8. QED  BY <2>1, <2>2, <2>3, <2>4, <2>5, <2>6, <2>7 DEF Phases
<1>8. Pending'
  <2>1. \A fd \in DOMAIN m_connection_map :
          peer[m_connection_map[fd]] = "failed" => peer'[m_connection_map[fd]] = "failed"
    BY <1>3, Types
  <2>2. QED  BY <1>1, <2>1 DEF Pending, todo, pollVars, serverVars
<1>9. MembersListed'
  <2>1. \A d \in Accepted : peer[d] # "new"
    BY <1>6 DEF Phases
  <2>2. Dangling' = Dangling /\ Dangling \subseteq Clients
    BY <1>5, <1>6 DEF Dangling
  <2>3. QED  BY <1>1, <1>3, <1>5, <1>6, <2>1, <2>2 DEF MembersListed, serverVars
<1>10. Progress'
  <2>1. \A d \in Clients : got'[d] <= sent'[d]
    BY <1>1, <1>2, <1>3 DEF Progress, TypeOK
  <2>2. ASSUME NEW d \in Clients, NEW j \in 1..Len(spoken), LastOf(d, j)
        PROVE  FarAs(d, j)'
    <3>1. FarAs(d, j)
      BY <2>2 DEF Progress
    <3>2. Reading(d)' <=> Reading(d)
      BY <1>1 DEF Reading, reader, todo, serverVars, pollVars
    <3>3. HasJoined(d)
      BY <2>2 DEF HasJoined, LastOf
    <3>4. got[d] = sent[d] /\ peer[d] # "open" => got'[d] = sent'[d] /\ peer'[d] # "open"
      BY <1>1, <1>3, <3>3 DEF Phases
    <3>5. QED  BY <1>1, <3>1, <3>2, <3>4 DEF FarAs
  <2>3. \A d, j : LastOf(d, j)' <=> LastOf(d, j)
    BY <1>1 DEF LastOf
  <2>4. QED  BY <1>1, <2>1, <2>2, <2>3 DEF Progress
<1>11. WholeLines'
  <2>1. \A d \in Clients : got[d] <= got'[d]
    BY <1>1 DEF TypeOK
  <2>2. QED  BY <1>1, <1>2, <2>1, SameLines
<1>12. EveryMemberHears'
  <2>1. \A d \in Range(active_conns) : peer[d] # "new"
    BY <1>6 DEF Phases
  <2>2. QED  BY <1>1, <1>3, <1>5, <1>6, <2>1, SameHearing
<1>13. QED  BY <1>2, <1>4, <1>7, <1>8, <1>9, <1>10, <1>11, <1>12

(* What a step keeps that touches neither clients nor connections.         *)
LEMMA QuietStep ==
  ASSUME ServerInv, TypeOK', loopPc # "read", loopPc' # "read",
         UNCHANGED <<netVars, chatVars, m_connection_map, active_conns>>
  PROVE  Phases' /\ MembersListed' /\ Progress' /\ WholeLines' /\ EveryMemberHears'
<1>. USE DEF ServerInv, netVars, chatVars
<1>1. \A c \in Clients : got[c] <= got'[c]
  BY DEF TypeOK
<1>2. Phases'
  BY SamePhases
<1>3. MembersListed'
  BY SameMembers
<1>4. Progress'
  BY SameProgress
<1>5. WholeLines'
  BY <1>1, SameLines
<1>6. EveryMemberHears'
  BY SameHearing
<1>7. QED  BY <1>2, <1>3, <1>4, <1>5, <1>6

LEMMA ExitLoopStep ==
  ASSUME ServerInv, ExitLoop
  PROVE  ServerInv'
<1>. USE DEF ServerInv, ExitLoop
<1>1. TypeOK'
  BY DEF TypeOK, pollVars, netVars, serverVars, chatVars
<1>2. DescriptorsAgree'
  BY SameDescriptors
<1>3. Pending'
  BY DEF Pending, todo, pollVars, netVars, serverVars
<1>4. QED  BY <1>1, <1>2, <1>3, QuietStep DEF serverVars

LEMMA PassDoneStep ==
  ASSUME ServerInv, PassDone
  PROVE  ServerInv'
<1>. USE DEF ServerInv, PassDone
<1>1. TypeOK'
  BY DEF TypeOK, pollVars, netVars, serverVars, chatVars
<1>2. DescriptorsAgree'
  BY SameDescriptors
<1>3. Pending'
  BY DEF Pending, todo, pollVars, netVars, serverVars
<1>4. QED  BY <1>1, <1>2, <1>3, QuietStep DEF serverVars

LEMMA PollEventsStep ==
  ASSUME ServerInv, PollEvents
  PROVE  ServerInv'
<1>. USE DEF ServerInv
<1>1. /\ loopPc = "loop" /\ Poll(Readable, Writable, Failed)
      /\ loopPc' = IF m_revents_map' = <<>> THEN "loop" ELSE "handle"
      /\ UNCHANGED <<netVars, serverVars, chatVars, m_quit, crashed>>
  BY DEF PollEvents
<1>2. todo = {} /\ Registered = {ServerFd} \cup DOMAIN m_connection_map
  BY <1>1 DEF Pending, DescriptorsAgree
<1>3. /\ Failed = {fd \in DOMAIN m_connection_map : peer[m_connection_map[fd]] = "failed"}
      /\ Failed \cap (Readable \cup Writable) = {}
      /\ ServerFd \notin DOMAIN m_connection_map
  BY Types, DescriptorNumbers DEF Failed, Readable, Writable
<1>4. /\ todo' = Registered \cap (Readable \cup Writable \cup Failed)
      /\ \A fd \in todo' : m_revents_map'[fd] \in IO_STATE
      /\ \A fd \in todo' : m_revents_map'[fd] = "ERROR" <=> fd \in Failed
  BY <1>1, <1>3 DEF Poll, todo, IO_STATE
<1>5. m_poll_fd' = [i \in Slots |-> IF m_poll_fd[i] \in Failed THEN NoFd ELSE m_poll_fd[i]]
  BY <1>1, <1>3 DEF Poll
<1>6. TypeOK'
  <2>1. m_poll_fd' \in [Slots -> {NoFd, ServerFd} \cup ClientFds]
    BY <1>5 DEF TypeOK
  <2>2. m_revents_map' \in UNION {[D -> IO_STATE] : D \in SUBSET ({ServerFd} \cup ClientFds)}
    <3>1. todo' \subseteq {ServerFd} \cup ClientFds
      BY <1>2, <1>4, Types
    <3>2. m_revents_map' \in [todo' -> IO_STATE]
      BY <1>1, <1>3, <1>4 DEF Poll
    <3>3. QED  BY <3>1, <3>2
  <2>3. loopPc' \in {"loop", "handle", "read", "over"}
    BY <1>1
  <2>4. QED  BY <1>1, <2>1, <2>2, <2>3 DEF TypeOK, netVars, serverVars, chatVars
<1>7. DescriptorsAgree'
  <2>1. Registered' = Registered \ Failed
    BY <1>5 DEF Registered
  <2>2. Registered' = {ServerFd} \cup
          {fd \in DOMAIN m_connection_map : ~(fd \in todo' /\ m_revents_map'[fd] = "ERROR")}
    BY <1>2, <1>3, <1>4, <2>1
  <2>3. \A i, j \in Slots : m_poll_fd'[i] = m_poll_fd'[j] => i = j \/ m_poll_fd'[i] = NoFd
    BY <1>5 DEF DescriptorsAgree
  <2>4. QED  BY <1>1, <1>2, <1>4, <2>2, <2>3 DEF DescriptorsAgree, serverVars
<1>8. Pending'
  <2>1. m_revents_map' = <<>> => todo' = {}
    BY DEF todo
  <2>2. loopPc' # "over" /\ loopPc' # "read" /\ (loopPc' = "loop" => todo' = {})
    BY <1>1, <2>1
  <2>3. \A fd \in todo' : m_revents_map'[fd] = "ERROR" =>
          fd \in DOMAIN m_connection_map' /\ peer'[m_connection_map'[fd]] = "failed"
    BY <1>1, <1>3, <1>4 DEF netVars, serverVars
  <2>4. QED  BY <2>2, <2>3 DEF Pending
<1>9. QED  BY <1>1, <1>6, <1>7, <1>8, QuietStep DEF serverVars

(* After an event is handled and its descriptor is left out.               *)
LEMMA DonePending ==
  ASSUME TypeOK, Pending, NEW fd \in todo, Done(fd), loopPc' = "handle",
         UNCHANGED <<m_connection_map, peer>>
  PROVE  /\ Pending'
         /\ m_revents_map' \in UNION {[D -> IO_STATE] : D \in SUBSET ({ServerFd} \cup ClientFds)}
<1>1. todo' = todo \ {fd} /\ \A f \in todo' : m_revents_map'[f] = m_revents_map[f]
  BY DEF Done, todo
<1>2. Pending'
  BY <1>1 DEF Pending
<1>3. m_revents_map' \in [todo' -> IO_STATE] /\ todo' \subseteq {ServerFd} \cup ClientFds
  BY <1>1, Types DEF Done
<1>4. QED  BY <1>2, <1>3

LEMMA HandleWriteStep ==
  ASSUME ServerInv, NEW fd \in todo, HandleWrite(fd)
  PROVE  ServerInv'
<1>. USE DEF ServerInv
<1>1. /\ loopPc = "handle" /\ m_revents_map[fd] = "WRITE" /\ Done(fd)
      /\ UNCHANGED <<m_poll_fd, netVars, serverVars, chatVars, m_quit, loopPc, crashed>>
  BY DEF HandleWrite, Handling
<1>2. Pending' /\ m_revents_map' \in UNION {[D -> IO_STATE] : D \in SUBSET ({ServerFd} \cup ClientFds)}
  BY <1>1, DonePending DEF serverVars, netVars
<1>3. TypeOK'
  BY <1>1, <1>2 DEF TypeOK, netVars, serverVars, chatVars
<1>4. DescriptorsAgree'
  BY <1>1, DoneDescriptors DEF serverVars
<1>5. QED  BY <1>1, <1>2, <1>3, <1>4, QuietStep DEF serverVars

LEMMA AcceptRefusesStep ==
  ASSUME ServerInv, NEW c \in Clients, AcceptRefuses(c)
  PROVE  ServerInv'
<1>. USE DEF ServerInv
<1>1. /\ loopPc = "handle" /\ ServerFd \in todo /\ m_revents_map[ServerFd] = "READ"
      /\ c \in backlog /\ backlog' = backlog \ {c} /\ refused' = refused \cup {c}
      /\ Done(ServerFd)
      /\ UNCHANGED <<m_poll_fd, peer, sent, serverVars, chatVars, m_quit, loopPc, crashed>>
  BY DEF AcceptRefuses, Handling
<1>2. Pending' /\ m_revents_map' \in UNION {[D -> IO_STATE] : D \in SUBSET ({ServerFd} \cup ClientFds)}
  BY <1>1, DonePending DEF serverVars
<1>3. TypeOK'
  BY <1>1, <1>2 DEF TypeOK, serverVars, chatVars
<1>4. DescriptorsAgree'
  BY <1>1, DoneDescriptors DEF serverVars
<1>5. Phases'
  <2>1. Accepted' = Accepted /\ Range(active_conns)' = Range(active_conns)
        /\ \A d : HasJoined(d)' <=> HasJoined(d)
    BY <1>1 DEF serverVars, chatVars, Accepted, HasJoined
  <2>2. UNCHANGED <<m_connection_map, got, heard>>
    BY <1>1 DEF serverVars, chatVars
  <2>3. QED  BY <1>1, <2>1, <2>2 DEF Phases
<1>6. MembersListed'
  BY <1>1, SameMembers DEF serverVars
<1>7. Progress'
  BY <1>1, SameProgress DEF chatVars
<1>8. WholeLines'
  <2>1. \A d \in Clients : got[d] <= got'[d]
    BY <1>1 DEF TypeOK, chatVars
  <2>2. QED  BY <1>1, <1>3, <2>1, SameLines DEF chatVars
<1>9. EveryMemberHears'
  BY <1>1, SameHearing DEF serverVars, chatVars
<1>10. QED  BY <1>2, <1>3, <1>4, <1>5, <1>6, <1>7, <1>8, <1>9

LEMMA HandleErrorStep ==
  ASSUME ServerInv, NEW fd \in todo, HandleError(fd)
  PROVE  ServerInv'
<1>. USE DEF ServerInv
<1>1. /\ loopPc = "handle" /\ m_revents_map[fd] = "ERROR" /\ Done(fd)
      /\ m_current_clients' = m_current_clients - 1
      /\ m_connection_map' = [f \in DOMAIN m_connection_map \ {fd} |-> m_connection_map[f]]
      /\ UNCHANGED <<m_poll_fd, netVars, active_conns, chatVars, m_quit, loopPc, crashed>>
  BY DEF HandleError, Handling
<1>2. fd \in DOMAIN m_connection_map /\ peer[m_connection_map[fd]] = "failed"
  BY <1>1 DEF Pending
<1>3. /\ todo' = todo \ {fd} /\ \A f \in todo' : m_revents_map'[f] = m_revents_map[f]
      /\ DOMAIN m_connection_map' = DOMAIN m_connection_map \ {fd}
      /\ \A f \in DOMAIN m_connection_map' : m_connection_map'[f] = m_connection_map[f]
  BY <1>1 DEF Done, todo
<1>4. /\ Accepted' \subseteq Accepted
      /\ \A c \in Accepted : c \in Accepted' \/ peer[c] = "failed"
  BY <1>2, <1>3 DEF Accepted, Range
<1>5. /\ m_current_clients' = Cardinality(DOMAIN m_connection_map')
      /\ m_current_clients' \in 0..MAX_CLIENTS
  <2>1. IsFiniteSet(DOMAIN m_connection_map') /\
        Cardinality(DOMAIN m_connection_map') = Cardinality(DOMAIN m_connection_map) - 1
    BY <1>2, <1>3, ConnectionsFinite, FS_RemoveElement
  <2>2. Cardinality(DOMAIN m_connection_map') \in Nat
    BY <2>1, FS_CardinalityType
  <2>3. m_current_clients = Cardinality(DOMAIN m_connection_map) /\ m_current_clients \in 0..MAX_CLIENTS
    BY DEF DescriptorsAgree, TypeOK
  <2>4. QED  BY <1>1, <2>1, <2>2, <2>3, ChatAssumption
<1>6. TypeOK'
  <2>1. m_revents_map' \in UNION {[D -> IO_STATE] : D \in SUBSET ({ServerFd} \cup ClientFds)}
    <3>1. m_revents_map' \in [todo' -> IO_STATE] /\ todo' \subseteq {ServerFd} \cup ClientFds
      BY <1>1, <1>3, Types DEF Done
    <3>2. QED  BY <3>1
  <2>2. m_connection_map' \in UNION {[D -> Clients] : D \in SUBSET ClientFds}
    <3>1. /\ m_connection_map' \in [DOMAIN m_connection_map' -> Clients]
          /\ DOMAIN m_connection_map' \subseteq ClientFds
      BY <1>1, <1>3, Types
    <3>2. QED  BY <3>1
  <2>3. QED  BY <1>1, <1>5, <2>1, <2>2 DEF TypeOK, netVars, chatVars
<1>7. DescriptorsAgree'
  <2>1. Registered' = Registered
    BY <1>1 DEF Registered
  <2>2. Registered' = {ServerFd} \cup
          {f \in DOMAIN m_connection_map' : ~(f \in todo' /\ m_revents_map'[f] = "ERROR")}
    BY <1>1, <1>3, <2>1 DEF DescriptorsAgree
  <2>3. todo' \subseteq {ServerFd} \cup DOMAIN m_connection_map'
    BY <1>3 DEF DescriptorsAgree
  <2>4. QED  BY <1>1, <1>5, <2>2, <2>3 DEF DescriptorsAgree
<1>8. Phases'
  <2>1. Range(active_conns)' = Range(active_conns) /\ \A d : HasJoined(d)' <=> HasJoined(d)
    BY <1>1 DEF chatVars, HasJoined
  <2>2. UNCHANGED <<backlog, refused, peer, got, heard>>
    BY <1>1 DEF netVars, chatVars
  <2>3. \A f, g \in DOMAIN m_connection_map' :
          m_connection_map'[f] = m_connection_map'[g] => f = g
    BY <1>3 DEF Phases
  <2>4. QED  BY <1>4, <2>1, <2>2, <2>3 DEF Phases
<1>9. Pending'
  BY <1>1, <1>3 DEF Pending, netVars
<1>10. MembersListed'
  <2>1. UNCHANGED <<active_conns, peer>>
    BY <1>1 DEF netVars
  <2>2. \A c \in Accepted' : OwnPort(c) /\ peer[c] = "open" =>
          \E i \in 1..Len(active_conns) : active_conns[i] = c
    BY <1>4 DEF MembersListed
  <2>3. \A c \in Dangling' : peer[c] = "failed"
    BY <1>4, <2>1 DEF Dangling, Phases
  <2>4. QED  BY <2>1, <2>2, <2>3 DEF MembersListed, OwnPort
<1>11. Progress'
  BY <1>1, SameProgress DEF netVars, chatVars
<1>12. WholeLines'
  <2>1. \A d \in Clients : got[d] <= got'[d]
    BY <1>1 DEF TypeOK, chatVars
  <2>2. QED  BY <1>1, <1>6, <2>1, SameLines DEF chatVars
<1>13. EveryMemberHears'
  BY <1>1, SameHearing DEF netVars, chatVars
<1>14. QED  BY <1>6, <1>7, <1>8, <1>9, <1>10, <1>11, <1>12, <1>13

(* The descriptor that the loop handles.                                   *)
LEMMA LeastTodo ==
  ASSUME TypeOK, NEW fd \in todo, \A other \in todo : fd <= other
  PROVE  Min(todo) = fd
<1>1. Min(todo) \in todo /\ Min(todo) <= fd /\ fd <= Min(todo)
  BY Types, MinIs
<1>2. fd \in Nat /\ Min(todo) \in Nat
  BY <1>1, Types
<1>3. QED  BY <1>1, <1>2

LEMMA HandleReadStep ==
  ASSUME ServerInv, NEW fd \in todo, HandleRead(fd)
  PROVE  ServerInv'
<1>. USE DEF ServerInv
<1>1. CASE Crash("null")
  BY <1>1, CrashStep
<1>2. ASSUME /\ fd \in DOMAIN m_connection_map /\ loopPc' = "read"
             /\ msgFrom' = got[m_connection_map[fd]] + 1
             /\ UNCHANGED <<pollVars, netVars, serverVars, got, spoken, heard,
                            m_quit, crashed>>
      PROVE  ServerInv'
  <2>1. loopPc = "handle" /\ (\A other \in todo : fd <= other) /\ m_revents_map[fd] = "READ"
    BY DEF HandleRead, Handling
  <2>2. TypeOK'
    <3>1. msgFrom' \in Nat
      BY <1>2, Types DEF TypeOK
    <3>2. QED  BY <1>2, <3>1 DEF TypeOK, pollVars, netVars, serverVars
  <2>3. DescriptorsAgree'
    BY <1>2, SameDescriptors
  <2>4. Phases'
    BY <1>2, SamePhases DEF netVars, serverVars
  <2>5. Pending'
    <3>1. msgFrom' > 0
      BY <1>2, Types DEF TypeOK
    <3>2. QED  BY <1>2, <2>1, <3>1 DEF Pending, todo, pollVars, netVars, serverVars
  <2>6. MembersListed'
    BY <1>2, SameMembers DEF netVars, serverVars
  <2>7. Progress'
    <3>1. UNCHANGED <<got, sent, spoken, peer>>
      BY <1>2 DEF netVars
    <3>2. \A d : ~Reading(d) /\ (Reading(d)' <=> d = m_connection_map[fd])
      BY <1>2, <2>1, LeastTodo DEF Reading, reader, todo, pollVars, serverVars
    <3>3. ASSUME NEW d \in Clients, NEW j \in 1..Len(spoken), LastOf(d, j)
          PROVE  FarAs(d, j)'
      <4>1. FarAs(d, j)
        BY <3>3 DEF Progress
      <4>2. got[d] \in Nat
        BY DEF TypeOK
      <4>3. QED  BY <1>2, <3>1, <3>2, <4>1, <4>2 DEF FarAs
    <3>4. \A d, j : LastOf(d, j)' <=> LastOf(d, j)
      BY <1>2 DEF LastOf
    <3>5. QED  BY <3>1, <3>3, <3>4 DEF Progress
  <2>8. WholeLines'
    <3>1. \A d \in Clients : got[d] <= got'[d]
      BY <1>2 DEF TypeOK
    <3>2. QED  BY <1>2, <2>2, <3>1, SameLines
  <2>9. EveryMemberHears'
    BY <1>2, SameHearing DEF netVars, serverVars
  <2>10. QED  BY <2>2, <2>3, <2>4, <2>5, <2>6, <2>7, <2>8, <2>9
<1>3. QED  BY <1>1, <1>2 DEF HandleRead

-----------------------------------------------------------------------------
(* Messages.                                                               *)

LEMMA Appended ==
  ASSUME NEW S, NEW s \in Seq(S), NEW e \in S
  PROVE  /\ Append(s, e) \in Seq(S) /\ Len(Append(s, e)) = Len(s) + 1 /\ Len(s) \in Nat
         /\ \A i \in 1..Len(s) : Append(s, e)[i] = s[i]
         /\ Append(s, e)[Len(s)+1] = e
         /\ Range(Append(s, e)) = Range(s) \cup {e}
<1>1. /\ Append(s, e) \in Seq(S) /\ Len(Append(s, e)) = Len(s) + 1 /\ Len(s) \in Nat
      /\ \A i \in 1..Len(s) : Append(s, e)[i] = s[i]
      /\ Append(s, e)[Len(s)+1] = e
  BY AppendProperties, LenProperties
<1>2. /\ Range(s) = {s[i] : i \in 1..Len(s)}
      /\ Range(Append(s, e)) = {Append(s, e)[i] : i \in 1..Len(s)+1}
  BY <1>1, RangeEquality
<1>. HIDE DEF Range
<1>3. \A i \in 1..Len(s)+1 : i \in 1..Len(s) \/ i = Len(s) + 1
  BY <1>1
<1>4. \A i : i \in 1..Len(s) \/ i = Len(s) + 1 => i \in 1..Len(s)+1
  BY <1>1
<1>5. ASSUME NEW x \in Range(Append(s, e)) PROVE x \in Range(s) \cup {e}
  <2>1. PICK i \in 1..Len(s)+1 : x = Append(s, e)[i]
    BY <1>2
  <2>2. QED  BY <1>1, <1>2, <1>3, <2>1
<1>6. ASSUME NEW x \in Range(s) \cup {e} PROVE x \in Range(Append(s, e))
  <2>1. CASE x = e
    BY <1>1, <1>2, <1>4, <2>1
  <2>2. CASE x \in Range(s)
    <3>1. PICK i \in 1..Len(s) : x = s[i]
      BY <1>2, <2>2
    <3>2. QED  BY <1>1, <1>2, <1>4, <3>1
  <2>3. QED  BY <2>1, <2>2
<1>7. QED  BY <1>1, <1>5, <1>6

(* A message that goes on after the sender's last one keeps WholeLines.    *)
LEMMA NextLine ==
  ASSUME TypeOK, TypeOK', WholeLines, NEW m \in Message, spoken' = Append(spoken, m),
         \A c \in Clients : got[c] <= got'[c],
         \A i \in 1..Len(spoken) : LastOf(m.from, i) =>
            /\ m.first = spoken[i].last + 1
            /\ m.last \in m.first..got'[m.from]
            /\ Script[m.from][m.last] = "nl"
  PROVE  WholeLines'
<1>1. /\ Len(spoken') = Len(spoken) + 1 /\ Len(spoken) \in Nat
      /\ \A i \in 1..Len(spoken) : spoken'[i] = spoken[i]
      /\ spoken'[Len(spoken)+1] = m
  BY Appended DEF TypeOK
<1>. SUFFICES ASSUME NEW j \in 1..Len(spoken'), NEW i \in 1..j-1,
                     spoken'[i].from = spoken'[j].from,
                     \A k \in i+1..j-1 : spoken'[k].from # spoken'[j].from
              PROVE  /\ spoken'[j].first = spoken'[i].last + 1
                     /\ spoken'[j].last \in spoken'[j].first..got'[spoken'[j].from]
                     /\ Script[spoken'[j].from][spoken'[j].last] = "nl"
  BY DEF WholeLines
<1>2. i \in 1..Len(spoken) /\ \A k \in i+1..j-1 : k \in 1..Len(spoken)
  BY <1>1
<1>3. CASE j \in 1..Len(spoken)
  <2>1. spoken'[j] = spoken[j] /\ spoken'[i] = spoken[i]
        /\ \A k \in i+1..j-1 : spoken[k].from # spoken[j].from
    BY <1>1, <1>2, <1>3
  <2>2. spoken[j] \in Message
    BY <1>3, ElementOfSeq DEF TypeOK
  <2>3. spoken[j].from \in Clients /\ spoken[j].first \in Nat /\ spoken[j].last \in Nat
    BY <2>2 DEF Message
  <2>4. got[spoken[j].from] \in Nat /\ got'[spoken[j].from] \in Nat
        /\ got[spoken[j].from] <= got'[spoken[j].from]
    BY <2>3 DEF TypeOK
  <2>5. /\ spoken[j].first = spoken[i].last + 1
        /\ spoken[j].last \in spoken[j].first..got[spoken[j].from]
        /\ Script[spoken[j].from][spoken[j].last] = "nl"
    BY <1>3, <2>1 DEF WholeLines
  <2>6. QED  BY SMTT(20), <2>1, <2>3, <2>4, <2>5
<1>4. CASE j = Len(spoken) + 1
  <2>1. spoken'[j] = m /\ spoken'[i] = spoken[i]
    BY <1>1, <1>2, <1>4
  <2>2. LastOf(m.from, i)
    BY <1>1, <1>2, <1>4, <2>1 DEF LastOf
  <2>3. QED  BY <1>2, <2>1, <2>2
<1>5. QED  BY <1>1, <1>3, <1>4

(* A message written to those members it is for keeps them up to date.     *)
LEMMA NextHeard ==
  ASSUME TypeOK, NEW m \in Message, NEW D, NEW d \in Clients, HasJoined(d), HearsAll(d),
         peer[d] = "open", WriteAll(D, m),
         d \in D <=> (m.first = 0 \/ Port[m.from] # Port[d])
  PROVE  HearsAll(d)'
<1>. DEFINE n == Len(spoken)
            S == SpokenTo(d)
<1>1. /\ spoken' = Append(spoken, m)
      /\ heard'[d] = IF d \in D THEN Append(heard[d], m) ELSE heard[d]
  BY DEF WriteAll, TypeOK
<1>2. /\ Len(spoken') = n + 1 /\ n \in Nat
      /\ \A i \in 1..n : spoken'[i] = spoken[i]
      /\ spoken'[n+1] = m
  BY <1>1, Appended DEF TypeOK
<1>3. S \subseteq 1..n /\ IsFiniteSet(S) /\ Cardinality(S) \in Nat /\ n + 1 \notin S
  <2>1. S \subseteq 1..n
    BY DEF SpokenTo
  <2>2. IsFiniteSet(1..n)
    BY <1>2, FS_Interval
  <2>3. IsFiniteSet(S) /\ Cardinality(S) \in Nat
    BY <2>1, <2>2, FS_Subset, FS_CardinalityType
  <2>4. QED  BY <1>2, <2>1, <2>3
<1>4. SpokenTo(d)' = IF d \in D THEN S \cup {n+1} ELSE S
  <2>1. SpokenTo(d)' = {i \in 1..n+1 :
          /\ \E k \in 1..i-1 : spoken'[k].from = d
          /\ spoken'[i].first = 0 \/ Port[spoken'[i].from] # Port[d]}
    BY <1>2 DEF SpokenTo
  <2>2. ASSUME NEW i \in 1..n PROVE i \in SpokenTo(d)' <=> i \in S
    <3>1. \A k \in 1..i-1 : k \in 1..n
      BY <1>2
    <3>2. QED  BY <1>2, <2>1, <3>1 DEF SpokenTo
  <2>3. n + 1 \in SpokenTo(d)' <=> d \in D
    <3>1. \E k \in 1..n : spoken'[k].from = d
      BY <1>2 DEF HasJoined
    <3>2. QED  BY <1>2, <2>1, <3>1
  <2>4. \A i \in 1..n+1 : i \in 1..n \/ i = n + 1
    BY <1>2
  <2>5. SpokenTo(d)' \subseteq 1..n+1
    BY <2>1
  <2>. HIDE DEF n, S
  <2>6. \A i \in S : i \in 1..n
    BY <1>3
  <2>7. ASSUME NEW i
        PROVE  i \in SpokenTo(d)' <=> i \in (IF d \in D THEN S \cup {n+1} ELSE S)
    <3>1. CASE i = n + 1
      BY <1>3, <2>3, <3>1
    <3>2. CASE i # n + 1
      BY <2>2, <2>4, <2>5, <2>6, <3>2
    <3>3. QED  BY <3>1, <3>2
  <2>8. \A i \in SpokenTo(d)' : i \in (IF d \in D THEN S \cup {n+1} ELSE S)
    BY <2>7
  <2>9. \A i \in (IF d \in D THEN S \cup {n+1} ELSE S) : i \in SpokenTo(d)'
    BY <2>7
  <2>10. QED  BY <2>8, <2>9
<1>5. /\ Len(heard[d]) = Cardinality(S)
      /\ \A i \in S : heard[d][Cardinality({k \in S : k <= i})] = spoken[i]
  BY DEF HearsAll
<1>. HIDE DEF n, S
<1>6. CASE d \notin D
  BY <1>1, <1>2, <1>3, <1>4, <1>5, <1>6 DEF HearsAll
<1>7. CASE d \in D
  <2>. DEFINE h == Append(heard[d], m)
  <2>1. /\ heard'[d] = h /\ Len(h) = Len(heard[d]) + 1
        /\ \A i \in 1..Len(heard[d]) : h[i] = heard[d][i]
        /\ h[Len(heard[d])+1] = m
    BY <1>1, <1>7, Appended DEF TypeOK
  <2>2. Cardinality(S \cup {n+1}) = Cardinality(S) + 1
    BY <1>3, FS_AddElement
  <2>. HIDE DEF h
  <2>3. Len(heard'[d]) = Cardinality(SpokenTo(d)')
    BY <1>4, <1>5, <1>7, <2>1, <2>2
  <2>4. ASSUME NEW i \in S
        PROVE  h[Cardinality({k \in S \cup {n+1} : k <= i})] = spoken'[i]
    <3>. DEFINE U == {k \in S : k <= i}
    <3>1. {k \in S \cup {n+1} : k <= i} = U
      BY <1>2, <1>3
    <3>2. U \subseteq S /\ i \in U
      BY <1>2, <1>3
    <3>3. IsFiniteSet(U) /\ Cardinality(U) \in Nat /\ Cardinality(U) <= Cardinality(S)
          /\ Cardinality(U) # 0
      BY <1>3, <3>2, FS_Subset, FS_CardinalityType, FS_EmptySet
    <3>4. heard[d][Cardinality(U)] = spoken[i] /\ spoken'[i] = spoken[i]
      BY <1>2, <1>3, <1>5
    <3>. HIDE DEF U
    <3>5. Cardinality(U) \in 1..Len(heard[d])
      BY <1>3, <1>5, <3>3
    <3>6. QED  BY <2>1, <3>1, <3>4, <3>5
  <2>5. h[Cardinality({k \in S \cup {n+1} : k <= n+1})] = spoken'[n+1]
    <3>1. \A k \in S \cup {n+1} : k <= n+1
      <4>1. \A k \in S : k \in Int /\ k <= n
        BY <1>3
      <4>2. QED  BY <1>2, <4>1
    <3>2. {k \in S \cup {n+1} : k <= n+1} = S \cup {n+1}
      BY <3>1
    <3>3. QED  BY <1>2, <1>5, <2>1, <2>2, <3>2
  <2>6. \A i \in SpokenTo(d)' :
          heard'[d][Cardinality({k \in SpokenTo(d)' : k <= i})] = spoken'[i]
    <3>1. SpokenTo(d)' = S \cup {n+1} /\ heard'[d] = h
      BY <1>4, <1>7, <2>1
    <3>2. ASSUME NEW i \in S \cup {n+1}
          PROVE  h[Cardinality({k \in S \cup {n+1} : k <= i})] = spoken'[i]
      BY <2>4, <2>5, Zenon
    <3>3. QED  BY <3>1, <3>2, Zenon
  <2>7. QED  BY <2>3, <2>6 DEF HearsAll
<1>8. QED  BY <1>6, <1>7

(* c_callback for a client whose connection has been made.                 *)
LEMMA AcceptStep ==
  ASSUME ServerInv, NEW c \in Clients, Accept(c)
  PROVE  ServerInv'
<1>. USE DEF ServerInv
<1>. DEFINE fd == Min(ClientFds \ DOMAIN m_connection_map)
            m == [from |-> c, first |-> 0, last |-> 0]
<1>1. CASE WriteCrashes(Range(active_conns))
  BY <1>1, CrashStep DEF WriteCrashes
<1>2. ASSUME /\ WriteAll(Range(active_conns), m)
             /\ backlog' = backlog \ {c}
             /\ m_current_clients' = m_current_clients + 1
             /\ m_connection_map' = [f \in DOMAIN m_connection_map \cup {fd} |->
                                       IF f = fd THEN c ELSE m_connection_map[f]]
             /\ active_conns' = Append(active_conns, c)
             /\ m_poll_fd' = RegisterSocket(m_poll_fd, fd)
             /\ Done(ServerFd)
             /\ UNCHANGED <<peer, refused, sent, got, msgFrom, m_quit, loopPc, crashed>>
      PROVE  ServerInv'
  <2>1. /\ loopPc = "handle" /\ ServerFd \in todo /\ m_revents_map[ServerFd] = "READ"
        /\ c \in backlog /\ m_current_clients # MAX_CLIENTS
    BY DEF Accept, Handling
  <2>2. /\ ~HasJoined(c) /\ c \notin Accepted /\ c \notin Range(active_conns)
        /\ c \notin refused /\ peer[c] # "new" /\ got[c] = 0 /\ heard[c] = <<>>
    BY <2>1 DEF Phases
  <2>3. fd \in ClientFds \ DOMAIN m_connection_map
    <3>1. ClientFds \ DOMAIN m_connection_map # {}
      BY <2>2, FreeDescriptor
    <3>2. QED  BY <3>1, DescriptorNumbers, MinIs
  <2>4. m \in Message
    BY DEF Message
  <2>. HIDE DEF fd, m
  <2>5. m.from = c /\ m.first = 0 /\ m.last = 0
    BY DEF m
  <2>6. /\ DOMAIN m_connection_map' = DOMAIN m_connection_map \cup {fd}
        /\ m_connection_map'[fd] = c
        /\ \A f \in DOMAIN m_connection_map : m_connection_map'[f] = m_connection_map[f]
        /\ Accepted' = Accepted \cup {c}
    BY <1>2, <2>3 DEF Accepted, Range
  <2>7. /\ todo' = todo \ {ServerFd}
        /\ \A f \in todo' : m_revents_map'[f] = m_revents_map[f]
        /\ fd \notin todo /\ fd # ServerFd /\ fd # NoFd
    BY <1>2, <2>3, DescriptorNumbers DEF Done, todo, DescriptorsAgree
  <2>8. /\ spoken' = Append(spoken, m) /\ spoken' \in Seq(Message)
        /\ Len(spoken') = Len(spoken) + 1 /\ Len(spoken) \in Nat
        /\ \A i \in 1..Len(spoken) : spoken'[i] = spoken[i]
        /\ spoken'[Len(spoken)+1] = m
    BY <1>2, <2>4, Appended DEF WriteAll, TypeOK
  <2>9. /\ active_conns' \in Seq(Clients) /\ Len(active_conns') = Len(active_conns) + 1
        /\ Len(active_conns) \in Nat
        /\ \A i \in 1..Len(active_conns) : active_conns'[i] = active_conns[i]
        /\ active_conns'[Len(active_conns)+1] = c
        /\ Range(active_conns)' = Range(active_conns) \cup {c}
    BY <1>2, Appended DEF TypeOK
  <2>10. \A d : HasJoined(d)' <=> HasJoined(d) \/ d = c
    <3>1. \A k \in 1..Len(spoken)+1 : k \in 1..Len(spoken) \/ k = Len(spoken) + 1
      BY <2>8
    <3>2. \A k : k \in 1..Len(spoken) \/ k = Len(spoken) + 1 => k \in 1..Len(spoken)+1
      BY <2>8
    <3>3. QED  BY <2>5, <2>8, <3>1, <3>2 DEF HasJoined
  <2>11. \A d \in Clients :
           heard'[d] = IF d \in Range(active_conns) /\ peer[d] = "open"
                       THEN Append(heard[d], m) ELSE heard[d]
    BY <1>2 DEF WriteAll
  <2>12. /\ m_poll_fd' \in [Slots -> {NoFd, ServerFd} \cup ClientFds]
         /\ Registered' = Registered \cup {fd}
         /\ \A i, j \in Slots : m_poll_fd'[i] = m_poll_fd'[j] => i = j \/ m_poll_fd'[i] = NoFd
    <3>1. m_poll_fd \in [Slots -> {NoFd, ServerFd} \cup ClientFds]
      BY DEF TypeOK
    <3>2. PICK s \in Slots : m_poll_fd[s] = NoFd /\ m_poll_fd' = [m_poll_fd EXCEPT ![s] = fd]
      <4>1. {i \in Slots : m_poll_fd[i] = NoFd} # {}
        BY <2>1, FreeSlot
      <4>2. QED  BY <1>2, <3>1, <4>1, Registers
    <3>3. fd \notin Registered
      BY <2>3, <2>7 DEF DescriptorsAgree
    <3>4. \A i \in Slots : m_poll_fd[i] # fd
      BY <2>7, <3>3 DEF Registered
    <3>5. Registered' = Registered \cup {fd}
      BY <2>7, <3>1, <3>2 DEF Registered
    <3>6. QED  BY <2>3, <3>1, <3>2, <3>4, <3>5 DEF DescriptorsAgree
  <2>13. /\ m_current_clients' = Cardinality(DOMAIN m_connection_map')
         /\ m_current_clients' \in 0..MAX_CLIENTS
    <3>1. Cardinality(DOMAIN m_connection_map') = Cardinality(DOMAIN m_connection_map) + 1
      BY <2>3, <2>6, ConnectionsFinite, FS_AddElement
    <3>2. m_current_clients = Cardinality(DOMAIN m_connection_map)
          /\ m_current_clients \in 0..MAX_CLIENTS
      BY DEF DescriptorsAgree, TypeOK
    <3>3. QED  BY <1>2, <2>1, <3>1, <3>2, ChatAssumption
  <2>14. TypeOK'
    <3>1. m_connection_map' \in UNION {[D -> Clients] : D \in SUBSET ClientFds}
      <4>1. /\ m_connection_map' \in [DOMAIN m_connection_map' -> Clients]
            /\ DOMAIN m_connection_map' \subseteq ClientFds
        BY <1>2, <2>3, <2>6, Types
      <4>2. QED  BY <4>1
    <3>2. m_revents_map' \in UNION {[D -> IO_STATE] : D \in SUBSET ({ServerFd} \cup ClientFds)}
      <4>1. m_revents_map' \in [todo' -> IO_STATE] /\ todo' \subseteq {ServerFd} \cup ClientFds
        BY <1>2, <2>7, Types DEF Done
      <4>2. QED  BY <4>1
    <3>3. heard' \in [Clients -> Seq(Message)]
      <4>1. \A d \in Clients : heard'[d] \in Seq(Message)
        <5>1. \A d \in Clients : heard[d] \in Seq(Message)
          BY DEF TypeOK
        <5>2. \A d \in Clients : Append(heard[d], m) \in Seq(Message)
          BY <2>4, <5>1
        <5>3. QED  BY <2>11, <5>1, <5>2
      <4>2. heard' = [d \in Clients |-> IF d \in Range(active_conns) /\ peer[d] = "open"
                                        THEN Append(heard[d], m) ELSE heard[d]]
        BY <1>2 DEF WriteAll
      <4>3. QED  BY <4>1, <4>2
    <3>4. QED  BY <1>2, <2>8, <2>9, <2>12, <2>13, <3>1, <3>2, <3>3 DEF TypeOK
  <2>15. DescriptorsAgree'
    <3>1. Registered' = {ServerFd} \cup
            {f \in DOMAIN m_connection_map' : ~(f \in todo' /\ m_revents_map'[f] = "ERROR")}
      <4>1. ServerFd \notin DOMAIN m_connection_map
        BY Types, DescriptorNumbers
      <4>2. Registered = {ServerFd} \cup
              {f \in DOMAIN m_connection_map : ~(f \in todo /\ m_revents_map[f] = "ERROR")}
        BY DEF DescriptorsAgree
      <4>3. QED  BY <2>6, <2>7, <2>12, <4>1, <4>2
    <3>2. todo' \subseteq {ServerFd} \cup DOMAIN m_connection_map'
      BY <2>6, <2>7 DEF DescriptorsAgree
    <3>3. QED  BY <2>12, <2>13, <3>1, <3>2 DEF DescriptorsAgree
  <2>16. Phases'
    <3>1. \A f, g \in DOMAIN m_connection_map' :
            m_connection_map'[f] = m_connection_map'[g] => f = g
      <4>1. \A f \in DOMAIN m_connection_map : m_connection_map[f] # c
        BY <2>2 DEF Accepted, Range
      <4>2. QED  BY <2>6, <4>1 DEF Phases
    <3>2. \A d \in Clients : d # c => (~HasJoined(d) => heard'[d] = heard[d])
      BY <2>11 DEF Phases
    <3>3. /\ peer' = peer /\ refused' = refused /\ got' = got
          /\ backlog' = backlog \ {c}
      BY <1>2
    <3>4. \A d \in Accepted' \cup Range(active_conns)' : HasJoined(d)'
      BY <2>6, <2>9, <2>10 DEF Phases
    <3>5. \A d \in Clients : HasJoined(d)' =>
             d \notin backlog' \cup refused' /\ peer'[d] # "new"
      BY <2>2, <2>10, <3>3 DEF Phases
    <3>6. \A d \in Clients : ~HasJoined(d)' =>
             got'[d] = 0 /\ heard'[d] = <<>> /\ peer'[d] # "failed"
      BY <2>10, <3>2, <3>3 DEF Phases
    <3>7. \A d \in backlog' \cup refused' : peer'[d] # "new"
      BY <3>3 DEF Phases
    <3>8. backlog' \cap refused' = {}
      BY <3>3 DEF Phases
    <3>9. \A d \in Range(active_conns)' : d \in Accepted' \/ peer'[d] = "failed"
      BY <2>6, <2>9, <3>3 DEF Phases
    <3>10. QED  BY <3>1, <3>4, <3>5, <3>6, <3>7, <3>8, <3>9 DEF Phases
  <2>17. Pending'
    <3>1. \A f \in todo' : m_revents_map'[f] = "ERROR" =>
            f \in DOMAIN m_connection_map' /\ peer'[m_connection_map'[f]] = "failed"
      BY <1>2, <2>6, <2>7 DEF Pending
    <3>2. QED  BY <1>2, <2>1, <3>1 DEF Pending
  <2>18. MembersListed'
    <3>1. \A i \in 1..Len(active_conns)+1 : i \in 1..Len(active_conns) \/ i = Len(active_conns) + 1
      BY <2>9
    <3>2. \A i : i \in 1..Len(active_conns) \/ i = Len(active_conns) + 1 => i \in 1..Len(active_conns)+1
      BY <2>9
    <3>3. \A i \in 1..Len(active_conns) : active_conns[i] # c
      <4>1. Range(active_conns) = {active_conns[i] : i \in 1..Len(active_conns)}
        BY RangeEquality DEF TypeOK
      <4>2. QED  BY <2>2, <4>1
    <3>4. \A i, j \in 1..Len(active_conns') : active_conns'[i] = active_conns'[j] => i = j
      BY <2>9, <3>1, <3>3 DEF MembersListed
    <3>5. \A d \in Accepted' : OwnPort(d) /\ peer[d] = "open" =>
            \E i \in 1..Len(active_conns') : active_conns'[i] = d
      BY <2>6, <2>9, <3>2 DEF MembersListed
    <3>6. \A d \in Dangling' : peer[d] = "failed"
      BY <2>6, <2>9 DEF MembersListed, Dangling
    <3>7. QED  BY <1>2, <3>4, <3>5, <3>6 DEF MembersListed, OwnPort
  <2>19. Progress'
    <3>1. \A d : ~Reading(d) /\ ~Reading(d)'
      BY <1>2, <2>1 DEF Reading
    <3>2. ASSUME NEW d \in Clients, NEW j \in 1..Len(spoken'), LastOf(d, j)'
          PROVE  FarAs(d, j)'
      <4>1. CASE j = Len(spoken) + 1
        BY <1>2, <2>2, <2>5, <2>8, <3>1, <3>2, <4>1 DEF FarAs, LastOf
      <4>2. CASE j \in 1..Len(spoken)
        <5>1. \A k \in j+1..Len(spoken) : k \in 1..Len(spoken) /\ k \in j+1..Len(spoken')
          BY <2>8, <4>2
        <5>2. LastOf(d, j)
          BY <2>8, <3>2, <4>2, <5>1 DEF LastOf
        <5>3. FarAs(d, j)
          BY <4>2, <5>2 DEF Progress
        <5>4. QED  BY <1>2, <2>8, <3>1, <4>2, <5>3 DEF FarAs
      <4>3. QED  BY <2>8, <4>1, <4>2
    <3>3. QED  BY <1>2, <3>2 DEF Progress
  <2>20. WholeLines'
    <3>1. \A d \in Clients : got[d] <= got'[d]
      BY <1>2 DEF TypeOK
    <3>2. \A i \in 1..Len(spoken) : ~LastOf(c, i)
      BY <2>2 DEF LastOf, HasJoined
    <3>3. QED  BY <2>4, <2>5, <2>8, <2>14, <3>1, <3>2, NextLine
  <2>21. EveryMemberHears'
    <3>1. ASSUME NEW d \in Range(active_conns), peer[d] = "open"
          PROVE  HearsAll(d)'
      <4>1. d \in Clients /\ HasJoined(d) /\ HearsAll(d)
        BY <3>1, Types DEF Phases, EveryMemberHears
      <4>2. QED  BY <1>2, <2>4, <2>5, <3>1, <4>1, NextHeard
    <3>2. HearsAll(c)'
      <4>1. \A k \in 1..Len(spoken) : spoken'[k].from # c
        BY <2>2, <2>8 DEF HasJoined
      <4>2. SpokenTo(c)' = {}
        <5>1. \A i \in 1..Len(spoken)+1 : \A k \in 1..i-1 : k \in 1..Len(spoken)
          BY <2>8
        <5>2. QED  BY <2>8, <4>1, <5>1 DEF SpokenTo
      <4>3. heard'[c] = <<>>
        BY <2>2, <2>11
      <4>4. QED  BY <4>2, <4>3, FS_EmptySet DEF HearsAll
    <3>3. QED  BY <1>2, <2>9, <3>1, <3>2 DEF EveryMemberHears
  <2>22. QED  BY <2>14, <2>15, <2>16, <2>17, <2>18, <2>19, <2>20, <2>21
<1>3. QED  BY <1>1, <1>2 DEF Accept

-----------------------------------------------------------------------------
(* r_callback.                                                             *)

LEMMA TheReader ==
  ASSUME ServerInv, loopPc = "read"
  PROVE  /\ Min(todo) \in todo /\ m_revents_map[Min(todo)] = "READ"
         /\ reader \in Accepted /\ reader \in Clients /\ HasJoined(reader)
         /\ got[reader] \in Nat /\ sent[reader] \in Nat /\ got[reader] <= sent[reader]
         /\ Reading(reader) /\ \A d : d # reader => ~Reading(d)
<1>. USE DEF ServerInv
<1>1. PICK fd \in todo : /\ \A other \in todo : fd <= other
                         /\ fd \in DOMAIN m_connection_map /\ m_revents_map[fd] = "READ"
  BY DEF Pending
<1>2. Min(todo) = fd
  BY <1>1, LeastTodo
<1>3. reader \in Accepted
  BY <1>1, <1>2 DEF reader, Accepted, Range
<1>4. reader \in Clients /\ HasJoined(reader)
  BY <1>3, Types DEF Phases
<1>5. got[reader] \in Nat /\ sent[reader] \in Nat /\ got[reader] <= sent[reader]
  BY <1>4 DEF TypeOK, Progress
<1>6. QED  BY <1>1, <1>2, <1>3, <1>4, <1>5 DEF Reading

(* How many bytes a read() returns.                                        *)
LEMMA ChunkSize ==
  ASSUME NEW n \in Nat \ {0}
  PROVE  Min({n, BufSize}) \in 1..n
<1>1. {n, BufSize} \in SUBSET Nat /\ {n, BufSize} # {} /\ BufSize \in Nat \ {0}
  BY ChatAssumption
<1>2. Min({n, BufSize}) \in {n, BufSize} /\ Min({n, BufSize}) <= n
  BY <1>1, MinIs
<1>3. QED  BY <1>1, <1>2

LEMMA ReadPartStep ==
  ASSUME ServerInv, ReadPart
  PROVE  ServerInv'
<1>. USE DEF ServerInv
<1>. DEFINE c == reader
            last == got[c] + Min({Unread(c), BufSize})
<1>1. /\ loopPc = "read" /\ Unread(c) > 0
      /\ got' = [got EXCEPT ![c] = last]
      /\ UNCHANGED <<pollVars, netVars, serverVars, msgFrom, spoken, heard,
                     m_quit, loopPc, crashed>>
  BY DEF ReadPart
<1>2. /\ c \in Clients /\ HasJoined(c) /\ got[c] \in Nat /\ sent[c] \in Nat
      /\ Reading(c) /\ \A d : d # c => ~Reading(d)
  BY <1>1, TheReader
<1>3. last \in Nat /\ got[c] < last /\ last <= sent[c]
  <2>1. Unread(c) \in Nat \ {0} /\ Unread(c) = sent[c] - got[c]
    BY <1>1, <1>2 DEF Unread
  <2>2. Min({Unread(c), BufSize}) \in 1..Unread(c)
    BY <2>1, ChunkSize
  <2>3. QED  BY <1>2, <2>1, <2>2
<1>. HIDE DEF c, last
<1>4. \A d \in Clients : got'[d] = IF d = c THEN last ELSE got[d]
  BY <1>1 DEF TypeOK
<1>5. TypeOK'
  <2>1. got' \in [Clients -> Nat]
    BY <1>1, <1>3 DEF TypeOK
  <2>2. QED  BY <1>1, <2>1 DEF TypeOK, pollVars, netVars, serverVars
<1>6. DescriptorsAgree'
  BY <1>1, SameDescriptors
<1>7. Phases'
  <2>1. Accepted' = Accepted /\ Range(active_conns)' = Range(active_conns)
        /\ \A d : HasJoined(d)' <=> HasJoined(d)
    BY <1>1 DEF serverVars, Accepted, HasJoined
  <2>2. QED  BY <1>1, <1>2, <1>4, <2>1 DEF Phases, netVars, serverVars
<1>8. Pending'
  BY <1>1 DEF Pending, todo, pollVars, netVars, serverVars
<1>9. MembersListed'
  BY <1>1, SameMembers DEF netVars, serverVars
<1>10. Progress'
  <2>1. \A d \in Clients : got'[d] <= sent'[d]
    BY <1>1, <1>3, <1>4 DEF Progress, netVars
  <2>2. ASSUME NEW d \in Clients, NEW j \in 1..Len(spoken), LastOf(d, j)
        PROVE  FarAs(d, j)'
    <3>1. FarAs(d, j)
      BY <2>2 DEF Progress
    <3>2. Reading(d)' <=> Reading(d)
      BY <1>1 DEF Reading, reader, todo, serverVars, pollVars
    <3>3. CASE d = c
      <4>1. msgFrom = spoken[j].last + 1 /\ spoken[j].last <= got[c]
        BY <1>2, <1>3, <3>1, <3>3 DEF FarAs
      <4>2. spoken[j] \in Message
        BY ElementOfSeq DEF TypeOK
      <4>3. spoken[j].last \in Nat
        BY <4>2 DEF Message
      <4>4. spoken[j].last <= got'[c]
        BY <1>2, <1>3, <1>4, <4>1, <4>3
      <4>5. QED  BY <1>1, <1>2, <3>2, <3>3, <4>1, <4>4 DEF FarAs
    <3>4. CASE d # c
      BY <1>1, <1>4, <3>1, <3>2, <3>4 DEF FarAs, netVars
    <3>5. QED  BY <3>3, <3>4
  <2>3. \A d, j : LastOf(d, j)' <=> LastOf(d, j)
    BY <1>1 DEF LastOf
  <2>4. QED  BY <1>1, <2>1, <2>2, <2>3 DEF Progress
<1>11. WholeLines'
  <2>1. \A d \in Clients : got[d] <= got'[d]
    <3>1. \A d \in Clients : got[d] \in Nat
      BY DEF TypeOK
    <3>2. QED  BY <1>3, <1>4, <3>1
  <2>2. QED  BY <1>1, <1>5, <2>1, SameLines
<1>12. EveryMemberHears'
  BY <1>1, SameHearing DEF netVars, serverVars
<1>13. QED  BY <1>5, <1>6, <1>7, <1>8, <1>9, <1>10, <1>11, <1>12

LEMMA ReadLineStep ==
  ASSUME ServerInv, ReadLine
  PROVE  ServerInv'
<1>. USE DEF ServerInv
<1>. DEFINE c == reader
            last == got[c] + Min({Unread(c), BufSize})
            m == [from |-> c, first |-> msgFrom, last |-> last]
<1>1. CASE WriteCrashes(Others(c))
  BY <1>1, CrashStep DEF WriteCrashes
<1>2. ASSUME /\ WriteAll(Others(c), m)
             /\ got' = [got EXCEPT ![c] = last]
             /\ Done(Min(todo)) /\ loopPc' = "handle" /\ msgFrom' = 0
             /\ UNCHANGED <<m_poll_fd, netVars, serverVars, m_quit, crashed>>
      PROVE  ServerInv'
  <2>1. loopPc = "read" /\ Unread(c) > 0 /\ Script[c][last] = "nl"
    BY DEF ReadLine
  <2>2. /\ Min(todo) \in todo /\ m_revents_map[Min(todo)] = "READ"
        /\ c \in Clients /\ HasJoined(c) /\ got[c] \in Nat /\ sent[c] \in Nat
        /\ Reading(c) /\ \A d : d # c => ~Reading(d)
    BY <2>1, TheReader
  <2>3. last \in Nat /\ got[c] < last /\ last <= sent[c]
    <3>1. Unread(c) \in Nat \ {0} /\ Unread(c) = sent[c] - got[c]
      BY <2>1, <2>2 DEF Unread
    <3>2. Min({Unread(c), BufSize}) \in 1..Unread(c)
      BY <3>1, ChunkSize
    <3>3. QED  BY <2>2, <3>1, <3>2
  <2>. HIDE DEF c, last
  <2>4. m \in Message /\ m.from = c /\ m.first = msgFrom /\ m.last = last
    BY <2>2, <2>3 DEF TypeOK, Message
  <2>. HIDE DEF m
  <2>5. \A d \in Clients : got'[d] = IF d = c THEN last ELSE got[d]
    BY <1>2 DEF TypeOK
  <2>6. \A d : ~Reading(d)'
    BY <1>2 DEF Reading
  <2>7. Pending' /\ m_revents_map' \in UNION {[D -> IO_STATE] : D \in SUBSET ({ServerFd} \cup ClientFds)}
    BY <1>2, <2>2, DonePending DEF serverVars, netVars
  <2>8. /\ spoken' = Append(spoken, m) /\ spoken' \in Seq(Message)
        /\ Len(spoken') = Len(spoken) + 1 /\ Len(spoken) \in Nat
        /\ \A i \in 1..Len(spoken) : spoken'[i] = spoken[i]
        /\ spoken'[Len(spoken)+1] = m
    BY <1>2, <2>4, Appended DEF WriteAll, TypeOK
  <2>9. \A d : HasJoined(d)' <=> HasJoined(d)
    <3>1. \A k \in 1..Len(spoken)+1 : k \in 1..Len(spoken) \/ k = Len(spoken) + 1
      BY <2>8
    <3>2. \A k : k \in 1..Len(spoken) => k \in 1..Len(spoken)+1
      BY <2>8
    <3>3. QED  BY <2>2, <2>4, <2>8, <3>1, <3>2 DEF HasJoined
  <2>10. \A d \in Clients :
           heard'[d] = IF d \in Others(c) /\ peer[d] = "open"
                       THEN Append(heard[d], m) ELSE heard[d]
    BY <1>2 DEF WriteAll
  <2>11. TypeOK'
    <3>1. heard' \in [Clients -> Seq(Message)]
      <4>1. \A d \in Clients : heard[d] \in Seq(Message)
        BY DEF TypeOK
      <4>2. \A d \in Clients : Append(heard[d], m) \in Seq(Message)
        BY <2>4, <4>1
      <4>3. \A d \in Clients : heard'[d] \in Seq(Message)
        BY <2>10, <4>1, <4>2
      <4>4. heard' = [d \in Clients |-> IF d \in Others(c) /\ peer[d] = "open"
                                        THEN Append(heard[d], m) ELSE heard[d]]
        BY <1>2 DEF WriteAll
      <4>5. QED  BY <4>3, <4>4
    <3>2. got' \in [Clients -> Nat]
      BY <1>2, <2>3 DEF TypeOK
    <3>3. QED  BY <1>2, <2>7, <2>8, <3>1, <3>2 DEF TypeOK, netVars, serverVars
  <2>12. DescriptorsAgree'
    BY <1>2, <2>2, DoneDescriptors DEF serverVars
  <2>13. Phases'
    <3>1. Accepted' = Accepted /\ Range(active_conns)' = Range(active_conns)
      BY <1>2 DEF serverVars, Accepted
    <3>2. \A d \in Clients : ~HasJoined(d) => heard'[d] = heard[d] /\ got'[d] = got[d]
      BY <2>2, <2>5, <2>10 DEF Others, Phases
    <3>3. QED  BY <1>2, <2>9, <3>1, <3>2 DEF Phases, netVars, serverVars
  <2>14. MembersListed'
    BY <1>2, SameMembers DEF netVars, serverVars
  <2>15. \A i \in 1..Len(spoken) : LastOf(c, i) =>
           /\ spoken[i].last \in Nat
           /\ msgFrom = spoken[i].last + 1 /\ spoken[i].last <= got[c]
    <3>1. ASSUME NEW i \in 1..Len(spoken), LastOf(c, i)
          PROVE  /\ spoken[i].last \in Nat
                 /\ msgFrom = spoken[i].last + 1 /\ spoken[i].last <= got[c]
      <4>1. FarAs(c, i)
        BY <2>2, <3>1 DEF Progress
      <4>2. spoken[i] \in Message
        BY ElementOfSeq DEF TypeOK
      <4>3. QED  BY <2>2, <2>3, <4>1, <4>2 DEF FarAs, Message
    <3>2. QED  BY <3>1
  <2>16. Progress'
    <3>1. \A d \in Clients : got'[d] <= sent'[d]
      BY <1>2, <2>3, <2>5 DEF Progress, netVars
    <3>2. ASSUME NEW d \in Clients, NEW j \in 1..Len(spoken'), LastOf(d, j)'
          PROVE  FarAs(d, j)'
      <4>1. CASE j = Len(spoken) + 1
        BY <2>2, <2>4, <2>5, <2>6, <2>8, <3>2, <4>1 DEF FarAs, LastOf
      <4>2. CASE j \in 1..Len(spoken)
        <5>1. d # c
          <6>1. Len(spoken) + 1 \in j+1..Len(spoken')
            BY <2>8, <4>2
          <6>2. QED  BY <2>4, <2>8, <3>2, <6>1 DEF LastOf
        <5>2. \A k \in j+1..Len(spoken) : k \in 1..Len(spoken) /\ k \in j+1..Len(spoken')
          BY <2>8, <4>2
        <5>3. LastOf(d, j)
          BY <2>8, <3>2, <4>2, <5>2 DEF LastOf
        <5>4. FarAs(d, j) /\ ~Reading(d)
          BY <2>2, <4>2, <5>1, <5>3 DEF Progress
        <5>5. QED  BY <1>2, <2>5, <2>6, <2>8, <4>2, <5>1, <5>4 DEF FarAs, netVars
      <4>3. QED  BY <2>8, <4>1, <4>2
    <3>3. QED  BY <3>1, <3>2 DEF Progress
  <2>17. WholeLines'
    <3>1. \A d \in Clients : got[d] <= got'[d]
      <4>1. \A d \in Clients : got[d] \in Nat
        BY DEF TypeOK
      <4>2. QED  BY <2>3, <2>5, <4>1
    <3>2. \A i \in 1..Len(spoken) : LastOf(m.from, i) =>
            /\ m.first = spoken[i].last + 1
            /\ m.last \in m.first..got'[m.from]
            /\ Script[m.from][m.last] = "nl"
      BY <2>1, <2>2, <2>3, <2>4, <2>5, <2>15
    <3>3. QED  BY <2>4, <2>8, <2>11, <3>1, <3>2, NextLine
  <2>18. EveryMemberHears'
    <3>1. ASSUME NEW d \in Range(active_conns), peer[d] = "open"
          PROVE  HearsAll(d)'
      <4>1. d \in Clients /\ HasJoined(d) /\ HearsAll(d)
        BY <3>1, Types DEF Phases, EveryMemberHears
      <4>2. m.first # 0
        BY <2>1, <2>4 DEF Pending
      <4>3. d \in Others(c) <=> Port[m.from] # Port[d]
        BY <2>4 DEF Others
      <4>4. QED  BY <1>2, <2>4, <3>1, <4>1, <4>2, <4>3, NextHeard
    <3>2. QED  BY <1>2, <3>1 DEF EveryMemberHears, netVars, serverVars
  <2>19. QED  BY <2>7, <2>11, <2>12, <2>13, <2>14, <2>16, <2>17, <2>18
<1>3. QED  BY <1>1, <1>2 DEF ReadLine

(* A sequence without its i-th element.                                    *)
LEMMA Removed ==
  ASSUME NEW S, NEW s \in Seq(S), NEW i \in 1..Len(s)
  PROVE  /\ RemoveAt(s, i) \in Seq(S) /\ Len(RemoveAt(s, i)) = Len(s) - 1
         /\ \A j \in 1..Len(s)-1 : RemoveAt(s, i)[j] = IF j < i THEN s[j] ELSE s[j+1]
<1>1. Len(s) \in Nat /\ \A j \in 1..Len(s) : s[j] \in S
  BY LenProperties, ElementOfSeq
<1>2. /\ SubSeq(s, 1, i-1) \in Seq(S) /\ Len(SubSeq(s, 1, i-1)) = i - 1
      /\ \A j \in 1..i-1 : SubSeq(s, 1, i-1)[j] = s[j]
  <2>1. \A j \in 1..i-1 : s[j] \in S
    BY <1>1
  <2>2. 1 \in Int /\ i - 1 \in Int
    OBVIOUS
  <2>3. QED  BY <2>1, <2>2, SubSeqProperties
<1>3. /\ SubSeq(s, i+1, Len(s)) \in Seq(S) /\ Len(SubSeq(s, i+1, Len(s))) = Len(s) - i
      /\ \A j \in 1..Len(s)-i : SubSeq(s, i+1, Len(s))[j] = s[i+j]
  <2>1. \A j \in i+1..Len(s) : s[j] \in S
    BY <1>1
  <2>2. i + 1 \in Int /\ Len(s) \in Int
    BY <1>1
  <2>3. /\ SubSeq(s, i+1, Len(s)) \in Seq(S)
        /\ Len(SubSeq(s, i+1, Len(s))) = IF i+1 <= Len(s) THEN Len(s)-(i+1)+1 ELSE 0
        /\ \A j \in 1..Len(s)-(i+1)+1 : SubSeq(s, i+1, Len(s))[j] = s[i+1+j-1]
    BY <2>1, <2>2, SubSeqProperties
  <2>. DEFINE t == SubSeq(s, i+1, Len(s))
  <2>. HIDE DEF t
  <2>4. /\ t \in Seq(S) /\ Len(t) = IF i+1 <= Len(s) THEN Len(s)-(i+1)+1 ELSE 0
        /\ \A j \in 1..Len(s)-(i+1)+1 : t[j] = s[i+1+j-1]
    BY <2>3 DEF t
  <2>5. Len(t) = Len(s) - i
    BY <1>1, <2>4
  <2>6. \A j \in 1..Len(s)-i : j \in 1..Len(s)-(i+1)+1 /\ i+1+j-1 = i+j
    BY <1>1
  <2>7. \A j \in 1..Len(s)-i : t[j] = s[i+j]
    BY <2>4, <2>6
  <2>8. QED  BY <2>4, <2>5, <2>7 DEF t
<1>. DEFINE u == SubSeq(s, 1, i-1)
            t == SubSeq(s, i+1, Len(s))
<1>. HIDE DEF u, t
<1>4. /\ u \in Seq(S) /\ Len(u) = i - 1 /\ \A j \in 1..i-1 : u[j] = s[j]
      /\ t \in Seq(S) /\ Len(t) = Len(s) - i /\ \A j \in 1..Len(s)-i : t[j] = s[i+j]
  BY <1>2, <1>3 DEF u, t
<1>5. /\ u \o t \in Seq(S) /\ Len(u \o t) = Len(u) + Len(t)
      /\ \A j \in 1..Len(u)+Len(t) : (u \o t)[j] = IF j <= Len(u) THEN u[j] ELSE t[j - Len(u)]
  BY <1>4, ConcatProperties
<1>6. Len(u \o t) = Len(s) - 1
  BY <1>1, <1>4, <1>5
<1>7. ASSUME NEW j \in 1..Len(s)-1
      PROVE  (u \o t)[j] = IF j < i THEN s[j] ELSE s[j+1]
  <2>1. j \in 1..Len(u)+Len(t)
    BY <1>1, <1>4
  <2>2. CASE j < i
    BY <1>1, <1>4, <1>5, <2>1, <2>2
  <2>3. CASE ~(j < i)
    <3>1. j - Len(u) \in 1..Len(s)-i /\ ~(j <= Len(u)) /\ i + (j - Len(u)) = j + 1
      BY <1>1, <1>4, <2>3
    <3>2. QED  BY <1>4, <1>5, <2>1, <2>3, <3>1
  <2>4. QED  BY <2>2, <2>3
<1>8. RemoveAt(s, i) = u \o t
  BY DEF RemoveAt, u, t
<1>9. QED  BY <1>5, <1>6, <1>7, <1>8

LEMMA ReadEndStep ==
  ASSUME ServerInv, ReadEnd
  PROVE  ServerInv'
<1>. USE DEF ServerInv
<1>. DEFINE c == reader
            same == {i \in 1..Len(active_conns) : Port[active_conns[i]] = Port[c]}
<1>1. CASE Crash("dangling")
  BY <1>1, CrashStep
<1>2. ASSUME /\ active_conns' = IF same = {} THEN active_conns
                                ELSE RemoveAt(active_conns, Min(same))
             /\ got' = [got EXCEPT ![c] = sent[c]]
             /\ Done(Min(todo)) /\ loopPc' = "handle" /\ msgFrom' = 0
             /\ UNCHANGED <<m_poll_fd, netVars, m_current_clients, m_connection_map,
                            spoken, heard, m_quit, crashed>>
      PROVE  ServerInv'
  <2>1. loopPc = "read" /\ peer[c] \in {"closed", "failed", "reset"}
    BY DEF ReadEnd
  <2>2. /\ Min(todo) \in todo /\ m_revents_map[Min(todo)] = "READ"
        /\ c \in Clients /\ HasJoined(c)
        /\ got[c] \in Nat /\ sent[c] \in Nat /\ got[c] <= sent[c]
        /\ \A d : d # c => ~Reading(d)
    BY <2>1, TheReader
  <2>. HIDE DEF c
  <2>3. /\ active_conns' \in Seq(Clients)
        /\ \A i, j \in 1..Len(active_conns') : active_conns'[i] = active_conns'[j] => i = j
        /\ Range(active_conns)' \subseteq Range(active_conns)
        /\ \A i \in 1..Len(active_conns) : Port[active_conns[i]] # Port[c] =>
             \E j \in 1..Len(active_conns') : active_conns'[j] = active_conns[i]
    <3>1. CASE same = {}
      BY <1>2, <3>1 DEF TypeOK, MembersListed
    <3>2. CASE same # {}
      <4>. DEFINE k == Min(same)
                  r == RemoveAt(active_conns, k)
      <4>1. k \in 1..Len(active_conns) /\ Port[active_conns[k]] = Port[c]
        <5>1. same \in SUBSET Nat
          OBVIOUS
        <5>2. k \in same
          BY <3>2, <5>1, MinIs
        <5>3. QED  BY <5>2
      <4>. HIDE DEF k, same
      <4>2. /\ r \in Seq(Clients) /\ Len(r) = Len(active_conns) - 1 /\ Len(active_conns) \in Nat
            /\ \A j \in 1..Len(active_conns)-1 :
                 r[j] = IF j < k THEN active_conns[j] ELSE active_conns[j+1]
        BY <4>1, Removed, LenProperties DEF TypeOK
      <4>. HIDE DEF r
      <4>3. active_conns' = r
        BY <1>2, <3>2 DEF k, r
      <4>4. \A i, j \in 1..Len(active_conns) : active_conns[i] = active_conns[j] => i = j
        BY DEF MembersListed
      <4>5. ASSUME NEW i \in 1..Len(r), NEW j \in 1..Len(r), r[i] = r[j] PROVE i = j
        <5>1. /\ i \in 1..Len(active_conns) /\ i + 1 \in 1..Len(active_conns)
              /\ j \in 1..Len(active_conns) /\ j + 1 \in 1..Len(active_conns)
              /\ i \in 1..Len(active_conns)-1 /\ j \in 1..Len(active_conns)-1
          BY <4>2
        <5>2. r[i] = (IF i < k THEN active_conns[i] ELSE active_conns[i+1])
              /\ r[j] = (IF j < k THEN active_conns[j] ELSE active_conns[j+1])
          BY <4>2, <5>1
        <5>3. (IF i < k THEN i ELSE i + 1) = (IF j < k THEN j ELSE j + 1)
          BY <4>4, <4>5, <5>1, <5>2
        <5>4. i \in Int /\ j \in Int /\ k \in Int
          BY <4>1, <4>2
        <5>5. QED  BY <5>3, <5>4
      <4>6. /\ Range(r) = {r[i] : i \in 1..Len(r)}
            /\ Range(active_conns) = {active_conns[i] : i \in 1..Len(active_conns)}
        <5>1. \A q \in Seq(Clients) : Range(q) = {q[i] : i \in 1..Len(q)}
          BY RangeEquality, Zenon
        <5>2. QED  BY <4>2, <5>1, Zenon DEF TypeOK
      <4>7. Range(r) \subseteq Range(active_conns)
        <5>1. ASSUME NEW i \in 1..Len(r) PROVE r[i] \in {active_conns[j] : j \in 1..Len(active_conns)}
          <6>1. i \in 1..Len(active_conns) /\ i + 1 \in 1..Len(active_conns)
                /\ i \in 1..Len(active_conns)-1
            BY <4>2
          <6>2. QED  BY <4>2, <6>1
        <5>2. QED  BY <4>6, <5>1
      <4>8. ASSUME NEW i \in 1..Len(active_conns), Port[active_conns[i]] # Port[c]
            PROVE  \E j \in 1..Len(r) : r[j] = active_conns[i]
        <5>1. i # k
          BY <4>1, <4>8
        <5>2. CASE i < k
          <6>1. i \in 1..Len(r) /\ i \in 1..Len(active_conns)-1
            BY <4>1, <4>2, <5>2
          <6>2. r[i] = active_conns[i]
            BY <4>2, <5>2, <6>1
          <6>3. QED  BY <6>1, <6>2
        <5>3. CASE i > k
          <6>1. i-1 \in 1..Len(r) /\ i-1 \in 1..Len(active_conns)-1 /\ ~(i-1 < k) /\ i-1+1 = i
            BY <4>1, <4>2, <5>3
          <6>2. r[i-1] = active_conns[i]
            BY <4>2, <6>1
          <6>3. QED  BY <6>1, <6>2
        <5>4. QED  BY <4>1, <5>1, <5>2, <5>3
      <4>9. QED  BY <4>2, <4>3, <4>5, <4>7, <4>8
    <3>3. QED  BY <3>1, <3>2
  <2>4. \A d \in Clients : got'[d] = IF d = c THEN sent[c] ELSE got[d]
    BY <1>2 DEF TypeOK
  <2>5. \A d : ~Reading(d)'
    BY <1>2 DEF Reading
  <2>6. Pending' /\ m_revents_map' \in UNION {[D -> IO_STATE] : D \in SUBSET ({ServerFd} \cup ClientFds)}
    BY <1>2, <2>2, DonePending DEF netVars
  <2>7. TypeOK'
    <3>1. got' \in [Clients -> Nat]
      BY <1>2, <2>2 DEF TypeOK
    <3>2. QED  BY <1>2, <2>3, <2>6, <3>1 DEF TypeOK, netVars
  <2>8. DescriptorsAgree'
    BY <1>2, <2>2, DoneDescriptors
  <2>9. Accepted' = Accepted /\ \A d : HasJoined(d)' <=> HasJoined(d)
    BY <1>2 DEF Accepted, HasJoined
  <2>10. Phases'
    <3>1. /\ m_connection_map' = m_connection_map /\ peer' = peer /\ heard' = heard
          /\ backlog' = backlog /\ refused' = refused
      BY <1>2 DEF netVars
    <3>2. \A d \in Clients : ~HasJoined(d) => got'[d] = got[d]
      BY <2>2, <2>4
    <3>3. \A d \in Accepted' \cup Range(active_conns)' : HasJoined(d)'
      BY <2>3, <2>9 DEF Phases
    <3>4. \A d \in Clients : ~HasJoined(d)' =>
             got'[d] = 0 /\ heard'[d] = <<>> /\ peer'[d] # "failed"
      BY <2>9, <3>1, <3>2 DEF Phases
    <3>5. \A d \in Range(active_conns)' : d \in Accepted' \/ peer'[d] = "failed"
      BY <2>3, <2>9, <3>1 DEF Phases
    <3>6. \A d \in Clients : HasJoined(d)' => d \notin backlog' \cup refused' /\ peer'[d] # "new"
      BY <2>9, <3>1 DEF Phases
    <3>7. QED  BY <3>1, <3>3, <3>4, <3>5, <3>6 DEF Phases
  <2>11. MembersListed'
    <3>1. \A d \in Accepted' : OwnPort(d) /\ peer[d] = "open" =>
            \E i \in 1..Len(active_conns') : active_conns'[i] = d
      <4>1. ASSUME NEW d \in Accepted, OwnPort(d), peer[d] = "open"
            PROVE  \E i \in 1..Len(active_conns') : active_conns'[i] = d
        <5>1. Port[c] # Port[d]
          BY <2>1, <2>2, <4>1 DEF OwnPort
        <5>2. PICK i \in 1..Len(active_conns) : active_conns[i] = d
          BY <4>1 DEF MembersListed
        <5>3. QED  BY <2>3, <5>1, <5>2
      <4>2. QED  BY <2>9, <4>1
    <3>2. \A d \in Dangling' : peer[d] = "failed"
      BY <2>3, <2>9 DEF Dangling, MembersListed
    <3>3. QED  BY <1>2, <2>3, <3>1, <3>2 DEF MembersListed, OwnPort, netVars
  <2>12. Progress'
    <3>1. \A d \in Clients : got'[d] <= sent'[d]
      BY <1>2, <2>2, <2>4 DEF Progress, netVars
    <3>2. ASSUME NEW d \in Clients, NEW j \in 1..Len(spoken), LastOf(d, j)
          PROVE  FarAs(d, j)'
      <4>1. CASE d = c
        BY <1>2, <2>1, <2>4, <4>1 DEF FarAs, netVars
      <4>2. CASE d # c
        <5>1. FarAs(d, j) /\ ~Reading(d)
          BY <2>2, <3>2, <4>2 DEF Progress
        <5>2. QED  BY <1>2, <2>4, <2>5, <4>2, <5>1 DEF FarAs, netVars
      <4>3. QED  BY <4>1, <4>2
    <3>3. \A d, j : LastOf(d, j)' <=> LastOf(d, j)
      BY <1>2 DEF LastOf
    <3>4. QED  BY <1>2, <3>1, <3>2, <3>3 DEF Progress
  <2>13. WholeLines'
    <3>1. \A d \in Clients : got[d] <= got'[d]
      <4>1. \A d \in Clients : got[d] \in Nat
        BY DEF TypeOK
      <4>2. QED  BY <2>2, <2>4, <4>1
    <3>2. QED  BY <1>2, <2>7, <3>1, SameLines
  <2>14. EveryMemberHears'
    BY <1>2, <2>3, SameHearing DEF netVars
  <2>15. QED  BY <2>6, <2>7, <2>8, <2>10, <2>11, <2>12, <2>13, <2>14
<1>3. QED  BY <1>1, <1>2 DEF ReadEnd

-----------------------------------------------------------------------------
LEMMA ServerStep ==
  ASSUME ServerInv, [Next]_vars
  PROVE  ServerInv'
<1>1. CASE UNCHANGED vars
  <2>1. UNCHANGED <<pollVars, netVars, serverVars, chatVars, m_quit, loopPc, crashed>>
    BY <1>1 DEF vars
  <2>2. QED  BY <2>1, SameState DEF ServerInv, TypeOK
<1>2. CASE Next
  <2>1. CASE Over
    BY <1>1, <2>1 DEF Over
  <2>2. CASE ExitLoop
    BY <2>2, ExitLoopStep
  <2>3. CASE PollEvents
    BY <2>3, PollEventsStep
  <2>4. CASE PassDone
    BY <2>4, PassDoneStep
  <2>5. ASSUME NEW c \in Clients, Accept(c) PROVE ServerInv'
    BY <2>5, AcceptStep
  <2>6. ASSUME NEW c \in Clients, AcceptRefuses(c) PROVE ServerInv'
    BY <2>6, AcceptRefusesStep
  <2>7. ASSUME NEW fd \in todo, HandleRead(fd) PROVE ServerInv'
    BY <2>7, HandleReadStep
  <2>8. ASSUME NEW fd \in todo, HandleWrite(fd) PROVE ServerInv'
    BY <2>8, HandleWriteStep
  <2>9. ASSUME NEW fd \in todo, HandleError(fd) PROVE ServerInv'
    BY <2>9, HandleErrorStep
  <2>10. CASE ReadPart
    BY <2>10, ReadPartStep
  <2>11. CASE ReadLine
    BY <2>11, ReadLineStep
  <2>12. CASE ReadEnd
    BY <2>12, ReadEndStep
  <2>13. ASSUME NEW c \in Clients, ClientNext(c) PROVE ServerInv'
    BY <2>13, ClientStep
  <2>14. QED  BY <1>2, <2>1, <2>2, <2>3, <2>4, <2>5, <2>6, <2>7, <2>8, <2>9, <2>10,
                 <2>11, <2>12, <2>13 DEF Next, Server
<1>3. QED  BY <1>1, <1>2

(* ServerInv is inductive.                                                 *)
THEOREM ServerInvariant == Spec => []ServerInv
<1>1. Init => ServerInv
  BY ServerInit
<1>2. ServerInv /\ [Next]_vars => ServerInv'
  BY ServerStep
<1>3. QED  BY <1>1, <1>2, PTL DEF Spec

(* Every variable has its type; in particular there are always a slot of   *)
(* the poller and a descriptor for a connection that is accepted.          *)
THEOREM ServerTypes == Spec => []TypeOK
BY ServerInvariant, PTL DEF ServerInv

(* The poller watches just the connections that have not failed, each in   *)
(* one slot, and handleEvent() looks up none that does not exist.          *)
THEOREM PollerAndMapAgree == Spec => []DescriptorsAgree
BY ServerInvariant, PTL DEF ServerInv

(* A connected client whose port is its own is in active_conns, and none   *)
(* is there twice; only connections that failed dangle.                    *)
THEOREM ConnectedAreListed == Spec => []MembersListed
BY ServerInvariant, PTL DEF ServerInv

(* However read() splits what a client sends, its messages are whole lines *)
(* and follow one another without a gap.                                   *)
THEOREM MessagesAreLines == Spec => []WholeLines
BY ServerInvariant, PTL DEF ServerInv

(* A member has heard just what was said to it, in the order of all.       *)
THEOREM MembersHearAll == Spec => []EveryMemberHears
BY ServerInvariant, PTL DEF ServerInv

===============================================================================
