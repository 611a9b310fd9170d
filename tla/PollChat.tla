------------------------------ MODULE PollChat -------------------------------
(***************************************************************************)
(* The chat of prac/: server.cpp, one thread around poll(2), and its       *)
(* clients, client.cpp, which write a line and then wait for one.  A       *)
(* descriptor of the server is named by the client at its other end; the   *)
(* server never closes one.                                                *)
(***************************************************************************)
EXTENDS Integers, FiniteSets

CONSTANTS Client,
          Listening,   \* sock_fd
          None,        \* -1
          POLL_MAX,    \* slots of fd_arr, the listening socket's included
          MaxFd,       \* accepted sockets for which there are descriptors
          Window,      \* messages that a client's receive buffer holds
          MaxLines     \* bound: lines that a client's user types

ASSUME PollChatAssumption ==
  /\ IsFiniteSet(Client) /\ Listening # None /\ {Listening, None} \cap Client = {}
  /\ {POLL_MAX, MaxFd, Window, MaxLines} \subseteq Nat \ {0}

VARIABLES
  fd_arr, revents, connected_fds,   \* [Slot -> ...]
  connected_num, n_ready, i,        \* as in main()
  pc,        \* "poll", "loop", "write" (in processConnOnce()) or "crashed"
  k,         \* the index of the loop that writes
  accepted,  \* [Client -> "no", "backlog" or "yes"]
  link,      \* [Client -> "up", "closed" or "reset" by the client, "failed"]
  waiting,   \* [Client -> BOOLEAN]: in read(), not at its prompt
  outbox,    \* [Client -> Nat]: messages for the server to read
  inbox,     \* [Client -> Nat]: messages for the client to read
  typed      \* [Client -> Nat]: lines typed

serverVars == <<fd_arr, revents, connected_fds, connected_num, n_ready, i, pc, k>>
clientVars == <<accepted, link, waiting, outbox, inbox, typed>>
vars == <<serverVars, clientVars>>

Slot == 0..POLL_MAX - 1

Init ==
  /\ fd_arr = [s \in Slot |-> IF s = 0 THEN Listening ELSE None]
  /\ revents = [s \in Slot |-> "none"]
  /\ connected_fds = [s \in Slot |-> None]
  /\ connected_num = 0 /\ n_ready = 0 /\ i = 0 /\ pc = "poll" /\ k = 0
  /\ accepted = [c \in Client |-> "no"] /\ link = [c \in Client |-> "up"]
  /\ waiting = [c \in Client |-> FALSE]
  /\ outbox = [c \in Client |-> 0] /\ inbox = [c \in Client |-> 0]
  /\ typed = [c \in Client |-> 0]

Watched == {connected_fds[s] : s \in Slot} \ {None}

-----------------------------------------------------------------------------
(* The clients.                                                            *)
Connect(c) ==
  /\ accepted[c] = "no"
  /\ accepted' = [accepted EXCEPT ![c] = "backlog"]
  /\ UNCHANGED <<serverVars, link, waiting, outbox, inbox, typed>>

Connected(c) == accepted[c] # "no" /\ link[c] = "up"

Speak(c) ==
  /\ Connected(c) /\ ~waiting[c] /\ typed[c] < MaxLines
  /\ typed' = [typed EXCEPT ![c] = @ + 1]
  /\ outbox' = [outbox EXCEPT ![c] = @ + 1]
  /\ waiting' = [waiting EXCEPT ![c] = TRUE]
  /\ UNCHANGED <<serverVars, accepted, link, inbox>>

(* One read() may return several messages.                                 *)
Hear(c) ==
  /\ Connected(c) /\ waiting[c] /\ inbox[c] > 0
  /\ \E n \in 0..inbox[c] - 1 : inbox' = [inbox EXCEPT ![c] = n]
  /\ waiting' = [waiting EXCEPT ![c] = FALSE]
  /\ UNCHANGED <<serverVars, accepted, link, outbox, typed>>

(* "exit"; a socket that is closed with messages unread is reset.          *)
Quit(c) ==
  /\ Connected(c) /\ ~waiting[c]
  /\ link' = [link EXCEPT ![c] = IF inbox[c] > 0 THEN "reset" ELSE "closed"]
  /\ UNCHANGED <<serverVars, accepted, waiting, outbox, inbox, typed>>

Fail(c) ==
  /\ Connected(c) /\ accepted[c] = "yes" /\ outbox[c] = 0
  /\ link' = [link EXCEPT ![c] = "failed"]
  /\ UNCHANGED <<serverVars, accepted, waiting, outbox, inbox, typed>>

-----------------------------------------------------------------------------
(* The server.                                                             *)
Event(fd) ==
  IF fd = None THEN "none"
  ELSE IF fd = Listening
  THEN IF \E c \in Client : accepted[c] = "backlog" THEN "in" ELSE "none"
  ELSE IF outbox[fd] > 0 \/ link[fd] \in {"closed", "reset"} THEN "in"
  ELSE IF link[fd] = "failed" THEN "err" ELSE "none"

Events(r) == Cardinality({s \in Slot : r[s] # "none"})

Poll ==
  /\ pc = "poll"
  /\ revents' = [s \in Slot |-> Event(fd_arr[s])]
  /\ n_ready' = Events(revents') /\ n_ready' > 0
  /\ pc' = "loop"
  /\ UNCHANGED <<fd_arr, connected_fds, connected_num, i, k, clientVars>>

LoopDone ==
  /\ pc = "loop" /\ (n_ready = 0 \/ i = POLL_MAX)
  /\ pc' = "poll" /\ i' = 0
  /\ UNCHANGED <<fd_arr, revents, connected_fds, connected_num, n_ready, k, clientVars>>

Turn(event) == pc = "loop" /\ n_ready > 0 /\ i < POLL_MAX /\ revents[i] = event

NotReady ==
  /\ Turn("none")
  /\ i' = i + 1
  /\ UNCHANGED <<fd_arr, revents, connected_fds, connected_num, n_ready, pc, k, clientVars>>

Handled == i' = i + 1 /\ n_ready' = n_ready - 1 /\ pc' = "loop"

Accept ==
  /\ Turn("in") /\ fd_arr[i] = Listening
  /\ IF Cardinality({c \in Client : accepted[c] = "yes"}) >= MaxFd
     THEN UNCHANGED <<accepted, fd_arr, connected_fds, connected_num>>
     ELSE \E c \in Client :
       /\ accepted[c] = "backlog" /\ accepted' = [accepted EXCEPT ![c] = "yes"]
       /\ LET free == {s \in Slot : fd_arr[s] = None} IN
          IF free = {} THEN UNCHANGED <<fd_arr, connected_fds, connected_num>>
          ELSE LET s == CHOOSE t \in free : \A u \in free : t <= u IN
               /\ fd_arr' = [fd_arr EXCEPT ![s] = c]
               /\ connected_fds' = [connected_fds EXCEPT ![s] = c]
               /\ connected_num' = connected_num + 1
  /\ Handled
  /\ UNCHANGED <<revents, k, link, waiting, outbox, inbox, typed>>

(* processConnOnce(): the connection is at its end, or some of what it     *)
(* sent is written to the others.                                          *)
(* Mutant: the slot is freed and not uncounted.                            *)
ForgetSlotOnly ==
  /\ fd_arr' = [fd_arr EXCEPT ![i] = None]
  /\ connected_fds' = [connected_fds EXCEPT ![i] = None]
  /\ UNCHANGED connected_num

Forget ==
  /\ fd_arr' = [fd_arr EXCEPT ![i] = None]
  /\ connected_fds' = [connected_fds EXCEPT ![i] = None]
  /\ connected_num' = connected_num - 1

ReadEnd ==
  /\ Turn("in") /\ fd_arr[i] # Listening /\ outbox[fd_arr[i]] = 0
  /\ Forget /\ Handled
  /\ UNCHANGED <<revents, k, clientVars>>

ReadMessage ==
  /\ Turn("in") /\ fd_arr[i] # Listening /\ outbox[fd_arr[i]] > 0
  /\ \E n \in 0..outbox[fd_arr[i]] - 1 : outbox' = [outbox EXCEPT ![fd_arr[i]] = n]
  /\ pc' = "write"
  /\ UNCHANGED <<fd_arr, revents, connected_fds, connected_num, n_ready, i, k,
                 accepted, link, waiting, inbox, typed>>

(* POLLERR: close() is called with the -1 that was just stored.            *)
HandleError ==
  /\ Turn("err")
  /\ Forget /\ Handled
  /\ UNCHANGED <<revents, k, clientVars>>

(* Mutant: the first client is left out too.                               *)
NorTheFirst(c) == c \notin {None, fd_arr[i], connected_fds[1]}

Recipient(c) == c # None /\ c # fd_arr[i]

(* The loop ends before POLL_MAX if as many were written to as there are   *)
(* connections; the test is skipped after the sender.                      *)
LoopEnds ==
  \/ k = POLL_MAX
  \/ /\ k > 0 /\ connected_fds[k-1] # fd_arr[i]
     /\ connected_num = Cardinality({s \in 0..k-1 : Recipient(connected_fds[s])})

(* Mutant: k stays where it is.                                            *)
SkipStays ==
  /\ pc = "write" /\ ~LoopEnds /\ ~Recipient(connected_fds[k])
  /\ UNCHANGED vars

Skip ==
  /\ pc = "write" /\ ~LoopEnds /\ ~Recipient(connected_fds[k])
  /\ k' = k + 1
  /\ UNCHANGED <<fd_arr, revents, connected_fds, connected_num, n_ready, i, pc, clientVars>>

(* write() waits while the buffer of the client is full.  The answer to a  *)
(* write to a closed socket is a reset, and a write after that may raise   *)
(* SIGPIPE.                                                                *)
Write ==
  /\ pc = "write" /\ ~LoopEnds /\ Recipient(connected_fds[k])
  /\ LET c == connected_fds[k] IN
     CASE link[c] = "up" ->
            /\ inbox[c] < Window /\ inbox' = [inbox EXCEPT ![c] = @ + 1]
            /\ k' = k + 1 /\ UNCHANGED <<link, pc>>
       [] link[c] = "closed" ->
            /\ link' = [link EXCEPT ![c] = "reset"]
            /\ k' = k + 1 /\ UNCHANGED <<inbox, pc>>
       [] link[c] = "reset" ->
            /\ \/ pc' = "crashed" /\ UNCHANGED k
               \/ k' = k + 1 /\ UNCHANGED pc
            /\ UNCHANGED <<inbox, link>>
       [] link[c] = "failed" -> k' = k + 1 /\ UNCHANGED <<inbox, link, pc>>
  /\ UNCHANGED <<fd_arr, revents, connected_fds, connected_num, n_ready, i,
                 accepted, waiting, outbox, typed>>

WriteDone ==
  /\ pc = "write" /\ LoopEnds
  /\ Handled /\ k' = 0
  /\ UNCHANGED <<fd_arr, revents, connected_fds, connected_num, clientVars>>

Server ==
  \/ Poll \/ LoopDone \/ NotReady \/ Accept \/ ReadEnd \/ ReadMessage
  \/ HandleError \/ Skip \/ Write \/ WriteDone

Next ==
  /\ pc # "crashed"
  /\ \/ Server
     \/ \E c \in Client : Connect(c) \/ Speak(c) \/ Hear(c) \/ Quit(c) \/ Fail(c)

(* The server runs, and a client that can read does.  No user has to type. *)
Fairness == WF_vars(Server) /\ \A c \in Client : WF_vars(Hear(c))

Spec == Init /\ [][Next]_vars /\ Fairness

-----------------------------------------------------------------------------
(* The two arrays and the count agree, no client has two slots, and        *)
(* n_ready counts the events that are still ahead, so that the loop        *)
(* handles all of them before it breaks off.                               *)
SlotsAgree ==
  /\ fd_arr[0] = Listening /\ connected_fds[0] = None
  /\ \A s \in Slot \ {0} : fd_arr[s] = connected_fds[s]
  /\ \A s, t \in Slot : fd_arr[s] = fd_arr[t] /\ fd_arr[s] # None => s = t
  /\ connected_num = Cardinality(Watched)
  /\ \A c \in Watched : accepted[c] = "yes"
  /\ pc \in {"loop", "write"} =>
       n_ready = Cardinality({s \in Slot : s >= i /\ revents[s] # "none"})

(* The clients cannot all wait for one another: when the server has        *)
(* nothing left to do, every client that it watches waits, and none has a  *)
(* message to read, there is only one.  (It waits for somebody to join and *)
(* speak.)                                                                 *)
NotAllWait ==
  LET here == {c \in Watched : link[c] = "up"} IN
  (/\ pc = "poll" /\ Events([s \in Slot |-> Event(fd_arr[s])]) = 0
   /\ \A c \in here : waiting[c] /\ inbox[c] = 0)
  => Cardinality(here) <= 1

(* The server writes to a client that is at its prompt and full.           *)
ServerWaits ==
  /\ pc = "write" /\ ~LoopEnds /\ Recipient(connected_fds[k])
  /\ inbox[connected_fds[k]] = Window /\ ~waiting[connected_fds[k]]

(* What a client says is read and passed on, unless the server crashes or  *)
(* waits for a client whose user does not type; and unless the server has  *)
(* accepted the client without a slot for it.                              *)
MessagesRead ==
  \A c \in Client :
    c \in Watched /\ outbox[c] > 0 ~> outbox[c] = 0 \/ pc = "crashed" \/ ServerWaits

=============================================================================
