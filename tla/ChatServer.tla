----------------------------- MODULE ChatServer ------------------------------
(***************************************************************************)
(* The chat server of network/server.cpp: one thread that runs EventLoop,  *)
(* TCPServer::handleEvent() and the callbacks of the chat program, against *)
(* clients that connect, send, close, and fail whenever they like.         *)
(*                                                                         *)
(* A client connects at most once, so it also names its TCPConnection.  A  *)
(* client sends the bytes of its Script in order, "nl" for a newline and   *)
(* anything else for other bytes; the bytes sent and not yet read are in   *)
(* the socket's receive buffer.  Send buffers never fill.                  *)
(***************************************************************************)
EXTENDS Poller, Sequences, SequencesExt

CONSTANTS Clients,
          Port,         \* [Clients -> ...]: clients of two hosts may share one
          Script,       \* [Clients -> Seq(...)]: the bytes a client may send
          MAX_CLIENTS,
          BufSize       \* bytes one read() asks for

ASSUME ChatAssumption ==
  /\ IsFiniteSet(Clients)
  /\ MAX_CLIENTS \in Nat /\ BufSize \in Nat \ {0}
  /\ POLL_MAX > MAX_CLIENTS

VARIABLES
  peer,        \* [Clients -> ...]: the client's end, and what the kernel knows
  backlog,     \* SUBSET Clients: connected and not yet accepted
  refused,     \* SUBSET Clients: accepted and closed at once
  sent,        \* [Clients -> Nat]: bytes of Script the client has sent
  got,         \* [Clients -> Nat]: bytes the server has read (or lost)
  m_quit,      \* EventLoop::m_quit
  m_current_clients, m_connection_map,        \* of TCPServer
  active_conns,                               \* of main(): Seq(Clients)
  loopPc,      \* "loop", "handle", "read", "over"
  msgFrom,     \* first byte of r_callback's msg, 0 while it does not run
  crashed,     \* why the process ended, or "no"
  spoken,      \* Seq(messages): what the callbacks have passed on
  heard        \* [Clients -> Seq(messages)]: what has reached a client that is there

pollVars == <<m_poll_fd, m_revents_map>>
netVars == <<peer, backlog, refused, sent>>
serverVars == <<m_current_clients, m_connection_map, active_conns>>
chatVars == <<got, msgFrom, spoken, heard>>
vars == <<pollVars, netVars, serverVars, chatVars, m_quit, loopPc, crashed>>

ServerFd == 3   \* the descriptor after stdin, stdout and stderr
ClientFds == ServerFd+1 .. ServerFd+Cardinality(Clients)

Accepted == Range(m_connection_map)

(* A message is a range of the bytes of a client; 0..0 says that it joined.*)
Message == [from : Clients, first : Nat, last : Nat]

(* start() has bound, listened and registered; m_quit is never initialised *)
(* and no code calls quit().                                               *)
Init ==
  /\ m_poll_fd = RegisterSocket(NoneRegistered, ServerFd)
  /\ m_revents_map = <<>>
  /\ peer = [c \in Clients |-> "new"]
  /\ backlog = {} /\ refused = {}
  /\ sent = [c \in Clients |-> 0]
  /\ got = [c \in Clients |-> 0]
  /\ m_quit \in BOOLEAN
  /\ m_current_clients = 0
  /\ m_connection_map = <<>>
  /\ active_conns = <<>>
  /\ loopPc = "loop" /\ msgFrom = 0
  /\ crashed = "no"
  /\ spoken = <<>>
  /\ heard = [c \in Clients |-> <<>>]

-----------------------------------------------------------------------------
(* Clients and the kernel.                                                 *)

Connect(c) ==
  /\ peer[c] = "new"
  /\ peer' = [peer EXCEPT ![c] = "open"]
  /\ backlog' = backlog \cup {c}
  /\ UNCHANGED <<refused, sent>>

Send(c) ==
  /\ peer[c] = "open" /\ c \notin refused
  /\ sent[c] < Len(Script[c])
  /\ sent' = [sent EXCEPT ![c] = @ + 1]
  /\ UNCHANGED <<peer, backlog, refused>>

Close(c) ==
  /\ peer[c] = "open" /\ c \notin refused
  /\ peer' = [peer EXCEPT ![c] = "closed"]
  /\ heard' = [heard EXCEPT ![c] = <<>>]
  /\ UNCHANGED <<backlog, refused, sent>>

(* The client's kernel answers with a reset: the client closed with bytes  *)
(* unread, or the server wrote to a closed socket.                         *)
Reset(c) ==
  /\ peer[c] = "closed"
  /\ peer' = [peer EXCEPT ![c] = "reset"]
  /\ UNCHANGED <<backlog, refused, sent>>

(* An error that leaves the socket neither readable nor writable, which    *)
(* POSIX allows poll() to report.                                          *)
Fail(c) ==
  /\ peer[c] = "open" /\ c \in Accepted /\ sent[c] = got[c]
  /\ peer' = [peer EXCEPT ![c] = "failed"]
  /\ heard' = [heard EXCEPT ![c] = <<>>]
  /\ UNCHANGED <<backlog, refused, sent>>

ClientNext(c) ==
  /\ \/ (Connect(c) \/ Send(c) \/ Reset(c)) /\ UNCHANGED heard
     \/ Close(c) \/ Fail(c)
  /\ UNCHANGED <<pollVars, serverVars, got, msgFrom, spoken, m_quit, loopPc, crashed>>

-----------------------------------------------------------------------------
(* A loop over active_conns that writes a message to the members D.  A     *)
(* client that has closed its end does not hear it; a connection that was  *)
(* reset or has failed may raise SIGPIPE, which ends the process; and the  *)
(* use of a pointer to an erased connection is undefined behaviour.        *)
Crash(why) ==
  /\ crashed' = why
  /\ UNCHANGED <<pollVars, netVars, serverVars, chatVars, m_quit, loopPc>>

Dangling == {c \in Range(active_conns) : c \notin Accepted}

WriteCrashes(D) ==
  \/ Dangling # {} /\ Crash("dangling")
  \/ (\E d \in D : peer[d] \in {"reset", "failed"}) /\ Crash("sigpipe")

WriteAll(D, message) ==
  /\ Dangling = {}
  /\ spoken' = Append(spoken, message)
  /\ heard' = [d \in Clients |-> IF d \in D /\ peer[d] = "open"
                                 THEN Append(heard[d], message) ELSE heard[d]]

-----------------------------------------------------------------------------
(* EventLoop::loop() and TCPServer::handleEvent()                          *)

Unread(c) == sent[c] - got[c]

Readable ==
  {ServerFd : c \in backlog}
  \cup {fd \in DOMAIN m_connection_map :
          LET c == m_connection_map[fd] IN
          peer[c] # "failed" /\ (Unread(c) > 0 \/ peer[c] \in {"closed", "reset"})}
Writable == {fd \in DOMAIN m_connection_map : peer[m_connection_map[fd]] # "failed"}
Failed == {fd \in DOMAIN m_connection_map : peer[m_connection_map[fd]] = "failed"}

ExitLoop ==
  /\ loopPc = "loop" /\ m_quit
  /\ loopPc' = "over"
  /\ UNCHANGED <<pollVars, netVars, serverVars, chatVars, m_quit, crashed>>

(* handleEvent() up to its loop.  A poll() that times out changes nothing. *)
PollEvents ==
  /\ loopPc = "loop" /\ ~m_quit
  /\ Poll(Readable, Writable, Failed)
  /\ loopPc' = IF m_revents_map' = <<>> THEN "loop" ELSE "handle"
  /\ UNCHANGED <<netVars, serverVars, chatVars, m_quit, crashed>>

(* The loop handles the descriptors of the map in increasing order; what   *)
(* it has handled is left out of m_revents_map, since nobody reads it.     *)
todo == DOMAIN m_revents_map

Handling(fd, state) ==
  /\ loopPc = "handle" /\ fd \in todo
  /\ \A other \in todo : fd <= other
  /\ m_revents_map[fd] = state

Done(fd) == m_revents_map' = [f \in todo \ {fd} |-> m_revents_map[f]]

AcceptRefuses(c) ==
  /\ Handling(ServerFd, "READ") /\ c \in backlog
  /\ m_current_clients = MAX_CLIENTS
  /\ backlog' = backlog \ {c} /\ refused' = refused \cup {c}
  /\ Done(ServerFd)
  /\ UNCHANGED <<m_poll_fd, peer, sent, serverVars, chatVars, m_quit, loopPc, crashed>>

(* Mutant: the new socket is not registered with the poller.               *)
AcceptUnregistered(c) ==
  /\ Handling(ServerFd, "READ") /\ c \in backlog
  /\ m_current_clients # MAX_CLIENTS
  /\ LET fd == Min(ClientFds \ DOMAIN m_connection_map) IN
     \/ /\ WriteAll(Range(active_conns), [from |-> c, first |-> 0, last |-> 0])
        /\ backlog' = backlog \ {c}
        /\ m_current_clients' = m_current_clients + 1
        /\ m_connection_map' = [f \in DOMAIN m_connection_map \cup {fd} |->
                                  IF f = fd THEN c ELSE m_connection_map[f]]
        /\ active_conns' = Append(active_conns, c)
        /\ Done(ServerFd)
        /\ UNCHANGED <<m_poll_fd, peer, refused, sent, got, msgFrom,
                       m_quit, loopPc, crashed>>
     \/ WriteCrashes(Range(active_conns))

(* Mutant: one client too many.                                            *)
AcceptOneTooMany(c) ==
  /\ Handling(ServerFd, "READ") /\ c \in backlog
  /\ m_current_clients <= MAX_CLIENTS
  /\ LET fd == Min(ClientFds \ DOMAIN m_connection_map) IN
     \/ /\ WriteAll(Range(active_conns), [from |-> c, first |-> 0, last |-> 0])
        /\ backlog' = backlog \ {c}
        /\ m_current_clients' = m_current_clients + 1
        /\ m_connection_map' = [f \in DOMAIN m_connection_map \cup {fd} |->
                                  IF f = fd THEN c ELSE m_connection_map[f]]
        /\ active_conns' = Append(active_conns, c)
        /\ m_poll_fd' = RegisterSocket(m_poll_fd, fd)
        /\ Done(ServerFd)
        /\ UNCHANGED <<peer, refused, sent, got, msgFrom,
                       m_quit, loopPc, crashed>>
     \/ WriteCrashes(Range(active_conns))

(* The kernel gives the lowest free descriptor.  c_callback greets the     *)
(* members before the new client joins them.                               *)
Accept(c) ==
  /\ Handling(ServerFd, "READ") /\ c \in backlog
  /\ m_current_clients # MAX_CLIENTS
  /\ LET fd == Min(ClientFds \ DOMAIN m_connection_map) IN
     \/ /\ WriteAll(Range(active_conns), [from |-> c, first |-> 0, last |-> 0])
        /\ backlog' = backlog \ {c}
        /\ m_current_clients' = m_current_clients + 1
        /\ m_connection_map' = [f \in DOMAIN m_connection_map \cup {fd} |->
                                  IF f = fd THEN c ELSE m_connection_map[f]]
        /\ active_conns' = Append(active_conns, c)
        /\ m_poll_fd' = RegisterSocket(m_poll_fd, fd)
        /\ Done(ServerFd)
        /\ UNCHANGED <<peer, refused, sent, got, msgFrom,
                       m_quit, loopPc, crashed>>
     \/ WriteCrashes(Range(active_conns))

(* operator[] of the map would give a null pointer for a descriptor it     *)
(* does not hold.                                                          *)
HandleRead(fd) ==
  /\ Handling(fd, "READ") /\ fd # ServerFd
  /\ IF fd \in DOMAIN m_connection_map
     THEN /\ loopPc' = "read"
          /\ msgFrom' = got[m_connection_map[fd]] + 1
          /\ UNCHANGED <<pollVars, netVars, serverVars, got, spoken, heard,
                         m_quit, crashed>>
     ELSE Crash("null")

(* There is no write callback.                                             *)
HandleWrite(fd) ==
  /\ Handling(fd, "WRITE")
  /\ Done(fd)
  /\ UNCHANGED <<m_poll_fd, netVars, serverVars, chatVars, m_quit, loopPc, crashed>>

(* Erasing the connection destroys it and closes its descriptor.           *)
HandleError(fd) ==
  /\ Handling(fd, "ERROR")
  /\ m_current_clients' = m_current_clients - 1
  /\ m_connection_map' = [f \in DOMAIN m_connection_map \ {fd} |-> m_connection_map[f]]
  /\ Done(fd)
  /\ UNCHANGED <<m_poll_fd, netVars, active_conns, chatVars, m_quit, loopPc, crashed>>

PassDone ==
  /\ loopPc = "handle" /\ todo = {}
  /\ loopPc' = "loop"
  /\ UNCHANGED <<pollVars, netVars, serverVars, chatVars, m_quit, crashed>>

-----------------------------------------------------------------------------
(* r_callback, for the connection whose event is handled.                  *)

reader == m_connection_map[Min(todo)]

(* Mutant: the loop over active_conns ends at the sender.                  *)
OthersBefore(c) ==
  {d \in Range(active_conns) :
     \E i, j \in 1..Len(active_conns) :
        i < j /\ d = active_conns[i] /\ c = active_conns[j] /\ Port[d] # Port[c]}

Others(c) == {d \in Range(active_conns) : Port[d] # Port[c]}

(* Mutant: a message is passed on at the end of any chunk.                 *)
ReadAnyChunk ==
  /\ loopPc = "read"
  /\ LET c == reader
         last == got[c] + Min({Unread(c), BufSize})
         message == [from |-> c, first |-> msgFrom, last |-> last] IN
     /\ Unread(c) > 0
     /\ \/ /\ WriteAll(Others(c), message)
           /\ got' = [got EXCEPT ![c] = last]
           /\ Done(Min(todo)) /\ loopPc' = "handle" /\ msgFrom' = 0
           /\ UNCHANGED <<m_poll_fd, netVars, serverVars, m_quit, crashed>>
        \/ WriteCrashes(Others(c))

(* A chunk that does not end in a newline, wherever else it has one.       *)
ReadPart ==
  /\ loopPc = "read"
  /\ LET c == reader
         last == got[c] + Min({Unread(c), BufSize}) IN
     /\ Unread(c) > 0 /\ Script[c][last] # "nl"
     /\ got' = [got EXCEPT ![c] = last]
     /\ UNCHANGED <<pollVars, netVars, serverVars, msgFrom, spoken, heard,
                    m_quit, loopPc, crashed>>

ReadLine ==
  /\ loopPc = "read"
  /\ LET c == reader
         last == got[c] + Min({Unread(c), BufSize})
         message == [from |-> c, first |-> msgFrom, last |-> last] IN
     /\ Unread(c) > 0 /\ Script[c][last] = "nl"
     /\ \/ /\ WriteAll(Others(c), message)
           /\ got' = [got EXCEPT ![c] = last]
           /\ Done(Min(todo)) /\ loopPc' = "handle" /\ msgFrom' = 0
           /\ UNCHANGED <<m_poll_fd, netVars, serverVars, m_quit, crashed>>
        \/ WriteCrashes(Others(c))

(* Mutant: the first connection is removed, whoever has closed.            *)
ReadEndRemovesFirst ==
  /\ loopPc = "read"
  /\ LET c == reader IN
     /\ \/ Unread(c) = 0 /\ peer[c] \in {"closed", "failed"}
        \/ peer[c] = "reset"
     /\ IF Dangling # {} THEN Crash("dangling")
        ELSE /\ active_conns' = IF active_conns = <<>> THEN <<>> ELSE Tail(active_conns)
             /\ got' = [got EXCEPT ![c] = sent[c]]
             /\ Done(Min(todo)) /\ loopPc' = "handle" /\ msgFrom' = 0
             /\ UNCHANGED <<m_poll_fd, netVars, m_current_clients, m_connection_map,
                            spoken, heard, m_quit, crashed>>

(* read() returns 0 or -1: a message begun is dropped, and the first       *)
(* connection with this port leaves active_conns.  A reset loses the bytes *)
(* not read yet, or some of them.                                          *)
ReadEnd ==
  /\ loopPc = "read"
  /\ LET c == reader
         same == {i \in 1..Len(active_conns) : Port[active_conns[i]] = Port[c]}
         looked == {i \in 1..Len(active_conns) : \A j \in same : i <= j} IN
     /\ \/ Unread(c) = 0 /\ peer[c] \in {"closed", "failed"}
        \/ peer[c] = "reset"
     /\ IF \E i \in looked : active_conns[i] \in Dangling THEN Crash("dangling")
        ELSE /\ active_conns' = IF same = {} THEN active_conns
                                ELSE RemoveAt(active_conns, Min(same))
             /\ got' = [got EXCEPT ![c] = sent[c]]
             /\ Done(Min(todo)) /\ loopPc' = "handle" /\ msgFrom' = 0
             /\ UNCHANGED <<m_poll_fd, netVars, m_current_clients, m_connection_map,
                            spoken, heard, m_quit, crashed>>

-----------------------------------------------------------------------------
Server ==
  \/ ExitLoop \/ PollEvents \/ PassDone
  \/ \E c \in Clients : Accept(c) \/ AcceptRefuses(c)
  \/ \E fd \in todo : HandleRead(fd) \/ HandleWrite(fd) \/ HandleError(fd)
  \/ ReadPart \/ ReadLine \/ ReadEnd

Over == (crashed # "no" \/ loopPc = "over") /\ UNCHANGED vars

Next ==
  \/ /\ crashed = "no" /\ loopPc # "over"
     /\ Server \/ \E c \in Clients : ClientNext(c)
  \/ Over

Spec == Init /\ [][Next]_vars

(* The server's only thread runs; no client has to do anything.            *)
Fairness == WF_vars(crashed = "no" /\ loopPc # "over" /\ Server)

FairSpec == Spec /\ Fairness

-----------------------------------------------------------------------------
TypeOK ==
  /\ m_poll_fd \in [Slots -> {NoFd, ServerFd} \cup ClientFds]
  /\ m_revents_map \in UNION {[D -> IO_STATE] : D \in SUBSET ({ServerFd} \cup ClientFds)}
  /\ peer \in [Clients -> {"new", "open", "closed", "reset", "failed"}]
  /\ backlog \subseteq Clients /\ refused \subseteq Clients
  /\ sent \in [Clients -> Nat] /\ got \in [Clients -> Nat]
  /\ m_quit \in BOOLEAN
  /\ m_current_clients \in 0..MAX_CLIENTS
  /\ m_connection_map \in UNION {[D -> Clients] : D \in SUBSET ClientFds}
  /\ active_conns \in Seq(Clients)
  /\ loopPc \in {"loop", "handle", "read", "over"}
  /\ msgFrom \in Nat
  /\ crashed \in {"no", "null", "dangling", "sigpipe"}
  /\ spoken \in Seq(Message)
  /\ heard \in [Clients -> Seq(Message)]

(* The poller watches the server's socket and the connections, each once,  *)
(* and handleEvent() never looks up a connection that does not exist: a    *)
(* descriptor that was closed and given to another client is not mistaken  *)
(* for the old one.  m_current_clients, by which clients are refused, is   *)
(* the number of connections kept.                                         *)
DescriptorsAgree ==
  /\ m_current_clients = Cardinality(DOMAIN m_connection_map)
  /\ \A i, j \in Slots : m_poll_fd[i] = m_poll_fd[j] => i = j \/ m_poll_fd[i] = NoFd
  /\ Registered = {ServerFd} \cup
        {fd \in DOMAIN m_connection_map : ~(fd \in todo /\ m_revents_map[fd] = "ERROR")}
  /\ todo \subseteq {ServerFd} \cup DOMAIN m_connection_map

OwnPort(c) == \A d \in Clients \ {c} : Port[d] # Port[c]

(* A connected client whose port nobody shares is a member of the chat,    *)
(* exactly once; only a connection that ended with ERROR leaves a pointer  *)
(* behind.                                                                 *)
MembersListed ==
  /\ \A c \in Accepted : OwnPort(c) /\ peer[c] = "open" =>
        \E i \in 1..Len(active_conns) : active_conns[i] = c
  /\ \A i, j \in 1..Len(active_conns) : active_conns[i] = active_conns[j] => i = j
  /\ \A c \in Dangling : peer[c] = "failed"

(* Whatever the chunks in which read() returns a client's bytes, its       *)
(* messages end with a newline and leave no byte out between them.         *)
WholeLines ==
  \A j \in 1..Len(spoken) : \A i \in 1..j-1 :
     LET m == spoken[j] IN
     /\ spoken[i].from = m.from
     /\ \A k \in i+1..j-1 : spoken[k].from # m.from
     => /\ m.first = spoken[i].last + 1
        /\ m.last \in m.first..got[m.from]
        /\ Script[m.from][m.last] = "nl"

(* Which messages are for d: who joins, and what clients with another port *)
(* say, after d has joined.                                                *)
SpokenTo(d) ==
  {i \in 1..Len(spoken) :
     /\ \E k \in 1..i-1 : spoken[k].from = d
     /\ spoken[i].first = 0 \/ Port[spoken[i].from] # Port[d]}

HearsAll(d) ==
  /\ Len(heard[d]) = Cardinality(SpokenTo(d))
  /\ \A i \in SpokenTo(d) :
       heard[d][Cardinality({k \in SpokenTo(d) : k <= i})] = spoken[i]

(* Every member has heard all that was said to it since it joined, once    *)
(* and in the same order as all others.                                    *)
EveryMemberHears == \A d \in Range(active_conns) : peer[d] = "open" => HearsAll(d)

(* r_callback waits in read() for the rest of a line.                      *)
Blocked == loopPc = "read" /\ Unread(reader) = 0 /\ peer[reader] = "open"

(* Every byte sent on an accepted connection is read, unless the loop ends *)
(* or a client that has begun a line neither ends it nor goes away: then   *)
(* the server waits for this client for ever, and all others for it.       *)
EveryByteRead ==
  \A c \in Clients :
     \/ <>[]Blocked
     \/ c \in Accepted /\ sent[c] > got[c] ~>
           got[c] = sent[c] \/ crashed # "no" \/ loopPc = "over"

(* "clients is full. So close it": a client is turned away only when       *)
(* MAX_CLIENTS others are in the chat.                                     *)
RefusesOnlyWhenFull ==
  [][refused' # refused => Len(active_conns) = MAX_CLIENTS]_vars

==============================================================================
