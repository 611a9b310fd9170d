------------------------------ MODULE TcpSocket ------------------------------
(***************************************************************************)
(* nnero::net::TCPSocket: which object holds which descriptor, and what    *)
(* the kernel has under that number.  A call that the code refuses with an *)
(* exception changes nothing and is left out; so is abort().  A move       *)
(* leaves the descriptor in both objects, and the destructor closes none.  *)
(***************************************************************************)
EXTENDS Integers, FiniteSets

CONSTANTS Objects,   \* TCPSocket objects
          Fd,        \* descriptors
          NoFd       \* -1

ASSUME SocketAssumption == Fd \subseteq Nat /\ NoFd \notin Fd

VARIABLES m_fd, m_is_connected, m_is_listened,   \* [Objects -> ...]
          live,      \* the objects there are
          kernel,    \* [Fd -> KernelStates]
          spent,     \* history: objects that hold what a move left in them
          leaked,    \* history: descriptors whose owner is gone, or has taken
                     \* what another held
          robbed     \* history: descriptors closed by another than their owner

socketVars == <<m_fd, m_is_connected, m_is_listened, live, kernel, spent, leaked,
                robbed>>

KernelStates == {"closed", "listening", "connected", "unconnected"}

Owners == {s \in live \ spent : m_fd[s] # NoFd}

SocketInit ==
  /\ m_fd = [s \in Objects |-> NoFd]
  /\ m_is_connected = [s \in Objects |-> FALSE]
  /\ m_is_listened = [s \in Objects |-> FALSE]
  /\ kernel = [fd \in Fd |-> "closed"]
  /\ live = {} /\ spent = {} /\ leaked = {} /\ robbed = {}

Holds(s, fd, connected, listened) ==
  /\ m_fd' = [m_fd EXCEPT ![s] = fd]
  /\ m_is_connected' = [m_is_connected EXCEPT ![s] = connected]
  /\ m_is_listened' = [m_is_listened EXCEPT ![s] = listened]

(* The kernel gives the lowest free descriptor.                            *)
Opened(fd, state) ==
  /\ kernel[fd] = "closed" /\ \A f \in Fd : kernel[f] = "closed" => fd <= f
  /\ kernel' = [kernel EXCEPT ![fd] = state]

-----------------------------------------------------------------------------
Construct(s) ==
  /\ s \notin live
  /\ live' = live \cup {s}
  /\ Holds(s, NoFd, FALSE, FALSE)
  /\ UNCHANGED <<kernel, spent, leaked, robbed>>

BindAndListen(s) ==
  /\ s \in live /\ ~m_is_connected[s] /\ ~m_is_listened[s] /\ m_fd[s] = NoFd
  /\ \E fd \in Fd : Opened(fd, "listening") /\ Holds(s, fd, FALSE, TRUE)
  /\ UNCHANGED <<live, spent, leaked, robbed>>

(* The socket accepted is returned by value in t; accept(2) of what does   *)
(* not listen fails, and the call throws.                                  *)
AcceptSocket(s, t) ==
  /\ s \in live /\ ~m_is_connected[s] /\ m_is_listened[s] /\ t \notin live
  /\ kernel[m_fd[s]] = "listening"
  /\ \E fd \in Fd : Opened(fd, "connected") /\ Holds(t, fd, TRUE, FALSE)
  /\ live' = live \cup {t}
  /\ UNCHANGED <<spent, leaked, robbed>>

(* Mutant: a connected socket is connected again.                          *)
ConnectAgain(s) ==
  /\ s \in live /\ ~m_is_listened[s]
  /\ \E fd \in Fd, state \in {"connected", "unconnected"} :
       Opened(fd, state) /\ Holds(s, fd, TRUE, FALSE)
  /\ UNCHANGED <<live, spent, leaked, robbed>>

(* A connect(2) that fails is logged, and the socket is connected for the  *)
(* code all the same.                                                      *)
ConnectSocket(s) ==
  /\ s \in live /\ ~m_is_listened[s] /\ ~m_is_connected[s]
  /\ \E fd \in Fd, state \in {"connected", "unconnected"} :
       Opened(fd, state) /\ Holds(s, fd, TRUE, FALSE)
  /\ UNCHANGED <<live, spent, leaked, robbed>>

(* close(2) of a descriptor that is not open fails, unnoticed.             *)
CloseSocket(s) ==
  /\ s \in live /\ (m_is_listened[s] \/ m_is_connected[s] \/ m_fd[s] # NoFd)
  /\ kernel' = [kernel EXCEPT ![m_fd[s]] = "closed"]
  /\ Holds(s, NoFd, FALSE, FALSE)
  /\ spent' = spent \ {s} /\ leaked' = leaked \ {m_fd[s]}
  /\ robbed' = IF \E t \in Owners \ {s} : m_fd[t] = m_fd[s]
               THEN robbed \cup {m_fd[s]} ELSE robbed
  /\ UNCHANGED live

(* The move constructor and the move assignment: t takes what s holds, and *)
(* owns it if s did; what t owned before is lost.                          *)
Move(s, t) ==
  /\ s \in live /\ s # t
  /\ Holds(t, m_fd[s], m_is_connected[s], m_is_listened[s])
  /\ live' = live \cup {t}
  /\ spent' = CASE s \in Owners -> (spent \ {t}) \cup {s}
                [] s \in spent  -> spent \cup {t}
                [] OTHER        -> spent \ {t}
  /\ leaked' = IF t \in Owners THEN leaked \cup {m_fd[t]} ELSE leaked
  /\ UNCHANGED <<kernel, robbed>>

(* ~TCPSocket is the default one; ~TCPConnection alone calls close() first.*)
DestroySocket(s) ==
  /\ s \in live
  /\ live' = live \ {s} /\ spent' = spent \ {s}
  /\ Holds(s, NoFd, FALSE, FALSE)
  /\ leaked' = IF s \in Owners THEN leaked \cup {m_fd[s]} ELSE leaked
  /\ UNCHANGED <<kernel, robbed>>

SocketNext ==
  \E s \in Objects :
    \/ Construct(s) \/ BindAndListen(s) \/ ConnectSocket(s) \/ CloseSocket(s)
    \/ DestroySocket(s)
    \/ \E t \in Objects : AcceptSocket(s, t) \/ Move(s, t)

SocketSpec == SocketInit /\ [][SocketNext]_socketVars

-----------------------------------------------------------------------------
OwnersOf(fd) == {s \in Owners : m_fd[s] = fd}

FlagsFit(s) ==
  /\ ~(m_is_connected[s] /\ m_is_listened[s])
  /\ m_fd[s] # NoFd <=> m_is_connected[s] \/ m_is_listened[s]

(* A descriptor is open exactly if one object owns it or it leaked, never  *)
(* both and never two objects, and the flags of its owner say whether it   *)
(* listens.  The exceptions are the numbers that the source of a move has  *)
(* closed under their owner: such a close() spoils no other number.        *)
DescriptorsOwned ==
  /\ \A fd \in Fd \ robbed :
       /\ kernel[fd] # "closed" <=> fd \in leaked \/ OwnersOf(fd) # {}
       /\ fd \in leaked => OwnersOf(fd) = {}
       /\ \A s, t \in OwnersOf(fd) : s = t
       /\ \A s \in OwnersOf(fd) : m_is_listened[s] <=> kernel[fd] = "listening"
  /\ \A s \in live : FlagsFit(s)

(* What connect() promises, which is to throw when it fails: a socket that *)
(* says it is connected is, if nobody else has closed its descriptor.      *)
ConnectedIsTrue ==
  \A s \in Owners :
    m_is_connected[s] /\ m_fd[s] \notin robbed => kernel[m_fd[s]] = "connected"

=============================================================================
