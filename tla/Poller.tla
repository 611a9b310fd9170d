------------------------------- MODULE Poller --------------------------------
(***************************************************************************)
(* nnero::net::PollImpl: the array of pollfd slots and the map from ready  *)
(* descriptors to IO_STATE that poll() fills.  poll() itself is a system   *)
(* call: its caller says which descriptors are readable and writable and   *)
(* which have only an error.  unregisterSocket() is never called.          *)
(***************************************************************************)
EXTENDS Integers, FiniteSetsExt

CONSTANT POLL_MAX   \* number of slots

ASSUME PollerAssumption == POLL_MAX \in Nat

VARIABLES m_poll_fd,      \* [Slots -> descriptor, or NoFd]
          m_revents_map   \* [ready descriptors -> IO_STATE]

Slots == 0..POLL_MAX-1
NoFd == -1
IO_STATE == {"READ", "WRITE", "ERROR"}

Registered == {m_poll_fd[i] : i \in Slots} \ {NoFd}

NoneRegistered == [i \in Slots |-> NoFd]

(* registerSocket(): into the first free slot; without effect if none is.  *)
RegisterSocket(slots, fd) ==
  LET free == {i \in Slots : slots[i] = NoFd} IN
  IF free = {} THEN slots ELSE [slots EXCEPT ![Min(free)] = fd]

(* Mutant: the slot of a descriptor with an error stays occupied.          *)
PollKeepsErrors(readable, writable, failed) ==
  /\ m_revents_map' =
       [fd \in Registered \cap (readable \cup writable \cup failed) |->
          IF fd \in readable THEN "READ" ELSE IF fd \in writable THEN "WRITE" ELSE "ERROR"]
  /\ UNCHANGED m_poll_fd

(* poll(): POLLIN hides POLLOUT, which hides POLLERR; only an error by     *)
(* itself frees the slot.                                                  *)
Poll(readable, writable, failed) ==
  /\ m_revents_map' =
       [fd \in Registered \cap (readable \cup writable \cup failed) |->
          IF fd \in readable THEN "READ" ELSE IF fd \in writable THEN "WRITE" ELSE "ERROR"]
  /\ m_poll_fd' =
       [i \in Slots |-> IF m_poll_fd[i] \in failed \ (readable \cup writable)
                        THEN NoFd ELSE m_poll_fd[i]]

==============================================================================
