------------------------------- MODULE Nthread -------------------------------
(***************************************************************************)
(* The interruption protocol of nnero::thread::Nthread.                    *)
(*                                                                         *)
(* Every thread owns a thread_local InterruptFlag.  The constructor of     *)
(* Nthread hands a pointer to that flag back to the creating thread, so    *)
(* interrupt() writes the flag of ANOTHER thread.  Neither side takes a    *)
(* lock: m_flag is a plain bool, modelled as a location that is read and   *)
(* written in single steps.  No code ever clears a flag.                   *)
(***************************************************************************)

CONSTANTS Threads   \* every thread that owns an interrupt flag or calls in

VARIABLE m_flag     \* [Threads -> BOOLEAN], InterruptFlag::m_flag

(* No flag is set when its thread starts (m_flag{false}).                  *)
NoFlagSet == m_flag = [t \in Threads |-> FALSE]

(* interruptPoint(), called by t, throws InterruptException.               *)
InterruptPointThrows(t) == m_flag[t]

(* t.interrupt(): raise the flag, unless it is already raised.             *)
Interrupt(t) == m_flag' = [m_flag EXCEPT ![t] = TRUE]

==============================================================================
