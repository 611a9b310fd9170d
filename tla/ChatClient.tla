----------------------------- MODULE ChatClient ------------------------------
(***************************************************************************)
(* network/client.cpp: the main thread sends what its user types, and the  *)
(* output thread logs the lines that the server sends.  They share the     *)
(* TCPConnection and a flag, neither protected.  The server and the user   *)
(* do as they like.                                                        *)
(***************************************************************************)
EXTENDS Integers, Sequences, SequencesExt

CONSTANTS BufSize,    \* 32: the bytes one read() returns at most
          MaxBytes,   \* bound: bytes that the server sends
          MaxTyped    \* bound: lines that the user types

ASSUME ClientAssumption == {BufSize, MaxBytes, MaxTyped} \subseteq Nat \ {0}

VARIABLES
  mainPc,      \* "connect", "test", "getline", "write", "close", "join",
               \* "ended" or "sigpipe"
  outPc,       \* "none", "test", "call", "read" or "ended"
  connected,   \* m_is_connected; m_fd is -1 if and only if it is not
  shutdown,    \* BOOLEAN
  msg, shown,  \* the output thread's message, and those logged, each with
               \* the newline that ends it
  peer,        \* the server: "up", "refused", "closed" or "reset"
  sent,        \* history: the bytes that the server sent
  stream,      \* those not read
  entered        \* lines entered

threadVars == <<mainPc, outPc, connected, shutdown>>
clientVars == <<threadVars, msg, shown, peer, sent, stream, entered>>

ClientInit ==
  /\ mainPc = "connect" /\ outPc = "none"
  /\ connected = FALSE /\ shutdown = FALSE
  /\ msg = <<>> /\ shown = <<>>
  /\ peer \in {"up", "refused"} /\ sent = <<>> /\ stream = <<>> /\ entered = 0

Bytes == {"a", "\n"}

-----------------------------------------------------------------------------
(* The main thread.  A connect() that fails is logged and sets             *)
(* m_is_connected all the same.                                            *)
Connect ==
  /\ mainPc = "connect" /\ mainPc' = "test" /\ outPc' = "test"
  /\ connected' = TRUE
  /\ UNCHANGED <<shutdown, msg, shown, peer, sent,
                 stream, entered>>

TestShutdown ==
  /\ mainPc = "test"
  /\ mainPc' = IF shutdown THEN "close" ELSE "getline"
  /\ UNCHANGED <<outPc, connected, shutdown, msg, shown, peer, sent,
                 stream, entered>>

TypeLine ==
  /\ mainPc = "getline" /\ entered < MaxTyped
  /\ mainPc' = "write" /\ entered' = entered + 1
  /\ UNCHANGED <<outPc, connected, shutdown, msg, shown, peer, sent, stream>>

TypeExit ==
  /\ mainPc = "getline" /\ mainPc' = "close"
  /\ UNCHANGED <<outPc, connected, shutdown, msg, shown, peer, sent,
                 stream, entered>>

(* The first line written to a server that is gone is answered by a reset; *)
(* the next may raise SIGPIPE, as does any if connect() failed.            *)
WriteBytes ==
  /\ mainPc = "write"
  /\ \/ peer # "refused" /\ mainPc' = "test"
     \/ peer \in {"refused", "reset"} /\ mainPc' = "sigpipe"
  /\ peer' = IF peer = "closed" THEN "reset" ELSE peer
  /\ UNCHANGED <<outPc, connected, shutdown, msg, shown, sent,
                 stream, entered>>

Close ==
  /\ mainPc = "close" /\ mainPc' = "join"
  /\ connected' = FALSE
  /\ UNCHANGED <<outPc, shutdown, msg, shown, peer, sent,
                 stream, entered>>

Join ==
  /\ mainPc = "join" /\ outPc = "ended" /\ mainPc' = "ended"
  /\ UNCHANGED <<outPc, connected, shutdown, msg, shown, peer, sent,
                 stream, entered>>

Main == Connect \/ TestShutdown \/ WriteBytes \/ Close \/ Join

-----------------------------------------------------------------------------
(* The output thread.                                                      *)
(* Mutant: it goes on to the next message.                                 *)
ServerClosedGoesOn == outPc' = "test" /\ shutdown' = TRUE

ServerClosed == outPc' = "ended" /\ shutdown' = TRUE

(* readBytes(): m_is_connected is tested, and then m_fd is read, which may *)
(* have become -1.  close() does not wake a read() under way.              *)
TestConnected ==
  /\ outPc = "test"
  /\ IF connected THEN outPc' = "call" /\ UNCHANGED shutdown ELSE ServerClosed
  /\ UNCHANGED <<mainPc, connected, msg, shown, peer, sent,
                 stream, entered>>

CallRead ==
  /\ outPc = "call"
  /\ IF connected THEN outPc' = "read" /\ UNCHANGED shutdown ELSE ServerClosed
  /\ UNCHANGED <<mainPc, connected, msg, shown, peer, sent,
                 stream, entered>>

(* A reset may lose what was not read yet.                                 *)
ReadEnds ==
  /\ outPc = "read"
  /\ (stream = <<>> /\ peer # "up") \/ peer = "reset"
  /\ ServerClosed
  /\ UNCHANGED <<mainPc, connected, msg, shown, peer, sent, stream, entered>>

(* What is read is the end of the message if its last byte is a newline;   *)
(* the shutdown flag is tested between messages.                           *)
(* Mutant: the message is begun anew.                                      *)
TakeAnew(bytes) ==
  IF Last(bytes) = "\n"
  THEN /\ shown' = Append(shown, bytes) /\ msg' = <<>>
       /\ outPc' = IF shutdown THEN "ended" ELSE "test"
  ELSE msg' = bytes /\ outPc' = "test" /\ UNCHANGED shown

TakeBytes(bytes) ==
  IF Last(bytes) = "\n"
  THEN /\ shown' = Append(shown, msg \o bytes) /\ msg' = <<>>
       /\ outPc' = IF shutdown THEN "ended" ELSE "test"
  ELSE msg' = msg \o bytes /\ outPc' = "test" /\ UNCHANGED shown

ReadBytes ==
  /\ outPc = "read"
  /\ \E n \in 1..Len(stream) :
       /\ n <= BufSize
       /\ TakeBytes(SubSeq(stream, 1, n))
       /\ stream' = SubSeq(stream, n + 1, Len(stream))
  /\ UNCHANGED <<mainPc, connected, shutdown, peer, sent, entered>>

Output == TestConnected \/ CallRead \/ ReadEnds \/ ReadBytes

-----------------------------------------------------------------------------
ServerSends ==
  /\ peer = "up" /\ mainPc # "connect" /\ Len(sent) < MaxBytes
  /\ \E b \in Bytes : sent' = Append(sent, b) /\ stream' = Append(stream, b)
  /\ UNCHANGED <<threadVars, msg, shown, peer, entered>>

ServerCloses ==
  /\ peer = "up" /\ mainPc # "connect" /\ peer' \in {"closed", "reset"}
  /\ UNCHANGED <<threadVars, msg, shown, sent,
                 stream, entered>>

ClientNext ==
  /\ mainPc # "sigpipe"
  /\ Main \/ Output \/ TypeLine \/ TypeExit \/ ServerSends \/ ServerCloses

(* Both threads run; neither the user nor the server has to do anything.   *)
ClientSpec ==
  /\ ClientInit /\ [][ClientNext]_clientVars
  /\ WF_clientVars(Main) /\ WF_clientVars(Output)

-----------------------------------------------------------------------------
(* Messages are logged whole and in order: what is logged, is being put    *)
(* together or waits to be read is what the server sent.  A message ends   *)
(* with a line, though it may hold several.  When the output thread finds  *)
(* the connection closed, not reset, it has read everything, and only a    *)
(* last line without a newline is not logged.                              *)
LinesShown ==
  /\ FlattenSeq(shown) \o msg \o stream = sent
  /\ \A k \in 1..Len(shown) : Last(shown[k]) = "\n"
  /\ outPc = "ended" /\ connected /\ peer # "reset" => stream = <<>>

(* close() leaves the output thread in read() if nothing comes from the    *)
(* server.                                                                 *)
InRead == outPc = "read" /\ stream = <<>> /\ peer = "up"

(* Once the connection is closed the client ends, unless its output thread *)
(* waits in read(): then it ends when the server sends anything or closes. *)
ClientEnds == mainPc = "join" /\ ~InRead ~> mainPc = "ended"

=============================================================================
