----------------------------- MODULE MCChatServer ----------------------------
(***************************************************************************)
(* Instances of ChatServer for TLC: three clients for two places.          *)
(***************************************************************************)
EXTENDS ChatServer

CONSTANTS Talker,   \* its port is its own; it sends a line of two bytes and an
                    \* empty one, read in chunks of up to two
          Second,   \* on the port of Silent, at another host; sends a line
          Silent    \* sends nothing

MCClients == {Talker, Second, Silent}

MCPort == [c \in MCClients |-> IF c = Talker THEN 1 ELSE 2]

MCScript ==
  [c \in MCClients |-> CASE c = Talker -> <<"x", "nl", "nl">>
                         [] c = Second -> <<"nl">>
                         [] c = Silent -> <<>>]

==============================================================================
