----------------------------- MODULE MCPrograms -----------------------------
(***************************************************************************)
(* The programs of the repository that share nothing with the others: the  *)
(* algorithms, the calculator, the text query, calls of TCPSocket, and the *)
(* chat client with its two threads.  A behaviour is one of a single       *)
(* program, chosen at the start.                                           *)
(***************************************************************************)
EXTENDS BinaryTree, Sorting, Searching, Calculator, TextQuery, TcpSocket,
        ChatClient

VARIABLE program

MCVars == <<program, treeVars, sortVars, searchVars, calVars, queryVars,
            socketVars, clientVars>>

MCValues == 1..3

Texts(chars, n) == UNION {[1..k -> chars] : k \in 1..n}

(* Expressions up to nine characters, every text of three, and two more:   *)
(* the buffer overflows, and a value is taken from the empty stack.        *)
MCLines ==
  {e.chars : e \in Grammar} \cup Texts({"1", "-", "/", "(", ")", "?"}, 3) \cup
  {<<"1", "1", "1", "1">>, <<"-", "1", "-", "1">>}

MCWords == {"u", "v"}
MCFiles == [1..2 -> SUBSET MCWords]
MCQueries ==
  {<<>>} \cup Texts(MCWords \cup {"&", "|"}, 3) \cup
  {<<x, o1, y, o2, z>> : x, y, z \in MCWords, o1, o2 \in {"&", "|"}}

(* Each program begins as it does; those that do not run are given one of  *)
(* their initial states, in which they stay.                               *)
MCInit ==
  /\ program \in {"tree", "sort", "search", "cal", "query", "socket", "client"}
  /\ TreeInit   /\ (program # "tree" => m_root = Null)
  /\ SortInit   /\ (program # "sort" => sorter = "select" /\ input = <<>>)
  /\ SearchInit
  /\ program # "search" => searcher = "simple" /\ array = <<>> /\ target = 1
  /\ CalInit    /\ (program # "cal" => line = <<"1">>)
  /\ QueryInit  /\ (program # "query" => file = [k \in 1..2 |-> {}])
  /\ SocketInit
  /\ ClientInit /\ (program # "client" => peer = "up")

(* The chat client: both threads run, as ClientSpec says.                  *)
ClientOnly(A) ==
  /\ program = "client" /\ A
  /\ UNCHANGED <<program, treeVars, sortVars, searchVars, calVars, queryVars,
                 socketVars>>

MCNext ==
  \/ /\ UNCHANGED <<program, clientVars>>
     /\ \/ /\ program = "tree" /\ TreeNext
           /\ UNCHANGED <<sortVars, searchVars, calVars, queryVars, socketVars>>
        \/ /\ program = "sort" /\ SortNext
           /\ UNCHANGED <<treeVars, searchVars, calVars, queryVars, socketVars>>
        \/ /\ program = "search" /\ SearchNext
           /\ UNCHANGED <<treeVars, sortVars, calVars, queryVars, socketVars>>
        \/ /\ program = "cal" /\ CalNext
           /\ UNCHANGED <<treeVars, sortVars, searchVars, queryVars, socketVars>>
        \/ /\ program = "query" /\ QueryNext
           /\ UNCHANGED <<treeVars, sortVars, searchVars, calVars, socketVars>>
        \/ /\ program = "socket" /\ SocketNext
           /\ UNCHANGED <<treeVars, sortVars, searchVars, calVars, queryVars>>
  \/ ClientOnly(ClientNext)

MCSpec ==
  /\ MCInit /\ [][MCNext]_MCVars
  /\ WF_MCVars(ClientOnly(Main)) /\ WF_MCVars(ClientOnly(Output))

=============================================================================
