------------------------------ MODULE TextQuery ------------------------------
(***************************************************************************)
(* The text query of prac/tq.cpp: main() reads queries such as             *)
(* "word & word | word" and lists the lines of one open file that satisfy  *)
(* them.  A line of the file is the set of the words it contains.          *)
(***************************************************************************)
EXTENDS Integers, Sequences, SequencesExt, FiniteSets

CONSTANTS Words,        \* the words that occur
          Files,        \* Seq(SUBSET Words): contents the file may have
          Queries,      \* the lines typed: sequences of words, "&" and "|"
          MaxQueries    \* bound: queries in a session

ASSUME QueryAssumption ==
  /\ {"&", "|"} \cap Words = {} /\ MaxQueries \in Nat
  /\ Files \subseteq Seq(SUBSET Words)
  /\ Queries \subseteq Seq(Words \cup {"&", "|"})

VARIABLES
  file,          \* its lines
  atEnd,         \* BOOLEAN: the stream is at its end, eof() set
  query,         \* the line being answered
  commands,      \* the queue of its words and operators
  result_list,   \* of tq: line numbers
  queryState,    \* "prompt", "evaluating", "answered" or "terminated"
  asked          \* the queries so far

queryVars == <<file, atEnd, query, commands, result_list, queryState, asked>>

QueryInit ==
  /\ file \in Files /\ atEnd = FALSE
  /\ query = <<>> /\ commands = <<>> /\ result_list = <<>>
  /\ queryState = "prompt" /\ asked = 0

(* parseExpr(): words and operators alternate, a word first and last.  The *)
(* exception it throws otherwise is not caught.                            *)
WellFormed(expr) ==
  /\ Len(expr) % 2 = 1
  /\ \A k \in 1..Len(expr) : expr[k] \in {"&", "|"} <=> k % 2 = 0

ParseExpr ==
  /\ queryState \in {"prompt", "answered"}
  /\ asked < MaxQueries /\ asked' = asked + 1
  /\ query' \in Queries
  /\ result_list' = <<>>
  /\ IF WellFormed(query')
     THEN queryState' = "evaluating" /\ commands' = query'
     ELSE queryState' = "terminated" /\ UNCHANGED commands
  /\ UNCHANGED <<file, atEnd>>

(* Numbers of lines as a list of results: each once, in order.            *)
InOrder(lines) ==
  CHOOSE l \in [1..Cardinality(lines) -> lines] :
    \A i, j \in 1..Cardinality(lines) : i < j => l[i] < l[j]

(* The lines with the word that are read from the stream.                  *)
Occurs(word) ==
  IF atEnd THEN <<>> ELSE InOrder({k \in 1..Len(file) : word \in file[k]})

(* occursInFile() leaves the stream at its beginning again.                *)
(* Mutant: it does not.                                                    *)
LeftAtEnd == atEnd' = TRUE

Rewound == atEnd' = FALSE

(* The results of "&" and "|": the lines of both lists or of either, in    *)
(* order, which std::set_intersection and std::set_union need and keep.    *)
Both(l1, l2) == InOrder(Range(l1) \cap Range(l2))
Either(l1, l2) == InOrder(Range(l1) \cup Range(l2))

EvalCommand ==
  /\ queryState = "evaluating" /\ commands # <<>>
  /\ LET command == Head(commands) IN
     IF command \in {"&", "|"}
     THEN LET found == Occurs(commands[2]) IN
          /\ result_list' = IF command = "&" THEN Both(result_list, found)
                            ELSE Either(result_list, found)
          /\ commands' = Tail(Tail(commands))
     ELSE result_list' = result_list \o Occurs(command) /\ commands' = Tail(commands)
  /\ Rewound
  /\ UNCHANGED <<file, query, queryState, asked>>

PrintResults ==
  /\ queryState = "evaluating" /\ commands = <<>>
  /\ queryState' = "answered"
  /\ UNCHANGED <<file, atEnd, query, commands, result_list, asked>>

QueryNext == ParseExpr \/ EvalCommand \/ PrintResults

QuerySpec == QueryInit /\ [][QueryNext]_queryVars

-----------------------------------------------------------------------------
(* Whether a line satisfies the first m + 1 words of the query, read from  *)
(* left to right: "&" does not bind tighter than "|".  It has a word that  *)
(* comes first or after a "|", and after it each that comes after an "&".  *)
SatisfiesFirst(words, q, m) ==
  \E j \in 0..m :
    /\ j = 0 \/ q[2 * j] = "|"
    /\ q[2 * j + 1] \in words
    /\ \A i \in j+1..m : q[2 * i] = "&" => q[2 * i + 1] \in words

Satisfies(words, q) == SatisfiesFirst(words, q, Len(q) \div 2)

(* Each query is answered by the lines of the file that satisfy it, each   *)
(* once and in order, whatever was asked before.                           *)
QueryAnswers ==
  queryState = "answered" =>
    result_list = InOrder({k \in 1..Len(file) : Satisfies(file[k], query)})

=============================================================================
