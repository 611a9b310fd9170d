----------------------------- MODULE Calculator ------------------------------
(***************************************************************************)
(* The calculator of prac/cal.cpp: main() hands one line after another to  *)
(* the same Calculator, whose eval() reads it character by character with  *)
(* a buffer for digits and a stack of elements.  A number is the sequence  *)
(* of its digits and the value of an operation a term, so that a result    *)
(* says how the expression was read.                                       *)
(***************************************************************************)
EXTENDS Integers, Sequences, SequencesExt

CONSTANTS Lines,        \* the lines that are typed
          BufferSize,   \* 64: the size of numberBuf
          IntDigits,    \* the digits that std::stoi accepts
          MaxLines,     \* bound: lines typed in a session
          Characters,   \* the digits and operators of the grammar below
          Longest       \* bound: the length of the expressions in it

ASSUME CalAssumption == {IntDigits, BufferSize, MaxLines, Longest} \subseteq Nat

VARIABLES line, at,     \* the line, and how much of it has been read
          elem_stack,   \* Seq([type, value])
          numberBuf,    \* the digits, index of them
          outcome,      \* "reading", "success", "error", "unknown" or
                        \* "exception"; "terminated" or "undefined": the end
          answered,     \* the value returned with success
          typed,        \* the number of the line
          spoiled       \* BOOLEAN, history: an earlier line threw an exception
                        \* or held an unknown symbol

calVars == <<line, at, elem_stack, numberBuf, outcome, answered, typed,
             spoiled>>

parseElem(c) ==
  CASE c = "+" -> "ADD"  [] c = "-" -> "SUB"  [] c = "/" -> "DIV"  [] c = "*" -> "MULTI"
    [] c = "(" -> "LEFT_PARENTH"  [] c = ")" -> "RIGHT_PARENTH"
    [] c \in {"0", "1", "2", "3", "4", "5", "6", "7", "8", "9"} -> "NUMBER"
    [] OTHER -> "UNKNOW"

Symbol(type) == [type |-> type, value |-> <<"0">>]
Value(term) == [type |-> "VALUE", value |-> term]

CalInit ==
  /\ line \in Lines /\ at = 0
  /\ elem_stack = <<>> /\ numberBuf = <<>>
  /\ outcome = "reading" /\ answered = <<>>
  /\ typed = 1 /\ spoiled = FALSE

-----------------------------------------------------------------------------
(* What a function makes of the stack: the new one, and whether it returns *)
(* ("reading") or not.                                                     *)
Stack(stack, how) == [stack |-> stack, outcome |-> how]

evalNumber(stack, digits) ==
  IF digits = <<>> THEN Stack(stack, "reading")
  ELSE IF Len(digits) >= BufferSize THEN Stack(stack, "undefined")
  ELSE IF Len(digits) > IntDigits THEN Stack(stack, "terminated")
  ELSE Stack(Append(stack, Value(digits)), "reading")

(* One turn of the loop of evalStack(), which goes on while the outcome is *)
(* "looping".  The cases are the tests in the order of the code: each      *)
(* assumes that those above it failed.                                     *)
Loop(stack, parenthing, how) ==
  [stack |-> stack, parenthing |-> parenthing, outcome |-> how]

Turn(l) ==
  LET right == Last(l.stack)
      rest == Front(l.stack)
      opt == Last(rest)
      left == Last(Front(rest)) IN
  IF l.outcome # "looping" THEN l
  ELSE IF Len(l.stack) <= 1
  THEN Loop(l.stack, l.parenthing, IF l.parenthing THEN "exception" ELSE "reading")
  ELSE IF right.type = "RIGHT_PARENTH" THEN Loop(rest, TRUE, "looping")
  ELSE IF right.type # "VALUE" THEN Loop(rest, l.parenthing, "exception")
  ELSE IF opt.type = "LEFT_PARENTH"
  THEN Loop(Append(IF l.parenthing THEN Front(rest) ELSE rest, right), FALSE, "reading")
  ELSE IF Len(rest) = 1 THEN Loop(<<>>, l.parenthing, "undefined")
  ELSE IF opt.type \notin {"ADD", "SUB", "MULTI", "DIV"}
  THEN Loop(Front(Front(rest)), l.parenthing, "exception")
  ELSE Loop(Append(Front(Front(rest)), Value(<<opt.type, left.value, right.value>>)),
            l.parenthing, "looping")

(* Each turn makes the stack shorter, so Len(stack) of them are enough.    *)
evalStack(stack) ==
  LET turns[n \in 0..Len(stack)] ==
        IF n = 0 THEN Loop(stack, FALSE, "looping") ELSE Turn(turns[n-1])
  IN IF Len(stack) < 3 THEN Stack(stack, "reading")
     ELSE Stack(turns[Len(stack)].stack, turns[Len(stack)].outcome)

(* What is done to the stack at a symbol that is no digit.  A sum or       *)
(* difference is worked out when the next begins.                          *)
(* Mutant: it is not.                                                      *)
PushedOnly(type, stack) ==
  IF type = "RIGHT_PARENTH" THEN evalStack(Append(stack, Symbol(type)))
  ELSE Stack(Append(stack, Symbol(type)), "reading")

Pushed(type, stack) ==
  LET before == IF type \in {"ADD", "SUB"} THEN evalStack(stack)
                ELSE Stack(stack, "reading") IN
  IF type = "RIGHT_PARENTH" THEN evalStack(Append(stack, Symbol(type)))
  ELSE IF before.outcome # "reading" THEN before
  ELSE Stack(Append(before.stack, Symbol(type)), "reading")

-----------------------------------------------------------------------------
ReadDigit(c) ==
  /\ parseElem(c) = "NUMBER"
  /\ IF Len(numberBuf) = BufferSize
     THEN outcome' = "undefined" /\ UNCHANGED numberBuf
     ELSE numberBuf' = Append(numberBuf, c) /\ UNCHANGED outcome
  /\ UNCHANGED elem_stack

ReadUnknown(c) ==
  /\ parseElem(c) = "UNKNOW"
  /\ outcome' = "unknown" /\ elem_stack' = <<>>
  /\ UNCHANGED numberBuf

ReadSymbol(c) ==
  /\ parseElem(c) \notin {"NUMBER", "UNKNOW"}
  /\ LET e == evalNumber(elem_stack, numberBuf)
         s == IF e.outcome = "reading" THEN Pushed(parseElem(c), e.stack) ELSE e
     IN elem_stack' = s.stack /\ outcome' = s.outcome
  /\ numberBuf' = <<>>

ReadChar ==
  /\ outcome = "reading" /\ at < Len(line)
  /\ at' = at + 1
  /\ LET c == line[at + 1] IN ReadDigit(c) \/ ReadUnknown(c) \/ ReadSymbol(c)
  /\ UNCHANGED <<line, answered, typed, spoiled>>

EndOfLine ==
  /\ outcome = "reading" /\ at = Len(line)
  /\ LET e == evalNumber(elem_stack, numberBuf)
         s == IF e.outcome = "reading" THEN evalStack(e.stack) ELSE e IN
     IF s.outcome # "reading"
     THEN outcome' = s.outcome /\ elem_stack' = s.stack /\ UNCHANGED answered
     ELSE IF Len(s.stack) > 1
     THEN outcome' = "error" /\ elem_stack' = <<>> /\ UNCHANGED answered
     ELSE /\ outcome' = "success" /\ elem_stack' = Front(s.stack)
          /\ answered' = Last(s.stack).value
  /\ numberBuf' = <<>>
  /\ UNCHANGED <<line, at, typed, spoiled>>

(* main() reports the outcome and reads the next line.                     *)
NextLine ==
  /\ outcome \in {"success", "error", "unknown", "exception"}
  /\ typed < MaxLines /\ typed' = typed + 1
  /\ line' \in Lines /\ at' = 0 /\ outcome' = "reading" /\ answered' = <<>>
  /\ spoiled' = (spoiled \/ outcome \in {"unknown", "exception"})
  /\ UNCHANGED <<elem_stack, numberBuf>>

CalNext == ReadChar \/ EndOfLine \/ NextLine

CalSpec == CalInit /\ [][CalNext]_calVars

-----------------------------------------------------------------------------
(* The expressions that eval() is meant for, with the term it makes of     *)
(* each: sums of products of factors, which are numbers and expressions    *)
(* between parentheses.  Sums associate to the left, products to the       *)
(* right: 8/4/2 is 8/(4/2).                                                *)
OfType(types) == {c \in Characters : parseElem(c) \in types}

Numbers ==
  {d \in UNION {[1..k -> OfType({"NUMBER"})] : k \in 1..IntDigits} : Len(d) < BufferSize}

Number(d) == [chars |-> d, term |-> d]
Bracketed(e) == [chars |-> <<"(">> \o e.chars \o <<")">>, term |-> e.term]
Joined(l, op, r) == [chars |-> l.chars \o <<op>> \o r.chars,
                     term |-> <<parseElem(op), l.term, r.term>>]

Short(es) == {e \in es : Len(e.chars) <= Longest}
AllJoined(ls, types, rs) ==
  {Joined(p[1], p[2], p[3]) :
     p \in {q \in ls \X OfType(types) \X rs : Len(q[1].chars) + Len(q[3].chars) < Longest}}

expressions[depth \in 0..Longest] ==
  IF depth = 0 THEN [factors |-> {}, products |-> {}, sums |-> {}]
  ELSE LET e == expressions[depth-1]
           factors == Short({Number(d) : d \in Numbers} \cup {Bracketed(x) : x \in e.sums})
           products == factors \cup AllJoined(factors, {"MULTI", "DIV"}, e.products)
           sums == products \cup AllJoined(e.sums, {"ADD", "SUB"}, products)
       IN [factors |-> factors, products |-> products, sums |-> sums]

Grammar == expressions[Longest].sums

(* A line that is such an expression is answered, and with its term,       *)
(* whatever lines came before it, unless one of them threw an exception    *)
(* (its elements are still on the stack) or held an unknown symbol (its    *)
(* digits may still be in the buffer).                                     *)
CalFollowsGrammar ==
  ~spoiled =>
    \A e \in Grammar : e.chars = line =>
      /\ outcome \in {"reading", "success"}
      /\ outcome = "success" => answered = e.term

=============================================================================
