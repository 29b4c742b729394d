----------------------------- MODULE MCCompiled -----------------------------
(***************************************************************************)
(* The programs of all the families: numbers and procedures, and two more. *)
(* Assignments: every operator, with its operands and its target in every  *)
(* addressing mode and in every place.  Conditions: every comparison in    *)
(* every command that has a condition, its operands in several addressing  *)
(* modes; the left operand is read again in each turn of a loop, the right *)
(* one is 1.                                                               *)
(***************************************************************************)
EXTENDS MCLiterals, MCProcedures

CONSTANTS
  Operators,   \* a subset of + - * / %
  LeftValues,  \* what is read for the left operand
  RightValues, \* and for the right one
  Turns        \* how often the condition of a loop is tested at most

AssignmentBody(to, lhs, op, rhs) ==
  Indices \o << ReadInto(lhs), ReadInto(rhs),
                Assign(to, Binary(lhs, op, rhs)), WriteOut(to) >>

\* Modulo by zero is the subject of a run of its own.
RightValuesOf(op) == RightValues \ (IF op = "%" THEN {0} ELSE {})

AssignmentCase(k) ==
  LET op == k[1]  to == k[2]  lhs == k[3]  rhs == k[4]  place == k[5]
  IN [ program |-> Placed(AssignmentBody(Target[to], Left[lhs], op, Right[rhs]), place),
       tapes |-> { <<a, b>> : a \in LeftValues, b \in RightValuesOf(op) } ]

AssignmentCases ==
  Mapped(AssignmentCase, Combinations(<<SetToSeq(Operators), Modes, Modes, Modes,
                                Places>>))

-----------------------------------------------------------------------------
Comparisons == <<"=", "!=", "<", ">", "<=", ">=">>
Commands    == <<"if", "if-else", "while", "repeat">>

RightOrNumber == Right @@ [literal |-> Num(1)]

ConditionBody(command, lhs, op, rhs) ==
  LET c == Binary(lhs, op, rhs)
      again == << WriteOut(lhs), ReadInto(lhs) >>
      begin == Indices \o << Assign(Id("y"), Just(Num(1))),
                             Assign(At("w", Id("j")), Just(Num(1))),
                             ReadInto(lhs) >>
  IN begin \o
     CASE command = "if"      -> << If(c, <<WriteOut(Num(8))>>) >>
       [] command = "if-else" -> << IfElse(c, <<WriteOut(Num(8))>>,
                                              <<WriteOut(Num(9))>>) >>
       [] command = "while"   -> << While(c, again) >>
       [] command = "repeat"  -> << Repeat(again, c) >>
     \o << WriteOut(lhs) >>

\* What the left operand is in each test: a loop ends with the last of them.
Tested == 0 .. 2
TapesOf(command, op) ==
  LET holds(a) == Compare(op, a, 1)
      loop(go(_)) == { s \in UNION { [1 .. n -> Tested] : n \in 1 .. Turns } :
                         \A k \in DOMAIN s : go(s[k]) = (k < Len(s)) }
      fails(a) == ~holds(a)
  IN CASE command \in {"if", "if-else"} -> { <<a>> : a \in Tested }
       [] command = "while"  -> loop(holds)
       [] command = "repeat" -> { <<a>> \o s : a \in Tested, s \in loop(fails) }

ConditionCase(k) ==
  LET command == k[1]  op == k[2]  lhs == k[3]  rhs == k[4]  place == k[5]
  IN [ program |-> Placed(ConditionBody(command, Left[lhs], op, RightOrNumber[rhs]),
                          place),
       tapes |-> TapesOf(command, op) ]

ConditionCases ==
  Mapped(ConditionCase, Combinations(<<Commands, Comparisons,
                                <<"scalar", "variable">>,
                                <<"literal", "scalar", "variable">>,
                                <<"main", "procedure">> >>))

-----------------------------------------------------------------------------
AllCases == AssignmentCases \o LiteralCases \o ConditionCases \o ProcedureCases
MCCases  == AllCases
=============================================================================
