----------------------------- MODULE MCLiterals -----------------------------
(***************************************************************************)
(* Numbers written in a source program: as an operand of each operator, on *)
(* the left and on the right, and as the index of an array.  The emitter   *)
(* has a short form for a number next to + - * and /; which numbers it     *)
(* serves is what the configurations of this module tell apart.            *)
(***************************************************************************)
EXTENDS MCPrograms

CONSTANTS
  Literals,     \* a set of <<use, number>>
  OperandValues \* what is read for the other operand

OnRight(ops, ns) == { <<[op |-> op, side |-> "right"], n>> : op \in ops, n \in ns }
OnLeft(ops, ns)  == { <<[op |-> op, side |-> "left"], n>> : op \in ops, n \in ns }
AsIndex(ns)      == { <<[op |-> "[]", side |-> "index"], n>> : n \in ns }

\* x := x op n, x := n op x, or v[n] := x with y declared behind v.
Command(use, n, operand, to) ==
  CASE use.side = "right" -> Assign(to, Binary(operand, use.op, Num(n)))
    [] use.side = "left"  -> Assign(to, Binary(Num(n), use.op, operand))
    [] use.side = "index" -> Assign(At("w", Num(n)), Just(operand))

LiteralCase(k) ==
  LET literal == k[1]  mode == k[2]  place == k[3]
  IN [ program |-> Placed(Indices \o
                          << ReadInto(Left[mode]), Assign(Id("y"), Just(Num(3))),
                             Command(literal[1], literal[2], Left[mode],
                                     Target[mode]),
                             WriteOut(Target[mode]), WriteOut(Id("y")) >>, place),
       tapes |-> { <<a>> : a \in OperandValues } ]

\* A set as a sequence, which SetToSeq is too slow for.
Listed(S) == FoldSet(LAMBDA e, s : Append(s, e), <<>>, S)

LiteralCases ==
  Mapped(LiteralCase, Combinations(<<Listed(Literals), Modes,
                                <<"main", "procedure">> >>))

\* What is given to Cases: a name of a definition that TLC evaluates once.
MCLiteralCases == LiteralCases

-----------------------------------------------------------------------------
\* What the short forms serve: steps of at most 5, shifts by powers of two.
Served == OnRight({"+", "-"}, 0 .. 5) \cup OnLeft({"+"}, 0 .. 5)
          \cup OnRight({"*", "/"}, {1, 2, 4, 16}) \cup OnLeft({"*"}, {1, 2, 4, 16})
          \cup OnRight({"%"}, {1, 4, 5}) \cup OnLeft({"%"}, {0, 6, 7})
          \cup AsIndex(0 .. 2)

\* What they leave out; and x % 0, which jumps to where nothing is meant to go.
LargeStep    == OnRight({"+"}, {6})
LeftOfMinus  == OnLeft({"-"}, {5})
OddFactor    == OnRight({"*"}, {3})
EvenDivisor  == OnRight({"/"}, {6})
IndexAtSize  == AsIndex({3})
ModuloByZero == OnRight({"%"}, {0})
Unserved == LargeStep \cup LeftOfMinus \cup OddFactor \cup EvenDivisor
            \cup IndexAtSize \cup ModuloByZero
=============================================================================
