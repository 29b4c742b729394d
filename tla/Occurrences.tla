---------------------------- MODULE Occurrences -----------------------------
(***************************************************************************)
(* What occurs in a piece of source: the commands in a sequence of         *)
(* commands, however deep, and the identifiers and calls in them.          *)
(***************************************************************************)
EXTENDS Syntax, Sequences

\* The sequences of commands that are part of a command.
Blocks(c) ==
  CASE c.cmd = "if" -> IF c.else = <<>> THEN << c.commands >>
                                        ELSE << c.commands, c.else[1] >>
    [] c.cmd \in {"while", "repeat", "inlined"} -> << c.commands >>
    [] OTHER -> <<>>

RECURSIVE Within(_)
Within(cs) ==
  UNION { {cs[i]} \cup UNION { Within(Blocks(cs[i])[b]) : b \in DOMAIN Blocks(cs[i]) }
          : i \in DOMAIN cs }

Calls(cs) == { c \in Within(cs) : c.cmd = "call" }

\* The values that a command looks at, and the identifiers among them and
\* among its targets; the arguments of a call are names, not identifiers.
Values(c) ==
  CASE c.cmd = "assign" -> IF c.expr.op = "value" THEN {c.expr.lhs}
                           ELSE {c.expr.lhs, c.expr.rhs}
    [] c.cmd = "write"  -> {c.value}
    [] c.cmd \in {"if", "while", "repeat"} -> {c.cond.lhs, c.cond.rhs}
    [] OTHER -> {}
Identifiers(cs) ==
  UNION { { v \in Values(c) : ~IsNum(v) }
          \cup (IF c.cmd \in {"assign", "read"} THEN {c.to} ELSE {})
          : c \in Within(cs) }
=============================================================================
