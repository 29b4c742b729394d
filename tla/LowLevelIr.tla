----------------------------- MODULE LowLevelIr -----------------------------
(***************************************************************************)
(* Instructions over virtual registers and labels (low_level_ir.hpp), and  *)
(* what the liveness analysis takes them to read and to overwrite          *)
(* (low_level_ir.cpp).  Register 0 is the accumulator.                     *)
(***************************************************************************)
EXTENDS Naturals, Sequences

regA == 0

WithRegister(op, x) == [op |-> op, reg |-> x]
WithLabel(op, l)    == [op |-> op, label |-> l]
Plain(op)           == [op |-> op]

\* What makes n > 0 of the 0 in register x: for each bit of n behind the first
\* a doubling, for each that is set an increment.
Doublings(x, n) ==
  LET bit(m) == IF m % 2 = 1 THEN << WithRegister("INC", x) >> ELSE <<>>
      made[m \in Nat] ==
        IF m <= 1 THEN bit(m) ELSE made[m \div 2] \o << WithRegister("SHL", x) >> \o bit(m)
  IN made[n]

read_variables(c) ==
  CASE c.op \in {"LOAD", "GET", "INC", "DEC", "SHL", "SHR", "JUMPR"} -> {c.reg}
    [] c.op \in {"STORE", "ADD", "SUB"} -> {regA, c.reg}
    [] c.op = "PUT" -> {regA}
    [] c.op \in {"READ", "WRITE", "RST", "JUMP", "JPOS", "JZERO", "STRK",
                 "LABEL", "HALT"} -> {}

overwritten_variables(c) ==
  CASE c.op \in {"READ", "WRITE", "LOAD", "GET"} -> {regA}
    [] c.op \in {"PUT", "RST", "STRK"} -> {c.reg}
    [] c.op \in {"STORE", "ADD", "SUB", "INC", "DEC", "SHL", "SHR", "JUMP",
                 "JPOS", "JZERO", "JUMPR", "LABEL", "HALT"} -> {}
=============================================================================
