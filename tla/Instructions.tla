---------------------------- MODULE Instructions ----------------------------
(***************************************************************************)
(* The bytecode of the register machine: instruction.hpp, and the table in *)
(* README.md, "The virtual machine".  The Comment alternative of the C++   *)
(* variant is left out: no code path ever puts one into a program.         *)
(***************************************************************************)
EXTENDS Naturals

Registers == {"A", "B", "C", "D", "E", "F", "G", "H"}

RegisterOps == {"LOAD", "STORE", "ADD", "SUB", "GET", "PUT", "RST", "INC",
                "DEC", "SHL", "SHR", "STRK", "JUMPR"}
JumpOps     == {"JUMP", "JPOS", "JZERO"}
PlainOps    == {"READ", "WRITE", "HALT"}

Instruction ==      [op : PlainOps]
               \cup [op : RegisterOps, reg : Registers]
               \cup [op : JumpOps, line : Nat]

READ     == [op |-> "READ"]
WRITE    == [op |-> "WRITE"]
HALT     == [op |-> "HALT"]
LOAD(x)  == [op |-> "LOAD",  reg |-> x]
STORE(x) == [op |-> "STORE", reg |-> x]
ADD(x)   == [op |-> "ADD",   reg |-> x]
SUB(x)   == [op |-> "SUB",   reg |-> x]
GET(x)   == [op |-> "GET",   reg |-> x]
PUT(x)   == [op |-> "PUT",   reg |-> x]
RST(x)   == [op |-> "RST",   reg |-> x]
INC(x)   == [op |-> "INC",   reg |-> x]
DEC(x)   == [op |-> "DEC",   reg |-> x]
SHL(x)   == [op |-> "SHL",   reg |-> x]
SHR(x)   == [op |-> "SHR",   reg |-> x]
STRK(x)  == [op |-> "STRK",  reg |-> x]
JUMPR(x) == [op |-> "JUMPR", reg |-> x]
JUMP(n)  == [op |-> "JUMP",  line |-> n]
JPOS(n)  == [op |-> "JPOS",  line |-> n]
JZERO(n) == [op |-> "JZERO", line |-> n]
=============================================================================
