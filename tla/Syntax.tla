------------------------------- MODULE Syntax -------------------------------
(***************************************************************************)
(* The syntax trees of ast.hpp, and constructors for them.  A tree is a    *)
(* record; what is optional in ast.hpp is a sequence of at most one        *)
(* element; an array index is a number or a scalar identifier.  Positions  *)
(* in the source text are left out.                                        *)
(***************************************************************************)
EXTENDS Naturals, Sequences

Num(n)     == [kind |-> "num", val |-> n]
Id(x)      == [kind |-> "id", name |-> x, index |-> <<>>]
At(x, idx) == [kind |-> "id", name |-> x, index |-> <<idx>>]
IsNum(v)   == v.kind = "num"

Just(v)              == [op |-> "value", lhs |-> v]
Binary(lhs, op, rhs) == [op |-> op, lhs |-> lhs, rhs |-> rhs]

Assign(id, e)     == [cmd |-> "assign", to |-> id, expr |-> e]
ReadInto(id)      == [cmd |-> "read", to |-> id]
WriteOut(v)       == [cmd |-> "write", value |-> v]
While(c, cs)      == [cmd |-> "while", cond |-> c, commands |-> cs]
Repeat(cs, c)     == [cmd |-> "repeat", cond |-> c, commands |-> cs]
If(c, cs)         == [cmd |-> "if", cond |-> c, commands |-> cs, else |-> <<>>]
IfElse(c, cs, ds) == [cmd |-> "if", cond |-> c, commands |-> cs, else |-> <<ds>>]
CallOf(p, args)   == [cmd |-> "call", name |-> p, args |-> args]
Inlined(cs)       == [cmd |-> "inlined", commands |-> cs]

Scalar(x)   == [name |-> x, size |-> <<>>]
Array(x, n) == [name |-> x, size |-> <<n>>]

\* A formal parameter: a plain one, or one marked T, which is an array.
Param(x)      == [name |-> x, is_array |-> FALSE]
ArrayParam(x) == [name |-> x, is_array |-> TRUE]

Procedure(name, args, decls, cs) ==
  [name |-> name, args |-> args, decls |-> decls, commands |-> cs]
Program(procedures, decls, cs) ==
  [procedures |-> procedures, decls |-> decls, commands |-> cs]
=============================================================================
