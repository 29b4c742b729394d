-------------------------------- MODULE Imp ---------------------------------
(***************************************************************************)
(* What a source program means: a big-step evaluator of the language of    *)
(* the README's grammar, with the syntax trees of Emitter and CodeGen.     *)
(*                                                                         *)
(* It is a reference, independent of any code the compiler generates: it   *)
(* knows no addresses and no registers.  A cell is <<owner, index>>, where *)
(* owner is the <<procedure, name>> of a declaration and index 0 for a     *)
(* scalar.  A frame maps every name of a procedure to its owner; parameters*)
(* are passed by reference, so a formal's owner is its actual's.  Numbers  *)
(* are naturals, subtraction stops at 0, and x / 0 = x % 0 = 0.            *)
(*                                                                         *)
(* The evaluator is meant for programs and inputs that terminate.          *)
(***************************************************************************)
EXTENDS Integers, Sequences, TLC

Arithmetic(op, a, b) ==
  CASE op = "+" -> a + b
    [] op = "-" -> IF a >= b THEN a - b ELSE 0
    [] op = "*" -> a * b
    [] op = "/" -> IF b = 0 THEN 0 ELSE a \div b
    [] op = "%" -> IF b = 0 THEN 0 ELSE a % b

Compare(op, a, b) ==
  CASE op = "="  -> a = b
    [] op = "!=" -> a # b
    [] op = "<"  -> a < b
    [] op = ">"  -> a > b
    [] op = "<=" -> a <= b
    [] op = ">=" -> a >= b

-----------------------------------------------------------------------------
(* A state of the evaluation: the cells that have a value, the input left,  *)
(* and the numbers read and written so far, in order.                       *)

Begin(input) == [store |-> <<>>, tape |-> input, events |-> <<>>]

Update(s, cell, v) == [s EXCEPT !.store = (cell :> v) @@ @]
Look(s, cell)   == IF cell \in DOMAIN s.store THEN s.store[cell] ELSE 0

CellOf(s, frame, id) ==
  << frame[id.name],
     IF id.index = <<>> THEN 0
     ELSE IF id.index[1].kind = "num" THEN id.index[1].val
     ELSE Look(s, <<frame[id.index[1].name], 0>>) >>

Denotes(s, frame, v) ==
  IF v.kind = "num" THEN v.val ELSE Look(s, CellOf(s, frame, v))

Holds(s, frame, c) ==
  Compare(c.op, Denotes(s, frame, c.lhs), Denotes(s, frame, c.rhs))

ValueOf(s, frame, e) ==
  IF e.op = "value" THEN Denotes(s, frame, e.lhs)
  ELSE Arithmetic(e.op, Denotes(s, frame, e.lhs), Denotes(s, frame, e.rhs))

\* The names declared in a procedure or program, each its own owner.
Locals(source, decls) ==
  [ x \in {decls[i].name : i \in DOMAIN decls} |-> <<source, x>> ]

-----------------------------------------------------------------------------
RECURSIVE Perform(_, _, _, _), PerformOne(_, _, _, _)

\* procs maps the name of a procedure to its declaration.
PerformCall(procs, s, frame, c) ==
  LET p == procs[c.name]
      actual(x) == CHOOSE i \in DOMAIN p.args : p.args[i].name = x
      formals == [ x \in {p.args[i].name : i \in DOMAIN p.args}
                     |-> frame[c.args[actual(x)]] ]
  IN Perform(procs, s, Locals(p.name, p.decls) @@ formals, p.commands)

PerformOne(procs, s, frame, c) ==
  CASE c.cmd = "assign" ->
         Update(s, CellOf(s, frame, c.to), ValueOf(s, frame, c.expr))
    [] c.cmd = "read" ->
         Update([s EXCEPT !.tape = Tail(@),
                       !.events = Append(@, <<"in", Head(s.tape)>>)],
             CellOf(s, frame, c.to), Head(s.tape))
    [] c.cmd = "write" ->
         [s EXCEPT !.events = Append(@, <<"out", Denotes(s, frame, c.value)>>)]
    [] c.cmd = "if" ->
         IF Holds(s, frame, c.cond) THEN Perform(procs, s, frame, c.commands)
         ELSE IF c.else = <<>> THEN s ELSE Perform(procs, s, frame, c.else[1])
    [] c.cmd = "while" ->
         IF Holds(s, frame, c.cond)
         THEN PerformOne(procs, Perform(procs, s, frame, c.commands), frame, c)
         ELSE s
    [] c.cmd = "repeat" ->
         LET once == Perform(procs, s, frame, c.commands)
         IN IF Holds(once, frame, c.cond) THEN once
            ELSE PerformOne(procs, once, frame, c)
    [] c.cmd = "call" -> PerformCall(procs, s, frame, c)
    [] c.cmd = "inlined" -> Perform(procs, s, frame, c.commands)

Perform(procs, s, frame, cs) ==
  IF cs = <<>> THEN s
  ELSE Perform(procs, PerformOne(procs, s, frame, Head(cs)), frame, Tail(cs))

\* The state in which a program ends that is fed the input.
MeaningOf(program, input) ==
  LET ps == program.procedures
      procs == [ x \in {ps[i].name : i \in DOMAIN ps} |->
                   ps[CHOOSE i \in DOMAIN ps : ps[i].name = x] ]
  IN Perform(procs, Begin(input), Locals("PROGRAM", program.decls),
         program.commands)
=============================================================================
