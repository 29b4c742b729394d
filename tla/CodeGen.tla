------------------------------ MODULE CodeGen -------------------------------
(***************************************************************************)
(* The code templates of emitter.cpp: how an identifier becomes an         *)
(* address in register B, a value an accumulator, and an assignment or a   *)
(* condition a piece of code.                                              *)
(*                                                                         *)
(* The emitter appends to two vectors, lines and errors.  A template is    *)
(* the fragment of both that it appends, and ++ is "then append".  Jumps   *)
(* are absolute, so a template with jumps is given the index of its first  *)
(* line (lines.size() in the code).                                        *)
(*                                                                         *)
(* env is the Emitter object, of which the templates only read             *)
(*   env.source   current_source, the procedure being emitted              *)
(*   env.vars     <<source, name>> -> [address, size, is_pointer]          *)
(*   env.procs    name -> [entrypoint, memory_loc, args]                   *)
(*                                                                         *)
(* A definition BadX stands beside some X: what X would be with a slip     *)
(* that is easily made there.  Nothing uses it; with X replaced by it, a   *)
(* property of the project must fail (README, Mutants).                    *)
(***************************************************************************)
EXTENDS Instructions, Syntax, Integers, SequencesExt

-----------------------------------------------------------------------------
Emit(code)  == [lines |-> code, errors |-> {}]
Fail(error) == [lines |-> <<>>, errors |-> {error}]
Nothing     == Emit(<<>>)
f ++ g      == [lines |-> f.lines \o g.lines, errors |-> f.errors \cup g.errors]

Times(n, instr) == [i \in 1 .. n |-> instr]

\* get_variable: the variable's location, if it has one.
Known(env, x)    == <<env.source, x>> \in DOMAIN env.vars
Location(env, x) == env.vars[<<env.source, x>>]
Unknown(x)       == Fail([kind |-> "unknown variable", name |-> x])

-----------------------------------------------------------------------------
\* Doublings and increments of x that build n > 0 from 0, from its leading bit
\* on.
Bits(x, n) ==
  LET bits[m \in Nat] ==
        IF m <= 1 THEN Times(m, INC(x))
                  ELSE bits[m \div 2] \o <<SHL(x)>> \o Times(m % 2, INC(x))
  IN bits[n]

SetRegister(x, n) == Emit(<<RST(x)>> \o Bits(x, n))

\* A <- the cell whose address is in x; for an index that is itself a pointer
\* the cell of x holds that address.
Deref(env, idx, x) ==
  Emit((IF Location(env, idx.name).is_pointer THEN <<LOAD(x), PUT(x)>> ELSE <<>>)
       \o <<LOAD(x)>>)

\* B <- the address in A, with the accumulator back from G.
BadPointerToMar == Emit(<<PUT("B")>>)
PointerToMar == Emit(<<PUT("B"), GET("G")>>)

\* B <- base + the index in A, with the accumulator back from F.
IndexToMar(base) ==
  SetRegister("E", base) ++ Emit(<<ADD("E"), PUT("B"), GET("F")>>)

\* B <- the address of a variable that was passed by reference.  G keeps the
\* accumulator, H the base of an array.
HandlePointer(env, id) ==
  LET scalar == id.index = <<>>
      idx == id.index[1]
  IN SetRegister("B", Location(env, id.name).address)
     ++ Emit(<<PUT("G"), LOAD("B")>>)
     ++ CASE scalar -> PointerToMar
          [] ~scalar /\ IsNum(idx) ->
               SetRegister("F", idx.val) ++ Emit(<<ADD("F")>>) ++ PointerToMar
          [] ~scalar /\ ~IsNum(idx) ->
               IF ~Known(env, idx.name)
               THEN Unknown(idx.name)
               ELSE Emit(<<PUT("H")>>)
                    ++ SetRegister("F", Location(env, idx.name).address)
                    ++ Deref(env, idx, "F")
                    ++ Emit(<<ADD("H")>>)
                    ++ PointerToMar

\* B <- the address of a variable of this procedure or program.  F keeps the
\* accumulator.
DirectMar(env, id) ==
  LET scalar == id.index = <<>>
      idx == id.index[1]
      loc == Location(env, id.name)
  IN CASE scalar -> SetRegister("B", loc.address)
       [] ~scalar /\ IsNum(idx) ->
            (IF idx.val > loc.size
             THEN Fail([kind |-> "outside bounds", name |-> id.name])
             ELSE Nothing)
            ++ SetRegister("B", loc.address + idx.val)
       [] ~scalar /\ ~IsNum(idx) ->
            Emit(<<PUT("F")>>)
            ++ IF ~Known(env, idx.name)
               THEN Unknown(idx.name)
               ELSE SetRegister("B", Location(env, idx.name).address)
                    ++ Deref(env, idx, "B")
                    ++ IndexToMar(loc.address)

\* B <- the address of id, everything but scratch registers kept.
SetMar(env, id) ==
  CASE ~Known(env, id.name) -> Unknown(id.name)
    [] Known(env, id.name) /\ Location(env, id.name).is_pointer ->
         HandlePointer(env, id)
    [] Known(env, id.name) /\ ~Location(env, id.name).is_pointer ->
         DirectMar(env, id)

\* x <- the value v.
SetRegisterTo(env, x, v) ==
  IF IsNum(v) THEN SetRegister(x, v.val)
  ELSE SetMar(env, v)
       ++ Emit(IF x = "A" THEN <<LOAD("B")>> ELSE <<LOAD("B"), PUT(x)>>)
SetAccumulator(env, v) == SetRegisterTo(env, "A", v)

\* The cell named by id, or the cell at an address, <- A.
SetMemory(env, id)   == SetMar(env, id) ++ Emit(<<STORE("B")>>)
SetMemoryAt(address) == SetRegister("B", address) ++ Emit(<<STORE("B")>>)

-----------------------------------------------------------------------------
(* The loops of * / and %.  Each expects the operands in C and D, leaves    *)
(* the result in A, and begins at line p with its test of D.                *)

\* F accumulates; C doubles and D halves until D is 0.
BadMultiplyLoop(p) ==
  << GET("D"), JZERO(p + 13),
     SHR("A"), SHL("A"), INC("A"), SUB("D"), JPOS(p + 9),
     GET("F"), ADD("C"), PUT("F"),
     SHL("C"), SHR("D"), JUMP(p),
     GET("F") >>
MultiplyLoop(p) ==
  << GET("D"), JZERO(p + 13),
     SHR("A"), SHL("A"), INC("A"), SUB("D"), JPOS(p + 10),   \* D even?
     GET("F"), ADD("C"), PUT("F"),
     SHL("C"), SHR("D"), JUMP(p),
     GET("F") >>

\* D and E double while D <= C; then both halve, and where D fits into C it
\* is taken off and E is added to the quotient F.
BadDivideLoop(p) ==
  << GET("D"), JZERO(p + 24),
     INC("E"),
     GET("D"), SUB("C"), JPOS(p + 9),
     SHL("E"), SHL("D"), JUMP(p + 3),
     GET("D"), SUB("C"), JPOS(p + 18),
     GET("F"), ADD("E"), PUT("F"),
     GET("C"), SUB("D"), PUT("C"),
     SHR("D"), SHR("E"), GET("E"), JPOS(p + 9),
     GET("F") >>
LateDivideLoop(p) ==
  << GET("D"), JZERO(p + 22),
     INC("E"),
     GET("D"), SUB("C"), JPOS(p + 9),
     SHL("E"), SHL("D"), JUMP(p + 3),
     GET("D"), SUB("C"), JPOS(p + 19),
     GET("F"), ADD("E"), PUT("F"),
     GET("C"), SUB("D"), PUT("C"),
     SHR("D"), SHR("E"), GET("E"), JPOS(p + 9),
     GET("F") >>
DivideLoop(p) ==
  << GET("D"), JZERO(p + 22),
     INC("E"),
     GET("D"), SUB("C"), JPOS(p + 9),
     SHL("E"), SHL("D"), JUMP(p + 3),
     GET("D"), SUB("C"), JPOS(p + 18),
     GET("F"), ADD("E"), PUT("F"),
     GET("C"), SUB("D"), PUT("C"),
     SHR("D"), SHR("E"), GET("E"), JPOS(p + 9),
     GET("F") >>

\* A C smaller than D is the remainder already; otherwise D doubles past C
\* and then halves and is taken off, until C is below the divisor kept in E.
BadModuloLoop(p) ==
  << GET("D"), SUB("C"), JPOS(p + 23),
     RST("F"),
     GET("D"), JZERO(p + 26),
     GET("D"), PUT("E"),
     GET("D"), SUB("C"), JPOS(p + 13),
     SHL("D"), JUMP(p + 8),
     SHR("D"), GET("D"), SUB("C"), JPOS(p + 19),
     GET("C"), SUB("D"), PUT("C"),
     GET("E"), SUB("C"), JZERO(p + 13),
     GET("C") >>
ModuloLoop(p) ==
  << GET("D"), SUB("C"), JPOS(p + 23),
     RST("F"),
     GET("D"), JZERO(p + 26),
     GET("D"), PUT("E"),
     GET("D"), SUB("C"), JPOS(p + 13),
     SHL("D"), JUMP(p + 8),
     SHR("D"), GET("D"), SUB("C"), JPOS(p + 20),
     GET("C"), SUB("D"), PUT("C"),
     GET("E"), SUB("C"), JZERO(p + 13),
     GET("C") >>

-----------------------------------------------------------------------------
\* What the emitter does with a number next to an operator, given the other
\* operand in A: up to five steps of 1, or one shift per halving of an even n.
StepBy(instr, n) == IF n <= 5 THEN Emit(Times(n, instr)) ELSE Nothing

\* The powers of two: numbers whose divisors are 1 or even.
PowerOfTwo(n) == n > 0 /\ \A d, q \in 1 .. n : d * q = n => d = 1 \/ d % 2 = 0

Halvings(n) ==
  LET halve[m \in Nat] == IF m <= 1 THEN 0 ELSE 1 + halve[m \div 2]
  IN halve[n]
ShiftBy(instr, n) ==
  IF n % 2 = 0 THEN Emit(Times(Halvings(n), instr)) ELSE Nothing

\* The short form of operator op for the number n.
NumberForm(op, n) ==
  CASE op = "+" -> StepBy(INC("A"), n)
    [] op = "-" -> StepBy(DEC("A"), n)
    [] op = "*" -> ShiftBy(SHL("A"), n)
    [] op = "/" -> ShiftBy(SHR("A"), n)

\* A number on the right is looked for first, then one on the left; both are
\* treated alike.
WithNumber(env, e) ==
  LET right == IsNum(e.rhs)
      number == IF right THEN e.rhs ELSE e.lhs
  IN SetAccumulator(env, IF right THEN e.lhs ELSE e.rhs)
     ++ NumberForm(e.op, number.val)

WithRegister(env, e) ==
  SetRegisterTo(env, "C", e.rhs) ++ SetAccumulator(env, e.lhs)
  ++ Emit(<<IF e.op = "+" THEN ADD("C") ELSE SUB("C")>>)

\* The operands in C and D, then some registers reset, then the loop.
Operands(env, e) ==
  SetRegisterTo(env, "C", e.lhs) ++ SetRegisterTo(env, "D", e.rhs)
  ++ Emit(CASE e.op = "*" -> <<RST("F")>>
            [] e.op = "/" -> <<RST("F"), RST("E")>>
            [] e.op = "%" -> <<>>)

Loop(op, p) ==
  CASE op = "*" -> MultiplyLoop(p)
    [] op = "/" -> DivideLoop(p)
    [] op = "%" -> ModuloLoop(p)

WithLoop(env, e, base) ==
  LET start == Operands(env, e)
  IN start ++ Emit(Loop(e.op, base + Len(start.lines)))

\* A <- the expression e.
Expression(env, e, base) ==
  LET number == e.op # "%" /\ (IsNum(e.lhs) \/ IsNum(e.rhs))
  IN CASE e.op = "value"                         -> SetAccumulator(env, e.lhs)
       [] e.op # "value" /\ number               -> WithNumber(env, e)
       [] e.op \in {"+", "-"} /\ ~number         -> WithRegister(env, e)
       [] e.op \in {"*", "/", "%"} /\ ~number    -> WithLoop(env, e, base)

EmitAssignment(env, c, base) ==
  Expression(env, c.expr, base) ++ SetMemory(env, c.to)

EmitRead(env, c)  == Emit(<<READ>>) ++ SetMemory(env, c.to)
EmitWrite(env, c) == SetAccumulator(env, c.value) ++ Emit(<<WRITE>>)

-----------------------------------------------------------------------------
\* A <- x - y, stopping at 0; the operand that goes through C comes first.
BadSubtract(env, x, y) ==
  SetAccumulator(env, x) ++ SetRegisterTo(env, "C", y) ++ Emit(<<SUB("C")>>)
Subtract(env, x, y) ==
  SetRegisterTo(env, "C", y) ++ SetAccumulator(env, x) ++ Emit(<<SUB("C")>>)

\* The differences a condition tests, in order.  If rhs - lhs (swapped) or
\* lhs - rhs (not swapped) is positive, the code goes to the line known as to.
Tests(op) ==
  LET more(line) == [swapped |-> FALSE, to |-> line]
      less(line) == [swapped |-> TRUE,  to |-> line]
  IN CASE op = "<=" -> << more("no") >>
       [] op = ">=" -> << less("no") >>
       [] op = "="  -> << more("no"), less("no") >>
       [] op = "!=" -> << more("yes"), less("yes") >>
       [] op = "<"  -> << more("no"), less("yes") >>
       [] op = ">"  -> << less("no"), more("yes") >>

\* One of them, and the jump if it is positive.
Test(env, c, d) ==
  Subtract(env, IF d.swapped THEN c.rhs ELSE c.lhs, IF d.swapped THEN c.lhs ELSE c.rhs)
  ++ Emit(<<JPOS(d.to)>>)

\* Code that goes to "no" when the condition fails, and to "yes" or to the line
\* after the code when it holds: jumps_if_false and jumps_if_true.
EmitCondition(env, c) ==
  LET tests == Tests(c.op)
  IN Test(env, c, tests[1])
     ++ (IF Len(tests) = 2 THEN Test(env, c, tests[2]) ELSE Nothing)
     ++ Emit(IF c.op \in {"!=", "<", ">"} THEN <<JUMP("no")>> ELSE <<>>)

\* The lines that "yes" and "no" stand for become known.
SetJumpLocations(f, lines) ==
  LET set(line) ==
        IF "line" \in DOMAIN line THEN [line EXCEPT !.line = lines[@]] ELSE line
  IN [f EXCEPT !.lines = [i \in DOMAIN @ |-> set(@[i])]]

-----------------------------------------------------------------------------
\* A <- the address that a variable of the caller at loc stands for.
BadArgumentAddress(loc) == SetRegister("A", loc.address)
ArgumentAddress(loc) ==
  IF loc.is_pointer THEN SetRegister("B", loc.address) ++ Emit(<<LOAD("B")>>)
                    ELSE SetRegister("A", loc.address)

\* The cell at G <- A, and on to the next one.
BadStoreArgument == Emit(<<STORE("G")>>)
StoreArgument == Emit(<<STORE("G"), INC("G")>>)

\* An array for an array and a scalar for a scalar; a formal of the caller is
\* taken for both.  Behind the callee's last formal there is nothing to compare
\* with, and what is read there is undefined.
CheckArgument(loc, x, formals, k) ==
  LET array == loc.size > 1
      compared == array \/ (loc.size = 1 /\ ~loc.is_pointer)
      wrong(kind) == Fail([kind |-> kind, name |-> x])
  IN CASE ~compared -> Nothing
       [] compared /\ k \notin DOMAIN formals -> wrong("undefined")
       [] compared /\ k \in DOMAIN formals ->
            IF array <=> formals[k].is_array
            THEN Nothing
            ELSE wrong(IF array THEN "variable expected" ELSE "array expected")

\* The cell at G <- the address that x, argument k of the caller, stands for.
PassArgument(env, x, formals, k) ==
  IF ~Known(env, x)
  THEN Fail([kind |-> "aborts", name |-> x])
  ELSE CheckArgument(Location(env, x), x, formals, k)
       ++ ArgumentAddress(Location(env, x)) ++ StoreArgument

\* G <- the cell of the callee's first argument.
BadArgumentsAt(callee) == SetRegister("G", callee.memory_loc)
ArgumentsAt(callee) == SetRegister("G", callee.memory_loc + 1)

\* The addresses of the first n arguments go to the cells from G on.
PassArguments(env, args, formals, n) ==
  LET passed[k \in 0 .. n] ==
        IF k = 0 THEN Nothing
        ELSE passed[k - 1] ++ PassArgument(env, args[k], formals, k)
  IN passed[n]

\* The arguments go to the callee's cells behind its return address; H tells
\* the callee where the jump to it was.
EmitCall(env, c) ==
  IF c.name \notin DOMAIN env.procs
  THEN Fail([kind |-> "aborts", name |-> c.name])
  ELSE LET callee == env.procs[c.name]
       IN (IF Len(c.args) # Len(callee.args)
           THEN Fail([kind |-> "wrong number of arguments", name |-> c.name])
           ELSE Nothing)
          ++ ArgumentsAt(callee)
          ++ PassArguments(env, c.args, callee.args, Len(c.args))
          ++ Emit(<<STRK("H"), JUMP(callee.entrypoint)>>)

\* The cell <- the line behind the jump that follows the STRK of the call.
BadPrologue(cell) == Emit(<<INC("H"), GET("H")>>) ++ SetMemoryAt(cell)
Prologue(cell) == Emit(<<INC("H"), INC("H"), GET("H")>>) ++ SetMemoryAt(cell)

Epilogue(cell) == SetRegister("B", cell) ++ Emit(<<LOAD("B"), JUMPR("A")>>)
=============================================================================
