----------------------------- MODULE Templates ------------------------------
(***************************************************************************)
(* The templates of the emitter without a loop, each run on the machine by *)
(* itself: from its first line to the line behind it, where a HALT stands  *)
(* here.  The cells hold whatever earlier code left in them, and so do the *)
(* registers.  The templates are those of READ, WRITE and assignments, of  *)
(* the test of a condition, and of a call, with the two pieces of the      *)
(* called procedure that surround its body, which is empty here.           *)
(***************************************************************************)
EXTENDS Machine, CodeGen

CONSTANTS
  Pieces,     \* a function to what is emitted: records [env, command]
  Memories    \* for every piece, the functions that the cells may be before

-----------------------------------------------------------------------------
\* The lines of a test go to the first HALT when the condition holds, and to
\* the second when it fails.
Tested(env, c) ==
  LET condition == EmitCondition(env, c.cond)
      behind == Len(condition.lines)
  IN SetJumpLocations(condition, [yes |-> behind, no |-> behind + 1])

Emitted(piece) ==
  LET env == piece.env  c == piece.command
  IN CASE c.cmd = "assign" -> EmitAssignment(env, c, 0)
       [] c.cmd = "read"   -> EmitRead(env, c)
       [] c.cmd = "write"  -> EmitWrite(env, c)
       [] c.cmd = "test"   -> Tested(env, c)
       [] c.cmd = "call"   -> EmitCall(env, c)

\* The line behind the template.
Behind(piece) == Len(Emitted(piece).lines)

Callee(piece) == piece.env.procs[piece.command.name]

\* A procedure stands behind the second HALT.
Listing(piece) ==
  Emitted(piece).lines \o <<HALT, HALT>>
  \o IF piece.command.cmd = "call"
     THEN Prologue(Callee(piece).memory_loc).lines
          \o Epilogue(Callee(piece).memory_loc).lines
     ELSE <<>>

-----------------------------------------------------------------------------
(* What the templates are emitted for: any environment, any identifiers     *)
(* and numbers in it.                                                       *)
IsEnvironment(env) ==
  /\ \A v \in DOMAIN env.vars :
       env.vars[v] \in [address : Nat, size : Nat, is_pointer : BOOLEAN]
  /\ \A p \in DOMAIN env.procs :
       env.procs[p].entrypoint \in Nat /\ env.procs[p].memory_loc \in Nat

IsNumber(v) == IsNum(v) /\ v.val \in Nat
IsIdentifier(id) ==
  /\ ~IsNum(id)
  /\ id.index # <<>> =>
       /\ Len(id.index) = 1
       /\ IsNum(id.index[1]) => IsNumber(id.index[1])
IsOperand(v) == IsNumber(v) \/ IsIdentifier(v)

\* Steps of at most 5, shifts by powers of two; operators on two variables but
\* for the three that are computed by a loop (OperatorLoops).
ServedNumber(op, n) ==
  CASE op \in {"+", "-"} -> n <= 5
    [] op \in {"*", "/"} -> PowerOfTwo(n)
    [] OTHER -> FALSE
IsServed(e) ==
  /\ IsOperand(e.lhs)
  /\ e.op # "value" =>
       /\ IsOperand(e.rhs)
       /\ CASE IsNum(e.rhs)                    -> ServedNumber(e.op, e.rhs.val)
            [] IsNum(e.lhs) /\ ~IsNum(e.rhs)  -> /\ e.op \in {"+", "*"}
                                                /\ ServedNumber(e.op, e.lhs.val)
            [] ~IsNum(e.lhs) /\ ~IsNum(e.rhs) -> e.op \in {"+", "-"}

\* The cells of the procedure are not those that the caller was given for its
\* own arguments.
IsCall(env, c) ==
  LET callee == env.procs[c.name]
  IN /\ c.args \in Seq(STRING)
     /\ callee.entrypoint = Len(EmitCall(env, c).lines) + 2
     /\ \A i \in DOMAIN c.args :
          Location(env, c.args[i]).is_pointer =>
            Location(env, c.args[i]).address
              \notin callee.memory_loc .. callee.memory_loc + Len(c.args)

IsCommand(env, c) ==
  /\ c.cmd \in {"assign", "read", "write", "test", "call"}
  /\ CASE c.cmd = "assign" -> IsIdentifier(c.to) /\ IsServed(c.expr)
       [] c.cmd = "read"   -> IsIdentifier(c.to)
       [] c.cmd = "write"  -> IsOperand(c.value)
       [] c.cmd = "test"   ->
            /\ IsOperand(c.cond.lhs) /\ IsOperand(c.cond.rhs)
            /\ c.cond.op \in {"=", "!=", "<", ">", "<=", ">="}
       [] c.cmd = "call"   -> IsCall(env, c)

ASSUME PiecesAssumption ==
  \A p \in DOMAIN Pieces :
    /\ IsEnvironment(Pieces[p].env)
    /\ IsCommand(Pieces[p].env, Pieces[p].command)
    /\ Emitted(Pieces[p]).errors = {}

ASSUME ListingsAssumption ==
  /\ DOMAIN Programs = DOMAIN Pieces
  /\ \A p \in DOMAIN Pieces : Programs[p] = Listing(Pieces[p])

ASSUME MemoriesAssumption ==
  \A p \in DOMAIN Pieces : \A cells \in Memories[p] :
    /\ DOMAIN cells \subseteq Nat
    /\ cells \in [DOMAIN cells -> Nat]

VARIABLE before    \* the cells at the start

template == <<machine, before>>

TemplateInit ==
  /\ prog \in DOMAIN Programs
  /\ lines = Programs[prog]
  /\ tape \in Tapes[prog]
  /\ r \in Junk
  /\ pam \in Memories[prog]
  /\ lr = 0
  /\ t = 0
  /\ io = 0
  /\ nread = 0
  /\ out = <<>>
  /\ before = pam

TemplateNext == Next /\ UNCHANGED before
TemplateSpec == TemplateInit /\ [][TemplateNext]_template

-----------------------------------------------------------------------------
(* What the source of a template means, in a memory m: a function from all  *)
(* addresses to numbers.                                                    *)

\* The cells at the start and now, as such functions.
Value(cells, x) == IF x \in DOMAIN cells THEN cells[x] ELSE 0
Before == [x \in Nat |-> Value(before, x)]

\* The address that a variable stands for: an argument holds it.
Stands(env, x, m) ==
  IF Location(env, x).is_pointer THEN m[Location(env, x).address]
                                 ELSE Location(env, x).address

Index(env, id, m) ==
  IF id.index = <<>> THEN 0
  ELSE IF IsNum(id.index[1]) THEN id.index[1].val
  ELSE m[Stands(env, id.index[1].name, m)]

AddressOf(env, id, m) == Stands(env, id.name, m) + Index(env, id, m)

ValueOf(env, v, m) == IF IsNum(v) THEN v.val ELSE m[AddressOf(env, v, m)]

ExpressionOf(env, e, m) ==
  LET x == ValueOf(env, e.lhs, m)  y == ValueOf(env, e.rhs, m)
  IN CASE e.op = "value" -> x
       [] e.op = "+" -> x + y
       [] e.op = "-" -> Monus(x, y)
       [] e.op = "*" -> x * y
       [] e.op = "/" -> x \div y

Compares(env, c, m) ==
  LET x == ValueOf(env, c.lhs, m)  y == ValueOf(env, c.rhs, m)
  IN CASE c.op = "="  -> x = y
       [] c.op = "!=" -> x # y
       [] c.op = "<"  -> x < y
       [] c.op = ">"  -> x > y
       [] c.op = "<=" -> x <= y
       [] c.op = ">=" -> x >= y

-----------------------------------------------------------------------------
Stopped == Halted \/ Error

\* The cells are what they were, but for those of S, which are as f says.
Became(f) ==
  \A x \in DOMAIN before \cup DOMAIN pam \cup DOMAIN f :
    Cell(x) = IF x \in DOMAIN f THEN f[x] ELSE Before[x]
Stored(x, v) == Became([y \in {x} |-> v])
Kept         == Became(<<>>)

Env     == Pieces[prog].env
Command == Pieces[prog].command

(* Behind an assignment or a READ, the cell that the target names holds the *)
(* value of the expression, or what was read, and every other cell is as    *)
(* it was, whatever the addresses are: the address is that of the target    *)
(* before the store, and the accumulator survives its computation           *)
(* (set_mar, emit_assignment, emit_read).                                   *)
AssignsResult ==
  Stopped =>
    /\ Command.cmd = "assign" =>
         /\ lr = Behind(Pieces[prog])
         /\ Stored(AddressOf(Env, Command.to, Before),
                   ExpressionOf(Env, Command.expr, Before))
    /\ Command.cmd = "read" =>
         /\ lr = Behind(Pieces[prog]) /\ nread = 1
         /\ Stored(AddressOf(Env, Command.to, Before), tape[1])

(* A WRITE outputs the value, and a condition goes to the line for its      *)
(* being true exactly if it is; neither changes a cell (emit_write,         *)
(* emit_condition and the three ways in which its jumps are patched).       *)
TellsValue ==
  Stopped =>
    /\ Command.cmd = "write" =>
         /\ lr = Behind(Pieces[prog]) /\ Kept
         /\ out = << ValueOf(Env, Command.value, Before) >>
    /\ Command.cmd = "test" =>
         /\ Kept
         /\ lr = Behind(Pieces[prog])
                 + IF Compares(Env, Command.cond, Before) THEN 0 ELSE 1

(* A called procedure begins, behind its prologue, with the line behind the *)
(* jump in its first cell and in the next ones the addresses its arguments  *)
(* stand for in the caller, all other cells as they were; and its end goes  *)
(* to that line (emit_call, emit_procedure).                                *)
CallsReturn ==
  Command.cmd = "call" =>
    LET callee == Callee(Pieces[prog])
        body == callee.entrypoint + Len(Prologue(callee.memory_loc).lines)
        args == Command.args
        passed == [x \in callee.memory_loc .. callee.memory_loc + Len(args) |->
                     IF x = callee.memory_loc THEN Behind(Pieces[prog])
                     ELSE Stands(Env, args[x - callee.memory_loc], Before)]
    IN /\ lr = body \/ Stopped => Became(passed)
       /\ Stopped => lr = Behind(Pieces[prog])
=============================================================================
