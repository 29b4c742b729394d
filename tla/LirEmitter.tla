----------------------------- MODULE LirEmitter -----------------------------
(***************************************************************************)
(* The second compiler's emitter (low_level_ir_builder.cpp): a parsed      *)
(* program to instructions over virtual registers and labels, and later,   *)
(* with a register for each virtual one, to bytecode.                      *)
(*                                                                         *)
(* em is the LirEmitter object:                                            *)
(*   em.source   current_source                                            *)
(*   em.code     instructions: source -> the instructions emitted for it   *)
(*   em.vars     resolved_variables: <<source, name>> -> [reg, is_pointer] *)
(*   em.procs    name -> its virtual registers, the return address's first *)
(*   em.next, em.labels, em.memory   the next register, label and cell     *)
(*   em.aborted  whether an assertion has failed                           *)
(* The names that get_label_str makes are pairs of a purpose and a number. *)
(***************************************************************************)
EXTENDS Syntax, LowLevelIr, SequencesExt

EntryOf(source) == <<source>>

Blank == [ source |-> "MAIN", code |-> <<>>, vars |-> <<>>, procs |-> <<>>,
           next |-> 1, labels |-> 0, memory |-> 0, aborted |-> FALSE ]

-----------------------------------------------------------------------------
CodeOf(em, source) == IF source \in DOMAIN em.code THEN em.code[source] ELSE <<>>

\* push_instruction, of several at once.
Put(em, cs) ==
  [em EXCEPT !.code = (em.source :> CodeOf(em, em.source) \o cs) @@ @]
Reg(op, x)  == <<WithRegister(op, x)>>
Go(op, l)   == <<WithLabel(op, l)>>
Mark(l)     == Go("LABEL", l)
Abort(em)   == [em EXCEPT !.aborted = TRUE]

Fresh(em)            == [em EXCEPT !.next = @ + 1]
Labelled(em, n)      == [em EXCEPT !.labels = @ + n]
LabelOf(em, what, n) == <<what, em.labels + n>>

\* get_variable: an index is not looked at.
VariableOf(em, id) == em.vars[<<em.source, id.name>>]

\* emit_constant: for 0 nothing.
Constant(em, x, n) ==
  IF n = 0 THEN em ELSE Put(em, Reg("RST", x) \o Doublings(x, n))

\* The accumulator <- a variable, or the cell that it points at.
Fetched(em, id) ==
  LET v == VariableOf(em, id)
  IN Put(em, Reg(IF v.is_pointer THEN "LOAD" ELSE "GET", v.reg))
Stored(em, id) ==
  LET v == VariableOf(em, id)
  IN Put(em, Reg(IF v.is_pointer THEN "STORE" ELSE "PUT", v.reg))

\* set_vreg: register x <- the value v.
SetVreg(em, x, v) ==
  IF IsNum(v) THEN Constant(em, x, v.val)
              ELSE Put(Fetched(em, v), Reg("PUT", x))

\* put_constant_to_vreg_or_get: the register of the operand v, for a number a
\* new one, which the code of ToVreg sets.
VregOf(em, v) == IF IsNum(v) THEN em.next ELSE VariableOf(em, v).reg
ToVreg(em, v) == IF IsNum(v) THEN Constant(Fresh(em), em.next, v.val) ELSE em

-----------------------------------------------------------------------------
\* x - y > 0 goes to the label.
EmitGreater(em, x, y, label) ==
  Put(SetVreg(ToVreg(em, y), regA, x),
      Reg("SUB", VregOf(em, y)) \o Go("JPOS", label))

EmitCondition(em, c, false_label) ==
  CASE c.op = "<=" -> EmitGreater(em, c.lhs, c.rhs, false_label)
    [] c.op = ">=" -> EmitGreater(em, c.rhs, c.lhs, false_label)
    [] c.op \in {"=", "!=", "<", ">"} -> Abort(em)

\* tmp accumulates; lhs doubles and rhs halves until it is 0.
MultiplyCode(em, lhs, rhs, tmp) ==
  LET begin == LabelOf(em, "MULTIPLY_BEGIN", 0)
      end   == LabelOf(em, "MULTIPLY_END", 1)
      even  == LabelOf(em, "MULTIPLY_EVEN", 2)
  IN Reg("RST", tmp) \o Mark(begin) \o Reg("GET", rhs) \o Go("JZERO", end)
     \o Reg("SHR", regA) \o Reg("SHL", regA) \o Reg("INC", regA) \o Reg("SUB", rhs)
     \o Go("JPOS", even)
     \o Reg("GET", tmp) \o Reg("ADD", lhs) \o Reg("PUT", tmp)
     \o Mark(even)
     \o Reg("SHL", lhs) \o Reg("SHR", rhs) \o Go("JUMP", begin)
     \o Mark(end) \o Reg("GET", tmp)

\* Division takes its labels and emits nothing.
EmitBinary(em, op, lhs, rhs, assignee) ==
  CASE op = "+" -> Put(em, Reg("GET", lhs) \o Reg("ADD", rhs) \o Reg("PUT", assignee))
    [] op = "-" -> Put(em, Reg("GET", lhs) \o Reg("SUB", rhs) \o Reg("PUT", assignee))
    [] op = "*" -> Put(Labelled(Fresh(em), 3),
                       MultiplyCode(em, lhs, rhs, em.next) \o Reg("PUT", assignee))
    [] op = "/" -> Labelled(em, 5)
    [] op = "%" -> Abort(em)

\* The operands' code, the right one's first.
BadEmitAssignment(em, c) ==
  LET e == c.expr  assignee == VariableOf(em, c.to).reg
  IN IF e.op = "value" THEN SetVreg(em, assignee, e.lhs)
     ELSE LET right == ToVreg(em, e.rhs)  both == ToVreg(right, e.lhs)
          IN EmitBinary(both, e.op, VregOf(em, e.lhs), VregOf(em, e.rhs), assignee)
EmitAssignment(em, c) ==
  LET e == c.expr  assignee == VariableOf(em, c.to).reg
  IN IF e.op = "value" THEN SetVreg(em, assignee, e.lhs)
     ELSE LET right == ToVreg(em, e.rhs)  both == ToVreg(right, e.lhs)
          IN EmitBinary(both, e.op, VregOf(right, e.lhs), VregOf(em, e.rhs), assignee)

EmitWrite(em, v) ==
  Put(IF IsNum(v) THEN Constant(em, regA, v.val) ELSE Fetched(em, v),
      <<Plain("WRITE")>>)

\* The values of the arguments go to the registers of the callee's formals.
EmitCall(em, c) ==
  LET formals == em.procs[c.name]
      passed(e, n) == Put(Fetched(e, Id(c.args[n])), Reg("PUT", formals[n + 1]))
  IN Put(FoldLeft(passed, em, [n \in DOMAIN c.args |-> n]),
         Reg("STRK", formals[1]) \o Go("JUMP", EntryOf(c.name)))

-----------------------------------------------------------------------------
RECURSIVE EmitCommand(_, _)
EmitCommands(em, cs) == FoldLeft(EmitCommand, em, cs)

EmitIf(em, c) ==
  LET false == LabelOf(em, "ELSE", 1)
      endif == LabelOf(em, "ENDIF", 2)
      else  == c.else # <<>>
      condition == EmitCondition(Labelled(em, 3), c.cond, IF else THEN false ELSE endif)
      then == Put(EmitCommands(condition, c.commands), Go("JUMP", endif))
  IN Put(IF else THEN EmitCommands(Put(then, Mark(false)), c.else[1]) ELSE then,
         Mark(endif))

EmitWhile(em, c) ==
  LET true  == LabelOf(em, "while", 0)
      false == LabelOf(em, "endwhile", 1)
      condition == EmitCondition(Put(Labelled(em, 2), Mark(true)), c.cond, false)
  IN Put(EmitCommands(condition, c.commands), Go("JUMP", true) \o Mark(false))

\* Both ways out of the condition lead behind the loop.
EmitRepeat(em, c) ==
  LET true  == LabelOf(em, "repeat", 0)
      false == LabelOf(em, "endrepeat", 1)
      body  == EmitCommands(Put(Labelled(em, 2), Mark(true)), c.commands)
  IN Put(EmitCondition(body, c.cond, false), Mark(false))

EmitCommand(em, c) ==
  CASE c.cmd = "assign"  -> EmitAssignment(em, c)
    [] c.cmd = "read"    -> Stored(Put(em, <<Plain("READ")>>), c.to)
    [] c.cmd = "write"   -> EmitWrite(em, c.value)
    [] c.cmd = "if"      -> EmitIf(em, c)
    [] c.cmd = "while"   -> EmitWhile(em, c)
    [] c.cmd = "repeat"  -> EmitRepeat(em, c)
    [] c.cmd = "call"    -> EmitCall(em, c)
    [] c.cmd = "inlined" -> EmitCommands(em, c.commands)

-----------------------------------------------------------------------------
Resolve(em, x, is_pointer) ==
  [Fresh(em) EXCEPT !.vars = (<<em.source, x>> :>
                                [reg |-> em.next, is_pointer |-> is_pointer]) @@ @]

\* emit_context: a register per variable, and cells nobody uses.
EmitContext(em, decls, cs) ==
  LET declare(e, d) == [Resolve(e, d.name, FALSE) EXCEPT
                          !.memory = @ + (IF d.size = <<>> THEN 1 ELSE d.size[1])]
  IN EmitCommands(FoldLeft(declare, em, decls), cs)

EmitProcedure(em, p) ==
  LET argument(e, a) == [Resolve(e, a.name, TRUE) EXCEPT !.procs[p.name] = Append(@, e.next)]
      entered == [Fresh(em) EXCEPT !.source = p.name,
                                   !.procs = (p.name :> <<em.next>>) @@ @]
      head == Put(FoldLeft(argument, entered, p.args), Mark(EntryOf(p.name)))
  IN Put(EmitContext(head, p.decls, p.commands), Reg("JUMPR", em.next))

Lower(program) ==
  LET main == [FoldLeft(EmitProcedure, Blank, program.procedures) EXCEPT !.source = "MAIN"]
  IN Put(EmitContext(Put(main, Mark(EntryOf("MAIN"))), program.decls, program.commands),
         <<Plain("HALT")>>)

\* The orders in which an unordered_map can yield its elements.
Orders(em) == SetToSeqs(DOMAIN em.code)
InOrder(em, order) == FlattenSeq([n \in DOMAIN order |-> em.code[order[n]]])

\* get_flattened_instructions.
Flattened(em, order) ==
  (IF em.procs = <<>> THEN <<>> ELSE Go("JUMP", EntryOf("MAIN"))) \o InOrder(em, order)

-----------------------------------------------------------------------------
RegisterNames == <<"A", "B", "C", "D", "E", "F", "G", "H">>

\* The lines of cs that are not labels, before its instruction n.
LinesBefore(cs, n) ==
  Cardinality({ m \in 1 .. n - 1 : cs[m].op # "LABEL" })

\* What a label stands for; one that is nowhere for 0, as operator[] has it.
LineOf(cs, label) ==
  LET places == { n \in DOMAIN cs : cs[n] = WithLabel("LABEL", label) }
  IN IF places = {} THEN 0 ELSE LinesBefore(cs, Max(places))

\* emit_assembler: of what was emitted, not of what was spilled, and without
\* a jump to the main program.
Assembled(cs, assigned) ==
  LET line(c) == CASE "reg" \in DOMAIN c   -> [op |-> c.op, reg |-> RegisterNames[assigned[c.reg] + 1]]
                   [] "label" \in DOMAIN c -> [op |-> c.op, line |-> LineOf(cs, c.label)]
                   [] OTHER -> c
      isLine(c) == c.op # "LABEL"
      kept == SelectSeq(cs, isLine)
  IN [n \in DOMAIN kept |-> line(kept[n])]
=============================================================================
