------------------------------ MODULE Emitter -------------------------------
(***************************************************************************)
(* The emitter (emitter.cpp): a parsed program to instructions and errors. *)
(*                                                                         *)
(* The jumps of a condition are emitted with dummy targets, which are      *)
(* replaced when the lines they stand for are known.                       *)
(***************************************************************************)
EXTENDS CodeGen, SequencesExt

Main == "PROGRAM"

-----------------------------------------------------------------------------
RECURSIVE EmitCommand(_, _, _)

EmitCommands(env, cs, base) ==
  FoldLeft(LAMBDA f, c : f ++ EmitCommand(env, c, base + Len(f.lines)),
           Nothing, cs)

\* A condition at line base that skips the body behind it when it fails.
Guarded(condition, body, base) ==
  LET body_start == base + Len(condition.lines)
  IN SetJumpLocations(condition, [yes |-> body_start,
                                  no  |-> body_start + Len(body.lines)])
     ++ body

\* A condition and its two branches, the first with a jump over the second.
EmitElse(env, c, condition, body, base) ==
  LET else_start == base + Len(condition.lines) + Len(body.lines) + 1
      else_body == EmitCommands(env, c.else[1], else_start)
      leave == Emit(<<JUMP(else_start + Len(else_body.lines))>>)
  IN Guarded(condition, body ++ leave, base) ++ else_body

EmitBranches(env, c, condition, body, base) ==
  IF c.else = <<>> THEN Guarded(condition, body, base)
                   ELSE EmitElse(env, c, condition, body, base)

EmitIf(env, c, base) ==
  LET condition == EmitCondition(env, c.cond)
  IN EmitBranches(env, c, condition,
                  EmitCommands(env, c.commands, base + Len(condition.lines)), base)

EmitWhile(env, c, base) ==
  LET condition == EmitCondition(env, c.cond)
      body == EmitCommands(env, c.commands, base + Len(condition.lines))
  IN Guarded(condition, body ++ Emit(<<JUMP(base)>>), base)

\* A body at line base, and a condition behind it that returns to it.
Repeated(condition, body, base) ==
  LET body_end == base + Len(body.lines) + Len(condition.lines)
  IN body ++ SetJumpLocations(condition, [yes |-> body_end, no |-> base])

EmitRepeat(env, c, base) ==
  Repeated(EmitCondition(env, c.cond), EmitCommands(env, c.commands, base), base)

EmitCommand(env, c, base) ==
  CASE c.cmd = "assign"  -> EmitAssignment(env, c, base)
    [] c.cmd = "read"    -> EmitRead(env, c)
    [] c.cmd = "write"   -> EmitWrite(env, c)
    [] c.cmd = "if"      -> EmitIf(env, c, base)
    [] c.cmd = "while"   -> EmitWhile(env, c, base)
    [] c.cmd = "repeat"  -> EmitRepeat(env, c, base)
    [] c.cmd = "call"    -> EmitCall(env, c)
    [] c.cmd = "inlined" -> EmitCommands(env, c.commands, base)

-----------------------------------------------------------------------------
\* The Emitter object before the first procedure.
Start == [ lines |-> <<JUMP(0)>>, errors |-> {}, sp |-> 0, source |-> Main,
           vars |-> <<>>, procs |-> <<>> ]

Appended(em, f) ==
  [em EXCEPT !.lines = @ \o f.lines, !.errors = @ \cup f.errors]

\* Variable x of the current source gets the next size cells.
BadAllocate(em, x, size, is_pointer) ==
  [em EXCEPT !.sp = @ + 1,
             !.vars = (<<em.source, x>> :>
                         [address |-> em.sp, size |-> size,
                          is_pointer |-> is_pointer]) @@ @]
Allocate(em, x, size, is_pointer) ==
  [em EXCEPT !.sp = @ + size,
             !.vars = (<<em.source, x>> :>
                         [address |-> em.sp, size |-> size,
                          is_pointer |-> is_pointer]) @@ @]

AssignMemory(em, decls) ==
  FoldLeft(LAMBDA e, d :
             Allocate(e, d.name, IF d.size = <<>> THEN 1 ELSE d.size[1], FALSE),
           em, decls)

\* The cell of the return address, a pointer per argument, the locals.  A
\* second procedure of the same name does not replace the first in procs.
Enter(em, proc) ==
  LET entry == [entrypoint |-> Len(em.lines), memory_loc |-> em.sp,
                args |-> proc.args]
      entered == [em EXCEPT !.source = proc.name, !.sp = @ + 1,
                            !.procs = @ @@ (proc.name :> entry)]
  IN AssignMemory(FoldLeft(LAMBDA e, a : Allocate(e, a.name, 1, TRUE),
                           entered, proc.args),
                  proc.decls)

\* Code that saves the return address, the commands, code that jumps to it.
EmitProcedure(em, proc) ==
  LET frame == Appended(Enter(em, proc), Prologue(em.sp))
  IN Appended(frame, EmitCommands(frame, proc.commands, Len(frame.lines))
                     ++ Epilogue(em.sp))

EmitMain(em, program) ==
  LET frame == AssignMemory([em EXCEPT !.source = Main,
                                       !.lines[1] = JUMP(Len(em.lines))],
                            program.decls)
  IN Appended(frame, EmitCommands(frame, program.commands, Len(frame.lines))
                     ++ Emit(<<HALT>>))

\* The whole of emit(): the procedures in order, then the main program, whose
\* first line becomes the target of line 0.
Compile(program) ==
  EmitMain(FoldLeft(EmitProcedure, Start, program.procedures), program)
=============================================================================
