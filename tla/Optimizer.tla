----------------------------- MODULE Optimizer ------------------------------
(***************************************************************************)
(* The optimizer (ast-optimizer.cpp): a call becomes the commands of the   *)
(* procedure, its arguments replaced by the actual ones and its variables  *)
(* by new variables of the caller.                                         *)
(***************************************************************************)
EXTENDS Occurrences, SequencesExt

\* The text of a call, as part of a name.
Signature(call) ==
  call.name \o "("
  \o (IF call.args = <<>> THEN ""
      ELSE FoldLeft(LAMBDA s, x : s \o ", " \o x, Head(call.args), Tail(call.args)))
  \o ")"

\* The name in the caller of a variable of the procedure called.
BadLocalName(x, call) == x
LocalName(x, call) == x \o "@" \o Signature(call)

\* mapped_args: a variable of the procedure wins over an argument.
MappedArgs(callee, call) ==
  [ x \in {callee.decls[i].name : i \in DOMAIN callee.decls}
      |-> LocalName(x, call) ]
  @@ [ x \in {callee.args[i].name : i \in DOMAIN callee.args}
         |-> call.args[CHOOSE i \in DOMAIN callee.args : callee.args[i].name = x] ]

NewDeclarations(callee, call) ==
  [ i \in DOMAIN callee.decls |->
      [callee.decls[i] EXCEPT !.name = LocalName(@, call)] ]

-----------------------------------------------------------------------------
\* Every name of the commands is looked up in the map, and so is the text of
\* every index; the text of a number is never in it, and at() throws.
Renamable(map, cs) ==
  /\ \A id \in Identifiers(cs) :
       /\ id.name \in DOMAIN map
       /\ id.index # <<>> => ~IsNum(id.index[1]) /\ id.index[1].name \in DOMAIN map
  /\ \A c \in Calls(cs) : \A i \in DOMAIN c.args : c.args[i] \in DOMAIN map

SubstituteIdentifier(map, id) ==
  [id EXCEPT !.name = map[@],
             !.index = IF @ = <<>> THEN @ ELSE << Id(map[@[1].name]) >>]
SubstituteValue(map, v) == IF IsNum(v) THEN v ELSE SubstituteIdentifier(map, v)

\* An expression or a condition.
BadSubstituteOperands(map, e) ==
  [e EXCEPT !.lhs = SubstituteValue(map, @)]
SubstituteOperands(map, e) ==
  IF e.op = "value" THEN [e EXCEPT !.lhs = SubstituteValue(map, @)]
  ELSE [e EXCEPT !.lhs = SubstituteValue(map, @), !.rhs = SubstituteValue(map, @)]

\* change_inlined_occurences.
RECURSIVE Substituted(_, _)
SubstituteCommand(map, c) ==
  CASE c.cmd = "assign" -> [c EXCEPT !.to = SubstituteIdentifier(map, @),
                                     !.expr = SubstituteOperands(map, @)]
    [] c.cmd = "read"   -> [c EXCEPT !.to = SubstituteIdentifier(map, @)]
    [] c.cmd = "write"  -> [c EXCEPT !.value = SubstituteValue(map, @)]
    [] c.cmd = "if"     -> [c EXCEPT !.cond = SubstituteOperands(map, @),
                                     !.commands = Substituted(map, @),
                                     !.else = IF @ = <<>> THEN @
                                              ELSE << Substituted(map, @[1]) >>]
    [] c.cmd \in {"while", "repeat"} ->
                           [c EXCEPT !.cond = SubstituteOperands(map, @),
                                     !.commands = Substituted(map, @)]
    [] c.cmd = "call"   -> [c EXCEPT !.args = [i \in DOMAIN @ |-> map[@[i]]]]
    [] c.cmd = "inlined" -> [c EXCEPT !.commands = Substituted(map, @)]
Substituted(map, cs) == [i \in DOMAIN cs |-> SubstituteCommand(map, cs[i])]

-----------------------------------------------------------------------------
\* How often a procedure is called by a command that is not in a block: of the
\* calls in blocks calculate_procedure_call_counts_helper counts none.
CallCount(program, name) ==
  LET counted(cs) == Cardinality({ i \in DOMAIN cs : cs[i].cmd = "call"
                                                     /\ cs[i].name = name })
  IN FoldLeft(LAMBDA n, p : n + counted(p.commands), counted(program.commands),
              program.procedures)

\* What calculate_procedure_metadata would put into procedure_costs.  main()
\* does not call it, and operator[] of the empty map yields 0.
Cost(name) == 0

ShouldBeInlined(program, name) == CallCount(program, name) <= 5 \/ Cost(name) <= 5

\* What inline_procedures takes for granted of a call in procedure i, where
\* known maps names to procedures: there is such a procedure with no more
\* arguments than the call has, all of its names can be looked up, and it is
\* not procedure i itself, to whose declarations its own would be appended for
\* as long as there are any.
Inlinable(program, known, i, call) ==
  /\ call.name \in DOMAIN known
  /\ LET callee == program.procedures[known[call.name]]
     IN /\ Len(callee.args) <= Len(call.args)
        /\ known[call.name] = i => callee.decls = <<>>
        /\ Renamable(MappedArgs(callee, call), callee.commands)

\* The program with command k of procedure i, a call of procedure j, inlined.
Inlining(program, i, k, j) ==
  LET call == program.procedures[i].commands[k]
      callee == program.procedures[j]
      body == Substituted(MappedArgs(callee, call), callee.commands)
  IN [program EXCEPT
        !.procedures[i].decls = @ \o NewDeclarations(callee, call),
        !.procedures[i].commands[k] = Inlined(body)]
=============================================================================
