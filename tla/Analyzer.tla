------------------------------ MODULE Analyzer ------------------------------
(***************************************************************************)
(* The analyzer (analyzer.cpp): a walk over the commands that keeps a map  *)
(* of the variables it has met and collects errors and warnings.           *)
(*                                                                         *)
(* The state of the walk is a record                                       *)
(*   vars     name -> [initialized]: the var_map                           *)
(*   procs    name -> number of arguments: the member procedures           *)
(*   errors   a set of [kind, name], warnings among them                   *)
(* The flag used of a variable is left out: check_unused_variables, which  *)
(* reads it, is never called.                                              *)
(***************************************************************************)
EXTENDS Syntax, SequencesExt

Unread == [vars |-> <<>>, procs |-> <<>>, errors |-> {}]

Report(a, kind, x) == [a EXCEPT !.errors = @ \cup {[kind |-> kind, name |-> x]}]
IsWarning(error)   == error.kind = "uninitialized"

\* variables[x].initialized = value, whether x was there or not.
SetInitialized(a, x, value) ==
  [a EXCEPT !.vars = (x :> [initialized |-> value]) @@ @]

\* analyze_variable_use of a name: an unknown name becomes known.
AnalyzeName(a, x) ==
  LET known == x \in DOMAIN a.vars
      seen == IF known THEN a
              ELSE SetInitialized(Report(a, "undeclared", x), x, FALSE)
  IN IF seen.vars[x].initialized THEN seen ELSE Report(seen, "uninitialized", x)

\* analyze_variable_use of an identifier: its name, and its index if that is a
\* name too.
AnalyzeIdentifier(a, id) ==
  LET named == AnalyzeName(a, id.name)
  IN IF id.index = <<>> \/ IsNum(id.index[1]) THEN named
     ELSE AnalyzeName(named, id.index[1].name)

AnalyzeValue(a, v) == IF IsNum(v) THEN a ELSE AnalyzeIdentifier(a, v)

-----------------------------------------------------------------------------
\* The target counts as initialized before the expression is looked at.
AnalyzeAssignment(a, c) ==
  LET set == IF c.to.name \in DOMAIN a.vars
             THEN SetInitialized(a, c.to.name, TRUE) ELSE a
      lhs == AnalyzeValue(AnalyzeIdentifier(set, c.to), c.expr.lhs)
  IN IF c.expr.op = "value" THEN lhs ELSE AnalyzeValue(lhs, c.expr.rhs)

AnalyzeRead(a, c) ==
  IF c.to.name \notin DOMAIN a.vars THEN Report(a, "undeclared", c.to.name)
  ELSE AnalyzeIdentifier(SetInitialized(a, c.to.name, TRUE), c.to)

\* An argument counts as initialized by the call, and thereby as declared.
AnalyzeArgument(a, x) == AnalyzeName(SetInitialized(a, x, TRUE), x)

CheckArity(a, c) ==
  IF Len(c.args) # a.procs[c.name] THEN Report(a, "wrong number", c.name) ELSE a

AnalyzeCall(a, c) ==
  IF c.name \notin DOMAIN a.procs THEN Report(a, "undeclared procedure", c.name)
  ELSE CheckArity(FoldLeft(AnalyzeArgument, a, c.args), c)

\* A block gets a copy of the map, and what it does to the copy is lost; the
\* conditions of commands are not looked at.
RECURSIVE AnalyzeCommand(_, _)
AnalyzeCommands(a, cs) == FoldLeft(AnalyzeCommand, a, cs)
BadAnalyzeBlock(a, cs) == a
AnalyzeBlock(a, cs) == [a EXCEPT !.errors = AnalyzeCommands(a, cs).errors]
AnalyzeCommand(a, c) ==
  CASE c.cmd = "assign" -> AnalyzeAssignment(a, c)
    [] c.cmd = "read"   -> AnalyzeRead(a, c)
    [] c.cmd = "write"  -> AnalyzeValue(a, c.value)
    [] c.cmd = "call"   -> AnalyzeCall(a, c)
    [] c.cmd \in {"while", "repeat", "inlined"} -> AnalyzeBlock(a, c.commands)
    [] c.cmd = "if" ->
         IF c.else = <<>> THEN AnalyzeBlock(a, c.commands)
         ELSE AnalyzeBlock(AnalyzeBlock(a, c.commands), c.else[1])

-----------------------------------------------------------------------------
Declare(a, x, is_arg) ==
  SetInitialized(IF x \in DOMAIN a.vars THEN Report(a, "duplicate", x) ELSE a,
                 x, is_arg)

AnalyzeContext(a, decls, cs) ==
  AnalyzeCommands(FoldLeft(LAMBDA b, d : Declare(b, d.name, FALSE), a, decls), cs)

\* A procedure becomes known behind its own body, so it cannot call itself; one
\* of the same name is replaced.
Register(a, p) == [a EXCEPT !.procs = (p.name :> Len(p.args)) @@ @]
AnalyzeProcedure(a, p) ==
  LET entered == FoldLeft(LAMBDA b, x : Declare(b, x.name, TRUE),
                          [a EXCEPT !.vars = <<>>], p.args)
  IN Register(AnalyzeContext(entered, p.decls, p.commands), p)

BadAnalyzeMain(a, program) ==
  AnalyzeContext(a, program.decls, program.commands)
AnalyzeMain(a, program) ==
  AnalyzeContext([a EXCEPT !.vars = <<>>], program.decls, program.commands)
=============================================================================
