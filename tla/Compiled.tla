------------------------------ MODULE Compiled ------------------------------
(***************************************************************************)
(* The emitter and the machine together: source programs are compiled and  *)
(* the code is run, next to what the source means.  This is what main() of *)
(* compiler.cpp produces with the optimiser left out, and what             *)
(* emitter_test.cpp does: lexer and parser, Emitter::emit, run_machine.    *)
(***************************************************************************)
EXTENDS Machine, Emitter, Imp

CONSTANT Cases    \* a sequence of records [program, tapes]: a source
                  \* program and the inputs to run it on

\* f itself.  TLC evaluates a function constructor at each use, but the
\* result of @@ or of \o once; and an argument of an operator once.
Table(f)   == f @@ <<>>
Listing(f) == f \o <<>>

Mapped(f(_), s) == Listing([k \in DOMAIN s |-> f(s[k])])

Objects   == LET object(case) == Compile(case.program) IN Mapped(object, Cases)
Code      == LET code(object) == object.lines IN Mapped(code, Objects)
CaseTapes == LET tapes(case) == case.tapes IN Mapped(tapes, Cases)

ASSUME CodeAssumption == Programs = Code /\ Tapes = CaseTapes

\* Only programs the emitter accepts are run.
ASSUME AcceptedAssumption == \A i \in DOMAIN Cases : Objects[i].errors = {}

-----------------------------------------------------------------------------
Meaning ==
  LET meaning(case) == Table([tp \in case.tapes |-> MeaningOf(case.program, tp)])
  IN Mapped(meaning, Cases)

Script ==
  LET script(meaning) == Table([tp \in DOMAIN meaning |-> meaning[tp].events])
  IN Mapped(script, Meaning)

\* What the running program was compiled to, and how it ends by the source.
Object == Objects[prog]
Ending == Meaning[prog][tape]

\* The address of cell <<owner, index>> of the source.
Address(cell) == Object.vars[cell[1]].address + cell[2]

-----------------------------------------------------------------------------
(* The compiled program reads and writes exactly what its source does, in   *)
(* the same order, and then halts: emit() is a correct compiler for Cases.  *)
Promise == INSTANCE SourceRun WITH done <- Halted

ImplementsSource == Promise!Spec

(* When the machine halts, the memory the emitter assigned to every variable*)
(* holds the value the source gives it: no template stores to a wrong cell, *)
(* whatever mixture of direct, indexed and by-reference variables it meets. *)
FinalMemory ==
  Halted => \A cell \in DOMAIN Ending.store :
              Cell(Address(cell)) = Ending.store[cell]

-----------------------------------------------------------------------------
\* What a compiled procedure occupies: its lines, from the prologue, which
\* saves the return address, over the body to the jump back; and its cells.
Occupied(object, p) ==
  LET proc == object.procs[p]
      returns == { i \in DOMAIN object.lines :
                     i > proc.entrypoint /\ object.lines[i].op = "JUMPR" }
  IN [ entry |-> proc.entrypoint,
       body  |-> proc.entrypoint + Len(Prologue(proc.memory_loc).lines),
       last  |-> Min(returns) - 1,
       return_cell |-> proc.memory_loc,
       arg_cells   |-> { proc.memory_loc + i : i \in DOMAIN proc.args } ]

ProceduresOf(object) == { Occupied(object, p) : p \in DOMAIN object.procs }
Procedures == Mapped(ProceduresOf, Objects)

\* The cells that belong to declared variables: not to return addresses and
\* not to arguments, which hold addresses.
CellsOf(vars) ==
  UNION { vars[v].address .. vars[v].address + vars[v].size - 1
          : v \in { w \in DOMAIN vars : ~vars[w].is_pointer } }
VariableCells == LET cells(object) == CellsOf(object.vars)
                 IN Mapped(cells, Objects)

(* A return address, once saved in the prologue of emit_procedure, is not   *)
(* overwritten by the body, by a store through an argument or by a nested   *)
(* call: it changes only when the prologue of its own procedure runs.       *)
ReturnCellsPreserved ==
  [][ \A p \in Procedures[prog] :
        Cell(p.return_cell)' # Cell(p.return_cell)
          => lr \in p.entry .. p.body - 1 ]_machine

(* A procedure returns to the line behind a jump to its own entry: STRK,    *)
(* the two INCs of the prologue and the saved cell agree about where that   *)
(* is, also when procedures call procedures.                                *)
ReturnsBehindCall ==
  [][ \A p \in Procedures[prog] :
        lr = p.last
          => /\ lr' \in DOMAIN lines
             /\ lines[lr'] = JUMP(p.entry) ]_machine

(* While a body runs, each of its argument cells holds the address of a     *)
(* declared variable, and never of another argument or of a return address: *)
(* arguments passed on are passed as what they point at.                    *)
ArgumentsAreVariables ==
  \A p \in Procedures[prog] :
    lr \in p.body .. p.last
      => \A a \in p.arg_cells : Cell(a) \in VariableCells[prog]

(* Every store of a running program goes to a cell the emitter assigned.    *)
StoresAreAssigned ==
  [][ Fetch("STORE") => r[Line.reg] < Object.sp ]_machine
=============================================================================
