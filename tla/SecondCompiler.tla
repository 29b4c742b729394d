--------------------------- MODULE SecondCompiler ---------------------------
(***************************************************************************)
(* The second compiler, as the lines of main() that are commented out put  *)
(* it together (compiler.cpp), and its code on the machine: LirEmitter,    *)
(* the flattened instructions through CfgBuilder, allocate_registers, and  *)
(* emit_assembler.                                                         *)
(***************************************************************************)
EXTENDS Allocation, LirEmitter

CONSTANTS
  Cases,    \* a sequence of [program, tapes], as in Compiled
  Script,   \* and what each program reads and writes on each tape
  Junk      \* the register files that rand() may leave behind

VARIABLES
  emitted,  \* the instructions of all procedures, in the order of the map
  prog, lines, r, pam, lr, t, io, tape, nread, out

execution == <<prog, lines, r, pam, lr, t, io, tape, nread, out>>
second    == <<working, emitted, execution>>

VM == INSTANCE Machine WITH Programs <- <<>>, Tapes <- <<>>

MachineInit ==
  /\ lines = <<>>
  /\ r \in Junk
  /\ pam = <<>>
  /\ lr = 0 /\ t = 0 /\ io = 0
  /\ nread = 0 /\ out = <<>>

Objects == LET cases == Cases
           IN [n \in DOMAIN cases |-> Lower(cases[n].program)] \o <<>>

\* An assertion fails before there are instructions to look at.
SecondInit ==
  /\ prog \in DOMAIN Cases
  /\ tape \in Cases[prog].tapes
  /\ LET object == Objects[prog]
     IN /\ \E order \in Orders(object) :
             /\ emitted = InOrder(object, order)
             /\ instructions = Flattened(object, order)
        /\ AllocationInit(object.next, object.memory,
                          IF object.aborted THEN "crashed" ELSE "none")
  /\ BuilderStart
  /\ MachineInit

Assemble ==
  /\ pass = "coloured"
  /\ lines = <<>>
  /\ lines' = Assembled(emitted, assigned_registers)
  /\ UNCHANGED <<working, emitted, prog, r, pam, lr, t, io, tape, nread, out>>

SecondStep ==
  \/ AllocationStep /\ UNCHANGED <<emitted, execution>>
  \/ Assemble
  \/ VM!Step /\ UNCHANGED <<working, emitted>>

SecondEnded == pass = "crashed" \/ (lines # <<>> /\ (VM!Halted \/ VM!Error))
SecondNext == SecondStep \/ (SecondEnded /\ UNCHANGED second)

\* Each stage is a loop that nothing suspends.
SecondSpec == SecondInit /\ [][SecondNext]_second /\ WF_second(SecondStep)

-----------------------------------------------------------------------------
Promise == INSTANCE SourceRun WITH done <- VM!Halted

(* What the second compiler makes of a program reads and writes what the    *)
(* program does, whatever registers were assigned: no value that is still   *)
(* to be used is overwritten by another one in its register.                *)
ImplementsSource == Promise!Spec
=============================================================================
