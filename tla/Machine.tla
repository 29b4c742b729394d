------------------------------ MODULE Machine -------------------------------
(***************************************************************************)
(* The register machine that runs a compiled program: run_machine of       *)
(* vm-cln/mw-cln.cc, whose registers and cells are unbounded naturals.     *)
(*                                                                         *)
(* A state of the module is the state of run_machine at the head of its    *)
(* while loop; one action is one pass through the loop, and there is one   *)
(* action per alternative of the std::visit.  The program being run is a   *)
(* parameter of run_machine: lines is one of Programs, and prog says which.*)
(*                                                                         *)
(* READ takes the next number of the tape.  When the tape is used up the   *)
(* interpreter waits for the user, so READ has no step; ReadHandlerDeque,  *)
(* used by the tests, has no defined behaviour there.                      *)
(***************************************************************************)
EXTENDS Instructions, Sequences

CONSTANTS
  Programs,   \* a function to the instruction sequences that can be run
  Tapes,      \* for every program, the set of input sequences it may be fed
  Junk        \* the register files that rand() may leave behind

ASSUME ProgramsAssumption ==
  \A p \in DOMAIN Programs :
     Programs[p] \in Seq(Instruction) /\ Programs[p] # <<>>

ASSUME TapesAssumption ==
  \A p \in DOMAIN Programs : Tapes[p] \subseteq Seq(Nat)

ASSUME JunkAssumption == Junk \subseteq [Registers -> Nat]

VARIABLES
  prog,   \* which program is run, an element of DOMAIN Programs
  lines,  \* the program
  r,      \* the eight registers
  pam,    \* the cells written or read so far (std::map: absent means 0)
  lr,     \* the index of the instruction to execute, counted from 0
  t, io,  \* the costs of computing and of input/output
  tape,   \* the input, and how much of it was read
  nread,
  out     \* the output so far

machine == <<prog, lines, r, pam, lr, t, io, tape, nread, out>>

-----------------------------------------------------------------------------
Line == lines[lr + 1]

\* The program left its instructions: run_machine returns error = true.
Error  == ~(lr \in 0 .. Len(lines) - 1)
Halted == ~Error /\ Line.op = "HALT"

\* The value of a cell, as pam[a] of a std::map yields it.
Cell(a) == IF a \in DOMAIN pam THEN pam[a] ELSE 0

\* The map pam with cell a set to v.
WithCell(a, v) == [c \in DOMAIN pam \cup {a} |-> IF c = a THEN v ELSE pam[c]]

Init ==
  /\ prog \in DOMAIN Programs
  /\ lines = Programs[prog]
  /\ tape \in Tapes[prog]
  /\ r \in Junk
  /\ pam = <<>>
  /\ lr = 0
  /\ t = 0
  /\ io = 0
  /\ nread = 0
  /\ out = <<>>

-----------------------------------------------------------------------------
\* The instruction at lr is an op, and lr and t move on by one and by cost.
Fetch(op)     == ~Error /\ Line.op = op
Advance(cost) == lr' = lr + 1 /\ t' = t + cost

Read ==
  /\ Fetch("READ")
  /\ nread < Len(tape)
  /\ r' = [r EXCEPT !["A"] = tape[nread + 1]]
  /\ nread' = nread + 1
  /\ io' = io + 100
  /\ Advance(0)
  /\ UNCHANGED <<prog, lines, pam, tape, out>>

Write ==
  /\ Fetch("WRITE")
  /\ out' = Append(out, r["A"])
  /\ io' = io + 100
  /\ Advance(0)
  /\ UNCHANGED <<prog, lines, r, pam, tape, nread>>

\* Reading an absent cell through operator[] creates it.
Load ==
  /\ Fetch("LOAD")
  /\ LET a == r[Line.reg] IN
       /\ r' = [r EXCEPT !["A"] = Cell(a)]
       /\ pam' = WithCell(a, Cell(a))
  /\ Advance(50)
  /\ UNCHANGED <<prog, lines, io, tape, nread, out>>

Store ==
  /\ Fetch("STORE")
  /\ pam' = WithCell(r[Line.reg], r["A"])
  /\ Advance(50)
  /\ UNCHANGED <<prog, lines, r, io, tape, nread, out>>

-----------------------------------------------------------------------------
\* An instruction that only sets register x to v and goes on.
Compute(op, cost, x, v) ==
  /\ Fetch(op)
  /\ r' = [r EXCEPT ![x] = v]
  /\ Advance(cost)
  /\ UNCHANGED <<prog, lines, pam, io, tape, nread, out>>

\* Subtraction that stops at 0.
BadMonus(a, b) == a - b
Monus(a, b) == IF a >= b THEN a - b ELSE 0

Add  == Compute("ADD",  5, "A", r["A"] + r[Line.reg])
Sub  == Compute("SUB",  5, "A", Monus(r["A"], r[Line.reg]))
Get  == Compute("GET",  1, "A", r[Line.reg])
Put  == Compute("PUT",  1, Line.reg, r["A"])
Rst  == Compute("RST",  1, Line.reg, 0)
Inc  == Compute("INC",  1, Line.reg, r[Line.reg] + 1)
Dec  == Compute("DEC",  1, Line.reg, Monus(r[Line.reg], 1))
Shl  == Compute("SHL",  1, Line.reg, 2 * r[Line.reg])
BadShr == Compute("SHR", 1, Line.reg, Monus(r[Line.reg], 1))
Shr  == Compute("SHR",  1, Line.reg, r[Line.reg] \div 2)
Strk == Compute("STRK", 1, Line.reg, lr)

-----------------------------------------------------------------------------
\* An instruction that only goes to line n.
Goto(op, n) ==
  /\ Fetch(op)
  /\ lr' = n
  /\ t' = t + 1
  /\ UNCHANGED <<prog, lines, r, pam, io, tape, nread, out>>

Jump  == Goto("JUMP",  Line.line)
Jpos  == Goto("JPOS",  IF r["A"] > 0 THEN Line.line ELSE lr + 1)
Jzero == Goto("JZERO", IF r["A"] = 0 THEN Line.line ELSE lr + 1)
Jumpr == Goto("JUMPR", r[Line.reg])

-----------------------------------------------------------------------------
\* The loop ends at a HALT or when lr leaves the program.
Step == \/ Read \/ Write \/ Load \/ Store
        \/ Add \/ Sub \/ Get \/ Put \/ Rst \/ Inc \/ Dec \/ Shl \/ Shr
        \/ Strk \/ Jump \/ Jpos \/ Jzero \/ Jumpr

Stop == (Halted \/ Error) /\ UNCHANGED machine

Next == Step \/ Stop

\* run_machine is a loop that nothing suspends: it keeps stepping.
Spec == Init /\ [][Next]_machine /\ WF_machine(Step)

-----------------------------------------------------------------------------
\* Registers, cells, costs and I/O are naturals, and the program stays what it
\* was: what the fetch of lines[lr] and the indexing of r rely on.
TypeOK ==
  /\ prog \in DOMAIN Programs
  /\ lines = Programs[prog]
  /\ r \in [Registers -> Nat]
  /\ DOMAIN pam \subseteq Nat
  /\ pam \in [DOMAIN pam -> Nat]
  /\ lr \in Nat
  /\ t \in Nat
  /\ io \in Nat
  /\ tape \in Seq(Nat)
  /\ nread \in 0 .. Len(tape)
  /\ out \in Seq(Nat)
=============================================================================
