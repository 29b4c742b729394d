---------------------------- MODULE WordMachine -----------------------------
(***************************************************************************)
(* run_machine of vm/mw.cc: the machine of Machine with registers and      *)
(* cells of type long long.  An instruction that only moves a value, tests *)
(* it or halves it is the one of Machine; what computes wraps, as the      *)
(* build without sanitizers does, and a register may become negative.      *)
(* READ takes and WRITE gives an unsigned number of the same width.        *)
(***************************************************************************)
EXTENDS Machine, Integers

CONSTANT Half    \* long long holds -Half .. Half - 1; Half is 2^63

ASSUME HalfAssumption == Half \in Nat /\ Half >= 2

Word == -Half .. Half - 1

\* The long long that holds n modulo 2 * Half.
Wrap(n) == ((n + Half) % (2 * Half)) - Half

-----------------------------------------------------------------------------
WordAdd == Compute("ADD", 5, "A", Wrap(r["A"] + r[Line.reg]))
BadWordSub == Compute("SUB", 5, "A", Wrap(r["A"] - r[Line.reg]))
WordSub == Compute("SUB", 5, "A", Wrap(Monus(r["A"], r[Line.reg])))
WordInc == Compute("INC", 1, Line.reg, Wrap(r[Line.reg] + 1))
WordDec == Compute("DEC", 1, Line.reg,
                   IF r[Line.reg] > 0 THEN r[Line.reg] - 1 ELSE r[Line.reg])
WordShl == Compute("SHL", 1, Line.reg, Wrap(2 * r[Line.reg]))

WordCompute == \/ Load \/ Store \/ Get \/ Put \/ Rst \/ Shr \/ Strk
               \/ WordAdd \/ WordSub \/ WordInc \/ WordDec \/ WordShl
               \/ Jump \/ Jpos \/ Jzero \/ Jumpr

WordRead ==
  /\ Fetch("READ")
  /\ nread < Len(tape)
  /\ r' = [r EXCEPT !["A"] = Wrap(tape[nread + 1])]
  /\ nread' = nread + 1
  /\ io' = io + 100
  /\ Advance(0)
  /\ UNCHANGED <<prog, lines, pam, tape, out>>

WordWrite ==
  /\ Fetch("WRITE")
  /\ out' = Append(out, r["A"] % (2 * Half))
  /\ io' = io + 100
  /\ Advance(0)
  /\ UNCHANGED <<prog, lines, r, pam, tape, nread>>

WordStep == WordRead \/ WordWrite \/ WordCompute
WordNext == WordStep \/ Stop
WordSpec == Init /\ [][WordNext]_machine /\ WF_machine(WordStep)
=============================================================================
