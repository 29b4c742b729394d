----------------------------- MODULE SourceRun ------------------------------
(***************************************************************************)
(* What a user may rely on when a source program is compiled and run: it   *)
(* reads and writes the numbers the program says, one at a time and in     *)
(* that order, then stops.  Nothing is said about how.                     *)
(***************************************************************************)
EXTENDS Naturals, Sequences

CONSTANT Script   \* program -> input -> the sequence of <<"in", v>> and
                  \* <<"out", v>> that the program performs on that input

VARIABLES prog, tape, nread, out, done

vars == <<prog, tape, nread, out, done>>

\* How many numbers are left to be read or written, and the next of them.
Left  == Len(Script[prog][tape]) - nread - Len(out)
Event == Script[prog][tape][nread + Len(out) + 1]

Init ==
  /\ prog \in DOMAIN Script
  /\ tape \in DOMAIN Script[prog]
  /\ nread = 0
  /\ out = <<>>
  /\ done = FALSE

\* The program may stop with its last number or some time later.
MayStop == done' \in {FALSE, Left = 1}

Read ==
  /\ ~done
  /\ Left > 0
  /\ Event[1] = "in"
  /\ nread' = nread + 1
  /\ MayStop
  /\ UNCHANGED <<prog, tape, out>>

Write ==
  /\ ~done
  /\ Left > 0
  /\ Event[1] = "out"
  /\ out' = Append(out, Event[2])
  /\ MayStop
  /\ UNCHANGED <<prog, tape, nread>>

Finish ==
  /\ ~done
  /\ Left = 0
  /\ done' = TRUE
  /\ UNCHANGED <<prog, tape, nread, out>>

Next == Read \/ Write \/ Finish

Spec == Init /\ [][Next]_vars /\ WF_vars(Next)
=============================================================================
