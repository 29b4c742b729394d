--------------------------- MODULE MCOperatorLoops --------------------------
(***************************************************************************)
(* The operator loops on all pairs of small operands.                      *)
(***************************************************************************)
EXTENDS OperatorLoops, TLC

CONSTANTS
  Operators,        \* the loops to run, a subset of * / %
  Lefts, Rights     \* the operands to run them on

\* TLC evaluates the result of @@ once, and what a .cfg names at every use.
AllFragments == Fragments(Operators) @@ <<>>
MCFragments  == AllFragments
MCTapes     == [op \in Operators |-> { <<>> }]

\* C and D hold the operands, and every other register holds 3.
MCJunk == { [x \in Registers |-> IF x = "C" THEN c ELSE IF x = "D" THEN d ELSE 3]
              : c \in Lefts, d \in Rights }

\* Remainder by zero leaves the program: see the run wrong_code.
MCLoopInit == LoopInit /\ (prog = "%" => b # 0)
MCLoopSpec == /\ MCLoopInit
              /\ [][LoopNext]_loop
              /\ WF_loop(Step /\ UNCHANGED <<a, b>>)
=============================================================================
