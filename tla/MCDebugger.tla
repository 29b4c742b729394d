----------------------------- MODULE MCDebugger -----------------------------
(***************************************************************************)
(* A user at the debugger, or nobody at run_machine of vm/mw.cc: small     *)
(* programs of every instruction, and compiled ones for * / and %, whose   *)
(* loops double their operands.                                            *)
(***************************************************************************)
EXTENDS Debugger, Emitter

CONSTANTS
  Written,    \* the small programs that are run
  Operators,  \* the operators of the compiled ones
  Numbers    \* for an operator, what the program reads

Small == [
  moves |-> << READ, PUT("B"), INC("B"), SHL("B"), ADD("B"), WRITE, RST("C"),
               STORE("C"), SHR("A"), DEC("A"), JZERO(14), LOAD("C"), SUB("B"),
               JPOS(14), HALT >>,
  outputs |-> << READ, WRITE, DEC("A"), JPOS(1), STRK("D"), GET("D"), WRITE, HALT >>,
  asks |-> << READ, JZERO(0), JUMPR("A") >>,
  open |-> << READ, JUMP(2), WRITE >> ]

SmallTapes == [ moves |-> { <<0>>, <<1>>, <<3>> }, outputs |-> { <<3>> },
                asks |-> { <<0, 7>> }, open |-> { <<4>> } ]

\* Every line but those behind a WRITE.
NotBehindWrite(p) == { n \in 0 .. Len(p) - 1 : n = 0 \/ p[n].op # "WRITE" }
BehindWrite(p)    == (0 .. Len(p) - 1) \ NotBehindWrite(p)
SmallBreakable == [ moves |-> {0, 5, 7, 13}, outputs |-> {1, 3, 5},
                    asks |-> {0, 2}, open |-> {0, 2} ]

-----------------------------------------------------------------------------
x == Id("x")
y == Id("y")
Source(op) ==
  Program(<<>>, <<Scalar("x"), Scalar("y")>>,
          << ReadInto(x), ReadInto(y), Assign(x, Binary(x, op, y)), WriteOut(x) >>)
Arithmetic == [ op \in Operators |-> Compile(Source(op)).lines ]

\* The largest value the loop for an operator makes of a op b: * doubles a for
\* every digit of b, / and % double b until it exceeds a.
Digits(n) == CHOOSE k \in 0 .. n : 2^k > n /\ (k = 0 \/ 2^(k - 1) <= n)
Doublings(op, a, b) ==
  IF op = "*" THEN Digits(b)
  ELSE IF b = 0 THEN 0 ELSE CHOOSE k \in 0 .. a : b * 2^k > a /\ (k = 0 \/ b * 2^(k - 1) <= a)
Largest(op, a, b) == (IF op = "*" THEN a ELSE b) * 2^Doublings(op, a, b)

Some == {0, 1, 2, 5, 7, 8, 11, 15}
Pairs(op)     == { ab \in Some \X Some : op = "%" => ab[2] # 0 }
MCFitting     == [ op \in Operators |->
                     { ab \in Pairs(op) : Largest(op, ab[1], ab[2]) < Half } ]
MCTooLarge    == [ op \in Operators |->
                     { ab \in Pairs(op) : Largest(op, ab[1], ab[2]) >= Half } ]

-----------------------------------------------------------------------------
MCPrograms  == [ p \in Written |-> Small[p] ] @@ Arithmetic
MCTapes     == [ p \in Written |-> SmallTapes[p] ] @@ Numbers
MCBreakable == [ p \in Written |-> SmallBreakable[p] ]
               @@ [ op \in Operators |-> NotBehindWrite(Arithmetic[op]) \cap {31} ]
MCBehindWrite == [ p \in Written |-> BehindWrite(Small[p]) ]
                 @@ [ op \in Operators |-> {} ]
MCJunk      == { [reg \in Registers |-> 5] }


\* handler "batch": nobody presses keys, run_machine of vm/mw.cc runs it.
Batch == handler = "batch" /\ WordNext /\ UNCHANGED ui

MCInit == \/ DebuggerInit
          \/ /\ Init
             /\ handler = "batch"
             /\ breakpoints = {} /\ expects_input = FALSE /\ code = "RUNNING"
             /\ output = <<>> /\ selected_line = 0 /\ registers = r
MCNext == DebuggerNext \/ Batch
MCSpec == /\ MCInit
          /\ [][MCNext]_debugger
          /\ WF_debugger(ContinueLoop \/ ContinueEnd)
=============================================================================
