--------------------------- MODULE OperatorLoops ----------------------------
(***************************************************************************)
(* The loops that the emitter writes for *, / and % of two variables       *)
(* (emit_assignment), run on the machine by themselves: from the line      *)
(* behind the fetching of the operands to the line of the assignment,      *)
(* where a HALT stands here.  The operands are whatever C and D hold at    *)
(* the start; all other registers hold what earlier code left in them.     *)
(***************************************************************************)
EXTENDS Machine, CodeGen

\* A <- C op D, from line 0 on.
Fragment(op) ==
  CASE op = "*" -> <<RST("F")>> \o MultiplyLoop(1) \o <<HALT>>
    [] op = "/" -> <<RST("F"), RST("E")>> \o DivideLoop(2) \o <<HALT>>
    [] op = "%" -> ModuloLoop(0) \o <<HALT>>

Fragments(ops) == [op \in ops |-> Fragment(op)]

ASSUME FragmentsAssumption ==
  /\ DOMAIN Programs \subseteq {"*", "/", "%"}
  /\ \A op \in DOMAIN Programs : Programs[op] = Fragment(op)

VARIABLES a, b    \* the operands: what C and D held at the start

loop == <<machine, a, b>>

LoopInit == Init /\ a = r["C"] /\ b = r["D"]
LoopNext == Next /\ UNCHANGED <<a, b>>
LoopSpec == LoopInit /\ [][LoopNext]_loop /\ WF_loop(Step /\ UNCHANGED <<a, b>>)

-----------------------------------------------------------------------------
(* The loop for an operator ends with the result of that operator in A, by  *)
(* whatever path: division by 0 yields 0.                                   *)
Result == CASE prog = "*" -> a * b
            [] prog = "/" -> IF b = 0 THEN 0 ELSE a \div b
            [] prog = "%" -> a % b

ComputesResult == Halted => r["A"] = Result

(* Every jump of a loop stays inside it or goes to the line behind it, the  *)
(* first line of the assignment (the jump targets are hand-counted offsets).*)
StaysInside == ~Error

(* The loop of each operator comes to its end.                              *)
Terminates == <>Halted

-----------------------------------------------------------------------------
\* The number of binary digits of n.
Digits(n) == LET digits[m \in Nat] == IF m = 0 THEN 0 ELSE 1 + digits[m \div 2]
             IN digits[n]

(* The loops take time in the number of digits of the operand they halve or *)
(* double past, not in its size (emitter.hpp, multiply_logarithmically).    *)
LogarithmicTime ==
  t <= CASE prog = "*" -> 4 + 21 * Digits(b)
         [] prog = "/" -> 38 + 35 * Digits(a)
         [] prog = "%" -> 20 + 31 * Digits(a)

-----------------------------------------------------------------------------
\* What D is rounded down to an even number.
Even(n) == 2 * (n \div 2)

(* Where the multiplication stands at each line: F + C * D = a * b whenever *)
(* a turn begins, and within a turn what the lines up to there have done.   *)
MultiplyInvariant ==
  prog = "*" =>
    LET A == r["A"]  C == r["C"]  D == r["D"]  F == r["F"]
        turn == F + C * D = a * b
        odd  == turn /\ D % 2 = 1
    IN /\ lr \in 0 .. 15
       /\ lr = 0  => C = a /\ D = b
       /\ lr = 1  => turn
       /\ lr = 2  => turn /\ A = D
       /\ lr = 3  => turn /\ A = D
       /\ lr = 4  => turn /\ A = D \div 2
       /\ lr = 5  => turn /\ A = Even(D)
       /\ lr = 6  => turn /\ A = Even(D) + 1
       /\ lr = 7  => turn /\ A = Monus(Even(D) + 1, D)
       /\ lr = 8  => odd
       /\ lr = 9  => odd /\ A = F
       /\ lr = 10 => odd /\ A = F + C
       /\ lr = 11 => F + C * Even(D) = a * b
       /\ lr = 12 => F + C * (D \div 2) = a * b
       /\ lr = 13 => turn
       /\ lr = 14 => F = a * b
       /\ lr = 15 => A = a * b

-----------------------------------------------------------------------------
(* The other two loops scale the divisor by powers of two, up and down      *)
(* again.  Where the division stands at each line: F * b + C = a, D is the  *)
(* divisor scaled by E, and C, once it was passed, is less than twice that. *)
DivideInvariant ==
  prog = "/" =>
    LET A == r["A"]  C == r["C"]  D == r["D"]  E == r["E"]  F == r["F"]
        fresh    == C = a /\ D = b /\ F = 0
        scaled   == b # 0 /\ PowerOfTwo(E) /\ D = E * b
        doubling == C = a /\ F = 0 /\ scaled
        rest     == F * b + C = a
        halving  == rest /\ scaled /\ C < 2 * D
        taking   == halving /\ D <= C
        taken    == scaled /\ F * b + C = a + D /\ D <= C /\ C < 2 * D
        halved   == rest /\ b # 0 /\ IF E = 0 THEN C < b ELSE scaled /\ C < 2 * D
    IN /\ lr \in 0 .. 25
       /\ lr = 0        => C = a /\ D = b
       /\ lr = 1        => fresh
       /\ lr \in 2 .. 4 => fresh /\ E = 0
       /\ lr = 3        => A = D
       /\ lr = 4        => b # 0
       /\ lr \in {5, 6, 7, 8, 10} => doubling
       /\ lr = 6        => A = D
       /\ lr = 7        => A = Monus(D, C)
       /\ lr = 9        => C = a /\ F = 0 /\ b # 0 /\ PowerOfTwo(E) /\ 2 * D = E * b
       /\ lr \in 11 .. 13 => halving
       /\ lr = 12       => A = D
       /\ lr = 13       => A = Monus(D, C)
       /\ lr \in 14 .. 16 => taking
       /\ lr = 15       => A = F
       /\ lr = 16       => A = F + E
       /\ lr \in 17 .. 19 => taken
       /\ lr = 18       => A = C
       /\ lr = 19       => A = C - D
       /\ lr = 20       => rest /\ scaled /\ C < D
       /\ lr = 21       => rest /\ b # 0 /\ PowerOfTwo(E) /\ C < E * b /\ D = (E * b) \div 2
       /\ lr \in 22 .. 23 => halved
       /\ lr = 23       => A = E
       /\ lr = 24       => F = IF b = 0 THEN 0 ELSE a \div b
       /\ lr = 25       => A = IF b = 0 THEN 0 ELSE a \div b

\* d is y scaled by a power of two; c is x less a multiple of y.
Scaled(d, y)  == \E p \in 1 .. d : PowerOfTwo(p) /\ d = p * y
Rest(c, x, y) == \E k \in 0 .. x : k * y + c = x

(* Where the remainder stands at each line, for a divisor other than 0: C   *)
(* is a less a multiple of b, D is b scaled by a power of two, and from     *)
(* line 20 on D has passed C.                                               *)
RemainderInvariant ==
  prog = "%" /\ b # 0 =>
    LET A == r["A"]  C == r["C"]  D == r["D"]  E == r["E"]
        doubling == C = a /\ b <= C /\ E = b /\ Scaled(D, b)
        passed   == Rest(C, a, b) /\ E = b /\ Scaled(D, b) /\ C < D
        halving  == Rest(C, a, b) /\ E = b /\ Scaled(D, b) /\ C < 2 * D
    IN /\ lr \in 0 .. 24
       /\ lr \in 0 .. 2 => C = a /\ D = b
       /\ lr = 1        => A = D
       /\ lr = 2        => A = Monus(D, C)
       /\ lr \in 3 .. 7 => C = a /\ D = b /\ b <= C
       /\ lr = 5        => A = D
       /\ lr = 7        => A = D
       /\ lr \in 8 .. 12 => doubling
       /\ lr = 9        => A = D
       /\ lr = 10       => A = Monus(D, C)
       /\ lr = 13       => passed /\ b <= C
       /\ lr \in 14 .. 19 => halving
       /\ lr = 15       => A = D
       /\ lr = 16       => A = Monus(D, C)
       /\ lr \in 17 .. 19 => D <= C
       /\ lr = 18       => A = C
       /\ lr = 19       => A = C - D
       /\ lr \in 20 .. 22 => passed
       /\ lr = 21       => A = E
       /\ lr = 22       => A = Monus(b, C)
       /\ lr = 23       => C = a % b
       /\ lr = 24       => A = a % b

(* What the three loops of emit_assignment keep, line by line: why they end *)
(* with the right result, by whatever path.                                 *)
LoopInvariant == MultiplyInvariant /\ DivideInvariant /\ RemainderInvariant

-----------------------------------------------------------------------------
(* What has been spent at each line, for every digit that the operand which *)
(* is halved has lost, or the one which is doubled has gained.  A turn of   *)
(* the multiplication takes at most 21 for a digit of D.                    *)
MultiplyTime ==
  prog = "*" =>
    LET D     == r["D"]
        Spent == <<0, 1, 2, 3, 4, 5, 6, 11, 12, 13, 18, 19, 20, 0, 3, 4>>
    IN /\ lr \in 3 .. 12 => D # 0
       /\ t + 21 * Digits(D) <= Spent[lr + 1] + 21 * Digits(b)

\* The division takes 10 for a digit that E gains and at most 25 for each it
\* loses, and E gains no more than one digit beyond those of a.
DivideTime ==
  prog = "/" =>
    LET C == r["C"]  D == r["D"]  E == r["E"]
        Up   == <<5, 6, 11, 12, 3, 4>>
        Down == <<37, 38, 43, 44, 45, 50, 51, 52, 57, 58, 59, 35, 36, 37, 38>>
    IN /\ lr \in 0 .. 4   => t = lr
       /\ lr \in 5 .. 10  => /\ t + 10 <= Up[lr - 4] + 10 * Digits(E)
                             /\ Digits(E) <= Digits(a) + 1
       /\ lr = 8          => D <= C
       /\ lr \in 11 .. 25 => t + 25 * Digits(E) <= Down[lr - 10] + 35 * Digits(a)

\* The loop for % does the same with D, which starts with the digits of b.
RemainderTime ==
  prog = "%" =>
    LET C == r["C"]  D == r["D"]
        Before == <<0, 1, 6, 7, 8, 9, 10, 11>>
        Up     == <<12, 13, 18, 19, 11>>
        Down   == <<50, 29, 30, 35, 36, 37, 42, 43, 44, 49>>
    IN /\ lr \in 0 .. 7   => t = Before[lr + 1]
       /\ lr \in 8 .. 12  => /\ t + 9 * Digits(b) <= Up[lr - 7] + 9 * Digits(D)
                             /\ Digits(D) <= Digits(a) + 1
       /\ lr = 11         => D <= C
       /\ lr \in 13 .. 22 => t + 22 * Digits(D) + 9 * Digits(b) <= Down[lr - 12] + 31 * Digits(a)
       /\ lr \in 23 .. 24 => t <= lr - 4 + 31 * Digits(a)
       /\ b = 0 => /\ lr \in 0 .. 5 \cup {26} /\ r["D"] = 0
                   /\ lr \in {1, 2, 5} => r["A"] = 0
                   /\ lr = 26 => t = 10

(* At every line of a loop the time spent and the digits still to be worked *)
(* off stay within the bound: the bound of LogarithmicTime in its inductive *)
(* form, line by line, for the templates of emit_assignment.                *)
TimeInvariant == MultiplyTime /\ DivideTime /\ RemainderTime
=============================================================================
