------------------------- MODULE OperatorLoopsProofs ------------------------
(***************************************************************************)
(* The loops of *, / and % compute the product, the quotient and the       *)
(* remainder, for all operands (a divisor other than 0 for %), and take    *)
(* time in the number of binary digits of an operand.                      *)
(***************************************************************************)
EXTENDS OperatorLoops, MachineProofs, Induction, SequenceTheorems

LEMMA Concatenation ==
  ASSUME NEW S, NEW u \in S, NEW s \in Seq(S), NEW v \in S
  PROVE  LET f == <<u>> \o s \o <<v>>
         IN /\ Len(f) = Len(s) + 2
            /\ f[1] = u
            /\ \A i \in 1 .. Len(s) : f[i + 1] = s[i]
            /\ f[Len(s) + 2] = v
OBVIOUS

LEMMA MultiplyLines ==
  ASSUME "*" \in DOMAIN Programs
  PROVE  LET m == Programs["*"]
         IN /\ Len(m) = 16
            /\ m[1] = RST("F")
            /\ m[2] = GET("D")
            /\ m[3] = JZERO(14)
            /\ m[4] = SHR("A")
            /\ m[5] = SHL("A")
            /\ m[6] = INC("A")
            /\ m[7] = SUB("D")
            /\ m[8] = JPOS(11)
            /\ m[9] = GET("F")
            /\ m[10] = ADD("C")
            /\ m[11] = PUT("F")
            /\ m[12] = SHL("C")
            /\ m[13] = SHR("D")
            /\ m[14] = JUMP(1)
            /\ m[15] = GET("F")
            /\ m[16] = HALT
<1> DEFINE s == MultiplyLoop(1)
           All == {RST("F"), HALT} \cup {s[i] : i \in 1 .. 14}
<1>1. Programs["*"] = <<RST("F")>> \o s \o <<HALT>>
  BY FragmentsAssumption DEF Fragment
<1>2. /\ Len(s) = 14
      /\ s[1] = GET("D")
      /\ s[2] = JZERO(14)
      /\ s[3] = SHR("A")
      /\ s[4] = SHL("A")
      /\ s[5] = INC("A")
      /\ s[6] = SUB("D")
      /\ s[7] = JPOS(11)
      /\ s[8] = GET("F")
      /\ s[9] = ADD("C")
      /\ s[10] = PUT("F")
      /\ s[11] = SHL("C")
      /\ s[12] = SHR("D")
      /\ s[13] = JUMP(1)
      /\ s[14] = GET("F")
  BY DEF MultiplyLoop
<1>3. s \in Seq(All)
  BY DEF MultiplyLoop
<1> HIDE DEF s, All
<1>4. LET f == <<RST("F")>> \o s \o <<HALT>>
      IN /\ Len(f) = Len(s) + 2
         /\ f[1] = RST("F")
         /\ \A i \in 1 .. Len(s) : f[i + 1] = s[i]
         /\ f[Len(s) + 2] = HALT
  <2>1. RST("F") \in All /\ HALT \in All
    BY DEF All
  <2> QED
    BY <1>3, <2>1, Concatenation
<1> QED
  BY <1>1, <1>2, <1>4

-----------------------------------------------------------------------------
\* Taking C for the odd part of D, and moving a factor 2 from D to C.
LEMMA OddPart ==
  ASSUME NEW c \in Nat, NEW d \in Nat, d % 2 = 1
  PROVE  c + c * Even(d) = c * d
<1>1. Even(d) = d - 1
  BY DEF Even
<1>2. c * (d - 1) = c * d - c
  OBVIOUS
<1>3. c * d \in Nat /\ c + (c * d - c) = c * d
  OBVIOUS
<1> QED
  BY <1>1, <1>2, <1>3

LEMMA Doubling ==
  ASSUME NEW c \in Nat, NEW d \in Nat
  PROVE  c * Even(d) = (2 * c) * (d \div 2)
<1> DEFINE q == d \div 2
<1>1. q \in Nat
  OBVIOUS
<1> HIDE DEF q
<1>2. c * (2 * q) = (2 * c) * q
  BY <1>1
<1> QED
  BY <1>2 DEF Even, q

LEMMA Parity ==
  ASSUME NEW d \in Nat
  PROVE  /\ Monus(Even(d) + 1, d) > 0 => Even(d) = d
         /\ ~(Monus(Even(d) + 1, d) > 0) => d % 2 = 1
BY DEF Monus, Even
-----------------------------------------------------------------------------
(* The proof that a step keeps the invariant: what the line at lr does, and *)
(* why the clause for the next line follows.                                *)

\* A step at a line of the fragment: the instruction there is executed.
LEMMA MultiplyStep ==
  ASSUME prog = "*", TypeOK, Next, lr \in 0 .. 15
  PROVE  /\ UNCHANGED prog
         /\ lr = 0  => lr' = 1 /\ r' = [r EXCEPT !["F"] = 0]
         /\ lr = 1  => lr' = 2 /\ r' = [r EXCEPT !["A"] = r["D"]]
         /\ lr = 2  => r' = r /\ lr' = (IF r["A"] = 0 THEN 14 ELSE 3)
         /\ lr = 3  => lr' = 4 /\ r' = [r EXCEPT !["A"] = r["A"] \div 2]
         /\ lr = 4  => lr' = 5 /\ r' = [r EXCEPT !["A"] = 2 * r["A"]]
         /\ lr = 5  => lr' = 6 /\ r' = [r EXCEPT !["A"] = r["A"] + 1]
         /\ lr = 6  => lr' = 7 /\ r' = [r EXCEPT !["A"] = Monus(r["A"], r["D"])]
         /\ lr = 7  => r' = r /\ lr' = (IF r["A"] > 0 THEN 11 ELSE 8)
         /\ lr = 8  => lr' = 9 /\ r' = [r EXCEPT !["A"] = r["F"]]
         /\ lr = 9  => lr' = 10 /\ r' = [r EXCEPT !["A"] = r["A"] + r["C"]]
         /\ lr = 10 => lr' = 11 /\ r' = [r EXCEPT !["F"] = r["A"]]
         /\ lr = 11 => lr' = 12 /\ r' = [r EXCEPT !["C"] = 2 * r["C"]]
         /\ lr = 12 => lr' = 13 /\ r' = [r EXCEPT !["D"] = r["D"] \div 2]
         /\ lr = 13 => r' = r /\ lr' = 1
         /\ lr = 14 => lr' = 15 /\ r' = [r EXCEPT !["A"] = r["F"]]
         /\ lr = 15 => UNCHANGED machine
<1>1. "*" \in DOMAIN Programs /\ lines = Programs["*"]
  BY DEF TypeOK
<1>2. ~Error
  <2>1. Len(Programs["*"]) = 16
    BY <1>1, MultiplyLines
  <2> QED
    BY <1>1, <2>1 DEF Error
<1>3. prog' = prog
  BY ProgramConstant
<1>4. CASE lr \in 0 .. 7
  BY <1>1, <1>2, <1>3, <1>4, MultiplyLines, Effects
  DEF Line, RST, GET, JZERO, SHR, SHL, INC, SUB, JPOS, Sets, Goes
<1>5. CASE lr \in 8 .. 15
  BY <1>1, <1>2, <1>3, <1>5, MultiplyLines, Effects
  DEF Line, GET, ADD, PUT, SHL, SHR, JUMP, HALT, Sets, Goes
<1> QED
  BY <1>4, <1>5
-----------------------------------------------------------------------------
\* The operands stay what they are: naturals.
LoopTypeOK == TypeOK /\ a \in Nat /\ b \in Nat

\* Every register that the loop uses holds a natural.
LEMMA RegisterType ==
  ASSUME LoopTypeOK
  PROVE  \A x \in {"A", "C", "D", "F"} : r[x] \in Nat /\ x \in DOMAIN r
BY DEF LoopTypeOK, TypeOK, Registers

\* The invariant is inductive: one case for each line that lr can be at.
LEMMA MultiplyInductive ==
  ASSUME LoopTypeOK, MultiplyInvariant, LoopNext
  PROVE  MultiplyInvariant'
<1> SUFFICES ASSUME prog = "*"
             PROVE  MultiplyInvariant'
  BY ProgramConstant DEF LoopNext, MultiplyInvariant
<1>1. /\ lr \in 0 .. 15
      /\ a' = a /\ b' = b
      /\ TypeOK /\ Next
      /\ a \in Nat /\ b \in Nat
  BY DEF LoopNext, MultiplyInvariant, LoopTypeOK
<1>2. /\ r["A"] \in Nat /\ r["C"] \in Nat /\ r["D"] \in Nat /\ r["F"] \in Nat
      /\ {"A", "C", "D", "F"} \subseteq DOMAIN r
  BY RegisterType
<1>3. /\ a * b \in Nat /\ r["C"] * r["D"] \in Nat
      /\ Even(r["D"]) \in Nat /\ r["C"] * Even(r["D"]) \in Nat
  BY <1>1, <1>2 DEF Even
<1>4. CASE lr = 0
  BY <1>1, <1>2, <1>3, <1>4, MultiplyStep DEF MultiplyInvariant
<1>5. CASE lr = 1
  BY <1>1, <1>2, <1>3, <1>5, MultiplyStep DEF MultiplyInvariant
<1>6. CASE lr = 2
  <2>1. r["D"] = 0 => r["C"] * r["D"] = 0
    BY <1>2
  <2>2. /\ r["F"] + r["C"] * r["D"] = a * b
        /\ r["A"] = r["D"]
        /\ r' = r /\ prog' = prog
        /\ lr' = IF r["A"] = 0 THEN 14 ELSE 3
    BY <1>1, <1>6, MultiplyStep DEF MultiplyInvariant
  <2>3. CASE r["A"] = 0
    <3>1. r["F"] = a * b /\ lr' = 14
      BY <1>2, <2>1, <2>2, <2>3
    <3> QED
      BY <1>1, <2>2, <3>1 DEF MultiplyInvariant
  <2>4. CASE r["A"] # 0
    BY <1>1, <2>2, <2>4 DEF MultiplyInvariant
  <2> QED
    BY <2>3, <2>4
<1>7. CASE lr = 3
  BY <1>1, <1>2, <1>3, <1>7, MultiplyStep DEF MultiplyInvariant
<1>8. CASE lr = 4
  BY <1>1, <1>2, <1>3, <1>8, MultiplyStep DEF MultiplyInvariant, Even
<1>9. CASE lr = 5
  BY <1>1, <1>2, <1>3, <1>9, MultiplyStep DEF MultiplyInvariant
<1>10. CASE lr = 6
  BY <1>1, <1>2, <1>3, <1>10, MultiplyStep DEF MultiplyInvariant
<1>11. CASE lr = 7
  <2>1. /\ Monus(Even(r["D"]) + 1, r["D"]) > 0 => Even(r["D"]) = r["D"]
        /\ ~(Monus(Even(r["D"]) + 1, r["D"]) > 0) => r["D"] % 2 = 1
    BY <1>2, Parity
  <2>2. /\ r["F"] + r["C"] * r["D"] = a * b
        /\ r["A"] = Monus(Even(r["D"]) + 1, r["D"])
        /\ r' = r /\ prog' = prog
        /\ lr' = IF r["A"] > 0 THEN 11 ELSE 8
    BY <1>1, <1>11, MultiplyStep DEF MultiplyInvariant
  <2>3. CASE r["A"] > 0
    <3>1. Even(r["D"]) = r["D"]
      BY <2>1, <2>2, <2>3
    <3>2. r["F"] + r["C"] * Even(r["D"]) = a * b
      BY <2>2, <3>1, Zenon
    <3> QED
      BY <1>1, <2>2, <2>3, <3>2 DEF MultiplyInvariant
  <2>4. CASE ~(r["A"] > 0)
    <3>1. r["D"] % 2 = 1 /\ lr' = 8
      BY <2>1, <2>2, <2>4
    <3> QED
      BY <1>1, <2>2, <3>1 DEF MultiplyInvariant
  <2> QED
    BY <2>3, <2>4
<1>12. CASE lr = 8
  BY <1>1, <1>2, <1>3, <1>12, MultiplyStep DEF MultiplyInvariant
<1>13. CASE lr = 9
  BY <1>1, <1>2, <1>3, <1>13, MultiplyStep DEF MultiplyInvariant
<1>14. CASE lr = 10
  <2>1. r["D"] % 2 = 1
    BY <1>1, <1>14 DEF MultiplyInvariant
  <2>2. r["C"] + r["C"] * Even(r["D"]) = r["C"] * r["D"]
    BY <1>2, <2>1, OddPart
  <2> QED
    BY <1>1, <1>2, <1>3, <1>14, <2>2, MultiplyStep DEF MultiplyInvariant
<1>15. CASE lr = 11
  <2>1. r["C"] * Even(r["D"]) = (2 * r["C"]) * (r["D"] \div 2)
    BY <1>2, Doubling
  <2> QED
    BY <1>1, <1>2, <1>3, <1>15, <2>1, MultiplyStep DEF MultiplyInvariant
<1>16. CASE lr = 12
  BY <1>1, <1>2, <1>3, <1>16, MultiplyStep DEF MultiplyInvariant
<1>17. CASE lr = 13
  BY <1>1, <1>2, <1>3, <1>17, MultiplyStep DEF MultiplyInvariant
<1>18. CASE lr = 14
  BY <1>1, <1>2, <1>3, <1>18, MultiplyStep DEF MultiplyInvariant
<1>19. CASE lr = 15
  BY <1>1, <1>2, <1>3, <1>19, MultiplyStep DEF MultiplyInvariant, machine
<1> QED
  BY <1>1, <1>4, <1>5, <1>6, <1>7, <1>8, <1>9, <1>10, <1>11, <1>12,
     <1>13, <1>14, <1>15, <1>16, <1>17, <1>18, <1>19
-----------------------------------------------------------------------------
LEMMA LoopStart == LoopInit => LoopTypeOK /\ MultiplyInvariant
<1> SUFFICES ASSUME LoopInit
             PROVE  LoopTypeOK /\ MultiplyInvariant
  OBVIOUS
<1>1. TypeOK
  BY InitType DEF LoopInit
<1>2. a = r["C"] /\ b = r["D"] /\ lr = 0
  BY DEF LoopInit, Init
<1>3. a \in Nat /\ b \in Nat
  BY <1>1, <1>2 DEF TypeOK, Registers
<1> QED
  BY <1>1, <1>2, <1>3 DEF LoopTypeOK, MultiplyInvariant

LEMMA LoopStepType ==
  ASSUME LoopTypeOK, LoopNext
  PROVE  LoopTypeOK'
<1>1. TypeOK'
  <2>1. CASE Step
    BY <2>1, StepType DEF LoopTypeOK
  <2>2. CASE UNCHANGED machine
    BY <2>2 DEF LoopTypeOK, TypeOK, machine
  <2> QED
    BY <2>1, <2>2 DEF LoopNext, Next, Stop
<1> QED
  BY <1>1 DEF LoopTypeOK, LoopNext

(* At every line of the multiplication the registers stand in the relation  *)
(* that MultiplyInvariant states, for all operands: each turn of the loop   *)
(* that emit_assignment writes for * takes the same amount from C * D that  *)
(* it adds to F.                                                            *)
THEOREM MultiplyInvariantHolds == LoopSpec => [](LoopTypeOK /\ MultiplyInvariant)
<1>1. LoopTypeOK /\ MultiplyInvariant /\ [LoopNext]_loop
        => (LoopTypeOK /\ MultiplyInvariant)'
  <2> SUFFICES ASSUME LoopTypeOK, MultiplyInvariant, [LoopNext]_loop
               PROVE  (LoopTypeOK /\ MultiplyInvariant)'
    OBVIOUS
  <2>1. CASE LoopNext
    BY <2>1, LoopStepType, MultiplyInductive
  <2>2. CASE UNCHANGED loop
    BY <2>2 DEF loop, machine, LoopTypeOK, TypeOK, MultiplyInvariant
  <2> QED
    BY <2>1, <2>2
<1> QED
  BY LoopStart, <1>1, PTL DEF LoopSpec

\* At the last line the accumulator holds the product, and no line of the
\* multiplication leads out of it.
LEMMA MultiplyResult ==
  ASSUME LoopTypeOK, MultiplyInvariant, prog = "*"
  PROVE  ComputesResult /\ StaysInside
<1>1. "*" \in DOMAIN Programs /\ lines = Programs["*"]
  BY DEF LoopTypeOK, TypeOK
<1>2. Len(lines) = 16
  BY <1>1, MultiplyLines
<1>3. StaysInside
  BY <1>2 DEF MultiplyInvariant, StaysInside, Error
<1>4. ASSUME Halted
      PROVE  lr = 15
  <2>1. lines[lr + 1].op = "HALT" /\ lr \in 0 .. 15
    BY <1>4 DEF Halted, Line, MultiplyInvariant
  <2>2. \A i \in 0 .. 14 : lines[i + 1].op # "HALT"
    BY <1>1, <1>2, MultiplyLines
       DEF RST, GET, JZERO, SHR, SHL, INC, SUB, JPOS, ADD, PUT, JUMP
  <2> QED
    BY <2>1, <2>2
<1> QED
  BY <1>3, <1>4 DEF MultiplyInvariant, ComputesResult, Result

(* The multiplication ends, if it ends, with the product of its operands in *)
(* the accumulator, and never jumps out of its lines: for all operands, all *)
(* contents of the other registers.                                         *)
THEOREM MultiplicationComputes ==
  LoopSpec => [](prog = "*" => ComputesResult /\ StaysInside)
<1>1. LoopTypeOK /\ MultiplyInvariant
        => (prog = "*" => ComputesResult /\ StaysInside)
  BY MultiplyResult
<1> QED
  BY <1>1, MultiplyInvariantHolds, PTL
-----------------------------------------------------------------------------
(* The division.                                                            *)

\* Doubling and halving keep powers of two what they are.
LEMMA PowerDoubled ==
  ASSUME NEW n \in Nat, PowerOfTwo(n)
  PROVE  PowerOfTwo(2 * n)
<1> SUFFICES ASSUME NEW d \in 1 .. 2 * n, NEW q \in 1 .. 2 * n, d * q = 2 * n, d % 2 = 1
             PROVE  d = 1
  BY DEF PowerOfTwo
<1> DEFINE c == d \div 2
           h == n - c * q
<1>1. c \in Nat /\ d = 2 * c + 1
  OBVIOUS
<1>2. c * q \in Nat
  BY <1>1
<1>3. d * q = 2 * (c * q) + q
  <2>1. (2 * c + 1) * q = 2 * (c * q) + q
    BY <1>1
  <2> QED
    BY <1>1, <2>1
<1>4. h \in Int /\ q = 2 * h
  BY <1>2, <1>3
<1>5. h \in 1 .. n
  BY <1>4
<1>6. d * h = n
  <2>1. d * (2 * h) = 2 * (d * h)
    BY <1>4
  <2>2. d * h \in Int
    BY <1>4
  <2> QED
    BY <1>4, <2>1, <2>2
<1>7. d <= n
  <2>1. d * h >= d * 1
    BY <1>5
  <2> QED
    BY <1>6, <2>1
<1> QED
  BY <1>5, <1>6, <1>7 DEF PowerOfTwo

LEMMA PowerHalved ==
  ASSUME NEW n \in Nat, PowerOfTwo(n), n # 1
  PROVE  n = 2 * (n \div 2) /\ n \div 2 \in Nat \ {0} /\ PowerOfTwo(n \div 2)
<1>1. n \in Nat \ {0} /\ \A d, q \in 1 .. n : d * q = n => d = 1 \/ d % 2 = 0
  BY DEF PowerOfTwo
<1>2. /\ n = 2 * (n \div 2) /\ n \div 2 \in Nat \ {0}
      /\ \A d, q \in 1 .. n \div 2 : d * q = n \div 2 => d = 1 \/ d % 2 = 0
  BY <1>1, HalfOfPower
<1> QED
  BY <1>2 DEF PowerOfTwo

-----------------------------------------------------------------------------
\* The template between what the emitter writes before and behind it.
LEMMA Joining ==
  ASSUME NEW S, NEW u \in Seq(S), NEW s \in Seq(S), NEW v \in S
  PROVE  LET f == u \o s \o <<v>>
         IN /\ Len(f) = Len(u) + Len(s) + 1
            /\ \A i \in 1 .. Len(u) : f[i] = u[i]
            /\ \A i \in 1 .. Len(s) : f[Len(u) + i] = s[i]
            /\ f[Len(u) + Len(s) + 1] = v
OBVIOUS

\* The lines of the fragment, read off the template.
LEMMA DivideLines ==
  ASSUME "/" \in DOMAIN Programs
  PROVE  LET m == Programs["/"]
         IN /\ Len(m) = 26
            /\ m[1] = RST("F")
            /\ m[2] = RST("E")
            /\ m[3] = GET("D")
            /\ m[4] = JZERO(24)
            /\ m[5] = INC("E")
            /\ m[6] = GET("D")
            /\ m[7] = SUB("C")
            /\ m[8] = JPOS(11)
            /\ m[9] = SHL("E")
            /\ m[10] = SHL("D")
            /\ m[11] = JUMP(5)
            /\ m[12] = GET("D")
            /\ m[13] = SUB("C")
            /\ m[14] = JPOS(20)
            /\ m[15] = GET("F")
            /\ m[16] = ADD("E")
            /\ m[17] = PUT("F")
            /\ m[18] = GET("C")
            /\ m[19] = SUB("D")
            /\ m[20] = PUT("C")
            /\ m[21] = SHR("D")
            /\ m[22] = SHR("E")
            /\ m[23] = GET("E")
            /\ m[24] = JPOS(11)
            /\ m[25] = GET("F")
            /\ m[26] = HALT
<1> DEFINE start == <<RST("F"), RST("E")>>
           s     == DivideLoop(2)
           All   == {start[1], start[2], HALT} \cup {s[i] : i \in 1 .. 23}
<1>1. Programs["/"] = start \o s \o <<HALT>>
  BY FragmentsAssumption DEF Fragment
<1>2. /\ Len(s) = 23
      /\ s[1] = GET("D")
      /\ s[2] = JZERO(24)
      /\ s[3] = INC("E")
      /\ s[4] = GET("D")
      /\ s[5] = SUB("C")
      /\ s[6] = JPOS(11)
      /\ s[7] = SHL("E")
      /\ s[8] = SHL("D")
      /\ s[9] = JUMP(5)
      /\ s[10] = GET("D")
      /\ s[11] = SUB("C")
      /\ s[12] = JPOS(20)
      /\ s[13] = GET("F")
      /\ s[14] = ADD("E")
      /\ s[15] = PUT("F")
      /\ s[16] = GET("C")
      /\ s[17] = SUB("D")
      /\ s[18] = PUT("C")
      /\ s[19] = SHR("D")
      /\ s[20] = SHR("E")
      /\ s[21] = GET("E")
      /\ s[22] = JPOS(11)
      /\ s[23] = GET("F")
  BY DEF DivideLoop
<1>3. s \in Seq(All) /\ start \in Seq(All)
  BY DEF DivideLoop
<1>4. Len(start) = 2 /\ start[1] = RST("F") /\ start[2] = RST("E") /\ HALT \in All
  OBVIOUS
<1> HIDE DEF start, s, All
<1>5. LET f == start \o s \o <<HALT>>
      IN /\ Len(f) = Len(start) + Len(s) + 1
         /\ \A i \in 1 .. Len(start) : f[i] = start[i]
         /\ \A i \in 1 .. Len(s) : f[Len(start) + i] = s[i]
         /\ f[Len(start) + Len(s) + 1] = HALT
  <2>1. HALT \in All
    BY <1>4
  <2> QED
    BY <1>3, <2>1, Joining
<1>6. LET f == Programs["/"]
      IN /\ Len(f) = Len(start) + Len(s) + 1
         /\ \A i \in 1 .. Len(start) : f[i] = start[i]
         /\ \A i \in 1 .. Len(s) : f[Len(start) + i] = s[i]
         /\ f[Len(start) + Len(s) + 1] = HALT
  BY <1>1, <1>5, Zenon
<1> QED
  BY <1>2, <1>4, <1>6

\* A step at a line of the fragment: the instruction there is executed.
LEMMA DivideStep ==
  ASSUME prog = "/", TypeOK, Next, lr \in 0 .. 25
  PROVE  /\ UNCHANGED prog
         /\ ~Error
         /\ lr = 0 => Sets("F", 0)
         /\ lr = 1 => Sets("E", 0)
         /\ lr = 2 => Sets("A", r["D"])
         /\ lr = 3 => Goes(IF r["A"] = 0 THEN 24 ELSE lr + 1)
         /\ lr = 4 => Sets("E", r["E"] + 1)
         /\ lr = 5 => Sets("A", r["D"])
         /\ lr = 6 => Sets("A", Monus(r["A"], r["C"]))
         /\ lr = 7 => Goes(IF r["A"] > 0 THEN 11 ELSE lr + 1)
         /\ lr = 8 => Sets("E", 2 * r["E"])
         /\ lr = 9 => Sets("D", 2 * r["D"])
         /\ lr = 10 => Goes(5)
         /\ lr = 11 => Sets("A", r["D"])
         /\ lr = 12 => Sets("A", Monus(r["A"], r["C"]))
         /\ lr = 13 => Goes(IF r["A"] > 0 THEN 20 ELSE lr + 1)
         /\ lr = 14 => Sets("A", r["F"])
         /\ lr = 15 => Sets("A", r["A"] + r["E"])
         /\ lr = 16 => Sets("F", r["A"])
         /\ lr = 17 => Sets("A", r["C"])
         /\ lr = 18 => Sets("A", Monus(r["A"], r["D"]))
         /\ lr = 19 => Sets("C", r["A"])
         /\ lr = 20 => Sets("D", r["D"] \div 2)
         /\ lr = 21 => Sets("E", r["E"] \div 2)
         /\ lr = 22 => Sets("A", r["E"])
         /\ lr = 23 => Goes(IF r["A"] > 0 THEN 11 ELSE lr + 1)
         /\ lr = 24 => Sets("A", r["F"])
         /\ lr = 25 => UNCHANGED machine
<1>1. lines = Programs["/"] /\ "/" \in DOMAIN Programs
  BY DEF TypeOK
<1>2. ~Error
  <2>1. Len(Programs["/"]) = 26
    BY <1>1, DivideLines
  <2> QED
    BY <1>1, <2>1 DEF Error
<1>3. prog' = prog
  BY ProgramConstant
<1>4. CASE lr \in 0 .. 6
  BY <1>1, <1>2, <1>3, <1>4, DivideLines, Effects
  DEF Line, GET, INC, JZERO, RST, SUB
<1>5. CASE lr \in 7 .. 13
  BY <1>1, <1>2, <1>3, <1>5, DivideLines, Effects
  DEF Line, GET, JPOS, JUMP, SHL, SUB
<1>6. CASE lr \in 14 .. 20
  BY <1>1, <1>2, <1>3, <1>6, DivideLines, Effects
  DEF Line, ADD, GET, PUT, SHR, SUB
<1>7. CASE lr \in 21 .. 25
  BY <1>1, <1>2, <1>3, <1>7, DivideLines, Effects
  DEF Line, GET, HALT, JPOS, SHR
<1> QED
  BY <1>4, <1>5, <1>6, <1>7
-----------------------------------------------------------------------------
\* Every register that the loop uses holds a natural.
LEMMA DivideRegisters ==
  ASSUME LoopTypeOK
  PROVE  \A x \in {"A", "C", "D", "E", "F"} : r[x] \in Nat /\ x \in DOMAIN r
BY DEF LoopTypeOK, TypeOK, Registers

\* The invariant is inductive: one case for each line that lr can be at.
LEMMA DivideInductive ==
  ASSUME LoopTypeOK, DivideInvariant, LoopNext
  PROVE  DivideInvariant'
<1> SUFFICES ASSUME prog = "/"
             PROVE  DivideInvariant'
  BY ProgramConstant DEF LoopNext, DivideInvariant
<1>1. /\ lr \in 0 .. 25 /\ prog' = prog
      /\ a' = a /\ b' = b
      /\ TypeOK /\ Next
      /\ a \in Nat /\ b \in Nat
  BY ProgramConstant DEF LoopNext, DivideInvariant, LoopTypeOK
<1>2. /\ r["A"] \in Nat /\ r["C"] \in Nat /\ r["D"] \in Nat /\ r["E"] \in Nat /\ r["F"] \in Nat
      /\ {"A", "C", "D", "E", "F"} \subseteq DOMAIN r
  BY DivideRegisters
<1>3. r["F"] * b \in Nat /\ r["E"] * b \in Nat
  BY <1>1, <1>2
<1>4. CASE lr \in 0 .. 2
  BY <1>1, <1>2, <1>4, DivideStep DEF DivideInvariant, Sets
<1>5. CASE lr = 3
  BY <1>1, <1>2, <1>5, DivideStep DEF DivideInvariant, Goes
<1>6. CASE lr = 4
  <2>1. PowerOfTwo(1) /\ 1 * b = b
    BY <1>1 DEF PowerOfTwo
  <2>2. /\ r["C"] = a /\ r["D"] = b /\ r["F"] = 0 /\ r["E"] = 0 /\ b # 0
        /\ lr' = 5 /\ r' = [r EXCEPT !["E"] = r["E"] + 1]
    BY <1>1, <1>6, DivideStep DEF DivideInvariant, Sets
  <2>3. r'["C"] = a /\ r'["D"] = b /\ r'["F"] = 0 /\ r'["E"] = 1
    BY <1>2, <2>2
  <2> QED
    BY <1>1, <2>1, <2>2, <2>3 DEF DivideInvariant
<1>7. CASE lr \in 5 .. 6
  BY <1>1, <1>2, <1>7, DivideStep DEF DivideInvariant, Sets
<1>8. CASE lr = 7
  <2>1. Monus(r["D"], r["C"]) > 0 => r["C"] < 2 * r["D"]
    BY <1>2 DEF Monus
  <2>2. 0 * b + a = a
    BY <1>1
  <2> QED
    BY <1>1, <1>2, <1>8, <2>1, <2>2, DivideStep DEF DivideInvariant, Goes
<1>9. CASE lr = 8
  <2>1. PowerOfTwo(r["E"]) /\ r["D"] = r["E"] * b /\ b # 0 /\ r["C"] = a /\ r["F"] = 0
    BY <1>1, <1>9 DEF DivideInvariant
  <2>2. PowerOfTwo(2 * r["E"]) /\ (2 * r["E"]) * b = 2 * (r["E"] * b)
    BY <1>1, <1>2, <2>1, PowerDoubled
  <2>3. lr' = 9 /\ r' = [r EXCEPT !["E"] = 2 * r["E"]]
    BY <1>1, <1>9, DivideStep DEF Sets
  <2>4. /\ r'["E"] = 2 * r["E"] /\ r'["D"] = r["D"] /\ r'["C"] = r["C"] /\ r'["F"] = r["F"]
    BY <1>2, <2>3
  <2> QED
    BY <1>1, <2>1, <2>2, <2>3, <2>4 DEF DivideInvariant
<1>10. CASE lr = 9
  BY <1>1, <1>2, <1>10, DivideStep DEF DivideInvariant, Sets
<1>11. CASE lr = 10
  BY <1>1, <1>2, <1>11, DivideStep DEF DivideInvariant, Goes
<1>12. CASE lr \in 11 .. 12
  BY <1>1, <1>2, <1>12, DivideStep DEF DivideInvariant, Sets
<1>13. CASE lr = 13
  <2>1. /\ Monus(r["D"], r["C"]) > 0 => r["C"] < r["D"]
        /\ ~(Monus(r["D"], r["C"]) > 0) => r["D"] <= r["C"]
    BY <1>2 DEF Monus
  <2> QED
    BY <1>1, <1>2, <1>13, <2>1, DivideStep DEF DivideInvariant, Goes
<1>14. CASE lr \in 14 .. 15
  BY <1>1, <1>2, <1>14, DivideStep DEF DivideInvariant, Sets
<1>15. CASE lr = 16
  <2>1. (r["F"] + r["E"]) * b = r["F"] * b + r["E"] * b
    BY <1>1, <1>2
  <2>2. /\ b # 0 /\ PowerOfTwo(r["E"]) /\ r["D"] = r["E"] * b /\ r["F"] * b + r["C"] = a
        /\ r["C"] < 2 * r["D"] /\ r["D"] <= r["C"] /\ r["A"] = r["F"] + r["E"]
    BY <1>1, <1>15 DEF DivideInvariant
  <2>3. lr' = 17 /\ r' = [r EXCEPT !["F"] = r["A"]]
    BY <1>1, <1>15, DivideStep DEF Sets
  <2>4. r'["F"] = r["A"] /\ r'["E"] = r["E"] /\ r'["D"] = r["D"] /\ r'["C"] = r["C"]
    BY <1>2, <2>3
  <2>5. r'["F"] * b + r["C"] = a + r["D"]
    BY <1>1, <1>2, <1>3, <2>1, <2>2, <2>4
  <2> QED
    BY <1>1, <2>2, <2>3, <2>4, <2>5 DEF DivideInvariant
<1>16. CASE lr \in 17 .. 18
  BY <1>1, <1>2, <1>16, DivideStep DEF DivideInvariant, Sets, Monus
<1>17. CASE lr = 19
  BY <1>1, <1>2, <1>3, <1>17, DivideStep DEF DivideInvariant, Sets
<1>18. CASE lr = 20
  BY <1>1, <1>2, <1>3, <1>18, DivideStep DEF DivideInvariant, Sets
<1>19. CASE lr = 21
  <2> DEFINE m == r["E"] \div 2
  <2>1. /\ r["F"] * b + r["C"] = a /\ b # 0 /\ PowerOfTwo(r["E"])
        /\ r["C"] < r["E"] * b /\ r["D"] = (r["E"] * b) \div 2
    BY <1>1, <1>19 DEF DivideInvariant
  <2>2. lr' = 22 /\ r' = [r EXCEPT !["E"] = m]
    BY <1>1, <1>19, DivideStep DEF Sets
  <2>3. r'["F"] = r["F"] /\ r'["E"] = m /\ r'["D"] = r["D"] /\ r'["C"] = r["C"]
    BY <1>2, <2>2
  <2>4. CASE r["E"] = 1
    <3>1. m = 0 /\ r["C"] < b
      BY <1>1, <2>1, <2>4
    <3> QED
      BY <1>1, <2>1, <2>2, <2>3, <3>1 DEF DivideInvariant
  <2>5. CASE r["E"] # 1
    <3>1. r["E"] = 2 * m /\ m \in Nat \ {0} /\ PowerOfTwo(m)
      BY <1>2, <2>1, <2>5, PowerHalved
    <3>2. m * b \in Nat /\ r["E"] * b = 2 * (m * b)
      <4>1. (2 * m) * b = 2 * (m * b)
        BY <1>1, <3>1
      <4> QED
        BY <1>1, <3>1, <4>1
    <3>3. r["D"] = m * b /\ r["C"] < 2 * r["D"]
      BY <2>1, <3>2
    <3> QED
      BY <1>1, <2>1, <2>2, <2>3, <3>1, <3>3 DEF DivideInvariant
  <2> QED
    BY <2>4, <2>5
<1>20. CASE lr = 22
  BY <1>1, <1>2, <1>20, DivideStep DEF DivideInvariant, Sets
<1>21. CASE lr = 23
  <2>1. /\ r["F"] * b + r["C"] = a /\ b # 0 /\ r["A"] = r["E"]
        /\ r' = r /\ lr' = (IF r["A"] > 0 THEN 11 ELSE 24)
    BY <1>1, <1>21, DivideStep DEF DivideInvariant, Goes
  <2>2. CASE r["A"] > 0
    BY <1>1, <1>2, <1>21, <2>1, <2>2 DEF DivideInvariant
  <2>3. CASE ~(r["A"] > 0)
    <3>1. r["E"] = 0 /\ r["C"] < b
      BY <1>1, <1>2, <1>21, <2>1, <2>3 DEF DivideInvariant
    <3>2. a \div b = r["F"]
      BY <1>1, <1>2, <2>1, <3>1, Quotient
    <3> QED
      BY <1>1, <2>1, <2>3, <3>2 DEF DivideInvariant
  <2> QED
    BY <2>2, <2>3
<1>22. CASE lr = 24
  BY <1>1, <1>2, <1>22, DivideStep DEF DivideInvariant, Sets
<1>23. CASE lr = 25
  BY <1>1, <1>2, <1>23, DivideStep DEF DivideInvariant, machine
<1> QED
  BY <1>1, <1>4, <1>5, <1>6, <1>7, <1>8, <1>9, <1>10, <1>11, <1>12, <1>13, <1>14, <1>15,
     <1>16, <1>17, <1>18, <1>19, <1>20, <1>21, <1>22, <1>23
-----------------------------------------------------------------------------
(* At every line of the division the registers stand in the relation that   *)
(* DivideInvariant states, for all operands: what F has gained, times the   *)
(* divisor, is what C has lost.                                             *)
THEOREM DivideInvariantHolds == LoopSpec => [](LoopTypeOK /\ DivideInvariant)
<1>1. LoopInit => LoopTypeOK /\ DivideInvariant
  BY LoopStart DEF LoopInit, Init, DivideInvariant
<1>2. LoopTypeOK /\ DivideInvariant /\ [LoopNext]_loop => (LoopTypeOK /\ DivideInvariant)'
  <2> SUFFICES ASSUME LoopTypeOK, DivideInvariant, [LoopNext]_loop
               PROVE  (LoopTypeOK /\ DivideInvariant)'
    OBVIOUS
  <2>1. CASE LoopNext
    BY <2>1, LoopStepType, DivideInductive
  <2>2. CASE UNCHANGED loop
    BY <2>2 DEF loop, machine, LoopTypeOK, TypeOK, DivideInvariant
  <2> QED
    BY <2>1, <2>2
<1> QED
  BY <1>1, <1>2, PTL DEF LoopSpec

\* Only the last line of the division is a HALT.
LEMMA DivideHalts ==
  ASSUME LoopTypeOK, DivideInvariant, prog = "/"
  PROVE  ~Error /\ (Halted => lr = 25)
<1>1. lines = Programs["/"] /\ "/" \in DOMAIN Programs /\ lr \in 0 .. 25
  BY DEF LoopTypeOK, TypeOK, DivideInvariant
<1>2. Len(Programs["/"]) = 26
  BY <1>1, DivideLines
<1>3. \A i \in 0 .. 24 : lines[i + 1].op # "HALT"
  BY <1>1, DivideLines
     DEF RST, GET, JZERO, INC, SUB, JPOS, SHL, JUMP, ADD, PUT, SHR
<1> QED
  BY <1>1, <1>2, <1>3 DEF Error, Halted, Line

(* The division ends, if it ends, with the quotient of its operands in the  *)
(* accumulator, 0 for the divisor 0, and never jumps out of its lines: for  *)
(* all operands, all contents of the other registers.                       *)
THEOREM DivisionComputes == LoopSpec => [](prog = "/" => ComputesResult /\ StaysInside)
<1>1. LoopTypeOK /\ DivideInvariant => (prog = "/" => ComputesResult /\ StaysInside)
  BY DivideHalts DEF DivideInvariant, ComputesResult, Result, StaysInside
<1> QED
  BY <1>1, DivideInvariantHolds, PTL
-----------------------------------------------------------------------------
(* The loop for %.                                                          *)

\* The template and what stands behind it.
LEMMA EndedBy ==
  ASSUME NEW S, NEW s \in Seq(S), NEW v \in S
  PROVE  LET f == s \o <<v>>
         IN /\ Len(f) = Len(s) + 1
            /\ \A i \in 1 .. Len(s) : f[i] = s[i]
            /\ f[Len(s) + 1] = v
OBVIOUS

\* The lines of the fragment, read off the template.
LEMMA RemainderLines ==
  ASSUME "%" \in DOMAIN Programs
  PROVE  LET m == Programs["%"]
         IN /\ Len(m) = 25
            /\ m[1] = GET("D")
            /\ m[2] = SUB("C")
            /\ m[3] = JPOS(23)
            /\ m[4] = RST("F")
            /\ m[5] = GET("D")
            /\ m[6] = JZERO(26)
            /\ m[7] = GET("D")
            /\ m[8] = PUT("E")
            /\ m[9] = GET("D")
            /\ m[10] = SUB("C")
            /\ m[11] = JPOS(13)
            /\ m[12] = SHL("D")
            /\ m[13] = JUMP(8)
            /\ m[14] = SHR("D")
            /\ m[15] = GET("D")
            /\ m[16] = SUB("C")
            /\ m[17] = JPOS(20)
            /\ m[18] = GET("C")
            /\ m[19] = SUB("D")
            /\ m[20] = PUT("C")
            /\ m[21] = GET("E")
            /\ m[22] = SUB("C")
            /\ m[23] = JZERO(13)
            /\ m[24] = GET("C")
            /\ m[25] = HALT
<1> DEFINE s   == ModuloLoop(0)
           All == {HALT} \cup {s[i] : i \in 1 .. 24}
<1>1. Programs["%"] = s \o <<HALT>>
  BY FragmentsAssumption DEF Fragment
<1>2. /\ Len(s) = 24
      /\ s[1] = GET("D")
      /\ s[2] = SUB("C")
      /\ s[3] = JPOS(23)
      /\ s[4] = RST("F")
      /\ s[5] = GET("D")
      /\ s[6] = JZERO(26)
      /\ s[7] = GET("D")
      /\ s[8] = PUT("E")
      /\ s[9] = GET("D")
      /\ s[10] = SUB("C")
      /\ s[11] = JPOS(13)
      /\ s[12] = SHL("D")
      /\ s[13] = JUMP(8)
      /\ s[14] = SHR("D")
      /\ s[15] = GET("D")
      /\ s[16] = SUB("C")
      /\ s[17] = JPOS(20)
      /\ s[18] = GET("C")
      /\ s[19] = SUB("D")
      /\ s[20] = PUT("C")
      /\ s[21] = GET("E")
      /\ s[22] = SUB("C")
      /\ s[23] = JZERO(13)
      /\ s[24] = GET("C")
  BY DEF ModuloLoop
<1>3. s \in Seq(All)
  BY DEF ModuloLoop
<1>4. HALT \in All
  OBVIOUS
<1> HIDE DEF s, All
<1>5. LET f == s \o <<HALT>>
      IN /\ Len(f) = Len(s) + 1
         /\ \A i \in 1 .. Len(s) : f[i] = s[i]
         /\ f[Len(s) + 1] = HALT
  BY <1>3, <1>4, EndedBy
<1>6. LET f == Programs["%"]
      IN /\ Len(f) = Len(s) + 1
         /\ \A i \in 1 .. Len(s) : f[i] = s[i]
         /\ f[Len(s) + 1] = HALT
  BY <1>1, <1>5, Zenon
<1> QED
  BY <1>2, <1>6

\* A step at a line of the fragment: the instruction there is executed.
LEMMA RemainderStep ==
  ASSUME prog = "%", TypeOK, Next, lr \in 0 .. 24
  PROVE  /\ UNCHANGED prog
         /\ ~Error
         /\ lr = 0 => Sets("A", r["D"])
         /\ lr = 1 => Sets("A", Monus(r["A"], r["C"]))
         /\ lr = 2 => Goes(IF r["A"] > 0 THEN 23 ELSE lr + 1)
         /\ lr = 3 => Sets("F", 0)
         /\ lr = 4 => Sets("A", r["D"])
         /\ lr = 5 => Goes(IF r["A"] = 0 THEN 26 ELSE lr + 1)
         /\ lr = 6 => Sets("A", r["D"])
         /\ lr = 7 => Sets("E", r["A"])
         /\ lr = 8 => Sets("A", r["D"])
         /\ lr = 9 => Sets("A", Monus(r["A"], r["C"]))
         /\ lr = 10 => Goes(IF r["A"] > 0 THEN 13 ELSE lr + 1)
         /\ lr = 11 => Sets("D", 2 * r["D"])
         /\ lr = 12 => Goes(8)
         /\ lr = 13 => Sets("D", r["D"] \div 2)
         /\ lr = 14 => Sets("A", r["D"])
         /\ lr = 15 => Sets("A", Monus(r["A"], r["C"]))
         /\ lr = 16 => Goes(IF r["A"] > 0 THEN 20 ELSE lr + 1)
         /\ lr = 17 => Sets("A", r["C"])
         /\ lr = 18 => Sets("A", Monus(r["A"], r["D"]))
         /\ lr = 19 => Sets("C", r["A"])
         /\ lr = 20 => Sets("A", r["E"])
         /\ lr = 21 => Sets("A", Monus(r["A"], r["C"]))
         /\ lr = 22 => Goes(IF r["A"] = 0 THEN 13 ELSE lr + 1)
         /\ lr = 23 => Sets("A", r["C"])
         /\ lr = 24 => UNCHANGED machine
<1>1. lines = Programs["%"] /\ "%" \in DOMAIN Programs
  BY DEF TypeOK
<1>2. ~Error
  <2>1. Len(Programs["%"]) = 25
    BY <1>1, RemainderLines
  <2> QED
    BY <1>1, <2>1 DEF Error
<1>3. prog' = prog
  BY ProgramConstant
<1>4. CASE lr \in 0 .. 6
  BY <1>1, <1>2, <1>3, <1>4, RemainderLines, Effects
  DEF Line, GET, JPOS, JZERO, RST, SUB
<1>5. CASE lr \in 7 .. 13
  BY <1>1, <1>2, <1>3, <1>5, RemainderLines, Effects
  DEF Line, GET, JPOS, JUMP, PUT, SHL, SHR, SUB
<1>6. CASE lr \in 14 .. 20
  BY <1>1, <1>2, <1>3, <1>6, RemainderLines, Effects
  DEF Line, GET, JPOS, PUT, SUB
<1>7. CASE lr \in 21 .. 24
  BY <1>1, <1>2, <1>3, <1>7, RemainderLines, Effects
  DEF Line, GET, HALT, JZERO, SUB
<1> QED
  BY <1>4, <1>5, <1>6, <1>7
-----------------------------------------------------------------------------
\* Doubling what is scaled scales it further.
LEMMA ScaledDoubled ==
  ASSUME NEW d \in Nat, b \in Nat \ {0}, Scaled(d, b)
  PROVE  Scaled(2 * d, b)
<1>1. PICK p \in 1 .. d : PowerOfTwo(p) /\ d = p * b
  BY DEF Scaled
<1>2. PowerOfTwo(2 * p)
  BY <1>1, PowerDoubled
<1>3. (2 * p) * b = 2 * (p * b)
  BY <1>1
<1> QED
  BY <1>1, <1>2, <1>3 DEF Scaled

\* What is scaled and not the divisor itself can be halved.
LEMMA ScaledHalved ==
  ASSUME NEW d \in Nat, b \in Nat \ {0}, Scaled(d, b), b < d
  PROVE  Scaled(d \div 2, b) /\ d = 2 * (d \div 2)
<1>1. PICK p \in 1 .. d : PowerOfTwo(p) /\ d = p * b
  BY DEF Scaled
<1>2. p # 1
  BY <1>1
<1> DEFINE m == p \div 2
<1>3. p = 2 * m /\ m \in Nat \ {0} /\ PowerOfTwo(m)
  BY <1>1, <1>2, PowerHalved
<1> HIDE DEF m
<1>4. m * b \in Nat /\ (2 * m) * b = 2 * (m * b)
  BY <1>3
<1>5. d = 2 * (m * b)
  BY <1>1, <1>3, <1>4
<1>6. d \div 2 = m * b
  BY <1>4, <1>5
<1>7. m <= m * b
  <2>1. m * b >= m * 1
    BY <1>3
  <2> QED
    BY <1>3, <2>1
<1> QED
  BY <1>3, <1>4, <1>5, <1>6, <1>7 DEF Scaled

\* Taking what is scaled off a rest leaves a rest.
LEMMA RestTaken ==
  ASSUME a \in Nat, b \in Nat \ {0}, NEW c \in Nat, NEW d \in Nat,
         Rest(c, a, b), Scaled(d, b), d <= c
  PROVE  Rest(c - d, a, b)
<1>1. PICK p \in 1 .. d : d = p * b
  BY DEF Scaled
<1>2. PICK k \in 0 .. a : k * b + c = a
  BY DEF Rest
<1>3. k * b \in Nat /\ p * b \in Nat /\ (k + p) * b = k * b + p * b
  BY <1>1, <1>2
<1>4. (k + p) * b + (c - d) = a
  BY <1>1, <1>2, <1>3
<1>5. (k + p) * b >= (k + p) * 1
  BY <1>1, <1>2
<1>6. k + p \in 0 .. a
  BY <1>1, <1>2, <1>3, <1>4, <1>5
<1> QED
  BY <1>4, <1>6 DEF Rest

\* A rest below the divisor is the remainder.
LEMMA RestIsRemainder ==
  ASSUME a \in Nat, b \in Nat \ {0}, NEW c \in Nat, Rest(c, a, b), c < b
  PROVE  c = a % b
<1>1. PICK k \in 0 .. a : k * b + c = a
  BY DEF Rest
<1>2. k \in Nat
  BY <1>1
<1> QED
  BY <1>1, <1>2, Quotient

-----------------------------------------------------------------------------
\* The invariant is inductive: one case for each line that lr can be at.
LEMMA RemainderInductive ==
  ASSUME LoopTypeOK, RemainderInvariant, LoopNext
  PROVE  RemainderInvariant'
<1> SUFFICES ASSUME prog = "%", b # 0
             PROVE  RemainderInvariant'
  BY ProgramConstant DEF LoopNext, RemainderInvariant
<1>1. /\ lr \in 0 .. 24 /\ prog' = prog
      /\ a' = a /\ b' = b
      /\ TypeOK /\ Next
      /\ a \in Nat /\ b \in Nat \ {0}
  BY ProgramConstant DEF LoopNext, RemainderInvariant, LoopTypeOK
<1>2. /\ r["A"] \in Nat /\ r["C"] \in Nat /\ r["D"] \in Nat /\ r["E"] \in Nat
      /\ {"A", "C", "D", "E"} \subseteq DOMAIN r
  BY DivideRegisters
<1>3. /\ Monus(r["D"], r["C"]) > 0 => r["C"] < r["D"]
      /\ ~(Monus(r["D"], r["C"]) > 0) => r["D"] <= r["C"]
  BY <1>2 DEF Monus
<1>4. Rest(a, a, b)
  <2>1. 0 * b + a = a /\ 0 \in 0 .. a
    BY <1>1
  <2> QED
    BY <2>1 DEF Rest
<1>5. CASE lr \in 0 .. 1
  BY <1>1, <1>2, <1>5, RemainderStep DEF RemainderInvariant, Sets
<1>6. CASE lr = 2
  <2>1. /\ r["C"] = a /\ r["D"] = b /\ r["A"] = Monus(r["D"], r["C"])
        /\ r' = r /\ lr' = (IF r["A"] > 0 THEN 23 ELSE 3)
    BY <1>1, <1>6, RemainderStep DEF RemainderInvariant, Goes
  <2>2. CASE r["A"] > 0
    <3>1. a = a % b
      BY <1>1, <1>3, <1>4, <2>1, <2>2, RestIsRemainder
    <3> QED
      BY <1>1, <2>1, <2>2, <3>1 DEF RemainderInvariant
  <2>3. CASE ~(r["A"] > 0)
    BY <1>1, <1>3, <2>1, <2>3 DEF RemainderInvariant
  <2> QED
    BY <2>2, <2>3
<1>7. CASE lr \in 3 .. 4
  BY <1>1, <1>2, <1>7, RemainderStep DEF RemainderInvariant, Sets
<1>8. CASE lr = 5
  BY <1>1, <1>2, <1>8, RemainderStep DEF RemainderInvariant, Goes
<1>9. CASE lr = 6
  BY <1>1, <1>2, <1>9, RemainderStep DEF RemainderInvariant, Sets
<1>10. CASE lr = 7
  <2>1. Scaled(b, b)
    <3>1. PowerOfTwo(1) /\ b = 1 * b
      BY <1>1 DEF PowerOfTwo
    <3> QED
      BY <1>1, <3>1 DEF Scaled
  <2>2. /\ r["C"] = a /\ r["D"] = b /\ r["A"] = b /\ b <= r["C"]
        /\ lr' = 8 /\ r' = [r EXCEPT !["E"] = r["A"]]
    BY <1>1, <1>10, RemainderStep DEF RemainderInvariant, Sets
  <2>3. r'["C"] = a /\ r'["D"] = b /\ r'["E"] = b
    BY <1>2, <2>2
  <2> QED
    BY <1>1, <2>1, <2>2, <2>3 DEF RemainderInvariant
<1>11. CASE lr \in 8 .. 9
  BY <1>1, <1>2, <1>11, RemainderStep DEF RemainderInvariant, Sets
<1>12. CASE lr = 10
  <2>1. /\ r["C"] = a /\ b <= r["C"] /\ r["E"] = b /\ Scaled(r["D"], b)
        /\ r["A"] = Monus(r["D"], r["C"])
        /\ r' = r /\ lr' = (IF r["A"] > 0 THEN 13 ELSE 11)
    BY <1>1, <1>12, RemainderStep DEF RemainderInvariant, Goes
  <2>2. CASE r["A"] > 0
    BY <1>1, <1>3, <1>4, <2>1, <2>2 DEF RemainderInvariant
  <2>3. CASE ~(r["A"] > 0)
    BY <1>1, <2>1, <2>3 DEF RemainderInvariant
  <2> QED
    BY <2>2, <2>3
<1>13. CASE lr = 11
  <2>1. /\ r["C"] = a /\ b <= r["C"] /\ r["E"] = b /\ Scaled(r["D"], b)
        /\ lr' = 12 /\ r' = [r EXCEPT !["D"] = 2 * r["D"]]
    BY <1>1, <1>13, RemainderStep DEF RemainderInvariant, Sets
  <2>2. Scaled(2 * r["D"], b)
    BY <1>1, <1>2, <2>1, ScaledDoubled
  <2>3. r'["C"] = a /\ r'["D"] = 2 * r["D"] /\ r'["E"] = b
    BY <1>2, <2>1
  <2> QED
    BY <1>1, <2>1, <2>2, <2>3 DEF RemainderInvariant
<1>14. CASE lr = 12
  BY <1>1, <1>2, <1>14, RemainderStep DEF RemainderInvariant, Goes
<1>15. CASE lr = 13
  <2>1. /\ Rest(r["C"], a, b) /\ r["E"] = b /\ Scaled(r["D"], b) /\ r["C"] < r["D"] /\ b <= r["C"]
        /\ lr' = 14 /\ r' = [r EXCEPT !["D"] = r["D"] \div 2]
    BY <1>1, <1>15, RemainderStep DEF RemainderInvariant, Sets
  <2>2. Scaled(r["D"] \div 2, b) /\ r["D"] = 2 * (r["D"] \div 2)
    BY <1>1, <1>2, <2>1, ScaledHalved
  <2>3. r'["C"] = r["C"] /\ r'["D"] = r["D"] \div 2 /\ r'["E"] = b
    BY <1>2, <2>1
  <2> QED
    BY <1>1, <2>1, <2>2, <2>3 DEF RemainderInvariant
<1>16. CASE lr \in 14 .. 15
  BY <1>1, <1>2, <1>16, RemainderStep DEF RemainderInvariant, Sets
<1>17. CASE lr = 16
  BY <1>1, <1>2, <1>3, <1>17, RemainderStep DEF RemainderInvariant, Goes
<1>18. CASE lr \in 17 .. 18
  BY <1>1, <1>2, <1>18, RemainderStep DEF RemainderInvariant, Sets, Monus
<1>19. CASE lr = 19
  <2>1. /\ Rest(r["C"], a, b) /\ r["E"] = b /\ Scaled(r["D"], b) /\ r["C"] < 2 * r["D"]
        /\ r["D"] <= r["C"] /\ r["A"] = r["C"] - r["D"]
        /\ lr' = 20 /\ r' = [r EXCEPT !["C"] = r["A"]]
    BY <1>1, <1>19, RemainderStep DEF RemainderInvariant, Sets
  <2>2. Rest(r["C"] - r["D"], a, b)
    BY <1>1, <1>2, <2>1, RestTaken
  <2>3. r'["C"] = r["C"] - r["D"] /\ r'["D"] = r["D"] /\ r'["E"] = b
    BY <1>2, <2>1
  <2>4. r'["C"] < r'["D"]
    BY <1>2, <2>1, <2>3
  <2> QED
    BY <1>1, <2>1, <2>2, <2>3, <2>4 DEF RemainderInvariant
<1>20. CASE lr \in 20 .. 21
  BY <1>1, <1>2, <1>20, RemainderStep DEF RemainderInvariant, Sets
<1>21. CASE lr = 22
  <2>1. /\ Rest(r["C"], a, b) /\ r["E"] = b /\ Scaled(r["D"], b) /\ r["C"] < r["D"]
        /\ r["A"] = Monus(b, r["C"])
        /\ r' = r /\ lr' = (IF r["A"] = 0 THEN 13 ELSE 23)
    BY <1>1, <1>21, RemainderStep DEF RemainderInvariant, Goes
  <2>2. CASE r["A"] = 0
    <3>1. b <= r["C"]
      BY <1>1, <1>2, <2>1, <2>2 DEF Monus
    <3> QED
      BY <1>1, <2>1, <2>2, <3>1 DEF RemainderInvariant
  <2>3. CASE r["A"] # 0
    <3>1. r["C"] < b
      BY <1>1, <1>2, <2>1, <2>3 DEF Monus
    <3>2. r["C"] = a % b
      BY <1>1, <1>2, <2>1, <3>1, RestIsRemainder
    <3> QED
      BY <1>1, <2>1, <2>3, <3>2 DEF RemainderInvariant
  <2> QED
    BY <2>2, <2>3
<1>22. CASE lr = 23
  BY <1>1, <1>2, <1>22, RemainderStep DEF RemainderInvariant, Sets
<1>23. CASE lr = 24
  BY <1>1, <1>2, <1>23, RemainderStep DEF RemainderInvariant, machine
<1> QED
  BY <1>1, <1>5, <1>6, <1>7, <1>8, <1>9, <1>10, <1>11, <1>12, <1>13, <1>14, <1>15,
     <1>16, <1>17, <1>18, <1>19, <1>20, <1>21, <1>22, <1>23
-----------------------------------------------------------------------------
(* At every line of the loop for % the registers stand in the relation that *)
(* RemainderInvariant states, for all operands with a divisor other than 0: *)
(* C differs from the dividend by multiples of the divisor only.            *)
THEOREM RemainderInvariantHolds == LoopSpec => [](LoopTypeOK /\ RemainderInvariant)
<1>1. LoopInit => LoopTypeOK /\ RemainderInvariant
  BY LoopStart DEF LoopInit, Init, RemainderInvariant
<1>2. LoopTypeOK /\ RemainderInvariant /\ [LoopNext]_loop
        => (LoopTypeOK /\ RemainderInvariant)'
  <2> SUFFICES ASSUME LoopTypeOK, RemainderInvariant, [LoopNext]_loop
               PROVE  (LoopTypeOK /\ RemainderInvariant)'
    OBVIOUS
  <2>1. CASE LoopNext
    BY <2>1, LoopStepType, RemainderInductive
  <2>2. CASE UNCHANGED loop
    <3>1. LoopTypeOK'
      BY <2>2 DEF loop, machine, LoopTypeOK, TypeOK
    <3>2. RemainderInvariant'
      BY <2>2 DEF loop, machine, RemainderInvariant
    <3> QED
      BY <3>1, <3>2
  <2> QED
    BY <2>1, <2>2
<1> QED
  BY <1>1, <1>2, PTL DEF LoopSpec

\* Only the last line of the loop is a HALT.
LEMMA RemainderHalts ==
  ASSUME LoopTypeOK, RemainderInvariant, prog = "%", b # 0
  PROVE  ~Error /\ (Halted => lr = 24)
<1>1. lines = Programs["%"] /\ "%" \in DOMAIN Programs /\ lr \in 0 .. 24
  BY DEF LoopTypeOK, TypeOK, RemainderInvariant
<1>2. Len(Programs["%"]) = 25
  BY <1>1, RemainderLines
<1>3. \A i \in 0 .. 23 : lines[i + 1].op # "HALT"
  BY <1>1, RemainderLines
     DEF RST, GET, JZERO, SUB, JPOS, SHL, JUMP, PUT, SHR
<1> QED
  BY <1>1, <1>2, <1>3 DEF Error, Halted, Line

(* The loop for % ends, if it ends, with the remainder in the accumulator,  *)
(* and never jumps out of its lines, for every divisor other than 0. With 0 *)
(* it does: see the run wrong_code.                                         *)
THEOREM RemainderComputes ==
  LoopSpec => [](prog = "%" /\ b # 0 => ComputesResult /\ StaysInside)
<1>1. LoopTypeOK /\ RemainderInvariant
        => (prog = "%" /\ b # 0 => ComputesResult /\ StaysInside)
  BY RemainderHalts DEF RemainderInvariant, ComputesResult, Result, StaysInside
<1> QED
  BY <1>1, RemainderInvariantHolds, PTL

-----------------------------------------------------------------------------
\* The recursion of Digits defines a function on the naturals.
LEMMA DigitsDef ==
  /\ Digits(0) = 0
  /\ \A n \in Nat \ {0} : Digits(n) = 1 + Digits(n \div 2)
  /\ \A n \in Nat : Digits(n) \in Nat
<1> DEFINE g == [x \in (Nat \ {0}) \X Nat |-> 1 + x[2]]
           h == [m \in Nat \ {0} |-> m \div 2]
<1>1. PICK f : f \in Recursive(Nat, 0, g, h)
  <2>1. Rules(Nat, g, h) /\ 0 \in Nat
    BY DEF Rules
  <2> QED
    BY <2>1, Recursion
<1>2. \A m \in Nat : f[m] = IF m = 0 THEN 0 ELSE 1 + f[m \div 2]
  <2> SUFFICES ASSUME NEW m \in Nat \ {0} PROVE f[m] = 1 + f[m \div 2]
    BY <1>1 DEF Recursive
  <2>1. m \div 2 \in Nat /\ h[m] = m \div 2 /\ f[m \div 2] \in Nat
    BY <1>1 DEF Recursive
  <2> QED
    BY <1>1, <2>1 DEF Recursive
<1> DEFINE Is(d) == d = [m \in Nat |-> IF m = 0 THEN 0 ELSE 1 + d[m \div 2]]
           digits == CHOOSE d : Is(d)
<1>3. Is(f)
  BY <1>1, <1>2 DEF Recursive
<1>4. Is(digits)
  BY <1>3
<1>5. \A n : Digits(n) = digits[n]
  BY DEF Digits
<1>6. \A n \in Nat : digits[n] \in Nat
  <2> DEFINE S == { n \in Nat : digits[n] \in Nat }
  <2> HIDE DEF digits
  <2>1. ASSUME NEW n \in Nat, \A m \in 0 .. n - 1 : m \in S PROVE n \in S
    <3>1. CASE n = 0
      BY <1>4, <3>1
    <3>2. CASE n # 0
      <4>1. n \div 2 \in 0 .. n - 1
        BY <3>2
      <4>2. digits[n \div 2] \in Nat
        BY <2>1, <4>1
      <4> QED
        BY <1>4, <3>2, <4>2
    <3> QED
      BY <3>1, <3>2
  <2> HIDE DEF S
  <2>2. \A n \in Nat : n \in S
    BY <2>1, StrongInduction
  <2> QED
    BY <2>2 DEF S
<1> QED
  BY <1>4, <1>5, <1>6

\* A larger number has no fewer digits.
LEMMA DigitsGrow ==
  ASSUME NEW n \in Nat, NEW m \in Nat, m <= n
  PROVE  Digits(m) <= Digits(n)
<1> DEFINE S == { k \in Nat : \A i \in 0 .. k : Digits(i) <= Digits(k) }
<1>1. ASSUME NEW k \in Nat, \A j \in 0 .. k - 1 : j \in S
      PROVE  k \in S
  <2> SUFFICES ASSUME NEW i \in 0 .. k PROVE Digits(i) <= Digits(k)
    OBVIOUS
  <2>1. CASE i = 0
    BY <2>1, DigitsDef
  <2>2. CASE i # 0
    <3>1. /\ k \in Nat \ {0} /\ i \in Nat \ {0}
          /\ k \div 2 \in 0 .. k - 1 /\ i \div 2 \in 0 .. (k \div 2)
      BY <2>2
    <3>2. Digits(i \div 2) <= Digits(k \div 2)
      BY <1>1, <3>1
    <3>3. /\ Digits(i) = 1 + Digits(i \div 2) /\ Digits(k) = 1 + Digits(k \div 2)
          /\ Digits(i \div 2) \in Nat /\ Digits(k \div 2) \in Nat
      BY <3>1, DigitsDef
    <3> QED
      BY <3>2, <3>3
  <2> QED
    BY <2>1, <2>2
<1> HIDE DEF S
<1>2. \A k \in Nat : k \in S
  BY <1>1, StrongInduction
<1> QED
  BY <1>2 DEF S

\* Halving takes a digit, doubling adds one.
LEMMA DigitsScaled ==
  ASSUME NEW n \in Nat \ {0}
  PROVE  /\ Digits(n) = 1 + Digits(n \div 2)
         /\ Digits(2 * n) = 1 + Digits(n)
         /\ Digits(n) >= 1
<1>1. 2 * n \in Nat \ {0} /\ (2 * n) \div 2 = n /\ n \div 2 \in Nat
  OBVIOUS
<1> QED
  BY <1>1, DigitsDef

-----------------------------------------------------------------------------
\* What an instruction costs.
LEMMA Costs ==
  ASSUME Next, ~Error
  PROVE  /\ Line.op \in {"ADD", "SUB"} => t' = t + 5
         /\ Line.op \in {"GET", "PUT", "RST", "INC", "SHL", "SHR", "JUMP", "JPOS", "JZERO"}
              => t' = t + 1
         /\ Line.op = "HALT" => t' = t
BY Decoding DEF Add, Sub, Get, Put, Rst, Inc, Shl, Shr, Jump, Jpos, Jzero, Compute, Goto,
                Advance, machine

LEMMA MultiplyCosts ==
  ASSUME prog = "*", TypeOK, Next, lr \in 0 .. 15
  PROVE  t' = t + (IF lr \in {6, 9} THEN 5 ELSE IF lr = 15 THEN 0 ELSE 1)
<1>1. "*" \in DOMAIN Programs /\ lines = Programs["*"] /\ t \in Nat
  BY DEF TypeOK
<1>2. ~Error
  <2>1. Len(Programs["*"]) = 16
    BY <1>1, MultiplyLines
  <2> QED
    BY <1>1, <2>1 DEF Error
<1>3. CASE lr \in 0 .. 7
  BY <1>1, <1>2, <1>3, MultiplyLines, Costs DEF Line, RST, GET, JZERO, SHR, SHL, INC, SUB, JPOS
<1>4. CASE lr \in 8 .. 15
  BY <1>1, <1>2, <1>4, MultiplyLines, Costs DEF Line, GET, ADD, PUT, SHL, SHR, JUMP, HALT
<1> QED
  BY <1>3, <1>4

LEMMA DivideCosts ==
  ASSUME prog = "/", TypeOK, Next, lr \in 0 .. 25
  PROVE  t' = t + (IF lr \in {6, 12, 15, 18} THEN 5 ELSE IF lr = 25 THEN 0 ELSE 1)
<1>1. lines = Programs["/"] /\ "/" \in DOMAIN Programs /\ t \in Nat
  BY DEF TypeOK
<1>2. ~Error
  BY DivideStep
<1>3. CASE lr \in 0 .. 8
  BY <1>1, <1>2, <1>3, DivideLines, Costs DEF Line, GET, INC, JZERO, JPOS, RST, SUB, SHL
<1>4. CASE lr \in 9 .. 16
  BY <1>1, <1>2, <1>4, DivideLines, Costs DEF Line, GET, ADD, PUT, JPOS, JUMP, SHL, SUB
<1>5. CASE lr \in 17 .. 25
  BY <1>1, <1>2, <1>5, DivideLines, Costs DEF Line, GET, PUT, SUB, SHR, JPOS, HALT
<1> QED
  BY <1>3, <1>4, <1>5

LEMMA RemainderCosts ==
  ASSUME prog = "%", TypeOK, Next, lr \in 0 .. 24
  PROVE  t' = t + (IF lr \in {1, 9, 15, 18, 21} THEN 5 ELSE IF lr = 24 THEN 0 ELSE 1)
<1>1. lines = Programs["%"] /\ "%" \in DOMAIN Programs /\ t \in Nat
  BY DEF TypeOK
<1>2. ~Error
  BY RemainderStep
<1>3. CASE lr \in 0 .. 8
  BY <1>1, <1>2, <1>3, RemainderLines, Costs DEF Line, GET, SUB, JPOS, RST, JZERO, PUT
<1>4. CASE lr \in 9 .. 16
  BY <1>1, <1>2, <1>4, RemainderLines, Costs DEF Line, GET, SUB, JPOS, SHL, SHR, JUMP
<1>5. CASE lr \in 17 .. 24
  BY <1>1, <1>2, <1>5, RemainderLines, Costs DEF Line, GET, PUT, SUB, JZERO, HALT
<1> QED
  BY <1>3, <1>4, <1>5

-----------------------------------------------------------------------------
(* Each line keeps to what is spent at the next, as the operand that is     *)
(* halved or doubled there loses or gains a digit.                          *)
LEMMA MultiplyTimeKept ==
  ASSUME LoopTypeOK, MultiplyInvariant, MultiplyTime, LoopNext
  PROVE  MultiplyTime'
<1> SUFFICES ASSUME prog = "*" PROVE MultiplyTime'
  BY ProgramConstant DEF LoopNext, MultiplyTime
<1>1. /\ lr \in 0 .. 15 /\ b' = b /\ prog' = prog
      /\ TypeOK /\ Next /\ t \in Nat
      /\ b \in Nat /\ Digits(b) \in Nat
  BY ProgramConstant, DigitsDef DEF LoopNext, MultiplyInvariant, LoopTypeOK, TypeOK
<1>2. /\ r["A"] \in Nat /\ r["C"] \in Nat /\ r["D"] \in Nat /\ r["F"] \in Nat
      /\ {"A", "C", "D", "F"} \subseteq DOMAIN r
      /\ Digits(r["D"]) \in Nat
  BY RegisterType, DigitsDef
<1>3. t' = t + (IF lr \in {6, 9} THEN 5 ELSE IF lr = 15 THEN 0 ELSE 1)
  BY <1>1, MultiplyCosts
<1>4. CASE lr \in 0 .. 1
  BY <1>1, <1>2, <1>3, <1>4, MultiplyStep DEF MultiplyTime
<1>5. CASE lr = 2
  BY <1>1, <1>2, <1>3, <1>5, MultiplyStep DEF MultiplyTime, MultiplyInvariant
<1>6. CASE lr \in 3 .. 6
  BY <1>1, <1>2, <1>3, <1>6, MultiplyStep DEF MultiplyTime
<1>7. CASE lr \in 7 .. 11
  BY <1>1, <1>2, <1>3, <1>7, MultiplyStep DEF MultiplyTime
<1>8. CASE lr = 12
  <2>1. r["D"] \div 2 \in Nat /\ Digits(r["D"]) = 1 + Digits(r["D"] \div 2)
    BY <1>1, <1>2, <1>8, DigitsScaled DEF MultiplyTime
  <2>2. lr' = 13 /\ r'["D"] = r["D"] \div 2
    BY <1>1, <1>2, <1>8, MultiplyStep
  <2>3. Digits(r["D"] \div 2) \in Nat
    BY <2>1, DigitsDef
  <2> QED
    BY <1>1, <1>2, <1>3, <1>8, <2>1, <2>2, <2>3 DEF MultiplyTime
<1>9. CASE lr \in 13 .. 15
  BY <1>1, <1>2, <1>3, <1>9, MultiplyStep DEF MultiplyTime, machine
<1> QED
  BY <1>1, <1>4, <1>5, <1>6, <1>7, <1>8, <1>9

LEMMA DivideTimeKept ==
  ASSUME LoopTypeOK, DivideInvariant, DivideTime, LoopNext
  PROVE  DivideTime'
<1> SUFFICES ASSUME prog = "/" PROVE DivideTime'
  BY ProgramConstant DEF LoopNext, DivideTime
<1>1. /\ lr \in 0 .. 25 /\ prog' = prog /\ a' = a /\ b' = b
      /\ TypeOK /\ Next /\ t \in Nat
      /\ a \in Nat /\ b \in Nat /\ Digits(a) \in Nat
  BY ProgramConstant, DigitsDef DEF LoopNext, DivideInvariant, LoopTypeOK, TypeOK
<1>2. /\ r["A"] \in Nat /\ r["C"] \in Nat /\ r["D"] \in Nat /\ r["E"] \in Nat /\ r["F"] \in Nat
      /\ {"A", "C", "D", "E", "F"} \subseteq DOMAIN r
      /\ Digits(r["E"]) \in Nat
  BY DivideRegisters, DigitsDef
<1>3. t' = t + (IF lr \in {6, 12, 15, 18} THEN 5 ELSE IF lr = 25 THEN 0 ELSE 1)
  BY <1>1, DivideCosts
<1>4. Digits(0) = 0 /\ Digits(1) = 1
  BY DigitsDef
<1>5. CASE lr \in 0 .. 2
  BY <1>1, <1>2, <1>3, <1>5, DivideStep DEF DivideTime, Sets
<1>6. CASE lr = 3
  <2>1. r["E"] = 0 /\ t = 3 /\ r' = r /\ lr' \in {4, 24}
    BY <1>1, <1>6, DivideStep DEF DivideInvariant, DivideTime, Goes
  <2>2. Digits(r'["E"]) = 0 /\ t' = 4
    BY <1>3, <1>4, <1>6, <2>1
  <2>3. CASE lr' = 4
    BY <1>1, <2>2, <2>3 DEF DivideTime
  <2>4. CASE lr' = 24
    BY <1>1, <2>2, <2>4 DEF DivideTime
  <2> QED
    BY <2>1, <2>3, <2>4
<1>7. CASE lr = 4
  <2>1. r["E"] = 0 /\ t = 4 /\ lr' = 5 /\ r' = [r EXCEPT !["E"] = r["E"] + 1]
    BY <1>1, <1>7, DivideStep DEF DivideInvariant, DivideTime, Sets
  <2>2. r'["E"] = 1
    BY <1>2, <2>1
  <2> QED
    BY <1>1, <1>3, <1>4, <1>7, <2>1, <2>2 DEF DivideTime
<1>8. CASE lr \in 5 .. 6
  BY <1>1, <1>2, <1>3, <1>8, DivideStep DEF DivideTime, Sets
<1>9. CASE lr = 7
  <2>1. /\ r["A"] = Monus(r["D"], r["C"]) /\ r["C"] = a /\ r["D"] = r["E"] * b /\ b # 0
        /\ t + 10 <= 11 + 10 * Digits(r["E"]) /\ Digits(r["E"]) <= Digits(a) + 1
        /\ r' = r /\ lr' = (IF r["A"] > 0 THEN 11 ELSE 8)
    BY <1>1, <1>9, DivideStep DEF DivideInvariant, DivideTime, Goes
  <2>2. CASE r["A"] > 0
    BY <1>1, <1>2, <1>3, <1>9, <2>1, <2>2 DEF DivideTime
  <2>3. CASE ~(r["A"] > 0)
    <3>1. r["D"] <= r["C"]
      BY <1>2, <2>1, <2>3 DEF Monus
    <3> QED
      BY <1>1, <1>2, <1>3, <1>9, <2>1, <2>3, <3>1 DEF DivideTime
  <2> QED
    BY <2>2, <2>3
<1>10. CASE lr = 8
  <2>1. /\ r["C"] = a /\ r["D"] = r["E"] * b /\ b # 0 /\ r["E"] > 0 /\ r["D"] <= r["C"]
        /\ t + 10 <= 12 + 10 * Digits(r["E"])
    BY <1>1, <1>10 DEF DivideInvariant, DivideTime, PowerOfTwo
  <2>2. lr' = 9 /\ r' = [r EXCEPT !["E"] = 2 * r["E"]]
    BY <1>1, <1>10, DivideStep DEF Sets
  <2>3. r["E"] <= r["E"] * b
    <3>1. r["E"] * b >= r["E"] * 1
      BY <1>1, <1>2, <2>1
    <3> QED
      BY <1>1, <1>2, <3>1
  <2>4. Digits(r["E"]) <= Digits(a)
    <3>1. r["E"] <= a
      BY <1>1, <1>2, <2>1, <2>3
    <3> QED
      BY <1>1, <1>2, <3>1, DigitsGrow
  <2>5. Digits(2 * r["E"]) = 1 + Digits(r["E"]) /\ r'["E"] = 2 * r["E"]
    BY <1>2, <2>1, <2>2, DigitsScaled
  <2> QED
    BY <1>1, <1>2, <1>3, <1>10, <2>1, <2>2, <2>4, <2>5 DEF DivideTime
<1>11. CASE lr \in 9 .. 10
  BY <1>1, <1>2, <1>3, <1>11, DivideStep DEF DivideTime, Sets, Goes
<1>12. CASE lr \in 11 .. 15
  BY <1>1, <1>2, <1>3, <1>12, DivideStep DEF DivideTime, Sets, Goes
<1>13. CASE lr \in 16 .. 20
  BY <1>1, <1>2, <1>3, <1>13, DivideStep DEF DivideTime, Sets
<1>14. CASE lr = 21
  <2>1. r["E"] \div 2 \in Nat /\ Digits(r["E"]) = 1 + Digits(r["E"] \div 2)
    BY <1>1, <1>2, <1>14, DigitsScaled DEF DivideInvariant, PowerOfTwo
  <2>2. lr' = 22 /\ r'["E"] = r["E"] \div 2
    BY <1>1, <1>2, <1>14, DivideStep DEF Sets
  <2>3. Digits(r["E"] \div 2) \in Nat
    BY <2>1, DigitsDef
  <2> QED
    BY <1>1, <1>2, <1>3, <1>14, <2>1, <2>2, <2>3 DEF DivideTime
<1>15. CASE lr \in 22 .. 25
  BY <1>1, <1>2, <1>3, <1>15, DivideStep DEF DivideTime, Sets, Goes, machine
<1> QED
  BY <1>1, <1>5, <1>6, <1>7, <1>8, <1>9, <1>10, <1>11, <1>12, <1>13, <1>14, <1>15

\* With the divisor 0 the loop for % leaves its lines after 10 units of time.
LEMMA RemainderByZero ==
  ASSUME LoopTypeOK, RemainderTime, LoopNext, prog = "%", b = 0
  PROVE  RemainderTime'
<1>1. /\ lr \in 0 .. 5 \cup {26} /\ r["D"] = 0
      /\ lr \in {1, 2, 5} => r["A"] = 0
      /\ lr = 26 => t = 10
      /\ lr \in 0 .. 5 => t = <<0, 1, 6, 7, 8, 9>>[lr + 1]
  BY DEF RemainderTime
<1>2. /\ prog' = prog /\ a' = a /\ b' = b /\ TypeOK /\ Next /\ lines = Programs["%"]
      /\ "%" \in DOMAIN Programs /\ t \in Nat /\ r["C"] \in Nat /\ {"A", "D"} \subseteq DOMAIN r
  BY ProgramConstant, DivideRegisters DEF LoopNext, LoopTypeOK, TypeOK
<1>3. CASE lr \in 0 .. 5
  <2>1. t' = t + (IF lr = 1 THEN 5 ELSE 1)
    BY <1>2, <1>3, RemainderCosts
  <2>2. Monus(0, r["C"]) = 0
    BY <1>2 DEF Monus
  <2>3. CASE lr \in 0 .. 2
    BY <1>1, <1>2, <2>1, <2>2, <2>3, RemainderStep DEF RemainderTime, Sets, Goes
  <2>4. CASE lr \in 3 .. 5
    BY <1>1, <1>2, <2>1, <2>4, RemainderStep DEF RemainderTime, Sets, Goes
  <2> QED
    BY <1>3, <2>3, <2>4
<1>4. CASE lr = 26
  <2>1. Error
    <3>1. Len(lines) = 25
      BY <1>2, RemainderLines
    <3> QED
      BY <1>4, <3>1 DEF Error
  <2>2. UNCHANGED machine
    BY <1>2, <2>1 DEF Next, Step, Stop, Read, Write, Load, Store, Add, Sub, Get, Put, Rst, Inc,
                      Dec, Shl, Shr, Strk, Jump, Jpos, Jzero, Jumpr, Compute, Goto, Fetch
  <2> QED
    BY <1>1, <1>2, <1>4, <2>2 DEF machine, RemainderTime
<1> QED
  BY <1>1, <1>3, <1>4

LEMMA RemainderTimeKept ==
  ASSUME LoopTypeOK, RemainderInvariant, RemainderTime, LoopNext
  PROVE  RemainderTime'
<1> SUFFICES ASSUME prog = "%", b # 0 PROVE RemainderTime'
  BY ProgramConstant, RemainderByZero DEF LoopNext, RemainderTime
<1>1. /\ lr \in 0 .. 24 /\ prog' = prog /\ a' = a /\ b' = b
      /\ TypeOK /\ Next /\ t \in Nat
      /\ a \in Nat /\ b \in Nat \ {0} /\ Digits(a) \in Nat /\ Digits(b) \in Nat
  BY ProgramConstant, DigitsDef DEF LoopNext, RemainderInvariant, LoopTypeOK, TypeOK
<1>2. /\ r["A"] \in Nat /\ r["C"] \in Nat /\ r["D"] \in Nat /\ r["E"] \in Nat
      /\ {"A", "C", "D", "E", "F"} \subseteq DOMAIN r
      /\ Digits(r["D"]) \in Nat
  BY DivideRegisters, DigitsDef
<1>3. t' = t + (IF lr \in {1, 9, 15, 18, 21} THEN 5 ELSE IF lr = 24 THEN 0 ELSE 1)
  BY <1>1, RemainderCosts
<1>4. CASE lr \in 0 .. 1
  BY <1>1, <1>2, <1>3, <1>4, RemainderStep DEF RemainderTime, Sets
<1>5. CASE lr = 2
  <2>1. t = 6 /\ t' = 7 /\ lr' \in {3, 23}
    BY <1>1, <1>3, <1>5, RemainderStep DEF RemainderTime, Goes
  <2>2. CASE lr' = 3
    BY <1>1, <2>1, <2>2 DEF RemainderTime
  <2>3. CASE lr' = 23
    BY <1>1, <2>1, <2>3 DEF RemainderTime
  <2> QED
    BY <2>1, <2>2, <2>3
<1>6. CASE lr \in {3, 4, 6}
  <2>1. t = lr + 4 /\ t' = lr + 5 /\ lr' = lr + 1
    BY <1>1, <1>3, <1>6, RemainderStep DEF RemainderTime, Sets
  <2> QED
    BY <1>1, <1>6, <2>1 DEF RemainderTime
<1>7. CASE lr = 5
  BY <1>1, <1>2, <1>3, <1>7, RemainderStep DEF RemainderTime, RemainderInvariant, Goes
<1>8. CASE lr = 7
  <2>1. r["D"] = b /\ b <= a /\ t = 11 /\ lr' = 8 /\ r'["D"] = b
    BY <1>1, <1>2, <1>8, RemainderStep DEF RemainderTime, RemainderInvariant, Sets
  <2>2. Digits(b) <= Digits(a)
    BY <1>1, <2>1, DigitsGrow
  <2> QED
    BY <1>1, <1>3, <1>8, <2>1, <2>2 DEF RemainderTime
<1>9. CASE lr \in 8 .. 9
  BY <1>1, <1>2, <1>3, <1>9, RemainderStep DEF RemainderTime, Sets
<1>10. CASE lr = 10
  <2>1. /\ r["A"] = Monus(r["D"], r["C"]) /\ r' = r /\ lr' = (IF r["A"] > 0 THEN 13 ELSE 11)
        /\ t + 9 * Digits(b) <= 18 + 9 * Digits(r["D"]) /\ Digits(r["D"]) <= Digits(a) + 1
    BY <1>1, <1>10, RemainderStep DEF RemainderInvariant, RemainderTime, Goes
  <2>2. ~(r["A"] > 0) => r["D"] <= r["C"]
    BY <1>2, <2>1 DEF Monus
  <2> QED
    BY <1>1, <1>2, <1>3, <1>10, <2>1, <2>2 DEF RemainderTime
<1>11. CASE lr = 11
  <2>1. /\ r["C"] = a /\ r["D"] <= r["C"] /\ r["D"] # 0
        /\ t + 9 * Digits(b) <= 19 + 9 * Digits(r["D"])
    BY <1>1, <1>11 DEF RemainderInvariant, RemainderTime, Scaled
  <2>2. lr' = 12 /\ r'["D"] = 2 * r["D"] /\ r'["C"] = r["C"]
    BY <1>1, <1>2, <1>11, RemainderStep DEF Sets
  <2>3. Digits(2 * r["D"]) = 1 + Digits(r["D"])
    BY <1>2, <2>1, DigitsScaled
  <2>4. Digits(r["D"]) <= Digits(a)
    BY <1>1, <1>2, <2>1, DigitsGrow
  <2> QED
    BY <1>1, <1>2, <1>3, <1>11, <2>1, <2>2, <2>3, <2>4 DEF RemainderTime
<1>12. CASE lr = 12
  BY <1>1, <1>2, <1>3, <1>12, RemainderStep DEF RemainderTime, Goes
<1>13. CASE lr = 13
  <2>1. r["D"] # 0
    BY <1>1, <1>13 DEF RemainderInvariant, Scaled
  <2>2. r["D"] \div 2 \in Nat /\ Digits(r["D"]) = 1 + Digits(r["D"] \div 2)
    BY <1>2, <2>1, DigitsScaled
  <2>3. lr' = 14 /\ r'["D"] = r["D"] \div 2
    BY <1>1, <1>2, <1>13, RemainderStep DEF Sets
  <2>4. Digits(r["D"] \div 2) \in Nat
    BY <2>2, DigitsDef
  <2> QED
    BY <1>1, <1>2, <1>3, <1>13, <2>2, <2>3, <2>4 DEF RemainderTime
<1>14. CASE lr \in 14 .. 16
  BY <1>1, <1>2, <1>3, <1>14, RemainderStep DEF RemainderTime, Sets, Goes
<1>15. CASE lr \in 17 .. 21
  BY <1>1, <1>2, <1>3, <1>15, RemainderStep DEF RemainderTime, Sets
<1>16. CASE lr = 22
  <2>1. /\ Scaled(r["D"], b) /\ r' = r /\ lr' \in {13, 23}
        /\ t + 22 * Digits(r["D"]) + 9 * Digits(b) <= 49 + 31 * Digits(a)
    BY <1>1, <1>16, RemainderStep DEF RemainderTime, RemainderInvariant, Goes
  <2>2. b <= r["D"]
    <3>1. PICK p \in 1 .. r["D"] : r["D"] = p * b
      BY <2>1 DEF Scaled
    <3>2. p * b >= 1 * b
      BY <1>1, <1>2, <3>1
    <3> QED
      BY <1>1, <1>2, <3>1, <3>2
  <2>3. Digits(b) <= Digits(r["D"])
    BY <1>1, <1>2, <2>2, DigitsGrow
  <2>4. Digits(b) >= 1 /\ t' = t + 1 /\ r'["D"] = r["D"]
    BY <1>1, <1>3, <1>16, <2>1, DigitsScaled
  <2>5. CASE lr' = 13
    BY <1>1, <1>2, <2>1, <2>4, <2>5 DEF RemainderTime
  <2>6. CASE lr' = 23
    BY <1>1, <1>2, <2>1, <2>3, <2>4, <2>6 DEF RemainderTime
  <2> QED
    BY <2>1, <2>5, <2>6
<1>17. CASE lr \in 23 .. 24
  BY <1>1, <1>2, <1>3, <1>17, RemainderStep DEF RemainderTime, Sets, machine
<1> QED
  BY <1>1, <1>4, <1>5, <1>6, <1>7, <1>8, <1>9, <1>10, <1>11, <1>12, <1>13, <1>14, <1>15,
     <1>16, <1>17

-----------------------------------------------------------------------------
\* The relations at every line and the time spent there, together.
Standing == LoopTypeOK /\ LoopInvariant
Lasting  == Standing /\ TimeInvariant

\* What has been spent at each line stays within what is spent in all.
LEMMA TimeBound ==
  ASSUME Lasting
  PROVE  LogarithmicTime
<1>1. /\ prog \in {"*", "/", "%"} /\ t \in Nat /\ Digits(a) \in Nat /\ Digits(b) \in Nat
      /\ \A x \in {"C", "D", "E"} : r[x] \in Nat /\ Digits(r[x]) \in Nat
  BY FragmentsAssumption, DigitsDef, DivideRegisters DEF Lasting, Standing, LoopInvariant, LoopTypeOK, TypeOK
<1>2. CASE prog = "*"
  <2>1. lr \in 0 .. 15 /\ MultiplyTime
    BY <1>2 DEF Lasting, Standing, LoopInvariant, TimeInvariant, MultiplyInvariant
  <2>2. lr \in 3 .. 12 => Digits(r["D"]) >= 1
    BY <1>1, <1>2, <2>1, DigitsScaled DEF MultiplyTime
  <2> QED
    BY <1>1, <1>2, <2>1, <2>2 DEF MultiplyTime, LogarithmicTime
<1>3. CASE prog = "/"
  <2>1. lr \in 0 .. 25 /\ DivideTime
    BY <1>3 DEF Lasting, Standing, LoopInvariant, TimeInvariant, DivideInvariant
  <2>2. lr \in 11 .. 21 => Digits(r["E"]) >= 1
    BY <1>1, <1>3, DigitsScaled DEF Lasting, Standing, LoopInvariant, DivideInvariant, PowerOfTwo
  <2> QED
    BY <1>1, <1>3, <2>1, <2>2 DEF DivideTime, LogarithmicTime
<1>4. CASE prog = "%"
  <2>1. RemainderTime /\ (b # 0 => lr \in 0 .. 24)
    BY <1>4 DEF Lasting, Standing, LoopInvariant, TimeInvariant, RemainderInvariant
  <2>2. b # 0 => Digits(b) >= 1
    BY DigitsScaled DEF Lasting, Standing, LoopInvariant, LoopTypeOK
  <2>3. b # 0 /\ lr \in 13 .. 22 => Digits(r["D"]) >= 1
    BY <1>1, <1>4, DigitsScaled DEF Lasting, Standing, LoopInvariant, RemainderInvariant, Scaled
  <2> QED
    BY <1>1, <1>4, <2>1, <2>2, <2>3 DEF RemainderTime, LogarithmicTime
<1> QED
  BY <1>1, <1>2, <1>3, <1>4

(* At each line of each loop the registers stand in the relation that is    *)
(* stated for it, for all operands of * and / and for all of % with a       *)
(* divisor other than 0.                                                    *)
THEOREM LoopInvariantHolds == LoopSpec => []LoopInvariant
<1>1. LoopSpec => []Standing
  BY MultiplyInvariantHolds, DivideInvariantHolds, RemainderInvariantHolds, PTL
     DEF Standing, LoopInvariant
<1>2. Standing => LoopInvariant
  BY DEF Standing
<1> QED
  BY <1>1, <1>2, PTL

(* At each line of each loop, what has been spent and what the digits that  *)
(* are left may still cost stay within the bound of LogarithmicTime, for    *)
(* all operands, the divisor 0 included.                                    *)
THEOREM TimeInvariantHolds == LoopSpec => [](Standing /\ TimeInvariant)
<1>1. LoopSpec => []Standing
  BY MultiplyInvariantHolds, DivideInvariantHolds, RemainderInvariantHolds, PTL
     DEF Standing, LoopInvariant
<1>2. LoopInit => TimeInvariant
  <2> SUFFICES ASSUME LoopInit PROVE TimeInvariant
    OBVIOUS
  <2>1. /\ LoopTypeOK /\ lr = 0 /\ t = 0 /\ r["D"] = b
        /\ Digits(b) \in Nat
    BY LoopStart, DigitsDef DEF LoopInit, Init, LoopTypeOK
  <2> QED
    BY <2>1 DEF TimeInvariant, MultiplyTime, DivideTime, RemainderTime
<1>3. Standing /\ TimeInvariant /\ [LoopNext]_loop => TimeInvariant'
  <2> SUFFICES ASSUME Standing, TimeInvariant, [LoopNext]_loop PROVE TimeInvariant'
    OBVIOUS
  <2>1. CASE LoopNext
    BY <2>1, MultiplyTimeKept, DivideTimeKept, RemainderTimeKept
       DEF Standing, LoopInvariant, TimeInvariant
  <2>2. CASE UNCHANGED loop
    <3>1. MultiplyTime' = MultiplyTime /\ DivideTime' = DivideTime
      BY <2>2 DEF loop, machine, MultiplyTime, DivideTime
    <3>2. RemainderTime' = RemainderTime
      BY <2>2 DEF loop, machine, RemainderTime
    <3> QED
      BY <3>1, <3>2 DEF TimeInvariant
  <2> QED
    BY <2>1, <2>2
<1> QED
  BY <1>1, <1>2, <1>3, PTL DEF LoopSpec

(* No run of a loop takes more time than so much for every binary digit of  *)
(* the multiplier, or of the dividend, for all operands, the divisor 0      *)
(* included: the bound is met at every step, and so when the loop ends.     *)
THEOREM LogarithmicTimeHolds == LoopSpec => []LogarithmicTime
<1>1. Standing /\ TimeInvariant => LogarithmicTime
  BY TimeBound DEF Lasting
<1> QED
  BY <1>1, TimeInvariantHolds, PTL
=============================================================================
