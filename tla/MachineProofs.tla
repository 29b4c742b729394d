--------------------------- MODULE MachineProofs ----------------------------
(***************************************************************************)
(* Proofs about the machine, for every program, input and initial register *)
(* file.                                                                   *)
(***************************************************************************)
EXTENDS Machine, TLAPS

\* A line that is fetched is an instruction, with a register or a target if
\* its mnemonic has one.
LEMMA LineType ==
  ASSUME TypeOK, ~Error
  PROVE  /\ Line \in Instruction
         /\ Line.op \in RegisterOps => Line.reg \in Registers
         /\ Line.op \in JumpOps => Line.line \in Nat
<1>1. lines \in Seq(Instruction)
  BY ProgramsAssumption DEF TypeOK
<1>2. lr + 1 \in 1 .. Len(lines)
  BY <1>1 DEF TypeOK, Error
<1>3. Line \in Instruction
  BY <1>1, <1>2 DEF Line
<1> QED
  BY <1>3 DEF Instruction, RegisterOps, JumpOps, PlainOps

\* Writing a cell keeps the memory a function from addresses to naturals.
LEMMA CellType ==
  ASSUME TypeOK, NEW x \in Nat, NEW v \in Nat
  PROVE  /\ Cell(x) \in Nat
         /\ DOMAIN WithCell(x, v) \subseteq Nat
         /\ WithCell(x, v) \in [DOMAIN WithCell(x, v) -> Nat]
BY DEF TypeOK, Cell, WithCell

\* An instruction that sets one register to a natural and goes on.
LEMMA ComputeType ==
  ASSUME TypeOK, NEW op, NEW cost \in Nat, NEW x \in Registers, NEW v \in Nat,
         Compute(op, cost, x, v)
  PROVE  TypeOK'
BY DEF TypeOK, Compute, Advance

LEMMA GotoType ==
  ASSUME TypeOK, NEW op, NEW n \in Nat, Goto(op, n)
  PROVE  TypeOK'
BY DEF TypeOK, Goto

LEMMA InitType == Init => TypeOK
BY TapesAssumption, JunkAssumption DEF Init, TypeOK

\* An instruction with a register operand finds a natural in it.
LEMMA OperandType ==
  ASSUME TypeOK, NEW op \in RegisterOps, Fetch(op)
  PROVE  Line.reg \in Registers /\ r[Line.reg] \in Nat /\ r["A"] \in Nat
<1>1. Line.reg \in Registers
  BY LineType DEF Fetch
<1> QED
  BY <1>1 DEF TypeOK, Registers

LEMMA ReadType ==
  ASSUME TypeOK, Read
  PROVE  TypeOK'
<1>1. tape[nread + 1] \in Nat
  BY DEF TypeOK, Read
<1>2. nread' \in 0 .. Len(tape')
  BY DEF TypeOK, Read
<1>3. r' \in [Registers -> Nat]
  BY <1>1 DEF TypeOK, Read
<1>4. lr' \in Nat /\ t' \in Nat /\ io' \in Nat
  BY DEF TypeOK, Read, Advance
<1>5. UNCHANGED <<prog, lines, pam, tape, out>>
  BY DEF Read
<1> QED
  BY <1>2, <1>3, <1>4, <1>5 DEF TypeOK

LEMMA MemoryType ==
  ASSUME TypeOK, Load \/ Store
  PROVE  TypeOK'
<1>1. CASE Load
  <2>1. Line.reg \in Registers /\ r[Line.reg] \in Nat
    BY <1>1, OperandType DEF Load, RegisterOps
  <2>2. Cell(r[Line.reg]) \in Nat
    BY <2>1, CellType
  <2>3. pam' = WithCell(r[Line.reg], Cell(r[Line.reg]))
    BY <1>1 DEF Load
  <2>4. DOMAIN pam' \subseteq Nat /\ pam' \in [DOMAIN pam' -> Nat]
    BY <2>1, <2>2, <2>3, CellType
  <2>5. r' \in [Registers -> Nat]
    BY <1>1, <2>2 DEF TypeOK, Load
  <2> QED
    BY <1>1, <2>4, <2>5 DEF TypeOK, Load, Advance
<1>2. CASE Store
  <2>1. Line.reg \in Registers /\ r[Line.reg] \in Nat /\ r["A"] \in Nat
    BY <1>2, OperandType DEF Store, RegisterOps
  <2>2. pam' = WithCell(r[Line.reg], r["A"])
    BY <1>2 DEF Store
  <2>3. DOMAIN pam' \subseteq Nat /\ pam' \in [DOMAIN pam' -> Nat]
    BY <2>1, <2>2, CellType
  <2> QED
    BY <1>2, <2>3 DEF TypeOK, Store, Advance
<1> QED
  BY <1>1, <1>2

LEMMA ComputeStepType ==
  ASSUME TypeOK, Add \/ Sub \/ Get \/ Put \/ Rst \/ Inc \/ Dec \/ Shl \/ Shr \/ Strk
  PROVE  TypeOK'
<1>Add. CASE Add
  <2>1. Fetch("ADD")
    BY <1>Add DEF Add, Compute
  <2>2. Line.reg \in Registers /\ r[Line.reg] \in Nat /\ r["A"] \in Nat
    BY <2>1, OperandType DEF RegisterOps
  <2>3. r["A"] + r[Line.reg] \in Nat
    BY <2>2 DEF TypeOK
  <2> QED
    BY <1>Add, <2>2, <2>3, ComputeType DEF Add, Registers
<1>Sub. CASE Sub
  <2>1. Fetch("SUB")
    BY <1>Sub DEF Sub, Compute
  <2>2. Line.reg \in Registers /\ r[Line.reg] \in Nat /\ r["A"] \in Nat
    BY <2>1, OperandType DEF RegisterOps
  <2>3. Monus(r["A"], r[Line.reg]) \in Nat
    BY <2>2 DEF TypeOK, Monus
  <2> QED
    BY <1>Sub, <2>2, <2>3, ComputeType DEF Sub, Registers
<1>Get. CASE Get
  <2>1. Fetch("GET")
    BY <1>Get DEF Get, Compute
  <2>2. Line.reg \in Registers /\ r[Line.reg] \in Nat /\ r["A"] \in Nat
    BY <2>1, OperandType DEF RegisterOps
  <2>3. r[Line.reg] \in Nat
    BY <2>2 DEF TypeOK
  <2> QED
    BY <1>Get, <2>2, <2>3, ComputeType DEF Get, Registers
<1>Put. CASE Put
  <2>1. Fetch("PUT")
    BY <1>Put DEF Put, Compute
  <2>2. Line.reg \in Registers /\ r[Line.reg] \in Nat /\ r["A"] \in Nat
    BY <2>1, OperandType DEF RegisterOps
  <2>3. r["A"] \in Nat
    BY <2>2 DEF TypeOK
  <2> QED
    BY <1>Put, <2>2, <2>3, ComputeType DEF Put, Registers
<1>Rst. CASE Rst
  <2>1. Fetch("RST")
    BY <1>Rst DEF Rst, Compute
  <2>2. Line.reg \in Registers /\ r[Line.reg] \in Nat /\ r["A"] \in Nat
    BY <2>1, OperandType DEF RegisterOps
  <2>3. 0 \in Nat
    BY <2>2 DEF TypeOK
  <2> QED
    BY <1>Rst, <2>2, <2>3, ComputeType DEF Rst, Registers
<1>Inc. CASE Inc
  <2>1. Fetch("INC")
    BY <1>Inc DEF Inc, Compute
  <2>2. Line.reg \in Registers /\ r[Line.reg] \in Nat /\ r["A"] \in Nat
    BY <2>1, OperandType DEF RegisterOps
  <2>3. r[Line.reg] + 1 \in Nat
    BY <2>2 DEF TypeOK
  <2> QED
    BY <1>Inc, <2>2, <2>3, ComputeType DEF Inc, Registers
<1>Dec. CASE Dec
  <2>1. Fetch("DEC")
    BY <1>Dec DEF Dec, Compute
  <2>2. Line.reg \in Registers /\ r[Line.reg] \in Nat /\ r["A"] \in Nat
    BY <2>1, OperandType DEF RegisterOps
  <2>3. Monus(r[Line.reg], 1) \in Nat
    BY <2>2 DEF TypeOK, Monus
  <2> QED
    BY <1>Dec, <2>2, <2>3, ComputeType DEF Dec, Registers
<1>Shl. CASE Shl
  <2>1. Fetch("SHL")
    BY <1>Shl DEF Shl, Compute
  <2>2. Line.reg \in Registers /\ r[Line.reg] \in Nat /\ r["A"] \in Nat
    BY <2>1, OperandType DEF RegisterOps
  <2>3. 2 * r[Line.reg] \in Nat
    BY <2>2 DEF TypeOK
  <2> QED
    BY <1>Shl, <2>2, <2>3, ComputeType DEF Shl, Registers
<1>Shr. CASE Shr
  <2>1. Fetch("SHR")
    BY <1>Shr DEF Shr, Compute
  <2>2. Line.reg \in Registers /\ r[Line.reg] \in Nat /\ r["A"] \in Nat
    BY <2>1, OperandType DEF RegisterOps
  <2>3. r[Line.reg] \div 2 \in Nat
    BY <2>2 DEF TypeOK
  <2> QED
    BY <1>Shr, <2>2, <2>3, ComputeType DEF Shr, Registers
<1>Strk. CASE Strk
  <2>1. Fetch("STRK")
    BY <1>Strk DEF Strk, Compute
  <2>2. Line.reg \in Registers /\ r[Line.reg] \in Nat /\ r["A"] \in Nat
    BY <2>1, OperandType DEF RegisterOps
  <2>3. lr \in Nat
    BY <2>2 DEF TypeOK
  <2> QED
    BY <1>Strk, <2>2, <2>3, ComputeType DEF Strk, Registers
<1> QED
  BY <1>Add, <1>Sub, <1>Get, <1>Put, <1>Rst, <1>Inc, <1>Dec, <1>Shl, <1>Shr, <1>Strk

LEMMA JumpType ==
  ASSUME TypeOK, Jump \/ Jpos \/ Jzero \/ Jumpr
  PROVE  TypeOK'
<1>1. CASE Jump
  <2>1. Fetch("JUMP")
    BY <1>1 DEF Jump, Goto
  <2>2. Line.line \in Nat
    BY <2>1, LineType DEF Fetch, JumpOps
  <2> QED
    BY <1>1, <2>2, GotoType DEF Jump
<1>2. CASE Jpos
  <2>1. Fetch("JPOS")
    BY <1>2 DEF Jpos, Goto
  <2>2. Line.line \in Nat /\ lr + 1 \in Nat
    BY <2>1, LineType DEF Fetch, JumpOps, TypeOK
  <2> QED
    BY <1>2, <2>2, GotoType DEF Jpos
<1>3. CASE Jzero
  <2>1. Fetch("JZERO")
    BY <1>3 DEF Jzero, Goto
  <2>2. Line.line \in Nat /\ lr + 1 \in Nat
    BY <2>1, LineType DEF Fetch, JumpOps, TypeOK
  <2> QED
    BY <1>3, <2>2, GotoType DEF Jzero
<1>4. CASE Jumpr
  <2>1. Fetch("JUMPR")
    BY <1>4 DEF Jumpr, Goto
  <2>2. r[Line.reg] \in Nat
    BY <2>1, OperandType DEF RegisterOps
  <2> QED
    BY <1>4, <2>2, GotoType DEF Jumpr
<1> QED
  BY <1>1, <1>2, <1>3, <1>4

LEMMA StepType ==
  ASSUME TypeOK, Step
  PROVE  TypeOK'
<1>1. CASE Write
  <2>1. r["A"] \in Nat
    BY DEF TypeOK, Registers
  <2>2. out' \in Seq(Nat)
    BY <1>1, <2>1 DEF TypeOK, Write
  <2> QED
    BY <1>1, <2>2 DEF TypeOK, Write, Advance
<1> QED
  BY <1>1, ReadType, MemoryType, ComputeStepType, JumpType DEF Step

\* The mnemonic of the line at lr decides which instruction is executed.
LEMMA Decoding ==
  ASSUME Next, ~Error
  PROVE  /\ Line.op = "READ" => Read
         /\ Line.op = "WRITE" => Write
         /\ Line.op = "LOAD" => Load
         /\ Line.op = "STORE" => Store
         /\ Line.op = "ADD" => Add
         /\ Line.op = "SUB" => Sub
         /\ Line.op = "GET" => Get
         /\ Line.op = "PUT" => Put
         /\ Line.op = "RST" => Rst
         /\ Line.op = "INC" => Inc
         /\ Line.op = "DEC" => Dec
         /\ Line.op = "SHL" => Shl
         /\ Line.op = "SHR" => Shr
         /\ Line.op = "STRK" => Strk
         /\ Line.op = "JUMP" => Jump
         /\ Line.op = "JPOS" => Jpos
         /\ Line.op = "JZERO" => Jzero
         /\ Line.op = "JUMPR" => Jumpr
         /\ Line.op = "HALT" => UNCHANGED machine
BY DEF Next, Step, Stop, Halted, Fetch, Compute, Goto,
       Read, Write, Load, Store, Add, Sub, Get, Put, Rst, Inc, Dec, Shl, Shr,
       Strk, Jump, Jpos, Jzero, Jumpr

\* What an instruction does to the registers and where it goes.
Sets(x, v) == lr' = lr + 1 /\ r' = [r EXCEPT ![x] = v]
Goes(n)    == lr' = n /\ r' = r

LEMMA Effects ==
  ASSUME Next, ~Error
  PROVE  /\ Line.op = "ADD"   => Sets("A", r["A"] + r[Line.reg])
         /\ Line.op = "SUB"   => Sets("A", Monus(r["A"], r[Line.reg]))
         /\ Line.op = "GET"   => Sets("A", r[Line.reg])
         /\ Line.op = "PUT"   => Sets(Line.reg, r["A"])
         /\ Line.op = "RST"   => Sets(Line.reg, 0)
         /\ Line.op = "INC"   => Sets(Line.reg, r[Line.reg] + 1)
         /\ Line.op = "SHL"   => Sets(Line.reg, 2 * r[Line.reg])
         /\ Line.op = "SHR"   => Sets(Line.reg, r[Line.reg] \div 2)
         /\ Line.op = "JUMP"  => Goes(Line.line)
         /\ Line.op = "JPOS"  => Goes(IF r["A"] > 0 THEN Line.line ELSE lr + 1)
         /\ Line.op = "JZERO" => Goes(IF r["A"] = 0 THEN Line.line ELSE lr + 1)
         /\ Line.op = "HALT"  => UNCHANGED machine
BY Decoding DEF Add, Sub, Get, Put, Rst, Inc, Shl, Shr, Jump, Jpos, Jzero, Compute, Goto,
                Advance, Sets, Goes

\* No instruction changes the program or the tape.
LEMMA ProgramConstant ==
  ASSUME Next
  PROVE  prog' = prog /\ lines' = lines /\ tape' = tape
<1>1. ASSUME NEW op, NEW cost, NEW x, NEW v, Compute(op, cost, x, v)
      PROVE  prog' = prog /\ lines' = lines /\ tape' = tape
  BY <1>1 DEF Compute
<1>2. ASSUME NEW op, NEW n, Goto(op, n)
      PROVE  prog' = prog /\ lines' = lines /\ tape' = tape
  BY <1>2 DEF Goto
<1>3. CASE Read \/ Write \/ Load \/ Store
  BY <1>3 DEF Read, Write, Load, Store
<1>4. CASE Add \/ Sub \/ Get \/ Put \/ Rst \/ Inc \/ Dec \/ Shl \/ Shr \/ Strk
  BY <1>1, <1>4 DEF Add, Sub, Get, Put, Rst, Inc, Dec, Shl, Shr, Strk
<1>5. CASE Jump \/ Jpos \/ Jzero \/ Jumpr
  BY <1>2, <1>5 DEF Jump, Jpos, Jzero, Jumpr
<1>6. CASE Stop
  BY <1>6 DEF Stop, machine
<1> QED
  BY <1>3, <1>4, <1>5, <1>6 DEF Next, Step

(* The registers, cells, costs and I/O of run_machine stay naturals, and lr *)
(* never becomes negative, for every program of instructions: so the first  *)
(* half of its check lr < 0 || lr >= size() never fires.                    *)
THEOREM MachineTypeOK == Spec => []TypeOK
<1>1. TypeOK /\ [Next]_machine => TypeOK'
  <2> SUFFICES ASSUME TypeOK, [Next]_machine PROVE TypeOK'
    OBVIOUS
  <2>1. CASE Step
    BY <2>1, StepType
  <2>2. CASE UNCHANGED machine
    BY <2>2 DEF TypeOK, machine
  <2> QED
    BY <2>1, <2>2 DEF Next, Stop
<1> QED
  BY InitType, <1>1, PTL DEF Spec
=============================================================================
