--------------------------- MODULE DebuggerProofs ---------------------------
(***************************************************************************)
(* Proofs about the debugger, for every program, input, width of the       *)
(* registers and room on the screen, whatever the user does.               *)
(***************************************************************************)
EXTENDS Debugger, MachineProofs, SequenceTheorems, TLAPS

\* The breakpoints for which the key c stops where it should: a breakpoint
\* behind a WRITE is passed over, and its output is shown twice.
NoneBehindWrite ==
  \A p \in DOMAIN Programs : \A n \in Breakable[p] : n = 0 \/ Programs[p][n].op # "WRITE"

\* What the loop of the key c knows of the instruction its code is from.
CodeIsCurrent ==
  /\ code \in {"RUNNING", "PENDING_INPUT", "PENDING_OUTPUT", "HALTED", "ERROR"}
  /\ handler = "continue" =>
       /\ code = "PENDING_INPUT" => ~Error /\ Line.op = "READ"
       /\ code = "PENDING_OUTPUT" => lr \in Nat \ {0} /\ lines[lr].op = "WRITE"
       /\ code = "HALTED" => Halted
       /\ code = "ERROR" => Error

WaitsAtRead == expects_input => ~Error /\ Line.op = "READ"

Placed == /\ prog \in DOMAIN Programs
          /\ lines = Programs[prog]
          /\ breakpoints \subseteq Breakable[prog]

StopInvariant == Placed /\ expects_input \in BOOLEAN /\ CodeIsCurrent /\ WaitsAtRead

-----------------------------------------------------------------------------
\* An instruction that only computes stays in its program.
LEMMA Computing ==
  ASSUME WordCompute
  PROVE  /\ ~Error /\ Line.op \notin {"READ", "WRITE", "HALT"}
         /\ UNCHANGED <<prog, lines, out>>
BY DEF WordCompute, Load, Store, Get, Put, Rst, Shr, Strk, WordAdd, WordSub, WordInc,
       WordDec, WordShl, Jump, Jpos, Jzero, Jumpr, Compute, Goto, Fetch

\* An instruction with its output or wait: the three cases and where they lead.
LEMMA Executing ==
  ASSUME Execute
  PROVE  /\ ~Error
         /\ UNCHANGED <<prog, lines>>
         /\ Line.op = "WRITE" => lr' \in Nat \ {0} /\ lines'[lr'].op = "WRITE"
         /\ Line.op \in {"READ", "HALT"} => UNCHANGED machine
<1>1. CASE WordCompute
  BY <1>1, Computing
<1>2. CASE Line.op = "WRITE" /\ ShowOutput /\ ~Error
  <2>1. lr \in Nat /\ lr' = lr + 1 /\ lines' = lines /\ prog' = prog
    BY <1>2 DEF ShowOutput, Advance, Error
  <2> QED
    BY <1>2, <2>1 DEF Line
<1>3. CASE Waits /\ UNCHANGED machine /\ ~Error
  BY <1>3 DEF Waits, machine
<1> QED
  BY <1>1, <1>2, <1>3 DEF Execute

\* A step does not take the program from a READ for which the console waits.
LEMMA Stepping ==
  ASSUME StopInvariant, StepOver, UNCHANGED breakpoints
  PROVE  Placed' /\ expects_input' \in BOOLEAN /\ WaitsAtRead'
<1>1. Placed'
  BY Executing DEF StopInvariant, Placed, StepOver
<1>2. expects_input' = (expects_input \/ Line.op = "READ")
  BY DEF StepOver
<1>3. CASE Line.op = "READ"
  <2>1. UNCHANGED machine /\ ~Error
    BY <1>3, Executing DEF StepOver
  <2> QED
    BY <1>1, <1>2, <1>3, <2>1 DEF WaitsAtRead, Error, Line, machine
<1>4. CASE Line.op # "READ"
  BY <1>1, <1>2, <1>4 DEF StopInvariant, WaitsAtRead
<1> QED
  BY <1>3, <1>4

LEMMA Looping ==
  ASSUME StopInvariant, ContinueLoop
  PROVE  StopInvariant'
<1>1. CASE Execute /\ code' = StateCode /\ UNCHANGED handler
  <2>1. handler = "continue" /\ UNCHANGED <<breakpoints, expects_input>>
    BY DEF ContinueLoop
  <2>2. Placed' /\ ~Error
    BY <1>1, <2>1, Executing DEF StopInvariant, Placed
  <2>3. CASE Line.op \in {"READ", "HALT"}
    <3>1. UNCHANGED machine
      BY <1>1, <2>3, Executing
    <3>2. code' = IF Line.op = "READ" THEN "PENDING_INPUT" ELSE "HALTED"
      BY <1>1, <2>3 DEF StateCode, Reported
    <3>3. Error' = Error /\ Line' = Line /\ lines' = lines
      BY <3>1 DEF machine, Error, Line
    <3> QED
      BY <2>1, <2>2, <2>3, <3>2, <3>3
      DEF StopInvariant, CodeIsCurrent, WaitsAtRead, Halted
  <2>4. CASE Line.op \notin {"READ", "HALT"}
    <3>1. ~expects_input
      BY <2>4 DEF StopInvariant, WaitsAtRead
    <3>2. CASE Line.op = "WRITE"
      <4>1. code' = "PENDING_OUTPUT"
        BY <1>1, <3>2 DEF StateCode, Reported
      <4> QED
        BY <1>1, <2>1, <2>2, <3>1, <3>2, <4>1, Executing
        DEF StopInvariant, CodeIsCurrent, WaitsAtRead
    <3>3. CASE Line.op # "WRITE"
      <4>1. lines' = lines
        BY <1>1, Executing
      <4>2. code' = IF lr' \in 0 .. Len(lines) - 1 THEN "RUNNING" ELSE "ERROR"
        BY <1>1, <2>4, <3>3 DEF StateCode, Reported
      <4>3. code' = "ERROR" => Error'
        BY <4>1, <4>2 DEF Error
      <4> QED
        BY <2>1, <2>2, <3>1, <4>2, <4>3 DEF StopInvariant, CodeIsCurrent, WaitsAtRead
    <3> QED
      BY <3>2, <3>3
  <2> QED
    BY <2>3, <2>4
<1>2. CASE RunAway /\ UNCHANGED <<machine, code, output>>
  BY <1>2 DEF ContinueLoop, RunAway, StopInvariant, Placed, CodeIsCurrent, WaitsAtRead,
              machine, Error, Line
<1> QED
  BY <1>1, <1>2 DEF ContinueLoop

\* The end of the loop shows no output a second time: the loop goes on with a
\* PENDING_OUTPUT unless a breakpoint is behind the WRITE.
LEMMA NoSecondOutput ==
  ASSUME NoneBehindWrite, StopInvariant, ContinueEnd
  PROVE  UNCHANGED machine /\ code # "PENDING_OUTPUT"
<1>1. handler = "continue" /\ ~GoesOn
  BY DEF ContinueEnd
<1>2. SUFFICES ASSUME code = "PENDING_OUTPUT" PROVE FALSE
  BY DEF ContinueEnd
<1>3. lr \in breakpoints
  BY <1>1, <1>2 DEF GoesOn, AtBreakpoint
<1>4. lr # 0 /\ Programs[prog][lr].op = "WRITE"
  BY <1>1, <1>2 DEF StopInvariant, CodeIsCurrent, Placed
<1> QED
  BY <1>3, <1>4 DEF NoneBehindWrite, StopInvariant, Placed

LEMMA Ending ==
  ASSUME NoneBehindWrite, StopInvariant, ContinueEnd
  PROVE  StopInvariant' /\ (AtBreakpoint \/ Error \/ Halted \/ expects_input)'
<1>1. UNCHANGED machine /\ code # "PENDING_OUTPUT"
  BY NoSecondOutput
<1>2. /\ handler = "continue" /\ ~GoesOn
      /\ expects_input' = (expects_input \/ code = "PENDING_INPUT")
      /\ handler' = "none" /\ code' = "RUNNING" /\ UNCHANGED breakpoints
  BY DEF ContinueEnd
<1>3. /\ Error' = Error /\ Line' = Line /\ Halted' = Halted
      /\ AtBreakpoint' = AtBreakpoint /\ UNCHANGED <<prog, lines>>
  BY <1>1, <1>2 DEF machine, Error, Line, Halted, AtBreakpoint
<1>4. StopInvariant'
  BY <1>2, <1>3 DEF StopInvariant, Placed, CodeIsCurrent, WaitsAtRead
<1>5. (AtBreakpoint \/ Error \/ Halted \/ expects_input)'
  BY <1>1, <1>2, <1>3 DEF StopInvariant, CodeIsCurrent, GoesOn
<1> QED
  BY <1>4, <1>5

LEMMA StopInvariantKept ==
  ASSUME NoneBehindWrite, StopInvariant, [DebuggerNext]_debugger
  PROVE  StopInvariant'
<1>1. CASE StepKey
  <2>1. CASE StepOver /\ UNCHANGED <<handler, breakpoints, code>>
    <3>1. handler = "none"
      BY <1>1 DEF StepKey
    <3> QED
      BY <2>1, <3>1, Stepping DEF StopInvariant, CodeIsCurrent
  <2>2. CASE RunAway /\ UNCHANGED <<machine, expects_input, breakpoints, code>>
    BY <2>2 DEF StopInvariant, Placed, CodeIsCurrent, WaitsAtRead, RunAway, machine,
                Error, Line
  <2> QED
    BY <1>1, <2>1, <2>2 DEF StepKey
<1>2. CASE ContinueKey
  <2>1. code' = "RUNNING" /\ UNCHANGED breakpoints
    BY <1>2 DEF ContinueKey
  <2>2. CASE StepOver
    BY <2>1, <2>2, Stepping DEF StopInvariant, CodeIsCurrent
  <2>3. CASE UNCHANGED <<machine, expects_input>>
    BY <2>1, <2>3 DEF StopInvariant, Placed, CodeIsCurrent, WaitsAtRead, machine, Error, Line
  <2> QED
    BY <1>2, <2>2, <2>3 DEF ContinueKey
<1>3. CASE ContinueLoop
  BY <1>3, Looping
<1>4. CASE ContinueEnd
  BY <1>4, Ending
<1>5. CASE Toggle
  BY <1>5 DEF Toggle, StopInvariant, Placed, CodeIsCurrent, WaitsAtRead, machine, Error, Line
<1>6. CASE SubmitNumber
  BY <1>6 DEF SubmitNumber, StopInvariant, Placed, CodeIsCurrent, WaitsAtRead
<1>7. CASE SubmitMalformed \/ QuitKey \/ Over \/ UNCHANGED debugger
  BY <1>7 DEF SubmitMalformed, QuitKey, Over, debugger, ui, machine, StopInvariant, Placed,
              CodeIsCurrent, WaitsAtRead, Error, Halted, Line
<1> QED
  BY <1>1, <1>2, <1>3, <1>4, <1>5, <1>6, <1>7 DEF DebuggerNext

\* The loop of the key c is left by ContinueEnd only.
LEMMA LeavingTheLoop ==
  ASSUME [DebuggerNext]_debugger, handler = "continue", handler' = "none"
  PROVE  ContinueEnd
BY DEF DebuggerNext, StepKey, ContinueKey, ContinueLoop, RunAway, Toggle, SubmitNumber,
       SubmitMalformed, QuitKey, Over, debugger, ui

\* Where no breakpoint is put behind a WRITE the key c never stops without a
\* reason, and the console never takes for an input what was not asked for.
THEOREM StopsForReasonHolds ==
  ASSUME NoneBehindWrite
  PROVE  DebuggerSpec => StopsForReason
<1>1. DebuggerInit => StopInvariant
  BY DEF DebuggerInit, Init, StopInvariant, Placed, CodeIsCurrent, WaitsAtRead
<1>2. StopInvariant /\ [DebuggerNext]_debugger => StopInvariant'
  BY StopInvariantKept
<1>3. StopInvariant /\ [DebuggerNext]_debugger
        => [ /\ handler = "continue" /\ handler' = "none"
                => (AtBreakpoint \/ Error \/ Halted \/ expects_input)'
             /\ expects_input' => (~Error /\ Line.op = "READ")' ]_debugger
  <2> SUFFICES ASSUME StopInvariant, [DebuggerNext]_debugger
               PROVE  /\ handler = "continue" /\ handler' = "none"
                           => (AtBreakpoint \/ Error \/ Halted \/ expects_input)'
                      /\ expects_input' => (~Error /\ Line.op = "READ")'
    OBVIOUS
  <2>1. handler = "continue" /\ handler' = "none"
          => (AtBreakpoint \/ Error \/ Halted \/ expects_input)'
    BY LeavingTheLoop, Ending
  <2>2. expects_input' => (~Error /\ Line.op = "READ")'
    BY StopInvariantKept DEF StopInvariant, WaitsAtRead
  <2> QED
    BY <2>1, <2>2
<1> QED
  BY <1>1, <1>2, <1>3, PTL DEF DebuggerSpec, StopsForReason

-----------------------------------------------------------------------------
\* The last outputs, as many as there is room for, begin at First.
First(n)  == IF n > Shown THEN n - Shown + 1 ELSE 1
Latest(s) == SubSeq(s, First(Len(s)), Len(s))

LEMMA LatestProperties ==
  ASSUME NEW S, NEW s \in Seq(S)
  PROVE  /\ Latest(s) \in Seq(S)
         /\ Len(Latest(s)) = Len(s) - First(Len(s)) + 1
         /\ \A i \in 1 .. Len(Latest(s)) : Latest(s)[i] = s[First(Len(s)) + i - 1]
<1>1. Len(s) \in Nat
  BY LenProperties
<1>2. First(Len(s)) \in Int /\ 1 <= First(Len(s)) /\ First(Len(s)) <= Len(s) + 1
  BY <1>1, ShownAssumption DEF First
<1>3. \A i \in First(Len(s)) .. Len(s) : s[i] \in S
  BY <1>2, ElementOfSeq
<1> QED
  BY <1>1, <1>2, <1>3, SubSeqProperties DEF Latest

\* Showing one more output keeps the latest of them.
LEMMA PushedLatest ==
  ASSUME NEW S, NEW s \in Seq(S), NEW v \in S, output = Latest(s)
  PROVE  Pushed(v) = Latest(Append(s, v))
<1> DEFINE longer == Append(output, v)
           all    == Append(s, v)
           n      == Len(s)
<1>1. /\ n \in Nat /\ First(n) \in Nat \ {0} /\ First(n) <= n + 1
  BY LenProperties, ShownAssumption DEF First
<1>2. /\ output \in Seq(S) /\ Len(output) = n - First(n) + 1
      /\ \A i \in 1 .. n - First(n) + 1 : output[i] = s[First(n) + i - 1]
  BY LatestProperties
<1>3. /\ all \in Seq(S) /\ Len(all) = n + 1 /\ all[n + 1] = v
      /\ \A i \in 1 .. n : all[i] = s[i]
  BY AppendProperties
<1>4. /\ longer \in Seq(S) /\ longer # <<>> /\ Len(longer) = n - First(n) + 2
      /\ longer[n - First(n) + 2] = v
      /\ \A i \in 1 .. n - First(n) + 1 : longer[i] = output[i]
  BY <1>2, <1>1, AppendProperties
<1>5. \A i \in 1 .. Len(longer) : longer[i] = all[First(n) + i - 1]
  <2> SUFFICES ASSUME NEW i \in 1 .. n - First(n) + 2 PROVE longer[i] = all[First(n) + i - 1]
    BY <1>4
  <2>1. CASE i = n - First(n) + 2
    <3>1. First(n) + i - 1 = n + 1
      BY <1>1, <2>1
    <3> QED
      BY <1>3, <1>4, <2>1, <3>1
  <2>2. CASE i # n - First(n) + 2
    <3>1. i \in 1 .. n - First(n) + 1 /\ First(n) + i - 1 \in 1 .. n
      BY <1>1, <2>2
    <3> QED
      BY <1>2, <1>3, <1>4, <3>1
  <2> QED
    BY <2>1, <2>2
<1>6. /\ Latest(all) \in Seq(S)
      /\ Len(Latest(all)) = Len(all) - First(Len(all)) + 1
      /\ \A i \in 1 .. Len(Latest(all)) : Latest(all)[i] = all[First(Len(all)) + i - 1]
  BY <1>3, LatestProperties
<1> HIDE DEF longer, all, n
<1>7. CASE Len(longer) > Shown
  <2>1. Pushed(v) = Tail(longer)
    BY <1>7 DEF Pushed, longer
  <2>2. First(Len(all)) = First(n) + 1
    BY <1>1, <1>3, <1>4, <1>7, ShownAssumption DEF First
  <2>3. /\ Tail(longer) \in Seq(S) /\ Len(Tail(longer)) = Len(longer) - 1
        /\ \A i \in 1 .. Len(longer) - 1 : Tail(longer)[i] = longer[i + 1]
    BY <1>4, HeadTailProperties
  <2>4. Len(Tail(longer)) = Len(Latest(all))
    BY <1>1, <1>3, <1>4, <1>6, <2>2, <2>3
  <2>5. ASSUME NEW i \in 1 .. Len(Tail(longer)) PROVE Tail(longer)[i] = Latest(all)[i]
    <3>1. Tail(longer)[i] = all[First(n) + (i + 1) - 1]
      BY <1>1, <1>4, <1>5, <2>3
    <3>2. Latest(all)[i] = all[First(n) + 1 + i - 1]
      BY <1>6, <2>2, <2>4
    <3>3. First(n) + (i + 1) - 1 = First(n) + 1 + i - 1
      BY <1>1
    <3> QED
      BY <3>1, <3>2, <3>3
  <2> QED
    BY <1>6, <2>1, <2>3, <2>4, <2>5, SeqEqual DEF all
<1>8. CASE ~(Len(longer) > Shown)
  <2>1. Pushed(v) = longer
    BY <1>8 DEF Pushed, longer
  <2>2. First(n) = 1 /\ First(Len(all)) = 1
    BY <1>1, <1>3, <1>4, <1>8, ShownAssumption DEF First
  <2>3. Len(longer) = Len(Latest(all))
    BY <1>1, <1>3, <1>4, <1>6, <2>2
  <2>4. \A i \in 1 .. Len(longer) : longer[i] = Latest(all)[i]
    BY <1>5, <1>6, <2>2, <2>3
  <2> QED
    BY <1>4, <1>6, <2>1, <2>3, <2>4, SeqEqual DEF all
<1> QED
  BY <1>7, <1>8

-----------------------------------------------------------------------------
\* What is shown and what was written belong together at every time, the line
\* and the registers when an event has been handled.
OutputInvariant == (\E S : out \in Seq(S)) /\ output = Latest(out)
PlaceInvariant  == handler = "none" => selected_line = lr /\ registers = r

LEMMA Showing ==
  ASSUME OutputInvariant, ShowOutput
  PROVE  OutputInvariant'
<1>1. PICK S : out \in Seq(S)
  BY DEF OutputInvariant
<1> DEFINE T == S \cup {r["A"]}
<1>2. out \in Seq(T) /\ r["A"] \in T
  BY <1>1
<1>3. output' = Latest(Append(out, r["A"])) /\ out' = Append(out, r["A"])
  BY <1>2, PushedLatest DEF OutputInvariant, ShowOutput
<1>4. out' \in Seq(T)
  BY <1>2, <1>3, AppendProperties
<1> HIDE DEF T
<1> QED
  BY <1>3, <1>4 DEF OutputInvariant, Latest, First

LEMMA Unshown ==
  ASSUME OutputInvariant, UNCHANGED <<out, output>>
  PROVE  OutputInvariant'
BY DEF OutputInvariant, Latest, First

\* No step shows an output that was not written, or forgets one.
LEMMA OutputKept ==
  ASSUME OutputInvariant, [DebuggerNext]_debugger
  PROVE  OutputInvariant'
<1>1. ASSUME Execute PROVE OutputInvariant'
  BY <1>1, Computing, Showing, Unshown DEF Execute, machine
<1>2. CASE StepKey \/ ContinueKey \/ ContinueLoop
  BY <1>1, <1>2, Unshown DEF StepKey, ContinueKey, ContinueLoop, StepOver, RunAway, machine
<1>3. CASE ContinueEnd
  BY <1>3, Showing, Unshown DEF ContinueEnd, machine
<1>4. CASE Toggle \/ SubmitNumber \/ SubmitMalformed \/ QuitKey \/ Over \/ UNCHANGED debugger
  BY <1>4, Unshown DEF Toggle, SubmitNumber, SubmitMalformed, QuitKey, Over, debugger, ui,
                       machine
<1> QED
  BY <1>2, <1>3, <1>4 DEF DebuggerNext

\* Every handler that ends brings the screen up to date.
LEMMA PlaceKept ==
  ASSUME PlaceInvariant, [DebuggerNext]_debugger
  PROVE  PlaceInvariant'
BY DEF PlaceInvariant, DebuggerNext, StepKey, ContinueKey, ContinueLoop, ContinueEnd, StepOver,
       RunAway, UpdateUi, Toggle, SubmitNumber, SubmitMalformed, QuitKey, Over, debugger, ui,
       machine

\* Between two events the screen shows the line at lr, the registers and the
\* latest outputs, wherever breakpoints are.
THEOREM ScreenIsCurrentHolds == DebuggerSpec => []ScreenIsCurrent
<1>1. DebuggerInit => OutputInvariant /\ PlaceInvariant
  <2> SUFFICES ASSUME DebuggerInit PROVE OutputInvariant /\ PlaceInvariant
    OBVIOUS
  <2>1. out = <<>> /\ output = <<>>
    BY DEF DebuggerInit, Init
  <2>2. out \in Seq({}) /\ Latest(out) = <<>>
    <3>1. Len(out) = 0 /\ First(0) = 1
      BY <2>1, ShownAssumption DEF First
    <3> QED
      BY <2>1, <3>1, SubSeqEmpty DEF Latest
  <2>3. PlaceInvariant
    BY DEF DebuggerInit, Init, PlaceInvariant
  <2> QED
    BY <2>1, <2>2, <2>3 DEF OutputInvariant
<1>2. OutputInvariant /\ PlaceInvariant /\ [DebuggerNext]_debugger
        => OutputInvariant' /\ PlaceInvariant'
  BY OutputKept, PlaceKept
<1>3. OutputInvariant /\ PlaceInvariant => ScreenIsCurrent
  BY DEF OutputInvariant, PlaceInvariant, ScreenIsCurrent, Latest, First
<1> QED
  BY <1>1, <1>2, <1>3, PTL DEF DebuggerSpec
-----------------------------------------------------------------------------
Short == 0 .. Half - 1

\* What is left behind in the registers fits the long long it is stored in.
NarrowJunk == Junk \subseteq [Registers -> Short]

\* The result of the instruction at lr is no larger than a long long.
Fits == ~Error => /\ Line.op = "ADD" => r["A"] + r[Line.reg] < Half
                  /\ Line.op = "INC" => r[Line.reg] + 1 < Half
                  /\ Line.op = "SHL" => 2 * r[Line.reg] < Half
                  /\ Line.op = "STRK" => lr < Half

Narrow == /\ r \in [Registers -> Short]
          /\ \A a \in DOMAIN pam : pam[a] \in Short

LEMMA Unwrapped ==
  ASSUME NEW n \in Short
  PROVE  Wrap(n) = n /\ n % (2 * Half) = n
<1>1. /\ Half \in Nat /\ Half >= 2 /\ n \in Nat /\ n < Half
  BY HalfAssumption DEF Short
<1> DEFINE w == 2 * Half
<1>2. w \in Nat /\ n + Half \in Nat /\ n + Half < w /\ n < w /\ w > 0
  BY <1>1
<1>3. ASSUME NEW a \in Nat, NEW b \in Nat, a < b PROVE a % b = a
  BY <1>3
<1>4. (n + Half) % w = n + Half /\ n % w = n
  <2> HIDE DEF w
  <2> QED BY <1>2, <1>3, <1>1
<1> QED
  BY <1>1, <1>4 DEF Wrap

\* An instruction that computes has the effect it has on unbounded naturals.
LEMMA Wide ==
  ASSUME TypeOK, Narrow, Fits, WordCompute
  PROVE  Step /\ Narrow'
<1>1. /\ Half \in Nat /\ Half >= 2 /\ Short \subseteq Nat
      /\ \A n \in Short : n < Half
      /\ \A n \in Nat : n < Half => n \in Short
  BY HalfAssumption DEF Short
<1>2. ~Error
  BY DEF WordCompute, Load, Store, Get, Put, Rst, Shr, Strk, WordAdd, WordSub, WordInc,
         WordDec, WordShl, Jump, Jpos, Jzero, Jumpr, Compute, Goto, Fetch
<1>3. r["A"] \in Short /\ \A x \in Registers : r[x] \in Short
  BY DEF Narrow, Registers
<1>4. Line.op \in RegisterOps => Line.reg \in Registers /\ r[Line.reg] \in Short
  BY <1>2, <1>3, LineType
<1>5. ASSUME NEW op, NEW cost, NEW x, NEW v \in Short, Compute(op, cost, x, v)
      PROVE  Narrow'
  BY <1>5 DEF Narrow, Compute
<1>Add. CASE WordAdd
  <2>1. ~Error /\ Line.op = "ADD"
    BY <1>Add DEF WordAdd, Compute, Fetch
  <2>2. r["A"] + r[Line.reg] \in Short
    BY <1>1, <1>3, <1>4, <2>1 DEF Fits, RegisterOps, Short
  <2>3. Compute("ADD", 5, "A", r["A"] + r[Line.reg])
    BY <1>Add, <2>2, Unwrapped DEF WordAdd
  <2> QED
    BY <1>5, <2>2, <2>3 DEF Add, Step
<1>Sub. CASE WordSub
  <2>1. ~Error /\ Line.op = "SUB"
    BY <1>Sub DEF WordSub, Compute, Fetch
  <2>2. Monus(r["A"], r[Line.reg]) \in Short
    BY <1>1, <1>3, <1>4, <2>1 DEF Monus, RegisterOps, Short
  <2> QED
    BY <1>5, <1>Sub, <2>2, Unwrapped DEF WordSub, Sub, Step
<1>Inc. CASE WordInc
  <2>1. ~Error /\ Line.op = "INC"
    BY <1>Inc DEF WordInc, Compute, Fetch
  <2>2. r[Line.reg] + 1 \in Short
    BY <1>1, <1>3, <1>4, <2>1 DEF Fits, RegisterOps, Short
  <2>3. Compute("INC", 1, Line.reg, r[Line.reg] + 1)
    BY <1>Inc, <2>2, Unwrapped DEF WordInc
  <2> QED
    BY <1>5, <2>2, <2>3 DEF Inc, Step
<1>Shl. CASE WordShl
  <2>1. ~Error /\ Line.op = "SHL"
    BY <1>Shl DEF WordShl, Compute, Fetch
  <2>2. 2 * r[Line.reg] \in Short
    BY <1>1, <1>3, <1>4, <2>1 DEF Fits, RegisterOps, Short
  <2>3. Compute("SHL", 1, Line.reg, 2 * r[Line.reg])
    BY <1>Shl, <2>2, Unwrapped DEF WordShl
  <2> QED
    BY <1>5, <2>2, <2>3 DEF Shl, Step
<1>Dec. CASE WordDec
  <2>1. Line.op = "DEC"
    BY <1>Dec DEF WordDec, Compute, Fetch
  <2> DEFINE v == IF r[Line.reg] > 0 THEN r[Line.reg] - 1 ELSE r[Line.reg]
  <2>2. v \in Short /\ v = Monus(r[Line.reg], 1)
    BY <1>1, <1>4, <2>1 DEF RegisterOps, Monus, Short
  <2>3. Compute("DEC", 1, Line.reg, v)
    BY <1>Dec DEF WordDec
  <2> HIDE DEF v
  <2> QED
    BY <1>5, <2>2, <2>3 DEF Dec, Step
<1>Get. CASE Get \/ Put \/ Rst
  <2>1. Line.op \in {"GET", "PUT", "RST"}
    BY <1>Get DEF Get, Put, Rst, Compute, Fetch
  <2>2. r[Line.reg] \in Short /\ r["A"] \in Short /\ 0 \in Short
    BY <1>1, <1>3, <1>4, <2>1 DEF RegisterOps
  <2> QED
    BY <1>5, <1>Get, <2>2 DEF Get, Put, Rst, Step
<1>Shr. CASE Shr
  <2>1. Line.op = "SHR"
    BY <1>Shr DEF Shr, Compute, Fetch
  <2>2. r[Line.reg] \div 2 \in Short
    BY <1>1, <1>4, <2>1 DEF RegisterOps, Short
  <2> QED
    BY <1>5, <1>Shr, <2>2 DEF Shr, Step
<1>Strk. CASE Strk
  <2>1. ~Error /\ Line.op = "STRK"
    BY <1>Strk DEF Strk, Compute, Fetch
  <2>2. lr \in Short
    BY <1>1, <2>1 DEF Fits, TypeOK
  <2> QED
    BY <1>5, <1>Strk, <2>2 DEF Strk, Step
<1>Load. CASE Load
  <2>1. Cell(r[Line.reg]) \in Short
    BY <1>1 DEF Cell, Narrow
  <2> QED
    BY <1>Load, <2>1 DEF Load, WithCell, Narrow, Step
<1>Store. CASE Store
  BY <1>3, <1>Store DEF Store, WithCell, Narrow, Step
<1>Jump. CASE Jump \/ Jpos \/ Jzero \/ Jumpr
  <2>1. UNCHANGED <<r, pam>>
    BY <1>Jump DEF Jump, Jpos, Jzero, Jumpr, Goto
  <2> QED
    BY <1>Jump, <2>1 DEF Narrow, Step
<1> QED
  BY <1>Add, <1>Sub, <1>Inc, <1>Shl, <1>Dec, <1>Get, <1>Shr, <1>Strk, <1>Load, <1>Store,
     <1>Jump DEF WordCompute

\* A number that is shown or typed in, where the machine writes or reads it.
LEMMA WideOutput ==
  ASSUME TypeOK, Narrow, ~Error, Line.op = "WRITE", ShowOutput
  PROVE  Step /\ Narrow'
BY DEF ShowOutput, Write, Fetch, Step, Narrow

LEMMA WideInput ==
  ASSUME TypeOK, Narrow, WaitsAtRead, SubmitNumber
  PROVE  Step /\ Narrow'
<1>1. ~Error /\ Line.op = "READ" /\ nread < Len(tape)
  BY DEF SubmitNumber, WaitsAtRead
<1>2. tape[nread + 1] \in Short
  <2>1. tape[nread + 1] \in Word
    BY DEF SubmitNumber
  <2>2. nread + 1 \in 1 .. Len(tape) /\ tape \in Seq(Nat)
    BY <1>1 DEF TypeOK
  <2>3. tape[nread + 1] \in Nat
    BY <2>2, ElementOfSeq
  <2> QED
    BY <2>1, <2>3, HalfAssumption DEF Word, Short
<1>3. Read
  BY <1>1 DEF SubmitNumber, Read, Fetch
<1>4. Narrow'
  BY <1>2 DEF SubmitNumber, Narrow
<1> QED
  BY <1>3, <1>4 DEF Step

LEMMA WideExecute ==
  ASSUME TypeOK, Narrow, Fits, Execute
  PROVE  [Step]_machine /\ Narrow'
<1>1. CASE WordCompute
  BY <1>1, Wide
<1>2. CASE Line.op = "WRITE" /\ ShowOutput /\ ~Error
  BY <1>2, WideOutput
<1>3. CASE UNCHANGED machine
  BY <1>3 DEF machine, Narrow
<1> QED
  BY <1>1, <1>2, <1>3 DEF Execute

LEMMA WideDebugger ==
  ASSUME NoneBehindWrite, StopInvariant, TypeOK, Narrow, Fits,
         [DebuggerNext]_debugger
  PROVE  [Next]_machine /\ TypeOK' /\ Narrow'
<1>1. ASSUME [Step]_machine /\ Narrow' PROVE [Next]_machine /\ TypeOK' /\ Narrow'
  <2>1. CASE Step
    BY <1>1, <2>1, StepType DEF Next
  <2>2. CASE UNCHANGED machine
    BY <1>1, <2>2 DEF machine, TypeOK
  <2> QED
    BY <1>1, <2>1, <2>2
<1>2. CASE Execute
  BY <1>1, <1>2, WideExecute
<1>3. CASE SubmitNumber
  BY <1>1, <1>3, WideInput DEF StopInvariant
<1>4. CASE UNCHANGED machine
  BY <1>1, <1>4 DEF machine, Narrow
<1>5. CASE ContinueEnd
  BY <1>4, <1>5, NoSecondOutput
<1>6. CASE StepKey \/ ContinueKey \/ ContinueLoop
  BY <1>2, <1>4, <1>6 DEF StepKey, ContinueKey, ContinueLoop, StepOver, machine
<1>7. CASE Toggle \/ SubmitMalformed \/ QuitKey \/ Over \/ UNCHANGED debugger
  BY <1>4, <1>7 DEF Toggle, SubmitMalformed, QuitKey, Over, debugger, machine
<1> QED
  BY <1>3, <1>5, <1>6, <1>7 DEF DebuggerNext

\* The debugger executes a program as run_machine does, whatever keys are
\* pressed, as long as no result is too large for a register of 64 bits and no
\* breakpoint is put behind a WRITE.
THEOREM DebuggerImplementsMachine ==
  ASSUME NoneBehindWrite, NarrowJunk
  PROVE  DebuggerSpec /\ []Fits => ImplementsMachine
<1> DEFINE IInv == StopInvariant /\ TypeOK /\ Narrow
<1>1. DebuggerInit => Init /\ IInv
  <2> SUFFICES ASSUME DebuggerInit PROVE Init /\ IInv
    OBVIOUS
  <2>1. Init
    BY DEF DebuggerInit
  <2>2. StopInvariant
    BY <2>1 DEF DebuggerInit, Init, StopInvariant, Placed, CodeIsCurrent, WaitsAtRead
  <2>3. Narrow
    BY <2>1 DEF Init, Narrow, NarrowJunk
  <2> QED
    BY <2>1, <2>2, <2>3, InitType
<1>2. IInv /\ Fits /\ [DebuggerNext]_debugger => IInv' /\ [Next]_machine
  BY StopInvariantKept, WideDebugger
<1> QED
  BY <1>1, <1>2, PTL DEF DebuggerSpec, ImplementsMachine

-----------------------------------------------------------------------------
\* Every number on every tape is one a long long holds.
NarrowTapes == \A p \in DOMAIN Programs : Tapes[p] \subseteq Seq(Short)

TapeNarrow == tape \in Seq(Short)

\* run_machine of vm/mw.cc executes a program as the one of vm-cln/mw-cln.cc
\* does, as long as no result and no input is too large for its registers.
THEOREM WordMachineImplementsMachine ==
  ASSUME NarrowJunk, NarrowTapes
  PROVE  WordSpec /\ []Fits => Init /\ [][Next]_machine
<1> DEFINE IInv == TypeOK /\ Narrow /\ TapeNarrow
<1>1. Init => IInv
  BY InitType DEF Init, Narrow, NarrowJunk, NarrowTapes, TapeNarrow
<1>2. IInv /\ Fits /\ [WordNext]_machine => IInv' /\ [Next]_machine
  <2> SUFFICES ASSUME IInv, Fits, [WordNext]_machine PROVE IInv' /\ [Next]_machine
    OBVIOUS
  <2>1. CASE WordCompute
    <3>1. Step /\ Narrow'
      BY <2>1, Wide
    <3> QED
      BY <3>1, StepType, ProgramConstant DEF Next, TapeNarrow
  <2>2. CASE WordRead
    <3>1. nread + 1 \in 1 .. Len(tape) /\ tape \in Seq(Short)
      BY <2>2 DEF WordRead, TypeOK, TapeNarrow
    <3>2. tape[nread + 1] \in Short
      BY <3>1, ElementOfSeq
    <3>3. Read
      BY <2>2, <3>2, Unwrapped DEF WordRead, Read
    <3>4. Narrow' /\ TapeNarrow'
      BY <3>2, <3>3 DEF Read, Narrow, TapeNarrow
    <3> QED
      BY <3>3, <3>4, StepType DEF Next, Step
  <2>3. CASE WordWrite
    <3>1. r["A"] \in Short
      BY DEF Narrow, Registers
    <3>2. Write
      BY <2>3, <3>1, Unwrapped DEF WordWrite, Write
    <3>3. Narrow' /\ TapeNarrow'
      BY <3>2 DEF Write, Narrow, TapeNarrow
    <3> QED
      BY <3>2, <3>3, StepType DEF Next, Step
  <2>4. CASE UNCHANGED machine
    BY <2>4 DEF machine, TypeOK, Narrow, TapeNarrow
  <2> QED
    BY <2>1, <2>2, <2>3, <2>4 DEF WordNext, WordStep, Stop
<1> QED
  BY <1>1, <1>2, PTL DEF WordSpec
=============================================================================
