------------------------------ MODULE Debugger ------------------------------
(***************************************************************************)
(* debugger/: a program executed on the keys and lines of a user, by a     *)
(* machine of its own (debugger-wm.cpp), whose instructions are those of   *)
(* vm/mw.cc but that READ and WRITE are left to the user interface.        *)
(*                                                                         *)
(* The user interface is one thread that handles an event at a time.  An   *)
(* event is one action, but the loop of the key c, which is one action per *)
(* iteration.  The tape of Machine is what the user will type as input.    *)
(* Drawing, colours, focus and scrolling are left out.                     *)
(***************************************************************************)
EXTENDS WordMachine

CONSTANTS
  Breakable,  \* for every program, the lines on which breakpoints are put
  Shown       \* how many outputs the screen has room for: 10

ASSUME ShownAssumption == Shown \in Nat

VARIABLES
  breakpoints,    \* LinesDisplay::breakpoints
  expects_input,  \* the console takes the next line for an input
  handler,        \* "none" (waiting for an event), "continue", or how it ended
  code,           \* the StateCode in the loop of the key c
  output,         \* the outputs shown
  selected_line,  \* what update_ui last showed of lr and of the registers
  registers

ui == <<breakpoints, expects_input, handler, code, output, selected_line, registers>>
debugger == <<machine, ui>>

DebuggerInit ==
  /\ Init
  /\ breakpoints = {}
  /\ expects_input = FALSE
  /\ handler = "none"
  /\ code = "RUNNING"
  /\ output = <<>>
  /\ selected_line = lr
  /\ registers = r

-----------------------------------------------------------------------------
BadUpdateUi == selected_line' = lr /\ registers' = r
UpdateUi == selected_line' = lr' /\ registers' = r'

Pushed(v) == LET longer == Append(output, v)
             IN IF Len(longer) > Shown THEN Tail(longer) ELSE longer

\* push_output(vm.get_output()), whatever instruction is at lr
ShowOutput ==
  /\ output' = Pushed(r["A"])
  /\ out' = Append(out, r["A"])
  /\ io' = io + 100
  /\ Advance(0)
  /\ UNCHANGED <<prog, lines, r, pam, tape, nread>>

\* What process_next_instruction returns for the instruction at lr: for some it
\* leaves the work to its caller, any other has been executed.
Reported == [READ |-> "PENDING_INPUT", WRITE |-> "PENDING_OUTPUT", HALT |-> "HALTED"]
StateCode ==
  IF Line.op \in DOMAIN Reported THEN Reported[Line.op]
  ELSE IF lr' \in 0 .. Len(lines) - 1 THEN "RUNNING" ELSE "ERROR"
Waits == Line.op \in {"READ", "HALT"}

\* The instruction at lr with the output or the wait that it may call for.
Execute ==
  /\ ~Error
  /\ \/ WordCompute /\ UNCHANGED output
     \/ Line.op = "WRITE" /\ ShowOutput
     \/ Waits /\ UNCHANGED <<machine, output>>

\* step()
StepOver ==
  /\ Execute
  /\ expects_input' = (expects_input \/ Line.op = "READ")
  /\ UpdateUi

\* Indexing behind the instructions has no defined outcome.
RunAway == Error /\ handler' = "crashed"

-----------------------------------------------------------------------------
StepKey ==
  /\ handler = "none"
  /\ \/ StepOver /\ UNCHANGED handler
     \/ RunAway /\ UNCHANGED <<machine, expects_input, output, selected_line, registers>>
  /\ UNCHANGED <<breakpoints, code>>

\* The key c: leave a breakpoint, then the loop.
AtBreakpoint == lr \in breakpoints

BadContinueKey ==
  /\ handler = "none"
  /\ handler' = "continue"
  /\ code' = "RUNNING"
  /\ UNCHANGED <<machine, breakpoints, expects_input, output, selected_line, registers>>
ContinueKey ==
  /\ handler = "none"
  /\ handler' = "continue"
  /\ code' = "RUNNING"
  /\ IF AtBreakpoint THEN StepOver
     ELSE UNCHANGED <<machine, expects_input, output, selected_line, registers>>
  /\ UNCHANGED breakpoints

EarlyGoesOn == ~AtBreakpoint /\ code = "RUNNING"
BadGoesOn == ~AtBreakpoint /\ code \in {"RUNNING", "PENDING_OUTPUT", "HALTED"}
GoesOn == ~AtBreakpoint /\ code \in {"RUNNING", "PENDING_OUTPUT"}

ContinueLoop ==
  /\ handler = "continue"
  /\ GoesOn
  /\ \/ Execute /\ code' = StateCode /\ UNCHANGED handler
     \/ RunAway /\ UNCHANGED <<machine, code, output>>
  /\ UNCHANGED <<breakpoints, expects_input, selected_line, registers>>

\* handle_statecode(code) once more for the code that ended the loop
ContinueEnd ==
  /\ handler = "continue"
  /\ ~GoesOn
  /\ IF code = "PENDING_OUTPUT" THEN ShowOutput ELSE UNCHANGED <<machine, output>>
  /\ expects_input' = (expects_input \/ code = "PENDING_INPUT")
  /\ UpdateUi
  /\ handler' = "none"
  /\ code' = "RUNNING"
  /\ UNCHANGED breakpoints

-----------------------------------------------------------------------------
\* A click on a line, or the command b of the console.
Toggle ==
  /\ handler = "none"
  /\ \E line \in Breakable[prog] :
       breakpoints' = IF line \in breakpoints THEN breakpoints \ {line}
                      ELSE breakpoints \cup {line}
  /\ UNCHANGED <<machine, expects_input, handler, code, output, selected_line, registers>>

\* A number submitted while the program waits for one; stoll throws for one
\* that is too large.
SubmitNumber ==
  /\ handler = "none"
  /\ expects_input
  /\ nread < Len(tape)
  /\ tape[nread + 1] \in Word
  /\ r' = [r EXCEPT !["A"] = tape[nread + 1]]
  /\ nread' = nread + 1
  /\ io' = io + 100
  /\ Advance(0)
  /\ expects_input' = FALSE
  /\ UpdateUi
  /\ UNCHANGED <<prog, lines, pam, tape, out, breakpoints, handler, code, output>>

\* stoll, stoi and an index behind the words of a line throw or run away: for
\* text in place of a number, a command while a number is expected, a command
\* without its line.
SubmitMalformed ==
  /\ handler = "none"
  /\ handler' = "crashed"
  /\ UNCHANGED <<machine, breakpoints, expects_input, code, output, selected_line, registers>>

QuitKey ==
  /\ handler = "none"
  /\ handler' = "left"
  /\ UNCHANGED <<machine, breakpoints, expects_input, code, output, selected_line, registers>>

Over == handler \in {"left", "crashed"} /\ UNCHANGED debugger

DebuggerNext == \/ StepKey \/ ContinueKey \/ ContinueLoop \/ ContinueEnd
                \/ Toggle \/ SubmitNumber \/ SubmitMalformed \/ QuitKey
                \/ Over

\* The loop of the key c is never suspended; the user may stop at any time.
DebuggerSpec == /\ DebuggerInit
                /\ [][DebuggerNext]_debugger
                /\ WF_debugger(ContinueLoop \/ ContinueEnd)

-----------------------------------------------------------------------------
(* Whatever keys are pressed in whatever order, breakpoints set and cleared *)
(* in between: the program is executed as run_machine executes it, every    *)
(* instruction once, every output once, every input where it is read.       *)
ImplementsMachine == Init /\ [][Next]_machine

(* When the key c has been served the program stands where the user is      *)
(* meant to look: at a breakpoint, at the end, at a READ for which the      *)
(* console waits, or outside its lines.  The console waits at a READ only.  *)
StopsForReason ==
  [][ /\ handler = "continue" /\ handler' = "none"
          => (AtBreakpoint \/ Error \/ Halted \/ expects_input)'
      /\ expects_input' => (~Error /\ Line.op = "READ")' ]_debugger

(* Between two events the screen shows the machine as it is: the line at lr, *)
(* the registers, the latest outputs.                                       *)
ScreenIsCurrent ==
  handler = "none"
    => /\ selected_line = lr
       /\ registers = r
       /\ output = SubSeq(out, IF Len(out) > Shown THEN Len(out) - Shown + 1 ELSE 1, Len(out))

(* A program that ends, ends the loop of the key c, and the user has the    *)
(* keys again.                                                              *)
ContinueEnds == handler = "continue" ~> handler # "continue"

(* No breakpoint holds the program up: a user who keeps pressing c, and     *)
(* types the numbers asked for, gets to the end of a program that has one,  *)
(* whatever else is pressed and wherever breakpoints come and go.           *)
BreakpointsLetPass ==
  SF_debugger(ContinueKey) /\ SF_debugger(SubmitNumber)
    => <>(Halted \/ Error \/ handler \notin {"none", "continue"})
=============================================================================
