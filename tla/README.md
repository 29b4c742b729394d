# A verification of jftt-compiler

jftt-compiler translates a small imperative language (natural numbers, arrays,
procedures with arguments by reference) to the bytecode of a register machine, and
comes with two interpreters for it and a debugger. This directory holds TLA+ models
of the compiler from the text to the code, of its second code generator with its
liveness analysis and register allocation, of the machines and of the debugger; runs
that compile and execute families of programs against the meaning of their source;
and proofs about the machines, the code the compiler writes for single commands and for the
loops of `*`, `/` and `%`, the blocks and live registers of a program, the allocation of
registers and the debugger.

Source paths below are relative to the repository. All models are of the code as
it is; where a document describes something else, "Findings" says so.

## Inventory

`main()` in `src/compiler.cpp` passes one program through a chain of stages:

    text -> Lexer -> tokens -> Parser -> syntax tree -> Analyzer -> AstOptimizer
         -> Emitter -> instructions -> file   (run_machine or the debugger runs them)

Lines of `main()` that are commented out at this commit lead to a second chain:

    syntax tree -> LirEmitter -> instructions over virtual registers -> CfgBuilder
         -> blocks with live registers -> allocate_registers -> instructions

Nothing in the chains is concurrent. The stages communicate by value, each has
private state, and the difficulty is in that state: scratch registers shared by
templates that are composed freely, one static frame per procedure, jumps whose
targets are counted by hand or patched later, renamings and symbol tables that
are copied. The generated program is what runs: a loop over a program counter
whose every mistake shows many steps later, if at all. The debugger is driven by
events in any order: keys, clicks and lines typed at its console.

| component | state | operations | what makes it correct |
|---|---|---|---|
| Lexer, `src/lexer/` | index, line and column in the text | next token | every character is in one token, one comment or one error; positions |
| Parser, `src/parser/` | tokens left, errors | one method per nonterminal | builds the tree of every sentence of README.md's grammar, and lets nothing else pass silently |
| Analyzer, `src/analyzer/` | variables with used/initialized, errors | one check per command | what it accepts, the emitter can translate |
| Optimizer, `src/ast-optimizer/` | table of procedures, call counts | inlining of calls in procedures | the tree keeps its meaning |
| Emitter, `src/emitter/` | lines, errors, `stack_pointer`, `variables`, `procedures`, `current_source` | one `emit_` per command, `set_` per addressing mode | the program reads, writes and stores what the source means, returns to its callers, ends when the source ends |
| Compiler driver, `src/compiler.cpp` | the tree | the stages in order | every wrong program ends with a message, every right one with code |
| Bytecode, `src/common/instruction.*` | none | instructions, text conversion | mnemonics survive the round trip through text |
| Reference machine, `src/vm-cln/mw-cln.cc` | registers, cells, line, costs | one step per instruction, range check | naturals stay naturals, no instruction leaves the program |
| 64-bit machine, `src/vm/mw.cc` | as the reference machine, `long long` | as the reference machine | agrees with it below the width |
| Debugger, `debugger/` | a machine of its own, breakpoints, whether an input is awaited, what the screen shows | step, continue, toggle a breakpoint, submit a line | executes what the machine executes, every output once; stops where it should; shows what is the case |
| Low-level emitter, `src/ir/low_level_ir*` | virtual registers, labels, variables | one `emit_` per command | as the Emitter |
| Control-flow graph, `src/ir/cfg_builder.*` | blocks, live-in, live-out | split, connect, fixpoint | the least solution of the liveness equations |
| Register allocation, `src/ir/low_level_ir_builder.cpp`:13-246 | interference graph, colours, spills | build, colour, spill | registers live together differ, allocation ends |
| High-level IR, `src/ir/high_level_ir.*` | none | none is called | not modelled, see below |

The hard behaviours, each at its line and with the properties aimed at it, are the
"hazards" of PROJECT.json. The worst are

- scratch registers: an access to `v[i]` computes an address through A and
  clobbers B, E, F (and G, H for a formal), in the middle of an assignment, a
  comparison or a call that also uses them;
- the calling convention: H carries the return line and is a scratch register
  too, procedures have static frames, arguments are addresses that may be handed
  on to further calls;
- hand-counted jump offsets in the three arithmetic loops, and their paths for
  operands 0;
- jumps of conditions with dummy targets, patched in three ways;
- inlining: names renamed into another scope, then renamed again with that scope,
  by a loop that rewrites the tree it walks over;
- what an early stage has not checked and a later one takes for granted: a
  lookup that throws, an optional that is empty, a null procedure;
- allocation: a loop that counts iterations where it means registers, and pushes
  one of them twice; a spill that makes new registers while the old graph is there;
- the debugger's key c: breakpoints are looked at before an instruction and what it
  returned after it, and the last code is handled once more behind the loop.

## Modules

| module | models | the code |
|---|---|---|
| `Lexer` | `next_token`, positions, errors | `lexer.cpp`, the loop of `main()` over tokens |
| `Parser` | every `parse_` function and what it does after an error | `parser.cpp` |
| `Syntax` | syntax trees and constructors for them | `ast.hpp` |
| `Analyzer` | the walks of the analyzer | `analyzer.cpp` |
| `Occurrences`, `Optimizer` | the walks of the optimizer; renaming and inlining of one call | `ast-optimizer.cpp` |
| `CodeGen` | the templates for addresses, values, assignments, conditions, calls | `emitter.cpp`, `set_mar` to `emit_condition`, `emit_call` |
| `Emitter` | commands, procedures, memory, the whole of `emit()` | `emitter.cpp`, the rest |
| `Compiler` | `main()` from the text to the listing; composes all of the above | `compiler.cpp`, `inline_procedures` |
| `Instructions` | registers and instructions | `instruction.hpp` |
| `Machine` | `run_machine`, one action per instruction | `mw-cln.cc` |
| `WordMachine` | `run_machine` over `long long` | `mw.cc` |
| `Debugger` | keys, clicks, console, breakpoints around a machine; extends `WordMachine` | `debugger.cpp`, `debugger-wm.cpp` |
| `OperatorLoops` | the loops for `*`, `/`, `%`, run alone on the machine | `emitter.cpp`, inside `emit_assignment` |
| `Templates` | the other templates, each run alone on the machine, next to its meaning | `emitter.cpp`, `emit_assignment` to `emit_call` |
| `Compiled` | Emitter and Machine composed, next to the meaning | the path of `tests/emitter_test.cpp` |
| `LowLevelIr` | virtual instructions, what they read and overwrite | `low_level_ir.*` |
| `LirEmitter` | commands to virtual instructions, and those to bytecode | `low_level_ir_builder.cpp`, the rest |
| `Liveness` | the fixpoint of live-in and live-out on any graph | `cfg_builder.cpp`, the end |
| `Cfg` | blocks, edges and summaries from instructions, then `Liveness` | `cfg_builder.cpp`, the rest |
| `Colouring` | `try_color_graph` on any graph | `low_level_ir_builder.cpp`:144-194 |
| `Allocation` | interference and spilling around `Colouring`, on the blocks of `Cfg` | `low_level_ir_builder.cpp`:13-143, 196-246 |
| `SecondCompiler` | `LirEmitter`, `Allocation` and `Machine` composed | `compiler.cpp`:113-151 |
| `Grammar` | reference: the grammar of README.md, read and written | none |
| `StaticRules` | reference: which programs are legal | none |
| `Imp` | reference: the meaning of a source program, big-step | none |
| `SourceRun` | abstract specification: performs the script of a source program and ends | none |
| `LexerProofs`, `MachineProofs`, `OperatorLoopsProofs`, `TemplatesProofs`, `AllocationProofs`, `DebuggerProofs` | theorems about the module in the name, those about `Colouring` in `AllocationProofs` | |
| `CfgProofs` | theorems about `Liveness` and `Cfg` | |
| `Induction` | induction over naturals and definition by recursion, for the proofs | none |
| `MCPrograms`, `MCProcedures`, `MCLiterals` | families of source programs | |
| `MCCompiled`, `MCOperatorLoops`, `MCTemplates`, `MCCompiler`, `MCLiveness`, `MCCfg`, `MCSecondCompiler`, `MCDebugger` | instances for TLC | |

### Correspondence

*Lexer.* A state is the lexer between two calls of `next_token`; an action is a call,
or the part of one up to its calling itself behind a comment. `here` has the index,
line and column. A text is a sequence of characters and so is a lexeme (`WordOf` makes the
word of it that the parser reads, in `Worded`); a token has type, lexeme and position, an
error is the position where the lexer was. `begin()`
calls `next_token` before the loop compares with `end()`, so a text without a token
makes `main()` dereference an empty optional: `reading` becomes "crashed".

*Parser.* A parsing is the `Parser` object with the values its running functions hold:
tokens left, errors, whether the function just left has returned something (`ok`).
Functions of the code are operators from parsing to parsing, and an early return is
that a parsing which is not `ok` is handed on. Values taken out of an empty
optional leave a mark: `undefined` says that it happened. `peek()` at the end of the
file and declarations that were not returned are undefined behaviour; `Parse` then
either crashes or goes on, declarations counting as empty. A number's lexeme becomes
its value, which is what the emitter makes of it.

*Compiler.* `stage` says which call of `main()` is being executed or how it ended:
`written`, `rejected` (`display_errors` found an error and called `exit(1)`, or the
lexer complained), `crashed` (undefined behaviour, an exception nobody catches, a null
procedure, memory used up). `source` is the tree the parser made and never changes;
`program` is the tree as the optimizer has rewritten it so far. The parser's errors are
looked at only if it returned nothing (`TakeProgram`). The analyzer's loop over
procedures is `AnalyzeNextProcedure`, its main program `AnalyzeRest`; `Analyzer` is the
walk itself as functions of the object's state, with the copies that
`analyze_commands` takes of its map (`AnalyzeBlock` keeps the errors and drops the
map). The two nested loops of `inline_procedures` are the actions `EnterProcedure` to
`FinishInlining`, with `at` for their loop variables, so that every intermediate tree is
a state. `Renamable` says when no `mapped_args.at` throws, `Inlinable` adds what the
function takes for granted of a call. Two things in the code are not what their names
say and are modelled as they are: `calculate_procedure_call_counts_helper` does not
count calls in blocks (`CallCount`), and `procedure_costs` is empty, so that every call
is inlined (`Cost`).

*CodeGen and Emitter.* The emitter appends to `lines` and `errors`; a template
is the fragment that it appends to both, and `++` is "then append". Nothing in the
emitter reads back what was appended except `lines.size()`, which a template
receives as its `base`, and the jumps to be patched. `EmitCondition` leaves the
dummy targets "yes" and "no" where the code keeps `jumps_if_true` and
`jumps_if_false`, and `SetJumpLocations` replaces them when `EmitIf`, `EmitWhile`
or `EmitRepeat` knows the lines. `env` is the Emitter object: `source`, `vars`,
`procs` and `sp` are `current_source`, `variables`, `procedures` and
`stack_pointer`. An error does not stop the emitter, here as there. Two errors are
followed by undefined behaviour in the code (a null procedure dereferenced, a missing
key looked up); they appear as the error kind `aborts`. `emit_call` compares every argument
passed with a formal of the callee, also where there are more arguments than formals; what
it reads then is undefined (`CheckArgument`), and `EmitProgram` rejects the program, for the
number of arguments is reported before, or crashes. The analyzer lets no such call pass
unless two procedures have one name and it compares with the other one. `set_register` finds the leading
bit and then doubles and increments; `Bits` produces the same instructions from the
leading bit on. The short forms for numbers are `StepBy` and `ShiftBy`, with the limits
the code has.

*Templates.* A piece is an environment and a command that is not composed of others; its
listing is what the emitter appends for it at line 0 (`Emitted`), then a HALT for the line
behind it, and a second one for the line a failing condition goes to. Behind a call stands
the called procedure, its prologue and its last lines without a body between them. The
cells hold anything at the start (`Memories`), so that an argument may stand for any
variable, for one of the caller of the caller, or for a cell of its own procedure.
`AddressOf`, `ValueOf` and `Compares` are the meaning of identifiers, values and conditions
in a memory. What is asked of a piece, `IsEnvironment` and `IsCommand`, is what the analyzer
and the grammar leave, but for numbers that the short forms do not serve (Findings) and for
the three loops, which are in `OperatorLoops`.

*Machine.* A state is `run_machine` at the head of its loop; `lines` is its
parameter, and `prog` remembers which of `Programs` it is. `Read` ... `Jumpr`
are the alternatives of its `std::visit`; `Error` is the range check, `Halted`
the loop condition, `Stop` the return. `pam` is the `std::map`: reading an
absent cell creates it. `t` and `io` are the two cost counters. The registers
start with whatever `rand()` gave (constant `Junk`). The tape replaces the
`ReadHandler`, `out` the `WriteHandler`. cln integers are unbounded, and so are
the naturals here; addresses and jump targets are converted to `long`, which no
checked program comes near. `WordMachine` replaces the arithmetic that can leave
`-Half .. Half - 1` by one that wraps there; `Half` is 2^63 in the code. Signed
overflow is undefined there, and wrapping is what the build does with it.

*Compiled.* `Cases` are source programs with inputs. `Code` is what the emitter
makes of them and must be what the machine runs (`CodeAssumption`). `Imp`
defines, by recursion over the tree and with no notion of address or register,
which numbers the program reads and writes and what its variables hold at the
end; `SourceRun` turns that script into a specification whose steps are one read,
one write, or the end. The refinement mapping is the identity on tape, inputs
read and outputs, and `done` is `Halted`. Every machine step that neither reads,
writes nor halts is a stutter.

*Debugger.* The user interface is one thread that handles an event at a time, so an
event is one action: `StepKey`, `Toggle`, `SubmitNumber`, `QuitKey`. The key c alone is
several: `ContinueKey` leaves a breakpoint, each iteration of the loop is a
`ContinueLoop`, and `ContinueEnd` is the `handle_statecode` behind it with `update_ui`.
`Execute` is `process_next_instruction` with what `handle_statecode` does about its
result; the machine of `debugger-wm.cpp` has the instructions of `mw.cc` but for READ,
WRITE and HALT, which are left to the interface. The tape is what the user will type.
`selected_line`, `registers` and `output` are the copies the screen is drawn from. An
index behind the instructions and a line that is no number end the debugger
("crashed"). While a continue runs no event is handled.

*Cfg, Liveness.* Blocks are counted from 1, in the code from 0. Each iteration of
`split_into_blocks` and of `connect_blocks` is an action; the three loops of
`calculate_live_ins_and_outs` are the actions of `Liveness`, one iteration over
successors each, `node` and `edge` being the loop variables. `current_block` at the end
of splitting is not pushed: what stands behind the last jump is in no block.
`Liveness` knows nothing of instructions and is for any graph; `Cfg` builds the
graph and hands it over in `Calculate`.

*Colouring, Allocation, SecondCompiler.* Each iteration of the two loops of
`try_color_graph` is an action of `Colouring`. `allocate_registers` repeats
building the interference graph, colouring and spilling; the rounds are the actions of
`Allocation`. Memory is a bound, `MaxRegisters` on virtual registers: what would pass it
is `FailToSpill`, and so is an iterator past the end of a block. `LirEmitter` is the
object as a record, its functions from object to object. The code of procedures is in an
unordered map, so `SecondCompiler` lets it be put together in any order. `emit_assembler`
takes the instructions as they were before any spilling, in the code and here.

## What the runs check

Liveness needs fairness only of loops in one thread that nothing suspends: the machine's
(`MCLoopSpec`, and `Spec` of `Compiled`), the sweeps' (`MCSpec` of `MCLiveness`),
colouring and allocation (`MCSpec` of `MCSecondCompiler`), the debugger's key c
(`ContinueLoop`, `ContinueEnd`). They have weak fairness of their steps, because such a
loop keeps stepping. The user of the debugger is under no obligation: keys, clicks and
lines have no fairness, and the one property that is about a user who goes on pressing
c, `BreakpointsLetPass`, assumes so in its own premise. READ on an empty tape has no
step, so a program that reads more than its source would deadlock and be reported.
Deadlock is checked in every run but `second_compiler`, whose programs may stop in that
way when they go wrong.

| run | question | instance |
|---|---|---|
| `compiled` | does the code of every command do what the source says, and does the calling convention hold? | `MCCompiled`: 5 operators; target and both operands each scalar, `v[num]` or `v[i]`; in the main program and in a procedure that is passed everything, the arrays or the scalars; operands 7 and 0, 3, `%`'s divisor nonzero. `MCLiterals`: steps up to 5 on the right of `+`, `-` and the left of `+`; factors and divisors 1, 2, 4, 16; `%` with numbers on both sides; constant indices inside the array. `MCCompiled`: 6 comparisons; IF, IF-ELSE, WHILE, REPEAT; operand modes; operands 0, 1, 2 against 1; loop conditions tested up to `Turns` (2) times, one more for REPEAT. `MCProcedures`: aliased arguments two calls deep; arrays passed on from a local and from a formal, with calls in a loop; calls in both branches; two of these inlined; inputs 0, 1, 3, 5 |
| `operator_loops` | are the loops for `*`, `/` and `%` right alone? | all operands 0..24 and 0..17, so the divisor and dividend cross each other and several powers of two; `%` without divisor 0 |
| `templates` | does the code of a single command do what the source says, and nothing else, wherever its addresses lead? | every assignment, READ, WRITE, condition and call of a procedure with scalars, elements with constant and variable index, own and passed by reference: 8 targets with one expression, one target with all 266 expressions; steps 0 to 5 and shifts 1, 2, 4, 8; arguments that stand for variables of the procedure, for cells of a caller, or for both; x and i each 0 or 2 |
| `compiler` | does every text end as it should, with the right tokens and the right tree, and does that keep its meaning through every single inlining? | all texts of up to 3 characters out of 15 of every kind, alone and behind a comment; four sentences with all productions of the grammar, with every token left out or replaced by 18 others, 6 others inserted in front of each, and cut off before and behind each; three procedures calling with all 144 choices of four arguments among formals and locals, in sequence and in a block; arrays, indices and loops moved through three scopes; one mistake out of 15 kinds in 5 kinds of block, in the main program, a procedure, an inlined procedure; clashing declarations, constant indices behind the end of an array, calls forward and to itself; 3 inputs |
| `liveness` | is the fixpoint the least solution, and reached? | all graphs of 3 blocks with up to two successors, all reads and overwrites of one register (registers do not meet) |
| `allocation` | do blocks, edges, live sets, interference and registers fit together, and does the code that comes of it run as its source says? | all sequences of 4 instructions out of 10 over two labels and two registers, ended by HALT, in which each label stands at most once and every label jumped to stands somewhere; sequences with 7, 8 and 9 registers in use at a time, for 7 that are free, one with the spill at the end of a block; one in which a register has too many neighbours and they have few; all pairs of 12 commands of the second compiler's language, compiled and run on 3 tapes |
| `debugger` | does a user at the debugger see what `run_machine` does, and does `run_machine` of `mw.cc` do what that of `mw-cln.cc` does? | `Half` 16; four small programs that have every instruction, breakpoints anywhere but behind WRITE, a screen of 2 outputs; all orders of events; compiled programs for `*`, `/`, `%` and all operands out of 0, 1, 2, 5, 7, 8, 11, 15 whose doublings fit |
| `wrong_code`, `wrong_verdicts`, `not_live`, `second_compiler`, `debugger_departs` | "Findings" below | one program or family for each cause |

The properties:

- `ImplementsSource` (`Compiled`, `SecondCompiler`): the compiled program refines
  `SourceRun`: it reads and writes what the source does, in that order, and then halts.
- `FinalMemory`: at HALT every cell that the source gave a value holds it, at the
  address the emitter assigned. Catches stores that no WRITE reveals.
- `ReturnCellsPreserved`, `ReturnsBehindCall`: a saved return line changes only
  in the prologue of its procedure, and the last line of a procedure continues
  behind a jump to that procedure's entry.
- `ArgumentsAreVariables`: in a body each argument cell holds the address of a
  declared variable, never of another argument cell.
- `StoresAreAssigned`: no STORE goes beyond the memory handed out.
- `ComputesResult`, `StaysInside`, `Terminates`, `LogarithmicTime`: what the three
  loops promise on their own, with a bound on `t` in the number of digits.
- `LoopInvariant` (`MultiplyInvariant`, `DivideInvariant`, `RemainderInvariant`): where each
  loop stands at each of its lines, and `TimeInvariant`, what it has cost up to there: the inductive
  invariants of the proofs.
- `AssignsResult`: behind a READ or an assignment the one cell that the target named before
  holds the input or the value of the expression, and every other cell is as it was.
  `TellsValue`: a WRITE outputs its value, a condition goes to the line for its being true
  exactly if it is, and no cell changes. `CallsReturn`: at the body of a called procedure its
  cells hold the line behind the call and the addresses of the arguments, no other cell has
  changed, and its end goes to that line.
- `TypeOK`: types of the machine's variables, also a theorem; the same of
  `Liveness`.
- `TokensAreExact`: tokens, errors, blanks and comments together are the text, each at
  the position its message would name.
- `ParsesSentences`: what the parser builds of a sentence of the grammar is a tree that
  spells that sentence; it reports nothing only of what begins with a sentence, and
  otherwise its first error is at the first token with which no sentence goes on.
- `MeaningKept`: after each step of the optimizer the tree reads and writes what
  the source does. `StaysCoherent`: every name in it is declared where it now
  stands and every remaining call gets arrays for arrays, in branches no input
  reaches too.
- `IllegalIsRejected`, `LegalIsCompiled`: a text ends with a message or with
  code according to `Grammar` and `StaticRules`, which state the rules once for the
  whole text and the whole tree.
- `NeverTooLarge`, `SolvedAtEnd`, `SweepInvariant`, `Terminates`: the fixpoint
  stays below every solution, ends as one, and ends.
- `BlocksAreBlocks`: the blocks are the instructions, in order, entered at the
  first and left behind the last only. `LiveWhenBuilt`: live-in of a block is what
  some path over single instructions reads before it overwrites it. `InterfereExactly`:
  two virtual registers are neighbours exactly if both hold a value that is still to be
  read at one instruction.
- `ColouringIsProper`, `SpillsWhenCrowded`, `RoundInvariant`: in every round registers with
  few neighbours differ from their neighbours, also the one that is coloured twice; a
  register is spilled only if its neighbours may use up all others; and why
  (`ColourInvariant`).
- `AllocationEnds`: the rounds of building, colouring and spilling end, and not because
  memory does.
- `ImplementsMachine`: what happens to the program at the debugger, or over `long long`,
  are steps of `Machine`: every instruction once, every output once. `StopsForReason`: the
  key c stops at a breakpoint, at the end, at a READ or outside the program only, and the
  console waits at a READ only. `ScreenIsCurrent`: between events the screen shows the
  machine. `ContinueEnds`, `BreakpointsLetPass`: the key c gives control back, and
  pressing it again and again gets to the end of a program that has one.

### Abstract specifications

`SourceRun` is what a compiled program promises; `Compiled` and `SecondCompiler`
implement it under refinement mappings that leave tape, inputs and outputs as they are and
make `done` of HALT. `Machine` is what both the debugger and `mw.cc` promise; they
implement it with the debugger's variables, and what does not fit `Half`, left out.
`Imp`, `Grammar` and `StaticRules` are the references for everything that computes a
result rather than a behaviour.

### Why the bounds are enough

Addressing modes and places are enumerated completely for one command, and templates
only meet through registers and memory, so pairs of commands add nothing that a command
after a store and before a WRITE does not show; what does depend on sequences, calls
within calls, is what `MCProcedures` is for. The arithmetic loops depend on the
magnitude of their operands, so they are run alone on ranges that cross several
powers of two. Initial registers are one arbitrary value each, because no
template reads a register it has not set: the proofs are for every value.

The lexer looks at one character and the next, so three characters, and three behind a
comment, hold every meeting of two lexemes and an end. The parser decides on the next
token and the function it is in, and the four sentences have every function; each edit
puts an unexpected token at one of all places. Renaming only looks at which names are
equal, so all choices of arguments from the names that occur in caller and callee, two
levels deep, are all cases of capture; a third level repeats the second, and `ThreeDeep`
has one.

For `Cfg`, what can go wrong is in the neighbourhood of a label or a jump, and four
instructions hold two of each. `Terminates` and the sets of `Liveness` depend on the
shape of cycles; three blocks give a self-loop, nested cycles and a cycle entered twice.
Colouring depends on the number of neighbours against `Deg`, which is the code's own 8: the
sequences that are not compiled reach `Deg - 2`, `Deg - 1` and `Deg` neighbours. That it is
right on graphs of any other shape is proved, not run.
`MaxRegisters` is never reached: `AllocationEnds` says so.

`Half` = 16 leaves operands enough for every path through the loops, as the proofs and
`operator_loops` are without width; the wrap-around is the same at any. A screen of two
outputs overflows with the three that `outputs` writes. The machine's counters have no
bound in the model. Every checked program ends, so the state spaces are finite, and a
program that did not end would show as a run that does not.

### Mutants

Beside some definitions stands a `BadX` (or `LateX`, `EarlyX`, ...): the definition with a
slip that is easily made there (a restore left out, a jump target one off, an operand
fetched too early, a test that looks at the iteration where it means the register). With
`X` replaced by it the property listed in PROJECT.json fails, which shows that the
property depends on that piece of code. Nothing else uses them.

### Findings

Runs marked "violation" state what the code's own comments, messages, the README or the
grammar promise and are refuted by what the code does. Where a run lists several
causes, each is a definition of its own in the MC module, and the run fails on each
alone. PROJECT.json quotes the lines.

- `wrong_code` (`FinalMemory`): the jump "to end if reg D == 0" of `%` goes to line 26 of
  a loop of 24 lines (`ModuloByZero`, `emitter.cpp`:487), into the assignment that
  follows. An expression with a number is translated by short forms that ignore numbers
  above 5 for `+` and `-` (`LargeStep`, 260), swap `num - value` (`LeftOfMinus`, 302), and
  drop or round factors and divisors that are no powers of two (`OddFactor`, 329;
  `EvenDivisor`, 386). A constant index equal to the size passes the bounds check and
  addresses the next variable (`IndexAtSize`, 109).
- `wrong_verdicts` (`VerdictIsRight`), right texts that are not compiled: a procedure that
  uses `v[1]` and is called by another one makes the optimizer throw (`NumberIndex`,
  `ast-optimizer.cpp`:9); an array of one cell is not accepted for an array (`OneCell`,
  `emitter.cpp`:771). Wrong ones that are compiled, or that a later stage falls over: the
  analyzer lets an undeclared argument, and any name in a condition, pass
  (`UndeclaredArgument`, `UndeclaredCondition`, `analyzer.cpp`:78, 97); a scalar that is
  itself a formal is accepted for an array (`WrongKind`, `emitter.cpp`:771), and an index
  equal to the size of its array for one inside it (`IndexAtSize`, 109); a text
  without a token (`Blank`, `compiler.cpp`:76) or that ends where a value should stand
  (`ValueMissing`, `parser.cpp`:265) is undefined behaviour, and so are declarations with
  an error (`NoSize`, 345); any token is taken for PROGRAM (`NoPROGRAM`, 358); commas may
  be left out or stand behind the last element, and lists and blocks may be empty
  (`TooLax`, 98).
- `not_live` (`NeededIsLive`): WRITE, JPOS and JZERO do not count as reading the
  accumulator (`Writing`, `low_level_ir.cpp`:31); a return has no successors, so what a
  caller uses behind a call is not live in the procedure (`Calling`,
  `cfg_builder.cpp`:72). `LiveWhenBuilt` is stated for the tables and edges the code has,
  so that it holds besides these two.
- `second_compiler` (`ImplementsSource`), one program of `Departing` each: virtual
  registers with eight neighbours are not coloured and share A (`low_level_ir_builder.cpp`:149);
  0 is not loaded (521); `*` destroys its operands (416); `/` emits nothing (424); `%` and
  four comparisons fail an assertion (320); REPEAT is done once (362); the cells of an
  array are one register (495); calls pass values, return to the wrong line, and the jump
  to the main program is left out (270).
- `debugger_departs` (`ImplementsMachine`): a breakpoint behind a WRITE makes the key c
  output twice and skip the line of the breakpoint (`debugger.cpp`:528); the loops for
  `*`, `/` and `%` double past the width of `long long` with operands and results that fit
  it (`mw.cc`:116).

The passing runs stay within what these leave: nonzero divisors for `%`, the
numbers that the short forms serve, indices inside their arrays, no breakpoint behind a
WRITE, operands whose doublings fit. `/` by zero is included: it yields 0. `compiler`
leaves out the texts of `wrong_verdicts`, and its `WithArrays` uses no number as an index
in an inlined procedure. `allocation` compiles IF, IF-ELSE and WHILE with `<=` and `>=`,
assignments with `+` and `-`, and every pair of commands but the one whose registers
are too many.

## What is proved

The proofs are checked by TLAPS for every value of the constants.

- `TokensAreExactHolds` (`LexerProofs`): `LexerSpec(texts) => []TokensAreExact`, for every
  set of texts, of whatever characters and length. `TokensAreExact` speaks of the end only;
  `LexerInvariant` says it of every position on the way. `Located`: line and column are
  those of the index, counted without a lexer from where the lines begin (`PointAt`), which
  one step of `chop_while` keeps (`BehindLocated`) and all of them do (`PastIs`, by
  induction). `Uncommented`: the lexer never stands inside a comment, so that what it reads
  next counts (`Fresh`). `Read`: tokens are what the text has at their places, in order and
  maximal, and nothing before the lexer is left out. That a token is maximal needs that the
  kinds of characters are apart (`KindsApart`) and that no symbol of two characters begins
  one of three (`SymbolIsMaximal`). The runs' `Spec` takes the steps of `LexerSpec` in
  `ReadToken` and leaves the lexer alone in all others.
- `MachineTypeOK` (`MachineProofs`): `Spec => []TypeOK`, for every set of
  programs, inputs and initial registers. The invariant is inductive as it
  stands. One lemma per shape of instruction (`ComputeType`, `GotoType`,
  `ReadType`, `MemoryType`), each from `LineType`: what is fetched inside the
  program is an instruction, from `ProgramsAssumption`.
- `MultiplyInvariantHolds`, `MultiplicationComputes` (`OperatorLoopsProofs`): `LoopSpec =>
  [](LoopTypeOK /\ MultiplyInvariant)`, and from it that the product is in A at the end and
  that no jump leaves the loop. That the result is right at the end is not inductive: it
  needs the relation of the registers at every line. `MultiplyInvariant` gives it
  for each of the 16 lines: `F + C * D = a * b` at the head of the loop, and what
  A knows about the parity of D on the way through. `MultiplyLines` reads the
  lines off the template, `Decoding` and `MultiplyStep` say what each does, and
  `MultiplyInductive` has one case for each line. The arithmetic is in three
  lemmas: `Parity` (A is 0 after SHR, SHL, INC, SUB exactly when D is odd),
  `OddPart` (adding C for an odd D), `Doubling` (a factor 2 moved from D to C).
- `DivideInvariantHolds`, `DivisionComputes`: the same for the 26 lines of
  the division, for all operands and with 0 for the divisor 0. The loop doubles D and E
  together until D passes the dividend and then halves both, so `F * b + C = a`, `D = E *
  b`, and C is less than twice D once it has been passed. Halving undoes a doubling only if
  E is even, and E is even until it is 1: `PowerOfTwo`, stated as "every divisor is 1 or
  even", survives both (`PowerDoubled`, `PowerHalved`) without recursion.
- `RemainderInvariantHolds`, `RemainderComputes`: the same for `%` and
  every divisor other than 0. This loop does not count in a register: that C is the
  dividend less a multiple of b (`Rest`) and D is b times a power of two (`Scaled`) are
  existential, and `b # 0` is what keeps D from standing still. That the theorem stops at 0
  is `ModuloByZero`.
- `LoopInvariantHolds` puts the three together.
- `TimeInvariantHolds`, `LogarithmicTimeHolds` (`OperatorLoopsProofs`): at every step of every loop `t` is within a
  multiple of the number of binary digits of an operand, the divisor 0 included. The
  bound is not inductive: `TimeInvariant` says at each line what has been spent and
  how much of the operand is left, so that a turn of 21, 35 or 31 is paid by a digit that
  is gone. For `/` and `%` a turn on the way up adds a digit to E or D and one on the way
  down takes it away, and it never has more than one beyond those of the dividend. With the
  divisor 0 the loop for `%` is left from its sixth line, at cost 10 (`RemainderByZero`).
  `Digits` is a recursive function: `DigitsDef` shows that its recursion has a solution.
- `LivenessTypeOK`, `NothingTooLarge`, `SweepInvariantHolds`, `EndsSolved`,
  `EndsWithLeastSolution` (`CfgProofs`): for every graph and every set of
  registers, the analysis never holds more than any solution of the equations
  does, and when it returns it holds one: the least. `NeverTooLarge` is inductive
  with the types: `FlowSets` gives the two sets that a step changes, and both stay
  within a given solution. That nothing is missing at the end is not inductive,
  because during a sweep sets that were looked at may be overtaken; `SweepInvariant`
  says that this can only have happened if `improved` is set. `NothingNew` is the
  heart of it: a step that adds nothing changes no set, so what was settled stays
  so, and settles one more successor.
- `SplitsIntoBlocks`, `ComputesLiveExactly` (`CfgProofs`): for every program
  `split_into_blocks` keeps each instruction, in its place, and no block is entered or left
  in the middle; and what the sweeps end with are the registers that some path over single
  instructions reads before it overwrites them. `SplitInvariant`: the blocks
  and what is being collected are what has been looked at (`PlaceUnique`: each instruction
  stands in one place of one block), and what is being collected may go on (`Open`).
  `LabelInvariant`, `ConnectInvariant`: a label leads to the block it begins, and the edges
  made so far are those of the instructions (`Successors`). That live sets are exact is two
  inclusions. What a path needs solves the equations over blocks, so the least
  solution, which `EndsWithLeastSolution` says the sweeps find, is no more
  (`NeededSolves`); and what is live at the start of a block is needed, because the solution over
  blocks satisfies the definition by which needed instructions are collected
  (`NeededIsLeast`).
- `AllocatesOnExactSets`, `InterferenceIsExact`, `EveryRoundKeeps`, `EveryRoundIsProper`,
  `EveryRoundSpillsWhenCrowded` (`AllocationProofs`): for `allocate_registers` on every
  program, with any number of registers above 1 (the code has 8). In the first round two
  registers are neighbours exactly if both hold a value that is still to be read at one
  instruction. In that and every later round, whatever was spilled, an attempt that
  succeeds is proper and a register is given up only if the graph forces it. They
  follow from one invariant, `AllocationInvariantHolds`. `InterferenceIsExact`
  could not be proved from the live sets alone: it speaks of the graph while no code has been
  spilled, so a round after a spill must not look like the first. `Grown` says that spilled
  code is longer than it was, which needs that the register given up occurs in
  some instruction; it does, since it has neighbours (`GaveUp`, and `Deg` at least 2), so it is
  alive somewhere (`Exact`), so something reads it (`GivenUpIsUsed`). `SpilledBlock` keeps
  the code over registers that are counted, which is what makes the next graph one
  (`PopulatedIsInterference`).
- `ColourInvariantHolds`, `ColouringComputes`, `SpillsOnlyWhenCrowded`
  (`AllocationProofs`): for every interference graph and every number of registers. The
  first loop counts iterations, and when nothing is left to take it pushes register 1
  again. That this is harmless needs that registers are taken off in the order of their
  numbers (`TakenInOrder`: behind an iteration all numbers below it are through), that each
  is active or on the stack (`NothingLost`), and that two active neighbours never share a
  colour (`NoClash`), also while register 1 is coloured the second time among neighbours
  coloured since. For the spill the colours in use are counted: a graph in which all are
  used has `Deg - 1` neighbours besides the accumulator.
- `TemplateInvHolds`, `AssignmentsComputed`, `ValuesTold`, `CallsComeBack`
  (`TemplatesProofs`): for every environment, every identifier and number in it, every memory
  and every content of the registers, the code of READ, WRITE, assignments without a loop,
  conditions and calls does what the source says and changes no other cell. An invariant that
  says at each line what the registers hold would be one of hundreds of lists of lines, so the
  proof goes the other way. Straight code is a function on registers and memory (`Do`, `Runs`),
  whose values are computed template by template: `Deref`, `SetMar`, `SetAccumulator`, `Bits`
  (by induction over the digits), the short forms, `PassArguments` (by induction over the
  arguments). `Stretch` says that a piece of a listing is such code, and `Leads` that from one
  configuration the machine comes to another through given ones; stretches, jumps and READs
  are put together to the end of each piece (`PieceArrives`). The invariant is that the
  machine is on its way: what is left of its path leads to one of the ends that the source
  allows (`Heads`), which a step only shortens (`HeadsOn`). So it also says that no piece
  runs for ever. A READ without an input waits in front of it (`Pending`). The one thing asked
  of a call beyond its being legal is that no argument of the caller lies in the cells of the
  called procedure (`IsCall`), which one static frame per procedure needs.
- `StopsForReasonHolds`, `ScreenIsCurrentHolds` (`DebuggerProofs`): for every program, tape,
  width, screen and set of breakpoints, whatever the user does. The code in the loop of the
  key c is about an instruction that may no longer be the one at `lr`; `CodeIsCurrent` says
  which it is about. `StopsForReason` assumes `NoneBehindWrite`: with a breakpoint behind a
  WRITE it is false, which is the finding `debugger.cpp`:528. They are about
  `DebuggerSpec`; the run's `MCSpec` adds the behaviours in which nobody is at the
  debugger.
- `DebuggerImplementsMachine`, `WordMachineImplementsMachine` (`DebuggerProofs`): the
  refinement of `Machine`, step by step. Every step of `mw.cc`, and every event at the
  debugger, is a step of the machine of unbounded numbers or leaves it alone, for every program,
  width and set of breakpoints. A single result beyond `long long` makes it false, which is a
  finding; so the theorems are about behaviours in which every result fits (`[]Fits`, a
  condition on ADD, INC, SHL and STRK only) and which begin with registers that do
  (`NarrowJunk`; for `mw.cc`, whose READ wraps, also inputs, `NarrowTapes`). `Narrow`, that
  registers and cells then stay below `Half`, is the invariant that makes all other
  instructions agree, and `Wide` the lemma that they do. The debugger needs
  `NoneBehindWrite` as well, and `StopInvariant`: an output is taken over once, where it
  belongs. All hypotheses hold in the run `debugger`.

Theorems about blocks and allocation have the hypothesis `Supplied`: a program is not empty
and ends with a jump, a return or HALT; it is over the instructions of `low_level_ir.hpp`
and numbered registers; a label that is jumped to stands in one place. The code depends on
it: what stands behind the last jump is put into no block, and a missing label would be looked
up in vain. The emitter sees to it: `emit_procedure` ends with JUMPR, the main program with
HALT, and `get_label_str` numbers the labels. `SuppliedAssumption` of `MCSecondCompiler` has
TLC check it for every sequence and for all code the low-level emitter makes of the
programs of the runs `allocation` and `second_compiler`, in every order of procedures.

Induction over data is not open to the prover as the library states it, with an operator for
a parameter. `Induction` has it for sets: every nonempty set of naturals has a least element
(`Least`, from the library's theorem about finite subsets), hence `SetInduction`, and
a function defined by recursion exists and is unique (`Recursion`, `UptoUnique`). That is how
`Digits`, `FlattenSeq`, `Past`, the paths of `Needed`, `Alive`, `Treated` and `Doublings` come to be
proved about.

They rest on `ProgramsAssumption`, `TapesAssumption`, `JunkAssumption` (programs
are nonempty instruction sequences, inputs and initial registers are naturals),
`FragmentsAssumption` (the machine of `OperatorLoops` runs the template), `PiecesAssumption`,
`ListingsAssumption`, `MemoriesAssumption` (that of `Templates` runs what is emitted for
commands the emitter serves, on cells that hold naturals),
`HalfAssumption`, `ShownAssumption` and `DegAssumption` (widths and sizes are numbers that
make sense). `Liveness` needs none. TLC evaluates all of them in the runs. The theorems use
no other hypothesis on a constant than those named above.

Only model-checked:

- `FinalMemory`, `ArgumentsAreVariables`, `ImplementsSource` and the calling convention
  through bodies and nested calls: commands composed of others and their meaning are
  recursive definitions over trees, in modules from which nothing can be proved, and
  `ImplementsSource` includes liveness. `TemplatesProofs` has the pieces they are composed of;
- `ParsesSentences`, `IllegalIsRejected`, `LegalIsCompiled`, `MeaningKept`,
  `StaysCoherent`: parser, analyzer and optimizer are recursive over trees in the same way;
- `Terminates`, `AllocationEnds`, `ContinueEnds`, `BreakpointsLetPass`:
  liveness under fairness is out of the prover's reach. `LogarithmicTimeHolds` bounds what
  may happen, not that it does.

## Not modelled

- The conversion of instructions to text, and the debugger's parser of that text
  (`debugger-wm.cpp`:9-93): wording, taken to be read back as written.
- Drawing, focus and scrolling of the debugger; the wording of messages and of the
  listing's comments; the command line and files; the output for graphviz and
  the printing of the interference graph.
- `high_level_ir.*`: no program of the repository builds or runs it, and several of its
  cases are empty, so it has no behaviour. The same of functions that are never called:
  `check_unused_variables`, `backup_register`, `calculate_procedure_metadata`.
- `expected.hpp`: a third-party library.
- Numbers above 2^64 - 1 in a text, for which `std::stoull` throws.
- Negative numbers typed at the debugger's console, as a line for a breakpoint or as an
  input: lines are those of the program and inputs are naturals, as they are in `Machine`.
- What spilled code computes: `emit_assembler` takes the instructions as they were
  before, so no code with a spill is ever assembled. `Spill` models what it does to the
  blocks, the graph and the end of the rounds.

## Plan

1. *(done)* `Instructions`, `Machine`, `Syntax`, `CodeGen`, `Emitter`, `Imp`,
   `SourceRun`, `Compiled`, `OperatorLoops`, their runs; `MachineTypeOK`, the
   correctness of multiplication.
2. *(done)* `Optimizer`, `Analyzer`, `Compiler`: every intermediate tree against
   `Imp`, every verdict against `StaticRules`.
3. *(done)* `Liveness`, `Cfg`: the fixpoint on all graphs, with its proof, and the
   graph that instructions make.
4. *(done)* `Lexer` and `Parser` against `Grammar`, in front of the rest of `Compiler`.
5. *(done)* `Colouring`, `Allocation`, `LirEmitter`, `SecondCompiler`: the second compiler
   down to the machine, with the proof of the colouring.
6. *(done)* `WordMachine`, `Debugger`: both against `Machine`, with the proofs of where the
   debugger stops and what it shows.
7. *(done)* Proofs of the division and remainder loops, and of their time.
8. *(done)* Proofs of splitting, exact live sets, the interference graph and every round of
   allocation; of both refinements of `Machine`; of the lexer.
9. *(done)* The emitter's templates as functions instead of recursive operators, and the
   proofs of every one of them that has no loop.
10. Left: an assignment with a loop as a whole, from the fetching of its operands to the
   store; that every register of spilled code is coloured with few neighbours (`Crowded`
   registers are what `second_compiler` finds); the debugger's parser of listings against the
   compiler's printer.
