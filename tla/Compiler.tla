------------------------------ MODULE Compiler ------------------------------
(***************************************************************************)
(* main() of compiler.cpp: the lexer's tokens collected, the parser, its   *)
(* errors shown, the analyzer's walk over the procedures, its errors       *)
(* shown, the inlining of one call after another, the emitter, its errors  *)
(* shown, the code written.  The stages behind the parser share one syntax *)
(* tree, which the optimizer rewrites in place.                            *)
(*                                                                         *)
(* An exception nobody catches, undefined behaviour and memory used up are *)
(* the stage "crashed"; where undefined behaviour may pass unnoticed, so   *)
(* it may here.  What display_errors does after an error is exit(1), the   *)
(* stage "rejected".                                                       *)
(***************************************************************************)
EXTENDS Lexer, Parser, Grammar, Analyzer, Optimizer, Emitter, StaticRules, Imp

CONSTANTS
  Texts,      \* the source texts that are compiled
  Inputs      \* what they are fed when their meanings are compared

VARIABLES
  stage,      \* "read", "parse", "parsed", "analyze", "inline", "emit", or how
              \* main() ended
  parser,     \* the Parser object
  source,     \* the syntax tree that the parser made
  program,    \* the syntax tree as it is now
  analyzer,   \* the Analyzer object
  at,         \* the loop variables: <<procedure, command>>
  procedures, \* AstOptimizer::procedures: name -> which procedure of the tree
  object      \* the Emitter object

vars == <<text, here, tokens, complaints, reading,
          stage, parser, source, program, analyzer, at, procedures, object>>

Ended == {"written", "rejected", "crashed"}

Init ==
  /\ LexerInit(Texts)
  /\ stage = "read"
  /\ parser = Unparsed(<<>>)
  /\ source = Program(<<>>, <<>>, <<>>)
  /\ program = source
  /\ analyzer = Unread
  /\ at = <<1, 0>>
  /\ procedures = <<>>
  /\ object = Start

-----------------------------------------------------------------------------
later == <<analyzer, at, procedures, object>>

ReadToken ==
  /\ stage = "read"
  /\ LexerStep
  /\ UNCHANGED <<stage, parser, source, program, later>>

\* One complaint of the lexer is enough for main() to return 1.
EndReading ==
  /\ stage = "read"
  /\ reading # "reading"
  /\ stage' = IF reading = "crashed" THEN "crashed"
              ELSE IF complaints = <<>> THEN "parse" ELSE "rejected"
  /\ UNCHANGED <<lexer, parser, source, program, later>>

\* The trees have words for lexemes.
Worded == [k \in DOMAIN tokens |-> [tokens[k] EXCEPT !.lexeme = WordOf(@)]] \o <<>>

Parse ==
  /\ stage = "parse"
  /\ parser' = ParseProgram(Worded)
  /\ stage' \in {"parsed"} \cup (IF parser'.undefined THEN {"crashed"} ELSE {})
  /\ UNCHANGED <<lexer, source, program, later>>

\* The parser's errors are looked at only if it returned no program.
TakeProgram ==
  /\ stage = "parsed"
  /\ stage' = IF parser.ok THEN "analyze" ELSE "rejected"
  /\ source' = IF parser.ok THEN Last(parser.values) ELSE source
  /\ program' = source'
  /\ UNCHANGED <<lexer, parser, later>>

-----------------------------------------------------------------------------
front == <<lexer, parser, source>>

AnalyzeNextProcedure ==
  /\ stage = "analyze"
  /\ at[1] \in DOMAIN program.procedures
  /\ analyzer' = AnalyzeProcedure(analyzer, program.procedures[at[1]])
  /\ at' = <<at[1] + 1, 0>>
  /\ UNCHANGED <<front, stage, program, procedures, object>>

\* The main program last; display_errors goes on after warnings.
AnalyzeRest ==
  /\ stage = "analyze"
  /\ at[1] \notin DOMAIN program.procedures
  /\ analyzer' = AnalyzeMain(analyzer, program)
  /\ stage' = IF \A e \in analyzer'.errors : IsWarning(e) THEN "inline"
              ELSE "rejected"
  /\ at' = <<1, 0>>
  /\ UNCHANGED <<front, program, procedures, object>>

-----------------------------------------------------------------------------
\* inline_procedures looks at the commands of procedures, not at those of
\* blocks and of the main program.  Command 0 stands for the entry.
Caller == program.procedures[at[1]]
AtProcedure == stage = "inline" /\ at[1] \in DOMAIN program.procedures
AtCall ==
  /\ AtProcedure
  /\ at[2] \in DOMAIN Caller.commands
  /\ Caller.commands[at[2]].cmd = "call"
  /\ ShouldBeInlined(source, Caller.commands[at[2]].name)

EnterProcedure ==
  /\ AtProcedure
  /\ at[2] = 0
  /\ procedures' = (Caller.name :> at[1]) @@ procedures
  /\ at' = <<at[1], 1>>
  /\ UNCHANGED <<front, stage, program, analyzer, object>>

\* What the optimizer cannot look up makes it throw.
InlineCall ==
  /\ AtCall
  /\ LET call == Caller.commands[at[2]]
     IN IF Inlinable(program, procedures, at[1], call)
        THEN /\ program' = Inlining(program, at[1], at[2], procedures[call.name])
             /\ at' = <<at[1], at[2] + 1>>
             /\ UNCHANGED stage
        ELSE stage' = "crashed" /\ UNCHANGED <<program, at>>
  /\ UNCHANGED <<front, analyzer, procedures, object>>

PassCommand ==
  /\ AtProcedure
  /\ at[2] \in DOMAIN Caller.commands
  /\ ~AtCall
  /\ at' = <<at[1], at[2] + 1>>
  /\ UNCHANGED <<front, stage, program, analyzer, procedures, object>>

LeaveProcedure ==
  /\ AtProcedure
  /\ at[2] > Len(Caller.commands)
  /\ at' = <<at[1] + 1, 0>>
  /\ UNCHANGED <<front, stage, program, analyzer, procedures, object>>

FinishInlining ==
  /\ stage = "inline"
  /\ at[1] \notin DOMAIN program.procedures
  /\ stage' = "emit"
  /\ UNCHANGED <<front, program, analyzer, at, procedures, object>>

-----------------------------------------------------------------------------
\* What is undefined goes unnoticed or makes the emitter fall over.
EmitProgram ==
  /\ stage = "emit"
  /\ object' = Compile(program)
  /\ LET kinds == { e.kind : e \in object'.errors }
     IN stage' \in IF kinds = {} THEN {"written"}
                  ELSE IF "aborts" \in kinds THEN {"crashed"}
                  ELSE {"rejected"} \cup (IF "undefined" \in kinds THEN {"crashed"} ELSE {})
  /\ UNCHANGED <<front, program, analyzer, at, procedures>>

Exit == stage \in Ended /\ UNCHANGED vars

Next ==
  \/ ReadToken \/ EndReading \/ Parse \/ TakeProgram
  \/ AnalyzeNextProcedure \/ AnalyzeRest
  \/ EnterProcedure \/ InlineCall \/ PassCommand
  \/ LeaveProcedure \/ FinishInlining
  \/ EmitProgram
  \/ Exit

Spec == Init /\ [][Next]_vars

-----------------------------------------------------------------------------
(* The type of the tokens, and what they spell, leading zeros apart.        *)
Word == [k \in DOMAIN tokens |-> tokens[k].type] \o <<>>
Spelling ==
  LET words == Worded
  IN [k \in DOMAIN words |-> IF words[k].type = "num" THEN ToString(Numeral(words[k]))
                             ELSE words[k].lexeme] \o <<>>

IsLegal == complaints = <<>> /\ Sentence(Word) /\ Valid(source)

(* What the parser builds of a sentence of the grammar is a tree that spells *)
(* that sentence.  It reports nothing only of what begins with a sentence,  *)
(* but for commas and empty blocks; otherwise its first error is at the     *)
(* first token with which no sentence goes on, or at the end of the file    *)
(* where one still could.                                                   *)
PlaceOf(k) == IF k > Len(tokens) THEN Nowhere ELSE Position(tokens[k])
ParsesSentences ==
  stage = "parsed"
    => /\ Sentence(Word) => parser.ok /\ OfProgram(Last(parser.values)) = Spelling
       /\ parser.errors = <<>> <=> HoldsSentence(Word)
       /\ parser.errors # <<>> =>
            \E wrong \in 1 .. Len(tokens) + 1 :
              /\ PlaceOf(wrong) = Head(parser.errors)
              /\ \A k \in {wrong - 1, wrong} \cap 0 .. Len(tokens) :
                   Beginning(SubSeq(Word, 1, k)) <=> k < wrong

(* Whatever has been inlined, the program reads and writes what the source  *)
(* does: no argument, local or index is confused with another one when the  *)
(* commands of inline_procedures move from one scope to another, and again  *)
(* with that scope to a third.                                              *)
MeaningKept ==
  program # source /\ Valid(source)
    => \A input \in Inputs :
         MeaningOf(program, input).events = MeaningOf(source, input).events

(* Inlining leaves no name behind: every name in the rewritten tree, in the *)
(* branches no input reaches as well, is declared where it now stands, and  *)
(* calls that remain still get arrays for arrays and scalars for scalars.   *)
StaysCoherent == program # source /\ Valid(source) => Coherent(program)

(* A text with a character, a sentence or a name that is not right ends     *)
(* with a message about it: it is neither compiled nor does it make a later *)
(* stage, which takes for granted what an earlier one has checked, fall     *)
(* over.                                                                    *)
IllegalIsRejected ==
  stage \in Ended /\ ~IsLegal => stage = "rejected"

(* A legal program is compiled: no stage rejects it or falls over it.       *)
LegalIsCompiled ==
  stage \in Ended /\ IsLegal => stage = "written"

(* Both.                                                                    *)
VerdictIsRight == IllegalIsRejected /\ LegalIsCompiled
=============================================================================
