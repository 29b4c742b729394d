------------------------------- MODULE Parser -------------------------------
(***************************************************************************)
(* The recursive-descent parser (parser.cpp).  A parsing is a record       *)
(*   left       the tokens that have not been consumed                     *)
(*   errors     the <<line, column>> of each error, in order               *)
(*   ok         whether the function just left has returned something      *)
(*   values     what the functions that are running hold: tokens, trees    *)
(*              and lists, the one just returned last                      *)
(*   lost       whether declarations without a value are held              *)
(*   undefined  whether a value has been taken out of an empty optional    *)
(* A function that gets a parsing which is not ok hands it on: an early    *)
(* return.  The trees carry numbers where those of ast.hpp carry lexemes,  *)
(* which the emitters read as numbers.                                     *)
(***************************************************************************)
EXTENDS Syntax, SequencesExt, TLC

Unparsed(tokens) ==
  [left |-> tokens, errors |-> <<>>, ok |-> TRUE, values |-> <<>>,
   lost |-> FALSE, undefined |-> FALSE]

\* The value v is returned, or an error reported and nothing returned.
Return(p, v)  == IF p.ok THEN [p EXCEPT !.values = Append(@, v)] ELSE p
Failed(p, at) == [p EXCEPT !.ok = FALSE, !.values = <<>>, !.errors = Append(@, at)]

\* What is made of the last n values takes their place.
Make(p, n, F(_)) ==
  LET keep == Len(p.values) - n
  IN IF p.ok THEN [p EXCEPT !.values = Append(SubSeq(@, 1, keep), F(SubSeq(@, keep + 1, keep + n)))]
     ELSE p
EmptyList(p) == Return(p, <<>>)
PushBack(p)  == Make(p, 2, LAMBDA v : Append(v[1], v[2]))

Position(token) == <<token.line, token.column>>
Nowhere         == <<0, 0>>

MatchNext(p, types) == p.left # <<>> /\ Head(p.left).type \in types
Chop(p) == [p EXCEPT !.left = Tail(@)]

\* The token is gone even if it is not one of those that are expected.
Expect(p, types) ==
  CASE ~p.ok                 -> p
    [] p.ok /\ p.left = <<>> -> Failed(p, Nowhere)
    [] p.ok /\ p.left # <<>> -> IF MatchNext(p, types) THEN Chop(p)
                                ELSE Failed(Chop(p), Position(Head(p.left)))
Take(p, types) ==
  IF MatchNext(p, types) THEN Return(Expect(p, types), Head(p.left)) ELSE Expect(p, types)

\* A comma may follow each element of a list, also the last.
SkipComma(p) == IF p.ok /\ MatchNext(p, {","}) THEN Chop(p) ELSE p

\* The number that a lexeme spells.
Numeral(token) ==
  FoldLeft(LAMBDA n, k : 10 * n + CHOOSE d \in 0 .. 9 :
                                    ToString(d) = SubSeq(token.lexeme, k, k),
           0, [k \in 1 .. Len(token.lexeme) |-> k])
Operand(token) ==
  IF token.type = "num" THEN Num(Numeral(token)) ELSE Id(token.lexeme)

-----------------------------------------------------------------------------
\* Behind the name of an identifier.
ParseIndex(p) ==
  IF p.ok /\ MatchNext(p, {"["})
  THEN LET index == Take(Chop(p), {"num", "pidentifier"})
       IN Make(Expect(index, {"]"}), 2, LAMBDA v : At(v[1].lexeme, Operand(v[2])))
  ELSE Make(p, 1, LAMBDA v : Id(v[1].lexeme))
ParseIdentifier(p) == ParseIndex(Take(p, {"pidentifier"}))

\* Where there is no token, the message is made from one all the same.
ParseValue(p) ==
  CASE ~p.ok -> p
    [] p.ok /\ MatchNext(p, {"num"}) ->
         Make(Take(p, {"num"}), 1, LAMBDA v : Operand(v[1]))
    [] p.ok /\ MatchNext(p, {"pidentifier"}) -> ParseIdentifier(p)
    [] OTHER -> IF p.left = <<>> THEN [Failed(p, Nowhere) EXCEPT !.undefined = TRUE]
                ELSE Failed(p, Position(Head(p.left)))

\* Behind the left value of an expression or a condition.
ParseOperation(p, operators) ==
  Make(ParseValue(Take(p, operators)), 3, LAMBDA v : Binary(v[1], v[2].lexeme, v[3]))
ParseOperator(p) ==
  IF p.ok /\ MatchNext(p, {";"}) THEN Make(p, 1, LAMBDA v : Just(v[1]))
  ELSE ParseOperation(p, {"+", "-", "*", "/", "%"})

ParseExpression(p) == ParseOperator(ParseValue(p))
ParseCondition(p)  == ParseOperation(ParseValue(p), {"=", "!=", ">", "<", ">=", "<="})

ParseAssignment(p) ==
  LET to   == Expect(ParseIdentifier(p), {":="})
      expr == Expect(ParseExpression(to), {";"})
  IN Make(expr, 2, LAMBDA v : Assign(v[1], v[2]))

ParseRead(p) ==
  LET to == ParseIdentifier(Expect(p, {"READ"}))
  IN Make(Expect(to, {";"}), 1, LAMBDA v : ReadInto(v[1]))

ParseWrite(p) ==
  LET value == ParseValue(Expect(p, {"WRITE"}))
  IN Make(Expect(value, {";"}), 1, LAMBDA v : WriteOut(v[1]))

-----------------------------------------------------------------------------
RECURSIVE ParseArgs(_)
ParseArgs(p) ==
  IF p.ok /\ MatchNext(p, {"pidentifier"})
  THEN ParseArgs(SkipComma(PushBack(Return(Chop(p), Head(p.left).lexeme))))
  ELSE p

ParseCall(p) ==
  LET name == Expect(Take(p, {"pidentifier"}), {"("})
      args == Expect(ParseArgs(EmptyList(name)), {")"})
  IN Make(Expect(args, {";"}), 2, LAMBDA v : CallOf(v[1].lexeme, v[2]))

\* while (!match_next(...)) parse_command: a block may be empty.
RECURSIVE ParseCommands(_, _), ParseCommand(_)
ParseCommands(p, stops) ==
  IF ~p.ok \/ MatchNext(p, stops) THEN p
  ELSE ParseCommands(PushBack(ParseCommand(p)), stops)
ParseBlock(p, stops) == ParseCommands(EmptyList(p), stops)

ParseWhile(p) ==
  LET cond == ParseCondition(Expect(p, {"WHILE"}))
      cs   == ParseBlock(Expect(cond, {"DO"}), {"ENDWHILE"})
  IN Make(Expect(cs, {"ENDWHILE"}), 2, LAMBDA v : While(v[1], v[2]))

ParseElse(p) ==
  IF p.ok /\ MatchNext(p, {"ELSE"})
  THEN LET ds == ParseBlock(Chop(p), {"ENDIF"})
       IN Make(Expect(ds, {"ENDIF"}), 3, LAMBDA v : IfElse(v[1], v[2], v[3]))
  ELSE Make(Expect(p, {"ENDIF"}), 2, LAMBDA v : If(v[1], v[2]))
ParseIf(p) ==
  LET cond == ParseCondition(Expect(p, {"IF"}))
  IN ParseElse(ParseBlock(Expect(cond, {"THEN"}), {"ENDIF", "ELSE"}))

BadParseRepeat(p) ==
  LET cs   == ParseBlock(Expect(p, {"REPEAT"}), {"UNTIL"})
      cond == ParseCondition(Expect(cs, {"UNTIL"}))
  IN Make(cond, 2, LAMBDA v : Repeat(v[1], v[2]))
ParseRepeat(p) ==
  LET cs   == ParseBlock(Expect(p, {"REPEAT"}), {"UNTIL"})
      cond == ParseCondition(Expect(cs, {"UNTIL"}))
  IN Make(Expect(cond, {";"}), 2, LAMBDA v : Repeat(v[1], v[2]))

\* An assignment that fails is reported a second time.
Assigned(p, after) == IF after.ok THEN after ELSE Failed(after, Position(Head(p.left)))
ParseCommand(p) ==
  CASE p.left = <<>>            -> Failed(p, Nowhere)
    [] MatchNext(p, {"READ"})   -> ParseRead(p)
    [] MatchNext(p, {"WRITE"})  -> ParseWrite(p)
    [] MatchNext(p, {"IF"})     -> ParseIf(p)
    [] MatchNext(p, {"REPEAT"}) -> ParseRepeat(p)
    [] MatchNext(p, {"WHILE"})  -> ParseWhile(p)
    [] MatchNext(p, {"pidentifier"}) ->
         IF MatchNext(Chop(p), {"("}) THEN ParseCall(p) ELSE Assigned(p, ParseAssignment(p))
    [] OTHER -> Failed(p, Position(Head(p.left)))

-----------------------------------------------------------------------------
\* Behind the name that is declared.
ParseSize(p) ==
  IF p.ok /\ MatchNext(p, {"["})
  THEN Make(Expect(Take(Chop(p), {"num"}), {"]"}), 2,
            LAMBDA v : Array(v[1].lexeme, Numeral(v[2])))
  ELSE Make(p, 1, LAMBDA v : Scalar(v[1].lexeme))

RECURSIVE ParseDeclarations(_)
ParseDeclarations(p) ==
  IF p.ok /\ MatchNext(p, {"pidentifier"})
  THEN ParseDeclarations(SkipComma(PushBack(ParseSize(Take(p, {"pidentifier"})))))
  ELSE p

\* IS declarations IN commands END.  The parser goes on where declarations are
\* not understood, and dereferences them at the end, where they count as empty.
CarryOn(p, after) ==
  IF p.ok /\ ~after.ok THEN [after EXCEPT !.ok = TRUE, !.values = p.values, !.lost = TRUE]
  ELSE after
ParseDeclared(p) == CarryOn(p, ParseDeclarations(p))
Dereference(p)   == [p EXCEPT !.undefined = @ \/ (p.ok /\ p.lost)]
ParseContext(p) ==
  LET decls == Expect(ParseDeclared(EmptyList(Expect(p, {"IS"}))), {"IN"})
  IN Dereference(Expect(ParseBlock(decls, {"END"}), {"END"}))

RECURSIVE ParseFormals(_)
ParseFormals(p) ==
  CASE p.ok /\ MatchNext(p, {"pidentifier"}) ->
         ParseFormals(SkipComma(PushBack(Return(Chop(p), Param(Head(p.left).lexeme)))))
    [] p.ok /\ MatchNext(p, {"T"}) ->
         ParseFormals(SkipComma(PushBack(Make(Take(Chop(p), {"pidentifier"}), 1,
                                              LAMBDA v : ArrayParam(v[1].lexeme)))))
    [] OTHER -> p

ParseProcedure(p) ==
  LET name == Expect(Take(Expect(p, {"PROCEDURE"}), {"pidentifier"}), {"("})
      args == Expect(ParseFormals(EmptyList(name)), {")"})
  IN Make(ParseContext(args), 4, LAMBDA v : Procedure(v[1].lexeme, v[2], v[3], v[4]))

RECURSIVE ParseProcedures(_)
ParseProcedures(p) ==
  IF p.ok /\ MatchNext(p, {"PROCEDURE"}) THEN ParseProcedures(PushBack(ParseProcedure(p)))
  ELSE p

\* What stands in the place of PROGRAM is reported, if it is something else, and
\* gone.
SkipPROGRAM(p, after) ==
  IF p.ok /\ ~after.ok THEN [after EXCEPT !.ok = TRUE, !.values = p.values] ELSE after
ParseMain(p) ==
  Make(ParseContext(SkipPROGRAM(p, Expect(p, {"PROGRAM"}))), 3,
       LAMBDA v : Program(v[1], v[2], v[3]))
ParseProgram(tokens) == ParseMain(ParseProcedures(EmptyList(Unparsed(tokens))))
=============================================================================
