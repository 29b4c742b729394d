----------------------------- MODULE MCCompiler -----------------------------
(***************************************************************************)
(* Short texts of all kinds of characters; sentences with all productions  *)
(* of the grammar, and their edits; three procedures that call one another *)
(* with all combinations of names, names that occur in each of them, calls *)
(* in blocks, arrays; and programs with one mistake each, in every kind of *)
(* place.                                                                  *)
(***************************************************************************)
EXTENDS Compiler

\* The inputs on which meanings are compared.
MCInputs == { <<0, 0>>, <<1, 4>>, <<7, 2>> }

Move(x, v)     == Assign(Id(x), Just(v))
Step(x, op, v) == Assign(Id(x), Binary(Id(x), op, v))

-----------------------------------------------------------------------------
\* y := x + 1 through a local
Inner == Procedure("r", <<Param("x"), Param("y")>>, <<Scalar("z")>>,
                   << Assign(Id("z"), Binary(Id("x"), "+", Num(1))),
                      Move("y", Id("z")) >>)

\* A caller with a local of the same name, and names x, y, z to call with.
Middle(x, y) ==
  Procedure("q", <<Param("x"), Param("y")>>, <<Scalar("z"), Scalar("k")>>,
            << Move("z", Num(2)), Move("k", Id("x")),
               CallOf("r", <<x, y>>), CallOf("r", <<"z", "x">>),
               Assign(Id("y"), Binary(Id("z"), "+", Id("k"))) >>)

\* One more, which calls the one before twice, in a block the second time.
Outer(x, y) ==
  Procedure("p", <<Param("y"), Param("x")>>, <<Scalar("z"), Scalar("k")>>,
            << Move("z", Num(3)), Move("k", Num(4)),
               CallOf("q", <<x, y>>), Step("x", "+", Id("k")),
               IfElse(Binary(Id("x"), ">", Id("z")),
                      << CallOf("q", <<"z", "k">>) >>,
                      << Step("z", "-", Id("y")) >>),
               Assign(Id("y"), Binary(Id("z"), "+", Id("k"))) >>)

ReadBoth  == << ReadInto(Id("x")), ReadInto(Id("y")) >>
WriteBoth == << WriteOut(Id("x")), WriteOut(Id("y")) >>
Alone(p)  == << CallOf(p, <<"x", "y">>) >>

Nested ==
  { Program(<<Inner, Middle(names[1], names[2]), Outer(names[3], names[4]),
              Procedure("o", <<Param("x"), Param("y")>>, <<>>, Alone("p"))>>,
            <<Scalar("x"), Scalar("y")>>,
            ReadBoth \o Alone("o") \o WriteBoth)
    : names \in {"x", "y", "z"} \X {"x", "y", "z"}
                \X {"x", "y", "z", "k"} \X {"x", "y", "z", "k"} }

\* Arrays, their indices and loops renamed: t[i] moved about with i from an
\* argument, from a local and from the same variable as the value.
Arrayed(i, n) ==
  Program(<< Procedure("q", <<ArrayParam("t"), Param("i"), Param("x")>>, <<>>,
                       << While(Binary(Id("i"), "<", Num(2)),
                                << Assign(At("t", Id("i")),
                                          Binary(Id("x"), "+", Id("i"))),
                                   Step("i", "+", Num(1)) >>),
                          Assign(Id("x"), Binary(At("t", Id(i)), "-", Num(1))) >>),
             Procedure("p", <<ArrayParam("v"), Param("x")>>,
                       <<Array("t", 4), Scalar("i")>>,
                       << Move("i", Num(0)), CallOf("q", <<"t", "i", "x">>),
                          Move("i", Num(1)), CallOf("q", <<"v", "i", n>>),
                          Repeat(<< Assign(At("v", Id("i")), Just(At("t", Id("i")))),
                                    Step("i", "-", Num(1)) >>,
                                 Binary(Id("i"), "=", Num(0))),
                          Step("x", "+", At("v", Id("i"))) >>),
             Procedure("o", <<ArrayParam("t"), Param("i")>>, <<>>,
                       << CallOf("p", <<"t", "i">>), WriteOut(At("t", Id("i"))) >>) >>,
          <<Array("t", 12), Scalar("x"), Scalar("y"), Scalar("i")>>,
          ReadBoth \o << Move("i", Num(0)),
             While(Binary(Id("i"), "<", Num(12)),
                   << Assign(At("t", Id("i")), Just(Id("x"))), Step("i", "+", Num(1)) >>),
             CallOf("o", <<"t", "y">>) >> \o WriteBoth)

WithArrays == { Arrayed(i, n) : i \in {"i", "x"}, n \in {"i", "x"} }

-----------------------------------------------------------------------------
\* One mistake in a command; u is declared nowhere.
Equal(x, y)   == Binary(Id(x), "=", Id(y))
Harmless      == << Move("x", Num(1)) >>
InCondition   == { If(Equal("u", "x"), Harmless), While(Equal("x", "u"), Harmless),
                   Repeat(Harmless, Equal("u", "u")) }
InArgument    == { CallOf("q", <<"x", "u">>) }
Elsewhere     ==
  { Move("u", Num(1)), Move("x", Id("u")), Step("x", "+", Id("u")),
    Assign(Id("x"), Binary(Id("u"), "*", Id("x"))),
    Assign(At("v", Id("u")), Just(Num(1))), Move("x", At("v", Id("u"))),
    ReadInto(Id("u")), ReadInto(At("v", Id("u"))), ReadInto(At("u", Id("x"))),
    WriteOut(Id("u")), WriteOut(At("v", Id("u"))), WriteOut(At("u", Num(1))),
    CallOf("u", <<"x">>), CallOf("q", <<"x">>), CallOf("q", <<"x", "y", "x">>) }
CallsForward  == { CallOf("o", <<"x", "y", "v">>) }
CallsItself   == { CallOf("p", <<"x", "y", "v">>) }

\* The blocks it may be in.
Wrapped(c, block) ==
  CASE block = "none"   -> c
    [] block = "then"   -> If(Equal("x", "y"), <<c>>)
    [] block = "else"   -> IfElse(Equal("x", "y"), Harmless, <<c>>)
    [] block = "while"  -> While(Equal("x", "y"), <<c>>)
    [] block = "repeat" -> Repeat(<<c>>, Equal("x", "x"))
InBlocks == {"then", "else", "while", "repeat"}
Anywhere == {"none"} \cup InBlocks

\* And the place: the main program, a procedure, or one that another calls.
Formals == <<Param("x"), Param("y"), ArrayParam("v")>>
Mistaken(c, place) ==
  LET p == Procedure("p", Formals, <<Scalar("k")>>,
                     IF place = "main" THEN Harmless ELSE <<c>>)
      o == Procedure("o", Formals, <<>>,
                     IF place = "inlined" THEN << CallOf("p", <<"y", "x", "v">>) >>
                     ELSE Harmless)
  IN Program(<<Inner, Middle("x", "y"), p, o>>, <<Scalar("x"), Scalar("y"), Array("v", 3)>>,
             IF place = "main" THEN <<c>> ELSE << CallOf("o", <<"x", "y", "v">>) >>)

Mistakes(commands, blocks, places) ==
  { Mistaken(Wrapped(c, block), place)
    : c \in commands, block \in blocks, place \in places }

-----------------------------------------------------------------------------
\* Declarations that clash, in every pair of places.
Clash(args, decls, main) ==
  Program(<< Procedure("p", args, decls, Harmless) >>, main, Harmless)
Clashes ==
  { Clash(<<Param("x"), Param("x")>>, <<>>, <<Scalar("x")>>),
    Clash(<<Param("x"), ArrayParam("x")>>, <<>>, <<Scalar("x")>>),
    Clash(<<Param("x")>>, <<Scalar("k"), Scalar("x")>>, <<Scalar("x")>>),
    Clash(<<Param("x")>>, <<Scalar("k"), Array("k", 2)>>, <<Scalar("x")>>),
    Clash(<<Param("x")>>, <<>>, <<Scalar("x"), Scalar("y"), Scalar("x")>>) }

\* An array for a scalar and the other way round, in the main program.
Kinds ==
  { Program(<<Inner, Procedure("p", Formals, <<>>, Harmless)>>,
            <<Scalar("x"), Scalar("y"), Array("v", 3)>>, <<Wrapped(c, block)>>)
    : c \in { CallOf("p", <<"x", "v", "v">>), CallOf("p", <<"x", "y", "y">>),
              CallOf("r", <<"v", "y">>) },
      block \in Anywhere }

\* A number behind the last index of an array of three cells, in the main
\* program and in a procedure.
Indexing(n) ==
  { Assign(At("v", Num(n)), Just(Id("x"))), Move("x", At("v", Num(n))),
    Assign(Id("x"), Binary(Id("y"), "-", At("v", Num(n)))), ReadInto(At("v", Num(n))),
    WriteOut(At("v", Num(n))), If(Binary(Id("x"), "<", At("v", Num(n))), Harmless) }
Outside(n) ==
  Mistakes(Indexing(n), Anywhere, {"main"})
  \cup { Program(<<Procedure("p", <<Param("x"), Param("y")>>, <<Array("v", 3)>>, <<c>>)>>,
                 <<Scalar("x"), Scalar("y")>>, Alone("p"))
         : c \in Indexing(n) }

Illegal ==
  Outside(4) \cup Mistakes(Elsewhere, Anywhere, {"main", "procedure", "inlined"})
  \cup Mistakes(InCondition, Anywhere, {"main", "procedure"})
  \cup Mistakes(InArgument, {"none"}, {"procedure"})
  \cup Mistakes(CallsForward \cup CallsItself, Anywhere, {"procedure", "inlined"})
  \cup Clashes \cup Kinds

-----------------------------------------------------------------------------
\* Programs that meet a flaw each (README, Findings).
NumberIndex ==
  { Mistaken(Wrapped(Move("x", At("v", Num(1))), block), "inlined")
    : block \in {"none", "then", "else"} }
IndexAtSize == Outside(3)
OneCell ==
  { Program(<<Procedure("p", Formals, <<>>, Harmless)>>,
            <<Scalar("x"), Scalar("y"), Array("v", 1)>>,
            << CallOf("p", <<"x", "y", "v">>) >>) }
UndeclaredArgument ==
  Mistakes(InArgument, Anywhere, {"main", "inlined"})
  \cup Mistakes(InArgument, InBlocks, {"procedure"})
UndeclaredCondition == Mistakes(InCondition, Anywhere, {"inlined"})
WrongKind ==
  { Program(<<Procedure("p", Formals, <<>>, Harmless),
              Procedure("q", <<Param("x"), Param("y")>>, <<>>,
                        << Wrapped(CallOf("p", <<"x", "y", "y">>), block) >>)>>,
            <<Scalar("x"), Scalar("y")>>, << CallOf("q", <<"x", "y">>) >>)
    : block \in Anywhere }

-----------------------------------------------------------------------------
\* The text of a sequence of lexemes: a line for each command.
Spelled(lexemes) ==
  LET behind(x) == IF x \in {";", "DO", "THEN", "IN", "END"} THEN "\n" ELSE " "
  IN FlattenSeq([k \in DOMAIN lexemes |->
                   [n \in 1 .. Len(lexemes[k]) |-> SubSeq(lexemes[k], n, n)]
                     \o << behind(lexemes[k]) >>] \o <<>>)
TextsOf(trees) == { Spelled(OfProgram(t)) : t \in trees }

\* Small programs that have all of the grammar, to be edited.
Small ==
  { <<"PROGRAM", "IS", "x", ",", "t", "[", "3", "]", ",", "y", "IN",
      "x", ":=", "t", "[", "1", "]", "+", "y", ";", "t", "[", "x", "]", ":=", "2", ";", "END">>,
    <<"PROGRAM", "IS", "x", ",", "y", "IN", "IF", "x", ">", "y", "THEN", "READ", "x", ";",
      "ELSE", "WRITE", "y", ";", "ENDIF", "END">>,
    <<"PROGRAM", "IS", "x", "IN", "WHILE", "x", "<", "3", "DO",
      "REPEAT", "x", ":=", "1", ";", "UNTIL", "x", "=", "1", ";", "ENDWHILE", "END">>,
    <<"PROCEDURE", "p", "(", "T", "t", ",", "x", ")", "IS", "IN", "x", ":=", "t", "[", "x", "]", ";",
      "END", "PROGRAM", "IS", "t", "[", "2", "]", ",", "x", "IN",
      "p", "(", "t", ",", "x", ")", ";", "END">> }

Others == {"x", "1", ";", ",", ")", "[", "]", ":=", "+", "<", "T", "IN", "END", "THEN",
           "ELSE", "ENDWHILE", "UNTIL", "READ"}
Edited(w) ==
  UNION { { RemoveAt(w, k), SubSeq(w, 1, k), SubSeq(w, k, Len(w)) }
          \cup { ReplaceAt(w, k, x) : x \in Others }
          \cup { InsertAt(w, k, x) : x \in {"x", "1", ",", ";", "[", "END"} }
          : k \in DOMAIN w }
Edits == UNION { Edited(w) : w \in Small }

\* The edits that the parser should take offence at and may not: it takes a
\* value from behind the last token, any token for PROGRAM, lists and blocks
\* that the grammar does not have, and declarations that it has not understood.
TypesOf(w) == [k \in DOMAIN w |-> IF w[k] \in {"1", "2", "3"} THEN "num"
                                  ELSE IF w[k] \in {"x", "y", "t", "p"} THEN "pidentifier"
                                  ELSE w[k]] \o <<>>
ValueMissing ==
  { w \in UNION { { SubSeq(v, 1, k) : k \in DOMAIN v } : v \in Small } :
      Last(w) \in {":=", "+", ">", "<", "=", "IF", "WHILE", "UNTIL", "WRITE"} }
NoPROGRAM == UNION { { ReplaceAt(w, k, x) : x \in Others \ {"PROGRAM", "PROCEDURE"},
                                            k \in { i \in DOMAIN w : w[i] = "PROGRAM" } }
                     : w \in Small }
TooLax == { w \in Edits : HoldsSentence(TypesOf(w)) /\ ~Sentence(TypesOf(w)) }

NoSize == { w \in Edits : \E k \in 1 .. Len(w) - 2 :
                            w[k] = "[" /\ w[k + 1] \in {"x", "y"} /\ w[k + 2] = "IN" }

\* An array of one cell.
OneCellLess == { w \in Edits : \E k \in 1 .. Len(w) - 3 :
                                 w[k] = "[" /\ w[k + 1] = "1" /\ w[k + 2] = "]" /\ w[k + 3] = "," }
\* Nothing at all.
Blank == { <<>>, <<"\n">>, <<"#", "x">> }

\* All short texts over characters of all kinds that have a token.
Alphabet == {"a", "_", "1", "0", "I", "S", ":", "=", "!", "<", "(", "#", " ", "\n", "?"}
Short == { t \in UNION { [1 .. n -> Alphabet] : n \in 1 .. 3 } :
             \E n \in DOMAIN t : /\ t[n] \notin blanks \cup {"#"}
                                /\ \A m \in 1 .. n - 1 : t[m] \in blanks }

-----------------------------------------------------------------------------
ThreeDeep == { Program(<<Inner, Middle(x, y), Outer(y, x)>>, <<Scalar("x"), Scalar("y")>>,
                      ReadBoth \o Alone("p") \o WriteBoth)
              : x \in {"x", "y", "z"}, y \in {"x", "y", "z"} }

RightTexts ==
  Short \cup { <<"#", "?", "\n">> \o t : t \in { u \in Short : Len(u) <= 2 } }
  \cup { Spelled(w) : w \in Edits \ (ValueMissing \cup NoPROGRAM \cup TooLax \cup NoSize
                                     \cup OneCellLess) }
  \cup TextsOf(Nested \cup WithArrays \cup ThreeDeep \cup Illegal)
WrongTexts ==
  Blank \cup { Spelled(w) : w \in ValueMissing \cup NoPROGRAM \cup TooLax \cup NoSize
                             \cup OneCellLess }
  \cup TextsOf(NumberIndex \cup IndexAtSize \cup OneCell \cup UndeclaredArgument \cup UndeclaredCondition
               \cup WrongKind)

MCRight == RightTexts
MCWrong == WrongTexts
=============================================================================
