---------------------------- MODULE MCProcedures ----------------------------
(***************************************************************************)
(* Procedures that call procedures: arguments and locals passed on, the    *)
(* same variable passed twice, arrays passed on from a local and from an   *)
(* argument, one procedure called from several places and from a loop; and *)
(* two of the programs with the calls in their procedures inlined.         *)
(***************************************************************************)
EXTENDS MCPrograms, Optimizer

CONSTANT Numbers   \* the numbers that READ may yield

Move(x, e)  == Assign(Id(x), e)
Plus(x, y)  == Binary(Id(x), "+", Id(y))
More(x)     == Move(x, Binary(Id(x), "+", Num(1)))
Less(x)     == Move(x, Binary(Id(x), "-", Num(1)))
Zero(x)     == Binary(Id(x), "=", Num(0))

-----------------------------------------------------------------------------
\* c := a + b
Sum == Procedure("sum", <<Param("a"), Param("b"), Param("c")>>, <<>>,
                 << Move("c", Plus("a", "b")) >>)

\* y := 3 x, through a local and with x passed twice
Triple == Procedure("triple", <<Param("x"), Param("y")>>, <<Scalar("z")>>,
                    << CallOf("sum", <<"x", "x", "z">>),
                       CallOf("sum", <<"z", "x", "y">>) >>)

\* from the main program, with its variables distinct and with one for both
Aliases ==
  Program(<<Sum, Triple>>, <<Scalar("m"), Scalar("n")>>,
          << ReadInto(Id("m")), CallOf("triple", <<"m", "n">>),
             WriteOut(Id("n")), CallOf("triple", <<"m", "m">>),
             CallOf("sum", <<"n", "m", "n">>), WriteOut(Id("n")) >>)

-----------------------------------------------------------------------------
\* t[0..n-1] := n-1, ..., 0 with the caller's n left as it was
Fill == Procedure("fill", <<ArrayParam("t"), Param("n")>>,
                  <<Scalar("k"), Scalar("i")>>,
                  << Move("i", Just(Num(0))), Move("k", Just(Id("n"))),
                     While(Binary(Id("k"), ">", Num(0)),
                           << Less("k"), Assign(At("t", Id("i")), Just(Id("k"))),
                              More("i") >>) >>)

\* s := t[0] + ... + t[n-1], by calls of sum in a loop
Total == Procedure("total", <<ArrayParam("t"), Param("n"), Param("s")>>,
                   <<Scalar("i"), Scalar("e")>>,
                   << Move("i", Just(Num(0))), Move("s", Just(Num(0))),
                      Repeat(<< Move("e", Just(At("t", Id("i")))),
                                CallOf("sum", <<"s", "e", "s">>),
                                More("i") >>,
                             Binary(Id("i"), ">=", Id("n"))) >>)

\* both, on an array of its own and on the one passed to it
Work == Procedure("work", <<ArrayParam("t"), Param("n"), Param("s")>>,
                  <<Array("own", 2), Scalar("r")>>,
                  << CallOf("fill", <<"t", "n">>),
                     CallOf("total", <<"t", "n", "s">>),
                     Assign(At("own", Num(0)), Just(Id("s"))),
                     Assign(At("own", Num(1)), Just(At("t", Num(0)))),
                     Move("r", Just(Num(2))),
                     CallOf("total", <<"own", "r", "s">>) >>)

Arrays ==
  Program(<<Sum, Fill, Total, Work>>,
          <<Scalar("n"), Array("a", 3), Scalar("s")>>,
          << ReadInto(Id("n")), CallOf("work", <<"a", "n", "s">>),
             WriteOut(Id("s")), CallOf("total", <<"a", "n", "n">>),
             WriteOut(Id("n")) >>)

-----------------------------------------------------------------------------
\* x reduced by y as often as possible, counted in q; called in each branch
Reduce == Procedure("reduce", <<Param("x"), Param("y"), Param("q")>>, <<>>,
                    << Move("q", Just(Num(0))),
                       While(Binary(Id("x"), ">=", Id("y")),
                             << Move("x", Binary(Id("x"), "-", Id("y"))),
                                More("q") >>) >>)

Choose == Procedure("choose", <<Param("x"), Param("y"), Param("q")>>, <<>>,
                    << If(Zero("x"), << More("x") >>),
                       If(Zero("y"), << More("y") >>),
                       IfElse(Binary(Id("x"), "<", Id("y")),
                              << CallOf("reduce", <<"y", "x", "q">>) >>,
                              << CallOf("reduce", <<"x", "y", "q">>),
                                 Move("q", Binary(Id("q"), "*", Id("y"))) >>),
                       If(Zero("y"), << More("y") >>),
                       Move("q", Binary(Id("q"), "/", Id("y"))),
                       Move("x", Binary(Id("q"), "%", Id("y"))) >>)

Branches ==
  Program(<<Reduce, Choose>>,
          <<Scalar("x"), Scalar("y"), Scalar("q")>>,
          << ReadInto(Id("x")), ReadInto(Id("y")), More("x"), More("y"),
             CallOf("choose", <<"x", "y", "q">>), WriteOut(Id("q")),
             More("y"), CallOf("choose", <<"q", "y", "x">>),
             WriteOut(Id("x")), WriteOut(Id("y")) >>)

-----------------------------------------------------------------------------
\* What the optimizer makes of some of these: the calls that triple and work
\* do become the commands of sum, fill and total, in which calls remain.
AliasesInlined == Inlining(Inlining(Aliases, 2, 1, 1), 2, 2, 1)
ArraysInlined ==
  Inlining(Inlining(Inlining(Arrays, 4, 1, 2), 4, 2, 3), 4, 6, 3)

-----------------------------------------------------------------------------
ProcedureCases ==
  << [program |-> Aliases,  tapes |-> { <<a>> : a \in Numbers }],
     [program |-> Arrays,   tapes |-> { <<a>> : a \in Numbers \cap 1 .. 3 }],
     [program |-> Branches, tapes |-> { <<a, b>> : a \in Numbers,
                                                   b \in Numbers }],
     [program |-> AliasesInlined, tapes |-> { <<a>> : a \in Numbers }],
     [program |-> ArraysInlined,  tapes |-> { <<a>> : a \in Numbers \cap 1 .. 2 }] >>
=============================================================================
