----------------------------- MODULE MCPrograms -----------------------------
(***************************************************************************)
(* What the families of source programs for model checking share: seven    *)
(* variables, the addressing modes to reach them, and the places in which  *)
(* a piece of source can stand.                                            *)
(***************************************************************************)
EXTENDS Compiled

Variables == << Scalar("i"), Array("v", 2), Scalar("x"), Scalar("j"),
                Array("w", 3), Scalar("y") >>

\* An operand on the left, on the right, and a target, in the addressing
\* modes of the grammar; Indices gives i and j their values.
Modes == <<"scalar", "number", "variable">>

Left   == [scalar |-> Id("x"), number |-> At("v", Num(1)),
           variable |-> At("v", Id("i"))]
Right  == [scalar |-> Id("y"), number |-> At("w", Num(2)),
           variable |-> At("w", Id("j"))]
Target == [scalar |-> Id("x"), number |-> At("w", Num(0)),
           variable |-> At("v", Id("i"))]

Indices == << Assign(Id("i"), Just(Num(1))), Assign(Id("j"), Just(Num(2))) >>

\* A body stands in the main program, or in a procedure to which all of its
\* variables, the arrays only, or the scalars only are passed.
Passed == [procedure |-> {"i", "v", "x", "j", "w", "y"},
           arrays |-> {"v", "w"}, scalars |-> {"i", "x", "j", "y"}]
Places == <<"main", "procedure", "arrays", "scalars">>

InProcedure(body, passed) ==
  LET isPassed(d) == d.name \in passed
      isLocal(d)  == d.name \notin passed
      actuals == SelectSeq(Variables, isPassed)
      formal(d) == IF d.size = <<>> THEN Param(d.name) ELSE ArrayParam(d.name)
  IN Program(<< Procedure("p", [k \in DOMAIN actuals |-> formal(actuals[k])],
                          SelectSeq(Variables, isLocal), body) >>,
             Variables,
             << CallOf("p", [k \in DOMAIN actuals |-> actuals[k].name]) >>)

Placed(body, place) ==
  IF place = "main" THEN Program(<<>>, Variables, body)
                    ELSE InProcedure(body, Passed[place])

\* All the ways to take one element of each of the sequences ds, numbered:
\* TLC looks a program up faster by a number than by a record.
Combinations(ds) ==
  LET weight[k \in 0 .. Len(ds)] ==
        IF k = 0 THEN 1 ELSE weight[k - 1] * Len(ds[k])
  IN [ n \in 1 .. weight[Len(ds)] |->
         [ k \in DOMAIN ds |->
             ds[k][1 + (((n - 1) \div weight[k - 1]) % Len(ds[k]))] ] ]

\* TLC evaluates what a .cfg gives a constant at every use: these are names
\* of definitions that it evaluates once.
MCCode  == Code
MCTapes == CaseTapes
MCJunk  == { [x \in Registers |-> 5] }
=============================================================================
