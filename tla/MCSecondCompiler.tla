-------------------------- MODULE MCSecondCompiler --------------------------
(***************************************************************************)
(* Allocation on the sequences of MCCfg and on some with many registers    *)
(* alive at a time; and programs, compiled and run: in the part of the     *)
(* language that the second compiler serves, and beside it (README,        *)
(* Findings).                                                              *)
(***************************************************************************)
EXTENDS SecondCompiler, Imp, MCCfg

Variables == <<Scalar("x"), Scalar("y")>>
Case(procedures, body, tapes) ==
  [program |-> Program(procedures, Variables, body), tapes |-> tapes]

Move(x, v)         == Assign(Id(x), Just(v))
Set(x, lhs, op, rhs) == Assign(Id(x), Binary(lhs, op, rhs))
ReadBoth  == << ReadInto(Id("x")), ReadInto(Id("y")) >>
WriteBoth == << WriteOut(Id("x")), WriteOut(Id("y")) >>

-----------------------------------------------------------------------------
\* Two of these, one behind the other.
Simple ==
  << Set("x", Id("x"), "+", Id("y")), Set("y", Id("x"), "-", Id("y")),
     Set("x", Num(3), "-", Id("x")), Set("y", Id("y"), "+", Num(1)),
     Set("x", Num(5), "-", Num(2)), WriteOut(Num(6)), Inlined(<<Move("x", Num(4))>>) >>
Compound ==
  LET some == Set("y", Id("y"), "+", Num(2))
      less == Set("x", Id("x"), "-", Num(1))
  IN << If(Binary(Id("x"), "<=", Id("y")), <<less>>),
        IfElse(Binary(Id("x"), ">=", Num(2)), <<some>>, <<less, Move("y", Id("x"))>>),
        IfElse(Binary(Num(2), "<=", Id("y")), <<Move("y", Num(3))>>, <<some>>),
        While(Binary(Id("x"), ">=", Num(1)), <<less, some>>),
        While(Binary(Id("y"), "<=", Id("x")),
              <<some, If(Binary(Num(2), ">=", Id("x")), <<less>>)>>) >>
Commands == Simple \o Compound

\* The last of the pairs, in which x and y meet eight numbers, is Crowded.
Pairs == FlattenSeq([a \in DOMAIN Commands |->
                       [b \in DOMAIN Commands |-> << Commands[a], Commands[b] >>]])
InServed(n) == Case(<<>>, ReadBoth \o Pairs[n] \o WriteBoth,
                    { <<0, 2>>, <<1, 0>>, <<3, 2>> })
Served  == [n \in 1 .. Len(Pairs) - 1 |-> InServed(n)] \o <<>>

\* What it does not serve, one cause each.
Adding == Procedure("p", <<Param("x")>>, <<>>, << Set("x", Id("x"), "+", Num(1)), WriteOut(Id("x")) >>)
Departing ==
  LET of(body) == Case(<<>>, ReadBoth \o body \o WriteBoth, {<<3, 2>>})
  IN << of([n \in 1 .. 8 |-> Set("y", Id("y"), "+", Num(n))]),   \* crowded registers
        of(<< Move("x", Num(0)) >>),
        of(<< Set("x", Id("x"), "*", Id("y")) >>),
        of(<< Set("x", Id("x"), "/", Id("y")) >>),
        of(<< Set("x", Id("x"), "%", Id("y")) >>),
        of(<< If(Binary(Id("x"), "<", Id("y")), << Move("x", Num(1)) >>) >>),
        of(<< Repeat(<< Set("x", Id("x"), "-", Num(1)) >>, Binary(Id("x"), "<=", Num(1))) >>),
        [program |-> Program(<<>>, << Scalar("x"), Array("v", 2) >>,
                             << Assign(At("v", Num(0)), Just(Num(1))),
                                Assign(At("v", Num(1)), Just(Num(2))),
                                WriteOut(At("v", Num(0))) >>), tapes |-> {<<>>}],
        Case(<<Adding>>, ReadBoth \o << CallOf("p", <<"x">>) >> \o WriteBoth, {<<3, 2>>}) >>

ScriptOf(cases) ==
  [n \in DOMAIN cases |->
     [tp \in cases[n].tapes |-> MeaningOf(cases[n].program, tp).events] @@ <<>>] \o <<>>

-----------------------------------------------------------------------------
\* Sequences of instructions that no program stands behind: they are allocated
\* and not run.  To the specification that is an empty program, without code
\* where allocation fails.
SequenceInit ==
  /\ BuilderInit
  /\ AllocationInit(1 + Max({ c.reg : c \in { d \in Range(instructions) : "reg" \in DOMAIN d } }
                             \cup {0}), 1, "none")
  /\ emitted = << Plain("HALT") >>
  /\ prog = Len(Script)
  /\ tape = <<>>
  /\ MachineInit

NotRun ==
  /\ prog = Len(Script)
  /\ pass = "crashed"
  /\ lines = <<>>
  /\ lines' = << Plain("HALT") >>
  /\ UNCHANGED <<working, emitted, prog, r, pam, lr, t, io, tape, nread, out>>

MCSpec == /\ SecondInit \/ SequenceInit
          /\ [][SecondNext \/ NotRun]_second
          /\ WF_second(SecondStep \/ NotRun)

\* Those of MCCfg, and some in which 7, 8 or 9 registers are in use at a time:
\* 8 are one too many, in the last sequence of the two with the one spilled at
\* the end of a block, and of 9 each has too many neighbours.
Each(op, n) == [x \in 1 .. n |-> WithRegister(op, x)]
AtATime(n, end) == Each("RST", n) \o Each("INC", n) \o << end >>
Spilling == { AtATime(n, Plain("HALT")) : n \in 7 .. 9 }
            \cup { AtATime(8, WithRegister("JUMPR", 2)) }

\* One register with too many neighbours, which are in use one after the other.
Around == Each("RST", 1)
          \o FlattenSeq([x \in 1 .. 8 |->
               << WithRegister("RST", x + 1), WithRegister("INC", x + 1) >>])
          \o << WithRegister("INC", 1), Plain("HALT") >>

AllSequences == Sequences \cup Spilling \cup { Around }
AllScripts   == Append(ScriptOf(Served), <<>> :> <<>>)

DepartingScripts == ScriptOf(Departing)

-----------------------------------------------------------------------------
Proved == INSTANCE CfgProofs

Named(p, part) == { p[m][part] : m \in { k \in DOMAIN p : part \in DOMAIN p[k] } }

\* What the theorems about blocks and allocation ask of a program (Supplied in
\* CfgProofs), with the registers below a given one.
IsSupplied(p, count) ==
  /\ p # <<>> /\ EndsBlock(Last(p))
  /\ Range(p) \subseteq Proved!LirOver(0 .. count - 1, Named(p, "label"))
  /\ Proved!Lands(p)

ASSUME SuppliedAssumption ==
  /\ \A p \in Programs : IsSupplied(p, 1 + Max(Named(p, "reg") \cup {0}))
  /\ LET objects == Objects
     IN \A n \in DOMAIN objects : \A order \in Orders(objects[n]) :
          IsSupplied(Flattened(objects[n], order), objects[n].next)

-----------------------------------------------------------------------------
\* TLC evaluates what a .cfg gives a constant at every use: these are names
\* of definitions that it evaluates once.
MCPrograms == AllSequences
MCCases    == Served
MCScript   == AllScripts
MCDeparting        == Departing
MCDepartingScripts == DepartingScripts
MCJunk   == { [x \in Range(RegisterNames) |-> 5] }
=============================================================================
