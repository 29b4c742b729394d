---------------------------- MODULE MCTemplates -----------------------------
(***************************************************************************)
(* A procedure P with a scalar x, an index i and an array t of its own,    *)
(* and arguments: p a scalar, q an array, k an index.  Every template is   *)
(* emitted for every combination of addressing modes that it can meet; the *)
(* arguments stand for variables of P as well as for those of a caller.    *)
(***************************************************************************)
EXTENDS Templates, TLC

CONSTANTS
  Numbers     \* what x, i and the cells of arrays may hold

Own(address, size) == [address |-> address, size |-> size, is_pointer |-> FALSE]
Argument(address)  == [address |-> address, size |-> 1, is_pointer |-> TRUE]

Called == [name |-> "Q", args |-> <<Param("a"), ArrayParam("b"), Param("c")>>]

\* The cells from 9 on are those of Q, which begins at the line entry.
Environment(entry) ==
  [ source |-> "P",
    vars   |-> (<<"P", "p">> :> Argument(1)) @@ (<<"P", "q">> :> Argument(2))
               @@ (<<"P", "k">> :> Argument(3)) @@ (<<"P", "x">> :> Own(4, 1))
               @@ (<<"P", "i">> :> Own(5, 1)) @@ (<<"P", "t">> :> Own(6, 3)),
    procs  |-> "Q" :> [entrypoint |-> entry, memory_loc |-> 9, args |-> Called.args] ]

Scalars == { Id("x"), Id("p") }
Indexed == { At(v, idx) : v \in {"t", "q"}, idx \in {Num(1), Id("i"), Id("k")} }
Variables == Scalars \cup Indexed

-----------------------------------------------------------------------------
Shortened ==
  { Binary(v, op, Num(n)) : v \in Variables, op \in {"+", "-"}, n \in {0, 1, 5} }
  \cup { Binary(Num(n), "+", v) : v \in Variables, n \in {0, 2} }
  \cup { Binary(v, op, Num(n)) : v \in Variables, op \in {"*", "/"}, n \in {1, 2, 8} }
  \cup { Binary(Num(n), "*", v) : v \in Variables, n \in {1, 4} }

Expressions ==
  { Just(v) : v \in Variables \cup {Num(0), Num(6)} } \cup Shortened
  \cup { Binary(v, op, w) : v, w \in Variables, op \in {"+", "-"} }

\* Every target with one expression, every expression with one target.
Assignments ==
  { Assign(v, Binary(At("t", Id("i")), "-", At("q", Id("k")))) : v \in Variables }
  \cup { Assign(At("q", Id("k")), e) : e \in Expressions }

Testing(c) == [cmd |-> "test", cond |-> c]
Conditions ==
  { Testing(Binary(v, op, w)) : v \in Scalars \cup {At("q", Id("i"))},
      op \in {"=", "!=", "<", ">", "<=", ">="}, w \in Indexed \cup {Id("p"), Num(1)} }

CallsOfQ == { CallOf("Q", <<v, w, u>>) : v, u \in {"x", "p"}, w \in {"t", "q"} }

Commands ==
  Assignments \cup { ReadInto(v) : v \in Variables }
  \cup { WriteOut(v) : v \in Variables \cup {Num(7)} }
  \cup Conditions \cup CallsOfQ

\* Where Q begins depends on the length of the call alone.
Piece(c) ==
  [ command |-> c,
    env |-> Environment(IF c.cmd = "call"
                        THEN Len(EmitCall(Environment(0), c).lines) + 2 ELSE 0) ]

\* TLC evaluates the result of @@ once, and what a .cfg names at every use.
AllPieces == [c \in Commands |-> Piece(c)] @@ <<>>
MCPieces  == AllPieces

AllListings == LET pieces == AllPieces
               IN [c \in DOMAIN pieces |-> Listing(pieces[c])] @@ <<>>
MCListings  == AllListings

AllTapes == [c \in Commands |-> IF c.cmd = "read" THEN { <<2>> } ELSE { <<>> }] @@ <<>>
MCTapes  == AllTapes

\* p, q and k stand for variables of P, one of them a cell of its array, for
\* cells of a caller from 20 on, or for some of each.
Standings == { <<4, 6, 5>>, <<7, 21, 20>>, <<20, 6, 20>> }
AllMemories ==
  { (1 :> s[1]) @@ (2 :> s[2]) @@ (3 :> s[3]) @@ (4 :> x) @@ (5 :> i) @@ (6 :> 3) @@ (7 :> 1)
    @@ (8 :> x) @@ (20 :> i) @@ (21 :> 4) @@ (22 :> 0) @@ (23 :> x)
    : s \in Standings, x, i \in Numbers }
MemoriesOfAll == [c \in Commands |-> AllMemories] @@ <<>>
MCMemories    == MemoriesOfAll

MCJunk == { [x \in Registers |-> 3] }
=============================================================================
