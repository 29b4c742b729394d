----------------------------- MODULE CfgProofs ------------------------------
(***************************************************************************)
(* The control-flow graph on every sequence of instructions.               *)
(*                                                                         *)
(* Part 1, the liveness analysis on every graph: its sets have their       *)
(* types, they never hold more than any solution of the equations does,    *)
(* and when the sweeps end they are a solution, with both the least one.   *)
(*                                                                         *)
(* Part 2, Cfg around it: splitting puts each instruction into one block,  *)
(* in its place, and the sweeps over the blocks find exactly the registers *)
(* that the instructions, without blocks, need.                            *)
(*                                                                         *)
(* Where instruction m of block b stands among all is At(b, m); labels,    *)
(* successors, what a block reads and overwrites are followed over to the  *)
(* instructions there.  Needed(x) is the least set of places closed under  *)
(* going back; that of Liveness is the least solution over the blocks:     *)
(* each is shown to solve the equations of the other.                      *)
(***************************************************************************)
EXTENDS Cfg, Induction, SequenceTheorems, TLAPS

\* The successor that Flow looks at is a block.
LEMMA SuccessorIsBlock ==
  ASSUME IsGraph(graph), NEW b \in Blocks, NEW j \in DOMAIN graph.next[b]
  PROVE  graph.next[b][j] \in Blocks
BY DEF IsGraph, Blocks

\* What a step of Flow leaves in the sets, block by block.
LEMMA FlowSets ==
  ASSUME TypeOK, Flow, NEW b \in Blocks
  PROVE  LET n == graph.next[node][edge]
         IN /\ n \in Blocks
            /\ live_out'[b] = IF b = node THEN LiveOut(n) ELSE live_out[b]
            /\ live_in'[b] = IF b = node THEN LiveIn(n) ELSE live_in[b]
BY SuccessorIsBlock DEF TypeOK, Flow

-----------------------------------------------------------------------------
LEMMA TypeInit == Init => TypeOK
<1> SUFFICES ASSUME Init PROVE TypeOK
  OBVIOUS
<1>1. graph.size \in Nat /\ node = graph.size /\ edge = 1 /\ improved = FALSE
  BY DEF Init, IsGraph, StartOf
<1>2. /\ live_in \in [Blocks -> SUBSET VRegisters]
      /\ live_out \in [Blocks -> SUBSET VRegisters]
  BY DEF Init, IsGraph, StartOf, Blocks
<1>3. node \in 0 .. graph.size /\ edge \in Nat \ {0}
  BY <1>1
<1>4. improved \in BOOLEAN
  BY <1>1
<1> QED
  BY <1>2, <1>3, <1>4 DEF TypeOK, Init

LEMMA TypeStep == TypeOK /\ [Next]_vars => TypeOK'
<1> SUFFICES ASSUME TypeOK, [Next]_vars PROVE TypeOK'
  OBVIOUS
<1>1. CASE Flow
  <2> DEFINE n == graph.next[node][edge]
  <2>1. n \in Blocks
    BY <1>1, SuccessorIsBlock DEF TypeOK, Flow
  <2>2. LiveOut(n) \in SUBSET VRegisters /\ LiveIn(n) \in SUBSET VRegisters
    BY <1>1, <2>1 DEF TypeOK, Flow, LiveOut, LiveIn
  <2>3. /\ live_in' \in [Blocks -> SUBSET VRegisters]
        /\ live_out' \in [Blocks -> SUBSET VRegisters]
    BY <1>1, <2>2 DEF TypeOK, Flow
  <2>4. improved' \in BOOLEAN
    BY <1>1 DEF TypeOK, Flow
  <2>5. edge' \in Nat \ {0}
    BY <1>1 DEF TypeOK, Flow
  <2>6. graph' = graph /\ node' = node
    BY <1>1 DEF Flow
  <2> QED
    BY <2>3, <2>4, <2>5, <2>6 DEF TypeOK, Blocks
<1>2. CASE PreviousBlock
  BY <1>2 DEF TypeOK, PreviousBlock, Blocks, IsGraph
<1>3. CASE NextSweep
  <2>1. node' \in 0 .. graph.size
    <3>1. graph.size \in Nat /\ node' = graph.size
      BY <1>3 DEF TypeOK, NextSweep, IsGraph
    <3> QED
      BY <3>1
  <2>2. improved' \in BOOLEAN
    BY <1>3 DEF NextSweep
  <2>3. UNCHANGED <<graph, live_in, live_out, edge>>
    BY <1>3 DEF NextSweep
  <2> QED
    BY <2>1, <2>2, <2>3 DEF TypeOK, Blocks
<1>4. CASE UNCHANGED vars
  BY <1>4 DEF TypeOK, vars, live, Blocks
<1> QED
  BY <1>1, <1>2, <1>3, <1>4 DEF Next, Return

(* The sets stay sets of registers for each block and the loops stay within *)
(* the blocks and their successors, on every graph.                         *)
THEOREM LivenessTypeOK == Spec => []TypeOK
<1>1. Init => TypeOK
  BY TypeInit
<1>2. TypeOK /\ [Next]_vars => TypeOK'
  BY TypeStep
<1> QED
  BY <1>1, <1>2, PTL DEF Spec

-----------------------------------------------------------------------------
LEMMA SoundInit == Init => NeverTooLarge
BY DEF Init, StartOf, NeverTooLarge, Solves, Blocks, IsGraph

LEMMA SoundStep == TypeOK /\ NeverTooLarge /\ [Next]_vars => NeverTooLarge'
<1> SUFFICES ASSUME TypeOK, NeverTooLarge, [Next]_vars PROVE NeverTooLarge'
  OBVIOUS
<1>1. CASE Flow
  <2> DEFINE n == graph.next[node][edge]
  <2>1. graph' = graph /\ Blocks' = Blocks
    BY <1>1 DEF Flow, Blocks
  <2> SUFFICES ASSUME NEW in \in [Blocks -> SUBSET VRegisters],
                      NEW out \in [Blocks -> SUBSET VRegisters],
                      Solves(in, out),
                      NEW b \in Blocks
               PROVE  live_in'[b] \subseteq in[b] /\ live_out'[b] \subseteq out[b]
    BY <2>1 DEF NeverTooLarge, Solves
  <2>2. \A c \in Blocks : live_in[c] \subseteq in[c] /\ live_out[c] \subseteq out[c]
    BY DEF NeverTooLarge
  <2>3. /\ n \in Blocks
        /\ live_out'[b] = IF b = node THEN LiveOut(n) ELSE live_out[b]
        /\ live_in'[b] = IF b = node THEN LiveIn(n) ELSE live_in[b]
    BY <1>1, FlowSets
  <2>4. CASE b # node
    BY <2>2, <2>3, <2>4
  <2>5. CASE b = node
    <3>1. node \in Blocks /\ edge \in DOMAIN graph.next[node]
      BY <1>1 DEF Flow
    <3>2. in[n] \subseteq out[node] /\ out[node] \ graph.overwrites[node] \subseteq in[node]
      BY <3>1 DEF Solves
    <3>3. LiveOut(n) \subseteq out[node]
      BY <2>2, <2>3, <3>1, <3>2 DEF LiveOut
    <3>4. LiveIn(n) \subseteq in[node]
      BY <2>2, <3>1, <3>2, <3>3 DEF LiveIn
    <3> QED
      BY <2>3, <2>5, <3>3, <3>4
  <2> QED
    BY <2>4, <2>5
<1>2. CASE UNCHANGED <<graph, live_in, live_out>>
  <2>1. graph' = graph /\ Blocks' = Blocks /\ live_in' = live_in /\ live_out' = live_out
    BY <1>2 DEF Blocks
  <2> SUFFICES ASSUME NEW in \in [Blocks -> SUBSET VRegisters],
                      NEW out \in [Blocks -> SUBSET VRegisters],
                      Solves(in, out),
                      NEW b \in Blocks
               PROVE  live_in[b] \subseteq in[b] /\ live_out[b] \subseteq out[b]
    BY <2>1 DEF NeverTooLarge, Solves
  <2> QED
    BY DEF NeverTooLarge
<1> QED
  BY <1>1, <1>2 DEF Next, PreviousBlock, NextSweep, Return, vars, live

(* At no time does the analysis hold a register for live that some solution *)
(* of the equations does not, on any graph with any instructions.           *)
THEOREM NothingTooLarge == Spec => []NeverTooLarge
<1>1. Init => TypeOK /\ NeverTooLarge
  BY TypeInit, SoundInit
<1>2. TypeOK /\ NeverTooLarge /\ [Next]_vars => (TypeOK /\ NeverTooLarge)'
  BY TypeStep, SoundStep
<1> QED
  BY <1>1, <1>2, PTL DEF Spec

-----------------------------------------------------------------------------
LEMMA SweepInit == Init => SweepInvariant
<1> SUFFICES ASSUME Init PROVE SweepInvariant
  OBVIOUS
<1>1. \A b \in Blocks : /\ live_in[b] = graph.reads[b]
                        /\ live_out[b] = {}
  BY DEF Init, StartOf, Blocks
<1>2. \A b \in Blocks : \A j \in DOMAIN graph.next[b] : ~Passed(b, j)
  <2> SUFFICES ASSUME NEW b \in Blocks, NEW j \in DOMAIN graph.next[b] PROVE ~Passed(b, j)
    OBVIOUS
  <2>1. graph.next[b] \in Seq(Blocks)
    BY DEF Init, IsGraph, Blocks
  <2>2. j \in Nat /\ j >= 1
    BY <2>1
  <2>3. graph.size \in Nat /\ node = graph.size /\ edge = 1
    BY DEF Init, IsGraph, StartOf
  <2> QED
    BY <2>2, <2>3 DEF Passed, Blocks
<1>3. node = 0 => edge = 1
  BY DEF Init, StartOf
<1> QED
  BY <1>1, <1>2, <1>3 DEF SweepInvariant

\* Parts of the invariant, named for the steps below.
Inside == \A b \in Blocks : /\ graph.reads[b] \subseteq live_in[b]
                            /\ live_out[b] \ graph.overwrites[b] \subseteq live_in[b]
Settled(b, j) == live_in[graph.next[b][j]] \subseteq live_out[b]

LEMMA FlowInside == TypeOK /\ Inside /\ Flow => Inside'
<1> SUFFICES ASSUME TypeOK, Inside, Flow, NEW b \in Blocks
             PROVE  /\ graph.reads[b] \subseteq live_in'[b]
                    /\ live_out'[b] \ graph.overwrites[b] \subseteq live_in'[b]
  BY DEF Inside, Flow, Blocks
<1> DEFINE n == graph.next[node][edge]
<1>1. /\ live_out'[b] = IF b = node THEN LiveOut(n) ELSE live_out[b]
      /\ live_in'[b] = IF b = node THEN LiveIn(n) ELSE live_in[b]
  BY FlowSets
<1>2. /\ graph.reads[b] \subseteq live_in[b]
      /\ live_out[b] \ graph.overwrites[b] \subseteq live_in[b]
  BY DEF Inside
<1>3. CASE b # node
  BY <1>1, <1>2, <1>3
<1>4. CASE b = node
  BY <1>1, <1>2, <1>4 DEF LiveIn
<1> QED
  BY <1>3, <1>4

\* A step that adds nothing leaves the sets as they are and settles the
\* successor it looks at.
LEMMA NothingNew ==
  ASSUME TypeOK, Flow, ~improved'
  PROVE  /\ ~improved
         /\ live_in' = live_in
         /\ live_out' = live_out
         /\ Settled(node, edge)
<1> DEFINE n == graph.next[node][edge]
<1>1. ~improved /\ LiveOut(n) = live_out[node] /\ LiveIn(n) = live_in[node]
  BY DEF Flow, Improves
<1>2. live_out' = live_out /\ live_in' = live_in
  BY <1>1 DEF Flow, TypeOK
<1>3. live_in[n] \subseteq live_out[node]
  BY <1>1 DEF LiveOut
<1> QED
  BY <1>1, <1>2, <1>3 DEF Settled

LEMMA SweepStep == TypeOK /\ SweepInvariant /\ [Next]_vars => SweepInvariant'
<1> SUFFICES ASSUME TypeOK, SweepInvariant, [Next]_vars PROVE SweepInvariant'
  OBVIOUS
<1>1. Inside
  BY DEF SweepInvariant, Inside
<1>2. ~improved => \A b \in Blocks : \A j \in DOMAIN graph.next[b] :
                     Passed(b, j) => Settled(b, j)
  BY DEF SweepInvariant, Settled
<1>3. CASE Flow
  <2>1. Inside'
    BY <1>1, <1>3, FlowInside
  <2>2. graph' = graph /\ Blocks' = Blocks /\ node' = node /\ edge' = edge + 1
    BY <1>3 DEF Flow, Blocks
  <2>3. ASSUME ~improved', NEW b \in Blocks, NEW j \in DOMAIN graph.next[b],
               b > node \/ (b = node /\ j < edge + 1)
        PROVE  live_in'[graph.next[b][j]] \subseteq live_out'[b]
    <3>1. /\ ~improved
          /\ live_in' = live_in
          /\ live_out' = live_out
          /\ Settled(node, edge)
      BY <1>3, <2>3, NothingNew
    <3>2. graph.next[b] \in Seq(Blocks)
      BY DEF TypeOK, IsGraph, Blocks
    <3>3. j \in Nat /\ edge \in Nat
      BY <3>2 DEF TypeOK
    <3>4. Passed(b, j) \/ (b = node /\ j = edge)
      BY <2>3, <3>3 DEF Passed
    <3> QED
      BY <1>2, <3>1, <3>4 DEF Settled
  <2> QED
    BY <1>3, <2>1, <2>2, <2>3 DEF SweepInvariant, Inside, Passed, Flow, Blocks
<1>4. CASE PreviousBlock
  <2>1. /\ graph' = graph /\ Blocks' = Blocks
        /\ live_in' = live_in /\ live_out' = live_out /\ improved' = improved
        /\ node' = node - 1 /\ edge' = 1
    BY <1>4 DEF PreviousBlock, Blocks
  <2>2. ASSUME NEW b \in Blocks, NEW j \in DOMAIN graph.next[b],
               b > node - 1 \/ (b = node - 1 /\ j < 1)
        PROVE  Passed(b, j)
    <3>1. graph.next[b] \in Seq(Blocks) /\ node \in Blocks /\ edge \notin DOMAIN graph.next[node]
      BY <1>4 DEF TypeOK, IsGraph, Blocks, PreviousBlock
    <3>2. j \in 1 .. Len(graph.next[b]) /\ Len(graph.next[b]) \in Nat
      BY <3>1
    <3>3. b \in Nat /\ node \in Nat /\ edge \in Nat /\ edge >= 1
      BY <3>1 DEF Blocks, TypeOK, IsGraph
    <3>4. CASE b > node
      BY <3>4 DEF Passed
    <3>5. CASE b = node
      <4>1. edge > Len(graph.next[b])
        BY <3>1, <3>2, <3>3, <3>5
      <4> QED
        BY <3>2, <3>3, <3>5, <4>1 DEF Passed
    <3> QED
      BY <2>2, <3>2, <3>3, <3>4, <3>5
  <2> QED
    BY <1>1, <1>2, <2>1, <2>2 DEF SweepInvariant, Inside, Settled, Passed
<1>5. CASE NextSweep
  <2>1. /\ graph' = graph /\ Blocks' = Blocks
        /\ live_in' = live_in /\ live_out' = live_out
    BY <1>5 DEF NextSweep, Blocks
  <2>2. Inside'
    BY <1>1, <2>1 DEF Inside
  <2>3. ASSUME NEW b \in Blocks, NEW j \in DOMAIN graph.next[b]
        PROVE  ~(b > node' \/ (b = node' /\ j < edge'))
    <3>1. node' = graph.size /\ graph.size \in Nat /\ edge' = 1
      BY <1>5 DEF NextSweep, TypeOK, IsGraph, SweepInvariant
    <3>2. graph.next[b] \in Seq(Blocks)
      BY DEF TypeOK, IsGraph, Blocks
    <3>3. j \in Nat /\ j >= 1 /\ b \in 1 .. graph.size
      BY <3>2 DEF Blocks
    <3> QED
      BY <3>1, <3>3
  <2> QED
    BY <2>1, <2>2, <2>3, <1>5 DEF SweepInvariant, Inside, Passed, NextSweep
<1>6. CASE UNCHANGED vars
  BY <1>6 DEF SweepInvariant, Passed, Blocks, vars, live
<1> QED
  BY <1>3, <1>4, <1>5, <1>6 DEF Next, Return

(* The equation inside each block always holds, and the one between blocks  *)
(* for all successors a sweep has passed by without adding anything, on     *)
(* every graph.                                                             *)
THEOREM SweepInvariantHolds == Spec => []SweepInvariant
<1>1. Init => TypeOK /\ SweepInvariant
  BY TypeInit, SweepInit
<1>2. TypeOK /\ SweepInvariant /\ [Next]_vars => (TypeOK /\ SweepInvariant)'
  BY TypeStep, SweepStep
<1> QED
  BY <1>1, <1>2, PTL DEF Spec

LEMMA SolvedWhenFinished == TypeOK /\ SweepInvariant => SolvedAtEnd
<1> SUFFICES ASSUME TypeOK, SweepInvariant, Finished, NEW b \in Blocks
             PROVE  /\ graph.reads[b] \subseteq live_in[b]
                    /\ live_out[b] \ graph.overwrites[b] \subseteq live_in[b]
                    /\ \A j \in DOMAIN graph.next[b] :
                         live_in[graph.next[b][j]] \subseteq live_out[b]
  BY DEF SolvedAtEnd, Solves
<1>1. \A j \in DOMAIN graph.next[b] : Passed(b, j)
  BY DEF Finished, Passed, Blocks
<1> QED
  BY <1>1 DEF SweepInvariant, Finished

(* A sweep that adds nothing leaves nothing missing: when the analysis      *)
(* returns its sets solve the equations, on every graph.                    *)
THEOREM EndsSolved == Spec => []SolvedAtEnd
<1>1. Spec => [](TypeOK /\ SweepInvariant)
  BY LivenessTypeOK, SweepInvariantHolds, PTL
<1> QED
  BY <1>1, SolvedWhenFinished, PTL

(* What the analysis returns is the least solution of the equations, so the *)
(* order in which blocks and successors are visited does not matter.        *)
THEOREM EndsWithLeastSolution ==
  Spec => [](Finished => /\ Solves(live_in, live_out)
                         /\ NeverTooLarge)
<1>1. SolvedAtEnd /\ NeverTooLarge
        => (Finished => Solves(live_in, live_out) /\ NeverTooLarge)
  BY DEF SolvedAtEnd
<1> QED
  BY <1>1, NothingTooLarge, EndsSolved, PTL

-----------------------------------------------------------------------------
\* Part 2.

\* FlattenSeq of a sequence s that is not empty is the last value of this function.
Flattens(f, s) ==
  f = [i \in 1 .. Len(s) |-> IF i = 1 THEN s[i] ELSE f[i - 1] \o s[i]]

\* Such a function exists for every sequence of sequences.
LEMMA FlattenFunction ==
  ASSUME NEW S, NEW s \in Seq(Seq(S)), s # <<>>
  PROVE  \E f \in [1 .. Len(s) -> Seq(S)] : Flattens(f, s)
<1> DEFINE n == Len(s)
           V == Seq(S)
<1>1. n \in Nat /\ \A i \in 1 .. n : s[i] \in V
  OBVIOUS
<1>2. <<>> \in V /\ \A v, w \in V : v \o w \in V
  OBVIOUS
<1>3. \A v \in V : <<>> \o v = v
  OBVIOUS
<1> HIDE DEF V, n
<1> DEFINE A == (Nat \ {0}) \X V
           value(a) == IF a[1] \in 1 .. n THEN a[2] \o s[a[1]] ELSE a[2]
           g == [a \in A |-> value(a)]
           h == [m \in Nat |-> m - 1]
<1>4. Rules(V, g, h)
  <2>1. \A a \in A : a[2] \in V /\ (a[1] \in 1 .. n => s[a[1]] \in V)
    BY <1>1
  <2>2. ASSUME NEW a \in A PROVE value(a) \in V
    <3>1. CASE a[1] \in 1 .. n
      <4>1. a[2] \o s[a[1]] \in V
        BY <1>2, <2>1, <3>1
      <4> QED
        BY <3>1, <4>1
    <3>2. CASE a[1] \notin 1 .. n
      BY <2>1, <3>2
    <3> QED
      BY <3>1, <3>2
  <2>3. g \in [A -> V]
    BY <2>2
  <2>4. ASSUME NEW m \in Nat \ {0} PROVE h[m] \in 0 .. m - 1
    OBVIOUS
  <2> QED
    BY <2>3, <2>4 DEF Rules
<1>5. ASSUME NEW m \in 1 .. n, NEW v \in V PROVE g[<<m, v>>] = v \o s[m]
  <2>1. <<m, v>> \in A /\ <<m, v>>[1] = m /\ <<m, v>>[2] = v
    BY <1>1
  <2>2. g[<<m, v>>] = value(<<m, v>>)
    BY <2>1
  <2> QED
    BY <2>1, <2>2
<1>11. \A m \in 1 .. n : h[m] = m - 1
  BY <1>1
<1> HIDE DEF g, h
<1>6. PICK e : e \in Upto(n, V, <<>>, g, h)
  <2>1. n \in Nat /\ <<>> \in V
    BY <1>1, <1>2
  <2>2. Upto(n, V, <<>>, g, h) # {}
    BY <1>4, <2>1, UptoExists
  <2> QED
    BY <2>2
<1>7. /\ e \in [0 .. n -> V]
      /\ \A m \in 0 .. n : e[m] = IF m = 0 THEN <<>> ELSE g[<<m, e[h[m]]>>]
  BY <1>6 DEF Upto
<1> DEFINE f == [i \in 1 .. n |-> e[i]]
<1>8. f \in [1 .. n -> V]
  BY <1>1, <1>7
<1>9. ASSUME NEW i \in 1 .. n
      PROVE  f[i] = IF i = 1 THEN s[i] ELSE f[i - 1] \o s[i]
  <2>1. h[i] = i - 1 /\ i - 1 \in 0 .. n /\ i \in 0 .. n /\ i # 0
    BY <1>1, <1>11
  <2>2. e[i - 1] \in V /\ e[i] = g[<<i, e[i - 1]>>]
    BY <1>7, <2>1
  <2>5. e[i] = e[i - 1] \o s[i]
    BY <1>5, <2>2
  <2>6. f[i] = e[i] /\ (i # 1 => f[i - 1] = e[i - 1])
    BY <1>1
  <2> HIDE DEF f
  <2>3. CASE i = 1
    <3>1. e[i - 1] = <<>> /\ s[i] \in V
      <4>1. i - 1 = 0 /\ 0 \in 0 .. n
        BY <1>1, <2>3
      <4>2. e[0] = <<>>
        BY <1>7, <4>1
      <4> QED
        BY <1>1, <4>1, <4>2
    <3>2. <<>> \o s[i] = s[i]
      BY <1>3, <3>1
    <3> QED
      BY <2>3, <2>5, <2>6, <3>1, <3>2
  <2>4. CASE i # 1
    BY <2>4, <2>5, <2>6
  <2> QED
    BY <2>3, <2>4
<1>10. Flattens(f, s)
  BY <1>9 DEF Flattens, n
<1> QED
  BY <1>8, <1>10 DEF V, n

\* There is only one such function.
LEMMA FlattenUnique ==
  ASSUME NEW s, NEW t, NEW k \in Nat, k >= 1,
         Len(s) \in Nat, Len(t) \in Nat, k <= Len(s), k <= Len(t),
         \A i \in 1 .. k : s[i] = t[i],
         NEW f, Flattens(f, s), NEW g, Flattens(g, t)
  PROVE  f[k] = g[k]
<1> DEFINE E == { n \in Nat : n + 1 <= k => f[n + 1] = g[n + 1] }
<1>1. ASSUME NEW i \in 1 .. k
      PROVE  /\ f[i] = IF i = 1 THEN s[i] ELSE f[i - 1] \o s[i]
             /\ g[i] = IF i = 1 THEN s[i] ELSE g[i - 1] \o s[i]
  <2>1. i \in 1 .. Len(s) /\ i \in 1 .. Len(t) /\ s[i] = t[i]
    OBVIOUS
  <2>2. f[i] = IF i = 1 THEN s[i] ELSE f[i - 1] \o s[i]
    BY <2>1 DEF Flattens
  <2>3. g[i] = IF i = 1 THEN t[i] ELSE g[i - 1] \o t[i]
    BY <2>1 DEF Flattens
  <2> QED
    BY <2>1, <2>2, <2>3
<1>2. 0 \in E
  <2>1. 0 + 1 = 1 /\ 1 \in 1 .. k
    OBVIOUS
  <2> QED
    BY <1>1, <2>1
<1>3. ASSUME NEW n \in Nat, n \in E PROVE n + 1 \in E
  <2>1. SUFFICES ASSUME (n + 1) + 1 <= k PROVE f[(n + 1) + 1] = g[(n + 1) + 1]
    OBVIOUS
  <2>2. f[n + 1] = g[n + 1]
    BY <1>3, <2>1
  <2>3. (n + 1) + 1 \in 1 .. k /\ (n + 1) + 1 # 1 /\ ((n + 1) + 1) - 1 = n + 1
    BY <2>1
  <2> QED
    BY <1>1, <2>2, <2>3
<1> HIDE DEF E
<1>4. \A n \in Nat : n \in E
  BY <1>2, <1>3, SetInduction
<1>5. k - 1 \in Nat /\ (k - 1) + 1 = k
  OBVIOUS
<1>6. k - 1 \in E
  BY <1>4, <1>5
<1> QED
  BY <1>5, <1>6 DEF E

\* FlattenSeq is defined by a CHOOSE: any function that is built so gives it.
LEMMA FlattenIs ==
  ASSUME NEW S, NEW s \in Seq(Seq(S)), s # <<>>, NEW f, Flattens(f, s)
  PROVE  FlattenSeq(s) = f[Len(s)]
<1> DEFINE F == CHOOSE e : Flattens(e, s)
<1>1. Flattens(F, s)
  OBVIOUS
<1>2. FlattenSeq(s) = F[Len(s)]
  BY DEF FlattenSeq, Flattens
<1> HIDE DEF F
<1>3. Len(s) \in Nat /\ Len(s) >= 1 /\ Len(s) <= Len(s) /\ \A i \in 1 .. Len(s) : s[i] = s[i]
  OBVIOUS
<1> DEFINE k == Len(s)
<1> HIDE DEF k
<1>4. /\ k \in Nat /\ k >= 1 /\ Len(s) \in Nat /\ k <= Len(s)
      /\ \A i \in 1 .. k : s[i] = s[i]
  BY <1>3 DEF k
<1>5. Flattens(f, s)
  OBVIOUS
<1>6. F[k] = f[k]
  BY ONLY <1>1, <1>4, <1>5, FlattenUnique
<1> QED
  BY <1>2, <1>6 DEF k

LEMMA FlattenEmpty == FlattenSeq(<<>>) = <<>>
BY DEF FlattenSeq

\* What it is made of are the elements of the parts.
LEMMA FlattenType ==
  ASSUME NEW S, NEW s \in Seq(Seq(S))
  PROVE  FlattenSeq(s) \in Seq(S)
<1>1. CASE s = <<>>
  <2>1. FlattenSeq(s) = <<>> /\ <<>> \in Seq(S)
    BY <1>1, FlattenEmpty
  <2> QED
    BY <2>1
<1>2. CASE s # <<>>
  <2>1. PICK f \in [1 .. Len(s) -> Seq(S)] : Flattens(f, s)
    BY <1>2, FlattenFunction
  <2>2. FlattenSeq(s) = f[Len(s)]
    BY <1>2, <2>1, FlattenIs
  <2>3. Len(s) \in 1 .. Len(s)
    BY <1>2
  <2> QED
    BY <2>1, <2>2, <2>3
<1> QED
  BY <1>1, <1>2

\* One more part is put at its end.
LEMMA FlattenAppend ==
  ASSUME NEW S, NEW s \in Seq(Seq(S)), NEW e \in Seq(S)
  PROVE  FlattenSeq(Append(s, e)) = FlattenSeq(s) \o e
<1> DEFINE t == Append(s, e)
           n == Len(s)
<1>1. /\ t \in Seq(Seq(S)) /\ t # <<>> /\ Len(t) = n + 1 /\ t[n + 1] = e /\ n \in Nat
      /\ \A i \in 1 .. n : t[i] = s[i]
  <2> HIDE DEF t
  <2>1. e \in Seq(S) /\ s \in Seq(Seq(S)) /\ t = Append(s, e)
    BY DEF t
  <2> DEFINE Q == Seq(S)
  <2>2. e \in Q /\ s \in Seq(Q)
    OBVIOUS
  <2> HIDE DEF Q
  <2>3. t \in Seq(Q) /\ Len(t) = n + 1 /\ t[n + 1] = e /\ n \in Nat
    BY <2>1, <2>2
  <2>4. \A i \in 1 .. n : t[i] = s[i]
    BY <2>1, <2>2
  <2>5. t # <<>>
    BY <2>3
  <2> QED
    BY <2>3, <2>4, <2>5 DEF Q
<1> HIDE DEF t
<1>2. PICK f \in [1 .. Len(t) -> Seq(S)] : Flattens(f, t)
  BY <1>1, FlattenFunction
<1>3. FlattenSeq(t) = f[n + 1]
  BY <1>1, <1>2, FlattenIs
<1>4. f[n + 1] = IF n + 1 = 1 THEN e ELSE f[n] \o e
  <2>1. n + 1 \in 1 .. Len(t) /\ (n + 1) - 1 = n
    BY <1>1
  <2>2. f[n + 1] = IF n + 1 = 1 THEN t[n + 1] ELSE f[(n + 1) - 1] \o t[n + 1]
    BY <1>2, <2>1 DEF Flattens
  <2> QED
    BY <1>1, <2>1, <2>2
<1>5. CASE n = 0
  <2>1. FlattenSeq(s) = <<>>
    BY <1>5, FlattenEmpty
  <2> QED
    BY <1>3, <1>4, <1>5, <2>1 DEF t
<1>6. CASE n # 0
  <2>1. s # <<>> /\ n \in 1 .. n
    BY <1>1, <1>6
  <2>2. PICK g \in [1 .. n -> Seq(S)] : Flattens(g, s)
    BY <2>1, FlattenFunction
  <2>3. FlattenSeq(s) = g[n]
    BY <2>1, <2>2, FlattenIs
  <2>4. g[n] = f[n]
    <3>1. n \in Nat /\ n >= 1 /\ n <= Len(s) /\ n <= Len(t) /\ Len(s) \in Nat /\ Len(t) \in Nat
      BY <1>1, <2>1
    <3>2. \A i \in 1 .. n : s[i] = t[i]
      BY <1>1
    <3>3. Flattens(f, t) /\ Flattens(g, s)
      BY <1>2, <2>2
    <3> HIDE DEF n, t
    <3> QED
      BY <3>1, <3>2, <3>3, FlattenUnique, SMTT(30)
  <2> QED
    BY <1>1, <1>3, <1>4, <1>6, <2>3, <2>4 DEF t
<1> QED
  BY <1>5, <1>6

-----------------------------------------------------------------------------
\* How many elements come before those of s[b].
Offset(s, b) == Len(FlattenSeq(SubSeq(s, 1, b - 1)))

\* The parts before part b begin with those before an earlier one.
LEMMA Beginning ==
  ASSUME NEW Q, NEW s \in Seq(Q), NEW n \in 0 .. Len(s)
  PROVE  SubSeq(s, 1, n) \in Seq(Q)
<1>1. \A i \in 1 .. n : s[i] \in Q
  OBVIOUS
<1> QED
  BY <1>1, SubSeqProperties

\* One part more before a place is put at the end.
LEMMA BeginningGrows ==
  ASSUME NEW Q, NEW s \in Seq(Q), NEW n \in 1 .. Len(s)
  PROVE  SubSeq(s, 1, n) = Append(SubSeq(s, 1, n - 1), s[n])
<1>1. 1 \in 1 .. Len(s) /\ n - 1 \in 0 .. Len(s) /\ s[n] \in Q
  OBVIOUS
<1>2. SubSeq(s, 1, n) = SubSeq(s, 1, n - 1) \o << s[n] >>
  BY <1>1, SubSeqRecursiveSecond
<1>3. SubSeq(s, 1, n - 1) \in Seq(Q)
  <2> DEFINE c == n - 1
  <2>1. c \in 0 .. Len(s)
    OBVIOUS
  <2> HIDE DEF c
  <2>2. SubSeq(s, 1, c) \in Seq(Q)
    BY <2>1, Beginning
  <2> QED
    BY <2>2 DEF c
<1> QED
  BY <1>1, <1>2, <1>3, AppendIsConcat

\* How far the first part is, the next one, and the end.
LEMMA Offsets ==
  ASSUME NEW S, NEW s \in Seq(Seq(S)), NEW b \in 1 .. Len(s)
  PROVE  /\ FlattenSeq(SubSeq(s, 1, b)) = FlattenSeq(SubSeq(s, 1, b - 1)) \o s[b]
         /\ FlattenSeq(SubSeq(s, 1, b - 1)) \in Seq(S)
         /\ Offset(s, b) \in Nat
         /\ s[b] \in Seq(S) /\ Len(s[b]) \in Nat
         /\ Offset(s, b + 1) = Offset(s, b) + Len(s[b])
<1> DEFINE Q == Seq(S)
<1>1. s \in Seq(Q) /\ b \in 0 .. Len(s) /\ b - 1 \in 0 .. Len(s) /\ b > 0
  OBVIOUS
<1>2. s[b] \in Q
  OBVIOUS
<1> HIDE DEF Q
<1>3. SubSeq(s, 1, b - 1) \in Seq(Q) /\ SubSeq(s, 1, b) = Append(SubSeq(s, 1, b - 1), s[b])
  <2> DEFINE c == b - 1
  <2>1. c \in 0 .. Len(s) /\ b \in 1 .. Len(s) /\ s \in Seq(Q)
    BY <1>1
  <2> HIDE DEF c
  <2>2. SubSeq(s, 1, c) \in Seq(Q)
    BY <2>1, Beginning
  <2>3. SubSeq(s, 1, b) = Append(SubSeq(s, 1, b - 1), s[b])
    BY <2>1, BeginningGrows
  <2> QED
    BY <2>2, <2>3 DEF c
<1> DEFINE before == SubSeq(s, 1, b - 1)
<1> HIDE DEF before
<1>4. before \in Seq(Seq(S)) /\ s[b] \in Seq(S)
  BY <1>2, <1>3 DEF Q, before
<1>5. FlattenSeq(Append(before, s[b])) = FlattenSeq(before) \o s[b]
  BY <1>4, FlattenAppend
<1>6. FlattenSeq(before) \in Seq(S)
  BY <1>4, FlattenType
<1>7. /\ Len(FlattenSeq(before)) \in Nat
      /\ Len(s[b]) \in Nat
      /\ Len(FlattenSeq(before) \o s[b]) = Len(FlattenSeq(before)) + Len(s[b])
  BY <1>4, <1>6
<1>8. Offset(s, b + 1) = Len(FlattenSeq(SubSeq(s, 1, b)))
  <2>1. (b + 1) - 1 = b
    OBVIOUS
  <2> QED
    BY <2>1 DEF Offset
<1> QED
  BY <1>3, <1>4, <1>5, <1>6, <1>7, <1>8 DEF before, Offset

\* Where the elements of s stand in the flattened sequence.
Laid(s, k) ==
  LET whole == FlattenSeq(SubSeq(s, 1, k))
  IN /\ \A b \in 1 .. k : \A m \in DOMAIN s[b] :
          /\ Offset(s, b) + m \in DOMAIN whole
          /\ whole[Offset(s, b) + m] = s[b][m]
     /\ \A p \in DOMAIN whole :
          \E b \in 1 .. k : \E m \in DOMAIN s[b] : p = Offset(s, b) + m

\* A part keeps its place when others are put behind it.
LEMMA LaidOne ==
  ASSUME NEW S, NEW s \in Seq(Seq(S)), NEW k \in Nat, k + 1 <= Len(s), Laid(s, k)
  PROVE  Laid(s, k + 1)
<1> DEFINE before == FlattenSeq(SubSeq(s, 1, k))
           e      == s[k + 1]
           whole  == FlattenSeq(SubSeq(s, 1, k + 1))
<1>1. k + 1 \in 1 .. Len(s) /\ (k + 1) - 1 = k
  OBVIOUS
<1>2. whole = before \o e /\ before \in Seq(S) /\ e \in Seq(S)
  BY <1>1, Offsets
<1>3. Offset(s, k + 1) = Len(before)
  BY <1>1 DEF Offset
<1> HIDE DEF before, whole
<1>4. /\ \A i \in DOMAIN before : i \in DOMAIN whole /\ whole[i] = before[i]
      /\ \A m \in DOMAIN e : Len(before) + m \in DOMAIN whole /\ whole[Len(before) + m] = e[m]
  BY <1>2
<1>5. \A p \in DOMAIN whole :
        p \in DOMAIN before \/ \E m \in DOMAIN e : p = Len(before) + m
  <2> TAKE p \in DOMAIN whole
  <2>1. p \in Nat /\ p >= 1 /\ p <= Len(before) + Len(e) /\ Len(before) \in Nat /\ Len(e) \in Nat
    BY <1>2
  <2>2. CASE p <= Len(before)
    BY <1>2, <2>1, <2>2
  <2>3. CASE p > Len(before)
    <3>1. p - Len(before) \in DOMAIN e /\ p = Len(before) + (p - Len(before))
      BY <1>2, <2>1, <2>3
    <3> QED
      BY <3>1
  <2> QED
    BY <2>1, <2>2, <2>3
<1>6. ASSUME NEW b \in 1 .. k + 1, NEW m \in DOMAIN s[b]
      PROVE  Offset(s, b) + m \in DOMAIN whole /\ whole[Offset(s, b) + m] = s[b][m]
  <2>1. CASE b \in 1 .. k
    <3>1. Offset(s, b) + m \in DOMAIN before /\ before[Offset(s, b) + m] = s[b][m]
      BY <2>1 DEF Laid, before
    <3> QED
      BY <1>4, <3>1
  <2>2. CASE b = k + 1
    BY <1>3, <1>4, <2>2
  <2> QED
    BY <2>1, <2>2
<1>7. ASSUME NEW p \in DOMAIN whole
      PROVE  \E b \in 1 .. k + 1 : \E m \in DOMAIN s[b] : p = Offset(s, b) + m
  <2>1. CASE p \in DOMAIN before
    <3>1. PICK b \in 1 .. k : \E m \in DOMAIN s[b] : p = Offset(s, b) + m
      BY <2>1 DEF Laid, before
    <3>2. b \in 1 .. k + 1
      OBVIOUS
    <3> QED
      BY <3>1, <3>2
  <2>2. CASE \E m \in DOMAIN e : p = Len(before) + m
    <3>1. k + 1 \in 1 .. k + 1
      OBVIOUS
    <3> QED
      BY <1>3, <2>2, <3>1
  <2> QED
    BY <1>5, <2>1, <2>2
<1> QED
  BY <1>6, <1>7 DEF Laid, whole

\* Each element of each of the first parts, in its place.
LEMMA LaidAll ==
  ASSUME NEW S, NEW s \in Seq(Seq(S))
  PROVE  \A k \in 0 .. Len(s) : Laid(s, k)
<1> DEFINE E == { k \in Nat : k <= Len(s) => Laid(s, k) }
<1>1. 0 \in E
  <2>1. SubSeq(s, 1, 0) = <<>>
    BY SubSeqEmpty
  <2>2. FlattenSeq(SubSeq(s, 1, 0)) = <<>>
    BY <2>1, FlattenEmpty
  <2>3. 1 .. 0 = {} /\ DOMAIN FlattenSeq(SubSeq(s, 1, 0)) = {}
    BY <2>2
  <2>4. Laid(s, 0)
    BY <2>3 DEF Laid
  <2> QED
    BY <2>4
<1>2. ASSUME NEW k \in Nat, k \in E PROVE k + 1 \in E
  <2>1. SUFFICES ASSUME k + 1 <= Len(s) PROVE Laid(s, k + 1)
    OBVIOUS
  <2>2. Laid(s, k)
    BY <1>2, <2>1
  <2> QED
    BY <2>1, <2>2, LaidOne
<1> HIDE DEF E
<1>3. \A k \in Nat : k \in E
  BY <1>1, <1>2, SetInduction
<1> QED
  BY <1>3 DEF E

\* Each element of a part stands at its place; nothing else stands anywhere.
LEMMA LaidOut ==
  ASSUME NEW S, NEW s \in Seq(Seq(S))
  PROVE  /\ \A b \in DOMAIN s : \A m \in DOMAIN s[b] :
              /\ Offset(s, b) + m \in DOMAIN FlattenSeq(s)
              /\ FlattenSeq(s)[Offset(s, b) + m] = s[b][m]
         /\ \A p \in DOMAIN FlattenSeq(s) :
              \E b \in DOMAIN s : \E m \in DOMAIN s[b] : p = Offset(s, b) + m
<1> DEFINE Q == Seq(S)
<1>1. s \in Seq(Q)
  OBVIOUS
<1> HIDE DEF Q
<1>2. SubSeq(s, 1, Len(s)) = s
  BY <1>1, SubSeqFull
<1>3. Len(s) \in 0 .. Len(s) /\ DOMAIN s = 1 .. Len(s)
  BY <1>1
<1>4. Laid(s, Len(s))
  BY <1>3, LaidAll
<1> QED
  BY <1>2, <1>3, <1>4 DEF Laid

\* Two places in the flattened sequence are the same only in one element of s.
LEMMA OffsetsGrow ==
  ASSUME NEW S, NEW s \in Seq(Seq(S)), NEW b \in 1 .. Len(s)
  PROVE  \A c \in b + 1 .. Len(s) + 1 : Offset(s, b) + Len(s[b]) <= Offset(s, c)
<1> DEFINE E == { n \in Nat : b + 1 + n <= Len(s) + 1
                                => Offset(s, b) + Len(s[b]) <= Offset(s, b + 1 + n) }
<1>1. Offset(s, b + 1) = Offset(s, b) + Len(s[b]) /\ Offset(s, b) \in Nat /\ Len(s[b]) \in Nat
  BY Offsets
<1>2. 0 \in E
  <2>1. b + 1 + 0 = b + 1
    OBVIOUS
  <2>2. Offset(s, b) + Len(s[b]) <= Offset(s, b + 1 + 0)
    BY <1>1, <2>1
  <2> QED
    BY <2>2
<1>3. ASSUME NEW n \in Nat, n \in E PROVE n + 1 \in E
  <2>1. SUFFICES ASSUME b + 1 + (n + 1) <= Len(s) + 1
                 PROVE  Offset(s, b) + Len(s[b]) <= Offset(s, b + 1 + (n + 1))
    OBVIOUS
  <2>2. Offset(s, b) + Len(s[b]) <= Offset(s, b + 1 + n)
    BY <1>3, <2>1
  <2> DEFINE c == b + 1 + n
  <2>3. c \in 1 .. Len(s) /\ c + 1 = b + 1 + (n + 1)
    BY <2>1
  <2> HIDE DEF c
  <2>4. Offset(s, c + 1) = Offset(s, c) + Len(s[c]) /\ Offset(s, c) \in Nat /\ Len(s[c]) \in Nat
    BY <2>3, Offsets
  <2>5. Offset(s, b) + Len(s[b]) <= Offset(s, c)
    BY <2>2 DEF c
  <2>6. Offset(s, b) + Len(s[b]) <= Offset(s, c + 1)
    BY <1>1, <2>4, <2>5
  <2> QED
    BY <2>3, <2>6
<1> HIDE DEF E
<1>4. \A n \in Nat : n \in E
  BY <1>2, <1>3, SetInduction
<1>5. ASSUME NEW c \in b + 1 .. Len(s) + 1
      PROVE  Offset(s, b) + Len(s[b]) <= Offset(s, c)
  <2>1. c - (b + 1) \in Nat /\ b + 1 + (c - (b + 1)) = c
    OBVIOUS
  <2>2. c - (b + 1) \in E
    BY <1>4, <2>1
  <2>3. b + 1 + (c - (b + 1)) <= Len(s) + 1
    OBVIOUS
  <2> QED
    BY <2>1, <2>2, <2>3 DEF E
<1> QED
  BY <1>5

\* A place is in one part, once.
LEMMA PlaceUnique ==
  ASSUME NEW S, NEW s \in Seq(Seq(S)), NEW b \in 1 .. Len(s), NEW c \in 1 .. Len(s),
         NEW m \in 1 .. Len(s[b]), NEW n \in 1 .. Len(s[c]),
         Offset(s, b) + m = Offset(s, c) + n
  PROVE  b = c /\ m = n
<1>1. /\ Offset(s, b) \in Nat /\ Len(s[b]) \in Nat
      /\ Offset(s, c) \in Nat /\ Len(s[c]) \in Nat
  BY Offsets
<1>2. CASE b < c
  <2>1. c \in b + 1 .. Len(s) + 1
    BY <1>2
  <2>2. Offset(s, b) + Len(s[b]) <= Offset(s, c)
    BY <2>1, OffsetsGrow
  <2> QED
    BY <1>1, <2>2
<1>3. CASE c < b
  <2>1. b \in c + 1 .. Len(s) + 1
    BY <1>3
  <2>2. Offset(s, c) + Len(s[c]) <= Offset(s, b)
    BY <2>1, OffsetsGrow
  <2> QED
    BY <1>1, <2>2
<1>4. CASE b = c
  BY <1>1, <1>4
<1> QED
  BY <1>2, <1>3, <1>4

-----------------------------------------------------------------------------
\* What the builder is given: sequences that end with a jump or a HALT.
Closed(S) == \A p \in Programs : p \in Seq(S) /\ p # <<>> /\ EndsBlock(Last(p))

NoLabelInside(block) == \A m \in DOMAIN block : m > 1 => block[m].op # "LABEL"
IsBlock(block) == /\ block # <<>>
                  /\ NoLabelInside(block)
                  /\ \A m \in DOMAIN block : m < Len(block) => ~EndsBlock(block[m])

SplitTypeOK(S) ==
  /\ instructions \in Programs
  /\ phase \in {"split", "connect", "live"}
  /\ current_block \in Seq(S)
  /\ basic_blocks \in Seq(Seq(S))
  /\ phase = "split" => at \in 0 .. Len(instructions)

\* What has been split so far.
Seen == SubSeq(instructions, 1, IF phase = "split" THEN at ELSE Len(instructions))
Split == FlattenSeq(basic_blocks) \o current_block = Seen

\* The block being collected may go on: nothing in it ends a block, and nothing
\* that ends one is the last that was looked at.
Open == /\ NoLabelInside(current_block)
        /\ \A m \in DOMAIN current_block : ~EndsBlock(current_block[m])
        /\ current_block # <<>> => at > 0 /\ ~EndsBlock(instructions[at])

SplitInvariant(S) ==
  /\ SplitTypeOK(S)
  /\ Split
  /\ \A b \in DOMAIN basic_blocks : IsBlock(basic_blocks[b])
  /\ phase = "split" => Open
  /\ phase # "split" => current_block = <<>>

\* Before the first instruction.
LEMMA SplitInitially ==
  ASSUME NEW S, Closed(S), BuilderInit
  PROVE  SplitInvariant(S)
<1>1. /\ instructions \in Programs /\ instructions \in Seq(S)
      /\ phase = "split" /\ at = 0 /\ current_block = <<>> /\ basic_blocks = <<>>
  BY DEF BuilderInit, BuilderStart, Closed
<1>2. SplitTypeOK(S)
  BY <1>1 DEF SplitTypeOK
<1>3. SubSeq(instructions, 1, 0) = <<>> /\ <<>> \o <<>> = <<>>
  BY SubSeqEmpty
<1>4. Split
  BY <1>1, <1>3, FlattenEmpty DEF Split, Seen
<1> QED
  BY <1>1, <1>2, <1>4 DEF SplitInvariant, Open, NoLabelInside

\* The facts about a step of splitting that its cases share.
LEMMA SplittingStep ==
  ASSUME NEW S, Closed(S), SplitInvariant(S), Splitting
  PROVE  /\ Here \in S /\ Here = instructions[at + 1] /\ instructions \in Seq(S)
         /\ at \in Nat /\ at' = at + 1 /\ at' \in 0 .. Len(instructions)
         /\ instructions' = instructions /\ phase = "split" /\ phase' = "split"
         /\ FlattenSeq(basic_blocks) \in Seq(S)
         /\ Seen' = Append(FlattenSeq(basic_blocks) \o current_block, Here)
<1>1. /\ instructions \in Seq(S) /\ phase = "split" /\ at \in 0 .. Len(instructions)
      /\ at < Len(instructions)
  BY DEF Closed, SplitInvariant, SplitTypeOK, Splitting
<1>2. Here \in S
  BY <1>1 DEF Here
<1>3. at' = at + 1 /\ instructions' = instructions /\ phase' = "split"
  BY DEF Splitting
<1>4. FlattenSeq(basic_blocks) \in Seq(S)
  BY FlattenType DEF SplitInvariant, SplitTypeOK
<1>5. Seen' = SubSeq(instructions, 1, at + 1)
  BY <1>3 DEF Seen
<1>6. SubSeq(instructions, 1, at + 1) = Append(SubSeq(instructions, 1, at), Here)
  <2> DEFINE n == at + 1
  <2>1. n \in 1 .. Len(instructions) /\ n - 1 = at
    BY <1>1
  <2> HIDE DEF n
  <2>2. SubSeq(instructions, 1, n) = Append(SubSeq(instructions, 1, n - 1), instructions[n])
    BY <1>1, <2>1, BeginningGrows
  <2> QED
    BY <2>1, <2>2 DEF n, Here
<1>7. SubSeq(instructions, 1, at) = FlattenSeq(basic_blocks) \o current_block
  BY <1>1 DEF SplitInvariant, Split, Seen
<1>8. Here = instructions[at + 1] /\ at \in Nat /\ at' \in 0 .. Len(instructions)
  BY <1>1, <1>3 DEF Here
<1> QED
  BY <1>1, <1>2, <1>3, <1>4, <1>5, <1>6, <1>7, <1>8

\* Where the block being collected begins is of no matter to what has been seen.
LEMMA Shift ==
  ASSUME NEW S, NEW a \in Seq(S), NEW b \in Seq(S), NEW c \in S
  PROVE  /\ a \o Append(b, c) = Append(a \o b, c)
         /\ (a \o b) \o << c >> = Append(a \o b, c)
<1>1. Append(b, c) = b \o << c >> /\ a \o b \in Seq(S) /\ << c >> \in Seq(S)
  BY AppendIsConcat
<1>2. Append(a \o b, c) = (a \o b) \o << c >>
  BY <1>1, AppendIsConcat
<1>3. (a \o b) \o << c >> = a \o (b \o << c >>)
  BY <1>1, ConcatAssociative
<1> QED
  BY <1>1, <1>2, <1>3

\* One more block.
LEMMA OneMoreBlock ==
  ASSUME NEW S, SplitInvariant(S), NEW block \in Seq(S), IsBlock(block),
         basic_blocks' = Append(basic_blocks, block)
  PROVE  /\ basic_blocks' \in Seq(Seq(S))
         /\ FlattenSeq(basic_blocks') = FlattenSeq(basic_blocks) \o block
         /\ \A b \in DOMAIN basic_blocks' : IsBlock(basic_blocks'[b])
<1> DEFINE Q == Seq(S)
<1>1. basic_blocks \in Seq(Q) /\ block \in Q
  BY DEF SplitInvariant, SplitTypeOK
<1>2. FlattenSeq(basic_blocks') = FlattenSeq(basic_blocks) \o block
  BY <1>1, FlattenAppend
<1> HIDE DEF Q
<1>3. /\ basic_blocks' \in Seq(Q)
      /\ \A b \in DOMAIN basic_blocks' :
           \/ b \in DOMAIN basic_blocks /\ basic_blocks'[b] = basic_blocks[b]
           \/ basic_blocks'[b] = block
  BY <1>1
<1>4. \A b \in DOMAIN basic_blocks : IsBlock(basic_blocks[b])
  BY DEF SplitInvariant
<1>5. \A b \in DOMAIN basic_blocks' : IsBlock(basic_blocks'[b])
  BY <1>3, <1>4
<1> QED
  BY <1>2, <1>3, <1>5 DEF Q

\* One lemma for each step of the splitting.
LEMMA SplitBehindKeeps ==
  ASSUME NEW S, Closed(S), SplitInvariant(S), SplitBehind
  PROVE  SplitInvariant(S)'
<1> DEFINE block == Append(current_block, Here)
<1>1. Splitting /\ current_block' = <<>>
  BY DEF SplitBehind
<1>2. /\ Here \in S /\ at' \in 0 .. Len(instructions)
      /\ instructions' = instructions /\ phase' = "split"
      /\ FlattenSeq(basic_blocks) \in Seq(S)
      /\ Seen' = Append(FlattenSeq(basic_blocks) \o current_block, Here)
  BY <1>1, SplittingStep
<1>3. current_block \in Seq(S) /\ phase = "split" /\ Open
  BY <1>1 DEF SplitInvariant, SplitTypeOK, Splitting
<1>4. /\ block \in Seq(S) /\ block # <<>> /\ Len(block) = Len(current_block) + 1
      /\ Len(current_block) \in Nat
      /\ \A m \in DOMAIN block :
           (m \in DOMAIN current_block /\ block[m] = current_block[m])
             \/ (m = Len(block) /\ block[m] = Here)
  BY <1>2, <1>3, SMTT(30)
<1>5. basic_blocks' = Append(basic_blocks, block)
  BY <1>4 DEF SplitBehind, Pushed
<1> HIDE DEF block
<1>6. IsBlock(block)
  <2>1. Here.op # "LABEL"
    BY DEF SplitBehind, EndsBlock, IsJump
  <2>2. \A m \in DOMAIN block : m > 1 => block[m].op # "LABEL"
    BY <1>3, <1>4, <2>1 DEF Open, NoLabelInside
  <2>3. \A m \in DOMAIN block : m < Len(block) => ~EndsBlock(block[m])
    BY <1>3, <1>4 DEF Open
  <2> QED
    BY <1>4, <2>2, <2>3 DEF IsBlock, NoLabelInside
<1>7. /\ basic_blocks' \in Seq(Seq(S))
      /\ FlattenSeq(basic_blocks') = FlattenSeq(basic_blocks) \o block
      /\ \A b \in DOMAIN basic_blocks' : IsBlock(basic_blocks'[b])
  BY <1>4, <1>5, <1>6, OneMoreBlock
<1>8. FlattenSeq(basic_blocks') \o <<>> = Seen'
  <2>1. FlattenSeq(basic_blocks) \o block = Append(FlattenSeq(basic_blocks) \o current_block, Here)
    BY <1>2, <1>3, Shift DEF block
  <2>2. FlattenSeq(basic_blocks') \in Seq(S)
    BY <1>2, <1>4, <1>7
  <2>3. FlattenSeq(basic_blocks') \o <<>> = FlattenSeq(basic_blocks')
    BY <2>2
  <2> QED
    BY <1>2, <1>7, <2>1, <2>3
<1>9. Split'
  BY <1>1, <1>8 DEF Split
<1>10. SplitTypeOK(S)'
  BY <1>1, <1>2, <1>7 DEF SplitInvariant, SplitTypeOK
<1>11. Open'
  BY <1>1 DEF Open, NoLabelInside
<1> QED
  BY <1>2, <1>7, <1>9, <1>10, <1>11 DEF SplitInvariant

LEMMA SplitBeforeKeeps ==
  ASSUME NEW S, Closed(S), SplitInvariant(S), SplitBefore
  PROVE  SplitInvariant(S)'
<1>1. Splitting /\ current_block' = << Here >>
  BY DEF SplitBefore
<1>2. /\ Here \in S /\ Here = instructions[at + 1] /\ at \in Nat
      /\ at' = at + 1 /\ at' \in 0 .. Len(instructions)
      /\ instructions' = instructions /\ phase' = "split"
      /\ FlattenSeq(basic_blocks) \in Seq(S)
      /\ Seen' = Append(FlattenSeq(basic_blocks) \o current_block, Here)
  BY <1>1, SplittingStep
<1>3. current_block \in Seq(S) /\ phase = "split" /\ Open
  BY <1>1 DEF SplitInvariant, SplitTypeOK, Splitting
<1>4. /\ basic_blocks' \in Seq(Seq(S))
      /\ FlattenSeq(basic_blocks') = FlattenSeq(basic_blocks) \o current_block
      /\ \A b \in DOMAIN basic_blocks' : IsBlock(basic_blocks'[b])
  <2>1. CASE current_block = <<>>
    <3>1. basic_blocks' = basic_blocks
      BY <2>1 DEF SplitBefore, Pushed
    <3>2. FlattenSeq(basic_blocks) \o <<>> = FlattenSeq(basic_blocks)
      BY <1>2
    <3> QED
      BY <2>1, <3>1, <3>2 DEF SplitInvariant, SplitTypeOK
  <2>2. CASE current_block # <<>>
    <3>1. basic_blocks' = Append(basic_blocks, current_block)
      BY <2>2 DEF SplitBefore, Pushed
    <3>2. IsBlock(current_block)
      BY <1>3, <2>2 DEF IsBlock, Open
    <3> QED
      BY <1>3, <3>1, <3>2, OneMoreBlock
  <2> QED
    BY <2>1, <2>2
<1>5. Split'
  <2>1. (FlattenSeq(basic_blocks) \o current_block) \o << Here >>
          = Append(FlattenSeq(basic_blocks) \o current_block, Here)
    BY <1>2, <1>3, Shift
  <2> QED
    BY <1>1, <1>2, <1>4, <2>1 DEF Split
<1>6. SplitTypeOK(S)'
  <2>1. << Here >> \in Seq(S)
    BY <1>2
  <2> QED
    BY <1>1, <1>2, <1>4, <2>1 DEF SplitInvariant, SplitTypeOK
<1>7. Open'
  <2>1. ~EndsBlock(Here)
    BY DEF SplitBefore, EndsBlock, IsJump
  <2>2. /\ \A m \in DOMAIN << Here >> : m = 1 /\ << Here >>[m] = Here
        /\ at + 1 > 0
    BY <1>2
  <2> QED
    BY <1>1, <1>2, <2>1, <2>2 DEF Open, NoLabelInside
<1> QED
  BY <1>2, <1>4, <1>5, <1>6, <1>7 DEF SplitInvariant

LEMMA CollectKeeps ==
  ASSUME NEW S, Closed(S), SplitInvariant(S), Collect
  PROVE  SplitInvariant(S)'
<1>1. /\ Splitting /\ current_block' = Append(current_block, Here)
      /\ basic_blocks' = basic_blocks
      /\ ~EndsBlock(Here) /\ Here.op # "LABEL"
  BY DEF Collect
<1>2. /\ Here \in S /\ Here = instructions[at + 1] /\ at \in Nat
      /\ at' = at + 1 /\ at' \in 0 .. Len(instructions)
      /\ instructions' = instructions /\ phase' = "split"
      /\ FlattenSeq(basic_blocks) \in Seq(S)
      /\ Seen' = Append(FlattenSeq(basic_blocks) \o current_block, Here)
  BY <1>1, SplittingStep
<1>3. current_block \in Seq(S) /\ phase = "split" /\ Open
  BY <1>1 DEF SplitInvariant, SplitTypeOK, Splitting
<1>4. /\ current_block' \in Seq(S)
      /\ \A m \in DOMAIN current_block' :
           (m \in DOMAIN current_block /\ current_block'[m] = current_block[m])
             \/ current_block'[m] = Here
  BY <1>1, <1>2, <1>3
<1>5. Split'
  <2>1. FlattenSeq(basic_blocks) \o Append(current_block, Here)
          = Append(FlattenSeq(basic_blocks) \o current_block, Here)
    BY <1>2, <1>3, Shift
  <2> QED
    BY <1>1, <1>2, <2>1 DEF Split
<1>6. SplitTypeOK(S)'
  BY <1>1, <1>2, <1>4 DEF SplitInvariant, SplitTypeOK
<1>7. Open'
  <2>1. \A m \in DOMAIN current_block' : /\ m > 1 => current_block'[m].op # "LABEL"
                                         /\ ~EndsBlock(current_block'[m])
    BY <1>1, <1>3, <1>4 DEF Open, NoLabelInside
  <2>2. at' > 0 /\ ~EndsBlock(instructions'[at'])
    BY <1>1, <1>2
  <2> QED
    BY <2>1, <2>2 DEF Open, NoLabelInside
<1> QED
  BY <1>1, <1>2, <1>5, <1>6, <1>7 DEF SplitInvariant

LEMMA EndSplitKeeps ==
  ASSUME NEW S, Closed(S), SplitInvariant(S), EndSplit
  PROVE  SplitInvariant(S)'
<1>1. /\ phase = "split" /\ at = Len(instructions) /\ phase' = "connect"
      /\ UNCHANGED <<instructions, current_block, basic_blocks>>
  BY DEF EndSplit
<1>2. current_block = <<>>
  <2>1. EndsBlock(instructions[at])
    BY <1>1 DEF SplitInvariant, SplitTypeOK, Closed, Last
  <2> QED
    BY <1>1, <2>1 DEF SplitInvariant, Open
<1>3. Seen' = Seen
  BY <1>1 DEF Seen
<1> QED
  BY <1>1, <1>2, <1>3 DEF SplitInvariant, SplitTypeOK, Split

\* Together: every step keeps the invariant.
LEMMA SplitStep ==
  ASSUME NEW S, Closed(S), SplitInvariant(S), [BuilderNext]_all
  PROVE  SplitInvariant(S)'
<1>1. CASE SplitBehind
  BY <1>1, SplitBehindKeeps
<1>2. CASE SplitBefore
  BY <1>2, SplitBeforeKeeps
<1>3. CASE Collect
  BY <1>3, CollectKeeps
<1>4. CASE EndSplit
  BY <1>4, EndSplitKeeps
<1>5. CASE ConnectBlock \/ Calculate \/ (phase = "live" /\ UNCHANGED build) \/ UNCHANGED all
  <2>1. /\ UNCHANGED <<instructions, current_block, basic_blocks>>
        /\ \/ phase # "split" /\ phase' \in {"connect", "live"}
           \/ phase' = phase /\ at' = at
    BY <1>5 DEF ConnectBlock, Calculate, build, all
  <2>2. Seen' = Seen
    BY <2>1 DEF Seen
  <2>3. SplitTypeOK(S)' /\ Split'
    BY <2>1, <2>2 DEF SplitInvariant, SplitTypeOK, Split
  <2>4. phase' = "split" => Open'
    BY <2>1 DEF SplitInvariant, Open, NoLabelInside
  <2> QED
    BY <2>1, <2>3, <2>4 DEF SplitInvariant
<1> QED
  BY <1>1, <1>2, <1>3, <1>4, <1>5 DEF BuilderNext

\* And it says that the blocks are blocks.
LEMMA SplitIntoBlocks == ASSUME NEW S, SplitInvariant(S) PROVE BlocksAreBlocks
BY DEF SplitInvariant, Split, Seen, BlocksAreBlocks, IsBlock, NoLabelInside

(* Splitting takes every instruction into one block in its place, enters    *)
(* blocks at their first instruction only and leaves them behind their last *)
(* only, for all sequences of instructions that end with a jump or a HALT.  *)
THEOREM SplitsIntoBlocks ==
  ASSUME NEW S, Closed(S)
  PROVE  BuilderSpec => []BlocksAreBlocks
<1>1. BuilderInit => SplitInvariant(S)
  BY SplitInitially
<1>2. SplitInvariant(S) /\ [BuilderNext]_all => SplitInvariant(S)'
  BY SplitStep
<1>3. SplitInvariant(S) => BlocksAreBlocks
  BY SplitIntoBlocks
<1> QED
  BY <1>1, <1>2, <1>3, PTL DEF BuilderSpec

-----------------------------------------------------------------------------
\* What Where computes, with sets: the step from v to what is one nearer.
Wider(v, kept, behind) ==
  v \cup { p \in kept \ v : \E q \in v : << q, p >> \in behind }

\* Nothing is nearer than what is in v already.
Complete(v, kept, behind) ==
  \A p \in kept, q \in v : << q, p >> \in behind => p \in v

Widens(f, n, seeds, kept, behind) ==
  f = [ m \in 0 .. n |-> IF m = 0 THEN seeds ELSE Wider(f[m - 1], kept, behind) ]

\* The function that Where computes exists.
LEMMA WidensExists ==
  ASSUME NEW n \in Nat, NEW D, NEW seeds \in SUBSET D, NEW kept \in SUBSET D, NEW behind
  PROVE  \E f \in [0 .. n -> SUBSET D] : Widens(f, n, seeds, kept, behind)
<1> DEFINE V == SUBSET D
           A == (Nat \ {0}) \X V
           g == [a \in A |-> Wider(a[2], kept, behind)]
           h == [m \in Nat |-> m - 1]
<1>1. \A v \in V : Wider(v, kept, behind) \in V
  BY DEF Wider
<1>2. seeds \in V
  OBVIOUS
<1> HIDE DEF V
<1>3. Rules(V, g, h)
  <2>1. ASSUME NEW a \in A PROVE Wider(a[2], kept, behind) \in V
    BY <1>1
  <2>2. g \in [A -> V]
    BY <2>1
  <2>3. ASSUME NEW m \in Nat \ {0} PROVE h[m] \in 0 .. m - 1
    OBVIOUS
  <2> QED
    BY <2>2, <2>3 DEF Rules
<1>4. ASSUME NEW m \in 1 .. n, NEW v \in V PROVE g[<<m, v>>] = Wider(v, kept, behind)
  <2>1. <<m, v>> \in A /\ <<m, v>>[2] = v
    OBVIOUS
  <2>2. g[<<m, v>>] = Wider(<<m, v>>[2], kept, behind)
    BY <2>1
  <2> QED
    BY <2>1, <2>2
<1>5. \A m \in 1 .. n : h[m] = m - 1
  OBVIOUS
<1> HIDE DEF g, h
<1>6. PICK e : e \in Upto(n, V, seeds, g, h)
  <2>1. Upto(n, V, seeds, g, h) # {}
    BY <1>2, <1>3, UptoExists
  <2> QED
    BY <2>1
<1>7. /\ e \in [0 .. n -> V]
      /\ \A m \in 0 .. n : e[m] = IF m = 0 THEN seeds ELSE g[<<m, e[h[m]]>>]
  BY <1>6 DEF Upto
<1>8. ASSUME NEW m \in 0 .. n
      PROVE  e[m] = IF m = 0 THEN seeds ELSE Wider(e[m - 1], kept, behind)
  <2>1. CASE m = 0
    BY <1>7, <2>1
  <2>2. CASE m # 0
    <3>1. m \in 1 .. n /\ m - 1 \in 0 .. n /\ h[m] = m - 1
      BY <1>5, <2>2
    <3>2. e[m - 1] \in V /\ e[m] = g[<<m, e[m - 1]>>]
      BY <1>7, <2>2, <3>1
    <3>3. g[<<m, e[m - 1]>>] = Wider(e[m - 1], kept, behind)
      BY <1>4, <3>1, <3>2
    <3> QED
      BY <2>2, <3>2, <3>3
  <2> QED
    BY <2>1, <2>2
<1>9. Widens(e, n, seeds, kept, behind)
  BY <1>7, <1>8 DEF Widens
<1> QED
  BY <1>7, <1>9 DEF V

\* After as many steps as there are elements nothing is nearer.
LEMMA WidensCompletes ==
  ASSUME NEW n \in Nat, NEW seeds \in SUBSET (1 .. n), NEW kept \in SUBSET (1 .. n),
         NEW behind, NEW f, Widens(f, n, seeds, kept, behind)
  PROVE  /\ f[n] \in SUBSET (1 .. n)
         /\ seeds \subseteq f[n]
         /\ Complete(f[n], kept, behind)
         /\ \A Z : seeds \subseteq Z /\ Complete(Z, kept, behind) => f[n] \subseteq Z
<1> DEFINE D == 1 .. n
           E == { m \in Nat : m <= n =>
                    /\ f[m] \in SUBSET D
                    /\ seeds \subseteq f[m]
                    /\ \A Z : seeds \subseteq Z /\ Complete(Z, kept, behind) => f[m] \subseteq Z
                    /\ Complete(f[m], kept, behind) \/ Cardinality(f[m]) >= m }
<1>1. ASSUME NEW m \in 0 .. n
      PROVE  f[m] = IF m = 0 THEN seeds ELSE Wider(f[m - 1], kept, behind)
  BY DEF Widens
<1>2. IsFiniteSet(D) /\ Cardinality(D) = n
  BY FS_Interval
<1> HIDE DEF D
<1>3. \A v \in SUBSET D : IsFiniteSet(v) /\ Cardinality(v) \in Nat
  BY <1>2, FS_Subset, FS_CardinalityType
<1>4. 0 \in E
  <2>1. f[0] = seeds
    BY <1>1
  <2>2. f[0] \in SUBSET D /\ seeds \subseteq f[0] /\ Cardinality(f[0]) >= 0
    BY <1>3, <2>1 DEF D
  <2>3. ASSUME NEW Z, seeds \subseteq Z PROVE f[0] \subseteq Z
    BY <2>1, <2>3
  <2> QED
    BY <2>2, <2>3
<1>5. ASSUME NEW m \in Nat, m \in E PROVE m + 1 \in E
  <2> SUFFICES ASSUME m + 1 <= n
               PROVE  /\ f[m + 1] \in SUBSET D
                      /\ seeds \subseteq f[m + 1]
                      /\ \A Z : seeds \subseteq Z /\ Complete(Z, kept, behind)
                           => f[m + 1] \subseteq Z
                      /\ Complete(f[m + 1], kept, behind) \/ Cardinality(f[m + 1]) >= m + 1
    OBVIOUS
  <2> DEFINE v == f[m]
             w == f[m + 1]
  <2>1. /\ v \in SUBSET D
        /\ seeds \subseteq v
        /\ \A Z : seeds \subseteq Z /\ Complete(Z, kept, behind) => v \subseteq Z
        /\ Complete(v, kept, behind) \/ Cardinality(v) >= m
    BY <1>5
  <2>2. w = Wider(v, kept, behind)
    <3>1. m + 1 \in 0 .. n /\ (m + 1) - 1 = m /\ m + 1 # 0
      OBVIOUS
    <3>2. f[m + 1] = IF m + 1 = 0 THEN seeds ELSE Wider(f[(m + 1) - 1], kept, behind)
      BY <1>1, <3>1
    <3> QED
      BY <3>1, <3>2
  <2> HIDE DEF v, w
  <2>3. w \in SUBSET D /\ v \subseteq w
    BY <2>1, <2>2 DEF Wider, D
  <2>4. ASSUME NEW Z, seeds \subseteq Z, Complete(Z, kept, behind) PROVE w \subseteq Z
    <3>1. v \subseteq Z
      BY <2>1, <2>4
    <3> QED
      BY <2>2, <2>4, <3>1 DEF Wider, Complete
  <2>5. CASE w = v
    <3>1. Complete(v, kept, behind)
      BY <2>2, <2>5 DEF Wider, Complete
    <3> QED
      BY <2>1, <2>3, <2>4, <2>5, <3>1 DEF w
  <2>6. CASE w # v
    <3>1. PICK p \in kept \ v : \E q \in v : << q, p >> \in behind
      BY <2>2, <2>6 DEF Wider
    <3>2. ~Complete(v, kept, behind)
      BY <3>1 DEF Complete
    <3>3. Cardinality(v) >= m /\ Cardinality(v) # Cardinality(w) /\ Cardinality(v) <= Cardinality(w)
      BY <1>3, <2>1, <2>3, <2>6, <3>2, FS_Subset
    <3>4. Cardinality(w) >= m + 1
      BY <1>3, <2>1, <2>3, <3>3
    <3> QED
      BY <2>1, <2>3, <2>4, <3>4 DEF w
  <2> QED
    BY <2>5, <2>6
<1> HIDE DEF E
<1>6. \A m \in Nat : m \in E
  BY <1>4, <1>5, SetInduction
<1>7. /\ f[n] \in SUBSET D
      /\ seeds \subseteq f[n]
      /\ \A Z : seeds \subseteq Z /\ Complete(Z, kept, behind) => f[n] \subseteq Z
      /\ Complete(f[n], kept, behind) \/ Cardinality(f[n]) >= n
  BY <1>6 DEF E
<1>8. Complete(f[n], kept, behind)
  <2>1. CASE Cardinality(f[n]) >= n
    <3>1. Cardinality(f[n]) <= Cardinality(D)
      BY <1>2, <1>7, FS_Subset
    <3>2. Cardinality(f[n]) = Cardinality(D)
      BY <1>2, <1>3, <1>7, <2>1, <3>1
    <3>3. f[n] = D
      BY <1>2, <1>7, <3>2, FS_Subset
    <3> QED
      BY <3>3 DEF Complete, D
  <2> QED
    BY <1>7, <2>1
<1> QED
  BY <1>7, <1>8 DEF D

\* The instructions that read x, those that do not overwrite it, and which are
\* behind which.
Places == DOMAIN instructions
Readers(x) == { p \in DOMAIN instructions : x \in read_variables(instructions[p]) }
Keepers(x) == { p \in DOMAIN instructions : x \notin overwritten_variables(instructions[p]) }
Behind == { e \in Places \X Places : Follows(e[1], e[2]) }

Needed(x) == Where(x, read_variables, overwritten_variables, Follows)

\* Behind is Follows, between places that there are.
LEMMA BehindIs ==
  ASSUME NEW q \in Places, NEW p \in Places
  PROVE  << q, p >> \in Behind <=> Follows(q, p)
<1> DEFINE e == << q, p >>
<1>1. e \in Places \X Places
  OBVIOUS
<1>2. e[1] = q /\ e[2] = p
  OBVIOUS
<1> HIDE DEF e
<1>3. e \in Behind <=> Follows(e[1], e[2])
  BY ONLY <1>1 DEF Behind
<1>4. Follows(e[1], e[2]) <=> Follows(q, p)
  BY ONLY <1>2
<1> QED
  BY <1>3, <1>4 DEF e

\* Needed(x) is the least set that holds the readers of x and whatever has, in
\* one step and without overwriting x, a member behind it.
LEMMA NeededIsLeast ==
  ASSUME NEW x, NEW n \in Nat, n = Len(instructions), DOMAIN instructions = 1 .. n
  PROVE  /\ Needed(x) \in SUBSET (1 .. n)
         /\ Readers(x) \subseteq Needed(x)
         /\ Complete(Needed(x), Keepers(x), Behind)
         /\ \A Z : Readers(x) \subseteq Z /\ Complete(Z, Keepers(x), Behind)
              => Needed(x) \subseteq Z
<1> DEFINE D == 1 .. n
           K == Keepers(x)
           more(v) == v \cup { p \in K \ v : \E q \in v : Follows(q, p) }
           within(f) == f = [ m \in 0 .. n |-> IF m = 0 THEN Readers(x) ELSE more(f[m - 1]) ]
           F == CHOOSE f : within(f)
<1>1. Needed(x) = F[n]
  BY DEF Needed, Where, Readers, Keepers
<1>2. Readers(x) \in SUBSET D /\ K \in SUBSET D
  BY DEF Readers, Keepers
<1>3. ASSUME NEW v \in SUBSET D PROVE more(v) = Wider(v, K, Behind)
  <2>1. ASSUME NEW q \in v, NEW p \in K PROVE << q, p >> \in Behind <=> Follows(q, p)
    <3>1. q \in Places /\ p \in Places
      BY <1>2 DEF Places
    <3> QED
      BY <3>1, BehindIs
  <2> HIDE DEF K
  <2> QED
    BY <2>1 DEF Wider
<1> HIDE DEF D, K
<1>4. PICK e \in [0 .. n -> SUBSET D] : Widens(e, n, Readers(x), K, Behind)
  BY <1>2, WidensExists
<1>5. within(e)
  <2>1. ASSUME NEW m \in 0 .. n
        PROVE  e[m] = IF m = 0 THEN Readers(x) ELSE more(e[m - 1])
    <3>1. e[m] = IF m = 0 THEN Readers(x) ELSE Wider(e[m - 1], K, Behind)
      BY <1>4 DEF Widens
    <3>2. m # 0 => e[m - 1] \in SUBSET D
      BY <1>4
    <3> HIDE DEF more
    <3> QED
      BY <1>3, <3>1, <3>2
  <2> HIDE DEF more
  <2> QED
    BY <1>4, <2>1
<1>6. within(F)
  <2> HIDE DEF within
  <2> QED
    BY <1>5
<1> HIDE DEF F
<1>7. ASSUME NEW m \in 0 .. n
      PROVE  F[m] = IF m = 0 THEN Readers(x) ELSE more(F[m - 1])
  <2> HIDE DEF more
  <2> QED
    BY <1>6
<1>8. \A m \in 0 .. n : F[m] \in SUBSET D
  <2> DEFINE E == { m \in Nat : m <= n => F[m] \in SUBSET D }
  <2>1. 0 \in E
    BY <1>2, <1>7
  <2>2. ASSUME NEW m \in Nat, m \in E PROVE m + 1 \in E
    <3>1. SUFFICES ASSUME m + 1 <= n PROVE F[m + 1] \in SUBSET D
      OBVIOUS
    <3>2. F[m] \in SUBSET D
      BY <2>2, <3>1
    <3>3. F[m + 1] = more(F[m])
      <4>1. m + 1 \in 0 .. n /\ (m + 1) - 1 = m /\ m + 1 # 0
        BY <3>1
      <4>2. F[m + 1] = IF m + 1 = 0 THEN Readers(x) ELSE more(F[(m + 1) - 1])
        BY <1>7, <4>1
      <4> HIDE DEF more
      <4> QED
        BY <4>1, <4>2
    <3> QED
      BY <1>2, <3>2, <3>3
  <2> HIDE DEF E
  <2>3. \A m \in Nat : m \in E
    BY <2>1, <2>2, SetInduction
  <2> QED
    BY <2>3 DEF E
<1>9. Widens(F, n, Readers(x), K, Behind)
  <2>1. ASSUME NEW m \in 0 .. n
        PROVE  F[m] = IF m = 0 THEN Readers(x) ELSE Wider(F[m - 1], K, Behind)
    <3>1. m # 0 => F[m - 1] \in SUBSET D
      BY <1>8
    <3> HIDE DEF more
    <3> QED
      BY <1>3, <1>7, <3>1
  <2> HIDE DEF more
  <2>2. F = [ m \in 0 .. n |-> IF m = 0 THEN Readers(x) ELSE more(F[m - 1]) ]
    BY <1>6
  <2> QED
    BY <2>1, <2>2 DEF Widens
<1> QED
  BY <1>1, <1>2, <1>9, WidensCompletes DEF D, K

-----------------------------------------------------------------------------
\* Instructions over the registers of V and the labels of L.
LirOver(V, L) ==
  { WithRegister(op, x) : op \in {"LOAD", "STORE", "GET", "PUT", "ADD", "SUB", "RST", "INC",
                                  "DEC", "SHL", "SHR", "STRK", "JUMPR"}, x \in V }
  \cup { WithLabel(op, l) : op \in {"JUMP", "JPOS", "JZERO", "LABEL"}, l \in L }
  \cup { Plain(op) : op \in {"READ", "WRITE", "HALT"} }
Lir(L) == LirOver(VRegisters, L)

\* Each label that is jumped to stands in one place.
Lands(p) ==
  \A m \in DOMAIN p : IsJump(p[m]) =>
    \E k \in DOMAIN p : \A j \in DOMAIN p : p[j] = WithLabel("LABEL", p[m].label) <=> j = k

Supplied(L) == /\ regA \in VRegisters
               /\ Closed(Lir(L))
               /\ \A p \in Programs : Lands(p)

\* The blocks with the one being collected.
AllBlocks == Pushed(current_block)

\* A label names the block that it begins, and every label seen is there.
LabelInvariant ==
  /\ \A l \in DOMAIN labels : /\ labels[l] \in DOMAIN AllBlocks
                              /\ AllBlocks[labels[l]][1] = WithLabel("LABEL", l)
  /\ \A k \in DOMAIN Seen : Seen[k].op = "LABEL" => Seen[k].label \in DOMAIN labels

LEMMA LabelsInitially == ASSUME BuilderInit PROVE LabelInvariant
<1>1. DOMAIN labels = {} /\ phase = "split" /\ at = 0
  BY DEF BuilderInit, BuilderStart
<1>2. Seen = <<>>
  BY <1>1, SubSeqEmpty DEF Seen
<1> QED
  BY <1>1, <1>2 DEF LabelInvariant

\* A label is nothing but its name.
LEMMA MarkIsLabel ==
  ASSUME NEW L, NEW c \in Lir(L), c.op = "LABEL"
  PROVE  c = WithLabel("LABEL", c.label)
BY DEF Lir, LirOver, WithRegister, WithLabel, Plain

\* Adding an instruction to the block being collected leaves where blocks begin.
LEMMA BeginningsStay ==
  ASSUME NEW S, SplitTypeOK(S), NEW c \in S, NEW all_blocks,
         all_blocks = Append(basic_blocks, Append(current_block, c)),
         NEW b \in DOMAIN AllBlocks
  PROVE  b \in DOMAIN all_blocks /\ all_blocks[b][1] = AllBlocks[b][1]
<1> DEFINE Q == Seq(S)
           grown == Append(current_block, c)
<1>1. basic_blocks \in Seq(Q) /\ current_block \in Q /\ grown \in Q
  BY DEF SplitTypeOK
<1>2. current_block # <<>> => grown[1] = current_block[1]
  BY DEF SplitTypeOK
<1> HIDE DEF Q, grown
<1>3. all_blocks = Append(basic_blocks, grown)
  BY DEF grown
<1>4. CASE b \in DOMAIN basic_blocks
  <2>1. b \in DOMAIN all_blocks /\ all_blocks[b] = basic_blocks[b]
    BY <1>1, <1>3, <1>4
  <2>2. AllBlocks[b] = basic_blocks[b]
    BY <1>1, <1>4 DEF AllBlocks, Pushed
  <2> QED
    BY <2>1, <2>2
<1>5. CASE b \notin DOMAIN basic_blocks
  <2>1. AllBlocks = Append(basic_blocks, current_block) /\ current_block # <<>>
    BY <1>5 DEF AllBlocks, Pushed
  <2>2. b = Len(basic_blocks) + 1 /\ AllBlocks[b] = current_block
    BY <1>1, <1>5, <2>1
  <2>3. b \in DOMAIN all_blocks /\ all_blocks[b] = grown
    BY <1>1, <1>3, <2>2
  <2> QED
    BY <1>2, <2>1, <2>2, <2>3
<1> QED
  BY <1>4, <1>5

\* With SplittingStep: one instruction more has been seen.
LEMMA OneMoreSeen ==
  ASSUME NEW S, Closed(S), SplitInvariant(S), Splitting
  PROVE  /\ Seen' = Append(Seen, Here)
         /\ \A k \in DOMAIN Seen' : Seen'[k] = Here \/ (k \in DOMAIN Seen /\ Seen'[k] = Seen[k])
<1>1. /\ Here \in S
      /\ FlattenSeq(basic_blocks) \in Seq(S)
      /\ Seen' = Append(FlattenSeq(basic_blocks) \o current_block, Here)
  BY SplittingStep
<1>2. Seen = FlattenSeq(basic_blocks) \o current_block /\ current_block \in Seq(S)
  BY DEF SplitInvariant, Split, SplitTypeOK
<1>3. Seen \in Seq(S) /\ Seen' = Append(Seen, Here)
  BY <1>1, <1>2
<1> QED
  BY <1>1, <1>3

LEMMA LabelsStep ==
  ASSUME NEW L, Closed(Lir(L)), SplitInvariant(Lir(L)), LabelInvariant, [BuilderNext]_all
  PROVE  LabelInvariant'
<1> DEFINE S == Lir(L)
<1>1. SplitInvariant(S)' /\ SplitTypeOK(S) /\ SplitTypeOK(S)'
  BY SplitStep DEF SplitInvariant
<1> HIDE DEF S
<1>2. CASE SplitBehind \/ Collect
  <2>1. Splitting /\ labels' = labels /\ Here.op # "LABEL"
    BY <1>2 DEF SplitBehind, Collect, EndsBlock, IsJump
  <2>2. Here \in S
    BY <2>1, SplittingStep DEF S
  <2>3. AllBlocks' = Append(basic_blocks, Append(current_block, Here))
    <3>1. Append(current_block, Here) # <<>>
      <4>1. current_block \in Seq(S)
        BY <1>1 DEF SplitTypeOK
      <4> HIDE DEF Here
      <4> QED
        BY <2>2, <4>1, AppendProperties
    <3> QED
      BY <1>2, <3>1 DEF SplitBehind, Collect, AllBlocks, Pushed
  <2>4. ASSUME NEW l \in DOMAIN labels'
        PROVE  labels'[l] \in DOMAIN AllBlocks' /\ AllBlocks'[labels'[l]][1] = WithLabel("LABEL", l)
    <3>1. labels[l] \in DOMAIN AllBlocks /\ AllBlocks[labels[l]][1] = WithLabel("LABEL", l)
      BY <2>1 DEF LabelInvariant
    <3>2. labels[l] \in DOMAIN AllBlocks' /\ AllBlocks'[labels[l]][1] = AllBlocks[labels[l]][1]
      BY <1>1, <2>2, <2>3, <3>1, BeginningsStay
    <3> QED
      BY <2>1, <3>1, <3>2
  <2>5. \A k \in DOMAIN Seen' : Seen'[k].op = "LABEL" => Seen'[k].label \in DOMAIN labels'
    <3>1. \A k \in DOMAIN Seen' : Seen'[k] = Here \/ (k \in DOMAIN Seen /\ Seen'[k] = Seen[k])
      BY <2>1, OneMoreSeen
    <3> QED
      BY <2>1, <3>1 DEF LabelInvariant
  <2> QED
    BY <2>4, <2>5 DEF LabelInvariant
<1>3. CASE SplitBefore
  <2>1. /\ Splitting /\ Here.op = "LABEL"
        /\ basic_blocks' = AllBlocks /\ current_block' = << Here >>
        /\ labels' = [ l \in DOMAIN labels \cup {Here.label} |->
                         IF l = Here.label THEN Len(basic_blocks') + 1 ELSE labels[l] ]
    BY <1>3 DEF SplitBefore, AllBlocks
  <2>2. Here = WithLabel("LABEL", Here.label)
    BY <2>1, SplittingStep, MarkIsLabel
  <2>3. AllBlocks' = Append(AllBlocks, << Here >>)
    BY <2>1 DEF AllBlocks, Pushed
  <2> DEFINE Q == Seq(S)
  <2>4. AllBlocks \in Seq(Q)
    BY <1>1, <2>1 DEF SplitTypeOK
  <2> HIDE DEF Q
  <2>5. /\ Len(AllBlocks) + 1 \in DOMAIN AllBlocks'
        /\ AllBlocks'[Len(AllBlocks) + 1] = << Here >>
        /\ \A b \in DOMAIN AllBlocks : b \in DOMAIN AllBlocks' /\ AllBlocks'[b] = AllBlocks[b]
    BY <2>3, <2>4
  <2>6. ASSUME NEW l \in DOMAIN labels'
        PROVE  labels'[l] \in DOMAIN AllBlocks' /\ AllBlocks'[labels'[l]][1] = WithLabel("LABEL", l)
    <3>1. CASE l = Here.label
      <4>1. labels'[l] = Len(AllBlocks) + 1
        BY <2>1, <3>1
      <4> QED
        BY <2>2, <2>5, <3>1, <4>1
    <3>2. CASE l # Here.label
      <4>1. l \in DOMAIN labels /\ labels'[l] = labels[l]
        BY <2>1, <3>2
      <4> QED
        BY <2>5, <4>1 DEF LabelInvariant
    <3> QED
      BY <3>1, <3>2
  <2>7. \A k \in DOMAIN Seen' : Seen'[k].op = "LABEL" => Seen'[k].label \in DOMAIN labels'
    <3>1. \A k \in DOMAIN Seen' : Seen'[k] = Here \/ (k \in DOMAIN Seen /\ Seen'[k] = Seen[k])
      BY <2>1, OneMoreSeen
    <3>2. DOMAIN labels' = DOMAIN labels \cup {Here.label}
      BY <2>1
    <3> QED
      BY <3>1, <3>2 DEF LabelInvariant
  <2> QED
    BY <2>6, <2>7 DEF LabelInvariant
<1>4. CASE EndSplit \/ ConnectBlock \/ Calculate \/ (phase = "live" /\ UNCHANGED build)
           \/ UNCHANGED all
  <2>1. /\ UNCHANGED <<instructions, current_block, basic_blocks, labels>>
        /\ \/ phase # "split" /\ phase' # "split"
           \/ phase = "split" /\ phase' = "connect" /\ at = Len(instructions)
           \/ phase' = phase /\ at' = at
    BY <1>4 DEF EndSplit, ConnectBlock, Calculate, build, all
  <2>2. Seen' = Seen
    BY <2>1 DEF Seen
  <2> QED
    BY <2>1, <2>2 DEF LabelInvariant, AllBlocks, Pushed
<1> QED
  BY <1>2, <1>3, <1>4 DEF BuilderNext

-----------------------------------------------------------------------------
\* Instruction m of block b stands there.
At(b, m) == Offset(basic_blocks, b) + m

\* The instructions of the blocks are all the instructions.
LEMMA Standing ==
  ASSUME NEW S, Closed(S), SplitInvariant(S), phase # "split"
  PROVE  /\ basic_blocks \in Seq(Seq(S)) /\ instructions \in Seq(S)
         /\ AllBlocks = basic_blocks /\ Seen = instructions
         /\ \A b \in DOMAIN basic_blocks :
              /\ First(b) = At(b, 1)
              /\ \A m \in DOMAIN basic_blocks[b] :
                   /\ At(b, m) \in DOMAIN instructions
                   /\ instructions[At(b, m)] = basic_blocks[b][m]
         /\ \A p \in DOMAIN instructions :
              \E b \in DOMAIN basic_blocks : \E m \in DOMAIN basic_blocks[b] : p = At(b, m)
<1>1. /\ basic_blocks \in Seq(Seq(S)) /\ current_block = <<>> /\ instructions \in Seq(S)
      /\ FlattenSeq(basic_blocks) \o <<>> = SubSeq(instructions, 1, Len(instructions))
  BY DEF SplitInvariant, SplitTypeOK, Split, Seen, Closed
<1>2. FlattenSeq(basic_blocks) = instructions
  <2>1. FlattenSeq(basic_blocks) \in Seq(S)
    BY <1>1, FlattenType
  <2>2. FlattenSeq(basic_blocks) \o <<>> = FlattenSeq(basic_blocks)
    BY <2>1
  <2>3. SubSeq(instructions, 1, Len(instructions)) = instructions
    BY <1>1, SubSeqFull
  <2> QED
    BY <1>1, <2>2, <2>3
<1>3. AllBlocks = basic_blocks
  BY <1>1 DEF AllBlocks, Pushed
<1>4. Seen = instructions
  <2>1. SubSeq(instructions, 1, Len(instructions)) = instructions
    BY <1>1, SubSeqFull
  <2> QED
    BY <2>1 DEF Seen
<1>5. ASSUME NEW b \in DOMAIN basic_blocks PROVE First(b) = At(b, 1)
  <2>1. b \in 1 .. Len(basic_blocks)
    BY <1>1
  <2>2. Offset(basic_blocks, b) \in Nat
    BY <1>1, <2>1, Offsets
  <2> QED
    BY <2>2 DEF First, At, Offset
<1>6. /\ \A b \in DOMAIN basic_blocks : \A m \in DOMAIN basic_blocks[b] :
           /\ At(b, m) \in DOMAIN instructions
           /\ instructions[At(b, m)] = basic_blocks[b][m]
      /\ \A p \in DOMAIN instructions :
           \E b \in DOMAIN basic_blocks : \E m \in DOMAIN basic_blocks[b] : p = At(b, m)
  BY <1>1, <1>2, LaidOut DEF At
<1> QED
  BY <1>1, <1>3, <1>4, <1>5, <1>6

\* A block is a sequence that is not empty.
LEMMA BlockShape ==
  ASSUME NEW S, SplitInvariant(S), NEW b \in DOMAIN basic_blocks
  PROVE  /\ basic_blocks[b] \in Seq(S) /\ IsBlock(basic_blocks[b])
         /\ Len(basic_blocks[b]) \in Nat /\ Len(basic_blocks[b]) >= 1
         /\ DOMAIN basic_blocks[b] = 1 .. Len(basic_blocks[b])
         /\ Len(basic_blocks[b]) \in DOMAIN basic_blocks[b]
         /\ b \in 1 .. Len(basic_blocks) /\ Len(basic_blocks) \in Nat
         /\ At(b, 1) = Offset(basic_blocks, b) + 1 /\ Offset(basic_blocks, b) \in Nat
<1> DEFINE Q == Seq(S)
           block == basic_blocks[b]
<1>1. basic_blocks \in Seq(Q)
  BY DEF SplitInvariant, SplitTypeOK
<1>2. Offset(basic_blocks, b) \in Nat
  <2>1. b \in 1 .. Len(basic_blocks)
    BY <1>1
  <2> QED
    BY <1>1, <2>1, Offsets
<1> HIDE DEF Q
<1>3. block \in Q /\ b \in 1 .. Len(basic_blocks) /\ Len(basic_blocks) \in Nat
  BY <1>1
<1>4. IsBlock(block)
  BY DEF SplitInvariant
<1> HIDE DEF block
<1>5. block \in Seq(S) /\ block # <<>>
  BY <1>3, <1>4 DEF Q, IsBlock
<1>6. /\ Len(block) \in Nat /\ Len(block) >= 1
      /\ DOMAIN block = 1 .. Len(block) /\ Len(block) \in DOMAIN block
  BY <1>5
<1> QED
  BY <1>2, <1>3, <1>4, <1>5, <1>6 DEF block, At

\* The instructions behind the last of block b are the first ones of its
\* successors.
LEMMA Successors ==
  ASSUME NEW L, Supplied(L), SplitInvariant(Lir(L)), LabelInvariant, phase # "split",
         NEW b \in DOMAIN basic_blocks
  PROVE  LET s == Targets(b) \o FallsThrough(b)
         IN /\ s \in Seq(1 .. Len(basic_blocks))
            /\ \A q \in DOMAIN instructions :
                 Follows(q, At(b, Len(basic_blocks[b])))
                   <=> \E j \in DOMAIN s : q = First(s[j])
<1> DEFINE S == Lir(L)
           N == Len(basic_blocks)
           len == Len(basic_blocks[b])
           p == At(b, len)
           last == Last(basic_blocks[b])
<1>1. Closed(S)
  BY DEF Supplied
<1>2. /\ instructions \in Seq(S)
      /\ AllBlocks = basic_blocks /\ Seen = instructions
      /\ \A c \in DOMAIN basic_blocks :
           /\ First(c) = At(c, 1)
           /\ \A m \in DOMAIN basic_blocks[c] :
                /\ At(c, m) \in DOMAIN instructions
                /\ instructions[At(c, m)] = basic_blocks[c][m]
      /\ \A k \in DOMAIN instructions :
           \E c \in DOMAIN basic_blocks : \E m \in DOMAIN basic_blocks[c] : k = At(c, m)
  BY <1>1, Standing
<1>3. /\ len \in DOMAIN basic_blocks[b] /\ b \in 1 .. N /\ N \in Nat /\ DOMAIN basic_blocks = 1 .. N
      /\ Offset(basic_blocks, b) \in Nat /\ len \in Nat /\ basic_blocks \in Seq(Seq(S))
  <2>1. basic_blocks \in Seq(Seq(S))
    BY DEF SplitInvariant, SplitTypeOK
  <2>2. DOMAIN basic_blocks = 1 .. N
    BY <2>1
  <2>3. /\ len \in DOMAIN basic_blocks[b] /\ b \in 1 .. N /\ N \in Nat
        /\ Offset(basic_blocks, b) \in Nat /\ len \in Nat
    BY BlockShape
  <2> QED
    BY <2>1, <2>2, <2>3
<1>4. p \in DOMAIN instructions /\ instructions[p] = last
  BY <1>2, <1>3 DEF Last
<1>5. \A c \in DOMAIN basic_blocks : First(c) \in DOMAIN instructions
  BY <1>2, BlockShape
<1> HIDE DEF S, N, len, p, last
\* behind a jump
<1>6. ASSUME IsJump(last)
      PROVE  /\ labels[last.label] \in 1 .. N
             /\ \A q \in DOMAIN instructions :
                  instructions[q] = WithLabel("LABEL", last.label)
                    <=> q = First(labels[last.label])
  <2>1. Lands(instructions)
    BY DEF Supplied, SplitInvariant, SplitTypeOK
  <2>2. PICK k \in DOMAIN instructions :
          \A j \in DOMAIN instructions : instructions[j] = WithLabel("LABEL", last.label) <=> j = k
    BY <1>4, <1>6, <2>1 DEF Lands
  <2>3. instructions[k].op = "LABEL" /\ instructions[k].label = last.label
    BY <2>2 DEF WithLabel
  <2>4. last.label \in DOMAIN labels
    BY <1>2, <2>3 DEF LabelInvariant
  <2> DEFINE n == labels[last.label]
  <2>5. n \in DOMAIN basic_blocks /\ basic_blocks[n][1] = WithLabel("LABEL", last.label)
    BY <1>2, <2>4 DEF LabelInvariant
  <2> HIDE DEF n
  <2>6. 1 \in DOMAIN basic_blocks[n]
    BY <2>5, BlockShape
  <2>7. First(n) \in DOMAIN instructions /\ instructions[First(n)] = basic_blocks[n][1]
    BY <1>2, <2>5, <2>6
  <2>8. First(n) = k
    BY <2>2, <2>5, <2>7
  <2> QED
    BY <1>3, <2>2, <2>5, <2>8 DEF n
\* behind what is no jump, or not always one
<1>7. ASSUME NEW q \in DOMAIN instructions
      PROVE  q = p + 1 <=> b < N /\ q = First(b + 1)
  <2>1. Offset(basic_blocks, b + 1) = Offset(basic_blocks, b) + len
    BY <1>3, Offsets DEF N, len
  <2>2. p + 1 = Offset(basic_blocks, b + 1) + 1
    BY <1>3, <2>1 DEF p, At
  <2>3. b < N => First(b + 1) = p + 1
    <3>1. ASSUME b < N PROVE b + 1 \in DOMAIN basic_blocks
      BY <1>3, <3>1
    <3>2. ASSUME b < N PROVE First(b + 1) = Offset(basic_blocks, b + 1) + 1
      BY <1>2, <3>1, <3>2 DEF At
    <3> QED
      BY <2>2, <3>2
  <2>4. ASSUME b = N, q = p + 1 PROVE FALSE
    <3>1. PICK c \in DOMAIN basic_blocks : \E m \in DOMAIN basic_blocks[c] : q = At(c, m)
      BY <1>2
    <3>2. PICK m \in DOMAIN basic_blocks[c] : q = At(c, m)
      BY <3>1
    <3>3. /\ Offset(basic_blocks, c) \in Nat /\ Len(basic_blocks[c]) \in Nat
          /\ m \in Nat /\ m <= Len(basic_blocks[c]) /\ m >= 1
          /\ c \in 1 .. N
      BY <1>3, BlockShape
    <3>4. Offset(basic_blocks, c) + Len(basic_blocks[c]) <= Offset(basic_blocks, b) + len
      <4>1. CASE c = b
        BY <1>3, <4>1 DEF len
      <4>2. CASE c # b
        <5>1. b \in c + 1 .. Len(basic_blocks) + 1 /\ c \in 1 .. Len(basic_blocks)
          BY <1>3, <2>4, <3>3, <4>2 DEF N
        <5>2. Offset(basic_blocks, c) + Len(basic_blocks[c]) <= Offset(basic_blocks, b)
          BY <1>3, <5>1, OffsetsGrow
        <5> QED
          BY <1>3, <3>3, <5>2
      <4> QED
        BY <4>1, <4>2
    <3> QED
      BY <1>3, <2>4, <3>2, <3>3, <3>4 DEF p, At
  <2> QED
    BY <1>3, <2>3, <2>4
<1>8. CASE last.op = "JUMP"
  <2>1. /\ IsJump(last) /\ Targets(b) = << labels[last.label] >> /\ FallsThrough(b) = <<>>
        /\ \A q : Follows(q, p) <=> instructions[q] = WithLabel("LABEL", last.label)
    BY <1>4, <1>8 DEF IsJump, Targets, FallsThrough, Follows, last
  <2>2. Targets(b) \o FallsThrough(b) = << labels[last.label] >>
    BY <1>6, <2>1
  <2> QED
    BY <1>6, <2>1, <2>2 DEF p, len, N
<1>9. CASE last.op \in {"JPOS", "JZERO"} /\ b < N
  <2>1. /\ IsJump(last) /\ Targets(b) = << labels[last.label] >> /\ FallsThrough(b) = << b + 1 >>
        /\ \A q : Follows(q, p) <=> q = p + 1 \/ instructions[q] = WithLabel("LABEL", last.label)
    BY <1>4, <1>9 DEF IsJump, Targets, FallsThrough, Follows, last, N
  <2> DEFINE n == labels[last.label]
             c == b + 1
  <2>2. n \in 1 .. N /\ c \in 1 .. N
    BY <1>3, <1>6, <1>9, <2>1
  <2>3. \A q \in DOMAIN instructions : Follows(q, p) <=> q = First(n) \/ q = First(c)
    BY <1>6, <1>7, <1>9, <2>1
  <2> HIDE DEF n, c
  <2>4. Targets(b) = << n >> /\ FallsThrough(b) = << c >>
    BY <2>1 DEF n, c
  <2> DEFINE s == << n >> \o << c >>
  <2>6. s \in Seq(1 .. N) /\ DOMAIN s = 1 .. 2 /\ s[1] = n /\ s[2] = c
    BY <2>2, ConcatProperties
  <2> HIDE DEF s
  <2>7. \A q \in DOMAIN instructions : Follows(q, p) <=> \E j \in DOMAIN s : q = First(s[j])
    BY <2>3, <2>6
  <2> QED
    BY <2>4, <2>6, <2>7 DEF p, len, N, s
<1>10. CASE last.op \in {"JPOS", "JZERO"} /\ ~(b < N)
  <2>1. /\ IsJump(last) /\ Targets(b) = << labels[last.label] >> /\ FallsThrough(b) = <<>>
        /\ \A q : Follows(q, p) <=> q = p + 1 \/ instructions[q] = WithLabel("LABEL", last.label)
    BY <1>4, <1>10 DEF IsJump, Targets, FallsThrough, Follows, last, N
  <2>2. Targets(b) \o FallsThrough(b) = << labels[last.label] >>
    BY <1>6, <2>1
  <2> QED
    BY <1>6, <1>7, <1>10, <2>1, <2>2 DEF p, len, N
<1>11. CASE last.op \in {"JUMPR", "HALT"}
  <2>1. /\ Targets(b) = <<>> /\ FallsThrough(b) = <<>>
        /\ \A q : ~Follows(q, p)
    BY <1>4, <1>11 DEF IsJump, Targets, FallsThrough, Follows, last, N
  <2> QED
    BY <2>1 DEF p, len, N
<1>12. CASE ~EndsBlock(last) /\ b < N
  <2>1. /\ Targets(b) = <<>> /\ FallsThrough(b) = << b + 1 >>
        /\ \A q : Follows(q, p) <=> q = p + 1
    BY <1>4, <1>12 DEF IsJump, EndsBlock, Targets, FallsThrough, Follows, last, N
  <2>2. Targets(b) \o FallsThrough(b) = << b + 1 >> /\ b + 1 \in 1 .. N
    BY <1>3, <1>12, <2>1
  <2> QED
    BY <1>7, <1>12, <2>1, <2>2 DEF p, len, N
<1>13. CASE ~EndsBlock(last) /\ ~(b < N)
  <2>1. /\ Targets(b) = <<>> /\ FallsThrough(b) = <<>>
        /\ \A q : Follows(q, p) <=> q = p + 1
    BY <1>4, <1>13 DEF IsJump, EndsBlock, Targets, FallsThrough, Follows, last, N
  <2> QED
    BY <1>7, <1>13, <2>1 DEF p, len, N
<1> QED
  BY <1>8, <1>9, <1>10, <1>11, <1>12, <1>13 DEF EndsBlock, IsJump

-----------------------------------------------------------------------------
\* Instructions read and overwrite registers.
LEMMA RegistersOf ==
  ASSUME NEW V, NEW L, regA \in V, NEW c \in LirOver(V, L)
  PROVE  read_variables(c) \in SUBSET V /\ overwritten_variables(c) \in SUBSET V
<1>1. CASE \E op \in {"LOAD", "STORE", "GET", "PUT", "ADD", "SUB", "RST", "INC", "DEC",
                      "SHL", "SHR", "STRK", "JUMPR"}, x \in V : c = WithRegister(op, x)
  <2>1. PICK op \in {"LOAD", "STORE", "GET", "PUT", "ADD", "SUB", "RST", "INC", "DEC",
                     "SHL", "SHR", "STRK", "JUMPR"}, x \in V : c = WithRegister(op, x)
    BY <1>1
  <2>2. c.op = op /\ c.reg = x
    BY <2>1 DEF WithRegister
  <2>3. read_variables(c) \in SUBSET V
    BY <2>1, <2>2 DEF read_variables
  <2>4. overwritten_variables(c) \in SUBSET V
    BY <2>1, <2>2 DEF overwritten_variables
  <2> QED
    BY <2>3, <2>4
<1>2. CASE \E op \in {"JUMP", "JPOS", "JZERO", "LABEL"}, l \in L : c = WithLabel(op, l)
  <2>1. c.op \in {"JUMP", "JPOS", "JZERO", "LABEL"}
    BY <1>2 DEF WithLabel
  <2> QED
    BY <2>1 DEF read_variables, overwritten_variables
<1>3. CASE \E op \in {"READ", "WRITE", "HALT"} : c = Plain(op)
  <2>1. c.op \in {"READ", "WRITE", "HALT"}
    BY <1>3 DEF Plain
  <2> QED
    BY <2>1 DEF read_variables, overwritten_variables
<1> QED
  BY <1>1, <1>2, <1>3 DEF LirOver

\* And so do blocks.
LEMMA SummaryOf ==
  ASSUME NEW L, regA \in VRegisters, NEW block \in Seq(Lir(L))
  PROVE  Reads(block) \in SUBSET VRegisters /\ Overwrites(block) \in SUBSET VRegisters
<1>1. \A m \in DOMAIN block : block[m] \in Lir(L)
  OBVIOUS
<1>2. \A m \in DOMAIN block : /\ read_variables(block[m]) \in SUBSET VRegisters
                              /\ overwritten_variables(block[m]) \in SUBSET VRegisters
  BY <1>1, RegistersOf DEF Lir
<1> QED
  BY <1>2 DEF Reads, Overwrites

-----------------------------------------------------------------------------
ConnectInvariant ==
  /\ phase = "split" => next = <<>>
  /\ phase # "split" => /\ next \in Seq(Seq(1 .. Len(basic_blocks)))
                        /\ Len(next) <= Len(basic_blocks)
                        /\ \A b \in DOMAIN next : next[b] = Targets(b) \o FallsThrough(b)
  /\ phase = "connect" => Len(next) = at
  /\ phase = "live" => Len(next) = Len(basic_blocks)

LEMMA ConnectInitially == ASSUME BuilderInit PROVE ConnectInvariant
BY DEF BuilderInit, BuilderStart, ConnectInvariant

LEMMA ConnectStep ==
  ASSUME NEW L, Supplied(L), SplitInvariant(Lir(L)), LabelInvariant, ConnectInvariant,
         [BuilderNext]_all
  PROVE  ConnectInvariant'
<1>1. /\ basic_blocks \in Seq(Seq(Lir(L))) /\ Len(basic_blocks) \in Nat
      /\ DOMAIN basic_blocks = 1 .. Len(basic_blocks)
      /\ phase \in {"split", "connect", "live"}
  BY DEF SplitInvariant, SplitTypeOK
<1>2. CASE SplitBehind \/ SplitBefore \/ Collect
  BY <1>2 DEF SplitBehind, SplitBefore, Collect, Splitting, ConnectInvariant
<1>3. CASE EndSplit
  <2>1. next' = <<>> /\ phase' = "connect" /\ at' = 0 /\ basic_blocks' = basic_blocks
    BY <1>3 DEF EndSplit, ConnectInvariant
  <2> QED
    BY <1>1, <2>1 DEF ConnectInvariant
<1>4. CASE ConnectBlock
  <2> DEFINE b == at + 1
             N == Len(basic_blocks)
             more == Targets(b) \o FallsThrough(b)
             T == Seq(1 .. N)
  <2>1. /\ phase = "connect" /\ phase' = "connect" /\ at' = at + 1 /\ at < N
        /\ basic_blocks' = basic_blocks /\ labels' = labels
        /\ next' = Append(next, more)
    BY <1>4 DEF ConnectBlock
  <2>2. /\ next \in Seq(T) /\ Len(next) = at
        /\ \A c \in DOMAIN next : next[c] = Targets(c) \o FallsThrough(c)
    BY <2>1 DEF ConnectInvariant
  <2>3. at \in Nat /\ b \in DOMAIN basic_blocks
    BY <1>1, <2>1, <2>2
  <2>4. more \in T
    BY <2>1, <2>3, Successors
  <2> HIDE DEF b, more, T
  <2>5. /\ next' \in Seq(T) /\ Len(next') = at + 1
        /\ \A c \in DOMAIN next' :
             (c \in DOMAIN next /\ next'[c] = next[c]) \/ (c = b /\ next'[c] = more)
    BY <2>1, <2>2, <2>3, <2>4 DEF b
  <2>6. \A c \in DOMAIN next' : next'[c] = Targets(c) \o FallsThrough(c)
    BY <2>2, <2>5 DEF more
  <2>7. \A c : Targets(c)' = Targets(c) /\ FallsThrough(c)' = FallsThrough(c)
    BY <2>1 DEF Targets, FallsThrough
  <2>8. Len(next') = at' /\ Len(next') <= Len(basic_blocks')
    BY <1>1, <2>1, <2>3, <2>5
  <2>9. next' \in Seq(Seq(1 .. Len(basic_blocks')))
    BY <2>1, <2>5 DEF T
  <2>10. \A c \in DOMAIN next' : next'[c] = Targets(c)' \o FallsThrough(c)'
    BY <2>6, <2>7
  <2> QED
    BY <2>1, <2>8, <2>9, <2>10 DEF ConnectInvariant
<1>5. CASE Calculate \/ (phase = "live" /\ UNCHANGED build) \/ UNCHANGED all
  <2>1. /\ UNCHANGED <<next, basic_blocks, labels, at>>
        /\ \/ phase = "connect" /\ phase' = "live" /\ at = Len(basic_blocks)
           \/ phase' = phase
    BY <1>5 DEF Calculate, build, all
  <2>2. \A c : Targets(c)' = Targets(c) /\ FallsThrough(c)' = FallsThrough(c)
    BY <2>1 DEF Targets, FallsThrough
  <2> QED
    BY <2>1, <2>2 DEF ConnectInvariant
<1> QED
  BY <1>2, <1>3, <1>4, <1>5 DEF BuilderNext

-----------------------------------------------------------------------------
\* The graph that Calculate hands to the sweeps.
Summary == [ size |-> Len(basic_blocks), next |-> next,
             reads |-> [b \in DOMAIN basic_blocks |-> Reads(basic_blocks[b])],
             overwrites |-> [b \in DOMAIN basic_blocks |-> Overwrites(basic_blocks[b])] ]

SweepsInvariant ==
  phase = "live" => graph = Summary /\ TypeOK /\ NeverTooLarge /\ SweepInvariant

\* What the sweeps are given is a graph.
LEMMA SummaryIsGraph ==
  ASSUME NEW L, Supplied(L), SplitInvariant(Lir(L)), ConnectInvariant,
         phase = "connect", at = Len(basic_blocks)
  PROVE  IsGraph(Summary) /\ DOMAIN basic_blocks = 1 .. Summary.size
<1> DEFINE N == Len(basic_blocks)
           Q == Seq(Lir(L))
<1>1. basic_blocks \in Seq(Q) /\ N \in Nat /\ DOMAIN basic_blocks = 1 .. N
  BY DEF SplitInvariant, SplitTypeOK
<1>2. next \in [1 .. N -> Seq(1 .. N)]
  <2> DEFINE T == Seq(1 .. N)
  <2>1. next \in Seq(T) /\ Len(next) = N
    BY DEF ConnectInvariant
  <2> HIDE DEF T
  <2>2. next \in [1 .. N -> T]
    BY <2>1
  <2> QED
    BY <2>2 DEF T
<1>3. \A b \in 1 .. N : basic_blocks[b] \in Q
  BY <1>1
<1>4. \A b \in 1 .. N : /\ Reads(basic_blocks[b]) \in SUBSET VRegisters
                        /\ Overwrites(basic_blocks[b]) \in SUBSET VRegisters
  BY <1>3, SummaryOf DEF Supplied
<1> QED
  BY <1>1, <1>2, <1>4 DEF IsGraph, Summary

\* The invariants of Liveness hold from there on.
LEMMA SweepsStep ==
  ASSUME NEW L, Supplied(L), SplitInvariant(Lir(L)), ConnectInvariant, SweepsInvariant,
         [BuilderNext]_all
  PROVE  SweepsInvariant'
<1>1. CASE SplitBehind \/ SplitBefore \/ Collect \/ EndSplit \/ ConnectBlock
  BY <1>1 DEF SplitBehind, SplitBefore, Collect, Splitting, EndSplit, ConnectBlock,
              SweepsInvariant
<1>2. CASE Calculate
  <2>1. IsGraph(Summary) /\ DOMAIN basic_blocks = 1 .. Summary.size
    BY <1>2, SummaryIsGraph DEF Calculate
  <2>2. graph' = Summary /\ UNCHANGED <<basic_blocks, next>>
    BY <1>2 DEF Calculate, Summary
  <2>3. Init'
    <3>1. graph'.size = Len(basic_blocks)
      BY <2>2 DEF Summary
    <3> QED
      BY <1>2, <2>1, <2>2, <3>1 DEF Calculate, Init, StartOf, IsGraph
  <2>4. Init' => TypeOK' /\ NeverTooLarge' /\ SweepInvariant'
    BY TypeInit, SoundInit, SweepInit, PTL
  <2>5. Summary' = Summary
    BY <2>2 DEF Summary
  <2> QED
    BY <2>2, <2>3, <2>4, <2>5 DEF SweepsInvariant
<1>3. CASE phase = "live" /\ (Next \/ UNCHANGED vars) /\ UNCHANGED build
  <2>1. /\ graph = Summary /\ TypeOK /\ NeverTooLarge /\ SweepInvariant
        /\ [Next]_vars
    BY <1>3 DEF SweepsInvariant
  <2>2. TypeOK' /\ NeverTooLarge' /\ SweepInvariant'
    BY <2>1, TypeStep, SoundStep, SweepStep
  <2>3. graph' = graph
    BY <2>1 DEF Next, Flow, PreviousBlock, NextSweep, Return, vars
  <2>4. Summary' = Summary
    BY <1>3 DEF Summary, build
  <2> QED
    BY <2>1, <2>2, <2>3, <2>4 DEF SweepsInvariant
<1>4. CASE phase # "live" /\ UNCHANGED all
  BY <1>4 DEF SweepsInvariant, all, build
<1> QED
  BY <1>1, <1>2, <1>3, <1>4 DEF BuilderNext, all

-----------------------------------------------------------------------------
BuilderInvariant(L) == /\ SplitInvariant(Lir(L))
                       /\ LabelInvariant
                       /\ ConnectInvariant
                       /\ SweepsInvariant

\* What is known when the sweeps have ended.
LEMMA WhenReady ==
  ASSUME NEW L, Supplied(L), BuilderInvariant(L), Ready
  PROVE  /\ Blocks = DOMAIN basic_blocks
         /\ \A b \in Blocks : /\ graph.reads[b] = Reads(basic_blocks[b])
                              /\ graph.overwrites[b] = Overwrites(basic_blocks[b])
                              /\ graph.next[b] = Targets(b) \o FallsThrough(b)
         /\ live_in \in [Blocks -> SUBSET VRegisters]
         /\ live_out \in [Blocks -> SUBSET VRegisters]
         /\ Solves(live_in, live_out)
         /\ NeverTooLarge
<1>1. /\ graph = Summary /\ TypeOK /\ NeverTooLarge /\ SweepInvariant
      /\ basic_blocks \in Seq(Seq(Lir(L)))
  BY DEF Ready, BuilderInvariant, SweepsInvariant, SplitInvariant, SplitTypeOK
<1>2. DOMAIN basic_blocks = 1 .. Len(basic_blocks)
  BY <1>1
<1>3. Blocks = DOMAIN basic_blocks
  BY <1>1, <1>2 DEF Blocks, Summary
<1>4. /\ \A b \in DOMAIN next : next[b] = Targets(b) \o FallsThrough(b)
      /\ DOMAIN next = 1 .. Len(basic_blocks)
  BY <1>2 DEF BuilderInvariant, ConnectInvariant, Ready
<1>5. SolvedAtEnd
  BY <1>1, SolvedWhenFinished
<1>6. Solves(live_in, live_out)
  BY <1>5 DEF SolvedAtEnd, Ready
<1>7. live_in \in [Blocks -> SUBSET VRegisters] /\ live_out \in [Blocks -> SUBSET VRegisters]
  BY <1>1 DEF TypeOK
<1>8. \A b \in Blocks : /\ graph.reads[b] = Reads(basic_blocks[b])
                        /\ graph.overwrites[b] = Overwrites(basic_blocks[b])
                        /\ graph.next[b] = next[b]
  BY <1>1, <1>3 DEF Summary
<1> QED
  BY <1>1, <1>2, <1>3, <1>4, <1>6, <1>7, <1>8

\* Inside a block what is behind an instruction is the next one.
LEMMA BehindInside ==
  ASSUME NEW L, Supplied(L), SplitInvariant(Lir(L)), phase # "split",
         NEW b \in DOMAIN basic_blocks, NEW m \in DOMAIN basic_blocks[b],
         m < Len(basic_blocks[b])
  PROVE  /\ m + 1 \in DOMAIN basic_blocks[b]
         /\ \A q : Follows(q, At(b, m)) <=> q = At(b, m + 1)
<1>1. /\ IsBlock(basic_blocks[b]) /\ Len(basic_blocks[b]) \in Nat
      /\ DOMAIN basic_blocks[b] = 1 .. Len(basic_blocks[b])
      /\ Offset(basic_blocks, b) \in Nat
  BY BlockShape
<1>2. instructions[At(b, m)] = basic_blocks[b][m]
  BY Standing DEF Supplied
<1>3. ~EndsBlock(instructions[At(b, m)])
  BY <1>1, <1>2 DEF IsBlock
<1>4. At(b, m + 1) = At(b, m) + 1
  BY <1>1 DEF At
<1> QED
  BY <1>1, <1>3, <1>4 DEF Follows, EndsBlock, IsJump

\* One step back.
LEMMA NeededBefore ==
  ASSUME NEW L, Supplied(L), SplitInvariant(Lir(L)), NEW x, NEW p \in DOMAIN instructions,
         x \notin overwritten_variables(instructions[p]),
         NEW q \in Needed(x), Follows(q, p)
  PROVE  p \in Needed(x)
<1> DEFINE n == Len(instructions)
<1>1. n \in Nat /\ DOMAIN instructions = 1 .. n
  BY SMTT(30) DEF Supplied, Closed, SplitInvariant, SplitTypeOK
<1> HIDE DEF n
<1>2. Needed(x) \in SUBSET (1 .. n) /\ Complete(Needed(x), Keepers(x), Behind)
  BY <1>1, NeededIsLeast DEF n
<1>3. q \in Places /\ p \in Places
  BY <1>1, <1>2 DEF Places
<1>4. << q, p >> \in Behind
  BY <1>3, BehindIs
<1>5. p \in Keepers(x)
  BY DEF Keepers
<1> QED
  BY <1>2, <1>4, <1>5 DEF Complete

\* x is not overwritten by the instructions m to k of block b.
Spares(x, b, m, k) ==
  \A i \in DOMAIN basic_blocks[b] :
    m <= i /\ i <= k => x \notin overwritten_variables(basic_blocks[b][i])

\* From where x is needed back to where it is not yet overwritten.
LEMMA BackInside ==
  ASSUME NEW L, Supplied(L), SplitInvariant(Lir(L)), phase # "split", NEW x,
         NEW b \in DOMAIN basic_blocks, NEW k \in DOMAIN basic_blocks[b],
         At(b, k) \in Needed(x)
  PROVE  \A m \in 1 .. k : Spares(x, b, m, k - 1) => At(b, m) \in Needed(x)
<1> DEFINE E == { j \in Nat : \A m \in 1 .. k :
                    m + j = k /\ Spares(x, b, m, k - 1) => At(b, m) \in Needed(x) }
<1>1. Len(basic_blocks[b]) \in Nat /\ DOMAIN basic_blocks[b] = 1 .. Len(basic_blocks[b])
  BY BlockShape
<1>2. k \in Nat /\ k <= Len(basic_blocks[b]) /\ k >= 1
  BY <1>1
<1>3. 0 \in E
  BY <1>2
<1>4. ASSUME NEW j \in Nat, j \in E PROVE j + 1 \in E
  <2> SUFFICES ASSUME NEW m \in 1 .. k, m + (j + 1) = k, Spares(x, b, m, k - 1)
               PROVE  At(b, m) \in Needed(x)
    OBVIOUS
  <2>1. m + 1 \in 1 .. k /\ (m + 1) + j = k /\ m \in DOMAIN basic_blocks[b] /\ m <= k - 1
    BY <1>1, <1>2
  <2>2. Spares(x, b, m + 1, k - 1)
    BY <1>1, <1>2, <2>1 DEF Spares
  <2>3. At(b, m + 1) \in Needed(x)
    BY <1>4, <2>1, <2>2
  <2>4. Follows(At(b, m + 1), At(b, m))
    <3>1. m < Len(basic_blocks[b])
      BY <1>2, <2>1
    <3>2. \A q : Follows(q, At(b, m)) <=> q = At(b, m + 1)
      BY <2>1, <3>1, BehindInside
    <3> QED
      BY <3>2
  <2>5. x \notin overwritten_variables(basic_blocks[b][m])
    BY <1>2, <2>1 DEF Spares
  <2>6. At(b, m) \in DOMAIN instructions /\ instructions[At(b, m)] = basic_blocks[b][m]
    BY <2>1, Standing DEF Supplied
  <2> QED
    BY <2>3, <2>4, <2>5, <2>6, NeededBefore
<1> HIDE DEF E
<1>5. \A j \in Nat : j \in E
  BY <1>3, <1>4, SetInduction
<1>6. ASSUME NEW m \in 1 .. k, Spares(x, b, m, k - 1) PROVE At(b, m) \in Needed(x)
  <2>1. k - m \in Nat /\ m + (k - m) = k
    BY <1>2
  <2>2. k - m \in E
    BY <1>5, <2>1
  <2> QED
    BY <1>6, <2>1, <2>2 DEF E
<1> QED
  BY <1>6

\* x is read in block b from instruction m on before it is overwritten, or is
\* live at its end and not overwritten before.
Awaited(x, b, m) ==
  \/ \E k \in DOMAIN basic_blocks[b] :
       m <= k /\ x \in read_variables(basic_blocks[b][k]) /\ Spares(x, b, m, k - 1)
  \/ x \in live_out[b] /\ Spares(x, b, m, Len(basic_blocks[b]))

\* What a block reads and overwrites, in terms of Spares.
LEMMA BlockOverwrites ==
  ASSUME NEW S, SplitInvariant(S), NEW b \in DOMAIN basic_blocks, NEW x
  PROVE  /\ x \in Overwrites(basic_blocks[b]) <=> ~Spares(x, b, 1, Len(basic_blocks[b]))
         /\ x \in Reads(basic_blocks[b])
              <=> \E k \in DOMAIN basic_blocks[b] :
                    x \in read_variables(basic_blocks[b][k]) /\ Spares(x, b, 1, k - 1)
<1> DEFINE block == basic_blocks[b]
<1>1. block \in Seq(S) /\ Len(block) \in Nat /\ DOMAIN block = 1 .. Len(block)
  BY BlockShape
<1>2. x \in Overwrites(block) <=> ~Spares(x, b, 1, Len(block))
  BY <1>1 DEF Overwrites, Spares
<1>3. ASSUME NEW k \in DOMAIN block
      PROVE  x \in Overwrites(SubSeq(block, 1, k - 1)) <=> ~Spares(x, b, 1, k - 1)
  <2> DEFINE begin == SubSeq(block, 1, k - 1)
  <2>1. /\ DOMAIN begin = 1 .. k - 1 /\ \A i \in 1 .. k - 1 : begin[i] = block[i]
        /\ 1 .. k - 1 \subseteq DOMAIN block
    BY <1>1
  <2> HIDE DEF begin
  <2>2. x \in Overwrites(begin)
          <=> \E i \in 1 .. k - 1 : x \in overwritten_variables(block[i])
    BY <2>1 DEF Overwrites
  <2>3. \A i \in DOMAIN block : 1 <= i /\ i <= k - 1 <=> i \in 1 .. k - 1
    BY <1>1
  <2> QED
    BY <2>1, <2>2, <2>3 DEF Spares, begin
<1>4. x \in Reads(block)
        <=> \E k \in DOMAIN block :
              x \in read_variables(block[k]) /\ x \notin Overwrites(SubSeq(block, 1, k - 1))
  BY DEF Reads
<1> QED
  BY <1>2, <1>3, <1>4

\* What an instruction of a block needs that no overwriting keeps from its
\* beginning is live there; the other way round in LiveIsNeeded.
LEMMA AwaitedAtBeginning ==
  ASSUME NEW L, Supplied(L), BuilderInvariant(L), Ready,
         NEW x \in VRegisters, NEW b \in Blocks, Awaited(x, b, 1)
  PROVE  x \in live_in[b]
<1>1. /\ Blocks = DOMAIN basic_blocks
      /\ graph.reads[b] = Reads(basic_blocks[b])
      /\ graph.overwrites[b] = Overwrites(basic_blocks[b])
      /\ graph.reads[b] \subseteq live_in[b]
      /\ live_out[b] \ graph.overwrites[b] \subseteq live_in[b]
  BY WhenReady DEF Solves
<1>2. /\ x \in Overwrites(basic_blocks[b]) <=> ~Spares(x, b, 1, Len(basic_blocks[b]))
      /\ x \in Reads(basic_blocks[b])
           <=> \E k \in DOMAIN basic_blocks[b] :
                 x \in read_variables(basic_blocks[b][k]) /\ Spares(x, b, 1, k - 1)
  BY <1>1, BlockOverwrites DEF BuilderInvariant
<1> QED
  BY <1>1, <1>2 DEF Awaited

\* The least set of what needs x holds no more than what awaits it.
LEMMA NeededIsAwaited ==
  ASSUME NEW L, Supplied(L), BuilderInvariant(L), Ready, NEW x \in VRegisters,
         NEW b \in Blocks, NEW m \in DOMAIN basic_blocks[b], At(b, m) \in Needed(x)
  PROVE  Awaited(x, b, m)
<1> DEFINE n == Len(instructions)
           Z == { p \in Places : \E c \in Blocks : \E k \in DOMAIN basic_blocks[c] :
                                   p = At(c, k) /\ Awaited(x, c, k) }
<1>1. n \in Nat /\ DOMAIN instructions = 1 .. n /\ Places = 1 .. n
  BY SMTT(30) DEF Supplied, Closed, BuilderInvariant, SplitInvariant, SplitTypeOK, Places
<1> HIDE DEF n
<1>2. \A Y : Readers(x) \subseteq Y /\ Complete(Y, Keepers(x), Behind) => Needed(x) \subseteq Y
  BY <1>1, NeededIsLeast DEF n
<1>3. /\ Blocks = DOMAIN basic_blocks
      /\ SplitInvariant(Lir(L)) /\ LabelInvariant /\ phase # "split" /\ Closed(Lir(L))
      /\ basic_blocks \in Seq(Seq(Lir(L)))
  BY WhenReady DEF BuilderInvariant, Ready, Supplied, SplitInvariant, SplitTypeOK
<1>4. /\ \A c \in Blocks : \A k \in DOMAIN basic_blocks[c] :
           /\ At(c, k) \in DOMAIN instructions
           /\ instructions[At(c, k)] = basic_blocks[c][k]
      /\ \A p \in DOMAIN instructions :
           \E c \in Blocks : \E k \in DOMAIN basic_blocks[c] : p = At(c, k)
  BY <1>3, Standing
<1>5. \A c \in Blocks : /\ DOMAIN basic_blocks[c] = 1 .. Len(basic_blocks[c])
                        /\ Len(basic_blocks[c]) \in Nat /\ c \in 1 .. Len(basic_blocks)
  BY <1>3, BlockShape
\* no two places are the same
<1>6. ASSUME NEW c \in Blocks, NEW k \in DOMAIN basic_blocks[c], At(c, k) \in Z
      PROVE  Awaited(x, c, k)
  <2>4. PICK d \in Blocks : \E j \in DOMAIN basic_blocks[d] : At(c, k) = At(d, j) /\ Awaited(x, d, j)
    BY <1>6
  <2>1. PICK j \in DOMAIN basic_blocks[d] : At(c, k) = At(d, j) /\ Awaited(x, d, j)
    BY <2>4
  <2>2. /\ c \in 1 .. Len(basic_blocks) /\ d \in 1 .. Len(basic_blocks)
        /\ k \in 1 .. Len(basic_blocks[c]) /\ j \in 1 .. Len(basic_blocks[d])
        /\ Offset(basic_blocks, c) + k = Offset(basic_blocks, d) + j
    BY <1>5, <2>1 DEF At
  <2>3. c = d /\ k = j
    BY <1>3, <2>2, PlaceUnique
  <2> QED
    BY <2>1, <2>3
<1>7. Readers(x) \subseteq Z
  <2> SUFFICES ASSUME NEW p \in Readers(x) PROVE p \in Z
    OBVIOUS
  <2>1. p \in Places /\ x \in read_variables(instructions[p])
    BY DEF Readers, Places
  <2>6. PICK c \in Blocks : \E k \in DOMAIN basic_blocks[c] : p = At(c, k)
    BY <1>4, <2>1 DEF Places
  <2>2. PICK k \in DOMAIN basic_blocks[c] : p = At(c, k)
    BY <2>6
  <2>3. x \in read_variables(basic_blocks[c][k])
    BY <1>4, <2>1, <2>2
  <2>4. k \in Nat /\ k <= k /\ Spares(x, c, k, k - 1)
    BY <1>5 DEF Spares
  <2>5. Awaited(x, c, k)
    BY <2>3, <2>4 DEF Awaited
  <2> QED
    BY <2>1, <2>2, <2>5
<1>8. ASSUME NEW p \in Keepers(x), NEW q \in Z, << q, p >> \in Behind PROVE p \in Z
  <2>1. p \in Places /\ q \in Places /\ x \notin overwritten_variables(instructions[p])
    BY DEF Keepers, Places
  <2>2. Follows(q, p)
    BY <1>8, <2>1, BehindIs
  <2>8. PICK c \in Blocks : \E k \in DOMAIN basic_blocks[c] : p = At(c, k)
    BY <1>4, <2>1 DEF Places
  <2>3. PICK k \in DOMAIN basic_blocks[c] : p = At(c, k)
    BY <2>8
  <2>4. x \notin overwritten_variables(basic_blocks[c][k])
    BY <1>4, <2>1, <2>3
  <2>5. k \in Nat /\ k >= 1 /\ k <= Len(basic_blocks[c])
    BY <1>5
  <2>6. CASE k < Len(basic_blocks[c])
    <3>1. k + 1 \in DOMAIN basic_blocks[c] /\ q = At(c, k + 1)
      BY <1>3, <2>2, <2>3, <2>6, BehindInside
    <3>2. Awaited(x, c, k + 1)
      BY <1>6, <3>1
    <3>3. \A j : Spares(x, c, k + 1, j) => Spares(x, c, k, j)
      BY <1>5, <2>4, <2>5 DEF Spares
    <3>4. Awaited(x, c, k)
      BY <1>5, <2>5, <3>2, <3>3 DEF Awaited
    <3> QED
      BY <2>1, <2>3, <3>4
  <2>7. CASE k = Len(basic_blocks[c])
    <3> DEFINE s == Targets(c) \o FallsThrough(c)
    <3>1. /\ s \in Seq(1 .. Len(basic_blocks))
          /\ \E j \in DOMAIN s : q = First(s[j])
      BY <1>3, <2>1, <2>2, <2>3, <2>7, Successors DEF Places
    <3> HIDE DEF s
    <3>2. PICK j \in DOMAIN s : q = First(s[j])
      BY <3>1
    <3>3. s[j] \in Blocks
      BY <1>3, <3>1
    <3>4. First(s[j]) = At(s[j], 1) /\ 1 \in DOMAIN basic_blocks[s[j]]
      BY <1>3, <3>3, Standing, BlockShape, SMTT(30)
    <3>5. Awaited(x, s[j], 1)
      BY <1>6, <3>2, <3>3, <3>4
    <3>6. x \in live_in[s[j]]
      BY <3>3, <3>5, AwaitedAtBeginning
    <3>7. x \in live_out[c]
      <4>1. graph.next[c] = s
        BY WhenReady DEF s
      <4>2. live_in[graph.next[c][j]] \subseteq live_out[c]
        BY <3>2, <4>1, WhenReady DEF Solves
      <4> QED
        BY <3>6, <4>1, <4>2
    <3>8. Spares(x, c, k, Len(basic_blocks[c]))
      BY <1>5, <2>4, <2>5, <2>7 DEF Spares
    <3>9. Awaited(x, c, k)
      BY <3>7, <3>8 DEF Awaited
    <3> QED
      BY <2>1, <2>3, <3>9
  <2> QED
    BY <2>5, <2>6, <2>7
<1> HIDE DEF Z
<1>9. Needed(x) \subseteq Z
  BY <1>2, <1>7, <1>8 DEF Complete
<1> QED
  BY <1>6, <1>9

\* What is read further on in the block, or needed behind its end, is needed.
LEMMA NeededFromReader ==
  ASSUME NEW L, Supplied(L), SplitInvariant(Lir(L)), phase # "split", NEW x,
         NEW b \in DOMAIN basic_blocks, NEW k \in DOMAIN basic_blocks[b], NEW m \in 1 .. k,
         x \in read_variables(basic_blocks[b][k]), Spares(x, b, m, k - 1)
  PROVE  At(b, m) \in Needed(x)
<1> DEFINE n == Len(instructions)
<1>1. n \in Nat /\ DOMAIN instructions = 1 .. n
  BY SMTT(30) DEF Supplied, Closed, SplitInvariant, SplitTypeOK
<1> HIDE DEF n
<1>2. Readers(x) \subseteq Needed(x)
  BY <1>1, NeededIsLeast DEF n
<1>3. At(b, k) \in DOMAIN instructions /\ instructions[At(b, k)] = basic_blocks[b][k]
  BY Standing DEF Supplied
<1>4. At(b, k) \in Needed(x)
  BY <1>2, <1>3 DEF Readers
<1> QED
  BY <1>4, BackInside

\* The same from what is behind the end of the block.
LEMMA NeededFromEnd ==
  ASSUME NEW L, Supplied(L), SplitInvariant(Lir(L)), phase # "split", NEW x,
         NEW b \in DOMAIN basic_blocks, NEW m \in DOMAIN basic_blocks[b],
         NEW q \in Needed(x), Follows(q, At(b, Len(basic_blocks[b]))),
         Spares(x, b, m, Len(basic_blocks[b]))
  PROVE  At(b, m) \in Needed(x)
<1> DEFINE k == Len(basic_blocks[b])
<1>1. k \in DOMAIN basic_blocks[b] /\ k \in Nat /\ DOMAIN basic_blocks[b] = 1 .. k
  BY BlockShape
<1> HIDE DEF k
<1>2. x \notin overwritten_variables(basic_blocks[b][k])
  BY <1>1 DEF Spares, k
<1>3. At(b, k) \in DOMAIN instructions /\ instructions[At(b, k)] = basic_blocks[b][k]
  BY <1>1, Standing DEF Supplied
<1>4. At(b, k) \in Needed(x)
  BY <1>2, <1>3, NeededBefore DEF k
<1>5. m \in 1 .. k /\ Spares(x, b, m, k - 1)
  BY <1>1 DEF Spares, k
<1> QED
  BY <1>1, <1>4, <1>5, BackInside

\* What is needed at the beginnings and behind the ends of blocks solves the
\* equations of the sweeps.
In  == [ b \in Blocks |-> { x \in VRegisters : First(b) \in Needed(x) } ]
Out == [ b \in Blocks |-> { x \in VRegisters :
           \E q \in Needed(x) : Follows(q, At(b, Len(basic_blocks[b]))) } ]

\* What is needed at the ends of blocks solves the equations of Liveness.
LEMMA NeededSolves ==
  ASSUME NEW L, Supplied(L), BuilderInvariant(L), Ready
  PROVE  Solves(In, Out)
<1>1. /\ Blocks = DOMAIN basic_blocks
      /\ SplitInvariant(Lir(L)) /\ LabelInvariant /\ phase # "split" /\ Closed(Lir(L))
  BY WhenReady DEF BuilderInvariant, Ready, Supplied
<1> SUFFICES ASSUME NEW b \in Blocks
             PROVE  /\ graph.reads[b] \subseteq In[b]
                    /\ Out[b] \ graph.overwrites[b] \subseteq In[b]
                    /\ \A j \in DOMAIN graph.next[b] : In[graph.next[b][j]] \subseteq Out[b]
  BY DEF Solves
<1>2. /\ graph.reads[b] = Reads(basic_blocks[b])
      /\ graph.overwrites[b] = Overwrites(basic_blocks[b])
      /\ graph.next[b] = Targets(b) \o FallsThrough(b)
  BY WhenReady
<1>3. /\ 1 \in DOMAIN basic_blocks[b] /\ DOMAIN basic_blocks[b] = 1 .. Len(basic_blocks[b])
      /\ basic_blocks[b] \in Seq(Lir(L))
  BY <1>1, BlockShape
<1>4. First(b) = At(b, 1)
  BY <1>1, Standing
<1>5. \A x : /\ x \in Overwrites(basic_blocks[b]) <=> ~Spares(x, b, 1, Len(basic_blocks[b]))
             /\ x \in Reads(basic_blocks[b])
                  <=> \E k \in DOMAIN basic_blocks[b] :
                        x \in read_variables(basic_blocks[b][k]) /\ Spares(x, b, 1, k - 1)
  BY <1>1, BlockOverwrites
<1>6. graph.reads[b] \subseteq In[b]
  <2> SUFFICES ASSUME NEW x \in graph.reads[b] PROVE x \in In[b]
    OBVIOUS
  <2>1. x \in VRegisters
    BY <1>2, <1>3, SummaryOf DEF Supplied
  <2>2. PICK k \in DOMAIN basic_blocks[b] :
          x \in read_variables(basic_blocks[b][k]) /\ Spares(x, b, 1, k - 1)
    BY <1>2, <1>5
  <2>3. 1 \in 1 .. k
    BY <1>3
  <2>4. At(b, 1) \in Needed(x)
    BY <1>1, <2>2, <2>3, NeededFromReader
  <2> QED
    BY <1>4, <2>1, <2>4 DEF In
<1>7. Out[b] \ graph.overwrites[b] \subseteq In[b]
  <2> SUFFICES ASSUME NEW x \in Out[b] \ graph.overwrites[b] PROVE x \in In[b]
    OBVIOUS
  <2>1. Spares(x, b, 1, Len(basic_blocks[b]))
    BY <1>2, <1>5
  <2>2. /\ x \in VRegisters
        /\ \E q \in Needed(x) : Follows(q, At(b, Len(basic_blocks[b])))
    BY DEF Out
  <2>3. At(b, 1) \in Needed(x)
    BY <1>1, <1>3, <2>1, <2>2, NeededFromEnd
  <2> QED
    BY <1>4, <2>2, <2>3 DEF In
<1>8. ASSUME NEW j \in DOMAIN graph.next[b] PROVE In[graph.next[b][j]] \subseteq Out[b]
  <2> DEFINE s == Targets(b) \o FallsThrough(b)
  <2>1. /\ s \in Seq(1 .. Len(basic_blocks))
        /\ \A q \in DOMAIN instructions :
             Follows(q, At(b, Len(basic_blocks[b]))) <=> \E i \in DOMAIN s : q = First(s[i])
    BY <1>1, Successors
  <2>2. graph.next[b] = s
    BY <1>2
  <2> HIDE DEF s
  <2>3. s[j] \in Blocks /\ j \in DOMAIN s
    <3>1. DOMAIN basic_blocks = 1 .. Len(basic_blocks)
      BY <1>1 DEF SplitInvariant, SplitTypeOK
    <3> QED
      BY <1>1, <1>8, <2>1, <2>2, <3>1
  <2>4. First(s[j]) \in DOMAIN instructions
    BY <1>1, <2>3, Standing, BlockShape
  <2>5. Follows(First(s[j]), At(b, Len(basic_blocks[b])))
    BY <2>1, <2>3, <2>4
  <2>6. In[s[j]] \subseteq Out[b]
    BY <2>3, <2>5 DEF In, Out
  <2> QED
    BY <2>2, <2>6
<1> QED
  BY <1>6, <1>7, <1>8

\* So the least solution holds no more than that.
LEMMA LiveIsNeeded ==
  ASSUME NEW L, Supplied(L), BuilderInvariant(L), Ready, NEW x, NEW b \in Blocks
  PROVE  /\ x \in live_in[b] => First(b) \in Needed(x)
         /\ x \in live_out[b]
              => \E q \in Needed(x) : Follows(q, At(b, Len(basic_blocks[b])))
<1>1. In \in [Blocks -> SUBSET VRegisters] /\ Out \in [Blocks -> SUBSET VRegisters]
  BY DEF In, Out
<1>2. live_in[b] \subseteq In[b] /\ live_out[b] \subseteq Out[b]
  BY <1>1, NeededSolves, WhenReady DEF NeverTooLarge
<1> QED
  BY <1>2 DEF In, Out

\* And no less: NeededIsAwaited.
LEMMA LiveSetsExact ==
  ASSUME NEW L, Supplied(L), BuilderInvariant(L)
  PROVE  LiveExactly
<1> SUFFICES ASSUME Ready, NEW x \in VRegisters, NEW b \in Blocks
             PROVE  x \in live_in[b] <=> First(b) \in Needed(x)
  BY DEF LiveExactly, Needed
<1>1. b \in DOMAIN basic_blocks /\ SplitInvariant(Lir(L)) /\ phase # "split" /\ Closed(Lir(L))
  BY WhenReady DEF BuilderInvariant, Ready, Supplied
<1>2. First(b) = At(b, 1) /\ 1 \in DOMAIN basic_blocks[b]
  BY <1>1, Standing, BlockShape
<1>3. x \in live_in[b] => First(b) \in Needed(x)
  BY LiveIsNeeded
<1>4. First(b) \in Needed(x) => x \in live_in[b]
  BY <1>2, NeededIsAwaited, AwaitedAtBeginning
<1> QED
  BY <1>3, <1>4

LEMMA BuilderInitially ==
  ASSUME NEW L, Supplied(L), BuilderInit
  PROVE  BuilderInvariant(L)
<1>1. SplitInvariant(Lir(L))
  BY SplitInitially DEF Supplied
<1>2. LabelInvariant /\ ConnectInvariant
  BY LabelsInitially, ConnectInitially
<1>3. SweepsInvariant
  BY DEF BuilderInit, BuilderStart, SweepsInvariant
<1> QED
  BY <1>1, <1>2, <1>3 DEF BuilderInvariant

\* Every step of the builder keeps the whole invariant.
LEMMA BuilderStep ==
  ASSUME NEW L, Supplied(L), BuilderInvariant(L), [BuilderNext]_all
  PROVE  BuilderInvariant(L)'
<1>1. Closed(Lir(L)) /\ SplitInvariant(Lir(L)) /\ LabelInvariant /\ ConnectInvariant
      /\ SweepsInvariant
  BY DEF Supplied, BuilderInvariant
<1>2. SplitInvariant(Lir(L))'
  BY <1>1, SplitStep
<1>3. LabelInvariant'
  BY <1>1, LabelsStep
<1>4. ConnectInvariant'
  BY <1>1, ConnectStep
<1>5. SweepsInvariant'
  BY <1>1, SweepsStep
<1> QED
  BY <1>2, <1>3, <1>4, <1>5 DEF BuilderInvariant

(* Splitting, connecting, the summaries of blocks and the sweeps together   *)
(* compute for each block exactly the registers that some path from its     *)
(* first instruction reads before it overwrites them, for all sequences of  *)
(* instructions that end with a jump or a HALT and in which each label that *)
(* is jumped to stands in one place.                                        *)
THEOREM ComputesLiveExactly ==
  ASSUME NEW L, Supplied(L)
  PROVE  BuilderSpec => []LiveExactly
<1>1. BuilderInit => BuilderInvariant(L)
  BY BuilderInitially
<1>2. BuilderInvariant(L) /\ [BuilderNext]_all => BuilderInvariant(L)'
  BY BuilderStep
<1>3. BuilderInvariant(L) => LiveExactly
  BY LiveSetsExact
<1> QED
  BY <1>1, <1>2, <1>3, PTL DEF BuilderSpec
=============================================================================
