-------------------------- MODULE AllocationProofs --------------------------
(***************************************************************************)
(* Colouring on every graph, and the allocator around it on every program. *)
(*                                                                         *)
(* Part 1, one attempt at colouring: registers with few neighbours that    *)
(* are live together never share one, and none is spilled that the graph   *)
(* does not force to be.                                                   *)
(*                                                                         *)
(* Part 2, allocate_registers: the sets of live registers are exact when   *)
(* the graph is built from them, the first graph joins exactly the         *)
(* registers that hold a value at once, and both results of part 1 hold in *)
(* every round, whatever has been spilled before it.                       *)
(***************************************************************************)
EXTENDS Allocation, CfgProofs

\* What an Append leaves on the stack.
LEMMA Pushing ==
  ASSUME NEW S, NEW s \in Seq(S), NEW e \in S
  PROVE  LET longer == Append(s, e)
         IN /\ longer \in Seq(S)
            /\ \A k \in 1 .. Len(s) : k \in 1 .. Len(longer) /\ longer[k] = s[k]
            /\ Len(longer) \in 1 .. Len(longer) /\ longer[Len(longer)] = e
OBVIOUS

\* The first n elements, as a sequence.
LEMMA Prefix ==
  ASSUME NEW S, NEW s, NEW n \in Nat, \A k \in 1 .. n : s[k] \in S
  PROVE  /\ SubSeq(s, 1, n) \in Seq(S)
         /\ Len(SubSeq(s, 1, n)) = n
         /\ \A k \in 1 .. n : SubSeq(s, 1, n)[k] = s[k]
<1>1. SubSeq(s, 1, n) \in Seq(S)
  OBVIOUS
<1>2. Len(SubSeq(s, 1, n)) = n
  OBVIOUS
<1>3. \A k \in 1 .. n : SubSeq(s, 1, n)[k] = s[k]
  OBVIOUS
<1> QED
  BY <1>1, <1>2, <1>3

\* Taking the top off.
LEMMA Popping ==
  ASSUME NEW S, NEW s \in Seq(S), s # <<>>
  PROVE  LET shorter == SubSeq(s, 1, Len(s) - 1)
         IN /\ s[Len(s)] \in S
            /\ shorter \in Seq(S)
            /\ Len(shorter) = Len(s) - 1
            /\ \A k \in 1 .. Len(s) - 1 : shorter[k] = s[k]
<1> DEFINE n == Len(s) - 1
<1>1. n \in Nat /\ Len(s) \in 1 .. Len(s) /\ \A k \in 1 .. n : k \in 1 .. Len(s)
  BY EmptySeq
<1>2. \A k \in 1 .. Len(s) : s[k] \in S
  BY ElementOfSeq
<1>3. /\ SubSeq(s, 1, n) \in Seq(S)
      /\ Len(SubSeq(s, 1, n)) = n
      /\ \A k \in 1 .. n : SubSeq(s, 1, n)[k] = s[k]
  <2> HIDE DEF n
  <2>1. \A k \in 1 .. n : s[k] \in S
    BY <1>1, <1>2
  <2> QED
    BY <1>1, <2>1, Prefix
<1> QED
  BY <1>1, <1>2, <1>3

\* The steps that only change what the loops are at.
LEMMA SameGraph ==
  ASSUME UNCHANGED <<next_vregister_id, neighbours>>
  PROVE  /\ Nodes' = Nodes /\ Virtual' = Virtual /\ IsInterference' = IsInterference
         /\ \A x : Crowded(x)' = Crowded(x)
BY DEF Nodes, Virtual, IsInterference, Crowded

-----------------------------------------------------------------------------
\* The relation holds when an attempt begins.
LEMMA ColourInitially == ColourInit => ColourInvariant
<1> SUFFICES ASSUME ColourInit PROVE ColourInvariant
  OBVIOUS
<1> USE DegAssumption DEF ColourInit, ColourStart, Nodes, Virtual, Colours
<1>1. ColourTypeOK
  BY DEF ColourTypeOK
<1>2. TakenInOrder
  BY DEF TakenInOrder
<1>3. NothingLost
  BY DEF NothingLost
<1>4. NoClash
  BY DEF NoClash
<1> QED
  BY <1>1, <1>2, <1>3, <1>4 DEF ColourInvariant

\* The first loop takes registers off in the order of their numbers.
LEMMA PushKeeps ==
  ASSUME ColourInvariant, Push
  PROVE  ColourInvariant'
<1> PICK x \in Virtual : /\ Chosen(x)
                         /\ active_nodes' = [active_nodes EXCEPT ![x] = FALSE]
                         /\ stack' = Append(stack, x)
  BY DEF Push
<1>1. /\ pass = "push" /\ pass' = "push" /\ active_nodes_count > 0
      /\ active_nodes_count' = active_nodes_count - 1
      /\ UNCHANGED <<next_vregister_id, neighbours, assigned_registers>>
  BY DEF Push
<1>2. ColourTypeOK
  BY DEF ColourInvariant
<1>3. stack \in Seq(Virtual) /\ x # 0 /\ x \in Nodes
  BY <1>2 DEF ColourTypeOK, Virtual, Nodes
<1>4. /\ stack' \in Seq(Virtual)
      /\ \A k \in 1 .. Len(stack) : k \in 1 .. Len(stack') /\ stack'[k] = stack[k]
      /\ Len(stack') \in 1 .. Len(stack') /\ stack'[Len(stack')] = x
  BY <1>3, Pushing
<1>5. ColourTypeOK'
  BY <1>1, <1>2, <1>3, <1>4, SameGraph DEF ColourTypeOK, Nodes
<1>6. TakenInOrder'
  <2> SUFFICES ASSUME NEW y \in Virtual, Candidate(y)'
               PROVE  y > next_vregister_id - active_nodes_count'
    BY <1>1, SameGraph DEF TakenInOrder
  <2>1. Candidate(y) /\ y # x
    BY <1>1, <1>2, <1>3, SameGraph DEF Candidate, ColourTypeOK
  <2>2. Candidate(x) /\ x <= y
    BY <2>1 DEF Chosen
  <2>3. x > next_vregister_id - active_nodes_count
    BY <1>1, <2>2 DEF ColourInvariant, TakenInOrder
  <2> QED
    BY <1>1, <1>2, <2>1, <2>2, <2>3 DEF ColourTypeOK, Virtual
<1>7. NothingLost'
  <2>1. ASSUME NEW y \in Virtual PROVE active_nodes'[y] \/ OnStack(y)'
    <3>1. CASE y = x
      BY <1>4, <3>1 DEF OnStack
    <3>2. CASE y # x
      <4>1. active_nodes[y] \/ OnStack(y)
        BY DEF ColourInvariant, NothingLost
      <4>2. active_nodes'[y] = active_nodes[y]
        BY <1>2, <3>2 DEF ColourTypeOK, Virtual, Nodes
      <4>3. OnStack(y) => OnStack(y)'
        BY <1>4 DEF OnStack
      <4> QED
        BY <4>1, <4>2, <4>3
    <3> QED
      BY <3>1, <3>2
  <2> QED
    BY <1>1, <2>1, SameGraph DEF NothingLost
<1>8. NoClash'
  BY <1>1, <1>2, SameGraph DEF ColourInvariant, NoClash, ColourTypeOK, IsInterference, Nodes
<1> QED
  BY <1>5, <1>6, <1>7, <1>8 DEF ColourInvariant

\* The second loop gives the top a colour that no active neighbour has.
LEMMA PopKeeps ==
  ASSUME ColourInvariant, Pop
  PROVE  ColourInvariant'
<1> DEFINE x == Top
<1> PICK c \in Free(x) : assigned_registers' = [assigned_registers EXCEPT ![x] = c]
  BY DEF Pop
<1>1. /\ pass = "pop" /\ pass' = "pop" /\ stack # <<>>
      /\ active_nodes' = [active_nodes EXCEPT ![x] = TRUE]
      /\ stack' = SubSeq(stack, 1, Len(stack) - 1)
      /\ UNCHANGED <<next_vregister_id, neighbours, active_nodes_count>>
  BY DEF Pop, Popped
<1>2. ColourTypeOK
  BY DEF ColourInvariant
<1>3. /\ x \in Virtual
      /\ stack' \in Seq(Virtual)
      /\ Len(stack') = Len(stack) - 1
      /\ \A k \in 1 .. Len(stack) - 1 : stack'[k] = stack[k]
  BY <1>1, <1>2, Popping DEF ColourTypeOK, Top
<1>4. x \in Nodes /\ x # 0 /\ Len(stack) \in Nat /\ Len(stack) >= 1
  BY <1>1, <1>2, <1>3 DEF Virtual, Nodes, ColourTypeOK
<1>5. /\ c \in Colours /\ c # 0
      /\ \A y \in neighbours[x] : active_nodes[y] => assigned_registers[y] # c
  BY DEF Free
<1>6. ColourTypeOK'
  BY <1>1, <1>2, <1>3, <1>4, <1>5, SameGraph DEF ColourTypeOK, Colours
<1>7. TakenInOrder'
  BY <1>1 DEF TakenInOrder
<1>8. NothingLost'
  <2>1. ASSUME NEW y \in Virtual PROVE active_nodes'[y] \/ OnStack(y)'
    <3>1. CASE y = x
      BY <1>1, <1>2, <1>4, <3>1 DEF ColourTypeOK
    <3>2. CASE y # x
      <4>1. active_nodes[y] \/ OnStack(y)
        BY DEF ColourInvariant, NothingLost
      <4>2. active_nodes'[y] = active_nodes[y]
        BY <1>1, <1>2, <3>2 DEF ColourTypeOK, Virtual, Nodes
      <4>3. ASSUME OnStack(y) PROVE OnStack(y)'
        <5>1. PICK k \in 1 .. Len(stack) : stack[k] = y
          BY <4>3 DEF OnStack
        <5>2. k # Len(stack)
          BY <3>2, <5>1 DEF Top
        <5>3. k \in 1 .. Len(stack') /\ stack'[k] = y
          BY <1>3, <1>4, <5>1, <5>2
        <5> QED
          BY <5>3 DEF OnStack
      <4> QED
        BY <4>1, <4>2, <4>3
    <3> QED
      BY <3>1, <3>2
  <2>2. ASSUME NEW y \in Virtual, active_nodes'[y]
        PROVE  Crowded(y) \/ assigned_registers'[y] # 0
    <3>1. CASE y = x
      BY <1>2, <1>4, <1>5, <3>1 DEF ColourTypeOK
    <3>2. CASE y # x
      BY <1>1, <1>2, <2>2, <3>2 DEF ColourInvariant, NothingLost, ColourTypeOK, Virtual, Nodes
    <3> QED
      BY <3>1, <3>2
  <2> QED
    BY <1>1, <2>1, <2>2, SameGraph DEF NothingLost
<1>9. NoClash'
  <2> SUFFICES ASSUME NEW y \in Nodes, NEW z \in neighbours[y],
                      active_nodes'[y], active_nodes'[z], assigned_registers'[y] # 0
               PROVE  assigned_registers'[y] # assigned_registers'[z]
    BY <1>1, SameGraph DEF NoClash
  <2>1. z \in Nodes /\ y # z /\ y \in neighbours[z]
    BY <1>2 DEF ColourTypeOK, IsInterference
  <2>2. /\ \A w \in Nodes : w # x => /\ active_nodes'[w] = active_nodes[w]
                                     /\ assigned_registers'[w] = assigned_registers[w]
        /\ assigned_registers'[x] = c
    BY <1>1, <1>2, <1>4 DEF ColourTypeOK
  <2>3. CASE y = x
    BY <1>5, <2>1, <2>2, <2>3
  <2>4. CASE z = x
    BY <1>5, <2>1, <2>2, <2>4
  <2>5. CASE y # x /\ z # x
    BY <2>1, <2>2, <2>5 DEF ColourInvariant, NoClash
  <2> QED
    BY <2>3, <2>4, <2>5
<1> QED
  BY <1>6, <1>7, <1>8, <1>9 DEF ColourInvariant

\* The steps between the loops change neither the registers nor the stack.
LEMMA RestKeeps ==
  ASSUME ColourInvariant, PushNothing \/ EndPush \/ GiveUp \/ EndPop \/ UNCHANGED colour
  PROVE  ColourInvariant'
<1>1. UNCHANGED <<next_vregister_id, neighbours, active_nodes_count, active_nodes,
                  stack, assigned_registers>>
  BY DEF PushNothing, EndPush, GiveUp, EndPop, colour
<1>2. ColourTypeOK
  BY DEF ColourInvariant
<1>3. ColourTypeOK'
  BY <1>1, <1>2, SameGraph DEF PushNothing, EndPush, GiveUp, EndPop, colour, ColourTypeOK
<1>4. TakenInOrder'
  BY <1>1, SameGraph
     DEF PushNothing, EndPush, GiveUp, EndPop, colour, ColourInvariant, TakenInOrder, Candidate
<1>5. NothingLost'
  <2>1. \A x \in Virtual : active_nodes'[x] \/ OnStack(x)'
    BY <1>1 DEF ColourInvariant, NothingLost, OnStack
  <2>2. ASSUME pass' \in {"pop", "coloured"}, NEW x \in Virtual, active_nodes'[x]
        PROVE  Crowded(x) \/ assigned_registers'[x] # 0
    <3>1. CASE EndPush
      <4>1. pass = "push" /\ active_nodes_count = 0
        BY <3>1 DEF EndPush
      <4>2. Candidate(x) => x > next_vregister_id - 0
        BY <4>1 DEF ColourInvariant, TakenInOrder
      <4>3. ~Candidate(x)
        BY <1>2, <4>2 DEF ColourTypeOK, Virtual
      <4> QED
        BY <1>1, <2>2, <4>3 DEF Candidate
    <3>2. CASE PushNothing \/ GiveUp \/ EndPop \/ UNCHANGED colour
      BY <1>1, <2>2, <3>2
         DEF PushNothing, GiveUp, EndPop, colour, ColourInvariant, NothingLost
    <3> QED
      BY <3>1, <3>2
  <2> QED
    BY <1>1, <2>1, <2>2, SameGraph DEF NothingLost
<1>6. NoClash'
  BY <1>1, SameGraph DEF PushNothing, EndPush, GiveUp, EndPop, colour, ColourInvariant, NoClash
<1> QED
  BY <1>3, <1>4, <1>5, <1>6 DEF ColourInvariant

(* The registers and the stack of try_color_graph stand in the stated       *)
(* relation at every iteration, on every graph.                             *)
THEOREM ColourInvariantHolds == ColourSpec => []ColourInvariant
<1>1. ColourInvariant /\ [ColourNext]_colour => ColourInvariant'
  BY PushKeeps, PopKeeps, RestKeeps DEF ColourNext, ColourStep
<1> QED
  BY ColourInitially, <1>1, PTL DEF ColourSpec

\* When an attempt has succeeded every register has been coloured and is active.
LEMMA InvariantIsProper == ColourInvariant => ColouringIsProper
<1> SUFFICES ASSUME ColourInvariant, pass = "coloured", NEW x \in Virtual, ~Crowded(x)
             PROVE  /\ assigned_registers[x] \in Colours \ {0}
                    /\ \A y \in neighbours[x] :
                         assigned_registers[y] # assigned_registers[x]
  BY DEF ColouringIsProper
<1>1. ColourTypeOK /\ x \in Nodes
  BY DEF ColourInvariant, Virtual, Nodes, ColourTypeOK
<1>2. \A y \in Virtual : ~OnStack(y)
  BY <1>1 DEF ColourTypeOK, OnStack
<1>3. \A y \in Virtual : active_nodes[y]
  BY <1>2 DEF ColourInvariant, NothingLost
<1>4. \A y \in Nodes : active_nodes[y]
  BY <1>1, <1>3 DEF ColourTypeOK, Nodes, Virtual
<1>5. assigned_registers[x] # 0
  BY <1>3 DEF ColourInvariant, NothingLost
<1>6. \A y \in neighbours[x] : y \in Nodes
  BY <1>1 DEF ColourTypeOK, IsInterference
<1> QED
  BY <1>1, <1>4, <1>5, <1>6 DEF ColourInvariant, NoClash, ColourTypeOK

(* When an attempt succeeds, no two registers with few neighbours that are  *)
(* live together have the same register, and none has the accumulator.      *)
THEOREM ColouringComputes == ColourSpec => []ColouringIsProper
BY ColourInvariantHolds, InvariantIsProper, PTL

-----------------------------------------------------------------------------
\* If every register but the accumulator is some neighbour's, there are as
\* many neighbours.
LEMMA NoneFree ==
  ASSUME ColourTypeOK, stack # <<>>, Free(Top) = {}
  PROVE  Cardinality(neighbours[Top] \ {0}) >= Deg - 1
<1> DEFINE Others == neighbours[Top] \ {0}
           Used == { y \in Others : assigned_registers[y] \in 1 .. Deg - 1 }
           f == [y \in Used |-> assigned_registers[y]]
<1>1. Top \in Nodes /\ neighbours[Top] \subseteq Nodes /\ next_vregister_id \in Nat
  BY Popping DEF ColourTypeOK, IsInterference, Top, Virtual, Nodes
<1>2. IsFiniteSet(Nodes)
  BY <1>1, FS_Interval DEF Nodes
<1>3. IsFiniteSet(Others)
  BY <1>1, <1>2, FS_Subset
<1>4. IsFiniteSet(Used) /\ Cardinality(Used) <= Cardinality(Others)
  BY <1>3, FS_Subset
<1>5. \A c \in 1 .. Deg - 1 : \E y \in Used : f[y] = c
  <2> SUFFICES ASSUME NEW c \in 1 .. Deg - 1 PROVE \E y \in Used : f[y] = c
    OBVIOUS
  <2>1. c \in Colours \ {0}
    BY DegAssumption DEF Colours
  <2>2. PICK y \in neighbours[Top] : assigned_registers[y] = c
    BY <2>1 DEF Free
  <2>3. y # 0
    BY <2>1, <2>2 DEF ColourTypeOK
  <2> QED
    BY <2>2, <2>3
<1>6. f \in Surjection(Used, 1 .. Deg - 1)
  BY <1>5 DEF Surjection
<1>7. Cardinality(1 .. Deg - 1) <= Cardinality(Used)
  BY <1>4, <1>6, FS_Surjection
<1>8. Cardinality(1 .. Deg - 1) = Deg - 1
  BY DegAssumption, FS_Interval
<1>9. Cardinality(Used) \in Nat /\ Cardinality(Others) \in Nat
  BY <1>3, <1>4, FS_CardinalityType
<1> QED
  BY <1>4, <1>7, <1>8, <1>9, DegAssumption

\* A register is given up because it has neighbours.
GaveUp == pass = "spill" => stack # <<>> /\ Cardinality(neighbours[Top] \ {0}) >= Deg - 1

\* No step gives one up that has fewer.
LEMMA GaveUpStep ==
  ASSUME ColourInvariant, GaveUp, [ColourNext]_colour
  PROVE  GaveUp'
<1> SUFFICES ASSUME pass' = "spill"
             PROVE  stack' # <<>> /\ Cardinality((neighbours[Top])' \ {0}) >= Deg - 1
  BY DEF GaveUp
<1>1. CASE GiveUp
  <2>1. Cardinality(neighbours[Top] \ {0}) >= Deg - 1
    BY <1>1, NoneFree DEF ColourInvariant, GiveUp
  <2> QED
    BY <1>1, <2>1 DEF GiveUp, Top
<1>2. CASE UNCHANGED colour
  BY <1>2 DEF colour, GaveUp, Top
<1>3. CASE Push \/ PushNothing \/ EndPush \/ Pop \/ EndPop
  BY <1>3 DEF Push, PushNothing, EndPush, Pop, EndPop
<1> QED
  BY <1>1, <1>2, <1>3 DEF ColourNext, ColourStep

(* A register is given up for spilling only if it has as many neighbours    *)
(* besides the accumulator as there are registers besides the accumulator.  *)
THEOREM SpillsOnlyWhenCrowded == ColourSpec => []SpillsWhenCrowded
<1>1. ColourInit => GaveUp
  BY DEF ColourInit, ColourStart, GaveUp
<1>2. GaveUp => SpillsWhenCrowded
  BY DEF GaveUp, SpillsWhenCrowded
<1> QED
  BY ColourInvariantHolds, <1>1, <1>2, GaveUpStep, PTL DEF ColourSpec

-----------------------------------------------------------------------------
\* The builder's invariant holds on, and what it has built stays as it is.
BuiltInvariant(L) == /\ BuilderInvariant(L)
                     /\ pass # "none" => Ready

\* It holds before a step is taken.
LEMMA BuiltInitially ==
  ASSUME NEW L, Supplied(L), BuilderInit, pass = "none"
  PROVE  BuiltInvariant(L)
BY BuilderInitially DEF BuiltInvariant

\* No step of the allocator undoes it.
LEMMA BuiltStep ==
  ASSUME NEW L, Supplied(L), BuiltInvariant(L), [AllocationStep]_working
  PROVE  BuiltInvariant(L)'
<1>1. [BuilderNext]_all
  BY DEF AllocationStep, Build, Allocate, Colour, Spill, FailToSpill, working
<1>2. BuilderInvariant(L)'
  BY <1>1, BuilderStep DEF BuiltInvariant
<1>3. CASE UNCHANGED all
  <2>1. Ready => Ready'
    BY <1>3 DEF all, vars, live, build, Ready, Finished
  <2>2. pass' # "none" => pass # "none" \/ Ready
    BY DEF AllocationStep, Build, Allocate, Colour, Spill, FailToSpill, working, colour,
           ColourStep, Push, PushNothing, EndPush, Pop, GiveUp, EndPop
  <2> QED
    BY <1>2, <2>1, <2>2 DEF BuiltInvariant
<1>4. CASE ~UNCHANGED all
  <2>1. pass' = "none"
    BY <1>4 DEF AllocationStep, Build, Allocate, Colour, Spill, FailToSpill, working, colour
  <2> QED
    BY <1>2, <2>1 DEF BuiltInvariant
<1> QED
  BY <1>3, <1>4

\* What the allocator looks at when the graph is built is exactly what is
\* needed: LiveWhenBuilt, for every program the builder may be given.
THEOREM AllocatesOnExactSets ==
  ASSUME NEW L, Supplied(L)
  PROVE  AllocationSpec => []LiveWhenBuilt
<1>1. AllocationSpec => []BuiltInvariant(L)
  <2>1. BuilderInit /\ (\E count \in Nat \ {0}, memory \in Nat :
                          AllocationInit(count, memory, "none")) => BuiltInvariant(L)
    BY BuiltInitially DEF AllocationInit
  <2>2. BuiltInvariant(L) /\ [AllocationStep]_working => BuiltInvariant(L)'
    BY BuiltStep
  <2> QED
    BY <2>1, <2>2, PTL DEF AllocationSpec
<1>2. BuiltInvariant(L) => LiveWhenBuilt
  BY LiveSetsExact DEF BuiltInvariant, LiveWhenBuilt
<1> QED
  BY <1>1, <1>2, PTL

-----------------------------------------------------------------------------
\* x is read in the block from instruction m on before it is overwritten, or is
\* live at the end of the block and not overwritten before.
KeptIn(code, x, m, k) == \A i \in m .. k : x \notin overwritten_variables(code[i])
AwaitedIn(block, x, m) ==
  \/ \E k \in m .. Len(block.code) :
       x \in read_variables(block.code[k]) /\ KeptIn(block.code, x, m, k - 1)
  \/ x \in block.live_out /\ KeptIn(block.code, x, m, Len(block.code))

\* The function by which Alive goes back through the block.
WalksBack(f, block) ==
  f = [n \in 1 .. Len(block.code) + 1 |->
         IF n > Len(block.code) THEN block.live_out
         ELSE LET c == block.code[n]
              IN (f[n + 1] \ overwritten_variables(c)) \cup read_variables(c)]

\* It exists: what is awaited at each instruction is one.
LEMMA AwaitedBefore ==
  ASSUME NEW block, Len(block.code) \in Nat, NEW n \in 1 .. Len(block.code), NEW x
  PROVE  AwaitedIn(block, x, n)
           <=> \/ AwaitedIn(block, x, n + 1) /\ x \notin overwritten_variables(block.code[n])
               \/ x \in read_variables(block.code[n])
<1> DEFINE code == block.code
           N == Len(code)
<1>1. \A k \in n .. N : KeptIn(code, x, n, k)
         <=> x \notin overwritten_variables(code[n]) /\ KeptIn(code, x, n + 1, k)
  BY DEF KeptIn
<1>2. KeptIn(code, x, n, n - 1)
  BY DEF KeptIn
<1>3. N \in n .. N /\ n + 1 .. N \subseteq n .. N /\ n \in n .. N
  OBVIOUS
<1>4. \A k \in n + 1 .. N : k - 1 \in n .. N
  OBVIOUS
<1>5. \A k \in n .. N : k = n \/ k \in n + 1 .. N
  OBVIOUS
<1> HIDE DEF N, code
<1>6. ASSUME AwaitedIn(block, x, n)
      PROVE  \/ AwaitedIn(block, x, n + 1) /\ x \notin overwritten_variables(code[n])
             \/ x \in read_variables(code[n])
  <2>1. CASE x \in block.live_out /\ KeptIn(code, x, n, N)
    BY <1>1, <1>3, <2>1 DEF AwaitedIn, N, code
  <2>2. ASSUME NEW k \in n .. N, x \in read_variables(code[k]), KeptIn(code, x, n, k - 1), k # n
        PROVE  AwaitedIn(block, x, n + 1) /\ x \notin overwritten_variables(code[n])
    <3>1. k \in n + 1 .. N /\ k - 1 \in n .. N
      BY <1>4, <1>5, <2>2
    <3>2. x \notin overwritten_variables(code[n]) /\ KeptIn(code, x, n + 1, k - 1)
      BY <1>1, <2>2, <3>1
    <3> QED
      BY <2>2, <3>1, <3>2 DEF AwaitedIn, N, code
  <2> QED
    BY <1>6, <2>1, <2>2 DEF AwaitedIn, N, code
<1>7. ASSUME AwaitedIn(block, x, n + 1), x \notin overwritten_variables(code[n])
      PROVE  AwaitedIn(block, x, n)
  <2>1. CASE x \in block.live_out /\ KeptIn(code, x, n + 1, N)
    BY <1>1, <1>3, <1>7, <2>1 DEF AwaitedIn, N, code
  <2>2. ASSUME NEW k \in n + 1 .. N, x \in read_variables(code[k]), KeptIn(code, x, n + 1, k - 1)
        PROVE  AwaitedIn(block, x, n)
    <3>1. k \in n .. N /\ KeptIn(code, x, n, k - 1)
      BY <1>1, <1>3, <1>4, <1>7, <2>2
    <3> QED
      BY <2>2, <3>1 DEF AwaitedIn, N, code
  <2> QED
    BY <1>7, <2>1, <2>2 DEF AwaitedIn, N, code
<1>8. ASSUME x \in read_variables(code[n]) PROVE AwaitedIn(block, x, n)
  BY <1>2, <1>3, <1>8 DEF AwaitedIn, N, code
<1> QED
  BY <1>6, <1>7, <1>8 DEF code

\* Behind the last instruction that is what is live at the end.
LEMMA AwaitedAtEnd ==
  ASSUME NEW block, Len(block.code) \in Nat, NEW x
  PROVE  AwaitedIn(block, x, Len(block.code) + 1) <=> x \in block.live_out
BY DEF AwaitedIn, KeptIn

\* Hence there is such a function.
LEMMA WalkExists ==
  ASSUME NEW block, Len(block.code) \in Nat
  PROVE  \E f : WalksBack(f, block)
<1> DEFINE N == Len(block.code)
           reads == UNION { read_variables(block.code[k]) : k \in 1 .. N }
           f == [n \in 1 .. N + 1 |->
                   { x \in reads \cup block.live_out : AwaitedIn(block, x, n) }]
           step(n) == IF n > N THEN block.live_out
                      ELSE (f[n + 1] \ overwritten_variables(block.code[n]))
                             \cup read_variables(block.code[n])
<1>1. \A n \in 1 .. N + 1 : \A x : AwaitedIn(block, x, n) => x \in reads \cup block.live_out
  <2> SUFFICES ASSUME NEW n \in 1 .. N + 1, NEW x, AwaitedIn(block, x, n),
                      NEW k \in n .. N, x \in read_variables(block.code[k])
               PROVE  x \in reads
    BY DEF AwaitedIn
  <2>1. k \in 1 .. N
    OBVIOUS
  <2> QED
    BY <2>1
<1>2. ASSUME NEW n \in 1 .. N + 1 PROVE f[n] = step(n)
  <2>1. \A x : x \in f[n] <=> AwaitedIn(block, x, n)
    BY <1>1
  <2>2. CASE n > N
    <3>1. n = N + 1
      BY <2>2
    <3>2. \A x : x \in f[n] <=> x \in block.live_out
      BY <2>1, <3>1, AwaitedAtEnd
    <3> QED
      BY <2>2, <3>2
  <2>3. CASE ~(n > N)
    <3>1. n \in 1 .. N /\ n + 1 \in 1 .. N + 1
      BY <2>3
    <3>2. \A x : x \in f[n + 1] <=> AwaitedIn(block, x, n + 1)
      BY <1>1, <3>1
    <3>3. \A x : x \in f[n] <=> \/ x \in f[n + 1] /\ x \notin overwritten_variables(block.code[n])
                                \/ x \in read_variables(block.code[n])
      BY <2>1, <3>1, <3>2, AwaitedBefore
    <3> HIDE DEF f
    <3> QED
      BY <2>3, <3>3
  <2> QED
    BY <2>2, <2>3
<1> HIDE DEF step
<1>3. f = [n \in 1 .. N + 1 |-> step(n)]
  BY <1>2
<1> HIDE DEF f
<1>4. f = [n \in 1 .. N + 1 |-> IF n > N THEN block.live_out
                      ELSE (f[n + 1] \ overwritten_variables(block.code[n]))
                             \cup read_variables(block.code[n])]
  BY <1>3 DEF step
<1> QED
  BY <1>4 DEF WalksBack

\* The registers alive before an instruction are those that it or one behind it
\* awaits.
LEMMA AliveIs ==
  ASSUME NEW block, Len(block.code) \in Nat, NEW m \in 1 .. Len(block.code) + 1, NEW x
  PROVE  x \in Alive(block, m) <=> AwaitedIn(block, x, m)
<1> DEFINE N == Len(block.code)
           F == CHOOSE f : WalksBack(f, block)
           E == { j \in Nat : \A n \in 1 .. N + 1 :
                    n + j = N + 1 => \A y : y \in F[n] <=> AwaitedIn(block, y, n) }
<1>1. WalksBack(F, block)
  BY WalkExists
<1>2. Alive(block, m) = F[m]
  BY DEF Alive, WalksBack
<1> HIDE DEF F
<1>3. \A n \in 1 .. N + 1 : F[n] = IF n > N THEN block.live_out
                                   ELSE (F[n + 1] \ overwritten_variables(block.code[n]))
                                          \cup read_variables(block.code[n])
  BY <1>1 DEF WalksBack
<1>4. 0 \in E
  <2>1. ASSUME NEW n \in 1 .. N + 1, n + 0 = N + 1, NEW y
        PROVE  y \in F[n] <=> AwaitedIn(block, y, n)
    <3>1. n = N + 1 /\ n > N
      BY <2>1
    <3> QED
      BY <1>3, <3>1, AwaitedAtEnd
  <2> QED
    BY <2>1
<1>5. ASSUME NEW j \in Nat, j \in E PROVE j + 1 \in E
  <2>1. ASSUME NEW n \in 1 .. N + 1, n + (j + 1) = N + 1, NEW y
        PROVE  y \in F[n] <=> AwaitedIn(block, y, n)
    <3>1. n \in 1 .. N /\ n + 1 \in 1 .. N + 1 /\ (n + 1) + j = N + 1 /\ ~(n > N)
      BY <2>1
    <3>2. y \in F[n + 1] <=> AwaitedIn(block, y, n + 1)
      BY <1>5, <3>1
    <3>3. AwaitedIn(block, y, n)
           <=> \/ AwaitedIn(block, y, n + 1) /\ y \notin overwritten_variables(block.code[n])
               \/ y \in read_variables(block.code[n])
      BY <3>1, AwaitedBefore
    <3> QED
      BY <1>3, <3>1, <3>2, <3>3
  <2> QED
    BY <2>1
<1> HIDE DEF E
<1>6. \A j \in Nat : j \in E
  BY <1>4, <1>5, SetInduction
<1>7. N + 1 - m \in Nat /\ m + (N + 1 - m) = N + 1
  OBVIOUS
<1>8. N + 1 - m \in E
  BY <1>6, <1>7
<1> QED
  BY <1>2, <1>7, <1>8 DEF E

-----------------------------------------------------------------------------
\* For a block as the builder leaves it that is Awaited.
LEMMA AwaitedInBlock ==
  ASSUME NEW S, SplitInvariant(S), NEW b \in DOMAIN basic_blocks,
         NEW m \in DOMAIN basic_blocks[b], NEW x,
         NEW block, block.code = basic_blocks[b], block.live_out = live_out[b]
  PROVE  AwaitedIn(block, x, m) <=> Awaited(x, b, m)
<1> DEFINE code == basic_blocks[b]
           N == Len(code)
<1>1. N \in Nat /\ DOMAIN code = 1 .. N
  BY BlockShape
<1>2. ASSUME NEW k \in 0 .. N
      PROVE  KeptIn(code, x, m, k) <=> Spares(x, b, m, k)
  BY <1>1 DEF KeptIn, Spares
<1>3. N \in 0 .. N /\ \A k \in m .. N : k - 1 \in 0 .. N
  BY <1>1
<1>4. \A k : k \in m .. N <=> k \in DOMAIN code /\ m <= k
  BY <1>1
<1>5. \A k \in m .. N : KeptIn(code, x, m, k - 1) <=> Spares(x, b, m, k - 1)
  BY <1>2, <1>3
<1>6. KeptIn(code, x, m, N) <=> Spares(x, b, m, N)
  BY <1>2, <1>3
<1>7. AwaitedIn(block, x, m)
        <=> \/ \E k \in m .. N : x \in read_variables(code[k]) /\ KeptIn(code, x, m, k - 1)
            \/ x \in live_out[b] /\ KeptIn(code, x, m, N)
  BY DEF AwaitedIn
<1>8. Awaited(x, b, m)
        <=> \/ \E k \in DOMAIN code : m <= k /\ x \in read_variables(code[k]) /\ Spares(x, b, m, k - 1)
            \/ x \in live_out[b] /\ Spares(x, b, m, N)
  BY DEF Awaited
<1> HIDE DEF N, code
<1> QED
  BY <1>4, <1>5, <1>6, <1>7, <1>8

\* What no instruction reads is needed nowhere.
LEMMA NeededIsRead ==
  ASSUME NEW L, Supplied(L), SplitInvariant(Lir(L)), NEW x, Needed(x) # {}
  PROVE  \E p \in DOMAIN instructions : x \in read_variables(instructions[p])
<1> DEFINE n == Len(instructions)
<1>1. n \in Nat /\ DOMAIN instructions = 1 .. n
  BY SMTT(30) DEF Supplied, Closed, SplitInvariant, SplitTypeOK
<1> HIDE DEF n
<1>2. Readers(x) \subseteq {} /\ Complete({}, Keepers(x), Behind) => Needed(x) \subseteq {}
  BY <1>1, NeededIsLeast DEF n
<1>3. Complete({}, Keepers(x), Behind)
  BY DEF Complete
<1> QED
  BY <1>2, <1>3 DEF Readers

\* Where an instruction needs a register, there it is awaited, and the other way
\* round.
LEMMA AwaitedIsNeeded ==
  ASSUME NEW L, Supplied(L), BuilderInvariant(L), Ready, NEW x,
         NEW b \in DOMAIN basic_blocks, NEW m \in DOMAIN basic_blocks[b]
  PROVE  Awaited(x, b, m) <=> At(b, m) \in Needed(x)
<1> DEFINE N == Len(basic_blocks[b])
<1>1. /\ Blocks = DOMAIN basic_blocks
      /\ SplitInvariant(Lir(L)) /\ phase # "split"
      /\ instructions \in Seq(Lir(L))
  BY WhenReady DEF BuilderInvariant, Ready, SplitInvariant, SplitTypeOK, Supplied, Closed
<1>2. N \in Nat /\ DOMAIN basic_blocks[b] = 1 .. N
  BY <1>1, BlockShape
<1>3. ASSUME Awaited(x, b, m) PROVE At(b, m) \in Needed(x)
  <2>1. CASE x \in live_out[b] /\ Spares(x, b, m, N)
    <3>1. PICK q \in Needed(x) : Follows(q, At(b, N))
      BY <1>1, <2>1, LiveIsNeeded
    <3> QED
      BY <1>1, <2>1, <3>1, NeededFromEnd
  <2>2. ASSUME NEW k \in DOMAIN basic_blocks[b], m <= k,
               x \in read_variables(basic_blocks[b][k]), Spares(x, b, m, k - 1)
        PROVE  At(b, m) \in Needed(x)
    <3>1. m \in 1 .. k
      BY <1>2, <2>2
    <3> QED
      BY <1>1, <2>2, <3>1, NeededFromReader
  <2> QED
    BY <1>3, <2>1, <2>2 DEF Awaited
<1>4. ASSUME At(b, m) \in Needed(x) PROVE Awaited(x, b, m)
  <2>1. PICK p \in DOMAIN instructions : x \in read_variables(instructions[p])
    BY <1>1, <1>4, NeededIsRead
  <2>2. instructions[p] \in Lir(L)
    BY <1>1
  <2>3. x \in VRegisters
    BY <2>1, <2>2, RegistersOf DEF Lir, Supplied
  <2> QED
    BY <1>1, <1>4, <2>3, NeededIsAwaited
<1> QED
  BY <1>3, <1>4

-----------------------------------------------------------------------------
\* What the graph says after populate_interference_graph.
LEMMA PopulatedIs ==
  ASSUME NEW old, NEW bs, NEW count \in Nat, NEW x \in 0 .. count - 1, NEW y
  PROVE  y \in Populated(old, bs, count)[x]
           <=> \/ x \in DOMAIN old /\ y \in old[x]
               \/ /\ y # x
                  /\ \E b \in DOMAIN bs : \E m \in DOMAIN bs[b].code :
                       x \in Alive(bs[b], m) /\ y \in Alive(bs[b], m)
<1> DEFINE groups == UNION { { Alive(bs[b], m) : m \in DOMAIN bs[b].code } : b \in DOMAIN bs }
<1>1. \A g : g \in groups
         <=> \E b \in DOMAIN bs : \E m \in DOMAIN bs[b].code : g = Alive(bs[b], m)
  OBVIOUS
<1>2. Populated(old, bs, count)[x] = (IF x \in DOMAIN old THEN old[x] ELSE {})
                                       \cup ((UNION { g \in groups : x \in g }) \ {x})
  BY DEF Populated
<1> DEFINE meets == \E b \in DOMAIN bs : \E m \in DOMAIN bs[b].code :
                      x \in Alive(bs[b], m) /\ y \in Alive(bs[b], m)
<1>3. (\E g \in groups : x \in g /\ y \in g) <=> meets
  BY <1>1
<1> HIDE DEF groups, meets
<1>4. y \in Populated(old, bs, count)[x]
        <=> \/ x \in DOMAIN old /\ y \in old[x]
            \/ y # x /\ \E g \in groups : x \in g /\ y \in g
  <2> DEFINE P == Populated(old, bs, count)[x]
             kept == IF x \in DOMAIN old THEN old[x] ELSE {}
             near == { g \in groups : x \in g }
  <2>1. P = kept \cup ((UNION near) \ {x})
    BY <1>2
  <2>2. y \in kept <=> x \in DOMAIN old /\ y \in old[x]
    OBVIOUS
  <2>3. y \in UNION near <=> \E g \in groups : x \in g /\ y \in g
    OBVIOUS
  <2> HIDE DEF P, kept, near
  <2>4. y \in P <=> y \in kept \/ (y \in (UNION near) /\ y # x)
    BY <2>1
  <2> QED
    BY <2>2, <2>3, <2>4 DEF P
<1> QED
  BY <1>3, <1>4 DEF meets

\* It is a graph of the registers counted.
LEMMA PopulatedShape ==
  ASSUME NEW old, NEW bs, NEW count
  PROVE  /\ DOMAIN Populated(old, bs, count) = 0 .. count - 1
         /\ Populated(old, bs, count)
              = [x \in 0 .. count - 1 |-> Populated(old, bs, count)[x]]
BY DEF Populated

\* Blocks whose code is over the registers V.
CodeOver(bs, V, L) == \A b \in DOMAIN bs : /\ bs[b].code \in Seq(LirOver(V, L))
                                           /\ bs[b].live_out \in SUBSET V

\* What is alive in such a block is a set of those registers.
LEMMA AliveAreRegisters ==
  ASSUME NEW bs, NEW V, NEW L, regA \in V, CodeOver(bs, V, L), NEW b \in DOMAIN bs,
         NEW m \in DOMAIN bs[b].code, NEW x \in Alive(bs[b], m)
  PROVE  x \in V
<1> DEFINE code == bs[b].code
<1>1. code \in Seq(LirOver(V, L)) /\ Len(code) \in Nat /\ DOMAIN code = 1 .. Len(code)
  BY DEF CodeOver
<1>2. m \in 1 .. Len(code) + 1
  BY <1>1
<1>3. AwaitedIn(bs[b], x, m)
  BY <1>1, <1>2, AliveIs
<1>4. CASE x \in bs[b].live_out
  BY <1>4 DEF CodeOver
<1>5. ASSUME NEW k \in m .. Len(code), x \in read_variables(code[k]) PROVE x \in V
  <2>1. k \in 1 .. Len(code)
    BY <1>1
  <2>2. code[k] \in LirOver(V, L)
    BY <1>1, <2>1
  <2> QED
    BY <1>5, <2>2, RegistersOf
<1> QED
  BY <1>3, <1>4, <1>5 DEF AwaitedIn

\* It is an interference graph again: two registers that meet are neighbours of
\* each other.
LEMMA PopulatedIsInterference ==
  ASSUME NEW count \in Nat \ {0}, NEW bs, NEW L, CodeOver(bs, 0 .. count - 1, L),
         next_vregister_id \in Nat, next_vregister_id <= count, IsInterference,
         next_vregister_id' = count, neighbours' = Populated(neighbours, bs, count)
  PROVE  IsInterference'
<1> DEFINE V == 0 .. count - 1
           G == Populated(neighbours, bs, count)
           Meeting(x, y) == \E b \in DOMAIN bs : \E m \in DOMAIN bs[b].code :
                              x \in Alive(bs[b], m) /\ y \in Alive(bs[b], m)
<1>1. Nodes' = V /\ Nodes \subseteq V /\ DOMAIN neighbours = Nodes /\ regA \in V
  BY DEF Nodes, IsInterference, regA
<1>2. \A x \in V : \A y : y \in G[x] <=> \/ x \in Nodes /\ y \in neighbours[x]
                                         \/ y # x /\ Meeting(x, y)
  BY <1>1, PopulatedIs
<1>3. \A x, y : Meeting(x, y) => x \in V /\ y \in V
  BY <1>1, AliveAreRegisters
<1>4. \A x, y : Meeting(x, y) <=> Meeting(y, x)
  OBVIOUS
<1>5. /\ \A x \in Nodes : neighbours[x] \subseteq Nodes /\ x \notin neighbours[x]
      /\ \A x \in Nodes : \A y \in neighbours[x] : x \in neighbours[y]
  BY DEF IsInterference
<1>6. DOMAIN G = V /\ G = [x \in V |-> G[x]]
  BY PopulatedShape
<1> HIDE DEF V, G, Meeting
<1>7. \A x \in V : G[x] \in SUBSET V
  BY <1>1, <1>2, <1>3, <1>5
<1>8. G \in [V -> SUBSET V]
  BY <1>6, <1>7
<1>9. \A x \in V : x \notin G[x] /\ \A y \in G[x] : x \in G[y]
  <2> SUFFICES ASSUME NEW x \in V PROVE x \notin G[x] /\ \A y \in G[x] : x \in G[y]
    OBVIOUS
  <2>1. x \notin G[x]
    BY <1>2, <1>5
  <2>2. ASSUME NEW y \in G[x] PROVE x \in G[y]
    <3>1. y \in V /\ y # x
      BY <1>7, <2>1
    <3> QED
      BY <1>1, <1>2, <1>4, <1>5, <3>1
  <2> QED
    BY <2>1, <2>2
<1> QED
  BY <1>1, <1>8, <1>9 DEF IsInterference, G, V

-----------------------------------------------------------------------------
\* next_vregister_id is above every register of the program.
Counted == \A m \in DOMAIN instructions :
             "reg" \in DOMAIN instructions[m] => instructions[m].reg \in Nodes

\* The allocator's copy of the blocks: over the registers counted, and never
\* shorter than the block it started from.
CodeInvariant(L) ==
  /\ DOMAIN blocks = DOMAIN basic_blocks
  /\ CodeOver(blocks, Nodes, L)
  /\ \A b \in DOMAIN blocks : Len(blocks[b].code) >= Len(basic_blocks[b])

\* The graph of the first round.
Meet(x, y) == \E b \in DOMAIN basic_blocks : \E m \in DOMAIN basic_blocks[b] :
                Awaited(x, b, m) /\ Awaited(y, b, m)
Exact == NothingSpilled =>
           \A x, y \in Nodes : y \in neighbours[x] <=> x # y /\ Meet(x, y)

\* Once code is spilled it differs from what it was in its length.
Grown == NothingSpilled \/ \E b \in DOMAIN blocks :
                             Len(blocks[b].code) > Len(basic_blocks[b])

\* What every step of the allocator keeps.
AllocationInvariant(L) ==
  /\ BuiltInvariant(L)
  /\ next_vregister_id \in Nat \ {0}
  /\ next_memory_location \in Nat
  /\ pass = "none" => Counted /\ neighbours = [x \in Nodes |-> {}]
  /\ pass # "none" => /\ ColourInvariant /\ GaveUp
                      /\ CodeInvariant(L) /\ Grown /\ Exact

\* It holds before the graph is built,
LEMMA AllocationInitially ==
  ASSUME NEW L, Supplied(L), BuilderInit, NEW count \in Nat \ {0}, NEW memory \in Nat,
         AllocationInit(count, memory, "none"), Counted
  PROVE  AllocationInvariant(L)
<1>1. BuiltInvariant(L)
  BY BuiltInitially DEF AllocationInit
<1> QED
  BY <1>1 DEF AllocationInvariant, AllocationInit

\* A fresh attempt starts the loops of Colouring on the graph it is given.
LEMMA AttemptStarts ==
  ASSUME Attempt, next_vregister_id' \in Nat \ {0}, IsInterference'
  PROVE  ColourInvariant'
<1>1. ColourInit'
  BY DEF Attempt, ColourInit, ColourStart
<1> QED
  BY <1>1, ColourInitially, PTL

\* The code the allocator starts with is over the registers counted.
LEMMA FirstCode ==
  ASSUME NEW L, Supplied(L), BuilderInvariant(L), Ready, Counted,
         next_vregister_id \in Nat \ {0}
  PROVE  /\ Blocks = DOMAIN basic_blocks
         /\ \A b \in Blocks : /\ basic_blocks[b] \in Seq(LirOver(Nodes, L))
                              /\ Len(basic_blocks[b]) \in Nat
                              /\ live_out[b] \in SUBSET Nodes
<1>1. /\ Blocks = DOMAIN basic_blocks
      /\ SplitInvariant(Lir(L)) /\ phase # "split" /\ Closed(Lir(L))
      /\ instructions \in Seq(Lir(L))
  BY WhenReady DEF BuilderInvariant, Ready, SplitInvariant, SplitTypeOK, Supplied, Closed
<1>2. \A p \in DOMAIN instructions : instructions[p] \in LirOver(Nodes, L)
  <2> SUFFICES ASSUME NEW p \in DOMAIN instructions
               PROVE  instructions[p] \in LirOver(Nodes, L)
    OBVIOUS
  <2> DEFINE c == instructions[p]
  <2>1. c \in LirOver(VRegisters, L) /\ ("reg" \in DOMAIN c => c.reg \in Nodes)
    BY <1>1 DEF Lir, Counted
  <2> HIDE DEF c
  <2>2. \A op, x : "reg" \in DOMAIN WithRegister(op, x) /\ WithRegister(op, x).reg = x
    BY DEF WithRegister
  <2>3. c \in LirOver(Nodes, L)
    BY <2>1, <2>2 DEF LirOver
  <2> QED
    BY <2>3 DEF c
<1>3. ASSUME NEW b \in Blocks
      PROVE  basic_blocks[b] \in Seq(LirOver(Nodes, L)) /\ Len(basic_blocks[b]) \in Nat
  <2>1. basic_blocks[b] \in Seq(Lir(L)) /\ Len(basic_blocks[b]) \in Nat
        /\ DOMAIN basic_blocks[b] = 1 .. Len(basic_blocks[b])
    BY <1>1, BlockShape
  <2>2. \A m \in DOMAIN basic_blocks[b] : basic_blocks[b][m] \in LirOver(Nodes, L)
    BY <1>1, <1>2, Standing
  <2> QED
    BY <2>1, <2>2
<1>4. ASSUME NEW b \in Blocks, NEW x \in live_out[b] PROVE x \in Nodes
  <2>1. Needed(x) # {}
    BY <1>4, LiveIsNeeded
  <2>2. PICK p \in DOMAIN instructions : x \in read_variables(instructions[p])
    BY <1>1, <2>1, NeededIsRead
  <2>3. regA \in Nodes
    BY DEF regA, Nodes
  <2> QED
    BY <1>2, <2>2, <2>3, RegistersOf
<1> QED
  BY <1>1, <1>3, <1>4

\* and when the first graph is: the step that relies on exact live sets.
LEMMA AllocateKeeps ==
  ASSUME NEW L, Supplied(L), AllocationInvariant(L), Allocate
  PROVE  AllocationInvariant(L)'
<1>1. BuiltInvariant(L)'
  BY BuiltStep DEF AllocationInvariant, AllocationStep
<1>2. /\ BuilderInvariant(L) /\ Ready /\ Counted /\ next_vregister_id \in Nat \ {0}
      /\ neighbours = [x \in Nodes |-> {}]
      /\ blocks' = [b \in Blocks |-> [code |-> basic_blocks[b],
                                      live_in |-> live_in[b], live_out |-> live_out[b]]]
      /\ neighbours' = Populated(neighbours, blocks', next_vregister_id)
      /\ UNCHANGED <<all, next_vregister_id, next_memory_location>>
      /\ Attempt
  BY DEF Allocate, AllocationInvariant, BuiltInvariant
<1>3. /\ Blocks = DOMAIN basic_blocks
      /\ \A b \in Blocks : /\ basic_blocks[b] \in Seq(LirOver(Nodes, L))
                           /\ Len(basic_blocks[b]) \in Nat
                           /\ live_out[b] \in SUBSET Nodes
  BY <1>2, FirstCode
<1>4. /\ DOMAIN blocks' = DOMAIN basic_blocks
      /\ \A b \in DOMAIN basic_blocks : /\ blocks'[b].code = basic_blocks[b]
                                        /\ blocks'[b].live_out = live_out[b]
  BY <1>2, <1>3
<1>5. Nodes' = Nodes /\ Nodes = 0 .. next_vregister_id - 1 /\ basic_blocks' = basic_blocks
  BY <1>2 DEF Nodes, all, build
<1>6. CodeOver(blocks', Nodes, L)
  BY <1>3, <1>4 DEF CodeOver
<1>7. CodeInvariant(L)'
  BY <1>3, <1>4, <1>5, <1>6 DEF CodeInvariant, CodeOver
<1>8. IsInterference
  BY <1>2 DEF IsInterference
<1>9. IsInterference'
  <2>1. /\ next_vregister_id \in Nat /\ next_vregister_id <= next_vregister_id
        /\ next_vregister_id' = next_vregister_id
    BY <1>2
  <2>2. CodeOver(blocks', 0 .. next_vregister_id - 1, L)
    BY <1>5, <1>6
  <2> QED
    BY <1>2, <1>8, <2>1, <2>2, PopulatedIsInterference
<1>10. ColourInvariant'
  BY <1>2, <1>9, AttemptStarts
<1>11. Exact'
  <2>1. ASSUME NEW x, NEW b \in DOMAIN basic_blocks, NEW m \in DOMAIN basic_blocks[b]
        PROVE  x \in Alive(blocks'[b], m) <=> Awaited(x, b, m)
    <3>1. SplitInvariant(Lir(L))
      BY <1>2 DEF BuilderInvariant
    <3>2. Len(basic_blocks[b]) \in Nat /\ DOMAIN basic_blocks[b] = 1 .. Len(basic_blocks[b])
      BY <3>1, BlockShape
    <3>3. m \in 1 .. Len(basic_blocks[b]) + 1
      BY <3>2
    <3> DEFINE block == blocks'[b]
    <3>4. block.code = basic_blocks[b] /\ block.live_out = live_out[b]
      BY <1>4
    <3> HIDE DEF block
    <3>5. x \in Alive(block, m) <=> AwaitedIn(block, x, m)
      BY <3>2, <3>3, <3>4, AliveIs
    <3>6. AwaitedIn(block, x, m) <=> Awaited(x, b, m)
      BY <3>1, <3>4, AwaitedInBlock
    <3> QED
      BY <3>5, <3>6 DEF block
  <2>2. \A x \in Nodes : \A y :
          y \in neighbours'[x] <=> y # x /\ Meet(x, y)
    <3> SUFFICES ASSUME NEW x \in Nodes, NEW y
                 PROVE  y \in neighbours'[x] <=> y # x /\ Meet(x, y)
      OBVIOUS
    <3>1. y \in Populated(neighbours, blocks', next_vregister_id)[x]
           <=> \/ x \in DOMAIN neighbours /\ y \in neighbours[x]
               \/ /\ y # x
                  /\ \E b \in DOMAIN blocks' : \E m \in DOMAIN blocks'[b].code :
                       x \in Alive(blocks'[b], m) /\ y \in Alive(blocks'[b], m)
      <4> DEFINE bs == blocks'
                 count == next_vregister_id
                 old == neighbours
      <4>1. count \in Nat /\ x \in 0 .. count - 1
        BY <1>2, <1>5
      <4> HIDE DEF bs, count, old
      <4>2. y \in Populated(old, bs, count)[x]
              <=> \/ x \in DOMAIN old /\ y \in old[x]
                  \/ /\ y # x
                     /\ \E b \in DOMAIN bs : \E m \in DOMAIN bs[b].code :
                          x \in Alive(bs[b], m) /\ y \in Alive(bs[b], m)
        BY ONLY <4>1, PopulatedIs
      <4> QED
        BY <4>2 DEF bs, count, old
    <3>2. ~(x \in DOMAIN neighbours /\ y \in neighbours[x])
      BY <1>2
    <3>3. (\E b \in DOMAIN blocks' : \E m \in DOMAIN blocks'[b].code :
             x \in Alive(blocks'[b], m) /\ y \in Alive(blocks'[b], m)) <=> Meet(x, y)
      BY <1>4, <2>1 DEF Meet
    <3> QED
      BY <1>2, <3>1, <3>2, <3>3
  <2>3. \A x, b, m : Awaited(x, b, m)' <=> Awaited(x, b, m)
    BY <1>2 DEF all, vars, live, build, Awaited, Spares
  <2>4. \A x, y : Meet(x, y)' <=> Meet(x, y)
    BY <1>5, <2>3 DEF Meet
  <2> QED
    BY <1>5, <2>2, <2>4 DEF Exact
<1>12. pass' # "none" /\ GaveUp'
  BY DEF Allocate, Attempt, GaveUp
<1>13. Grown'
  BY <1>4, <1>5 DEF Grown, NothingSpilled
<1> QED
  BY <1>1, <1>2, <1>7, <1>10, <1>11, <1>12, <1>13 DEF AllocationInvariant

\* Before that step the builder works on its own.
LEMMA BuildKeeps ==
  ASSUME NEW L, Supplied(L), AllocationInvariant(L), Build
  PROVE  AllocationInvariant(L)'
<1>1. BuiltInvariant(L)'
  BY BuiltStep DEF AllocationInvariant, AllocationStep
<1>2. /\ pass' = "none" /\ pass = "none" /\ UNCHANGED instructions
      /\ UNCHANGED <<next_vregister_id, neighbours, next_memory_location>>
  BY DEF Build, colour, allocation, BuilderNext, SplitBehind, SplitBefore, Collect, Splitting,
         EndSplit, ConnectBlock, Calculate, build
<1>3. Nodes' = Nodes /\ (Counted => Counted')
  BY <1>2 DEF Nodes, Counted
<1> QED
  BY <1>1, <1>2, <1>3 DEF AllocationInvariant

\* The steps that leave the code and the graph as they are.
LEMMA FramesKeep ==
  ASSUME NEW L, Supplied(L), AllocationInvariant(L), Colour \/ FailToSpill
  PROVE  AllocationInvariant(L)'
<1>1. BuiltInvariant(L)'
  BY BuiltStep DEF AllocationInvariant, AllocationStep
<1>2. pass # "none" /\ pass' # "none"
  BY DEF Colour, FailToSpill, ColourStep, Push, PushNothing, EndPush, Pop, GiveUp, EndPop
<1>3. UNCHANGED <<all, allocation, next_vregister_id, neighbours>>
  BY DEF Colour, FailToSpill, ColourStep, Push, PushNothing, EndPush, Pop, GiveUp, EndPop
<1>4. /\ ColourInvariant /\ GaveUp /\ CodeInvariant(L) /\ Grown /\ Exact
      /\ next_vregister_id \in Nat \ {0}
      /\ next_memory_location \in Nat
  BY <1>2 DEF AllocationInvariant
<1>5. ColourInvariant'
  <2>1. CASE Push
    BY <1>4, <2>1, PushKeeps
  <2>2. CASE Pop
    BY <1>4, <2>2, PopKeeps
  <2>3. CASE PushNothing \/ EndPush \/ GiveUp \/ EndPop
    BY <1>4, <2>3, RestKeeps
  <2>4. CASE FailToSpill
    <3>1. /\ pass' = "crashed"
          /\ UNCHANGED <<next_vregister_id, neighbours, active_nodes_count, active_nodes,
                         stack, assigned_registers>>
      BY <2>4 DEF FailToSpill
    <3>2. ColourTypeOK' /\ TakenInOrder'
      BY <1>4, <3>1, SameGraph DEF ColourInvariant, ColourTypeOK, TakenInOrder
    <3>3. NothingLost'
      BY <1>4, <3>1, SameGraph DEF ColourInvariant, NothingLost, OnStack
    <3>4. NoClash'
      BY <1>4, <3>1, SameGraph DEF ColourInvariant, NoClash
    <3> QED
      BY <3>2, <3>3, <3>4 DEF ColourInvariant
  <2> QED
    BY <2>1, <2>2, <2>3, <2>4 DEF Colour, ColourStep
<1>6. CodeInvariant(L)'
  BY <1>3, <1>4 DEF CodeInvariant, CodeOver, Nodes, allocation, all, build
<1>7. Exact'
  <2>1. \A x, b, m : Awaited(x, b, m)' <=> Awaited(x, b, m)
    BY <1>3 DEF all, vars, live, build, Awaited, Spares
  <2>2. \A x, y : Meet(x, y)' <=> Meet(x, y)
    BY <1>3, <2>1 DEF Meet, all, build
  <2>3. NothingSpilled' => NothingSpilled
    BY <1>3 DEF NothingSpilled, allocation, all, build
  <2>4. Nodes' = Nodes /\ neighbours' = neighbours
    BY <1>3 DEF Nodes
  <2> QED
    BY <1>4, <2>2, <2>3, <2>4 DEF Exact
<1>8. Grown'
  BY <1>3, <1>4 DEF Grown, NothingSpilled, allocation, all, build
<1>9. GaveUp'
  <2>1. CASE Colour
    BY <1>4, <2>1, GaveUpStep DEF Colour, ColourNext
  <2>2. CASE FailToSpill
    BY <2>2 DEF FailToSpill, GaveUp
  <2> QED
    BY <2>1, <2>2
<1> QED
  BY <1>1, <1>2, <1>3, <1>4, <1>5, <1>6, <1>7, <1>8, <1>9 DEF AllocationInvariant, allocation

-----------------------------------------------------------------------------
\* The first graph, in the terms of the instructions without blocks.
LEMMA ExactIsInterfereExactly ==
  ASSUME NEW L, Supplied(L), AllocationInvariant(L)
  PROVE  InterfereExactly
<1> SUFFICES ASSUME pass = "push", NothingSpilled, NEW x \in Nodes, NEW y \in Nodes
             PROVE  y \in neighbours[x]
                      <=> x # y /\ \E p \in NeededAt[x] \cap NeededAt[y] : InBlock(p)
  BY DEF InterfereExactly
<1>1. /\ BuilderInvariant(L) /\ Ready
      /\ y \in neighbours[x] <=> x # y /\ Meet(x, y)
  BY DEF AllocationInvariant, BuiltInvariant, Exact
<1>2. SplitInvariant(Lir(L)) /\ phase # "split" /\ Closed(Lir(L))
  BY <1>1 DEF BuilderInvariant, Ready, Supplied
<1>3. NeededAt[x] = Needed(x) /\ NeededAt[y] = Needed(y)
  BY DEF NeededAt, Needed
<1>4. ASSUME NEW p \in DOMAIN instructions PROVE InBlock(p)
  <2>1. current_block = <<>> /\ instructions \in Seq(Lir(L))
    BY <1>2 DEF SplitInvariant, SplitTypeOK, Closed
  <2>2. p <= Len(instructions) /\ Len(current_block) = 0
    BY <2>1
  <2> QED
    BY <2>1, <2>2 DEF InBlock
<1>5. /\ \A b \in DOMAIN basic_blocks : \A m \in DOMAIN basic_blocks[b] :
           At(b, m) \in DOMAIN instructions
      /\ \A p \in DOMAIN instructions :
           \E b \in DOMAIN basic_blocks : \E m \in DOMAIN basic_blocks[b] : p = At(b, m)
  BY <1>2, Standing
<1>6. Needed(x) \subseteq DOMAIN instructions
  <2> DEFINE n == Len(instructions)
  <2>1. n \in Nat /\ DOMAIN instructions = 1 .. n
    BY <1>2, SMTT(30) DEF Closed, SplitInvariant, SplitTypeOK
  <2> HIDE DEF n
  <2>2. Needed(x) \in SUBSET (1 .. n)
    BY <2>1, NeededIsLeast DEF n
  <2> QED
    BY <2>1, <2>2
<1>7. \A b \in DOMAIN basic_blocks : \A m \in DOMAIN basic_blocks[b] :
        /\ Awaited(x, b, m) <=> At(b, m) \in Needed(x)
        /\ Awaited(y, b, m) <=> At(b, m) \in Needed(y)
  BY <1>1, AwaitedIsNeeded
<1>8. Meet(x, y) <=> \E p \in Needed(x) \cap Needed(y) : InBlock(p)
  <2>1. ASSUME Meet(x, y) PROVE \E p \in Needed(x) \cap Needed(y) : InBlock(p)
    BY <1>4, <1>5, <1>7, <2>1 DEF Meet
  <2>2. ASSUME NEW p \in Needed(x) \cap Needed(y) PROVE Meet(x, y)
    <3>1. PICK b \in DOMAIN basic_blocks : \E m \in DOMAIN basic_blocks[b] : p = At(b, m)
      BY <1>5, <1>6
    <3>2. PICK m \in DOMAIN basic_blocks[b] : p = At(b, m)
      BY <3>1
    <3> QED
      BY <1>7, <3>2 DEF Meet
  <2> QED
    BY <2>1, <2>2
<1> QED
  BY <1>1, <1>3, <1>8

-----------------------------------------------------------------------------
\* The function that Treated computes.
Treats(f, code, x) ==
  f = [m \in 0 .. Len(code) |-> m > 0 /\ Uses(code[m], x) /\ ~f[m - 1]]

\* It exists.
LEMMA TreatsExists ==
  ASSUME NEW code, Len(code) \in Nat, NEW x
  PROVE  \E f : Treats(f, code, x)
<1> DEFINE N == Len(code)
           A == (Nat \ {0}) \X BOOLEAN
           used(m) == Uses(code[m], x)
           g == [a \in A |-> used(a[1]) /\ ~a[2]]
           h == [m \in Nat |-> m - 1]
<1>1. \A m : used(m) \in BOOLEAN
  BY DEF Uses
<1> HIDE DEF used
<1>2. Rules(BOOLEAN, g, h)
  <2>1. g \in [A -> BOOLEAN]
    BY <1>1
  <2>2. \A m \in Nat \ {0} : h[m] \in 0 .. m - 1
    OBVIOUS
  <2> QED
    BY <2>1, <2>2 DEF Rules
<1>3. ASSUME NEW m \in 1 .. N, NEW v \in BOOLEAN PROVE g[<<m, v>>] = (used(m) /\ ~v)
  <2>1. <<m, v>> \in A /\ <<m, v>>[1] = m /\ <<m, v>>[2] = v
    OBVIOUS
  <2> QED
    BY <2>1
<1>4. \A m \in 1 .. N : h[m] = m - 1 /\ m - 1 \in 0 .. N
  OBVIOUS
<1> HIDE DEF g, h
<1>5. PICK e : e \in Upto(N, BOOLEAN, FALSE, g, h)
  BY <1>2, UptoExists
<1>6. /\ e \in [0 .. N -> BOOLEAN]
      /\ \A m \in 0 .. N : e[m] = IF m = 0 THEN FALSE ELSE g[<<m, e[h[m]]>>]
  BY <1>5 DEF Upto
<1>7. ASSUME NEW m \in 0 .. N PROVE e[m] = (m > 0 /\ used(m) /\ ~e[m - 1])
  <2>1. CASE m = 0
    BY <1>6, <2>1
  <2>2. CASE m # 0
    <3>1. m \in 1 .. N /\ h[m] = m - 1 /\ e[m - 1] \in BOOLEAN
      BY <1>4, <1>6, <2>2
    <3>2. e[m] = g[<<m, e[m - 1]>>]
      BY <1>6, <2>2, <3>1
    <3>3. e[m] = (used(m) /\ ~e[m - 1])
      BY <1>3, <3>1, <3>2
    <3> QED
      BY <3>1, <3>3
  <2> QED
    BY <2>1, <2>2
<1>8. e = [m \in 0 .. N |-> m > 0 /\ used(m) /\ ~e[m - 1]]
  BY <1>6, <1>7
<1> QED
  BY <1>8 DEF Treats, used

\* Of the uses of a register one is treated.
LEMMA SomeTreated ==
  ASSUME NEW code, Len(code) \in Nat, DOMAIN code = 1 .. Len(code), NEW x,
         NEW m \in DOMAIN code, Uses(code[m], x)
  PROVE  Treated(code, x) # {}
<1> DEFINE F == CHOOSE f : Treats(f, code, x)
<1>1. Treats(F, code, x)
  BY TreatsExists
<1>2. Treated(code, x) = { k \in DOMAIN code : F[k] }
  BY DEF Treated, Treats
<1> HIDE DEF F
<1>3. \A k \in 0 .. Len(code) : F[k] = (k > 0 /\ Uses(code[k], x) /\ ~F[k - 1])
  BY <1>1 DEF Treats
<1>4. m \in 0 .. Len(code) /\ m > 0 /\ m - 1 \in 0 .. Len(code)
  OBVIOUS
<1>5. CASE F[m - 1]
  <2>1. m - 1 > 0
    BY <1>3, <1>4, <1>5
  <2>2. m - 1 \in DOMAIN code
    BY <1>4, <2>1
  <2> QED
    BY <1>2, <1>5, <2>2
<1>6. CASE ~F[m - 1]
  BY <1>2, <1>3, <1>4, <1>6
<1> QED
  BY <1>5, <1>6

-----------------------------------------------------------------------------
\* The code that makes a number is over the register it makes it in.
Makes(f, x) ==
  LET bit(m) == IF m % 2 = 1 THEN << WithRegister("INC", x) >> ELSE <<>>
  IN f = [m \in Nat |-> IF m <= 1 THEN bit(m)
                        ELSE f[m \div 2] \o << WithRegister("SHL", x) >> \o bit(m)]

\* So Doublings is a sequence of such instructions.
LEMMA DoublingsOver ==
  ASSUME NEW L, NEW x \in Nat, NEW n \in Nat
  PROVE  Doublings(x, n) \in Seq(LirOver({x}, L))
<1> DEFINE V == Seq(LirOver({x}, L))
           bit(m) == IF m % 2 = 1 THEN << WithRegister("INC", x) >> ELSE <<>>
           shift == << WithRegister("SHL", x) >>
           A == (Nat \ {0}) \X V
           value(a) == IF a[1] <= 1 THEN bit(a[1]) ELSE a[2] \o shift \o bit(a[1])
           g == [a \in A |-> value(a)]
           h == [m \in Nat |-> m \div 2]
           F == CHOOSE f : Makes(f, x)
<1>1. <<>> \in V /\ shift \in V /\ \A m : bit(m) \in V
  <2> DEFINE S == LirOver({x}, L)
             i == WithRegister("INC", x)
             d == WithRegister("SHL", x)
  <2>1. i \in S /\ d \in S
    BY DEF LirOver
  <2> HIDE DEF S, i, d
  <2>2. << i >> \in Seq(S) /\ << d >> \in Seq(S) /\ <<>> \in Seq(S)
    BY <2>1
  <2> QED
    BY <2>2 DEF S, i, d
<1>2. \A v, w \in V : v \o w \in V
  OBVIOUS
<1>3. \A m \in Nat \ {0} : m \div 2 \in 0 .. m - 1 /\ m \in Nat
  OBVIOUS
<1>4. bit(0) = <<>>
  OBVIOUS
<1> HIDE DEF V, bit, shift
<1>5. Rules(V, g, h)
  <2>1. ASSUME NEW a \in A PROVE value(a) \in V
    <3>1. a[2] \in V /\ bit(a[1]) \in V /\ a[2] \o shift \in V
      BY <1>1, <1>2
    <3>2. a[2] \o shift \o bit(a[1]) \in V
      BY <1>2, <3>1
    <3> QED
      BY <3>1, <3>2
  <2>2. g \in [A -> V]
    BY <2>1
  <2>3. \A m \in Nat \ {0} : h[m] \in 0 .. m - 1
    BY <1>3
  <2> HIDE DEF g, h
  <2> QED
    BY <2>2, <2>3 DEF Rules
<1>6. ASSUME NEW m \in Nat \ {0}, NEW v \in V
      PROVE  g[<<m, v>>] = IF m <= 1 THEN bit(m) ELSE v \o shift \o bit(m)
  <2>1. <<m, v>> \in A /\ <<m, v>>[1] = m /\ <<m, v>>[2] = v
    OBVIOUS
  <2>2. g[<<m, v>>] = value(<<m, v>>)
    BY <2>1
  <2> QED
    BY <2>1, <2>2
<1>7. \A m \in Nat : h[m] = m \div 2
  OBVIOUS
<1> HIDE DEF g, h
<1>8. \E f \in [Nat -> V] : Makes(f, x)
  <2>1. PICK e : e \in Recursive(V, <<>>, g, h)
    BY <1>1, <1>5, Recursion
  <2>2. /\ e \in [Nat -> V] /\ e[0] = <<>>
        /\ \A m \in Nat \ {0} : e[m] = g[<<m, e[h[m]]>>]
    BY <2>1 DEF Recursive
  <2>3. ASSUME NEW m \in Nat
        PROVE  e[m] = IF m <= 1 THEN bit(m) ELSE e[m \div 2] \o shift \o bit(m)
    <3>1. CASE m = 0
      BY <1>4, <2>2, <3>1
    <3>2. CASE m # 0
      <4>1. m \in Nat \ {0} /\ h[m] = m \div 2 /\ m \div 2 \in Nat
        BY <1>3, <1>7, <3>2
      <4>2. e[m \div 2] \in V
        BY <2>2, <4>1
      <4> QED
        BY <1>6, <2>2, <4>1, <4>2
    <3> QED
      BY <3>1, <3>2
  <2>4. e = [m \in Nat |-> IF m <= 1 THEN bit(m) ELSE e[m \div 2] \o shift \o bit(m)]
    BY <2>2, <2>3
  <2> QED
    BY <2>2, <2>4 DEF Makes, bit, shift
<1>9. Makes(F, x)
  BY <1>8
<1>10. Doublings(x, n) = F[n]
  BY DEF Doublings, Makes
<1> HIDE DEF F
<1>11. \A m \in Nat : F[m] = IF m <= 1 THEN bit(m) ELSE F[m \div 2] \o shift \o bit(m)
  BY <1>9 DEF Makes, bit, shift
<1> DEFINE E == { m \in Nat : F[m] \in V }
<1>12. ASSUME NEW m \in Nat, \A k \in 0 .. m - 1 : k \in E PROVE m \in E
  <2>1. CASE m <= 1
    BY <1>1, <1>11, <2>1
  <2>2. CASE ~(m <= 1)
    <3>1. m \div 2 \in 0 .. m - 1
      BY <1>3, <2>2
    <3>2. F[m \div 2] \in V
      BY <1>12, <3>1
    <3>3. F[m \div 2] \o shift \in V
      BY <1>1, <1>2, <3>2
    <3>4. F[m \div 2] \o shift \o bit(m) \in V
      BY <1>1, <1>2, <3>3
    <3> QED
      BY <1>11, <2>2, <3>4
  <2> QED
    BY <2>1, <2>2
<1> HIDE DEF E
<1>13. n \in E
  BY <1>12, StrongInduction
<1> QED
  BY <1>10, <1>13 DEF E, V

\* A sequence of parts that are not empty is no longer than what they make up;
\* shorter, if one of them is longer than 1.
LEMMA FlattenGrows ==
  ASSUME NEW S, NEW s \in Seq(Seq(S)), \A i \in DOMAIN s : s[i] # <<>>
  PROVE  /\ Len(FlattenSeq(s)) >= Len(s)
         /\ (\E i \in DOMAIN s : Len(s[i]) > 1) => Len(FlattenSeq(s)) > Len(s)
<1> DEFINE Q == Seq(S)
           N == Len(s)
           longer(k) == \E i \in 1 .. k : Len(s[i]) > 1
           E == { k \in Nat : k <= N => /\ Offset(s, k + 1) >= k
                                        /\ longer(k) => Offset(s, k + 1) > k }
<1>1. s \in Seq(Q) /\ N \in Nat /\ DOMAIN s = 1 .. N
  OBVIOUS
<1>2. \A i \in 1 .. N : s[i] \in Q /\ s[i] # <<>>
  BY <1>1
<1>3. \A i \in 1 .. N : Len(s[i]) \in Nat /\ Len(s[i]) >= 1
  BY <1>2
<1>4. \A i \in 1 .. N : Offset(s, i) \in Nat /\ Offset(s, i + 1) = Offset(s, i) + Len(s[i])
  BY <1>1, Offsets
<1>5. SubSeq(s, 1, 0) = <<>> /\ SubSeq(s, 1, N) = s
  BY <1>1, SubSeqEmpty, SubSeqFull
<1>6. Offset(s, 1) = 0
  <2>1. Offset(s, 1) = Len(FlattenSeq(SubSeq(s, 1, 0)))
    BY DEF Offset
  <2> QED
    <3>1. Len(FlattenSeq(<<>>)) = 0
      BY FlattenEmpty
    <3> QED
      BY <1>5, <2>1, <3>1
<1>7. Len(FlattenSeq(s)) = Offset(s, N + 1)
  <2>1. Offset(s, N + 1) = Len(FlattenSeq(SubSeq(s, 1, N + 1 - 1))) /\ N + 1 - 1 = N
    BY <1>1 DEF Offset
  <2> QED
    BY <1>5, <2>1
<1> HIDE DEF Q, N
<1>8. 0 \in E
  BY <1>6
<1>9. ASSUME NEW k \in Nat, k \in E PROVE k + 1 \in E
  <2> SUFFICES ASSUME k + 1 <= N
               PROVE  /\ Offset(s, k + 2) >= k + 1
                      /\ longer(k + 1) => Offset(s, k + 2) > k + 1
    OBVIOUS
  <2> DEFINE o == Offset(s, k + 1)
             p == Offset(s, k + 2)
             l == Len(s[k + 1])
  <2>1. k + 1 \in 1 .. N /\ (k + 1) + 1 = k + 2
    BY <1>1
  <2>2. o \in Nat /\ p = o + l /\ l \in Nat /\ l >= 1
    BY <1>3, <1>4, <2>1
  <2>3. o >= k /\ (longer(k) => o > k)
    BY <1>1, <1>9
  <2>4. longer(k + 1) => longer(k) \/ l > 1
    BY <2>1
  <2> HIDE DEF o, p, l, longer
  <2>5. p >= k + 1 /\ (longer(k + 1) => p > k + 1)
    BY <2>2, <2>3, <2>4
  <2> QED
    BY <2>5 DEF p
<1>10. N \in E
  <2>1. \A k \in Nat : k \in E
    <3> HIDE DEF E
    <3> QED
      BY <1>8, <1>9, SetInduction
  <2> QED
    BY <1>1, <2>1
<1> QED
  BY <1>1, <1>7, <1>10 DEF N

-----------------------------------------------------------------------------
\* The registers a spill takes for a use are new, and counted.
LEMMA TreatedPlaces ==
  ASSUME NEW x, NEW n \in Nat, DOMAIN blocks = 1 .. n,
         \A b \in DOMAIN blocks : /\ Len(blocks[b].code) \in Nat
                                  /\ DOMAIN blocks[b].code = 1 .. Len(blocks[b].code)
  PROVE  /\ IsFiniteSet(AllTreated(x))
         /\ Cardinality(AllTreated(x)) \in Nat
         /\ \A b \in DOMAIN blocks : \A m \in Treated(blocks[b].code, x) :
              << b, m >> \in AllTreated(x)
<1> DEFINE D == DOMAIN blocks
           places(b) == {b} \X Treated(blocks[b].code, x)
           f == [b \in D |-> places(b)]
           T == { places(b) : b \in D }
<1>1. IsFiniteSet(D)
  BY FS_Interval
<1>2. ASSUME NEW b \in D PROVE IsFiniteSet(places(b))
  <2> DEFINE k == Len(blocks[b].code)
  <2>1. k \in Nat /\ DOMAIN blocks[b].code = 1 .. k
    OBVIOUS
  <2> HIDE DEF k
  <2>2. IsFiniteSet(1 .. k)
    BY <2>1, FS_Interval
  <2>3. Treated(blocks[b].code, x) \subseteq 1 .. k
    BY <2>1 DEF Treated
  <2>4. IsFiniteSet(Treated(blocks[b].code, x))
    BY <2>2, <2>3, FS_Subset
  <2>5. IsFiniteSet({b})
    BY FS_Singleton
  <2> QED
    BY <2>4, <2>5, FS_Product
<1>3. f \in Surjection(D, T)
  BY DEF Surjection
<1>4. IsFiniteSet(T)
  <2> HIDE DEF f, T, D
  <2> QED
    BY <1>1, <1>3, FS_Surjection
<1>5. \A t \in T : IsFiniteSet(t)
  BY <1>2
<1>6. AllTreated(x) = UNION T
  BY DEF AllTreated
<1>7. IsFiniteSet(AllTreated(x))
  <2> HIDE DEF T
  <2> QED
    BY <1>4, <1>5, <1>6, FS_UNION
<1>8. Cardinality(AllTreated(x)) \in Nat
  BY <1>7, FS_CardinalityType
<1>9. \A b \in D : \A m \in Treated(blocks[b].code, x) : << b, m >> \in AllTreated(x)
  BY <1>6
<1> QED
  BY <1>7, <1>8, <1>9

\* Those taken before a use are fewer than all.
LEMMA FewerBefore ==
  ASSUME NEW S, IsFiniteSet(S), NEW T \in SUBSET S, NEW e \in S, e \notin T
  PROVE  Cardinality(T) \in Nat /\ Cardinality(T) < Cardinality(S)
<1>1. IsFiniteSet(T) /\ Cardinality(T) <= Cardinality(S) /\ Cardinality(T) # Cardinality(S)
  BY FS_Subset
<1>2. Cardinality(T) \in Nat /\ Cardinality(S) \in Nat
  BY <1>1, FS_CardinalityType
<1> QED
  BY <1>1, <1>2

\* A block of which register x is spilled: over the registers there are then,
\* longer if there was something to spill.
Spilled(b, x, W, L) ==
  /\ SpillBlock(b, x).code \in Seq(LirOver(W, L))
  /\ SpillBlock(b, x).live_out \in SUBSET W
  /\ Len(SpillBlock(b, x).code) >= Len(blocks[b].code)
  /\ Treated(blocks[b].code, x) # {}
       => Len(SpillBlock(b, x).code) > Len(blocks[b].code)

\* SpillBlock leaves such a block.
LEMMA SpilledBlock ==
  ASSUME NEW L, NEW x \in Nodes, NEW n \in Nat, DOMAIN blocks = 1 .. n,
         next_vregister_id \in Nat \ {0}, next_memory_location \in Nat,
         CodeOver(blocks, Nodes, L), NEW b \in DOMAIN blocks,
         NEW count, count = next_vregister_id + 2 * Cardinality(AllTreated(x)),
         NEW W, W = 0 .. count - 1
  PROVE  Spilled(b, x, W, L)
<1> DEFINE code == blocks[b].code
           treated == Treated(code, x)
           earlier(m) == { p \in AllTreated(x) : p[1] < b \/ (p[1] = b /\ p[2] < m) }
           tmp(m) == next_vregister_id + 2 * Cardinality(earlier(m))
           op(m) == IF x \in read_variables(code[m]) THEN "LOAD" ELSE "STORE"
           long(m) == << WithRegister("PUT", tmp(m)) >> \o SpillConstant(x)
                        \o << Renamed(code[m], tmp(m) + 1), WithRegister(op(m), regA) >>
           two(m) == << code[m], WithRegister("GET", tmp(m - 1)) >>
           spilled(m) == CASE m \in treated -> long(m)
                           [] m - 1 \in treated -> two(m)
                           [] OTHER -> << code[m] >>
           s == [m \in DOMAIN code |-> spilled(m)]
           S == LirOver(W, L)
<1>1. SpillBlock(b, x).code = FlattenSeq(s) /\ SpillBlock(b, x).live_out = blocks[b].live_out \ {x}
  BY DEF SpillBlock
<1>2. /\ \A c \in DOMAIN blocks : /\ Len(blocks[c].code) \in Nat
                                  /\ DOMAIN blocks[c].code = 1 .. Len(blocks[c].code)
      /\ code \in Seq(LirOver(Nodes, L)) /\ blocks[b].live_out \in SUBSET Nodes
  BY DEF CodeOver
<1>3. /\ IsFiniteSet(AllTreated(x))
      /\ Cardinality(AllTreated(x)) \in Nat
      /\ \A m \in treated : << b, m >> \in AllTreated(x)
  BY <1>2, TreatedPlaces
<1>4. Nodes \subseteq W /\ x \in W /\ regA \in W /\ count \in Nat
  BY <1>3 DEF Nodes, regA
<1>5. \A c \in LirOver(Nodes, L) : c \in S
  <2>1. \A y \in Nodes : y \in W
    BY <1>4
  <2> QED
    BY <2>1 DEF LirOver
<1>6. \A m \in DOMAIN code : code[m] \in S
  BY <1>2, <1>5
<1>7. ASSUME NEW m \in treated PROVE tmp(m) \in W /\ tmp(m) + 1 \in W
  <2> DEFINE places == AllTreated(x)
             e == earlier(m)
             here == << b, m >>
  <2>1. here \in places /\ e \in SUBSET places
    BY <1>3
  <2>2. here \notin e
    <3>1. b \in Nat /\ m \in Nat
      BY <1>2 DEF Treated
    <3> QED
      BY <3>1
  <2> HIDE DEF places, e, here
  <2>3. IsFiniteSet(places)
    BY <1>3 DEF places
  <2>4. Cardinality(e) \in Nat /\ Cardinality(e) < Cardinality(places)
    BY <2>1, <2>2, <2>3, FewerBefore
  <2> DEFINE a == Cardinality(e)
             z == Cardinality(places)
  <2>5. tmp(m) = next_vregister_id + 2 * a /\ count = next_vregister_id + 2 * z /\ z \in Nat
    BY <1>3 DEF e, places
  <2>6. a \in Nat /\ a < z
    BY <2>4
  <2> HIDE DEF a, z, tmp
  <2> QED
    BY <2>5, <2>6
<1> HIDE DEF earlier, S
<1>8. \A y \in W : \A o \in {"PUT", "GET", "LOAD", "STORE"} : WithRegister(o, y) \in S
  BY DEF S, LirOver
<1>9. ASSUME NEW m \in DOMAIN code, NEW y \in W PROVE Renamed(code[m], y) \in S
  <2> DEFINE c == code[m]
  <2>1. c \in LirOver(W, L)
    BY <1>6 DEF S
  <2> HIDE DEF c
  <2>2. CASE \E o \in {"LOAD", "STORE", "GET", "PUT", "ADD", "SUB", "RST", "INC",
                       "DEC", "SHL", "SHR", "STRK", "JUMPR"} : \E z \in W : c = WithRegister(o, z)
    <3>1. PICK o \in {"LOAD", "STORE", "GET", "PUT", "ADD", "SUB", "RST", "INC",
                      "DEC", "SHL", "SHR", "STRK", "JUMPR"} : \E z \in W : c = WithRegister(o, z)
      BY <2>2
    <3>2. PICK z \in W : c = WithRegister(o, z)
      BY <3>1
    <3>3. Renamed(c, y) = WithRegister(o, y)
      BY <3>2 DEF Renamed, WithRegister
    <3>4. WithRegister(o, y) \in LirOver(W, L)
      BY DEF LirOver
    <3> QED
      BY <3>3, <3>4 DEF S, c
  <2>3. CASE \/ \E o \in {"JUMP", "JPOS", "JZERO", "LABEL"} : \E l \in L : c = WithLabel(o, l)
             \/ \E o \in {"READ", "WRITE", "HALT"} : c = Plain(o)
    <3>1. "reg" \notin DOMAIN c
      BY <2>3 DEF WithLabel, Plain
    <3> QED
      BY <2>1, <3>1 DEF Renamed, S, c
  <2> QED
    BY <2>1, <2>2, <2>3 DEF LirOver
<1>10. SpillConstant(x) \in Seq(S)
  <2>1. x \in Nat
    BY DEF Nodes
  <2>2. Doublings(x, next_memory_location) \in Seq(LirOver({x}, L))
    BY <2>1, DoublingsOver
  <2>3. LirOver({x}, L) \subseteq S
    BY <1>4 DEF S, LirOver
  <2> DEFINE d == Doublings(x, next_memory_location)
             R == LirOver({x}, L)
  <2>4. d \in Seq(R) /\ R \subseteq S
    BY <2>2, <2>3
  <2> HIDE DEF d, R
  <2>5. d \in Seq(S)
    BY <2>4
  <2> QED
    BY <2>5 DEF SpillConstant, d
<1>11. ASSUME NEW m \in treated PROVE long(m) \in Seq(S) /\ Len(long(m)) > 1
  <2> DEFINE i == WithRegister("PUT", tmp(m))
             j == Renamed(code[m], tmp(m) + 1)
             k == WithRegister(op(m), regA)
             d == SpillConstant(x)
  <2>1. m \in DOMAIN code
    BY DEF Treated
  <2>2. i \in S /\ j \in S /\ k \in S /\ d \in Seq(S)
    BY <1>4, <1>7, <1>8, <1>9, <1>10, <2>1
  <2> HIDE DEF i, j, k, d
  <2> DEFINE u == << i >>
             v == << j, k >>
  <2>3. u \in Seq(S) /\ v \in Seq(S) /\ Len(u) = 1 /\ Len(v) = 2
    BY <2>2
  <2> HIDE DEF u, v
  <2>8. d \in Seq(S) /\ Len(d) \in Nat
    BY <2>2
  <2>7. u \o d \in Seq(S) /\ Len(u \o d) = Len(u) + Len(d)
    BY ONLY <2>8, <2>3, ConcatProperties
  <2> DEFINE w == u \o d
  <2>4. w \in Seq(S) /\ Len(w) = 1 + Len(d) /\ Len(d) \in Nat
    BY <2>3, <2>7, <2>8
  <2> HIDE DEF w
  <2>9. w \o v \in Seq(S) /\ Len(w \o v) = Len(w) + Len(v)
    BY ONLY <2>4, <2>3, ConcatProperties
  <2>5. w \o v \in Seq(S) /\ Len(w \o v) = 3 + Len(d)
    BY <2>3, <2>4, <2>9
  <2>6. long(m) = w \o v
    BY DEF w, u, d, v, i, j, k
  <2> HIDE DEF long
  <2> QED
    BY <2>4, <2>5, <2>6
<1>12. ASSUME NEW m \in DOMAIN code, m - 1 \in treated
       PROVE  two(m) \in Seq(S) /\ Len(two(m)) > 1
  <2> DEFINE i == code[m]
             j == WithRegister("GET", tmp(m - 1))
             c == m - 1
  <2>1. c \in treated
    BY <1>12
  <2>2. tmp(c) \in W
    <3> HIDE DEF c, tmp
    <3> QED
      BY <1>7, <2>1
  <2>3. i \in S /\ j \in S
    BY <1>6, <1>8, <2>2
  <2> HIDE DEF i, j
  <2>4. << i, j >> \in Seq(S) /\ Len(<< i, j >>) = 2
    BY <2>3
  <2> QED
    BY <2>4 DEF i, j
<1>13. \A m \in DOMAIN code : << code[m] >> \in Seq(S) /\ Len(<< code[m] >>) = 1
  BY <1>6
<1> HIDE DEF long, two, treated, tmp, op
<1>14. ASSUME NEW m \in DOMAIN code
       PROVE  /\ spilled(m) \in Seq(S) /\ Len(spilled(m)) >= 1
              /\ m \in treated => Len(spilled(m)) > 1
  <2>1. CASE m \in treated
    <3>1. spilled(m) = long(m) \/ (m - 1 \in treated /\ spilled(m) = two(m))
      BY <2>1
    <3> QED
      BY <1>11, <1>12, <2>1, <3>1
  <2>2. CASE m \notin treated /\ m - 1 \in treated
    <3>1. spilled(m) = two(m)
      BY <2>2
    <3> QED
      BY <1>12, <2>2, <3>1
  <2>3. CASE m \notin treated /\ m - 1 \notin treated
    <3>1. spilled(m) = << code[m] >>
      BY <2>3
    <3> QED
      BY <1>13, <2>3, <3>1
  <2> QED
    BY <2>1, <2>2, <2>3
<1> HIDE DEF spilled
<1>15. /\ s \in Seq(Seq(S)) /\ Len(s) = Len(code) /\ DOMAIN s = DOMAIN code
       /\ \A m \in DOMAIN s : s[m] = spilled(m)
  <2> DEFINE Q == Seq(S)
  <2>1. \A m \in DOMAIN code : spilled(m) \in Q
    BY <1>14
  <2>2. Len(code) \in Nat /\ DOMAIN code = 1 .. Len(code)
    BY <1>2
  <2> HIDE DEF Q, code
  <2>3. s \in Seq(Q) /\ Len(s) = Len(code) /\ DOMAIN s = DOMAIN code
        /\ \A m \in DOMAIN s : s[m] = spilled(m)
    BY <2>1, <2>2
  <2> QED
    BY <2>3 DEF Q
<1>16. \A m \in DOMAIN s : s[m] # <<>>
  <2> SUFFICES ASSUME NEW m \in DOMAIN s PROVE s[m] # <<>>
    OBVIOUS
  <2>1. Len(s[m]) >= 1
    BY <1>14, <1>15
  <2> QED
    BY <2>1
<1>17. treated # {} => \E m \in DOMAIN s : Len(s[m]) > 1
  <2>1. treated \subseteq DOMAIN code
    BY DEF treated, Treated
  <2> QED
    BY <1>14, <1>15, <2>1
<1> HIDE DEF s
<1>18. /\ FlattenSeq(s) \in Seq(S)
       /\ Len(FlattenSeq(s)) >= Len(s)
       /\ treated # {} => Len(FlattenSeq(s)) > Len(s)
  <2>1. FlattenSeq(s) \in Seq(S)
    BY <1>15, FlattenType
  <2>2. /\ Len(FlattenSeq(s)) >= Len(s)
        /\ (\E i \in DOMAIN s : Len(s[i]) > 1) => Len(FlattenSeq(s)) > Len(s)
    BY <1>15, <1>16, FlattenGrows
  <2> QED
    BY <1>17, <2>1, <2>2
<1>19. SpillBlock(b, x).live_out \in SUBSET W
  BY <1>1, <1>2, <1>4
<1> QED
  BY <1>1, <1>15, <1>18, <1>19 DEF S, treated, Spilled

-----------------------------------------------------------------------------
\* Spilling the top of the stack changes something.
SomeUse == \E b \in DOMAIN blocks : Treated(blocks[b].code, Top) # {}

\* A register that is given up in the first round is used somewhere: it has a
\* neighbour, hence an instruction that reads it.
LEMMA GivenUpIsUsed ==
  ASSUME NEW L, Supplied(L), Deg >= 2, AllocationInvariant(L), pass = "spill", NothingSpilled
  PROVE  SomeUse
<1> DEFINE x == Top
<1>1. /\ BuilderInvariant(L) /\ Ready /\ ColourTypeOK /\ GaveUp /\ Exact
      /\ DOMAIN blocks = DOMAIN basic_blocks
  BY DEF AllocationInvariant, BuiltInvariant, ColourInvariant, CodeInvariant
<1>2. SplitInvariant(Lir(L)) /\ phase # "split" /\ Closed(Lir(L))
  BY <1>1 DEF BuilderInvariant, Ready, Supplied
<1>3. stack # <<>> /\ Cardinality(neighbours[x] \ {0}) >= Deg - 1
  BY <1>1 DEF GaveUp
<1>4. x \in Virtual
  BY <1>1, <1>3, Popping DEF ColourTypeOK, Top
<1>5. x \in Nodes /\ neighbours[x] \subseteq Nodes
  BY <1>1, <1>4 DEF Virtual, Nodes, ColourTypeOK, IsInterference
<1> HIDE DEF x
<1>6. PICK y \in Nodes : y \in neighbours[x]
  <2>1. CASE neighbours[x] \ {0} = {}
    <3>1. Cardinality(neighbours[x] \ {0}) = 0
      BY <2>1, FS_EmptySet
    <3> QED
      BY <1>3, <3>1, DegAssumption
  <2>2. CASE neighbours[x] \ {0} # {}
    BY <1>5, <2>2
  <2> QED
    BY <2>1, <2>2
<1>7. Meet(x, y)
  BY <1>1, <1>5, <1>6 DEF Exact
<1>8. PICK b \in DOMAIN basic_blocks : \E m \in DOMAIN basic_blocks[b] : Awaited(x, b, m)
  BY <1>7 DEF Meet
<1>9. PICK m \in DOMAIN basic_blocks[b] : Awaited(x, b, m)
  BY <1>8
<1>10. Needed(x) # {}
  BY <1>1, <1>9, AwaitedIsNeeded
<1>11. PICK p \in DOMAIN instructions : x \in read_variables(instructions[p])
  BY <1>2, <1>10, NeededIsRead
<1>12. PICK c \in DOMAIN basic_blocks : \E k \in DOMAIN basic_blocks[c] : p = At(c, k)
  BY <1>2, Standing
<1>13. PICK k \in DOMAIN basic_blocks[c] : p = At(c, k)
  BY <1>12
<1>14. instructions[p] = basic_blocks[c][k]
  BY <1>2, <1>13, Standing
<1>15. Uses(basic_blocks[c][k], x)
  BY <1>11, <1>14 DEF Uses
<1>16. Treated(basic_blocks[c], x) # {}
  <2> DEFINE code == basic_blocks[c]
  <2>1. Len(code) \in Nat /\ DOMAIN code = 1 .. Len(code)
    BY <1>2, BlockShape
  <2>2. k \in DOMAIN code /\ Uses(code[k], x)
    BY <1>15
  <2> HIDE DEF code
  <2>3. Treated(code, x) # {}
    BY <2>1, <2>2, SomeTreated
  <2> QED
    BY <2>3 DEF code
<1>17. blocks[c].code = basic_blocks[c]
  BY <1>1 DEF NothingSpilled
<1> QED
  BY <1>1, <1>16, <1>17 DEF x, SomeUse

\* A spill makes some block longer, so the first graph is not the graph of any
\* later round.
LEMMA SpillKeeps ==
  ASSUME NEW L, Supplied(L), Deg >= 2, AllocationInvariant(L), Spill
  PROVE  AllocationInvariant(L)'
<1> DEFINE x == Top
           count == next_vregister_id + 2 * Cardinality(AllTreated(x))
           W == 0 .. count - 1
<1>1. BuiltInvariant(L)'
  BY BuiltStep DEF AllocationInvariant, AllocationStep
<1>2. /\ pass = "spill"
      /\ blocks' = [b \in DOMAIN blocks |-> SpillBlock(b, x)]
      /\ next_vregister_id' = count
      /\ neighbours' = Populated(neighbours, blocks', next_vregister_id')
      /\ next_memory_location' = next_memory_location + 1
      /\ UNCHANGED all
      /\ Attempt
  BY DEF Spill
<1>3. /\ BuilderInvariant(L) /\ Ready /\ ColourTypeOK /\ GaveUp
      /\ CodeInvariant(L) /\ Grown /\ next_memory_location \in Nat
      /\ next_vregister_id \in Nat \ {0}
  BY <1>2 DEF AllocationInvariant, BuiltInvariant, ColourInvariant
<1>4. x \in Nodes
  <2>1. x \in Virtual
    BY <1>2, <1>3, Popping DEF ColourTypeOK, Top, GaveUp
  <2> QED
    BY <2>1 DEF Virtual, Nodes
<1> DEFINE n == Len(basic_blocks)
<1>5. n \in Nat /\ DOMAIN blocks = 1 .. n /\ CodeOver(blocks, Nodes, L)
      /\ DOMAIN blocks = DOMAIN basic_blocks
      /\ \A b \in DOMAIN blocks : /\ Len(blocks[b].code) >= Len(basic_blocks[b])
                                  /\ Len(basic_blocks[b]) \in Nat
  <2>1. SplitInvariant(Lir(L)) /\ basic_blocks \in Seq(Seq(Lir(L)))
    BY <1>3 DEF BuilderInvariant, SplitInvariant, SplitTypeOK
  <2>2. n \in Nat /\ DOMAIN basic_blocks = 1 .. n
    BY <2>1
  <2>3. \A b \in DOMAIN basic_blocks : Len(basic_blocks[b]) \in Nat
    BY <2>1, BlockShape
  <2> QED
    BY <1>3, <2>2, <2>3 DEF CodeInvariant
<1> HIDE DEF x, n
<1>6. Cardinality(AllTreated(x)) \in Nat
  <2>1. \A b \in DOMAIN blocks : /\ Len(blocks[b].code) \in Nat
                                 /\ DOMAIN blocks[b].code = 1 .. Len(blocks[b].code)
    BY <1>5 DEF CodeOver
  <2> QED
    BY <1>5, <2>1, TreatedPlaces
<1>7. /\ count \in Nat \ {0} /\ next_vregister_id <= count
      /\ count = next_vregister_id + 2 * Cardinality(AllTreated(x)) /\ W = 0 .. count - 1
  BY <1>3, <1>6
<1> HIDE DEF count, W
<1>8. \A b \in DOMAIN blocks : Spilled(b, x, W, L)
  <2> SUFFICES ASSUME NEW b \in DOMAIN blocks PROVE Spilled(b, x, W, L)
    OBVIOUS
  <2>1. /\ x \in Nodes /\ n \in Nat /\ DOMAIN blocks = 1 .. n
        /\ next_vregister_id \in Nat \ {0} /\ next_memory_location \in Nat
        /\ CodeOver(blocks, Nodes, L)
    BY <1>3, <1>4, <1>5
  <2>2. count = next_vregister_id + 2 * Cardinality(AllTreated(x)) /\ W = 0 .. count - 1
    BY <1>7
  <2>3. b \in DOMAIN blocks
    OBVIOUS
  <2> QED
    BY ONLY <2>1, <2>2, <2>3, SpilledBlock
<1>9. /\ DOMAIN blocks' = DOMAIN blocks
      /\ \A b \in DOMAIN blocks :
           /\ blocks'[b].code \in Seq(LirOver(W, L))
           /\ blocks'[b].live_out \in SUBSET W
           /\ Len(blocks'[b].code) >= Len(blocks[b].code)
           /\ Len(blocks'[b].code) \in Nat /\ Len(blocks[b].code) \in Nat
           /\ Treated(blocks[b].code, x) # {} => Len(blocks'[b].code) > Len(blocks[b].code)
  <2>1. \A b \in DOMAIN blocks : blocks'[b] = SpillBlock(b, x)
    BY <1>2
  <2>2. \A b \in DOMAIN blocks : Len(SpillBlock(b, x).code) \in Nat /\ Len(blocks[b].code) \in Nat
    BY <1>5, <1>8 DEF CodeOver, Spilled
  <2> QED
    BY <1>2, <1>8, <2>1, <2>2 DEF Spilled
<1>10. Nodes' = W /\ basic_blocks' = basic_blocks
  BY <1>2, <1>7 DEF Nodes, all, build
<1>11. CodeInvariant(L)'
  <2>1. CodeOver(blocks', W, L)
    BY <1>9 DEF CodeOver
  <2>2. \A b \in DOMAIN blocks : Len(blocks'[b].code) >= Len(basic_blocks[b])
    BY <1>5, <1>9
  <2>3. CodeOver(blocks, Nodes, L)'
    BY <1>10, <2>1 DEF CodeOver
  <2> QED
    BY <1>5, <1>9, <1>10, <2>2, <2>3 DEF CodeInvariant
<1>12. \E b \in DOMAIN blocks : Len(blocks'[b].code) > Len(basic_blocks[b])
  <2>1. CASE NothingSpilled
    <3>2. SomeUse
      <4>1. pass = "spill" /\ Supplied(L) /\ Deg >= 2 /\ AllocationInvariant(L)
        BY <1>2
      <4> QED
        BY ONLY <2>1, <4>1, GivenUpIsUsed
    <3>1. PICK b \in DOMAIN blocks : Treated(blocks[b].code, x) # {}
      BY <3>2 DEF x, SomeUse
    <3>3. Len(blocks'[b].code) > Len(blocks[b].code)
      BY <1>9, <3>1
    <3>4. /\ b \in DOMAIN blocks /\ Len(blocks[b].code) >= Len(basic_blocks[b])
          /\ Len(basic_blocks[b]) \in Nat
          /\ Len(blocks'[b].code) \in Nat /\ Len(blocks[b].code) \in Nat
      BY <1>5, <1>9
    <3>5. Len(blocks'[b].code) > Len(basic_blocks[b])
      BY ONLY <3>3, <3>4
    <3> QED
      BY <3>4, <3>5
  <2>2. CASE ~NothingSpilled
    <3>1. PICK b \in DOMAIN blocks : Len(blocks[b].code) > Len(basic_blocks[b])
      BY <1>3, <2>2 DEF Grown
    <3>2. Len(blocks'[b].code) > Len(basic_blocks[b])
      BY <1>5, <1>9, <3>1
    <3> QED
      BY <3>2
  <2> QED
    BY <2>1, <2>2
<1>13. Grown' /\ Exact'
  <2>1. PICK b \in DOMAIN blocks : Len(blocks'[b].code) > Len(basic_blocks[b])
    BY <1>12
  <2>2. blocks'[b].code # basic_blocks[b]
    BY <1>5, <1>9, <2>1
  <2>3. ~NothingSpilled'
    BY <1>9, <1>10, <2>2 DEF NothingSpilled
  <2> QED
    BY <1>9, <1>10, <2>1, <2>3 DEF Grown, Exact
<1>14. IsInterference'
  <2>1. CodeOver(blocks', 0 .. count - 1, L)
    BY <1>7, <1>9 DEF CodeOver
  <2> DEFINE bs == blocks'
  <2>2. CodeOver(bs, 0 .. count - 1, L) /\ neighbours' = Populated(neighbours, bs, count)
    BY <1>2, <2>1
  <2> HIDE DEF bs
  <2>3. IsInterference /\ next_vregister_id \in Nat
    BY <1>3 DEF ColourTypeOK
  <2> QED
    BY <1>2, <1>7, <2>2, <2>3, PopulatedIsInterference
<1>15. ColourInvariant'
  BY <1>2, <1>7, <1>14, AttemptStarts
<1>16. pass' # "none" /\ GaveUp'
  BY <1>2 DEF Attempt, GaveUp
<1>17. next_memory_location' \in Nat /\ next_vregister_id' \in Nat \ {0}
  BY <1>2, <1>3, <1>7
<1> QED
  BY <1>1, <1>11, <1>13, <1>15, <1>16, <1>17 DEF AllocationInvariant

\* A stuttering step.
LEMMA AllocationUnchanged ==
  ASSUME NEW L, Supplied(L), AllocationInvariant(L), UNCHANGED working
  PROVE  AllocationInvariant(L)'
<1>1. BuiltInvariant(L)'
  BY BuiltStep DEF AllocationInvariant
<1>2. UNCHANGED <<all, colour, allocation>>
  BY DEF working
<1>3. Nodes' = Nodes /\ (Counted => Counted')
  BY <1>2 DEF Nodes, Counted, colour, all, build
<1>4. CASE pass = "none"
  BY <1>1, <1>2, <1>3, <1>4 DEF AllocationInvariant, colour, allocation
<1>5. CASE pass # "none"
  <2>1. /\ ColourInvariant /\ GaveUp /\ CodeInvariant(L) /\ Grown /\ Exact
    BY <1>5 DEF AllocationInvariant
  <2>2. ColourInvariant' /\ GaveUp'
    BY <1>2, <2>1, RestKeeps, GaveUpStep
  <2>3. CodeInvariant(L)' /\ Grown'
    BY <1>2, <1>3, <2>1 DEF CodeInvariant, CodeOver, Grown, NothingSpilled, allocation, all, build
  <2>4. \A x, b, m : Awaited(x, b, m)' <=> Awaited(x, b, m)
    BY <1>2 DEF all, vars, live, build, Awaited, Spares
  <2>5. \A x, y : Meet(x, y)' <=> Meet(x, y)
    BY <1>2, <2>4 DEF Meet, all, build
  <2>6. Exact'
    BY <1>2, <1>3, <2>1, <2>5 DEF Exact, NothingSpilled, allocation, all, build, colour
  <2> QED
    BY <1>1, <1>2, <1>5, <2>2, <2>3, <2>6 DEF AllocationInvariant, colour, allocation
<1> QED
  BY <1>4, <1>5

(* The invariant of the allocator: what the builder has left, the graph of  *)
(* the first round, the code over the registers there are, and Colouring's  *)
(* own invariant in every round.                                            *)
THEOREM AllocationInvariantHolds ==
  ASSUME NEW L, Supplied(L), Deg >= 2
  PROVE  AllocationSpec => []AllocationInvariant(L)
<1>1. /\ BuilderInit
      /\ \E count \in Nat \ {0}, memory \in Nat : AllocationInit(count, memory, "none")
      /\ \A m \in DOMAIN instructions :
           "reg" \in DOMAIN instructions[m] => instructions[m].reg \in Nodes
      => AllocationInvariant(L)
  BY AllocationInitially DEF Counted
<1>2. AllocationInvariant(L) /\ [AllocationStep]_working => AllocationInvariant(L)'
  BY BuildKeeps, AllocateKeeps, FramesKeep, SpillKeeps, AllocationUnchanged DEF AllocationStep
<1> QED
  BY <1>1, <1>2, PTL DEF AllocationSpec

(* Two registers are neighbours in the first graph exactly if both hold a   *)
(* value, at some instruction, that is read before it is overwritten:       *)
(* populate_interference_graph, for every program.                          *)
THEOREM InterferenceIsExact ==
  ASSUME NEW L, Supplied(L), Deg >= 2
  PROVE  AllocationSpec => []InterfereExactly
<1>1. AllocationInvariant(L) => InterfereExactly
  BY ExactIsInterfereExactly
<1> QED
  BY AllocationInvariantHolds, <1>1, PTL

(* In every round, whatever has been spilled before it: registers with few  *)
(* neighbours that are live together get different registers when the       *)
(* colouring succeeds.                                                      *)
THEOREM EveryRoundIsProper ==
  ASSUME NEW L, Supplied(L), Deg >= 2
  PROVE  AllocationSpec => []ColouringIsProper
<1>1. AllocationInvariant(L) => ColouringIsProper
  BY InvariantIsProper DEF AllocationInvariant, ColouringIsProper
<1> QED
  BY AllocationInvariantHolds, <1>1, PTL

(* What Colouring keeps on one graph it keeps in every round, although the  *)
(* graph of a later round is the earlier one with edges added.              *)
THEOREM EveryRoundKeeps ==
  ASSUME NEW L, Supplied(L), Deg >= 2
  PROVE  AllocationSpec => []RoundInvariant
<1>1. AllocationInvariant(L) => RoundInvariant
  BY DEF AllocationInvariant, RoundInvariant
<1> QED
  BY AllocationInvariantHolds, <1>1, PTL

(* In every round the register given up for spilling is one that the graph  *)
(* of that round forces to be.                                              *)
THEOREM EveryRoundSpillsWhenCrowded ==
  ASSUME NEW L, Supplied(L), Deg >= 2
  PROVE  AllocationSpec => []SpillsWhenCrowded
<1>1. AllocationInvariant(L) => SpillsWhenCrowded
  BY DEF AllocationInvariant, GaveUp, SpillsWhenCrowded
<1> QED
  BY AllocationInvariantHolds, <1>1, PTL
=============================================================================
