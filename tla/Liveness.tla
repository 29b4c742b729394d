------------------------------ MODULE Liveness ------------------------------
(***************************************************************************)
(* CfgBuilder::calculate_live_ins_and_outs (cfg_builder.cpp), on any       *)
(* control-flow graph: live_in and live_out grow, block after block from   *)
(* the last to the first, sweep after sweep, until a sweep adds nothing.   *)
(*                                                                         *)
(* Blocks are counted from 1.  graph is a record: size, the number of      *)
(* blocks; next, their next_blocks_ids; reads, what a block reads before   *)
(* it overwrites it; overwrites, what it overwrites.                       *)
(***************************************************************************)
EXTENDS Integers, Sequences

CONSTANT VRegisters   \* virtual registers

VARIABLES
  graph,      \* never changed here
  live_in,    \* block -> registers whose value at its start is needed
  live_out,   \* block -> registers whose value at its end is needed
  improved,   \* whether this sweep has added anything
  node,          \* the block being looked at, 0 at the end of a sweep
  edge           \* and which of its successors

live == <<live_in, live_out, improved, node, edge>>
vars == <<graph, live>>

Blocks == 1 .. graph.size

IsGraph(g) ==
  /\ g.size \in Nat
  /\ g.next \in [1 .. g.size -> Seq(1 .. g.size)]
  /\ g.reads \in [1 .. g.size -> SUBSET VRegisters]
  /\ g.overwrites \in [1 .. g.size -> SUBSET VRegisters]

StartOf(g) ==
  /\ live_in = g.reads
  /\ live_out = [b \in 1 .. g.size |-> {}]
  /\ improved = FALSE
  /\ node = g.size
  /\ edge = 1

Init == IsGraph(graph) /\ StartOf(graph)

-----------------------------------------------------------------------------
\* Block node with what is live at the start of successor n.
LiveOut(n) == live_out[node] \cup live_in[n]
BadLiveIn(n) == live_in[node] \cup LiveOut(n)
LiveIn(n) == live_in[node] \cup (LiveOut(n) \ graph.overwrites[node])

\* Whether anything is new in that.
BadImproves(n) == FALSE
Improves(n) == LiveOut(n) # live_out[node] \/ LiveIn(n) # live_in[node]

Flow ==
  /\ node \in Blocks
  /\ edge \in DOMAIN graph.next[node]
  /\ LET n == graph.next[node][edge]
     IN /\ live_out' = [live_out EXCEPT ![node] = LiveOut(n)]
        /\ live_in' = [live_in EXCEPT ![node] = LiveIn(n)]
        /\ improved' = (improved \/ Improves(n))
  /\ edge' = edge + 1
  /\ UNCHANGED <<graph, node>>

BadPreviousBlock ==
  /\ node \in Blocks
  /\ edge \notin DOMAIN graph.next[node]
  /\ node' = node - 1
  /\ UNCHANGED <<graph, live_in, live_out, improved, edge>>
PreviousBlock ==
  /\ node \in Blocks
  /\ edge \notin DOMAIN graph.next[node]
  /\ node' = node - 1
  /\ edge' = 1
  /\ UNCHANGED <<graph, live_in, live_out, improved>>

BadNextSweep ==
  /\ node = 0
  /\ improved
  /\ node' = graph.size
  /\ UNCHANGED <<graph, live_in, live_out, improved, edge>>
LateNextSweep ==
  /\ node = 0
  /\ improved
  /\ improved' = FALSE
  /\ node' = graph.size + 1
  /\ UNCHANGED <<graph, live_in, live_out, edge>>
NextSweep ==
  /\ node = 0
  /\ improved
  /\ improved' = FALSE
  /\ node' = graph.size
  /\ UNCHANGED <<graph, live_in, live_out, edge>>

Finished == node = 0 /\ ~improved

Return == Finished /\ UNCHANGED vars

Next == Flow \/ PreviousBlock \/ NextSweep \/ Return

Spec == Init /\ [][Next]_vars

-----------------------------------------------------------------------------
TypeOK ==
  /\ IsGraph(graph)
  /\ live_in \in [Blocks -> SUBSET VRegisters]
  /\ live_out \in [Blocks -> SUBSET VRegisters]
  /\ improved \in BOOLEAN
  /\ node \in 0 .. graph.size
  /\ edge \in Nat \ {0}

(* What it means for sets to be right about a graph: a block needs what it  *)
(* reads, and what its successors need unless it overwrites it.             *)
Solves(in, out) ==
  \A b \in Blocks :
    /\ graph.reads[b] \subseteq in[b]
    /\ out[b] \ graph.overwrites[b] \subseteq in[b]
    /\ \A j \in DOMAIN graph.next[b] : in[graph.next[b][j]] \subseteq out[b]

(* Nothing is ever taken for live that is not: at no time do the sets hold  *)
(* more than every solution of the equations does, whatever the order in    *)
(* which the successors are looked at.                                      *)
NeverTooLarge ==
  \A in, out \in [Blocks -> SUBSET VRegisters] :
    Solves(in, out) => \A b \in Blocks : /\ live_in[b] \subseteq in[b]
                                         /\ live_out[b] \subseteq out[b]

(* When a sweep adds nothing nothing is missing, though the sweep looked at *)
(* each block with the sets as they were at that moment.                    *)
SolvedAtEnd == Finished => Solves(live_in, live_out)

(* The sweeps come to an end.                                               *)
Terminates == <>Finished

-----------------------------------------------------------------------------
\* What makes SolvedAtEnd inductive: the equation inside a block always holds,
\* and those between blocks hold for all that a sweep has passed by without
\* adding anything.  (Between sweeps edge is 1, so that a sweep has passed nothing
\* by when it begins.)
Passed(b, j) == b > node \/ (b = node /\ j < edge)

SweepInvariant ==
  /\ \A b \in Blocks : /\ graph.reads[b] \subseteq live_in[b]
                       /\ live_out[b] \ graph.overwrites[b] \subseteq live_in[b]
  /\ ~improved => \A b \in Blocks : \A j \in DOMAIN graph.next[b] :
                    Passed(b, j) => live_in[graph.next[b][j]] \subseteq live_out[b]
  /\ node = 0 => edge = 1
=============================================================================
