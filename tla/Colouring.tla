----------------------------- MODULE Colouring ------------------------------
(***************************************************************************)
(* LirEmitter::try_color_graph (low_level_ir_builder.cpp) on any graph:    *)
(* virtual registers are put on a stack, those with few neighbours first,  *)
(* and each taken off again gets the first register that no neighbour has. *)
(* An iteration of either loop is an action.                               *)
(*                                                                         *)
(* Register 0, virtual or not, is the accumulator.  A virtual register     *)
(* with Deg neighbours or more is never put on the stack and keeps the     *)
(* accumulator; only the first is put there for want of another.           *)
(***************************************************************************)
EXTENDS Integers, Sequences, FiniteSets

CONSTANT Deg    \* how many registers there are: 8

ASSUME DegAssumption == Deg \in Nat /\ Deg >= 1

VARIABLES
  next_vregister_id,   \* the virtual registers are 0 .. next_vregister_id - 1
  neighbours,          \* interference_graph.neighbours
  pass,                \* "push", "pop", or how it ended
  active_nodes_count,  \* iterations of the first loop to go
  active_nodes,        \* which registers are (again) active
  stack,
  assigned_registers

colour == <<next_vregister_id, neighbours, pass, active_nodes_count, active_nodes,
            stack, assigned_registers>>

Nodes   == 0 .. next_vregister_id - 1
Virtual == 1 .. next_vregister_id - 1
Colours == 0 .. Deg - 1

IsInterference == /\ neighbours \in [Nodes -> SUBSET Nodes]
                  /\ \A x \in Nodes : /\ x \notin neighbours[x]
                                      /\ \A y \in neighbours[x] : x \in neighbours[y]

Crowded(x) == ~(Cardinality(neighbours[x]) < Deg)

ColourStart ==
  /\ pass = "push"
  /\ active_nodes_count = next_vregister_id
  /\ active_nodes = [x \in Nodes |-> TRUE]
  /\ stack = <<>>
  /\ assigned_registers = [x \in Nodes |-> 0]

ColourInit == next_vregister_id \in Nat \ {0} /\ IsInterference /\ ColourStart

-----------------------------------------------------------------------------
\* The first active register with few neighbours, or register 1.
Candidate(x) == active_nodes[x] /\ ~Crowded(x)
LateChosen(x) == IF \E y \in Virtual : Candidate(y)
                 THEN Candidate(x) /\ \A y \in Virtual : Candidate(y) => y <= x
                 ELSE x = 1
Chosen(x) == IF \E y \in Virtual : Candidate(y)
             THEN Candidate(x) /\ \A y \in Virtual : Candidate(y) => x <= y
             ELSE x = 1

Push ==
  /\ pass = "push"
  /\ active_nodes_count > 0
  /\ \E x \in Virtual :
       /\ Chosen(x)
       /\ active_nodes' = [active_nodes EXCEPT ![x] = FALSE]
       /\ stack' = Append(stack, x)
  /\ active_nodes_count' = active_nodes_count - 1
  /\ UNCHANGED <<next_vregister_id, neighbours, pass, assigned_registers>>

\* Without virtual registers active_nodes[1] is indexed out of its bounds.
PushNothing ==
  /\ pass = "push"
  /\ active_nodes_count > 0
  /\ Virtual = {}
  /\ pass' = "crashed"
  /\ UNCHANGED <<next_vregister_id, neighbours, active_nodes_count, active_nodes,
                 stack, assigned_registers>>

EndPush ==
  /\ pass = "push"
  /\ active_nodes_count = 0
  /\ pass' = "pop"
  /\ UNCHANGED <<next_vregister_id, neighbours, active_nodes_count, active_nodes,
                 stack, assigned_registers>>

-----------------------------------------------------------------------------
Top    == stack[Len(stack)]
Popped == stack' = SubSeq(stack, 1, Len(stack) - 1)

\* The registers, but the accumulator, that no active neighbour has.
BadFree(x) == { c \in Colours \ {0} :
                  \A y \in neighbours[x] : active_nodes[y] /\ y > x => assigned_registers[y] # c }
FewFree(x) == { c \in Colours \ {0, 1} :
                  \A y \in neighbours[x] : active_nodes[y] => assigned_registers[y] # c }
Free(x) == { c \in Colours \ {0} :
               \A y \in neighbours[x] : active_nodes[y] => assigned_registers[y] # c }

Pop ==
  /\ pass = "pop"
  /\ stack # <<>>
  /\ \E c \in Free(Top) :
       /\ \A d \in Free(Top) : c <= d
       /\ assigned_registers' = [assigned_registers EXCEPT ![Top] = c]
  /\ active_nodes' = [active_nodes EXCEPT ![Top] = TRUE]
  /\ Popped
  /\ UNCHANGED <<next_vregister_id, neighbours, pass, active_nodes_count>>

\* No register is left for the top of the stack: it is to be spilled.
GiveUp ==
  /\ pass = "pop"
  /\ stack # <<>>
  /\ Free(Top) = {}
  /\ pass' = "spill"
  /\ UNCHANGED <<next_vregister_id, neighbours, active_nodes_count, active_nodes,
                 stack, assigned_registers>>

EndPop ==
  /\ pass = "pop"
  /\ stack = <<>>
  /\ pass' = "coloured"
  /\ UNCHANGED <<next_vregister_id, neighbours, active_nodes_count, active_nodes,
                 stack, assigned_registers>>

ColourStep == \/ Push \/ PushNothing \/ EndPush
              \/ Pop \/ GiveUp \/ EndPop

ColourEnded == pass \in {"coloured", "spill", "crashed"}
ColourNext == ColourStep \/ (ColourEnded /\ UNCHANGED colour)
ColourSpec == ColourInit /\ [][ColourNext]_colour /\ WF_colour(ColourStep)

-----------------------------------------------------------------------------
(* Two registers that are live together get different registers, and not    *)
(* the accumulator, provided both have few neighbours: also the first one,  *)
(* which is put on the stack twice and coloured twice, the second time when *)
(* others have been coloured after it.                                      *)
ColouringIsProper ==
  pass = "coloured"
    => \A x \in Virtual : ~Crowded(x)
         => /\ assigned_registers[x] \in Colours \ {0}
            /\ \A y \in neighbours[x] : assigned_registers[y] # assigned_registers[x]

(* A register is spilled only where the graph forces it to be: if it has as *)
(* many neighbours besides the accumulator as there are registers besides   *)
(* the accumulator.                                                         *)
SpillsWhenCrowded ==
  pass = "spill" => Cardinality(neighbours[Top] \ {0}) >= Deg - 1

-----------------------------------------------------------------------------
\* Why ColouringIsProper holds.  The first loop takes the registers with few
\* neighbours off in the order of their numbers: behind an iteration the
\* numbers below the iterations done are through.
TakenInOrder ==
  pass = "push" => \A x \in Virtual :
    Candidate(x) => x > next_vregister_id - active_nodes_count

\* What has been taken off is on the stack, until it is active with a colour.
OnStack(x) == \E k \in 1 .. Len(stack) : stack[k] = x
NothingLost ==
  /\ \A x \in Virtual : active_nodes[x] \/ OnStack(x)
  /\ pass \in {"pop", "coloured"} =>
       \A x \in Virtual : active_nodes[x] => Crowded(x) \/ assigned_registers[x] # 0

\* No two active registers that are neighbours have the same colour.
NoClash ==
  /\ pass = "push" => assigned_registers = [x \in Nodes |-> 0]
  /\ \A x \in Nodes : \A y \in neighbours[x] :
       active_nodes[x] /\ active_nodes[y] /\ assigned_registers[x] # 0
         => assigned_registers[x] # assigned_registers[y]

ColourTypeOK ==
  /\ next_vregister_id \in Nat \ {0}
  /\ IsInterference
  /\ pass \in {"push", "pop", "coloured", "spill", "crashed"}
  /\ active_nodes_count \in 0 .. next_vregister_id
  /\ active_nodes \in [Nodes -> BOOLEAN]
  /\ active_nodes[0]
  /\ stack \in Seq(Virtual)
  /\ assigned_registers \in [Nodes -> Colours]
  /\ assigned_registers[0] = 0
  /\ pass = "coloured" => stack = <<>>
  /\ pass \in {"pop", "coloured", "spill"} => active_nodes_count = 0

(* What makes the colouring proper at the end holds all the time: it is the *)
(* invariant of the proof.                                                  *)
ColourInvariant == ColourTypeOK /\ TakenInOrder /\ NothingLost /\ NoClash
=============================================================================
