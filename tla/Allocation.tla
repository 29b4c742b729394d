----------------------------- MODULE Allocation -----------------------------
(***************************************************************************)
(* LirEmitter::allocate_registers (low_level_ir_builder.cpp): from the     *)
(* control-flow graph of Cfg the interference graph, then Colouring, which *)
(* is tried again, on the graph with a register spilled, until it works.   *)
(***************************************************************************)
EXTENDS Cfg, Colouring

CONSTANT MaxRegisters   \* virtual registers before memory is used up

VARIABLES
  blocks,                \* Cfg::basic_blocks as returned by build()
  next_memory_location

allocation == <<blocks, next_memory_location>>
working    == <<all, colour, allocation>>

AllocationInit(count, memory, where) ==
  /\ next_vregister_id = count
  /\ next_memory_location = memory
  /\ neighbours = [x \in Nodes |-> {}]
  /\ pass = where
  /\ active_nodes_count = 0
  /\ active_nodes = <<>>
  /\ stack = <<>>
  /\ assigned_registers = <<>>
  /\ blocks = <<>>

-----------------------------------------------------------------------------
\* The registers alive before instruction m of a block, and behind it for
\* m > Len(block.code).
BadAlive(block, m) ==
  LET alive[n \in 1 .. Len(block.code) + 1] ==
        IF n > Len(block.code) THEN {}
        ELSE LET c == block.code[n]
             IN (alive[n + 1] \ overwritten_variables(c)) \cup read_variables(c)
  IN alive[m]
Alive(block, m) ==
  LET alive[n \in 1 .. Len(block.code) + 1] ==
        IF n > Len(block.code) THEN block.live_out
        ELSE LET c == block.code[n]
             IN (alive[n + 1] \ overwritten_variables(c)) \cup read_variables(c)
  IN alive[m]

\* populate_interference_graph: edges are added, never taken away.
Populated(old, bs, count) ==
  LET groups == UNION { { Alive(bs[b], m) : m \in DOMAIN bs[b].code } : b \in DOMAIN bs }
  IN [x \in 0 .. count - 1 |->
        (IF x \in DOMAIN old THEN old[x] ELSE {})
        \cup ((UNION { g \in groups : x \in g }) \ {x})]

Attempt ==
  /\ pass' = "push"
  /\ active_nodes_count' = next_vregister_id'
  /\ active_nodes' = [x \in Nodes' |-> TRUE]
  /\ stack' = <<>>
  /\ assigned_registers' = [x \in Nodes' |-> 0]

Allocate ==
  /\ Ready
  /\ pass = "none"
  /\ UNCHANGED next_vregister_id
  /\ blocks' = [b \in Blocks |-> [code |-> basic_blocks[b],
                                  live_in |-> live_in[b], live_out |-> live_out[b]]]
  /\ neighbours' = Populated(neighbours, blocks', next_vregister_id)
  /\ Attempt
  /\ UNCHANGED <<all, next_memory_location>>

-----------------------------------------------------------------------------
\* The address of the new cell in x.
SpillConstant(x) ==
  IF next_memory_location = 0 THEN <<>> ELSE Doublings(x, next_memory_location)

\* change_vreg.
Renamed(c, x) == IF "reg" \in DOMAIN c THEN [c EXCEPT !.reg = x] ELSE c

\* The uses of register x that spill deals with: it passes over the
\* instruction behind each of them.
Uses(c, x) == x \in read_variables(c) \cup overwritten_variables(c)
Treated(code, x) ==
  LET treated[m \in 0 .. Len(code)] == m > 0 /\ Uses(code[m], x) /\ ~treated[m - 1]
  IN { m \in DOMAIN code : treated[m] }
AllTreated(x) == UNION { {b} \X Treated(blocks[b].code, x) : b \in DOMAIN blocks }

\* Around such a use a register is saved and the cell's address made in x; the
\* register is restored behind the instruction passed over.
BadSpillBlock(b, x) == blocks[b]
SpillBlock(b, x) ==
  LET code == blocks[b].code
      treated == Treated(code, x)
      earlier(m) == { p \in AllTreated(x) : p[1] < b \/ (p[1] = b /\ p[2] < m) }
      tmp(m) == next_vregister_id + 2 * Cardinality(earlier(m))
      op(m) == IF x \in read_variables(code[m]) THEN "LOAD" ELSE "STORE"
      spilled(m) ==
        CASE m \in treated -> << WithRegister("PUT", tmp(m)) >> \o SpillConstant(x)
                              \o << Renamed(code[m], tmp(m) + 1), WithRegister(op(m), regA) >>
          [] m - 1 \in treated -> << code[m], WithRegister("GET", tmp(m - 1)) >>
          [] OTHER -> << code[m] >>
  IN [code |-> FlattenSeq([m \in DOMAIN code |-> spilled(m)]),
      live_in |-> blocks[b].live_in \ {x}, live_out |-> blocks[b].live_out \ {x}]

UsedLast(x) ==
  \E b \in DOMAIN blocks : Len(blocks[b].code) \in Treated(blocks[b].code, x)

\* spill, and allocate_registers from the failed attempt to the next one.
Spill ==
  /\ pass = "spill"
  /\ next_vregister_id < MaxRegisters
  /\ ~UsedLast(Top)
  /\ blocks' = [b \in DOMAIN blocks |-> SpillBlock(b, Top)]
  /\ next_vregister_id' = next_vregister_id + 2 * Cardinality(AllTreated(Top))
  /\ neighbours' = Populated(neighbours, blocks', next_vregister_id')
  /\ next_memory_location' = next_memory_location + 1
  /\ Attempt
  /\ UNCHANGED all

\* An instruction inserted behind the end of a block, or memory used up.
FailToSpill ==
  /\ pass = "spill"
  /\ next_vregister_id >= MaxRegisters \/ UsedLast(Top)
  /\ pass' = "crashed"
  /\ UNCHANGED <<all, allocation, next_vregister_id, neighbours, active_nodes_count,
                 active_nodes, stack, assigned_registers>>

Build == pass = "none" /\ BuilderNext /\ UNCHANGED <<colour, allocation>>
Colour == ColourStep /\ UNCHANGED <<all, allocation>>

AllocationStep == Build \/ Allocate \/ Colour \/ Spill \/ FailToSpill
Allocated == pass \in {"coloured", "crashed"}

\* From any sequence of instructions whose registers have been counted.
AllocationSpec ==
  /\ BuilderInit
  /\ \E count \in Nat \ {0}, memory \in Nat : AllocationInit(count, memory, "none")
  /\ \A m \in DOMAIN instructions :
       "reg" \in DOMAIN instructions[m] => instructions[m].reg \in Nodes
  /\ [][AllocationStep]_working

-----------------------------------------------------------------------------
\* For every register where it holds a value that is still to be read.
NeededAt == [x \in Nodes |-> Where(x, read_variables, overwritten_variables, Follows)]

\* Whether instruction m is in a block at all.
InBlock(m) == m <= Len(instructions) - Len(current_block)

NothingSpilled == \A b \in DOMAIN blocks : blocks[b].code = basic_blocks[b]

(* LiveExactly of Cfg, in the states in which the allocator looks at it.    *)
LiveWhenBuilt == pass = "none" => LiveExactly

(* Two registers are neighbours in the first graph exactly if, at some      *)
(* instruction, both hold a value that is read before it is overwritten:    *)
(* the live sets of the blocks' ends, walked back through each block, lose  *)
(* no register and invent none.                                             *)
InterfereExactly ==
  pass = "push" /\ stack = <<>> /\ NothingSpilled
    => LET needed == NeededAt
       IN \A x, y \in Nodes :
            y \in neighbours[x]
              <=> x # y /\ \E m \in needed[x] \cap needed[y] : InBlock(m)

(* What Colouring keeps while it colours, in every round: on the graph to   *)
(* which spilling has added registers and from which no edge was taken away *)
(* (allocate_registers).                                                    *)
RoundInvariant == pass \in {"push", "pop", "coloured", "spill"} => ColourInvariant

(* The rounds of colouring and spilling come to an end, with a register for *)
(* each virtual one or where a spilled register is used by the last         *)
(* instruction of a block, and not because memory is used up.               *)
AllocationEnds ==
  <>(pass = "coloured" \/ (pass = "crashed" /\ next_vregister_id < MaxRegisters))
=============================================================================
