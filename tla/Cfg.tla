-------------------------------- MODULE Cfg ---------------------------------
(***************************************************************************)
(* CfgBuilder (cfg_builder.cpp): instructions are split into blocks, the   *)
(* blocks connected by their jumps, and then Liveness runs on the graph.   *)
(* previous_blocks_ids, which nothing reads, is left out.                  *)
(***************************************************************************)
EXTENDS Liveness, LowLevelIr, SequencesExt

CONSTANT Programs   \* sequences of instructions

VARIABLES
  instructions,   \* what the builder was given
  phase,          \* "split", "connect" or "live"
  at,             \* how many instructions, or blocks, have been looked at
  current_block,  \* the instructions of the block being collected
  basic_blocks,   \* the blocks, each a sequence of instructions
  labels,         \* label_to_block_id
  next            \* next_blocks_ids of the blocks connected so far

build == <<instructions, phase, at, current_block, basic_blocks, labels, next>>
all   == <<vars, build>>

NoGraph == [size |-> 0, next |-> <<>>, reads |-> <<>>, overwrites |-> <<>>]

BuilderStart ==
  /\ phase = "split"
  /\ at = 0
  /\ current_block = <<>>
  /\ basic_blocks = <<>>
  /\ labels = <<>>
  /\ next = <<>>
  /\ graph = NoGraph
  /\ StartOf(NoGraph)

BuilderInit == instructions \in Programs /\ BuilderStart

-----------------------------------------------------------------------------
\* push_current_block: an empty one is not pushed.
Pushed(block) == IF block = <<>> THEN basic_blocks ELSE Append(basic_blocks, block)

Here == instructions[at + 1]
Splitting ==
  /\ phase = "split"
  /\ at < Len(instructions)
  /\ at' = at + 1
  /\ UNCHANGED <<vars, instructions, phase, next>>

IsJump(c) == c.op \in {"JUMP", "JPOS", "JZERO"}
EndsBlock(c) == IsJump(c) \/ c.op \in {"JUMPR", "HALT"}

SplitBehind ==
  /\ Splitting
  /\ EndsBlock(Here)
  /\ basic_blocks' = Pushed(Append(current_block, Here))
  /\ current_block' = <<>>
  /\ UNCHANGED labels

\* A label begins a block, whose number is the number of blocks before it.
BadSplitBefore ==
  /\ Splitting
  /\ Here.op = "LABEL"
  /\ current_block' = Append(current_block, Here)
  /\ labels' = [ l \in DOMAIN labels \cup {Here.label} |->
                   IF l = Here.label THEN Len(basic_blocks) + 1 ELSE labels[l] ]
  /\ UNCHANGED basic_blocks
SplitBefore ==
  /\ Splitting
  /\ Here.op = "LABEL"
  /\ basic_blocks' = Pushed(current_block)
  /\ current_block' = <<Here>>
  /\ labels' = [ l \in DOMAIN labels \cup {Here.label} |->
                   IF l = Here.label THEN Len(basic_blocks') + 1 ELSE labels[l] ]

Collect ==
  /\ Splitting
  /\ ~EndsBlock(Here) /\ Here.op # "LABEL"
  /\ current_block' = Append(current_block, Here)
  /\ UNCHANGED <<basic_blocks, labels>>

\* What is in current_block at the end is no block.
EndSplit ==
  /\ phase = "split"
  /\ at = Len(instructions)
  /\ phase' = "connect"
  /\ at' = 0
  /\ UNCHANGED <<vars, instructions, current_block, basic_blocks, labels, next>>

-----------------------------------------------------------------------------
\* The blocks that can follow block b: behind a jump to a label the one with
\* that label, behind what does not always jump the next one.
Targets(b) ==
  LET last == Last(basic_blocks[b])
  IN IF IsJump(last) THEN << labels[last.label] >> ELSE <<>>
FallsThrough(b) ==
  LET last == Last(basic_blocks[b])
  IN IF last.op \notin {"JUMP", "JUMPR", "HALT"} /\ b < Len(basic_blocks)
     THEN << b + 1 >> ELSE <<>>

ConnectBlock ==
  /\ phase = "connect"
  /\ at < Len(basic_blocks)
  /\ next' = Append(next, Targets(at + 1) \o FallsThrough(at + 1))
  /\ at' = at + 1
  /\ UNCHANGED <<vars, instructions, phase, current_block, basic_blocks, labels>>

\* What a block reads before it overwrites it, and what it overwrites.
Overwrites(block) ==
  UNION { overwritten_variables(block[m]) : m \in DOMAIN block }
BadReads(block) == UNION { read_variables(block[m]) : m \in DOMAIN block }
Reads(block) ==
  UNION { read_variables(block[m]) \ Overwrites(SubSeq(block, 1, m - 1))
          : m \in DOMAIN block }

Calculate ==
  /\ phase = "connect"
  /\ at = Len(basic_blocks)
  /\ phase' = "live"
  /\ graph' = [ size |-> Len(basic_blocks), next |-> next,
                reads |-> [b \in DOMAIN basic_blocks |-> Reads(basic_blocks[b])],
                overwrites |-> [b \in DOMAIN basic_blocks |->
                                  Overwrites(basic_blocks[b])] ]
  /\ live_in' = graph'.reads
  /\ live_out' = [b \in DOMAIN basic_blocks |-> {}]
  /\ node' = Len(basic_blocks)
  /\ edge' = 1
  /\ improved' = FALSE
  /\ UNCHANGED <<instructions, at, current_block, basic_blocks, labels, next>>

BuilderNext ==
  \/ SplitBehind \/ SplitBefore \/ Collect \/ EndSplit
  \/ ConnectBlock \/ Calculate
  \/ phase = "live" /\ Next /\ UNCHANGED build

BuilderSpec == BuilderInit /\ [][BuilderNext]_all

-----------------------------------------------------------------------------
\* The same without blocks: the instructions before which register x holds a
\* value that an instruction reads which is reached before one that overwrites
\* x; for what instructions read and overwrite and whether one follows another.
Where(x, Read(_), Overwritten(_), Behind(_, _)) ==
  LET kept == { p \in DOMAIN instructions : x \notin Overwritten(instructions[p]) }
      within[n \in 0 .. Len(instructions)] ==
        IF n = 0 THEN { p \in DOMAIN instructions : x \in Read(instructions[p]) }
        ELSE LET nearer == within[n - 1]
             IN nearer \cup { p \in kept \ nearer : \E q \in nearer : Behind(q, p) }
  IN within[Len(instructions)]

Follows(q, p) ==
  LET c == instructions[p]
  IN \/ c.op \notin {"JUMP", "JUMPR", "HALT"} /\ q = p + 1
     \/ IsJump(c) /\ instructions[q] = WithLabel("LABEL", c.label)

\* The first instruction of block b.
First(b) == 1 + Len(FlattenSeq(SubSeq(basic_blocks, 1, b - 1)))

Ready == phase = "live" /\ Finished

(* Every instruction comes to be in one block, in its place; a block is     *)
(* entered at its first instruction and left behind its last one only.      *)
BlocksAreBlocks ==
  /\ phase # "split" => current_block = <<>>
  /\ FlattenSeq(basic_blocks) \o current_block
       = SubSeq(instructions, 1, IF phase = "split" THEN at ELSE Len(instructions))
  /\ \A b \in DOMAIN basic_blocks :
       \A m \in DOMAIN basic_blocks[b] :
         /\ m > 1 => basic_blocks[b][m].op # "LABEL"
         /\ m < Len(basic_blocks[b]) => ~EndsBlock(basic_blocks[b][m])

(* Splitting, connecting, the summaries of blocks and the sweeps together   *)
(* compute for each block exactly the registers that some path from its     *)
(* first instruction reads before it overwrites them.                       *)
LiveExactly ==
  Ready => \A x \in VRegisters :
             LET needed == Where(x, read_variables, overwritten_variables, Follows)
             IN \A b \in Blocks : x \in live_in[b] <=> First(b) \in needed

\* What the machine reads: WRITE, JPOS and JZERO look at the accumulator; and
\* WRITE leaves it alone.
MachineReads(c) ==
  read_variables(c) \cup (IF c.op \in {"WRITE", "JPOS", "JZERO"} THEN {regA} ELSE {})
MachineOverwrites(c) == IF c.op = "WRITE" THEN {} ELSE overwritten_variables(c)

\* A return goes on behind a jump that follows a STRK.
Returns(q, p) ==
  \/ Follows(q, p)
  \/ /\ instructions[p].op = "JUMPR"
     /\ q > 2 /\ instructions[q - 1].op = "JUMP" /\ instructions[q - 2].op = "STRK"

(* A register whose value the machine will use is live, also when it is     *)
(* used by the caller behind a call.                                        *)
NeededIsLive ==
  Ready => \A x \in VRegisters :
             LET needed == Where(x, MachineReads, MachineOverwrites, Returns)
             IN \A b \in Blocks : First(b) \in needed => x \in live_in[b]
=============================================================================
