----------------------------- MODULE MCLiveness -----------------------------
(***************************************************************************)
(* All graphs of Size blocks with up to two successors each, one of them   *)
(* the next block as behind a conditional jump; a register, which is       *)
(* enough as registers do not meet.                                        *)
(***************************************************************************)
EXTENDS Liveness

CONSTANT Size

Nodes == 1 .. Size

\* Nothing, a jump, the next block, or a conditional jump.
Successors(b) ==
  { <<>> } \cup { <<t>> : t \in Nodes }
  \cup (IF b < Size THEN { <<t, b + 1>> : t \in Nodes } ELSE {})

MCInit ==
  /\ graph \in { [size |-> Size, next |-> n, reads |-> r, overwrites |-> o]
                 : n \in { f \in [Nodes -> UNION { Successors(b) : b \in Nodes }] :
                             \A b \in Nodes : f[b] \in Successors(b) },
                   r \in [Nodes -> SUBSET VRegisters],
                   o \in [Nodes -> SUBSET VRegisters] }
  /\ Init

MCSpec == MCInit /\ [][Next]_vars /\ WF_vars(Next)
=============================================================================
