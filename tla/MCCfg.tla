------------------------------- MODULE MCCfg --------------------------------
(***************************************************************************)
(* All instruction sequences of a given length over two labels and two     *)
(* registers that the low-level emitter could leave: every label that is   *)
(* jumped to stands in one place, and the end is a HALT.                   *)
(***************************************************************************)
EXTENDS Cfg

CONSTANTS Length, Vocabulary   \* instructions before the HALT, and which

Labels == {"a", "b"}
Jumps == { WithLabel(op, l) : op \in {"JUMP", "JPOS"}, l \in Labels }
Marks == { WithLabel("LABEL", l) : l \in Labels }

MCWords == Jumps \cup Marks
           \cup { WithRegister("GET", 1), WithRegister("PUT", 1),
                  WithRegister("JUMPR", 1), WithRegister("ADD", 2) }

Count(s, c) == Cardinality({ m \in DOMAIN s : s[m] = c })
Sequences ==
  { Append(s, Plain("HALT"))
    : s \in { w \in [1 .. Length -> Vocabulary] :
                \A l \in Labels :
                  /\ Count(w, WithLabel("LABEL", l)) <= 1
                  /\ (\E c \in Jumps : c.label = l /\ Count(w, c) > 0)
                       => Count(w, WithLabel("LABEL", l)) = 1 } }

\* A loop that writes a number; a procedure, called while 1 is in use.
Writing == { << WithRegister("GET", 1), WithLabel("LABEL", "a"),
                Plain("WRITE"), WithLabel("JPOS", "a"), Plain("HALT") >> }
Calling == { << WithLabel("LABEL", "p"), WithRegister("PUT", 3),
                WithRegister("JUMPR", 2), WithLabel("LABEL", "MAIN"),
                Plain("READ"), WithRegister("PUT", 1), WithRegister("STRK", 2),
                WithLabel("JUMP", "p"), WithRegister("GET", 1),
                Plain("WRITE"), Plain("HALT") >> }
NotLive == Writing \cup Calling
=============================================================================
