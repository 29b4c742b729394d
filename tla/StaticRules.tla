---------------------------- MODULE StaticRules -----------------------------
(***************************************************************************)
(* Which programs are legal, stated once for the whole tree and without    *)
(* the walks of Analyzer and Emitter: the rules whose breach their error   *)
(* messages name.  A reference; it models no code.                         *)
(***************************************************************************)
EXTENDS Occurrences, FiniteSets

NamesOf(list) == { list[i].name : i \in DOMAIN list }

\* No name is declared twice in a procedure, arguments included.
Distinct(args, decls) ==
  Cardinality(NamesOf(args) \cup NamesOf(decls)) = Len(args) + Len(decls)

\* Every name that the commands use.
Used(cs) ==
  UNION { {id.name} \cup { id.index[i].name : i \in { j \in DOMAIN id.index :
                                                       ~IsNum(id.index[j]) } }
          : id \in Identifiers(cs) }
  \cup UNION { { c.args[i] : i \in DOMAIN c.args } : c \in Calls(cs) }

Arrays(args, decls) ==
  { args[i].name : i \in { j \in DOMAIN args : args[j].is_array } }
  \cup { decls[i].name : i \in { j \in DOMAIN decls : decls[j].size # <<>> } }

\* A call of an earlier procedure with an array for an array and a scalar for
\* a scalar.
Fits(call, earlier, arrays) ==
  \E p \in earlier :
    /\ p.name = call.name
    /\ Len(p.args) = Len(call.args)
    /\ \A i \in DOMAIN p.args : p.args[i].is_array <=> call.args[i] \in arrays

WellScoped(earlier, args, decls, cs) ==
  /\ Used(cs) \subseteq NamesOf(args) \cup NamesOf(decls)
  /\ \A call \in Calls(cs) : Fits(call, earlier, Arrays(args, decls))

\* A number that is an index of an array declared here is one of its indices.
WithinBounds(decls, cs) ==
  \A id \in Identifiers(cs), i \in DOMAIN decls :
    /\ id.name = decls[i].name
    /\ decls[i].size # <<>>
    /\ id.index # <<>> /\ IsNum(id.index[1])
    => id.index[1].val < decls[i].size[1]

\* Rule(args, decls, commands, earlier procedures) of all parts of a program.
Everywhere(program, Rule(_, _, _, _)) ==
  LET ps == program.procedures
      before(k) == { ps[i] : i \in 1 .. k - 1 }
  IN /\ \A k \in DOMAIN ps :
          Rule(ps[k].args, ps[k].decls, ps[k].commands, before(k))
     /\ Rule(<<>>, program.decls, program.commands, before(Len(ps) + 1))

\* All names are declared and all calls are right.
Coherent(program) ==
  Everywhere(program, LAMBDA args, decls, cs, earlier :
                        WellScoped(earlier, args, decls, cs))

Valid(program) ==
  /\ Coherent(program)
  /\ Everywhere(program, LAMBDA args, decls, cs, earlier :
                           Distinct(args, decls) /\ WithinBounds(decls, cs))
=============================================================================
