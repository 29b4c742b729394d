------------------------------- MODULE Grammar ------------------------------
(***************************************************************************)
(* The grammar of the README, apart from any parser: which places of a     *)
(* word a phrase may end before, given the places it may begin at; and the *)
(* other way, what a tree spells.  A word is a sequence of token types.    *)
(* This is a reference; it models no code.                                 *)
(*                                                                         *)
(* g.lax  commas may be left out of lists, and stand behind them; lists    *)
(*        and blocks may be empty: what the parser lets pass.              *)
(* g.open anything may follow the word: for its being a beginning.         *)
(***************************************************************************)
EXTENDS Syntax, SequencesExt, TLC

\* The place behind the word, where a phrase goes on if the word is open.
End(g) == Len(g.word) + 1

Terminal(g, s, types) ==
  { n + 1 : n \in { m \in s : m < End(g) /\ g.word[m] \in types } }
  \cup (IF g.open THEN s \cap {End(g)} ELSE {})

\* One terminal after another.
Row(g, s, row) == FoldLeft(LAMBDA r, types : Terminal(g, r, types), s, row)

Pidentifier(g, s) == Terminal(g, s, {"pidentifier"})
Indexed(g, name, indices) == name \cup Row(g, name, << {"["}, indices, {"]"} >>)
Identifier(g, s) == Indexed(g, Pidentifier(g, s), {"num", "pidentifier"})
Value(g, s) == Terminal(g, s, {"num"}) \cup Identifier(g, s)
Operation(g, s, operators) == Value(g, Terminal(g, Value(g, s), operators))
Formula(g, s) == Value(g, s) \cup Operation(g, s, {"+", "-", "*", "/", "%"})
Condition(g, s)  == Operation(g, s, {"=", "!=", ">", "<", ">=", "<="})

-----------------------------------------------------------------------------
Item(g, s, kind) ==
  CASE kind = "declaration" -> Indexed(g, Pidentifier(g, s), {"num"})
    [] kind = "formal"      -> Pidentifier(g, s \cup Terminal(g, s, {"T"}))
    [] kind = "actual"      -> Pidentifier(g, s)

\* Nothing is left to be seen: only what follows an open word.
Over(g, s) == s \ {End(g)} = {}
Rest(g, s) == IF g.open \/ g.lax THEN s ELSE {}

RECURSIVE List(_, _, _)
Further(g, s, one, kind) ==
  IF g.lax THEN s \cup List(g, one \cup Terminal(g, one, {","}), kind)
  ELSE one \cup List(g, Terminal(g, one, {","}), kind)
List(g, s, kind) ==
  IF Over(g, s) THEN Rest(g, s) ELSE Further(g, s, Item(g, s, kind), kind)

RECURSIVE Command(_, _), Commands(_, _)
More(g, s, one) == (IF g.lax THEN s ELSE {}) \cup one \cup Commands(g, one)
Commands(g, s) == IF Over(g, s) THEN Rest(g, s) ELSE More(g, s, Command(g, s))

Branches(g, then) ==
  Terminal(g, then \cup Commands(g, Terminal(g, then, {"ELSE"})), {"ENDIF"})
Command(g, s) ==
  LET to       == Terminal(g, Identifier(g, s), {":="})
      if       == Terminal(g, Condition(g, Terminal(g, s, {"IF"})), {"THEN"})
      while    == Terminal(g, Condition(g, Terminal(g, s, {"WHILE"})), {"DO"})
      repeated == Commands(g, Terminal(g, s, {"REPEAT"}))
      call     == List(g, Terminal(g, Pidentifier(g, s), {"("}), "actual")
  IN Terminal(g, Formula(g, to), {";"})
     \cup Branches(g, Commands(g, if))
     \cup Terminal(g, Commands(g, while), {"ENDWHILE"})
     \cup Terminal(g, Condition(g, Terminal(g, repeated, {"UNTIL"})), {";"})
     \cup Row(g, call, << {")"}, {";"} >>)
     \cup Terminal(g, Identifier(g, Terminal(g, s, {"READ"})), {";"})
     \cup Terminal(g, Value(g, Terminal(g, s, {"WRITE"})), {";"})

Declared(g, is) == is \cup List(g, is, "declaration")
Context(g, s) ==
  LET in == Terminal(g, Declared(g, Terminal(g, s, {"IS"})), {"IN"})
  IN Terminal(g, Commands(g, in), {"END"})

RECURSIVE Procedures(_, _)
Procedures(g, s) ==
  LET heads   == Row(g, s, << {"PROCEDURE"}, {"pidentifier"}, {"("} >>)
      formals == List(g, heads, "formal")
  IN IF Over(g, s) THEN s
     ELSE s \cup Procedures(g, Context(g, Terminal(g, formals, {")"})))

Programs(g) == Context(g, Terminal(g, Procedures(g, {1}), {"PROGRAM"}))

-----------------------------------------------------------------------------
Sentence(word) ==
  Len(word) + 1 \in Programs([word |-> word, lax |-> FALSE, open |-> FALSE])

\* The word is, or begins with, a sentence of the lax grammar.
HoldsSentence(word) == Programs([word |-> word, lax |-> TRUE, open |-> FALSE]) # {}

\* The word may be gone on with to a sentence of the lax grammar.
Beginning(word) ==
  Len(word) + 1 \in Programs([word |-> word, lax |-> TRUE, open |-> TRUE])
-----------------------------------------------------------------------------
(* The lexemes that a tree stands for, in order.                            *)

Joined(f(_), list) == FlattenSeq([k \in DOMAIN list |-> f(list[k])] \o <<>>)
Listed(f(_), list) ==
  FlattenSeq([k \in DOMAIN list |-> (IF k = 1 THEN <<>> ELSE <<",">>) \o f(list[k])] \o <<>>)

OfIndexed(name, index) ==
  IF index = <<>> THEN <<name>> ELSE <<name, "[", index[1], "]">>
OfName(v)  == IF IsNum(v) THEN ToString(v.val) ELSE v.name
OfValue(v) ==
  IF IsNum(v) THEN <<OfName(v)>>
  ELSE OfIndexed(v.name, [k \in DOMAIN v.index |-> OfName(v.index[k])])
OfBinary(e) == OfValue(e.lhs) \o <<e.op>> \o OfValue(e.rhs)

RECURSIVE OfCommands(_)
OfCommand(c) ==
  CASE c.cmd = "assign" -> OfValue(c.to) \o <<":=">> \o
                           (IF c.expr.op = "value" THEN OfValue(c.expr.lhs)
                                                   ELSE OfBinary(c.expr)) \o <<";">>
    [] c.cmd = "read"   -> <<"READ">> \o OfValue(c.to) \o <<";">>
    [] c.cmd = "write"  -> <<"WRITE">> \o OfValue(c.value) \o <<";">>
    [] c.cmd = "call"   -> <<c.name, "(">> \o Listed(LAMBDA x : <<x>>, c.args) \o <<")", ";">>
    [] c.cmd = "while"  -> <<"WHILE">> \o OfBinary(c.cond) \o <<"DO">>
                           \o OfCommands(c.commands) \o <<"ENDWHILE">>
    [] c.cmd = "repeat" -> <<"REPEAT">> \o OfCommands(c.commands) \o <<"UNTIL">>
                           \o OfBinary(c.cond) \o <<";">>
    [] c.cmd = "if"     -> <<"IF">> \o OfBinary(c.cond) \o <<"THEN">> \o OfCommands(c.commands)
                           \o Joined(LAMBDA ds : <<"ELSE">> \o OfCommands(ds), c.else)
                           \o <<"ENDIF">>
OfCommands(cs) == Joined(OfCommand, cs)

OfContext(decls, cs) ==
  <<"IS">> \o Listed(LAMBDA d : OfIndexed(d.name, [k \in DOMAIN d.size |-> ToString(d.size[k])]),
                     decls)
  \o <<"IN">> \o OfCommands(cs) \o <<"END">>
OfProcedure(p) ==
  <<"PROCEDURE", p.name, "(">>
  \o Listed(LAMBDA x : (IF x.is_array THEN <<"T">> ELSE <<>>) \o <<x.name>>, p.args)
  \o <<")">> \o OfContext(p.decls, p.commands)
OfProgram(tree) ==
  Joined(OfProcedure, tree.procedures) \o <<"PROGRAM">>
  \o OfContext(tree.decls, tree.commands)
=============================================================================
