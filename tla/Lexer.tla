------------------------------- MODULE Lexer --------------------------------
(***************************************************************************)
(* The lexer (lexer.cpp), and the loop of main() over its tokens.  A text  *)
(* is a sequence of characters, and so is a lexeme.  An action is a call   *)
(* of next_token, or the part of one up to its calling itself.             *)
(*                                                                         *)
(* The type of a token is "num", "pidentifier", or the lexeme as one word, *)
(* which all other types have one of.                                      *)
(***************************************************************************)
EXTENDS Naturals, SequencesExt

VARIABLES
  text,       \* Lexer::source
  here,       \* [index, line, column]: where the lexer is
  tokens,     \* what main() has collected: [type, lexeme, line, column]
  complaints, \* and where the lexer was when it returned an error
  reading     \* "reading", "ended", or "crashed"

lexer == <<text, here, tokens, complaints, reading>>

LexerInit(texts) ==
  /\ text \in texts
  /\ here = [index |-> 1, line |-> 1, column |-> 1]
  /\ tokens = <<>>
  /\ complaints = <<>>
  /\ reading = "reading"

-----------------------------------------------------------------------------
keywords == {"PROGRAM", "PROCEDURE", "IS", "IN", "WHILE", "ENDWHILE", "IF", "ENDIF",
             "THEN", "ELSE", "DO", "READ", "WRITE", "END", "T", "REPEAT", "UNTIL"}
symbols  == {"+", "-", "*", "/", "%", "=", ">", "<", "(", ")", "[", "]", ";", ","}
doubles  == {<<"!", "=">>, <<">", "=">>, <<"<", "=">>, <<":", "=">>}

numeric   == {"0", "1", "2", "3", "4", "5", "6", "7", "8", "9"}
lowercase == {"a", "b", "c", "d", "e", "f", "g", "h", "i", "j", "k", "l", "m", "n",
              "o", "p", "q", "r", "s", "t", "u", "v", "w", "x", "y", "z", "_"}
uppercase == {"A", "B", "C", "D", "E", "F", "G", "H", "I", "J", "K", "L", "M", "N",
              "O", "P", "Q", "R", "S", "T", "U", "V", "W", "X", "Y", "Z"}
blanks    == {" ", "\t", "\n", "\r"}

\* The position behind a character, and behind all of those from p up to j.
BadBehind(p, c) == [p EXCEPT !.index = @ + 1, !.column = @ + 1]
Behind(p, c) ==
  IF c = "\n" THEN [index |-> p.index + 1, line |-> p.line + 1, column |-> 1]
              ELSE [p EXCEPT !.index = @ + 1, !.column = @ + 1]
Past(p, j) ==
  LET past[k \in p.index .. j] ==
        IF k = p.index THEN p ELSE Behind(past[k - 1], text[k - 1])
  IN past[j]

\* trim_whitespace and chop_while: past the characters that are in the set.
ChopWhile(p, set) ==
  Past(p, CHOOSE j \in p.index .. Len(text) + 1 :
            /\ j > Len(text) \/ text[j] \notin set
            /\ \A i \in p.index .. j - 1 : text[i] \in set)
Lexeme(from, to) == SubSeq(text, from.index, to.index - 1)
WordOf(lexeme)   == FoldLeft(LAMBDA word, c : word \o c, "", lexeme)

-----------------------------------------------------------------------------
First   == ChopWhile(here, blanks)
Char    == text[First.index]
Calling == reading = "reading" /\ First.index <= Len(text)

Comment ==
  /\ Calling
  /\ Char = "#"
  /\ here' = ChopWhile(First, Range(text) \ {"\n"})
  /\ UNCHANGED <<text, tokens, complaints, reading>>

\* make_token; the position is that of the first character.
Token(to, type) ==
  /\ here' = to
  /\ tokens' = Append(tokens, [type |-> type, lexeme |-> Lexeme(First, to),
                               line |-> First.line, column |-> First.column])
  /\ UNCHANGED <<text, complaints, reading>>

Complain(to) ==
  /\ here' = to
  /\ complaints' = Append(complaints, [line |-> to.line, column |-> to.column])
  /\ UNCHANGED <<text, tokens, reading>>

Number == Calling /\ Char \in numeric /\ Token(ChopWhile(First, numeric), "num")
Name   == Calling /\ Char \in lowercase /\ Token(ChopWhile(First, lowercase), "pidentifier")

Keyword ==
  /\ Calling
  /\ Char \in uppercase
  /\ LET to == ChopWhile(First, uppercase)
         word == WordOf(Lexeme(First, to))
     IN IF word \in keywords THEN Token(to, word) ELSE Complain(to)

\* Two characters if they are a symbol together: peek.
Long == First.index < Len(text) /\ <<Char, text[First.index + 1]>> \in doubles
Symbol ==
  /\ Calling
  /\ Char \notin {"#"} \cup numeric \cup lowercase \cup uppercase
  /\ LET one == Behind(First, Char)
         two == Past(First, First.index + 2)
     IN CASE Long -> Token(two, WordOf(Lexeme(First, two)))
          [] ~Long /\ Char \in symbols -> Token(one, Char)
          [] ~Long /\ Char \notin symbols -> Complain(one)

\* begin() does not compare equal to end() where the first call returns
\* nothing: main() then takes a token out of an optional that has none.
NoMore ==
  /\ reading = "reading"
  /\ First.index > Len(text)
  /\ reading' = IF tokens = <<>> /\ complaints = <<>> THEN "crashed" ELSE "ended"
  /\ here' = First
  /\ UNCHANGED <<text, tokens, complaints>>

LexerStep == Comment \/ Number \/ Name \/ Keyword \/ Symbol \/ NoMore

LexerSpec(texts) == LexerInit(texts) /\ [][LexerStep]_lexer

-----------------------------------------------------------------------------
\* The same without a lexer.  Where each line begins:
Starts == {1} \cup { n + 1 : n \in { m \in DOMAIN text : text[m] = "\n" } }
LineStarts ==
  LET starts == Starts
  IN [l \in 1 .. Cardinality(starts) |->
        CHOOSE s \in starts : Cardinality({ u \in starts : u <= s }) = l]

\* The characters from a # to the end of its line.
Commented ==
  UNION { { m \in k .. Len(text) : \A i \in k .. m : text[i] # "\n" }
          : k \in { n \in DOMAIN text : text[n] = "#" } }
Content == { n \in DOMAIN text : text[n] \notin blanks } \ Commented

\* The characters a lexeme may go on with.
MayFollow(lexeme, c) ==
  \/ \E class \in {numeric, lowercase, uppercase} :
       c \in class /\ Range(lexeme) \subseteq class
  \/ Append(lexeme, c) \in doubles

(* Each token is what stands where its line and column say, and as long as  *)
(* can be; and every character that is neither blank nor in a comment is in *)
(* one token, or right before a place where the lexer has complained.       *)
TokensAreExact ==
  reading = "ended"
    => \A lines \in {LineStarts}, content \in {Content} :
         LET place(p)  == lines[p.line] + p.column - 1
             start(n)  == place(tokens[n])
             end(n)    == place(tokens[n]) + Len(tokens[n].lexeme)
             within(n) == start(n) .. end(n) - 1
             wrong     == { place(e) : e \in Range(complaints) }
         IN /\ \A e \in Range(tokens \o complaints) :
                 e.line < Len(lines) => place(e) < lines[e.line + 1]
            /\ \A n \in DOMAIN tokens :
                 /\ tokens[n].lexeme = SubSeq(text, start(n), end(n) - 1)
                 /\ within(n) \subseteq content
                 /\ n > 1 => end(n - 1) <= start(n)
                 /\ end(n) \in content => ~MayFollow(tokens[n].lexeme, text[end(n)])
            /\ \A k \in content \ UNION { within(n) : n \in DOMAIN tokens } :
                 \E e \in wrong : k < e /\ k .. e - 1 \subseteq content
=============================================================================
