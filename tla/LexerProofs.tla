---------------------------- MODULE LexerProofs ----------------------------
(***************************************************************************)
(* That the lexer's tokens are exact, for every text.  The invariant says  *)
(* of each position what TokensAreExact says of the end: the lexer is at a *)
(* place that is right, not inside a comment, the tokens are what the text *)
(* has there and maximal, and every character that counts is in a token or *)
(* right before a complaint.                                               *)
(***************************************************************************)
EXTENDS Lexer, Induction, SequenceTheorems

-----------------------------------------------------------------------------
\* The number of the line that begins at s, and where the line of k begins.
Rank(s)  == Cardinality({ u \in Starts : u <= s })
Begin(k) == CHOOSE s \in Starts : s <= k /\ \A u \in Starts : u <= k => u <= s

\* The place of the character at k, and a place that is right.
PointAt(k) == [index |-> k, line |-> Rank(Begin(k)), column |-> k - Begin(k) + 1]
At(p, k)   == p.line = PointAt(k).line /\ p.column = PointAt(k).column
Located(p) == p.index \in 1 .. Len(text) + 1 /\ p = PointAt(p.index)

LEMMA StartsShape ==
  ASSUME NEW S, text \in Seq(S)
  PROVE  /\ Len(text) \in Nat /\ DOMAIN text = 1 .. Len(text)
         /\ Starts \subseteq 1 .. Len(text) + 1 /\ 1 \in Starts
         /\ IsFiniteSet(Starts)
<1>1. Len(text) \in Nat /\ DOMAIN text = 1 .. Len(text)
  OBVIOUS
<1>2. Starts \subseteq 1 .. Len(text) + 1 /\ 1 \in Starts
  BY <1>1 DEF Starts
<1>3. IsFiniteSet(1 .. Len(text) + 1)
  BY <1>1, FS_Interval
<1> QED
  BY <1>1, <1>2, <1>3, FS_Subset

\* A line has the number of lines that begin no later.
LEMMA RankIs ==
  ASSUME NEW S, text \in Seq(S), NEW s \in Starts
  PROVE  /\ Rank(s) \in 1 .. Cardinality(Starts)
         /\ Cardinality(Starts) \in Nat
         /\ \A t \in Starts : s < t => Rank(s) < Rank(t)
<1> DEFINE Till(t) == { u \in Starts : u <= t }
<1>1. IsFiniteSet(Starts) /\ Starts \subseteq Nat
  BY StartsShape
<1>2. Cardinality(Starts) \in Nat /\ Cardinality(Starts \ {s}) = Cardinality(Starts) - 1
  BY <1>1, FS_CardinalityType, FS_RemoveElement
<1>3. \A t \in Starts : IsFiniteSet(Till(t)) /\ Cardinality(Till(t)) <= Cardinality(Starts)
                        /\ Cardinality(Till(t)) \in Nat
  BY <1>1, FS_Subset, FS_CardinalityType
<1>4. Cardinality(Till(s)) >= 1
  <2>1. s \in Till(s)
    BY <1>1
  <2>2. Till(s) # {}
    BY <2>1
  <2> HIDE DEF Till
  <2>3. Cardinality(Till(s)) # 0
    BY <1>3, <2>2, FS_EmptySet
  <2> QED
    BY <1>3, <2>3
<1>5. ASSUME NEW t \in Starts, s < t PROVE Cardinality(Till(s)) < Cardinality(Till(t))
  <2>4. s \in Nat /\ t \in Nat /\ \A u \in Starts : u \in Nat /\ (u <= s => u <= t)
    BY <1>1, <1>5
  <2>6. t \in Till(t)
    BY <2>4
  <2>7. t \notin Till(s)
    BY <1>5, <2>4
  <2>8. Till(s) \subseteq Till(t)
    BY <1>5, <2>4
  <2>1. t \in Till(t) /\ t \notin Till(s) /\ Till(s) \subseteq Till(t)
    BY <2>6, <2>7, <2>8
  <2> HIDE DEF Till
  <2>2. Till(s) \subseteq Till(t) \ {t}
    BY <2>1
  <2>3. IsFiniteSet(Till(t) \ {t}) /\ Cardinality(Till(t) \ {t}) = Cardinality(Till(t)) - 1
    BY <1>3, <2>1, FS_RemoveElement
  <2>5. Cardinality(Till(s)) <= Cardinality(Till(t) \ {t})
    BY <2>2, <2>3, FS_Subset
  <2> QED
    BY <1>3, <2>3, <2>5
<1>6. \A t : Rank(t) = Cardinality(Till(t))
  BY DEF Rank
<1> HIDE DEF Till
<1> QED
  BY <1>2, <1>3, <1>4, <1>5, <1>6

LEMMA RanksDiffer ==
  ASSUME NEW S, text \in Seq(S), NEW s \in Starts, NEW t \in Starts
  PROVE  /\ Rank(s) = Rank(t) => s = t
         /\ Rank(s) < Rank(t) => s < t
<1>1. Starts \subseteq Nat
  BY StartsShape
<1>2. s < t => Rank(s) < Rank(t)
  BY RankIs
<1>3. t < s => Rank(t) < Rank(s)
  BY RankIs
<1>4. Rank(s) \in Nat /\ Rank(t) \in Nat
  BY RankIs
<1> QED
  BY <1>1, <1>2, <1>3, <1>4

\* LineStarts gives the line of that number, and the one behind it.
LEMMA LineStartsIs ==
  ASSUME NEW S, text \in Seq(S)
  PROVE  /\ Len(LineStarts) = Cardinality(Starts)
         /\ \A s \in Starts : LineStarts[Rank(s)] = s
<1>1. Cardinality(Starts) \in Nat /\ Starts \subseteq Nat /\ IsFiniteSet(Starts)
  BY StartsShape, RankIs
<1>2. LineStarts = [l \in 1 .. Cardinality(Starts) |-> CHOOSE s \in Starts : Rank(s) = l]
  BY DEF LineStarts, Rank
<1>3. ASSUME NEW s \in Starts PROVE LineStarts[Rank(s)] = s
  <2>1. Rank(s) \in 1 .. Cardinality(Starts)
    BY RankIs
  <2>2. LineStarts[Rank(s)] = CHOOSE t \in Starts : Rank(t) = Rank(s)
    BY <1>2, <2>1
  <2>3. \A t \in Starts : Rank(t) = Rank(s) => t = s
    BY RanksDiffer
  <2> QED
    BY <2>2, <2>3
<1>4. Len(LineStarts) = Cardinality(Starts)
  <2> DEFINE f == LineStarts
             n == Cardinality(Starts)
             R == { f[l] : l \in 1 .. n }
  <2>1. f \in [1 .. n -> R]
    BY <1>2
  <2>2. n \in Nat
    BY <1>1
  <2> HIDE DEF f, n, R
  <2>3. f \in Seq(R) /\ Len(f) = n
    BY <2>1, <2>2
  <2> QED
    BY <2>3 DEF f, n
<1> QED
  BY <1>3, <1>4

\* The line behind a line begins behind all of it.
LEMMA NextLine ==
  ASSUME NEW S, text \in Seq(S), NEW s \in Starts, Rank(s) < Len(LineStarts)
  PROVE  LineStarts[Rank(s) + 1] \in Starts /\ LineStarts[Rank(s) + 1] > s
<1> DEFINE T == { u \in Starts : s < u }
           Till(t) == { u \in Starts : u <= t }
<1>1. IsFiniteSet(Starts) /\ Starts \subseteq Nat /\ Rank(s) < Cardinality(Starts)
  BY StartsShape, LineStartsIs
<1>2. T # {}
  <2> SUFFICES ASSUME T = {} PROVE FALSE
    OBVIOUS
  <2>3. \A u \in Starts : u <= s
    <3>1. \A u \in Starts : u \in Nat /\ s \in Nat /\ ~(s < u)
      BY <1>1
    <3> QED
      BY <3>1
  <2>1. Till(s) = Starts
    BY <2>3
  <2>2. Rank(s) = Cardinality(Starts) /\ Rank(s) \in Nat
    BY <2>1, RankIs DEF Rank
  <2> QED
    BY <1>1, <2>2
<1>3. PICK t \in T : \A u \in T : t <= u
  <2>1. T \in SUBSET Nat
    BY <1>1
  <2> HIDE DEF T
  <2> QED
    BY <1>2, <2>1, Least
<1>4. Till(t) = Till(s) \cup {t} /\ t \notin Till(s)
  <2>1. s \in Nat /\ t \in Nat /\ t \in Starts /\ s < t
    BY <1>1
  <2>2. ASSUME NEW u \in Starts PROVE u <= t <=> (u <= s \/ u = t)
    <3>1. u \in Nat /\ (s < u => t <= u)
      BY <1>1, <1>3
    <3> QED
      BY <2>1, <3>1
  <2>3. Till(t) \subseteq Till(s) \cup {t}
    BY <2>2
  <2>4. Till(s) \subseteq Till(t)
    BY <2>2
  <2>5. t \in Till(t)
    BY <2>1, <2>2
  <2>6. t \notin Till(s)
    BY <2>1
  <2> QED
    BY <2>3, <2>4, <2>5, <2>6
<1>5. IsFiniteSet(Till(s))
  BY <1>1, FS_Subset
<1>6. Rank(t) = Rank(s) + 1
  <2>1. Rank(t) = Cardinality(Till(t)) /\ Rank(s) = Cardinality(Till(s))
    BY DEF Rank
  <2> DEFINE A == Till(s)  B == Till(t)
  <2>2. IsFiniteSet(A) /\ t \notin A /\ B = A \cup {t}
    BY <1>4, <1>5
  <2> HIDE DEF A, B
  <2>3. Cardinality(A \cup {t}) = IF t \in A THEN Cardinality(A) ELSE Cardinality(A) + 1
    BY <2>2, FS_AddElement
  <2>4. Cardinality(B) = Cardinality(A) + 1
    BY <2>2, <2>3
  <2> QED
    BY <2>1, <2>4 DEF A, B
<1>7. LineStarts[Rank(t)] = t
  BY LineStartsIs
<1> QED
  BY <1>1, <1>6, <1>7

\* A place that is right tells the character there, and is in its line.
Place(p)  == LineStarts[p.line] + p.column - 1
InLine(p) == p.line < Len(LineStarts) => Place(p) < LineStarts[p.line + 1]

LEMMA BeginIs ==
  ASSUME NEW S, text \in Seq(S), NEW k \in 1 .. Len(text) + 1
  PROVE  /\ Begin(k) \in Starts /\ Begin(k) \in Nat /\ Begin(k) >= 1 /\ Begin(k) <= k
         /\ \A u \in Starts : u <= k => u <= Begin(k)
<1>1. Starts \subseteq 1 .. Len(text) + 1 /\ 1 \in Starts /\ Len(text) \in Nat
  BY StartsShape
<1> DEFINE T == { k - u : u \in { v \in Starts : v <= k } }
<1>2. T \in SUBSET Nat /\ T # {}
  BY <1>1
<1>3. PICK d \in T : \A e \in T : d <= e
  <2> HIDE DEF T
  <2> QED
    BY <1>2, Least
<1>4. PICK s \in Starts : s <= k /\ d = k - s
  OBVIOUS
<1>5. \A u \in Starts : u <= k => u <= s
  <2> SUFFICES ASSUME NEW u \in Starts, u <= k PROVE u <= s
    OBVIOUS
  <2>1. k - u \in T /\ u \in Nat /\ s \in Nat
    BY <1>1
  <2>2. d <= k - u
    BY <1>3, <2>1
  <2> QED
    BY <1>4, <2>1, <2>2
<1> DEFINE b == Begin(k)
<1>6. b \in Starts /\ b <= k /\ \A u \in Starts : u <= k => u <= b
  BY <1>4, <1>5 DEF Begin
<1> HIDE DEF b
<1>7. b \in Nat /\ b >= 1
  BY <1>1, <1>6
<1> QED
  BY <1>6, <1>7 DEF b

LEMMA PlaceIs ==
  ASSUME NEW S, text \in Seq(S), NEW k \in 1 .. Len(text) + 1, NEW p, At(p, k)
  PROVE  Place(p) = k /\ InLine(p)
<1> DEFINE s == Begin(k)
<1>1. k \in 1 .. Len(text) + 1 /\ Len(text) \in Nat
  BY StartsShape
<1>2. s \in Starts /\ s \in Nat /\ s <= k /\ \A u \in Starts : u <= k => u <= s
  BY <1>1, BeginIs
<1>3. p.line = Rank(s) /\ p.column = k - s + 1
  BY DEF At, PointAt
<1> HIDE DEF s
<1>4. LineStarts[Rank(s)] = s
  BY <1>2, LineStartsIs
<1>5. Place(p) = k
  BY <1>1, <1>2, <1>3, <1>4 DEF Place
<1>6. ASSUME Rank(s) < Len(LineStarts) PROVE k < LineStarts[Rank(s) + 1]
  <2>1. LineStarts[Rank(s) + 1] \in Starts /\ LineStarts[Rank(s) + 1] > s
    BY <1>2, <1>6, NextLine
  <2> DEFINE u == LineStarts[Rank(s) + 1]
  <2>2. u \in Starts /\ u \in Nat /\ u > s
    BY <2>1, StartsShape
  <2> HIDE DEF u
  <2>3. ~(u <= k) /\ k \in Nat
    BY <1>1, <1>2, <2>2
  <2>4. k < u
    BY <2>2, <2>3
  <2> QED
    BY <2>4 DEF u
<1>7. InLine(p)
  BY <1>3, <1>5, <1>6 DEF InLine
<1> QED
  BY <1>5, <1>7

\* The place behind a character is right, too.
LEMMA BehindLocated ==
  ASSUME NEW S, text \in Seq(S), NEW p, Located(p), p.index <= Len(text)
  PROVE  Behind(p, text[p.index]) = PointAt(p.index + 1)
<1> DEFINE k == p.index
           s == Begin(k)
           Till(t) == { u \in Starts : u <= t }
<1>1. k \in 1 .. Len(text) /\ Len(text) \in Nat /\ k + 1 \in 1 .. Len(text) + 1
      /\ k \in 1 .. Len(text) + 1 /\ k \in Nat
  BY StartsShape DEF Located
<1>2. s \in Starts /\ s \in Nat /\ s <= k /\ \A u \in Starts : u <= k => u <= s
  BY <1>1, BeginIs
<1>3. p = [index |-> k, line |-> Rank(s), column |-> k - s + 1]
  BY DEF Located, PointAt
<1>4. Starts \subseteq Nat /\ IsFiniteSet(Starts)
  BY StartsShape
<1>5. Begin(k + 1) \in Starts /\ Begin(k + 1) \in Nat /\ Begin(k + 1) <= k + 1
      /\ \A u \in Starts : u <= k + 1 => u <= Begin(k + 1)
  BY <1>1, BeginIs
<1>6. CASE text[k] = "\n"
  <2>1. k + 1 \in Starts
    <3>1. k \in DOMAIN text
      BY <1>1, StartsShape
    <3> QED
      BY <1>6, <3>1 DEF Starts
  <2>2. Begin(k + 1) = k + 1
    BY <1>1, <1>5, <2>1
  <2>3. Rank(k + 1) = Rank(s) + 1
    <3>1. \A u \in Starts : u \in Nat /\ (u <= k + 1 <=> u <= s \/ u = k + 1)
      <4> SUFFICES ASSUME NEW u \in Starts PROVE u \in Nat /\ (u <= k + 1 <=> u <= s \/ u = k + 1)
        OBVIOUS
      <4>1. u \in Nat /\ (u <= k => u <= s)
        BY <1>2, <1>4
      <4> HIDE DEF k, s
      <4> QED
        BY <1>1, <1>2, <4>1
    <3>2. Till(k + 1) \subseteq Till(s) \cup {k + 1}
      BY <3>1
    <3>3. Till(s) \cup {k + 1} \subseteq Till(k + 1)
      BY <2>1, <3>1
    <3>4. k + 1 \notin Till(s) /\ IsFiniteSet(Till(s))
      BY <1>1, <1>2, <1>4, FS_Subset
    <3>5. Rank(k + 1) = Cardinality(Till(k + 1)) /\ Rank(s) = Cardinality(Till(s))
      BY DEF Rank
    <3> HIDE DEF Till, s, k
    <3>6. Till(k + 1) = Till(s) \cup {k + 1}
      BY <3>2, <3>3
    <3> QED
      BY <3>4, <3>5, <3>6, FS_AddElement
  <2>4. Behind(p, text[k]) = [index |-> k + 1, line |-> Rank(s) + 1, column |-> 1]
    BY <1>3, <1>6 DEF Behind
  <2>5. (k + 1) - (k + 1) + 1 = 1
    BY <1>1
  <2> HIDE DEF k, s
  <2>6. PointAt(k + 1) = [index |-> k + 1, line |-> Rank(s) + 1, column |-> 1]
    BY <2>2, <2>3, <2>5 DEF PointAt
  <2> QED
    BY <2>4, <2>6 DEF k
<1>7. CASE text[k] # "\n"
  <2>1. k + 1 \notin Starts
    BY <1>1, <1>7, StartsShape DEF Starts
  <2>2. Begin(k + 1) <= k
    BY <1>1, <1>5, <2>1
  <2>3. Begin(k + 1) = s
    BY <1>1, <1>2, <1>5, <2>2
  <2>4. Behind(p, text[k]) = [index |-> k + 1, line |-> Rank(s), column |-> k - s + 1 + 1]
    <3>1. Behind(p, text[k]) = [p EXCEPT !.index = @ + 1, !.column = @ + 1]
      BY <1>7 DEF Behind
    <3> DEFINE m == k - s + 1
               r == Rank(s)
    <3> HIDE DEF m, r, k, s
    <3>2. p = [index |-> k, line |-> r, column |-> m]
      BY <1>3 DEF m, r
    <3>3. Behind(p, text[k]) = [index |-> k + 1, line |-> r, column |-> m + 1]
      BY <3>1, <3>2
    <3> QED
      BY <3>3 DEF m, r
  <2>5. (k + 1) - s + 1 = k - s + 1 + 1
    BY <1>1, <1>2
  <2> HIDE DEF k, s
  <2>6. PointAt(k + 1) = [index |-> k + 1, line |-> Rank(s), column |-> k - s + 1 + 1]
    BY <2>3, <2>5 DEF PointAt
  <2> QED
    BY <2>4, <2>6 DEF k
<1> QED
  BY <1>6, <1>7

\* Past goes to the place that is right for an index.
LEMMA PastIs ==
  ASSUME NEW S, text \in Seq(S), NEW p, Located(p), NEW j \in p.index .. Len(text) + 1
  PROVE  Past(p, j) = PointAt(j) /\ Located(Past(p, j)) /\ Past(p, j).index = j
<1> DEFINE a == p.index
           Walks(f) == f = [k \in a .. j |-> IF k = a THEN p ELSE Behind(f[k - 1], text[k - 1])]
<1>1. a \in 1 .. Len(text) + 1 /\ Len(text) \in Nat /\ a \in Nat /\ j \in Nat /\ a <= j
      /\ p = PointAt(a)
  BY StartsShape DEF Located
<1>2. ASSUME NEW k \in a .. j, k # a
      PROVE  k - 1 \in a .. j /\ PointAt(k) = Behind(PointAt(k - 1), text[k - 1])
  <2> DEFINE q == PointAt(k - 1)
  <2>1. k - 1 \in a .. j /\ k - 1 \in 1 .. Len(text) + 1 /\ k - 1 <= Len(text) /\ (k - 1) + 1 = k
    BY <1>1, <1>2
  <2>2. q.index = k - 1
    BY DEF PointAt
  <2>3. Located(q)
    BY <2>1, <2>2 DEF Located
  <2> HIDE DEF q
  <2>4. Behind(q, text[k - 1]) = PointAt((k - 1) + 1)
    BY <2>1, <2>2, <2>3, BehindLocated
  <2> QED
    BY <2>1, <2>4 DEF q
<1> DEFINE e == [k \in a .. j |-> PointAt(k)]
<1> HIDE DEF a
<1>3. Walks(e)
  <2>1. ASSUME NEW k \in a .. j
        PROVE  e[k] = IF k = a THEN p ELSE Behind(e[k - 1], text[k - 1])
    BY <1>1, <1>2
  <2>2. e = [k \in a .. j |-> e[k]]
    OBVIOUS
  <2> QED
    BY <2>1, <2>2
<1> DEFINE g == CHOOSE f : Walks(f)
<1>4. Walks(g)
  <2> HIDE DEF Walks, e
  <2> QED
    BY <1>3
<1> HIDE DEF g
<1>5. ASSUME NEW k \in a .. j
      PROVE  g[k] = IF k = a THEN p ELSE Behind(g[k - 1], text[k - 1])
  BY <1>4
<1>6. \A k \in a .. j : g[k] = PointAt(k)
  <2> DEFINE D == { k \in a .. j : g[k] # PointAt(k) }
  <2> SUFFICES ASSUME D # {} PROVE FALSE
    OBVIOUS
  <2>1. D \in SUBSET Nat
    BY <1>1
  <2>2. PICK k \in D : \A m \in D : k <= m
    <3> HIDE DEF D
    <3> QED
      BY <2>1, Least
  <2>3. k \in a .. j /\ g[k] # PointAt(k)
    OBVIOUS
  <2>4. CASE k = a
    BY <1>1, <1>5, <2>3, <2>4
  <2>5. CASE k # a
    <3>1. k - 1 \in a .. j /\ PointAt(k) = Behind(PointAt(k - 1), text[k - 1])
      BY <1>2, <2>3, <2>5
    <3>2. k - 1 \notin D
      BY <1>1, <2>2, <2>3
    <3>3. g[k - 1] = PointAt(k - 1)
      BY <3>1, <3>2
    <3> QED
      BY <1>5, <2>3, <2>5, <3>1, <3>3
  <2> QED
    BY <2>4, <2>5
<1>7. Past(p, j) = g[j]
  BY DEF Past, g, a
<1>8. j \in a .. j /\ j \in 1 .. Len(text) + 1
  BY <1>1
<1>9. Past(p, j) = PointAt(j)
  BY <1>6, <1>7, <1>8
<1>10. PointAt(j).index = j
  BY DEF PointAt
<1> QED
  BY <1>8, <1>9, <1>10 DEF Located

\* ChopWhile goes past all characters of the set, and no further.
LEMMA ChopIs ==
  ASSUME NEW S, text \in Seq(S), NEW p, Located(p), NEW set
  PROVE  LET q == ChopWhile(p, set)
         IN /\ Located(q)
            /\ p.index <= q.index
            /\ q.index > Len(text) \/ text[q.index] \notin set
            /\ \A i \in p.index .. q.index - 1 : text[i] \in set
<1> DEFINE n == Len(text)
           a == p.index
           T == { j \in a .. n + 1 : j > n \/ text[j] \notin set }
           J(j) == /\ j > n \/ text[j] \notin set
                   /\ \A i \in a .. j - 1 : text[i] \in set
<1>1. a \in 1 .. n + 1 /\ n \in Nat /\ a \in Nat
  BY StartsShape DEF Located
<1> HIDE DEF n, a
<1>2. n + 1 \in T /\ T \in SUBSET Nat
  BY <1>1
<1>3. PICK j \in T : \A m \in T : j <= m
  <2> HIDE DEF T
  <2> QED
    BY <1>2, Least
<1>4. j \in a .. n + 1 /\ J(j)
  <2>1. j \in a .. n + 1 /\ (j > n \/ text[j] \notin set)
    OBVIOUS
  <2>2. ASSUME NEW i \in a .. j - 1 PROVE text[i] \in set
    <3>1. i \in a .. n + 1 /\ i < j /\ ~(j <= i)
      BY <1>1, <2>1
    <3>2. i \notin T
      BY <1>3, <3>1
    <3> QED
      BY <3>1, <3>2
  <2> QED
    BY <2>1, <2>2
<1> DEFINE c == CHOOSE m \in a .. n + 1 : J(m)
<1>5. c \in a .. n + 1 /\ J(c)
  <2> HIDE DEF J
  <2> QED
    BY <1>4
<1>6. ChopWhile(p, set) = Past(p, c)
  BY DEF ChopWhile, n, a
<1> HIDE DEF c
<1>7. Located(Past(p, c)) /\ Past(p, c).index = c
  BY <1>5, PastIs DEF n, a
<1> DEFINE q == ChopWhile(p, set)
<1>8. Located(q) /\ q.index = c
  BY <1>6, <1>7
<1>9. c \in Nat /\ a <= c
  BY <1>1, <1>5
<1> HIDE DEF q
<1> QED
  BY <1>5, <1>8, <1>9 DEF q, n, a
-----------------------------------------------------------------------------
\* What a position says of the text before it: no comment goes on there.
Uncommented(h) ==
  \A k \in 1 .. h - 1 : text[k] = "#" => \E i \in k .. h : i > Len(text) \/ text[i] = "\n"

\* A token is the text from i to before j, and that as long as can be.
IsToken(t, i, j) ==
  /\ i \in 1 .. Len(text) + 1 /\ j \in i .. Len(text) + 1
  /\ At(t, i)
  /\ t.lexeme = SubSeq(text, i, j - 1)
  /\ i .. j - 1 \subseteq Content
  /\ j \in Content => ~MayFollow(t.lexeme, text[j])

End(t)       == Place(t) + Len(t.lexeme)
Within(t, k) == Place(t) <= k /\ k < End(t)
Before(e, k) == k < Place(e) /\ k .. Place(e) - 1 \subseteq Content

\* The tokens and complaints ts and cs are what there is before h.
AreTokens(ts, h) ==
  \A n \in DOMAIN ts : IsToken(ts[n], Place(ts[n]), End(ts[n])) /\ End(ts[n]) <= h
InOrder(ts)   == \A n \in DOMAIN ts : n > 1 => End(ts[n - 1]) <= Place(ts[n])
ArePlaces(cs) == \A n \in DOMAIN cs : \E k \in 1 .. Len(text) + 1 : At(cs[n], k)
Covered(ts, cs, k) == \/ \E n \in DOMAIN ts : Within(ts[n], k)
                      \/ \E n \in DOMAIN cs : Before(cs[n], k)
Read(ts, cs, h) ==
  /\ AreTokens(ts, h)
  /\ InOrder(ts)
  /\ ArePlaces(cs)
  /\ \A k \in Content : k < h => Covered(ts, cs, k)

Goes(ts, cs, p) ==
  /\ ts \in Seq(Range(ts)) /\ cs \in Seq(Range(cs))
  /\ Located(p)
  /\ Uncommented(p.index)
  /\ Read(ts, cs, p.index)

LexerInvariant ==
  /\ text \in Seq(Range(text))
  /\ Goes(tokens, complaints, here)
  /\ reading # "reading" => here.index = Len(text) + 1

-----------------------------------------------------------------------------
LEMMA RangeSeq ==
  ASSUME NEW S, NEW s \in Seq(S)
  PROVE  s \in Seq(Range(s))
<1>1. s \in [1 .. Len(s) -> Range(s)] /\ Len(s) \in Nat
  BY DEF Range
<1> QED
  BY <1>1

LEMMA ContentIs ==
  ASSUME NEW S, text \in Seq(S), NEW k
  PROVE  k \in Content <=>
           /\ k \in 1 .. Len(text) /\ text[k] \notin blanks
           /\ ~ \E n \in 1 .. k : text[n] = "#" /\ \A i \in n .. k : text[i] # "\n"
<1>1. Len(text) \in Nat /\ DOMAIN text = 1 .. Len(text)
  BY StartsShape
<1>2. k \in Commented <=>
        \E n \in 1 .. Len(text) :
          text[n] = "#" /\ k \in n .. Len(text) /\ \A i \in n .. k : text[i] # "\n"
  BY <1>1 DEF Commented
<1>3. k \in Content <=> k \in 1 .. Len(text) /\ text[k] \notin blanks /\ k \notin Commented
  BY <1>1 DEF Content
<1>4. ASSUME k \in 1 .. Len(text)
      PROVE  k \in Commented <=> \E n \in 1 .. k : text[n] = "#" /\ \A i \in n .. k : text[i] # "\n"
  <2>1. \A n : n \in 1 .. Len(text) /\ k \in n .. Len(text) <=> n \in 1 .. k
    BY <1>1, <1>4
  <2> QED
    BY <1>2, <2>1
<1> QED
  BY <1>3, <1>4

\* No comment, no #: what is not blank from there on is content.
LEMMA Fresh ==
  ASSUME NEW S, text \in Seq(S), NEW h \in 1 .. Len(text) + 1, Uncommented(h),
         NEW j \in h .. Len(text) + 1, \A m \in h .. j - 1 : text[m] # "#" /\ text[m] \notin blanks
  PROVE  h .. j - 1 \subseteq Content
<1> SUFFICES ASSUME NEW k \in h .. j - 1 PROVE k \in Content
  OBVIOUS
<1>1. Len(text) \in Nat
  BY StartsShape
<1>2. k \in 1 .. Len(text) /\ text[k] \notin blanks /\ h \in Nat /\ k \in Nat /\ h <= k
  BY <1>1
<1>3. ASSUME NEW n \in 1 .. k, text[n] = "#", \A i \in n .. k : text[i] # "\n"
      PROVE  FALSE
  <2>1. ~(n \in h .. j - 1)
    BY <1>3
  <2>2. n \in 1 .. h - 1
    BY <1>2, <2>1
  <2>3. PICK i \in n .. h : i > Len(text) \/ text[i] = "\n"
    BY <1>3, <2>2 DEF Uncommented
  <2>4. i \in n .. k /\ ~(i > Len(text))
    BY <1>1, <1>2, <2>3
  <2> QED
    BY <1>3, <2>3, <2>4
<1>4. ~ \E n \in 1 .. k : text[n] = "#" /\ \A i \in n .. k : text[i] # "\n"
  BY <1>3
<1> QED
  BY <1>2, <1>4, ContentIs

LEMMA UncommentedOn ==
  ASSUME NEW S, text \in Seq(S), NEW h \in 1 .. Len(text) + 1, Uncommented(h),
         NEW j \in h .. Len(text) + 1, \A m \in h .. j - 1 : text[m] # "#"
  PROVE  Uncommented(j)
<1>1. Len(text) \in Nat
  BY StartsShape
<1>2. ASSUME NEW k \in 1 .. j - 1, text[k] = "#"
      PROVE  \E i \in k .. j : i > Len(text) \/ text[i] = "\n"
  <2>1. ~(k \in h .. j - 1)
    BY <1>2
  <2>2. k \in 1 .. h - 1
    BY <1>1, <2>1
  <2>3. PICK i \in k .. h : i > Len(text) \/ text[i] = "\n"
    BY <1>2, <2>2 DEF Uncommented
  <2>4. i \in k .. j
    BY <1>1
  <2> QED
    BY <2>3, <2>4
<1> QED
  BY <1>2 DEF Uncommented

\* Where the lexer looks first: blanks are passed, and nothing else.
LEMMA FirstIs ==
  ASSUME NEW S, text \in Seq(S), Located(here), Uncommented(here.index)
  PROVE  /\ Located(First)
         /\ here.index \in 1 .. Len(text) + 1
         /\ First.index \in here.index .. Len(text) + 1
         /\ First.index \in 1 .. Len(text) + 1
         /\ First.index <= Len(text) => Char \notin blanks
         /\ \A k \in here.index .. First.index - 1 : k \notin Content
         /\ Uncommented(First.index)
<1>1. Len(text) \in Nat
  BY StartsShape
<1> DEFINE q == First
           h == here.index
<1>2. h \in 1 .. Len(text) + 1
  BY DEF Located
<1>3. /\ Located(q) /\ h <= q.index
      /\ q.index > Len(text) \/ text[q.index] \notin blanks
      /\ \A i \in h .. q.index - 1 : text[i] \in blanks
  BY ChopIs DEF First
<1>4. q.index \in 1 .. Len(text) + 1
  BY <1>3 DEF Located
<1>5. q.index <= Len(text) => Char \notin blanks
  <2> HIDE DEF q
  <2> QED
    BY <1>1, <1>3, <1>4 DEF q, Char
<1> HIDE DEF q, h
<1>6. q.index \in h .. Len(text) + 1
  BY <1>1, <1>2, <1>3, <1>4
<1>7. \A k \in h .. q.index - 1 : k \notin Content
  BY <1>3, ContentIs
<1>8. \A k \in h .. q.index - 1 : text[k] # "#"
  BY <1>3 DEF blanks
<1>9. Uncommented(q.index)
  BY <1>2, <1>6, <1>8, UncommentedOn DEF h
<1> QED
  BY <1>2, <1>3, <1>4, <1>5, <1>6, <1>7, <1>9 DEF q, h
-----------------------------------------------------------------------------
\* Tokens that end by h end by what is behind h.
LEMMA EndsBefore ==
  ASSUME NEW S, text \in Seq(S), NEW ts, NEW h \in 1 .. Len(text) + 1, AreTokens(ts, h),
         NEW j \in h .. Len(text) + 1
  PROVE  AreTokens(ts, j)
<1>1. Len(text) \in Nat
  BY StartsShape
<1> SUFFICES ASSUME NEW n \in DOMAIN ts
             PROVE  IsToken(ts[n], Place(ts[n]), End(ts[n])) /\ End(ts[n]) <= j
  BY DEF AreTokens
<1>2. IsToken(ts[n], Place(ts[n]), End(ts[n])) /\ End(ts[n]) <= h
  BY DEF AreTokens
<1> DEFINE a == Place(ts[n])
           b == End(ts[n])
<1> HIDE DEF a, b
<1>3. a \in 1 .. Len(text) + 1 /\ b \in a .. Len(text) + 1
  BY <1>2 DEF IsToken, a, b
<1>4. b <= h
  BY <1>2 DEF b
<1>5. b <= j
  BY <1>1, <1>3, <1>4
<1> QED
  BY <1>2, <1>5 DEF b

\* Going on over characters that are no content.
LEMMA ReadOn ==
  ASSUME NEW S, text \in Seq(S), NEW ts, NEW cs, NEW h \in 1 .. Len(text) + 1,
         Read(ts, cs, h), ts \in Seq(Range(ts)),
         NEW j \in h .. Len(text) + 1, \A k \in h .. j - 1 : k \notin Content
  PROVE  Read(ts, cs, j)
<1>1. Len(text) \in Nat
  BY StartsShape
<1>2. AreTokens(ts, j)
  BY EndsBefore DEF Read
<1>3. ASSUME NEW k \in Content, k < j PROVE Covered(ts, cs, k)
  <2>1. k \in 1 .. Len(text)
    BY ContentIs
  <2>2. ~(k \in h .. j - 1)
    BY <1>3
  <2>3. k < h
    BY <1>1, <1>3, <2>1, <2>2
  <2> QED
    BY <2>3 DEF Read
<1> QED
  BY <1>2, <1>3 DEF Read

\* One more token.
LEMMA OneMoreToken ==
  ASSUME NEW S, text \in Seq(S), NEW ts, NEW cs, NEW i \in 1 .. Len(text) + 1,
         Read(ts, cs, i), ts \in Seq(Range(ts)),
         NEW j, NEW t, IsToken(t, i, j)
  PROVE  Read(Append(ts, t), cs, j)
<1> DEFINE us == Append(ts, t)
           n == Len(ts) + 1
<1>1. Len(text) \in Nat /\ i \in Nat /\ j \in Nat /\ i <= j /\ j <= Len(text) + 1
  BY StartsShape DEF IsToken
<1>2. /\ Len(ts) \in Nat /\ DOMAIN ts = 1 .. Len(ts) /\ DOMAIN us = 1 .. n
      /\ us[n] = t /\ \A m \in DOMAIN ts : us[m] = ts[m]
  OBVIOUS
<1> HIDE DEF us
<1>3. Place(t) = i
  BY PlaceIs DEF IsToken
<1>4. End(t) = j
  <2>1. t.lexeme = SubSeq(text, i, j - 1)
    BY DEF IsToken
  <2>2. Len(SubSeq(text, i, j - 1)) = j - i
    BY <1>1
  <2> QED
    BY <1>1, <1>3, <2>1, <2>2 DEF End
<1>5. ASSUME NEW m \in DOMAIN ts
      PROVE  /\ IsToken(ts[m], Place(ts[m]), End(ts[m]))
             /\ End(ts[m]) <= i /\ End(ts[m]) \in Nat /\ End(ts[m]) <= j
  <2>1. IsToken(ts[m], Place(ts[m]), End(ts[m])) /\ End(ts[m]) <= i
    BY DEF Read, AreTokens
  <2> DEFINE a == Place(ts[m])
             b == End(ts[m])
  <2> HIDE DEF a, b
  <2>2. a \in 1 .. Len(text) + 1 /\ b \in a .. Len(text) + 1
    BY <2>1 DEF IsToken, a, b
  <2>3. b <= i
    BY <2>1 DEF b
  <2>4. b \in Nat /\ b <= j
    BY <1>1, <2>2, <2>3
  <2> QED
    BY <2>1, <2>4 DEF b
<1>6. AreTokens(us, j)
  <2> SUFFICES ASSUME NEW m \in DOMAIN us
               PROVE  IsToken(us[m], Place(us[m]), End(us[m])) /\ End(us[m]) <= j
    BY DEF AreTokens
  <2>1. CASE m = n
    <3>1. j <= j
      BY <1>1
    <3> QED
      BY <1>2, <1>3, <1>4, <2>1, <3>1
  <2>2. CASE m # n
    <3>1. m \in DOMAIN ts
      BY <1>2, <2>2
    <3> QED
      BY <1>2, <1>5, <3>1
  <2> QED
    BY <2>1, <2>2
<1>7. InOrder(us)
  <2> SUFFICES ASSUME NEW m \in DOMAIN us, m > 1 PROVE End(us[m - 1]) <= Place(us[m])
    BY DEF InOrder
  <2>1. m - 1 \in DOMAIN ts
    BY <1>2
  <2>2. CASE m = n
    BY <1>2, <1>3, <1>5, <2>1, <2>2
  <2>3. CASE m # n
    <3>1. m \in DOMAIN ts
      BY <1>2, <2>3
    <3> QED
      BY <1>2, <2>1, <3>1 DEF Read, InOrder
  <2> QED
    BY <2>2, <2>3
<1>8. ASSUME NEW k \in Content, k < j PROVE Covered(us, cs, k)
  <2>1. k \in 1 .. Len(text)
    BY ContentIs
  <2>2. CASE k < i
    <3>1. Covered(ts, cs, k)
      BY <2>2 DEF Read
    <3>2. CASE \E m \in DOMAIN ts : Within(ts[m], k)
      <4>1. PICK m \in DOMAIN ts : Within(ts[m], k)
        BY <3>2
      <4>2. m \in DOMAIN us /\ us[m] = ts[m]
        BY <1>2
      <4> QED
        BY <4>1, <4>2 DEF Covered
    <3> QED
      BY <3>1, <3>2 DEF Covered
  <2>3. CASE ~(k < i)
    <3>1. i <= k
      BY <1>1, <2>1, <2>3
    <3>2. Within(t, k)
      BY <1>3, <1>4, <1>8, <3>1 DEF Within
    <3>3. n \in DOMAIN us /\ us[n] = t
      BY <1>2
    <3> QED
      BY <3>2, <3>3 DEF Covered
  <2> QED
    BY <2>2, <2>3
<1> QED
  BY <1>6, <1>7, <1>8 DEF Read, us

\* One more complaint.
LEMMA OneMoreComplaint ==
  ASSUME NEW S, text \in Seq(S), NEW ts, NEW cs, NEW i \in 1 .. Len(text) + 1,
         Read(ts, cs, i), ts \in Seq(Range(ts)), cs \in Seq(Range(cs)),
         NEW j \in i .. Len(text) + 1, i .. j - 1 \subseteq Content,
         NEW e, At(e, j)
  PROVE  Read(ts, Append(cs, e), j)
<1> DEFINE ds == Append(cs, e)
           n == Len(cs) + 1
<1>1. Len(text) \in Nat /\ i \in Nat /\ j \in Nat /\ j \in 1 .. Len(text) + 1
  BY StartsShape
<1>2. /\ DOMAIN cs = 1 .. Len(cs) /\ DOMAIN ds = 1 .. n /\ n \in DOMAIN ds
      /\ ds[n] = e /\ \A m \in DOMAIN cs : m \in DOMAIN ds /\ ds[m] = cs[m]
  OBVIOUS
<1>3. \A m \in DOMAIN ds : m = n \/ m \in DOMAIN cs
  BY <1>2
<1> HIDE DEF ds, n
<1>4. Place(e) = j
  BY <1>1, PlaceIs
<1>5. ArePlaces(ds)
  <2> SUFFICES ASSUME NEW m \in DOMAIN ds PROVE \E k \in 1 .. Len(text) + 1 : At(ds[m], k)
    BY DEF ArePlaces
  <2>1. CASE m = n
    BY <1>1, <1>2, <2>1
  <2>2. CASE m \in DOMAIN cs
    BY <1>2, <2>2 DEF Read, ArePlaces
  <2> QED
    BY <1>3, <2>1, <2>2
<1>6. AreTokens(ts, j)
  BY EndsBefore DEF Read
<1>7. ASSUME NEW k \in Content, k < j PROVE Covered(ts, ds, k)
  <2>1. k \in 1 .. Len(text)
    BY ContentIs
  <2>2. CASE k < i
    <3>1. Covered(ts, cs, k)
      BY <2>2 DEF Read
    <3>2. CASE \E m \in DOMAIN cs : Before(cs[m], k)
      <4>1. PICK m \in DOMAIN cs : Before(cs[m], k)
        BY <3>2
      <4> QED
        BY <1>2, <4>1 DEF Covered
    <3> QED
      BY <3>1, <3>2 DEF Covered
  <2>3. CASE ~(k < i)
    <3>1. k .. j - 1 \subseteq i .. j - 1
      BY <1>1, <2>1, <2>3
    <3>2. Before(e, k)
      BY <1>4, <1>7, <3>1 DEF Before
    <3> QED
      BY <1>2, <3>2 DEF Covered
  <2> QED
    BY <2>2, <2>3
<1>8. InOrder(ts)
  BY DEF Read
<1> QED
  BY <1>5, <1>6, <1>7, <1>8 DEF Read, ds
-----------------------------------------------------------------------------
\* The kinds of characters are apart.
LEMMA KindsApart ==
  ASSUME NEW class \in {numeric, lowercase, uppercase}
  PROVE  /\ \A c \in class : c # "#" /\ c \notin blanks
         /\ \A c \in class : \A other \in {numeric, lowercase, uppercase} :
              c \in other => other = class
         /\ \A c, d : <<c, d>> \in doubles => c \notin class
<1>1. \A c \in class : c # "#" /\ c \notin blanks
  BY ZenonT(30) DEF numeric, lowercase, uppercase, blanks
<1>2. \A c \in numeric : c \notin lowercase /\ c \notin uppercase
  BY ZenonT(30) DEF numeric, lowercase, uppercase
<1>3. \A c \in lowercase : c \notin uppercase
  BY ZenonT(30) DEF lowercase, uppercase
<1>4. \A c, d : <<c, d>> \in doubles => c \in {"!", ">", "<", ":"}
  BY DEF doubles
<1>5. \A c \in class : c \notin {"!", ">", "<", ":"}
  BY ZenonT(30) DEF numeric, lowercase, uppercase
<1> QED
  BY <1>1, <1>2, <1>3, <1>4, <1>5

LEMMA DoublesApart ==
  ASSUME NEW c, NEW d, <<c, d>> \in doubles
  PROVE  c # "#" /\ c \notin blanks /\ d # "#" /\ d \notin blanks
<1>1. c \in {"!", ">", "<", ":"} /\ d = "="
  BY DEF doubles
<1> QED
  BY <1>1 DEF blanks

\* A lexeme from i to before j, of characters of one kind, is maximal ...
LEMMA KindIsMaximal ==
  ASSUME NEW class \in {numeric, lowercase, uppercase},
         NEW lexeme \in Seq(class), Len(lexeme) > 0, NEW c, c \notin class
  PROVE  ~MayFollow(lexeme, c)
<1>1. lexeme[1] \in class /\ 1 \in DOMAIN lexeme
  OBVIOUS
<1>2. lexeme[1] \in Range(lexeme)
  BY <1>1 DEF Range
<1>3. ASSUME NEW other \in {numeric, lowercase, uppercase}, c \in other,
             Range(lexeme) \subseteq other
      PROVE  FALSE
  <2>1. lexeme[1] \in other
    BY <1>2, <1>3
  <2>2. other = class
    BY <1>1, <2>1, KindsApart
  <2> QED
    BY <1>3, <2>2
<1>4. Append(lexeme, c) \notin doubles
  <2> SUFFICES ASSUME Append(lexeme, c) \in doubles PROVE FALSE
    OBVIOUS
  <2>1. PICK a, b : Append(lexeme, c) = <<a, b>> /\ <<a, b>> \in doubles
    BY DEF doubles
  <2>2. Append(lexeme, c)[1] = lexeme[1]
    BY <1>1
  <2>3. a = lexeme[1]
    BY <2>1, <2>2
  <2> QED
    BY <1>1, <2>1, <2>3, KindsApart
<1> QED
  BY <1>3, <1>4 DEF MayFollow

\* ... and so are the symbols.
LEMMA SymbolIsMaximal ==
  ASSUME NEW a, a \notin numeric \cup lowercase \cup uppercase, NEW b, NEW c
  PROVE  /\ <<a, c>> \notin doubles => ~MayFollow(<<a>>, c)
         /\ ~MayFollow(<<a, b>>, c)
<1>1. a \in Range(<<a>>) /\ a \in Range(<<a, b>>)
  BY DEF Range
<1> DEFINE T == {a, b, c}
<1>2. Append(<<a>>, c) = <<a, c>>
  <2> DEFINE s == Append(<<a>>, c)
             t == <<a, c>>
  <2>1. s \in Seq(T) /\ Len(s) = 2 /\ s[1] = a /\ s[2] = c
    <3>1. <<a>> \in Seq(T) /\ Len(<<a>>) = 1 /\ <<a>>[1] = a
      OBVIOUS
    <3> QED
      BY <3>1
  <2>2. t \in Seq(T) /\ Len(t) = 2 /\ t[1] = a /\ t[2] = c
    OBVIOUS
  <2> HIDE DEF s, t, T
  <2>3. \A k \in 1 .. 2 : k = 1 \/ k = 2
    OBVIOUS
  <2>4. s = t
    BY <2>1, <2>2, <2>3, SeqEqual
  <2> QED
    BY <2>4 DEF s, t
<1>3. Append(<<a, b>>, c) \notin doubles
  <2> DEFINE s == <<a, b>>
  <2>1. Len(Append(s, c)) = 3
    <3>1. s \in Seq(T)
      OBVIOUS
    <3>2. c \in T
      OBVIOUS
    <3>3. Len(s) = 2
      OBVIOUS
    <3> HIDE DEF s, T
    <3>4. Len(Append(s, c)) = Len(s) + 1
      BY <3>1, <3>2, AppendProperties
    <3> QED
      BY <3>3, <3>4
  <2>2. \A x, y : Len(<<x, y>>) = 2
    OBVIOUS
  <2>3. \A x \in doubles : Len(x) = 2
    BY <2>2 DEF doubles
  <2>4. Append(s, c) \notin doubles
    <3> SUFFICES ASSUME Append(s, c) \in doubles PROVE FALSE
      OBVIOUS
    <3> HIDE DEF s
    <3>1. Len(Append(s, c)) = 2
      BY <2>3
    <3> QED
      BY <2>1, <3>1
  <2> QED
    BY <2>4
<1>4. \A lexeme : a \in Range(lexeme) /\ Append(lexeme, c) \notin doubles => ~MayFollow(lexeme, c)
  BY DEF MayFollow
<1> QED
  BY <1>1, <1>2, <1>3, <1>4

\* A word or number is a token.
LEMMA KindIsToken ==
  ASSUME NEW S, text \in Seq(S), NEW p, Located(p), p.index <= Len(text), Uncommented(p.index),
         NEW class \in {numeric, lowercase, uppercase}, text[p.index] \in class,
         NEW t, At(t, p.index), t.lexeme = Lexeme(p, ChopWhile(p, class))
  PROVE  /\ Located(ChopWhile(p, class))
         /\ IsToken(t, p.index, ChopWhile(p, class).index)
         /\ Uncommented(ChopWhile(p, class).index)
<1> DEFINE q == ChopWhile(p, class)
           i == p.index
           j == q.index
<1>1. /\ Located(q) /\ i <= j
      /\ j > Len(text) \/ text[j] \notin class
      /\ \A k \in i .. j - 1 : text[k] \in class
  BY ChopIs
<1>2. Len(text) \in Nat /\ i \in 1 .. Len(text) + 1 /\ j \in 1 .. Len(text) + 1
  BY <1>1, StartsShape DEF Located
<1>3. t.lexeme = SubSeq(text, i, j - 1)
  BY DEF Lexeme
<1>9. text[i] \in class /\ i <= Len(text) /\ Uncommented(i) /\ At(t, i)
  OBVIOUS
<1> HIDE DEF i, j, q
<1>4. j # i
  BY <1>1, <1>2, <1>9
<1>5. j \in i .. Len(text) + 1 /\ i < j
  BY <1>1, <1>2, <1>4
<1>6. \A k \in i .. j - 1 : text[k] # "#" /\ text[k] \notin blanks
  BY <1>1, KindsApart
<1>7. i .. j - 1 \subseteq Content /\ Uncommented(j)
  <2>1. i .. j - 1 \subseteq Content
    BY <1>2, <1>5, <1>6, <1>9, Fresh
  <2>2. Uncommented(j)
    BY <1>2, <1>5, <1>6, <1>9, UncommentedOn
  <2> QED
    BY <2>1, <2>2
<1>8. j \in Content => ~MayFollow(t.lexeme, text[j])
  <2> SUFFICES ASSUME j \in Content PROVE ~MayFollow(t.lexeme, text[j])
    OBVIOUS
  <2>1. j <= Len(text)
    BY <1>2, ContentIs
  <2>2. text[j] \notin class
    BY <1>1, <1>2, <2>1
  <2> DEFINE s == SubSeq(text, i, j - 1)
  <2>3. Len(s) = j - i /\ \A k \in 1 .. j - i : s[k] = text[i + k - 1]
    BY <1>2, <1>5
  <2>4. s \in Seq(S)
    BY <1>2, <1>5
  <2> HIDE DEF s
  <2>5. \A k \in 1 .. Len(s) : s[k] \in class
    <3> SUFFICES ASSUME NEW k \in 1 .. Len(s) PROVE s[k] \in class
      OBVIOUS
    <3>1. i + k - 1 \in i .. j - 1
      BY <1>2, <1>5, <2>3
    <3> QED
      BY <1>1, <2>3, <3>1
  <2>6. s \in Seq(class) /\ Len(s) > 0
    BY <1>2, <1>5, <2>3, <2>4, <2>5
  <2>7. ~MayFollow(s, text[j])
    BY <2>2, <2>6, KindIsMaximal
  <2> QED
    BY <1>3, <2>7 DEF s
<1> QED
  BY <1>1, <1>2, <1>3, <1>5, <1>7, <1>8, <1>9 DEF IsToken, i, j, q
-----------------------------------------------------------------------------
\* The text stays, and what is said of it.
LEMMA TextStays ==
  ASSUME text' = text
  PROVE  /\ Starts' = Starts /\ LineStarts' = LineStarts /\ Content' = Content
         /\ \A t : Place(t)' = Place(t)
         /\ \A k : PointAt(k)' = PointAt(k)
<1>1. Starts' = Starts
  BY DEF Starts
<1>2. LineStarts' = LineStarts
  BY <1>1 DEF LineStarts
<1>3. Commented' = Commented
  BY DEF Commented
<1>4. Content' = Content
  BY <1>3 DEF Content
<1>5. \A t : Place(t)' = Place(t)
  BY <1>2 DEF Place
<1>6. \A t : Rank(t)' = Rank(t)
  BY <1>1 DEF Rank
<1>7. \A k : Begin(k)' = Begin(k)
  BY <1>1 DEF Begin
<1>8. \A k : PointAt(k)' = PointAt(k)
  BY <1>1, <1>6, <1>7 DEF PointAt, Rank, Begin
<1> QED
  BY <1>1, <1>2, <1>4, <1>5, <1>8

LEMMA GoesOn ==
  ASSUME text' = text, NEW ts, NEW cs, NEW p, Goes(ts, cs, p)
  PROVE  Goes(ts, cs, p)'
<1>1. Content' = Content
  BY TextStays
<1>2. \A t : Place(t)' = Place(t)
  BY TextStays
<1>3. \A k : PointAt(k)' = PointAt(k)
  BY TextStays
<1>4. Located(p)'
  BY <1>3 DEF Goes, Located
<1>5. Uncommented(p.index)'
  BY DEF Goes, Uncommented
<1>6. \A t : End(t)' = End(t)
  BY <1>2 DEF End
<1>7. \A t, k : At(t, k)' <=> At(t, k)
  BY <1>3 DEF At
<1>8. \A t, i, j : IsToken(t, i, j)' <=> IsToken(t, i, j)
  BY <1>1, <1>7 DEF IsToken
<1>9. AreTokens(ts, p.index)'
  BY <1>2, <1>6, <1>8 DEF Goes, Read, AreTokens
<1>10. InOrder(ts)'
  BY <1>2, <1>6 DEF Goes, Read, InOrder
<1>11. ArePlaces(cs)'
  BY <1>7 DEF Goes, Read, ArePlaces
<1>12. \A t, k : Within(t, k)' <=> Within(t, k)
  BY <1>2, <1>6 DEF Within
<1>13. \A t, k : Before(t, k)' <=> Before(t, k)
  BY <1>1, <1>2 DEF Before
<1>14. \A k : Covered(ts, cs, k)' <=> Covered(ts, cs, k)
  BY <1>12, <1>13 DEF Covered
<1>15. Read(ts, cs, p.index)'
  BY <1>1, <1>9, <1>10, <1>11, <1>14 DEF Goes, Read
<1> QED
  BY <1>4, <1>5, <1>15 DEF Goes

LEMMA InvariantAgain ==
  ASSUME text' = text, LexerInvariant, Goes(tokens', complaints', here'),
         reading' # "reading" => here'.index = Len(text) + 1
  PROVE  LexerInvariant'
<1>1. PICK ts, cs, p : ts = tokens' /\ cs = complaints' /\ p = here'
  OBVIOUS
<1>2. Goes(ts, cs, p)
  BY <1>1
<1>3. Goes(ts, cs, p)'
  BY <1>2, GoesOn
<1>4. Goes(tokens, complaints, here)'
  BY <1>1, <1>3 DEF Goes, Located, Uncommented, PointAt, Begin, Rank,
                    Read, AreTokens, InOrder, ArePlaces, Covered
<1> QED
  BY <1>4 DEF LexerInvariant
-----------------------------------------------------------------------------
\* The first character that is not blank is where the step begins.
LEMMA AtFirst ==
  ASSUME LexerInvariant
  PROVE  /\ text \in Seq(Range(text)) /\ Len(text) \in Nat
         /\ tokens \in Seq(Range(tokens)) /\ complaints \in Seq(Range(complaints))
         /\ Located(First) /\ First.index \in 1 .. Len(text) + 1
         /\ Uncommented(First.index)
         /\ Read(tokens, complaints, First.index)
         /\ First.index <= Len(text) => Char \notin blanks
<1>1. text \in Seq(Range(text)) /\ Goes(tokens, complaints, here)
  BY DEF LexerInvariant
<1>2. /\ Located(here) /\ Uncommented(here.index)
      /\ tokens \in Seq(Range(tokens)) /\ complaints \in Seq(Range(complaints))
      /\ Read(tokens, complaints, here.index)
  BY <1>1 DEF Goes
<1>3. Len(text) \in Nat
  BY <1>1
<1>4. /\ Located(First)
      /\ here.index \in 1 .. Len(text) + 1
      /\ First.index \in here.index .. Len(text) + 1
      /\ First.index \in 1 .. Len(text) + 1
      /\ First.index <= Len(text) => Char \notin blanks
      /\ \A k \in here.index .. First.index - 1 : k \notin Content
      /\ Uncommented(First.index)
  BY <1>1, <1>2, FirstIs
<1>5. Read(tokens, complaints, First.index)
  BY <1>1, <1>2, <1>4, ReadOn
<1> QED
  BY <1>1, <1>2, <1>3, <1>4, <1>5

LEMMA LocatedAt ==
  ASSUME NEW p, Located(p), NEW e, e.line = p.line, e.column = p.column
  PROVE  At(e, p.index)
BY DEF Located, At

\* A token made at First, and a complaint behind what is read.
Made(to, type) == [type |-> type, lexeme |-> Lexeme(First, to),
                   line |-> First.line, column |-> First.column]
Said(to)       == [line |-> to.line, column |-> to.column]

LEMMA AfterToken ==
  ASSUME LexerInvariant, NEW to, Located(to), Uncommented(to.index), NEW type,
         IsToken(Made(to, type), First.index, to.index), Token(to, type), reading = "reading"
  PROVE  LexerInvariant'
<1> DEFINE t == Made(to, type)
           us == Append(tokens, t)
<1>1. /\ text' = text /\ complaints' = complaints /\ reading' = reading
      /\ here' = to /\ tokens' = us
  BY DEF Token, Made
<1>2. /\ text \in Seq(Range(text)) /\ tokens \in Seq(Range(tokens))
      /\ First.index \in 1 .. Len(text) + 1
      /\ Read(tokens, complaints, First.index) /\ complaints \in Seq(Range(complaints))
  BY AtFirst
<1>3. IsToken(t, First.index, to.index)
  OBVIOUS
<1> HIDE DEF t
<1>4. Read(us, complaints, to.index)
  BY <1>2, <1>3, OneMoreToken
<1>5. us \in Seq(Range(us))
  <2>1. us \in Seq(Range(tokens) \cup {t})
    BY <1>2
  <2> QED
    BY <2>1, RangeSeq
<1> HIDE DEF us
<1>6. Goes(us, complaints, to)
  BY <1>2, <1>4, <1>5 DEF Goes
<1>7. Goes(tokens', complaints', here')
  BY <1>1, <1>6
<1> QED
  BY <1>1, <1>7, InvariantAgain

LEMMA AfterComplaint ==
  ASSUME LexerInvariant, NEW to, Located(to), Uncommented(to.index),
         First.index <= to.index, First.index .. to.index - 1 \subseteq Content,
         Complain(to), reading = "reading"
  PROVE  LexerInvariant'
<1> DEFINE e == Said(to)
           ds == Append(complaints, e)
<1>1. /\ text' = text /\ tokens' = tokens /\ reading' = reading
      /\ here' = to /\ complaints' = ds
  BY DEF Complain, Said
<1>2. /\ text \in Seq(Range(text)) /\ tokens \in Seq(Range(tokens))
      /\ First.index \in 1 .. Len(text) + 1 /\ Len(text) \in Nat
      /\ Read(tokens, complaints, First.index) /\ complaints \in Seq(Range(complaints))
  BY AtFirst
<1>3. At(e, to.index)
  BY LocatedAt DEF Said
<1> HIDE DEF e
<1>8. to.index \in First.index .. Len(text) + 1
  BY <1>2 DEF Located
<1>4. Read(tokens, ds, to.index)
  BY <1>2, <1>3, <1>8, OneMoreComplaint
<1>5. ds \in Seq(Range(ds))
  <2>1. ds \in Seq(Range(complaints) \cup {e})
    BY <1>2
  <2> QED
    BY <2>1, RangeSeq
<1> HIDE DEF ds
<1>6. Goes(tokens, ds, to)
  BY <1>2, <1>4, <1>5 DEF Goes
<1>7. Goes(tokens', complaints', here')
  BY <1>1, <1>6
<1> QED
  BY <1>1, <1>7, InvariantAgain

\* What ChopWhile makes of a word or number.
LEMMA KindRead ==
  ASSUME LexerInvariant, Calling, NEW class \in {numeric, lowercase, uppercase}, Char \in class,
         NEW type
  PROVE  LET to == ChopWhile(First, class)
         IN /\ Located(to) /\ Uncommented(to.index)
            /\ IsToken(Made(to, type), First.index, to.index)
            /\ First.index <= to.index /\ First.index .. to.index - 1 \subseteq Content
<1> DEFINE to == ChopWhile(First, class)
           t == Made(to, type)
<1>1. text \in Seq(Range(text)) /\ Located(First) /\ Uncommented(First.index)
      /\ First.index \in 1 .. Len(text) + 1 /\ Len(text) \in Nat
  BY AtFirst
<1>2. First.index <= Len(text) /\ text[First.index] \in class
  BY DEF Calling, Char
<1>3. At(t, First.index)
  BY <1>1, LocatedAt DEF Made
<1>4. t.lexeme = Lexeme(First, ChopWhile(First, class))
  BY DEF Made
<1> HIDE DEF t
<1>5. /\ Located(to) /\ IsToken(t, First.index, to.index) /\ Uncommented(to.index)
  BY <1>1, <1>2, <1>3, <1>4, KindIsToken
<1>6. First.index <= to.index /\ First.index .. to.index - 1 \subseteq Content
  BY <1>1, <1>5 DEF IsToken
<1> QED
  BY <1>5, <1>6 DEF t
-----------------------------------------------------------------------------
\* One lemma for each action.
LEMMA KindStep ==
  ASSUME LexerInvariant, Number \/ Name \/ Keyword
  PROVE  LexerInvariant'
<1>1. CASE Number
  <2>1. /\ Calling /\ Char \in numeric /\ numeric \in {numeric, lowercase, uppercase}
        /\ Token(ChopWhile(First, numeric), "num") /\ reading = "reading"
    BY <1>1 DEF Number, Calling
  <2> DEFINE to == ChopWhile(First, numeric)
  <2>2. Located(to) /\ Uncommented(to.index) /\ IsToken(Made(to, "num"), First.index, to.index)
    BY <2>1, KindRead
  <2> HIDE DEF to
  <2>3. Token(to, "num")
    BY <2>1 DEF to
  <2> QED
    BY <2>1, <2>2, <2>3, AfterToken
<1>2. CASE Name
  <2>1. /\ Calling /\ Char \in lowercase /\ lowercase \in {numeric, lowercase, uppercase}
        /\ Token(ChopWhile(First, lowercase), "pidentifier") /\ reading = "reading"
    BY <1>2 DEF Name, Calling
  <2> DEFINE to == ChopWhile(First, lowercase)
  <2>2. /\ Located(to) /\ Uncommented(to.index)
        /\ IsToken(Made(to, "pidentifier"), First.index, to.index)
    BY <2>1, KindRead
  <2> HIDE DEF to
  <2>3. Token(to, "pidentifier")
    BY <2>1 DEF to
  <2> QED
    BY <2>1, <2>2, <2>3, AfterToken
<1>3. CASE Keyword
  <2> DEFINE to   == ChopWhile(First, uppercase)
             word == WordOf(Lexeme(First, to))
  <2>1. /\ Calling /\ Char \in uppercase /\ uppercase \in {numeric, lowercase, uppercase}
        /\ reading = "reading"
        /\ (Token(to, word) \/ Complain(to))
    BY <1>3 DEF Keyword, Calling
  <2> HIDE DEF word
  <2>2. /\ Located(to) /\ Uncommented(to.index) /\ IsToken(Made(to, word), First.index, to.index)
        /\ First.index <= to.index /\ First.index .. to.index - 1 \subseteq Content
    BY <2>1, KindRead
  <2> HIDE DEF to
  <2>3. CASE Token(to, word)
    BY <2>1, <2>2, <2>3, AfterToken
  <2>4. CASE Complain(to)
    BY <2>1, <2>2, <2>4, AfterComplaint
  <2> QED
    BY <2>1, <2>3, <2>4
<1> QED
  BY <1>1, <1>2, <1>3

\* A comment goes on to the end of its line.
LEMMA CommentStep ==
  ASSUME LexerInvariant, Comment
  PROVE  LexerInvariant'
<1> DEFINE set == Range(text) \ {"\n"}
           to  == ChopWhile(First, set)
           i   == First.index
           j   == to.index
<1>1. /\ text \in Seq(Range(text)) /\ Located(First) /\ Uncommented(i)
      /\ i \in 1 .. Len(text) + 1 /\ Len(text) \in Nat /\ Read(tokens, complaints, i)
      /\ tokens \in Seq(Range(tokens)) /\ complaints \in Seq(Range(complaints))
  BY AtFirst
<1>2. /\ here' = to /\ text' = text /\ tokens' = tokens /\ complaints' = complaints
      /\ reading' = reading /\ reading = "reading"
      /\ i <= Len(text) /\ text[i] = "#"
  BY DEF Comment, Calling, Char
<1>3. /\ Located(to) /\ i <= j
      /\ j > Len(text) \/ text[j] \notin set
      /\ \A k \in i .. j - 1 : text[k] \in set
  <2> HIDE DEF set
  <2> QED
    BY <1>1, ChopIs
<1>4. j \in i .. Len(text) + 1 /\ j \in 1 .. Len(text) + 1
  <2>1. j \in 1 .. Len(text) + 1
    BY <1>3 DEF Located
  <2> QED
    BY <1>1, <1>3, <2>1
<1> HIDE DEF to, i, j
<1>5. j > Len(text) \/ text[j] = "\n"
  <2>1. j <= Len(text) => text[j] \in Range(text)
    BY <1>1, <1>4 DEF Range
  <2> QED
    BY <1>1, <1>3, <1>4, <2>1
<1>6. \A k \in i .. j - 1 : text[k] # "\n"
  BY <1>3
<1> HIDE DEF set
<1>7. ASSUME NEW k \in i .. j - 1 PROVE k \notin Content
  <2>1. i \in 1 .. k /\ text[i] = "#"
    BY <1>1, <1>2
  <2>2. \A m \in i .. k : text[m] # "\n"
    BY <1>1, <1>4, <1>6
  <2> QED
    BY <1>1, <2>1, <2>2, ContentIs
<1>8. Uncommented(j)
  <2> SUFFICES ASSUME NEW k \in 1 .. j - 1, text[k] = "#"
               PROVE  \E m \in k .. j : m > Len(text) \/ text[m] = "\n"
    BY DEF Uncommented
  <2>1. CASE k < i
    <3>1. k \in 1 .. i - 1
      BY <1>1, <2>1
    <3>2. PICK m \in k .. i : m > Len(text) \/ text[m] = "\n"
      BY <1>1, <3>1 DEF Uncommented
    <3>3. m \in k .. j
      BY <1>1, <1>4
    <3> QED
      BY <3>2, <3>3
  <2>2. CASE ~(k < i)
    <3>1. j \in k .. j
      BY <1>1, <1>4
    <3> QED
      BY <1>5, <3>1
  <2> QED
    BY <2>1, <2>2
<1>9. Read(tokens, complaints, j)
  BY <1>1, <1>4, <1>7, ReadOn
<1>10. Goes(tokens, complaints, to)
  BY <1>1, <1>3, <1>8, <1>9 DEF Goes, j
<1>11. Goes(tokens', complaints', here')
  BY <1>2, <1>10
<1> QED
  BY <1>2, <1>11, InvariantAgain

\* There is nothing but blanks any more.
LEMMA NoMoreStep ==
  ASSUME LexerInvariant, NoMore
  PROVE  LexerInvariant'
<1>1. /\ text \in Seq(Range(text)) /\ Located(First) /\ Uncommented(First.index)
      /\ First.index \in 1 .. Len(text) + 1 /\ Len(text) \in Nat
      /\ Read(tokens, complaints, First.index)
      /\ tokens \in Seq(Range(tokens)) /\ complaints \in Seq(Range(complaints))
  BY AtFirst
<1>2. /\ here' = First /\ text' = text /\ tokens' = tokens /\ complaints' = complaints
      /\ First.index > Len(text)
  BY DEF NoMore
<1>3. Goes(tokens, complaints, First)
  BY <1>1 DEF Goes
<1>4. Goes(tokens', complaints', here')
  BY <1>2, <1>3
<1>5. here'.index = Len(text) + 1
  BY <1>1, <1>2
<1> QED
  BY <1>2, <1>4, <1>5, InvariantAgain

LEMMA OneOrTwo ==
  ASSUME NEW S, NEW s \in Seq(S), NEW i \in 1 .. Len(s)
  PROVE  /\ SubSeq(s, i, i) = <<s[i]>>
         /\ i < Len(s) => SubSeq(s, i, i + 1) = <<s[i], s[i + 1]>>
<1>1. s[i] \in S /\ <<s[i]>> \in Seq(S) /\ Len(<<s[i]>>) = 1 /\ <<s[i]>>[1] = s[i]
  OBVIOUS
<1>2. SubSeq(s, i, i) \in Seq(S) /\ Len(SubSeq(s, i, i)) = 1 /\ SubSeq(s, i, i)[1] = s[i]
  OBVIOUS
<1>3. SubSeq(s, i, i) = <<s[i]>>
  <2>1. \A k \in 1 .. 1 : k = 1
    OBVIOUS
  <2> QED
    BY <1>1, <1>2, <2>1, SeqEqual
<1>4. ASSUME i < Len(s) PROVE SubSeq(s, i, i + 1) = <<s[i], s[i + 1]>>
  <2> DEFINE u == SubSeq(s, i, i + 1)
             v == <<s[i], s[i + 1]>>
  <2>1. u \in Seq(S) /\ Len(u) = 2 /\ u[1] = s[i] /\ u[2] = s[i + 1]
    BY <1>4
  <2>2. v \in Seq(S) /\ Len(v) = 2 /\ v[1] = s[i] /\ v[2] = s[i + 1]
    <3>1. s[i] \in S /\ s[i + 1] \in S
      BY <1>4
    <3> QED
      BY <3>1
  <2> HIDE DEF u, v
  <2>3. \A k \in 1 .. 2 : k = 1 \/ k = 2
    OBVIOUS
  <2>4. u = v
    BY <2>1, <2>2, <2>3, SeqEqual
  <2> QED
    BY <2>4 DEF u, v
<1> QED
  BY <1>3, <1>4

LEMMA MadeIs ==
  ASSUME Located(First), NEW to, NEW type
  PROVE  /\ Made(to, type).lexeme = SubSeq(text, First.index, to.index - 1)
         /\ At(Made(to, type), First.index)
<1>1. Made(to, type).lexeme = SubSeq(text, First.index, to.index - 1)
  BY DEF Made, Lexeme
<1>2. Made(to, type).line = First.line /\ Made(to, type).column = First.column
  BY DEF Made
<1> QED
  BY <1>1, <1>2, LocatedAt

\* Every other character is a symbol, part of one, or an error.
LEMMA SymbolStep ==
  ASSUME LexerInvariant, Symbol
  PROVE  LexerInvariant'
<1> DEFINE i   == First.index
           one == Behind(First, Char)
           two == Past(First, First.index + 2)
           classes == numeric \cup lowercase \cup uppercase
<1>1. /\ text \in Seq(Range(text)) /\ Located(First) /\ Uncommented(i)
      /\ i \in 1 .. Len(text) + 1 /\ Len(text) \in Nat
      /\ i <= Len(text) => Char \notin blanks
  BY AtFirst
<1>2. /\ reading = "reading" /\ i <= Len(text)
      /\ Char # "#" /\ Char \notin classes /\ Char = text[i]
  BY DEF Symbol, Calling, Char
<1>3. Located(one) /\ one.index = i + 1
  <2>1. Behind(First, text[First.index]) = PointAt(First.index + 1)
    BY <1>1, <1>2, BehindLocated
  <2>2. one = PointAt(i + 1)
    BY <1>2, <2>1
  <2>3. PointAt(i + 1).index = i + 1
    BY DEF PointAt
  <2> HIDE DEF one, i
  <2>4. i + 1 \in 1 .. Len(text) + 1
    BY <1>1, <1>2
  <2> QED
    BY <2>2, <2>3, <2>4 DEF Located
<1>4. CASE Long
  <2>1. i + 2 \in i .. Len(text) + 1 /\ i + 1 \in 1 .. Len(text)
        /\ <<Char, text[i + 1]>> \in doubles
    BY <1>1, <1>4 DEF Long
  <2>2. Located(two) /\ two.index = i + 2
    BY <1>1, <2>1, PastIs
  <2> DEFINE t == Made(two, WordOf(Lexeme(First, two)))
  <2>3. t.lexeme = SubSeq(text, i, i + 2 - 1) /\ At(t, i)
    BY <1>1, <2>2, MadeIs
  <2>4. Token(two, WordOf(Lexeme(First, two)))
    BY <1>4 DEF Symbol
  <2> HIDE DEF t, two, i, classes
  <2>5. \A m \in i .. i + 2 - 1 : text[m] # "#" /\ text[m] \notin blanks
    <3>1. \A m \in i .. i + 2 - 1 : m = i \/ m = i + 1
      BY <1>1
    <3>2. /\ text[i] # "#" /\ text[i] \notin blanks
          /\ text[i + 1] # "#" /\ text[i + 1] \notin blanks
      BY <1>2, <2>1, DoublesApart
    <3> QED
      BY <3>1, <3>2
  <2>6. i .. i + 2 - 1 \subseteq Content
    BY <1>1, <2>1, <2>5, Fresh
  <2>7. Uncommented(i + 2)
    BY <1>1, <2>1, <2>5, UncommentedOn
  <2>8. SubSeq(text, i, i + 2 - 1) = <<Char, text[i + 1]>>
    <3>1. SubSeq(text, i, i + 1) = <<text[i], text[i + 1]>> /\ i + 2 - 1 = i + 1
      BY <1>1, <2>1, OneOrTwo
    <3> QED
      BY <1>2, <3>1
  <2>9. ~MayFollow(t.lexeme, text[i + 2])
    BY <1>2, <2>3, <2>8, SymbolIsMaximal DEF classes
  <2>10. IsToken(t, i, i + 2)
    BY <1>1, <2>1, <2>3, <2>6, <2>9 DEF IsToken
  <2> QED
    BY <1>2, <2>2, <2>4, <2>7, <2>10, AfterToken DEF t, i
<1>5. CASE ~Long
  <2>1. i + 1 \in i .. Len(text) + 1
    BY <1>1, <1>2
  <2>2. \A m \in i .. i + 1 - 1 : text[m] # "#" /\ text[m] \notin blanks
    BY <1>1, <1>2
  <2>3. i .. i + 1 - 1 \subseteq Content
    BY <1>1, <2>1, <2>2, Fresh
  <2>4. Uncommented(i + 1)
    BY <1>1, <2>1, <2>2, UncommentedOn
  <2> DEFINE t == Made(one, Char)
  <2>5. t.lexeme = SubSeq(text, i, i + 1 - 1) /\ At(t, i)
    BY <1>1, <1>3, MadeIs
  <2>6. Token(one, Char) \/ Complain(one)
    BY <1>5 DEF Symbol
  <2>7. ASSUME i + 1 \in Content PROVE <<Char, text[i + 1]>> \notin doubles
    <3>1. i + 1 \in 1 .. Len(text)
      BY <1>1, <2>7, ContentIs
    <3> QED
      BY <1>1, <1>5, <3>1 DEF Long
  <2> HIDE DEF t, one, i, classes
  <2>8. SubSeq(text, i, i + 1 - 1) = <<Char>>
    <3>1. SubSeq(text, i, i) = <<text[i]>> /\ i + 1 - 1 = i
      BY <1>1, <1>2, OneOrTwo
    <3> QED
      BY <1>2, <3>1
  <2>9. i + 1 \in Content => ~MayFollow(t.lexeme, text[i + 1])
    BY <1>2, <2>5, <2>7, <2>8, SymbolIsMaximal DEF classes
  <2>10. IsToken(t, i, i + 1)
    BY <1>1, <2>1, <2>3, <2>5, <2>9 DEF IsToken
  <2>11. CASE Token(one, Char)
    BY <1>2, <1>3, <2>4, <2>10, <2>11, AfterToken DEF t, i
  <2>12. CASE Complain(one)
    <3>1. i <= one.index /\ i .. one.index - 1 \subseteq Content /\ Uncommented(one.index)
      BY <1>1, <1>3, <2>3, <2>4
    <3> QED
      BY <1>2, <1>3, <2>12, <3>1, AfterComplaint DEF i
  <2> QED
    BY <2>6, <2>11, <2>12
<1> QED
  BY <1>4, <1>5
-----------------------------------------------------------------------------
LEMMA BeginsLocated ==
  ASSUME NEW S, text \in Seq(S)
  PROVE  PointAt(1) = [index |-> 1, line |-> 1, column |-> 1]
<1>1. Starts \subseteq 1 .. Len(text) + 1 /\ 1 \in Starts /\ Len(text) \in Nat
  BY StartsShape
<1>2. Begin(1) = 1
  <2>1. 1 \in 1 .. Len(text) + 1
    BY <1>1
  <2>2. Begin(1) \in Nat /\ Begin(1) >= 1 /\ Begin(1) <= 1
    BY <2>1, BeginIs
  <2> QED
    BY <2>2
<1>3. Rank(1) = 1
  <2>2. \A u \in Starts : u <= 1 <=> u = 1
    BY <1>1
  <2>1. { u \in Starts : u <= 1 } = {1}
    BY <1>1, <2>2
  <2> QED
    BY <2>1, FS_Singleton DEF Rank
<1> QED
  BY <1>2, <1>3 DEF PointAt

LEMMA InvariantFirst ==
  ASSUME NEW S, NEW texts \in SUBSET Seq(S), LexerInit(texts)
  PROVE  LexerInvariant
<1>1. text \in Seq(S) /\ text \in Seq(Range(text)) /\ Len(text) \in Nat
  BY RangeSeq DEF LexerInit
<1>2. /\ here = [index |-> 1, line |-> 1, column |-> 1] /\ here.index = 1
      /\ tokens = <<>> /\ complaints = <<>> /\ reading = "reading"
  BY DEF LexerInit
<1>3. Located(here)
  <2>1. here = PointAt(here.index) /\ here.index \in 1 .. Len(text) + 1
    BY <1>1, <1>2, BeginsLocated
  <2> QED
    BY <2>1 DEF Located
<1>4. Uncommented(here.index)
  BY <1>2 DEF Uncommented
<1>5. tokens \in Seq(Range(tokens)) /\ complaints \in Seq(Range(complaints))
  BY <1>2
<1>6. Read(tokens, complaints, here.index)
  <2>1. DOMAIN tokens = {} /\ DOMAIN complaints = {}
    BY <1>2
  <2>2. \A k \in Content : ~(k < 1)
    BY <1>1, ContentIs
  <2> QED
    BY <1>2, <2>1, <2>2 DEF Read, AreTokens, InOrder, ArePlaces
<1>7. Goes(tokens, complaints, here)
  BY <1>3, <1>4, <1>5, <1>6 DEF Goes
<1> QED
  BY <1>1, <1>2, <1>7 DEF LexerInvariant

\* Every step keeps the invariant, and at the end it is what is claimed.
LEMMA InvariantKept ==
  ASSUME LexerInvariant, [LexerStep]_lexer
  PROVE  LexerInvariant'
<1>1. CASE Comment
  BY <1>1, CommentStep
<1>2. CASE Number \/ Name \/ Keyword
  BY <1>2, KindStep
<1>3. CASE Symbol
  BY <1>3, SymbolStep
<1>4. CASE NoMore
  BY <1>4, NoMoreStep
<1>5. CASE UNCHANGED lexer
  <2>1. /\ text' = text /\ here' = here /\ tokens' = tokens /\ complaints' = complaints
        /\ reading' = reading
    BY <1>5 DEF lexer
  <2>2. Goes(tokens, complaints, here) /\ (reading # "reading" => here.index = Len(text) + 1)
    BY DEF LexerInvariant
  <2>3. Goes(tokens', complaints', here') /\ (reading' # "reading" => here'.index = Len(text) + 1)
    BY <2>1, <2>2
  <2> QED
    BY <2>1, <2>3, InvariantAgain
<1> QED
  BY <1>1, <1>2, <1>3, <1>4, <1>5 DEF LexerStep

LEMMA EndIsExact ==
  ASSUME LexerInvariant, reading = "ended"
  PROVE  TokensAreExact
<1> DEFINE start(n)  == Place(tokens[n])
           end(n)    == Place(tokens[n]) + Len(tokens[n].lexeme)
           within(n) == start(n) .. end(n) - 1
           wrong     == { Place(e) : e \in Range(complaints) }
<1>1. /\ text \in Seq(Range(text)) /\ Len(text) \in Nat
      /\ tokens \in Seq(Range(tokens)) /\ complaints \in Seq(Range(complaints))
      /\ AreTokens(tokens, Len(text) + 1) /\ InOrder(tokens) /\ ArePlaces(complaints)
      /\ \A k \in Content : k < Len(text) + 1 => Covered(tokens, complaints, k)
  BY DEF LexerInvariant, Goes, Read
<1>2. ASSUME NEW n \in DOMAIN tokens
      PROVE  /\ IsToken(tokens[n], start(n), end(n))
             /\ start(n) \in 1 .. Len(text) + 1 /\ end(n) \in start(n) .. Len(text) + 1
  <2>1. IsToken(tokens[n], start(n), end(n))
    BY <1>1 DEF AreTokens, End
  <2> HIDE DEF start, end
  <2>2. start(n) \in 1 .. Len(text) + 1 /\ end(n) \in start(n) .. Len(text) + 1
    BY <2>1 DEF IsToken
  <2> QED
    BY <2>1, <2>2
<1>3. \A e \in Range(tokens \o complaints) : InLine(e)
  <2> SUFFICES ASSUME NEW e \in Range(tokens \o complaints) PROVE InLine(e)
    OBVIOUS
  <2>1. e \in Range(tokens) \/ e \in Range(complaints)
    BY <1>1 DEF Range
  <2>2. \E k \in 1 .. Len(text) + 1 : At(e, k)
    <3>1. CASE e \in Range(tokens)
      <4>1. PICK n \in DOMAIN tokens : e = tokens[n]
        BY <3>1 DEF Range
      <4> QED
        BY <1>2, <4>1 DEF IsToken
    <3>2. CASE e \in Range(complaints)
      BY <1>1, <3>2 DEF Range, ArePlaces
    <3> QED
      BY <2>1, <3>1, <3>2
  <2> QED
    BY <1>1, <2>2, PlaceIs
<1>4. ASSUME NEW n \in DOMAIN tokens
      PROVE  /\ tokens[n].lexeme = SubSeq(text, start(n), end(n) - 1)
             /\ within(n) \subseteq Content
             /\ n > 1 => end(n - 1) <= start(n)
             /\ end(n) \in Content => ~MayFollow(tokens[n].lexeme, text[end(n)])
  <2>1. n > 1 => end(n - 1) <= start(n)
    BY <1>1 DEF InOrder, End
  <2> HIDE DEF start, end
  <2> QED
    BY <1>2, <2>1 DEF IsToken
<1>5. ASSUME NEW k \in Content \ UNION { within(n) : n \in DOMAIN tokens }
      PROVE  \E e \in wrong : k < e /\ k .. e - 1 \subseteq Content
  <2>1. k \in 1 .. Len(text)
    BY <1>1, ContentIs
  <2>2. Covered(tokens, complaints, k)
    BY <1>1, <2>1
  <2>3. ASSUME NEW n \in DOMAIN tokens, Within(tokens[n], k) PROVE FALSE
    <3>1. start(n) <= k /\ k < end(n)
      BY <2>3 DEF Within, End
    <3>2. start(n) \in Nat /\ end(n) \in Nat /\ k \in Nat
      <4>1. start(n) \in 1 .. Len(text) + 1 /\ end(n) \in start(n) .. Len(text) + 1
        BY <1>2
      <4> HIDE DEF start, end
      <4> QED
        BY <1>1, <2>1, <4>1
    <3> HIDE DEF start, end
    <3>3. k \in within(n)
      BY <3>1, <3>2
    <3> QED
      BY <3>3
  <2>4. PICK m \in DOMAIN complaints : Before(complaints[m], k)
    BY <2>2, <2>3 DEF Covered
  <2>5. Place(complaints[m]) \in wrong
    BY DEF Range
  <2> QED
    BY <2>4, <2>5 DEF Before
<1> QED
  BY <1>3, <1>4, <1>5 DEF TokensAreExact, Place, InLine

-----------------------------------------------------------------------------
\* The lexer's tokens are exact (next_token, trim_whitespace, chop_while).
THEOREM TokensAreExactHolds ==
  ASSUME NEW S, NEW texts \in SUBSET Seq(S)
  PROVE  LexerSpec(texts) => []TokensAreExact
<1>1. LexerInit(texts) => LexerInvariant
  BY InvariantFirst
<1>2. LexerInvariant /\ [LexerStep]_lexer => LexerInvariant'
  BY InvariantKept
<1>3. LexerInvariant => TokensAreExact
  <2>1. reading # "ended" => TokensAreExact
    BY DEF TokensAreExact
  <2> QED
    BY <2>1, EndIsExact
<1> QED
  BY <1>1, <1>2, <1>3, PTL DEF LexerSpec
=============================================================================
