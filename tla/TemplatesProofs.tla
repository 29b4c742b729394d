-------------------------- MODULE TemplatesProofs ---------------------------
(***************************************************************************)
(* The templates of the emitter do what the source says, for every         *)
(* environment, identifier and number, in any memory.                      *)
(***************************************************************************)
EXTENDS Templates, MachineProofs, Induction, SequenceTheorems

(* What straight code does, wherever it stands: to the registers and to the *)
(* memory, a function from all addresses.                                   *)
State == [r : [Registers -> Nat], m : [Nat -> Nat]]

StraightOps == {"LOAD", "STORE", "ADD", "SUB", "GET", "PUT", "RST", "INC", "DEC",
                "SHL", "SHR"}
Straight == [op : StraightOps, reg : Registers]

Set(s, x, v)  == [r |-> [s.r EXCEPT ![x] = v], m |-> s.m]
Poke(s, a, v) == [r |-> s.r, m |-> [s.m EXCEPT ![a] = v]]

Do(i, s) ==
  LET x == i.reg  A == s.r["A"]  v == s.r[x]
  IN CASE i.op = "LOAD"  -> Set(s, "A", s.m[v])
       [] i.op = "STORE" -> Poke(s, v, A)
       [] i.op = "ADD"   -> Set(s, "A", A + v)
       [] i.op = "SUB"   -> Set(s, "A", Monus(A, v))
       [] i.op = "GET"   -> Set(s, "A", v)
       [] i.op = "PUT"   -> Set(s, x, A)
       [] i.op = "RST"   -> Set(s, x, 0)
       [] i.op = "INC"   -> Set(s, x, v + 1)
       [] i.op = "DEC"   -> Set(s, x, Monus(v, 1))
       [] i.op = "SHL"   -> Set(s, x, 2 * v)
       [] i.op = "SHR"   -> Set(s, x, v \div 2)

\* f goes through the code from s on.
Runs(f, code, s) ==
  /\ f \in [0 .. Len(code) -> State]
  /\ f[0] = s
  /\ \A k \in 1 .. Len(code) : f[k] = Do(code[k], f[k - 1])

Takes(code, s, u) == \E f : Runs(f, code, s) /\ f[Len(code)] = u

LEMMA SetIs ==
  ASSUME NEW s \in State, NEW x \in Registers, NEW v \in Nat
  PROVE  /\ Set(s, x, v) \in State
         /\ Set(s, x, v).m = s.m
         /\ Set(s, x, v).r[x] = v
         /\ \A y \in Registers : y # x => Set(s, x, v).r[y] = s.r[y]
BY DEF Set, State

LEMMA PokeIs ==
  ASSUME NEW s \in State, NEW a \in Nat, NEW v \in Nat
  PROVE  /\ Poke(s, a, v) \in State
         /\ Poke(s, a, v).r = s.r
         /\ Poke(s, a, v).m = [s.m EXCEPT ![a] = v]
BY DEF Poke, State

LEMMA StateIs ==
  ASSUME NEW s \in State
  PROVE  /\ s.r \in [Registers -> Nat] /\ s.m \in [Nat -> Nat]
         /\ \A x \in Registers : s.r[x] \in Nat
         /\ \A a \in Nat : s.m[a] \in Nat
BY DEF State

LEMMA DoIs ==
  ASSUME NEW s \in State, NEW x \in Registers
  PROVE  /\ Do(LOAD(x), s)  = Set(s, "A", s.m[s.r[x]])
         /\ Do(STORE(x), s) = Poke(s, s.r[x], s.r["A"])
         /\ Do(ADD(x), s)   = Set(s, "A", s.r["A"] + s.r[x])
         /\ Do(SUB(x), s)   = Set(s, "A", Monus(s.r["A"], s.r[x]))
         /\ Do(GET(x), s)   = Set(s, "A", s.r[x])
         /\ Do(PUT(x), s)   = Set(s, x, s.r["A"])
         /\ Do(RST(x), s)   = Set(s, x, 0)
         /\ Do(INC(x), s)   = Set(s, x, s.r[x] + 1)
         /\ Do(DEC(x), s)   = Set(s, x, Monus(s.r[x], 1))
         /\ Do(SHL(x), s)   = Set(s, x, 2 * s.r[x])
         /\ Do(SHR(x), s)   = Set(s, x, s.r[x] \div 2)
BY DEF Do, LOAD, STORE, ADD, SUB, GET, PUT, RST, INC, DEC, SHL, SHR

LEMMA StraightIs ==
  ASSUME NEW x \in Registers
  PROVE  {LOAD(x), STORE(x), ADD(x), SUB(x), GET(x), PUT(x), RST(x), INC(x), DEC(x),
          SHL(x), SHR(x)} \subseteq Straight
BY DEF Straight, StraightOps, LOAD, STORE, ADD, SUB, GET, PUT, RST, INC, DEC, SHL, SHR

LEMMA DoType ==
  ASSUME NEW i \in Straight, NEW s \in State
  PROVE  Do(i, s) \in State
<1>1. /\ i.reg \in Registers /\ i.op \in StraightOps /\ "A" \in Registers
      /\ s.r[i.reg] \in Nat /\ s.r["A"] \in Nat /\ s.m[s.r[i.reg]] \in Nat
  BY DEF Straight, State, Registers
<1>2. /\ Monus(s.r["A"], s.r[i.reg]) \in Nat /\ Monus(s.r[i.reg], 1) \in Nat
      /\ s.r[i.reg] \div 2 \in Nat /\ 2 * s.r[i.reg] \in Nat
  BY <1>1 DEF Monus
<1>3. \A x \in Registers, v \in Nat : Set(s, x, v) \in State
  BY SetIs
<1>4. \A a, v \in Nat : Poke(s, a, v) \in State
  BY PokeIs
<1> QED
  BY <1>1, <1>2, <1>3, <1>4 DEF Do, StraightOps

-----------------------------------------------------------------------------
LEMMA TakesNothing ==
  ASSUME NEW s \in State
  PROVE  Takes(<<>>, s, s)
<1> DEFINE f == [k \in 0 .. 0 |-> s]
<1>1. Runs(f, <<>>, s) /\ f[Len(<<>>)] = s
  BY DEF Runs
<1> QED
  BY <1>1 DEF Takes

LEMMA TakesOne ==
  ASSUME NEW i \in Straight, NEW s \in State
  PROVE  Takes(<<i>>, s, Do(i, s))
<1> DEFINE f == [k \in 0 .. 1 |-> IF k = 0 THEN s ELSE Do(i, s)]
<1>1. f \in [0 .. 1 -> State]
  BY DoType
<1>2. Len(<<i>>) = 1 /\ <<i>>[1] = i /\ f[0] = s /\ f[1] = Do(i, s)
  OBVIOUS
<1> HIDE DEF f
<1>3. Runs(f, <<i>>, s)
  BY <1>1, <1>2 DEF Runs
<1> QED
  BY <1>2, <1>3 DEF Takes

LEMMA TakesBoth ==
  ASSUME NEW c \in Seq(Straight), NEW d \in Seq(Straight), NEW s, NEW u, NEW v,
         Takes(c, s, u), Takes(d, u, v)
  PROVE  Takes(c \o d, s, v)
<1>1. PICK f : Runs(f, c, s) /\ f[Len(c)] = u
  BY DEF Takes
<1>2. PICK g : Runs(g, d, u) /\ g[Len(d)] = v
  BY DEF Takes
<1> DEFINE m == Len(c)  n == Len(d)
           h == [k \in 0 .. m + n |-> IF k <= m THEN f[k] ELSE g[k - m]]
<1>3. m \in Nat /\ n \in Nat /\ Len(c \o d) = m + n
      /\ \A k \in 1 .. m + n : (c \o d)[k] = IF k <= m THEN c[k] ELSE d[k - m]
  OBVIOUS
<1>4. f \in [0 .. m -> State] /\ g \in [0 .. n -> State] /\ f[0] = s /\ f[m] = u
      /\ g[0] = u /\ g[n] = v
  BY <1>1, <1>2 DEF Runs
<1> HIDE DEF m, n
<1>5. h \in [0 .. m + n -> State]
  <2> SUFFICES ASSUME NEW k \in 0 .. m + n PROVE h[k] \in State
    OBVIOUS
  <2>1. CASE k <= m
    BY <1>3, <1>4, <2>1
  <2>2. CASE ~(k <= m)
    <3>1. k - m \in 0 .. n
      BY <1>3, <2>2
    <3> QED
      BY <1>3, <1>4, <2>2, <3>1
  <2> QED
    BY <2>1, <2>2
<1>6. h[0] = s /\ h[m + n] = v
  BY <1>3, <1>4
<1>7. ASSUME NEW k \in 1 .. m + n PROVE h[k] = Do((c \o d)[k], h[k - 1])
  <2>1. CASE k <= m
    <3>1. h[k] = f[k] /\ h[k - 1] = f[k - 1] /\ k \in 1 .. m /\ (c \o d)[k] = c[k]
      BY <1>3, <2>1
    <3> QED
      BY <1>1, <3>1 DEF Runs, m
  <2>2. CASE k > m
    <3>1. k - m \in 1 .. n /\ (c \o d)[k] = d[k - m] /\ k \in 0 .. m + n /\ ~(k <= m)
      BY <1>3, <2>2
    <3>4. h[k] = g[k - m]
      BY <3>1
    <3>2. h[k - 1] = g[(k - m) - 1]
      BY <1>3, <1>4, <2>2
    <3>3. g[k - m] = Do(d[k - m], g[(k - m) - 1])
      BY <1>2, <3>1 DEF Runs, n
    <3> QED
      BY <3>1, <3>2, <3>3, <3>4
  <2> QED
    BY <1>3, <2>1, <2>2
<1> HIDE DEF h
<1>8. Runs(h, c \o d, s)
  BY <1>3, <1>5, <1>6, <1>7 DEF Runs
<1> QED
  BY <1>3, <1>6, <1>8 DEF Takes

LEMMA Paired ==
  ASSUME NEW S, NEW i \in S, NEW j \in S
  PROVE  <<i>> \o <<j>> = <<i, j>>
<1> DEFINE p == <<i>> \o <<j>>  q == <<i, j>>
<1>1. p \in Seq(S) /\ q \in Seq(S) /\ Len(p) = 2 /\ Len(q) = 2
  OBVIOUS
<1>2. p[1] = i /\ p[2] = j /\ q[1] = i /\ q[2] = j
  OBVIOUS
<1> HIDE DEF p, q
<1>3. \A n \in 1 .. Len(p) : p[n] = q[n]
  BY <1>1, <1>2
<1>4. p = q
  BY <1>1, <1>3, SeqEqual
<1> QED
  BY <1>4 DEF p, q

LEMMA TakesTwo ==
  ASSUME NEW i \in Straight, NEW j \in Straight, NEW s \in State
  PROVE  <<i, j>> \in Seq(Straight) /\ Takes(<<i, j>>, s, Do(j, Do(i, s)))
<1> DEFINE c == <<i>>  d == <<j>>  u == Do(i, s)
<1>1. c \in Seq(Straight) /\ d \in Seq(Straight) /\ <<i, j>> \in Seq(Straight)
  OBVIOUS
<1>2. <<i, j>> = c \o d
  BY Paired
<1>3. Takes(c, s, u)
  BY TakesOne
<1>4. u \in State
  BY DoType
<1>5. Takes(d, u, Do(j, u))
  BY <1>4, TakesOne
<1> HIDE DEF c, d, u
<1>6. Takes(c \o d, s, Do(j, u))
  BY <1>1, <1>3, <1>5, TakesBoth
<1> QED
  BY <1>1, <1>2, <1>6 DEF u

LEMMA TakesThree ==
  ASSUME NEW i \in Straight, NEW j \in Straight, NEW k \in Straight, NEW s \in State
  PROVE  /\ <<i, j, k>> \in Seq(Straight)
         /\ Takes(<<i, j, k>>, s, Do(k, Do(j, Do(i, s))))
<1> DEFINE c == <<i, j>>  d == <<k>>  u == Do(j, Do(i, s))
<1>1. c \in Seq(Straight) /\ d \in Seq(Straight) /\ <<i, j, k>> \in Seq(Straight)
  OBVIOUS
<1>2. <<i, j, k>> = c \o d
  OBVIOUS
<1>3. Takes(c, s, u)
  BY TakesTwo
<1>4. u \in State
  BY DoType
<1>5. Takes(d, u, Do(k, u))
  BY <1>4, TakesOne
<1> HIDE DEF c, d, u
<1>6. Takes(c \o d, s, Do(k, u))
  BY <1>1, <1>3, <1>5, TakesBoth
<1> QED
  BY <1>1, <1>2, <1>6 DEF u

-----------------------------------------------------------------------------
LEMMA TimesIs ==
  ASSUME NEW S, NEW i \in S
  PROVE  /\ \A n \in Nat : Times(n, i) \in Seq(S)
         /\ Times(0, i) = <<>>
         /\ Times(1, i) = <<i>>
<1>1. ASSUME NEW n \in Nat
      PROVE  Times(n, i) \in Seq(S) /\ Len(Times(n, i)) = n /\ \A k \in 1 .. n : Times(n, i)[k] = i
  <2> DEFINE p == [k \in 1 .. n |-> i]
  <2>1. p \in Seq(S) /\ Len(p) = n /\ \A k \in 1 .. n : p[k] = i
    <3>1. p \in [1 .. n -> S]
      OBVIOUS
    <3>2. p \in Seq(S) /\ DOMAIN p = 1 .. Len(p)
      BY <3>1
    <3>3. Len(p) = n
      BY <3>2, LenProperties
    <3> QED
      BY <3>2, <3>3
  <2>2. Times(n, i) = p
    BY DEF Times
  <2> HIDE DEF p
  <2> QED
    BY <2>1, <2>2
<1>7. \A n \in Nat : Times(n, i) \in Seq(S)
  BY <1>1
<1>8. \A n \in Nat : Len(Times(n, i)) = n
  BY <1>1
<1>9. \A n \in Nat : \A k \in 1 .. n : Times(n, i)[k] = i
  BY <1>1
<1> DEFINE p == Times(0, i)  q == Times(1, i)  c == <<i>>
<1>2. p \in Seq(S) /\ Len(p) = 0 /\ q \in Seq(S) /\ Len(q) = 1 /\ q[1] = i
  <2>1. 0 \in Nat /\ 1 \in Nat /\ 1 \in 1 .. 1
    OBVIOUS
  <2>2. Times(0, i) \in Seq(S) /\ Times(1, i) \in Seq(S)
    BY <1>7, <2>1, Zenon
  <2>3. Len(Times(0, i)) = 0 /\ Len(Times(1, i)) = 1
    BY <1>8, <2>1, Zenon
  <2>4. Times(1, i)[1] = i
    BY <1>9, <2>1, Zenon
  <2> QED
    BY <2>2, <2>3, <2>4
<1>3. c \in Seq(S) /\ Len(c) = 1 /\ c[1] = i
  OBVIOUS
<1> HIDE DEF p, q, c
<1>4. p = <<>>
  BY <1>2, EmptySeq
<1>5. \A k \in 1 .. Len(q) : q[k] = c[k]
  BY <1>2, <1>3
<1>6. q = c
  BY <1>2, <1>3, <1>5, SeqEqual
<1> QED
  BY <1>7, <1>4, <1>6 DEF p, q, c

\* The recursion of Bits has a solution.
LEMMA BitsDef ==
  ASSUME NEW x \in Registers
  PROVE  /\ Bits(x, 0) = <<>>
         /\ Bits(x, 1) = <<INC(x)>>
         /\ \A n \in Nat : n > 1 => Bits(x, n) = Bits(x, n \div 2) \o <<SHL(x)>> \o Times(n % 2, INC(x))
         /\ \A n \in Nat : Bits(x, n) \in Seq(Straight)
<1> DEFINE V == Seq(Straight)
           more(v, m) == v \o <<SHL(x)>> \o Times(m % 2, INC(x))
           g == [y \in (Nat \ {0}) \X V |-> IF y[1] <= 1 THEN Times(y[1], INC(x)) ELSE more(y[2], y[1])]
           h == [m \in Nat \ {0} |-> m \div 2]
<1>1. INC(x) \in Straight /\ SHL(x) \in Straight
  BY StraightIs
<1>2. \A m \in Nat : Times(m, INC(x)) \in V /\ Times(m % 2, INC(x)) \in V
  <2> DEFINE i == INC(x)
  <2>1. i \in Straight
    BY <1>1
  <2> HIDE DEF i
  <2>2. \A m \in Nat : Times(m, i) \in Seq(Straight)
    BY <2>1, TimesIs
  <2>3. \A m \in Nat : m % 2 \in Nat
    OBVIOUS
  <2> QED
    BY <2>2, <2>3 DEF i
<1>3. \A v \in V, m \in Nat : more(v, m) \in V
  <2> SUFFICES ASSUME NEW v \in V, NEW m \in Nat PROVE more(v, m) \in V
    OBVIOUS
  <2>1. Times(m % 2, INC(x)) \in V /\ <<SHL(x)>> \in V
    BY <1>1, <1>2
  <2> HIDE DEF V
  <2>2. v \o <<SHL(x)>> \in V
    BY <2>1, ConcatProperties DEF V
  <2> QED
    BY <2>1, <2>2, ConcatProperties DEF V
<1> HIDE DEF V, more
<1>4. g \in [(Nat \ {0}) \X V -> V]
  BY <1>2, <1>3
<1>5. Times(0, INC(x)) \in V
  BY <1>2
<1>6. PICK f : f \in Recursive(V, Times(0, INC(x)), g, h)
  <2>1. Rules(V, g, h)
    BY <1>4 DEF Rules
  <2> HIDE DEF g, h
  <2> QED
    BY <1>5, <2>1, Recursion
<1>7. f \in [Nat -> V] /\ f[0] = Times(0, INC(x))
      /\ \A m \in Nat \ {0} : f[m] = g[<<m, f[h[m]]>>]
  BY <1>6 DEF Recursive
<1>8. \A m \in Nat : f[m] = IF m <= 1 THEN Times(m, INC(x)) ELSE more(f[m \div 2], m)
  <2> SUFFICES ASSUME NEW m \in Nat \ {0}
               PROVE f[m] = IF m <= 1 THEN Times(m, INC(x)) ELSE more(f[m \div 2], m)
    BY <1>7
  <2>1. h[m] = m \div 2 /\ m \div 2 \in Nat /\ f[m \div 2] \in V
    BY <1>7
  <2> QED
    BY <1>7, <2>1
<1> DEFINE Is(d) == d = [m \in Nat |-> IF m <= 1 THEN Times(m, INC(x)) ELSE more(d[m \div 2], m)]
           bits == CHOOSE d : Is(d)
<1>9. Is(f)
  BY <1>7, <1>8
<1>10. Is(bits)
  BY <1>9
<1>11. \A n : Bits(x, n) = bits[n]
  BY DEF Bits, more
<1> HIDE DEF bits
<1>12. \A n \in Nat : bits[n] \in V
  <2> DEFINE S == { n \in Nat : bits[n] \in V }
  <2>1. ASSUME NEW n \in Nat, \A m \in 0 .. n - 1 : m \in S PROVE n \in S
    <3>1. CASE n <= 1
      BY <1>2, <1>10, <3>1
    <3>2. CASE n > 1
      <4>1. n \div 2 \in 0 .. n - 1
        BY <3>2
      <4>2. bits[n \div 2] \in V
        BY <2>1, <4>1
      <4> QED
        BY <1>3, <1>10, <3>2, <4>2
    <3> QED
      BY <3>1, <3>2
  <2> HIDE DEF S
  <2>2. \A n \in Nat : n \in S
    BY <2>1, StrongInduction
  <2> QED
    BY <2>2 DEF S
<1>13. bits[0] = <<>> /\ bits[1] = <<INC(x)>>
  <2>1. Times(0, INC(x)) = <<>> /\ Times(1, INC(x)) = <<INC(x)>>
    BY <1>1, TimesIs
  <2> QED
    BY <1>10, <2>1
<1>14. ASSUME NEW n \in Nat, n > 1 PROVE bits[n] = more(bits[n \div 2], n)
  BY <1>10, <1>14
<1>15. ASSUME NEW n \in Nat, n > 1
       PROVE  Bits(x, n) = Bits(x, n \div 2) \o <<SHL(x)>> \o Times(n % 2, INC(x))
  BY <1>11, <1>14, <1>15 DEF more
<1>16. \A n \in Nat : Bits(x, n) \in Seq(Straight)
  BY <1>11, <1>12 DEF V
<1>17. Bits(x, 0) = <<>> /\ Bits(x, 1) = <<INC(x)>>
  BY <1>11, <1>13
<1> QED
  BY <1>15, <1>16, <1>17

-----------------------------------------------------------------------------
\* The straight fragment f goes from s to u.
Reaches(f, s, u) == f.lines \in Seq(Straight) /\ Takes(f.lines, s, u)

LEMMA ReachesState ==
  ASSUME NEW f, NEW s, NEW u, Reaches(f, s, u)
  PROVE  u \in State
<1>1. Len(f.lines) \in 0 .. Len(f.lines)
  BY LenProperties DEF Reaches
<1> QED
  BY <1>1 DEF Reaches, Takes, Runs

LEMMA Then ==
  ASSUME NEW f, NEW g, NEW s, NEW u, NEW v, Reaches(f, s, u), Reaches(g, u, v)
  PROVE  Reaches(f ++ g, s, v)
<1> DEFINE c == f.lines  d == g.lines
<1>1. c \in Seq(Straight) /\ d \in Seq(Straight) /\ Takes(c, s, u) /\ Takes(d, u, v)
  BY DEF Reaches
<1>2. (f ++ g).lines = c \o d
  BY DEF ++
<1> HIDE DEF c, d
<1>3. c \o d \in Seq(Straight)
  BY <1>1, ConcatProperties
<1>4. Takes(c \o d, s, v)
  BY <1>1, TakesBoth
<1> QED
  BY <1>2, <1>3, <1>4 DEF Reaches

LEMMA ReachesEmit ==
  ASSUME NEW s \in State
  PROVE  /\ Reaches(Nothing, s, s)
         /\ Reaches(Emit(<<>>), s, s)
         /\ \A i \in Straight : Reaches(Emit(<<i>>), s, Do(i, s))
         /\ \A i, j \in Straight : Reaches(Emit(<<i, j>>), s, Do(j, Do(i, s)))
         /\ \A i, j, k \in Straight :
              Reaches(Emit(<<i, j, k>>), s, Do(k, Do(j, Do(i, s))))
<1>1. Reaches(Emit(<<>>), s, s)
  BY TakesNothing DEF Reaches, Emit
<1>2. ASSUME NEW i \in Straight PROVE Reaches(Emit(<<i>>), s, Do(i, s))
  BY TakesOne DEF Reaches, Emit
<1>3. ASSUME NEW i \in Straight, NEW j \in Straight
      PROVE  Reaches(Emit(<<i, j>>), s, Do(j, Do(i, s)))
  BY TakesTwo DEF Reaches, Emit
<1>4. ASSUME NEW i \in Straight, NEW j \in Straight, NEW k \in Straight
      PROVE  Reaches(Emit(<<i, j, k>>), s, Do(k, Do(j, Do(i, s))))
  BY TakesThree DEF Reaches, Emit
<1> QED
  BY <1>1, <1>2, <1>3, <1>4 DEF Nothing

\* The last value that is put into a register counts.
LEMMA SetTwice ==
  ASSUME NEW s \in State, NEW x \in Registers, NEW v \in Nat, NEW w \in Nat
  PROVE  Set(Set(s, x, v), x, w) = Set(s, x, w)
BY DEF Set, State

LEMMA OneStraight == \A i \in Straight : <<i>> \in Seq(Straight)
OBVIOUS

LEMMA BitsTake ==
  ASSUME NEW x \in Registers, NEW s \in State
  PROVE  \A n \in Nat : Takes(Bits(x, n), Set(s, x, 0), Set(s, x, n))
<1> DEFINE P == { n \in Nat : Takes(Bits(x, n), Set(s, x, 0), Set(s, x, n)) }
<1>1. \A v \in Nat : Set(s, x, v) \in State /\ Set(s, x, v).r[x] = v
  BY SetIs
<1>2. INC(x) \in Straight /\ SHL(x) \in Straight
  BY StraightIs
<1>3. \A v \in Nat : Takes(<<INC(x)>>, Set(s, x, v), Set(s, x, v + 1))
  <2> SUFFICES ASSUME NEW v \in Nat
               PROVE  Takes(<<INC(x)>>, Set(s, x, v), Set(s, x, v + 1))
    OBVIOUS
  <2>1. Do(INC(x), Set(s, x, v)) = Set(s, x, v + 1)
    BY <1>1, DoIs, SetTwice
  <2> QED
    BY <1>1, <1>2, <2>1, TakesOne
<1>4. \A v \in Nat : Takes(<<SHL(x)>>, Set(s, x, v), Set(s, x, 2 * v))
  <2> SUFFICES ASSUME NEW v \in Nat
               PROVE  Takes(<<SHL(x)>>, Set(s, x, v), Set(s, x, 2 * v))
    OBVIOUS
  <2>1. Do(SHL(x), Set(s, x, v)) = Set(s, x, 2 * v)
    BY <1>1, DoIs, SetTwice
  <2> QED
    BY <1>1, <1>2, <2>1, TakesOne
<1>5. ASSUME NEW n \in Nat, \A m \in 0 .. n - 1 : m \in P PROVE n \in P
  <2>1. CASE n = 0
    <3>1. Bits(x, n) = <<>>
      BY <2>1, BitsDef
    <3> QED
      BY <1>1, <2>1, <3>1, TakesNothing
  <2>2. CASE n = 1
    <3>1. Bits(x, n) = <<INC(x)>>
      BY <2>2, BitsDef
    <3>2. Takes(<<INC(x)>>, Set(s, x, 0), Set(s, x, 0 + 1))
      BY <1>3
    <3> QED
      BY <2>2, <3>1, <3>2
  <2>3. CASE n > 1
    <3> DEFINE k == n \div 2  a == Bits(x, k)  b == <<SHL(x)>>  c == Times(n % 2, INC(x))
    <3>1. k \in 0 .. n - 1 /\ k \in Nat /\ n % 2 \in {0, 1} /\ n = 2 * k + (n % 2)
      BY <2>3
    <3>2. Takes(a, Set(s, x, 0), Set(s, x, k))
      BY <1>5, <3>1
    <3>3. Takes(b, Set(s, x, k), Set(s, x, 2 * k))
      BY <1>4, <3>1
    <3>4. Takes(c, Set(s, x, 2 * k), Set(s, x, n))
      <4>1. CASE n % 2 = 0
        <5>1. c = <<>> /\ n = 2 * k
          BY <1>2, <3>1, <4>1, TimesIs
        <5> QED
          BY <1>1, <3>1, <5>1, TakesNothing
      <4>2. CASE n % 2 = 1
        <5>1. c = <<INC(x)>> /\ n = 2 * k + 1 /\ 2 * k \in Nat
          BY <1>2, <3>1, <4>2, TimesIs
        <5>2. Takes(<<INC(x)>>, Set(s, x, 2 * k), Set(s, x, 2 * k + 1))
          BY <1>3, <5>1
        <5> QED
          BY <5>1, <5>2
      <4> QED
        BY <3>1, <4>1, <4>2
    <3>5. a \in Seq(Straight) /\ b \in Seq(Straight) /\ c \in Seq(Straight)
      <4>1. \A m \in Nat : Bits(x, m) \in Seq(Straight)
        BY BitsDef
      <4>2. <<SHL(x)>> \in Seq(Straight)
        BY <1>2, OneStraight
      <4>3. c \in Seq(Straight)
        <5>1. Times(0, INC(x)) = <<>> /\ Times(1, INC(x)) = <<INC(x)>>
          BY <1>2, TimesIs
        <5>2. c = <<>> \/ c = <<INC(x)>>
          BY <3>1, <5>1
        <5>3. <<>> \in Seq(Straight) /\ <<INC(x)>> \in Seq(Straight)
          BY <1>2, OneStraight, EmptySeq
        <5> HIDE DEF c
        <5> QED
          BY <5>2, <5>3
      <4> QED
        BY <3>1, <4>1, <4>2, <4>3
    <3>6. Bits(x, n) = a \o b \o c
      BY <2>3, BitsDef
    <3> HIDE DEF a, b, c, k
    <3>7. a \o b \in Seq(Straight)
      BY <3>5, ConcatProperties
    <3>8. Takes(a \o b, Set(s, x, 0), Set(s, x, 2 * k))
      BY <3>2, <3>3, <3>5, TakesBoth
    <3>9. Takes(a \o b \o c, Set(s, x, 0), Set(s, x, n))
      BY <3>4, <3>5, <3>7, <3>8, TakesBoth
    <3> QED
      BY <3>6, <3>9
  <2> QED
    BY <2>1, <2>2, <2>3
<1> HIDE DEF P
<1>6. \A n \in Nat : n \in P
  BY <1>5, StrongInduction
<1> QED
  BY <1>6 DEF P

LEMMA SetRegisterReaches ==
  ASSUME NEW x \in Registers, NEW s \in State, NEW n \in Nat
  PROVE  Reaches(SetRegister(x, n), s, Set(s, x, n))
<1> DEFINE a == <<RST(x)>>  b == Bits(x, n)
<1>1. RST(x) \in Straight /\ Do(RST(x), s) = Set(s, x, 0)
  BY StraightIs, DoIs
<1>2. Takes(a, s, Set(s, x, 0))
  BY <1>1, TakesOne
<1>3. Takes(b, Set(s, x, 0), Set(s, x, n))
  BY BitsTake
<1>4. a \in Seq(Straight) /\ b \in Seq(Straight)
  BY <1>1, BitsDef, OneStraight
<1>5. SetRegister(x, n).lines = a \o b
  BY DEF SetRegister, Emit
<1> HIDE DEF a, b
<1>6. a \o b \in Seq(Straight)
  BY <1>4, ConcatProperties
<1>7. Takes(a \o b, s, Set(s, x, n))
  BY <1>2, <1>3, <1>4, TakesBoth
<1> QED
  BY <1>5, <1>6, <1>7 DEF Reaches

-----------------------------------------------------------------------------
\* Nothing fails in f ++ g if nothing fails in both.
LEMMA Errors ==
  ASSUME NEW f, NEW g
  PROVE  /\ (f ++ g).errors = {} => f.errors = {} /\ g.errors = {}
         /\ \A e : Fail(e).errors # {}
BY DEF ++, Fail

LEMMA EmitBoth ==
  ASSUME NEW c, NEW d
  PROVE  Emit(c \o d) = Emit(c) ++ Emit(d)
BY DEF Emit, ++

\* A straight fragment that ends with x set to v.
LEMMA ReachesSet ==
  ASSUME NEW s \in State, NEW x \in Registers
  PROVE  /\ \A n \in Nat : Reaches(SetRegister(x, n), s, Set(s, x, n))
         /\ Reaches(Emit(<<LOAD(x)>>), s, Set(s, "A", s.m[s.r[x]]))
         /\ Reaches(Emit(<<ADD(x)>>), s, Set(s, "A", s.r["A"] + s.r[x]))
         /\ Reaches(Emit(<<SUB(x)>>), s, Set(s, "A", Monus(s.r["A"], s.r[x])))
         /\ Reaches(Emit(<<GET(x)>>), s, Set(s, "A", s.r[x]))
         /\ Reaches(Emit(<<PUT(x)>>), s, Set(s, x, s.r["A"]))
         /\ Reaches(Emit(<<INC(x)>>), s, Set(s, x, s.r[x] + 1))
         /\ Reaches(Emit(<<DEC(x)>>), s, Set(s, x, Monus(s.r[x], 1)))
         /\ Reaches(Emit(<<SHL(x)>>), s, Set(s, x, 2 * s.r[x]))
         /\ Reaches(Emit(<<SHR(x)>>), s, Set(s, x, s.r[x] \div 2))
         /\ Reaches(Emit(<<STORE(x)>>), s, Poke(s, s.r[x], s.r["A"]))
<1>1. {LOAD(x), STORE(x), ADD(x), SUB(x), GET(x), PUT(x), RST(x), INC(x), DEC(x),
       SHL(x), SHR(x)} \subseteq Straight
  BY StraightIs
<1>2. \A i \in Straight : Reaches(Emit(<<i>>), s, Do(i, s))
  BY ReachesEmit
<1>3. \A n \in Nat : Reaches(SetRegister(x, n), s, Set(s, x, n))
  BY SetRegisterReaches
<1> QED
  BY <1>1, <1>2, <1>3, DoIs

\* Two instructions in a row.
LEMMA EmitPair ==
  ASSUME NEW i \in Straight, NEW j \in Straight
  PROVE  Emit(<<i, j>>) = Emit(<<i>>) ++ Emit(<<j>>)
<1>1. <<i, j>> = <<i>> \o <<j>>
  BY Paired
<1> QED
  BY <1>1, EmitBoth

LEMMA EmitTriple ==
  ASSUME NEW i \in Straight, NEW j \in Straight, NEW k \in Straight
  PROVE  Emit(<<i, j, k>>) = Emit(<<i>>) ++ Emit(<<j>>) ++ Emit(<<k>>)
<1> DEFINE p == <<i>> \o <<j>> \o <<k>>  q == <<i, j, k>>
<1>1. p \in Seq(Straight) /\ q \in Seq(Straight) /\ Len(p) = 3 /\ Len(q) = 3
  OBVIOUS
<1>2. p[1] = i /\ p[2] = j /\ p[3] = k /\ q[1] = i /\ q[2] = j /\ q[3] = k
  OBVIOUS
<1> HIDE DEF p, q
<1>3. \A n \in 1 .. Len(p) : p[n] = q[n]
  BY <1>1, <1>2
<1>4. p = q
  BY <1>1, <1>3, SeqEqual
<1> QED
  BY <1>4, EmitBoth DEF p, q

\* The fragment f goes from s to u, which is s but for v in the register x.
Puts(f, s, u, x, v) ==
  /\ u \in State
  /\ Reaches(f, s, u)
  /\ u.m = s.m
  /\ u.r = [s.r EXCEPT ![x] = v]

LEMMA Putting ==
  ASSUME NEW s \in State, NEW x \in Registers
  PROVE  /\ \A n \in Nat : \E u : Puts(SetRegister(x, n), s, u, x, n)
         /\ \E u : Puts(Emit(<<LOAD(x)>>), s, u, "A", s.m[s.r[x]])
         /\ \E u : Puts(Emit(<<ADD(x)>>), s, u, "A", s.r["A"] + s.r[x])
         /\ \E u : Puts(Emit(<<SUB(x)>>), s, u, "A", Monus(s.r["A"], s.r[x]))
         /\ \E u : Puts(Emit(<<GET(x)>>), s, u, "A", s.r[x])
         /\ \E u : Puts(Emit(<<PUT(x)>>), s, u, x, s.r["A"])
         /\ \E u : Puts(Emit(<<INC(x)>>), s, u, x, s.r[x] + 1)
         /\ \E u : Puts(Emit(<<DEC(x)>>), s, u, x, Monus(s.r[x], 1))
         /\ \E u : Puts(Emit(<<SHL(x)>>), s, u, x, 2 * s.r[x])
         /\ \E u : Puts(Emit(<<SHR(x)>>), s, u, x, s.r[x] \div 2)
<1>1. ASSUME NEW f, NEW y \in Registers, NEW v \in Nat, Reaches(f, s, Set(s, y, v))
      PROVE  \E u : Puts(f, s, u, y, v)
  <2>1. Puts(f, s, Set(s, y, v), y, v)
    BY <1>1, SetIs DEF Puts, Set
  <2> QED
    BY <2>1
<1>2. "A" \in Registers /\ s.r["A"] \in Nat /\ s.r[x] \in Nat /\ s.m[s.r[x]] \in Nat
  BY StateIs DEF Registers
<1>3. /\ s.r["A"] + s.r[x] \in Nat /\ Monus(s.r["A"], s.r[x]) \in Nat
      /\ s.r[x] + 1 \in Nat /\ Monus(s.r[x], 1) \in Nat
      /\ 2 * s.r[x] \in Nat /\ s.r[x] \div 2 \in Nat
  BY <1>2 DEF Monus
<1>4. \A n \in Nat : \E u : Puts(SetRegister(x, n), s, u, x, n)
  BY <1>1, ReachesSet
<1>5. \E u : Puts(Emit(<<LOAD(x)>>), s, u, "A", s.m[s.r[x]])
  BY <1>1, <1>2, ReachesSet
<1>6. \E u : Puts(Emit(<<ADD(x)>>), s, u, "A", s.r["A"] + s.r[x])
  BY <1>1, <1>2, <1>3, ReachesSet
<1>7. \E u : Puts(Emit(<<SUB(x)>>), s, u, "A", Monus(s.r["A"], s.r[x]))
  BY <1>1, <1>2, <1>3, ReachesSet
<1>8. \E u : Puts(Emit(<<GET(x)>>), s, u, "A", s.r[x])
  BY <1>1, <1>2, ReachesSet
<1>9. \E u : Puts(Emit(<<PUT(x)>>), s, u, x, s.r["A"])
  BY <1>1, <1>2, ReachesSet
<1>10. \E u : Puts(Emit(<<INC(x)>>), s, u, x, s.r[x] + 1)
  BY <1>1, <1>3, ReachesSet
<1>11. \E u : Puts(Emit(<<DEC(x)>>), s, u, x, Monus(s.r[x], 1))
  BY <1>1, <1>3, ReachesSet
<1>12. \E u : Puts(Emit(<<SHL(x)>>), s, u, x, 2 * s.r[x])
  BY <1>1, <1>3, ReachesSet
<1>13. \E u : Puts(Emit(<<SHR(x)>>), s, u, x, s.r[x] \div 2)
  BY <1>1, <1>3, ReachesSet
<1> QED
  BY <1>4, <1>5, <1>6, <1>7, <1>8, <1>9, <1>10, <1>11, <1>12, <1>13

\* What stands behind a register name.
LEMMA Names == {"A", "B", "C", "D", "E", "F", "G", "H"} \subseteq Registers
BY DEF Registers

LEMMA PointerToMarReaches ==
  ASSUME NEW s \in State
  PROVE  \E u \in State :
           /\ Reaches(PointerToMar, s, u)
           /\ u.m = s.m
           /\ u.r = [s.r EXCEPT !["B"] = s.r["A"], !["A"] = s.r["G"]]
<1>1. PICK v : Puts(Emit(<<PUT("B")>>), s, v, "B", s.r["A"])
  BY Names, Putting
<1>2. v \in State
  BY <1>1 DEF Puts
<1>3. PICK u : Puts(Emit(<<GET("G")>>), v, u, "A", v.r["G"])
  BY <1>2, Names, Putting
<1>4. PointerToMar = Emit(<<PUT("B")>>) ++ Emit(<<GET("G")>>)
  BY Names, StraightIs, EmitPair DEF PointerToMar
<1>5. Reaches(PointerToMar, s, u)
  BY <1>1, <1>3, <1>4, Then DEF Puts
<1>6. v.r["G"] = s.r["G"]
  BY <1>1, Names DEF Puts, State
<1> QED
  BY <1>1, <1>3, <1>5, <1>6 DEF Puts

LEMMA IndexToMarReaches ==
  ASSUME NEW s \in State, NEW base \in Nat
  PROVE  \E u \in State :
           /\ Reaches(IndexToMar(base), s, u)
           /\ u.m = s.m
           /\ u.r["B"] = s.r["A"] + base
           /\ u.r["A"] = s.r["F"]
           /\ u.r["C"] = s.r["C"] /\ u.r["D"] = s.r["D"]
<1>1. PICK v : Puts(SetRegister("E", base), s, v, "E", base)
  BY Names, Putting
<1>2. v \in State
  BY <1>1 DEF Puts
<1>3. PICK w : Puts(Emit(<<ADD("E")>>), v, w, "A", v.r["A"] + v.r["E"])
  BY <1>2, Names, Putting
<1>4. w \in State
  BY <1>3 DEF Puts
<1>5. PICK z : Puts(Emit(<<PUT("B")>>), w, z, "B", w.r["A"])
  BY <1>4, Names, Putting
<1>6. z \in State
  BY <1>5 DEF Puts
<1>7. PICK u : Puts(Emit(<<GET("F")>>), z, u, "A", z.r["F"])
  BY <1>6, Names, Putting
<1>8. IndexToMar(base)
      = SetRegister("E", base)
        ++ (Emit(<<ADD("E")>>) ++ Emit(<<PUT("B")>>) ++ Emit(<<GET("F")>>))
  BY Names, StraightIs, EmitTriple DEF IndexToMar
<1>9. Reaches(Emit(<<ADD("E")>>) ++ Emit(<<PUT("B")>>), v, z)
  BY <1>3, <1>5, Then DEF Puts
<1>10. Reaches(Emit(<<ADD("E")>>) ++ Emit(<<PUT("B")>>) ++ Emit(<<GET("F")>>), v, u)
  BY <1>7, <1>9, Then DEF Puts
<1>11. Reaches(IndexToMar(base), s, u)
  BY <1>1, <1>8, <1>10, Then DEF Puts
<1>12. /\ s.r \in [Registers -> Nat] /\ v.r \in [Registers -> Nat]
       /\ w.r \in [Registers -> Nat] /\ z.r \in [Registers -> Nat]
  BY <1>2, <1>4, <1>6, StateIs
<1>13. u.r["B"] = s.r["A"] + base /\ u.r["A"] = s.r["F"]
       /\ u.r["C"] = s.r["C"] /\ u.r["D"] = s.r["D"]
  BY <1>1, <1>3, <1>5, <1>7, <1>12 DEF Puts, Registers
<1> QED
  BY <1>1, <1>3, <1>5, <1>7, <1>11, <1>13 DEF Puts

LEMMA LocationIs ==
  ASSUME NEW env, IsEnvironment(env), NEW x, Known(env, x), NEW m \in [Nat -> Nat]
  PROVE  /\ Location(env, x).address \in Nat
         /\ Location(env, x).is_pointer \in BOOLEAN
         /\ Stands(env, x, m) \in Nat
<1>1. Location(env, x) \in [address : Nat, size : Nat, is_pointer : BOOLEAN]
  BY DEF IsEnvironment, Known, Location
<1>2. Location(env, x).address \in Nat /\ Location(env, x).is_pointer \in BOOLEAN
  BY <1>1
<1> QED
  BY <1>2 DEF Stands

LEMMA DerefReaches ==
  ASSUME NEW s \in State, NEW env, IsEnvironment(env), NEW idx, Known(env, idx.name),
         NEW x \in Registers, s.r[x] = Location(env, idx.name).address
  PROVE  \E u \in State :
           /\ Reaches(Deref(env, idx, x), s, u)
           /\ u.m = s.m
           /\ u.r["A"] = s.m[Stands(env, idx.name, s.m)]
           /\ \A y \in Registers \ {"A", x} : u.r[y] = s.r[y]
<1> DEFINE loc == Location(env, idx.name)
           load == Emit(<<LOAD(x)>>)
           put == Emit(<<PUT(x)>>)
<1>1. PICK v : Puts(load, s, v, "A", s.m[s.r[x]])
  BY Putting
<1>2. v \in State
  BY <1>1 DEF Puts
<1>3. PICK w : Puts(put, v, w, x, v.r["A"])
  BY <1>2, Putting
<1>4. w \in State
  BY <1>3 DEF Puts
<1>5. PICK u : Puts(load, w, u, "A", w.m[w.r[x]])
  BY <1>4, Putting
<1>6. /\ s.r \in [Registers -> Nat] /\ v.r \in [Registers -> Nat]
      /\ w.r \in [Registers -> Nat] /\ "A" \in Registers
  BY <1>2, <1>4, StateIs, Names
<1>7. CASE ~loc.is_pointer
  <2>1. Deref(env, idx, x) = Emit(<<>>) ++ load
    BY <1>7, EmitBoth DEF Deref
  <2>2. Reaches(Emit(<<>>), s, s)
    BY ReachesEmit
  <2>3. Reaches(Deref(env, idx, x), s, v)
    BY <1>1, <2>1, <2>2, Then DEF Puts
  <2>4. Stands(env, idx.name, s.m) = s.r[x]
    BY <1>7 DEF Stands
  <2> QED
    BY <1>1, <1>6, <2>3, <2>4 DEF Puts
<1>8. CASE loc.is_pointer
  <2>1. Deref(env, idx, x) = load ++ put ++ load
    <3> DEFINE c == <<LOAD(x), PUT(x)>>  d == <<LOAD(x)>>
    <3>1. Emit(c) = load ++ put
      BY StraightIs, EmitPair
    <3>2. Deref(env, idx, x) = Emit(c \o d)
      BY <1>8 DEF Deref
    <3>3. Emit(d) = load
      OBVIOUS
    <3> HIDE DEF c, d, load, put
    <3> QED
      BY <3>1, <3>2, <3>3, EmitBoth
  <2>2. Reaches(load ++ put, s, w)
    BY <1>1, <1>3, Then DEF Puts
  <2>3. Reaches(Deref(env, idx, x), s, u)
    BY <1>5, <2>1, <2>2, Then DEF Puts
  <2>4. Stands(env, idx.name, s.m) = s.m[s.r[x]]
    BY <1>8 DEF Stands
  <2>5. v.r["A"] = s.m[s.r[x]] /\ w.r[x] = v.r["A"] /\ w.m = s.m /\ u.m = s.m
        /\ u.r["A"] = w.m[w.r[x]]
    BY <1>1, <1>3, <1>5, <1>6 DEF Puts
  <2>6. \A y \in Registers \ {"A", x} : u.r[y] = s.r[y]
    BY <1>1, <1>3, <1>5, <1>6 DEF Puts
  <2> QED
    BY <1>5, <2>3, <2>4, <2>5, <2>6, ZenonT(30) DEF Puts
<1>9. loc.is_pointer \in BOOLEAN
  BY StateIs, LocationIs
<1> QED
  BY <1>7, <1>8, <1>9

-----------------------------------------------------------------------------
\* The fragment f puts a into B and keeps all but scratch registers.
Addresses(f, s, a) ==
  \E u \in State :
    /\ Reaches(f, s, u)
    /\ u.m = s.m
    /\ u.r["B"] = a
    /\ u.r["A"] = s.r["A"] /\ u.r["C"] = s.r["C"] /\ u.r["D"] = s.r["D"]

LEMMA HandlePointerReaches ==
  ASSUME NEW s \in State, NEW env, IsEnvironment(env), NEW id, IsIdentifier(id),
         Known(env, id.name), Location(env, id.name).is_pointer,
         HandlePointer(env, id).errors = {}
  PROVE  Addresses(HandlePointer(env, id), s, AddressOf(env, id, s.m))
<1> DEFINE p == Location(env, id.name).address
           idx == id.index[1]
           start == SetRegister("B", p) ++ Emit(<<PUT("G"), LOAD("B")>>)
<1>1. p \in Nat
  BY LocationIs, StateIs
<1>2. PICK u1 : Puts(SetRegister("B", p), s, u1, "B", p)
  BY <1>1, Names, Putting
<1>3. u1 \in State
  BY <1>2 DEF Puts
<1>4. PICK u2 : Puts(Emit(<<PUT("G")>>), u1, u2, "G", u1.r["A"])
  BY <1>3, Names, Putting
<1>5. u2 \in State
  BY <1>4 DEF Puts
<1>6. PICK v : Puts(Emit(<<LOAD("B")>>), u2, v, "A", u2.m[u2.r["B"]])
  BY <1>5, Names, Putting
<1>7. v \in State
  BY <1>6 DEF Puts
<1>8. /\ s.r \in [Registers -> Nat] /\ u1.r \in [Registers -> Nat]
      /\ u2.r \in [Registers -> Nat] /\ v.r \in [Registers -> Nat]
      /\ s.m \in [Nat -> Nat]
  BY <1>3, <1>5, <1>7, StateIs
<1>9. Reaches(start, s, v)
  <2>1. Emit(<<PUT("G"), LOAD("B")>>) = Emit(<<PUT("G")>>) ++ Emit(<<LOAD("B")>>)
    BY Names, StraightIs, EmitPair
  <2>2. Reaches(Emit(<<PUT("G")>>) ++ Emit(<<LOAD("B")>>), u1, v)
    BY <1>4, <1>6, Then DEF Puts
  <2> QED
    BY <1>2, <2>1, <2>2, Then DEF Puts
<1>10. /\ v.m = s.m /\ v.r["A"] = Stands(env, id.name, s.m) /\ v.r["G"] = s.r["A"]
       /\ v.r["C"] = s.r["C"] /\ v.r["D"] = s.r["D"]
  <2>1. v.m = s.m /\ v.r["A"] = s.m[p]
    BY <1>2, <1>4, <1>6, <1>8, Names DEF Puts
  <2>2. v.r["G"] = s.r["A"] /\ v.r["C"] = s.r["C"] /\ v.r["D"] = s.r["D"]
    BY <1>2, <1>4, <1>6, <1>8 DEF Puts, Registers
  <2> QED
    BY <2>1, <2>2 DEF Stands
<1> HIDE DEF start, p
\* The last part of every case.
<1>11. ASSUME NEW w \in State, w.m = s.m,
              w.r["A"] = AddressOf(env, id, s.m), w.r["G"] = s.r["A"],
              w.r["C"] = s.r["C"], w.r["D"] = s.r["D"]
       PROVE  \E u : /\ u \in State
                     /\ Reaches(PointerToMar, w, u)
                     /\ u.m = s.m
                     /\ u.r["B"] = AddressOf(env, id, s.m) /\ u.r["A"] = s.r["A"]
                     /\ u.r["C"] = s.r["C"] /\ u.r["D"] = s.r["D"]
  <2>1. PICK u \in State : /\ Reaches(PointerToMar, w, u)
                           /\ u.m = w.m
                           /\ u.r = [w.r EXCEPT !["B"] = w.r["A"], !["A"] = w.r["G"]]
    BY PointerToMarReaches
  <2>2. w.r \in [Registers -> Nat]
    BY StateIs
  <2>3. /\ u.r["B"] = w.r["A"] /\ u.r["A"] = w.r["G"]
        /\ u.r["C"] = w.r["C"] /\ u.r["D"] = w.r["D"]
    BY <2>1, <2>2 DEF Registers
  <2> QED
    BY <1>11, <2>1, <2>3
<1>12. CASE id.index = <<>>
  <2>1. HandlePointer(env, id) = start ++ PointerToMar
    BY <1>12 DEF HandlePointer, start, p
  <2>2. AddressOf(env, id, s.m) = v.r["A"]
    <3>1. v.r["A"] \in Nat
      BY <1>8, Names
    <3> QED
      BY <1>10, <1>12, <3>1 DEF AddressOf, Index
  <2>3. PICK u \in State :
          /\ Reaches(PointerToMar, v, u)
          /\ u.m = s.m
          /\ u.r["B"] = AddressOf(env, id, s.m) /\ u.r["A"] = s.r["A"]
          /\ u.r["C"] = s.r["C"] /\ u.r["D"] = s.r["D"]
    BY <1>7, <1>10, <1>11, <2>2
  <2>4. Reaches(HandlePointer(env, id), s, u)
    BY <1>9, <2>1, <2>3, Then
  <2> QED
    BY <2>3, <2>4 DEF Addresses
<1>13. CASE id.index # <<>> /\ IsNum(idx)
  <2> DEFINE set == SetRegister("F", idx.val)  add == Emit(<<ADD("F")>>)
  <2>1. idx.val \in Nat
    BY <1>13 DEF IsIdentifier, IsNumber
  <2>2. PICK w1 : Puts(set, v, w1, "F", idx.val)
    BY <1>7, <2>1, Names, Putting
  <2>3. w1 \in State
    BY <2>2 DEF Puts
  <2>4. PICK w : Puts(add, w1, w, "A", w1.r["A"] + w1.r["F"])
    BY <2>3, Names, Putting
  <2>5. HandlePointer(env, id) = start ++ (set ++ add ++ PointerToMar)
    BY <1>13 DEF HandlePointer, start, p
  <2>6. w1.r \in [Registers -> Nat]
    BY <2>3, StateIs
  <2>7. /\ w.m = s.m /\ w.r["A"] = v.r["A"] + idx.val
        /\ w.r["G"] = v.r["G"] /\ w.r["C"] = v.r["C"] /\ w.r["D"] = v.r["D"]
    BY <1>8, <1>10, <2>2, <2>4, <2>6 DEF Puts, Registers
  <2>8. AddressOf(env, id, s.m) = v.r["A"] + idx.val
    BY <1>10, <1>13 DEF AddressOf, Index
  <2>9. w \in State
    BY <2>4 DEF Puts
  <2>10. PICK u \in State :
           /\ Reaches(PointerToMar, w, u)
           /\ u.m = s.m
           /\ u.r["B"] = AddressOf(env, id, s.m) /\ u.r["A"] = s.r["A"]
           /\ u.r["C"] = s.r["C"] /\ u.r["D"] = s.r["D"]
    BY <1>10, <1>11, <2>7, <2>8, <2>9
  <2> HIDE DEF set, add
  <2>11. Reaches(set ++ add, v, w)
    BY <2>2, <2>4, Then DEF Puts
  <2>12. Reaches(HandlePointer(env, id), s, u)
    BY <1>9, <2>5, <2>10, <2>11, Then
  <2> QED
    BY <2>10, <2>12 DEF Addresses
<1>14. CASE id.index # <<>> /\ ~IsNum(idx)
  <2> DEFINE loc == Location(env, idx.name)
             put == Emit(<<PUT("H")>>)
             set == SetRegister("F", loc.address)
             deref == Deref(env, idx, "F")
             add == Emit(<<ADD("H")>>)
             rest == IF ~Known(env, idx.name) THEN Unknown(idx.name)
                     ELSE put ++ set ++ deref ++ add ++ PointerToMar
  <2>1. HandlePointer(env, id) = start ++ rest
    BY <1>14 DEF HandlePointer, start, p
  <2>2. Known(env, idx.name)
    <3>1. rest.errors = {}
      BY <2>1, Errors
    <3> QED
      BY <3>1, Errors DEF Unknown
  <2>3. rest = put ++ set ++ deref ++ add ++ PointerToMar
    BY <2>2
  <2>4. PICK w1 : Puts(put, v, w1, "H", v.r["A"])
    BY <1>7, Names, Putting
  <2>5. w1 \in State /\ loc.address \in Nat
    BY <1>8, <2>2, <2>4, LocationIs DEF Puts
  <2>6. PICK w2 : Puts(set, w1, w2, "F", loc.address)
    BY <2>5, Names, Putting
  <2>7. w2 \in State
    BY <2>6 DEF Puts
  <2>8. w1.r \in [Registers -> Nat] /\ w2.r \in [Registers -> Nat]
    BY <2>5, <2>7, StateIs
  <2>9. w2.r["F"] = loc.address /\ "F" \in Registers
    BY <2>6, <2>8, Names DEF Puts
  <2>10. PICK w3 \in State :
           /\ Reaches(deref, w2, w3)
           /\ w3.m = w2.m
           /\ w3.r["A"] = w2.m[Stands(env, idx.name, w2.m)]
           /\ \A y \in Registers \ {"A", "F"} : w3.r[y] = w2.r[y]
    BY <2>2, <2>7, <2>9, DerefReaches
  <2>11. PICK w : Puts(add, w3, w, "A", w3.r["A"] + w3.r["H"])
    BY Names, Putting
  <2>12. w \in State /\ w3.r \in [Registers -> Nat]
    BY <2>11, StateIs DEF Puts
  <2>13. w2.m = s.m /\ w2.r["H"] = v.r["A"]
         /\ w2.r["G"] = v.r["G"] /\ w2.r["C"] = v.r["C"] /\ w2.r["D"] = v.r["D"]
    BY <1>8, <1>10, <2>4, <2>6, <2>8 DEF Puts, Registers
  <2>14. /\ w3.r["H"] = v.r["A"] /\ w3.r["G"] = v.r["G"]
         /\ w3.r["C"] = v.r["C"] /\ w3.r["D"] = v.r["D"]
    BY <2>10, <2>13 DEF Registers
  <2>15. w3.r["A"] = Index(env, id, s.m) /\ w3.r["A"] \in Nat
    <3>1. w3.r["A"] = s.m[Stands(env, idx.name, s.m)]
      BY <2>10, <2>13
    <3>2. w3.r["A"] \in Nat
      BY <2>12, Names
    <3> QED
      BY <1>14, <3>1, <3>2 DEF Index
  <2>16. /\ w.m = s.m /\ w.r["A"] = w3.r["A"] + v.r["A"] /\ w.r["G"] = v.r["G"]
         /\ w.r["C"] = v.r["C"] /\ w.r["D"] = v.r["D"]
    BY <2>10, <2>11, <2>12, <2>13, <2>14 DEF Puts, Registers
  <2>17. w.r["A"] = AddressOf(env, id, s.m)
    <3>1. v.r["A"] \in Nat
      BY <1>8, Names
    <3> QED
      BY <1>10, <2>15, <2>16, <3>1 DEF AddressOf
  <2>18. PICK u \in State :
           /\ Reaches(PointerToMar, w, u)
           /\ u.m = s.m
           /\ u.r["B"] = AddressOf(env, id, s.m) /\ u.r["A"] = s.r["A"]
           /\ u.r["C"] = s.r["C"] /\ u.r["D"] = s.r["D"]
    BY <1>10, <1>11, <2>12, <2>16, <2>17
  <2> HIDE DEF put, set, deref, add, loc, rest
  <2>19. Reaches(put ++ set, v, w2)
    BY <2>4, <2>6, Then DEF Puts
  <2>20. Reaches(put ++ set ++ deref, v, w3)
    BY <2>10, <2>19, Then
  <2>21. Reaches(put ++ set ++ deref ++ add, v, w)
    BY <2>11, <2>20, Then DEF Puts
  <2>22. Reaches(rest, v, u)
    BY <2>3, <2>18, <2>21, Then
  <2>23. Reaches(HandlePointer(env, id), s, u)
    BY <1>9, <2>1, <2>22, Then
  <2> QED
    BY <2>18, <2>23 DEF Addresses
<1> QED
  BY <1>12, <1>13, <1>14

LEMMA DirectMarReaches ==
  ASSUME NEW s \in State, NEW env, IsEnvironment(env), NEW id, IsIdentifier(id),
         Known(env, id.name), ~Location(env, id.name).is_pointer,
         DirectMar(env, id).errors = {}
  PROVE  Addresses(DirectMar(env, id), s, AddressOf(env, id, s.m))
<1> DEFINE p == Location(env, id.name).address
           idx == id.index[1]
<1>1. p \in Nat /\ Stands(env, id.name, s.m) = p
  BY LocationIs, StateIs DEF Stands
<1> HIDE DEF p
<1>2. s.r \in [Registers -> Nat] /\ s.m \in [Nat -> Nat]
  BY StateIs
<1>3. ASSUME NEW n \in Nat, NEW f, f = SetRegister("B", n)
      PROVE  Addresses(f, s, n)
  <2>1. PICK u : Puts(SetRegister("B", n), s, u, "B", n)
    BY Names, Putting
  <2>2. u.r["B"] = n /\ u.r["A"] = s.r["A"] /\ u.r["C"] = s.r["C"] /\ u.r["D"] = s.r["D"]
    BY <1>2, <2>1 DEF Puts, Registers
  <2> QED
    BY <1>3, <2>1, <2>2 DEF Addresses, Puts
<1>4. CASE id.index = <<>>
  <2>1. DirectMar(env, id) = SetRegister("B", p)
    BY <1>4 DEF DirectMar, p
  <2>2. AddressOf(env, id, s.m) = p
    BY <1>1, <1>4 DEF AddressOf, Index
  <2> QED
    BY <1>1, <1>3, <2>1, <2>2
<1>5. CASE id.index # <<>> /\ IsNum(idx)
  <2> DEFINE first == IF idx.val > Location(env, id.name).size
                      THEN Fail([kind |-> "outside bounds", name |-> id.name])
                      ELSE Nothing
             set == SetRegister("B", p + idx.val)
  <2>1. idx.val \in Nat
    BY <1>5 DEF IsIdentifier, IsNumber
  <2>2. DirectMar(env, id) = first ++ set
    BY <1>5 DEF DirectMar, p
  <2>3. first = Nothing
    <3>1. first.errors = {}
      BY <2>2, Errors
    <3> QED
      BY <3>1, Errors
  <2>4. AddressOf(env, id, s.m) = p + idx.val /\ p + idx.val \in Nat
    BY <1>1, <1>5, <2>1 DEF AddressOf, Index
  <2>5. Addresses(set, s, p + idx.val)
    BY <1>3, <2>4
  <2> HIDE DEF first, set
  <2>6. PICK u \in State :
          /\ Reaches(set, s, u)
          /\ u.m = s.m
          /\ u.r["B"] = p + idx.val
          /\ u.r["A"] = s.r["A"] /\ u.r["C"] = s.r["C"] /\ u.r["D"] = s.r["D"]
    BY <2>5 DEF Addresses
  <2>7. Reaches(first, s, s)
    BY <2>3, ReachesEmit
  <2>8. Reaches(DirectMar(env, id), s, u)
    BY <2>2, <2>6, <2>7, Then
  <2> QED
    BY <2>4, <2>6, <2>8 DEF Addresses
<1>6. CASE id.index # <<>> /\ ~IsNum(idx)
  <2> DEFINE loc == Location(env, idx.name)
             put == Emit(<<PUT("F")>>)
             set == SetRegister("B", loc.address)
             deref == Deref(env, idx, "B")
             add == IndexToMar(p)
             rest == IF ~Known(env, idx.name) THEN Unknown(idx.name)
                     ELSE set ++ deref ++ add
  <2>1. DirectMar(env, id) = put ++ rest
    BY <1>6 DEF DirectMar, p
  <2>2. Known(env, idx.name)
    <3>1. rest.errors = {}
      BY <2>1, Errors
    <3> QED
      BY <3>1, Errors DEF Unknown
  <2>3. rest = set ++ deref ++ add
    BY <2>2
  <2>4. PICK w1 : Puts(put, s, w1, "F", s.r["A"])
    BY Names, Putting
  <2>5. w1 \in State /\ loc.address \in Nat
    BY <1>2, <2>2, <2>4, LocationIs DEF Puts
  <2>6. PICK w2 : Puts(set, w1, w2, "B", loc.address)
    BY <2>5, Names, Putting
  <2>7. w2 \in State
    BY <2>6 DEF Puts
  <2>8. w1.r \in [Registers -> Nat] /\ w2.r \in [Registers -> Nat]
    BY <2>5, <2>7, StateIs
  <2>9. w2.r["B"] = loc.address /\ "B" \in Registers
    BY <2>6, <2>8, Names DEF Puts
  <2>10. PICK w3 \in State :
           /\ Reaches(deref, w2, w3)
           /\ w3.m = w2.m
           /\ w3.r["A"] = w2.m[Stands(env, idx.name, w2.m)]
           /\ \A y \in Registers \ {"A", "B"} : w3.r[y] = w2.r[y]
    BY <2>2, <2>7, <2>9, DerefReaches
  <2>11. PICK u \in State :
           /\ Reaches(add, w3, u)
           /\ u.m = w3.m
           /\ u.r["B"] = w3.r["A"] + p
           /\ u.r["A"] = w3.r["F"]
           /\ u.r["C"] = w3.r["C"] /\ u.r["D"] = w3.r["D"]
    BY <1>1, IndexToMarReaches
  <2>12. w3.r \in [Registers -> Nat]
    BY StateIs
  <2>13. w2.m = s.m /\ w2.r["F"] = s.r["A"] /\ w2.r["C"] = s.r["C"] /\ w2.r["D"] = s.r["D"]
    BY <1>2, <2>4, <2>6, <2>8 DEF Puts, Registers
  <2>14. w3.r["F"] = s.r["A"] /\ w3.r["C"] = s.r["C"] /\ w3.r["D"] = s.r["D"]
    BY <2>10, <2>13 DEF Registers
  <2>15. w3.r["A"] = Index(env, id, s.m) /\ w3.r["A"] \in Nat
    <3>1. w3.r["A"] = s.m[Stands(env, idx.name, s.m)]
      BY <2>10, <2>13
    <3>2. w3.r["A"] \in Nat
      BY <2>12, Names
    <3> QED
      BY <1>6, <3>1, <3>2 DEF Index
  <2>16. u.r["B"] = AddressOf(env, id, s.m)
    BY <1>1, <2>11, <2>15 DEF AddressOf
  <2> HIDE DEF put, set, deref, add, loc, rest
  <2>17. Reaches(set ++ deref, w1, w3)
    BY <2>6, <2>10, Then DEF Puts
  <2>18. Reaches(rest, w1, u)
    BY <2>3, <2>11, <2>17, Then
  <2>19. Reaches(DirectMar(env, id), s, u)
    BY <2>1, <2>4, <2>18, Then DEF Puts
  <2> QED
    BY <2>10, <2>11, <2>13, <2>14, <2>16, <2>19 DEF Addresses
<1> QED
  BY <1>4, <1>5, <1>6

\* set_mar, whatever the identifier is: the address, and the accumulator and
\* the operands in C and D as they were.
LEMMA SetMarReaches ==
  ASSUME NEW s \in State, NEW env, IsEnvironment(env), NEW id, IsIdentifier(id),
         SetMar(env, id).errors = {}
  PROVE  /\ Known(env, id.name)
         /\ Addresses(SetMar(env, id), s, AddressOf(env, id, s.m))
<1>1. Known(env, id.name)
  BY Errors DEF SetMar, Unknown
<1>2. Location(env, id.name).is_pointer \in BOOLEAN
  BY <1>1, LocationIs, StateIs
<1>3. CASE Location(env, id.name).is_pointer
  <2>1. SetMar(env, id) = HandlePointer(env, id)
    BY <1>1, <1>3 DEF SetMar
  <2> QED
    BY <1>1, <1>3, <2>1, HandlePointerReaches
<1>4. CASE ~Location(env, id.name).is_pointer
  <2>1. SetMar(env, id) = DirectMar(env, id)
    BY <1>1, <1>4 DEF SetMar
  <2> QED
    BY <1>1, <1>4, <2>1, DirectMarReaches
<1> QED
  BY <1>2, <1>3, <1>4

\* The fragment f puts v into the register x and keeps C and D otherwise.
Loads(f, s, x, v) ==
  \E u \in State :
    /\ Reaches(f, s, u)
    /\ u.m = s.m
    /\ u.r[x] = v
    /\ \A y \in {"C", "D"} \ {x} : u.r[y] = s.r[y]

LEMMA SetRegisterToReaches ==
  ASSUME NEW s \in State, NEW env, IsEnvironment(env), NEW v, IsOperand(v),
         NEW x \in {"A", "C", "D"}, SetRegisterTo(env, x, v).errors = {}
  PROVE  Loads(SetRegisterTo(env, x, v), s, x, ValueOf(env, v, s.m))
<1>1. x \in Registers /\ s.r \in [Registers -> Nat]
  BY Names, StateIs
<1>2. CASE IsNum(v)
  <2>1. v.val \in Nat /\ ValueOf(env, v, s.m) = v.val
    BY <1>2 DEF IsOperand, IsNumber, IsIdentifier, ValueOf
  <2>2. PICK u : Puts(SetRegister(x, v.val), s, u, x, v.val)
    BY <1>1, <2>1, Putting
  <2>3. SetRegisterTo(env, x, v) = SetRegister(x, v.val)
    BY <1>2 DEF SetRegisterTo
  <2>4. u.r[x] = v.val /\ \A y \in {"C", "D"} \ {x} : u.r[y] = s.r[y]
    BY <1>1, <2>2 DEF Puts, Registers
  <2> QED
    BY <2>1, <2>2, <2>3, <2>4 DEF Loads, Puts
<1>3. CASE ~IsNum(v)
  <2> DEFINE mar == SetMar(env, v)
             a == AddressOf(env, v, s.m)
             last == Emit(IF x = "A" THEN <<LOAD("B")>> ELSE <<LOAD("B"), PUT(x)>>)
  <2>1. SetRegisterTo(env, x, v) = mar ++ last /\ IsIdentifier(v)
    BY <1>3 DEF SetRegisterTo, IsOperand, IsNumber
  <2>2. mar.errors = {}
    BY <2>1, Errors
  <2>3. PICK w \in State : /\ Reaches(mar, s, w)
                           /\ w.m = s.m
                           /\ w.r["B"] = a
                           /\ w.r["A"] = s.r["A"] /\ w.r["C"] = s.r["C"]
                           /\ w.r["D"] = s.r["D"]
    BY <2>1, <2>2, SetMarReaches DEF Addresses
  <2>4. PICK z : Puts(Emit(<<LOAD("B")>>), w, z, "A", w.m[w.r["B"]])
    BY Names, Putting
  <2>5. z \in State /\ w.r \in [Registers -> Nat]
    BY <2>4, StateIs DEF Puts
  <2>6. /\ z.m = s.m /\ z.r["A"] = ValueOf(env, v, s.m)
        /\ z.r["C"] = s.r["C"] /\ z.r["D"] = s.r["D"]
    <3>1. ValueOf(env, v, s.m) = s.m[a]
      BY <1>3 DEF ValueOf
    <3> QED
      BY <2>3, <2>4, <2>5, <3>1 DEF Puts, Registers
  <2>7. CASE x = "A"
    <3>1. Reaches(mar ++ last, s, z)
      BY <2>3, <2>4, <2>7, Then DEF Puts
    <3> QED
      BY <2>1, <2>5, <2>6, <2>7, <3>1 DEF Loads
  <2>8. CASE x # "A"
    <3>1. PICK u : Puts(Emit(<<PUT(x)>>), z, u, x, z.r["A"])
      BY <1>1, <2>5, Putting
    <3>2. last = Emit(<<LOAD("B")>>) ++ Emit(<<PUT(x)>>)
      BY <1>1, <2>8, Names, StraightIs, EmitPair
    <3>3. Reaches(last, w, u)
      BY <2>4, <3>1, <3>2, Then DEF Puts
    <3> HIDE DEF last, mar, a
    <3>4. Reaches(mar ++ last, s, u)
      BY <2>3, <3>3, Then
    <3>5. z.r \in [Registers -> Nat]
      BY <2>5, StateIs
    <3>6. u.m = s.m /\ u.r[x] = ValueOf(env, v, s.m)
          /\ \A y \in {"C", "D"} \ {x} : u.r[y] = s.r[y]
      BY <1>1, <2>6, <3>1, <3>5 DEF Puts, Registers
    <3> QED
      BY <2>1, <3>1, <3>4, <3>6 DEF Loads, Puts
  <2> QED
    BY <2>7, <2>8
<1> QED
  BY <1>2, <1>3

LEMMA SetMemoryReaches ==
  ASSUME NEW s \in State, NEW env, IsEnvironment(env), NEW id, IsIdentifier(id),
         SetMemory(env, id).errors = {}
  PROVE  \E u \in State :
           /\ Reaches(SetMemory(env, id), s, u)
           /\ u.m = [s.m EXCEPT ![AddressOf(env, id, s.m)] = s.r["A"]]
           /\ AddressOf(env, id, s.m) \in Nat
<1>1. SetMar(env, id).errors = {}
  BY Errors DEF SetMemory
<1>2. PICK w \in State : /\ Reaches(SetMar(env, id), s, w)
                         /\ w.m = s.m
                         /\ w.r["B"] = AddressOf(env, id, s.m)
                         /\ w.r["A"] = s.r["A"]
  BY <1>1, SetMarReaches DEF Addresses
<1>3. w.r["B"] \in Nat /\ w.r["A"] \in Nat
  BY Names, StateIs
<1> DEFINE u == Poke(w, w.r["B"], w.r["A"])
<1>4. u \in State /\ u.m = [w.m EXCEPT ![w.r["B"]] = w.r["A"]]
  BY <1>3, PokeIs
<1>5. Reaches(Emit(<<STORE("B")>>), w, u)
  BY Names, ReachesSet
<1> HIDE DEF u
<1>6. Reaches(SetMemory(env, id), s, u)
  BY <1>2, <1>5, Then DEF SetMemory
<1> QED
  BY <1>2, <1>3, <1>4, <1>6

-----------------------------------------------------------------------------
(* Numbers next to an operator.                                             *)

\* One more of the same instruction.
LEMMA TimesNext ==
  ASSUME NEW S, NEW i \in S, NEW n \in Nat
  PROVE  Times(n + 1, i) = <<i>> \o Times(n, i)
<1> DEFINE c == <<i>>  d == Times(n, i)  p == Times(n + 1, i)
<1>1. \A k \in Nat : Times(k, i) = [j \in 1 .. k |-> i]
  BY DEF Times
<1>2. \A k \in Nat : Times(k, i) \in Seq(S)
  BY TimesIs
<1>3. c \in Seq(S) /\ Len(c) = 1 /\ c[1] = i
  OBVIOUS
<1>4. d \in Seq(S) /\ p \in Seq(S)
  BY <1>2
<1>5. \A k \in Nat : Len(Times(k, i)) = k
  <2> SUFFICES ASSUME NEW k \in Nat PROVE Len(Times(k, i)) = k
    OBVIOUS
  <2>1. DOMAIN Times(k, i) = 1 .. k
    BY <1>1
  <2>2. Times(k, i) \in Seq(S)
    BY <1>2
  <2>3. Len(Times(k, i)) \in Nat /\ DOMAIN Times(k, i) = 1 .. Len(Times(k, i))
    BY <2>2, LenProperties
  <2> QED
    BY <2>1, <2>3
<1>6. Len(d) = n /\ Len(p) = n + 1
  BY <1>5
<1>7. \A j \in 1 .. n : d[j] = i
  BY <1>1
<1>8. \A j \in 1 .. n + 1 : p[j] = i
  BY <1>1
<1> DEFINE q == c \o d
<1> HIDE DEF c, d, p
<1>9. /\ q \in Seq(S) /\ Len(q) = 1 + n
      /\ \A j \in 1 .. 1 + n : q[j] = IF j <= 1 THEN c[j] ELSE d[j - 1]
  <2>1. c \in Seq(S) /\ d \in Seq(S)
    BY <1>3, <1>4
  <2>2. /\ q \in Seq(S) /\ Len(q) = Len(c) + Len(d)
        /\ \A j \in 1 .. Len(c) + Len(d) : q[j] = IF j <= Len(c) THEN c[j] ELSE d[j - Len(c)]
    BY ONLY <2>1, ConcatProperties
  <2> HIDE DEF q
  <2> QED
    BY <1>3, <1>6, <2>2
<1> HIDE DEF q
<1>10. \A j \in 1 .. Len(p) : p[j] = q[j]
  BY <1>3, <1>6, <1>7, <1>8, <1>9
<1>11. p = q
  BY <1>4, <1>6, <1>9, <1>10, SeqEqual, SMTT(30)
<1> QED
  BY <1>11 DEF p, q, c, d

LEMMA StepByReaches ==
  ASSUME NEW s \in State
  PROVE  \A n \in 0 .. 5 :
           /\ Reaches(StepBy(INC("A"), n), s, Set(s, "A", s.r["A"] + n))
           /\ Reaches(StepBy(DEC("A"), n), s, Set(s, "A", Monus(s.r["A"], n)))
<1> DEFINE P == { n \in Nat : \A v \in State :
                    /\ Takes(Times(n, INC("A")), v, Set(v, "A", v.r["A"] + n))
                    /\ Takes(Times(n, DEC("A")), v, Set(v, "A", Monus(v.r["A"], n))) }
<1>1. "A" \in Registers /\ INC("A") \in Straight /\ DEC("A") \in Straight
  BY Names, StraightIs
<1>2. 0 \in P
  <2> SUFFICES ASSUME NEW v \in State
               PROVE  /\ Takes(Times(0, INC("A")), v, Set(v, "A", v.r["A"] + 0))
                      /\ Takes(Times(0, DEC("A")), v, Set(v, "A", Monus(v.r["A"], 0)))
    OBVIOUS
  <2>1. Times(0, INC("A")) = <<>> /\ Times(0, DEC("A")) = <<>>
    BY <1>1, TimesIs
  <2>2. v.r["A"] + 0 = v.r["A"] /\ Monus(v.r["A"], 0) = v.r["A"]
    BY <1>1, StateIs DEF Monus
  <2>3. Set(v, "A", v.r["A"]) = v
    BY <1>1 DEF Set, State
  <2> QED
    BY <2>1, <2>2, <2>3, TakesNothing
<1>3. ASSUME NEW n \in Nat, n \in P PROVE n + 1 \in P
  <2> SUFFICES ASSUME NEW v \in State
               PROVE  /\ Takes(Times(n + 1, INC("A")), v, Set(v, "A", v.r["A"] + (n + 1)))
                      /\ Takes(Times(n + 1, DEC("A")), v, Set(v, "A", Monus(v.r["A"], n + 1)))
    OBVIOUS
  <2>1. v.r["A"] \in Nat
    BY <1>1, StateIs
  <2> DEFINE a == v.r["A"]  x == Set(v, "A", a + 1)  y == Set(v, "A", Monus(a, 1))
  <2>2. a + 1 \in Nat /\ Monus(a, 1) \in Nat /\ (a + 1) + n = a + (n + 1)
        /\ Monus(Monus(a, 1), n) = Monus(a, n + 1) /\ Monus(a, n + 1) \in Nat
    BY <2>1 DEF Monus
  <2>3. x \in State /\ x.r["A"] = a + 1 /\ y \in State /\ y.r["A"] = Monus(a, 1)
    BY <1>1, <2>2, SetIs, ZenonT(30)
  <2>4. /\ Takes(Times(n, INC("A")), x, Set(x, "A", x.r["A"] + n))
        /\ Takes(Times(n, DEC("A")), y, Set(y, "A", Monus(y.r["A"], n)))
    BY <1>3, <2>3
  <2>5. /\ Set(x, "A", x.r["A"] + n) = Set(v, "A", a + (n + 1))
        /\ Set(y, "A", Monus(y.r["A"], n)) = Set(v, "A", Monus(a, n + 1))
    BY <1>1, <2>2, <2>3, SetTwice
  <2>6. Takes(<<INC("A")>>, v, x) /\ Takes(<<DEC("A")>>, v, y)
    BY <1>1, DoIs, TakesOne
  <2>7. /\ Times(n + 1, INC("A")) = <<INC("A")>> \o Times(n, INC("A"))
        /\ Times(n + 1, DEC("A")) = <<DEC("A")>> \o Times(n, DEC("A"))
    BY <1>1, TimesNext
  <2>8. /\ <<INC("A")>> \in Seq(Straight) /\ <<DEC("A")>> \in Seq(Straight)
        /\ Times(n, INC("A")) \in Seq(Straight) /\ Times(n, DEC("A")) \in Seq(Straight)
    BY <1>1, OneStraight, TimesIs
  <2> HIDE DEF x, y, a
  <2>9. Takes(Times(n + 1, INC("A")), v, Set(v, "A", a + (n + 1)))
    BY <2>4, <2>5, <2>6, <2>7, <2>8, TakesBoth
  <2>10. Takes(Times(n + 1, DEC("A")), v, Set(v, "A", Monus(a, n + 1)))
    BY <2>4, <2>5, <2>6, <2>7, <2>8, TakesBoth
  <2> QED
    BY <2>9, <2>10 DEF a
<1> HIDE DEF P
<1>4. \A n \in Nat : n \in P
  BY <1>2, <1>3, SetInduction
<1> USE DEF P
<1>5. SUFFICES ASSUME NEW n \in 0 .. 5
      PROVE  /\ Reaches(StepBy(INC("A"), n), s, Set(s, "A", s.r["A"] + n))
             /\ Reaches(StepBy(DEC("A"), n), s, Set(s, "A", Monus(s.r["A"], n)))
  OBVIOUS
<1>6. /\ StepBy(INC("A"), n).lines = Times(n, INC("A"))
      /\ StepBy(DEC("A"), n).lines = Times(n, DEC("A"))
  BY DEF StepBy, Emit
<1>7. Times(n, INC("A")) \in Seq(Straight) /\ Times(n, DEC("A")) \in Seq(Straight)
  <2>1. n \in Nat
    OBVIOUS
  <2> QED
    BY <1>1, <2>1, TimesIs
<1> QED
  BY <1>4, <1>6, <1>7 DEF Reaches

\* The recursion of Halvings has a solution.
LEMMA HalvingsDef ==
  /\ Halvings(1) = 0
  /\ \A n \in Nat : n > 1 => Halvings(n) = 1 + Halvings(n \div 2)
  /\ \A n \in Nat : Halvings(n) \in Nat
<1> DEFINE g == [y \in (Nat \ {0}) \X Nat |-> IF y[1] <= 1 THEN 0 ELSE 1 + y[2]]
           h == [m \in Nat \ {0} |-> m \div 2]
<1>1. g \in [(Nat \ {0}) \X Nat -> Nat]
  OBVIOUS
<1>2. PICK f : f \in Recursive(Nat, 0, g, h)
  <2>1. Rules(Nat, g, h)
    BY <1>1 DEF Rules
  <2> HIDE DEF g, h
  <2> QED
    BY <2>1, Recursion
<1>3. f \in [Nat -> Nat] /\ f[0] = 0 /\ \A m \in Nat \ {0} : f[m] = g[<<m, f[h[m]]>>]
  BY <1>2 DEF Recursive
<1>4. \A m \in Nat : f[m] = IF m <= 1 THEN 0 ELSE 1 + f[m \div 2]
  <2> SUFFICES ASSUME NEW m \in Nat \ {0} PROVE f[m] = IF m <= 1 THEN 0 ELSE 1 + f[m \div 2]
    BY <1>3
  <2>1. h[m] = m \div 2 /\ m \div 2 \in Nat /\ f[m \div 2] \in Nat
    BY <1>3
  <2> QED
    BY <1>3, <2>1
<1> DEFINE Is(d) == d = [m \in Nat |-> IF m <= 1 THEN 0 ELSE 1 + d[m \div 2]]
           halve == CHOOSE d : Is(d)
<1>5. Is(f)
  BY <1>3, <1>4
<1>6. Is(halve)
  BY <1>5
<1>7. \A n : Halvings(n) = halve[n]
  BY DEF Halvings
<1> HIDE DEF halve
<1>8. \A n \in Nat : halve[n] \in Nat
  <2> DEFINE S == { n \in Nat : halve[n] \in Nat }
  <2>1. ASSUME NEW n \in Nat, \A m \in 0 .. n - 1 : m \in S PROVE n \in S
    <3>1. CASE n <= 1
      BY <1>6, <3>1
    <3>2. CASE n > 1
      <4>1. n \div 2 \in 0 .. n - 1
        BY <3>2
      <4>2. halve[n \div 2] \in Nat
        BY <2>1, <4>1
      <4> QED
        BY <1>6, <3>2, <4>2
    <3> QED
      BY <3>1, <3>2
  <2> HIDE DEF S
  <2>2. \A n \in Nat : n \in S
    BY <2>1, StrongInduction
  <2> QED
    BY <2>2 DEF S
<1>9. halve[1] = 0
  BY <1>6
<1>10. \A n \in Nat : n > 1 => halve[n] = 1 + halve[n \div 2]
  BY <1>6
<1> QED
  BY <1>7, <1>8, <1>9, <1>10

\* Halving twice is halving by the product.
LEMMA QuotientTwice ==
  ASSUME NEW v \in Nat, NEW k \in Nat \ {0}
  PROVE  v \div (2 * k) = (v \div 2) \div k
<1> DEFINE w == v \div 2  q == w \div k  s == w % k  e == v % 2
<1>1. w \in Nat /\ e \in {0, 1} /\ v = 2 * w + e
  OBVIOUS
<1> HIDE DEF w, e
<1>2. q \in Nat /\ s \in Nat /\ s < k /\ w = k * q + s
  BY <1>1
<1> HIDE DEF q, s
<1>3. 2 * s + e \in Nat /\ 2 * s + e < 2 * k /\ 2 * k \in Nat \ {0}
  BY <1>1, <1>2
<1>4. q * (2 * k) + (2 * s + e) = v
  <2>1. q * (2 * k) = 2 * (k * q)
    BY <1>2
  <2>2. k * q \in Nat
    BY <1>2
  <2> QED
    BY <1>1, <1>2, <2>1, <2>2
<1>5. v \div (2 * k) = q
  BY <1>2, <1>3, <1>4, Quotient
<1> QED
  BY <1>5 DEF q, w

LEMMA ShiftByReaches ==
  ASSUME NEW s \in State, NEW n \in Nat, PowerOfTwo(n)
  PROVE  /\ Reaches(ShiftBy(SHL("A"), n), s, Set(s, "A", s.r["A"] * n))
         /\ Reaches(ShiftBy(SHR("A"), n), s, Set(s, "A", s.r["A"] \div n))
<1> DEFINE L(k) == Times(Halvings(k), SHL("A"))
           R(k) == Times(Halvings(k), SHR("A"))
           P == { k \in Nat : PowerOfTwo(k) => \A v \in State :
                    /\ Takes(L(k), v, Set(v, "A", v.r["A"] * k))
                    /\ Takes(R(k), v, Set(v, "A", v.r["A"] \div k)) }
<1>1. "A" \in Registers /\ SHL("A") \in Straight /\ SHR("A") \in Straight
  BY Names, StraightIs
<1>2. ASSUME NEW v \in State PROVE v.r["A"] \in Nat /\ Set(v, "A", v.r["A"]) = v
  BY <1>1, StateIs DEF Set, State
<1>3. ASSUME NEW k \in Nat, \A m \in 0 .. k - 1 : m \in P PROVE k \in P
  <2> SUFFICES ASSUME PowerOfTwo(k), NEW v \in State
               PROVE  /\ Takes(L(k), v, Set(v, "A", v.r["A"] * k))
                      /\ Takes(R(k), v, Set(v, "A", v.r["A"] \div k))
    OBVIOUS
  <2> DEFINE a == v.r["A"]
  <2>1. a \in Nat /\ Set(v, "A", a) = v
    BY <1>2
  <2>2. CASE k = 1
    <3>1. L(k) = <<>> /\ R(k) = <<>>
      BY <1>1, <2>2, HalvingsDef, TimesIs
    <3>2. a * k = a /\ a \div k = a
      BY <2>1, <2>2
    <3> HIDE DEF L, R
    <3> QED
      BY <2>1, <3>1, <3>2, TakesNothing
  <2>3. CASE k # 1
    <3> DEFINE m == k \div 2
    <3>1. k \in Nat \ {0} /\ \A d, q \in 1 .. k : d * q = k => d = 1 \/ d % 2 = 0
      BY DEF PowerOfTwo
    <3>2. /\ k = 2 * m /\ m \in Nat \ {0}
          /\ \A d, q \in 1 .. m : d * q = m => d = 1 \/ d % 2 = 0
      BY <2>3, <3>1, HalfOfPower
    <3> HIDE DEF m
    <3>3. m \in P /\ PowerOfTwo(m)
      <4>1. m \in 0 .. k - 1
        BY <3>2
      <4> HIDE DEF P
      <4> QED
        BY <1>3, <3>2, <4>1 DEF PowerOfTwo
    <3> DEFINE x == Set(v, "A", 2 * a)  y == Set(v, "A", a \div 2)
    <3>4. 2 * a \in Nat /\ a \div 2 \in Nat
      BY <2>1
    <3>5. x \in State /\ x.r["A"] = 2 * a /\ y \in State /\ y.r["A"] = a \div 2
      <4> DEFINE p == 2 * a  q == a \div 2
      <4>1. p \in Nat /\ q \in Nat /\ x = Set(v, "A", p) /\ y = Set(v, "A", q)
        BY <3>4
      <4> HIDE DEF p, q, x, y
      <4>2. x \in State /\ x.r["A"] = p /\ y \in State /\ y.r["A"] = q
        BY <1>1, <4>1, SetIs, SMTT(30)
      <4> QED
        BY <4>2 DEF p, q
    <3>6. /\ Takes(L(m), x, Set(x, "A", x.r["A"] * m))
          /\ Takes(R(m), y, Set(y, "A", y.r["A"] \div m))
      BY <3>3, <3>5
    <3>7. (2 * a) * m = a * k /\ a * k \in Nat
      BY <2>1, <3>2
    <3>8. (a \div 2) \div m = a \div k /\ a \div k \in Nat
      <4>1. (a \div 2) \div m = a \div k
        BY <2>1, <3>2, QuotientTwice
      <4> QED
        BY <2>1, <3>1, <4>1
    <3>9. /\ Set(x, "A", x.r["A"] * m) = Set(v, "A", a * k)
          /\ Set(y, "A", y.r["A"] \div m) = Set(v, "A", a \div k)
      BY <1>1, <3>4, <3>5, <3>7, <3>8, SetTwice
    <3>10. Takes(<<SHL("A")>>, v, x) /\ Takes(<<SHR("A")>>, v, y)
      BY <1>1, DoIs, TakesOne
    <3>11. Halvings(k) = Halvings(m) + 1 /\ Halvings(m) \in Nat
      BY <2>3, <3>1, <3>2, HalvingsDef DEF m
    <3>12. L(k) = <<SHL("A")>> \o L(m) /\ R(k) = <<SHR("A")>> \o R(m)
      BY <1>1, <3>11, TimesNext
    <3>13. /\ <<SHL("A")>> \in Seq(Straight) /\ <<SHR("A")>> \in Seq(Straight)
           /\ L(m) \in Seq(Straight) /\ R(m) \in Seq(Straight)
      BY <1>1, <3>11, OneStraight, TimesIs
    <3> HIDE DEF x, y, a, L, R
    <3>14. Takes(L(k), v, Set(v, "A", a * k))
      BY <3>6, <3>9, <3>10, <3>12, <3>13, TakesBoth
    <3>15. Takes(R(k), v, Set(v, "A", a \div k))
      BY <3>6, <3>9, <3>10, <3>12, <3>13, TakesBoth
    <3> QED
      BY <3>14, <3>15 DEF a
  <2> QED
    BY <2>2, <2>3
<1> HIDE DEF P
<1>4. \A k \in Nat : k \in P
  BY <1>3, StrongInduction
<1>5. Takes(L(n), s, Set(s, "A", s.r["A"] * n)) /\ Takes(R(n), s, Set(s, "A", s.r["A"] \div n))
  BY <1>4 DEF P
<1>6. L(n) \in Seq(Straight) /\ R(n) \in Seq(Straight)
  BY <1>1, HalvingsDef, TimesIs
<1>7. CASE n % 2 = 0
  BY <1>5, <1>6, <1>7 DEF ShiftBy, Emit, Reaches
<1>8. CASE n % 2 # 0
  <2>1. n = 1
    <3>1. n \in Nat \ {0} /\ \A d, q \in 1 .. n : d * q = n => d = 1 \/ d % 2 = 0
      BY DEF PowerOfTwo
    <3> QED
      BY <1>8, <3>1, HalfOfPower
  <2>2. ShiftBy(SHL("A"), n) = Nothing /\ ShiftBy(SHR("A"), n) = Nothing
    BY <1>8 DEF ShiftBy
  <2>3. s.r["A"] * n = s.r["A"] /\ s.r["A"] \div n = s.r["A"]
    BY <1>2, <2>1
  <2> QED
    BY <1>2, <2>2, <2>3, ReachesEmit
<1> QED
  BY <1>7, <1>8

\* What op makes of x and y.
Applied(op, x, y) ==
  CASE op = "+" -> x + y
    [] op = "-" -> Monus(x, y)
    [] op = "*" -> x * y
    [] op = "/" -> x \div y

\* The fragment f leaves v in A and the memory as it is.
Results(f, s, v) == \E u \in State : Reaches(f, s, u) /\ u.m = s.m /\ u.r["A"] = v

LEMMA NumberFormReaches ==
  ASSUME NEW s \in State, NEW op, NEW n \in Nat, ServedNumber(op, n)
  PROVE  Results(NumberForm(op, n), s, Applied(op, s.r["A"], n))
<1> DEFINE a == s.r["A"]
<1>1. "A" \in Registers /\ a \in Nat
  BY Names, StateIs
<1>2. /\ op \in {"+", "-", "*", "/"}
      /\ op \in {"+", "-"} => n \in 0 .. 5
      /\ op \in {"*", "/"} => PowerOfTwo(n) /\ n > 0
  BY DEF ServedNumber, PowerOfTwo
<1> HIDE DEF a
<1>3. ASSUME NEW f, NEW v \in Nat, Reaches(f, s, Set(s, "A", v))
      PROVE  Results(f, s, v)
  BY <1>1, <1>3, SetIs DEF Results
<1>4. CASE op = "+"
  <2>1. Reaches(StepBy(INC("A"), n), s, Set(s, "A", a + n)) /\ a + n \in Nat
    BY <1>1, <1>2, <1>4, StepByReaches DEF a
  <2> QED
    BY <1>3, <1>4, <2>1 DEF NumberForm, Applied, a
<1>5. CASE op = "-"
  <2>1. Reaches(StepBy(DEC("A"), n), s, Set(s, "A", Monus(a, n)))
    BY <1>2, <1>5, StepByReaches DEF a
  <2>2. Monus(a, n) \in Nat
    BY <1>1 DEF Monus
  <2> QED
    BY <1>3, <1>5, <2>1, <2>2 DEF NumberForm, Applied, a
<1>6. CASE op = "*"
  <2>1. Reaches(ShiftBy(SHL("A"), n), s, Set(s, "A", a * n))
    BY <1>2, <1>6, ShiftByReaches DEF a
  <2>2. a * n \in Nat
    BY <1>1
  <2> QED
    BY <1>3, <1>6, <2>1, <2>2 DEF NumberForm, Applied, a
<1>7. CASE op = "/"
  <2>1. Reaches(ShiftBy(SHR("A"), n), s, Set(s, "A", a \div n))
    BY <1>2, <1>7, ShiftByReaches DEF a
  <2>2. a \div n \in Nat
    BY <1>1, <1>2, <1>7
  <2> QED
    BY <1>3, <1>7, <2>1, <2>2 DEF NumberForm, Applied, a
<1> QED
  BY <1>2, <1>4, <1>5, <1>6, <1>7

LEMMA ValueOfType ==
  ASSUME NEW f, NEW s, NEW x, NEW v, Loads(f, s, x, v), x \in Registers
  PROVE  v \in Nat
BY StateIs DEF Loads

LEMMA WithNumberReaches ==
  ASSUME NEW s \in State, NEW env, IsEnvironment(env), NEW e, IsServed(e),
         e.op # "value", IsNum(e.lhs) \/ IsNum(e.rhs), WithNumber(env, e).errors = {}
  PROVE  Results(WithNumber(env, e), s, ExpressionOf(env, e, s.m))
<1> DEFINE right == IsNum(e.rhs)
           number == IF right THEN e.rhs ELSE e.lhs
           other == IF right THEN e.lhs ELSE e.rhs
           first == SetAccumulator(env, other)
           form == NumberForm(e.op, number.val)
           x == ValueOf(env, other, s.m)
<1>1. WithNumber(env, e) = first ++ form
  BY DEF WithNumber
<1>2. /\ IsOperand(other) /\ number.val \in Nat /\ ServedNumber(e.op, number.val)
      /\ ~right => e.op \in {"+", "*"}
      /\ IsNum(number)
  BY DEF IsServed, IsOperand, IsNumber, IsIdentifier
<1>3. Loads(first, s, "A", x)
  <2>1. first.errors = {}
    BY <1>1, Errors
  <2> QED
    BY <1>2, <2>1, SetRegisterToReaches DEF SetAccumulator
<1>4. PICK w \in State : Reaches(first, s, w) /\ w.m = s.m /\ w.r["A"] = x
  BY <1>3 DEF Loads
<1>5. PICK u \in State : /\ Reaches(form, w, u) /\ u.m = w.m
                         /\ u.r["A"] = Applied(e.op, w.r["A"], number.val)
  BY <1>2, NumberFormReaches DEF Results
<1>6. Reaches(WithNumber(env, e), s, u)
  BY <1>1, <1>4, <1>5, Then
<1>7. x \in Nat
  BY <1>3, Names, ValueOfType
<1>8. e.op \in {"+", "-", "*", "/"}
  BY <1>2 DEF ServedNumber
<1>9. ValueOf(env, number, s.m) = number.val
  BY <1>2 DEF ValueOf
<1>10. Applied(e.op, x, number.val) = ExpressionOf(env, e, s.m)
  <2>1. CASE right
    BY <1>8, <1>9, <2>1 DEF ExpressionOf, Applied
  <2>2. CASE ~right
    <3> DEFINE n == number.val
    <3>1. x + n = n + x /\ x * n = n * x
      BY <1>2, <1>7
    <3>2. x = ValueOf(env, e.rhs, s.m) /\ n = ValueOf(env, e.lhs, s.m)
      BY <1>9, <2>2
    <3> HIDE DEF x, n
    <3>3. e.op \in {"+", "*"}
      BY <1>2, <2>2
    <3>4. Applied(e.op, x, n) = ExpressionOf(env, e, s.m)
      BY <3>1, <3>2, <3>3 DEF ExpressionOf, Applied
    <3> QED
      BY <3>4 DEF x, n
  <2> QED
    BY <2>1, <2>2
<1> QED
  BY <1>4, <1>5, <1>6, <1>10 DEF Results

LEMMA WithRegisterReaches ==
  ASSUME NEW s \in State, NEW env, IsEnvironment(env), NEW e, IsOperand(e.lhs), IsOperand(e.rhs),
         e.op \in {"+", "-"}, WithRegister(env, e).errors = {}
  PROVE  Results(WithRegister(env, e), s, ExpressionOf(env, e, s.m))
<1> DEFINE first == SetRegisterTo(env, "C", e.rhs)
           second == SetAccumulator(env, e.lhs)
           last == Emit(<<IF e.op = "+" THEN ADD("C") ELSE SUB("C")>>)
           x == ValueOf(env, e.lhs, s.m)
           y == ValueOf(env, e.rhs, s.m)
<1>1. WithRegister(env, e) = first ++ second ++ last
  BY DEF WithRegister
<1>2. first.errors = {} /\ second.errors = {}
  <2>1. (first ++ second).errors = {}
    BY <1>1, Errors
  <2> QED
    BY <2>1, Errors
<1>3. IsOperand(e.lhs) /\ IsOperand(e.rhs)
  OBVIOUS
<1>4. Loads(first, s, "C", y)
  BY <1>2, <1>3, SetRegisterToReaches
<1>5. PICK w \in State : Reaches(first, s, w) /\ w.m = s.m /\ w.r["C"] = y
  BY <1>4 DEF Loads
<1>6. Loads(second, w, "A", ValueOf(env, e.lhs, w.m))
  BY <1>2, <1>3, SetRegisterToReaches DEF SetAccumulator
<1>7. PICK z \in State : /\ Reaches(second, w, z) /\ z.m = w.m
                         /\ z.r["A"] = x /\ z.r["C"] = w.r["C"]
  BY <1>5, <1>6 DEF Loads
<1>8. z.r \in [Registers -> Nat]
  BY StateIs
<1>9. CASE e.op = "+"
  <2>1. PICK u : Puts(Emit(<<ADD("C")>>), z, u, "A", z.r["A"] + z.r["C"])
    BY Names, Putting
  <2>2. last = Emit(<<ADD("C")>>)
    BY <1>9
  <2> HIDE DEF first, second, last
  <2>3. Reaches(WithRegister(env, e), s, u)
    <3>1. Reaches(first ++ second, s, z)
      BY <1>5, <1>7, Then
    <3> QED
      BY <1>1, <2>1, <2>2, <3>1, Then DEF Puts
  <2>4. u.m = s.m /\ u.r["A"] = x + y
    BY <1>5, <1>7, <1>8, <2>1, Names DEF Puts
  <2> QED
    BY <1>9, <2>1, <2>3, <2>4 DEF Results, ExpressionOf, Puts
<1>10. CASE e.op = "-"
  <2>1. PICK u : Puts(Emit(<<SUB("C")>>), z, u, "A", Monus(z.r["A"], z.r["C"]))
    BY Names, Putting
  <2>2. last = Emit(<<SUB("C")>>)
    BY <1>10
  <2> HIDE DEF first, second, last
  <2>3. Reaches(WithRegister(env, e), s, u)
    <3>1. Reaches(first ++ second, s, z)
      BY <1>5, <1>7, Then
    <3> QED
      BY <1>1, <2>1, <2>2, <3>1, Then DEF Puts
  <2>4. u.m = s.m /\ u.r["A"] = Monus(x, y)
    BY <1>5, <1>7, <1>8, <2>1, Names DEF Puts
  <2> QED
    BY <1>10, <2>1, <2>3, <2>4 DEF Results, ExpressionOf, Puts
<1> QED
  BY <1>9, <1>10

LEMMA ExpressionReaches ==
  ASSUME NEW s \in State, NEW env, IsEnvironment(env), NEW e, IsServed(e),
         Expression(env, e, 0).errors = {}
  PROVE  Results(Expression(env, e, 0), s, ExpressionOf(env, e, s.m))
<1>1. CASE e.op = "value"
  <2>1. Expression(env, e, 0) = SetAccumulator(env, e.lhs) /\ IsOperand(e.lhs)
    BY <1>1 DEF Expression, IsServed
  <2>2. Loads(SetAccumulator(env, e.lhs), s, "A", ValueOf(env, e.lhs, s.m))
    BY <2>1, SetRegisterToReaches DEF SetAccumulator
  <2> QED
    BY <1>1, <2>1, <2>2 DEF Loads, Results, ExpressionOf
<1>2. CASE e.op # "value" /\ (IsNum(e.lhs) \/ IsNum(e.rhs))
  <2>1. e.op # "%"
    BY <1>2 DEF IsServed, ServedNumber
  <2>2. Expression(env, e, 0) = WithNumber(env, e)
    BY <1>2, <2>1 DEF Expression
  <2> QED
    BY <1>2, <2>2, WithNumberReaches
<1>3. CASE e.op # "value" /\ ~IsNum(e.lhs) /\ ~IsNum(e.rhs)
  <2>1. e.op \in {"+", "-"} /\ IsOperand(e.lhs) /\ IsOperand(e.rhs)
    BY <1>3 DEF IsServed
  <2>2. Expression(env, e, 0) = WithRegister(env, e)
    BY <1>3, <2>1 DEF Expression
  <2> QED
    BY <2>1, <2>2, WithRegisterReaches
<1> QED
  BY <1>1, <1>2, <1>3

-----------------------------------------------------------------------------
\* The fragment f changes the memory to m.
Leaves(f, s, m) == \E u \in State : Reaches(f, s, u) /\ u.m = m

LEMMA AssignmentReaches ==
  ASSUME NEW s \in State, NEW env, IsEnvironment(env), NEW c, IsIdentifier(c.to),
         IsServed(c.expr), EmitAssignment(env, c, 0).errors = {}
  PROVE  /\ Leaves(EmitAssignment(env, c, 0), s,
                   [s.m EXCEPT ![AddressOf(env, c.to, s.m)] = ExpressionOf(env, c.expr, s.m)])
         /\ AddressOf(env, c.to, s.m) \in Nat /\ ExpressionOf(env, c.expr, s.m) \in Nat
<1> DEFINE first == Expression(env, c.expr, 0)  last == SetMemory(env, c.to)
<1>1. EmitAssignment(env, c, 0) = first ++ last
  BY DEF EmitAssignment
<1>2. first.errors = {} /\ last.errors = {}
  BY <1>1, Errors
<1>3. PICK w \in State : /\ Reaches(first, s, w) /\ w.m = s.m
                         /\ w.r["A"] = ExpressionOf(env, c.expr, s.m)
  BY <1>2, ExpressionReaches DEF Results
<1>4. PICK u \in State :
        /\ Reaches(last, w, u)
        /\ u.m = [w.m EXCEPT ![AddressOf(env, c.to, w.m)] = w.r["A"]]
        /\ AddressOf(env, c.to, w.m) \in Nat
  BY <1>2, SetMemoryReaches
<1>5. w.r["A"] \in Nat
  BY Names, StateIs
<1> HIDE DEF first, last
<1>6. Reaches(EmitAssignment(env, c, 0), s, u)
  BY <1>1, <1>3, <1>4, Then
<1> QED
  BY <1>3, <1>4, <1>5, <1>6 DEF Leaves

-----------------------------------------------------------------------------
(* The machine goes where the code goes: a snapshot is what matters of a    *)
(* state, and After is the snapshot one instruction later.                  *)
Snapshot == [at : Nat, s : State, n : Nat, o : Seq(Nat)]
Snap(p, s, n, o) == [at |-> p, s |-> s, n |-> n, o |-> o]

Ready(c, tp, a) ==
  /\ a.at \in 0 .. Len(c) - 1
  /\ c[a.at + 1].op \in StraightOps \cup {"READ", "WRITE", "STRK", "JUMP", "JPOS", "JUMPR"}
  /\ c[a.at + 1].op = "READ" => a.n < Len(tp)

After(c, tp, a) ==
  LET i == c[a.at + 1]  next == a.at + 1  A == a.s.r["A"]
  IN CASE i.op \in StraightOps -> Snap(next, Do(i, a.s), a.n, a.o)
       [] i.op = "READ"  -> Snap(next, Set(a.s, "A", tp[a.n + 1]), a.n + 1, a.o)
       [] i.op = "WRITE" -> Snap(next, a.s, a.n, Append(a.o, A))
       [] i.op = "STRK"  -> Snap(next, Set(a.s, i.reg, a.at), a.n, a.o)
       [] i.op = "JUMP"  -> Snap(i.line, a.s, a.n, a.o)
       [] i.op = "JPOS"  -> Snap(IF A > 0 THEN i.line ELSE next, a.s, a.n, a.o)
       [] i.op = "JUMPR" -> Snap(a.s.r[i.reg], a.s, a.n, a.o)

Memory == [x \in Nat |-> Cell(x)]
Now == Snap(lr, [r |-> r, m |-> Memory], nread, out)

LEMMA NowType == TypeOK => Now \in Snapshot
<1> SUFFICES ASSUME TypeOK PROVE Now \in Snapshot
  OBVIOUS
<1>1. \A x \in Nat : Cell(x) \in Nat
  BY DEF TypeOK, Cell
<1>2. Memory \in [Nat -> Nat]
  BY <1>1 DEF Memory
<1>3. r \in [Registers -> Nat] /\ lr \in Nat /\ nread \in Nat /\ out \in Seq(Nat)
  BY DEF TypeOK
<1> QED
  BY <1>2, <1>3 DEF Now, Snap, Snapshot, State

\* A cell that is written, or created by being read.
LEMMA MemoryWritten ==
  ASSUME TypeOK, NEW x \in Nat, NEW v \in Nat, pam' = WithCell(x, v)
  PROVE  Memory' = [Memory EXCEPT ![x] = v]
<1>1. \A y \in Nat : Cell(y)' = IF y = x THEN v ELSE Cell(y)
  BY DEF Cell, WithCell, TypeOK
<1> QED
  BY <1>1 DEF Memory

LEMMA MemoryKept ==
  ASSUME pam' = pam
  PROVE  Memory' = Memory
BY DEF Memory, Cell

LEMMA MachineMoves ==
  ASSUME TypeOK, Next, Ready(lines, tape, Now)
  PROVE  Now' = After(lines, tape, Now)
<1>1. /\ Now.at = lr /\ Now.s.r = r /\ Now.s.m = Memory /\ Now.n = nread /\ Now.o = out
      /\ lines[Now.at + 1] = Line
  BY DEF Now, Snap, Line
<1>2. ~Error /\ Line.op \in StraightOps \cup {"READ", "WRITE", "STRK", "JUMP", "JPOS", "JUMPR"}
  BY <1>1 DEF Ready, Error
<1> DEFINE S == [r |-> r, m |-> Memory]
<1>3. Now.s = S
  BY DEF Now, Snap
<1>4. Line.op \in RegisterOps => Line.reg \in Registers /\ r[Line.reg] \in Nat /\ r["A"] \in Nat
  BY <1>2, OperandType DEF Fetch
<1>5. S \in State /\ \A x \in Nat : Memory[x] = Cell(x)
  BY NowType DEF Now, Snap, Snapshot, Memory
<1>6. CASE Line.op = "LOAD"
  <2>1. Load
    BY <1>2, <1>6, Decoding
  <2> DEFINE x == r[Line.reg]
  <2>2. x \in Nat /\ Cell(x) \in Nat
    BY <1>4, <1>5, <1>6, StateIs DEF RegisterOps
  <2>3. Memory' = Memory
    <3>1. Memory' = [Memory EXCEPT ![x] = Cell(x)]
      BY <2>1, <2>2, MemoryWritten DEF Load
    <3>2. [Memory EXCEPT ![x] = Cell(x)] = Memory
      BY <2>2 DEF Memory
    <3> QED
      BY <3>1, <3>2
  <2>4. r' = [r EXCEPT !["A"] = Memory[x]]
    BY <1>5, <2>1, <2>2 DEF Load
  <2>5. lr' = lr + 1 /\ nread' = nread /\ out' = out
    BY <2>1 DEF Load, Advance
  <2>6. Do(Line, S) = [r |-> r', m |-> Memory]
    BY <1>6, <2>4 DEF Do, Set
  <2> QED
    BY <1>1, <1>3, <1>6, <2>3, <2>5, <2>6 DEF After, Now, Snap, StraightOps
<1>7. CASE Line.op = "STORE"
  <2>1. Store
    BY <1>2, <1>7, Decoding
  <2> DEFINE x == r[Line.reg]
  <2>2. x \in Nat /\ r["A"] \in Nat
    BY <1>4, <1>7 DEF RegisterOps
  <2>3. Memory' = [Memory EXCEPT ![x] = r["A"]]
    BY <2>1, <2>2, MemoryWritten DEF Store
  <2>4. r' = r /\ lr' = lr + 1 /\ nread' = nread /\ out' = out
    BY <2>1 DEF Store, Advance
  <2>5. Do(Line, S) = [r |-> r', m |-> Memory']
    BY <1>7, <2>3, <2>4 DEF Do, Poke
  <2> QED
    BY <1>1, <1>3, <1>7, <2>4, <2>5 DEF After, Now, Snap, StraightOps
\* An instruction that only sets a register.
<1>8. ASSUME NEW op, NEW cost, NEW x, NEW v, Compute(op, cost, x, v)
      PROVE  Now' = Snap(lr + 1, Set(S, x, v), nread, out)
  <2>1. /\ r' = [r EXCEPT ![x] = v] /\ lr' = lr + 1 /\ nread' = nread /\ out' = out
        /\ Memory' = Memory
    BY <1>8, MemoryKept DEF Compute, Advance
  <2> QED
    BY <2>1 DEF Now, Snap, Set
<1>9. CASE Line.op \in {"ADD", "SUB", "GET", "PUT"}
  <2>1. Line.op = "ADD" => Now' = Snap(lr + 1, Set(S, "A", r["A"] + r[Line.reg]), nread, out)
    BY <1>2, <1>8, Decoding DEF Add
  <2>2. Line.op = "SUB" => Now' = Snap(lr + 1, Set(S, "A", Monus(r["A"], r[Line.reg])), nread, out)
    BY <1>2, <1>8, Decoding DEF Sub
  <2>3. Line.op = "GET" => Now' = Snap(lr + 1, Set(S, "A", r[Line.reg]), nread, out)
    BY <1>2, <1>8, Decoding DEF Get
  <2>4. Line.op = "PUT" => Now' = Snap(lr + 1, Set(S, Line.reg, r["A"]), nread, out)
    BY <1>2, <1>8, Decoding DEF Put
  <2>5. Now' = Snap(lr + 1, Do(Line, S), nread, out)
    BY <1>9, <2>1, <2>2, <2>3, <2>4 DEF Do
  <2> QED
    BY <1>1, <1>3, <1>9, <2>5 DEF After, StraightOps
<1>10. CASE Line.op \in {"RST", "INC", "DEC", "SHL", "SHR"}
  <2>1. Line.op = "RST" => Now' = Snap(lr + 1, Set(S, Line.reg, 0), nread, out)
    BY <1>2, <1>8, Decoding DEF Rst
  <2>2. Line.op = "INC" => Now' = Snap(lr + 1, Set(S, Line.reg, r[Line.reg] + 1), nread, out)
    BY <1>2, <1>8, Decoding DEF Inc
  <2>3. Line.op = "DEC" => Now' = Snap(lr + 1, Set(S, Line.reg, Monus(r[Line.reg], 1)), nread, out)
    BY <1>2, <1>8, Decoding DEF Dec
  <2>4. Line.op = "SHL" => Now' = Snap(lr + 1, Set(S, Line.reg, 2 * r[Line.reg]), nread, out)
    BY <1>2, <1>8, Decoding DEF Shl
  <2>5. Line.op = "SHR" => Now' = Snap(lr + 1, Set(S, Line.reg, r[Line.reg] \div 2), nread, out)
    BY <1>2, <1>8, Decoding DEF Shr
  <2>6. Now' = Snap(lr + 1, Do(Line, S), nread, out)
    BY <1>10, <2>1, <2>2, <2>3, <2>4, <2>5 DEF Do
  <2> QED
    BY <1>1, <1>3, <1>10, <2>6 DEF After, StraightOps
<1>11. CASE Line.op = "STRK"
  <2>1. Now' = Snap(lr + 1, Set(S, Line.reg, lr), nread, out)
    BY <1>2, <1>8, <1>11, Decoding DEF Strk
  <2> QED
    BY <1>1, <1>3, <1>11, <2>1 DEF After, StraightOps
<1>12. CASE Line.op = "READ"
  <2>1. Read
    BY <1>2, <1>12, Decoding
  <2>2. /\ r' = [r EXCEPT !["A"] = tape[nread + 1]] /\ nread' = nread + 1
        /\ lr' = lr + 1 /\ out' = out /\ Memory' = Memory
    BY <2>1, MemoryKept DEF Read, Advance
  <2>3. Now' = Snap(lr + 1, Set(S, "A", tape[nread + 1]), nread + 1, out)
    BY <2>2 DEF Now, Snap, Set
  <2> QED
    BY <1>1, <1>3, <1>12, <2>3 DEF After, StraightOps
<1>13. CASE Line.op = "WRITE"
  <2>1. Write
    BY <1>2, <1>13, Decoding
  <2>2. /\ r' = r /\ nread' = nread /\ lr' = lr + 1 /\ out' = Append(out, r["A"])
        /\ Memory' = Memory
    BY <2>1, MemoryKept DEF Write, Advance
  <2>3. Now' = Snap(lr + 1, S, nread, Append(out, r["A"]))
    BY <2>2 DEF Now, Snap
  <2> QED
    BY <1>1, <1>3, <1>13, <2>3 DEF After, StraightOps
<1>14. ASSUME NEW op, NEW n, Goto(op, n)
       PROVE  Now' = Snap(n, S, nread, out)
  <2>1. r' = r /\ lr' = n /\ nread' = nread /\ out' = out /\ Memory' = Memory
    BY <1>14, MemoryKept DEF Goto
  <2> QED
    BY <2>1 DEF Now, Snap
<1>15. CASE Line.op = "JUMP"
  <2>1. Now' = Snap(Line.line, S, nread, out)
    BY <1>2, <1>14, <1>15, Decoding DEF Jump
  <2> QED
    BY <1>1, <1>3, <1>15, <2>1 DEF After, StraightOps
<1>16. CASE Line.op = "JPOS"
  <2>1. Now' = Snap(IF r["A"] > 0 THEN Line.line ELSE lr + 1, S, nread, out)
    BY <1>2, <1>14, <1>16, Decoding DEF Jpos
  <2> QED
    BY <1>1, <1>3, <1>16, <2>1 DEF After, StraightOps
<1>17. CASE Line.op = "JUMPR"
  <2>1. Now' = Snap(r[Line.reg], S, nread, out)
    BY <1>2, <1>14, <1>17, Decoding DEF Jumpr
  <2> QED
    BY <1>1, <1>3, <1>17, <2>1 DEF After, StraightOps
<1> QED
  BY <1>2, <1>6, <1>7, <1>9, <1>10, <1>11, <1>12, <1>13, <1>15, <1>16, <1>17
     DEF StraightOps

\* From a to b in n instructions, by way of snapshots of S.
Path(c, tp, S, n, f) ==
  /\ f \in [0 .. n -> Snapshot]
  /\ \A k \in 0 .. n - 1 :
       f[k] \in S /\ Ready(c, tp, f[k]) /\ f[k + 1] = After(c, tp, f[k])
Leads(c, tp, S, a, b) ==
  \E n \in Nat : \E f : Path(c, tp, S, n, f) /\ f[0] = a /\ f[n] = b

LEMMA LeadsNone ==
  ASSUME NEW c, NEW tp, NEW S, NEW a \in Snapshot
  PROVE  Leads(c, tp, S, a, a)
<1> DEFINE f == [k \in 0 .. 0 |-> a]
<1>1. Path(c, tp, S, 0, f) /\ f[0] = a
  BY DEF Path
<1> QED
  BY <1>1 DEF Leads

LEMMA LeadsOne ==
  ASSUME NEW c, NEW tp, NEW S, NEW a \in S, a \in Snapshot, Ready(c, tp, a),
         After(c, tp, a) \in Snapshot
  PROVE  Leads(c, tp, S, a, After(c, tp, a))
<1> DEFINE b == After(c, tp, a)
           f == [k \in 0 .. 1 |-> IF k = 0 THEN a ELSE b]
<1>1. b \in Snapshot /\ b = After(c, tp, a)
  OBVIOUS
<1> HIDE DEF b
<1>2. f \in [0 .. 1 -> Snapshot] /\ f[0] = a /\ f[1] = b
  BY <1>1
<1> HIDE DEF f
<1>3. Path(c, tp, S, 1, f)
  BY <1>1, <1>2 DEF Path
<1>4. Leads(c, tp, S, a, b)
  BY <1>2, <1>3 DEF Leads
<1> QED
  BY <1>4 DEF b

LEMMA LeadsBoth ==
  ASSUME NEW c, NEW tp, NEW S, NEW a, NEW b, NEW d,
         Leads(c, tp, S, a, b), Leads(c, tp, S, b, d)
  PROVE  Leads(c, tp, S, a, d)
<1>1. PICK m \in Nat : \E f : Path(c, tp, S, m, f) /\ f[0] = a /\ f[m] = b
  BY DEF Leads
<1>2. PICK f : Path(c, tp, S, m, f) /\ f[0] = a /\ f[m] = b
  BY <1>1
<1>3. PICK n \in Nat : \E g : Path(c, tp, S, n, g) /\ g[0] = b /\ g[n] = d
  BY DEF Leads
<1>4. PICK g : Path(c, tp, S, n, g) /\ g[0] = b /\ g[n] = d
  BY <1>3
<1> DEFINE h == [k \in 0 .. m + n |-> IF k <= m THEN f[k] ELSE g[k - m]]
<1>5. h \in [0 .. m + n -> Snapshot]
  <2> SUFFICES ASSUME NEW k \in 0 .. m + n PROVE h[k] \in Snapshot
    OBVIOUS
  <2>1. CASE k <= m
    <3>1. k \in 0 .. m
      BY <2>1
    <3> QED
      BY <1>2, <2>1, <3>1 DEF Path
  <2>2. CASE ~(k <= m)
    <3>1. k - m \in 0 .. n
      BY <2>2
    <3> QED
      BY <1>4, <2>2, <3>1 DEF Path
  <2> QED
    BY <2>1, <2>2
<1>6. h[0] = a
  BY <1>2
<1>7. h[m + n] = d
  <2>1. CASE n = 0
    BY <1>2, <1>4, <2>1
  <2>2. CASE n # 0
    <3>1. ~(m + n <= m) /\ (m + n) - m = n /\ m + n \in 0 .. m + n
      BY <2>2
    <3> QED
      BY <1>4, <3>1
  <2> QED
    BY <2>1, <2>2
<1>8. ASSUME NEW k \in 0 .. (m + n) - 1
      PROVE  h[k] \in S /\ Ready(c, tp, h[k]) /\ h[k + 1] = After(c, tp, h[k])
  <2>1. CASE k < m
    <3>1. k \in 0 .. m - 1 /\ k <= m /\ k + 1 <= m /\ k \in 0 .. m + n /\ k + 1 \in 0 .. m + n
      BY <2>1
    <3>2. h[k] = f[k] /\ h[k + 1] = f[k + 1]
      BY <3>1
    <3>3. f[k] \in S /\ Ready(c, tp, f[k]) /\ f[k + 1] = After(c, tp, f[k])
      BY <1>2, <3>1 DEF Path
    <3> QED
      BY <3>2, <3>3
  <2>2. CASE ~(k < m)
    <3>1. k - m \in 0 .. n - 1 /\ ~(k + 1 <= m) /\ k \in 0 .. m + n /\ k + 1 \in 0 .. m + n
          /\ (k + 1) - m = (k - m) + 1
      BY <2>2
    <3>2. h[k] = g[k - m]
      <4>1. CASE k = m
        <5>1. h[k] = f[m] /\ k - m = 0
          BY <3>1, <4>1
        <5> QED
          BY <1>2, <1>4, <5>1
      <4>2. CASE k # m
        <5>1. ~(k <= m)
          BY <2>2, <4>2
        <5> QED
          BY <3>1, <5>1
      <4> QED
        BY <4>1, <4>2
    <3>3. h[k + 1] = g[(k - m) + 1]
      BY <3>1
    <3>4. g[k - m] \in S /\ Ready(c, tp, g[k - m]) /\ g[(k - m) + 1] = After(c, tp, g[k - m])
      BY <1>4, <3>1 DEF Path
    <3> HIDE DEF h
    <3> QED
      BY <3>2, <3>3, <3>4
  <2> QED
    BY <2>1, <2>2
<1> HIDE DEF h
<1>9. Path(c, tp, S, m + n, h) /\ m + n \in Nat
  BY <1>5, <1>8 DEF Path
<1> QED
  BY <1>6, <1>7, <1>9 DEF Leads

LEMMA LeadsMore ==
  ASSUME NEW c, NEW tp, NEW S, NEW T, S \subseteq T, NEW a, NEW b, Leads(c, tp, S, a, b)
  PROVE  Leads(c, tp, T, a, b)
BY DEF Leads, Path

\* The snapshots of a straight piece of code that is entered at p with a.
Between(p, q, a) == { x \in Snapshot : x.at \in p .. q - 1 /\ (x.at = p => x = a) }

\* Straight code in the listing c at p.
Stretch(c, p, code) ==
  /\ p + Len(code) <= Len(c)
  /\ \A k \in 1 .. Len(code) : c[p + k] = code[k]

LEMMA LeadsStraight ==
  ASSUME NEW c, NEW tp, Len(c) \in Nat, NEW p \in Nat, NEW code \in Seq(Straight),
         Stretch(c, p, code), NEW s \in State, NEW u, Takes(code, s, u),
         NEW n \in Nat, NEW o \in Seq(Nat)
  PROVE  Leads(c, tp, Between(p, p + Len(code), Snap(p, s, n, o)),
               Snap(p, s, n, o), Snap(p + Len(code), u, n, o))
<1>1. PICK f : Runs(f, code, s) /\ f[Len(code)] = u
  BY DEF Takes
<1> DEFINE m == Len(code)
           g == [k \in 0 .. m |-> Snap(p + k, f[k], n, o)]
           S == Between(p, p + m, Snap(p, s, n, o))
<1>2. m \in Nat /\ \A k \in 1 .. m : code[k] \in Straight
  OBVIOUS
<1>3. f \in [0 .. m -> State] /\ f[0] = s /\ f[m] = u
      /\ \A k \in 1 .. m : f[k] = Do(code[k], f[k - 1])
  BY <1>1 DEF Runs
<1>4. p + m <= Len(c) /\ \A k \in 1 .. m : c[p + k] = code[k]
  BY DEF Stretch
<1> HIDE DEF m
<1>5. g \in [0 .. m -> Snapshot]
  <2> SUFFICES ASSUME NEW k \in 0 .. m PROVE Snap(p + k, f[k], n, o) \in Snapshot
    OBVIOUS
  <2>1. p + k \in Nat /\ f[k] \in State
    BY <1>2, <1>3
  <2> QED
    BY <2>1 DEF Snap, Snapshot
<1>6. g[0] = Snap(p, s, n, o) /\ g[m] = Snap(p + m, u, n, o)
  BY <1>2, <1>3
<1>7. ASSUME NEW k \in 0 .. m - 1
      PROVE  g[k] \in S /\ Ready(c, tp, g[k]) /\ g[k + 1] = After(c, tp, g[k])
  <2>1. k + 1 \in 1 .. m /\ (k + 1) - 1 = k /\ p + (k + 1) = (p + k) + 1 /\ k \in 0 .. m
        /\ k + 1 \in 0 .. m /\ p + k \in 0 .. Len(c) - 1 /\ p + k \in p .. (p + m) - 1
    <3> DEFINE l == Len(c)
    <3>1. k \in Nat /\ k + 1 <= m /\ m \in Nat /\ p \in Nat
      BY <1>2
    <3>2. p + m <= l /\ l \in Nat
      BY <1>4
    <3> HIDE DEF l
    <3>3. /\ k + 1 \in 1 .. m /\ (k + 1) - 1 = k /\ p + (k + 1) = (p + k) + 1 /\ k \in 0 .. m
          /\ k + 1 \in 0 .. m
      BY <3>1
    <3>4. p + k \in 0 .. l - 1 /\ p + k \in p .. (p + m) - 1
      BY <3>1, <3>2
    <3> QED
      BY <3>3, <3>4 DEF l
  <2>2. c[(p + k) + 1] = code[k + 1] /\ code[k + 1] \in Straight
    BY <1>2, <1>4, <2>1
  <2>3. g[k] = Snap(p + k, f[k], n, o) /\ g[k + 1] = Snap((p + k) + 1, f[k + 1], n, o)
    BY <2>1
  <2>4. f[k + 1] = Do(code[k + 1], f[k])
    BY <1>3, <2>1
  <2>5. c[(p + k) + 1].op \in StraightOps
    BY <2>2 DEF Straight
  <2>6. g[k].at = p + k /\ g[k].s = f[k] /\ g[k].n = n /\ g[k].o = o /\ g[k] \in Snapshot
    BY <1>5, <2>1, <2>3 DEF Snap
  <2>7. p + k = p => g[k] = Snap(p, s, n, o)
    BY <1>3, <2>1, <2>3
  <2> HIDE DEF g
  <2>8. g[k] \in S
    BY <2>1, <2>6, <2>7 DEF Between
  <2>9. Ready(c, tp, g[k])
    BY <2>1, <2>5, <2>6 DEF Ready, StraightOps
  <2>10. After(c, tp, g[k]) = Snap((p + k) + 1, Do(c[(p + k) + 1], f[k]), n, o)
    <3> DEFINE x == g[k]  q == p + k
    <3>1. x.at = q /\ x.s = f[k] /\ x.n = n /\ x.o = o /\ c[q + 1].op \in StraightOps
      BY <2>5, <2>6
    <3> HIDE DEF x, q
    <3>2. After(c, tp, x) = Snap(q + 1, Do(c[q + 1], f[k]), n, o)
      BY <3>1 DEF After, StraightOps
    <3> QED
      BY <3>2 DEF x, q
  <2> QED
    BY <2>2, <2>3, <2>4, <2>8, <2>9, <2>10
<1> HIDE DEF g, S
<1>8. Path(c, tp, S, m, g)
  BY <1>5, <1>7 DEF Path
<1>9. Leads(c, tp, S, Snap(p, s, n, o), Snap(p + m, u, n, o))
  BY <1>2, <1>6, <1>8 DEF Leads
<1> QED
  BY <1>9 DEF S, m

-----------------------------------------------------------------------------
\* The machine is on its way, through S, to one of E.
Heads(S, E) == \E b \in E : Leads(lines, tape, S, Now, b)

LEMMA HeadsOn ==
  ASSUME TypeOK, Next, NEW S, NEW E, Heads(S, E),
         \A b \in E : b.at \in 0 .. Len(lines) - 1 /\ lines[b.at + 1] = HALT
  PROVE  \E b \in E : Leads(lines, tape, S, Now', b)
<1>1. PICK b \in E : Leads(lines, tape, S, Now, b)
  BY DEF Heads
<1>2. PICK n \in Nat : \E f : Path(lines, tape, S, n, f) /\ f[0] = Now /\ f[n] = b
  BY <1>1 DEF Leads
<1>3. PICK f : Path(lines, tape, S, n, f) /\ f[0] = Now /\ f[n] = b
  BY <1>2
<1>4. CASE n = 0
  <2>1. Now = b
    BY <1>3, <1>4
  <2>2. lr = b.at /\ ~Error /\ Line = HALT
    BY <2>1 DEF Now, Snap, Error, Line
  <2>3. UNCHANGED machine
    BY <2>2, Decoding DEF HALT
  <2>4. Memory' = Memory
    BY <2>3, MemoryKept DEF machine
  <2>5. Now' = Now
    BY <2>3, <2>4 DEF Now, Snap, machine
  <2> QED
    BY <1>1, <2>5
<1>5. CASE n # 0
  <2> DEFINE g == [k \in 0 .. n - 1 |-> f[k + 1]]
  <2>1. f \in [0 .. n -> Snapshot] /\ \A k \in 0 .. n - 1 :
          f[k] \in S /\ Ready(lines, tape, f[k]) /\ f[k + 1] = After(lines, tape, f[k])
    BY <1>3 DEF Path
  <2>2. 0 \in 0 .. n - 1 /\ n - 1 \in Nat /\ n - 1 \in 0 .. n - 1 /\ (n - 1) + 1 = n
    BY <1>5
  <2>3. Now' = f[0 + 1]
    BY <1>3, <2>1, <2>2, MachineMoves
  <2>4. g \in [0 .. n - 1 -> Snapshot]
    BY <2>1
  <2>5. g[0] = Now' /\ g[n - 1] = b
    BY <1>3, <2>2, <2>3
  <2>6. ASSUME NEW k \in 0 .. (n - 1) - 1
        PROVE  g[k] \in S /\ Ready(lines, tape, g[k]) /\ g[k + 1] = After(lines, tape, g[k])
    <3>1. k + 1 \in 0 .. n - 1 /\ k \in 0 .. n - 1
      BY <2>2
    <3> QED
      BY <2>1, <3>1
  <2> HIDE DEF g
  <2>7. Path(lines, tape, S, n - 1, g)
    BY <2>4, <2>6 DEF Path
  <2>8. Leads(lines, tape, S, Now', b)
    BY <2>2, <2>5, <2>7 DEF Leads
  <2> QED
    BY <2>8
<1> QED
  BY <1>4, <1>5

LEMMA HeadsSafe ==
  ASSUME NEW S, NEW E, Heads(S, E)
  PROVE  /\ Now \in S \/ Now \in E
         /\ Stopped => Now \in E
<1>1. PICK b \in E : Leads(lines, tape, S, Now, b)
  BY DEF Heads
<1>2. PICK n \in Nat : \E f : Path(lines, tape, S, n, f) /\ f[0] = Now /\ f[n] = b
  BY <1>1 DEF Leads
<1>3. PICK f : Path(lines, tape, S, n, f) /\ f[0] = Now /\ f[n] = b
  BY <1>2
<1>4. CASE n = 0
  BY <1>3, <1>4
<1>5. CASE n # 0
  <2>1. 0 \in 0 .. n - 1
    BY <1>5
  <2>2. Now \in S /\ Ready(lines, tape, Now)
    BY <1>3, <2>1 DEF Path
  <2>3. ~Error /\ Line.op # "HALT"
    BY <2>2 DEF Ready, Now, Snap, Error, Line, StraightOps
  <2> QED
    BY <2>2, <2>3 DEF Stopped, Halted
<1> QED
  BY <1>4, <1>5

-----------------------------------------------------------------------------
(* Where the templates end, from a memory m on and with a tape tp.          *)

\* The memory m once a call has passed its arguments.
Passed(piece, m) ==
  LET loc == Callee(piece).memory_loc  args == piece.command.args
  IN [x \in Nat |-> IF x = loc THEN Behind(piece)
                    ELSE IF x \in loc + 1 .. loc + Len(args)
                         THEN Stands(piece.env, args[x - loc], m)
                    ELSE m[x]]

EndsOf(piece, m, tp) ==
  LET env == piece.env  c == piece.command  behind == Behind(piece)
  IN CASE c.cmd = "assign" ->
            { b \in Snapshot : /\ b.at = behind
                               /\ b.s.m = [m EXCEPT ![AddressOf(env, c.to, m)]
                                             = ExpressionOf(env, c.expr, m)] }
       [] c.cmd = "read" ->
            { b \in Snapshot : /\ b.at = behind /\ b.n = 1
                               /\ b.s.m = [m EXCEPT ![AddressOf(env, c.to, m)] = tp[1]] }
       [] c.cmd = "write" ->
            { b \in Snapshot : /\ b.at = behind /\ b.s.m = m
                               /\ b.o = << ValueOf(env, c.value, m) >> }
       [] c.cmd = "test" ->
            { b \in Snapshot :
                /\ b.at = behind + IF Compares(env, c.cond, m) THEN 0 ELSE 1
                /\ b.s.m = m }
       [] c.cmd = "call" ->
            { b \in Snapshot : b.at = behind /\ b.s.m = Passed(piece, m) }

LEMMA StraightInstruction ==
  /\ Straight \subseteq Instruction
  /\ \A code \in Seq(Straight) : code \in Seq(Instruction)
  /\ {READ, WRITE, HALT} \subseteq Instruction
<1>1. Straight \subseteq Instruction
  BY DEF Straight, StraightOps, Instruction, RegisterOps
<1>2. ASSUME NEW code \in Seq(Straight) PROVE code \in Seq(Instruction)
  BY <1>1
<1> QED
  BY <1>1, <1>2 DEF READ, WRITE, HALT, Instruction, PlainOps

\* c is a with b behind it.
IsJoin(S, c, a, b) ==
  /\ c \in Seq(S)
  /\ Len(c) = Len(a) + Len(b)
  /\ \A k \in 1 .. Len(a) : c[k] = a[k]
  /\ \A k \in 1 .. Len(b) : c[Len(a) + k] = b[k]

LEMMA Appended ==
  ASSUME NEW S, NEW a \in Seq(S), NEW b \in Seq(S)
  PROVE  IsJoin(S, a \o b, a, b)
BY DEF IsJoin

\* The two HALTs behind a template, and what is in front of and behind them.
LEMMA Halts ==
  ASSUME NEW L \in Seq(Instruction), NEW R \in Seq(Instruction)
  PROVE  LET c == L \o <<HALT, HALT>> \o R
             n == Len(L)
         IN /\ c \in Seq(Instruction)
            /\ Len(c) = n + 2 + Len(R)
            /\ \A k \in 1 .. n : c[k] = L[k]
            /\ c[n + 1] = HALT /\ c[n + 2] = HALT
            /\ \A k \in 1 .. Len(R) : c[(n + 2) + k] = R[k]
<1> DEFINE h == <<HALT, HALT>>  d == L \o h  c == d \o R  n == Len(L)
<1>1. h \in Seq(Instruction) /\ Len(h) = 2 /\ h[1] = HALT /\ h[2] = HALT
  BY StraightInstruction
<1> HIDE DEF h
<1>11. IsJoin(Instruction, d, L, h)
  BY <1>1, Appended
<1> HIDE DEF d
<1>2. /\ d \in Seq(Instruction) /\ Len(d) = n + 2
      /\ \A k \in 1 .. n : d[k] = L[k]
      /\ \A k \in 1 .. 2 : d[n + k] = h[k]
  BY <1>1, <1>11 DEF IsJoin
<1>12. IsJoin(Instruction, c, d, R)
  BY <1>2, Appended
<1> HIDE DEF c
<1>3. /\ c \in Seq(Instruction) /\ Len(c) = Len(d) + Len(R)
      /\ \A k \in 1 .. Len(d) : c[k] = d[k]
      /\ \A k \in 1 .. Len(R) : c[Len(d) + k] = R[k]
  BY <1>12 DEF IsJoin
<1>4. n \in Nat /\ Len(R) \in Nat
  OBVIOUS
<1> HIDE DEF c, n
<1>6. \A k \in 1 .. n : c[k] = L[k]
  BY <1>2, <1>3, <1>4
<1>7. c[n + 1] = HALT /\ c[n + 2] = HALT
  <2>1. n + 1 \in 1 .. Len(d) /\ n + 2 \in 1 .. Len(d)
    BY <1>2, <1>4
  <2>2. d[n + 1] = h[1] /\ d[n + 2] = h[2]
    BY <1>2
  <2> QED
    BY <1>1, <1>3, <2>1, <2>2
<1>8. \A k \in 1 .. Len(R) : c[(n + 2) + k] = R[k]
  BY <1>2, <1>3
<1>9. Len(c) = n + 2 + Len(R)
  BY <1>2, <1>3
<1> QED
  BY <1>3, <1>6, <1>7, <1>8, <1>9 DEF c, d, h, n

LEMMA StretchBoth ==
  ASSUME NEW c, Len(c) \in Nat, NEW p \in Nat, NEW S, NEW a \in Seq(S), NEW b \in Seq(S),
         Stretch(c, p, a \o b)
  PROVE  Stretch(c, p, a) /\ Stretch(c, p + Len(a), b)
<1> DEFINE d == a \o b  m == Len(a)  n == Len(b)
<1>1. IsJoin(S, d, a, b) /\ m \in Nat /\ n \in Nat
  BY Appended
<1>2. Stretch(c, p, d)
  OBVIOUS
<1>3. /\ Len(d) = m + n
      /\ \A k \in 1 .. m : d[k] = a[k]
      /\ \A k \in 1 .. n : d[m + k] = b[k]
  BY <1>1 DEF IsJoin
<1> HIDE DEF d
<1>4. /\ p + Len(d) <= Len(c) /\ \A k \in 1 .. Len(d) : c[p + k] = d[k]
  BY <1>2 DEF Stretch
<1> HIDE DEF m, n
<1>5. p + m <= Len(c) /\ (p + m) + n <= Len(c)
  BY <1>1, <1>3, <1>4
<1>6. ASSUME NEW k \in 1 .. m PROVE c[p + k] = a[k]
  <2>1. k \in 1 .. Len(d)
    BY <1>1, <1>3
  <2> QED
    BY <1>3, <1>4, <2>1
<1>7. ASSUME NEW k \in 1 .. n PROVE c[(p + m) + k] = b[k]
  <2>1. m + k \in 1 .. Len(d) /\ p + (m + k) = (p + m) + k
    BY <1>1, <1>3
  <2> QED
    BY <1>3, <1>4, <2>1
<1> QED
  BY <1>5, <1>6, <1>7 DEF Stretch, m, n

\* A listing L with the HALTs and R behind it.
LEMMA StretchHalts ==
  ASSUME NEW L \in Seq(Instruction), NEW R \in Seq(Instruction), NEW c,
         c = L \o <<HALT, HALT>> \o R
  PROVE  /\ Len(c) \in Nat
         /\ Stretch(c, 0, L)
         /\ Stretch(c, Len(L) + 2, R)
         /\ \A q \in {Len(L), Len(L) + 1} : q \in 0 .. Len(c) - 1 /\ c[q + 1] = HALT
<1> DEFINE n == Len(L)
<1>1. /\ c \in Seq(Instruction)
      /\ Len(c) = n + 2 + Len(R)
      /\ \A k \in 1 .. n : c[k] = L[k]
      /\ c[n + 1] = HALT /\ c[n + 2] = HALT
      /\ \A k \in 1 .. Len(R) : c[(n + 2) + k] = R[k]
  BY Halts
<1>2. n \in Nat /\ Len(R) \in Nat
  OBVIOUS
<1> HIDE DEF n
<1>3. Stretch(c, 0, L)
  <2>1. \A k \in 1 .. n : c[0 + k] = L[k]
    BY <1>1, <1>2
  <2> QED
    BY <1>1, <1>2, <2>1 DEF Stretch, n
<1>4. Stretch(c, n + 2, R)
  BY <1>1, <1>2 DEF Stretch
<1>5. \A q \in {n, n + 1} : q \in 0 .. Len(c) - 1 /\ c[q + 1] = HALT
  BY <1>1, <1>2
<1> QED
  BY <1>1, <1>2, <1>3, <1>4, <1>5 DEF n

\* From a straight fragment's first line to the line behind it.
LEMMA LeadsOver ==
  ASSUME NEW c, NEW tp, Len(c) \in Nat, NEW p \in Nat, NEW f, NEW s \in State, NEW u,
         Reaches(f, s, u), Stretch(c, p, f.lines), NEW n \in Nat, NEW o \in Seq(Nat)
  PROVE  /\ Leads(c, tp, Snapshot, Snap(p, s, n, o), Snap(p + Len(f.lines), u, n, o))
         /\ p + Len(f.lines) \in Nat
         /\ Snap(p + Len(f.lines), u, n, o) \in Snapshot
<1> DEFINE code == f.lines  a == Snap(p, s, n, o)  b == Snap(p + Len(code), u, n, o)
<1>1. code \in Seq(Straight) /\ Takes(code, s, u) /\ Stretch(c, p, code)
  BY DEF Reaches
<1>2. u \in State
  BY ReachesState
<1> HIDE DEF code
<1>3. Leads(c, tp, Between(p, p + Len(code), a), a, b)
  BY <1>1, LeadsStraight
<1>4. Between(p, p + Len(code), a) \subseteq Snapshot
  BY DEF Between
<1>5. Leads(c, tp, Snapshot, a, b)
  <2> HIDE DEF a, b
  <2> QED
    BY <1>3, <1>4, LeadsMore
<1>6. p + Len(code) \in Nat
  BY <1>1
<1>7. b \in Snapshot
  BY <1>2, <1>6 DEF Snap, Snapshot
<1> QED
  BY <1>5, <1>6, <1>7 DEF code

-----------------------------------------------------------------------------
(* Every template arrives at one of its ends.                               *)

\* On the way, the body of a called procedure is met once.
Body(piece) ==
  Callee(piece).entrypoint + Len(Prologue(Callee(piece).memory_loc).lines)
WayOf(piece, m) ==
  IF piece.command.cmd = "call"
  THEN { a \in Snapshot : a.at = Body(piece) => a.s.m = Passed(piece, m) }
  ELSE Snapshot

Start(s) == Snap(0, s, 0, <<>>)

Arrives(piece, s, tp) ==
  \E b \in EndsOf(piece, s.m, tp) :
    Leads(Listing(piece), tp, WayOf(piece, s.m), Start(s), b)

\* What is assumed of a piece.
IsPiece(piece) ==
  /\ IsEnvironment(piece.env)
  /\ IsCommand(piece.env, piece.command)
  /\ Emitted(piece).errors = {}

LEMMA ListingIs ==
  ASSUME NEW piece, piece.command.cmd # "call", Emitted(piece).lines \in Seq(Instruction)
  PROVE  LET c == Listing(piece)
         IN /\ Len(c) \in Nat
            /\ Stretch(c, 0, Emitted(piece).lines)
            /\ \A q \in {Behind(piece), Behind(piece) + 1} :
                 q \in 0 .. Len(c) - 1 /\ c[q + 1] = HALT
<1> DEFINE L == Emitted(piece).lines  c == Listing(piece)
<1>1. c = L \o <<HALT, HALT>> \o <<>>
  BY DEF Listing
<1>2. <<>> \in Seq(Instruction)
  BY EmptySeq
<1>3. Behind(piece) = Len(L) /\ L \in Seq(Instruction)
  BY DEF Behind
<1> HIDE DEF L, c
<1> QED
  BY <1>1, <1>2, <1>3, StretchHalts, ZenonT(30) DEF L, c

LEMMA StartIs ==
  ASSUME NEW s \in State
  PROVE  Start(s) \in Snapshot /\ <<>> \in Seq(Nat) /\ 0 \in Nat
BY EmptySeq DEF Start, Snap, Snapshot

LEMMA AssignArrives ==
  ASSUME NEW piece, IsPiece(piece), piece.command.cmd = "assign", NEW s \in State, NEW tp
  PROVE  /\ Emitted(piece).lines \in Seq(Instruction)
         /\ Arrives(piece, s, tp)
<1> DEFINE env == piece.env  c == piece.command  f == EmitAssignment(env, c, 0)
           m == [s.m EXCEPT ![AddressOf(env, c.to, s.m)] = ExpressionOf(env, c.expr, s.m)]
           b(u) == Snap(0 + Len(f.lines), u, 0, <<>>)
<1>1. Emitted(piece) = f /\ IsIdentifier(c.to) /\ IsServed(c.expr) /\ IsEnvironment(env)
  BY DEF IsPiece, IsCommand, Emitted
<1>2. PICK u \in State : Reaches(f, s, u) /\ u.m = m
  BY <1>1, AssignmentReaches DEF IsPiece, Leaves
<1>3. f.lines \in Seq(Instruction)
  BY <1>2, StraightInstruction DEF Reaches
<1>4. Len(Listing(piece)) \in Nat /\ Stretch(Listing(piece), 0, f.lines)
  BY <1>1, <1>3, ListingIs
<1>5. /\ Leads(Listing(piece), tp, Snapshot, Start(s), b(u))
      /\ b(u) \in Snapshot
  <2> HIDE DEF f
  <2> QED
    BY <1>2, <1>4, StartIs, LeadsOver DEF Start
<1>6. b(u) \in EndsOf(piece, s.m, tp)
  <2>1. 0 + Len(f.lines) = Behind(piece)
    BY <1>1, <1>3 DEF Behind
  <2>2. b(u).at = Behind(piece) /\ b(u).s.m = m
    BY <1>2, <2>1 DEF Snap
  <2> HIDE DEF b
  <2> QED
    BY <1>5, <2>2 DEF EndsOf
<1>7. WayOf(piece, s.m) = Snapshot
  BY DEF WayOf
<1> QED
  BY <1>1, <1>3, <1>5, <1>6, <1>7 DEF Arrives

LEMMA ReadArrives ==
  ASSUME NEW piece, IsPiece(piece), piece.command.cmd = "read", NEW s \in State,
         NEW tp \in Seq(Nat), tp # <<>>
  PROVE  /\ Emitted(piece).lines \in Seq(Instruction)
         /\ Arrives(piece, s, tp)
         /\ Listing(piece)[1] = READ /\ 0 \in 0 .. Len(Listing(piece)) - 1
<1> DEFINE env == piece.env  to == piece.command.to  f == SetMemory(env, to)
           c == Listing(piece)
           w == Set(s, "A", tp[1])
           m == [s.m EXCEPT ![AddressOf(env, to, s.m)] = tp[1]]
           a == Snap(1, w, 1, <<>>)
           b(u) == Snap(1 + Len(f.lines), u, 1, <<>>)
<1>1. Emitted(piece) = Emit(<<READ>>) ++ f /\ IsIdentifier(to) /\ IsEnvironment(env)
  BY DEF IsPiece, IsCommand, Emitted, EmitRead
<1>2. f.errors = {}
  BY <1>1, Errors DEF IsPiece
<1>3. tp[1] \in Nat /\ 0 < Len(tp)
  <2>1. Len(tp) \in Nat \ {0}
    BY EmptySeq
  <2>2. 1 \in 1 .. Len(tp)
    BY <2>1
  <2> QED
    BY <2>1, <2>2, ElementOfSeq
<1>4. w \in State /\ w.m = s.m /\ w.r["A"] = tp[1]
  <2> DEFINE v == tp[1]
  <2>1. v \in Nat /\ "A" \in Registers /\ w = Set(s, "A", v)
    BY <1>3, Names
  <2> HIDE DEF v, w
  <2>2. w \in State /\ w.m = s.m /\ w.r["A"] = v
    BY <2>1, SetIs
  <2> QED
    BY <2>2 DEF v
<1> HIDE DEF w
<1>5. PICK u \in State : Reaches(f, w, u) /\ u.m = m
  <2>1. PICK u \in State : /\ Reaches(f, w, u)
                          /\ u.m = [w.m EXCEPT ![AddressOf(env, to, w.m)] = w.r["A"]]
    BY <1>1, <1>2, <1>4, SetMemoryReaches
  <2>2. u.m = m
    BY <1>4, <2>1
  <2> HIDE DEF m
  <2> QED
    BY <2>1, <2>2
<1>6. f.lines \in Seq(Instruction) /\ <<READ>> \in Seq(Instruction)
  BY <1>5, StraightInstruction DEF Reaches
<1>7. Emitted(piece).lines = <<READ>> \o f.lines
  BY <1>1 DEF ++, Emit
<1>8. Emitted(piece).lines \in Seq(Instruction) /\ Behind(piece) = 1 + Len(f.lines)
  BY <1>6, <1>7 DEF Behind
<1>9. Len(c) \in Nat /\ Stretch(c, 0, <<READ>> \o f.lines)
  BY <1>7, <1>8, ListingIs
<1>10. Stretch(c, 0, <<READ>>) /\ Stretch(c, 1, f.lines)
  <2> DEFINE d == <<READ>>  e == f.lines
  <2>1. d \in Seq(Instruction) /\ e \in Seq(Instruction) /\ Stretch(c, 0, d \o e)
    BY <1>6, <1>9
  <2>2. 0 + Len(d) = 1
    OBVIOUS
  <2> HIDE DEF c, d, e
  <2>3. Stretch(c, 0, d) /\ Stretch(c, 0 + Len(d), e)
    BY <1>9, <2>1, StretchBoth
  <2> QED
    BY <2>2, <2>3 DEF d, e
<1>11. c[1] = READ /\ 1 <= Len(c) /\ 0 \in 0 .. Len(c) - 1
  BY <1>9, <1>10 DEF Stretch
<1>12. Leads(c, tp, Snapshot, Start(s), a)
  <2>1. Ready(c, tp, Start(s))
    BY <1>3, <1>9, <1>11 DEF Ready, Start, Snap, READ
  <2>2. After(c, tp, Start(s)) = a
    BY <1>11 DEF After, Start, Snap, READ, StraightOps, w
  <2>3. a \in Snapshot
    BY <1>4, StartIs DEF Snap, Snapshot
  <2> HIDE DEF a, c
  <2> QED
    BY <2>1, <2>2, <2>3, StartIs, LeadsOne
<1>13. /\ Leads(c, tp, Snapshot, a, b(u))
       /\ b(u) \in Snapshot
  <2> HIDE DEF f, c
  <2> QED
    BY <1>4, <1>5, <1>9, <1>10, StartIs, LeadsOver
<1>14. Leads(c, tp, Snapshot, Start(s), b(u))
  <2> HIDE DEF a, b, c
  <2> QED
    BY <1>12, <1>13, LeadsBoth
<1>15. b(u) \in EndsOf(piece, s.m, tp)
  <2>1. b(u).at = Behind(piece) /\ b(u).s.m = m /\ b(u).n = 1
    BY <1>5, <1>8 DEF Snap
  <2> HIDE DEF b
  <2> QED
    BY <1>13, <2>1 DEF EndsOf
<1>16. WayOf(piece, s.m) = Snapshot
  BY DEF WayOf
<1> QED
  BY <1>8, <1>11, <1>14, <1>15, <1>16 DEF Arrives

LEMMA WriteArrives ==
  ASSUME NEW piece, IsPiece(piece), piece.command.cmd = "write", NEW s \in State, NEW tp
  PROVE  /\ Emitted(piece).lines \in Seq(Instruction)
         /\ Arrives(piece, s, tp)
<1> DEFINE env == piece.env  v == piece.command.value  f == SetAccumulator(env, v)
           c == Listing(piece)
           n == Len(f.lines)
           x == ValueOf(env, v, s.m)
<1>1. Emitted(piece) = f ++ Emit(<<WRITE>>) /\ IsOperand(v) /\ IsEnvironment(env)
  BY DEF IsPiece, IsCommand, Emitted, EmitWrite
<1>2. f.errors = {}
  BY <1>1, Errors DEF IsPiece
<1>3. PICK u \in State : Reaches(f, s, u) /\ u.m = s.m /\ u.r["A"] = x
  BY <1>1, <1>2, SetRegisterToReaches DEF Loads, SetAccumulator
<1>4. x \in Nat
  BY <1>3, Names, StateIs
<1>5. f.lines \in Seq(Instruction) /\ <<WRITE>> \in Seq(Instruction)
  BY <1>3, StraightInstruction DEF Reaches
<1>6. Emitted(piece).lines = f.lines \o <<WRITE>>
  BY <1>1 DEF ++, Emit
<1>7. Emitted(piece).lines \in Seq(Instruction) /\ Behind(piece) = n + 1 /\ n \in Nat
  BY <1>5, <1>6 DEF Behind
<1>8. Len(c) \in Nat /\ Stretch(c, 0, f.lines \o <<WRITE>>)
  BY <1>6, <1>7, ListingIs
<1>9. Stretch(c, 0, f.lines) /\ Stretch(c, 0 + n, <<WRITE>>)
  BY <1>5, <1>8, StretchBoth
<1> DEFINE a == Snap(0 + n, u, 0, <<>>)
           b == Snap(n + 1, u, 0, <<x>>)
<1>10. Leads(c, tp, Snapshot, Start(s), a) /\ a \in Snapshot
  <2> HIDE DEF f, c
  <2> QED
    BY <1>3, <1>8, <1>9, StartIs, LeadsOver DEF Start, n
<1>11. Leads(c, tp, Snapshot, a, b) /\ b \in Snapshot
  <2>1. c[n + 1] = WRITE /\ n + 1 <= Len(c)
    BY <1>7, <1>9 DEF Stretch
  <2>2. Ready(c, tp, a)
    BY <1>7, <1>8, <2>1 DEF Ready, Snap, WRITE
  <2>3. Append(<<>>, u.r["A"]) = <<x>> /\ <<x>> \in Seq(Nat)
    BY <1>3, <1>4
  <2>4. After(c, tp, a) = b
    <3>1. a.at = n /\ a.s = u /\ a.n = 0 /\ a.o = <<>>
      BY <1>7 DEF Snap
    <3> HIDE DEF a, c, n, x, f
    <3> QED
      BY <2>1, <2>3, <3>1 DEF After, WRITE, StraightOps
  <2>5. b \in Snapshot
    BY <1>7, <2>3 DEF Snap, Snapshot
  <2> HIDE DEF a, b, c
  <2> QED
    BY <1>10, <2>2, <2>4, <2>5, LeadsOne
<1>12. Leads(c, tp, Snapshot, Start(s), b)
  <2> HIDE DEF a, b, c
  <2> QED
    BY <1>10, <1>11, LeadsBoth
<1>13. b \in EndsOf(piece, s.m, tp)
  <2>1. b.at = Behind(piece) /\ b.s.m = s.m /\ b.o = <<x>>
    BY <1>3, <1>7 DEF Snap
  <2> HIDE DEF b
  <2> QED
    BY <1>11, <2>1 DEF EndsOf
<1>14. WayOf(piece, s.m) = Snapshot
  BY DEF WayOf
<1> QED
  BY <1>7, <1>12, <1>13, <1>14 DEF Arrives

-----------------------------------------------------------------------------
(* The lines of a test, whose jumps go to "yes" or "no" until they are      *)
(* patched.                                                                 *)
Jumps == {JPOS("yes"), JPOS("no"), JUMP("no")}
Unpatched == Straight \cup Jumps

Difference == [swapped : BOOLEAN, to : {"yes", "no"}]

\* Is the difference d of x and y positive, and where does a condition go?
Greater(d, x, y) == IF d.swapped THEN y > x ELSE x > y
Outcome(op, x, y) ==
  LET tests == Tests(op)
  IN IF Greater(tests[1], x, y) THEN tests[1].to
     ELSE IF Len(tests) = 2 /\ Greater(tests[2], x, y) THEN tests[2].to
     ELSE IF op \in {"!=", "<", ">"} THEN "no"
     ELSE "yes"

Comparisons == {"=", "!=", "<", ">", "<=", ">="}

LEMMA TestsAre ==
  ASSUME NEW op \in Comparisons
  PROVE  /\ Tests(op) \in Seq(Difference)
         /\ Tests(op)[1] \in Difference
         /\ Len(Tests(op)) \in {1, 2}
         /\ Len(Tests(op)) = 2 => Tests(op)[2] \in Difference
<1> DEFINE more(line) == [swapped |-> FALSE, to |-> line]
           less(line) == [swapped |-> TRUE,  to |-> line]
<1>1. \A w \in {"yes", "no"} : more(w) \in Difference /\ less(w) \in Difference
  BY DEF Difference
<1>2. \/ \E d \in Difference : Tests(op) = <<d>>
      \/ \E d, e \in Difference : Tests(op) = <<d, e>>
  <2>1. /\ op = "<=" => Tests(op) = << more("no") >>
        /\ op = ">=" => Tests(op) = << less("no") >>
        /\ op = "="  => Tests(op) = << more("no"), less("no") >>
        /\ op = "!=" => Tests(op) = << more("yes"), less("yes") >>
        /\ op = "<"  => Tests(op) = << more("no"), less("yes") >>
        /\ op = ">"  => Tests(op) = << less("no"), more("yes") >>
    BY DEF Tests
  <2> HIDE DEF more, less
  <2> QED
    BY <1>1, <2>1 DEF Comparisons
<1>3. ASSUME NEW d \in Difference, Tests(op) = <<d>>
      PROVE  Tests(op) \in Seq(Difference) /\ Len(Tests(op)) = 1 /\ Tests(op)[1] \in Difference
  BY <1>3
<1>4. ASSUME NEW d \in Difference, NEW e \in Difference, Tests(op) = <<d, e>>
      PROVE  /\ Tests(op) \in Seq(Difference) /\ Len(Tests(op)) = 2
             /\ Tests(op)[1] \in Difference /\ Tests(op)[2] \in Difference
  BY <1>4
<1> QED
  BY <1>2, <1>3, <1>4

LEMMA OutcomeIs ==
  ASSUME NEW env, NEW c, NEW m, c.op \in Comparisons,
         ValueOf(env, c.lhs, m) \in Nat, ValueOf(env, c.rhs, m) \in Nat
  PROVE  Outcome(c.op, ValueOf(env, c.lhs, m), ValueOf(env, c.rhs, m))
           = IF Compares(env, c, m) THEN "yes" ELSE "no"
<1> DEFINE x == ValueOf(env, c.lhs, m)  y == ValueOf(env, c.rhs, m)
<1>1. x \in Nat /\ y \in Nat
  OBVIOUS
<1>2. Compares(env, c, m) = CASE c.op = "="  -> x = y
                              [] c.op = "!=" -> x # y
                              [] c.op = "<"  -> x < y
                              [] c.op = ">"  -> x > y
                              [] c.op = "<=" -> x <= y
                              [] c.op = ">=" -> x >= y
  BY DEF Compares
<1> HIDE DEF x, y
<1>3. Outcome(c.op, x, y) = IF Compares(env, c, m) THEN "yes" ELSE "no"
  <2>1. c.op = "=" => Outcome(c.op, x, y) = IF x = y THEN "yes" ELSE "no"
    BY <1>1 DEF Outcome, Greater, Tests
  <2>2. c.op = "!=" => Outcome(c.op, x, y) = IF x # y THEN "yes" ELSE "no"
    BY <1>1 DEF Outcome, Greater, Tests
  <2>3. c.op = "<" => Outcome(c.op, x, y) = IF x < y THEN "yes" ELSE "no"
    BY <1>1 DEF Outcome, Greater, Tests
  <2>4. c.op = ">" => Outcome(c.op, x, y) = IF x > y THEN "yes" ELSE "no"
    BY <1>1 DEF Outcome, Greater, Tests
  <2>5. c.op = "<=" => Outcome(c.op, x, y) = IF x <= y THEN "yes" ELSE "no"
    BY <1>1 DEF Outcome, Greater, Tests
  <2>6. c.op = ">=" => Outcome(c.op, x, y) = IF x >= y THEN "yes" ELSE "no"
    BY <1>1 DEF Outcome, Greater, Tests
  <2> QED
    BY <1>2, <2>1, <2>2, <2>3, <2>4, <2>5, <2>6 DEF Comparisons
<1> QED
  BY <1>3 DEF x, y

\* The listing c has the lines of raw, patched.
Patched(c, raw, to) ==
  /\ Len(raw) <= Len(c)
  /\ \A k \in 1 .. Len(raw) :
       /\ raw[k] \in Straight => c[k] = raw[k]
       /\ \A w \in {"yes", "no"} : raw[k] = JPOS(w) => c[k] = JPOS(to[w])
       /\ raw[k] = JUMP("no") => c[k] = JUMP(to["no"])

LEMMA SubtractReaches ==
  ASSUME NEW s \in State, NEW env, IsEnvironment(env), NEW x, IsOperand(x), NEW y, IsOperand(y),
         Subtract(env, x, y).errors = {}
  PROVE  Results(Subtract(env, x, y), s, Monus(ValueOf(env, x, s.m), ValueOf(env, y, s.m)))
<1> DEFINE e == [op |-> "-", lhs |-> x, rhs |-> y]
<1>1. e.op = "-" /\ e.lhs = x /\ e.rhs = y
  OBVIOUS
<1> HIDE DEF e
<1>2. WithRegister(env, e) = Subtract(env, x, y)
  BY <1>1 DEF WithRegister, Subtract
<1>3. ExpressionOf(env, e, s.m) = Monus(ValueOf(env, x, s.m), ValueOf(env, y, s.m))
  BY <1>1 DEF ExpressionOf
<1>4. Results(WithRegister(env, e), s, ExpressionOf(env, e, s.m))
  BY <1>1, <1>2, WithRegisterReaches
<1> QED
  BY <1>2, <1>3, <1>4

LEMMA TestReaches ==
  ASSUME NEW s \in State, NEW env, IsEnvironment(env), NEW c, IsOperand(c.lhs), IsOperand(c.rhs),
         NEW d \in Difference, Test(env, c, d).errors = {}
  PROVE  \E code \in Seq(Straight), u \in State :
           /\ Test(env, c, d).lines = code \o <<JPOS(d.to)>>
           /\ Takes(code, s, u)
           /\ u.m = s.m
           /\ u.r["A"] \in Nat
           /\ u.r["A"] > 0 <=> Greater(d, ValueOf(env, c.lhs, s.m), ValueOf(env, c.rhs, s.m))
           /\ ValueOf(env, c.lhs, s.m) \in Nat /\ ValueOf(env, c.rhs, s.m) \in Nat
<1> DEFINE x == IF d.swapped THEN c.rhs ELSE c.lhs
           y == IF d.swapped THEN c.lhs ELSE c.rhs
           f == Subtract(env, x, y)
           a == ValueOf(env, x, s.m)
           b == ValueOf(env, y, s.m)
<1>1. Test(env, c, d) = f ++ Emit(<<JPOS(d.to)>>) /\ IsOperand(x) /\ IsOperand(y)
  BY DEF Test
<1>2. f.errors = {}
  BY <1>1, Errors
<1>3. PICK u \in State : Reaches(f, s, u) /\ u.m = s.m /\ u.r["A"] = Monus(a, b)
  <2> HIDE DEF x, y
  <2> QED
    BY <1>1, <1>2, SubtractReaches DEF Results
<1>4. a \in Nat /\ b \in Nat
  <2>1. \A v \in {x, y} : ValueOf(env, v, s.m) \in Nat
    <3> SUFFICES ASSUME NEW v \in {x, y} PROVE ValueOf(env, v, s.m) \in Nat
      OBVIOUS
    <3> DEFINE first == SetRegisterTo(env, "C", y)  second == SetAccumulator(env, x)
    <3>1. f = first ++ second ++ Emit(<<SUB("C")>>)
      BY DEF Subtract
    <3>2. (first ++ second).errors = {}
      BY <1>2, <3>1, Errors
    <3>3. first.errors = {} /\ second.errors = {}
      BY <3>2, Errors
    <3> HIDE DEF x, y
    <3>4. Loads(first, s, "C", b) /\ Loads(second, s, "A", a)
      BY <1>1, <3>3, SetRegisterToReaches, SMTT(30) DEF SetAccumulator
    <3> QED
      BY <3>4, Names, ValueOfType
  <2> QED
    BY <2>1
<1>5. f.lines \in Seq(Straight) /\ Takes(f.lines, s, u)
      /\ Test(env, c, d).lines = f.lines \o <<JPOS(d.to)>>
  BY <1>1, <1>3 DEF Reaches, ++, Emit
<1>6. u.r["A"] \in Nat /\ (u.r["A"] > 0 <=> a > b)
  <2> HIDE DEF a, b
  <2> QED
    BY <1>3, <1>4 DEF Monus
<1>7. /\ a > b <=> Greater(d, ValueOf(env, c.lhs, s.m), ValueOf(env, c.rhs, s.m))
      /\ ValueOf(env, c.lhs, s.m) \in Nat /\ ValueOf(env, c.rhs, s.m) \in Nat
  BY <1>4 DEF Greater, Difference
<1> HIDE DEF f, a, b
<1> QED
  BY <1>3, <1>5, <1>6, <1>7

LEMMA PatchedStraight ==
  ASSUME NEW c, Len(c) \in Nat, NEW raw \in Seq(Unpatched), NEW to, Patched(c, raw, to),
         NEW p \in Nat, NEW code \in Seq(Straight), Stretch(raw, p, code)
  PROVE  Stretch(c, p, code)
<1>1. Len(raw) \in Nat /\ Len(code) \in Nat /\ \A k \in 1 .. Len(code) : code[k] \in Straight
  OBVIOUS
<1>2. p + Len(code) <= Len(raw) /\ \A k \in 1 .. Len(code) : raw[p + k] = code[k]
  BY DEF Stretch
<1>3. Len(raw) <= Len(c) /\ \A k \in 1 .. Len(raw) : raw[k] \in Straight => c[k] = raw[k]
  BY DEF Patched
<1>4. ASSUME NEW k \in 1 .. Len(code) PROVE c[p + k] = code[k]
  <2>1. p + k \in 1 .. Len(raw) /\ raw[p + k] = code[k] /\ code[k] \in Straight
    BY <1>1, <1>2
  <2> QED
    BY <1>3, <2>1
<1>5. p + Len(code) <= Len(c)
  BY <1>1, <1>2, <1>3
<1> QED
  BY <1>4, <1>5 DEF Stretch

LEMMA OneJump == \A i \in Jumps : <<i>> \in Seq(Unpatched) /\ Len(<<i>>) = 1 /\ <<i>>[1] = i
BY DEF Unpatched

LEMMA StraightUnpatched ==
  ASSUME NEW code \in Seq(Straight)
  PROVE  code \in Seq(Unpatched)
BY DEF Unpatched

LEMMA TestLeads ==
  ASSUME NEW cc, Len(cc) \in Nat, NEW tp, NEW raw \in Seq(Unpatched),
         NEW to, Patched(cc, raw, to), to["yes"] \in Nat, to["no"] \in Nat,
         NEW s \in State, NEW env, IsEnvironment(env), NEW c, IsOperand(c.lhs), IsOperand(c.rhs),
         NEW d \in Difference, Test(env, c, d).errors = {},
         NEW p \in Nat, Stretch(raw, p, Test(env, c, d).lines)
  PROVE  \E u \in State :
           /\ u.m = s.m
           /\ Leads(cc, tp, Snapshot, Snap(p, s, 0, <<>>),
                    Snap(IF Greater(d, ValueOf(env, c.lhs, s.m), ValueOf(env, c.rhs, s.m))
                         THEN to[d.to] ELSE p + Len(Test(env, c, d).lines), u, 0, <<>>))
<1> DEFINE L == Test(env, c, d).lines
           G == Greater(d, ValueOf(env, c.lhs, s.m), ValueOf(env, c.rhs, s.m))
<1>1. PICK code \in Seq(Straight), u \in State :
        /\ L = code \o <<JPOS(d.to)>>
        /\ Takes(code, s, u)
        /\ u.m = s.m
        /\ u.r["A"] \in Nat
        /\ u.r["A"] > 0 <=> G
  BY TestReaches
<1> DEFINE i == JPOS(d.to)  j == <<i>>  n == Len(code)
           a == Snap(p + n, u, 0, <<>>)
           b == Snap(IF G THEN to[d.to] ELSE p + Len(L), u, 0, <<>>)
<1>2. d.to \in {"yes", "no"} /\ i \in Jumps
  BY DEF Difference, Jumps
<1>3. j \in Seq(Unpatched) /\ Len(j) = 1 /\ j[1] = i /\ code \in Seq(Unpatched) /\ n \in Nat
  BY <1>2, OneJump, StraightUnpatched
<1>4. Len(L) = n + 1 /\ Stretch(raw, p, code) /\ Stretch(raw, p + n, j)
  <2>1. L = code \o j /\ Stretch(raw, p, L) /\ Len(raw) \in Nat
    BY <1>1
  <2> HIDE DEF L, j
  <2>2. IsJoin(Unpatched, L, code, j)
    BY <1>3, <2>1, Appended
  <2>3. Stretch(raw, p, code) /\ Stretch(raw, p + Len(code), j)
    BY <1>3, <2>1, StretchBoth
  <2> QED
    BY <1>3, <2>2, <2>3 DEF IsJoin
<1>5. Stretch(cc, p, code)
  BY <1>4, PatchedStraight
<1>6. cc[(p + n) + 1] = JPOS(to[d.to]) /\ (p + n) + 1 <= Len(cc)
  <2>1. raw[(p + n) + 1] = i /\ (p + n) + 1 <= Len(raw)
    BY <1>3, <1>4 DEF Stretch
  <2>2. (p + n) + 1 \in 1 .. Len(raw) /\ Len(raw) \in Nat
    BY <1>3, <2>1
  <2> QED
    BY <1>2, <1>3, <2>1, <2>2 DEF Patched
<1>7. Leads(cc, tp, Snapshot, Snap(p, s, 0, <<>>), a) /\ a \in Snapshot
  <2> DEFINE f == Emit(code)
  <2>1. f.lines = code /\ Reaches(f, s, u)
    BY <1>1 DEF Emit, Reaches
  <2> HIDE DEF f
  <2>2. Leads(cc, tp, Snapshot, Snap(p, s, 0, <<>>), Snap(p + Len(f.lines), u, 0, <<>>))
        /\ Snap(p + Len(f.lines), u, 0, <<>>) \in Snapshot
    BY <1>5, <2>1, StartIs, LeadsOver
  <2> QED
    BY <2>1, <2>2
<1>8. Leads(cc, tp, Snapshot, a, b)
  <2>1. a.at = p + n /\ a.s = u /\ a.n = 0 /\ a.o = <<>>
    BY DEF Snap
  <2>2. Ready(cc, tp, a)
    BY <1>3, <1>6, <2>1 DEF Ready, JPOS
  <2> HIDE DEF L, G
  <2>3. After(cc, tp, a) = b
    <3>1. (p + n) + 1 = p + Len(L)
      BY <1>3, <1>4
    <3> HIDE DEF a, n
    <3> QED
      BY <1>1, <1>6, <2>1, <3>1 DEF After, JPOS, StraightOps
  <2>4. b \in Snapshot
    <3>1. to[d.to] \in Nat /\ p + Len(L) \in Nat
      BY <1>2, <1>3, <1>4
    <3> QED
      BY <3>1, StartIs DEF Snap, Snapshot
  <2> HIDE DEF a, b
  <2> QED
    BY <1>7, <2>2, <2>3, <2>4, LeadsOne
<1>9. Leads(cc, tp, Snapshot, Snap(p, s, 0, <<>>), b)
  <2> HIDE DEF a, b
  <2> QED
    BY <1>7, <1>8, LeadsBoth
<1> QED
  BY <1>1, <1>9

LEMMA PatchedLines ==
  ASSUME NEW raw \in Seq(Unpatched), NEW errors, NEW to, to["yes"] \in Nat, to["no"] \in Nat
  PROVE  LET f == SetJumpLocations([lines |-> raw, errors |-> errors], to)
         IN /\ f.lines \in Seq(Instruction)
            /\ Len(f.lines) = Len(raw)
            /\ Patched(f.lines, raw, to)
            /\ f.errors = errors
<1> DEFINE g == [lines |-> raw, errors |-> errors]
           set(line) == IF "line" \in DOMAIN line THEN [line EXCEPT !.line = to[@]] ELSE line
           P == [k \in DOMAIN raw |-> set(raw[k])]
           f == SetJumpLocations(g, to)
<1>1. f = [lines |-> P, errors |-> errors]
  <2>1. f = [g EXCEPT !.lines = [k \in DOMAIN g.lines |-> set(g.lines[k])]]
    BY DEF SetJumpLocations
  <2>2. g.lines = raw
    OBVIOUS
  <2>3. f = [g EXCEPT !.lines = P]
    BY <2>1, <2>2
  <2> HIDE DEF P, f
  <2> QED
    BY <2>3
<1>2. \A i \in Straight : set(i) = i /\ i \in Instruction
  <2>1. \A o, x : DOMAIN [op |-> o, reg |-> x] = {"op", "reg"}
    OBVIOUS
  <2>2. \A i \in Straight : i = [op |-> i.op, reg |-> i.reg]
    BY DEF Straight
  <2>3. \A i \in Straight : DOMAIN i = {"op", "reg"}
    BY <2>1, <2>2
  <2> QED
    BY <2>3, StraightInstruction
<1>3. \A w \in {"yes", "no"} : set(JPOS(w)) = JPOS(to[w]) /\ JPOS(to[w]) \in Instruction
  BY DEF JPOS, Instruction, JumpOps
<1>4. set(JUMP("no")) = JUMP(to["no"]) /\ JUMP(to["no"]) \in Instruction
  BY DEF JUMP, Instruction, JumpOps
<1>5. DOMAIN raw = 1 .. Len(raw) /\ Len(raw) \in Nat
  OBVIOUS
<1> HIDE DEF set
<1>6. \A k \in 1 .. Len(raw) : P[k] \in Instruction
  <2> SUFFICES ASSUME NEW k \in 1 .. Len(raw) PROVE P[k] \in Instruction
    OBVIOUS
  <2>1. raw[k] \in Straight \cup {JPOS("yes"), JPOS("no"), JUMP("no")}
    BY <1>5 DEF Unpatched, Jumps
  <2>2. P[k] = set(raw[k])
    BY <1>5
  <2> HIDE DEF P
  <2> QED
    BY <1>2, <1>3, <1>4, <2>1, <2>2
<1>7. \A k \in 1 .. Len(raw) : P[k] = set(raw[k])
  BY <1>5
<1>8. P \in Seq(Instruction) /\ Len(P) = Len(raw)
  <2>1. P \in [1 .. Len(raw) -> Instruction]
    <3>1. P = [k \in 1 .. Len(raw) |-> P[k]]
      BY <1>5
    <3> HIDE DEF P
    <3> QED
      BY <1>6, <3>1
  <2> HIDE DEF P
  <2>2. P \in Seq(Instruction)
    BY <1>5, <2>1, SeqDef
  <2> QED
    BY <1>5, <2>1, <2>2, LenProperties
<1> HIDE DEF P
<1>9. Patched(P, raw, to)
  BY <1>2, <1>3, <1>4, <1>5, <1>7, <1>8 DEF Patched
<1> HIDE DEF f
<1>10. f.lines = P /\ f.errors = errors
  BY <1>1
<1>11. f.lines \in Seq(Instruction) /\ Len(f.lines) = Len(raw) /\ Patched(f.lines, raw, to)
       /\ f.errors = errors
  BY <1>8, <1>9, <1>10
<1> QED
  BY <1>11 DEF f, g

\* What a condition consists of.
LEMMA ConditionIs ==
  ASSUME NEW env, NEW c, c.op \in Comparisons, EmitCondition(env, c).errors = {}
  PROVE  \E d \in Difference : \E b, j :
           /\ Tests(c.op)[1] = d
           /\ Test(env, c, d).errors = {}
           /\ EmitCondition(env, c).lines = Test(env, c, d).lines \o b \o j
           /\ \/ Len(Tests(c.op)) = 1 /\ b = <<>>
              \/ \E e \in Difference : /\ Len(Tests(c.op)) = 2 /\ Tests(c.op)[2] = e
                                       /\ Test(env, c, e).errors = {}
                                       /\ b = Test(env, c, e).lines
           /\ j = IF c.op \in {"!=", "<", ">"} THEN <<JUMP("no")>> ELSE <<>>
<1> DEFINE tests == Tests(c.op)  d == tests[1]  e == tests[2]
           f == Test(env, c, d)
           g == IF Len(tests) = 2 THEN Test(env, c, e) ELSE Nothing
           j == IF c.op \in {"!=", "<", ">"} THEN <<JUMP("no")>> ELSE <<>>
           h == Emit(j)
<1>1. d \in Difference /\ Len(tests) \in {1, 2} /\ (Len(tests) = 2 => e \in Difference)
  BY TestsAre
<1>2. EmitCondition(env, c) = f ++ g ++ h
  BY DEF EmitCondition
<1>3. f.errors = {} /\ g.errors = {}
  <2> HIDE DEF f, g, h
  <2>1. (f ++ g).errors = {}
    BY <1>2, Errors
  <2> QED
    BY <2>1, Errors
<1>4. EmitCondition(env, c).lines = f.lines \o g.lines \o j
  <2> HIDE DEF f, g, j
  <2>1. /\ \A q : Emit(q).lines = q
        /\ \A x, y : (x ++ y).lines = x.lines \o y.lines
    BY DEF Emit, ++
  <2>2. h.lines = j
    BY <2>1
  <2> HIDE DEF h
  <2>3. EmitCondition(env, c).lines = (f ++ g ++ h).lines
    BY <1>2
  <2>4. (f ++ g ++ h).lines = (f ++ g).lines \o h.lines
    BY <2>1
  <2>5. (f ++ g).lines = f.lines \o g.lines
    BY <2>1
  <2> QED
    BY <2>2, <2>3, <2>4, <2>5
<1>5. CASE Len(tests) = 1
  <2> DEFINE b == g.lines
  <2>1. b = <<>>
    <3>1. g = Nothing
      BY <1>5
    <3> HIDE DEF g
    <3> QED
      BY <3>1 DEF Nothing, Emit
  <2>2. f.errors = {} /\ EmitCondition(env, c).lines = f.lines \o b \o j
    BY <1>3, <1>4
  <2> HIDE DEF b, g, h
  <2> USE <1>1
  <2> WITNESS d \in Difference
  <2> WITNESS b, j
  <2> QED
    BY <1>5, <2>1, <2>2
<1>6. CASE Len(tests) = 2
  <2> DEFINE b == g.lines
  <2>1. g = Test(env, c, e)
    BY <1>6
  <2>2. /\ f.errors = {} /\ EmitCondition(env, c).lines = f.lines \o b \o j
        /\ Test(env, c, e).errors = {} /\ b = Test(env, c, e).lines
    BY <1>3, <1>4, <2>1
  <2>3. e \in Difference
    BY <1>1, <1>6
  <2> HIDE DEF b, g, h
  <2> USE <1>1
  <2> WITNESS d \in Difference
  <2> WITNESS b, j
  <2> QED
    BY <1>6, <2>2, <2>3
<1> QED
  BY <1>1, <1>5, <1>6

LEMMA TestType ==
  ASSUME NEW env, IsEnvironment(env), NEW c, IsOperand(c.lhs), IsOperand(c.rhs),
         NEW d \in Difference, Test(env, c, d).errors = {}, NEW s \in State
  PROVE  /\ Test(env, c, d).lines \in Seq(Unpatched)
         /\ ValueOf(env, c.lhs, s.m) \in Nat /\ ValueOf(env, c.rhs, s.m) \in Nat
<1>1. PICK code \in Seq(Straight) : Test(env, c, d).lines = code \o <<JPOS(d.to)>>
  BY TestReaches
<1>2. ValueOf(env, c.lhs, s.m) \in Nat /\ ValueOf(env, c.rhs, s.m) \in Nat
  BY TestReaches
<1> DEFINE j == <<JPOS(d.to)>>
<1>3. code \in Seq(Unpatched) /\ j \in Seq(Unpatched)
  <2>1. JPOS(d.to) \in Jumps
    BY DEF Difference, Jumps
  <2> QED
    BY <2>1, OneJump, StraightUnpatched
<1> HIDE DEF j
<1>4. code \o j \in Seq(Unpatched)
  BY <1>3, ConcatProperties
<1> QED
  BY <1>1, <1>2, <1>4 DEF j

\* A sequence of three parts, and where they stand in it.
IsTriple(S, raw, a, b, j) ==
  /\ raw \in Seq(S)
  /\ Len(raw) = Len(a) + Len(b) + Len(j)
  /\ Stretch(raw, 0, a)
  /\ Stretch(raw, Len(a), b)
  /\ Stretch(raw, Len(a) + Len(b), j)

LEMMA ThreeParts ==
  ASSUME NEW S, NEW a \in Seq(S), NEW b \in Seq(S), NEW j \in Seq(S)
  PROVE  IsTriple(S, a \o b \o j, a, b, j)
<1> DEFINE ab == a \o b  raw == a \o b \o j
<1>1. IsJoin(S, ab, a, b)
  BY Appended
<1>2. ab \in Seq(S) /\ Len(ab) = Len(a) + Len(b) /\ Len(a) \in Nat /\ Len(b) \in Nat /\ Len(j) \in Nat
  BY <1>1 DEF IsJoin
<1>10. raw = ab \o j /\ ab = a \o b
  OBVIOUS
<1> HIDE DEF ab, raw
<1>3. IsJoin(S, raw, ab, j)
  BY <1>2, <1>10, Appended
<1>4. raw \in Seq(S) /\ Len(raw) = Len(ab) + Len(j) /\ Len(raw) \in Nat
  BY <1>2, <1>3 DEF IsJoin
<1>5. Stretch(raw, 0, raw)
  BY <1>4 DEF Stretch
<1>6. Stretch(raw, 0, ab) /\ Stretch(raw, 0 + Len(ab), j)
  <2>1. Stretch(raw, 0, ab \o j)
    BY <1>5, <1>10
  <2> QED
    BY <1>2, <1>4, <2>1, StretchBoth
<1>7. Stretch(raw, 0, a) /\ Stretch(raw, 0 + Len(a), b)
  <2>1. Stretch(raw, 0, a \o b)
    BY <1>6, <1>10
  <2> QED
    BY <1>4, <2>1, StretchBoth
<1>8. 0 + Len(ab) = Len(a) + Len(b) /\ 0 + Len(a) = Len(a)
  BY <1>2
<1>9. IsTriple(S, raw, a, b, j)
  BY <1>2, <1>4, <1>6, <1>7, <1>8 DEF IsTriple
<1> QED
  BY <1>9 DEF raw

LEMMA ConditionParts ==
  ASSUME NEW s \in State, NEW env, IsEnvironment(env),
         NEW c, IsOperand(c.lhs), IsOperand(c.rhs), c.op \in Comparisons,
         EmitCondition(env, c).errors = {}
  PROVE  /\ EmitCondition(env, c).lines \in Seq(Unpatched)
         /\ ValueOf(env, c.lhs, s.m) \in Nat /\ ValueOf(env, c.rhs, s.m) \in Nat
         /\ \E d \in Difference, b \in Seq(Unpatched), j \in Seq(Unpatched) :
              LET raw == EmitCondition(env, c).lines
                  a == Test(env, c, d).lines
                  jumps == c.op \in {"!=", "<", ">"}
              IN /\ Tests(c.op)[1] = d
                 /\ Test(env, c, d).errors = {}
                 /\ \/ Len(Tests(c.op)) = 1 /\ b = <<>>
                    \/ \E e \in Difference : /\ Len(Tests(c.op)) = 2 /\ Tests(c.op)[2] = e
                                             /\ Test(env, c, e).errors = {}
                                             /\ b = Test(env, c, e).lines
                 /\ Len(raw) = Len(a) + Len(b) + Len(j)
                 /\ Len(a) \in Nat /\ Len(b) \in Nat
                 /\ Stretch(raw, 0, a) /\ Stretch(raw, Len(a), b)
                 /\ Stretch(raw, Len(a) + Len(b), j)
                 /\ Len(j) = IF jumps THEN 1 ELSE 0
                 /\ jumps => j[1] = JUMP("no")
<1> DEFINE raw == EmitCondition(env, c).lines
           x == ValueOf(env, c.lhs, s.m)
           y == ValueOf(env, c.rhs, s.m)
           tests == Tests(c.op)
           jumps == c.op \in {"!=", "<", ">"}
<1> DEFINE Parts(d, b, j) ==
             /\ tests[1] = d
             /\ Test(env, c, d).errors = {}
             /\ raw = Test(env, c, d).lines \o b \o j
             /\ \/ Len(tests) = 1 /\ b = <<>>
                \/ \E e \in Difference : /\ Len(tests) = 2 /\ tests[2] = e
                                         /\ Test(env, c, e).errors = {}
                                         /\ b = Test(env, c, e).lines
             /\ j = IF jumps THEN <<JUMP("no")>> ELSE <<>>
<1>10. PICK d \in Difference : \E b, j : Parts(d, b, j)
  BY ConditionIs
<1>1. PICK b, j : Parts(d, b, j)
  BY <1>10
<1> DEFINE a == Test(env, c, d).lines
<1>2. a \in Seq(Unpatched) /\ x \in Nat /\ y \in Nat
  BY <1>1, TestType
<1>3. b \in Seq(Unpatched)
  <2>1. ASSUME NEW e \in Difference, Test(env, c, e).errors = {}, b = Test(env, c, e).lines
        PROVE  b \in Seq(Unpatched)
    BY <2>1, TestType
  <2> QED
    BY <1>1, <2>1, EmptySeq
<1>4. /\ j \in Seq(Unpatched)
      /\ Len(j) = IF jumps THEN 1 ELSE 0
      /\ jumps => j[1] = JUMP("no")
  <2> DEFINE k == <<JUMP("no")>>
  <2>1. JUMP("no") \in Jumps
    BY DEF Jumps
  <2>2. k \in Seq(Unpatched) /\ Len(k) = 1 /\ k[1] = JUMP("no")
    BY <2>1, OneJump
  <2>3. <<>> \in Seq(Unpatched) /\ Len(<<>>) = 0
    BY EmptySeq
  <2>4. j = IF jumps THEN k ELSE <<>>
    BY <1>1
  <2>5. CASE jumps
    <3>1. j = k
      BY <2>4, <2>5
    <3> HIDE DEF k
    <3> QED
      BY <2>2, <2>5, <3>1
  <2>6. CASE ~jumps
    <3>1. j = <<>>
      BY <2>4, <2>6
    <3> QED
      BY <2>3, <2>6, <3>1
  <2> QED
    BY <2>5, <2>6
<1>5. /\ raw \in Seq(Unpatched) /\ Len(raw) = Len(a) + Len(b) + Len(j)
      /\ Stretch(raw, 0, a) /\ Stretch(raw, Len(a), b) /\ Stretch(raw, Len(a) + Len(b), j)
  <2>1. raw = a \o b \o j
    BY <1>1
  <2>2. a \in Seq(Unpatched) /\ b \in Seq(Unpatched) /\ j \in Seq(Unpatched)
    BY <1>2, <1>3, <1>4
  <2> HIDE DEF a, raw
  <2>3. IsTriple(Unpatched, raw, a, b, j)
    BY <2>1, <2>2, ThreeParts
  <2> QED
    BY <2>3 DEF IsTriple
<1>6. Len(a) \in Nat /\ Len(b) \in Nat
  BY <1>2, <1>3
<1>7. /\ tests[1] = d
      /\ Test(env, c, d).errors = {}
      /\ \/ Len(tests) = 1 /\ b = <<>>
         \/ \E e \in Difference : /\ Len(tests) = 2 /\ tests[2] = e
                                  /\ Test(env, c, e).errors = {}
                                  /\ b = Test(env, c, e).lines
  BY <1>1
<1> QED
  BY <1>2, <1>3, <1>4, <1>5, <1>6, <1>7

LEMMA ConditionType ==
  ASSUME NEW s \in State, NEW env, IsEnvironment(env),
         NEW c, IsOperand(c.lhs), IsOperand(c.rhs), c.op \in Comparisons,
         EmitCondition(env, c).errors = {}
  PROVE  EmitCondition(env, c).lines \in Seq(Unpatched)
BY ConditionParts

LEMMA ConditionLeads ==
  ASSUME NEW cc, Len(cc) \in Nat, NEW tp, NEW s \in State, NEW env, IsEnvironment(env),
         NEW c, IsOperand(c.lhs), IsOperand(c.rhs), c.op \in Comparisons,
         EmitCondition(env, c).errors = {},
         NEW to, to["yes"] = Len(EmitCondition(env, c).lines), to["no"] \in Nat,
         Patched(cc, EmitCondition(env, c).lines, to)
  PROVE  \E u \in State :
           /\ u.m = s.m
           /\ Leads(cc, tp, Snapshot, Start(s),
                    Snap(IF Compares(env, c, s.m) THEN to["yes"] ELSE to["no"], u, 0, <<>>))
<1> DEFINE raw == EmitCondition(env, c).lines
           x == ValueOf(env, c.lhs, s.m)
           y == ValueOf(env, c.rhs, s.m)
           tests == Tests(c.op)
           jumps == c.op \in {"!=", "<", ">"}
<1>1. PICK d \in Difference, b \in Seq(Unpatched), j \in Seq(Unpatched) :
        LET a == Test(env, c, d).lines
        IN /\ tests[1] = d
           /\ Test(env, c, d).errors = {}
           /\ \/ Len(tests) = 1 /\ b = <<>>
              \/ \E e \in Difference : /\ Len(tests) = 2 /\ tests[2] = e
                                       /\ Test(env, c, e).errors = {}
                                       /\ b = Test(env, c, e).lines
           /\ Len(raw) = Len(a) + Len(b) + Len(j)
           /\ Len(a) \in Nat /\ Len(b) \in Nat
           /\ Stretch(raw, 0, a) /\ Stretch(raw, Len(a), b)
           /\ Stretch(raw, Len(a) + Len(b), j)
           /\ Len(j) = IF jumps THEN 1 ELSE 0
           /\ jumps => j[1] = JUMP("no")
  BY ConditionParts
<1>2. raw \in Seq(Unpatched) /\ x \in Nat /\ y \in Nat
  BY ConditionParts
<1> DEFINE a == Test(env, c, d).lines  n1 == Len(a)  n2 == Len(b)  n3 == Len(j)
<1>3. /\ Len(raw) = n1 + n2 + n3
      /\ Stretch(raw, 0, a) /\ Stretch(raw, n1, b) /\ Stretch(raw, n1 + n2, j)
      /\ n1 \in Nat /\ n2 \in Nat
      /\ n3 = IF jumps THEN 1 ELSE 0
      /\ jumps => j[1] = JUMP("no")
  BY <1>1
<1>4. Patched(cc, raw, to) /\ to["yes"] \in Nat /\ to["no"] \in Nat /\ to["yes"] = n1 + n2 + n3
  <2>1. to["yes"] = Len(raw) /\ Len(raw) \in Nat
    BY <1>2
  <2> QED
    BY <1>3, <2>1
<1>5. PICK u1 \in State :
        /\ u1.m = s.m
        /\ Leads(cc, tp, Snapshot, Start(s),
                 Snap(IF Greater(d, x, y) THEN to[d.to] ELSE n1, u1, 0, <<>>))
  <2>1. \E u \in State :
          /\ u.m = s.m
          /\ Leads(cc, tp, Snapshot, Snap(0, s, 0, <<>>),
                   Snap(IF Greater(d, x, y) THEN to[d.to] ELSE 0 + n1, u, 0, <<>>))
    <3> HIDE DEF raw
    <3> QED
      BY <1>1, <1>2, <1>3, <1>4, TestLeads, ZenonT(30)
  <2>2. 0 + n1 = n1
    BY <1>3
  <2> QED
    BY <2>1, <2>2 DEF Start
<1> DEFINE second == Len(tests) = 2 /\ Greater(tests[2], x, y)
<1>6. PICK u2 \in State :
        /\ u2.m = s.m
        /\ Leads(cc, tp, Snapshot, Snap(n1, u1, 0, <<>>),
                 Snap(IF second THEN to[tests[2].to] ELSE n1 + n2, u2, 0, <<>>))
  <2>1. CASE Len(tests) = 1 /\ b = <<>>
    <3>1. n1 + n2 = n1 /\ ~second
      BY <1>3, <2>1, EmptySeq
    <3>2. Snap(n1, u1, 0, <<>>) \in Snapshot
      BY <1>3, StartIs DEF Snap, Snapshot
    <3> DEFINE z == Snap(n1, u1, 0, <<>>)
    <3>3. Leads(cc, tp, Snapshot, z, z)
      <4> HIDE DEF z
      <4> QED
        BY <3>2, LeadsNone DEF z
    <3>4. z = Snap(IF second THEN to[tests[2].to] ELSE n1 + n2, u1, 0, <<>>)
      BY <3>1
    <3> HIDE DEF second, n1, n2
    <3> QED
      BY <1>5, <3>3, <3>4
  <2>2. ASSUME NEW e \in Difference, Len(tests) = 2, tests[2] = e,
               Test(env, c, e).errors = {}, b = Test(env, c, e).lines
        PROVE  \E u \in State :
                 /\ u.m = s.m
                 /\ Leads(cc, tp, Snapshot, Snap(n1, u1, 0, <<>>),
                          Snap(IF second THEN to[tests[2].to] ELSE n1 + n2, u, 0, <<>>))
    <3>1. Stretch(raw, n1, Test(env, c, e).lines)
      BY <1>3, <2>2
    <3>2. ValueOf(env, c.lhs, u1.m) = x /\ ValueOf(env, c.rhs, u1.m) = y
      BY <1>5
    <3> HIDE DEF raw, n1, x, y
    <3>3. \E u \in State :
            /\ u.m = u1.m
            /\ Leads(cc, tp, Snapshot, Snap(n1, u1, 0, <<>>),
                     Snap(IF Greater(e, ValueOf(env, c.lhs, u1.m), ValueOf(env, c.rhs, u1.m))
                          THEN to[e.to] ELSE n1 + Len(Test(env, c, e).lines), u, 0, <<>>))
      BY <1>2, <1>3, <1>4, <2>2, <3>1, TestLeads, ZenonT(30)
    <3>4. second <=> Greater(e, x, y)
      BY <2>2
    <3>5. n2 = Len(Test(env, c, e).lines) /\ tests[2] = e
      BY <2>2
    <3> HIDE DEF second, n2, tests
    <3> QED
      BY <1>5, <3>2, <3>3, <3>4, <3>5
  <2> QED
    BY <1>1, <2>1, <2>2
<1>7. Leads(cc, tp, Snapshot, Snap(n1 + n2, u2, 0, <<>>),
            Snap(IF jumps THEN to["no"] ELSE to["yes"], u2, 0, <<>>))
  <2> DEFINE q == n1 + n2  z == Snap(q, u2, 0, <<>>)
             w == Snap(IF jumps THEN to["no"] ELSE to["yes"], u2, 0, <<>>)
  <2>1. q \in Nat /\ z \in Snapshot /\ w \in Snapshot
    BY <1>3, <1>4, StartIs DEF Snap, Snapshot
  <2>2. CASE jumps
    <3>1. raw[q + 1] = JUMP("no") /\ q + 1 \in 1 .. Len(raw)
      <4> HIDE DEF raw, a
      <4> QED
        BY <1>2, <1>3, <2>1, <2>2 DEF Stretch
    <3>2. cc[q + 1] = JUMP(to["no"]) /\ q + 1 <= Len(cc)
      BY <1>4, <2>1, <3>1 DEF Patched
    <3>3. z.at = q /\ z.s = u2 /\ z.n = 0 /\ z.o = <<>>
      BY DEF Snap
    <3>4. Ready(cc, tp, z)
      BY <2>1, <3>2, <3>3 DEF Ready, JUMP
    <3>5. After(cc, tp, z) = w
      <4>1. w = Snap(to["no"], u2, 0, <<>>)
        BY <2>2
      <4> HIDE DEF z, q, w
      <4> QED
        BY <3>2, <3>3, <4>1 DEF After, JUMP, StraightOps
    <3> HIDE DEF z, w
    <3>6. Leads(cc, tp, Snapshot, z, w)
      BY <2>1, <3>4, <3>5, LeadsOne
    <3> QED
      BY <3>6 DEF z, w
  <2>3. CASE ~jumps
    <3>1. to["yes"] = q
      BY <1>2, <1>3, <1>4, <2>3
    <3>2. w = z
      BY <2>3, <3>1
    <3> HIDE DEF z, w
    <3>3. Leads(cc, tp, Snapshot, z, w)
      BY <2>1, <3>2, LeadsNone
    <3> QED
      BY <3>3 DEF z, w
  <2> QED
    BY <2>2, <2>3
<1> DEFINE line == Outcome(c.op, x, y)
           goal(u) == Leads(cc, tp, Snapshot, Start(s), Snap(to[line], u, 0, <<>>))
<1>8. line = IF Greater(d, x, y) THEN d.to
             ELSE IF second THEN tests[2].to ELSE IF jumps THEN "no" ELSE "yes"
  BY <1>1 DEF Outcome
<1>9. \E u \in State : u.m = s.m /\ goal(u)
  <2> HIDE DEF line, second, jumps, n1, n2, x, y
  <2>1. CASE Greater(d, x, y)
    BY <1>5, <1>8, <2>1
  <2>2. CASE ~Greater(d, x, y) /\ second
    <3>1. Leads(cc, tp, Snapshot, Start(s), Snap(n1, u1, 0, <<>>))
      BY <1>5, <2>2
    <3>2. Leads(cc, tp, Snapshot, Snap(n1, u1, 0, <<>>), Snap(to[line], u2, 0, <<>>))
      BY <1>6, <1>8, <2>2
    <3>3. goal(u2)
      <4> DEFINE v1 == Start(s)  v2 == Snap(n1, u1, 0, <<>>)  v3 == Snap(to[line], u2, 0, <<>>)
      <4>1. Leads(cc, tp, Snapshot, v1, v2) /\ Leads(cc, tp, Snapshot, v2, v3)
        BY <3>1, <3>2
      <4> HIDE DEF v1, v2, v3
      <4>2. Leads(cc, tp, Snapshot, v1, v3)
        BY <4>1, LeadsBoth
      <4> QED
        BY <4>2 DEF v1, v3
    <3> QED
      BY <1>6, <3>3
  <2>3. CASE ~Greater(d, x, y) /\ ~second
    <3> DEFINE v1 == Start(s)  v2 == Snap(n1, u1, 0, <<>>)  v3 == Snap(n1 + n2, u2, 0, <<>>)
               v4 == Snap(to[line], u2, 0, <<>>)
    <3>1. Leads(cc, tp, Snapshot, v1, v2)
      BY <1>5, <2>3
    <3>2. Leads(cc, tp, Snapshot, v2, v3)
      BY <1>6, <2>3
    <3>3. Leads(cc, tp, Snapshot, v3, v4)
      BY <1>7, <1>8, <2>3
    <3> HIDE DEF v1, v2, v3, v4
    <3>4. Leads(cc, tp, Snapshot, v1, v4)
      BY <3>1, <3>2, <3>3, LeadsBoth
    <3>5. goal(u2)
      BY <3>4 DEF v1, v4
    <3> QED
      BY <1>6, <3>5
  <2> QED
    BY <2>1, <2>2, <2>3
<1>10. to[line] = IF Compares(env, c, s.m) THEN to["yes"] ELSE to["no"]
  <2>1. line = IF Compares(env, c, s.m) THEN "yes" ELSE "no"
    BY <1>2, OutcomeIs
  <2> HIDE DEF line
  <2> QED
    BY <2>1
<1> QED
  BY <1>3, <1>9, <1>10

LEMMA TestArrives ==
  ASSUME NEW piece, IsPiece(piece), piece.command.cmd = "test", NEW s \in State, NEW tp
  PROVE  /\ Emitted(piece).lines \in Seq(Instruction)
         /\ Arrives(piece, s, tp)
<1> DEFINE env == piece.env  c == piece.command.cond
           f == EmitCondition(env, c)  raw == f.lines  n == Len(raw)
           to == [yes |-> n, no |-> n + 1]
           cc == Listing(piece)
<1>1. /\ Emitted(piece) = SetJumpLocations(f, to)
      /\ IsEnvironment(env) /\ IsOperand(c.lhs) /\ IsOperand(c.rhs)
      /\ c.op \in Comparisons
  BY DEF IsPiece, IsCommand, Emitted, Tested, Comparisons
<1>2. f = [lines |-> raw, errors |-> f.errors]
  BY DEF EmitCondition, ++
<1> DEFINE g == SetJumpLocations([lines |-> raw, errors |-> f.errors], to)
<1>3. Emitted(piece) = g
  BY <1>1, <1>2
<1>4. f.errors = {}
  <2>1. g.errors = f.errors
    BY DEF SetJumpLocations
  <2> QED
    BY <1>3, <2>1 DEF IsPiece
<1>5. raw \in Seq(Unpatched)
  BY <1>1, <1>4, ConditionType
<1>6. to["yes"] = n /\ to["no"] = n + 1 /\ n \in Nat
  BY <1>5
<1>7. g.lines \in Seq(Instruction) /\ Len(g.lines) = n /\ Patched(g.lines, raw, to)
  <2> DEFINE e == f.errors
  <2>1. g = SetJumpLocations([lines |-> raw, errors |-> e], to)
    OBVIOUS
  <2>2. to["yes"] \in Nat /\ to["no"] \in Nat
    BY <1>6
  <2> HIDE DEF raw, to, f, e, g
  <2>3. g.lines \in Seq(Instruction) /\ Len(g.lines) = Len(raw) /\ Patched(g.lines, raw, to)
    BY <1>5, <2>1, <2>2, PatchedLines
  <2> QED
    BY <2>3 DEF raw
<1>8. Emitted(piece).lines = g.lines /\ Behind(piece) = n
  BY <1>3, <1>7 DEF Behind
<1> HIDE DEF g
<1>9. Len(cc) \in Nat /\ Stretch(cc, 0, g.lines)
  BY <1>7, <1>8, ListingIs
<1>10. Patched(cc, raw, to)
  <2>1. n <= Len(cc) /\ \A k \in 1 .. n : cc[k] = g.lines[k]
    BY <1>6, <1>7, <1>9 DEF Stretch
  <2> HIDE DEF cc, to, raw
  <2> QED
    BY <1>7, <2>1 DEF Patched
<1>11. PICK u \in State :
         /\ u.m = s.m
         /\ Leads(cc, tp, Snapshot, Start(s),
                  Snap(IF Compares(env, c, s.m) THEN to["yes"] ELSE to["no"], u, 0, <<>>))
  <2> HIDE DEF cc, to
  <2>1. to["yes"] = Len(EmitCondition(env, c).lines) /\ to["no"] \in Nat
    BY <1>6
  <2> QED
    BY <1>1, <1>4, <1>9, <1>10, <2>1, ConditionLeads
<1> DEFINE b == Snap(IF Compares(env, c, s.m) THEN to["yes"] ELSE to["no"], u, 0, <<>>)
<1>12. b.at = Behind(piece) + (IF Compares(env, c, s.m) THEN 0 ELSE 1) /\ b.s.m = s.m
  <2> HIDE DEF to, n
  <2> QED
    BY <1>6, <1>8, <1>11 DEF Snap
<1>13. b \in Snapshot
  <2> HIDE DEF to, n
  <2> QED
    BY <1>6, StartIs DEF Snap, Snapshot
<1>14. b \in EndsOf(piece, s.m, tp)
  <2> HIDE DEF b
  <2> QED
    BY <1>12, <1>13 DEF EndsOf
<1>15. WayOf(piece, s.m) = Snapshot
  BY DEF WayOf
<1>16. Leads(cc, tp, WayOf(piece, s.m), Start(s), b)
  BY <1>11, <1>15
<1> HIDE DEF b
<1> QED
  BY <1>7, <1>8, <1>14, <1>16 DEF Arrives

-----------------------------------------------------------------------------
(* Calls.                                                                   *)
LEMMA ArgumentAddressReaches ==
  ASSUME NEW s \in State, NEW env, IsEnvironment(env), NEW x, Known(env, x)
  PROVE  \E u \in State :
           /\ Reaches(ArgumentAddress(Location(env, x)), s, u)
           /\ u.m = s.m
           /\ u.r["A"] = Stands(env, x, s.m)
           /\ u.r["G"] = s.r["G"]
<1> DEFINE loc == Location(env, x)
<1>1. loc.address \in Nat /\ loc.is_pointer \in BOOLEAN
  BY StateIs, LocationIs
<1>2. s.r \in [Registers -> Nat]
  BY StateIs
<1>3. CASE loc.is_pointer
  <2>1. PICK v : Puts(SetRegister("B", loc.address), s, v, "B", loc.address)
    BY <1>1, Names, Putting
  <2>2. v \in State /\ v.r \in [Registers -> Nat]
    BY <2>1, StateIs DEF Puts
  <2>3. PICK u : Puts(Emit(<<LOAD("B")>>), v, u, "A", v.m[v.r["B"]])
    BY <2>2, Names, Putting
  <2>4. ArgumentAddress(loc) = SetRegister("B", loc.address) ++ Emit(<<LOAD("B")>>)
    BY <1>3 DEF ArgumentAddress
  <2>5. Reaches(ArgumentAddress(loc), s, u)
    BY <2>1, <2>3, <2>4, Then DEF Puts
  <2>6. u.m = s.m /\ u.r["G"] = s.r["G"] /\ u.r["A"] = s.m[loc.address]
    BY <1>2, <2>1, <2>2, <2>3 DEF Puts, Registers
  <2>7. Stands(env, x, s.m) = s.m[loc.address]
    BY <1>3 DEF Stands
  <2> QED
    BY <2>3, <2>5, <2>6, <2>7 DEF Puts
<1>4. CASE ~loc.is_pointer
  <2>1. PICK u : Puts(SetRegister("A", loc.address), s, u, "A", loc.address)
    BY <1>1, Names, Putting
  <2>2. ArgumentAddress(loc) = SetRegister("A", loc.address)
    BY <1>4 DEF ArgumentAddress
  <2>3. u.r["G"] = s.r["G"] /\ u.r["A"] = loc.address
    BY <1>2, <2>1 DEF Puts, Registers
  <2>4. Stands(env, x, s.m) = loc.address
    BY <1>4 DEF Stands
  <2> QED
    BY <2>1, <2>2, <2>3, <2>4 DEF Puts
<1> QED
  BY <1>1, <1>3, <1>4

LEMMA StoreArgumentReaches ==
  ASSUME NEW s \in State
  PROVE  \E u \in State :
           /\ Reaches(StoreArgument, s, u)
           /\ u.m = [s.m EXCEPT ![s.r["G"]] = s.r["A"]]
           /\ u.r["G"] = s.r["G"] + 1
<1>1. s.r["G"] \in Nat /\ s.r["A"] \in Nat
  BY Names, StateIs
<1> DEFINE w == Poke(s, s.r["G"], s.r["A"])
<1>2. w \in State /\ w.r = s.r /\ w.m = [s.m EXCEPT ![s.r["G"]] = s.r["A"]]
  BY <1>1, PokeIs
<1>3. Reaches(Emit(<<STORE("G")>>), s, w)
  BY Names, ReachesSet
<1> HIDE DEF w
<1>4. PICK u : Puts(Emit(<<INC("G")>>), w, u, "G", w.r["G"] + 1)
  BY <1>2, Names, Putting
<1>5. StoreArgument = Emit(<<STORE("G")>>) ++ Emit(<<INC("G")>>)
  BY Names, StraightIs, EmitPair DEF StoreArgument
<1>6. Reaches(StoreArgument, s, u)
  BY <1>3, <1>4, <1>5, Then DEF Puts
<1>7. u.r["G"] = s.r["G"] + 1
  <2>1. s.r \in [Registers -> Nat]
    BY StateIs
  <2> QED
    BY <1>2, <1>4, <2>1 DEF Puts, Registers
<1> QED
  BY <1>2, <1>4, <1>6, <1>7 DEF Puts

\* The fragment f stores v in the cell at G and goes on to the next one.
Hands(f, s, v) ==
  \E u \in State : /\ Reaches(f, s, u)
                   /\ u.m = [s.m EXCEPT ![s.r["G"]] = v]
                   /\ u.r["G"] = s.r["G"] + 1

\* An argument passes the check without a message or not at all.
LEMMA CheckedIs ==
  ASSUME NEW loc, NEW x, NEW formals, NEW k,
         CheckArgument(loc, x, formals, k).errors = {}
  PROVE  CheckArgument(loc, x, formals, k) = Nothing
  BY Errors DEF CheckArgument

LEMMA PassArgumentReaches ==
  ASSUME NEW s \in State, NEW env, IsEnvironment(env), NEW x, NEW formals, NEW k,
         PassArgument(env, x, formals, k).errors = {}
  PROVE  /\ Known(env, x)
         /\ Hands(PassArgument(env, x, formals, k), s, Stands(env, x, s.m))
<1> DEFINE loc == Location(env, x)
           check == CheckArgument(loc, x, formals, k)
           first == ArgumentAddress(loc)
<1>1. Known(env, x)
  BY Errors DEF PassArgument
<1>2. PassArgument(env, x, formals, k) = check ++ first ++ StoreArgument
  BY <1>1 DEF PassArgument
<1>3. check.errors = {}
  <2> HIDE DEF check, first
  <2>1. (check ++ first).errors = {}
    BY <1>2, Errors
  <2> QED
    BY <2>1, Errors
<1>4. check = Nothing
  BY <1>3, CheckedIs
<1> HIDE DEF check
<1>5. Reaches(check, s, s)
  BY <1>4, ReachesEmit
<1>6. PICK v \in State : /\ Reaches(first, s, v) /\ v.m = s.m
                         /\ v.r["A"] = Stands(env, x, s.m) /\ v.r["G"] = s.r["G"]
  BY <1>1, ArgumentAddressReaches
<1>7. PICK u \in State : /\ Reaches(StoreArgument, v, u)
                         /\ u.m = [v.m EXCEPT ![v.r["G"]] = v.r["A"]]
                         /\ u.r["G"] = v.r["G"] + 1
  BY StoreArgumentReaches
<1> HIDE DEF first
<1>8. Reaches(check ++ first, s, v)
  BY <1>5, <1>6, Then
<1>9. Reaches(check ++ first ++ StoreArgument, s, u)
  BY <1>7, <1>8, Then
<1> QED
  BY <1>1, <1>2, <1>6, <1>7, <1>9 DEF Hands

\* The recursion of PassArguments: there is one function that it defines.
LEMMA PassArgumentsDef ==
  ASSUME NEW env, NEW args, NEW formals, NEW n \in Nat
  PROVE  \E f : /\ f = [k \in 0 .. n |-> IF k = 0 THEN Nothing
                                         ELSE f[k - 1] ++ PassArgument(env, args[k], formals, k)]
                /\ PassArguments(env, args, formals, n) = f[n]
<1> DEFINE P(k) == PassArgument(env, args[k], formals, k)
           Is(f, l) == f = [k \in 0 .. l |-> IF k = 0 THEN Nothing ELSE f[k - 1] ++ P(k)]
           S == { l \in Nat : \E f : Is(f, l) }
<1> HIDE DEF P
<1>1. 0 \in S
  <2> DEFINE f == [k \in 0 .. 0 |-> Nothing]
  <2>1. Is(f, 0)
    OBVIOUS
  <2> QED
    BY <2>1
<1>2. ASSUME NEW l \in Nat, l \in S PROVE l + 1 \in S
  <2>1. PICK f : Is(f, l)
    BY <1>2
  <2> DEFINE g == [k \in 0 .. l + 1 |-> IF k <= l THEN f[k] ELSE f[l] ++ P(l + 1)]
             h == [k \in 0 .. l + 1 |-> IF k = 0 THEN Nothing ELSE g[k - 1] ++ P(k)]
  <2>2. ASSUME NEW k \in 0 .. l + 1 PROVE g[k] = h[k]
    <3>1. CASE k = 0
      <4>1. f[0] = Nothing
        BY <2>1
      <4> QED
        BY <3>1, <4>1
    <3>2. CASE k \in 1 .. l
      <4>1. f[k] = f[k - 1] ++ P(k)
        BY <2>1, <3>2
      <4>2. g[k] = f[k] /\ g[k - 1] = f[k - 1] /\ k # 0
        BY <3>2
      <4> HIDE DEF g
      <4> QED
        BY <4>1, <4>2
    <3>3. CASE k = l + 1
      <4>1. g[k] = f[l] ++ P(l + 1) /\ g[k - 1] = f[l] /\ k # 0
        BY <3>3
      <4> HIDE DEF g
      <4> QED
        BY <3>3, <4>1
    <3> QED
      BY <3>1, <3>2, <3>3
  <2>3. g = h
    <3>1. DOMAIN g = DOMAIN h /\ g = [k \in DOMAIN g |-> g[k]] /\ h = [k \in DOMAIN h |-> h[k]]
          /\ DOMAIN g = 0 .. l + 1
      OBVIOUS
    <3> HIDE DEF g, h
    <3> QED
      BY <2>2, <3>1
  <2> HIDE DEF g
  <2>4. Is(g, l + 1)
    BY <2>3
  <2> QED
    BY <2>4
<1> HIDE DEF S
<1>3. n \in S
  BY <1>1, <1>2, SetInduction
<1> USE DEF S
<1> DEFINE f == CHOOSE f : Is(f, n)
<1>4. Is(f, n)
  BY <1>3
<1>5. PassArguments(env, args, formals, n) = f[n]
  BY DEF PassArguments, P
<1> HIDE DEF f
<1> QED
  BY <1>4, <1>5 DEF P

\* The memory m with the first k arguments in the cells behind the one at loc.
Handed(env, args, loc, k, m) ==
  [x \in Nat |-> IF x \in loc + 1 .. loc + k THEN Stands(env, args[x - loc], m) ELSE m[x]]

\* The cells from which the addresses are taken are not written meanwhile.
Apart(env, args, loc, n) ==
  \A i \in 1 .. n : Location(env, args[i]).is_pointer =>
                     Location(env, args[i]).address \notin loc .. loc + n

LEMMA PassArgumentsReaches ==
  ASSUME NEW env, IsEnvironment(env), NEW args, NEW formals, NEW n \in Nat,
         PassArguments(env, args, formals, n).errors = {},
         NEW loc \in Nat, NEW s \in State, s.r["G"] = loc + 1, Apart(env, args, loc, n)
  PROVE  Leaves(PassArguments(env, args, formals, n), s, Handed(env, args, loc, n, s.m))
<1> DEFINE P(k) == PassArgument(env, args[k], formals, k)
           M(k) == Handed(env, args, loc, k, s.m)
<1>1. PICK f : /\ f = [k \in 0 .. n |-> IF k = 0 THEN Nothing ELSE f[k - 1] ++ P(k)]
               /\ PassArguments(env, args, formals, n) = f[n]
  BY PassArgumentsDef, SMTT(30)
<1> DEFINE Fine(k) == \E u \in State : /\ Reaches(f[k], s, u) /\ u.m = M(k)
                                       /\ u.r["G"] = loc + 1 + k
           S == { k \in Nat : k <= n /\ f[k].errors = {} => Fine(k) }
<1>2. s.m \in [Nat -> Nat]
  BY StateIs
<1>3. f[0] = Nothing /\ \A k \in 0 .. n - 1 : f[k + 1] = f[k] ++ P(k + 1)
  <2>1. f[0] = Nothing
    BY <1>1
  <2>2. ASSUME NEW k \in 0 .. n - 1 PROVE f[k + 1] = f[k] ++ P(k + 1)
    <3>1. k + 1 \in 0 .. n /\ k + 1 # 0 /\ (k + 1) - 1 = k
      OBVIOUS
    <3> HIDE DEF P
    <3> QED
      BY <1>1, <3>1
  <2> QED
    BY <2>1, <2>2
<1>4. 0 \in S
  <2>1. M(0) = s.m
    BY <1>2 DEF Handed
  <2>2. Reaches(f[0], s, s)
    BY <1>3, ReachesEmit
  <2>3. loc + 1 + 0 = loc + 1
    OBVIOUS
  <2> HIDE DEF M
  <2>4. Fine(0)
    BY <2>1, <2>2, <2>3
  <2> QED
    BY <2>4
<1>5. ASSUME NEW k \in Nat, k \in S PROVE k + 1 \in S
  <2> SUFFICES ASSUME k + 1 <= n, f[k + 1].errors = {} PROVE Fine(k + 1)
    OBVIOUS
  <2>1. k \in 0 .. n - 1 /\ k + 1 \in 1 .. n /\ f[k + 1] = f[k] ++ P(k + 1)
    BY <1>3
  <2> DEFINE x == args[k + 1]  p == PassArgument(env, x, formals, k + 1)
  <2>2. f[k].errors = {} /\ p.errors = {}
    <3>1. f[k + 1] = f[k] ++ p
      BY <2>1
    <3> HIDE DEF p
    <3> QED
      BY <3>1, Errors
  <2>3. Fine(k)
    BY <1>5, <2>1, <2>2
  <2>4. PICK v \in State : Reaches(f[k], s, v) /\ v.m = M(k) /\ v.r["G"] = loc + 1 + k
    BY <2>3
  <2> HIDE DEF x
  <2>5. Known(env, x)
    BY <2>2, PassArgumentReaches
  <2>6. PICK u \in State : /\ Reaches(p, v, u)
                           /\ u.m = [v.m EXCEPT ![v.r["G"]] = Stands(env, x, v.m)]
                           /\ u.r["G"] = v.r["G"] + 1
    <3>1. Hands(p, v, Stands(env, x, v.m))
      BY <2>2, PassArgumentReaches
    <3> QED
      BY <3>1 DEF Hands
  <2>7. Reaches(f[k + 1], s, u)
    <3>1. f[k + 1] = f[k] ++ p
      BY <2>1 DEF x
    <3> HIDE DEF p
    <3> QED
      BY <2>4, <2>6, <3>1, Then
  <2>8. Location(env, x).address \in Nat
    BY <1>2, <2>5, LocationIs
  <2>9. Stands(env, x, v.m) = Stands(env, x, s.m)
    <3>1. CASE Location(env, x).is_pointer
      <4> DEFINE a == Location(env, x).address
      <4>1. a \notin loc .. loc + n
        BY <2>1, <3>1 DEF x, Apart
      <4>2. a \in Nat /\ a \notin loc + 1 .. loc + k
        BY <2>1, <2>8, <4>1
      <4> HIDE DEF a
      <4>3. v.m[a] = s.m[a]
        BY <2>4, <4>2 DEF Handed
      <4> QED
        BY <3>1, <4>3 DEF Stands, a
    <3>2. CASE ~Location(env, x).is_pointer
      BY <3>2 DEF Stands
    <3> QED
      BY <3>1, <3>2
  <2>10. u.m = M(k + 1)
    <3> DEFINE w == Stands(env, x, s.m)
    <3>1. u.m = [M(k) EXCEPT ![loc + 1 + k] = w]
      BY <2>4, <2>6, <2>9
    <3>2. ASSUME NEW z \in Nat
          PROVE  [M(k) EXCEPT ![loc + 1 + k] = w][z] = M(k + 1)[z]
      <4>1. CASE z = loc + 1 + k
        <5>1. z \in loc + 1 .. loc + (k + 1) /\ z - loc = k + 1
          BY <4>1
        <5>2. M(k + 1)[z] = w
          BY <5>1 DEF Handed, x
        <5>3. [M(k) EXCEPT ![loc + 1 + k] = w][z] = w
          BY <4>1 DEF Handed
        <5> QED
          BY <5>2, <5>3
      <4>2. CASE z # loc + 1 + k
        <5>1. z \in loc + 1 .. loc + (k + 1) <=> z \in loc + 1 .. loc + k
          BY <4>2
        <5>2. M(k + 1)[z] = M(k)[z]
          BY <5>1 DEF Handed
        <5>3. [M(k) EXCEPT ![loc + 1 + k] = w][z] = M(k)[z]
          BY <4>2 DEF Handed
        <5> QED
          BY <5>2, <5>3
      <4> QED
        BY <4>1, <4>2
    <3> DEFINE e == [M(k) EXCEPT ![loc + 1 + k] = w]  g == M(k + 1)
    <3>3. e = [z \in Nat |-> e[z]] /\ g = [z \in Nat |-> g[z]]
      BY DEF Handed
    <3>4. \A z \in Nat : e[z] = g[z]
      BY <3>2
    <3> HIDE DEF e, g
    <3>5. e = g
      BY <3>3, <3>4
    <3> QED
      BY <3>1, <3>5 DEF e, g
  <2>11. u.r["G"] = loc + 1 + (k + 1)
    BY <2>4, <2>6
  <2> HIDE DEF M
  <2> QED
    BY <2>7, <2>10, <2>11
<1> HIDE DEF S, Fine
<1>6. n \in S
  BY <1>4, <1>5, SetInduction
<1>7. Fine(n)
  <2>1. f[n].errors = {} /\ n <= n
    BY <1>1
  <2> QED
    BY <1>6, <2>1 DEF S
<1>8. PICK u \in State : Reaches(f[n], s, u) /\ u.m = M(n)
  BY <1>7 DEF Fine
<1> QED
  BY <1>1, <1>8 DEF Leaves

LEMMA PrologueReaches ==
  ASSUME NEW s \in State, NEW loc \in Nat
  PROVE  \E u \in State : /\ Reaches(Prologue(loc), s, u)
                          /\ u.m = [s.m EXCEPT ![loc] = s.r["H"] + 2]
<1>1. PICK s1 : Puts(Emit(<<INC("H")>>), s, s1, "H", s.r["H"] + 1)
  BY Names, Putting
<1>2. s1 \in State
  BY <1>1 DEF Puts
<1>3. PICK s2 : Puts(Emit(<<INC("H")>>), s1, s2, "H", s1.r["H"] + 1)
  BY <1>2, Names, Putting
<1>4. s2 \in State
  BY <1>3 DEF Puts
<1>5. PICK s3 : Puts(Emit(<<GET("H")>>), s2, s3, "A", s2.r["H"])
  BY <1>4, Names, Putting
<1>6. s3 \in State
  BY <1>5 DEF Puts
<1>7. PICK s4 : Puts(SetRegister("B", loc), s3, s4, "B", loc)
  BY <1>6, Names, Putting
<1>8. s4 \in State
  BY <1>7 DEF Puts
<1> DEFINE u == Poke(s4, s4.r["B"], s4.r["A"])
<1>9. s4.r["B"] \in Nat /\ s4.r["A"] \in Nat
  BY <1>8, Names, StateIs
<1>10. u \in State /\ u.m = [s4.m EXCEPT ![s4.r["B"]] = s4.r["A"]]
  BY <1>8, <1>9, PokeIs
<1>11. Reaches(Emit(<<STORE("B")>>), s4, u)
  BY <1>8, Names, ReachesSet
<1> HIDE DEF u
<1>12. Reaches(SetMemoryAt(loc), s3, u)
  BY <1>7, <1>11, Then DEF SetMemoryAt, Puts
<1> DEFINE start == Emit(<<INC("H"), INC("H"), GET("H")>>)
<1>13. start = Emit(<<INC("H")>>) ++ Emit(<<INC("H")>>) ++ Emit(<<GET("H")>>)
  BY Names, StraightIs, EmitTriple
<1>14. Reaches(Emit(<<INC("H")>>) ++ Emit(<<INC("H")>>), s, s2)
  BY <1>1, <1>3, Then DEF Puts
<1>15. Reaches(start, s, s3)
  BY <1>5, <1>13, <1>14, Then DEF Puts
<1>16. Prologue(loc) = start ++ SetMemoryAt(loc)
  BY DEF Prologue
<1> HIDE DEF start
<1>17. Reaches(Prologue(loc), s, u)
  BY <1>12, <1>15, <1>16, Then
<1>18. /\ s.r \in [Registers -> Nat] /\ s1.r \in [Registers -> Nat] /\ s2.r \in [Registers -> Nat]
       /\ s3.r \in [Registers -> Nat] /\ s4.r \in [Registers -> Nat]
  BY <1>2, <1>4, <1>6, <1>8, StateIs
<1>19. s4.r["B"] = loc /\ s4.r["A"] = s.r["H"] + 2 /\ s4.m = s.m
  <2>1. s2.r["H"] = s.r["H"] + 2
    BY <1>1, <1>3, <1>18 DEF Puts, Registers
  <2>2. s3.r["A"] = s2.r["H"]
    BY <1>5, <1>18 DEF Puts, Registers
  <2>3. s4.r["A"] = s3.r["A"] /\ s4.r["B"] = loc
    BY <1>7, <1>18 DEF Puts, Registers
  <2>4. s4.m = s.m
    BY <1>1, <1>3, <1>5, <1>7 DEF Puts
  <2> QED
    BY <2>1, <2>2, <2>3, <2>4
<1> QED
  BY <1>10, <1>17, <1>19

\* What a call consists of.
LEMMA CallIs ==
  ASSUME NEW piece, IsPiece(piece), piece.command.cmd = "call"
  PROVE  LET env == piece.env  args == piece.command.args  callee == Callee(piece)
             passing == PassArguments(env, args, callee.args, Len(args))
         IN /\ Emitted(piece) = Nothing ++ ArgumentsAt(callee) ++ passing
                                ++ Emit(<<STRK("H"), JUMP(callee.entrypoint)>>)
            /\ passing.errors = {}
            /\ IsEnvironment(env)
            /\ callee.entrypoint \in Nat /\ callee.memory_loc \in Nat /\ Len(args) \in Nat
            /\ callee.entrypoint = Behind(piece) + 2
            /\ Apart(env, args, callee.memory_loc, Len(args))
<1> DEFINE env == piece.env  c == piece.command  args == c.args  callee == env.procs[c.name]
           n == Len(args)
           bad == Fail([kind |-> "wrong number of arguments", name |-> c.name])
           first == IF n # Len(callee.args) THEN bad ELSE Nothing
           passing == PassArguments(env, args, callee.args, n)
           last == Emit(<<STRK("H"), JUMP(callee.entrypoint)>>)
<1>1. /\ Emitted(piece) = EmitCall(env, c) /\ EmitCall(env, c).errors = {}
      /\ IsEnvironment(env) /\ IsCall(env, c)
  BY SMTT(30) DEF IsPiece, IsCommand, Emitted
<1>2. c.name \in DOMAIN env.procs
  BY <1>1, Errors DEF EmitCall
<1>3. EmitCall(env, c) = first ++ ArgumentsAt(callee) ++ passing ++ last
  BY <1>2 DEF EmitCall
<1>4. first.errors = {} /\ passing.errors = {}
  <2> DEFINE second == ArgumentsAt(callee)
  <2>1. EmitCall(env, c) = first ++ second ++ passing ++ last
    BY <1>3
  <2> HIDE DEF first, second, passing, last
  <2>2. (first ++ second ++ passing).errors = {}
    BY <1>1, <2>1, Errors
  <2>3. (first ++ second).errors = {} /\ passing.errors = {}
    BY <2>2, Errors
  <2> QED
    BY <2>3, Errors
<1>5. n = Len(callee.args) /\ first = Nothing
  BY <1>4, Errors
<1>6. args \in Seq(STRING) /\ n \in Nat
  BY <1>1 DEF IsCall
<1>8. callee = Callee(piece)
  BY DEF Callee
<1>9. callee.entrypoint \in Nat /\ callee.memory_loc \in Nat
  BY <1>1, <1>2 DEF IsEnvironment
<1>10. callee.entrypoint = Behind(piece) + 2
  BY <1>1 DEF IsCall, Behind
<1>11. DOMAIN args = 1 .. n
  BY <1>6
<1>12. Apart(env, args, callee.memory_loc, Len(args))
  BY <1>1, <1>11 DEF IsCall, Apart
<1> HIDE DEF callee, n
<1>13. passing = PassArguments(env, args, callee.args, n)
  OBVIOUS
<1> HIDE DEF first, last, passing
<1>14. Emitted(piece) = Nothing ++ ArgumentsAt(callee) ++ passing ++ last
  BY <1>1, <1>3, <1>5
<1> QED
  BY <1>1, <1>4, <1>6, <1>8, <1>9, <1>10, <1>12, <1>13, <1>14 DEF last, n

\* All of a call but the jump.
Passing(env, args, callee) ==
  Nothing ++ ArgumentsAt(callee) ++ PassArguments(env, args, callee.args, Len(args))

LEMMA CallReaches ==
  ASSUME NEW env, IsEnvironment(env), NEW args, NEW callee, Len(args) \in Nat,
         callee.memory_loc \in Nat,
         PassArguments(env, args, callee.args, Len(args)).errors = {},
         Apart(env, args, callee.memory_loc, Len(args)), NEW s \in State
  PROVE  Leaves(Passing(env, args, callee), s,
                Handed(env, args, callee.memory_loc, Len(args), s.m))
<1> DEFINE n == Len(args)  loc == callee.memory_loc
           second == ArgumentsAt(callee)
           passing == PassArguments(env, args, callee.args, n)
<1>1. n \in Nat /\ loc \in Nat /\ loc + 1 \in Nat
  OBVIOUS
<1>2. PICK v : Puts(SetRegister("G", loc + 1), s, v, "G", loc + 1)
  BY <1>1, Names, Putting
<1>3. v \in State /\ v.m = s.m /\ Reaches(second, s, v)
  BY <1>2 DEF Puts, ArgumentsAt
<1>4. v.r["G"] = loc + 1
  BY <1>2, Names, StateIs DEF Puts
<1> HIDE DEF n, loc
<1>5. PICK u \in State : /\ Reaches(PassArguments(env, args, callee.args, n), v, u)
                         /\ u.m = Handed(env, args, loc, n, v.m)
  <2>1. PassArguments(env, args, callee.args, n).errors = {}
    BY DEF n
  <2>2. Apart(env, args, loc, n)
    BY DEF n, loc
  <2>3. Leaves(PassArguments(env, args, callee.args, n), v, Handed(env, args, loc, n, v.m))
    BY <1>1, <1>3, <1>4, <2>1, <2>2, PassArgumentsReaches
  <2> QED
    BY <2>3 DEF Leaves
<1>6. Reaches(Nothing, s, s)
  BY ReachesEmit
<1>7. Reaches(passing, v, u)
  BY <1>5
<1> HIDE DEF second, passing
<1>8. Reaches(Nothing ++ second, s, v)
  BY <1>3, <1>6, Then
<1>9. Reaches(Nothing ++ second ++ passing, s, u)
  BY <1>7, <1>8, Then
<1> QED
  BY <1>3, <1>5, <1>9 DEF n, loc, second, passing, Passing, Leaves

LEMMA LeadsThrough ==
  ASSUME NEW c, NEW tp, Len(c) \in Nat, NEW p \in Nat, NEW f, NEW s \in State, NEW u,
         Reaches(f, s, u), Stretch(c, p, f.lines), NEW W,
         Between(p, p + Len(f.lines), Snap(p, s, 0, <<>>)) \subseteq W
  PROVE  Leads(c, tp, W, Snap(p, s, 0, <<>>), Snap(p + Len(f.lines), u, 0, <<>>))
<1> DEFINE code == f.lines  a == Snap(p, s, 0, <<>>)  b == Snap(p + Len(code), u, 0, <<>>)
           B == Between(p, p + Len(code), a)
<1>1. code \in Seq(Straight) /\ Takes(code, s, u) /\ Stretch(c, p, code)
  BY DEF Reaches
<1> HIDE DEF code
<1>2. Leads(c, tp, B, a, b)
  BY <1>1, StartIs, LeadsStraight
<1>3. B \subseteq W
  BY DEF code
<1> HIDE DEF a, b, B
<1>4. Leads(c, tp, W, a, b)
  BY <1>2, <1>3, LeadsMore
<1> QED
  BY <1>4 DEF a, b, code

\* One instruction, from a snapshot of W with nothing read or written.
LEMMA LeadsBy ==
  ASSUME NEW c, NEW tp, Len(c) \in Nat, NEW p \in Nat, p + 1 <= Len(c), NEW s \in State,
         NEW W, Snap(p, s, 0, <<>>) \in W
  PROVE  /\ c[p + 1] = STRK("H") =>
              Leads(c, tp, W, Snap(p, s, 0, <<>>), Snap(p + 1, Set(s, "H", p), 0, <<>>))
         /\ \A q \in Nat : c[p + 1] = JUMP(q) =>
              Leads(c, tp, W, Snap(p, s, 0, <<>>), Snap(q, s, 0, <<>>))
         /\ c[p + 1] = LOAD("B") =>
              Leads(c, tp, W, Snap(p, s, 0, <<>>),
                    Snap(p + 1, Set(s, "A", s.m[s.r["B"]]), 0, <<>>))
         /\ c[p + 1] = JUMPR("A") =>
              Leads(c, tp, W, Snap(p, s, 0, <<>>), Snap(s.r["A"], s, 0, <<>>))
<1> DEFINE a == Snap(p, s, 0, <<>>)
<1>1. a.at = p /\ a.s = s /\ a.n = 0 /\ a.o = <<>> /\ a \in W /\ a \in Snapshot
  BY StartIs DEF Snap, Snapshot
<1>2. p \in 0 .. Len(c) - 1
  OBVIOUS
<1>3. \A v \in State, q \in Nat : Snap(q, v, 0, <<>>) \in Snapshot
  BY StartIs DEF Snap, Snapshot
<1>4. "A" \in Registers /\ "B" \in Registers /\ "H" \in Registers
  BY Names
<1>5. s.r["A"] \in Nat /\ s.m[s.r["B"]] \in Nat /\ Set(s, "H", p) \in State
      /\ Set(s, "A", s.m[s.r["B"]]) \in State
  BY <1>4, StateIs, SetIs
<1> HIDE DEF a
<1>6. ASSUME NEW b \in Snapshot, Ready(c, tp, a), After(c, tp, a) = b
      PROVE  Leads(c, tp, W, a, b)
  BY <1>1, <1>6, LeadsOne
<1>7. ASSUME c[p + 1] = STRK("H")
      PROVE  Leads(c, tp, W, a, Snap(p + 1, Set(s, "H", p), 0, <<>>))
  <2>1. Ready(c, tp, a)
    BY <1>1, <1>2, <1>7 DEF Ready, STRK
  <2>2. After(c, tp, a) = Snap(p + 1, Set(s, "H", p), 0, <<>>)
    BY <1>1, <1>7 DEF After, STRK, StraightOps
  <2> QED
    BY <1>3, <1>5, <1>6, <2>1, <2>2
<1>8. ASSUME NEW q \in Nat, c[p + 1] = JUMP(q)
      PROVE  Leads(c, tp, W, a, Snap(q, s, 0, <<>>))
  <2>1. Ready(c, tp, a)
    BY <1>1, <1>2, <1>8 DEF Ready, JUMP
  <2>2. After(c, tp, a) = Snap(q, s, 0, <<>>)
    BY <1>1, <1>8 DEF After, JUMP, StraightOps
  <2> QED
    BY <1>3, <1>6, <2>1, <2>2
<1>9. ASSUME c[p + 1] = LOAD("B")
      PROVE  Leads(c, tp, W, a, Snap(p + 1, Set(s, "A", s.m[s.r["B"]]), 0, <<>>))
  <2>1. Ready(c, tp, a)
    BY <1>1, <1>2, <1>9 DEF Ready, LOAD, StraightOps
  <2>2. Do(LOAD("B"), s) = Set(s, "A", s.m[s.r["B"]])
    BY <1>4, DoIs
  <2>3. Do(c[p + 1], s) = Set(s, "A", s.m[s.r["B"]])
    BY <1>9, <2>2
  <2>4. c[a.at + 1].op = "LOAD"
    BY <1>1, <1>9 DEF LOAD
  <2>5. After(c, tp, a) = Snap(a.at + 1, Do(c[a.at + 1], a.s), a.n, a.o)
    BY <2>4 DEF After, StraightOps
  <2>6. After(c, tp, a) = Snap(p + 1, Set(s, "A", s.m[s.r["B"]]), 0, <<>>)
    BY <1>1, <2>3, <2>5
  <2> QED
    BY <1>3, <1>5, <1>6, <2>1, <2>6
<1>10. ASSUME c[p + 1] = JUMPR("A")
       PROVE  Leads(c, tp, W, a, Snap(s.r["A"], s, 0, <<>>))
  <2>1. Ready(c, tp, a)
    BY <1>1, <1>2, <1>10 DEF Ready, JUMPR
  <2>2. After(c, tp, a) = Snap(s.r["A"], s, 0, <<>>)
    BY <1>1, <1>10 DEF After, JUMPR, StraightOps
  <2> QED
    BY <1>3, <1>5, <1>6, <2>1, <2>2
<1> QED
  BY <1>7, <1>8, <1>9, <1>10 DEF a

\* Where the parts of a call and of the called procedure stand, if f is what
\* precedes the jump.
LaidOut(piece, f) ==
  LET c == Listing(piece)  q == Len(f.lines)  loc == Callee(piece).memory_loc
      last == Body(piece) + Len(SetRegister("B", loc).lines)
  IN /\ Emitted(piece).lines \in Seq(Instruction)
     /\ Len(c) \in Nat /\ q \in Nat /\ Body(piece) \in Nat /\ last \in Nat
     /\ Len(Prologue(loc).lines) \in Nat
     /\ Behind(piece) = q + 2
     /\ Stretch(c, 0, f.lines)
     /\ c[q + 1] = STRK("H") /\ c[q + 2] = JUMP(q + 4) /\ q + 2 <= Len(c)
     /\ Stretch(c, q + 4, Prologue(loc).lines)
     /\ Body(piece) = q + 4 + Len(Prologue(loc).lines)
     /\ Stretch(c, Body(piece), SetRegister("B", loc).lines)
     /\ c[last + 1] = LOAD("B") /\ c[last + 2] = JUMPR("A") /\ last + 2 <= Len(c)
     /\ \A k \in {q + 2, q + 3} : k \in 0 .. Len(c) - 1 /\ c[k + 1] = HALT

LEMMA CallLaidOut ==
  ASSUME NEW piece, piece.command.cmd = "call", NEW f, f.lines \in Seq(Straight),
         Callee(piece).entrypoint \in Nat, Callee(piece).memory_loc \in Nat,
         Emitted(piece) = f ++ Emit(<<STRK("H"), JUMP(Callee(piece).entrypoint)>>),
         Callee(piece).entrypoint = Behind(piece) + 2,
         Prologue(Callee(piece).memory_loc).lines \in Seq(Straight),
         SetRegister("B", Callee(piece).memory_loc).lines \in Seq(Straight)
  PROVE  LaidOut(piece, f)
<1> DEFINE e == Callee(piece).entrypoint  loc == Callee(piece).memory_loc  c == Listing(piece)
           a == f.lines  q == Len(a)  j == <<STRK("H"), JUMP(e)>>  L == a \o j
           p == Prologue(loc).lines  d == SetRegister("B", loc).lines
           x == <<LOAD("B"), JUMPR("A")>>  E == d \o x  R == p \o E
<1>1. /\ a \in Seq(Instruction) /\ p \in Seq(Instruction) /\ d \in Seq(Instruction)
      /\ q \in Nat /\ e \in Nat
  BY StraightInstruction
<1>2. j \in Seq(Instruction) /\ Len(j) = 2 /\ j[1] = STRK("H") /\ j[2] = JUMP(e)
  <2>1. STRK("H") \in Instruction
    BY Names DEF STRK, Instruction, RegisterOps
  <2>2. JUMP(e) \in Instruction
    BY <1>1 DEF JUMP, Instruction, JumpOps
  <2> QED
    BY <2>1, <2>2
<1>3. x \in Seq(Instruction) /\ Len(x) = 2 /\ x[1] = LOAD("B") /\ x[2] = JUMPR("A")
  <2>1. LOAD("B") \in Instruction
    BY Names DEF LOAD, Instruction, RegisterOps
  <2>2. JUMPR("A") \in Instruction
    BY Names DEF JUMPR, Instruction, RegisterOps
  <2> QED
    BY <2>1, <2>2
<1>4. Emitted(piece).lines = L
  BY DEF ++, Emit
<1>5. Behind(piece) = Len(L)
  BY <1>4 DEF Behind
<1>6. c = L \o <<HALT, HALT>> \o R
  BY <1>4 DEF Listing, Epilogue, ++, Emit
<1>7. Body(piece) = e + Len(p)
  BY DEF Body
<1> HIDE DEF c, a, j, p, d, x, e, loc
<1>8. L \in Seq(Instruction) /\ IsJoin(Instruction, L, a, j)
  <2>1. IsJoin(Instruction, a \o j, a, j)
    BY <1>1, <1>2, Appended
  <2> QED
    BY <2>1 DEF IsJoin
<1>9. E \in Seq(Instruction) /\ IsJoin(Instruction, E, d, x)
  <2>1. IsJoin(Instruction, d \o x, d, x)
    BY <1>1, <1>3, Appended
  <2> QED
    BY <2>1 DEF IsJoin
<1> HIDE DEF E, q
<1>10. R \in Seq(Instruction) /\ IsJoin(Instruction, R, p, E)
  <2>1. IsJoin(Instruction, p \o E, p, E)
    BY <1>1, <1>9, Appended
  <2> QED
    BY <2>1 DEF IsJoin
<1>11. Len(L) = q + 2
  BY <1>2, <1>8 DEF IsJoin, q
<1>12. e = q + 4
  BY <1>1, <1>5, <1>11 DEF e
<1> HIDE DEF L, R
<1>13. /\ Len(c) \in Nat
       /\ Stretch(c, 0, L)
       /\ Stretch(c, Len(L) + 2, R)
       /\ \A k \in {Len(L), Len(L) + 1} : k \in 0 .. Len(c) - 1 /\ c[k + 1] = HALT
  BY <1>6, <1>8, <1>10, StretchHalts
<1>14. Stretch(c, 0, a) /\ Stretch(c, 0 + q, j)
  BY <1>1, <1>2, <1>13, StretchBoth DEF L, q
<1>15. Stretch(c, q + 4, p) /\ Stretch(c, q + 4 + Len(p), E)
  <2>1. Len(L) + 2 = q + 4 /\ q + 4 \in Nat
    BY <1>1, <1>11
  <2>2. Stretch(c, q + 4, R)
    BY <1>13, <2>1
  <2> QED
    BY <1>1, <1>9, <1>13, <2>1, <2>2, StretchBoth DEF R
<1>16. Len(p) \in Nat /\ Len(d) \in Nat /\ q + 4 + Len(p) \in Nat
  BY <1>1
<1>17. Stretch(c, q + 4 + Len(p), d) /\ Stretch(c, q + 4 + Len(p) + Len(d), x)
  BY <1>1, <1>3, <1>13, <1>15, <1>16, StretchBoth DEF E
<1>18. c[q + 1] = STRK("H") /\ c[q + 2] = JUMP(q + 4) /\ q + 2 <= Len(c)
  BY <1>1, <1>2, <1>12, <1>14 DEF Stretch
<1> DEFINE last == q + 4 + Len(p) + Len(d)
<1>19. c[last + 1] = LOAD("B") /\ c[last + 2] = JUMPR("A") /\ last + 2 <= Len(c) /\ last \in Nat
  BY <1>3, <1>16, <1>17, SMTT(30) DEF Stretch
<1>20. Body(piece) = q + 4 + Len(p)
  BY <1>7, <1>12
<1>21. \A k \in {q + 2, q + 3} : k \in 0 .. Len(c) - 1 /\ c[k + 1] = HALT
  BY <1>1, <1>11, <1>13, SMTT(30)
<1>22. /\ Emitted(piece).lines \in Seq(Instruction)
       /\ Behind(piece) = q + 2
       /\ Stretch(c, Body(piece), d)
       /\ c[Body(piece) + Len(d) + 1] = LOAD("B") /\ c[Body(piece) + Len(d) + 2] = JUMPR("A")
       /\ Body(piece) + Len(d) + 2 <= Len(c)
       /\ Body(piece) \in Nat /\ Body(piece) + Len(d) \in Nat
  BY <1>4, <1>5, <1>8, <1>11, <1>16, <1>17, <1>19, <1>20
<1> QED
  BY <1>1, <1>13, <1>14, <1>15, <1>16, <1>18, <1>20, <1>21, <1>22 DEF LaidOut, c, a, q, p, d, loc

LEMMA PassedIs ==
  ASSUME NEW piece, NEW m \in [Nat -> Nat], Callee(piece).memory_loc \in Nat
  PROVE  [Handed(piece.env, piece.command.args, Callee(piece).memory_loc,
                 Len(piece.command.args), m)
            EXCEPT ![Callee(piece).memory_loc] = Behind(piece)] = Passed(piece, m)
<1> DEFINE env == piece.env  args == piece.command.args  loc == Callee(piece).memory_loc
           n == Len(args)  h == Handed(env, args, loc, n, m)
           g == [h EXCEPT ![loc] = Behind(piece)]  p == Passed(piece, m)
<1>1. h = [x \in Nat |-> IF x \in loc + 1 .. loc + n THEN Stands(env, args[x - loc], m)
                         ELSE m[x]]
  BY DEF Handed
<1>2. p = [x \in Nat |-> IF x = loc THEN Behind(piece)
                         ELSE IF x \in loc + 1 .. loc + n THEN Stands(env, args[x - loc], m)
                         ELSE m[x]]
  BY DEF Passed
<1> HIDE DEF h, p
<1>3. DOMAIN g = Nat /\ DOMAIN p = Nat
  BY <1>1, <1>2
<1>4. \A x \in Nat : g[x] = p[x]
  BY <1>1, <1>2
<1>5. g = [x \in Nat |-> g[x]] /\ p = [x \in Nat |-> p[x]]
  BY <1>1, <1>2
<1> QED
  BY <1>3, <1>4, <1>5 DEF h, p

\* On the way of a call are the snapshots that are not at the body, and those
\* there with the arguments passed.
LEMMA OnWay ==
  ASSUME NEW piece, piece.command.cmd = "call", NEW m, Body(piece) \in Nat
  PROVE  /\ \A v \in State, k \in Nat :
              (k = Body(piece) => v.m = Passed(piece, m)) =>
                Snap(k, v, 0, <<>>) \in WayOf(piece, m)
         /\ \A i, j \in Nat : \A a :
              j <= Body(piece) => Between(i, j, a) \subseteq WayOf(piece, m)
         /\ \A v \in State : \A j \in Nat :
              v.m = Passed(piece, m) =>
                Between(Body(piece), j, Snap(Body(piece), v, 0, <<>>))
                  \subseteq WayOf(piece, m)
<1> DEFINE W == WayOf(piece, m)  k0 == Body(piece)  P == Passed(piece, m)
<1>1. W = { a \in Snapshot : a.at = k0 => a.s.m = P }
  BY DEF WayOf
<1> HIDE DEF W, k0, P
<1>2. ASSUME NEW v \in State, NEW k \in Nat, k = k0 => v.m = P
      PROVE  Snap(k, v, 0, <<>>) \in W
  BY <1>1, <1>2, StartIs DEF Snap, Snapshot
<1>3. ASSUME NEW i \in Nat, NEW j \in Nat, NEW a, j <= k0
      PROVE  Between(i, j, a) \subseteq W
  <2>1. ASSUME NEW x \in Between(i, j, a) PROVE x \in W
    <3>1. x \in Snapshot /\ x.at \in i .. j - 1
      BY DEF Between
    <3>2. x.at # k0
      BY <1>3, <3>1 DEF k0
    <3> QED
      BY <1>1, <3>1, <3>2
  <2> QED
    BY <2>1
<1>4. ASSUME NEW v \in State, NEW j \in Nat, v.m = P
      PROVE  Between(k0, j, Snap(k0, v, 0, <<>>)) \subseteq W
  <2>1. ASSUME NEW x \in Between(k0, j, Snap(k0, v, 0, <<>>)) PROVE x \in W
    <3>1. x \in Snapshot /\ (x.at = k0 => x = Snap(k0, v, 0, <<>>))
      BY DEF Between
    <3>2. Snap(k0, v, 0, <<>>).s = v
      BY DEF Snap
    <3>3. x.at = k0 => x.s.m = P
      BY <1>4, <3>1, <3>2
    <3> QED
      BY <1>1, <3>1, <3>3
  <2> QED
    BY <2>1
<1> QED
  BY <1>2, <1>3, <1>4 DEF W, k0, P

LEMMA CallArrives ==
  ASSUME NEW piece, IsPiece(piece), piece.command.cmd = "call", NEW s \in State, NEW tp
  PROVE  /\ Emitted(piece).lines \in Seq(Instruction)
         /\ Arrives(piece, s, tp)
         /\ \A k \in {Behind(piece), Behind(piece) + 1} :
              k \in 0 .. Len(Listing(piece)) - 1 /\ Listing(piece)[k + 1] = HALT
<1> DEFINE env == piece.env  args == piece.command.args  callee == Callee(piece)
           n == Len(args)  loc == callee.memory_loc
           f == Passing(env, args, callee)
           c == Listing(piece)  W == WayOf(piece, s.m)  P == Passed(piece, s.m)
           q == Len(f.lines)  k0 == Body(piece)
           d == SetRegister("B", loc)  p == Prologue(loc)  last == k0 + Len(d.lines)
           S(k, v) == Snap(k, v, 0, <<>>)
<1>1. /\ Emitted(piece) = f ++ Emit(<<STRK("H"), JUMP(callee.entrypoint)>>)
      /\ PassArguments(env, args, callee.args, n).errors = {}
      /\ IsEnvironment(env)
      /\ callee.entrypoint \in Nat /\ loc \in Nat /\ n \in Nat
      /\ callee.entrypoint = Behind(piece) + 2
      /\ Apart(env, args, loc, n)
  BY CallIs DEF Passing
<1>2. PICK u1 \in State : Reaches(f, s, u1) /\ u1.m = Handed(env, args, loc, n, s.m)
  <2>1. Leaves(Passing(env, args, callee), s, Handed(env, args, loc, n, s.m))
    <3> HIDE DEF env, args, callee
    <3> QED
      BY <1>1, CallReaches
  <2> QED
    BY <2>1 DEF Leaves
<1>3. f.lines \in Seq(Straight)
  BY <1>2 DEF Reaches
<1> HIDE DEF f
<1>4. q \in Nat
  BY <1>3
<1> DEFINE u2 == Set(u1, "H", q)
<1>5. u2 \in State /\ u2.m = u1.m /\ u2.r["H"] = q
  <2>1. "H" \in Registers /\ u2 = Set(u1, "H", q)
    BY Names
  <2> HIDE DEF q, u2
  <2> QED
    BY <1>4, <2>1, SetIs
<1> HIDE DEF u2
<1>6. PICK u3 \in State : Reaches(p, u2, u3) /\ u3.m = [u2.m EXCEPT ![loc] = u2.r["H"] + 2]
  BY <1>1, <1>5, PrologueReaches
<1>7. PICK u4 : Puts(d, u3, u4, "B", loc)
  BY <1>1, Names, Putting
<1>8. u4 \in State /\ Reaches(d, u3, u4) /\ u4.m = u3.m /\ u4.r["B"] = loc
  <2>1. u4 \in State /\ Reaches(d, u3, u4) /\ u4.m = u3.m /\ u4.r = [u3.r EXCEPT !["B"] = loc]
    BY <1>7 DEF Puts
  <2>2. u4.r["B"] = loc
    BY <2>1, Names, StateIs
  <2> QED
    BY <2>1, <2>2
<1>9. p.lines \in Seq(Straight) /\ d.lines \in Seq(Straight)
  BY <1>6, <1>8 DEF Reaches
<1>10. LaidOut(piece, f)
  BY <1>1, <1>3, <1>9, CallLaidOut
<1>11. /\ Emitted(piece).lines \in Seq(Instruction)
       /\ Len(c) \in Nat /\ k0 \in Nat /\ last \in Nat /\ Len(p.lines) \in Nat
       /\ Behind(piece) = q + 2
       /\ Stretch(c, 0, f.lines)
       /\ c[q + 1] = STRK("H") /\ c[q + 2] = JUMP(q + 4) /\ q + 2 <= Len(c)
       /\ Stretch(c, q + 4, p.lines)
       /\ k0 = q + 4 + Len(p.lines)
       /\ Stretch(c, k0, d.lines)
       /\ c[last + 1] = LOAD("B") /\ c[last + 2] = JUMPR("A") /\ last + 2 <= Len(c)
       /\ \A k \in {q + 2, q + 3} : k \in 0 .. Len(c) - 1 /\ c[k + 1] = HALT
  BY <1>10 DEF LaidOut
<1>12. u3.m = P /\ P[loc] = q + 2
  <2>1. s.m \in [Nat -> Nat]
    BY StateIs
  <2>2. [Handed(env, args, loc, n, s.m) EXCEPT ![loc] = Behind(piece)] = P
    BY <1>1, <2>1, PassedIs
  <2>3. u2.r["H"] + 2 = Behind(piece)
    BY <1>5, <1>11
  <2>4. u3.m = P
    BY <1>2, <1>5, <1>6, <2>2, <2>3
  <2>5. P[loc] = Behind(piece)
    BY <1>1 DEF Passed
  <2> QED
    BY <1>11, <2>4, <2>5
<1> DEFINE u5 == Set(u4, "A", u4.m[u4.r["B"]])
<1>13. u5 \in State /\ u5.m = P /\ u5.r["A"] = q + 2
  <2> DEFINE v == u4.m[u4.r["B"]]
  <2>1. v = q + 2
    BY <1>8, <1>12
  <2>2. v \in Nat
    BY <1>4, <2>1
  <2>3. u5 = Set(u4, "A", v) /\ "A" \in Registers
    BY Names
  <2> HIDE DEF v, u5
  <2>4. u5 \in State /\ u5.m = u4.m /\ u5.r["A"] = v
    BY <1>8, <2>2, <2>3, SetIs
  <2> QED
    BY <1>8, <1>12, <2>1, <2>4
<1>14. /\ \A v \in State, k \in Nat : (k = k0 => v.m = P) => S(k, v) \in W
       /\ \A i, j \in Nat : \A a : j <= k0 => Between(i, j, a) \subseteq W
       /\ \A v \in State : \A j \in Nat :
            v.m = P => Between(k0, j, S(k0, v)) \subseteq W
  BY <1>11, OnWay
<1> HIDE DEF c, W, P, q, k0, d, p, last, u5
<1>15. 0 + q = q /\ q + 1 \in Nat /\ q + 4 \in Nat /\ (q + 1) + 1 = q + 2
  BY <1>4
<1>16. q <= k0 /\ q # k0 /\ q + 1 # k0
  <2> DEFINE l == Len(p.lines)
  <2>1. k0 = q + 4 + l /\ l \in Nat /\ q \in Nat
    BY <1>4, <1>11
  <2> HIDE DEF l
  <2> QED
    BY <2>1
<1>17. Leads(c, tp, W, S(0, s), S(q, u1))
  <2>1. 0 + q = q /\ 0 \in Nat /\ q <= k0
    BY <1>15, <1>16
  <2>2. Between(0, 0 + q, S(0, s)) \subseteq W
    BY <1>4, <1>14, <2>1
  <2>3. Leads(c, tp, W, S(0, s), S(0 + q, u1))
    BY <1>2, <1>11, <2>1, <2>2, LeadsThrough DEF q
  <2> QED
    BY <2>1, <2>3
<1>18. Leads(c, tp, W, S(q, u1), S(q + 1, u2))
  <2>2. S(q, u1) \in W
    BY <1>2, <1>4, <1>14, <1>16
  <2>3. q + 1 <= Len(c)
    BY <1>4, <1>11
  <2> QED
    BY <1>2, <1>4, <1>11, <2>2, <2>3, LeadsBy DEF u2
<1>19. Leads(c, tp, W, S(q + 1, u2), S(q + 4, u2))
  <2>2. q + 1 \in Nat /\ q + 4 \in Nat /\ (q + 1) + 1 = q + 2 /\ q + 1 # k0
    BY <1>15, <1>16
  <2>1. S(q + 1, u2) \in W
    BY <1>5, <1>14, <2>2
  <2>3. c[(q + 1) + 1] = JUMP(q + 4) /\ (q + 1) + 1 <= Len(c)
    BY <1>11, <2>2
  <2> QED
    BY <1>5, <1>11, <2>1, <2>2, <2>3, LeadsBy
<1>20. Leads(c, tp, W, S(q + 4, u2), S(k0, u3))
  <2>1. q + 4 \in Nat
    BY <1>4
  <2>2. Between(q + 4, q + 4 + Len(p.lines), S(q + 4, u2)) \subseteq W
    BY <1>11, <1>14, <2>1, SMTT(30)
  <2> QED
    BY <1>5, <1>6, <1>11, <2>1, <2>2, LeadsThrough
<1>21. Leads(c, tp, W, S(k0, u3), S(last, u4))
  <2>1. Between(k0, k0 + Len(d.lines), S(k0, u3)) \subseteq W
    BY <1>11, <1>12, <1>14 DEF last
  <2> QED
    BY <1>8, <1>11, <2>1, LeadsThrough DEF last
<1>22. Leads(c, tp, W, S(last, u4), S(last + 1, u5))
  <2>1. S(last, u4) \in W
    BY <1>8, <1>11, <1>12, <1>14
  <2>2. last + 1 <= Len(c)
    BY <1>11
  <2> QED
    BY <1>8, <1>11, <2>1, <2>2, LeadsBy DEF u5
<1>23. Leads(c, tp, W, S(last + 1, u5), S(q + 2, u5))
  <2>1. last + 1 \in Nat /\ (last + 1) + 1 = last + 2
    BY <1>11
  <2>2. S(last + 1, u5) \in W
    BY <1>13, <1>14, <2>1
  <2>3. c[(last + 1) + 1] = JUMPR("A") /\ (last + 1) + 1 <= Len(c)
    BY <1>11, <2>1
  <2>4. Leads(c, tp, W, S(last + 1, u5), S(u5.r["A"], u5))
    BY <1>11, <1>13, <2>1, <2>2, <2>3, LeadsBy
  <2> QED
    BY <1>13, <2>4
<1> DEFINE b == S(q + 2, u5)
<1>24. b \in EndsOf(piece, s.m, tp)
  <2>1. b \in Snapshot
    BY <1>4, <1>13, StartIs DEF Snap, Snapshot
  <2>2. b.at = Behind(piece) /\ b.s.m = Passed(piece, s.m)
    BY <1>11, <1>13 DEF Snap, P
  <2> HIDE DEF b
  <2> QED
    BY <2>1, <2>2 DEF EndsOf
<1>25. Leads(c, tp, W, S(0, s), b)
  <2> HIDE DEF S, b
  <2> DEFINE To(x, y) == Leads(c, tp, W, x, y)
  <2>1. \A x, y, z : To(x, y) /\ To(y, z) => To(x, z)
    BY LeadsBoth
  <2>2. To(S(last + 1, u5), b)
    BY <1>23 DEF b
  <2>3. To(S(0, s), S(q, u1)) /\ To(S(q, u1), S(q + 1, u2)) /\ To(S(q + 1, u2), S(q + 4, u2))
        /\ To(S(q + 4, u2), S(k0, u3)) /\ To(S(k0, u3), S(last, u4))
        /\ To(S(last, u4), S(last + 1, u5))
    BY <1>17, <1>18, <1>19, <1>20, <1>21, <1>22
  <2> HIDE DEF To
  <2>4. To(S(0, s), b)
    BY <2>1, <2>2, <2>3
  <2> QED
    BY <2>4 DEF To
<1>26. Arrives(piece, s, tp)
  BY <1>24, <1>25 DEF Arrives, Start, c, W
<1>27. \A k \in {Behind(piece), Behind(piece) + 1} : k \in 0 .. Len(c) - 1 /\ c[k + 1] = HALT
  BY <1>4, <1>11
<1> QED
  BY <1>11, <1>26, <1>27 DEF c

-----------------------------------------------------------------------------
(* All pieces alike.                                                        *)

\* What stands at the two lines behind the piece.
HaltsBehind(piece) ==
  \A k \in {Behind(piece), Behind(piece) + 1} :
    k \in 0 .. Len(Listing(piece)) - 1 /\ Listing(piece)[k + 1] = HALT

LEMMA PieceArrives ==
  ASSUME NEW piece, IsPiece(piece), NEW s \in State, NEW tp \in Seq(Nat),
         piece.command.cmd = "read" => tp # <<>>
  PROVE  Arrives(piece, s, tp) /\ HaltsBehind(piece) /\ Behind(piece) \in Nat
<1>1. piece.command.cmd \in {"assign", "read", "write", "test", "call"}
  BY DEF IsPiece, IsCommand
<1>2. Emitted(piece).lines \in Seq(Instruction) /\ Arrives(piece, s, tp)
  BY <1>1, AssignArrives, ReadArrives, WriteArrives, TestArrives, CallArrives
<1>3. HaltsBehind(piece)
  <2>1. CASE piece.command.cmd = "call"
    BY <2>1, CallArrives DEF HaltsBehind
  <2>2. CASE piece.command.cmd # "call"
    BY <1>2, <2>2, ListingIs DEF HaltsBehind
  <2> QED
    BY <2>1, <2>2
<1> QED
  BY <1>2, <1>3 DEF Behind

\* A piece ends at one of the HALTs.
LEMMA EndHalts ==
  ASSUME NEW piece, IsPiece(piece), HaltsBehind(piece), Behind(piece) \in Nat,
         NEW m, NEW tp, NEW b \in EndsOf(piece, m, tp)
  PROVE  b.at \in 0 .. Len(Listing(piece)) - 1 /\ Listing(piece)[b.at + 1] = HALT
<1> DEFINE cmd == piece.command.cmd
<1>1. cmd \in {"assign", "read", "write", "test", "call"}
  BY DEF IsPiece, IsCommand
<1>2. b.at \in {Behind(piece), Behind(piece) + 1}
  <2>1. CASE cmd = "assign"
    BY <2>1 DEF EndsOf
  <2>2. CASE cmd = "read"
    BY <2>2 DEF EndsOf
  <2>3. CASE cmd = "write"
    BY <2>3 DEF EndsOf
  <2>4. CASE cmd = "test"
    BY <2>4 DEF EndsOf
  <2>5. CASE cmd = "call"
    BY <2>5 DEF EndsOf
  <2> QED
    BY <1>1, <2>1, <2>2, <2>3, <2>4, <2>5
<1> QED
  BY <1>2 DEF HaltsBehind

LEMMA AddressType ==
  ASSUME NEW piece, IsPiece(piece), piece.command.cmd \in {"assign", "read"},
         NEW m \in [Nat -> Nat]
  PROVE  AddressOf(piece.env, piece.command.to, m) \in Nat
<1> DEFINE env == piece.env  c == piece.command
           s == [r |-> [x \in Registers |-> 0], m |-> m]
<1>1. s \in State /\ s.m = m
  BY DEF State
<1> HIDE DEF s
<1>2. CASE c.cmd = "assign"
  <2>1. IsIdentifier(c.to) /\ IsServed(c.expr) /\ IsEnvironment(env)
        /\ EmitAssignment(env, c, 0).errors = {}
    BY <1>2 DEF IsPiece, IsCommand, Emitted
  <2> QED
    BY <1>1, <2>1, AssignmentReaches
<1>3. CASE c.cmd = "read"
  <2> DEFINE f == SetMemory(env, c.to)  read == Emit(<<READ>>)
  <2>1. IsIdentifier(c.to) /\ IsEnvironment(env) /\ (read ++ f).errors = {}
    BY <1>3 DEF IsPiece, IsCommand, Emitted, EmitRead
  <2>2. f.errors = {}
    <3> HIDE DEF f, read
    <3> QED
      BY <2>1, Errors
  <2> QED
    BY <1>1, <2>1, <2>2, SetMemoryReaches
<1> QED
  BY <1>2, <1>3

-----------------------------------------------------------------------------
(* The invariant: the machine heads for one of the ends of its piece, on    *)
(* the way of that piece.                                                   *)

\* A READ that has nothing to read waits.
Pending == Command.cmd = "read" /\ tape = <<>> /\ lr = 0

TemplateInv ==
  /\ TypeOK
  /\ before \in Memories[prog]
  /\ Pending \/ Heads(WayOf(Pieces[prog], Before), EndsOf(Pieces[prog], Before, tape))

LEMMA PieceIs ==
  ASSUME TypeOK, before \in Memories[prog]
  PROVE  /\ prog \in DOMAIN Pieces
         /\ IsPiece(Pieces[prog])
         /\ lines = Listing(Pieces[prog])
         /\ tape \in Seq(Nat)
         /\ DOMAIN before \subseteq Nat
         /\ Before \in [Nat -> Nat]
<1>1. prog \in DOMAIN Pieces /\ lines = Listing(Pieces[prog]) /\ tape \in Seq(Nat)
  BY ListingsAssumption DEF TypeOK
<1>2. IsPiece(Pieces[prog])
  BY <1>1, PiecesAssumption DEF IsPiece
<1>3. DOMAIN before \subseteq Nat /\ \A x \in DOMAIN before : before[x] \in Nat
  BY <1>1, MemoriesAssumption
<1>4. Before \in [Nat -> Nat]
  BY <1>3 DEF Before, Value
<1> QED
  BY <1>1, <1>2, <1>3, <1>4

LEMMA PieceRest ==
  ASSUME TypeOK, before \in Memories[prog]
  PROVE  /\ HaltsBehind(Pieces[prog]) /\ Behind(Pieces[prog]) \in Nat
         /\ \A b \in EndsOf(Pieces[prog], Before, tape) :
              b.at \in 0 .. Len(lines) - 1 /\ lines[b.at + 1] = HALT
<1> DEFINE piece == Pieces[prog]  s == [r |-> [x \in Registers |-> 0], m |-> Before]
           tp == <<0>>
<1>1. IsPiece(piece) /\ lines = Listing(piece) /\ s \in State /\ tp \in Seq(Nat) /\ tp # <<>>
  BY PieceIs DEF State
<1> HIDE DEF piece, s, tp
<1>2. HaltsBehind(piece) /\ Behind(piece) \in Nat
  BY <1>1, PieceArrives
<1>3. \A b \in EndsOf(piece, Before, tape) :
        b.at \in 0 .. Len(lines) - 1 /\ lines[b.at + 1] = HALT
  BY <1>1, <1>2, EndHalts
<1> QED
  BY <1>2, <1>3 DEF piece

LEMMA TemplateStarts == TemplateInit => TemplateInv
<1> SUFFICES ASSUME TemplateInit PROVE TemplateInv
  OBVIOUS
<1> DEFINE piece == Pieces[prog]  s == [r |-> r, m |-> Before]
<1>1. prog \in DOMAIN Pieces
  BY ListingsAssumption DEF TemplateInit
<1>2. before \in Memories[prog] /\ before = pam /\ lr = 0 /\ nread = 0 /\ out = <<>>
  BY DEF TemplateInit
<1>3. TypeOK
  <2>1. DOMAIN pam \subseteq Nat /\ pam \in [DOMAIN pam -> Nat]
    BY <1>1, <1>2, MemoriesAssumption
  <2>2. tape \in Seq(Nat) /\ r \in [Registers -> Nat]
    BY TapesAssumption, JunkAssumption DEF TemplateInit
  <2> QED
    BY <2>1, <2>2, EmptySeq DEF TypeOK, TemplateInit
<1>4. Memory = Before
  BY <1>2 DEF Memory, Before, Cell, Value
<1>5. s \in State
  BY <1>2, <1>3, PieceIs DEF State, TypeOK
<1>6. Now = Start(s)
  BY <1>2, <1>4 DEF Now, Start
<1>7. CASE Command.cmd = "read" /\ tape = <<>>
  BY <1>2, <1>3, <1>7 DEF TemplateInv, Pending
<1>8. CASE ~(Command.cmd = "read" /\ tape = <<>>)
  <2>1. IsPiece(piece) /\ lines = Listing(piece) /\ tape \in Seq(Nat) /\ s.m = Before
    BY <1>2, <1>3, PieceIs
  <2>2. piece.command.cmd = "read" => tape # <<>>
    BY <1>8 DEF Command
  <2> HIDE DEF piece, s
  <2>3. Arrives(piece, s, tape)
    BY <1>5, <2>1, <2>2, PieceArrives
  <2>4. Heads(WayOf(piece, Before), EndsOf(piece, Before, tape))
    BY <1>6, <2>1, <2>3 DEF Arrives, Heads
  <2> QED
    BY <1>2, <1>3, <2>4 DEF TemplateInv, piece
<1> QED
  BY <1>7, <1>8

\* Nothing happens while a READ waits.
LEMMA PendingWaits ==
  ASSUME TypeOK, before \in Memories[prog], Pending
  PROVE  ~Stopped /\ ~Next
<1> DEFINE piece == Pieces[prog]  s == [r |-> [x \in Registers |-> 0], m |-> Before]
           tp == <<0>>
<1>1. IsPiece(piece) /\ lines = Listing(piece) /\ s \in State /\ tp \in Seq(Nat) /\ tp # <<>>
      /\ piece.command.cmd = "read"
  BY PieceIs DEF State, Pending, Command
<1> HIDE DEF piece, s, tp
<1>2. lines[1] = READ /\ 0 \in 0 .. Len(lines) - 1
  BY <1>1, ReadArrives
<1>3. ~Error /\ Line.op = "READ"
  BY <1>2 DEF Error, Line, Pending, READ
<1>4. ~Stopped
  BY <1>3 DEF Stopped, Halted
<1>5. ~Read
  BY DEF Read, Pending, TypeOK
<1>6. ~Next
  BY <1>3, <1>5, Decoding
<1> QED
  BY <1>4, <1>6

LEMMA TemplateMoves ==
  ASSUME TemplateInv, TemplateNext
  PROVE  TemplateInv'
<1> DEFINE piece == Pieces[prog]
<1>1. TypeOK /\ before \in Memories[prog] /\ Next /\ before' = before
  BY DEF TemplateInv, TemplateNext
<1>2. prog' = prog /\ lines' = lines /\ tape' = tape
  BY <1>1, ProgramConstant
<1>3. TypeOK'
  <2>1. CASE Step
    BY <1>1, <2>1, StepType
  <2>2. CASE UNCHANGED machine
    BY <1>1, <2>2 DEF TypeOK, machine
  <2> QED
    BY <1>1, <2>1, <2>2 DEF Next, Stop
<1>4. Before' = Before
  BY <1>1 DEF Before, Value
<1> DEFINE S == WayOf(piece, Before)  E == EndsOf(piece, Before, tape)
<1>5. Heads(S, E)
  BY <1>1, PendingWaits DEF TemplateInv
<1>6. \A b \in E : b.at \in 0 .. Len(lines) - 1 /\ lines[b.at + 1] = HALT
  BY <1>1, PieceRest
<1>7. S' = S /\ E' = E
  BY <1>2, <1>4
<1> HIDE DEF S, E
<1>8. \E b \in E : Leads(lines, tape, S, Now', b)
  BY <1>1, <1>5, <1>6, HeadsOn
<1>9. Heads(S, E)'
  BY <1>2, <1>7, <1>8 DEF Heads
<1> QED
  BY <1>1, <1>2, <1>3, <1>9 DEF TemplateInv, S, E

(* At every line of a template (set_mar to emit_call) the machine, left to  *)
(* itself, comes after finitely many steps to a line where the template     *)
(* ends, with the cells and outputs that the source asks for, and past the  *)
(* beginning of a called procedure with the cells that it is to have there. *)
THEOREM TemplateInvHolds == TemplateSpec => []TemplateInv
<1>1. TemplateInv /\ [TemplateNext]_template => TemplateInv'
  <2> SUFFICES ASSUME TemplateInv, [TemplateNext]_template PROVE TemplateInv'
    OBVIOUS
  <2>1. CASE TemplateNext
    BY <2>1, TemplateMoves
  <2>2. CASE UNCHANGED template
    <3>1. UNCHANGED <<prog, lines, r, pam, lr, t, io, tape, nread, out, before>>
      BY <2>2 DEF template, machine
    <3>2. TypeOK' = TypeOK
      BY <3>1 DEF TypeOK
    <3>3. Before' = Before /\ Command' = Command
      BY <3>1 DEF Before, Value, Command
    <3>4. Memory' = Memory
      BY <3>1 DEF Memory, Cell
    <3>5. Now' = Now
      BY <3>1, <3>4 DEF Now
    <3> DEFINE S == WayOf(Pieces[prog], Before)  E == EndsOf(Pieces[prog], Before, tape)
    <3>6. S' = S /\ E' = E
      BY <3>1, <3>3
    <3> HIDE DEF S, E
    <3>7. Heads(S, E)' = Heads(S, E)
      BY <3>1, <3>5, <3>6 DEF Heads
    <3>8. Pending' = Pending
      BY <3>1, <3>3 DEF Pending
    <3> QED
      BY <3>1, <3>2, <3>7, <3>8 DEF TemplateInv, S, E
  <2> QED
    BY <2>1, <2>2
<1> QED
  BY TemplateStarts, <1>1, PTL DEF TemplateSpec

-----------------------------------------------------------------------------
(* What the invariant says of the machine at a template's end.              *)

\* The memory, a function from all addresses, and the cells of the machine.
LEMMA MemoryBecame ==
  ASSUME TypeOK, before \in Memories[prog], NEW f, DOMAIN f \subseteq Nat,
         \A x \in Nat : Memory[x] = IF x \in DOMAIN f THEN f[x] ELSE Before[x]
  PROVE  Became(f)
<1>1. DOMAIN before \subseteq Nat /\ DOMAIN pam \subseteq Nat
  BY PieceIs DEF TypeOK
<1>2. \A x \in Nat : Memory[x] = Cell(x)
  BY DEF Memory
<1> QED
  BY <1>1, <1>2 DEF Became

LEMMA StoredIs ==
  ASSUME TypeOK, before \in Memories[prog], NEW x \in Nat, NEW v,
         Memory = [Before EXCEPT ![x] = v]
  PROVE  Stored(x, v)
<1> DEFINE f == [y \in {x} |-> v]
<1>1. DOMAIN f = {x} /\ f[x] = v
  OBVIOUS
<1>2. Before \in [Nat -> Nat]
  BY PieceIs
<1>3. \A y \in Nat : Memory[y] = IF y \in DOMAIN f THEN f[y] ELSE Before[y]
  BY <1>1, <1>2
<1> HIDE DEF f
<1>4. Became(f)
  BY <1>1, <1>3, MemoryBecame
<1> QED
  BY <1>4 DEF Stored, f

LEMMA KeptIs ==
  ASSUME TypeOK, before \in Memories[prog], Memory = Before
  PROVE  Kept
<1>1. DOMAIN <<>> = {}
  OBVIOUS
<1>2. \A y \in Nat : Memory[y] = IF y \in DOMAIN <<>> THEN <<>>[y] ELSE Before[y]
  BY <1>1
<1> QED
  BY <1>1, <1>2, MemoryBecame DEF Kept

\* Where the machine is once it stopped, and what it met on its way.
LEMMA AtEnd ==
  ASSUME TemplateInv
  PROVE  /\ Stopped => Now \in EndsOf(Pieces[prog], Before, tape)
         /\ Command.cmd = "call" =>
              \/ Now \in WayOf(Pieces[prog], Before)
              \/ Now \in EndsOf(Pieces[prog], Before, tape)
<1>1. CASE Pending
  BY <1>1, PendingWaits DEF TemplateInv, Pending
<1>2. CASE Heads(WayOf(Pieces[prog], Before), EndsOf(Pieces[prog], Before, tape))
  BY <1>2, HeadsSafe
<1> QED
  BY <1>1, <1>2 DEF TemplateInv

LEMMA NowIs == Now.at = lr /\ Now.s.m = Memory /\ Now.n = nread /\ Now.o = out
BY DEF Now, Snap

LEMMA AssignsFollows == TemplateInv => AssignsResult
<1> SUFFICES ASSUME TemplateInv, Stopped PROVE AssignsResult
  BY DEF AssignsResult
<1> DEFINE piece == Pieces[prog]
<1>1. TypeOK /\ before \in Memories[prog]
  BY DEF TemplateInv
<1>2. IsPiece(piece) /\ Before \in [Nat -> Nat]
  BY <1>1, PieceIs
<1>3. Now \in EndsOf(piece, Before, tape)
  BY AtEnd
<1>4. Env = piece.env /\ Command = piece.command
  BY DEF Env, Command
<1> HIDE DEF piece
<1>5. ASSUME Command.cmd = "assign"
      PROVE  /\ lr = Behind(piece)
             /\ Stored(AddressOf(Env, Command.to, Before),
                       ExpressionOf(Env, Command.expr, Before))
  <2> DEFINE x == AddressOf(Env, Command.to, Before)  v == ExpressionOf(Env, Command.expr, Before)
  <2>1. lr = Behind(piece) /\ Memory = [Before EXCEPT ![x] = v]
    BY <1>3, <1>4, <1>5, NowIs DEF EndsOf
  <2>2. x \in Nat
    BY <1>2, <1>4, <1>5, AddressType
  <2> HIDE DEF x, v
  <2>3. Stored(x, v)
    BY <1>1, <2>1, <2>2, StoredIs
  <2> QED
    BY <2>1, <2>3 DEF x, v
<1>6. ASSUME Command.cmd = "read"
      PROVE  /\ lr = Behind(piece) /\ nread = 1
             /\ Stored(AddressOf(Env, Command.to, Before), tape[1])
  <2> DEFINE x == AddressOf(Env, Command.to, Before)  v == tape[1]
  <2>1. lr = Behind(piece) /\ nread = 1 /\ Memory = [Before EXCEPT ![x] = v]
    BY <1>3, <1>4, <1>6, NowIs DEF EndsOf
  <2>2. x \in Nat
    BY <1>2, <1>4, <1>6, AddressType
  <2> HIDE DEF x, v
  <2>3. Stored(x, v)
    BY <1>1, <2>1, <2>2, StoredIs
  <2> QED
    BY <2>1, <2>3 DEF x, v
<1> QED
  BY <1>5, <1>6 DEF AssignsResult, piece

LEMMA TellsFollows == TemplateInv => TellsValue
<1> SUFFICES ASSUME TemplateInv, Stopped PROVE TellsValue
  BY DEF TellsValue
<1> DEFINE piece == Pieces[prog]
<1>1. TypeOK /\ before \in Memories[prog]
  BY DEF TemplateInv
<1>2. Now \in EndsOf(piece, Before, tape)
  BY AtEnd
<1>3. Env = piece.env /\ Command = piece.command
  BY DEF Env, Command
<1> HIDE DEF piece
<1>4. ASSUME Command.cmd = "write"
      PROVE  /\ lr = Behind(piece) /\ Kept
             /\ out = << ValueOf(Env, Command.value, Before) >>
  <2>1. /\ lr = Behind(piece) /\ Memory = Before
        /\ out = << ValueOf(Env, Command.value, Before) >>
    BY <1>2, <1>3, <1>4, NowIs DEF EndsOf
  <2> QED
    BY <1>1, <2>1, KeptIs
<1>5. ASSUME Command.cmd = "test"
      PROVE  /\ Kept
             /\ lr = Behind(piece) + IF Compares(Env, Command.cond, Before) THEN 0 ELSE 1
  <2>1. /\ Memory = Before
        /\ lr = Behind(piece) + IF Compares(Env, Command.cond, Before) THEN 0 ELSE 1
    BY <1>2, <1>3, <1>5, NowIs DEF EndsOf
  <2> QED
    BY <1>1, <2>1, KeptIs
<1> QED
  BY <1>4, <1>5 DEF TellsValue, piece

LEMMA CallsFollows == TemplateInv => CallsReturn
<1> SUFFICES ASSUME TemplateInv, Command.cmd = "call" PROVE CallsReturn
  BY DEF CallsReturn
<1> DEFINE piece == Pieces[prog]  callee == Callee(piece)  loc == callee.memory_loc
           args == Command.args  n == Len(args)
           body == callee.entrypoint + Len(Prologue(loc).lines)
           passed == [x \in loc .. loc + n |->
                        IF x = loc THEN Behind(piece) ELSE Stands(Env, args[x - loc], Before)]
<1>1. TypeOK /\ before \in Memories[prog]
  BY DEF TemplateInv
<1>2. /\ Stopped => Now \in EndsOf(piece, Before, tape)
      /\ Now \in WayOf(piece, Before) \/ Now \in EndsOf(piece, Before, tape)
  BY AtEnd
<1>3. Env = piece.env /\ Command = piece.command
  BY DEF Env, Command
<1>4. IsPiece(piece)
  BY <1>1, PieceIs
<1> HIDE DEF piece
<1>5. loc \in Nat /\ n \in Nat
  BY <1>3, <1>4, CallIs
<1>6. Now \in EndsOf(piece, Before, tape) => lr = Behind(piece) /\ Memory = Passed(piece, Before)
  BY <1>3, NowIs DEF EndsOf
<1>7. Now \in WayOf(piece, Before) /\ lr = body => Memory = Passed(piece, Before)
  BY <1>3, NowIs DEF WayOf, Body
<1>8. ASSUME Memory = Passed(piece, Before) PROVE Became(passed)
  <2>1. DOMAIN passed = loc .. loc + n /\ loc .. loc + n \subseteq Nat
    BY <1>5
  <2>2. ASSUME NEW x \in Nat
        PROVE  Memory[x] = IF x \in DOMAIN passed THEN passed[x] ELSE Before[x]
    <3>1. Memory[x] = IF x = loc THEN Behind(piece)
                      ELSE IF x \in loc + 1 .. loc + n
                           THEN Stands(Env, args[x - loc], Before)
                      ELSE Before[x]
      BY <1>3, <1>8 DEF Passed
    <3>2. x \in loc .. loc + n <=> x = loc \/ x \in loc + 1 .. loc + n
      BY <1>5
    <3>3. x \in loc .. loc + n =>
            passed[x] = IF x = loc THEN Behind(piece) ELSE Stands(Env, args[x - loc], Before)
      OBVIOUS
    <3> HIDE DEF passed, loc, n
    <3> QED
      BY <2>1, <3>1, <3>2, <3>3
  <2> HIDE DEF passed
  <2> QED
    BY <1>1, <2>1, <2>2, MemoryBecame
<1>9. /\ lr = body \/ Stopped => Became(passed)
      /\ Stopped => lr = Behind(piece)
  BY <1>2, <1>6, <1>7, <1>8
<1> QED
  BY <1>9 DEF CallsReturn, piece

(* Behind a READ or an assignment without a loop, the machine has stored    *)
(* the input or the value of the expression in the cell that the target     *)
(* named before, and no other cell has changed: for every environment,      *)
(* every scalar and element, direct or passed by reference, every number,   *)
(* and whatever the registers and the cells hold (set_mar, set_register,    *)
(* set_accumulator, emit_assignment, emit_read).                            *)
THEOREM AssignmentsComputed == TemplateSpec => []AssignsResult
BY TemplateInvHolds, AssignsFollows, PTL

(* A WRITE outputs the value of its operand, and the code of a condition    *)
(* goes to the line for its being true exactly if it is, for all operands   *)
(* and all six comparisons; no cell changes (emit_write, emit_condition,    *)
(* set_jump_location).                                                      *)
THEOREM ValuesTold == TemplateSpec => []TellsValue
BY TemplateInvHolds, TellsFollows, PTL

(* A call hands the addresses of any number of arguments and the line to    *)
(* return to, and comes back there, if no cell of the callee holds an       *)
(* argument of the caller (emit_call, the prologue and the end of           *)
(* emit_procedure).                                                         *)
THEOREM CallsComeBack == TemplateSpec => []CallsReturn
BY TemplateInvHolds, CallsFollows, PTL
=============================================================================
