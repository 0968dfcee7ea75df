---------------------------- MODULE PRServProofs ----------------------------
(***************************************************************************)
(* OneOutputPerValue, HistoryStable and NeverDecremented of a server       *)
(* without an upstream server, for all tables of single numbers, and       *)
(* FreshIsNew of one whose upstream server has none itself, for any number *)
(* of clients, outputs and requests.                                       *)
(*                                                                         *)
(* The first half is about the queries of prserv/db.py.  They go through   *)
(* the rows in the order of the index, which compares values as strings,   *)
(* and keep the greatest or least one: that this is the greatest or least  *)
(* of all, in whatever order the rows come, is proved once for folds over  *)
(* finite sets, by induction over the number of rows (Parts), and needs    *)
(* that the order of the index is one (TextTotal, HasLast), and that the   *)
(* values compare as numbers at one place (MaxAt): those of one number at  *)
(* the first, those below the same number at the second.                   *)
(*                                                                         *)
(* The second half are the invariants: of a server on its own, that an     *)
(* answer with history is the least value of its output, and new values    *)
(* only ever come above all others; of one with an upstream server, how    *)
(* deep the values in both tables and in the handlers' hands are.          *)
(***************************************************************************)
EXTENDS PRServ, FiniteSetTheorems, SequenceTheorems, WellFoundedInduction, TLAPS

-----------------------------------------------------------------------------
(* Folds over finite sets *)

\* A set of numbers has a least one: they are well-founded.
LEMMA Least ==
    ASSUME NEW T \in SUBSET Nat, T # {}
    PROVE  \E m \in T : \A k \in T : m <= k
<1>1. IsWellFoundedOn(OpToRel(<, Nat), Nat)
  BY NatLessThanWellFounded
<1>2. PICK m \in T : \A k \in T : ~ (<<k, m>> \in OpToRel(<, Nat))
  BY <1>1, WFMin
<1>3. \A k \in T : ~ (k < m)
  BY <1>2 DEF OpToRel
<1> QED BY <1>3

\* Induction over a set of numbers.
LEMMA Induction ==
    ASSUME NEW T, 0 \in T, \A n \in Nat : n \in T => n + 1 \in T
    PROVE  Nat \subseteq T
<1> DEFINE U == {n \in Nat : n \notin T}
<1> SUFFICES ASSUME U # {} PROVE FALSE
  OBVIOUS
<1>1. PICK m \in U : \A k \in U : m <= k
  BY Least
<1> HIDE DEF U
<1>2. m \in Nat /\ m \notin T /\ m # 0
  BY <1>1 DEF U
<1>3. m - 1 \in Nat /\ m - 1 \notin U /\ (m - 1) + 1 = m
  BY <1>1, <1>2
<1>4. m - 1 \in T
  BY <1>3 DEF U
<1> QED BY <1>2, <1>3, <1>4

\* ch picks an element of each part of S that has one.
Picks(S, ch) == \A s \in SUBSET S : s # {} => ch[s] \in s

\* f folds the parts of S, as MapThenFoldSet does.
IsFold(S, base, ch, step, f) ==
    f = [s \in SUBSET S |->
            IF s = {} THEN base ELSE step[ch[s]][f[s \ {ch[s]}]]]

\* A part of a finite set is smaller without one of its elements.
LEMMA OneLess ==
    ASSUME NEW S, IsFiniteSet(S), NEW s \in SUBSET S
    PROVE  /\ Cardinality(s) \in Nat /\ (Cardinality(s) = 0 <=> s = {})
           /\ \A x \in s : Cardinality(s \ {x}) + 1 = Cardinality(s)
                           /\ Cardinality(s \ {x}) \in Nat
<1>1. IsFiniteSet(s)
  BY FS_Subset
<1>2. Cardinality(s) \in Nat
  BY <1>1, FS_CardinalityType
<1>3. Cardinality(s) = 0 <=> s = {}
  BY <1>1, FS_EmptySet
<1>4. ASSUME NEW x \in s
      PROVE  Cardinality(s \ {x}) + 1 = Cardinality(s) /\ Cardinality(s \ {x}) \in Nat
  <2>1. IsFiniteSet(s \ {x}) /\ Cardinality(s \ {x}) = Cardinality(s) - 1
    BY <1>1, FS_RemoveElement
  <2>2. Cardinality(s \ {x}) \in Nat
    BY <2>1, FS_CardinalityType
  <2> QED BY <1>2, <2>1, <2>2
<1> QED BY <1>2, <1>3, <1>4

\* Such a fold exists, whatever is folded.
LEMMA Folded ==
    ASSUME NEW S, IsFiniteSet(S), NEW base, NEW ch, NEW step, Picks(S, ch)
    PROVE  \E f : IsFold(S, base, ch, step, f)
<1> DEFINE G(f, s) == IF s = {} THEN base ELSE step[ch[s]][f[s \ {ch[s]}]]
           Upto(n, f) == \A s \in SUBSET S : Cardinality(s) <= n => f[s] = G(f, s)
           T == {n \in Nat : \E f : f = [s \in SUBSET S |-> f[s]] /\ Upto(n, f)}
<1>1. 0 \in T
  <2> DEFINE f == [s \in SUBSET S |-> base]
  <2>1. f = [s \in SUBSET S |-> f[s]]
    OBVIOUS
  <2>2. Upto(0, f)
    <3> SUFFICES ASSUME NEW s \in SUBSET S, Cardinality(s) <= 0 PROVE f[s] = G(f, s)
      OBVIOUS
    <3>1. s = {}
      BY OneLess
    <3> QED BY <3>1
  <2> QED BY <2>1, <2>2
<1>2. ASSUME NEW n \in Nat, n \in T PROVE n + 1 \in T
  <2>1. PICK f : f = [s \in SUBSET S |-> f[s]] /\ Upto(n, f)
    BY <1>2
  <2> DEFINE g == [s \in SUBSET S |-> G(f, s)]
  <2>2. g = [s \in SUBSET S |-> g[s]]
    OBVIOUS
  <2>3. Upto(n + 1, g)
    <3> SUFFICES ASSUME NEW s \in SUBSET S, Cardinality(s) <= n + 1 PROVE g[s] = G(g, s)
      OBVIOUS
    <3>1. CASE s = {}
      BY <3>1
    <3>2. CASE s # {}
      <4>1. ch[s] \in s /\ s \ {ch[s]} \in SUBSET S
        BY <3>2 DEF Picks
      <4>2. Cardinality(s \ {ch[s]}) <= n
        BY <4>1, OneLess
      <4>3. f[s \ {ch[s]}] = G(f, s \ {ch[s]})
        BY <2>1, <4>1, <4>2
      <4>4. g[s \ {ch[s]}] = f[s \ {ch[s]}]
        BY <4>1, <4>3
      <4> QED BY <3>2, <4>4
    <3> QED BY <3>1, <3>2
  <2> HIDE DEF g, G, Upto
  <2> QED BY <2>2, <2>3
<1> HIDE DEF T
<1>3. Cardinality(S) \in T
  BY <1>1, <1>2, Induction, FS_CardinalityType
<1>4. PICK f : f = [s \in SUBSET S |-> f[s]] /\ Upto(Cardinality(S), f)
  BY <1>3 DEF T
<1>5. \A s \in SUBSET S : f[s] = G(f, s)
  BY <1>4, FS_Subset
<1>6. f = [s \in SUBSET S |-> G(f, s)]
  BY <1>4, <1>5
<1> QED BY <1>6 DEF IsFold

\* What holds for nothing, and for a part if it does without what is picked
\* from it, holds for all parts.
LEMMA Parts ==
    ASSUME NEW S, IsFiniteSet(S), NEW ch, Picks(S, ch), NEW P, {} \in P,
           \A s \in SUBSET S : s # {} /\ s \ {ch[s]} \in P => s \in P
    PROVE  \A s \in SUBSET S : s \in P
<1> DEFINE T == {n \in Nat : \A s \in SUBSET S : Cardinality(s) = n => s \in P}
<1>1. 0 \in T
  <2>1. \A s \in SUBSET S : Cardinality(s) = 0 => s = {}
    BY OneLess
  <2> QED BY <2>1
<1>2. ASSUME NEW n \in Nat, n \in T PROVE n + 1 \in T
  <2> SUFFICES ASSUME NEW s \in SUBSET S, Cardinality(s) = n + 1 PROVE s \in P
    OBVIOUS
  <2>1. s # {} /\ ch[s] \in s /\ s \ {ch[s]} \in SUBSET S
    BY OneLess DEF Picks
  <2>2. Cardinality(s \ {ch[s]}) = n
    BY <2>1, OneLess
  <2>3. s \ {ch[s]} \in P
    BY <1>2, <2>1, <2>2
  <2> QED BY <2>1, <2>3
<1> HIDE DEF T
<1>3. Nat \subseteq T
  BY <1>1, <1>2, Induction
<1> QED BY <1>3, OneLess DEF T

-----------------------------------------------------------------------------
(* The order of the rows *)

\* A row of a server on its own: its value is one number.
Plain(r) == \E c, n \in Nat : r = Row(c, <<n>>)
AllPlain(S) == \A r \in S : Plain(r)

\* Where two sequences differ first decides their order.
LEMMA LowerAt ==
    ASSUME NEW a, NEW b, NEW k \in Nat, k \in Differ(a, b), Differ(a, b) \subseteq Nat,
           \A i \in Differ(a, b) : k <= i
    PROVE  Lower(a, b) <=> a[k] < b[k]
<1>1. Min(Differ(a, b)) = k
  <2>1. \A x \in Differ(a, b) : (\A y \in Differ(a, b) : x <= y) => x = k
    OBVIOUS
  <2> QED BY <2>1 DEF Min
<1> QED BY <1>1 DEF Lower

\* Where the text of a number comes among those of all numbers.
Key(n) == IF n < 10 THEN 11 * n ELSE 11 * (n \div 10) + (n % 10) + 1

\* The two halves of a number as Digits has it.
LEMMA Decimal ==
    ASSUME NEW n \in Nat
    PROVE  /\ n \div 10 \in Nat /\ n % 10 \in 0..9 /\ n = 10 * (n \div 10) + (n % 10)
           /\ Key(n) \in Nat
<1>1. n \div 10 \in Nat /\ n % 10 \in 0..9 /\ n = 10 * (n \div 10) + (n % 10)
  OBVIOUS
<1> QED BY <1>1 DEF Key

\* The text of a plain value.
LEMMA TextOf ==
    ASSUME NEW n
    PROVE  Text(<<n>>) = <<-1>> \o Digits(n)
<1> DEFINE v == <<n>>
           Add(t, k) == t \o <<-1>> \o Digits(k)
           One(f) == f = [s \in SUBSET {1} |->
                            IF s = {} THEN <<>> ELSE Add(f[s \ {Max(s)}], v[Max(s)])]
           h == [s \in SUBSET {1} |-> IF s = {} THEN <<>> ELSE Add(<<>>, n)]
<1>1. DOMAIN v = {1} /\ v[1] = n
  OBVIOUS
<1>2. Max({1}) = 1
  BY DEF Max
<1>3. Text(v) = (CHOOSE f : One(f))[{1}]
  BY <1>1 DEF Text, FoldLeft, MapThenFoldSet
<1>4. Add(<<>>, n) = <<-1>> \o Digits(n)
  BY DEF Digits
<1> HIDE DEF Add, v
<1>5. \A s \in SUBSET {1} : s = {} \/ s = {1}
  OBVIOUS
<1>6. h[{}] = <<>> /\ h[{1}] = Add(<<>>, n)
  OBVIOUS
<1>7. {1} \ {Max({1})} = {} /\ v[Max({1})] = n
  BY <1>1, <1>2
<1>8. \A s \in SUBSET {1} :
         h[s] = IF s = {} THEN <<>> ELSE Add(h[s \ {Max(s)}], v[Max(s)])
  BY <1>5, <1>6, <1>7
<1>9. One(h)
  BY <1>8
<1>10. ASSUME NEW f, One(f) PROVE f[{1}] = Add(<<>>, n)
  <2>1. f[{}] = <<>>
    BY <1>10
  <2>2. f[{1}] = Add(f[{1} \ {Max({1})}], v[Max({1})])
    BY <1>10
  <2> QED BY <2>1, <2>2, <1>7
<1> HIDE DEF One, h
<1> QED BY <1>3, <1>4, <1>9, <1>10 DEF v

\* The text of a plain value, item by item.
HasText(n, t) ==
    /\ t[1] = -1
    /\ DOMAIN t = (IF n < 10 THEN {1, 2} ELSE {1, 2, 3})
    /\ Len(t) = (IF n < 10 THEN 2 ELSE 3)
    /\ t[2] = (IF n < 10 THEN n ELSE n \div 10)
    /\ n >= 10 => t[3] = n % 10

LEMMA Texts ==
    ASSUME NEW n \in Nat
    PROVE  HasText(n, Text(<<n>>))
<1>1. <<-1>> \in Seq(Int) /\ Len(<<-1>>) = 1 /\ <<-1>>[1] = -1
  OBVIOUS
<1>2. CASE n < 10
  <2>1. Text(<<n>>) = <<-1>> \o <<n>>
    BY <1>2, TextOf DEF Digits
  <2>2. <<n>> \in Seq(Int) /\ Len(<<n>>) = 1
    OBVIOUS
  <2>3. /\ <<-1>> \o <<n>> \in Seq(Int) /\ Len(<<-1>> \o <<n>>) = 2
        /\ (<<-1>> \o <<n>>)[1] = -1 /\ (<<-1>> \o <<n>>)[2] = n
    BY <1>1, <2>2
  <2>4. DOMAIN (<<-1>> \o <<n>>) = {1, 2}
    BY <2>3
  <2> QED BY <1>2, <2>1, <2>3, <2>4 DEF HasText
<1>3. CASE n >= 10
  <2>1. PICK d \in Nat, e \in 0..9 : d = n \div 10 /\ e = n % 10
    BY Decimal
  <2>2. Text(<<n>>) = <<-1>> \o <<d, e>>
    <3>1. Digits(n) = <<d, e>>
      BY <1>3, <2>1 DEF Digits
    <3> QED BY <3>1, TextOf, Zenon
  <2>3. <<d, e>> \in Seq(Int) /\ Len(<<d, e>>) = 2
    OBVIOUS
  <2>4. /\ <<-1>> \o <<d, e>> \in Seq(Int) /\ Len(<<-1>> \o <<d, e>>) = 3
        /\ (<<-1>> \o <<d, e>>)[1] = -1 /\ (<<-1>> \o <<d, e>>)[2] = d
        /\ (<<-1>> \o <<d, e>>)[3] = e
    BY <1>1, <2>3
  <2>5. DOMAIN (<<-1>> \o <<d, e>>) = {1, 2, 3}
    BY <2>4
  <2>6. ASSUME NEW t, t = <<-1>> \o <<d, e>> PROVE HasText(n, t)
    BY <1>3, <2>1, <2>4, <2>5, <2>6 DEF HasText
  <2> QED BY <2>2, <2>6
<1> QED BY <1>2, <1>3

\* The order of the texts is that of the keys.
LEMMA TextOrder ==
    ASSUME NEW m \in Nat, NEW n \in Nat
    PROVE  TextGreater(<<m>>, <<n>>) <=> Key(n) < Key(m)
<1>1. PICK d \in Nat, e \in 0..9 : d = m \div 10 /\ e = m % 10 /\ m = 10 * d + e
  BY Decimal
<1>2. PICK f \in Nat, g \in 0..9 : f = n \div 10 /\ g = n % 10 /\ n = 10 * f + g
  BY Decimal
<1>3. /\ Key(m) = IF m < 10 THEN 11 * m ELSE 11 * d + e + 1
      /\ Key(n) = IF n < 10 THEN 11 * n ELSE 11 * f + g + 1
  BY <1>1, <1>2 DEF Key
<1> DEFINE a == Text(<<n>>)
           b == Text(<<m>>)
           D == Differ(a, b)
<1>4. HasText(n, a) /\ HasText(m, b)
  BY Texts
<1>5. TextGreater(<<m>>, <<n>>) <=> Lower(a, b)
  BY DEF TextGreater
<1> HIDE DEF a, b
<1>6. D = {i \in DOMAIN a \cap DOMAIN b : a[i] # b[i]}
  BY DEF Differ
<1>7. /\ D \subseteq {2, 3} /\ (2 \in D <=> a[2] # b[2])
      /\ (3 \in D <=> m >= 10 /\ n >= 10 /\ a[3] # b[3])
  <2>1. CASE m < 10 \/ n < 10
    BY <1>4, <1>6, <2>1 DEF HasText
  <2>2. CASE m >= 10 /\ n >= 10
    BY <1>4, <1>6, <2>2 DEF HasText
  <2> QED BY <2>1, <2>2
<1>8. a[2] = (IF n < 10 THEN n ELSE f) /\ b[2] = (IF m < 10 THEN m ELSE d)
  BY <1>1, <1>2, <1>4 DEF HasText
<1>9. m >= 10 /\ n >= 10 => a[3] = g /\ b[3] = e
  BY <1>1, <1>2, <1>4 DEF HasText
<1>10. Len(a) = (IF n < 10 THEN 2 ELSE 3) /\ Len(b) = (IF m < 10 THEN 2 ELSE 3)
  BY <1>4 DEF HasText
<1> HIDE DEF D
<1>11. CASE 2 \in D
  <2>1. Lower(a, b) <=> a[2] < b[2]
    BY <1>7, <1>11, LowerAt DEF D
  <2> QED BY <1>1, <1>2, <1>3, <1>5, <1>7, <1>8, <1>11, <2>1
<1>12. CASE 2 \notin D /\ 3 \in D
  <2>1. Lower(a, b) <=> a[3] < b[3]
    BY <1>7, <1>12, LowerAt DEF D
  <2> QED BY <1>1, <1>2, <1>3, <1>5, <1>7, <1>8, <1>9, <1>12, <2>1
<1>13. CASE D = {}
  <2>1. Lower(a, b) <=> Len(a) < Len(b)
    BY <1>13 DEF Lower, D
  <2> QED BY <1>1, <1>2, <1>3, <1>5, <1>7, <1>8, <1>9, <1>10, <1>13, <2>1
<1> QED BY <1>7, <1>11, <1>12, <1>13

\* A value of one or two numbers: those of a server whose upstream server has
\* none itself.
One(v) == \E n \in Nat : v = <<n>>
Two(v) == \E m, n \in Nat : v = <<m, n>>
Shallow(v) == One(v) \/ Two(v)

AllShallow(S) == \A r \in S : \E c \in Nat : \E v : Shallow(v) /\ r = Row(c, v)

\* What AllShallow says of a row.
LEMMA ShallowRows ==
    ASSUME NEW S, AllShallow(S), NEW r \in S
    PROVE  /\ r.checksum \in Nat /\ Shallow(r.value) /\ r = Row(r.checksum, r.value)
           /\ r.value # None
<1>1. PICK c \in Nat : \E v : Shallow(v) /\ r = Row(c, v)
  BY DEF AllShallow
<1>2. PICK v : Shallow(v) /\ r = Row(c, v)
  BY <1>1
<1>3. r.checksum = c /\ r.value = v
  BY <1>2 DEF Row
<1>4. v # None
  BY <1>2 DEF Shallow, One, Two, None
<1> QED BY <1>2, <1>3, <1>4

\* A server on its own has such rows.
LEMMA PlainShallow == \A S : AllPlain(S) => AllShallow(S)
BY DEF AllPlain, Plain, AllShallow, Shallow, One

\* The text of a value of two numbers.
LEMMA TextOfTwo ==
    ASSUME NEW m, NEW n
    PROVE  Text(<<m, n>>) = (<<-1>> \o Digits(m)) \o <<-1>> \o Digits(n)
<1> DEFINE v == <<m, n>>
           Add(t, k) == t \o <<-1>> \o Digits(k)
           Both(f) == f = [s \in SUBSET {1, 2} |->
                            IF s = {} THEN <<>> ELSE Add(f[s \ {Max(s)}], v[Max(s)])]
           one == Add(<<>>, m)
           two == Add(one, n)
           h == [s \in SUBSET {1, 2} |->
                    IF s = {} THEN <<>> ELSE IF s = {1} THEN one
                    ELSE IF s = {2} THEN Add(<<>>, n) ELSE two]
<1>1. DOMAIN v = {1, 2} /\ v[1] = m /\ v[2] = n
  OBVIOUS
<1>2. Max({1}) = 1 /\ Max({2}) = 2 /\ Max({1, 2}) = 2
  BY DEF Max
<1>3. Text(v) = (CHOOSE f : Both(f))[{1, 2}]
  BY <1>1 DEF Text, FoldLeft, MapThenFoldSet
<1>4. one = <<-1>> \o Digits(m)
  BY DEF Digits
<1>5. \A s \in SUBSET {1, 2} : s = {} \/ s = {1} \/ s = {2} \/ s = {1, 2}
  OBVIOUS
<1>6. {1} \ {1} = {} /\ {2} \ {2} = {} /\ {1, 2} \ {2} = {1}
  OBVIOUS
<1>7. {1} # {} /\ {2} # {} /\ {2} # {1} /\ {1, 2} # {} /\ {1, 2} # {1} /\ {1, 2} # {2}
  OBVIOUS
<1> HIDE DEF Add, v, one, two
<1>8. h[{}] = <<>> /\ h[{1}] = one /\ h[{2}] = Add(<<>>, n) /\ h[{1, 2}] = two
  BY <1>7
<1>9. ASSUME NEW s \in SUBSET {1, 2}
      PROVE  h[s] = IF s = {} THEN <<>> ELSE Add(h[s \ {Max(s)}], v[Max(s)])
  <2> HIDE DEF h
  <2>1. CASE s = {}
    BY <1>8, <2>1
  <2>2. CASE s = {1}
    BY <1>1, <1>2, <1>6, <1>7, <1>8, <2>2 DEF one
  <2>3. CASE s = {2}
    BY <1>1, <1>2, <1>6, <1>7, <1>8, <2>3
  <2>4. CASE s = {1, 2}
    BY <1>1, <1>2, <1>6, <1>7, <1>8, <2>4 DEF two
  <2> QED BY <1>5, <2>1, <2>2, <2>3, <2>4
<1>10. Both(h)
  BY <1>9
<1>11. ASSUME NEW f, Both(f) PROVE f[{1, 2}] = two
  <2>1. f[{}] = <<>>
    BY <1>11
  <2>2. f[{1}] = Add(f[{1} \ {Max({1})}], v[Max({1})])
    BY <1>7, <1>11
  <2>3. f[{1, 2}] = Add(f[{1, 2} \ {Max({1, 2})}], v[Max({1, 2})])
    BY <1>7, <1>11
  <2>4. f[{1}] = one
    BY <1>1, <1>2, <1>6, <2>1, <2>2 DEF one
  <2> QED BY <1>1, <1>2, <1>6, <2>3, <2>4 DEF two
<1> HIDE DEF Both, h
<1>12. Text(v) = two
  BY <1>3, <1>10, <1>11
<1> QED BY <1>4, <1>12 DEF v, two, Add

\* Where two sequences of numbers first differ, or that one extends the other,
\* decides their order.
Lex(a, b) ==
    \/ \E k \in DOMAIN a \cap DOMAIN b :
          a[k] < b[k] /\ \A i \in 1..(k - 1) : a[i] = b[i]
    \/ Len(a) < Len(b) /\ \A i \in 1..Len(a) : a[i] = b[i]

\* That is the order of the values, and of their texts.
LEMMA LowerIs ==
    ASSUME NEW a \in Seq(Int), NEW b \in Seq(Int)
    PROVE  Lower(a, b) <=> Lex(a, b)
<1> DEFINE D == Differ(a, b)
<1>1. /\ DOMAIN a = 1..Len(a) /\ DOMAIN b = 1..Len(b) /\ Len(a) \in Nat /\ Len(b) \in Nat
      /\ (\A i \in 1..Len(a) : a[i] \in Int) /\ \A i \in 1..Len(b) : b[i] \in Int
  OBVIOUS
<1>2. D = {i \in 1..Len(a) \cap 1..Len(b) : a[i] # b[i]} /\ D \in SUBSET Nat
  BY <1>1 DEF Differ
<1> HIDE DEF D
<1>3. CASE D = {}
  <2>1. Lower(a, b) <=> Len(a) < Len(b)
    BY <1>3 DEF Lower, D
  <2>2. \A i \in 1..Len(a) \cap 1..Len(b) : a[i] = b[i]
    BY <1>2, <1>3
  <2> QED BY <1>1, <2>1, <2>2 DEF Lex
<1>4. CASE D # {}
  <2>1. PICK k \in D : \A i \in D : k <= i
    BY <1>2, <1>4, Least
  <2>2. Lower(a, b) <=> a[k] < b[k]
    BY <1>2, <2>1, LowerAt DEF D
  <2>3. k \in 1..Len(a) /\ k \in 1..Len(b) /\ a[k] # b[k]
    BY <1>2, <2>1
  <2>4. \A i \in 1..(k - 1) : a[i] = b[i]
    BY <1>1, <1>2, <2>1, <2>3
  <2>5. a[k] < b[k] => Lex(a, b)
    BY <1>1, <2>3, <2>4 DEF Lex
  <2>6. ASSUME Lex(a, b) PROVE a[k] < b[k]
    <3>1. ~ \A i \in 1..Len(a) : a[i] = b[i]
      BY <2>3
    <3>2. PICK l \in DOMAIN a \cap DOMAIN b :
             a[l] < b[l] /\ \A i \in 1..(l - 1) : a[i] = b[i]
      BY <2>6, <3>1 DEF Lex
    <3>3. l \in 1..Len(a) /\ l \in 1..Len(b) /\ a[l] # b[l]
      BY <1>1, <3>2
    <3>4. ~(k < l) /\ ~(l < k)
      <4>1. k \in Nat /\ l \in Nat /\ 1 <= k /\ 1 <= l
        BY <1>1, <2>3, <3>3
      <4>2. k < l => k \in 1..(l - 1)
        BY <4>1
      <4>3. l < k => l \in 1..(k - 1)
        BY <4>1
      <4> QED BY <2>3, <2>4, <3>2, <3>3, <4>2, <4>3
    <3>5. k = l
      BY <1>1, <2>3, <3>3, <3>4
    <3> QED BY <3>2, <3>5
  <2> QED BY <2>2, <2>5, <2>6
<1> QED BY <1>3, <1>4

\* This is a strict order, in which any two sequences compare.
LEMMA LexOrder ==
    ASSUME NEW a \in Seq(Int), NEW b \in Seq(Int), NEW c \in Seq(Int)
    PROVE  /\ Lex(a, b) /\ Lex(b, c) => Lex(a, c)
           /\ a # b => Lex(a, b) \/ Lex(b, a)
<1>1. /\ DOMAIN a = 1..Len(a) /\ DOMAIN b = 1..Len(b) /\ DOMAIN c = 1..Len(c)
      /\ Len(a) \in Nat /\ Len(b) \in Nat /\ Len(c) \in Nat
      /\ \A i \in 1..Len(a) : a[i] \in Int
      /\ \A i \in 1..Len(b) : b[i] \in Int
      /\ \A i \in 1..Len(c) : c[i] \in Int
  OBVIOUS
<1>2. ASSUME Lex(a, b), Lex(b, c) PROVE Lex(a, c)
  <2>1. CASE Len(a) < Len(b) /\ \A i \in 1..Len(a) : a[i] = b[i]
    <3>1. CASE Len(b) < Len(c) /\ \A i \in 1..Len(b) : b[i] = c[i]
      BY <1>1, <2>1, <3>1 DEF Lex
    <3>2. ASSUME NEW k \in 1..Len(b) \cap 1..Len(c), b[k] < c[k],
                 \A i \in 1..(k - 1) : b[i] = c[i]
          PROVE  Lex(a, c)
      <4>1. CASE k <= Len(a)
        <5>1. k \in 1..Len(a) \cap 1..Len(c) /\ a[k] < c[k]
          BY <1>1, <2>1, <3>2, <4>1
        <5>2. \A i \in 1..(k - 1) : a[i] = c[i]
          BY <1>1, <2>1, <3>2, <4>1
        <5> QED BY <1>1, <5>1, <5>2 DEF Lex
      <4>2. CASE Len(a) < k
        <5>1. Len(a) < Len(c) /\ \A i \in 1..Len(a) : a[i] = c[i]
          BY <1>1, <2>1, <3>2, <4>2
        <5> QED BY <5>1 DEF Lex
      <4> QED BY <1>1, <4>1, <4>2
    <3> QED BY <1>1, <1>2, <3>1, <3>2 DEF Lex
  <2>2. ASSUME NEW k \in 1..Len(a) \cap 1..Len(b), a[k] < b[k],
               \A i \in 1..(k - 1) : a[i] = b[i]
        PROVE  Lex(a, c)
    <3>1. CASE Len(b) < Len(c) /\ \A i \in 1..Len(b) : b[i] = c[i]
      <4>1. /\ k \in 1..Len(a) \cap 1..Len(c) /\ a[k] < c[k]
            /\ \A i \in 1..(k - 1) : a[i] = c[i]
        BY <1>1, <2>2, <3>1
      <4> QED BY <1>1, <4>1 DEF Lex
    <3>2. ASSUME NEW l \in 1..Len(b) \cap 1..Len(c), b[l] < c[l],
                 \A i \in 1..(l - 1) : b[i] = c[i]
          PROVE  Lex(a, c)
      <4>1. CASE k <= l
        <5>1. k \in 1..Len(a) \cap 1..Len(c) /\ \A i \in 1..(k - 1) : a[i] = c[i]
          BY <1>1, <2>2, <3>2, <4>1
        <5>2. k < l => b[k] = c[k]
          BY <1>1, <2>2, <3>2
        <5>3. a[k] < c[k]
          BY <1>1, <2>2, <3>2, <4>1, <5>1, <5>2
        <5> QED BY <1>1, <5>1, <5>3 DEF Lex
      <4>2. CASE l < k
        <5>1. l \in 1..Len(a) \cap 1..Len(c) /\ \A i \in 1..(l - 1) : a[i] = c[i]
          BY <1>1, <2>2, <3>2, <4>2
        <5>2. a[l] = b[l]
          BY <1>1, <2>2, <3>2, <4>2
        <5> QED BY <1>1, <3>2, <5>1, <5>2 DEF Lex
      <4> QED BY <1>1, <4>1, <4>2
    <3> QED BY <1>1, <1>2, <3>1, <3>2 DEF Lex
  <2> QED BY <1>1, <1>2, <2>1, <2>2 DEF Lex
<1>3. ASSUME a # b PROVE Lex(a, b) \/ Lex(b, a)
  <2> DEFINE D == {i \in 1..Len(a) \cap 1..Len(b) : a[i] # b[i]}
  <2>1. CASE D = {}
    <3>1. \A i \in 1..Len(a) \cap 1..Len(b) : a[i] = b[i]
      BY <2>1
    <3>2. ASSUME Len(a) = Len(b) PROVE FALSE
      <4>1. \A i \in 1..Len(a) : a[i] = b[i]
        BY <3>1, <3>2
      <4> QED BY <1>3, <3>2, <4>1, SeqEqual
    <3>3. CASE Len(a) < Len(b)
      <4>1. \A i \in 1..Len(a) : a[i] = b[i]
        BY <1>1, <3>1, <3>3
      <4> QED BY <3>3, <4>1 DEF Lex
    <3>4. CASE Len(b) < Len(a)
      <4>1. \A i \in 1..Len(b) : b[i] = a[i]
        BY <1>1, <3>1, <3>4
      <4> QED BY <3>4, <4>1 DEF Lex
    <3>5. Len(a) = Len(b) \/ Len(a) < Len(b) \/ Len(b) < Len(a)
      <4>1. \A x, y \in Nat : x = y \/ x < y \/ y < x
        OBVIOUS
      <4> QED BY <1>1, <4>1
    <3> QED BY <3>2, <3>3, <3>4, <3>5
  <2>2. CASE D # {}
    <3>1. PICK k \in D : \A i \in D : k <= i
      <4>1. D \in SUBSET Nat
        BY <1>1
      <4> QED BY <2>2, <4>1, Least
    <3>2. ASSUME NEW i \in 1..(k - 1) PROVE a[i] = b[i]
      <4>1. i \in 1..Len(a) /\ i \in 1..Len(b) /\ ~(k <= i)
        BY <1>1, <3>1
      <4>2. i \notin D
        BY <3>1, <4>1
      <4> QED BY <4>1, <4>2
    <3>3. a[k] < b[k] \/ b[k] < a[k]
      BY <1>1, <3>1
    <3> QED BY <1>1, <3>1, <3>2, <3>3 DEF Lex
  <2> QED BY <2>1, <2>2
<1> QED BY <1>2, <1>3

\* The texts of single numbers are sequences of numbers.
LEMMA TextSeq == \A n \in Nat : Text(<<n>>) \in Seq(Int)
<1> TAKE n \in Nat
<1>1. Digits(n) \in Seq(Int)
  <2>1. PICK d \in Nat, e \in 0..9 : d = n \div 10 /\ e = n % 10
    BY Decimal
  <2>2. <<n>> \in Seq(Int) /\ <<d, e>> \in Seq(Int)
    OBVIOUS
  <2>3. Digits(n) = <<n>> \/ Digits(n) = <<d, e>>
    BY <2>1 DEF Digits
  <2> QED BY <2>2, <2>3
<1>2. <<-1>> \in Seq(Int)
  OBVIOUS
<1>3. <<-1>> \o Digits(n) \in Seq(Int)
  BY <1>1, <1>2
<1> QED BY <1>3, TextOf

\* The text of two numbers is that of the one before that of the other.
LEMMA TextsOfTwo ==
    ASSUME NEW m \in Nat, NEW n \in Nat
    PROVE  Text(<<m, n>>) = Text(<<m>>) \o Text(<<n>>)
<1> DEFINE a == <<-1>> \o Digits(m)
           d == Digits(n)
<1>1. a \in Seq(Int) /\ <<-1>> \o d \in Seq(Int)
  BY TextSeq, TextOf
<1>2. d \in Seq(Int)
  <2>1. PICK e \in Nat, f \in 0..9 : e = n \div 10 /\ f = n % 10
    BY Decimal
  <2>2. <<n>> \in Seq(Int) /\ <<e, f>> \in Seq(Int)
    OBVIOUS
  <2>3. d = <<n>> \/ d = <<e, f>>
    BY <2>1 DEF Digits
  <2> QED BY <2>2, <2>3
<1>3. <<-1>> \in Seq(Int)
  OBVIOUS
<1> HIDE DEF a, d
<1>4. (a \o <<-1>>) \o d = a \o (<<-1>> \o d)
  BY <1>1, <1>2, <1>3, ConcatAssociative
<1>5. Text(<<m, n>>) = (a \o <<-1>>) \o d
  BY TextOfTwo DEF a, d
<1>6. Text(<<m>>) = a /\ Text(<<n>>) = <<-1>> \o d
  BY TextOf DEF a, d
<1> QED BY <1>4, <1>5, <1>6

\* Values of one or two numbers with the same text are the same.
LEMMA SameText ==
    ASSUME NEW v, NEW w, Shallow(v), Shallow(w), Text(v) = Text(w)
    PROVE  v = w
<1> DEFINE Has(t, n) == t = Text(<<n>>) /\ t \in Seq(Int) /\ HasText(n, t)
<1>1. \A n \in Nat : \E t : Has(t, n)
  BY TextSeq, Texts
<1>2. ASSUME NEW n \in Nat, NEW t, Has(t, n)
      PROVE  \E p \in {2, 3}, x \in Nat, y \in 0..9 :
                /\ Len(t) = p /\ t[1] = -1 /\ t[2] = x /\ (p = 3 => t[3] = y)
                /\ n = IF p = 2 THEN x ELSE 10 * x + y
  <2>1. PICK d \in Nat, e \in 0..9 : d = n \div 10 /\ e = n % 10 /\ n = 10 * d + e
    BY Decimal
  <2>2. CASE n < 10
    <3>1. Len(t) = 2 /\ t[1] = -1 /\ t[2] = n
      BY <1>2, <2>2 DEF HasText
    <3>2. 2 \in {2, 3} /\ 0 \in 0..9
      OBVIOUS
    <3> QED BY <3>1, <3>2
  <2>3. CASE n >= 10
    <3>1. Len(t) = 3 /\ t[1] = -1 /\ t[2] = d /\ t[3] = e
      BY <1>2, <2>1, <2>3 DEF HasText
    <3>2. 3 \in {2, 3}
      OBVIOUS
    <3> QED BY <2>1, <3>1, <3>2
  <2> QED BY <2>2, <2>3
<1>3. ASSUME NEW m \in Nat, NEW n \in Nat, Text(<<m>>) = Text(<<n>>)
      PROVE  m = n
  <2>1. PICK t : Has(t, m) /\ Has(t, n)
    BY <1>1, <1>3
  <2> HIDE DEF Has
  <2>2. PICK p \in {2, 3}, x \in Nat, y \in 0..9 :
           /\ Len(t) = p /\ t[1] = -1 /\ t[2] = x /\ (p = 3 => t[3] = y)
           /\ m = IF p = 2 THEN x ELSE 10 * x + y
    BY <1>2, <2>1
  <2>3. PICK r \in {2, 3}, z \in Nat, u \in 0..9 :
           /\ Len(t) = r /\ t[1] = -1 /\ t[2] = z /\ (r = 3 => t[3] = u)
           /\ n = IF r = 2 THEN z ELSE 10 * z + u
    BY <1>2, <2>1
  <2> QED BY <2>2, <2>3
<1>4. ASSUME NEW m \in Nat, NEW n \in Nat, NEW k \in Nat, Text(<<m, n>>) = Text(<<k>>)
      PROVE  FALSE
  <2>1. PICK a, b, d : Has(a, m) /\ Has(b, n) /\ Has(d, k)
    BY <1>1
  <2>2. a \o b = d /\ a \in Seq(Int) /\ b \in Seq(Int)
    BY <1>4, <2>1, TextsOfTwo
  <2> HIDE DEF Has
  <2>3. PICK p \in {2, 3}, r \in {2, 3}, s \in {2, 3} :
           Len(a) = p /\ Len(b) = r /\ Len(d) = s
    BY <1>2, <2>1
  <2>4. Len(a \o b) = p + r
    BY <2>2, <2>3
  <2> QED BY <2>2, <2>3, <2>4
<1>5. ASSUME NEW m \in Nat, NEW n \in Nat, NEW k \in Nat, NEW l \in Nat,
             Text(<<m, n>>) = Text(<<k, l>>)
      PROVE  m = k /\ n = l
  <2>1. PICK a, b, d, e : Has(a, m) /\ Has(b, n) /\ Has(d, k) /\ Has(e, l)
    BY <1>1
  <2>2. /\ a \o b = d \o e
        /\ a \in Seq(Int) /\ b \in Seq(Int) /\ d \in Seq(Int) /\ e \in Seq(Int)
    BY <1>5, <2>1, TextsOfTwo
  <2> DEFINE t == a \o b
  <2>3. /\ Len(t) = Len(a) + Len(b)
        /\ \A i \in 1..Len(a) + Len(b) : t[i] = IF i <= Len(a) THEN a[i] ELSE b[i - Len(a)]
    BY <2>2, ConcatProperties
  <2>4. /\ Len(t) = Len(d) + Len(e)
        /\ \A i \in 1..Len(d) + Len(e) : t[i] = IF i <= Len(d) THEN d[i] ELSE e[i - Len(d)]
    <3>1. /\ Len(d \o e) = Len(d) + Len(e)
          /\ \A i \in 1..Len(d) + Len(e) :
                (d \o e)[i] = IF i <= Len(d) THEN d[i] ELSE e[i - Len(d)]
      BY <2>2, ConcatProperties
    <3> QED BY <2>2, <3>1
  <2> HIDE DEF t, Has
  <2>5. PICK p1 \in {2, 3}, x1 \in Nat, y1 \in 0..9 :
           /\ Len(a) = p1 /\ a[1] = -1 /\ a[2] = x1 /\ (p1 = 3 => a[3] = y1)
           /\ m = IF p1 = 2 THEN x1 ELSE 10 * x1 + y1
    BY <1>2, <2>1
  <2>6. PICK p2 \in {2, 3}, x2 \in Nat, y2 \in 0..9 :
           /\ Len(b) = p2 /\ b[1] = -1 /\ b[2] = x2 /\ (p2 = 3 => b[3] = y2)
           /\ n = IF p2 = 2 THEN x2 ELSE 10 * x2 + y2
    BY <1>2, <2>1
  <2>7. PICK p3 \in {2, 3}, x3 \in Nat, y3 \in 0..9 :
           /\ Len(d) = p3 /\ d[1] = -1 /\ d[2] = x3 /\ (p3 = 3 => d[3] = y3)
           /\ k = IF p3 = 2 THEN x3 ELSE 10 * x3 + y3
    BY <1>2, <2>1
  <2>8. PICK p4 \in {2, 3}, x4 \in Nat, y4 \in 0..9 :
           /\ Len(e) = p4 /\ e[1] = -1 /\ e[2] = x4 /\ (p4 = 3 => e[3] = y4)
           /\ l = IF p4 = 2 THEN x4 ELSE 10 * x4 + y4
    BY <1>2, <2>1
  <2>9. /\ Len(t) = p1 + p2 /\ t[2] = x1 /\ t[p1 + 2] = x2
        /\ t[3] = (IF p1 = 3 THEN y1 ELSE -1) /\ (p2 = 3 => t[p1 + 3] = y2)
    <3>1. \A i \in 1..p1 + p2 : t[i] = IF i <= p1 THEN a[i] ELSE b[i - p1]
      BY <2>3, <2>5, <2>6
    <3> QED BY <2>3, <2>5, <2>6, <3>1
  <2>10. /\ Len(t) = p3 + p4 /\ t[2] = x3 /\ t[p3 + 2] = x4
         /\ t[3] = (IF p3 = 3 THEN y3 ELSE -1) /\ (p4 = 3 => t[p3 + 3] = y4)
    <3>1. \A i \in 1..p3 + p4 : t[i] = IF i <= p3 THEN d[i] ELSE e[i - p3]
      BY <2>4, <2>7, <2>8
    <3> QED BY <2>4, <2>7, <2>8, <3>1
  <2>11. p1 = p3 /\ x1 = x3 /\ (p1 = 3 => y1 = y3)
    BY <2>9, <2>10
  <2>12. p2 = p4 /\ x2 = x4 /\ (p2 = 3 => y2 = y4)
    BY <2>9, <2>10, <2>11
  <2> QED BY <2>5, <2>6, <2>7, <2>8, <2>11, <2>12
<1> QED BY <1>3, <1>4, <1>5 DEF Shallow, One, Two

\* Any two different values of one or two numbers compare as strings, and three in
\* a row.
LEMMA TextTotal ==
    ASSUME NEW u, NEW v, NEW w, Shallow(u), Shallow(v), Shallow(w)
    PROVE  /\ TextGreater(u, v) /\ TextGreater(v, w) => TextGreater(u, w)
           /\ u # v => TextGreater(u, v) \/ TextGreater(v, u)
<1>1. ASSUME NEW x, Shallow(x) PROVE Text(x) \in Seq(Int)
  <2>1. CASE One(x)
    BY <2>1, TextSeq DEF One
  <2>2. CASE Two(x)
    <3>1. PICK m \in Nat, n \in Nat : x = <<m, n>>
      BY <2>2 DEF Two
    <3>2. Text(<<m>>) \in Seq(Int) /\ Text(<<n>>) \in Seq(Int)
      BY TextSeq
    <3>3. Text(<<m>>) \o Text(<<n>>) \in Seq(Int)
      BY <3>2
    <3> QED BY <3>1, <3>3, TextsOfTwo
  <2> QED BY <1>1, <2>1, <2>2 DEF Shallow
<1>2. PICK a \in Seq(Int), b \in Seq(Int), d \in Seq(Int) :
         a = Text(u) /\ b = Text(v) /\ d = Text(w)
  BY <1>1
<1>3. u # v => a # b
  BY <1>2, SameText
<1>4. /\ TextGreater(u, v) <=> Lex(b, a)
      /\ TextGreater(v, u) <=> Lex(a, b)
      /\ TextGreater(v, w) <=> Lex(d, b)
      /\ TextGreater(u, w) <=> Lex(d, a)
  BY <1>2, LowerIs DEF TextGreater
<1>5. /\ Lex(d, b) /\ Lex(b, a) => Lex(d, a)
      /\ a # b => Lex(a, b) \/ Lex(b, a)
  BY LexOrder
<1> QED BY <1>3, <1>4, <1>5

\* Of finitely many things in an order one is the last.
LEMMA LastIn ==
    ASSUME NEW S, IsFiniteSet(S), S # {}, NEW less,
           \A x, y \in S : x # y => <<x, y>> \in less \/ <<y, x>> \in less,
           \A x, y, z \in S : <<x, y>> \in less /\ <<y, z>> \in less => <<x, z>> \in less
    PROVE  \E x \in S : \A y \in S \ {x} : <<y, x>> \in less
<1> DEFINE EndOf(s) == \E x \in s : \A y \in s \ {x} : <<y, x>> \in less
           T == {n \in Nat : \A s \in SUBSET S : s # {} /\ Cardinality(s) = n => EndOf(s)}
<1>1. 0 \in T
  BY OneLess
<1>2. ASSUME NEW n \in Nat, n \in T PROVE n + 1 \in T
  <2> SUFFICES ASSUME NEW s \in SUBSET S, s # {}, Cardinality(s) = n + 1
               PROVE  EndOf(s)
    OBVIOUS
  <2>1. PICK z \in s : TRUE
    OBVIOUS
  <2> DEFINE u == s \ {z}
  <2>2. Cardinality(u) = n /\ u \in SUBSET S
    BY OneLess
  <2>3. CASE u = {}
    <3>1. \A y \in s : y = z
      BY <2>3
    <3> QED BY <3>1
  <2>4. CASE u # {}
    <3>1. PICK x \in u : \A y \in u \ {x} : <<y, x>> \in less
      BY <1>2, <2>2, <2>4
    <3>2. x # z /\ x \in S /\ z \in S
      OBVIOUS
    <3>3. CASE <<z, x>> \in less
      <4>1. \A y \in s \ {x} : <<y, x>> \in less
        BY <3>1, <3>3
      <4> QED BY <4>1
    <3>4. CASE <<x, z>> \in less
      <4>1. \A y \in s \ {z} : <<y, z>> \in less
        <5> TAKE y \in s \ {z}
        <5>1. y = x \/ <<y, x>> \in less
          BY <3>1
        <5> QED BY <3>2, <3>4, <5>1
      <4> QED BY <4>1
    <3> QED BY <3>2, <3>3, <3>4
  <2> QED BY <2>3, <2>4
<1> HIDE DEF T
<1>3. Nat \subseteq T
  BY <1>1, <1>2, Induction
<1>4. S \in SUBSET S /\ Cardinality(S) \in T
  BY <1>3, FS_CardinalityType
<1> QED BY <1>4 DEF T

\* Rows with such values have a last one in the order of the index.
LEMMA HasLast ==
    ASSUME NEW S, IsFiniteSet(S), S # {}, AllShallow(S)
    PROVE  LastRow(S) \in S
<1> DEFINE less == {p \in S \X S : Before(p[1], p[2])}
<1>1. \A r, s \in S : <<r, s>> \in less <=> Before(r, s)
  OBVIOUS
<1> HIDE DEF less
<1>2. \A r \in S : /\ r.checksum \in Nat /\ Shallow(r.value)
                   /\ r = Row(r.checksum, r.value)
  BY ShallowRows
<1>3. ASSUME NEW r \in S, NEW s \in S, r # s PROVE <<r, s>> \in less \/ <<s, r>> \in less
  <2>1. r.checksum # s.checksum \/ r.value # s.value
    BY <1>2, <1>3
  <2>2. CASE r.checksum # s.checksum
    BY <1>1, <1>2, <2>2 DEF Before
  <2>3. CASE r.checksum = s.checksum /\ r.value # s.value
    <3>1. TextGreater(r.value, s.value) \/ TextGreater(s.value, r.value)
      BY <1>2, <2>3, TextTotal
    <3> QED BY <1>1, <2>3, <3>1 DEF Before
  <2> QED BY <2>1, <2>2, <2>3
<1>4. ASSUME NEW r \in S, NEW s \in S, NEW t \in S, <<r, s>> \in less, <<s, t>> \in less
      PROVE  <<r, t>> \in less
  <2>1. Before(r, s) /\ Before(s, t)
    BY <1>1, <1>4
  <2>2. r.checksum \in Nat /\ s.checksum \in Nat /\ t.checksum \in Nat
    BY <1>2
  <2>3. CASE r.checksum < t.checksum
    BY <1>1, <2>3 DEF Before
  <2>4. CASE ~(r.checksum < t.checksum)
    <3>1. r.checksum = s.checksum /\ s.checksum = t.checksum
      BY <2>1, <2>2, <2>4 DEF Before
    <3>2. TextGreater(s.value, r.value) /\ TextGreater(t.value, s.value)
      BY <2>1, <2>2, <3>1 DEF Before
    <3>3. TextGreater(t.value, r.value)
      BY <1>2, <3>2, TextTotal
    <3> QED BY <1>1, <3>1, <3>3 DEF Before
  <2> QED BY <2>3, <2>4
<1>5. \E s \in S : \A r \in S \ {s} : Before(r, s)
  <2>1. \E s \in S : \A r \in S \ {s} : <<r, s>> \in less
    BY <1>3, <1>4, LastIn
  <2> QED BY <1>1, <2>1
<1> QED BY <1>5 DEF LastRow

\* How values that are one number compare.
LEMMA DifferOne ==
    ASSUME NEW a \in Nat, NEW b \in Nat
    PROVE  /\ GreaterOrEqual(<<a>>, <<b>>) <=> a >= b
           /\ (<<a>> = <<b>>) <=> a = b
           /\ Lower(<<a>>, <<b>>) <=> a < b
<1> DEFINE D == Differ(<<a>>, <<b>>)
<1>1. DOMAIN <<a>> = {1} /\ DOMAIN <<b>> = {1} /\ <<a>>[1] = a /\ <<b>>[1] = b
  OBVIOUS
<1>2. D = IF a = b THEN {} ELSE {1}
  BY <1>1 DEF Differ
<1>3. Min({1}) = 1
  BY DEF Min
<1>4. Len(<<a>>) = 1 /\ Len(<<b>>) = 1
  OBVIOUS
<1>5. GreaterOrEqual(<<a>>, <<b>>) <=> a >= b
  BY <1>1, <1>2, <1>3 DEF GreaterOrEqual
<1>6. Lower(<<a>>, <<b>>) <=> a < b
  <2>1. CASE a = b
    BY <1>2, <1>4, <2>1 DEF Lower
  <2>2. CASE a # b
    BY <1>1, <1>2, <1>3, <2>2 DEF Lower
  <2> QED BY <2>1, <2>2
<1> QED BY <1>1, <1>5, <1>6

\* Between plain values, _revision_greater is the order of the numbers.
LEMMA GreaterOne == \A a, b \in Nat : Greater(<<a>>, <<b>>) <=> a > b
<1> TAKE a, b \in Nat
<1>1. (GreaterOrEqual(<<a>>, <<b>>) <=> a >= b) /\ (<<a>> = <<b>> <=> a = b)
  BY DifferOne
<1>2. Greater(<<a>>, <<b>>) <=> a >= b /\ a # b
  BY <1>1 DEF Greater
<1> QED BY <1>2

\* So is _revision_smaller.
LEMMA SmallerOne == \A a, b \in Nat : Smaller(<<a>>, <<b>>) <=> a < b
<1> TAKE a, b \in Nat
<1>1. GreaterOrEqual(<<a>>, <<b>>) <=> a >= b
  BY DifferOne
<1>2. Smaller(<<a>>, <<b>>) <=> ~(a >= b)
  BY <1>1 DEF Smaller
<1> QED BY <1>2

-----------------------------------------------------------------------------
(* The greatest value of the rows *)

\* f folds the parts of S as MaxValue does.
FoldsMax(S, f) ==
    f = [s \in SUBSET S |->
            IF s = {} THEN None
            ELSE LET x == LastRow(s)
                 IN  IF f[s \ {x}] = None \/ Greater(x.value, f[s \ {x}])
                     THEN x.value ELSE f[s \ {x}]]

\* There is such a fold of a finite set.
LEMMA MaxFolds ==
    ASSUME NEW S, IsFiniteSet(S), AllShallow(S)
    PROVE  \E f : FoldsMax(S, f)
<1> DEFINE ch == [s \in SUBSET S |-> LastRow(s)]
           V == {None} \cup {r.value : r \in S}
           step == [x \in S |-> [v \in V |->
                       IF v = None \/ Greater(x.value, v) THEN x.value ELSE v]]
<1>1. Picks(S, ch)
  BY FS_Subset, HasLast DEF Picks, AllShallow
<1>2. PICK f : IsFold(S, None, ch, step, f)
  BY <1>1, Folded
<1>3. f[{}] = None /\ \A s \in SUBSET S : s # {} => f[s] = step[ch[s]][f[s \ {ch[s]}]]
  BY <1>2 DEF IsFold
<1>4. \A s \in SUBSET S : s # {} => ch[s] = LastRow(s) /\ ch[s] \in S
  BY <1>1 DEF Picks
<1>5. \A x \in S : \A v \in V :
         /\ step[x][v] = IF v = None \/ Greater(x.value, v) THEN x.value ELSE v
         /\ step[x][v] \in V
  OBVIOUS
<1> HIDE DEF step, ch
<1> DEFINE P == {s \in SUBSET S : f[s] \in V}
<1>6. \A s \in SUBSET S : s \in P
  <2>1. {} \in P
    BY <1>3
  <2>2. ASSUME NEW s \in SUBSET S, s # {}, s \ {ch[s]} \in P PROVE s \in P
    <3>1. f[s \ {ch[s]}] \in V /\ ch[s] \in S
      BY <1>4, <2>2
    <3>2. step[ch[s]][f[s \ {ch[s]}]] \in V
      BY <1>5, <3>1
    <3> QED BY <1>3, <2>2, <3>2
  <2> HIDE DEF P
  <2> QED BY <1>1, <2>1, <2>2, Parts
<1>7. f = [s \in SUBSET S |-> f[s]]
  BY <1>2 DEF IsFold
<1> HIDE DEF V
<1>8. ASSUME NEW s \in SUBSET S, s # {}
      PROVE  f[s] = IF \/ f[s \ {LastRow(s)}] = None
                       \/ Greater(LastRow(s).value, f[s \ {LastRow(s)}])
                    THEN LastRow(s).value ELSE f[s \ {LastRow(s)}]
  <2> DEFINE x == LastRow(s)
  <2>1. ch[s] = x /\ x \in S /\ s \ {x} \in SUBSET S
    BY <1>4, <1>8
  <2>2. f[s \ {x}] \in V
    BY <1>6, <2>1
  <2>3. f[s] = step[x][f[s \ {x}]]
    BY <1>3, <1>8, <2>1
  <2> HIDE DEF x
  <2>4. f[s] = IF f[s \ {x}] = None \/ Greater(x.value, f[s \ {x}])
               THEN x.value ELSE f[s \ {x}]
    BY <1>5, <2>1, <2>2, <2>3
  <2> QED BY <2>4 DEF x
<1>9. \A s \in SUBSET S :
         f[s] = IF s = {} THEN None
                ELSE LET x == LastRow(s)
                     IN  IF f[s \ {x}] = None \/ Greater(x.value, f[s \ {x}])
                         THEN x.value ELSE f[s \ {x}]
  BY <1>3, <1>8
<1>10. FoldsMax(S, f)
  BY <1>7, <1>9 DEF FoldsMax
<1> QED BY <1>10

\* The values of the rows compare as the numbers at one place.
ComparedAt(S, k) ==
    \A r, s \in S : r.value[k] \in Nat
                    /\ (Greater(r.value, s.value) <=> r.value[k] > s.value[k])

\* Then MaxValue gives the greatest of them, whatever the order of the rows.
LEMMA MaxAt ==
    ASSUME NEW S, IsFiniteSet(S), AllShallow(S), NEW k, ComparedAt(S, k)
    PROVE  \/ S = {} /\ MaxValue(S) = None
           \/ \E r \in S : /\ MaxValue(S) = r.value
                           /\ \A s \in S : s.value[k] <= r.value[k]
<1>1. MaxValue(S) = (CHOOSE f : FoldsMax(S, f))[S]
  BY DEF MaxValue, Extremum, MapThenFoldSet, FoldsMax
<1>2. PICK f : FoldsMax(S, f) /\ MaxValue(S) = f[S]
  BY <1>1, MaxFolds
<1> DEFINE Best(v, T) == \E r \in T : v = r.value /\ \A s \in T : s.value[k] <= r.value[k]
           ch == [s \in SUBSET S |-> LastRow(s)]
           P == {s \in SUBSET S : (s = {} /\ f[s] = None) \/ Best(f[s], s)}
<1>3. \A r \in S : r.value[k] \in Nat /\ r.value # None
  BY ShallowRows DEF ComparedAt
<1>4. Picks(S, ch)
  BY FS_Subset, HasLast DEF Picks, AllShallow
<1>5. {} \in P
  BY <1>2 DEF FoldsMax
<1>6. ASSUME NEW s \in SUBSET S, s # {}, s \ {ch[s]} \in P PROVE s \in P
  <2> DEFINE x == LastRow(s)
             v == f[s \ {x}]
  <2>1. x \in s /\ x = ch[s]
    BY <1>4, <1>6 DEF Picks
  <2>2. f[s] = IF v = None \/ Greater(x.value, v) THEN x.value ELSE v
    BY <1>2, <1>6 DEF FoldsMax
  <2>3. \A r \in S : Greater(x.value, r.value) <=> x.value[k] > r.value[k]
    BY <2>1 DEF ComparedAt
  <2> HIDE DEF x
  <2>4. CASE s \ {x} = {} /\ v = None
    <3>1. \A r \in s : r = x
      BY <2>4
    <3>2. f[s] = x.value
      BY <2>2, <2>4
    <3> QED BY <1>3, <2>1, <3>1, <3>2
  <2>5. CASE Best(v, s \ {x})
    <3>1. PICK r \in s \ {x} : v = r.value /\ \A t \in s \ {x} : t.value[k] <= r.value[k]
      BY <2>5
    <3>2. v # None /\ x \in S /\ r \in S
      BY <1>3, <2>1, <3>1
    <3>3. CASE Greater(x.value, v)
      <4>1. f[s] = x.value
        BY <2>2, <3>3
      <4>2. \A t \in s : t.value[k] <= x.value[k]
        BY <1>3, <2>1, <2>3, <3>1, <3>2, <3>3
      <4> QED BY <2>1, <4>1, <4>2
    <3>4. CASE ~Greater(x.value, v)
      <4>1. f[s] = r.value
        BY <2>2, <3>1, <3>2, <3>4
      <4>2. \A t \in s : t.value[k] <= r.value[k]
        BY <1>3, <2>1, <2>3, <3>1, <3>2, <3>4
      <4> QED BY <2>1, <4>1, <4>2
    <3> QED BY <3>3, <3>4
  <2>6. s \ {x} \in P
    BY <1>6, <2>1
  <2> QED BY <2>4, <2>5, <2>6
<1>7. S \in P
  <2> HIDE DEF P, ch
  <2> QED BY <1>4, <1>5, <1>6, Parts
<1> QED BY <1>2, <1>7

\* So it is the greatest of values that are one number.
LEMMA MaxIs ==
    ASSUME NEW S, IsFiniteSet(S), AllPlain(S)
    PROVE  \/ S = {} /\ MaxValue(S) = None
           \/ \E r \in S : /\ MaxValue(S) = r.value
                           /\ \A s \in S : s.value[1] <= r.value[1]
<1>1. \A r \in S : r.value[1] \in Nat /\ r.value = <<r.value[1]>>
  BY DEF AllPlain, Plain, Row
<1>2. \A a, b \in Nat : Greater(<<a>>, <<b>>) <=> a > b
  BY GreaterOne
<1>3. ComparedAt(S, 1)
  BY <1>1, <1>2 DEF ComparedAt
<1> QED BY <1>3, MaxAt, PlainShallow

\* In any case it is one of the values, if not none.
LEMMA MaxAmong ==
    ASSUME NEW S, IsFiniteSet(S), AllShallow(S)
    PROVE  \/ S = {} /\ MaxValue(S) = None
           \/ \E r \in S : MaxValue(S) = r.value
<1>1. MaxValue(S) = (CHOOSE f : FoldsMax(S, f))[S]
  BY DEF MaxValue, Extremum, MapThenFoldSet, FoldsMax
<1>2. PICK f : FoldsMax(S, f) /\ MaxValue(S) = f[S]
  BY <1>1, MaxFolds
<1> DEFINE ch == [s \in SUBSET S |-> LastRow(s)]
           P == {s \in SUBSET S : (s = {} /\ f[s] = None) \/ \E r \in S : f[s] = r.value}
<1>3. Picks(S, ch)
  BY FS_Subset, HasLast DEF Picks, AllShallow
<1>4. {} \in P
  BY <1>2 DEF FoldsMax
<1>5. ASSUME NEW s \in SUBSET S, s # {}, s \ {ch[s]} \in P PROVE s \in P
  <2> DEFINE x == LastRow(s)
             v == f[s \ {x}]
  <2>1. x \in S /\ x = ch[s]
    BY <1>3, <1>5 DEF Picks
  <2>2. f[s] = IF v = None \/ Greater(x.value, v) THEN x.value ELSE v
    BY <1>2, <1>5 DEF FoldsMax
  <2> HIDE DEF x
  <2>3. v = None \/ \E r \in S : v = r.value
    BY <1>5, <2>1
  <2>4. \E r \in S : f[s] = r.value
    BY <2>1, <2>2, <2>3
  <2> QED BY <2>4
<1>6. S \in P
  <2> HIDE DEF P, ch
  <2> QED BY <1>3, <1>4, <1>5, Parts
<1> QED BY <1>2, <1>6

-----------------------------------------------------------------------------
(* The least value of the rows *)

\* f folds the parts of S as MinValue does.
FoldsMin(S, f) ==
    f = [s \in SUBSET S |->
            IF s = {} THEN None
            ELSE LET x == LastRow(s)
                 IN  IF f[s \ {x}] = None \/ Smaller(x.value, f[s \ {x}])
                     THEN x.value ELSE f[s \ {x}]]

\* There is such a fold of a finite set.
LEMMA MinFolds ==
    ASSUME NEW S, IsFiniteSet(S), AllShallow(S)
    PROVE  \E f : FoldsMin(S, f)
<1> DEFINE ch == [s \in SUBSET S |-> LastRow(s)]
           V == {None} \cup {r.value : r \in S}
           step == [x \in S |-> [v \in V |->
                       IF v = None \/ Smaller(x.value, v) THEN x.value ELSE v]]
<1>1. Picks(S, ch)
  BY FS_Subset, HasLast DEF Picks, AllShallow
<1>2. PICK f : IsFold(S, None, ch, step, f)
  BY <1>1, Folded
<1>3. f[{}] = None /\ \A s \in SUBSET S : s # {} => f[s] = step[ch[s]][f[s \ {ch[s]}]]
  BY <1>2 DEF IsFold
<1>4. \A s \in SUBSET S : s # {} => ch[s] = LastRow(s) /\ ch[s] \in S
  BY <1>1 DEF Picks
<1>5. \A x \in S : \A v \in V :
         /\ step[x][v] = IF v = None \/ Smaller(x.value, v) THEN x.value ELSE v
         /\ step[x][v] \in V
  OBVIOUS
<1> HIDE DEF step, ch
<1> DEFINE P == {s \in SUBSET S : f[s] \in V}
<1>6. \A s \in SUBSET S : s \in P
  <2>1. {} \in P
    BY <1>3
  <2>2. ASSUME NEW s \in SUBSET S, s # {}, s \ {ch[s]} \in P PROVE s \in P
    <3>1. f[s \ {ch[s]}] \in V /\ ch[s] \in S
      BY <1>4, <2>2
    <3>2. step[ch[s]][f[s \ {ch[s]}]] \in V
      BY <1>5, <3>1
    <3> QED BY <1>3, <2>2, <3>2
  <2> HIDE DEF P
  <2> QED BY <1>1, <2>1, <2>2, Parts
<1>7. f = [s \in SUBSET S |-> f[s]]
  BY <1>2 DEF IsFold
<1> HIDE DEF V
<1>8. ASSUME NEW s \in SUBSET S, s # {}
      PROVE  f[s] = IF \/ f[s \ {LastRow(s)}] = None
                       \/ Smaller(LastRow(s).value, f[s \ {LastRow(s)}])
                    THEN LastRow(s).value ELSE f[s \ {LastRow(s)}]
  <2> DEFINE x == LastRow(s)
  <2>1. ch[s] = x /\ x \in S /\ s \ {x} \in SUBSET S
    BY <1>4, <1>8
  <2>2. f[s \ {x}] \in V
    BY <1>6, <2>1
  <2>3. f[s] = step[x][f[s \ {x}]]
    BY <1>3, <1>8, <2>1
  <2> HIDE DEF x
  <2>4. f[s] = IF f[s \ {x}] = None \/ Smaller(x.value, f[s \ {x}])
               THEN x.value ELSE f[s \ {x}]
    BY <1>5, <2>1, <2>2, <2>3
  <2> QED BY <2>4 DEF x
<1>9. \A s \in SUBSET S :
         f[s] = IF s = {} THEN None
                ELSE LET x == LastRow(s)
                     IN  IF f[s \ {x}] = None \/ Smaller(x.value, f[s \ {x}])
                         THEN x.value ELSE f[s \ {x}]
  BY <1>3, <1>8
<1>10. FoldsMin(S, f)
  BY <1>7, <1>9 DEF FoldsMin
<1> QED BY <1>10

\* MinValue gives the least of the values, whatever the order of the rows.
LEMMA MinIs ==
    ASSUME NEW S, IsFiniteSet(S), AllPlain(S)
    PROVE  \/ S = {} /\ MinValue(S) = None
           \/ \E r \in S : /\ MinValue(S) = r.value
                           /\ \A s \in S : s.value[1] >= r.value[1]
<1>1. MinValue(S) = (CHOOSE f : FoldsMin(S, f))[S]
  BY DEF MinValue, Extremum, MapThenFoldSet, FoldsMin
<1>2. PICK f : FoldsMin(S, f) /\ MinValue(S) = f[S]
  BY <1>1, MinFolds, PlainShallow
<1> DEFINE Best(v, T) == \E r \in T : v = r.value /\ \A s \in T : s.value[1] >= r.value[1]
           ch == [s \in SUBSET S |-> LastRow(s)]
           P == {s \in SUBSET S : (s = {} /\ f[s] = None) \/ Best(f[s], s)}
<1>3. \A r \in S : r.value[1] \in Nat /\ r.value = <<r.value[1]>> /\ r.value # None
  BY DEF AllPlain, Plain, Row, None
<1>4. Picks(S, ch)
  BY FS_Subset, HasLast, PlainShallow DEF Picks, AllPlain
<1>5. {} \in P
  BY <1>2 DEF FoldsMin
<1>6. ASSUME NEW s \in SUBSET S, s # {}, s \ {ch[s]} \in P PROVE s \in P
  <2> DEFINE x == LastRow(s)
             v == f[s \ {x}]
  <2>1. x \in s /\ x = ch[s]
    BY <1>4, <1>6 DEF Picks
  <2>2. f[s] = IF v = None \/ Smaller(x.value, v) THEN x.value ELSE v
    BY <1>2, <1>6 DEF FoldsMin
  <2>3. \A r \in S : Smaller(x.value, r.value) <=> x.value[1] < r.value[1]
    <3>1. \A a, b \in Nat : Smaller(<<a>>, <<b>>) <=> a < b
      BY SmallerOne
    <3> QED BY <1>3, <2>1, <3>1
  <2> HIDE DEF x
  <2>4. CASE s \ {x} = {} /\ v = None
    <3>1. \A r \in s : r = x
      BY <2>4
    <3>2. f[s] = x.value
      BY <2>2, <2>4
    <3> QED BY <1>3, <2>1, <3>1, <3>2
  <2>5. CASE Best(v, s \ {x})
    <3>1. PICK r \in s \ {x} : v = r.value /\ \A t \in s \ {x} : t.value[1] >= r.value[1]
      BY <2>5
    <3>2. v # None /\ x \in S /\ r \in S
      BY <1>3, <2>1, <3>1
    <3>3. CASE Smaller(x.value, v)
      <4>1. f[s] = x.value
        BY <2>2, <3>3
      <4>2. \A t \in s : t.value[1] >= x.value[1]
        BY <1>3, <2>1, <2>3, <3>1, <3>2, <3>3
      <4> QED BY <2>1, <4>1, <4>2
    <3>4. CASE ~Smaller(x.value, v)
      <4>1. f[s] = r.value
        BY <2>2, <3>1, <3>2, <3>4
      <4>2. \A t \in s : t.value[1] >= r.value[1]
        BY <1>3, <2>1, <2>3, <3>1, <3>2, <3>4
      <4> QED BY <2>1, <4>1, <4>2
    <3> QED BY <3>3, <3>4
  <2>6. s \ {x} \in P
    BY <1>6, <2>1
  <2> QED BY <2>4, <2>5, <2>6
<1>7. S \in P
  <2> HIDE DEF P, ch
  <2> QED BY <1>4, <1>5, <1>6, Parts
<1> QED BY <1>2, <1>7

\* In any case it is one of the values, if not none.
LEMMA MinAmong ==
    ASSUME NEW S, IsFiniteSet(S), AllShallow(S)
    PROVE  \/ S = {} /\ MinValue(S) = None
           \/ \E r \in S : MinValue(S) = r.value
<1>1. MinValue(S) = (CHOOSE f : FoldsMin(S, f))[S]
  BY DEF MinValue, Extremum, MapThenFoldSet, FoldsMin
<1>2. PICK f : FoldsMin(S, f) /\ MinValue(S) = f[S]
  BY <1>1, MinFolds
<1> DEFINE ch == [s \in SUBSET S |-> LastRow(s)]
           P == {s \in SUBSET S : (s = {} /\ f[s] = None) \/ \E r \in S : f[s] = r.value}
<1>3. Picks(S, ch)
  BY FS_Subset, HasLast DEF Picks, AllShallow
<1>4. {} \in P
  BY <1>2 DEF FoldsMin
<1>5. ASSUME NEW s \in SUBSET S, s # {}, s \ {ch[s]} \in P PROVE s \in P
  <2> DEFINE x == LastRow(s)
             v == f[s \ {x}]
  <2>1. x \in S /\ x = ch[s]
    BY <1>3, <1>5 DEF Picks
  <2>2. f[s] = IF v = None \/ Smaller(x.value, v) THEN x.value ELSE v
    BY <1>2, <1>5 DEF FoldsMin
  <2> HIDE DEF x
  <2>3. v = None \/ \E r \in S : v = r.value
    BY <1>5, <2>1
  <2>4. \E r \in S : f[s] = r.value
    BY <2>1, <2>2, <2>3
  <2> QED BY <2>4
<1>6. S \in P
  <2> HIDE DEF P, ch
  <2> QED BY <1>3, <1>4, <1>5, Parts
<1> QED BY <1>2, <1>6

-----------------------------------------------------------------------------
(* The next value of a table *)

\* increase_revision adds one to a plain value.
LEMMA IncreaseOne == \A n \in Nat : Increase(<<n>>) = <<n + 1>>
BY DEF Increase

\* v is the least value in the rows of T.
IsLeast(v, T) == \E r \in T : v = r.value /\ \A s \in T : s.value[1] >= r.value[1]

\* What _get_value answers: zero, one above the greatest value, or a value the
\* output has: with history its least one.  Only if all values have one digit is
\* the answer without history at least as great as all others, as the last
\* comparison of _get_value is one of strings.
LEMMA NextValueIs ==
    ASSUME NEW S, IsFiniteSet(S), AllPlain(S), NEW c, NEW h \in BOOLEAN
    PROVE  \/ S = {} /\ NextValue(S, c, h) = <<0>>
           \/ \E r \in S : /\ NextValue(S, c, h) = <<r.value[1] + 1>>
                           /\ \A s \in S : s.value[1] <= r.value[1]
                           /\ h => Of(S, c) = {}
           \/ \E r \in Of(S, c) :
                 /\ NextValue(S, c, h) = r.value
                 /\ h => IsLeast(r.value, Of(S, c))
                 /\ ~h /\ (\A s \in S : s.value[1] < 10) =>
                       \A s \in S : s.value[1] <= r.value[1]
<1> DEFINE T == Of(S, c)
           max == MaxValue(S)
           value == FindValue(S, c, h)
<1>1. \A r \in S : r.value[1] \in Nat /\ r.value = <<r.value[1]>> /\ r.value # None
  BY DEF AllPlain, Plain, Row, None
<1>2. T \subseteq S /\ IsFiniteSet(T) /\ AllPlain(T)
  BY FS_Subset DEF Of, AllPlain
<1>3. \/ S = {} /\ max = None
      \/ \E r \in S : max = r.value /\ \A s \in S : s.value[1] <= r.value[1]
  BY MaxIs
<1>4. h => (T = {} /\ value = None) \/ IsLeast(value, T)
  BY <1>2, MinIs DEF FindValue, IsLeast
<1>5. ~h => \/ T = {} /\ value = None
            \/ \E r \in T : value = r.value /\ \A s \in T : s.value[1] <= r.value[1]
  BY <1>2, MaxIs DEF FindValue
<1>6. (T = {} /\ value = None) \/ \E r \in T : value = r.value
  BY <1>4, <1>5 DEF IsLeast
<1>7. value # None <=> T # {}
  BY <1>1, <1>2, <1>6
<1> DEFINE v == NextValue(S, c, h)
<1>8. /\ max = None => v = <<0>>
      /\ max # None /\ value = None => v = Increase(max)
      /\ max # None /\ value # None /\ ~h /\ TextGreater(max, value) => v = Increase(max)
      /\ max # None /\ value # None /\ (h \/ ~TextGreater(max, value)) => v = value
  <2>1. v = CASE max = None -> <<0>>
              [] max # None /\ value = None -> Increase(max)
              [] value # None /\ ~h /\ TextGreater(max, value) -> Increase(max)
              [] OTHER -> value
    BY DEF NextValue
  <2> HIDE DEF max, value, v
  <2>2. CASE max = None
    <3>1. value = None
      BY <1>1, <1>2, <1>3, <1>6, <2>2
    <3> QED BY <2>1, <2>2, <3>1
  <2>3. CASE max # None /\ value = None
    BY <2>1, <2>3
  <2>4. CASE max # None /\ value # None /\ ~h /\ TextGreater(max, value)
    BY <2>1, <2>4
  <2>5. CASE max # None /\ value # None /\ (h \/ ~TextGreater(max, value))
    BY <2>1, <2>5
  <2> QED BY <2>2, <2>3, <2>4, <2>5
<1> HIDE DEF T, max, value, v
<1>9. CASE max = None
  BY <1>1, <1>3, <1>8, <1>9 DEF v
<1>10. CASE max # None
  <2>1. PICK r \in S : max = r.value /\ \A s \in S : s.value[1] <= r.value[1]
    BY <1>3, <1>10
  <2>2. Increase(max) = <<r.value[1] + 1>>
    BY <1>1, <2>1, IncreaseOne
  <2>3. CASE value = None
    BY <1>7, <1>8, <1>10, <2>1, <2>2, <2>3 DEF v, T
  <2>4. CASE value # None /\ ~h /\ TextGreater(max, value)
    BY <1>8, <1>10, <2>1, <2>2, <2>4 DEF v, T
  <2>5. CASE value # None /\ (h \/ ~TextGreater(max, value))
    <3>1. v = value
      BY <1>8, <1>10, <2>5
    <3>2. PICK t \in T : value = t.value
      BY <1>6, <2>5
    <3>3. h => IsLeast(t.value, T)
      BY <1>4, <2>5, <3>2
    <3>4. ASSUME ~h, \A s \in S : s.value[1] < 10
          PROVE  \A s \in S : s.value[1] <= t.value[1]
      <4>1. PICK m \in Nat, n \in Nat : m = r.value[1] /\ n = t.value[1] /\ m < 10 /\ n < 10
        BY <1>1, <1>2, <2>1, <3>2, <3>4
      <4>2. ~TextGreater(<<m>>, <<n>>)
        BY <1>1, <1>2, <2>1, <2>5, <3>2, <3>4, <4>1
      <4>3. ~(Key(n) < Key(m))
        BY <4>2, TextOrder
      <4>4. m <= n
        BY <4>1, <4>3 DEF Key
      <4> QED BY <1>1, <2>1, <4>1, <4>4
    <3> QED BY <3>1, <3>2, <3>3, <3>4 DEF v, T
  <2> QED BY <2>3, <2>4, <2>5
<1> QED BY <1>9, <1>10

\* Different outputs have different values.
Distinct(S) == \A r, s \in S : r.value = s.value => r.checksum = s.checksum

\* What a row that store_value adds changes.
LEMMA RowAdded ==
    ASSUME NEW S, IsFiniteSet(S), AllPlain(S), Distinct(S), NEW c \in Nat,
           NEW h \in BOOLEAN, NEW v, v = NextValue(S, c, h), NEW R, R = S \cup {Row(c, v)}
    PROVE  /\ IsFiniteSet(R) /\ AllPlain(R) /\ Distinct(R)
           /\ \A k, w : IsLeast(w, Of(S, k)) => IsLeast(w, Of(R, k))
           /\ h => IsLeast(v, Of(R, c))
<1> DEFINE x == Row(c, v)
<1>1. \A r \in S : /\ r.value[1] \in Nat /\ r.value = <<r.value[1]>>
                   /\ r = Row(r.checksum, r.value) /\ r.checksum \in Nat
  BY DEF AllPlain, Plain, Row
<1>2. x.checksum = c /\ x.value = v /\ x \in R
  BY DEF Row
<1>3. IsFiniteSet(R)
  BY FS_AddElement
<1>4. CASE S = {} /\ v = <<0>>
  <2>1. AllPlain(R)
    BY <1>4 DEF AllPlain, Plain
  <2>2. Distinct(R)
    BY <1>4 DEF Distinct
  <2>3. \A k, w : ~IsLeast(w, Of(S, k))
    BY <1>4 DEF IsLeast, Of
  <2>4. Of(R, c) = {x}
    BY <1>2, <1>4 DEF Of
  <2>5. v[1] >= v[1]
    BY <1>4
  <2>6. IsLeast(v, Of(R, c))
    BY <1>2, <2>4, <2>5 DEF IsLeast
  <2> QED BY <1>3, <2>1, <2>2, <2>3, <2>6
<1>5. CASE \E r \in S : /\ v = <<r.value[1] + 1>>
                        /\ \A s \in S : s.value[1] <= r.value[1]
                        /\ h => Of(S, c) = {}
  <2>1. PICK r \in S : /\ v = <<r.value[1] + 1>>
                       /\ \A s \in S : s.value[1] <= r.value[1]
                       /\ h => Of(S, c) = {}
    BY <1>5
  <2>2. PICK n \in Nat : n = r.value[1] /\ v = <<n + 1>> /\ \A s \in S : s.value[1] <= n
    BY <1>1, <2>1
  <2>3. v[1] = n + 1 /\ \A s \in S : s.value # v
    BY <1>1, <2>2
  <2>4. AllPlain(R)
    BY <2>2 DEF AllPlain, Plain
  <2>5. Distinct(R)
    BY <1>2, <2>3 DEF Distinct
  <2>6. ASSUME NEW k, NEW w, IsLeast(w, Of(S, k)) PROVE IsLeast(w, Of(R, k))
    <3>1. PICK t \in Of(S, k) : w = t.value /\ \A s \in Of(S, k) : s.value[1] >= t.value[1]
      BY <2>6 DEF IsLeast
    <3>2. t \in Of(R, k) /\ t \in S
      BY <3>1 DEF Of
    <3>3. \A s \in Of(R, k) : s \in Of(S, k) \/ s = x
      BY DEF Of
    <3>4. x.value[1] >= t.value[1]
      BY <1>1, <1>2, <2>2, <2>3, <3>2
    <3> QED BY <3>1, <3>2, <3>3, <3>4 DEF IsLeast
  <2>7. ASSUME h PROVE IsLeast(v, Of(R, c))
    <3>1. Of(R, c) = {x}
      BY <1>2, <2>1, <2>7 DEF Of
    <3>2. x.value[1] >= x.value[1]
      BY <1>2, <2>2, <2>3
    <3> QED BY <1>2, <3>1, <3>2 DEF IsLeast
  <2> QED BY <1>3, <2>4, <2>5, <2>6, <2>7
<1>6. CASE \E r \in Of(S, c) : v = r.value /\ (h => IsLeast(r.value, Of(S, c)))
  <2>1. PICK r \in Of(S, c) : v = r.value /\ (h => IsLeast(r.value, Of(S, c)))
    BY <1>6
  <2>2. r \in S /\ r.checksum = c /\ r = x
    BY <1>1, <2>1 DEF Of
  <2>3. R = S
    BY <2>2
  <2> QED BY <2>1, <2>3
<1> QED BY <1>4, <1>5, <1>6, NextValueIs

-----------------------------------------------------------------------------
(* The greatest answer so far *)

\* f folds the parts of S as Top does.
FoldsTop(S, f) ==
    f = [s \in SUBSET S |->
            IF s = {} THEN None
            ELSE LET x == CHOOSE y \in s : TRUE
                 IN  IF ~x.history /\ Lower(f[s \ {x}], x.value) THEN x.value
                     ELSE f[s \ {x}]]

\* There is such a fold of a finite set.
LEMMA TopFolds ==
    ASSUME NEW S, IsFiniteSet(S)
    PROVE  \E f : FoldsTop(S, f)
<1> DEFINE ch == [s \in SUBSET S |-> CHOOSE y \in s : TRUE]
           V == {None} \cup {g.value : g \in S}
           step == [x \in S |-> [v \in V |->
                       IF ~x.history /\ Lower(v, x.value) THEN x.value ELSE v]]
<1>1. Picks(S, ch)
  BY DEF Picks
<1>2. PICK f : IsFold(S, None, ch, step, f)
  BY <1>1, Folded
<1>3. f[{}] = None /\ \A s \in SUBSET S : s # {} => f[s] = step[ch[s]][f[s \ {ch[s]}]]
  BY <1>2 DEF IsFold
<1>4. \A s \in SUBSET S : s # {} => ch[s] = (CHOOSE y \in s : TRUE) /\ ch[s] \in S
  BY <1>1 DEF Picks
<1>5. \A x \in S : \A v \in V :
         /\ step[x][v] = IF ~x.history /\ Lower(v, x.value) THEN x.value ELSE v
         /\ step[x][v] \in V
  OBVIOUS
<1> HIDE DEF step, ch
<1> DEFINE P == {s \in SUBSET S : f[s] \in V}
<1>6. \A s \in SUBSET S : s \in P
  <2>1. {} \in P
    BY <1>3
  <2>2. ASSUME NEW s \in SUBSET S, s # {}, s \ {ch[s]} \in P PROVE s \in P
    <3>1. f[s \ {ch[s]}] \in V /\ ch[s] \in S
      BY <1>4, <2>2
    <3>2. step[ch[s]][f[s \ {ch[s]}]] \in V
      BY <1>5, <3>1
    <3> QED BY <1>3, <2>2, <3>2
  <2> HIDE DEF P
  <2> QED BY <1>1, <2>1, <2>2, Parts
<1>7. f = [s \in SUBSET S |-> f[s]]
  BY <1>2 DEF IsFold
<1> HIDE DEF V
<1>8. ASSUME NEW s \in SUBSET S, s # {}
      PROVE  \A x : x = (CHOOSE y \in s : TRUE) =>
                f[s] = IF ~x.history /\ Lower(f[s \ {x}], x.value) THEN x.value
                       ELSE f[s \ {x}]
  <2> TAKE x
  <2> HAVE x = (CHOOSE y \in s : TRUE)
  <2>1. ch[s] = x /\ x \in S /\ s \ {x} \in SUBSET S
    BY <1>4, <1>8
  <2>2. f[s \ {x}] \in V
    BY <1>6, <2>1
  <2>3. f[s] = step[x][f[s \ {x}]]
    BY <1>3, <1>8, <2>1
  <2> QED BY <1>5, <2>1, <2>2, <2>3
<1>9. \A s \in SUBSET S :
         f[s] = IF s = {} THEN None
                ELSE LET x == CHOOSE y \in s : TRUE
                     IN  IF ~x.history /\ Lower(f[s \ {x}], x.value) THEN x.value
                         ELSE f[s \ {x}]
  BY <1>3, <1>8
<1>10. FoldsTop(S, f)
  BY <1>7, <1>9 DEF FoldsTop
<1> QED BY <1>10

\* Top is one of the answers, if there is any to a request without history.
LEMMA TopIs ==
    ASSUME IsFiniteSet(given)
    PROVE  Top = None \/ \E g \in given : ~g.history /\ Top = g.value
<1>1. Top = (CHOOSE f : FoldsTop(given, f))[given]
  BY DEF Top, FoldSet, MapThenFoldSet, FoldsTop
<1>2. PICK f : FoldsTop(given, f) /\ Top = f[given]
  BY <1>1, TopFolds
<1> DEFINE ch == [s \in SUBSET given |-> CHOOSE y \in s : TRUE]
           Fit(v) == v = None \/ \E g \in given : ~g.history /\ v = g.value
           P == {s \in SUBSET given : Fit(f[s])}
<1>3. Picks(given, ch)
  BY DEF Picks
<1>4. {} \in P
  BY <1>2 DEF FoldsTop
<1>5. ASSUME NEW s \in SUBSET given, s # {}, s \ {ch[s]} \in P PROVE s \in P
  <2> DEFINE x == CHOOSE y \in s : TRUE
  <2>1. x \in given /\ x = ch[s]
    BY <1>3, <1>5 DEF Picks
  <2>2. f[s] = IF ~x.history /\ Lower(f[s \ {x}], x.value) THEN x.value ELSE f[s \ {x}]
    BY <1>2, <1>5 DEF FoldsTop
  <2>3. Fit(f[s \ {x}])
    BY <1>5, <2>1
  <2> HIDE DEF x
  <2>4. Fit(f[s])
    BY <2>1, <2>2, <2>3
  <2> QED BY <2>4
<1>6. given \in P
  <2> HIDE DEF P, ch
  <2> QED BY <1>3, <1>4, <1>5, Parts
<1> QED BY <1>2, <1>6

-----------------------------------------------------------------------------
(* A server on its own *)

\* The setup of a server that never had an upstream server or an import: its
\* values are single numbers, and no two outputs share one.
OwnSetup(s) ==
    /\ s.imports = {}
    /\ IsFiniteSet(s.rows) /\ AllPlain(s.rows) /\ Distinct(s.rows)

\* All servers without an upstream server are of that kind.
OwnSetups == \A s \in Setups : ~s.upstream => OwnSetup(s)

\* It stores what it answers, and its values stay below ten.
Small(s) ==
    /\ ~s.readonly /\ s.requests <= 9
    /\ \A r \in s.rows : r.value[1] + s.requests <= 9

\* What holds of an answer x from a table S, and keeps holding as S grows: with
\* history it is the least value of its output, and the table has it.  (A read-only
\* server computes answers it does not store.)
Kept(x, S, readonly) ==
    /\ x.history /\ readonly => x.value = NextValue(S, x.checksum, TRUE)
    /\ x.history /\ ~readonly => IsLeast(x.value, Of(S, x.checksum))
    /\ ~readonly => \E r \in S : r.value = x.value

\* The table is as in an own setup, and the answers are finitely many.
Tables ==
    /\ IsFiniteSet(rows) /\ AllPlain(rows) /\ Distinct(rows)
    /\ setup.imports = {} /\ IsFiniteSet(given)

\* Without an upstream server no handler awaits anything.
Handlers ==
    /\ conn = [c \in Conns |-> conn[c]]
    /\ \A c \in Conns : conn[c].pc \in {"idle", "reply"} /\ ~conn[c].waits

\* Answers given or ready to be given still hold of the table.
Answers ==
    /\ \A g \in given : Kept(g, rows, setup.readonly)
    /\ \A c \in Conns : conn[c].pc = "reply" => Kept(conn[c], rows, setup.readonly)

\* The values stay below ten however the remaining requests are served.
Counts ==
    /\ requests \in Nat
    /\ Small(setup) =>
          /\ requests <= setup.requests
          /\ \A r \in rows : r.value[1] + setup.requests - requests <= 9

\* A small server's answers are not below those that clients had before.
Floors ==
    Small(setup) =>
    \A c \in Conns : conn[c].pc = "reply" /\ ~conn[c].history =>
        ~Lower(conn[c].value, conn[c].floor)

\* What holds of a server on its own.
Own == Tables /\ Handlers /\ Answers /\ Counts /\ Floors

\* The inductive invariant.
Inv == setup \in Setups /\ (~setup.upstream => Own)

\* The service starts with the table of its setup, and no answers.
LEMMA InitInv ==
    ASSUME OwnSetups, Init
    PROVE  Inv
<1>1. setup \in Setups
  BY DEF Init
<1>2. ASSUME ~setup.upstream PROVE Own
  <2>1. OwnSetup(setup)
    BY <1>1, <1>2 DEF OwnSetups
  <2>2. Tables
    BY <2>1, FS_EmptySet DEF Init, OwnSetup, Tables
  <2>3. Handlers
    BY DEF Init, Handlers, Idle
  <2>4. Answers
    BY DEF Init, Answers, Idle
  <2>5. Counts
    <3>1. setup.requests \in Nat
      BY <1>1, PRServAssumption
    <3>2. requests = 0 /\ rows = setup.rows
      BY DEF Init
    <3>3. ASSUME NEW r \in rows PROVE r.value[1] \in Nat
      BY <2>2 DEF Tables, AllPlain, Plain, Row
    <3> QED BY <3>1, <3>2, <3>3 DEF Counts, Small
  <2>6. Floors
    BY DEF Init, Floors, Idle
  <2> QED BY <2>2, <2>3, <2>4, <2>5, <2>6 DEF Own
<1> QED BY <1>1, <1>2 DEF Inv

\* The value of a request is not below any that the table of a small server has.
LEMMA ValueHigh ==
    ASSUME NEW S, IsFiniteSet(S), AllPlain(S), \A r \in S : r.value[1] < 10, NEW c
    PROVE  \A r \in S : ~Lower(NextValue(S, c, FALSE), r.value)
<1> DEFINE v == NextValue(S, c, FALSE)
<1>1. \A r \in S : r.value[1] \in Nat /\ r.value = <<r.value[1]>>
  BY DEF AllPlain, Plain, Row
<1>2. \/ S = {}
      \/ \E n \in Nat : v = <<n>> /\ \A s \in S : s.value[1] <= n
  <2>1. \/ S = {} /\ v = <<0>>
        \/ \E r \in S : v = <<r.value[1] + 1>> /\ \A s \in S : s.value[1] <= r.value[1]
        \/ \E r \in Of(S, c) : v = r.value /\ \A s \in S : s.value[1] <= r.value[1]
    BY NextValueIs
  <2>2. Of(S, c) \subseteq S
    BY DEF Of
  <2> HIDE DEF v
  <2>3. ASSUME NEW r \in S, v = <<r.value[1] + 1>>, \A s \in S : s.value[1] <= r.value[1]
        PROVE  \E n \in Nat : v = <<n>> /\ \A s \in S : s.value[1] <= n
    <3>1. PICK n \in Nat : n = r.value[1] + 1
      BY <1>1
    <3> QED BY <1>1, <2>3, <3>1
  <2>4. ASSUME NEW r \in S, v = r.value, \A s \in S : s.value[1] <= r.value[1]
        PROVE  \E n \in Nat : v = <<n>> /\ \A s \in S : s.value[1] <= n
    BY <1>1, <2>4
  <2> QED BY <2>1, <2>2, <2>3, <2>4
<1> HIDE DEF v
<1>3. ASSUME NEW n \in Nat, v = <<n>>, NEW r \in S, r.value[1] <= n
      PROVE  ~Lower(v, r.value)
  <2>1. PICK m \in Nat : m = r.value[1] /\ r.value = <<m>>
    BY <1>1
  <2>2. Lower(<<n>>, <<m>>) <=> n < m
    BY DifferOne
  <2> QED BY <1>3, <2>1, <2>2
<1> QED BY <1>2, <1>3 DEF v

\* A value is not below none.
LEMMA NotLowerNone ==
    ASSUME NEW n
    PROVE  ~Lower(<<n>>, None)
BY DEF Lower, Differ, None

\* A request's answer holds of the table it leaves, and the earlier answers still do.
LEMMA RequestKeeps ==
    ASSUME Inv, ~setup.upstream, NEW c \in Conns, NEW checksum \in Checksums,
           NEW history \in Histories, Request(c, checksum, history)
    PROVE  Own'
<1> DEFINE v == NextValue(rows, checksum, history)
           h == [Idle EXCEPT !.checksum = checksum, !.history = history,
                             !.old = FindValue(rows, checksum, history),
                             !.floor = Top]
<1>1. /\ requests' = requests + 1 /\ requests < setup.requests
      /\ rows' = IF setup.readonly THEN rows ELSE rows \cup {Row(checksum, v)}
      /\ conn' = [conn EXCEPT ![c] = [h EXCEPT !.pc = "reply", !.value = v]]
      /\ given' = given /\ setup' = setup
  BY DEF Inv, Request, GetValue, Store, Return, Idle
<1> DEFINE H == [h EXCEPT !.pc = "reply", !.value = v]
<1>2. /\ H.pc = "reply" /\ H.value = v /\ H.checksum = checksum
      /\ H.history = history /\ H.floor = Top /\ H.waits = FALSE
  BY DEF Idle
<1> HIDE DEF H, h
<1>3. conn' = [d \in Conns |-> IF d = c THEN H ELSE conn[d]]
  BY <1>1 DEF H, Inv, Own, Handlers
<1>4. checksum \in Nat /\ history \in BOOLEAN /\ setup.requests \in Nat
  BY PRServAssumption DEF Inv
<1>5. IsFiniteSet(rows) /\ AllPlain(rows) /\ Distinct(rows)
  BY DEF Inv, Own, Tables
<1> DEFINE R == rows \cup {Row(checksum, v)}
<1>6. v = NextValue(rows, checksum, history) /\ R = rows \cup {Row(checksum, v)}
  OBVIOUS
<1> HIDE DEF v, R
<1>7. /\ IsFiniteSet(R) /\ AllPlain(R) /\ Distinct(R)
      /\ \A k, w : IsLeast(w, Of(rows, k)) => IsLeast(w, Of(R, k))
      /\ history => IsLeast(v, Of(R, checksum))
  BY <1>4, <1>5, <1>6, RowAdded
<1>8. rows' = IF setup.readonly THEN rows ELSE R
  BY <1>1 DEF R
<1>9. Tables'
  BY <1>1, <1>5, <1>7, <1>8 DEF Inv, Own, Tables
<1>10. Handlers'
  BY <1>2, <1>3 DEF Inv, Own, Handlers
<1> DEFINE only == setup.readonly
<1>11. ASSUME NEW x, Kept(x, rows, only) PROVE Kept(x, rows', only)
  BY <1>7, <1>8, <1>11 DEF Kept, R
<1>12. Kept(H, rows', only)
  <2>1. history /\ setup.readonly => H.value = NextValue(rows, H.checksum, TRUE)
    BY <1>2, <1>4, <1>6
  <2>2. history /\ ~setup.readonly => IsLeast(H.value, Of(R, H.checksum))
    BY <1>2, <1>7
  <2>3. \E r \in R : r.value = H.value
    <3>1. Row(checksum, v) \in R /\ Row(checksum, v).value = v
      BY <1>6 DEF Row
    <3> QED BY <1>2, <3>1
  <2> QED BY <1>1, <1>2, <1>8, <2>1, <2>2, <2>3 DEF Kept
<1>13. Answers'
  <2>1. \A d \in Conns : conn'[d] = IF d = c THEN H ELSE conn[d]
    BY <1>3
  <2>2. \A g \in given : Kept(g, rows', only)
    BY <1>11 DEF Inv, Own, Answers
  <2>3. \A d \in Conns : d # c /\ conn[d].pc = "reply" => Kept(conn[d], rows', only)
    BY <1>11 DEF Inv, Own, Answers
  <2> HIDE DEF H
  <2>4. \A d \in Conns : conn'[d].pc = "reply" => Kept(conn'[d], rows', only)
    BY <1>12, <2>1, <2>3
  <2> QED BY <1>1, <2>2, <2>4 DEF Answers
<1>14. PICK n \in Nat : v = <<n>>
  <2>1. Plain(Row(checksum, v))
    BY <1>7, <1>6 DEF AllPlain
  <2> QED BY <2>1 DEF Plain, Row
<1>15. \A r \in rows : r.value[1] \in Nat /\ r.value = <<r.value[1]>>
  BY <1>5 DEF AllPlain, Plain, Row
<1>16. Counts'
  <2>1. requests' \in Nat
    BY <1>1 DEF Inv, Own, Counts
  <2>2. ASSUME Small(setup)
        PROVE  /\ requests' <= setup.requests
               /\ \A r \in rows' : r.value[1] + setup.requests - requests' <= 9
    <3>1. requests \in Nat /\ setup.requests <= 9
          /\ \A r \in rows : r.value[1] + setup.requests - requests <= 9
      BY <2>2 DEF Inv, Own, Counts, Small
    <3>2. \/ v = <<0>>
          \/ \E r \in rows : v = <<r.value[1] + 1>>
          \/ \E r \in rows : v = r.value
      <4>1. Of(rows, checksum) \subseteq rows
        BY DEF Of
      <4>2. \/ v = <<0>>
            \/ \E r \in rows : v = <<r.value[1] + 1>>
            \/ \E r \in Of(rows, checksum) : v = r.value
        <5>1. \/ rows = {} /\ v = <<0>>
              \/ \E r \in rows : /\ v = <<r.value[1] + 1>>
                                 /\ \A s \in rows : s.value[1] <= r.value[1]
                                 /\ history => Of(rows, checksum) = {}
              \/ \E r \in Of(rows, checksum) :
                    /\ v = r.value
                    /\ history => IsLeast(r.value, Of(rows, checksum))
                    /\ ~history /\ (\A s \in rows : s.value[1] < 10) =>
                          \A s \in rows : s.value[1] <= r.value[1]
          BY <1>4, <1>5, <1>6, NextValueIs
        <5> QED BY <5>1
      <4> QED BY <4>1, <4>2
    <3>3. n + setup.requests - requests' <= 9
      <4>1. CASE v = <<0>>
        BY <1>1, <1>4, <1>14, <3>1, <4>1
      <4>2. CASE \E r \in rows : v = <<r.value[1] + 1>>
        BY <1>1, <1>4, <1>14, <1>15, <3>1, <4>2
      <4>3. CASE \E r \in rows : v = r.value
        BY <1>1, <1>4, <1>14, <1>15, <3>1, <4>3
      <4> QED BY <3>2, <4>1, <4>2, <4>3
    <3>4. \A r \in rows' : r \in rows \/ r.value = <<n>>
      BY <1>8, <1>6, <1>14 DEF Row
    <3>5. ASSUME NEW r \in rows' PROVE r.value[1] + setup.requests - requests' <= 9
      <4>1. CASE r \in rows
        BY <1>1, <1>4, <1>15, <3>1, <4>1
      <4>2. CASE r.value = <<n>>
        BY <3>3, <4>2
      <4> QED BY <3>4, <4>1, <4>2
    <3> QED BY <1>1, <1>4, <3>1, <3>5
  <2> QED BY <1>1, <2>1, <2>2 DEF Counts
<1>17. Floors'
  <2>1. ASSUME Small(setup), ~history PROVE ~Lower(v, Top)
    <3>1. \A r \in rows : r.value[1] < 10
      <4>1. requests \in Nat /\ requests < setup.requests
            /\ \A r \in rows : r.value[1] + setup.requests - requests <= 9
        BY <1>1, <2>1 DEF Inv, Own, Counts
      <4> QED BY <1>4, <1>15, <4>1
    <3>2. v = NextValue(rows, checksum, FALSE)
      BY <1>4, <1>6, <2>1
    <3>3. \A r \in rows : ~Lower(v, r.value)
      BY <1>5, <3>1, <3>2, ValueHigh
    <3>4. Top = None \/ \E g \in given : Top = g.value
      BY TopIs DEF Inv, Own, Tables
    <3>5. CASE Top = None
      BY <1>14, <3>5, NotLowerNone
    <3>6. CASE \E g \in given : Top = g.value
      <4>1. PICK g \in given : Top = g.value
        BY <3>6
      <4>2. \E r \in rows : r.value = g.value
        BY <2>1 DEF Inv, Own, Answers, Kept, Small
      <4> QED BY <3>3, <4>1, <4>2
    <3> QED BY <3>4, <3>5, <3>6
  <2>2. \A d \in Conns : conn'[d] = IF d = c THEN H ELSE conn[d]
    BY <1>3
  <2>3. Small(setup) => \A d \in Conns :
           conn[d].pc = "reply" /\ ~conn[d].history => ~Lower(conn[d].value, conn[d].floor)
    BY DEF Inv, Own, Floors
  <2> HIDE DEF H
  <2>4. Small(setup) => \A d \in Conns :
           conn'[d].pc = "reply" /\ ~conn'[d].history =>
              ~Lower(conn'[d].value, conn'[d].floor)
    BY <1>2, <2>1, <2>2, <2>3
  <2> QED BY <1>1, <2>4 DEF Floors
<1> QED BY <1>9, <1>10, <1>13, <1>16, <1>17 DEF Own

\* The answer of a handler becomes one that a client has.
LEMMA ReplyKeeps ==
    ASSUME Inv, ~setup.upstream, NEW c \in Conns, Reply(c)
    PROVE  Own'
<1> DEFINE g == [checksum |-> conn[c].checksum, history |-> conn[c].history,
                 value |-> conn[c].value]
<1>1. /\ conn[c].pc = "reply" /\ given' = given \cup {g}
      /\ conn' = [conn EXCEPT ![c] = Idle]
      /\ rows' = rows /\ requests' = requests /\ setup' = setup
  BY DEF Reply
<1>2. conn' = [d \in Conns |-> IF d = c THEN Idle ELSE conn[d]]
  BY <1>1 DEF Inv, Own, Handlers
<1>3. Idle.pc = "idle" /\ Idle.waits = FALSE
  BY DEF Idle
<1>4. Tables'
  BY <1>1, FS_AddElement DEF Inv, Own, Tables
<1>5. Handlers'
  BY <1>2, <1>3 DEF Inv, Own, Handlers
<1>6. Kept(conn[c], rows, setup.readonly)
  BY <1>1 DEF Inv, Own, Answers
<1>7. Kept(g, rows, setup.readonly)
  BY <1>6 DEF Kept
<1>8. Answers'
  BY <1>1, <1>2, <1>3, <1>7 DEF Inv, Own, Answers
<1>9. Counts'
  BY <1>1 DEF Inv, Own, Counts
<1>10. Floors'
  BY <1>1, <1>2, <1>3 DEF Inv, Own, Floors
<1> QED BY <1>4, <1>5, <1>8, <1>9, <1>10 DEF Own

\* A connection that closes takes its answer with it.
LEMMA CloseKeeps ==
    ASSUME Inv, ~setup.upstream, NEW c \in Conns, Close(c)
    PROVE  Own'
<1>1. /\ conn' = [conn EXCEPT ![c] = Idle] /\ given' = given
      /\ rows' = rows /\ requests' = requests /\ setup' = setup
  BY DEF Close
<1>2. conn' = [d \in Conns |-> IF d = c THEN Idle ELSE conn[d]]
  BY <1>1 DEF Inv, Own, Handlers
<1>3. Idle.pc = "idle" /\ Idle.waits = FALSE
  BY DEF Idle
<1>4. Tables'
  BY <1>1 DEF Inv, Own, Tables
<1>5. Handlers'
  BY <1>2, <1>3 DEF Inv, Own, Handlers
<1>6. Answers'
  BY <1>1, <1>2, <1>3 DEF Inv, Own, Answers
<1>7. Counts'
  BY <1>1 DEF Inv, Own, Counts
<1>8. Floors'
  BY <1>1, <1>2, <1>3 DEF Inv, Own, Floors
<1> QED BY <1>4, <1>5, <1>6, <1>7, <1>8 DEF Own

\* Every step keeps the invariant: the other actions need an upstream server or
\* rows to import.
LEMMA NextInv ==
    ASSUME Inv, [Next]_vars
    PROVE  Inv'
<1>1. setup' = setup
  BY DEF Next, vars, Request, UpstreamAnswers, Handle, KnownHere, KnownTested,
         PackageTested, NewTested, NewValue, Reply, Close, ImportOne, UpstreamServes
<1>2. ASSUME ~setup.upstream PROVE Own'
  <2>1. CASE UNCHANGED vars
    BY <1>2, <2>1 DEF vars, Inv, Own, Tables, Handlers, Answers, Counts, Floors
  <2>2. CASE \E c \in Conns, checksum \in Checksums, history \in Histories :
                Request(c, checksum, history)
    BY <1>2, <2>2, RequestKeeps
  <2>3. CASE \E c \in Conns : UpstreamAnswers(c) \/ Handle(c)
    BY <1>2, <2>3 DEF Inv, Own, Handlers, UpstreamAnswers, Handle, Resumes, KnownHere,
                      KnownTested, PackageTested, NewTested, NewValue
  <2>4. CASE \E c \in Conns : Reply(c)
    BY <1>2, <2>4, ReplyKeeps
  <2>5. CASE \E c \in Conns : Close(c)
    BY <1>2, <2>5, CloseKeeps
  <2>6. CASE \E r \in setup.imports : ImportOne(r)
    BY <1>2, <2>6 DEF Inv, Own, Tables
  <2>7. CASE \E checksum \in Checksums : UpstreamServes(checksum)
    BY <1>2, <2>7 DEF UpstreamServes
  <2> QED BY <2>1, <2>2, <2>3, <2>4, <2>5, <2>6, <2>7 DEF Next
<1> QED BY <1>1, <1>2 DEF Inv

\* The invariant holds at all times, if the servers' tables are their own.
THEOREM SpecInv == ASSUME OwnSetups PROVE Spec => []Inv
<1>1. Init => Inv
  BY InitInv
<1>2. Inv /\ [Next]_vars => Inv'
  BY NextInv
<1> QED BY <1>1, <1>2, PTL DEF Spec

\* Two different outputs of a package never carry the same PR, whatever clients
\* ask in whatever order, if the server's table is its own.
THEOREM SpecOneOutputPerValue == ASSUME OwnSetups PROVE Spec => []OneOutputPerValue
<1>1. Inv => OneOutputPerValue
  BY DEF Inv, Own, Tables, Distinct, OneOutputPerValue
<1>2. Spec => []Inv
  BY SpecInv
<1> QED BY <1>1, <1>2, PTL

\* With history, an output gets the same value every time, whatever other requests
\* add meanwhile, if the server's table is its own.
THEOREM SpecHistoryStable == ASSUME OwnSetups PROVE Spec => []HistoryStable
<1>1. Inv => HistoryStable
  <2> SUFFICES ASSUME Inv, ~setup.upstream, NEW g \in given, NEW h \in given,
                      g.history, h.history, g.checksum = h.checksum
               PROVE  g.value = h.value
    BY DEF HistoryStable
  <2>1. Kept(g, rows, setup.readonly) /\ Kept(h, rows, setup.readonly) /\ AllPlain(rows)
    BY DEF Inv, Own, Answers, Tables
  <2>2. CASE setup.readonly
    BY <2>1, <2>2 DEF Kept
  <2>3. CASE ~setup.readonly
    <3> DEFINE T == Of(rows, g.checksum)
    <3>1. IsLeast(g.value, T) /\ IsLeast(h.value, T)
      BY <2>1, <2>3 DEF Kept
    <3>2. \A r \in T : r.value[1] \in Nat /\ r.value = <<r.value[1]>>
      BY <2>1 DEF Of, AllPlain, Plain, Row
    <3> HIDE DEF T
    <3>3. PICK r \in T : g.value = r.value /\ \A x \in T : x.value[1] >= r.value[1]
      BY <3>1 DEF IsLeast
    <3>4. PICK s \in T : h.value = s.value /\ \A x \in T : x.value[1] >= s.value[1]
      BY <3>1 DEF IsLeast
    <3>5. r.value[1] = s.value[1]
      BY <3>2, <3>3, <3>4
    <3> QED BY <3>2, <3>3, <3>4, <3>5
  <2> QED BY <2>2, <2>3
<1>2. Spec => []Inv
  BY SpecInv
<1> QED BY <1>1, <1>2, PTL

\* A request without history never gets a value below one that some client had
\* when it was made, if the server's table is its own and no value can reach ten
\* (from ten on it does: values are compared as strings, run prserv_ten).
THEOREM SpecNeverDecremented ==
    ASSUME OwnSetups, \A s \in Setups : ~s.upstream => Small(s)
    PROVE  Spec => []NeverDecremented
<1>1. Inv => NeverDecremented
  BY DEF Inv, Own, Floors, NeverDecremented
<1>2. Spec => []Inv
  BY SpecInv
<1> QED BY <1>1, <1>2, PTL
-----------------------------------------------------------------------------
(* A server whose upstream server has none *)

\* What increase_revision does to the last number.
LEMMA IncreaseShallow ==
    ASSUME NEW v
    PROVE  /\ One(v) => One(Increase(v))
           /\ Shallow(v) => Shallow(Increase(v))
           /\ \A m, n \in Nat : v = <<m, n>> => Increase(v) = <<m, n + 1>>
<1>1. ASSUME NEW n \in Nat PROVE Increase(<<n>>) = <<n + 1>>
  BY IncreaseOne
<1>2. ASSUME NEW m \in Nat, NEW n \in Nat PROVE Increase(<<m, n>>) = <<m, n + 1>>
  BY DEF Increase
<1> QED BY <1>1, <1>2 DEF Shallow, One, Two

\* The value an output has is one of the table's.
LEMMA FindAmong ==
    ASSUME NEW S, IsFiniteSet(S), AllShallow(S), NEW c, NEW h \in BOOLEAN
    PROVE  FindValue(S, c, h) = None \/ \E r \in S : FindValue(S, c, h) = r.value
<1>1. Of(S, c) \subseteq S /\ IsFiniteSet(Of(S, c)) /\ AllShallow(Of(S, c))
  BY FS_Subset DEF Of, AllShallow
<1> QED BY <1>1, MaxAmong, MinAmong DEF FindValue

\* The next value of a table is as deep as its values.
LEMMA NextDepth ==
    ASSUME NEW S, IsFiniteSet(S), AllShallow(S), NEW c, NEW h \in BOOLEAN
    PROVE  /\ Shallow(NextValue(S, c, h))
           /\ AllPlain(S) => One(NextValue(S, c, h))
<1> DEFINE max == MaxValue(S)
           value == FindValue(S, c, h)
           v == NextValue(S, c, h)
<1>1. (S = {} /\ max = None) \/ \E r \in S : max = r.value
  BY MaxAmong
<1>2. value = None \/ \E r \in S : value = r.value
  BY FindAmong
<1>3. \A r \in S : r.value # None /\ Shallow(r.value) /\ (AllPlain(S) => One(r.value))
  <2> TAKE r \in S
  <2>1. r.value # None /\ Shallow(r.value)
    BY ShallowRows
  <2>2. AllPlain(S) => One(r.value)
    BY DEF AllPlain, Plain, Row, One
  <2> QED BY <2>1, <2>2
<1>4. \/ v = <<0>>
      \/ \E r \in S : v = Increase(r.value) \/ v = r.value
  <2>1. v = CASE max = None -> <<0>>
              [] max # None /\ value = None -> Increase(max)
              [] value # None /\ ~h /\ TextGreater(max, value) -> Increase(max)
              [] OTHER -> value
    BY DEF NextValue
  <2> HIDE DEF max, value, v
  <2>2. CASE max = None
    <3>1. value = None
      BY <1>1, <1>2, <1>3, <2>2
    <3> QED BY <2>1, <2>2, <3>1
  <2>3. CASE max # None /\ value = None
    BY <1>1, <2>1, <2>3
  <2>4. CASE max # None /\ value # None
    <3>1. v = Increase(max) \/ v = value
      BY <2>1, <2>4
    <3> QED BY <1>1, <1>2, <2>4, <3>1
  <2> QED BY <2>2, <2>3, <2>4
<1>5. One(<<0>>) /\ Shallow(<<0>>)
  BY DEF One, Shallow
<1> HIDE DEF v
<1>6. CASE v = <<0>>
  BY <1>5, <1>6 DEF v
<1>7. ASSUME NEW r \in S, v = Increase(r.value) \/ v = r.value
      PROVE  Shallow(v) /\ (AllPlain(S) => One(v))
  BY <1>3, <1>7, IncreaseShallow
<1>8. Shallow(v) /\ (AllPlain(S) => One(v))
  BY <1>4, <1>6, <1>5, <1>7
<1> QED BY <1>8 DEF v

\* Two sequences of the same one or two numbers are the same.
LEMMA SameItems ==
    ASSUME NEW u \in Seq(Nat), NEW w \in Seq(Nat), NEW n \in {1, 2}, Len(u) = n, Len(w) = n,
           u[1] = w[1], n = 2 => u[2] = w[2]
    PROVE  u = w
<1>1. \A i \in 1..Len(u) : u[i] = w[i]
  BY SMT
<1>2. Len(u) = Len(w)
  OBVIOUS
<1> QED BY <1>1, <1>2, SeqEqual

\* The first item of a sequence, as a sequence.
LEMMA FirstOf ==
    ASSUME NEW v \in Seq(Nat), 1 \in DOMAIN v
    PROVE  SubSeq(v, 1, 1) = <<v[1]>>
<1>1. v[1] \in Nat
  OBVIOUS
<1>2. /\ SubSeq(v, 1, 1) \in Seq(Nat) /\ Len(SubSeq(v, 1, 1)) = 1
      /\ SubSeq(v, 1, 1)[1] = v[1]
  BY <1>1, SubSeqProperties
<1>3. <<v[1]>> \in Seq(Nat) /\ Len(<<v[1]>>) = 1 /\ <<v[1]>>[1] = v[1]
  BY <1>1
<1> QED BY <1>2, <1>3, SameItems

\* A number is added below another.
LEMMA AppendTwo ==
    ASSUME NEW b \in Nat
    PROVE  Append(<<b>>, 0) = <<b, 0>>
<1>1. /\ Append(<<b>>, 0) \in Seq(Nat) /\ Len(Append(<<b>>, 0)) = 2
      /\ Append(<<b>>, 0)[1] = b /\ Append(<<b>>, 0)[2] = 0
  <2>1. <<b>> \in Seq(Nat) /\ Len(<<b>>) = 1 /\ <<b>>[1] = b /\ 0 \in Nat
    OBVIOUS
  <2>2. /\ Append(<<b>>, 0) \in Seq(Nat) /\ Len(Append(<<b>>, 0)) = Len(<<b>>) + 1
        /\ \A i \in 1..Len(<<b>>) : Append(<<b>>, 0)[i] = <<b>>[i]
        /\ Append(<<b>>, 0)[Len(<<b>>) + 1] = 0
    BY <2>1, AppendProperties
  <2> QED BY <2>1, <2>2
<1>2. <<b, 0>> \in Seq(Nat) /\ Len(<<b, 0>>) = 2 /\ <<b, 0>>[1] = b /\ <<b, 0>>[2] = 0
  OBVIOUS
<1> QED BY <1>1, <1>2, SameItems

\* The values that strictly extend a number have it for their first.
LEMMA Extends ==
    ASSUME NEW b \in Nat, NEW v, Shallow(v)
    PROVE  IsStrictPrefix(<<b>>, v) <=> \E n \in Nat : v = <<b, n>>
<1>1. Len(<<b>>) = 1 /\ SubSeq(<<b>>, 1, 1) = <<b>>
  <2>1. <<b>> \in Seq(Nat) /\ Len(<<b>>) = 1 /\ <<b>>[1] = b /\ 1 \in DOMAIN <<b>>
    OBVIOUS
  <2> QED BY <2>1, FirstOf
<1>2. CASE One(v)
  <2>1. PICK m \in Nat : v = <<m>>
    BY <1>2 DEF One
  <2>2. SubSeq(v, 1, 1) = v /\ Len(v) = 1
    <3>1. v \in Seq(Nat) /\ Len(v) = 1 /\ v[1] = m /\ 1 \in DOMAIN v
      BY <2>1
    <3> QED BY <2>1, <3>1, FirstOf
  <2>3. ~IsStrictPrefix(<<b>>, v)
    BY <1>1, <2>2 DEF IsStrictPrefix, IsPrefix
  <2>4. \A n \in Nat : v # <<b, n>>
    BY <2>1
  <2> QED BY <2>3, <2>4
<1>3. CASE Two(v)
  <2>1. PICK m \in Nat, n \in Nat : v = <<m, n>>
    BY <1>3 DEF Two
  <2>2. SubSeq(v, 1, 1) = <<m>> /\ Len(v) = 2
    <3>1. v \in Seq(Nat) /\ Len(v) = 2 /\ v[1] = m /\ 1 \in DOMAIN v
      BY <2>1
    <3> QED BY <3>1, FirstOf
  <2>3. <<b>> # v /\ (<<b>> = <<m>> <=> b = m)
    BY <2>1
  <2>4. IsStrictPrefix(<<b>>, v) <=> b = m
    <3>1. SubSeq(<<b>>, 1, Len(<<b>>)) = <<b>> /\ SubSeq(v, 1, Len(<<b>>)) = <<m>>
          /\ Len(<<b>>) <= Len(v)
      BY <1>1, <2>2
    <3> QED BY <2>3, <3>1 DEF IsStrictPrefix, IsPrefix
  <2> QED BY <2>1, <2>4
<1> QED BY <1>2, <1>3 DEF Shallow

\* Between them, _revision_greater is the order of the last numbers.
LEMMA GreaterTwo ==
    ASSUME NEW b \in Nat, NEW m \in Nat, NEW n \in Nat
    PROVE  Greater(<<b, m>>, <<b, n>>) <=> m > n
<1> DEFINE v == <<b, m>>
           w == <<b, n>>
           D == Differ(v, w)
<1>1. /\ DOMAIN v = {1, 2} /\ DOMAIN w = {1, 2}
      /\ v[1] = b /\ w[1] = b /\ v[2] = m /\ w[2] = n
  OBVIOUS
<1>2. D = IF m = n THEN {} ELSE {2}
  BY <1>1 DEF Differ
<1>3. Min({2}) = 2
  BY DEF Min
<1>4. v = w <=> m = n
  BY <1>1
<1> HIDE DEF v, w
<1>5. GreaterOrEqual(v, w) <=> m >= n
  BY <1>1, <1>2, <1>3 DEF GreaterOrEqual
<1>6. Greater(v, w) <=> m > n
  BY <1>4, <1>5 DEF Greater
<1> QED BY <1>6 DEF v, w

\* The new value below a number is no row's, and no deeper than the others.
LEMMA SubvalueNew ==
    ASSUME NEW S, IsFiniteSet(S), AllShallow(S), NEW b \in Nat
    PROVE  /\ Shallow(FindNewSubvalue(S, <<b>>))
           /\ \A r \in S : r.value # FindNewSubvalue(S, <<b>>)
<1> DEFINE T == {r \in S : IsStrictPrefix(<<b>>, r.value)}
           v == FindNewSubvalue(S, <<b>>)
<1>1. IsFiniteSet(T) /\ AllShallow(T)
  BY FS_Subset DEF AllShallow
<1>2. \A r \in S : r \in T <=> \E n \in Nat : r.value = <<b, n>>
  BY ShallowRows, Extends
<1>3. \A r \in T : r \in S /\ r.value[2] \in Nat /\ r.value = <<b, r.value[2]>>
  <2> TAKE r \in T
  <2>1. PICK n \in Nat : r.value = <<b, n>>
    BY <1>2
  <2> QED BY <2>1
<1>4. ComparedAt(T, 2)
  <2>1. \A m, n \in Nat : Greater(<<b, m>>, <<b, n>>) <=> m > n
    BY GreaterTwo
  <2> QED BY <1>3, <2>1 DEF ComparedAt
<1>5. \/ T = {} /\ MaxValue(T) = None
      \/ \E r \in T : MaxValue(T) = r.value /\ \A s \in T : s.value[2] <= r.value[2]
  BY <1>1, <1>4, MaxAt
<1>6. v = IF MaxValue(T) = None THEN Append(<<b>>, 0) ELSE Increase(MaxValue(T))
  BY DEF FindNewSubvalue
<1> HIDE DEF T, v
<1>7. CASE T = {} /\ MaxValue(T) = None
  <2>1. v = <<b, 0>>
    <3>1. Append(<<b>>, 0) = <<b, 0>>
      BY AppendTwo
    <3> QED BY <1>6, <1>7, <3>1
  <2>2. \A r \in S : r.value # v
    BY <1>2, <1>7, <2>1
  <2>3. Shallow(v)
    BY <2>1 DEF Shallow, Two
  <2> QED BY <2>2, <2>3 DEF v
<1>8. ASSUME NEW r \in T, MaxValue(T) = r.value, \A s \in T : s.value[2] <= r.value[2]
      PROVE  Shallow(v) /\ \A s \in S : s.value # v
  <2>1. PICK n \in Nat : n = r.value[2] /\ r.value = <<b, n>>
    BY <1>3
  <2>2. MaxValue(T) # None
    BY <1>8, <2>1 DEF None
  <2>3. v = <<b, n + 1>>
    BY <1>6, <1>8, <2>1, <2>2, IncreaseShallow
  <2>4. ASSUME NEW s \in S, s.value = v PROVE FALSE
    <3>1. s \in T /\ s.value[2] = n + 1
      BY <1>2, <2>3, <2>4
    <3> QED BY <1>8, <2>1, <3>1
  <2>5. Shallow(v)
    BY <2>3 DEF Shallow, Two
  <2> QED BY <2>4, <2>5
<1> QED BY <1>5, <1>7, <1>8 DEF v

\* The values of the upstream server are single numbers, as it has none itself;
\* those of this server are one or two numbers, and so are the ones imported.
TwoTiers ==
    \A s \in Setups :
       /\ IsFiniteSet(s.rows) /\ AllShallow(s.rows) /\ AllShallow(s.imports)
       /\ IsFiniteSet(s.up) /\ AllPlain(s.up)

\* The tables stay that deep.
Depths ==
    /\ setup \in Setups
    /\ IsFiniteSet(rows) /\ AllShallow(rows)
    /\ IsFiniteSet(up) /\ AllPlain(up)

\* What the handler h knows, with U the upstream server's table: a value of its own
\* server, an answer of one number or none, and the value below which it makes a
\* new one.
HandlerFields == {"pc", "checksum", "history", "old", "waits", "answer", "value", "floor"}

Informed(h, U) ==
    /\ HandlerFields \subseteq DOMAIN h
    /\ h.checksum \in Nat /\ h.history \in BOOLEAN
    /\ h.old # None => Shallow(h.old)
    /\ ~h.waits /\ h.answer # None => One(h.answer)
    /\ h.pc = "testknown" => One(h.value)
    /\ h.pc \in {"testnew", "newmax"} => U # {}
    /\ h.pc = "package" /\ ~h.waits /\ h.answer # None => U # {}
    /\ h.pc = "newmax" /\ ~h.waits => h.answer # None

\* The inductive invariant.
Tiers ==
    /\ Depths
    /\ conn = [c \in Conns |-> conn[c]]
    /\ \A c \in Conns : Informed(conn[c], up)

\* A handler without a request knows nothing.
LEMMA IdleInformed == \A U : Informed(Idle, U)
BY DEF Informed, Idle, None, HandlerFields

\* The service starts so.
LEMMA InitTiers ==
    ASSUME TwoTiers, Init
    PROVE  Tiers
<1>1. Depths
  BY DEF Init, TwoTiers, Depths
<1>2. ASSUME NEW c \in Conns PROVE Informed(conn[c], up)
  <2>1. conn[c] = Idle
    BY DEF Init
  <2> QED BY <2>1, IdleInformed
<1>3. conn = [c \in Conns |-> conn[c]]
  BY DEF Init
<1> QED BY <1>1, <1>2, <1>3 DEF Tiers

\* A row with a value of one or two numbers keeps the table that deep.
LEMMA StoreKeeps ==
    ASSUME Depths, NEW c \in Nat, NEW v, Shallow(v), Store(c, v), up' = up, setup' = setup
    PROVE  Depths'
<1>1. rows' = rows \/ rows' = rows \cup {Row(c, v)}
  BY DEF Store
<1>2. IsFiniteSet(rows \cup {Row(c, v)})
  BY FS_AddElement DEF Depths
<1>3. AllShallow(rows \cup {Row(c, v)})
  BY DEF Depths, AllShallow
<1> QED BY <1>1, <1>2, <1>3 DEF Depths

\* A handler that returns, or whose connection closes, needs nothing any more; what
\* the others know stays true as the upstream server's table grows.
LEMMA OthersKeep ==
    ASSUME Tiers, Depths', up # {} => up' # {}, NEW c \in Conns,
           NEW h, conn' = [conn EXCEPT ![c] = h], Informed(h, up')
    PROVE  Tiers'
<1>1. ASSUME NEW d \in Conns PROVE Informed(conn'[d], up')
  <2>1. CASE d = c
    <3>1. conn'[c] = h
      BY DEF Tiers
    <3> QED BY <2>1, <3>1
  <2>2. CASE d # c
    <3>1. conn'[d] = conn[d] /\ Informed(conn[d], up)
      BY <2>2 DEF Tiers
    <3> QED BY <3>1 DEF Informed
  <2> QED BY <2>1, <2>2
<1>2. conn' = [d \in Conns |-> conn'[d]]
  BY DEF Tiers
<1> QED BY <1>1, <1>2 DEF Tiers

\* A handler that returns needs nothing any more.
LEMMA Returned ==
    ASSUME NEW h, NEW U, Informed(h, U), NEW v
    PROVE  Informed(Return(h, v), U)
<1> DEFINE g == Return(h, v)
<1>1. /\ DOMAIN g = DOMAIN h /\ g.pc = "reply" /\ g.checksum = h.checksum
      /\ g.history = h.history /\ g.old = h.old /\ g.waits = h.waits /\ g.answer = h.answer
  BY DEF Return, Informed, HandlerFields
<1> HIDE DEF g
<1>2. Informed(g, U)
  BY <1>1 DEF Informed
<1> QED BY <1>2 DEF g

\* One that awaits an answer needs what it will use when it comes.
LEMMA Awaited ==
    ASSUME NEW h, NEW U, Informed(h, U), NEW what,
           what = "testknown" => One(h.value), what \in {"testnew", "newmax"} => U # {}
    PROVE  Informed(Await(h, what), U)
<1> DEFINE g == Await(h, what)
<1>1. /\ DOMAIN g = DOMAIN h /\ g.pc = what /\ g.checksum = h.checksum
      /\ g.history = h.history /\ g.old = h.old /\ g.waits /\ g.value = h.value
  BY DEF Await, Informed, HandlerFields
<1> HIDE DEF g
<1>2. Informed(g, U)
  BY <1>1 DEF Informed
<1> QED BY <1>2 DEF g

\* The handler h of c, stored and answered as table.get_value has it.
LEMMA GetValueTiers ==
    ASSUME Tiers, NEW c \in Conns, NEW h, Informed(h, up), GetValue(c, h),
           up' = up, setup' = setup
    PROVE  Tiers'
<1> DEFINE v == NextValue(rows, h.checksum, h.history)
<1>1. h.checksum \in Nat /\ h.history \in BOOLEAN
  BY DEF Informed
<1>2. Shallow(v)
  BY <1>1, NextDepth DEF Tiers, Depths
<1>3. Store(h.checksum, v) /\ conn' = [conn EXCEPT ![c] = Return(h, v)]
  BY DEF GetValue
<1> HIDE DEF v
<1>4. Depths'
  BY <1>1, <1>2, <1>3, StoreKeeps DEF Tiers
<1>5. Informed(Return(h, v), up')
  BY Returned
<1> QED BY <1>3, <1>4, <1>5, OthersKeep

\* One that stores and answers another value.
LEMMA StoreTiers ==
    ASSUME Tiers, NEW c \in Conns, NEW v, Shallow(v), up' = up, setup' = setup,
           Store(conn[c].checksum, v) \/ rows' = rows,
           conn' = [conn EXCEPT ![c] = Return(conn[c], v)]
    PROVE  Tiers'
<1>1. Informed(conn[c], up)
  BY DEF Tiers
<1>2. conn[c].checksum \in Nat
  BY <1>1 DEF Informed
<1>3. Depths'
  BY <1>2, StoreKeeps DEF Tiers, Depths
<1>4. Informed(Return(conn[c], v), up')
  BY <1>1, Returned
<1> QED BY <1>3, <1>4, OthersKeep

\* One that only awaits the upstream server.
LEMMA AwaitTiers ==
    ASSUME Tiers, NEW c \in Conns, NEW h, Informed(h, up), NEW what,
           what = "testknown" => One(h.value), what \in {"testnew", "newmax"} => up # {},
           conn' = [conn EXCEPT ![c] = Await(h, what)],
           rows' = rows, up' = up, setup' = setup
    PROVE  Tiers'
<1>1. Depths'
  BY DEF Tiers, Depths
<1>2. Informed(Await(h, what), up')
  BY Awaited
<1> QED BY <1>1, <1>2, OthersKeep

\* handle_get_pr starts.
LEMMA RequestTiers ==
    ASSUME Tiers, NEW c \in Conns, NEW checksum \in Nat, NEW history \in BOOLEAN,
           Request(c, checksum, history)
    PROVE  Tiers'
<1> DEFINE h == [Idle EXCEPT !.checksum = checksum, !.history = history,
                             !.old = FindValue(rows, checksum, history), !.floor = Top]
<1>1. FindValue(rows, checksum, history) # None =>
         Shallow(FindValue(rows, checksum, history))
  BY FindAmong, ShallowRows DEF Tiers, Depths
<1>2. Informed(h, up)
  BY <1>1 DEF Informed, Idle, None, HandlerFields
<1>3. /\ \/ conn' = [conn EXCEPT ![c] = Await(h, "known")] /\ rows' = rows
         \/ GetValue(c, h)
      /\ up' = up /\ setup' = setup
  BY DEF Request
<1> HIDE DEF h
<1>4. CASE conn' = [conn EXCEPT ![c] = Await(h, "known")] /\ rows' = rows
  BY <1>2, <1>3, <1>4, AwaitTiers
<1>5. CASE GetValue(c, h)
  BY <1>2, <1>3, <1>5, GetValueTiers
<1> QED BY <1>3, <1>4, <1>5

\* The upstream server answers with one of its values, or none if it has none.
LEMMA AnswerTiers ==
    ASSUME Tiers, NEW c \in Conns, UpstreamAnswers(c)
    PROVE  Tiers'
<1> DEFINE a == IF conn[c].pc \in {"testknown", "testnew"}
                THEN FindValue(up, conn[c].checksum, FALSE) ELSE MaxValue(up)
           h == [conn[c] EXCEPT !.waits = FALSE, !.answer = a]
<1>1. IsFiniteSet(up) /\ AllPlain(up) /\ AllShallow(up)
  BY PlainShallow DEF Tiers, Depths
<1>2. \A r \in up : One(r.value) /\ r.value # None
  BY <1>1, ShallowRows DEF AllPlain, Plain, Row, One
<1>3. a # None => One(a)
  BY <1>1, <1>2, FindAmong, MaxAmong
<1>4. conn[c].pc \notin {"testknown", "testnew"} => (a # None <=> up # {})
  BY <1>1, <1>2, MaxAmong
<1>5. Informed(conn[c], up)
  BY DEF Tiers
<1> HIDE DEF a
<1>6. /\ DOMAIN h = DOMAIN conn[c] /\ h.pc = conn[c].pc /\ h.checksum = conn[c].checksum
      /\ h.history = conn[c].history /\ h.old = conn[c].old /\ h.answer = a
      /\ h.value = conn[c].value
  BY <1>5 DEF Informed, HandlerFields
<1>7. conn' = [conn EXCEPT ![c] = h]
  BY DEF UpstreamAnswers, Tiers, a
<1> HIDE DEF h
<1>8. Informed(h, up)
  BY <1>3, <1>4, <1>5, <1>6 DEF Informed
<1>9. Depths' /\ up' = up
  BY DEF UpstreamAnswers, Tiers, Depths
<1> QED BY <1>7, <1>8, <1>9, OthersKeep

\* The upstream server has answered for an output that the server has, or not.
LEMMA KnownHereTiers ==
    ASSUME Tiers, NEW c \in Conns, KnownHere(c)
    PROVE  Tiers'
<1> DEFINE h == conn[c]
           v == AtLeastLocal(h.old)
<1>1. Informed(h, up) /\ ~h.waits /\ h.pc = "known"
  BY DEF Tiers, KnownHere, Resumes
<1>2. Depths /\ rows' = rows => Depths'
  BY DEF KnownHere, Depths
<1>3. up' = up /\ setup' = setup
  BY DEF KnownHere
<1>4. CASE h.old # None /\ h.history
  <2>1. GetValue(c, h)
    BY <1>4 DEF KnownHere
  <2> QED BY <1>1, <1>3, <2>1, GetValueTiers
<1>5. CASE h.old # None /\ ~h.history /\ h.answer = None
  <2> DEFINE g == [h EXCEPT !.pc = "failed"]
  <2>1. conn' = [conn EXCEPT ![c].pc = "failed"] /\ rows' = rows
    BY <1>5 DEF KnownHere
  <2>2. conn' = [conn EXCEPT ![c] = g]
    BY <2>1 DEF Tiers
  <2>3. /\ DOMAIN g = DOMAIN h /\ g.pc = "failed" /\ g.checksum = h.checksum
        /\ g.history = h.history /\ g.old = h.old /\ g.waits = h.waits
        /\ g.answer = h.answer
    BY <1>1 DEF Informed, HandlerFields
  <2> HIDE DEF g, h
  <2>4. Informed(g, up')
    BY <1>1, <1>3, <2>3 DEF Informed
  <2> QED BY <1>2, <1>3, <2>1, <2>2, <2>4, OthersKeep DEF Tiers
<1>6. CASE h.old # None /\ ~h.history /\ h.answer # None /\ Smaller(v, h.answer)
  <2> DEFINE g == [Await(h, "testknown") EXCEPT !.value = h.answer]
  <2>1. conn' = [conn EXCEPT ![c] = g] /\ rows' = rows
    BY <1>6 DEF KnownHere
  <2>2. /\ DOMAIN g = DOMAIN h /\ g.pc = "testknown" /\ g.checksum = h.checksum
        /\ g.history = h.history /\ g.old = h.old /\ g.waits /\ g.value = h.answer
    BY <1>1 DEF Informed, HandlerFields, Await
  <2> HIDE DEF g, h
  <2>3. One(h.answer)
    BY <1>1, <1>6 DEF Informed
  <2>4. Informed(g, up')
    BY <1>1, <1>3, <2>2, <2>3 DEF Informed
  <2> QED BY <1>2, <1>3, <2>1, <2>4, OthersKeep DEF Tiers
<1>7. CASE h.old # None /\ ~h.history /\ h.answer # None /\ ~Smaller(v, h.answer)
  <2>1. /\ IF v = h.old THEN UNCHANGED rows ELSE Store(h.checksum, v)
        /\ conn' = [conn EXCEPT ![c] = Return(h, v)]
    BY <1>7 DEF KnownHere
  <2>2. Shallow(v)
    <3>1. Shallow(h.old)
      BY <1>1, <1>7 DEF Informed
    <3>2. MaxValue(rows) = None \/ Shallow(MaxValue(rows))
      BY MaxAmong, ShallowRows DEF Tiers, Depths
    <3>3. ~Smaller(h.old, None)
      BY DEF Smaller, GreaterOrEqual, Differ, None
    <3> QED BY <3>1, <3>2, <3>3, IncreaseShallow DEF AtLeastLocal
  <2> QED BY <1>3, <2>1, <2>2, StoreTiers
<1>8. CASE h.old = None
  <2>1. conn' = [conn EXCEPT ![c] = Await(h, "package")] /\ rows' = rows
    BY <1>8 DEF KnownHere
  <2> QED BY <1>1, <1>3, <2>1, AwaitTiers
<1> QED BY <1>1, <1>4, <1>5, <1>6, <1>7, <1>8 DEF Informed

\* It has answered for an output that is known here, or not there.
LEMMA KnownTestedTiers ==
    ASSUME Tiers, NEW c \in Conns, KnownTested(c)
    PROVE  Tiers'
<1> DEFINE h == conn[c]
           v == IF h.answer = None THEN Append(h.value, 0) ELSE h.value
<1>1. One(h.value)
  BY DEF Tiers, Informed, KnownTested, Resumes
<1>2. Shallow(v)
  <2>1. PICK b \in Nat : h.value = <<b>>
    BY <1>1 DEF One
  <2>2. Append(h.value, 0) = <<b, 0>>
    BY <2>1, AppendTwo
  <2> QED BY <1>1, <2>2 DEF Shallow, Two
<1>3. /\ Store(h.checksum, v) /\ conn' = [conn EXCEPT ![c] = Return(h, v)]
      /\ up' = up /\ setup' = setup
  BY DEF KnownTested
<1> HIDE DEF v
<1> QED BY <1>2, <1>3, StoreTiers

\* It has answered whether it knows the package.
LEMMA PackageTestedTiers ==
    ASSUME Tiers, NEW c \in Conns, PackageTested(c)
    PROVE  Tiers'
<1> DEFINE h == conn[c]
<1>1. Informed(h, up) /\ ~h.waits /\ h.pc = "package"
  BY DEF Tiers, PackageTested, Resumes
<1>2. up' = up /\ setup' = setup
  BY DEF PackageTested
<1>3. CASE h.answer = None
  <2>1. GetValue(c, h)
    BY <1>3 DEF PackageTested
  <2> QED BY <1>1, <1>2, <2>1, GetValueTiers
<1>4. CASE h.answer # None
  <2>1. conn' = [conn EXCEPT ![c] = Await(@, "testnew")] /\ rows' = rows
    BY <1>4 DEF PackageTested
  <2>2. conn' = [conn EXCEPT ![c] = Await(h, "testnew")]
    BY <2>1 DEF Tiers
  <2>3. up # {}
    BY <1>1, <1>4 DEF Informed
  <2> QED BY <1>1, <1>2, <2>1, <2>2, <2>3, AwaitTiers
<1> QED BY <1>3, <1>4

\* It has answered whether it knows the output.
LEMMA NewTestedTiers ==
    ASSUME Tiers, NEW c \in Conns, NewTested(c)
    PROVE  Tiers'
<1> DEFINE h == conn[c]
<1>1. Informed(h, up) /\ ~h.waits /\ h.pc = "testnew"
  BY DEF Tiers, NewTested, Resumes
<1>2. up' = up /\ setup' = setup
  BY DEF NewTested
<1>3. CASE h.answer = None
  <2>1. conn' = [conn EXCEPT ![c] = Await(h, "newmax")] /\ rows' = rows
    BY <1>3 DEF NewTested
  <2>2. up # {}
    BY <1>1 DEF Informed
  <2> QED BY <1>1, <1>2, <2>1, <2>2, AwaitTiers
<1>4. CASE h.answer # None
  <2>1. Store(h.checksum, h.answer) /\ conn' = [conn EXCEPT ![c] = Return(h, h.answer)]
    BY <1>4 DEF NewTested
  <2>2. Shallow(h.answer)
    BY <1>1, <1>4 DEF Informed, Shallow
  <2> QED BY <1>2, <2>1, <2>2, StoreTiers
<1> QED BY <1>3, <1>4

\* The value made for an output new to both servers is no row's; it keeps the table
\* as deep as it was.
LEMMA NewValueTiers ==
    ASSUME Tiers, NEW c \in Conns, NewValue(c)
    PROVE  Tiers' /\ \A r \in rows : r.value # conn'[c].value
<1> DEFINE h == conn[c]
           v == FindNewSubvalue(rows, h.answer)
<1>1. Informed(h, up) /\ ~h.waits /\ h.pc = "newmax"
  BY DEF Tiers, NewValue, Resumes
<1>2. PICK b \in Nat : h.answer = <<b>>
  BY <1>1 DEF Informed, One
<1>3. Shallow(v) /\ \A r \in rows : r.value # v
  BY <1>2, SubvalueNew DEF Tiers, Depths
<1>4. /\ Store(h.checksum, v) /\ conn' = [conn EXCEPT ![c] = Return(h, v)]
      /\ up' = up /\ setup' = setup
  BY DEF NewValue
<1> HIDE DEF v
<1>5. conn'[c] = Return(h, v)
  BY <1>4 DEF Tiers
<1>6. conn'[c].value = v
  BY <1>1, <1>5 DEF Return, Informed, HandlerFields
<1> QED BY <1>3, <1>4, <1>6, StoreTiers

\* The upstream server serves clients of its own with values of one number.
LEMMA UpstreamTiers ==
    ASSUME Tiers, NEW checksum \in Nat, UpstreamServes(checksum)
    PROVE  Tiers'
<1> DEFINE v == NextValue(up, checksum, FALSE)
<1>1. IsFiniteSet(up) /\ AllPlain(up) /\ AllShallow(up)
  BY PlainShallow DEF Tiers, Depths
<1>2. One(v)
  BY <1>1, NextDepth
<1>3. /\ up' = up \cup {Row(checksum, v)}
      /\ rows' = rows /\ conn' = conn /\ setup' = setup
  BY DEF UpstreamServes
<1> HIDE DEF v
<1>4. IsFiniteSet(up')
  BY <1>1, <1>3, FS_AddElement
<1>5. AllPlain(up')
  BY <1>1, <1>2, <1>3 DEF AllPlain, Plain, One
<1>6. Depths'
  BY <1>3, <1>4, <1>5 DEF Tiers, Depths
<1>7. ASSUME NEW c \in Conns PROVE Informed(conn'[c], up')
  <2>1. conn'[c] = conn[c] /\ Informed(conn[c], up)
    BY <1>3 DEF Tiers
  <2>2. up # {} => up' # {}
    BY <1>3
  <2> QED BY <2>1, <2>2 DEF Informed
<1> QED BY <1>3, <1>6, <1>7 DEF Tiers

\* Every step keeps the invariant.
LEMMA NextTiers ==
    ASSUME TwoTiers, Tiers, [Next]_vars
    PROVE  Tiers'
<1>1. CASE UNCHANGED vars
  <2>1. Depths'
    BY <1>1 DEF Tiers, Depths, vars
  <2> QED BY <1>1, <2>1 DEF Tiers, vars
<1>2. ASSUME NEW c \in Conns, NEW checksum \in Checksums, NEW history \in Histories,
             Request(c, checksum, history)
      PROVE  Tiers'
  BY <1>2, RequestTiers, PRServAssumption
<1>3. ASSUME NEW c \in Conns, UpstreamAnswers(c) PROVE Tiers'
  BY <1>3, AnswerTiers
<1>4. ASSUME NEW c \in Conns, Handle(c) PROVE Tiers'
  BY <1>4, KnownHereTiers, KnownTestedTiers, PackageTestedTiers, NewTestedTiers,
     NewValueTiers DEF Handle
<1>5. ASSUME NEW c \in Conns, Reply(c) \/ Close(c) PROVE Tiers'
  <2>1. /\ conn' = [conn EXCEPT ![c] = Idle]
        /\ rows' = rows /\ up' = up /\ setup' = setup
    BY <1>5 DEF Reply, Close
  <2>2. Depths'
    BY <2>1 DEF Tiers, Depths
  <2> QED BY <2>1, <2>2, IdleInformed, OthersKeep
<1>6. ASSUME NEW r \in setup.imports, ImportOne(r) PROVE Tiers'
  <2>1. /\ Store(r.checksum, r.value) /\ conn' = conn /\ up' = up /\ setup' = setup
    BY <1>6 DEF ImportOne
  <2>2. r.checksum \in Nat /\ Shallow(r.value)
    BY <1>6, ShallowRows DEF Tiers, Depths, TwoTiers
  <2>3. Depths'
    BY <2>1, <2>2, StoreKeeps DEF Tiers
  <2> QED BY <2>1, <2>3 DEF Tiers
<1>7. ASSUME NEW checksum \in Checksums, UpstreamServes(checksum) PROVE Tiers'
  BY <1>7, UpstreamTiers, PRServAssumption
<1> QED BY <1>1, <1>2, <1>3, <1>4, <1>5, <1>6, <1>7 DEF Next

\* A handler that returns where it asked for the greatest value made a new one.
LEMMA ReturnsNew ==
    ASSUME Tiers, [Next]_vars, NEW c \in Conns, conn[c].pc = "newmax", conn'[c].pc = "reply"
    PROVE  NewValue(c)
<1>1. conn'[c] # conn[c]
  OBVIOUS
<1>2. ASSUME NEW d \in Conns, NEW h, conn' = [conn EXCEPT ![d] = h]
      PROVE  d = c /\ h = conn'[c]
  BY <1>1, <1>2 DEF Tiers
<1>3. ASSUME NEW d \in Conns, NEW checksum, NEW history, Request(d, checksum, history)
      PROVE  FALSE
  <2>1. conn[d].pc = "idle" /\ \E h : conn' = [conn EXCEPT ![d] = h]
    BY <1>3 DEF Request, GetValue
  <2> QED BY <1>2, <2>1
<1>4. ASSUME NEW d \in Conns, UpstreamAnswers(d) PROVE FALSE
  <2>1. conn'[d].pc = conn[d].pc /\ \A e \in Conns \ {d} : conn'[e] = conn[e]
    BY <1>4 DEF UpstreamAnswers, Tiers, Informed, HandlerFields
  <2> QED BY <1>1, <2>1
<1>5. ASSUME NEW d \in Conns,
             KnownHere(d) \/ KnownTested(d) \/ PackageTested(d) \/ NewTested(d)
      PROVE  FALSE
  <2>1. conn[d].pc # "newmax" /\ \A e \in Conns \ {d} : conn'[e] = conn[e]
    BY <1>5 DEF KnownHere, KnownTested, PackageTested, NewTested, GetValue, Resumes, Tiers
  <2> QED BY <1>1, <2>1
<1>6. ASSUME NEW d \in Conns, NewValue(d) PROVE NewValue(c)
  <2>1. \E h : conn' = [conn EXCEPT ![d] = h]
    BY <1>6 DEF NewValue
  <2> QED BY <1>2, <1>6, <2>1
<1>7. ASSUME NEW d \in Conns, Reply(d) \/ Close(d) PROVE FALSE
  <2>1. conn' = [conn EXCEPT ![d] = Idle]
    BY <1>7 DEF Reply, Close
  <2> QED BY <1>2, <2>1 DEF Idle
<1>8. ASSUME UNCHANGED conn PROVE FALSE
  BY <1>1, <1>8
<1> QED
  BY <1>3, <1>4, <1>5, <1>6, <1>7, <1>8 DEF Next, Handle, ImportOne, UpstreamServes, vars

\* The tables stay as deep as those of two tiers of servers, and handlers look for
\* new values below single numbers only.
THEOREM SpecTiers == ASSUME TwoTiers PROVE Spec => []Tiers
<1>1. Init => Tiers
  BY InitTiers
<1>2. Tiers /\ [Next]_vars => Tiers'
  BY NextTiers
<1> QED BY <1>1, <1>2, PTL DEF Spec

\* handle_get_pr, for an output that neither server knows: the value it makes below
\* the greatest one upstream is not that of another output, whatever the server
\* stored and the upstream server answered while it waited, if that server has none
\* itself.
THEOREM SpecFreshIsNew == ASSUME TwoTiers PROVE Spec => FreshIsNew
<1>1. Tiers /\ [Next]_vars =>
         [\A c \in Conns : conn[c].pc = "newmax" /\ conn'[c].pc = "reply" =>
             ~TakenByOther(conn'[c].value, conn[c].checksum)]_vars
  <2> SUFFICES ASSUME Tiers, [Next]_vars, NEW c \in Conns,
                      conn[c].pc = "newmax", conn'[c].pc = "reply"
               PROVE  ~TakenByOther(conn'[c].value, conn[c].checksum)
    OBVIOUS
  <2>1. \A r \in rows : r.value # conn'[c].value
    BY ReturnsNew, NewValueTiers
  <2> QED BY <2>1 DEF TakenByOther
<1> QED BY <1>1, SpecTiers, PTL DEF Spec, FreshIsNew

=============================================================================
