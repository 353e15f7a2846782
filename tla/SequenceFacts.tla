--------------------------- MODULE SequenceFacts ----------------------------
(***************************************************************************)
(* Sequences used as ordered sets: which elements they hold, and that they *)
(* hold each of them once.  The queues, the registry's dict order and the  *)
(* unpublished updates of the order service are such sequences.            *)
(* Last, induction as facts about sets, for what recursive functions       *)
(* compute.                                                                *)
(***************************************************************************)
EXTENDS Integers, Sequences, SequencesExt, SequenceTheorems,
        WellFoundedInduction, TLAPS

\* Appending adds one element at the end.
LEMMA AppendFacts ==
  ASSUME NEW S, NEW s \in Seq(S), NEW e \in S
  PROVE  /\ Append(s, e) \in Seq(S)
         /\ Len(Append(s, e)) = Len(s) + 1
         /\ DOMAIN Append(s, e) = 1..Len(s) + 1
         /\ \A i \in 1..Len(s) : Append(s, e)[i] = s[i]
         /\ Append(s, e)[Len(s) + 1] = e
         /\ Append(s, e) # <<>>
  OBVIOUS

\* What a sequence holds once an element is appended.
LEMMA AppendHolds ==
  ASSUME NEW S, NEW s \in Seq(S), NEW e \in S
  PROVE  \A x : Contains(Append(s, e), x) <=> Contains(s, x) \/ x = e
<1>1. /\ DOMAIN s = 1..Len(s) /\ Len(s) \in Nat
      /\ DOMAIN Append(s, e) = 1..Len(s) + 1
      /\ \A i \in 1..Len(s) : Append(s, e)[i] = s[i]
      /\ Append(s, e)[Len(s) + 1] = e
  BY AppendFacts
<1>2. ASSUME NEW x, Contains(s, x) PROVE Contains(Append(s, e), x)
  BY <1>1, <1>2 DEF Contains
<1>3. ASSUME NEW x, Contains(Append(s, e), x) PROVE Contains(s, x) \/ x = e
  BY <1>1, <1>3 DEF Contains
<1>4. Contains(Append(s, e), e)
  BY <1>1 DEF Contains
<1> QED BY <1>2, <1>3, <1>4

\* Appending a new element keeps a sequence injective.
LEMMA AppendInjects ==
  ASSUME NEW S, NEW s \in Seq(S), NEW e \in S, IsInjective(s), ~Contains(s, e)
  PROVE  IsInjective(Append(s, e))
<1>1. /\ DOMAIN s = 1..Len(s) /\ Len(s) \in Nat
      /\ DOMAIN Append(s, e) = 1..Len(s) + 1
      /\ \A i \in 1..Len(s) : Append(s, e)[i] = s[i]
      /\ Append(s, e)[Len(s) + 1] = e
  BY AppendFacts
<1> QED BY <1>1 DEF IsInjective, Contains

\* The tail is the sequence shifted by one.
LEMMA TailFacts ==
  ASSUME NEW S, NEW s \in Seq(S), s # <<>>
  PROVE  /\ Tail(s) \in Seq(S) /\ Head(s) \in S /\ Head(s) = s[1]
         /\ Len(s) \in Nat \ {0} /\ DOMAIN s = 1..Len(s)
         /\ Len(Tail(s)) = Len(s) - 1
         /\ DOMAIN Tail(s) = 1..Len(s) - 1
         /\ \A i \in 1..Len(s) - 1 : Tail(s)[i] = s[i + 1]
  OBVIOUS

\* The tail of an injective sequence is injective and loses just its head.
LEMMA TailHolds ==
  ASSUME NEW S, NEW s \in Seq(S), s # <<>>, IsInjective(s)
  PROVE  /\ IsInjective(Tail(s))
         /\ \A x : Contains(Tail(s), x) <=> Contains(s, x) /\ x # Head(s)
<1>1. /\ Head(s) = s[1] /\ Len(s) \in Nat \ {0} /\ DOMAIN s = 1..Len(s)
      /\ DOMAIN Tail(s) = 1..Len(s) - 1
      /\ \A i \in 1..Len(s) - 1 : Tail(s)[i] = s[i + 1]
  BY TailFacts
<1>2. ASSUME NEW i \in DOMAIN Tail(s), NEW j \in DOMAIN Tail(s),
             Tail(s)[i] = Tail(s)[j]
      PROVE  i = j
  BY <1>1, <1>2 DEF IsInjective
<1>3. ASSUME NEW x, Contains(Tail(s), x) PROVE Contains(s, x) /\ x # Head(s)
  <2>1. PICK i \in 1..Len(s) - 1 : s[i + 1] = x
    BY <1>1, <1>3 DEF Contains
  <2> QED BY <1>1, <2>1 DEF Contains, IsInjective
<1>4. ASSUME NEW x, Contains(s, x), x # Head(s) PROVE Contains(Tail(s), x)
  <2>1. PICK i \in 1..Len(s) : s[i] = x
    BY <1>1, <1>4 DEF Contains
  <2>2. i - 1 \in 1..Len(s) - 1 /\ Tail(s)[i - 1] = x
    BY <1>1, <1>4, <2>1
  <2> QED BY <1>1, <2>2 DEF Contains
<1> QED BY <1>2, <1>3, <1>4 DEF IsInjective

\* Removing a position shifts what follows it.
LEMMA RemoveAtFacts ==
  ASSUME NEW S, NEW s \in Seq(S), NEW p \in 1..Len(s)
  PROVE  /\ RemoveAt(s, p) \in Seq(S)
         /\ Len(RemoveAt(s, p)) = Len(s) - 1
         /\ DOMAIN RemoveAt(s, p) = 1..Len(s) - 1
         /\ \A i \in 1..Len(s) - 1 :
              RemoveAt(s, p)[i] = IF i < p THEN s[i] ELSE s[i + 1]
<1>1. Len(s) \in Nat
  OBVIOUS
<1> DEFINE a == SubSeq(s, 1, p - 1)
           b == SubSeq(s, p + 1, Len(s))
<1>2. a \in Seq(S) /\ Len(a) = p - 1 /\ \A i \in 1..p - 1 : a[i] = s[i]
  BY <1>1
<1>3. b \in Seq(S) /\ Len(b) = Len(s) - p
        /\ \A i \in 1..Len(s) - p : b[i] = s[p + i]
  BY <1>1
<1> HIDE DEF a, b
<1>4. /\ a \o b \in Seq(S) /\ Len(a \o b) = Len(s) - 1
      /\ DOMAIN (a \o b) = 1..Len(s) - 1
      /\ \A i \in 1..p - 1 : (a \o b)[i] = a[i]
      /\ \A i \in p..Len(s) - 1 : (a \o b)[i] = b[i - (p - 1)]
  <2> DEFINE ab == a \o b
  <2>1. /\ ab \in Seq(S) /\ Len(ab) = Len(a) + Len(b)
        /\ \A i \in 1..Len(a) + Len(b) :
             ab[i] = IF i <= Len(a) THEN a[i] ELSE b[i - Len(a)]
    BY <1>2, <1>3, ConcatProperties
  <2>2. DOMAIN ab = 1..Len(ab)
    BY <2>1, LenProperties
  <2> HIDE DEF ab
  <2>3. Len(ab) = Len(s) - 1
    BY <1>1, <1>2, <1>3, <2>1
  <2>4. ASSUME NEW i \in 1..p - 1 PROVE ab[i] = a[i]
    <3>1. Len(a) = p - 1 /\ Len(a) + Len(b) = Len(s) - 1
      BY <1>1, <1>2, <1>3
    <3>2. i \in 1..Len(a) + Len(b) /\ i <= Len(a)
      BY <1>1, <3>1
    <3> QED BY <2>1, <3>2
  <2>5. ASSUME NEW i \in p..Len(s) - 1 PROVE ab[i] = b[i - (p - 1)]
    <3>1. Len(a) = p - 1 /\ Len(a) + Len(b) = Len(s) - 1
      BY <1>1, <1>2, <1>3
    <3>2. i \in 1..Len(a) + Len(b) /\ ~(i <= Len(a))
      BY <1>1, <3>1
    <3> QED BY <2>1, <3>1, <3>2
  <2> QED BY <2>1, <2>2, <2>3, <2>4, <2>5 DEF ab
<1>5. \A i \in p..Len(s) - 1 : b[i - (p - 1)] = s[i + 1]
  BY <1>1, <1>3
<1>6. RemoveAt(s, p) = a \o b
  BY DEF RemoveAt, a, b
<1> QED BY <1>1, <1>2, <1>4, <1>5, <1>6

\* Removing a position of an injective sequence removes just its element.
LEMMA RemoveAtHolds ==
  ASSUME NEW S, NEW s \in Seq(S), NEW p \in 1..Len(s), IsInjective(s)
  PROVE  /\ IsInjective(RemoveAt(s, p))
         /\ \A x : Contains(RemoveAt(s, p), x) <=> Contains(s, x) /\ x # s[p]
<1> DEFINE r == RemoveAt(s, p)
<1>1. /\ Len(s) \in Nat /\ DOMAIN s = 1..Len(s)
      /\ DOMAIN r = 1..Len(s) - 1
      /\ \A i \in 1..Len(s) - 1 : r[i] = IF i < p THEN s[i] ELSE s[i + 1]
  <2>1. Len(s) \in Nat /\ DOMAIN s = 1..Len(s)
    OBVIOUS
  <2> QED BY <2>1, RemoveAtFacts
<1> HIDE DEF r
<1>2. IsInjective(r)
  <2>1. SUFFICES ASSUME NEW i \in DOMAIN r, NEW j \in DOMAIN r, r[i] = r[j]
                 PROVE  i = j
    BY DEF IsInjective
  <2> DEFINE at(n) == IF n < p THEN n ELSE n + 1
  <2>2. at(i) \in DOMAIN s /\ at(j) \in DOMAIN s /\ s[at(i)] = s[at(j)]
    BY <1>1, <2>1
  <2>3. at(i) = at(j)
    BY <2>2 DEF IsInjective
  <2> QED BY <1>1, <2>1, <2>3
<1>3. ASSUME NEW x, Contains(r, x) PROVE Contains(s, x) /\ x # s[p]
  <2>1. PICK i \in 1..Len(s) - 1 : r[i] = x
    BY <1>1, <1>3 DEF Contains
  <2>2. PICK j \in 1..Len(s) : s[j] = x /\ j # p
    BY <1>1, <2>1
  <2> QED BY <1>1, <2>2 DEF Contains, IsInjective
<1>4. ASSUME NEW x, Contains(s, x), x # s[p] PROVE Contains(r, x)
  <2>1. PICK j \in 1..Len(s) : s[j] = x /\ j # p
    BY <1>1, <1>4 DEF Contains
  <2>2. CASE j < p
    BY <1>1, <2>1, <2>2 DEF Contains
  <2>3. CASE j > p
    <3>1. j - 1 \in 1..Len(s) - 1 /\ r[j - 1] = x
      BY <1>1, <2>1, <2>3
    <3> QED BY <1>1, <3>1 DEF Contains
  <2> QED BY <1>1, <2>1, <2>2, <2>3
<1> QED BY <1>2, <1>3, <1>4 DEF r

\* A function on 1..n is a sequence of length n.
LEMMA FunctionIsSequence ==
  ASSUME NEW S, NEW n \in Nat, NEW f \in [1..n -> S]
  PROVE  f \in Seq(S) /\ Len(f) = n
<1>1. f \in Seq(S)
  BY SeqDef
<1>2. Len(f) \in Nat /\ DOMAIN f = 1..Len(f) /\ DOMAIN f = 1..n
  BY <1>1
<1>3. Len(f) = n
  BY <1>2
<1> QED BY <1>1, <1>3

-----------------------------------------------------------------------------
(* Induction, and functions defined by it.                                 *)

\* Induction up to a bound, over a set: what holds of 0 and of every next number
\* holds of all.
LEMMA SetInduction ==
  ASSUME NEW N \in Nat, NEW T, 0 \in T, \A n \in 1..N : n - 1 \in T => n \in T
  PROVE  \A n \in 0..N : n \in T
<1> DEFINE R == OpToRel(<, Nat)
           U == {n \in Nat : n <= N /\ n \notin T}
<1>1. IsWellFoundedOn(R, Nat)
  BY NatLessThanWellFounded
<1>2. \A x, y \in Nat : x < y => <<x, y>> \in R
  BY DEF OpToRel
<1> HIDE DEF R
<1>3. SUFFICES ASSUME U # {}
               PROVE  FALSE
  OBVIOUS
<1>4. PICK x \in U : \A y \in U : ~(<<y, x>> \in R)
  BY <1>1, <1>3, WFMin
<1>5. x - 1 \in Nat /\ x \in 1..N /\ x \in Nat /\ x - 1 < x
  OBVIOUS
<1>6. <<x - 1, x>> \in R
  BY <1>2, <1>5
<1>7. x - 1 \notin U
  BY <1>4, <1>6
<1>8. x - 1 \in T
  BY <1>5, <1>7
<1> QED BY <1>5, <1>8

\* f is what comes of b by the steps g: g[n] leads to the value for n.
Iterates(f, N, S, b, g) ==
  /\ f \in [0..N -> S] /\ f[0] = b
  /\ \A n \in 1..N : f[n] = g[n][f[n - 1]]

\* A function on numbers may be defined by its first value and a step from each
\* value to the next.
LEMMA Recursion ==
  ASSUME NEW N \in Nat, NEW S, NEW b \in S, NEW g \in [1..N -> [S -> S]]
  PROVE  \E f : Iterates(f, N, S, b, g)
<1> DEFINE Good(n) == \E f \in [0..n -> S] :
                        f[0] = b /\ \A m \in 1..n : f[m] = g[m][f[m - 1]]
           T == {n \in 0..N : Good(n)}
<1>1. Good(0)
  <2> DEFINE f == [i \in 0..0 |-> b]
  <2>1. f \in [0..0 -> S] /\ f[0] = b /\ 1..0 = {}
    OBVIOUS
  <2> QED BY <2>1
<1>2. ASSUME NEW n \in 1..N, Good(n - 1)
      PROVE  Good(n)
  <2>1. PICK f \in [0..(n - 1) -> S] :
               f[0] = b /\ \A m \in 1..(n - 1) : f[m] = g[m][f[m - 1]]
    BY <1>2
  <2> DEFINE h == [i \in 0..n |-> IF i = n THEN g[n][f[n - 1]] ELSE f[i]]
  <2>2. h \in [0..n -> S] /\ h[0] = b
    BY <2>1
  <2>3. \A m \in 1..n : h[m] = g[m][h[m - 1]]
    BY <2>1
  <2> HIDE DEF h
  <2> QED BY <2>2, <2>3
<1> HIDE DEF Good
<1>3. \A n \in 0..N : n \in T
  <2>1. 0 \in T /\ \A n \in 1..N : n - 1 \in T => n \in T
    BY <1>1, <1>2
  <2> HIDE DEF T
  <2> QED BY <2>1, SetInduction
<1> QED BY <1>3 DEF Good, Iterates

\* Induction over sequences: what holds of the empty sequence, and of a sequence
\* with one more element, holds of all.
LEMMA SequenceInduction ==
  ASSUME NEW S, NEW T, <<>> \in T,
         \A s \in Seq(S) : \A e \in S : s \in T => Append(s, e) \in T
  PROVE  \A s \in Seq(S) : s \in T
<1>1. SUFFICES ASSUME NEW s \in Seq(S)
               PROVE  s \in T
  OBVIOUS
<1> DEFINE N == Len(s)
           P(n) == SubSeq(s, 1, n)
           U == {n \in 0..N : P(n) \in T}
<1>2. N \in Nat /\ \A n \in 1..N : s[n] \in S
  OBVIOUS
<1>3. P(0) = <<>> /\ P(N) = s
  BY SubSeqEmpty, SubSeqFull
<1>4. ASSUME NEW n \in 0..N
      PROVE  P(n) \in Seq(S) /\ Len(P(n)) = n /\ \A i \in 1..n : P(n)[i] = s[i]
  BY <1>2
<1> HIDE DEF N, P
<1>5. ASSUME NEW n \in 1..N
      PROVE  P(n - 1) \in Seq(S) /\ P(n) = Append(P(n - 1), s[n])
  <2> DEFINE c == Append(P(n - 1), s[n])
  <2>1. n \in 0..N /\ n - 1 \in 0..N /\ n \in Nat
    BY <1>2
  <2>2. /\ P(n) \in Seq(S) /\ Len(P(n)) = n
        /\ \A i \in 1..n : P(n)[i] = s[i]
    BY <1>4, <2>1
  <2>3. /\ P(n - 1) \in Seq(S) /\ Len(P(n - 1)) = n - 1
        /\ \A i \in 1..(n - 1) : P(n - 1)[i] = s[i]
    BY <1>4, <2>1
  <2>4. /\ c \in Seq(S) /\ Len(c) = Len(P(n - 1)) + 1
        /\ \A i \in 1..Len(P(n - 1)) : c[i] = P(n - 1)[i]
        /\ c[Len(P(n - 1)) + 1] = s[n]
    BY <1>2, <2>3, AppendFacts
  <2> HIDE DEF c
  <2>5. Len(c) = n /\ \A i \in 1..(n - 1) : c[i] = s[i]
    BY <2>1, <2>3, <2>4
  <2>6. c[n] = s[n]
    BY <2>1, <2>3, <2>4
  <2>7. ASSUME NEW i \in 1..n PROVE P(n)[i] = c[i]
    <3>1. i = n \/ i \in 1..(n - 1)
      BY <2>1
    <3> QED BY <2>2, <2>5, <2>6, <3>1
  <2>8. P(n) = c
    BY <2>2, <2>4, <2>5, <2>7, SeqEqual
  <2> QED BY <2>3, <2>8 DEF c
<1>6. ASSUME NEW n \in 1..N, n - 1 \in U
      PROVE  n \in U
  <2>1. P(n - 1) \in Seq(S) /\ s[n] \in S /\ P(n - 1) \in T
    BY <1>2, <1>5, <1>6
  <2>2. Append(P(n - 1), s[n]) \in T
    BY <2>1
  <2>3. P(n) = Append(P(n - 1), s[n])
    BY <1>5
  <2>4. P(n) \in T
    BY <2>2, <2>3, Zenon
  <2>5. n \in 0..N
    BY <1>2
  <2> QED BY <2>4, <2>5
<1>7. 0 \in U
  BY <1>2, <1>3
<1> HIDE DEF U
<1>8. \A n \in 0..N : n \in U
  BY <1>2, <1>6, <1>7, SetInduction
<1>9. N \in U
  BY <1>2, <1>8
<1> QED BY <1>3, <1>9 DEF U
=============================================================================
