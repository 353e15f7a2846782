-------------------------- MODULE TableViewsProofs --------------------------
(***************************************************************************)
(* Proofs about TableViews: what the browser shows, for any tables, orders *)
(* and limits and any number of updates and faults.                        *)
(***************************************************************************)
EXTENDS TableViews, SequenceFacts, FiniteSetTheorems, TLAPS

-----------------------------------------------------------------------------
(* The elements of a sequence that are in a set.                           *)

\* kept are the elements of s in set, prefix by prefix.
Keeps(kept, s, set, S) ==
  /\ kept \in [0..Len(s) -> Seq(S)] /\ kept[0] = <<>>
  /\ \A n \in 1..Len(s) :
       kept[n] = IF s[n] \in set THEN Append(kept[n - 1], s[n]) ELSE kept[n - 1]

\* Only is the last of them.
LEMMA OnlyFixpoint ==
  ASSUME NEW S, NEW s \in Seq(S), NEW set
  PROVE  \E kept : Keeps(kept, s, set, S) /\ Only(s, set) = kept[Len(s)]
<1> DEFINE N == Len(s)
           g == [n \in 1..N |-> [r \in Seq(S) |->
                   IF s[n] \in set THEN Append(r, s[n]) ELSE r]]
<1>1. N \in Nat /\ \A n \in 1..N : s[n] \in S
  OBVIOUS
<1>2. g \in [1..N -> [Seq(S) -> Seq(S)]]
  <2>1. \A r \in Seq(S) : \A e \in S : Append(r, e) \in Seq(S)
    OBVIOUS
  <2> HIDE DEF N
  <2> QED BY <1>1, <2>1
<1>3. <<>> \in Seq(S)
  OBVIOUS
<1>4. \A n \in 1..N : \A r \in Seq(S) :
        g[n][r] = IF s[n] \in set THEN Append(r, s[n]) ELSE r
  OBVIOUS
<1> HIDE DEF g, N
<1>5. PICK f : Iterates(f, N, Seq(S), <<>>, g)
  BY <1>1, <1>2, <1>3, Recursion
<1>6. /\ f \in [0..N -> Seq(S)] /\ f[0] = <<>>
      /\ \A n \in 1..N : f[n] = g[n][f[n - 1]]
  BY <1>5 DEF Iterates
<1>7. \A n \in 1..N : n - 1 \in 0..N /\ f[n - 1] \in Seq(S)
  BY <1>1, <1>6
<1>8. \A n \in 1..N :
        f[n] = IF s[n] \in set THEN Append(f[n - 1], s[n]) ELSE f[n - 1]
  BY <1>4, <1>6, <1>7
<1>9. \A n \in 0..N : n = 0 \/ n \in 1..N
  BY <1>1
<1>10. f = [n \in 0..N |->
              IF n = 0 THEN <<>>
              ELSE IF s[n] \in set THEN Append(f[n - 1], s[n]) ELSE f[n - 1]]
  BY <1>6, <1>8, <1>9
<1> DEFINE kept == CHOOSE k : k = [n \in 0..N |->
              IF n = 0 THEN <<>>
              ELSE IF s[n] \in set THEN Append(k[n - 1], s[n]) ELSE k[n - 1]]
<1>11. Only(s, set) = kept[N]
  BY DEF Only, N
<1>12. kept = [n \in 0..N |->
              IF n = 0 THEN <<>>
              ELSE IF s[n] \in set THEN Append(kept[n - 1], s[n]) ELSE kept[n - 1]]
  BY <1>10
<1> HIDE DEF kept
<1>13. kept[0] = <<>>
  BY <1>1, <1>12
<1>14. ASSUME NEW n \in 1..N
       PROVE  kept[n] =
                IF s[n] \in set THEN Append(kept[n - 1], s[n]) ELSE kept[n - 1]
  <2>1. n \in 0..N /\ n # 0
    BY <1>1
  <2> QED BY <1>12, <2>1
<1> DEFINE T == {n \in 0..N : kept[n] \in Seq(S)}
<1>15. 0 \in T
  <2>1. kept[0] \in Seq(S)
    BY <1>3, <1>13, Zenon
  <2>2. 0 \in 0..N
    BY <1>1
  <2> QED BY <2>1, <2>2
<1>16. ASSUME NEW n \in 1..N, n - 1 \in T
       PROVE  n \in T
  <2>1. n \in 0..N /\ s[n] \in S /\ kept[n - 1] \in Seq(S)
    BY <1>1, <1>16
  <2>2. Append(kept[n - 1], s[n]) \in Seq(S)
    BY <2>1
  <2>3. kept[n] \in Seq(S)
    BY <1>14, <2>1, <2>2
  <2> QED BY <2>1, <2>3
<1> HIDE DEF T
<1>17. \A n \in 0..N : n \in T
  BY <1>1, <1>15, <1>16, SetInduction
<1>18. kept \in [0..N -> Seq(S)]
  BY <1>12, <1>17 DEF T
<1> QED BY <1>11, <1>13, <1>14, <1>18 DEF Keeps, N

\* Nothing is kept of the empty sequence.
LEMMA OnlyEmpty ==
  ASSUME NEW set
  PROVE  Only(<<>>, set) = <<>>
<1>1. <<>> \in Seq({}) /\ Len(<<>>) = 0
  OBVIOUS
<1>2. PICK kept : Keeps(kept, <<>>, set, {}) /\ Only(<<>>, set) = kept[0]
  BY <1>1, OnlyFixpoint
<1>3. 0 \in 0..0
  OBVIOUS
<1> QED BY <1>1, <1>2, <1>3 DEF Keeps

\* An element at the end is kept at the end, or is not kept.
LEMMA OnlyAppend ==
  ASSUME NEW S, NEW s \in Seq(S), NEW e \in S, NEW set
  PROVE  Only(Append(s, e), set) =
           IF e \in set THEN Append(Only(s, set), e) ELSE Only(s, set)
<1> DEFINE a == Append(s, e)
           N == Len(s)
<1>1. /\ a \in Seq(S) /\ Len(a) = N + 1 /\ N \in Nat
      /\ \A i \in 1..N : a[i] = s[i]
      /\ a[N + 1] = e
  BY AppendFacts
<1> HIDE DEF a, N
<1>2. PICK f : Keeps(f, s, set, S) /\ Only(s, set) = f[N]
  BY OnlyFixpoint DEF N
<1>3. PICK h : Keeps(h, a, set, S) /\ Only(a, set) = h[N + 1]
  BY <1>1, OnlyFixpoint
<1>4. /\ f[0] = <<>>
      /\ \A n \in 1..N :
           f[n] = IF s[n] \in set THEN Append(f[n - 1], s[n]) ELSE f[n - 1]
  BY <1>2 DEF Keeps, N
<1>5. /\ h[0] = <<>>
      /\ \A n \in 1..(N + 1) :
           h[n] = IF a[n] \in set THEN Append(h[n - 1], a[n]) ELSE h[n - 1]
  BY <1>1, <1>3 DEF Keeps
<1> DEFINE T == {n \in 0..N : h[n] = f[n]}
<1>6. 0 \in T
  BY <1>1, <1>4, <1>5
<1>7. ASSUME NEW n \in 1..N, n - 1 \in T
      PROVE  n \in T
  <2>1. n \in 0..N /\ n \in 1..(N + 1) /\ a[n] = s[n] /\ h[n - 1] = f[n - 1]
    BY <1>1, <1>7
  <2>2. h[n] = f[n]
    BY <1>4, <1>5, <2>1
  <2> QED BY <2>1, <2>2
<1> HIDE DEF T
<1>8. \A n \in 0..N : n \in T
  BY <1>1, <1>6, <1>7, SetInduction
<1>9. h[N] = f[N]
  BY <1>1, <1>8 DEF T
<1>10. N + 1 \in 1..(N + 1) /\ (N + 1) - 1 = N
  BY <1>1
<1>11. h[N + 1] = IF e \in set THEN Append(h[N], e) ELSE h[N]
  BY <1>1, <1>5, <1>10
<1> QED BY <1>2, <1>3, <1>9, <1>11 DEF a

\* What Only keeps: those in the set, no more of them than there were.
LEMMA OnlyHolds ==
  ASSUME NEW S, NEW s \in Seq(S), NEW set
  PROVE  /\ Only(s, set) \in Seq(S) /\ Len(Only(s, set)) <= Len(s)
         /\ \A x : Contains(Only(s, set), x) <=> Contains(s, x) /\ x \in set
<1> DEFINE Holds(r) == /\ Only(r, set) \in Seq(S) /\ Len(Only(r, set)) <= Len(r)
                       /\ \A x : Contains(Only(r, set), x) <=>
                                   Contains(r, x) /\ x \in set
           T == {r \in Seq(S) : Holds(r)}
<1>1. <<>> \in T
  <2>1. <<>> \in Seq(S) /\ Len(<<>>) <= Len(<<>>) /\ \A x : ~Contains(<<>>, x)
    BY DEF Contains
  <2>2. Holds(<<>>)
    BY <2>1, OnlyEmpty, Zenon
  <2> QED BY <2>1, <2>2
<1>2. ASSUME NEW r \in Seq(S), NEW e \in S, r \in T
      PROVE  Append(r, e) \in T
  <2> DEFINE k == Only(r, set)
  <2>1. /\ k \in Seq(S) /\ Len(k) <= Len(r) /\ Len(r) \in Nat /\ Len(k) \in Nat
        /\ \A x : Contains(k, x) <=> Contains(r, x) /\ x \in set
    BY <1>2, LenProperties
  <2>2. Append(r, e) \in Seq(S) /\ Len(Append(r, e)) = Len(r) + 1
    BY AppendFacts
  <2>3. \A x : Contains(Append(r, e), x) <=> Contains(r, x) \/ x = e
    BY AppendHolds
  <2>4. Only(Append(r, e), set) = IF e \in set THEN Append(k, e) ELSE k
    BY OnlyAppend
  <2> HIDE DEF k
  <2>5. Append(k, e) \in Seq(S) /\ Len(Append(k, e)) = Len(k) + 1
    BY <2>1, AppendFacts
  <2>6. \A x : Contains(Append(k, e), x) <=> Contains(k, x) \/ x = e
    BY <2>1, AppendHolds
  <2> DEFINE a == Append(r, e)
             b == Append(k, e)
  <2> HIDE DEF a, b
  <2>7. CASE e \in set
    <3>1. Only(a, set) = b
      BY <2>4, <2>7 DEF a, b
    <3>2. \A x : Contains(b, x) <=> Contains(a, x) /\ x \in set
      BY <2>1, <2>3, <2>6, <2>7 DEF a, b
    <3>3. b \in Seq(S) /\ Len(b) <= Len(a) /\ a \in Seq(S)
      BY <2>1, <2>2, <2>5 DEF a, b
    <3>4. Holds(a)
      BY <3>1, <3>2, <3>3, Zenon
    <3> QED BY <3>3, <3>4 DEF a
  <2>8. CASE e \notin set
    <3>1. Only(a, set) = k
      BY <2>4, <2>8 DEF a
    <3>2. \A x : Contains(k, x) <=> Contains(a, x) /\ x \in set
      BY <2>1, <2>3, <2>8 DEF a
    <3>3. k \in Seq(S) /\ Len(k) <= Len(a) /\ a \in Seq(S)
      BY <2>1, <2>2 DEF a
    <3>4. Holds(a)
      BY <3>1, <3>2, <3>3, Zenon
    <3> QED BY <3>3, <3>4 DEF a
  <2> QED BY <2>7, <2>8
<1> HIDE DEF T
<1>3. \A r \in Seq(S) : r \in T
  BY <1>1, <1>2, SequenceInduction
<1>4. Holds(s)
  BY <1>3 DEF T
<1> QED BY <1>4

\* Two sets with the same elements of s keep the same.
LEMMA OnlyAgree ==
  ASSUME NEW S, NEW s \in Seq(S), NEW X, NEW Y,
         \A x : Contains(s, x) => (x \in X <=> x \in Y)
  PROVE  Only(s, X) = Only(s, Y)
<1> DEFINE Agree(r) == \A x : Contains(r, x) => (x \in X <=> x \in Y)
           T == {r \in Seq(S) : Agree(r) => Only(r, X) = Only(r, Y)}
<1>1. <<>> \in T
  BY OnlyEmpty
<1>2. ASSUME NEW r \in Seq(S), NEW e \in S, r \in T
      PROVE  Append(r, e) \in T
  <2>1. Append(r, e) \in Seq(S)
    BY AppendFacts
  <2>2. \A x : Contains(Append(r, e), x) <=> Contains(r, x) \/ x = e
    BY AppendHolds
  <2>3. /\ Only(Append(r, e), X) =
             IF e \in X THEN Append(Only(r, X), e) ELSE Only(r, X)
        /\ Only(Append(r, e), Y) =
             IF e \in Y THEN Append(Only(r, Y), e) ELSE Only(r, Y)
    BY OnlyAppend
  <2>4. ASSUME Agree(Append(r, e))
        PROVE  Only(Append(r, e), X) = Only(Append(r, e), Y)
    <3>1. Agree(r) /\ (e \in X <=> e \in Y)
      BY <2>2, <2>4, Zenon
    <3>2. Only(r, X) = Only(r, Y)
      BY <1>2, <3>1, Zenon
    <3> QED BY <2>3, <3>1, <3>2, Zenon
  <2> QED BY <2>1, <2>4
<1> HIDE DEF T
<1>3. \A r \in Seq(S) : r \in T
  BY <1>1, <1>2, SequenceInduction
<1>4. s \in T
  BY <1>3
<1> QED BY <1>4 DEF T

\* A set that has all elements keeps all of them, in their order.
LEMMA OnlyAll ==
  ASSUME NEW S, NEW s \in Seq(S), NEW set, \A x : Contains(s, x) => x \in set
  PROVE  Only(s, set) = s
<1> DEFINE T == {r \in Seq(S) : (\A x : Contains(r, x) => x \in set)
                                  => Only(r, set) = r}
<1>1. <<>> \in T
  BY OnlyEmpty
<1>2. ASSUME NEW r \in Seq(S), NEW e \in S, r \in T
      PROVE  Append(r, e) \in T
  <2>1. Append(r, e) \in Seq(S)
    BY AppendFacts
  <2>2. \A x : Contains(Append(r, e), x) <=> Contains(r, x) \/ x = e
    BY AppendHolds
  <2>3. Only(Append(r, e), set) =
             IF e \in set THEN Append(Only(r, set), e) ELSE Only(r, set)
    BY OnlyAppend
  <2>4. ASSUME \A x : Contains(Append(r, e), x) => x \in set
        PROVE  Only(Append(r, e), set) = Append(r, e)
    <3>1. (\A x : Contains(r, x) => x \in set) /\ e \in set
      BY <2>2, <2>4, Zenon
    <3>2. Only(r, set) = r
      BY <1>2, <3>1, Zenon
    <3> QED BY <2>3, <3>1, <3>2, Zenon
  <2> QED BY <2>1, <2>4
<1> HIDE DEF T
<1>3. \A r \in Seq(S) : r \in T
  BY <1>1, <1>2, SequenceInduction
<1>4. s \in T
  BY <1>3
<1> QED BY <1>4 DEF T

\* A set that has none keeps none.
LEMMA OnlyNone ==
  ASSUME NEW S, NEW s \in Seq(S), NEW set, \A x : Contains(s, x) => x \notin set
  PROVE  Only(s, set) = <<>>
<1> DEFINE k == Only(s, set)
<1>1. k \in Seq(S) /\ \A x : ~Contains(k, x)
  BY OnlyHolds
<1> HIDE DEF k
<1>2. Len(k) \in Nat /\ ~(1 \in 1..Len(k))
  BY <1>1 DEF Contains
<1>3. Len(k) = 0
  BY <1>2
<1>4. k = <<>>
  BY <1>1, <1>3
<1> QED BY <1>4 DEF k

\* One after the other, two sequences hold what either holds.
LEMMA ConcatHolds ==
  ASSUME NEW S, NEW s \in Seq(S), NEW r \in Seq(S)
  PROVE  \A x : Contains(s \o r, x) <=> Contains(s, x) \/ Contains(r, x)
<1> DEFINE c == s \o r
<1>1. /\ Len(s) \in Nat /\ Len(r) \in Nat
      /\ Len(c) = Len(s) + Len(r)
      /\ \A i \in 1..Len(s) + Len(r) :
           c[i] = IF i <= Len(s) THEN s[i] ELSE r[i - Len(s)]
  BY ConcatProperties
<1> HIDE DEF c
<1>2. ASSUME NEW x, Contains(c, x) PROVE Contains(s, x) \/ Contains(r, x)
  <2>1. PICK i \in 1..Len(s) + Len(r) : c[i] = x
    BY <1>1, <1>2 DEF Contains
  <2>2. CASE i <= Len(s)
    <3>1. i \in 1..Len(s) /\ s[i] = x
      BY <1>1, <2>1, <2>2
    <3> QED BY <3>1 DEF Contains
  <2>3. CASE ~(i <= Len(s))
    <3>1. i - Len(s) \in 1..Len(r) /\ r[i - Len(s)] = x
      BY <1>1, <2>1, <2>3
    <3> QED BY <3>1 DEF Contains
  <2> QED BY <2>2, <2>3
<1>3. ASSUME NEW x, Contains(s, x) PROVE Contains(c, x)
  <2>1. PICK i \in 1..Len(s) : s[i] = x
    BY <1>3 DEF Contains
  <2>2. i \in 1..Len(c) /\ c[i] = x
    BY <1>1, <2>1
  <2> QED BY <2>2 DEF Contains
<1>4. ASSUME NEW x, Contains(r, x) PROVE Contains(c, x)
  <2>1. PICK i \in 1..Len(r) : r[i] = x
    BY <1>4 DEF Contains
  <2>2. i + Len(s) \in 1..Len(c) /\ c[i + Len(s)] = x
    BY <1>1, <2>1
  <2> QED BY <2>2 DEF Contains
<1> QED BY <1>2, <1>3, <1>4 DEF c

\* Appending after a concatenation appends to its second part.
LEMMA ConcatAppend ==
  ASSUME NEW S, NEW s \in Seq(S), NEW r \in Seq(S), NEW e \in S
  PROVE  s \o Append(r, e) = Append(s \o r, e)
<1> DEFINE c == s \o r
           a == Append(r, e)
           x == s \o a
           y == Append(c, e)
<1>1. /\ Len(s) \in Nat /\ Len(r) \in Nat /\ c \in Seq(S)
      /\ Len(c) = Len(s) + Len(r)
      /\ \A i \in 1..Len(s) + Len(r) :
           c[i] = IF i <= Len(s) THEN s[i] ELSE r[i - Len(s)]
  BY ConcatProperties
<1>2. /\ a \in Seq(S) /\ Len(a) = Len(r) + 1
      /\ \A i \in 1..Len(r) : a[i] = r[i]
      /\ a[Len(r) + 1] = e
  BY AppendFacts
<1> HIDE DEF c, a
<1>3. /\ x \in Seq(S) /\ Len(x) = Len(s) + Len(a)
      /\ \A i \in 1..Len(s) + Len(a) :
           x[i] = IF i <= Len(s) THEN s[i] ELSE a[i - Len(s)]
  BY <1>2, ConcatProperties
<1>4. /\ y \in Seq(S) /\ Len(y) = Len(c) + 1
      /\ \A i \in 1..Len(c) : y[i] = c[i]
      /\ y[Len(c) + 1] = e
  BY <1>1, AppendFacts
<1> HIDE DEF x, y
<1>5. Len(x) = Len(y) /\ Len(x) = Len(s) + Len(r) + 1
  BY <1>1, <1>2, <1>3, <1>4
<1>6. ASSUME NEW i \in 1..Len(x) PROVE x[i] = y[i]
  <2>1. i \in Nat /\ 1 <= i /\ i <= Len(s) + Len(r) + 1
    BY <1>1, <1>5
  <2>2. CASE i <= Len(s)
    <3>1. i \in 1..Len(s) + Len(a) /\ i \in 1..Len(c) /\ i \in 1..Len(s) + Len(r)
      BY <1>1, <1>2, <2>1, <2>2
    <3>2. x[i] = s[i]
      BY <1>3, <2>2, <3>1
    <3>3. y[i] = c[i] /\ c[i] = s[i]
      BY <1>1, <1>4, <2>2, <3>1
    <3> QED BY <3>2, <3>3
  <2>3. CASE ~(i <= Len(s)) /\ i <= Len(s) + Len(r)
    <3>1. i \in 1..Len(s) + Len(a) /\ i \in 1..Len(c) /\ i \in 1..Len(s) + Len(r)
          /\ i - Len(s) \in 1..Len(r)
      BY <1>1, <1>2, <2>1, <2>3
    <3>2. x[i] = a[i - Len(s)] /\ a[i - Len(s)] = r[i - Len(s)]
      BY <1>2, <1>3, <2>3, <3>1
    <3>3. y[i] = c[i] /\ c[i] = r[i - Len(s)]
      BY <1>1, <1>4, <2>3, <3>1
    <3> QED BY <3>2, <3>3
  <2>4. CASE i = Len(s) + Len(r) + 1
    <3>1. i \in 1..Len(s) + Len(a) /\ i = Len(c) + 1 /\ ~(i <= Len(s))
          /\ i - Len(s) = Len(r) + 1
      BY <1>1, <1>2, <2>4
    <3>2. x[i] = a[Len(r) + 1] /\ y[i] = e
      BY <1>3, <1>4, <3>1
    <3> QED BY <1>2, <3>2
  <2> QED BY <1>1, <2>1, <2>2, <2>3, <2>4
<1>7. x = y
  BY <1>3, <1>4, <1>5, <1>6, SeqEqual
<1> QED BY <1>7 DEF x, y, a, c

\* Only of a concatenation keeps of each part.
LEMMA OnlyConcat ==
  ASSUME NEW S, NEW s \in Seq(S), NEW r \in Seq(S), NEW set
  PROVE  Only(s \o r, set) = Only(s, set) \o Only(r, set)
<1> DEFINE k == Only(s, set)
           T == {q \in Seq(S) : Only(s \o q, set) = k \o Only(q, set)}
<1>1. k \in Seq(S)
  BY OnlyHolds
<1>2. <<>> \in T
  <2>1. <<>> \in Seq(S) /\ s \o <<>> = s /\ k \o <<>> = k
    BY <1>1, ConcatEmptySeq
  <2>2. Only(s \o <<>>, set) = k \o Only(<<>>, set)
    BY <2>1, OnlyEmpty, Zenon
  <2> QED BY <2>1, <2>2
<1> HIDE DEF k
<1>3. ASSUME NEW q \in Seq(S), NEW e \in S, q \in T
      PROVE  Append(q, e) \in T
  <2>1. Append(q, e) \in Seq(S)
    BY AppendFacts
  <2>2. s \o Append(q, e) = Append(s \o q, e) /\ s \o q \in Seq(S)
    BY ConcatAppend, ConcatProperties
  <2>3. Only(q, set) \in Seq(S)
    BY OnlyHolds
  <2>4. Only(Append(q, e), set) =
             IF e \in set THEN Append(Only(q, set), e) ELSE Only(q, set)
    BY OnlyAppend
  <2>5. Only(Append(s \o q, e), set) =
             IF e \in set THEN Append(Only(s \o q, set), e) ELSE Only(s \o q, set)
    BY <2>2, OnlyAppend
  <2>6. Only(s \o q, set) = k \o Only(q, set)
    BY <1>3
  <2>7. k \o Append(Only(q, set), e) = Append(k \o Only(q, set), e)
    BY <1>1, <2>3, ConcatAppend
  <2>8. Only(s \o Append(q, e), set) = k \o Only(Append(q, e), set)
    BY <2>2, <2>4, <2>5, <2>6, <2>7, Zenon
  <2> QED BY <2>1, <2>8
<1> HIDE DEF T
<1>4. \A q \in Seq(S) : q \in T
  BY <1>2, <1>3, SequenceInduction
<1>5. r \in T
  BY <1>4
<1> QED BY <1>5 DEF T, k

\* Of what one set keeps, another keeps what both have.
LEMMA OnlyTwice ==
  ASSUME NEW S, NEW s \in Seq(S), NEW X, NEW Y
  PROVE  Only(Only(s, X), Y) = Only(s, X \intersect Y)
<1> DEFINE T == {r \in Seq(S) : Only(Only(r, X), Y) = Only(r, X \intersect Y)}
<1>1. <<>> \in T
  <2>1. Only(Only(<<>>, X), Y) = Only(<<>>, X \intersect Y)
    BY OnlyEmpty, Zenon
  <2> QED BY <2>1
<1>2. ASSUME NEW r \in Seq(S), NEW e \in S, r \in T
      PROVE  Append(r, e) \in T
  <2> DEFINE k == Only(r, X)
  <2>1. Append(r, e) \in Seq(S)
    BY AppendFacts
  <2>2. k \in Seq(S)
    BY OnlyHolds
  <2>3. Only(Append(r, e), X) = IF e \in X THEN Append(k, e) ELSE k
    BY OnlyAppend
  <2>4. Only(Append(r, e), X \intersect Y) =
          IF e \in X \intersect Y THEN Append(Only(r, X \intersect Y), e)
          ELSE Only(r, X \intersect Y)
    BY OnlyAppend
  <2>5. Only(k, Y) = Only(r, X \intersect Y)
    BY <1>2
  <2> HIDE DEF k
  <2>6. Only(Append(k, e), Y) =
          IF e \in Y THEN Append(Only(k, Y), e) ELSE Only(k, Y)
    BY <2>2, OnlyAppend
  <2>7. Only(Only(Append(r, e), X), Y) = Only(Append(r, e), X \intersect Y)
    <3>1. CASE e \in X
      <4>1. CASE e \in Y
        BY <2>3, <2>4, <2>5, <2>6, <3>1, <4>1, Zenon
      <4>2. CASE e \notin Y
        BY <2>3, <2>4, <2>5, <2>6, <3>1, <4>2, Zenon
      <4> QED BY <4>1, <4>2
    <3>2. CASE e \notin X
      BY <2>3, <2>4, <2>5, <3>2, Zenon
    <3> QED BY <3>1, <3>2
  <2> QED BY <2>1, <2>7
<1> HIDE DEF T
<1>3. \A r \in Seq(S) : r \in T
  BY <1>1, <1>2, SequenceInduction
<1>4. s \in T
  BY <1>3
<1> QED BY <1>4 DEF T

\* Two sequences that differ only where neither has an element of the set.
LEMMA OnlySame ==
  ASSUME NEW S, NEW s \in Seq(S), NEW r \in Seq(S), Len(r) = Len(s), NEW set,
         \A i \in 1..Len(s) : r[i] = s[i] \/ (s[i] \notin set /\ r[i] \notin set)
  PROVE  Only(r, set) = Only(s, set)
<1> DEFINE N == Len(s)
<1>1. N \in Nat
  OBVIOUS
<1>2. PICK f : Keeps(f, s, set, S) /\ Only(s, set) = f[Len(s)]
  BY OnlyFixpoint
<1>3. PICK h : Keeps(h, r, set, S) /\ Only(r, set) = h[Len(r)]
  BY OnlyFixpoint
<1>4. /\ f[0] = <<>>
      /\ \A n \in 1..N :
           f[n] = IF s[n] \in set THEN Append(f[n - 1], s[n]) ELSE f[n - 1]
  BY <1>2 DEF Keeps
<1>5. /\ h[0] = <<>>
      /\ \A n \in 1..N :
           h[n] = IF r[n] \in set THEN Append(h[n - 1], r[n]) ELSE h[n - 1]
  BY <1>3 DEF Keeps
<1>6. \A i \in 1..N : r[i] = s[i] \/ (s[i] \notin set /\ r[i] \notin set)
  OBVIOUS
<1> HIDE DEF N
<1> DEFINE T == {n \in 0..N : h[n] = f[n]}
<1>7. 0 \in T
  BY <1>1, <1>4, <1>5
<1>8. ASSUME NEW n \in 1..N, n - 1 \in T
      PROVE  n \in T
  <2>1. n \in 0..N /\ h[n - 1] = f[n - 1]
    BY <1>1, <1>8
  <2>2. h[n] = f[n]
    BY <1>4, <1>5, <1>6, <2>1
  <2> QED BY <2>1, <2>2
<1> HIDE DEF T
<1>9. \A n \in 0..N : n \in T
  BY <1>1, <1>7, <1>8, SetInduction
<1>10. h[N] = f[N]
  BY <1>1, <1>9 DEF T
<1> QED BY <1>2, <1>3, <1>10 DEF N

-----------------------------------------------------------------------------
(* Orders that are listed once.                                            *)

\* No two of the orders have one id.
Once(orders) ==
  \A i, j \in DOMAIN orders : orders[i].id = orders[j].id => i = j

\* A list grows by an order with an id of its own.
LEMMA OnceAppend ==
  ASSUME NEW S, NEW s \in Seq(S), NEW e \in S
  PROVE  Once(Append(s, e)) <=>
           Once(s) /\ \A x : Contains(s, x) => x.id # e.id
<1> DEFINE a == Append(s, e)
<1>1. /\ DOMAIN s = 1..Len(s) /\ Len(s) \in Nat
      /\ DOMAIN a = 1..Len(s) + 1
      /\ \A i \in 1..Len(s) : a[i] = s[i]
      /\ a[Len(s) + 1] = e
  BY AppendFacts
<1> HIDE DEF a
<1>2. ASSUME Once(a)
      PROVE  Once(s) /\ \A x : Contains(s, x) => x.id # e.id
  <2>1. Once(s)
    BY <1>1, <1>2 DEF Once
  <2>2. ASSUME NEW i \in 1..Len(s)
        PROVE  s[i].id # e.id
    <3>1. i \in DOMAIN a /\ Len(s) + 1 \in DOMAIN a /\ i # Len(s) + 1
      BY <1>1
    <3> QED BY <1>1, <1>2, <3>1 DEF Once
  <2> QED BY <2>1, <2>2 DEF Contains
<1>3. ASSUME Once(s), \A x : Contains(s, x) => x.id # e.id
      PROVE  Once(a)
  <2>1. \A i \in 1..Len(s) : s[i].id # e.id
    BY <1>3 DEF Contains
  <2>2. ASSUME NEW i \in DOMAIN a, NEW j \in DOMAIN a, a[i].id = a[j].id
        PROVE  i = j
    <3>1. i \in 1..Len(s) \/ i = Len(s) + 1
      BY <1>1
    <3>2. j \in 1..Len(s) \/ j = Len(s) + 1
      BY <1>1
    <3>3. CASE i \in 1..Len(s) /\ j \in 1..Len(s)
      BY <1>1, <1>3, <2>2, <3>3 DEF Once
    <3>4. CASE i \in 1..Len(s) /\ j = Len(s) + 1
      BY <1>1, <2>1, <2>2, <3>4
    <3>5. CASE i = Len(s) + 1 /\ j \in 1..Len(s)
      BY <1>1, <2>1, <2>2, <3>5
    <3> QED BY <3>1, <3>2, <3>3, <3>4, <3>5
  <2> QED BY <2>2 DEF Once
<1> QED BY <1>2, <1>3 DEF a

\* Two lists that have no id in common are one list.
LEMMA OnceConcat ==
  ASSUME NEW S, NEW s \in Seq(S), NEW r \in Seq(S), Once(s), Once(r),
         \A x, y : Contains(s, x) /\ Contains(r, y) => x.id # y.id
  PROVE  Once(s \o r)
<1> DEFINE c == s \o r
<1>1. /\ Len(s) \in Nat /\ Len(r) \in Nat
      /\ DOMAIN s = 1..Len(s) /\ DOMAIN r = 1..Len(r)
      /\ c \in Seq(S) /\ Len(c) = Len(s) + Len(r)
      /\ \A i \in 1..Len(s) + Len(r) :
           c[i] = IF i <= Len(s) THEN s[i] ELSE r[i - Len(s)]
  BY ConcatProperties, LenProperties
<1> HIDE DEF c
<1>2. DOMAIN c = 1..Len(s) + Len(r)
  BY <1>1
<1>3. \A i \in 1..Len(s) : \A j \in 1..Len(r) : s[i].id # r[j].id
  BY DEF Contains
<1>4. ASSUME NEW i \in DOMAIN c, NEW j \in DOMAIN c, c[i].id = c[j].id
      PROVE  i = j
  <2>1. \/ i \in 1..Len(s) /\ c[i] = s[i]
        \/ i - Len(s) \in 1..Len(r) /\ c[i] = r[i - Len(s)] /\ i \in Nat
    BY <1>1, <1>2
  <2>2. \/ j \in 1..Len(s) /\ c[j] = s[j]
        \/ j - Len(s) \in 1..Len(r) /\ c[j] = r[j - Len(s)] /\ j \in Nat
    BY <1>1, <1>2
  <2>3. CASE i \in 1..Len(s) /\ c[i] = s[i] /\ j \in 1..Len(s) /\ c[j] = s[j]
    BY <1>1, <1>4, <2>3 DEF Once
  <2>4. CASE /\ i - Len(s) \in 1..Len(r) /\ c[i] = r[i - Len(s)] /\ i \in Nat
             /\ j - Len(s) \in 1..Len(r) /\ c[j] = r[j - Len(s)] /\ j \in Nat
    <3>1. i - Len(s) = j - Len(s)
      BY <1>1, <1>4, <2>4 DEF Once
    <3> QED BY <1>1, <2>4, <3>1
  <2> QED BY <1>3, <1>4, <2>1, <2>2, <2>3, <2>4
<1> QED BY <1>4 DEF Once, c

\* What Only keeps of such a list is one.
LEMMA OnceOnly ==
  ASSUME NEW S, NEW s \in Seq(S), Once(s), NEW set
  PROVE  Once(Only(s, set))
<1> DEFINE T == {r \in Seq(S) : Once(r) => Once(Only(r, set))}
<1>1. <<>> \in T
  BY OnlyEmpty
<1>2. ASSUME NEW r \in Seq(S), NEW e \in S, r \in T
      PROVE  Append(r, e) \in T
  <2> DEFINE k == Only(r, set)
  <2>1. Append(r, e) \in Seq(S)
    BY AppendFacts
  <2>2. k \in Seq(S) /\ \A x : Contains(k, x) <=> Contains(r, x) /\ x \in set
    BY OnlyHolds
  <2>3. Only(Append(r, e), set) = IF e \in set THEN Append(k, e) ELSE k
    BY OnlyAppend
  <2>4. Once(r) => Once(k)
    BY <1>2
  <2> HIDE DEF k
  <2>5. ASSUME Once(Append(r, e))
        PROVE  Once(Only(Append(r, e), set))
    <3>1. Once(r) /\ \A x : Contains(r, x) => x.id # e.id
      BY <2>5, OnceAppend
    <3>2. Once(k) /\ \A x : Contains(k, x) => x.id # e.id
      BY <2>2, <2>4, <3>1
    <3>3. Once(Append(k, e))
      BY <2>2, <3>2, OnceAppend
    <3> QED BY <2>3, <3>2, <3>3
  <2> QED BY <2>1, <2>5
<1> HIDE DEF T
<1>3. \A r \in Seq(S) : r \in T
  BY <1>1, <1>2, SequenceInduction
<1>4. s \in T
  BY <1>3
<1> QED BY <1>4 DEF T

\* Orders of one list that have one id are one order.
LEMMA OnceSame ==
  ASSUME NEW S, NEW s \in Seq(S), Once(s), NEW x, NEW y,
         Contains(s, x), Contains(s, y), x.id = y.id
  PROVE  x = y
<1>1. DOMAIN s = 1..Len(s)
  OBVIOUS
<1>2. PICK i \in 1..Len(s) : s[i] = x
  BY DEF Contains
<1>3. PICK j \in 1..Len(s) : s[j] = y
  BY DEF Contains
<1>4. i = j
  BY <1>1, <1>2, <1>3 DEF Once
<1> QED BY <1>2, <1>3, <1>4

\* A list of one order holds that order.
LEMMA SingleFacts ==
  ASSUME NEW S, NEW e \in S
  PROVE  /\ <<e>> \in Seq(S) /\ Len(<<e>>) = 1 /\ <<e>>[1] = e /\ Once(<<e>>)
         /\ \A x : Contains(<<e>>, x) <=> x = e
<1>1. <<e>> \in Seq(S) /\ Len(<<e>>) = 1 /\ <<e>>[1] = e /\ DOMAIN <<e>> = 1..1
  OBVIOUS
<1>2. Once(<<e>>)
  BY <1>1 DEF Once
<1>3. \A x : Contains(<<e>>, x) <=> x = e
  BY <1>1 DEF Contains
<1> QED BY <1>1, <1>2, <1>3

\* All but the last of a list.
LEMMA FrontFacts ==
  ASSUME NEW S, NEW s \in Seq(S), s # <<>>
  PROVE  /\ Front(s) \in Seq(S) /\ Len(Front(s)) = Len(s) - 1
         /\ \A i \in 1..Len(s) - 1 : Front(s)[i] = s[i]
         /\ \A x : Contains(Front(s), x) => Contains(s, x)
         /\ Once(s) => Once(Front(s))
<1> DEFINE f == Front(s)
           N == Len(s)
<1>1. N \in Nat \ {0} /\ DOMAIN s = 1..N
  OBVIOUS
<1>2. f \in Seq(S) /\ Len(f) = N - 1 /\ \A i \in 1..N - 1 : f[i] = s[i]
  <2>1. \A i \in 1..(N - 1) : s[i] \in S
    BY <1>1
  <2>2. 1 \in Int /\ N - 1 \in Int
    BY <1>1
  <2> QED BY <1>1, <2>1, <2>2 DEF Front
<1> HIDE DEF f
<1>3. DOMAIN f = 1..N - 1
  BY <1>1, <1>2
<1> HIDE DEF N
<1>4. \A x : Contains(f, x) => Contains(s, x)
  BY <1>1, <1>2 DEF Contains, N
<1>5. Once(s) => Once(f)
  BY <1>1, <1>2, <1>3 DEF Once
<1> QED BY <1>2, <1>4, <1>5 DEF f, N

\* ToSet is what a sequence contains.
LEMMA ToSetHolds ==
  ASSUME NEW S, NEW s \in Seq(S)
  PROVE  \A x : x \in ToSet(s) <=> Contains(s, x)
<1>1. DOMAIN s = 1..Len(s)
  OBVIOUS
<1> QED BY <1>1 DEF ToSet, Contains

\* What a sequence contains is in its set.
LEMMA ContainsTyped ==
  ASSUME NEW S, NEW s \in Seq(S), NEW x, Contains(s, x)
  PROVE  x \in S
  BY DEF Contains

-----------------------------------------------------------------------------
(* The types.                                                              *)

\* Orders that are, updates of them, and the lists the service keeps of a
\* table.
Orders == {e \in Views : \E k \in Keys : e.table = k[1] /\ e.id = k[2]}
Updates == {e \in Orders : e.status \in Public}
Lists(t) ==
  {s \in Seq(Updates) : /\ Len(s) <= MaxOrders
                        /\ \A x : Contains(s, x) => x.table = t}

\* Snapshots the service makes, the version a cursor keeps of one, and
\* messages.
Stored == {s \in Snapshots : s.orders \in Lists(s.table)}
Versions == [instance : Nat, revision : Nat]
Messages == [topic : {"status"}, body : Updates]
              \union [topic : {"snapshot"}, body : Stored]

\* No two tables have an order with one id: the ids are UUIDs.
UniqueIds == \A k, l \in Keys : k[2] = l[2] => k = l

\* Then an id tells the table.
LEMMA IdTellsTable ==
  ASSUME UniqueIds, NEW x \in Orders, NEW y \in Orders, x.id = y.id
  PROVE  x.table = y.table
  BY DEF UniqueIds, Orders

\* What apply makes of a table's list.
LEMMA AppliedFacts ==
  ASSUME NEW u \in Updates, NEW orders \in Lists(u.table)
  PROVE  LET a == Applied(orders, u) IN
         /\ a \in Lists(u.table) /\ Contains(a, u)
         /\ \A x : Contains(a, x) => Contains(orders, x) \/ x = u
         /\ Once(orders) => Once(a)
<1>1. orders \in Seq(Updates) /\ Len(orders) <= MaxOrders
      /\ \A x : Contains(orders, x) => x.table = u.table
  BY DEF Lists
<1>2. MaxOrders \in Nat /\ MaxOrders >= 1
  BY ViewsAssumption
<1> DEFINE set == {e \in ToSet(orders) : e.id # u.id}
           kept == Only(orders, set)
           all == <<u>> \o kept
           front == Front(all)
<1>3. CASE Contains(orders, u)
  <2>1. Applied(orders, u) = orders
    BY <1>3 DEF Applied
  <2> QED BY <1>3, <2>1
<1>4. CASE ~Contains(orders, u)
  <2>1. /\ kept \in Seq(Updates) /\ Len(kept) <= Len(orders)
        /\ \A x : Contains(kept, x) <=> Contains(orders, x) /\ x \in set
        /\ Once(orders) => Once(kept)
    BY <1>1, OnlyHolds, OnceOnly
  <2>2. \A x : Contains(kept, x) => Contains(orders, x) /\ x.id # u.id
    BY <2>1
  <2>3. Applied(orders, u) = IF Len(all) > MaxOrders THEN front ELSE all
    BY <1>4 DEF Applied
  <2> HIDE DEF kept
  <2>4. /\ <<u>> \in Seq(Updates) /\ Len(<<u>>) = 1 /\ <<u>>[1] = u /\ Once(<<u>>)
        /\ \A x : Contains(<<u>>, x) <=> x = u
    BY SingleFacts
  <2>5. /\ all \in Seq(Updates) /\ Len(all) = Len(kept) + 1 /\ all[1] = u
    BY <2>1, <2>4
  <2>6. \A x : Contains(all, x) <=> x = u \/ Contains(kept, x)
    BY <2>1, <2>4, ConcatHolds
  <2>7. Once(orders) => Once(all)
    BY <2>1, <2>2, <2>4, OnceConcat
  <2> HIDE DEF all, set
  <2>8. Contains(all, u)
    BY <2>6
  <2>9. \A x : Contains(all, x) => x.table = u.table
    BY <1>1, <2>2, <2>6
  <2>10. Len(kept) \in Nat /\ Len(orders) \in Nat
    BY <1>1, <2>1, LenProperties
  <2>11. CASE Len(all) > MaxOrders
    <3>1. all # <<>> /\ 1 \in 1..Len(all) - 1
      BY <1>2, <2>5, <2>10, <2>11
    <3>2. /\ front \in Seq(Updates) /\ Len(front) = Len(all) - 1
          /\ \A i \in 1..Len(all) - 1 : front[i] = all[i]
          /\ \A x : Contains(front, x) => Contains(all, x)
          /\ Once(all) => Once(front)
      BY <2>5, <3>1, FrontFacts
    <3> HIDE DEF front
    <3>3. front[1] = u /\ 1 \in 1..Len(front)
      BY <2>5, <3>1, <3>2
    <3>4. Contains(front, u)
      BY <3>3 DEF Contains
    <3>5. Len(front) <= MaxOrders
      BY <1>1, <1>2, <2>1, <2>5, <2>10, <3>2
    <3>6. front \in Lists(u.table)
      BY <2>9, <3>2, <3>5 DEF Lists
    <3> QED BY <2>2, <2>3, <2>6, <2>7, <2>11, <3>2, <3>4, <3>6
  <2>12. CASE ~(Len(all) > MaxOrders)
    <3>1. Len(all) <= MaxOrders
      BY <1>2, <2>5, <2>10, <2>12
    <3>2. all \in Lists(u.table)
      BY <2>5, <2>9, <3>1 DEF Lists
    <3> QED BY <2>2, <2>3, <2>6, <2>7, <2>8, <2>12, <3>2
  <2> QED BY <2>11, <2>12
<1> QED BY <1>3, <1>4

\* r is orders with u in the place of every order with its id.
Replaces(r, orders, u) ==
  /\ r \in Seq(Orders) /\ Len(r) = Len(orders)
  /\ \A i \in 1..Len(orders) :
       r[i] = IF orders[i].id = u.id THEN u ELSE orders[i]

\* What applyOrderStatus makes of a list: it adds an order it has not, it keeps
\* the list, or it replaces the order it has.
LEMMA WithStatusForms ==
  ASSUME NEW orders \in Seq(Orders), NEW u \in Updates
  PROVE  \/ /\ \A x : Contains(orders, x) => x.id # u.id
            /\ WithStatus(orders, u) = <<u>> \o orders
         \/ /\ \E x : Contains(orders, x) /\ x.id = u.id
            /\ \/ WithStatus(orders, u) = orders
               \/ /\ ~(Once(orders) /\ Contains(orders, u))
                  /\ Replaces(WithStatus(orders, u), orders, u)
<1> DEFINE same == {i \in DOMAIN orders : orders[i].id = u.id}
           first == CHOOSE i \in same : \A j \in same : i <= j
           e == orders[first]
           r == [i \in DOMAIN orders |-> IF i \in same THEN u ELSE orders[i]]
           kept == \/ e.status \in {"food_ready", "failed"}
                   \/ Rank(u.status) < Rank(e.status)
                   \/ e.status = u.status /\ e.stamp = u.stamp
<1>1. DOMAIN orders = 1..Len(orders) /\ Len(orders) \in Nat
      /\ \A i \in 1..Len(orders) : orders[i] \in Orders
  OBVIOUS
<1>2. WithStatus(orders, u) =
        IF same = {} THEN <<u>> \o orders ELSE IF kept THEN orders ELSE r
  BY DEF WithStatus
<1>3. CASE same = {}
  <2>1. \A x : Contains(orders, x) => x.id # u.id
    BY <1>1, <1>3 DEF Contains
  <2> QED BY <1>2, <1>3, <2>1
<1>4. CASE same # {}
  <2>1. \E x : Contains(orders, x) /\ x.id = u.id
    BY <1>1, <1>4 DEF Contains
  <2>2. CASE kept
    BY <1>2, <1>4, <2>1, <2>2
  <2>3. CASE ~kept
    <3>1. WithStatus(orders, u) = r
      BY <1>2, <1>4, <2>3
    <3>2. u \in Orders
      BY DEF Updates
    <3>3. r \in [1..Len(orders) -> Orders]
      BY <1>1, <3>2
    <3>4. \A i \in 1..Len(orders) :
            r[i] = IF orders[i].id = u.id THEN u ELSE orders[i]
      BY <1>1
    <3>5. r \in Seq(Orders) /\ Len(r) = Len(orders)
      <4> HIDE DEF r
      <4> QED BY <1>1, <3>3, FunctionIsSequence
    <3>6. Replaces(r, orders, u)
      BY <3>4, <3>5 DEF Replaces
    <3>7. ASSUME Once(orders), Contains(orders, u)
          PROVE  FALSE
      <4>1. PICK i \in 1..Len(orders) : orders[i] = u
        BY <3>7 DEF Contains
      <4>2. same = {i}
        BY <1>1, <3>7, <4>1 DEF Once
      <4> HIDE DEF same
      <4>3. i \in Nat
        BY <1>1
      <4>4. i \in same /\ \A j \in same : i <= j
        BY <4>2, <4>3
      <4>5. first \in same
        BY <4>4
      <4>6. e = u
        BY <4>1, <4>2, <4>5
      <4> HIDE DEF e
      <4> QED BY <2>3, <4>6
    <3> QED BY <2>1, <3>1, <3>6, <3>7
  <2> QED BY <2>2, <2>3
<1> QED BY <1>3, <1>4

\* A list with an order in the place of another holds that order and the rest.
LEMMA ReplacesHolds ==
  ASSUME NEW orders \in Seq(Orders), NEW u \in Updates, NEW r,
         Replaces(r, orders, u)
  PROVE  /\ \A x : Contains(r, x) => (Contains(orders, x) /\ x.id # u.id) \/ x = u
         /\ \A x : Contains(orders, x) /\ x.id # u.id => Contains(r, x)
         /\ (\E x : Contains(orders, x) /\ x.id = u.id) => Contains(r, u)
         /\ Once(orders) => Once(r)
<1>1. /\ DOMAIN orders = 1..Len(orders) /\ DOMAIN r = 1..Len(orders)
      /\ Len(r) = Len(orders) /\ Len(orders) \in Nat
      /\ \A i \in 1..Len(orders) :
           r[i] = IF orders[i].id = u.id THEN u ELSE orders[i]
  BY LenProperties DEF Replaces
<1>2. \A x : Contains(r, x) => (Contains(orders, x) /\ x.id # u.id) \/ x = u
  BY <1>1 DEF Contains
<1>3. \A x : Contains(orders, x) /\ x.id # u.id => Contains(r, x)
  BY <1>1 DEF Contains
<1>4. (\E x : Contains(orders, x) /\ x.id = u.id) => Contains(r, u)
  BY <1>1 DEF Contains
<1>5. \A i \in 1..Len(orders) : r[i].id = orders[i].id
  BY <1>1
<1>6. Once(orders) => Once(r)
  BY <1>1, <1>5 DEF Once
<1> QED BY <1>2, <1>3, <1>4, <1>6

\* What applyOrderStatus holds, and that it lists each order once.
LEMMA WithStatusFacts ==
  ASSUME NEW orders \in Seq(Orders), NEW u \in Updates
  PROVE  LET r == WithStatus(orders, u) IN
         /\ r \in Seq(Orders)
         /\ \A x : Contains(r, x) => Contains(orders, x) \/ x = u
         /\ \A x : Contains(orders, x) => Contains(r, x) \/ (Contains(r, u) /\ x.id = u.id)
         /\ Once(orders) => Once(r)
<1> DEFINE r == WithStatus(orders, u)
           p == <<u>> \o orders
<1>1. u \in Orders
  BY DEF Updates
<1>2. CASE (\A x : Contains(orders, x) => x.id # u.id) /\ r = p
  <2>1. /\ <<u>> \in Seq(Orders) /\ Once(<<u>>)
        /\ \A x : Contains(<<u>>, x) <=> x = u
    BY <1>1, SingleFacts
  <2>2. p \in Seq(Orders)
    BY <2>1, ConcatProperties
  <2>3. \A x : Contains(p, x) <=> x = u \/ Contains(orders, x)
    BY <2>1, ConcatHolds
  <2>4. Once(orders) => Once(p)
    BY <1>2, <2>1, OnceConcat
  <2> HIDE DEF p
  <2> QED BY <1>2, <2>2, <2>3, <2>4
<1>3. CASE r = orders
  BY <1>3
<1>4. CASE (\E x : Contains(orders, x) /\ x.id = u.id) /\ Replaces(r, orders, u)
  <2>1. r \in Seq(Orders)
    BY <1>4 DEF Replaces
  <2> HIDE DEF r
  <2>2. /\ \A x : Contains(r, x) => (Contains(orders, x) /\ x.id # u.id) \/ x = u
        /\ \A x : Contains(orders, x) /\ x.id # u.id => Contains(r, x)
        /\ (\E x : Contains(orders, x) /\ x.id = u.id) => Contains(r, u)
        /\ Once(orders) => Once(r)
    BY <1>4, ReplacesHolds
  <2> QED BY <1>4, <2>1, <2>2 DEF r
<1> HIDE DEF r, p
<1>5. \/ (\A x : Contains(orders, x) => x.id # u.id) /\ r = p
      \/ r = orders
      \/ (\E x : Contains(orders, x) /\ x.id = u.id) /\ Replaces(r, orders, u)
  BY WithStatusForms DEF r, p
<1> QED BY <1>2, <1>3, <1>4, <1>5 DEF r

-----------------------------------------------------------------------------
(* What the browser shows.                                                 *)

\* The orders of a table with a status of the service's.
Answered(t) == {e \in Orders : e.table = t /\ e.status \in Public}

\* Shown are those among the view's orders.
LEMMA ShownIsAnswered ==
  ASSUME view \in Seq(Orders), NEW t
  PROVE  Shown(t) = Only(view, Answered(t))
<1> DEFINE set == {e \in ToSet(view) : e.table = t /\ e.status \in Public}
<1>1. \A x : Contains(view, x) => x \in Orders /\ x \in ToSet(view)
  BY ContainsTyped, ToSetHolds
<1>2. \A x : Contains(view, x) => (x \in set <=> x \in Answered(t))
  BY <1>1 DEF Answered
<1> HIDE DEF set
<1>3. Only(view, set) = Only(view, Answered(t))
  BY <1>2, OnlyAgree
<1> QED BY <1>3 DEF Shown, set

\* What replaceTableFromSnapshot makes of a list: the snapshot's orders, the
\* local ones of the table the snapshot has not, and the other tables' as they
\* were.
LEMMA WithSnapshotFacts ==
  ASSUME NEW orders \in Seq(Orders), NEW s \in Stored
  PROVE  LET r == WithSnapshot(orders, s) IN
         /\ r \in Seq(Orders)
         /\ \A x : Contains(r, x) <=>
              \/ Contains(s.orders, x)
              \/ Contains(orders, x) /\ x.table # s.table
              \/ /\ Contains(orders, x) /\ x.table = s.table /\ x.status \in Local
                 /\ ~\E y : Contains(s.orders, y) /\ y.id = x.id
         /\ UniqueIds /\ Once(orders) /\ Once(s.orders) => Once(r)
         /\ Only(r, Answered(s.table)) = s.orders
         /\ \A t : t # s.table => Only(r, Answered(t)) = Only(orders, Answered(t))
<1> DEFINE a == s.orders
           ids == {s.orders[i].id : i \in DOMAIN s.orders}
           localOnly == {e \in ToSet(orders) :
                           e.table = s.table /\ e.status \in Local /\ e.id \notin ids}
           other == {e \in ToSet(orders) : e.table # s.table}
           b == Only(orders, localOnly)
           c == Only(orders, other)
           ab == a \o b
           r == ab \o c
<1>1. WithSnapshot(orders, s) = r
  BY DEF WithSnapshot
<1>2. /\ a \in Seq(Updates) /\ a \in Seq(Orders)
      /\ \A x : Contains(a, x) => x \in Updates /\ x \in Orders /\ x.table = s.table
  <2>1. s.orders \in Lists(s.table)
    BY DEF Stored
  <2>2. a \in Seq(Updates) /\ \A x : Contains(a, x) => x.table = s.table
    BY <2>1 DEF Lists
  <2>3. Updates \subseteq Orders
    BY DEF Updates
  <2>4. a \in Seq(Orders)
    BY <2>2, <2>3, SeqMonotonic
  <2>5. \A x : Contains(a, x) => x \in Updates
    BY <2>2, ContainsTyped
  <2> QED BY <2>2, <2>3, <2>4, <2>5
<1>3. \A x : x.id \in ids <=> \E y : Contains(a, y) /\ y.id = x.id
  <2>1. DOMAIN s.orders = 1..Len(s.orders)
    BY <1>2
  <2> QED BY <2>1 DEF Contains
<1>4. \A x : Contains(orders, x) => x \in Orders /\ x \in ToSet(orders)
  BY ContainsTyped, ToSetHolds
<1>5. /\ b \in Seq(Orders)
      /\ \A x : Contains(b, x) <=> Contains(orders, x) /\ x \in localOnly
      /\ Once(orders) => Once(b)
  BY OnlyHolds, OnceOnly
<1>6. /\ c \in Seq(Orders)
      /\ \A x : Contains(c, x) <=> Contains(orders, x) /\ x \in other
      /\ Once(orders) => Once(c)
  BY OnlyHolds, OnceOnly
<1>7. \A x : Contains(orders, x) =>
        /\ x \in localOnly <=> x.table = s.table /\ x.status \in Local /\ x.id \notin ids
        /\ x \in other <=> x.table # s.table
  BY <1>4
<1>8. \A t : Only(b, Answered(t)) = <<>>
  <2>1. TAKE t
  <2>2. \A x : Contains(b, x) => x \notin Answered(t)
    BY <1>5, <1>7 DEF Answered, Public, Local
  <2> HIDE DEF b
  <2> QED BY <1>5, <2>2, OnlyNone
<1>9. Only(c, Answered(s.table)) = <<>>
  <2>1. \A x : Contains(c, x) => x \notin Answered(s.table)
    BY <1>6, <1>7 DEF Answered
  <2> HIDE DEF c
  <2> QED BY <1>6, <2>1, OnlyNone
<1>10. \A t : t # s.table => Only(c, Answered(t)) = Only(orders, Answered(t))
  <2>1. TAKE t
  <2>2. HAVE t # s.table
  <2>3. Only(c, Answered(t)) = Only(orders, other \intersect Answered(t))
    BY OnlyTwice
  <2>4. \A x : Contains(orders, x) =>
          (x \in other \intersect Answered(t) <=> x \in Answered(t))
    BY <1>7, <2>2 DEF Answered
  <2> HIDE DEF other
  <2>5. Only(orders, other \intersect Answered(t)) = Only(orders, Answered(t))
    BY <2>4, OnlyAgree
  <2> QED BY <2>3, <2>5
<1>11. Only(a, Answered(s.table)) = a
  <2>1. \A x : Contains(a, x) => x \in Answered(s.table)
    BY <1>2 DEF Answered, Updates
  <2> HIDE DEF a
  <2> QED BY <1>2, <2>1, OnlyAll
<1>12. \A t : t # s.table => Only(a, Answered(t)) = <<>>
  <2>1. TAKE t
  <2>2. HAVE t # s.table
  <2>3. \A x : Contains(a, x) => x \notin Answered(t)
    BY <1>2, <2>2 DEF Answered
  <2> HIDE DEF a
  <2> QED BY <1>2, <2>3, OnlyNone
<1> HIDE DEF a, b, c, ids, localOnly, other
<1>13. ab \in Seq(Orders) /\ r \in Seq(Orders)
  BY <1>2, <1>5, <1>6, ConcatProperties
<1>14. /\ \A x : Contains(ab, x) <=> Contains(a, x) \/ Contains(b, x)
       /\ \A x : Contains(r, x) <=> Contains(ab, x) \/ Contains(c, x)
  <2>1. \A x : Contains(ab, x) <=> Contains(a, x) \/ Contains(b, x)
    BY <1>2, <1>5, ConcatHolds
  <2> HIDE DEF ab
  <2>2. \A x : Contains(r, x) <=> Contains(ab, x) \/ Contains(c, x)
    BY <1>6, <1>13, ConcatHolds
  <2> QED BY <2>1, <2>2
<1>15. \A t : Only(r, Answered(t)) =
         (Only(a, Answered(t)) \o Only(b, Answered(t))) \o Only(c, Answered(t))
  <2>1. \A t : Only(ab, Answered(t)) = Only(a, Answered(t)) \o Only(b, Answered(t))
    BY <1>2, <1>5, OnlyConcat
  <2> HIDE DEF ab
  <2>2. \A t : Only(r, Answered(t)) = Only(ab, Answered(t)) \o Only(c, Answered(t))
    BY <1>6, <1>13, OnlyConcat
  <2> QED BY <2>1, <2>2
<1>16. ASSUME UniqueIds, Once(orders), Once(a)
       PROVE  Once(r)
  <2>1. \A x, y : Contains(a, x) /\ Contains(b, y) => x.id # y.id
    BY <1>3, <1>5, <1>7
  <2>2. Once(ab)
    BY <1>2, <1>5, <1>16, <2>1, OnceConcat
  <2>3. \A x, y : Contains(ab, x) /\ Contains(c, y) => x.id # y.id
    <3>1. SUFFICES ASSUME NEW x, NEW y, Contains(ab, x), Contains(c, y), x.id = y.id
                   PROVE  FALSE
      OBVIOUS
    <3>2. x \in Orders /\ x.table = s.table
      BY <1>2, <1>4, <1>5, <1>7, <1>14, <3>1
    <3>3. y \in Orders /\ y.table # s.table
      BY <1>4, <1>6, <1>7, <3>1
    <3> QED BY <1>16, <3>1, <3>2, <3>3, IdTellsTable
  <2> HIDE DEF ab
  <2> QED BY <1>6, <1>13, <1>16, <2>2, <2>3, OnceConcat
<1> HIDE DEF ab, r
<1>17. \A x : Contains(r, x) <=>
              \/ Contains(s.orders, x)
              \/ Contains(orders, x) /\ x.table # s.table
              \/ /\ Contains(orders, x) /\ x.table = s.table /\ x.status \in Local
                 /\ ~\E y : Contains(s.orders, y) /\ y.id = x.id
  <2>1. \A x : Contains(r, x) <=>
              \/ Contains(a, x)
              \/ Contains(orders, x) /\ x.table # s.table
              \/ /\ Contains(orders, x) /\ x.table = s.table /\ x.status \in Local
                 /\ ~\E y : Contains(a, y) /\ y.id = x.id
    BY <1>3, <1>5, <1>6, <1>7, <1>14
  <2> QED BY <2>1 DEF a
<1>18. Only(r, Answered(s.table)) = a
  <2>1. a \o <<>> = a
    BY <1>2, ConcatEmptySeq
  <2> QED BY <1>8, <1>9, <1>11, <1>15, <2>1
<1>19. \A t : t # s.table => Only(r, Answered(t)) = Only(orders, Answered(t))
  <2>1. \A t : Only(orders, Answered(t)) \in Seq(Orders)
    BY OnlyHolds
  <2>2. <<>> \o <<>> = <<>>
    OBVIOUS
  <2>3. \A q \in Seq(Orders) : <<>> \o q = q
    BY ConcatEmptySeq
  <2> QED BY <1>8, <1>10, <1>12, <1>15, <2>1, <2>2, <2>3
<1> DEFINE w == WithSnapshot(orders, s)
<1>20. w = r
  BY <1>1
<1> HIDE DEF w
<1>21. /\ w \in Seq(Orders)
       /\ UniqueIds /\ Once(orders) /\ Once(s.orders) => Once(w)
  BY <1>13, <1>16, <1>20 DEF a, r, ab
<1>22. /\ Only(w, Answered(s.table)) = s.orders
       /\ \A t : t # s.table => Only(w, Answered(t)) = Only(orders, Answered(t))
  BY <1>18, <1>19, <1>20 DEF a
<1> QED BY <1>17, <1>20, <1>21, <1>22 DEF w

\* A status leaves what is shown of other tables alone.
LEMMA StatusOfOther ==
  ASSUME UniqueIds, NEW orders \in Seq(Orders), NEW u \in Updates,
         NEW t, t # u.table
  PROVE  Only(WithStatus(orders, u), Answered(t)) = Only(orders, Answered(t))
<1> DEFINE r == WithStatus(orders, u)
           p == <<u>> \o orders
<1>1. u \in Orders /\ u \notin Answered(t)
  BY DEF Updates, Answered
<1>2. CASE r = p
  <2>1. <<u>> \in Seq(Orders) /\ \A x : Contains(<<u>>, x) <=> x = u
    BY <1>1, SingleFacts
  <2>2. Only(<<u>>, Answered(t)) = <<>>
    BY <1>1, <2>1, OnlyNone
  <2>3. Only(p, Answered(t)) = Only(<<u>>, Answered(t)) \o Only(orders, Answered(t))
    <3>1. \A q \in Seq(Orders) : Only(q \o orders, Answered(t)) =
                                   Only(q, Answered(t)) \o Only(orders, Answered(t))
      BY OnlyConcat
    <3> QED BY <2>1, <3>1, Zenon
  <2>4. Only(orders, Answered(t)) \in Seq(Orders)
    BY OnlyHolds
  <2>5. <<>> \o Only(orders, Answered(t)) = Only(orders, Answered(t))
    BY <2>4, ConcatEmptySeq
  <2> QED BY <1>2, <2>2, <2>3, <2>5
<1>3. CASE r = orders
  BY <1>3
<1>4. CASE Replaces(r, orders, u)
  <2>1. /\ r \in Seq(Orders) /\ Len(r) = Len(orders)
        /\ \A i \in 1..Len(orders) :
             r[i] = IF orders[i].id = u.id THEN u ELSE orders[i]
    BY <1>4 DEF Replaces
  <2> HIDE DEF r
  <2>2. ASSUME NEW i \in 1..Len(orders)
        PROVE  r[i] = orders[i] \/ (orders[i] \notin Answered(t) /\ r[i] \notin Answered(t))
    <3>1. orders[i] \in Orders
      BY ElementOfSeq
    <3>2. CASE orders[i].id = u.id
      <4>1. orders[i].table = u.table
        BY <1>1, <3>1, <3>2, IdTellsTable
      <4>2. orders[i] \notin Answered(t)
        BY <4>1 DEF Answered
      <4> QED BY <1>1, <2>1, <3>2, <4>2
    <3>3. CASE orders[i].id # u.id
      BY <2>1, <3>3
    <3> QED BY <3>2, <3>3
  <2>3. Only(r, Answered(t)) = Only(orders, Answered(t))
    BY <2>1, <2>2, OnlySame
  <2> QED BY <2>3 DEF r
<1> HIDE DEF r, p
<1>5. r = p \/ r = orders \/ Replaces(r, orders, u)
  BY WithStatusForms DEF r, p
<1> QED BY <1>2, <1>3, <1>4, <1>5 DEF r

\* A status that the list shows leaves the list alone.
LEMMA StatusAgain ==
  ASSUME NEW orders \in Seq(Orders), NEW u \in Updates, Once(orders),
         Contains(orders, u)
  PROVE  WithStatus(orders, u) = orders
  BY WithStatusForms

\* r is orders with some that were being sent marked as failed.
Marks(r, orders) ==
  /\ r \in Seq(Orders) /\ Len(r) = Len(orders)
  /\ \A i \in 1..Len(orders) :
       \/ r[i] = orders[i]
       \/ /\ orders[i].status = "sending" /\ r[i].status = "send_failed"
          /\ r[i].id = orders[i].id /\ r[i].table = orders[i].table

\* That is what markSendFailed makes.
LEMMA FailedMarks ==
  ASSUME NEW orders \in Seq(Orders), NEW keys
  PROVE  Marks(Failed(orders, keys), orders)
<1> DEFINE ids == {k[2] : k \in keys}
           r == Failed(orders, keys)
<1>1. /\ DOMAIN orders = 1..Len(orders) /\ Len(orders) \in Nat
      /\ \A i \in 1..Len(orders) : orders[i] \in Orders
  OBVIOUS
<1>2. r = [i \in 1..Len(orders) |->
             IF orders[i].id \in ids /\ orders[i].status = "sending"
             THEN [orders[i] EXCEPT !.status = "send_failed"] ELSE orders[i]]
  BY <1>1 DEF Failed
<1> HIDE DEF ids
<1>3. ASSUME NEW e \in Orders
      PROVE  LET f == [e EXCEPT !.status = "send_failed"] IN
             /\ f \in Orders
             /\ f.status = "send_failed" /\ f.id = e.id /\ f.table = e.table
  BY DEF Orders, Views, Local
<1>4. \A i \in 1..Len(orders) :
        /\ r[i] \in Orders
        /\ \/ r[i] = orders[i]
           \/ /\ orders[i].status = "sending" /\ r[i].status = "send_failed"
              /\ r[i].id = orders[i].id /\ r[i].table = orders[i].table
  BY <1>1, <1>2, <1>3
<1>5. r \in [1..Len(orders) -> Orders]
  BY <1>2, <1>4
<1> HIDE DEF r
<1>6. r \in Seq(Orders) /\ Len(r) = Len(orders)
  BY <1>1, <1>5, FunctionIsSequence
<1> QED BY <1>4, <1>6 DEF Marks, r

\* What such a list holds; what it shows of the service's statuses stays.
LEMMA MarksFacts ==
  ASSUME NEW orders \in Seq(Orders), NEW r, Marks(r, orders)
  PROVE  /\ Once(orders) => Once(r)
         /\ \A x : Contains(r, x) =>
              \E y : /\ Contains(orders, y) /\ x.id = y.id /\ x.table = y.table
                     /\ x = y \/ y.status = "sending"
         /\ \A x : Contains(orders, x) =>
              \E y : /\ Contains(r, y) /\ x.id = y.id /\ x.table = y.table
                     /\ x = y \/ y.status = "send_failed"
         /\ \A t : Only(r, Answered(t)) = Only(orders, Answered(t))
<1>1. /\ DOMAIN orders = 1..Len(orders) /\ Len(orders) \in Nat
      /\ r \in Seq(Orders) /\ Len(r) = Len(orders) /\ DOMAIN r = 1..Len(orders)
      /\ \A i \in 1..Len(orders) :
           \/ r[i] = orders[i]
           \/ /\ orders[i].status = "sending" /\ r[i].status = "send_failed"
              /\ r[i].id = orders[i].id /\ r[i].table = orders[i].table
  BY LenProperties DEF Marks
<1>2. \A i \in 1..Len(orders) : r[i].id = orders[i].id /\ r[i].table = orders[i].table
  BY <1>1
<1>3. Once(orders) => Once(r)
  BY <1>1, <1>2 DEF Once
<1>4. ASSUME NEW x, Contains(r, x)
      PROVE  \E y : /\ Contains(orders, y) /\ x.id = y.id /\ x.table = y.table
                    /\ x = y \/ y.status = "sending"
  <2>1. PICK i \in 1..Len(orders) : r[i] = x
    BY <1>1, <1>4 DEF Contains
  <2>2. Contains(orders, orders[i])
    BY DEF Contains
  <2> QED BY <1>1, <1>2, <2>1, <2>2
<1>5. ASSUME NEW x, Contains(orders, x)
      PROVE  \E y : /\ Contains(r, y) /\ x.id = y.id /\ x.table = y.table
                    /\ x = y \/ y.status = "send_failed"
  <2>1. PICK i \in 1..Len(orders) : orders[i] = x
    BY <1>5 DEF Contains
  <2>2. Contains(r, r[i])
    BY <1>1 DEF Contains
  <2> QED BY <1>1, <1>2, <2>1, <2>2
<1>6. ASSUME NEW t
      PROVE  Only(r, Answered(t)) = Only(orders, Answered(t))
  <2>1. \A i \in 1..Len(orders) :
          r[i] = orders[i] \/ (orders[i] \notin Answered(t) /\ r[i] \notin Answered(t))
    BY <1>1 DEF Answered, Public
  <2> QED BY <1>1, <2>1, OnlySame
<1> QED BY <1>3, <1>4, <1>5, <1>6

\* New orders before the others, not yet answered: they join what the list
\* holds, and what it shows of the service's statuses stays.
LEMMA NewOrdersFacts ==
  ASSUME NEW orders \in Seq(Orders), NEW new \in Seq(Orders),
         \A x : Contains(new, x) => x.status \in Local
  PROVE  /\ new \o orders \in Seq(Orders)
         /\ \A x : Contains(new \o orders, x) <=> Contains(new, x) \/ Contains(orders, x)
         /\ \A t : Only(new \o orders, Answered(t)) = Only(orders, Answered(t))
<1>1. new \o orders \in Seq(Orders)
  BY ConcatProperties
<1>2. \A x : Contains(new \o orders, x) <=> Contains(new, x) \/ Contains(orders, x)
  BY ConcatHolds
<1>3. ASSUME NEW t
      PROVE  Only(new \o orders, Answered(t)) = Only(orders, Answered(t))
  <2>1. \A x : Contains(new, x) => x \notin Answered(t)
    BY DEF Answered, Public, Local
  <2>2. Only(new, Answered(t)) = <<>>
    BY <2>1, OnlyNone
  <2>3. Only(new \o orders, Answered(t)) = Only(new, Answered(t)) \o Only(orders, Answered(t))
    BY OnlyConcat
  <2>4. Only(orders, Answered(t)) \in Seq(Orders)
    BY OnlyHolds
  <2>5. <<>> \o Only(orders, Answered(t)) = Only(orders, Answered(t))
    BY <2>4, ConcatEmptySeq
  <2> QED BY <2>2, <2>3, <2>5
<1> QED BY <1>1, <1>2, <1>3

\* An order as it is when it is new.
LEMMA ViewTyped ==
  ASSUME NEW k \in Keys, NEW s \in Public \union Local, NEW n \in Nat
  PROVE  /\ View(k, s, n) \in Orders /\ k[1] \in Tables
         /\ View(k, s, n).table = k[1] /\ View(k, s, n).id = k[2]
         /\ View(k, s, n).status = s /\ View(k, s, n).stamp = n
  BY DEF View, Orders, Views, Tables

\* The orders of a bulk order, in any order.
LEMMA BulkFacts ==
  ASSUME NEW keys \in SUBSET Keys, NEW order \in SetToSeqs(keys)
  PROVE  LET new == [i \in DOMAIN order |-> View(order[i], "sending", 0)] IN
         /\ new \in Seq(Orders)
         /\ \A x : Contains(new, x) => \E k \in keys : x = View(k, "sending", 0)
         /\ UniqueIds => Once(new)
<1> DEFINE n == Cardinality(keys)
           new == [i \in DOMAIN order |-> View(order[i], "sending", 0)]
<1>1. n \in Nat
  BY ViewsAssumption, FS_Subset, FS_CardinalityType
<1>2. /\ order \in [1..n -> keys]
      /\ \A i, j \in 1..n : i # j => order[i] # order[j]
  BY DEF SetToSeqs
<1> HIDE DEF n
<1>3. ASSUME NEW i \in 1..n
      PROVE  /\ order[i] \in keys /\ new[i] = View(order[i], "sending", 0)
             /\ new[i] \in Orders /\ new[i].id = order[i][2]
  <2>1. order[i] \in keys /\ order[i] \in Keys /\ i \in DOMAIN order
    BY <1>2
  <2>2. new[i] = View(order[i], "sending", 0)
    BY <2>1
  <2>3. "sending" \in Public \union Local /\ 0 \in Nat
    BY DEF Local
  <2> HIDE DEF new
  <2> QED BY <2>1, <2>2, <2>3, ViewTyped
<1>4. DOMAIN new = 1..n
  BY <1>2
<1>5. new \in [1..n -> Orders]
  BY <1>2, <1>3
<1> HIDE DEF new
<1>6. new \in Seq(Orders) /\ Len(new) = n
  BY <1>1, <1>5, FunctionIsSequence
<1>7. \A x : Contains(new, x) => \E k \in keys : x = View(k, "sending", 0)
  BY <1>3, <1>6 DEF Contains
<1>8. UniqueIds => Once(new)
  <2>1. SUFFICES ASSUME UniqueIds, NEW i \in 1..n, NEW j \in 1..n,
                        new[i].id = new[j].id
                 PROVE  i = j
    BY <1>4 DEF Once
  <2>2. order[i] \in Keys /\ order[j] \in Keys /\ order[i][2] = order[j][2]
    BY <1>3, <2>1
  <2>3. order[i] = order[j]
    BY <2>1, <2>2 DEF UniqueIds
  <2> QED BY <1>2, <2>3
<1> QED BY <1>6, <1>7, <1>8 DEF new

-----------------------------------------------------------------------------
(* The steps, and the types of the state.                                  *)

\* What the service keeps of an order.
Lives(k) == {View(k, s, n) : s \in Public \union {"none"}, n \in Nat}

ServiceTyped ==
  /\ stamps \in Nat /\ instance \in Nat
  /\ DOMAIN life = Keys /\ life = [k \in Keys |-> life[k]]
  /\ \A k \in Keys : life[k] \in Lives(k)
  /\ pending \in Updates \union {NoUpdate}
  /\ stage \in {"idle", "status", "snapshot"}
  /\ projected \in [Tables -> Seq(Updates)]
  /\ \A t \in Tables : projected[t] \in Lists(t)
  /\ revision \in [Tables -> Nat]
  /\ stage # "idle" => connected /\ pending # NoUpdate

LinkTyped ==
  /\ retained \in [Tables -> Stored \union {NoSnapshot}]
  /\ \A t \in Tables : retained[t] # NoSnapshot => retained[t].table = t
  /\ channel \in Seq(Messages)
  /\ ~online => channel = <<>>

BrowserTyped ==
  /\ view \in Seq(Orders)
  /\ cursors \in [Tables -> Versions \union {NoSnapshot}]
  /\ placed \in [Own -> {"new", "sent", "unsent"}]
  /\ submitting \subseteq Own /\ bulk \in [Tables -> SUBSET Own]

Typed == ServiceTyped /\ LinkTyped /\ BrowserTyped

\* What the browser's steps leave alone.
serviceVars == <<life, stamps, pending, stage, projected, revision, instance,
                 connected, initialized, retained, brokerReset>>

LEMMA BrowserLeavesService ==
  ASSUME Browser \/ UNCHANGED vars
  PROVE  UNCHANGED serviceVars
<1> USE DEF sourceVars, publisherVars, projectionVars, linkVars, faultVars,
            serviceVars, Fault
<1>1. CASE UNCHANGED vars
  BY <1>1 DEF vars
<1>2. CASE Receive
  BY <1>2 DEF Receive
<1>3. CASE Connect
  BY <1>3 DEF Connect
<1>4. CASE Outage
  BY <1>4 DEF Outage
<1>5. CASE Refresh
  BY <1>5 DEF Refresh
<1>6. CASE SendReturns
  BY <1>6 DEF SendReturns
<1>7. CASE \E k \in Own : Send(k) \/ SendOffline(k)
  BY <1>7 DEF Send, SendOffline
<1>8. CASE \E keys \in SUBSET Own \ {{}} : SendBulk(keys)
  BY <1>8 DEF SendBulk
<1>9. CASE \E t \in Tables : BulkSettles(t)
  BY <1>9 DEF BulkSettles
<1> QED BY <1>1, <1>2, <1>3, <1>4, <1>5, <1>6, <1>7, <1>8, <1>9 DEF Browser

\* What the service's steps, and its and the broker's faults, leave alone.
LEMMA ServiceLeavesBrowser ==
  ASSUME Initialize \/ Reconnect \/ Publisher \/ ConnectionLost \/ Restart
           \/ BrokerRestart
  PROVE  UNCHANGED <<view, cursors, placed, submitting, bulk>>
<1> USE DEF sourceVars, sessionVars, formVars
<1>1. CASE Initialize
  BY <1>1 DEF Initialize
<1>2. CASE Reconnect
  BY <1>2 DEF Reconnect
<1>3. CASE \E k \in Keys : TakeUpdate(k)
  BY <1>3 DEF TakeUpdate
<1>4. CASE ResumeUpdate
  BY <1>4 DEF ResumeUpdate
<1>5. CASE StatusPublished
  BY <1>5 DEF StatusPublished
<1>6. CASE SnapshotPublished
  BY <1>6 DEF SnapshotPublished
<1>7. CASE ConnectionLost
  BY <1>7 DEF ConnectionLost
<1>8. CASE Restart
  BY <1>8 DEF Restart
<1>9. CASE BrokerRestart
  BY <1>9 DEF BrokerRestart
<1> QED BY <1>1, <1>2, <1>3, <1>4, <1>5, <1>6, <1>7, <1>8, <1>9 DEF Publisher

\* The constants' facts the proofs use.
LEMMA ConstantFacts ==
  /\ Own \subseteq Keys /\ MaxOrders \in Nat /\ MaxOrders >= 1 /\ MaxOrders <= 10
  /\ NoUpdate \notin Updates
  /\ NoSnapshot \notin Stored /\ NoSnapshot \notin Versions
  /\ <<>> \in Seq(Updates) /\ Len(<<>>) = 0 /\ \A x : ~Contains(<<>>, x)
  /\ \A t : <<>> \in Lists(t)
<1>1. <<>> \in Seq(Updates) /\ Len(<<>>) = 0 /\ \A x : ~Contains(<<>>, x)
  BY DEF Contains
<1>2. Own \subseteq Keys /\ MaxOrders \in Nat /\ MaxOrders >= 1 /\ MaxOrders <= 10
  BY ViewsAssumption
<1>3. NoUpdate \notin Updates
  BY ViewsAssumption DEF Updates, Orders
<1>4. NoSnapshot \notin Stored /\ NoSnapshot \notin Versions
  BY ViewsAssumption DEF Stored, Versions
<1>5. \A t : <<>> \in Lists(t)
  BY <1>1, <1>2 DEF Lists
<1> QED BY <1>1, <1>2, <1>3, <1>4, <1>5

\* A snapshot of a table's list is one the service may store.
LEMMA SnapshotTyped ==
  ASSUME NEW t \in Tables, NEW rev \in Nat, NEW orders \in Lists(t), instance \in Nat
  PROVE  LET s == Snapshot(t, rev, orders) IN
         /\ s \in Stored /\ s # NoSnapshot
         /\ s.instance = instance /\ s.table = t /\ s.revision = rev
         /\ s.orders = orders
<1>1. orders \in Seq(Updates)
  BY DEF Lists
<1>2. Updates \subseteq Views
  BY DEF Updates, Orders
<1>3. orders \in Seq(Views)
  BY <1>1, <1>2, SeqMonotonic
<1> DEFINE s == Snapshot(t, rev, orders)
<1>4. /\ s.instance = instance /\ s.table = t /\ s.revision = rev
      /\ s.orders = orders
  BY DEF Snapshot
<1>5. s \in Snapshots
  BY <1>3 DEF Snapshot, Snapshots
<1> HIDE DEF s
<1>6. s \in Stored
  BY <1>4, <1>5 DEF Stored
<1>7. s # NoSnapshot
  BY <1>6, ConstantFacts
<1> QED BY <1>4, <1>6, <1>7 DEF s

\* The update that is published, and the list apply makes of its table's.
LEMMA ServiceStep ==
  ASSUME ServiceTyped, Initialize \/ Reconnect \/ Publisher \/ ConnectionLost \/ Restart
                         \/ BrokerRestart
  PROVE  ServiceTyped'
<1> USE DEF ServiceTyped
<1>1. CASE Initialize
  BY <1>1 DEF Initialize, sourceVars, publisherVars, projectionVars
<1>2. CASE Reconnect
  BY <1>2 DEF Reconnect, sourceVars, publisherVars, projectionVars
<1>3. ASSUME NEW k \in Keys, TakeUpdate(k)
      PROVE  ServiceTyped'
  <2>1. PICK s \in Public \union {"none"}, n \in Nat : life[k] = View(k, s, n)
    BY DEF Lives
  <2>2. life[k].status = s
    BY <2>1 DEF View
  <2>3. pending' \in Updates /\ pending' \in Lives(k) /\ stamps' \in Nat
    <3>1. CASE /\ stamps < MaxUpdates /\ stamps' = stamps + 1
               /\ \E q \in Follows(life[k].status) : pending' = View(k, q, stamps')
      <4>1. PICK q \in Follows(s) : pending' = View(k, q, stamps')
        BY <2>2, <3>1
      <4>2. q \in Public
        BY <4>1 DEF Follows, Public
      <4>3. stamps' \in Nat
        BY <3>1
      <4>4. pending' \in Orders /\ pending'.status = q
        BY <4>1, <4>2, <4>3, ViewTyped
      <4> QED BY <4>1, <4>2, <4>3, <4>4 DEF Updates, Lives
    <3>2. CASE life[k].status = "food_ready" /\ pending' = life[k] /\ UNCHANGED stamps
      <4>1. s \in Public
        BY <2>2, <3>2 DEF Public
      <4>2. pending' \in Orders /\ pending'.status = s
        BY <2>1, <3>2, <4>1, ViewTyped
      <4> QED BY <3>2, <4>1, <4>2 DEF Updates
    <3> QED BY <1>3, <3>1, <3>2 DEF TakeUpdate
  <2>4. /\ life' = [life EXCEPT ![k] = pending'] /\ stage' = "status" /\ connected'
        /\ UNCHANGED <<instance, projected, revision>>
    BY <1>3 DEF TakeUpdate, projectionVars, linkVars
  <2>5. DOMAIN life' = Keys /\ life' = [l \in Keys |-> life'[l]]
        /\ \A l \in Keys : life'[l] \in Lives(l)
    BY <2>3, <2>4
  <2>6. pending' # NoUpdate
    BY <2>3, ConstantFacts
  <2> QED BY <2>3, <2>4, <2>5, <2>6
<1>4. CASE ResumeUpdate
  BY <1>4 DEF ResumeUpdate, sourceVars, projectionVars, linkVars
<1>5. CASE StatusPublished
  <2> DEFINE t == pending.table
             orders == Applied(projected[t], pending)
  <2>1. pending \in Updates /\ connected
    BY <1>5 DEF StatusPublished
  <2>2. t \in Tables
    BY <2>1 DEF Updates, Orders, Views
  <2>3. orders \in Lists(t)
    BY <2>1, <2>2, AppliedFacts
  <2>4. orders \in Seq(Updates)
    BY <2>3 DEF Lists
  <2>5. /\ projected' = [projected EXCEPT ![t] = orders]
        /\ revision' = [revision EXCEPT ![t] =
             IF Contains(projected[t], pending) THEN @ ELSE @ + 1]
        /\ stage' = "snapshot" /\ connected'
        /\ UNCHANGED <<life, stamps, instance, pending>>
    BY <1>5 DEF StatusPublished, sourceVars, linkVars
  <2> HIDE DEF t, orders
  <2>6. projected' \in [Tables -> Seq(Updates)] /\ \A q \in Tables : projected'[q] \in Lists(q)
    BY <2>2, <2>3, <2>4, <2>5
  <2>7. revision' \in [Tables -> Nat]
    BY <2>2, <2>5
  <2>8. pending' # NoUpdate
    BY <2>1, <2>5, ConstantFacts
  <2> QED BY <2>5, <2>6, <2>7, <2>8
<1>6. CASE SnapshotPublished
  BY <1>6 DEF SnapshotPublished, sourceVars, projectionVars, linkVars
<1>7. CASE ConnectionLost
  BY <1>7 DEF ConnectionLost, sourceVars, projectionVars, linkVars
<1>8. CASE Restart
  <2>1. /\ life' = Unknown /\ instance' = instance + 1 /\ stamps' = stamps
        /\ pending' = NoUpdate /\ stage' = "idle"
        /\ projected' = [t \in Tables |-> <<>>] /\ revision' = [t \in Tables |-> 0]
    BY <1>8 DEF Restart
  <2>2. DOMAIN life' = Keys /\ life' = [l \in Keys |-> life'[l]]
        /\ \A l \in Keys : life'[l] \in Lives(l)
    <3>1. \A l \in Keys : View(l, "none", 0) \in Lives(l)
      BY DEF Lives
    <3>2. life' = [l \in Keys |-> View(l, "none", 0)]
      BY <2>1 DEF Unknown
    <3> HIDE DEF ServiceTyped
    <3> QED BY <3>1, <3>2
  <2>3. projected' \in [Tables -> Seq(Updates)] /\ \A q \in Tables : projected'[q] \in Lists(q)
    BY <2>1, ConstantFacts
  <2>4. revision' \in [Tables -> Nat] /\ instance' \in Nat
    BY <2>1
  <2> QED BY <2>1, <2>2, <2>3, <2>4
<1>9. CASE BrokerRestart
  BY <1>9 DEF BrokerRestart, sourceVars, projectionVars, linkVars
<1> QED BY <1>1, <1>2, <1>3, <1>4, <1>5, <1>6, <1>7, <1>8, <1>9 DEF Publisher

\* Messages forwarded to a browser: they follow those on their way when the
\* browser is online, and are lost to it when it is not.
Grows(ms) ==
  /\ channel' \in Seq(Messages)
  /\ \A i \in 1..Len(channel) : i \in 1..Len(channel') /\ channel'[i] = channel[i]
  /\ \A i \in 1..Len(channel') :
       \/ i \in 1..Len(channel)
       \/ \E j \in 1..Len(ms) :
            online /\ i = Len(channel) + j /\ channel'[i] = ms[j]
  /\ online => \A j \in 1..Len(ms) : /\ Len(channel) + j \in 1..Len(channel')
                                     /\ channel'[Len(channel) + j] = ms[j]
  /\ ~online => channel' = channel

LEMMA ForwardGrows ==
  ASSUME channel \in Seq(Messages), NEW ms \in Seq(Messages), Forward(ms)
  PROVE  Grows(ms)
<1>1. Len(channel) \in Nat /\ Len(ms) \in Nat
  OBVIOUS
<1>2. CASE ~online
  <2>1. channel' = channel
    BY <1>2 DEF Forward
  <2> QED BY <1>1, <1>2, <2>1 DEF Grows
<1>3. CASE online
  <2> DEFINE c == channel \o ms
  <2>1. channel' = c
    BY <1>3 DEF Forward
  <2>2. /\ c \in Seq(Messages) /\ Len(c) = Len(channel) + Len(ms)
        /\ \A i \in 1..Len(channel) + Len(ms) :
             c[i] = IF i <= Len(channel) THEN channel[i] ELSE ms[i - Len(channel)]
    BY ConcatProperties
  <2> HIDE DEF c
  <2>3. \A i \in 1..Len(channel) : i \in 1..Len(c) /\ c[i] = channel[i]
    BY <1>1, <2>2
  <2>4. ASSUME NEW j \in 1..Len(ms)
        PROVE  Len(channel) + j \in 1..Len(c) /\ c[Len(channel) + j] = ms[j]
    <3>1. /\ Len(channel) + j \in 1..Len(channel) + Len(ms)
          /\ ~(Len(channel) + j <= Len(channel))
          /\ (Len(channel) + j) - Len(channel) = j
      BY <1>1
    <3> QED BY <2>2, <3>1
  <2>5. ASSUME NEW i \in 1..Len(c), i \notin 1..Len(channel)
        PROVE  \E j \in 1..Len(ms) : i = Len(channel) + j /\ c[i] = ms[j]
    <3>1. i - Len(channel) \in 1..Len(ms) /\ i = Len(channel) + (i - Len(channel))
      BY <1>1, <2>2, <2>5
    <3> QED BY <2>4, <3>1
  <2> QED BY <1>3, <2>1, <2>2, <2>3, <2>4, <2>5 DEF Grows
<1> QED BY <1>2, <1>3

\* One message forwarded.
LEMMA OneForwarded ==
  ASSUME channel \in Seq(Messages), NEW m \in Messages, Forward(<<m>>)
  PROVE  Grows(<<m>>)
<1>1. <<m>> \in Seq(Messages)
  OBVIOUS
<1> QED BY <1>1, ForwardGrows

\* What the broker takes over: the current snapshot of a table.
Pending(t) == pending # NoUpdate /\ pending.table = t
Current(t) == Snapshot(t, revision[t], projected[t])

LEMMA CurrentFacts ==
  ASSUME ServiceTyped, NEW t \in Tables
  PROVE  /\ Current(t) \in Stored /\ Current(t) # NoSnapshot
         /\ Current(t).instance = instance /\ Current(t).table = t
         /\ Current(t).revision = revision[t] /\ Current(t).orders = projected[t]
         /\ Retained(Current(t)) \in Messages
<1>1. /\ revision[t] \in Nat /\ projected[t] \in Lists(t) /\ instance \in Nat
  BY DEF ServiceTyped
<1> DEFINE s == Current(t)
<1>2. /\ s \in Stored /\ s # NoSnapshot
      /\ s.instance = instance /\ s.table = t /\ s.revision = revision[t]
      /\ s.orders = projected[t]
  BY <1>1, SnapshotTyped DEF Current
<1> HIDE DEF s
<1>3. Retained(s) \in Messages
  BY <1>2 DEF Retained, Messages
<1> QED BY <1>2, <1>3 DEF s

\* A status of an update is a message.
LEMMA StatusTyped ==
  ASSUME NEW u \in Updates
  PROVE  /\ Status(u) \in Messages /\ Status(u).topic = "status"
         /\ Status(u).body = u /\ u.table \in Tables
  BY DEF Status, Messages, Updates, Orders, Views

\* The broker takes over the pending update's snapshot.
LEMMA RetainFacts ==
  ASSUME ServiceTyped, LinkTyped, pending # NoUpdate, Retain
  PROVE  LET t == pending.table IN
         /\ t \in Tables /\ Pending(t)
         /\ retained' = [retained EXCEPT ![t] = Current(t)]
         /\ Grows(<<Retained(Current(t))>>)
<1>1. pending \in Updates
  BY DEF ServiceTyped
<1>2. pending.table \in Tables
  BY <1>1, StatusTyped
<1> DEFINE t == pending.table
<1>3. Retained(Current(t)) \in Messages
  BY <1>2, CurrentFacts
<1>4. retained' = [retained EXCEPT ![t] = Current(t)] /\ Forward(<<Retained(Current(t))>>)
  BY DEF Retain, Current
<1> HIDE DEF t
<1>5. Grows(<<Retained(Current(t))>>)
  BY <1>3, <1>4, OneForwarded DEF LinkTyped
<1> QED BY <1>2, <1>4, <1>5 DEF Pending, t

\* A sequence of all elements of a finite set has each of them.
LEMMA EnumerationHolds ==
  ASSUME NEW S, IsFiniteSet(S), NEW f \in [1..Cardinality(S) -> S], IsInjective(f)
  PROVE  Cardinality(S) \in Nat /\ \A x \in S : \E i \in 1..Cardinality(S) : f[i] = x
<1> DEFINE n == Cardinality(S)
<1>1. n \in Nat
  BY FS_CardinalityType
<1>2. IsFiniteSet(1..n) /\ Cardinality(1..n) = n
  BY <1>1, FS_Interval
<1>3. f \in Injection(1..n, S)
  BY DEF Injection
<1> HIDE DEF n
<1>4. IsFiniteSet(S) /\ Cardinality(1..n) = Cardinality(S)
  BY <1>2 DEF n
<1>5. f \in Surjection(1..n, S)
  BY <1>3, <1>4, FS_Injection
<1> QED BY <1>1, <1>5 DEF Surjection, n

\* There are finitely many tables.
LEMMA TablesFinite == IsFiniteSet(Tables)
<1> DEFINE f == [k \in Keys |-> k[1]]
<1>1. f \in Surjection(Keys, Tables)
  BY DEF Tables, Surjection
<1>2. IsFiniteSet(Keys)
  BY ViewsAssumption
<1> QED BY <1>1, <1>2, FS_Surjection

\* The snapshots published at the start: one of each table.
LEMMA InitialSnapshots ==
  ASSUME LinkTyped, instance \in Nat, Initialize
  PROVE  \E ms \in Seq(Messages) :
           /\ Grows(ms)
           /\ \A j \in 1..Len(ms) : \E t \in Tables :
                ms[j] = Retained(Snapshot(t, 0, <<>>))
           /\ \A t \in Tables : \E j \in 1..Len(ms) :
                ms[j] = Retained(Snapshot(t, 0, <<>>))
<1> DEFINE n == Cardinality(Tables)
           order == SetToSeq(Tables)
           ms == [i \in DOMAIN order |-> Retained(Snapshot(order[i], 0, <<>>))]
<1>1. n \in Nat /\ \E f \in [1..n -> Tables] : IsInjective(f)
  <2>1. n \in Nat /\ ExistsBijection(1..n, Tables)
    BY TablesFinite, FS_CardinalityType
  <2> QED BY <2>1 DEF ExistsBijection, Bijection, Injection
<1>2. order \in [1..n -> Tables] /\ IsInjective(order)
  BY <1>1 DEF SetToSeq
<1>3. \A t \in Tables : \E i \in 1..n : order[i] = t
  BY <1>2, TablesFinite, EnumerationHolds
<1>4. Forward(ms)
  BY DEF Initialize
<1> HIDE DEF order, n
<1>5. \A t \in Tables : Retained(Snapshot(t, 0, <<>>)) \in Messages
  <2>1. TAKE t \in Tables
  <2>2. Snapshot(t, 0, <<>>) \in Stored
    BY ConstantFacts, SnapshotTyped
  <2> QED BY <2>2 DEF Retained, Messages
<1>6. /\ ms \in [1..n -> Messages]
      /\ \A i \in 1..n : order[i] \in Tables
                           /\ ms[i] = Retained(Snapshot(order[i], 0, <<>>))
  BY <1>2, <1>5
<1> HIDE DEF ms
<1>7. ms \in Seq(Messages) /\ Len(ms) = n
  BY <1>1, <1>6, FunctionIsSequence
<1>8. Grows(ms)
  BY <1>4, <1>7, ForwardGrows DEF LinkTyped
<1> QED BY <1>3, <1>6, <1>7, <1>8

\* The messages a browser gets when it subscribes: all that is retained.
LEMMA SubscribedMessages ==
  ASSUME LinkTyped, Connect
  PROVE  /\ channel' \in Seq(Messages)
         /\ \A i \in 1..Len(channel') : \E t \in Tables :
              retained[t] # NoSnapshot /\ channel'[i] = Retained(retained[t])
         /\ \A t \in Tables : retained[t] # NoSnapshot =>
              \E i \in 1..Len(channel') : channel'[i] = Retained(retained[t])
<1> DEFINE S == {t \in Tables : retained[t] # NoSnapshot}
           n == Cardinality(S)
<1>1. IsFiniteSet(S)
  BY TablesFinite, FS_Subset
<1>2. PICK order \in SetToSeqs(S) :
             channel' = [i \in DOMAIN order |-> Retained(retained[order[i]])]
  BY DEF Connect
<1>3. order \in [1..n -> S] /\ IsInjective(order)
  BY <1>2 DEF SetToSeqs, IsInjective
<1>4. n \in Nat /\ \A t \in S : \E i \in 1..n : order[i] = t
  BY <1>1, <1>3, EnumerationHolds
<1> HIDE DEF n
<1>5. \A t \in S : t \in Tables /\ retained[t] # NoSnapshot
                     /\ Retained(retained[t]) \in Messages
  BY DEF LinkTyped, Retained, Messages
<1>6. /\ channel' \in [1..n -> Messages]
      /\ \A i \in 1..n : order[i] \in S /\ channel'[i] = Retained(retained[order[i]])
  BY <1>2, <1>3, <1>5
<1>7. channel' \in Seq(Messages) /\ Len(channel') = n
  BY <1>4, <1>6, FunctionIsSequence
<1> QED BY <1>4, <1>5, <1>6, <1>7

\* What a message on its way can be.
LEMMA MessageFacts ==
  ASSUME NEW m \in Messages
  PROVE  \/ m.topic = "status" /\ m.body \in Updates
         \/ m.topic = "snapshot" /\ m.body \in Stored
  BY DEF Messages

\* The head and the rest of the messages on their way.
LEMMA ReceiveFacts ==
  ASSUME LinkTyped, Receive
  PROVE  /\ channel[1] \in Messages /\ Len(channel) \in Nat \ {0}
         /\ channel' \in Seq(Messages) /\ Len(channel') = Len(channel) - 1
         /\ \A i \in 1..Len(channel') : /\ i + 1 \in 1..Len(channel)
                                        /\ channel'[i] = channel[i + 1]
         /\ \/ /\ channel[1].topic = "status"
               /\ view' = WithStatus(view, channel[1].body)
               /\ cursors' = cursors
            \/ /\ channel[1].topic = "snapshot" /\ Applicable(channel[1].body)
               /\ view' = WithSnapshot(view, channel[1].body)
               /\ cursors' = [cursors EXCEPT ![channel[1].body.table] =
                    [instance |-> channel[1].body.instance,
                     revision |-> channel[1].body.revision]]
            \/ /\ channel[1].topic = "snapshot" /\ ~Applicable(channel[1].body)
               /\ view' = view /\ cursors' = cursors
         /\ UNCHANGED <<placed, submitting, bulk, online, retained>> /\ online
<1>1. /\ channel \in Seq(Messages) /\ channel # <<>> /\ channel' = Tail(channel)
  BY DEF LinkTyped, Receive
<1>2. /\ Tail(channel) \in Seq(Messages) /\ Head(channel) \in Messages
      /\ Head(channel) = channel[1] /\ Len(channel) \in Nat \ {0}
      /\ Len(Tail(channel)) = Len(channel) - 1
      /\ \A i \in 1..Len(channel) - 1 : Tail(channel)[i] = channel[i + 1]
  BY <1>1, TailFacts
<1>3. \A i \in 1..Len(channel) - 1 : i + 1 \in 1..Len(channel)
  BY <1>2
<1>4. \/ /\ channel[1].topic = "status"
         /\ view' = WithStatus(view, channel[1].body)
         /\ cursors' = cursors
      \/ /\ channel[1].topic = "snapshot" /\ Applicable(channel[1].body)
         /\ view' = WithSnapshot(view, channel[1].body)
         /\ cursors' = [cursors EXCEPT ![channel[1].body.table] =
              [instance |-> channel[1].body.instance,
               revision |-> channel[1].body.revision]]
      \/ /\ channel[1].topic = "snapshot" /\ ~Applicable(channel[1].body)
         /\ view' = view /\ cursors' = cursors
  BY <1>2 DEF Receive
<1>5. UNCHANGED <<placed, submitting, bulk, online, retained>> /\ online
  BY DEF Receive, sourceVars, formVars
<1> QED BY <1>1, <1>2, <1>3, <1>4, <1>5

\* How the service's steps and the faults change what is retained and on its way.
LEMMA ServiceLinks ==
  ASSUME ServiceTyped, LinkTyped,
         Reconnect \/ Publisher \/ ConnectionLost \/ Restart
  PROVE  /\ UNCHANGED online
         /\ \/ UNCHANGED <<retained, channel>>
            \/ /\ pending \in Updates /\ Grows(<<Status(pending)>>)
               /\ UNCHANGED retained
            \/ /\ pending \in Updates /\ stage = "snapshot"
               /\ retained' = [retained EXCEPT ![pending.table] = Current(pending.table)]
               /\ Grows(<<Retained(Current(pending.table))>>)
<1> DEFINE Sent == /\ pending \in Updates /\ Grows(<<Status(pending)>>)
                   /\ UNCHANGED retained
           Taken == /\ pending \in Updates /\ stage = "snapshot"
                    /\ retained' = [retained EXCEPT ![pending.table] = Current(pending.table)]
                    /\ Grows(<<Retained(Current(pending.table))>>)
<1>1. ASSUME pending \in Updates, Forward(<<Status(pending)>>)
      PROVE  Grows(<<Status(pending)>>)
  BY <1>1, StatusTyped, OneForwarded DEF LinkTyped
<1>2. stage # "idle" => pending \in Updates /\ pending # NoUpdate
  BY DEF ServiceTyped
<1>3. CASE Reconnect
  BY <1>3 DEF Reconnect
<1>4. CASE \E k \in Keys : TakeUpdate(k)
  BY <1>4 DEF TakeUpdate
<1>5. CASE ResumeUpdate
  BY <1>5 DEF ResumeUpdate
<1>6. CASE StatusPublished
  <2>1. Sent /\ UNCHANGED online
    BY <1>1, <1>2, <1>6 DEF StatusPublished
  <2> QED BY <2>1
<1>7. CASE SnapshotPublished
  <2>1. Retain /\ UNCHANGED online /\ stage = "snapshot"
    BY <1>7 DEF SnapshotPublished
  <2>2. Taken
    BY <1>2, <2>1, RetainFacts
  <2> QED BY <2>1, <2>2
<1>8. CASE ConnectionLost
  <2>1. UNCHANGED online
    BY <1>8 DEF ConnectionLost
  <2>2. CASE UNCHANGED <<retained, channel>>
    BY <2>1, <2>2
  <2>3. CASE stage = "status" /\ Forward(<<Status(pending)>>) /\ UNCHANGED retained
    <3>1. Sent
      BY <1>1, <1>2, <2>3
    <3> QED BY <2>1, <3>1
  <2>4. CASE stage = "snapshot" /\ Retain
    <3>1. Taken
      BY <1>2, <2>4, RetainFacts
    <3> QED BY <2>1, <3>1
  <2> QED BY <1>8, <2>2, <2>3, <2>4 DEF ConnectionLost
<1>9. CASE Restart
  BY <1>9 DEF Restart
<1> HIDE DEF Sent, Taken
<1> QED BY <1>3, <1>4, <1>5, <1>6, <1>7, <1>8, <1>9 DEF Publisher

LEMMA LinkStep ==
  ASSUME ServiceTyped, LinkTyped, [Next]_vars
  PROVE  LinkTyped'
<1> USE DEF LinkTyped
<1>1. CASE Initialize
  <2>1. /\ retained' = [t \in Tables |-> Snapshot(t, 0, <<>>)] /\ UNCHANGED online
    BY <1>1 DEF Initialize
  <2>2. instance \in Nat
    BY DEF ServiceTyped
  <2>3. PICK ms \in Seq(Messages) : Grows(ms)
    BY <1>1, <2>2, InitialSnapshots
  <2>4. \A t \in Tables : Snapshot(t, 0, <<>>) \in Stored /\ Snapshot(t, 0, <<>>).table = t
    BY <2>2, ConstantFacts, SnapshotTyped
  <2>5. retained' \in [Tables -> Stored \union {NoSnapshot}]
          /\ \A t \in Tables : retained'[t].table = t
    BY <2>1, <2>4
  <2> QED BY <2>1, <2>3, <2>5 DEF Grows
<1>2. CASE Reconnect \/ Publisher \/ ConnectionLost \/ Restart
  <2>1. CASE UNCHANGED <<retained, channel, online>>
    BY <2>1
  <2>2. CASE Grows(<<Status(pending)>>) /\ UNCHANGED <<retained, online>>
    BY <2>2 DEF Grows
  <2>3. CASE /\ pending \in Updates /\ UNCHANGED online
             /\ retained' = [retained EXCEPT ![pending.table] = Current(pending.table)]
             /\ Grows(<<Retained(Current(pending.table))>>)
    <3>1. pending.table \in Tables
      BY <2>3, StatusTyped
    <3>2. Current(pending.table) \in Stored /\ Current(pending.table).table = pending.table
      BY <3>1, CurrentFacts
    <3>3. /\ retained' \in [Tables -> Stored \union {NoSnapshot}]
          /\ \A t \in Tables : retained'[t] # NoSnapshot => retained'[t].table = t
      BY <2>3, <3>1, <3>2
    <3> QED BY <2>3, <3>3 DEF Grows
  <2> HIDE DEF LinkTyped
  <2> QED BY <1>2, <2>1, <2>2, <2>3, ServiceLinks
<1>3. CASE BrokerRestart
  <2>1. /\ retained' = [t \in Tables |-> NoSnapshot] /\ channel' = <<>>
    BY <1>3 DEF BrokerRestart
  <2> QED BY <2>1
<1>4. CASE Receive
  <2> HIDE DEF LinkTyped
  <2>1. /\ channel' \in Seq(Messages) /\ UNCHANGED <<online, retained>> /\ online
    BY <1>4, ReceiveFacts
  <2> QED BY <2>1 DEF LinkTyped
<1>5. CASE Connect
  <2>1. UNCHANGED retained /\ online'
    BY <1>5 DEF Connect
  <2> HIDE DEF LinkTyped
  <2>2. channel' \in Seq(Messages)
    BY <1>5, SubscribedMessages
  <2> QED BY <2>1, <2>2 DEF LinkTyped
<1>6. CASE Outage
  BY <1>6 DEF Outage
<1>7. CASE Refresh
  BY <1>7 DEF Refresh
<1>8. CASE UNCHANGED <<retained, channel, online>>
  BY <1>8
<1> HIDE DEF LinkTyped
<1>9. CASE SendReturns
  BY <1>8, <1>9 DEF SendReturns
<1>10. CASE \E k \in Own : Send(k) \/ SendOffline(k)
  BY <1>8, <1>10 DEF Send, SendOffline
<1>11. CASE \E keys \in SUBSET Own \ {{}} : SendBulk(keys)
  BY <1>8, <1>11 DEF SendBulk
<1>12. CASE \E t \in Tables : BulkSettles(t)
  BY <1>8, <1>12 DEF BulkSettles
<1>13. CASE UNCHANGED vars
  BY <1>8, <1>13 DEF vars
<1> QED BY <1>1, <1>2, <1>3, <1>4, <1>5, <1>6, <1>7, <1>9, <1>10, <1>11, <1>12,
           <1>13 DEF Next, Browser

\* Orders placed by a step: they were new, are shown first, and are not new any
\* more.
Places(new) ==
  /\ new \in Seq(Orders) /\ view' = new \o view /\ cursors' = cursors
  /\ \A x : Contains(new, x) =>
       /\ x.status \in Local
       /\ \E k \in Own : x.id = k[2] /\ placed[k] = "new" /\ placed'[k] # "new"
  /\ UniqueIds => Once(new)
  /\ \A k \in Own : placed'[k] = "new" => placed[k] = "new"
  /\ placed' \in [Own -> {"new", "sent", "unsent"}]

\* One order is placed.
LEMMA OnePlaced ==
  ASSUME BrowserTyped, NEW k \in Own, placed[k] = "new", NEW s \in Local,
         NEW p \in {"sent", "unsent"},
         view' = <<View(k, s, 0)>> \o view, cursors' = cursors,
         placed' = [placed EXCEPT ![k] = p]
  PROVE  Places(<<View(k, s, 0)>>)
<1>1. k \in Keys /\ s \in Public \union Local /\ 0 \in Nat
  BY ConstantFacts
<1> DEFINE x == View(k, s, 0)
           new == <<x>>
<1>2. x \in Orders /\ x.id = k[2] /\ x.status = s
  BY <1>1, ViewTyped
<1> HIDE DEF x
<1>3. new \in Seq(Orders) /\ Once(new) /\ \A y : Contains(new, y) <=> y = x
  BY <1>2, SingleFacts
<1>4. view' = new \o view
  BY DEF x
<1> HIDE DEF new
<1>5. /\ placed' \in [Own -> {"new", "sent", "unsent"}]
      /\ placed'[k] # "new"
      /\ \A l \in Own : placed'[l] = "new" => placed[l] = "new"
  BY DEF BrowserTyped
<1>6. Places(new)
  BY <1>2, <1>3, <1>4, <1>5 DEF Places
<1> QED BY <1>6 DEF new, x

\* The steps of the browser that do not receive, and what they show.
LEMMA FormSteps ==
  ASSUME BrowserTyped, Browser, ~Receive
  PROVE  /\ submitting' \subseteq Own /\ bulk' \in [Tables -> SUBSET Own]
         /\ \/ UNCHANGED <<view, cursors, placed>>
            \/ /\ view' = <<>> /\ cursors' = [t \in Tables |-> NoSnapshot]
               /\ UNCHANGED placed /\ Refresh
            \/ Marks(view', view) /\ UNCHANGED <<cursors, placed>>
            \/ \E new \in Seq(Orders) : Places(new)
<1> USE DEF formVars, sourceVars, sessionVars
<1>0. /\ view \in Seq(Orders) /\ submitting \subseteq Own
      /\ bulk \in [Tables -> SUBSET Own]
      /\ placed \in [Own -> {"new", "sent", "unsent"}]
  BY DEF BrowserTyped
<1>1. CASE Connect
  BY <1>0, <1>1 DEF Connect
<1>2. CASE Outage
  BY <1>0, <1>2 DEF Outage
<1>3. CASE Refresh
  <2>1. /\ view' = <<>> /\ cursors' = [t \in Tables |-> NoSnapshot]
        /\ UNCHANGED placed /\ submitting' = {} /\ bulk' = [t \in Tables |-> {}]
    BY <1>3 DEF Refresh
  <2>2. bulk' \in [Tables -> SUBSET Own]
    BY <2>1
  <2> QED BY <1>3, <2>1, <2>2
<1>4. CASE SendReturns
  <2>1. UNCHANGED <<cursors, placed, bulk>> /\ submitting' = {}
    BY <1>4 DEF SendReturns
  <2>2. view' = view \/ view' = Failed(view, submitting)
    BY <1>4 DEF SendReturns
  <2>3. view' = view \/ Marks(view', view)
    BY <1>0, <2>2, FailedMarks
  <2> QED BY <1>0, <2>1, <2>3
<1>5. ASSUME NEW k \in Own, Send(k)
      PROVE  /\ submitting' \subseteq Own /\ bulk' \in [Tables -> SUBSET Own]
             /\ \E new \in Seq(Orders) : Places(new)
  <2>1. /\ placed[k] = "new" /\ placed' = [placed EXCEPT ![k] = "sent"]
        /\ view' = <<View(k, "sending", 0)>> \o view
        /\ cursors' = cursors /\ submitting' = {k} /\ bulk' = bulk
    BY <1>5 DEF Send, Submittable
  <2>2. "sending" \in Local
    BY DEF Local
  <2>3. Places(<<View(k, "sending", 0)>>)
    BY <2>1, <2>2, OnePlaced
  <2>4. <<View(k, "sending", 0)>> \in Seq(Orders)
    BY <2>3 DEF Places
  <2> QED BY <1>0, <2>1, <2>3, <2>4
<1>6. ASSUME NEW k \in Own, SendOffline(k)
      PROVE  /\ submitting' \subseteq Own /\ bulk' \in [Tables -> SUBSET Own]
             /\ \E new \in Seq(Orders) : Places(new)
  <2>1. /\ placed[k] = "new" /\ placed' = [placed EXCEPT ![k] = "unsent"]
        /\ view' = <<View(k, "send_failed", 0)>> \o view
        /\ cursors' = cursors /\ submitting' = submitting /\ bulk' = bulk
    BY <1>6 DEF SendOffline, Submittable
  <2>2. "send_failed" \in Local
    BY DEF Local
  <2>3. Places(<<View(k, "send_failed", 0)>>)
    BY <2>1, <2>2, OnePlaced
  <2>4. <<View(k, "send_failed", 0)>> \in Seq(Orders)
    BY <2>3 DEF Places
  <2> QED BY <1>0, <2>1, <2>3, <2>4
<1>7. ASSUME NEW keys \in SUBSET Own \ {{}}, SendBulk(keys)
      PROVE  /\ submitting' \subseteq Own /\ bulk' \in [Tables -> SUBSET Own]
             /\ \E new \in Seq(Orders) : Places(new)
  <2>1. /\ \A k \in keys : placed[k] = "new"
        /\ placed' = [k \in Own |-> IF k \in keys THEN "sent" ELSE placed[k]]
        /\ cursors' = cursors /\ submitting' = submitting
        /\ \E t : bulk' = [bulk EXCEPT ![t] = keys]
    BY <1>7 DEF SendBulk
  <2>2. PICK order \in SetToSeqs(keys) :
               view' = [i \in DOMAIN order |-> View(order[i], "sending", 0)] \o view
    BY <1>7 DEF SendBulk
  <2>3. keys \in SUBSET Keys
    BY ConstantFacts
  <2> DEFINE new == [i \in DOMAIN order |-> View(order[i], "sending", 0)]
  <2>4. /\ new \in Seq(Orders)
        /\ \A x : Contains(new, x) => \E k \in keys : x = View(k, "sending", 0)
        /\ UniqueIds => Once(new)
    BY <2>3, BulkFacts
  <2>5. view' = new \o view
    BY <2>2
  <2> HIDE DEF new
  <2>6. \A k \in keys : View(k, "sending", 0).status \in Local
                          /\ View(k, "sending", 0).id = k[2]
    BY DEF View, Local
  <2>7. /\ \A k \in keys : k \in Own /\ placed'[k] # "new"
        /\ \A k \in Own : placed'[k] = "new" => placed[k] = "new"
        /\ placed' \in [Own -> {"new", "sent", "unsent"}]
    BY <1>0, <2>1
  <2>8. \A x : Contains(new, x) =>
       /\ x.status \in Local
       /\ \E k \in Own : x.id = k[2] /\ placed[k] = "new" /\ placed'[k] # "new"
    BY <2>1, <2>4, <2>6, <2>7
  <2>9. Places(new)
    BY <2>1, <2>4, <2>5, <2>7, <2>8 DEF Places
  <2>10. bulk' \in [Tables -> SUBSET Own]
    <3>1. keys \in SUBSET Own
      OBVIOUS
    <3>2. PICK t : bulk' = [bulk EXCEPT ![t] = keys]
      BY <2>1
    <3> QED BY <1>0, <3>1, <3>2
  <2> QED BY <1>0, <2>1, <2>4, <2>9, <2>10
<1>8. ASSUME NEW t \in Tables, BulkSettles(t)
      PROVE  /\ submitting' \subseteq Own /\ bulk' \in [Tables -> SUBSET Own]
             /\ Marks(view', view) /\ UNCHANGED <<cursors, placed>>
  <2>1. /\ bulk' = [bulk EXCEPT ![t] = {}]
        /\ UNCHANGED <<cursors, placed, submitting>>
        /\ \E failed : view' = Failed(view, failed)
    BY <1>8 DEF BulkSettles
  <2>2. Marks(view', view)
    BY <1>0, <2>1, FailedMarks
  <2>3. bulk' \in [Tables -> SUBSET Own]
    BY <1>0, <2>1
  <2> QED BY <1>0, <2>1, <2>2, <2>3
<1> QED BY <1>1, <1>2, <1>3, <1>4, <1>5, <1>6, <1>7, <1>8 DEF Browser

LEMMA BrowserStep ==
  ASSUME Typed, [Next]_vars
  PROVE  BrowserTyped'
<1>0. /\ view \in Seq(Orders) /\ cursors \in [Tables -> Versions \union {NoSnapshot}]
      /\ placed \in [Own -> {"new", "sent", "unsent"}]
      /\ submitting \subseteq Own /\ bulk \in [Tables -> SUBSET Own]
  BY DEF Typed, BrowserTyped
<1>1. CASE UNCHANGED <<view, cursors, placed, submitting, bulk>>
  BY <1>0, <1>1 DEF BrowserTyped
<1>2. CASE Receive
  <2> DEFINE m == channel[1]
  <2>1. /\ m \in Messages /\ UNCHANGED <<placed, submitting, bulk>>
        /\ \/ /\ m.topic = "status"
              /\ view' = WithStatus(view, m.body)
              /\ cursors' = cursors
           \/ /\ m.topic = "snapshot" /\ Applicable(m.body)
              /\ view' = WithSnapshot(view, m.body)
              /\ cursors' = [cursors EXCEPT ![m.body.table] =
                   [instance |-> m.body.instance, revision |-> m.body.revision]]
           \/ /\ m.topic = "snapshot" /\ ~Applicable(m.body)
              /\ view' = view /\ cursors' = cursors
    BY <1>2, ReceiveFacts DEF Typed
  <2> HIDE DEF m
  <2>2. CASE m.topic = "status" /\ view' = WithStatus(view, m.body) /\ cursors' = cursors
    <3>1. m.body \in Updates
      BY <2>1, <2>2, MessageFacts
    <3>2. view' \in Seq(Orders)
      BY <1>0, <2>2, <3>1, WithStatusFacts
    <3> QED BY <1>0, <2>1, <2>2, <3>2 DEF BrowserTyped
  <2>3. CASE /\ m.topic = "snapshot" /\ view' = WithSnapshot(view, m.body)
             /\ cursors' = [cursors EXCEPT ![m.body.table] =
                  [instance |-> m.body.instance, revision |-> m.body.revision]]
    <3>1. m.body \in Stored
      BY <2>1, <2>3, MessageFacts
    <3>2. view' \in Seq(Orders)
      BY <1>0, <2>3, <3>1, WithSnapshotFacts
    <3>3. [instance |-> m.body.instance, revision |-> m.body.revision] \in Versions
      BY <3>1 DEF Stored, Snapshots, Versions
    <3>4. cursors' \in [Tables -> Versions \union {NoSnapshot}]
      BY <1>0, <2>3, <3>3
    <3> QED BY <1>0, <2>1, <3>2, <3>4 DEF BrowserTyped
  <2>4. CASE view' = view /\ cursors' = cursors
    BY <1>0, <2>1, <2>4 DEF BrowserTyped
  <2> QED BY <2>1, <2>2, <2>3, <2>4
<1>3. CASE Browser /\ ~Receive
  <2>1. submitting' \subseteq Own /\ bulk' \in [Tables -> SUBSET Own]
    BY <1>3, FormSteps DEF Typed
  <2>2. CASE UNCHANGED <<view, cursors, placed>>
    BY <1>0, <2>1, <2>2 DEF BrowserTyped
  <2>3. CASE /\ view' = <<>> /\ cursors' = [t \in Tables |-> NoSnapshot]
             /\ UNCHANGED placed
    <3>1. view' \in Seq(Orders) /\ cursors' \in [Tables -> Versions \union {NoSnapshot}]
      BY <2>3
    <3> QED BY <1>0, <2>1, <2>3, <3>1 DEF BrowserTyped
  <2>4. CASE Marks(view', view) /\ UNCHANGED <<cursors, placed>>
    BY <1>0, <2>1, <2>4 DEF BrowserTyped, Marks
  <2>5. CASE \E new \in Seq(Orders) : Places(new)
    <3>1. PICK new \in Seq(Orders) : Places(new)
      BY <2>5
    <3>2. /\ view' = new \o view /\ cursors' = cursors
          /\ placed' \in [Own -> {"new", "sent", "unsent"}]
      BY <3>1 DEF Places
    <3>3. view' \in Seq(Orders)
      BY <1>0, <3>2, ConcatProperties
    <3> QED BY <1>0, <2>1, <3>2, <3>3 DEF BrowserTyped
  <2>6. \/ UNCHANGED <<view, cursors, placed>>
        \/ /\ view' = <<>> /\ cursors' = [t \in Tables |-> NoSnapshot]
           /\ UNCHANGED placed
        \/ Marks(view', view) /\ UNCHANGED <<cursors, placed>>
        \/ \E new \in Seq(Orders) : Places(new)
    BY <1>3, FormSteps DEF Typed
  <2> QED BY <2>2, <2>3, <2>4, <2>5, <2>6
<1>4. CASE UNCHANGED vars
  BY <1>1, <1>4 DEF vars, sourceVars, sessionVars, formVars
<1> QED BY <1>1, <1>2, <1>3, <1>4, ServiceLeavesBrowser DEF Next

\* Every state is of the types, in every run.
LEMMA TypedInit ==
  ASSUME Init
  PROVE  Typed
<1>1. ServiceTyped
  <2>1. \A k \in Keys : View(k, "none", 0) \in Lives(k)
    BY DEF Lives
  <2>2. DOMAIN life = Keys /\ life = [l \in Keys |-> life[l]]
        /\ \A l \in Keys : life[l] \in Lives(l)
    BY <2>1 DEF Init, Unknown
  <2>3. projected \in [Tables -> Seq(Updates)] /\ \A q \in Tables : projected[q] \in Lists(q)
    BY ConstantFacts DEF Init
  <2>4. revision \in [Tables -> Nat]
    BY DEF Init
  <2> QED BY <2>2, <2>3, <2>4 DEF Init, ServiceTyped
<1>2. LinkTyped
  BY DEF Init, LinkTyped
<1>3. BrowserTyped
  BY DEF Init, BrowserTyped
<1> QED BY <1>1, <1>2, <1>3 DEF Typed

LEMMA TypedStep ==
  ASSUME Typed, [Next]_vars
  PROVE  Typed'
<1>1. ServiceTyped'
  <2>1. CASE Browser \/ UNCHANGED vars
    <3>1. UNCHANGED serviceVars
      BY <2>1, BrowserLeavesService
    <3> QED BY <3>1 DEF Typed, ServiceTyped, serviceVars
  <2> QED BY <2>1, ServiceStep DEF Typed, Next
<1>2. LinkTyped'
  BY LinkStep DEF Typed
<1>3. BrowserTyped'
  BY BrowserStep
<1> QED BY <1>1, <1>2, <1>3 DEF Typed

\* Every update, list, snapshot, message and view of TableViews is of its type,
\* and a table's list is within max_orders_per_table: always, with any number of
\* updates and faults.
THEOREM ViewsTyped == Spec => []TypeOK
<1>1. Typed => TypeOK
  <2> SUFFICES ASSUME Typed PROVE TypeOK
    OBVIOUS
  <2> USE DEF Typed
  <2>1. Updates \subseteq Views /\ Orders \subseteq Views /\ Stored \subseteq Snapshots
    BY DEF Updates, Orders, Stored
  <2>2. pending \in Views \union {NoUpdate} /\ stage \in {"idle", "status", "snapshot"}
    BY <2>1 DEF ServiceTyped
  <2>3. ASSUME NEW t \in Tables
        PROVE  /\ projected[t] \in Seq(Views) /\ Len(projected[t]) <= MaxOrders
               /\ retained[t] \in Snapshots \union {NoSnapshot}
    <3>1. projected[t] \in Seq(Updates) /\ Len(projected[t]) <= MaxOrders
      BY DEF ServiceTyped, Lists
    <3>2. projected[t] \in Seq(Views)
      BY <2>1, <3>1, SeqMonotonic
    <3>3. retained[t] \in Stored \union {NoSnapshot}
      BY DEF LinkTyped
    <3> QED BY <2>1, <3>1, <3>2, <3>3
  <2>4. view \in Seq(Views)
    BY <2>1, SeqMonotonic DEF BrowserTyped
  <2>5. ASSUME NEW i \in DOMAIN channel
        PROVE  channel[i].body \in IF channel[i].topic = "status" THEN Views ELSE Snapshots
    <3>1. channel[i] \in Messages
      BY DEF LinkTyped
    <3> QED BY <2>1, <3>1, MessageFacts
  <2> QED BY <2>2, <2>3, <2>4, <2>5 DEF TypeOK
<1> QED BY <1>1, TypedInit, TypedStep, PTL DEF Spec

-----------------------------------------------------------------------------
(* What the broker retains.                                                *)

\* An update is pending until the list with it is retained; and what is retained
\* is the current list of a table, unless the pending update is what it misses.
PublisherInv ==
  /\ stage = "snapshot" => Contains(projected[pending.table], pending)
  /\ connected => initialized
  /\ ~initialized => /\ pending = NoUpdate
                     /\ \A t \in Tables : projected[t] = <<>> /\ revision[t] = 0
  /\ initialized => \A t \in Tables :
       \/ retained[t] = Current(t)
       \/ retained[t] = NoSnapshot /\ brokerReset
       \/ Pending(t) /\ Contains(projected[t], pending)

\* The list of another table, and what is retained of it, stay as they were.
LEMMA CurrentStays ==
  ASSUME NEW t, revision'[t] = revision[t], projected'[t] = projected[t],
         instance' = instance
  PROVE  Current(t)' = Current(t)
  BY DEF Current, Snapshot

LEMMA PublisherStep ==
  ASSUME Typed, PublisherInv, [Next]_vars
  PROVE  PublisherInv'
<1> USE DEF sourceVars, publisherVars, projectionVars, linkVars, faultVars, Fault
<1>0. /\ pending \in Updates \union {NoUpdate}
      /\ projected \in [Tables -> Seq(Updates)] /\ revision \in [Tables -> Nat]
      /\ retained \in [Tables -> Stored \union {NoSnapshot}]
      /\ stage # "idle" => connected /\ pending # NoUpdate
  BY DEF Typed, ServiceTyped, LinkTyped
<1>1. CASE UNCHANGED serviceVars
  <2>1. \A t : (Current(t)' = Current(t)) /\ (Pending(t)' <=> Pending(t))
    BY <1>1, CurrentStays DEF serviceVars, Pending
  <2> QED BY <1>1, <2>1 DEF PublisherInv, serviceVars
<1>2. CASE Initialize
  <2>1. /\ retained' = [t \in Tables |-> Snapshot(t, 0, <<>>)]
        /\ ~initialized /\ initialized'
        /\ UNCHANGED <<pending, stage, projected, revision, instance>>
    BY <1>2 DEF Initialize
  <2>2. \A t \in Tables : projected[t] = <<>> /\ revision[t] = 0
    BY <2>1 DEF PublisherInv
  <2>3. \A t \in Tables : retained'[t] = Current(t)'
    BY <2>1, <2>2 DEF Current, Snapshot
  <2> QED BY <2>1, <2>3 DEF PublisherInv
<1>3. CASE Reconnect \/ ResumeUpdate
  <2>1. /\ initialized /\ initialized'
        /\ UNCHANGED <<pending, projected, revision, instance, retained, brokerReset>>
        /\ stage' = stage \/ stage' = "status"
    BY <1>3 DEF Reconnect, ResumeUpdate, PublisherInv
  <2>2. \A t : (Current(t)' = Current(t)) /\ (Pending(t)' <=> Pending(t))
    BY <2>1, CurrentStays DEF Pending
  <2> QED BY <2>1, <2>2 DEF PublisherInv
<1>4. ASSUME NEW k \in Keys, TakeUpdate(k)
      PROVE  PublisherInv'
  <2>1. /\ pending = NoUpdate /\ initialized /\ initialized' /\ stage' = "status"
        /\ UNCHANGED <<projected, revision, instance, retained, brokerReset>>
    BY <1>4 DEF TakeUpdate, PublisherInv
  <2>2. \A t : (Current(t)' = Current(t)) /\ ~Pending(t)
    BY <2>1, CurrentStays DEF Pending
  <2> QED BY <2>1, <2>2 DEF PublisherInv
<1>5. CASE StatusPublished
  <2> DEFINE u == pending.table
             orders == Applied(projected[u], pending)
  <2>1. /\ projected' = [projected EXCEPT ![u] = orders]
        /\ revision' = [revision EXCEPT ![u] =
             IF Contains(projected[u], pending) THEN @ ELSE @ + 1]
        /\ stage' = "snapshot" /\ initialized /\ initialized'
        /\ UNCHANGED <<instance, pending, retained, brokerReset>>
    BY <1>5 DEF StatusPublished, PublisherInv
  <2>2. pending \in Updates /\ pending # NoUpdate
    BY <1>0, <1>5 DEF StatusPublished
  <2>3. u \in Tables /\ projected[u] \in Lists(u)
    BY <2>2, StatusTyped DEF Typed, ServiceTyped
  <2>4. Contains(orders, pending)
    BY <2>2, <2>3, AppliedFacts
  <2> HIDE DEF u, orders
  <2>5. projected'[u] = orders
    BY <1>0, <2>1, <2>3
  <2>6. \A t \in Tables : t = u => Pending(t)' /\ Contains(projected'[t], pending')
    BY <2>1, <2>2, <2>4, <2>5 DEF Pending, u
  <2>7. ASSUME NEW t \in Tables, t # u
        PROVE  Current(t)' = Current(t) /\ ~Pending(t)
    <3>1. projected'[t] = projected[t] /\ revision'[t] = revision[t]
      BY <1>0, <2>1, <2>7
    <3> QED BY <2>1, <2>7, <3>1, CurrentStays DEF Pending, u
  <2>8. \A t \in Tables :
          \/ retained'[t] = Current(t)'
          \/ retained'[t] = NoSnapshot /\ brokerReset'
          \/ Pending(t)' /\ Contains(projected'[t], pending')
    <3>1. TAKE t \in Tables
    <3>2. CASE t = u
      BY <2>6, <3>2
    <3>3. CASE t # u
      <4>1. retained[t] = Current(t) \/ (retained[t] = NoSnapshot /\ brokerReset)
        BY <2>1, <2>7, <3>3 DEF PublisherInv
      <4> QED BY <2>1, <2>7, <3>3, <4>1
    <3> QED BY <3>2, <3>3
  <2>9. Contains(projected'[pending'.table], pending')
    BY <2>1, <2>4, <2>5 DEF u
  <2> QED BY <2>1, <2>8, <2>9 DEF PublisherInv
<1>6. CASE SnapshotPublished
  <2> DEFINE u == pending.table
  <2>1. /\ Retain /\ stage = "snapshot" /\ pending # NoUpdate /\ initialized /\ initialized'
        /\ pending' = NoUpdate /\ stage' = "idle"
        /\ UNCHANGED <<projected, revision, instance, brokerReset>>
    BY <1>0, <1>6 DEF SnapshotPublished, PublisherInv
  <2>2. u \in Tables /\ retained' = [retained EXCEPT ![u] = Current(u)]
    BY <2>1, RetainFacts DEF Typed
  <2>3. \A t : Current(t)' = Current(t)
    BY <2>1, CurrentStays
  <2>4. \A t \in Tables : t # u => ~Pending(t)
    BY DEF Pending
  <2> HIDE DEF u
  <2>5. \A t \in Tables :
          retained'[t] = Current(t)' \/ (retained'[t] = NoSnapshot /\ brokerReset')
    BY <1>0, <2>1, <2>2, <2>3, <2>4 DEF PublisherInv
  <2> QED BY <2>1, <2>5 DEF PublisherInv
<1>7. CASE ConnectionLost
  <2>1. /\ connected' = FALSE /\ stage' = "idle" /\ connected
        /\ UNCHANGED <<pending, projected, revision, instance, initialized, brokerReset>>
    BY <1>7 DEF ConnectionLost
  <2>2. \A t : (Current(t)' = Current(t)) /\ (Pending(t)' <=> Pending(t))
    BY <2>1, CurrentStays DEF Pending
  <2>3. CASE UNCHANGED retained
    BY <2>1, <2>2, <2>3 DEF PublisherInv
  <2>4. CASE stage = "snapshot" /\ Retain
    <3>1. /\ pending.table \in Tables
          /\ retained' = [retained EXCEPT ![pending.table] = Current(pending.table)]
      BY <1>0, <2>4, RetainFacts DEF Typed
    <3>2. \A t \in Tables : retained'[t] = Current(t) \/ retained'[t] = retained[t]
      BY <1>0, <3>1
    <3> QED BY <2>1, <2>2, <3>2 DEF PublisherInv
  <2> QED BY <1>7, <2>3, <2>4 DEF ConnectionLost
<1>8. CASE Restart
  <2>1. /\ pending' = NoUpdate /\ stage' = "idle"
        /\ projected' = [t \in Tables |-> <<>>] /\ revision' = [t \in Tables |-> 0]
        /\ connected' = FALSE /\ initialized' = FALSE
    BY <1>8 DEF Restart
  <2> QED BY <2>1 DEF PublisherInv
<1>9. CASE BrokerRestart
  <2>1. /\ retained' = [t \in Tables |-> NoSnapshot] /\ brokerReset' = TRUE
        /\ connected' = FALSE /\ stage' = "idle"
        /\ UNCHANGED <<pending, projected, revision, instance, initialized>>
    BY <1>9 DEF BrokerRestart
  <2> QED BY <2>1 DEF PublisherInv
<1> QED BY <1>1, <1>2, <1>3, <1>4, <1>5, <1>6, <1>7, <1>8, <1>9,
           BrowserLeavesService DEF Next, Publisher

\* Whenever the service has nothing to publish, the broker that was not restarted
\* retains the current list of every table: whatever updates were interrupted.
THEOREM RetainedCurrent == Spec => []RetainedWhileBrokerLives
<1>1. Init => PublisherInv
  BY DEF Init, PublisherInv
<1>2. PublisherInv => RetainedWhileBrokerLives
  BY DEF PublisherInv, RetainedWhileBrokerLives, Pending, Current
<1> QED BY <1>1, <1>2, PublisherStep, TypedInit, TypedStep, PTL DEF Spec

-----------------------------------------------------------------------------
(* The steps, by what they do to the messages and to the session.          *)

\* The current snapshots of some tables are retained and forwarded.
Publishes(T) ==
  /\ T \subseteq Tables /\ initialized'
  /\ UNCHANGED <<instance, projected, revision, online, view, cursors>>
  /\ \A t \in Tables : retained'[t] = IF t \in T THEN Current(t) ELSE retained[t]
  /\ \A i \in 1..Len(channel) : i \in 1..Len(channel') /\ channel'[i] = channel[i]
  /\ \A i \in 1..Len(channel') :
       \/ i \in 1..Len(channel)
       \/ i > Len(channel) /\ \E t \in T : channel'[i] = Retained(Current(t))
  /\ online => \A t \in T : \E i \in 1..Len(channel') :
                              channel'[i] = Retained(Current(t))

\* A status is forwarded, or nothing is.
Notifies ==
  /\ UNCHANGED <<retained, online, view, cursors>>
  /\ \/ channel' = channel
     \/ pending \in Updates /\ Grows(<<Status(pending)>>)

\* The messages on their way are lost.
Loses ==
  /\ channel' = <<>> /\ ~online'
  /\ \A t \in Tables : retained'[t] \in {retained[t], NoSnapshot}
  /\ \/ UNCHANGED <<view, cursors>>
     \/ view' = <<>> /\ cursors' = [t \in Tables |-> NoSnapshot]

\* The order form shows new orders, or marks some as failed.
Fills ==
  /\ UNCHANGED serviceVars /\ UNCHANGED <<online, channel, cursors>>
  /\ Marks(view', view) \/ \E new \in Seq(Orders) : Places(new)

\* The snapshots that are retained at the start are the current ones.
LEMMA InitializePublishes ==
  ASSUME Typed, PublisherInv, Initialize
  PROVE  Publishes(Tables)
<1>1. /\ retained' = [t \in Tables |-> Snapshot(t, 0, <<>>)]
      /\ ~initialized /\ initialized'
      /\ UNCHANGED <<instance, projected, revision, online>>
  BY DEF Initialize, projectionVars
<1>2. UNCHANGED <<view, cursors>>
  BY ServiceLeavesBrowser
<1>3. \A t \in Tables : Snapshot(t, 0, <<>>) = Current(t)
  BY <1>1 DEF PublisherInv, Current
<1>4. PICK ms \in Seq(Messages) :
           /\ Grows(ms)
           /\ \A j \in 1..Len(ms) : \E t \in Tables :
                ms[j] = Retained(Snapshot(t, 0, <<>>))
           /\ \A t \in Tables : \E j \in 1..Len(ms) :
                ms[j] = Retained(Snapshot(t, 0, <<>>))
  BY InitialSnapshots DEF Typed, ServiceTyped
<1>5. /\ \A j \in 1..Len(ms) : \E t \in Tables : ms[j] = Retained(Current(t))
      /\ \A t \in Tables : \E j \in 1..Len(ms) : ms[j] = Retained(Current(t))
  BY <1>3, <1>4
<1>6. Len(channel) \in Nat /\ Len(ms) \in Nat
  BY DEF Typed, LinkTyped
<1>7. \A t \in Tables : retained'[t] = Current(t)
  BY <1>1, <1>3
<1>8. ASSUME NEW i \in 1..Len(channel'), i \notin 1..Len(channel)
      PROVE  i > Len(channel) /\ \E t \in Tables : channel'[i] = Retained(Current(t))
  <2>1. PICK j \in 1..Len(ms) : i = Len(channel) + j /\ channel'[i] = ms[j]
    BY <1>4, <1>8 DEF Grows
  <2>2. i > Len(channel)
    BY <1>6, <2>1
  <2> QED BY <1>5, <2>1, <2>2
<1>9. ASSUME online, NEW t \in Tables
      PROVE  \E i \in 1..Len(channel') : channel'[i] = Retained(Current(t))
  BY <1>4, <1>5, <1>9 DEF Grows
<1>10. \A i \in 1..Len(channel) : i \in 1..Len(channel') /\ channel'[i] = channel[i]
  BY <1>4 DEF Grows
<1> QED BY <1>1, <1>2, <1>7, <1>8, <1>9, <1>10 DEF Publishes

\* What the broker takes over is the current snapshot of the update's table.
LEMMA RetainPublishes ==
  ASSUME Typed, PublisherInv, pending # NoUpdate, initialized',
         UNCHANGED <<instance, projected, revision, online, view, cursors>>,
         pending \in Updates,
         retained' = [retained EXCEPT ![pending.table] = Current(pending.table)],
         Grows(<<Retained(Current(pending.table))>>)
  PROVE  Publishes({pending.table})
<1> DEFINE u == pending.table
           m == Retained(Current(u))
           ms == <<m>>
<1>1. u \in Tables
  BY StatusTyped
<1>2. Grows(ms) /\ Len(ms) = 1 /\ ms[1] = m
  OBVIOUS
<1>3. /\ Len(channel) \in Nat
      /\ retained \in [Tables -> Stored \union {NoSnapshot}]
  BY DEF Typed, LinkTyped
<1>4. \A t \in Tables : retained'[t] = IF t \in {u} THEN Current(t) ELSE retained[t]
  BY <1>1, <1>3
<1> HIDE DEF u, ms
<1>5. 1 \in 1..Len(ms)
  BY <1>2
<1>6. /\ \A i \in 1..Len(channel) : i \in 1..Len(channel') /\ channel'[i] = channel[i]
      /\ \A i \in 1..Len(channel') :
           i \notin 1..Len(channel) => i > Len(channel) /\ channel'[i] = m
  BY <1>2, <1>3 DEF Grows
<1>7. online => \E i \in 1..Len(channel') : channel'[i] = m
  BY <1>2, <1>5 DEF Grows
<1> QED BY <1>1, <1>4, <1>6, <1>7 DEF Publishes, u

LEMMA Forms ==
  ASSUME Typed, PublisherInv, [Next]_vars
  PROVE  \/ \E T \in SUBSET Tables : Publishes(T)
         \/ Notifies
         \/ Loses
         \/ Receive /\ UNCHANGED serviceVars
         \/ Connect /\ UNCHANGED serviceVars /\ UNCHANGED <<view, cursors>>
         \/ Fills
<1>1. CASE Initialize
  <2>1. Tables \in SUBSET Tables
    OBVIOUS
  <2> QED BY <1>1, <2>1, InitializePublishes
<1>2. CASE Reconnect \/ Publisher \/ ConnectionLost \/ Restart
  <2>1. UNCHANGED <<view, cursors, online>>
    BY <1>2, ServiceLeavesBrowser, ServiceLinks DEF Typed
  <2>2. CASE \/ UNCHANGED <<retained, channel>>
             \/ /\ pending \in Updates /\ Grows(<<Status(pending)>>)
                /\ UNCHANGED retained
    BY <2>1, <2>2 DEF Notifies
  <2>3. CASE /\ pending \in Updates /\ stage = "snapshot" /\ ~UNCHANGED <<retained, channel>>
             /\ retained' = [retained EXCEPT ![pending.table] = Current(pending.table)]
             /\ Grows(<<Retained(Current(pending.table))>>)
    <3>1. CASE Restart \/ Reconnect \/ ResumeUpdate \/ (\E k \in Keys : TakeUpdate(k))
      BY <2>3, <3>1 DEF Restart, Reconnect, ResumeUpdate, TakeUpdate
    <3>2. CASE StatusPublished
      BY <2>3, <3>2 DEF StatusPublished
    <3>3. CASE SnapshotPublished \/ ConnectionLost
      <4>1. /\ UNCHANGED <<instance, projected, revision>> /\ initialized'
            /\ pending # NoUpdate
        BY <2>3, <3>3, ConstantFacts
        DEF SnapshotPublished, ConnectionLost, PublisherInv, projectionVars, linkVars
      <4>2. Publishes({pending.table})
        BY <2>1, <2>3, <4>1, RetainPublishes
      <4>3. {pending.table} \in SUBSET Tables
        BY <4>2 DEF Publishes
      <4> QED BY <4>2, <4>3
    <3> QED BY <1>2, <3>1, <3>2, <3>3 DEF Publisher
  <2> QED BY <1>2, <2>2, <2>3, ServiceLinks DEF Typed
<1>3. CASE BrokerRestart
  <2>1. UNCHANGED <<view, cursors>>
    BY <1>3, ServiceLeavesBrowser
  <2>2. /\ channel' = <<>> /\ ~online' /\ retained' = [t \in Tables |-> NoSnapshot]
    BY <1>3 DEF BrokerRestart
  <2> QED BY <2>1, <2>2 DEF Loses
<1>4. CASE Outage
  BY <1>4 DEF Outage, Loses, sessionVars
<1>5. CASE Refresh
  BY <1>5 DEF Refresh, Loses
<1>6. CASE Receive
  <2>1. UNCHANGED serviceVars
    BY <1>6, BrowserLeavesService DEF Browser
  <2> QED BY <1>6, <2>1
<1>7. CASE Connect
  <2>1. UNCHANGED serviceVars
    BY <1>7, BrowserLeavesService DEF Browser
  <2>2. UNCHANGED <<view, cursors>>
    BY <1>7 DEF Connect, sessionVars
  <2> QED BY <1>7, <2>1, <2>2
<1>8. CASE /\ ~Receive
           /\ \/ SendReturns
              \/ \E k \in Own : Send(k) \/ SendOffline(k)
              \/ \E keys \in SUBSET Own \ {{}} : SendBulk(keys)
              \/ \E t \in Tables : BulkSettles(t)
  <2>1. Browser
    BY <1>8 DEF Browser
  <2>2. UNCHANGED serviceVars
    BY <2>1, BrowserLeavesService
  <2>3. UNCHANGED <<online, channel, cursors>>
    BY <1>8 DEF SendReturns, Send, SendOffline, SendBulk, BulkSettles
  <2>4. view \in Seq(Orders)
    BY DEF Typed, BrowserTyped
  <2>5. view' = view => Marks(view', view)
    BY <2>4 DEF Marks
  <2>6. CASE Refresh
    BY <2>6, <1>5
  <2>7. CASE ~Refresh
    <3>1. view' = view \/ Marks(view', view) \/ \E new \in Seq(Orders) : Places(new)
      BY <1>8, <2>1, <2>7, FormSteps DEF Typed
    <3> QED BY <2>2, <2>3, <2>5, <3>1 DEF Fills
  <2> QED BY <2>6, <2>7
<1>9. CASE UNCHANGED vars
  BY <1>9 DEF vars, Notifies, sessionVars
<1> QED BY <1>1, <1>2, <1>3, <1>4, <1>5, <1>6, <1>7, <1>8, <1>9 DEF Next, Browser

-----------------------------------------------------------------------------
(* The versions of the snapshots.                                          *)

\* A snapshot of table t is the i-th message on its way.
SnapshotAt(i, t) ==
  /\ i \in 1..Len(channel)
  /\ channel[i].topic = "snapshot" /\ channel[i].body.table = t

\* The service has come to a version of table t; before it published its first
\* snapshots, only to those of earlier instances.
Reached(v, t) ==
  /\ v.instance <= instance
  /\ initialized \/ v.instance < instance
  /\ v.instance = instance => v.revision <= revision[t]

\* And it made the snapshot: one of the current version has the current list.
Made(s) ==
  /\ Reached(s, s.table)
  /\ s.instance = instance /\ s.revision = revision[s.table] =>
       s.orders = projected[s.table]

VersionInv ==
  \A t \in Tables :
    /\ retained[t] # NoSnapshot => Made(retained[t])
    /\ cursors[t] # NoSnapshot => Reached(cursors[t], t)
    /\ \A i : SnapshotAt(i, t) => Made(channel[i].body)

LEMMA VersionTypes ==
  /\ \A v \in Versions : v.instance \in Nat /\ v.revision \in Nat
  /\ \A s \in Stored : /\ s.instance \in Nat /\ s.revision \in Nat
                       /\ s.table \in Tables /\ s.orders \in Lists(s.table)
  BY DEF Versions, Stored, Snapshots

\* What SnapshotAt finds is a snapshot.
LEMMA SnapshotAtTyped ==
  ASSUME LinkTyped, NEW t, NEW i, SnapshotAt(i, t)
  PROVE  channel[i].body \in Stored /\ channel[i].body.table = t /\ t \in Tables
<1>1. channel[i] \in Messages /\ channel[i].topic = "snapshot"
  BY ElementOfSeq DEF SnapshotAt, LinkTyped
<1>2. channel[i].body \in Stored
  BY <1>1, MessageFacts
<1> QED BY <1>2, VersionTypes DEF SnapshotAt

\* A version that was reached stays so, and a list that changes has a new version.
LEMMA MadeStays ==
  ASSUME Typed, PublisherInv, [Next]_vars
  PROVE  /\ \A t \in Tables : \A v : v.instance \in Nat /\ v.revision \in Nat /\ Reached(v, t) =>
              Reached(v, t)'
         /\ \A s \in Stored : Made(s) => Made(s)'
<1>0. /\ instance \in Nat /\ revision \in [Tables -> Nat]
      /\ projected \in [Tables -> Seq(Updates)]
  BY DEF Typed, ServiceTyped
<1>1. CASE /\ UNCHANGED <<instance, projected, revision>>
           /\ initialized => initialized'
  <2>1. \A t \in Tables : \A v : Reached(v, t) => (Reached(v, t))'
    BY <1>1 DEF Reached
  <2>2. \A s \in Stored : Made(s) => Made(s)'
    <3>1. TAKE s \in Stored
    <3>2. s.table \in Tables
      BY VersionTypes
    <3> QED BY <1>1, <2>1, <3>2 DEF Made
  <2> QED BY <2>1, <2>2
<1>2. CASE Restart
  <2>1. instance' = instance + 1 /\ initialized' = FALSE
    BY <1>2 DEF Restart
  <2>2. \A t \in Tables : \A v : v.instance \in Nat /\ v.revision \in Nat /\ Reached(v, t) =>
              (Reached(v, t))' /\ v.instance # instance'
    BY <1>0, <2>1 DEF Reached
  <2>3. \A s \in Stored : Made(s) => Made(s)'
    <3>1. TAKE s \in Stored
    <3>2. s.table \in Tables /\ s.instance \in Nat /\ s.revision \in Nat
      BY VersionTypes
    <3> QED BY <2>2, <3>2 DEF Made
  <2> QED BY <2>2, <2>3
<1>3. CASE StatusPublished
  <2> DEFINE u == pending.table
             orders == Applied(projected[u], pending)
  <2>1. /\ projected' = [projected EXCEPT ![u] = orders]
        /\ revision' = [revision EXCEPT ![u] =
             IF Contains(projected[u], pending) THEN @ ELSE @ + 1]
        /\ UNCHANGED <<instance, initialized>>
    BY <1>3 DEF StatusPublished, linkVars
  <2>2. Contains(projected[u], pending) => orders = projected[u]
    BY DEF Applied
  <2> HIDE DEF u, orders
  <2>3. \A t \in Tables :
          \/ revision'[t] = revision[t] /\ projected'[t] = projected[t]
          \/ revision'[t] = revision[t] + 1
    BY <1>0, <2>1, <2>2
  <2>4. \A t \in Tables : \A v : v.instance \in Nat /\ v.revision \in Nat /\ Reached(v, t) =>
              (Reached(v, t))'
    BY <1>0, <2>1, <2>3 DEF Reached
  <2>5. \A s \in Stored : Made(s) => Made(s)'
    <3>1. TAKE s \in Stored
    <3>2. HAVE Made(s)
    <3>3. s.table \in Tables /\ s.instance \in Nat /\ s.revision \in Nat
      BY VersionTypes
    <3>4. (Reached(s, s.table))'
      BY <2>4, <3>2, <3>3 DEF Made
    <3>5. ASSUME s.instance = instance', s.revision = revision'[s.table]
          PROVE  s.orders = projected'[s.table]
      <4>1. s.instance = instance /\ s.revision <= revision[s.table]
        BY <2>1, <3>2, <3>5 DEF Made, Reached
      <4>2. revision'[s.table] # revision[s.table] + 1
        BY <1>0, <3>3, <3>5, <4>1
      <4>3. revision'[s.table] = revision[s.table] /\ projected'[s.table] = projected[s.table]
        BY <2>3, <3>3, <4>2
      <4> QED BY <3>2, <3>5, <4>1, <4>3 DEF Made
    <3> QED BY <3>4, <3>5 DEF Made
  <2> QED BY <2>4, <2>5
<1>4. CASE Browser \/ UNCHANGED vars
  BY <1>1, <1>4, BrowserLeavesService DEF serviceVars
<1>5. CASE Initialize
  BY <1>1, <1>5 DEF Initialize, projectionVars
<1>6. CASE Reconnect \/ ResumeUpdate \/ SnapshotPublished \/ ConnectionLost \/ BrokerRestart
  BY <1>1, <1>6
  DEF Reconnect, ResumeUpdate, SnapshotPublished, ConnectionLost, BrokerRestart,
      projectionVars, linkVars
<1>7. CASE \E k \in Keys : TakeUpdate(k)
  BY <1>1, <1>7 DEF TakeUpdate, projectionVars, linkVars
<1> QED BY <1>2, <1>3, <1>4, <1>5, <1>6, <1>7 DEF Next, Publisher

\* What the browser receives keeps its place among the rest.
LEMMA ReceiveShifts ==
  ASSUME LinkTyped, Receive
  PROVE  /\ \A i \in 1..Len(channel') : /\ i + 1 \in 1..Len(channel)
                                        /\ channel'[i] = channel[i + 1]
         /\ \A i \in 1..Len(channel) : i # 1 => /\ i - 1 \in 1..Len(channel')
                                                /\ channel'[i - 1] = channel[i]
         /\ \A i, t : SnapshotAt(i, t)' => SnapshotAt(i + 1, t)
<1>1. /\ Len(channel) \in Nat \ {0} /\ Len(channel') = Len(channel) - 1
      /\ \A i \in 1..Len(channel') : /\ i + 1 \in 1..Len(channel)
                                     /\ channel'[i] = channel[i + 1]
  BY ReceiveFacts
<1>2. ASSUME NEW i \in 1..Len(channel), i # 1
      PROVE  i - 1 \in 1..Len(channel') /\ channel'[i - 1] = channel[i]
  <2>1. i - 1 \in 1..Len(channel') /\ (i - 1) + 1 = i
    BY <1>1, <1>2
  <2> QED BY <1>1, <2>1
<1>3. \A i, t : SnapshotAt(i, t)' => SnapshotAt(i + 1, t)
  BY <1>1 DEF SnapshotAt
<1> QED BY <1>1, <1>2, <1>3

\* The snapshots on their way after a step that publishes.
LEMMA PublishedSnapshots ==
  ASSUME Typed, NEW T \in SUBSET Tables, Publishes(T), NEW i, NEW t \in Tables,
         SnapshotAt(i, t)'
  PROVE  \/ SnapshotAt(i, t) /\ channel'[i] = channel[i]
         \/ /\ i \notin 1..Len(channel) /\ i > Len(channel) /\ t \in T
            /\ channel'[i].body = Current(t) /\ Current(t) = retained'[t]
<1>1. /\ i \in 1..Len(channel')
      /\ channel'[i].topic = "snapshot" /\ channel'[i].body.table = t
  BY DEF SnapshotAt
<1>2. CASE i \in 1..Len(channel)
  BY <1>1, <1>2 DEF Publishes, SnapshotAt
<1>3. CASE i \notin 1..Len(channel)
  <2>1. PICK q \in T : i > Len(channel) /\ channel'[i] = Retained(Current(q))
    BY <1>1, <1>3 DEF Publishes
  <2>2. q \in Tables /\ Current(q).table = q
    BY CurrentFacts DEF Typed
  <2>3. channel'[i].body = Current(q)
    BY <2>1 DEF Retained
  <2>4. q = t
    BY <1>1, <2>2, <2>3
  <2> QED BY <1>3, <2>1, <2>3, <2>4 DEF Publishes
<1> QED BY <1>2, <1>3

\* The snapshots on their way after one that notifies.
LEMMA NotifiedSnapshots ==
  ASSUME Typed, Notifies, NEW i, NEW t, SnapshotAt(i, t)'
  PROVE  SnapshotAt(i, t) /\ channel'[i] = channel[i]
<1>1. CASE channel' = channel
  BY <1>1 DEF SnapshotAt
<1>2. CASE pending \in Updates /\ Grows(<<Status(pending)>>)
  <2> DEFINE ms == <<Status(pending)>>
  <2>1. Grows(ms) /\ Len(ms) = 1 /\ ms[1].topic = "status"
    BY <1>2, StatusTyped
  <2> HIDE DEF ms
  <2>2. \A j \in 1..Len(ms) : j = 1
    BY <2>1
  <2>3. i \in 1..Len(channel') /\ channel'[i].topic = "snapshot"
    BY DEF SnapshotAt
  <2>4. i \in 1..Len(channel)
    BY <2>1, <2>2, <2>3 DEF Grows
  <2> QED BY <2>1, <2>4 DEF Grows, SnapshotAt
<1> QED BY <1>1, <1>2 DEF Notifies

LEMMA VersionStep ==
  ASSUME Typed, PublisherInv, VersionInv, [Next]_vars
  PROVE  VersionInv'
<1>0. /\ \A t \in Tables : /\ cursors[t] \in Versions \union {NoSnapshot}
                           /\ retained[t] \in Stored \union {NoSnapshot}
                           /\ retained[t] # NoSnapshot => retained[t].table = t
  BY DEF Typed, LinkTyped, BrowserTyped
<1>a. LinkTyped /\ ServiceTyped
  BY DEF Typed
<1>1. ASSUME NEW t \in Tables, cursors[t] # NoSnapshot
      PROVE  (Reached(cursors[t], t) => (\A v : v = cursors[t] => (Reached(v, t))'))
  <2>1. cursors[t].instance \in Nat /\ cursors[t].revision \in Nat
    BY <1>0, <1>1, VersionTypes
  <2> QED BY <2>1, MadeStays
<1>2. ASSUME NEW t \in Tables, retained[t] # NoSnapshot
      PROVE  \A s : s = retained[t] => Made(s)'
  BY <1>0, <1>2, MadeStays DEF VersionInv
<1>3. ASSUME NEW t \in Tables, NEW i, SnapshotAt(i, t)
      PROVE  \A s : s = channel[i].body => Made(s)'
  <2>1. channel[i].body \in Stored /\ Made(channel[i].body)
    BY <1>a, <1>3, SnapshotAtTyped DEF VersionInv
  <2> QED BY <2>1, MadeStays
<1>4. ASSUME NEW t \in Tables, cursors[t] # NoSnapshot
      PROVE  \A v : v = cursors[t] => (Reached(v, t))'
  BY <1>1, <1>4 DEF VersionInv
<1>5. ASSUME NEW T \in SUBSET Tables, Publishes(T)
      PROVE  VersionInv'
  <2>1. ASSUME NEW t \in Tables
        PROVE  \A s : s = Current(t) => Made(s)'
    <3>1. /\ Current(t).instance = instance /\ Current(t).table = t
          /\ Current(t).revision = revision[t] /\ Current(t).orders = projected[t]
      BY <1>a, CurrentFacts
    <3>2. initialized' /\ UNCHANGED <<instance, projected, revision>>
      BY <1>5 DEF Publishes
    <3>3. instance \in Nat /\ revision[t] \in Nat
      BY <1>a DEF ServiceTyped
    <3> QED BY <3>1, <3>2, <3>3 DEF Made, Reached
  <2>2. ASSUME NEW t \in Tables
        PROVE  /\ retained'[t] # NoSnapshot => Made(retained[t])'
               /\ cursors'[t] # NoSnapshot => Reached(cursors[t], t)'
               /\ \A i : SnapshotAt(i, t)' => Made(channel[i].body)'
    <3>1. cursors' = cursors /\ (retained'[t] = Current(t) \/ retained'[t] = retained[t])
      BY <1>5 DEF Publishes
    <3>2. retained'[t] # NoSnapshot => Made(retained[t])'
      BY <1>2, <2>1, <3>1
    <3>3. cursors'[t] # NoSnapshot => Reached(cursors[t], t)'
      BY <1>4, <3>1
    <3>4. ASSUME NEW i, SnapshotAt(i, t)' PROVE Made(channel[i].body)'
      BY <1>3, <1>5, <2>1, <3>4, PublishedSnapshots
    <3> QED BY <3>2, <3>3, <3>4
  <2> QED BY <2>2 DEF VersionInv
<1>6. CASE Notifies
  <2>1. ASSUME NEW t \in Tables
        PROVE  /\ retained'[t] # NoSnapshot => Made(retained[t])'
               /\ cursors'[t] # NoSnapshot => Reached(cursors[t], t)'
               /\ \A i : SnapshotAt(i, t)' => Made(channel[i].body)'
    <3>1. cursors' = cursors /\ retained' = retained
      BY <1>6 DEF Notifies
    <3>2. ASSUME NEW i, SnapshotAt(i, t)' PROVE Made(channel[i].body)'
      BY <1>3, <1>6, <3>2, NotifiedSnapshots
    <3> QED BY <1>2, <1>4, <3>1, <3>2
  <2> QED BY <2>1 DEF VersionInv
<1>7. CASE Loses
  <2>1. ASSUME NEW t \in Tables
        PROVE  /\ retained'[t] # NoSnapshot => Made(retained[t])'
               /\ cursors'[t] # NoSnapshot => Reached(cursors[t], t)'
               /\ \A i : ~SnapshotAt(i, t)'
    <3>1. /\ retained'[t] = retained[t] \/ retained'[t] = NoSnapshot
          /\ cursors'[t] = cursors[t] \/ cursors'[t] = NoSnapshot
          /\ channel' = <<>>
      BY <1>7 DEF Loses
    <3>2. \A i : ~SnapshotAt(i, t)'
      BY <3>1 DEF SnapshotAt
    <3> QED BY <1>2, <1>4, <3>1, <3>2
  <2> QED BY <2>1 DEF VersionInv
<1>8. CASE Receive /\ UNCHANGED serviceVars
  <2>1. ASSUME NEW t \in Tables
        PROVE  /\ retained'[t] # NoSnapshot => Made(retained[t])'
               /\ cursors'[t] # NoSnapshot => Reached(cursors[t], t)'
               /\ \A i : SnapshotAt(i, t)' => Made(channel[i].body)'
    <3>1. retained' = retained /\ UNCHANGED <<instance, initialized, revision>>
      BY <1>8 DEF serviceVars
    <3>2. ASSUME NEW i, SnapshotAt(i, t)' PROVE Made(channel[i].body)'
      <4>1. i \in 1..Len(channel')
        BY <3>2 DEF SnapshotAt
      <4> QED BY <1>3, <1>8, <1>a, <3>2, <4>1, ReceiveShifts
    <3>3. CASE cursors'[t] = cursors[t]
      BY <1>2, <1>4, <3>1, <3>2, <3>3
    <3>4. CASE /\ channel[1].topic = "snapshot" /\ channel[1].body.table = t
               /\ cursors'[t] = [instance |-> channel[1].body.instance,
                                 revision |-> channel[1].body.revision]
      <4>1. SnapshotAt(1, t)
        BY <1>8, <1>a, <3>4, ReceiveFacts DEF SnapshotAt
      <4>2. Reached(channel[1].body, t)
        BY <3>4, <4>1 DEF VersionInv, Made
      <4>3. (Reached(cursors[t], t))'
        BY <3>1, <3>4, <4>2 DEF Reached
      <4> QED BY <1>2, <3>1, <3>2, <4>3
    <3>5. CASE /\ channel[1].topic = "snapshot"
               /\ cursors' = [cursors EXCEPT ![channel[1].body.table] =
                    [instance |-> channel[1].body.instance,
                     revision |-> channel[1].body.revision]]
      <4>1. cursors \in [Tables -> Versions \union {NoSnapshot}]
        BY DEF Typed, BrowserTyped
      <4> QED BY <3>3, <3>4, <3>5, <4>1
    <3> QED BY <1>8, <1>a, <3>3, <3>5, ReceiveFacts
  <2> QED BY <2>1 DEF VersionInv
<1>9. CASE Connect /\ UNCHANGED serviceVars /\ UNCHANGED <<view, cursors>>
  <2>1. ASSUME NEW t \in Tables
        PROVE  /\ retained'[t] # NoSnapshot => Made(retained[t])'
               /\ cursors'[t] # NoSnapshot => Reached(cursors[t], t)'
               /\ \A i : SnapshotAt(i, t)' => Made(channel[i].body)'
    <3>1. retained' = retained /\ cursors' = cursors
      BY <1>9 DEF serviceVars
    <3>2. ASSUME NEW i, SnapshotAt(i, t)' PROVE Made(channel[i].body)'
      <4>1. i \in 1..Len(channel')
        BY <3>2 DEF SnapshotAt
      <4>2. PICK q \in Tables : /\ retained[q] # NoSnapshot
                                /\ channel'[i] = Retained(retained[q])
        BY <1>9, <1>a, <4>1, SubscribedMessages
      <4>3. channel'[i].body = retained[q]
        BY <4>2 DEF Retained
      <4> QED BY <1>2, <4>2, <4>3
    <3> QED BY <1>2, <1>4, <3>1, <3>2
  <2> QED BY <2>1 DEF VersionInv
<1>10. CASE Fills
  <2>1. ASSUME NEW t \in Tables
        PROVE  /\ retained'[t] # NoSnapshot => Made(retained[t])'
               /\ cursors'[t] # NoSnapshot => Reached(cursors[t], t)'
               /\ \A i : SnapshotAt(i, t)' => Made(channel[i].body)'
    <3>1. retained' = retained /\ cursors' = cursors /\ channel' = channel
      BY <1>10 DEF Fills, serviceVars
    <3>2. ASSUME NEW i, SnapshotAt(i, t)' PROVE Made(channel[i].body)'
      <4>1. SnapshotAt(i, t)
        BY <3>1, <3>2 DEF SnapshotAt
      <4> QED BY <1>3, <3>1, <4>1
    <3> QED BY <1>2, <1>4, <3>1, <3>2
  <2> QED BY <2>1 DEF VersionInv
<1> QED BY <1>5, <1>6, <1>7, <1>8, <1>9, <1>10, Forms

-----------------------------------------------------------------------------
(* Every list has an order once, and nobody knows a new order.             *)

\* The service, the broker or a message has the order x.
Heard(x) ==
  \/ pending # NoUpdate /\ x = pending
  \/ \E t \in Tables :
       \/ Contains(projected[t], x)
       \/ retained[t] # NoSnapshot /\ Contains(retained[t].orders, x)
       \/ \E i : SnapshotAt(i, t) /\ Contains(channel[i].body.orders, x)
  \/ \E i \in 1..Len(channel) : channel[i].topic = "status" /\ channel[i].body = x

OnceInv ==
  /\ Once(view)
  /\ \A t \in Tables :
       /\ Once(projected[t])
       /\ retained[t] # NoSnapshot => Once(retained[t].orders)
       /\ \A i : SnapshotAt(i, t) => Once(channel[i].body.orders)

NewInv ==
  \A k \in Own : placed[k] = "new" =>
    \A x : Heard(x) \/ Contains(view, x) => x.id # k[2]

\* An order that was placed is never new again.
LEMMA FreshStays ==
  ASSUME Typed, [Next]_vars
  PROVE  \A k \in Own : placed'[k] = "new" => placed[k] = "new"
<1>a. LinkTyped /\ BrowserTyped
  BY DEF Typed
<1>1. CASE Initialize \/ Reconnect \/ Publisher \/ ConnectionLost \/ Restart \/ BrokerRestart
  BY <1>1, ServiceLeavesBrowser
<1>2. CASE Receive
  BY <1>a, <1>2, ReceiveFacts
<1>3. CASE Browser /\ ~Receive
  BY <1>a, <1>3, FormSteps DEF Places
<1>4. CASE UNCHANGED vars
  BY <1>4 DEF vars, sourceVars
<1> QED BY <1>1, <1>2, <1>3, <1>4 DEF Next

\* What a step does to the projection of a table.
LEMMA ProjectionStep ==
  ASSUME Typed, PublisherInv, [Next]_vars, NEW t \in Tables
  PROVE  \/ /\ projected'[t] = projected[t] /\ revision'[t] = revision[t]
            /\ instance' = instance /\ (initialized => initialized')
         \/ Restart /\ projected'[t] = <<>> /\ pending' = NoUpdate
         \/ /\ Pending(t) /\ pending \in Updates /\ StatusPublished
            /\ projected'[t] = Applied(projected[t], pending)
            /\ revision'[t] = IF Contains(projected[t], pending)
                              THEN revision[t] ELSE revision[t] + 1
            /\ UNCHANGED <<instance, initialized, pending>>
<1>0. /\ projected \in [Tables -> Seq(Updates)] /\ revision \in [Tables -> Nat]
      /\ pending \in Updates \union {NoUpdate}
      /\ stage # "idle" => pending # NoUpdate
  BY DEF Typed, ServiceTyped
<1>1. CASE Restart
  BY <1>1 DEF Restart
<1>2. CASE StatusPublished
  <2> DEFINE u == pending.table
             orders == Applied(projected[u], pending)
             rev == IF Contains(projected[u], pending) THEN revision[u] ELSE revision[u] + 1
  <2>1. /\ projected' = [projected EXCEPT ![u] = orders]
        /\ revision' = [revision EXCEPT ![u] = rev]
        /\ UNCHANGED <<instance, initialized, pending>>
        /\ pending \in Updates /\ pending # NoUpdate
    BY <1>0, <1>2 DEF StatusPublished, linkVars
  <2>2. CASE t = u
    <3> HIDE DEF orders, rev
    <3>1. projected'[t] = orders /\ revision'[t] = rev
      BY <1>0, <2>1, <2>2
    <3> QED BY <1>2, <2>1, <2>2, <3>1 DEF Pending, orders, rev
  <2>3. CASE t # u
    <3> HIDE DEF orders, rev, u
    <3> QED BY <1>0, <2>1, <2>3
  <2> QED BY <2>2, <2>3
<1>3. CASE Browser \/ UNCHANGED vars
  BY <1>3, BrowserLeavesService DEF serviceVars
<1>4. CASE Initialize
  BY <1>4 DEF Initialize, projectionVars
<1>5. CASE Reconnect \/ ResumeUpdate \/ SnapshotPublished \/ ConnectionLost \/ BrokerRestart
  BY <1>5
  DEF Reconnect, ResumeUpdate, SnapshotPublished, ConnectionLost, BrokerRestart,
      projectionVars, linkVars
<1>6. CASE \E k \in Keys : TakeUpdate(k)
  BY <1>6 DEF TakeUpdate, projectionVars, linkVars
<1> QED BY <1>1, <1>2, <1>3, <1>4, <1>5, <1>6 DEF Next, Publisher

\* And to the pending update.
LEMMA PendingStep ==
  ASSUME Typed, [Next]_vars
  PROVE  \/ pending' = pending
         \/ pending' = NoUpdate /\ (Restart \/ SnapshotPublished)
         \/ /\ \E k \in Keys : /\ TakeUpdate(k)
                               /\ pending'.id = k[2] /\ pending'.table = k[1]
                               /\ k \in Own => placed[k] = "sent"
            /\ pending = NoUpdate
<1>1. CASE Restart \/ SnapshotPublished
  BY <1>1 DEF Restart, SnapshotPublished
<1>2. ASSUME NEW k \in Keys, TakeUpdate(k)
      PROVE  /\ pending'.id = k[2] /\ pending'.table = k[1]
             /\ (k \in Own => placed[k] = "sent") /\ pending = NoUpdate
  <2>1. life[k].id = k[2] /\ life[k].table = k[1]
    BY DEF Typed, ServiceTyped, Lives, View
  <2> QED BY <1>2, <2>1 DEF TakeUpdate, View
<1>3. CASE Browser \/ UNCHANGED vars
  BY <1>3, BrowserLeavesService DEF serviceVars
<1>4. CASE Initialize \/ Reconnect \/ ResumeUpdate \/ StatusPublished \/ ConnectionLost
             \/ BrokerRestart
  BY <1>4
  DEF Initialize, Reconnect, ResumeUpdate, StatusPublished, ConnectionLost,
      BrokerRestart, publisherVars
<1> QED BY <1>1, <1>2, <1>3, <1>4 DEF Next, Publisher

\* Where a message on its way comes from.
LEMMA MessagesStep ==
  ASSUME Typed, PublisherInv, [Next]_vars, NEW i \in 1..Len(channel')
  PROVE  \/ \E j \in 1..Len(channel) : channel'[i] = channel[j]
         \/ pending \in Updates /\ channel'[i] = Status(pending)
         \/ \E t \in Tables : channel'[i] = Retained(Current(t))
         \/ \E t \in Tables : retained[t] # NoSnapshot /\ channel'[i] = Retained(retained[t])
<1>a. LinkTyped
  BY DEF Typed
<1>1. ASSUME NEW T \in SUBSET Tables, Publishes(T)
      PROVE  \/ \E j \in 1..Len(channel) : channel'[i] = channel[j]
             \/ \E t \in Tables : channel'[i] = Retained(Current(t))
  BY <1>1 DEF Publishes
<1>2. CASE Notifies
  <2> DEFINE ms == <<Status(pending)>>
  <2>1. CASE Grows(ms) /\ pending \in Updates
    <3>1. Len(ms) = 1 /\ ms[1] = Status(pending)
      OBVIOUS
    <3> HIDE DEF ms
    <3>2. \A j \in 1..Len(ms) : j = 1
      BY <3>1
    <3> QED BY <2>1, <3>1, <3>2 DEF Grows
  <2>2. CASE channel' = channel
    BY <2>2
  <2> QED BY <1>2, <2>1, <2>2 DEF Notifies
<1>3. CASE Loses
  <2>1. Len(channel') = 0
    BY <1>3 DEF Loses
  <2> QED BY <2>1
<1>4. CASE Receive
  BY <1>a, <1>4, ReceiveFacts
<1>5. CASE Connect
  BY <1>a, <1>5, SubscribedMessages
<1>6. CASE Fills
  BY <1>6 DEF Fills
<1> QED BY <1>1, <1>2, <1>3, <1>4, <1>5, <1>6, Forms

\* What the broker retains of a table is retained already, or is current.
LEMMA RetainedStep ==
  ASSUME Typed, PublisherInv, [Next]_vars, NEW t \in Tables
  PROVE  retained'[t] \in {retained[t], NoSnapshot, Current(t)}
<1>1. ASSUME NEW T \in SUBSET Tables, Publishes(T)
      PROVE  retained'[t] \in {retained[t], Current(t)}
  BY <1>1 DEF Publishes
<1>2. CASE Notifies \/ Loses \/ UNCHANGED serviceVars
  BY <1>2 DEF Notifies, Loses, serviceVars
<1> QED BY <1>1, <1>2, Forms DEF Fills

\* Nobody hears of an order unless the service takes an update of it.
LEMMA HeardStep ==
  ASSUME Typed, PublisherInv, [Next]_vars, NEW x, Heard(x)'
  PROVE  \/ Heard(x)
         \/ \E k \in Keys : x.id = k[2] /\ (k \in Own => placed[k] = "sent")
<1>a. /\ LinkTyped /\ ServiceTyped /\ PublisherInv
      /\ \A t \in Tables : projected[t] \in Lists(t)
  BY DEF Typed, ServiceTyped
<1>0. \A t \in Tables : Current(t).orders = projected[t] /\ Current(t).table = t
  BY <1>a, CurrentFacts
<1>1. CASE pending' # NoUpdate /\ x = pending'
  BY <1>1, PendingStep DEF Heard
<1>2. ASSUME NEW t \in Tables, Contains(projected'[t], x) PROVE Heard(x)
  <2>1. ~Contains(<<>>, x)
    BY ConstantFacts
  <2>2. CASE Pending(t) /\ pending \in Updates /\ projected'[t] = Applied(projected[t], pending)
    <3>1. pending.table = t /\ pending # NoUpdate
      BY <2>2 DEF Pending
    <3>2. \A y : Contains(Applied(projected[t], pending), y) =>
            Contains(projected[t], y) \/ y = pending
      BY <1>a, <2>2, <3>1, AppliedFacts
    <3> QED BY <1>2, <2>2, <3>1, <3>2 DEF Heard
  <2> QED BY <1>2, <2>1, <2>2, ProjectionStep DEF Heard
<1>3. ASSUME NEW t \in Tables, retained'[t] # NoSnapshot, Contains(retained'[t].orders, x)
      PROVE  Heard(x)
  BY <1>0, <1>3, RetainedStep DEF Heard
<1>4. ASSUME NEW i \in 1..Len(channel'),
             \/ channel'[i].topic = "status" /\ channel'[i].body = x
             \/ channel'[i].topic = "snapshot" /\ Contains(channel'[i].body.orders, x)
      PROVE  Heard(x)
  <2>1. CASE \E j \in 1..Len(channel) : channel'[i] = channel[j]
    <3>1. PICK j \in 1..Len(channel) : channel'[i] = channel[j]
      BY <2>1
    <3>2. CASE channel[j].topic = "snapshot" /\ Contains(channel[j].body.orders, x)
      <4>1. channel[j].body \in Stored
        BY <1>a, <3>2, ElementOfSeq, MessageFacts DEF LinkTyped
      <4>2. channel[j].body.table \in Tables /\ SnapshotAt(j, channel[j].body.table)
        BY <3>2, <4>1, VersionTypes DEF SnapshotAt
      <4> QED BY <3>2, <4>2 DEF Heard
    <3> QED BY <1>4, <3>1, <3>2 DEF Heard
  <2>2. CASE pending \in Updates /\ channel'[i] = Status(pending)
    <3>1. pending # NoUpdate /\ channel'[i].topic = "status" /\ channel'[i].body = pending
      BY <2>2, ConstantFacts, StatusTyped
    <3> QED BY <1>4, <3>1 DEF Heard
  <2>3. ASSUME NEW t \in Tables, channel'[i] = Retained(Current(t))
        PROVE  Heard(x)
    <3>1. channel'[i].topic = "snapshot" /\ channel'[i].body = Current(t)
      BY <2>3 DEF Retained
    <3> QED BY <1>0, <1>4, <3>1 DEF Heard
  <2>4. ASSUME NEW t \in Tables, retained[t] # NoSnapshot, channel'[i] = Retained(retained[t])
        PROVE  Heard(x)
    <3>1. channel'[i].topic = "snapshot" /\ channel'[i].body = retained[t]
      BY <2>4 DEF Retained
    <3> QED BY <1>4, <2>4, <3>1 DEF Heard
  <2> QED BY <2>1, <2>2, <2>3, <2>4, MessagesStep
<1> QED BY <1>1, <1>2, <1>3, <1>4 DEF Heard, SnapshotAt

\* What the browser shows it showed before, has heard of, or just placed.
LEMMA ViewStep ==
  ASSUME Typed, PublisherInv, [Next]_vars, NEW x, Contains(view', x)
  PROVE  \/ Heard(x)
         \/ \E y : Contains(view, y) /\ y.id = x.id
         \/ \E k \in Own : x.id = k[2] /\ placed[k] = "new" /\ placed'[k] # "new"
<1>a. LinkTyped /\ view \in Seq(Orders)
  BY DEF Typed, BrowserTyped
<1>1. CASE view' = view
  BY <1>1
<1>2. CASE view' = <<>>
  BY <1>2, ConstantFacts
<1>3. CASE Receive
  <2> DEFINE m == channel[1]
  <2>1. CASE m.topic = "status" /\ view' = WithStatus(view, m.body)
    <3>1. m.body \in Updates /\ 1 \in 1..Len(channel)
      BY <1>3, <1>a, <2>1, ReceiveFacts, MessageFacts
    <3> HIDE DEF m
    <3>2. Contains(view, x) \/ x = m.body
      BY <1>a, <2>1, <3>1, WithStatusFacts
    <3> QED BY <2>1, <3>1, <3>2 DEF Heard, m
  <2>2. CASE m.topic = "snapshot" /\ view' = WithSnapshot(view, m.body)
    <3>1. m.body \in Stored /\ 1 \in 1..Len(channel)
      BY <1>3, <1>a, <2>2, ReceiveFacts, MessageFacts
    <3>2. m.body.table \in Tables /\ SnapshotAt(1, m.body.table)
      BY <2>2, <3>1, VersionTypes DEF SnapshotAt
    <3> HIDE DEF m
    <3>3. Contains(view, x) \/ Contains(m.body.orders, x)
      BY <1>a, <2>2, <3>1, WithSnapshotFacts
    <3> QED BY <3>2, <3>3 DEF Heard, m
  <2> QED BY <1>1, <1>3, <1>a, <2>1, <2>2, ReceiveFacts
<1>4. CASE Marks(view', view)
  <2>1. \A r : Marks(r, view) /\ Contains(r, x) =>
          \E y : Contains(view, y) /\ y.id = x.id
    BY <1>a, MarksFacts
  <2> QED BY <1>4, <2>1
<1>5. ASSUME NEW new \in Seq(Orders), Places(new)
      PROVE  \/ \E y : Contains(view, y) /\ y.id = x.id
             \/ \E k \in Own : x.id = k[2] /\ placed[k] = "new" /\ placed'[k] # "new"
  <2>1. Contains(new, x) \/ Contains(view, x)
    BY <1>5, <1>a, NewOrdersFacts DEF Places
  <2> QED BY <1>5, <2>1 DEF Places
<1>6. ASSUME NEW T \in SUBSET Tables, Publishes(T) PROVE view' = view
  BY <1>6 DEF Publishes
<1>7. CASE Notifies \/ Loses
  BY <1>7, <1>1, <1>2 DEF Notifies, Loses
<1>8. CASE Fills
  BY <1>8, <1>4, <1>5 DEF Fills
<1> QED BY <1>1, <1>3, <1>6, <1>7, <1>8, Forms

LEMMA NewStep ==
  ASSUME UniqueIds, Typed, PublisherInv, NewInv, [Next]_vars
  PROVE  NewInv'
<1>1. ASSUME NEW k \in Own, placed'[k] = "new", NEW x, Heard(x)' \/ Contains(view', x)
      PROVE  x.id # k[2]
  <2>1. k \in Keys /\ placed[k] = "new"
    BY <1>1, FreshStays, ConstantFacts
  <2>2. \A l \in Keys : l[2] = k[2] => l = k
    BY <2>1 DEF UniqueIds
  <2>3. \A y : Heard(y) \/ Contains(view, y) => y.id # k[2]
    BY <2>1 DEF NewInv
  <2>4. CASE Heard(x)'
    BY <2>1, <2>2, <2>3, <2>4, HeardStep
  <2>5. CASE Contains(view', x)
    BY <1>1, <2>1, <2>2, <2>3, <2>5, ViewStep, ConstantFacts
  <2> QED BY <1>1, <2>4, <2>5
<1> QED BY <1>1 DEF NewInv

LEMMA OnceStep ==
  ASSUME UniqueIds, Typed, PublisherInv, OnceInv, NewInv, [Next]_vars
  PROVE  OnceInv'
<1>a. /\ LinkTyped /\ ServiceTyped /\ view \in Seq(Orders)
      /\ \A t \in Tables : projected[t] \in Lists(t)
  BY DEF Typed, ServiceTyped, BrowserTyped
<1>0. \A t \in Tables : Current(t).orders = projected[t] /\ Current(t).table = t
  BY <1>a, CurrentFacts
<1>b. Once(<<>>)
  BY DEF Once
<1>1. ASSUME NEW t \in Tables PROVE Once(projected'[t])
  <2>1. CASE Pending(t) /\ pending \in Updates /\ projected'[t] = Applied(projected[t], pending)
    <3>1. pending.table = t
      BY <2>1 DEF Pending
    <3> QED BY <1>a, <2>1, <3>1, AppliedFacts DEF OnceInv
  <2> QED BY <1>b, <2>1, ProjectionStep DEF OnceInv
<1>2. ASSUME NEW t \in Tables, retained'[t] # NoSnapshot
      PROVE  Once(retained'[t].orders)
  BY <1>0, <1>2, RetainedStep DEF OnceInv
<1>3. ASSUME NEW t \in Tables, NEW i, SnapshotAt(i, t)'
      PROVE  Once(channel'[i].body.orders)
  <2>0. i \in 1..Len(channel') /\ channel'[i].topic = "snapshot" /\ channel'[i].body.table = t
    BY <1>3 DEF SnapshotAt
  <2>1. ASSUME NEW j \in 1..Len(channel), channel'[i] = channel[j]
        PROVE  Once(channel'[i].body.orders)
    BY <2>0, <2>1 DEF OnceInv, SnapshotAt
  <2>2. ~(pending \in Updates /\ channel'[i] = Status(pending))
    BY <2>0, StatusTyped
  <2>3. ASSUME NEW q \in Tables, channel'[i] = Retained(Current(q))
        PROVE  Once(channel'[i].body.orders)
    BY <1>0, <2>3 DEF OnceInv, Retained
  <2>4. ASSUME NEW q \in Tables, retained[q] # NoSnapshot, channel'[i] = Retained(retained[q])
        PROVE  Once(channel'[i].body.orders)
    BY <2>4 DEF OnceInv, Retained
  <2> QED BY <2>0, <2>1, <2>2, <2>3, <2>4, MessagesStep
<1>4. Once(view')
  <2>1. CASE view' = view \/ view' = <<>>
    BY <1>b, <2>1 DEF OnceInv
  <2>2. CASE Receive
    <3> DEFINE m == channel[1]
    <3>1. CASE m.topic = "status" /\ view' = WithStatus(view, m.body)
      <4>1. m.body \in Updates
        BY <2>2, <1>a, <3>1, ReceiveFacts, MessageFacts
      <4> HIDE DEF m
      <4> QED BY <1>a, <3>1, <4>1, WithStatusFacts DEF OnceInv
    <3>2. CASE m.topic = "snapshot" /\ view' = WithSnapshot(view, m.body)
      <4>1. m.body \in Stored /\ 1 \in 1..Len(channel)
        BY <2>2, <1>a, <3>2, ReceiveFacts, MessageFacts
      <4>2. m.body.table \in Tables /\ SnapshotAt(1, m.body.table)
        BY <3>2, <4>1, VersionTypes DEF SnapshotAt
      <4>3. Once(m.body.orders)
        BY <4>2 DEF OnceInv
      <4> HIDE DEF m
      <4> QED BY <1>a, <3>2, <4>1, <4>3, WithSnapshotFacts DEF OnceInv
    <3> QED BY <1>a, <2>1, <2>2, <3>1, <3>2, ReceiveFacts
  <2>3. CASE Marks(view', view)
    <3>1. \A r : Marks(r, view) => Once(r)
      BY <1>a, MarksFacts DEF OnceInv
    <3> QED BY <2>3, <3>1
  <2>4. ASSUME NEW new \in Seq(Orders), Places(new) PROVE Once(view')
    <3>1. \A x, y : Contains(new, x) /\ Contains(view, y) => x.id # y.id
      BY <2>4 DEF Places, NewInv
    <3>2. Once(new) /\ view' = new \o view /\ Once(view)
      BY <2>4 DEF Places, OnceInv
    <3> QED BY <1>a, <3>1, <3>2, OnceConcat
  <2>5. ASSUME NEW T \in SUBSET Tables, Publishes(T) PROVE view' = view
    BY <2>5 DEF Publishes
  <2>6. CASE Notifies \/ Loses
    BY <2>6, <2>1 DEF Notifies, Loses
  <2>7. CASE Fills
    BY <2>7, <2>3, <2>4 DEF Fills
  <2> QED BY <2>1, <2>2, <2>5, <2>6, <2>7, Forms
<1> QED BY <1>1, <1>2, <1>3, <1>4 DEF OnceInv

LEMMA IdentityInit ==
  ASSUME Init
  PROVE  OnceInv /\ NewInv
<1>1. /\ pending = NoUpdate /\ view = <<>> /\ channel = <<>>
      /\ \A t \in Tables : projected[t] = <<>> /\ retained[t] = NoSnapshot
  BY DEF Init
<1>2. Len(channel) = 0 /\ \A x : ~Contains(<<>>, x)
  BY <1>1, ConstantFacts
<1>3. \A i, t : ~SnapshotAt(i, t)
  BY <1>2 DEF SnapshotAt
<1>4. \A x : ~Heard(x) /\ ~Contains(view, x)
  BY <1>1, <1>2, <1>3 DEF Heard
<1>5. OnceInv
  BY <1>1, <1>3 DEF OnceInv, Once
<1> QED BY <1>4, <1>5 DEF NewInv

\* The inductive invariant about the identity of orders.
LEMMA IdentityInvariant ==
  ASSUME UniqueIds
  PROVE  Spec => [](Typed /\ PublisherInv /\ OnceInv /\ NewInv)
<1> DEFINE IInv == Typed /\ PublisherInv /\ OnceInv /\ NewInv
<1>1. Init => IInv
  <2>1. Init => PublisherInv
    BY DEF Init, PublisherInv
  <2> QED BY <2>1, TypedInit, IdentityInit
<1>2. IInv /\ [Next]_vars => IInv'
  BY TypedStep, PublisherStep, OnceStep, NewStep
<1> HIDE DEF IInv
<1>3. Spec => []IInv
  BY <1>1, <1>2, PTL DEF Spec
<1> QED BY <1>3 DEF IInv

\* When no two orders share an id, the browser shows each order once, whatever
\* the order form, the statuses and the snapshots add.
THEOREM EachShownOnce ==
  ASSUME UniqueIds
  PROVE  Spec => []ShownOnce
<1>1. OnceInv => ShownOnce
  BY DEF OnceInv, Once, ShownOnce
<1> QED BY <1>1, IdentityInvariant, PTL

-----------------------------------------------------------------------------
(* An order that was placed stays in view.                                 *)

\* Shows, by the elements of the list.
LEMMA ShowsHolds ==
  ASSUME NEW orders \in Seq(Orders), NEW k, NEW statuses
  PROVE  Shows(orders, k, statuses) <=>
           \E x : /\ Contains(orders, x) /\ <<x.table, x.id>> = k
                  /\ x.status \in statuses
<1>1. Len(orders) \in Nat /\ DOMAIN orders = 1..Len(orders)
  OBVIOUS
<1> QED BY <1>1 DEF Shows, Contains

\* What becomes of an order the browser shows.
LEMMA OrderStep ==
  ASSUME UniqueIds, Typed, PublisherInv, OnceInv, NewInv, [Next]_vars,
         NEW x, Contains(view, x)
  PROVE  /\ x.status \in Local =>
              Refresh \/ \E y : Contains(view', y) /\ y.id = x.id /\ y.table = x.table
         /\ x.status \in Public =>
              \A y : Contains(view', y) /\ y.id = x.id => y.status \notin Local
<1> DEFINE Goal(r) ==
      /\ x.status \in Local =>
           Refresh \/ \E y : Contains(r, y) /\ y.id = x.id /\ y.table = x.table
      /\ x.status \in Public =>
           \A y : Contains(r, y) /\ y.id = x.id => y.status \notin Local
<1>a. LinkTyped /\ BrowserTyped /\ view \in Seq(Orders) /\ Once(view)
  BY DEF Typed, BrowserTyped, OnceInv
<1>b. Public \intersect Local = {}
  BY DEF Public, Local
<1>c. x \in Orders
  BY <1>a, ContainsTyped
<1>d. \A y : Contains(view, y) /\ y.id = x.id => y = x
  BY <1>a, OnceSame
<1>1. CASE view' = view
  <2>1. Goal(view)
    BY <1>b, <1>d
  <2> QED BY <1>1, <2>1
<1>2. CASE Receive
  <2> DEFINE m == channel[1]
  <2>1. CASE m.topic = "status" /\ view' = WithStatus(view, m.body)
    <3>1. m.body \in Updates
      BY <1>2, <1>a, <2>1, ReceiveFacts, MessageFacts
    <3> DEFINE u == m.body
    <3> HIDE DEF m
    <3>2. /\ \A y : Contains(WithStatus(view, u), y) => Contains(view, y) \/ y = u
          /\ Contains(WithStatus(view, u), x) \/
               (Contains(WithStatus(view, u), u) /\ x.id = u.id)
      BY <1>a, <3>1, WithStatusFacts
    <3>3. u \in Orders /\ u.status \in Public
      BY <3>1 DEF Updates
    <3>4. x.id = u.id => x.table = u.table
      BY <1>c, <3>3, IdTellsTable
    <3> HIDE DEF u
    <3>5. Goal(WithStatus(view, u))
      BY <1>b, <1>d, <3>2, <3>3, <3>4
    <3> QED BY <2>1, <3>5 DEF u
  <2>2. CASE m.topic = "snapshot" /\ view' = WithSnapshot(view, m.body)
    <3>1. m.body \in Stored
      BY <1>2, <1>a, <2>2, ReceiveFacts, MessageFacts
    <3> DEFINE s == m.body
               r == WithSnapshot(view, s)
    <3> HIDE DEF m
    <3>2. \A y : Contains(r, y) <=>
            \/ Contains(s.orders, y)
            \/ Contains(view, y) /\ y.table # s.table
            \/ /\ Contains(view, y) /\ y.table = s.table /\ y.status \in Local
               /\ ~\E z : Contains(s.orders, z) /\ z.id = y.id
      BY <1>a, <3>1, WithSnapshotFacts
    <3>3. \A y : Contains(s.orders, y) => y.status \in Public /\ y.table = s.table
      <4>1. s.orders \in Lists(s.table)
        BY <3>1, VersionTypes
      <4> QED BY <4>1, ContainsTyped DEF Lists, Updates
    <3> HIDE DEF s, r
    <3>5. Goal(r)
      BY <1>b, <1>d, <3>2, <3>3
    <3> QED BY <2>2, <3>5 DEF r, s
  <2> QED BY <1>1, <1>2, <1>a, <2>1, <2>2, ReceiveFacts
<1>3. CASE Marks(view', view)
  <2>1. ASSUME NEW r, Marks(r, view) PROVE Goal(r)
    <3>1. /\ \A y : Contains(r, y) =>
               \E z : /\ Contains(view, z) /\ y.id = z.id /\ y.table = z.table
                      /\ y = z \/ z.status = "sending"
          /\ \A y : Contains(view, y) =>
               \E z : /\ Contains(r, z) /\ y.id = z.id /\ y.table = z.table
                      /\ y = z \/ z.status = "send_failed"
      BY <1>a, <2>1, MarksFacts
    <3>2. "sending" \in Local
      BY DEF Local
    <3> QED BY <1>b, <1>d, <3>1, <3>2
  <2> QED BY <1>3, <2>1
<1>4. ASSUME NEW new \in Seq(Orders), Places(new)
      PROVE  Goal(view')
  <2>1. \A y : Contains(new \o view, y) <=> Contains(new, y) \/ Contains(view, y)
    BY <1>4, <1>a, NewOrdersFacts DEF Places
  <2>2. \A y : Contains(new, y) => y.id # x.id
    BY <1>4 DEF Places, NewInv
  <2>3. Goal(new \o view)
    BY <1>b, <1>d, <2>1, <2>2
  <2> QED BY <1>4, <2>3 DEF Places
<1>5. CASE Refresh
  <2>1. view' = <<>>
    BY <1>5 DEF Refresh
  <2>2. \A y : ~Contains(<<>>, y)
    BY ConstantFacts
  <2> QED BY <1>5, <2>1, <2>2
<1>6. CASE Browser /\ ~Receive
  BY <1>1, <1>3, <1>4, <1>5, <1>6, <1>a, FormSteps
<1>7. CASE Initialize \/ Reconnect \/ Publisher \/ ConnectionLost \/ Restart \/ BrokerRestart
  BY <1>1, <1>7, ServiceLeavesBrowser
<1>8. CASE UNCHANGED vars
  BY <1>1, <1>8 DEF vars, sessionVars
<1> QED BY <1>2, <1>6, <1>7, <1>8 DEF Next

\* While the page is open an order placed from it stays in view until the
\* service answers it, and no answer is taken back: when no two orders share an
\* id.
THEOREM PlacedStaysInView ==
  ASSUME UniqueIds
  PROVE  Spec => PlacedOrderIsKept
<1> DEFINE IInv == Typed /\ PublisherInv /\ OnceInv /\ NewInv
           Kept == \A k \in Keys :
             /\ Shows(view, k, Local) => Refresh \/ Shows(view', k, Local \union Public)
             /\ Shows(view, k, Public) => ~Shows(view', k, Local)
<1>1. IInv /\ [Next]_vars => Kept
  <2>1. SUFFICES ASSUME IInv, [Next]_vars, NEW k \in Keys
        PROVE  /\ Shows(view, k, Local) =>
                    Refresh \/ Shows(view', k, Local \union Public)
               /\ Shows(view, k, Public) => ~Shows(view', k, Local)
    OBVIOUS
  <2>2. view \in Seq(Orders) /\ view' \in Seq(Orders)
    BY <2>1, TypedStep DEF Typed, BrowserTyped
  <2>3. ASSUME Shows(view, k, Local), ~Refresh
        PROVE  Shows(view', k, Local \union Public)
    <3>1. PICK x : Contains(view, x) /\ <<x.table, x.id>> = k /\ x.status \in Local
      BY <2>2, <2>3, ShowsHolds
    <3>2. PICK y : Contains(view', y) /\ y.id = x.id /\ y.table = x.table
      BY <2>1, <2>3, <3>1, OrderStep
    <3>3. y.status \in Local \union Public
      BY <2>2, <3>2, ContainsTyped DEF Orders, Views
    <3> QED BY <2>2, <3>1, <3>2, <3>3, ShowsHolds
  <2>4. ASSUME Shows(view, k, Public), Shows(view', k, Local)
        PROVE  FALSE
    <3>1. PICK x : Contains(view, x) /\ <<x.table, x.id>> = k /\ x.status \in Public
      BY <2>2, <2>4, ShowsHolds
    <3>2. PICK y : Contains(view', y) /\ <<y.table, y.id>> = k /\ y.status \in Local
      BY <2>2, <2>4, ShowsHolds
    <3>3. y.id = x.id
      BY <3>1, <3>2
    <3> QED BY <2>1, <3>1, <3>2, <3>3, OrderStep
  <2> QED BY <2>3, <2>4
<1>2. Spec => []IInv
  BY IdentityInvariant
<1>3. Spec => [][Kept]_vars
  <2> HIDE DEF IInv, Kept
  <2> QED BY <1>1, <1>2, PTL DEF Spec
<1> QED BY <1>3 DEF PlacedOrderIsKept

-----------------------------------------------------------------------------
(* Snapshots arrive in the order of their versions.                        *)

\* Version a is b or an earlier one.
UpTo(a, b) ==
  \/ a.instance < b.instance
  \/ a.instance = b.instance /\ a.revision <= b.revision

SameVersion(a, b) == a.instance = b.instance /\ a.revision = b.revision

\* The browser is behind what is on its way, that is behind what is retained, and
\* the last snapshot retained is on its way to a browser that has not applied it.
OrderInv ==
  \A t \in Tables :
    /\ retained[t] # NoSnapshot /\ cursors[t] # NoSnapshot => UpTo(cursors[t], retained[t])
    /\ \A i : SnapshotAt(i, t) =>
         /\ retained[t] # NoSnapshot /\ UpTo(channel[i].body, retained[t])
         /\ cursors[t] # NoSnapshot => UpTo(cursors[t], channel[i].body)
         /\ \A j : SnapshotAt(j, t) /\ i < j => UpTo(channel[i].body, channel[j].body)
    /\ online /\ retained[t] # NoSnapshot =>
         \/ cursors[t] # NoSnapshot /\ SameVersion(cursors[t], retained[t])
         \/ \E i : SnapshotAt(i, t) /\ channel[i].body = retained[t]

\* What was reached comes before the current snapshot.
LEMMA ReachedIsBefore ==
  ASSUME Typed, NEW t \in Tables
  PROVE  /\ \A v : v.instance \in Nat /\ Reached(v, t) => UpTo(v, Current(t))
         /\ UpTo(Current(t), Current(t))
<1>1. /\ Current(t).instance = instance /\ Current(t).revision = revision[t]
      /\ instance \in Nat /\ revision[t] \in Nat
  BY CurrentFacts DEF Typed, ServiceTyped
<1>2. ASSUME NEW v, v.instance \in Nat, Reached(v, t) PROVE UpTo(v, Current(t))
  <2>1. /\ v.instance <= instance
        /\ initialized \/ v.instance < instance
        /\ v.instance = instance => v.revision <= revision[t]
    BY <1>2 DEF Reached
  <2>2. CASE v.instance = instance
    BY <1>1, <2>1, <2>2 DEF UpTo
  <2>3. CASE v.instance < instance
    BY <1>1, <2>3 DEF UpTo
  <2>4. v.instance = instance \/ v.instance < instance
    BY <1>1, <1>2, <2>1
  <2> QED BY <2>2, <2>3, <2>4
<1> QED BY <1>1, <1>2 DEF UpTo

\* What the browser does with a snapshot of table t, or with another message: it
\* refuses only a snapshot of the version it has.
LEMMA ReceivedSnapshot ==
  ASSUME Typed, OrderInv, Receive, NEW t \in Tables
  PROVE  \/ /\ SnapshotAt(1, t) /\ channel[1].body \in Stored
            /\ cursors'[t] \in Versions /\ SameVersion(cursors'[t], channel[1].body)
            /\ \/ view' = WithSnapshot(view, channel[1].body)
               \/ view' = view /\ cursors'[t] = cursors[t]
         \/ /\ ~SnapshotAt(1, t) /\ cursors'[t] = cursors[t]
            /\ \/ view' = view
               \/ /\ channel[1].topic = "status" /\ channel[1].body \in Updates
                  /\ view' = WithStatus(view, channel[1].body)
               \/ /\ channel[1].body \in Stored /\ channel[1].body.table # t
                  /\ view' = WithSnapshot(view, channel[1].body)
<1> DEFINE m == channel[1]
           s == m.body
           version == [instance |-> s.instance, revision |-> s.revision]
<1>a. LinkTyped /\ cursors \in [Tables -> Versions \union {NoSnapshot}]
  BY DEF Typed, BrowserTyped
<1>1. 1 \in 1..Len(channel) /\ m \in Messages
  BY <1>a, ReceiveFacts
<1>2. CASE m.topic = "status"
  <2>1. m.body \in Updates
    BY <1>1, <1>2, MessageFacts
  <2>2. ~SnapshotAt(1, t)
    BY <1>2 DEF SnapshotAt
  <2> QED BY <1>2, <1>a, <2>1, <2>2, ReceiveFacts
<1>3. CASE m.topic = "snapshot"
  <2>1. s \in Stored
    BY <1>1, <1>3, MessageFacts
  <2>2. s.table \in Tables /\ s.orders \in Lists(s.table) /\ version \in Versions
    BY <2>1, VersionTypes DEF Versions
  <2>3. \/ /\ Applicable(s) /\ view' = WithSnapshot(view, s)
           /\ cursors' = [cursors EXCEPT ![s.table] = version]
        \/ ~Applicable(s) /\ view' = view /\ cursors' = cursors
    BY <1>3, <1>a, ReceiveFacts
  <2>4. SnapshotAt(1, t) <=> s.table = t
    BY <1>1, <1>3 DEF SnapshotAt
  <2>5. SameVersion(version, s)
    BY DEF SameVersion
  <2>6. Decodable(s)
    <3>1. /\ s.orders \in Seq(Updates) /\ Len(s.orders) <= MaxOrders
          /\ \A x : Contains(s.orders, x) => x.table = s.table
      BY <2>2 DEF Lists
    <3>2. \A i \in DOMAIN s.orders : Contains(s.orders, s.orders[i])
      BY <3>1 DEF Contains
    <3>3. Len(s.orders) \in Nat
      BY <3>1
    <3> HIDE DEF s
    <3> QED BY <3>1, <3>2, <3>3, ConstantFacts DEF Decodable
  <2>7. CASE s.table # t
    <3> HIDE DEF version, s, m
    <3>1. cursors'[t] = cursors[t]
      BY <1>a, <2>3, <2>7
    <3> QED BY <2>1, <2>3, <2>4, <2>7, <3>1 DEF s, m
  <2>8. CASE s.table = t /\ Applicable(s)
    <3> HIDE DEF version, s, m
    <3>1. cursors'[t] = version
      BY <1>a, <2>2, <2>3, <2>8
    <3> QED BY <2>1, <2>2, <2>3, <2>4, <2>5, <2>8, <3>1 DEF s, m
  <2>9. CASE s.table = t /\ ~Applicable(s)
    <3>1. /\ cursors[t] # NoSnapshot /\ cursors[t].instance = s.instance
          /\ ~(s.revision > cursors[t].revision)
      BY <2>6, <2>9 DEF Applicable, Newer
    <3>2. UpTo(cursors[t], s)
      BY <2>4, <2>9, <3>1 DEF OrderInv
    <3>3. cursors[t] \in Versions
      BY <1>a, <3>1
    <3>4. /\ cursors[t].instance \in Nat /\ cursors[t].revision \in Nat
          /\ s.instance \in Nat /\ s.revision \in Nat
      BY <2>1, <3>3, VersionTypes
    <3> HIDE DEF version, s, m
    <3>5. SameVersion(cursors[t], s)
      BY <3>1, <3>2, <3>4 DEF UpTo, SameVersion
    <3> QED BY <2>1, <2>3, <2>4, <2>9, <3>3, <3>5 DEF s, m
  <2> QED BY <2>7, <2>8, <2>9
<1> QED BY <1>1, <1>2, <1>3, MessageFacts

\* The order of versions: it is transitive, and two ways of being the same.
LEMMA UpToFacts ==
  ASSUME NEW a, NEW b, NEW c,
         a.instance \in Nat, a.revision \in Nat, b.instance \in Nat, b.revision \in Nat,
         c.instance \in Nat, c.revision \in Nat
  PROVE  /\ UpTo(a, a)
         /\ SameVersion(a, b) /\ UpTo(b, c) => UpTo(a, c)
         /\ SameVersion(a, c) /\ UpTo(a, b) /\ UpTo(b, c) => SameVersion(b, c)
BY DEF UpTo, SameVersion

\* OrderInv of one table.
Ordered(t) ==
  /\ retained[t] # NoSnapshot /\ cursors[t] # NoSnapshot => UpTo(cursors[t], retained[t])
  /\ \A i : SnapshotAt(i, t) =>
       /\ retained[t] # NoSnapshot /\ UpTo(channel[i].body, retained[t])
       /\ cursors[t] # NoSnapshot => UpTo(cursors[t], channel[i].body)
       /\ \A j : SnapshotAt(j, t) /\ i < j => UpTo(channel[i].body, channel[j].body)
  /\ online /\ retained[t] # NoSnapshot =>
       \/ cursors[t] # NoSnapshot /\ SameVersion(cursors[t], retained[t])
       \/ \E i : SnapshotAt(i, t) /\ channel[i].body = retained[t]

LEMMA OrderedWhenPublished ==
  ASSUME Typed, VersionInv, NEW t \in Tables, Ordered(t), NEW T \in SUBSET Tables, Publishes(T)
  PROVE  Ordered(t)'
<1> DEFINE c == Current(t)
<1>a. LinkTyped /\ ServiceTyped
  BY DEF Typed
<1>0. /\ UNCHANGED <<cursors, online>>
      /\ retained'[t] = IF t \in T THEN c ELSE retained[t]
  BY DEF Publishes
<1>1. \A i : SnapshotAt(i, t) => /\ SnapshotAt(i, t)'
                                 /\ channel'[i] = channel[i] /\ i \in 1..Len(channel)
  BY DEF Publishes, SnapshotAt
<1>2. \A i : SnapshotAt(i, t)' =>
        \/ SnapshotAt(i, t) /\ channel'[i] = channel[i] /\ i \in 1..Len(channel)
        \/ i \notin 1..Len(channel) /\ i > Len(channel) /\ t \in T /\ channel'[i].body = c
  BY PublishedSnapshots DEF SnapshotAt
<1>3. CASE t \notin T
  <2>1. retained'[t] = retained[t]
    BY <1>0, <1>3
  <2>2. \A i : SnapshotAt(i, t)' => SnapshotAt(i, t) /\ channel'[i] = channel[i]
    BY <1>2, <1>3
  <2> HIDE DEF c
  <2> QED BY <1>0, <1>1, <2>1, <2>2 DEF Ordered
<1>4. CASE t \in T
  <2>1. retained'[t] = c /\ c # NoSnapshot
    BY <1>0, <1>4, <1>a, CurrentFacts
  <2>2. UpTo(c, c)
    BY ReachedIsBefore
  <2>3. cursors[t] # NoSnapshot => UpTo(cursors[t], c)
    <3>1. cursors[t] # NoSnapshot => cursors[t].instance \in Nat
      BY VersionTypes DEF Typed, BrowserTyped
    <3> QED BY <3>1, ReachedIsBefore DEF VersionInv
  <2>4. \A i : SnapshotAt(i, t) => UpTo(channel[i].body, c)
    <3>1. TAKE i
    <3>2. HAVE SnapshotAt(i, t)
    <3>3. channel[i].body \in Stored /\ channel[i].body.table = t
      BY <1>a, <3>2, SnapshotAtTyped
    <3>4. Reached(channel[i].body, t)
      BY <3>2, <3>3 DEF VersionInv, Made
    <3>5. channel[i].body.instance \in Nat
      BY <3>3, VersionTypes
    <3> QED BY <3>4, <3>5, ReachedIsBefore
  <2>5. online => \E i : SnapshotAt(i, t)' /\ channel'[i].body = c
    <3>1. SUFFICES ASSUME online PROVE \E i : SnapshotAt(i, t)' /\ channel'[i].body = c
      OBVIOUS
    <3>2. PICK i \in 1..Len(channel') : channel'[i] = Retained(c)
      BY <1>4, <3>1 DEF Publishes
    <3>3. channel'[i].body = c /\ channel'[i].topic = "snapshot"
      BY <3>2 DEF Retained
    <3>4. c.table = t
      BY <1>a, CurrentFacts
    <3> HIDE DEF c
    <3> QED BY <3>2, <3>3, <3>4 DEF SnapshotAt
  <2>6. \A i : SnapshotAt(i, t)' => UpTo(channel'[i].body, c)
    BY <1>2, <2>2, <2>4
  <2>7. \A i, j : SnapshotAt(i, t)' /\ SnapshotAt(j, t)' /\ i < j =>
                    UpTo(channel'[i].body, channel'[j].body)
    <3>1. TAKE i, j
    <3>2. HAVE SnapshotAt(i, t)' /\ SnapshotAt(j, t)' /\ i < j
    <3>3. CASE channel'[j].body = c
      BY <2>6, <3>2, <3>3
    <3>4. CASE SnapshotAt(j, t) /\ channel'[j] = channel[j] /\ j \in 1..Len(channel)
      <4>1. i \in 1..Len(channel') /\ Len(channel) \in Nat
        BY <1>a, <3>2 DEF SnapshotAt, LinkTyped
      <4>2. ~(i > Len(channel))
        BY <3>2, <3>4, <4>1
      <4> QED BY <1>2, <3>2, <3>4, <4>2 DEF Ordered
    <3> QED BY <1>2, <3>2, <3>3, <3>4
  <2>8. \A i : SnapshotAt(i, t)' /\ cursors[t] # NoSnapshot => UpTo(cursors[t], channel'[i].body)
    BY <1>2, <2>3 DEF Ordered
  <2> HIDE DEF c
  <2> QED BY <1>0, <2>1, <2>3, <2>5, <2>6, <2>7, <2>8 DEF Ordered
<1> QED BY <1>3, <1>4

LEMMA OrderedWhenReceived ==
  ASSUME Typed, OrderInv, NEW t \in Tables, Receive
  PROVE  Ordered(t)'
<1> DEFINE s == channel[1].body
<1>a. LinkTyped /\ (retained[t] # NoSnapshot => retained[t] \in Stored)
  BY DEF Typed, LinkTyped
<1>b. Ordered(t)
  BY DEF OrderInv, Ordered
<1>0. retained' = retained /\ online' = online
  BY <1>a, ReceiveFacts
<1>1. \A i : SnapshotAt(i, t)' => /\ SnapshotAt(i + 1, t) /\ channel'[i] = channel[i + 1]
                                  /\ i \in Nat \ {0}
  BY <1>a, ReceiveShifts DEF SnapshotAt
<1>2. \A i : SnapshotAt(i, t) /\ i # 1 => /\ SnapshotAt(i - 1, t)'
                                          /\ channel'[i - 1] = channel[i]
  BY <1>a, ReceiveShifts DEF SnapshotAt
<1>3. \A i : SnapshotAt(i, t)' => retained[t] # NoSnapshot /\ UpTo(channel'[i].body, retained[t])
  BY <1>1, <1>b DEF Ordered
<1>4. \A i, j : SnapshotAt(i, t)' /\ SnapshotAt(j, t)' /\ i < j =>
                  UpTo(channel'[i].body, channel'[j].body)
  <2>1. TAKE i, j
  <2>2. HAVE SnapshotAt(i, t)' /\ SnapshotAt(j, t)' /\ i < j
  <2>3. i + 1 < j + 1
    BY <1>1, <2>2
  <2> QED BY <1>1, <1>b, <2>2, <2>3 DEF Ordered
<1>5. CASE ~SnapshotAt(1, t) /\ cursors'[t] = cursors[t]
  <2>1. \A i : SnapshotAt(i, t)' /\ cursors[t] # NoSnapshot => UpTo(cursors[t], channel'[i].body)
    BY <1>1, <1>b DEF Ordered
  <2>2. \A i : SnapshotAt(i, t) => i # 1
    BY <1>5
  <2>3. online /\ retained[t] # NoSnapshot =>
          \/ cursors[t] # NoSnapshot /\ SameVersion(cursors[t], retained[t])
          \/ \E i : SnapshotAt(i, t)' /\ channel'[i].body = retained[t]
    BY <1>2, <1>b, <2>2 DEF Ordered
  <2> QED BY <1>0, <1>3, <1>4, <1>5, <1>b, <2>1, <2>3 DEF Ordered
<1>6. CASE /\ SnapshotAt(1, t) /\ s \in Stored
           /\ cursors'[t] \in Versions /\ SameVersion(cursors'[t], s)
  <2>1. /\ retained[t] # NoSnapshot /\ UpTo(s, retained[t])
        /\ cursors[t] # NoSnapshot => UpTo(cursors[t], s)
    BY <1>6, <1>b DEF Ordered
  <2>2. \A i : SnapshotAt(i, t)' => UpTo(s, channel'[i].body)
    <3>1. TAKE i
    <3>2. HAVE SnapshotAt(i, t)'
    <3>3. SnapshotAt(i + 1, t) /\ channel'[i] = channel[i + 1] /\ 1 < i + 1
      BY <1>1, <3>2
    <3> QED BY <1>6, <1>b, <3>3 DEF Ordered
  <2>3. \A i : SnapshotAt(i, t)' => channel'[i].body \in Stored
    BY <1>1, <1>a, SnapshotAtTyped
  <2> DEFINE c == cursors'[t]
             r == retained[t]
  <2>4. /\ c.instance \in Nat /\ c.revision \in Nat /\ s.instance \in Nat /\ s.revision \in Nat
        /\ r.instance \in Nat /\ r.revision \in Nat
    BY <1>6, <1>a, <2>1, VersionTypes
  <2>5. c # NoSnapshot
    BY <1>6, ConstantFacts
  <2> HIDE DEF s, c, r
  <2>6. \A v : v.instance \in Nat /\ v.revision \in Nat /\ UpTo(s, v) => UpTo(c, v)
    BY <1>6, <2>4, UpToFacts DEF c
  <2>7. UpTo(c, r)
    BY <2>1, <2>4, <2>6 DEF r
  <2>8. \A i : SnapshotAt(i, t)' => UpTo(c, channel'[i].body)
    BY <2>2, <2>3, <2>6, VersionTypes
  <2>9. online => \/ SameVersion(c, r)
                  \/ \E i : SnapshotAt(i, t)' /\ channel'[i].body = r
    <3>1. CASE cursors[t] # NoSnapshot /\ SameVersion(cursors[t], r)
      <4>1. cursors[t].instance \in Nat /\ cursors[t].revision \in Nat
        BY <3>1, VersionTypes DEF Typed, BrowserTyped
      <4>2. SameVersion(s, r)
        BY <2>1, <2>4, <3>1, <4>1, UpToFacts DEF r
      <4> QED BY <1>6, <4>2 DEF SameVersion, c
    <3>2. ASSUME NEW i, SnapshotAt(i, t), channel[i].body = r
          PROVE  \/ SameVersion(c, r)
                 \/ \E j : SnapshotAt(j, t)' /\ channel'[j].body = r
      <4>1. CASE i = 1
        BY <1>6, <3>2, <4>1 DEF c, s
      <4>2. CASE i # 1
        BY <1>2, <3>2, <4>2
      <4> QED BY <4>1, <4>2
    <3> QED BY <1>b, <2>1, <3>1, <3>2 DEF Ordered, r
  <2> QED BY <1>0, <1>3, <1>4, <2>5, <2>7, <2>8, <2>9 DEF Ordered, c, r
<1> QED BY <1>5, <1>6, ReceivedSnapshot

LEMMA VersionsInOrder ==
  ASSUME Typed, PublisherInv, VersionInv, OrderInv, [Next]_vars
  PROVE  OrderInv'
<1>a. LinkTyped
  BY DEF Typed
<1>1. ASSUME NEW t \in Tables PROVE Ordered(t)'
  <2>0. Ordered(t)
    BY DEF OrderInv, Ordered
  <2>1. ASSUME NEW T \in SUBSET Tables, Publishes(T) PROVE Ordered(t)'
    BY <2>0, <2>1, OrderedWhenPublished
  <2>2. CASE Notifies
    <3>1. UNCHANGED <<retained, online, cursors>>
      BY <2>2 DEF Notifies
    <3>2. \A i : SnapshotAt(i, t)' => SnapshotAt(i, t) /\ channel'[i] = channel[i]
      BY <2>2, NotifiedSnapshots
    <3>3. \A i : SnapshotAt(i, t) => SnapshotAt(i, t)' /\ channel'[i] = channel[i]
      BY <2>2 DEF Notifies, Grows, SnapshotAt
    <3> QED BY <2>0, <3>1, <3>2, <3>3 DEF Ordered
  <2>3. CASE Loses
    <3>1. /\ ~online' /\ Len(channel') = 0
          /\ retained'[t] = retained[t] \/ retained'[t] = NoSnapshot
          /\ cursors'[t] = cursors[t] \/ cursors'[t] = NoSnapshot
      BY <2>3 DEF Loses
    <3>2. \A i : ~SnapshotAt(i, t)'
      BY <3>1 DEF SnapshotAt
    <3> QED BY <2>0, <3>1, <3>2 DEF Ordered
  <2>4. CASE Receive
    BY <2>4, OrderedWhenReceived
  <2>5. CASE Connect /\ UNCHANGED serviceVars /\ UNCHANGED <<view, cursors>>
    <3>1. retained' = retained /\ cursors' = cursors
      BY <2>5 DEF serviceVars
    <3>2. \A i : SnapshotAt(i, t)' => retained[t] # NoSnapshot /\ channel'[i].body = retained[t]
      <4>1. TAKE i
      <4>2. HAVE SnapshotAt(i, t)'
      <4>3. PICK q \in Tables : retained[q] # NoSnapshot /\ channel'[i] = Retained(retained[q])
        BY <1>a, <2>5, <4>2, SubscribedMessages DEF SnapshotAt
      <4>4. channel'[i].body = retained[q] /\ retained[q].table = q
        BY <1>a, <4>3 DEF Retained, LinkTyped
      <4>5. q = t
        BY <4>2, <4>4 DEF SnapshotAt
      <4> QED BY <4>3, <4>4, <4>5
    <3>3. retained[t] # NoSnapshot => \E i : SnapshotAt(i, t)' /\ channel'[i].body = retained[t]
      <4>1. SUFFICES ASSUME retained[t] # NoSnapshot
            PROVE \E i : SnapshotAt(i, t)' /\ channel'[i].body = retained[t]
        OBVIOUS
      <4>2. PICK i \in 1..Len(channel') : channel'[i] = Retained(retained[t])
        BY <1>a, <2>5, <4>1, SubscribedMessages
      <4>3. channel'[i].body = retained[t] /\ channel'[i].topic = "snapshot"
        BY <4>2 DEF Retained
      <4>4. retained[t].table = t
        BY <1>a, <4>1 DEF LinkTyped
      <4> QED BY <4>2, <4>3, <4>4 DEF SnapshotAt
    <3>4. retained[t] # NoSnapshot => UpTo(retained[t], retained[t])
      <4>1. SUFFICES ASSUME retained[t] # NoSnapshot PROVE UpTo(retained[t], retained[t])
        OBVIOUS
      <4>2. retained[t].instance \in Nat /\ retained[t].revision \in Nat
        BY <1>a, <4>1, VersionTypes DEF LinkTyped
      <4> QED BY <4>2 DEF UpTo
    <3> QED BY <2>0, <3>1, <3>2, <3>3, <3>4 DEF Ordered
  <2>6. CASE Fills
    <3>1. UNCHANGED <<retained, online, cursors, channel>>
      BY <2>6 DEF Fills, serviceVars
    <3>2. \A i : SnapshotAt(i, t)' <=> SnapshotAt(i, t)
      BY <3>1 DEF SnapshotAt
    <3> QED BY <2>0, <3>1, <3>2 DEF Ordered
  <2> QED BY <2>1, <2>2, <2>3, <2>4, <2>5, <2>6, Forms
<1> QED BY <1>1 DEF OrderInv, Ordered

-----------------------------------------------------------------------------
(* What the browser shows of a table whose current snapshot it applied.    *)

\* The version v of table t is that of the projection.
AtCurrent(v, t) == v.instance = instance /\ v.revision = revision[t]

\* The browser has applied the current snapshot, or will before the i-th message.
Reads(t) == cursors[t] # NoSnapshot /\ AtCurrent(cursors[t], t)
ReadBefore(i, t) ==
  Reads(t) \/ \E j : SnapshotAt(j, t) /\ j < i /\ AtCurrent(channel[j].body, t)

\* The pending update is of table t and the projection has not taken it.
Untaken(t) == Pending(t) /\ ~Contains(projected[t], pending)

\* The projection has the update u of table t, or takes it next.
Known(u, t) == Contains(projected[t], u) \/ u = pending

StatusAt(i, t) ==
  /\ i \in 1..Len(channel)
  /\ channel[i].topic = "status" /\ channel[i].body.table = t

\* The browser then shows the projection, and the statuses that arrive later are
\* known to it: they change nothing.
ViewInv ==
  \A t \in Tables :
    /\ Reads(t) /\ ~Untaken(t) => Only(view, Answered(t)) = projected[t]
    /\ \A i : StatusAt(i, t) /\ ReadBefore(i, t) => Known(channel[i].body, t)

\* A version that is current after a step was so before it, and the list of the
\* table is the same.
LEMMA CurrentWas ==
  ASSUME Typed, PublisherInv, [Next]_vars, NEW t \in Tables,
         NEW v, v.instance \in Nat, v.revision \in Nat, Reached(v, t),
         v.instance = instance', v.revision = revision'[t]
  PROVE  /\ AtCurrent(v, t) /\ projected'[t] = projected[t]
         /\ Untaken(t) => Untaken(t)'
         /\ \A u \in Updates : u.table = t /\ Known(u, t) => Known(u, t)'
<1>0. /\ instance \in Nat /\ revision[t] \in Nat /\ NoUpdate \notin Updates
      /\ stage # "idle" => pending # NoUpdate
  BY ConstantFacts DEF Typed, ServiceTyped
<1>1. v.instance <= instance /\ (v.instance = instance => v.revision <= revision[t])
  BY DEF Reached
<1>2. ~Restart
  <2>1. Restart => instance' = instance + 1
    BY DEF Restart
  <2> QED BY <1>0, <1>1, <2>1
<1>3. AtCurrent(v, t) /\ projected'[t] = projected[t]
  <2>1. CASE /\ Pending(t) /\ instance' = instance
             /\ projected'[t] = Applied(projected[t], pending)
             /\ revision'[t] = IF Contains(projected[t], pending)
                               THEN revision[t] ELSE revision[t] + 1
    <3>1. Contains(projected[t], pending)
      BY <1>0, <1>1, <2>1
    <3>2. Applied(projected[t], pending) = projected[t]
      BY <3>1 DEF Applied
    <3> QED BY <2>1, <3>1, <3>2 DEF AtCurrent
  <2> QED BY <1>2, <2>1, ProjectionStep DEF AtCurrent
<1>4. \/ pending' = pending
      \/ pending' = NoUpdate /\ pending # NoUpdate /\ Contains(projected[pending.table], pending)
      \/ pending = NoUpdate
  <2>1. SnapshotPublished => stage = "snapshot"
    BY DEF SnapshotPublished
  <2> QED BY <1>0, <1>2, <2>1, PendingStep DEF PublisherInv
<1>5. Untaken(t) => Untaken(t)'
  BY <1>3, <1>4 DEF Untaken, Pending
<1>6. \A u \in Updates : u.table = t /\ Known(u, t) => Known(u, t)'
  BY <1>0, <1>3, <1>4 DEF Known
<1> QED BY <1>3, <1>5, <1>6

\* The statuses on their way after a step.
LEMMA StatusesStep ==
  ASSUME Typed, PublisherInv, [Next]_vars, ~Receive, NEW t, NEW i, StatusAt(i, t)'
  PROVE  /\ cursors' = cursors
         /\ \A j : SnapshotAt(j, t)' /\ j < i =>
                     SnapshotAt(j, t) /\ channel'[j] = channel[j]
         /\ \/ StatusAt(i, t) /\ channel'[i] = channel[i]
            \/ pending \in Updates /\ channel'[i].body = pending
<1>a. LinkTyped /\ Len(channel) \in Nat
  BY DEF Typed, LinkTyped
<1>0. /\ i \in 1..Len(channel') /\ channel'[i].topic = "status"
      /\ channel'[i].body.table = t
  BY DEF StatusAt
<1>1. ASSUME NEW T \in SUBSET Tables, Publishes(T)
      PROVE  /\ StatusAt(i, t) /\ channel'[i] = channel[i] /\ cursors' = cursors
             /\ \A j : SnapshotAt(j, t)' /\ j < i =>
                         SnapshotAt(j, t) /\ channel'[j] = channel[j]
  <2>1. \A q : Retained(Current(q)).topic # "status"
    BY DEF Retained
  <2>2. i \in 1..Len(channel) /\ channel'[i] = channel[i]
    BY <1>0, <1>1, <2>1 DEF Publishes
  <2>3. ASSUME NEW j, SnapshotAt(j, t)', j < i
        PROVE  SnapshotAt(j, t) /\ channel'[j] = channel[j]
    <3>1. j \in 1..Len(channel') /\ j \in Int
      BY <2>3 DEF SnapshotAt
    <3>2. ~(j > Len(channel))
      BY <1>a, <2>2, <2>3, <3>1
    <3> QED BY <1>1, <2>3, <3>1, <3>2 DEF Publishes, SnapshotAt
  <2> QED BY <1>0, <1>1, <2>2, <2>3 DEF Publishes, StatusAt
<1>2. CASE Notifies
  <2>1. \A j : SnapshotAt(j, t)' => SnapshotAt(j, t) /\ channel'[j] = channel[j]
    BY <1>2, NotifiedSnapshots
  <2>2. CASE i \in 1..Len(channel) /\ channel'[i] = channel[i]
    BY <1>0, <1>2, <2>1, <2>2 DEF Notifies, StatusAt
  <2>3. CASE channel' = channel
    BY <1>0, <2>2, <2>3
  <2>4. CASE pending \in Updates /\ Grows(<<Status(pending)>>)
    <3> DEFINE ms == <<Status(pending)>>
    <3>1. Grows(ms) /\ Len(ms) = 1 /\ ms[1].body = pending
      BY <2>4, StatusTyped
    <3> HIDE DEF ms
    <3>2. \A j \in 1..Len(ms) : j = 1
      BY <3>1
    <3>3. \/ i \in 1..Len(channel) /\ channel'[i] = channel[i]
          \/ channel'[i].body = pending
      BY <1>0, <3>1, <3>2 DEF Grows
    <3> QED BY <1>2, <2>1, <2>2, <2>4, <3>3 DEF Notifies
  <2> QED BY <1>2, <2>3, <2>4 DEF Notifies
<1>3. CASE Loses
  <2>1. Len(channel') = 0
    BY <1>3 DEF Loses
  <2> QED BY <1>0, <2>1
<1>4. CASE Connect
  <2>1. \A q : Retained(retained[q]).topic # "status"
    BY DEF Retained
  <2> QED BY <1>0, <1>4, <1>a, <2>1, SubscribedMessages
<1>5. CASE Fills
  BY <1>0, <1>5 DEF Fills, StatusAt, SnapshotAt
<1> QED BY <1>1, <1>2, <1>3, <1>4, <1>5, Forms

LEMMA ViewWhenReceived ==
  ASSUME UniqueIds, Typed, VersionInv, OrderInv, OnceInv, ViewInv, Receive,
         UNCHANGED serviceVars, NEW t \in Tables, Reads(t)', ~Untaken(t)
  PROVE  Only(view', Answered(t)) = projected[t]
<1> DEFINE s == channel[1].body
<1>a. /\ LinkTyped /\ view \in Seq(Orders) /\ Once(view)
      /\ projected[t] \in Seq(Updates) /\ NoUpdate \notin Updates
      /\ UNCHANGED <<instance, revision, projected>>
  BY ConstantFacts DEF Typed, BrowserTyped, ServiceTyped, OnceInv, serviceVars
<1>b. cursors'[t] # NoSnapshot /\ AtCurrent(cursors'[t], t)
  BY <1>a DEF Reads, AtCurrent
<1>0. cursors'[t] = cursors[t] => Only(view, Answered(t)) = projected[t]
  BY <1>b DEF ViewInv, Reads
<1>1. CASE /\ SnapshotAt(1, t) /\ s \in Stored /\ SameVersion(cursors'[t], s)
           /\ view' = WithSnapshot(view, s)
  <2>1. s.table = t
    BY <1>1 DEF SnapshotAt
  <2>2. s.orders = projected[t]
    BY <1>1, <1>b, <2>1 DEF VersionInv, Made, SameVersion, AtCurrent
  <2> HIDE DEF s
  <2>3. Only(WithSnapshot(view, s), Answered(s.table)) = s.orders
    BY <1>1, <1>a, WithSnapshotFacts
  <2> QED BY <1>1, <2>1, <2>2, <2>3
<1>2. CASE view' = view /\ cursors'[t] = cursors[t]
  BY <1>0, <1>2
<1>3. CASE /\ cursors'[t] = cursors[t] /\ s \in Stored /\ s.table # t
           /\ view' = WithSnapshot(view, s)
  <2> HIDE DEF s
  <2>1. Only(WithSnapshot(view, s), Answered(t)) = Only(view, Answered(t))
    BY <1>3, <1>a, WithSnapshotFacts
  <2> QED BY <1>0, <1>3, <2>1
<1>4. CASE /\ cursors'[t] = cursors[t] /\ channel[1].topic = "status" /\ s \in Updates
           /\ view' = WithStatus(view, s)
  <2>1. CASE s.table # t
    <3> HIDE DEF s
    <3> QED BY <1>0, <1>4, <1>a, <2>1, StatusOfOther
  <2>2. CASE s.table = t
    <3>1. StatusAt(1, t) /\ ReadBefore(1, t)
      BY <1>4, <1>a, <1>b, <2>2, ReceiveFacts DEF StatusAt, ReadBefore, Reads
    <3>2. Known(s, t)
      BY <3>1 DEF ViewInv
    <3>3. Contains(projected[t], s)
      BY <1>4, <1>a, <2>2, <3>2 DEF Known, Untaken, Pending
    <3> HIDE DEF s
    <3>4. Contains(view, s)
      BY <1>0, <1>4, <1>a, <3>3, OnlyHolds
    <3>5. WithStatus(view, s) = view
      BY <1>4, <1>a, <3>4, StatusAgain
    <3> QED BY <1>0, <1>4, <3>5
  <2> QED BY <2>1, <2>2
<1> QED BY <1>1, <1>2, <1>3, <1>4, ReceivedSnapshot

\* Cursors and snapshots on their way have versions that were reached.
LEMMA VersionFacts ==
  ASSUME Typed, VersionInv, NEW t \in Tables
  PROVE  /\ cursors[t] # NoSnapshot => /\ Reached(cursors[t], t)
                                       /\ cursors[t].instance \in Nat
                                       /\ cursors[t].revision \in Nat
         /\ \A i : SnapshotAt(i, t) => /\ Reached(channel[i].body, t)
                                       /\ channel[i].body.instance \in Nat
                                       /\ channel[i].body.revision \in Nat
<1>1. cursors[t] # NoSnapshot => cursors[t] \in Versions
  BY DEF Typed, BrowserTyped
<1>2. \A i : SnapshotAt(i, t) => channel[i].body \in Stored /\ channel[i].body.table = t
  BY SnapshotAtTyped DEF Typed
<1> QED BY <1>1, <1>2, VersionTypes DEF VersionInv, Made

LEMMA KnownWhenReceived ==
  ASSUME Typed, OrderInv, ViewInv, Receive, UNCHANGED serviceVars,
         NEW t \in Tables, NEW i, StatusAt(i, t)', ReadBefore(i, t)'
  PROVE  Known(channel[i].body, t)'
<1>a. LinkTyped /\ UNCHANGED <<instance, revision, projected, pending>>
  BY DEF Typed, serviceVars
<1>1. /\ i \in Nat \ {0} /\ StatusAt(i + 1, t) /\ channel'[i] = channel[i + 1]
  BY <1>a, ReceiveShifts DEF StatusAt
<1>2. ReadBefore(i + 1, t)
  <2>1. CASE Reads(t)'
    <3>1. cursors'[t] # NoSnapshot /\ AtCurrent(cursors'[t], t)
      BY <1>a, <2>1 DEF Reads, AtCurrent
    <3>2. CASE cursors'[t] = cursors[t]
      BY <3>1, <3>2 DEF ReadBefore, Reads
    <3>3. CASE SnapshotAt(1, t) /\ SameVersion(cursors'[t], channel[1].body)
      <4>1. 1 < i + 1
        BY <1>1
      <4> QED BY <3>1, <3>3, <4>1 DEF ReadBefore, SameVersion, AtCurrent
    <3> QED BY <3>2, <3>3, ReceivedSnapshot
  <2>2. ASSUME NEW j, SnapshotAt(j, t)', j < i, AtCurrent(channel[j].body, t)'
        PROVE  ReadBefore(i + 1, t)
    <3>1. SnapshotAt(j + 1, t) /\ channel'[j] = channel[j + 1] /\ j \in Nat
      BY <1>a, <2>2, ReceiveShifts DEF SnapshotAt
    <3>2. j + 1 < i + 1
      BY <1>1, <2>2, <3>1
    <3>3. AtCurrent(channel[j + 1].body, t)
      BY <1>a, <2>2, <3>1 DEF AtCurrent
    <3> QED BY <3>1, <3>2, <3>3 DEF ReadBefore
  <2> QED BY <2>1, <2>2 DEF ReadBefore
<1>3. Known(channel[i + 1].body, t)
  BY <1>1, <1>2 DEF ViewInv
<1> QED BY <1>a, <1>1, <1>3 DEF Known

\* The other steps leave what the browser has of the service's orders, or start
\* the page again.
LEMMA AnsweredStep ==
  ASSUME Typed, PublisherInv, [Next]_vars, ~Receive
  PROVE  \/ cursors' = [t \in Tables |-> NoSnapshot]
         \/ /\ cursors' = cursors
            /\ \A t : Only(view', Answered(t)) = Only(view, Answered(t))
<1>a. view \in Seq(Orders)
  BY DEF Typed, BrowserTyped
<1>1. ASSUME NEW T \in SUBSET Tables, Publishes(T) PROVE UNCHANGED <<view, cursors>>
  BY <1>1 DEF Publishes
<1>2. CASE Notifies
  BY <1>2 DEF Notifies
<1>3. CASE Loses
  BY <1>3 DEF Loses
<1>4. CASE Fills
  <2>1. CASE Marks(view', view)
    <3>1. \A r : Marks(r, view) => \A t : Only(r, Answered(t)) = Only(view, Answered(t))
      BY <1>a, MarksFacts
    <3> QED BY <1>4, <2>1, <3>1 DEF Fills
  <2>2. ASSUME NEW new \in Seq(Orders), Places(new)
        PROVE  \A t : Only(view', Answered(t)) = Only(view, Answered(t))
    BY <1>a, <2>2, NewOrdersFacts DEF Places
  <2> QED BY <1>4, <2>1, <2>2 DEF Fills
<1> QED BY <1>1, <1>2, <1>3, <1>4, Forms

LEMMA ViewInvStep ==
  ASSUME UniqueIds, Typed, PublisherInv, VersionInv, OrderInv, OnceInv, ViewInv,
         [Next]_vars
  PROVE  ViewInv'
<1>1. CASE Receive
  <2>0. UNCHANGED serviceVars
    BY <1>1, BrowserLeavesService DEF Browser
  <2>1. ASSUME NEW t \in Tables, Reads(t)', ~Untaken(t)'
        PROVE  Only(view', Answered(t)) = projected'[t]
    <3>1. ~Untaken(t) /\ projected' = projected
      BY <2>0, <2>1 DEF Untaken, Pending, serviceVars
    <3> QED BY <1>1, <2>0, <2>1, <3>1, ViewWhenReceived
  <2>2. \A t \in Tables : \A i : StatusAt(i, t)' /\ ReadBefore(i, t)' =>
                                   Known(channel[i].body, t)'
    BY <1>1, <2>0, KnownWhenReceived
  <2>3. ASSUME NEW t \in Tables
        PROVE  /\ (Reads(t) /\ ~Untaken(t) => Only(view, Answered(t)) = projected[t])'
               /\ \A i : (StatusAt(i, t) /\ ReadBefore(i, t) => Known(channel[i].body, t))'
    BY <2>1, <2>2 DEF Answered
  <2> QED BY <2>3 DEF ViewInv
<1>2. CASE ~Receive
  <2>1. ASSUME NEW t \in Tables, Reads(t)', ~Untaken(t)'
        PROVE  Only(view', Answered(t)) = projected'[t]
    <3>1. cursors'[t] # NoSnapshot /\ cursors'[t].instance = instance'
            /\ cursors'[t].revision = revision'[t]
      BY <2>1 DEF Reads, AtCurrent
    <3>2. cursors' = cursors /\ Only(view', Answered(t)) = Only(view, Answered(t))
      BY <1>2, <3>1, AnsweredStep
    <3>3. AtCurrent(cursors[t], t) /\ projected'[t] = projected[t] /\ ~Untaken(t)
      BY <2>1, <3>1, <3>2, VersionFacts, CurrentWas
    <3> QED BY <3>1, <3>2, <3>3 DEF ViewInv, Reads
  <2>2. ASSUME NEW t \in Tables, NEW i, StatusAt(i, t)', ReadBefore(i, t)'
        PROVE  Known(channel[i].body, t)'
    <3>0. /\ cursors' = cursors
          /\ \A j : SnapshotAt(j, t)' /\ j < i => SnapshotAt(j, t) /\ channel'[j] = channel[j]
          /\ \/ StatusAt(i, t) /\ channel'[i] = channel[i]
             \/ pending \in Updates /\ channel'[i].body = pending
      BY <1>2, <2>2, StatusesStep
    <3>1. PICK v : /\ v.instance \in Nat /\ v.revision \in Nat /\ Reached(v, t)
                   /\ v.instance = instance' /\ v.revision = revision'[t]
                   /\ AtCurrent(v, t) => ReadBefore(i, t)
      <4>1. CASE Reads(t)'
        <5>1. /\ cursors[t] # NoSnapshot /\ cursors[t].instance = instance'
              /\ cursors[t].revision = revision'[t]
          BY <3>0, <4>1 DEF Reads, AtCurrent
        <5>2. AtCurrent(cursors[t], t) => ReadBefore(i, t)
          BY <5>1 DEF Reads, ReadBefore
        <5> QED BY <5>1, <5>2, VersionFacts
      <4>2. ASSUME NEW j, SnapshotAt(j, t)', j < i, AtCurrent(channel[j].body, t)'
            PROVE  /\ SnapshotAt(j, t) /\ channel[j].body.instance = instance'
                   /\ channel[j].body.revision = revision'[t]
                   /\ AtCurrent(channel[j].body, t) => ReadBefore(i, t)
        BY <3>0, <4>2 DEF AtCurrent, ReadBefore
      <4> QED BY <2>2, <4>1, <4>2, VersionFacts DEF ReadBefore
    <3>2. /\ AtCurrent(v, t)
          /\ \A u \in Updates : u.table = t /\ Known(u, t) => Known(u, t)'
      BY <3>1, CurrentWas
    <3>3. CASE StatusAt(i, t) /\ channel'[i] = channel[i]
      <4>1. channel[i].body \in Updates /\ channel[i].body.table = t
        <5>1. channel[i] \in Messages /\ channel[i].topic = "status"
          BY <3>3, ElementOfSeq DEF Typed, LinkTyped, StatusAt
        <5> QED BY <3>3, <5>1, MessageFacts DEF StatusAt
      <4>2. Known(channel[i].body, t)
        BY <3>1, <3>2, <3>3 DEF ViewInv
      <4>3. \A u : u = channel[i].body => Known(u, t)'
        BY <3>2, <4>1, <4>2
      <4> QED BY <3>3, <4>3 DEF Known
    <3>4. CASE pending \in Updates /\ channel'[i].body = pending
      <4>1. Known(pending, t) /\ pending.table = t
        BY <2>2, <3>4 DEF Known, StatusAt
      <4>2. \A u : u = pending => Known(u, t)'
        BY <3>2, <3>4, <4>1
      <4> QED BY <3>4, <4>2 DEF Known
    <3> QED BY <3>0, <3>3, <3>4
  <2>3. ASSUME NEW t \in Tables
        PROVE  /\ (Reads(t) /\ ~Untaken(t) => Only(view, Answered(t)) = projected[t])'
               /\ \A i : (StatusAt(i, t) /\ ReadBefore(i, t) => Known(channel[i].body, t))'
    BY <2>1, <2>2 DEF Answered
  <2> QED BY <2>3 DEF ViewInv
<1> QED BY <1>1, <1>2

\* When no two orders share an id, a browser that has read everything of a service
\* that has published everything shows of every table what the broker retains,
\* whatever it missed, saw twice or saw late.
THEOREM ViewsMatch ==
  ASSUME UniqueIds
  PROVE  Spec => []ViewMatchesRetained
<1> DEFINE Id == Typed /\ PublisherInv /\ OnceInv /\ NewInv
           Rest == VersionInv /\ OrderInv /\ ViewInv
<1>1. Init => Rest
  <2>1. SUFFICES ASSUME Init PROVE Rest
    OBVIOUS
  <2>2. /\ Len(channel) = 0 /\ ~online
        /\ \A t \in Tables : retained[t] = NoSnapshot /\ cursors[t] = NoSnapshot
    BY <2>1 DEF Init
  <2>3. \A i, t : ~SnapshotAt(i, t) /\ ~StatusAt(i, t)
    BY <2>2 DEF SnapshotAt, StatusAt
  <2> QED BY <2>2, <2>3 DEF VersionInv, OrderInv, ViewInv, Reads
<1>2. Id /\ Rest /\ [Next]_vars => Rest'
  BY VersionStep, VersionsInOrder, ViewInvStep
<1>3. Id /\ Rest => ViewMatchesRetained
  <2>1. SUFFICES ASSUME Id, Rest, Settled, NEW t \in Tables, retained[t] # NoSnapshot
        PROVE  Shown(t) = retained[t].orders
    BY DEF ViewMatchesRetained
  <2>2. ~Pending(t) /\ Len(channel) = 0 /\ online /\ initialized
    BY <2>1 DEF Settled, Pending
  <2>3. retained[t] = Current(t)
    BY <2>1, <2>2 DEF PublisherInv
  <2>4. \A i : ~SnapshotAt(i, t)
    BY <2>2 DEF SnapshotAt
  <2>5. cursors[t] # NoSnapshot /\ SameVersion(cursors[t], retained[t])
    BY <2>1, <2>2, <2>4 DEF OrderInv
  <2>6. /\ Current(t).instance = instance /\ Current(t).revision = revision[t]
        /\ Current(t).orders = projected[t]
    BY <2>1, CurrentFacts DEF Typed
  <2>7. Reads(t) /\ ~Untaken(t)
    BY <2>2, <2>3, <2>5, <2>6 DEF SameVersion, Reads, AtCurrent, Untaken
  <2>8. Only(view, Answered(t)) = projected[t]
    BY <2>1, <2>7 DEF ViewInv
  <2>9. Shown(t) = Only(view, Answered(t))
    BY <2>1, ShownIsAnswered DEF Typed, BrowserTyped
  <2> QED BY <2>3, <2>6, <2>8, <2>9
<1>4. Spec => []Id
  BY IdentityInvariant
<1> HIDE DEF Id, Rest
<1> QED BY <1>1, <1>2, <1>3, <1>4, PTL DEF Spec
=============================================================================
