---------------------------- MODULE Storage_proofs ----------------------------
(* Proofs about the boot and the storage tasks (Storage.tla): first induction  *)
(* over numbers and sequences, what Only selects, and the inductive invariant  *)
(* StoreInv; then what each call does to the rows, one lemma per call; then    *)
(* that every step keeps the invariant, and the theorems.                      *)
EXTENDS Storage, SequenceTheorems, WellFoundedInduction, TLAPS

-----------------------------------------------------------------------------
(* Induction over numbers, with a set in place of a predicate.               *)

\* A set that contains 0 and the successor of each of its numbers contains all.
LEMMA AllNumbers ==
  ASSUME NEW T, 0 \in T, \A n \in Nat : n \in T => n + 1 \in T
  PROVE  \A n \in Nat : n \in T
<1> SUFFICES ASSUME NEW n \in Nat, n \notin T
             PROVE  FALSE
  OBVIOUS
<1> DEFINE Others == {k \in Nat : k \notin T}
<1>1. Others \subseteq Nat /\ Others # {}
  OBVIOUS
<1>2. PICK k \in Others : \A j \in Others : ~ (<<j, k>> \in OpToRel(<, Nat))
  BY ONLY <1>1, NatLessThanWellFounded, WFMin
<1>3. k \in Nat /\ k \notin T /\ \A j \in Others : ~ (j < k)
  <2>1. k \in Nat /\ k \notin T
    BY <1>2
  <2>2. ASSUME NEW j \in Others, j < k
        PROVE  FALSE
    BY <1>2, <2>1, <2>2 DEF OpToRel
  <2>3. QED
    BY <2>1, <2>2
<1>4. k # 0 /\ k - 1 \in Nat
  BY <1>3
<1>5. k - 1 \in T
  BY <1>3, <1>4
<1>6. QED
  BY <1>3, <1>4, <1>5

\* A set with the empty sequence and the extensions of each of its sequences
\* contains all sequences.
LEMMA AllSequences ==
  ASSUME NEW S, NEW T, <<>> \in T, \A s \in Seq(S), x \in S : s \in T => Append(s, x) \in T
  PROVE  \A s \in Seq(S) : s \in T
<1> DEFINE L == {n \in Nat : \A s \in Seq(S) : Len(s) = n => s \in T}
<1>1. 0 \in L
  BY EmptySeq
<1>2. ASSUME NEW n \in Nat, n \in L
      PROVE  n + 1 \in L
  <2> SUFFICES ASSUME NEW s \in Seq(S), Len(s) = n + 1
               PROVE  s \in T
    OBVIOUS
  <2>1. s # <<>>
    BY EmptySeq
  <2>2. PICK u \in Seq(S), x \in S : s = Append(u, x)
    BY <2>1, SequenceEmptyOrAppend
  <2>3. Len(s) = Len(u) + 1 /\ Len(u) \in Nat
    BY <2>2, AppendProperties
  <2>4. u \in T
    BY <1>2, <2>3
  <2>5. QED
    BY <2>2, <2>4
<1> HIDE DEF L
<1>3. \A n \in Nat : n \in L
  BY <1>1, <1>2, AllNumbers
<1>4. QED
  BY <1>3 DEF L

-----------------------------------------------------------------------------
(* The rows that are selected.                                               *)

\* One step of the selection, and the sequence of its steps.
Picking(s, K, f, n) == IF n = 0 THEN <<>>
                       ELSE IF s[n] \in K THEN Append(f[n - 1], s[n]) ELSE f[n - 1]
Picks(s, K, f, m) == f = [n \in 0 .. m |-> Picking(s, K, f, n)]

\* There is one sequence of steps.
LEMMA PicksExist ==
  ASSUME NEW s, NEW K, NEW m \in Nat
  PROVE  \E f : Picks(s, K, f, m)
<1> DEFINE T == {k \in Nat : \E f : Picks(s, K, f, k)}
<1>1. 0 \in T
  <2> DEFINE f == [n \in 0 .. 0 |-> <<>>]
  <2>1. f = [n \in 0 .. 0 |-> Picking(s, K, f, n)]
    BY DEF Picking
  <2>2. QED
    BY <2>1 DEF Picks
<1>2. ASSUME NEW k \in Nat, k \in T
      PROVE  k + 1 \in T
  <2>1. PICK f : Picks(s, K, f, k)
    BY <1>2
  <2> DEFINE g == [n \in 0 .. k + 1 |-> IF n = k + 1 THEN Picking(s, K, f, n) ELSE f[n]]
  <2>2. ASSUME NEW n \in 0 .. k + 1
        PROVE  g[n] = Picking(s, K, g, n)
    <3>1. CASE n = 0
      <4>1. f[0] = Picking(s, K, f, 0)
        BY <2>1 DEF Picks
      <4>2. QED
        BY <3>1, <4>1 DEF Picking
    <3>2. CASE n # 0
      <4>1. n - 1 \in 0 .. k /\ g[n - 1] = f[n - 1]
        BY <3>2
      <4>2. Picking(s, K, g, n) = Picking(s, K, f, n)
        BY <4>1, <3>2 DEF Picking
      <4>3. n # k + 1 => n \in 0 .. k /\ f[n] = Picking(s, K, f, n)
        BY <2>1 DEF Picks
      <4>4. QED
        BY <4>2, <4>3
    <3>3. QED
      BY <3>1, <3>2
  <2>3. g = [n \in 0 .. k + 1 |-> Picking(s, K, g, n)]
    BY <2>2
  <2> HIDE DEF g
  <2>4. Picks(s, K, g, k + 1)
    BY <2>3 DEF Picks
  <2>5. QED
    BY <2>4
<1> HIDE DEF T
<1>3. m \in T
  BY <1>1, <1>2, AllNumbers
<1>4. QED
  BY <1>3 DEF T

\* The selections from two sequences agree as far as the sequences do.
LEMMA PicksAgree ==
  ASSUME NEW s, NEW t, NEW K, NEW m \in Nat, NEW k \in Nat, m <= k,
         \A n \in 1 .. m : s[n] = t[n],
         NEW f, Picks(s, K, f, m), NEW g, Picks(t, K, g, k)
  PROVE  f[m] = g[m]
<1> DEFINE T == {n \in Nat : n <= m => f[n] = g[n]}
<1>1. /\ \A n \in 0 .. m : f[n] = Picking(s, K, f, n)
      /\ \A n \in 0 .. k : g[n] = Picking(t, K, g, n)
  BY DEF Picks
<1>2. 0 \in T
  BY <1>1 DEF Picking
<1>3. ASSUME NEW n \in Nat, n \in T
      PROVE  n + 1 \in T
  <2> SUFFICES ASSUME n + 1 <= m
               PROVE  f[n + 1] = g[n + 1]
    OBVIOUS
  <2>1. f[n] = g[n] /\ n + 1 \in 1 .. m /\ n + 1 \in 0 .. m /\ n + 1 \in 0 .. k /\ (n + 1) - 1 = n
          /\ n + 1 # 0
    BY <1>3
  <2>2. f[n + 1] = IF s[n + 1] \in K THEN Append(f[n], s[n + 1]) ELSE f[n]
    BY <1>1, <2>1 DEF Picking
  <2>3. g[n + 1] = IF t[n + 1] \in K THEN Append(g[n], t[n + 1]) ELSE g[n]
    BY <1>1, <2>1 DEF Picking
  <2>4. s[n + 1] = t[n + 1]
    BY <2>1
  <2>5. QED
    BY <2>1, <2>2, <2>3, <2>4
<1> HIDE DEF T
<1>4. m \in T
  BY <1>2, <1>3, AllNumbers
<1>5. QED
  BY <1>4 DEF T

\* What Only selects, element by element.
LEMMA OnlyPicks ==
  ASSUME NEW s, NEW K, Len(s) \in Nat
  PROVE  \E f : Picks(s, K, f, Len(s)) /\ Only(s, K) = f[Len(s)]
<1> DEFINE only == CHOOSE f : f = [n \in 0 .. Len(s) |->
                     IF n = 0 THEN <<>>
                     ELSE IF s[n] \in K THEN Append(f[n - 1], s[n]) ELSE f[n - 1]]
<1>1. Only(s, K) = only[Len(s)]
  BY DEF Only
<1>2. \E f : Picks(s, K, f, Len(s))
  BY PicksExist
<1>3. \E f : f = [n \in 0 .. Len(s) |->
                     IF n = 0 THEN <<>>
                     ELSE IF s[n] \in K THEN Append(f[n - 1], s[n]) ELSE f[n - 1]]
  BY <1>2 DEF Picks, Picking
<1>4. only = [n \in 0 .. Len(s) |->
                     IF n = 0 THEN <<>>
                     ELSE IF s[n] \in K THEN Append(only[n - 1], s[n]) ELSE only[n - 1]]
  BY <1>3
<1>5. Picks(s, K, only, Len(s))
  BY <1>4 DEF Picks, Picking
<1>6. QED
  BY <1>1, <1>5

\* Nothing is selected from no element.
LEMMA OnlyEmpty ==
  ASSUME NEW K
  PROVE  Only(<<>>, K) = <<>>
<1>1. Len(<<>>) = 0
  OBVIOUS
<1>2. PICK f : Picks(<<>>, K, f, 0) /\ Only(<<>>, K) = f[0]
  BY <1>1, OnlyPicks
<1>3. QED
  BY <1>2 DEF Picks, Picking

\* A further element is selected if it is in K.
LEMMA OnlyAppend ==
  ASSUME NEW S, NEW s \in Seq(S), NEW x \in S, NEW K
  PROVE  Only(Append(s, x), K) = IF x \in K THEN Append(Only(s, K), x) ELSE Only(s, K)
<1> DEFINE t == Append(s, x)
<1>1. /\ Len(s) \in Nat /\ Len(t) = Len(s) + 1 /\ t[Len(s) + 1] = x
      /\ \A n \in 1 .. Len(s) : s[n] = t[n]
  BY AppendProperties
<1> HIDE DEF t
<1>2. PICK f : Picks(s, K, f, Len(s)) /\ Only(s, K) = f[Len(s)]
  BY <1>1, OnlyPicks
<1>3. PICK g : Picks(t, K, g, Len(t)) /\ Only(t, K) = g[Len(t)]
  <2>1. Len(t) \in Nat
    BY <1>1
  <2>2. QED
    BY <2>1, OnlyPicks
<1>4. f[Len(s)] = g[Len(s)]
  <2>1. Len(t) \in Nat /\ Len(s) <= Len(t)
    BY <1>1
  <2>2. QED
    BY <1>1, <1>2, <1>3, <2>1, PicksAgree
<1>5. g[Len(t)] = Picking(t, K, g, Len(t))
  BY <1>1, <1>3 DEF Picks
<1>6. g[Len(t)] = IF x \in K THEN Append(g[Len(s)], x) ELSE g[Len(s)]
  <2>1. Len(t) # 0 /\ Len(t) - 1 = Len(s) /\ t[Len(t)] = x
    BY <1>1
  <2>2. QED
    BY <1>5, <2>1 DEF Picking
<1>7. QED
  BY <1>2, <1>3, <1>4, <1>6 DEF t

\* What is selected are elements of s that are in K.
LEMMA OnlyType ==
  ASSUME NEW S, NEW K, NEW s \in Seq(S)
  PROVE  Only(s, K) \in Seq(S) /\ \A i \in 1 .. Len(Only(s, K)) : Only(s, K)[i] \in K
<1> DEFINE P(t) == Only(t, K) \in Seq(S) /\ \A i \in 1 .. Len(Only(t, K)) : Only(t, K)[i] \in K
           T == {t \in Seq(S) : P(t)}
<1>1. <<>> \in T
  <2> DEFINE e == <<>>
  <2>1. e \in Seq(S) /\ Len(e) = 0 /\ Only(e, K) = e
    BY OnlyEmpty, EmptySeq
  <2> HIDE DEF e
  <2>2. Only(e, K) \in Seq(S) /\ Len(Only(e, K)) = 0
    BY <2>1
  <2>3. 1 .. Len(Only(e, K)) = {}
    BY <2>2
  <2>4. e \in T
    BY <2>1, <2>2, <2>3
  <2>5. QED
    BY <2>4 DEF e
<1>2. ASSUME NEW t \in Seq(S), NEW x \in S, t \in T
      PROVE  Append(t, x) \in T
  <2>1. Append(t, x) \in Seq(S)
    BY AppendProperties
  <2>2. Only(Append(t, x), K) = IF x \in K THEN Append(Only(t, K), x) ELSE Only(t, K)
    BY OnlyAppend
  <2>3. CASE x \in K
    <3> DEFINE o == Only(t, K)
    <3>1. o \in Seq(S) /\ \A i \in 1 .. Len(o) : o[i] \in K
      BY <1>2
    <3> HIDE DEF o
    <3>2. /\ Append(o, x) \in Seq(S) /\ Len(Append(o, x)) = Len(o) + 1 /\ Append(o, x)[Len(o) + 1] = x
          /\ \A i \in 1 .. Len(o) : Append(o, x)[i] = o[i]
      BY <3>1, AppendProperties
    <3>3. Len(o) \in Nat
      BY <3>1
    <3>4. \A i \in 1 .. Len(Append(o, x)) : Append(o, x)[i] \in K
      BY <2>3, <3>1, <3>2, <3>3
    <3>5. Only(Append(t, x), K) = Append(o, x)
      BY <2>2, <2>3 DEF o
    <3>6. QED
      BY <2>1, <3>2, <3>4, <3>5
  <2>4. CASE x \notin K
    BY <1>2, <2>1, <2>2, <2>4
  <2>5. QED
    BY <2>3, <2>4
<1> HIDE DEF T
<1>3. s \in T
  BY <1>1, <1>2, AllSequences
<1>4. QED
  BY <1>3 DEF T

\* The selection from two sequences in a row.
LEMMA OnlyConcat ==
  ASSUME NEW S, NEW K, NEW s \in Seq(S), NEW t \in Seq(S)
  PROVE  Only(s \o t, K) = Only(s, K) \o Only(t, K)
<1> DEFINE T == {u \in Seq(S) : Only(s \o u, K) = Only(s, K) \o Only(u, K)}
<1>0. Only(s, K) \in Seq(S)
  BY OnlyType
<1>1. <<>> \in T
  BY <1>0, OnlyEmpty, ConcatEmptySeq, EmptySeq
<1>2. ASSUME NEW u \in Seq(S), NEW x \in S, u \in T
      PROVE  Append(u, x) \in T
  <2>1. Append(u, x) \in Seq(S)
    BY AppendProperties
  <2>2. s \o u \in Seq(S) /\ s \o Append(u, x) = Append(s \o u, x)
    <3>1. Append(u, x) = u \o <<x>> /\ <<x>> \in Seq(S) /\ s \o u \in Seq(S)
      BY AppendIsConcat, ConcatProperties
    <3>2. Append(s \o u, x) = (s \o u) \o <<x>>
      BY <3>1, AppendIsConcat
    <3>3. QED
      BY <3>1, <3>2, ConcatAssociative
  <2>3. /\ Only(Append(u, x), K) = IF x \in K THEN Append(Only(u, K), x) ELSE Only(u, K)
        /\ Only(Append(s \o u, x), K) = IF x \in K THEN Append(Only(s \o u, K), x) ELSE Only(s \o u, K)
    BY <2>2, OnlyAppend
  <2>4. Only(u, K) \in Seq(S)
    BY OnlyType
  <2>5. Only(s, K) \o Append(Only(u, K), x) = Append(Only(s, K) \o Only(u, K), x)
    <3>1. /\ Append(Only(u, K), x) = Only(u, K) \o <<x>> /\ <<x>> \in Seq(S)
          /\ Only(s, K) \o Only(u, K) \in Seq(S)
      BY <1>0, <2>4, AppendIsConcat, ConcatProperties
    <3>2. Append(Only(s, K) \o Only(u, K), x) = (Only(s, K) \o Only(u, K)) \o <<x>>
      BY <3>1, AppendIsConcat
    <3>3. QED
      BY <1>0, <2>4, <3>1, <3>2, ConcatAssociative
  <2>6. QED
    BY <1>2, <2>1, <2>2, <2>3, <2>5
<1> HIDE DEF T
<1>3. t \in T
  BY <1>1, <1>2, AllSequences
<1>4. QED
  BY <1>3 DEF T

\* Everything is selected, or nothing.
LEMMA OnlyAll ==
  ASSUME NEW S, NEW K, S \subseteq K, NEW s \in Seq(S)
  PROVE  Only(s, K) = s
<1> DEFINE T == {u \in Seq(S) : Only(u, K) = u}
<1>1. <<>> \in T
  BY OnlyEmpty, EmptySeq
<1>2. ASSUME NEW u \in Seq(S), NEW x \in S, u \in T
      PROVE  Append(u, x) \in T
  BY <1>2, OnlyAppend, AppendProperties
<1> HIDE DEF T
<1>3. s \in T
  BY <1>1, <1>2, AllSequences
<1>4. QED
  BY <1>3 DEF T

\* Nothing is selected when no element is in K.
LEMMA OnlyNone ==
  ASSUME NEW S, NEW K, NEW s \in Seq(S), \A i \in 1 .. Len(s) : s[i] \notin K
  PROVE  Only(s, K) = <<>>
<1> DEFINE T == {u \in Seq(S) : (\A i \in 1 .. Len(u) : u[i] \notin K) => Only(u, K) = <<>>}
<1>1. <<>> \in T
  BY OnlyEmpty, EmptySeq
<1>2. ASSUME NEW u \in Seq(S), NEW x \in S, u \in T
      PROVE  Append(u, x) \in T
  <2> SUFFICES ASSUME \A i \in 1 .. Len(Append(u, x)) : Append(u, x)[i] \notin K
               PROVE  Only(Append(u, x), K) = <<>>
    BY AppendProperties
  <2>1. /\ Len(Append(u, x)) = Len(u) + 1 /\ Len(u) \in Nat /\ Append(u, x)[Len(u) + 1] = x
        /\ \A i \in 1 .. Len(u) : Append(u, x)[i] = u[i]
    BY AppendProperties
  <2>2. x \notin K
    <3>1. Len(u) + 1 \in 1 .. Len(Append(u, x))
      BY <2>1
    <3>2. QED
      BY <2>1, <3>1
  <2>3. \A i \in 1 .. Len(u) : u[i] \notin K
    BY <2>1
  <2>4. QED
    BY <1>2, <2>2, <2>3, OnlyAppend
<1> HIDE DEF T
<1>3. s \in T
  BY <1>1, <1>2, AllSequences
<1>4. QED
  BY <1>3 DEF T

\* To select twice is to select what is in both sets.
LEMMA OnlyTwice ==
  ASSUME NEW S, NEW K, NEW L, NEW s \in Seq(S)
  PROVE  Only(Only(s, K), L) = Only(s, K \cap L)
<1> DEFINE T == {u \in Seq(S) : Only(Only(u, K), L) = Only(u, K \cap L)}
<1>1. <<>> \in T
  BY OnlyEmpty, EmptySeq
<1>2. ASSUME NEW u \in Seq(S), NEW x \in S, u \in T
      PROVE  Append(u, x) \in T
  <2>1. Append(u, x) \in Seq(S) /\ Only(u, K) \in Seq(S)
    BY AppendProperties, OnlyType
  <2>2. /\ Only(Append(u, x), K) = IF x \in K THEN Append(Only(u, K), x) ELSE Only(u, K)
        /\ Only(Append(u, x), K \cap L) = IF x \in K \cap L THEN Append(Only(u, K \cap L), x)
                                                             ELSE Only(u, K \cap L)
    BY OnlyAppend
  <2>3. Only(Append(Only(u, K), x), L) = IF x \in L THEN Append(Only(Only(u, K), L), x)
                                                     ELSE Only(Only(u, K), L)
    BY <2>1, OnlyAppend
  <2>4. Only(Only(u, K), L) = Only(u, K \cap L)
    BY <1>2
  <2>5. Only(Only(Append(u, x), K), L) = Only(Append(u, x), K \cap L)
    <3>1. CASE x \in K /\ x \in L
      BY <2>2, <2>3, <2>4, <3>1
    <3>2. CASE x \in K /\ x \notin L
      BY <2>2, <2>3, <2>4, <3>2
    <3>3. CASE x \notin K
      BY <2>2, <2>4, <3>3
    <3>4. QED
      BY <3>1, <3>2, <3>3
  <2>6. QED
    BY <2>1, <2>5
<1> HIDE DEF T
<1>3. s \in T
  BY <1>1, <1>2, AllSequences
<1>4. QED
  BY <1>3 DEF T

\* Only the elements that occur matter in a set.
LEMMA OnlySame ==
  ASSUME NEW S, NEW K, NEW L, \A x \in S : x \in K <=> x \in L, NEW s \in Seq(S)
  PROVE  Only(s, K) = Only(s, L)
<1> DEFINE T == {u \in Seq(S) : Only(u, K) = Only(u, L)}
<1>1. <<>> \in T
  BY OnlyEmpty, EmptySeq
<1>2. ASSUME NEW u \in Seq(S), NEW x \in S, u \in T
      PROVE  Append(u, x) \in T
  <2>1. Append(u, x) \in Seq(S)
    BY AppendProperties
  <2>2. /\ Only(Append(u, x), K) = IF x \in K THEN Append(Only(u, K), x) ELSE Only(u, K)
        /\ Only(Append(u, x), L) = IF x \in L THEN Append(Only(u, L), x) ELSE Only(u, L)
    BY OnlyAppend
  <2>3. Only(u, K) = Only(u, L)
    BY <1>2
  <2>4. Only(Append(u, x), K) = Only(Append(u, x), L)
    BY <2>2, <2>3
  <2>5. QED
    BY <2>1, <2>4
<1> HIDE DEF T
<1>3. s \in T
  BY <1>1, <1>2, AllSequences
<1>4. QED
  BY <1>3 DEF T

\* A relation between the elements of s and those behind them also holds
\* between the selected ones.
LEMMA OnlyOrdered ==
  ASSUME NEW S, NEW K, NEW R, NEW s \in Seq(S),
         \A i, j \in 1 .. Len(s) : i < j => <<s[i], s[j]>> \in R
  PROVE  \A i, j \in 1 .. Len(Only(s, K)) : i < j => <<Only(s, K)[i], Only(s, K)[j]>> \in R
<1> DEFINE Ordered(u) == \A i, j \in 1 .. Len(u) : i < j => <<u[i], u[j]>> \in R
           Follows(u, v) == \A x \in S : (\A i \in 1 .. Len(u) : <<u[i], x>> \in R)
                                            => \A i \in 1 .. Len(v) : <<v[i], x>> \in R
           T == {u \in Seq(S) : Follows(u, Only(u, K)) /\ (Ordered(u) => Ordered(Only(u, K)))}
<1>1. <<>> \in T
  BY OnlyEmpty, EmptySeq
<1>2. ASSUME NEW u \in Seq(S), NEW x \in S, u \in T
      PROVE  Append(u, x) \in T
  <2> DEFINE a == Append(u, x)
             o == Only(u, K)
             b == Only(a, K)
  <2>1. /\ a \in Seq(S) /\ Len(a) = Len(u) + 1 /\ Len(u) \in Nat /\ a[Len(u) + 1] = x
        /\ \A i \in 1 .. Len(u) : a[i] = u[i]
    BY AppendProperties
  <2>2. o \in Seq(S) /\ Len(o) \in Nat
    BY OnlyType
  <2>3. b = IF x \in K THEN Append(o, x) ELSE o
    BY OnlyAppend
  <2>4. /\ Append(o, x) \in Seq(S) /\ Len(Append(o, x)) = Len(o) + 1 /\ Append(o, x)[Len(o) + 1] = x
        /\ \A i \in 1 .. Len(o) : Append(o, x)[i] = o[i]
    BY <2>2, AppendProperties
  <2>5. Follows(u, o) /\ (Ordered(u) => Ordered(o))
    BY <1>2
  <2> HIDE DEF a, o, b
  <2>6. Follows(a, b)
    <3> SUFFICES ASSUME NEW y \in S, \A i \in 1 .. Len(a) : <<a[i], y>> \in R,
                        NEW i \in 1 .. Len(b)
                 PROVE  <<b[i], y>> \in R
      OBVIOUS
    <3>1. <<x, y>> \in R /\ \A k \in 1 .. Len(u) : <<u[k], y>> \in R
      <4>1. Len(u) + 1 \in 1 .. Len(a) /\ \A k \in 1 .. Len(u) : k \in 1 .. Len(a)
        BY <2>1
      <4>2. QED
        BY <2>1, <4>1
    <3>2. \A k \in 1 .. Len(o) : <<o[k], y>> \in R
      BY <2>5, <3>1
    <3>3. CASE x \in K
      <4>1. b = Append(o, x) /\ Len(b) = Len(o) + 1
        BY <2>3, <2>4, <3>3
      <4>2. i \in 1 .. Len(o) \/ i = Len(o) + 1
        BY <2>2, <4>1
      <4>3. QED
        BY <2>4, <3>1, <3>2, <4>1, <4>2
    <3>4. CASE x \notin K
      BY <2>3, <3>2, <3>4
    <3>5. QED
      BY <3>3, <3>4
  <2>7. ASSUME Ordered(a)
        PROVE  Ordered(b)
    <3>1. \A i, j \in 1 .. Len(u) : i < j => <<u[i], u[j]>> \in R
      BY <2>1, <2>7
    <3>2. \A i \in 1 .. Len(u) : <<u[i], x>> \in R
      <4>1. Len(u) + 1 \in 1 .. Len(a)
            /\ \A k \in 1 .. Len(u) : k \in 1 .. Len(a) /\ k < Len(u) + 1
        BY <2>1
      <4>2. QED
        BY <2>1, <2>7, <4>1
    <3>3. \A i, j \in 1 .. Len(o) : i < j => <<o[i], o[j]>> \in R
      BY <2>5, <3>1
    <3>4. \A i \in 1 .. Len(o) : <<o[i], x>> \in R
      BY <2>5, <3>2
    <3>5. CASE x \in K
      <4> SUFFICES ASSUME NEW i \in 1 .. Len(b), NEW j \in 1 .. Len(b), i < j
                   PROVE  <<b[i], b[j]>> \in R
        OBVIOUS
      <4>1. b = Append(o, x) /\ Len(b) = Len(o) + 1
        BY <2>3, <2>4, <3>5
      <4>2. i \in 1 .. Len(o) /\ b[i] = o[i]
        <5>1. i \in 1 .. Len(o)
          <6>1. Len(b) = Len(o) + 1 /\ Len(o) \in Nat
            BY <2>2, <4>1
          <6>2. QED
            BY <6>1
        <5>2. QED
          BY <2>4, <4>1, <5>1
      <4>3. j \in 1 .. Len(o) \/ j = Len(o) + 1
        <5>1. Len(b) = Len(o) + 1 /\ Len(o) \in Nat
          BY <2>2, <4>1
        <5>2. QED
          BY <5>1
      <4>4. QED
        BY <2>4, <3>3, <3>4, <4>1, <4>2, <4>3
    <3>6. CASE x \notin K
      BY <2>3, <3>3, <3>6
    <3>7. QED
      BY <3>5, <3>6
  <2>8. QED
    BY <2>1, <2>6, <2>7 DEF a, b
<1> HIDE DEF T
<1>3. s \in T
  BY <1>1, <1>2, AllSequences
<1>4. QED
  BY <1>3 DEF T

\* What is in K is selected.
LEMMA OnlyComplete ==
  ASSUME NEW S, NEW K, NEW s \in Seq(S), NEW i \in 1 .. Len(s), s[i] \in K
  PROVE  \E j \in 1 .. Len(Only(s, K)) : Only(s, K)[j] = s[i]
<1> DEFINE Has(u, y) == \E j \in 1 .. Len(u) : u[j] = y
           T == {u \in Seq(S) : \A y \in K : Has(u, y) => Has(Only(u, K), y)}
<1>1. <<>> \in T
  BY OnlyEmpty, EmptySeq
<1>2. ASSUME NEW u \in Seq(S), NEW x \in S, u \in T
      PROVE  Append(u, x) \in T
  <2> DEFINE a == Append(u, x)
             o == Only(u, K)
             b == Only(a, K)
  <2>1. /\ a \in Seq(S) /\ Len(a) = Len(u) + 1 /\ Len(u) \in Nat /\ a[Len(u) + 1] = x
        /\ \A k \in 1 .. Len(u) : a[k] = u[k]
    BY AppendProperties
  <2>2. o \in Seq(S) /\ Len(o) \in Nat
    BY OnlyType
  <2>3. b = IF x \in K THEN Append(o, x) ELSE o
    BY OnlyAppend
  <2>4. /\ Append(o, x) \in Seq(S) /\ Len(Append(o, x)) = Len(o) + 1 /\ Append(o, x)[Len(o) + 1] = x
        /\ \A k \in 1 .. Len(o) : Append(o, x)[k] = o[k]
    BY <2>2, AppendProperties
  <2>5. \A y \in K : Has(u, y) => Has(o, y)
    BY <1>2
  <2> HIDE DEF a, o, b
  <2>6. ASSUME NEW y \in K, NEW k \in 1 .. Len(a), a[k] = y
        PROVE  \E j \in 1 .. Len(b) : b[j] = y
    <3>1. CASE k = Len(u) + 1
      <4>1. b = Append(o, x) /\ y = x
        BY <2>1, <2>3, <2>6, <3>1
      <4>2. Len(o) + 1 \in 1 .. Len(b) /\ b[Len(o) + 1] = y
        BY <2>2, <2>4, <4>1
      <4>3. QED
        BY <4>2
    <3>2. CASE k # Len(u) + 1
      <4>1. k \in 1 .. Len(u) /\ u[k] = y
        BY <2>1, <2>6, <3>2
      <4>2. PICK j \in 1 .. Len(o) : o[j] = y
        BY <2>5, <4>1
      <4>3. j \in 1 .. Len(b) /\ b[j] = y
        <5>1. CASE x \in K
          BY <2>2, <2>3, <2>4, <4>2, <5>1
        <5>2. CASE x \notin K
          BY <2>3, <4>2, <5>2
        <5>3. QED
          BY <5>1, <5>2
      <4>4. QED
        BY <4>3
    <3>3. QED
      BY <3>1, <3>2
  <2>7. \A y \in K : Has(a, y) => Has(b, y)
    BY <2>6
  <2>8. QED
    BY <2>1, <2>7 DEF a, b
<1> HIDE DEF T
<1>3. s \in T
  BY <1>1, <1>2, AllSequences
<1>4. QED
  BY <1>3 DEF T

\* When what follows an element in K is in K, the selection is an end of s.
LEMMA OnlyTheEnd ==
  ASSUME NEW S, NEW K, NEW s \in Seq(S),
         \A i, j \in 1 .. Len(s) : i < j /\ s[i] \in K => s[j] \in K
  PROVE  \E m \in 1 .. Len(s) + 1 : Only(s, K) = SubSeq(s, m, Len(s))
<1> DEFINE Closed(u) == \A i, j \in 1 .. Len(u) : i < j /\ u[i] \in K => u[j] \in K
           Ends(u, v) == \E m \in 1 .. Len(u) + 1 : v = SubSeq(u, m, Len(u))
           T == {u \in Seq(S) : Closed(u) => Ends(u, Only(u, K))}
<1>1. <<>> \in T
  <2> DEFINE e == <<>>
  <2>1. e \in Seq(S) /\ Len(e) = 0 /\ SubSeq(e, 1, 0) = e /\ Only(e, K) = e
    BY OnlyEmpty, EmptySeq, SubSeqEmpty
  <2> HIDE DEF e
  <2>2. 1 \in 1 .. Len(e) + 1 /\ Only(e, K) = SubSeq(e, 1, Len(e))
    BY <2>1
  <2>3. e \in T
    BY <2>1, <2>2
  <2>4. QED
    BY <2>3 DEF e
<1>2. ASSUME NEW u \in Seq(S), NEW x \in S, u \in T
      PROVE  Append(u, x) \in T
  <2> DEFINE a == Append(u, x)
             o == Only(u, K)
             b == Only(a, K)
  <2>1. /\ a \in Seq(S) /\ Len(a) = Len(u) + 1 /\ Len(u) \in Nat /\ a[Len(u) + 1] = x
        /\ \A k \in 1 .. Len(u) : a[k] = u[k]
    BY AppendProperties
  <2>2. b = IF x \in K THEN Append(o, x) ELSE o
    BY OnlyAppend
  <2>3. ASSUME Closed(a)
        PROVE  Ends(a, b)
    <3>1. Closed(u)
      BY <2>1, <2>3
    <3>2. PICK m \in 1 .. Len(u) + 1 : o = SubSeq(u, m, Len(u))
      BY <1>2, <3>1
    <3>3. CASE x \in K
      <4>1. b = Append(SubSeq(u, m, Len(u)), x)
        BY <2>2, <3>2, <3>3
      <4>2. SubSeq(a, m, Len(a)) = Append(SubSeq(u, m, Len(u)), x)
        <5>1. m \in Nat /\ Len(u) + 1 = Len(a)
          BY <2>1
        <5>2. /\ SubSeq(u, m, Len(u)) \in Seq(S)
              /\ Len(SubSeq(u, m, Len(u))) = Len(u) - m + 1
              /\ \A k \in 1 .. Len(u) - m + 1 : SubSeq(u, m, Len(u))[k] = u[m + k - 1]
          BY <2>1, SubSeqProperties
        <5>3. /\ SubSeq(a, m, Len(a)) \in Seq(S)
              /\ Len(SubSeq(a, m, Len(a))) = Len(a) - m + 1
              /\ \A k \in 1 .. Len(a) - m + 1 : SubSeq(a, m, Len(a))[k] = a[m + k - 1]
          BY <2>1, SubSeqProperties
        <5> DEFINE v == SubSeq(u, m, Len(u))
                   w == SubSeq(a, m, Len(a))
        <5>4. /\ Append(v, x) \in Seq(S) /\ Len(Append(v, x)) = Len(v) + 1
                   /\ Append(v, x)[Len(v) + 1] = x
              /\ \A k \in 1 .. Len(v) : Append(v, x)[k] = v[k]
          BY <5>2, AppendProperties
        <5> HIDE DEF v, w
        <5>5. Len(w) = Len(Append(v, x))
          BY <2>1, <5>2, <5>3, <5>4 DEF v, w
        <5>6. ASSUME NEW k \in 1 .. Len(w)
              PROVE  w[k] = Append(v, x)[k]
          <6>1. Len(v) = Len(u) - m + 1 /\ Len(w) = Len(v) + 1 /\ w[k] = a[m + k - 1]
            BY <2>1, <5>2, <5>3 DEF v, w
          <6>2. CASE k = Len(v) + 1
            BY <2>1, <5>4, <6>1, <6>2
          <6>3. CASE k # Len(v) + 1
            <7>1. k \in 1 .. Len(v) /\ m + k - 1 \in 1 .. Len(u)
              <8>1. k \in Int /\ 1 <= k /\ k <= Len(v) + 1 /\ m \in Int /\ 1 <= m
                      /\ Len(v) = Len(u) - m + 1
                BY <2>1, <6>1
              <8>2. QED
                BY <2>1, <6>3, <8>1
            <7>2. v[k] = u[m + k - 1]
              BY <5>2, <6>1, <7>1 DEF v
            <7>3. QED
              BY <2>1, <5>4, <6>1, <7>1, <7>2
          <6>4. QED
            BY <6>2, <6>3
        <5>7. w \in Seq(S) /\ v \in Seq(S)
          BY <5>2, <5>3 DEF v, w
        <5>8. w = Append(v, x)
          BY <5>4, <5>5, <5>6, <5>7, SeqEqual
        <5>9. QED
          BY <5>8 DEF v, w
      <4>3. m \in 1 .. Len(a) + 1
        BY <2>1
      <4>4. QED
        BY <4>1, <4>2, <4>3
    <3>4. CASE x \notin K
      <4>1. \A i \in 1 .. Len(u) : u[i] \notin K
        <5>1. Len(u) + 1 \in 1 .. Len(a)
              /\ \A k \in 1 .. Len(u) : k \in 1 .. Len(a) /\ k < Len(u) + 1
          BY <2>1
        <5>2. QED
          BY <2>1, <2>3, <3>4, <5>1
      <4>2. b = <<>>
        BY <2>2, <3>4, <4>1, OnlyNone
      <4>3. SubSeq(a, Len(a) + 1, Len(a)) = <<>> /\ Len(a) + 1 \in 1 .. Len(a) + 1
        BY <2>1, SubSeqEmpty
      <4>4. QED
        BY <4>2, <4>3
    <3>5. QED
      BY <3>3, <3>4
  <2>4. QED
    BY <2>1, <2>3
<1> HIDE DEF T
<1>3. s \in T
  BY <1>1, <1>2, AllSequences
<1>4. QED
  BY <1>3 DEF T

\* When one element at most is in K, it is all that is selected.
LEMMA OnlyOne ==
  ASSUME NEW S, NEW K, NEW s \in Seq(S), NEW i \in 1 .. Len(s), s[i] \in K,
         \A j \in 1 .. Len(s) : s[j] \in K => j = i
  PROVE  Only(s, K) = <<s[i]>>
<1> DEFINE One(u, k) == u[k] \in K /\ \A j \in 1 .. Len(u) : u[j] \in K => j = k
           T == {u \in Seq(S) : \A k \in 1 .. Len(u) : One(u, k) => Only(u, K) = <<u[k]>>}
<1>1. <<>> \in T
  BY EmptySeq
<1>2. ASSUME NEW u \in Seq(S), NEW x \in S, u \in T
      PROVE  Append(u, x) \in T
  <2> DEFINE a == Append(u, x)
  <2>1. /\ a \in Seq(S) /\ Len(a) = Len(u) + 1 /\ Len(u) \in Nat /\ a[Len(u) + 1] = x
        /\ \A k \in 1 .. Len(u) : a[k] = u[k]
    BY AppendProperties
  <2>2. Only(a, K) = IF x \in K THEN Append(Only(u, K), x) ELSE Only(u, K)
    BY OnlyAppend
  <2> HIDE DEF a
  <2>3. ASSUME NEW k \in 1 .. Len(a), One(a, k)
        PROVE  Only(a, K) = <<a[k]>>
    <3>1. CASE k = Len(u) + 1
      <4>1. x \in K /\ a[k] = x
        BY <2>1, <2>3, <3>1
      <4>2. \A j \in 1 .. Len(u) : u[j] \notin K
        BY <2>1, <2>3, <3>1
      <4>3. Only(u, K) = <<>>
        BY <4>2, OnlyNone
      <4>4. Append(<<>>, x) = <<x>>
        OBVIOUS
      <4>5. QED
        BY <2>2, <4>1, <4>3, <4>4
    <3>2. CASE k # Len(u) + 1
      <4>1. k \in 1 .. Len(u) /\ u[k] = a[k]
        BY <2>1, <3>2
      <4>2. x \notin K
        <5>1. Len(u) + 1 \in 1 .. Len(a)
          BY <2>1
        <5>2. QED
          BY <2>1, <2>3, <3>2, <5>1
      <4>3. One(u, k)
        BY <2>1, <2>3, <4>1
      <4>4. Only(u, K) = <<u[k]>>
        BY <1>2, <4>1, <4>3
      <4>5. QED
        BY <2>2, <4>1, <4>2, <4>4
    <3>3. QED
      BY <3>1, <3>2
  <2>4. QED
    BY <2>1, <2>3 DEF a
<1> HIDE DEF T
<1>3. s \in T
  BY <1>1, <1>2, AllSequences
<1>4. QED
  BY <1>3 DEF T

-----------------------------------------------------------------------------
(* Rows and their invariants.                                                *)

\* Rows lie in the order of their times; those of faults and events are about
\* points of their own array.
RowsInv(rows) ==
  /\ rows \in Seq(Row)
  /\ \A i \in 1 .. Len(rows) :
       /\ rows[i].at <= now /\ rows[i].run <= run
       /\ rows[i].table = "faults" => rows[i].point \in Range(FaultPoints)
       /\ rows[i].table = "events" => rows[i].point \in Range(EventPoints)
  /\ \A i, j \in 1 .. Len(rows) : i < j => rows[i].at <= rows[j].at

\* The rows of a point stored by one run, and what is said of them.
About(p, r) == {row \in Row : row.table \in {"faults", "events"} /\ row.point = p /\ row.run = r}
Differ(s) == \A i \in 1 .. Len(s) - 1 : s[i].value # s[i + 1].value
Ends(s, v) == s # <<>> => s[Len(s)].value = v
StoredOnce(rows, known) ==
  \A p \in ChangePoints, r \in 1 .. run :
    /\ Differ(Only(rows, About(p, r)))
    /\ r = run => Ends(Only(rows, About(p, r)), known[p])

\* How far the boot is: the copies made, none older than the one before.
Made == 4 - Len(boot)
BootInv ==
  /\ boot \in Seq(Range(Copies)) /\ Len(boot) <= 4
  /\ \A i \in 1 .. Len(boot) : boot[i] = Copies[Made + i]
  /\ failures = 0 =>
       /\ \A i \in 1 .. Made : mirror[Copies[i]].rows = ConfigRows /\ mirror[Copies[i]].version <= conf
       /\ \A i, j \in 1 .. Made : i < j => mirror[Copies[i]].version <= mirror[Copies[j]].version

StoreInv ==
  /\ StoreTypeOK
  /\ conf \in 1 .. MaxConf
  /\ BootInv
  /\ RowsInv(biz.rows)
  /\ failures = 0 => ~biz.tx /\ StoredOnce(biz.rows, last)

\* The constants of the storage.
LEMMA StoreConstants ==
  /\ DayEvery \in Nat \ {0} /\ ConfigRows \in Nat
  /\ KeepTimed \in Nat /\ KeepFaults \in Nat /\ KeepRecord \in Nat
  /\ MaxNow \in Nat /\ MaxRuns \in Nat \ {0} /\ MaxStoreFailures \in Nat /\ MaxConf \in Nat \ {0}
  /\ Batch \in Nat \ {0}
BY StoreAssumption, BatchAssumption

\* The types of a row.
LEMMA RowFields ==
  ASSUME NEW row \in Row
  PROVE  /\ row.table \in {"timed", "faults", "events", "record"}
         /\ row.at \in 0 .. MaxNow /\ row.at \in Nat /\ row.run \in 1 .. MaxRuns /\ row.run \in Nat
         /\ row.point \in ChangePoints \cup Range(TimedPoints) /\ row.value \in Values \cup {Unknown}
BY StoreConstants DEF Row

\* Deletions keep the invariants of the rows.
LEMMA RowsInvOnly ==
  ASSUME NEW rows, RowsInv(rows), NEW K
  PROVE  RowsInv(Only(rows, K))
<1> DEFINE o == Only(rows, K)
           Fit == {row \in Row : /\ row.at <= now /\ row.run <= run
                                 /\ row.table = "faults" => row.point \in Range(FaultPoints)
                                 /\ row.table = "events" => row.point \in Range(EventPoints)}
           R == {pair \in Row \X Row : pair[1].at <= pair[2].at}
<1>1. rows \in Seq(Row) /\ Len(rows) \in Nat /\ \A i \in 1 .. Len(rows) : rows[i] \in Row
  BY ElementOfSeq DEF RowsInv
<1>2. rows \in Seq(Fit)
  <2>1. \A i \in 1 .. Len(rows) : rows[i] \in Fit
    BY <1>1 DEF RowsInv
  <2>2. DOMAIN rows = 1 .. Len(rows) /\ rows = [i \in 1 .. Len(rows) |-> rows[i]]
    BY <1>1
  <2> HIDE DEF Fit
  <2>3. rows \in [1 .. Len(rows) -> Fit]
    BY <2>1, <2>2
  <2>4. QED
    BY <1>1, <2>3, SeqDef
<1>3. o \in Seq(Fit) /\ o \in Seq(Row)
  BY <1>1, <1>2, OnlyType
<1>4. \A i, j \in 1 .. Len(rows) : i < j => <<rows[i], rows[j]>> \in R
  BY <1>1 DEF RowsInv
<1> HIDE DEF Fit, R
<1>5. \A i, j \in 1 .. Len(o) : i < j => <<o[i], o[j]>> \in R
  BY <1>1, <1>4, OnlyOrdered
<1>6. \A i, j \in 1 .. Len(o) : i < j => o[i].at <= o[j].at
  BY <1>5 DEF R
<1> HIDE DEF o
<1>7. \A i \in 1 .. Len(o) : o[i] \in Fit
  BY <1>3, ElementOfSeq
<1>8. RowsInv(o)
  BY <1>3, <1>6, <1>7 DEF RowsInv, Fit
<1>9. QED
  BY <1>8 DEF o

\* So do insertions of rows of the present second and run.
LEMMA RowsInvConcat ==
  ASSUME NEW rows, RowsInv(rows), NEW new \in Seq(Row), now \in Nat, run \in Nat,
         \A i \in 1 .. Len(new) :
           /\ new[i].at = now /\ new[i].run = run
           /\ new[i].table = "faults" => new[i].point \in Range(FaultPoints)
           /\ new[i].table = "events" => new[i].point \in Range(EventPoints)
  PROVE  RowsInv(rows \o new)
<1> DEFINE both == rows \o new
<1>1. /\ rows \in Seq(Row) /\ Len(rows) \in Nat /\ Len(new) \in Nat
      /\ both \in Seq(Row) /\ Len(both) = Len(rows) + Len(new)
      /\ \A i \in 1 .. Len(rows) : both[i] = rows[i]
      /\ \A i \in 1 .. Len(new) : both[Len(rows) + i] = new[i]
  <2>1. rows \in Seq(Row)
    BY DEF RowsInv
  <2>2. QED
    BY <2>1, ConcatProperties
<1> HIDE DEF both
<1>2. ASSUME NEW i \in 1 .. Len(both), i > Len(rows)
      PROVE  i - Len(rows) \in 1 .. Len(new) /\ both[i] = new[i - Len(rows)]
  <2>1. i - Len(rows) \in 1 .. Len(new) /\ Len(rows) + (i - Len(rows)) = i
    BY <1>1, <1>2
  <2>2. QED
    BY <1>1, <2>1
<1>3. ASSUME NEW i \in 1 .. Len(both), ~(i > Len(rows))
      PROVE  i \in 1 .. Len(rows) /\ both[i] = rows[i]
  BY <1>1, <1>3
<1>4. ASSUME NEW i \in 1 .. Len(both)
      PROVE  /\ both[i].at <= now /\ both[i].run <= run
             /\ both[i].table = "faults" => both[i].point \in Range(FaultPoints)
             /\ both[i].table = "events" => both[i].point \in Range(EventPoints)
  <2>1. CASE i > Len(rows)
    BY <1>2, <2>1
  <2>2. CASE ~(i > Len(rows))
    BY <1>3, <2>2 DEF RowsInv
  <2>3. QED
    BY <2>1, <2>2
<1>5. ASSUME NEW i \in 1 .. Len(both), NEW j \in 1 .. Len(both), i < j
      PROVE  both[i].at <= both[j].at
  <2>1. CASE j > Len(rows)
    BY <1>2, <1>4, <2>1
  <2>2. CASE ~(j > Len(rows))
    <3>1. ~(i > Len(rows))
      BY <1>1, <1>5, <2>2
    <3>2. QED
      BY <1>3, <1>5, <2>2, <3>1 DEF RowsInv
  <2>3. QED
    BY <2>1, <2>2
<1>6. RowsInv(both)
  BY <1>1, <1>4, <1>5 DEF RowsInv
<1>7. QED
  BY <1>6 DEF both

\* What deletions of expired rows of a table do to the rows of a point: they
\* leave an end of them.
LEMMA StoredOnceDelete ==
  ASSUME StoreTypeOK, NEW rows, RowsInv(rows), NEW known, StoredOnce(rows, known),
         NEW t \in {"timed", "faults", "events", "record"}
  PROVE  StoredOnce(Only(rows, {row \in Row : row.table # t \/ ~Expired(row)}), known)
<1> DEFINE keep == {row \in Row : row.table # t \/ ~Expired(row)}
<1>1. rows \in Seq(Row) /\ now \in Nat
  BY StoreConstants DEF RowsInv, StoreTypeOK
<1> SUFFICES ASSUME NEW p \in ChangePoints, NEW r \in 1 .. run
             PROVE  /\ Differ(Only(Only(rows, keep), About(p, r)))
                    /\ r = run => Ends(Only(Only(rows, keep), About(p, r)), known[p])
  BY DEF StoredOnce
<1> DEFINE s == Only(rows, About(p, r))
<1>2. Only(Only(rows, keep), About(p, r)) = Only(s, keep)
  <2>1. keep \cap About(p, r) = About(p, r) \cap keep
    OBVIOUS
  <2> HIDE DEF keep
  <2>2. /\ Only(Only(rows, keep), About(p, r)) = Only(rows, keep \cap About(p, r))
        /\ Only(s, keep) = Only(rows, About(p, r) \cap keep)
    BY <1>1, OnlyTwice
  <2>3. QED
    BY <2>1, <2>2
<1>3. RowsInv(s) /\ \A i \in 1 .. Len(s) : s[i] \in About(p, r)
  BY <1>1, RowsInvOnly, OnlyType
<1>4. Differ(s) /\ (r = run => Ends(s, known[p]))
  BY DEF StoredOnce
<1> HIDE DEF s
<1>5. s \in Seq(Row) /\ Len(s) \in Nat /\ \A i \in 1 .. Len(s) : s[i] \in Row
  BY <1>3, ElementOfSeq DEF RowsInv
<1>6. ASSUME NEW i \in 1 .. Len(s), NEW j \in 1 .. Len(s), i < j, s[i] \in keep
      PROVE  s[j] \in keep
  <2>1. s[i].table = s[j].table
    <3>1. s[i].point = p /\ s[j].point = p /\ {s[i].table, s[j].table} \subseteq {"faults", "events"}
      BY <1>3 DEF About
    <3>2. p \in Range(FaultPoints) => p \notin Range(EventPoints)
      BY StoreAssumption
    <3>3. QED
      BY <1>3, <3>1, <3>2 DEF RowsInv
  <2>2. s[i].at <= s[j].at
    BY <1>3, <1>6 DEF RowsInv
  <2>3. Expired(s[j]) => Expired(s[i])
    <3>1. Period(s[i].table) = Period(s[j].table) /\ Period(s[i].table) \in Nat
      BY <2>1, StoreConstants DEF Period
    <3>2. s[i].at \in Nat /\ s[j].at \in Nat
      BY <1>5, RowFields
    <3>3. QED
      BY <1>1, <2>2, <3>1, <3>2 DEF Expired
  <2>4. QED
    BY <1>5, <1>6, <2>1, <2>3
<1> HIDE DEF keep
<1>7. PICK m \in 1 .. Len(s) + 1 : Only(s, keep) = SubSeq(s, m, Len(s))
  BY <1>5, <1>6, OnlyTheEnd
<1> DEFINE e == SubSeq(s, m, Len(s))
<1>8. /\ e \in Seq(Row) /\ Len(e) = Len(s) - m + 1
      /\ \A k \in 1 .. Len(s) - m + 1 : e[k] = s[m + k - 1]
  BY <1>5, SubSeqProperties
<1> HIDE DEF e
<1>9. Differ(e)
  <2> SUFFICES ASSUME NEW i \in 1 .. Len(e) - 1
               PROVE  e[i].value # e[i + 1].value
    BY DEF Differ
  <2>1. i \in 1 .. Len(s) - m + 1 /\ i + 1 \in 1 .. Len(s) - m + 1 /\ m + i - 1 \in 1 .. Len(s) - 1
    BY <1>5, <1>8
  <2>2. m + (i + 1) - 1 = (m + i - 1) + 1
    BY <2>1
  <2>3. e[i] = s[m + i - 1] /\ e[i + 1] = s[(m + i - 1) + 1]
    BY <1>8, <2>1, <2>2
  <2>4. QED
    BY <1>4, <2>1, <2>3 DEF Differ
<1>10. ASSUME r = run
       PROVE  Ends(e, known[p])
  <2> SUFFICES ASSUME e # <<>>
               PROVE  e[Len(e)].value = known[p]
    BY DEF Ends
  <2>1. Len(e) # 0
    BY <1>8, EmptySeq
  <2>2. Len(e) \in 1 .. Len(s) - m + 1 /\ m + Len(e) - 1 = Len(s) /\ Len(s) # 0
    BY <1>5, <1>8, <2>1
  <2>3. e[Len(e)] = s[Len(s)] /\ s # <<>>
    <3>1. e[Len(e)] = s[m + Len(e) - 1]
      BY <1>8, <2>2
    <3>2. s # <<>>
      BY <2>2, EmptySeq
    <3>3. QED
      BY <2>2, <3>1, <3>2
  <2>4. QED
    BY <1>4, <1>10, <2>3 DEF Ends
<1>11. QED
  BY <1>2, <1>7, <1>9, <1>10 DEF e, keep

\* Rows that are about no fault and no event change nothing.
LEMMA StoredOnceTimed ==
  ASSUME NEW rows \in Seq(Row), NEW new \in Seq(Row), NEW known, StoredOnce(rows, known),
         \A i \in 1 .. Len(new) : new[i].table \notin {"faults", "events"}
  PROVE  StoredOnce(rows \o new, known)
<1> SUFFICES ASSUME NEW p \in ChangePoints, NEW r \in 1 .. run
             PROVE  Only(rows \o new, About(p, r)) = Only(rows, About(p, r))
  BY DEF StoredOnce
<1>1. Only(new, About(p, r)) = <<>>
  <2>1. \A i \in 1 .. Len(new) : new[i] \notin About(p, r)
    BY DEF About
  <2>2. QED
    BY <2>1, OnlyNone
<1>2. Only(rows, About(p, r)) \in Seq(Row)
  BY OnlyType
<1>3. Only(rows \o new, About(p, r)) = Only(rows, About(p, r)) \o Only(new, About(p, r))
  BY OnlyConcat
<1>4. Only(rows, About(p, r)) \o <<>> = Only(rows, About(p, r))
  BY <1>2, ConcatEmptySeq
<1>5. QED
  BY <1>1, <1>3, <1>4

\* One row more behind those of a point.
LEMMA OneMore ==
  ASSUME NEW s \in Seq(Row), Differ(s), NEW v, Ends(s, v), NEW row \in Row, row.value # v
  PROVE  Differ(s \o <<row>>) /\ Ends(s \o <<row>>, row.value)
<1> DEFINE both == Append(s, row)
<1>1. /\ Len(both) = Len(s) + 1 /\ Len(s) \in Nat /\ both[Len(s) + 1] = row
      /\ \A i \in 1 .. Len(s) : both[i] = s[i]
  BY AppendProperties
<1>2. both = s \o <<row>>
  BY AppendIsConcat
<1> HIDE DEF both
<1>3. Ends(both, row.value)
  BY <1>1 DEF Ends
<1>4. ASSUME NEW i \in 1 .. Len(both) - 1
      PROVE  both[i].value # both[i + 1].value
  <2>1. CASE i = Len(s)
    <3>1. s # <<>>
      BY <2>1, <1>4, EmptySeq
    <3>2. s[Len(s)].value = v
      BY <3>1 DEF Ends
    <3>3. Len(s) \in 1 .. Len(s)
      BY <1>1, <1>4, <2>1
    <3>4. QED
      BY <1>1, <2>1, <3>2, <3>3
  <2>2. CASE i # Len(s)
    <3>1. i \in 1 .. Len(s) - 1 /\ i \in 1 .. Len(s) /\ i + 1 \in 1 .. Len(s)
      BY <1>1, <1>4, <2>2
    <3>2. QED
      BY <1>1, <3>1 DEF Differ
  <2>3. QED
    BY <2>1, <2>2
<1>5. Differ(both)
  BY <1>4 DEF Differ
<1>6. QED
  BY <1>2, <1>3, <1>5

-----------------------------------------------------------------------------
(* The calls of SQLite.                                                      *)

\* An insertion that fails keeps some whole batches.
LEMMA KeptRows ==
  ASSUME NEW n \in Nat \ {0}, NEW f \in InsertFailures(n)
  PROVE  f.row \in 0 .. n /\ (f.at # "begin" => Kept(f) \in 0 .. f.row)
<1>0. Batch \in Nat \ {0}
  BY StoreConstants
<1>1. f.at \in {"begin", "step", "commit", "rebegin"} /\ f.row \in 0 .. n
        /\ (f.at = "commit" => f.row \in 1 .. n)
  <2> DEFINE ends == {k \in 1 .. n : k % Batch = 0}
  <2>1. ends \subseteq 1 .. n
    OBVIOUS
  <2>2. f \in [at: {"begin"}, row: {0}, undone: {TRUE}]
              \cup [at: {"step"}, row: 0 .. n - 1, undone: BOOLEAN]
              \cup [at: {"commit"}, row: ends \cup {n}, undone: BOOLEAN]
              \cup [at: {"rebegin"}, row: ends, undone: {TRUE}]
    BY DEF InsertFailures
  <2> HIDE DEF ends
  <2>3. CASE f \in [at: {"begin"}, row: {0}, undone: {TRUE}]
    BY <2>3
  <2>4. CASE f \in [at: {"step"}, row: 0 .. n - 1, undone: BOOLEAN]
    BY <2>4
  <2>5. CASE f \in [at: {"commit"}, row: ends \cup {n}, undone: BOOLEAN]
    <3>1. f.at = "commit" /\ f.row \in ends \cup {n}
      BY <2>5
    <3>2. ends \cup {n} \subseteq 1 .. n
      BY <2>1
    <3>3. QED
      BY <3>1, <3>2
  <2>6. CASE f \in [at: {"rebegin"}, row: ends, undone: {TRUE}]
    <3>1. f.at = "rebegin" /\ f.row \in ends
      BY <2>6
    <3>2. f.row \in 1 .. n
      BY <2>1, <3>1
    <3>3. QED
      BY <3>1, <3>2
  <2>7. QED
    BY <2>2, <2>3, <2>4, <2>5, <2>6
<1>2. \A b \in Nat \ {0}, k \in Nat : k \div b \in Nat /\ b * (k \div b) <= k /\ b * (k \div b) \in Nat
  OBVIOUS
<1>3. CASE f.at = "commit"
  <2>1. f.row - 1 \in Nat /\ Kept(f) = Batch * ((f.row - 1) \div Batch)
    BY <1>1, <1>3 DEF Kept
  <2>2. Batch * ((f.row - 1) \div Batch) <= f.row - 1 /\ Batch * ((f.row - 1) \div Batch) \in Nat
    BY <1>0, <1>2, <2>1
  <2> DEFINE kept == Batch * ((f.row - 1) \div Batch)
  <2> HIDE DEF kept
  <2>3. Kept(f) = kept /\ kept <= f.row - 1 /\ kept \in Nat
    BY <2>1, <2>2 DEF kept
  <2>4. QED
    BY <1>1, <2>1, <2>3
<1>4. CASE f.at # "commit"
  <2>1. f.row \in Nat /\ Kept(f) = Batch * (f.row \div Batch)
    BY <1>1, <1>4 DEF Kept
  <2>2. Batch * (f.row \div Batch) <= f.row /\ Batch * (f.row \div Batch) \in Nat
    BY <1>0, <1>2, <2>1
  <2> DEFINE kept == Batch * (f.row \div Batch)
  <2> HIDE DEF kept
  <2>3. Kept(f) = kept /\ kept <= f.row /\ kept \in Nat
    BY <2>1, <2>2 DEF kept
  <2>4. QED
    BY <1>1, <2>1, <2>3
<1>5. QED
  BY <1>3, <1>4

\* What an insertion does, whether it fails or not.
Inserted(S, c, new, o) ==
  /\ o.conn \in Conn(S) /\ o.ret \in {0, 1}
  /\ \E k \in 0 .. Len(new) : o.conn.rows = c.rows \o SubSeq(new, 1, k)
  /\ o.ret = 0 => ~c.tx /\ ~o.conn.tx /\ o.conn.rows = c.rows \o new

\* The outcomes of an insertion: some of the rows are added, all when it
\* succeeds.
LEMMA InsertionFacts ==
  ASSUME NEW S, NEW c \in Conn(S), NEW new \in Seq(S), new # <<>>, NEW o \in Insertions(c, new)
  PROVE  Inserted(S, c, new, o)
<1> USE DEF Inserted
<1>1. /\ c.rows \in Seq(S) /\ c.tx \in BOOLEAN /\ c.pend \in Seq(S)
      /\ c = [rows |-> c.rows, tx |-> c.tx, pend |-> c.pend]
  BY DEF Conn
<1>2. Len(new) \in Nat \ {0}
  BY EmptySeq
<1>3. c.rows \o SubSeq(new, 1, 0) = c.rows /\ 0 \in 0 .. Len(new)
  <2>1. SubSeq(new, 1, 0) = <<>>
    BY SubSeqEmpty
  <2>2. QED
    BY <1>1, <1>2, <2>1, ConcatEmptySeq
<1>4. CASE o = [conn |-> c, ret |-> 1]
  <2>1. o.conn = c /\ o.ret = 1
    BY <1>4
  <2>2. o.conn.rows = c.rows \o SubSeq(new, 1, 0)
    BY <1>3, <2>1
  <2>3. \E k \in 0 .. Len(new) : o.conn.rows = c.rows \o SubSeq(new, 1, k)
    BY <1>3, <2>2
  <2>4. o.conn \in Conn(S) /\ o.ret \in {0, 1} /\ o.ret # 0
    BY <2>1
  <2>5. QED
    BY <2>3, <2>4
<1>5. CASE o = [conn |-> InsertDone(c, new), ret |-> 0] /\ ~c.tx
  <2>1. InsertDone(c, new) = [rows |-> c.rows \o new, tx |-> c.tx, pend |-> c.pend]
    <3> DEFINE more == c.rows \o new
    <3>1. InsertDone(c, new) = [c EXCEPT !.rows = more]
      BY DEF InsertDone
    <3> HIDE DEF more
    <3>2. [c EXCEPT !.rows = more] = [rows |-> more, tx |-> c.tx, pend |-> c.pend]
      BY <1>1
    <3>3. QED
      BY <3>1, <3>2 DEF more
  <2>2. c.rows \o new \in Seq(S)
    BY <1>1, ConcatProperties
  <2>3. SubSeq(new, 1, Len(new)) = new
    BY SubSeqFull
  <2>4. o.conn \in Conn(S) /\ o.ret = 0 /\ ~o.conn.tx /\ o.conn.rows = c.rows \o new
    BY <1>1, <1>5, <2>1, <2>2 DEF Conn
  <2>5. Len(new) \in 0 .. Len(new)
    BY <1>2
  <2>6. o.conn.rows = c.rows \o SubSeq(new, 1, Len(new))
    BY <2>3, <2>4
  <2>7. QED
    BY <1>5, <2>4, <2>5, <2>6
<1>6. ASSUME NEW f \in InsertFailures(Len(new)), o = [conn |-> InsertFailed(c, new, f), ret |-> 1]
      PROVE  /\ o.conn \in Conn(S) /\ o.ret = 1
             /\ \E k \in 0 .. Len(new) : o.conn.rows = c.rows \o SubSeq(new, 1, k)
  <2>1. CASE f.at = "begin"
    <3>1. o.conn = c /\ o.ret = 1
      BY <1>6, <2>1 DEF InsertFailed
    <3>2. QED
      BY <1>3, <3>1
  <2>2. CASE f.at # "begin"
    <3>1. Kept(f) \in 0 .. f.row /\ f.row \in 0 .. Len(new) /\ f.undone \in BOOLEAN
      <4>1. f.undone \in BOOLEAN
        BY DEF InsertFailures
      <4>2. QED
        BY <1>2, <2>2, <4>1, KeptRows
    <3> DEFINE kept == Kept(f)
    <3> HIDE DEF kept
    <3>2. kept \in 0 .. f.row /\ kept \in 0 .. Len(new) /\ kept + 1 \in 1 .. Len(new) + 1
      BY <1>2, <3>1 DEF kept
    <3>3. SubSeq(new, 1, kept) \in Seq(S) /\ SubSeq(new, kept + 1, f.row) \in Seq(S)
      <4>1. 1 \in 1 .. Len(new) + 1 /\ kept \in 1 - 1 .. Len(new)
            /\ f.row \in (kept + 1) - 1 .. Len(new)
        BY <1>2, <3>1, <3>2
      <4>2. QED
        BY <1>2, <3>2, <4>1, SubSeqProperties
    <3>4. c.rows \o SubSeq(new, 1, kept) \in Seq(S)
      BY <1>1, <3>3, ConcatProperties
    <3> DEFINE more == c.rows \o SubSeq(new, 1, kept)
    <3>5. o.conn = [rows |-> more, tx |-> ~f.undone,
                    pend |-> IF f.undone THEN <<>> ELSE SubSeq(new, kept + 1, f.row)]
      BY <1>6, <2>2 DEF InsertFailed, kept
    <3> HIDE DEF more
    <3>6. o.conn \in Conn(S)
      BY <3>1, <3>3, <3>4, <3>5, EmptySeq DEF Conn, more
    <3>7. o.conn.rows = more
      BY <3>5
    <3>8. o.ret = 1
      BY <1>6
    <3>9. QED
      BY <3>2, <3>6, <3>7, <3>8 DEF more
  <2>3. QED
    BY <2>1, <2>2
<1>7. \/ o = [conn |-> c, ret |-> 1]
      \/ o = [conn |-> InsertDone(c, new), ret |-> 0] /\ ~c.tx
      \/ \E f \in InsertFailures(Len(new)) : o = [conn |-> InsertFailed(c, new, f), ret |-> 1]
  BY DEF Insertions
<1>8. CASE \E f \in InsertFailures(Len(new)) : o = [conn |-> InsertFailed(c, new, f), ret |-> 1]
  <2>1. /\ o.conn \in Conn(S) /\ o.ret = 1
        /\ \E k \in 0 .. Len(new) : o.conn.rows = c.rows \o SubSeq(new, 1, k)
    BY <1>6, <1>8
  <2>2. o.ret \in {0, 1} /\ o.ret # 0
    BY <2>1
  <2>3. QED
    BY <2>1, <2>2
<1>9. QED
  BY <1>4, <1>5, <1>7, <1>8

\* The outcomes of a deletion: the rows that are kept, or all of them.
LEMMA DeletionFacts ==
  ASSUME NEW S, NEW c \in Conn(S), NEW keep, NEW o \in Deletions(c, keep)
  PROVE  /\ o.conn \in Conn(S) /\ o.ret \in {0, 1} /\ o.conn.tx = c.tx
         /\ o.conn.rows \in {c.rows, Only(c.rows, keep)}
<1>1. /\ c.rows \in Seq(S) /\ c.tx \in BOOLEAN /\ c.pend \in Seq(S)
      /\ c = [rows |-> c.rows, tx |-> c.tx, pend |-> c.pend]
  BY DEF Conn
<1>2. Only(c.rows, keep) \in Seq(S)
  BY <1>1, OnlyType
<1>3. CASE o = [conn |-> c, ret |-> 1]
  BY <1>3
<1>4. CASE o = [conn |-> [c EXCEPT !.rows = Only(@, keep)], ret |-> 0]
  <2>1. o.conn = [rows |-> Only(c.rows, keep), tx |-> c.tx, pend |-> c.pend]
    BY <1>1, <1>4
  <2>2. QED
    BY <1>1, <1>2, <1>4, <2>1 DEF Conn
<1>5. QED
  BY <1>3, <1>4 DEF Deletions

-----------------------------------------------------------------------------
(* The steps of the tasks.                                                   *)

\* As long as none has failed, the call before did not fail either.
LEMMA FailingFacts ==
  ASSUME StoreInv, NEW ret \in {0, 1}, Failing(ret)
  PROVE  failures' \in 0 .. MaxStoreFailures /\ (failures' = 0 => failures = 0 /\ ~biz.tx /\ ret = 0)
<1>1. failures \in 0 .. MaxStoreFailures /\ MaxStoreFailures \in Nat /\ (failures = 0 => ~biz.tx)
  BY StoreConstants DEF StoreInv, StoreTypeOK
<1>2. CASE ret = 1 /\ ~biz.tx
  <2>1. failures < MaxStoreFailures /\ failures' = failures + 1
    BY <1>2 DEF Failing
  <2>2. QED
    BY <1>1, <2>1
<1>3. CASE ~(ret = 1 /\ ~biz.tx)
  <2>1. failures' = failures
    BY <1>3 DEF Failing
  <2>2. QED
    BY <1>1, <1>3, <2>1
<1>4. QED
  BY <1>2, <1>3

\* Rows that may be stored now.
Present(new) ==
  /\ new \in Seq(Row)
  /\ \A i \in 1 .. Len(new) :
       /\ new[i].at = now /\ new[i].run = run
       /\ new[i].table = "faults" => new[i].point \in Range(FaultPoints)
       /\ new[i].table = "events" => new[i].point \in Range(EventPoints)

\* An insertion keeps the rows, and adds all of the new ones unless it fails.
LEMMA InsertIntoFacts ==
  ASSUME StoreInv, NEW new, Present(new), InsertInto(new)
  PROVE  /\ biz' \in Conn(Row) /\ RowsInv(biz'.rows) /\ failures' \in 0 .. MaxStoreFailures
         /\ \E more \in Seq(Row) : biz'.rows = biz.rows \o more
         /\ failures' = 0 => failures = 0 /\ ~biz'.tx /\ biz'.rows = biz.rows \o new
<1>1. /\ biz \in Conn(Row) /\ biz.rows \in Seq(Row) /\ RowsInv(biz.rows) /\ new \in Seq(Row)
      /\ failures \in 0 .. MaxStoreFailures /\ now \in Nat /\ run \in Nat /\ (failures = 0 => ~biz.tx)
  BY StoreConstants DEF StoreInv, StoreTypeOK, Conn, Present
<1>2. CASE new = <<>>
  <2>1. biz' = biz /\ failures' = failures
    BY <1>2 DEF InsertInto
  <2>2. biz.rows \o <<>> = biz.rows /\ <<>> \in Seq(Row)
    BY <1>1, ConcatEmptySeq, EmptySeq
  <2>3. biz'.rows = biz.rows \o new
    BY <1>2, <2>1, <2>2
  <2>4. QED
    BY <1>1, <2>1, <2>3
<1>3. CASE new # <<>>
  <2>1. PICK o \in Insertions(biz, new) : biz' = o.conn /\ Failing(o.ret)
    BY <1>3 DEF InsertInto
  <2>2. /\ o.conn \in Conn(Row) /\ o.ret \in {0, 1}
        /\ \E k \in 0 .. Len(new) : o.conn.rows = biz.rows \o SubSeq(new, 1, k)
        /\ o.ret = 0 => ~biz.tx /\ ~o.conn.tx /\ o.conn.rows = biz.rows \o new
    <3>1. biz \in Conn(Row) /\ new \in Seq(Row) /\ new # <<>> /\ o \in Insertions(biz, new)
      BY <1>1, <1>3
    <3>2. Inserted(Row, biz, new, o)
      BY ONLY <3>1, InsertionFacts
    <3>3. QED
      BY <3>2 DEF Inserted
  <2>3. failures' \in 0 .. MaxStoreFailures /\ (failures' = 0 => failures = 0 /\ ~biz.tx /\ o.ret = 0)
    BY <2>1, <2>2, FailingFacts
  <2>4. PICK k \in 0 .. Len(new) : o.conn.rows = biz.rows \o SubSeq(new, 1, k)
    BY <2>2
  <2> DEFINE more == SubSeq(new, 1, k)
  <2>5. /\ more \in Seq(Row) /\ Len(more) = k
        /\ \A i \in 1 .. Len(more) : i \in 1 .. Len(new) /\ more[i] = new[i]
    <3>1. Len(new) \in Nat /\ 1 \in 1 .. Len(new) + 1 /\ k \in 1 - 1 .. Len(new) /\ k \in Nat
      BY <1>1
    <3>2. /\ more \in Seq(Row) /\ Len(more) = IF 1 <= k THEN k - 1 + 1 ELSE 0
          /\ \A i \in 1 .. k - 1 + 1 : more[i] = new[1 + i - 1]
      BY <1>1, <3>1, SubSeqProperties
    <3>3. Len(more) = k
      BY <3>1, <3>2
    <3>4. \A i \in 1 .. k : i \in 1 .. k - 1 + 1 /\ 1 + i - 1 = i /\ i \in 1 .. Len(new)
      BY <3>1
    <3>5. QED
      BY <3>2, <3>3, <3>4
  <2> HIDE DEF more
  <2>6. RowsInv(biz.rows \o more)
    BY <1>1, <2>5, RowsInvConcat DEF Present
  <2>7. biz'.rows = biz.rows \o more
    BY <2>1, <2>4 DEF more
  <2>8. biz' \in Conn(Row) /\ RowsInv(biz'.rows)
    BY <2>1, <2>2, <2>6, <2>7
  <2>9. failures' = 0 => failures = 0 /\ ~biz'.tx /\ biz'.rows = biz.rows \o new
    BY <2>1, <2>2, <2>3
  <2>10. QED
    BY <2>3, <2>5, <2>7, <2>8, <2>9
<1>4. QED
  BY <1>2, <1>3

\* Each table has its own insertion, and all insert alike.
LEMMA InsertTableFacts ==
  ASSUME NEW t \in {"timed", "faults", "events", "record"}, NEW new, InsertTable(t, new)
  PROVE  InsertInto(new)
<1>1. CASE t = "timed"
  BY <1>1 DEF InsertTable, kit_insert_timed_data
<1>2. CASE t = "faults"
  BY <1>2 DEF InsertTable, kit_insert_faults_data
<1>3. CASE t = "events"
  BY <1>3 DEF InsertTable, kit_insert_events_data
<1>4. CASE t = "record"
  BY <1>4 DEF InsertTable, kit_insert_record_data
<1>5. QED
  BY <1>1, <1>2, <1>3, <1>4

\* A new row is a row.
LEMMA NewRowFacts ==
  ASSUME StoreInv, NEW t \in {"timed", "faults", "events", "record"},
         NEW p \in ChangePoints \cup Range(TimedPoints), NEW v \in Values \cup {Unknown}
  PROVE  /\ NewRow(t, p, v) \in Row /\ NewRow(t, p, v).table = t /\ NewRow(t, p, v).point = p
         /\ NewRow(t, p, v).value = v /\ NewRow(t, p, v).at = now /\ NewRow(t, p, v).run = run
BY DEF NewRow, Row, StoreInv, StoreTypeOK

\* The rows of timed points and of records.
LEMMA SavePointsFacts ==
  ASSUME StoreInv, NEW t \in {"timed", "record"}, SavePoints(t)
  PROVE  /\ biz' \in Conn(Row) /\ RowsInv(biz'.rows) /\ failures' \in 0 .. MaxStoreFailures
         /\ \E more \in Seq(Row) : biz'.rows = biz.rows \o more
         /\ failures' = 0 => failures = 0 /\ ~biz'.tx /\ StoredOnce(biz'.rows, last)
<1> DEFINE new == [i \in DOMAIN TimedPoints |-> NewRow(t, TimedPoints[i], Unknown)]
<1>1. InsertInto(new)
  BY InsertTableFacts DEF SavePoints
<1>2. /\ TimedPoints \in Seq(Range(TimedPoints)) /\ DOMAIN TimedPoints = 1 .. Len(TimedPoints)
      /\ Len(TimedPoints) \in Nat
  BY StoreAssumption
<1>3. ASSUME NEW i \in DOMAIN TimedPoints
      PROVE  /\ new[i] \in Row /\ new[i].table = t /\ new[i].at = now /\ new[i].run = run
  <2>1. TimedPoints[i] \in ChangePoints \cup Range(TimedPoints)
    BY DEF Range
  <2>2. new[i] = NewRow(t, TimedPoints[i], Unknown)
    OBVIOUS
  <2>3. QED
    BY <2>1, <2>2, NewRowFacts
<1>4. DOMAIN new = 1 .. Len(TimedPoints) /\ new = [i \in 1 .. Len(TimedPoints) |-> new[i]]
  BY <1>2
<1> HIDE DEF new
<1>5. new \in [1 .. Len(TimedPoints) -> Row]
  BY <1>2, <1>3, <1>4
<1>6. new \in Seq(Row) /\ Len(new) = Len(TimedPoints)
  BY <1>2, <1>4, <1>5, SeqDef
<1>7. Present(new) /\ \A i \in 1 .. Len(new) : new[i].table \notin {"faults", "events"}
  BY <1>2, <1>3, <1>6 DEF Present
<1>8. /\ biz' \in Conn(Row) /\ RowsInv(biz'.rows) /\ failures' \in 0 .. MaxStoreFailures
      /\ \E more \in Seq(Row) : biz'.rows = biz.rows \o more
      /\ failures' = 0 => failures = 0 /\ ~biz'.tx /\ biz'.rows = biz.rows \o new
  BY <1>1, <1>7, InsertIntoFacts
<1>9. ASSUME failures' = 0
      PROVE  StoredOnce(biz'.rows, last)
  <2>1. StoredOnce(biz.rows, last) /\ biz.rows \in Seq(Row)
    BY <1>8, <1>9 DEF StoreInv, RowsInv
  <2>2. StoredOnce(biz.rows \o new, last)
    BY <1>6, <1>7, <2>1, StoredOnceTimed
  <2>3. QED
    BY <1>8, <1>9, <2>2
<1>10. QED
  BY <1>8, <1>9

\* The points that changed, their rows, and what is known afterwards.
Changes(points, rtdb) == Only(points, {p \in Range(points) : rtdb[p] # last[p]})
ChangeRows(t, points, rtdb) ==
  [i \in DOMAIN Changes(points, rtdb) |->
     NewRow(t, Changes(points, rtdb)[i], rtdb[Changes(points, rtdb)[i]])]
Noted(rtdb) == [p \in ChangePoints |-> IF p \in DOMAIN rtdb THEN rtdb[p] ELSE last[p]]
RowsAre(new, t, points) ==
  /\ new \in Seq(Row) /\ Len(new) \in Nat
  /\ \A i \in 1 .. Len(new) : /\ new[i].table = t /\ new[i].point \in points
                              /\ new[i].at = now /\ new[i].run = run

\* The changes of one array: those of its points whose value is another than
\* the one known are stored, and all are noted.
LEMMA StoredOnceChanges ==
  ASSUME StoreInv, NEW t \in {"faults", "events"}, NEW points \in {FaultPoints, EventPoints},
         NEW rtdb \in [Range(points) -> Values]
  PROVE  /\ RowsAre(ChangeRows(t, points, rtdb), t, Range(points))
         /\ StoredOnce(biz.rows, last)
              => StoredOnce(biz.rows \o ChangeRows(t, points, rtdb), Noted(rtdb))
<1> DEFINE P == Range(points)
           changed == Changes(points, rtdb)
           new == ChangeRows(t, points, rtdb)
           known == Noted(rtdb)
           K == {p \in P : rtdb[p] # last[p]}
           R == {pair \in P \X P : pair[1] # pair[2]}
<1>1. /\ points \in Seq(P) /\ Len(points) \in Nat /\ DOMAIN points = 1 .. Len(points)
      /\ \A i, j \in 1 .. Len(points) : i < j => points[i] # points[j]
      /\ P \subseteq ChangePoints /\ \A i \in 1 .. Len(points) : points[i] \in P
      /\ \A p \in P : \E i \in 1 .. Len(points) : points[i] = p
  <2>1. /\ FaultPoints \in Seq(Range(FaultPoints)) /\ EventPoints \in Seq(Range(EventPoints))
        /\ IsInjective(FaultPoints) /\ IsInjective(EventPoints)
    BY StoreAssumption
  <2>2. points \in Seq(P) /\ IsInjective(points)
    BY <2>1
  <2>3. Len(points) \in Nat /\ DOMAIN points = 1 .. Len(points)
    BY <2>2
  <2>4. \A i, j \in 1 .. Len(points) : i < j => points[i] # points[j]
    BY <2>2, <2>3 DEF IsInjective
  <2>5. P \subseteq ChangePoints
    BY DEF ChangePoints
  <2>6. QED
    BY <2>2, <2>3, <2>4, <2>5 DEF Range
<1>2. /\ biz.rows \in Seq(Row) /\ now \in Nat /\ run \in Nat
      /\ last \in [ChangePoints -> Values \cup {Unknown}] /\ DOMAIN rtdb = P
  BY StoreConstants DEF StoreInv, StoreTypeOK, RowsInv
<1>3. changed = Only(points, K)
  BY DEF Changes
<1>4. new = [i \in DOMAIN changed |-> NewRow(t, changed[i], rtdb[changed[i]])]
  BY DEF ChangeRows
<1> HIDE DEF P, K, changed, new, known
<1>5. /\ changed \in Seq(P) /\ Len(changed) \in Nat /\ DOMAIN changed = 1 .. Len(changed)
      /\ \A i \in 1 .. Len(changed) : changed[i] \in K /\ changed[i] \in P
  <2>1. changed \in Seq(P) /\ \A i \in 1 .. Len(changed) : changed[i] \in K
    BY <1>1, <1>3, OnlyType
  <2>2. QED
    BY <2>1, ElementOfSeq
<1>6. \A i, j \in 1 .. Len(changed) : changed[i] = changed[j] => i = j
  <2>1. \A i, j \in 1 .. Len(points) : i < j => <<points[i], points[j]>> \in R
    BY <1>1
  <2> HIDE DEF R
  <2>2. \A i, j \in 1 .. Len(changed) : i < j => <<changed[i], changed[j]>> \in R
    BY <1>1, <1>3, <2>1, OnlyOrdered
  <2>3. \A i, j \in 1 .. Len(changed) : i < j => changed[i] # changed[j]
    BY <2>2 DEF R
  <2>4. QED
    BY <1>5, <2>3
<1>7. ASSUME NEW p \in P, rtdb[p] # last[p]
      PROVE  \E i \in 1 .. Len(changed) : changed[i] = p
  <2>1. PICK i \in 1 .. Len(points) : points[i] = p
    BY <1>1
  <2>2. points[i] \in K
    BY <1>7, <2>1 DEF K
  <2>3. QED
    BY <1>1, <1>3, <2>1, <2>2, OnlyComplete
<1>8. ASSUME NEW i \in 1 .. Len(changed)
      PROVE  /\ new[i] \in Row /\ new[i].table = t /\ new[i].point = changed[i]
             /\ new[i].value = rtdb[changed[i]] /\ new[i].at = now /\ new[i].run = run
  <2>1. new[i] = NewRow(t, changed[i], rtdb[changed[i]])
    BY <1>4, <1>5
  <2>2. changed[i] \in ChangePoints \cup Range(TimedPoints)
    BY <1>1, <1>5
  <2>3. rtdb[changed[i]] \in Values \cup {Unknown}
    BY <1>5 DEF P
  <2>4. t \in {"timed", "faults", "events", "record"}
    OBVIOUS
  <2>5. QED
    BY <2>1, <2>2, <2>3, <2>4, NewRowFacts
<1>9. new \in Seq(Row) /\ Len(new) = Len(changed)
  <2>1. DOMAIN new = 1 .. Len(changed) /\ new = [i \in 1 .. Len(changed) |-> new[i]]
    BY <1>4, <1>5
  <2>2. new \in [1 .. Len(changed) -> Row]
    BY <1>8, <2>1
  <2>3. QED
    BY <1>5, <2>1, <2>2, SeqDef
<1>10. \A i \in 1 .. Len(new) : /\ new[i].table = t /\ new[i].point \in P
                               /\ new[i].at = now /\ new[i].run = run
  BY <1>5, <1>8, <1>9
<1>11. ASSUME StoredOnce(biz.rows, last), NEW p \in ChangePoints, NEW r \in 1 .. run
       PROVE  /\ Differ(Only(biz.rows \o new, About(p, r)))
              /\ r = run => Ends(Only(biz.rows \o new, About(p, r)), known[p])
  <2> DEFINE s == Only(biz.rows, About(p, r))
             more == Only(new, About(p, r))
  <2>1. Only(biz.rows \o new, About(p, r)) = s \o more /\ s \in Seq(Row) /\ more \in Seq(Row)
    BY <1>2, <1>9, OnlyConcat, OnlyType
  <2>2. Differ(s) /\ (r = run => Ends(s, last[p]))
    BY <1>11 DEF StoredOnce
  <2>3. ASSUME NEW i \in 1 .. Len(new), new[i] \in About(p, r)
        PROVE  r = run /\ p = changed[i] /\ p \in P /\ i \in 1 .. Len(changed)
    BY <1>5, <1>8, <1>9, <2>3 DEF About
  <2>4. CASE \E i \in 1 .. Len(new) : new[i] \in About(p, r)
    <3>1. PICK i \in 1 .. Len(new) : new[i] \in About(p, r)
      BY <2>4
    <3>2. r = run /\ p = changed[i] /\ p \in P /\ i \in 1 .. Len(changed)
      BY <2>3, <3>1
    <3>3. \A j \in 1 .. Len(new) : new[j] \in About(p, r) => j = i
      BY <1>6, <2>3, <3>2
    <3>4. more = <<new[i]>>
      BY <1>9, <3>1, <3>3, OnlyOne
    <3>5. new[i] \in Row /\ new[i].value = rtdb[p] /\ rtdb[p] # last[p]
      <4>1. new[i] \in Row /\ new[i].value = rtdb[p]
        BY <1>8, <3>2
      <4>2. p \in K
        BY <1>5, <3>2
      <4>3. QED
        BY <4>1, <4>2 DEF K
    <3>6. known[p] = rtdb[p]
      BY <1>2, <3>2 DEF known, Noted
    <3> HIDE DEF s, more
    <3>7. Differ(s \o <<new[i]>>) /\ Ends(s \o <<new[i]>>, new[i].value)
      BY <2>1, <2>2, <3>2, <3>5, OneMore
    <3>8. QED
      BY <2>1, <3>4, <3>5, <3>6, <3>7
  <2>5. CASE ~ \E i \in 1 .. Len(new) : new[i] \in About(p, r)
    <3>1. more = <<>>
      BY <1>9, <2>5, OnlyNone
    <3>2. s \o more = s
      BY <2>1, <3>1, ConcatEmptySeq
    <3>3. r = run => known[p] = last[p]
      <4> SUFFICES ASSUME r = run, known[p] # last[p]
                   PROVE  FALSE
        OBVIOUS
      <4>1. p \in P /\ rtdb[p] # last[p]
        BY <1>2 DEF known, Noted
      <4>2. PICK i \in 1 .. Len(changed) : changed[i] = p
        BY <1>7, <4>1
      <4>3. new[i] \in Row /\ new[i].table = t /\ new[i].point = p /\ new[i].run = r
        BY <1>8, <4>2
      <4>4. new[i] \in About(p, r) /\ i \in 1 .. Len(new)
        BY <1>9, <4>3 DEF About
      <4>5. QED
        BY <2>5, <4>4
    <3>4. QED
      BY <2>1, <2>2, <3>2, <3>3
  <2>6. QED
    BY <2>4, <2>5
<1>12. StoredOnce(biz.rows, last) => StoredOnce(biz.rows \o new, known)
  BY <1>11 DEF StoredOnce
<1>13. RowsAre(new, t, P)
  BY <1>5, <1>9, <1>10 DEF RowsAre
<1>14. QED
  BY <1>12, <1>13 DEF P, new, known

\* The changes of one array are stored and noted.
LEMMA SaveChangesFacts ==
  ASSUME StoreInv,
         NEW t \in {"faults", "events"},
         NEW points, points = IF t = "faults" THEN FaultPoints ELSE EventPoints,
         SaveChanges(t, points)
  PROVE  /\ biz' \in Conn(Row) /\ RowsInv(biz'.rows) /\ failures' \in 0 .. MaxStoreFailures
         /\ last' \in [ChangePoints -> Values \cup {Unknown}]
         /\ \E more \in Seq(Row) : biz'.rows = biz.rows \o more
         /\ failures' = 0 => failures = 0 /\ ~biz'.tx /\ StoredOnce(biz'.rows, last')
<1>1. points \in {FaultPoints, EventPoints}
  OBVIOUS
<1>2. PICK rtdb \in [Range(points) -> Values] :
        last' = Noted(rtdb) /\ InsertTable(t, ChangeRows(t, points, rtdb))
  BY DEF SaveChanges, Noted, ChangeRows, Changes
<1> DEFINE new == ChangeRows(t, points, rtdb)
<1>3. /\ RowsAre(new, t, Range(points))
      /\ StoredOnce(biz.rows, last) => StoredOnce(biz.rows \o new, Noted(rtdb))
  BY <1>1, StoredOnceChanges
<1> HIDE DEF new
<1>4. InsertInto(new)
  <2>1. t \in {"timed", "faults", "events", "record"} /\ InsertTable(t, new)
    BY <1>2 DEF new
  <2>2. QED
    BY ONLY <2>1, InsertTableFacts
<1>5. Present(new)
  <2>1. /\ new \in Seq(Row)
        /\ \A i \in 1 .. Len(new) : /\ new[i].table = t /\ new[i].point \in Range(points)
                                    /\ new[i].at = now /\ new[i].run = run
    BY <1>3 DEF RowsAre
  <2>2. \A i \in 1 .. Len(new) : /\ new[i].table = "faults" => new[i].point \in Range(FaultPoints)
                                 /\ new[i].table = "events" => new[i].point \in Range(EventPoints)
    <3>1. CASE t = "faults"
      BY <2>1, <3>1
    <3>2. CASE t = "events"
      BY <2>1, <3>2
    <3>3. QED
      BY <3>1, <3>2
  <2>3. QED
    BY <2>1, <2>2 DEF Present
<1>6. /\ biz' \in Conn(Row) /\ RowsInv(biz'.rows) /\ failures' \in 0 .. MaxStoreFailures
      /\ \E more \in Seq(Row) : biz'.rows = biz.rows \o more
      /\ failures' = 0 => failures = 0 /\ ~biz'.tx /\ biz'.rows = biz.rows \o new
  BY <1>4, <1>5, InsertIntoFacts
<1>7. last' \in [ChangePoints -> Values \cup {Unknown}]
  <2>1. last \in [ChangePoints -> Values \cup {Unknown}]
    BY DEF StoreInv, StoreTypeOK
  <2>2. QED
    BY <1>2, <2>1 DEF Noted
<1>8. ASSUME failures' = 0
      PROVE  StoredOnce(biz'.rows, last')
  <2>1. StoredOnce(biz.rows, last) /\ biz'.rows = biz.rows \o new
    BY <1>6, <1>8 DEF StoreInv
  <2>2. StoredOnce(biz.rows \o new, Noted(rtdb))
    BY <1>3, <2>1
  <2>3. QED
    BY <1>2, <2>1, <2>2
<1>9. QED
  BY <1>6, <1>7, <1>8

\* A deletion of expired rows of one table.
LEMMA DeleteFacts ==
  ASSUME StoreTypeOK, NEW t \in {"timed", "faults", "events", "record"},
         NEW c \in Conn(Row), RowsInv(c.rows), NEW o \in DeleteFrom(t, c)
  PROVE  /\ o.conn \in Conn(Row) /\ o.ret \in {0, 1} /\ o.conn.tx = c.tx
         /\ RowsInv(o.conn.rows)
         /\ StoredOnce(c.rows, last) => StoredOnce(o.conn.rows, last)
<1> DEFINE keep == {row \in Row : row.table # t \/ ~Expired(row)}
<1>1. o \in Deletions(c, keep)
  BY DEF DeleteFrom
<1>2. StoredOnce(c.rows, last) => StoredOnce(Only(c.rows, keep), last)
  BY StoredOnceDelete
<1> HIDE DEF keep
<1>3. /\ o.conn \in Conn(Row) /\ o.ret \in {0, 1} /\ o.conn.tx = c.tx
      /\ o.conn.rows \in {c.rows, Only(c.rows, keep)}
  BY <1>1, DeletionFacts
<1>4. RowsInv(Only(c.rows, keep))
  BY RowsInvOnly
<1>5. QED
  BY <1>2, <1>3, <1>4

\* The three deletions of a day, and the one of the records.
LEMMA DeleteStepFacts ==
  ASSUME StoreInv, delDbBusDataInterval \/ delRecordDataInterval
  PROVE  /\ biz' \in Conn(Row) /\ RowsInv(biz'.rows) /\ failures' \in 0 .. MaxStoreFailures
         /\ failures' = 0 => failures = 0 /\ ~biz'.tx /\ StoredOnce(biz'.rows, last)
<1>1. /\ StoreTypeOK /\ biz \in Conn(Row) /\ RowsInv(biz.rows)
      /\ failures = 0 => ~biz.tx /\ StoredOnce(biz.rows, last)
  BY DEF StoreInv, StoreTypeOK
<1>2. CASE delDbBusDataInterval
  <2>1. PICK t \in DeleteFrom("timed", biz) :
          \E f \in DeleteFrom("faults", t.conn) : \E e \in DeleteFrom("events", f.conn) :
            biz' = e.conn /\ Failing(IF <<t.ret, f.ret, e.ret>> = <<0, 0, 0>> THEN 0 ELSE 1)
    BY <1>2 DEF delDbBusDataInterval, kit_del_timed_data_by_date, kit_del_faults_data_by_date,
                kit_del_events_data_by_date
  <2>2. PICK f \in DeleteFrom("faults", t.conn) : \E e \in DeleteFrom("events", f.conn) :
            biz' = e.conn /\ Failing(IF <<t.ret, f.ret, e.ret>> = <<0, 0, 0>> THEN 0 ELSE 1)
    BY <2>1
  <2>3. PICK e \in DeleteFrom("events", f.conn) :
            biz' = e.conn /\ Failing(IF <<t.ret, f.ret, e.ret>> = <<0, 0, 0>> THEN 0 ELSE 1)
    BY <2>2
  <2>4. /\ t.conn \in Conn(Row) /\ t.conn.tx = biz.tx /\ RowsInv(t.conn.rows)
        /\ StoredOnce(biz.rows, last) => StoredOnce(t.conn.rows, last)
    BY <1>1, DeleteFacts
  <2>5. /\ f.conn \in Conn(Row) /\ f.conn.tx = t.conn.tx /\ RowsInv(f.conn.rows)
        /\ StoredOnce(t.conn.rows, last) => StoredOnce(f.conn.rows, last)
    BY <1>1, <2>4, DeleteFacts
  <2>6. /\ e.conn \in Conn(Row) /\ e.conn.tx = f.conn.tx /\ RowsInv(e.conn.rows)
        /\ StoredOnce(f.conn.rows, last) => StoredOnce(e.conn.rows, last)
    BY <1>1, <2>5, DeleteFacts
  <2>7. PICK ret \in {0, 1} : Failing(ret)
    BY <2>3
  <2>8. failures' \in 0 .. MaxStoreFailures /\ (failures' = 0 => failures = 0 /\ ~biz.tx)
    BY <2>7, FailingFacts
  <2>9. QED
    BY <1>1, <2>3, <2>4, <2>5, <2>6, <2>8
<1>3. CASE delRecordDataInterval
  <2>1. PICK o \in DeleteFrom("record", biz) : biz' = o.conn /\ Failing(o.ret)
    BY <1>3 DEF delRecordDataInterval, kit_del_record_data_by_date
  <2>2. /\ o.conn \in Conn(Row) /\ o.ret \in {0, 1} /\ o.conn.tx = biz.tx /\ RowsInv(o.conn.rows)
        /\ StoredOnce(biz.rows, last) => StoredOnce(o.conn.rows, last)
    BY <1>1, DeleteFacts
  <2>3. failures' \in 0 .. MaxStoreFailures /\ (failures' = 0 => failures = 0 /\ ~biz.tx)
    BY <2>1, <2>2, FailingFacts
  <2>4. QED
    BY <1>1, <2>1, <2>2, <2>3
<1>4. QED
  BY <1>2, <1>3

-----------------------------------------------------------------------------
(* The invariant.                                                            *)

\* What stays true when the clock and the run do not change.
LEMMA SameTime ==
  ASSUME now' = now, run' = run
  PROVE  /\ RowsInv(biz'.rows) => RowsInv(biz.rows)'
         /\ StoredOnce(biz'.rows, last') => StoredOnce(biz.rows, last)'
<1>1. RowsInv(biz'.rows) => RowsInv(biz.rows)'
  BY DEF RowsInv
<1>2. StoredOnce(biz'.rows, last') => StoredOnce(biz.rows, last)'
  BY DEF StoredOnce
<1>3. QED
  BY <1>1, <1>2

\* What is known of the copies stays while none is made and no configuration edited.
LEMMA SameBoot ==
  ASSUME BootInv, UNCHANGED <<boot, mirror, conf>>, failures' = 0 => failures = 0
  PROVE  BootInv'
BY DEF BootInv, Made

\* The four names of the copies differ.
LEMMA FourCopies ==
  /\ Len(Copies) = 4 /\ DOMAIN Copies = 1 .. 4 /\ Copies \in Seq(Range(Copies))
  /\ \A i \in 1 .. 4 : Copies[i] \in Range(Copies)
  /\ \A i, j \in 1 .. 4 : Copies[i] = Copies[j] => i = j
<1>1. Len(Copies) = 4 /\ DOMAIN Copies = 1 .. 4
  BY DEF Copies
<1>2. /\ Copies[1] = "device" /\ Copies[2] = "point"
      /\ Copies[3] = "record point" /\ Copies[4] = "record device"
  BY DEF Copies
<1>3. \A i \in 1 .. 4 : i = 1 \/ i = 2 \/ i = 3 \/ i = 4
  OBVIOUS
<1>4. \A i, j \in 1 .. 4 : Copies[i] = Copies[j] => i = j
  BY <1>2, <1>3
<1>5. \A i \in 1 .. 4 : Copies[i] \in Range(Copies)
  BY <1>1 DEF Range
<1>6. Copies = [i \in 1 .. 4 |-> Copies[i]]
  BY <1>1 DEF Copies
<1>7. Copies \in [1 .. 4 -> Range(Copies)]
  BY <1>5, <1>6
<1>8. Copies \in Seq(Range(Copies))
  BY <1>7, SeqDef
<1>9. QED
  BY <1>1, <1>4, <1>5, <1>8

\* The invariant holds when the firmware first starts.
LEMMA StoreInitInv ==
  ASSUME StoreInit
  PROVE  StoreInv
<1>1. /\ biz.rows = <<>> /\ ~biz.tx /\ biz \in Conn(Row)
  <2>1. biz = [rows |-> <<>>, tx |-> FALSE, pend |-> <<>>] /\ <<>> \in Seq(Row)
    BY EmptySeq DEF StoreInit, EmptyConn
  <2>2. QED
    BY <2>1 DEF Conn
<1>2. last \in [ChangePoints -> Values \cup {Unknown}]
  BY DEF StoreInit, FirstValues, kit_get_faults_config, kit_get_event_config, ChangePoints
<1>3. StoreTypeOK /\ conf \in 1 .. MaxConf
  BY <1>1, <1>2, StoreConstants DEF StoreInit, StoreTypeOK
<1>4. BootInv
  BY FourCopies DEF StoreInit, BootInv, Made
<1>5. RowsInv(biz.rows)
  BY <1>1, EmptySeq DEF RowsInv
<1>6. StoredOnce(biz.rows, last)
  <2>1. \A p, r : Only(biz.rows, About(p, r)) = <<>>
    BY <1>1, OnlyEmpty
  <2>2. Differ(<<>>)
    BY EmptySeq DEF Differ
  <2>3. QED
    BY <2>1, <2>2 DEF StoredOnce, Ends
<1>7. QED
  BY <1>1, <1>3, <1>4, <1>5, <1>6 DEF StoreInv

\* A copy is made, or fails.
LEMMA SyncTableInv ==
  ASSUME StoreInv, NEW t, SyncTable(t)
  PROVE  StoreInv'
<1> DEFINE n == Made
<1>1. /\ boot \in Seq(Range(Copies)) /\ boot # <<>> /\ boot' = Tail(boot) /\ Head(boot) = t
      /\ Len(boot) \in Nat \ {0} /\ Len(boot) <= 4 /\ n = 4 - Len(boot) /\ n \in 0 .. 3
  <2>1. boot \in Seq(Range(Copies)) /\ boot # <<>> /\ boot' = Tail(boot) /\ Head(boot) = t
          /\ Len(boot) <= 4
    BY DEF SyncTable, StoreInv, BootInv
  <2>2. Len(boot) \in Nat \ {0}
    BY <2>1, EmptySeq
  <2>3. n = 4 - Len(boot)
    BY DEF Made
  <2> HIDE DEF n
  <2>4. \A k \in Nat \ {0} : k <= 4 => 4 - k \in 0 .. 3
    OBVIOUS
  <2>5. n \in 0 .. 3
    BY <2>1, <2>2, <2>3, <2>4
  <2>6. QED
    BY <2>1, <2>2, <2>3, <2>5
<1>2. t = Copies[n + 1] /\ t \in Range(Copies)
  <2>1. t = boot[1] /\ 1 \in 1 .. Len(boot)
    BY <1>1
  <2>2. boot[1] = Copies[Made + 1]
    BY <2>1 DEF StoreInv, BootInv
  <2>3. n + 1 \in 1 .. 4
    BY <1>1
  <2>4. QED
    BY <2>1, <2>2, <2>3, FourCopies
<1>3. /\ boot' \in Seq(Range(Copies)) /\ Len(boot') = Len(boot) - 1 /\ Made' = n + 1
      /\ \A i \in 1 .. Len(boot') : boot'[i] = boot[i + 1]
  BY <1>1, HeadTailProperties DEF Made
<1>4. \A i \in 1 .. Len(boot') : boot'[i] = Copies[Made' + i]
  <2> SUFFICES ASSUME NEW i \in 1 .. Len(boot')
               PROVE  boot[i + 1] = Copies[(n + 1) + i]
    BY <1>3
  <2>1. i + 1 \in 1 .. Len(boot) /\ n + (i + 1) = (n + 1) + i
    BY <1>1, <1>3
  <2>2. QED
    BY <2>1 DEF StoreInv, BootInv
<1>5. /\ mirror \in [Range(Copies) -> [version : 0 .. MaxConf, rows : 0 .. ConfigRows]]
      /\ conf \in 1 .. MaxConf /\ MaxConf \in Nat /\ ConfigRows \in Nat
  BY StoreConstants DEF StoreInv, StoreTypeOK
<1>6. PICK ret \in {0, 1} :
        /\ Failing(ret)
        /\ IF ret = 0 THEN mirror' = [mirror EXCEPT ![t] = [version |-> conf, rows |-> ConfigRows]]
           ELSE \E k \in 0 .. ConfigRows - 1 :
                  mirror' \in {mirror, [mirror EXCEPT ![t] = [version |-> conf, rows |-> k]]}
  BY DEF SyncTable
<1>7. failures' \in 0 .. MaxStoreFailures /\ (failures' = 0 => failures = 0 /\ ~biz.tx /\ ret = 0)
  BY <1>6, FailingFacts
<1>8. mirror' \in [Range(Copies) -> [version : 0 .. MaxConf, rows : 0 .. ConfigRows]]
  <2>1. \A k \in 0 .. ConfigRows :
          [version |-> conf, rows |-> k] \in [version : 0 .. MaxConf, rows : 0 .. ConfigRows]
    BY <1>5
  <2>2. \E k \in 0 .. ConfigRows :
          mirror' \in {mirror, [mirror EXCEPT ![t] = [version |-> conf, rows |-> k]]}
    <3>1. CASE ret = 0
      <4>1. ConfigRows \in 0 .. ConfigRows
        BY <1>5
      <4>2. mirror' = [mirror EXCEPT ![t] = [version |-> conf, rows |-> ConfigRows]]
        BY <1>6, <3>1
      <4>3. QED
        BY <4>1, <4>2
    <3>2. CASE ret # 0
      <4>1. PICK k \in 0 .. ConfigRows - 1 :
              mirror' \in {mirror, [mirror EXCEPT ![t] = [version |-> conf, rows |-> k]]}
        BY <1>6, <3>2
      <4>2. k \in 0 .. ConfigRows
        BY <1>5
      <4>3. QED
        BY <4>1, <4>2
    <3>3. QED
      BY <3>1, <3>2
  <2>3. PICK k \in 0 .. ConfigRows :
          mirror' \in {mirror, [mirror EXCEPT ![t] = [version |-> conf, rows |-> k]]}
    BY <2>2
  <2>4. [mirror EXCEPT ![t] = [version |-> conf, rows |-> k]]
          \in [Range(Copies) -> [version : 0 .. MaxConf, rows : 0 .. ConfigRows]]
    BY <1>5, <2>1
  <2>5. QED
    BY <1>5, <2>3, <2>4
<1>9. ASSUME failures' = 0
      PROVE  /\ \A i \in 1 .. n + 1 : mirror'[Copies[i]].rows = ConfigRows
                                      /\ mirror'[Copies[i]].version <= conf
             /\ \A i, j \in 1 .. n + 1 : i < j
                  => mirror'[Copies[i]].version <= mirror'[Copies[j]].version
  <2>1. failures = 0 /\ mirror' = [mirror EXCEPT ![t] = [version |-> conf, rows |-> ConfigRows]]
    BY <1>6, <1>7, <1>9
  <2>2. /\ \A i \in 1 .. n : mirror[Copies[i]].rows = ConfigRows /\ mirror[Copies[i]].version <= conf
        /\ \A i, j \in 1 .. n : i < j => mirror[Copies[i]].version <= mirror[Copies[j]].version
    BY <2>1 DEF StoreInv, BootInv
  <2>3. \A i \in 1 .. n : mirror'[Copies[i]] = mirror[Copies[i]]
    <3>1. \A i \in 1 .. n : i \in 1 .. 4 /\ n + 1 \in 1 .. 4 /\ i # n + 1
      BY <1>1
    <3>2. \A i \in 1 .. n : Copies[i] \in Range(Copies) /\ Copies[i] # t
      BY <1>2, <3>1, FourCopies
    <3>3. QED
      BY <1>5, <2>1, <3>2
  <2>4. mirror'[Copies[n + 1]].rows = ConfigRows /\ mirror'[Copies[n + 1]].version = conf
    BY <1>2, <1>5, <2>1
  <2>5. \A i \in 1 .. n + 1 : i \in 1 .. n \/ i = n + 1
    BY <1>1
  <2>6. conf <= conf
    BY <1>5
  <2>7. \A i \in 1 .. n + 1 : mirror'[Copies[i]].rows = ConfigRows
          /\ mirror'[Copies[i]].version <= conf
    BY <2>2, <2>3, <2>4, <2>5, <2>6
  <2>8. ASSUME NEW i \in 1 .. n + 1, NEW j \in 1 .. n + 1, i < j
        PROVE  mirror'[Copies[i]].version <= mirror'[Copies[j]].version
    <3>1. i \in 1 .. n
      BY <1>1, <2>8
    <3>2. CASE j = n + 1
      BY <2>2, <2>3, <2>4, <3>1, <3>2
    <3>3. CASE j \in 1 .. n
      BY <2>2, <2>3, <2>8, <3>1, <3>3
    <3>4. QED
      BY <2>5, <3>2, <3>3
  <2>9. QED
    BY <2>7, <2>8
<1>10. UNCHANGED <<task, biz, conf, exeCount, now, last, run>>
  BY DEF SyncTable
<1>11. BootInv'
  <2>1. Len(boot') <= 4
    BY <1>1, <1>3
  <2> HIDE DEF n
  <2>2. QED
    BY <1>3, <1>4, <1>9, <1>10, <2>1 DEF BootInv
<1>12. StoreTypeOK'
  BY <1>7, <1>8, <1>10 DEF StoreInv, StoreTypeOK
<1>13. RowsInv(biz.rows)' /\ (StoredOnce(biz.rows, last) => StoredOnce(biz.rows, last)')
  BY <1>10, SameTime DEF StoreInv
<1>14. QED
  BY <1>7, <1>10, <1>11, <1>12, <1>13 DEF StoreInv

\* What an insertion or a deletion leaves to show.
LEMMA RowsStepInv ==
  ASSUME StoreInv, UNCHANGED <<task, mirror, conf, boot, exeCount, now, run>>,
         biz' \in Conn(Row), RowsInv(biz'.rows), failures' \in 0 .. MaxStoreFailures,
         last' \in [ChangePoints -> Values \cup {Unknown}],
         failures' = 0 => failures = 0 /\ ~biz'.tx /\ StoredOnce(biz'.rows, last')
  PROVE  StoreInv'
<1>1. StoreTypeOK' /\ (conf \in 1 .. MaxConf)'
  BY DEF StoreInv, StoreTypeOK
<1>2. BootInv'
  BY SameBoot DEF StoreInv
<1>3. RowsInv(biz.rows)' /\ (StoredOnce(biz'.rows, last') => StoredOnce(biz.rows, last)')
  BY SameTime
<1>4. (failures = 0 => ~biz.tx /\ StoredOnce(biz.rows, last))'
  BY <1>3
<1>5. QED
  BY <1>1, <1>2, <1>3, <1>4 DEF StoreInv

\* A cycle ends, or the configuration is edited: no row is touched.
LEMMA QuietStepInv ==
  ASSUME StoreInv, NextCycle \/ EditConfiguration
  PROVE  StoreInv'
<1>1. UNCHANGED <<task, biz, mirror, boot, last, run, failures>>
  BY DEF NextCycle, EditConfiguration
<1>2. /\ now \in Nat /\ now' \in 0 .. MaxNow /\ now <= now' /\ exeCount' \in 0 .. DayEvery - 1
      /\ conf' \in 1 .. MaxConf /\ conf <= conf'
  <2>1. /\ now \in 0 .. MaxNow /\ exeCount \in 0 .. DayEvery - 1 /\ conf \in 1 .. MaxConf
        /\ MaxNow \in Nat /\ DayEvery \in Nat \ {0} /\ MaxConf \in Nat
    BY StoreConstants DEF StoreInv, StoreTypeOK
  <2>2. CASE NextCycle
    <3>1. now' = now + 1 /\ now < MaxNow /\ conf' = conf /\ exeCount' = (exeCount + 1) % DayEvery
      BY <2>2 DEF NextCycle
    <3>2. \A k \in Nat, d \in Nat \ {0} : k % d \in 0 .. d - 1
      OBVIOUS
    <3>3. exeCount + 1 \in Nat
      BY <2>1
    <3>4. exeCount' \in 0 .. DayEvery - 1
      BY <2>1, <3>1, <3>2, <3>3
    <3>5. now \in Nat /\ now' \in 0 .. MaxNow /\ now <= now' /\ conf <= conf'
      BY <2>1, <3>1
    <3>6. QED
      BY <2>1, <3>1, <3>4, <3>5
  <2>3. CASE EditConfiguration
    <3>1. now' = now /\ exeCount' = exeCount /\ conf' = conf + 1 /\ conf < MaxConf
      BY <2>3 DEF EditConfiguration
    <3>2. QED
      BY <2>1, <3>1
  <2>4. QED
    BY <2>2, <2>3
<1>3. StoreTypeOK'
  BY <1>1, <1>2 DEF StoreInv, StoreTypeOK
<1>4. BootInv'
  <2>1. Made' = Made
    BY <1>1 DEF Made
  <2>2. \A t \in Range(Copies) : mirror[t].version \in Nat
    <3>1. mirror \in [Range(Copies) -> [version : 0 .. MaxConf, rows : 0 .. ConfigRows]]
      BY DEF StoreInv, StoreTypeOK
    <3>2. \A x \in [version : 0 .. MaxConf, rows : 0 .. ConfigRows] : x.version \in Nat
      BY StoreConstants
    <3>3. QED
      BY <3>1, <3>2
  <2>3. \A i \in 1 .. Made : Copies[i] \in Range(Copies)
    <3>1. boot \in Seq(Range(Copies)) /\ Len(boot) <= 4
      BY DEF StoreInv, BootInv
    <3>2. Len(boot) \in Nat
      BY <3>1
    <3>3. \A i \in 1 .. Made : i \in 1 .. 4
      BY <3>1, <3>2 DEF Made
    <3>4. QED
      BY <3>3, FourCopies
  <2>4. ASSUME failures = 0, NEW i \in 1 .. Made
        PROVE  mirror[Copies[i]].version <= conf'
    <3>1. mirror[Copies[i]].version <= conf /\ mirror[Copies[i]].version \in Nat
      BY <2>2, <2>3, <2>4 DEF StoreInv, BootInv
    <3>2. conf \in Nat /\ conf' \in Nat /\ conf <= conf'
      BY <1>2 DEF StoreInv
    <3>3. QED
      BY <3>1, <3>2
  <2>5. QED
    BY <1>1, <2>1, <2>4 DEF StoreInv, BootInv
<1>5. RowsInv(biz.rows)'
  <2>1. RowsInv(biz.rows) /\ biz.rows \in Seq(Row)
    BY DEF StoreInv, RowsInv
  <2>2. ASSUME NEW i \in 1 .. Len(biz.rows)
        PROVE  biz.rows[i].at <= now'
    <3>1. biz.rows[i] \in Row /\ biz.rows[i].at <= now
      BY <2>1, ElementOfSeq DEF RowsInv
    <3>2. biz.rows[i].at \in Nat /\ now' \in Nat
      BY <1>2, <3>1, RowFields
    <3>3. QED
      BY <1>2, <3>1, <3>2
  <2>3. QED
    BY <1>1, <2>1, <2>2 DEF RowsInv
<1>6. StoredOnce(biz.rows, last) => StoredOnce(biz.rows, last)'
  BY <1>1 DEF StoredOnce
<1>7. QED
  BY <1>1, <1>2, <1>3, <1>4, <1>5, <1>6 DEF StoreInv

\* The firmware starts again: it knows no value, and has stored no row.
LEMMA RestartInv ==
  ASSUME StoreInv, kit_init_db
  PROVE  StoreInv'
<1>1. /\ run' = run + 1 /\ run \in Nat /\ run' \in 1 .. MaxRuns
      /\ UNCHANGED <<task, mirror, conf, now, failures>> /\ boot' = Copies /\ exeCount' = 0
  BY StoreConstants DEF kit_init_db, StoreInv, StoreTypeOK
<1>2. biz' \in Conn(Row) /\ biz'.rows = biz.rows /\ ~biz'.tx
  <2>1. biz \in Conn(Row) /\ biz' = [biz EXCEPT !.tx = FALSE, !.pend = <<>>] /\ <<>> \in Seq(Row)
    BY EmptySeq DEF kit_init_db, Reopened, StoreInv, StoreTypeOK
  <2>2. biz' = [rows |-> biz.rows, tx |-> FALSE, pend |-> <<>>]
    BY <2>1 DEF Conn
  <2>3. QED
    BY <2>1, <2>2 DEF Conn
<1>3. last' = FirstValues /\ last' \in [ChangePoints -> Values \cup {Unknown}]
  BY DEF kit_init_db, FirstValues, kit_get_faults_config, kit_get_event_config, ChangePoints
<1>4. StoreTypeOK' /\ (conf \in 1 .. MaxConf)'
  BY <1>1, <1>2, <1>3, StoreConstants DEF StoreInv, StoreTypeOK
<1>5. BootInv'
  BY <1>1, FourCopies DEF BootInv, Made
<1>6. RowsInv(biz.rows) /\ biz.rows \in Seq(Row)
  BY DEF StoreInv, RowsInv
<1>7. ASSUME NEW i \in 1 .. Len(biz.rows)
      PROVE  biz.rows[i] \in Row /\ biz.rows[i].run < run' /\ biz.rows[i].run \in 1 .. run
  <2>1. biz.rows[i] \in Row /\ biz.rows[i].run <= run
    BY <1>6, ElementOfSeq DEF RowsInv
  <2>2. biz.rows[i].run \in 1 .. MaxRuns
    BY <2>1, RowFields
  <2>3. QED
    BY <1>1, <2>1, <2>2, StoreConstants
<1>8. RowsInv(biz.rows)'
  <2>1. \A i \in 1 .. Len(biz.rows) : biz.rows[i].run <= run'
    <3>1. \A i \in 1 .. Len(biz.rows) : biz.rows[i].run \in 1 .. run
      BY <1>7
    <3>2. QED
      BY <1>1, <3>1
  <2>2. QED
    BY <1>1, <1>2, <1>6, <2>1 DEF RowsInv
<1>9. StoredOnce(biz.rows, last) => StoredOnce(biz.rows, last)'
  <2> SUFFICES ASSUME StoredOnce(biz.rows, last), NEW p \in ChangePoints, NEW r \in 1 .. run'
               PROVE  /\ Differ(Only(biz.rows, About(p, r)))
                      /\ r = run' => Ends(Only(biz.rows, About(p, r)), last'[p])
    BY <1>2 DEF StoredOnce
  <2>1. CASE r \in 1 .. run
    <3>1. r # run'
      BY <1>1, <2>1
    <3>2. QED
      BY <2>1, <3>1 DEF StoredOnce
  <2>2. CASE r \notin 1 .. run
    <3>1. \A i \in 1 .. Len(biz.rows) : biz.rows[i] \notin About(p, r)
      BY <1>7, <2>2 DEF About
    <3>2. Only(biz.rows, About(p, r)) = <<>>
      BY <1>6, <3>1, OnlyNone
    <3>3. Differ(<<>>)
      BY EmptySeq DEF Differ
    <3>4. QED
      BY <3>2, <3>3 DEF Ends
  <2>3. QED
    BY <2>1, <2>2
<1>10. (failures = 0 => ~biz.tx /\ StoredOnce(biz.rows, last))'
  BY <1>1, <1>2, <1>9 DEF StoreInv
<1>11. QED
  BY <1>4, <1>5, <1>8, <1>10 DEF StoreInv

\* Nothing moves.
LEMMA StoreStutter ==
  ASSUME StoreInv, UNCHANGED storeVars
  PROVE  StoreInv'
<1>1. UNCHANGED <<task, biz, mirror, conf, boot, exeCount, now, last, run, failures>>
  BY DEF storeVars
<1>2. /\ biz \in Conn(Row) /\ RowsInv(biz.rows) /\ failures \in 0 .. MaxStoreFailures
      /\ last \in [ChangePoints -> Values \cup {Unknown}]
      /\ failures = 0 => ~biz.tx /\ StoredOnce(biz.rows, last)
  BY DEF StoreInv, StoreTypeOK
<1>3. QED
  BY <1>1, <1>2, RowsStepInv

\* Every step keeps the invariant.
LEMMA StoreStepInv ==
  ASSUME StoreInv, StoreNext
  PROVE  StoreInv'
<1>1. last \in [ChangePoints -> Values \cup {Unknown}]
  BY DEF StoreInv, StoreTypeOK
<1>2. CASE kit_sync_dev_data
  BY <1>2, SyncTableInv DEF kit_sync_dev_data
<1>3. CASE kit_sync_point_data
  BY <1>3, SyncTableInv DEF kit_sync_point_data
<1>4. CASE kit_sync_record_point_data
  BY <1>4, SyncTableInv DEF kit_sync_record_point_data
<1>5. CASE kit_sync_record_dev_data
  BY <1>5, SyncTableInv DEF kit_sync_record_dev_data
<1>6. ASSUME NEW t \in {"timed", "record"}, SavePoints(t)
      PROVE  StoreInv'
  <2>1. UNCHANGED <<task, mirror, conf, boot, exeCount, now, last, run>>
    BY <1>6 DEF SavePoints
  <2>2. /\ biz' \in Conn(Row) /\ RowsInv(biz'.rows) /\ failures' \in 0 .. MaxStoreFailures
        /\ failures' = 0 => failures = 0 /\ ~biz'.tx /\ StoredOnce(biz'.rows, last)
    BY <1>6, SavePointsFacts
  <2>3. QED
    BY <1>1, <2>1, <2>2, RowsStepInv
<1>7. CASE saveRealDataInterval
  BY <1>6, <1>7 DEF saveRealDataInterval
<1>8. CASE saveRecordDataInterval
  BY <1>6, <1>8 DEF saveRecordDataInterval
<1>9. ASSUME NEW t \in {"faults", "events"}, NEW points,
             points = IF t = "faults" THEN FaultPoints ELSE EventPoints, SaveChanges(t, points)
      PROVE  StoreInv'
  <2>1. UNCHANGED <<task, mirror, conf, boot, exeCount, now, run>>
    BY <1>9 DEF SaveChanges
  <2>2. /\ biz' \in Conn(Row) /\ RowsInv(biz'.rows) /\ failures' \in 0 .. MaxStoreFailures
        /\ last' \in [ChangePoints -> Values \cup {Unknown}]
        /\ failures' = 0 => failures = 0 /\ ~biz'.tx /\ StoredOnce(biz'.rows, last')
    BY <1>9, SaveChangesFacts
  <2>3. QED
    BY <2>1, <2>2, RowsStepInv
<1>10. CASE saveFaultsDataInterval
  BY <1>9, <1>10 DEF saveFaultsDataInterval
<1>11. CASE saveEventDataInterval
  BY <1>9, <1>11 DEF saveEventDataInterval
<1>12. CASE delDbBusDataInterval \/ delRecordDataInterval
  <2>1. UNCHANGED <<task, mirror, conf, boot, exeCount, now, last, run>>
    BY <1>12 DEF delDbBusDataInterval, delRecordDataInterval
  <2>2. /\ biz' \in Conn(Row) /\ RowsInv(biz'.rows) /\ failures' \in 0 .. MaxStoreFailures
        /\ failures' = 0 => failures = 0 /\ ~biz'.tx /\ StoredOnce(biz'.rows, last)
    BY <1>12, DeleteStepFacts
  <2>3. QED
    BY <1>1, <2>1, <2>2, RowsStepInv
<1>13. CASE oneSecondTaskHandle \/ recordDataTaskHandle \/ EditConfiguration
  BY <1>13, QuietStepInv DEF oneSecondTaskHandle, recordDataTaskHandle
<1>14. CASE kit_init_db
  BY <1>14, RestartInv
<1>15. QED
  BY <1>2, <1>3, <1>4, <1>5, <1>7, <1>8, <1>10, <1>11, <1>12, <1>13, <1>14 DEF StoreNext

\* The invariant holds always.
THEOREM StoreInvariance == StoreSpec => []StoreInv
<1>1. StoreInit => StoreInv
  BY StoreInitInv
<1>2. StoreInv /\ [StoreNext]_storeVars => StoreInv'
  BY StoreStepInv, StoreStutter
<1>3. QED
  BY <1>1, <1>2, PTL DEF StoreSpec

-----------------------------------------------------------------------------
(* The theorems.                                                             *)

\* The state of the storage has its types, the counters and the committed and
\* uncommitted rows included.
THEOREM StoreTypeCorrect == StoreSpec => []StoreTypeOK
<1>1. StoreInv => StoreTypeOK
  BY DEF StoreInv
<1>2. QED
  BY <1>1, StoreInvariance, PTL

\* As long as no call of SQLite has failed, a change of a fault or an event is
\* one row, over any cycles, deletions and restarts.
THEOREM ChangesAreStoredOnce == StoreSpec => []ChangesStoredOnce
<1>1. StoreInv => ChangesStoredOnce
  BY DEF StoreInv, StoredOnce, ChangesStoredOnce, RowsOf, About, Differ, Ends
<1>2. QED
  BY <1>1, StoreInvariance, PTL

\* A boot without a failing call leaves four complete copies of the
\* configuration, none older than the one made before it.
THEOREM MirrorsAreCopies == StoreSpec => []MirrorsFollow
<1>1. StoreInv => MirrorsFollow
  <2> SUFFICES ASSUME StoreInv, failures = 0, boot = <<>>
               PROVE  /\ \A t \in DOMAIN mirror : mirror[t].rows = ConfigRows
                      /\ \A i \in 1 .. Len(Copies) - 1 :
                           mirror[Copies[i]].version <= mirror[Copies[i + 1]].version
    BY DEF MirrorsFollow
  <2>1. Made = 4
    BY EmptySeq DEF Made
  <2>2. /\ \A i \in 1 .. 4 : mirror[Copies[i]].rows = ConfigRows
        /\ \A i, j \in 1 .. 4 : i < j => mirror[Copies[i]].version <= mirror[Copies[j]].version
    BY <2>1 DEF StoreInv, BootInv
  <2>3. \A t \in DOMAIN mirror : \E i \in 1 .. 4 : t = Copies[i]
    BY FourCopies DEF StoreInv, StoreTypeOK, Range
  <2>4. \A i \in 1 .. Len(Copies) - 1 : i \in 1 .. 4 /\ i + 1 \in 1 .. 4 /\ i < i + 1
    BY FourCopies
  <2>5. QED
    BY <2>2, <2>3, <2>4
<1>2. QED
  BY <1>1, StoreInvariance, PTL

-----------------------------------------------------------------------------
(* Rows stay for their period.                                               *)

Tables == {"timed", "faults", "events", "record"}
Unpurged(purged) == {r \in Row : r.table \notin purged \/ ~Expired(r)}

\* One more deletion purges one more table, or none when it fails.
LEMMA PurgeOneMore ==
  ASSUME NEW rows \in Seq(Row), NEW purged \in SUBSET Tables, NEW c \in Conn(Row),
         c.rows = Only(rows, Unpurged(purged)), NEW t \in Tables, NEW o \in DeleteFrom(t, c)
  PROVE  \E more \in SUBSET Tables : o.conn.rows = Only(rows, Unpurged(more))
<1> DEFINE keep == {row \in Row : row.table # t \/ ~Expired(row)}
<1>1. o \in Deletions(c, keep)
  BY DEF DeleteFrom
<1>2. Unpurged(purged) \cap keep = Unpurged(purged \cup {t}) /\ purged \cup {t} \in SUBSET Tables
  BY DEF Unpurged
<1> HIDE DEF keep
<1>3. o.conn.rows \in {c.rows, Only(c.rows, keep)}
  BY <1>1, DeletionFacts
<1>4. Only(c.rows, keep) = Only(rows, Unpurged(purged \cup {t}))
  <2>1. Only(Only(rows, Unpurged(purged)), keep) = Only(rows, Unpurged(purged) \cap keep)
    BY OnlyTwice
  <2>2. QED
    BY <1>2, <2>1
<1>5. QED
  BY <1>2, <1>3, <1>4

\* Rows are a beginning of themselves and of what has been added to them.
LEMMA PrefixOfConcat ==
  ASSUME NEW s \in Seq(Row), NEW t \in Seq(Row)
  PROVE  IsPrefix(s, s) /\ IsPrefix(s, s \o t)
<1> DEFINE b == s \o t
<1>1. /\ Len(s) \in Nat /\ Len(t) \in Nat /\ b \in Seq(Row) /\ Len(b) = Len(s) + Len(t)
      /\ \A i \in 1 .. Len(s) : b[i] = s[i]
  BY ConcatProperties
<1> HIDE DEF b
<1>2. SubSeq(s, 1, Len(s)) = s
  BY SubSeqFull
<1>3. /\ SubSeq(b, 1, Len(s)) \in Seq(Row) /\ Len(SubSeq(b, 1, Len(s))) = Len(s)
      /\ \A i \in 1 .. Len(s) : SubSeq(b, 1, Len(s))[i] = b[i]
  <2>1. 1 \in 1 .. Len(b) + 1 /\ Len(s) \in 1 - 1 .. Len(b)
    BY <1>1
  <2>2. /\ SubSeq(b, 1, Len(s)) \in Seq(Row)
        /\ Len(SubSeq(b, 1, Len(s))) = IF 1 <= Len(s) THEN Len(s) - 1 + 1 ELSE 0
        /\ \A i \in 1 .. Len(s) - 1 + 1 : SubSeq(b, 1, Len(s))[i] = b[1 + i - 1]
    BY <1>1, <2>1, SubSeqProperties
  <2>3. \A i \in 1 .. Len(s) : i \in 1 .. Len(s) - 1 + 1 /\ 1 + i - 1 = i
    BY <1>1
  <2>4. Len(SubSeq(b, 1, Len(s))) = Len(s)
    BY <1>1, <2>2
  <2>5. QED
    BY <2>2, <2>3, <2>4
<1>4. SubSeq(b, 1, Len(s)) = s
  BY <1>1, <1>3, SeqEqual
<1>5. IsPrefix(s, s) /\ IsPrefix(s, b)
  BY <1>1, <1>2, <1>4 DEF IsPrefix
<1>6. QED
  BY <1>5 DEF b

\* A step deletes rows of some tables whose period is over and adds rows at the
\* end: what is kept of the rows stored before begins the rows stored after.
LEMMA StoreStepKeeps ==
  ASSUME StoreInv, StoreNext
  PROVE  \E purged \in SUBSET Tables : IsPrefix(Only(biz.rows, Unpurged(purged)), biz'.rows)
<1>1. biz \in Conn(Row) /\ biz.rows \in Seq(Row) /\ StoreTypeOK
  BY DEF StoreInv, RowsInv, StoreTypeOK
<1>2. Only(biz.rows, Unpurged({})) = biz.rows /\ {} \in SUBSET Tables
  <2>1. Row \subseteq Unpurged({})
    BY DEF Unpurged
  <2>2. QED
    BY <1>1, <2>1, OnlyAll
<1>3. ASSUME \E more \in Seq(Row) : biz'.rows = biz.rows \o more
      PROVE  IsPrefix(Only(biz.rows, Unpurged({})), biz'.rows)
  BY <1>1, <1>2, <1>3, PrefixOfConcat
<1>4. ASSUME biz'.rows = biz.rows
      PROVE  IsPrefix(Only(biz.rows, Unpurged({})), biz'.rows)
  BY <1>1, <1>2, <1>4, PrefixOfConcat
<1>5. ASSUME NEW purged \in SUBSET Tables, biz'.rows = Only(biz.rows, Unpurged(purged))
      PROVE  IsPrefix(Only(biz.rows, Unpurged(purged)), biz'.rows)
  BY <1>1, <1>5, OnlyType, PrefixOfConcat
<1>6. CASE saveRealDataInterval \/ saveRecordDataInterval
  <2>1. PICK t \in {"timed", "record"} : SavePoints(t)
    BY <1>6 DEF saveRealDataInterval, saveRecordDataInterval
  <2>2. QED
    BY <1>2, <1>3, <2>1, SavePointsFacts
<1>7. CASE saveFaultsDataInterval \/ saveEventDataInterval
  <2>1. PICK t \in {"faults", "events"} :
          SaveChanges(t, IF t = "faults" THEN FaultPoints ELSE EventPoints)
    BY <1>7 DEF saveFaultsDataInterval, saveEventDataInterval
  <2>2. QED
    BY <1>2, <1>3, <2>1, SaveChangesFacts
<1>8. CASE delDbBusDataInterval
  <2>1. PICK t \in DeleteFrom("timed", biz) :
          \E f \in DeleteFrom("faults", t.conn) : \E e \in DeleteFrom("events", f.conn) :
            biz' = e.conn
    BY <1>8 DEF delDbBusDataInterval, kit_del_timed_data_by_date, kit_del_faults_data_by_date,
                kit_del_events_data_by_date
  <2>2. PICK f \in DeleteFrom("faults", t.conn) : \E e \in DeleteFrom("events", f.conn) : biz' = e.conn
    BY <2>1
  <2>3. PICK e \in DeleteFrom("events", f.conn) : biz' = e.conn
    BY <2>2
  <2>4. t.conn \in Conn(Row) /\ RowsInv(t.conn.rows)
    BY <1>1, DeleteFacts DEF StoreInv
  <2>5. f.conn \in Conn(Row) /\ RowsInv(f.conn.rows)
    BY <1>1, <2>4, DeleteFacts
  <2>6. PICK p1 \in SUBSET Tables : t.conn.rows = Only(biz.rows, Unpurged(p1))
    BY <1>1, <1>2, PurgeOneMore DEF Tables
  <2>7. PICK p2 \in SUBSET Tables : f.conn.rows = Only(biz.rows, Unpurged(p2))
    BY <1>1, <2>4, <2>6, PurgeOneMore DEF Tables
  <2>8. PICK p3 \in SUBSET Tables : e.conn.rows = Only(biz.rows, Unpurged(p3))
    BY <1>1, <2>5, <2>7, PurgeOneMore DEF Tables
  <2>9. QED
    BY <1>5, <2>3, <2>8
<1>9. CASE delRecordDataInterval
  <2>1. PICK o \in DeleteFrom("record", biz) : biz' = o.conn
    BY <1>9 DEF delRecordDataInterval, kit_del_record_data_by_date
  <2>2. PICK purged \in SUBSET Tables : o.conn.rows = Only(biz.rows, Unpurged(purged))
    BY <1>1, <1>2, PurgeOneMore DEF Tables
  <2>3. QED
    BY <1>5, <2>1, <2>2
<1>10. CASE kit_init_db
  <2>1. biz'.rows = biz.rows
    BY <1>1, <1>10 DEF kit_init_db, Reopened, Conn
  <2>2. QED
    BY <1>2, <1>4, <2>1
<1>11. CASE biz' = biz
  BY <1>2, <1>4, <1>11
<1>12. CASE \/ kit_sync_dev_data \/ kit_sync_point_data \/ kit_sync_record_point_data
            \/ kit_sync_record_dev_data \/ oneSecondTaskHandle \/ recordDataTaskHandle
            \/ EditConfiguration
  <2>1. biz' = biz
    BY <1>12 DEF kit_sync_dev_data, kit_sync_point_data, kit_sync_record_point_data,
                 kit_sync_record_dev_data, SyncTable, oneSecondTaskHandle, recordDataTaskHandle,
                 NextCycle, EditConfiguration
  <2>2. QED
    BY <1>11, <2>1
<1>13. QED
  BY <1>6, <1>7, <1>8, <1>9, <1>10, <1>12 DEF StoreNext

\* A committed row stays until its table's period is over, in its place among
\* the others, whatever call fails and whenever the firmware stops.
THEOREM RowsAreKept == StoreSpec => KeptForItsPeriod
<1>1. StoreInv /\ [StoreNext]_storeVars =>
        [\E purged \in SUBSET {"timed", "faults", "events", "record"} :
           LET kept == Only(biz.rows, {r \in Row : r.table \notin purged \/ ~Expired(r)})
           IN  IsPrefix(kept, biz.rows')]_storeVars
  <2> SUFFICES ASSUME StoreInv, StoreNext
               PROVE  \E purged \in SUBSET {"timed", "faults", "events", "record"} :
                        LET kept == Only(biz.rows, {r \in Row : r.table \notin purged \/ ~Expired(r)})
                        IN  IsPrefix(kept, biz.rows')
    OBVIOUS
  <2>1. QED
    BY StoreStepKeeps DEF Unpurged, Tables
<1>2. QED
  BY <1>1, StoreInvariance, PTL DEF StoreSpec, KeptForItsPeriod
===============================================================================
