--------------------------- MODULE SecDescProofs ----------------------------
(***************************************************************************)
(* Proofs about SecDesc, for every list of ACEs an object may start with   *)
(* and every set of requests.                                              *)
(***************************************************************************)
EXTENDS SecDesc, SequenceTheorems, WellFoundedInduction, TLAPS

(* Induction, with the property written as a set *)

LEMMA SetInduction ==
  ASSUME NEW S, 0 \in S, \A n \in Nat : n \in S => n + 1 \in S
  PROVE  Nat \subseteq S
  <1> SUFFICES ASSUME Nat \ S # {} PROVE FALSE
    OBVIOUS
  <1> DEFINE R == OpToRel(<, Nat)
  <1>1. IsWellFoundedOn(R, Nat)
    BY NatLessThanWellFounded, Zenon
  <1>2. R = {r \in Nat \X Nat : r[1] < r[2]}
    BY Zenon DEF OpToRel
  <1> HIDE DEF R
  <1>3. PICK x \in Nat \ S : \A y \in Nat \ S : ~(<<y, x>> \in R)
    BY <1>1, WFMin, Zenon
  <1>4. x # 0 /\ x - 1 \in Nat /\ (x - 1) + 1 = x
    BY <1>3
  <1>5. x - 1 \in Nat \ S
    BY <1>3, <1>4
  <1>6. <<x - 1, x>> \in R
    BY <1>2, <1>4
  <1> QED
    BY <1>3, <1>5, <1>6

\* A set of lists that has the empty one, and with each every longer by one, has them all.
LEMMA ListInduction ==
  ASSUME NEW S, NEW T, <<>> \in T, \A s \in Seq(S), x \in S : s \in T => Append(s, x) \in T
  PROVE  Seq(S) \subseteq T
  <1> DEFINE N == {n \in Nat : \A s \in Seq(S) : Len(s) = n => s \in T}
  <1>1. 0 \in N
    BY EmptySeq
  <1>2. ASSUME NEW n \in Nat, n \in N PROVE n + 1 \in N
    <2> SUFFICES ASSUME NEW s \in Seq(S), Len(s) = n + 1 PROVE s \in T
      OBVIOUS
    <2>1. s # <<>>
      BY EmptySeq
    <2>2. PICK t \in Seq(S), x \in S : s = Append(t, x)
      BY <2>1, SequenceEmptyOrAppend
    <2>3. Len(s) = Len(t) + 1 /\ Len(t) \in Nat
      BY <2>2, AppendProperties, LenProperties
    <2>4. Len(t) = n
      BY <2>3
    <2> QED
      BY <1>2, <2>2, <2>4
  <1> HIDE DEF N
  <1>3. Nat \subseteq N
    BY <1>1, <1>2, SetInduction
  <1>4. \A s \in Seq(S) : Len(s) \in Nat
    BY LenProperties
  <1> QED
    BY <1>3, <1>4 DEF N
-----------------------------------------------------------------------------
(* Lists *)

\* f is what the loop has kept of the first n of list, n = 0, 1, ...
KeptBy(f, n, list, drop) ==
    f = [i \in 0..n |-> IF i = 0 THEN <<>>
                        ELSE IF list[i] \in drop THEN f[i - 1] ELSE Append(f[i - 1], list[i])]

\* The loop computes something,
LEMMA KeptExists ==
  ASSUME NEW list, NEW drop, NEW n \in Nat
  PROVE  \E f : KeptBy(f, n, list, drop)
  <1> DEFINE N == {k \in Nat : \E f : KeptBy(f, k, list, drop)}
  <1>1. 0 \in N
    <2>1. KeptBy([i \in 0..0 |-> <<>>], 0, list, drop)
      BY DEF KeptBy
    <2> QED
      BY <2>1
  <1>2. ASSUME NEW k \in Nat, k \in N PROVE k + 1 \in N
    <2>1. PICK f : KeptBy(f, k, list, drop)
      BY <1>2
    <2> DEFINE next == IF list[k + 1] \in drop THEN f[k] ELSE Append(f[k], list[k + 1])
               g == [i \in 0..(k + 1) |-> IF i <= k THEN f[i] ELSE next]
               h == [i \in 0..(k + 1) |->
                       IF i = 0 THEN <<>>
                       ELSE IF list[i] \in drop THEN g[i - 1] ELSE Append(g[i - 1], list[i])]
    <2>2. ASSUME NEW i \in 0..k
          PROVE  f[i] = IF i = 0 THEN <<>>
                        ELSE IF list[i] \in drop THEN f[i - 1] ELSE Append(f[i - 1], list[i])
      <3>1. f = [j \in 0..k |-> IF j = 0 THEN <<>>
                                ELSE IF list[j] \in drop THEN f[j - 1] ELSE Append(f[j - 1], list[j])]
        BY <2>1 DEF KeptBy
      <3> QED
        BY <3>1, Zenon
    <2>3. \A i \in 0..(k + 1) : g[i] = h[i]
      <3> SUFFICES ASSUME NEW i \in 0..(k + 1) PROVE g[i] = h[i]
        OBVIOUS
      <3>1. /\ g[i] = IF i <= k THEN f[i] ELSE next
            /\ h[i] = IF i = 0 THEN <<>>
                      ELSE IF list[i] \in drop THEN g[i - 1] ELSE Append(g[i - 1], list[i])
        OBVIOUS
      <3>2. \A j \in 0..k : g[j] = f[j]
        OBVIOUS
      <3> HIDE DEF g, h
      <3>3. CASE i = 0
        <4>1. 0 \in 0..k /\ i <= k
          BY <3>3
        <4>2. f[0] = <<>>
          BY <2>2, <4>1
        <4> QED
          BY <3>1, <3>3, <4>1, <4>2
      <3>4. CASE i \in 1..k
        <4>1. i - 1 \in 0..k /\ i \in 0..k /\ i # 0 /\ i <= k
          BY <3>4
        <4> QED
          BY <2>2, <3>1, <3>2, <4>1
      <3>5. CASE i = k + 1
        <4>1. k \in 0..k /\ i # 0 /\ ~(i <= k) /\ i - 1 = k
          BY <3>5
        <4> QED
          BY <3>1, <3>2, <3>5, <4>1
      <3> QED
        BY <3>3, <3>4, <3>5
    <2>4. g = h
      BY <2>3
    <2>5. KeptBy(g, k + 1, list, drop)
      BY <2>4, Zenon DEF KeptBy
    <2> QED
      BY <2>5
  <1> HIDE DEF N
  <1>3. Nat \subseteq N
    BY <1>1, <1>2, SetInduction
  <1> QED
    BY <1>3 DEF N

\* and what it says: an element is dropped, or put behind what was kept before it.
LEMMA KeptSteps ==
  ASSUME NEW list, NEW drop, Len(list) \in Nat
  PROVE  /\ Kept(list, drop)[0] = <<>>
         /\ \A i \in 1..Len(list) :
               Kept(list, drop)[i] = IF list[i] \in drop THEN Kept(list, drop)[i - 1]
                                     ELSE Append(Kept(list, drop)[i - 1], list[i])
  <1>1. PICK f : KeptBy(f, Len(list), list, drop)
    BY KeptExists
  <1>2. Kept(list, drop) = [i \in 0..Len(list) |->
                              IF i = 0 THEN <<>>
                              ELSE IF list[i] \in drop THEN Kept(list, drop)[i - 1]
                              ELSE Append(Kept(list, drop)[i - 1], list[i])]
    BY <1>1, Zenon DEF Kept, KeptBy
  <1> DEFINE K == Kept(list, drop)
  <1>3. K = [i \in 0..Len(list) |-> IF i = 0 THEN <<>>
                                    ELSE IF list[i] \in drop THEN K[i - 1]
                                    ELSE Append(K[i - 1], list[i])]
    BY <1>2
  <1> HIDE DEF K
  <1>4. /\ K[0] = <<>>
        /\ \A i \in 1..Len(list) :
              K[i] = IF list[i] \in drop THEN K[i - 1] ELSE Append(K[i - 1], list[i])
    <2>1. 0 \in 0..Len(list)
      OBVIOUS
    <2>2. K[0] = <<>>
      BY <1>3, <2>1
    <2>3. ASSUME NEW i \in 1..Len(list)
          PROVE  K[i] = IF list[i] \in drop THEN K[i - 1] ELSE Append(K[i - 1], list[i])
      <3>1. i \in 0..Len(list) /\ i # 0
        OBVIOUS
      <3> QED
        BY <1>3, <3>1
    <2> QED
      BY <2>2, <2>3
  <1> QED
    BY <1>4 DEF K

LEMMA WithoutEmpty ==
  ASSUME NEW drop
  PROVE  Without(<<>>, drop) = <<>>
  <1>1. Len(<<>>) = 0
    BY EmptySeq
  <1> QED
    BY <1>1, KeptSteps DEF Without

\* What comes later does not change what was kept.
LEMMA KeptOfAppend ==
  ASSUME NEW S, NEW s \in Seq(S), NEW x \in S, NEW drop
  PROVE  \A n \in 0..Len(s) : Kept(Append(s, x), drop)[n] = Kept(s, drop)[n]
  <1> DEFINE t == Append(s, x)
             K == Kept(s, drop)
             L == Kept(t, drop)
             N == {n \in Nat : n <= Len(s) => L[n] = K[n]}
  <1>1. /\ Len(s) \in Nat /\ Len(t) = Len(s) + 1 /\ Len(t) \in Nat
        /\ \A i \in 1..Len(s) : t[i] = s[i]
    BY LenProperties, AppendProperties
  <1> HIDE DEF t
  <1>2. /\ K[0] = <<>>
        /\ \A i \in 1..Len(s) : K[i] = IF s[i] \in drop THEN K[i - 1] ELSE Append(K[i - 1], s[i])
    BY <1>1, KeptSteps
  <1>3. /\ L[0] = <<>>
        /\ \A i \in 1..Len(t) : L[i] = IF t[i] \in drop THEN L[i - 1] ELSE Append(L[i - 1], t[i])
    BY <1>1, KeptSteps
  <1> HIDE DEF K, L
  <1>4. 0 \in N
    BY <1>2, <1>3
  <1>5. ASSUME NEW n \in Nat, n \in N PROVE n + 1 \in N
    <2> SUFFICES ASSUME n + 1 <= Len(s) PROVE L[n + 1] = K[n + 1]
      OBVIOUS
    <2>1. n + 1 \in 1..Len(s) /\ n + 1 \in 1..Len(t) /\ (n + 1) - 1 = n /\ n <= Len(s)
      BY <1>1
    <2>2. L[n] = K[n] /\ t[n + 1] = s[n + 1]
      BY <1>1, <1>5, <2>1
    <2>3. K[n + 1] = IF s[n + 1] \in drop THEN K[n] ELSE Append(K[n], s[n + 1])
      BY <1>2, <2>1
    <2>4. L[n + 1] = IF t[n + 1] \in drop THEN L[n] ELSE Append(L[n], t[n + 1])
      BY <1>3, <2>1
    <2> QED
      BY <2>2, <2>3, <2>4
  <1> HIDE DEF N
  <1>6. Nat \subseteq N
    BY <1>4, <1>5, SetInduction
  <1> QED
    BY <1>1, <1>6 DEF N, K, L, t

LEMMA WithoutAppend ==
  ASSUME NEW S, NEW s \in Seq(S), NEW x \in S, NEW drop
  PROVE  Without(Append(s, x), drop) =
           IF x \in drop THEN Without(s, drop) ELSE Append(Without(s, drop), x)
  <1> DEFINE t == Append(s, x)
             L == Kept(t, drop)
  <1>1. Len(s) \in Nat /\ Len(t) = Len(s) + 1 /\ t[Len(s) + 1] = x
    BY LenProperties, AppendProperties
  <1>2. L[Len(s)] = Without(s, drop)
    <2>1. Len(s) \in 0..Len(s)
      BY <1>1
    <2> QED
      BY <2>1, KeptOfAppend DEF Without
  <1> HIDE DEF t
  <1>3. Len(t) \in 1..Len(t) /\ Len(t) - 1 = Len(s) /\ Len(t) \in Nat
    BY <1>1
  <1>4. L[Len(t)] = IF t[Len(t)] \in drop THEN L[Len(t) - 1] ELSE Append(L[Len(t) - 1], t[Len(t)])
    BY <1>3, KeptSteps
  <1>5. Without(t, drop) = L[Len(t)]
    BY DEF Without
  <1> HIDE DEF L
  <1>6. Without(t, drop) = IF x \in drop THEN Without(s, drop) ELSE Append(Without(s, drop), x)
    BY <1>1, <1>2, <1>3, <1>4, <1>5
  <1> QED
    BY <1>6 DEF t

LEMMA RangeOfAppend ==
  ASSUME NEW S, NEW s \in Seq(S), NEW x \in S
  PROVE  Range(Append(s, x)) = Range(s) \union {x}
  <1>1. Len(s) \in Nat /\ DOMAIN s = 1..Len(s)
    BY LenProperties
  <1>2. /\ Append(s, x) \in Seq(S) /\ Len(Append(s, x)) = Len(s) + 1
        /\ \A i \in 1..Len(s) : Append(s, x)[i] = s[i]
        /\ Append(s, x)[Len(s) + 1] = x
    BY AppendProperties
  <1>3. DOMAIN Append(s, x) = 1..(Len(s) + 1)
    BY <1>2, LenProperties
  <1>4. 1..(Len(s) + 1) = 1..Len(s) \union {Len(s) + 1}
    BY <1>1
  <1> QED
    BY <1>1, <1>2, <1>3, <1>4 DEF Range

LEMMA RangeOfEmpty == Range(<<>>) = {}
  BY EmptySeq, LenProperties DEF Range

LEMMA EmptyRange ==
  ASSUME NEW S, NEW s \in Seq(S), Range(s) = {}
  PROVE  s = <<>>
  <1>1. Len(s) \in Nat /\ DOMAIN s = 1..Len(s)
    BY LenProperties
  <1>2. \A i \in DOMAIN s : s[i] \in Range(s)
    BY DEF Range
  <1>3. Len(s) = 0
    <2>1. 1 \notin DOMAIN s
      BY <1>2
    <2> QED
      BY <1>1, <2>1
  <1> QED
    BY <1>3, EmptySeq

\* What is left is a list of what is not to be dropped;
LEMMA WithoutRange ==
  ASSUME NEW S, NEW s \in Seq(S), NEW drop
  PROVE  /\ Without(s, drop) \in Seq(S) /\ Range(Without(s, drop)) = Range(s) \ drop
         /\ Len(Without(s, drop)) \in Nat /\ Len(Without(s, drop)) <= Len(s)
  <1> DEFINE W(t) == Without(t, drop)
             T == {t \in Seq(S) : W(t) \in Seq(S) /\ Range(W(t)) = Range(t) \ drop
                                    /\ Len(W(t)) <= Len(t)}
  <1>1. <<>> \in T
    <2>1. <<>> \in Seq(S) /\ Len(<<>>) = 0
      BY EmptySeq
    <2>2. W(<<>>) = <<>>
      BY WithoutEmpty
    <2> HIDE DEF W
    <2>3. Range(<<>>) = Range(<<>>) \ drop
      BY RangeOfEmpty
    <2>4. Len(W(<<>>)) <= Len(<<>>)
      BY <2>1, <2>2
    <2> QED
      BY <2>1, <2>2, <2>3, <2>4
  <1>2. ASSUME NEW t \in Seq(S), NEW x \in S, t \in T PROVE Append(t, x) \in T
    <2>1. W(t) \in Seq(S) /\ Range(W(t)) = Range(t) \ drop /\ Len(W(t)) <= Len(t)
      BY <1>2
    <2>2. Len(W(t)) \in Nat /\ Len(t) \in Nat
      BY <2>1, LenProperties
    <2>3. Append(t, x) \in Seq(S) /\ Len(Append(t, x)) = Len(t) + 1
      BY AppendProperties
    <2>4. Append(W(t), x) \in Seq(S) /\ Len(Append(W(t), x)) = Len(W(t)) + 1
      BY <2>1, AppendProperties
    <2>5. Range(Append(t, x)) = Range(t) \union {x} /\ Range(Append(W(t), x)) = Range(W(t)) \union {x}
      BY <2>1, RangeOfAppend
    <2>6. CASE x \in drop
      <3>1. W(Append(t, x)) = W(t)
        BY <2>6, WithoutAppend
      <3>2. Len(W(t)) <= Len(t) + 1
        BY <2>1, <2>2
      <3>3. Range(W(t)) = Range(Append(t, x)) \ drop
        BY <2>1, <2>5, <2>6
      <3> HIDE DEF W
      <3> QED
        BY <2>1, <2>3, <3>1, <3>2, <3>3
    <2>7. CASE x \notin drop
      <3>1. W(Append(t, x)) = Append(W(t), x)
        BY <2>7, WithoutAppend
      <3>2. Len(W(t)) + 1 <= Len(t) + 1
        BY <2>1, <2>2
      <3>3. Range(Append(W(t), x)) = Range(Append(t, x)) \ drop
        BY <2>1, <2>5, <2>7
      <3> HIDE DEF W
      <3> QED
        BY <2>3, <2>4, <3>1, <3>2, <3>3
    <2> QED
      BY <2>6, <2>7
  <1> HIDE DEF T
  <1>3. Seq(S) \subseteq T
    BY <1>1, <1>2, ListInduction
  <1>4. s \in T
    BY <1>3
  <1>5. Without(s, drop) \in Seq(S)
    BY <1>4 DEF T
  <1> QED
    BY <1>4, <1>5, LenProperties DEF T

\* it is the list itself when there is nothing to drop, and shorter otherwise;
LEMMA WithoutNothing ==
  ASSUME NEW S, NEW s \in Seq(S), NEW drop
  PROVE  /\ Range(s) \intersect drop = {} => Without(s, drop) = s
         /\ Len(Without(s, drop)) = Len(s) => Range(s) \intersect drop = {}
  <1> DEFINE W(t) == Without(t, drop)
             T == {t \in Seq(S) : /\ Range(t) \intersect drop = {} => W(t) = t
                                  /\ Len(W(t)) = Len(t) => Range(t) \intersect drop = {}}
  <1>1. <<>> \in T
    <2>1. <<>> \in Seq(S)
      BY EmptySeq
    <2> QED
      BY <2>1, WithoutEmpty, RangeOfEmpty
  <1>2. ASSUME NEW t \in Seq(S), NEW x \in S, t \in T PROVE Append(t, x) \in T
    <2>1. /\ Range(t) \intersect drop = {} => W(t) = t
          /\ Len(W(t)) = Len(t) => Range(t) \intersect drop = {}
      BY <1>2
    <2>2. W(t) \in Seq(S) /\ Len(W(t)) \in Nat /\ Len(W(t)) <= Len(t)
      BY WithoutRange
    <2>3. Append(t, x) \in Seq(S) /\ Len(Append(t, x)) = Len(t) + 1 /\ Len(t) \in Nat
      BY AppendProperties, LenProperties
    <2>4. Len(Append(W(t), x)) = Len(W(t)) + 1
      BY <2>2, AppendProperties
    <2>5. Range(Append(t, x)) = Range(t) \union {x}
      BY RangeOfAppend
    <2>6. CASE x \in drop
      <3>1. W(Append(t, x)) = W(t)
        BY <2>6, WithoutAppend
      <3> HIDE DEF W
      <3>2. Len(W(Append(t, x))) # Len(Append(t, x))
        BY <2>2, <2>3, <3>1
      <3> QED
        BY <2>3, <2>5, <2>6, <3>2
    <2>7. CASE x \notin drop
      <3>1. W(Append(t, x)) = Append(W(t), x)
        BY <2>7, WithoutAppend
      <3> HIDE DEF W
      <3>2. Len(W(Append(t, x))) = Len(Append(t, x)) => Len(W(t)) = Len(t)
        BY <2>2, <2>3, <2>4, <3>1
      <3> QED
        BY <2>1, <2>3, <2>5, <2>7, <3>1, <3>2
    <2> QED
      BY <2>6, <2>7
  <1> HIDE DEF T
  <1>3. Seq(S) \subseteq T
    BY <1>1, <1>2, ListInduction
  <1> QED
    BY <1>3 DEF T

LEMMA WithoutAll ==
  ASSUME NEW S, NEW s \in Seq(S), NEW drop, Range(s) \subseteq drop
  PROVE  Without(s, drop) = <<>>
  <1>1. Without(s, drop) \in Seq(S) /\ Range(Without(s, drop)) = {}
    BY WithoutRange
  <1> QED
    BY <1>1, EmptyRange

LEMMA ConcatAppend ==
  ASSUME NEW S, NEW u \in Seq(S), NEW t \in Seq(S), NEW x \in S
  PROVE  u \o Append(t, x) = Append(u \o t, x)
  <1>1. <<x>> \in Seq(S) /\ u \o t \in Seq(S)
    BY ConcatProperties
  <1>2. Append(t, x) = t \o <<x>> /\ Append(u \o t, x) = (u \o t) \o <<x>>
    BY <1>1, AppendIsConcat
  <1>3. (u \o t) \o <<x>> = u \o (t \o <<x>>)
    BY <1>1, ConcatAssociative
  <1> QED
    BY <1>2, <1>3

\* and of two lists in a row, what is left of the one and then of the other.
LEMMA WithoutConcat ==
  ASSUME NEW S, NEW u \in Seq(S), NEW v \in Seq(S), NEW drop
  PROVE  Without(u \o v, drop) = Without(u, drop) \o Without(v, drop)
  <1> DEFINE W(t) == Without(t, drop)
             T == {t \in Seq(S) : W(u \o t) = W(u) \o W(t)}
  <1>0. W(u) \in Seq(S)
    BY WithoutRange
  <1>1. <<>> \in T
    <2>1. <<>> \in Seq(S) /\ u \o <<>> = u /\ W(<<>>) = <<>>
      BY EmptySeq, ConcatEmptySeq, WithoutEmpty
    <2>2. W(u) \o <<>> = W(u)
      BY <1>0, ConcatEmptySeq
    <2> HIDE DEF W
    <2> QED
      BY <2>1, <2>2
  <1>2. ASSUME NEW t \in Seq(S), NEW x \in S, t \in T PROVE Append(t, x) \in T
    <2>1. u \o t \in Seq(S) /\ W(t) \in Seq(S) /\ <<x>> \in Seq(S) /\ Append(t, x) \in Seq(S)
      BY ConcatProperties, WithoutRange, AppendProperties
    <2>2. u \o Append(t, x) = Append(u \o t, x)
      BY ConcatAppend
    <2>3. W(u) \o Append(W(t), x) = Append(W(u) \o W(t), x)
      <3> DEFINE a == W(u)
                 b == W(t)
      <3>1. a \in Seq(S) /\ b \in Seq(S)
        BY <1>0, <2>1
      <3> HIDE DEF a, b
      <3>2. a \o Append(b, x) = Append(a \o b, x)
        BY <3>1, ConcatAppend
      <3> QED
        BY <3>2 DEF a, b
    <2>4. W(u \o t) = W(u) \o W(t)
      BY <1>2
    <2>5. CASE x \in drop
      <3>1. W(Append(t, x)) = W(t)
        BY <2>5, WithoutAppend
      <3>2. W(Append(u \o t, x)) = W(u \o t)
        BY <2>1, <2>5, WithoutAppend
      <3> HIDE DEF W
      <3>3. W(u \o Append(t, x)) = W(u) \o W(Append(t, x))
        BY <2>2, <2>4, <3>1, <3>2
      <3> QED
        BY <2>1, <3>3
    <2>6. CASE x \notin drop
      <3>1. W(Append(t, x)) = Append(W(t), x)
        BY <2>6, WithoutAppend
      <3>2. W(Append(u \o t, x)) = Append(W(u \o t), x)
        BY <2>1, <2>6, WithoutAppend
      <3> HIDE DEF W
      <3> QED
        BY <2>1, <2>2, <2>3, <2>4, <3>1, <3>2
    <2> QED
      BY <2>5, <2>6
  <1> HIDE DEF T
  <1>3. Seq(S) \subseteq T
    BY <1>1, <1>2, ListInduction
  <1> QED
    BY <1>3 DEF T

\* x stands in s, and nothing of A before it.
Leads(x, s, A) == \E i \in DOMAIN s : s[i] = x /\ \A j \in 1..(i - 1) : s[j] \notin A

LEMMA LeadsInConcat ==
  ASSUME NEW S, NEW u \in Seq(S), NEW v \in Seq(S), NEW x, NEW A
  PROVE  /\ Leads(x, u, A) => Leads(x, u \o v, A)
         /\ Leads(x, v, A) /\ Range(u) \intersect A = {} => Leads(x, u \o v, A)
  <1> DEFINE w == u \o v
  <1>1. /\ w \in Seq(S) /\ Len(w) = Len(u) + Len(v)
        /\ \A i \in 1..(Len(u) + Len(v)) : w[i] = IF i <= Len(u) THEN u[i] ELSE v[i - Len(u)]
    BY ConcatProperties
  <1>2. /\ Len(u) \in Nat /\ DOMAIN u = 1..Len(u) /\ Len(v) \in Nat /\ DOMAIN v = 1..Len(v)
        /\ DOMAIN w = 1..Len(w)
    BY <1>1, LenProperties
  <1> HIDE DEF w
  <1>3. ASSUME NEW i \in DOMAIN u, u[i] = x, \A j \in 1..(i - 1) : u[j] \notin A
        PROVE  Leads(x, w, A)
    <2>1. i \in DOMAIN w /\ w[i] = x
      BY <1>1, <1>2, <1>3
    <2>2. \A j \in 1..(i - 1) : w[j] = u[j]
      BY <1>1, <1>2
    <2> QED
      BY <1>3, <2>1, <2>2 DEF Leads
  <1>4. ASSUME NEW i \in DOMAIN v, v[i] = x, \A j \in 1..(i - 1) : v[j] \notin A,
               Range(u) \intersect A = {}
        PROVE  Leads(x, w, A)
    <2>1. Len(u) + i \in DOMAIN w /\ w[Len(u) + i] = x
      <3>1. Len(u) + i \in 1..(Len(u) + Len(v)) /\ ~(Len(u) + i <= Len(u)) /\ (Len(u) + i) - Len(u) = i
        BY <1>2
      <3> QED
        BY <1>1, <1>2, <1>4, <3>1
    <2>2. ASSUME NEW j \in 1..((Len(u) + i) - 1) PROVE w[j] \notin A
      <3>1. CASE j <= Len(u)
        <4>1. w[j] = u[j] /\ j \in DOMAIN u
          BY <1>1, <1>2, <3>1
        <4>2. u[j] \in Range(u)
          BY <4>1 DEF Range
        <4> QED
          BY <1>4, <4>1, <4>2
      <3>2. CASE ~(j <= Len(u))
        <4>1. j - Len(u) \in 1..(i - 1) /\ j \in 1..(Len(u) + Len(v))
          BY <1>2, <3>2
        <4>2. w[j] = v[j - Len(u)]
          BY <1>1, <3>2, <4>1
        <4> QED
          BY <1>4, <4>1, <4>2
      <3> QED
        BY <3>1, <3>2
    <2> QED
      BY <2>1, <2>2 DEF Leads
  <1> QED
    BY <1>3, <1>4 DEF Leads, w

LEMMA LeadsInAppend ==
  ASSUME NEW S, NEW s \in Seq(S), NEW y \in S, NEW x, NEW A
  PROVE  /\ Leads(x, s, A) => Leads(x, Append(s, y), A)
         /\ Leads(x, Append(s, y), A) => Leads(x, s, A) \/ (y = x /\ Range(s) \intersect A = {})
         /\ y = x /\ Range(s) \intersect A = {} => Leads(x, Append(s, y), A)
  <1> DEFINE t == Append(s, y)
  <1>1. /\ Len(s) \in Nat /\ DOMAIN s = 1..Len(s) /\ DOMAIN t = 1..(Len(s) + 1)
        /\ \A i \in 1..Len(s) : t[i] = s[i]
        /\ t[Len(s) + 1] = y
    <2>1. t \in Seq(S) /\ Len(t) = Len(s) + 1
      BY AppendProperties
    <2>2. DOMAIN t = 1..(Len(s) + 1)
      BY <2>1, LenProperties
    <2> QED
      BY <2>2, AppendProperties, LenProperties
  <1> HIDE DEF t
  <1>2. ASSUME NEW i \in 1..Len(s) PROVE i \in DOMAIN t /\ \A j \in 1..(i - 1) : t[j] = s[j]
    BY <1>1
  <1>3. Leads(x, s, A) => Leads(x, t, A)
    BY <1>1, <1>2 DEF Leads
  <1>4. ASSUME Leads(x, t, A) PROVE Leads(x, s, A) \/ (y = x /\ Range(s) \intersect A = {})
    <2>1. PICK i \in DOMAIN t : t[i] = x /\ \A j \in 1..(i - 1) : t[j] \notin A
      BY <1>4 DEF Leads
    <2>2. CASE i \in 1..Len(s)
      BY <1>1, <1>2, <2>1, <2>2 DEF Leads
    <2>3. CASE i = Len(s) + 1
      <3>1. y = x /\ i - 1 = Len(s)
        BY <1>1, <2>1, <2>3
      <3>2. \A j \in 1..Len(s) : s[j] \notin A
        BY <1>1, <2>1, <3>1
      <3> QED
        BY <1>1, <3>1, <3>2 DEF Range
    <2> QED
      BY <1>1, <2>2, <2>3
  <1>5. ASSUME y = x, Range(s) \intersect A = {} PROVE Leads(x, t, A)
    <2>1. \A j \in 1..Len(s) : s[j] \in Range(s)
      BY <1>1 DEF Range
    <2>2. Len(s) + 1 \in DOMAIN t /\ (Len(s) + 1) - 1 = Len(s)
      BY <1>1
    <2>3. \A j \in 1..((Len(s) + 1) - 1) : t[j] \notin A
      BY <1>1, <1>5, <2>1, <2>2
    <2> QED
      BY <1>1, <1>5, <2>2, <2>3 DEF Leads
  <1> QED
    BY <1>3, <1>4, <1>5 DEF t

\* Dropping others leaves x in front.
LEMMA LeadsWithout ==
  ASSUME NEW S, NEW s \in Seq(S), NEW drop, NEW x, x \notin drop, NEW A, Leads(x, s, A)
  PROVE  Leads(x, Without(s, drop), A)
  <1> DEFINE W(t) == Without(t, drop)
             T == {t \in Seq(S) : Leads(x, t, A) => Leads(x, W(t), A)}
  <1>1. <<>> \in T
    BY EmptySeq, WithoutEmpty
  <1>2. ASSUME NEW t \in Seq(S), NEW y \in S, t \in T PROVE Append(t, y) \in T
    <2>1. Append(t, y) \in Seq(S) /\ W(t) \in Seq(S) /\ Range(W(t)) = Range(t) \ drop
      BY AppendProperties, WithoutRange
    <2> SUFFICES ASSUME Leads(x, Append(t, y), A) PROVE Leads(x, W(Append(t, y)), A)
      BY <2>1
    <2>2. Leads(x, t, A) \/ (y = x /\ Range(t) \intersect A = {})
      BY LeadsInAppend
    <2>3. Leads(x, t, A) => Leads(x, W(t), A)
      BY <1>2
    <2>4. CASE y \in drop
      <3>1. W(Append(t, y)) = W(t)
        BY <2>4, WithoutAppend
      <3> HIDE DEF W
      <3> QED
        BY <2>2, <2>3, <2>4, <3>1
    <2>5. CASE y \notin drop
      <3>1. W(Append(t, y)) = Append(W(t), y)
        BY <2>5, WithoutAppend
      <3> HIDE DEF W
      <3>2. Leads(x, W(t), A) => Leads(x, Append(W(t), y), A)
        BY <2>1, LeadsInAppend
      <3>3. y = x /\ Range(t) \intersect A = {} => Leads(x, Append(W(t), y), A)
        BY <2>1, LeadsInAppend
      <3> QED
        BY <2>2, <2>3, <3>1, <3>2, <3>3
    <2> QED
      BY <2>4, <2>5
  <1> HIDE DEF T
  <1>3. Seq(S) \subseteq T
    BY <1>1, <1>2, ListInduction
  <1> QED
    BY <1>3 DEF T
-----------------------------------------------------------------------------
(* Descriptors *)

\* The lists of one object, and the lists with something new in front or behind.
LEMMA OwnRange ==
  ASSUME NEW S, NEW s \in Seq(S)
  PROVE  s \in Seq(Range(s)) /\ Range(s) \subseteq S
  <1>1. s \in [1..Len(s) -> S] /\ Len(s) \in Nat
    BY LenProperties
  <1>2. s \in [1..Len(s) -> Range(s)] /\ Range(s) \subseteq S
    BY <1>1 DEF Range
  <1> QED
    BY <1>1, <1>2, IsASeq

LEMMA ACEsIsRange ==
  ASSUME NEW s
  PROVE  ACEs(s) = Range(s.dacl)
  BY DEF ACEs, Range

\* A descriptor the directory accepts.
IsSD(s) ==
    s.dacl \in Seq(Range(s.dacl)) /\ s.revision \in Nat /\ s.revision >= aclRevisionFor(s.dacl)

ObjectTypes == {aceTypeAllowedObject, aceTypeDeniedObject}

\* The revision a list needs depends on what is in it.
LEMMA RevisionOf ==
  ASSUME NEW list
  PROVE  aclRevisionFor(list) = IF \E a \in Range(list) : a.type \in ObjectTypes THEN 4 ELSE 2
  BY DEF aclRevisionFor, ObjectTypes, Range, aclRevisionDS

LEMMA ProtectionType ==
  /\ protectionACE.type = aceTypeAccessDenied /\ isProtectionACE(protectionACE)
  /\ protectionACE.type \notin ObjectTypes /\ ~DeniesAny(protectionACE)
  BY DEF protectionACE, isProtectionACE, ObjectTypes, aceTypeAccessDenied, aceTypeAllowedObject,
         aceTypeDeniedObject, protectionMask, DeniesAny, deniedObject

LEMMA Joined ==
  ASSUME NEW u, u \in Seq(Range(u)), NEW v, v \in Seq(Range(v))
  PROVE  u \o v \in Seq(Range(u \o v)) /\ Range(u \o v) = Range(u) \union Range(v)
  <1>1. u \in Seq(Range(u) \union Range(v)) /\ v \in Seq(Range(u) \union Range(v))
    BY SeqMonotonic
  <1>2. u \o v \in Seq(Range(u) \union Range(v)) /\ Range(u \o v) = Range(u) \union Range(v)
    BY <1>1, ConcatProperties, RangeConcatenation
  <1> QED
    BY <1>2

LEMMA Short ==
  ASSUME NEW x, NEW y
  PROVE  /\ <<x>> \in Seq(Range(<<x>>)) /\ Range(<<x>>) = {x} /\ Len(<<x>>) = 1
         /\ <<x, y>> \in Seq(Range(<<x, y>>)) /\ Range(<<x, y>>) = {x, y} /\ Len(<<x, y>>) = 2
  <1>1. <<x>> \in Seq({x}) /\ <<x, y>> \in Seq({x, y}) /\ Len(<<x>>) = 1 /\ Len(<<x, y>>) = 2
    OBVIOUS
  <1>2. DOMAIN <<x>> = 1..1 /\ DOMAIN <<x, y>> = 1..2
    BY <1>1, LenProperties
  <1>3. Range(<<x>>) = {x} /\ Range(<<x, y>>) = {x, y}
    BY <1>2 DEF Range
  <1> QED
    BY <1>1, <1>3

\* What the operations drop, and what they put in front.
Prots(s) == {a \in ACEs(s) : isProtectionACE(a)}
Denials(s) == {a \in ACEs(s) : DeniesAny(a)}
DenyBoth == <<deniedObjectACE(RightControlAccess, ChangePassword, Everyone),
              deniedObjectACE(RightControlAccess, ChangePassword, Self)>>

LEMMA DenyBothDenies ==
  /\ DenyBoth \in Seq(Range(DenyBoth)) /\ Len(DenyBoth) = 2
  /\ Range(DenyBoth) # {}
  /\ \A a \in Range(DenyBoth) : DeniesAny(a) /\ a.type = aceTypeDeniedObject
  <1>1. /\ DenyBoth \in Seq(Range(DenyBoth)) /\ Len(DenyBoth) = 2
        /\ Range(DenyBoth) = {deniedObjectACE(RightControlAccess, ChangePassword, Everyone),
                              deniedObjectACE(RightControlAccess, ChangePassword, Self)}
    BY Short DEF DenyBoth
  <1>2. \A t \in Trustees : LET a == deniedObjectACE(RightControlAccess, ChangePassword, t)
                            IN DeniesAny(a) /\ a.type = aceTypeDeniedObject
    BY DEF deniedObjectACE, DeniesAny, deniedObject, RightControlAccess
  <1> QED
    BY <1>1, <1>2 DEF Trustees

LEMMA Protected ==
  ASSUME NEW s, s.dacl \in Seq(Range(s.dacl))
  PROVE  /\ IsProtected(s) \in BOOLEAN /\ (IsProtected(s) <=> Prots(s) # {})
         /\ SetProtected(s, IsProtected(s)) = Result(s, FALSE)
         /\ ~IsProtected(s) => SetProtected(s, TRUE) =
              Result([revision |-> s.revision,
                      dacl |-> <<protectionACE>> \o Without(s.dacl, Prots(s))], TRUE)
         /\ IsProtected(s) => SetProtected(s, FALSE) =
              Result([revision |-> s.revision, dacl |-> Without(s.dacl, Prots(s))], TRUE)
  <1>1. IsProtected(s) \in BOOLEAN
    BY Zenon DEF IsProtected
  <1>2. IsProtected(s) <=> Prots(s) # {}
    BY DEF IsProtected, Prots
  <1>3. SetProtected(s, IsProtected(s)) = Result(s, FALSE)
    BY DEF SetProtected
  <1>4. ASSUME ~IsProtected(s)
        PROVE  SetProtected(s, TRUE) =
                 Result([revision |-> s.revision,
                         dacl |-> <<protectionACE>> \o Without(s.dacl, Prots(s))], TRUE)
    <2>1. TRUE # IsProtected(s)
      BY <1>1, <1>4
    <2> QED
      BY <2>1 DEF SetProtected, Prots
  <1>5. ASSUME IsProtected(s)
        PROVE  SetProtected(s, FALSE) =
                 Result([revision |-> s.revision, dacl |-> Without(s.dacl, Prots(s))], TRUE)
    <2>1. FALSE # IsProtected(s)
      BY <1>1, <1>5
    <2> QED
      BY <2>1 DEF SetProtected, Prots
  <1> QED
    BY <1>1, <1>2, <1>3, <1>4, <1>5

LEMMA ProtectedLists ==
  ASSUME NEW s, s.dacl \in Seq(Range(s.dacl))
  PROVE  LET kept == Without(s.dacl, Prots(s))
         IN /\ kept \in Seq(Range(kept)) /\ Range(kept) = Range(s.dacl) \ Prots(s)
            /\ <<protectionACE>> \o kept \in Seq(Range(<<protectionACE>> \o kept))
            /\ Range(<<protectionACE>> \o kept) = {protectionACE} \union Range(kept)
  <1> DEFINE kept == Without(s.dacl, Prots(s))
  <1>1. kept \in Seq(Range(s.dacl)) /\ Range(kept) = Range(s.dacl) \ Prots(s)
    BY WithoutRange
  <1> HIDE DEF kept
  <1>2. kept \in Seq(Range(kept))
    BY <1>1, OwnRange
  <1>3. <<protectionACE>> \in Seq(Range(<<protectionACE>>)) /\ Range(<<protectionACE>>) = {protectionACE}
    BY Short
  <1>4. /\ <<protectionACE>> \o kept \in Seq(Range(<<protectionACE>> \o kept))
        /\ Range(<<protectionACE>> \o kept) = Range(<<protectionACE>>) \union Range(kept)
    BY <1>2, <1>3, Joined
  <1> QED
    BY <1>1, <1>2, <1>3, <1>4 DEF kept

\* Protection reads back as it was set, and is not set twice.
LEMMA ProtectionConverges ==
  ASSUME NEW s, s.dacl \in Seq(Range(s.dacl)), NEW on \in BOOLEAN
  PROVE  LET t == SetProtected(s, on).sd
         IN IsProtected(t) = on /\ ~SetProtected(t, on).ok
  <1> DEFINE t == SetProtected(s, on).sd
  <1>1. IsProtected(t) = on /\ t.dacl \in Seq(Range(t.dacl))
    <2>1. CASE on = IsProtected(s)
      <3>1. SetProtected(s, on) = Result(s, FALSE)
        BY <2>1, Protected, Zenon
      <3>2. t = s
        BY <3>1 DEF Result
      <3> QED
        BY <2>1, <3>2
    <2>2. CASE on = TRUE /\ ~IsProtected(s)
      <3>1. t.dacl = <<protectionACE>> \o Without(s.dacl, Prots(s))
        <4>1. SetProtected(s, on) =
                Result([revision |-> s.revision,
                        dacl |-> <<protectionACE>> \o Without(s.dacl, Prots(s))], TRUE)
          BY <2>2, Protected, Zenon
        <4> QED
          BY <4>1 DEF Result
      <3>2. protectionACE \in ACEs(t) /\ t.dacl \in Seq(Range(t.dacl))
        BY <3>1, ProtectedLists, ACEsIsRange
      <3>3. Prots(t) # {}
        BY <3>2, ProtectionType DEF Prots
      <3> HIDE DEF t
      <3>4. IsProtected(t) /\ IsProtected(t) \in BOOLEAN
        BY <3>2, <3>3, Protected
      <3> QED
        BY <2>2, <3>2, <3>4
    <2>3. CASE on = FALSE /\ IsProtected(s)
      <3>1. t.dacl = Without(s.dacl, Prots(s))
        <4>1. SetProtected(s, on) =
                Result([revision |-> s.revision, dacl |-> Without(s.dacl, Prots(s))], TRUE)
          BY <2>3, Protected, Zenon
        <4> QED
          BY <4>1 DEF Result
      <3>2. ACEs(t) = ACEs(s) \ Prots(s) /\ t.dacl \in Seq(Range(t.dacl))
        BY <3>1, ProtectedLists, ACEsIsRange
      <3>3. Prots(t) = {}
        BY <3>2 DEF Prots
      <3> HIDE DEF t
      <3>4. ~IsProtected(t) /\ IsProtected(t) \in BOOLEAN
        BY <3>2, <3>3, Protected
      <3> QED
        BY <2>3, <3>2, <3>4
    <2>4. IsProtected(s) \in BOOLEAN
      BY Protected
    <2> QED
      BY <2>1, <2>2, <2>3, <2>4
  <1> HIDE DEF t
  <1>2. SetProtected(t, IsProtected(t)) = Result(t, FALSE)
    BY <1>1, Protected
  <1>3. ~SetProtected(t, on).ok
    BY <1>1, <1>2 DEF Result
  <1> QED
    BY <1>1, <1>3 DEF t

RevisionDS(s) == IF s.revision > aclRevisionDS THEN s.revision ELSE aclRevisionDS
Matching(s) == Len(s.dacl) - Len(Without(s.dacl, Denials(s)))

LEMMA Denial ==
  ASSUME NEW s, s.dacl \in Seq(Range(s.dacl))
  PROVE  /\ HasDeniedObjectRight(s) \in BOOLEAN /\ (HasDeniedObjectRight(s) <=> Denials(s) # {})
         /\ Matching(s) = 2 => SetDeniedObjectRight(s, TRUE) = Result(s, FALSE)
         /\ Matching(s) # 2 => SetDeniedObjectRight(s, TRUE) =
              Result([revision |-> RevisionDS(s),
                      dacl |-> DenyBoth \o Without(s.dacl, Denials(s))], TRUE)
         /\ Matching(s) = 0 => SetDeniedObjectRight(s, FALSE) = Result(s, FALSE)
         /\ Matching(s) # 0 => SetDeniedObjectRight(s, FALSE) =
              Result([revision |-> RevisionDS(s), dacl |-> Without(s.dacl, Denials(s))], TRUE)
  <1>1. HasDeniedObjectRight(s) \in BOOLEAN
    BY Zenon DEF HasDeniedObjectRight
  <1>2. HasDeniedObjectRight(s) <=> Denials(s) # {}
    BY DEF HasDeniedObjectRight, Denials
  <1> DEFINE kept == Without(s.dacl, Denials(s))
  <1>3. SetDeniedObjectRight(s, TRUE) =
          IF Len(s.dacl) - Len(kept) = 2 THEN Result(s, FALSE)
          ELSE Result([revision |-> RevisionDS(s), dacl |-> DenyBoth \o kept], TRUE)
    BY DEF SetDeniedObjectRight, Denials, DenyBoth, RevisionDS
  <1>4. SetDeniedObjectRight(s, FALSE) =
          IF Len(s.dacl) - Len(kept) = 0 THEN Result(s, FALSE)
          ELSE Result([revision |-> RevisionDS(s), dacl |-> kept], TRUE)
    BY DEF SetDeniedObjectRight, Denials, DenyBoth, RevisionDS
  <1> QED
    BY <1>1, <1>2, <1>3, <1>4 DEF Matching

LEMMA DenialLists ==
  ASSUME NEW s, s.dacl \in Seq(Range(s.dacl))
  PROVE  LET kept == Without(s.dacl, Denials(s))
         IN /\ kept \in Seq(Range(kept)) /\ Range(kept) = Range(s.dacl) \ Denials(s)
            /\ DenyBoth \o kept \in Seq(Range(DenyBoth \o kept))
            /\ Range(DenyBoth \o kept) = Range(DenyBoth) \union Range(kept)
            /\ Len(DenyBoth \o kept) = 2 + Len(kept) /\ Len(kept) \in Nat /\ Len(s.dacl) \in Nat
            /\ Len(kept) = Len(s.dacl) => Denials(s) = {}
            /\ Denials(s) = {} => kept = s.dacl
  <1> DEFINE kept == Without(s.dacl, Denials(s))
  <1>1. /\ kept \in Seq(Range(s.dacl)) /\ Range(kept) = Range(s.dacl) \ Denials(s)
        /\ Len(kept) \in Nat /\ Len(s.dacl) \in Nat
    BY WithoutRange, LenProperties
  <1>2. /\ Len(kept) = Len(s.dacl) => Denials(s) = {}
        /\ Denials(s) = {} => kept = s.dacl
    <2>1. Denials(s) \subseteq Range(s.dacl)
      BY ACEsIsRange DEF Denials
    <2> QED
      BY <2>1, WithoutNothing
  <1> HIDE DEF kept
  <1>3. kept \in Seq(Range(kept))
    BY <1>1, OwnRange
  <1>4. /\ DenyBoth \o kept \in Seq(Range(DenyBoth \o kept))
        /\ Range(DenyBoth \o kept) = Range(DenyBoth) \union Range(kept)
    BY <1>3, DenyBothDenies, Joined
  <1>5. Len(DenyBoth \o kept) = 2 + Len(kept)
    <2> DEFINE S == Range(DenyBoth) \union Range(kept)
    <2>1. DenyBoth \in Seq(S) /\ kept \in Seq(S)
      BY <1>3, DenyBothDenies, SeqMonotonic
    <2>2. Len(DenyBoth \o kept) = Len(DenyBoth) + Len(kept)
      <3> HIDE DEF S
      <3> QED
        BY <2>1, ConcatProperties
    <2> QED
      BY <2>2, DenyBothDenies
  <1> QED
    BY <1>1, <1>2, <1>3, <1>4, <1>5 DEF kept

\* A list that begins with the two denials and has no other matches twice.
LEMMA MatchingBoth ==
  ASSUME NEW s, s.dacl \in Seq(Range(s.dacl)), NEW t,
         t.dacl = DenyBoth \o Without(s.dacl, Denials(s))
  PROVE  /\ Matching(t) = 2 /\ Denials(t) # {} /\ t.dacl \in Seq(Range(t.dacl))
         /\ Without(t.dacl, Denials(t)) = Without(s.dacl, Denials(s))
  <1> DEFINE kept == Without(s.dacl, Denials(s))
             S == Range(DenyBoth) \union Range(kept)
  <1>1. /\ t.dacl \in Seq(Range(t.dacl)) /\ kept \in Seq(Range(kept))
        /\ Range(t.dacl) = Range(DenyBoth) \union Range(kept)
        /\ Len(t.dacl) = 2 + Len(kept) /\ Len(kept) \in Nat
        /\ Range(kept) = Range(s.dacl) \ Denials(s)
    BY DenialLists
  <1>2. Range(kept) \intersect Denials(t) = {} /\ Range(DenyBoth) \subseteq Denials(t)
    <2>1. ACEs(t) = Range(t.dacl) /\ ACEs(s) = Range(s.dacl)
      BY ACEsIsRange
    <2>2. \A a \in Range(DenyBoth) : DeniesAny(a)
      BY DenyBothDenies
    <2> QED
      BY <1>1, <2>1, <2>2 DEF Denials
  <1>3. t.dacl = DenyBoth \o kept
    OBVIOUS
  <1> HIDE DEF kept
  <1>4. DenyBoth \in Seq(S) /\ kept \in Seq(S)
    BY <1>1, DenyBothDenies, SeqMonotonic
  <1>5. Without(t.dacl, Denials(t)) = Without(DenyBoth, Denials(t)) \o Without(kept, Denials(t))
    BY <1>3, <1>4, WithoutConcat
  <1>6. Without(DenyBoth, Denials(t)) = <<>>
    BY <1>2, <1>4, WithoutAll
  <1>7. Without(kept, Denials(t)) = kept
    BY <1>2, <1>4, WithoutNothing
  <1>8. Without(t.dacl, Denials(t)) = kept
    BY <1>4, <1>5, <1>6, <1>7, ConcatEmptySeq
  <1>9. Denials(t) # {}
    BY <1>2, DenyBothDenies
  <1> QED
    BY <1>1, <1>8, <1>9 DEF Matching, kept

\* So does the denied password change.
LEMMA DenialConverges ==
  ASSUME NEW s, s.dacl \in Seq(Range(s.dacl)), NEW on \in BOOLEAN
  PROVE  LET t == SetDeniedObjectRight(s, on).sd
         IN HasDeniedObjectRight(t) = on /\ ~SetDeniedObjectRight(t, on).ok
  <1> DEFINE t == SetDeniedObjectRight(s, on).sd
  <1>0. Len(s.dacl) \in Nat /\ Len(Without(s.dacl, Denials(s))) \in Nat
    BY DenialLists
  <1>1. CASE on = TRUE
    <2>1. t.dacl \in Seq(Range(t.dacl)) /\ Matching(t) = 2 /\ Denials(t) # {}
      <3>1. CASE Matching(s) = 2
        <4>1. SetDeniedObjectRight(s, on) = Result(s, FALSE)
          BY <1>1, <3>1, Denial, Zenon
        <4>2. t = s
          BY <4>1 DEF Result
        <4>3. Denials(s) # {}
          <5>1. Len(Without(s.dacl, Denials(s))) # Len(s.dacl)
            BY <1>0, <3>1 DEF Matching
          <5> QED
            BY <5>1, DenialLists
        <4> QED
          BY <3>1, <4>2, <4>3
      <3>2. CASE Matching(s) # 2
        <4>1. SetDeniedObjectRight(s, on) =
                Result([revision |-> RevisionDS(s),
                        dacl |-> DenyBoth \o Without(s.dacl, Denials(s))], TRUE)
          BY <1>1, <3>2, Denial, Zenon
        <4>2. t.dacl = DenyBoth \o Without(s.dacl, Denials(s))
          BY <4>1 DEF Result
        <4> HIDE DEF t
        <4> QED
          BY <4>2, MatchingBoth
      <3> QED
        BY <3>1, <3>2
    <2> HIDE DEF t
    <2>2. HasDeniedObjectRight(t) = on
      BY <1>1, <2>1, Denial
    <2>3. SetDeniedObjectRight(t, on) = Result(t, FALSE)
      BY <1>1, <2>1, Denial, Zenon
    <2>4. ~SetDeniedObjectRight(t, on).ok
      BY <2>3 DEF Result
    <2> QED
      BY <2>2, <2>4 DEF t
  <1>2. CASE on = FALSE
    <2>1. t.dacl \in Seq(Range(t.dacl)) /\ Denials(t) = {}
      <3>1. CASE Matching(s) = 0
        <4>1. SetDeniedObjectRight(s, on) = Result(s, FALSE)
          BY <1>2, <3>1, Denial, Zenon
        <4>2. t = s
          BY <4>1 DEF Result
        <4>3. Len(Without(s.dacl, Denials(s))) = Len(s.dacl)
          BY <1>0, <3>1 DEF Matching
        <4> QED
          BY <4>2, <4>3, DenialLists
      <3>2. CASE Matching(s) # 0
        <4>1. SetDeniedObjectRight(s, on) =
                Result([revision |-> RevisionDS(s), dacl |-> Without(s.dacl, Denials(s))], TRUE)
          BY <1>2, <3>2, Denial, Zenon
        <4>2. t.dacl = Without(s.dacl, Denials(s))
          BY <4>1 DEF Result
        <4>3. ACEs(t) = ACEs(s) \ Denials(s) /\ t.dacl \in Seq(Range(t.dacl))
          BY <4>2, DenialLists, ACEsIsRange
        <4> QED
          BY <4>3 DEF Denials
      <3> QED
        BY <3>1, <3>2
    <2> HIDE DEF t
    <2>2. HasDeniedObjectRight(t) = on
      BY <1>2, <2>1, Denial
    <2>3. Matching(t) = 0
      <3>1. Without(t.dacl, Denials(t)) = t.dacl /\ Len(t.dacl) \in Nat
        BY <2>1, DenialLists
      <3> QED
        BY <3>1 DEF Matching
    <2>4. SetDeniedObjectRight(t, on) = Result(t, FALSE)
      BY <1>2, <2>1, <2>3, Denial, Zenon
    <2>5. ~SetDeniedObjectRight(t, on).ok
      BY <2>4 DEF Result
    <2> QED
      BY <2>2, <2>5 DEF t
  <1> QED
    BY <1>1, <1>2
-----------------------------------------------------------------------------
(* The order and the revision *)

IsAllow(a) == a.type \in {aceTypeAccessAllowed, aceTypeAllowedObject}

\* The protection ACE stands in list, and nothing that allows before it.
InFront(list) ==
    \E i \in DOMAIN list : list[i] = protectionACE /\ \A j \in 1..(i - 1) : ~IsAllow(list[j])

LEMMA InFrontLeads ==
  ASSUME NEW U, NEW list \in Seq(U)
  PROVE  InFront(list) <=> Leads(protectionACE, list, {a \in U : IsAllow(a)})
  <1>1. list \in [1..Len(list) -> U] /\ Len(list) \in Nat /\ DOMAIN list = 1..Len(list)
    BY LenProperties
  <1>2. \A i \in DOMAIN list : \A j \in 1..(i - 1) : list[j] \in U
    BY <1>1
  <1> QED
    BY <1>2 DEF InFront, Leads

LEMMA InFrontConcat ==
  ASSUME NEW u, u \in Seq(Range(u)), NEW v, v \in Seq(Range(v))
  PROVE  /\ InFront(u) => InFront(u \o v)
         /\ InFront(v) /\ (\A a \in Range(u) : ~IsAllow(a)) => InFront(u \o v)
  <1> DEFINE U == Range(u) \union Range(v)
             A == {a \in U : IsAllow(a)}
  <1>1. u \in Seq(U) /\ v \in Seq(U)
    BY SeqMonotonic
  <1>2. (\A a \in Range(u) : ~IsAllow(a)) => Range(u) \intersect A = {}
    OBVIOUS
  <1> HIDE DEF U
  <1>3. u \o v \in Seq(U)
    BY <1>1, ConcatProperties
  <1>4. /\ InFront(u) <=> Leads(protectionACE, u, A)
        /\ InFront(v) <=> Leads(protectionACE, v, A)
        /\ InFront(u \o v) <=> Leads(protectionACE, u \o v, A)
    BY <1>1, <1>3, InFrontLeads
  <1> HIDE DEF A
  <1> QED
    BY <1>1, <1>2, <1>4, LeadsInConcat

LEMMA InFrontWithout ==
  ASSUME NEW U, NEW list \in Seq(U), NEW drop, protectionACE \notin drop, InFront(list)
  PROVE  InFront(Without(list, drop))
  <1>1. Without(list, drop) \in Seq(U)
    BY WithoutRange
  <1> QED
    BY <1>1, InFrontLeads, LeadsWithout

LEMMA InFrontAlone == InFront(<<protectionACE>>)
  <1>1. 1 \in DOMAIN <<protectionACE>> /\ <<protectionACE>>[1] = protectionACE
    OBVIOUS
  <1> QED
    BY <1>1 DEF InFront

\* A list that has no object ACE more needs no other revision.
LEMMA RevisionKept ==
  ASSUME NEW s, IsSD(s), NEW list, list \in Seq(Range(list)),
         \A a \in Range(list) : a.type \in ObjectTypes => a \in Range(s.dacl)
  PROVE  IsSD([revision |-> s.revision, dacl |-> list])
  <1>1. s.revision \in Nat /\ s.revision >= aclRevisionFor(s.dacl)
    BY DEF IsSD
  <1>2. s.revision >= aclRevisionFor(list)
    BY <1>1, RevisionOf
  <1> QED
    BY <1>1, <1>2 DEF IsSD

LEMMA RevisionRaised ==
  ASSUME NEW s, s.revision \in Nat, NEW list, list \in Seq(Range(list))
  PROVE  IsSD([revision |-> RevisionDS(s), dacl |-> list])
  <1>1. RevisionDS(s) \in Nat /\ RevisionDS(s) >= 4
    BY DEF RevisionDS, aclRevisionDS
  <1>2. aclRevisionFor(list) \in {2, 4}
    BY RevisionOf
  <1> QED
    BY <1>1, <1>2 DEF IsSD

LEMMA RevisionComputed ==
  ASSUME NEW list, list \in Seq(Range(list))
  PROVE  IsSD([revision |-> aclRevisionFor(list), dacl |-> list])
  <1>1. aclRevisionFor(list) \in {2, 4}
    BY RevisionOf
  <1> QED
    BY <1>1 DEF IsSD

LEMMA KeepsProtected ==
  ASSUME NEW s, IsSD(s), NEW on \in BOOLEAN, SetProtected(s, on).ok
  PROVE  LET t == SetProtected(s, on).sd IN IsSD(t) /\ (on => InFront(t.dacl))
  <1> DEFINE kept == Without(s.dacl, Prots(s))
  <1>0. s.dacl \in Seq(Range(s.dacl))
    BY DEF IsSD
  <1>1. on # IsProtected(s)
    <2> SUFFICES ASSUME on = IsProtected(s) PROVE FALSE
      OBVIOUS
    <2>1. SetProtected(s, on) = Result(s, FALSE)
      BY <1>0, Protected, Zenon
    <2> QED
      BY <2>1 DEF Result
  <1>2. /\ kept \in Seq(Range(kept)) /\ Range(kept) \subseteq Range(s.dacl)
        /\ <<protectionACE>> \o kept \in Seq(Range(<<protectionACE>> \o kept))
        /\ Range(<<protectionACE>> \o kept) = {protectionACE} \union Range(kept)
    BY <1>0, ProtectedLists
  <1>3. CASE on = TRUE
    <2>1. ~IsProtected(s)
      BY <1>0, <1>1, <1>3, Protected
    <2>2. SetProtected(s, on) =
            Result([revision |-> s.revision, dacl |-> <<protectionACE>> \o kept], TRUE)
      BY <1>0, <1>3, <2>1, Protected, Zenon
    <2> HIDE DEF kept
    <2>3. SetProtected(s, on).sd = [revision |-> s.revision, dacl |-> <<protectionACE>> \o kept]
      BY <2>2 DEF Result
    <2>4. IsSD([revision |-> s.revision, dacl |-> <<protectionACE>> \o kept])
      BY <1>2, ProtectionType, RevisionKept
    <2>5. InFront(<<protectionACE>> \o kept)
      BY <1>2, Short, InFrontAlone, InFrontConcat
    <2> QED
      BY <2>3, <2>4, <2>5
  <1>4. CASE on = FALSE
    <2>1. IsProtected(s)
      BY <1>0, <1>1, <1>4, Protected
    <2>2. SetProtected(s, on) = Result([revision |-> s.revision, dacl |-> kept], TRUE)
      BY <1>0, <1>4, <2>1, Protected, Zenon
    <2> HIDE DEF kept
    <2>3. SetProtected(s, on).sd = [revision |-> s.revision, dacl |-> kept]
      BY <2>2 DEF Result
    <2>4. IsSD([revision |-> s.revision, dacl |-> kept])
      BY <1>2, RevisionKept
    <2> QED
      BY <1>4, <2>3, <2>4
  <1> QED
    BY <1>3, <1>4

LEMMA KeepsDenied ==
  ASSUME NEW s, IsSD(s), NEW on \in BOOLEAN, SetDeniedObjectRight(s, on).ok
  PROVE  LET t == SetDeniedObjectRight(s, on).sd
         IN IsSD(t) /\ (InFront(s.dacl) => InFront(t.dacl))
  <1> DEFINE kept == Without(s.dacl, Denials(s))
  <1>0. s.dacl \in Seq(Range(s.dacl)) /\ s.revision \in Nat
    BY DEF IsSD
  <1>1. /\ kept \in Seq(Range(kept)) /\ DenyBoth \o kept \in Seq(Range(DenyBoth \o kept))
    BY <1>0, DenialLists
  <1>2. InFront(s.dacl) => InFront(kept)
    <2>1. protectionACE \notin Denials(s)
      BY ProtectionType DEF Denials
    <2> QED
      BY <1>0, <2>1, InFrontWithout
  <1>3. InFront(kept) => InFront(DenyBoth \o kept)
    <2>1. \A a \in Range(DenyBoth) : ~IsAllow(a)
      BY DenyBothDenies DEF IsAllow, aceTypeDeniedObject, aceTypeAccessAllowed, aceTypeAllowedObject
    <2> QED
      BY <1>1, <2>1, DenyBothDenies, InFrontConcat
  <1>4. IsSD([revision |-> RevisionDS(s), dacl |-> DenyBoth \o kept])
    BY <1>0, <1>1, RevisionRaised
  <1>5. IsSD([revision |-> RevisionDS(s), dacl |-> kept])
    BY <1>0, <1>1, RevisionRaised
  <1>6. CASE on = TRUE
    <2>1. \/ SetDeniedObjectRight(s, on) = Result(s, FALSE)
          \/ SetDeniedObjectRight(s, on) =
               Result([revision |-> RevisionDS(s), dacl |-> DenyBoth \o kept], TRUE)
      BY <1>0, <1>6, Denial, Zenon
    <2> HIDE DEF kept
    <2>2. SetDeniedObjectRight(s, on).sd = [revision |-> RevisionDS(s), dacl |-> DenyBoth \o kept]
      BY <2>1 DEF Result
    <2> QED
      BY <1>2, <1>3, <1>4, <2>2
  <1>7. CASE on = FALSE
    <2>1. \/ SetDeniedObjectRight(s, on) = Result(s, FALSE)
          \/ SetDeniedObjectRight(s, on) = Result([revision |-> RevisionDS(s), dacl |-> kept], TRUE)
      BY <1>0, <1>7, Denial, Zenon
    <2> HIDE DEF kept
    <2>2. SetDeniedObjectRight(s, on).sd = [revision |-> RevisionDS(s), dacl |-> kept]
      BY <2>1 DEF Result
    <2> QED
      BY <1>2, <1>5, <2>2
  <1> QED
    BY <1>6, <1>7

\* What Grant adds, and what Revoke drops.
Absent(s, list) == Without(list, {r \in Range(list) : CanonicalACEKey(r) \in Have(s)})
Encoded(list) == [i \in DOMAIN list |-> EncodeACE(list[i])]
Revoked(s, keys) == {a \in ACEs(s) : Modelled(a) /\ ~Inherited(a) /\ keyOf(a) \in keys}

LEMMA EncodedList ==
  ASSUME NEW S, NEW list \in Seq(S)
  PROVE  /\ Encoded(list) \in Seq(Range(Encoded(list)))
         /\ Range(Encoded(list)) = {EncodeACE(r) : r \in Range(list)}
         /\ Encoded(list) = <<>> <=> list = <<>>
  <1>1. Len(list) \in Nat /\ DOMAIN list = 1..Len(list)
    BY LenProperties
  <1>2. DOMAIN Encoded(list) = DOMAIN list /\ \A i \in DOMAIN list : Encoded(list)[i] = EncodeACE(list[i])
    BY DEF Encoded
  <1>3. Range(Encoded(list)) = {EncodeACE(r) : r \in Range(list)}
    BY <1>2 DEF Range
  <1>4. Encoded(list) \in [1..Len(list) -> Range(Encoded(list))]
    BY <1>1, <1>2 DEF Encoded, Range
  <1>5. Encoded(list) \in Seq(Range(Encoded(list)))
    BY <1>1, <1>4, IsASeq
  <1>6. Len(Encoded(list)) = Len(list)
    BY <1>1, <1>2, <1>5, LenProperties
  <1>7. Encoded(list) = <<>> <=> list = <<>>
    BY <1>5, <1>6, EmptySeq
  <1> QED
    BY <1>3, <1>5, <1>7

LEMMA GrantIs ==
  ASSUME NEW s, NEW list
  PROVE  GrantACEs(s, list) =
           IF (\A i \in DOMAIN Absent(s, list) : Decodes(Absent(s, list)[i]))
                /\ Encoded(Absent(s, list)) # <<>>
             THEN Result([revision |-> aclRevisionFor(s.dacl \o Encoded(Absent(s, list))),
                          dacl |-> s.dacl \o Encoded(Absent(s, list))], TRUE)
             ELSE Result(s, FALSE)
  BY DEF GrantACEs, Absent, Encoded, AddACEs

LEMMA RevokeIs ==
  ASSUME NEW s, NEW list
  PROVE  \/ RevokeACEs(s, list) = Result(s, FALSE)
         \/ RevokeACEs(s, list) =
              Result([revision |-> aclRevisionFor(Without(s.dacl, Revoked(s, Range(list)))),
                      dacl |-> Without(s.dacl, Revoked(s, Range(list)))], TRUE)
  <1>1. {CanonicalACEKey(list[i]) : i \in DOMAIN list} = Range(list)
    BY DEF CanonicalACEKey, Range
  <1> QED
    BY <1>1 DEF RevokeACEs, RemoveACEs, Revoked

LEMMA KeepsGranted ==
  ASSUME NEW s, IsSD(s), NEW list, list \in Seq(Range(list)), GrantACEs(s, list).ok
  PROVE  LET t == GrantACEs(s, list).sd IN IsSD(t) /\ (InFront(s.dacl) => InFront(t.dacl))
  <1> DEFINE add == Encoded(Absent(s, list))
  <1>1. Absent(s, list) \in Seq(Range(list))
    BY WithoutRange DEF Absent
  <1>2. add \in Seq(Range(add)) /\ s.dacl \in Seq(Range(s.dacl))
    BY <1>1, EncodedList DEF IsSD
  <1>3. GrantACEs(s, list).sd = [revision |-> aclRevisionFor(s.dacl \o add), dacl |-> s.dacl \o add]
    BY GrantIs DEF Result
  <1> HIDE DEF add
  <1>4. s.dacl \o add \in Seq(Range(s.dacl \o add))
    BY <1>2, Joined
  <1>5. IsSD([revision |-> aclRevisionFor(s.dacl \o add), dacl |-> s.dacl \o add])
    BY <1>4, RevisionComputed
  <1>6. InFront(s.dacl) => InFront(s.dacl \o add)
    BY <1>2, InFrontConcat
  <1> QED
    BY <1>3, <1>5, <1>6

LEMMA KeepsRevoked ==
  ASSUME NEW s, IsSD(s), NEW list, RevokeACEs(s, list).ok
  PROVE  LET t == RevokeACEs(s, list).sd
         IN IsSD(t) /\ (InFront(s.dacl) /\ protectionACE \in Range(t.dacl) => InFront(t.dacl))
  <1> DEFINE drop == Revoked(s, Range(list))
             kept == Without(s.dacl, drop)
  <1>1. RevokeACEs(s, list).sd = [revision |-> aclRevisionFor(kept), dacl |-> kept]
    BY RevokeIs DEF Result
  <1>2. s.dacl \in Seq(Range(s.dacl))
    BY DEF IsSD
  <1> HIDE DEF drop
  <1>3. kept \in Seq(Range(s.dacl)) /\ Range(kept) = Range(s.dacl) \ drop
    BY <1>2, WithoutRange
  <1>4. protectionACE \in Range(kept) /\ InFront(s.dacl) => InFront(kept)
    BY <1>2, <1>3, InFrontWithout
  <1> HIDE DEF kept
  <1>5. kept \in Seq(Range(kept))
    BY <1>3, OwnRange
  <1>6. IsSD([revision |-> aclRevisionFor(kept), dacl |-> kept])
    BY <1>5, RevisionComputed
  <1> QED
    BY <1>1, <1>4, <1>6
-----------------------------------------------------------------------------
SDInv == IsSD(sd) /\ wrote \in BOOLEAN /\ (wrote => InFront(sd.dacl))

LEMMA InvInit == SDInit => SDInv
  BY SDAssumption DEF SDInit, SDInv, IsSD

LEMMA InvNext == SDInv /\ [SDNext]_sdVars => SDInv'
  <1> SUFFICES ASSUME SDInv, [SDNext]_sdVars PROVE SDInv'
    OBVIOUS
  <1>0. IsSD(sd)
    BY DEF SDInv
  <1>1. CASE UNCHANGED sdVars
    BY <1>1 DEF sdVars, SDInv
  <1>2. ASSUME NEW on \in BOOLEAN, Protect(on) PROVE SDInv'
    <2>1. SetProtected(sd, on).ok /\ sd' = SetProtected(sd, on).sd /\ wrote' = on
      BY <1>2 DEF Protect, Write
    <2>2. IsSD(sd') /\ (on => InFront(sd'.dacl))
      BY <1>0, <2>1, KeepsProtected
    <2> QED
      BY <2>1, <2>2 DEF SDInv
  <1>3. ASSUME NEW on \in BOOLEAN, DenyChangePassword(on) PROVE SDInv'
    <2>1. SetDeniedObjectRight(sd, on).ok /\ sd' = SetDeniedObjectRight(sd, on).sd /\ UNCHANGED wrote
      BY <1>3 DEF DenyChangePassword, Write
    <2>2. IsSD(sd') /\ (InFront(sd.dacl) => InFront(sd'.dacl))
      BY <1>0, <2>1, KeepsDenied
    <2> QED
      BY <2>1, <2>2 DEF SDInv
  <1>4. ASSUME NEW list \in Requests, Grant(list) PROVE SDInv'
    <2>1. GrantACEs(sd, list).ok /\ sd' = GrantACEs(sd, list).sd /\ UNCHANGED wrote
      BY <1>4 DEF Grant, Write
    <2>2. IsSD(sd') /\ (InFront(sd.dacl) => InFront(sd'.dacl))
      BY <1>0, <2>1, RequestAssumption, KeepsGranted
    <2> QED
      BY <2>1, <2>2 DEF SDInv
  <1>5. ASSUME NEW list \in Requests, Revoke(list) PROVE SDInv'
    <2>1. /\ RevokeACEs(sd, list).ok /\ sd' = RevokeACEs(sd, list).sd
          /\ wrote' = (wrote /\ protectionACE \in Range(sd'.dacl))
      BY <1>5 DEF Revoke, Write, Range
    <2>2. IsSD(sd') /\ (InFront(sd.dacl) /\ protectionACE \in Range(sd'.dacl) => InFront(sd'.dacl))
      BY <1>0, <2>1, KeepsRevoked
    <2>3. wrote' \in BOOLEAN /\ (wrote' => wrote /\ protectionACE \in Range(sd'.dacl))
      BY <2>1, Zenon
    <2> QED
      BY <2>2, <2>3 DEF SDInv
  <1> QED
    BY <1>1, <1>2, <1>3, <1>4, <1>5 DEF SDNext

LEMMA InvAlways == SDSpec => []SDInv
  BY InvInit, InvNext, PTL DEF SDSpec

\* secdesc.go 269-273 and 425-429, ace.go 212-222: through any sequence of operations that
\* each compute the revision their own way, a list with an object ACE has the revision the
\* directory demands of it.
THEOREM RevisionAlwaysFits == SDSpec => []RevisionFits
  <1>1. SDInv => RevisionFits
    BY DEF SDInv, IsSD, RevisionFits
  <1> QED
    BY <1>1, InvAlways, PTL

\* secdesc.go 237-243, "a Deny placed after an Allow that grants delete would never be
\* reached": while the ACE of SetProtected is there, both delete rights stay denied to
\* everyone, whatever is granted, denied or revoked besides.
THEOREM ProtectionIsEffective == SDSpec => []ProtectionStaysEffective
  <1>1. SDInv => ProtectionStaysEffective
    <2> SUFFICES ASSUME SDInv, wrote, NEW r \in protectionMask PROVE Denied(sd, r)
      BY DEF ProtectionStaysEffective
    <2>1. PICK i \in DOMAIN sd.dacl :
            sd.dacl[i] = protectionACE /\ \A j \in 1..(i - 1) : ~IsAllow(sd.dacl[j])
      BY DEF SDInv, InFront
    <2>2. DeniesAll(protectionACE, r)
      BY DEF DeniesAll, protectionACE
    <2>3. \A j \in 1..(i - 1) : ~Allows(sd.dacl[j], r)
      BY <2>1 DEF Allows, IsAllow
    <2> QED
      BY <2>1, <2>2, <2>3 DEF Denied
  <1> QED
    BY <1>1, InvAlways, PTL

\* secdesc.go 237-276 and 380-432: protection and the denied password change read back as
\* they were set, on any list, and setting them again writes nothing.
THEOREM SettersAlwaysConverge == SDSpec => []SettersConverge
  <1>1. SDInv => SettersConverge
    <2> SUFFICES ASSUME SDInv, NEW on \in BOOLEAN
                 PROVE  LET s == SetProtected(sd, on).sd
                            d == SetDeniedObjectRight(sd, on).sd
                        IN /\ IsProtected(s) = on /\ ~SetProtected(s, on).ok
                           /\ HasDeniedObjectRight(d) = on /\ ~SetDeniedObjectRight(d, on).ok
      BY DEF SettersConverge
    <2>1. sd.dacl \in Seq(Range(sd.dacl))
      BY DEF SDInv, IsSD
    <2> QED
      BY <2>1, ProtectionConverges, DenialConverges, Zenon
  <1> QED
    BY <1>1, InvAlways, PTL
-----------------------------------------------------------------------------
(* Doing and undoing *)

LEMMA ProtectionUndone ==
  ASSUME NEW s, s.dacl \in Seq(Range(s.dacl)), ~IsProtected(s),
         NEW on, on = TRUE, NEW off, off = FALSE
  PROVE  SetProtected(SetProtected(s, on).sd, off).sd.dacl = s.dacl
  <1> DEFINE t == SetProtected(s, on).sd
             first == <<protectionACE>>
  <1>1. Prots(s) = {}
    BY Protected
  <1>2. Without(s.dacl, Prots(s)) = s.dacl
    BY <1>1, WithoutNothing
  <1>3. t.dacl = first \o s.dacl
    <2>1. SetProtected(s, on) =
            Result([revision |-> s.revision, dacl |-> <<protectionACE>> \o s.dacl], TRUE)
      BY <1>2, Protected, Zenon
    <2> QED
      BY <2>1 DEF Result
  <1>4. /\ first \in Seq(Range(first))
        /\ Range(first) = {protectionACE}
    BY Short
  <1> HIDE DEF t, first
  <1>5. t.dacl \in Seq(Range(t.dacl)) /\ Range(t.dacl) = {protectionACE} \union Range(s.dacl)
    <2>1. /\ first \o s.dacl \in Seq(Range(first \o s.dacl))
          /\ Range(first \o s.dacl) = Range(first) \union Range(s.dacl)
      BY <1>4, Joined
    <2> QED
      BY <1>3, <1>4, <2>1
  <1>6. protectionACE \in Prots(t) /\ Range(s.dacl) \intersect Prots(t) = {}
    BY <1>1, <1>5, ProtectionType, ACEsIsRange DEF Prots
  <1>7. first \in Seq(Range(t.dacl)) /\ s.dacl \in Seq(Range(t.dacl))
    BY <1>4, <1>5, SeqMonotonic
  <1>8. Without(t.dacl, Prots(t)) = Without(first, Prots(t)) \o Without(s.dacl, Prots(t))
    BY <1>3, <1>7, WithoutConcat
  <1>9. Without(first, Prots(t)) = <<>>
    <2>1. Range(first) \subseteq Prots(t)
      BY <1>4, <1>6
    <2> QED
      BY <1>7, <2>1, WithoutAll
  <1>10. Without(s.dacl, Prots(t)) = s.dacl
    BY <1>6, <1>7, WithoutNothing
  <1>11. Without(t.dacl, Prots(t)) = s.dacl
    BY <1>7, <1>8, <1>9, <1>10, ConcatEmptySeq
  <1>12. IsProtected(t)
    BY <1>5, <1>6, Protected
  <1>13. SetProtected(t, off) = Result([revision |-> t.revision, dacl |-> s.dacl], TRUE)
    BY <1>5, <1>11, <1>12, Protected, Zenon
  <1>14. SetProtected(t, off).sd.dacl = s.dacl
    BY <1>13 DEF Result
  <1> QED
    BY <1>14 DEF t

LEMMA DenialUndone ==
  ASSUME NEW s, s.dacl \in Seq(Range(s.dacl)), ~HasDeniedObjectRight(s),
         NEW on, on = TRUE, NEW off, off = FALSE
  PROVE  SetDeniedObjectRight(SetDeniedObjectRight(s, on).sd, off).sd.dacl = s.dacl
  <1> DEFINE t == SetDeniedObjectRight(s, on).sd
  <1>1. Denials(s) = {}
    BY Denial
  <1>2. Without(s.dacl, Denials(s)) = s.dacl /\ Len(s.dacl) \in Nat
    BY <1>1, DenialLists
  <1>3. Matching(s) # 2
    BY <1>2 DEF Matching
  <1>4. t.dacl = DenyBoth \o Without(s.dacl, Denials(s))
    <2>1. SetDeniedObjectRight(s, on) =
            Result([revision |-> RevisionDS(s),
                    dacl |-> DenyBoth \o Without(s.dacl, Denials(s))], TRUE)
      BY <1>3, Denial, Zenon
    <2> QED
      BY <2>1 DEF Result
  <1> HIDE DEF t
  <1>5. /\ Matching(t) = 2 /\ t.dacl \in Seq(Range(t.dacl))
        /\ Without(t.dacl, Denials(t)) = Without(s.dacl, Denials(s))
    BY <1>4, MatchingBoth
  <1>6. Matching(t) # 0
    BY <1>5
  <1>7. SetDeniedObjectRight(t, off) =
          Result([revision |-> RevisionDS(t), dacl |-> Without(t.dacl, Denials(t))], TRUE)
    BY <1>5, <1>6, Denial, Zenon
  <1>8. SetDeniedObjectRight(t, off).sd.dacl = s.dacl
    BY <1>2, <1>5, <1>7 DEF Result
  <1> QED
    BY <1>8 DEF t

\* A request with its rights named as ACL.Get names them.
Named(r) == [r EXCEPT !.rights = RightsNames(RightsMask(r.rights))]
Seen(s, list) == [i \in DOMAIN list |-> Reported(s, list[i])]

\* Such a request decodes, and an ACE written for a request is found under it.
LEMMA KeyOfEncoded ==
  ASSUME NEW r, IsRequest(r)
  PROVE  /\ Modelled(EncodeACE(r)) /\ ~Inherited(EncodeACE(r)) /\ keyOf(EncodeACE(r)) = Named(r)
         /\ Decodes(Named(r))
  <1> DEFINE a == EncodeACE(r)
             names == RightsNames(RightsMask(r.rights))
  <1>1. /\ a.flags = FlagsFor(r.inheritance) /\ a.mask = RightsMask(r.rights)
        /\ a.otype = r.otype /\ a.iotype = r.iotype /\ a.sid = r.sid
        /\ a.type = IF r.otype # NoGuid \/ r.iotype # NoGuid
                      THEN IF r.deny THEN aceTypeDeniedObject ELSE aceTypeAllowedObject
                      ELSE IF r.deny THEN aceTypeAccessDenied ELSE aceTypeAccessAllowed
    BY DEF EncodeACE
  <1>2. r.deny \in BOOLEAN /\ r.inheritance \in {"This", "Children", "Descendants"}
    BY DEF IsRequest
  <1>3. names \subseteq RightNames
    BY Zenon DEF RightsNames
  <1> HIDE DEF a
  <1>4. Modelled(a)
    BY <1>1 DEF Modelled
  <1>5. Deny(a) <=> r.deny
    BY <1>1, <1>2 DEF Deny, aceTypeDeniedObject, aceTypeAllowedObject, aceTypeAccessDenied,
                      aceTypeAccessAllowed
  <1>6. Deny(a) \in BOOLEAN
    BY SMT DEF Deny
  <1>7. Deny(a) = r.deny
    BY <1>2, <1>5, <1>6
  <1>8. ~Inherited(a) /\ InheritanceOf(a.flags) = r.inheritance
    BY <1>1, <1>2 DEF Inherited, FlagsFor, InheritanceOf
  <1>9. keyOf(a) = [sid |-> r.sid, deny |-> r.deny, rights |-> names, otype |-> r.otype,
                    iotype |-> r.iotype, inheritance |-> r.inheritance]
    BY <1>1, <1>7, <1>8, Zenon DEF keyOf
  <1>10. r = [sid |-> r.sid, deny |-> r.deny, rights |-> r.rights, otype |-> r.otype,
              iotype |-> r.iotype, inheritance |-> r.inheritance]
    BY DEF IsRequest
  <1> HIDE DEF names
  <1>11. /\ [r EXCEPT !.rights = names] =
              [sid |-> r.sid, deny |-> r.deny, rights |-> names, otype |-> r.otype,
               iotype |-> r.iotype, inheritance |-> r.inheritance]
         /\ [r EXCEPT !.rights = names].rights = names
    BY <1>10
  <1>12. Named(r) = [r EXCEPT !.rights = names]
    BY DEF Named, names
  <1> QED
    BY <1>3, <1>4, <1>8, <1>9, <1>11, <1>12 DEF a, Decodes

LEMMA SeenList ==
  ASSUME NEW s, NEW list, list \in Seq(Range(list))
  PROVE  /\ Seen(s, list) \in Seq(Range(Seen(s, list)))
         /\ Range(Seen(s, list)) = {Reported(s, r) : r \in Range(list)}
  <1>1. Len(list) \in Nat /\ DOMAIN list = 1..Len(list)
    BY LenProperties
  <1>2. Range(Seen(s, list)) = {Reported(s, r) : r \in Range(list)}
    BY DEF Seen, Range
  <1>3. Seen(s, list) \in [1..Len(list) -> Range(Seen(s, list))]
    BY <1>1 DEF Seen, Range
  <1> QED
    BY <1>1, <1>2, <1>3, IsASeq

LEMMA ReportedIs ==
  ASSUME NEW s, NEW r
  PROVE  Reported(s, r) = IF r \in Have(s) THEN r ELSE Named(r)
  BY DEF Reported, Named

\* Grant adds what is absent, and does not add it again.
LEMMA GrantConverges ==
  ASSUME NEW s, IsSD(s), NEW list, list \in Seq(Range(list)), \A r \in Range(list) : IsRequest(r),
         GrantACEs(s, list).ok
  PROVE  ~GrantACEs(GrantACEs(s, list).sd, Seen(s, list)).ok
  <1> DEFINE abs == Absent(s, list)
             add == Encoded(abs)
             t == GrantACEs(s, list).sd
             seen == Seen(s, list)
  <1>1. /\ abs \in Seq(Range(list))
        /\ Range(abs) = Range(list) \ {r \in Range(list) : CanonicalACEKey(r) \in Have(s)}
    BY WithoutRange DEF Absent
  <1>2. t.dacl = s.dacl \o add
    BY GrantIs DEF Result
  <1>3. seen \in Seq(Range(seen)) /\ Range(seen) = {Reported(s, r) : r \in Range(list)}
    BY SeenList
  <1> HIDE DEF t, abs, seen
  <1>4. /\ add \in Seq(Range(add)) /\ Range(add) = {EncodeACE(r) : r \in Range(abs)}
        /\ s.dacl \in Seq(Range(s.dacl))
    BY <1>1, EncodedList DEF IsSD
  <1> HIDE DEF add
  <1>5. Range(t.dacl) = Range(s.dacl) \union Range(add)
    BY <1>2, <1>4, Joined
  <1>6. ACEs(t) = ACEs(s) \union {EncodeACE(r) : r \in Range(abs)}
    BY <1>4, <1>5, ACEsIsRange
  <1>7. Have(s) \subseteq Have(t)
    BY <1>6 DEF Have
  <1>8. ASSUME NEW r \in Range(list) PROVE Reported(s, r) \in Have(t)
    <2>1. CASE r \in Have(s)
      BY <1>7, <2>1, ReportedIs
    <2>2. CASE r \notin Have(s)
      <3>1. r \in Range(abs)
        BY <1>1, <2>2 DEF CanonicalACEKey
      <3>2. Modelled(EncodeACE(r)) /\ ~Inherited(EncodeACE(r)) /\ keyOf(EncodeACE(r)) = Named(r)
        BY KeyOfEncoded
      <3>3. EncodeACE(r) \in ACEs(t)
        BY <1>6, <3>1
      <3> QED
        BY <2>2, <3>2, <3>3, ReportedIs DEF Have
    <2> QED
      BY <2>1, <2>2
  <1>9. Absent(t, seen) = <<>>
    <2>1. Range(seen) \subseteq {r \in Range(seen) : CanonicalACEKey(r) \in Have(t)}
      BY <1>3, <1>8 DEF CanonicalACEKey
    <2> QED
      BY <1>3, <2>1, WithoutAll DEF Absent
  <1>10. Encoded(Absent(t, seen)) = <<>>
    BY <1>9, EmptySeq, EncodedList
  <1>11. GrantACEs(t, seen) = Result(t, FALSE)
    BY <1>10, GrantIs
  <1>12. ~GrantACEs(t, seen).ok
    BY <1>11 DEF Result
  <1> QED
    BY <1>12 DEF t, seen

\* Revoke takes off what Grant put on, and nothing else.
LEMMA GrantUndone ==
  ASSUME NEW s, IsSD(s), NEW list, list \in Seq(Range(list)), \A r \in Range(list) : IsRequest(r),
         GrantACEs(s, list).ok,
         \A i \in DOMAIN list : {list[i], Seen(s, list)[i]} \intersect Have(s) = {}
  PROVE  RevokeACEs(GrantACEs(s, list).sd, Seen(s, list)).sd.dacl = s.dacl
  <1> DEFINE t == GrantACEs(s, list).sd
             add == Encoded(list)
             seen == Seen(s, list)
             drop == Revoked(t, Range(seen))
  <1>0. \A r \in Range(list) : r \notin Have(s) /\ Reported(s, r) = Named(r) /\ Named(r) \notin Have(s)
    <2>1. \A i \in DOMAIN list : Seen(s, list)[i] = Reported(s, list[i])
      BY DEF Seen
    <2>2. \A i \in DOMAIN list : list[i] \notin Have(s) /\ Reported(s, list[i]) \notin Have(s)
      BY <2>1
    <2>3. \A r \in Range(list) : r \notin Have(s) /\ Reported(s, r) \notin Have(s)
      BY <2>2 DEF Range
    <2> QED
      BY <2>3, ReportedIs
  <1>1. Absent(s, list) = list
    <2>1. Range(list) \intersect {r \in Range(list) : CanonicalACEKey(r) \in Have(s)} = {}
      BY <1>0 DEF CanonicalACEKey
    <2> QED
      BY <2>1, WithoutNothing DEF Absent
  <1>2. t.dacl = s.dacl \o add /\ add # <<>>
    BY <1>1, GrantIs DEF Result
  <1>3. seen \in Seq(Range(seen)) /\ Range(seen) = {Named(r) : r \in Range(list)}
    BY <1>0, SeenList
  <1>4. /\ add \in Seq(Range(add)) /\ Range(add) = {EncodeACE(r) : r \in Range(list)}
        /\ s.dacl \in Seq(Range(s.dacl))
    BY EncodedList DEF IsSD
  <1> HIDE DEF t, add, seen
  <1>5. t.dacl \in Seq(Range(t.dacl)) /\ Range(t.dacl) = Range(s.dacl) \union Range(add)
    BY <1>2, <1>4, Joined
  <1>6. Range(add) \subseteq drop
    <2> SUFFICES ASSUME NEW r \in Range(list) PROVE EncodeACE(r) \in drop
      BY <1>4
    <2>1. Modelled(EncodeACE(r)) /\ ~Inherited(EncodeACE(r)) /\ keyOf(EncodeACE(r)) = Named(r)
      BY KeyOfEncoded
    <2>2. EncodeACE(r) \in ACEs(t)
      BY <1>4, <1>5, ACEsIsRange
    <2> QED
      BY <1>3, <2>1, <2>2 DEF Revoked
  <1>7. Range(s.dacl) \intersect drop = {}
    <2> SUFFICES ASSUME NEW a \in Range(s.dacl), a \in drop PROVE FALSE
      OBVIOUS
    <2>1. a \in ACEs(s) /\ Modelled(a) /\ ~Inherited(a) /\ keyOf(a) \in Range(seen)
      BY ACEsIsRange DEF Revoked
    <2>2. keyOf(a) \in Have(s)
      BY <2>1 DEF Have
    <2> QED
      BY <1>0, <1>3, <2>1, <2>2
  <1> HIDE DEF drop
  <1>8. s.dacl \in Seq(Range(t.dacl)) /\ add \in Seq(Range(t.dacl))
    BY <1>4, <1>5, SeqMonotonic
  <1>9. Without(t.dacl, drop) = Without(s.dacl, drop) \o Without(add, drop)
    BY <1>2, <1>8, WithoutConcat
  <1>10. Without(s.dacl, drop) = s.dacl /\ Without(add, drop) = <<>>
    BY <1>6, <1>7, <1>8, WithoutNothing, WithoutAll
  <1>11. Without(t.dacl, drop) = s.dacl
    BY <1>8, <1>9, <1>10, ConcatEmptySeq
  <1>12. t.dacl # s.dacl
    <2>1. Len(t.dacl) = Len(s.dacl) + Len(add)
      BY <1>2, <1>8, ConcatProperties
    <2>2. Len(add) \in Nat /\ Len(s.dacl) \in Nat /\ Len(add) # 0
      BY <1>2, <1>4, EmptySeq, LenProperties
    <2>3. Len(t.dacl) # Len(s.dacl)
      BY <2>1, <2>2
    <2> QED
      BY <2>3
  <1>13. RevokeACEs(t, seen) = Result([revision |-> aclRevisionFor(s.dacl), dacl |-> s.dacl], TRUE)
    <2>1. {CanonicalACEKey(seen[i]) : i \in DOMAIN seen} = Range(seen)
      BY DEF CanonicalACEKey, Range
    <2>2. RevokeACEs(t, seen) = RemoveACEs(t, Range(seen))
      <3>1. \A r \in Range(seen) : Decodes(r)
        BY <1>3, KeyOfEncoded
      <3>2. \A i \in DOMAIN seen : Decodes(seen[i])
        BY <3>1 DEF Range
      <3> QED
        BY <2>1, <3>2 DEF RevokeACEs
    <2>3. RemoveACEs(t, Range(seen)) =
            IF Without(t.dacl, drop) = t.dacl THEN Result(t, FALSE)
            ELSE Result([revision |-> aclRevisionFor(Without(t.dacl, drop)),
                         dacl |-> Without(t.dacl, drop)], TRUE)
      BY DEF RemoveACEs, drop, Revoked
    <2> QED
      BY <1>11, <1>12, <2>2, <2>3
  <1>14. RevokeACEs(t, seen).sd.dacl = s.dacl
    BY <1>13 DEF Result
  <1> QED
    BY <1>14 DEF t, seen

\* secdesc.go 237-276 and 380-432, acl.go 164-267: protecting and unprotecting, forbidding
\* and allowing the password change, granting and revoking give the list back exactly as it
\* was, and a grant that is repeated adds nothing, for every request, when the repetition
\* and the revocation name the rights as ACL.Get reports them.
THEOREM OperationsAlwaysUndo == SDSpec => []OperationsUndo
  <1>1. SDInv => OperationsUndo
    <2> SUFFICES ASSUME SDInv PROVE OperationsUndo
      OBVIOUS
    <2>0. IsSD(sd) /\ sd.dacl \in Seq(Range(sd.dacl))
      BY DEF SDInv, IsSD
    <2>1. ~IsProtected(sd) =>
            SetProtected(SetProtected(sd, TRUE).sd, FALSE).sd.dacl = sd.dacl
      BY <2>0, ProtectionUndone, Zenon
    <2>2. ~HasDeniedObjectRight(sd) =>
            SetDeniedObjectRight(SetDeniedObjectRight(sd, TRUE).sd, FALSE).sd.dacl = sd.dacl
      BY <2>0, DenialUndone, Zenon
    <2>3. ASSUME NEW list \in Requests, GrantACEs(sd, list).ok
          PROVE  ~GrantACEs(GrantACEs(sd, list).sd, Seen(sd, list)).ok
      BY <2>0, <2>3, RequestAssumption, GrantConverges
    <2>4. ASSUME NEW list \in Requests, GrantACEs(sd, list).ok,
                 \A i \in DOMAIN list : {list[i], Seen(sd, list)[i]} \intersect Have(sd) = {}
          PROVE  RevokeACEs(GrantACEs(sd, list).sd, Seen(sd, list)).sd.dacl = sd.dacl
      BY <2>0, <2>4, RequestAssumption, GrantUndone
    <2> QED
      BY <2>1, <2>2, <2>3, <2>4, Zenon DEF OperationsUndo, Seen
  <1> QED
    BY <1>1, InvAlways, PTL
=============================================================================
