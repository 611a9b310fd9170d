--------------------------- MODULE ProgramsProofs ---------------------------
(***************************************************************************)
(* Theorems about the programs that share nothing with the others, those   *)
(* of MCPrograms: the sorts, the searches, the calls of TCPSocket, the     *)
(* chat client, the text query and the calculator.                         *)
(***************************************************************************)
EXTENDS Sorting, Searching, TcpSocket, ChatClient, TextQuery, Calculator,
        RecursionLemmas, SequenceTheorems, FiniteSetTheorems

-----------------------------------------------------------------------------
(***************************************************************************)
(* The four functions of sort.hpp return what SortsRight says, for arrays  *)
(* of every length and of any ints.                                        *)
(***************************************************************************)

(* Where x stands in the array.                                            *)
Places(w, x) == {k \in 1..Len(w) : w[k] = x}

LEMMA CountType ==
  ASSUME NEW S, NEW s \in Seq(S), NEW x
  PROVE  /\ IsFiniteSet(Places(s, x))
         /\ Count(s, x) = Cardinality(Places(s, x))
         /\ Count(s, x) \in Nat
         /\ Count(s, x) = 0 <=> \A k \in 1..Len(s) : s[k] # x
<1>1. Len(s) \in Nat
  OBVIOUS
<1>2. IsFiniteSet(1..Len(s))
  BY <1>1, FS_Interval
<1>3. IsFiniteSet(Places(s, x))
  <2>1. Places(s, x) \in SUBSET (1..Len(s))
    BY DEF Places
  <2>2. QED  BY <1>2, <2>1, FS_Subset
<1>4. Count(s, x) = Cardinality(Places(s, x))
  BY DEF Count, Places
<1>5. Count(s, x) \in Nat
  BY <1>3, <1>4, FS_CardinalityType
<1>6. Cardinality(Places(s, x)) = 0 <=> Places(s, x) = {}
  BY <1>3, FS_EmptySet
<1>7. QED  BY <1>3, <1>4, <1>5, <1>6 DEF Places

LEMMA CountConcat ==
  ASSUME NEW S, NEW s \in Seq(S), NEW t \in Seq(S), NEW x
  PROVE  Count(s \o t, x) = Count(s, x) + Count(t, x)
<1>. DEFINE m == Len(s)
            A == Places(s, x)
            C == Places(t, x)
            B == {m + k : k \in C}
<1>1. m \in Nat /\ Len(t) \in Nat /\ Len(s \o t) = m + Len(t) /\ s \o t \in Seq(S)
      /\ \A k \in 1..m + Len(t) : (s \o t)[k] = IF k <= m THEN s[k] ELSE t[k - m]
  BY ConcatProperties
<1>2. Places(s \o t, x) = A \cup B
  <2>1. ASSUME NEW k \in Places(s \o t, x) PROVE k \in A \cup B
    <3>1. k \in 1..m + Len(t) /\ (s \o t)[k] = x
      BY <1>1, <2>1 DEF Places
    <3>2. CASE k <= m
      BY <1>1, <3>1, <3>2 DEF Places
    <3>3. CASE k > m
      <4>1. k - m \in C
        BY <1>1, <3>1, <3>3 DEF Places
      <4>2. k = m + (k - m)
        BY <1>1, <3>1
      <4>3. QED  BY <4>1, <4>2
    <3>4. QED  BY <1>1, <3>1, <3>2, <3>3
  <2>2. ASSUME NEW k \in A PROVE k \in Places(s \o t, x)
    BY <1>1, <2>2 DEF Places
  <2>3. ASSUME NEW k \in C PROVE m + k \in Places(s \o t, x)
    <3>1. k \in 1..Len(t) /\ t[k] = x
      BY <2>3 DEF Places
    <3>2. m + k \in 1..m + Len(t) /\ ~(m + k <= m) /\ (m + k) - m = k
      BY <1>1, <3>1
    <3>3. QED  BY <1>1, <3>1, <3>2 DEF Places
  <2>4. QED  BY <2>1, <2>2, <2>3
<1>3. A \cap B = {}
  BY <1>1 DEF Places
<1>4. IsFiniteSet(B) /\ Cardinality(B) = Cardinality(C)
  <2>. DEFINE f == [k \in C |-> m + k]
  <2>1. C \subseteq Int
    BY <1>1 DEF Places
  <2>. HIDE DEF C
  <2>2. f \in Bijection(C, B)
    <3>1. f \in [C -> B] /\ (\A y \in B : \E k \in C : f[k] = y)
      OBVIOUS
    <3>2. \A k, l \in C : f[k] = f[l] => k = l
      BY <1>1, <2>1
    <3>3. QED  BY <3>1, <3>2 DEF Bijection, Injection, Surjection, IsInjective
  <2>3. ExistsBijection(C, B)
    BY <2>2 DEF ExistsBijection
  <2>4. IsFiniteSet(C)
    BY CountType DEF C
  <2>. HIDE DEF B
  <2>5. QED  BY <2>3, <2>4, FS_Bijection
<1>5. IsFiniteSet(A) /\ Cardinality(A) = Count(s, x) /\ Cardinality(C) = Count(t, x)
      /\ Count(s, x) \in Nat /\ Count(t, x) \in Nat
  BY CountType
<1>6. Count(s \o t, x) = Cardinality(A \cup B)
  BY <1>1, <1>2, CountType
<1>. HIDE DEF A, B, C
<1>7. Cardinality(A \cup B) = Cardinality(A) + Cardinality(B) - Cardinality(A \cap B)
  BY <1>4, <1>5, FS_Union
<1>8. Cardinality(A \cap B) = 0
  BY <1>3, FS_EmptySet
<1>9. QED  BY <1>4, <1>5, <1>6, <1>7, <1>8

LEMMA CountOne ==
  ASSUME NEW e, NEW x
  PROVE  Count(<<e>>, x) = IF e = x THEN 1 ELSE 0
<1>1. PICK s : s = <<e>>
  OBVIOUS
<1>2. s \in Seq({e}) /\ Len(s) = 1 /\ s[1] = e
  BY <1>1
<1>3. Count(s, x) = Cardinality(Places(s, x)) /\ Count(s, x) \in Nat
      /\ (Count(s, x) = 0 <=> \A k \in 1..Len(s) : s[k] # x)
  BY <1>2, CountType
<1>4. CASE e = x
  <2>1. Places(s, x) = {1}
    BY <1>2, <1>4 DEF Places
  <2>2. Cardinality({1}) = 1
    BY FS_Singleton
  <2>3. QED  BY <1>1, <1>3, <1>4, <2>1, <2>2
<1>5. CASE e # x
  BY <1>1, <1>2, <1>3, <1>5
<1>6. QED  BY <1>4, <1>5

LEMMA CountNone ==
  ASSUME NEW x
  PROVE  Count(<<>>, x) = 0
<1>1. PICK s : s = <<>>
  OBVIOUS
<1>2. s \in Seq({}) /\ Len(s) = 0
  BY <1>1
<1>3. Count(s, x) = 0 <=> \A k \in 1..Len(s) : s[k] # x
  BY <1>2, CountType
<1>4. QED  BY <1>1, <1>2, <1>3

(* An exchange of two elements.                                            *)
LEMMA SwapKeeps ==
  ASSUME NEW S, NEW a \in Seq(S), NEW p \in 1..Len(a), NEW q \in 1..Len(a), p # q
  PROVE  /\ Swapped(a, p, q) \in Seq(S)
         /\ Len(Swapped(a, p, q)) = Len(a)
         /\ \A k \in 1..Len(a) : Swapped(a, p, q)[k] =
              IF k = p THEN a[q] ELSE IF k = q THEN a[p] ELSE a[k]
         /\ \A x : Count(Swapped(a, p, q), x) = Count(a, x)
<1>. DEFINE b == Swapped(a, p, q)
            f == [k \in 1..Len(a) |-> IF k = p THEN q ELSE IF k = q THEN p ELSE k]
<1>1. /\ b \in Seq(S) /\ Len(b) = Len(a)
      /\ \A k \in 1..Len(a) : b[k] = IF k = p THEN a[q] ELSE IF k = q THEN a[p] ELSE a[k]
  <2>1. a[p] \in S /\ a[q] \in S
    OBVIOUS
  <2>2. [a EXCEPT ![p] = a[q]] \in Seq(S) /\ Len([a EXCEPT ![p] = a[q]]) = Len(a)
        /\ \A k \in 1..Len(a) : [a EXCEPT ![p] = a[q]][k] = IF k = p THEN a[q] ELSE a[k]
    BY <2>1, ExceptSeq
  <2>3. PICK c \in Seq(S) : c = [a EXCEPT ![p] = a[q]]
    BY <2>2
  <2>4. b = [c EXCEPT ![q] = a[p]]
    BY <2>3 DEF Swapped
  <2>5. q \in 1..Len(c)
    BY <2>2, <2>3
  <2>6. [c EXCEPT ![q] = a[p]] \in Seq(S) /\ Len([c EXCEPT ![q] = a[p]]) = Len(c)
        /\ \A k \in 1..Len(c) : [c EXCEPT ![q] = a[p]][k] = IF k = q THEN a[p] ELSE c[k]
    BY <2>1, <2>5, ExceptSeq
  <2>. HIDE DEF b
  <2>7. QED  BY <2>2, <2>3, <2>4, <2>6
<1>2. ASSUME NEW x PROVE Count(b, x) = Count(a, x)
  <2>. DEFINE A == Places(a, x)
              B == Places(b, x)
              g == [k \in A |-> f[k]]
  <2>0. A \subseteq 1..Len(a) /\ Len(a) \in Nat
    BY DEF Places
  <2>. HIDE DEF b
  <2>1. \A k \in 1..Len(a) : f[k] \in 1..Len(a) /\ f[f[k]] = k /\ b[f[k]] = a[k]
    BY <1>1
  <2>. HIDE DEF f
  <2>2. \A k \in A : f[k] \in B
    BY <1>1, <2>1 DEF Places
  <2>3. \A k \in B : f[k] \in A /\ k \in 1..Len(a)
    <3>1. ASSUME NEW k \in B PROVE f[k] \in A /\ k \in 1..Len(a)
      <4>1. k \in 1..Len(a) /\ b[k] = x
        BY <1>1, <3>1 DEF Places
      <4>2. f[k] \in 1..Len(a) /\ f[f[k]] = k /\ b[f[f[k]]] = a[f[k]]
        BY <2>1, <4>1
      <4>3. QED  BY <4>1, <4>2 DEF Places
    <3>2. QED  BY <3>1
  <2>4. IsFiniteSet(A) /\ Cardinality(A) = Count(a, x) /\ Cardinality(B) = Count(b, x)
    BY <1>1, CountType
  <2>. HIDE DEF A, B
  <2>5. g \in Bijection(A, B)
    <3>1. g \in [A -> B]
      BY <2>2
    <3>2. \A y \in B : \E k \in A : g[k] = y
      <4>1. \A y \in B : f[y] \in A /\ g[f[y]] = y
        BY <2>1, <2>3
      <4>2. QED  BY <4>1
    <3>3. \A k, l \in A : g[k] = g[l] => k = l
      <4>1. \A k, l \in A : f[k] = f[l] => k = l
        BY <2>0, <2>1
      <4>2. QED  BY <4>1
    <3>. HIDE DEF g
    <3>4. QED  BY <3>1, <3>2, <3>3 DEF Bijection, Injection, Surjection, IsInjective
  <2>6. ExistsBijection(A, B)
    BY <2>5 DEF ExistsBijection
  <2>7. QED  BY <2>4, <2>6, FS_Bijection
<1>3. QED  BY <1>1, <1>2

LEMMA ArrayIsSeq ==
  \A a : a \in Arrays <=> a \in Seq(Values) /\ Len(a) <= MaxLength
<1>1. ASSUME NEW a, a \in Arrays PROVE a \in Seq(Values) /\ Len(a) <= MaxLength
  <2>1. PICK n \in 0..MaxLength : a \in [1..n -> Values]
    BY <1>1 DEF Arrays
  <2>2. n \in Nat /\ n <= MaxLength
    BY ArrayAssumption
  <2>3. a \in Seq(Values)
    BY <2>1, <2>2, SeqDef
  <2>4. Len(a) = n
    BY <2>1, <2>2, <2>3, LenProperties
  <2>5. QED  BY <2>2, <2>3, <2>4
<1>2. ASSUME NEW a \in Seq(Values), Len(a) <= MaxLength PROVE a \in Arrays
  <2>1. Len(a) \in 0..MaxLength /\ a \in [1..Len(a) -> Values]
    BY <1>2, ArrayAssumption, LenProperties
  <2>2. QED  BY <2>1 DEF Arrays
<1>3. QED  BY <1>1, <1>2

LEMMA Elements ==
  ASSUME NEW s \in Seq(Values)
  PROVE  /\ Len(s) \in Nat
         /\ \A k \in 1..Len(s) : s[k] \in Values /\ s[k] \in Int
<1>1. Len(s) \in Nat /\ \A k \in 1..Len(s) : s[k] \in Values
  BY ElementOfSeq, LenProperties
<1>2. \A x \in Values : x \in Int
  BY ArrayAssumption
<1>3. QED  BY <1>1, <1>2

SameValues(s, t) == \A x \in Values : Count(s, x) = Count(t, x)

(* An array in descending order that holds every value of another begins   *)
(* with the greatest of them.                                              *)
LEMMA GreatestFirst ==
  ASSUME NEW s \in Seq(Values), NEW t \in Seq(Values), Descending(t),
         \A x \in Values : Count(s, x) # 0 => Count(t, x) # 0
  PROVE  s # <<>> => t # <<>> /\ \A k \in 1..Len(s) : s[k] <= t[1]
<1>1. ASSUME NEW k \in 1..Len(s) PROVE t # <<>> /\ s[k] <= t[1]
  <2>1. s[k] \in Values /\ s[k] \in Int
    BY Elements
  <2>2. Count(s, s[k]) # 0
    BY <2>1, CountType
  <2>3. PICK l \in 1..Len(t) : t[l] = s[k]
    BY <2>1, <2>2, CountType
  <2>4. Len(t) \in Nat /\ 1 \in 1..Len(t)
    OBVIOUS
  <2>5. t[1] \in Int /\ t[l] \in Int
    BY <2>4, Elements
  <2>6. l = 1 \/ 1 < l
    OBVIOUS
  <2>7. t[1] >= t[l]
    BY <2>4, <2>5, <2>6 DEF Descending
  <2>8. t # <<>>
    BY <2>4, EmptySeq
  <2>9. QED  BY <2>1, <2>3, <2>5, <2>7, <2>8
<1>2. s # <<>> => 1 \in 1..Len(s)
  BY EmptySeq
<1>3. QED  BY <1>1, <1>2

-----------------------------------------------------------------------------
(* A function on arrays is defined by an equation whose right side uses it *)
(* on shorter arrays only.                                                 *)
LEMMA ArrayRecursion ==
  ASSUME NEW S, NEW s0 \in S, NEW G \in [[Arrays -> S] -> [Arrays -> S]],
         \A h1, h2 \in [Arrays -> S], a \in Arrays :
           (\A b \in Arrays : Len(b) < Len(a) => h1[b] = h2[b])
             => G[h1][a] = G[h2][a]
  PROVE  \E f \in [Arrays -> S] : f = G[f]
<1>. DEFINE H == [Arrays -> S]
            N == MaxLength + 1
            M == MaxLength + 2
            h0 == [a \in Arrays |-> s0]
            GG == [k \in 1..M |-> G]
<1>1. N \in Nat /\ M \in Nat /\ M = N + 1 /\ N > MaxLength
  BY ArrayAssumption
<1>2. h0 \in H /\ \A k \in 1..M : GG[k] = G /\ GG[k] \in [H -> H]
  OBVIOUS
<1>. HIDE DEF N, M, h0, GG, H
<1>3. PICK F \in [0..M -> H] : Recurs(F, h0, GG, M)
  BY <1>1, <1>2, RecursionExists
<1>4. \A k \in 1..M : F[k] = G[F[k-1]]
  <2>1. \A k \in 0..M : F[k] = IF k = 0 THEN h0 ELSE GG[k][F[k-1]]
    BY <1>3 DEF Recurs
  <2>2. \A k \in 1..M : k \in 0..M /\ k # 0
    BY <1>1
  <2>3. QED  BY <1>2, <2>1, <2>2
<1>. DEFINE T == {k \in 0..N : \A b \in Arrays : Len(b) < k => F[k][b] = F[k+1][b]}
<1>5. 0 \in T
  <2>1. \A b \in Arrays : ~(Len(b) < 0)
    BY ArrayIsSeq, LenProperties
  <2>2. QED  BY <1>1, <2>1
<1>6. ASSUME NEW k \in 1..N, k - 1 \in T PROVE k \in T
  <2>1. k \in 0..N /\ k - 1 \in 0..M /\ k \in 0..M /\ (k - 1) + 1 = k
        /\ k \in 1..M /\ k + 1 \in 1..M /\ (k + 1) - 1 = k
    BY <1>1
  <2>2. \A b \in Arrays : Len(b) < k - 1 => F[k-1][b] = F[k][b]
    BY <1>6, <2>1
  <2>3. F[k-1] \in [Arrays -> S] /\ F[k] \in [Arrays -> S]
    BY <1>3, <2>1 DEF H
  <2>4. ASSUME NEW a \in Arrays, Len(a) < k PROVE F[k][a] = F[k+1][a]
    <3>1. \A b \in Arrays : Len(b) \in Nat
      BY ArrayIsSeq, LenProperties
    <3>2. \A b \in Arrays : Len(b) < Len(a) => F[k-1][b] = F[k][b]
      BY <2>1, <2>2, <2>4, <3>1
    <3>3. G[F[k-1]][a] = G[F[k]][a]
      BY <2>3, <3>2
    <3>4. QED  BY <1>4, <2>1, <3>3
  <2>5. QED  BY <2>1, <2>4
<1>. HIDE DEF T
<1>7. N \in T
  <2>1. \A k \in 0..N : k \in T
    BY <1>1, <1>5, <1>6, InductionUpTo
  <2>2. QED  BY <1>1, <2>1
<1>8. \A b \in Arrays : F[N][b] = F[N+1][b]
  <2>1. \A b \in Arrays : Len(b) < N
    BY <1>1, ArrayIsSeq, LenProperties, ArrayAssumption
  <2>2. QED  BY <1>7, <2>1 DEF T
<1>9. F[N] \in [Arrays -> S] /\ F[N+1] \in [Arrays -> S]
  BY <1>1, <1>3 DEF H
<1>10. F[N] = F[N+1]
  BY <1>8, <1>9
<1>11. F[N+1] = G[F[N]]
  <2>1. N + 1 \in 1..M /\ (N + 1) - 1 = N
    BY <1>1
  <2>2. QED  BY <1>4, <2>1
<1>12. QED  BY <1>9, <1>10, <1>11

(* What holds of an array if it holds of the shorter ones holds of all.    *)
LEMMA ArrayInduction ==
  ASSUME NEW T,
         \A a \in Arrays :
           (\A b \in Arrays : Len(b) < Len(a) => b \in T) => a \in T
  PROVE  \A a \in Arrays : a \in T
<1>. DEFINE N == MaxLength + 1
            U == {k \in 0..N : \A b \in Arrays : Len(b) < k => b \in T}
<1>1. N \in Nat /\ \A b \in Arrays : Len(b) \in Nat /\ Len(b) < N
  BY ArrayIsSeq, LenProperties, ArrayAssumption
<1>. HIDE DEF N
<1>2. 0 \in U
  BY <1>1
<1>3. ASSUME NEW k \in 1..N, k - 1 \in U PROVE k \in U
  <2>1. ASSUME NEW a \in Arrays, Len(a) < k PROVE a \in T
    <3>1. \A b \in Arrays : Len(b) < Len(a) => Len(b) < k - 1
      BY <1>1, <2>1
    <3>2. \A b \in Arrays : Len(b) < Len(a) => b \in T
      BY <1>3, <3>1
    <3>3. QED  BY <3>2
  <2>2. QED  BY <1>1, <2>1
<1>. HIDE DEF U
<1>4. N \in U
  BY <1>1, <1>2, <1>3, InductionUpTo
<1>5. QED  BY <1>1, <1>4 DEF U

-----------------------------------------------------------------------------
SortTypes ==
  /\ sorter \in {"select", "bubble", "quick", "merge"}
  /\ input \in Seq(Values) /\ input \in Arrays
  /\ result \in Seq(Values)
  /\ i \in Nat /\ j \in Nat /\ i >= 1 /\ j >= 1
  /\ sorted \in BOOLEAN

(* The loops exchange elements and do nothing else.                        *)
Exchanged ==
  sorter \in {"select", "bubble"} =>
    Len(result) = Len(input) /\ SameValues(input, result)

(* selectSort() has put the greatest values in front, and of those that    *)
(* follow it has compared the ones before j with the one at i.             *)
Selected ==
  sorter = "select" /\ ~sorted =>
    /\ i < j
    /\ \A k, l \in 1..Len(result) : k < i /\ k < l => result[k] >= result[l]
    /\ \A l \in 1..Len(result) :
         i \in 1..Len(result) /\ i < l /\ l < j => result[i] >= result[l]

(* bubbleSort() has put the least values at the end, and those before j    *)
(* are not less than the one at j.                                         *)
Bubbled ==
  sorter = "bubble" /\ ~sorted =>
    /\ i <= Len(result) + 1
    /\ j = 1 \/ j <= Len(result) - i + 1
    /\ \A k, l \in 1..Len(result) :
         l > Len(result) - i + 1 /\ k < l => result[k] >= result[l]
    /\ \A k \in 1..Len(result) :
         j \in 1..Len(result) /\ k < j => result[k] >= result[j]

SortInv == SortTypes /\ Exchanged /\ Selected /\ Bubbled /\ SortsRight

LEMMA SortInitInv == SortInit => SortInv
<1>. SUFFICES ASSUME SortInit PROVE SortInv
  OBVIOUS
<1>1. SortTypes
  <2>1. input \in Seq(Values) /\ input \in Arrays
    BY ArrayIsSeq DEF SortInit
  <2>2. i = 1 /\ (j = 1 \/ j = 2)
    BY DEF SortInit
  <2>3. i \in Nat /\ j \in Nat /\ i >= 1 /\ j >= 1
    BY <2>2
  <2>4. QED  BY <2>1, <2>3 DEF SortInit, SortTypes
<1>2. Exchanged
  BY DEF SortInit, Exchanged, SameValues
<1>3. \A k \in 1..Len(result) : k \in Int /\ ~(k < 1)
  BY <1>1 DEF SortTypes
<1>4. Len(result) \in Nat
  BY <1>1 DEF SortTypes
<1>5. Selected
  <2>1. sorter = "select" => i = 1 /\ j = 2
    BY DEF SortInit
  <2>2. \A l \in 1..Len(result) : ~(1 < l /\ l < 2)
    OBVIOUS
  <2>3. QED  BY <1>3, <2>1, <2>2 DEF Selected
<1>6. Bubbled
  <2>1. sorter = "bubble" => i = 1 /\ j = 1
    BY DEF SortInit
  <2>2. \A l \in 1..Len(result) : ~(l > Len(result) - 1 + 1)
    BY <1>4
  <2>3. 1 <= Len(result) + 1
    BY <1>4
  <2>4. QED  BY <1>3, <2>1, <2>2, <2>3 DEF Bubbled
<1>7. SortsRight
  BY DEF SortInit, SortsRight
<1>8. QED  BY <1>1, <1>2, <1>5, <1>6, <1>7 DEF SortInv

(* An exchange in the array that is sorted keeps its values.               *)
LEMMA ExchangeKeeps ==
  ASSUME SortTypes, Exchanged,
         NEW p \in 1..Len(result), NEW q \in 1..Len(result), p # q,
         result' = Swapped(result, p, q), UNCHANGED <<sorter, input>>
  PROVE  result' \in Seq(Values) /\ Len(result') = Len(result) /\ Exchanged'
<1>1. result \in Seq(Values)
  BY DEF SortTypes
<1>2. /\ result' \in Seq(Values) /\ Len(result') = Len(result)
      /\ \A x : Count(result', x) = Count(result, x)
  BY <1>1, SwapKeeps
<1>3. SameValues(input, result) => SameValues(input, result')
  BY <1>2 DEF SameValues
<1>4. Exchanged'
  BY <1>2, <1>3 DEF Exchanged, SameValues
<1>5. QED  BY <1>2, <1>4

LEMMA SelectCompareKeeps ==
  ASSUME SortInv, sorter = "select", ~sorted, SelectCompare, UNCHANGED <<sorter, input>>
  PROVE  SortInv'
<1>1. SortTypes /\ result \in Seq(Values) /\ Len(result) \in Nat
      /\ i \in 1..Len(result) /\ j \in 1..Len(result) /\ i < j
      /\ \A k \in 1..Len(result) : result[k] \in Int
  <2>1. SortTypes /\ result \in Seq(Values) /\ i < j
    BY DEF SortInv, SortTypes, Selected
  <2>2. QED  BY <2>1, Elements DEF SortTypes, SelectCompare
<1>2. /\ \A k, l \in 1..Len(result) : k < i /\ k < l => result[k] >= result[l]
      /\ \A l \in 1..Len(result) : i < l /\ l < j => result[i] >= result[l]
  BY <1>1 DEF SortInv, Selected
<1>3. result' \in Seq(Values) /\ Len(result') = Len(result) /\ Exchanged'
  <2>1. CASE result[i] < result[j]
    <3>1. result' = Swapped(result, i, j)
      BY <2>1 DEF SelectCompare
    <3>2. QED  BY <1>1, <3>1, ExchangeKeeps DEF SortInv
  <2>2. CASE ~(result[i] < result[j])
    <3>1. result' = result
      BY <2>2 DEF SelectCompare
    <3>2. QED  BY <1>1, <3>1 DEF SortInv, Exchanged, SameValues
  <2>3. QED  BY <2>1, <2>2
<1>4. i' = i /\ j' = j + 1 /\ sorted' = sorted /\ sorter' = "select" /\ ~sorted'
  BY DEF SelectCompare
<1>5. SortTypes'
  BY <1>1, <1>3, <1>4 DEF SortTypes
<1>6. /\ \A k, l \in 1..Len(result) : k < i /\ k < l => result'[k] >= result'[l]
      /\ \A l \in 1..Len(result) : i < l /\ l < j + 1 => result'[i] >= result'[l]
  <2>1. CASE result[i] < result[j]
    <3>1. result' = Swapped(result, i, j)
      BY <2>1 DEF SelectCompare
    <3>2. \A k \in 1..Len(result) : result'[k] =
            IF k = i THEN result[j] ELSE IF k = j THEN result[i] ELSE result[k]
      BY <1>1, <3>1, SwapKeeps
    <3>3. ASSUME NEW k \in 1..Len(result), NEW l \in 1..Len(result), k < i, k < l
          PROVE  result'[k] >= result'[l]
      <4>1. result'[k] = result[k]
        BY <1>1, <3>2, <3>3
      <4>2. result[k] >= result[l] /\ result[k] >= result[i] /\ result[k] >= result[j]
        BY <1>1, <1>2, <3>3
      <4>3. QED  BY <3>2, <4>1, <4>2
    <3>4. ASSUME NEW l \in 1..Len(result), i < l, l < j + 1
          PROVE  result'[i] >= result'[l]
      <4>1. result'[i] = result[j]
        BY <1>1, <3>2
      <4>2. CASE l = j
        <5>1. result'[l] = result[i]
          BY <1>1, <3>2, <4>2
        <5>2. QED  BY <1>1, <2>1, <4>1, <5>1
      <4>3. CASE l # j
        <5>1. l < j /\ l # i
          BY <1>1, <3>4, <4>3
        <5>2. result'[l] = result[l] /\ result[i] >= result[l]
          BY <1>2, <3>2, <3>4, <4>3, <5>1
        <5>3. QED  BY <1>1, <2>1, <4>1, <5>2
      <4>4. QED  BY <4>2, <4>3
    <3>5. QED  BY <3>3, <3>4
  <2>2. CASE ~(result[i] < result[j])
    <3>1. result' = result
      BY <2>2 DEF SelectCompare
    <3>2. result[i] >= result[j]
      BY <1>1, <2>2
    <3>3. \A l \in 1..Len(result) : l < j + 1 => l = j \/ l < j
      BY <1>1
    <3>4. QED  BY <1>2, <3>1, <3>2, <3>3
  <2>3. QED  BY <2>1, <2>2
<1>7. Selected'
  <2>1. i < j + 1
    BY <1>1
  <2>2. QED  BY <1>3, <1>4, <1>6, <2>1 DEF Selected
<1>8. Bubbled' /\ SortsRight'
  BY <1>4 DEF Bubbled, SortsRight
<1>9. QED  BY <1>3, <1>5, <1>7, <1>8 DEF SortInv

LEMMA SelectNextRowKeeps ==
  ASSUME SortInv, sorter = "select", ~sorted, SelectNextRow, UNCHANGED <<sorter, input>>
  PROVE  SortInv'
<1>1. SortTypes /\ result \in Seq(Values) /\ Len(result) \in Nat
      /\ i \in 1..Len(result) /\ j \in Nat /\ j > Len(result)
  <2>1. SortTypes /\ result \in Seq(Values)
    BY DEF SortInv, SortTypes
  <2>2. QED  BY <2>1, Elements DEF SortTypes, SelectNextRow
<1>2. /\ \A k, l \in 1..Len(result) : k < i /\ k < l => result[k] >= result[l]
      /\ \A l \in 1..Len(result) : i < l => result[i] >= result[l]
  <2>1. \A l \in 1..Len(result) : l < j
    BY <1>1
  <2>2. QED  BY <1>1, <2>1 DEF SortInv, Selected
<1>3. i' = i + 1 /\ j' = i + 2 /\ sorted' = sorted /\ sorter' = "select" /\ ~sorted'
      /\ result' = result
  BY DEF SelectNextRow
<1>4. SortTypes'
  BY <1>1, <1>3 DEF SortTypes
<1>5. Selected'
  <2>1. \A k \in 1..Len(result) : k < i + 1 => k = i \/ k < i
    BY <1>1
  <2>2. \A l \in 1..Len(result) : ~(i + 1 < l /\ l < i + 2)
    BY <1>1
  <2>3. \A k, l \in 1..Len(result) : k < i + 1 /\ k < l => result[k] >= result[l]
    BY <1>2, <2>1
  <2>4. i + 1 < i + 2
    BY <1>1
  <2>5. QED  BY <1>3, <2>2, <2>3, <2>4 DEF Selected
<1>6. Bubbled' /\ SortsRight'
  BY <1>3 DEF Bubbled, SortsRight
<1>7. Exchanged'
  BY <1>3 DEF SortInv, Exchanged, SameValues
<1>8. QED  BY <1>4, <1>5, <1>6, <1>7 DEF SortInv

LEMMA BubbleCompareKeeps ==
  ASSUME SortInv, sorter = "bubble", ~sorted, BubbleCompare, UNCHANGED <<sorter, input>>
  PROVE  SortInv'
<1>. DEFINE done == Len(result) - i + 1
<1>1. SortTypes /\ result \in Seq(Values) /\ Len(result) \in Nat
      /\ i \in 1..Len(result) /\ j \in 1..Len(result) /\ j + 1 \in 1..Len(result)
      /\ j + 1 <= done /\ j \in Nat /\ done \in Nat
      /\ \A k \in 1..Len(result) : result[k] \in Int
  <2>1. SortTypes /\ result \in Seq(Values)
    BY DEF SortInv, SortTypes
  <2>2. QED  BY <2>1, Elements DEF SortTypes, BubbleCompare
<1>2. /\ \A k, l \in 1..Len(result) : l > done /\ k < l => result[k] >= result[l]
      /\ \A k \in 1..Len(result) : k < j => result[k] >= result[j]
  BY <1>1 DEF SortInv, Bubbled
<1>3. result' \in Seq(Values) /\ Len(result') = Len(result) /\ Exchanged'
  <2>1. CASE result[j] < result[j+1]
    <3>1. result' = Swapped(result, j, j + 1)
      BY <2>1 DEF BubbleCompare
    <3>2. j # j + 1
      BY <1>1
    <3>3. QED  BY <1>1, <3>1, <3>2, ExchangeKeeps DEF SortInv
  <2>2. CASE ~(result[j] < result[j+1])
    <3>1. result' = result
      BY <2>2 DEF BubbleCompare
    <3>2. QED  BY <1>1, <3>1 DEF SortInv, Exchanged, SameValues
  <2>3. QED  BY <2>1, <2>2
<1>4. i' = i /\ j' = j + 1 /\ sorted' = sorted /\ sorter' = "bubble" /\ ~sorted'
  BY DEF BubbleCompare
<1>5. SortTypes'
  BY <1>1, <1>3, <1>4 DEF SortTypes
<1>6. /\ \A k, l \in 1..Len(result) : l > done /\ k < l => result'[k] >= result'[l]
      /\ \A k \in 1..Len(result) : k < j + 1 => result'[k] >= result'[j+1]
  <2>1. CASE result[j] < result[j+1]
    <3>1. result' = Swapped(result, j, j + 1) /\ j # j + 1
      BY <1>1, <2>1 DEF BubbleCompare
    <3>2. \A k \in 1..Len(result) : result'[k] =
            IF k = j THEN result[j+1] ELSE IF k = j + 1 THEN result[j] ELSE result[k]
      BY <1>1, <3>1, SwapKeeps
    <3>3. ASSUME NEW k \in 1..Len(result), NEW l \in 1..Len(result), l > done, k < l
          PROVE  result'[k] >= result'[l]
      <4>1. l # j /\ l # j + 1 /\ j < l /\ j + 1 < l
        BY <1>1, <3>3
      <4>2. result'[l] = result[l]
        BY <3>2, <4>1
      <4>3. result[k] >= result[l] /\ result[j] >= result[l] /\ result[j+1] >= result[l]
        BY <1>1, <1>2, <3>3, <4>1
      <4>4. QED  BY <3>2, <4>2, <4>3
    <3>4. ASSUME NEW k \in 1..Len(result), k < j + 1
          PROVE  result'[k] >= result'[j+1]
      <4>1. result'[j+1] = result[j]
        BY <1>1, <3>1, <3>2
      <4>2. CASE k = j
        <5>1. result'[k] = result[j+1]
          BY <1>1, <3>2, <4>2
        <5>2. QED  BY <1>1, <2>1, <4>1, <5>1
      <4>3. CASE k # j
        <5>1. k < j /\ k # j + 1
          BY <1>1, <3>4, <4>3
        <5>2. result'[k] = result[k] /\ result[k] >= result[j]
          BY <1>2, <3>2, <4>3, <5>1
        <5>3. QED  BY <4>1, <5>2
      <4>4. QED  BY <4>2, <4>3
    <3>5. QED  BY <3>3, <3>4
  <2>2. CASE ~(result[j] < result[j+1])
    <3>1. result' = result
      BY <2>2 DEF BubbleCompare
    <3>2. result[j] >= result[j+1]
      BY <1>1, <2>2
    <3>3. \A k \in 1..Len(result) : k < j + 1 => k = j \/ k < j
      BY <1>1
    <3>4. ASSUME NEW k \in 1..Len(result), k < j + 1 PROVE result[k] >= result[j+1]
      <4>1. result[k] >= result[j]
        BY <1>1, <1>2, <3>3, <3>4
      <4>2. QED  BY <1>1, <3>2, <4>1
    <3>5. QED  BY <1>2, <3>1, <3>4
  <2>3. QED  BY <2>1, <2>2
<1>7. Bubbled'
  <2>1. i <= Len(result) + 1
    BY <1>1
  <2>2. QED  BY <1>1, <1>3, <1>4, <1>6, <2>1 DEF Bubbled
<1>8. Selected' /\ SortsRight'
  BY <1>4 DEF Selected, SortsRight
<1>9. QED  BY <1>3, <1>5, <1>7, <1>8 DEF SortInv

LEMMA BubbleNextRowKeeps ==
  ASSUME SortInv, sorter = "bubble", ~sorted, BubbleNextRow, UNCHANGED <<sorter, input>>
  PROVE  SortInv'
<1>1. SortTypes /\ result \in Seq(Values) /\ Len(result) \in Nat
      /\ i \in 1..Len(result) /\ j \in 1..Len(result) /\ j = Len(result) - i + 1
  <2>1. SortTypes /\ result \in Seq(Values) /\ (j = 1 \/ j <= Len(result) - i + 1)
    BY DEF SortInv, SortTypes, Bubbled
  <2>2. Len(result) \in Nat /\ i \in Nat /\ j \in Nat /\ i >= 1 /\ j >= 1
    BY <2>1 DEF SortTypes
  <2>3. i <= Len(result) /\ j + 1 > Len(result) - i + 1
    BY DEF BubbleNextRow
  <2>4. QED  BY <2>1, <2>2, <2>3
<1>2. /\ \A k, l \in 1..Len(result) : l > Len(result) - i + 1 /\ k < l => result[k] >= result[l]
      /\ \A k \in 1..Len(result) : k < j => result[k] >= result[j]
  BY <1>1 DEF SortInv, Bubbled
<1>3. i' = i + 1 /\ j' = 1 /\ sorted' = sorted /\ sorter' = "bubble" /\ ~sorted'
      /\ result' = result
  BY DEF BubbleNextRow
<1>4. SortTypes'
  BY <1>1, <1>3 DEF SortTypes
<1>5. Bubbled'
  <2>1. \A l \in 1..Len(result) :
          l > Len(result) - (i + 1) + 1 => l = j \/ l > Len(result) - i + 1
    BY <1>1
  <2>2. \A k, l \in 1..Len(result) :
          l > Len(result) - (i + 1) + 1 /\ k < l => result[k] >= result[l]
    BY <1>2, <2>1
  <2>3. \A k \in 1..Len(result) : ~(k < 1)
    OBVIOUS
  <2>4. i + 1 <= Len(result) + 1
    BY <1>1
  <2>5. QED  BY <1>3, <2>2, <2>3, <2>4 DEF Bubbled
<1>6. Selected' /\ SortsRight'
  BY <1>3 DEF Selected, SortsRight
<1>7. Exchanged'
  BY <1>3 DEF SortInv, Exchanged, SameValues
<1>8. QED  BY <1>4, <1>5, <1>6, <1>7 DEF SortInv

(* The function returns the same values in descending order.               *)
LEMMA InOrderIsRight ==
  ASSUME SortTypes, UNCHANGED <<sorter, input>>, sorter # "merge",
         result' \in Seq(Values), Descending(result'), SameValues(input, result')
  PROVE  SortsRight'
<1>1. input \in Seq(Values)
  BY DEF SortTypes
<1>2. \A x \in Values : Count(input, x) # 0 => Count(result', x) # 0
  BY DEF SameValues
<1>3. input # <<>> => result' # <<>> /\ \A k \in 1..Len(input) : input[k] <= result'[1]
  BY <1>1, <1>2, GreatestFirst
<1>4. QED  BY <1>3 DEF SortsRight, SameValues, Descending

LEMMA LoopReturns ==
  ASSUME SortInv, ~sorted, sorter \in {"select", "bubble"},
         Len(input) <= 1 \/ i > Len(result), Return(result),
         UNCHANGED <<sorter, input>>
  PROVE  SortInv'
<1>1. SortTypes /\ result \in Seq(Values) /\ Len(result) \in Nat /\ Exchanged
      /\ Len(result) = Len(input) /\ SameValues(input, result)
  <2>1. SortTypes /\ result \in Seq(Values) /\ Exchanged
    BY DEF SortInv, SortTypes
  <2>2. QED  BY <2>1, Elements DEF Exchanged
<1>2. result' = result /\ sorted' /\ i' = i /\ j' = j /\ sorted' \in BOOLEAN
  BY DEF Return
<1>3. Descending(result)
  <2>1. CASE Len(input) <= 1
    <3>1. \A k, l \in 1..Len(result) : ~(k < l)
      BY <1>1, <2>1
    <3>2. QED  BY <3>1 DEF Descending
  <2>2. CASE i > Len(result) /\ sorter = "select"
    <3>1. \A k \in 1..Len(result) : k < i
      BY <1>1, <2>2 DEF SortTypes
    <3>2. QED  BY <2>2, <3>1 DEF Descending, SortInv, Selected
  <2>3. CASE i > Len(result) /\ sorter = "bubble"
    <3>1. \A k \in 1..Len(result) : k > Len(result) - i + 1
      BY <1>1, <2>3 DEF SortTypes
    <3>2. QED  BY <2>3, <3>1 DEF Descending, SortInv, Bubbled
  <2>4. QED  BY <2>1, <2>2, <2>3
<1>4. SortsRight'
  <2>1. result' \in Seq(Values) /\ Descending(result') /\ SameValues(input, result')
    BY <1>1, <1>2, <1>3
  <2>2. sorter # "merge"
    OBVIOUS
  <2>3. QED  BY <1>1, <2>1, <2>2, InOrderIsRight
<1>5. SortTypes'
  BY <1>1, <1>2 DEF SortTypes
<1>6. Selected' /\ Bubbled'
  BY <1>2 DEF Selected, Bubbled
<1>7. Exchanged'
  BY <1>1, <1>2 DEF Exchanged, SameValues
<1>8. QED  BY <1>4, <1>5, <1>6, <1>7 DEF SortInv

-----------------------------------------------------------------------------
LEMMA CountMore ==
  ASSUME NEW S, NEW s \in Seq(S), NEW v \in S
  PROVE  /\ s \o <<v>> \in Seq(S) /\ Len(s \o <<v>>) = Len(s) + 1
         /\ \A k \in 1..Len(s)+1 : (s \o <<v>>)[k] = IF k <= Len(s) THEN s[k] ELSE v
         /\ \A x : Count(s \o <<v>>, x) = Count(s, x) + (IF v = x THEN 1 ELSE 0)
<1>1. <<v>> \in Seq(S) /\ Len(<<v>>) = 1 /\ <<v>>[1] = v
  OBVIOUS
<1>2. PICK e \in Seq(S) : e = <<v>>
  BY <1>1
<1>3. Len(e) = 1 /\ e[1] = v /\ Len(s) \in Nat
  BY <1>1, <1>2, LenProperties
<1>4. /\ s \o e \in Seq(S) /\ Len(s \o e) = Len(s) + 1
      /\ \A k \in 1..Len(s)+1 : (s \o e)[k] = IF k <= Len(s) THEN s[k] ELSE v
  <2>1. /\ s \o e \in Seq(S) /\ Len(s \o e) = Len(s) + Len(e)
        /\ \A k \in 1..Len(s)+Len(e) : (s \o e)[k] =
             IF k <= Len(s) THEN s[k] ELSE e[k - Len(s)]
    BY ConcatProperties
  <2>2. \A k \in 1..Len(s)+1 : ~(k <= Len(s)) => k - Len(s) = 1
    BY <1>3
  <2>3. QED  BY <1>3, <2>1, <2>2
<1>5. ASSUME NEW x PROVE Count(s \o e, x) = Count(s, x) + (IF v = x THEN 1 ELSE 0)
  <2>1. Count(s \o e, x) = Count(s, x) + Count(e, x)
    BY CountConcat
  <2>2. Count(e, x) = IF v = x THEN 1 ELSE 0
    BY <1>2, CountOne
  <2>3. QED  BY <2>1, <2>2
<1>6. QED  BY <1>2, <1>4, <1>5

(* The parts of a sequence.                                                *)
LEMMA Prefix ==
  ASSUME NEW s \in Seq(Values), NEW k \in 1..Len(s)
  PROVE  /\ SubSeq(s, 1, k) \in Seq(Values) /\ SubSeq(s, 1, k - 1) \in Seq(Values)
         /\ Len(SubSeq(s, 1, k)) = k
         /\ SubSeq(s, 1, k) = SubSeq(s, 1, k - 1) \o <<s[k]>>
         /\ \A x : Count(SubSeq(s, 1, k), x)
                     = Count(SubSeq(s, 1, k - 1), x) + (IF s[k] = x THEN 1 ELSE 0)
<1>1. Len(s) \in Nat /\ k \in Int /\ k - 1 \in Int /\ 1 \in Int /\ 1 \in 1..Len(s)
      /\ k \in 1..Len(s) /\ k >= 1
  OBVIOUS
<1>2. \A l \in 1..Len(s) : s[l] \in Values
  BY Elements
<1>3. SubSeq(s, 1, k) \in Seq(Values) /\ Len(SubSeq(s, 1, k)) = k
  <2>1. \A l \in 1..k : s[l] \in Values
    BY <1>1, <1>2
  <2>2. SubSeq(s, 1, k) \in Seq(Values)
        /\ Len(SubSeq(s, 1, k)) = IF 1 <= k THEN k - 1 + 1 ELSE 0
    BY <1>1, <2>1, SubSeqProperties
  <2>3. QED  BY <1>1, <2>2
<1>4. SubSeq(s, 1, k - 1) \in Seq(Values)
  <2>1. \A l \in 1..k-1 : s[l] \in Values
    BY <1>1, <1>2
  <2>2. QED  BY <1>1, <2>1, SubSeqProperties
<1>5. SubSeq(s, 1, k) = SubSeq(s, 1, k - 1) \o <<s[k]>>
  BY <1>1, SubSeqRecursiveSecond
<1>6. ASSUME NEW x
      PROVE  Count(SubSeq(s, 1, k), x)
               = Count(SubSeq(s, 1, k - 1), x) + (IF s[k] = x THEN 1 ELSE 0)
  <2>1. s[k] \in Values
    BY <1>2
  <2>2. PICK t \in Seq(Values) : t = SubSeq(s, 1, k - 1)
    BY <1>4
  <2>3. Count(t \o <<s[k]>>, x) = Count(t, x) + (IF s[k] = x THEN 1 ELSE 0)
    BY <2>1, CountMore
  <2>4. SubSeq(s, 1, k) = t \o <<s[k]>>
    BY <1>5, <2>2
  <2>5. QED  BY <2>2, <2>3, <2>4, Zenon
<1>7. QED  BY <1>3, <1>4, <1>5, <1>6

LEMMA Parts ==
  ASSUME NEW s \in Seq(Values), NEW p \in 0..Len(s)
  PROVE  /\ SubSeq(s, 1, p) \in Seq(Values) /\ SubSeq(s, p + 1, Len(s)) \in Seq(Values)
         /\ Len(SubSeq(s, 1, p)) = p /\ Len(SubSeq(s, p + 1, Len(s))) = Len(s) - p
         /\ \A k \in 1..p : SubSeq(s, 1, p)[k] = s[k]
         /\ \A k \in 1..Len(s)-p : SubSeq(s, p + 1, Len(s))[k] = s[p+k]
         /\ \A x : Count(SubSeq(s, 1, p), x) + Count(SubSeq(s, p + 1, Len(s)), x)
                     = Count(s, x)
<1>1. Len(s) \in Nat /\ p \in Nat /\ p <= Len(s) /\ p + 1 \in Int /\ Len(s) \in Int
      /\ 1 \in Int /\ p \in Int
  OBVIOUS
<1>2. \A l \in 1..Len(s) : s[l] \in Values
  BY Elements
<1>3. /\ SubSeq(s, 1, p) \in Seq(Values) /\ Len(SubSeq(s, 1, p)) = p
      /\ \A k \in 1..p : SubSeq(s, 1, p)[k] = s[k]
  <2>1. \A l \in 1..p : s[l] \in Values
    BY <1>1, <1>2
  <2>2. /\ SubSeq(s, 1, p) \in Seq(Values)
        /\ Len(SubSeq(s, 1, p)) = IF 1 <= p THEN p - 1 + 1 ELSE 0
        /\ \A k \in 1..p-1+1 : SubSeq(s, 1, p)[k] = s[1+k-1]
    BY <1>1, <2>1, SubSeqProperties
  <2>3. \A k \in 1..p : k \in 1..p-1+1 /\ 1+k-1 = k
    BY <1>1
  <2>4. QED  BY <1>1, <2>2, <2>3
<1>4. /\ SubSeq(s, p + 1, Len(s)) \in Seq(Values)
      /\ Len(SubSeq(s, p + 1, Len(s))) = Len(s) - p
      /\ \A k \in 1..Len(s)-p : SubSeq(s, p + 1, Len(s))[k] = s[p+k]
  <2>1. \A l \in p+1..Len(s) : s[l] \in Values
    BY <1>1, <1>2
  <2>2. /\ SubSeq(s, p + 1, Len(s)) \in Seq(Values)
        /\ Len(SubSeq(s, p + 1, Len(s))) = IF p + 1 <= Len(s) THEN Len(s) - (p + 1) + 1 ELSE 0
        /\ \A k \in 1..Len(s)-(p+1)+1 : SubSeq(s, p + 1, Len(s))[k] = s[(p+1)+k-1]
    BY <1>1, <2>1, SubSeqProperties
  <2>3. \A k \in 1..Len(s)-p : k \in 1..Len(s)-(p+1)+1 /\ (p+1)+k-1 = p + k
    BY <1>1
  <2>4. QED  BY <1>1, <2>2, <2>3
<1>5. SubSeq(s, 1, p) \o SubSeq(s, p + 1, Len(s)) = s
  <2>1. 1 \in 1..Len(s)+1 /\ p \in 1-1..Len(s) /\ Len(s) \in p..Len(s)
    BY <1>1
  <2>2. SubSeq(s, 1, p) \o SubSeq(s, p + 1, Len(s)) = SubSeq(s, 1, Len(s))
    BY <2>1, ConcatAdjacentSubSeq
  <2>3. QED  BY <2>2, SubSeqFull
<1>6. ASSUME NEW x
      PROVE  Count(SubSeq(s, 1, p), x) + Count(SubSeq(s, p + 1, Len(s)), x) = Count(s, x)
  <2>1. Count(SubSeq(s, 1, p) \o SubSeq(s, p + 1, Len(s)), x)
          = Count(SubSeq(s, 1, p), x) + Count(SubSeq(s, p + 1, Len(s)), x)
    BY <1>3, <1>4, CountConcat
  <2>2. QED  BY <1>5, <2>1
<1>7. QED  BY <1>3, <1>4, <1>6

(* Those: of every value that is kept as many as there are.                *)
LEMMA ThoseAreKept ==
  ASSUME NEW s \in Seq(Values), NEW keep
  PROVE  /\ Those(s, keep) \in Seq(Values)
         /\ Len(Those(s, keep)) <= Len(s)
         /\ \A x : Count(Those(s, keep), x) = IF x \in keep THEN Count(s, x) ELSE 0
<1>. DEFINE n == Len(s)
            G == [k \in 1..n |-> [y \in Seq(Values) |->
                    IF s[k] \in keep THEN Append(y, s[k]) ELSE y]]
            Step(h) == [k \in 0..n |->
                    IF k = 0 THEN <<>>
                    ELSE IF s[k] \in keep THEN Append(h[k-1], s[k]) ELSE h[k-1]]
            upTo == CHOOSE h : h = Step(h)
<1>1. n \in Nat /\ \A k \in 1..n : s[k] \in Values
  BY Elements
<1>2. PICK f \in [0..n -> Seq(Values)] : Recurs(f, <<>>, G, n)
  <2>1. \A k \in 1..n : G[k] \in [Seq(Values) -> Seq(Values)]
    BY <1>1
  <2>2. <<>> \in Seq(Values)
    OBVIOUS
  <2>. HIDE DEF G
  <2>3. QED  BY <1>1, <2>1, <2>2, RecursionExists
<1>3. \A k \in 0..n : f[k] = IF k = 0 THEN <<>>
                             ELSE IF s[k] \in keep THEN Append(f[k-1], s[k]) ELSE f[k-1]
  <2>1. \A k \in 0..n : f[k] = IF k = 0 THEN <<>> ELSE G[k][f[k-1]]
    <3>. HIDE DEF G
    <3>1. QED  BY <1>2 DEF Recurs
  <2>2. \A k \in 0..n : k # 0 => k \in 1..n /\ f[k-1] \in Seq(Values)
    <3>. HIDE DEF G, Step, upTo, n
    <3>1. \A k \in 0..n : k # 0 => k \in 1..n /\ k - 1 \in 0..n
      BY <1>1
    <3>2. QED  BY <1>2, <3>1
  <2>3. \A k \in 0..n : k # 0 =>
          G[k][f[k-1]] = IF s[k] \in keep THEN Append(f[k-1], s[k]) ELSE f[k-1]
    BY <2>2
  <2>. HIDE DEF G
  <2>4. QED  BY <2>1, <2>3
<1>4. f = Step(f)
  BY <1>2, <1>3
<1>5. upTo = Step(upTo)
  <2>. HIDE DEF Step
  <2>1. QED  BY <1>4
<1>6. Those(s, keep) = upTo[n]
  BY DEF Those
<1>7. \A k \in 0..n : upTo[k] = IF k = 0 THEN <<>>
                ELSE IF s[k] \in keep THEN Append(upTo[k-1], s[k]) ELSE upTo[k-1]
  <2>. HIDE DEF upTo
  <2>1. QED  BY <1>5
<1>. HIDE DEF upTo
<1>. DEFINE T == {k \in 0..n :
              /\ upTo[k] \in Seq(Values) /\ Len(upTo[k]) <= k
              /\ \A x : Count(upTo[k], x)
                          = IF x \in keep THEN Count(SubSeq(s, 1, k), x) ELSE 0}
<1>. HIDE DEF n
<1>8. 0 \in T
  <2>1. SubSeq(s, 1, 0) = <<>>
    BY SubSeqEmpty
  <2>2. upTo[0] = <<>> /\ 0 \in 0..n
    BY <1>1, <1>7
  <2>3. \A x : Count(<<>>, x) = 0
    BY CountNone
  <2>4. <<>> \in Seq(Values) /\ Len(<<>>) <= 0
    OBVIOUS
  <2>5. QED  BY <2>1, <2>2, <2>3, <2>4
<1>9. ASSUME NEW k \in 1..n, k - 1 \in T PROVE k \in T
  <2>1. k \in 0..n /\ k # 0 /\ k \in 1..Len(s) /\ k \in Nat
    BY <1>1 DEF n
  <2>2. /\ upTo[k-1] \in Seq(Values) /\ Len(upTo[k-1]) <= k - 1
        /\ \A x : Count(upTo[k-1], x)
                    = IF x \in keep THEN Count(SubSeq(s, 1, k - 1), x) ELSE 0
    BY <1>9
  <2>3. \A x : Count(SubSeq(s, 1, k), x)
                 = Count(SubSeq(s, 1, k - 1), x) + (IF s[k] = x THEN 1 ELSE 0)
    BY <2>1, Prefix
  <2>4. \A x : Count(SubSeq(s, 1, k - 1), x) \in Nat
    <3>1. SubSeq(s, 1, k - 1) \in Seq(Values)
      BY <2>1, Prefix
    <3>2. QED  BY <3>1, CountType
  <2>5. CASE s[k] \in keep
    <3>1. upTo[k] = Append(upTo[k-1], s[k])
      BY <1>7, <2>1, <2>5
    <3>2. s[k] \in Values
      BY <1>1
    <3>3. /\ upTo[k] \in Seq(Values) /\ Len(upTo[k]) = Len(upTo[k-1]) + 1
          /\ upTo[k] = upTo[k-1] \o <<s[k]>>
      BY <2>2, <3>1, <3>2, AppendProperties, AppendIsConcat, SMTT(20)
    <3>4. ASSUME NEW x
          PROVE  Count(upTo[k], x) = IF x \in keep THEN Count(SubSeq(s, 1, k), x) ELSE 0
      <4>1. Count(upTo[k], x) = Count(upTo[k-1], x) + (IF s[k] = x THEN 1 ELSE 0)
        BY <2>2, <3>2, <3>3, CountMore
      <4>2. s[k] = x => x \in keep
        BY <2>5
      <4>3. QED  BY <2>2, <2>3, <2>4, <4>1, <4>2
    <3>5. Len(upTo[k]) <= k
      BY <2>1, <2>2, <3>3
    <3>6. QED  BY <2>1, <3>3, <3>4, <3>5
  <2>6. CASE s[k] \notin keep
    <3>1. upTo[k] = upTo[k-1]
      BY <1>7, <2>1, <2>6
    <3>2. \A x : x \in keep => s[k] # x
      BY <2>6
    <3>3. \A x : Count(upTo[k], x) = IF x \in keep THEN Count(SubSeq(s, 1, k), x) ELSE 0
      BY <2>2, <2>3, <2>4, <3>1, <3>2
    <3>4. Len(upTo[k]) <= k
      BY <2>1, <2>2, <3>1
    <3>5. QED  BY <2>1, <2>2, <3>1, <3>3, <3>4
  <2>7. QED  BY <2>5, <2>6
<1>. HIDE DEF T
<1>10. \A k \in 0..n : k \in T
  BY <1>1, <1>8, <1>9, InductionUpTo
<1>11. n \in T
  BY <1>1, <1>10
<1>12. SubSeq(s, 1, n) = s
  BY SubSeqFull DEF n
<1>13. QED  BY <1>6, <1>11, <1>12 DEF T, n

-----------------------------------------------------------------------------
LEMMA Halves ==
  ASSUME NEW a \in Arrays, Len(a) > 1
  PROVE  /\ Len(a) \in Nat /\ a \in Seq(Values)
         /\ Pivot(a) \in 1..Len(a)-1 /\ Pivot(a) + 1 \in 2..Len(a)
<1>1. a \in Seq(Values) /\ Len(a) \in Nat
  BY ArrayIsSeq, LenProperties
<1>2. \A n \in Nat : n > 1 => n \div 2 \in 1..n-1
  OBVIOUS
<1>3. Pivot(a) \in 1..Len(a)-1
  BY <1>1, <1>2 DEF Pivot
<1>4. QED  BY <1>1, <1>3

(* The element quickSort() takes as its pivot, and the others.             *)
LEMMA PivotAndOthers ==
  ASSUME NEW a \in Arrays, Len(a) > 1,
         NEW piovt, piovt = a[Pivot(a) + 1],
         NEW others, others = RemoveAt(a, Pivot(a) + 1)
  PROVE  /\ piovt \in Values
         /\ others \in Seq(Values)
         /\ \A keep : Those(others, keep) \in Arrays
                      /\ Len(Those(others, keep)) < Len(a)
         /\ \A x : Count(others, x) + (IF piovt = x THEN 1 ELSE 0) = Count(a, x)
<1>. DEFINE p == Pivot(a) + 1
            front == SubSeq(a, 1, p - 1)
            back == SubSeq(a, p + 1, Len(a))
<1>1. a \in Seq(Values) /\ Len(a) \in Nat /\ p \in 1..Len(a) /\ Len(a) <= MaxLength
      /\ p \in 0..Len(a) /\ p \in Int
  BY Halves, ArrayIsSeq
<1>2. piovt \in Values
  BY <1>1, Elements
<1>. HIDE DEF p
<1>3. front \in Seq(Values)
      /\ \A x : Count(SubSeq(a, 1, p), x) = Count(front, x) + (IF a[p] = x THEN 1 ELSE 0)
  BY <1>1, Prefix
<1>4. back \in Seq(Values) /\ Len(back) = Len(a) - p
      /\ \A x : Count(SubSeq(a, 1, p), x) + Count(back, x) = Count(a, x)
  BY <1>1, Parts
<1>5. Len(front) = p - 1
  <2>1. p - 1 \in 0..Len(a)
    BY <1>1
  <2>2. QED  BY <1>1, <2>1, Parts
<1>6. others = front \o back
  BY DEF RemoveAt, p
<1>. HIDE DEF front, back
<1>7. others \in Seq(Values) /\ Len(others) = Len(front) + Len(back)
  <2>1. front \in Seq(Values) /\ back \in Seq(Values)
    BY <1>3, <1>4
  <2>2. front \o back \in Seq(Values) /\ Len(front \o back) = Len(front) + Len(back)
    BY <2>1, ConcatProperties
  <2>3. QED  BY <1>6, <2>2, Zenon
<1>8. Len(others) = Len(a) - 1
  BY <1>1, <1>4, <1>5, <1>7
<1>9. ASSUME NEW keep
      PROVE  Those(others, keep) \in Arrays /\ Len(Those(others, keep)) < Len(a)
  <2>1. Those(others, keep) \in Seq(Values) /\ Len(Those(others, keep)) <= Len(others)
    BY <1>7, ThoseAreKept
  <2>2. Len(Those(others, keep)) \in Nat
    BY <2>1, LenProperties
  <2>3. Len(Those(others, keep)) < Len(a) /\ Len(Those(others, keep)) <= MaxLength
    BY <1>1, <1>8, <2>1, <2>2, ArrayAssumption
  <2>4. QED  BY <2>1, <2>3, ArrayIsSeq
<1>10. ASSUME NEW x
       PROVE  Count(others, x) + (IF piovt = x THEN 1 ELSE 0) = Count(a, x)
  <2>1. Count(others, x) = Count(front, x) + Count(back, x)
    <3>1. PICK s \in Seq(Values) : s = front
      BY <1>3
    <3>2. PICK t \in Seq(Values) : t = back
      BY <1>4
    <3>3. Count(s \o t, x) = Count(s, x) + Count(t, x)
      BY CountConcat
    <3>4. QED  BY <1>6, <3>1, <3>2, <3>3
  <2>2. Count(front, x) \in Nat /\ Count(back, x) \in Nat
    BY <1>3, <1>4, CountType
  <2>3. Count(SubSeq(a, 1, p), x) = Count(front, x) + (IF piovt = x THEN 1 ELSE 0)
        /\ Count(SubSeq(a, 1, p), x) + Count(back, x) = Count(a, x)
    BY <1>3, <1>4 DEF p
  <2>4. QED  BY <2>1, <2>2, <2>3
<1>11. QED  BY <1>2, <1>7, <1>9, <1>10

QuickOf(h, w) ==
  IF Len(w) <= 1 THEN w
  ELSE LET piovt == w[Pivot(w) + 1]
           others == RemoveAt(w, Pivot(w) + 1)
       IN h[Those(others, {x \in Values : x >= piovt})] \o <<piovt>>
          \o h[Those(others, {x \in Values : x < piovt})]

LEMMA QuickIsDefined ==
  /\ quickSort \in [Arrays -> Seq(Values)]
  /\ \A a \in Arrays : quickSort[a] = QuickOf(quickSort, a)
<1>. DEFINE S == Seq(Values)
            Step(h) == [w \in Arrays |-> QuickOf(h, w)]
            G == [h \in [Arrays -> S] |-> Step(h)]
<1>1. <<>> \in S
  OBVIOUS
<1>2. ASSUME NEW h \in [Arrays -> S], NEW a \in Arrays
      PROVE  QuickOf(h, a) \in S
  <2>1. CASE Len(a) <= 1
    BY <2>1, ArrayIsSeq DEF QuickOf
  <2>2. CASE ~(Len(a) <= 1)
    <3>1. Len(a) > 1
      BY <2>2, ArrayIsSeq, LenProperties
    <3>2. PICK piovt, others : piovt = a[Pivot(a) + 1]
                               /\ others = RemoveAt(a, Pivot(a) + 1)
      OBVIOUS
    <3>. DEFINE s == h[Those(others, {x \in Values : x >= piovt})]
                t == h[Those(others, {x \in Values : x < piovt})]
    <3>3. piovt \in Values /\ s \in S /\ t \in S
      BY <3>1, <3>2, PivotAndOthers
    <3>4. QuickOf(h, a) = s \o <<piovt>> \o t
      BY <2>2, <3>2 DEF QuickOf
    <3>. HIDE DEF s, t
    <3>5. s \o <<piovt>> \in S
      BY <3>3, CountMore
    <3>6. QED  BY <3>3, <3>4, <3>5, ConcatProperties
  <2>3. QED  BY <2>1, <2>2
<1>3. ASSUME NEW h1, NEW h2, NEW a \in Arrays,
             \A b \in Arrays : Len(b) < Len(a) => h1[b] = h2[b]
      PROVE  QuickOf(h1, a) = QuickOf(h2, a)
  <2>1. CASE Len(a) <= 1
    BY <2>1 DEF QuickOf
  <2>2. CASE ~(Len(a) <= 1)
    <3>1. Len(a) > 1
      BY <2>2, ArrayIsSeq, LenProperties
    <3>2. PICK piovt, others : piovt = a[Pivot(a) + 1]
                               /\ others = RemoveAt(a, Pivot(a) + 1)
      OBVIOUS
    <3>3. \A keep : h1[Those(others, keep)] = h2[Those(others, keep)]
      BY <1>3, <3>1, <3>2, PivotAndOthers
    <3>4. h1[Those(others, {x \in Values : x >= piovt})]
            = h2[Those(others, {x \in Values : x >= piovt})]
          /\ h1[Those(others, {x \in Values : x < piovt})]
               = h2[Those(others, {x \in Values : x < piovt})]
      BY <3>3
    <3>5. QED  BY <2>2, <3>2, <3>4 DEF QuickOf
  <2>3. QED  BY <2>1, <2>2
<1>. HIDE DEF S
<1>4. G \in [[Arrays -> S] -> [Arrays -> S]]
  BY <1>2
<1>5. \A h1, h2 \in [Arrays -> S], a \in Arrays :
        (\A b \in Arrays : Len(b) < Len(a) => h1[b] = h2[b]) => G[h1][a] = G[h2][a]
  BY <1>3
<1>6. \A h \in [Arrays -> S] : G[h] = Step(h)
  OBVIOUS
<1>. HIDE DEF G
<1>7. PICK f \in [Arrays -> S] : f = G[f]
  BY <1>1, <1>4, <1>5, ArrayRecursion
<1>8. f = Step(f)
  BY <1>6, <1>7
<1>9. quickSort = CHOOSE h : h = Step(h)
  BY DEF quickSort, QuickOf
<1>10. quickSort = Step(quickSort)
  <2>. HIDE DEF Step
  <2>1. QED  BY <1>8, <1>9
<1>11. \A a \in Arrays : quickSort[a] = QuickOf(quickSort, a)
  BY <1>10
<1>12. \A a \in Arrays : quickSort[a] = f[a]
  <2>. DEFINE T == {a \in Arrays : quickSort[a] = f[a]}
  <2>1. \A a \in Arrays : f[a] = QuickOf(f, a)
    BY <1>8
  <2>2. ASSUME NEW a \in Arrays, \A b \in Arrays : Len(b) < Len(a) => b \in T
        PROVE  a \in T
    <3>1. \A b \in Arrays : Len(b) < Len(a) => quickSort[b] = f[b]
      BY <2>2
    <3>2. QuickOf(quickSort, a) = QuickOf(f, a)
      BY <1>3, <3>1
    <3>3. QED  BY <1>11, <2>1, <3>2
  <2>. HIDE DEF T
  <2>3. \A a \in Arrays : a \in T
    BY <2>2, ArrayInduction
  <2>4. QED  BY <2>3 DEF T
<1>13. quickSort \in [Arrays -> Seq(Values)]
  <2>1. \A a \in Arrays : quickSort[a] \in Seq(Values)
    BY <1>7, <1>12 DEF S
  <2>2. quickSort = [a \in Arrays |-> quickSort[a]]
    BY <1>10
  <2>3. QED  BY <2>1, <2>2
<1>14. QED  BY <1>11, <1>13

LEMMA JoinInOrder ==
  ASSUME NEW s \in Seq(Values), NEW t \in Seq(Values), Descending(s), Descending(t),
         \A k \in 1..Len(s), l \in 1..Len(t) : s[k] >= t[l]
  PROVE  s \o t \in Seq(Values) /\ Descending(s \o t)
<1>1. /\ s \o t \in Seq(Values) /\ Len(s \o t) = Len(s) + Len(t)
      /\ \A k \in 1..Len(s)+Len(t) :
           (s \o t)[k] = IF k <= Len(s) THEN s[k] ELSE t[k - Len(s)]
  BY ConcatProperties
<1>2. Len(s) \in Nat /\ Len(t) \in Nat
  BY LenProperties
<1>3. ASSUME NEW k \in 1..Len(s)+Len(t), NEW l \in 1..Len(s)+Len(t), k < l
      PROVE  (s \o t)[k] >= (s \o t)[l]
  <2>1. CASE l <= Len(s)
    <3>1. k \in 1..Len(s) /\ l \in 1..Len(s)
      BY <1>2, <1>3, <2>1
    <3>2. s[k] >= s[l]
      BY <1>3, <3>1 DEF Descending
    <3>3. (s \o t)[k] = s[k] /\ (s \o t)[l] = s[l]
      BY <1>1, <3>1
    <3>4. QED  BY <3>2, <3>3
  <2>2. CASE k <= Len(s) /\ ~(l <= Len(s))
    <3>1. k \in 1..Len(s) /\ l - Len(s) \in 1..Len(t)
      BY <1>2, <1>3, <2>2
    <3>2. (s \o t)[k] = s[k] /\ (s \o t)[l] = t[l - Len(s)]
      BY <1>1, <2>2
    <3>3. QED  BY <3>1, <3>2
  <2>3. CASE ~(k <= Len(s))
    <3>1. ~(l <= Len(s)) /\ k - Len(s) \in 1..Len(t) /\ l - Len(s) \in 1..Len(t)
          /\ k - Len(s) < l - Len(s)
      BY <1>2, <1>3, <2>3
    <3>2. (s \o t)[k] = t[k - Len(s)] /\ (s \o t)[l] = t[l - Len(s)]
      BY <1>1, <2>3, <3>1
    <3>3. t[k - Len(s)] >= t[l - Len(s)]
      BY <3>1 DEF Descending
    <3>4. QED  BY <3>2, <3>3
  <2>4. QED  BY <2>1, <2>2, <2>3
<1>4. QED  BY <1>1, <1>3 DEF Descending

LEMMA OneInOrder ==
  ASSUME NEW v \in Values
  PROVE  <<v>> \in Seq(Values) /\ Len(<<v>>) = 1 /\ <<v>>[1] = v /\ Descending(<<v>>)
<1>1. <<v>> \in Seq(Values) /\ Len(<<v>>) = 1 /\ <<v>>[1] = v
  OBVIOUS
<1>2. \A k, l \in 1..1 : ~(k < l)
  OBVIOUS
<1>3. QED  BY <1>1, <1>2 DEF Descending

(* quickSort() returns its argument's values in descending order.          *)
LEMMA QuickSorts ==
  ASSUME NEW a \in Arrays
  PROVE  /\ quickSort[a] \in Seq(Values)
         /\ Descending(quickSort[a]) /\ SameValues(a, quickSort[a])
<1>. DEFINE T == {b \in Arrays : Descending(quickSort[b]) /\ SameValues(b, quickSort[b])}
<1>1. ASSUME NEW b \in Arrays, \A c \in Arrays : Len(c) < Len(b) => c \in T
      PROVE  b \in T
  <2>0. b \in Seq(Values) /\ Len(b) \in Nat
    BY ArrayIsSeq, LenProperties
  <2>1. CASE Len(b) <= 1
    <3>1. quickSort[b] = b
      BY <2>1, QuickIsDefined DEF QuickOf
    <3>2. \A k, l \in 1..Len(b) : ~(k < l)
      BY <2>0, <2>1
    <3>3. Descending(b)
      BY <3>2 DEF Descending
    <3>4. QED  BY <3>1, <3>3 DEF SameValues
  <2>2. CASE Len(b) > 1
    <3>1. PICK piovt, others : piovt = b[Pivot(b) + 1]
                               /\ others = RemoveAt(b, Pivot(b) + 1)
      OBVIOUS
    <3>2. PICK front, back : /\ front = Those(others, {x \in Values : x >= piovt})
                             /\ back = Those(others, {x \in Values : x < piovt})
      OBVIOUS
    <3>3. PICK s, t : s = quickSort[front] /\ t = quickSort[back]
      OBVIOUS
    <3>4. quickSort[b] = s \o <<piovt>> \o t
      <4>1. ~(Len(b) <= 1)
        BY <2>0, <2>2
      <4>2. quickSort[b] = QuickOf(quickSort, b)
        BY QuickIsDefined
      <4>3. QED  BY <3>1, <3>2, <3>3, <4>1, <4>2 DEF QuickOf
    <3>5. /\ piovt \in Values /\ others \in Seq(Values)
          /\ front \in Arrays /\ Len(front) < Len(b)
          /\ back \in Arrays /\ Len(back) < Len(b)
      BY <2>2, <3>1, <3>2, PivotAndOthers
    <3>6. \A x : Count(others, x) + (IF piovt = x THEN 1 ELSE 0) = Count(b, x)
      BY <2>2, <3>1, PivotAndOthers
    <3>7. piovt \in Int /\ \A x \in Values : x \in Int
      BY <3>5, ArrayAssumption
    <3>8. front \in T /\ back \in T
      BY <1>1, <3>5
    <3>9. /\ s \in Seq(Values) /\ Descending(s) /\ SameValues(front, s)
          /\ t \in Seq(Values) /\ Descending(t) /\ SameValues(back, t)
      BY <3>3, <3>5, <3>8, QuickIsDefined
    <3>10. ASSUME NEW x \in Values
           PROVE  /\ Count(s, x) = IF x >= piovt THEN Count(others, x) ELSE 0
                  /\ Count(t, x) = IF x < piovt THEN Count(others, x) ELSE 0
      <4>1. Count(front, x) = IF x \in {y \in Values : y >= piovt} THEN Count(others, x) ELSE 0
        BY <3>2, <3>5, ThoseAreKept
      <4>2. Count(back, x) = IF x \in {y \in Values : y < piovt} THEN Count(others, x) ELSE 0
        BY <3>2, <3>5, ThoseAreKept
      <4>3. Count(s, x) = Count(front, x) /\ Count(t, x) = Count(back, x)
        BY <3>9 DEF SameValues
      <4>4. QED  BY <4>1, <4>2, <4>3
    <3>11. ASSUME NEW k \in 1..Len(s) PROVE s[k] \in Values /\ s[k] >= piovt
      <4>1. s[k] \in Values
        BY <3>9, Elements
      <4>2. Count(s, s[k]) # 0
        BY <3>9, CountType
      <4>3. QED  BY <3>10, <4>1, <4>2
    <3>12. ASSUME NEW k \in 1..Len(t) PROVE t[k] \in Values /\ t[k] < piovt
      <4>1. t[k] \in Values
        BY <3>9, Elements
      <4>2. Count(t, t[k]) # 0
        BY <3>9, CountType
      <4>3. QED  BY <3>10, <4>1, <4>2
    <3>13. PICK u \in Seq(Values) : u = s \o <<piovt>>
      BY <3>5, <3>9, CountMore
    <3>14. /\ Descending(u) /\ Len(u) = Len(s) + 1 /\ Len(s) \in Nat
           /\ \A k \in 1..Len(u) : u[k] = IF k <= Len(s) THEN s[k] ELSE piovt
      <4>1. PICK e \in Seq(Values) : e = <<piovt>> /\ Len(e) = 1 /\ e[1] = piovt /\ Descending(e)
        BY <3>5, OneInOrder
      <4>2. \A k \in 1..Len(s), l \in 1..Len(e) : s[k] >= e[l]
        BY <3>11, <4>1
      <4>3. Descending(u)
        BY <3>9, <3>13, <4>1, <4>2, JoinInOrder
      <4>4. Len(s) \in Nat
        BY <3>9, LenProperties
      <4>5. /\ Len(s \o <<piovt>>) = Len(s) + 1
            /\ \A k \in 1..Len(s)+1 :
                 (s \o <<piovt>>)[k] = IF k <= Len(s) THEN s[k] ELSE piovt
        BY <3>5, <3>9, CountMore
      <4>6. QED  BY <3>13, <4>3, <4>4, <4>5
    <3>15. Descending(u \o t)
      <4>1. ASSUME NEW k \in 1..Len(u), NEW l \in 1..Len(t) PROVE u[k] >= t[l]
        <5>1. k \in 1..Len(s) \/ ~(k <= Len(s))
          BY <3>14
        <5>2. u[k] \in Int /\ u[k] >= piovt
          BY <3>7, <3>11, <3>14, <5>1
        <5>3. t[l] \in Int /\ t[l] < piovt
          BY <3>7, <3>12
        <5>4. QED  BY <3>7, <5>2, <5>3
      <4>2. QED  BY <3>9, <3>14, <4>1, JoinInOrder
    <3>16. ASSUME NEW x \in Values PROVE Count(b, x) = Count(u \o t, x)
      <4>1. Count(u \o t, x) = Count(u, x) + Count(t, x)
        BY <3>9, CountConcat
      <4>2. Count(u, x) = Count(s, x) + (IF piovt = x THEN 1 ELSE 0)
        BY <3>5, <3>9, <3>13, CountMore
      <4>3. Count(others, x) \in Nat
        BY <3>5, CountType
      <4>4. Count(others, x) + (IF piovt = x THEN 1 ELSE 0) = Count(b, x)
        BY <3>6
      <4>5. x \in Int
        BY <3>7
      <4>6. Count(s, x) + Count(t, x) = Count(others, x)
        BY <3>7, <3>10, <4>3, <4>5
      <4>7. Count(s, x) \in Nat /\ Count(t, x) \in Nat
        BY <3>9, CountType
      <4>8. QED  BY <4>1, <4>2, <4>3, <4>4, <4>6, <4>7
    <3>17. QED  BY <3>4, <3>13, <3>15, <3>16 DEF SameValues
  <2>3. QED  BY <2>0, <2>1, <2>2
<1>. HIDE DEF T
<1>2. \A b \in Arrays : b \in T
  BY <1>1, ArrayInduction
<1>3. QED  BY <1>2, QuickIsDefined DEF T

-----------------------------------------------------------------------------
(* The inner loop of mergeSort() ends somewhere.                           *)
LEMMA PassedThose ==
  ASSUME NEW right \in Seq(Values), NEW p \in 0..Len(right), NEW x \in Values
  PROVE  /\ Passed(right, p, x) \in p..Len(right)
         /\ \A l \in p+1..Passed(right, p, x) : right[l] > x
         /\ Passed(right, p, x) < Len(right) => right[Passed(right, p, x)+1] <= x
<1>. DEFINE m == Len(right)
            U == {k \in p..m : k < m => right[k+1] <= x}
<1>1. m \in Nat /\ p \in Nat /\ p <= m /\ x \in Int
      /\ \A k \in 1..m : right[k] \in Int
  BY Elements, ArrayAssumption
<1>. HIDE DEF m
<1>2. m \in U /\ U \in SUBSET Nat
  BY <1>1
<1>3. PICK k \in U : \A l \in U : k <= l
  BY <1>2, LeastNatural
<1>4. ASSUME NEW l \in p+1..k PROVE right[l] > x
  <2>1. k \in p..m /\ l - 1 \in p..m /\ l - 1 < k /\ l - 1 \in Nat /\ k \in Nat
        /\ l \in 1..m /\ (l - 1) + 1 = l
    BY <1>1, <1>3
  <2>2. l - 1 \notin U
    BY <1>3, <2>1
  <2>3. ~(right[l] <= x)
    BY <2>1, <2>2
  <2>4. QED  BY <1>1, <2>1, <2>3
<1>5. /\ k \in p..m /\ \A l \in p+1..k : right[l] > x
      /\ k < m => right[k+1] <= x
  BY <1>3, <1>4
<1>. HIDE DEF U
<1>6. QED  BY <1>5 DEF Passed, m

(* Merge as two sequences: what is merged and where right is read next,    *)
(* after the first k values of left.                                       *)
LEMMA MergeRecurs ==
  ASSUME NEW left \in Seq(Values), NEW right \in Seq(Values)
  PROVE  \E m \in [0..Len(left) -> Seq(Values)], p \in [0..Len(left) -> 0..Len(right)] :
           /\ m[0] = <<>> /\ p[0] = 0
           /\ \A k \in 1..Len(left) :
                /\ p[k] = Passed(right, p[k-1], left[k])
                /\ m[k] = m[k-1] \o SubSeq(right, p[k-1] + 1, p[k]) \o <<left[k]>>
           /\ Merge(left, right) = m[Len(left)]
<1>. DEFINE n == Len(left)
            S == [merged : Seq(Values), j_index : 0..Len(right)]
            After(y, k) ==
              [merged |-> y.merged
                 \o SubSeq(right, y.j_index + 1, Passed(right, y.j_index, left[k]))
                 \o <<left[k]>>,
               j_index |-> Passed(right, y.j_index, left[k])]
            first == [merged |-> <<>>, j_index |-> 0]
            G == [k \in 1..n |-> [y \in S |-> After(y, k)]]
            Step(h) == [k \in 0..n |-> IF k = 0 THEN first ELSE After(h[k-1], k)]
            upTo == CHOOSE h : h = Step(h)
<1>1. n \in Nat /\ Len(right) \in Nat /\ \A k \in 1..n : left[k] \in Values
  BY Elements
<1>2. first \in S
  BY <1>1
<1>3. ASSUME NEW k \in 1..n, NEW y \in S PROVE After(y, k) \in S
  <2>1. PICK q, r : q = y.j_index /\ r = Passed(right, q, left[k])
    OBVIOUS
  <2>2. q \in 0..Len(right) /\ y.merged \in Seq(Values)
    BY <2>1
  <2>3. r \in q..Len(right)
    BY <1>1, <2>1, <2>2, PassedThose
  <2>4. r \in 0..Len(right) /\ q + 1 \in Int /\ r \in Int
    BY <1>1, <2>2, <2>3
  <2>5. \A l \in q+1..r : right[l] \in Values
    BY <1>1, <2>2, <2>3, Elements
  <2>6. SubSeq(right, q + 1, r) \in Seq(Values)
    BY <2>4, <2>5, SubSeqProperties
  <2>7. y.merged \o SubSeq(right, q + 1, r) \in Seq(Values)
    BY <2>2, <2>6, ConcatProperties
  <2>8. y.merged \o SubSeq(right, q + 1, r) \o <<left[k]>> \in Seq(Values)
    BY <1>1, <2>7, CountMore
  <2>9. QED  BY <2>1, <2>4, <2>8
<1>. HIDE DEF After, first, S, n
<1>4. \A k \in 1..n : G[k] \in [S -> S]
  BY <1>3
<1>5. PICK f \in [0..n -> S] : Recurs(f, first, G, n)
  <2>. HIDE DEF G
  <2>1. QED  BY <1>1, <1>2, <1>4, RecursionExists
<1>6. \A k \in 0..n : f[k] = IF k = 0 THEN first ELSE After(f[k-1], k)
  <2>1. \A k \in 0..n : f[k] = IF k = 0 THEN first ELSE G[k][f[k-1]]
    <3>. HIDE DEF G
    <3>1. QED  BY <1>5 DEF Recurs
  <2>2. \A k \in 0..n : k # 0 => k \in 1..n /\ k - 1 \in 0..n
    BY <1>1
  <2>3. \A k \in 0..n : k # 0 => k \in 1..n /\ f[k-1] \in S
    <3>. HIDE DEF G, Step, upTo
    <3>1. QED  BY <1>5, <2>2
  <2>4. \A k \in 0..n : k # 0 => G[k][f[k-1]] = After(f[k-1], k)
    BY <2>3
  <2>. HIDE DEF G
  <2>5. QED  BY <2>1, <2>4
<1>7. f = Step(f)
  BY <1>5, <1>6
<1>8. upTo = Step(upTo)
  <2>. HIDE DEF Step
  <2>1. QED  BY <1>7
<1>9. Merge(left, right) = upTo[n].merged
  BY DEF Merge, n, first, After
<1>10. \A k \in 0..n : upTo[k] = IF k = 0 THEN first ELSE After(upTo[k-1], k)
  <2>. HIDE DEF upTo
  <2>1. QED  BY <1>8
<1>. HIDE DEF upTo, Step, G
<1>11. \A k \in 0..n : upTo[k] = f[k]
  <2>. DEFINE T == {k \in 0..n : upTo[k] = f[k]}
  <2>1. 0 \in T
    BY <1>1, <1>6, <1>10
  <2>2. ASSUME NEW k \in 1..n, k - 1 \in T PROVE k \in T
    <3>1. k \in 0..n /\ k # 0 /\ upTo[k-1] = f[k-1]
      BY <1>1, <2>2
    <3>2. QED  BY <1>6, <1>10, <3>1
  <2>. HIDE DEF T
  <2>3. \A k \in 0..n : k \in T
    BY <1>1, <2>1, <2>2, InductionUpTo
  <2>4. QED  BY <2>3 DEF T
<1>. DEFINE m == [k \in 0..n |-> f[k].merged]
            p == [k \in 0..n |-> f[k].j_index]
<1>12. m \in [0..n -> Seq(Values)] /\ p \in [0..n -> 0..Len(right)]
  BY <1>5 DEF S
<1>13. m[0] = <<>> /\ p[0] = 0 /\ Merge(left, right) = m[n]
  BY <1>1, <1>6, <1>9, <1>11 DEF first
<1>14. ASSUME NEW k \in 1..n
       PROVE  /\ p[k] = Passed(right, p[k-1], left[k])
              /\ m[k] = m[k-1] \o SubSeq(right, p[k-1] + 1, p[k]) \o <<left[k]>>
  <2>1. k \in 0..n /\ k - 1 \in 0..n /\ k # 0
    BY <1>1
  <2>2. f[k] = After(f[k-1], k)
    BY <1>6, <2>1
  <2>3. p[k] = f[k].j_index /\ p[k-1] = f[k-1].j_index
        /\ m[k] = f[k].merged /\ m[k-1] = f[k-1].merged
    BY <2>1
  <2>. HIDE DEF m, p
  <2>4. PICK y : y = f[k-1]
    OBVIOUS
  <2>5. After(y, k).j_index = Passed(right, y.j_index, left[k])
    BY DEF After
  <2>6. After(y, k).merged = y.merged
          \o SubSeq(right, y.j_index + 1, Passed(right, y.j_index, left[k])) \o <<left[k]>>
    BY DEF After
  <2>7. p[k] = Passed(right, p[k-1], left[k])
    BY <2>2, <2>3, <2>4, <2>5, Zenon
  <2>8. m[k] = m[k-1] \o SubSeq(right, p[k-1] + 1, p[k]) \o <<left[k]>>
    BY <2>2, <2>3, <2>4, <2>6, <2>7, Zenon
  <2>9. QED  BY <2>7, <2>8
<1>. HIDE DEF m, p
<1>15. QED  BY <1>12, <1>13, <1>14 DEF n

(* What merging puts together: all of left and the beginning of right, up  *)
(* to the first value that is not greater than the last of left.           *)
LEMMA MergeKeeps ==
  ASSUME NEW left \in Seq(Values), NEW right \in Seq(Values),
         Descending(left), Descending(right), left # <<>>
  PROVE  /\ Merge(left, right) \in Seq(Values) /\ Descending(Merge(left, right))
         /\ \E q \in 0..Len(right) :
              /\ Len(Merge(left, right)) = Len(left) + q
              /\ \A x : Count(Merge(left, right), x)
                          = Count(left, x) + Count(SubSeq(right, 1, q), x)
              /\ \A l \in 1..q : right[l] > left[Len(left)]
              /\ q < Len(right) => right[q+1] <= left[Len(left)]
<1>. DEFINE n == Len(left)
            r == Len(right)
<1>1. /\ n \in Nat /\ n >= 1 /\ r \in Nat
      /\ \A k \in 1..n : left[k] \in Values /\ left[k] \in Int
      /\ \A k \in 1..r : right[k] \in Values /\ right[k] \in Int
  BY Elements, EmptySeq
<1>2. PICK m \in [0..n -> Seq(Values)], p \in [0..n -> 0..r] :
        /\ m[0] = <<>> /\ p[0] = 0
        /\ \A k \in 1..n :
             /\ p[k] = Passed(right, p[k-1], left[k])
             /\ m[k] = m[k-1] \o SubSeq(right, p[k-1] + 1, p[k]) \o <<left[k]>>
        /\ Merge(left, right) = m[n]
  BY MergeRecurs
<1>. HIDE DEF n, r
<1>. DEFINE T == {k \in 0..n :
              /\ Descending(m[k])
              /\ Len(m[k]) = k + p[k]
              /\ \A x : Count(m[k], x)
                          = Count(SubSeq(left, 1, k), x) + Count(SubSeq(right, 1, p[k]), x)
              /\ k # 0 => \A l \in 1..Len(m[k]) : m[k][l] >= left[k]
              /\ k # 0 => \A l \in 1..p[k] : right[l] > left[k]
              /\ k # 0 /\ p[k] < r => right[p[k]+1] <= left[k]}
<1>3. 0 \in T
  <2>1. SubSeq(left, 1, 0) = <<>> /\ SubSeq(right, 1, 0) = <<>>
    BY SubSeqEmpty
  <2>2. \A x : Count(<<>>, x) = 0
    BY CountNone
  <2>3. Len(<<>>) = 0
    OBVIOUS
  <2>4. Descending(<<>>)
    BY <2>3 DEF Descending
  <2>5. 0 \in 0..n
    BY <1>1
  <2>6. ASSUME NEW x
        PROVE  Count(m[0], x) = Count(SubSeq(left, 1, 0), x) + Count(SubSeq(right, 1, p[0]), x)
    <3>1. Count(m[0], x) = 0 /\ Count(SubSeq(left, 1, 0), x) = 0
          /\ Count(SubSeq(right, 1, p[0]), x) = 0
      BY <1>2, <2>1, <2>2, Zenon
    <3>2. QED  BY <3>1
  <2>7. Len(m[0]) = 0 + p[0]
    BY <1>2, <2>3
  <2>8. Descending(m[0])
    BY <1>2, <2>4
  <2>9. QED  BY <2>5, <2>6, <2>7, <2>8
<1>4. ASSUME NEW k \in 1..n, k - 1 \in T PROVE k \in T
  <2>. DEFINE a == p[k-1]
              b == p[k]
              x0 == left[k]
              old == m[k-1]
              taken == SubSeq(right, a + 1, b)
  <2>1. /\ k \in 0..n /\ k # 0 /\ k - 1 \in 0..n /\ k \in Nat
        /\ x0 \in Values /\ x0 \in Int /\ k \in 1..Len(left)
    BY <1>1 DEF n
  <2>2. a \in 0..r /\ b \in 0..r /\ old \in Seq(Values) /\ m[k] \in Seq(Values)
    BY <1>2, <2>1
  <2>3. b = Passed(right, a, x0) /\ m[k] = old \o taken \o <<x0>>
    BY <1>2
  <2>4. /\ Descending(old) /\ Len(old) = (k - 1) + a
        /\ \A x : Count(old, x)
                    = Count(SubSeq(left, 1, k - 1), x) + Count(SubSeq(right, 1, a), x)
        /\ k - 1 # 0 => \A l \in 1..Len(old) : old[l] >= left[k-1]
        /\ k - 1 # 0 => \A l \in 1..a : right[l] > left[k-1]
        /\ k - 1 # 0 /\ a < r => right[a+1] <= left[k-1]
    BY <1>4
  <2>5. /\ b \in a..r /\ \A l \in a+1..b : right[l] > x0
        /\ b < r => right[b+1] <= x0
    BY <2>1, <2>2, <2>3, PassedThose DEF r
  <2>. HIDE DEF a, b, x0, old
  <2>6. a \in Nat /\ b \in Nat /\ a <= b /\ b <= r /\ a \in Int /\ b \in Int /\ r \in Nat
    BY <1>1, <2>2, <2>5
  <2>7. k - 1 # 0 => left[k-1] \in Int /\ left[k-1] >= x0
    <3>1. k - 1 # 0 => k - 1 \in 1..Len(left) /\ k - 1 < k
      BY <2>1 DEF n
    <3>2. QED  BY <1>1, <2>1, <3>1 DEF Descending, n, x0
  <2>8. \A l \in 1..b : right[l] > x0
    <3>1. ASSUME NEW l \in 1..a PROVE right[l] > x0
      <4>1. l \in 1..r /\ right[l] \in Int
        BY <1>1, <2>6
      <4>2. CASE k - 1 # 0
        BY <2>1, <2>4, <2>7, <4>1, <4>2
      <4>3. CASE k - 1 = 0
        <5>1. a = 0
          BY <1>2, <4>3 DEF a
        <5>2. QED  BY <5>1
      <4>4. QED  BY <4>2, <4>3
    <3>2. \A l \in 1..b : l \in 1..a \/ l \in a+1..b
      BY <2>6
    <3>3. QED  BY <2>5, <3>1, <3>2
  <2>9. /\ taken \in Seq(Values) /\ Len(taken) = b - a
        /\ \A l \in 1..b-a : a + l \in a+1..b /\ a + l \in 1..r /\ taken[l] = right[a+l]
    <3>1. \A l \in a+1..b : right[l] \in Values
      BY <1>1, <2>6
    <3>2. /\ taken \in Seq(Values)
          /\ Len(taken) = IF a + 1 <= b THEN b - (a + 1) + 1 ELSE 0
          /\ \A l \in 1..b-(a+1)+1 : taken[l] = right[(a+1)+l-1]
      <4>1. a + 1 \in Int
        BY <2>6
      <4>2. QED  BY SMTT(20), <2>6, <3>1, <4>1, SubSeqProperties
    <3>3. \A l \in 1..b-a : l \in 1..b-(a+1)+1 /\ (a+1)+l-1 = a + l
                            /\ a + l \in a+1..b /\ a + l \in 1..r
      BY <2>6
    <3>4. Len(taken) = b - a
      BY <2>6, <3>2
    <3>. HIDE DEF taken
    <3>5. QED  BY <3>2, <3>3, <3>4
  <2>10. SubSeq(right, 1, a) \in Seq(Values)
         /\ SubSeq(right, 1, a) \o taken = SubSeq(right, 1, b)
    <3>1. 1 \in 1..Len(right)+1 /\ a \in 1-1..Len(right) /\ b \in a..Len(right)
          /\ a \in 0..Len(right)
      BY <1>1, <2>6 DEF r
    <3>2. SubSeq(right, 1, a) \in Seq(Values)
      BY <3>1, Parts
    <3>3. QED  BY <3>1, <3>2, ConcatAdjacentSubSeq
  <2>. HIDE DEF taken
  <2>11. Descending(taken)
    <3>1. ASSUME NEW l1 \in 1..Len(taken), NEW l2 \in 1..Len(taken), l1 < l2
          PROVE  taken[l1] >= taken[l2]
      <4>1. l1 \in 1..b-a /\ l2 \in 1..b-a
        BY <2>9
      <4>2. a + l1 \in 1..Len(right) /\ a + l2 \in 1..Len(right) /\ a + l1 < a + l2
        BY <2>6, <2>9, <3>1, <4>1 DEF r
      <4>3. QED  BY <2>9, <4>1, <4>2 DEF Descending
    <3>2. QED  BY <3>1 DEF Descending
  <2>12. PICK u \in Seq(Values) : u = old \o taken
    BY <2>2, <2>9, ConcatProperties
  <2>13. \A l \in 1..Len(taken) : taken[l] \in Int /\ taken[l] > x0
    BY <1>1, <2>5, <2>9
  <2>14. Descending(u)
    <3>1. ASSUME NEW l1 \in 1..Len(old), NEW l2 \in 1..Len(taken)
          PROVE  old[l1] >= taken[l2]
      <4>1. CASE k - 1 = 0
        <5>1. old = <<>>
          BY <1>2, <4>1 DEF old
        <5>2. QED  BY <5>1
      <4>2. CASE k - 1 # 0
        <5>1. old[l1] >= left[k-1] /\ old[l1] \in Int
          BY <2>2, <2>4, <4>2, Elements
        <5>2. l2 \in 1..b-a /\ a < b /\ a + 1 \in 1..r /\ a + l2 \in 1..r /\ a < r
          BY <2>6, <2>9
        <5>3. right[a+1] <= left[k-1]
          BY <2>4, <4>2, <5>2
        <5>4. a + l2 = a + 1 \/ a + 1 < a + l2
          BY <2>6
        <5>5. right[a+1] >= right[a+l2]
          <6>1. right[a+1] \in Int /\ right[a+l2] \in Int
            BY <1>1, <5>2
          <6>2. CASE a + l2 = a + 1
            BY <6>1, <6>2
          <6>3. CASE a + 1 < a + l2
            BY <5>2, <6>3 DEF Descending, r
          <6>4. QED  BY <5>4, <6>2, <6>3
        <5>6. taken[l2] = right[a+l2]
          BY <2>9, <5>2
        <5>7. right[a+1] \in Int /\ right[a+l2] \in Int
          BY <1>1, <5>2
        <5>8. QED  BY SMTT(20), <2>7, <4>2, <5>1, <5>3, <5>5, <5>6, <5>7
      <4>3. QED  BY <4>1, <4>2
    <3>2. QED  BY <2>2, <2>4, <2>9, <2>11, <2>12, <3>1, JoinInOrder
  <2>15. /\ Len(u) = Len(old) + (b - a) /\ Len(old) \in Nat
         /\ \A l \in 1..Len(u) : u[l] \in Int /\ u[l] >= x0
    <3>1. /\ Len(u) = Len(old) + Len(taken)
          /\ \A l \in 1..Len(old)+Len(taken) :
               u[l] = IF l <= Len(old) THEN old[l] ELSE taken[l - Len(old)]
      BY <2>2, <2>9, <2>12, ConcatProperties
    <3>2. Len(old) \in Nat /\ Len(taken) \in Nat /\ \A l \in 1..Len(old) : old[l] \in Int
      BY <2>2, <2>9, Elements
    <3>3. ASSUME NEW l \in 1..Len(old) PROVE old[l] >= x0
      <4>1. CASE k - 1 = 0
        <5>1. old = <<>>
          BY <1>2, <4>1 DEF old
        <5>2. QED  BY <5>1
      <4>2. CASE k - 1 # 0
        BY <2>1, <2>4, <2>7, <3>2, <4>2
      <4>3. QED  BY <4>1, <4>2
    <3>4. ASSUME NEW l \in 1..Len(u) PROVE u[l] \in Int /\ u[l] >= x0
      <4>1. CASE l <= Len(old)
        <5>1. l \in 1..Len(old) /\ u[l] = old[l]
          BY <3>1, <3>2, <4>1
        <5>2. QED  BY <3>2, <3>3, <5>1
      <4>2. CASE ~(l <= Len(old))
        <5>1. l - Len(old) \in 1..Len(taken) /\ u[l] = taken[l - Len(old)]
          BY <3>1, <3>2, <4>2
        <5>2. QED  BY <2>1, <2>13, <5>1
      <4>3. QED  BY <4>1, <4>2
    <3>5. QED  BY <2>9, <3>1, <3>2, <3>4
  <2>16. PICK e \in Seq(Values) : e = <<x0>> /\ Len(e) = 1 /\ e[1] = x0 /\ Descending(e)
    BY <2>1, OneInOrder
  <2>17. m[k] = u \o <<x0>> /\ m[k] = u \o e
    BY <2>3, <2>12, <2>16
  <2>18. Descending(m[k])
    <3>1. \A l1 \in 1..Len(u), l2 \in 1..Len(e) : u[l1] >= e[l2]
      BY <2>15, <2>16
    <3>2. QED  BY <2>14, <2>16, <2>17, <3>1, JoinInOrder
  <2>19. /\ Len(m[k]) = Len(u) + 1
         /\ \A l \in 1..Len(u)+1 : m[k][l] = IF l <= Len(u) THEN u[l] ELSE x0
         /\ \A x : Count(m[k], x) = Count(u, x) + (IF x0 = x THEN 1 ELSE 0)
    BY <2>1, <2>17, CountMore
  <2>20. Len(m[k]) = k + b
    BY <2>1, <2>4, <2>6, <2>15, <2>19
  <2>21. \A l \in 1..Len(m[k]) : m[k][l] >= x0
    <3>1. \A l \in 1..Len(u)+1 : l \in 1..Len(u) \/ ~(l <= Len(u))
      BY <2>15
    <3>2. QED  BY <2>1, <2>15, <2>19, <3>1
  <2>22. ASSUME NEW x
         PROVE  Count(m[k], x) = Count(SubSeq(left, 1, k), x) + Count(SubSeq(right, 1, b), x)
    <3>1. Count(u, x) = Count(old, x) + Count(taken, x)
      BY <2>2, <2>9, <2>12, CountConcat
    <3>2. Count(SubSeq(right, 1, b), x) = Count(SubSeq(right, 1, a), x) + Count(taken, x)
      <4>1. PICK s \in Seq(Values) : s = SubSeq(right, 1, a)
        BY <2>10
      <4>2. Count(s \o taken, x) = Count(s, x) + Count(taken, x)
        BY <2>9, CountConcat
      <4>3. QED  BY <2>10, <4>1, <4>2, Zenon
    <3>3. Count(SubSeq(left, 1, k), x)
            = Count(SubSeq(left, 1, k - 1), x) + (IF x0 = x THEN 1 ELSE 0)
      <4>1. \A y : Count(SubSeq(left, 1, k), y)
                     = Count(SubSeq(left, 1, k - 1), y) + (IF left[k] = y THEN 1 ELSE 0)
        BY <2>1, Prefix
      <4>2. x0 = left[k]
        BY DEF x0
      <4>3. QED  BY <4>1, <4>2, Zenon
    <3>4. Count(taken, x) \in Nat /\ Count(SubSeq(right, 1, a), x) \in Nat
          /\ Count(SubSeq(left, 1, k - 1), x) \in Nat
      <4>1. SubSeq(left, 1, k - 1) \in Seq(Values)
        BY <2>1, Prefix
      <4>2. QED  BY <2>9, <2>10, <4>1, CountType
    <3>5. Count(old, x) = Count(SubSeq(left, 1, k - 1), x) + Count(SubSeq(right, 1, a), x)
          /\ Count(m[k], x) = Count(u, x) + (IF x0 = x THEN 1 ELSE 0)
      BY <2>4, <2>19
    <3>6. QED  BY <3>1, <3>2, <3>3, <3>4, <3>5
  <2>23. QED  BY <2>1, <2>5, <2>8, <2>18, <2>20, <2>21, <2>22 DEF b, x0
<1>. HIDE DEF T
<1>5. \A k \in 0..n : k \in T
  BY <1>1, <1>3, <1>4, InductionUpTo
<1>6. n \in T /\ n # 0 /\ n \in 0..n
  BY <1>1, <1>5
<1>7. SubSeq(left, 1, n) = left
  BY SubSeqFull DEF n
<1>8. m[n] \in Seq(Values) /\ p[n] \in 0..r
  BY <1>2, <1>6
<1>9. /\ Descending(m[n]) /\ Len(m[n]) = n + p[n]
      /\ \A x : Count(m[n], x) = Count(left, x) + Count(SubSeq(right, 1, p[n]), x)
      /\ \A l \in 1..p[n] : right[l] > left[n]
      /\ p[n] < r => right[p[n]+1] <= left[n]
  BY <1>6, <1>7 DEF T
<1>10. QED  BY <1>2, <1>8, <1>9 DEF n, r

(* The array a as one after another its parts left and right.              *)
SplitInto(a, left, right) ==
  /\ left \in Arrays /\ Len(left) \in Nat /\ left # <<>> /\ left \in Seq(Values)
  /\ right \in Arrays /\ Len(right) \in Nat /\ right # <<>> /\ right \in Seq(Values)
  /\ Len(left) + Len(right) = Len(a) /\ Len(a) \in Nat
  /\ \A k \in 1..Len(a) :
       \/ k \in 1..Len(left) /\ a[k] = left[k]
       \/ k - Len(left) \in 1..Len(right) /\ a[k] = right[k - Len(left)]
  /\ \A x : Count(left, x) + Count(right, x) = Count(a, x)

(* The parts mergeSort() splits an array into.                             *)
LEMMA HalvesAreArrays ==
  ASSUME NEW a \in Arrays, Len(a) > 1,
         NEW left, left = SubSeq(a, 1, Pivot(a)),
         NEW right, right = SubSeq(a, Pivot(a) + 1, Len(a))
  PROVE  /\ left \in Arrays /\ Len(left) < Len(a)
         /\ right \in Arrays /\ Len(right) < Len(a)
         /\ SplitInto(a, left, right)
<1>. DEFINE p == Pivot(a)
<1>1. a \in Seq(Values) /\ Len(a) \in Nat /\ p \in 1..Len(a)-1 /\ p \in 0..Len(a)
      /\ Len(a) <= MaxLength /\ p \in Nat
  BY Halves, ArrayIsSeq
<1>. HIDE DEF p
<1>2. /\ left \in Seq(Values) /\ right \in Seq(Values)
      /\ Len(left) = p /\ Len(right) = Len(a) - p
      /\ \A k \in 1..p : left[k] = a[k]
      /\ \A k \in 1..Len(a)-p : right[k] = a[p+k]
      /\ \A x : Count(left, x) + Count(right, x) = Count(a, x)
  <2>1. left = SubSeq(a, 1, p) /\ right = SubSeq(a, p + 1, Len(a))
    BY DEF p
  <2>2. /\ SubSeq(a, 1, p) \in Seq(Values) /\ SubSeq(a, p + 1, Len(a)) \in Seq(Values)
        /\ Len(SubSeq(a, 1, p)) = p /\ Len(SubSeq(a, p + 1, Len(a))) = Len(a) - p
        /\ \A k \in 1..p : SubSeq(a, 1, p)[k] = a[k]
        /\ \A k \in 1..Len(a)-p : SubSeq(a, p + 1, Len(a))[k] = a[p+k]
        /\ \A x : Count(SubSeq(a, 1, p), x) + Count(SubSeq(a, p + 1, Len(a)), x)
                    = Count(a, x)
    BY <1>1, Parts
  <2>3. QED  BY <2>1, <2>2, Zenon
<1>3. /\ Len(left) \in Nat /\ Len(right) \in Nat /\ Len(left) < Len(a) /\ Len(right) < Len(a)
      /\ Len(left) >= 1 /\ Len(right) >= 1 /\ Len(left) + Len(right) = Len(a)
      /\ Len(left) <= MaxLength /\ Len(right) <= MaxLength
  <2>1. \A n, k, m \in Nat : k \in 1..n-1 /\ n <= m =>
          /\ n - k \in Nat /\ k < n /\ n - k < n /\ k >= 1 /\ n - k >= 1
          /\ k + (n - k) = n /\ k <= m /\ n - k <= m
    OBVIOUS
  <2>2. MaxLength \in Nat
    BY ArrayAssumption
  <2>3. Len(left) = p /\ Len(right) = Len(a) - p
    BY <1>2
  <2>4. /\ Len(a) - p \in Nat /\ p < Len(a) /\ Len(a) - p < Len(a) /\ p >= 1
        /\ Len(a) - p >= 1 /\ p + (Len(a) - p) = Len(a)
        /\ p <= MaxLength /\ Len(a) - p <= MaxLength
    BY <1>1, <2>1, <2>2, Zenon
  <2>5. QED  BY <1>1, <2>3, <2>4, Zenon
<1>4. left \in Arrays /\ right \in Arrays /\ left # <<>> /\ right # <<>>
  <2>1. left \in Seq(Values) /\ right \in Seq(Values)
    BY <1>2
  <2>2. left \in Arrays /\ right \in Arrays
    BY <1>3, <2>1, ArrayIsSeq
  <2>3. \A s : Len(s) >= 1 => s # <<>>
    BY EmptySeq
  <2>4. QED  BY <1>3, <2>2, <2>3
<1>5. ASSUME NEW k \in 1..Len(a)
      PROVE  \/ k \in 1..Len(left) /\ a[k] = left[k]
             \/ k - Len(left) \in 1..Len(right) /\ a[k] = right[k - Len(left)]
  <2>1. CASE k <= p
    BY <1>1, <1>2, <2>1, SMTT(20)
  <2>2. CASE ~(k <= p)
    <3>1. k - p \in 1..Len(a)-p /\ p + (k - p) = k
      BY <1>1, <2>2
    <3>2. QED  BY <1>2, <3>1
  <2>3. QED  BY <2>1, <2>2
<1>6. QED  BY <1>1, <1>2, <1>3, <1>4, <1>5 DEF SplitInto

MergeOf(h, w) ==
  IF Len(w) <= 1 THEN w
  ELSE Merge(h[SubSeq(w, 1, Pivot(w))],
             h[SubSeq(w, Pivot(w) + 1, Len(w))])

LEMMA MergeSortIsDefined ==
  /\ mergeSort \in [Arrays -> Seq(Values)]
  /\ \A a \in Arrays : mergeSort[a] = MergeOf(mergeSort, a)
<1>. DEFINE S == Seq(Values)
            Step(h) == [w \in Arrays |-> MergeOf(h, w)]
            G == [h \in [Arrays -> S] |-> Step(h)]
<1>1. <<>> \in S
  OBVIOUS
<1>2. ASSUME NEW h \in [Arrays -> S], NEW a \in Arrays
      PROVE  MergeOf(h, a) \in S
  <2>1. CASE Len(a) <= 1
    BY <2>1, ArrayIsSeq DEF MergeOf
  <2>2. CASE ~(Len(a) <= 1)
    <3>1. Len(a) > 1
      BY <2>2, ArrayIsSeq, LenProperties
    <3>2. PICK b, c : b = SubSeq(a, 1, Pivot(a)) /\ c = SubSeq(a, Pivot(a) + 1, Len(a))
      OBVIOUS
    <3>3. b \in Arrays /\ c \in Arrays
      BY <3>1, <3>2, HalvesAreArrays
    <3>4. PICK s \in S, t \in S : s = h[b] /\ t = h[c]
      BY <3>3
    <3>5. MergeOf(h, a) = Merge(s, t)
      BY <2>2, <3>2, <3>4 DEF MergeOf
    <3>6. PICK m \in [0..Len(s) -> S] : Merge(s, t) = m[Len(s)]
      BY MergeRecurs
    <3>7. Len(s) \in 0..Len(s)
      BY LenProperties
    <3>8. QED  BY <3>5, <3>6, <3>7
  <2>3. QED  BY <2>1, <2>2
<1>3. ASSUME NEW h1, NEW h2, NEW a \in Arrays,
             \A b \in Arrays : Len(b) < Len(a) => h1[b] = h2[b]
      PROVE  MergeOf(h1, a) = MergeOf(h2, a)
  <2>1. CASE Len(a) <= 1
    BY <2>1 DEF MergeOf
  <2>2. CASE ~(Len(a) <= 1)
    <3>1. Len(a) > 1
      BY <2>2, ArrayIsSeq, LenProperties
    <3>2. PICK b, c : b = SubSeq(a, 1, Pivot(a)) /\ c = SubSeq(a, Pivot(a) + 1, Len(a))
      OBVIOUS
    <3>3. h1[b] = h2[b] /\ h1[c] = h2[c]
      BY <1>3, <3>1, <3>2, HalvesAreArrays
    <3>4. QED  BY <2>2, <3>2, <3>3 DEF MergeOf
  <2>3. QED  BY <2>1, <2>2
<1>. HIDE DEF S
<1>4. G \in [[Arrays -> S] -> [Arrays -> S]]
  BY <1>2
<1>5. \A h1, h2 \in [Arrays -> S], a \in Arrays :
        (\A b \in Arrays : Len(b) < Len(a) => h1[b] = h2[b]) => G[h1][a] = G[h2][a]
  BY <1>3
<1>6. \A h \in [Arrays -> S] : G[h] = Step(h)
  OBVIOUS
<1>. HIDE DEF G
<1>7. PICK f \in [Arrays -> S] : f = G[f]
  BY <1>1, <1>4, <1>5, ArrayRecursion
<1>8. f = Step(f)
  BY <1>6, <1>7
<1>9. mergeSort = CHOOSE h : h = Step(h)
  BY DEF mergeSort, MergeOf
<1>10. mergeSort = Step(mergeSort)
  <2>. HIDE DEF Step
  <2>1. QED  BY <1>8, <1>9
<1>11. \A a \in Arrays : mergeSort[a] = MergeOf(mergeSort, a)
  BY <1>10
<1>12. \A a \in Arrays : mergeSort[a] = f[a]
  <2>. DEFINE T == {a \in Arrays : mergeSort[a] = f[a]}
  <2>1. \A a \in Arrays : f[a] = MergeOf(f, a)
    BY <1>8
  <2>2. ASSUME NEW a \in Arrays, \A b \in Arrays : Len(b) < Len(a) => b \in T
        PROVE  a \in T
    <3>1. \A b \in Arrays : Len(b) < Len(a) => mergeSort[b] = f[b]
      BY <2>2
    <3>2. MergeOf(mergeSort, a) = MergeOf(f, a)
      BY <1>3, <3>1
    <3>3. QED  BY <1>11, <2>1, <3>2
  <2>. HIDE DEF T
  <2>3. \A a \in Arrays : a \in T
    BY <2>2, ArrayInduction
  <2>4. QED  BY <2>3 DEF T
<1>13. mergeSort \in [Arrays -> Seq(Values)]
  <2>1. \A a \in Arrays : mergeSort[a] \in Seq(Values)
    BY <1>7, <1>12 DEF S
  <2>2. mergeSort = [a \in Arrays |-> mergeSort[a]]
    BY <1>10
  <2>3. QED  BY <2>1, <2>2
<1>14. QED  BY <1>11, <1>13

LeastOf(h, w) ==
  Len(w) > 1 =>
    LET left == SubSeq(w, 1, Pivot(w))
        right == SubSeq(w, Pivot(w) + 1, Len(w))
    IN Least(left) < Least(right) /\ h[left] /\ h[right]

LEMMA LeastIsDefined ==
  \A a \in Arrays : LeastOnTheLeft[a] = LeastOf(LeastOnTheLeft, a)
<1>. DEFINE S == BOOLEAN
            Step(h) == [w \in Arrays |-> LeastOf(h, w)]
            G == [h \in [Arrays -> S] |-> Step(h)]
<1>1. TRUE \in S
  OBVIOUS
<1>2. ASSUME NEW h, NEW a \in Arrays PROVE LeastOf(h, a) \in S
  BY DEF LeastOf
<1>3. ASSUME NEW h1, NEW h2, NEW a \in Arrays,
             \A b \in Arrays : Len(b) < Len(a) => h1[b] = h2[b]
      PROVE  LeastOf(h1, a) = LeastOf(h2, a)
  <2>1. CASE ~(Len(a) > 1)
    BY <2>1 DEF LeastOf
  <2>2. CASE Len(a) > 1
    <3>1. PICK b, c : b = SubSeq(a, 1, Pivot(a)) /\ c = SubSeq(a, Pivot(a) + 1, Len(a))
      OBVIOUS
    <3>2. h1[b] = h2[b] /\ h1[c] = h2[c]
      BY <1>3, <2>2, <3>1, HalvesAreArrays
    <3>3. QED  BY <2>2, <3>1, <3>2, Zenon DEF LeastOf
  <2>3. QED  BY <2>1, <2>2
<1>. HIDE DEF S
<1>4. G \in [[Arrays -> S] -> [Arrays -> S]]
  BY <1>2
<1>5. \A h1, h2 \in [Arrays -> S], a \in Arrays :
        (\A b \in Arrays : Len(b) < Len(a) => h1[b] = h2[b]) => G[h1][a] = G[h2][a]
  BY <1>3
<1>6. \A h \in [Arrays -> S] : G[h] = Step(h)
  OBVIOUS
<1>. HIDE DEF G
<1>7. PICK f \in [Arrays -> S] : f = G[f]
  BY <1>1, <1>4, <1>5, ArrayRecursion
<1>8. f = Step(f)
  BY <1>6, <1>7
<1>9. LeastOnTheLeft = CHOOSE h : h = Step(h)
  BY DEF LeastOnTheLeft, LeastOf
<1>10. LeastOnTheLeft = Step(LeastOnTheLeft)
  <2>. HIDE DEF Step
  <2>1. QED  BY <1>8, <1>9
<1>11. QED  BY <1>10

(* The least value of an array is the last when its values are in order.   *)
LEMMA LeastIsLast ==
  ASSUME NEW a \in Seq(Values), NEW t \in Seq(Values),
         Descending(t), SameValues(a, t), t # <<>>
  PROVE  Least(a) = t[Len(t)]
<1>. DEFINE z == t[Len(t)]
<1>1. Len(t) \in 1..Len(t) /\ Len(t) \in Nat
  BY EmptySeq
<1>2. z \in Values /\ z \in Int /\ \A x \in Values : x \in Int
  BY <1>1, Elements, ArrayAssumption
<1>3. \A k \in 1..Len(t) : t[k] \in Int /\ t[k] >= z
  <2>1. ASSUME NEW k \in 1..Len(t) PROVE t[k] >= z
    <3>1. k = Len(t) \/ k < Len(t)
      BY <1>1
    <3>2. CASE k = Len(t)
      BY <1>2, <3>2
    <3>3. CASE k < Len(t)
      BY <1>1, <3>3 DEF Descending
    <3>4. QED  BY <3>1, <3>2, <3>3
  <2>2. QED  BY <2>1, Elements
<1>. HIDE DEF z
<1>4. Range(a) = {a[k] : k \in 1..Len(a)} /\ Range(a) \subseteq Values
  BY RangeEquality, RangeOfSeq
<1>5. z \in Range(a)
  <2>1. Count(t, z) # 0
    BY <1>1, CountType DEF z
  <2>2. Count(a, z) # 0
    BY <1>2, <2>1 DEF SameValues
  <2>3. \E k \in 1..Len(a) : a[k] = z
    BY <2>2, CountType
  <2>4. QED  BY <1>4, <2>3
<1>6. \A y \in Range(a) : z <= y
  <2>1. ASSUME NEW k \in 1..Len(a) PROVE z <= a[k]
    <3>1. a[k] \in Values
      BY Elements
    <3>2. Count(a, a[k]) # 0
      BY CountType
    <3>3. Count(t, a[k]) # 0
      BY <3>1, <3>2 DEF SameValues
    <3>4. PICK l \in 1..Len(t) : t[l] = a[k]
      BY <3>3, CountType
    <3>5. QED  BY <1>2, <1>3, <3>4
  <2>2. QED  BY <1>4, <2>1
<1>7. \A x \in Range(a) : (\A y \in Range(a) : x <= y) => x = z
  <2>1. \A x \in Range(a) : x \in Int
    BY <1>2, <1>4
  <2>2. ASSUME NEW x \in Range(a), \A y \in Range(a) : x <= y PROVE x = z
    <3>1. x <= z /\ z <= x /\ x \in Int
      BY <1>5, <1>6, <2>1, <2>2
    <3>2. QED  BY <1>2, <3>1
  <2>3. QED  BY <2>2
<1>8. Least(a) = z
  BY <1>5, <1>6, <1>7 DEF Least
<1>9. QED  BY <1>8 DEF z

(* What mergeSort() returns of an array.                                   *)
MergeRight(a, m) ==
  /\ Descending(m)
  /\ \A x \in Values : Count(m, x) <= Count(a, x)
  /\ Len(m) <= Len(a)
  /\ a # <<>> => m # <<>> /\ \A k \in 1..Len(a) : a[k] <= m[1]
  /\ Len(m) = Len(a) <=> LeastOnTheLeft[a]
  /\ Len(m) = Len(a) => SameValues(a, m)

(* Two parts and some of the second are as many as two others only if all  *)
(* of them are.                                                            *)
LEMMA PartsAreAll ==
  \A k, l, p, m, n \in Nat :
    k <= m /\ l <= n /\ p <= l => (k + p = m + n <=> k = m /\ l = n /\ p = l)
OBVIOUS

LEMMA MergeOfHalves ==
  ASSUME NEW a \in Arrays, NEW b \in Arrays, NEW c \in Arrays, SplitInto(a, b, c),
         LeastOnTheLeft[a]
           = (Least(b) < Least(c) /\ LeastOnTheLeft[b] /\ LeastOnTheLeft[c]),
         NEW s \in Seq(Values), MergeRight(b, s),
         NEW t \in Seq(Values), MergeRight(c, t)
  PROVE  MergeRight(a, Merge(s, t))
<1>. DEFINE M == Merge(s, t)
<1>1. /\ Len(b) \in Nat /\ b # <<>> /\ Len(c) \in Nat /\ c # <<>>
      /\ b \in Seq(Values) /\ c \in Seq(Values) /\ Len(a) \in Nat
      /\ Len(b) + Len(c) = Len(a)
      /\ \A k \in 1..Len(a) :
           \/ k \in 1..Len(b) /\ a[k] = b[k]
           \/ k - Len(b) \in 1..Len(c) /\ a[k] = c[k - Len(b)]
  BY DEF SplitInto
<1>2. \A x : Count(b, x) + Count(c, x) = Count(a, x)
  BY DEF SplitInto
<1>3. /\ Descending(s) /\ Len(s) <= Len(b) /\ s # <<>>
      /\ \A x \in Values : Count(s, x) <= Count(b, x)
      /\ \A k \in 1..Len(b) : b[k] <= s[1]
      /\ Len(s) = Len(b) <=> LeastOnTheLeft[b]
      /\ Len(s) = Len(b) => SameValues(b, s)
  BY <1>1 DEF MergeRight
<1>4. /\ Descending(t) /\ Len(t) <= Len(c) /\ t # <<>>
      /\ \A x \in Values : Count(t, x) <= Count(c, x)
      /\ \A k \in 1..Len(c) : c[k] <= t[1]
      /\ Len(t) = Len(c) <=> LeastOnTheLeft[c]
      /\ Len(t) = Len(c) => SameValues(c, t)
  BY <1>1 DEF MergeRight
<1>5. /\ Len(s) \in Nat /\ Len(t) \in Nat /\ Len(s) >= 1 /\ Len(t) >= 1
      /\ 1 \in 1..Len(s) /\ 1 \in 1..Len(t) /\ Len(s) \in 1..Len(s) /\ Len(t) \in 1..Len(t)
      /\ \A k \in 1..Len(s) : s[k] \in Values /\ s[k] \in Int
      /\ \A k \in 1..Len(t) : t[k] \in Values /\ t[k] \in Int
  <2>1. Len(s) \in Nat \ {0} /\ Len(t) \in Nat \ {0}
    BY <1>3, <1>4, EmptySeq
  <2>2. QED  BY <2>1, Elements
<1>6. M \in Seq(Values) /\ Descending(M)
  BY <1>3, <1>4, MergeKeeps
<1>7. PICK q \in 0..Len(t) :
        /\ Len(M) = Len(s) + q
        /\ \A x : Count(M, x) = Count(s, x) + Count(SubSeq(t, 1, q), x)
        /\ \A l \in 1..q : t[l] > s[Len(s)]
        /\ q < Len(t) => t[q+1] <= s[Len(s)]
  BY <1>3, <1>4, MergeKeeps
<1>. HIDE DEF M
<1>8. PICK u \in Seq(Values) : u = SubSeq(t, 1, q)
  BY Parts
<1>9. /\ Len(u) = q /\ \A k \in 1..q : u[k] = t[k]
      /\ \A x : Count(u, x) \in Nat /\ Count(u, x) <= Count(t, x)
  <2>1. Len(u) = q /\ \A k \in 1..q : u[k] = t[k]
    BY <1>8, Parts
  <2>2. ASSUME NEW x PROVE Count(u, x) \in Nat /\ Count(u, x) <= Count(t, x)
    <3>1. PICK v \in Seq(Values) : v = SubSeq(t, q + 1, Len(t))
      BY Parts
    <3>2. \A y : Count(SubSeq(t, 1, q), y) + Count(SubSeq(t, q + 1, Len(t)), y) = Count(t, y)
      BY Parts
    <3>3. Count(u, x) + Count(v, x) = Count(t, x)
      BY <1>8, <3>1, <3>2, Zenon
    <3>4. Count(u, x) \in Nat /\ Count(v, x) \in Nat
      BY CountType
    <3>5. QED  BY <3>3, <3>4
  <2>3. QED  BY <2>1, <2>2
<1>10. \A x : Count(M, x) = Count(s, x) + Count(u, x)
  BY <1>7, <1>8, Zenon
<1>11. ASSUME NEW x \in Values
       PROVE  /\ Count(M, x) <= Count(a, x)
              /\ Count(s, x) # 0 => Count(M, x) # 0
              /\ Count(u, x) # 0 => Count(M, x) # 0
  <2>1. Count(s, x) \in Nat /\ Count(t, x) \in Nat /\ Count(u, x) \in Nat
        /\ Count(b, x) \in Nat /\ Count(c, x) \in Nat
    BY <1>1, CountType
  <2>2. Count(s, x) <= Count(b, x) /\ Count(t, x) <= Count(c, x) /\ Count(u, x) <= Count(t, x)
        /\ Count(b, x) + Count(c, x) = Count(a, x) /\ Count(M, x) = Count(s, x) + Count(u, x)
    BY <1>2, <1>3, <1>4, <1>9, <1>10
  <2>3. QED  BY <2>1, <2>2
<1>12. q \in Nat /\ q <= Len(t) /\ Len(M) <= Len(a) /\ Len(M) \in Nat /\ Len(M) >= 1
  <2>1. Len(M) = Len(s) + q /\ Len(s) <= Len(b) /\ Len(t) <= Len(c)
        /\ Len(b) \in Nat /\ Len(c) \in Nat /\ Len(b) + Len(c) = Len(a)
    BY <1>1, <1>3, <1>4, <1>7
  <2>2. Len(s) \in Nat /\ Len(t) \in Nat /\ Len(s) >= 1
    BY <1>5
  <2>3. QED  BY <2>1, <2>2
<1>13. M # <<>> /\ M[1] \in Int
  <2>1. 1 \in 1..Len(M)
    BY <1>12
  <2>2. QED  BY <1>6, <2>1, Elements, EmptySeq
<1>14. \A k \in 1..Len(s) : s[k] <= M[1]
  BY <1>3, <1>6, <1>11, GreatestFirst
<1>15. t[1] <= M[1]
  <2>1. CASE q = 0
    <3>1. t[0+1] <= s[Len(s)]
      BY <1>5, <1>7, <2>1
    <3>2. s[Len(s)] <= M[1] /\ s[Len(s)] \in Int /\ t[1] \in Int /\ 0 + 1 = 1
      BY <1>5, <1>14
    <3>3. QED  BY <1>13, <3>1, <3>2
  <2>2. CASE q # 0
    <3>1. 1 \in 1..q
      BY <1>12, <2>2
    <3>2. u # <<>>
      BY <1>9, <3>1, EmptySeq
    <3>3. \A k \in 1..Len(u) : u[k] <= M[1]
      BY <1>6, <1>11, <3>2, GreatestFirst
    <3>4. QED  BY <1>9, <3>1, <3>3
  <2>3. QED  BY <2>1, <2>2
<1>16. ASSUME NEW k \in 1..Len(a) PROVE a[k] <= M[1]
  <2>1. s[1] <= M[1] /\ s[1] \in Int /\ t[1] \in Int
    BY <1>5, <1>14
  <2>2. CASE k \in 1..Len(b) /\ a[k] = b[k]
    <3>1. a[k] <= s[1] /\ a[k] \in Int
      BY <1>1, <1>3, <2>2, Elements
    <3>2. QED  BY <1>13, <2>1, <3>1
  <2>3. CASE k - Len(b) \in 1..Len(c) /\ a[k] = c[k - Len(b)]
    <3>1. a[k] <= t[1] /\ a[k] \in Int
      BY <1>1, <1>4, <2>3, Elements
    <3>2. QED  BY <1>13, <1>15, <2>1, <3>1
  <2>4. QED  BY <1>1, <2>2, <2>3
<1>17. Len(M) = Len(a) <=> Len(s) = Len(b) /\ Len(t) = Len(c) /\ q = Len(t)
  <2>1. Len(M) = Len(s) + q /\ Len(s) <= Len(b) /\ Len(t) <= Len(c)
        /\ Len(b) \in Nat /\ Len(c) \in Nat /\ Len(b) + Len(c) = Len(a)
    BY <1>1, <1>3, <1>4, <1>7
  <2>2. Len(s) \in Nat /\ Len(t) \in Nat /\ q \in Nat /\ q <= Len(t)
    BY <1>5, <1>12
  <2>3. Len(s) + q = Len(b) + Len(c) <=> Len(s) = Len(b) /\ Len(t) = Len(c) /\ q = Len(t)
    <3>1. PICK k \in Nat, l \in Nat : k = Len(s) /\ l = Len(t)
      BY <2>2
    <3>2. PICK m \in Nat, n \in Nat : m = Len(b) /\ n = Len(c)
      BY <2>1
    <3>3. k <= m /\ l <= n /\ q <= l /\ q \in Nat
      BY <2>1, <2>2, <3>1, <3>2, Zenon
    <3>4. k + q = m + n <=> k = m /\ l = n /\ q = l
      BY <3>3, PartsAreAll
    <3>5. QED  BY <3>1, <3>2, <3>4, Zenon
  <2>4. QED  BY <2>1, <2>3, Zenon
<1>18. q = Len(t) <=> s[Len(s)] < t[Len(t)]
  <2>1. s[Len(s)] \in Int /\ t[Len(t)] \in Int
    BY <1>5
  <2>2. CASE q = Len(t)
    <3>1. t[Len(t)] > s[Len(s)]
      BY <1>5, <1>7, <2>2
    <3>2. QED  BY <2>1, <2>2, <3>1
  <2>3. CASE q # Len(t)
    <3>1. q < Len(t) /\ q + 1 \in 1..Len(t)
      BY <1>5, <1>12, <2>3
    <3>2. t[q+1] <= s[Len(s)] /\ t[q+1] \in Int
      BY <1>5, <1>7, <3>1
    <3>3. q + 1 = Len(t) \/ q + 1 < Len(t)
      BY <1>5, <1>12, <3>1
    <3>4. t[q+1] >= t[Len(t)]
      <4>1. CASE q + 1 = Len(t)
        BY <2>1, <4>1
      <4>2. CASE q + 1 < Len(t)
        BY <1>4, <1>5, <3>1, <4>2 DEF Descending
      <4>3. QED  BY <3>3, <4>1, <4>2
    <3>5. QED  BY <2>1, <2>3, <3>2, <3>4
  <2>4. QED  BY <2>2, <2>3
<1>19. Len(s) = Len(b) => Least(b) = s[Len(s)]
  BY <1>1, <1>3, LeastIsLast
<1>20. Len(t) = Len(c) => Least(c) = t[Len(t)]
  BY <1>1, <1>4, LeastIsLast
<1>21. Len(M) = Len(a) <=> LeastOnTheLeft[a]
  <2>1. CASE Len(s) = Len(b) /\ Len(t) = Len(c)
    <3>1. Least(b) < Least(c) <=> s[Len(s)] < t[Len(t)]
      BY <1>19, <1>20, <2>1
    <3>2. QED  BY <1>3, <1>4, <1>17, <1>18, <2>1, <3>1, Zenon
  <2>2. CASE ~(Len(s) = Len(b) /\ Len(t) = Len(c))
    BY <1>3, <1>4, <1>17, <2>2, Zenon
  <2>3. QED  BY <2>1, <2>2
<1>22. Len(M) = Len(a) => SameValues(a, M)
  <2>1. ASSUME Len(M) = Len(a), NEW x \in Values PROVE Count(a, x) = Count(M, x)
    <3>1. SameValues(b, s) /\ SameValues(c, t) /\ q = Len(t)
      BY <1>3, <1>4, <1>17, <2>1
    <3>2. u = t
      BY <1>8, <3>1, SubSeqFull
    <3>3. Count(M, x) = Count(s, x) + Count(t, x)
      BY <1>10, <3>2
    <3>4. Count(b, x) = Count(s, x) /\ Count(c, x) = Count(t, x)
      BY <3>1 DEF SameValues
    <3>5. Count(b, x) + Count(c, x) = Count(a, x)
      BY <1>2
    <3>6. QED  BY <3>3, <3>4, <3>5
  <2>2. QED  BY <2>1 DEF SameValues
<1>23. MergeRight(a, M)
  BY <1>6, <1>11, <1>12, <1>13, <1>16, <1>21, <1>22 DEF MergeRight
<1>24. QED  BY <1>23 DEF M

LEMMA MergeSortIsRight ==
  ASSUME NEW a \in Arrays
  PROVE  mergeSort[a] \in Seq(Values) /\ MergeRight(a, mergeSort[a])
<1>. DEFINE T == {b \in Arrays : MergeRight(b, mergeSort[b])}
<1>1. ASSUME NEW b \in Arrays, \A c \in Arrays : Len(c) < Len(b) => c \in T
      PROVE  b \in T
  <2>1. b \in Seq(Values) /\ Len(b) \in Nat /\ \A k \in 1..Len(b) : b[k] \in Int
    BY ArrayIsSeq, Elements
  <2>2. mergeSort[b] = MergeOf(mergeSort, b)
    BY MergeSortIsDefined
  <2>3. CASE Len(b) <= 1
    <3>1. mergeSort[b] = b
      BY <2>2, <2>3 DEF MergeOf
    <3>2. Descending(b)
      <4>1. \A k, l \in 1..Len(b) : ~(k < l)
        BY <2>1, <2>3
      <4>2. QED  BY <4>1 DEF Descending
    <3>3. \A x \in Values : Count(b, x) <= Count(b, x)
      BY <2>1, CountType
    <3>4. \A k \in 1..Len(b) : b[k] <= b[1]
      <4>1. \A k \in 1..Len(b) : k = 1
        BY <2>1, <2>3
      <4>2. QED  BY <2>1, <4>1
    <3>5. LeastOnTheLeft[b]
      <4>1. ~(Len(b) > 1)
        BY <2>1, <2>3
      <4>2. LeastOf(LeastOnTheLeft, b)
        BY <4>1 DEF LeastOf
      <4>3. QED  BY <4>2, LeastIsDefined
    <3>6. Len(b) <= Len(b) /\ SameValues(b, b)
      BY <2>1 DEF SameValues
    <3>7. MergeRight(b, b)
      BY <3>2, <3>3, <3>4, <3>5, <3>6 DEF MergeRight
    <3>8. QED  BY <3>1, <3>7
  <2>4. CASE Len(b) > 1
    <3>1. PICK c, d : c = SubSeq(b, 1, Pivot(b)) /\ d = SubSeq(b, Pivot(b) + 1, Len(b))
      OBVIOUS
    <3>2. c \in Arrays /\ Len(c) < Len(b) /\ d \in Arrays /\ Len(d) < Len(b)
      BY <2>4, <3>1, HalvesAreArrays
    <3>3. PICK s \in Seq(Values), t \in Seq(Values) : s = mergeSort[c] /\ t = mergeSort[d]
      BY <3>2, MergeSortIsDefined
    <3>4. MergeRight(c, s) /\ MergeRight(d, t)
      BY <1>1, <3>2, <3>3
    <3>5. MergeRight(b, Merge(s, t))
      <4>1. SplitInto(b, c, d)
        BY <2>4, <3>1, HalvesAreArrays
      <4>2. LeastOnTheLeft[b] = LeastOf(LeastOnTheLeft, b)
        BY LeastIsDefined
      <4>3. LeastOf(LeastOnTheLeft, b)
              = (Least(c) < Least(d) /\ LeastOnTheLeft[c] /\ LeastOnTheLeft[d])
        BY <2>4, <3>1, Zenon DEF LeastOf
      <4>4. LeastOnTheLeft[b]
              = (Least(c) < Least(d) /\ LeastOnTheLeft[c] /\ LeastOnTheLeft[d])
        BY <4>2, <4>3, Zenon
      <4>5. QED  BY <3>2, <3>4, <4>1, <4>4, MergeOfHalves
    <3>6. mergeSort[b] = Merge(s, t)
      <4>1. ~(Len(b) <= 1)
        BY <2>1, <2>4
      <4>2. QED  BY <2>2, <3>1, <3>3, <4>1 DEF MergeOf
    <3>7. QED  BY <3>5, <3>6
  <2>5. QED  BY <2>1, <2>3, <2>4
<1>. HIDE DEF T
<1>2. \A b \in Arrays : b \in T
  BY <1>1, ArrayInduction
<1>3. QED  BY <1>2, MergeSortIsDefined DEF T

-----------------------------------------------------------------------------
LEMMA FunctionReturns ==
  ASSUME SortInv, ~sorted, UNCHANGED <<sorter, input>>,
         \/ sorter = "quick" /\ Return(quickSort[input])
         \/ sorter = "merge" /\ Return(mergeSort[input])
  PROVE  SortInv'
<1>1. SortTypes /\ input \in Arrays /\ input \in Seq(Values)
  BY DEF SortInv, SortTypes
<1>2. sorted' /\ i' = i /\ j' = j /\ sorted' \in BOOLEAN /\ sorter' \notin {"select", "bubble"}
  BY DEF Return
<1>3. result' \in Seq(Values) /\ SortsRight'
  <2>1. CASE sorter = "quick" /\ Return(quickSort[input])
    <3>1. result' = quickSort[input]
      BY <2>1 DEF Return
    <3>2. result' \in Seq(Values) /\ Descending(result') /\ SameValues(input, result')
      BY <1>1, <3>1, QuickSorts
    <3>3. sorter # "merge"
      BY <2>1
    <3>4. QED  BY <1>1, <3>2, <3>3, InOrderIsRight
  <2>2. CASE sorter = "merge" /\ Return(mergeSort[input])
    <3>1. result' = mergeSort[input] /\ sorter' = "merge" /\ input' = input
      BY <2>2 DEF Return
    <3>2. result' \in Seq(Values) /\ MergeRight(input, result')
      BY <1>1, <3>1, MergeSortIsRight
    <3>3. QED  BY <3>1, <3>2 DEF MergeRight, SortsRight, Descending
  <2>3. QED  BY <2>1, <2>2
<1>4. SortTypes'
  BY <1>1, <1>2, <1>3 DEF SortTypes
<1>5. Exchanged' /\ Selected' /\ Bubbled'
  BY <1>2 DEF Exchanged, Selected, Bubbled
<1>6. QED  BY <1>3, <1>4, <1>5 DEF SortInv

LEMMA SortNextInv == SortInv /\ [SortNext]_sortVars => SortInv'
<1>. SUFFICES ASSUME SortInv, [SortNext]_sortVars PROVE SortInv'
  OBVIOUS
<1>1. CASE SortNext
  <2>1. ~sorted /\ UNCHANGED <<sorter, input>>
    BY <1>1 DEF SortNext
  <2>2. CASE SelectSort
    <3>1. sorter = "select"
      BY <2>2 DEF SelectSort
    <3>2. CASE SelectCompare
      BY <2>1, <3>1, <3>2, SelectCompareKeeps
    <3>3. CASE SelectNextRow
      BY <2>1, <3>1, <3>3, SelectNextRowKeeps
    <3>4. CASE (Len(input) <= 1 \/ i > Len(result)) /\ Return(result)
      BY <2>1, <3>1, <3>4, LoopReturns
    <3>5. QED  BY <2>2, <3>2, <3>3, <3>4 DEF SelectSort
  <2>3. CASE BubbleSort
    <3>1. sorter = "bubble"
      BY <2>3 DEF BubbleSort
    <3>2. CASE BubbleCompare
      BY <2>1, <3>1, <3>2, BubbleCompareKeeps
    <3>3. CASE BubbleNextRow
      BY <2>1, <3>1, <3>3, BubbleNextRowKeeps
    <3>4. CASE (Len(input) <= 1 \/ i > Len(result)) /\ Return(result)
      BY <2>1, <3>1, <3>4, LoopReturns
    <3>5. QED  BY <2>3, <3>2, <3>3, <3>4 DEF BubbleSort
  <2>4. CASE \/ sorter = "quick" /\ Return(quickSort[input])
             \/ sorter = "merge" /\ Return(mergeSort[input])
    BY <2>1, <2>4, FunctionReturns
  <2>5. QED  BY <1>1, <2>2, <2>3, <2>4 DEF SortNext
<1>2. CASE UNCHANGED sortVars
  BY <1>2 DEF sortVars, SortInv, SortTypes, Exchanged, SameValues, Selected, Bubbled,
              SortsRight, Descending
<1>3. QED  BY <1>1, <1>2

(* What the four functions of sort.hpp (25-157) return, for every array,   *)
(* however long: the two loops, quickSort() and what mergeSort() loses.    *)
THEOREM SortingIsRight == SortSpec => []SortsRight
<1>1. SortInv => SortsRight
  BY DEF SortInv
<1>2. QED  BY <1>1, SortInitInv, SortNextInv, PTL DEF SortSpec

-----------------------------------------------------------------------------
(***************************************************************************)
(* What simpleSearch() and binarySearch() return, for arrays of any length *)
(* and any values.                                                         *)
(***************************************************************************)

(* Sums of two indices, and what is less than Word, do not wrap; 0 - 1     *)
(* does.                                                                   *)
LEMMA NoWrap == \A n \in 0..Word - 1 : n % Word = n
  BY SearchAssumption, ArrayAssumption

LEMMA WrapBelowZero == (0 - 1) % Word = Word - 1
  BY SearchAssumption, ArrayAssumption

LEMMA Half ==
  \A n \in Nat : n \div 2 \in Nat /\ 2 * (n \div 2) <= n /\ n <= 2 * (n \div 2) + 1
  OBVIOUS

(* The arguments as the loops use them: a length, and an Int at each index.*)
LEMMA ArrayFacts ==
  ASSUME array \in Arrays
  PROVE  /\ Len(array) \in 0..MaxLength
         /\ \A k \in 0..Len(array) - 1 : At(k) \in Int
         /\ array = <<>> <=> Len(array) = 0
         /\ Descending(array) =>
              \A k, l \in 0..Len(array) - 1 : k <= l => At(k) >= At(l)
  <1>1. PICK n \in 0..MaxLength : array \in [1..n -> Values]
    BY DEF Arrays
  <1>2. array \in Seq(Values)
    <2>1. n \in Nat
      BY ArrayAssumption
    <2>. QED  BY <2>1, <1>1
  <1>3. Len(array) = n
    BY <1>1, <1>2, LenProperties, ArrayAssumption
  <1>4. array = <<>> <=> Len(array) = 0
    BY <1>2, EmptySeq
  <1>5. \A k \in 0..Len(array) - 1 : At(k) \in Int
    <2>1. \A k \in 1..n : array[k] \in Int
      BY <1>1, ArrayAssumption
    <2>2. \A k \in 0..n - 1 : k + 1 \in 1..n
      BY ArrayAssumption
    <2>. QED  BY <1>3, <2>1, <2>2 DEF At
  <1>6. ASSUME Descending(array), NEW k \in 0..Len(array) - 1,
               NEW l \in 0..Len(array) - 1, k <= l
        PROVE  At(k) >= At(l)
    <2>1. CASE k = l
      BY <2>1, <1>5
    <2>2. CASE k < l
      BY <2>2, <1>1, <1>3, <1>6, ArrayAssumption DEF Descending, At
    <2>. QED  BY <2>1, <2>2, <1>3, <1>6, ArrayAssumption
  <1>. QED  BY <1>1, <1>3, <1>4, <1>5, <1>6

-----------------------------------------------------------------------------
SearchTypeOK ==
  /\ searcher \in {"simple", "binary"}
  /\ array \in Arrays /\ target \in Values
  /\ low \in 0..Len(array) /\ high \in 0..Word - 1 /\ index \in Nat
  /\ answer \in {"none", "index", "null", "undefined"}

(* simpleSearch() has not met the target below low.                        *)
PassedBy == searcher = "simple" => \A k \in 0..low - 1 : At(k) # target

(* On a descending array the target is neither before low, where all is    *)
(* greater, nor after high, where all is less.  If high has wrapped, all   *)
(* is less.                                                                *)
Enclosed ==
  searcher = "binary" /\ Descending(array) /\ array # <<>> =>
    /\ \A k \in 0..low - 1 : At(k) > target
    /\ \/ high < Len(array) /\ \A k \in Indices : k > high => At(k) < target
       \/ high = Word - 1 /\ low = 0 /\ \A k \in Indices : At(k) < target

(* Before the first answer, and when an answer was given.                  *)
SearchInv == SearchTypeOK /\ PassedBy /\ Enclosed /\ SearchRight

LEMMA InitEncloses == SearchInit => SearchInv
  <1>. SUFFICES ASSUME SearchInit PROVE SearchInv
    OBVIOUS
  <1>. USE SearchAssumption, ArrayAssumption
  <1>1. /\ array \in Arrays /\ Len(array) \in 0..MaxLength
        /\ array = <<>> <=> Len(array) = 0
    BY ArrayFacts DEF SearchInit
  <1>2. /\ Len(array) = 0 => high = Word - 1
        /\ Len(array) # 0 => high = Len(array) - 1
    BY <1>1, NoWrap, WrapBelowZero DEF SearchInit
  <1>3. SearchTypeOK
    BY <1>1, <1>2 DEF SearchInit, SearchTypeOK
  <1>4. PassedBy /\ Enclosed /\ SearchRight
    BY <1>1, <1>2 DEF SearchInit, PassedBy, Enclosed, SearchRight, Indices
  <1>. QED  BY <1>3, <1>4 DEF SearchInv

(* A turn of simpleSearch().                                               *)
LEMMA SimpleStep ==
  ASSUME SearchInv, answer = "none", SimpleSearch,
         UNCHANGED <<searcher, array, target>>
  PROVE  SearchInv'
  <1>. USE SearchAssumption, ArrayAssumption DEF SearchInv
  <1>1. /\ Len(array) \in 0..MaxLength /\ low \in 0..Len(array)
        /\ searcher = "simple"
        /\ \A k \in 0..low - 1 : At(k) # target
        /\ \A k : At(k)' = At(k)
    BY ArrayFacts DEF SearchTypeOK, SimpleSearch, PassedBy, At
  <1>2. CASE low = Len(array)
    <2>1. answer' = "null" /\ UNCHANGED <<low, high, index>>
      BY <1>2 DEF SimpleSearch, Answer
    <2>. QED
      BY <1>1, <1>2, <2>1 DEF SearchTypeOK, PassedBy, Enclosed, SearchRight, Indices
  <1>3. CASE low # Len(array) /\ At(low) = target
    <2>1. answer' = "index" /\ index' = low /\ UNCHANGED <<low, high>>
      BY <1>3 DEF SimpleSearch, AnswerIndex
    <2>. QED
      BY <1>1, <1>3, <2>1 DEF SearchTypeOK, PassedBy, Enclosed, SearchRight, Indices
  <1>4. CASE low # Len(array) /\ At(low) # target
    <2>1. answer' = answer /\ low' = low + 1 /\ UNCHANGED <<high, index>>
      BY <1>4 DEF SimpleSearch, NextRange
    <2>. QED
      BY <1>1, <1>4, <2>1 DEF SearchTypeOK, PassedBy, Enclosed, SearchRight, Indices
  <1>. QED  BY <1>2, <1>3, <1>4

(* A turn of binarySearch().  Only the last two cases go on.               *)
LEMMA BinaryStep ==
  ASSUME SearchInv, answer = "none", BinarySearch,
         UNCHANGED <<searcher, array, target>>
  PROVE  SearchInv'
  <1>. DEFINE mid == ((high + low) % Word) \div 2
  <1>. USE SearchAssumption, ArrayAssumption DEF SearchInv
  <1>1. /\ Len(array) \in 0..MaxLength /\ low \in 0..Len(array)
        /\ high \in 0..Word - 1 /\ index \in Nat
        /\ searcher = "binary" /\ array \in Arrays /\ target \in Int
        /\ array = <<>> <=> Len(array) = 0
        /\ \A k \in Indices : At(k) \in Int
        /\ \A k : At(k)' = At(k)
    BY ArrayFacts DEF SearchTypeOK, BinarySearch, At, Indices
  <1>2. Descending(array) => \A k, l \in Indices : k <= l => At(k) >= At(l)
    BY <1>1, ArrayFacts DEF Indices
  <1>3. mid \in Nat
    BY <1>1, Half
  <1>4. high < Len(array) => low + high \in 0..Word - 1 /\ mid = (high + low) \div 2
    BY <1>1, NoWrap
  <1>5. /\ high < Len(array) /\ low <= high => mid \in low..high
        /\ high = Word - 1 /\ low = 0 => mid >= Len(array)
    <2>1. CASE high < Len(array) /\ low <= high
      BY <2>1, <1>1, <1>4, Half
    <2>2. CASE high = Word - 1 /\ low = 0
      BY <2>2, <1>1, NoWrap, Half
    <2>. QED  BY <2>1, <2>2, <1>1
  <1>6. CASE Exhausted
    <2>1. answer' = "null" /\ UNCHANGED <<low, high, index>>
      BY <1>6 DEF BinarySearch, Answer
    <2>. QED
      BY <1>1, <1>6, <2>1
      DEF SearchTypeOK, PassedBy, Enclosed, SearchRight, Indices, Exhausted
  <1>7. CASE ~Exhausted /\ mid >= Len(array)
    <2>1. answer' = "undefined" /\ UNCHANGED <<low, high, index>>
      BY <1>7 DEF BinarySearch, Answer
    <2>. QED
      BY <1>1, <1>5, <1>7, <2>1
      DEF SearchTypeOK, PassedBy, Enclosed, SearchRight, Indices, Exhausted
  <1>8. CASE ~Exhausted /\ mid < Len(array) /\ At(mid) = target
    <2>1. answer' = "index" /\ index' = mid /\ UNCHANGED <<low, high>>
      BY <1>1, <1>3, <1>8 DEF BinarySearch, AnswerIndex
    <2>. QED
      BY <1>1, <1>3, <1>8, <2>1
      DEF SearchTypeOK, PassedBy, Enclosed, SearchRight, Indices, Exhausted
  <1>9. CASE ~Exhausted /\ mid < Len(array) /\ At(mid) # target /\ target > At(mid)
    <2>1. /\ answer' = answer /\ low' = low /\ high' = (mid - 1) % Word
          /\ index' = index
      BY <1>3, <1>9 DEF BinarySearch, NextRange
    <2>2. IF mid = 0 THEN high' = Word - 1 ELSE high' = mid - 1
      BY <1>1, <1>3, <1>9, <2>1, NoWrap, WrapBelowZero
    <2>3. SearchTypeOK'
      BY <1>1, <1>3, <1>9, <2>1, <2>2 DEF SearchTypeOK
    <2>4. Enclosed'
      <3>. SUFFICES ASSUME Descending(array), array # <<>> PROVE Enclosed'
        BY <1>1 DEF Enclosed
      <3>1. \A k \in Indices : k >= mid => At(k) < target
        BY <1>1, <1>2, <1>3, <1>9 DEF Indices
      <3>2. high < Len(array) /\ low <= mid
        BY <1>1, <1>5, <1>9 DEF Enclosed, Exhausted
      <3>3. \A k \in 0..low' - 1 : At(k)' > target'
        BY <1>1, <2>1 DEF Enclosed
      <3>4. Indices' = Indices /\ Len(array') = Len(array)
        BY DEF Indices
      <3>5. CASE mid = 0
        <4>1. high' = Word - 1 /\ low' = 0
          BY <1>1, <2>1, <2>2, <3>2, <3>5
        <4>2. \A k \in Indices : At(k) < target
          BY <1>1, <3>1, <3>5 DEF Indices
        <4>. QED  BY <1>1, <3>3, <3>4, <4>1, <4>2 DEF Enclosed
      <3>6. CASE mid # 0
        <4>1. high' = mid - 1 /\ high' < Len(array)
          BY <1>1, <1>3, <1>9, <2>2, <3>6
        <4>2. \A k \in Indices : k > high' => At(k) < target
          BY <1>1, <1>3, <3>1, <4>1 DEF Indices
        <4>. QED  BY <1>1, <3>3, <3>4, <4>1, <4>2 DEF Enclosed
      <3>. QED  BY <3>5, <3>6
    <2>. QED  BY <1>1, <2>1, <2>3, <2>4 DEF PassedBy, SearchRight, Indices
  <1>10. CASE ~Exhausted /\ mid < Len(array) /\ At(mid) # target /\ ~(target > At(mid))
    <2>1. answer' = answer /\ low' = mid + 1 /\ high' = high /\ index' = index
      BY <1>3, <1>10 DEF BinarySearch, NextRange
    <2>2. SearchTypeOK'
      BY <1>1, <1>3, <1>10, <2>1 DEF SearchTypeOK
    <2>3. Enclosed'
      <3>. SUFFICES ASSUME Descending(array), array # <<>> PROVE Enclosed'
        BY <1>1 DEF Enclosed
      <3>1. \A k \in Indices : k <= mid => At(k) > target
        BY <1>1, <1>2, <1>3, <1>10 DEF Indices
      <3>2. high < Len(array) /\ \A k \in Indices : k > high => At(k) < target
        BY <1>1, <1>5, <1>10 DEF Enclosed, Exhausted
      <3>. QED
        BY <1>1, <1>3, <1>10, <2>1, <3>1, <3>2 DEF Enclosed, Indices
    <2>. QED  BY <1>1, <2>1, <2>2, <2>3 DEF PassedBy, SearchRight, Indices
  <1>. QED
    BY <1>1, <1>3, <1>6, <1>7, <1>8, <1>9, <1>10

-----------------------------------------------------------------------------
(* What a search answers is right, for all arrays, lengths and word sizes: *)
(* SearchRight, which says when binarySearch() finds, misses and leaves    *)
(* the array.                                                              *)
THEOREM SearchesRight == SearchSpec => []SearchRight
  <1>1. SearchInv /\ [SearchNext]_searchVars => SearchInv'
    <2>. SUFFICES ASSUME SearchInv, [SearchNext]_searchVars PROVE SearchInv'
      OBVIOUS
    <2>1. CASE SearchNext
      BY <2>1, SimpleStep, BinaryStep DEF SearchNext
    <2>2. CASE UNCHANGED searchVars
      BY <2>2 DEF searchVars, SearchInv, SearchTypeOK, PassedBy, Enclosed,
                  SearchRight, Indices, At
    <2>. QED  BY <2>1, <2>2
  <1>2. SearchInv => SearchRight
    BY DEF SearchInv
  <1>. QED  BY InitEncloses, <1>1, <1>2, PTL DEF SearchSpec

-----------------------------------------------------------------------------
(***************************************************************************)
(* Every descriptor that is open has one owner or leaked, for any objects  *)
(* and descriptors.  DescriptorsOwned is inductive with the types.  Each   *)
(* step proves what becomes of the owners of a number first.               *)
(***************************************************************************)

SocketTypeOK ==
  /\ m_fd \in [Objects -> Fd \cup {NoFd}]
  /\ m_is_connected \in [Objects -> BOOLEAN]
  /\ m_is_listened \in [Objects -> BOOLEAN]
  /\ kernel \in [Fd -> KernelStates]
  /\ live \subseteq Objects
  /\ spent \subseteq {s \in live : m_fd[s] # NoFd}
  /\ leaked \subseteq Fd /\ robbed \subseteq Fd

(* What Holds() means with the types: s has fd and the flags, and all      *)
(* other objects have what they had.                                       *)
Gave(s, fd, c, l) ==
  /\ m_fd' \in [Objects -> Fd \cup {NoFd}]
  /\ m_is_connected' \in [Objects -> BOOLEAN]
  /\ m_is_listened' \in [Objects -> BOOLEAN]
  /\ m_fd'[s] = fd
  /\ m_is_connected'[s] = c /\ m_is_listened'[s] = l
  /\ \A t \in Objects \ {s} :
       /\ m_fd'[t] = m_fd[t]
       /\ m_is_connected'[t] = m_is_connected[t]
       /\ m_is_listened'[t] = m_is_listened[t]

(* The property in the parts that the steps are proved for.                *)
Agree(fd) ==
  /\ kernel[fd] # "closed" <=> fd \in leaked \/ OwnersOf(fd) # {}
  /\ fd \in leaked => OwnersOf(fd) = {}
  /\ \A s, t \in OwnersOf(fd) : s = t
  /\ \A s \in OwnersOf(fd) : m_is_listened[s] <=> kernel[fd] = "listening"

Fits == \A s \in live : FlagsFit(s)

LEMMA InParts == DescriptorsOwned <=> Fits /\ \A fd \in Fd \ robbed : Agree(fd)
  BY DEF DescriptorsOwned, Agree, Fits

LEMMA InPartsNext ==
  DescriptorsOwned' <=> Fits' /\ \A fd \in Fd \ robbed' : Agree(fd)'
  BY DEF DescriptorsOwned, Agree, Fits

LEMMA WhoOwns ==
  ASSUME NEW fd \in Fd
  PROVE  /\ OwnersOf(fd) = {s \in live \ spent : m_fd[s] = fd}
         /\ OwnersOf(fd)' = {s \in live' \ spent' : m_fd'[s] = fd}
  BY SocketAssumption DEF OwnersOf, Owners

(* A number whose owners, kernel state and flags stay.                     *)
LEMMA Untouched ==
  ASSUME NEW fd \in Fd, Agree(fd), OwnersOf(fd)' = OwnersOf(fd),
         kernel'[fd] = kernel[fd], fd \in leaked' <=> fd \in leaked,
         \A s \in OwnersOf(fd) : m_is_listened'[s] = m_is_listened[s]
  PROVE  Agree(fd)'
  BY DEF Agree

(* An object that had no descriptor owns the one just opened.              *)
LEMMA NewOwner ==
  ASSUME SocketTypeOK, Fits, NEW n \in Fd, NEW state \in KernelStates \ {"closed"},
         Opened(n, state), NEW s \in Objects, NEW c,
         Gave(s, n, c, state = "listening"),
         s \notin live \/ m_fd[s] = NoFd, live' = live \cup {s}, spent' = spent,
         UNCHANGED <<leaked, robbed>>,
         \A fd \in Fd \ robbed : Agree(fd)
  PROVE  \A fd \in Fd \ robbed' : Agree(fd)'
  <1>1. /\ kernel[n] = "closed" /\ kernel'[n] = state
        /\ \A fd \in Fd \ {n} : kernel'[fd] = kernel[fd]
    BY DEF Opened, SocketTypeOK
  <1>2. /\ s \notin spent /\ m_fd'[s] = n
        /\ m_is_listened'[s] = (state = "listening")
        /\ \A t \in Objects \ {s} :
             m_fd'[t] = m_fd[t] /\ m_is_listened'[t] = m_is_listened[t]
    BY DEF SocketTypeOK, Gave
  <1>3. ASSUME NEW fd \in Fd \ robbed PROVE Agree(fd)'
    <2>1. Agree(fd) /\ OwnersOf(fd) = {t \in live \ spent : m_fd[t] = fd}
          /\ OwnersOf(fd)' = {t \in live' \ spent' : m_fd'[t] = fd}
      BY WhoOwns
    <2>2. s \notin OwnersOf(fd) /\ OwnersOf(fd) \subseteq Objects
      BY <2>1, SocketAssumption DEF SocketTypeOK
    <2>3. CASE fd = n
      <3>1. OwnersOf(fd) = {} /\ fd \notin leaked
        BY <1>1, <2>1, <2>3 DEF Agree
      <3>2. OwnersOf(fd)' = {s}
        BY <1>2, <2>1, <2>3, <3>1 DEF SocketTypeOK
      <3>3. kernel'[fd] # "closed" /\ fd \notin leaked'
            /\ (m_is_listened'[s] <=> kernel'[fd] = "listening")
        BY <1>1, <1>2, <2>3, <3>1
      <3>. QED  BY <3>2, <3>3 DEF Agree
    <2>4. CASE fd # n
      <3>1. OwnersOf(fd)' = OwnersOf(fd)
        BY <1>2, <2>1, <2>2, <2>4 DEF SocketTypeOK
      <3>2. \A t \in OwnersOf(fd) : m_is_listened'[t] = m_is_listened[t]
        BY <1>2, <2>2
      <3>. QED  BY <1>1, <2>1, <2>4, <3>1, <3>2, Untouched
    <2>. QED  BY <2>3, <2>4
  <1>. QED  BY <1>3

(* What an object owned that is destroyed, or takes what is not owned.     *)
LEMMA OwnerLost ==
  ASSUME NEW s, NEW fd \in Fd, Agree(fd), OwnersOf(fd)' = OwnersOf(fd) \ {s},
         leaked' = IF s \in Owners THEN leaked \cup {m_fd[s]} ELSE leaked,
         kernel'[fd] = kernel[fd],
         \A t \in OwnersOf(fd) \ {s} : m_is_listened'[t] = m_is_listened[t]
  PROVE  Agree(fd)'
  <1>1. CASE s \in OwnersOf(fd)
    <2>1. s \in Owners /\ m_fd[s] = fd
      BY <1>1 DEF OwnersOf
    <2>2. OwnersOf(fd)' = {} /\ fd \in leaked' /\ kernel'[fd] # "closed"
      BY <1>1, <2>1 DEF Agree
    <2>. QED  BY <2>2 DEF Agree
  <1>2. CASE s \notin OwnersOf(fd)
    <2>1. fd \in leaked' <=> fd \in leaked
      BY <1>2 DEF OwnersOf
    <2>2. OwnersOf(fd)' = OwnersOf(fd)
      BY <1>2
    <2>. QED  BY <1>2, <2>1, <2>2, Untouched
  <1>. QED  BY <1>1, <1>2

-----------------------------------------------------------------------------
(* DescriptorsOwned, for any number of objects and descriptors: an open    *)
(* descriptor has one owner or leaked, whatever is moved, overwritten or   *)
(* destroyed, and a close() of what was moved from spoils only the number  *)
(* it closes.                                                              *)
THEOREM DescriptorsHaveOwners == SocketSpec => []DescriptorsOwned
  <1>. DEFINE Inv == SocketTypeOK /\ DescriptorsOwned
  <1>1. SocketInit => Inv
    <2>. SUFFICES ASSUME SocketInit PROVE Inv
      OBVIOUS
    <2>1. SocketTypeOK
      BY DEF SocketInit, SocketTypeOK, KernelStates
    <2>2. Fits /\ \A fd \in Fd : kernel[fd] = "closed" /\ fd \notin leaked
      BY DEF SocketInit, Fits
    <2>3. \A fd \in Fd : OwnersOf(fd) = {}
      BY DEF SocketInit, OwnersOf, Owners
    <2>4. \A fd \in Fd : Agree(fd)
      BY <2>2, <2>3 DEF Agree
    <2>. QED  BY <2>1, <2>2, <2>4, InParts
  <1>2. Inv /\ [SocketNext]_socketVars => Inv'
    <2>. SUFFICES ASSUME SocketTypeOK, DescriptorsOwned, [SocketNext]_socketVars
                  PROVE  Inv'
      OBVIOUS
    <2>. USE SocketAssumption
    <2>0. Fits /\ \A fd \in Fd \ robbed : Agree(fd)
      BY InParts
    <2>00. \A fd \in Fd : OwnersOf(fd) \subseteq live \ spent /\ live \subseteq Objects
      BY DEF OwnersOf, Owners, SocketTypeOK
    <2>1. ASSUME NEW s \in Objects, Construct(s) PROVE Inv'
      <3>0. Gave(s, NoFd, FALSE, FALSE)
        BY <2>1 DEF Construct, Holds, SocketTypeOK, Gave
      <3>. USE <3>0 DEF Gave
      <3>1. SocketTypeOK' /\ Fits'
        BY <2>1, <2>0 DEF Construct, SocketTypeOK, Fits, FlagsFit
      <3>2. ASSUME NEW fd \in Fd \ robbed PROVE Agree(fd)'
        <4>1. OwnersOf(fd)' = OwnersOf(fd)
          <5>1. live' = live \cup {s} /\ s \notin live /\ spent' = spent /\ fd # NoFd
            BY <2>1 DEF Construct
          <5>2. /\ OwnersOf(fd) = {t \in live \ spent : m_fd[t] = fd}
                /\ OwnersOf(fd)' = {t \in live' \ spent' : m_fd'[t] = fd}
            BY WhoOwns
          <5>3. \A t \in live : m_fd'[t] = m_fd[t]
            BY <2>00, <5>1
          <5>. QED  BY <5>1, <5>2, <5>3
        <4>2. \A t \in OwnersOf(fd) : m_is_listened'[t] = m_is_listened[t]
          BY <2>1, <2>00 DEF Construct
        <4>. QED  BY <2>1, <2>0, <4>1, <4>2, Untouched DEF Construct
      <3>. QED  BY <2>1, <3>1, <3>2, InPartsNext DEF Construct
    <2>2. ASSUME NEW s \in Objects, BindAndListen(s) PROVE Inv'
      <3>1. PICK fd \in Fd : Opened(fd, "listening") /\ Holds(s, fd, FALSE, TRUE)
        BY <2>2 DEF BindAndListen
      <3>0. Gave(s, fd, FALSE, "listening" = "listening")
        BY <3>1 DEF Holds, SocketTypeOK, Gave
      <3>2. SocketTypeOK' /\ Fits'
        BY <2>2, <2>0, <3>0, <3>1
        DEF BindAndListen, SocketTypeOK, Opened, KernelStates, Gave, Fits, FlagsFit
      <3>3. \A f \in Fd \ robbed' : Agree(f)'
        <4>1. s \in live /\ m_fd[s] = NoFd /\ UNCHANGED <<leaked, robbed>>
              /\ live' = live \cup {s} /\ spent' = spent
          BY <2>2 DEF BindAndListen
        <4>2. "listening" \in KernelStates \ {"closed"}
          BY DEF KernelStates
        <4>. QED  BY <2>0, <3>0, <3>1, <4>1, <4>2, NewOwner
      <3>. QED  BY <3>2, <3>3, InPartsNext
    <2>3. ASSUME NEW s \in Objects, NEW t \in Objects, AcceptSocket(s, t) PROVE Inv'
      <3>1. PICK fd \in Fd : Opened(fd, "connected") /\ Holds(t, fd, TRUE, FALSE)
        BY <2>3 DEF AcceptSocket
      <3>0. Gave(t, fd, TRUE, "connected" = "listening")
        BY <3>1 DEF Holds, SocketTypeOK, Gave
      <3>2. SocketTypeOK' /\ Fits'
        BY <2>3, <2>0, <3>0, <3>1
        DEF AcceptSocket, SocketTypeOK, Opened, KernelStates, Gave, Fits, FlagsFit
      <3>3. \A f \in Fd \ robbed' : Agree(f)'
        <4>1. t \notin live /\ UNCHANGED <<leaked, robbed>>
              /\ live' = live \cup {t} /\ spent' = spent
          BY <2>3 DEF AcceptSocket
        <4>2. "connected" \in KernelStates \ {"closed"}
          BY DEF KernelStates
        <4>. QED  BY <2>0, <3>0, <3>1, <4>1, <4>2, NewOwner
      <3>. QED  BY <3>2, <3>3, InPartsNext
    <2>4. ASSUME NEW s \in Objects, ConnectSocket(s) PROVE Inv'
      <3>1. PICK fd \in Fd, state \in {"connected", "unconnected"} :
              Opened(fd, state) /\ Holds(s, fd, TRUE, FALSE)
        BY <2>4 DEF ConnectSocket
      <3>0. Gave(s, fd, TRUE, state = "listening")
        BY <3>1 DEF Holds, SocketTypeOK, Gave
      <3>2. SocketTypeOK' /\ Fits'
        BY <2>4, <2>0, <3>0, <3>1
        DEF ConnectSocket, SocketTypeOK, Opened, KernelStates, Gave, Fits, FlagsFit
      <3>3. \A f \in Fd \ robbed' : Agree(f)'
        <4>1. m_fd[s] = NoFd
          BY <2>4, <2>0 DEF ConnectSocket, Fits, FlagsFit
        <4>2. UNCHANGED <<leaked, robbed>> /\ live' = live \cup {s} /\ spent' = spent
          BY <2>4 DEF ConnectSocket
        <4>3. state \in KernelStates \ {"closed"}
          BY DEF KernelStates
        <4>. QED  BY <2>0, <3>0, <3>1, <4>1, <4>2, <4>3, NewOwner
      <3>. QED  BY <3>2, <3>3, InPartsNext
    <2>5. ASSUME NEW s \in Objects, CloseSocket(s) PROVE Inv'
      <3>0. Gave(s, NoFd, FALSE, FALSE)
        BY <2>5 DEF CloseSocket, Holds, SocketTypeOK, Gave
      <3>. USE <3>0 DEF Gave
      <3>1. m_fd[s] \in Fd /\ s \in live
        BY <2>5, <2>0 DEF CloseSocket, Fits, FlagsFit, SocketTypeOK
      <3>2. SocketTypeOK'
        BY <2>5, <3>1 DEF CloseSocket, SocketTypeOK, KernelStates
      <3>3. Fits'
        BY <2>5, <2>0 DEF CloseSocket, Fits, FlagsFit, SocketTypeOK
      <3>4. ASSUME NEW fd \in Fd \ robbed' PROVE Agree(fd)'
        <4>1. fd \in Fd \ robbed /\ Agree(fd)
          BY <2>5, <2>0 DEF CloseSocket
        <4>2. OwnersOf(fd)' = OwnersOf(fd) \ {s}
          BY <2>5, <4>1, WhoOwns DEF CloseSocket, SocketTypeOK
        <4>3. CASE fd = m_fd[s]
          <5>1. OwnersOf(fd) \subseteq {s}
            BY <2>5, <4>1, <4>3 DEF CloseSocket, OwnersOf
          <5>2. OwnersOf(fd)' = {} /\ fd \notin leaked' /\ kernel'[fd] = "closed"
            BY <2>5, <4>2, <4>3, <5>1 DEF CloseSocket, SocketTypeOK
          <5>. QED  BY <5>2 DEF Agree
        <4>4. CASE fd # m_fd[s]
          <5>1. s \notin OwnersOf(fd)
            BY <4>4 DEF OwnersOf
          <5>2. OwnersOf(fd)' = OwnersOf(fd)
            BY <4>2, <5>1
          <5>3. kernel'[fd] = kernel[fd] /\ (fd \in leaked' <=> fd \in leaked)
            BY <2>5, <3>1, <4>1, <4>4 DEF CloseSocket, SocketTypeOK
          <5>4. \A t \in OwnersOf(fd) : m_is_listened'[t] = m_is_listened[t]
            BY <2>00, <4>1, <5>1
          <5>. QED  BY <4>1, <5>2, <5>3, <5>4, Untouched
        <4>. QED  BY <4>3, <4>4
      <3>. QED  BY <3>2, <3>3, <3>4, InPartsNext
    <2>6. ASSUME NEW s \in Objects, NEW t \in Objects, Move(s, t) PROVE Inv'
      <3>0. Gave(t, m_fd[s], m_is_connected[s], m_is_listened[s])
        BY <2>6 DEF Move, Holds, SocketTypeOK, Gave
      <3>. USE <3>0 DEF Gave
      <3>1. /\ s \in live /\ s # t /\ live' = live \cup {t}
            /\ kernel' = kernel /\ robbed' = robbed
            /\ leaked' = IF t \in Owners THEN leaked \cup {m_fd[t]} ELSE leaked
        BY <2>6 DEF Move
      <3>2. /\ s \in Owners => spent' = (spent \ {t}) \cup {s}
            /\ s \in spent => spent' = spent \cup {t}
            /\ s \notin Owners /\ s \notin spent =>
                 spent' = spent \ {t} /\ m_fd[s] = NoFd
        BY <2>6 DEF Move, Owners
      <3>3. Fits'
        BY <2>0, <3>1 DEF Fits, FlagsFit, SocketTypeOK
      <3>4. SocketTypeOK'
        <4>1. spent' \subseteq {u \in live' : m_fd'[u] # NoFd}
          BY <3>1, <3>2 DEF SocketTypeOK, Owners
        <4>2. leaked' \subseteq Fd
          BY <3>1 DEF SocketTypeOK, Owners
        <4>. QED  BY <3>1, <4>1, <4>2 DEF SocketTypeOK
      <3>5. ASSUME NEW fd \in Fd \ robbed PROVE Agree(fd)'
        <4>1. Agree(fd) /\ kernel'[fd] = kernel[fd]
          BY <2>0, <3>1
        <4>2. \A u \in OwnersOf(fd) \ {t} : m_is_listened'[u] = m_is_listened[u]
          BY <2>00
        <4>3. CASE s \in OwnersOf(fd)
          <5>1. s \in Owners /\ m_fd[s] = fd /\ OwnersOf(fd) = {s} /\ t \notin OwnersOf(fd)
            BY <3>1, <4>1, <4>3 DEF OwnersOf, Agree
          <5>2. OwnersOf(fd)' = {t}
            BY <3>1, <3>2, <5>1, WhoOwns DEF SocketTypeOK
          <5>3. fd \notin leaked' /\ kernel'[fd] # "closed"
            BY <3>1, <4>1, <5>1 DEF OwnersOf, Agree
          <5>4. m_is_listened'[t] <=> kernel'[fd] = "listening"
            BY <4>1, <5>1 DEF Agree
          <5>. QED  BY <5>2, <5>3, <5>4 DEF Agree
        <4>4. CASE s \notin OwnersOf(fd)
          <5>1. s \in Owners => m_fd[s] # fd
            BY <4>4 DEF OwnersOf
          <5>2. OwnersOf(fd)' = OwnersOf(fd) \ {t}
            <6>1. t \notin OwnersOf(fd)'
              BY <3>1, <3>2, <5>1, WhoOwns
            <6>2. \A u \in Objects \ {t} : u \in OwnersOf(fd)' <=> u \in OwnersOf(fd)
              BY <3>1, <3>2, <4>4, <5>1, WhoOwns
            <6>3. OwnersOf(fd)' \subseteq Objects
              BY <3>4, WhoOwns DEF SocketTypeOK
            <6>. QED  BY <2>00, <6>1, <6>2, <6>3
          <5>. QED  BY <3>1, <4>1, <4>2, <5>2, OwnerLost
        <4>. QED  BY <4>3, <4>4
      <3>. QED  BY <3>1, <3>3, <3>4, <3>5, InPartsNext
    <2>7. ASSUME NEW s \in Objects, DestroySocket(s) PROVE Inv'
      <3>0. Gave(s, NoFd, FALSE, FALSE)
        BY <2>7 DEF DestroySocket, Holds, SocketTypeOK, Gave
      <3>. USE <3>0 DEF Gave
      <3>1. SocketTypeOK'
        <4>1. /\ live' = live \ {s} /\ spent' = spent \ {s}
              /\ UNCHANGED <<kernel, robbed>>
              /\ leaked' = IF s \in Owners THEN leaked \cup {m_fd[s]} ELSE leaked
          BY <2>7 DEF DestroySocket
        <4>2. spent' \subseteq {t \in live' : m_fd'[t] # NoFd}
          BY <4>1 DEF SocketTypeOK
        <4>3. leaked' \subseteq Fd
          BY <4>1 DEF SocketTypeOK, Owners
        <4>. QED  BY <4>1, <4>2, <4>3 DEF SocketTypeOK
      <3>2. Fits'
        BY <2>7, <2>0 DEF DestroySocket, Fits, FlagsFit, SocketTypeOK
      <3>3. ASSUME NEW fd \in Fd \ robbed PROVE Agree(fd)'
        <4>1. OwnersOf(fd)' = OwnersOf(fd) \ {s}
          BY <2>7, WhoOwns DEF DestroySocket, SocketTypeOK
        <4>2. \A t \in OwnersOf(fd) \ {s} : m_is_listened'[t] = m_is_listened[t]
          BY <2>00
        <4>. QED  BY <2>7, <2>0, <4>1, <4>2, OwnerLost DEF DestroySocket
      <3>. QED  BY <2>7, <3>1, <3>2, <3>3, InPartsNext DEF DestroySocket
    <2>8. CASE UNCHANGED socketVars
      <3>1. SocketTypeOK'
        BY <2>8 DEF socketVars, SocketTypeOK
      <3>2. DescriptorsOwned' = DescriptorsOwned
        BY <2>8 DEF socketVars, DescriptorsOwned, OwnersOf, Owners, FlagsFit
      <3>. QED  BY <3>1, <3>2
    <2>. QED
      BY <2>1, <2>2, <2>3, <2>4, <2>5, <2>6, <2>7, <2>8 DEF SocketNext
  <1>3. Inv => DescriptorsOwned
    OBVIOUS
  <1>. QED  BY <1>1, <1>2, <1>3, PTL DEF SocketSpec

-----------------------------------------------------------------------------
(***************************************************************************)
(* The messages that the chat client logs.                                 *)
(***************************************************************************)

(* FlattenSeq() puts the sequences together from the left.                 *)
LEMMA FlattenRecurs ==
  ASSUME NEW S, NEW seqs \in Seq(Seq(S))
  PROVE  \E f \in [0..Len(seqs) -> Seq(S)] :
           /\ f[0] = <<>>
           /\ \A k \in 1..Len(seqs) : f[k] = f[k-1] \o seqs[k]
           /\ FlattenSeq(seqs) = f[Len(seqs)]
<1>. DEFINE n == Len(seqs)
            G == [k \in 1..n |-> [x \in Seq(S) |-> x \o seqs[k]]]
<1>1. n \in Nat /\ \A k \in 1..n : seqs[k] \in Seq(S)
  OBVIOUS
<1>2. \A k \in 1..n : G[k] \in [Seq(S) -> Seq(S)]
  BY <1>1
<1>. HIDE DEF n
<1>3. PICK f \in [0..n -> Seq(S)] : Recurs(f, <<>>, G, n)
  <2>1. <<>> \in Seq(S)
    OBVIOUS
  <2>. HIDE DEF G
  <2>2. QED  BY <1>1, <1>2, <2>1, RecursionExists
<1>4. f[0] = <<>> /\ \A k \in 1..n : f[k] = f[k-1] \o seqs[k]
  <2>1. \A k \in 0..n : f[k] = IF k = 0 THEN <<>> ELSE G[k][f[k-1]]
    <3>. HIDE DEF G
    <3>1. QED  BY <1>3 DEF Recurs
  <2>2. 0 \in 0..n /\ \A k \in 1..n : k \in 0..n /\ k - 1 \in 0..n /\ k # 0
    BY <1>1
  <2>3. \A k \in 1..n : f[k-1] \in Seq(S)
    BY <1>3, <2>2
  <2>4. \A k \in 1..n : G[k][f[k-1]] = f[k-1] \o seqs[k]
    BY <2>3
  <2>. HIDE DEF G
  <2>5. QED  BY <2>1, <2>2, <2>4
<1>5. \A k \in 1..n : f[k] = IF k = 1 THEN seqs[k] ELSE f[k-1] \o seqs[k]
  <2>1. ASSUME NEW k \in 1..n, k = 1 PROVE f[k] = seqs[k]
    <3>1. k - 1 = 0
      BY <2>1
    <3>2. f[k] = <<>> \o seqs[k]
      BY <1>4, <3>1
    <3>3. QED  BY <3>2, <1>1, ConcatEmptySeq
  <2>2. QED  BY <2>1, <1>4
<1>6. FlattenSeq(seqs) = f[n]
  <2>1. CASE n = 0
    <3>1. seqs = <<>>
      BY <2>1, EmptySeq DEF n
    <3>2. FlattenSeq(seqs) = seqs
      BY <2>1 DEF FlattenSeq, n
    <3>3. QED  BY <2>1, <3>1, <3>2, <1>4
  <2>2. CASE n # 0
    <3>. DEFINE Step(h) == [p \in 1..n |-> IF p = 1 THEN seqs[p] ELSE h[p-1] \o seqs[p]]
                flatten == CHOOSE h : h = Step(h)
    <3>1. FlattenSeq(seqs) = flatten[n]
      BY <2>2 DEF FlattenSeq, n
    <3>2. flatten = Step(flatten)
      <4>. DEFINE g == [p \in 1..n |-> f[p]]
      <4>1. \A p \in 1..n : f[p] = IF p = 1 THEN seqs[p] ELSE g[p-1] \o seqs[p]
        <5>1. \A p \in 1..n : p # 1 => g[p-1] = f[p-1]
          BY <1>1
        <5>. HIDE DEF g
        <5>2. QED  BY <5>1, <1>5
      <4>2. g = Step(g)
        BY <4>1
      <4>3. QED  BY <4>2
    <3>3. \A p \in 1..n : flatten[p] = IF p = 1 THEN seqs[p] ELSE flatten[p-1] \o seqs[p]
      <4>. HIDE DEF flatten
      <4>1. QED  BY <3>2
    <3>. HIDE DEF flatten
    <3>. DEFINE T == {k \in 0..n : k # 0 => flatten[k] = f[k]}
    <3>4. 0 \in T
      BY <1>1
    <3>5. ASSUME NEW k \in 1..n, k - 1 \in T PROVE k \in T
      <4>1. CASE k = 1
        BY <3>3, <4>1, <1>1, <1>5
      <4>2. CASE k # 1
        <5>1. k - 1 \in 1..n /\ flatten[k-1] = f[k-1]
          BY <3>5, <4>2, <1>1
        <5>2. flatten[k] = flatten[k-1] \o seqs[k] /\ f[k] = f[k-1] \o seqs[k]
          BY <3>3, <4>2, <1>4
        <5>3. k \in 0..n
          BY <1>1
        <5>4. QED  BY <5>1, <5>2, <5>3
      <4>3. QED  BY <4>1, <4>2
    <3>. HIDE DEF T
    <3>6. \A k \in 0..n : k \in T
      BY <1>1, <3>4, <3>5, InductionUpTo
    <3>7. n \in T
      BY <3>6, <1>1
    <3>8. QED  BY <3>7, <3>1, <2>2 DEF T
  <2>3. QED  BY <2>1, <2>2
<1>7. QED  BY <1>3, <1>4, <1>6 DEF n

(* Of one more sequence, it puts the elements at the end.                  *)
LEMMA FlattenAppend ==
  ASSUME NEW S, NEW seqs \in Seq(Seq(S)), NEW e \in Seq(S)
  PROVE  /\ FlattenSeq(seqs) \in Seq(S)
         /\ FlattenSeq(Append(seqs, e)) = FlattenSeq(seqs) \o e
<1>. DEFINE n == Len(seqs)
            more == Append(seqs, e)
<1>1. n \in Nat /\ more \in Seq(Seq(S)) /\ Len(more) = n + 1
  BY AppendProperties
<1>2. more[n+1] = e /\ \A k \in 1..n : more[k] = seqs[k]
  BY AppendProperties
<1>. HIDE DEF n, more
<1>3. PICK f \in [0..n -> Seq(S)] :
        /\ f[0] = <<>>
        /\ \A k \in 1..n : f[k] = f[k-1] \o seqs[k]
        /\ FlattenSeq(seqs) = f[n]
  BY FlattenRecurs DEF n
<1>4. PICK g : /\ g[0] = <<>>
               /\ \A k \in 1..n+1 : g[k] = g[k-1] \o more[k]
               /\ FlattenSeq(more) = g[n+1]
  <2>1. PICK g \in [0..Len(more) -> Seq(S)] :
          /\ g[0] = <<>>
          /\ \A k \in 1..Len(more) : g[k] = g[k-1] \o more[k]
          /\ FlattenSeq(more) = g[Len(more)]
    BY <1>1, FlattenRecurs
  <2>2. QED  BY <1>1, <2>1
<1>5. \A k \in 0..n : f[k] = g[k]
  <2>1. \A k \in 1..n : k \in 1..n+1
    BY <1>1
  <2>2. \A k \in 1..n : f[k-1] = g[k-1] => f[k] = g[k]
    BY <1>2, <1>3, <1>4, <2>1
  <2>3. f[0] = g[0]
    BY <1>3, <1>4
  <2>. DEFINE T == {k \in 0..n : f[k] = g[k]}
  <2>4. 0 \in T /\ \A k \in 1..n : k - 1 \in T => k \in T
    BY <1>1, <2>2, <2>3
  <2>. HIDE DEF T
  <2>5. \A k \in 0..n : k \in T
    BY <1>1, <2>4, InductionUpTo
  <2>6. QED  BY <2>5 DEF T
<1>6. n \in 0..n /\ n + 1 \in 1..n+1 /\ (n + 1) - 1 = n
  BY <1>1
<1>7. g[n+1] = g[n] \o e
  BY <1>2, <1>4, <1>6
<1>8. QED  BY <1>3, <1>4, <1>5, <1>6, <1>7 DEF more

ClientTypes ==
  /\ mainPc \in {"connect", "test", "getline", "write", "close", "join",
                 "ended", "sigpipe"}
  /\ outPc \in {"none", "test", "call", "read", "ended"}
  /\ connected \in BOOLEAN /\ shutdown \in BOOLEAN
  /\ msg \in Seq(Bytes) /\ shown \in Seq(Seq(Bytes))
  /\ peer \in {"up", "refused", "closed", "reset"}
  /\ sent \in Seq(Bytes) /\ stream \in Seq(Bytes)

AllKept == FlattenSeq(shown) \o msg \o stream = sent

WholeMessages == \A k \in 1..Len(shown) : Last(shown[k]) = "\n"

(* Only the output thread sets the shutdown flag, when it ends: so it does *)
(* not end between two messages.  When it ends with the connection open,   *)
(* the server cannot send any more, and nothing is left to read, unless a  *)
(* reset took it.                                                          *)
Endings ==
  /\ mainPc = "connect" => outPc = "none"
  /\ shutdown => outPc = "ended"
  /\ outPc = "ended" /\ connected /\ peer # "reset"
       => stream = <<>> /\ peer # "up"

ClientInv == ClientTypes /\ AllKept /\ WholeMessages /\ Endings

LEMMA FlattenEmpty == FlattenSeq(<<>>) = <<>>
  BY DEF FlattenSeq

LEMMA ClientInitInv == ClientInit => ClientInv
<1>. SUFFICES ASSUME ClientInit PROVE ClientInv
  OBVIOUS
<1>1. <<>> \in Seq(Bytes) /\ <<>> \in Seq(Seq(Bytes))
  OBVIOUS
<1>2. <<>> \o <<>> \o <<>> = <<>>
  BY <1>1, ConcatEmptySeq
<1>3. AllKept
  BY <1>2, FlattenEmpty DEF AllKept, ClientInit
<1>4. ClientTypes
  BY <1>1 DEF ClientInit, ClientTypes
<1>5. WholeMessages
  <2>1. Len(shown) = 0
    BY DEF ClientInit
  <2>2. QED  BY <2>1 DEF WholeMessages
<1>6. Endings
  BY DEF ClientInit, Endings
<1>7. QED  BY <1>3, <1>4, <1>5, <1>6 DEF ClientInv

(* A read moves the bytes it takes from the stream to the messages.        *)
LEMMA ReadKeeps ==
  ASSUME ClientInv, ReadBytes
  PROVE  ClientInv'
<1>1. PICK n \in 1..Len(stream) :
        /\ TakeBytes(SubSeq(stream, 1, n))
        /\ stream' = SubSeq(stream, n + 1, Len(stream))
  BY DEF ReadBytes
<1>2. ClientTypes /\ FlattenSeq(shown) \in Seq(Bytes)
  <2>1. <<>> \in Seq(Bytes)
    OBVIOUS
  <2>2. QED  BY <2>1, FlattenAppend DEF ClientInv, ClientTypes
<1>. DEFINE F == FlattenSeq(shown)
            bytes == SubSeq(stream, 1, n)
            rest == SubSeq(stream, n + 1, Len(stream))
<1>3. bytes \in Seq(Bytes) /\ rest \in Seq(Bytes) /\ bytes \o rest = stream
  <2>1. Len(stream) \in Nat /\ \A p \in 1..Len(stream) : stream[p] \in Bytes
    BY <1>2 DEF ClientTypes
  <2>2. n \in Int /\ 1 \in 1..Len(stream)+1 /\ n \in 1-1..Len(stream)
        /\ Len(stream) \in n..Len(stream)
    BY <2>1
  <2>3. bytes \o rest = SubSeq(stream, 1, Len(stream))
    BY <1>2, <2>2, ConcatAdjacentSubSeq DEF ClientTypes
  <2>4. bytes \in Seq(Bytes)
    <3>1. \A p \in 1..n : stream[p] \in Bytes
      BY <2>1
    <3>2. QED  BY <2>2, <3>1, SubSeqProperties
  <2>5. rest \in Seq(Bytes)
    <3>1. n + 1 \in Int /\ Len(stream) \in Int
          /\ \A p \in n+1..Len(stream) : stream[p] \in Bytes
      BY <2>1
    <3>2. QED  BY <3>1, SubSeqProperties
  <2>6. QED  BY <2>3, <2>4, <2>5, <1>2, SubSeqFull DEF ClientTypes
<1>. HIDE DEF F, bytes, rest
<1>4. msg \o bytes \in Seq(Bytes) /\ F \o msg \in Seq(Bytes)
  BY <1>2, <1>3, ConcatProperties DEF ClientTypes, F
<1>5. (F \o (msg \o bytes)) \o rest = sent
  <2>1. F \in Seq(Bytes) /\ msg \in Seq(Bytes)
    BY <1>2 DEF ClientTypes, F
  <2>0. \A s, t, u \in Seq(Bytes) : (s \o t) \o u = s \o (t \o u)
    BY ConcatAssociative, SMTT(20)
  <2>2. F \o (msg \o bytes) = (F \o msg) \o bytes
    BY <1>3, <2>1, <2>0, ZenonT(30)
  <2>3. ((F \o msg) \o bytes) \o rest = (F \o msg) \o stream
    <3>1. ((F \o msg) \o bytes) \o rest = (F \o msg) \o (bytes \o rest)
      BY <1>3, <1>4, <2>0, Zenon
    <3>2. QED  BY <1>3, <3>1
  <2>4. (F \o msg) \o stream = sent
    BY DEF ClientInv, AllKept, F
  <2>5. QED  BY <2>2, <2>3, <2>4
<1>6. ~shutdown /\ outPc = "read" /\ stream' = rest /\ TakeBytes(bytes)
      /\ UNCHANGED <<mainPc, connected, shutdown, peer, sent>>
  BY <1>1 DEF ReadBytes, ClientInv, Endings, bytes, rest
<1>7. Last(bytes) = "\n" => Last(msg \o bytes) = "\n"
  <2>1. Len(bytes) = n
    <3>1. Len(stream) \in Nat /\ \A p \in 1..n : stream[p] \in Bytes
      BY <1>2 DEF ClientTypes
    <3>2. n \in Int /\ 1 <= n
      BY <3>1
    <3>3. QED  BY <3>1, <3>2, SubSeqProperties DEF bytes
  <2>2. Len(msg) \in Nat /\ n \in Nat /\ n >= 1
    BY <1>2 DEF ClientTypes
  <2>3. Len(msg \o bytes) = Len(msg) + n
        /\ (msg \o bytes)[Len(msg) + n] = bytes[n]
    <3>1. /\ Len(msg \o bytes) = Len(msg) + Len(bytes)
          /\ \A p \in 1..Len(msg) + Len(bytes) :
               (msg \o bytes)[p] = IF p <= Len(msg) THEN msg[p]
                                                  ELSE bytes[p - Len(msg)]
      BY <1>2, <1>3, ConcatProperties DEF ClientTypes
    <3>2. PICK m : m = Len(msg) + n
      OBVIOUS
    <3>3. m \in 1..Len(msg) + Len(bytes) /\ ~(m <= Len(msg)) /\ m - Len(msg) = n
      BY <3>2, <2>1, <2>2
    <3>4. QED  BY <3>1, <3>2, <3>3, <2>1
  <2>4. QED  BY <2>1, <2>3 DEF Last
<1>8. CASE Last(bytes) = "\n"
  <2>1. shown' = Append(shown, msg \o bytes) /\ msg' = <<>> /\ outPc' = "test"
    BY <1>6, <1>8 DEF TakeBytes
  <2>2. shown' \in Seq(Seq(Bytes)) /\ Len(shown') = Len(shown) + 1
        /\ shown'[Len(shown) + 1] = msg \o bytes
        /\ \A k \in 1..Len(shown) : shown'[k] = shown[k]
    BY <2>1, <1>2, <1>4, AppendProperties DEF ClientTypes
  <2>3. FlattenSeq(shown') = F \o (msg \o bytes)
    BY <2>1, <1>2, <1>4, FlattenAppend DEF ClientTypes, F
  <2>4. AllKept'
    <3>1. F \o (msg \o bytes) \in Seq(Bytes)
      BY <1>2, <1>4, ConcatProperties DEF F
    <3>2. (F \o (msg \o bytes)) \o <<>> = F \o (msg \o bytes)
      BY <3>1, ConcatEmptySeq
    <3>3. QED  BY <2>1, <2>3, <3>2, <1>5, <1>6 DEF AllKept
  <2>5. WholeMessages'
    <3>1. Len(shown) \in Nat
      BY <1>2 DEF ClientTypes
    <3>2. \A k \in 1..Len(shown'): k \in 1..Len(shown) \/ k = Len(shown) + 1
      BY <2>2, <3>1
    <3>3. QED  BY <2>2, <3>2, <1>7, <1>8 DEF ClientInv, WholeMessages
  <2>6. ClientTypes'
    BY <1>2, <1>3, <1>6, <2>1, <2>2 DEF ClientTypes
  <2>7. Endings'
    BY <1>6, <2>1 DEF ClientInv, Endings
  <2>8. QED  BY <2>4, <2>5, <2>6, <2>7 DEF ClientInv
<1>9. CASE Last(bytes) # "\n"
  <2>1. shown' = shown /\ msg' = msg \o bytes /\ outPc' = "test"
    BY <1>6, <1>9 DEF TakeBytes
  <2>2. AllKept'
    BY <2>1, <1>5, <1>6 DEF AllKept, F
  <2>3. WholeMessages'
    BY <2>1 DEF ClientInv, WholeMessages
  <2>4. ClientTypes'
    BY <1>2, <1>3, <1>4, <1>6, <2>1 DEF ClientTypes
  <2>5. Endings'
    BY <1>6, <2>1 DEF ClientInv, Endings
  <2>6. QED  BY <2>2, <2>3, <2>4, <2>5 DEF ClientInv
<1>10. QED  BY <1>8, <1>9

LEMMA SendKeeps ==
  ASSUME ClientInv, ServerSends
  PROVE  ClientInv'
<1>1. PICK b \in Bytes : sent' = Append(sent, b) /\ stream' = Append(stream, b)
  BY DEF ServerSends
<1>2. ClientTypes /\ FlattenSeq(shown) \in Seq(Bytes) /\ <<b>> \in Seq(Bytes)
  <2>1. <<>> \in Seq(Bytes)
    OBVIOUS
  <2>2. QED  BY <2>1, FlattenAppend DEF ClientInv, ClientTypes
<1>. DEFINE K == FlattenSeq(shown) \o msg
<1>0. K \in Seq(Bytes)
  BY <1>2, ConcatProperties DEF ClientTypes
<1>. HIDE DEF K
<1>3. UNCHANGED <<mainPc, outPc, connected, shutdown, msg, shown, peer>> /\ peer = "up"
  BY DEF ServerSends, threadVars
<1>4. K \o stream' = sent'
  <2>1. stream' = stream \o <<b>> /\ sent' = sent \o <<b>>
    BY <1>1, <1>2, AppendIsConcat DEF ClientTypes
  <2>2. K \o (stream \o <<b>>) = (K \o stream) \o <<b>>
    BY <1>2, <1>0, ConcatAssociative DEF ClientTypes
  <2>3. K \o stream = sent
    BY DEF ClientInv, AllKept, K
  <2>4. QED  BY <2>1, <2>2, <2>3
<1>5. AllKept'
  BY <1>3, <1>4 DEF AllKept, K
<1>6. WholeMessages' /\ Endings'
  BY <1>3 DEF ClientInv, WholeMessages, Endings
<1>7. ClientTypes'
  BY <1>1, <1>2, <1>3, AppendProperties DEF ClientTypes
<1>8. QED  BY <1>5, <1>6, <1>7 DEF ClientInv

(* The other steps leave the bytes where they are.                         *)
LEMMA RestKeeps ==
  ASSUME ClientInv, UNCHANGED <<msg, shown, sent, stream>>,
         ClientTypes', Endings'
  PROVE  ClientInv'
BY DEF ClientInv, AllKept, WholeMessages

LEMMA ClientNextInv == ClientInv /\ [ClientNext]_clientVars => ClientInv'
<1>. SUFFICES ASSUME ClientInv, [ClientNext]_clientVars PROVE ClientInv'
  OBVIOUS
<1>. USE DEF ClientInv, ClientTypes, Endings
<1>1. CASE Main
  <2>1. CASE Connect
    BY <2>1, RestKeeps DEF Connect
  <2>2. CASE TestShutdown
    BY <2>2, RestKeeps DEF TestShutdown
  <2>3. CASE WriteBytes
    BY <2>3, RestKeeps DEF WriteBytes
  <2>4. CASE Close
    BY <2>4, RestKeeps DEF Close
  <2>5. CASE Join
    BY <2>5, RestKeeps DEF Join
  <2>6. QED  BY <1>1, <2>1, <2>2, <2>3, <2>4, <2>5 DEF Main
<1>2. CASE Output
  <2>1. CASE TestConnected
    BY <2>1, RestKeeps DEF TestConnected, ServerClosed
  <2>2. CASE CallRead
    BY <2>2, RestKeeps DEF CallRead, ServerClosed
  <2>3. CASE ReadEnds
    BY <2>3, RestKeeps DEF ReadEnds, ServerClosed
  <2>4. QED  BY <1>2, <2>1, <2>2, <2>3, ReadKeeps DEF Output
<1>3. CASE TypeLine
  BY <1>3, RestKeeps DEF TypeLine
<1>4. CASE TypeExit
  BY <1>4, RestKeeps DEF TypeExit
<1>5. CASE ServerCloses
  BY <1>5, RestKeeps DEF ServerCloses, threadVars
<1>6. CASE UNCHANGED clientVars
  BY <1>6, RestKeeps DEF clientVars, threadVars
<1>7. QED  BY <1>1, <1>2, <1>3, <1>4, <1>5, <1>6, SendKeeps DEF ClientNext

(* The client logs the messages of the server whole and in order, whatever *)
(* both threads, the user and the server do: what is logged, is being put  *)
(* together or waits to be read is what the server sent; and the output    *)
(* thread does not stop before the end (client.cpp:18-36).                 *)
THEOREM MessagesAreShown == ClientSpec => []LinesShown
<1>1. ClientInv => LinesShown
  BY DEF ClientInv, AllKept, WholeMessages, Endings, LinesShown
<1>2. QED  BY ClientInitInv, ClientNextInv, <1>1, PTL DEF ClientSpec

-----------------------------------------------------------------------------
(***************************************************************************)
(* The answers of the text query.                                          *)
(***************************************************************************)

Ascending(l, n) == \A p, r \in 1..n : p < r => l[p] < l[r]

(* A set of lines has a greatest.                                          *)
LEMMA GreatestLine ==
  ASSUME NEW n \in Nat, NEW S \in SUBSET (1..n), S # {}
  PROVE  \E x \in S : \A y \in S : y <= x
<1>. DEFINE T == {n - x : x \in S}
<1>1. T \in SUBSET Nat /\ T # {}
  <2>1. \A x \in S : n - x \in Nat
    OBVIOUS
  <2>2. PICK x \in S : TRUE
    OBVIOUS
  <2>3. n - x \in T
    OBVIOUS
  <2>4. QED  BY <2>1, <2>3
<1>. HIDE DEF T
<1>2. PICK t \in T : \A u \in T : t <= u
  BY <1>1, LeastNatural
<1>3. PICK x \in S : t = n - x
  BY <1>2 DEF T
<1>4. \A y \in S : n - y \in T /\ n - x <= n - y
  BY <1>2, <1>3 DEF T
<1>5. \A y \in S : y \in Int /\ x \in Int
  OBVIOUS
<1>6. \A y \in S : y <= x
  BY <1>4, <1>5
<1>7. QED  BY <1>6

(* It can be listed in ascending order.                                    *)
LEMMA CanBeListed ==
  ASSUME NEW n \in Nat, NEW S \in SUBSET (1..n)
  PROVE  \E l \in [1..Cardinality(S) -> S] : Ascending(l, Cardinality(S))
<1>. DEFINE Listed(R) == \E l \in [1..Cardinality(R) -> R] : Ascending(l, Cardinality(R))
            T == {k \in 0..n : \A R \in SUBSET (1..n) : Cardinality(R) = k => Listed(R)}
<1>0. IsFiniteSet(1..n) /\ Cardinality(1..n) = n
  BY FS_Interval
<1>1. \A R \in SUBSET (1..n) : IsFiniteSet(R) /\ Cardinality(R) \in 0..n
  <2>1. \A R \in SUBSET (1..n) : IsFiniteSet(R) /\ Cardinality(R) <= n
    BY <1>0, FS_Subset
  <2>2. QED  BY <2>1, FS_CardinalityType
<1>2. 0 \in T
  <2>1. ASSUME NEW R \in SUBSET (1..n), Cardinality(R) = 0 PROVE Listed(R)
    <3>1. [p \in 1..0 |-> 1] \in [1..0 -> R] /\ Ascending([p \in 1..0 |-> 1], 0)
      BY DEF Ascending
    <3>2. QED  BY <2>1, <3>1
  <2>. HIDE DEF Listed
  <2>2. QED  BY <2>1
<1>3. ASSUME NEW k \in 1..n, k - 1 \in T PROVE k \in T
  <2>1. ASSUME NEW R \in SUBSET (1..n), Cardinality(R) = k PROVE Listed(R)
    <3>1. R # {}
      BY <2>1, <1>1, FS_EmptySet
    <3>2. PICK x \in R : \A y \in R : y <= x
      BY <3>1, GreatestLine
    <3>. DEFINE Q == R \ {x}
    <3>3. Q \in SUBSET (1..n) /\ Cardinality(Q) = k - 1
      BY <2>1, <1>1, FS_RemoveElement
    <3>4. Listed(Q)
      <4>. HIDE DEF Listed, Q
      <4>1. QED  BY <1>3, <3>3
    <3>5. PICK l \in [1..k-1 -> Q] : Ascending(l, k - 1)
      <4>. HIDE DEF Q
      <4>1. QED  BY <3>3, <3>4
    <3>. DEFINE m == [p \in 1..k |-> IF p = k THEN x ELSE l[p]]
    <3>6. \A p \in 1..k : p = k \/ p \in 1..k-1
      OBVIOUS
    <3>7. \A p \in 1..k-1 : l[p] \in R /\ l[p] \in Int /\ l[p] < x
      <4>1. \A y \in R : y \in Int
        OBVIOUS
      <4>2. ASSUME NEW p \in 1..k-1
            PROVE  l[p] \in R /\ l[p] \in Int /\ l[p] < x
        <5>1. l[p] \in R /\ l[p] # x
          BY <3>5
        <5>2. l[p] <= x /\ l[p] \in Int /\ x \in Int
          BY <3>2, <4>1, <5>1
        <5>3. QED  BY <5>1, <5>2
      <4>3. QED  BY <4>2
    <3>8. m \in [1..k -> R]
      BY <3>6, <3>7
    <3>9. Ascending(m, k)
      <4>1. ASSUME NEW p \in 1..k, NEW r \in 1..k, p < r PROVE m[p] < m[r]
        <5>1. p \in 1..k-1 /\ m[p] = l[p]
          BY <4>1
        <5>2. CASE r = k
          BY <3>7, <5>1, <5>2
        <5>3. CASE r # k
          <6>1. r \in 1..k-1 /\ m[r] = l[r]
            BY <5>3
          <6>. HIDE DEF m
          <6>2. QED  BY <3>5, <4>1, <5>1, <6>1 DEF Ascending
        <5>4. QED  BY <5>2, <5>3
      <4>. HIDE DEF m
      <4>2. QED  BY <4>1 DEF Ascending
    <3>. HIDE DEF m
    <3>10. QED  BY <2>1, <3>8, <3>9
  <2>. HIDE DEF Listed
  <2>2. QED  BY <2>1
<1>. HIDE DEF Listed, T
<1>4. \A k \in 0..n : k \in T
  BY <1>2, <1>3, InductionUpTo
<1>5. Listed(S)
  <2>1. Cardinality(S) \in T
    BY <1>1, <1>4
  <2>2. QED  BY <2>1 DEF T
<1>6. QED  BY <1>5 DEF Listed

(* InOrder() lists it: all of it, and nothing else.                        *)
LEMMA InOrderLists ==
  ASSUME NEW n \in Nat, NEW S \in SUBSET (1..n)
  PROVE  Range(InOrder(S)) = S
<1>. DEFINE c == Cardinality(S)
            l == InOrder(S)
<1>1. l \in [1..c -> S] /\ Ascending(l, c)
  BY CanBeListed DEF InOrder, Ascending
<1>2. IsFiniteSet(S) /\ c \in Nat
  <2>1. IsFiniteSet(1..n)
    BY FS_Interval
  <2>2. IsFiniteSet(S)
    BY <2>1, FS_Subset
  <2>3. QED  BY <2>2, FS_CardinalityType
<1>. HIDE DEF c, l
<1>3. l \in Injection(1..c, S)
  <2>1. ASSUME NEW p \in 1..c, NEW r \in 1..c, l[p] = l[r] PROVE p = r
    <3>1. l[p] \in Int /\ l[r] \in Int
      <4>1. \A y \in S : y \in Int
        OBVIOUS
      <4>2. l[p] \in S /\ l[r] \in S
        BY <1>1
      <4>3. QED  BY <4>1, <4>2
    <3>2. ~(p < r) /\ ~(r < p)
      BY <1>1, <2>1, <3>1 DEF Ascending
    <3>3. QED  BY <3>2, <1>2
  <2>2. QED  BY <1>1, <2>1 DEF Injection, IsInjective
<1>4. l \in Surjection(1..c, S)
  <2>1. Cardinality(1..c) = c
    BY <1>2, FS_Interval
  <2>2. QED  BY <1>2, <1>3, <2>1, FS_Injection DEF c
<1>5. QED  BY <1>4 DEF Surjection, Range, l

-----------------------------------------------------------------------------
Operators == {"&", "|"}

(* The lines that satisfy the first m + 1 words.                           *)
Matching(m) == {k \in 1..Len(file) : SatisfiesFirst(file[k], query, m)}

QueryTypes ==
  /\ file \in Seq(SUBSET Words) /\ atEnd = FALSE
  /\ query \in Seq(Words \cup Operators)
  /\ queryState \in {"prompt", "evaluating", "answered", "terminated"}

(* While a query is evaluated its first words are answered, and the rest   *)
(* is what is left in the queue.                                           *)
Evaluating ==
  queryState = "evaluating" =>
    /\ WellFormed(query)
    /\ \/ commands = query /\ result_list = <<>>
       \/ \E m \in 0..Len(query) \div 2 :
            /\ commands = SubSeq(query, 2 * m + 2, Len(query))
            /\ result_list = InOrder(Matching(m))

QueryInv == QueryTypes /\ Evaluating /\ QueryAnswers

LEMMA QueryLength ==
  ASSUME QueryTypes, WellFormed(query)
  PROVE  /\ Len(query) \div 2 \in Nat
         /\ Len(query) = 2 * (Len(query) \div 2) + 1
         /\ \A k \in 1..Len(query) : query[k] \in Operators <=> k % 2 = 0
BY DEF QueryTypes, WellFormed, Operators

(* One more word narrows or widens the answer.                             *)
LEMMA SatisfiesNext ==
  ASSUME NEW words, NEW q, NEW m \in Nat
  PROVE  /\ SatisfiesFirst(words, q, 0) <=> q[1] \in words
         /\ SatisfiesFirst(words, q, m + 1) <=>
              IF q[2 * (m + 1)] = "|"
              THEN SatisfiesFirst(words, q, m) \/ q[2 * (m + 1) + 1] \in words
              ELSE /\ SatisfiesFirst(words, q, m)
                   /\ q[2 * (m + 1)] = "&" => q[2 * (m + 1) + 1] \in words
<1>. DEFINE First(r) == (r = 0 \/ q[2 * r] = "|") /\ q[2 * r + 1] \in words
            After(r, n) == \A p \in r+1..n : q[2 * p] = "&" => q[2 * p + 1] \in words
<1>1. \A n \in Nat : SatisfiesFirst(words, q, n) <=> \E r \in 0..n : First(r) /\ After(r, n)
  BY DEF SatisfiesFirst
<1>2. \A r \in 0..m : After(r, m + 1) <=>
        After(r, m) /\ (q[2 * (m + 1)] = "&" => q[2 * (m + 1) + 1] \in words)
  <2>1. ASSUME NEW r \in 0..m
        PROVE  \A p : p \in r+1..m+1 <=> p \in r+1..m \/ p = m + 1
    OBVIOUS
  <2>2. QED  BY <2>1
<1>3. After(m + 1, m + 1) /\ After(0, 0)
  OBVIOUS
<1>4. SatisfiesFirst(words, q, 0) <=> q[1] \in words
  <2>1. 0..0 = {0} /\ 2 * 0 + 1 = 1
    OBVIOUS
  <2>2. First(0) <=> q[1] \in words
    BY <2>1
  <2>. HIDE DEF First, After
  <2>3. QED  BY <1>1, <1>3, <2>1, <2>2
<1>5. \A r : r \in 0..m+1 <=> r \in 0..m \/ r = m + 1
  OBVIOUS
<1>6. First(m + 1) <=> q[2 * (m + 1)] = "|" /\ q[2 * (m + 1) + 1] \in words
  OBVIOUS
<1>. HIDE DEF First, After
<1>7. SatisfiesFirst(words, q, m + 1) <=>
        \/ /\ SatisfiesFirst(words, q, m)
           /\ q[2 * (m + 1)] = "&" => q[2 * (m + 1) + 1] \in words
        \/ q[2 * (m + 1)] = "|" /\ q[2 * (m + 1) + 1] \in words
  BY <1>1, <1>2, <1>3, <1>5, <1>6
<1>8. QED  BY <1>4, <1>7

LEMMA QueryInitInv == QueryInit => QueryInv
<1>. SUFFICES ASSUME QueryInit PROVE QueryInv
  OBVIOUS
<1>1. <<>> \in Seq(Words \cup Operators)
  OBVIOUS
<1>2. file \in Seq(SUBSET Words)
  BY QueryAssumption DEF QueryInit
<1>3. QueryTypes
  BY <1>1, <1>2 DEF QueryInit, QueryTypes
<1>4. Evaluating /\ QueryAnswers
  BY DEF QueryInit, Evaluating, QueryAnswers
<1>5. QED  BY <1>3, <1>4 DEF QueryInv

LEMMA ParseKeeps == QueryInv /\ ParseExpr => QueryInv'
<1>. SUFFICES ASSUME QueryInv, ParseExpr PROVE QueryInv'
  OBVIOUS
<1>1. /\ query' \in Seq(Words \cup Operators)
      /\ file' = file /\ atEnd' = atEnd /\ result_list' = <<>>
      /\ \/ queryState' = "evaluating" /\ WellFormed(query') /\ commands' = query'
         \/ queryState' = "terminated"
  BY QueryAssumption DEF ParseExpr, Operators
<1>2. QueryTypes'
  BY <1>1 DEF QueryInv, QueryTypes
<1>3. Evaluating' /\ QueryAnswers'
  BY <1>1 DEF Evaluating, QueryAnswers, WellFormed
<1>4. QED  BY <1>2, <1>3 DEF QueryInv

(* The first word: its lines.                                              *)
LEMMA FirstKeeps ==
  ASSUME QueryInv, EvalCommand, commands = query, result_list = <<>>
  PROVE  QueryInv'
<1>1. /\ QueryTypes /\ WellFormed(query) /\ queryState = "evaluating"
      /\ query # <<>> /\ query \in Seq(Words \cup Operators)
  BY DEF QueryInv, QueryTypes, Evaluating, EvalCommand
<1>2. /\ Len(query) \div 2 \in Nat /\ Len(query) = 2 * (Len(query) \div 2) + 1
      /\ 1 \in 1..Len(query)
      /\ query[1] \notin Operators
  BY <1>1, QueryLength
<1>3. Head(commands) = query[1]
  BY <1>1, <1>2
<1>4. /\ result_list' = <<>> \o Occurs(query[1]) /\ commands' = Tail(query)
      /\ atEnd' = FALSE /\ UNCHANGED <<file, query, queryState>>
  BY <1>2, <1>3 DEF EvalCommand, Rewound, Operators
<1>5. Matching(0) = {k \in 1..Len(file) : query[1] \in file[k]}
  BY SatisfiesNext DEF Matching
<1>6. Occurs(query[1]) = InOrder(Matching(0))
  BY <1>1, <1>5 DEF Occurs, QueryTypes
<1>7. result_list' = InOrder(Matching(0))
  <2>. DEFINE c == Cardinality(Matching(0))
  <2>1. Matching(0) \in SUBSET (1..Len(file)) /\ Len(file) \in Nat
    BY <1>1 DEF Matching, QueryTypes
  <2>2. InOrder(Matching(0)) \in [1..c -> Matching(0)]
    BY <2>1, CanBeListed DEF InOrder, Ascending
  <2>3. c \in Nat
    <3>1. IsFiniteSet(1..Len(file))
      BY <2>1, FS_Interval
    <3>2. QED  BY <2>1, <3>1, FS_Subset, FS_CardinalityType
  <2>. HIDE DEF c
  <2>4. InOrder(Matching(0)) \in Seq(Matching(0))
    BY <2>2, <2>3
  <2>5. QED  BY <1>4, <1>6, <2>4, ConcatEmptySeq
<1>8. Tail(query) = SubSeq(query, 2 * 0 + 2, Len(query))
  BY <1>1, TailIsSubSeq
<1>9. Evaluating'
  <2>1. 0 \in 0..Len(query) \div 2
    BY <1>2
  <2>2. UNCHANGED Matching(0) /\ WellFormed(query)'
    BY <1>1, <1>4 DEF Matching, WellFormed
  <2>3. QED  BY <1>4, <1>7, <1>8, <2>1, <2>2 DEF Evaluating, Matching
<1>10. QueryTypes' /\ QueryAnswers'
  BY <1>1, <1>4 DEF QueryTypes, QueryAnswers
<1>11. QED  BY <1>9, <1>10 DEF QueryInv

(* An operator and the word after it: the lines of both, or of either.     *)
LEMMA NextKeeps ==
  ASSUME QueryInv, EvalCommand, NEW m \in 0..Len(query) \div 2,
         commands = SubSeq(query, 2 * m + 2, Len(query)),
         result_list = InOrder(Matching(m))
  PROVE  QueryInv'
<1>. DEFINE N == Len(query) \div 2
            op == query[2 * (m + 1)]
            word == query[2 * (m + 1) + 1]
<1>1. /\ QueryTypes /\ WellFormed(query) /\ queryState = "evaluating"
      /\ query \in Seq(Words \cup Operators) /\ commands # <<>>
  BY DEF QueryInv, QueryTypes, Evaluating, EvalCommand
<1>2. /\ N \in Nat /\ Len(query) = 2 * N + 1
      /\ \A k \in 1..Len(query) : query[k] \in Operators <=> k % 2 = 0
  BY <1>1, QueryLength
<1>. HIDE DEF N
<1>3. m \in 0..N /\ m + 1 \in 0..N /\ m \in Nat
  <2>1. m \in 0..N
    BY DEF N
  <2>2. m # N
    <3>1. SUFFICES ASSUME m = N PROVE FALSE
      OBVIOUS
    <3>2. 2 * m + 2 \in Int /\ Len(query) \in Int /\ Len(query) < 2 * m + 2
      BY <1>2, <3>1
    <3>3. QED  BY <1>1, <3>2, SubSeqEmpty
  <2>3. QED  BY <2>1, <2>2, <1>2
<1>4. /\ 2 * (m + 1) \in 1..Len(query) /\ 2 * (m + 1) + 1 \in 1..Len(query)
      /\ 2 * (m + 1) = 2 * m + 2
  BY <1>2, <1>3
<1>5. op \in Operators /\ word \notin Operators
  <2>1. (2 * (m + 1)) % 2 = 0
    BY <1>3
  <2>2. QED  BY <1>2, <1>4, <2>1
<1>6. /\ Head(commands) = op /\ commands[2] = word
      /\ Tail(Tail(commands)) = SubSeq(query, 2 * (m + 1) + 2, Len(query))
  <2>. DEFINE a == 2 * (m + 1)
              n == Len(query)
  <2>1. a \in 1..n /\ a + 1 \in 1..n /\ n \in a..n /\ n \in a+1..n
        /\ commands = SubSeq(query, a, n) /\ a + 1 + 1 = a + 2
    BY <1>4
  <2>. HIDE DEF a
  <2>2. Head(commands) = query[a] /\ Tail(commands) = SubSeq(query, a + 1, n)
    BY <1>1, <2>1, HeadTailOfSubSeq
  <2>3. Tail(SubSeq(query, a + 1, n)) = SubSeq(query, a + 1 + 1, n)
    BY <1>1, <2>1, HeadTailOfSubSeq
  <2>4. commands[2] = query[a + 1]
    <3>1. a \in Int /\ n \in Int /\ 2 \in 1..n-a+1 /\ a + 2 - 1 = a + 1
      BY <2>1
    <3>2. \A p \in a..n : query[p] \in Words \cup Operators
      <4>1. \A p \in a..n : p \in 1..n
        BY <2>1
      <4>2. QED  BY <1>1, <4>1, ElementOfSeq
    <3>3. \A p \in 1..n-a+1 : SubSeq(query, a, n)[p] = query[a + p - 1]
      BY <3>1, <3>2, SubSeqProperties
    <3>4. QED  BY <2>1, <3>1, <3>3
  <2>5. QED  BY <2>1, <2>2, <2>3, <2>4 DEF a
<1>. DEFINE found == {k \in 1..Len(file) : word \in file[k]}
<1>7. /\ result_list' = IF op = "&" THEN Both(result_list, Occurs(word))
                        ELSE Either(result_list, Occurs(word))
      /\ commands' = SubSeq(query, 2 * (m + 1) + 2, Len(query))
      /\ atEnd' = FALSE /\ UNCHANGED <<file, query, queryState>>
  <2>. HIDE DEF op, word
  <2>1. QED  BY <1>5, <1>6 DEF EvalCommand, Rewound, Operators
<1>8. Range(result_list) = Matching(m) /\ Range(Occurs(word)) = found
  <2>1. /\ Len(file) \in Nat /\ Matching(m) \in SUBSET (1..Len(file))
        /\ found \in SUBSET (1..Len(file))
    BY <1>1 DEF QueryTypes, Matching
  <2>2. Occurs(word) = InOrder(found)
    BY <1>1 DEF Occurs, QueryTypes
  <2>. HIDE DEF found, word
  <2>3. QED  BY <2>1, <2>2, InOrderLists
<1>9. Matching(m + 1) = IF op = "&" THEN Matching(m) \cap found ELSE Matching(m) \cup found
  <2>1. \A k \in 1..Len(file) :
          k \in Matching(m + 1) <=> IF op = "|" THEN k \in Matching(m) \/ k \in found
                                 ELSE k \in Matching(m) /\ (op = "&" => k \in found)
    BY <1>3, SatisfiesNext DEF Matching
  <2>2. \A k : k \in Matching(m) \/ k \in Matching(m + 1) \/ k \in found => k \in 1..Len(file)
    BY DEF Matching
  <2>3. op = "&" \/ op = "|"
    BY <1>5 DEF Operators
  <2>. HIDE DEF op, word, found
  <2>4. QED  BY <2>1, <2>2, <2>3
<1>10. result_list' = InOrder(Matching(m + 1))
  <2>. HIDE DEF op, word, found
  <2>1. QED  BY <1>7, <1>8, <1>9 DEF Both, Either
<1>11. Evaluating'
  <2>1. WellFormed(query)' /\ (Matching(m + 1))' = Matching(m + 1) /\ (Len(query) \div 2)' = N
    BY <1>1, <1>7 DEF WellFormed, Matching, N
  <2>2. QED  BY <1>3, <1>7, <1>10, <2>1 DEF Evaluating, N, Matching
<1>12. QueryTypes' /\ QueryAnswers'
  BY <1>1, <1>7 DEF QueryTypes, QueryAnswers
<1>13. QED  BY <1>11, <1>12 DEF QueryInv

(* The queue is empty when the last word has been answered.                *)
LEMMA PrintKeeps == QueryInv /\ PrintResults => QueryInv'
<1>. SUFFICES ASSUME QueryInv, PrintResults PROVE QueryInv'
  OBVIOUS
<1>. DEFINE N == Len(query) \div 2
<1>1. /\ QueryTypes /\ WellFormed(query) /\ commands = <<>>
      /\ queryState' = "answered" /\ UNCHANGED <<file, atEnd, query, result_list>>
  BY DEF QueryInv, QueryTypes, Evaluating, PrintResults
<1>2. N \in Nat /\ Len(query) = 2 * N + 1 /\ query \in Seq(Words \cup Operators)
  BY <1>1, QueryLength DEF QueryTypes
<1>3. result_list = InOrder(Matching(N))
  <2>1. \/ commands = query
        \/ \E m \in 0..N : /\ commands = SubSeq(query, 2 * m + 2, Len(query))
                           /\ result_list = InOrder(Matching(m))
    BY DEF QueryInv, Evaluating, PrintResults
  <2>. HIDE DEF N
  <2>2. commands # query
    BY <1>1, <1>2
  <2>3. ASSUME NEW m \in 0..N, commands = SubSeq(query, 2 * m + 2, Len(query))
        PROVE  m = N
    <3>. SUFFICES ASSUME m # N PROVE FALSE
      OBVIOUS
    <3>1. 2 * m + 2 \in Int /\ Len(query) \in Int /\ 2 * m + 2 <= Len(query)
          /\ 2 * m + 2 >= 1
      BY <1>2
    <3>2. \A p \in 2 * m + 2..Len(query) : p \in 1..Len(query)
      BY <3>1
    <3>3. \A p \in 2 * m + 2..Len(query) : query[p] \in Words \cup Operators
      BY <1>2, <3>2, ElementOfSeq
    <3>4. Len(commands) = Len(query) - (2 * m + 2) + 1
      BY <2>3, <3>1, <3>3, SubSeqProperties
    <3>5. QED  BY <1>1, <3>1, <3>4
  <2>4. QED  BY <2>1, <2>2, <2>3
<1>4. QueryAnswers'
  BY <1>1, <1>3 DEF QueryAnswers, Matching, Satisfies
<1>5. QueryTypes' /\ Evaluating'
  BY <1>1 DEF QueryTypes, Evaluating
<1>6. QED  BY <1>4, <1>5 DEF QueryInv

LEMMA QueryNextInv == QueryInv /\ [QueryNext]_queryVars => QueryInv'
<1>. SUFFICES ASSUME QueryInv, [QueryNext]_queryVars PROVE QueryInv'
  OBVIOUS
<1>1. CASE EvalCommand
  BY <1>1, FirstKeeps, NextKeeps DEF QueryInv, Evaluating, EvalCommand
<1>2. CASE UNCHANGED queryVars
  BY <1>2 DEF queryVars, QueryInv, QueryTypes, Evaluating, QueryAnswers, Matching,
              SatisfiesFirst, Satisfies, WellFormed
<1>3. QED  BY <1>1, <1>2, ParseKeeps, PrintKeeps DEF QueryNext

(* Each query is answered by just the lines that satisfy it, whatever the  *)
(* file, the query and the queries before it (tq.cpp:80-118): the stream   *)
(* is at its beginning again, and no command is left in the queue.         *)
THEOREM QueriesAreAnswered == QuerySpec => []QueryAnswers
<1>1. QueryInv => QueryAnswers
  BY DEF QueryInv
<1>2. QED  BY QueryInitInv, QueryNextInv, <1>1, PTL DEF QuerySpec

-----------------------------------------------------------------------------
(***************************************************************************)
(* The calculator answers the expressions of the grammar.  Where an        *)
(* expression begins, what is below it on the stack stays there, and what  *)
(* its characters put above comes to its value (Above): by induction over  *)
(* the depth of the grammar, from the turns of evalStack().                *)
(***************************************************************************)

(* A sequence, of whatever elements.                                       *)
IsSeq(s) == \E S : s \in Seq(S)

(* What Append, Front and \o do to such a sequence.                        *)
LEMMA SeqAppend ==
  ASSUME NEW s, IsSeq(s), NEW x
  PROVE  /\ IsSeq(Append(s, x)) /\ Len(s) \in Nat /\ Len(Append(s, x)) = Len(s) + 1
         /\ Last(Append(s, x)) = x /\ Front(Append(s, x)) = s
         /\ \A k \in 1..Len(s) : Append(s, x)[k] = s[k]
<1>1. PICK S : s \in Seq(S)
  BY DEF IsSeq
<1>. DEFINE T == S \cup {x}
<1>2. s \in Seq(T) /\ x \in T /\ Len(s) \in Nat
  <2>1. s \in [1..Len(s) -> S] /\ Len(s) \in Nat
    BY <1>1
  <2>2. s \in [1..Len(s) -> T]
    BY <2>1
  <2>3. QED  BY <2>1, <2>2
<1>. HIDE DEF T
<1>3. PICK t \in Seq(T) : t = Append(s, x)
  BY <1>2, AppendProperties
<1>4. /\ Len(t) = Len(s) + 1 /\ t[Len(t)] = x
      /\ \A k \in 1..Len(s) : t[k] = s[k]
  BY <1>2, <1>3, AppendProperties
<1>5. Last(t) = x
  BY <1>4 DEF Last
<1>6. Front(t) = s
  <2>1. \A k \in 1..Len(t)-1 : t[k] \in T
    BY <1>2, <1>4, ElementOfSeq
  <2>2. /\ SubSeq(t, 1, Len(t)-1) \in Seq(T)
        /\ Len(SubSeq(t, 1, Len(t)-1)) = Len(s)
        /\ \A k \in 1..Len(s) : SubSeq(t, 1, Len(t)-1)[k] = s[k]
    <3>1. /\ SubSeq(t, 1, Len(t)-1) \in Seq(T)
          /\ Len(SubSeq(t, 1, Len(t)-1)) = IF 1 <= Len(t)-1 THEN Len(t)-1-1+1 ELSE 0
          /\ \A k \in 1..Len(t)-1-1+1 : SubSeq(t, 1, Len(t)-1)[k] = t[1+k-1]
      BY <2>1, <1>2, <1>4, SubSeqProperties
    <3>2. QED  BY <1>2, <1>4, <3>1
  <2>3. SubSeq(t, 1, Len(t)-1) = s
    BY <1>2, <2>2, SeqEqual
  <2>4. QED  BY <2>3 DEF Front
<1>7. QED  BY <1>2, <1>3, <1>4, <1>5, <1>6 DEF IsSeq

LEMMA SeqFront ==
  ASSUME NEW s, IsSeq(s)
  PROVE  /\ IsSeq(Front(s)) /\ Len(s) \in Nat
         /\ Len(s) >= 1 => Len(Front(s)) = Len(s) - 1
         /\ Len(s) <= 1 => Front(s) = <<>>
<1>1. PICK S : s \in Seq(S)
  BY DEF IsSeq
<1>2. Len(s) \in Nat
  BY <1>1
<1>3. \A k \in 1..Len(s)-1 : s[k] \in S
  BY <1>1, <1>2, ElementOfSeq
<1>4. /\ SubSeq(s, 1, Len(s)-1) \in Seq(S)
      /\ Len(SubSeq(s, 1, Len(s)-1)) = IF 1 <= Len(s)-1 THEN Len(s)-1-1+1 ELSE 0
  BY <1>2, <1>3, SubSeqProperties
<1>5. Len(s) <= 1 => SubSeq(s, 1, Len(s)-1) = <<>>
  BY <1>2, SubSeqEmpty
<1>6. PICK t : t = SubSeq(s, 1, Len(s)-1)
  OBVIOUS
<1>7. /\ IsSeq(t) /\ Len(t) = (IF 1 <= Len(s)-1 THEN Len(s)-1-1+1 ELSE 0)
      /\ Len(s) <= 1 => t = <<>>
  BY <1>4, <1>5, <1>6 DEF IsSeq
<1>8. t = Front(s)
  BY <1>6 DEF Front
<1>9. QED  BY <1>2, <1>7, <1>8

LEMMA SeqNone == IsSeq(<<>>) /\ Len(<<>>) = 0
BY EmptySeq DEF IsSeq

LEMMA SeqJoin ==
  ASSUME NEW s, NEW t, IsSeq(s), IsSeq(t)
  PROVE  /\ IsSeq(s \o t) /\ Len(s \o t) = Len(s) + Len(t) /\ Len(s) \in Nat /\ Len(t) \in Nat
         /\ \A k \in 1..Len(s)+Len(t) : (s \o t)[k] = IF k <= Len(s) THEN s[k] ELSE t[k-Len(s)]
<1>1. PICK S : s \in Seq(S)
  BY DEF IsSeq
<1>2. PICK T : t \in Seq(T)
  BY DEF IsSeq
<1>3. s \in Seq(S \cup T) /\ t \in Seq(S \cup T)
  <2>1. s \in [1..Len(s) -> S \cup T] /\ Len(s) \in Nat
    BY <1>1
  <2>2. t \in [1..Len(t) -> S \cup T] /\ Len(t) \in Nat
    BY <1>2
  <2>3. QED  BY <2>1, <2>2
<1>4. s \o t \in Seq(S \cup T)
  BY <1>3, ConcatProperties
<1>5. QED  BY <1>3, <1>4, ConcatProperties, LenProperties DEF IsSeq

LEMMA SeqOne ==
  ASSUME NEW x
  PROVE  IsSeq(<<x>>) /\ Len(<<x>>) = 1 /\ <<x>>[1] = x
<1>1. <<x>> \in Seq({x})
  OBVIOUS
<1>2. QED  BY <1>1 DEF IsSeq

-----------------------------------------------------------------------------
Start(x, p) == Loop(x, p, "looping")

(* n turns of the loop of evalStack() ...                                  *)
Turns(f, n) == \A k \in 1..n : f[k] = Turn(f[k-1])

(* ... and m of them lead from c to d.                                     *)
Leads(c, d, m) ==
  \A f : \A n, k \in Nat : Turns(f, n) /\ k + m <= n /\ f[k] = c => f[k+m] = d

(* The loop, which exists ...                                              *)
LEMMA TurnsExist ==
  ASSUME NEW c, NEW n \in Nat
  PROVE  \E f : f = [k \in 0..n |-> IF k = 0 THEN c ELSE Turn(f[k-1])]
<1>. DEFINE T == {m \in 0..n : \E f : f = [k \in 0..m |-> IF k = 0 THEN c ELSE Turn(f[k-1])]}
<1>1. 0 \in T
  <2>. DEFINE f == [k \in 0..0 |-> c]
  <2>1. f = [k \in 0..0 |-> IF k = 0 THEN c ELSE Turn(f[k-1])]
    OBVIOUS
  <2>. HIDE DEF f
  <2>2. \E g : g = [k \in 0..0 |-> IF k = 0 THEN c ELSE Turn(g[k-1])]
    BY <2>1
  <2>3. QED  BY <2>2
<1>2. ASSUME NEW m \in 1..n, m - 1 \in T PROVE m \in T
  <2>1. PICK f : f = [k \in 0..m-1 |-> IF k = 0 THEN c ELSE Turn(f[k-1])]
    BY <1>2
  <2>. DEFINE g == [k \in 0..m |-> IF k = m THEN Turn(f[m-1]) ELSE f[k]]
  <2>2. \A k \in 0..m : g[k] = IF k = 0 THEN c ELSE Turn(g[k-1])
    <3>1. g[m] = Turn(g[m-1])
      OBVIOUS
    <3>2. ASSUME NEW k \in 0..m-1 PROVE g[k] = IF k = 0 THEN c ELSE Turn(g[k-1])
      <4>1. g[k] = f[k] /\ (k # 0 => g[k-1] = f[k-1])
        OBVIOUS
      <4>2. f[k] = IF k = 0 THEN c ELSE Turn(f[k-1])
        BY <2>1
      <4>3. QED  BY <4>1, <4>2
    <3>. HIDE DEF g
    <3>3. QED  BY <3>1, <3>2
  <2>3. g = [k \in 0..m |-> g[k]]
    OBVIOUS
  <2>. HIDE DEF g
  <2>4. g = [k \in 0..m |-> IF k = 0 THEN c ELSE Turn(g[k-1])]
    BY <2>2, <2>3
  <2>5. QED  BY <2>4
<1>. HIDE DEF T
<1>3. \A m \in 0..n : m \in T
  BY <1>1, <1>2, InductionUpTo
<1>4. QED  BY <1>3 DEF T

(* ... is the one whose last turn evalStack() returns.                     *)
LEMMA EvalStackTurns ==
  ASSUME NEW x, IsSeq(x), Len(x) >= 3
  PROVE  \E f : /\ f[0] = Start(x, FALSE) /\ Turns(f, Len(x))
                /\ evalStack(x) = Stack(f[Len(x)].stack, f[Len(x)].outcome)
<1>. DEFINE turns == CHOOSE f : f = [k \in 0..Len(x) |-> IF k = 0 THEN Start(x, FALSE)
                                                         ELSE Turn(f[k-1])]
<1>1. Len(x) \in Nat
  BY SeqFront
<1>2. turns = [k \in 0..Len(x) |-> IF k = 0 THEN Start(x, FALSE) ELSE Turn(turns[k-1])]
  <2>1. \E f : f = [k \in 0..Len(x) |-> IF k = 0 THEN Start(x, FALSE) ELSE Turn(f[k-1])]
    BY <1>1, TurnsExist
  <2>2. QED  BY <2>1, Zenon
<1>3. evalStack(x) = Stack(turns[Len(x)].stack, turns[Len(x)].outcome)
  <2>1. ~(Len(x) < 3)
    BY <1>1
  <2>2. QED  BY <2>1 DEF evalStack, Start
<1>. HIDE DEF turns
<1>4. turns[0] = Start(x, FALSE) /\ Turns(turns, Len(x))
  <2>1. \A k \in 0..Len(x) : turns[k] = IF k = 0 THEN Start(x, FALSE) ELSE Turn(turns[k-1])
    BY <1>2, Zenon
  <2>2. \A k \in 1..Len(x) : k \in 0..Len(x) /\ k # 0
    BY <1>1
  <2>3. turns[0] = Start(x, FALSE)
    <3>1. 0 \in 0..Len(x)
      BY <1>1
    <3>2. QED  BY <2>1, <3>1, Zenon
  <2>4. ASSUME NEW k \in 1..Len(x) PROVE turns[k] = Turn(turns[k-1])
    BY <2>1, <2>2
  <2>5. QED  BY <2>3, <2>4 DEF Turns
<1>5. QED  BY <1>3, <1>4

(* Turns after turns.                                                      *)
LEMMA LeadsAgain ==
  ASSUME NEW c, NEW d, NEW e, NEW m1 \in Nat, NEW m2 \in Nat,
         Leads(c, d, m1), Leads(d, e, m2)
  PROVE  Leads(c, e, m1 + m2)
<1>. SUFFICES ASSUME NEW f, NEW n \in Nat, NEW k \in Nat, Turns(f, n), k + (m1 + m2) <= n, f[k] = c
              PROVE  f[k + (m1 + m2)] = e
  BY DEF Leads
<1>1. k + m1 \in Nat /\ k + m1 <= n /\ (k + m1) + m2 <= n /\ (k + m1) + m2 = k + (m1 + m2)
  OBVIOUS
<1>2. f[k + m1] = d
  BY <1>1 DEF Leads
<1>3. f[(k + m1) + m2] = e
  BY <1>1, <1>2 DEF Leads
<1>4. QED  BY <1>1, <1>3

LEMMA LeadsNowhere ==
  ASSUME NEW c
  PROVE  Leads(c, c, 0)
<1>1. \A k \in Nat : k + 0 = k
  OBVIOUS
<1>2. QED  BY <1>1 DEF Leads

LEMMA LeadsOnce ==
  ASSUME NEW c
  PROVE  Leads(c, Turn(c), 1)
<1>. SUFFICES ASSUME NEW f, NEW n \in Nat, NEW k \in Nat, Turns(f, n), k + 1 <= n, f[k] = c
              PROVE  f[k + 1] = Turn(c)
  BY DEF Leads
<1>1. k + 1 \in 1..n /\ (k + 1) - 1 = k
  OBVIOUS
<1>2. QED  BY <1>1 DEF Turns

(* Once the loop has ended its result stays.                               *)
LEMMA EndStays ==
  ASSUME NEW f, NEW n \in Nat, NEW k \in 0..n, Turns(f, n), f[k].outcome # "looping"
  PROVE  f[n] = f[k]
<1>. DEFINE T == {m \in 0..n : m >= k => f[m] = f[k]}
<1>1. 0 \in T
  OBVIOUS
<1>2. ASSUME NEW m \in 1..n, m - 1 \in T PROVE m \in T
  <2>1. CASE m - 1 >= k
    <3>1. f[m-1] = f[k]
      BY <1>2, <2>1
    <3>2. f[m] = f[m-1]
      BY <3>1 DEF Turns, Turn
    <3>3. QED  BY <3>1, <3>2
  <2>2. CASE ~(m - 1 >= k)
    BY <2>2
  <2>3. QED  BY <2>1, <2>2
<1>. HIDE DEF T
<1>3. n \in T
  BY <1>1, <1>2, InductionUpTo
<1>4. QED  BY <1>3 DEF T

(* One operation is worked out.                                            *)
LEMMA TurnWorksOut ==
  ASSUME NEW u, IsSeq(u), NEW type \in {"ADD", "SUB", "MULTI", "DIV"}, NEW l, NEW r, NEW p
  PROVE  Turn(Start(Append(Append(Append(u, Value(l)), Symbol(type)), Value(r)), p))
           = Start(Append(u, Value(<<type, l, r>>)), p)
<1>. DEFINE u1 == Append(u, Value(l))
            u2 == Append(u1, Symbol(type))
            u3 == Append(u2, Value(r))
<1>1. /\ IsSeq(u1) /\ Len(u1) = Len(u) + 1 /\ Len(u) \in Nat
      /\ Last(u1) = Value(l) /\ Front(u1) = u
  BY SeqAppend
<1>. HIDE DEF u1
<1>2. /\ IsSeq(u2) /\ Len(u2) = Len(u1) + 1
      /\ Last(u2) = Symbol(type) /\ Front(u2) = u1
  BY <1>1, SeqAppend
<1>. HIDE DEF u2
<1>3. /\ Len(u3) = Len(u2) + 1
      /\ Last(u3) = Value(r) /\ Front(u3) = u2
  BY <1>2, SeqAppend
<1>. HIDE DEF u3
<1>4. /\ Value(r).type = "VALUE" /\ Value(r).value = r /\ Value(l).value = l
      /\ Symbol(type).type = type
  BY DEF Value, Symbol
<1>5. ~(Len(u3) <= 1) /\ Len(u2) # 1
  BY <1>1, <1>2, <1>3
<1>6. Start(u3, p).stack = u3 /\ Start(u3, p).outcome = "looping" /\ Start(u3, p).parenthing = p
  BY DEF Start, Loop
<1>7. Turn(Start(u3, p)) = Start(Append(u, Value(<<type, l, r>>)), p)
  BY <1>1, <1>2, <1>3, <1>4, <1>5, <1>6 DEF Turn, Start
<1>8. QED  BY <1>7 DEF u3, u2, u1

-----------------------------------------------------------------------------
(* What is on the stack above s comes to a value t: the loop, if it gets   *)
(* there, leaves Value(t) in its place, in fewer turns than it has         *)
(* elements.                                                               *)
Above(s, x, t) ==
  /\ IsSeq(s) /\ IsSeq(x)
  /\ x = Append(s, Value(t)) \/ Len(x) >= Len(s) + 3
  /\ \A p \in BOOLEAN : \E m \in Nat :
       m + Len(s) + 1 <= Len(x) /\ Leads(Start(x, p), Start(Append(s, Value(t)), p), m)

LEMMA AboveLength ==
  ASSUME NEW s, NEW x, NEW t, Above(s, x, t)
  PROVE  Len(s) \in Nat /\ Len(x) \in Nat /\ Len(x) >= Len(s) + 1
<1>1. Len(s) \in Nat /\ Len(x) \in Nat
  BY SeqFront DEF Above
<1>2. Len(Append(s, Value(t))) = Len(s) + 1
  BY SeqAppend DEF Above
<1>3. QED  BY <1>1, <1>2 DEF Above

(* A value is what it comes to, and so is an operation between a value and *)
(* what comes to one.                                                      *)
LEMMA AboveValue ==
  ASSUME NEW s, IsSeq(s), NEW t
  PROVE  Above(s, Append(s, Value(t)), t)
<1>. DEFINE x == Append(s, Value(t))
<1>1. IsSeq(x) /\ Len(x) = Len(s) + 1 /\ Len(s) \in Nat
  BY SeqAppend
<1>2. \A p \in BOOLEAN : Leads(Start(x, p), Start(x, p), 0)
  BY LeadsNowhere
<1>3. 0 \in Nat /\ 0 + Len(s) + 1 <= Len(x)
  BY <1>1
<1>4. QED  BY <1>1, <1>2, <1>3 DEF Above

LEMMA AboveOperation ==
  ASSUME NEW s, IsSeq(s), NEW type \in {"ADD", "SUB", "MULTI", "DIV"}, NEW l, NEW r, NEW x,
         Above(Append(Append(s, Value(l)), Symbol(type)), x, r)
  PROVE  Above(s, x, <<type, l, r>>)
<1>. DEFINE s2 == Append(Append(s, Value(l)), Symbol(type))
            t == <<type, l, r>>
<1>1. IsSeq(Append(s, Value(l))) /\ Len(Append(s, Value(l))) = Len(s) + 1 /\ Len(s) \in Nat
  BY SeqAppend
<1>2. Len(s2) = Len(s) + 2
  BY <1>1, SeqAppend
<1>3. Len(x) \in Nat /\ Len(x) >= Len(s2) + 1
  BY AboveLength
<1>4. ASSUME NEW p \in BOOLEAN
      PROVE  \E m \in Nat : m + Len(s) + 1 <= Len(x)
                /\ Leads(Start(x, p), Start(Append(s, Value(t)), p), m)
  <2>1. PICK m \in Nat : /\ m + Len(s2) + 1 <= Len(x)
                        /\ Leads(Start(x, p), Start(Append(s2, Value(r)), p), m)
    BY DEF Above
  <2>2. Leads(Start(Append(s2, Value(r)), p), Start(Append(s, Value(t)), p), 1)
    <3>1. Turn(Start(Append(s2, Value(r)), p)) = Start(Append(s, Value(t)), p)
      BY TurnWorksOut
    <3>2. QED  BY <3>1, LeadsOnce
  <2>3. Leads(Start(x, p), Start(Append(s, Value(t)), p), m + 1)
    <3>. HIDE DEF s2, t
    <3>1. 1 \in Nat
      OBVIOUS
    <3>2. QED  BY <2>1, <2>2, <3>1, LeadsAgain
  <2>4. m + 1 \in Nat /\ (m + 1) + Len(s) + 1 <= Len(x)
    BY <1>1, <1>2, <1>3, <2>1
  <2>5. QED  BY <2>3, <2>4
<1>5. Len(x) >= Len(s) + 3
  BY <1>1, <1>2, <1>3
<1>6. IsSeq(x)
  BY DEF Above
<1>7. QED  BY <1>4, <1>5, <1>6 DEF Above

(* Where an expression may begin: on an empty stack, or after "(".         *)
Base(s) == s = <<>> \/ \E u : IsSeq(u) /\ s = Append(u, Symbol("LEFT_PARENTH"))

(* evalStack() puts the value in the place of what is above s ...          *)
LEMMA EvalStackAbove ==
  ASSUME NEW s, NEW x, NEW t, Above(s, x, t), Base(s)
  PROVE  evalStack(x) = Stack(Append(s, Value(t)), "reading")
<1>. DEFINE y == Append(s, Value(t))
<1>1. /\ IsSeq(s) /\ IsSeq(x) /\ Len(s) \in Nat /\ Len(x) \in Nat /\ Len(x) >= Len(s) + 1
  BY AboveLength DEF Above
<1>2. Len(y) = Len(s) + 1 /\ Last(y) = Value(t) /\ Front(y) = s
  BY <1>1, SeqAppend
<1>3. CASE Len(x) < 3
  <2>1. x = y
    BY <1>1, <1>3 DEF Above
  <2>2. QED  BY <1>3, <2>1 DEF evalStack
<1>4. CASE Len(x) >= 3
  <2>1. PICK f : /\ f[0] = Start(x, FALSE) /\ Turns(f, Len(x))
                 /\ evalStack(x) = Stack(f[Len(x)].stack, f[Len(x)].outcome)
    BY <1>1, <1>4, EvalStackTurns
  <2>2. PICK m \in Nat : m + Len(s) + 1 <= Len(x) /\ Leads(Start(x, FALSE), Start(y, FALSE), m)
    BY DEF Above
  <2>3. m \in 0..Len(x) /\ m + 1 \in 1..Len(x) /\ (m + 1) - 1 = m /\ 0 + m = m /\ 0 + m <= Len(x)
    BY <1>1, <2>2
  <2>4. f[m] = Start(y, FALSE)
    <3>1. f[0 + m] = Start(y, FALSE)
      BY <1>1, <2>1, <2>2, <2>3 DEF Leads
    <3>2. QED  BY <2>3, <3>1
  <2>5. f[m + 1] = Turn(Start(y, FALSE))
    BY <2>1, <2>3, <2>4 DEF Turns
  <2>6. Turn(Start(y, FALSE)) = Loop(y, FALSE, "reading")
    <3>. HIDE DEF y
    <3>0. /\ Start(y, FALSE).stack = y /\ Start(y, FALSE).outcome = "looping"
          /\ Start(y, FALSE).parenthing = FALSE
      BY DEF Start, Loop
    <3>1. CASE s = <<>>
      <4>1. Len(y) <= 1
        BY <1>2, <3>1, SeqNone
      <4>2. QED  BY <3>0, <4>1 DEF Turn
    <3>2. CASE s # <<>>
      <4>1. PICK u : IsSeq(u) /\ s = Append(u, Symbol("LEFT_PARENTH"))
        BY <3>2 DEF Base
      <4>2. Last(s) = Symbol("LEFT_PARENTH") /\ Len(s) = Len(u) + 1 /\ Len(u) \in Nat
        BY <4>1, SeqAppend
      <4>3. ~(Len(y) <= 1)
        BY <1>2, <4>2
      <4>4. /\ Value(t).type = "VALUE" /\ Symbol("LEFT_PARENTH").type = "LEFT_PARENTH"
            /\ y = Append(s, Value(t))
        BY DEF Value, Symbol, y
      <4>5. QED  BY <1>2, <3>0, <4>2, <4>3, <4>4 DEF Turn
    <3>3. QED  BY <3>1, <3>2
  <2>7. Loop(y, FALSE, "reading").stack = y /\ Loop(y, FALSE, "reading").outcome = "reading"
    BY DEF Loop
  <2>8. f[Len(x)] = Loop(y, FALSE, "reading")
    <3>1. f[m + 1].outcome # "looping"
      BY <2>5, <2>6, <2>7
    <3>2. m + 1 \in 0..Len(x)
      BY <1>1, <2>3
    <3>3. f[Len(x)] = f[m + 1]
      BY <1>1, <2>1, <3>1, <3>2, EndStays
    <3>4. QED  BY <2>5, <2>6, <3>3
  <2>9. QED  BY <2>1, <2>7, <2>8
<1>5. QED  BY <1>1, <1>3, <1>4

(* ... and, at a ")", in the place of the "(" as well.                     *)
LEMMA EvalStackParenth ==
  ASSUME NEW s, IsSeq(s), NEW x, NEW t,
         Above(Append(s, Symbol("LEFT_PARENTH")), x, t)
  PROVE  evalStack(Append(x, Symbol("RIGHT_PARENTH"))) = Stack(Append(s, Value(t)), "reading")
<1>. DEFINE s2 == Append(s, Symbol("LEFT_PARENTH"))
            y == Append(s2, Value(t))
            z == Append(x, Symbol("RIGHT_PARENTH"))
<1>1. /\ IsSeq(s2) /\ Len(s2) = Len(s) + 1 /\ Len(s) \in Nat
      /\ Last(s2) = Symbol("LEFT_PARENTH") /\ Front(s2) = s
  BY SeqAppend
<1>2. Len(y) = Len(s2) + 1 /\ Last(y) = Value(t) /\ Front(y) = s2
  BY <1>1, SeqAppend
<1>3. IsSeq(x) /\ Len(x) \in Nat /\ Len(x) >= Len(s2) + 1
  BY AboveLength DEF Above
<1>4. IsSeq(z) /\ Len(z) = Len(x) + 1 /\ Last(z) = Symbol("RIGHT_PARENTH") /\ Front(z) = x
  BY <1>3, SeqAppend
<1>5. PICK m \in Nat : m + Len(s2) + 1 <= Len(x) /\ Leads(Start(x, TRUE), Start(y, TRUE), m)
  BY DEF Above
<1>. HIDE DEF s2, y, z
<1>6. Len(z) >= 3 /\ Len(z) \in Nat
  BY <1>1, <1>3, <1>4
<1>7. PICK f : /\ f[0] = Start(z, FALSE) /\ Turns(f, Len(z))
               /\ evalStack(z) = Stack(f[Len(z)].stack, f[Len(z)].outcome)
  BY <1>4, <1>6, EvalStackTurns
<1>8. \A v, p : /\ Start(v, p).stack = v /\ Start(v, p).outcome = "looping"
                /\ Start(v, p).parenthing = p
  BY DEF Start, Loop
<1>9. \A type : Symbol(type).type = type
  BY DEF Symbol
<1>10. Turn(Start(z, FALSE)) = Start(x, TRUE)
  <2>1. ~(Len(z) <= 1)
    BY <1>6
  <2>2. /\ Start(z, FALSE).stack = z /\ Start(z, FALSE).outcome = "looping"
        /\ Symbol("RIGHT_PARENTH").type = "RIGHT_PARENTH"
    BY <1>8, <1>9
  <2>3. QED  BY <1>4, <2>1, <2>2 DEF Turn, Start
<1>11. Leads(Start(z, FALSE), Start(y, TRUE), 1 + m)
  BY <1>5, <1>10, LeadsOnce, LeadsAgain
<1>12. /\ 1 + m \in Nat /\ 0 + (1 + m) <= Len(z) /\ 0 + (1 + m) = m + 1
       /\ m + 2 \in 1..Len(z) /\ (m + 2) - 1 = m + 1
  BY <1>1, <1>3, <1>4, <1>5
<1>13. f[m + 1] = Start(y, TRUE)
  <2>1. f[0 + (1 + m)] = Start(y, TRUE)
    BY <1>6, <1>7, <1>11, <1>12 DEF Leads
  <2>2. QED  BY <1>12, <2>1
<1>14. f[m + 2] = Turn(Start(y, TRUE))
  BY <1>7, <1>12, <1>13 DEF Turns
<1>15. Turn(Start(y, TRUE)) = Loop(Append(s, Value(t)), FALSE, "reading")
  <2>1. ~(Len(y) <= 1)
    BY <1>1, <1>2
  <2>2. Value(t).type = "VALUE"
    BY DEF Value
  <2>3. /\ Start(y, TRUE).stack = y /\ Start(y, TRUE).outcome = "looping"
        /\ Start(y, TRUE).parenthing = TRUE
        /\ Symbol("LEFT_PARENTH").type = "LEFT_PARENTH"
    BY <1>8, <1>9
  <2>4. QED  BY <1>1, <1>2, <2>1, <2>2, <2>3 DEF Turn
<1>16. \A v : Loop(v, FALSE, "reading").stack = v /\ Loop(v, FALSE, "reading").outcome = "reading"
  BY DEF Loop
<1>17. f[Len(z)] = Loop(Append(s, Value(t)), FALSE, "reading")
  <2>1. f[m + 2].outcome # "looping"
    BY <1>14, <1>15, <1>16
  <2>2. m + 2 \in 0..Len(z)
    BY <1>6, <1>12
  <2>3. f[Len(z)] = f[m + 2]
    BY <1>6, <1>7, <2>1, <2>2, EndStays
  <2>4. QED  BY <1>14, <1>15, <2>3
<1>18. QED  BY <1>7, <1>16, <1>17 DEF z

-----------------------------------------------------------------------------
(* What eval() keeps between two characters.                               *)
Conf(stack, digits) == [stack |-> stack, digits |-> digits]

(* In c the character ch is read without an error, and d is the result ... *)
ReadOne(c, ch, d) ==
  \/ /\ parseElem(ch) = "NUMBER" /\ Len(c.digits) # BufferSize
     /\ d = Conf(c.stack, Append(c.digits, ch))
  \/ /\ parseElem(ch) \notin {"NUMBER", "UNKNOW"}
     /\ \E x, y : /\ evalNumber(c.stack, c.digits) = Stack(x, "reading")
                  /\ Pushed(parseElem(ch), x) = Stack(y, "reading")
                  /\ d = Conf(y, <<>>)

(* ... and so are the characters chars, one after another.                 *)
Trace(f, chars) == \A k \in 1..Len(chars) : ReadOne(f[k-1], chars[k], f[k])

Reads(c, chars, d) ==
  IsSeq(chars) /\ \E f : f[0] = c /\ f[Len(chars)] = d /\ Trace(f, chars)

LEMMA ReadsOne ==
  ASSUME NEW c, NEW ch, NEW d, ReadOne(c, ch, d)
  PROVE  Reads(c, <<ch>>, d)
<1>. DEFINE f == [k \in 0..1 |-> IF k = 0 THEN c ELSE d]
<1>1. IsSeq(<<ch>>) /\ Len(<<ch>>) = 1 /\ <<ch>>[1] = ch
  BY SeqOne
<1>2. f[0] = c /\ f[1] = d
  OBVIOUS
<1>3. Trace(f, <<ch>>)
  <2>. SUFFICES ASSUME NEW k \in 1..1 PROVE ReadOne(f[k-1], <<ch>>[k], f[k])
    BY <1>1 DEF Trace
  <2>1. k = 1 /\ k - 1 = 0
    OBVIOUS
  <2>2. QED  BY <1>1, <1>2, <2>1
<1>. HIDE DEF f
<1>4. QED  BY <1>1, <1>2, <1>3 DEF Reads

LEMMA ReadsMore ==
  ASSUME NEW c, NEW d, NEW e, NEW a, NEW b, Reads(c, a, d), Reads(d, b, e)
  PROVE  Reads(c, a \o b, e)
<1>1. PICK f : f[0] = c /\ f[Len(a)] = d /\ Trace(f, a)
  BY DEF Reads
<1>2. PICK g : g[0] = d /\ g[Len(b)] = e /\ Trace(g, b)
  BY DEF Reads
<1>3. PICK w : w = a \o b
  OBVIOUS
<1>4. /\ IsSeq(w) /\ Len(w) = Len(a) + Len(b) /\ Len(a) \in Nat /\ Len(b) \in Nat
      /\ \A k \in 1..Len(a)+Len(b) : w[k] = IF k <= Len(a) THEN a[k] ELSE b[k-Len(a)]
  BY <1>3, SeqJoin DEF Reads
<1>. DEFINE h == [k \in 0..Len(w) |-> IF k <= Len(a) THEN f[k] ELSE g[k-Len(a)]]
<1>5. /\ \A k \in 0..Len(a) : h[k] = f[k]
      /\ \A k \in Len(a)+1..Len(w) : h[k] = g[k-Len(a)]
  BY <1>4
<1>. HIDE DEF h
<1>6. h[0] = c
  BY <1>1, <1>4, <1>5
<1>7. h[Len(w)] = e
  <2>1. CASE Len(b) = 0
    BY <1>1, <1>2, <1>4, <1>5, <2>1
  <2>2. CASE Len(b) # 0
    <3>1. Len(w) \in Len(a)+1..Len(w) /\ Len(w) - Len(a) = Len(b)
      BY <1>4, <2>2
    <3>2. QED  BY <1>2, <1>5, <3>1
  <2>3. QED  BY <2>1, <2>2
<1>8. ASSUME NEW k \in 1..Len(w) PROVE ReadOne(h[k-1], w[k], h[k])
  <2>1. CASE k <= Len(a)
    <3>1. k \in 1..Len(a) /\ k - 1 \in 0..Len(a) /\ k \in 0..Len(a) /\ w[k] = a[k]
      BY <1>4, <2>1
    <3>2. ReadOne(f[k-1], a[k], f[k])
      BY <1>1, <3>1 DEF Trace
    <3>3. QED  BY <1>5, <3>1, <3>2
  <2>2. CASE ~(k <= Len(a))
    <3>1. PICK m : m = k - Len(a)
      OBVIOUS
    <3>2. /\ m \in 1..Len(b) /\ k \in Len(a)+1..Len(w) /\ w[k] = b[m]
      BY <1>4, <2>2, <3>1
    <3>3. h[k] = g[m]
      BY <1>5, <3>1, <3>2
    <3>4. h[k-1] = g[m-1]
      <4>1. CASE k - 1 = Len(a)
        <5>1. m - 1 = 0 /\ k - 1 \in 0..Len(a)
          BY <1>4, <3>1, <4>1
        <5>2. QED  BY <1>1, <1>2, <1>5, <4>1, <5>1
      <4>2. CASE k - 1 # Len(a)
        <5>1. k - 1 \in Len(a)+1..Len(w) /\ (k - 1) - Len(a) = m - 1
          BY <1>4, <2>2, <3>1, <4>2
        <5>2. QED  BY <1>5, <5>1
      <4>3. QED  BY <4>1, <4>2
    <3>5. ReadOne(g[m-1], b[m], g[m])
      BY <1>2, <3>2 DEF Trace
    <3>6. QED  BY <3>2, <3>3, <3>4, <3>5
  <2>3. QED  BY <2>1, <2>2
<1>9. Trace(h, w)
  BY <1>8 DEF Trace
<1>10. Reads(c, w, e)
  BY <1>4, <1>6, <1>7, <1>9 DEF Reads
<1>11. QED  BY <1>3, <1>10

(* What the stack will be once the number in the buffer is on it.          *)
Settles(c, x) == evalNumber(c.stack, c.digits) = Stack(x, "reading")

LEMMA SettlesAtOnce == \A s : Settles(Conf(s, <<>>), s)
BY DEF Settles, Conf, evalNumber

LEMMA ReadSymbolThere ==
  ASSUME NEW c, NEW ch, NEW x, NEW y, Settles(c, x),
         parseElem(ch) \notin {"NUMBER", "UNKNOW"},
         Pushed(parseElem(ch), x) = Stack(y, "reading")
  PROVE  Reads(c, <<ch>>, Conf(y, <<>>))
<1>1. ReadOne(c, ch, Conf(y, <<>>))
  BY DEF ReadOne, Settles
<1>2. QED  BY <1>1, ReadsOne

(* The expression e is read, from any stack, as its term: a factor ends as *)
(* one value; a product may end as values that have still to be worked     *)
(* out; and so may a sum, if it begins where an expression may.            *)
FactorRead(e) ==
  \A s : IsSeq(s) =>
    \E c : Reads(Conf(s, <<>>), e.chars, c) /\ Settles(c, Append(s, Value(e.term)))

ProductRead(e) ==
  \A s : IsSeq(s) =>
    \E c, x : Reads(Conf(s, <<>>), e.chars, c) /\ Settles(c, x) /\ Above(s, x, e.term)

SumRead(e) ==
  \A s : IsSeq(s) /\ Base(s) =>
    \E c, x : Reads(Conf(s, <<>>), e.chars, c) /\ Settles(c, x) /\ Above(s, x, e.term)

(* One lemma for each way an expression of the grammar is made.            *)
LEMMA NumberRead ==
  ASSUME NEW d \in Numbers
  PROVE  FactorRead(Number(d))
<1>1. PICK n \in 1..IntDigits : d \in [1..n -> OfType({"NUMBER"})]
  BY DEF Numbers
<1>2. Len(d) < BufferSize
  BY DEF Numbers
<1>3. n \in Nat /\ n >= 1 /\ n <= IntDigits /\ IntDigits \in Nat /\ BufferSize \in Nat
  BY CalAssumption
<1>4. d \in Seq(OfType({"NUMBER"})) /\ Len(d) = n
  BY <1>1, <1>3
<1>5. IsSeq(d)
  BY <1>4 DEF IsSeq
<1>6. \A k \in 1..n : parseElem(d[k]) = "NUMBER"
  BY <1>1 DEF OfType
<1>. SUFFICES ASSUME NEW s, IsSeq(s)
              PROVE  \E c : Reads(Conf(s, <<>>), d, c) /\ Settles(c, Append(s, Value(d)))
  BY DEF FactorRead, Number
<1>. DEFINE f == [k \in 0..n |-> Conf(s, SubSeq(d, 1, k))]
<1>7. f[0] = Conf(s, <<>>)
  <2>1. SubSeq(d, 1, 0) = <<>>
    BY SubSeqEmpty
  <2>2. 0 \in 0..n
    BY <1>3
  <2>3. f[0] = Conf(s, SubSeq(d, 1, 0))
    BY <2>2, Zenon
  <2>4. QED  BY <2>1, <2>3, Zenon
<1>8. f[n] = Conf(s, d)
  <2>1. SubSeq(d, 1, Len(d)) = d
    BY <1>4, SubSeqFull
  <2>2. n \in 0..n
    BY <1>3
  <2>3. f[n] = Conf(s, SubSeq(d, 1, n))
    BY <2>2, Zenon
  <2>4. QED  BY <1>4, <2>1, <2>3, Zenon
<1>9. ASSUME NEW k \in 1..n PROVE ReadOne(f[k-1], d[k], f[k])
  <2>1. /\ f[k-1] = Conf(s, SubSeq(d, 1, k-1)) /\ f[k] = Conf(s, SubSeq(d, 1, k))
    BY <1>3
  <2>2. SubSeq(d, 1, k) = Append(SubSeq(d, 1, k-1), d[k])
    BY <1>4, <1>3
  <2>3. Len(SubSeq(d, 1, k-1)) = k - 1
    <3>1. \A l \in 1..k-1 : d[l] \in OfType({"NUMBER"})
      BY <1>1, <1>3
    <3>2. Len(SubSeq(d, 1, k-1)) = IF 1 <= k-1 THEN k-1-1+1 ELSE 0
      BY <1>3, <3>1, SubSeqProperties
    <3>3. QED  BY <1>3, <3>2
  <2>4. k - 1 # BufferSize
    BY <1>2, <1>3, <1>4
  <2>. HIDE DEF f
  <2>5. f[k-1].digits = SubSeq(d, 1, k-1) /\ f[k-1].stack = s
    BY <2>1 DEF Conf
  <2>6. QED  BY <1>6, <2>1, <2>2, <2>3, <2>4, <2>5 DEF ReadOne
<1>. HIDE DEF f
<1>10. Reads(Conf(s, <<>>), d, Conf(s, d))
  BY <1>4, <1>5, <1>7, <1>8, <1>9 DEF Reads, Trace
<1>11. Settles(Conf(s, d), Append(s, Value(d)))
  <2>1. d # <<>> /\ ~(Len(d) >= BufferSize) /\ ~(Len(d) > IntDigits)
    BY <1>2, <1>3, <1>4
  <2>2. Conf(s, d).stack = s /\ Conf(s, d).digits = d
    BY DEF Conf
  <2>3. QED  BY <2>1, <2>2 DEF Settles, evalNumber
<1>12. QED  BY <1>10, <1>11

LEMMA BracketedRead ==
  ASSUME NEW e, SumRead(e)
  PROVE  FactorRead(Bracketed(e))
<1>. SUFFICES ASSUME NEW s, IsSeq(s)
              PROVE  \E c : /\ Reads(Conf(s, <<>>), <<"(">> \o e.chars \o <<")">>, c)
                           /\ Settles(c, Append(s, Value(e.term)))
  BY DEF FactorRead, Bracketed
<1>. DEFINE s2 == Append(s, Symbol("LEFT_PARENTH"))
            y == Append(s, Value(e.term))
<1>1. parseElem("(") = "LEFT_PARENTH" /\ parseElem(")") = "RIGHT_PARENTH"
  BY DEF parseElem
<1>2. Reads(Conf(s, <<>>), <<"(">>, Conf(s2, <<>>))
  <2>1. Pushed("LEFT_PARENTH", s) = Stack(s2, "reading")
    BY DEF Pushed, Stack
  <2>2. parseElem("(") \notin {"NUMBER", "UNKNOW"}
    BY <1>1
  <2>3. Pushed(parseElem("("), s) = Stack(s2, "reading")
    BY <1>1, <2>1
  <2>. HIDE DEF s2
  <2>4. QED  BY <2>2, <2>3, SettlesAtOnce, ReadSymbolThere
<1>3. IsSeq(s2) /\ Base(s2)
  BY SeqAppend DEF Base
<1>4. PICK c, x : /\ Reads(Conf(s2, <<>>), e.chars, c) /\ Settles(c, x)
                  /\ Above(s2, x, e.term)
  <2>. HIDE DEF s2
  <2>1. QED  BY <1>3 DEF SumRead
<1>5. Reads(c, <<")">>, Conf(y, <<>>))
  <2>1. evalStack(Append(x, Symbol("RIGHT_PARENTH"))) = Stack(y, "reading")
    BY <1>4, EvalStackParenth
  <2>2. Pushed("RIGHT_PARENTH", x) = Stack(y, "reading")
    BY <2>1 DEF Pushed
  <2>3. parseElem(")") \notin {"NUMBER", "UNKNOW"}
    BY <1>1
  <2>4. Pushed(parseElem(")"), x) = Stack(y, "reading")
    BY <1>1, <2>2
  <2>. HIDE DEF y
  <2>5. QED  BY <1>4, <2>3, <2>4, ReadSymbolThere
<1>6. Reads(Conf(s, <<>>), <<"(">> \o e.chars \o <<")">>, Conf(y, <<>>))
  <2>. HIDE DEF s2, y
  <2>1. Reads(Conf(s, <<>>), <<"(">> \o e.chars, c)
    BY <1>2, <1>4, ReadsMore
  <2>2. QED  BY <1>5, <2>1, ReadsMore
<1>7. QED  BY <1>6, SettlesAtOnce

LEMMA FactorAsProduct ==
  ASSUME NEW e, FactorRead(e)
  PROVE  ProductRead(e)
BY AboveValue DEF FactorRead, ProductRead

LEMMA ProductAsSum ==
  ASSUME NEW e, ProductRead(e)
  PROVE  SumRead(e)
BY DEF ProductRead, SumRead

(* From where the left operand is one value, the operator and the right    *)
(* operand are read.                                                       *)
LEMMA OperandRead ==
  ASSUME NEW s, IsSeq(s), NEW l, NEW op, NEW r, NEW c, NEW d, ProductRead(r),
         Reads(Conf(s, <<>>), l.chars, c), Reads(c, <<op>>, d),
         parseElem(op) \in {"ADD", "SUB", "MULTI", "DIV"},
         d = Conf(Append(Append(s, Value(l.term)), Symbol(parseElem(op))), <<>>)
  PROVE  \E e, x : /\ Reads(Conf(s, <<>>), Joined(l, op, r).chars, e) /\ Settles(e, x)
                  /\ Above(s, x, Joined(l, op, r).term)
<1>. DEFINE s2 == Append(Append(s, Value(l.term)), Symbol(parseElem(op)))
<1>1. IsSeq(s2)
  <2>1. IsSeq(Append(s, Value(l.term)))
    BY SeqAppend
  <2>2. QED  BY <2>1, SeqAppend
<1>2. PICK e, x : Reads(Conf(s2, <<>>), r.chars, e) /\ Settles(e, x) /\ Above(s2, x, r.term)
  <2>. HIDE DEF s2
  <2>1. QED  BY <1>1 DEF ProductRead
<1>3. Above(s, x, <<parseElem(op), l.term, r.term>>)
  BY <1>2, AboveOperation
<1>4. Reads(Conf(s, <<>>), l.chars \o <<op>> \o r.chars, e)
  <2>. HIDE DEF s2
  <2>1. Reads(Conf(s, <<>>), l.chars \o <<op>>, d)
    BY ReadsMore
  <2>2. Reads(d, r.chars, e)
    BY <1>2 DEF s2
  <2>3. QED  BY <2>1, <2>2, ReadsMore
<1>5. /\ Joined(l, op, r).chars = l.chars \o <<op>> \o r.chars
      /\ Joined(l, op, r).term = <<parseElem(op), l.term, r.term>>
  BY DEF Joined
<1>6. QED  BY <1>2, <1>3, <1>4, <1>5

LEMMA ProductJoined ==
  ASSUME NEW l, NEW op, NEW r, FactorRead(l), ProductRead(r), parseElem(op) \in {"MULTI", "DIV"}
  PROVE  ProductRead(Joined(l, op, r))
<1>. SUFFICES ASSUME NEW s, IsSeq(s)
              PROVE  \E e, x : /\ Reads(Conf(s, <<>>), Joined(l, op, r).chars, e) /\ Settles(e, x)
                              /\ Above(s, x, Joined(l, op, r).term)
  BY DEF ProductRead
<1>. DEFINE y == Append(s, Value(l.term))
            s2 == Append(y, Symbol(parseElem(op)))
<1>1. PICK c : Reads(Conf(s, <<>>), l.chars, c) /\ Settles(c, y)
  BY DEF FactorRead
<1>2. Pushed(parseElem(op), y) = Stack(s2, "reading")
  <2>. HIDE DEF y
  <2>1. QED  BY DEF Pushed, Stack
<1>3. parseElem(op) \notin {"NUMBER", "UNKNOW"}
  OBVIOUS
<1>4. Reads(c, <<op>>, Conf(s2, <<>>))
  <2>. HIDE DEF y, s2
  <2>1. QED  BY <1>1, <1>2, <1>3, ReadSymbolThere
<1>5. parseElem(op) \in {"ADD", "SUB", "MULTI", "DIV"}
  OBVIOUS
<1>6. QED  BY <1>1, <1>4, <1>5, OperandRead

LEMMA SumJoined ==
  ASSUME NEW l, NEW op, NEW r, SumRead(l), ProductRead(r), parseElem(op) \in {"ADD", "SUB"}
  PROVE  SumRead(Joined(l, op, r))
<1>. SUFFICES ASSUME NEW s, IsSeq(s), Base(s)
              PROVE  \E e, x : /\ Reads(Conf(s, <<>>), Joined(l, op, r).chars, e) /\ Settles(e, x)
                              /\ Above(s, x, Joined(l, op, r).term)
  BY DEF SumRead
<1>. DEFINE y == Append(s, Value(l.term))
            s2 == Append(y, Symbol(parseElem(op)))
<1>1. PICK c, x : Reads(Conf(s, <<>>), l.chars, c) /\ Settles(c, x) /\ Above(s, x, l.term)
  BY DEF SumRead
<1>2. evalStack(x) = Stack(y, "reading")
  BY <1>1, EvalStackAbove
<1>3. Pushed(parseElem(op), x) = Stack(s2, "reading")
  <2>. HIDE DEF y
  <2>1. Stack(y, "reading").stack = y /\ Stack(y, "reading").outcome = "reading"
    BY DEF Stack
  <2>2. QED  BY <1>2, <2>1 DEF Pushed
<1>4. parseElem(op) \notin {"NUMBER", "UNKNOW"}
  OBVIOUS
<1>5. Reads(c, <<op>>, Conf(s2, <<>>))
  <2>. HIDE DEF y, s2
  <2>1. QED  BY <1>1, <1>3, <1>4, ReadSymbolThere
<1>6. parseElem(op) \in {"ADD", "SUB", "MULTI", "DIV"}
  OBVIOUS
<1>7. QED  BY <1>1, <1>5, <1>6, OperandRead

-----------------------------------------------------------------------------
(* The sets of the grammar, to any depth.                                  *)
Deeper(e) ==
  LET factors == Short({Number(d) : d \in Numbers} \cup {Bracketed(x) : x \in e.sums})
      products == factors \cup AllJoined(factors, {"MULTI", "DIV"}, e.products)
      sums == products \cup AllJoined(e.sums, {"ADD", "SUB"}, products)
  IN [factors |-> factors, products |-> products, sums |-> sums]

Shallow == [factors |-> {}, products |-> {}, sums |-> {}]

(* The function expressions is defined, and is what its equation says.     *)
LEMMA ExpressionsExist ==
  ASSUME NEW n \in Nat
  PROVE  \E f : f = [k \in 0..n |-> IF k = 0 THEN Shallow ELSE Deeper(f[k-1])]
<1>. DEFINE T == {m \in 0..n :
                    \E f : f = [k \in 0..m |-> IF k = 0 THEN Shallow ELSE Deeper(f[k-1])]}
<1>1. 0 \in T
  <2>. DEFINE f == [k \in 0..0 |-> Shallow]
  <2>1. f = [k \in 0..0 |-> IF k = 0 THEN Shallow ELSE Deeper(f[k-1])]
    OBVIOUS
  <2>. HIDE DEF f
  <2>2. \E g : g = [k \in 0..0 |-> IF k = 0 THEN Shallow ELSE Deeper(g[k-1])]
    BY <2>1
  <2>3. QED  BY <2>2
<1>2. ASSUME NEW m \in 1..n, m - 1 \in T PROVE m \in T
  <2>1. PICK f : f = [k \in 0..m-1 |-> IF k = 0 THEN Shallow ELSE Deeper(f[k-1])]
    BY <1>2
  <2>. DEFINE g == [k \in 0..m |-> IF k = m THEN Deeper(f[m-1]) ELSE f[k]]
  <2>2. \A k \in 0..m : g[k] = IF k = 0 THEN Shallow ELSE Deeper(g[k-1])
    <3>1. g[m] = Deeper(g[m-1])
      OBVIOUS
    <3>2. ASSUME NEW k \in 0..m-1 PROVE g[k] = IF k = 0 THEN Shallow ELSE Deeper(g[k-1])
      <4>1. g[k] = f[k] /\ (k # 0 => g[k-1] = f[k-1])
        OBVIOUS
      <4>2. f[k] = IF k = 0 THEN Shallow ELSE Deeper(f[k-1])
        BY <2>1
      <4>3. QED  BY <4>1, <4>2
    <3>. HIDE DEF g
    <3>3. QED  BY <3>1, <3>2
  <2>3. g = [k \in 0..m |-> g[k]]
    OBVIOUS
  <2>. HIDE DEF g
  <2>4. g = [k \in 0..m |-> IF k = 0 THEN Shallow ELSE Deeper(g[k-1])]
    BY <2>2, <2>3
  <2>5. QED  BY <2>4
<1>. HIDE DEF T
<1>3. \A m \in 0..n : m \in T
  BY <1>1, <1>2, InductionUpTo
<1>4. QED  BY <1>3 DEF T

LEMMA ExpressionsAre ==
  \A k \in 0..Longest : expressions[k] = IF k = 0 THEN Shallow ELSE Deeper(expressions[k-1])
<1>1. Longest \in Nat
  BY CalAssumption
<1>. DEFINE e == CHOOSE f :
                   f = [k \in 0..Longest |-> IF k = 0 THEN Shallow ELSE Deeper(f[k-1])]
<1>2. e = expressions
  BY DEF expressions, Shallow, Deeper
<1>3. e = [k \in 0..Longest |-> IF k = 0 THEN Shallow ELSE Deeper(e[k-1])]
  <2>1. \E f : f = [k \in 0..Longest |-> IF k = 0 THEN Shallow ELSE Deeper(f[k-1])]
    BY <1>1, ExpressionsExist
  <2>2. QED  BY <2>1, Zenon
<1>. HIDE DEF e
<1>4. \A k \in 0..Longest : e[k] = IF k = 0 THEN Shallow ELSE Deeper(e[k-1])
  BY <1>3, Zenon
<1>5. QED  BY <1>2, <1>4

(* Every expression of the grammar is read as its term.                    *)
AllRead(e) == /\ \A x \in e.factors : FactorRead(x)
              /\ \A x \in e.products : ProductRead(x)
              /\ \A x \in e.sums : SumRead(x)

LEMMA JoinedParts ==
  ASSUME NEW ls, NEW types, NEW rs, NEW x \in AllJoined(ls, types, rs)
  PROVE  \E l \in ls, op \in OfType(types), r \in rs :
           parseElem(op) \in types /\ x = Joined(l, op, r)
<1>1. PICK q \in ls \X OfType(types) \X rs : x = Joined(q[1], q[2], q[3])
  BY DEF AllJoined
<1>2. q[1] \in ls /\ q[2] \in OfType(types) /\ q[3] \in rs
  BY <1>1
<1>3. parseElem(q[2]) \in types
  BY <1>2 DEF OfType
<1>4. QED  BY <1>1, <1>2, <1>3, Zenon

LEMMA DeeperRead ==
  ASSUME NEW e, AllRead(e)
  PROVE  AllRead(Deeper(e))
<1>. DEFINE factors == Short({Number(d) : d \in Numbers} \cup {Bracketed(x) : x \in e.sums})
            products == factors \cup AllJoined(factors, {"MULTI", "DIV"}, e.products)
            sums == products \cup AllJoined(e.sums, {"ADD", "SUB"}, products)
<1>1. \A x \in factors : FactorRead(x)
  BY NumberRead, BracketedRead DEF Short, AllRead
<1>. HIDE DEF factors
<1>2. \A x \in products : ProductRead(x)
  <2>1. ASSUME NEW x \in AllJoined(factors, {"MULTI", "DIV"}, e.products) PROVE ProductRead(x)
    <3>1. PICK l \in factors, op \in OfType({"MULTI", "DIV"}), r \in e.products :
            parseElem(op) \in {"MULTI", "DIV"} /\ x = Joined(l, op, r)
      BY <2>1, JoinedParts
    <3>2. FactorRead(l) /\ ProductRead(r)
      BY <1>1 DEF AllRead
    <3>3. QED  BY <3>1, <3>2, ProductJoined
  <2>2. QED  BY <1>1, <2>1, FactorAsProduct
<1>. HIDE DEF products
<1>3. \A x \in sums : SumRead(x)
  <2>1. ASSUME NEW x \in AllJoined(e.sums, {"ADD", "SUB"}, products) PROVE SumRead(x)
    <3>1. PICK l \in e.sums, op \in OfType({"ADD", "SUB"}), r \in products :
            parseElem(op) \in {"ADD", "SUB"} /\ x = Joined(l, op, r)
      BY <2>1, JoinedParts
    <3>2. SumRead(l) /\ ProductRead(r)
      BY <1>2 DEF AllRead
    <3>3. QED  BY <3>1, <3>2, SumJoined
  <2>2. QED  BY <1>2, <2>1, ProductAsSum
<1>. HIDE DEF sums
<1>4. Deeper(e) = [factors |-> factors, products |-> products, sums |-> sums]
  BY DEF Deeper, factors, products, sums
<1>5. QED  BY <1>1, <1>2, <1>3, <1>4 DEF AllRead

LEMMA GrammarRead == \A e \in Grammar : SumRead(e)
<1>1. Longest \in Nat
  BY CalAssumption
<1>. DEFINE T == {k \in 0..Longest : AllRead(expressions[k])}
<1>2. 0 \in T
  <2>1. expressions[0] = Shallow
    BY <1>1, ExpressionsAre
  <2>2. AllRead(Shallow)
    BY DEF AllRead, Shallow
  <2>3. QED  BY <1>1, <2>1, <2>2
<1>3. ASSUME NEW k \in 1..Longest, k - 1 \in T PROVE k \in T
  <2>1. k \in 0..Longest /\ k # 0
    BY <1>1
  <2>2. expressions[k] = Deeper(expressions[k-1])
    BY <2>1, ExpressionsAre
  <2>3. AllRead(expressions[k-1])
    BY <1>3
  <2>4. QED  BY <2>1, <2>2, <2>3, DeeperRead
<1>4. Longest \in T
  <2>. HIDE DEF T
  <2>1. QED  BY <1>1, <1>2, <1>3, InductionUpTo
<1>5. QED  BY <1>4 DEF Grammar, AllRead

-----------------------------------------------------------------------------
(* Whatever is typed, the stack is a sequence, and eval() does not end     *)
(* inside the functions that it calls.                                     *)
Goes(r) == IsSeq(r.stack) /\ r.outcome \notin {"success", "error"}

LEMMA TurnGoes ==
  ASSUME NEW l, Goes(l)
  PROVE  Goes(Turn(l))
<1>. DEFINE x == l.stack
            rest == Front(x)
            Hows == {"looping", "reading", "exception", "undefined"}
<1>1. IsSeq(x)
  BY DEF Goes
<1>2. \A v, p : \A how \in Hows : IsSeq(v) => Goes(Loop(v, p, how))
  BY DEF Loop, Goes
<1>3. CASE l.outcome # "looping" \/ Len(x) <= 1
  <2>1. Turn(l) = l \/ \E p : \E how \in Hows : Turn(l) = Loop(x, p, how)
    BY <1>3 DEF Turn
  <2>2. QED  BY <1>1, <1>2, <2>1
<1>4. CASE l.outcome = "looping" /\ ~(Len(x) <= 1)
  <2>1. IsSeq(rest) /\ Len(x) \in Nat /\ Len(rest) = Len(x) - 1 /\ Len(rest) >= 1
    BY <1>1, <1>4, SeqFront
  <2>2. IsSeq(Front(rest)) /\ IsSeq(Front(Front(rest))) /\ IsSeq(<<>>)
    BY <2>1, SeqFront, SeqNone
  <2>3. \A v : IsSeq(Append(rest, v)) /\ IsSeq(Append(Front(rest), v))
                /\ IsSeq(Append(Front(Front(rest)), v))
    BY <2>1, <2>2, SeqAppend
  <2>4. \E y, p : \E how \in Hows :
          /\ Turn(l) = Loop(y, p, how)
          /\ \/ y \in {rest, <<>>, Front(Front(rest))}
             \/ \E v : y \in {Append(rest, v), Append(Front(rest), v),
                             Append(Front(Front(rest)), v)}
    <3>. DEFINE right == Last(x)
                opt == Last(rest)
    <3>1. CASE right.type = "RIGHT_PARENTH"
      BY <1>4, <3>1 DEF Turn
    <3>2. CASE right.type # "RIGHT_PARENTH" /\ right.type # "VALUE"
      BY <1>4, <3>2 DEF Turn
    <3>3. CASE right.type = "VALUE" /\ opt.type = "LEFT_PARENTH"
      <4>1. CASE l.parenthing
        <5>1. Turn(l) = Loop(Append(Front(rest), right), FALSE, "reading")
          BY <1>4, <3>3, <4>1 DEF Turn
        <5>2. QED  BY <5>1
      <4>2. CASE ~l.parenthing
        <5>1. Turn(l) = Loop(Append(rest, right), FALSE, "reading")
          BY <1>4, <3>3, <4>2 DEF Turn
        <5>2. QED  BY <5>1
      <4>3. QED  BY <4>1, <4>2
    <3>4. CASE right.type = "VALUE" /\ opt.type # "LEFT_PARENTH"
      <4>1. CASE Len(rest) = 1
        <5>1. Turn(l) = Loop(<<>>, l.parenthing, "undefined")
          BY <1>4, <3>4, <4>1 DEF Turn
        <5>2. QED  BY <5>1
      <4>2. CASE Len(rest) # 1 /\ opt.type \notin {"ADD", "SUB", "MULTI", "DIV"}
        <5>1. Turn(l) = Loop(Front(Front(rest)), l.parenthing, "exception")
          BY <1>4, <3>4, <4>2 DEF Turn
        <5>2. QED  BY <5>1
      <4>3. CASE Len(rest) # 1 /\ opt.type \in {"ADD", "SUB", "MULTI", "DIV"}
        <5>. DEFINE v == Value(<<opt.type, Last(Front(rest)).value, right.value>>)
        <5>1. Turn(l) = Loop(Append(Front(Front(rest)), v), l.parenthing, "looping")
          BY <1>4, <3>4, <4>3 DEF Turn
        <5>. HIDE DEF v
        <5>2. QED  BY <5>1
      <4>4. QED  BY <4>1, <4>2, <4>3
    <3>5. QED  BY <3>1, <3>2, <3>3, <3>4
  <2>5. PICK y, p, how :
          /\ how \in Hows
          /\ Turn(l) = Loop(y, p, how)
          /\ \/ y \in {rest, <<>>, Front(Front(rest))}
             \/ \E v : y \in {Append(rest, v), Append(Front(rest), v),
                             Append(Front(Front(rest)), v)}
    BY <2>4
  <2>6. IsSeq(y)
    BY <2>1, <2>2, <2>3, <2>5
  <2>7. QED  BY <1>2, <2>5, <2>6
<1>5. QED  BY <1>3, <1>4

LEMMA EvalStackGoes ==
  ASSUME NEW x, IsSeq(x)
  PROVE  Goes(evalStack(x))
<1>1. Len(x) \in Nat
  BY SeqFront
<1>2. CASE Len(x) < 3
  BY <1>2 DEF evalStack, Stack, Goes
<1>3. CASE ~(Len(x) < 3)
  <2>1. PICK f : /\ f[0] = Start(x, FALSE) /\ Turns(f, Len(x))
                 /\ evalStack(x) = Stack(f[Len(x)].stack, f[Len(x)].outcome)
    <3>1. Len(x) >= 3
      BY <1>1, <1>3
    <3>2. QED  BY <3>1, EvalStackTurns
  <2>. DEFINE T == {k \in 0..Len(x) : Goes(f[k])}
  <2>2. 0 \in T
    <3>1. Goes(f[0])
      BY <2>1 DEF Start, Loop, Goes
    <3>2. QED  BY <1>1, <3>1
  <2>3. ASSUME NEW k \in 1..Len(x), k - 1 \in T PROVE k \in T
    <3>1. Goes(f[k-1]) /\ f[k] = Turn(f[k-1])
      BY <2>1, <2>3 DEF Turns
    <3>2. k \in 0..Len(x)
      BY <1>1
    <3>3. Goes(f[k])
      BY <3>1, TurnGoes
    <3>4. QED  BY <3>2, <3>3
  <2>4. Len(x) \in T
    <3>. HIDE DEF T
    <3>1. \A k \in 0..Len(x) : k \in T
      BY <1>1, <2>2, <2>3, InductionUpTo
    <3>2. QED  BY <1>1, <3>1
  <2>5. Goes(f[Len(x)])
    BY <2>4
  <2>6. QED  BY <2>1, <2>5 DEF Stack, Goes
<1>4. QED  BY <1>2, <1>3

LEMMA EvalNumberGoes ==
  ASSUME NEW x, IsSeq(x), NEW d
  PROVE  Goes(evalNumber(x, d))
<1>1. IsSeq(Append(x, Value(d)))
  BY SeqAppend
<1>2. QED  BY <1>1 DEF evalNumber, Stack, Goes

LEMMA PushedGoes ==
  ASSUME NEW x, IsSeq(x), NEW type
  PROVE  Goes(Pushed(type, x))
<1>. DEFINE before == IF type \in {"ADD", "SUB"} THEN evalStack(x) ELSE Stack(x, "reading")
<1>1. Goes(before)
  BY EvalStackGoes DEF Stack, Goes
<1>. HIDE DEF before
<1>2. Goes(Stack(Append(before.stack, Symbol(type)), "reading"))
  <2>1. IsSeq(Append(before.stack, Symbol(type)))
    BY <1>1, SeqAppend DEF Goes
  <2>2. QED  BY <2>1 DEF Stack, Goes
<1>3. Goes(evalStack(Append(x, Symbol(type))))
  BY SeqAppend, EvalStackGoes
<1>4. Pushed(type, x) = IF type = "RIGHT_PARENTH" THEN evalStack(Append(x, Symbol(type)))
                        ELSE IF before.outcome # "reading" THEN before
                        ELSE Stack(Append(before.stack, Symbol(type)), "reading")
  BY DEF Pushed, before
<1>5. QED  BY <1>1, <1>2, <1>3, <1>4

-----------------------------------------------------------------------------
(* Nothing is left of the lines before ...                                 *)
Fresh ==
  ~spoiled /\ ((outcome = "reading" /\ at = 0) \/ outcome \in {"success", "error"}) =>
    elem_stack = <<>> /\ numberBuf = <<>>

(* ... and a line of the grammar is read as GrammarRead says.              *)
OnTrack ==
  \A e \in Grammar : ~spoiled /\ e.chars = line =>
    /\ outcome \in {"reading", "success"}
    /\ outcome = "success" => answered = e.term
    /\ outcome = "reading" =>
         \A f : f[0] = Conf(<<>>, <<>>) /\ Trace(f, line) => f[at] = Conf(elem_stack, numberBuf)

CalInv == at \in Nat /\ IsSeq(elem_stack) /\ Fresh /\ OnTrack

(* A line of the grammar is read to its end, and then evalStack() leaves   *)
(* nothing but its value.                                                  *)
LEMMA GrammarTrace ==
  ASSUME NEW e \in Grammar
  PROVE  /\ IsSeq(e.chars)
         /\ \E f, x : /\ f[0] = Conf(<<>>, <<>>) /\ Trace(f, e.chars)
                      /\ Settles(f[Len(e.chars)], x)
                      /\ evalStack(x) = Stack(Append(<<>>, Value(e.term)), "reading")
<1>1. IsSeq(<<>>) /\ Base(<<>>)
  BY SeqNone DEF Base
<1>2. PICK c, x : /\ Reads(Conf(<<>>, <<>>), e.chars, c) /\ Settles(c, x)
                  /\ Above(<<>>, x, e.term)
  BY <1>1, GrammarRead DEF SumRead
<1>3. evalStack(x) = Stack(Append(<<>>, Value(e.term)), "reading")
  BY <1>1, <1>2, EvalStackAbove
<1>4. QED  BY <1>2, <1>3 DEF Reads

LEMMA CalBegins == CalInit => CalInv
<1>. SUFFICES ASSUME CalInit PROVE CalInv
  OBVIOUS
<1>1. at = 0 /\ elem_stack = <<>> /\ numberBuf = <<>> /\ outcome = "reading"
  BY DEF CalInit
<1>2. OnTrack
  BY <1>1 DEF OnTrack
<1>3. QED  BY <1>1, <1>2, SeqNone DEF CalInv, Fresh

LEMMA ReadCharKeeps ==
  ASSUME CalInv, ReadChar
  PROVE  CalInv'
<1>. DEFINE ch == line[at + 1]
<1>1. /\ outcome = "reading" /\ at < Len(line) /\ at' = at + 1 /\ at \in Nat
      /\ line' = line /\ answered' = answered /\ spoiled' = spoiled
      /\ ReadDigit(ch) \/ ReadUnknown(ch) \/ ReadSymbol(ch)
  BY DEF ReadChar, CalInv
<1>2. IsSeq(elem_stack') /\ outcome' \notin {"success", "error"}
  <2>1. CASE ReadDigit(ch)
    BY <1>1, <2>1 DEF ReadDigit, CalInv
  <2>2. CASE ReadUnknown(ch)
    BY <2>2, SeqNone DEF ReadUnknown
  <2>3. CASE ReadSymbol(ch)
    <3>. DEFINE n == evalNumber(elem_stack, numberBuf)
                q == IF n.outcome = "reading" THEN Pushed(parseElem(ch), n.stack) ELSE n
    <3>1. Goes(n)
      BY EvalNumberGoes DEF CalInv
    <3>2. elem_stack' = q.stack /\ outcome' = q.outcome
      BY <2>3 DEF ReadSymbol
    <3>. HIDE DEF n
    <3>3. Goes(q)
      BY <3>1, PushedGoes DEF Goes
    <3>. HIDE DEF q
    <3>4. QED  BY <3>2, <3>3 DEF Goes
  <2>4. QED  BY <1>1, <2>1, <2>2, <2>3
<1>3. at' \in Nat /\ at' # 0
  BY <1>1
<1>4. Fresh'
  BY <1>2, <1>3 DEF Fresh
<1>5. OnTrack'
  <2>. SUFFICES ASSUME NEW e \in Grammar, ~spoiled, e.chars = line
                PROVE  /\ outcome' \in {"reading", "success"}
                       /\ outcome' = "success" => answered' = e.term
                       /\ outcome' = "reading" =>
                            \A f : f[0] = Conf(<<>>, <<>>) /\ Trace(f, line') =>
                                    f[at'] = Conf(elem_stack', numberBuf')
    BY <1>1 DEF OnTrack
  <2>1. at + 1 \in 1..Len(line) /\ (at + 1) - 1 = at
    <3>1. Len(line) \in Nat
      BY GrammarTrace, SeqFront
    <3>2. QED  BY <1>1, <3>1
  <2>2. ASSUME NEW f, f[0] = Conf(<<>>, <<>>), Trace(f, line)
        PROVE  outcome' = "reading" /\ f[at'] = Conf(elem_stack', numberBuf')
    <3>1. f[at] = Conf(elem_stack, numberBuf)
      BY <1>1, <2>2 DEF CalInv, OnTrack
    <3>2. ReadOne(f[at], ch, f[at + 1])
      BY <2>1, <2>2 DEF Trace
    <3>3. f[at].stack = elem_stack /\ f[at].digits = numberBuf
      BY <3>1 DEF Conf
    <3>4. CASE parseElem(ch) = "NUMBER"
      <4>1. Len(numberBuf) # BufferSize /\ f[at + 1] = Conf(elem_stack, Append(numberBuf, ch))
        BY <3>2, <3>3, <3>4 DEF ReadOne
      <4>2. ReadDigit(ch)
        BY <1>1, <3>4 DEF ReadUnknown, ReadSymbol
      <4>3. QED  BY <1>1, <4>1, <4>2 DEF ReadDigit
    <3>5. CASE parseElem(ch) # "NUMBER"
      <4>1. PICK x, y : /\ evalNumber(elem_stack, numberBuf) = Stack(x, "reading")
                        /\ Pushed(parseElem(ch), x) = Stack(y, "reading")
                        /\ f[at + 1] = Conf(y, <<>>)
        BY <3>2, <3>3, <3>5 DEF ReadOne
      <4>2. ReadSymbol(ch)
        BY <1>1, <3>2, <3>5 DEF ReadDigit, ReadUnknown, ReadOne
      <4>3. \A z, how : Stack(z, how).stack = z /\ Stack(z, how).outcome = how
        BY DEF Stack
      <4>4. elem_stack' = y /\ outcome' = "reading" /\ numberBuf' = <<>>
        BY <4>1, <4>2, <4>3 DEF ReadSymbol
      <4>5. QED  BY <1>1, <4>1, <4>4
    <3>6. QED  BY <3>4, <3>5
  <2>3. outcome' = "reading"
    <3>1. PICK f : f[0] = Conf(<<>>, <<>>) /\ Trace(f, line)
      BY GrammarTrace
    <3>2. QED  BY <2>2, <3>1
  <2>4. QED  BY <1>1, <2>2, <2>3
<1>6. QED  BY <1>2, <1>3, <1>4, <1>5 DEF CalInv

LEMMA EndOfLineKeeps ==
  ASSUME CalInv, EndOfLine
  PROVE  CalInv'
<1>. DEFINE n == evalNumber(elem_stack, numberBuf)
            q == IF n.outcome = "reading" THEN evalStack(n.stack) ELSE n
<1>1. /\ outcome = "reading" /\ at = Len(line) /\ at' = at /\ line' = line /\ numberBuf' = <<>>
      /\ spoiled' = spoiled
      /\ IF q.outcome # "reading"
         THEN outcome' = q.outcome /\ elem_stack' = q.stack
         ELSE IF Len(q.stack) > 1
         THEN outcome' = "error" /\ elem_stack' = <<>>
         ELSE /\ outcome' = "success" /\ elem_stack' = Front(q.stack)
              /\ answered' = Last(q.stack).value
  BY DEF EndOfLine
<1>2. Goes(q)
  <2>1. Goes(n)
    BY EvalNumberGoes DEF CalInv
  <2>. HIDE DEF n
  <2>2. QED  BY <2>1, EvalStackGoes DEF Goes
<1>3. IsSeq(q.stack) /\ q.outcome \notin {"success", "error"}
  <2>. HIDE DEF q
  <2>1. QED  BY <1>2 DEF Goes
<1>. HIDE DEF n, q
<1>4. outcome' \in {"success", "error"} => elem_stack' = <<>>
  BY <1>1, <1>3, SeqFront
<1>5. IsSeq(elem_stack')
  <2>1. IsSeq(Front(q.stack))
    BY <1>3, SeqFront
  <2>2. QED  BY <1>1, <1>3, <2>1, SeqNone
<1>6. outcome' # "reading"
  BY <1>1
<1>7. Fresh'
  BY <1>1, <1>4, <1>6 DEF Fresh
<1>8. OnTrack'
  <2>. SUFFICES ASSUME NEW e \in Grammar, ~spoiled, e.chars = line
                PROVE  outcome' = "success" /\ answered' = e.term
    BY <1>1 DEF OnTrack
  <2>1. PICK f, x : /\ f[0] = Conf(<<>>, <<>>) /\ Trace(f, line)
                    /\ Settles(f[Len(line)], x)
                    /\ evalStack(x) = Stack(Append(<<>>, Value(e.term)), "reading")
    BY GrammarTrace
  <2>2. f[at] = Conf(elem_stack, numberBuf)
    BY <1>1, <2>1 DEF CalInv, OnTrack
  <2>3. n = Stack(x, "reading")
    BY <1>1, <2>1, <2>2 DEF Settles, n, Conf
  <2>4. \A z, how : Stack(z, how).stack = z /\ Stack(z, how).outcome = how
    BY DEF Stack
  <2>5. q = Stack(Append(<<>>, Value(e.term)), "reading")
    BY <2>1, <2>3, <2>4 DEF q
  <2>6. /\ Len(Append(<<>>, Value(e.term))) = 1
        /\ Last(Append(<<>>, Value(e.term))) = Value(e.term)
    <3>1. PICK z : z = <<>>
      OBVIOUS
    <3>2. IsSeq(z) /\ Len(z) = 0
      BY <3>1, SeqNone
    <3>3. Len(Append(z, Value(e.term))) = 0 + 1 /\ Last(Append(z, Value(e.term))) = Value(e.term)
      BY <3>2, SeqAppend
    <3>4. QED  BY <3>1, <3>3
  <2>7. q.outcome = "reading" /\ ~(Len(q.stack) > 1) /\ Last(q.stack).value = e.term
    <3>. DEFINE y == Append(<<>>, Value(e.term))
    <3>1. Len(y) = 1 /\ Last(y) = Value(e.term) /\ Value(e.term).value = e.term
      BY <2>6 DEF Value
    <3>. HIDE DEF y
    <3>2. q.stack = y /\ q.outcome = "reading"
      BY <2>4, <2>5 DEF y
    <3>3. ~(Len(y) > 1)
      BY <3>1
    <3>4. Last(y).value = e.term
      BY <3>1, Zenon
    <3>5. QED  BY <3>2, <3>3, <3>4, Zenon
  <2>8. QED  BY <1>1, <2>7
<1>9. QED  BY <1>1, <1>5, <1>7, <1>8 DEF CalInv

LEMMA NextLineKeeps ==
  ASSUME CalInv, NextLine
  PROVE  CalInv'
<1>1. /\ at' = 0 /\ outcome' = "reading" /\ elem_stack' = elem_stack /\ numberBuf' = numberBuf
      /\ outcome \in {"success", "error", "unknown", "exception"}
      /\ spoiled' = (spoiled \/ outcome \in {"unknown", "exception"})
  BY DEF NextLine
<1>2. ~spoiled' => elem_stack' = <<>> /\ numberBuf' = <<>>
  BY <1>1 DEF CalInv, Fresh
<1>3. Fresh'
  BY <1>2 DEF Fresh
<1>4. OnTrack'
  BY <1>1, <1>2 DEF OnTrack
<1>5. QED  BY <1>1, <1>3, <1>4 DEF CalInv

(* A line that is an expression of the grammar is answered, with its term: *)
(* sums associate to the left and products to the right, whatever lines    *)
(* were read before it, unless one of them threw an exception or held an   *)
(* unknown symbol.  For any lines, any digits and operators, expressions   *)
(* of any length, and any sizes of the buffer and of an int.               *)
THEOREM CalculatorFollowsGrammar == CalSpec => []CalFollowsGrammar
<1>1. CalInit => CalInv
  BY CalBegins
<1>2. CalInv /\ [CalNext]_calVars => CalInv'
  <2>. SUFFICES ASSUME CalInv, [CalNext]_calVars PROVE CalInv'
    OBVIOUS
  <2>1. CASE UNCHANGED calVars
    BY <2>1 DEF calVars, CalInv, Fresh, OnTrack
  <2>2. QED  BY <2>1, ReadCharKeeps, EndOfLineKeeps, NextLineKeeps DEF CalNext
<1>3. CalInv => CalFollowsGrammar
  BY DEF CalInv, OnTrack, CalFollowsGrammar
<1>4. QED  BY <1>1, <1>2, <1>3, PTL DEF CalSpec

===============================================================================
