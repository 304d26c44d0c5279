------------------------------ MODULE ListLemmas ------------------------------
(***************************************************************************)
(* What the proofs need of numbers, finite sets and sequences, whatever    *)
(* they are about.                                                         *)
(***************************************************************************)
EXTENDS Sublists, SequencesExt, FiniteSetTheorems, FunctionTheorems, SequenceTheorems,
        WellFoundedInduction, TLAPS

\* The least number of a set.
LEMMA MinOfNumbers ==
    ASSUME NEW S \in SUBSET Nat, S # {}
    PROVE  Min(S) \in S /\ \A y \in S : Min(S) <= y
<1>1. IsWellFoundedOn(OpToRel(<, Nat), Nat)
  BY NatLessThanWellFounded
<1>2. PICK n \in S : \A m \in S : <<m, n>> \notin OpToRel(<, Nat)
  BY <1>1, WFMin
<1>3. \A m \in S : ~(m < n)
  BY <1>2 DEF OpToRel
<1>4. \E z \in S : \A y \in S : z <= y
  BY <1>3
<1> QED BY <1>4, Zenon DEF Min

\* The greatest number of a finite set.
LEMMA MaxOfFinite ==
    ASSUME NEW S \in SUBSET Nat, IsFiniteSet(S), S # {}
    PROVE  Max(S) \in S /\ \A y \in S : Max(S) >= y
<1> DEFINE Topped(U) == \E z \in U : \A y \in U : z >= y
           Bad == {U \in FiniteSubsetsOf(S) : U # {} /\ ~Topped(U)}
<1>1. SUFFICES Topped(S)
  BY Zenon DEF Max
<1>2. SUFFICES ASSUME S \in Bad PROVE FALSE
  BY FS_FiniteSubsetsOfFinite
<1>3. PICK U \in Bad : \A V \in Bad : <<V, U>> \notin StrictSubsetOrdering(S)
  <2>1. IsWellFoundedOn(StrictSubsetOrdering(S), FiniteSubsetsOf(S))
    BY FS_StrictSubsetOrderingWellFounded
  <2>2. Bad \subseteq FiniteSubsetsOf(S) /\ Bad # {}
    BY <1>2
  <2> HIDE DEF Bad
  <2> QED BY <2>1, <2>2, WFMin
<1>4. PICK x \in U : TRUE
  OBVIOUS
<1> DEFINE V == U \ {x}
<1>5. V \in FiniteSubsetsOf(S) /\ <<V, U>> \in StrictSubsetOrdering(S)
  BY <1>4, FS_RemoveElement DEF FiniteSubsetsOf, StrictSubsetOrdering
<1>6. V = {} \/ Topped(V)
  BY <1>3, <1>5
<1>7. CASE V = {}
  <2>1. U = {x} /\ x \in Nat
    BY <1>4, <1>7 DEF FiniteSubsetsOf
  <2> QED BY <2>1
<1>8. CASE Topped(V)
  <2>1. PICK z \in V : \A y \in V : z >= y
    BY <1>8
  <2>2. x \in Nat /\ z \in Nat /\ V \subseteq Nat
    BY <1>4 DEF FiniteSubsetsOf
  <2>3. CASE z >= x
    BY <2>1, <2>3
  <2>4. CASE x > z
    <3>1. \A y \in V : x >= y
      BY <2>1, <2>2, <2>4
    <3>2. \A y \in U : x >= y
      BY <2>2, <3>1
    <3> QED BY <1>4, <3>2
  <2> QED BY <2>2, <2>3, <2>4
<1> QED BY <1>6, <1>7, <1>8

\* A finite set in some order: its members, each at one place.
LEMMA SeqOfSet ==
    ASSUME NEW S, IsFiniteSet(S)
    PROVE  /\ SetToSeq(S) \in Seq(S)
           /\ \A i \in DOMAIN SetToSeq(S) : SetToSeq(S)[i] \in S
           /\ \A x \in S : \E i \in DOMAIN SetToSeq(S) : SetToSeq(S)[i] = x
<1> DEFINE n == Cardinality(S)
<1>1. n \in Nat /\ ExistsBijection(1..n, S)
  BY FS_CardinalityType
<1>2. \E g \in [1..n -> S] : IsInjective(g)
  BY <1>1 DEF ExistsBijection, Bijection, Injection
<1>3. PICK f : f = SetToSeq(S)
  OBVIOUS
<1>4. f \in Injection(1..n, S)
  BY <1>2, <1>3, Zenon DEF SetToSeq, Injection
<1>5. Cardinality(1..n) = n /\ IsFiniteSet(1..n)
  BY <1>1, FS_Interval
<1>6. f \in Surjection(1..n, S)
  BY <1>4, <1>5, FS_Injection
<1>7. f \in [1..n -> S] /\ \A x \in S : \E i \in 1..n : f[i] = x
  BY <1>6 DEF Surjection
<1>8. f \in Seq(S) /\ DOMAIN f = 1..n
  BY <1>1, <1>7
<1>9. \A i \in 1..n : f[i] \in S
  BY <1>7
<1> QED BY <1>3, <1>7, <1>8, <1>9, Zenon

\* Sequences put one after the other.
LEMMA Joined ==
    ASSUME NEW T, NEW s \in Seq(T), NEW t \in Seq(T)
    PROVE  /\ s \o t \in Seq(T)
           /\ \A i \in DOMAIN s : i \in DOMAIN (s \o t) /\ (s \o t)[i] = s[i]
           /\ \A i \in DOMAIN t : Len(s) + i \in DOMAIN (s \o t) /\ (s \o t)[Len(s) + i] = t[i]
           /\ \A k \in DOMAIN (s \o t) : \/ k \in DOMAIN s /\ (s \o t)[k] = s[k]
                                         \/ \E i \in DOMAIN t : (s \o t)[k] = t[i]
<1>1. /\ s \o t \in Seq(T) /\ Len(s) \in Nat /\ Len(t) \in Nat
      /\ Len(s \o t) = Len(s) + Len(t) /\ DOMAIN s = 1..Len(s) /\ DOMAIN t = 1..Len(t)
      /\ DOMAIN (s \o t) = 1..(Len(s) + Len(t))
  OBVIOUS
<1>2. \A i \in 1..(Len(s) + Len(t)) :
         (s \o t)[i] = IF i <= Len(s) THEN s[i] ELSE t[i - Len(s)]
  OBVIOUS
<1>3. \A i \in DOMAIN s : i \in DOMAIN (s \o t) /\ (s \o t)[i] = s[i]
  BY <1>1, <1>2
<1>4. \A i \in DOMAIN t : Len(s) + i \in DOMAIN (s \o t) /\ (s \o t)[Len(s) + i] = t[i]
  <2> SUFFICES ASSUME NEW i \in DOMAIN t
               PROVE  Len(s) + i \in DOMAIN (s \o t) /\ (s \o t)[Len(s) + i] = t[i]
    OBVIOUS
  <2>1. Len(s) + i \in 1..(Len(s) + Len(t)) /\ ~(Len(s) + i <= Len(s)) /\ Len(s) + i - Len(s) = i
    BY <1>1
  <2> QED BY <1>1, <1>2, <2>1
<1>5. ASSUME NEW k \in DOMAIN (s \o t)
      PROVE  (k \in DOMAIN s /\ (s \o t)[k] = s[k]) \/ \E i \in DOMAIN t : (s \o t)[k] = t[i]
  <2>1. CASE k <= Len(s)
    BY <1>1, <1>2, <2>1
  <2>2. CASE ~(k <= Len(s))
    <3>1. k - Len(s) \in DOMAIN t /\ (s \o t)[k] = t[k - Len(s)]
      BY <1>1, <1>2, <2>2
    <3> QED BY <3>1
  <2> QED BY <2>1, <2>2
<1> QED BY <1>1, <1>3, <1>4, <1>5

\* The members of a finite set of numbers are its first, its second, ... its last.
LEMMA NthIsThere ==
    ASSUME NEW K \in SUBSET Nat, IsFiniteSet(K)
    PROVE  /\ Cardinality(K) \in Nat
           /\ \A i \in 1..Cardinality(K) : Nth(K, i) \in K
           /\ \A k \in K : \E i \in 1..Cardinality(K) : Nth(K, i) = k
<1> DEFINE n == Cardinality(K)
           Upto(k) == {j \in K : j =< k}
           f == [k \in K |-> Cardinality(Upto(k))]
<1>0. n \in Nat
  BY FS_CardinalityType
<1>1. \A k \in K : IsFiniteSet(Upto(k)) /\ Cardinality(Upto(k)) \in 1..n
  <2> TAKE k \in K
  <2>1. Upto(k) \in SUBSET K /\ k \in Upto(k)
    OBVIOUS
  <2>2. IsFiniteSet(Upto(k)) /\ Cardinality(Upto(k)) <= n
    BY <2>1, FS_Subset
  <2>3. Cardinality(Upto(k)) \in Nat /\ Cardinality(Upto(k)) # 0
    BY <2>1, <2>2, FS_CardinalityType, FS_EmptySet
  <2> QED BY <1>0, <2>2, <2>3
<1>2. \A j, k \in K : j < k => Cardinality(Upto(j)) # Cardinality(Upto(k))
  <2> SUFFICES ASSUME NEW j \in K, NEW k \in K, j < k
               PROVE  Cardinality(Upto(j)) # Cardinality(Upto(k))
    OBVIOUS
  <2>0. j \in Nat /\ k \in Nat /\ \A i \in K : i \in Nat
    OBVIOUS
  <2>1. k \in Upto(k) /\ k \notin Upto(j)
    BY <2>0
  <2>2. \A i \in K : i =< j => i =< k
    BY <2>0
  <2>3. Upto(j) \in SUBSET Upto(k)
    BY <2>2
  <2> QED BY <1>1, <2>1, <2>3, FS_Subset
<1>3. f \in [K -> 1..n]
  BY <1>1
<1>4. \A j, k \in K : f[j] = f[k] => j = k
  <2> TAKE j, k \in K
  <2>1. j < k \/ k < j \/ j = k
    OBVIOUS
  <2> QED BY <1>2, <2>1
<1> HIDE DEF f
<1>5. f \in Injection(K, 1..n)
  BY <1>3, <1>4 DEF Injection, IsInjective
<1>6. IsFiniteSet(1..n) /\ Cardinality(1..n) = n
  BY <1>0, FS_Interval
<1>7. f \in Surjection(K, 1..n)
  BY <1>5, <1>6, FS_Injection
<1>8. \A i \in 1..n : \E k \in K : f[k] = i
  BY <1>7 DEF Surjection
<1>9. \A i \in 1..n : \E k \in K : Cardinality({j \in K : j =< k}) = i
  BY <1>8 DEF f
<1>10. \A i \in 1..n : Nth(K, i) \in K /\ Cardinality(Upto(Nth(K, i))) = i
  BY <1>9, Zenon DEF Nth
<1>11. \A k \in K : Nth(K, Cardinality(Upto(k))) = k
  <2> TAKE k \in K
  <2>1. Cardinality(Upto(k)) \in 1..n
    BY <1>1
  <2>2. /\ Nth(K, Cardinality(Upto(k))) \in K
        /\ Cardinality(Upto(Nth(K, Cardinality(Upto(k))))) = Cardinality(Upto(k))
    BY <1>10, <2>1
  <2> QED BY <1>4, <2>2 DEF f
<1> QED BY <1>0, <1>1, <1>10, <1>11

\* What is kept of a sequence: the members that are wanted, and nothing else.
LEMMA Sifting ==
    ASSUME NEW T, NEW s \in Seq(T), NEW S
    PROVE  /\ Sifted(s, S) \in Seq(T) /\ Len(Sifted(s, S)) <= Len(s)
           /\ \A i \in DOMAIN Sifted(s, S) :
                 Sifted(s, S)[i] \in S /\ \E k \in DOMAIN s : s[k] = Sifted(s, S)[i]
           /\ \A k \in DOMAIN s : s[k] \in S => \E i \in DOMAIN Sifted(s, S) : Sifted(s, S)[i] = s[k]
<1> DEFINE K == {k \in DOMAIN s : s[k] \in S}
           n == Cardinality(K)
<1>1. K \in SUBSET (1..Len(s)) /\ IsFiniteSet(1..Len(s)) /\ Cardinality(1..Len(s)) = Len(s)
  <2>1. Len(s) \in Nat /\ DOMAIN s = 1..Len(s)
    OBVIOUS
  <2>2. K \in SUBSET (1..Len(s))
    BY <2>1
  <2> DEFINE l == Len(s)
  <2>3. l \in Nat
    BY <2>1
  <2> HIDE DEF K, l
  <2>4. IsFiniteSet(1..l) /\ Cardinality(1..l) = l
    BY <2>3, FS_Interval
  <2> QED BY <2>2, <2>4 DEF l
<1>2. K \in SUBSET Nat /\ IsFiniteSet(K) /\ n <= Len(s)
  BY <1>1, FS_Subset
<1>3. /\ n \in Nat /\ \A i \in 1..n : Nth(K, i) \in K
      /\ \A k \in K : \E i \in 1..n : Nth(K, i) = k
  BY <1>2, NthIsThere
<1>4. Sifted(s, S) = [i \in 1..n |-> s[Nth(K, i)]]
  BY DEF Sifted
<1>5. \A k \in K : k \in DOMAIN s /\ s[k] \in T /\ s[k] \in S
  BY <1>1
<1>6. \A k \in DOMAIN s : s[k] \in S => k \in K
  OBVIOUS
<1> HIDE DEF K, n
<1>7. Sifted(s, S) \in [1..n -> T]
  BY <1>3, <1>4, <1>5
<1>8. Sifted(s, S) \in Seq(T) /\ Len(Sifted(s, S)) = n /\ DOMAIN Sifted(s, S) = 1..n
  BY <1>3, <1>7
<1>9. \A i \in 1..n : Sifted(s, S)[i] = s[Nth(K, i)]
  BY <1>4
<1>10. \A i \in 1..n : Sifted(s, S)[i] \in S /\ \E k \in DOMAIN s : s[k] = Sifted(s, S)[i]
  BY <1>3, <1>5, <1>9
<1>11. \A k \in DOMAIN s : s[k] \in S => \E i \in 1..n : Sifted(s, S)[i] = s[k]
  BY <1>3, <1>6, <1>9
<1> QED BY <1>2, <1>8, <1>10, <1>11

\* The elements of a sequence.
LEMMA ElementIn == ASSUME NEW S, NEW s \in Seq(S) PROVE \A k \in DOMAIN s : s[k] \in S
OBVIOUS

\* The empty sequence has no elements.
LEMMA SetOfEmpty == ToSet(<<>>) = {}
BY DEF ToSet

\* The elements of a sequence, as a set.
LEMMA SetType == ASSUME NEW S, NEW s \in Seq(S) PROVE ToSet(s) \subseteq S
BY DEF ToSet

\* The greater of two numbers.
LEMMA MaxOfTwo ==
    ASSUME NEW a \in Nat, NEW b \in Nat
    PROVE  Max({a, b}) \in {a, b} /\ Max({a, b}) >= a /\ Max({a, b}) >= b
<1> DEFINE S == {a, b}
<1>1. IsFiniteSet({a}) /\ IsFiniteSet({a} \cup {b})
  BY FS_Singleton, FS_AddElement
<1>2. S = {a} \cup {b}
  OBVIOUS
<1>3. S \in SUBSET Nat /\ S # {} /\ IsFiniteSet(S) /\ a \in S /\ b \in S
  BY <1>1, <1>2
<1> HIDE DEF S
<1>4. Max(S) \in S /\ \A y \in S : Max(S) >= y
  BY <1>3, MaxOfFinite
<1> QED BY <1>3, <1>4 DEF S

\* A slice of a sequence.
LEMMA Slice ==
    ASSUME NEW S, NEW s \in Seq(S), NEW m \in Nat, NEW n \in Nat,
           1 <= m, m <= n + 1, n <= Len(s)
    PROVE  /\ SubSeq(s, m, n) \in Seq(S) /\ Len(SubSeq(s, m, n)) = (n + 1) - m
           /\ \A x \in 1..((n + 1) - m) : SubSeq(s, m, n)[x] = s[x + (m - 1)]
<1>1. \A i \in m..n : s[i] \in S
  <2> TAKE i \in m..n
  <2>1. i \in DOMAIN s
    OBVIOUS
  <2> QED BY <2>1, ElementIn
<1>2. m \in Int /\ n \in Int
  OBVIOUS
<1> DEFINE t == SubSeq(s, m, n)
<1>3. /\ t \in Seq(S)
      /\ Len(t) = (IF m <= n THEN n - m + 1 ELSE 0)
      /\ \A i \in 1..(n - m + 1) : t[i] = s[m + i - 1]
  BY <1>1, <1>2, SubSeqProperties
<1> HIDE DEF t
<1>4. Len(t) = (n + 1) - m
  BY <1>3
<1>5. ASSUME NEW x \in 1..((n + 1) - m) PROVE t[x] = s[x + (m - 1)]
  <2>1. x \in 1..(n - m + 1) /\ m + x - 1 = x + (m - 1)
    OBVIOUS
  <2> QED BY <1>3, <2>1
<1> QED BY <1>3, <1>4, <1>5 DEF t

\* All but the last of a sequence.
LEMMA FrontSlice ==
    ASSUME NEW S, NEW s \in Seq(S), s # <<>>
    PROVE  /\ Len(s) \in Nat \ {0} /\ Last(s) = s[Len(s)] /\ Last(s) \in S
           /\ Front(s) \in Seq(S) /\ Len(Front(s)) = Len(s) - 1
           /\ \A x \in 1..(Len(s) - 1) : Front(s)[x] = s[x]
<1> DEFINE n == Len(s)
<1>1. n \in Nat \ {0} /\ n \in DOMAIN s
  OBVIOUS
<1>2. Last(s) = s[n] /\ Front(s) = SubSeq(s, 1, n - 1)
  BY DEF Last, Front
<1>3. s[n] \in S
  BY <1>1, ElementIn
<1>4. n - 1 \in Nat /\ 1 <= (n - 1) + 1 /\ n - 1 <= Len(s)
  BY <1>1
<1> HIDE DEF n
<1>5. /\ SubSeq(s, 1, n - 1) \in Seq(S) /\ Len(SubSeq(s, 1, n - 1)) = ((n - 1) + 1) - 1
      /\ \A x \in 1..(((n - 1) + 1) - 1) : SubSeq(s, 1, n - 1)[x] = s[x + (1 - 1)]
  BY <1>4, Slice
<1>6. \A x \in 1..(n - 1) : x \in 1..(((n - 1) + 1) - 1) /\ x + (1 - 1) = x
  BY <1>1
<1>7. \A x \in 1..(n - 1) : SubSeq(s, 1, n - 1)[x] = s[x]
  BY <1>5, <1>6
<1>8. Len(SubSeq(s, 1, n - 1)) = n - 1
  BY <1>1, <1>5
<1> QED BY <1>1, <1>2, <1>3, <1>5, <1>7, <1>8 DEF n

===============================================================================
