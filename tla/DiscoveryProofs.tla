--------------------------- MODULE DiscoveryProofs ---------------------------
(***************************************************************************)
(* What a scan asks of the network costs no more than it should, and what  *)
(* it makes of the answers is right: reverse DNS, the devices and what a   *)
(* scan says of them, the folding of the devices a crawl met under several *)
(* names, and the crawl itself.                                            *)
(***************************************************************************)
EXTENDS PtrLookup, ScanContents, TopologyFold, TopologyCrawl, ListLemmas, FiniteSetTheorems,
        TLAPS

(***************************************************************************)
(* Reverse DNS.                                                            *)
(***************************************************************************)

PtrShape ==
    /\ manner \in [Servers -> Manners]
    /\ taken \in 0..Addresses /\ named \subseteq 1..taken
    /\ job \in [Workers -> (0..taken) \X (0..(Resolvers + 1))]
    /\ asking \in [Workers -> BOOLEAN]
    /\ strikes \in [Servers -> Nat] /\ unheard \in [Servers -> Nat]
    /\ \A w \in Workers : /\ job[w][1] # 0 => job[w][2] # 0
                          /\ asking[w] => job[w][1] # 0 /\ job[w][2] \in Servers

\* The threads that wait for a resolver.
AskingOf(r) == {w \in Workers : asking[w] /\ job[w][2] = r}

\* A resolver that never replies: its strikes are all it was asked, and with the
\* questions that are under way they are never more than the bound.
SilentCounted ==
    \A r \in Servers : manner[r] = "silent" =>
        /\ unheard[r] = strikes[r]
        /\ strikes[r] + Cardinality(AskingOf(r)) < Strikes + Cardinality(Workers)

\* One that always replies with a name has no strikes, so no thread goes past it.
NamersKept ==
    \A r \in Servers : manner[r] = "names" =>
        /\ strikes[r] = 0
        /\ \A w \in Workers : job[w][1] # 0 => job[w][2] <= r

\* An address with no thread at work on it has got its name, if any resolver always
\* replies with one.
NamedOnce ==
    \A t \in 1..taken :
        (\E r \in Servers : manner[r] = "names") /\ (\A w \in Workers : job[w][1] # t) => t \in named

PtrInv == PtrShape /\ SilentCounted /\ NamersKept /\ NamedOnce

\* Sets of threads are finite, and no larger than the pool.
LEMMA PoolBounds ==
    ASSUME NEW S \in SUBSET Workers
    PROVE  /\ IsFiniteSet(S) /\ Cardinality(S) \in Nat
           /\ Cardinality(Workers) \in Nat /\ Cardinality(S) <= Cardinality(Workers)
<1>1. IsFiniteSet(Workers)
  BY PtrBounds
<1>2. IsFiniteSet(S) /\ Cardinality(S) <= Cardinality(Workers)
  BY <1>1, FS_Subset
<1> QED BY <1>1, <1>2, FS_CardinalityType

\* A pass starts with no address taken and no resolver struck.
LEMMA PtrStarts == PtrInit => PtrInv
<1> SUFFICES ASSUME PtrInit PROVE PtrInv
  OBVIOUS
<1> USE PtrBounds DEF PtrInit, Servers
<1>1. PtrShape
  BY DEF PtrShape
<1>2. SilentCounted
  <2> SUFFICES ASSUME NEW r \in Servers
               PROVE  /\ unheard[r] = strikes[r]
                      /\ strikes[r] + Cardinality(AskingOf(r)) < Strikes + Cardinality(Workers)
    BY DEF SilentCounted
  <2>1. AskingOf(r) = {}
    BY DEF AskingOf
  <2>2. Cardinality(AskingOf(r)) = 0
    BY <2>1, FS_EmptySet
  <2>3. Cardinality(Workers) \in Nat
    BY PoolBounds
  <2> QED BY <2>2, <2>3
<1>3. NamersKept /\ NamedOnce
  BY DEF NamersKept, NamedOnce
<1> QED BY <1>1, <1>2, <1>3 DEF PtrInv

\* A thread moves alone, to an address taken and a place in the list.
LEMMA OneMoves ==
    ASSUME PtrShape, NEW w \in Workers, NEW a \in 0..taken, NEW b \in 0..(Resolvers + 1),
           job' = [job EXCEPT ![w] = <<a, b>>]
    PROVE  /\ job' \in [Workers -> (0..taken) \X (0..(Resolvers + 1))]
           /\ job'[w][1] = a /\ job'[w][2] = b
           /\ \A v \in Workers : v # w => job'[v] = job[v]
<1>1. <<a, b>> \in (0..taken) \X (0..(Resolvers + 1))
  OBVIOUS
<1> QED BY <1>1 DEF PtrShape

\* A step that asks nobody and hears from nobody leaves what is counted.
LEMMA CountsKept ==
    ASSUME PtrShape, SilentCounted, NEW w \in Workers, ~asking[w], NEW j, Moves(w, j),
           UNCHANGED <<manner, asking, strikes, unheard>>
    PROVE  SilentCounted'
<1>1. \A r \in Servers : AskingOf(r)' = AskingOf(r)
  BY DEF AskingOf, Moves, PtrShape
<1> QED BY <1>1 DEF SilentCounted

\* The steps of a thread between its questions.
LEMMA BetweenQuestions ==
    ASSUME PtrInv, NEW w \in Workers, Take(w) \/ StepsOver(w) \/ GivesUp(w)
    PROVE  PtrInv'
<1> USE PtrBounds DEF Servers
<1>0. PtrShape /\ SilentCounted /\ NamersKept /\ NamedOnce
  BY DEF PtrInv
<1>1. CASE Take(w)
  <2>1. ~asking[w]
    BY <1>0, <1>1 DEF PtrShape, Take
  <2>2. SilentCounted'
    BY <1>0, <1>1, <2>1, CountsKept DEF Take
  <2>3. /\ taken' = taken + 1 /\ taken' \in 0..Addresses
        /\ job' = [job EXCEPT ![w] = <<taken + 1, 1>>]
        /\ UNCHANGED <<manner, asking, strikes, named, unheard>>
    BY <1>0, <1>1 DEF Take, Moves, PtrShape
  <2>4. PtrShape'
    <3>1. job' \in [Workers -> (0..taken') \X (0..(Resolvers + 1))]
      BY <1>0, <2>3 DEF PtrShape
    <3>2. named' \subseteq 1..taken'
      BY <1>0, <2>3 DEF PtrShape
    <3>3. ASSUME NEW v \in Workers
          PROVE  /\ job'[v][1] # 0 => job'[v][2] # 0
                 /\ asking'[v] => job'[v][1] # 0 /\ job'[v][2] \in Servers
      BY <1>0, <2>1, <2>3 DEF PtrShape
    <3> QED BY <1>0, <2>3, <3>1, <3>2, <3>3 DEF PtrShape
  <2>5. NamersKept'
    BY <1>0, <2>3 DEF NamersKept, PtrShape
  <2>6. NamedOnce'
    <3> SUFFICES ASSUME NEW t \in 1..taken', \E r \in Servers : manner[r] = "names",
                        \A v \in Workers : job'[v][1] # t
                 PROVE  t \in named
      BY <2>3 DEF NamedOnce
    <3>1. t # taken + 1
      BY <1>0, <2>3 DEF PtrShape
    <3>2. t \in 1..taken /\ job[w][1] # t
      BY <1>0, <1>1, <2>3, <3>1 DEF PtrShape, Take
    <3> QED BY <1>0, <2>3, <3>2 DEF NamedOnce, PtrShape
  <2> QED BY <2>2, <2>4, <2>5, <2>6 DEF PtrInv
<1>2. CASE StepsOver(w)
  <2>1. ~asking[w] /\ job[w][1] # 0 /\ job[w][2] \in Servers
    BY <1>0, <1>2 DEF PtrShape, StepsOver
  <2>2. SilentCounted'
    BY <1>0, <1>2, <2>1, CountsKept DEF StepsOver
  <2>3. /\ job' = [job EXCEPT ![w] = <<job[w][1], job[w][2] + 1>>]
        /\ UNCHANGED <<manner, taken, asking, strikes, named, unheard>>
    BY <1>2 DEF StepsOver, Moves
  <2>4. PtrShape'
    <3>1. job[w][1] \in 0..taken /\ job[w][2] + 1 \in 0..(Resolvers + 1)
      BY <1>0, <2>1 DEF PtrShape
    <3>2. /\ job' \in [Workers -> (0..taken) \X (0..(Resolvers + 1))]
          /\ job'[w][1] = job[w][1] /\ job'[w][2] = job[w][2] + 1
          /\ \A v \in Workers : v # w => job'[v] = job[v]
      BY <1>0, <2>3, <3>1, OneMoves
    <3>3. \A v \in Workers : /\ job'[v][1] # 0 => job'[v][2] # 0
                             /\ asking'[v] => job'[v][1] # 0 /\ job'[v][2] \in Servers
      <4> SUFFICES ASSUME NEW v \in Workers
                   PROVE  /\ job'[v][1] # 0 => job'[v][2] # 0
                          /\ asking'[v] => job'[v][1] # 0 /\ job'[v][2] \in Servers
        OBVIOUS
      <4>1. CASE v = w
        BY <2>1, <2>3, <3>2, <4>1
      <4>2. CASE v # w
        BY <1>0, <2>3, <3>2, <4>2 DEF PtrShape
      <4> QED BY <4>1, <4>2
    <3> QED BY <1>0, <2>3, <3>2, <3>3 DEF PtrShape
  <2>5. NamersKept'
    <3>1. strikes[job[w][2]] # 0
      BY <1>0, <1>2, <2>1 DEF StepsOver, IsDead, PtrShape
    <3> SUFFICES ASSUME NEW r \in Servers, manner[r] = "names"
                 PROVE  job[w][2] + 1 <= r
      BY <1>0, <2>3 DEF NamersKept, PtrShape
    <3>2. job[w][2] <= r /\ job[w][2] # r
      BY <1>0, <2>1, <3>1 DEF NamersKept
    <3> QED BY <2>1, <3>2
  <2>6. NamedOnce'
    BY <1>0, <2>3 DEF NamedOnce, PtrShape
  <2> QED BY <2>2, <2>4, <2>5, <2>6 DEF PtrInv
<1>3. CASE GivesUp(w)
  <2>1. ~asking[w] /\ job[w][1] # 0
    BY <1>0, <1>3 DEF PtrShape, GivesUp
  <2>2. SilentCounted'
    BY <1>0, <1>3, <2>1, CountsKept DEF GivesUp
  <2>3. /\ job' = [job EXCEPT ![w] = <<0, 0>>]
        /\ UNCHANGED <<manner, taken, asking, strikes, named, unheard>>
    BY <1>3 DEF GivesUp, Moves
  <2>4. PtrShape'
    <3>1. job' \in [Workers -> (0..taken') \X (0..(Resolvers + 1))]
      BY <1>0, <2>3 DEF PtrShape
    <3>2. ASSUME NEW v \in Workers
          PROVE  /\ job'[v][1] # 0 => job'[v][2] # 0
                 /\ asking'[v] => job'[v][1] # 0 /\ job'[v][2] \in Servers
      BY <1>0, <2>1, <2>3 DEF PtrShape
    <3> QED BY <1>0, <2>3, <3>1, <3>2 DEF PtrShape
  <2>5. NamersKept'
    BY <1>0, <2>3 DEF NamersKept, PtrShape
  <2>6. ~ \E r \in Servers : manner[r] = "names"
    BY <1>0, <1>3 DEF NamersKept, GivesUp, PtrShape
  <2>7. NamedOnce'
    BY <2>3, <2>6 DEF NamedOnce
  <2> QED BY <2>2, <2>4, <2>5, <2>7 DEF PtrInv
<1> QED BY <1>1, <1>2, <1>3

\* A question is put only to a resolver that may still be asked.
LEMMA QuestionPut ==
    ASSUME PtrInv, NEW w \in Workers, Ask(w)
    PROVE  PtrInv'
<1> USE PtrBounds DEF Servers
<1>0. PtrShape /\ SilentCounted /\ NamersKept /\ NamedOnce
  BY DEF PtrInv
<1>1. /\ asking' = [asking EXCEPT ![w] = TRUE] /\ job[w][1] # 0
      /\ job[w][2] \in Servers /\ strikes[job[w][2]] < Strikes
      /\ UNCHANGED <<manner, taken, job, strikes, named, unheard>>
  BY <1>0 DEF Ask, IsDead, PtrShape
<1>2. PtrShape'
  BY <1>0, <1>1 DEF PtrShape
<1>3. SilentCounted'
  <2> SUFFICES ASSUME NEW r \in Servers, manner[r] = "silent"
               PROVE  strikes[r] + Cardinality(AskingOf(r)') < Strikes + Cardinality(Workers)
    BY <1>0, <1>1 DEF SilentCounted
  <2>1. CASE r = job[w][2]
    <3>1. AskingOf(r)' \in SUBSET Workers
      BY DEF AskingOf
    <3>2. /\ Cardinality(AskingOf(r)') \in Nat /\ Cardinality(Workers) \in Nat
          /\ Cardinality(AskingOf(r)') <= Cardinality(Workers)
      BY <3>1, PoolBounds
    <3> QED BY <1>0, <1>1, <2>1, <3>2 DEF PtrShape
  <2>2. CASE r # job[w][2]
    <3>1. AskingOf(r)' = AskingOf(r)
      BY <1>0, <1>1, <2>2 DEF AskingOf, PtrShape
    <3> QED BY <1>0, <3>1 DEF SilentCounted
  <2> QED BY <2>1, <2>2
<1>4. NamersKept' /\ NamedOnce'
  BY <1>0, <1>1 DEF NamersKept, NamedOnce
<1> QED BY <1>2, <1>3, <1>4 DEF PtrInv

\* A question without a reply is a strike.
LEMMA QuestionLost ==
    ASSUME PtrInv, NEW w \in Workers, NoReply(w)
    PROVE  PtrInv'
<1>0. PtrShape /\ SilentCounted /\ NamersKept /\ NamedOnce
  BY DEF PtrInv
<1> DEFINE q == job[w][2]
<1>1. /\ asking[w] /\ job[w][1] # 0 /\ q \in Servers /\ manner[q] # "names"
      /\ asking' = [asking EXCEPT ![w] = FALSE]
      /\ strikes' = [strikes EXCEPT ![q] = @ + 1]
      /\ unheard' = [unheard EXCEPT ![q] = @ + 1]
      /\ job' = [job EXCEPT ![w] = <<job[w][1], q + 1>>]
      /\ UNCHANGED <<manner, taken, named>>
  BY <1>0 DEF NoReply, Moves, PtrShape
<1> HIDE DEF q
<1>a. /\ job' \in [Workers -> (0..taken) \X (0..(Resolvers + 1))]
      /\ job'[w][1] = job[w][1] /\ job'[w][2] = q + 1
      /\ \A v \in Workers : v # w => job'[v] = job[v]
  <2>1. job[w][1] \in 0..taken /\ q + 1 \in 0..(Resolvers + 1)
    BY <1>0, <1>1, PtrBounds DEF PtrShape, Servers
  <2> QED BY <1>0, <1>1, <2>1, OneMoves
<1>b. /\ strikes' \in [Servers -> Nat] /\ unheard' \in [Servers -> Nat]
      /\ strikes'[q] = strikes[q] + 1 /\ unheard'[q] = unheard[q] + 1
      /\ \A r \in Servers : r # q => strikes'[r] = strikes[r] /\ unheard'[r] = unheard[r]
  BY <1>0, <1>1 DEF PtrShape
<1>2. PtrShape'
  <2>1. \A v \in Workers : /\ job'[v][1] # 0 => job'[v][2] # 0
                           /\ asking'[v] => job'[v][1] # 0 /\ job'[v][2] \in Servers
    <3> SUFFICES ASSUME NEW v \in Workers
                 PROVE  /\ job'[v][1] # 0 => job'[v][2] # 0
                        /\ asking'[v] => job'[v][1] # 0 /\ job'[v][2] \in Servers
      OBVIOUS
    <3>1. CASE v = w
      BY <1>0, <1>1, <1>a, <3>1, PtrBounds DEF PtrShape, Servers
    <3>2. CASE v # w
      BY <1>0, <1>1, <1>a, <3>2 DEF PtrShape
    <3> QED BY <3>1, <3>2
  <2>2. asking' \in [Workers -> BOOLEAN]
    BY <1>0, <1>1 DEF PtrShape
  <2> QED BY <1>0, <1>1, <1>a, <1>b, <2>1, <2>2 DEF PtrShape
<1>3. SilentCounted'
  <2> SUFFICES ASSUME NEW r \in Servers, manner[r] = "silent"
               PROVE  /\ unheard'[r] = strikes'[r]
                      /\ strikes'[r] + Cardinality(AskingOf(r)') < Strikes + Cardinality(Workers)
    BY <1>1 DEF SilentCounted
  <2>0. /\ unheard[r] = strikes[r] /\ strikes[r] \in Nat /\ unheard[r] \in Nat
        /\ strikes[r] + Cardinality(AskingOf(r)) < Strikes + Cardinality(Workers)
    BY <1>0 DEF SilentCounted, PtrShape
  <2>1. CASE r = q
    <3>1. AskingOf(r)' = AskingOf(r) \ {w} /\ w \in AskingOf(r)
      BY <1>0, <1>1, <1>a, <2>1 DEF AskingOf, PtrShape, q
    <3>2. IsFiniteSet(AskingOf(r)) /\ Cardinality(AskingOf(r)) \in Nat /\ Cardinality(Workers) \in Nat
      BY PoolBounds DEF AskingOf
    <3>3. Cardinality(AskingOf(r)') = Cardinality(AskingOf(r)) - 1
      BY <3>1, <3>2, FS_RemoveElement
    <3> QED BY <1>b, <2>0, <2>1, <3>2, <3>3, PtrBounds
  <2>2. CASE r # q
    <3>1. AskingOf(r)' = AskingOf(r)
      BY <1>0, <1>1, <1>a, <2>2 DEF AskingOf, PtrShape, q
    <3> QED BY <1>b, <2>0, <2>2, <3>1
  <2> QED BY <2>1, <2>2
<1>4. NamersKept'
  <2> SUFFICES ASSUME NEW r \in Servers, manner[r] = "names"
               PROVE  strikes'[r] = 0 /\ \A v \in Workers : job'[v][1] # 0 => job'[v][2] <= r
    BY <1>1 DEF NamersKept
  <2>1. r # q /\ strikes[r] = 0 /\ q <= r
    BY <1>0, <1>1 DEF NamersKept, q
  <2>2. q + 1 <= r
    BY <1>1, <2>1, PtrBounds DEF Servers
  <2>3. strikes'[r] = 0
    BY <1>b, <2>1
  <2>4. ASSUME NEW v \in Workers, job'[v][1] # 0 PROVE job'[v][2] <= r
    <3>1. CASE v = w
      BY <1>a, <2>2, <3>1
    <3>2. CASE v # w
      BY <1>0, <1>a, <2>4, <3>2 DEF NamersKept
    <3> QED BY <3>1, <3>2
  <2> QED BY <2>3, <2>4
<1>5. NamedOnce'
  BY <1>0, <1>1, <1>a DEF NamedOnce
<1> QED BY <1>2, <1>3, <1>4, <1>5 DEF PtrInv

\* A reply clears the strikes, and a name ends the search.
LEMMA QuestionHeard ==
    ASSUME PtrInv, NEW w \in Workers, Reply(w)
    PROVE  PtrInv'
<1>0. PtrShape /\ SilentCounted /\ NamersKept /\ NamedOnce
  BY DEF PtrInv
<1> DEFINE q == job[w][2]
           t == job[w][1]
<1>1. /\ asking[w] /\ t \in 1..taken /\ q \in Servers /\ manner[q] # "silent"
      /\ asking' = [asking EXCEPT ![w] = FALSE]
      /\ strikes' = [strikes EXCEPT ![q] = 0]
      /\ UNCHANGED <<manner, taken, unheard>>
  BY <1>0 DEF Reply, PtrShape
<1>2. \/ job' = [job EXCEPT ![w] = <<0, 0>>] /\ named' = named \cup {t}
      \/ manner[q] # "names" /\ job' = [job EXCEPT ![w] = <<t, q + 1>>] /\ named' = named
  BY DEF Reply, Moves
<1>a. /\ job' \in [Workers -> (0..taken) \X (0..(Resolvers + 1))]
      /\ \A v \in Workers : v # w => job'[v] = job[v]
      /\ \/ job'[w][1] = 0 /\ job'[w][2] = 0 /\ named' = named \cup {t}
         \/ manner[q] # "names" /\ job'[w][1] = t /\ job'[w][2] = q + 1 /\ named' = named
  <2>1. /\ 0 \in 0..taken /\ 0 \in 0..(Resolvers + 1)
        /\ t \in 0..taken /\ q + 1 \in 0..(Resolvers + 1)
    BY <1>0, <1>1, PtrBounds DEF PtrShape, Servers
  <2> QED BY <1>0, <1>2, <2>1, OneMoves
<1>3. PtrShape'
  <2>1. \A v \in Workers : /\ job'[v][1] # 0 => job'[v][2] # 0
                           /\ asking'[v] => job'[v][1] # 0 /\ job'[v][2] \in Servers
    <3> SUFFICES ASSUME NEW v \in Workers
                 PROVE  /\ job'[v][1] # 0 => job'[v][2] # 0
                        /\ asking'[v] => job'[v][1] # 0 /\ job'[v][2] \in Servers
      OBVIOUS
    <3>1. CASE v = w
      BY <1>0, <1>1, <1>a, <3>1, PtrBounds DEF PtrShape, Servers
    <3>2. CASE v # w
      BY <1>0, <1>1, <1>a, <3>2 DEF PtrShape
    <3> QED BY <3>1, <3>2
  <2>2. asking' \in [Workers -> BOOLEAN] /\ strikes' \in [Servers -> Nat]
    BY <1>0, <1>1 DEF PtrShape
  <2>3. named' \subseteq 1..taken
    BY <1>0, <1>1, <1>a DEF PtrShape
  <2> QED BY <1>0, <1>1, <1>a, <2>1, <2>2, <2>3 DEF PtrShape
<1>4. SilentCounted'
  <2> SUFFICES ASSUME NEW r \in Servers, manner[r] = "silent"
               PROVE  /\ unheard'[r] = strikes'[r]
                      /\ strikes'[r] + Cardinality(AskingOf(r)') < Strikes + Cardinality(Workers)
    BY <1>1 DEF SilentCounted
  <2>1. AskingOf(r)' = AskingOf(r)
    BY <1>0, <1>1, <1>2 DEF AskingOf, PtrShape
  <2> QED BY <1>0, <1>1, <2>1 DEF SilentCounted, PtrShape
<1>5. NamersKept'
  <2> SUFFICES ASSUME NEW r \in Servers, manner[r] = "names"
               PROVE  strikes'[r] = 0 /\ \A v \in Workers : job'[v][1] # 0 => job'[v][2] <= r
    BY <1>1 DEF NamersKept
  <2>1. strikes'[r] = 0 /\ q <= r /\ (manner[q] # "names" => q # r)
    BY <1>0, <1>1 DEF NamersKept, PtrShape
  <2>2. \A v \in Workers : v # w /\ job[v][1] # 0 => job[v][2] <= r
    BY <1>0 DEF NamersKept
  <2>3. ASSUME NEW v \in Workers, job'[v][1] # 0 PROVE job'[v][2] <= r
    <3>1. CASE v = w
      BY <1>1, <1>a, <2>1, <2>3, <3>1, PtrBounds DEF Servers
    <3>2. CASE v # w
      BY <1>a, <2>2, <2>3, <3>2
    <3> QED BY <3>1, <3>2
  <2> QED BY <2>1, <2>3
<1>6. NamedOnce'
  BY <1>0, <1>1, <1>a DEF NamedOnce
<1> QED BY <1>3, <1>4, <1>5, <1>6 DEF PtrInv

\* The invariant of reverse DNS (lookup_ptrs and its threads, rdns.py).
THEOREM PtrInductive == PtrSpec => []PtrInv
<1>1. PtrInv /\ [PtrNext]_ptrVars => PtrInv'
  <2> SUFFICES ASSUME PtrInv, [PtrNext]_ptrVars PROVE PtrInv'
    OBVIOUS
  <2>1. CASE PtrNext
    BY <2>1, BetweenQuestions, QuestionPut, QuestionLost, QuestionHeard DEF PtrNext
  <2>2. CASE UNCHANGED ptrVars
    BY <2>2 DEF ptrVars, PtrInv, PtrShape, SilentCounted, NamersKept, NamedOnce, AskingOf
  <2> QED BY <2>1, <2>2
<1> QED BY <1>1, PtrStarts, PTL DEF PtrSpec

\* DeadCostBounded (rdns.py, _DEAD_STRIKES): for every pool, every list of resolvers and
\* every interleaving of the threads, a resolver that never replies costs the pass less
\* than its strikes and one question of every thread, and an address that a resolver can
\* always name is named, however many of the others are left out.
THEOREM DeadCostsAreBounded == PtrSpec => []DeadCostBounded
<1>1. PtrInv => DeadCostBounded
  <2> SUFFICES ASSUME PtrInv PROVE DeadCostBounded
    OBVIOUS
  <2>0. PtrShape /\ SilentCounted /\ NamedOnce
    BY DEF PtrInv
  <2>1. PtrTypeOK
    BY <2>0, PtrBounds DEF PtrTypeOK, PtrShape
  <2>2. ASSUME NEW r \in Servers, manner[r] = "silent"
        PROVE  unheard[r] < Strikes + Cardinality(Workers)
    <3>1. Cardinality(AskingOf(r)) \in Nat /\ Cardinality(Workers) \in Nat
      BY PoolBounds DEF AskingOf
    <3>2. /\ strikes[r] \in Nat /\ unheard[r] = strikes[r]
          /\ strikes[r] + Cardinality(AskingOf(r)) < Strikes + Cardinality(Workers)
      BY <2>0, <2>2 DEF SilentCounted, PtrShape
    <3> QED BY <3>1, <3>2, PtrBounds
  <2> QED BY <2>0, <2>1, <2>2 DEF DeadCostBounded, NamedOnce
<1> QED BY <1>1, PtrInductive, PTL

(***************************************************************************)
(* Folding.                                                                *)
(***************************************************************************)

Keys == UNION {KeysOf(b, seen[b]) : b \in Boxes}
Met == \A b \in Boxes : seen[b] \in Meetings(b)
\* The nodes and the edges, as the crawl left them.
AsMet ==
    /\ nodes = [k \in Keys |-> NodeOf(k)]
    /\ edges = {<<k, <<l[1], nodes[l].boxes>>, l>> :
                   k \in {m \in Keys : m[1] # "cdp"}, l \in {m \in Keys : m[1] # "ip"}}

\* What the record of a box says.
LEMMA MeetingFacts ==
    ASSUME Met, NEW b \in Boxes
    PROVE  /\ seen[b].chassis \in BOOLEAN /\ seen[b].bridge \in BOOLEAN
           /\ seen[b].real \subseteq Addrs /\ seen[b].bare \subseteq Addrs
           /\ seen[b].at \in Addrs \cup {0}
           /\ seen[b].name \in {NoSysName} \cup ({"name"} \X SysNames)
           /\ seen[b].cdp \in {"no", "mac", "name"}
           /\ seen[b].real # {} => seen[b].chassis
           /\ seen[b].real \cap seen[b].bare = {}
           /\ seen[b].cdp = "no" => seen[b].at = 0
           /\ seen[b].cdp = "name" => seen[b].name # NoSysName
<1>1. seen[b] \in Meetings(b)
  BY DEF Met
<1>2. NamesOf[b] \subseteq {NoSysName} \cup ({"name"} \X SysNames)
  BY FoldBounds
<1> QED BY <1>1, <1>2 DEF Meetings

\* A MAC is no sysName, and neither is the absence of one.
LEMMA NamesApart ==
    /\ \A b, c : Mac(b) = Mac(c) => b = c
    /\ \A b : Mac(b) # NoSysName /\ Mac(b) \notin {"name"} \X SysNames
    /\ NoSysName \notin {"name"} \X SysNames
<1>1. \A b, c : Mac(b) = Mac(c) => b = c
  BY DEF Mac
<1>2. \A b : Len(Mac(b)) = 2 /\ Mac(b)[1] = "mac"
  BY DEF Mac
<1>3. Len(NoSysName) = 0
  BY DEF NoSysName
<1>4. \A n \in {"name"} \X SysNames : n[1] = "name" /\ Len(n) = 2
  OBVIOUS
<1> QED BY <1>1, <1>2, <1>3, <1>4

\* A key is one of a box that was identified, that answered, or that a neighbour named.
LEMMA KeyCases ==
    ASSUME Met, NEW k \in Keys
    PROVE  \/ \E b \in Boxes : k = <<"real", Mac(b)>> /\ seen[b].chassis
           \/ \E b \in Boxes : \E a \in seen[b].bare : k = <<"ip", a>>
           \/ \E b \in Boxes : k = <<"cdp", CdpId(b, seen[b])>> /\ seen[b].cdp # "no"
<1>1. PICK b \in Boxes : k \in KeysOf(b, seen[b])
  BY DEF Keys
<1> QED BY <1>1 DEF KeysOf

\* The node of a chassis id is that of its box.
LEMMA RealNodes ==
    ASSUME Met, NEW k \in Keys, k[1] = "real"
    PROVE  \E b \in Boxes :
              /\ k = <<"real", Mac(b)>> /\ seen[b].chassis /\ Behind(k) = {b}
              /\ NodeOf(k).ips = seen[b].real /\ NodeOf(k).boxes = {b} /\ NodeOf(k).name = seen[b].name
<1>1. PICK b \in Boxes : k = <<"real", Mac(b)>> /\ seen[b].chassis
  BY KeyCases
<1>2. Behind(k) = {b}
  <2>1. \A c \in Boxes : k \in KeysOf(c, seen[c]) <=> c = b
    BY <1>1, NamesApart DEF KeysOf
  <2> QED BY <2>1 DEF Behind
<1>3. /\ NodeOf(k).ips = UNION {seen[c].real : c \in Behind(k)}
      /\ NodeOf(k).boxes = Behind(k)
      /\ NodeOf(k).name = seen[CHOOSE c \in Behind(k) : TRUE].name
  BY <1>1 DEF NodeOf
<1>4. (CHOOSE c \in Behind(k) : TRUE) = b
  BY <1>2
<1>5. UNION {seen[c].real : c \in Behind(k)} = seen[b].real
  BY <1>2
<1> QED BY <1>1, <1>2, <1>3, <1>4, <1>5

\* The node of an address that answered is that of the one box that was asked there.
LEMMA IpNodes ==
    ASSUME Met, NEW k \in Keys, k[1] = "ip"
    PROVE  /\ k = <<"ip", k[2]>> /\ k[2] \in Addrs
           /\ Bare(k[2]) \in Boxes /\ k[2] \in seen[Bare(k[2])].bare
           /\ NodeOf(k).ips = {k[2]} /\ NodeOf(k).boxes = {Bare(k[2])}
           /\ NodeOf(k).name = seen[Bare(k[2])].name
           /\ NodeOf(k).bridge \in {NoSysName, Mac(Bare(k[2]))}
<1>0. PICK b \in Boxes : \E a \in seen[b].bare : k = <<"ip", a>>
  BY KeyCases
<1>1. PICK a \in seen[b].bare : k = <<"ip", a>>
  BY <1>0
<1>2. a \in Addrs
  BY <1>1, MeetingFacts
<1>3. \A c \in Boxes : <<"ip", a>> \in KeysOf(c, seen[c]) <=> a \in seen[c].bare
  BY DEF KeysOf
<1>4. Behind(<<"ip", a>>) = {c \in Boxes : a \in seen[c].bare}
  BY <1>3 DEF Behind
<1>5. Bare(a) \in Boxes /\ a \in seen[Bare(a)].bare
  <2>1. Behind(<<"ip", a>>) # {}
    BY <1>1, <1>4
  <2> QED BY <1>4, <2>1 DEF Bare
<1>6. /\ NodeOf(k).ips = {k[2]} /\ NodeOf(k).boxes = {Bare(k[2])}
      /\ NodeOf(k).name = seen[Bare(k[2])].name
      /\ NodeOf(k).bridge = IF seen[Bare(k[2])].bridge THEN Mac(Bare(k[2])) ELSE NoSysName
  BY <1>1 DEF NodeOf
<1> QED BY <1>1, <1>2, <1>5, <1>6

\* The node of what a neighbour named has the boxes of that name, and what addresses the
\* neighbours gave; a MAC names one box.
LEMMA CdpNodes ==
    ASSUME Met, NEW k \in Keys, k[1] = "cdp"
    PROVE  /\ NodeOf(k).ips = {seen[b].at : b \in Behind(k)} \ {0}
           /\ NodeOf(k).boxes = Behind(k) /\ NodeOf(k).name = k[2]
           /\ Behind(k) \subseteq Boxes
           /\ \A b \in Behind(k) :
                 \/ k[2] = Mac(b) /\ Behind(k) = {b}
                 \/ k[2] = seen[b].name /\ k[2] \in {"name"} \X SysNames
<1>1. PICK c \in Boxes : k = <<"cdp", CdpId(c, seen[c])>> /\ seen[c].cdp # "no"
  BY KeyCases
<1>2. /\ NodeOf(k).ips = {seen[b].at : b \in Behind(k)} \ {0}
      /\ NodeOf(k).boxes = Behind(k) /\ NodeOf(k).name = k[2]
  BY <1>1 DEF NodeOf
<1>3. \A b \in Boxes : b \in Behind(k) => k[2] = CdpId(b, seen[b]) /\ seen[b].cdp # "no"
  BY <1>1 DEF Behind, KeysOf
<1>4. \A b \in Boxes : b \in Behind(k) =>
         \/ k[2] = Mac(b)
         \/ k[2] = seen[b].name /\ k[2] \in {"name"} \X SysNames
  BY <1>3, MeetingFacts DEF CdpId
<1>5. ASSUME NEW b \in Behind(k), k[2] = Mac(b) PROVE Behind(k) = {b}
  <2>1. \A d \in Behind(k) : d = b
    BY <1>4, <1>5, NamesApart DEF Behind
  <2> QED BY <2>1
<1> QED BY <1>2, <1>4, <1>5 DEF Behind

\* The nodes before anything is folded, by their kinds.
LEMMA NodeFacts ==
    ASSUME Met, AsMet
    PROVE  /\ DOMAIN nodes = Keys
           /\ \A k \in Keys : nodes[k] = NodeOf(k)
           /\ \A k \in Keys : k[1] \in {"real", "cdp", "ip"} /\ nodes[k].ips \subseteq Addrs
<1>1. DOMAIN nodes = Keys /\ \A k \in Keys : nodes[k] = NodeOf(k)
  BY DEF AsMet
<1>2. ASSUME NEW k \in Keys PROVE k[1] \in {"real", "cdp", "ip"} /\ NodeOf(k).ips \subseteq Addrs
  <2>1. k[1] \in {"real", "cdp", "ip"}
    BY KeyCases
  <2>2. CASE k[1] = "real"
    <3>1. PICK b \in Boxes : NodeOf(k).ips = seen[b].real
      BY <2>2, RealNodes
    <3> QED BY <2>1, <3>1, MeetingFacts
  <2>3. CASE k[1] = "ip"
    BY <2>1, <2>3, IpNodes
  <2>4. CASE k[1] = "cdp"
    <3>1. NodeOf(k).ips = {seen[b].at : b \in Behind(k)} \ {0} /\ Behind(k) \subseteq Boxes
      BY <2>4, CdpNodes
    <3>2. \A b \in Behind(k) : seen[b].at \in Addrs \cup {0}
      BY <3>1, MeetingFacts
    <3> QED BY <2>1, <3>1, <3>2
  <2> QED BY <2>1, <2>2, <2>3, <2>4
<1> QED BY <1>1, <1>2

Apart == AddressesTellBoxesApart /\ NamesTellBoxesApart

\* What a placeholder is named by, or has the address of, is the box itself, when neither
\* addresses nor sysNames are shared.
LEMMA HomesAreRight ==
    ASSUME Met, AsMet, NEW k \in Placeholders, NEW r \in Homes(k)
    PROVE  r \in Real /\ (Apart => nodes[k].boxes \subseteq nodes[r].boxes)
<1>1. k \in Keys /\ k[1] \in {"cdp", "ip"} /\ Real \subseteq Keys
  BY NodeFacts DEF Placeholders, Real
<1>2. r \in Same(k) \/ r \in Owners(k) \/ r \in Namesakes(k)
  BY DEF Homes
<1>3. r \in Real /\ r \in Keys /\ r[1] = "real"
  BY <1>1, <1>2 DEF Same, Owners, Claims, Namesakes, Real
<1>4. PICK b \in Boxes :
        /\ r = <<"real", Mac(b)>> /\ nodes[r].ips = seen[b].real
        /\ nodes[r].boxes = {b} /\ nodes[r].name = seen[b].name
  BY <1>3, RealNodes, NodeFacts
<1>5. ASSUME Apart, NEW c \in nodes[k].boxes PROVE c = b
  <2>1. CASE k[1] = "ip"
    <3>1. /\ c \in Boxes /\ k[2] \in seen[c].bare /\ k[2] # 0
          /\ nodes[k].ips = {k[2]} /\ nodes[k].name = seen[c].name
      BY <1>1, <1>5, <2>1, IpNodes, NodeFacts, FoldBounds
    <3>2. CASE r \in Same(k)
      <4>1. nodes[k].name = Mac(b)
        BY <1>4, <3>2 DEF Same
      <4>2. seen[c].name \in {NoSysName} \cup ({"name"} \X SysNames)
        BY <3>1, MeetingFacts
      <4>3. Mac(b) # NoSysName /\ Mac(b) \notin {"name"} \X SysNames
        BY NamesApart
      <4> QED BY <3>1, <4>1, <4>2, <4>3
    <3>3. CASE r \in Owners(k)
      <4>1. k[2] \in seen[b].real
        BY <1>4, <3>1, <3>3 DEF Owners, Claims
      <4>2. k[2] \in Says(b) /\ k[2] \in Says(c)
        BY <3>1, <4>1 DEF Says
      <4> QED BY <1>5, <3>1, <4>2 DEF Apart, AddressesTellBoxesApart
    <3>4. CASE r \in Namesakes(k)
      <4>1. seen[c].name # NoSysName /\ seen[b].name = seen[c].name
        BY <1>4, <3>1, <3>4 DEF Namesakes
      <4> QED BY <1>5, <3>1, <4>1 DEF Apart, NamesTellBoxesApart
    <3> QED BY <1>2, <3>2, <3>3, <3>4
  <2>2. CASE k[1] = "cdp"
    <3>0. /\ nodes[k].ips = {seen[d].at : d \in Behind(k)} \ {0}
          /\ nodes[k].name = k[2] /\ c \in Behind(k) /\ Behind(k) \subseteq Boxes
          /\ \A d \in Behind(k) :
                \/ k[2] = Mac(d) /\ Behind(k) = {d}
                \/ k[2] = seen[d].name /\ k[2] \in {"name"} \X SysNames
      BY <1>1, <1>5, <2>2, CdpNodes, NodeFacts
    <3>1. \A d \in Behind(k) : d = c
      <4> SUFFICES ASSUME NEW d \in Behind(k), d # c PROVE FALSE
        OBVIOUS
      <4>1. seen[c].name = seen[d].name /\ seen[c].name # NoSysName
        BY <3>0, NamesApart
      <4> QED BY <1>5, <3>0, <4>1 DEF Apart, NamesTellBoxesApart
    <3>2. CASE r \in Same(k)
      <4>1. k[2] = Mac(b)
        BY <1>4, <3>0, <3>2 DEF Same
      <4>2. k[2] = Mac(c)
        BY <3>0, <4>1, NamesApart
      <4> QED BY <4>1, <4>2, NamesApart
    <3>3. CASE r \in Owners(k)
      <4>1. PICK a \in nodes[k].ips : a \in seen[b].real
        BY <1>4, <3>3 DEF Owners, Claims
      <4>2. a # 0 /\ a = seen[c].at
        BY <3>0, <3>1, <4>1
      <4>3. a \in Says(b) /\ a \in Says(c)
        BY <4>1, <4>2 DEF Says
      <4> QED BY <1>5, <3>0, <4>3 DEF Apart, AddressesTellBoxesApart
    <3>4. CASE r \in Namesakes(k)
      <4>1. k[2] # NoSysName /\ seen[b].name = k[2]
        BY <1>4, <3>0, <3>4 DEF Namesakes
      <4>2. seen[c].name = k[2]
        BY <3>0, <4>1, MeetingFacts, NamesApart
      <4> QED BY <1>5, <3>0, <4>1, <4>2 DEF Apart, NamesTellBoxesApart
    <3> QED BY <1>2, <3>2, <3>3, <3>4
  <2> QED BY <1>1, <2>1, <2>2
<1> QED BY <1>3, <1>4, <1>5

\* The box that gave the MAC its neighbour names it by is the box of that name.
LEMMA TwinsAreRight ==
    ASSUME Met, AsMet, NEW k \in Placeholders, NEW t \in Keys, TwinOf(k, t)
    PROVE  t[1] = "ip" /\ nodes[k].boxes \subseteq nodes[t].boxes
<1>1. k \in Keys /\ k[1] = "cdp" /\ t \in Twins(k)
  BY NodeFacts DEF Placeholders, TwinOf
<1>2. t[1] = "ip"
  BY <1>1 DEF Twins, Polled
<1>3. nodes[t].boxes = {Bare(t[2])} /\ nodes[t].bridge \in {NoSysName, Mac(Bare(t[2]))}
  BY <1>2, IpNodes, NodeFacts
<1>4. k[2] = Mac(Bare(t[2]))
  BY <1>3 DEF TwinOf
<1>5. \A d \in Behind(k) : d = Bare(t[2])
  BY <1>1, <1>4, CdpNodes, NamesApart
<1>6. nodes[k].boxes = Behind(k)
  BY <1>1, CdpNodes, NodeFacts
<1> QED BY <1>2, <1>3, <1>5, <1>6

\* A fold lands at a node that is kept, and is right: at a chassis id, if no two boxes
\* share an address or a sysName; at a polled address, always.
Landing ==
    \A k \in DOMAIN remap :
        /\ k \in Keys /\ k[1] # "real"
        /\ remap[k] \in Keys \ DOMAIN remap
RightFolds == \A k \in DOMAIN remap : remap[k][1] = "ip" \/ Apart => Right(k)

FoldInv ==
    /\ Met /\ step \in {"rules", "twins", "merge", "done"}
    /\ step # "done" => AsMet
    /\ step = "rules" => DOMAIN remap = {}
    /\ step = "twins" => \A k \in DOMAIN remap : remap[k][1] = "real"
    /\ Landing
    /\ step # "done" => RightFolds
    /\ step = "done" => FoldTypeOK /\ FoldLands

\* Nothing is folded yet.
LEMMA FoldStarts == FoldInit => FoldInv
<1> SUFFICES ASSUME FoldInit PROVE FoldInv
  OBVIOUS
<1>1. Met
  BY DEF FoldInit, Met
<1>2. DOMAIN nodes = Keys
  BY DEF FoldInit, Keys
<1>3. AsMet
  BY <1>2 DEF FoldInit, AsMet, Keys
<1>4. DOMAIN remap = {} /\ step = "rules"
  BY DEF FoldInit
<1> QED BY <1>1, <1>3, <1>4 DEF FoldInv, Landing, RightFolds

\* What the folds read does not change before they are carried out.
LEMMA StillMet ==
    ASSUME UNCHANGED <<seen, nodes, edges>>
    PROVE  /\ Met' = Met /\ AsMet' = AsMet /\ Keys' = Keys /\ Apart' = Apart
           /\ Real' = Real /\ Placeholders' = Placeholders
<1>1. Keys' = Keys /\ Met' = Met
  BY DEF Keys, Met
<1>2. \A k : Behind(k)' = Behind(k)
  BY DEF Behind
<1>3. \A k : NodeOf(k)' = NodeOf(k)
  BY DEF NodeOf, Bare, Behind
<1>4. AsMet' = AsMet
  BY <1>1, <1>3 DEF AsMet
<1>5. Apart' = Apart
  BY DEF Apart, AddressesTellBoxesApart, NamesTellBoxesApart, Says
<1>6. Real' = Real /\ Placeholders' = Placeholders
  BY DEF Real, Placeholders
<1> QED BY <1>1, <1>4, <1>5, <1>6

\* The three rules that fold into a chassis id.
LEMMA RulesFold ==
    ASSUME FoldInv, FoldIntoReal
    PROVE  FoldInv'
<1>0. Met /\ AsMet
  BY DEF FoldInv, FoldIntoReal
<1>1. /\ Met' /\ AsMet' /\ Keys' = Keys /\ Apart' = Apart /\ step' = "twins"
      /\ UNCHANGED <<seen, nodes, edges>>
  BY <1>0, StillMet DEF FoldIntoReal
<1>2. /\ DOMAIN remap' = {p \in Placeholders : Homes(p) # {}}
      /\ \A k \in DOMAIN remap' : remap'[k] \in Homes(k)
  BY DEF FoldIntoReal
<1>3. /\ DOMAIN nodes = Keys /\ Real = {k \in Keys : k[1] = "real"}
      /\ Placeholders = {k \in Keys : k[1] # "real"}
  BY <1>0, NodeFacts DEF Real, Placeholders
<1>4. \A k \in DOMAIN remap' : /\ k \in Placeholders /\ remap'[k] \in Real
                               /\ Apart => nodes[k].boxes \subseteq nodes[remap'[k]].boxes
  BY <1>0, <1>2, HomesAreRight
<1>5. Landing'
  BY <1>1, <1>2, <1>3, <1>4 DEF Landing
<1>6. \A k \in DOMAIN remap' : remap'[k][1] = "real"
  BY <1>3, <1>4
<1>7. RightFolds'
  BY <1>1, <1>4, <1>6 DEF RightFolds, Right
<1> QED BY <1>1, <1>5, <1>6, <1>7 DEF FoldInv

\* The rule that folds into an address that answered.
LEMMA TwinsFold ==
    ASSUME FoldInv, FoldTwins
    PROVE  FoldInv'
<1>0. /\ Met /\ AsMet /\ Landing /\ RightFolds
      /\ \A k \in DOMAIN remap : remap[k][1] = "real"
  BY DEF FoldInv, FoldTwins
<1>1. /\ Met' /\ AsMet' /\ Keys' = Keys /\ Apart' = Apart /\ step' = "merge"
      /\ UNCHANGED <<seen, nodes, edges>>
  BY <1>0, StillMet DEF FoldTwins
<1> DEFINE Twinned == {p \in Placeholders : \E t \in DOMAIN nodes : TwinOf(p, t)}
<1>2. /\ DOMAIN remap' = DOMAIN remap \cup Twinned
      /\ \A k \in DOMAIN remap : remap'[k] = remap[k]
  BY DEF FoldTwins
<1>3. DOMAIN nodes = Keys /\ Placeholders = {k \in Keys : k[1] # "real"}
  BY <1>0, NodeFacts DEF Real, Placeholders
<1>4. ASSUME NEW k \in DOMAIN remap', k \notin DOMAIN remap
      PROVE  /\ k \in Placeholders /\ k[1] = "cdp" /\ remap'[k] \in Keys
             /\ remap'[k] \notin DOMAIN remap /\ remap'[k][1] = "ip"
             /\ nodes[k].boxes \subseteq nodes[remap'[k]].boxes
  <2>1. k \in Placeholders /\ \E t \in DOMAIN nodes : TwinOf(k, t)
    BY <1>2, <1>4
  <2>2. remap'[k] = CHOOSE t \in DOMAIN nodes : TwinOf(k, t)
    BY <1>2, <1>4 DEF FoldTwins
  <2>3. remap'[k] \in Keys /\ TwinOf(k, remap'[k])
    BY <1>3, <2>1, <2>2
  <2>4. remap'[k] \notin DOMAIN remap /\ k[1] = "cdp"
    BY <2>3 DEF TwinOf, Twins, Polled
  <2> QED BY <1>0, <2>1, <2>3, <2>4, TwinsAreRight
<1>5. \A k \in Twinned : k[1] = "cdp"
  BY DEF TwinOf
<1>6. Landing'
  <2> SUFFICES ASSUME NEW k \in DOMAIN remap'
               PROVE  k \in Keys /\ k[1] # "real" /\ remap'[k] \in Keys \ DOMAIN remap'
    BY <1>1 DEF Landing
  <2>1. CASE k \in DOMAIN remap
    <3>1. k \in Keys /\ k[1] # "real" /\ remap[k] \in Keys \ DOMAIN remap /\ remap[k][1] = "real"
      BY <1>0, <2>1 DEF Landing
    <3> QED BY <1>2, <1>5, <2>1, <3>1
  <2>2. CASE k \notin DOMAIN remap
    BY <1>2, <1>3, <1>4, <1>5, <2>2
  <2> QED BY <2>1, <2>2
<1>7. RightFolds'
  <2> SUFFICES ASSUME NEW k \in DOMAIN remap', remap'[k][1] = "ip" \/ Apart
               PROVE  nodes[k].boxes \subseteq nodes[remap'[k]].boxes
    BY <1>1 DEF RightFolds, Right
  <2>1. CASE k \in DOMAIN remap
    BY <1>0, <1>2, <2>1 DEF RightFolds, Right
  <2>2. CASE k \notin DOMAIN remap
    BY <1>4, <2>2
  <2> QED BY <2>1, <2>2
<1> QED BY <1>1, <1>6, <1>7 DEF FoldInv

\* Every node finds its keeper, and every address a box is known by is some node's.
LEMMA KeepersKept ==
    ASSUME Landing, NEW k \in Keys
    PROVE  Kept(k) \in Keys \ DOMAIN remap
BY DEF Landing, Kept

\* An address a box says is an address of something the crawl met.
LEMMA AddressesMet ==
    ASSUME Met, AsMet, NEW b \in Boxes, NEW a \in Says(b)
    PROVE  \E k \in Keys : a \in nodes[k].ips
<1>1. a # 0 /\ (a \in seen[b].real \/ a \in seen[b].bare \/ a = seen[b].at)
  BY DEF Says
<1>2. CASE a \in seen[b].real
  <2> DEFINE k == <<"real", Mac(b)>>
  <2>1. k \in Keys /\ k[1] = "real"
    BY <1>2, MeetingFacts DEF Keys, KeysOf
  <2>2. nodes[k].ips = seen[b].real
    BY <2>1, RealNodes, NodeFacts, NamesApart
  <2> QED BY <1>2, <2>1, <2>2
<1>3. CASE a \in seen[b].bare
  <2> DEFINE k == <<"ip", a>>
  <2>1. k \in Keys /\ k[1] = "ip" /\ k[2] = a
    BY <1>3 DEF Keys, KeysOf
  <2> QED BY <2>1, IpNodes, NodeFacts
<1>4. CASE a = seen[b].at
  <2> DEFINE k == <<"cdp", CdpId(b, seen[b])>>
  <2>1. seen[b].cdp # "no"
    BY <1>1, <1>4, MeetingFacts
  <2>2. k \in KeysOf(b, seen[b])
    BY <2>1 DEF KeysOf
  <2>3. k \in Keys /\ b \in Behind(k) /\ k[1] = "cdp"
    BY <2>2 DEF Keys, Behind
  <2>4. nodes[k].ips = {seen[c].at : c \in Behind(k)} \ {0}
    BY <2>3, CdpNodes, NodeFacts
  <2> QED BY <1>1, <1>4, <2>3, <2>4
<1> QED BY <1>1, <1>2, <1>3, <1>4

\* Carrying out the folds loses neither an identified device nor an address nor a link.
LEMMA FoldsLand ==
    ASSUME FoldInv, Merge
    PROVE  FoldInv'
<1>0. Met /\ AsMet /\ Landing /\ seen' = seen /\ remap' = remap /\ step' = "done"
  BY DEF FoldInv, Merge
<1>1. /\ DOMAIN nodes = Keys /\ \A k \in Keys : nodes[k] = NodeOf(k)
      /\ \A k \in Keys : k[1] \in {"real", "cdp", "ip"} /\ nodes[k].ips \subseteq Addrs
  BY <1>0, NodeFacts
<1>2. Keys' = Keys /\ Met' = Met
  BY <1>0 DEF Keys, Met
<1>3. DOMAIN nodes' = Keys \ DOMAIN remap
  BY <1>1 DEF Merge
<1>4. \A k \in DOMAIN nodes' : nodes'[k].ips = nodes[k].ips \cup UNION {nodes[p].ips : p \in Folded(k)}
  <2> SUFFICES ASSUME NEW k \in DOMAIN nodes'
               PROVE  nodes'[k].ips = nodes[k].ips \cup UNION {nodes[p].ips : p \in Folded(k)}
    OBVIOUS
  <2>1. "ips" \in DOMAIN nodes[k]
    BY <1>1, <1>3 DEF NodeOf
  <2> QED BY <1>1, <1>3, <2>1 DEF Merge
<1>5. \A k : Kept(k)' = Kept(k)
  BY <1>0 DEF Kept
<1>6. Landing'
  BY <1>0, <1>2 DEF Landing
<1>7. FoldTypeOK'
  <2>1. \A k \in DOMAIN nodes' : nodes'[k].ips \subseteq Addrs
    <3> SUFFICES ASSUME NEW k \in DOMAIN nodes' PROVE nodes'[k].ips \subseteq Addrs
      OBVIOUS
    <3>1. Folded(k) \subseteq Keys
      BY <1>0 DEF Folded, Landing
    <3> QED BY <1>1, <1>3, <1>4, <3>1
  <2> QED BY <1>0, <1>1, <1>3, <2>1 DEF FoldTypeOK, Landing
<1>8. ASSUME NEW b \in Boxes, seen[b].chassis PROVE <<"real", Mac(b)>> \in DOMAIN nodes'
  <2>1. <<"real", Mac(b)>> \in Keys
    BY <1>8 DEF Keys, KeysOf
  <2> QED BY <1>0, <1>3, <2>1 DEF Landing
<1>9. ASSUME NEW b \in Boxes, NEW a \in Says(b) PROVE \E k \in DOMAIN nodes' : a \in nodes'[k].ips
  <2>1. PICK k \in Keys : a \in nodes[k].ips
    BY <1>0, AddressesMet
  <2>2. CASE k \in DOMAIN remap
    <3>1. remap[k] \in DOMAIN nodes' /\ k \in Folded(remap[k])
      BY <1>0, <1>3, <2>2 DEF Landing, Folded
    <3> QED BY <1>4, <2>1, <3>1
  <2>3. CASE k \notin DOMAIN remap
    BY <1>3, <1>4, <2>1, <2>3
  <2> QED BY <2>2, <2>3
<1>10. ASSUME NEW e \in edges' PROVE {e[1], e[3]} \subseteq DOMAIN nodes' /\ e[1] # e[3]
  <2>1. PICK f \in edges : Kept(f[1]) # Kept(f[3]) /\ e = <<Kept(f[1]), f[2], Kept(f[3])>>
    BY DEF Merge
  <2>2. f[1] \in Keys /\ f[3] \in Keys
    BY <1>0 DEF AsMet
  <2> QED BY <1>0, <1>3, <2>1, <2>2, KeepersKept
<1>11. ASSUME NEW k \in Keys, NEW l \in Keys, k[1] # "cdp", l[1] # "ip", Kept(k) # Kept(l)
       PROVE  \E e \in edges' : e[1] = Kept(k) /\ e[3] = Kept(l)
  <2> DEFINE f == <<k, <<l[1], nodes[l].boxes>>, l>>
  <2>1. f \in edges
    BY <1>0, <1>11 DEF AsMet
  <2>a. f[1] = k /\ f[3] = l
    OBVIOUS
  <2> HIDE DEF f
  <2>2. f \in {g \in edges : Kept(g[1]) # Kept(g[3])}
    BY <1>11, <2>1, <2>a
  <2>3. <<Kept(f[1]), f[2], Kept(f[3])>> \in edges'
    BY <2>2 DEF Merge
  <2> QED BY <2>3, <2>a
<1>12. FoldLands'
  <2>1. (DOMAIN nodes \cup DOMAIN remap)' = Keys
    BY <1>0, <1>3 DEF Landing
  <2>2. \A b \in Boxes : Says(b)' = Says(b)
    BY <1>0 DEF Says
  <2>3. (UNION {Says(b) : b \in Boxes})' \subseteq (UNION {nodes[k].ips : k \in DOMAIN nodes})'
    BY <1>9, <2>2
  <2> QED BY <1>0, <1>5, <1>8, <1>10, <1>11, <2>1, <2>3 DEF FoldLands
<1> QED BY <1>0, <1>2, <1>6, <1>7, <1>12 DEF FoldInv

\* The invariant of the fold (_fold_synthetic_nodes and _fold_polled_twins).
THEOREM FoldInductive == FoldSpec => []FoldInv
<1>1. FoldInv /\ [FoldNext]_foldVars => FoldInv'
  <2> SUFFICES ASSUME FoldInv, [FoldNext]_foldVars PROVE FoldInv'
    OBVIOUS
  <2>1. CASE FoldNext
    BY <2>1, RulesFold, TwinsFold, FoldsLand DEF FoldNext
  <2>2. CASE UNCHANGED foldVars
    <3>1. UNCHANGED <<seen, nodes, edges, remap, step>>
      BY <2>2 DEF foldVars
    <3>2. /\ Met' = Met /\ AsMet' = AsMet /\ Keys' = Keys /\ Apart' = Apart
      BY <3>1, StillMet
    <3>3. Landing' = Landing
      BY <3>1, <3>2 DEF Landing
    <3>4. RightFolds' = RightFolds
      BY <3>1, <3>2 DEF RightFolds, Right
    <3>5. FoldTypeOK' = FoldTypeOK
      BY <3>1 DEF FoldTypeOK
    <3>6. FoldLands' = FoldLands
      BY <3>1 DEF FoldLands, Says, Kept
    <3> QED BY <3>1, <3>2, <3>3, <3>4, <3>5, <3>6 DEF FoldInv
  <2> QED BY <2>1, <2>2
<1> QED BY <1>1, FoldStarts, PTL DEF FoldSpec

\* FoldSafe (_fold_synthetic_nodes, _fold_polled_twins and the merge of the nodes): for
\* every network and every way a crawl can meet its boxes, what is folded is one device
\* as long as no two boxes share an address or a sysName (a fold onto a polled address,
\* always), and no identified device, no address and no link is lost by it.
THEOREM FoldsAreSafe == FoldSpec => []FoldSafe
<1>1. FoldInv => FoldSafe
  <2> SUFFICES ASSUME FoldInv PROVE FoldSafe
    OBVIOUS
  <2>1. FoldTypeOK
    <3>1. CASE step # "done"
      <4>1. /\ DOMAIN nodes = Keys
            /\ \A k \in Keys : k[1] \in {"real", "cdp", "ip"} /\ nodes[k].ips \subseteq Addrs
        BY <3>1, NodeFacts DEF FoldInv
      <4> QED BY <4>1 DEF FoldInv, FoldTypeOK, Landing
    <3>2. CASE step = "done"
      BY <3>2 DEF FoldInv
    <3> QED BY <3>1, <3>2
  <2>2. NeverFused
    BY DEF FoldInv, NeverFused, RightFolds, Apart
  <2>3. FoldLands
    BY DEF FoldInv, FoldLands
  <2> QED BY <2>1, <2>2, <2>3 DEF FoldSafe
<1> QED BY <1>1, FoldInductive, PTL


(***************************************************************************)
(* The contents of a scan.                                                 *)
(***************************************************************************)

Stages == {"idle", "capture", "neighbors", "sweep", "hosts", "extras", "services", "resolve",
           "devices", "inventory", "rest", "commit", "stored", "failed"}
RowKeys == Macs \cup {NoMac, OtherId}
DeviceRow == [ip : Ips, key : RowKeys, mac : Macs \cup {NoMac}, name : Names \cup {NoName}]
StoredRow == [ip : Ips, mac : Macs \cup {NoMac}, name : {NoName, "plain"}]

\* What each source said is of its kind.
HeardRight ==
    heard \in [dhcp : SUBSET DhcpRequests, arp : SUBSET ArpTable, nmap : SUBSET HostsUp,
              lldp : SUBSET Neighbours, ptr : SUBSET PtrRecords, svc : SUBSET ServiceRecords]

ContentShape ==
    /\ stage \in Stages /\ scan \in 0..MaxScans /\ light \in BOOLEAN /\ failed \in BOOLEAN
    /\ runs \in [Scans -> {"none", "open", "ok", "partial", "error"}]
    /\ devices \in [Scans -> SUBSET StoredRow]
    /\ inventory \in [Macs -> [name : {NoName, "plain"}, times : Nat]]
    /\ HeardRight

\* A scan that is not done has stored nothing, nor has one to come.
NothingYet ==
    /\ stage # "idle" => scan # 0 /\ runs[scan] = "open"
    /\ \A s \in Scans : s > scan \/ (s = scan /\ stage \notin {"idle", "stored"}) => devices[s] = {}
    /\ \A s \in Scans : s > scan => runs[s] = "none"

\* The transaction holds the rows of this scan, and the inventory with or without them.
TxHolds ==
    /\ stage = "inventory" =>
          tx = [rows |-> DeviceRows, stored |-> InsertedRows(DeviceRows), inventory |-> inventory]
    /\ stage \in {"rest", "commit"} =>
          /\ tx = [rows |-> DeviceRows, stored |-> InsertedRows(DeviceRows),
                   inventory |-> Upserted(DeviceRows)]
          /\ ~Refused(DeviceRows)
    /\ stage = "stored" => devices[scan] = InsertedRows(DeviceRows)

ErrorsEmpty == \A s \in Scans : runs[s] = "error" => devices[s] = {}

ContentInv == ContentShape /\ NothingYet /\ TxHolds /\ SeenCountsScans /\ ErrorsEmpty

----------------------------------------------------------------------------
(* Numbers, sequences and finite sets.                                     *)

\* A chassis id that is no MAC is not mistaken for one.
LEMMA OtherIsNone == OtherId \in Nat /\ OtherId \notin Macs
<1>1. Macs \cup {0} \in SUBSET Nat /\ Macs \cup {0} # {} /\ IsFiniteSet(Macs \cup {0})
  BY ContentBounds, FS_AddElement
<1>2. Max(Macs \cup {0}) \in Nat /\ \A y \in Macs \cup {0} : Max(Macs \cup {0}) >= y
  BY <1>1, MaxOfFinite
<1>3. PICK n \in Nat : n = Max(Macs \cup {0})
  BY <1>2
<1>4. n + 1 \notin Macs
  BY <1>1, <1>2, <1>3
<1> QED BY <1>3, <1>4 DEF OtherId

\* There are finitely many entries of an ARP table, and rows of a scan.
LEMMA RowsFinite == IsFiniteSet(ArpTable) /\ IsFiniteSet(DeviceRow)
<1> DEFINE M == Macs \cup {NoMac}
           N == Names \cup {NoName}
<1>1. IsFiniteSet(Ips) /\ IsFiniteSet(Macs) /\ IsFiniteSet(M)
  BY ContentBounds, FS_AddElement
<1>2. IsFiniteSet(RowKeys)
  <2>1. IsFiniteSet(M \cup {OtherId})
    BY <1>1, FS_AddElement
  <2>2. M \cup {OtherId} = RowKeys
    BY DEF RowKeys
  <2> QED BY <2>1, <2>2
<1>3. IsFiniteSet(N)
  <2>1. IsFiniteSet({"plain"} \cup {NoName} \cup {"nul"})
    BY FS_Singleton, FS_AddElement
  <2>2. {"plain"} \cup {NoName} \cup {"nul"} = N
    BY DEF Names
  <2> QED BY <2>1, <2>2
<1>4. IsFiniteSet(ArpTable)
  <2> DEFINE f == [p \in Ips \X Macs |-> [ip |-> p[1], mac |-> p[2]]]
  <2>1. f \in [Ips \X Macs -> ArpTable]
    BY DEF ArpTable
  <2>2. \A x \in ArpTable : <<x.ip, x.mac>> \in Ips \X Macs /\ f[<<x.ip, x.mac>>] = x
    BY DEF ArpTable
  <2> HIDE DEF f
  <2>3. IsFiniteSet(Ips \X Macs)
    BY <1>1, FS_Product
  <2>4. f \in Surjection(Ips \X Macs, ArpTable)
    BY <2>1, <2>2, Zenon DEF Surjection
  <2> QED BY <2>3, <2>4, FS_Surjection
<1>5. IsFiniteSet(DeviceRow)
  <2> DEFINE A == (Ips \X RowKeys) \X (M \X N)
             f == [p \in A |-> [ip |-> p[1][1], key |-> p[1][2], mac |-> p[2][1], name |-> p[2][2]]]
             at(x) == <<<<x.ip, x.key>>, <<x.mac, x.name>>>>
  <2>1. f \in [A -> DeviceRow]
    BY DEF DeviceRow
  <2>2. \A x \in DeviceRow : at(x) \in A /\ f[at(x)] = x
    BY DEF DeviceRow
  <2>3. IsFiniteSet(Ips \X RowKeys) /\ IsFiniteSet(M \X N)
    BY <1>1, <1>2, <1>3, FS_Product
  <2>4. IsFiniteSet(A)
    BY <2>3, FS_Product
  <2> HIDE DEF f, A, at
  <2>5. f \in Surjection(A, DeviceRow)
    BY <2>1, <2>2, Zenon DEF Surjection
  <2> QED BY <2>4, <2>5, FS_Surjection
<1> QED BY <1>4, <1>5

----------------------------------------------------------------------------
(* The merge of the sources into rows.                                     *)

\* A row under a MAC has that MAC.
RowsGood(rows) ==
    rows \in Seq(DeviceRow) /\ \A i \in DOMAIN rows : rows[i].key \in Macs => rows[i].mac = rows[i].key
IpsOf(rows) == {rows[i].ip : i \in DOMAIN rows}
MacsOf(rows) == {rows[i].mac : i \in DOMAIN rows}
\* A row of a client that broadcast its name has a name.
ClientsNamed(rows) ==
    \A i \in DOMAIN rows : \A a \in heard.dhcp : a.mac = rows[i].mac => rows[i].name # NoName

\* Giving rows names changes nothing else of them, and takes no name away.
LEMMA NamedRows ==
    ASSUME NEW rows, RowsGood(rows), NEW says \in [ToSet(rows) -> SUBSET Names]
    PROVE  /\ RowsGood(Named(rows, says)) /\ DOMAIN Named(rows, says) = DOMAIN rows
           /\ \A i \in DOMAIN rows :
                 /\ Named(rows, says)[i].ip = rows[i].ip /\ Named(rows, says)[i].mac = rows[i].mac
                 /\ rows[i].name # NoName => Named(rows, says)[i].name # NoName
                 /\ says[rows[i]] # {} => Named(rows, says)[i].name # NoName
           /\ IpsOf(Named(rows, says)) = IpsOf(rows) /\ MacsOf(Named(rows, says)) = MacsOf(rows)
           /\ ClientsNamed(rows) => ClientsNamed(Named(rows, says))
<1> DEFINE R == Named(rows, says)
           given(i) == CHOOSE n \in says[rows[i]] : TRUE
<1>1. /\ DOMAIN R = DOMAIN rows
      /\ \A i \in DOMAIN rows :
            R[i] = IF rows[i].name = NoName /\ says[rows[i]] # {}
                   THEN [rows[i] EXCEPT !.name = given(i)] ELSE rows[i]
  BY DEF Named
<1>2. \A i \in DOMAIN rows : rows[i] \in DeviceRow /\ says[rows[i]] \subseteq Names
  BY DEF RowsGood, ToSet
<1>3. \A i \in DOMAIN rows : says[rows[i]] # {} => given(i) \in Names
  BY <1>2, Zenon
<1>4. NoName \notin Names
  BY DEF Names, NoName
<1> HIDE DEF R, given
<1>5. \A i \in DOMAIN rows :
         /\ R[i] \in DeviceRow /\ R[i].ip = rows[i].ip /\ R[i].mac = rows[i].mac
         /\ R[i].key = rows[i].key
         /\ rows[i].name # NoName => R[i].name # NoName
         /\ says[rows[i]] # {} => R[i].name # NoName
  BY <1>1, <1>2, <1>3, <1>4 DEF DeviceRow
<1>6. RowsGood(R)
  <2>1. Len(rows) \in Nat /\ DOMAIN R = 1..Len(rows)
    BY <1>1 DEF RowsGood
  <2>2. R = [i \in DOMAIN R |-> R[i]]
    BY DEF R, Named
  <2>3. R \in Seq(DeviceRow)
    BY <1>5, <2>1, <2>2, IsASeq
  <2> QED BY <1>1, <1>5, <2>3 DEF RowsGood
<1>7. IpsOf(R) = IpsOf(rows) /\ MacsOf(R) = MacsOf(rows)
  BY <1>1, <1>5 DEF IpsOf, MacsOf
<1>8. ClientsNamed(rows) => ClientsNamed(R)
  BY <1>1, <1>5 DEF ClientsNamed
<1> QED BY <1>1, <1>5, <1>6, <1>7, <1>8 DEF R

\* Rows that are added bring their addresses and MACs.
LEMMA AddedRows ==
    ASSUME NEW rows, RowsGood(rows), NEW S \in SUBSET DeviceRow,
           \A r \in S : r.key \in Macs => r.mac = r.key
    PROVE  /\ RowsGood(rows \o SetToSeq(S))
           /\ IpsOf(rows \o SetToSeq(S)) = IpsOf(rows) \cup {r.ip : r \in S}
           /\ MacsOf(rows \o SetToSeq(S)) = MacsOf(rows) \cup {r.mac : r \in S}
           /\ ClientsNamed(rows) /\ (\A r \in S : r.mac = NoMac) /\ HeardRight
                 => ClientsNamed(rows \o SetToSeq(S))
<1> DEFINE new == SetToSeq(S)
           R == rows \o new
<1>1. IsFiniteSet(S)
  BY RowsFinite, FS_Subset
<1>2. /\ new \in Seq(DeviceRow) /\ \A i \in DOMAIN new : new[i] \in S
      /\ \A x \in S : \E i \in DOMAIN new : new[i] = x
  <2>1. new \in Seq(S)
    BY <1>1, SeqOfSet
  <2>2. Seq(S) \subseteq Seq(DeviceRow)
    OBVIOUS
  <2> QED BY <1>1, <2>1, <2>2, SeqOfSet
<1> HIDE DEF new
<1>3. rows \in Seq(DeviceRow)
  BY DEF RowsGood
<1>4. /\ R \in Seq(DeviceRow)
      /\ \A i \in DOMAIN rows : i \in DOMAIN R /\ R[i] = rows[i]
      /\ \A x \in S : \E k \in DOMAIN R : R[k] = x
      /\ \A k \in DOMAIN R : (k \in DOMAIN rows /\ R[k] = rows[k]) \/ R[k] \in S
  <2>1. /\ R \in Seq(DeviceRow)
        /\ \A i \in DOMAIN rows : i \in DOMAIN R /\ R[i] = rows[i]
        /\ \A i \in DOMAIN new : Len(rows) + i \in DOMAIN R /\ R[Len(rows) + i] = new[i]
        /\ \A k \in DOMAIN R : \/ k \in DOMAIN rows /\ R[k] = rows[k]
                               \/ \E i \in DOMAIN new : R[k] = new[i]
    BY <1>2, <1>3, Joined
  <2> HIDE DEF R
  <2>2. ASSUME NEW x \in S PROVE \E k \in DOMAIN R : R[k] = x
    <3>1. PICK i \in DOMAIN new : new[i] = x
      BY <1>2
    <3> QED BY <2>1, <3>1
  <2>3. \A k \in DOMAIN R : (k \in DOMAIN rows /\ R[k] = rows[k]) \/ R[k] \in S
    BY <1>2, <2>1
  <2> QED BY <2>1, <2>2, <2>3
<1> HIDE DEF R
<1>5. RowsGood(R)
  BY <1>4 DEF RowsGood
<1>6. IpsOf(R) = IpsOf(rows) \cup {r.ip : r \in S}
  BY <1>4 DEF IpsOf
<1>7. MacsOf(R) = MacsOf(rows) \cup {r.mac : r \in S}
  BY <1>4 DEF MacsOf
<1>8. ClientsNamed(rows) /\ (\A r \in S : r.mac = NoMac) /\ HeardRight => ClientsNamed(R)
  <2>1. HeardRight => \A a \in heard.dhcp : a.mac # NoMac
    BY ContentBounds DEF HeardRight, DhcpRequests, NoMac
  <2> QED BY <1>4, <2>1 DEF ClientsNamed
<1> QED BY <1>5, <1>6, <1>7, <1>8 DEF R, new

\* What every answer has: its address is one, and its MAC.
LEMMA AnswerKinds ==
    ASSUME HeardRight
    PROVE  /\ \A a \in heard.dhcp : a.mac \in Macs /\ a.name = "plain"
           /\ \A a \in heard.arp : a.ip \in Ips /\ a.mac \in Macs
           /\ \A a \in heard.nmap :
                 a.ip \in Ips /\ a.mac \in Macs \cup {NoMac} /\ a.name \in {NoName, "plain"}
           /\ \A a \in heard.lldp : a.ip \in Ips /\ a.chassis \in Macs \cup {OtherId} /\ a.name = "plain"
           /\ \A a \in heard.ptr : a.ip \in Ips /\ a.name = "plain"
           /\ \A a \in heard.svc : a.ip \in Ips /\ a.name \in Names \cup {NoName}
BY DEF HeardRight, DhcpRequests, ArpTable, HostsUp, Neighbours, PtrRecords, ServiceRecords

\* The addresses and MACs of the first three sources.
ArpIps == {a.ip : a \in heard.arp}
ArpMacs == {a.mac : a \in heard.arp}
NmapIps == {a.ip : a \in heard.nmap}
NmapMacs == {a.mac : a \in heard.nmap}
LldpIps == {a.ip : a \in heard.lldp}
LldpMacs == {a.chassis : a \in heard.lldp}

\* The rows of the ARP table are what answered ARP.
LEMMA ArpRows ==
    ASSUME HeardRight
    PROVE  RowsGood(FromArp) /\ IpsOf(FromArp) = ArpIps /\ MacsOf(FromArp) = ArpMacs
<1> DEFINE A == SetToSeq(heard.arp)
           R == FromArp
<1>1. IsFiniteSet(heard.arp)
  BY RowsFinite, FS_Subset DEF HeardRight
<1>2. /\ A \in Seq(heard.arp) /\ \A i \in DOMAIN A : A[i] \in heard.arp
      /\ \A x \in heard.arp : \E i \in DOMAIN A : A[i] = x
  BY <1>1, SeqOfSet
<1>3. /\ DOMAIN R = DOMAIN A /\ R = [i \in DOMAIN R |-> R[i]]
      /\ \A i \in DOMAIN A : R[i] = [ip |-> A[i].ip, key |-> A[i].mac, mac |-> A[i].mac, name |-> NoName]
  BY DEF FromArp
<1> HIDE DEF R, A
<1>4. \A i \in DOMAIN A : /\ R[i] \in DeviceRow /\ R[i].ip = A[i].ip /\ R[i].mac = A[i].mac
                         /\ R[i].key = R[i].mac
  BY <1>2, <1>3, AnswerKinds DEF DeviceRow, RowKeys
<1>5. Len(A) \in Nat /\ DOMAIN A = 1..Len(A)
  BY <1>2
<1>6. R \in Seq(DeviceRow)
  BY <1>3, <1>4, <1>5, IsASeq
<1>7. RowsGood(R)
  BY <1>3, <1>4, <1>6 DEF RowsGood
<1>8. IpsOf(R) = ArpIps
  BY <1>2, <1>3, <1>4 DEF IpsOf, ArpIps
<1>9. MacsOf(R) = ArpMacs
  BY <1>2, <1>3, <1>4 DEF MacsOf, ArpMacs
<1> QED BY <1>7, <1>8, <1>9 DEF R

\* An answer for an address and MAC that has no row adds one.
LEMMA NmapRows ==
    ASSUME HeardRight, NEW rows, RowsGood(rows)
    PROVE  /\ RowsGood(WithNmap(rows))
           /\ IpsOf(WithNmap(rows)) = IpsOf(rows) \cup NmapIps
           /\ (MacsOf(rows) \cup NmapMacs) \cap Macs \subseteq MacsOf(WithNmap(rows))
<1> DEFINE B == {b \in heard.nmap : ~Has(rows, b.ip, b.mac)}
           row(a) == [ip |-> a.ip, key |-> a.mac, mac |-> a.mac, name |-> a.name]
           S == {row(a) : a \in B}
           says == [r \in ToSet(rows) |->
                      {a.name : a \in {b \in heard.nmap : b.ip = r.ip /\ b.mac = r.key}} \ {NoName}]
           R == Named(rows, says)
<1>0. WithNmap(rows) = R \o SetToSeq(S)
  BY DEF WithNmap
<1>1. says \in [ToSet(rows) -> SUBSET Names]
  BY AnswerKinds DEF Names
<1>2. \A a \in B : row(a) \in DeviceRow
  BY AnswerKinds DEF DeviceRow, RowKeys, Names
<1>9. \A a : row(a).ip = a.ip /\ row(a).mac = a.mac /\ row(a).key = a.mac
  OBVIOUS
<1> HIDE DEF row, B
<1>3. /\ S \in SUBSET DeviceRow /\ \A r \in S : r.key \in Macs => r.mac = r.key
      /\ {r.ip : r \in S} = {a.ip : a \in B} /\ {r.mac : r \in S} = {a.mac : a \in B}
  BY <1>2, <1>9
<1> HIDE DEF S, says
<1>4. RowsGood(R) /\ IpsOf(R) = IpsOf(rows) /\ MacsOf(R) = MacsOf(rows)
  BY <1>1, NamedRows
<1> HIDE DEF R
<1>5. /\ RowsGood(WithNmap(rows))
      /\ IpsOf(WithNmap(rows)) = IpsOf(rows) \cup {r.ip : r \in S}
      /\ MacsOf(WithNmap(rows)) = MacsOf(rows) \cup {r.mac : r \in S}
  BY <1>0, <1>3, <1>4, AddedRows
<1>6. \A b \in heard.nmap : Has(rows, b.ip, b.mac) =>
         b.ip \in IpsOf(rows) /\ (b.mac \in Macs => b.mac \in MacsOf(rows))
  BY DEF Has, IpsOf, MacsOf, RowsGood
<1>7. IpsOf(WithNmap(rows)) = IpsOf(rows) \cup NmapIps
  BY <1>3, <1>5, <1>6 DEF NmapIps, B
<1>8. (MacsOf(rows) \cup NmapMacs) \cap Macs \subseteq MacsOf(WithNmap(rows))
  BY <1>3, <1>5, <1>6 DEF NmapMacs, B
<1> QED BY <1>5, <1>7, <1>8

\* So does a neighbour, by its chassis.
LEMMA LldpRows ==
    ASSUME HeardRight, NEW rows, RowsGood(rows)
    PROVE  /\ RowsGood(WithLldp(rows))
           /\ IpsOf(WithLldp(rows)) = IpsOf(rows) \cup LldpIps
           /\ (MacsOf(rows) \cup LldpMacs) \cap Macs \subseteq MacsOf(WithLldp(rows))
<1> DEFINE B == {b \in heard.lldp : ~Has(rows, b.ip, b.chassis)}
           row(a) == [ip |-> a.ip, key |-> a.chassis, name |-> a.name,
                      mac |-> IF a.chassis = OtherId THEN NoMac ELSE a.chassis]
           S == {row(a) : a \in B}
<1>0. WithLldp(rows) = rows \o SetToSeq(S)
  BY DEF WithLldp
<1>1. \A a \in B : row(a) \in DeviceRow
  BY AnswerKinds DEF DeviceRow, RowKeys, Names
<1>2. \A a \in B : row(a).ip = a.ip /\ (a.chassis \in Macs => row(a).mac = a.chassis)
                  /\ (row(a).key \in Macs => row(a).mac = row(a).key)
  BY OtherIsNone
<1> HIDE DEF row, B
<1>3. /\ S \in SUBSET DeviceRow /\ \A r \in S : r.key \in Macs => r.mac = r.key
      /\ {r.ip : r \in S} = {a.ip : a \in B} /\ \A a \in B : row(a) \in S
  BY <1>1, <1>2
<1> HIDE DEF S
<1>4. /\ RowsGood(WithLldp(rows))
      /\ IpsOf(WithLldp(rows)) = IpsOf(rows) \cup {r.ip : r \in S}
      /\ MacsOf(WithLldp(rows)) = MacsOf(rows) \cup {r.mac : r \in S}
  BY <1>0, <1>3, AddedRows
<1>5. \A b \in heard.lldp : Has(rows, b.ip, b.chassis) =>
         b.ip \in IpsOf(rows) /\ (b.chassis \in Macs => b.chassis \in MacsOf(rows))
  BY DEF Has, IpsOf, MacsOf, RowsGood
<1>6. IpsOf(WithLldp(rows)) = IpsOf(rows) \cup LldpIps
  BY <1>3, <1>4, <1>5 DEF LldpIps, B
<1>7. \A b \in heard.lldp : b.chassis \in Macs => b.chassis \in MacsOf(WithLldp(rows))
  BY <1>2, <1>3, <1>4, <1>5 DEF B
<1>8. (MacsOf(rows) \cup LldpMacs) \cap Macs \subseteq MacsOf(WithLldp(rows))
  BY <1>4, <1>7 DEF LldpMacs
<1> QED BY <1>4, <1>6, <1>8

\* The name a client broadcast goes to its rows.
LEMMA DhcpRows ==
    ASSUME HeardRight, NEW rows, RowsGood(rows)
    PROVE  /\ RowsGood(WithDhcp(rows)) /\ ClientsNamed(WithDhcp(rows))
           /\ IpsOf(WithDhcp(rows)) = IpsOf(rows) /\ MacsOf(WithDhcp(rows)) = MacsOf(rows)
<1> DEFINE says == [r \in ToSet(rows) |-> {a.name : a \in {b \in heard.dhcp : b.mac = r.mac}}]
           R == Named(rows, says)
<1>1. says \in [ToSet(rows) -> SUBSET Names]
  BY AnswerKinds DEF Names
<1>2. \A i \in DOMAIN rows : \A a \in heard.dhcp : a.mac = rows[i].mac => says[rows[i]] # {}
  BY DEF ToSet
<1>3. WithDhcp(rows) = R
  BY DEF WithDhcp
<1> HIDE DEF says
<1>4. /\ RowsGood(R) /\ DOMAIN R = DOMAIN rows
      /\ \A i \in DOMAIN rows : R[i].mac = rows[i].mac /\ (says[rows[i]] # {} => R[i].name # NoName)
      /\ IpsOf(R) = IpsOf(rows) /\ MacsOf(R) = MacsOf(rows)
  BY <1>1, NamedRows
<1> HIDE DEF R
<1>5. ClientsNamed(R)
  BY <1>2, <1>4 DEF ClientsNamed
<1> QED BY <1>3, <1>4, <1>5

\* Names from reverse DNS change no address and no MAC.
LEMMA PtrRows ==
    ASSUME HeardRight, NEW rows, RowsGood(rows), ClientsNamed(rows)
    PROVE  /\ RowsGood(WithPtr(rows)) /\ ClientsNamed(WithPtr(rows))
           /\ IpsOf(WithPtr(rows)) = IpsOf(rows) /\ MacsOf(WithPtr(rows)) = MacsOf(rows)
<1> DEFINE says == [r \in ToSet(rows) |-> {a.name : a \in {b \in heard.ptr : b.ip = r.ip}}]
<1>1. says \in [ToSet(rows) -> SUBSET Names]
  BY AnswerKinds DEF Names
<1>2. WithPtr(rows) = Named(rows, says)
  BY DEF WithPtr
<1> HIDE DEF says
<1> QED BY <1>1, <1>2, NamedRows

\* An address only a service answered from gets a row without a MAC.
LEMMA ServiceRows ==
    ASSUME HeardRight, NEW rows, RowsGood(rows), ClientsNamed(rows)
    PROVE  /\ RowsGood(WithServices(rows)) /\ ClientsNamed(WithServices(rows))
           /\ IpsOf(WithServices(rows)) = IpsOf(rows) \cup {a.ip : a \in heard.svc}
           /\ MacsOf(rows) \subseteq MacsOf(WithServices(rows))
<1> DEFINE new == {a.ip : a \in heard.svc} \ {rows[i].ip : i \in DOMAIN rows}
           row(ip) == [ip |-> ip, key |-> NoMac, mac |-> NoMac, name |-> NoName]
           S == {row(ip) : ip \in new}
           all == rows \o SetToSeq(S)
           says == [r \in ToSet(all) |->
                      {a.name : a \in {b \in heard.svc : b.ip = r.ip}} \ {NoName}]
<1>1. WithServices(rows) = Named(all, says)
  BY DEF WithServices
<1>7. \A ip \in new : row(ip) \in DeviceRow
  BY AnswerKinds DEF DeviceRow, RowKeys
<1>8. \A ip : row(ip).ip = ip /\ row(ip).mac = NoMac /\ row(ip).key = NoMac
  OBVIOUS
<1> HIDE DEF row
<1>2. S \in SUBSET DeviceRow /\ \A r \in S : r.mac = NoMac /\ r.key = NoMac
  BY <1>7, <1>8
<1>3. {r.ip : r \in S} = {a.ip : a \in heard.svc} \ IpsOf(rows)
  BY <1>8 DEF IpsOf
<1>4. says \in [ToSet(all) -> SUBSET Names]
  BY AnswerKinds DEF Names
<1> HIDE DEF S, says
<1>5. /\ RowsGood(all) /\ IpsOf(all) = IpsOf(rows) \cup {r.ip : r \in S}
      /\ MacsOf(rows) \subseteq MacsOf(all) /\ ClientsNamed(all)
  BY <1>2, AddedRows
<1> HIDE DEF all
<1>6. /\ RowsGood(Named(all, says)) /\ ClientsNamed(Named(all, says))
      /\ IpsOf(Named(all, says)) = IpsOf(all) /\ MacsOf(Named(all, says)) = MacsOf(all)
  BY <1>4, <1>5, NamedRows
<1> QED BY <1>1, <1>3, <1>5, <1>6

\* The rows of a scan are what answered it.
LEMMA RowsOfScan ==
    ASSUME HeardRight
    PROVE  /\ RowsGood(DeviceRows) /\ ClientsNamed(DeviceRows)
           /\ IpsOf(DeviceRows) = HeardIps
           /\ HeardMacs \cap Macs \subseteq MacsOf(DeviceRows)
<1> DEFINE r1 == FromArp
           r2 == WithNmap(r1)
           r3 == WithLldp(r2)
           r4 == WithDhcp(r3)
           r5 == WithPtr(r4)
           r6 == WithServices(r5)
<1>1. RowsGood(r1) /\ IpsOf(r1) = ArpIps /\ MacsOf(r1) = ArpMacs
  BY ArpRows
<1> HIDE DEF r1
<1>2. /\ RowsGood(r2) /\ IpsOf(r2) = IpsOf(r1) \cup NmapIps
      /\ (MacsOf(r1) \cup NmapMacs) \cap Macs \subseteq MacsOf(r2)
  BY <1>1, NmapRows
<1> HIDE DEF r2
<1>3. /\ RowsGood(r3) /\ IpsOf(r3) = IpsOf(r2) \cup LldpIps
      /\ (MacsOf(r2) \cup LldpMacs) \cap Macs \subseteq MacsOf(r3)
  BY <1>2, LldpRows
<1> HIDE DEF r3
<1>4. RowsGood(r4) /\ ClientsNamed(r4) /\ IpsOf(r4) = IpsOf(r3) /\ MacsOf(r4) = MacsOf(r3)
  BY <1>3, DhcpRows
<1> HIDE DEF r4
<1>5. RowsGood(r5) /\ ClientsNamed(r5) /\ IpsOf(r5) = IpsOf(r4) /\ MacsOf(r5) = MacsOf(r4)
  BY <1>4, PtrRows
<1> HIDE DEF r5
<1>6. /\ RowsGood(r6) /\ ClientsNamed(r6)
      /\ IpsOf(r6) = IpsOf(r5) \cup {a.ip : a \in heard.svc} /\ MacsOf(r5) \subseteq MacsOf(r6)
  BY <1>5, ServiceRows
<1>7. DeviceRows = r6
  BY DEF DeviceRows, r1, r2, r3, r4, r5
<1> HIDE DEF r6
<1>8. HeardIps = ArpIps \cup NmapIps \cup LldpIps \cup {a.ip : a \in heard.svc}
  BY DEF HeardIps, ArpIps, NmapIps, LldpIps
<1>9. HeardMacs = ArpMacs \cup NmapMacs \cup LldpMacs
  BY DEF HeardMacs, ArpMacs, NmapMacs, LldpMacs
<1> QED BY <1>1, <1>2, <1>3, <1>4, <1>5, <1>6, <1>7, <1>8, <1>9

\* The rows depend on what was heard alone.
LEMMA SameRows ==
    ASSUME heard' = heard
    PROVE  DeviceRows' = DeviceRows /\ HeardRight' = HeardRight
<1>1. HeardRight' = HeardRight
  BY DEF HeardRight
<1>2. DeviceRows' = DeviceRows
  <2> DEFINE r1 == FromArp
             r2 == WithNmap(r1)
             r3 == WithLldp(r2)
             r4 == WithDhcp(r3)
             r5 == WithPtr(r4)
             r6 == WithServices(r5)
  <2>1. DeviceRows = r6 /\ DeviceRows' = r6'
    BY DEF DeviceRows
  <2>2. r1' = r1
    BY DEF FromArp
  <2> HIDE DEF r1
  <2>3. r2' = r2
    BY <2>2 DEF WithNmap, Has, Named, ToSet
  <2> HIDE DEF r2
  <2>4. r3' = r3
    BY <2>3 DEF WithLldp, Has
  <2> HIDE DEF r3
  <2>5. r4' = r4
    BY <2>4 DEF WithDhcp, Named, ToSet
  <2> HIDE DEF r4
  <2>6. r5' = r5
    BY <2>5 DEF WithPtr, Named, ToSet
  <2> HIDE DEF r5
  <2>7. r6' = r6
    BY <2>6 DEF WithServices, Named, ToSet
  <2> QED BY <2>1, <2>7
<1> QED BY <1>1, <1>2

----------------------------------------------------------------------------
(* What is stored of the rows.                                             *)

\* The rows that are stored are those of what answered.
LEMMA RowsStored ==
    ASSUME HeardRight
    PROVE  /\ InsertedRows(DeviceRows) \subseteq StoredRow
           /\ {d.ip : d \in InsertedRows(DeviceRows)} = HeardIps
           /\ HeardMacs \cap Macs \subseteq {d.mac : d \in InsertedRows(DeviceRows)}
           /\ \A m : Sightings(DeviceRows, m) # {} <=> \E d \in InsertedRows(DeviceRows) : d.mac = m
<1> DEFINE R == DeviceRows
           row(i) == [ip |-> R[i].ip, mac |-> R[i].mac, name |-> StripNul(R[i].name)]
<1>1. \A i \in DOMAIN R : R[i] \in DeviceRow
  BY RowsOfScan DEF RowsGood
<1>2. InsertedRows(R) = {row(i) : i \in DOMAIN R}
  BY DEF InsertedRows
<1>3. /\ IpsOf(R) = HeardIps /\ HeardMacs \cap Macs \subseteq MacsOf(R)
  BY RowsOfScan
<1> HIDE DEF R
<1>4. \A i \in DOMAIN R : row(i) \in StoredRow /\ row(i).ip = R[i].ip /\ row(i).mac = R[i].mac
  BY <1>1 DEF DeviceRow, StoredRow, StripNul, Names
<1> HIDE DEF row
<1>5. InsertedRows(R) \subseteq StoredRow
  BY <1>2, <1>4
<1>6. {d.ip : d \in InsertedRows(R)} = IpsOf(R) /\ {d.mac : d \in InsertedRows(R)} = MacsOf(R)
  BY <1>2, <1>4 DEF IpsOf, MacsOf
<1>7. \A m : Sightings(R, m) # {} <=> \E d \in InsertedRows(R) : d.mac = m
  BY <1>2, <1>4 DEF Sightings
<1> QED BY <1>3, <1>5, <1>6, <1>7 DEF R

\* The name the inventory gets is one a row has, and that of a client that
\* broadcast its name is not missing.
LEMMA NameOfRows ==
    ASSUME HeardRight, NEW m \in Macs
    PROVE  /\ NameOf(DeviceRows, m) \in Names \cup {NoName}
           /\ Sightings(DeviceRows, m) # {} /\ (\E a \in heard.dhcp : a.mac = m)
                 => NameOf(DeviceRows, m) # NoName
<1> DEFINE R == DeviceRows
           withName == {i \in Sightings(R, m) : R[i].name # NoName}
<1>1. RowsGood(R) /\ ClientsNamed(R)
  BY RowsOfScan
<1>2. NameOf(R, m) = IF withName = {} THEN NoName ELSE R[Min(withName)].name
  BY DEF NameOf
<1> HIDE DEF R
<1>3. \A i \in DOMAIN R : R[i] \in DeviceRow /\ i \in Nat
  BY <1>1 DEF RowsGood
<1>4. withName \in SUBSET Nat /\ withName \subseteq DOMAIN R
  BY <1>3 DEF Sightings
<1>5. withName # {} => Min(withName) \in withName
  BY <1>4, MinOfNumbers
<1>6. NameOf(R, m) \in Names \cup {NoName}
  BY <1>2, <1>3, <1>4, <1>5 DEF DeviceRow
<1>7. ASSUME Sightings(R, m) # {}, \E a \in heard.dhcp : a.mac = m
      PROVE  NameOf(R, m) # NoName
  <2>1. PICK i \in Sightings(R, m) : TRUE
    BY <1>7
  <2>2. R[i].name # NoName
    BY <1>1, <1>7, <2>1 DEF ClientsNamed, Sightings
  <2>3. Min(withName) \in withName
    BY <1>5, <2>1, <2>2
  <2> QED BY <1>2, <2>1, <2>2, <2>3
<1> QED BY <1>6, <1>7 DEF R

\* The inventory is kept in its type.
LEMMA UpsertedTyped ==
    ASSUME ContentShape, ~Refused(DeviceRows)
    PROVE  Upserted(DeviceRows) \in [Macs -> [name : {NoName, "plain"}, times : Nat]]
<1>1. \A m \in Macs : NameOf(DeviceRows, m) \in {NoName, "plain"}
  BY NameOfRows DEF Refused, ContentShape, Names
<1>2. \A m \in Macs : inventory[m] \in [name : {NoName, "plain"}, times : Nat]
  BY DEF ContentShape
<1>3. \A m \in Macs : inventory[m].name \in {NoName, "plain"} /\ inventory[m].times + 1 \in Nat
  BY <1>2
<1> QED BY <1>1, <1>2, <1>3 DEF Upserted

\* What a source answers is of its kind.
LEMMA HearsRight ==
    ASSUME HeardRight, NEW source \in {"dhcp", "arp", "nmap", "lldp", "ptr", "svc"}, Hears(source)
    PROVE  HeardRight'
<1>1. PICK some : /\ some \subseteq Answers[source]
                  /\ heard' = [heard EXCEPT ![source] = some]
  BY DEF Hears, kSubset
<1>2. CASE source = "dhcp"
  BY <1>1, <1>2 DEF HeardRight, Answers
<1>3. CASE source = "arp"
  BY <1>1, <1>3 DEF HeardRight, Answers
<1>4. CASE source = "nmap"
  BY <1>1, <1>4 DEF HeardRight, Answers
<1>5. CASE source = "lldp"
  BY <1>1, <1>5 DEF HeardRight, Answers
<1>6. CASE source = "ptr"
  BY <1>1, <1>6 DEF HeardRight, Answers
<1>7. CASE source = "svc"
  BY <1>1, <1>7 DEF HeardRight, Answers
<1> QED BY <1>2, <1>3, <1>4, <1>5, <1>6, <1>7

----------------------------------------------------------------------------
(* The steps of a scan.                                                    *)

\* At first nothing is stored and nothing counted.
LEMMA ContentStarts == ContentInit => ContentInv
<1> SUFFICES ASSUME ContentInit PROVE ContentInv
  OBVIOUS
<1>1. ContentShape
  <2>1. HeardRight
    BY DEF ContentInit, HeardRight, NothingHeard
  <2>2. /\ runs \in [Scans -> {"none", "open", "ok", "partial", "error"}]
        /\ devices \in [Scans -> SUBSET StoredRow]
        /\ inventory \in [Macs -> [name : {NoName, "plain"}, times : Nat]]
    BY DEF ContentInit
  <2>3. stage \in Stages /\ scan \in 0..MaxScans /\ light \in BOOLEAN /\ failed \in BOOLEAN
    <3>1. 0 \in 0..MaxScans
      BY ContentBounds
    <3> QED BY <3>1 DEF ContentInit, Stages
  <2> QED BY <2>1, <2>2, <2>3 DEF ContentShape
<1>2. \A m \in Macs : {s \in Scans : \E d \in devices[s] : d.mac = m} = {}
  BY DEF ContentInit
<1>3. SeenCountsScans
  BY <1>2, FS_EmptySet DEF ContentInit, SeenCountsScans
<1> QED BY <1>1, <1>3 DEF ContentInit, ContentInv, NothingYet, TxHolds, ErrorsEmpty, Scans

\* Until the rows are made, a step changes what was heard and the stage.
LEMMA CollectingKeeps ==
    ASSUME ContentInv, Collected, HeardRight', failed' \in BOOLEAN, stage # "idle",
           stage \notin {"stored"},
           stage' \in {"neighbors", "sweep", "hosts", "extras", "services", "resolve",
                      "devices", "failed"}
    PROVE  ContentInv'
<1> USE DEF ContentInv, Collected
<1>1. ContentShape'
  BY DEF ContentShape, Stages
<1>2. NothingYet' /\ TxHolds' /\ ErrorsEmpty'
  BY DEF NothingYet, TxHolds, ErrorsEmpty
<1>3. SeenCountsScans'
  BY DEF SeenCountsScans
<1> QED BY <1>1, <1>2, <1>3

\* Every step before the rows are made is one of these.
LEMMA CollectSteps ==
    ASSUME ContentInv, \/ Capture \/ Neighbors \/ ArpSweep \/ Hosts \/ Extras \/ Services
                       \/ Resolve \/ RequiredFails
    PROVE  ContentInv'
<1>1. HeardRight /\ failed \in BOOLEAN /\ light \in BOOLEAN
  BY DEF ContentInv, ContentShape
<1>2. CASE Capture
  BY <1>1, <1>2, HearsRight, CollectingKeeps DEF Capture
<1>3. CASE Neighbors
  <2>1. HeardRight'
    BY <1>1, <1>3, HearsRight, SameRows DEF Neighbors
  <2> QED BY <1>1, <1>3, <2>1, CollectingKeeps DEF Neighbors
<1>4. CASE ArpSweep
  BY <1>1, <1>4, HearsRight, CollectingKeeps DEF ArpSweep
<1>5. CASE Hosts \/ Services
  <2>1. HeardRight' /\ failed' \in BOOLEAN
    BY <1>1, <1>5, HearsRight, SameRows DEF Hosts, Services, Section
  <2> QED BY <1>1, <1>5, <2>1, CollectingKeeps DEF Hosts, Services, Section
<1>6. CASE Extras
  <2>1. HeardRight' /\ failed' \in BOOLEAN
    BY <1>1, <1>6, SameRows DEF Extras
  <2> QED BY <1>1, <1>6, <2>1, CollectingKeeps DEF Extras
<1>7. CASE Resolve
  BY <1>1, <1>7, HearsRight, CollectingKeeps DEF Resolve
<1>8. CASE RequiredFails
  BY <1>1, <1>8, SameRows, CollectingKeeps DEF RequiredFails, Fails
<1> QED BY <1>2, <1>3, <1>4, <1>5, <1>6, <1>7, <1>8

\* The transaction changes nothing that others see before it commits.
LEMMA PersistSteps ==
    ASSUME ContentInv, InsertDevices \/ UpsertInventory \/ NulRefused \/ DbFails \/ InsertRest
    PROVE  ContentInv'
<1> USE DEF Persisting, Fails
<1>1. stage # "idle" /\ stage # "stored" /\ UNCHANGED <<scan, light, heard, failed, runs, devices, inventory>>
  BY DEF InsertDevices, UpsertInventory, NulRefused, DbFails, InsertRest
<1>2. stage' \in {"inventory", "rest", "commit", "failed"}
  BY DEF InsertDevices, UpsertInventory, NulRefused, DbFails, InsertRest
<1>3. ContentShape'
  BY <1>1, <1>2, SameRows DEF ContentInv, ContentShape, Stages
<1>4. NothingYet' /\ ErrorsEmpty'
  BY <1>1, <1>2 DEF ContentInv, NothingYet, ErrorsEmpty
<1>5. SeenCountsScans'
  BY <1>1 DEF ContentInv, SeenCountsScans
<1>6. TxHolds'
  <2> DEFINE R == DeviceRows
  <2>1. R' = R /\ InsertedRows(R)' = InsertedRows(R) /\ Refused(R)' = Refused(R)
        /\ Upserted(R)' = Upserted(R) /\ TxHolds
    <3>1. R' = R
      BY <1>1, SameRows
    <3> HIDE DEF R
    <3> QED BY <1>1, <3>1 DEF InsertedRows, StripNul, Refused, Upserted, NameOf, Sightings, R, ContentInv
  <2> HIDE DEF R
  <2> QED BY <1>1, <1>2, <2>1
          DEF InsertDevices, UpsertInventory, NulRefused, DbFails, InsertRest, TxHolds, R
<1> QED BY <1>3, <1>4, <1>5, <1>6 DEF ContentInv

\* A commit counts the scan once for every MAC it has a row of.
LEMMA CommitStep == ASSUME ContentInv, Commit PROVE ContentInv'
<1> DEFINE R == DeviceRows
<1>1. /\ scan \in Scans /\ HeardRight /\ devices[scan] = {} /\ runs[scan] = "open"
      /\ devices \in [Scans -> SUBSET StoredRow] /\ ContentShape
  BY DEF Commit, ContentInv, ContentShape, NothingYet, Scans
<1>2. /\ tx = [rows |-> R, stored |-> InsertedRows(R), inventory |-> Upserted(R)] /\ ~Refused(R)
  BY DEF Commit, ContentInv, TxHolds
<1>3. /\ devices' = [devices EXCEPT ![scan] = InsertedRows(R)] /\ inventory' = Upserted(R)
      /\ stage' = "stored" /\ UNCHANGED <<scan, light, heard, failed, runs>>
  BY <1>2 DEF Commit
<1>4. R' = R /\ HeardRight'
  BY <1>1, <1>3, SameRows
<1>5. inventory' \in [Macs -> [name : {NoName, "plain"}, times : Nat]]
  BY <1>1, <1>2, <1>3, UpsertedTyped
<1>6. /\ InsertedRows(R) \subseteq StoredRow
      /\ \A m : Sightings(R, m) # {} <=> \E d \in InsertedRows(R) : d.mac = m
  BY <1>1, RowsStored
<1>7. /\ devices' \in [Scans -> SUBSET StoredRow] /\ devices'[scan] = InsertedRows(R)
      /\ \A s \in Scans \ {scan} : devices'[s] = devices[s]
  BY <1>1, <1>3, <1>6
<1>8. ContentShape'
  BY <1>1, <1>3, <1>4, <1>5, <1>7 DEF ContentShape, Stages
<1>9. NothingYet' /\ ErrorsEmpty'
  BY <1>1, <1>3, <1>7 DEF ContentInv, NothingYet, ErrorsEmpty, Scans
<1>10. TxHolds'
  <2>1. InsertedRows(R)' = InsertedRows(R)
    BY <1>4 DEF InsertedRows, StripNul
  <2> QED BY <1>3, <1>7, <2>1 DEF TxHolds
<1>11. SeenCountsScans'
  <2> SUFFICES ASSUME NEW m \in Macs
               PROVE  inventory'[m].times = Cardinality({s \in Scans : \E d \in devices'[s] : d.mac = m})
    BY DEF SeenCountsScans
  <2> DEFINE before == {s \in Scans : \E d \in devices[s] : d.mac = m}
             after == {s \in Scans : \E d \in devices'[s] : d.mac = m}
  <2>1. inventory[m].times = Cardinality(before) /\ scan \notin before
    BY <1>1 DEF ContentInv, SeenCountsScans
  <2>2. IsFiniteSet(before)
    <3>1. IsFiniteSet(Scans) /\ before \subseteq Scans
      BY ContentBounds, FS_Interval DEF Scans
    <3> QED BY <3>1, FS_Subset
  <2>3. CASE Sightings(R, m) = {}
    <3>1. after = before
      BY <1>1, <1>6, <1>7, <2>3
    <3> QED BY <1>3, <2>1, <2>3, <3>1 DEF Upserted
  <2>4. CASE Sightings(R, m) # {}
    <3>1. after = before \cup {scan}
      BY <1>1, <1>6, <1>7, <2>4
    <3>2. inventory'[m].times = inventory[m].times + 1
      BY <1>3, <2>4 DEF Upserted
    <3> HIDE DEF before, after
    <3> QED BY <2>1, <2>2, <3>1, <3>2, FS_AddElement DEF after
  <2> QED BY <2>3, <2>4
<1> QED BY <1>8, <1>9, <1>10, <1>11 DEF ContentInv

\* A scan begins with its run open, and ends, or dies, with nothing heard.
LEMMA RunSteps == ASSUME ContentInv, Begin \/ Complete \/ Dies PROVE ContentInv'
<1> USE DEF ContentInv
<1>1. heard' = heard \/ heard' = NothingHeard
  BY DEF Begin, Complete, Dies, Idle
<1>2. HeardRight'
  BY <1>1, SameRows DEF ContentShape, HeardRight, NothingHeard
<1>3. UNCHANGED <<devices, inventory>>
  BY DEF Begin, Complete, Dies
<1>4. SeenCountsScans'
  BY <1>3 DEF SeenCountsScans
<1>5. stage' \in {"capture", "idle"} /\ TxHolds'
  BY DEF Begin, Complete, Dies, Idle, TxHolds
<1>6. CASE Begin
  <2>1. scan' \in Scans /\ scan' = scan + 1 /\ scan \in Nat /\ runs' = [runs EXCEPT ![scan'] = "open"]
        /\ stage' = "capture"
    BY <1>6, ContentBounds DEF Begin, ContentShape, Scans
  <2>2. /\ runs' \in [Scans -> {"none", "open", "ok", "partial", "error"}] /\ runs'[scan'] = "open"
        /\ \A s \in Scans \ {scan'} : runs'[s] = runs[s]
    BY <2>1 DEF ContentShape
  <2>3. ContentShape'
    BY <1>2, <1>3, <1>6, <2>1, <2>2 DEF Begin, ContentShape, Stages, Scans
  <2>4. NothingYet'
    BY <1>3, <1>6, <2>1, <2>2 DEF Begin, NothingYet, Scans
  <2>5. ErrorsEmpty'
    BY <1>3, <2>2 DEF ErrorsEmpty
  <2> QED BY <1>4, <1>5, <2>3, <2>4, <2>5
<1>7. CASE Complete
  <2> DEFINE end == IF stage = "failed" THEN "error" ELSE IF failed THEN "partial" ELSE "ok"
  <2>1. /\ scan \in Scans /\ runs' = [runs EXCEPT ![scan] = end] /\ UNCHANGED scan
        /\ stage' = "idle" /\ light' = FALSE /\ failed' = FALSE
    BY <1>7 DEF Complete, Idle, ContentShape, NothingYet, Scans
  <2>2. /\ runs' \in [Scans -> {"none", "open", "ok", "partial", "error"}] /\ runs'[scan] = end
        /\ \A s \in Scans \ {scan} : runs'[s] = runs[s]
    BY <2>1 DEF ContentShape
  <2>3. ContentShape'
    BY <1>2, <1>3, <2>1, <2>2 DEF ContentShape, Stages
  <2>4. NothingYet'
    BY <1>3, <2>1, <2>2 DEF NothingYet, Scans
  <2>5. ErrorsEmpty'
    BY <1>3, <2>1, <2>2 DEF ErrorsEmpty, NothingYet
  <2> QED BY <1>4, <1>5, <2>3, <2>4, <2>5
<1>8. CASE Dies
  <2>1. ContentShape'
    BY <1>2, <1>3, <1>8 DEF Dies, Idle, ContentShape, Stages
  <2>2. NothingYet' /\ ErrorsEmpty'
    BY <1>3, <1>8 DEF Dies, Idle, NothingYet, ErrorsEmpty
  <2> QED BY <1>4, <1>5, <2>1, <2>2
<1> QED BY <1>6, <1>7, <1>8

\* The strengthening for what a scan stores holds in every reachable state.
THEOREM ContentInductive == ContentSpec => []ContentInv
<1>1. ContentInv /\ [ContentNext]_contentVars => ContentInv'
  <2> SUFFICES ASSUME ContentInv, [ContentNext]_contentVars PROVE ContentInv'
    OBVIOUS
  <2>1. CASE ContentNext
    BY <2>1, CollectSteps, PersistSteps, CommitStep, RunSteps DEF ContentNext
  <2>2. CASE UNCHANGED contentVars
    <3>1. ContentShape' /\ NothingYet' /\ ErrorsEmpty' /\ SeenCountsScans'
      BY <2>2 DEF contentVars, ContentInv, ContentShape, NothingYet, ErrorsEmpty,
                  SeenCountsScans, HeardRight
    <3>2. TxHolds'
      <4> DEFINE R == DeviceRows
      <4>1. R' = R
        BY <2>2, SameRows DEF contentVars
      <4> HIDE DEF R
      <4>2. InsertedRows(R)' = InsertedRows(R) /\ Refused(R)' = Refused(R)
            /\ Upserted(R)' = Upserted(R)
        BY <2>2, <4>1 DEF InsertedRows, StripNul, Refused, Upserted, NameOf, Sightings, contentVars
      <4> QED BY <2>2, <4>1, <4>2 DEF TxHolds, contentVars, ContentInv, R
    <3> QED BY <3>1, <3>2 DEF ContentInv
  <2> QED BY <2>1, <2>2
<1> QED BY <1>1, ContentStarts, PTL DEF ContentSpec

\* What a scan stores is what answered it: an address and a MAC of every answer, or
\* nothing and an error; and the inventory counts it once for every MAC.
THEOREM InventoryIsExact == ContentSpec => []InventoryExact
<1>1. ContentInv => InventoryExact
  <2> SUFFICES ASSUME ContentInv PROVE InventoryExact
    OBVIOUS
  <2>1. ContentTypeOK
    <3>1. ASSUME NEW m \in Macs PROVE inventory[m].times \in 0..MaxScans
      <4> DEFINE S == {s \in Scans : \E d \in devices[s] : d.mac = m}
      <4>1. IsFiniteSet(Scans) /\ Cardinality(Scans) <= MaxScans
        <5>1. MaxScans \in Nat
          BY ContentBounds
        <5>2. /\ IsFiniteSet(1..MaxScans)
              /\ Cardinality(1..MaxScans) = IF 1 > MaxScans THEN 0 ELSE MaxScans - 1 + 1
          BY <5>1, FS_Interval
        <5> QED BY <5>1, <5>2 DEF Scans
      <4>2. Cardinality(S) <= MaxScans /\ Cardinality(S) \in Nat
        <5>1. IsFiniteSet(S) /\ Cardinality(S) <= Cardinality(Scans)
          BY <4>1, FS_Subset
        <5> QED BY <4>1, <5>1, ContentBounds, FS_CardinalityType
      <4> QED BY <4>2, ContentBounds DEF ContentInv, SeenCountsScans
    <3>2. \A m \in Macs : inventory[m].name \in {NoName, "plain"}
      BY DEF ContentInv, ContentShape
    <3>3. \A s \in Scans : \A d \in devices[s] : d.ip \in Ips /\ d.mac \in Macs \cup {NoMac}
      BY DEF ContentInv, ContentShape, StoredRow
    <3> QED BY <3>1, <3>2, <3>3 DEF ContentInv, ContentShape, ContentTypeOK
  <2>2. EvidenceKept
    BY RowsStored DEF ContentInv, ContentShape, TxHolds, ErrorsEmpty, EvidenceKept
  <2> QED BY <2>1, <2>2 DEF ContentInv, InventoryExact
<1> QED BY <1>1, ContentInductive, PTL

\* A name once known stays, and a client that broadcast its name gets one.
THEOREM InventoryKeepsNames == ContentSpec => InventoryRemembers
<1>1. ContentInv /\ [ContentNext]_contentVars
        => [\A m \in Macs :
              /\ inventory[m].name # NoName => inventory'[m].name # NoName
              /\ inventory'[m].times > inventory[m].times /\ (\E a \in heard.dhcp : a.mac = m) =>
                    inventory'[m].name # NoName]_contentVars
  <2> SUFFICES ASSUME ContentInv, ContentNext, NEW m \in Macs
               PROVE  /\ inventory[m].name # NoName => inventory'[m].name # NoName
                      /\ inventory'[m].times > inventory[m].times /\ (\E a \in heard.dhcp : a.mac = m) =>
                            inventory'[m].name # NoName
    OBVIOUS
  <2>1. inventory[m].times \in Nat /\ HeardRight
    BY DEF ContentInv, ContentShape
  <2>2. inventory' = inventory \/ Commit
    BY DEF ContentNext, Begin, Capture, Neighbors, ArpSweep, Hosts, Extras, Services, Resolve,
           RequiredFails, Section, Collected, InsertDevices, UpsertInventory, NulRefused,
           DbFails, InsertRest, Persisting, Complete, Dies
  <2>3. CASE Commit
    <3>1. inventory' = Upserted(DeviceRows)
      BY <2>3 DEF Commit, ContentInv, TxHolds
    <3>2. CASE Sightings(DeviceRows, m) = {}
      BY <2>1, <3>1, <3>2 DEF Upserted
    <3>3. CASE Sightings(DeviceRows, m) # {}
      <4>1. inventory'[m].name = IF NameOf(DeviceRows, m) = NoName THEN inventory[m].name
                                 ELSE NameOf(DeviceRows, m)
        BY <3>1, <3>3 DEF Upserted
      <4> QED BY <2>1, <3>3, <4>1, NameOfRows
    <3> QED BY <3>2, <3>3
  <2>4. CASE inventory' = inventory
    BY <2>1, <2>4
  <2> QED BY <2>2, <2>3, <2>4
<1> QED BY <1>1, ContentInductive, PTL DEF ContentSpec, InventoryRemembers

(***************************************************************************)
(* The walk over the neighbour tables of the switches.                     *)
(***************************************************************************)

\* The devices in sight within so many hops, and the ways there.
Ways(k) ==
    {q \in [0..k -> Network] :
        /\ q[0] \in ToSet(Seeds) /\ role[q[0]] # "excluded"
        /\ \A i \in 1..k : q[i] = q[i - 1] \/ Follows(q[i - 1], q[i])}

CrawlShape ==
    /\ CrawlTypeOK /\ scope \in {"full", "spine"} /\ uplink \in [Network -> Network \cup {0}]
    /\ polled \subseteq {b \in Within(MaxDepth) : role[b] # "mute"}
    /\ \A b \in visited : role[b] # "excluded"
    /\ Cardinality(visited) + Len(queue) =< Max({MaxNodes, Len(Seeds)})

\* Who waits is within as many hops as it says, and nobody waits behind one that is
\* further away.
Waiting(n, d) == \E i \in DOMAIN queue : queue[i][1] = n /\ queue[i][2] <= d
NearFirst ==
    /\ \A i \in DOMAIN queue :
          queue[i][1] \in Within(queue[i][2]) /\ role[queue[i][1]] # "excluded"
    /\ \A i, j \in DOMAIN queue : i < j =>
          queue[i][2] <= queue[j][2] /\ queue[j][2] <= queue[i][2] + 1

\* Nothing is left behind: a seed waits or was met, and so is whatever follows a device
\* that was walked, one hop further than that device is; and a device that was met within
\* the depth, and answers, was walked.
NoneLeftBehind ==
    /\ \A n \in Within(0) : n \in visited \/ Waiting(n, 0)
    /\ ~truncated =>
       /\ \A b \in polled, n \in Network, k \in 0..MaxDepth :
             b \in Within(k) /\ Follows(b, n) => n \in visited \/ Waiting(n, k + 1)
       /\ \A b \in visited : b \in Within(MaxDepth) /\ role[b] # "mute" => b \in polled

CrawlInv == CrawlShape /\ NearFirst /\ NoneLeftBehind

\* A way is a hop longer than the way to the hop before, and a way can wait anywhere.
LEMMA WithinIsWays ==
    ASSUME NEW k \in Nat
    PROVE  \A n : n \in Within(k) <=> \E q \in Ways(k) : q[k] = n
BY DEF Within, Ways

\* Who is in sight is a device of the network.
LEMMA WithinTypes ==
    ASSUME NEW k \in Nat, NEW n \in Within(k)
    PROVE  n \in Network
<1>1. PICK q \in Ways(k) : q[k] = n
  BY WithinIsWays
<1> QED BY <1>1 DEF Ways

\* At no hop are the seeds that may be crawled.
LEMMA WithinStarts ==
    /\ \A n \in Within(0) : n \in ToSet(Seeds) /\ n \in Network /\ role[n] # "excluded"
    /\ \A n \in Network : n \in ToSet(Seeds) /\ role[n] # "excluded" => n \in Within(0)
<1>1. ASSUME NEW n \in Within(0) PROVE n \in ToSet(Seeds) /\ n \in Network /\ role[n] # "excluded"
  <2>1. PICK q \in Ways(0) : q[0] = n
    BY WithinIsWays
  <2> QED BY <2>1 DEF Ways
<1>2. ASSUME NEW n \in Network, n \in ToSet(Seeds), role[n] # "excluded" PROVE n \in Within(0)
  <2> DEFINE q == [i \in 0..0 |-> n]
  <2>1. q \in Ways(0) /\ q[0] = n
    BY <1>2 DEF Ways
  <2> HIDE DEF q
  <2> QED BY <2>1, WithinIsWays
<1> QED BY <1>1, <1>2

\* A device that follows one in sight is in sight one hop later.
LEMMA WithinGrows ==
    ASSUME NEW k \in Nat, NEW b \in Within(k), NEW n \in Network, n = b \/ Follows(b, n)
    PROVE  n \in Within(k + 1)
<1>1. PICK q \in Ways(k) : q[k] = b
  BY WithinIsWays
<1> DEFINE r == [i \in 0..(k + 1) |-> IF i <= k THEN q[i] ELSE n]
<1>2. /\ q \in [0..k -> Network] /\ q[0] \in ToSet(Seeds) /\ role[q[0]] # "excluded"
      /\ \A i \in 1..k : q[i] = q[i - 1] \/ Follows(q[i - 1], q[i])
  BY DEF Ways
<1>3. r \in [0..(k + 1) -> Network] /\ r[0] = q[0] /\ r[k + 1] = n
  BY <1>2
<1>4. \A i \in 1..(k + 1) : r[i] = r[i - 1] \/ Follows(r[i - 1], r[i])
  <2> TAKE i \in 1..(k + 1)
  <2>1. CASE i <= k
    <3>1. r[i] = q[i] /\ r[i - 1] = q[i - 1] /\ i \in 1..k
      BY <2>1
    <3> HIDE DEF r
    <3> QED BY <1>2, <3>1
  <2>2. CASE i = k + 1
    <3>1. r[i] = n /\ r[i - 1] = b
      BY <1>1, <2>2
    <3> HIDE DEF r
    <3> QED BY <3>1
  <2> QED BY <2>1, <2>2
<1> HIDE DEF r
<1>5. r \in Ways(k + 1)
  BY <1>2, <1>3, <1>4 DEF Ways
<1> QED BY <1>3, <1>5, WithinIsWays

\* A device in sight was there a hop earlier, or follows one that was.
LEMMA WithinShrinks ==
    ASSUME NEW k \in Nat, NEW n \in Within(k + 1)
    PROVE  n \in Within(k) \/ \E b \in Within(k) : Follows(b, n)
<1>1. PICK q \in Ways(k + 1) : q[k + 1] = n
  BY WithinIsWays
<1> DEFINE r == [i \in 0..k |-> q[i]]
<1>2. /\ q \in [0..(k + 1) -> Network] /\ q[0] \in ToSet(Seeds) /\ role[q[0]] # "excluded"
      /\ \A i \in 1..(k + 1) : q[i] = q[i - 1] \/ Follows(q[i - 1], q[i])
  BY DEF Ways
<1>3. r \in [0..k -> Network] /\ \A i \in 0..k : r[i] = q[i]
  BY <1>2
<1> HIDE DEF r
<1>4. \A i \in 1..k : r[i] = r[i - 1] \/ Follows(r[i - 1], r[i])
  <2> TAKE i \in 1..k
  <2>1. r[i] = q[i] /\ r[i - 1] = q[i - 1] /\ i \in 1..(k + 1)
    BY <1>3
  <2> QED BY <1>2, <2>1
<1>5. r \in Ways(k) /\ r[k] = q[k]
  BY <1>2, <1>3, <1>4 DEF Ways
<1>6. q[k] \in Within(k)
  BY <1>5, WithinIsWays
<1>7. q[k + 1] = q[k] \/ Follows(q[k], q[k + 1])
  <2>1. k + 1 \in 1..(k + 1) /\ (k + 1) - 1 = k
    OBVIOUS
  <2> QED BY <1>2, <2>1
<1> QED BY <1>1, <1>6, <1>7

\* In the same way anybody stays in sight.
LEMMA WithinStays ==
    ASSUME NEW k \in Nat, NEW l \in Nat, k <= l, NEW n \in Within(k)
    PROVE  n \in Within(l)
<1>1. PICK q \in Ways(k) : q[k] = n
  BY WithinIsWays
<1> DEFINE r == [i \in 0..l |-> IF i <= k THEN q[i] ELSE n]
<1>2. /\ q \in [0..k -> Network] /\ q[0] \in ToSet(Seeds) /\ role[q[0]] # "excluded"
      /\ \A i \in 1..k : q[i] = q[i - 1] \/ Follows(q[i - 1], q[i])
  BY DEF Ways
<1>3. r \in [0..l -> Network] /\ r[0] = q[0] /\ r[l] = n
  BY <1>1, <1>2
<1>4. \A i \in 1..l : r[i] = r[i - 1] \/ Follows(r[i - 1], r[i])
  <2> TAKE i \in 1..l
  <2>1. CASE i <= k
    <3>1. r[i] = q[i] /\ r[i - 1] = q[i - 1] /\ i \in 1..k
      BY <2>1
    <3> HIDE DEF r
    <3> QED BY <1>2, <3>1
  <2>2. CASE i > k
    <3>1. r[i] = n /\ r[i - 1] = n
      BY <1>1, <2>2
    <3> HIDE DEF r
    <3> QED BY <3>1
  <2> QED BY <2>1, <2>2
<1> HIDE DEF r
<1>5. r \in Ways(l)
  BY <1>2, <1>3, <1>4 DEF Ways
<1> QED BY <1>3, <1>5, WithinIsWays

\* The network stays as it is, and with it who is in sight.
LEMMA WithinStands ==
    ASSUME UNCHANGED worldVars
    PROVE  /\ \A b, n : Follows(b, n)' <=> Follows(b, n)
           /\ \A k : Within(k)' = Within(k)
<1>1. \A b, n : Follows(b, n)' <=> Follows(b, n)
  BY DEF worldVars, Follows
<1>2. \A k : Within(k)' = Within(k)
  BY <1>1 DEF worldVars, Within
<1> QED BY <1>1, <1>2

\* Numbers of devices, of those that wait, and of the room for more.
LEMMA CrawlFacts ==
    ASSUME CrawlShape
    PROVE  /\ queue \in Seq(Network \X (0..(MaxDepth + 1))) /\ Len(queue) \in Nat
           /\ visited \subseteq Network /\ IsFiniteSet(visited) /\ Cardinality(visited) \in Nat
           /\ MaxDepth \in Nat /\ MaxNodes \in Nat /\ FanoutCap \in Nat /\ Len(Seeds) \in Nat
           /\ Max({MaxNodes, Len(Seeds)}) >= MaxNodes
           /\ Max({MaxNodes, Len(Seeds)}) >= Len(Seeds)
           /\ Max({MaxNodes, Len(Seeds)}) \in Nat
<1>1. /\ queue \in Seq(Network \X (0..(MaxDepth + 1))) /\ Len(queue) \in Nat
      /\ visited \subseteq Network
  BY DEF CrawlShape, CrawlTypeOK
<1>2. /\ MaxDepth \in Nat /\ MaxNodes \in Nat /\ FanoutCap \in Nat /\ Len(Seeds) \in Nat
      /\ Switches \in Nat
  BY CrawlBounds
<1>3. IsFiniteSet(visited) /\ Cardinality(visited) \in Nat
  <2>1. IsFiniteSet(Network)
    BY <1>2, FS_Interval DEF Network
  <2> QED BY <1>1, <2>1, FS_Subset, FS_CardinalityType
<1>4. Max({MaxNodes, Len(Seeds)}) \in {MaxNodes, Len(Seeds)}
  BY <1>2, MaxOfTwo
<1>5. Max({MaxNodes, Len(Seeds)}) \in Nat
  BY <1>2, <1>4
<1> QED BY <1>1, <1>2, <1>3, <1>5, MaxOfTwo

\* While nothing was cut off, everybody nearer than all who wait was met: the first who
\* was not would follow one that was walked, and wait.
LEMMA Swept ==
    ASSUME CrawlInv, ~truncated, NEW h \in Nat, h <= MaxDepth + 1,
           \A i \in DOMAIN queue : queue[i][2] >= h
    PROVE  \A k \in Nat : k < h => Within(k) \subseteq visited
<1> DEFINE Unmet == {k \in Nat : k < h /\ ~(Within(k) \subseteq visited)}
<1>0. MaxDepth \in Nat /\ \A i \in DOMAIN queue : queue[i][2] \in Nat
  <2>1. \A i \in DOMAIN queue : queue[i] \in Network \X (0..(MaxDepth + 1))
    BY CrawlFacts DEF CrawlInv
  <2> QED BY <2>1, CrawlFacts DEF CrawlInv
<1>1. SUFFICES ASSUME Unmet # {} PROVE FALSE
  OBVIOUS
<1>2. PICK k \in Unmet : \A j \in Unmet : k <= j
  <2>1. Unmet \in SUBSET Nat
    OBVIOUS
  <2> HIDE DEF Unmet
  <2> QED BY <1>1, <2>1, MinOfNumbers
<1>3. PICK n \in Within(k) : n \notin visited
  OBVIOUS
<1>4. k \in Nat /\ k < h /\ n \in Network
  BY <1>3, WithinTypes
<1>5. \A d \in Nat : d < h => ~Waiting(n, d)
  BY <1>0 DEF Waiting
<1>6. CASE k = 0
  <2>1. n \in visited \/ Waiting(n, 0)
    BY <1>3, <1>6 DEF CrawlInv, NoneLeftBehind
  <2> QED BY <1>3, <1>4, <1>5, <1>6, <2>1
<1>7. CASE k # 0
  <2> DEFINE j == k - 1
  <2>1. j \in Nat /\ j + 1 = k /\ j < k /\ j < h /\ j <= MaxDepth /\ k <= MaxDepth
    BY <1>0, <1>4, <1>7
  <2>2. Within(j) \subseteq visited
    <3>1. j \notin Unmet
      BY <1>2, <2>1
    <3> QED BY <2>1, <3>1
  <2> HIDE DEF j
  <2>3. n \in Within(j) \/ \E b \in Within(j) : Follows(b, n)
    BY <1>3, <2>1, WithinShrinks
  <2>4. PICK b \in Within(j) : Follows(b, n)
    BY <1>3, <2>2, <2>3
  <2>5. b \in visited /\ b \in Within(MaxDepth) /\ role[b] # "mute"
    <3>1. b \in Within(MaxDepth)
      BY <1>0, <2>1, WithinStays
    <3> QED BY <2>2, <2>4, <3>1 DEF Follows
  <2>6. b \in polled
    BY <2>5 DEF CrawlInv, NoneLeftBehind
  <2>7. j \in 0..MaxDepth
    BY <1>0, <2>1
  <2>8. n \in visited \/ Waiting(n, j + 1)
    BY <1>4, <2>4, <2>6, <2>7 DEF CrawlInv, NoneLeftBehind
  <2> QED BY <1>3, <1>4, <1>5, <2>1, <2>8
<1> QED BY <1>6, <1>7

\* The first in the queue is as near as anyone who waits, and nobody is two hops
\* further.
LEMMA PopFacts ==
    ASSUME CrawlInv, queue # <<>>
    PROVE  /\ Pop = queue[1] /\ Pop \in Network \X (0..(MaxDepth + 1)) /\ 1 \in DOMAIN queue
           /\ Pop[1] \in Network /\ Pop[2] \in Nat /\ Pop[2] <= MaxDepth + 1
           /\ Pop[1] \in Within(Pop[2]) /\ role[Pop[1]] # "excluded"
           /\ \A i \in DOMAIN queue : queue[i][2] \in Nat /\ queue[i][1] \in Network
           /\ \A i \in DOMAIN queue : Pop[2] <= queue[i][2] /\ queue[i][2] <= Pop[2] + 1
<1>1. /\ queue \in Seq(Network \X (0..(MaxDepth + 1))) /\ Len(queue) \in Nat /\ MaxDepth \in Nat
  BY CrawlFacts DEF CrawlInv
<1>2. 1 \in DOMAIN queue /\ Pop = queue[1]
  BY <1>1 DEF Pop
<1>3. \A i \in DOMAIN queue : queue[i] \in Network \X (0..(MaxDepth + 1))
  BY <1>1
<1>4. \A i \in DOMAIN queue : queue[i][2] \in Nat /\ queue[i][2] <= MaxDepth + 1 /\ queue[i][1] \in Network
  BY <1>1, <1>3
<1>5. Pop[1] \in Within(Pop[2]) /\ role[Pop[1]] # "excluded"
  BY <1>2 DEF CrawlInv, NearFirst
<1>6. ASSUME NEW i \in DOMAIN queue PROVE Pop[2] <= queue[i][2] /\ queue[i][2] <= Pop[2] + 1
  <2>1. CASE i = 1
    BY <1>2, <1>4, <2>1
  <2>2. CASE i # 1
    <3>1. 1 < i
      BY <1>1, <2>2
    <3> QED BY <1>2, <3>1 DEF CrawlInv, NearFirst
  <2> QED BY <2>1, <2>2
<1> QED BY <1>2, <1>3, <1>4, <1>5, <1>6

\* The first leaves the queue, and those it brought in join it at the end, one hop
\* further than it was.
LEMMA QueueMoves ==
    ASSUME CrawlInv, queue # <<>>, UNCHANGED worldVars,
           NEW A \in Seq(Network \X (0..(MaxDepth + 1))), queue' = Tail(queue) \o A,
           \A j \in DOMAIN A : /\ A[j][2] = Pop[2] + 1 /\ A[j][1] \in Within(Pop[2] + 1)
                               /\ role[A[j][1]] # "excluded"
    PROVE  /\ queue' \in Seq(Network \X (0..(MaxDepth + 1)))
           /\ Len(queue') = Len(queue) - 1 + Len(A)
           /\ NearFirst'
           /\ \A n, d : Waiting(n, d) => n = Pop[1] \/ Waiting(n, d)'
           /\ \A j \in DOMAIN A, d \in Nat : Pop[2] + 1 <= d => Waiting(A[j][1], d)'
<1> DEFINE t == Tail(queue)
<1>1. /\ queue \in Seq(Network \X (0..(MaxDepth + 1))) /\ Len(queue) \in Nat /\ Len(queue) > 0
  BY CrawlFacts DEF CrawlInv
<1>2. /\ t \in Seq(Network \X (0..(MaxDepth + 1))) /\ Len(t) = Len(queue) - 1
      /\ \A i \in 1..(Len(queue) - 1) : t[i] = queue[i + 1] /\ i + 1 \in DOMAIN queue
  BY <1>1
<1>3. Len(A) \in Nat /\ DOMAIN A = 1..Len(A)
  OBVIOUS
<1> HIDE DEF t
<1>4. /\ queue' \in Seq(Network \X (0..(MaxDepth + 1)))
      /\ Len(queue') = Len(queue) - 1 + Len(A)
      /\ DOMAIN queue' = 1..(Len(queue) - 1 + Len(A))
  <2>1. queue' = t \o A
    BY DEF t
  <2> QED BY <1>1, <1>2, <1>3, <2>1
<1>5. \A i \in 1..(Len(queue) - 1 + Len(A)) :
         queue'[i] = IF i <= Len(queue) - 1 THEN queue[i + 1] ELSE A[i - (Len(queue) - 1)]
  <2>1. queue' = t \o A
    BY DEF t
  <2>2. \A i \in 1..(Len(t) + Len(A)) : (t \o A)[i] = IF i <= Len(t) THEN t[i] ELSE A[i - Len(t)]
    BY <1>2
  <2> QED BY <1>1, <1>2, <2>1, <2>2
<1>6. \A i \in DOMAIN queue' :
         \/ i <= Len(queue) - 1 /\ i + 1 \in DOMAIN queue /\ queue'[i] = queue[i + 1]
         \/ /\ i > Len(queue) - 1 /\ i - (Len(queue) - 1) \in DOMAIN A
            /\ queue'[i] = A[i - (Len(queue) - 1)]
  <2> TAKE i \in DOMAIN queue'
  <2>1. i \in 1..(Len(queue) - 1 + Len(A)) /\ i \in Nat
    BY <1>1, <1>3, <1>4
  <2>2. CASE i <= Len(queue) - 1
    <3>1. i \in 1..(Len(queue) - 1)
      BY <1>1, <2>1, <2>2
    <3>2. queue'[i] = queue[i + 1]
      BY <1>5, <2>1, <2>2
    <3> QED BY <1>2, <2>2, <3>1, <3>2
  <2>3. CASE i > Len(queue) - 1
    <3>1. i - (Len(queue) - 1) \in 1..Len(A) /\ ~(i <= Len(queue) - 1)
      BY <1>1, <1>3, <2>1, <2>3
    <3>2. queue'[i] = A[i - (Len(queue) - 1)]
      BY <1>5, <2>1, <3>1
    <3> QED BY <1>3, <2>3, <3>1, <3>2
  <2> QED BY <1>1, <2>1, <2>2, <2>3
<1>7. /\ \A k : Within(k)' = Within(k)
      /\ role' = role
  BY WithinStands DEF worldVars
<1>8. /\ \A i \in DOMAIN queue : Pop[2] <= queue[i][2] /\ queue[i][2] <= Pop[2] + 1
      /\ Pop[2] \in Nat /\ \A i \in DOMAIN queue : queue[i][2] \in Nat
  BY PopFacts
<1>9. ASSUME NEW i \in DOMAIN queue'
      PROVE  queue'[i][1] \in Within(queue'[i][2]) /\ role[queue'[i][1]] # "excluded"
  <2>1. CASE i + 1 \in DOMAIN queue /\ queue'[i] = queue[i + 1]
    BY <2>1 DEF CrawlInv, NearFirst
  <2>2. CASE i - (Len(queue) - 1) \in DOMAIN A /\ queue'[i] = A[i - (Len(queue) - 1)]
    BY <2>2
  <2> QED BY <1>6, <2>1, <2>2
<1>10. ASSUME NEW i \in DOMAIN queue', NEW j \in DOMAIN queue', i < j
       PROVE  queue'[i][2] <= queue'[j][2] /\ queue'[j][2] <= queue'[i][2] + 1
  <2>1. i \in Nat /\ j \in Nat
    BY <1>1, <1>3, <1>4
  <2>2. CASE j <= Len(queue) - 1
    <3>0. ~(j > Len(queue) - 1) /\ ~(i > Len(queue) - 1) /\ i + 1 < j + 1
      BY <1>1, <1>10, <2>1, <2>2
    <3>1. /\ i + 1 \in DOMAIN queue /\ queue'[i] = queue[i + 1]
          /\ j + 1 \in DOMAIN queue /\ queue'[j] = queue[j + 1]
      BY <1>6, <1>10, <3>0
    <3>2. /\ queue[i + 1][2] <= queue[j + 1][2]
          /\ queue[j + 1][2] <= queue[i + 1][2] + 1
      BY <3>0, <3>1 DEF CrawlInv, NearFirst
    <3> QED BY <3>1, <3>2
  <2>3. CASE j > Len(queue) - 1
    <3>0. ~(j <= Len(queue) - 1)
      BY <1>1, <2>1, <2>3
    <3>1. queue'[j][2] = Pop[2] + 1
      BY <1>6, <3>0
    <3>2. Pop[2] <= queue'[i][2] /\ queue'[i][2] <= Pop[2] + 1 /\ queue'[i][2] \in Nat
      <4>1. CASE i + 1 \in DOMAIN queue /\ queue'[i] = queue[i + 1]
        BY <1>8, <4>1, Zenon
      <4>2. CASE i - (Len(queue) - 1) \in DOMAIN A /\ queue'[i] = A[i - (Len(queue) - 1)]
        <5>1. queue'[i][2] = Pop[2] + 1
          BY <4>2
        <5> QED BY <1>8, <5>1
      <4> QED BY <1>6, <4>1, <4>2, Zenon
    <3>3. Pop[2] \in Nat
      BY <1>8
    <3> DEFINE x == queue'[i][2]
               y == queue'[j][2]
               p == Pop[2]
    <3>4. y = p + 1 /\ p <= x /\ x <= p + 1 /\ x \in Nat /\ p \in Nat
      BY <3>1, <3>2, <3>3
    <3> HIDE DEF x, y, p
    <3>5. x <= y /\ y <= x + 1
      BY <3>4
    <3> QED BY <3>5 DEF x, y
  <2>4. j <= Len(queue) - 1 \/ j > Len(queue) - 1
    BY <1>1, <2>1
  <2> QED BY <2>2, <2>3, <2>4, Zenon
<1>11. NearFirst'
  BY <1>7, <1>9, <1>10 DEF NearFirst
<1>12. ASSUME NEW n, NEW d, Waiting(n, d) PROVE n = Pop[1] \/ Waiting(n, d)'
  <2>1. PICK i \in DOMAIN queue : queue[i][1] = n /\ queue[i][2] <= d
    BY <1>12 DEF Waiting
  <2>2. CASE i = 1
    BY <2>1, <2>2, PopFacts
  <2>3. CASE i # 1
    <3> DEFINE j == i - 1
    <3>1. j \in 1..(Len(queue) - 1) /\ j + 1 = i
      BY <1>1, <2>3
    <3> HIDE DEF j
    <3>2. j \in DOMAIN queue' /\ queue'[j] = queue[i]
      BY <1>1, <1>3, <1>4, <1>5, <3>1
    <3> QED BY <2>1, <3>2 DEF Waiting
  <2> QED BY <2>2, <2>3
<1>13. ASSUME NEW j \in DOMAIN A, NEW d \in Nat, Pop[2] + 1 <= d PROVE Waiting(A[j][1], d)'
  <2> DEFINE i == Len(queue) - 1 + j
  <2>1. i \in 1..(Len(queue) - 1 + Len(A)) /\ ~(i <= Len(queue) - 1) /\ i - (Len(queue) - 1) = j
    BY <1>1, <1>3
  <2> HIDE DEF i
  <2>2. i \in DOMAIN queue' /\ queue'[i] = A[j]
    BY <1>4, <1>5, <2>1
  <2> QED BY <1>13, <2>2 DEF Waiting
<1> QED BY <1>4, <1>11, <1>12, <1>13

\* Whom a switch leads to: whoever follows it and was not met.
LEMMA WantedFollow ==
    ASSUME CrawlShape, NEW b \in Network, role[b] \notin {"mute", "excluded"}, NEW V
    PROVE  /\ Wanted(b, V) \in Seq(Network)
           /\ \A i \in DOMAIN Wanted(b, V) :
                 Follows(b, Wanted(b, V)[i]) /\ role[Wanted(b, V)[i]] # "excluded"
           /\ \A n \in Network : Follows(b, n) /\ n \notin V =>
                 \E i \in DOMAIN Wanted(b, V) : Wanted(b, V)[i] = n
<1> DEFINE S == {n \in Network \ V : role[n] \notin {"excluded", "endpoint"} /\ OnPath(b, n)}
           w == Sifted(hears[b], S)
<1>1. hears[b] \in Seq(Network) /\ scope \in {"full", "spine"} /\ uplink[b] \in Network \cup {0}
  BY DEF CrawlShape, CrawlTypeOK
<1>2. \A n \in Network : role[n] \in Roles
  BY DEF CrawlShape, CrawlTypeOK
<1>3. CASE AtEdge(b)
  <2>1. Wanted(b, V) = <<>>
    BY <1>3 DEF Wanted
  <2>2. \A n \in Network : ~Follows(b, n)
    BY <1>3 DEF AtEdge, Follows
  <2> QED BY <2>1, <2>2
<1>4. CASE ~AtEdge(b)
  <2>1. Wanted(b, V) = w
    BY <1>4 DEF Wanted
  <2>2. \A n \in S : n \in ToSet(hears[b]) => Follows(b, n)
    BY <1>1, <1>2, <1>4 DEF AtEdge, OnPath, Follows, Roles
  <2>3. \A n \in Network : Follows(b, n) /\ n \notin V => n \in S /\ n \in ToSet(hears[b])
    BY <1>1, <1>4 DEF AtEdge, OnPath, Follows
  <2>4. \A n \in S : role[n] # "excluded"
    OBVIOUS
  <2> HIDE DEF S
  <2>5. /\ w \in Seq(Network)
        /\ \A i \in DOMAIN w : w[i] \in S /\ \E k \in DOMAIN hears[b] : hears[b][k] = w[i]
        /\ \A k \in DOMAIN hears[b] : hears[b][k] \in S => \E i \in DOMAIN w : w[i] = hears[b][k]
    BY <1>1, Sifting
  <2> HIDE DEF w
  <2>6. \A i \in DOMAIN w : w[i] \in S /\ w[i] \in ToSet(hears[b])
    BY <2>5 DEF ToSet
  <2>7. \A n \in S : n \in ToSet(hears[b]) => \E i \in DOMAIN w : w[i] = n
    BY <2>5 DEF ToSet
  <2> QED BY <2>1, <2>2, <2>3, <2>4, <2>5, <2>6, <2>7
<1> QED BY <1>3, <1>4

\* The caps let through as many as there is room for, and the first of them.
LEMMA EnqueuedFits ==
    ASSUME NEW b, NEW V, NEW Q, Wanted(b, V) \in Seq(Network),
           Cardinality(V) \in Nat, Len(Q) \in Nat
    PROVE  /\ Enqueued(b, V, Q) \in Seq(Network)
           /\ Len(Enqueued(b, V, Q)) <= Len(Wanted(b, V))
           /\ \A i \in DOMAIN Enqueued(b, V, Q) :
                 i \in DOMAIN Wanted(b, V) /\ Enqueued(b, V, Q)[i] = Wanted(b, V)[i]
           /\ Len(Enqueued(b, V, Q)) = Len(Wanted(b, V)) =>
                 DOMAIN Enqueued(b, V, Q) = DOMAIN Wanted(b, V)
           /\ \/ Len(Enqueued(b, V, Q)) = 0
              \/ Cardinality(V) + Len(Q) + Len(Enqueued(b, V, Q)) <= MaxNodes
<1> DEFINE w == Wanted(b, V)
           S == {FanoutCap, Room(V, Q), Len(w)}
           m == Min(S)
<1>1. /\ MaxNodes \in Nat /\ FanoutCap \in Nat /\ Len(w) \in Nat /\ w \in Seq(Network)
  BY CrawlBounds
<1>2. /\ Room(V, Q) \in Nat
      /\ Room(V, Q) = 0 \/ Cardinality(V) + Len(Q) + Room(V, Q) <= MaxNodes
  BY <1>1 DEF Room
<1>3. S \in SUBSET Nat /\ S # {} /\ Len(w) \in S /\ Room(V, Q) \in S
  BY <1>1, <1>2
<1>4. Enqueued(b, V, Q) = SubSeq(w, 1, m)
  BY DEF Enqueued
<1> HIDE DEF S, w
<1>5. m \in Nat /\ m <= Len(w) /\ m <= Room(V, Q)
  BY <1>3, MinOfNumbers
<1> HIDE DEF m
<1>6. /\ SubSeq(w, 1, m) \in Seq(Network) /\ Len(SubSeq(w, 1, m)) = m
      /\ \A i \in 1..m : SubSeq(w, 1, m)[i] = w[i] /\ i \in 1..Len(w)
  BY <1>1, <1>5
<1>7. DOMAIN SubSeq(w, 1, m) = 1..m /\ DOMAIN w = 1..Len(w)
  BY <1>1, <1>6
<1>8. m = 0 \/ Cardinality(V) + Len(Q) + m <= MaxNodes
  BY <1>1, <1>2, <1>5
<1> QED BY <1>4, <1>5, <1>6, <1>7, <1>8 DEF w

\* The seeds wait, and nobody else.
LEMMA CrawlStarts == CrawlInit => CrawlInv
<1> SUFFICES ASSUME CrawlInit PROVE CrawlInv
  OBVIOUS
<1> DEFINE N == {b \in Network : role[b] # "excluded"}
<1>0. /\ MaxDepth \in Nat /\ Seeds \in Seq(Network) /\ Len(Seeds) \in Nat /\ Switches \in Nat
      /\ MaxNodes \in Nat
  BY CrawlBounds DEF Network
<1>1. /\ scope \in {"full", "spine"} /\ role \in [Network -> Roles]
      /\ visited = {} /\ polled = {} /\ truncated = FALSE /\ exhausted = FALSE
  BY DEF CrawlInit
<1>2. /\ hears \in [Network -> Seq(Network)] /\ uplink \in [Network -> Network \cup {0}]
  <2>1. PICK links \in SUBSET (Network \X Network) :
           /\ hears = [b \in Network |-> Table(b, links)]
           /\ uplink \in [Network -> Network \cup {0}]
    <3>1. PICK k \in 0..MaxLinks :
             \E links \in kSubset(k, {l \in Network \X Network : l[1] # l[2]}) :
                /\ hears = [b \in Network |-> Table(b, links)]
                /\ uplink \in [Network -> Network \cup {0}]
      BY Zenon DEF CrawlInit
    <3> QED BY <3>1 DEF kSubset
  <2>2. \A b \in Network : Table(b, links) \in Seq(Network)
    <3> TAKE b \in Network
    <3> DEFINE S == {l[2] : l \in {k \in links : k[1] = b}}
    <3>1. S \in SUBSET Network
      OBVIOUS
    <3>2. IsFiniteSet(Network)
      BY <1>0, FS_Interval DEF Network
    <3> HIDE DEF S
    <3>3. SetToSeq(S) \in Seq(S)
      BY <3>1, <3>2, FS_Subset, SeqOfSet
    <3>4. SetToSeq(S) \in Seq(Network)
      BY <3>1, <3>3
    <3> QED BY <3>4 DEF Table, S
  <2> QED BY <2>1, <2>2
<1>3. /\ Starts \in Seq(Network) /\ Len(Starts) <= Len(Seeds)
      /\ \A i \in DOMAIN Starts : Starts[i] \in N /\ \E k \in DOMAIN Seeds : Seeds[k] = Starts[i]
      /\ \A k \in DOMAIN Seeds : Seeds[k] \in N => \E i \in DOMAIN Starts : Starts[i] = Seeds[k]
  <2> HIDE DEF N
  <2>1. Starts = Sifted(Seeds, N)
    BY DEF Starts, N
  <2> QED BY <1>0, <2>1, Sifting
<1>4. queue = [i \in DOMAIN Starts |-> <<Starts[i], 0>>]
  BY DEF CrawlInit
<1>5. /\ queue \in Seq(Network \X (0..(MaxDepth + 1))) /\ Len(queue) = Len(Starts)
      /\ DOMAIN queue = DOMAIN Starts
      /\ \A i \in DOMAIN queue : queue[i] = <<Starts[i], 0>>
  <2> DEFINE n == Len(Starts)
  <2>1. n \in Nat /\ DOMAIN Starts = 1..n
    BY <1>3
  <2>2. 0 \in 0..(MaxDepth + 1)
    BY <1>0
  <2>3. \A i \in 1..n : <<Starts[i], 0>> \in Network \X (0..(MaxDepth + 1))
    BY <1>3, <2>1, <2>2
  <2> HIDE DEF n
  <2>4. queue \in [1..n -> Network \X (0..(MaxDepth + 1))]
    BY <1>4, <2>1, <2>3
  <2>5. queue \in Seq(Network \X (0..(MaxDepth + 1))) /\ Len(queue) = n
    BY <2>1, <2>4
  <2> QED BY <1>4, <2>1, <2>5 DEF n
<1>6. CrawlTypeOK
  BY <1>1, <1>2, <1>5 DEF CrawlTypeOK
<1>7. CrawlShape
  <2>1. Cardinality(visited) = 0
    BY <1>1, FS_EmptySet
  <2>2. Max({MaxNodes, Len(Seeds)}) >= Len(Seeds) /\ Max({MaxNodes, Len(Seeds)}) \in Nat
    <3>1. Max({MaxNodes, Len(Seeds)}) \in {MaxNodes, Len(Seeds)}
      BY <1>0, MaxOfTwo
    <3> QED BY <1>0, <3>1, MaxOfTwo
  <2>3. Len(Starts) \in Nat
    BY <1>3
  <2>4. Cardinality(visited) + Len(queue) =< Max({MaxNodes, Len(Seeds)})
    <3> DEFINE m == Max({MaxNodes, Len(Seeds)})
    <3>1. m >= Len(Seeds) /\ m \in Nat
      BY <2>2
    <3> HIDE DEF m
    <3>2. Cardinality(visited) + Len(queue) =< m
      BY <1>0, <1>3, <1>5, <2>1, <2>3, <3>1
    <3> QED BY <3>2 DEF m
  <2> QED BY <1>1, <1>2, <1>6, <2>4 DEF CrawlShape
<1>8. \A i \in DOMAIN queue : queue[i][1] \in Within(0) /\ role[queue[i][1]] # "excluded"
  BY <1>3, <1>5, WithinStarts DEF ToSet
<1>9. NearFirst
  BY <1>5, <1>8 DEF NearFirst
<1>10. \A n \in Within(0) : Waiting(n, 0)
  <2> TAKE n \in Within(0)
  <2>1. n \in N /\ \E k \in DOMAIN Seeds : Seeds[k] = n
    BY WithinStarts DEF ToSet
  <2>2. PICK i \in DOMAIN Starts : Starts[i] = n
    BY <1>3, <2>1
  <2> QED BY <1>5, <2>2 DEF Waiting
<1>11. NoneLeftBehind
  BY <1>1, <1>10 DEF NoneLeftBehind
<1> QED BY <1>7, <1>9, <1>11 DEF CrawlInv

\* A queue that nobody joins.
LEMMA NothingAdded ==
    ASSUME NEW T, NEW s \in Seq(T), s # <<>>
    PROVE  <<>> \in Seq(T) /\ Tail(s) = Tail(s) \o <<>> /\ Len(<<>>) = 0 /\ DOMAIN <<>> = {}
OBVIOUS

\* An address that is known already is passed over.
LEMMA DropCrawls == ASSUME CrawlInv, Drop PROVE CrawlInv'
<1> DEFINE T == Network \X (0..(MaxDepth + 1))
<1>1. /\ queue # <<>> /\ Known /\ queue' = Tail(queue)
      /\ UNCHANGED <<worldVars, visited, polled, truncated, exhausted>>
  BY DEF Drop
<1>2. /\ queue \in Seq(T) /\ Len(queue) \in Nat /\ Cardinality(visited) \in Nat
      /\ Max({MaxNodes, Len(Seeds)}) \in Nat
  BY CrawlFacts DEF CrawlInv
<1>3. Pop[1] \in visited
  BY <1>1, PopFacts DEF Known
<1>4. /\ queue' \in Seq(T) /\ Len(queue') = Len(queue) - 1 /\ NearFirst'
      /\ \A n, d : Waiting(n, d) => n = Pop[1] \/ Waiting(n, d)'
  <2>1. queue' = Tail(queue) \o <<>> /\ <<>> \in Seq(T) /\ DOMAIN <<>> = {} /\ Len(<<>>) = 0
    BY <1>1, <1>2, NothingAdded
  <2> DEFINE A == <<>>
  <2>2. A \in Seq(T) /\ queue' = Tail(queue) \o A /\ DOMAIN A = {} /\ Len(A) = 0
    BY <2>1
  <2> HIDE DEF A
  <2>3. \A j \in DOMAIN A : /\ A[j][2] = Pop[2] + 1 /\ A[j][1] \in Within(Pop[2] + 1)
                            /\ role[A[j][1]] # "excluded"
    BY <2>2
  <2>4. UNCHANGED worldVars
    BY <1>1
  <2>5. /\ queue' \in Seq(T) /\ Len(queue') = Len(queue) - 1 + Len(A) /\ NearFirst'
        /\ \A n, d : Waiting(n, d) => n = Pop[1] \/ Waiting(n, d)'
    BY <1>1, <2>2, <2>3, <2>4, QueueMoves
  <2> QED BY <1>2, <2>2, <2>5
<1>5. /\ \A b, n : Follows(b, n)' <=> Follows(b, n)
      /\ \A k : Within(k)' = Within(k)
      /\ role' = role /\ hears' = hears /\ scope' = scope /\ uplink' = uplink
  BY <1>1, WithinStands DEF worldVars
<1>6. Cardinality(visited') + Len(queue') =< Max({MaxNodes, Len(Seeds)})
  BY <1>1, <1>2, <1>4 DEF CrawlInv, CrawlShape
<1>7. CrawlTypeOK'
  BY <1>1, <1>4, <1>5 DEF CrawlInv, CrawlShape, CrawlTypeOK
<1>8. CrawlShape'
  BY <1>1, <1>5, <1>6, <1>7 DEF CrawlInv, CrawlShape
<1>9. NoneLeftBehind'
  <2>1. \A n \in Within(0) : n \in visited' \/ Waiting(n, 0)'
    BY <1>1, <1>3, <1>4 DEF CrawlInv, NoneLeftBehind
  <2>2. ASSUME ~truncated', NEW b \in polled', NEW n \in Network, NEW k \in 0..MaxDepth,
               b \in Within(k), Follows(b, n)
        PROVE  n \in visited' \/ Waiting(n, k + 1)'
    BY <1>1, <1>3, <1>4, <2>2 DEF CrawlInv, NoneLeftBehind
  <2>3. ASSUME ~truncated', NEW b \in visited', b \in Within(MaxDepth), role[b] # "mute"
        PROVE  b \in polled'
    BY <1>1, <2>3 DEF CrawlInv, NoneLeftBehind
  <2> QED BY <1>5, <2>1, <2>2, <2>3 DEF NoneLeftBehind
<1> QED BY <1>4, <1>8, <1>9 DEF CrawlInv

\* A device too deep is not one that was in sight: all of those were met before.
LEMMA LeafCrawls == ASSUME CrawlInv, Leaf PROVE CrawlInv'
<1> DEFINE T == Network \X (0..(MaxDepth + 1))
           c == Pop[1]
<1>1. /\ queue # <<>> /\ ~Known /\ queue' = Tail(queue) /\ visited' = visited \cup {c}
      /\ Pop[2] > MaxDepth \/ role[c] = "mute"
      /\ UNCHANGED <<worldVars, polled, truncated, exhausted>>
  BY DEF Leaf
<1>2. /\ queue \in Seq(T) /\ Len(queue) \in Nat /\ Cardinality(visited) \in Nat
      /\ IsFiniteSet(visited) /\ MaxDepth \in Nat /\ visited \subseteq Network
      /\ Max({MaxNodes, Len(Seeds)}) \in Nat
  BY CrawlFacts DEF CrawlInv
<1>3. /\ c \in Network /\ c \notin visited /\ role[c] # "excluded"
      /\ \A i \in DOMAIN queue : queue[i][2] \in Nat /\ Pop[2] <= queue[i][2] /\ Pop[2] \in Nat
  BY <1>1, PopFacts DEF Known
<1>4. /\ queue' \in Seq(T) /\ Len(queue') = Len(queue) - 1 /\ NearFirst'
      /\ \A n, d : Waiting(n, d) => n = c \/ Waiting(n, d)'
  <2>1. queue' = Tail(queue) \o <<>> /\ <<>> \in Seq(T) /\ DOMAIN <<>> = {} /\ Len(<<>>) = 0
    BY <1>1, <1>2, NothingAdded
  <2> DEFINE A == <<>>
  <2>2. A \in Seq(T) /\ queue' = Tail(queue) \o A /\ DOMAIN A = {} /\ Len(A) = 0
    BY <2>1
  <2> HIDE DEF A
  <2>3. \A j \in DOMAIN A : /\ A[j][2] = Pop[2] + 1 /\ A[j][1] \in Within(Pop[2] + 1)
                            /\ role[A[j][1]] # "excluded"
    BY <2>2
  <2>4. UNCHANGED worldVars
    BY <1>1
  <2>5. /\ queue' \in Seq(T) /\ Len(queue') = Len(queue) - 1 + Len(A) /\ NearFirst'
        /\ \A n, d : Waiting(n, d) => n = Pop[1] \/ Waiting(n, d)'
    BY <1>1, <2>2, <2>3, <2>4, QueueMoves
  <2> QED BY <1>2, <2>2, <2>5
<1>5. /\ \A b, n : Follows(b, n)' <=> Follows(b, n)
      /\ \A k : Within(k)' = Within(k)
      /\ role' = role /\ hears' = hears /\ scope' = scope /\ uplink' = uplink
  BY <1>1, WithinStands DEF worldVars
<1> HIDE DEF c
<1>6. Cardinality(visited') + Len(queue') =< Max({MaxNodes, Len(Seeds)})
  <2>1. Cardinality(visited') = Cardinality(visited) + 1
    BY <1>1, <1>2, <1>3, FS_AddElement
  <2> QED BY <1>1, <1>2, <1>4, <2>1 DEF CrawlInv, CrawlShape
<1>7. CrawlTypeOK'
  BY <1>1, <1>3, <1>4, <1>5 DEF CrawlInv, CrawlShape, CrawlTypeOK
<1>8. CrawlShape'
  BY <1>1, <1>3, <1>5, <1>6, <1>7 DEF CrawlInv, CrawlShape
<1>9. ASSUME ~truncated, c \in Within(MaxDepth), role[c] # "mute" PROVE FALSE
  <2> DEFINE h == MaxDepth + 1
  <2>1. h \in Nat /\ h <= MaxDepth + 1 /\ MaxDepth < h
    BY <1>2
  <2>2. \A i \in DOMAIN queue : queue[i][2] >= h
    BY <1>1, <1>2, <1>3, <1>9
  <2> HIDE DEF h
  <2>3. Within(MaxDepth) \subseteq visited
    BY <1>2, <1>9, <2>1, <2>2, Swept
  <2> QED BY <1>3, <1>9, <2>3
<1>10. NoneLeftBehind'
  <2>1. \A n \in Within(0) : n \in visited' \/ Waiting(n, 0)'
    BY <1>1, <1>4 DEF CrawlInv, NoneLeftBehind
  <2>2. ASSUME ~truncated', NEW b \in polled', NEW n \in Network, NEW k \in 0..MaxDepth,
               b \in Within(k), Follows(b, n)
        PROVE  n \in visited' \/ Waiting(n, k + 1)'
    BY <1>1, <1>4, <2>2 DEF CrawlInv, NoneLeftBehind
  <2>3. ASSUME ~truncated', NEW b \in visited', b \in Within(MaxDepth), role[b] # "mute"
        PROVE  b \in polled'
    BY <1>1, <1>9, <2>3 DEF CrawlInv, NoneLeftBehind
  <2> QED BY <1>5, <2>1, <2>2, <2>3 DEF NoneLeftBehind
<1> QED BY <1>4, <1>8, <1>10 DEF CrawlInv

\* A device that is walked brings in whoever follows it, unless the caps cut some off.
LEMMA WalkCrawls == ASSUME CrawlInv, Walk PROVE CrawlInv'
<1> DEFINE T == Network \X (0..(MaxDepth + 1))
           c == Pop[1]
           d == Pop[2]
           w == Wanted(c, visited')
           more == Enqueued(c, visited', Tail(queue))
<1>1. /\ queue # <<>> /\ ~Known /\ d <= MaxDepth /\ role[c] # "mute"
      /\ visited' = visited \cup {c} /\ polled' = polled \cup {c}
      /\ queue' = Tail(queue) \o [i \in DOMAIN more |-> <<more[i], d + 1>>]
      /\ truncated' = (truncated \/ Len(more) < Len(w))
      /\ UNCHANGED <<worldVars, exhausted>>
  BY DEF Walk
<1>2. /\ queue \in Seq(T) /\ Len(queue) \in Nat /\ Cardinality(visited) \in Nat
      /\ IsFiniteSet(visited) /\ MaxDepth \in Nat /\ visited \subseteq Network
      /\ MaxNodes \in Nat /\ Max({MaxNodes, Len(Seeds)}) \in Nat
      /\ Max({MaxNodes, Len(Seeds)}) >= MaxNodes
  BY CrawlFacts DEF CrawlInv
<1>3. /\ c \in Network /\ c \notin visited /\ role[c] # "excluded" /\ d \in Nat
      /\ c \in Within(d)
      /\ \A i \in DOMAIN queue : queue[i][2] >= d
  <2>1. \A i \in DOMAIN queue : queue[i][2] \in Nat /\ d <= queue[i][2] /\ d \in Nat
    BY <1>1, PopFacts
  <2> QED BY <1>1, <2>1, PopFacts DEF Known
<1> HIDE DEF c, d
<1>4. /\ w \in Seq(Network)
      /\ \A i \in DOMAIN w : Follows(c, w[i]) /\ role[w[i]] # "excluded"
      /\ \A n \in Network : Follows(c, n) /\ n \notin visited' => \E i \in DOMAIN w : w[i] = n
  <2>1. CrawlShape /\ c \in Network /\ role[c] \notin {"mute", "excluded"}
    BY <1>1, <1>3 DEF CrawlInv, c
  <2>2. PICK V : V = visited'
    OBVIOUS
  <2>3. PICK W : W = Wanted(c, V)
    OBVIOUS
  <2>4. /\ W \in Seq(Network)
        /\ \A i \in DOMAIN W : Follows(c, W[i]) /\ role[W[i]] # "excluded"
        /\ \A n \in Network : Follows(c, n) /\ n \notin V => \E i \in DOMAIN W : W[i] = n
    BY <2>1, <2>3, WantedFollow
  <2>5. w = W
    BY <2>2, <2>3
  <2> HIDE DEF w
  <2> QED BY <2>2, <2>4, <2>5
<1>5. /\ Cardinality(visited') = Cardinality(visited) + 1
      /\ Len(Tail(queue)) = Len(queue) - 1 /\ Len(queue) > 0
  <2>1. Cardinality(visited') = Cardinality(visited) + 1
    BY <1>1, <1>2, <1>3, FS_AddElement
  <2> HIDE DEF T
  <2>2. Len(Tail(queue)) = Len(queue) - 1 /\ Len(queue) > 0
    BY <1>1, <1>2
  <2> QED BY <2>1, <2>2
<1>6. /\ more \in Seq(Network) /\ Len(more) <= Len(w)
      /\ \A i \in DOMAIN more : i \in DOMAIN w /\ more[i] = w[i]
      /\ Len(more) = Len(w) => DOMAIN more = DOMAIN w
      /\ \/ Len(more) = 0
         \/ Cardinality(visited') + Len(Tail(queue)) + Len(more) <= MaxNodes
  <2>1. Cardinality(visited') \in Nat /\ Len(Tail(queue)) \in Nat
    BY <1>2, <1>5
  <2>2. PICK V, Q : V = visited' /\ Q = Tail(queue)
    OBVIOUS
  <2>3. Wanted(c, V) \in Seq(Network) /\ Cardinality(V) \in Nat /\ Len(Q) \in Nat
    BY <1>4, <2>1, <2>2
  <2>4. w = Wanted(c, V) /\ more = Enqueued(c, V, Q)
    BY <2>2
  <2> HIDE DEF w, more
  <2>5. /\ Enqueued(c, V, Q) \in Seq(Network) /\ Len(Enqueued(c, V, Q)) <= Len(Wanted(c, V))
        /\ \A i \in DOMAIN Enqueued(c, V, Q) :
              i \in DOMAIN Wanted(c, V) /\ Enqueued(c, V, Q)[i] = Wanted(c, V)[i]
        /\ Len(Enqueued(c, V, Q)) = Len(Wanted(c, V)) =>
              DOMAIN Enqueued(c, V, Q) = DOMAIN Wanted(c, V)
        /\ \/ Len(Enqueued(c, V, Q)) = 0
           \/ Cardinality(V) + Len(Q) + Len(Enqueued(c, V, Q)) <= MaxNodes
    BY <2>3, EnqueuedFits
  <2> QED BY <2>2, <2>4, <2>5
<1> HIDE DEF w, more
<1> PICK A : A = [i \in DOMAIN more |-> <<more[i], d + 1>>]
  OBVIOUS
<1>7. /\ A \in Seq(T) /\ Len(A) = Len(more) /\ DOMAIN A = DOMAIN more
      /\ \A j \in DOMAIN A : A[j][1] = more[j] /\ A[j][2] = d + 1
  <2> DEFINE n == Len(more)
  <2>1. n \in Nat /\ DOMAIN more = 1..n /\ \A i \in 1..n : more[i] \in Network
    BY <1>6
  <2>2. d + 1 \in 0..(MaxDepth + 1)
    BY <1>1, <1>2, <1>3
  <2> HIDE DEF n
  <2>3. A \in [1..n -> T]
    BY <2>1, <2>2
  <2>4. A \in Seq(T) /\ Len(A) = n
    BY <2>1, <2>3
  <2> QED BY <2>1, <2>4 DEF n
<1>8. \A j \in DOMAIN A : /\ A[j][2] = d + 1 /\ A[j][1] \in Within(d + 1)
                          /\ role[A[j][1]] # "excluded"
  <2> TAKE j \in DOMAIN A
  <2>1. A[j][1] \in Network /\ Follows(c, A[j][1]) /\ role[A[j][1]] # "excluded"
    BY <1>4, <1>6, <1>7
  <2>2. A[j][1] \in Within(d + 1)
    BY <1>3, <2>1, WithinGrows
  <2> QED BY <1>7, <2>1, <2>2
<1>9. /\ queue' \in Seq(T) /\ Len(queue') = Len(queue) - 1 + Len(A) /\ NearFirst'
      /\ \A n, e : Waiting(n, e) => n = c \/ Waiting(n, e)'
      /\ \A j \in DOMAIN A, e \in Nat : d + 1 <= e => Waiting(A[j][1], e)'
  <2>1. UNCHANGED worldVars
    BY <1>1
  <2> QED BY <1>1, <1>7, <1>8, <2>1, QueueMoves DEF c, d
<1>10. /\ \A b, n : Follows(b, n)' <=> Follows(b, n)
       /\ \A k : Within(k)' = Within(k)
       /\ role' = role /\ hears' = hears /\ scope' = scope /\ uplink' = uplink
  BY <1>1, WithinStands DEF worldVars
<1>11. Cardinality(visited') + Len(queue') =< Max({MaxNodes, Len(Seeds)})
  <2> DEFINE m == Max({MaxNodes, Len(Seeds)})
             x == Len(more)
             v == Cardinality(visited)
             q == Len(queue)
  <2>1. /\ m \in Nat /\ x \in Nat /\ v \in Nat /\ q \in Nat /\ v + q <= m /\ MaxNodes <= m
        /\ Cardinality(visited') = v + 1 /\ Len(queue') = q - 1 + x
    BY <1>2, <1>5, <1>6, <1>7, <1>9 DEF CrawlInv, CrawlShape
  <2>2. x = 0 \/ (v + 1) + (q - 1) + x <= MaxNodes
    BY <1>5, <1>6
  <2> HIDE DEF m, x, v, q
  <2>3. Cardinality(visited') + Len(queue') =< m
    BY <1>2, <2>1, <2>2
  <2> QED BY <2>3 DEF m
<1>12. CrawlTypeOK'
  BY <1>1, <1>3, <1>9, <1>10 DEF CrawlInv, CrawlShape, CrawlTypeOK
<1>13. c \in Within(MaxDepth)
  BY <1>1, <1>2, <1>3, WithinStays
<1>14. CrawlShape'
  BY <1>1, <1>3, <1>10, <1>11, <1>12, <1>13 DEF CrawlInv, CrawlShape
<1>15. ASSUME ~truncated', NEW n \in Network, NEW k \in 0..MaxDepth,
              c \in Within(k), Follows(c, n)
       PROVE  n \in visited' \/ Waiting(n, k + 1)'
  <2>1. ~truncated /\ Len(more) = Len(w)
    <3>1. ~truncated /\ ~(Len(more) < Len(w))
      BY <1>1, <1>15, Zenon
    <3>2. Len(more) \in Nat /\ Len(w) \in Nat
      BY <1>4, <1>6
    <3> QED BY <1>6, <3>1, <3>2
  <2>2. d <= k
    <3>1. ASSUME k < d PROVE FALSE
      <4>1. d <= MaxDepth + 1 /\ k \in Nat
        BY <1>1, <1>2, <1>3
      <4>2. Within(k) \subseteq visited
        BY <1>3, <2>1, <3>1, <4>1, Swept
      <4> QED BY <1>3, <1>15, <4>2
    <3> QED BY <1>2, <1>3, <3>1
  <2>3. ASSUME n \notin visited' PROVE Waiting(n, k + 1)'
    <3>1. PICK i \in DOMAIN w : w[i] = n
      BY <1>4, <1>15, <2>3
    <3>2. i \in DOMAIN A /\ A[i][1] = n
      BY <1>6, <1>7, <2>1, <3>1
    <3>3. k + 1 \in Nat /\ d + 1 <= k + 1
      BY <1>2, <1>3, <2>2
    <3> QED BY <1>9, <3>2, <3>3
  <2> QED BY <2>3
<1>16. NoneLeftBehind'
  <2>1. \A n \in Within(0) : n \in visited' \/ Waiting(n, 0)'
    BY <1>1, <1>9 DEF CrawlInv, NoneLeftBehind
  <2>2. ASSUME ~truncated', NEW b \in polled', NEW n \in Network, NEW k \in 0..MaxDepth,
               b \in Within(k), Follows(b, n)
        PROVE  n \in visited' \/ Waiting(n, k + 1)'
    <3>1. CASE b = c
      BY <1>15, <2>2, <3>1
    <3>2. CASE b \in polled
      BY <1>1, <1>9, <2>2, <3>2 DEF CrawlInv, NoneLeftBehind
    <3> QED BY <1>1, <3>1, <3>2
  <2>3. ASSUME ~truncated', NEW b \in visited', b \in Within(MaxDepth), role[b] # "mute"
        PROVE  b \in polled'
    BY <1>1, <2>3 DEF CrawlInv, NoneLeftBehind
  <2> QED BY <1>10, <2>1, <2>2, <2>3 DEF NoneLeftBehind
<1> QED BY <1>9, <1>14, <1>16 DEF CrawlInv

\* A crawl out of its budget, and one that is over, leave everything as it was.
LEMMA RestCrawls ==
    ASSUME CrawlInv, UNCHANGED <<worldVars, queue, visited, polled, truncated>>,
           exhausted' \in BOOLEAN
    PROVE  CrawlInv'
<1>1. /\ \A b, n : Follows(b, n)' <=> Follows(b, n)
      /\ \A k : Within(k)' = Within(k)
      /\ role' = role /\ hears' = hears /\ scope' = scope /\ uplink' = uplink
  BY WithinStands DEF worldVars
<1>2. /\ queue' = queue /\ visited' = visited /\ polled' = polled /\ truncated' = truncated
  OBVIOUS
<1>3. \A n, e : Waiting(n, e)' <=> Waiting(n, e)
  BY <1>2 DEF Waiting
<1>4. CrawlShape'
  BY <1>1, <1>2 DEF CrawlInv, CrawlShape, CrawlTypeOK
<1>5. NearFirst'
  BY <1>1, <1>2 DEF CrawlInv, NearFirst
<1>6. NoneLeftBehind'
  BY <1>1, <1>2, <1>3 DEF CrawlInv, NoneLeftBehind
<1> QED BY <1>4, <1>5, <1>6 DEF CrawlInv

\* Every step of the crawl keeps the strengthening.
LEMMA CrawlKeeps == CrawlInv /\ [CrawlNext]_crawlVars => CrawlInv'
<1> SUFFICES ASSUME CrawlInv, [CrawlNext]_crawlVars PROVE CrawlInv'
  OBVIOUS
<1>1. CASE Drop
  BY <1>1, DropCrawls
<1>2. CASE Leaf
  BY <1>2, LeafCrawls
<1>3. CASE Walk
  BY <1>3, WalkCrawls
<1>4. CASE OutOfBudget
  <2>1. UNCHANGED <<worldVars, queue, visited, polled, truncated>> /\ exhausted' \in BOOLEAN
    BY <1>4 DEF OutOfBudget
  <2> QED BY <2>1, RestCrawls
<1>5. CASE UNCHANGED crawlVars
  <2>1. UNCHANGED <<worldVars, queue, visited, polled, truncated>> /\ exhausted' = exhausted
    BY <1>5 DEF crawlVars
  <2>2. exhausted \in BOOLEAN
    BY DEF CrawlInv, CrawlShape, CrawlTypeOK
  <2> QED BY <2>1, <2>2, RestCrawls
<1> QED BY <1>1, <1>2, <1>3, <1>4, <1>5 DEF CrawlNext

\* A crawl of which nothing was cut off has walked whom it should have.
THEOREM CrawlIsExact == CrawlSpec => []CrawlExact
<1>1. CrawlInv => CrawlExact
  <2> SUFFICES ASSUME CrawlInv PROVE CrawlExact
    OBVIOUS
  <2>1. ASSUME queue = <<>>, ~truncated
        PROVE  \A b \in Within(MaxDepth) : role[b] # "mute" => b \in polled
    <3>1. MaxDepth \in Nat
      BY CrawlBounds
    <3> DEFINE h == MaxDepth + 1
    <3>2. h \in Nat /\ h <= MaxDepth + 1 /\ MaxDepth < h
      BY <3>1
    <3>3. \A i \in DOMAIN queue : queue[i][2] >= h
      BY <2>1
    <3> HIDE DEF h
    <3>4. Within(MaxDepth) \subseteq visited
      BY <2>1, <3>1, <3>2, <3>3, Swept
    <3> QED BY <2>1, <3>4 DEF CrawlInv, NoneLeftBehind
  <2> QED BY <2>1 DEF CrawlInv, CrawlShape, CrawlExact
<1> QED BY <1>1, CrawlStarts, CrawlKeeps, PTL DEF CrawlSpec

=============================================================================
