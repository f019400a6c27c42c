---------------------------- MODULE RedisPoolProofs ----------------------------
(***************************************************************************)
(* For any number of threads and connections: a context of the pool is in  *)
(* the list or with one thread, unless the destructor's iterator has missed *)
(* it; the pool is never larger than its size and the threads together, and *)
(* a command uses no connection that has failed.                            *)
(***************************************************************************)
EXTENDS RedisPool, FiniteSetTheorems, TLAPS

\* Before Initialize there is nothing to account for.
NewOK ==
    app = "new" => /\ ~ticking
                   /\ list = <<>>
                   /\ \A c \in Ctx : state[c] = "freed"
                   /\ \A t \in Thread : pc[t] = "idle"

\* Between begin() and the lock: no command is under way, and an iterator at the end
\* of the list is at the end of an empty one.
ClosingOK ==
    app = "closing" => /\ \A t \in Thread : pc[t] = "idle"
                       /\ it \in {"first", "end", "past", "erased"}
                       /\ it = "end" => list = <<>>

IInv == TypeOK /\ NewOK /\ ClosingOK /\ Accounted /\ PoolBounded /\ FailsOnce

-----------------------------------------------------------------------------
(* What the operators of the model return. *)

\* A finite set as a sequence: each element at one place.
LEMMA SetToSeqOK ==
    ASSUME NEW S, IsFiniteSet(S)
    PROVE  /\ SetToSeq(S) \in Seq(S)
           /\ Len(SetToSeq(S)) = Cardinality(S)
           /\ IsInjective(SetToSeq(S))
           /\ Range(SetToSeq(S)) = S
<1> DEFINE n == Cardinality(S)
           D == 1..n
<1>1. n \in Nat /\ ExistsBijection(D, S)
    BY FS_CardinalityType
<1>2. PICK b \in Bijection(D, S) : TRUE
    BY <1>1 DEF ExistsBijection
<1>3. b \in [D -> S] /\ IsInjective(b)
    BY <1>2 DEF Bijection, Injection
<1>4. SetToSeq(S) \in [D -> S] /\ IsInjective(SetToSeq(S))
    BY <1>3 DEF SetToSeq
<1>5. SetToSeq(S) \in Seq(S) /\ Len(SetToSeq(S)) = n
    BY <1>1, <1>4
<1>6. SetToSeq(S) \in Injection(D, S)
    BY <1>4 DEF Injection
<1>7. Cardinality(D) = Cardinality(S)
    BY <1>1, FS_Interval
<1>8. SetToSeq(S) \in Surjection(D, S)
    BY <1>6, <1>7, FS_Injection
<1>9. Range(SetToSeq(S)) = S
    BY <1>4, <1>8 DEF Surjection, Range
<1>10. QED
    BY <1>4, <1>5, <1>9

\* The rank of a number in a finite set of numbers is a place among its elements, and
\* no two elements have the same.
LEMMA RankOK ==
    ASSUME NEW A \in SUBSET Nat, IsFiniteSet(A)
    PROVE  LET rank == [i \in A |-> Cardinality({j \in A : j <= i})]
           IN  /\ rank \in Injection(A, 1..Cardinality(A))
               /\ rank \in Surjection(A, 1..Cardinality(A))
<1> DEFINE Below(i) == {j \in A : j <= i}
           rank == [i \in A |-> Cardinality(Below(i))]
           n == Cardinality(A)
<1>1. n \in Nat
    BY FS_CardinalityType
<1>2. ASSUME NEW i \in A
      PROVE  /\ IsFiniteSet(Below(i))
             /\ Cardinality(Below(i)) \in 1..n
  <2>1. Below(i) \in SUBSET A /\ i \in Below(i)
      OBVIOUS
  <2>2. IsFiniteSet(Below(i)) /\ Cardinality(Below(i)) <= n
      BY <2>1, FS_Subset
  <2>3. Cardinality(Below(i)) \in Nat /\ Cardinality(Below(i)) # 0
      BY <2>1, <2>2, FS_CardinalityType, FS_EmptySet
  <2>4. QED
      BY <1>1, <2>2, <2>3
<1>3. ASSUME NEW i \in A, NEW k \in A, i < k
      PROVE  Cardinality(Below(i)) # Cardinality(Below(k))
  <2>1. i \in Nat /\ k \in Nat /\ A \subseteq Nat
      OBVIOUS
  <2>2. \A j \in A : j <= i => j <= k
      BY <1>3, <2>1
  <2>3. k \in Below(k) /\ k \notin Below(i)
      BY <1>3, <2>1
  <2>4. IsFiniteSet(Below(k))
      BY <1>2
  <2>5. Below(i) \in SUBSET Below(k)
      BY <2>2
  <2>6. QED
      BY <2>3, <2>4, <2>5, FS_Subset
<1>4. rank \in [A -> 1..n]
    BY <1>2
<1>5. \A i, k \in A : rank[i] = rank[k] => i = k
  <2> TAKE i, k \in A
  <2>1. i < k \/ k < i \/ i = k
      OBVIOUS
  <2>2. QED
      BY <1>3, <2>1
<1>6. rank \in Injection(A, 1..n)
    BY <1>4, <1>5 DEF Injection, IsInjective
<1>7. IsFiniteSet(1..n) /\ Cardinality(1..n) = n
    BY <1>1, FS_Interval
<1>8. rank \in Surjection(A, 1..n)
    BY <1>6, <1>7, FS_Injection
<1>9. QED
    BY <1>6, <1>8

\* What OnTimer keeps of the list, and in what it keeps it.
LEMMA KeptOK ==
    ASSUME TypeOK, IsInjective(list)
    PROVE  /\ Kept \in Seq(Ctx)
           /\ IsInjective(Kept)
           /\ Range(Kept) = {c \in Range(list) : state[c] # "err"}
           /\ Len(Kept) \in Nat
           /\ Len(Kept) <= Len(list)
<1> DEFINE n == Cardinality(KeptAt)
           rank == [i \in KeptAt |-> Cardinality({j \in KeptAt : j <= i})]
           at(k) == CHOOSE i \in KeptAt : Cardinality({j \in KeptAt : j <= i}) = k
<1>1. list \in Seq(Ctx) /\ Len(list) \in Nat /\ DOMAIN list = 1..Len(list)
    BY DEF TypeOK
<1>2. KeptAt \in SUBSET (1..Len(list)) /\ KeptAt \in SUBSET Nat
    BY <1>1 DEF KeptAt
<1>3. IsFiniteSet(KeptAt) /\ n \in Nat /\ n <= Len(list)
  <2>1. IsFiniteSet(1..Len(list)) /\ Cardinality(1..Len(list)) = Len(list)
    <3>1. ASSUME NEW k \in Nat PROVE IsFiniteSet(1..k) /\ Cardinality(1..k) = k
        BY FS_Interval
    <3>2. QED
        BY <1>1, <3>1, Zenon
  <2>2. IsFiniteSet(KeptAt) /\ n <= Len(list)
      BY <1>2, <2>1, FS_Subset
  <2>3. QED
      BY <2>2, FS_CardinalityType
<1>4. rank \in Injection(KeptAt, 1..n) /\ rank \in Surjection(KeptAt, 1..n)
    BY <1>2, <1>3, RankOK
<1>5. \A k \in 1..n : \E i \in KeptAt : Cardinality({j \in KeptAt : j <= i}) = k
    BY <1>4 DEF Surjection
<1>6. \A k \in 1..n : at(k) \in KeptAt /\ Cardinality({j \in KeptAt : j <= at(k)}) = k
    BY <1>5
<1>7. \A k \in 1..n : at(k) \in KeptAt /\ rank[at(k)] = k
    BY <1>6
<1>8. \A i \in KeptAt : rank[i] \in 1..n /\ at(rank[i]) = i
  <2> TAKE i \in KeptAt
  <2>1. rank[i] \in 1..n
      BY <1>4 DEF Injection
  <2>2. at(rank[i]) \in KeptAt /\ rank[at(rank[i])] = rank[i]
      BY <1>7, <2>1
  <2>3. QED
      BY <1>4, <2>1, <2>2 DEF Injection, IsInjective
<1> HIDE DEF at, rank
<1>9. Kept = [k \in 1..n |-> list[at(k)]]
    BY DEF Kept, at
<1>10. \A k \in 1..n : list[at(k)] \in Ctx
  <2>1. \A i \in 1..Len(list) : list[i] \in Ctx
      BY <1>1
  <2>2. QED
      BY <1>2, <1>7, <2>1
<1>11. Kept \in Seq(Ctx) /\ Len(Kept) = n /\ DOMAIN Kept = 1..n
    BY <1>3, <1>9, <1>10
<1>12. IsInjective(Kept)
  <2> SUFFICES ASSUME NEW k \in 1..n, NEW l \in 1..n, list[at(k)] = list[at(l)]
               PROVE  k = l
      BY <1>9, <1>11 DEF IsInjective
  <2>1. at(k) = at(l)
      BY <1>1, <1>2, <1>7 DEF IsInjective
  <2>2. QED
      BY <1>7, <2>1
<1>13. Range(Kept) = {c \in Range(list) : state[c] # "err"}
  <2>1. ASSUME NEW k \in 1..n
        PROVE  list[at(k)] \in Range(list) /\ state[list[at(k)]] # "err"
      BY <1>1, <1>2, <1>7 DEF Range, KeptAt
  <2>2. ASSUME NEW c \in Range(list), state[c] # "err"
        PROVE  \E k \in 1..n : list[at(k)] = c
    <3>1. PICK i \in DOMAIN list : list[i] = c
        BY DEF Range
    <3>2. i \in KeptAt
        BY <2>2, <3>1 DEF KeptAt
    <3>3. QED
        BY <1>8, <3>1, <3>2
  <2>3. QED
      BY <1>9, <1>11, <2>1, <2>2 DEF Range
<1>14. QED
    BY <1>3, <1>11, <1>12, <1>13

\* The size of the list is made up to m_nMaxConnSum.
LEMMA MissingOK ==
    ASSUME Len(Kept) \in Nat
    PROVE  /\ Missing \in Nat
           /\ Len(Kept) + Missing = IF Len(Kept) < MaxConnSum THEN MaxConnSum ELSE Len(Kept)
<1>1. MaxConnSum \in Nat
    BY RedisPoolAssumption
<1>2. CASE Len(Kept) < MaxConnSum
  <2>1. Missing = MaxConnSum - Len(Kept)
      BY <1>1, <1>2 DEF Missing, Max
  <2>2. QED
      BY <1>1, <1>2, <2>1
<1>3. CASE ~(Len(Kept) < MaxConnSum)
  <2>1. Missing = 0
      BY <1>1, <1>3 DEF Missing, Max
  <2>2. QED
      BY <1>1, <1>3, <2>1
<1>4. QED
    BY <1>2, <1>3

\* An element added to a finite set makes it larger by one at most.
OneMore(D, c) == Cardinality(D \cup {c}) <= Cardinality(D) + 1 /\ Cardinality(D \cup {c}) \in Nat

LEMMA AtMostOneMore == ASSUME NEW D, NEW c, IsFiniteSet(D) PROVE OneMore(D, c)
<1>1. Cardinality(D) \in Nat
    BY FS_CardinalityType
<1>2. Cardinality(D \cup {c}) = Cardinality(D) \/ Cardinality(D \cup {c}) = Cardinality(D) + 1
    BY FS_AddElement, Zenon
<1>3. QED
    BY <1>1, <1>2 DEF OneMore

\* The contexts that are lent are finitely many, no more than there are threads.
LEMMA LentFinite ==
    /\ IsFiniteSet(Lent)
    /\ Cardinality(Lent) \in Nat
    /\ Cardinality(Lent) <= Cardinality(Thread)
<1> DEFINE Busy == {u \in Thread : pc[u] # "idle"}
           hold == [u \in Busy |-> has[u]]
<1>1. IsFiniteSet(Busy) /\ Cardinality(Busy) <= Cardinality(Thread)
    BY FS_Subset, RedisPoolAssumption
<1>2. hold \in Surjection(Busy, Lent)
    BY DEF Lent, Surjection
<1>3. IsFiniteSet(Lent) /\ Cardinality(Lent) <= Cardinality(Busy)
    BY <1>1, <1>2, FS_Surjection
<1>4. Cardinality(Lent) \in Nat /\ Cardinality(Busy) \in Nat /\ Cardinality(Thread) \in Nat
    BY <1>1, <1>3, FS_CardinalityType, RedisPoolAssumption
<1>5. QED
    BY <1>1, <1>3, <1>4

\* What the threads have stays the same when neither pc nor has changes.
LEMMA LentSame == UNCHANGED <<pc, has>> => Lent' = Lent
BY DEF Lent

\* A list without its first context, which was there once.
LEMMA TailOK ==
    ASSUME NEW s \in Seq(Ctx), s # <<>>, IsInjective(s)
    PROVE  /\ Head(s) \in Range(s)
           /\ Tail(s) \in Seq(Ctx)
           /\ Len(Tail(s)) = Len(s) - 1
           /\ IsInjective(Tail(s))
           /\ Range(Tail(s)) = Range(s) \ {Head(s)}
<1>1. /\ DOMAIN s = 1..Len(s)
      /\ Len(s) \in Nat \ {0}
      /\ Head(s) = s[1]
    OBVIOUS
<1>2. /\ Tail(s) \in Seq(Ctx)
      /\ Len(Tail(s)) = Len(s) - 1
      /\ DOMAIN Tail(s) = 1..(Len(s) - 1)
      /\ \A i \in 1..(Len(s) - 1) : Tail(s)[i] = s[i + 1]
    BY <1>1
<1>3. IsInjective(Tail(s))
  <2> SUFFICES ASSUME NEW i \in 1..(Len(s) - 1), NEW j \in 1..(Len(s) - 1),
                      s[i + 1] = s[j + 1]
               PROVE  i = j
      BY <1>2 DEF IsInjective
  <2>1. i + 1 \in DOMAIN s /\ j + 1 \in DOMAIN s
      BY <1>1
  <2>2. i + 1 = j + 1
      BY <2>1 DEF IsInjective
  <2>3. QED
      BY <2>2
<1>4. Range(Tail(s)) = Range(s) \ {Head(s)}
  <2>1. ASSUME NEW i \in 1..(Len(s) - 1)
        PROVE  s[i + 1] \in Range(s) \ {Head(s)}
    <3>1. i + 1 \in DOMAIN s /\ 1 \in DOMAIN s /\ i + 1 # 1
        BY <1>1
    <3>2. QED
        BY <1>1, <3>1 DEF Range, IsInjective
  <2>2. ASSUME NEW i \in 1..Len(s), s[i] # Head(s)
        PROVE  s[i] \in Range(Tail(s))
    <3>1. i - 1 \in 1..(Len(s) - 1) /\ (i - 1) + 1 = i
        BY <1>1, <2>2
    <3>2. QED
        BY <1>2, <3>1 DEF Range
  <2>3. Range(Tail(s)) \subseteq Range(s) \ {Head(s)}
      BY <1>2, <2>1 DEF Range
  <2>4. Range(s) \ {Head(s)} \subseteq Range(Tail(s))
      BY <1>1, <2>2 DEF Range
  <2>5. QED
      BY <2>3, <2>4
<1>5. Head(s) \in Range(s)
    BY <1>1 DEF Range
<1>6. QED
    BY <1>2, <1>3, <1>4, <1>5

\* Two lists that share no context, one after the other.
LEMMA ConcatOK ==
    ASSUME NEW s \in Seq(Ctx), NEW u \in Seq(Ctx), IsInjective(s), IsInjective(u),
           Range(s) \cap Range(u) = {}
    PROVE  /\ s \o u \in Seq(Ctx)
           /\ Len(s \o u) = Len(s) + Len(u)
           /\ IsInjective(s \o u)
           /\ Range(s \o u) = Range(s) \cup Range(u)
<1> DEFINE w == s \o u
<1>1. /\ DOMAIN s = 1..Len(s) /\ Len(s) \in Nat
      /\ DOMAIN u = 1..Len(u) /\ Len(u) \in Nat
    OBVIOUS
<1>2. /\ w \in Seq(Ctx)
      /\ Len(w) = Len(s) + Len(u)
      /\ DOMAIN w = 1..(Len(s) + Len(u))
      /\ \A i \in 1..Len(s) : w[i] = s[i]
      /\ \A i \in 1..Len(u) : w[Len(s) + i] = u[i]
    BY <1>1
<1> HIDE DEF w
<1>3. \A i \in DOMAIN w : i \in DOMAIN s \/ \E k \in DOMAIN u : i = Len(s) + k
  <2> TAKE i \in DOMAIN w
  <2>1. CASE i <= Len(s)
      BY <1>1, <1>2, <2>1
  <2>2. CASE ~(i <= Len(s))
    <3>1. i - Len(s) \in DOMAIN u /\ i = Len(s) + (i - Len(s))
        BY <1>1, <1>2, <2>2
    <3>2. QED
        BY <3>1
  <2>3. QED
      BY <2>1, <2>2
<1>4. \A i \in DOMAIN s : i \in DOMAIN w /\ w[i] = s[i] /\ w[i] \in Range(s)
    BY <1>1, <1>2 DEF Range
<1>5. \A k \in DOMAIN u :
         Len(s) + k \in DOMAIN w /\ w[Len(s) + k] = u[k] /\ w[Len(s) + k] \in Range(u)
    BY <1>1, <1>2 DEF Range
<1>6. Range(w) = Range(s) \cup Range(u)
  <2>1. Range(w) \subseteq Range(s) \cup Range(u)
    <3>1. ASSUME NEW i \in DOMAIN w PROVE w[i] \in Range(s) \cup Range(u)
        BY <1>3, <1>4, <1>5
    <3>2. QED
        BY <3>1 DEF Range
  <2>2. Range(s) \subseteq Range(w)
    <3>1. ASSUME NEW i \in DOMAIN s PROVE s[i] \in Range(w)
        BY <1>4 DEF Range
    <3>2. QED
        BY <3>1 DEF Range
  <2>3. Range(u) \subseteq Range(w)
    <3>1. ASSUME NEW k \in DOMAIN u PROVE u[k] \in Range(w)
        BY <1>5 DEF Range
    <3>2. QED
        BY <3>1 DEF Range
  <2>4. QED
      BY <2>1, <2>2, <2>3
<1>7. IsInjective(w)
  <2> SUFFICES ASSUME NEW i \in DOMAIN w, NEW j \in DOMAIN w, w[i] = w[j]
               PROVE  i = j
      BY DEF IsInjective
  <2>1. CASE i \in DOMAIN s /\ j \in DOMAIN s
      BY <1>4, <2>1 DEF IsInjective
  <2>2. CASE i \in DOMAIN s /\ \E k \in DOMAIN u : j = Len(s) + k
      BY <1>4, <1>5, <2>2
  <2>3. CASE j \in DOMAIN s /\ \E k \in DOMAIN u : i = Len(s) + k
      BY <1>4, <1>5, <2>3
  <2>4. CASE (\E k \in DOMAIN u : i = Len(s) + k) /\ (\E k \in DOMAIN u : j = Len(s) + k)
    <3>1. PICK k \in DOMAIN u, l \in DOMAIN u : i = Len(s) + k /\ j = Len(s) + l
        BY <2>4
    <3>2. k = l
        BY <1>5, <3>1 DEF IsInjective
    <3>3. QED
        BY <3>1, <3>2
  <2>5. QED
      BY <1>3, <2>1, <2>2, <2>3, <2>4
<1>8. QED
    BY <1>2, <1>6, <1>7 DEF w

\* The number of contexts that are lent, when a thread gets one or is rid of its own.
LEMMA LentMore ==
    ASSUME NEW c, Lent' = Lent \cup {c}
    PROVE  Cardinality(Lent') <= Cardinality(Lent) + 1
BY LentFinite, FS_AddElement

LEMMA LentLess ==
    ASSUME NEW c \in Lent, Lent' = Lent \ {c}
    PROVE  Cardinality(Lent') = Cardinality(Lent) - 1
BY LentFinite, FS_RemoveElement

-----------------------------------------------------------------------------
(* The steps. *)

LEMMA InitIInv == Init => IInv
<1> SUFFICES ASSUME Init PROVE IInv
    OBVIOUS
<1>1. TypeOK
  <2>1. ticking \in BOOLEAN /\ server \in BOOLEAN
      BY DEF Init
  <2>2. QED
      BY <2>1 DEF Init, TypeOK
<1>2. NewOK /\ ClosingOK /\ FailsOnce
    BY DEF Init, NewOK, ClosingOK, FailsOnce
<1>3. Lent = {} /\ Range(list) = {} /\ IsInjective(list)
    BY DEF Init, Lent, Range, IsInjective
<1>4. Accounted
    BY <1>3 DEF Init, Accounted
<1>5. PoolBounded
  <2>1. Cardinality(Lent) = 0 /\ Len(list) = 0
      BY <1>3, FS_EmptySet DEF Init
  <2>2. Cardinality(Thread) \in Nat
      BY FS_CardinalityType, RedisPoolAssumption
  <2>3. QED
      BY <2>1, <2>2, RedisPoolAssumption DEF PoolBounded
<1>6. QED
    BY <1>1, <1>2, <1>4, <1>5 DEF IInv

\* The numbers that PoolBounded adds and compares.
LEMMA Numbers ==
    TypeOK => /\ MaxConnSum \in Nat
              /\ Cardinality(Thread) \in Nat
              /\ Len(list) \in Nat
BY FS_CardinalityType, RedisPoolAssumption DEF TypeOK

LEMMA InitializeIInv == IInv /\ Initialize => IInv'
<1> SUFFICES ASSUME IInv, Initialize PROVE IInv'
    OBVIOUS
<1> USE DEF IInv
<1>1. PICK n \in 0..MaxConnSum :
         /\ \E S \in kSubset(n, Ctx) :
               /\ list' = SetToSeq(S)
               /\ state' = [c \in Ctx |-> IF c \in S THEN "good" ELSE "freed"]
         /\ app' \in IF n = MaxConnSum THEN {"up", "failed"} ELSE {"failed"}
    BY DEF Initialize
<1>2. PICK S \in kSubset(n, Ctx) :
         /\ list' = SetToSeq(S)
         /\ state' = [c \in Ctx |-> IF c \in S THEN "good" ELSE "freed"]
    BY <1>1
<1>3. S \in SUBSET Ctx /\ Cardinality(S) = n /\ IsFiniteSet(S)
    BY FS_Subset, RedisPoolAssumption DEF kSubset
<1>4. /\ list' \in Seq(S)
      /\ Len(list') = n
      /\ IsInjective(list')
      /\ Range(list') = S
    BY <1>2, <1>3, SetToSeqOK
<1>5. list' \in Seq(Ctx)
    BY <1>3, <1>4
<1>6. Lent = {} /\ Lent' = {}
    BY DEF Initialize, NewOK, Lent
<1>7. TypeOK'
    BY <1>1, <1>2, <1>5 DEF Initialize, TypeOK
<1>8. NewOK' /\ ClosingOK'
    BY <1>1 DEF NewOK, ClosingOK
<1>9. Accounted'
    BY <1>2, <1>3, <1>4, <1>6 DEF Initialize, Accounted, NewOK
<1>10. PoolBounded'
  <2>1. Cardinality(Lent') = 0
      BY <1>6, FS_EmptySet
  <2>2. QED
      BY <1>4, <2>1, Numbers DEF PoolBounded
<1>11. FailsOnce'
    BY DEF Initialize, FailsOnce, NewOK
<1>12. QED
    BY <1>7, <1>8, <1>9, <1>10, <1>11

LEMMA CloseConnectionsIInv == IInv /\ CloseConnections => IInv'
<1> SUFFICES ASSUME IInv, CloseConnections PROVE IInv'
    OBVIOUS
<1> USE DEF IInv
<1>1. Lent = {} /\ Lent' = {} /\ app = "closing" /\ UNCHANGED <<it, pc, has>>
    BY DEF CloseConnections, ClosingOK, Lent
<1>2. CASE it = "erased"
  <2>1. app' = "undefined" /\ UNCHANGED <<ticking, it, server, list, state, pc, has>>
      BY <1>2 DEF CloseConnections
  <2>2. \A c \in Ctx : state[c] # "lost"
      BY <1>1 DEF Accounted
  <2>3. TypeOK' /\ NewOK' /\ ClosingOK' /\ FailsOnce' /\ PoolBounded'
      BY <1>1, <2>1 DEF TypeOK, NewOK, ClosingOK, FailsOnce, PoolBounded
  <2>4. Accounted'
      BY <1>1, <2>1, <2>2 DEF Accounted
  <2>5. QED
      BY <2>3, <2>4
<1>3. CASE it # "erased"
  <2>1. /\ app' = "emptied"
        /\ list' = <<>> /\ Range(list') = {} /\ IsInjective(list')
        /\ state' = [c \in Ctx |-> IF c \notin Range(list) THEN state[c]
                                  ELSE IF it = "first" THEN "freed" ELSE "lost"]
      BY <1>3 DEF CloseConnections, Range, IsInjective
  <2>2. TypeOK'
      BY <2>1 DEF CloseConnections, TypeOK
  <2>3. NewOK' /\ ClosingOK' /\ FailsOnce'
      BY <2>1 DEF CloseConnections, NewOK, ClosingOK, FailsOnce
  <2>4. \A c \in Ctx : state'[c] \in {"freed", "lost"}
      BY <1>1, <2>1 DEF Accounted
  <2>5. ASSUME NEW c \in Ctx, state'[c] = "lost" PROVE it' = "past"
    <3>1. c \in Range(list) /\ it # "first"
        BY <1>1, <2>1, <2>5 DEF Accounted
    <3>2. it # "end"
        BY <1>1, <3>1 DEF ClosingOK, Range
    <3>3. QED
        BY <1>1, <1>3, <3>1, <3>2 DEF ClosingOK
  <2>6. Accounted'
      BY <1>1, <2>1, <2>4, <2>5 DEF Accounted, CloseConnections
  <2>7. PoolBounded'
    <3>1. Len(list') = 0 /\ Cardinality(Lent') = 0
        BY <1>1, <2>1, FS_EmptySet
    <3>2. QED
        BY <3>1, Numbers DEF PoolBounded
  <2>8. QED
      BY <2>2, <2>3, <2>6, <2>7
<1>4. QED
    BY <1>2, <1>3

LEMMA ServerIInv == IInv /\ (TakeBegin \/ KillTimer \/ ServerFails \/ ServerReturns) => IInv'
<1> SUFFICES ASSUME IInv, TakeBegin \/ KillTimer \/ ServerFails \/ ServerReturns PROVE IInv'
    OBVIOUS
<1> USE DEF IInv
<1>1. Lent' = Lent /\ UNCHANGED <<list, pc, has>>
    BY LentSame DEF TakeBegin, KillTimer, ServerFails, ServerReturns
<1>2. /\ TypeOK'
      /\ \A c \in Ctx : /\ state'[c] \in {"freed", "lost"} <=> state[c] \in {"freed", "lost"}
                        /\ state'[c] = "err" <=> state[c] = "err"
                        /\ state'[c] = "lost" <=> state[c] = "lost"
    BY DEF TakeBegin, KillTimer, ServerFails, ServerReturns, TypeOK
<1>3. NewOK' /\ ClosingOK'
    BY DEF TakeBegin, KillTimer, ServerFails, ServerReturns, NewOK, ClosingOK
<1>4. Accounted' /\ PoolBounded'
  <2>1. ASSUME NEW c \in Ctx, state'[c] = "lost"
        PROVE  it' = "past" /\ app' \in {"emptied", "closed"}
      BY <1>2, <2>1 DEF TakeBegin, KillTimer, ServerFails, ServerReturns, Accounted
  <2>2. {c \in Ctx : state'[c] \notin {"freed", "lost"}}
            = {c \in Ctx : state[c] \notin {"freed", "lost"}}
      BY <1>2
  <2>3. QED
      BY <1>1, <2>1, <2>2 DEF Accounted, PoolBounded
<1>5. FailsOnce'
  <2> SUFFICES ASSUME NEW t \in Thread, pc[t] = "command"
               PROVE  state'[has[t]] # "err"
      BY <1>1 DEF FailsOnce
  <2>1. has[t] \in Ctx /\ state[has[t]] # "err"
      BY DEF FailsOnce, Accounted, Lent
  <2>2. QED
      BY <1>2, <2>1
<1>6. QED
    BY <1>2, <1>3, <1>4, <1>5

LEMMA OnTimerIInv == IInv /\ OnTimer => IInv'
<1> SUFFICES ASSUME IInv, OnTimer PROVE IInv'
    OBVIOUS
<1> USE DEF IInv
<1> DEFINE Erased == Range(list) \ Range(Kept)
<1>1. PICK S \in kSubset(Missing, Freed \cup Erased) :
         /\ list' = Kept \o SetToSeq(S)
         /\ state' = [c \in Ctx |-> IF c \in S THEN Connected
                                   ELSE IF c \in Erased THEN "freed" ELSE state[c]]
    BY DEF OnTimer
<1>2. /\ Kept \in Seq(Ctx)
      /\ IsInjective(Kept)
      /\ Range(Kept) = {c \in Range(list) : state[c] # "err"}
      /\ Len(Kept) \in Nat
      /\ Len(Kept) <= Len(list)
    BY KeptOK DEF Accounted
<1>3. Range(list) \subseteq Ctx
    BY DEF TypeOK, Range
<1>4. S \in SUBSET Ctx /\ IsFiniteSet(S) /\ Cardinality(S) = Missing
  <2>1. S \in SUBSET Ctx /\ Cardinality(S) = Missing
      BY <1>3 DEF kSubset, Freed
  <2>2. QED
      BY <2>1, FS_Subset, RedisPoolAssumption
<1>5. /\ SetToSeq(S) \in Seq(Ctx)
      /\ Len(SetToSeq(S)) = Missing
      /\ IsInjective(SetToSeq(S))
      /\ Range(SetToSeq(S)) = S
    BY <1>4, SetToSeqOK
<1>6. S \cap Range(Kept) = {} /\ S \cap Lent = {}
  <2>1. S \subseteq Freed \cup Erased
      BY DEF kSubset
  <2>2. QED
      BY <1>2, <2>1 DEF Freed, Accounted
<1>7. /\ list' \in Seq(Ctx)
      /\ Len(list') = Len(Kept) + Missing
      /\ IsInjective(list')
      /\ Range(list') = Range(Kept) \cup S
    BY <1>1, <1>2, <1>5, <1>6, ConcatOK
<1>8. Lent' = Lent /\ UNCHANGED <<pc, has>>
    BY LentSame DEF OnTimer
<1>9. TypeOK'
    BY <1>1, <1>7 DEF OnTimer, Overtake, TypeOK, Connected
<1>10. NewOK' /\ ClosingOK'
  <2>1. app' = app /\ app # "new"
      BY DEF OnTimer, NewOK
  <2>2. app = "closing" => it' \in {"first", "end", "past", "erased"}
                           /\ (it' = "end" => list' = <<>>)
      BY DEF OnTimer, Overtake, ClosingOK
  <2>3. QED
      BY <1>8, <2>1, <2>2 DEF NewOK, ClosingOK
<1>11. Accounted'
  <2>1. \A c \in Ctx : state'[c] \notin {"freed", "lost"} <=> c \in Range(Kept) \cup S \cup Lent
    <3> TAKE c \in Ctx
    <3>1. CASE c \in S
        BY <1>1, <3>1 DEF Connected
    <3>2. CASE c \notin S /\ c \in Erased
        BY <1>1, <3>2 DEF Accounted
    <3>3. CASE c \notin S /\ c \notin Erased
        BY <1>1, <1>2, <3>3 DEF Accounted
    <3>4. QED
        BY <3>1, <3>2, <3>3
  <2>2. Lent \subseteq Ctx
      BY DEF Accounted
  <2>3. Range(list') \cup Lent' = {c \in Ctx : state'[c] \notin {"freed", "lost"}}
      BY <1>2, <1>3, <1>4, <1>7, <1>8, <2>1, <2>2
  <2>4. Range(list') \cap Lent' = {}
      BY <1>2, <1>6, <1>7, <1>8 DEF Accounted
  <2>5. ASSUME NEW c \in Ctx, state'[c] = "lost"
        PROVE  it' = "past" /\ app' \in {"emptied", "closed"}
    <3>1. state[c] = "lost"
        BY <1>1, <2>5 DEF Connected
    <3>2. it = "past" /\ app \in {"emptied", "closed"}
        BY <3>1 DEF Accounted
    <3>3. QED
        BY <3>2 DEF OnTimer, Overtake
  <2>6. QED
      BY <1>7, <1>8, <2>3, <2>4, <2>5 DEF Accounted
<1>12. PoolBounded'
  <2>1. Len(list') <= MaxConnSum \/ Len(list') <= Len(list)
      BY <1>2, <1>7, MissingOK, Numbers
  <2>2. Len(list') \in Nat
      BY <1>7
  <2>3. QED
      BY <1>8, <2>1, <2>2, LentFinite, Numbers DEF PoolBounded
<1>13. FailsOnce'
  <2> SUFFICES ASSUME NEW t \in Thread, pc[t] = "command"
               PROVE  state'[has[t]] # "err"
      BY <1>8 DEF FailsOnce
  <2>1. has[t] \in Lent /\ state[has[t]] # "err"
      BY DEF FailsOnce, Lent
  <2>2. has[t] \in Ctx /\ has[t] \notin S /\ has[t] \notin Erased
      BY <1>6, <2>1 DEF Accounted
  <2>3. QED
      BY <1>1, <2>1, <2>2
<1>14. QED
    BY <1>9, <1>10, <1>11, <1>12, <1>13

LEMMA GetConnectionIInv ==
    ASSUME IInv, NEW t \in Thread, GetConnection(t)
    PROVE  IInv'
<1> USE DEF IInv
<1>1. list \in Seq(Ctx) /\ list # <<>> /\ IsInjective(list)
    BY DEF GetConnection, TypeOK, Accounted
<1>2. /\ Head(list) \in Range(list)
      /\ list' \in Seq(Ctx)
      /\ Len(list') = Len(list) - 1
      /\ IsInjective(list')
      /\ Range(list') = Range(list) \ {Head(list)}
    BY <1>1, TailOK DEF GetConnection
<1>3. Head(list) \in Ctx
    BY <1>1, <1>2 DEF Range
<1>4. /\ pc[t] = "idle" /\ pc'[t] # "idle" /\ has'[t] = Head(list)
      /\ pc'[t] = "command" => state[Head(list)] # "err"
      /\ \A u \in Thread \ {t} : pc'[u] = pc[u] /\ has'[u] = has[u]
      /\ state' = state
    BY DEF GetConnection, TypeOK
<1>5. Lent' = Lent \cup {Head(list)}
    BY <1>4 DEF Lent
<1>6. TypeOK'
    BY <1>2, <1>3 DEF GetConnection, TypeOK
<1>7. NewOK' /\ ClosingOK'
    BY DEF GetConnection, NewOK, ClosingOK
<1>8. Accounted'
  <2>1. \A u \in Thread \ {t} : pc'[u] # "idle" => has'[u] # Head(list)
      BY <1>2, <1>4 DEF Accounted, Lent
  <2>2. \A u, v \in Thread : pc'[u] # "idle" /\ pc'[v] # "idle" /\ has'[u] = has'[v] => u = v
      BY <1>4, <2>1 DEF Accounted
  <2>3. Range(list') \cap Lent' = {}
      BY <1>2, <1>5 DEF Accounted
  <2>4. Range(list') \cup Lent' = {c \in Ctx : state'[c] \notin {"freed", "lost"}}
      BY <1>2, <1>4, <1>5 DEF Accounted
  <2>5. app' = app /\ it' = it
      BY DEF GetConnection
  <2>6. QED
      BY <1>2, <1>4, <2>2, <2>3, <2>4, <2>5 DEF Accounted
<1>9. PoolBounded'
  <2>1. Cardinality(Lent') <= Cardinality(Lent) + 1 /\ Cardinality(Lent') \in Nat
    <3>1. IsFiniteSet(Lent')
        BY <1>5, LentFinite, FS_AddElement
    <3>2. QED
        BY <1>5, <3>1, LentMore, FS_CardinalityType
  <2>2. QED
      BY <1>2, <2>1, LentFinite, Numbers DEF PoolBounded
<1>10. FailsOnce'
    BY <1>4 DEF FailsOnce
<1>11. QED
    BY <1>6, <1>7, <1>8, <1>9, <1>10

\* A thread that has a context has one that exists, and no other thread has it.
LEMMA HasOK ==
    ASSUME IInv, NEW t \in Thread, pc[t] # "idle"
    PROVE  /\ has[t] \in Ctx
           /\ has[t] \in Lent
           /\ has[t] \notin Range(list)
           /\ state[has[t]] \notin {"freed", "lost"}
           /\ \A u \in Thread \ {t} : pc[u] # "idle" => has[u] # has[t]
<1>1. has[t] \in Lent
    BY DEF Lent
<1>2. QED
    BY <1>1 DEF IInv, Accounted

LEMMA ReconnectIInv ==
    ASSUME IInv, NEW t \in Thread, Reconnect(t)
    PROVE  IInv'
<1> USE DEF IInv
<1>1. /\ pc[t] = "reconnect"
      /\ UNCHANGED <<app, ticking, it, server, list>>
    BY DEF Reconnect
<1>2. /\ has[t] \in Ctx
      /\ has[t] \in Lent
      /\ has[t] \notin Range(list)
      /\ \A u \in Thread \ {t} : pc[u] # "idle" => has[u] # has[t]
    BY <1>1, HasOK
<1>3. NewOK' /\ ClosingOK'
    BY <1>1 DEF NewOK, ClosingOK
<1>4. CASE server
  <2>1. PICK c \in Freed \cup {has[t]} :
           /\ has' = [has EXCEPT ![t] = c]
           /\ state' = [state EXCEPT ![has[t]] = "freed", ![c] = "good"]
           /\ pc' = [pc EXCEPT ![t] = "command"]
      BY <1>4 DEF Reconnect
  <2>2. /\ c \in Ctx
        /\ c \notin Range(list)
        /\ \A u \in Thread \ {t} : pc[u] # "idle" => has[u] # c
    <3>1. c \in Ctx
        BY <1>2 DEF Freed
    <3>2. c = has[t] \/ (c \notin Range(list) /\ c \notin Lent)
        BY DEF Freed, Accounted
    <3>3. QED
        BY <1>2, <3>1, <3>2 DEF Lent
  <2>3. /\ pc'[t] = "command" /\ has'[t] = c
        /\ \A u \in Thread \ {t} : pc'[u] = pc[u] /\ has'[u] = has[u]
        /\ \A d \in Ctx : state'[d] = IF d = c THEN "good"
                                      ELSE IF d = has[t] THEN "freed" ELSE state[d]
      BY <1>2, <2>1, <2>2 DEF TypeOK
  <2>4. Lent' = (Lent \ {has[t]}) \cup {c}
      BY <1>1, <1>2, <2>3 DEF Lent
  <2>5. TypeOK'
      BY <1>1, <2>1, <2>2 DEF TypeOK
  <2>6. Accounted'
    <3>1. \A u, v \in Thread :
             pc'[u] # "idle" /\ pc'[v] # "idle" /\ has'[u] = has'[v] => u = v
        BY <2>2, <2>3 DEF Accounted
    <3>2. Range(list') \cap Lent' = {}
        BY <1>1, <2>2, <2>4 DEF Accounted
    <3>3. Range(list') \cup Lent' = {d \in Ctx : state'[d] \notin {"freed", "lost"}}
        BY <1>1, <1>2, <2>2, <2>3, <2>4 DEF Accounted
    <3>4. \A d \in Ctx : state'[d] = "lost" => state[d] = "lost"
        BY <2>3
    <3>5. QED
        BY <1>1, <3>1, <3>2, <3>3, <3>4 DEF Accounted
  <2>7. PoolBounded'
    <3>1. /\ IsFiniteSet(Lent \ {has[t]})
          /\ Cardinality(Lent \ {has[t]}) = Cardinality(Lent) - 1
          /\ Cardinality(Lent) \in Nat
        BY <1>2, LentFinite, FS_RemoveElement
    <3>2. OneMore(Lent \ {has[t]}, c)
        BY <3>1, AtMostOneMore
    <3>3. Cardinality(Lent') <= Cardinality(Lent \ {has[t]}) + 1 /\ Cardinality(Lent') \in Nat
        BY <2>4, <3>2, Zenon DEF OneMore
    <3>4. QED
        BY <1>1, <3>1, <3>3, Numbers DEF PoolBounded
  <2>8. FailsOnce'
    <3> SUFFICES ASSUME NEW u \in Thread, pc'[u] = "command"
                 PROVE  state'[has'[u]] # "err"
        BY DEF FailsOnce
    <3>1. CASE u = t
        BY <2>2, <2>3, <3>1
    <3>2. CASE u # t
      <4>1. has[u] \in Ctx /\ has[u] # c /\ has[u] # has[t] /\ state[has[u]] # "err"
          BY <1>2, <2>2, <2>3, <3>2, HasOK DEF FailsOnce
      <4>2. QED
          BY <2>3, <3>2, <4>1
    <3>3. QED
        BY <3>1, <3>2
  <2>9. QED
      BY <1>3, <2>5, <2>6, <2>7, <2>8
<1>5. CASE ~server
  <2>1. /\ has' = [has EXCEPT ![t] = None]
        /\ state' = [state EXCEPT ![has[t]] = "freed"]
        /\ pc' = [pc EXCEPT ![t] = "idle"]
      BY <1>5 DEF Reconnect
  <2>2. /\ pc'[t] = "idle"
        /\ \A u \in Thread \ {t} : pc'[u] = pc[u] /\ has'[u] = has[u]
        /\ \A d \in Ctx : state'[d] = IF d = has[t] THEN "freed" ELSE state[d]
      BY <1>2, <2>1 DEF TypeOK
  <2>3. Lent' = Lent \ {has[t]}
      BY <1>1, <1>2, <2>2 DEF Lent
  <2>4. TypeOK'
      BY <1>1, <2>1 DEF TypeOK
  <2>5. Accounted'
    <3>1. \A u, v \in Thread :
             pc'[u] # "idle" /\ pc'[v] # "idle" /\ has'[u] = has'[v] => u = v
        BY <2>2 DEF Accounted
    <3>2. Range(list') \cap Lent' = {}
        BY <1>1, <2>3 DEF Accounted
    <3>3. Range(list') \cup Lent' = {d \in Ctx : state'[d] \notin {"freed", "lost"}}
        BY <1>1, <1>2, <2>2, <2>3 DEF Accounted
    <3>4. \A d \in Ctx : state'[d] = "lost" => state[d] = "lost"
        BY <2>2
    <3>5. QED
        BY <1>1, <3>1, <3>2, <3>3, <3>4 DEF Accounted
  <2>6. PoolBounded'
    <3>1. Cardinality(Lent') = Cardinality(Lent) - 1 /\ Cardinality(Lent') \in Nat
        BY <1>2, <2>3, LentFinite, FS_RemoveElement, FS_CardinalityType
    <3>2. QED
        BY <1>1, <3>1, LentFinite, Numbers DEF PoolBounded
  <2>7. FailsOnce'
    <3> SUFFICES ASSUME NEW u \in Thread, pc'[u] = "command"
                 PROVE  state'[has'[u]] # "err"
        BY DEF FailsOnce
    <3>1. u # t /\ has[u] \in Ctx /\ has[u] # has[t] /\ state[has[u]] # "err"
        BY <1>2, <2>2, HasOK DEF FailsOnce
    <3>2. QED
        BY <2>2, <3>1
  <2>8. QED
      BY <1>3, <2>4, <2>5, <2>6, <2>7
<1>6. QED
    BY <1>4, <1>5

LEMMA CommandIInv ==
    ASSUME IInv, NEW t \in Thread, Command(t)
    PROVE  IInv'
<1> USE DEF IInv
<1>1. /\ pc[t] = "command"
      /\ pc' = [pc EXCEPT ![t] = "release"]
      /\ UNCHANGED <<app, ticking, it, server, list, has>>
      /\ has[t] \in Ctx
      /\ state[has[t]] \notin {"freed", "lost"}
      /\ \A u \in Thread \ {t} : pc[u] # "idle" => has[u] # has[t]
    BY HasOK DEF Command
<1>2. PICK s \in {"good", "err"} : state' = [state EXCEPT ![has[t]] = s]
    BY DEF Command
<1>3. /\ pc'[t] = "release" /\ \A u \in Thread \ {t} : pc'[u] = pc[u]
      /\ \A c \in Ctx : state'[c] = IF c = has[t] THEN s ELSE state[c]
      /\ \A c \in Ctx : state'[c] \in {"freed", "lost"} <=> state[c] \in {"freed", "lost"}
    BY <1>1, <1>2 DEF TypeOK
<1>4. TypeOK' /\ NewOK' /\ ClosingOK'
    BY <1>1, <1>2 DEF Command, TypeOK, NewOK, ClosingOK
<1>5. Lent' = Lent
    BY <1>1, <1>3 DEF Lent
<1>6. Accounted'
  <2>1. \A u, v \in Thread : pc'[u] # "idle" /\ pc'[v] # "idle" /\ has'[u] = has'[v] => u = v
      BY <1>1, <1>3 DEF Accounted
  <2>2. \A c \in Ctx : state'[c] = "lost" => state[c] = "lost"
      BY <1>3
  <2>3. QED
      BY <1>1, <1>3, <1>5, <2>1, <2>2 DEF Accounted
<1>7. PoolBounded'
    BY <1>1, <1>5 DEF PoolBounded
<1>8. FailsOnce'
  <2> SUFFICES ASSUME NEW u \in Thread, pc'[u] = "command"
               PROVE  state'[has'[u]] # "err"
      BY DEF FailsOnce
  <2>1. u # t /\ has[u] \in Ctx /\ has[u] # has[t] /\ state[has[u]] # "err"
      BY <1>1, <1>3, HasOK DEF FailsOnce
  <2>2. QED
      BY <1>1, <1>3, <2>1
<1>9. QED
    BY <1>4, <1>6, <1>7, <1>8

LEMMA ReleaseConnectionIInv ==
    ASSUME IInv, NEW t \in Thread, ReleaseConnection(t)
    PROVE  IInv'
<1> USE DEF IInv
<1>1. /\ pc[t] = "release"
      /\ list' = Append(list, has[t])
      /\ UNCHANGED <<app, ticking, it, server, state>>
      /\ has[t] \in Ctx
      /\ has[t] \in Lent
      /\ has[t] \notin Range(list)
      /\ \A u \in Thread \ {t} : pc[u] # "idle" => has[u] # has[t]
    BY HasOK DEF ReleaseConnection
<1>2. /\ list \in Seq(Ctx)
      /\ <<has[t]>> \in Seq(Ctx)
      /\ Len(<<has[t]>>) = 1
      /\ list' = list \o <<has[t]>>
    BY <1>1 DEF TypeOK
<1>3. IsInjective(<<has[t]>>) /\ Range(<<has[t]>>) = {has[t]}
    BY DEF IsInjective, Range
<1>4. /\ list' \in Seq(Ctx)
      /\ Len(list') = Len(list) + 1
      /\ IsInjective(list')
      /\ Range(list') = Range(list) \cup {has[t]}
  <2>1. IsInjective(list) /\ Range(list) \cap Range(<<has[t]>>) = {}
      BY <1>1, <1>3 DEF Accounted
  <2>2. /\ list \o <<has[t]>> \in Seq(Ctx)
        /\ Len(list \o <<has[t]>>) = Len(list) + 1
        /\ IsInjective(list \o <<has[t]>>)
        /\ Range(list \o <<has[t]>>) = Range(list) \cup {has[t]}
      BY <1>2, <1>3, <2>1, ConcatOK
  <2>3. QED
      BY <1>2, <2>2
<1>5. /\ pc'[t] = "idle"
      /\ \A u \in Thread \ {t} : pc'[u] = pc[u] /\ has'[u] = has[u]
    BY DEF ReleaseConnection, TypeOK
<1>6. Lent' = Lent \ {has[t]}
    BY <1>1, <1>5 DEF Lent
<1>7. TypeOK' /\ NewOK' /\ ClosingOK'
    BY <1>1, <1>4 DEF ReleaseConnection, TypeOK, NewOK, ClosingOK
<1>8. Accounted'
  <2>1. \A u, v \in Thread : pc'[u] # "idle" /\ pc'[v] # "idle" /\ has'[u] = has'[v] => u = v
      BY <1>5 DEF Accounted
  <2>2. Range(list') \cap Lent' = {}
      BY <1>1, <1>4, <1>6 DEF Accounted
  <2>3. Range(list') \cup Lent' = {c \in Ctx : state'[c] \notin {"freed", "lost"}}
      BY <1>1, <1>4, <1>6 DEF Accounted
  <2>4. QED
      BY <1>1, <1>4, <2>1, <2>2, <2>3 DEF Accounted
<1>9. PoolBounded'
  <2>1. Cardinality(Lent') = Cardinality(Lent) - 1 /\ Cardinality(Lent') \in Nat
      BY <1>1, <1>6, LentFinite, FS_RemoveElement, FS_CardinalityType
  <2>2. QED
      BY <1>4, <2>1, LentFinite, Numbers DEF PoolBounded
<1>10. FailsOnce'
    BY <1>1, <1>5 DEF FailsOnce
<1>11. QED
    BY <1>7, <1>8, <1>9, <1>10

LEMMA StepIInv == IInv /\ [Next]_vars => IInv'
<1> SUFFICES ASSUME IInv, [Next]_vars PROVE IInv'
    OBVIOUS
<1>1. CASE Initialize
    BY <1>1, InitializeIInv
<1>2. CASE CloseConnections
    BY <1>2, CloseConnectionsIInv
<1>3. CASE TakeBegin \/ KillTimer \/ ServerFails \/ ServerReturns
    BY <1>3, ServerIInv
<1>4. CASE OnTimer
    BY <1>4, OnTimerIInv
<1>5. ASSUME NEW t \in Thread, Excute(t)
      PROVE  IInv' \/ UNCHANGED vars
    BY <1>5, GetConnectionIInv, ReconnectIInv, CommandIInv, ReleaseConnectionIInv
       DEF Excute, Unavailable
<1>6. CASE UNCHANGED vars
    BY <1>6 DEF vars, IInv, TypeOK, NewOK, ClosingOK, Accounted, PoolBounded, FailsOnce, Lent
<1>7. QED
    BY <1>1, <1>2, <1>3, <1>4, <1>5, <1>6 DEF Next

\* Whatever the number of threads and connections: the contexts that exist are in the
\* list or with a thread, each once (GetConnection, ReleaseConnection, OnTimer), and
\* are lost only if OnTimer fills an empty list between CloseConnections' begin() and
\* its lock (Redis.cpp:114-115); their number is bounded by m_nMaxConnSum and the
\* threads, and redisCommandArgv never gets a context with err set.
THEOREM PoolKeepsContexts == Spec => [](TypeOK /\ Accounted /\ PoolBounded /\ FailsOnce)
<1>1. IInv => TypeOK /\ Accounted /\ PoolBounded /\ FailsOnce
    BY DEF IInv
<1>2. QED
    BY <1>1, InitIInv, StepIInv, PTL DEF Spec

================================================================================
