--------------------------- MODULE ThreadPoolProofs ---------------------------
(***************************************************************************)
(* For any number of threads and tasks: a thread's payload is the number of *)
(* tasks that AddTask has given it and OnMessageEvent has not finished, and *)
(* AddTask gives tasks only to threads that exist.                           *)
(***************************************************************************)
EXTENDS ThreadPool, FiniteSetTheorems, TLAPS

\* Only a pool that was started completely takes tasks, and a pool that is down has
\* neither threads nor tasks in them.
PoolOK ==
    /\ app = "up" => made = NThread
    /\ app # "down" => num = NThread
    /\ app = "down" => made = 0
    /\ app # "stopping" => joined = 0
    /\ joined <= made

\* A message exists only once AddTask has posted it, and SelectEngineIndex has a
\* choice from its first turn on.
CallOK ==
    \A t \in Task :
        /\ InAddTask(t) => app = "up"
        /\ call[t] # "true" => job[t] = "none"
        /\ call[t] = "none" => scan[t] = 0 /\ least[t] = Limit
        /\ call[t] \in {"select", "take"} => scan[t] < num
        /\ call[t] = "select" =>
              IF scan[t] = 0 THEN least[t] = Limit ELSE pick[t] \in 0..(scan[t] - 1)

IInv == TypeOK /\ PoolOK /\ CallOK /\ PickExists /\ PayloadCounts

-----------------------------------------------------------------------------
LEMMA InitIInv == Init => IInv
<1> SUFFICES ASSUME Init PROVE IInv
    OBVIOUS
<1> USE ThreadPoolAssumption
<1>1. TypeOK
    BY DEF Init, TypeOK, Index, None
<1>2. PoolOK /\ CallOK /\ PickExists /\ PayloadCounts
    BY DEF Init, PoolOK, CallOK, InAddTask, PickExists, PayloadCounts
<1>3. QED
    BY <1>1, <1>2 DEF IInv

\* The tasks a thread's payload counts are finitely many, so there are numbers of them.
LEMMA CountedFinite ==
    \A i : /\ IsFiniteSet(CountedAt(i))
           /\ Cardinality(CountedAt(i)) \in Nat
           /\ Cardinality(CountedAt(i)) < Limit
<1> TAKE i
<1>1. CountedAt(i) \in SUBSET Task
    BY DEF CountedAt
<1>2. IsFiniteSet(CountedAt(i)) /\ Cardinality(CountedAt(i)) <= Cardinality(Task)
    BY <1>1, FS_Subset, ThreadPoolAssumption
<1>3. Cardinality(CountedAt(i)) \in Nat /\ Cardinality(Task) \in Nat
    BY <1>2, FS_CardinalityType, ThreadPoolAssumption
<1>4. QED
    BY <1>2, <1>3, ThreadPoolAssumption

\* The payload of a thread that one more task is given to.
LEMMA CountedMore ==
    ASSUME NEW t \in Task, pick[t] \in Index, ~Counted(t),
           pick' = pick, Counted(t)',
           \A u \in Task \ {t} : Counted(u)' <=> Counted(u)
    PROVE  \A i \in Index : Cardinality(CountedAt(i))' =
              Cardinality(CountedAt(i)) + (IF i = pick[t] THEN 1 ELSE 0)
<1> TAKE i \in Index
<1>1. CASE i = pick[t]
  <2>1. CountedAt(i)' = CountedAt(i) \cup {t} /\ t \notin CountedAt(i)
      BY <1>1 DEF CountedAt
  <2>2. QED
      BY <1>1, <2>1, CountedFinite, FS_AddElement
<1>2. CASE i # pick[t]
  <2>1. CountedAt(i)' = CountedAt(i)
      BY <1>2 DEF CountedAt
  <2>2. QED
      BY <1>2, <2>1, CountedFinite
<1>3. QED
    BY <1>1, <1>2

\* The payload of a thread that is rid of a task.
LEMMA CountedLess ==
    ASSUME NEW t \in Task, pick[t] \in Index, Counted(t),
           pick' = pick, ~Counted(t)',
           \A u \in Task \ {t} : Counted(u)' <=> Counted(u)
    PROVE  /\ Cardinality(CountedAt(pick[t])) > 0
           /\ \A i \in Index : Cardinality(CountedAt(i))' =
                 Cardinality(CountedAt(i)) - (IF i = pick[t] THEN 1 ELSE 0)
<1>1. t \in CountedAt(pick[t])
    BY DEF CountedAt
<1>2. Cardinality(CountedAt(pick[t]) \ {t}) = Cardinality(CountedAt(pick[t])) - 1
      /\ Cardinality(CountedAt(pick[t]) \ {t}) \in Nat
    BY <1>1, CountedFinite, FS_RemoveElement, FS_CardinalityType
<1>3. ASSUME NEW i \in Index
      PROVE  Cardinality(CountedAt(i))' =
                Cardinality(CountedAt(i)) - (IF i = pick[t] THEN 1 ELSE 0)
  <2>1. CASE i = pick[t]
    <3>1. CountedAt(i)' = CountedAt(i) \ {t}
        BY <2>1 DEF CountedAt
    <3>2. QED
        BY <2>1, <3>1, <1>2
  <2>2. CASE i # pick[t]
    <3>1. CountedAt(i)' = CountedAt(i)
        BY <2>2 DEF CountedAt
    <3>2. QED
        BY <2>2, <3>1, CountedFinite
  <2>3. QED
      BY <2>1, <2>2
<1>4. QED
    BY <1>2, <1>3, CountedFinite

\* Steps that leave the payloads and what they count alone.
LEMMA CountedSame ==
    ASSUME \A u \in Task : Counted(u)' <=> Counted(u),
           \A u \in Task : Counted(u) => pick'[u] = pick[u]
    PROVE  \A i : CountedAt(i)' = CountedAt(i)
BY DEF CountedAt

-----------------------------------------------------------------------------
(* The steps of the owner. *)

LEMMA OwnerIInv == IInv /\ Owner => IInv'
<1> SUFFICES ASSUME IInv, Owner PROVE IInv'
    OBVIOUS
<1> USE DEF IInv
<1>1. CASE Start
  <2>1. \A t \in Task : ~Counted(t) /\ ~InAddTask(t) /\ job[t] \notin {"queued", "working", "worked"}
      BY <1>1 DEF Start, TypeOK, PoolOK, CallOK, PickExists, Counted, InAddTask
  <2>2. TypeOK' /\ PoolOK'
      BY <1>1, ThreadPoolAssumption DEF Start, Started, TypeOK, PoolOK, Index
  <2>3. CallOK' /\ PickExists'
      BY <1>1, <2>1 DEF Start, TypeOK, CallOK, PickExists, InAddTask
  <2>4. \A i : CountedAt(i)' = {}
      BY <1>1, <2>1 DEF Start, CountedAt, Counted
  <2>5. PayloadCounts'
      BY <1>1, <2>4, FS_EmptySet DEF Start, PoolOK, PayloadCounts, Index
  <2>6. QED
      BY <2>2, <2>3, <2>5
<1>2. CASE Stop
  <2>1. TypeOK' /\ PoolOK' /\ CallOK' /\ PickExists'
      BY <1>2 DEF Stop, TypeOK, PoolOK, CallOK, PickExists, InAddTask
  <2>2. \A i : CountedAt(i)' = CountedAt(i)
      BY <1>2 DEF Stop, CountedAt, Counted
  <2>3. QED
      BY <1>2, <2>1, <2>2 DEF Stop, PayloadCounts
<1>3. CASE JoinThread
  <2>1. TypeOK' /\ PoolOK'
      BY <1>3 DEF JoinThread, TypeOK, PoolOK
  <2>2. CallOK'
      BY <1>3 DEF JoinThread, TypeOK, CallOK, InAddTask
  <2>3. PickExists'
      BY <1>3 DEF JoinThread, TypeOK, PickExists, CallOK, InAddTask, Busy, Index, None
  <2>4. ASSUME NEW i \in joined'..(NThread - 1) PROVE CountedAt(i)' = CountedAt(i)
      BY <1>3 DEF JoinThread, TypeOK, CountedAt, Counted
  <2>5. PayloadCounts'
      BY <1>3, <2>4 DEF JoinThread, TypeOK, PayloadCounts
  <2>6. QED
      BY <2>1, <2>2, <2>3, <2>5
<1>4. CASE StopReturns
  <2>1. \A t \in Task : ~InAddTask(t) /\ job[t] \notin {"queued", "working", "worked"}
      BY <1>4 DEF StopReturns, TypeOK, CallOK, PickExists
  <2>2. TypeOK' /\ PoolOK'
      BY <1>4, ThreadPoolAssumption DEF StopReturns, TypeOK, PoolOK
  <2>3. CallOK' /\ PickExists' /\ PayloadCounts'
      BY <1>4, <2>1 DEF StopReturns, TypeOK, CallOK, PickExists, PayloadCounts, InAddTask
  <2>4. QED
      BY <2>2, <2>3
<1>5. QED
    BY <1>1, <1>2, <1>3, <1>4 DEF Owner

-----------------------------------------------------------------------------
(* The steps of a caller. *)

LEMMA AddTaskIInv == ASSUME NEW t \in Task PROVE IInv /\ AddTask(t) => IInv'
<1> SUFFICES ASSUME IInv, AddTask(t) PROVE IInv'
    OBVIOUS
<1> USE DEF IInv, AddTask, pool
<1>1. TypeOK' /\ PoolOK'
    BY DEF TypeOK, PoolOK
<1>2. CallOK' /\ PickExists'
    BY ThreadPoolAssumption DEF TypeOK, PoolOK, CallOK, PickExists, InAddTask
<1>3. \A i : CountedAt(i)' = CountedAt(i)
    BY CountedSame DEF TypeOK, Counted
<1>4. QED
    BY <1>1, <1>2, <1>3 DEF PayloadCounts

LEMMA LookIInv == ASSUME NEW t \in Task PROVE IInv /\ Look(t) => IInv'
<1> SUFFICES ASSUME IInv, Look(t) PROVE IInv'
    OBVIOUS
<1> USE DEF IInv, Look, Turn, pool
<1>1. /\ app = "up" /\ num = NThread /\ made = NThread /\ joined = 0
      /\ scan[t] \in 0..(NThread - 1)
      /\ job[t] = "none"
    BY DEF TypeOK, PoolOK, CallOK, InAddTask
<1>2. payload[scan[t]] \in Nat /\ payload[scan[t]] < Limit
    BY <1>1, CountedFinite DEF TypeOK, PayloadCounts, Index
<1>3. TypeOK'
  <2>1. scan[t] \in 0..NThread /\ scan[t] + 1 \in 0..NThread
      BY <1>1, ThreadPoolAssumption
  <2>2. QED
      BY <2>1 DEF TypeOK
<1>4. PoolOK'
    BY DEF PoolOK
<1>5. payload[scan[t]] < least[t] \/ pick[t] \in 0..(scan[t] - 1)
    BY <1>1, <1>2 DEF TypeOK, CallOK
<1>6. CallOK'
    BY <1>1, <1>5 DEF TypeOK, CallOK, InAddTask
<1>7. PickExists'
    BY <1>1, <1>5 DEF TypeOK, PickExists
<1>8. \A i : CountedAt(i)' = CountedAt(i)
    BY <1>1, CountedSame DEF TypeOK, Counted
<1>9. QED
    BY <1>3, <1>4, <1>6, <1>7, <1>8 DEF PayloadCounts

LEMMA TakeIInv == ASSUME NEW t \in Task PROVE IInv /\ Take(t) => IInv'
<1> SUFFICES ASSUME IInv, Take(t) PROVE IInv'
    OBVIOUS
<1> USE DEF IInv, Take, Turn, pool
<1>1. /\ app = "up" /\ num = NThread /\ made = NThread /\ joined = 0
      /\ scan[t] \in 0..(NThread - 1)
      /\ job[t] = "none"
    BY DEF TypeOK, PoolOK, CallOK, InAddTask
<1>2. payload[scan[t]] \in Nat
    BY <1>1 DEF TypeOK, Index
<1>3. TypeOK'
  <2>1. scan[t] \in Index /\ scan[t] + 1 \in 0..NThread
      BY <1>1, ThreadPoolAssumption DEF Index
  <2>2. scan' \in [Task -> 0..NThread] /\ least' \in [Task -> Nat]
      BY <1>2, <2>1 DEF TypeOK
  <2>3. pick' \in [Task -> Index \cup {None}]
      BY <2>1 DEF TypeOK
  <2>4. QED
      BY <2>2, <2>3 DEF TypeOK
<1>4. PoolOK'
    BY DEF PoolOK
<1>5. pick'[t] = scan[t]
    BY DEF TypeOK
<1>6. CallOK'
    BY <1>1, <1>5 DEF TypeOK, CallOK, InAddTask
<1>7. PickExists'
    BY <1>1, <1>5 DEF TypeOK, PickExists
<1>8. \A i : CountedAt(i)' = CountedAt(i)
    BY <1>1, CountedSame DEF TypeOK, Counted
<1>9. QED
    BY <1>3, <1>4, <1>6, <1>7, <1>8 DEF PayloadCounts

LEMMA CountAndPostIInv ==
    ASSUME NEW t \in Task, CountAndPost(t), UNCHANGED <<pool, scan, least, pick>>
    PROVE  IInv => IInv'
<1> SUFFICES ASSUME IInv PROVE IInv'
    OBVIOUS
<1> USE DEF IInv, pool
<1>1. call[t] \in {"count", "post"} /\ app = "up" /\ made = NThread /\ joined = 0
    BY DEF CountAndPost, CallOK, PoolOK, InAddTask
<1>2. pick[t] \in Index /\ job[t] = "none"
    BY <1>1 DEF CallOK, PickExists, Index
<1>3. PoolOK'
    BY DEF PoolOK
<1>4. CallOK' /\ PickExists'
    BY <1>1, <1>2 DEF CountAndPost, TypeOK, CallOK, PickExists, InAddTask
<1>5. CASE call[t] = "count"
  <2>1. payload' = [payload EXCEPT ![pick[t]] = @ + 1]
        /\ call' = [call EXCEPT ![t] = "post"] /\ job' = job
      BY <1>5 DEF CountAndPost, Add
  <2>2. TypeOK'
      BY <1>2, <2>1 DEF TypeOK, Index
  <2>3. \A i \in Index : Cardinality(CountedAt(i))' =
              Cardinality(CountedAt(i)) + (IF i = pick[t] THEN 1 ELSE 0)
      BY <1>2, <1>5, <2>1, CountedMore DEF TypeOK, Counted
  <2>4. \A i \in Index : payload'[i] = Cardinality(CountedAt(i))'
      BY <1>1, <1>2, <2>1, <2>3 DEF TypeOK, PayloadCounts, Index
  <2>5. QED
      BY <1>1, <1>3, <1>4, <2>2, <2>4 DEF PayloadCounts, Index
<1>6. CASE call[t] = "post"
  <2>1. payload' = payload
        /\ \/ call' = [call EXCEPT ![t] = "true"] /\ job' = [job EXCEPT ![t] = "queued"]
           \/ call' = [call EXCEPT ![t] = "undo"] /\ job' = job
      BY <1>6 DEF CountAndPost
  <2>2. TypeOK'
      BY <2>1 DEF TypeOK
  <2>3. \A i : CountedAt(i)' = CountedAt(i)
      BY <1>6, <2>1, CountedSame DEF TypeOK, Counted
  <2>4. QED
      BY <1>1, <1>3, <1>4, <2>1, <2>2, <2>3 DEF PayloadCounts
<1>7. QED
    BY <1>1, <1>5, <1>6

LEMMA UndoIInv ==
    ASSUME NEW t \in Task, Undo(t), UNCHANGED <<pool, scan, least, pick>>
    PROVE  IInv => IInv'
<1> SUFFICES ASSUME IInv PROVE IInv'
    OBVIOUS
<1> USE DEF IInv, pool, Undo
<1>1. app = "up" /\ made = NThread /\ joined = 0
    BY DEF CallOK, PoolOK, InAddTask
<1>2. pick[t] \in Index /\ job[t] = "none"
    BY <1>1 DEF CallOK, PickExists, Index
<1>3. /\ Cardinality(CountedAt(pick[t])) > 0
      /\ \A i \in Index : Cardinality(CountedAt(i))' =
            Cardinality(CountedAt(i)) - (IF i = pick[t] THEN 1 ELSE 0)
    BY <1>2, CountedLess DEF TypeOK, Counted
<1>4. payload' = [payload EXCEPT ![pick[t]] = @ - 1]
    BY <1>2 DEF Add, TypeOK
<1>5. \A i \in Index : payload'[i] = Cardinality(CountedAt(i))' /\ payload'[i] \in Nat
    BY <1>1, <1>2, <1>3, <1>4 DEF TypeOK, PayloadCounts, Index
<1>6. payload' \in [Index -> Nat]
    BY <1>4, <1>5 DEF TypeOK
<1>7. TypeOK'
    BY <1>6 DEF TypeOK
<1>8. PoolOK' /\ CallOK' /\ PickExists'
    BY <1>2 DEF TypeOK, PoolOK, CallOK, PickExists, InAddTask
<1>9. QED
    BY <1>1, <1>5, <1>7, <1>8 DEF PayloadCounts, Index

-----------------------------------------------------------------------------
(* The steps of a thread. *)

LEMMA WorkerIInv == ASSUME NEW t \in Task PROVE IInv /\ Worker(t) => IInv'
<1> SUFFICES ASSUME IInv, Worker(t) PROVE IInv'
    OBVIOUS
<1> USE DEF IInv, Worker, pool
<1>1. job[t] \in {"queued", "working", "worked"} /\ call[t] = "true"
    BY DEF OnMessageEvent, OnWorkReturns, CountDown, CallOK
<1>2. pick[t] \in joined..(made - 1) /\ pick[t] \in Index /\ app # "down"
    BY <1>1 DEF TypeOK, PoolOK, PickExists, Index
<1>3. PoolOK'
    BY DEF PoolOK
<1>4. CallOK' /\ PickExists'
    BY <1>1, <1>2 DEF OnMessageEvent, OnWorkReturns, CountDown, TypeOK, CallOK, PickExists,
                      InAddTask
<1>5. CASE OnMessageEvent(t) \/ OnWorkReturns(t)
  <2>1. TypeOK'
      BY <1>5 DEF OnMessageEvent, OnWorkReturns, TypeOK
  <2>2. \A i : CountedAt(i)' = CountedAt(i)
      BY <1>5, CountedSame DEF OnMessageEvent, OnWorkReturns, TypeOK, Counted
  <2>3. QED
      BY <1>3, <1>4, <1>5, <2>1, <2>2 DEF PayloadCounts, OnMessageEvent, OnWorkReturns
<1>6. CASE CountDown(t)
  <2>1. /\ Cardinality(CountedAt(pick[t])) > 0
        /\ \A i \in Index : Cardinality(CountedAt(i))' =
              Cardinality(CountedAt(i)) - (IF i = pick[t] THEN 1 ELSE 0)
      BY <1>1, <1>2, <1>6, CountedLess DEF CountDown, TypeOK, Counted
  <2>2. payload' = [payload EXCEPT ![pick[t]] = @ - 1]
      BY <1>2, <1>6 DEF CountDown, Add, TypeOK
  <2>3. \A i \in joined..(NThread - 1) : payload'[i] = Cardinality(CountedAt(i))'
    <3>1. ASSUME NEW i \in joined..(NThread - 1)
          PROVE  i \in Index /\ payload[i] = Cardinality(CountedAt(i))
        BY <1>2, <3>1 DEF TypeOK, PayloadCounts, Index
    <3>2. QED
        BY <1>2, <2>1, <2>2, <3>1 DEF TypeOK
  <2>4. payload[pick[t]] > 0
      BY <1>2, <2>1 DEF TypeOK, PayloadCounts, Index
  <2>5. payload' \in [Index -> Nat]
      BY <1>2, <2>2, <2>4 DEF TypeOK
  <2>6. TypeOK'
      BY <1>6, <2>5 DEF CountDown, TypeOK
  <2>7. QED
      BY <1>3, <1>4, <2>3, <2>6 DEF PayloadCounts
<1>7. QED
    BY <1>5, <1>6

LEMMA NextIInv == IInv /\ [Next]_vars => IInv'
<1> SUFFICES ASSUME IInv, [Next]_vars PROVE IInv'
    OBVIOUS
<1>1. CASE Owner
    BY <1>1, OwnerIInv
<1>2. ASSUME NEW t \in Task, AddTask(t) \/ Caller(t) \/ Worker(t) PROVE IInv'
    BY <1>2, AddTaskIInv, LookIInv, TakeIInv, CountAndPostIInv, UndoIInv, WorkerIInv DEF Caller
<1>3. CASE UNCHANGED vars
  <2>1. \A i : CountedAt(i)' = CountedAt(i)
      BY <1>3 DEF vars, CountedAt, Counted
  <2>2. QED
      BY <1>3, <2>1 DEF vars, pool, IInv, TypeOK, PoolOK, CallOK, PickExists, PayloadCounts,
                       InAddTask
<1>4. QED
    BY <1>1, <1>2, <1>3 DEF Next

\* Under any interleaving of callers, threads and owner, through failed posts and
\* starts and through restarts, payloads count the tasks of their threads and never go
\* below zero (ThreadPool.cpp:130), and tasks go to existing threads (:90,93).
THEOREM PoolCounts == Spec => [](TypeOK /\ PayloadCounts /\ PickExists)
<1>1. IInv => TypeOK /\ PayloadCounts /\ PickExists
    BY DEF IInv
<1>2. QED
    BY <1>1, InitIInv, NextIInv, PTL DEF Spec

=============================================================================
