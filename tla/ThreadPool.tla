------------------------------ MODULE ThreadPool ------------------------------
(***************************************************************************)
(* CThreadPool: tasks are posted to the event thread with the least          *)
(* payload.  AddTask may be called by several threads at once; it reads the *)
(* payloads one by one, counts the task, and posts it, while the threads     *)
(* handle their messages and count them down.  The payloads are the only     *)
(* thing callers and threads share, by way of __sync_add_and_fetch.          *)
(***************************************************************************)
EXTENDS Integers, FiniteSets

CONSTANTS NThread,  \* nThreadNum
          Task,     \* the tasks, each added once
          Limit     \* 0x7FFFFFFF, where SelectEngineIndex starts from

ASSUME ThreadPoolAssumption ==
    /\ NThread \in Nat \ {0}
    /\ IsFiniteSet(Task)
    /\ Limit \in Nat
    /\ Cardinality(Task) < Limit

Index == 0..(NThread - 1)
None  == -1

VARIABLES
    app,      \* how the owner uses the pool: "down", "up", "failed" or "stopping"
    made,     \* m_vecEngine.size()
    num,      \* m_nEngineNum
    joined,   \* engines that Stop has deleted
    payload,  \* m_vecEnginePayload
    call,     \* how far AddTask has come for a task
    scan,     \* i in SelectEngineIndex
    least,    \* nPayload in SelectEngineIndex
    pick,     \* nIndex, in SelectEngineIndex and after
    job       \* what has become of the message posted for a task

pool == <<app, made, num, joined>>
vars == <<pool, payload, call, scan, least, pick, job>>

Init ==
    /\ app = "down"
    /\ made = 0
    /\ num = 0
    /\ joined = 0
    /\ payload = [i \in Index |-> 0]
    /\ call = [t \in Task |-> "none"]
    /\ scan = [t \in Task |-> 0]
    /\ least = [t \in Task |-> Limit]
    /\ pick = [t \in Task |-> None]
    /\ job = [t \in Task |-> "none"]

-----------------------------------------------------------------------------
(* The owner. *)

\* Mutant of Started: a thread that could not be created goes unnoticed.
StartedAnyway(k) == "up"

\* Start returns False as soon as one thread cannot be created.
Started(k) == IF k = NThread THEN "up" ELSE "failed"

Start ==
    /\ app = "down"
    /\ num' = NThread
    /\ \E k \in 0..NThread :
          /\ made' = k
          /\ app' = Started(k)
    /\ payload' = [i \in Index |-> 0]
    /\ UNCHANGED <<joined, call, scan, least, pick, job>>

InAddTask(t) == call[t] \in {"select", "take", "count", "post", "undo"}

\* Nobody is inside AddTask when the pool is stopped: the owner's obligation.
Stop ==
    /\ app \in {"up", "failed"}
    /\ \A t \in Task : ~InAddTask(t)
    /\ app' = "stopping"
    /\ UNCHANGED <<made, num, joined, payload, call, scan, least, pick, job>>

Busy(i) == \E t \in Task : pick[t] = i /\ job[t] \in {"working", "worked"}

\* delete of the next engine: its thread leaves OnRun between two messages, those
\* it has not come to are never handled.
JoinThread ==
    /\ app = "stopping"
    /\ joined < made
    /\ ~Busy(joined)
    /\ joined' = joined + 1
    /\ job' = [t \in Task |-> IF pick[t] = joined /\ job[t] = "queued" THEN "lost" ELSE job[t]]
    /\ UNCHANGED <<app, made, num, payload, call, scan, least, pick>>

\* The vectors are cleared, m_nEngineNum is not.
StopReturns ==
    /\ app = "stopping"
    /\ joined = made
    /\ app' = "down"
    /\ made' = 0
    /\ joined' = 0
    /\ UNCHANGED <<num, payload, call, scan, least, pick, job>>

-----------------------------------------------------------------------------
(* AddTask. *)

AddTask(t) ==
    /\ app = "up"
    /\ call[t] = "none"
    /\ call' = [call EXCEPT ![t] = "select"]
    /\ UNCHANGED <<pool, payload, scan, least, pick, job>>

\* The loop in SelectEngineIndex goes on behind i, or ends.
Turn(t) ==
    /\ scan' = [scan EXCEPT ![t] = @ + 1]
    /\ call' = [call EXCEPT ![t] = IF scan[t] + 1 = num THEN "count" ELSE "select"]

\* A turn of it reads m_vecEnginePayload[i] to compare it ...
Look(t) ==
    /\ call[t] = "select"
    /\ IF payload[scan[t]] < least[t]
       THEN call' = [call EXCEPT ![t] = "take"] /\ UNCHANGED scan
       ELSE Turn(t)
    /\ UNCHANGED <<pool, payload, least, pick, job>>

\* ... and again to keep it, when it may be another value.
Take(t) ==
    /\ call[t] = "take"
    /\ least' = [least EXCEPT ![t] = payload[scan[t]]]
    /\ pick' = [pick EXCEPT ![t] = scan[t]]
    /\ Turn(t)
    /\ UNCHANGED <<pool, payload, job>>

Add(t, n) == payload' = [payload EXCEPT ![pick[t]] = @ + n]

\* Mutant of CountAndPost: in the other order.
PostAndCount(t) ==
    \/ /\ call[t] = "count"
       /\ job' = [job EXCEPT ![t] = "queued"]
       /\ call' = [call EXCEPT ![t] = "post"]
       /\ UNCHANGED payload
    \/ /\ call[t] = "post"
       /\ Add(t, 1)
       /\ call' = [call EXCEPT ![t] = "true"]
       /\ UNCHANGED job

\* Mutant of CountAndPost: the message event is made but not registered.
CountAndPostUnwatched(t) ==
    \/ /\ call[t] = "count"
       /\ Add(t, 1)
       /\ call' = [call EXCEPT ![t] = "post"]
       /\ UNCHANGED job
    \/ /\ call[t] = "post"
       /\ call' = [call EXCEPT ![t] = "true"]
       /\ UNCHANGED <<payload, job>>

\* The payload is counted up, then the message is posted if there is room for it.
CountAndPost(t) ==
    \/ /\ call[t] = "count"
       /\ Add(t, 1)
       /\ call' = [call EXCEPT ![t] = "post"]
       /\ UNCHANGED job
    \/ /\ call[t] = "post"
       /\ job' = [job EXCEPT ![t] = "queued"]
       /\ call' = [call EXCEPT ![t] = "true"]
       /\ UNCHANGED payload
    \/ /\ call[t] = "post"
       /\ call' = [call EXCEPT ![t] = "undo"]
       /\ UNCHANGED <<payload, job>>

\* Mutant of Undo: the payload stays counted.
UndoForgets(t) ==
    /\ call[t] = "undo"
    /\ call' = [call EXCEPT ![t] = "false"]
    /\ UNCHANGED <<payload, job>>

\* PostMessage failed.
Undo(t) ==
    /\ call[t] = "undo"
    /\ Add(t, -1)
    /\ call' = [call EXCEPT ![t] = "false"]
    /\ UNCHANGED job

Caller(t) ==
    \/ Look(t)
    \/ Take(t)
    \/ (CountAndPost(t) \/ Undo(t)) /\ UNCHANGED <<pool, scan, least, pick>>

-----------------------------------------------------------------------------
(* The threads. *)

\* Messages of one engine are handled one at a time, in any order.
OnMessageEvent(t) ==
    /\ job[t] = "queued"
    /\ ~Busy(pick[t])
    /\ job' = [job EXCEPT ![t] = "working"]
    /\ UNCHANGED <<payload, call>>

\* Mutant of OnWorkReturns: the message is still there.
OnWorkReturnsAgain(t) ==
    /\ job[t] = "working"
    /\ job' = [job EXCEPT ![t] = "queued"]
    /\ UNCHANGED <<payload, call>>

OnWorkReturns(t) ==
    /\ job[t] = "working"
    /\ job' = [job EXCEPT ![t] = "worked"]
    /\ UNCHANGED <<payload, call>>

CountDown(t) ==
    /\ job[t] = "worked"
    /\ job' = [job EXCEPT ![t] = "done"]
    /\ Add(t, -1)
    /\ UNCHANGED call

Worker(t) ==
    /\ OnMessageEvent(t) \/ OnWorkReturns(t) \/ CountDown(t)
    /\ UNCHANGED <<pool, scan, least, pick>>

Owner == Start \/ Stop \/ JoinThread \/ StopReturns

Next ==
    \/ Owner
    \/ \E t \in Task : AddTask(t) \/ Caller(t) \/ Worker(t)

\* AddTask and Stop go on once called; threads run and their tasks return.
Fairness ==
    /\ WF_vars(JoinThread \/ StopReturns)
    /\ \A t \in Task : WF_vars(Caller(t)) /\ WF_vars(Worker(t))

Spec == Init /\ [][Next]_vars /\ Fairness

-----------------------------------------------------------------------------
TypeOK ==
    /\ app \in {"down", "up", "failed", "stopping"}
    /\ made \in 0..NThread
    /\ num \in {0, NThread}
    /\ joined \in 0..NThread
    /\ payload \in [Index -> Nat]
    /\ call \in [Task -> {"none", "select", "take", "count", "post", "undo", "true", "false"}]
    /\ scan \in [Task -> 0..NThread]
    /\ least \in [Task -> Nat]
    /\ pick \in [Task -> Index \cup {None}]
    /\ job \in [Task -> {"none", "queued", "working", "worked", "done", "lost"}]

\* The task counts in the payload of the thread it was given to.
Counted(t) == call[t] \in {"post", "undo"} \/ job[t] \in {"queued", "working", "worked"}

CountedAt(i) == {t \in Task : pick[t] = i /\ Counted(t)}

\* Whatever callers and threads interleave, a thread's payload is the number of
\* tasks between AddTask's choice and OnMessageEvent's end: never negative, as
\* SelectEngineIndex asserts (ThreadPool.cpp:130), and zero for an idle thread,
\* so that the choice stays meaningful for the life of the pool.  While Stop deletes
\* the threads this goes for those it has not come to.
PayloadCounts ==
    app # "down" => \A i \in joined..(NThread - 1) :
        payload[i] = Cardinality(CountedAt(i))

\* AddTask posts to a thread that exists (ThreadPool.cpp:90,93), through failed
\* starts and restarts.
PickExists ==
    \A t \in Task :
        /\ call[t] \in {"count", "post", "undo"} => pick[t] \in joined..(made - 1)
        /\ job[t] \in {"queued", "working", "worked"} => pick[t] \in joined..(made - 1)

\* A task that was accepted runs to its end, unless Stop came first.
TaskEnds == \A t \in Task : call[t] = "true" ~> job[t] \in {"done", "lost"}

\* Stop returns.
StopEnds == app = "stopping" ~> app = "down"

=============================================================================
