------------------------------- MODULE RedisPool -------------------------------
(***************************************************************************)
(* The connection pool of CRedis (LFC/Redis): a list of hiredis contexts     *)
(* that the threads which execute commands take from the front and put back   *)
(* at the end, and that a timer of the engine's thread repairs and fills up.  *)
(* The list has a lock; what is done under it is one action, what is done      *)
(* between two holds of it are actions of their own.                           *)
(***************************************************************************)
EXTENDS Integers, FiniteSetsExt, SequencesExt

CONSTANTS Thread,       \* threads that execute commands
          Ctx,          \* addresses of redisContext objects, used again once freed
          None,         \* a NULL context
          MaxConnSum    \* m_nMaxConnSum

ASSUME RedisPoolAssumption ==
    /\ MaxConnSum \in Nat \ {0}
    /\ IsFiniteSet(Thread)
    /\ IsFiniteSet(Ctx)
    /\ Cardinality(Ctx) >= MaxConnSum + Cardinality(Thread)
    /\ None \notin Ctx

VARIABLES
    app,     \* the life of the CRedis
    ticking, \* its timer is set
    it,      \* the iterator of CloseConnections, by what OnTimer has made of it
    server,  \* the Redis server can be reached
    list,    \* m_lstRedisConnect
    state,   \* each context: freed, good, broken (not noticed yet), err set, or lost:
             \* not freed, and nothing leads to it any more
    pc,      \* where each thread is
    has      \* pContext of each thread

vars == <<app, ticking, it, server, list, state, pc, has>>

Init ==
    /\ app = "new"
    /\ ticking = FALSE
    /\ it = "none"
    /\ server = TRUE
    /\ list = <<>>
    /\ state = [c \in Ctx |-> "freed"]
    /\ pc = [t \in Thread |-> "idle"]
    /\ has = [t \in Thread |-> None]

\* The state of a context that redisConnectWithTimeout has just made.
Connected == IF server THEN "good" ELSE "err"

Freed == {c \in Ctx : state[c] = "freed"}

-----------------------------------------------------------------------------
(* The owner. *)

\* InitConnections keeps the contexts that connect; with all of them and the timer
\* Initialize returns True.
Initialize ==
    /\ app = "new"
    /\ \E n \in 0..MaxConnSum : \E S \in kSubset(n, Ctx) :
          /\ list' = SetToSeq(S)
          /\ state' = [c \in Ctx |-> IF c \in S THEN "good" ELSE "freed"]
          /\ app' \in IF n = MaxConnSum THEN {"up", "failed"} ELSE {"failed"}
    /\ ticking' = (app' = "up")
    /\ UNCHANGED <<it, server, pc, has>>

\* ~CRedis, when no command is under way: CloseConnections takes the list's begin()
\* before it has the lock ...
TakeBegin ==
    /\ app \in {"up", "failed"}
    /\ \A t \in Thread : pc[t] = "idle"
    /\ app' = "closing"
    /\ it' = IF list = <<>> THEN "end" ELSE "first"
    /\ UNCHANGED <<ticking, server, list, state, pc, has>>

\* ... and then walks from there to the end and clears the list.  From the end of a
\* list that was empty it frees nothing; from a node that OnTimer has erased its
\* behaviour is undefined, and the model stops.
CloseConnections ==
    /\ app = "closing"
    /\ IF it = "erased"
       THEN app' = "undefined" /\ UNCHANGED <<list, state>>
       ELSE /\ app' = "emptied"
            /\ list' = <<>>
            /\ state' = [c \in Ctx |-> IF c \notin Range(list) THEN state[c]
                                      ELSE IF it = "first" THEN "freed" ELSE "lost"]
    /\ UNCHANGED <<ticking, it, server, pc, has>>

\* Only then KillTimer.
KillTimer ==
    /\ app = "emptied"
    /\ app' = "closed"
    /\ ticking' = FALSE
    /\ UNCHANGED <<it, server, list, state, pc, has>>

-----------------------------------------------------------------------------
(* The server and the engine's thread. *)

ServerFails ==
    /\ app = "up"
    /\ server
    /\ server' = FALSE
    /\ state' = [c \in Ctx |-> IF state[c] = "good" THEN "broken" ELSE state[c]]
    /\ UNCHANGED <<app, ticking, it, list, pc, has>>

ServerReturns ==
    /\ app = "up"
    /\ ~server
    /\ server' = TRUE
    /\ UNCHANGED <<app, ticking, it, list, state, pc, has>>

\* The places in the list of the contexts without an error, and those contexts in
\* their order: what is left when OnTimer has erased the others.
KeptAt == {i \in DOMAIN list : state[list[i]] # "err"}

Kept == [k \in 1..Cardinality(KeptAt) |->
            list[CHOOSE i \in KeptAt : Cardinality({j \in KeptAt : j <= i}) = k]]

\* Mutants of Missing: one too many; none at all.
MissingOneMore == Max({0, MaxConnSum + 1 - Len(Kept)})

MissingNone == 0

\* How many contexts OnTimer adds.  Those that are lent are not counted.
Missing == Max({0, MaxConnSum - Len(Kept)})

\* What OnTimer makes of an iterator that CloseConnections took before the lock.
Overtake ==
    it' = IF app = "closing" /\ it = "first" /\ state[Head(list)] = "err" THEN "erased"
          ELSE IF app = "closing" /\ it = "end" /\ list' # <<>> THEN "past"
          ELSE it

\* OnTimer, under the lock: contexts with an error are freed and the list is filled
\* up, with contexts that could not connect as well.
OnTimer ==
    /\ ticking
    /\ app # "undefined"
    /\ \E S \in kSubset(Missing, Freed \cup (Range(list) \ Range(Kept))) :
          /\ list' = Kept \o SetToSeq(S)
          /\ state' = [c \in Ctx |->
                          IF c \in S THEN Connected
                          ELSE IF c \in Range(list) \ Range(Kept) THEN "freed"
                          ELSE state[c]]
    /\ Overtake
    /\ UNCHANGED <<app, ticking, server, pc, has>>

-----------------------------------------------------------------------------
(* A thread: Excute. *)

\* GetConnection finds the list empty: the command fails.
Unavailable(t) ==
    /\ app = "up"
    /\ pc[t] = "idle"
    /\ list = <<>>
    /\ UNCHANGED vars

\* Mutants of GetConnection: the context stays in the list; its error is not looked at.
GetConnectionKeeps(t) ==
    /\ app = "up"
    /\ pc[t] = "idle"
    /\ list # <<>>
    /\ has' = [has EXCEPT ![t] = Head(list)]
    /\ pc' = [pc EXCEPT ![t] = IF state[Head(list)] = "err" THEN "reconnect" ELSE "command"]
    /\ UNCHANGED <<app, ticking, it, server, list, state>>

GetConnectionTrusts(t) ==
    /\ app = "up"
    /\ pc[t] = "idle"
    /\ list # <<>>
    /\ list' = Tail(list)
    /\ has' = [has EXCEPT ![t] = Head(list)]
    /\ pc' = [pc EXCEPT ![t] = "command"]
    /\ UNCHANGED <<app, ticking, it, server, state>>

\* GetConnection, under the lock: the first context of the list.
GetConnection(t) ==
    /\ app = "up"
    /\ pc[t] = "idle"
    /\ list # <<>>
    /\ list' = Tail(list)
    /\ has' = [has EXCEPT ![t] = Head(list)]
    /\ pc' = [pc EXCEPT ![t] = IF state[Head(list)] = "err" THEN "reconnect" ELSE "command"]
    /\ UNCHANGED <<app, ticking, it, server, state>>

\* GetConnection after the lock: a context with an error is freed and replaced; if
\* that fails, too, the thread has none and the command fails.
Reconnect(t) ==
    /\ pc[t] = "reconnect"
    /\ IF server
       THEN \E c \in Freed \cup {has[t]} :
               /\ has' = [has EXCEPT ![t] = c]
               /\ state' = [state EXCEPT ![has[t]] = "freed", ![c] = "good"]
               /\ pc' = [pc EXCEPT ![t] = "command"]
       ELSE /\ has' = [has EXCEPT ![t] = None]
            /\ state' = [state EXCEPT ![has[t]] = "freed"]
            /\ pc' = [pc EXCEPT ![t] = "idle"]
    /\ UNCHANGED <<app, ticking, it, server, list>>

\* redisCommandArgv: a good connection may still time out, which sets err.
Command(t) ==
    /\ pc[t] = "command"
    /\ state' \in {[state EXCEPT ![has[t]] = s] :
                      s \in IF state[has[t]] = "good" THEN {"good", "err"} ELSE {"err"}}
    /\ pc' = [pc EXCEPT ![t] = "release"]
    /\ UNCHANGED <<app, ticking, it, server, list, has>>

\* ReleaseConnection, under the lock, whether or not there is an error.
ReleaseConnection(t) ==
    /\ pc[t] = "release"
    /\ list' = Append(list, has[t])
    /\ has' = [has EXCEPT ![t] = None]
    /\ pc' = [pc EXCEPT ![t] = "idle"]
    /\ UNCHANGED <<app, ticking, it, server, state>>

Excute(t) ==
    \/ Unavailable(t)
    \/ GetConnection(t)
    \/ Reconnect(t)
    \/ Command(t)
    \/ ReleaseConnection(t)

Next ==
    \/ Initialize
    \/ TakeBegin
    \/ CloseConnections
    \/ KillTimer
    \/ ServerFails
    \/ ServerReturns
    \/ OnTimer
    \/ \E t \in Thread : Excute(t)

\* The timer goes on.  Nobody has to execute commands.
Fairness == WF_vars(OnTimer)

Spec == Init /\ [][Next]_vars /\ Fairness

-----------------------------------------------------------------------------
TypeOK ==
    /\ app \in {"new", "up", "failed", "closing", "emptied", "closed", "undefined"}
    /\ ticking \in BOOLEAN
    /\ it \in {"none", "first", "end", "past", "erased"}
    /\ server \in BOOLEAN
    /\ list \in Seq(Ctx)
    /\ state \in [Ctx -> {"freed", "good", "broken", "err", "lost"}]
    /\ pc \in [Thread -> {"idle", "reconnect", "command", "release"}]
    /\ has \in [Thread -> Ctx \cup {None}]

Lent == {has[t] : t \in {u \in Thread : pc[u] # "idle"}}

\* Each context that exists is in one place: once in the list or with one thread.  So
\* no two commands use one connection, none uses a freed one, and none is lost,
\* however the timer and the threads interleave (Redis.cpp:25-55, 1352-1399).  Only the
\* destructor loses any, when the timer fills, between begin() and Lock()
\* (Redis.cpp:114-115), a list that was empty; when it erases the first node there,
\* the program's behaviour is undefined and nothing is said of what follows.
Accounted ==
    /\ IsInjective(list)
    /\ \A t, u \in Thread : pc[t] # "idle" /\ pc[u] # "idle" /\ has[t] = has[u] => t = u
    /\ Range(list) \cap Lent = {}
    /\ Range(list) \cup Lent = {c \in Ctx : state[c] \notin {"freed", "lost"}}
    /\ (\E c \in Ctx : state[c] = "lost") => it = "past" /\ app \in {"emptied", "closed"}

\* OnTimer fills the list up while others hold contexts that they will put back: the
\* pool outgrows m_nMaxConnSum, but never by more than the threads there are.
PoolBounded == Len(list) + Cardinality(Lent) <= MaxConnSum + Cardinality(Thread)

\* A connection that has failed a command is never used for another one.
FailsOnce == \A t \in Thread : pc[t] = "command" => state[has[t]] # "err"

\* The pool is full again and again, whatever the server and the threads do.
Refilled == app = "up" ~> app # "up" \/ Len(list) >= MaxConnSum

=============================================================================
