------------------------------ MODULE EngineLoop ------------------------------
(***************************************************************************)
(* One engine thread running CEventEngine::EventTest for ever over handlers *)
(* that may do anything a handler can do with event objects, while other    *)
(* threads use the same engine.                                             *)
(*                                                                          *)
(* The question is the one the comment in EventTest answers: an event that  *)
(* was deleted while the batch was handled is ignored when its entry comes  *)
(* up, so no handler is ever called on an object that is gone.              *)
(***************************************************************************)
EXTENDS EventEngine, Naturals

CONSTANTS Event,    \* the CEvent objects, that is, their addresses
          MaxWait   \* s_nWaitEvents

ASSUME EngineLoopAssumption ==
    /\ Event # {}
    /\ MaxWait \in Nat \ {0}

VARIABLES eng,     \* the CEventEngine
          alive,   \* the addresses that hold a constructed event object
          pc,      \* where the engine thread is in EventTest
          answer,  \* events[], until m_bOnEvent is set
          cur      \* the entry being handled; flags: what is still to be done

vars == <<eng, alive, pc, answer, cur>>

NoEntry == [ev |-> CHOOSE e \in Event : TRUE, flags |-> {}]

Init ==
    /\ eng = NewEngine(Event)
    /\ alive = {}
    /\ pc = "wait"
    /\ answer = {}
    /\ cur = NoEntry

-----------------------------------------------------------------------------
(* The engine thread, outside the handlers. *)

\* epoll_wait returns with at least one entry.
EpollWait ==
    /\ pc = "wait"
    /\ \E cond \in [eng.added -> SUBSET Flag] :
          answer' \in Answers(eng, cond, MaxWait)
    /\ pc' = "mark"
    /\ UNCHANGED <<eng, alive, cur>>

\* m_bOnEvent = True: from here on deletions are remembered.
MarkOnEvent ==
    /\ pc = "mark"
    /\ eng' = StartBatch(eng, answer)
    /\ answer' = {}
    /\ pc' = "loop"
    /\ UNCHANGED <<alive, cur>>

\* The first search of m_vecDeleting: ignore the entry or go on to handle it.
NextEntry(x) ==
    /\ pc = "loop"
    /\ x \in eng.batch
    /\ eng' = Take(eng, x)
    /\ IF x.ev \in eng.deleting
       THEN UNCHANGED <<pc, cur>>
       ELSE pc' = "due" /\ cur' = x
    /\ UNCHANGED <<alive, answer>>

\* OnError, or else OnRead, or else OnWrite of the event is entered; what
\* remains in flags is what EventTest still does for this entry afterwards.
Call ==
    /\ pc = "due"
    /\ cur' = [cur EXCEPT !.flags = IF "err" \in @ THEN {}
                                    ELSE IF "in" \in @ THEN @ \ {"in"}
                                    ELSE {}]
    /\ pc' = "handler"
    /\ UNCHANGED <<eng, alive, answer>>

\* The handler returns. After OnRead, EPOLLOUT is handled as well unless the
\* second search finds that OnRead deleted the event.
Return ==
    /\ pc = "handler"
    /\ pc' = IF "out" \in cur.flags /\ cur.ev \notin eng.deleting
             THEN "due" ELSE "loop"
    /\ UNCHANGED <<eng, alive, answer, cur>>

\* All entries done.
Finish ==
    /\ pc = "loop"
    /\ eng.batch = {}
    /\ eng' = EndBatch(eng)
    /\ pc' = "wait"
    /\ UNCHANGED <<alive, answer, cur>>

EngineThread ==
    \/ EpollWait
    \/ MarkOnEvent
    \/ \E x \in eng.batch : NextEntry(x)
    \/ Call
    \/ Return
    \/ Finish

-----------------------------------------------------------------------------
(* What handlers and other threads do with event objects. *)

\* A new CEvent at a free address; CEvent() leaves it unregistered.
Construct(e) ==
    /\ e \notin alive
    /\ alive' = alive \cup {e}
    /\ UNCHANGED <<eng, pc, answer, cur>>

DoRegister(e) ==
    /\ e \in alive
    /\ \E m \in {Read, Write, RW} : eng' = Register(eng, e, m)
    /\ UNCHANGED <<alive, pc, answer, cur>>

DoUnregister(e) ==
    /\ e \in alive
    /\ eng' = Unregister(eng, e)
    /\ UNCHANGED <<alive, pc, answer, cur>>

\* delete of an event; ~CEvent asserts that it is not registered.
Destroy(e) ==
    /\ e \in alive \ eng.added
    /\ alive' = alive \ {e}
    /\ UNCHANGED <<eng, pc, answer, cur>>

\* Code that runs inside OnRead, OnWrite or OnError on the engine thread.
Handler ==
    /\ pc = "handler"
    /\ \E e \in Event : DoUnregister(e) \/ Destroy(e)

\* Creating and registering events is done by handlers and by other threads
\* alike: PostMessage, OnAccept and the constructor of CClientEvent do it.
AnyThread == \E e \in Event : Construct(e) \/ DoRegister(e)

Next == EngineThread \/ Handler \/ AnyThread

Spec == Init /\ [][Next]_vars

-----------------------------------------------------------------------------
TypeOK ==
    /\ eng \in Engine(Event)
    /\ alive \in SUBSET Event
    /\ pc \in {"wait", "mark", "loop", "due", "handler"}
    /\ answer \in SUBSET Entry(Event)
    /\ cur \in Entry(Event)

\* EventTest only calls OnRead, OnWrite or OnError of an object that exists and
\* is registered: the pointer in the entry is neither dangling nor that of an
\* event whose owner has taken it out of epoll (EventEngine.cpp:131-168).
CalledIsRegistered == pc = "due" => cur.ev \in eng.added \cap alive

\* What is left of a batch is either still registered or remembered as deleted,
\* and nothing is remembered across batches, where it would mute an object that
\* was registered again or a new one at the same address.
BatchOK == EngineOK(eng)

=============================================================================
