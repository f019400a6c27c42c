----------------------------- MODULE EventEngine -----------------------------
(***************************************************************************)
(* CEvent and CEventEngine of LFC/Common: registration of event objects    *)
(* with epoll and the batch that EventTest works through.                  *)
(*                                                                         *)
(* The state of an engine is one record, so that a handler making several  *)
(* engine calls is the composition of the operators below:                 *)
(*   added    the events whose m_bAdded is set (the epoll interest list)   *)
(*   mask     the EPOLLIN / EPOLLOUT mask each event is registered with    *)
(*   onEvent  m_bOnEvent                                                   *)
(*   batch    the entries of the last epoll_wait not yet looked at; a set, *)
(*            because epoll documents no order among ready descriptors     *)
(*   deleting m_vecDeleting                                                *)
(* The module has no behaviour of its own: EngineLoop runs the engine with *)
(* arbitrary handlers, TcpClient with those of the game client.            *)
(***************************************************************************)
EXTENDS FiniteSets

Read  == {"in"}
Write == {"out"}
RW    == Read \cup Write

Flag == RW \cup {"err"}

\* A reported descriptor: "err" stands for EPOLLHUP or EPOLLERR.
Entry(E) == [ev : E, flags : SUBSET Flag]

Engine(E) == [added    : SUBSET E,
              mask     : [E -> SUBSET RW],
              onEvent  : BOOLEAN,
              batch    : SUBSET Entry(E),
              deleting : SUBSET E]

NewEngine(E) == [added    |-> {},
                 mask     |-> [e \in E |-> {}],
                 onEvent  |-> FALSE,
                 batch    |-> {},
                 deleting |-> {}]

-----------------------------------------------------------------------------
(* CEvent *)

\* RegisterRead, RegisterWrite and RegisterRW: EPOLL_CTL_MOD of an event that
\* is registered, else EPOLL_CTL_ADD and m_bAdded = True.
Register(g, e, m) == [g EXCEPT !.added   = @ \cup {e},
                               !.mask[e] = m]

\* Mutant of DelEvent: m_vecDeleting is not filled.
DelEventForgets(g, e) == [g EXCEPT !.mask[e] = {}]

\* DelEvent: the event leaves epoll; while a batch is being handled it is also
\* remembered, because an entry for it may still be ahead in the batch.
DelEvent(g, e) == [g EXCEPT !.mask[e]  = {},
                            !.deleting = IF g.onEvent THEN @ \cup {e} ELSE @]

\* Unregister: nothing (and False) if the event is not registered.
Unregister(g, e) ==
    IF e \in g.added
    THEN [DelEvent(g, e) EXCEPT !.added = @ \ {e}]
    ELSE g

-----------------------------------------------------------------------------
(* CEventEngine::EventTest *)

\* What epoll reports for e when its descriptor is in the conditions cond:
\* the errors always, the others if they were asked for.
Reported(g, e, cond) == cond \cap (g.mask[e] \cup {"err"})

\* The non-empty answers of epoll_wait, cond[e] being the conditions of e's
\* descriptor: one entry for each registered event with something to report.
ReadyEntries(g, cond) ==
    {[ev |-> e, flags |-> Reported(g, e, cond[e])] :
        e \in {d \in g.added : Reported(g, d, cond[d]) # {}}}

\* The array handed to epoll_wait holds maxWait entries.
Answers(g, cond, maxWait) ==
    LET ready == ReadyEntries(g, cond)
    IN  {S \in SUBSET ready :
            /\ S # {}
            /\ S = ready \/ Cardinality(S) = maxWait}

\* epoll_wait has answered S and m_bOnEvent is set.
StartBatch(g, S) == [g EXCEPT !.onEvent = TRUE, !.batch = S]

\* The loop moves on to entry x.
Take(g, x) == [g EXCEPT !.batch = @ \ {x}]

\* Mutant of EndBatch: m_vecDeleting is not cleared.
EndBatchRemembers(g) == [g EXCEPT !.onEvent = FALSE]

\* The loop is over: m_bOnEvent = False and m_vecDeleting.clear().
EndBatch(g) == [g EXCEPT !.onEvent = FALSE, !.deleting = {}]

-----------------------------------------------------------------------------
(* What the bookkeeping is for. *)

\* An entry that the loop will not ignore belongs to a registered event.
NoStaleEntry(g) ==
    \A x \in g.batch : x.ev \in g.deleting \/ x.ev \in g.added

\* Entries and remembered deletions only exist while a batch is handled.
BatchScoped(g) == ~g.onEvent => g.batch = {} /\ g.deleting = {}

\* Only a registered event has a mask.
MaskScoped(g) == \A e \in DOMAIN g.mask : e \notin g.added => g.mask[e] = {}

EngineOK(g) == NoStaleEntry(g) /\ BatchScoped(g) /\ MaskScoped(g)

=============================================================================
