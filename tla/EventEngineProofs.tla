--------------------------- MODULE EventEngineProofs ---------------------------
(***************************************************************************)
(* Facts about the operations of EventEngine, for the proofs about the      *)
(* specifications that use them.                                            *)
(***************************************************************************)
EXTENDS EventEngine, TLAPS

\* The engine operations keep an engine an engine.
LEMMA RegisterType ==
    ASSUME NEW E, NEW g \in Engine(E), NEW e \in E, NEW m \in SUBSET RW
    PROVE  Register(g, e, m) \in Engine(E)
BY DEF Engine, Register

LEMMA UnregisterType ==
    ASSUME NEW E, NEW g \in Engine(E), NEW e \in E
    PROVE  Unregister(g, e) \in Engine(E)
BY DEF Engine, DelEvent, Unregister

LEMMA TakeType ==
    ASSUME NEW E, NEW g \in Engine(E), NEW x
    PROVE  Take(g, x) \in Engine(E)
BY DEF Engine, Take

LEMMA BatchType ==
    ASSUME NEW E, NEW g \in Engine(E)
    PROVE  /\ EndBatch(g) \in Engine(E)
           /\ \A S \in SUBSET Entry(E) : StartBatch(g, S) \in Engine(E)
BY DEF Engine, EndBatch, StartBatch

\* Registering cannot make an entry stale, nor can removing an event during a
\* batch, because DelEvent remembers it.
LEMMA RegisterKeepsOK ==
    ASSUME NEW E, NEW g \in Engine(E), EngineOK(g), NEW e \in E, NEW m
    PROVE  EngineOK(Register(g, e, m))
BY DEF Engine, Register, Entry, EngineOK, NoStaleEntry, BatchScoped, MaskScoped

LEMMA UnregisterKeepsOK ==
    ASSUME NEW E, NEW g \in Engine(E), EngineOK(g), NEW e \in E
    PROVE  EngineOK(Unregister(g, e))
BY DEF Engine, DelEvent, Unregister, Entry, EngineOK, NoStaleEntry, BatchScoped, MaskScoped

\* Nor can moving on in the batch, or ending it when it is empty.
LEMMA LoopKeepsOK ==
    ASSUME NEW E, NEW g \in Engine(E), EngineOK(g)
    PROVE  /\ \A x : g.onEvent => EngineOK(Take(g, x))
           /\ g.batch = {} => EngineOK(EndBatch(g))
BY DEF Engine, EndBatch, Take, Entry, EngineOK, NoStaleEntry, BatchScoped, MaskScoped

\* What each operation does to the fields its callers reason about.
LEMMA RegisterFields ==
    ASSUME NEW E, NEW g \in Engine(E), NEW e \in E, NEW m
    PROVE  /\ Register(g, e, m).added = g.added \cup {e}
           /\ Register(g, e, m).mask = [g.mask EXCEPT ![e] = m]
           /\ Register(g, e, m).onEvent = g.onEvent
           /\ Register(g, e, m).batch = g.batch
           /\ Register(g, e, m).deleting = g.deleting
BY DEF Engine, Register

LEMMA UnregisterFields ==
    ASSUME NEW E, NEW g \in Engine(E), NEW e \in E
    PROVE  /\ Unregister(g, e).added = g.added \ {e}
           /\ \A d \in E \ {e} : Unregister(g, e).mask[d] = g.mask[d]
           /\ Unregister(g, e).onEvent = g.onEvent
           /\ Unregister(g, e).batch = g.batch
BY DEF Engine, Unregister, DelEvent

LEMMA TakeFields ==
    ASSUME NEW E, NEW g \in Engine(E), NEW x
    PROVE  /\ Take(g, x).added = g.added
           /\ Take(g, x).mask = g.mask
           /\ Take(g, x).onEvent = g.onEvent
           /\ Take(g, x).deleting = g.deleting
BY DEF Engine, Take

\* An answer of epoll_wait is about registered events, so it starts a batch in
\* which nothing is stale.
LEMMA AnswersStartBatch ==
    ASSUME NEW E, NEW g \in Engine(E), EngineOK(g), ~g.onEvent,
           NEW cond, NEW w, NEW S \in Answers(g, cond, w)
    PROVE  /\ S \in SUBSET Entry(E)
           /\ EngineOK(StartBatch(g, S))
<1>1. \A x \in S : x \in Entry(E) /\ x.ev \in g.added
    BY DEF Answers, ReadyEntries, Reported, Entry, Engine, Flag
<1>2. QED
    BY <1>1 DEF StartBatch, Engine, EngineOK, NoStaleEntry, BatchScoped, MaskScoped

=============================================================================
