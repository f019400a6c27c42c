--------------------------- MODULE EngineLoopProofs ---------------------------
(***************************************************************************)
(* For any number of event objects and any handlers: EventTest calls only   *)
(* registered, existing objects, provided no other thread removes events.   *)
(***************************************************************************)
EXTENDS EngineLoop, EventEngineProofs

\* Where the thread is between epoll_wait and m_bOnEvent = True, the answer lists
\* registered events; from the search of m_vecDeleting until the entry is done
\* with, its event is registered or remembered; and only existing objects are
\* registered, which is what ~CEvent asserts.
PendingOK ==
    /\ pc = "mark" => \A x \in answer : x.ev \in eng.added
    /\ pc \in {"loop", "due", "handler"} <=> eng.onEvent
    /\ pc = "due" => cur.ev \in eng.added
    /\ pc = "handler" => cur.ev \in eng.added \cup eng.deleting
    /\ eng.added \subseteq alive

IInv == TypeOK /\ BatchOK /\ PendingOK

LEMMA InitIInv == Init => IInv
<1> SUFFICES ASSUME Init PROVE IInv
    OBVIOUS
<1>1. NoEntry \in Entry(Event)
    BY EngineLoopAssumption DEF NoEntry, Entry, Flag
<1>2. QED
    BY <1>1 DEF Init, IInv, TypeOK, BatchOK, PendingOK, NewEngine, Engine,
                EngineOK, NoStaleEntry, BatchScoped, MaskScoped

LEMMA NextIInv == IInv /\ [Next]_vars => IInv'
<1> SUFFICES ASSUME IInv, [Next]_vars PROVE IInv'
    OBVIOUS
<1> USE DEF IInv, TypeOK, BatchOK, PendingOK
<1>1. CASE EpollWait
  <2>1. answer' \in SUBSET Entry(Event) /\ \A x \in answer' : x.ev \in eng.added
      BY <1>1 DEF EpollWait, Answers, ReadyEntries, Reported, Entry, Engine, Flag
  <2>2. QED
      BY <1>1, <2>1 DEF EpollWait
<1>2. CASE MarkOnEvent
  <2>1. eng' \in Engine(Event) /\ eng'.onEvent /\ eng'.added = eng.added
      BY <1>2 DEF MarkOnEvent, StartBatch, Engine
  <2>2. EngineOK(eng')
      BY <1>2 DEF MarkOnEvent, StartBatch, Engine, EngineOK, NoStaleEntry,
                  BatchScoped, MaskScoped
  <2>3. QED
      BY <1>2, <2>1, <2>2 DEF MarkOnEvent
<1>3. ASSUME NEW x \in eng.batch, NextEntry(x) PROVE IInv'
  <2>1. eng' \in Engine(Event) /\ eng'.onEvent = eng.onEvent
        /\ eng'.added = eng.added /\ eng'.deleting = eng.deleting
      BY <1>3 DEF NextEntry, Take, Engine
  <2>2. EngineOK(eng')
      BY <1>3, LoopKeepsOK DEF NextEntry
  <2>3. x \in Entry(Event) /\ (x.ev \in eng.deleting \/ x.ev \in eng.added)
      BY <1>3 DEF Engine, EngineOK, NoStaleEntry
  <2>4. QED
      BY <1>3, <2>1, <2>2, <2>3 DEF NextEntry
<1>4. CASE Call
  <2>1. cur' \in Entry(Event) /\ cur'.ev = cur.ev
      BY <1>4 DEF Call, Entry
  <2>2. QED
      BY <1>4, <2>1 DEF Call
<1>5. CASE Return
    BY <1>5 DEF Return
<1>6. CASE Finish
  <2>1. eng' \in Engine(Event) /\ ~eng'.onEvent /\ eng'.added = eng.added
      BY <1>6 DEF Finish, EndBatch, Engine
  <2>2. EngineOK(eng')
      BY <1>6, LoopKeepsOK DEF Finish
  <2>3. QED
      BY <1>6, <2>1, <2>2 DEF Finish
<1>7. ASSUME NEW e \in Event, pc = "handler", DoUnregister(e) PROVE IInv'
  <2>1. eng' \in Engine(Event) /\ EngineOK(eng')
      BY <1>7, UnregisterType, UnregisterKeepsOK DEF DoUnregister
  <2>2. /\ eng'.onEvent = eng.onEvent
        /\ eng'.added \subseteq eng.added
        /\ eng.onEvent => eng'.added \cup eng'.deleting = eng.added \cup eng.deleting
      BY <1>7 DEF DoUnregister, Unregister, DelEvent, Engine
  <2>3. QED
      BY <1>7, <2>1, <2>2 DEF DoUnregister
<1>8. ASSUME NEW e \in Event, Destroy(e) PROVE IInv'
    BY <1>8 DEF Destroy
<1>9. ASSUME NEW e \in Event, Construct(e) PROVE IInv'
    BY <1>9 DEF Construct
<1>10. ASSUME NEW e \in Event, DoRegister(e) PROVE IInv'
  <2>1. PICK m \in SUBSET RW : eng' = Register(eng, e, m)
      BY <1>10 DEF DoRegister, RW, Read, Write
  <2>2. eng' \in Engine(Event) /\ EngineOK(eng')
      BY <2>1, RegisterType, RegisterKeepsOK
  <2>3. /\ eng'.onEvent = eng.onEvent
        /\ eng'.added = eng.added \cup {e}
        /\ eng'.deleting = eng.deleting
      BY <2>1 DEF Register, Engine
  <2>4. QED
      BY <1>10, <2>2, <2>3 DEF DoRegister
<1>11. CASE UNCHANGED vars
    BY <1>11 DEF vars
<1>12. QED
    BY <1>1, <1>2, <1>3, <1>4, <1>5, <1>6, <1>7, <1>8, <1>9, <1>10, <1>11
       DEF Next, EngineThread, Handler, AnyThread

\* EventTest only calls objects that exist and are registered, and the batch and
\* m_vecDeleting stay consistent, for any set of event objects.
THEOREM EngineCallsRegistered == Spec => [](TypeOK /\ BatchOK /\ CalledIsRegistered)
<1>1. IInv => TypeOK /\ BatchOK /\ CalledIsRegistered
    BY DEF IInv, PendingOK, CalledIsRegistered
<1>2. QED
    BY InitIInv, NextIInv, <1>1, PTL DEF Spec

=============================================================================
