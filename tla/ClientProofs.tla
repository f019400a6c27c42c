------------------------------ MODULE ClientProofs ------------------------------
(***************************************************************************)
(* The game client for any number of buffers, of any length: its types,    *)
(* that no handler runs on what is gone, that the descriptor has one       *)
(* owner, that epoll is asked for what the queue needs, that no unit is    *)
(* lost, and that the client implements ClientLink.  Above it the game     *)
(* object: once ~CClient has begun, no handler runs on the client any      *)
(* more, and only the network or the peer ends an established connection.  *)
(***************************************************************************)
EXTENDS Game, EventEngineProofs, SequenceTheorems, FiniteSetTheorems

\* Splitting the queue at a multiple of the buffer length.
LEMMA DivBelow ==
    ASSUME NEW a \in Nat, NEW b \in Nat \ {0}, NEW c \in Nat
    PROVE  /\ a \div b \in Nat
           /\ a % b \in 0..(b - 1)
           /\ a < c * b => a \div b < c
           /\ a = c * b => a \div b = c
<1>1. a \div b \in Nat
    OBVIOUS
<1>2. a % b \in 0..(b - 1)
    OBVIOUS
<1>3. ASSUME a < c * b PROVE a \div b < c
    BY <1>3
<1>4. ASSUME a = c * b PROVE a \div b = c
    BY <1>4
<1>5. QED
    BY <1>1, <1>2, <1>3, <1>4

\* What PostMessage does to a message event that other parts of the state depend on.
LEMMA PostFacts ==
    ASSUME TypeOK, EngineOK(eng), NEW m \in Msg, PostMessage(m)
    PROVE  /\ eng' \in Engine(Event)
           /\ EngineOK(eng')
           /\ msg' \in [Msg -> {"free", "posted", "done", "lost"}]
           /\ eng'.added \ {m} = eng.added \ {m}
           /\ m \in eng.added => m \in eng'.added
           /\ \A e \in Event \ {m} : eng'.mask[e] = eng.mask[e]
           /\ msg'[m] = "posted" => m \in eng'.added
           /\ msg[m] = "free"
           /\ \A k \in Msg \ {m} : msg'[k] = msg[k]
           /\ ~ready => eng' = eng
           /\ (m \in eng'.added /\ m \notin eng.added) => msg'[m] = "posted"
<1>1. m \in Event /\ Read \in SUBSET RW
    BY DEF Event, Read, RW
<1>2. CASE eng' = Register(eng, m, Read) /\ msg' = [msg EXCEPT ![m] = "posted"] /\ ready
  <2>1. eng' \in Engine(Event) /\ EngineOK(eng')
      BY <1>1, <1>2, RegisterType, RegisterKeepsOK DEF TypeOK
  <2>2. eng'.added = eng.added \cup {m} /\ eng'.mask = [eng.mask EXCEPT ![m] = Read]
      BY <1>1, <1>2, RegisterFields DEF TypeOK
  <2>3. QED
      BY <1>2, <2>1, <2>2 DEF TypeOK, PostMessage, Engine
<1>3. CASE eng' = eng /\ msg' = [msg EXCEPT ![m] = "lost"]
    BY <1>3 DEF TypeOK, PostMessage
<1>4. QED
    BY <1>2, <1>3 DEF PostMessage

\* A message event is registered from PostMessage until it deletes itself.
MessageIsWatched == \A m \in Msg : m \in eng.added <=> msg[m] = "posted"

\* Without an event thread there has been no connection attempt.
NothingBeforeStart ==
    /\ app = "new" => ~running
    /\ ~running => sock = "null" /\ nFD = NoFD /\ conn = "none"

\* Who has the descriptor has it from the connector, which is then gone.
HandedOver == nFD # NoFD => sock = "null"

IInv ==
    /\ TypeOK
    /\ EngineOK(eng)
    /\ AttemptIsWatched
    /\ InterestFollowsQueue
    /\ MessageIsWatched
    /\ OneOwner
    /\ HandedOver
    /\ DroppedOnce
    /\ NothingBeforeStart
    /\ ~ready => eng.added = {} /\ ~running

\* The events are different objects, and so are the values of m_nFD.
LEMMA Distinct ==
    /\ Sock \in Event /\ Cli \in Event /\ CloseMsg \in Event /\ SendMsg \subseteq Event
    /\ Msg \subseteq Event /\ Sock # Cli /\ CloseMsg \notin SendMsg
    /\ Sock \notin Msg /\ Cli \notin Msg /\ NoFD # FD
    /\ Read \in SUBSET RW /\ Write \in SUBSET RW
BY TcpClientAssumption DEF Event, Msg, NoFD, FD, Read, Write, RW

\* What a handler of e starts from: the entry is off the batch, nothing else has
\* changed, and e is registered.
LEMMA CallFacts ==
    ASSUME IInv, NEW x, NEW e \in Event, NEW flag, Calls(x, e, flag)
    PROVE  /\ e \in eng.added /\ eng.onEvent /\ running /\ app # "new" /\ ready
           /\ Take(eng, x) \in Engine(Event) /\ EngineOK(Take(eng, x))
           /\ Take(eng, x).added = eng.added /\ Take(eng, x).mask = eng.mask
           /\ Take(eng, x).onEvent
<1>1. x \in eng.batch /\ eng.onEvent
    BY DEF IInv, TypeOK, Calls, EngineOK, BatchScoped
<1>2. e \in eng.added
    BY <1>1 DEF Calls, IInv, EngineOK, NoStaleEntry
<1>3. Take(eng, x) \in Engine(Event) /\ EngineOK(Take(eng, x))
    BY <1>1, LoopKeepsOK, TakeType DEF IInv, TypeOK
<1>4. QED
    BY <1>1, <1>2, <1>3, TakeFields DEF IInv, TypeOK, Calls, NothingBeforeStart

\* Several engine calls in a row: taking d out, or asking for mask m on d.
LEMMA UnregisterFacts ==
    ASSUME NEW g \in Engine(Event), EngineOK(g), NEW d \in Event
    PROVE  /\ Unregister(g, d) \in Engine(Event) /\ EngineOK(Unregister(g, d))
           /\ Unregister(g, d).added = g.added \ {d}
           /\ \A c \in Event \ {d} : Unregister(g, d).mask[c] = g.mask[c]
BY UnregisterType, UnregisterKeepsOK, UnregisterFields

LEMMA RegisterFacts ==
    ASSUME NEW g \in Engine(Event), EngineOK(g), NEW d \in Event, NEW m \in SUBSET RW
    PROVE  /\ Register(g, d, m) \in Engine(Event) /\ EngineOK(Register(g, d, m))
           /\ Register(g, d, m).added = g.added \cup {d}
           /\ \A c \in Event : Register(g, d, m).mask[c] = IF c = d THEN m ELSE g.mask[c]
<1>1. g.mask \in [Event -> SUBSET RW]
    BY DEF Engine
<1>2. Register(g, d, m) \in Engine(Event)
    BY RegisterType
<1>3. EngineOK(Register(g, d, m))
    BY RegisterKeepsOK
<1>4. /\ Register(g, d, m).added = g.added \cup {d}
      /\ Register(g, d, m).mask = [g.mask EXCEPT ![d] = m]
    BY RegisterFields
<1>5. QED
    BY <1>1, <1>2, <1>3, <1>4

\* What Start begins with.
LEMMA NewEngineFacts ==
    /\ NewEngine(Event) \in Engine(Event)
    /\ EngineOK(NewEngine(Event))
    /\ NewEngine(Event).added = {}
BY DEF NewEngine, Engine, EngineOK, NoStaleEntry, BatchScoped, MaskScoped

-----------------------------------------------------------------------------
LEMMA InitIInv == Init => IInv
<1> SUFFICES ASSUME Init PROVE IInv
    OBVIOUS
<1>1. /\ NewEngine(Event) \in Engine(Event)
      /\ EngineOK(NewEngine(Event))
      /\ NewEngine(Event).added = {}
    BY NewEngineFacts
<1>2. 0 \in 0..(BufLen - 1) /\ 0 \in 0..MaxRx /\ 0 \in Nat
    BY TcpClientAssumption
<1>3. TypeOK
  <2>1. app \in {"new", "started", "failed", "stopping", "stopped"} /\ sock \in {"null", "nofd", "open"}
        /\ conn \in {"none", "idle", "connecting", "up", "reset", "closed"}
      BY DEF Init
  <2>2. running \in BOOLEAN /\ ready \in BOOLEAN /\ fin \in BOOLEAN /\ room \in BOOLEAN
      BY DEF Init
  <2>3. buffers \in Seq(SendMsg) /\ handled \in Seq(SendMsg) /\ wire \in Seq(SendMsg)
      BY DEF Init
  <2>4. msg \in [Msg -> {"free", "posted", "done", "lost"}] /\ nFD \in {NoFD, FD}
      BY DEF Init
  <2>5. QED
      BY <1>1, <1>2, <2>1, <2>2, <2>3, <2>4 DEF Init, TypeOK
<1>4. QED
    BY <1>1, <1>3 DEF Init, IInv, AttemptIsWatched, InterestFollowsQueue, MessageIsWatched,
                      OneOwner, DroppedOnce, HandedOver, NothingBeforeStart

LEMMA StartFailsIInv == IInv /\ StartFails => IInv'
<1> SUFFICES ASSUME IInv, StartFails PROVE IInv'
    OBVIOUS
<1> USE DEF IInv, StartFails, Begin, NothingBeforeStart
<1>1. eng' \in Engine(Event) /\ EngineOK(eng') /\ eng'.added = {}
    BY NewEngineFacts
<1>2. /\ msg' \in [Msg -> {"free", "posted", "done", "lost"}]
      /\ \A m \in Msg : msg'[m] # "posted"
    BY DEF TypeOK
<1>3. TypeOK'
    BY <1>1, <1>2 DEF TypeOK
<1>4. QED
    BY <1>1, <1>2, <1>3, Distinct DEF AttemptIsWatched, InterestFollowsQueue, MessageIsWatched,
                                      OneOwner, DroppedOnce, HandedOver

LEMMA StartSucceedsIInv == IInv /\ StartSucceeds => IInv'
<1> SUFFICES ASSUME IInv, StartSucceeds PROVE IInv'
    OBVIOUS
<1> USE DEF IInv, StartSucceeds, Begin, NothingBeforeStart
<1>1. eng' \in Engine(Event) /\ EngineOK(eng') /\ eng'.added = {Sock}
    BY NewEngineFacts, Distinct, RegisterFacts
<1>2. /\ msg' \in [Msg -> {"free", "posted", "done", "lost"}]
      /\ \A m \in Msg : msg'[m] # "posted"
    BY DEF TypeOK
<1>3. TypeOK'
    BY <1>1, <1>2 DEF TypeOK
<1>4. QED
    BY <1>1, <1>2, <1>3, Distinct DEF AttemptIsWatched, InterestFollowsQueue, MessageIsWatched,
                                      OneOwner, DroppedOnce, HandedOver

LEMMA PostIInv ==
    ASSUME IInv, NEW m \in Msg, PostMessage(m), app' \in {app, "stopping"},
           UNCHANGED <<running, ready, client, kernel, dropped, handled, wire>>
    PROVE  IInv'
<1> USE DEF IInv, client, kernel
<1>1. m \notin eng.added
    BY DEF PostMessage, MessageIsWatched
<1>2. /\ eng' \in Engine(Event) /\ EngineOK(eng')
      /\ msg' \in [Msg -> {"free", "posted", "done", "lost"}]
      /\ eng'.added \ {m} = eng.added
      /\ m \in eng'.added <=> msg'[m] = "posted"
      /\ \A e \in Event \ {m} : eng'.mask[e] = eng.mask[e]
      /\ \A k \in Msg \ {m} : msg'[k] = msg[k]
      /\ ~ready => eng' = eng
    BY <1>1, PostFacts
<1>3. TypeOK'
    BY <1>2 DEF TypeOK
<1>4. AttemptIsWatched' /\ InterestFollowsQueue'
    BY <1>2, Distinct DEF AttemptIsWatched, InterestFollowsQueue
<1>5. MessageIsWatched'
    BY <1>2 DEF MessageIsWatched
<1>6. QED
    BY <1>2, <1>3, <1>4, <1>5 DEF OneOwner, DroppedOnce, HandedOver, NothingBeforeStart

LEMMA NetworkIInv == IInv /\ Network => IInv'
<1> SUFFICES ASSUME IInv, Network PROVE IInv'
    OBVIOUS
<1> USE DEF IInv, Network, Resolve, Drain, KernelOnly, client
<1>1. conn \in {"connecting", "up"} /\ conn' \in {conn, "up", "reset"}
    BY DEF Connected, Refused, PeerSends, PeerShutsDown, PeerReads, PeerResets
<1>2. rx' \in 0..MaxRx
    BY TcpClientAssumption
       DEF TypeOK, Connected, Refused, PeerSends, PeerShutsDown, PeerReads, PeerResets
<1>3. fin' \in BOOLEAN /\ room' \in BOOLEAN
    BY DEF TypeOK, Connected, Refused, PeerSends, PeerShutsDown, PeerReads, PeerResets
<1>4. TypeOK'
    BY <1>1, <1>2, <1>3 DEF TypeOK
<1>5. QED
    BY <1>1, <1>4 DEF AttemptIsWatched, InterestFollowsQueue, MessageIsWatched, OneOwner,
                      DroppedOnce, HandedOver, NothingBeforeStart
-----------------------------------------------------------------------------
(* The event thread. *)

LEMMA LoopIInv == IInv /\ (EpollWait \/ Finish \/ \E x \in eng.batch : Ignore(x)) => IInv'
<1> SUFFICES ASSUME IInv, EpollWait \/ Finish \/ \E x \in eng.batch : Ignore(x) PROVE IInv'
    OBVIOUS
<1> USE DEF IInv, client, kernel
<1>1. /\ eng' \in Engine(Event) /\ EngineOK(eng')
      /\ eng'.added = eng.added /\ eng'.mask = eng.mask
  <2>1. CASE EpollWait
    <3>1. PICK S \in Answers(eng, Cond, MaxWait) : eng' = StartBatch(eng, S)
        BY <2>1 DEF EpollWait
    <3>2. S \in SUBSET Entry(Event) /\ EngineOK(eng')
        BY <2>1, <3>1, AnswersStartBatch DEF EpollWait, TypeOK
    <3>3. eng' \in Engine(Event)
        BY <3>1, <3>2, BatchType DEF TypeOK
    <3>4. QED
        BY <3>1, <3>2, <3>3 DEF StartBatch, Engine, TypeOK
  <2>2. CASE Finish
    <3>1. eng' \in Engine(Event) /\ EngineOK(eng')
        BY <2>2, LoopKeepsOK, BatchType DEF Finish, TypeOK
    <3>2. QED
        BY <2>2, <3>1 DEF Finish, EndBatch, Engine, TypeOK
  <2>3. ASSUME NEW x \in eng.batch, Ignore(x)
        PROVE  /\ eng' \in Engine(Event) /\ EngineOK(eng')
               /\ eng'.added = eng.added /\ eng'.mask = eng.mask
    <3>1. eng.onEvent /\ eng' = Take(eng, x)
        BY <2>3 DEF Ignore, EngineOK, BatchScoped
    <3>2. eng' \in Engine(Event) /\ EngineOK(eng')
        BY <3>1, LoopKeepsOK, TakeType DEF TypeOK
    <3>3. QED
        BY <3>1, <3>2, TakeFields DEF TypeOK
  <2>4. QED
      BY <2>1, <2>2, <2>3
<1>2. UNCHANGED <<app, running, ready, client, msg, kernel, dropped, handled, wire>>
    BY DEF EpollWait, Finish, Ignore
<1>3. TypeOK'
    BY <1>1, <1>2 DEF TypeOK
<1>4. QED
    BY <1>1, <1>2, <1>3 DEF AttemptIsWatched, InterestFollowsQueue, MessageIsWatched, OneOwner,
                      DroppedOnce, HandedOver, NothingBeforeStart

LEMMA SockOnWriteIInv == ASSUME IInv, NEW x, SockOnWrite(x) PROVE IInv'
<1> USE DEF IInv, SockOnWrite, kernel
<1> DEFINE g == Unregister(Take(eng, x), Sock)
           m == IF buffers = <<>> THEN Read ELSE Write
<1>1. /\ Sock \in eng.added /\ app # "new" /\ running /\ ready
      /\ Take(eng, x) \in Engine(Event) /\ EngineOK(Take(eng, x))
      /\ Take(eng, x).added = eng.added
    BY CallFacts, Distinct
<1>2. g \in Engine(Event) /\ EngineOK(g) /\ g.added = eng.added \ {Sock}
    BY <1>1, UnregisterFacts, Distinct
<1>3. m \in SUBSET RW
    BY Distinct
<1> HIDE DEF g, m
<1>4. eng' = Register(g, Cli, m)
    BY DEF g, m
<1>5. /\ eng' \in Engine(Event) /\ EngineOK(eng')
      /\ eng'.added = (eng.added \ {Sock}) \cup {Cli}
      /\ eng'.mask[Cli] = m
    BY <1>2, <1>3, <1>4, RegisterFacts, Distinct
<1>6. TypeOK'
    BY <1>5 DEF TypeOK
<1>7. sock = "open" /\ conn \notin {"none", "closed"} /\ nFD = NoFD
    BY <1>1 DEF AttemptIsWatched, OneOwner, TypeOK
<1>8. AttemptIsWatched' /\ InterestFollowsQueue' /\ MessageIsWatched'
    BY <1>1, <1>5, <1>7, Distinct DEF AttemptIsWatched, InterestFollowsQueue, MessageIsWatched, m
<1>9. OneOwner' /\ DroppedOnce' /\ HandedOver' /\ NothingBeforeStart'
    BY <1>1, <1>7, Distinct DEF OneOwner, DroppedOnce, HandedOver, NothingBeforeStart, TypeOK
<1>10. QED
    BY <1>1, <1>5, <1>6, <1>8, <1>9

LEMMA ClosesType ==
    ASSUME Closes
    PROVE  /\ rx' \in 0..MaxRx
           /\ conn' = "closed"
           /\ fin' \in BOOLEAN
           /\ room' \in BOOLEAN
<1>1. rx' \in 0..MaxRx
    BY TcpClientAssumption DEF Closes
<1>2. fin' \in BOOLEAN /\ room' \in BOOLEAN /\ conn' = "closed"
    BY DEF Closes
<1>3. QED
    BY <1>1, <1>2

LEMMA SockOnErrorIInv == ASSUME IInv, NEW x, SockOnError(x) PROVE IInv'
<1> USE DEF IInv, SockOnError
<1>1. /\ Sock \in eng.added /\ app # "new" /\ running /\ ready
      /\ Take(eng, x) \in Engine(Event) /\ EngineOK(Take(eng, x))
      /\ Take(eng, x).added = eng.added /\ Take(eng, x).mask = eng.mask
    BY CallFacts, Distinct
<1> DEFINE g == Take(eng, x)
<1>2. /\ eng' \in Engine(Event) /\ EngineOK(eng') /\ eng'.added = eng.added \ {Sock}
      /\ \A c \in Event \ {Sock} : eng'.mask[c] = eng.mask[c]
  <2>1. g \in Engine(Event) /\ EngineOK(g) /\ eng' = Unregister(g, Sock)
        /\ g.added = eng.added /\ g.mask = eng.mask
      BY <1>1
  <2> HIDE DEF g
  <2>2. /\ Unregister(g, Sock) \in Engine(Event) /\ EngineOK(Unregister(g, Sock))
        /\ Unregister(g, Sock).added = g.added \ {Sock}
        /\ \A c \in Event \ {Sock} : Unregister(g, Sock).mask[c] = g.mask[c]
      BY ONLY <2>1, UnregisterFacts, Distinct
  <2>3. QED
      BY ONLY <2>1, <2>2
<1>3. TypeOK'
  <2>1. /\ app' \in {"new", "started", "failed", "stopping", "stopped"}
        /\ sock' \in {"null", "nofd", "open"} /\ nFD' \in {NoFD, FD}
      BY DEF TypeOK
  <2>2. QED
      BY <1>2, <2>1, ClosesType DEF TypeOK
<1>4. sock = "open" /\ conn \notin {"none", "closed"} /\ nFD = NoFD
    BY <1>1 DEF AttemptIsWatched, OneOwner, TypeOK
<1>5. AttemptIsWatched' /\ InterestFollowsQueue' /\ MessageIsWatched'
    BY <1>2, <1>4, Distinct, ClosesType DEF AttemptIsWatched, InterestFollowsQueue, MessageIsWatched
<1>6. OneOwner' /\ DroppedOnce' /\ HandedOver' /\ NothingBeforeStart'
    BY <1>1, <1>4, Distinct, ClosesType DEF OneOwner, DroppedOnce, HandedOver, NothingBeforeStart, TypeOK
<1>7. QED
    BY <1>1, <1>2, <1>3, <1>5, <1>6

\* The connection is lost: CClient::OnError, whichever handler finds out.
LEMMA DisconnectFacts ==
    ASSUME IInv, NEW x, NEW flag, Calls(x, Cli, flag), Disconnect(Take(eng, x)),
           UNCHANGED <<app, running, ready, sock, buffers, off, msg, handled, wire>>
    PROVE  IInv'
<1> USE DEF IInv, Disconnect
<1>1. /\ Cli \in eng.added /\ app # "new" /\ running /\ ready
      /\ Take(eng, x) \in Engine(Event) /\ EngineOK(Take(eng, x))
      /\ Take(eng, x).added = eng.added
    BY CallFacts, Distinct
<1>2. eng' \in Engine(Event) /\ EngineOK(eng') /\ eng'.added = eng.added \ {Cli}
    BY <1>1, UnregisterFacts, Distinct
<1>3. nFD # NoFD /\ sock # "open"
    BY <1>1 DEF InterestFollowsQueue, OneOwner
<1>4. dropped = 0
    BY <1>3 DEF DroppedOnce, TypeOK
<1>5. TypeOK'
  <2>1. dropped' \in Nat
      BY <1>4
  <2>2. QED
      BY <1>2, <2>1, ClosesType DEF TypeOK
<1>6. AttemptIsWatched' /\ InterestFollowsQueue' /\ MessageIsWatched'
    BY <1>2, <1>3, Distinct, ClosesType DEF AttemptIsWatched, InterestFollowsQueue, MessageIsWatched
<1>7. OneOwner' /\ DroppedOnce' /\ HandedOver' /\ NothingBeforeStart'
  <2>1. sock' = "null"
      BY <1>1, <1>3 DEF HandedOver, TypeOK
  <2>2. OneOwner' /\ NothingBeforeStart'
      BY <1>1, <1>3, ClosesType DEF OneOwner, NothingBeforeStart
  <2>3. DroppedOnce'
      BY <1>4, <2>1, ClosesType DEF DroppedOnce
  <2>4. QED
      BY <2>1, <2>2, <2>3 DEF HandedOver
<1>8. QED
    BY <1>1, <1>2, <1>5, <1>6, <1>7

LEMMA CliOnReadIInv == ASSUME IInv, NEW x, CliOnRead(x) \/ CliRefuses(x) \/ CliOnError(x) PROVE IInv'
<1>1. CASE CliOnError(x) \/ CliRefuses(x) \/ (CliOnRead(x) /\ Disconnect(Take(eng, x)))
    BY <1>1, DisconnectFacts DEF CliOnRead, CliRefuses, CliOnError
<1>2. CASE CliOnRead(x) /\ eng' = Take(eng, x) /\ rx' = 0
           /\ UNCHANGED <<nFD, conn, fin, room, dropped>>
  <2> USE <1>2 DEF IInv, CliOnRead
  <2>1. eng' \in Engine(Event) /\ EngineOK(eng') /\ eng'.added = eng.added /\ eng'.mask = eng.mask
        /\ app # "new" /\ ready
      BY CallFacts, Distinct
  <2>2. TypeOK'
      BY <2>1, TcpClientAssumption DEF TypeOK
  <2>3. QED
      BY <2>1, <2>2 DEF AttemptIsWatched, InterestFollowsQueue, MessageIsWatched, OneOwner,
                        DroppedOnce, HandedOver, NothingBeforeStart
<1>3. QED
    BY <1>1, <1>2 DEF CliOnRead

\* What one OnWrite leaves in the queue.
LEMMA SendsFacts ==
    ASSUME TypeOK, NEW n \in 0..Unsent, Sends(n)
    PROVE  /\ Unsent \in Nat
           /\ buffers' \in Seq(SendMsg)
           /\ off' \in 0..(BufLen - 1)
           /\ wire' \in Seq(SendMsg)
           /\ n = Unsent => buffers' = <<>>
           /\ n < Unsent => buffers' # <<>>
<1> DEFINE len == Len(buffers)
           q   == (off + n) \div BufLen
<1>1. len \in Nat /\ BufLen \in Nat \ {0} /\ off \in Nat
    BY TcpClientAssumption DEF TypeOK
<1>2. len * BufLen \in Nat
    BY <1>1
<1>3. Unsent = len * BufLen - off
    BY DEF Unsent
<1>4. n \in Nat /\ off + n \in Nat /\ n <= len * BufLen - off /\ off + n <= len * BufLen
    BY <1>1, <1>2, <1>3
<1>5. q \in Nat /\ off' \in 0..(BufLen - 1)
    BY <1>1, <1>4, DivBelow DEF Sends
<1>6. n < Unsent => q < len
  <2>1. SUFFICES ASSUME n < Unsent PROVE q < len
      OBVIOUS
  <2>2. off + n < len * BufLen
      BY <1>1, <1>2, <1>3, <1>4, <2>1
  <2>3. QED
      BY <1>1, <1>4, <2>2, DivBelow
<1>7. n = Unsent => q = len
  <2>1. SUFFICES ASSUME n = Unsent PROVE q = len
      OBVIOUS
  <2>2. off + n = len * BufLen
      BY <1>1, <1>2, <1>3, <1>4, <2>1
  <2>3. QED
      BY <1>1, <1>4, <2>2, DivBelow
<1>8. buffers' = SubSeq(buffers, q + 1, len)
    BY DEF Sends
<1> HIDE DEF q, len
<1>9. buffers' \in Seq(SendMsg)
    BY <1>1, <1>5, <1>8 DEF TypeOK, len
<1>10. n = Unsent => buffers' = <<>>
    BY <1>1, <1>5, <1>7, <1>8 DEF TypeOK, len
<1>11. n < Unsent => buffers' # <<>>
  <2>1. SUFFICES ASSUME n < Unsent PROVE Len(buffers') > 0
      BY <1>9
  <2>2. Len(buffers') = len - q
      BY <1>1, <1>5, <1>6, <1>8, <2>1 DEF TypeOK, len
  <2>3. QED
      BY <1>1, <1>5, <1>6, <2>1, <2>2
<1>12. wire' \in Seq(SendMsg)
  <2>1. ASSUME NEW i \in 1..n PROVE UnsentUnit(i) \in SendMsg
    <3>1. off + i - 1 \in Nat /\ off + i - 1 < len * BufLen
        BY <1>1, <1>2, <1>4
    <3>2. (off + i - 1) \div BufLen \in Nat /\ (off + i - 1) \div BufLen < len
        BY <1>1, <3>1, DivBelow
    <3>3. (off + i - 1) \div BufLen + 1 \in 1..Len(buffers)
        BY <1>1, <3>2 DEF len
    <3>4. QED
        BY <3>3 DEF UnsentUnit, TypeOK
  <2>2. [i \in 1..n |-> UnsentUnit(i)] \in Seq(SendMsg)
      BY <1>4, <2>1
  <2>3. QED
      BY <2>2 DEF Sends, TypeOK
<1>13. Unsent \in Nat
    BY <1>1, <1>2, <1>3, <1>4
<1>14. QED
    BY <1>5, <1>9, <1>10, <1>11, <1>12, <1>13

LEMMA CliOnWriteIInv == ASSUME IInv, NEW x, CliOnWrite(x) PROVE IInv'
<1>1. CASE conn = "reset" /\ Disconnect(Take(eng, x)) /\ UNCHANGED <<buffers, off, wire>>
    BY <1>1, DisconnectFacts DEF CliOnWrite
<1>2. ASSUME NEW n \in 0..Unsent, n > 0 \/ Unsent = 0, Sends(n), room' \in BOOLEAN,
             eng' = IF n = Unsent /\ n > 0 THEN Register(Take(eng, x), Cli, Read)
                    ELSE Take(eng, x),
             UNCHANGED <<nFD, conn, rx, fin, dropped>>
      PROVE  IInv'
  <2> USE <1>2 DEF IInv, CliOnWrite
  <2>1. /\ Cli \in eng.added /\ app # "new" /\ running /\ ready
        /\ Take(eng, x) \in Engine(Event) /\ EngineOK(Take(eng, x))
        /\ Take(eng, x).added = eng.added /\ Take(eng, x).mask = eng.mask
      BY CallFacts, Distinct
  <2>2. /\ Unsent \in Nat /\ buffers' \in Seq(SendMsg)
        /\ off' \in 0..(BufLen - 1) /\ wire' \in Seq(SendMsg)
        /\ n = Unsent => buffers' = <<>>
        /\ n < Unsent => buffers' # <<>>
      BY SendsFacts
  <2>3. /\ eng' \in Engine(Event) /\ EngineOK(eng') /\ eng'.added = eng.added
        /\ eng'.mask[Cli] = IF n = Unsent /\ n > 0 THEN Read ELSE eng.mask[Cli]
    <3>1. CASE n = Unsent /\ n > 0
      <4> DEFINE g == Take(eng, x)
      <4>1. /\ g \in Engine(Event) /\ EngineOK(g) /\ g.added = eng.added
            /\ eng' = Register(g, Cli, Read)
          BY <2>1, <3>1
      <4> HIDE DEF g
      <4>2. /\ eng' \in Engine(Event) /\ EngineOK(eng')
            /\ eng'.added = eng.added \cup {Cli} /\ eng'.mask[Cli] = Read
          BY <4>1, RegisterFacts, Distinct
      <4>3. QED
          BY <2>1, <3>1, <4>2
    <3>2. CASE ~(n = Unsent /\ n > 0)
        BY <2>1, <3>2
    <3>3. QED
        BY <3>1, <3>2
  <2>4. nFD # NoFD /\ eng.mask[Cli] = IF buffers = <<>> THEN Read ELSE Write
      BY <2>1 DEF InterestFollowsQueue
  <2>5. TypeOK'
      BY <2>2, <2>3 DEF TypeOK
  <2>6. AttemptIsWatched' /\ MessageIsWatched' /\ OneOwner' /\ DroppedOnce' /\ HandedOver' /\ NothingBeforeStart'
      BY <2>1, <2>3 DEF AttemptIsWatched, MessageIsWatched, OneOwner, DroppedOnce, HandedOver, NothingBeforeStart
  <2>7. InterestFollowsQueue'
    <3>1. CASE n = Unsent /\ n > 0
        BY <2>1, <2>2, <2>3, <2>4, <3>1 DEF InterestFollowsQueue
    <3>2. CASE n < Unsent
      <4>1. n > 0 /\ buffers # <<>>
        <5>1. n > 0
            BY <2>2, <3>2
        <5>2. buffers = <<>> => Unsent <= 0
          <6>1. off \in Nat /\ BufLen \in Nat
              BY TcpClientAssumption DEF TypeOK
          <6>2. buffers = <<>> => Unsent = 0 * BufLen - off
              BY DEF Unsent
          <6>3. QED
              BY <6>1, <6>2
        <5>3. QED
            BY <2>2, <3>2, <5>1, <5>2
      <4>2. QED
          BY <2>1, <2>2, <2>3, <2>4, <3>2, <4>1 DEF InterestFollowsQueue
    <3>3. CASE Unsent = 0
      <4>1. n = 0 /\ buffers' = <<>>
          BY <2>2, <3>3
      <4>2. buffers = <<>>
        <5>1. Len(buffers) * BufLen = off /\ off < BufLen /\ Len(buffers) \in Nat
            BY <3>3, TcpClientAssumption DEF Unsent, TypeOK
        <5>2. Len(buffers) = 0
            BY <5>1, TcpClientAssumption DEF TypeOK
        <5>3. QED
            BY <5>2 DEF TypeOK
      <4>3. QED
          BY <2>1, <2>2, <2>3, <2>4, <3>3, <4>1, <4>2 DEF InterestFollowsQueue
    <3>4. QED
        BY <2>2, <3>1, <3>2, <3>3
  <2>8. QED
      BY <2>1, <2>3, <2>5, <2>6, <2>7
<1>3. QED
    BY <1>1, <1>2 DEF CliOnWrite

\* A message event has been handled and has deleted itself.
LEMMA MsgDoneType ==
    ASSUME TypeOK, NEW m \in Msg, MsgDone(m)
    PROVE  /\ msg' \in [Msg -> {"free", "posted", "done", "lost"}]
           /\ msg'[m] = "done"
           /\ \A k \in Msg \ {m} : msg'[k] = msg[k]
BY DEF TypeOK, MsgDone

LEMMA SendOnMessageIInv ==
    ASSUME IInv, NEW x, NEW m \in SendMsg, SendOnMessage(x, m) PROVE IInv'
<1> USE DEF IInv, SendOnMessage, kernel
<1> DEFINE t == Take(eng, x)
           g == IF buffers = <<>> /\ nFD # NoFD THEN Register(t, Cli, Write) ELSE t
<1>1. m \in Msg /\ m \in Event /\ m # Sock /\ m # Cli
    BY Distinct DEF Msg
<1>2. /\ m \in eng.added /\ app # "new" /\ running /\ ready
      /\ t \in Engine(Event) /\ EngineOK(t) /\ t.added = eng.added /\ t.mask = eng.mask
    BY <1>1, CallFacts
<1> HIDE DEF t
<1>3. /\ g \in Engine(Event) /\ EngineOK(g) /\ g.added = eng.added
      /\ \A c \in Event : g.mask[c] = IF c = Cli /\ buffers = <<>> /\ nFD # NoFD THEN Write
                                      ELSE eng.mask[c]
  <2>1. CASE buffers = <<>> /\ nFD # NoFD
    <3>1. Cli \in eng.added
        BY <2>1 DEF InterestFollowsQueue
    <3>2. /\ Register(t, Cli, Write) \in Engine(Event) /\ EngineOK(Register(t, Cli, Write))
          /\ Register(t, Cli, Write).added = t.added \cup {Cli}
          /\ \A c \in Event : Register(t, Cli, Write).mask[c] = IF c = Cli THEN Write ELSE t.mask[c]
        BY ONLY <1>2, RegisterFacts, Distinct
    <3>3. QED
        BY <1>2, <2>1, <3>1, <3>2
  <2>2. CASE ~(buffers = <<>> /\ nFD # NoFD)
      BY <1>2, <2>2
  <2>3. QED
      BY <2>1, <2>2
<1>4. eng' = Unregister(g, m)
    BY DEF t
<1> HIDE DEF g
<1>5. /\ eng' \in Engine(Event) /\ EngineOK(eng') /\ eng'.added = eng.added \ {m}
      /\ \A c \in Event \ {m} : eng'.mask[c] = g.mask[c]
    BY <1>1, <1>3, <1>4, UnregisterFacts
<1>6. buffers' \in Seq(SendMsg) /\ handled' \in Seq(SendMsg) /\ buffers' # <<>>
  <2>1. buffers \in Seq(SendMsg) /\ handled \in Seq(SendMsg)
      BY DEF TypeOK
  <2>2. buffers' = Append(buffers, m) /\ handled' = Append(handled, m)
      OBVIOUS
  <2>3. QED
      BY ONLY <2>1, <2>2, m \in SendMsg
<1>7. TypeOK'
    BY <1>1, <1>5, <1>6, MsgDoneType DEF TypeOK
<1>8. AttemptIsWatched' /\ MessageIsWatched'
    BY <1>1, <1>5, MsgDoneType, Distinct DEF AttemptIsWatched, MessageIsWatched
<1>9. InterestFollowsQueue'
    BY <1>1, <1>3, <1>5, <1>6, Distinct DEF InterestFollowsQueue
<1>10. OneOwner' /\ DroppedOnce' /\ HandedOver' /\ NothingBeforeStart'
    BY <1>2 DEF OneOwner, DroppedOnce, HandedOver, NothingBeforeStart
<1>11. QED
    BY <1>2, <1>5, <1>7, <1>8, <1>9, <1>10

LEMMA CloseOnMessageIInv == ASSUME IInv, NEW x, CloseOnMessage(x) PROVE IInv'
<1> USE DEF IInv, CloseOnMessage, kernel
<1> DEFINE t == Take(eng, x)
           g == IF nFD # NoFD THEN Unregister(t, Cli) ELSE t
<1>1. CloseMsg \in Msg /\ CloseMsg \in Event /\ CloseMsg # Sock /\ CloseMsg # Cli
    BY Distinct DEF Msg
<1>2. /\ CloseMsg \in eng.added /\ app # "new" /\ running /\ ready
      /\ t \in Engine(Event) /\ EngineOK(t) /\ t.added = eng.added
    BY <1>1, CallFacts
<1> HIDE DEF t
<1>3. g \in Engine(Event) /\ EngineOK(g) /\ g.added = eng.added \ {Cli}
  <2>1. CASE nFD # NoFD
      BY <1>2, <2>1, UnregisterFacts, Distinct
  <2>2. CASE nFD = NoFD
      BY <1>2, <2>2 DEF InterestFollowsQueue
  <2>3. QED
      BY <2>1, <2>2
<1>4. eng' = Unregister(g, CloseMsg) /\ nFD' = NoFD
    BY DEF t
<1> HIDE DEF g
<1>5. eng' \in Engine(Event) /\ EngineOK(eng') /\ eng'.added = eng.added \ {Cli, CloseMsg}
    BY <1>1, <1>3, <1>4, UnregisterFacts
<1>6. /\ rx' \in 0..MaxRx /\ fin' \in BOOLEAN /\ room' \in BOOLEAN
      /\ conn' = IF nFD # NoFD THEN "closed" ELSE conn
  <2>1. CASE nFD # NoFD
      BY <2>1, ClosesType
  <2>2. CASE nFD = NoFD
      BY <2>2 DEF TypeOK
  <2>3. QED
      BY <2>1, <2>2
<1>7. TypeOK'
  <2>1. conn' \in {"none", "idle", "connecting", "up", "reset", "closed"}
      BY <1>6 DEF TypeOK
  <2>2. app' \in {"new", "started", "failed", "stopping", "stopped"} /\ nFD' \in {NoFD, FD}
      BY <1>4
  <2>3. QED
      BY <1>1, <1>5, <1>6, <2>1, <2>2, MsgDoneType DEF TypeOK
<1>8. AttemptIsWatched' /\ MessageIsWatched' /\ InterestFollowsQueue'
  <2>1. sock = "open" => nFD = NoFD
      BY DEF OneOwner
  <2>2. QED
      BY <1>1, <1>4, <1>5, <1>6, <2>1, MsgDoneType, Distinct
         DEF AttemptIsWatched, MessageIsWatched, InterestFollowsQueue
<1>9. OneOwner' /\ DroppedOnce' /\ HandedOver' /\ NothingBeforeStart'
    BY <1>2, <1>4, <1>6 DEF OneOwner, DroppedOnce, HandedOver, NothingBeforeStart
<1>10. QED
    BY <1>2, <1>5, <1>7, <1>8, <1>9

-----------------------------------------------------------------------------
LEMMA NextIInv == IInv /\ [Next]_vars => IInv'
<1> SUFFICES ASSUME IInv, [Next]_vars PROVE IInv'
    OBVIOUS
<1>1. CASE Application
  <2>1. ASSUME NEW m \in SendMsg, Send(m) PROVE IInv'
      BY <2>1, PostIInv DEF Send, Msg
  <2>2. ASSUME Stop PROVE IInv'
      BY <2>2, PostIInv DEF Stop, Msg
  <2>3. QED
      BY <1>1, <2>1, <2>2, StartFailsIInv, StartSucceedsIInv DEF Application
<1>2. CASE Network
    BY <1>2, NetworkIInv
<1>3. CASE EventThread
  <2>1. ASSUME NEW x \in eng.batch, Handle(x) PROVE IInv'
    <3>1. CASE Ignore(x)
        BY <3>1, LoopIInv
    <3>2. CASE SockOnWrite(x) \/ SockOnError(x)
        BY <3>2, SockOnWriteIInv, SockOnErrorIInv
    <3>3. CASE CliOnError(x) \/ CliOnRead(x) \/ CliRefuses(x) \/ CliOnWrite(x)
        BY <3>3, CliOnReadIInv, CliOnWriteIInv
    <3>4. CASE CloseOnMessage(x) \/ \E m \in SendMsg : SendOnMessage(x, m)
        BY <3>4, SendOnMessageIInv, CloseOnMessageIInv
    <3>5. QED
        BY <2>1, <3>1, <3>2, <3>3, <3>4 DEF Handle, Serves
  <2>2. QED
      BY <1>3, <2>1, LoopIInv DEF EventThread
<1>4. CASE UNCHANGED vars
  <2>1. UNCHANGED <<app, running, ready, eng, sock, nFD, buffers, off, msg, conn, rx, fin, room,
                    dropped, handled, wire>>
      BY <1>4 DEF vars, client, kernel
  <2>2. TypeOK'
      BY <2>1 DEF IInv, TypeOK
  <2>3. QED
      BY <2>1, <2>2 DEF IInv, AttemptIsWatched, InterestFollowsQueue, MessageIsWatched, OneOwner,
                        DroppedOnce, HandedOver, NothingBeforeStart
<1>5. QED
    BY <1>1, <1>2, <1>3, <1>4 DEF Next

\* An entry of the batch that the engine will not skip is of a registered event.
LEMMA CallableIsKnown == IInv => NoCallOnTheGone
<1> SUFFICES ASSUME IInv, NEW x \in eng.batch, x.ev \notin eng.deleting PROVE Callable(x.ev)
    BY DEF NoCallOnTheGone
<1>1. x.ev \in eng.added /\ x.ev \in Event
    BY DEF IInv, TypeOK, EngineOK, NoStaleEntry, Engine, Entry
<1>2. CASE x.ev = Sock
    BY <1>1, <1>2 DEF IInv, AttemptIsWatched, Callable
<1>3. CASE x.ev = Cli
    BY <1>1, <1>3 DEF IInv, InterestFollowsQueue, Callable
<1>4. CASE x.ev \in Msg
    BY <1>1, <1>4 DEF IInv, MessageIsWatched, Callable
<1>5. QED
    BY <1>1, <1>2, <1>3, <1>4 DEF Event

\* The game client is safe for any number of buffers of any length, whatever the
\* application, the peer and the kernel do: no handler runs on an object that is
\* gone or finds its assertion false, the descriptor has exactly one owner while
\* it is open, the connector is registered while an attempt is under way, epoll
\* is asked for room exactly when there is something to send, and the
\* application hears of at most one lost connection.
THEOREM ClientIsSafe ==
    Spec => [](/\ TypeOK
               /\ NoCallOnTheGone
               /\ OneOwner
               /\ InterestFollowsQueue
               /\ AttemptIsWatched
               /\ DroppedOnce)
<1>1. IInv => /\ TypeOK /\ NoCallOnTheGone /\ OneOwner
              /\ InterestFollowsQueue /\ AttemptIsWatched /\ DroppedOnce
    BY CallableIsKnown DEF IInv
<1>2. QED
    BY InitIInv, NextIInv, <1>1, PTL DEF Spec

-----------------------------------------------------------------------------
(* What goes out is what was taken in. *)

\* Concatenation of units, from ConcatAssociative.
LEMMA UnitsConcat ==
    ASSUME NEW s \in Seq(SendMsg), NEW t \in Seq(SendMsg), NEW u \in Seq(SendMsg)
    PROVE  (s \o t) \o u = s \o (t \o u)
BY ConcatAssociative

\* What concatenation gives, under a name, so that a proof asks for one instance.
Joined(s, t) ==
    /\ s \o t \in Seq(SendMsg)
    /\ Len(s \o t) = Len(s) + Len(t)
    /\ \A i \in 1..(Len(s) + Len(t)) : (s \o t)[i] = IF i <= Len(s) THEN s[i] ELSE t[i - Len(s)]

LEMMA UnitsJoined ==
    ASSUME NEW s \in Seq(SendMsg), NEW t \in Seq(SendMsg)
    PROVE  Joined(s, t)
BY ConcatProperties DEF Joined

\* Quotients of sums.
LEMMA DivAdd ==
    ASSUME NEW b \in Nat \ {0}, NEW q \in Nat, NEW r \in Nat
    PROVE  /\ (q * b + r) \div b = q + (r \div b)
           /\ r = (r \div b) * b + (r % b)
OBVIOUS

LEMMA DivUnique ==
    ASSUME NEW b \in Nat \ {0}, NEW q \in Nat, NEW r \in 0..(b - 1)
    PROVE  (q * b + r) \div b = q
OBVIOUS

\* The units of the buffers s from the o-th on, each named by its buffer.
Units(s, o) == [i \in 1..(Len(s) * BufLen - o) |-> s[(o + i - 1) \div BufLen + 1]]

\* They are units of these buffers, and as many as their number says.
LEMMA UnitsType ==
    ASSUME NEW s \in Seq(SendMsg), NEW o \in Nat, o <= Len(s) * BufLen
    PROVE  /\ Len(s) * BufLen - o \in Nat
           /\ Units(s, o) \in Seq(SendMsg)
           /\ Len(Units(s, o)) = Len(s) * BufLen - o
<1>1. Len(s) \in Nat /\ BufLen \in Nat \ {0} /\ Len(s) * BufLen \in Nat
    BY TcpClientAssumption
<1>2. Len(s) * BufLen - o \in Nat
    BY <1>1
<1>3. ASSUME NEW i \in 1..(Len(s) * BufLen - o)
      PROVE  s[(o + i - 1) \div BufLen + 1] \in SendMsg
  <2>1. o + i - 1 \in Nat /\ o + i - 1 < Len(s) * BufLen
      BY <1>1
  <2>2. (o + i - 1) \div BufLen \in Nat /\ (o + i - 1) \div BufLen < Len(s)
      BY <1>1, <2>1, DivBelow
  <2>3. QED
      BY <1>1, <2>2
<1>4. QED
    BY <1>2, <1>3 DEF Units

\* Another buffer puts its units at the end.
LEMMA UnitsAppend ==
    ASSUME NEW s \in Seq(SendMsg), NEW o \in Nat, o <= Len(s) * BufLen, NEW m \in SendMsg
    PROVE  Units(Append(s, m), o) = Units(s, o) \o [i \in 1..BufLen |-> m]
<1> DEFINE t == Append(s, m)
           len == Len(s)
           u == len * BufLen - o
           more == [i \in 1..BufLen |-> m]
<1>1. /\ len \in Nat /\ BufLen \in Nat \ {0} /\ len * BufLen \in Nat
      /\ t \in Seq(SendMsg) /\ Len(t) = len + 1
      /\ \A k \in 1..len : t[k] = s[k]
      /\ t[len + 1] = m
    BY TcpClientAssumption
<1>2. /\ more \in Seq(SendMsg) /\ Len(more) = BufLen
      /\ \A i \in 1..BufLen : more[i] = m
    BY <1>1
<1> HIDE DEF t, more
<1>3. Len(t) * BufLen = len * BufLen + BufLen
    BY <1>1
<1>4. /\ u \in Nat /\ Units(s, o) \in Seq(SendMsg) /\ Len(Units(s, o)) = u
      /\ Units(t, o) \in Seq(SendMsg) /\ Len(Units(t, o)) = u + BufLen
  <2>1. u \in Nat /\ Units(s, o) \in Seq(SendMsg) /\ Len(Units(s, o)) = u
      BY UnitsType
  <2>2. o <= Len(t) * BufLen /\ Len(t) * BufLen - o = u + BufLen
      BY <1>1, <1>3
  <2>3. Units(t, o) \in Seq(SendMsg) /\ Len(Units(t, o)) = Len(t) * BufLen - o
      BY <1>1, <2>2, UnitsType
  <2>4. QED
      BY <2>1, <2>2, <2>3
<1>5. /\ Units(s, o) \o more \in Seq(SendMsg)
      /\ Len(Units(s, o) \o more) = u + BufLen
      /\ \A i \in 1..(u + BufLen) :
            (Units(s, o) \o more)[i] = IF i <= u THEN Units(s, o)[i] ELSE more[i - u]
  <2> HIDE DEF u
  <2>1. Joined(Units(s, o), more)
      BY <1>2, <1>4, UnitsJoined
  <2>2. Len(Units(s, o)) = u /\ Len(more) = BufLen
      BY <1>2, <1>4
  <2>3. QED
      BY <2>1, <2>2, Zenon DEF Joined
<1>6. ASSUME NEW i \in 1..(u + BufLen)
      PROVE  Units(t, o)[i] = (Units(s, o) \o more)[i]
  <2> DEFINE k == (o + i - 1) \div BufLen
  <2>1. o + i - 1 \in Nat /\ k \in Nat
      BY <1>1
  <2>2. i \in 1..(Len(t) * BufLen - o)
      BY <1>1, <1>3, <1>4
  <2>3. Units(t, o)[i] = t[k + 1]
      BY <2>2 DEF Units
  <2>4. CASE i <= u
    <3>1. o + i - 1 < len * BufLen /\ i \in 1..u
        BY <1>1, <1>4, <2>4
    <3>2. k < len
        BY <1>1, <2>1, <3>1, DivBelow
    <3>3. Units(s, o)[i] = s[k + 1]
        BY <3>1 DEF Units
    <3>4. k + 1 \in 1..len
        BY <1>1, <2>1, <3>2
    <3> HIDE DEF k
    <3>5. t[k + 1] = s[k + 1]
        BY <1>1, <3>4
    <3>6. (Units(s, o) \o more)[i] = Units(s, o)[i]
        BY <1>5, <2>4
    <3>7. QED
        BY <2>3, <3>3, <3>5, <3>6, Zenon
  <2>5. CASE ~(i <= u)
    <3>1. /\ i - u \in 1..BufLen
          /\ i - u - 1 \in 0..(BufLen - 1)
          /\ o + i - 1 = len * BufLen + (i - u - 1)
        BY <1>1, <1>4, <2>5
    <3>2. (len * BufLen + (i - u - 1)) \div BufLen = len
        BY <1>1, <3>1, DivUnique
    <3>3. k = len
        BY <3>1, <3>2, Zenon
    <3> HIDE DEF k
    <3>4. QED
      <4>1. t[k + 1] = m
          BY <1>1, <3>3
      <4>2. more[i - u] = m
          BY <1>2, <3>1
      <4>3. (Units(s, o) \o more)[i] = more[i - u]
          BY <1>5, <2>5
      <4>4. QED
          BY <2>3, <4>1, <4>2, <4>3, Zenon
  <2>6. QED
      BY <2>4, <2>5
<1>7. Units(t, o) = Units(s, o) \o more
    BY <1>4, <1>5, <1>6, SeqEqual
<1>8. QED
    BY <1>7 DEF t, more

\* The units from the o-th on, less the first n of them, are those that are left when
\* the buffers that n completes have been deleted.
LEMMA UnitsSplit ==
    ASSUME NEW s \in Seq(SendMsg), NEW o \in Nat, NEW n \in Nat, o + n <= Len(s) * BufLen
    PROVE  LET q == (o + n) \div BufLen
               t == SubSeq(s, q + 1, Len(s))
           IN  /\ t \in Seq(SendMsg)
               /\ Len(t) * BufLen - ((o + n) % BufLen) = Len(s) * BufLen - (o + n)
               /\ [i \in 1..n |-> s[(o + i - 1) \div BufLen + 1]] \in Seq(SendMsg)
               /\ [i \in 1..n |-> s[(o + i - 1) \div BufLen + 1]]
                     \o Units(t, (o + n) % BufLen) = Units(s, o)
<1> DEFINE q == (o + n) \div BufLen
           r == (o + n) % BufLen
           len == Len(s)
           t == SubSeq(s, q + 1, len)
           first == [i \in 1..n |-> s[(o + i - 1) \div BufLen + 1]]
           u == len * BufLen - (o + n)
<1>1. /\ len \in Nat /\ BufLen \in Nat \ {0} /\ len * BufLen \in Nat
      /\ o + n \in Nat /\ o <= len * BufLen /\ u \in Nat
    BY TcpClientAssumption
<1>2. /\ q \in Nat /\ r \in 0..(BufLen - 1) /\ o + n = q * BufLen + r
    BY <1>1, DivBelow, DivAdd
<1>3. q <= len
  <2> DEFINE a == o + n
  <2>1. a \in Nat /\ (a < len * BufLen \/ a = len * BufLen)
      BY <1>1
  <2> HIDE DEF a, len
  <2>2. a < len * BufLen => a \div BufLen < len
      BY <1>1, <2>1, DivBelow
  <2>3. a = len * BufLen => a \div BufLen = len
      BY <1>1, <2>1, DivBelow
  <2>4. a \div BufLen <= len
      BY <1>1, <2>1, <2>2, <2>3, DivBelow
  <2>5. QED
      BY <2>4 DEF a
<1> HIDE DEF q, r
<1>4. /\ t \in Seq(SendMsg) /\ Len(t) = len - q
      /\ \A k \in 1..(len - q) : t[k] = s[q + k]
  <2>1. \A k \in (q + 1)..len : s[k] \in SendMsg
      BY <1>1, <1>2
  <2>2. /\ t \in Seq(SendMsg)
        /\ Len(t) = IF q + 1 <= len THEN len - (q + 1) + 1 ELSE 0
        /\ \A k \in 1..(len - (q + 1) + 1) : t[k] = s[(q + 1) + k - 1]
      BY <1>1, <1>2, <2>1, SubSeqProperties
  <2> HIDE DEF t
  <2>3. QED
      BY <1>1, <1>2, <1>3, <2>2
<1> HIDE DEF t
<1>5. Len(t) * BufLen - r = u
  <2>1. /\ q * BufLen \in Nat
        /\ (len - q) * BufLen = len * BufLen - q * BufLen
      BY <1>1, <1>2
  <2>2. Len(t) * BufLen = len * BufLen - q * BufLen
      BY <1>4, <2>1
  <2>3. QED
      BY <1>1, <1>2, <2>1, <2>2
<1>6. /\ Units(t, r) \in Seq(SendMsg) /\ Len(Units(t, r)) = u
      /\ \A i \in 1..u : Units(t, r)[i] = t[(r + i - 1) \div BufLen + 1]
  <2>1. r \in Nat /\ r <= Len(t) * BufLen
      BY <1>1, <1>2, <1>4, <1>5
  <2>2. QED
      BY <1>4, <1>5, <2>1, UnitsType DEF Units
<1>7. /\ Units(s, o) \in Seq(SendMsg) /\ Len(Units(s, o)) = n + u
      /\ \A i \in 1..(n + u) : Units(s, o)[i] = s[(o + i - 1) \div BufLen + 1]
  <2>1. len * BufLen - o = n + u
      BY <1>1
  <2>2. QED
      BY <1>1, <2>1, UnitsType DEF Units
<1>8. /\ first \in Seq(SendMsg) /\ Len(first) = n
      /\ \A i \in 1..n : first[i] = Units(s, o)[i]
  <2>1. \A i \in 1..n : i \in 1..(n + u)
      BY <1>1
  <2>2. \A i \in 1..n : s[(o + i - 1) \div BufLen + 1] \in SendMsg
      BY <1>7, <2>1
  <2>3. QED
      BY <1>7, <2>1, <2>2
<1> HIDE DEF first
<1>9. /\ first \o Units(t, r) \in Seq(SendMsg)
      /\ Len(first \o Units(t, r)) = n + u
      /\ \A i \in 1..(n + u) :
            (first \o Units(t, r))[i] = IF i <= n THEN first[i] ELSE Units(t, r)[i - n]
  <2> HIDE DEF u
  <2>1. Joined(first, Units(t, r))
      BY <1>6, <1>8, UnitsJoined
  <2>2. Len(first) = n /\ Len(Units(t, r)) = u
      BY <1>6, <1>8
  <2>3. QED
      BY <2>1, <2>2, Zenon DEF Joined
<1>10. ASSUME NEW i \in 1..(n + u)
       PROVE  (first \o Units(t, r))[i] = Units(s, o)[i]
  <2>1. CASE i <= n
    <3>1. i \in 1..n
        BY <1>1, <2>1
    <3>2. QED
        BY <1>8, <1>9, <2>1, <3>1
  <2>2. CASE ~(i <= n)
    <3> DEFINE j == i - n
               d == (r + j - 1) \div BufLen
    <3>1. j \in 1..u /\ r + j - 1 \in Nat /\ o + i - 1 = q * BufLen + (r + j - 1)
      <4>1. j \in 1..u
          BY <1>1, <2>2
      <4>2. o + i - 1 = (o + n) + j - 1
          BY <1>1
      <4>3. QED
          BY <1>1, <1>2, <4>1, <4>2
    <3>2. d \in Nat /\ (o + i - 1) \div BufLen = q + d
      <4> DEFINE a == r + j - 1
      <4>1. a \in Nat /\ o + i - 1 = q * BufLen + a
          BY <3>1
      <4> HIDE DEF a
      <4>2. (q * BufLen + a) \div BufLen = q + (a \div BufLen)
          BY <1>1, <1>2, <4>1, DivAdd
      <4>3. a \div BufLen \in Nat
          BY <1>1, <4>1, DivBelow
      <4>4. (o + i - 1) \div BufLen = q + (a \div BufLen)
          BY <4>1, <4>2
      <4>5. QED
          BY <4>3, <4>4 DEF a
    <3>3. d < len - q
      <4> DEFINE a == r + j - 1
                 c == Len(t)
      <4>1. a \in Nat /\ c \in Nat /\ c = len - q
          BY <1>1, <1>2, <1>3, <1>4, <3>1
      <4>2. a < c * BufLen
        <5>1. c * BufLen = u + r
            BY <1>1, <1>2, <1>5, <4>1
        <5>2. QED
            BY <1>1, <1>2, <3>1, <5>1
      <4> HIDE DEF a, c
      <4>3. a \div BufLen < c
          BY <1>1, <4>1, <4>2, DivBelow
      <4>4. QED
          BY <4>1, <4>3 DEF a
    <3> HIDE DEF d
    <3>4. Units(t, r)[j] = t[d + 1]
        BY <1>6, <3>1 DEF d
    <3>5. t[d + 1] = s[q + d + 1]
      <4>1. d + 1 \in 1..(len - q) /\ q + (d + 1) = q + d + 1
          BY <1>1, <1>2, <3>2, <3>3
      <4>2. QED
          BY <1>4, <4>1
    <3>6. QED
        BY <1>7, <1>9, <2>2, <3>2, <3>4, <3>5
  <2>3. QED
      BY <2>1, <2>2
<1>11. first \o Units(t, r) = Units(s, o)
    BY <1>1, <1>7, <1>9, <1>10, SeqEqual
<1>12. QED
    BY <1>4, <1>5, <1>8, <1>11 DEF q, r, t, first

\* No more of the queue has been read than there is in it.
QueueOK == off <= Len(buffers) * BufLen

LEMMA QueueUnits == TypeOK => (NothingLost <=> wire \o Units(buffers, off) = Units(handled, 0))
<1> SUFFICES ASSUME TypeOK PROVE NothingLost <=> wire \o Units(buffers, off) = Units(handled, 0)
    OBVIOUS
<1>1. [i \in 1..Unsent |-> UnsentUnit(i)] = Units(buffers, off)
    BY DEF Unsent, UnsentUnit, Units
<1>2. Len(handled) * BufLen \in Nat
    BY TcpClientAssumption DEF TypeOK
<1>3. 1..(Len(handled) * BufLen) = 1..(Len(handled) * BufLen - 0)
    BY <1>2
<1>4. \A i \in 1..(Len(handled) * BufLen) : 0 + i - 1 = i - 1
    OBVIOUS
<1>5. [i \in 1..(Len(handled) * BufLen) |-> handled[(i - 1) \div BufLen + 1]] = Units(handled, 0)
    BY <1>3, <1>4 DEF Units
<1>6. QED
    BY <1>1, <1>5 DEF NothingLost

\* What one OnWrite takes from the queue goes on the wire.
LEMMA SendsCarries ==
    ASSUME TypeOK, QueueOK, NEW n \in 0..Unsent, Sends(n)
    PROVE  /\ QueueOK'
           /\ wire' \o Units(buffers', off') = wire \o Units(buffers, off)
           /\ Len(wire') = Len(wire) + n
           /\ n = 0 => wire' = wire
<1> DEFINE first == [i \in 1..n |-> UnsentUnit(i)]
<1>1. /\ buffers \in Seq(SendMsg) /\ off \in Nat /\ wire \in Seq(SendMsg)
      /\ Len(buffers) * BufLen \in Nat /\ BufLen \in Nat \ {0}
    BY TcpClientAssumption DEF TypeOK
<1>2. n \in Nat /\ off + n <= Len(buffers) * BufLen
  <2>1. Unsent = Len(buffers) * BufLen - off
      BY DEF Unsent
  <2>2. QED
      BY <1>1, <2>1
<1>3. first = [i \in 1..n |-> buffers[(off + i - 1) \div BufLen + 1]]
    BY DEF UnsentUnit
<1>4. /\ buffers' = SubSeq(buffers, ((off + n) \div BufLen) + 1, Len(buffers))
      /\ off' = (off + n) % BufLen
      /\ wire' = wire \o first
    BY DEF Sends
<1> HIDE DEF first
<1>5. /\ buffers' \in Seq(SendMsg)
      /\ Len(buffers') * BufLen - off' = Len(buffers) * BufLen - (off + n)
      /\ first \in Seq(SendMsg)
      /\ first \o Units(buffers', off') = Units(buffers, off)
    BY <1>1, <1>2, <1>3, <1>4, UnitsSplit
<1>6. off' \in Nat /\ Len(buffers') * BufLen \in Nat /\ off' <= Len(buffers') * BufLen
  <2>1. off' \in Nat
      BY <1>1, <1>2, <1>4, DivBelow
  <2>2. Len(buffers') \in Nat /\ Len(buffers') * BufLen \in Nat
      BY <1>1, <1>5
  <2> DEFINE a == Len(buffers') * BufLen
             b == Len(buffers) * BufLen
  <2>3. /\ a \in Nat /\ b \in Nat /\ off + n <= b /\ off + n \in Nat
        /\ a - off' = b - (off + n)
      BY <1>1, <1>2, <1>5, <2>2
  <2> HIDE DEF a, b
  <2>4. off' <= a
      BY <2>1, <2>3
  <2>5. QED
      BY <2>1, <2>2, <2>4 DEF a
<1>7. QueueOK'
    BY <1>6 DEF QueueOK
<1>8. Units(buffers', off') \in Seq(SendMsg)
    BY <1>5, <1>6, UnitsType
<1>9. wire' \o Units(buffers', off') = wire \o Units(buffers, off)
  <2> DEFINE rest == Units(buffers', off')
  <2>1. rest \in Seq(SendMsg) /\ first \o rest = Units(buffers, off)
      BY <1>5, <1>8
  <2> HIDE DEF rest
  <2>2. (wire \o first) \o rest = wire \o (first \o rest)
      BY <1>1, <1>5, <2>1, UnitsConcat
  <2>3. QED
      BY <1>4, <2>1, <2>2 DEF rest
<1>10. Len(first) = n
    BY <1>2 DEF first
<1>11. Len(wire') = Len(wire) + n
    BY <1>1, <1>4, <1>5, <1>10, ConcatProperties
<1>12. n = 0 => wire' = wire
  <2>1. SUFFICES ASSUME n = 0 PROVE wire' = wire
      OBVIOUS
  <2>2. first = <<>>
      BY <1>5, <1>10, <2>1, EmptySeq
  <2>3. QED
      BY <1>1, <1>4, <2>2, ConcatEmptySeq
<1>13. QED
    BY <1>7, <1>9, <1>11, <1>12

\* What OnMessageEvent takes in joins the queue at its end.
LEMMA AppendCarries ==
    ASSUME TypeOK, TypeOK', QueueOK, NothingLost, NEW m \in SendMsg,
           buffers' = Append(buffers, m), handled' = Append(handled, m),
           UNCHANGED <<off, wire>>
    PROVE  QueueOK' /\ NothingLost'
<1> DEFINE more == [i \in 1..BufLen |-> m]
<1>1. /\ buffers \in Seq(SendMsg) /\ handled \in Seq(SendMsg) /\ wire \in Seq(SendMsg)
      /\ off \in Nat /\ BufLen \in Nat \ {0}
      /\ Len(buffers) \in Nat /\ Len(buffers) * BufLen \in Nat
      /\ Len(handled) \in Nat /\ Len(handled) * BufLen \in Nat
    BY TcpClientAssumption DEF TypeOK
<1>2. off <= Len(buffers) * BufLen /\ 0 <= Len(handled) * BufLen
    BY <1>1 DEF QueueOK
<1>3. QueueOK'
  <2>1. Len(buffers') = Len(buffers) + 1
      BY <1>1
  <2>2. Len(buffers') * BufLen = Len(buffers) * BufLen + BufLen
      BY <1>1, <2>1
  <2>3. QED
      BY <1>1, <1>2, <2>2 DEF QueueOK
<1>4. more \in Seq(SendMsg)
    BY <1>1
<1> HIDE DEF more
<1>5. /\ Units(buffers', off) = Units(buffers, off) \o more
      /\ Units(handled', 0) = Units(handled, 0) \o more
  <2>1. Units(Append(buffers, m), off) = Units(buffers, off) \o more
      BY <1>1, <1>2, UnitsAppend DEF more
  <2>2. Units(Append(handled, m), 0) = Units(handled, 0) \o more
    <3>1. 0 \in Nat /\ 0 <= Len(handled) * BufLen /\ handled \in Seq(SendMsg)
        BY <1>1, <1>2
    <3>2. QED
        BY ONLY <3>1, UnitsAppend, m \in SendMsg DEF more
  <2>3. QED
      BY <2>1, <2>2
<1>6. Units(buffers, off) \in Seq(SendMsg)
    BY <1>1, <1>2, UnitsType
<1>7. wire \o (Units(buffers, off) \o more) = (wire \o Units(buffers, off)) \o more
  <2>1. wire \in Seq(SendMsg)
      BY <1>1
  <2>2. QED
      BY ONLY <1>4, <1>6, <2>1, UnitsConcat
<1>8. wire \o Units(buffers, off) = Units(handled, 0)
    BY QueueUnits
<1>9. wire' \o Units(buffers', off') = Units(handled', 0)
    BY <1>5, <1>7, <1>8
<1>10. NothingLost'
  <2>1. (TypeOK => (NothingLost <=> wire \o Units(buffers, off) = Units(handled, 0)))'
      BY QueueUnits, PTL
  <2>2. QED
      BY <1>9, <2>1
<1>11. QED
    BY <1>3, <1>10

\* Only OnMessageEvent and OnWrite touch the queue.
LEMMA QueueSteps ==
    ASSUME IInv, [Next]_vars
    PROVE  \/ UNCHANGED <<buffers, off, handled, wire>>
           \/ \E x \in eng.batch, m \in SendMsg : SendOnMessage(x, m)
           \/ \E x \in eng.batch, n \in 0..Unsent : CliOnWrite(x) /\ Sends(n) /\ UNCHANGED <<nFD, conn>>
<1>1. CASE Application \/ Network \/ EpollWait \/ Finish \/ UNCHANGED vars
    BY <1>1 DEF vars, client, Application, StartFails, StartSucceeds, Send, Stop, Network, Resolve,
                Drain, KernelOnly, EpollWait, Finish
<1>2. ASSUME NEW x \in eng.batch, Handle(x), ~CliOnWrite(x), \A m \in SendMsg : ~SendOnMessage(x, m)
      PROVE  UNCHANGED <<buffers, off, handled, wire>>
    BY <1>2 DEF client, Handle, Serves, Ignore, SockOnWrite, SockOnError, CliOnError, CliOnRead,
                CliRefuses, CloseOnMessage
<1>3. ASSUME NEW x \in eng.batch, CliOnWrite(x)
      PROVE  \/ UNCHANGED <<buffers, off, handled, wire>>
             \/ \E n \in 0..Unsent : Sends(n) /\ UNCHANGED <<nFD, conn>>
    BY <1>3 DEF CliOnWrite
<1>4. QED
    BY <1>1, <1>2, <1>3 DEF Next, EventThread

LEMMA QueueStep == IInv /\ QueueOK /\ NothingLost /\ [Next]_vars => QueueOK' /\ NothingLost'
<1> SUFFICES ASSUME IInv, QueueOK, NothingLost, [Next]_vars PROVE QueueOK' /\ NothingLost'
    OBVIOUS
<1>1. CASE UNCHANGED <<buffers, off, handled, wire>>
    BY <1>1 DEF QueueOK, NothingLost, Unsent, UnsentUnit
<1>2. ASSUME NEW x, NEW m \in SendMsg, SendOnMessage(x, m)
      PROVE  QueueOK' /\ NothingLost'
    BY <1>2, AppendCarries, NextIInv DEF IInv, SendOnMessage
<1>3. ASSUME NEW x, NEW n \in 0..Unsent, CliOnWrite(x), Sends(n)
      PROVE  QueueOK' /\ NothingLost'
  <2>1. /\ QueueOK'
        /\ wire' \o Units(buffers', off') = wire \o Units(buffers, off)
      BY <1>3, SendsCarries DEF IInv
  <2>2. wire' \o Units(buffers', off') = Units(handled', 0)
      BY <1>3, <2>1, QueueUnits DEF CliOnWrite, IInv
  <2>3. (TypeOK => (NothingLost <=> wire \o Units(buffers, off) = Units(handled, 0)))'
      BY QueueUnits, PTL
  <2>4. QED
      BY <2>1, <2>2, <2>3, NextIInv DEF IInv
<1>4. QED
    BY <1>1, <1>2, <1>3, QueueSteps

LEMMA InitQueue == Init => QueueOK /\ NothingLost
<1> SUFFICES ASSUME Init PROVE QueueOK /\ NothingLost
    OBVIOUS
<1>1. Len(buffers) * BufLen = 0 /\ Len(handled) * BufLen = 0 /\ off = 0
    BY TcpClientAssumption DEF Init
<1>2. QueueOK
    BY <1>1 DEF QueueOK
<1>3. Units(buffers, off) = Units(handled, 0)
    BY <1>1 DEF Units, Init
<1>4. wire \o Units(buffers, off) = Units(handled, 0)
  <2>1. buffers \in Seq(SendMsg) /\ off \in Nat /\ off <= Len(buffers) * BufLen
      BY <1>1 DEF Init
  <2>2. Units(buffers, off) \in Seq(SendMsg)
      BY <2>1, UnitsType
  <2>3. QED
      BY <1>3, <2>2, ConcatEmptySeq DEF Init
<1>5. QED
    BY <1>2, <1>4, QueueUnits, InitIInv DEF IInv

\* However send splits the buffers, whatever their length and number: the units on the
\* wire and those in the queue are those of the buffers that OnMessageEvent took in.
THEOREM ClientLosesNothing == Spec => []NothingLost
<1>1. Init => IInv /\ QueueOK /\ NothingLost
    BY InitIInv, InitQueue
<1>2. (IInv /\ QueueOK /\ NothingLost) /\ [Next]_vars => (IInv /\ QueueOK /\ NothingLost)'
    BY NextIInv, QueueStep
<1>3. QED
    BY <1>1, <1>2, PTL DEF Spec

-----------------------------------------------------------------------------
(* The client implements ClientLink, step by step. *)

\* The state of the connection that the refinement mapping reads off the descriptor.
LinkState == IF nFD # NoFD THEN "up" ELSE IF conn = "closed" THEN "over" ELSE "down"

LEMMA InitLink == Init => Link!Init
BY DEF Init, Link!Init, NoFD

\* Steps that the abstract client does not see.
LEMMA LinkStutter ==
    ASSUME UNCHANGED <<handled, wire>>, LinkState' = LinkState
    PROVE  UNCHANGED Link!vars
BY DEF Link!vars, LinkState

\* The end of a connection, or of an attempt at one.
LEMMA LinkOver ==
    ASSUME UNCHANGED <<handled, wire>>, LinkState \in {"down", "up"}, LinkState' = "over"
    PROVE  Link!Next
BY DEF Link!Next, Link!Over, LinkState

\* What OnWrite sends is the next units of what was accepted.
LEMMA LinkCarries ==
    ASSUME IInv, IInv', QueueOK, NothingLost, NEW x, CliOnWrite(x), NEW n \in 0..Unsent, Sends(n),
           UNCHANGED <<nFD, conn>>
    PROVE  Link!Next \/ UNCHANGED Link!vars
<1>1. nFD # NoFD /\ UNCHANGED handled
    BY CallFacts, Distinct DEF CliOnWrite, IInv, InterestFollowsQueue
<1>2. /\ LinkState = "up" /\ LinkState' = "up"
    BY <1>1 DEF LinkState
<1>3. /\ QueueOK'
      /\ wire' \o Units(buffers', off') = wire \o Units(buffers, off)
      /\ Len(wire') = Len(wire) + n
      /\ n = 0 => wire' = wire
    BY SendsCarries DEF IInv
<1>4. CASE n = 0
    BY <1>1, <1>2, <1>3, <1>4, LinkStutter
<1>5. CASE n > 0
  <2> DEFINE all == Units(handled, 0)
             rest == Units(buffers', off')
  <2>1. /\ wire' \in Seq(SendMsg) /\ wire \in Seq(SendMsg)
        /\ buffers' \in Seq(SendMsg) /\ off' \in Nat
        /\ handled \in Seq(SendMsg) /\ Len(handled) * BufLen \in Nat
        /\ n \in Nat
      BY TcpClientAssumption DEF IInv, TypeOK
  <2>2. rest \in Seq(SendMsg)
      BY <1>3, <2>1, UnitsType DEF QueueOK
  <2>3. wire' \o rest = all
      BY <1>3, QueueUnits DEF IInv
  <2>4. all \in Seq(SendMsg) /\ Len(all) = Len(handled) * BufLen
    <3>1. 0 \in Nat /\ 0 <= Len(handled) * BufLen
        BY <2>1
    <3>2. QED
        BY <2>1, <3>1, UnitsType
  <2>5. all = Link!UnitsOf(handled)
    <3>1. 1..(Len(handled) * BufLen) = 1..(Len(handled) * BufLen - 0)
        BY <2>1
    <3>2. \A i \in 1..(Len(handled) * BufLen) : 0 + i - 1 = i - 1
        OBVIOUS
    <3>3. QED
        BY <3>1, <3>2 DEF Link!UnitsOf, Units
  <2> HIDE DEF all, rest
  <2>6. Len(wire') \in (Len(wire) + 1)..(Len(handled) * BufLen)
    <3>1. Len(all) = Len(wire') + Len(rest) /\ Len(rest) \in Nat /\ Len(wire') \in Nat
        BY <2>1, <2>2, <2>3, ConcatProperties
    <3>2. QED
        BY <1>3, <1>5, <2>1, <2>4, <3>1
  <2>7. wire' = SubSeq(Link!UnitsOf(handled), 1, Len(wire'))
    <3>1. 1 \in 1..Len(wire') /\ Len(wire') \in 1..Len(wire')
        BY <2>1, <2>6
    <3>2. SubSeq(wire' \o rest, 1, Len(wire')) = SubSeq(wire', 1, Len(wire'))
        BY <2>1, <2>2, <3>1, SubSeqOfConcat1
    <3>3. SubSeq(wire', 1, Len(wire')) = wire'
        BY <2>1, SubSeqFull
    <3>4. QED
        BY <2>3, <2>5, <3>2, <3>3
  <2>8. Link!Carry
      BY <1>1, <1>2, <2>6, <2>7 DEF Link!Carry, LinkState
  <2>9. QED
      BY <2>8 DEF Link!Next
<1>6. QED
    BY <1>4, <1>5

\* The other handlers of the event thread.
LEMMA LinkHandlers ==
    ASSUME IInv, NEW x \in eng.batch, Handle(x), ~CliOnWrite(x)
    PROVE  Link!Next \/ UNCHANGED Link!vars
<1> USE DEF IInv
<1>1. CASE Ignore(x)
    BY <1>1, LinkStutter DEF Ignore, client, kernel, LinkState
<1>2. CASE SockOnWrite(x)
  <2>1. sock = "open" /\ conn # "closed" /\ nFD = NoFD
      BY <1>2, CallFacts, Distinct DEF SockOnWrite, AttemptIsWatched, OneOwner, TypeOK
  <2>2. LinkState = "down" /\ LinkState' = "up"
      BY <1>2, <2>1, Distinct DEF SockOnWrite, LinkState
  <2>3. Link!Establish
      BY <1>2, <2>2 DEF SockOnWrite, Link!Establish, LinkState
  <2>4. QED
      BY <2>3 DEF Link!Next
<1>3. CASE SockOnError(x)
  <2>1. sock = "open" /\ conn # "closed" /\ nFD = NoFD
      BY <1>3, CallFacts, Distinct DEF SockOnError, AttemptIsWatched, OneOwner, TypeOK
  <2>2. LinkState = "down" /\ LinkState' = "over"
      BY <1>3, <2>1 DEF SockOnError, Closes, LinkState
  <2>3. QED
      BY <1>3, <2>2, LinkOver DEF SockOnError
<1>4. ASSUME Calls(x, Cli, "in") \/ Calls(x, Cli, "err"), Disconnect(Take(eng, x)),
             UNCHANGED <<handled, wire>>
      PROVE  Link!Next
  <2>1. nFD # NoFD
      BY <1>4, CallFacts, Distinct DEF InterestFollowsQueue
  <2>2. LinkState = "up" /\ LinkState' = "over"
      BY <1>4, <2>1 DEF Disconnect, Closes, LinkState
  <2>3. QED
      BY <1>4, <2>2, LinkOver
<1>5. CASE CliOnError(x) \/ CliRefuses(x)
    BY <1>4, <1>5 DEF CliOnError, CliRefuses
<1>6. CASE CliOnRead(x)
  <2>1. CASE Disconnect(Take(eng, x))
      BY <1>4, <1>6, <2>1 DEF CliOnRead
  <2>2. CASE ~Disconnect(Take(eng, x))
    <3>1. UNCHANGED <<nFD, conn, handled, wire>>
        BY <1>6, <2>2 DEF CliOnRead
    <3>2. QED
        BY <3>1, LinkStutter DEF LinkState
  <2>3. QED
      BY <2>1, <2>2
<1>7. ASSUME NEW m \in SendMsg, SendOnMessage(x, m)
      PROVE  Link!Next
  <2>1. LinkState' = LinkState
      BY <1>7 DEF SendOnMessage, kernel, LinkState
  <2>2. Link!Accept(m)
      BY <1>7, <2>1 DEF SendOnMessage, Link!Accept, LinkState
  <2>3. QED
      BY <2>2 DEF Link!Next
<1>8. CASE CloseOnMessage(x)
  <2>1. CASE nFD # NoFD
    <3>1. LinkState = "up" /\ LinkState' = "over"
        BY <1>8, <2>1 DEF CloseOnMessage, Closes, LinkState
    <3>2. QED
        BY <1>8, <3>1, LinkOver DEF CloseOnMessage
  <2>2. CASE nFD = NoFD
      BY <1>8, <2>2, LinkStutter DEF CloseOnMessage, kernel, LinkState
  <2>3. QED
      BY <2>1, <2>2
<1>9. QED
    BY <1>1, <1>2, <1>3, <1>5, <1>6, <1>7, <1>8 DEF Handle, Serves

\* The steps of the application, the network and the loop.
LEMMA LinkOthers ==
    ASSUME IInv, Application \/ Network \/ EpollWait \/ Finish \/ UNCHANGED vars
    PROVE  UNCHANGED Link!vars
<1>1. UNCHANGED <<nFD, handled, wire>>
    BY DEF vars, client, Application, StartFails, StartSucceeds, Send, Stop, Network, Resolve,
           Drain, KernelOnly, EpollWait, Finish
<1>2. CASE StartFails \/ StartSucceeds
  <2>1. conn # "closed" /\ conn' # "closed"
      BY <1>2 DEF StartFails, StartSucceeds, Begin, IInv, NothingBeforeStart
  <2>2. QED
      BY <1>1, <2>1, LinkStutter DEF LinkState
<1>3. CASE Network
  <2>1. conn # "closed" /\ conn' # "closed"
      BY <1>3 DEF Network, Resolve, Drain, Connected, Refused, PeerSends, PeerShutsDown,
                  PeerReads, PeerResets
  <2>2. QED
      BY <1>1, <2>1, LinkStutter DEF LinkState
<1>4. CASE (\E m \in SendMsg : Send(m)) \/ Stop \/ EpollWait \/ Finish \/ UNCHANGED vars
  <2>1. UNCHANGED conn
      BY <1>4 DEF vars, kernel, Send, Stop, EpollWait, Finish
  <2>2. QED
      BY <1>1, <2>1, LinkStutter DEF LinkState
<1>5. QED
    BY <1>2, <1>3, <1>4 DEF Application

LEMMA LinkStep == IInv /\ QueueOK /\ NothingLost /\ [Next]_vars => [Link!Next]_(Link!vars)
<1> SUFFICES ASSUME IInv, QueueOK, NothingLost, [Next]_vars
             PROVE  Link!Next \/ UNCHANGED Link!vars
    OBVIOUS
<1>1. ASSUME NEW x \in eng.batch, CliOnWrite(x)
      PROVE  Link!Next \/ UNCHANGED Link!vars
  <2>1. CASE conn = "reset" /\ Disconnect(Take(eng, x)) /\ UNCHANGED <<buffers, off, wire>>
    <3>1. nFD # NoFD
        BY <1>1, CallFacts, Distinct DEF CliOnWrite, IInv, InterestFollowsQueue
    <3>2. LinkState = "up" /\ LinkState' = "over"
        BY <2>1, <3>1 DEF Disconnect, Closes, LinkState
    <3>3. QED
        BY <1>1, <2>1, <3>2, LinkOver DEF CliOnWrite
  <2>2. ASSUME NEW n \in 0..Unsent, Sends(n), UNCHANGED <<nFD, conn>>
        PROVE  Link!Next \/ UNCHANGED Link!vars
      BY <1>1, <2>2, LinkCarries, NextIInv
  <2>3. QED
      BY <1>1, <2>1, <2>2 DEF CliOnWrite
<1>2. ASSUME NEW x \in eng.batch, Handle(x), ~CliOnWrite(x)
      PROVE  Link!Next \/ UNCHANGED Link!vars
    BY <1>2, LinkHandlers
<1>3. CASE Application \/ Network \/ EpollWait \/ Finish \/ UNCHANGED vars
    BY <1>3, LinkOthers
<1>4. QED
    BY <1>1, <1>2, <1>3 DEF Next, EventThread

\* Every behaviour of the client, for any buffers, batches, splits and events of the
\* network, is one of ClientLink: OnConnected establishes the connection, OnWrite carries
\* the next units, OnError, OnConnectFailed and UM_CLOSE end it for good.
THEOREM ClientImplementsLink == Spec => ImplementsLink
<1>1. Init => IInv /\ QueueOK /\ NothingLost /\ Link!Init
    BY InitIInv, InitQueue, InitLink
<1>2. (IInv /\ QueueOK /\ NothingLost) /\ [Next]_vars => (IInv /\ QueueOK /\ NothingLost)'
    BY NextIInv, QueueStep
<1>3. (IInv /\ QueueOK /\ NothingLost) /\ [Next]_vars => [Link!Next]_(Link!vars)
    BY LinkStep
<1>4. QED
    BY <1>1, <1>2, <1>3, PTL DEF Spec, ImplementsLink, Link!Spec

-----------------------------------------------------------------------------
(* The game object. *)

\* The order holds the messages that are posted, each once.
OrderOK ==
    /\ order \in Seq(Msg)
    /\ IsInjective(order)
    /\ Range(order) = {m \in Msg : msg[m] = "posted"}

\* Stop is called by ~CGame only; nothing is posted after UM_CLOSE, and when Stop has
\* returned everything posted has been handled.
CallsOK ==
    /\ game = "up" => app \in {"new", "started", "failed"} /\ msg[CloseMsg] = "free"
    /\ game = "exiting" => app \in {"stopping", "stopped"}
    /\ msg[CloseMsg] = "posted" => order # <<>> /\ order[Len(order)] = CloseMsg
    /\ app = "stopped" => order = <<>> /\ running

\* An error that the batch still holds for the descriptor has not gone away.
ErrorIsReset ==
    \A x \in eng.batch :
        x.ev \in {Sock, Cli} /\ x.ev \notin eng.deleting /\ "err" \in x.flags => conn = "reset"

\* What is left for the thread when the client is gone: nothing it could be called for.
Ended ==
    /\ eng \in Engine(Event)
    /\ EngineOK(eng)
    /\ eng.added = {}
    /\ conn \in {"none", "closed"}

GInv ==
    /\ game \in {"up", "doubled", "exiting", "dying", "aborted", "exited"}
    /\ quit => game = "dying" /\ running
    /\ dropped \in Nat
    /\ game \in {"up", "exiting"} => IInv /\ ErrorIsReset /\ OrderOK /\ CallsOK
    /\ game \in {"dying", "exited"} => Ended

-----------------------------------------------------------------------------
(* What a step does to the order. *)

LEMMA TailOK ==
    ASSUME NEW S, NEW s \in Seq(S), s # <<>>, IsInjective(s)
    PROVE  /\ Tail(s) \in Seq(S)
           /\ Len(Tail(s)) = Len(s) - 1
           /\ IsInjective(Tail(s))
           /\ Range(Tail(s)) = Range(s) \ {Head(s)}
           /\ \A i \in 1..(Len(s) - 1) : Tail(s)[i] = s[i + 1]
<1>1. /\ DOMAIN s = 1..Len(s)
      /\ Len(s) \in Nat \ {0}
      /\ Head(s) = s[1]
    OBVIOUS
<1>2. /\ Tail(s) \in Seq(S)
      /\ Len(Tail(s)) = Len(s) - 1
      /\ DOMAIN Tail(s) = 1..(Len(s) - 1)
      /\ \A i \in 1..(Len(s) - 1) : Tail(s)[i] = s[i + 1]
    BY <1>1
<1>3. IsInjective(Tail(s))
  <2> SUFFICES ASSUME NEW i \in 1..(Len(s) - 1), NEW j \in 1..(Len(s) - 1),
                      s[i + 1] = s[j + 1]
               PROVE  i = j
      BY <1>2 DEF IsInjective
  <2>1. i + 1 \in DOMAIN s /\ j + 1 \in DOMAIN s
      BY <1>1
  <2>2. i + 1 = j + 1
      BY <2>1 DEF IsInjective
  <2>3. QED
      BY <2>2
<1>4. ASSUME NEW i \in 1..(Len(s) - 1)
      PROVE  s[i + 1] \in Range(s) \ {Head(s)}
  <2>1. i + 1 \in DOMAIN s /\ 1 \in DOMAIN s /\ i + 1 # 1
      BY <1>1
  <2>2. QED
      BY <1>1, <2>1 DEF Range, IsInjective
<1>5. ASSUME NEW i \in 1..Len(s), s[i] # Head(s)
      PROVE  s[i] \in Range(Tail(s))
  <2>1. i - 1 \in 1..(Len(s) - 1) /\ (i - 1) + 1 = i
      BY <1>1, <1>5
  <2>2. QED
      BY <1>2, <2>1 DEF Range
<1>6. Range(Tail(s)) = Range(s) \ {Head(s)}
  <2>1. Range(Tail(s)) \subseteq Range(s) \ {Head(s)}
      BY <1>2, <1>4 DEF Range
  <2>2. Range(s) \ {Head(s)} \subseteq Range(Tail(s))
      BY <1>1, <1>5 DEF Range
  <2>3. QED
      BY <2>1, <2>2
<1>7. QED
    BY <1>2, <1>3, <1>6

LEMMA AppendOK ==
    ASSUME NEW S, NEW s \in Seq(S), IsInjective(s), NEW e \in S, e \notin Range(s)
    PROVE  /\ Append(s, e) \in Seq(S)
           /\ Append(s, e) # <<>>
           /\ Append(s, e)[Len(Append(s, e))] = e
           /\ IsInjective(Append(s, e))
           /\ Range(Append(s, e)) = Range(s) \cup {e}
<1> DEFINE t == Append(s, e)
<1>1. DOMAIN s = 1..Len(s) /\ Len(s) \in Nat
    OBVIOUS
<1>2. /\ t \in Seq(S) /\ Len(t) = Len(s) + 1 /\ DOMAIN t = 1..(Len(s) + 1)
      /\ \A i \in DOMAIN s : i \in DOMAIN t /\ t[i] = s[i]
      /\ t[Len(s) + 1] = e
    BY <1>1
<1> HIDE DEF t
<1>3. \A i \in DOMAIN t : i \in DOMAIN s \/ i = Len(s) + 1
    BY <1>1, <1>2
<1>4. Len(s) + 1 \in DOMAIN t
    BY <1>1, <1>2
<1>5. Range(t) = Range(s) \cup {e}
    BY <1>2, <1>3, <1>4 DEF Range
<1>6. IsInjective(t)
    BY <1>2, <1>3 DEF IsInjective, Range
<1>7. t # <<>> /\ t[Len(t)] = e
    BY <1>1, <1>2
<1>8. QED
    BY <1>2, <1>5, <1>6, <1>7 DEF t

\* The steps that neither post nor handle a message.
LEMMA OrderSame ==
    ASSUME OrderOK, Ordered, msg' = msg
    PROVE  order' = order /\ OrderOK'
<1>1. {m \in Msg : msg[m] = "posted" /\ msg'[m] # "posted"} = {}
    OBVIOUS
<1>2. {m \in Msg : msg[m] = "free" /\ msg'[m] = "posted"} = {}
    OBVIOUS
<1>3. order' = SubSeq(order, 0 + 1, Len(order))
    BY <1>1, <1>2, FS_EmptySet DEF Ordered
<1>4. order' = order
    BY <1>3, SubSeqFull DEF OrderOK
<1>5. QED
    BY <1>4 DEF OrderOK

\* PostMessage: the message joins the order, or is lost.
LEMMA OrderPost ==
    ASSUME TypeOK, OrderOK, Ordered, NEW m \in Msg, PostMessage(m)
    PROVE  /\ OrderOK'
           /\ msg'[m] = "posted" => order' # <<>> /\ order'[Len(order')] = m
           /\ \A k \in Msg \ {m} : msg'[k] = msg[k]
           /\ msg'[m] # "free"
<1> DEFINE left == {k \in Msg : msg[k] = "posted" /\ msg'[k] # "posted"}
           new  == {k \in Msg : msg[k] = "free" /\ msg'[k] = "posted"}
<1>1. /\ msg[m] = "free"
      /\ msg'[m] \in {"posted", "lost"}
      /\ \A k \in Msg \ {m} : msg'[k] = msg[k]
    BY DEF PostMessage, TypeOK
<1>2. left = {} /\ m \notin Range(order)
    BY <1>1 DEF OrderOK
<1>3. SubSeq(order, 0 + 1, Len(order)) = order
    BY SubSeqFull DEF OrderOK
<1>4. SubSeq(order, Cardinality(left) + 1, Len(order)) = order
    BY <1>2, <1>3, FS_EmptySet
<1>5. CASE msg'[m] = "posted"
  <2>1. new = {m}
      BY <1>1, <1>5
  <2>2. order' = Append(order, m)
      BY <1>4, <2>1 DEF Ordered
  <2>3. /\ order' \in Seq(Msg) /\ order' # <<>> /\ order'[Len(order')] = m
        /\ IsInjective(order') /\ Range(order') = Range(order) \cup {m}
      BY <1>2, <2>2, AppendOK DEF OrderOK
  <2>4. Range(order') = {k \in Msg : msg'[k] = "posted"}
      BY <1>1, <1>5, <2>3 DEF OrderOK
  <2>5. QED
      BY <1>1, <1>5, <2>3, <2>4 DEF OrderOK
<1>6. CASE msg'[m] # "posted"
  <2>1. new = {}
      BY <1>1, <1>6
  <2>2. order' = order
      BY <1>4, <2>1 DEF Ordered
  <2>3. {k \in Msg : msg'[k] = "posted"} = {k \in Msg : msg[k] = "posted"}
      BY <1>1, <1>6
  <2>4. QED
      BY <1>1, <1>6, <2>2, <2>3 DEF OrderOK
<1>7. QED
    BY <1>5, <1>6

\* CMessageEvent::OnRead: the first message leaves the order.
LEMMA OrderDone ==
    ASSUME TypeOK, OrderOK, Ordered, NEW m \in Msg, msg[m] = "posted", m = Head(order), MsgDone(m)
    PROVE  /\ order # <<>>
           /\ order' = Tail(order)
           /\ OrderOK'
<1> DEFINE left == {k \in Msg : msg[k] = "posted" /\ msg'[k] # "posted"}
           new  == {k \in Msg : msg[k] = "free" /\ msg'[k] = "posted"}
<1>1. msg'[m] = "done" /\ \A k \in Msg \ {m} : msg'[k] = msg[k]
    BY MsgDoneType
<1>2. left = {m} /\ new = {}
    BY <1>1
<1>3. Cardinality(left) = 1
    BY <1>2, FS_Singleton
<1>4. order # <<>>
    BY DEF OrderOK, Range
<1>5. order' = SubSeq(order, 1 + 1, Len(order))
    BY <1>2, <1>3 DEF Ordered
<1>6. order' = Tail(order)
    BY <1>4, <1>5, TailIsSubSeq DEF OrderOK
<1>7. /\ order' \in Seq(Msg) /\ IsInjective(order')
      /\ Range(order') = Range(order) \ {m}
    BY <1>4, <1>6, TailOK DEF OrderOK
<1>8. Range(order') = {k \in Msg : msg'[k] = "posted"}
    BY <1>1, <1>7 DEF OrderOK
<1>9. QED
    BY <1>4, <1>6, <1>7, <1>8 DEF OrderOK

\* A new epoll descriptor: all messages leave the order.
LEMMA OrderLost ==
    ASSUME TypeOK, OrderOK, Ordered, Begin
    PROVE  OrderOK' /\ order' = <<>> /\ \A k \in Msg : msg'[k] # "posted"
<1> DEFINE left == {k \in Msg : msg[k] = "posted" /\ msg'[k] # "posted"}
           new  == {k \in Msg : msg[k] = "free" /\ msg'[k] = "posted"}
           n == Len(order)
<1>1. \A k \in Msg : msg'[k] # "posted"
    BY DEF Begin, TypeOK
<1>2. left = Range(order) /\ new = {}
    BY <1>1 DEF OrderOK
<1>3. n \in Nat /\ order \in [1..n -> Msg] /\ DOMAIN order = 1..n
    BY DEF OrderOK
<1>4. order \in Surjection(1..n, left) /\ order \in Injection(1..n, left)
    BY <1>2, <1>3 DEF OrderOK, Range, Surjection, Injection
<1>5. Cardinality(left) = n
  <2>1. IsFiniteSet(1..n) /\ Cardinality(1..n) = n
      BY <1>3, FS_Interval
  <2>2. IsFiniteSet(left)
      BY <1>4, <2>1, FS_Surjection
  <2>3. QED
      BY <1>4, <2>1, <2>2, FS_Surjection
<1>6. order' = SubSeq(order, n + 1, n)
    BY <1>2, <1>5 DEF Ordered
<1>7. order' = <<>>
    BY <1>3, <1>6, SubSeqEmpty
<1>8. OrderOK'
    BY <1>1, <1>7 DEF OrderOK, IsInjective, Range
<1>9. QED
    BY <1>1, <1>7, <1>8

-----------------------------------------------------------------------------
(* What the event thread does to the rest of a batch. *)

\* Unregister remembers the event in m_vecDeleting and forgets none.
LEMMA UnregisterRemembers ==
    ASSUME NEW g \in Engine(Event), NEW d \in Event
    PROVE  /\ g.deleting \subseteq Unregister(g, d).deleting
           /\ d \in g.added /\ g.onEvent => d \in Unregister(g, d).deleting
           /\ Unregister(g, d).batch = g.batch
           /\ Unregister(g, d).onEvent = g.onEvent
           /\ Unregister(g, d).added = g.added \ {d}
BY DEF Engine, Unregister, DelEvent

LEMMA RegisterRemembers ==
    ASSUME NEW g \in Engine(Event), NEW d \in Event, NEW m \in SUBSET RW
    PROVE  /\ Register(g, d, m) \in Engine(Event)
           /\ Register(g, d, m).deleting = g.deleting
           /\ Register(g, d, m).batch = g.batch
           /\ Register(g, d, m).onEvent = g.onEvent
           /\ Register(g, d, m).added = g.added \cup {d}
<1>1. Register(g, d, m) \in Engine(Event)
    BY RegisterType
<1>2. Register(g, d, m) = [g EXCEPT !.added = @ \cup {d}, !.mask[d] = m]
    BY DEF Register
<1>3. QED
    BY <1>1, <1>2 DEF Engine

LEMMA TakeRemembers ==
    ASSUME NEW g \in Engine(Event), NEW x
    PROVE  /\ Take(g, x) \in Engine(Event)
           /\ Take(g, x).batch \subseteq g.batch
           /\ Take(g, x).deleting = g.deleting
           /\ Take(g, x).onEvent = g.onEvent
           /\ Take(g, x).added = g.added
BY DEF Engine, Take

\* A handler works on what is left of the batch, and a handler that closes the descriptor
\* remembers its owner.
Shrinks == eng'.batch \subseteq eng.batch /\ eng.deleting \subseteq eng'.deleting

LEMMA HandleShrinks ==
    ASSUME IInv, NEW x \in eng.batch, Handle(x)
    PROVE  /\ Shrinks
           /\ \/ conn' = conn
              \/ Sock \in eng'.deleting /\ Cli \notin eng.added
              \/ Cli \in eng'.deleting /\ Sock \notin eng.added
<1> USE DEF IInv
<1> DEFINE t == Take(eng, x)
<1>1. /\ t \in Engine(Event) /\ t.batch \subseteq eng.batch /\ t.deleting = eng.deleting
      /\ t.onEvent /\ t.added = eng.added /\ eng.onEvent
    BY TakeRemembers DEF TypeOK, EngineOK, BatchScoped
<1>2. ~(Sock \in eng.added /\ Cli \in eng.added)
    BY DEF AttemptIsWatched, InterestFollowsQueue, OneOwner
<1>3. CASE Ignore(x)
    BY <1>1, <1>3 DEF Ignore, kernel, Shrinks
<1>4. CASE SockOnWrite(x)
  <2> DEFINE g == Unregister(t, Sock)
             m == IF buffers = <<>> THEN Read ELSE Write
  <2>1. eng' = Register(g, Cli, m) /\ conn' = conn
      BY <1>4 DEF SockOnWrite, kernel
  <2>2. /\ g \in Engine(Event) /\ g.batch = t.batch /\ t.deleting \subseteq g.deleting
      BY <1>1, UnregisterRemembers, UnregisterType, Distinct
  <2>3. m \in SUBSET RW
      BY Distinct
  <2> HIDE DEF t, g, m
  <2>4. eng'.batch = g.batch /\ eng'.deleting = g.deleting
      BY <2>1, <2>2, <2>3, RegisterRemembers, Distinct
  <2>5. QED
      BY <1>1, <2>1, <2>2, <2>4 DEF Shrinks
<1>5. CASE SockOnError(x)
  <2>1. Sock \in eng.added /\ eng' = Unregister(t, Sock)
      BY <1>5, CallFacts, Distinct DEF SockOnError
  <2> HIDE DEF t
  <2>2. eng'.batch = t.batch /\ t.deleting \subseteq eng'.deleting /\ Sock \in eng'.deleting
      BY <1>1, <2>1, UnregisterRemembers, Distinct
  <2>3. QED
      BY <1>1, <1>2, <2>1, <2>2 DEF Shrinks
<1>6. ASSUME Calls(x, Cli, "in") \/ Calls(x, Cli, "out") \/ Calls(x, Cli, "err"), Disconnect(t)
      PROVE  Shrinks /\ Cli \in eng'.deleting /\ Sock \notin eng.added
  <2>1. Cli \in eng.added /\ eng' = Unregister(t, Cli)
      BY <1>6, CallFacts, Distinct DEF Disconnect
  <2> HIDE DEF t
  <2>2. eng'.batch = t.batch /\ t.deleting \subseteq eng'.deleting /\ Cli \in eng'.deleting
      BY <1>1, <2>1, UnregisterRemembers, Distinct
  <2>3. QED
      BY <1>1, <1>2, <2>1, <2>2 DEF Shrinks
<1>7. CASE CliOnError(x) \/ CliRefuses(x)
    BY <1>6, <1>7 DEF CliOnError, CliRefuses
<1>8. CASE CliOnRead(x)
  <2>1. CASE Disconnect(t)
      BY <1>6, <1>8, <2>1 DEF CliOnRead
  <2>2. CASE ~Disconnect(t)
    <3>1. eng' = t /\ conn' = conn
        BY <1>8, <2>2 DEF CliOnRead
    <3>2. QED
        BY <1>1, <3>1 DEF Shrinks
  <2>3. QED
      BY <2>1, <2>2
<1>9. CASE CliOnWrite(x)
  <2>1. CASE Disconnect(t)
      BY <1>6, <1>9, <2>1 DEF CliOnWrite
  <2>2. CASE ~Disconnect(t)
    <3>1. (eng' = t \/ eng' = Register(t, Cli, Read)) /\ conn' = conn
        BY <1>9, <2>2 DEF CliOnWrite
    <3> HIDE DEF t
    <3>2. eng'.batch = t.batch /\ eng'.deleting = t.deleting
        BY <1>1, <3>1, RegisterRemembers, Distinct
    <3>3. QED
        BY <1>1, <3>1, <3>2 DEF Shrinks
  <2>3. QED
      BY <2>1, <2>2
<1>10. ASSUME NEW m \in SendMsg, SendOnMessage(x, m)
       PROVE  Shrinks /\ conn' = conn
  <2> DEFINE g == IF buffers = <<>> /\ nFD # NoFD THEN Register(t, Cli, Write) ELSE t
  <2>1. eng' = Unregister(g, m) /\ conn' = conn
      BY <1>10 DEF SendOnMessage, kernel
  <2> HIDE DEF t
  <2>2. g \in Engine(Event) /\ g.batch = t.batch /\ g.deleting = t.deleting
      BY <1>1, RegisterRemembers, Distinct
  <2> HIDE DEF g
  <2>3. eng'.batch = g.batch /\ g.deleting \subseteq eng'.deleting
      BY <2>1, <2>2, UnregisterRemembers, Distinct
  <2>4. QED
      BY <1>1, <2>1, <2>2, <2>3 DEF Shrinks
<1>11. CASE CloseOnMessage(x)
  <2> HIDE DEF t
  <2>1. CASE nFD # NoFD
    <3> DEFINE g == Unregister(t, Cli)
    <3>1. eng' = Unregister(g, CloseMsg)
        BY <1>11, <2>1 DEF CloseOnMessage, t
    <3>2. Cli \in eng.added
        BY <2>1 DEF InterestFollowsQueue
    <3>3. /\ g \in Engine(Event) /\ g.batch = t.batch /\ t.deleting \subseteq g.deleting
          /\ Cli \in g.deleting
        BY <1>1, <3>2, UnregisterRemembers, UnregisterType, Distinct
    <3> HIDE DEF g
    <3>4. eng'.batch = g.batch /\ g.deleting \subseteq eng'.deleting
        BY <3>1, <3>3, UnregisterRemembers, Distinct
    <3>5. QED
        BY <1>1, <1>2, <3>2, <3>3, <3>4 DEF Shrinks
  <2>2. CASE nFD = NoFD
    <3>1. eng' = Unregister(t, CloseMsg) /\ conn' = conn
        BY <1>11, <2>2 DEF CloseOnMessage, kernel, t
    <3>2. eng'.batch = t.batch /\ t.deleting \subseteq eng'.deleting
        BY <1>1, <3>1, UnregisterRemembers, Distinct
    <3>3. QED
        BY <1>1, <3>1, <3>2 DEF Shrinks
  <2>3. QED
      BY <2>1, <2>2
<1>12. QED
    BY <1>3, <1>4, <1>5, <1>7, <1>8, <1>9, <1>10, <1>11 DEF Handle, Serves

LEMMA ErrorStep == IInv /\ ErrorIsReset /\ [Next]_vars => ErrorIsReset'
<1> SUFFICES ASSUME IInv, ErrorIsReset, [Next]_vars PROVE ErrorIsReset'
    OBVIOUS
<1> USE DEF IInv
<1>1. CASE StartFails \/ StartSucceeds
  <2>1. NewEngine(Event) \in Engine(Event) /\ NewEngine(Event).batch = {}
      BY NewEngineFacts DEF NewEngine
  <2>2. Register(NewEngine(Event), Sock, Write).batch = {}
      BY <2>1, RegisterRemembers, Distinct
  <2>3. eng'.batch = {}
      BY <1>1, <2>1, <2>2 DEF StartFails, StartSucceeds
  <2>4. QED
      BY <2>3 DEF ErrorIsReset
<1>2. CASE (\E m \in SendMsg : Send(m)) \/ Stop
  <2>1. PICK m \in Msg : PostMessage(m)
      BY <1>2 DEF Send, Stop, Msg
  <2>2. eng'.batch = eng.batch /\ eng'.deleting = eng.deleting
      BY <2>1, RegisterRemembers, Distinct DEF PostMessage, TypeOK
  <2>3. conn' = conn
      BY <1>2 DEF Send, Stop, kernel
  <2>4. QED
      BY <2>2, <2>3 DEF ErrorIsReset
<1>3. CASE Network
  <2>1. conn # "reset" /\ eng' = eng
      BY <1>3 DEF Network, Resolve, Drain, KernelOnly, Connected, Refused, PeerSends,
                  PeerShutsDown, PeerReads, PeerResets
  <2>2. QED
      BY <2>1 DEF ErrorIsReset
<1>4. CASE EpollWait
  <2>1. PICK S \in Answers(eng, Cond, MaxWait) : eng' = StartBatch(eng, S)
      BY <1>4 DEF EpollWait
  <2>2. eng'.batch = S
      BY <2>1 DEF StartBatch, TypeOK, Engine
  <2>3. \A x \in S : x.ev \in Event /\ x.flags \subseteq Cond[x.ev]
      BY DEF Answers, ReadyEntries, Reported, TypeOK, Engine
  <2>4. \A e \in {Sock, Cli} : "err" \in Cond[e] => conn = "reset"
      BY Distinct DEF Cond, SocketCond, RW, Read, Write
  <2>5. conn' = conn
      BY <1>4 DEF EpollWait, kernel
  <2>6. QED
      BY <2>2, <2>3, <2>4, <2>5 DEF ErrorIsReset
<1>5. CASE Finish
  <2>1. eng'.batch = {}
      BY <1>5 DEF Finish, EndBatch, TypeOK, Engine
  <2>2. QED
      BY <2>1 DEF ErrorIsReset
<1>6. ASSUME NEW x \in eng.batch, Handle(x)
      PROVE  ErrorIsReset'
  <2>1. /\ Shrinks
        /\ \/ conn' = conn
           \/ Sock \in eng'.deleting /\ Cli \notin eng.added
           \/ Cli \in eng'.deleting /\ Sock \notin eng.added
      BY <1>6, HandleShrinks
  <2>2. \A y \in eng.batch : y.ev \in eng.deleting \/ y.ev \in eng.added
      BY DEF EngineOK, NoStaleEntry
  <2>3. QED
      BY <2>1, <2>2 DEF ErrorIsReset, Shrinks
<1>7. CASE UNCHANGED vars
    BY <1>7 DEF vars, kernel, ErrorIsReset
<1>8. QED
    BY <1>1, <1>2, <1>3, <1>4, <1>5, <1>6, <1>7 DEF Next, Application, EventThread

-----------------------------------------------------------------------------
(* The order and the calls, while there is a client. *)

\* What the module keeps beside the client's own invariant while the client is there.
Playing == IInv /\ ErrorIsReset /\ OrderOK /\ CallsOK

LEMMA SameCalls ==
    ASSUME Playing, Ordered, msg' = msg, app' = app, running' = running, game' = game
    PROVE  OrderOK' /\ CallsOK'
<1>1. order' = order /\ OrderOK'
    BY OrderSame DEF Playing
<1>2. QED
    BY <1>1 DEF Playing, CallsOK

LEMMA StartupCalls ==
    ASSUME Playing, Ordered, Startup
    PROVE  OrderOK' /\ CallsOK'
<1>1. Begin /\ app' \in {"started", "failed"}
    BY DEF Startup, StartFails, StartSucceeds
<1>2. OrderOK' /\ order' = <<>> /\ \A k \in Msg : msg'[k] # "posted"
    BY <1>1, OrderLost DEF Playing, IInv
<1>3. game = "up" /\ game' = "up"
    BY DEF Startup, gameVars
<1>4. CloseMsg \in Msg
    BY DEF Msg
<1>5. msg'[CloseMsg] = "free"
    BY <1>1, <1>3, <1>4 DEF Playing, CallsOK, Begin
<1>6. QED
    BY <1>1, <1>2, <1>3, <1>5 DEF CallsOK

LEMMA LoginCalls ==
    ASSUME Playing, Ordered, NEW m \in SendMsg, Login(m)
    PROVE  OrderOK' /\ CallsOK'
<1>1. /\ m \in Msg /\ PostMessage(m) /\ app' = app
      /\ game = "up" /\ game' = "up"
    BY DEF Login, Send, gameVars, Msg
<1>2. OrderOK' /\ \A k \in Msg \ {m} : msg'[k] = msg[k]
    BY <1>1, OrderPost DEF Playing, IInv
<1>3. msg'[CloseMsg] = msg[CloseMsg]
    BY <1>2, Distinct DEF Msg
<1>4. QED
    BY <1>1, <1>2, <1>3 DEF Playing, CallsOK

LEMMA ExitCalls ==
    ASSUME Playing, Ordered, Exit
    PROVE  OrderOK' /\ CallsOK'
<1>1. /\ CloseMsg \in Msg /\ PostMessage(CloseMsg)
      /\ app' = "stopping" /\ game' = "exiting"
    BY DEF Exit, Stop, Msg
<1>2. OrderOK' /\ (msg'[CloseMsg] = "posted" => order' # <<>> /\ order'[Len(order')] = CloseMsg)
    BY <1>1, OrderPost DEF Playing, IInv
<1>3. QED
    BY <1>1, <1>2 DEF CallsOK

\* A message that is handled is posted, and it leaves the order.
LEMMA HandledMessage ==
    ASSUME Playing, Ordered, NEW x, NEW m \in Msg, Calls(x, m, "in"), m = Head(order), MsgDone(m)
    PROVE  /\ order # <<>> /\ order' = Tail(order) /\ OrderOK'
           /\ msg'[m] = "done"
           /\ \A k \in Msg \ {m} : msg'[k] = msg[k]
           /\ msg[m] = "posted"
<1>1. m \in eng.added
    BY CallFacts, Distinct DEF Playing
<1>2. msg[m] = "posted"
    BY <1>1 DEF Playing, IInv, MessageIsWatched
<1>3. TypeOK /\ OrderOK
    BY DEF Playing, IInv
<1>4. order # <<>> /\ order' = Tail(order) /\ OrderOK'
    BY <1>2, <1>3, OrderDone
<1>5. QED
    BY <1>2, <1>3, <1>4, MsgDoneType

LEMMA SendCalls ==
    ASSUME Playing, Ordered, NEW x, NEW m \in SendMsg, SendOnMessage(x, m), x.ev = Head(order),
           game' = game
    PROVE  OrderOK' /\ CallsOK'
<1>1. m \in Msg /\ CloseMsg \in Msg \ {m} /\ Calls(x, m, "in") /\ m = Head(order) /\ MsgDone(m)
      /\ app' = app
    BY Distinct DEF SendOnMessage, Calls, Msg
<1>2. /\ order # <<>> /\ order' = Tail(order) /\ OrderOK'
      /\ msg'[CloseMsg] = msg[CloseMsg]
    BY <1>1, HandledMessage
<1>3. app' # "stopped"
    BY <1>1, <1>2 DEF Playing, CallsOK
<1>4. ASSUME msg'[CloseMsg] = "posted"
      PROVE  order' # <<>> /\ order'[Len(order')] = CloseMsg
  <2>1. order[Len(order)] = CloseMsg /\ order[1] = m /\ order \in Seq(Msg) /\ IsInjective(order)
      BY <1>1, <1>2, <1>4 DEF Playing, CallsOK, OrderOK
  <2>2. Len(order) \in Nat /\ Len(order) > 1
      BY <1>1, <1>2, <2>1
  <2>3. /\ Len(order') = Len(order) - 1 /\ order' \in Seq(Msg)
        /\ order'[Len(order) - 1] = order[(Len(order) - 1) + 1]
      BY <1>2, <2>1, <2>2, TailOK
  <2>4. (Len(order) - 1) + 1 = Len(order)
      BY <2>2
  <2>5. QED
      BY <2>1, <2>2, <2>3, <2>4
<1>5. QED
    BY <1>1, <1>2, <1>3, <1>4 DEF Playing, CallsOK

LEMMA CloseCalls ==
    ASSUME Playing, Ordered, NEW x, CloseOnMessage(x), x.ev = Head(order),
           game \in {"up", "exiting"}, game' = game
    PROVE  OrderOK' /\ CallsOK'
<1>1. /\ CloseMsg \in Msg /\ Calls(x, CloseMsg, "in") /\ CloseMsg = Head(order)
      /\ MsgDone(CloseMsg) /\ app' = "stopped" /\ running'
    BY DEF CloseOnMessage, Calls, Msg
<1>2. /\ order # <<>> /\ order' = Tail(order) /\ OrderOK'
      /\ msg'[CloseMsg] = "done" /\ msg[CloseMsg] = "posted"
    BY <1>1, HandledMessage
<1>3. game' = "exiting"
    BY <1>2 DEF Playing, CallsOK
<1>4. order' = <<>>
  <2>1. order[Len(order)] = CloseMsg /\ order[1] = CloseMsg /\ order \in Seq(Msg) /\ IsInjective(order)
      BY <1>1, <1>2 DEF Playing, CallsOK, OrderOK
  <2>2. Len(order) \in Nat /\ Len(order) > 0 /\ DOMAIN order = 1..Len(order)
      BY <1>2, <2>1
  <2>3. Len(order) = 1
      BY <2>1, <2>2 DEF IsInjective
  <2>4. Len(Tail(order)) = 0 /\ Tail(order) \in Seq(Msg)
      BY <1>2, <2>1, <2>3, TailOK
  <2>5. QED
      BY <1>2, <2>4
<1>5. QED
    BY <1>1, <1>2, <1>3, <1>4 DEF CallsOK

\* The event thread, message events in the order in which they were posted.
LEMMA ThreadCalls ==
    ASSUME Playing, Ordered, GameThread, game \in {"up", "exiting"}
    PROVE  OrderOK' /\ CallsOK' /\ [Next]_vars
<1>1. game' = game
    BY DEF GameThread, gameVars
<1>2. CASE EpollWait \/ Finish
  <2>1. msg' = msg /\ app' = app /\ running' = running
      BY <1>2 DEF EpollWait, Finish
  <2>2. QED
      BY <1>1, <1>2, <2>1, SameCalls DEF Next, EventThread
<1>3. ASSUME NEW x \in eng.batch, x.ev \in Msg => x.ev = Head(order), Serves(x)
      PROVE  OrderOK' /\ CallsOK' /\ [Next]_vars
  <2>1. Next
      BY <1>3 DEF Next, EventThread, Handle
  <2>2. CASE \E m \in SendMsg : SendOnMessage(x, m)
    <3>1. PICK m \in SendMsg : SendOnMessage(x, m)
        BY <2>2
    <3>2. x.ev = Head(order)
        BY <1>3, <3>1 DEF SendOnMessage, Calls, Msg
    <3>3. QED
        BY <1>1, <2>1, <3>1, <3>2, SendCalls
  <2>3. CASE CloseOnMessage(x)
    <3>1. x.ev = Head(order)
        BY <1>3, <2>3 DEF CloseOnMessage, Calls, Msg
    <3>2. QED
        BY <1>1, <2>1, <2>3, <3>1, CloseCalls
  <2>4. CASE \/ Ignore(x) \/ SockOnWrite(x) \/ SockOnError(x)
             \/ CliOnError(x) \/ CliOnRead(x) \/ CliOnWrite(x)
    <3>1. msg' = msg /\ app' = app /\ running' = running
        BY <2>4 DEF Ignore, SockOnWrite, SockOnError, CliOnError, CliOnRead, CliOnWrite
    <3>2. QED
        BY <1>1, <2>1, <3>1, SameCalls
  <2>5. QED
      BY <1>3, <2>2, <2>3, <2>4 DEF Serves
<1>4. QED
    BY <1>2, <1>3 DEF GameThread, OnParsePacket

\* Every step that keeps the client is a step of the client.
LEMMA PlayingStep ==
    ASSUME GInv, GameNext, game \in {"up", "exiting"}, game' \in {"up", "exiting"}
    PROVE  Playing'
<1>1. Ordered /\ Playing
    BY DEF GameNext, GInv, Playing
<1>2. SUFFICES OrderOK' /\ CallsOK' /\ [Next]_vars
    BY <1>1, NextIInv, ErrorStep DEF Playing
<1>3. CASE Startup
    BY <1>1, <1>3, StartupCalls DEF Startup, Next, Application
<1>4. ASSUME NEW m \in SendMsg, Login(m) PROVE OrderOK' /\ CallsOK' /\ [Next]_vars
    BY <1>1, <1>4, LoginCalls DEF Login, Next, Application
<1>5. CASE Exit
    BY <1>1, <1>5, ExitCalls DEF Exit, Next, Application
<1>6. CASE SetServer \/ Unfinished
  <2>1. UNCHANGED vars /\ game' = game
      BY <1>6 DEF SetServer, Unfinished, gameVars
  <2>2. msg' = msg /\ app' = app /\ running' = running
      BY <2>1 DEF vars
  <2>3. QED
      BY <1>1, <2>1, <2>2, SameCalls
<1>7. CASE GameNetwork(Network)
  <2>1. Network /\ game' = game
      BY <1>7 DEF GameNetwork, gameVars
  <2>2. msg' = msg /\ app' = app /\ running' = running
      BY <2>1 DEF Network, Resolve, Drain, KernelOnly
  <2>3. QED
      BY <1>1, <2>1, <2>2, SameCalls DEF Next
<1>8. CASE GameThread
    BY <1>1, <1>8, ThreadCalls
<1>9. CASE StartupAgain \/ Exiting
    BY <1>9 DEF StartupAgain, Exiting, DestroyClient, Join
<1>10. CASE ThreadQuits
    BY <1>10 DEF ThreadQuits, GInv
<1>11. QED
    BY <1>3, <1>4, <1>5, <1>6, <1>7, <1>8, <1>9, <1>10 DEF GameNext

-----------------------------------------------------------------------------
(* The end. *)

\* ~CClient finds everything handled, so that with nothing open nothing is registered.
LEMMA DestructionEnds ==
    ASSUME GInv, DestroyClient, game' = "dying"
    PROVE  Ended'
<1>1. Playing /\ app = "stopped" /\ sock = "null" /\ nFD = NoFD /\ eng' = eng /\ conn' = conn
    BY DEF DestroyClient, GInv, Playing, kernel
<1>2. order = <<>>
    BY <1>1 DEF Playing, CallsOK
<1>3. \A m \in Msg : msg[m] # "posted"
    BY <1>1, <1>2 DEF Playing, OrderOK, Range
<1>4. Sock \notin eng.added /\ Cli \notin eng.added /\ \A m \in Msg : m \notin eng.added
    BY <1>1, <1>3 DEF Playing, IInv, AttemptIsWatched, InterestFollowsQueue, MessageIsWatched
<1>5. eng \in Engine(Event) /\ EngineOK(eng) /\ conn \in {"none", "closed"}
    BY <1>1 DEF Playing, IInv, TypeOK, OneOwner
<1>6. eng.added = {}
    BY <1>4, <1>5 DEF Engine, Event
<1>7. QED
    BY <1>1, <1>5, <1>6 DEF Ended

\* The thread that goes on looks at what is left of its batch, and ignores it.
LEMMA EndedStep ==
    ASSUME GInv, GameNext, game \in {"dying", "exited"}
    PROVE  Ended' /\ dropped' = dropped
<1>1. Ended
    BY DEF GInv
<1>2. CASE UNCHANGED <<eng, conn, dropped>>
    BY <1>1, <1>2 DEF Ended
<1>3. CASE ThreadQuits \/ Join
    BY <1>2, <1>3 DEF ThreadQuits, Join, kernel
<1>4. CASE GameNetwork(Network)
  <2>1. conn \in {"connecting", "up"}
      BY <1>4 DEF GameNetwork, Network, Resolve, Drain, Connected, Refused, PeerSends,
                  PeerShutsDown, PeerReads, PeerResets
  <2>2. QED
      BY <1>1, <2>1 DEF Ended
<1>5. CASE GameThread
  <2>1. CASE EpollWait
    <3>1. PICK S \in Answers(eng, Cond, MaxWait) : eng' = StartBatch(eng, S)
        BY <2>1 DEF EpollWait
    <3>2. S \subseteq ReadyEntries(eng, Cond) /\ S # {}
        BY DEF Answers
    <3>3. ReadyEntries(eng, Cond) = {}
        BY <1>1 DEF Ended, ReadyEntries
    <3>4. QED
        BY <3>2, <3>3
  <2>2. CASE Finish
    <3>1. /\ eng' = EndBatch(eng) /\ eng.batch = {}
          /\ conn' = conn /\ dropped' = dropped
        BY <2>2 DEF Finish, kernel
    <3>2. eng' \in Engine(Event) /\ EngineOK(eng') /\ eng'.added = eng.added
      <4>1. EngineOK(eng') /\ eng' \in Engine(Event)
          BY <1>1, <3>1, LoopKeepsOK, BatchType DEF Ended
      <4>2. QED
          BY <1>1, <3>1, <4>1 DEF EndBatch, Engine, Ended
    <3>3. QED
        BY <1>1, <3>1, <3>2 DEF Ended
  <2>3. ASSUME NEW x \in eng.batch, Serves(x)
        PROVE  Ended' /\ dropped' = dropped
    <3>1. x.ev \in eng.deleting /\ eng.onEvent
        BY <1>1 DEF Ended, EngineOK, NoStaleEntry, BatchScoped
    <3>2. \A e, flag : ~Calls(x, e, flag)
        BY <3>1 DEF Calls
    <3>3. Ignore(x)
        BY <2>3, <3>2 DEF Serves, SockOnWrite, SockOnError, CliOnError, CliOnRead, CliOnWrite,
                          SendOnMessage, CloseOnMessage
    <3>4. eng' = Take(eng, x) /\ conn' = conn /\ dropped' = dropped
        BY <3>3 DEF Ignore, kernel
    <3>5. eng' \in Engine(Event) /\ EngineOK(eng') /\ eng'.added = eng.added
        BY <1>1, <3>1, <3>4, LoopKeepsOK, TakeType, TakeFields DEF Ended
    <3>6. QED
        BY <1>1, <3>4, <3>5 DEF Ended
  <2>4. QED
      BY <1>5, <2>1, <2>2, <2>3 DEF GameThread, OnParsePacket
<1>6. QED
    BY <1>3, <1>4, <1>5
       DEF GameNext, SetServer, Startup, StartupAgain, Login, Unfinished, Exit, Exiting, DestroyClient

\* The handlers that report a lost connection have seen the error or the end of the
\* stream.
LEMMA DropSeen ==
    ASSUME IInv, ErrorIsReset, NEW x \in eng.batch, Serves(x), dropped' # dropped
    PROVE  fin \/ conn = "reset"
<1>1. CASE CliOnError(x)
  <2>1. x.ev = Cli /\ Cli \notin eng.deleting
      BY <1>1 DEF CliOnError, Calls
  <2>2. "err" \in x.flags
      BY <1>1 DEF CliOnError, Calls
  <2>3. QED
      BY <2>1, <2>2 DEF ErrorIsReset
<1>2. CASE CliOnRead(x) \/ CliOnWrite(x)
    BY <1>2 DEF CliOnRead, CliOnWrite
<1>3. CASE \/ Ignore(x) \/ SockOnWrite(x) \/ SockOnError(x) \/ CloseOnMessage(x)
           \/ \E m \in SendMsg : SendOnMessage(x, m)
    BY <1>3 DEF Ignore, SockOnWrite, SockOnError, CloseOnMessage, SendOnMessage
<1>4. QED
    BY <1>1, <1>2, <1>3 DEF Serves

LEMMA StepOnlyPeerEnds ==
    ASSUME GInv, GameNext, dropped' # dropped
    PROVE  fin \/ conn = "reset"
<1>1. CASE GameThread
  <2>1. game \in {"up", "exiting", "dying"}
      BY <1>1 DEF GameThread, Alive, GInv
  <2>2. CASE game = "dying"
      BY <2>2, EndedStep
  <2>3. CASE game \in {"up", "exiting"}
    <3>1. IInv /\ ErrorIsReset
        BY <2>3 DEF GInv
    <3>2. PICK x \in eng.batch : Serves(x)
        BY <1>1 DEF GameThread, OnParsePacket, EpollWait, Finish
    <3>3. QED
        BY <3>1, <3>2, DropSeen
  <2>4. QED
      BY <2>1, <2>2, <2>3
<1>2. QED
    BY <1>1
       DEF GameNext, SetServer, Startup, StartFails, StartSucceeds, StartupAgain, Login, Send,
           Unfinished, Exit, Stop, Exiting, DestroyClient, Join, ThreadQuits,
           GameNetwork, Network, Resolve, Drain, KernelOnly, vars

-----------------------------------------------------------------------------
LEMMA InitGInv == GameInit => GInv
<1> SUFFICES ASSUME GameInit PROVE GInv
    OBVIOUS
<1>1. IInv
    BY InitIInv DEF GameInit
<1>2. /\ eng = NewEngine(Event) /\ order = <<>> /\ app = "new" /\ game = "up" /\ ~quit
      /\ msg = [m \in Msg |-> "free"] /\ dropped = 0
    BY DEF GameInit, Init
<1>3. ErrorIsReset
    BY <1>2 DEF ErrorIsReset, NewEngine
<1>4. OrderOK
    BY <1>2 DEF OrderOK, IsInjective, Range
<1>5. CallsOK
    BY <1>2 DEF CallsOK, Msg
<1>6. QED
    BY <1>1, <1>2, <1>3, <1>4, <1>5 DEF GInv

LEMMA StepGInv == GInv /\ [GameNext]_allVars => GInv'
<1> SUFFICES ASSUME GInv, [GameNext]_allVars PROVE GInv'
    OBVIOUS
<1>1. CASE UNCHANGED allVars
    BY <1>1 DEF allVars, gameVars, vars, client, kernel, GInv, IInv, TypeOK, EngineOK,
                AttemptIsWatched, InterestFollowsQueue, MessageIsWatched, OneOwner, HandedOver,
                DroppedOnce, NothingBeforeStart, ErrorIsReset, OrderOK, CallsOK, Ended
<1>2. CASE GameNext
  <2>1. /\ game' \in {"up", "doubled", "exiting", "dying", "aborted", "exited"}
        /\ quit' => game' = "dying" /\ running'
        /\ game' \in {"up", "exiting"} => game \in {"up", "exiting"}
        /\ game' = "exited" => game \in {"dying", "exited"}
        /\ game' = "dying" => game = "dying" \/ DestroyClient
    <3> USE DEF GInv, gameVars
    <3>1. CASE SetServer \/ Unfinished \/ StartupAgain \/ Exit
        BY <3>1 DEF SetServer, Unfinished, StartupAgain, Exit
    <3>2. CASE Startup \/ \E m \in SendMsg : Login(m)
        BY <3>2 DEF Startup, Login
    <3>3. CASE DestroyClient
      <4>1. app = "stopped" /\ game = "exiting" /\ running' = running
          BY <3>3 DEF DestroyClient
      <4>2. running
          BY <4>1 DEF CallsOK
      <4>3. QED
          BY <3>3, <4>1, <4>2 DEF DestroyClient
    <3>4. CASE ThreadQuits \/ Join
        BY <3>4 DEF ThreadQuits, Join
    <3>5. CASE GameThread \/ GameNetwork(Network)
      <4>1. running' = running
          BY <3>5 DEF GameThread, OnParsePacket, EpollWait, Finish, Serves, Ignore, SockOnWrite,
                      SockOnError, CliOnError, CliOnRead, CliOnWrite, SendOnMessage,
                      CloseOnMessage, GameNetwork, Network, Resolve, Drain, KernelOnly
      <4>2. QED
          BY <3>5, <4>1 DEF GameThread, GameNetwork
    <3>6. QED
        BY <1>2, <3>1, <3>2, <3>3, <3>4, <3>5 DEF GameNext, Exiting
  <2>2. game' \in {"up", "exiting"} => Playing'
      BY <1>2, <2>1, PlayingStep
  <2>3. game' \in {"dying", "exited"} => Ended'
      BY <1>2, <2>1, EndedStep, DestructionEnds
  <2>4. dropped' \in Nat
    <3>1. CASE game' \in {"up", "exiting"}
        BY <2>2, <3>1 DEF Playing, IInv, TypeOK
    <3>2. CASE game \in {"dying", "exited"}
        BY <1>2, <3>2, EndedStep DEF GInv
    <3>3. CASE game' \notin {"up", "exiting"} /\ game \notin {"dying", "exited"}
      <4>1. dropped' = dropped
          BY <1>2, <3>3 DEF GameNext, SetServer, Startup, StartupAgain, Login, Unfinished, Exit,
                  Exiting, DestroyClient, Join, ThreadQuits, GameThread, GameNetwork, gameVars,
                  Alive, GInv, vars
      <4>2. QED
          BY <4>1 DEF GInv
    <3>4. QED
        BY <2>1, <3>1, <3>2, <3>3
  <2>5. QED
      BY <2>1, <2>2, <2>3, <2>4 DEF GInv, Playing
<1>3. QED
    BY <1>1, <1>2

\* Whatever requests have been logged in, once ~CClient has begun nothing is registered
\* and the rest of the batch is ignored: UM_CLOSE is the last message, so everything
\* posted has been handled when Stop returns (Game.cpp:10-13, Client.cpp:25-36).
THEOREM NothingRunsAfterDestruction == GameSpec => []NoCallAfterDestruction
<1>1. GInv => NoCallAfterDestruction
    BY DEF GInv, Ended, EngineOK, NoStaleEntry, NoCallAfterDestruction
<1>2. QED
    BY <1>1, InitGInv, StepGInv, PTL DEF GameSpec

\* A running game loses an established connection only to the peer or the network:
\* CGame takes every packet, and an error in a batch is still there when its entry is
\* handled (Game.cpp:115-118, Client.cpp:119-143, 226-257).
THEOREM GameEndsNoConnection == GameSpec => OnlyPeerEnds
<1>1. GInv /\ [GameNext]_allVars => (dropped' > dropped => fin \/ conn = "reset")
  <2> SUFFICES ASSUME GInv, [GameNext]_allVars, dropped' > dropped PROVE fin \/ conn = "reset"
      OBVIOUS
  <2>1. dropped' # dropped
      BY DEF GInv
  <2>2. GameNext
      BY <2>1 DEF allVars, vars
  <2>3. QED
      BY <2>1, <2>2, StepOnlyPeerEnds
<1>2. QED
    BY <1>1, InitGInv, StepGInv, PTL DEF GameSpec, OnlyPeerEnds

===============================================================================
