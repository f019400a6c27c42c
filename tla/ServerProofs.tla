------------------------------ MODULE ServerProofs ------------------------------
(***************************************************************************)
(* For any number of clients and any size of the descriptor table: each      *)
(* descriptor of the game server stands for the link that has it, and the    *)
(* server gives up broken connections only.                                  *)
(***************************************************************************)
EXTENDS Server, EventEngineProofs

\* A connection waits once, and has neither link nor descriptor while it does.
Waiting ==
    /\ \A i, j \in 1..Len(backlog) : backlog[i] = backlog[j] => i = j
    /\ \A i \in 1..Len(backlog) : nFD[backlog[i]] = NoFD /\ tcp[backlog[i]] \in {"open", "reset"}

\* The connection of a link exists, if broken perhaps, and an error that the batch
\* reports has happened.
LinkLive ==
    /\ \A c \in Conn : nFD[c] # NoFD => tcp[c] \in {"open", "reset"}
    /\ \A x \in eng.batch :
          x.ev \in Conn /\ "err" \in x.flags => tcp[x.ev] \in {"reset", "closed"}

IInv == TypeOK /\ EngineOK(eng) /\ Waiting /\ LinkLive /\ OneOwner

LEMMA Distinct ==
    /\ Listener \in Event /\ Listener \notin Conn /\ Conn \subseteq Event
    /\ Free \notin Conn /\ NoFD \notin Table
    /\ Read \in SUBSET RW
BY ServerAssumption DEF Event, NoFD, Table, Read, RW

LEMMA WatchFacts ==
    ASSUME NEW g \in Engine(Event), EngineOK(g), NEW e \in Event
    PROVE  /\ Register(g, e, Read) \in Engine(Event)
           /\ EngineOK(Register(g, e, Read))
           /\ Register(g, e, Read).added = g.added \cup {e}
           /\ Register(g, e, Read).batch = g.batch
<1>1. Register(g, e, Read) \in Engine(Event)
    BY Distinct, RegisterType
<1>2. EngineOK(Register(g, e, Read))
    BY RegisterKeepsOK
<1>3. /\ Register(g, e, Read).added = g.added \cup {e}
      /\ Register(g, e, Read).batch = g.batch
    BY DEF Register, Engine
<1>4. QED
    BY ONLY <1>1, <1>2, <1>3

LEMMA InitIInv == Init => IInv
<1> SUFFICES ASSUME Init PROVE IInv
    OBVIOUS
<1>1. eng \in Engine(Event) /\ EngineOK(eng) /\ eng.added = {} /\ eng.batch = {}
    BY DEF Init, NewEngine, Engine, EngineOK, NoStaleEntry, BatchScoped, MaskScoped
<1>2. TypeOK
    BY <1>1 DEF Init, TypeOK
<1>3. Waiting /\ LinkLive /\ OneOwner
    BY <1>1, Distinct DEF Init, Waiting, LinkLive, OneOwner
<1>4. QED
    BY <1>1, <1>2, <1>3 DEF IInv

\* The entry a handler is called for is of a registered event, and moving on to it
\* leaves the rest of the engine as it is.
LEMMA CallFacts ==
    ASSUME IInv, NEW x, NEW e \in Event, NEW flag, Calls(x, e, flag)
    PROVE  /\ e \in eng.added
           /\ Take(eng, x) \in Engine(Event)
           /\ EngineOK(Take(eng, x))
           /\ Take(eng, x).added = eng.added
           /\ Take(eng, x).batch \subseteq eng.batch
<1>1. eng \in Engine(Event) /\ EngineOK(eng) /\ x \in eng.batch
    BY DEF IInv, TypeOK, Calls
<1>2. e \in eng.added /\ eng.onEvent
    BY <1>1 DEF Calls, EngineOK, NoStaleEntry, BatchScoped
<1>3. Take(eng, x).batch \subseteq eng.batch
    BY <1>1 DEF Take, Engine
<1>4. QED
    BY <1>1, <1>2, <1>3, TakeType, TakeFields, LoopKeepsOK

\* What the other parts of the invariant need to know of a step of the engine that
\* registers nobody and takes nobody out.
LEMMA QuietIInv ==
    ASSUME IInv, eng' \in Engine(Event), EngineOK(eng'), eng'.added = eng.added,
           \A x \in eng'.batch :
              x.ev \in Conn /\ "err" \in x.flags => tcp[x.ev] \in {"reset", "closed"},
           app' \in {"new", "serving", "returned", "aborted"},
           UNCHANGED <<nFD, table, net, backlog>>
    PROVE  IInv'
<1>1. UNCHANGED <<nFD, table, tcp, readable, backlog>>
    BY DEF net
<1>2. TypeOK'
    BY <1>1 DEF IInv, TypeOK
<1>3. Waiting'
    BY <1>1 DEF IInv, Waiting
<1>4. LinkLive' /\ OneOwner'
    BY <1>1 DEF IInv, LinkLive, OneOwner
<1>5. QED
    BY <1>2, <1>3, <1>4 DEF IInv

LEMMA StartIInv == ASSUME IInv, StartFails \/ StartSucceeds PROVE IInv'
<1>1. CASE StartFails
    BY <1>1, QuietIInv DEF StartFails, IInv, TypeOK, LinkLive
<1>2. CASE StartSucceeds
  <2>1. /\ eng' \in Engine(Event) /\ EngineOK(eng')
        /\ eng'.added = eng.added \cup {Listener} /\ eng'.batch = eng.batch
      BY <1>2, Distinct, WatchFacts DEF StartSucceeds, IInv, TypeOK
  <2>2. QED
      BY <1>2, <2>1, Distinct
         DEF StartSucceeds, IInv, TypeOK, Waiting, LinkLive, OneOwner, net
<1>3. QED
    BY <1>1, <1>2

LEMMA ClientIInv ==
    ASSUME IInv, NEW c \in Conn, Arrive(c) \/ Speak(c) \/ Reset(c) PROVE IInv'
<1> USE DEF IInv, TypeOK
<1>1. CASE Arrive(c)
  <2>1. /\ backlog' \in Seq(Conn) /\ Len(backlog') = Len(backlog) + 1 /\ Len(backlog) \in Nat
        /\ backlog'[Len(backlog) + 1] = c
        /\ \A i \in 1..Len(backlog) : backlog'[i] = backlog[i] /\ backlog[i] \in Conn
      BY <1>1 DEF Arrive
  <2>2. tcp' = [tcp EXCEPT ![c] = "open"] /\ tcp[c] = "none" /\ nFD[c] = NoFD
        /\ UNCHANGED <<app, eng, nFD, table, readable>>
      BY <1>1 DEF Arrive, LinkLive
  <2>3. \A i \in 1..Len(backlog) : backlog[i] # c
      BY <2>2 DEF Waiting
  <2>4. Waiting'
    <3>1. \A i \in 1..Len(backlog') : nFD[backlog'[i]] = NoFD /\ tcp'[backlog'[i]] \in {"open", "reset"}
        BY <2>1, <2>2, <2>3 DEF Waiting
    <3>2. \A i, j \in 1..Len(backlog') : backlog'[i] = backlog'[j] => i = j
        BY <2>1, <2>3 DEF Waiting
    <3>3. QED
        BY <2>2, <3>1, <3>2 DEF Waiting
  <2>5. LinkLive' /\ OneOwner'
      BY <2>2 DEF LinkLive, OneOwner
  <2>6. QED
      BY <2>1, <2>2, <2>4, <2>5
<1>2. CASE Speak(c)
    BY <1>2 DEF Speak, Waiting, LinkLive, OneOwner
<1>3. CASE Reset(c)
    BY <1>3 DEF Reset, Waiting, LinkLive, OneOwner
<1>4. QED
    BY <1>1, <1>2, <1>3

LEMMA LoopIInv == ASSUME IInv, EpollWait \/ Finish PROVE IInv'
<1>1. CASE EpollWait
  <2>1. PICK S \in Answers(eng, Cond, MaxWait) : eng' = StartBatch(eng, S)
      BY <1>1 DEF EpollWait
  <2>2. S \in SUBSET Entry(Event) /\ EngineOK(eng')
      BY <1>1, <2>1, AnswersStartBatch DEF EpollWait, IInv, TypeOK
  <2>3. eng' \in Engine(Event) /\ eng'.added = eng.added /\ eng'.batch = S
      BY <2>1, <2>2, BatchType DEF IInv, TypeOK, StartBatch, Engine
  <2>4. \A x \in S : x.ev \in Conn /\ "err" \in x.flags => tcp[x.ev] = "reset"
    <3>1. ASSUME NEW x \in S, x.ev \in Conn, "err" \in x.flags PROVE tcp[x.ev] = "reset"
      <4>1. x.ev \in Event /\ x.flags = Reported(eng, x.ev, Cond[x.ev])
          BY <3>1, Distinct DEF Answers, ReadyEntries
      <4>2. "err" \in Cond[x.ev]
          BY <3>1, <4>1 DEF Reported
      <4>3. x.ev # Listener /\ "err" \notin Read
          BY <3>1, Distinct DEF Read
      <4>4. QED
          BY <4>1, <4>2, <4>3 DEF Cond
    <3>2. QED
        BY <3>1
  <2>5. QED
      BY <1>1, <2>2, <2>3, <2>4, QuietIInv DEF EpollWait
<1>2. CASE Finish
  <2>1. /\ eng' \in Engine(Event) /\ EngineOK(eng')
        /\ eng'.added = eng.added /\ eng'.batch = eng.batch
      BY <1>2, BatchType, LoopKeepsOK DEF Finish, IInv, TypeOK, EndBatch, Engine
  <2>2. QED
      BY <1>2, <2>1, QuietIInv DEF Finish, IInv, LinkLive
<1>3. QED
    BY <1>1, <1>2

\* Handlers after which the links are what they were.
LEMMA IdleIInv ==
    ASSUME IInv, NEW x,
           AcceptFails(x) \/ Abort(x) \/ \E c \in Conn : LinkOnRead(x, c)
    PROVE  IInv'
<1>1. CASE Abort(x)
    BY <1>1, QuietIInv DEF Abort, IInv, TypeOK, LinkLive
<1>2. ASSUME NEW e \in Event, NEW flag, Calls(x, e, flag), eng' = Take(eng, x),
             UNCHANGED <<app, nFD, table, net, backlog>>
      PROVE  IInv'
    BY <1>2, CallFacts, QuietIInv DEF IInv, TypeOK, LinkLive
<1>3. QED
    BY <1>1, <1>2, Distinct DEF AcceptFails, LinkOnRead

\* What taking the first connection from the backlog leaves there.
LEMMA TailFacts ==
    ASSUME IInv, backlog # <<>>
    PROVE  /\ Head(backlog) \in Conn /\ nFD[Head(backlog)] = NoFD
           /\ tcp[Head(backlog)] \in {"open", "reset"}
           /\ Tail(backlog) \in Seq(Conn) /\ Len(Tail(backlog)) \in Nat
           /\ \A i, j \in 1..Len(Tail(backlog)) :
                 Tail(backlog)[i] = Tail(backlog)[j] => i = j
           /\ \A i \in 1..Len(Tail(backlog)) :
                 /\ Tail(backlog)[i] \in Conn
                 /\ Tail(backlog)[i] # Head(backlog)
                 /\ nFD[Tail(backlog)[i]] = NoFD
                 /\ tcp[Tail(backlog)[i]] \in {"open", "reset"}
<1>1. /\ backlog \in Seq(Conn) /\ Len(backlog) \in Nat /\ Len(backlog) > 0
      /\ Head(backlog) = backlog[1] /\ backlog[1] \in Conn
      /\ Tail(backlog) \in Seq(Conn) /\ Len(Tail(backlog)) = Len(backlog) - 1
      /\ \A i \in 1..(Len(backlog) - 1) :
            Tail(backlog)[i] = backlog[i + 1] /\ backlog[i + 1] \in Conn
    BY DEF IInv, TypeOK
<1>2. \A i, j \in 1..Len(backlog) : backlog[i] = backlog[j] => i = j
    BY DEF IInv, Waiting
<1>3. \A i \in 1..Len(backlog) : nFD[backlog[i]] = NoFD /\ tcp[backlog[i]] \in {"open", "reset"}
    BY DEF IInv, Waiting
<1>4. 1 \in 1..Len(backlog) /\ \A i \in 1..Len(Tail(backlog)) :
          i + 1 \in 1..Len(backlog) /\ i + 1 # 1 /\ i \in 1..(Len(backlog) - 1)
    BY <1>1
<1>5. QED
    BY <1>1, <1>2, <1>3, <1>4

LEMMA AcceptIInv == ASSUME IInv, NEW x, Accept(x) PROVE IInv'
<1> DEFINE c == Head(backlog)
           g == Take(eng, x)
<1>1. PICK f \in FreeFDs : /\ table' = [table EXCEPT ![f] = c]
                           /\ nFD' = [nFD EXCEPT ![c] = f]
                           /\ eng' = Register(g, c, Read)
    BY DEF Accept
<1>2. backlog # <<>> /\ backlog' = Tail(backlog) /\ UNCHANGED <<app, net>>
    BY DEF Accept
<1>3. /\ c \in Conn /\ c \in Event /\ nFD[c] = NoFD /\ f \in Table /\ table[f] = Free
      /\ f # NoFD
    BY <1>1, <1>2, TailFacts, Distinct DEF FreeFDs
<1>4. /\ Listener \in eng.added /\ g \in Engine(Event) /\ EngineOK(g)
      /\ g.added = eng.added /\ g.batch \subseteq eng.batch
    BY CallFacts, Distinct DEF Accept
<1>5. /\ eng' \in Engine(Event) /\ EngineOK(eng')
      /\ eng'.added = eng.added \cup {c} /\ eng'.batch \subseteq eng.batch
  <2> HIDE DEF g, c
  <2>1. QED
      BY <1>1, <1>3, <1>4, WatchFacts
<1> HIDE DEF g
<1>6. TypeOK'
    BY <1>1, <1>2, <1>3, <1>5, TailFacts DEF IInv, TypeOK, net
<1>7. Waiting'
    BY <1>1, <1>2, <1>3, TailFacts DEF IInv, TypeOK, Waiting, net
<1>8. tcp[c] \in {"open", "reset"}
    BY <1>2, TailFacts
<1>9. LinkLive'
    BY <1>1, <1>2, <1>3, <1>5, <1>8 DEF IInv, TypeOK, LinkLive, net
<1>10. OneOwner'
    BY <1>1, <1>3, <1>5, Distinct DEF IInv, TypeOK, OneOwner
<1>11. QED
    BY <1>5, <1>6, <1>7, <1>9, <1>10 DEF IInv

\* The link cannot be had: the connection is closed and leaves the backlog.
LEMMA DeclineIInv == ASSUME IInv, NEW x, Decline(x) PROVE IInv'
<1> DEFINE c == Head(backlog)
<1>1. /\ backlog # <<>> /\ backlog' = Tail(backlog) /\ tcp' = [tcp EXCEPT ![c] = "closed"]
      /\ eng' = Take(eng, x) /\ UNCHANGED <<app, nFD, table, readable>>
    BY DEF Decline
<1>2. c \in Conn /\ nFD[c] = NoFD
    BY <1>1, TailFacts
<1>3. /\ eng' \in Engine(Event) /\ EngineOK(eng')
      /\ eng'.added = eng.added /\ eng'.batch \subseteq eng.batch
    BY <1>1, CallFacts, Distinct DEF Decline
<1>4. TypeOK'
    BY <1>1, <1>2, <1>3, TailFacts DEF IInv, TypeOK
<1>5. Waiting'
    BY <1>1, <1>2, TailFacts DEF IInv, TypeOK, Waiting
<1>6. LinkLive' /\ OneOwner'
    BY <1>1, <1>2, <1>3 DEF IInv, TypeOK, LinkLive, OneOwner
<1>7. QED
    BY <1>3, <1>4, <1>5, <1>6 DEF IInv

\* An error is reported of a link that is there and whose connection is broken.
LEMMA ErrorIsReset ==
    ASSUME IInv, NEW x, NEW c \in Conn, Calls(x, c, "err")
    PROVE  nFD[c] \in Table /\ table[nFD[c]] = c /\ tcp[c] = "reset"
<1>1. c \in eng.added
    BY CallFacts, Distinct
<1>2. nFD[c] # NoFD /\ nFD[c] \in Table /\ table[nFD[c]] = c
    BY <1>1 DEF IInv, TypeOK, OneOwner
<1>3. x \in eng.batch /\ x.ev = c /\ "err" \in x.flags
    BY DEF Calls
<1>4. QED
    BY <1>2, <1>3 DEF IInv, LinkLive

LEMMA LinkOnErrorIInv == ASSUME IInv, NEW x, NEW c \in Conn, LinkOnError(x, c) PROVE IInv'
<1> DEFINE g == Take(eng, x)
<1>1. /\ Calls(x, c, "err") /\ eng' = Unregister(g, c)
      /\ table' = [table EXCEPT ![nFD[c]] = Free] /\ tcp' = [tcp EXCEPT ![c] = "closed"]
      /\ nFD' = [nFD EXCEPT ![c] = NoFD] /\ UNCHANGED <<app, readable, backlog>>
    BY DEF LinkOnError
<1>2. nFD[c] \in Table /\ table[nFD[c]] = c /\ nFD[c] # NoFD
    BY <1>1, ErrorIsReset, Distinct
<1>3. g \in Engine(Event) /\ EngineOK(g) /\ g.added = eng.added /\ g.batch \subseteq eng.batch
    BY <1>1, CallFacts, Distinct
<1>4. /\ eng' \in Engine(Event) /\ EngineOK(eng')
      /\ eng'.added = eng.added \ {c} /\ eng'.batch \subseteq eng.batch
  <2> HIDE DEF g
  <2>1. QED
      BY <1>1, <1>3, Distinct, UnregisterType, UnregisterKeepsOK, UnregisterFields
<1> HIDE DEF g
<1>5. TypeOK'
    BY <1>1, <1>2, <1>4 DEF IInv, TypeOK
<1>6. Waiting'
  <2>1. \A i \in 1..Len(backlog) : backlog[i] # c /\ backlog[i] \in Conn
      BY <1>2 DEF IInv, TypeOK, Waiting
  <2>2. QED
      BY <1>1, <2>1 DEF IInv, TypeOK, Waiting
<1>7. LinkLive'
    BY <1>1, <1>4 DEF IInv, TypeOK, LinkLive
<1>8. OneOwner'
    BY <1>1, <1>2, <1>4, Distinct DEF IInv, TypeOK, OneOwner
<1>9. QED
    BY <1>4, <1>5, <1>6, <1>7, <1>8 DEF IInv

LEMMA NextIInv == IInv /\ [Next]_vars => IInv'
<1> SUFFICES ASSUME IInv, [Next]_vars PROVE IInv'
    OBVIOUS
<1>1. CASE StartFails \/ StartSucceeds
    BY <1>1, StartIInv
<1>2. ASSUME NEW c \in Conn, Arrive(c) \/ Speak(c) \/ Reset(c) PROVE IInv'
    BY <1>2, ClientIInv
<1>3. CASE EpollWait \/ Finish
    BY <1>3, LoopIInv
<1>4. ASSUME NEW x \in eng.batch, Handle(x) PROVE IInv'
    BY <1>4, IdleIInv, AcceptIInv, DeclineIInv, LinkOnErrorIInv DEF Handle
<1>5. CASE UNCHANGED vars
    BY <1>5, QuietIInv DEF vars, IInv, TypeOK, LinkLive
<1>6. QED
    BY <1>1, <1>2, <1>3, <1>4, <1>5 DEF Next, EventTest

\* For any clients and any size of the table, though descriptor numbers are used again
\* as soon as they are closed (Link.cpp:41-47): a link's descriptor is its own
\* connection's, none is open without a link, and the links that have one are watched.
THEOREM ServerOwnsOnce == Spec => [](TypeOK /\ OneOwner)
<1>1. IInv => TypeOK /\ OneOwner
    BY DEF IInv
<1>2. QED
    BY InitIInv, NextIInv, <1>1, PTL DEF Spec

\* No step but the handling of a reported error takes a link's descriptor, and the
\* error, read by epoll_wait some steps before, is of this link's connection
\* (Link.cpp:34-48).
LEMMA OnlyErrorsClose ==
    ASSUME IInv, [Next]_vars, NEW c \in Conn, nFD[c] # NoFD, nFD'[c] = NoFD
    PROVE  tcp[c] = "reset"
<1>1. ASSUME NEW x \in eng.batch, NEW d \in Conn, LinkOnError(x, d) PROVE tcp[c] = "reset"
  <2>1. c = d
      BY <1>1 DEF LinkOnError, IInv, TypeOK
  <2>2. QED
      BY <1>1, <2>1, ErrorIsReset DEF LinkOnError
<1>2. ASSUME NEW x \in eng.batch, Accept(x) PROVE FALSE
  <2>1. PICK f \in FreeFDs : nFD' = [nFD EXCEPT ![Head(backlog)] = f]
      BY <1>2 DEF Accept
  <2>2. f # NoFD
      BY <2>1, Distinct DEF FreeFDs
  <2>3. QED
      BY <2>1, <2>2 DEF IInv, TypeOK
<1>3. CASE UNCHANGED nFD
    BY <1>3
<1>4. QED
    BY <1>1, <1>2, <1>3
       DEF Next, EventTest, Handle, StartFails, StartSucceeds, Arrive, Speak, Reset, EpollWait,
           Finish, AcceptFails, Decline, Abort, LinkOnRead, vars

\* The server gives a connection up only when it has broken, whatever its clients do.
THEOREM ServerKeepsClients == Spec => OnlyResetEnds
<1>1. IInv /\ [Next]_vars =>
          [\A c \in Conn : nFD[c] # NoFD /\ nFD'[c] = NoFD => tcp[c] = "reset"]_vars
    BY OnlyErrorsClose
<1>2. QED
    BY InitIInv, NextIInv, <1>1, PTL DEF Spec, OnlyResetEnds

=============================================================================
