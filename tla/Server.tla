-------------------------------- MODULE Server --------------------------------
(***************************************************************************)
(* The game server of src/server: CApplication, which is an event engine    *)
(* and the owner of a CInetListener, and the CLink it makes for every       *)
(* connection.  One thread runs everything; EventEngine supplies            *)
(* registration and the batch.                                              *)
(*                                                                          *)
(* The CLink of a connection is named by the connection.  Descriptors are   *)
(* numbers of a table of limited size, the lowest free one being handed out  *)
(* first, so that a closed number soon stands for somebody else.            *)
(***************************************************************************)
EXTENDS EventEngine, Integers, Sequences, Functions

CONSTANTS Conn,      \* the connections clients make; also the CLink objects
          Listener,  \* the CInetListener of CApplication::Start
          Free,      \* an unused entry of the descriptor table
          MaxFD,     \* descriptors left for connections
          MaxWait    \* s_nWaitEvents

ASSUME ServerAssumption ==
    /\ Listener \notin Conn
    /\ Free \notin Conn
    /\ MaxFD \in Nat \ {0}
    /\ MaxWait \in Nat \ {0}

Event == Conn \cup {Listener}

Table == 1..MaxFD
NoFD  == -1

VARIABLES
    app,       \* CApplication::Start: not called, in its loop, back, or aborted
    eng,       \* the CApplication as a CEventEngine
    nFD,       \* m_nFD of each CLink
    table,     \* kernel: the connection each descriptor stands for
    tcp,       \* kernel: the state of each connection
    readable,  \* kernel: data, or the end of the stream, has arrived
    backlog    \* kernel: connections waiting to be accepted

net  == <<tcp, readable>>
vars == <<app, eng, nFD, table, net, backlog>>

Init ==
    /\ app = "new"
    /\ eng = NewEngine(Event)
    /\ nFD = [c \in Conn |-> NoFD]
    /\ table = [f \in Table |-> Free]
    /\ tcp = [c \in Conn |-> "none"]
    /\ readable = [c \in Conn |-> FALSE]
    /\ backlog = <<>>

-----------------------------------------------------------------------------
(* CApplication::Start and CInetListener::Start. *)

\* No epoll descriptor, or a step of the listener fails: its destructor takes
\* back what was done and Start returns False.
StartFails ==
    /\ app = "new"
    /\ app' = "returned"
    /\ UNCHANGED <<eng, nFD, table, net, backlog>>

StartSucceeds ==
    /\ app = "new"
    /\ app' = "serving"
    /\ eng' = Register(eng, Listener, Read)
    /\ UNCHANGED <<nFD, table, net, backlog>>

-----------------------------------------------------------------------------
(* Clients and the kernel. *)

Arrive(c) ==
    /\ app = "serving"
    /\ tcp[c] = "none"
    /\ tcp' = [tcp EXCEPT ![c] = "open"]
    /\ backlog' = Append(backlog, c)
    /\ UNCHANGED <<app, eng, nFD, table, readable>>

\* The client sends something or shuts down: either makes the socket readable,
\* and it stays so because nothing is ever received from it.
Speak(c) ==
    /\ tcp[c] = "open"
    /\ readable' = [readable EXCEPT ![c] = TRUE]
    /\ UNCHANGED <<app, eng, nFD, table, tcp, backlog>>

Reset(c) ==
    /\ tcp[c] = "open"
    /\ tcp' = [tcp EXCEPT ![c] = "reset"]
    /\ UNCHANGED <<app, eng, nFD, table, readable, backlog>>

Cond == [e \in Event |->
            IF e = Listener THEN IF backlog = <<>> THEN {} ELSE Read
            ELSE IF tcp[e] = "reset" THEN Flag
            ELSE IF readable[e] THEN Read ELSE {}]

-----------------------------------------------------------------------------
(* The loop of CApplication::Start. *)

EpollWait ==
    /\ app = "serving"
    /\ ~eng.onEvent
    /\ \E S \in Answers(eng, Cond, MaxWait) : eng' = StartBatch(eng, S)
    /\ UNCHANGED <<app, nFD, table, net, backlog>>

Finish ==
    /\ app = "serving"
    /\ eng.onEvent
    /\ eng.batch = {}
    /\ eng' = EndBatch(eng)
    /\ UNCHANGED <<app, nFD, table, net, backlog>>

\* The loop calls a handler of e for entry x, unless e was deleted in this batch
\* (which only a handler of e itself does here, so no entry is ever skipped).
Calls(x, e, flag) ==
    /\ app = "serving"
    /\ x \in eng.batch
    /\ x.ev = e
    /\ e \notin eng.deleting
    /\ flag = IF "err" \in x.flags THEN "err" ELSE "in"

FreeFDs == {f \in Table : table[f] = Free}

\* Mutant of AcceptFails: the listener is suspended.
AcceptFailsSuspends(x) ==
    /\ Calls(x, Listener, "in")
    /\ FreeFDs = {}
    /\ eng' = Unregister(Take(eng, x), Listener)
    /\ UNCHANGED <<app, nFD, table, net, backlog>>

\* accept fails: there is no descriptor left, and the client goes on waiting.
AcceptFails(x) ==
    /\ Calls(x, Listener, "in")
    /\ FreeFDs = {}
    /\ eng' = Take(eng, x)
    /\ UNCHANGED <<app, nFD, table, net, backlog>>

\* CInetListener::OnRead and CApplication::OnAccept: one connection per call; its
\* CLink registers for reading.
Accept(x) ==
    /\ Calls(x, Listener, "in")
    /\ backlog # <<>>
    /\ \E f \in FreeFDs :
          /\ \A g \in FreeFDs : f <= g
          /\ table' = [table EXCEPT ![f] = Head(backlog)]
          /\ nFD' = [nFD EXCEPT ![Head(backlog)] = f]
          /\ eng' = Register(Take(eng, x), Head(backlog), Read)
    /\ backlog' = Tail(backlog)
    /\ UNCHANGED <<app, net>>

\* The descriptor cannot be made non-blocking, or the link cannot be registered
\* in a build with NDEBUG: the link is gone and the listener closes the descriptor.
Decline(x) ==
    /\ Calls(x, Listener, "in")
    /\ backlog # <<>>
    /\ FreeFDs # {}
    /\ tcp' = [tcp EXCEPT ![Head(backlog)] = "closed"]
    /\ backlog' = Tail(backlog)
    /\ eng' = Take(eng, x)
    /\ UNCHANGED <<app, nFD, table, readable>>

\* The link cannot be registered, and ~CLink finds its descriptor set.
Abort(x) ==
    /\ Calls(x, Listener, "in")
    /\ backlog # <<>>
    /\ FreeFDs # {}
    /\ app' = "aborted"
    /\ UNCHANGED <<eng, nFD, table, net, backlog>>

\* Mutant of LinkOnRead: a link that is written to is closed.
LinkOnReadCloses(x, c) ==
    /\ Calls(x, c, "in")
    /\ eng' = Unregister(Take(eng, x), c)
    /\ table' = [table EXCEPT ![nFD[c]] = Free]
    /\ tcp' = [tcp EXCEPT ![c] = "closed"]
    /\ nFD' = [nFD EXCEPT ![c] = NoFD]
    /\ UNCHANGED <<app, readable, backlog>>

\* CLink::OnRead receives nothing.
LinkOnRead(x, c) ==
    /\ Calls(x, c, "in")
    /\ eng' = Take(eng, x)
    /\ UNCHANGED <<app, nFD, table, net, backlog>>

\* Mutants of LinkOnError: m_nFD keeps the number; nothing is done at all.
LinkOnErrorKeepsFD(x, c) ==
    /\ Calls(x, c, "err")
    /\ eng' = Unregister(Take(eng, x), c)
    /\ table' = [table EXCEPT ![nFD[c]] = Free]
    /\ tcp' = [tcp EXCEPT ![c] = "closed"]
    /\ UNCHANGED <<app, nFD, readable, backlog>>

LinkOnErrorIgnored(x, c) ==
    /\ Calls(x, c, "err")
    /\ eng' = Take(eng, x)
    /\ UNCHANGED <<app, nFD, table, net, backlog>>

\* CLink::OnError and CLink::Close.  The object stays, for good.
LinkOnError(x, c) ==
    /\ Calls(x, c, "err")
    /\ eng' = Unregister(Take(eng, x), c)
    /\ table' = [table EXCEPT ![nFD[c]] = Free]
    /\ tcp' = [tcp EXCEPT ![c] = "closed"]
    /\ nFD' = [nFD EXCEPT ![c] = NoFD]
    /\ UNCHANGED <<app, readable, backlog>>

Handle(x) ==
    \/ AcceptFails(x)
    \/ Accept(x)
    \/ Decline(x)
    \/ Abort(x)
    \/ \E c \in Conn : LinkOnRead(x, c) \/ LinkOnError(x, c)

EventTest == EpollWait \/ Finish \/ \E x \in eng.batch : Handle(x)

Next ==
    \/ StartFails
    \/ StartSucceeds
    \/ \E c \in Conn : Arrive(c) \/ Speak(c) \/ Reset(c)
    \/ EventTest

\* epoll answers about e.
Reports(e) == EpollWait /\ \E x \in eng'.batch : x.ev = e

\* Start loops for ever, and epoll_wait goes round the ready descriptors when they
\* are more than fit into its answer (its manual page), so that none of them is
\* left out for ever.
Fairness ==
    /\ WF_vars(EventTest)
    /\ \A e \in Event : SF_vars(Reports(e))

Spec == Init /\ [][Next]_vars /\ Fairness

-----------------------------------------------------------------------------
TypeOK ==
    /\ app \in {"new", "serving", "returned", "aborted"}
    /\ eng \in Engine(Event)
    /\ nFD \in [Conn -> Table \cup {NoFD}]
    /\ table \in [Table -> Conn \cup {Free}]
    /\ tcp \in [Conn -> {"none", "open", "reset", "closed"}]
    /\ readable \in [Conn -> BOOLEAN]
    /\ backlog \in Seq(Conn)

\* A link's descriptor stands for the link's own connection, though numbers are
\* used again and again; no descriptor is open without its link; and exactly the
\* links with a descriptor are watched (Link.cpp:41-47, Application.cpp:43-44).
OneOwner ==
    /\ \A c \in Conn : nFD[c] # NoFD => table[nFD[c]] = c
    /\ \A f \in Table : table[f] # Free => nFD[table[f]] = f
    /\ \A c \in Conn : c \in eng.added <=> nFD[c] # NoFD

\* The server gives a connection up only when it has broken: neither what the
\* client says, nor the end of what it says, nor other clients make it.
OnlyResetEnds ==
    [][\A c \in Conn : nFD[c] # NoFD /\ nFD'[c] = NoFD => tcp[c] = "reset"]_vars

Waits(c) == app = "serving" /\ c \in Range(backlog)

\* Every client in the backlog is accepted (or turned away) if descriptors come
\* free again and again, although the links that nobody reads from are reported
\* by every epoll_wait and each call of the listener accepts only one.
ClientsServed ==
    \A c \in Conn : []<>(FreeFDs # {}) => (Waits(c) ~> ~Waits(c))

\* A broken connection gives its descriptor back.
ResetReleases ==
    \A c \in Conn :
        app = "serving" /\ tcp[c] = "reset" /\ nFD[c] # NoFD ~> app = "aborted" \/ nFD[c] = NoFD

=============================================================================
