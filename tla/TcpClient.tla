------------------------------ MODULE TcpClient ------------------------------
(***************************************************************************)
(* The network client of the game SDK: CClient (app_sdk/source/socket) on   *)
(* its CEventThread, the CTCPClientSocket that connects for it, and the     *)
(* CMessageEvent objects through which the application's threads talk to    *)
(* it.  EventEngine supplies registration and the batch.                    *)
(*                                                                          *)
(* The application calls Start, Send and Stop; everything else happens on   *)
(* the event thread, one handler at a time.  A handler is one action: the   *)
(* other actors only reach its state through epoll, which it reads once per *)
(* batch.                                                                   *)
(***************************************************************************)
EXTENDS EventEngine, Integers, Sequences

CONSTANTS Sock,     \* the CTCPClientSocket object
          Cli,      \* the CClient object, as a CEvent
          SendMsg,  \* CMessageEvents that carry UM_SEND_BUFFER and a buffer
          CloseMsg, \* the CMessageEvent that carries UM_CLOSE
          BufLen,   \* length of every buffer, in units send() may split it into
          MaxRx,    \* bound: packets waiting in the receive buffer
          MaxWait   \* s_nWaitEvents

ASSUME TcpClientAssumption ==
    /\ Sock # Cli
    /\ CloseMsg \notin SendMsg
    /\ {Sock, Cli} \cap (SendMsg \cup {CloseMsg}) = {}
    /\ BufLen \in Nat \ {0}
    /\ MaxRx \in Nat \ {0}
    /\ MaxWait \in Nat \ {0}

Msg   == SendMsg \cup {CloseMsg}
Event == {Sock, Cli} \cup Msg

NoFD == -1
FD   == 3  \* the one descriptor Start creates

VARIABLES
    app,       \* the application's view: which call of Start / Stop it is in
    running,   \* the event thread exists
    ready,     \* the engine has an epoll descriptor
    eng,       \* m_thread as a CEventEngine
    sock,      \* m_sock: NULL, an object without, or with, a descriptor
    nFD,       \* m_nFD
    buffers,   \* m_lstBuffers
    off,       \* how much of the front buffer has been read by send
    msg,       \* what became of each CMessageEvent
    conn,      \* the TCP connection behind the descriptor, in the kernel
    rx, fin,   \* packets to be received; whether the peer has shut down
    room,      \* the send buffer of the socket has room
    dropped,   \* calls of OnClientDisconnected
    handled,   \* history: the buffers taken in by OnMessageEvent, in order
    wire       \* history: the units handed to the kernel, by buffer

client == <<sock, nFD, buffers, off>>
kernel == <<conn, rx, fin, room>>
vars   == <<app, running, ready, eng, client, msg, kernel, dropped, handled, wire>>

Init ==
    /\ app = "new"
    /\ running = FALSE
    /\ ready = FALSE
    /\ eng = NewEngine(Event)
    /\ sock = "null"
    /\ nFD = NoFD
    /\ buffers = <<>>
    /\ off = 0
    /\ msg = [m \in Msg |-> "free"]
    /\ conn = "none"
    /\ rx = 0
    /\ fin = FALSE
    /\ room = TRUE
    /\ dropped = 0
    /\ handled = <<>>
    /\ wire = <<>>

-----------------------------------------------------------------------------
(* The application's threads. *)

\* Start is called again only while there is no event thread (Game has the other
\* case).  It begins with a new epoll descriptor: messages posted to an older one
\* are never reported.
Begin ==
    /\ app \in {"new", "failed"}
    /\ ~running
    /\ msg' = [m \in Msg |-> IF msg[m] = "posted" THEN "lost" ELSE msg[m]]

\* Start stops at the first step that fails and returns False, leaving what the
\* earlier steps made; else the connection attempt is under way.
StartFails ==
    /\ Begin
    /\ app' = "failed"
    /\ eng' = NewEngine(Event)
    /\ \E s \in {"epoll", "thread", "socket", "nonblock", "connect"} :
          /\ ready' = (s # "epoll")
          /\ running' = (s \notin {"epoll", "thread"})
          /\ sock' = IF s \in {"epoll", "thread"} THEN "null"
                     ELSE IF s = "socket" THEN "nofd" ELSE "open"
          /\ conn' = IF s \in {"nonblock", "connect"} THEN "idle" ELSE conn
    /\ UNCHANGED <<nFD, buffers, off, rx, fin, room, dropped, handled, wire>>

StartSucceeds ==
    /\ Begin
    /\ app' = "started"
    /\ ready' = TRUE
    /\ running' = TRUE
    /\ sock' = "open"
    /\ conn' = "connecting"
    /\ eng' = Register(NewEngine(Event), Sock, Write)
    /\ UNCHANGED <<nFD, buffers, off, rx, fin, room, dropped, handled, wire>>

\* CEventEngine::PostMessage: a new CMessageEvent is created and triggered. It
\* fails without an epoll descriptor, or when eventfd does; then the message
\* event (and what it carries) stays behind and nothing will handle it.
PostMessage(m) ==
    /\ msg[m] = "free"
    /\ \/ /\ ready
          /\ eng' = Register(eng, m, Read)
          /\ msg' = [msg EXCEPT ![m] = "posted"]
       \/ /\ eng' = eng
          /\ msg' = [msg EXCEPT ![m] = "lost"]

\* Send ignores the result of PostMessage and reports nothing.
Send(m) ==
    /\ app \in {"new", "started", "failed"}
    /\ m \in SendMsg
    /\ PostMessage(m)
    /\ UNCHANGED <<app, running, ready, client, kernel, dropped, handled, wire>>

\* Stop ignores it too and waits for the semaphore.
Stop ==
    /\ app \in {"new", "started", "failed"}
    /\ app' = "stopping"
    /\ PostMessage(CloseMsg)
    /\ UNCHANGED <<running, ready, client, kernel, dropped, handled, wire>>

-----------------------------------------------------------------------------
(* The kernel and the peer. *)

Connected ==
    /\ conn = "connecting"
    /\ conn' = "up"
    /\ UNCHANGED <<rx, fin, room>>

Refused ==
    /\ conn = "connecting"
    /\ conn' = "reset"
    /\ UNCHANGED <<rx, fin, room>>

PeerSends ==
    /\ conn = "up" /\ ~fin /\ rx < MaxRx
    /\ rx' = rx + 1
    /\ UNCHANGED <<conn, fin, room>>

PeerShutsDown ==
    /\ conn = "up" /\ ~fin
    /\ fin' = TRUE
    /\ UNCHANGED <<conn, rx, room>>

PeerReads ==
    /\ conn = "up" /\ ~room
    /\ room' = TRUE
    /\ UNCHANGED <<conn, rx, fin>>

PeerResets ==
    /\ conn = "up"
    /\ conn' = "reset"
    /\ UNCHANGED <<rx, fin, room>>

KernelOnly == UNCHANGED <<app, running, ready, eng, client, msg, dropped, handled, wire>>

Resolve == (Connected \/ Refused) /\ KernelOnly
Drain   == PeerReads /\ KernelOnly

Network ==
    \/ Resolve
    \/ Drain
    \/ (PeerSends \/ PeerShutsDown \/ PeerResets) /\ KernelOnly

\* close() of the descriptor.
Closes ==
    /\ conn' = "closed"
    /\ rx' = 0
    /\ fin' = FALSE
    /\ room' = TRUE

\* The conditions of the connection that epoll looks at.
SocketCond ==
    IF conn = "up"
    THEN {f \in RW : (f = "in" /\ (rx > 0 \/ fin)) \/ (f = "out" /\ room)}
    ELSE IF conn = "reset" THEN Flag
    ELSE {}

Cond == [e \in Event |-> IF e \in {Sock, Cli} THEN SocketCond
                         ELSE IF msg[e] = "posted" THEN Read ELSE {}]

-----------------------------------------------------------------------------
(* The event thread: CEventThread::OnRun and CEventEngine::EventTest. *)

EpollWait ==
    /\ running
    /\ ~eng.onEvent
    /\ \E S \in Answers(eng, Cond, MaxWait) : eng' = StartBatch(eng, S)
    /\ UNCHANGED <<app, running, ready, client, msg, kernel, dropped, handled, wire>>

Finish ==
    /\ running
    /\ eng.onEvent
    /\ eng.batch = {}
    /\ eng' = EndBatch(eng)
    /\ UNCHANGED <<app, running, ready, client, msg, kernel, dropped, handled, wire>>

\* The entry's event was deleted in this batch.
Ignore(x) ==
    /\ running
    /\ x \in eng.batch
    /\ x.ev \in eng.deleting
    /\ eng' = Take(eng, x)
    /\ UNCHANGED <<app, running, ready, client, msg, kernel, dropped, handled, wire>>

\* The loop calls a handler of e for entry x.  No event of the client is ever
\* registered for reading and writing at once: one handler per entry.
Calls(x, e, flag) ==
    /\ running
    /\ x \in eng.batch
    /\ x.ev = e
    /\ e \notin eng.deleting
    /\ flag = IF "err" \in x.flags THEN "err"
              ELSE IF "in" \in x.flags THEN "in" ELSE "out"

\* Mutants of SockOnWrite: without m_sock->Detach, deleting the connector closes
\* the descriptor; with the queue ignored, the client always starts by reading.
SockOnWriteNoDetach(x) ==
    /\ Calls(x, Sock, "out")
    /\ nFD' = FD
    /\ sock' = "null"
    /\ eng' = Register(Unregister(Take(eng, x), Sock), Cli,
                       IF buffers = <<>> THEN Read ELSE Write)
    /\ Closes
    /\ UNCHANGED <<app, running, ready, buffers, off, msg, dropped, handled, wire>>

SockOnWriteReads(x) ==
    /\ Calls(x, Sock, "out")
    /\ nFD' = FD
    /\ sock' = "null"
    /\ eng' = Register(Unregister(Take(eng, x), Sock), Cli, Read)
    /\ UNCHANGED <<app, running, ready, buffers, off, msg, kernel, dropped, handled, wire>>

\* CTCPClientSocket::OnWrite and CClient::OnConnected: the descriptor moves from
\* the connector, which is deleted, to the client.
SockOnWrite(x) ==
    /\ Calls(x, Sock, "out")
    /\ nFD' = FD
    /\ sock' = "null"
    /\ eng' = Register(Unregister(Take(eng, x), Sock), Cli,
                       IF buffers = <<>> THEN Read ELSE Write)
    /\ UNCHANGED <<app, running, ready, buffers, off, msg, kernel, dropped, handled, wire>>

\* Mutants of SockOnError: the connector stays registered; it is not deleted.
SockOnErrorRegistered(x) ==
    /\ Calls(x, Sock, "err")
    /\ sock' = "null"
    /\ eng' = Take(eng, x)
    /\ Closes
    /\ UNCHANGED <<app, running, ready, nFD, buffers, off, msg, dropped, handled, wire>>

SockOnErrorKept(x) ==
    /\ Calls(x, Sock, "err")
    /\ eng' = Unregister(Take(eng, x), Sock)
    /\ UNCHANGED <<app, running, ready, sock, nFD, buffers, off, msg, kernel, dropped, handled, wire>>

\* CTCPClientSocket::OnError and CClient::OnConnectFailed: the connector is
\* deleted and closes the descriptor; nobody is told.
SockOnError(x) ==
    /\ Calls(x, Sock, "err")
    /\ sock' = "null"
    /\ eng' = Unregister(Take(eng, x), Sock)
    /\ Closes
    /\ UNCHANGED <<app, running, ready, nFD, buffers, off, msg, dropped, handled, wire>>

\* Mutant of Disconnect: m_nFD keeps the closed descriptor.
DisconnectKeepsFD(g) ==
    /\ eng' = Unregister(g, Cli)
    /\ nFD' = nFD
    /\ Closes
    /\ dropped' = dropped + 1

\* CClient::OnError.
Disconnect(g) ==
    /\ eng' = Unregister(g, Cli)
    /\ nFD' = NoFD
    /\ Closes
    /\ dropped' = dropped + 1

CliOnError(x) ==
    /\ Calls(x, Cli, "err")
    /\ Disconnect(Take(eng, x))
    /\ UNCHANGED <<app, running, ready, sock, buffers, off, msg, handled, wire>>

\* CClient::OnRead: all that can be received is parsed; then recv would block,
\* or reports the end of the stream or an error.
CliOnRead(x) ==
    /\ Calls(x, Cli, "in")
    /\ \/ /\ conn = "up" /\ ~fin
          /\ rx' = 0
          /\ eng' = Take(eng, x)
          /\ UNCHANGED <<nFD, conn, fin, room, dropped>>
       \/ /\ conn = "reset" \/ fin
          /\ Disconnect(Take(eng, x))
    /\ UNCHANGED <<app, running, ready, sock, buffers, off, msg, handled, wire>>

\* CClient::OnRead, when the callback refuses one of the packets.
CliRefuses(x) ==
    /\ Calls(x, Cli, "in")
    /\ rx > 0
    /\ Disconnect(Take(eng, x))
    /\ UNCHANGED <<app, running, ready, sock, buffers, off, msg, handled, wire>>

\* Units of the queue not yet handed to send, and the buffer the i-th is of.
Unsent     == Len(buffers) * BufLen - off
UnsentUnit(i) == buffers[(off + i - 1) \div BufLen + 1]

\* Mutants of Sends: the read offset survives the buffer it belongs to; the front
\* buffer is deleted although send took only a part of it.
SendsKeepsOffset(n) ==
    /\ buffers' = SubSeq(buffers, (off + n) \div BufLen + 1, Len(buffers))
    /\ off' = off + n
    /\ wire' = wire \o [i \in 1..n |-> UnsentUnit(i)]

SendsDropsRest(n) ==
    /\ buffers' = SubSeq(buffers, (off + n + BufLen - 1) \div BufLen + 1, Len(buffers))
    /\ off' = 0
    /\ wire' = wire \o [i \in 1..n |-> UnsentUnit(i)]

\* n units leave the queue: buffers that have been sent completely are deleted.
Sends(n) ==
    /\ buffers' = SubSeq(buffers, (off + n) \div BufLen + 1, Len(buffers))
    /\ off' = (off + n) % BufLen
    /\ wire' = wire \o [i \in 1..n |-> UnsentUnit(i)]

\* CClient::OnWrite: send until the queue is empty, the kernel's buffer is full,
\* or send fails.  With the queue empty the client turns to reading.
CliOnWrite(x) ==
    /\ Calls(x, Cli, "out")
    /\ \/ /\ conn = "up" /\ room
          /\ \E n \in {k \in 0..Unsent : k > 0 \/ Unsent = 0} :
                /\ Sends(n)
                /\ room' \in IF n = Unsent THEN BOOLEAN ELSE {FALSE}
                /\ eng' = IF n = Unsent /\ n > 0
                          THEN Register(Take(eng, x), Cli, Read)
                          ELSE Take(eng, x)
          /\ UNCHANGED <<nFD, conn, rx, fin, dropped>>
       \/ /\ conn = "reset"
          /\ Disconnect(Take(eng, x))
          /\ UNCHANGED <<buffers, off, wire>>
    /\ UNCHANGED <<app, running, ready, sock, msg, handled>>

\* CMessageEvent::OnRead: the message is handled and the event deletes itself.
MsgDone(m) == msg' = [msg EXCEPT ![m] = "done"]

\* Mutant of SendOnMessage: the write event is registered without a look at m_nFD.
SendOnMessageAlwaysWrites(x, m) ==
    /\ m \in SendMsg
    /\ Calls(x, m, "in")
    /\ eng' = Unregister(IF buffers = <<>> THEN Register(Take(eng, x), Cli, Write)
                         ELSE Take(eng, x), m)
    /\ buffers' = Append(buffers, m)
    /\ handled' = Append(handled, m)
    /\ MsgDone(m)
    /\ UNCHANGED <<app, running, ready, sock, nFD, off, kernel, dropped, wire>>

\* CClient::OnMessageEvent, UM_SEND_BUFFER.
SendOnMessage(x, m) ==
    /\ m \in SendMsg
    /\ Calls(x, m, "in")
    /\ eng' = Unregister(IF buffers = <<>> /\ nFD # NoFD
                         THEN Register(Take(eng, x), Cli, Write)
                         ELSE Take(eng, x), m)
    /\ buffers' = Append(buffers, m)
    /\ handled' = Append(handled, m)
    /\ MsgDone(m)
    /\ UNCHANGED <<app, running, ready, sock, nFD, off, kernel, dropped, wire>>

\* Mutants of CloseOnMessage: the semaphore is posted only when there was a
\* connection to close; the descriptor is forgotten without being closed.
CloseOnMessageSilent(x) ==
    /\ Calls(x, CloseMsg, "in")
    /\ IF nFD # NoFD
       THEN /\ eng' = Unregister(Unregister(Take(eng, x), Cli), CloseMsg)
            /\ nFD' = NoFD
            /\ app' = "stopped"
            /\ Closes
       ELSE /\ eng' = Unregister(Take(eng, x), CloseMsg)
            /\ UNCHANGED <<app, nFD, kernel>>
    /\ MsgDone(CloseMsg)
    /\ UNCHANGED <<running, ready, sock, buffers, off, dropped, handled, wire>>

CloseOnMessageLeaks(x) ==
    /\ Calls(x, CloseMsg, "in")
    /\ eng' = Unregister(Unregister(Take(eng, x), Cli), CloseMsg)
    /\ nFD' = NoFD
    /\ app' = "stopped"
    /\ MsgDone(CloseMsg)
    /\ UNCHANGED <<running, ready, sock, buffers, off, kernel, dropped, handled, wire>>

\* CClient::OnMessageEvent, UM_CLOSE: a connection attempt is left alone.
CloseOnMessage(x) ==
    /\ Calls(x, CloseMsg, "in")
    /\ IF nFD # NoFD
       THEN /\ eng' = Unregister(Unregister(Take(eng, x), Cli), CloseMsg)
            /\ nFD' = NoFD
            /\ Closes
       ELSE /\ eng' = Unregister(Take(eng, x), CloseMsg)
            /\ UNCHANGED <<nFD, kernel>>
    /\ app' = "stopped"
    /\ MsgDone(CloseMsg)
    /\ UNCHANGED <<running, ready, sock, buffers, off, dropped, handled, wire>>

\* The handlers under a callback that takes every packet, and under any.
Serves(x) ==
    \/ Ignore(x)
    \/ SockOnWrite(x)
    \/ SockOnError(x)
    \/ CliOnError(x)
    \/ CliOnRead(x)
    \/ CliOnWrite(x)
    \/ \E m \in SendMsg : SendOnMessage(x, m)
    \/ CloseOnMessage(x)

Handle(x) == Serves(x) \/ CliRefuses(x)

EventThread == EpollWait \/ Finish \/ \E x \in eng.batch : Handle(x)

Application ==
    \/ StartFails
    \/ StartSucceeds
    \/ \E m \in SendMsg : Send(m)
    \/ Stop

Next == Application \/ Network \/ EventThread

\* The event thread never stops looking at epoll.  A connection attempt has an
\* outcome and the peer goes on reading: assumptions about the network, used
\* only by the liveness properties.
Fairness ==
    /\ WF_vars(EventThread)
    /\ WF_vars(Resolve)
    /\ WF_vars(Drain)

Spec == Init /\ [][Next]_vars /\ Fairness

-----------------------------------------------------------------------------
TypeOK ==
    /\ app \in {"new", "started", "failed", "stopping", "stopped"}
    /\ running \in BOOLEAN /\ ready \in BOOLEAN
    /\ eng \in Engine(Event)
    /\ sock \in {"null", "nofd", "open"}
    /\ nFD \in {NoFD, FD}
    /\ buffers \in Seq(SendMsg)
    /\ off \in 0..(BufLen - 1)
    /\ msg \in [Msg -> {"free", "posted", "done", "lost"}]
    /\ conn \in {"none", "idle", "connecting", "up", "reset", "closed"}
    /\ rx \in 0..MaxRx
    /\ fin \in BOOLEAN /\ room \in BOOLEAN
    /\ dropped \in Nat
    /\ handled \in Seq(SendMsg)
    /\ wire \in Seq(SendMsg)

\* Whom the engine may call: the connector while m_sock points to it, the client
\* while it has a descriptor, a message event until it has deleted itself.
Callable(e) ==
    \/ e = Sock /\ sock = "open"
    \/ e = Cli /\ nFD # NoFD
    \/ e \in Msg /\ msg[e] = "posted"

\* Every handler still ahead in the batch finds what it asserts: OnConnected and
\* OnConnectFailed that the connector is m_sock, OnError that m_nFD is open, and
\* CMessageEvent::OnRead that it has not been deleted (Client.cpp:102,122,233).
\* The entries were computed before earlier handlers of the batch ran.
NoCallOnTheGone ==
    \A x \in eng.batch : x.ev \in eng.deleting \/ Callable(x.ev)

\* The descriptor is open exactly while one of m_sock and m_nFD owns it: the
\* handover in OnConnected neither closes it nor leaves two owners, and no
\* order of Stop, refusal, reset and end of stream leaks it or closes it twice.
OneOwner ==
    /\ conn \in {"none", "closed"} <=> sock # "open" /\ nFD = NoFD
    /\ ~(sock = "open" /\ nFD # NoFD)

\* While connected, the client waits for room exactly when it has something to
\* send and for data exactly when it has not; otherwise epoll does not know it.
\* Send, OnConnected and OnWrite each keep a part of this, from their own guess
\* of what the queue was (Client.cpp:110-117, 214-218, 245-248).
InterestFollowsQueue ==
    IF nFD = NoFD THEN Cli \notin eng.added
    ELSE /\ Cli \in eng.added
         /\ eng.mask[Cli] = IF buffers = <<>> THEN Read ELSE Write

\* Only a registered connector can still report the outcome of a connection
\* attempt: from a successful Start until OnConnected or OnConnectFailed it is
\* registered for writing.
AttemptIsWatched ==
    Sock \in eng.added <=> sock = "open" /\ conn # "idle"

\* What has gone out and what is queued make up what was taken in: no unit of a
\* buffer is lost, sent twice or overtaken, however send splits the buffers and
\* whatever happens to the connection.
NothingLost ==
    wire \o [i \in 1..Unsent |-> UnsentUnit(i)]
        = [i \in 1..(Len(handled) * BufLen) |-> handled[(i - 1) \div BufLen + 1]]

\* The application hears of at most one lost connection, and only of one that
\* had been established and is gone.
DroppedOnce ==
    /\ dropped <= 1
    /\ dropped = 1 => nFD = NoFD /\ sock = "null" /\ conn = "closed"

\* Stop returns if UM_CLOSE could be posted to a running event thread, whatever
\* the connection does meanwhile.
StopReturns ==
    app = "stopping" /\ running /\ msg[CloseMsg] = "posted" ~> app = "stopped"

\* A connection attempt ends: the connector does not outlive its outcome.
AttemptEnds == Sock \in eng.added ~> sock = "null"

\* A connected client empties its queue unless it loses the connection.
QueueDrains == nFD # NoFD /\ buffers # <<>> ~> nFD = NoFD \/ buffers = <<>>

\* ~CClient, which CGame::~CGame runs as soon as Stop has returned, asserts that
\* there is neither a connector nor a descriptor left (Client.cpp:27-28).  UM_CLOSE
\* sees to the descriptor only: a connector left by a Start that failed stays, and so
\* does the connector of an attempt under way.
DestructorAsserts == app = "stopped" => sock = "null" /\ nFD = NoFD

\* The client implements ClientLink: whatever the handlers, the batches and the
\* application do, the connection carries the accepted buffers in order and once,
\* only between OnConnected and the first of OnError and UM_CLOSE, and never
\* comes back.
Link == INSTANCE ClientLink WITH
            Buffer   <- SendMsg,
            accepted <- handled,
            carried  <- wire,
            link     <- IF nFD # NoFD THEN "up"
                        ELSE IF conn = "closed" THEN "over" ELSE "down"

ImplementsLink == Link!Spec

=============================================================================
