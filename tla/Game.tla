--------------------------------- MODULE Game ---------------------------------
(***************************************************************************)
(* CGame, the object behind the IGame interface of the SDK: the one CClient  *)
(* of TcpClient under the calls a program makes, from Startup to the         *)
(* destruction of the static CGame when the process ends, with the event     *)
(* thread still running.                                                     *)
(*                                                                           *)
(* IGame is called by one thread.  The messages it posts are eventfds that   *)
(* become ready one after the other, and epoll reports them in that order.   *)
(***************************************************************************)
EXTENDS TcpClient

VARIABLES
    game,    \* what becomes of the CGame
    server,  \* SetServer has been called
    quit,    \* the event thread's m_sem has been posted
    order    \* the posted messages, in the order of posting

gameVars == <<game, server, quit>>
allVars  == <<vars, gameVars, order>>

GameInit ==
    /\ Init
    /\ game = "up"
    /\ server = FALSE
    /\ quit = FALSE
    /\ order = <<>>

\* Messages leave the order at its front, when they are handled or all are lost, and
\* join it at the end.
Ordered ==
    LET left == {m \in Msg : msg[m] = "posted" /\ msg'[m] # "posted"}
        new  == {m \in Msg : msg[m] = "free" /\ msg'[m] = "posted"}
        rest == SubSeq(order, Cardinality(left) + 1, Len(order))
    IN  \/ new = {} /\ order' = rest
        \/ \E m \in new : order' = Append(rest, m)

-----------------------------------------------------------------------------
(* IGame. *)

SetServer ==
    /\ game = "up"
    /\ server' = TRUE
    /\ UNCHANGED <<vars, game, quit>>

\* Without SetServer the address is 255.255.255.255, to which connect fails.
Startup ==
    /\ game = "up"
    /\ StartFails \/ (server /\ StartSucceeds)
    /\ UNCHANGED gameVars

\* Startup when it has made the thread before: CEventThread::Initialize makes a
\* second epoll descriptor and a second thread for the same CClient, and the old
\* connector or connection is not given up.  The model goes no further.
StartupAgain ==
    /\ game = "up"
    /\ running
    /\ game' = "doubled"
    /\ UNCHANGED <<vars, server, quit>>

\* Login's request: the header, with the size of the body, and the body.
MakeLoginRequest(m) == [i \in 1..BufLen |-> m]

\* Login returns true whatever becomes of the request.
Login(m) ==
    /\ game = "up"
    /\ Send(m)
    /\ UNCHANGED gameVars

\* SitDown, Ready, Bid, PutBottomCard, SetMasterSuit, PlayCard, GetPlayerPoints,
\* Leave and Quit return false and do nothing, and Release does nothing.
Unfinished ==
    /\ game = "up"
    /\ UNCHANGED <<vars, gameVars>>

-----------------------------------------------------------------------------
(* The process ends: the static CGame is destroyed. *)

\* CGame::~CGame.
Exit ==
    /\ game = "up"
    /\ game' = "exiting"
    /\ Stop
    /\ UNCHANGED <<server, quit>>

\* Mutant of DestroyClient: Stop is not waited for.
DestroyClientAtOnce ==
    /\ game = "exiting"
    /\ game' = IF sock = "null" /\ nFD = NoFD THEN "dying" ELSE "aborted"
    /\ quit' = (game' = "dying")
    /\ buffers' = <<>>
    /\ off' = 0
    /\ UNCHANGED <<app, running, ready, eng, sock, nFD, msg, kernel, dropped, handled, wire, server>>

\* Stop has returned.  CClient::~CClient asserts that nothing is left, deletes the
\* queue, and the destructor of m_thread asks the thread to quit.
DestroyClient ==
    /\ game = "exiting"
    /\ app = "stopped"
    /\ game' = IF sock = "null" /\ nFD = NoFD THEN "dying" ELSE "aborted"
    /\ quit' = (game' = "dying")
    /\ buffers' = <<>>
    /\ off' = 0
    /\ UNCHANGED <<app, running, ready, eng, sock, nFD, msg, kernel, dropped, handled, wire, server>>

\* CEventThread::OnRun: TryQuit between two calls of EventTest.
ThreadQuits ==
    /\ quit
    /\ running
    /\ ~eng.onEvent
    /\ running' = FALSE
    /\ quit' = FALSE
    /\ UNCHANGED <<app, ready, eng, client, msg, kernel, dropped, handled, wire, game, server>>

\* pthread_join returns and ~CEventEngine closes the epoll descriptor.
Join ==
    /\ game = "dying"
    /\ ~running
    /\ game' = "exited"
    /\ ready' = FALSE
    /\ UNCHANGED <<app, running, eng, client, msg, kernel, dropped, handled, wire, server, quit>>

Exiting == DestroyClient \/ Join

-----------------------------------------------------------------------------
(* The event thread under CGame's callbacks. *)

Alive == game \notin {"doubled", "aborted", "exited"}

\* Mutant of OnParsePacket: a packet that is not understood ends the connection.
OnParsePacketRejects == FALSE

\* CGame::OnParsePacket takes every packet.
OnParsePacket == TRUE

\* The event thread serves messages in their order, with CGame as the callback.
GameThread ==
    /\ Alive
    /\ \/ EpollWait
       \/ Finish
       \/ \E x \in eng.batch :
             /\ x.ev \in Msg => x.ev = Head(order)
             /\ IF OnParsePacket THEN Serves(x) ELSE Handle(x)
    /\ UNCHANGED gameVars

GameNetwork(net) == Alive /\ net /\ UNCHANGED gameVars

GameNext ==
    /\ \/ SetServer
       \/ Startup
       \/ StartupAgain
       \/ \E m \in SendMsg : Login(m)
       \/ Unfinished
       \/ Exit
       \/ Exiting
       \/ ThreadQuits
       \/ GameThread
       \/ GameNetwork(Network)
    /\ Ordered

\* As in TcpClient; besides, a thread asked to quit does, and the thread that ends
\* the process goes on.
GameFairness ==
    /\ WF_allVars(GameThread /\ Ordered)
    /\ WF_allVars(GameNetwork(Resolve) /\ Ordered)
    /\ WF_allVars(GameNetwork(Drain) /\ Ordered)
    /\ WF_allVars(ThreadQuits /\ Ordered)
    /\ WF_allVars(Exiting /\ Ordered)

GameSpec == GameInit /\ [][GameNext]_allVars /\ GameFairness

-----------------------------------------------------------------------------
GameTypeOK ==
    /\ TypeOK
    /\ game \in {"up", "doubled", "exiting", "dying", "aborted", "exited"}
    /\ server \in BOOLEAN /\ quit \in BOOLEAN
    /\ order \in Seq(Msg)

\* Once ~CClient has begun to take the client apart no handler will run on it, though
\* the thread goes on until it is joined: m_lstBuffers is gone before m_thread, and
\* requests logged in just before the end are still messages (Game.cpp:10-13,
\* Client.cpp:25-36, Client.h:45-48).
NoCallAfterDestruction ==
    game \in {"dying", "exited"} =>
        /\ eng.added = {}
        /\ \A x \in eng.batch : x.ev \in eng.deleting

\* Start has failed after it made m_sock, and nothing ever deletes that.
StartFailedMidway == sock = "nofd" \/ conn = "idle"

\* The process ends cleanly: Stop returns, the assertions of ~CClient hold and the
\* thread ends, whatever the connection does.  The two ways to abort: a Start that
\* failed midway, and an attempt that is still under way when UM_CLOSE is handled,
\* which does not cancel it (Client.cpp:27-28, 58-75, 255-262).
CleanExit ==
    game = "exiting" /\ running /\ msg[CloseMsg] = "posted"
        ~> \/ game = "exited"
           \/ game = "aborted" /\ StartFailedMidway
           \/ msg[CloseMsg] = "done" /\ Sock \in eng.added

Sent(m) ==
    \E i \in 0..(Len(wire) - BufLen) : SubSeq(wire, i + 1, i + BufLen) = MakeLoginRequest(m)

\* A login request made after Startup has succeeded goes out whole and in one piece,
\* whether or not the connection was there when it was made, unless there is none
\* (any more).
LoginGoesOut ==
    \A m \in SendMsg :
        app = "started" /\ msg[m] = "posted"
            ~> Sent(m) \/ conn \in {"reset", "closed"} \/ game # "up"

\* Only the network or the peer ends an established connection of a running game.
OnlyPeerEnds ==
    [][dropped' > dropped => fin \/ conn = "reset"]_allVars

=============================================================================
