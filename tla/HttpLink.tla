------------------------------- MODULE HttpLink -------------------------------
(***************************************************************************)
(* One connection of the HTTP server: a CHttpClientEvent with its base      *)
(* CClientEvent, the I/O thread whose engine drives it, its one-second      *)
(* timer and, when CFrameServer was given a CThreadPool, the worker threads *)
(* that handle its requests.                                                *)
(*                                                                          *)
(* A handler of the I/O thread is one action, except where it reads what a  *)
(* worker may change in between: OnRead comes back for every request, and   *)
(* OnTimer looks at the reference count before it releases.  A worker's     *)
(* HandleMessage is one action per access to the shared object.  That the   *)
(* engine calls registered events only is EngineLoop's business; which of   *)
(* two messages posted to an engine comes first is left open, as there.     *)
(***************************************************************************)
EXTENDS Integers, Sequences, FiniteSets

CONSTANTS NReq,     \* bound: requests the peer sends on the connection
          NWorker,  \* threads of the pool; 0: no pool, the I/O thread handles requests
          Outcome,  \* what handlers may decide: "keep", "close" or "detach"
          Env       \* what may happen around the connection, see below

(* "pipeline"   the peer does not wait for a response before its next request
   "leave"      the peer closes or resets the connection
   "idle"       nothing is received for m_lLinkTimeout
   "malformed"  the peer sends what is not a request, or one that SetMessage rejects
   "exhaust"    eventfd, timerfd or epoll_ctl fail for want of resources    *)
ASSUME HttpLinkAssumption ==
    /\ NReq \in Nat
    /\ NWorker \in Nat
    /\ Outcome \subseteq {"keep", "close", "detach"}
    /\ Env \subseteq {"pipeline", "leave", "idle", "malformed", "exhaust"}

Req == 1..NReq
May(what) == IF what \in Env THEN BOOLEAN ELSE {FALSE}

VARIABLES
    obj,        \* the object: constructed, initialized or deleted
    refs,       \* m_lRefCount
    own,        \* the reference the object was made with has not been given up
    timer,      \* the constructor's SetTimer, whose result it ignores, has succeeded
    fd,         \* the descriptor: in m_nFD, closed, left to a request handler, or
                \* refused by OnAccept
    closes,     \* how often close() was called on it
    interest,   \* what the event is registered for
    keepAlive,  \* m_bKeepAlive
    sendq,      \* m_lstSendBuffers, by request
    io,         \* where the I/O thread is
    msgs,       \* message events of the object that the engine has yet to handle
    work,       \* how far each request has come
    thread,     \* the thread of the pool that has its task, or 0
    outcome,    \* what its handler decided
    sent, got,  \* requests the peer has sent and OnRead has parsed
    peer,       \* the peer is "up" or "gone"
    wire        \* responses handed to the kernel

vars == <<obj, refs, own, timer, fd, closes, interest, keepAlive, sendq, io, msgs, work,
          thread, outcome, sent, got, peer, wire>>

\* What CTimer::SetTimer may return: it makes a timerfd and registers it.
SetTimer == IF "exhaust" \in Env THEN BOOLEAN ELSE {TRUE}

Init ==
    /\ obj = "new"
    /\ refs = 1
    /\ own = TRUE
    /\ timer \in SetTimer
    /\ fd = "open"
    /\ closes = 0
    /\ interest = {}
    /\ keepAlive = TRUE
    /\ sendq = <<>>
    /\ io = "loop"
    /\ msgs = {}
    /\ work = [r \in Req |-> "none"]
    /\ thread = [r \in Req |-> 0]
    /\ outcome = [r \in Req |-> "none"]
    /\ sent = 0
    /\ got = 0
    /\ peer = "up"
    /\ wire = <<>>

-----------------------------------------------------------------------------
(* What handlers have in common. *)

\* Mutant of Close: m_nFD keeps its value.
CloseKeepsFD ==
    /\ interest' = {}
    /\ fd' = fd
    /\ closes' = IF fd = "open" THEN closes + 1 ELSE closes

\* Unregister and CClientEvent::Close, as OnError does.
Close ==
    /\ interest' = {}
    /\ fd' = IF fd = "open" THEN "closed" ELSE fd
    /\ closes' = IF fd = "open" THEN closes + 1 ELSE closes

\* Mutant of Detach: the base class closes the descriptor it gives up.
DetachCloses ==
    /\ interest' = {}
    /\ fd' = IF fd = "open" THEN "closed" ELSE fd
    /\ closes' = IF fd = "open" THEN closes + 1 ELSE closes

\* CClientEvent::Detach(False).
Detach ==
    /\ interest' = {}
    /\ fd' = IF fd = "open" THEN "detached" ELSE fd
    /\ UNCHANGED closes

\* Mutant of Release: the object stays.
ReleaseKeeps ==
    /\ refs' = refs - 1
    /\ UNCHANGED obj

\* CReference::Release.
Release ==
    /\ refs' = refs - 1
    /\ obj' = IF refs = 1 THEN "deleted" ELSE obj

\* Mutant of Enqueue: a first response does not make the queue watched for room.
EnqueueUnwatched(r, mask) ==
    /\ sendq' = Append(sendq, r)
    /\ interest' = mask

\* What epoll may watch an open descriptor for once it has been asked to: a new
\* registration can fail, an old one is changed.
Registered(old, new) == IF old = {} /\ "exhaust" \in Env THEN {{}, new} ELSE {new}

\* CClientEvent::Send(pBuffer, False) puts a response in a queue that epoll watches
\* for mask.  There is nothing to register when there is no descriptor any more.
Enqueue(r, mask) ==
    /\ sendq' = Append(sendq, r)
    /\ interest' \in IF fd = "open" /\ sendq = <<>> THEN Registered(mask, {"in", "out"})
                     ELSE {mask}

\* Mutant of OnMessageSent: the connection is always kept.
OnMessageSentKeeps ==
    /\ interest' = {"in"}
    /\ UNCHANGED <<fd, closes>>

\* Mutant of OnMessageSent: the connection is still watched for room.
OnMessageSentWatches ==
    /\ interest' = IF keepAlive THEN {"in", "out"} ELSE {}
    /\ fd' = IF keepAlive THEN fd ELSE "closed"
    /\ closes' = IF keepAlive THEN closes ELSE closes + 1

\* The queue has been written.
OnMessageSent ==
    IF keepAlive
    THEN interest' = {"in"} /\ UNCHANGED <<fd, closes>>
    ELSE Close

-----------------------------------------------------------------------------
(* Around the connection. *)

\* CFrameServer::OnAccept.
Accept ==
    /\ obj = "new"
    /\ obj' = "live"
    /\ interest' = {"in"}
    /\ UNCHANGED <<refs, own, timer, fd, closes, keepAlive, sendq, io, msgs, work,
                   thread, outcome, sent, got, peer, wire>>

\* RegisterRead failed: OnAccept releases the object, which closes the descriptor,
\* and returns False, upon which CInetListener::OnRead closes it too.
AcceptFails ==
    /\ "exhaust" \in Env
    /\ obj = "new"
    /\ Release
    /\ fd' = "refused"
    /\ closes' = closes + 2
    /\ UNCHANGED <<own, timer, interest, keepAlive, sendq, io, msgs, work, thread,
                   outcome, sent, got, peer, wire>>

PeerSends ==
    /\ peer = "up"
    /\ sent < NReq
    /\ "pipeline" \in Env \/ Len(wire) = sent
    /\ sent' = sent + 1
    /\ work' = [work EXCEPT ![sent + 1] = "sent"]
    /\ UNCHANGED <<obj, refs, own, timer, fd, closes, interest, keepAlive, sendq, io,
                   msgs, thread, outcome, got, peer, wire>>

\* No request is to be expected any more: the stream has ended, is broken or is not HTTP.
PeerLeaves ==
    /\ Env \cap {"leave", "malformed"} # {}
    /\ peer = "up"
    /\ peer' = "gone"
    /\ UNCHANGED <<obj, refs, own, timer, fd, closes, interest, keepAlive, sendq, io,
                   msgs, work, thread, outcome, sent, got, wire>>

-----------------------------------------------------------------------------
(* The I/O thread. *)

\* OnRead is called, or goes on while there is a descriptor.
Reading ==
    \/ io = "loop" /\ obj = "live" /\ "in" \in interest
    \/ io = "reading" /\ fd = "open"

\* HandleMessage(pMsg, False): the event is unregistered while the handler decides, then
\* registered for reading again, and the response is queued.
HandleHere(r) ==
    /\ NWorker = 0
    /\ UNCHANGED thread
    /\ work' = [work EXCEPT ![r] = "done"]
    /\ \E o \in Outcome :
          /\ outcome' = [outcome EXCEPT ![r] = o]
          /\ IF o = "detach"
             THEN Detach /\ UNCHANGED <<keepAlive, sendq>>
             ELSE /\ \E mask \in Registered({}, {"in"}) : Enqueue(r, mask)
                  /\ keepAlive' = (o = "keep")
                  /\ UNCHANGED <<fd, closes>>

\* Where AddTask may post a task: to any thread, as the payloads it compares count the
\* tasks of other connections, too.  Threads without a task of this connection are
\* alike, and the first of them stands for all.
Choice == {w \in 1..NWorker : \A v \in 1..(w - 1) : \E r \in Req : thread[r] = v}

\* CFrameServer::DispatchMessage: the request becomes a task of one thread of the pool,
\* without a reference to the object; if it cannot be posted the request is forgotten.
HandToPool(r) ==
    /\ NWorker > 0
    /\ \/ /\ work' = [work EXCEPT ![r] = "task"]
          /\ \E w \in Choice : thread' = [thread EXCEPT ![r] = w]
       \/ /\ "exhaust" \in Env
          /\ work' = [work EXCEPT ![r] = "dropped"]
          /\ UNCHANGED thread
    /\ UNCHANGED <<outcome, keepAlive, sendq, interest, fd, closes>>

\* OnRead, Parse and OnMessageComplete for one more request.
ReadRequest ==
    /\ Reading
    /\ got < sent
    /\ io' = "reading"
    /\ got' = got + 1
    /\ \/ HandleHere(got + 1) \/ HandToPool(got + 1)
       \/ /\ "malformed" \in Env
          /\ Close
          /\ work' = [work EXCEPT ![got + 1] = "dropped"]
          /\ UNCHANGED <<thread, outcome, keepAlive, sendq>>
    /\ UNCHANGED <<obj, refs, own, timer, msgs, sent, peer, wire>>

\* OnRead is over: nothing is left to receive, or the descriptor is gone.
ReadEnds ==
    /\ io = "reading"
    /\ got = sent \/ fd # "open"
    /\ io' = "loop"
    /\ UNCHANGED <<obj, refs, own, timer, fd, closes, interest, keepAlive, sendq, msgs,
                   work, thread, outcome, sent, got, peer, wire>>

\* End of stream, a socket error or a parse error, met by OnRead, OnWrite or epoll.
OnError ==
    /\ Reading \/ (io = "loop" /\ obj = "live" /\ interest # {})
    /\ peer = "gone"
    /\ Close
    /\ io' = "loop"
    /\ UNCHANGED <<obj, refs, own, timer, keepAlive, sendq, msgs, work, thread, outcome,
                   sent, got, peer, wire>>

\* OnWrite: some or all of the queued responses go out.
OnWrite ==
    /\ io = "loop"
    /\ obj = "live"
    /\ "out" \in interest
    /\ \E n \in 1..Len(sendq) :
          /\ wire' = wire \o SubSeq(sendq, 1, n)
          /\ sendq' = SubSeq(sendq, n + 1, Len(sendq))
          /\ IF n = Len(sendq) THEN OnMessageSent ELSE UNCHANGED <<interest, fd, closes>>
    /\ UNCHANGED <<obj, refs, own, timer, keepAlive, io, msgs, work, thread, outcome,
                   sent, got, peer>>

\* OnMessageEvent: a worker's response arrives and its reference is released.
OnSyncBuffer(r) ==
    /\ io = "loop"
    /\ <<"buffer", r>> \in msgs
    /\ msgs' = msgs \ {<<"buffer", r>>}
    /\ Enqueue(r, interest)
    /\ Release
    /\ UNCHANGED <<own, timer, fd, closes, keepAlive, io, work, thread, outcome, sent,
                   got, peer, wire>>

\* OnMessageEvent: the descriptor is given up and the waiting worker goes on.
OnDetach(r) ==
    /\ io = "loop"
    /\ <<"detach", r>> \in msgs
    /\ msgs' = msgs \ {<<"detach", r>>}
    /\ Detach
    /\ work' = [work EXCEPT ![r] = "done"]
    /\ thread' = [thread EXCEPT ![r] = 0]
    /\ UNCHANGED <<obj, refs, own, timer, keepAlive, sendq, io, outcome, sent,
                   got, peer, wire>>

\* CHttpClientEvent::OnTimer up to GetRef() == 1 in CClientEvent::OnTimer; idle when
\* m_lLinkTimeout has passed.
OnTimer(idle) ==
    /\ timer
    /\ io = "loop"
    /\ obj = "live"
    /\ IF idle THEN Close ELSE UNCHANGED <<fd, closes, interest>>
    /\ io' = IF fd' # "open" /\ refs = 1 THEN "releasing" ELSE "loop"
    /\ UNCHANGED <<obj, refs, own, timer, keepAlive, sendq, msgs, work, thread, outcome,
                   sent, got, peer, wire>>

OnTimerReleases ==
    /\ io = "releasing"
    /\ io' = "loop"
    /\ Release
    /\ own' = FALSE
    /\ UNCHANGED <<timer, fd, closes, interest, keepAlive, sendq, msgs, work, thread, outcome,
                   sent, got, peer, wire>>

IOThread ==
    \/ ReadRequest \/ ReadEnds \/ OnError \/ OnWrite \/ OnTimer(FALSE) \/ OnTimerReleases
    \/ \E r \in Req : OnSyncBuffer(r) \/ OnDetach(r)

-----------------------------------------------------------------------------
(* The worker threads: HandleMessage(pMsg, True). *)

\* A thread of the pool handles its messages one at a time, in any order.
Busy(w) == \E r \in Req :
    thread[r] = w /\ work[r] \in {"respond", "mark", "close", "detaching"}

\* OnPreCheckRequest; if it returns False, Detach(True) posts a message and waits,
\* for ever when the message could not be posted.
WorkerChecks(r) ==
    /\ work[r] = "task"
    /\ ~Busy(thread[r])
    /\ \E o \in Outcome :
          /\ outcome' = [outcome EXCEPT ![r] = o]
          /\ work' = [work EXCEPT ![r] = IF o = "detach" THEN "detaching" ELSE "respond"]
          /\ \E fails \in May("exhaust") :
                msgs' = IF o = "detach" /\ ~fails THEN msgs \cup {<<"detach", r>>} ELSE msgs
    /\ UNCHANGED <<obj, refs, own, timer, fd, closes, interest, keepAlive, sendq, io,
                   thread, sent, got, peer, wire>>

\* Mutant of WorkerSends: no reference for the message.
WorkerSendsNoRef(r) ==
    /\ work[r] = "respond"
    /\ msgs' = msgs \cup {<<"buffer", r>>}
    /\ work' = [work EXCEPT ![r] = "mark"]
    /\ UNCHANGED <<obj, refs, own, timer, fd, closes, interest, keepAlive, sendq, io,
                   thread, outcome, sent, got, peer, wire>>

\* Send(pBuffer, True): AddRef and PostMessage, whose result is ignored.
WorkerSends(r) ==
    /\ work[r] = "respond"
    /\ refs' = refs + 1
    /\ \E fails \in May("exhaust") :
          msgs' = IF fails THEN msgs ELSE msgs \cup {<<"buffer", r>>}
    /\ work' = [work EXCEPT ![r] = "mark"]
    /\ UNCHANGED <<obj, own, timer, fd, closes, interest, keepAlive, sendq, io, thread,
                   outcome, sent, got, peer, wire>>

\* m_bKeepAlive is written after the response has been sent on its way.
WorkerMarks(r) ==
    /\ work[r] \in {"mark", "close"}
    /\ keepAlive' = (work[r] = "mark")
    /\ work' = [work EXCEPT ![r] = IF @ = "mark" /\ outcome[r] = "close" THEN "close" ELSE "done"]
    /\ thread' = [thread EXCEPT ![r] = IF work'[r] = "done" THEN 0 ELSE @]
    /\ UNCHANGED <<obj, refs, own, timer, fd, closes, interest, sendq, io, msgs,
                   outcome, sent, got, peer, wire>>

\* Once the object is deleted the model stops: see NoUseAfterDelete.
Worker(r) == obj # "deleted" /\ (WorkerChecks(r) \/ WorkerSends(r) \/ WorkerMarks(r))

Next ==
    \/ Accept \/ AcceptFails \/ PeerSends \/ PeerLeaves
    \/ obj # "deleted" /\ IOThread
    \/ obj # "deleted" /\ "idle" \in Env /\ OnTimer(TRUE)
    \/ \E r \in Req : Worker(r)

\* The I/O thread and the workers keep running; OnAccept goes on.  That a connection
\* is ever idle for so long is not taken for granted.
Fairness ==
    /\ WF_vars(Accept)
    /\ WF_vars(obj # "deleted" /\ IOThread)
    /\ \A r \in Req : WF_vars(Worker(r))

Spec == Init /\ [][Next]_vars /\ Fairness

-----------------------------------------------------------------------------
TypeOK ==
    /\ obj \in {"new", "live", "deleted"}
    /\ refs \in 0..(NReq + 1)
    /\ own \in BOOLEAN
    /\ timer \in BOOLEAN
    /\ fd \in {"open", "closed", "detached", "refused"}
    /\ closes \in 0..2
    /\ interest \in SUBSET {"in", "out"}
    /\ keepAlive \in BOOLEAN
    /\ Len(sendq) \in 0..NReq
    /\ io \in {"loop", "reading", "releasing"}
    /\ msgs \subseteq {"buffer", "detach"} \X Req
    /\ work \in [Req -> {"none", "sent", "task", "respond", "mark", "close", "detaching",
                         "dropped", "done"}]
    /\ thread \in [Req -> 0..NWorker]
    /\ outcome \in [Req -> {"none", "keep", "close", "detach"}]
    /\ sent \in 0..NReq /\ got \in 0..sent
    /\ peer \in {"up", "gone"}
    /\ Len(wire) \in 0..NReq

\* Whenever the engine waits, an open connection is watched for requests, and for
\* room exactly when responses are queued: "send a message to the peer of the
\* socket" (ClientEvent.cpp:255) needs it, as nothing but OnWrite sends.
InterestFollowsQueue ==
    obj = "live" /\ fd = "open" /\ io = "loop" =>
        interest = IF sendq = <<>> THEN {"in"} ELSE {"in", "out"}

\* The response of r was given a reference, and a message that could not be posted.
Leaked(r) ==
    /\ work[r] \in {"mark", "close", "done"}
    /\ outcome[r] # "detach"
    /\ <<"buffer", r>> \notin msgs
    /\ \A i \in 1..Len(sendq) : sendq[i] # r
    /\ \A i \in 1..Len(wire) : wire[i] # r

\* A worker waits in Detach for a message that could not be posted.
Stuck(r) == work[r] = "detaching" /\ <<"detach", r>> \notin msgs

\* The task of r waits for the thread of such a worker, whatever the others do.
BehindStuck(r) == work[r] = "task" /\ \E q \in Req : Stuck(q) /\ thread[q] = thread[r]

\* The references are the object's own, until OnTimer gives it up, and one for each
\* response that a worker has posted and OnMessageEvent has not seen (or never will):
\* so also when the descriptor is gone, and when OnTimer asks for GetRef() == 1
\* (ClientEvent.cpp:165,199,266), which then finds that no response is owed.  It may
\* be owed again before the Release that follows: see OnTimerReleases.
RefsCounted ==
    obj = "live" /\ own =>
        refs = 1 + Cardinality({r \in Req : <<"buffer", r>> \in msgs \/ Leaked(r)})

\* The descriptor is closed once and only while it is the object's: no order of
\* errors, timeouts, responses and destruction closes it twice or closes one that
\* was left to a handler.  (A connection refused by OnAccept is closed twice.)
OneClose == fd # "refused" => closes = IF fd = "closed" THEN 1 ELSE 0

\* A handler that returned False from OnPreCheckRequest has the socket: "the
\* framework will unbind the socket, I/O events on it are handled by the upper
\* layer" (HttpClientEvent.h:29).
DetachKeepsSocket ==
    \A r \in Req : outcome[r] = "detach" /\ work[r] = "done" => fd = "detached"

\* "If the response says Connection: close, the connection is released when the
\* response is done" (HttpClientEvent.cpp:91): it does not stay open with nothing
\* left to write.
CloseHonoured ==
    \A i \in 1..Len(wire) :
        outcome[wire[i]] = "close" /\ sendq = <<>> /\ io = "loop" => fd # "open"

\* A worker, a waiting task or a message that will touch the object finds it there:
\* "the reference count of the CHttpClientEvent has been increased before the call"
\* (HttpClientEvent.cpp:45).
NoUseAfterDelete ==
    obj = "deleted" =>
        /\ msgs = {}
        /\ \A r \in Req : work[r] \notin {"task", "respond", "mark", "close"}

\* A request is answered unless the connection goes away, SetMessage rejects it, or
\* want of resources loses its task or its response, or blocks its worker or the
\* thread its task was given to, while others may be idle.
RequestAnswered ==
    \A r \in Req : work[r] = "sent" ~> \/ fd # "open"
                                       \/ work[r] = "dropped"
                                       \/ \E i \in 1..Len(wire) : wire[i] = r
                                       \/ NWorker > 0 /\ (Stuck(r) \/ BehindStuck(r) \/ Leaked(r))

\* Once the connection is over the timer deletes the object, unless it was never set,
\* which nobody is told, or want of resources has lost a message with a reference or
\* a worker waits for ever in Detach.
ObjectIsFreed ==
    obj = "live" /\ fd # "open" ~>
        \/ obj = "deleted"
        \/ ~timer
        \/ NWorker > 0 /\ \E r \in Req : Leaked(r) \/ Stuck(r)

=============================================================================
