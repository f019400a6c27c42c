----------------------------- MODULE HttpLinkProofs -----------------------------
(***************************************************************************)
(* For any number of requests and of workers, and whatever handlers, peer  *)
(* and resources do: the descriptor of an HTTP connection is closed once,  *)
(* the references are those that are owed until the timer gives up the     *)
(* object's own, and, when the requests go to a pool, epoll watches for    *)
(* what the queue needs.                                                   *)
(***************************************************************************)
EXTENDS HttpLink, FiniteSetTheorems, SequenceTheorems, TLAPS

Types ==
    /\ obj \in {"new", "live", "deleted"}
    /\ refs \in Int
    /\ fd \in {"open", "closed", "detached", "refused"}
    /\ io \in {"loop", "reading", "releasing"}
    /\ sendq \in Seq(Req) /\ wire \in Seq(Req)
    /\ msgs \subseteq {"buffer", "detach"} \X Req
    /\ work \in [Req -> {"none", "sent", "task", "respond", "mark", "close", "detaching",
                         "dropped", "done"}]
    /\ outcome \in [Req -> {"none", "keep", "close", "detach"}]
    /\ sent \in 0..NReq /\ got \in 0..sent

\* Before OnAccept has registered the object nothing has happened to it, and its
\* last reference is released only when the descriptor is no longer its own.
Early ==
    /\ obj = "new" =>
          /\ refs = 1 /\ sendq = <<>> /\ msgs = {} /\ io = "loop"
          /\ \A r \in Req : work[r] \in {"none", "sent"}
    /\ io = "releasing" => fd # "open"

Posted(r)   == <<"buffer", r>> \in msgs
Answered(r) == \/ \E i \in 1..Len(sendq) : sendq[i] = r
               \/ \E i \in 1..Len(wire) : wire[i] = r

\* How far the response of each request can be, by where its handler is.
History ==
    \A r \in Req :
        /\ r > got => work[r] \in {"none", "sent"}
        /\ Posted(r) \/ Answered(r) => work[r] \in {"mark", "close", "done"}
        /\ work[r] \in {"respond", "mark", "close"} => outcome[r] # "detach"
        /\ <<"detach", r>> \in msgs => outcome[r] = "detach" /\ work[r] = "detaching"

\* The requests that a reference is held for.
Held == {r \in Req : Posted(r) \/ Leaked(r)}

IInv == Types /\ Early /\ History /\ OneClose /\ RefsCounted

\* A set that holds as many, one more or one less request.
LEMMA HeldCount ==
    /\ IsFiniteSet(Held) /\ Cardinality(Held) \in Nat
    /\ \A r : r \notin Held => Cardinality(Held \cup {r}) = Cardinality(Held) + 1
    /\ \A r : r \in Held => Cardinality(Held \ {r}) = Cardinality(Held) - 1
<1>1. IsFiniteSet(Req)
    BY HttpLinkAssumption, FS_Interval DEF Req
<1>2. IsFiniteSet(Held)
    BY <1>1, FS_Subset DEF Held
<1>3. QED
    BY <1>2, FS_CardinalityType, FS_AddElement, FS_RemoveElement

\* RefsCounted and Held in the terms of this module, before and after a step.
LEMMA RefsCountedHeld ==
    /\ RefsCounted <=> (obj = "live" /\ own => refs = 1 + Cardinality(Held))
    /\ RefsCounted' <=> (obj' = "live" /\ own' => refs' = 1 + Cardinality(Held'))
BY DEF RefsCounted, Held, Posted

Owed(r) == \/ Posted(r)
           \/ /\ work[r] \in {"mark", "close", "done"}
              /\ outcome[r] # "detach"
              /\ ~Answered(r)

LEMMA HeldIs ==
    /\ \A r : r \in Held <=> r \in Req /\ Owed(r)
    /\ \A r : r \in Held' <=> r \in Req /\ Owed(r)'
BY DEF Held, Leaked, Owed, Posted, Answered

-----------------------------------------------------------------------------
LEMMA InitIInv == Init => IInv
<1> SUFFICES ASSUME Init PROVE IInv
    OBVIOUS
<1>1. Types
    BY HttpLinkAssumption DEF Init, Types, Req
<1>2. Early /\ History /\ OneClose /\ RefsCounted
    BY DEF Init, Early, History, OneClose, RefsCounted, Posted, Answered
<1>3. QED
    BY <1>1, <1>2 DEF IInv

\* The descriptor: every step that closes it or gives it up does so at most once.
LEMMA NextOneClose == OneClose /\ [Next]_vars => OneClose'
<1> SUFFICES ASSUME OneClose, [Next]_vars PROVE OneClose'
    OBVIOUS
<1> USE DEF OneClose
<1>1. CASE Close \/ Detach \/ OnMessageSent \/ UNCHANGED <<fd, closes>>
    BY <1>1 DEF Close, Detach, OnMessageSent
<1>2. CASE Accept \/ AcceptFails \/ PeerSends \/ PeerLeaves
    BY <1>2 DEF Accept, AcceptFails, PeerSends, PeerLeaves
<1>3. ASSUME NEW r \in Req, Worker(r) PROVE OneClose'
    BY <1>1, <1>3 DEF Worker, WorkerChecks, WorkerSends, WorkerMarks
<1>4. ASSUME NEW r \in Req, OnSyncBuffer(r) \/ OnDetach(r) PROVE OneClose'
    BY <1>1, <1>4 DEF OnSyncBuffer, OnDetach
<1>5. CASE ReadRequest
    BY <1>1, <1>5 DEF ReadRequest, HandleHere, HandToPool
<1>6. CASE ReadEnds \/ OnError \/ OnWrite \/ OnTimerReleases
    BY <1>1, <1>6 DEF ReadEnds, OnError, OnWrite, OnTimerReleases
<1>7. ASSUME NEW idle \in BOOLEAN, OnTimer(idle) PROVE OneClose'
    BY <1>1, <1>7 DEF OnTimer
<1>8. CASE UNCHANGED vars
    BY <1>1, <1>8 DEF vars
<1>9. QED
    BY <1>2, <1>3, <1>4, <1>5, <1>6, <1>7, <1>8 DEF Next, IOThread

\* What a handler that only touches descriptor, interest, flags or the thread leaves of
\* the history, and of the references.
LEMMA QuietIInv ==
    ASSUME IInv, OneClose', UNCHANGED <<obj, refs, own, sendq, wire, msgs, work, outcome, sent, got>>,
           fd' \in {"open", "closed", "detached", "refused"}, fd' = "open" => fd = "open",
           io' \in {"loop", "reading", "releasing"}, io' = "releasing" => fd' # "open",
           obj = "new" => io' = "loop"
    PROVE  IInv'
<1>1. Types' /\ Early'
    BY DEF IInv, Types, Early
<1>2. Held' = Held /\ History'
    BY DEF IInv, History, Held, Posted, Answered, Leaked
<1>3. RefsCounted'
    BY <1>2, RefsCountedHeld DEF IInv
<1>4. QED
    BY <1>1, <1>2, <1>3 DEF IInv

-----------------------------------------------------------------------------
(* The queue and what has been written. *)

LEMMA AppendFacts ==
    ASSUME sendq \in Seq(Req), NEW r \in Req, sendq' = Append(sendq, r), wire' = wire
    PROVE  /\ sendq' \in Seq(Req)
           /\ \A q : Answered(q)' <=> Answered(q) \/ q = r
<1>1. /\ sendq' \in Seq(Req) /\ Len(sendq) \in Nat /\ Len(sendq') = Len(sendq) + 1
      /\ sendq'[Len(sendq) + 1] = r
      /\ \A i \in 1..Len(sendq) : sendq'[i] = sendq[i]
    OBVIOUS
<1>2. \A q : (\E i \in 1..Len(sendq') : sendq'[i] = q)
              <=> (\E i \in 1..Len(sendq) : sendq[i] = q) \/ q = r
    BY <1>1
<1>3. QED
    BY <1>1, <1>2 DEF Answered

LEMMA WriteFacts ==
    ASSUME sendq \in Seq(Req), wire \in Seq(Req), NEW n \in 1..Len(sendq),
           wire' = wire \o SubSeq(sendq, 1, n), sendq' = SubSeq(sendq, n + 1, Len(sendq))
    PROVE  /\ sendq' \in Seq(Req) /\ wire' \in Seq(Req)
           /\ n = Len(sendq) <=> sendq' = <<>>
           /\ \A q : Answered(q)' <=> Answered(q)
<1> DEFINE w == Len(wire)
           l == Len(sendq)
<1>1. /\ w \in Nat /\ l \in Nat /\ n \in Nat /\ n <= l /\ n >= 1
      /\ sendq' \in Seq(Req) /\ wire' \in Seq(Req)
      /\ Len(sendq') = l - n /\ Len(wire') = w + n
    OBVIOUS
<1>2. /\ \A i \in 1..w : wire'[i] = wire[i]
      /\ \A i \in 1..n : wire'[w + i] = sendq[i]
      /\ \A i \in 1..(l - n) : sendq'[i] = sendq[n + i]
    BY <1>1
<1>3. ASSUME NEW q, Answered(q) PROVE Answered(q)'
  <2>1. CASE \E i \in 1..w : wire[i] = q
      BY <1>1, <1>2, <2>1 DEF Answered
  <2>2. ASSUME NEW i \in 1..l, sendq[i] = q PROVE Answered(q)'
    <3>1. CASE i <= n
      <4>1. i \in 1..n /\ w + i \in 1..(w + n)
          BY <1>1, <2>2, <3>1
      <4>2. QED
          BY <1>1, <1>2, <2>2, <4>1 DEF Answered
    <3>2. CASE i > n
      <4>1. i - n \in 1..(l - n) /\ n + (i - n) = i
          BY <1>1, <3>2
      <4>2. QED
          BY <1>1, <1>2, <2>2, <4>1 DEF Answered
    <3>3. QED
        BY <1>1, <3>1, <3>2
  <2>3. QED
      BY <1>3, <2>1, <2>2 DEF Answered
<1>4. ASSUME NEW q, Answered(q)' PROVE Answered(q)
  <2>1. ASSUME NEW i \in 1..(w + n), wire'[i] = q PROVE Answered(q)
    <3>1. CASE i <= w
        BY <1>1, <1>2, <2>1, <3>1 DEF Answered
    <3>2. CASE i > w
      <4>1. i - w \in 1..n /\ w + (i - w) = i /\ i - w \in 1..l
          BY <1>1, <3>2
      <4>2. QED
          BY <1>2, <2>1, <4>1 DEF Answered
    <3>3. QED
        BY <1>1, <3>1, <3>2
  <2>2. ASSUME NEW i \in 1..(l - n), sendq'[i] = q PROVE Answered(q)
    <3>1. n + i \in 1..l
        BY <1>1
    <3>2. QED
        BY <1>2, <2>2, <3>1 DEF Answered
  <2>3. QED
      BY <1>1, <1>4, <2>1, <2>2 DEF Answered
<1>5. n = l <=> sendq' = <<>>
  <2>1. sendq' # <<>> => Len(sendq') \in Nat \ {0}
      BY <1>1, EmptySeq
  <2>2. sendq' = <<>> => Len(sendq') = 0
      BY EmptySeq
  <2>3. QED
      BY <1>1, <2>1, <2>2
<1>6. QED
    BY <1>1, <1>3, <1>4, <1>5

-----------------------------------------------------------------------------
(* One lemma per operation. *)

LEMMA OpenIInv == ASSUME IInv, OneClose', Accept \/ AcceptFails PROVE IInv'
<1>1. CASE Accept
  <2>1. Held' = {}
      BY <1>1, HeldIs DEF Accept, IInv, Early, Owed, Posted
  <2>2. Types' /\ Early' /\ History'
      BY <1>1 DEF Accept, IInv, Types, Early, History, Posted, Answered
  <2>3. RefsCounted'
      BY <1>1, <2>1, FS_EmptySet, RefsCountedHeld DEF Accept, IInv, Early
  <2>4. QED
      BY <2>2, <2>3 DEF IInv
<1>2. CASE AcceptFails
    BY <1>2 DEF AcceptFails, Release, IInv, Types, Early, History, RefsCounted, Posted, Answered
<1>3. QED
    BY <1>1, <1>2

\* A step that changes the progress of one request, for which no reference is held
\* before or after.
LEMMA WorkIInv ==
    ASSUME IInv, Types', OneClose', NEW r \in Req,
           r \notin Held, r \notin Held',
           UNCHANGED <<refs, own, obj, wire>>,
           fd' = "open" => fd = "open",
           io' = "releasing" => fd' # "open",
           obj # "new" \/ (UNCHANGED <<sendq, msgs, io>> /\ work'[r] \in {"none", "sent"}),
           \A q \in Req \ {r} :
              /\ work'[q] = work[q] /\ outcome'[q] = outcome[q]
              /\ Posted(q)' <=> Posted(q)
              /\ Answered(q)' <=> Answered(q)
              /\ <<"detach", q>> \in msgs' <=> <<"detach", q>> \in msgs
              /\ q > got' => q > got,
           r > got' => work'[r] \in {"none", "sent"},
           (Posted(r) \/ Answered(r))' => work'[r] \in {"mark", "close", "done"},
           work'[r] \in {"respond", "mark", "close"} => outcome'[r] # "detach",
           <<"detach", r>> \in msgs' => outcome'[r] = "detach" /\ work'[r] = "detaching"
    PROVE  IInv'
<1>1. Held' = Held
  <2>1. \A q \in Req \ {r} : q \in Held' <=> q \in Held
      BY HeldIs DEF Owed
  <2>2. Held \subseteq Req /\ Held' \subseteq Req
      BY DEF Held
  <2>3. QED
      BY <2>1, <2>2
<1>2. RefsCounted'
    BY <1>1, RefsCountedHeld DEF IInv
<1>3. History'
    BY DEF IInv, History
<1>4. Early'
    BY DEF IInv, Early
<1>5. QED
    BY <1>2, <1>3, <1>4 DEF IInv

LEMMA PeerSendsIInv == ASSUME IInv, OneClose', PeerSends PROVE IInv'
<1> DEFINE r == sent + 1
<1>1. /\ r \in Req /\ r > got /\ got \in Nat /\ sent' = r /\ sent' \in 0..NReq /\ got' \in 0..sent'
      /\ work' = [work EXCEPT ![r] = "sent"]
    BY HttpLinkAssumption DEF PeerSends, IInv, Types, Req
<1> HIDE DEF r
<1>2. UNCHANGED <<obj, refs, own, fd, sendq, io, msgs, outcome, got, wire>>
    BY DEF PeerSends
<1>3. Types'
    BY <1>1, <1>2 DEF IInv, Types
<1>4. ~Posted(r) /\ ~Answered(r) /\ work[r] \in {"none", "sent"} /\ work'[r] = "sent"
    BY <1>1 DEF IInv, Types, History
<1>5. \A q : (Posted(q)' <=> Posted(q)) /\ (Answered(q)' <=> Answered(q))
    BY <1>2 DEF Posted, Answered
<1>6. r \notin Held /\ r \notin Held'
    BY <1>4, <1>5, HeldIs DEF Owed
<1>7. <<"detach", r>> \notin msgs'
    BY <1>1, <1>2, <1>4 DEF IInv, History
<1>8. \A q \in Req \ {r} : work'[q] = work[q]
    BY <1>1 DEF IInv, Types
<1>9. io' = "releasing" => fd' # "open"
    BY <1>2 DEF IInv, Early
<1>10. QED
    BY <1>1, <1>2, <1>3, <1>4, <1>5, <1>6, <1>7, <1>8, <1>9, WorkIInv

LEMMA ReadRequestIInv == ASSUME IInv, OneClose', ReadRequest PROVE IInv'
<1> DEFINE r == got + 1
<1>1. /\ r \in Req /\ r > got /\ got \in Nat /\ got' = r /\ got' \in 0..sent
      /\ ~(r > got') /\ \A q \in Req : q > got' => q > got
    BY HttpLinkAssumption DEF ReadRequest, IInv, Types, Req
<1>2. /\ obj # "new" /\ io' = "reading" /\ UNCHANGED <<obj, refs, own, msgs, sent, peer, wire>>
    BY DEF ReadRequest, Reading, IInv, Early
<1>3. ~Posted(r) /\ ~Answered(r) /\ work[r] \in {"none", "sent"}
    BY <1>1 DEF IInv, Types, History
<1>4. <<"detach", r>> \notin msgs'
    BY <1>1, <1>2, <1>3 DEF IInv, History
<1>5. r \notin Held
    BY <1>3, HeldIs DEF Owed
<1>6. \A q : Posted(q)' <=> Posted(q)
    BY <1>2 DEF Posted
<1>7. fd' \in {"open", "closed", "detached", "refused"} /\ (fd' = "open" => fd = "open")
    BY DEF ReadRequest, HandleHere, HandToPool, Close, Detach, IInv, Types
<1>8. CASE HandleHere(r)
  <2> HIDE DEF r
  <2>1. PICK o \in Outcome :
           /\ outcome' = [outcome EXCEPT ![r] = o]
           /\ IF o = "detach" THEN sendq' = sendq ELSE sendq' = Append(sendq, r)
      BY <1>8 DEF HandleHere, Enqueue
  <2>2. /\ work' = [work EXCEPT ![r] = "done"]
        /\ work'[r] = "done" /\ outcome'[r] = o /\ o \in {"keep", "close", "detach"}
        /\ outcome' \in [Req -> {"none", "keep", "close", "detach"}]
        /\ \A q \in Req \ {r} : work'[q] = work[q] /\ outcome'[q] = outcome[q]
      BY <1>1, <1>8, <2>1, HttpLinkAssumption DEF HandleHere, IInv, Types
  <2>3. CASE o = "detach"
    <3>1. sendq' = sendq /\ \A q : Answered(q)' <=> Answered(q)
        BY <1>2, <2>1, <2>3 DEF Answered
    <3>2. Types'
        BY <1>1, <1>2, <1>7, <2>2, <3>1 DEF IInv, Types
    <3>3. r \notin Held'
        BY <1>3, <1>6, <2>2, <2>3, HeldIs DEF Owed
    <3>4. QED
        BY <1>1, <1>2, <1>3, <1>4, <1>5, <1>6, <1>7, <2>2, <3>1, <3>2, <3>3, WorkIInv
  <2>4. CASE o # "detach"
    <3>1. sendq' \in Seq(Req) /\ \A q : Answered(q)' <=> Answered(q) \/ q = r
        BY <1>1, <1>2, <2>1, <2>4, AppendFacts DEF IInv, Types
    <3>2. Types'
        BY <1>1, <1>2, <1>7, <2>2, <3>1 DEF IInv, Types
    <3>3. r \notin Held'
        BY <1>3, <1>6, <2>2, <3>1, HeldIs DEF Owed
    <3>4. QED
        BY <1>1, <1>2, <1>3, <1>4, <1>5, <1>6, <1>7, <2>2, <3>1, <3>2, <3>3, WorkIInv
  <2>5. QED
      BY <2>3, <2>4
<1>9. ASSUME UNCHANGED <<outcome, sendq>>,
             work' \in {[work EXCEPT ![r] = w] : w \in {"task", "dropped"}}
      PROVE  IInv'
  <2> HIDE DEF r
  <2>1. /\ work' \in [Req -> {"none", "sent", "task", "respond", "mark", "close", "detaching",
                              "dropped", "done"}]
        /\ work'[r] \in {"task", "dropped"}
        /\ \A q \in Req \ {r} : work'[q] = work[q]
      BY <1>1, <1>9 DEF IInv, Types
  <2>2. \A q : Answered(q)' <=> Answered(q)
      BY <1>2, <1>9 DEF Answered
  <2>3. Types'
      BY <1>1, <1>2, <1>7, <1>9, <2>1 DEF IInv, Types
  <2>4. r \notin Held'
      BY <1>3, <1>6, <2>1, <2>2, HeldIs DEF Owed
  <2>5. QED
      BY <1>1, <1>2, <1>3, <1>4, <1>5, <1>6, <1>7, <1>9, <2>1, <2>2, <2>3, <2>4, WorkIInv
<1>10. CASE HandToPool(r)
    BY <1>9, <1>10 DEF HandToPool
<1>11. QED
    BY <1>8, <1>9, <1>10 DEF ReadRequest

LEMMA ThreadIInv ==
    ASSUME IInv, OneClose', NEW idle,
           PeerLeaves \/ ReadEnds \/ OnError \/ OnTimer(idle) \/ UNCHANGED vars
    PROVE  IInv'
<1>1. /\ UNCHANGED <<obj, refs, own, sendq, wire, msgs, work, outcome, sent, got>>
      /\ fd' \in {"open", "closed", "detached", "refused"}
      /\ fd' = "open" => fd = "open"
      /\ io' \in {"loop", "reading", "releasing"}
      /\ io' = "releasing" => fd' # "open"
      /\ obj = "new" => io' = "loop"
    BY DEF PeerLeaves, ReadEnds, OnError, OnTimer, Close, vars, IInv, Types, Early
<1>2. QED
    BY <1>1, QuietIInv

LEMMA OnWriteIInv == ASSUME IInv, OneClose', OnWrite PROVE IInv'
<1>1. PICK n \in 1..Len(sendq) :
         /\ wire' = wire \o SubSeq(sendq, 1, n)
         /\ sendq' = SubSeq(sendq, n + 1, Len(sendq))
         /\ IF n = Len(sendq) THEN OnMessageSent ELSE UNCHANGED <<interest, fd, closes>>
    BY DEF OnWrite
<1>2. /\ sendq' \in Seq(Req) /\ wire' \in Seq(Req)
      /\ \A q : Answered(q)' <=> Answered(q)
    BY <1>1, WriteFacts DEF IInv, Types
<1>3. /\ obj = "live" /\ io = "loop"
      /\ UNCHANGED <<obj, refs, own, io, msgs, work, outcome, sent, got>>
    BY DEF OnWrite
<1>4. fd' \in {"open", "closed", "detached", "refused"} /\ (fd' = "open" => fd = "open")
    BY <1>1 DEF OnMessageSent, Close, IInv, Types
<1>5. Types' /\ Early'
    BY <1>2, <1>3, <1>4 DEF IInv, Types, Early
<1>6. Held' = Held /\ History'
  <2>1. \A q : q \in Held' <=> q \in Held
      BY <1>2, <1>3, HeldIs DEF Owed, Posted
  <2>2. Held' \subseteq Req /\ Held \subseteq Req
      BY DEF Held
  <2>3. QED
      BY <1>2, <1>3, <2>1, <2>2 DEF IInv, History, Posted
<1>7. RefsCounted'
    BY <1>3, <1>4, <1>6, RefsCountedHeld DEF IInv
<1>8. QED
    BY <1>5, <1>6, <1>7 DEF IInv

\* The message with a response arrives, its reference goes, and the response is queued.
LEMMA OnSyncBufferIInv == ASSUME IInv, OneClose', NEW r \in Req, OnSyncBuffer(r) PROVE IInv'
<1>1. /\ Posted(r) /\ msgs' = msgs \ {<<"buffer", r>>} /\ sendq' = Append(sendq, r)
      /\ refs' = refs - 1 /\ obj' \in {obj, "deleted"} /\ obj # "new"
      /\ UNCHANGED <<own, fd, io, work, outcome, sent, got, wire>>
    BY DEF OnSyncBuffer, Enqueue, Release, Posted, IInv, Early
<1>2. sendq' \in Seq(Req) /\ \A q : Answered(q)' <=> Answered(q) \/ q = r
    BY <1>1, AppendFacts DEF IInv, Types
<1>3. /\ ~Posted(r)' /\ \A q \in Req \ {r} : Posted(q)' <=> Posted(q)
      /\ \A q : <<"detach", q>> \in msgs' <=> <<"detach", q>> \in msgs
    BY <1>1 DEF Posted
<1>4. Types' /\ Early'
    BY <1>1, <1>2 DEF IInv, Types, Early
<1>5. History'
    BY <1>1, <1>2, <1>3 DEF IInv, History
<1>6. Held' = Held \ {r} /\ r \in Held
  <2>1. r \in Held /\ r \notin Held' /\ \A q \in Req \ {r} : q \in Held' <=> q \in Held
      BY <1>1, <1>2, <1>3, HeldIs DEF Owed
  <2>2. Held' \subseteq Req /\ Held \subseteq Req
      BY DEF Held
  <2>3. QED
      BY <2>1, <2>2
<1>7. RefsCounted'
  <2>1. Cardinality(Held') = Cardinality(Held) - 1 /\ Cardinality(Held) \in Nat
      BY <1>6, HeldCount
  <2>2. obj' = "live" => obj = "live"
      BY <1>1
  <2>3. obj = "live" /\ own => refs = 1 + Cardinality(Held)
      BY RefsCountedHeld DEF IInv
  <2>4. QED
      BY <1>1, <2>1, <2>2, <2>3, RefsCountedHeld
<1>8. QED
    BY <1>4, <1>5, <1>7 DEF IInv

LEMMA OnDetachIInv == ASSUME IInv, OneClose', NEW r \in Req, OnDetach(r) PROVE IInv'
<1>1. /\ <<"detach", r>> \in msgs /\ msgs' = msgs \ {<<"detach", r>>}
      /\ work' = [work EXCEPT ![r] = "done"] /\ io = "loop"
      /\ UNCHANGED <<obj, refs, own, sendq, io, outcome, sent, got, wire>>
    BY DEF OnDetach
<1>2. outcome[r] = "detach" /\ work[r] = "detaching" /\ obj # "new" /\ ~(r > got)
      /\ ~Posted(r) /\ ~Answered(r)
    BY <1>1 DEF IInv, History, Early
<1>3. fd' \in {"open", "closed", "detached", "refused"} /\ (fd' = "open" => fd = "open")
    BY DEF OnDetach, Detach, IInv, Types
<1>4. \A q : /\ Posted(q)' <=> Posted(q)
             /\ Answered(q)' <=> Answered(q)
    BY <1>1 DEF Posted, Answered
<1>5. /\ \A q \in Req \ {r} : work'[q] = work[q]
                              /\ (<<"detach", q>> \in msgs' <=> <<"detach", q>> \in msgs)
      /\ work'[r] = "done" /\ <<"detach", r>> \notin msgs'
    BY <1>1 DEF IInv, Types
<1>6. Types'
    BY <1>1, <1>3 DEF IInv, Types
<1>7. r \notin Held /\ r \notin Held'
    BY <1>1, <1>2, <1>4, HeldIs DEF Owed
<1>8. QED
    BY <1>1, <1>2, <1>3, <1>4, <1>5, <1>6, <1>7, WorkIInv

LEMMA OnTimerReleasesIInv == ASSUME IInv, OneClose', OnTimerReleases PROVE IInv'
<1>1. /\ io = "releasing" /\ fd # "open" /\ obj # "new" /\ io' = "loop"
      /\ refs' = refs - 1 /\ obj' \in {obj, "deleted"} /\ own' = FALSE
      /\ UNCHANGED <<fd, sendq, msgs, work, outcome, sent, got, wire>>
    BY DEF OnTimerReleases, Release, IInv, Early
<1>2. Types' /\ Early' /\ History' /\ RefsCounted'
    BY <1>1 DEF IInv, Types, Early, History, RefsCounted, Posted, Answered
<1>3. QED
    BY <1>2 DEF IInv

-----------------------------------------------------------------------------
(* Workers. *)

LEMMA WorkerChecksIInv == ASSUME IInv, OneClose', NEW r \in Req, WorkerChecks(r) PROVE IInv'
<1>1. /\ work[r] = "task" /\ obj # "new"
      /\ UNCHANGED <<obj, refs, own, fd, sendq, io, sent, got, wire>>
    BY DEF WorkerChecks, IInv, Early
<1>2. PICK o \in Outcome :
         /\ outcome' = [outcome EXCEPT ![r] = o]
         /\ work' = [work EXCEPT ![r] = IF o = "detach" THEN "detaching" ELSE "respond"]
         /\ msgs' \in {msgs, msgs \cup {<<"detach", r>>}}
         /\ msgs' # msgs => o = "detach"
    BY DEF WorkerChecks
<1>3. ~Posted(r) /\ ~Answered(r) /\ ~(r > got) /\ <<"detach", r>> \notin msgs
    BY <1>1 DEF IInv, History
<1>4. o \in {"keep", "close", "detach"} /\ outcome'[r] = o
      /\ work'[r] = (IF o = "detach" THEN "detaching" ELSE "respond")
      /\ \A q \in Req \ {r} : work'[q] = work[q] /\ outcome'[q] = outcome[q]
    BY <1>2, HttpLinkAssumption DEF IInv, Types
<1>5. /\ \A q : (Posted(q)' <=> Posted(q)) /\ (Answered(q)' <=> Answered(q))
      /\ \A q \in Req \ {r} : <<"detach", q>> \in msgs' <=> <<"detach", q>> \in msgs
      /\ <<"detach", r>> \in msgs' => o = "detach"
    BY <1>1, <1>2, <1>3 DEF Posted, Answered
<1>6. Types'
    BY <1>1, <1>2, <1>4 DEF IInv, Types
<1>7. r \notin Held /\ r \notin Held'
    BY <1>1, <1>3, <1>4, <1>5, HeldIs DEF Owed
<1>8. io' = "releasing" => fd' # "open"
    BY <1>1 DEF IInv, Early
<1>9. QED
    BY <1>1, <1>3, <1>4, <1>5, <1>6, <1>7, <1>8, WorkIInv

\* One more reference is held, whether or not the message could be posted.
LEMMA WorkerSendsIInv == ASSUME IInv, OneClose', NEW r \in Req, WorkerSends(r) PROVE IInv'
<1>1. /\ work[r] = "respond" /\ obj # "new" /\ refs' = refs + 1
      /\ work' = [work EXCEPT ![r] = "mark"]
      /\ msgs' \in {msgs, msgs \cup {<<"buffer", r>>}}
      /\ UNCHANGED <<obj, own, fd, sendq, io, outcome, sent, got, wire>>
    BY DEF WorkerSends, IInv, Early
<1>2. ~Posted(r) /\ ~Answered(r) /\ ~(r > got) /\ outcome[r] # "detach"
      /\ <<"detach", r>> \notin msgs
    BY <1>1 DEF IInv, History
<1>3. /\ work'[r] = "mark" /\ \A q \in Req \ {r} : work'[q] = work[q] /\ (Posted(q)' <=> Posted(q))
      /\ \A q : (Answered(q)' <=> Answered(q))
                /\ (<<"detach", q>> \in msgs' <=> <<"detach", q>> \in msgs)
    BY <1>1 DEF IInv, Types, Posted, Answered
<1>4. Types' /\ Early'
    BY <1>1 DEF IInv, Types, Early
<1>5. History'
    BY <1>1, <1>2, <1>3 DEF IInv, History
<1>6. Held' = Held \cup {r} /\ r \notin Held
  <2>1. r \notin Held /\ r \in Held' /\ \A q \in Req \ {r} : q \in Held' <=> q \in Held
      BY <1>1, <1>2, <1>3, HeldIs DEF Owed
  <2>2. Held' \subseteq Req /\ Held \subseteq Req
      BY DEF Held
  <2>3. QED
      BY <2>1, <2>2
<1>7. RefsCounted'
    BY <1>1, <1>6, RefsCountedHeld, HeldCount DEF IInv, Types
<1>8. QED
    BY <1>4, <1>5, <1>7 DEF IInv

LEMMA WorkerMarksIInv == ASSUME IInv, OneClose', NEW r \in Req, WorkerMarks(r) PROVE IInv'
<1>1. /\ work[r] \in {"mark", "close"} /\ obj # "new"
      /\ work' \in {[work EXCEPT ![r] = w] : w \in {"close", "done"}}
      /\ UNCHANGED <<obj, refs, own, fd, sendq, io, msgs, outcome, sent, got, wire>>
    BY DEF WorkerMarks, IInv, Types, Early
<1>2. work'[r] \in {"close", "done"} /\ \A q \in Req \ {r} : work'[q] = work[q]
    BY <1>1 DEF IInv, Types
<1>3. \A q : (Posted(q)' <=> Posted(q)) /\ (Answered(q)' <=> Answered(q))
    BY <1>1 DEF Posted, Answered
<1>4. Types' /\ Early'
    BY <1>1 DEF IInv, Types, Early
<1>5. History'
    BY <1>1, <1>2, <1>3 DEF IInv, History
<1>6. Held' = Held
  <2>1. \A q \in Req : q \in Held' <=> q \in Held
      BY <1>1, <1>2, <1>3, HeldIs DEF Owed
  <2>2. Held' \subseteq Req /\ Held \subseteq Req
      BY DEF Held
  <2>3. QED
      BY <2>1, <2>2
<1>7. RefsCounted'
    BY <1>1, <1>6, RefsCountedHeld DEF IInv
<1>8. QED
    BY <1>4, <1>5, <1>7 DEF IInv

-----------------------------------------------------------------------------
LEMMA NextIInv == IInv /\ [Next]_vars => IInv'
<1> SUFFICES ASSUME IInv, [Next]_vars PROVE IInv'
    OBVIOUS
<1>1. OneClose'
    BY NextOneClose DEF IInv
<1>2. CASE Accept \/ AcceptFails
    BY <1>1, <1>2, OpenIInv
<1>3. CASE PeerSends \/ PeerLeaves \/ UNCHANGED vars
    BY <1>1, <1>3, PeerSendsIInv, ThreadIInv
<1>4. CASE IOThread
  <2>1. CASE ReadRequest \/ ReadEnds \/ OnError \/ OnTimer(FALSE)
      BY <1>1, <2>1, ReadRequestIInv, ThreadIInv
  <2>2. CASE OnWrite \/ OnTimerReleases
      BY <1>1, <2>2, OnWriteIInv, OnTimerReleasesIInv
  <2>3. ASSUME NEW r \in Req, OnSyncBuffer(r) \/ OnDetach(r) PROVE IInv'
      BY <1>1, <2>3, OnSyncBufferIInv, OnDetachIInv
  <2>4. QED
      BY <1>4, <2>1, <2>2, <2>3 DEF IOThread
<1>5. CASE OnTimer(TRUE)
    BY <1>1, <1>5, ThreadIInv
<1>6. ASSUME NEW r \in Req, Worker(r) PROVE IInv'
    BY <1>1, <1>6, WorkerChecksIInv, WorkerSendsIInv, WorkerMarksIInv DEF Worker
<1>7. QED
    BY <1>2, <1>3, <1>4, <1>5, <1>6 DEF Next

\* For any number of requests and workers, whatever the handlers decide and whatever
\* fails: the descriptor is closed at most once and only while it is the object's own
\* (ClientEvent.cpp:293-309).
THEOREM ClosedOnce == Spec => []OneClose
<1>1. QED
    BY InitIInv, NextOneClose, PTL DEF Spec, IInv

\* The references of an object are its own, until OnTimer gives it up, and one for each
\* response that was posted and has not arrived (ClientEvent.cpp:165,199,266), after the
\* descriptor is gone as well as before.  So GetRef() == 1 in OnTimer says that no
\* response is owed at that moment.  It says nothing of the Release that follows: a
\* worker may post a response in between, and from then on the reference that is
\* missing is the object's own, so that OnTimer may find 1 again and delete it while
\* that response is on its way.
THEOREM ReferencesAreOwed == Spec => []RefsCounted
<1>1. IInv => RefsCounted
    BY DEF IInv
<1>2. QED
    BY InitIInv, NextIInv, <1>1, PTL DEF Spec

-----------------------------------------------------------------------------
(* The interest, when the I/O thread leaves the requests to a pool. *)

\* Then the interest is right at every moment, not only when the engine waits.
Watched ==
    NWorker > 0 /\ obj = "live" /\ fd = "open" =>
        interest = IF sendq = <<>> THEN {"in"} ELSE {"in", "out"}

LEMMA NextWatched == IInv /\ Watched /\ [Next]_vars => Watched'
<1> SUFFICES ASSUME IInv, Watched, [Next]_vars, NWorker > 0, obj' = "live", fd' = "open"
             PROVE  interest' = IF sendq' = <<>> THEN {"in"} ELSE {"in", "out"}
    BY DEF Watched
<1> USE DEF Watched
<1>1. CASE UNCHANGED <<obj, fd, interest, sendq>>
    BY <1>1
<1>2. CASE Accept \/ AcceptFails
    BY <1>2 DEF Accept, AcceptFails, IInv, Early
<1>3. CASE PeerSends \/ PeerLeaves \/ ReadEnds \/ UNCHANGED vars
    BY <1>1, <1>3 DEF PeerSends, PeerLeaves, ReadEnds, vars
<1>4. CASE Close
    BY <1>4 DEF Close
<1>5. CASE ReadRequest
    BY <1>1, <1>4, <1>5, HttpLinkAssumption DEF ReadRequest, HandleHere, HandToPool
<1>6. CASE OnError
    BY <1>4, <1>6 DEF OnError
<1>7. ASSUME NEW idle, OnTimer(idle) PROVE interest' = IF sendq' = <<>> THEN {"in"} ELSE {"in", "out"}
    BY <1>1, <1>4, <1>7 DEF OnTimer
<1>8. CASE OnTimerReleases
    BY <1>8 DEF OnTimerReleases, IInv, Early
<1>9. CASE OnWrite
  <2>1. PICK n \in 1..Len(sendq) :
           /\ wire' = wire \o SubSeq(sendq, 1, n)
           /\ sendq' = SubSeq(sendq, n + 1, Len(sendq))
           /\ IF n = Len(sendq) THEN OnMessageSent ELSE UNCHANGED <<interest, fd, closes>>
      BY <1>9 DEF OnWrite
  <2>2. n = Len(sendq) <=> sendq' = <<>>
      BY <2>1, WriteFacts DEF IInv, Types
  <2>3. sendq # <<>> /\ obj = "live"
      BY <1>9, <2>1 DEF OnWrite
  <2>4. QED
      BY <2>1, <2>2, <2>3, <1>4 DEF OnMessageSent
<1>10. ASSUME NEW r \in Req, OnSyncBuffer(r) \/ OnDetach(r)
       PROVE  interest' = IF sendq' = <<>> THEN {"in"} ELSE {"in", "out"}
  <2>1. CASE OnDetach(r)
      BY <2>1 DEF OnDetach, Detach
  <2>2. CASE OnSyncBuffer(r)
    <3>1. obj = "live" /\ fd = "open"
        BY <2>2 DEF OnSyncBuffer, Release, IInv, Types
    <3>2. sendq' = Append(sendq, r) /\ sendq \in Seq(Req)
        BY <2>2 DEF OnSyncBuffer, Enqueue, IInv, Types
    <3>3. sendq' # <<>>
        BY <3>2
    <3>4. QED
        BY <2>2, <3>1, <3>3 DEF OnSyncBuffer, Enqueue, Registered
  <2>3. QED
      BY <1>10, <2>1, <2>2
<1>11. ASSUME NEW r \in Req, Worker(r)
       PROVE  interest' = IF sendq' = <<>> THEN {"in"} ELSE {"in", "out"}
    BY <1>1, <1>11 DEF Worker, WorkerChecks, WorkerSends, WorkerMarks
<1>12. QED
    BY <1>2, <1>3, <1>5, <1>6, <1>7, <1>8, <1>9, <1>10, <1>11 DEF Next, IOThread

\* With a pool of any size no response is stuck: epoll watches an open connection for
\* room exactly when responses are queued (ClientEvent.cpp:255-278).  Without a pool
\* pipelined requests break this.
THEOREM PoolWatchesQueue == Spec => [](NWorker > 0 => InterestFollowsQueue)
<1>1. Init => Watched
    BY DEF Init, Watched
<1>2. Watched => (NWorker > 0 => InterestFollowsQueue)
    BY DEF Watched, InterestFollowsQueue
<1>3. QED
    BY InitIInv, NextIInv, NextWatched, <1>1, <1>2, PTL DEF Spec

-----------------------------------------------------------------------------
(* The socket of a detached connection, when the I/O thread serves the requests. *)

\* Epoll watches nothing but an open descriptor of the object's own, and without a
\* pool there are no tasks.
Scoped ==
    /\ interest # {} => fd = "open"
    /\ obj = "new" => fd = "open" /\ interest = {}
    /\ NWorker = 0 =>
          \A r \in Req : work[r] \notin {"task", "respond", "mark", "close", "detaching"}

LEMMA NextScoped == IInv /\ Scoped /\ [Next]_vars => Scoped'
<1> SUFFICES ASSUME IInv, Scoped, [Next]_vars PROVE Scoped'
    OBVIOUS
<1> USE DEF Scoped
<1>1. CASE Accept \/ AcceptFails \/ PeerSends \/ PeerLeaves \/ ReadEnds \/ UNCHANGED vars
    BY <1>1 DEF Accept, AcceptFails, Release, PeerSends, PeerLeaves, ReadEnds, vars, IInv, Types, Early
<1>2. CASE ReadRequest
  <2>1. obj # "new" /\ obj' = obj /\ fd = "open"
      BY <1>2 DEF ReadRequest, Reading, IInv, Early
  <2>2. interest' # {} => fd' = "open"
      BY <1>2, <2>1 DEF ReadRequest, HandleHere, HandToPool, Close, Detach
  <2>3. ASSUME NWorker = 0
        PROVE  \E w \in {"done", "dropped"} : work' = [work EXCEPT ![got + 1] = w]
      BY <1>2, <2>3 DEF ReadRequest, HandleHere, HandToPool
  <2>4. QED
      BY <2>1, <2>2, <2>3 DEF IInv, Types
<1>3. CASE OnError \/ \E idle : OnTimer(idle)
    BY <1>3 DEF OnError, OnTimer, Close, Reading, IInv, Early
<1>4. CASE OnWrite
    BY <1>4 DEF OnWrite, OnMessageSent, Close
<1>5. CASE OnTimerReleases
    BY <1>5 DEF OnTimerReleases, Release, IInv, Early
<1>6. ASSUME NEW r \in Req, OnSyncBuffer(r) \/ OnDetach(r) PROVE Scoped'
    BY <1>6 DEF OnSyncBuffer, OnDetach, Enqueue, Detach, Release, IInv, Early, Types
<1>7. ASSUME NEW r \in Req, Worker(r) PROVE Scoped'
    BY <1>7 DEF Worker, WorkerChecks, WorkerSends, WorkerMarks
<1>8. QED
    BY <1>1, <1>2, <1>3, <1>4, <1>5, <1>6, <1>7 DEF Next, IOThread

Kept == NWorker = 0 => DetachKeepsSocket

LEMMA NextKept == IInv /\ Scoped /\ Kept /\ [Next]_vars => Kept'
<1> SUFFICES ASSUME IInv, Scoped, [Next]_vars, NWorker = 0, NEW r \in Req,
                    outcome[r] = "detach" /\ work[r] = "done" => fd = "detached",
                    outcome'[r] = "detach", work'[r] = "done"
             PROVE  fd' = "detached"
    BY DEF Kept, DetachKeepsSocket
<1>1. CASE UNCHANGED <<work, outcome, fd>>
    BY <1>1
<1>2. CASE Accept \/ AcceptFails
    BY <1>2 DEF Accept, AcceptFails, IInv, Early
<1>3. CASE PeerSends \/ PeerLeaves \/ ReadEnds \/ OnTimerReleases \/ UNCHANGED vars
    BY <1>1, <1>3 DEF PeerSends, PeerLeaves, ReadEnds, OnTimerReleases, vars, IInv, Types
<1>4. CASE UNCHANGED <<work, outcome>> /\ (Close \/ OnMessageSent \/ UNCHANGED fd)
    BY <1>4 DEF Close, OnMessageSent
<1>5. CASE ReadRequest
  <2>1. fd = "open" /\ got + 1 \in Req
      BY <1>5, HttpLinkAssumption DEF ReadRequest, Reading, Scoped, IInv, Types, Req
  <2>2. CASE r # got + 1
      BY <1>5, <2>1, <2>2 DEF ReadRequest, HandleHere, HandToPool, IInv, Types
  <2>3. CASE r = got + 1
      BY <1>5, <2>1, <2>3 DEF ReadRequest, HandleHere, HandToPool, Detach, IInv, Types
  <2>4. QED
      BY <2>2, <2>3
<1>6. CASE OnError \/ OnWrite \/ \E idle : OnTimer(idle)
    BY <1>4, <1>6 DEF OnError, OnWrite, OnTimer
<1>7. ASSUME NEW q \in Req, OnSyncBuffer(q) \/ OnDetach(q) PROVE fd' = "detached"
    BY <1>1, <1>7 DEF OnSyncBuffer, OnDetach, IInv, History, Scoped
<1>8. ASSUME NEW q \in Req, Worker(q) PROVE FALSE
    BY <1>8 DEF Worker, WorkerChecks, WorkerSends, WorkerMarks, Scoped
<1>9. QED
    BY <1>2, <1>3, <1>5, <1>6, <1>7, <1>8 DEF Next, IOThread

\* Without a pool, a request handler that takes the connection over has its descriptor
\* for good, whatever follows on the connection (HttpClientEvent.h:29).  With workers
\* an error that comes before the detach message breaks this.
THEOREM DetachedIsKept == Spec => [](NWorker = 0 => DetachKeepsSocket)
<1>1. Init => Scoped /\ Kept
    BY DEF Init, Scoped, Kept, DetachKeepsSocket
<1>2. QED
    BY InitIInv, NextIInv, NextScoped, NextKept, <1>1, PTL DEF Spec, Kept

-----------------------------------------------------------------------------
(* Connection: close, when the I/O thread serves the requests. *)

\* Epoll is asked for room only while the one queued response is that of the last
\* request, whose outcome keepAlive is: a response queued behind another takes the
\* write interest away.  So the queue empties only over that response.
Honours ==
    NWorker = 0 =>
        /\ msgs = {}
        /\ "out" \in interest => Len(sendq) = 1 /\ (outcome[sendq[1]] = "close" => ~keepAlive)
        /\ \A i \in 1..Len(wire) : outcome[wire[i]] = "close" => fd # "open"

LEMMA NextHonours == IInv /\ Scoped /\ Honours /\ [Next]_vars => Honours'
<1> SUFFICES ASSUME IInv, Scoped, Honours, [Next]_vars, NWorker = 0
             PROVE  Honours'
    BY DEF Honours
<1> USE DEF Honours
<1>1. ASSUME UNCHANGED <<msgs, sendq, outcome, keepAlive, wire>>,
             Close \/ UNCHANGED <<interest, fd>>
      PROVE  Honours'
    BY <1>1 DEF Close
<1>2. CASE Accept \/ AcceptFails
    BY <1>2 DEF Accept, AcceptFails, IInv, Early
<1>3. CASE PeerSends \/ PeerLeaves \/ ReadEnds \/ OnTimerReleases \/ UNCHANGED vars
    BY <1>1, <1>3 DEF PeerSends, PeerLeaves, ReadEnds, OnTimerReleases, vars
<1>4. CASE OnError \/ \E idle : OnTimer(idle)
    BY <1>1, <1>4 DEF OnError, OnTimer
<1>5. ASSUME NEW q \in Req, OnSyncBuffer(q) \/ OnDetach(q) \/ Worker(q)
      PROVE  FALSE
    BY <1>5 DEF OnSyncBuffer, OnDetach, Worker, WorkerChecks, WorkerSends, WorkerMarks, Scoped
<1>6. CASE OnWrite
  <2>1. PICK n \in 1..Len(sendq) :
           /\ wire' = wire \o SubSeq(sendq, 1, n)
           /\ sendq' = SubSeq(sendq, n + 1, Len(sendq))
           /\ IF n = Len(sendq) THEN OnMessageSent ELSE UNCHANGED <<interest, fd, closes>>
      BY <1>6 DEF OnWrite
  <2>2. "out" \in interest /\ UNCHANGED <<msgs, outcome, keepAlive>>
      BY <1>6 DEF OnWrite
  <2>3. Len(sendq) = 1 /\ (outcome[sendq[1]] = "close" => ~keepAlive) /\ n = 1
    <3>1. Len(sendq) = 1 /\ (outcome[sendq[1]] = "close" => ~keepAlive)
        BY <2>2, Zenon
    <3>2. n = 1
        BY <3>1
    <3>3. QED
        BY <3>1, <3>2, Zenon
  <2>4. /\ Len(wire') = Len(wire) + 1 /\ Len(wire) \in Nat
        /\ \A i \in 1..Len(wire) : wire'[i] = wire[i]
        /\ wire'[Len(wire) + 1] = sendq[1]
      BY <2>1, <2>3 DEF IInv, Types
  <2>5. OnMessageSent /\ "out" \notin interest'
      BY <2>1, <2>3 DEF OnMessageSent, Close
  <2>6. fd' = "open" => fd = "open" /\ keepAlive
      BY <2>5 DEF OnMessageSent, Close
  <2>7. ASSUME NEW i \in 1..Len(wire'), outcome'[wire'[i]] = "close"
        PROVE  fd' # "open"
    <3>1. CASE i \in 1..Len(wire)
        BY <2>2, <2>4, <2>6, <2>7, <3>1
    <3>2. CASE i = Len(wire) + 1
        BY <2>2, <2>3, <2>4, <2>6, <2>7, <3>2
    <3>3. QED
        BY <2>4, <3>1, <3>2
  <2>8. QED
      BY <2>2, <2>5, <2>7
<1>7. CASE ReadRequest
  <2> DEFINE r == got + 1
  <2>1. r \in Req /\ r > got /\ fd = "open" /\ UNCHANGED <<msgs, wire>>
      BY <1>7, HttpLinkAssumption DEF ReadRequest, Reading, Scoped, IInv, Types, Req
  <2>2. ~Answered(r)
      BY <2>1 DEF IInv, Types, History
  <2>3. CASE Close /\ UNCHANGED <<outcome, keepAlive, sendq>>
      BY <1>1, <2>1, <2>3
  <2>4. CASE HandleHere(r)
    <3> HIDE DEF r
    <3>1. PICK o \in Outcome :
             /\ outcome' = [outcome EXCEPT ![r] = o]
             /\ IF o = "detach"
                THEN Detach /\ UNCHANGED <<keepAlive, sendq>>
                ELSE /\ \E mask \in Registered({}, {"in"}) : Enqueue(r, mask)
                     /\ keepAlive' = (o = "keep")
                     /\ UNCHANGED <<fd, closes>>
        BY <2>4 DEF HandleHere
    <3>2. outcome'[r] = o /\ \A q \in Req \ {r} : outcome'[q] = outcome[q]
        BY <2>1, <3>1 DEF IInv, Types
    <3>3. \A i \in 1..Len(wire) : wire[i] \in Req \ {r}
        BY <2>2 DEF Answered, IInv, Types
    <3>4. \A i \in 1..Len(wire') : outcome'[wire'[i]] = "close" => fd' # "open"
        BY <2>1, <3>2, <3>3
    <3>5. CASE o = "detach"
        BY <2>1, <3>1, <3>4, <3>5 DEF Detach
    <3>6. CASE o # "detach" /\ sendq = <<>>
      <4>1. sendq' = Append(<<>>, r) /\ keepAlive' = (o = "keep")
          BY <3>1, <3>6 DEF Enqueue
      <4>2. Len(sendq') = 1 /\ sendq'[1] = r
          BY <4>1
      <4>3. outcome'[sendq'[1]] = "close" => ~keepAlive'
          BY <3>2, <4>1, <4>2
      <4>4. QED
          BY <2>1, <3>4, <4>2, <4>3
    <3>7. CASE o # "detach" /\ sendq # <<>>
        BY <2>1, <3>1, <3>4, <3>7 DEF Enqueue, Registered
    <3>8. QED
        BY <3>5, <3>6, <3>7
  <2>5. QED
      BY <1>7, <2>3, <2>4 DEF ReadRequest, HandToPool
<1>8. QED
    BY <1>2, <1>3, <1>4, <1>5, <1>6, <1>7 DEF Next, IOThread

\* Without a pool, a connection whose response says Connection: close does not outlive
\* the writing of that response (HttpClientEvent.cpp:91).  A pipelined request cannot
\* turn keepAlive back before it, because its own response takes the write interest
\* away.  With workers, who set m_bKeepAlive after they have posted the response, this
\* may fail.
THEOREM CloseIsHonoured == Spec => [](NWorker = 0 => CloseHonoured)
<1>1. Init => Scoped /\ Honours
    BY DEF Init, Scoped, Honours
<1>2. Honours => (NWorker = 0 => CloseHonoured)
    BY DEF Honours, CloseHonoured
<1>3. QED
    BY InitIInv, NextIInv, NextScoped, NextHonours, <1>1, <1>2, PTL DEF Spec

=============================================================================
