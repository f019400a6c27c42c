# A TLA+ development for TaiJie

TaiJie is an online card game: a server (`src/server`), a client SDK (`src/sdk/app_sdk`)
inside an Android shell (`src/client`), and the author's C++ library LFC
(`src/third-party/LFC`), which holds nearly all of the logic: an epoll event engine, event
threads and their messages, timers, sockets, a thread pool, an HTTP server framework, a
Redis client and assorted utilities.  Paths below are relative to `src/` of the repository's
root, `LFC` stands for `src/third-party/LFC`.

The modules here model that logic, TLC checks them on small instances, and TLAPS proves
the central invariants for every instance.

## 1. The system and what is hard about it

| Component | State | Operations | Talks to |
|---|---|---|---|
| `CEventEngine`, `CEvent` (LFC/Common) | the epoll set, `m_bOnEvent`, `m_vecDeleting` | RegisterRead/Write/RW, Unregister, EventTest, PostMessage | calls OnRead, OnWrite, OnError of events |
| `CMessageEvent`, `CEventThread`, `CThread` | an eventfd per message; a thread and its quit semaphore | Create, TriggerEvent, OnRead; Start, Stop, OnRun | engine; any thread posts |
| `CTCPClientSocket` | descriptor, timer | Connect, OnWrite, OnError, OnTimer, Detach | engine; calls its `ITCPClientSocketCallback` |
| `CClient` (app_sdk) | `m_sock`, `m_nFD`, `m_lstBuffers` | Start, Send, Stop from the application; OnConnected, OnRead, OnWrite, OnError, OnMessageEvent on its thread | the three above, `CParser`, `IClientCallback` |
| `CParser` (app_sdk) | state, partial header, partial body | Parse | `OnParsePacket` of CClient |
| `CClientEvent`, `CHttpClientEvent`, `CFrameServer` | reference count, descriptor, send queue, `m_bKeepAlive`, timer | OnAccept, OnRead, OnWrite, OnError, OnTimer, OnMessageEvent, Send, Detach, Close, HandleMessage | engine of an I/O thread, pool threads, request handlers |
| `CThreadPool` | engines, payloads | Start, Stop, AddTask, OnMessageEvent | one `CEventThread` per worker |
| `CInetListener`, `CUnixListener` | listening socket | Start, Stop, Suspend, Resume, OnRead | `OnAccept` of a server |
| `CGame`, `CMsgHelper` (app_sdk) | server address, the `CClient` | the calls of `IGame`: SetServer, Startup, Login and stubs; destruction at the end of the process | `CClient`, as its callback |
| Game server: `CApplication`, `CLink` | descriptor of a link | Start; OnAccept, OnRead, OnError, Close | listener, engine |
| `CRedis` | a list of connections under a lock, a timer | Initialize, some 80 commands through Excute, GetConnection, ReleaseConnection; OnTimer; destruction | hiredis; any thread calls it, the engine's runs the timer |
| `CFileWatch` | inotify descriptors and their listeners | Register, Unregister, OnRead | engine |
| `CTimer` | timerfd | SetTimer, KillTimer, OnRead | engine |
| `CBuffer`, `CMemoryPool`, `CArchive`, `CBase64`, `CUrlCodec`, `STR`, `CArgv`, `CMsgHelper` | indices, free lists, or none | pure or sequential | - |

What a test hardly reaches:

* **Objects die inside the loop that calls them.**  `epoll_wait` returns up to
  `s_nWaitEvents` raw `CEvent *`; every handler may unregister or delete any event of its
  engine, its own included, and `m_vecDeleting` is what keeps the rest of the batch away from it.
* **Everything crosses threads by message.**  `Send`, `Stop`, asynchronous responses,
  `Detach` and pool tasks are `CMessageEvent`s; which of several waiting messages comes
  first is epoll's choice, and what was true when one was posted need not be when it is handled.
* **Ownership of a descriptor moves** from the connecting socket to `CClient`, from the
  listener to a `CClientEvent`, from that to a request handler.
* **The interest mask is the scheduler.**  What is queued and not watched for is never sent;
  each path must leave the mask right.
* **Reference counting** across the I/O thread, its timer and the workers.
* **Numbers and addresses are used again**: a closed descriptor, a freed connection or event soon
  stands for somebody else.
* **Things end while others run**: the process ends under the event thread, a pool is stopped
  under its tasks, the Redis pool is closed before its timer.
* **Streams**: partial sends, headers and bodies split by `recv` at any place.

Per component the properties that make it correct are those of section 4; the hazards,
each at its line, are in `PROJECT.json`.

## 2. Modules

| Module | Models | State and actions |
|---|---|---|
| `EventEngine` | `CEvent`, `CEventEngine` as operators on a record | `added`, `mask`: the epoll set; `onEvent`, `deleting`, `batch`: `m_bOnEvent`, `m_vecDeleting`, the entries of `events[]` still to come.  `Register`, `Unregister`, `DelEvent`, `Answers` (what `epoll_wait` may return), `StartBatch`, `Take`, `EndBatch` |
| `EngineLoop` | `EventTest` step by step, with handlers that do anything | one action per step between two looks at shared state: wait, set the flag, take an entry and search `m_vecDeleting`, call, return, clear.  Handlers construct, register, unregister, destroy; other threads post. |
| `TcpClient` | `CClient`, `CTCPClientSocket`, `CMessageEvent`, on one engine | one action per handler; the application (`StartSucceeds`, `StartFails`, `Send`, `Stop`) and the kernel (`Connected`, `Refused`, `PeerSends`, `PeerReads`, ...) interleave |
| `ClientLink` | abstract: what `CClient` promises | buffers accepted, units carried, link down, up or over |
| `Parser` | `CParser::Parse` | one action per turn of its loop; `Recv` cuts the stream anywhere |
| `Game` | `CGame` over all of `TcpClient` | the calls of `IGame` and the end of the process: `Exit` (Stop), `DestroyClient` (`~CClient`), `ThreadQuits`, `Join`.  Adds the order of posted messages, which `TcpClient` leaves open |
| `Server` | `CApplication`, `CInetListener`, `CLink` on one engine | clients that arrive, speak and break; the loop; accepting with each of its failures; a descriptor table that hands out the lowest free number |
| `HttpLink` | `CHttpClientEvent` on `CClientEvent`, one connection | I/O thread handlers as actions, split where a worker may come between; a worker's `HandleMessage` split at each access to the object; `thread`, the one thread of the pool each task was given to; `timer`, whether the constructor's `SetTimer` worked, which nobody asks; `own`, whether `OnTimer` has given up the object's own reference |
| `ThreadPool` | `CThreadPool` | `SelectEngineIndex` one read at a time (`Look` compares, `Take` reads again), count, post; threads; Start and Stop with partial failure |
| `RedisPool` | the connections of `CRedis` | one action per hold of the lock, and one for what a thread does between two holds (reconnect, command); timer, server failures; destruction as `TakeBegin` (begin() without the lock), `CloseConnections`, `KillTimer`, with `it` for what the timer makes of that iterator in between |
| `EventEngineProofs`, `EngineLoopProofs`, `ParserProofs`, `HttpLinkProofs`, `ThreadPoolProofs`, `ServerProofs`, `RedisPoolProofs` | theorems and proofs of the module they are named after | |
| `ClientProofs` | theorems and proofs of `TcpClient` and of `Game`, which extends it | |

`TcpClient`, `Server` and `EngineLoop` are built on the operators of `EventEngine`; `Game` extends
`TcpClient`, its actions are conjunctions with those of the client; `ClientLink` is
instantiated by `TcpClient`; `Parser` takes the place of `CClient`'s calls of `Parse`, which
`TcpClient` leaves as "OnRead may report a parse error"; `HttpLink` relies on `EngineLoop` for
the engine and on `ThreadPool` for its workers (a task belongs to the thread it was posted to, which runs one at a
time, each accepted one in the end).  `AddTask` compares payloads that count other connections' tasks, too, so any thread may be its choice
(`Choice`, up to the names of threads); those other tasks are taken to return.

Abstractions made throughout: event objects, buffers, tasks and requests are model values or
small numbers; a buffer is `BufLen` units that `send` may separate, a packet a header and a body of
units that `recv` may separate; what text says (HTTP, JSON) is a choice among outcomes.  Level-triggered
epoll is modelled as a function of the kernel's conditions and the mask, read once per batch.

Definitions with names like `SendsDropsRest` are mutants: variants of the definition below
them with a plausible mistake, used to make sure that the properties can fail.

## 3. Runs

| Run | Instance | Question and result |
|---|---|---|
| `engine_loop` | 3 events, batches of 2 | Is a called event always registered and alive, with handlers free to do anything?  Yes (704,613 states) |
| `tcp_client` | 3 buffers of 2 units, 1 packet in flight | All of `CClient`'s promises, refinement of `ClientLink` and liveness hold (118,211 states) |
| `tcp_client_stop` | 1 buffer | Do the destructor's assertions hold after `Stop`?  Not after a `Start` that failed midway, nor with an attempt under way |
| `parser` | 3 packets, bodies of 0..3 units, every split that keeps headers whole | In step, framed, not late |
| `parser_split` | headers split, too | Not framed |
| `http_sync` | 3 requests, pipelined or not, no pool | Does a detached descriptor stay open, is `Connection: close` honoured, through every outcome, error and timeout?  Yes (1,268 states) |
| `http_pool` | 3 pipelined requests, 2 workers, all outcomes and failures (posts, registrations, the timer) | References, closes, interest, answers, freeing hold (640,141 states) |
| `http_pool_deleted` | 2 requests, 1 worker | Is the object there for its tasks?  No |
| `thread_pool` | 3 callers and tasks, 2 threads | Payloads, choice, ends of tasks and of `Stop` hold, through restarts (22,759 states) |
| `game` | 2 login requests, 1 packet in flight | Is the client left alone once it is taken apart, is the end clean but in the two cases named, do requests go out, does only the network end a connection?  Yes (21,764 states) |
| `server` | 3 clients, 2 descriptors, batches of 2 | Has each descriptor one link, and is everybody served?  Yes (18,913 states) |
| `redis_pool` | 2 threads, 2 connections configured, 5 contexts | Is each connection in one place, the pool bounded and refilled?  Yes, until the timer meets the destructor (138,197 states) |

Why the bounds are enough: a stale entry needs the event that is served, one it removes, and
one that is left (3 events, 2 to a batch); the client's queue distinguishes
empty, one and more buffers, with the front one untouched or half sent (3 buffers of 2 units,
so that one may arrive while another is cut in half); a parser state is left after
one packet and met again by the next, the third shows that nothing accumulates; with three requests
and two workers one request waits while two run, or waits behind one that is stuck while the other thread is idle; two threads and three tasks make two
callers compete for one thread while another is counted down; with three clients and two
descriptors one has to wait for a number that another gives back, and batches of two leave one of the
ready events out; a Redis pool of two and two threads can have every context lent while the timer
fills the list, and five contexts are one more than the pool ever holds.  Runs stop on purpose when all inputs are
used up, hence `CHECK_DEADLOCK FALSE` except for the engine and the pool, which never stop.

Fairness.  `TcpClient`: the event thread keeps calling `EventTest` (`CEventThread::OnRun`), a
connection attempt has an outcome, the peer keeps reading.  The last two are the network's part
and are needed for `AttemptEnds` and `QueueDrains` only.  `HttpLink`: the I/O thread and each
worker go on; no peer is expected to send, leave or be silent for long.  `ThreadPool`: calls
of AddTask and Stop go on, threads run and their tasks return.  `Game`: besides `TcpClient`'s, a thread
that was asked to quit looks at its semaphore (it does between two calls of `EventTest`), the thread that
ends the process goes on, and messages are reported in the order of posting (each is an eventfd
that joins epoll's ready list when it is written).  `Server`: the loop of `Start` goes on, and `epoll_wait` goes round
the ready descriptors when they are more than its answer holds, as its manual page says: a ready event
is reported again and again (`SF`).  `RedisPool`: the timer goes on; nobody has to execute commands.

## 4. What is checked

*Engine.*  `CalledIsRegistered`: at the call the event is registered and exists.
`BatchOK`: every entry still to come is registered or remembered in `m_vecDeleting`, which is empty
between batches.

*Client.*  `NoCallOnTheGone` (no handler of a deleted object, none of `CClient` without a
descriptor), `OneOwner` (one of socket object and client owns the descriptor, and only while it
is open), `InterestFollowsQueue` (write interest exactly with a non-empty queue),
`AttemptIsWatched`, `NothingLost` (units handed to the kernel are the prefix of what was
accepted, the queue the rest), `DroppedOnce`, `ImplementsLink`, and under fairness `StopReturns`,
`AttemptEnds`, `QueueDrains`.

*Parser.*  `InStep` (delivered packets, part held, buffer and rest of the stream make up the
stream at every turn of the loop), `Framed`, `NotLate`.

*HTTP.*  `InterestFollowsQueue`, `OneClose`, `RefsCounted`, `DetachKeepsSocket`,
`CloseHonoured`, `NoUseAfterDelete`, `RequestAnswered`, `ObjectIsFreed`.  `RefsCounted` speaks of the count for as long as the object
has its own reference, with the descriptor or without: `OnTimer` asks `GetRef() == 1` only when the descriptor is gone, and then no response
is owed.  `RequestAnswered` names what loses a request for want of resources: its task or its response, its worker blocked in `Detach(True)` for a message
that could not be posted (`Stuck`), and the thread it was given to blocked by such a worker, with other threads idle (`BehindStuck`).
`ObjectIsFreed` names the leaked reference, the blocked worker, and the connection whose timer could not be set.  Some hold only with a pool or only without one:
they are checked where they hold, and the list below says what happens elsewhere.

*Pool.*  `PayloadCounts`, `PickExists`, `TaskEnds`, `StopEnds`.

*Game.*  `NoCallAfterDestruction`: between the destruction of `m_lstBuffers` and the join of the thread nothing
of the client is watched any more; it rests on the order of messages, since a request that came after UM_CLOSE
would be handled on a destroyed list.  `CleanExit`: the process ends, but for two cases it names: `~CClient` aborts when `Start` failed midway, and may when
an attempt was under way as UM_CLOSE was handled.  `LoginGoesOut`, `OnlyPeerEnds`.

*Server.*  `OneOwner` (descriptor, link and registration say the same although numbers are used again),
`OnlyResetEnds`, and under fairness `ClientsServed` (a waiting client is accepted if descriptors come free again and again,
although links nobody reads from are reported for ever) and `ResetReleases`.

*Redis.*  `Accounted` (each context that exists is once in the list or with one thread, and nothing freed is; only the destructor may lose some, see 10 below), `PoolBounded`
(the timer counts the list only, so the pool outgrows its limit, by the number of threads at most), `FailsOnce`,
`Refilled`.

Each module has a type invariant.  The runs of `TcpClient` and `ThreadPool` check theirs, those of `EngineLoop`, `Server` and
`RedisPool` are proved, as are the parts of `HttpLink`'s and `Parser`'s that their proofs need; all hold on the instances of the runs, too,
and are left out of the configurations because the invariants there say more.

### Where code and documentation part

1. `tcp_client_stop`: UM_CLOSE looks at `m_nFD` only, so `Stop` leaves `m_sock` as it is and `~CClient` asserts against it.  TLC's trace:
   `Start` fails at `Create` (Client.cpp:58-63), the thread runs, `Stop` returns, `m_sock` is still set; a failed `SetNonblock` or `Connect` ends alike,
   as does a `Startup` without `SetServer`.  The other way there is an attempt under way, of which the `TODO` at Client.cpp:255 knows: nobody cancels it, and it may
   even connect after `Stop` has returned, which violates the second assertion.  `CleanExit` names both.
2. `parser_split`: a header received in two parts is copied to the start of `m_hdr` twice.
   Besides, Parser.cpp:61 clears the body before `OnParsePacket` is called with it, so every
   packet is delivered without its body (the model does the same: `content'` in `ParseContent`).
3. `http_pool_deleted`: tasks carry no reference, against the comment at HttpClientEvent.cpp:45.

Seen in the same code, and outside of what the runs claim:

4. `m_vecDeleting` protects one thread only, yet `CInetListener::Stop` and `~CClientEvent` (from `OnAccept` on the
   listening thread) unregister on an engine that another thread runs (EventEngine.cpp:102, 135).
5. With workers, `m_bKeepAlive` is set after the response was posted (HttpClientEvent.cpp:89-96), so
   `CloseHonoured` fails; so does `DetachKeepsSocket`, since an error handled before the detach message closes the
   descriptor that the handler was promised (HttpClientEvent.h:29).
6. Without a pool, the second request of one `recv` takes away the write interest of the first
   response, and `Send` restores it for an empty queue only (HttpClientEvent.cpp:73): `InterestFollowsQueue` fails.  Nor is the result of
   this `RegisterRead`, an addition after `Unregister`, looked at: if it fails and the one in `Send` does, too, the connection stays open and unwatched until it is idle for too long.
7. `CGame::Startup` may be called again after it failed, but once an event thread exists the call makes a
   second one for the same client (`StartupAgain`), and nothing tells the program that an accepted attempt failed later.
8. MsgHelper.cpp:9 asks for the url `/usr/login` where the protocol document has `/user/login`; every request has message
   id 1, and a body longer than 65535 bytes gets a header with the rest of the division by 65536.
9. A `CLink` that was closed is never deleted; one that was written to is reported by every `epoll_wait`.
10. `CRedis::Set` promises True only when the operation has succeeded (Redis.cpp:141), but it returns True unless the reply is an error,
    and a command without any reply leaves the type at `REPLY_NONE` (Redis.cpp:151, 1299-1307).
    `~CRedis` closes the connections before it stops the timer, which may make new ones that nobody frees, and takes `begin()` before the lock
    (Redis.cpp:114-115): a tick in between may free the node the iterator stands at (the model stops, `undefined`), or fill an empty list
    whose end it is, whose contexts are then dropped without `redisFree` (`lost`).
11. `OnTimer` reads the reference count and releases in two steps (ClientEvent.cpp:199-201): a worker's `AddRef` in between makes it give up the object's own reference
    while a response is owed, and a later tick finds 1 again.  `CClientEvent` never learns that its `SetTimer` failed (:15); then nothing deletes it.
12. `AddTask` gives a task to one thread for good: behind a worker that waits for ever in `Detach(True)`, since its message could not be posted (ClientEvent.cpp:290),
    other requests wait as long although threads are idle.

## 5. What is proved

Every safety property of the passing runs, state invariants and action properties alike, and the refinement, for every value of
the constants under the assumptions named in the modules (`EngineLoopAssumption`, `TcpClientAssumption`, `ParserAssumption`,
`ThreadPoolAssumption`, `ServerAssumption`, `HttpLinkAssumption`, `RedisPoolAssumption`: sets of distinct objects, positive sizes, fewer
tasks than 0x7FFFFFFF, finitely many threads and enough contexts).

* `EngineLoopProofs!EngineCallsRegistered`.  `CalledIsRegistered` is not inductive: whether the
  entry taken next is safe depends on all entries still in the batch.  `BatchOK` says that each of
  them is registered or in `m_vecDeleting`, and `PendingOK` carries this over the steps between
  `epoll_wait`, the flag, the search and the call.  `EventEngineProofs` proves once, for the
  operators, that registering, unregistering and the loop's own steps keep `EngineOK`;
  `EngineLoopProofs`, `ClientProofs` and `ServerProofs` cite it.
* `ClientProofs!ClientIsSafe`.  `TypeOK`, `NoCallOnTheGone`, `OneOwner`, `InterestFollowsQueue`,
  `AttemptIsWatched` and `DroppedOnce`.  The strengthening `IInv` adds `EngineOK`, that messages posted
  are watched until they are done, what is known between Start and the handing over of the descriptor, and that
  nothing happens before Start.  One lemma per handler.
* `ClientProofs!ClientLosesNothing`.  `NothingLost` with `QueueOK` (the offset lies within the queue).  `Units` writes a queue of buffers
  as the units not yet sent; `UnitsAppend` and `UnitsSplit` say that a buffer accepted adds its units at the end, and that what
  `send` takes, within a buffer or over several, comes off the front.  What a step does to the queue is one of the two, or nothing (`QueueSteps`).
* `ClientProofs!ClientImplementsLink`.  The initial state maps to `Link!Init`; each handler maps to one step of `ClientLink` or
  leaves its state as it is (`LinkStutter`, `LinkOver`, `LinkCarries`, then one lemma per group of actions), under the two invariants above.
* `ClientProofs!NothingRunsAfterDestruction`.  `NoCallAfterDestruction` is about the end, and true because of all that came before it.
  `GInv` has three parts: while there is a client, its `IInv` and `OrderOK` (the order of messages is that of the posted ones,
  each once) with `CallsOK` (UM_CLOSE is the last of them, so that nothing is left when `Stop` returns); after the client, `Ended`
  (nothing is registered); and that a request to quit belongs to the end of a running thread.
  `DestructionEnds` is the step from one to the other.
* `ClientProofs!GameEndsNoConnection`.  `OnlyPeerEnds` needs `ErrorIsReset`: an error that an earlier `epoll_wait` reported, and that no
  unregistration has taken back, is still true of the connection when it is handled.
* `ParserProofs!ParserIsPrompt`.  `NotLate`, from `Types` and `Phase` (what the state says of the lengths), also when headers are split.
* `ParserProofs!ParserIsInStep`.  `InStep` and `Framed` when headers come whole.  `Aligned` says where in the stream the loop stands: at the header
  of the packet after those delivered, or in its body with the header known; and that `recv` has not stopped inside a header.  The stream
  is a recursive function, which the prover takes as a `CHOOSE`: `StreamExists` shows that such a function exists (a least packet from
  which on there is none would contradict itself), `StreamFacts` takes one packet off it.  Regrouping of concatenations is stated once
  (`Grouping`, `Rejoining`, `Splitting`).
* `ParserProofs!ParserDeliversAll`, from the same invariant: when everything the peer sent, in whole headers, has gone through `Parse`, every packet
  has been delivered, but for a last one without a body, which waits for bytes that may never come.  No run asks this.
* `ThreadPoolProofs!PoolCounts`.  `PayloadCounts` and `PickExists`, with `PoolOK` (what the owner's state says of
  the vectors) and `CallOK` (a message exists only after the post; the scan has a choice from its first
  turn on).  `CountedMore` and `CountedLess` say how the set a payload counts changes by one task.
* `ServerProofs!ServerOwnsOnce`, `ServerKeepsClients`.  `OneOwner` needs to know that a client waits in the backlog once and has no
  link meanwhile (`Waiting`), and that the connection of a link is alive (`LinkLive`), of which an entry of the batch with the error flag is
  the news, some steps old: that is why `OnlyResetEnds` holds although the flag was read by an earlier `epoll_wait`.
* `HttpLinkProofs`.  `ClosedOnce`, `ReferencesAreOwed`, `PoolWatchesQueue`, `DetachedIsKept`, `CloseIsHonoured`.  `ReferencesAreOwed` is about the count until `OnTimer`
  gives up the object's own reference, so at each of its reads and also after the descriptor is gone; not about what follows such a read (11 above).  References are counted by the set `Held` of requests
  whose response is posted or leaked; `History` says how far a response can be by where its handler is, which makes each of them
  enter and leave the set once; `Early` keeps the last reference from going while the descriptor is open.  `Watched` drops the wait of
  `InterestFollowsQueue`: with a pool the interest is right at every step.  `Scoped` says that nothing but an open descriptor is watched.
  `Honours`, without a pool: what is watched for writing is one response, `m_bKeepAlive` is what that response said, and none that
  announced the end has gone out on a descriptor still open.
* `RedisPoolProofs!PoolKeepsContexts`.  `TypeOK`, `Accounted`, `PoolBounded` and `FailsOnce` are inductive together with what holds before
  `Initialize` (`NewOK`) and during the destruction (`ClosingOK`: no thread has a context then, and what the iterator of `CloseConnections` stands at).  `RankOK` shows that the places which `OnTimer` keeps, numbered in their order, make a list without repetition, and
  `SetToSeqOK` that the new contexts do.

`Kept` of `RedisPool` and `Ordered` of `Game` speak of lists by their elements and places rather than by filtering them: filtering is
recursive, and its results could not be proved.

Only model-checked:

* Liveness under fairness, which the prover does not reach: `StopReturns`, `AttemptEnds`, `QueueDrains`, `RequestAnswered`, `ObjectIsFreed`,
  `TaskEnds`, `StopEnds`, `ClientsServed`, `ResetReleases`, `CleanExit`, `LoginGoesOut`, `Refilled`.
* The three runs that end in a violation: there the property is false, and a counterexample is all there is to show.
* `CloseHonoured` and `DetachKeepsSocket` are proved without a pool, `InterestFollowsQueue` of `HttpLink` with one, `InStep` and `Framed`
  for whole headers: elsewhere they fail (section 4).

## 6. Not modelled, and the plan

Left out for good: sessions, users and rpc of the server (empty classes), Log, Lua, MySQL, OS, XML
and socket wrappers (one library call each), the texts of the Redis commands and of their replies, vendored http_parser, tinyxml2, hiredis, the Android
shell.  Integers: `0x7FFFFFFF` in the pool is the constant `Limit`; other counters are bounded by the instance.

Simplifications to know of: registration with `epoll_ctl` always succeeds in `TcpClient` and `EngineLoop`
(it may fail in `HttpLink` and `Server`; posting a message may fail in `TcpClient`, `HttpLink` and `ThreadPool`); the constant -1 is passed as connect timeout, so `CTCPClientSocket`'s
timer never runs; after the HTTP object is deleted its model stops; `AddTask` does not run while a pool is stopped;
a second `Startup` ends `Game`; `RedisPool` ends with `CloseConnections` on an erased iterator, and `KillTimer` waits for a tick that is under way; `Game`'s thread that calls `IGame` is one; the Redis pool is destroyed when no command runs.

Plan, in this order:

1. Proofs: an abstract pool and the proof that `ThreadPool` implements it.
2. `FileWatch`, `Timer`: removal from callbacks within one read of the descriptor.
3. `Buffer`, `MemoryPool`, and the codecs (`CBase64`, `CUrlCodec`, `STR`) as operators
   against reference definitions over bounded inputs.
