# QuQuChat: specifications, model checking and proofs

QuQuChat is a chat system with an AI agent: an API process (`cmd/main.go`:
REST, WebSocket, SSE), a task process (`cmd/taskservice/main.go`: workers for
LLM, RAG, summary, AIGC and agent tasks) and a desktop client. The processes
share PostgreSQL (or MySQL), RabbitMQ, Redis, Qdrant and an object store.

This directory holds TLA+ modules for the parts whose correctness depends on
the order of steps, TLC configurations that check them, and TLAPS proofs of
what matters most. Every definition is a translation of the Go code;
`PROJECT.json` ("map") says of which lines.

    tlc -workers 2 -config TaskPipeline.cfg MCTaskPipeline.tla
    tlapm --threads 4 TaskPipelineProofs.tla

## The system

| Component | State | Operations | Talks to |
|---|---|---|---|
| Task pipeline (`service/producer.go`, `taskservice/task/pool.go`, `queue_rabbitmq.go`, `db_store.go`) | `task_jobs` rows, the RabbitMQ task queue and its dead letter queue, unacked deliveries, each worker's locals | submit, push with retries; pop, claim, execute, record, publish, ack; reconnect, shutdown | API handlers submit; executors run; done events go to the API process |
| Room log (`saveMessage` in `api/handler/ws_handler.go`) | `messages` rows of a room, row locks | save a message with the next sequence number, three attempts | read loops of WebSockets and the done event consumer (the robot) |
| Agent engine (`taskservice/task/agent`) | the run's `State`: node, step, outline, tool, reviews | planner, coordinator think/act, executor, tool response, guard, final think/judge | executor of agent tasks; model RPC, tools, MCP |
| Agent stream (`service/agent_stream_hub.go`, `agent_stream_handler.go`) | subscriber channels and replay buffer per request | subscribe, publish, unsubscribe; the SSE handler's replay and follow | read loop and done event consumer publish |
| Done event consumer (`service/done_event_mq.go`, `main_service.go`, `StartTaskDoneConsumer`) | done queue, dead letter queue and table, two "consumer is up" flags | start, receive, handle, ack, retry, exhaust, dead-letter | agent stream, room log, `task_jobs` |
| WebSocket hub (`Hub` in `ws_handler.go`) | connections, per-user sets, users' status | register, remove, direct, broadcast | everything that delivers |
| Hub router (`hub_router.go`) | counts per user and room, node sets in Redis | connect, disconnect, route, subscribe | hub, Redis, other API nodes |
| Redis caches | member lists, posting permissions, friends, direct rooms | read through, delete on write | handlers |
| Friends, groups, authentication (`user_handler.go`, `group_handler.go`, `auth_handler.go`, `auth_service.go`) | friendships and requests; members, roles, mutes; sessions | REST handlers, mostly read-then-write | database, caches, hub |
| RAG indexer (`raghandler/handler.go`) | segments, the cursor of a room, Qdrant points | index, add memory; search (not modelled) | task workers, embedding RPC |
| Model RPC (`llmmq`, `aigcmq`, `embeddingmq`) | request queue, reply queue per call, token buckets | call with timeout; worker pool; rate limit | executors, agent |
| Files (`file_service.go`) | attachment rows, objects | upload, multipart, thumbnails, delete | REST handlers |
| Message queries (`message_handler.go`) | none of their own | latest page, page before, page after | `messages`, the member's `left_at` |
| Desktop client (`frontend/`) | local SQLite, sync cursor per room, the pair of tokens | open, sync, receive, reconnect; login, logout, refresh | API |

What is hard in them: a row, a queue and a worker that must agree although each
step between them can fail or be done twice (task pipeline); a number chosen
from a row that was read before a lock was granted (room log); a hand-over from
replay to live events (agent stream); acknowledgements in the wrong order and
flags that nobody resets (done events); loops whose budget is counted in three
places (agent engine); counts and node sets updated from two sides (router);
cache entries filled by one who read before the change they are deleted for
(groups, friends); two stores written one after the other (RAG index, files); a
request that outlives the client that made it (model RPC); a cursor that several
handlers write (desktop client); rows chosen by one order and shown in another
(history); a token that two requests want to renew (sessions). `PROJECT.json` lists
each hazard at its line, with the properties that would catch it.

## Modules

| Module | What it is |
|---|---|
| `TaskStore` | the transitions `MarkRunning`, `MarkSucceeded`, `MarkFailed` allow, as operators |
| `TaskLifecycle` | abstract specification: what the task subsystem promises |
| `TaskPipeline` | handlers, queue, workers, faults; implements `TaskLifecycle` |
| `ChatLog` | abstract specification: a room is one append-only numbered history |
| `RoomLog` | the racing transactions of `saveMessage`; implements `ChatLog` |
| `AgentEngine` | the workflow of one agent run |
| `AgentStream` | hub, publishers and SSE handlers of one request |
| `DoneEvents` | the done event consumer, its queue, dead letters and restarts |
| `HubRouter` | connections, hubs and routers of several API nodes, and Redis' node sets |
| `Groups` | a group's rows, the two kinds of cache entries made of them, every request on them |
| `Friends` | two users: requests, friendship, direct room and the cache entries about them |
| `RAGIndex` | the index of a room: segments, rows, points, cursor |
| `Files` | objects and rows of attachments, thumbnails, multipart uploads, a user's avatar |
| `ModelRPC` | calls of a model over RabbitMQ: clients, the worker pool, the rate limiter, images |
| `AuthSession` | login sessions of a user on one device: rows, handlers, the client that renews its tokens |
| `RoomSync` | a room as the desktop client keeps it: broadcasts, SQLite, cursor, screen |
| `History` | the pages of a room's history and a reader who pages back |
| `AgentProofs` | theorems about what a client waits for and keeps: `AgentEngine`, `AgentStream`, `RoomSync`, `AuthSession` |
| `MessageProofs` | theorems about `RoomLog` and `HubRouter`: a message from its sender to the connections |
| `StorageProofs` | theorems about `RAGIndex` and `Files`: what is stored twice and must agree |
| other `...Proofs` | theorems about the module of that name |
| `MC...` | definitions TLC needs: request tables, scripts, replies, symmetry |
| `MCStorage`, `MCClient` | `RAGIndex` and `Files`; `AuthSession`, `RoomSync` and `History`: parts that share no state, of which `part` names the one that moves |

Modules whose theorems share a proof module name their states apart
(`RouterInit`, `FilesNext`, `EngineSpec`, ...).

### TaskPipeline

One handler per task (`producer`), workers with a program counter for each
external call of `runWorker` (`pc`: `pop`, `mark`, `execute`, `fail`, `succeed`,
`publish`, `ack` and the retry labels `remark`, `resucceed`), and the queue as a
number of deliverable copies per task (`ready`), a flag per worker that its
delivery is still unacked (`held`) and the set of parked messages. A database
call that fails may have been committed (`MaybeCommitted`). Nothing is published
with confirms, so a push is uncertain both ways: one that failed may have been
delivered (`PushFails`), and one that returned nil may have gone down with the
connection (`PushVanishes`; the handler has answered "accepted", its `producer`
is `unheard`, and the row stays pending with nobody to take it further). A lost
connection hands every unacked delivery back; a crash of the API process ends
its handlers where they are.

`service` is the task process. A signal cancels its context (`Shutdown`): workers
that wait for a message return (`Leave`), retry loops end at their next sleep,
the others carry on, and `main`, which waits for nobody, returns at any moment
(`TaskServiceEnds`), as it does when the process dies. Somebody may start it again
(`TaskServiceStarts`). `lost` records the places where the code itself gives up (a log line and an ack)
or the end of the process cuts a task off past its claim, so that the properties
below say exactly where a task may be left alone and nowhere else.

`TaskLifecycle` is the promise: at most one row per request, status only moves
forward, work begun at most once, reports carry the final status.
`TaskPipeline` uses the same variable names, so the refinement mapping is the
identity.

### RoomLog

Each sender is a goroutine in `saveMessage`: `begin` (look the quoted message
up), `locking` (the `SELECT ... FOR UPDATE` has picked its row and waits),
`inserting` (it has the lock), `routing`. `call.last` is the number that was
read; it is not refreshed after the wait, as in PostgreSQL at READ COMMITTED,
and an empty room has nothing to lock, so `Conflict` (the unique index) really
happens. A commit may succeed while its answer is lost.

### AgentEngine

One action per node and outcome; the model's replies, tools and judges are
inputs. `Advance` is `shouldAdvanceStep`. The parsing of the coordinator's JSON
is modelled by what it does, `fmt.Sprint` of a missing key included (`Sprint`): a
reply that names no tool makes the engine run a tool called `<nil>`.
The outline is its length, the marked step and the step whose text is the
current task. The formatter and validator nodes are registered but no route
leads to them.

### AgentStream

The lock makes `Subscribe` and the first half of `Publish` atomic; the send
(`Send`) and the close of the channel (`Close`) are steps of their own, which is
where the code leaves them. A script gives each publisher the events it
publishes, in order.

### DoneEvents

The two flags are the state that matters: `WsHandler.doneConsumerUp`
(`handlerUp`) and `MainService.doneConsumerUp` (`pc # "stopped"`), with
`doneConsumerErr` (`startErr`). `next` is the delivery that waits in the client
library, `held` what is unacknowledged, `current` what the loop works on; the
three come apart when a delivery is acknowledged early, when the channel is
closed, and when a buffered delivery outlives its channel. Acknowledging twice
closes the channel, as RabbitMQ does.

### HubRouter

A connection has a stage (`new`, `counted`, `live`, `uncounted`, `gone`): what
`OnConnect` and `OnDisconnect` do under the mutex is one step, what they then
ask Redis is the next, so an `SREM` decided by an old connection may come after
the `SADD` of a new one. `Uncount` is the code's arithmetic: a room is counted
once per connection and uncounted once per user. A message is routed node by
node from the set that was read (`Start`, `SendLocal`, `Publish`, `Receive`),
while connections move. `Deliver` is the hub's loop; any client may be found
with a full channel and be dropped. `lapsed` names the entries that an
overtaking `SREM` or a failed call has cost; `owed` is who was to get a message
when its nodes were read. Notices of joins and leaves only reach the local hub
in the code, and in the model (`system`).

### Groups

A request is a sequence of statements (`call.phase`): look, write, the second
statement of a dismissal, and the two cache deletions. `CreateGroup` is three
separate commits. A posted message is checked against the cached permission,
or against the row it then caches (`FillPermission`), and the member list is
read and cached the same way (`FillIds`), so a fill may follow the deletion it
should have preceded. `MayPost` is that check: a cached permission decides, and the
row only where there is none. `excused`, `rowsLost` and `lateJoins` name the races
and failures that leave something behind.

### Friends

The pair's requests are rows with a status; `Taken` is the unique index on
(from, to, status). Accepting is one transaction with its row locks (`Locked`)
and the index's wait for an open insert (`Inserting`); everything else is
statement by statement. `EnsureDirectRoom` looks and creates. The model is
where one sees why that is harmless: whoever may send has a room already.

### RAGIndex

`Cut` is the segmentation loop, a recursive function over the numbers of the
room's messages: a pause, the length or the number of lines closes a segment,
and the next begins with a few of its lines. A run reads
the newest message, the cursor, the messages, filters the segments that have
rows, stores rows, writes points, and sets the cursor to what it read first;
each is a step that another run may come between, and each call may fail.
`ReadRange` is `ExecuteRAGAddMemory`, with a batch id of its own. Searches only
read, and are left out.

### Files

An attachment is a file and a try (0 for the file itself, n for the n-th try at
its thumbnail). Every request is a sequence of calls of the object store and
statements: check, row, thumbnail object, thumbnail row, link; then for an
avatar the transaction that locks the user's row and swaps (`Lock`, `Swap`), the
deletion of what it replaced (`Sweep`), or the deletion of itself (`Undo`) when
the swap was answered with an error. A lost commit answer takes the last path
although the swap happened (`lostSwaps`).

### ModelRPC

`llmmq`, `embeddingmq` and `aigcmq` are the same program three times; what
differs is a parameter (`Need`, `Images`). A worker handles one delivery at a
time while the broker hands it up to its prefetch (`held`). `Enough` and
`Cost` are the limiter's test and its draw, `Tick` refills; `since` remembers
what was drawn in the last ticks. A client that times out leaves, its queue with
it. Neither client nor worker reconnects, so `clientUp` and `up` only go down
until a restart.

### AuthSession

A pair of tokens has the number of its session row; what has expired are two sets
(`stale` for access tokens, which the middleware checks without looking at the
row, `outdated` for sessions). A handler is at one of its statements: `Refresh`
reads the row (`RefreshLooks`), revokes it (`RefreshRevokes`) and inserts the next
(`Issue`), with no transaction around them, and every statement may fail with or
without its effect. `origin` follows a row back to the login it descends from.
The client is `api.ts`/`apiClient.ts`: `held` is the pair in its store, `Renew` is
the branch on an expired access token (the first call refreshes, under the flag
`isRefreshing`, the others wait in its queue), `Renewed` sends them again as they
were but for the access token, `NotRenewed` clears the store and fails them all.
Requests and answers may be lost (`Breaks`) and the window closed at any time
(`Quit`), which loses the calls and keeps the store; both count as faults. `excuse` records which of
these may have cost a login one of its sessions.

### RoomSync

The server saves and broadcasts in two steps (`Save`, `Route`), so broadcasts of
two senders may cross; `frames` is the buffer of the member's connection. The
client opens its window, asks once for what is after its cursor (`Ask`), saves the
answer row by row, writes the cursor, and reloads (`Query`, `ShowLoad`); then it
only listens. Each message that arrives has a handler that does not wait for
another: save, set the cursor to this message, show (`SaveIncoming`,
`MarkIncoming`, `Show`). Connections break and come back (`Connect` asks for
nothing), statements fail, the window is closed; SQLite is what remains. `jumped`
names the rows that a cursor was set past.

### History

A row is its `created_at`, at the position of its sequence number; a sender draws
the time first and competes for the number later (`Begin`, `Commit`). `Before` and
`Latest` choose rows by number and sort them by time, as the SQL and the
`sort.Slice` after it do, with either order for equal times. The reader is the page
under `web/ws`: it has times in seconds (`BySecond`), and asks for what is before
its earliest (`LoadMore`). `left_at` hides what came after he left.

## Runs

| Run | Bounds | Shows |
|---|---|---|
| `pipeline` | 3 tasks, 2 of one request; 2 workers; queue of 1; 2 attempts each; 2 faults (vanished pushes and signals are faults, too) | a request's work begins at most once, reports are final, rows are left alone only where the code gives up; `LifecycleSpec`; `EveryTaskSettles` |
| `room` | 2 senders, 2 messages each, 2 attempts, 1 fault | numbering, single storage, drops, each sender's order, `LogSpec`, and that every save returns (no deadlock of row locks) |
| `stream` | 2 connections, 1 of them left; 4 events of 2 publishers; channel of 2, replay of 3 | nothing doubled, nothing lost but what the code drops; the final event in a channel ends the stream |
| `agent` | limit of 4 steps, one local and one MCP tool, ten shapes of reply | a run ends, or one of two loops goes on for ever |
| `done` | 2 events, 2 retries, queue of 2, 4 failing calls, 1 lost connection or restart | nothing vanishes, repeats are paid for, an event is settled or a consumer has stopped |
| `router` | 2 nodes, 3 connections of 2 users, 1 room, 1 message, 1 fault | Redis names every live connection, no connection gets a message twice, who was owed it gets it |
| `groups` | an owner and a user, 2 concurrent requests, 1 post, 1 fault | stale entries and posting members of a dismissed group are accounted for |
| `friends` | 2 users, 2 concurrent calls, 2 requests, 1 fault | one direct room; stale friendships are accounted for |
| `storage` | index: 2 runs, 3 messages, segments of 2 lines that overlap by 1, 1 chosen range, 1 fault; files: 2 handlers, 3 files, 2 tries at a thumbnail, 1 fault | the cursor's past is in segments, rows match points; objects match rows, the avatar is there and is one |
| `rpc` | 2 calls (2 images; none), 2 workers, queue of 1, 2 buckets with a request above one's capacity, window of 2, 1 fault | the rate is kept, a waiting client is served, images are claimed, the limiter lets everybody through |
| `client` | sessions: 2 calls, 3 sessions, 1 fault or closed window; room: 2 senders, 3 messages, pages of 2, buffer of 2, 1 break, 1 error, 1 closed window; history: 2 senders, 4 messages, pages of 2, 4 ticks of half a second, 2 leaves or returns | one live session per login, in its client's hands; nothing slips past the cursor, the screen shows what is stored; who pages back to the end has everything he may see |
| `done_stops` | 2 events, 1 retry, no lost connection | a disagreement: see below |

The bounds are chosen so that the interesting case happens: with two senders,
two messages each and two attempts a save loses both of them and is dropped;
with a queue of one a message overflows; four failing calls exhaust an event's
two retries and make its dead letter fail as well; four events overflow a
channel of two and a replay of three; a limit of four steps leaves room for a
plan, a failed tool, a new plan and a refused answer; two connections of one user
on one node make the counts of rooms and users drift; two concurrent requests
are what a race between a read and a deletion needs, and requests follow each
other without a bound; three messages and segments of two make a segment that
repeats a line of another; three files let two avatars replace a third; three
sessions are a login, its refresh and the refresh or login that crosses it, and
two calls are one that refreshes and one that waits, logs out or logs in meanwhile;
three messages and pages of two make a second page, and a handler that sets the
cursor between the two ends of one; four rows and pages of two let a save be
overtaken by a whole page. The parts
of `storage` and `client` share no state, so a behaviour of one says nothing of the
other, and a run checks each of them alone. Faults
are counted together, so every mixture up to the bound is covered. Constants
like the queue's length (50 000 in production) or the replay (200) only move the
point where the limit is hit. Symmetry is used in runs without liveness only,
between handlers, requests or connections that no constant tells apart.

### Properties worth reading

* `AtMostOneExecution`: redelivery, double pushes and resubmitted requests never
  start the work twice.
* `ReportsAreFinal`: a done event carries a snapshot taken steps before; it is
  nevertheless the status for ever.
* `PendingHasCarrier`, `RunningHasOwner`, `FinishedIsReported`: a row is left
  alone only where the code gives up, and a verdict is the executor's.
* `SequenceIsGapless`, `DropsArePaid`: numbers are 1, 2, 3, ... in commit
  order, and a dropped message lost each attempt to a message of its own.
* `NothingTwice`, `NothingLost`: the hand-over from replay to channel.
* `NothingVanishes`, `RepeatsArePaid`: the copies an event goes through while it
  is retried, across acknowledgements and restarts.
* `Reachable`: the counts of `OnConnect` and `OnDisconnect` drift apart, but
  only towards naming a node too long.
* `StaleIsPaid`, `StaleFriendshipIsPaid`: exactly which interleavings leave a
  wrong entry in Redis until it expires.
* `PostersSeeTheGroup`: the right to post, which a cached permission outlives the
  membership with, against what the user sees of his groups.
* `OneDirectRoom`: look-and-create without a lock, and still one room.
* `CursorIsCovered`: runs race and set the cursor back, and nothing behind it is
  unindexed.
* `OneAvatar`, `AvatarIsThere`: uploads of one user that replace and delete each
  other's files.
* `SessionsAgree` (`OneLivePerLogin`, `HeldIsLive`, `NoSessionStrays`,
  `WaitersHaveRefresh`): three statements without a transaction on the server and a
  flag without a lock on the client, and still one live session per login, in the
  hands of its client, and a refresh under way for every call that waits for one.
* `NothingSlipsPast`: the cursor of a room, which sync and every handler write, goes
  over a message only where a handler's own cursor jumped it.
* `ScreenShowsStored`: what SQLite has is shown once, or a handler or a reload is
  about to show it.
* `HistoryIsWhole`: pages chosen by number, ordered by time and asked for by time
  leave no gap.
* `RateIsKept`, `LimitEnds`: never more than the limit in any window, and never
  for ever less.

A property with a second half ("unless ...") names its exceptions by history
variables that are set by single actions: the model says which interleaving or
failure makes the exception, and the mutants show that the property does not
hold without the code's precaution.

### Where code and documents disagree

`done_stops` checks what a document promises and the code does not do: "原有 WS
房间消息继续正常广播机器人最终回复" (documents/sse最小改造方案.md:126). Exhausting the
retries of a succeeded task acknowledges its delivery twice, RabbitMQ closes the
channel, and the consumer is never started again. `done` shows more of it: a lost
connection stops the consumer for good as well (`SettlesOrStops` holds only with
its second half), a `Consume` that fails is never tried again, and a start that
succeeds after one that failed is taken for a failure because
`doneConsumerErr` is not reset.

Seven more statements are kept in the modules as properties. Add one to the
configuration named, and TLC refutes it; each counterexample was followed
through the code.

| Property (configuration) | Stated | Found |
|---|---|---|
| `DoneClosesStream` (`AgentStream.cfg`) | 收到 agent.done 后关闭连接 | a stream opened after the final event replays it and stays open |
| `EventsInOrder` (`AgentStream.cfg`) | 按事件顺序持续推送 | two publishers send after unlocking, in either order |
| `ChatUnaffected` (`AgentStream.cfg`) | 不影响现有 WebSocket 聊天主链路 | a send on a channel that was closed in between panics and ends the process |
| `LoopIsBounded` (`AgentEngine.cfg`) | 达到最大循环次数 | guard "continue" and final_think "retry" never count as steps |
| `PromptIsConsistent` (`AgentEngine.cfg`) | one current step | the prompt marks one outline step and orders another |
| `LogoutRevokesBearer` (`Client.cfg`) | "验证并吊销当前访问令牌对应的会话" (auth_handler.go:57) | the session is found by the refresh token in the body alone (auth_handler.go:82). A logout whose access token has expired is sent again after the refresh with the body it had before (apiClient.ts:110): 404, the store is cleared, and the session the refresh made stays live with nobody who could end it |
| `PagesDoNotOverlap` (`Client.cfg`) | ranges of `sequence_id`, "避免时间戳重复或回拨导致的问题" (message_handler.go:145) | the page is then sorted by `created_at` (164) and the reader asks for what is before the earliest time he has; with two rows of one second, or a save that was overtaken, the next page repeats messages, and one overtaken by a whole page gets the same page again and again |

What else one learns from the models:

* Router. A node that crashes leaves its entries in Redis. `AddMembers` adds a
  node to a room without counting it, so the node's own disconnects will not
  remove it. System events (joins, dismissals) reach the users of one node only.
* Groups. An `AddMembers` that looked at the group before it was dismissed puts
  an active member into it. The owner may remove himself by `RemoveMember`,
  although `LeaveGroup` forbids it to him; an admin who has left keeps his role,
  gets it back when he joins again, and may still add and remove others.
  `checkGroupPostingPermission` reads the member row and not the room's.
* Task pipeline. A task whose push vanished with the connection is pending for
  ever and its request id is taken: submitting it again answers with the same task.
  A signal ends the process while its workers execute; their tasks stay `running`.
* Desktop client. After a break the client connects again without asking for what
  it missed; the next broadcast sets the cursor past it, and no later sync asks for
  it.
* Sessions. Two refreshes of one token both succeed; only the client's flag keeps
  them apart, and a window closed during a refresh does not keep it. An access token
  is good until it expires, whatever became of its session.
* Friends. The index on (from, to, status) makes the second rejection of one
  user's request fail: it can only be accepted or left pending. Two devices of a
  user that accept and reject one request overrule each other.
* RAG. A failure between rows and points is for ever: the rows make every later
  run skip the segment, and the user is told "已完成向量化".
* Files. A swap that commits and is answered with an error makes the handler
  delete the file that has just become the avatar. No job removes expired
  attachments or multipart uploads that nobody ends.
* Model RPC. A request refused by the full queue is told to nobody: its client
  waits until its timeout. A dead letter is published on the channel that has
  just failed. A worker that lost its connection is not replaced. Each process
  has its own limiter, and a restart begins with full buckets. Images of late or
  failed answers are left without an owner.

## Fairness

Only goroutines of the program, and time, are fair. `TaskPipeline`: handlers that
have begun and workers are weakly fair, since their calls return an answer or an
error; nobody has to submit. A worker whose process is told to stop leaves, and the
process ends; that it is started again is no fairness but the premise of
`EveryTaskSettles` (`[]<>(service = "up")`). `RoomLog`: each save is weakly fair, since
PostgreSQL answers and grants a lock that stays free. `AgentStream`: publishers
and handlers, not clients. `DoneEvents`: the consumer's goroutine and the dead
letter consumer's, not the publisher, the operator or the network. `AgentEngine`:
the loop of `Run`; every call it waits for has a timeout. `ModelRPC`: the clock
and each worker; not the clients, which may wait or leave; its `LimitEnds` also
rests on there being finitely many calls: the limiter keeps no queue, so among
callers without end one could be overtaken for ever. Faults, crashes, reconnections and new requests are
never fair. The other models have no liveness property: what their requests
promise they promise when they answer, and what
`AuthSession`, `RoomSync` and `History` would promise rests on a user who goes on reading.

Deadlock is checked where the system goes on for ever (`groups`, `rpc`).
The others may stop, when all tasks are settled, all senders idle, all streams
closed, all connections gone, the bound of requests or files reached, or a run
ended. The liveness properties find the stops that should not be.

## Proofs

TLAPS proves, for every value of the constants allowed by the modules'
assumptions:

| Module | Theorems | From |
|---|---|---|
| `TaskPipelineProofs` | `TypeCorrect`, `ExecutedAtMostOnce`, `OwnedExclusively`, `ReportedTruthfully`, `PendingIsCarried`, `RunningIsOwned`, `VerdictIsReported`, `ImplementsLifecycle` | `PipelineAssumption` |
| `MessageProofs` | of the room log: `RoomTypeCorrect`, `Gapless`, `StoresOnce`, `DropsPaid`, `RoutedInOrder`, `ImplementsChatLog` | `RoomAssumption` |
| | of the router: `RouterTypeCorrect`, `NothingTwice`, `OwedIsDelivered`, `LiveIsReachable` | `RouterAssumption` |
| `AgentProofs` | of the stream: `StreamTypeCorrect`, `ShownOnce`, `NothingFallsBetween` | `StreamAssumption` |
| | of the engine: `EngineTypeCorrect`, `BudgetExact`, `AnswersReviewed` | `LimitAssumption`, `RepliesAssumption` |
| | of the room's copy: `NothingSlips` | `SyncAssumption` |
| | of the sessions: `AuthTypeCorrect` | `AuthAssumption` |
| `DoneEventsProofs` | `DoneTypeCorrect`, `NoEventVanishes`, `EveryRepeatIsPaid` | `DoneAssumption` |
| `ModelRPCProofs` | `RPCTypeCorrect`, `RateKept`, `WaitingServed`, `ImagesClaimed` | `RPCAssumption` |
| `FriendsProofs` | `FriendsTypeCorrect`, `OneRoom`, `StalePaid` | `FriendsAssumption` |
| `GroupsProofs` | `GroupsTypeCorrect`, `OwnerSeated`, `PostersSee`, `StaleMembersPaid` | `GroupsAssumption` |
| `StorageProofs` | of the index: `IndexTypeCorrect`, `RowsMatched`, `CursorCovered` | `RAGAssumption` |
| | of files: `FilesTypeCorrect`, `NothingIsOrphaned`, `AvatarIsServed`, `AvatarIsOne` | `FilesAssumption` |

Every safety property that a passing run checks, invariant, action property or
refinement, is the subject of one of these theorems, but for `SessionsAgree`,
`ScreenShowsStored` and `HistoryIsWhole` (see "Only model-checked").
`BudgetIsExact`, `AnswersAreReviewed` and `OwnerKeepsHisSeat` are proved and not
among the properties of a run.

**Task pipeline.** `AtMostOneExecution` is not inductive: that a row is run once
depends on the claim moving it out of `pending`, on nothing moving it back, and
on a request having one row. The inductive invariant is `TypeOK /\ ClaimInv`,
where `ClaimInv` adds: a request has one row (`OneRow`), execution follows the
claim (`RunsFollowClaim`), a worker past the claim has a claimed row to itself
(`OwnersClaimed`, `ExclusiveOwner`), and what is about to be published, or was,
is the row and is final (`SnapshotFinal`, `ReportsTerminal`). The refinement
uses it to show that each step is a step of `TaskLifecycle` or a stutter: a
claim whose answer was lost is an abstract claim that never begins the work.

On top of it, three invariants say who answers for a row. `PendingHasCarrier` is
not inductive: it counts a worker as a carrier even when the broker has taken
its delivery back, and a crash would then lose the row; `CarrierInv` counts
unacked deliveries only. A pushed row that is not `unheard` has reached the broker;
`unheard` is the one place where a row is left and nobody has given up on it.
`RunningHasOwner` is inductive with `ClaimInv`.
`FinishedIsReported` needs where a worker stands between `Execute` and the report
(`FollowsVerdict`) and that nobody executes a judged task again (`NoVerdictYet`).

**Room log.** A transaction that is about to insert has read some number that is
at most the length of the log (`Reading`), and the unique index refuses it
unless it is exactly that; so the log stays numbered. `Paying` counts: the
attempts used so far are covered by the rows committed since the save began and
by faults, which gives `DropsArePaid`. `Authored` and `Fresh` say that a
message being saved is not in the log yet, unless a commit's answer was lost;
that gives `StoredOnce`. For `SentInOwnOrder` a stored message that waits to be
routed is newer than all its sender has had routed (`RoutingOf`).

**Agent stream.** `Publish` is safe against a `Subscribe` at any moment because both
look at the hub under one lock: the replay buffer holds the newest ids without a
gap (`Numbered`), so a subscription owes its stream exactly the ids after the
buffer's; an event in flight has not been shown and is in flight from one
publisher only (`FreshOf`). `ReachedOf` and `OnceOf` are `NothingLost` and
`NothingTwice` of one stream; an event that moves to the client changes neither.

**Agent engine.** `BudgetIsExact` and `AnswersAreReviewed` are inductive with the
types and `Planned` (past the planner at least one outline was made, so the
step is not zero).

**Room copy.** `NothingSlipsPast` is inductive with `CopyInv`: every row is stored, lost
to the client or on its way (`Known`), the cursor has passed only what is stored or
jumped (`Passed`), a handler marks only what it has stored (`Marking`), and the page
that sync works through holds all that lies between the cursor it has read and the
one it will write (`PageIsWhole`), although handlers move the cursor meanwhile. The
pages are taken for any `HistoryLimit` (`AfterFacts`).

**Sessions.** The types are inductive with `RefreshNamed`: the row a refresh inserts
takes its `origin` from the session its request names, so it must name one.

**Model RPC.** The rate in a window is bounded because what was reserved and what
is left never exceed a full bucket and its refills (`Metered`); a draw moves a
token from one to the other. For `WaitingServed` a request in flight or with a
worker was made (`Known`), and a worker that is about to acknowledge has
answered whoever waits (`Answered`): losing the worker before that puts the
request back. `ImagesClaimed` follows an image from hand to hand: claimed by an
answer, a caller or an excuse, or still with its worker, and always claimed
when the worker is about to acknowledge (`Passed`).

**Friends.** `Befriended` is what the code relies on without saying so: a
friendship, a cached friendship and a call that has seen one all come with a
room, so a room is only created in the transaction that inserts the first
friendship, and the unique index lets one such transaction pass at a time.
`StaleFriendshipIsPaid` is inductive as it stands.

**Groups.** `Founded`: before the owner's row is there nobody can ask anything, so
no request and no entry is older than it; a request about to write knows what it
has checked; rows stay. The owner's seat follows from it. `PostersSeeTheGroup` comes from three sides: who has a cached
permission has a row (`PermittedHasRow`, since permissions are filled from rows and
rows stay), whether the two agree is `StaleIsPaid`, and `Seen` says that who is
active in a dismissed group has a row written after the dismissal. For the entries `PermPaid` and `IdsPaid` are shown action by action:
who has changed a row still has to delete what was filled from it, and goes on
only by deleting it or with an excuse.

**Done events.** `NothingVanishes` is not inductive: it lets an event be with the
consumer, and the consumer may be about to acknowledge it. `ConsumerInv` says
how the three copies of a delivery go together: what is unacknowledged is the
event the loop is at, over an open channel, and then nothing else has been
delivered. `BackInv` says what the loop goes on with after the broker took its
delivery back: it is in the queue again, so the second acknowledgement costs the
channel and not the event. `RepeatsArePaid` is shown by counting (`PaidInv`):
the messages sent for a task and those that can still be sent for it, in the
queue, in the client library or with the loop, are at most one more than the
answers that failed halfway and the redeliveries. `QueueBound` is needed for the
types: the broker takes a delivery back without regard to the queue's limit, but
there is at most one to take back.

**Hub router.** `NoDuplicates`: a node is a target of a message, or has its payload
on the wire, or neither, never both, and while it is one of them no connection
of the node has got the message (`OnceInv`); a connection belongs to one node.
`Delivered`: a connection that is owed a message has got it, or its node is
still a target, or the payload is on its wire and names its user (`OwedInv`).
`Reachable` is the arithmetic of the counts. A user's count at a node is exactly
the number of his open connections there. A room's is only at least the number
of users who hold it, because it is counted per connection and uncounted per user;
that is the side on which `OnConnect` and `OnDisconnect` may drift, and enough
to show that the last one to leave is the one who retracts (`CountInv`).

**RAG index.** `Promise` says what a run relies on in each phase: until it has
stored its segments, rows and segments together cover the room up to the number
it will set the cursor to, and then the rows do alone. It survives every other
run, since rows are never removed. That the segments of a reading cover it is a
fact about `Cut`, for every room, bound and overlap: `AfterFacts` shows that the
recursive function exists and satisfies its equation, `CutFacts` that after m
messages each of them is in a closed segment or in the open one, that no segment
is empty, and that each is an unbroken run of lines (`Whole`). The library's
induction theorem takes an operator and no installed prover can instantiate it;
`Climb` proves induction for sets of numbers from the well-foundedness of `<`,
and the two lemmas apply it to the set of the n for which they hold. The last
property is what the filter needs: a segment is passed over when an old one has
the same first and last line, and two unbroken runs of lines with the same ends
are equal.

**Files.** `ObjectsInv` says of each file what state it is in by the phase of the
handler that works on it (`HandInv`), which is one handler (`OwnerInv`); a file
with no handler is settled (`RestInv`): object and row agree, or the difference
is excused, or it is one of the keys a handler is about to sweep; and a name not
drawn yet has nothing (`FreshInv`). A key to be swept has lost its row and is not
the avatar (`KeysInv`), which is why the deletions of a finished swap cannot hit
the avatar of a later one. `SwapInv` is the row lock of the user: one handler is
in the transaction, and what it read there is still the avatar. `OneAvatar` then
follows from `RestInv` and `HandInv`.

**Only model-checked.** All liveness: `EveryTaskSettles`, `EverySaveReturns`,
`FinalEventEndsStream`, `EndsOrLoops`, `SettlesOrStops`, `LimitEnds`. They rest on
fairness, whose rules need ENABLED, which the prover does not support.
`ScreenShowsStored` of `RoomSync` and `HistoryIsWhole` rest on what sorting a set
into a sequence gives, which would need an induction of its own. `SessionsAgree` is
within the prover's reach but not proved: it needs an invariant that says for each
pair which handler, call or excuse it is named by.

## What is not modelled, and why

* The second database, MySQL: its gap locks would change `RoomLog` (an empty
  room can be locked there); PostgreSQL is what the deployment files use.
* The in-memory task store: it returns the task together with an error, which
  `pool.go:101` would execute; no deployment uses it.
* Task payloads, prompts, memory texts, tools, executors, the configuration's
  parsing: data and I/O that the properties do not tell apart.
* Message TTLs of the queues: 0 unless configured. Time to live of Redis entries
  is modelled as an entry that may vanish at any time.
* Online status: `updateUserStatus` runs in a goroutine per change, and two of
  them may write in either order; nothing but the display depends on it.
* RAG search and reranking, which only read; the cleaning of texts.
* Registration, passwords and cookies; the sessions of a user's other devices,
  which no request of this one names.
* The rest of the desktop client: optimistic copies of the user's own messages,
  unread counts, downloads, the pages of the AI chat.
* In the history: the rows of a direct room's members, failed requests, and live
  messages, from which the page does not page back.
* Dead letters of tasks: the loop that copies them to a table is the one
  `DoneEvents` models for done events.
* Heartbeats, pings, logging, metrics, legacy pages and probes.

## Next

Proofs: what is left of the safety side is the link between modules. A room's
routing in `RoomLog` and the start of a route in `HubRouter` are the same call,
and `DoneEvents`' `sent` is a save of `RoomLog`; both are stated in words only.
Of `AuthSession` `SessionsAgree` is left to prove, of `RoomSync` what needs
facts about sorting.
Models: the composition of `DoneEvents` and `AgentStream` (an event with an empty
reply returns before `agent.done` is published, `ws_handler.go:927`), two processes
of `AgentStream` behind the router, and the client's optimistic copies in
`RoomSync`.
