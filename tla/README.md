# Verification of the S1 game server

TLA+ models of the server in this repository, the TLC configurations that
check them on small instances, and theorems, proved with TLAPS for every value of
the constants: of each safety property that the runs check, and of both
refinements.

Every definition is a translation of the code; `PROJECT.json` gives, for each,
the file and the lines it stands for ("map"), the runs with the properties they
check, for every property a small fault of the code that breaks it ("mutants"),
and the list of what is hard to test in this code ("hazards").
Operators named as faults in the comments (for example `AnyCaller` beside
`FirstCaller` in `Session`) are those mutants: no specification uses them.

1. [The system](#1-the-system)
2. [The modules and the code](#2-the-modules-and-the-code)
3. [The runs](#3-the-runs)
4. [The proofs](#4-the-proofs)
5. [What was found](#5-what-was-found)
6. [What is not modelled](#6-what-is-not-modelled)
7. [The plan](#7-the-plan)

## 1. The system

`src/Core` is a networking and scheduling library for Windows I/O completion
ports; `src/Server` is a game server for one Room built on it; `src/LobbyServer`
is an HTTP service with a list of rooms; `src/DummyClient` is a test client.
One process runs `main` (`src/Server/main.cpp`): eleven threads (the main one
and ten more) that all execute `DoWorkerJob`.

```
 peers <-> IOCP --Dispatch--> Session / PacketSession --OnRecvPacket--> ServerPacketHandler
                                 ^     | RecvBuffer                            |
                     SendBuffer  |                                             | DoAsync
                                 |                                             v
   GlobalQueue <-hand over- JobQueue = Room --runs--> Room's jobs --> Monster, Player
        |                        ^                        |           NavigationSystem
   DoGlobalQueueWork        JobTimer <----- DoTimer ------+
```

### Inventory

**Lock** (`Core/Lock.cpp`). State: `_lockFlag`, 32 bits: the writer's thread id
above the number of readers; `_writeCount`. Operations: `WriteLock`,
`WriteUnlock`, `ReadLock`, `ReadUnlock`, through scoped guards. Used by
`LockQueue`, `Session`, `Service`, `JobTimer`, `SendBufferManager`, the
managers. Hard: recursion of the writer, the two halves of one word, the plain
counter beside the atomic word, spinning, the time-out that ends the process.
Correct if: writers exclude everybody else; the word is exact, and empty again
after the last guard; guards do not run into the crashes of the unlocks; who
spins gets the lock.

**JobQueue, GlobalQueue, LockQueue** (`Core/JobQueue.cpp`, `GlobalQueue.cpp`,
`LockQueue.h`, `Job.h`). State: `_jobCount`, `_jobs`, the thread-local
`LCurrentJobQueue` and `LEndTickCount`, the queue of queues. Operations:
`Push`, `Execute`, and the queue's own. There is no lock around `Execute`: the
thread that raises `_jobCount` from zero is responsible for the queue.
Correct if: a queue's jobs run one at a time and in order (a Room's code has no
locks); no job is stranded; a job that pushes elsewhere does not wait.
Hard: every interleaving of `fetch_add`, `_jobs.Push`, `PopAll`, `fetch_sub`,
the reset of `LCurrentJobQueue` and the hand-over.

**JobTimer** (`Core/JobTimer.cpp`). State: a priority queue, `_distributing`.
Operations: `Reserve`, `Distribute`. Correct if: jobs of one queue fire in the
order of their ticks; the flag is released. Hard: `Distribute` executes whole
queues while it holds the flag.

**ThreadManager and the worker loop** (`Core/ThreadManager.cpp`,
`Server/main.cpp`). State: where each thread is, and `LEndTickCount`.
Correct if: `Room::UpdateRoom`, which re-arms itself, is neither lost nor
duplicated and happens again and again. Hard: liveness through three
components (timer, queue, global queue) and the 64 ms limit.

**IocpCore, Session, PacketSession, Service** (`Core/IocpCore.cpp`,
`Session.cpp`, `Service.cpp`). State: `_connected`, `_sendQueue`,
`_sendRegistered`, the four events with their `_owner`, the Service's set of
Sessions. Operations: `Send`, `Disconnect`, `Register*`, `Process*`,
`HandleError`, `AddSession`, `ReleaseSession`. Hard: completions arrive on any
thread; a Session is kept alive only by its events and the Service; failures
between two steps of a registration; `Send` from several threads.
Correct if: an event is never used twice at once; it refers to the Session and
the buffers until its completion; sends keep their order and happen; a broken
connection is released once and the Session destroyed.

**RecvBuffer** (`Core/RecvBuffer.cpp`, with `PacketSession::OnRecv`). State: two
cursors in a buffer. Operations: `OnWrite`, `OnRead`, `Clean`, the packet loop.
Hard: every way a stream can be cut. Correct if: there is always room for a
receive, no byte is lost or reordered, no complete packet waits. The header's
size is what the peer wrote: a size below a header is read as it stands, and a
size of 0 is never passed.

**SendBuffer, SendBufferChunk, SendBufferManager** (`Core/SendBuffer.cpp`).
State: a chunk per thread, a shared pool. Operations: `Open`, `Close`, `Reset`,
`Pop`, the deleter. Hard: buffers of one chunk outlive the thread's use of it
and are released by other threads; the size of a packet is not checked before a
buffer is asked for. Correct if: no byte belongs to two buffers, no chunk is
lost or owned twice, nothing but a packet too large ends in an assertion.

**Listener** (`Core/Listener.cpp`) and the order of `main`. State: the accept
events, each with the Session it waits with; which threads run. Operations:
`StartAccept`, `RegisterAccept`, `Dispatch`, `ProcessAccept`; `Launch`. Hard:
failures of AcceptEx (RegisterAccept calls itself), SetUpdateAcceptSocket and
getpeername; completions that come before a thread works; main's own call of
`UpdateRoom`. Correct if: an event always comes back to the kernel, with a
Session nobody else has; code of the Room never runs on two threads.

**GameSession, GameSessionManager, ServerPacketHandler, Room**
(`src/Server`). State: a Session's player; `_objects`, `_playerCount`,
`_mapName`, `_initialize`, `_step`, and what the clients have been told.
Operations: the packet handlers, which queue jobs, and the jobs. Hard: packets,
timers, spawns and lost connections in any order; requests repeated by several
clients; ids that clients choose. Correct if: players are counted, the process
ends with the last one, monsters come once, and the clients that were
initialised hear of no monster they have not been shown.

**Creature, Player, Monster** (`Server/Monster.cpp`, `Object.cpp`). State: a
Monster's state, mode, target, wounds, waits. Operations: `Update`,
`SetTarget`, `TakeDamage`, `SetState`. Hard: a change is not broadcast but
queued, so that clients lag behind. Correct if: what they are told ends with
what is so, no state and no attack is told of the dead, and fights end.

**NavigationSystem** (`Server/NavigationSystem.cpp`). State: the mesh, the
crowd (`m_crowd`) and its agents. Operations: `Init`, `AddAgent`, `Update`.
Hard: `Init` runs on the receiving thread beside the Room's jobs with nothing
between them; it runs for every C_ENTER_GAME; its failures (no file of the
map's name, no memory) are told to nobody, and EnterGame is queued all the
same. Correct if: as long as it ran once and did not fail, who uses the crowd
finds it ready, and a monster's agent is one of it.

**LobbyServer** (`LobbyServer/RoomManager.cpp`, `LobbyServer.cpp`). State: the
list of rooms and the next id, under a mutex. Operations: POST /rooms
(`CreateRoom`, then `StartRoom` with arguments, which launches Server.exe),
POST /start_room (`StartRoom`, which takes the room off the list), GET /rooms.
Hard: the mutex is released in the middle of POST /rooms. Correct if: for what
is listed a process was launched, or that was tried or is about to be; a started
room does not come back, nor another in its place.

**DummyClient**, **PacketGenerator**, generated code, vendored libraries
(protobuf, Detour, nlohmann json, cpprest): see section 6.

## 2. The modules and the code

| module | models | granularity of a step |
| --- | --- | --- |
| `SerialExecutor` | what a JobQueue promises (abstract) | submit, start, finish |
| `JobQueue` | JobQueue, GlobalQueue, LockQueue | one access to shared memory |
| `Worker` (extends JobQueue) | DoWorkerJob, JobTimer, ThreadManager, the re-arming of UpdateRoom | one access to shared memory |
| `JobQueueProofs` | theorems about JobQueue and Worker | |
| `Lock`, `LockProofs` | Lock | one access to `_lockFlag` or `_writeCount` |
| `SendChannel` | what Session::Send promises (abstract) | accept, transmit, lose |
| `Session`, `SessionProofs` | Session, IocpCore, Service, the Session's part of GameSession | one shared access, or one section under the lock |
| `RecvBuffer`, `RecvBufferProofs` | RecvBuffer, OnRecv's loop | a receive, one turn of the loop |
| `SendBuffer`, `SendBufferProofs` | SendBuffer, its chunks and pool | one operation; Pop and deleter apart |
| `Room`, `RoomProofs` | Room, ServerPacketHandler, GameSession's player | a packet handler, a job, a timer |
| `Monster`, `MonsterProofs` | Monster, Object | a job |
| `Navigation` | NavigationSystem, the handler of C_ENTER_GAME | a step of Init, a job |
| `Listener` | Listener, ServerService::Start, CreateSession, Launch, the order of main | one system call, one section under the lock |
| `Lobby` | RoomManager and the handlers of the LobbyServer | a method under the mutex |
| `Server` (extends Lobby, Listener, Navigation) | a game from the lobby to its monsters | a step of one of the three |
| `ServerProofs` | theorems about Server | |
| `MC*` | symmetry sets and nesting patterns for TLC | |

### JobQueue and Worker

`push[t]` is the Push that thread `t` is inside of (between `fetch_add` and
`_jobs.Push`, or on its way to the GlobalQueue); `stage[t]` is where it is in
`Execute`; `batch[t]` and `taken[t]` are the locals `jobs` and `jobCount`.
`CountJob` is the `fetch_add`, `EnqueueJob` the rest of `Push` up to the next
shared access, `PopAll`/`StartJob`/`FinishJob` the inner loop, and
`Return`/`Continue`/`HandOver` the three outcomes of the `fetch_sub` and the
clock. In `JobQueue` the clock and the callers are free: any thread may push at
any time it runs code of its own. The identity of a Job is free again when the
Job has run, so the runs are not bounded in time.

`Worker` composes `JobQueue` with the loop: `phase[t]` is the statement of
`DoWorkerJob` the thread is in, `late[t]` is "`GetTickCount64()` is past
`LEndTickCount`", `timers` and `due[t]` are the items in `JobTimer` and in the
local vector of `Distribute`. Its steps are steps of `JobQueue`: the property
`DrivesJobQueue` is `JobQueue`'s `Spec`, so what is shown of JobQueue holds in
the loop.

### Lock

`guards[t]` is the stack of scoped guards of a thread. The lower half of the
word carries into the upper at `MaxCount`, as it would at 65535. `Scopes` lists
the nestings of guards considered. The first test of `WriteLock` and `ReadLock`
("is it mine?") is a step with the call, since only the thread itself can make
it true or false.

### Session

`stack[t]` is the thread's call stack: its current place and the continuations
of its callers, so that `Disconnect` called from `HandleError` called from
`RegisterSend` returns to where it came from. `pending[e]` is the overlapped
operation of an event: pending, or complete with bytes or with none, waiting in
the port. `owner[e]` is the event's `_owner` reference. `Send` may be called
by any thread, within `OnRecv` too. `wire` records what WSASend was given, for
the properties. `SendsInOrder` is the specification `SendChannel` under the
mapping "accepted is what lies in the event, if it is not posted, and then in
`_sendQueue`".

### RecvBuffer

A byte is represented by its distance from the first byte not yet handed over,
so that the position of each byte in the buffer can be compared with the
cursors while the stream is endless. The loop's two tests and `OnRecvPacket` are
steps; `OnRead`, `Clean` and the following `RegisterRecv` are one, because
nobody else touches the buffer (`EventsUsedOnce` of `Session`). `PacketSizes` are
the values that headers have, 0 and those below a header among them. Behind a
size of 0 the same header is read again: `OnRecvPacket` is then a step that
changes nothing, for ever.

### SendBuffer

`shared_ptr` is modelled by who refers to what: a chunk is referenced by the
`LSendBufferChunk` of a thread and by its SendBuffers. The thread that drops the
last reference runs the deleter (`PushGlobal`), as a step of its own. Two
buffers of the same chunk, start and size are one element of `buffers`;
`BuffersDisjoint` excludes two that overlap and differ, and zero sizes, which only
a size that has wrapped around 16 bits could be, are left out. Requests go up to `MaxRequest`, beyond the size of
a chunk: `Crash` is the assertion of `SendBufferChunk::Open`, or the use of the
nullptr that it returns.

### Room, Monster, Navigation

These rest on `SerialExecutor`: the Room's jobs run one at a time and in order,
so a job is one step, and what interleaves are handlers, jobs, timers, lost
connections. `knows[p]` is the set of objects that the client of `p` was shown.
A client sends any packet at any time, with any object id in it; an id is chosen where the Room looks at it (`HandleMove`,
`HandleHit`) and left out where it is only passed on (`Relay`).

In `Room` a Monster is what it is to the Room, an object with news: a `Report`
of its state and target, or a `HandleServerMove`. `Monster` models one in detail,
with distance, sight, arrival and damage left open; the S_HIT of a hit is
broadcast in the job itself, of a dead Monster too (`struck`). Two jobs may end
the process: `GameInit` of a map that has no file (ParsePlayerJson throws and
nothing catches it), also before any EnterGame, and `HandleMove` of a monster's
id, whose cast to a Player is null (Room.cpp:162-163). `crashed` records them, and
nothing happens afterwards.

`Navigation` takes from both what touches the crowd. `m_crowd` has no initial
value: `NavigationInit` lets it be null or garbage. Each C_ENTER_GAME of `Hosts`
has a handler, whose steps are those of Init: the mesh may fail to load, the
crowd to be allocated, and its initialisation to succeed, and the next step comes
all the same (`failed` notes it). `crowds[h]` is "raw" (allocated), "empty"
(initialised without a mesh) or "ready". The Room's jobs find what there is:
`Update` and `Spawn` may die in a crowd that is not usable, and `died` says
where.

### Lobby, Listener, Server

`Lobby`: `rooms` is the set of keys of `RoomManager::rooms`; `creating[r]` is
the local `room_id` of a handler of POST /rooms between its two calls; `server`
and `started` record, for the property, what became of the process and what
POST /start_room was answered for. A room that is started between the two calls
gets no process, and its creator is answered with its id all the same: that is
in the model (`server[id]` stays "none") and no statement of the repository
says otherwise.

`Listener`: `pending` and `completed` are the accept events in the kernel and in
the port, `sessionOf[e]` is `AcceptEvent::_session`, `eventOf[t]` the event that
thread `t` has in hand. `RegisterAccept` is a step that posts the event or, when
AcceptEx fails, leaves the thread where it is, to call it again with another
Session; the depth of that recursion is not bounded, as in the code. `Main` goes
through `socket`, `accept` and `first` (StartAccept and its loop), `update` and
`launch` before it works like the others.

`Server` has the lobby launch the process (the first that is launched is the
one we follow), its main open the Listener, clients connect, and a thread that
received C_ENTER_GAME go through `Navigation`'s handler while it can do nothing
else (`entering[t]`). The Room's jobs, packets and timers need a thread that is
free. `MainStep` is main's own UpdateRoom, before the threads. These are the
guards that the components have from each other; what each does is its own.

## 3. The runs

Distinct states are rough figures.

| run | module, cfg | bounds | shows |
| --- | --- | --- | --- |
| queue | JobQueue, MCJobQueue | 2 threads, 2 queues, 3 Jobs at a time, pushOnly both ways | `MutualExclusion`, `OneResponsible`, `SerialExecution` (refinement), `EveryJobRuns`, `IndInv` |
| worker_safety | MCWorker, MCWorker | 2 threads, 2 queues, 2 identities for UpdateRoom and 2 for other jobs, 2 ticks | `OneHeartbeat`, `TimersInOrder`, `DrivesJobQueue` |
| worker_liveness | MCWorker, MCWorkerLive | 2 threads, the Room's queue, 3 Jobs, 1 tick | `HeartbeatGoesOn`, `DistributingEnds` |
| lock | MCLock, MCLock | 2 threads, guards nested up to 3 deep, any mixture but W-R-W | `WriterExcludes`, `OnlyTimeOuts`, `GetsLock`, `IndInv` |
| session | MCSession, MCSession | 3 threads, 2 buffers, both kinds of error, DisconnectEx succeeds | see below |
| session_send_error | MCSession, MCSessionErrors | 2 threads, 2 buffers | violation of `NothingStranded` |
| recv_buffer | RecvBuffer, MCRecvBuffer | 3 buffers of 5 bytes, headers of 2 that say 0 to 4 | `RoomForABuffer`, `NoPacketWaits`, `InStreamOrder`, `NoOverlap`, `OnlyZeroHolds` |
| send_buffer | MCSendBuffer, MCSendBuffer | 3 threads, 4 chunks of 2 bytes, requests up to 3 | `Ownership`, `BuffersDisjoint`, `OnlyTooLargeCrashes` |
| room | MCRoom, MCRoom | 2 Sessions, 3 players, 2 monsters, any packet at any time, 2 waiting jobs, 1 piece of news per UpdateRoom, 3 steps | `Membership`, `EndsWithLastPlayer`, `Acquainted`, `MonstersComeOnce` |
| room_abandoned | MCRoom, MCRoomAbandoned | 2 Sessions, 2 players, 1 monster | violation of `AbandonedRoomEnds` |
| monster | Monster, MCMonster | 2 players, both modes, 3 pieces of waiting news | `StoryIsTrue`, `DeathIsLast`, `CalmsDown` |
| server | MCServer, MCServer | 2 handlers of POST /rooms, 2 rooms; main and 1 thread, 2 accept events, 5 Sessions, 2 clients; 2 C_ENTER_GAME, Init failing or not, 2 first monsters of 5, 3 agents, 2 waiting jobs | `ListIsTrue`, `KeepsListening`, `FirstUpdateIsAlone`, `AgentsOfTheCrowd` |

What the runs show, in words:

- **queue.** Whatever Push meets, a queue has exactly one responsible party
  while its count is not zero: the Push that raised it from zero, the thread
  that hands it over, its entry in the GlobalQueue, or the thread that executes
  it. Two parties would run a Room's jobs concurrently, none would strand them.
  As a consequence JobQueue implements SerialExecutor. `EveryJobRuns`: a job
  that was pushed runs, provided that a queue is popped from the GlobalQueue
  again and again while there is one (`GlobalQueueServed`). No thread is bound to:
  `DoGlobalQueueWork` returns before the pop when the thread is late.
- **worker.** Timer jobs of one queue are pushed in the order of their ticks;
  exactly one UpdateRoom is to come at any moment, wherever it is; and it comes
  again and again, provided that some thread is not late every time it reaches
  `DoGlobalQueueWork`. Without that premise TLC finds a Room that stays in the
  GlobalQueue for ever: `DoGlobalQueueWork` gives up as soon as `LEndTickCount`
  has passed (ThreadManager.cpp:58), and there is no rule by which an
  overloaded server serves it first.
- **lock.** The word and `_writeCount` agree with the guards at each step;
  nested guards of the same thread are safe. A write guard in a read guard in
  a write guard crashes (`INVALID_UNLOCK_ORDER`) and a reader that asks to
  write waits for itself until it times out: the first nesting is left out of
  `Scopes`, the second is in and ends in the time-out. The program uses
  neither.
- **session.** `EventsUsedOnce`: at most one thread or operation uses each
  event. `OwnerWhilePending`, `BuffersWhilePending`: a pending operation
  keeps the Session and its buffers, and WSASend is never given nothing, whose
  completion would look like the end of the connection.
  `ReleaseFindsIt`: ReleaseSession's assertion holds. `SendsInOrder`
  (refinement of SendChannel), `SendsHappen`, `IsDestroyed`.
- **recv_buffer.** However the stream is cut and whatever sizes the headers give,
  there is always room for a receive, the bytes keep their order, Clean's memcpy
  does not overlap, and no complete packet is left when the next receive is
  posted. It is posted (`OnlyZeroHolds`) unless a header says 0: then OnRecv
  never returns, its thread is lost to the server and what the peer sent behind
  stays in the buffer. That is the code's behaviour (Session.cpp:317-325 does
  not check the size), and the theorem `ZeroIsNotPassed` says it of every buffer.
- **send_buffer.** See section 1. `OnlyTooLargeCrashes`: the assertions and the
  nullptr of `SendBufferChunk::Open` are met only by a request that is larger
  than a chunk. MakeSendBuffer may ask for one: it does not check the size, and
  S_ENTER_ROOM, for example, holds the names that clients chose.
- **room.** A client may enter twice, leave twice, leave before it is in, lose its
  connection, send anything at any time: the counter still counts the players
  in `_objects`, the process ends with the last who leaves, and monsters come once
  however many ask for them. `Acquainted`: the clients that were initialised have
  been shown the monsters in the Room and each other, so that what the Room says
  its monsters did is about objects they know. It is not so for the target of a
  monster that came into the Room after GameInit, who is shown to nobody; nor
  for the clients who came then, who get the news of monsters they were never
  shown; nor for the ids that clients send, which are relayed unchecked. These are
  in the hazards.
- **monster.** The queued news ends with the state the Monster has; no state and
  no attack follows its death, whatever was queued when it died (S_HITs do: the
  Room broadcasts a hit of the dead as of the living); with nobody left to fight
  and hits at an end the Monster stops attacking. A target that has left but lives
  is left out of that premise: a Monster may go on attacking it as long as its
  Session exists.
- **server.** `ListIsTrue`: a started room does not come back to the list and no
  late request takes off another; for what is listed a process was launched, or
  that was tried or is about to be. (A room that is started between the two halves
  of POST /rooms is off the list and gets no process: the property permits that.)
  `KeepsListening`: an accept event is in one place, whatever fails, and waits
  with a Session that nobody else has. `FirstUpdateIsAlone`: main's direct call
  of UpdateRoom, although clients may connect by then, meets no other thread;
  from then on SerialExecutor holds for the Room. `AgentsOfTheCrowd`: as long as
  one C_ENTER_GAME came, and its Init did not fail (`Orderly`), from EnterGame on
  `m_crowd` is initialised, although nothing synchronises it with the Room: it
  rests on Init coming before EnterGame is queued. C_GAME_INIT may come at any
  time: before EnterGame it ends in an exception and no monster is spawned.
  Before EnterGame an UpdateRoom may meet an `m_crowd` without a value, or one that
  is not initialised yet: the property allows that death, since the code does not
  exclude it. When Init failed, or a second C_ENTER_GAME came, nothing is
  promised, and the run contains the deaths that follow.

### Why the bounds are enough

- JobQueue: the hazards are between two threads on one queue (a Push against
  another Push, or against the end of Execute), and between two queues (a Push
  from inside a job). Two threads, two queues and three jobs make a batch of
  two with a third on its way. What a third thread could add is what the
  theorems cover.
- Worker: two identities for UpdateRoom are one more than there should be.
- Lock: nesting of three gives a writer that reads and writes again. `MaxCount`
  is above the number of readers that two threads can be.
- Session: three threads are one that receives, one that sends and one that
  meets an error; two buffers give one in the event and one behind it. The
  model goes through one connection, from AcceptEx to its destruction, as a
  Session object does.
- RecvBuffer: sizes from 0 to one below a buffer's, as 16 bits are below 0x10000:
  0, below a header, a header alone, and more; three buffers are the least for which `NoOverlap` holds.
- SendBuffer: with four chunks and three threads a chunk can be with each
  thread and one between them, kept by a buffer or in the pool. A request may be
  smaller than a chunk, as large, or larger.
- Room: three players for two Sessions let one enter twice; one monster of the
  map, then one of the wave. `MaxJobs` bounds what packets and timers add; jobs
  that jobs queue are bounded by `MaxNews` per UpdateRoom. The theorems use neither
  bound.
- Server: two handlers and two rooms give the lobby a request between the halves
  of another and an id to mistake; two events, two clients and two threads that
  work let two accepts be processed at once. With five Sessions there is always
  one that is free (one per client and event, and one more), so that
  CreateSession never waits. The second C_ENTER_GAME shows what becomes of the
  first. To keep the run small, `MCSpec` has the lobby and the Listener at rest (a
  room launched, every thread idle, the events pending, one client there) from the
  step on that takes up the first C_ENTER_GAME. `ListIsTrue`, `KeepsListening` and
  `AgentsOfTheCrowd` are each about one component, whose steps change none of the
  variables of the others; all that a handler or a job needs of the Listener is
  a client and a free thread, which this state has. So what the threads can do in
  one component is in the run, as far as these three can tell. `FirstUpdateIsAlone`
  relates two, but a handler needs a thread that works, and that there is none
  while main updates is its first conjunct, which the run checks with the Listener
  free to move. The theorems are about `Spec`, which is not restricted.
- Monster: `MaxNews` bounds what waits when an Update or a hit begins.

### Fairness

| module | assumed | because |
| --- | --- | --- |
| JobQueue | WF of the steps inside Push and Execute | threads run |
| | SF of `FinishJob` | the body of a job ends, though it pushes in between |
| Worker | WF of `WorkerStep` | threads run |
| | SF of `EndDispatch`, `FinishJob`, `HandOver`, `TakeGlobal` | Dispatch waits 10 ms; as above |
| | SF of `TakesBeat` | the clock passes every executeTick |
| Lock | WF of Acquire and Unlock | threads run |
| | SF of Unlock at each depth | the scope of a guard ends, whatever is nested in it meanwhile |
| | SF of `CasWrite` | a spinning thread tries now and then when the word is empty; the lock is not fair, and this is tolerable only because the premise of `GetsLock` excludes the ten seconds after which the spinning ends in a crash |
| Session | WF of a thread's steps | threads run |
| | SF of the sections under the lock | `GetsLock` of Lock |
| | WF of completions, of recv once disconnected | the operating system; a peer may be silent while connected, but goes on reading what it is sent |
| | SF of Dispatch, per event | the port is a queue, and workers return to it |
| RecvBuffer | WF of the loop of OnRecv | threads run; the peer may be silent |
| Room | WF of the jobs and the timer of UpdateRoom | `EveryJobRuns`, `HeartbeatGoesOn`, with their premises: a server that is not overloaded |
| Monster | WF of Update, of the news, of the two waits | the same premises, and the clock |

Premises stated in a property rather than assumed: `GlobalQueueServed` in
`EveryJobRuns`; `NotOverloaded` in `HeartbeatGoesOn`; no time-out and readers that leave now and then in
`GetsLock`; no ignored error of WSASend in `SendsHappen`; hits that end, and
nobody alive to fight, in `CalmsDown`. The code does not guarantee these. `IsDestroyed`
is checked for a DisconnectEx that succeeds (`DisconnectFails` is `{FALSE}`), and says
nothing of a connected Session whose WSARecv failed for good.

Deadlock is checked where the system never stops (JobQueue, Worker). It is
turned off where it may: a crashed or idle Lock, a destroyed Session, a closed
stream, an ended process, a dead monster, all bounds reached.

## 4. The proofs

The theorems are in eight modules, one per component, that `tlapm` checks:
`JobQueueProofs`, `LockProofs`, `SessionProofs`, `RecvBufferProofs`,
`SendBufferProofs`, `RoomProofs`, `MonsterProofs`, `ServerProofs`. Each proof has
the same plan: an inductive invariant, a lemma that Init gives it, lemmas that
the operations keep it (one per action, with one step per conjunct that the
action can disturb), and the properties as consequences. The strengthened
invariants were model-checked before they were proved.

### JobQueue, for any finite set of threads, any queues and any jobs

Assumptions: `ThreadsFinite`, `NoQueueIsNull` (nullptr is no queue),
`PushOnlyBoolean`.

| theorem | says |
| --- | --- |
| `TypeCorrect` | `Spec => []TypeOK` |
| `Exclusion` | `Spec => []MutualExclusion` |
| `ExactlyOneResponsible` | `Spec => []OneResponsible` |
| `CountExact` | `Spec => []CountIsExact` |
| `NoNesting` | `Spec => NoNestedExecute`: a thread is in one queue at a time (the program has one, its Room) |
| `Invariance` | `Spec => []IndInv`, from which the others follow |
| `Serial` | `Spec => SerialExecution`: JobQueue implements SerialExecutor |

Mutual exclusion alone is not inductive: it says nothing of a Push that has
raised the count from zero and not yet called Execute, nor of a queue on its
way through the GlobalQueue. `IndInv` adds

- `Control`: what a thread holds at each place of Execute;
- `Counted`: `_jobCount` is the jobs queued, plus those the executing thread has
  taken, plus the Pushes past their increment: so that "the count was zero"
  means that nothing of the queue is anywhere, and `fetch_sub` returning the
  batch's size means the same;
- `Exclusive`: no two of the responsible parties exist for one queue;
- `Held`: one does exactly when the count is not zero.

`StepPreservesType` and `StepPreservesControl` have a step per action. The
others are split by what the action does: lemmas say how each kind of step
changes `Pushing(q)`, `Owes(t, q)` and `InGlobal(q)`, and
`PushPreservesHolders`, `GlobalPreservesHolders` and
`ExecutePreservesHolders` conclude from them. `OneResponsibleFollows` turns the
pairwise statements into the cardinality that `OneResponsible` speaks of.

For `Serial`, the initial state maps to the initial state and every step to a
step of SerialExecutor or a stutter: a `_jobs.Push` submits (`EnqueueSubmits`, also
when the thread then starts to execute the queue), the beginning and the end of a
job's body start and finish (`BodyStartsAndFinishes`), everything else stutters
(`BookkeepingStutters`). Mutual exclusion is what makes "the thread that
executes q" in the mapping one thread.

### Worker, for any ticks and any identities of UpdateRoom's jobs

Assumptions, besides those of JobQueue: `RoomIsQueue`, `BeatsAreJobs`,
`TicksAreNumbers`, `PushExecutes` (Distribute calls `Push(job)`, with pushOnly
false, so that false is among the values callers give).

| theorem | says |
| --- | --- |
| `TheLoopDrives` | `WSpec => DrivesJobQueue`: every step of the loop is a step of JobQueue, or none |
| `TheLoopSerializes` | `WSpec => SerialExecution`, from this and `Serial` |
| `RoomBeatsOnce` | `WSpec => []OneHeartbeat` |
| `OnePasses` | `WSpec => []OneDistributor` |
| `TicksKeepOrder` | `WSpec => TimersInOrder` |

`OneHeartbeat` follows an UpdateRoom through five places, so the invariant
`WorkerInv` has to say of every job where it is: in one item of `_items` or of the
vector of Distribute (`ItemsApart`), then not yet pushed (`NotYetPushed`), then in
one queue, one batch or one Push (`OnePlace`). That is also why a step of the
loop is a step of JobQueue: a job from the timer is new to the queues. `Places`
and `Alone` say that popped items are with the one thread that `_distributing` let
in; without them an item could be popped twice, or out of order
(`DueInOrder`). `OneBeat` is the property without the cardinality. That
Distribute loses no item is `OrderIsComplete`: what the priority queue delivers is
an injection of as many places as there are items, hence onto them.

### Lock, for any finite set of threads and any nesting of guards

Assumptions: `ThreadIds` (positive, finitely many), `MaxCountIsNumber`,
`ScopesOfGuards`, and

- `ScopesNest`: a guard is constructed inside those before it, because they are
  scoped objects;
- `ReadsAreInnermost`: no write guard inside a read guard inside a write guard,
  which WriteUnlock would crash on and which the program does not have;
- `CountsFit`: guards of one kind are never more than a half of the word counts:
  eleven threads with few nested guards, of 65535.

| theorem | says |
| --- | --- |
| `WordIsExact` | `Spec => []IndInv`: the word and `_writeCount` agree with the guards |
| `MutualExclusion` | `Spec => []WriterExcludes` |
| `UnlocksAreLegal` | `Spec => []OnlyTimeOuts` |

`IndInv` was a candidate that TLC could not refute; for the proof it needed two
more parts: `AcquiresForScope` (what a thread is acquiring continues its stack
of guards to one of the nestings: otherwise nothing relates `CountsFit` to the guard
that is on its way) and `OwnsAlone` (exclusion, including the step between the
compare_exchange and the store of `_writeCount`, when there is no guard yet).
The counting lemmas (`OneGuardMore`, `HeldFits`) say that the readers'
half neither carries into the writer's nor borrows from it.

### Session, for any threads, buffers and errors, DisconnectEx failing or not

Assumptions: `NoThreadIsNone`, `ErrorKinds`, `DisconnectFailsBoolean`.

| theorem | says |
| --- | --- |
| `EventsAreReused` | `Spec => []EventsUsedOnce` |
| `OwnersStay` | `Spec => []OwnerWhilePending` |
| `BuffersStay` | `Spec => []BuffersWhilePending` |
| `ReleasedOnce` | `Spec => []ReleaseFindsIt` |
| `InOrder` | `Spec => SendsInOrder`: Send implements SendChannel |

Who may use an event depends on what a thread will return to, so the
invariant is about call stacks. `Stacks` gives their shapes (what can be below each
place). `OneSend`, `OneRecv` and `OneDisconnect` then say that each activity has one
place: one thread that has it somewhere on its stack, or the pending
operation. `Early` keeps everything else away until the Session is in the Service:
without it a disconnection could come before AddSession. `SendHasBuffers` and
`InOnePlace` follow the buffers, which the refinement needs to know that none is
sent twice.

### SendBuffer, for any threads, any chunks, any size of a chunk and of a request

Assumptions: `NoChunkIsNull`, `ChunkSizeIsNumber`, `MaxRequestIsNumber`.

| theorem | says |
| --- | --- |
| `ChunksAreOwned` | `Spec => []Ownership` |
| `NoByteIsShared` | `Spec => []BuffersDisjoint` |
| `AlwaysOpens` | `Spec => []OnlyTooLargeCrashes` |

That buffers do not overlap is inductive only with where they lie: below
`_usedSize` and after one another (`BuffersLaidOut`), what is being filled beyond
them (`RequestFits`), and a chunk that is about to be reset without any
(`PoppedIsEmpty`). `GivesBack` and `OpenWhileFilling` are about the steps between
the last reference and the pool, and between Open and Close.

### Room, for any Sessions, players, monsters and waves

Assumptions: `NoSessionIsNone`, `NoPlayerIsNone`, `IdsAreUnique`,
`MonstersAreFinite` (ids are 64 bits), `WavesAreCounted`, `NewsAreCounted`.
`MaxStep` and `MaxNews` are any numbers, `MaxJobs` may be anything.

| theorem | says |
| --- | --- |
| `CountIsRight` | `Spec => []Membership` |
| `LastOneOut` | `Spec => []EndsWithLastPlayer` |
| `InitializedAreAcquainted` | `Spec => []Acquainted` |
| `OneWave` | `Spec => []MonstersComeOnce` |

What a job does depends on when it was queued, so the invariant is as much
about the jobs that wait as about the Room. `Histories`: a player that is to enter
was never there nor initialised, and only players leave. `Waves`: the timers
of the Hangar are set once, at the second step; until their first job has run,
only the monsters of the map are there or coming. `Known` is what `Acquainted` says
of the Room, apart from the jobs that wait. `Steps` bounds the steps by those
that clients asked for and the one ClearStage adds, so that `Wave[step]`
is defined. The lemmas count the jobs of a kind in the queue
(`Queued`), when one is appended and when one is taken.

### Monster, for any players and any modes

Assumptions: `NoTargetIsNone`, `ModesOfMaps`. `MaxNews` may be anything.

| theorem | says |
| --- | --- |
| `TheClientsKnow` | `Spec => []StoryIsTrue` |
| `NothingAfterDeath` | `Spec => []DeathIsLast` |

The methods of Monster call each other, so the lemmas are about the pair of
a Monster and its queued news (`Right`): `SetStateKeeps`, then SetTarget and
Update in terms of it. `RightAlive` is what a method keeps that does not kill.

### RecvBuffer, for any sizes

Assumptions: `BufferSizeIsNumber`, `BufferCountAtLeastThree` (the program
has ten), `HeaderFits`, `PacketSizesFit` (what a header
says is below BUFFER_SIZE, as 16 bits are; it may be less than a header, or 0).

| theorem | says |
| --- | --- |
| `AlwaysRoom` | a receive is always posted with a whole buffer free |
| `NoneWaits` | no complete packet is left behind |
| `MovesDoNotOverlap` | Clean's memcpy is given disjoint areas |
| `StreamOrder` | the unread bytes lie in the order of the stream |
| `ZeroIsNotPassed` | `Spec => [][size # 0]_vars`: after a header of size 0 nothing changes any more |

The inductive invariant `Cursors` is the type, the order of the cursors and the
first two properties; `StreamOrder` is inductive on top of it.

### Server, for any requests, rooms, threads, events, Sessions and monsters

Assumptions: the constants that stand for nothing are nothing (`NoRoomIsNone`,
`NoneAreNone`, `NoHostIsNone`, `CrowdsAreCrowds`), `MainIsNoThread`,
`MaxRoomsIsNumber`, `CountsAreNumbers`. No bound is used: `MaxClients`,
`MaxMonsters` and `MaxJobs` may be anything.

| theorem | says |
| --- | --- |
| `TrueList` | `Spec => []ListIsTrue` |
| `Listening` | `Spec => []KeepsListening` |
| `UpdateAlone` | `Spec => []FirstUpdateIsAlone` |
| `CrowdIsReady` | `Spec => []AgentsOfTheCrowd`, for any number of C_ENTER_GAMEs |

`StepsOfComponents` shows that a step of Server is a step of each component or
leaves it alone, so that the lemmas are about the components. `ListIsTrue` is
inductive once it is known that ids not yet given out are nowhere (`IdsInUse`).
`KeepsListening` counts places; the invariant `ListenerInv` says the same
without cardinalities and adds that the Sessions of all events differ, also of
those that a thread has in hand. `Early` is about the process before main
launches threads. `CrowdInv` has, as long as things are `Orderly`, the order in
which a game begins (`InOrder`: the crowd ready before EnterGame is queued,
entered before initialised, initialised before any spawn) and the exact agent of
each monster (`AgentsInTurn`), from which the number in use follows. That
`Orderly` only ever ends (`OrderlyBefore`) makes it inductive without an
assumption on the number of C_ENTER_GAMEs or on Init's success.

### Only model-checked

- Liveness: `EveryJobRuns`, `HeartbeatGoesOn`, `DistributingEnds`, `GetsLock`,
  `OnlyZeroHolds`, `SendsHappen`, `IsDestroyed`, `CalmsDown`. The prover has no fairness and no
  ENABLED.
- The two violations of section 5, which are counterexamples.

Every other property of a run is a theorem. Facts that need induction over data,
and modules with a RECURSIVE operator, would be out of the prover's reach too:
there are none here.

## 5. What was found

- **A failed WSASend can strand buffers** (run session_send_error). After a
  failure `RegisterSend` stores `_sendRegistered = false` without another look
  at `_sendQueue` (Session.cpp:201). A buffer that another thread has queued
  meanwhile, finding the flag set, waits for the next Send. After a reset the
  connection is gone anyway; after another error, which HandleError only
  prints, it is not.
- **A lost connection does not leave the Room** (run room_abandoned).
  Room.cpp:143 says that the server ends when all players have left. Only
  C_LEAVE_GAME makes one leave; `GameSession::OnDisconnected` does nothing about
  the player, so a Room that all clients have lost goes on for ever.

Behaviours that the models contain and that no statement of the repository
contradicts are in the hazards list, with the reason why no property covers
them: for instance that a DisconnectEx that fails leaves a Session neither
connected nor released (session's run keeps `DisconnectFails` at `{FALSE}`;
`IsDestroyed` fails otherwise), or that a second C_ENTER_GAME exchanges the
crowd under the monsters. Others are behaviours that a property names as its
exception, so that the run shows that there is no other: a packet header of
size 0 holds OnRecv for ever (`OnlyZeroHolds`), a packet larger than a chunk ends
the process (`OnlyTooLargeCrashes`), an Init that fails, or a second one, leaves
the Room a crowd that is not ready (`AgentsOfTheCrowd`).

## 6. What is not modelled

- What becomes of a process beside the one `Server` follows; `RoomManager::JoinRoom`,
  which nothing calls, and a CreateSession that fails (it returns nullptr, which
  RegisterAccept would dereference).
- **ClientService**, ConnectEx and its failure, **DummyClient**: not part of the
  server process.
- `JobQueue::ClearJobs`, `JobTimer::Clear`, `GameSessionManager::Broadcast`,
  `Room::RemoveObject`, `Room::HitCheck`: nothing calls them.
- Positions, distances, paths, damage, sight: left open in Monster and
  Navigation; the geometry (`Vector`, `Math`, `Utils`) and parsing (`JsonUtil`)
  have no state.
- **BufferReader**, **BufferWriter**, **NetAddress**, **SocketUtils**: wrappers
  without state of their own.
- **PacketGenerator**, `*.pb.*`, protobuf, Detour, json and cpprest:
  generated, or other projects' code.
- Memory ordering: all the atomics of the code are sequentially consistent, so
  interleavings are enough. `m_crowd` is a plain pointer; its values before
  and during Init are in the model as they are.
- What a second crowd means for the monsters after AddAgent: their `Update` uses
  `m_navQuery` and their index in whatever `m_crowd` is then. `Navigation` follows
  the exchange, and the deaths in `update`, `init` and `addAgent`, not these.
- A packet of 65532 bytes or more: MakeSendBuffer computes its size in 16 bits,
  which wrap, so that it asks for less than the packet needs. `SendBuffer` takes
  requests as they are made.
- What ServerPacketHandler makes of a packet shorter than its header.
- Allocation failures other than the crowd's, and the wrap-around of `_jobCount`, `LThreadID` and the
  ticks.

## 7. The plan

In the order of importance, with what is done marked:

1. [x] `JobQueue` with `SerialExecutor`: safety, refinement, liveness, proofs.
2. [x] `Worker`, composing it with JobTimer and the loop.
3. [x] `Session` with `SendChannel`.
4. [x] `RecvBuffer` with proofs; `SendBuffer`; `Lock`.
5. [x] `Room`, `Monster`, `Navigation` on top of SerialExecutor.
6. [x] `Listener`: the accept events, the recursion of RegisterAccept when
   AcceptEx fails, the order of main.
7. [x] `Lobby`: RoomManager under concurrent requests; `Server`, which composes
   the two with Navigation.
8. [x] Proofs of what the runs check: JobQueue implements SerialExecutor; Worker
   drives JobQueue, and its heartbeat; Lock, Session with SendChannel, SendBuffer,
   Room and Monster.
9. [ ] What connects the components: that the guards one component assumes of
   another (the Room's jobs one at a time, the Session's receive loop in one
   thread) follow from the other's theorems, stated where it can be in TLA+.
