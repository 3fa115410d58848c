--------------------------------- MODULE Room ---------------------------------
(***************************************************************************)
(* The one Room (src/Server/Room.cpp) and the packet handlers that lead to *)
(* it (ServerPacketHandler.cpp): who is in it, what it spawns, and what    *)
(* the clients have been told.                                             *)
(*                                                                         *)
(* The Room is a JobQueue: packet handlers, on any thread, only queue a    *)
(* job, and jobs run one at a time in their order (SerialExecutor).  So a  *)
(* job is one step here, and what interleaves are the handlers, the jobs   *)
(* they queue, the timers and the loss of connections.  What a monster     *)
(* does when it is updated or hit is the subject of Monster: here it is    *)
(* the news about it that the Room then broadcasts.  A client sends any    *)
(* packet at any time, with any object id in it: an id is chosen where the *)
(* Room looks at it, and left out where it is only passed on.              *)
(***************************************************************************)
EXTENDS Integers, Sequences, FiniteSets, FiniteSetsExt, SequencesExt

CONSTANTS
    Sessions, NoSession,
    Players, NoPlayer,  \* object ids that CreatePlayer may give, and nullptr
    Monsters,           \* object ids that CreateMonster may give
    Maps,               \* the names for which there are files; "Hangar" has steps
    FirstMonsters,      \* the number of monsters of step 0 in the map's file
    Wave,               \* Wave[n]: the number of monsters of step n
    MaxJobs,            \* bound: packets and timers come while fewer jobs wait
    MaxNews,            \* bound: the news of its monsters that one UpdateRoom queues
    MaxStep             \* bound: the interactions that ask for a next step

ASSUME NoSessionIsNone == NoSession \notin Sessions
ASSUME NoPlayerIsNone == NoPlayer \notin Players
ASSUME IdsAreUnique == Players \cap Monsters = {}
\* Ids are 64 bits.
ASSUME MonstersAreFinite == IsFiniteSet(Monsters)
ASSUME WavesAreCounted == FirstMonsters \in Nat /\ MaxStep \in Nat /\ Wave \in [1..MaxStep + 1 -> Nat]

ASSUME NewsAreCounted == MaxNews \in Nat

VARIABLES
    online,             \* the Sessions that are connected
    playerOf,           \* playerOf[s]: GameSession::player
    sessionOf,          \* sessionOf[p]: Player::_session
    objects,            \* the keys of _objects
    playerCount,        \* _playerCount
    mapName,            \* _mapName, or "none" if there are no files of that name
    initialized,        \* _initialize
    step,               \* _step
    jobs,               \* the jobs queued for the Room
    timers,             \* the timers that are set, but for those of spawns
    spawns,             \* the number of timers set to spawn one monster
    exited,             \* quick_exit was called
    crashed,            \* the process died of an exception or an access violation
    inited,             \* the players whose client was sent S_GAME_INIT
    knows,              \* knows[p]: the objects p's client was told of in S_GAME_INIT and S_SPAWN
    announced           \* the last step_id that was broadcast

clientVars == <<inited, knows>>
endVars == <<exited, crashed>>
stepVars == <<step, timers, spawns, announced>>
memberVars == <<playerOf, sessionOf, objects, playerCount>>
vars == <<online, memberVars, mapName, initialized, stepVars, jobs, endVars, clientVars>>

Job(what, who) == [job |-> what, who |-> who, target |-> NoPlayer]

\* A job that tells the clients the state and the target of a monster.
Report(monster, target) == [job |-> "HandleMonsterState", who |-> monster, target |-> target]

Init == /\ online = Sessions
        /\ playerOf = [s \in Sessions |-> NoPlayer]
        /\ sessionOf = [p \in Players |-> NoSession]
        /\ objects = {} /\ playerCount = 0
        /\ mapName = "none" /\ initialized = FALSE
        /\ step = 0 /\ timers = {"update"} /\ spawns = 0 /\ announced = 0
        /\ jobs = <<>> /\ exited = FALSE /\ crashed = FALSE
        /\ inited = {}
        /\ knows = [p \in Players |-> {}]

(***************************************************************************)
(* The packet handlers, on the thread that received the packet.            *)
(***************************************************************************)
DoAsync(job) == jobs' = Append(jobs, job)

\* A packet whose id has a handler, and that parses, comes from s.
Received(s) == s \in online /\ Len(jobs) < MaxJobs

\* GetPlayers
InRoom == objects \cap Players

\* CreatePlayer: a new id; the Session's last player, if any, is replaced.
CreatePlayer(p, s) ==
    /\ sessionOf[p] = NoSession
    /\ sessionOf' = [sessionOf EXCEPT ![p] = s]
    /\ playerOf' = [playerOf EXCEPT ![s] = p]

Handle_C_ENTER_ROOM(s) ==
    /\ Received(s)
    /\ \E p \in Players : CreatePlayer(p, s) /\ DoAsync(Job("EnterRoom", p))
    /\ UNCHANGED <<online, objects, playerCount, mapName, initialized, stepVars, endVars, clientVars>>

\* C_LEAVE_GAME names the player the Session has now.
Handle_C_LEAVE_GAME(s) ==
    /\ Received(s) /\ playerOf[s] # NoPlayer
    /\ DoAsync(Job("HandleLeavePlayer", playerOf[s]))
    /\ UNCHANGED <<online, memberVars, mapName, initialized, stepVars, endVars, clientVars>>

\* The other handlers queue their packet, whoever sends it and whenever.
\* HandleAttack stands for HandleAnimationState and HandleChangeWeapon too.
Queued(what) == Cardinality({i \in DOMAIN jobs : jobs[i].job = what})
HandlePacket(s) ==
    /\ Received(s)
    /\ \E what \in {"EnterGame", "GameInit", "HandleMove", "HandleAttack", "HandleHit", "HandleInteract"} :
          /\ what = "HandleInteract" => step + Queued(what) < MaxStep
          /\ DoAsync(Job(what, NoPlayer))
    /\ UNCHANGED <<online, memberVars, mapName, initialized, stepVars, endVars, clientVars>>

\* The connection ends: OnDisconnected does not tell the Room, whose Sends to
\* the Session are from now on without effect.
Disconnect(s) ==
    /\ online' = online \ {s}
    /\ s \in online
    /\ UNCHANGED <<memberVars, mapName, initialized, stepVars, jobs, endVars, clientVars>>

(***************************************************************************)
(* The jobs of the Room.                                                   *)
(***************************************************************************)
IsNext(what) == jobs # <<>> /\ Head(jobs).job = what
Who == Head(jobs).who
Done == jobs' = Tail(jobs)

\* Broadcast: the players in the Room whose Session is still connected.
Broadcast(present) == {p \in present \cap Players : sessionOf[p] \in online}

\* AddObject: nothing if the id is known; else _playerCount counts a player.
AddObject(o) ==
    /\ objects' = objects \cup {o}
    /\ playerCount' = playerCount + Cardinality(({o} \cap Players) \ objects)

\* EnterRoom: AddObject, and S_ENTER_ROOM.
EnterRoom ==
    /\ IsNext("EnterRoom") /\ Done
    /\ AddObject(Who)
    /\ UNCHANGED <<online, playerOf, sessionOf, mapName, initialized, stepVars, endVars, clientVars>>

\* EnterGame: the map, whose name the client chose, and S_ENTER_GAME to everybody
\* in the Room.
EnterGame ==
    /\ IsNext("EnterGame") /\ Done
    /\ mapName' \in Maps \cup {"none"}
    /\ UNCHANGED <<online, memberVars, initialized, stepVars, endVars, clientVars>>

\* Who is told of the monsters that SpawnMonster adds; the fault forgets to.
ToldNobody(present) == {}
ToldAll(present) == Broadcast(present)

\* SpawnMonster: new objects, and one S_SPAWN.
Spawned(monsters, told) ==
    /\ objects' = objects \cup monsters
    /\ knows' = [p \in Players |-> knows[p] \cup IF p \in told THEN monsters ELSE {}]

Fresh(n) == kSubset(n, Monsters \ objects)

\* The test of _initialize; the fault does not make it.
EveryTime == TRUE
FirstTime == ~initialized

\* GameInit: S_GAME_INIT with its own player to each Session in the Room,
\* S_SPAWN of every object there to the others, and the monsters of the map.
\* ParsePlayerJson throws, and nothing catches it, when there is no such map:
\* before any EnterGame, or when the client named another.
GameInit ==
    /\ IsNext("GameInit") /\ Done
    /\ \/ /\ FirstTime /\ mapName # "none"
          /\ initialized' = TRUE /\ UNCHANGED crashed
          /\ inited' = inited \cup Broadcast(objects)
          /\ \E monsters \in Fresh(FirstMonsters) :
                /\ objects' = objects \cup monsters
                /\ knows' = [p \in Players |->
                      knows[p] \cup (IF p \in Broadcast(objects) THEN objects ELSE {})
                               \cup (IF p \in ToldAll(objects) THEN monsters ELSE {})]
       \/ /\ FirstTime /\ mapName = "none"
          /\ crashed' = TRUE /\ UNCHANGED <<objects, initialized, inited, knows>>
       \/ /\ ~FirstTime
          /\ UNCHANGED <<objects, initialized, inited, knows, crashed>>
    /\ UNCHANGED <<online, playerOf, sessionOf, playerCount, mapName, stepVars, exited>>

\* HandleLeavePlayer: only a player who is there leaves; two faults, one that
\* does not look, and one that ends the game too late.
AnyPlayer(p) == TRUE
IsPresent(p) == p \in objects
BelowZero(count) == count < 0
NobodyLeft(count) == 0 >= count

HandleLeavePlayer ==
    /\ IsNext("HandleLeavePlayer") /\ Done
    /\ \/ /\ IsPresent(Who)
          /\ objects' = objects \ {Who}
          /\ playerCount' = playerCount - 1
          /\ exited' = NobodyLeft(playerCount')
       \/ /\ ~IsPresent(Who)
          /\ UNCHANGED <<objects, playerCount, exited>>
    /\ UNCHANGED <<online, playerOf, sessionOf, mapName, initialized, stepVars, crashed, clientVars>>

\* HandleServerMove, HandleMonsterState and HandleServerAttack broadcast what a
\* monster did, HandleAttack what a client says that somebody did.
Relay ==
    /\ \E what \in {"HandleServerMove", "HandleMonsterState", "HandleAttack"} : IsNext(what)
    /\ Done
    /\ UNCHANGED <<online, memberVars, mapName, initialized, stepVars, endVars, clientVars>>

\* HandleMove broadcasts where the object of that id is, if there is one, and takes
\* it for a player: the cast of a monster is null, and is dereferenced.
HandleMove ==
    /\ IsNext("HandleMove") /\ Done
    /\ \E id \in Players \cup Monsters \cup {NoPlayer} :
          \/ id \in objects \cap Monsters /\ crashed' = TRUE
          \/ id \notin objects \cap Monsters /\ UNCHANGED crashed
    /\ UNCHANGED <<online, memberVars, mapName, initialized, stepVars, exited, clientVars>>

\* Whom a monster may fight: a player who is in the Room, or whose Session still
\* holds it.
Targets == {NoPlayer} \cup
    {p \in Players : p \in objects \/ \E s \in Sessions : playerOf[s] = p}

\* HandleHit: TakeDamage of the object of that id, if there is one, and S_HIT.  A
\* monster may change its state, and has that told.
HandleHit ==
    /\ IsNext("HandleHit")
    /\ \/ Done
       \/ \E monster \in objects \cap Monsters, target \in Targets :
             jobs' = Tail(jobs) \o <<Report(monster, target)>>
    /\ UNCHANGED <<online, memberVars, mapName, initialized, stepVars, endVars, clientVars>>

\* The step at which the monsters of the Hangar come.
IsWaveStep(n) == n = 2

NextStep == step' = step + 1 /\ announced' = step'

\* HangarInteract: the next step; at the second, two timers.
HangarInteract ==
    /\ NextStep
    /\ timers' = timers \cup IF IsWaveStep(step') THEN {"wave", "clear"} ELSE {}

HandleInteract ==
    /\ IsNext("HandleInteract") /\ Done
    /\ \/ mapName = "Hangar" /\ HangarInteract
       \/ mapName # "Hangar" /\ UNCHANGED <<step, announced, timers>>
    /\ UNCHANGED <<online, memberVars, mapName, initialized, spawns, endVars, clientVars>>

\* UpdateRoom: every monster's Update, and the timer is set again.  A monster that
\* is alive says where it is (SendMovePacket), and may change its state or attack.
MonsterNews ==
    {Job("HandleServerMove", m) : m \in objects \cap Monsters} \cup
    {Report(m, target) : m \in objects \cap Monsters, target \in Targets}

UpdateRoom ==
    /\ IsNext("UpdateRoom")
    /\ \E news \in SeqOf(MonsterNews, MaxNews) : jobs' = Tail(jobs) \o news
    /\ timers' = timers \cup {"update"}
    /\ UNCHANGED <<online, memberVars, mapName, initialized, step, spawns, announced, endVars, clientVars>>

\* The first timer of the Hangar: the monsters of the step it is now, each in a
\* timer of its own.
StartWave ==
    /\ IsNext("StartWave") /\ Done
    /\ spawns' = spawns + Wave[step]
    /\ UNCHANGED <<online, memberVars, mapName, initialized, step, timers, announced, endVars, clientVars>>

SpawnMonster ==
    /\ IsNext("SpawnMonster") /\ Done
    /\ \E monsters \in Fresh(1) : Spawned(monsters, ToldAll(objects))
    /\ UNCHANGED <<online, playerOf, sessionOf, playerCount, mapName, initialized, stepVars, endVars,
                   inited>>

\* The second timer of the Hangar: the next step, whatever the step is now.
ClearStage ==
    /\ IsNext("ClearStage") /\ Done
    /\ NextStep
    /\ UNCHANGED <<online, memberVars, mapName, initialized, timers, spawns, endVars, clientVars>>

RunJob == \/ EnterRoom \/ EnterGame \/ GameInit \/ HandleLeavePlayer
          \/ Relay \/ HandleMove \/ HandleHit \/ HandleInteract
          \/ UpdateRoom \/ StartWave \/ SpawnMonster \/ ClearStage

(***************************************************************************)
(* The timers queue their jobs when they are due, in their order.          *)
(***************************************************************************)
JobOf == [update |-> "UpdateRoom", wave |-> "StartWave", clear |-> "ClearStage"]

Fire(timer) ==
    /\ timer \in timers /\ Len(jobs) < MaxJobs
    /\ timer = "clear" => "wave" \notin timers
    /\ timers' = timers \ {timer}
    /\ DoAsync(Job(JobOf[timer], NoPlayer))
    /\ UNCHANGED <<online, memberVars, mapName, initialized, step, spawns, announced, endVars, clientVars>>

FireSpawn ==
    /\ spawns > 0 /\ Len(jobs) < MaxJobs
    /\ spawns' = spawns - 1
    /\ DoAsync(Job("SpawnMonster", NoPlayer))
    /\ UNCHANGED <<online, memberVars, mapName, initialized, step, timers, announced, endVars, clientVars>>

\* The process runs on.
Running == ~exited /\ ~crashed

Next == /\ Running
        /\ \/ \E s \in Sessions : \/ Handle_C_ENTER_ROOM(s) \/ Handle_C_LEAVE_GAME(s)
                                  \/ HandlePacket(s) \/ Disconnect(s)
           \/ RunJob
           \/ \E timer \in DOMAIN JobOf : Fire(timer)
           \/ FireSpawn

Spec == Init /\ [][Next]_vars

\* The Room's jobs run (EveryJobRuns of JobQueue), and timers fire.
Fairness == /\ WF_vars(Running /\ RunJob)
            /\ WF_vars(Running /\ Fire("update"))

LiveSpec == Spec /\ Fairness

-----------------------------------------------------------------------------

\* The variables have their types.
TypeOK ==
    /\ online \subseteq Sessions
    /\ playerOf \in [Sessions -> Players \cup {NoPlayer}]
    /\ sessionOf \in [Players -> Sessions \cup {NoSession}]
    /\ objects \subseteq Players \cup Monsters
    /\ playerCount \in Int
    /\ mapName \in Maps \cup {"none"} /\ initialized \in BOOLEAN /\ exited \in BOOLEAN /\ crashed \in BOOLEAN
    /\ step \in Nat /\ announced \in Nat /\ spawns \in Nat
    /\ timers \subseteq DOMAIN JobOf
    /\ inited \subseteq Players
    /\ knows \in [Players -> SUBSET (Players \cup Monsters)]
    /\ \A i \in DOMAIN jobs : /\ jobs[i].who \in Players \cup Monsters \cup {NoPlayer}
                              /\ jobs[i].target \in Players \cup {NoPlayer}

\* Who was let in at some time: their EnterRoom is not waiting any more.
Entered == {p \in Players : /\ sessionOf[p] # NoSession
                            /\ \A i \in DOMAIN jobs : jobs[i] # Job("EnterRoom", p)}

\* _playerCount counts the players in _objects, however often a client asks to
\* enter or to leave; and an EnterRoom that waits brings somebody new, who is
\* not in another.
PlayersCounted == playerCount = Cardinality(InRoom)
NewcomersAreNew ==
    \A i \in DOMAIN jobs : jobs[i].job = "EnterRoom" =>
        /\ jobs[i].who \in Players \ objects
        /\ sessionOf[jobs[i].who] # NoSession
        /\ \A k \in DOMAIN jobs : jobs[k] = jobs[i] => k = i
Membership == TypeOK /\ PlayersCounted /\ NewcomersAreNew

\* The process exits when the last player leaves, and not before.
EndsWithLastPlayer == exited <=> Entered # {} /\ InRoom = {}

\* The clients that were initialized, whose player is in the Room, know every
\* monster there and each other.  So they have seen the monster that the Room says
\* moved, attacked or changed its state; and its target, unless that came to the
\* Room after GameInit: such a player is shown to nobody.  Nothing is said of the
\* ids that clients send, which are passed on as they are.
OfMonsters == {i \in DOMAIN jobs : jobs[i].job \in {"HandleServerMove", "HandleMonsterState"}}
Acquainted ==
    \A p \in inited \cap Broadcast(objects) :
        /\ (objects \cap Monsters) \cup inited \subseteq knows[p]
        /\ \A i \in OfMonsters :
              /\ jobs[i].who \in knows[p]
              /\ jobs[i].target \in knows[p] \cup {NoPlayer} \cup (Players \ inited)

\* The monsters of the map come once, whoever and how many ask, and those of
\* one later step at most.
MonstersComeOnce ==
    LET coming == spawns + Queued("SpawnMonster")
    IN \E later \in {0} \cup {Wave[n] : n \in 1..step} :
          Cardinality(objects \cap Monsters) + coming <= FirstMonsters + later

\* A Room whose players have all gone ends the process ("when all players have
\* left, exit").  It does not hold: a lost connection does not leave the Room.
AbandonedRoomEnds == (Entered # {} /\ online = {}) ~> ~Running
=============================================================================
