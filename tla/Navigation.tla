------------------------------ MODULE Navigation ------------------------------
(***************************************************************************)
(* The NavigationSystem (src/Server/NavigationSystem.cpp) between the two  *)
(* who use it: the handler of C_ENTER_GAME initialises it on the thread    *)
(* that received the packet, while the jobs of the Room, one at a time but *)
(* on any thread, update its crowd and put the monsters into it.  No lock  *)
(* and no queue stands between them: what keeps them apart is that the     *)
(* handler queues EnterGame after Init, and that monsters come only after  *)
(* EnterGame.  Nothing hinders a client from sending C_ENTER_GAME or       *)
(* C_GAME_INIT at any time, and Init says to nobody that it failed.        *)
(***************************************************************************)
EXTENDS Integers, Sequences, FiniteSets

CONSTANTS
    Hosts,          \* the packets C_ENTER_GAME that come
    FirstMonsters,  \* the monsters that GameInit spawns
    MaxAgents,      \* maxAgents of InitializeCrowd
    MaxMonsters,    \* bound: the monsters that are spawned
    MaxJobs         \* bound: packets and timers come while fewer jobs wait

ASSUME CountsAreNumbers == FirstMonsters \in Nat /\ MaxAgents \in Nat

VARIABLES
    stage,          \* stage[h]: what the handler of h does next
    mesh,           \* m_navMesh is not null
    crowd,          \* m_crowd: a pointer
    crowds,         \* crowds[h]: how far the crowd that h's handler allocated is
    failed,         \* the handlers whose Init failed somewhere
    jobs,           \* the jobs queued for the Room
    inGame,         \* EnterGame ran: _mapName has a value
    initialized,    \* Room::_initialize
    monsters,       \* the monsters' agents, in the order of their spawn
    active,         \* active[h]: the agents of that crowd in use
    died            \* where the process died, or "no"

handlerVars == <<stage, mesh, crowd, crowds, failed>>
roomVars == <<jobs, inGame, initialized, monsters>>
navigationVars == <<handlerVars, roomVars, active, died>>

Null == "null"
Garbage == "garbage"
NoAgent == -1

ASSUME CrowdsAreCrowds == Null \notin Hosts /\ Garbage \notin Hosts

\* The constructor leaves m_crowd as the memory was.
NavigationInit ==
    /\ stage = [h \in Hosts |-> "received"]
    /\ mesh = FALSE /\ crowd \in {Null, Garbage}
    /\ crowds = [h \in Hosts |-> "raw"] /\ active = [h \in Hosts |-> 0]
    /\ failed = {} /\ died = "no"
    /\ jobs = <<>> /\ inGame = FALSE
    /\ initialized = FALSE /\ monsters = <<>>

(***************************************************************************)
(* Handle_C_ENTER_GAME: Init, step by step, then the job.                  *)
(***************************************************************************)
\* The order of the handler; the fault queues the job before the crowd is made.
JobFirst == [received |-> "queue", queue |-> "crowd", crowd |-> "init", init |-> "done"]
After == [received |-> "crowd", crowd |-> "init", init |-> "queue", queue |-> "done"]

Goes(h, from) == stage[h] = from /\ stage' = [stage EXCEPT ![h] = After[from]]
Noting(h, success) == failed' = IF success THEN failed ELSE failed \cup {h}

\* The mesh is read from its file, whose name the client chose, and given to the
\* query; there may be none, and Init goes on.
LoadMesh(h) ==
    /\ Goes(h, "received")
    /\ mesh' \in BOOLEAN /\ Noting(h, mesh')
    /\ UNCHANGED <<crowd, crowds, roomVars, active, died>>

\* InitializeCrowd assigns m_crowd, if need be null, before it initialises what it
\* points to.
AllocCrowd(h) ==
    /\ Goes(h, "crowd")
    /\ crowd' \in {h, Null} /\ Noting(h, crowd' = h)
    /\ UNCHANGED <<mesh, crowds, roomVars, active, died>>

\* It initialises what m_crowd points to now, with the mesh there is now, or no
\* mesh; that fails without memory, and Init does not ask.  Two threads may do it
\* to one crowd at a time, which may kill the process.
InitCrowd(h) ==
    /\ Goes(h, "init")
    /\ \/ /\ crowd = Null
          /\ UNCHANGED <<crowds, active, failed, died>>
       \/ /\ crowd # Null
          /\ \E outcome \in {"raw", IF mesh THEN "ready" ELSE "empty"} :
                /\ crowds' = [crowds EXCEPT ![crowd] = outcome]
                /\ Noting(h, outcome = "ready")
          /\ active' = [active EXCEPT ![crowd] = 0]
          /\ died' \in IF \E g \in Hosts \ {h} : stage[g] = "init" THEN {"no", "InitCrowd"} ELSE {"no"}
    /\ UNCHANGED <<mesh, crowd, roomVars>>

QueueEnterGame(h) ==
    /\ Goes(h, "queue")
    /\ jobs' = Append(jobs, "EnterGame")
    /\ UNCHANGED <<mesh, crowd, crowds, failed, inGame, initialized, monsters, active, died>>

Handler(h) == LoadMesh(h) \/ AllocCrowd(h) \/ InitCrowd(h) \/ QueueEnterGame(h)

\* A client sends C_GAME_INIT; the timers of the Room queue UpdateRoom and, in the
\* Hangar, which is a map that was entered, SpawnMonster.
Queue(job) ==
    /\ Len(jobs) < MaxJobs
    /\ job = "UpdateRoom" => \A i \in DOMAIN jobs : jobs[i] # job
    /\ job = "SpawnMonster" => inGame /\ Len(monsters) < MaxMonsters
    /\ jobs' = Append(jobs, job)
    /\ UNCHANGED <<handlerVars, inGame, initialized, monsters, active, died>>

(***************************************************************************)
(* The jobs of the Room.                                                   *)
(***************************************************************************)
Runs(job) == jobs # <<>> /\ Head(jobs) = job /\ jobs' = Tail(jobs)

\* m_crowd points to a crowd that is initialised, and no thread is about it.
Usable == crowd \in Hosts /\ crowds[crowd] # "raw" /\ \A h \in Hosts : stage[h] # "init"

\* Update leaves a crowd alone that is null; in one that is not usable it meets
\* null pointers, or none yet.
Update ==
    /\ died' \in IF crowd = Null \/ Usable THEN {"no"} ELSE {"no", "Update"}
    /\ UNCHANGED <<handlerVars, inGame, initialized, monsters, active>>

UpdateRoom == Runs("UpdateRoom") /\ Update

\* main runs UpdateRoom itself before the threads are launched.
MainUpdate == Update /\ UNCHANGED jobs

EnterGame ==
    /\ Runs("EnterGame")
    /\ inGame' = TRUE
    /\ UNCHANGED <<handlerVars, initialized, monsters, active, died>>

\* AddAgent n times: the crowd gives its free agents in their order, then none.
\* Without a mesh it dereferences null; so it does in a crowd that is not usable,
\* if that has agents already.
Serves == Usable /\ crowds[crowd] = "ready"
NewMonsters(n, Agent(_)) == monsters' = monsters \o [i \in 1..n |-> [crowd |-> crowd, agent |-> Agent(i)]]
FreeAgent(i) == IF active[crowd] + i <= MaxAgents THEN active[crowd] + i - 1 ELSE NoAgent
AllNone(i) == NoAgent

Spawn(n) ==
    \/ /\ Serves \/ n = 0
       /\ NewMonsters(n, FreeAgent)
       /\ active' = [h \in Hosts |-> IF h # crowd THEN active[h]
                                     ELSE IF active[h] + n <= MaxAgents THEN active[h] + n ELSE MaxAgents]
       /\ UNCHANGED died
    \/ /\ ~Usable /\ n > 0
       /\ NewMonsters(n, AllNone)
       /\ UNCHANGED <<active, died>>
    \/ /\ ~Serves /\ crowd # Null /\ n > 0
       /\ died' = "AddAgent"
       /\ UNCHANGED <<monsters, active>>

\* GameInit dies of an exception when the map has no file: always before EnterGame.
GameInit ==
    /\ Runs("GameInit")
    /\ \/ initialized /\ UNCHANGED <<initialized, monsters, active, died>>
       \/ ~initialized /\ died' = "GameInit" /\ UNCHANGED <<initialized, monsters, active>>
       \/ ~initialized /\ inGame /\ initialized' = TRUE /\ Spawn(FirstMonsters)
    /\ UNCHANGED <<handlerVars, inGame>>

SpawnMonster ==
    /\ Runs("SpawnMonster") /\ Spawn(1)
    /\ UNCHANGED <<handlerVars, inGame, initialized>>

RunJob == UpdateRoom \/ EnterGame \/ GameInit \/ SpawnMonster

NavigationNext ==
    /\ died = "no"
    /\ \/ \E h \in Hosts : Handler(h)
       \/ \E job \in {"UpdateRoom", "GameInit", "SpawnMonster"} : Queue(job)
       \/ RunJob \/ MainUpdate

NavigationSpec == NavigationInit /\ [][NavigationNext]_navigationVars

-----------------------------------------------------------------------------

\* The variables have their types.
NavigationTypeOK ==
    /\ stage \in [Hosts -> DOMAIN After \cup {"done"}]
    /\ mesh \in BOOLEAN /\ crowd \in Hosts \cup {Null, Garbage}
    /\ crowds \in [Hosts -> {"raw", "empty", "ready"}] /\ active \in [Hosts -> 0..MaxAgents]
    /\ failed \subseteq Hosts /\ died \in {"no", "InitCrowd", "Update", "GameInit", "AddAgent"}
    /\ jobs \in Seq({"UpdateRoom", "EnterGame", "GameInit", "SpawnMonster"})
    /\ inGame \in BOOLEAN /\ initialized \in BOOLEAN
    /\ monsters \in Seq([crowd : Hosts \cup {Null, Garbage}, agent : NoAgent..MaxAgents - 1])

\* One C_ENTER_GAME came, or none, and its Init has not failed.
Orderly ==
    /\ failed = {}
    /\ \A g, h \in Hosts : stage[g] # "received" /\ stage[h] # "received" => g = h

\* As long as one C_ENTER_GAME came, and its Init did not fail, then from EnterGame
\* on whoever uses m_crowd finds one that is initialised: nobody dies of it any
\* more, every monster's agent is one of that crowd, no two monsters share one, and
\* a monster goes without only when all are taken.  Clients may send C_GAME_INIT
\* at any time.  Of a second C_ENTER_GAME, which exchanges the crowd, and of an
\* Init that failed, nothing is promised.
AgentsOfTheCrowd ==
    /\ NavigationTypeOK
    /\ Orderly =>
          /\ inGame => Serves /\ died \in {"no", "GameInit"}
          /\ died \in {"no", "GameInit", "Update"}
          /\ \A i \in DOMAIN monsters : monsters[i].crowd = crowd
          /\ \A i, k \in DOMAIN monsters :
                monsters[i].agent = monsters[k].agent => i = k \/ monsters[i].agent = NoAgent
          /\ (\E i \in DOMAIN monsters : monsters[i].agent = NoAgent) => active[crowd] = MaxAgents
=============================================================================
