------------------------------ MODULE ServerProofs ------------------------------
(***************************************************************************)
(* Theorems about Server: what holds of the lobby's list, of the accept    *)
(* events, of main's own UpdateRoom and of the crowd, for any numbers of   *)
(* requests, rooms, threads, events, Sessions and monsters.                *)
(***************************************************************************)
EXTENDS Server, FiniteSetTheorems, SequenceTheorems, TLAPS

(***************************************************************************)
(* The lobby.                                                              *)
(***************************************************************************)
\* What is not yet given out is nowhere.
IdsInUse ==
    /\ \A id \in rooms \cup started : id < nextRoomId
    /\ \A id \in Ids : server[id] # "none" => id < nextRoomId
    /\ \A r \in Requests : creating[r] # NoRoom => creating[r] < nextRoomId

LobbyInv == ListIsTrue /\ IdsInUse

\* The lobby begins with LobbyInv.
LEMMA LobbyBegins == LobbyInit => LobbyInv
BY MaxRoomsIsNumber, NoRoomIsNone DEF LobbyInit, LobbyInv, ListIsTrue, LobbyTypeOK, IdsInUse, Ids

\* Every request keeps it: a new id is beyond those in use.
LEMMA LobbyStepKeeps == LobbyInv /\ [LobbyNext]_lobbyVars => LobbyInv'
<1> SUFFICES ASSUME LobbyInv, [LobbyNext]_lobbyVars
             PROVE  LobbyInv'
  OBVIOUS
<1> USE MaxRoomsIsNumber, NoRoomIsNone DEF LobbyInv, ListIsTrue, LobbyTypeOK, IdsInUse, Ids
<1>1. ASSUME NEW r \in Requests, CreateRoom(r)
      PROVE  LobbyInv'
  <2>1. nextRoomId \in Ids
    BY <1>1 DEF CreateRoom
  <2>2. LobbyTypeOK'
    BY <1>1, <2>1 DEF CreateRoom
  <2>3. IdsInUse'
    BY <1>1, <2>1 DEF CreateRoom
  <2>4. (rooms \cap started)' = {}
    BY <1>1, <2>1 DEF CreateRoom
  <2>5. ASSUME NEW id \in rooms'
        PROVE  (server[id] # "none" \/ \E q \in Requests : creating[q] = id)'
    BY <1>1, <2>1 DEF CreateRoom
  <2>6. ASSUME NEW q \in Requests, NEW s \in Requests, creating'[q] # NoRoom
        PROVE  (server[creating[q]] = "none" /\ (creating[q] = creating[s] => q = s))'
    BY <1>1, <2>1, <2>6 DEF CreateRoom
  <2>. QED
    BY <2>2, <2>3, <2>4, <2>5, <2>6
<1>2. ASSUME NEW r \in Requests, StartProcess(r)
      PROVE  LobbyInv'
  <2>1. creating[r] \in Ids
    BY <1>2 DEF StartProcess
  <2>2. PICK outcome \in Launched(creating[r]) : server' = [server EXCEPT ![creating[r]] = outcome]
    BY <1>2 DEF StartProcess
  <2>3. /\ outcome \in {"none", "launched", "failed"}
        /\ creating[r] \in rooms => outcome # "none"
    BY DEF Launched, IsListed
  <2>4. LobbyTypeOK' /\ IdsInUse' /\ (rooms \cap started)' = {}
    BY <1>2, <2>1, <2>2, <2>3 DEF StartProcess
  <2>5. ASSUME NEW id \in rooms'
        PROVE  (server[id] # "none" \/ \E q \in Requests : creating[q] = id)'
    BY <1>2, <2>1, <2>2, <2>3 DEF StartProcess
  <2>6. ASSUME NEW q \in Requests, NEW s \in Requests, creating'[q] # NoRoom
        PROVE  (server[creating[q]] = "none" /\ (creating[q] = creating[s] => q = s))'
    BY <1>2, <2>1, <2>2, <2>6 DEF StartProcess
  <2>. QED
    BY <2>4, <2>5, <2>6
<1>3. ASSUME NEW id \in Ids, StartRoom(id)
      PROVE  LobbyInv'
  BY <1>3 DEF StartRoom
<1>4. CASE UNCHANGED lobbyVars
  BY <1>4 DEF lobbyVars
<1>. QED
  BY <1>1, <1>2, <1>3, <1>4 DEF LobbyNext

(***************************************************************************)
(* The Listener.                                                           *)
(***************************************************************************)
\* Who holds an event, and that nobody else does.
Held ==
    /\ \A t \in Workers : eventOf[t] # NoEvent <=> pc[t] \in {"first", "process", "register"}
    /\ \A t \in Threads : pc[t] \in {"absent", "idle", "process", "register"}
    /\ pc[Main] # "absent"
    /\ \A t, u \in Workers : eventOf[t] = eventOf[u] /\ eventOf[t] # NoEvent => t = u
    /\ \A t \in Workers : eventOf[t] \notin pending \cup completed
    /\ pending \cap completed = {}

\* Which events are in use.
Used ==
    /\ \A e \in pending \cup completed : sessionOf[e] # NoSession
    /\ \A t \in Workers : pc[t] \in {"process", "register"} => sessionOf[eventOf[t]] # NoSession
    /\ \A e \in AcceptEvents : sessionOf[e] # NoSession =>
          e \in pending \cup completed \/ \E t \in Workers : eventOf[t] = e

\* The Sessions of the events are different, and new until they are connected.
Unshared ==
    /\ \A e, f \in AcceptEvents : sessionOf[e] = sessionOf[f] /\ sessionOf[e] # NoSession => e = f
    /\ \A e \in pending \cup completed : sessionOf[e] \notin sessions
    /\ \A t \in Workers : pc[t] = "process" => sessionOf[eventOf[t]] \notin sessions

ListenerInv == ListenerTypeOK /\ Held /\ Used /\ Unshared

\* ListenerInv says what KeepsListening says with cardinalities.
LEMMA ListenerInvSuffices == ListenerInv => KeepsListening
<1> SUFFICES ASSUME ListenerInv
             PROVE  KeepsListening
  OBVIOUS
<1> USE DEF ListenerInv, ListenerTypeOK, Held
<1>1. ASSUME NEW e \in AcceptEvents
      PROVE  Places(e) <= 1 /\ (sessionOf[e] # NoSession => Places(e) = 1)
  <2>1. ASSUME NEW S
        PROVE  Cardinality({e} \cap S) = IF e \in S THEN 1 ELSE 0
    <3>1. CASE e \in S
      <4>1. {e} \cap S = {e}
        BY <3>1
      <4>. QED
        BY <3>1, <4>1, FS_Singleton
    <3>2. CASE e \notin S
      <4>1. {e} \cap S = {}
        BY <3>2
      <4>. QED
        BY <3>2, <4>1, FS_EmptySet
    <3>. QED
      BY <3>1, <3>2
  <2>2. Cardinality(Handling(e)) = IF \E t \in Workers : eventOf[t] = e THEN 1 ELSE 0
    <3>1. CASE \E t \in Workers : eventOf[t] = e
      <4>1. PICK t \in Workers : eventOf[t] = e
        BY <3>1
      <4>2. Handling(e) = {t}
        BY <4>1, NoneAreNone DEF Handling
      <4>. QED
        BY <3>1, <4>2, FS_Singleton
    <3>2. CASE ~\E t \in Workers : eventOf[t] = e
      <4>1. Handling(e) = {}
        BY <3>2 DEF Handling
      <4>. QED
        BY <3>2, <4>1, FS_EmptySet
    <3>. QED
      BY <3>1, <3>2
  <2>3. Cardinality({e} \cap pending) = IF e \in pending THEN 1 ELSE 0
    BY <2>1
  <2>4. Cardinality({e} \cap completed) = IF e \in completed THEN 1 ELSE 0
    BY <2>1
  <2>. QED
    BY <2>2, <2>3, <2>4 DEF Places, Used
<1>2. ASSUME NEW e \in AcceptEvents, NEW t \in Workers,
             e \in pending \cup completed \/ (eventOf[t] = e /\ pc[t] = "process")
      PROVE  /\ sessionOf[e] \in Sessions \ sessions
             /\ \A f \in AcceptEvents \ {e} : sessionOf[f] # sessionOf[e]
  BY <1>2, NoneAreNone DEF Used, Unshared
<1>. QED
  BY <1>1, <1>2 DEF KeepsListening

\* The Listener begins with ListenerInv.
LEMMA ListenerBegins == ListenerInit => ListenerInv
BY MainIsNoThread, NoneAreNone
   DEF ListenerInit, ListenerInv, ListenerTypeOK, Held, Used, Unshared, Workers

\* Every step keeps it.
LEMMA ListenerStepKeeps == ListenerInv /\ [ListenerNext]_listenerVars => ListenerInv'
<1> SUFFICES ASSUME ListenerInv, [ListenerNext]_listenerVars
             PROVE  ListenerInv'
  OBVIOUS
<1> USE MainIsNoThread, NoneAreNone
    DEF ListenerInv, ListenerTypeOK, Held, Used, Unshared, Workers, Moves, MainGoesOn
<1>1. ASSUME OpenSocket
      PROVE  ListenerInv'
  BY <1>1 DEF OpenSocket
<1>2. ASSUME NEW e \in AcceptEvents, StartAccept(e)
      PROVE  ListenerInv'
  BY <1>2 DEF StartAccept
<1>3. ASSUME StartReturns \/ FirstUpdate
      PROVE  ListenerInv'
  BY <1>3 DEF StartReturns, FirstUpdate
<1>4. ASSUME NEW t \in Threads, Launch(t)
      PROVE  ListenerInv'
  BY <1>4 DEF Launch
<1>5. ASSUME BeginWork
      PROVE  ListenerInv'
  BY <1>5 DEF BeginWork
<1>6. ASSUME NEW e \in AcceptEvents, Complete(e)
      PROVE  ListenerInv'
  BY <1>6 DEF Complete
<1>7. ASSUME NEW t \in Workers, NEW e \in AcceptEvents, Dispatch(t, e)
      PROVE  ListenerInv'
  BY <1>7 DEF Dispatch
<1>8. ASSUME NEW t \in Workers, ProcessAcceptFailed(t)
      PROVE  ListenerInv'
  BY <1>8 DEF ProcessAcceptFailed
<1>9. ASSUME NEW t \in Workers, ProcessAccept(t)
      PROVE  ListenerInv'
  BY <1>9 DEF ProcessAccept
<1>10. ASSUME NEW t \in Workers, RegisterAccept(t)
       PROVE  ListenerInv'
  <2> DEFINE e == eventOf[t]
  <2>1. /\ pc[t] \in {"first", "register"} /\ e \in AcceptEvents
        /\ pc[t] = "first" => t = Main /\ Caller[pc[t]] = "accept"
        /\ pc[t] = "register" => Caller[pc[t]] = "idle"
    BY <1>10 DEF RegisterAccept, Caller
  <2>2. PICK s \in Sessions \ sessions : /\ sessionOf' = [sessionOf EXCEPT ![e] = s]
                                         /\ \A f \in AcceptEvents : sessionOf[f] # s
    <3>1. PICK s \in CreateSession(e) : sessionOf' = [sessionOf EXCEPT ![e] = s]
      BY <1>10 DEF RegisterAccept
    <3>2. s \in Sessions \ sessions /\ \A f \in AcceptEvents : sessionOf[f] # s
      BY DEF CreateSession
    <3>. QED
      BY <3>1, <3>2
  <2>3. completed' = completed /\ sessions' = sessions
    BY <1>10 DEF RegisterAccept
  <2>4. CASE /\ pending' = pending \cup {e}
             /\ pc' = [pc EXCEPT ![t] = Caller[pc[t]]]
             /\ eventOf' = [eventOf EXCEPT ![t] = NoEvent]
    <3>1. ListenerTypeOK' /\ Held'
      BY <2>1, <2>2, <2>3, <2>4
    <3>2. Used'
      BY <2>1, <2>2, <2>3, <2>4
    <3>3. Unshared'
      BY <2>1, <2>2, <2>3, <2>4
    <3>. QED
      BY <3>1, <3>2, <3>3
  <2>5. CASE UNCHANGED <<pending, pc, eventOf>>
    BY <2>1, <2>2, <2>3, <2>5
  <2>. QED
    BY <1>10, <2>4, <2>5 DEF RegisterAccept
<1>11. ASSUME NEW s \in Sessions, ReleaseSession(s)
       PROVE  ListenerInv'
  BY <1>11 DEF ReleaseSession
<1>12. CASE UNCHANGED listenerVars
  BY <1>12 DEF listenerVars
<1>. QED
  BY <1>1, <1>2, <1>3, <1>4, <1>5, <1>6, <1>7, <1>8, <1>9, <1>10, <1>11, <1>12
     DEF ListenerNext, Start, Accept

(***************************************************************************)
(* main's own UpdateRoom.                                                  *)
(***************************************************************************)
\* Before the threads are launched nothing happens but accepts that wait.
Early ==
    /\ process \in Ids \cup {NoRoom} /\ entering \in [Workers -> Hosts \cup {NoHost}]
    /\ pc[Main] \in {"socket", "accept", "crashed", "first", "update"} =>
          /\ \A t \in Threads : pc[t] = "absent"
          /\ \A t \in Workers : entering[t] = NoHost
          /\ \A h \in Hosts : stage[h] = "received"
          /\ jobs = <<>>

\* The Server begins with it.
LEMMA BeginsEarly == Init => Early
BY MainIsNoThread DEF Init, ListenerInit, NavigationInit, Early, Workers

\* Every step keeps it: main leaves these places once and for all.
LEMMA EarlyStepKeeps == LobbyInv /\ ListenerInv /\ Early /\ [Next]_vars => Early'
<1> SUFFICES ASSUME LobbyInv, ListenerInv, Early, [Next]_vars
             PROVE  Early'
  OBVIOUS
<1> USE MainIsNoThread, NoHostIsNone DEF Early, ListenerInv, ListenerTypeOK, Held, Workers
<1>1. CASE LobbyStep
  BY <1>1 DEF LobbyStep, serverVars, listenerVars, navigationVars, handlerVars, roomVars
<1>2. ASSUME NEW r \in Requests, LaunchProcess(r)
      PROVE  Early'
  <2>1. creating[r] \in Ids
    BY <1>2 DEF LaunchProcess, StartProcess, LobbyInv, ListIsTrue, LobbyTypeOK
  <2>. QED
    BY <1>2, <2>1 DEF LaunchProcess, listenerVars, navigationVars, handlerVars, roomVars
<1>3. CASE ListenerStep
  <2> USE DEF Moves, MainGoesOn, navigationVars, handlerVars, roomVars, serverVars
  <2>1. UNCHANGED <<process, entering, stage, jobs>>
    BY <1>3 DEF ListenerStep
  <2>2. CASE Start
    BY <2>1, <2>2 DEF Start, OpenSocket, StartAccept, StartReturns, FirstUpdate, Launch, BeginWork
  <2>3. ASSUME NEW e \in AcceptEvents, Complete(e)
        PROVE  Early'
    BY <2>1, <2>3 DEF Complete
  <2>4. ASSUME NEW t \in Workers, Accept(t)
        PROVE  Early'
    <3>1. CASE \E e \in AcceptEvents : Dispatch(t, e)
      BY <2>1, <3>1 DEF Dispatch
    <3>2. CASE ProcessAcceptFailed(t) \/ ProcessAccept(t)
      BY <2>1, <3>2 DEF ProcessAcceptFailed, ProcessAccept
    <3>3. CASE RegisterAccept(t)
      BY <2>1, <3>3 DEF RegisterAccept, Caller
    <3>. QED
      BY <2>4, <3>1, <3>2, <3>3 DEF Accept
  <2>5. ASSUME NEW s \in Sessions, ReleaseSession(s)
        PROVE  Early'
    BY <2>1, <2>5 DEF ReleaseSession
  <2>. QED
    BY <1>3, <2>2, <2>3, <2>4, <2>5 DEF ListenerStep
<1>4. ASSUME NEW t \in Workers, NEW h \in Hosts, EnterGameHandler(t, h)
      PROVE  Early'
  BY <1>4 DEF EnterGameHandler, Idle, listenerVars
<1>5. CASE RoomStep
  BY <1>5 DEF RoomStep, Idle, listenerVars, serverVars
<1>6. CASE MainStep
  BY <1>6 DEF MainStep, MainUpdate, Update, Start, OpenSocket, StartAccept, StartReturns, FirstUpdate,
              Launch, BeginWork, Moves, MainGoesOn, serverVars, handlerVars
<1>7. CASE UNCHANGED vars
  BY <1>7 DEF vars, serverVars, listenerVars, navigationVars, handlerVars, roomVars
<1>. QED
  BY <1>1, <1>2, <1>3, <1>4, <1>5, <1>6, <1>7 DEF Next

(***************************************************************************)
(* The crowd.                                                              *)
(***************************************************************************)
JobKinds == {"UpdateRoom", "EnterGame", "GameInit", "SpawnMonster"}
Waits(job) == \E i \in DOMAIN jobs : jobs[i] = job
AgentRecords == [crowd : Hosts \cup {Null, Garbage}, agent : NoAgent..MaxAgents - 1]

\* The handler of C_ENTER_GAME is through.
Entered == \E h \in Hosts : stage[h] = "done"

\* What each part of a game comes after.
InOrder ==
    /\ \A h \in Hosts : stage[h] \in {"crowd", "init"} => mesh
    /\ \A h \in Hosts : stage[h] = "init" => crowd = h
    /\ \A h \in Hosts : stage[h] \in {"queue", "done"} => crowd = h /\ crowds[h] = "ready"
    /\ Waits("EnterGame") \/ inGame => Entered
    /\ Waits("SpawnMonster") \/ initialized => inGame
    /\ ~inGame => monsters = <<>>
    /\ died \in {"no", "GameInit", "Update"} /\ (inGame => died # "Update")

\* So many agents are in use as there are monsters, or all; they were given out in
\* their order.
AgentsInTurn ==
    /\ inGame => active[crowd] = IF Len(monsters) <= MaxAgents THEN Len(monsters) ELSE MaxAgents
    /\ ~inGame => \A h \in Hosts : stage[h] \in {"queue", "done"} => active[h] = 0
    /\ \A i \in DOMAIN monsters :
          /\ monsters[i].crowd = crowd
          /\ monsters[i].agent = IF i <= MaxAgents THEN i - 1 ELSE NoAgent

CrowdInv == NavigationTypeOK /\ (Orderly => InOrder /\ AgentsInTurn)

\* In a game that was entered, the crowd serves.
LEMMA CrowdServes ==
    ASSUME NavigationTypeOK, Orderly, InOrder, inGame
    PROVE  Serves /\ crowd \in Hosts /\ \A h \in Hosts : stage[h] \in {"received", "done"}
<1>1. PICK h \in Hosts : stage[h] = "done"
  BY DEF InOrder, Entered
<1>2. \A g \in Hosts : g = h \/ stage[g] = "received"
  BY <1>1 DEF Orderly
<1>. QED
  BY <1>1, <1>2 DEF InOrder, Serves, Usable

\* CrowdInv implies what the game relies on.
LEMMA CrowdInvSuffices == CrowdInv => AgentsOfTheCrowd
<1> SUFFICES ASSUME CrowdInv
             PROVE  AgentsOfTheCrowd
  OBVIOUS
<1> USE CountsAreNumbers DEF NoAgent
<1>1. NavigationTypeOK
  BY DEF CrowdInv
<1>2. ASSUME Orderly
      PROVE  /\ inGame => Serves /\ died \in {"no", "GameInit"}
             /\ died \in {"no", "GameInit", "Update"}
             /\ \A i \in DOMAIN monsters : monsters[i].crowd = crowd
             /\ \A i, k \in DOMAIN monsters :
                   monsters[i].agent = monsters[k].agent => i = k \/ monsters[i].agent = NoAgent
             /\ (\E i \in DOMAIN monsters : monsters[i].agent = NoAgent) => active[crowd] = MaxAgents
  <2>1. InOrder /\ AgentsInTurn
    BY <1>2 DEF CrowdInv
  <2>2. DOMAIN monsters = 1..Len(monsters) /\ Len(monsters) \in Nat
    BY <1>1 DEF NavigationTypeOK
  <2>3. inGame => Serves
    BY <1>1, <1>2, <2>1, CrowdServes
  <2>4. \A i, k \in DOMAIN monsters :
           monsters[i].agent = monsters[k].agent => i = k \/ monsters[i].agent = NoAgent
    BY <2>1, <2>2 DEF AgentsInTurn
  <2>5. ASSUME NEW i \in DOMAIN monsters, monsters[i].agent = NoAgent
        PROVE  active[crowd] = MaxAgents
    <3>1. inGame
      BY <2>1 DEF InOrder
    <3>2. i > MaxAgents /\ i <= Len(monsters)
      BY <2>1, <2>2, <2>5 DEF AgentsInTurn
    <3>. QED
      BY <2>1, <2>2, <3>1, <3>2 DEF AgentsInTurn
  <2>. QED
    BY <2>1, <2>3, <2>4, <2>5 DEF InOrder, AgentsInTurn
<1>. QED
  BY <1>1, <1>2 DEF AgentsOfTheCrowd

\* A game begins with CrowdInv.
LEMMA CrowdBegins == NavigationInit => CrowdInv
<1> SUFFICES ASSUME NavigationInit
             PROVE  CrowdInv
  OBVIOUS
<1>1. NavigationTypeOK
  <2>1. stage \in [Hosts -> DOMAIN After \cup {"done"}]
    <3>1. "received" \in DOMAIN After
      BY DEF After
    <3>. QED
      BY <3>1 DEF NavigationInit
  <2>2. jobs = <<>> /\ monsters = <<>>
    BY DEF NavigationInit
  <2>3. \A S : <<>> \in Seq(S)
    OBVIOUS
  <2>4. active \in [Hosts -> 0..MaxAgents]
    BY CountsAreNumbers DEF NavigationInit
  <2>. QED
    BY <2>1, <2>2, <2>3, <2>4 DEF NavigationInit, NavigationTypeOK
<1>2. InOrder
  BY DEF NavigationInit, InOrder, Waits, Entered
<1>3. AgentsInTurn
  BY DEF NavigationInit, AgentsInTurn
<1>. QED
  BY <1>1, <1>2, <1>3 DEF CrowdInv

\* What waits after a job was taken, or another one queued.
LEMMA JobTaken ==
    ASSUME NavigationTypeOK, NEW job, Runs(job)
    PROVE  /\ jobs' \in Seq(JobKinds)
           /\ Waits(job)
           /\ \A k \in JobKinds : Waits(k)' => Waits(k)
<1>1. jobs \in Seq(JobKinds) /\ jobs # <<>> /\ job = jobs[1] /\ jobs' = Tail(jobs)
  BY DEF NavigationTypeOK, Runs, JobKinds
<1>2. /\ jobs' \in Seq(JobKinds) /\ Len(jobs') = Len(jobs) - 1
      /\ \A i \in 1..Len(jobs') : jobs'[i] = jobs[i + 1]
  BY <1>1
<1>. QED
  BY <1>1, <1>2 DEF Waits

LEMMA JobQueued ==
    ASSUME NavigationTypeOK, NEW job \in JobKinds, jobs' = Append(jobs, job)
    PROVE  /\ jobs' \in Seq(JobKinds)
           /\ \A k \in JobKinds : Waits(k)' => Waits(k) \/ k = job
<1>1. jobs \in Seq(JobKinds)
  BY DEF NavigationTypeOK, JobKinds
<1>2. /\ jobs' \in Seq(JobKinds) /\ Len(jobs') = Len(jobs) + 1
      /\ \A i \in 1..Len(jobs) : jobs'[i] = jobs[i]
      /\ jobs'[Len(jobs) + 1] = job
  BY <1>1, AppendProperties
<1>3. ASSUME NEW k \in JobKinds, NEW i \in 1..Len(jobs'), jobs'[i] = k
      PROVE  Waits(k) \/ k = job
  <2>1. i \in 1..Len(jobs) \/ i = Len(jobs) + 1
    BY <1>1, <1>2
  <2>. QED
    BY <1>1, <1>2, <1>3, <2>1 DEF Waits
<1>4. DOMAIN jobs' = 1..Len(jobs')
  BY <1>2
<1>. QED
  BY <1>2, <1>3, <1>4 DEF Waits

\* Spawn keeps the types, whatever m_crowd points to.
LEMMA SpawnTyped ==
    ASSUME NavigationTypeOK, NEW n \in Nat, Spawn(n)
    PROVE  /\ monsters' \in Seq(AgentRecords)
           /\ active' \in [Hosts -> 0..MaxAgents]
           /\ died' \in {died, "AddAgent"}
<1> USE CountsAreNumbers DEF NavigationTypeOK
<1>1. monsters \in Seq(AgentRecords)
  BY DEF AgentRecords
<1>2. ASSUME NEW added, added \in [1..n -> AgentRecords], monsters' = monsters \o added
      PROVE  monsters' \in Seq(AgentRecords)
  <2>1. added \in Seq(AgentRecords)
    BY <1>2
  <2>. QED
    BY <1>1, <1>2, <2>1, ConcatProperties
<1>3. CASE /\ Serves \/ n = 0
           /\ NewMonsters(n, FreeAgent)
           /\ active' = [h \in Hosts |-> IF h # crowd THEN active[h]
                                         ELSE IF active[h] + n <= MaxAgents THEN active[h] + n ELSE MaxAgents]
           /\ UNCHANGED died
  <2>1. ASSUME NEW i \in 1..n
        PROVE  [crowd |-> crowd, agent |-> FreeAgent(i)] \in AgentRecords
    <3>1. crowd \in Hosts /\ active[crowd] \in 0..MaxAgents
      BY <1>3 DEF Serves, Usable
    <3>2. FreeAgent(i) \in NoAgent..MaxAgents - 1
      BY <3>1 DEF FreeAgent, NoAgent
    <3>. QED
      BY <3>1, <3>2 DEF AgentRecords
  <2>2. monsters' = monsters \o [i \in 1..n |-> [crowd |-> crowd, agent |-> FreeAgent(i)]]
    BY <1>3 DEF NewMonsters
  <2>3. [i \in 1..n |-> [crowd |-> crowd, agent |-> FreeAgent(i)]] \in [1..n -> AgentRecords]
    BY <2>1
  <2>4. monsters' \in Seq(AgentRecords)
    BY <1>2, <2>2, <2>3
  <2>5. active' \in [Hosts -> 0..MaxAgents]
    BY <1>3
  <2>. QED
    BY <1>3, <2>4, <2>5
<1>4. CASE ~Usable /\ n > 0 /\ NewMonsters(n, AllNone) /\ UNCHANGED <<active, died>>
  <2>1. [crowd |-> crowd, agent |-> NoAgent] \in AgentRecords
    BY DEF AgentRecords, NoAgent
  <2>2. monsters' = monsters \o [i \in 1..n |-> [crowd |-> crowd, agent |-> NoAgent]]
    BY <1>4 DEF NewMonsters, AllNone
  <2>3. [i \in 1..n |-> [crowd |-> crowd, agent |-> NoAgent]] \in [1..n -> AgentRecords]
    BY <2>1
  <2>. QED
    BY <1>2, <1>4, <2>2, <2>3
<1>5. CASE died' = "AddAgent" /\ UNCHANGED <<monsters, active>>
  BY <1>1, <1>5
<1>. QED
  BY <1>3, <1>4, <1>5 DEF Spawn

\* In a game that was entered Spawn gives the new monsters the next agents.
LEMMA SpawnKeeps ==
    ASSUME NavigationTypeOK, Orderly, InOrder, AgentsInTurn, inGame,
           NEW n \in Nat, Spawn(n), UNCHANGED <<stage, crowd, inGame>>
    PROVE  AgentsInTurn' /\ died' = died
<1> DEFINE added == [i \in 1..n |-> [crowd |-> crowd, agent |-> FreeAgent(i)]]
<1> USE CountsAreNumbers
<1>1. Serves /\ crowd \in Hosts
  BY CrowdServes
<1>2. /\ monsters' = monsters \o added
      /\ active' = [h \in Hosts |-> IF h # crowd THEN active[h]
                                    ELSE IF active[h] + n <= MaxAgents THEN active[h] + n ELSE MaxAgents]
      /\ died' = died
  BY <1>1 DEF Spawn, NewMonsters, Serves
<1>3. monsters \in Seq(AgentRecords)
  BY DEF NavigationTypeOK, AgentRecords
<1>4. active[crowd] = IF Len(monsters) <= MaxAgents THEN Len(monsters) ELSE MaxAgents
  BY DEF AgentsInTurn
<1>5. ASSUME NEW i \in 1..n
      PROVE  /\ FreeAgent(i) = IF Len(monsters) + i <= MaxAgents THEN Len(monsters) + i - 1 ELSE NoAgent
             /\ [crowd |-> crowd, agent |-> FreeAgent(i)] \in AgentRecords
  <2>1. FreeAgent(i) = IF Len(monsters) + i <= MaxAgents THEN Len(monsters) + i - 1 ELSE NoAgent
    BY <1>3, <1>4 DEF FreeAgent
  <2>2. FreeAgent(i) \in NoAgent..MaxAgents - 1
    BY <1>3, <2>1 DEF NoAgent
  <2>. QED
    BY <1>1, <2>1, <2>2 DEF AgentRecords
<1>6. added \in Seq(AgentRecords) /\ Len(added) = n
  BY <1>5
<1>7. /\ monsters' \in Seq(AgentRecords) /\ Len(monsters') = Len(monsters) + n
      /\ \A i \in 1..Len(monsters') :
            monsters'[i] = IF i <= Len(monsters) THEN monsters[i] ELSE added[i - Len(monsters)]
  BY <1>2, <1>3, <1>6, ConcatProperties
<1>8. \A k \in 1..n : added[k] = [crowd |-> crowd, agent |-> FreeAgent(k)]
  OBVIOUS
<1> HIDE DEF added
<1>9. ASSUME NEW i \in 1..Len(monsters')
      PROVE  /\ monsters'[i].crowd = crowd
             /\ monsters'[i].agent = IF i <= MaxAgents THEN i - 1 ELSE NoAgent
  <2>1. Len(monsters) \in Nat /\ DOMAIN monsters = 1..Len(monsters) /\ i \in Nat /\ i >= 1
    BY <1>3, <1>7
  <2>2. CASE i <= Len(monsters)
    <3>1. i \in DOMAIN monsters /\ monsters'[i] = monsters[i]
      BY <1>7, <2>1, <2>2
    <3>. QED
      BY <3>1 DEF AgentsInTurn
  <2>3. CASE i > Len(monsters)
    <3> DEFINE k == i - Len(monsters)
    <3>1. k \in 1..n /\ Len(monsters) + k = i
      BY <1>7, <2>1, <2>3
    <3>2. monsters'[i] = added[k]
      BY <1>7, <2>1, <2>3
    <3>3. added[k] = [crowd |-> crowd, agent |-> FreeAgent(k)]
      BY <1>8, <3>1
    <3>4. FreeAgent(k) = IF i <= MaxAgents THEN i - 1 ELSE NoAgent
      <4>1. FreeAgent(k) = IF Len(monsters) + k <= MaxAgents THEN Len(monsters) + k - 1 ELSE NoAgent
        BY <1>5, <3>1
      <4> HIDE DEF k
      <4>. QED
        BY <3>1, <4>1
    <3> HIDE DEF k
    <3>. QED
      BY <3>2, <3>3, <3>4
  <2>. QED
    BY <2>1, <2>2, <2>3
<1>10. active'[crowd] = IF Len(monsters') <= MaxAgents THEN Len(monsters') ELSE MaxAgents
  <2>1. active'[crowd] = IF active[crowd] + n <= MaxAgents THEN active[crowd] + n ELSE MaxAgents
    BY <1>1, <1>2
  <2>. QED
    BY <1>3, <1>4, <1>7, <2>1
<1>11. DOMAIN monsters' = 1..Len(monsters')
  BY <1>7
<1>. QED
  BY <1>2, <1>9, <1>10, <1>11 DEF AgentsInTurn

\* The types are kept.
LEMMA NavigationTyped == NavigationTypeOK /\ [NavigationNext]_navigationVars => NavigationTypeOK'
<1> SUFFICES ASSUME NavigationTypeOK, [NavigationNext]_navigationVars
             PROVE  NavigationTypeOK'
  OBVIOUS
<1> USE CountsAreNumbers
<1>1. ASSUME NEW h \in Hosts, Handler(h)
      PROVE  NavigationTypeOK'
  <2> USE DEF NavigationTypeOK, Goes, Noting, After
  <2>1. CASE LoadMesh(h)
    BY <2>1 DEF LoadMesh, roomVars
  <2>2. CASE AllocCrowd(h)
    BY <2>2 DEF AllocCrowd, roomVars
  <2>3. CASE InitCrowd(h)
    <3>1. stage' \in [Hosts -> DOMAIN After \cup {"done"}] /\ UNCHANGED <<mesh, crowd, roomVars>>
      BY <2>3 DEF InitCrowd
    <3>2. failed' \subseteq Hosts /\ crowds' \in [Hosts -> {"raw", "empty", "ready"}]
      <4>1. CASE crowd = Null
        BY <2>3, <4>1 DEF InitCrowd
      <4>2. CASE crowd # Null
        <5>1. PICK outcome \in {"raw", IF mesh THEN "ready" ELSE "empty"} :
                 crowds' = [crowds EXCEPT ![crowd] = outcome] /\ Noting(h, outcome = "ready")
          BY <2>3, <4>2 DEF InitCrowd
        <5>2. outcome \in {"raw", "empty", "ready"}
          OBVIOUS
        <5>. QED
          BY <5>1, <5>2
      <4>. QED
        BY <4>1, <4>2
    <3>3. active' \in [Hosts -> 0..MaxAgents]
      <4>1. active' = active \/ active' = [active EXCEPT ![crowd] = 0]
        BY <2>3 DEF InitCrowd
      <4>2. 0 \in 0..MaxAgents /\ active \in [Hosts -> 0..MaxAgents]
        OBVIOUS
      <4>. QED
        BY ONLY <4>1, <4>2
    <3>4. died' \in {"no", "InitCrowd", "Update", "GameInit", "AddAgent"}
      BY <2>3 DEF InitCrowd
    <3>. QED
      BY <3>1, <3>2, <3>3, <3>4 DEF roomVars
  <2>4. CASE QueueEnterGame(h)
    <3>1. jobs' \in Seq(JobKinds)
      BY <2>4, JobQueued DEF QueueEnterGame, JobKinds
    <3>. QED
      BY <2>4, <3>1 DEF QueueEnterGame, JobKinds
  <2>. QED
    BY <1>1, <2>1, <2>2, <2>3, <2>4 DEF Handler
<1>2. ASSUME NEW job \in {"UpdateRoom", "GameInit", "SpawnMonster"}, Queue(job)
      PROVE  NavigationTypeOK'
  <2>1. jobs' \in Seq(JobKinds)
    BY <1>2, JobQueued DEF Queue, JobKinds
  <2>. QED
    BY <1>2, <2>1 DEF Queue, handlerVars, NavigationTypeOK, JobKinds
<1>3. ASSUME NEW job \in JobKinds, Runs(job), UNCHANGED handlerVars,
             monsters' \in Seq(AgentRecords), active' \in [Hosts -> 0..MaxAgents],
             inGame' \in BOOLEAN, initialized' \in BOOLEAN,
             died' \in {"no", "InitCrowd", "Update", "GameInit", "AddAgent"}
      PROVE  NavigationTypeOK'
  <2>1. jobs' \in Seq(JobKinds)
    BY <1>3, JobTaken
  <2>. QED
    BY <1>3, <2>1 DEF handlerVars, NavigationTypeOK, JobKinds, AgentRecords
<1>4. CASE RunJob
  <2>1. monsters \in Seq(AgentRecords) /\ active \in [Hosts -> 0..MaxAgents]
        /\ inGame \in BOOLEAN /\ initialized \in BOOLEAN
        /\ died \in {"no", "InitCrowd", "Update", "GameInit", "AddAgent"}
    BY DEF NavigationTypeOK, AgentRecords
  <2>2. CASE UpdateRoom
    BY <1>3, <2>1, <2>2 DEF UpdateRoom, Update, JobKinds
  <2>3. CASE EnterGame
    BY <1>3, <2>1, <2>3 DEF EnterGame, JobKinds
  <2>4. CASE GameInit
    <3>1. Runs("GameInit") /\ "GameInit" \in JobKinds /\ UNCHANGED handlerVars /\ inGame' = inGame
      BY <2>4 DEF GameInit, JobKinds
    <3>2. CASE UNCHANGED <<initialized, monsters, active>> /\ died' \in {died, "GameInit"}
      BY <1>3, <2>1, <3>1, <3>2
    <3>3. CASE initialized' = TRUE /\ Spawn(FirstMonsters)
      <4>1. /\ monsters' \in Seq(AgentRecords) /\ active' \in [Hosts -> 0..MaxAgents]
            /\ died' \in {died, "AddAgent"}
        BY <3>3, SpawnTyped
      <4>. QED
        BY <1>3, <2>1, <3>1, <3>3, <4>1
    <3>. QED
      BY <2>4, <3>2, <3>3 DEF GameInit
  <2>5. CASE SpawnMonster
    <3>1. Runs("SpawnMonster") /\ "SpawnMonster" \in JobKinds /\ UNCHANGED <<handlerVars, inGame, initialized>>
      BY <2>5 DEF SpawnMonster, JobKinds
    <3>2. /\ monsters' \in Seq(AgentRecords) /\ active' \in [Hosts -> 0..MaxAgents]
          /\ died' \in {died, "AddAgent"}
      BY <2>5, SpawnTyped DEF SpawnMonster
    <3>. QED
      BY <1>3, <2>1, <3>1, <3>2
  <2>. QED
    BY <1>4, <2>2, <2>3, <2>4, <2>5 DEF RunJob
<1>5. CASE MainUpdate
  BY <1>5 DEF MainUpdate, Update, handlerVars, NavigationTypeOK
<1>6. CASE UNCHANGED navigationVars
  BY <1>6 DEF navigationVars, handlerVars, roomVars, NavigationTypeOK
<1>. QED
  BY <1>1, <1>2, <1>4, <1>5, <1>6 DEF NavigationNext

\* A game that is orderly was so before.
LEMMA OrderlyBefore == NavigationTypeOK /\ [NavigationNext]_navigationVars /\ Orderly' => Orderly
<1> SUFFICES ASSUME NavigationTypeOK, [NavigationNext]_navigationVars, Orderly'
             PROVE  Orderly
  OBVIOUS
<1>1. failed \subseteq failed' /\ \A h \in Hosts : stage'[h] = "received" => stage[h] = "received"
  <2>1. ASSUME NEW h \in Hosts, Handler(h)
        PROVE  failed \subseteq failed' /\ \A g \in Hosts : stage'[g] = "received" => stage[g] = "received"
    BY <2>1 DEF Handler, LoadMesh, AllocCrowd, InitCrowd, QueueEnterGame, Goes, Noting, After, NavigationTypeOK
  <2>2. (\E job \in {"UpdateRoom", "GameInit", "SpawnMonster"} : Queue(job)) \/ RunJob \/ MainUpdate
           => UNCHANGED <<stage, failed>>
    BY DEF Queue, RunJob, UpdateRoom, EnterGame, GameInit, SpawnMonster, MainUpdate, Update, handlerVars
  <2>3. UNCHANGED navigationVars => UNCHANGED <<stage, failed>>
    BY DEF navigationVars, handlerVars
  <2>. QED
    BY <2>1, <2>2, <2>3 DEF NavigationNext
<1>. QED
  BY <1>1 DEF Orderly

\* Before the game is entered a handler is at work, the only one; then none is.
LEMMA HandlerIsAlone ==
    ASSUME NavigationTypeOK, Orderly, InOrder, Orderly', NEW h \in Hosts, Handler(h)
    PROVE  /\ ~inGame /\ monsters = <<>> /\ ~Waits("EnterGame")
           /\ \A g \in Hosts : g = h \/ (stage[g] = "received" /\ stage'[g] = "received")
           /\ h \notin failed' /\ failed = {}
<1>1. stage \in [Hosts -> DOMAIN After \cup {"done"}]
  BY DEF NavigationTypeOK
<1>2. stage[h] # "done" /\ stage' = [stage EXCEPT ![h] = After[stage[h]]] /\ stage'[h] # "received"
  BY <1>1 DEF Handler, LoadMesh, AllocCrowd, InitCrowd, QueueEnterGame, Goes, After
<1>3. \A g \in Hosts : g = h \/ (stage[g] = "received" /\ stage'[g] = "received")
  <2>1. \A g \in Hosts : stage'[g] # "received" => g = h
    BY <1>2 DEF Orderly
  <2>. QED
    BY <1>1, <1>2, <2>1
<1>4. ~Entered
  BY <1>2, <1>3 DEF Entered
<1>. QED
  BY <1>3, <1>4 DEF InOrder, Orderly

\* As long as it is orderly, every step of the handler keeps the order ...
LEMMA HandlerKeepsOrder ==
    ASSUME NavigationTypeOK, Orderly, InOrder, AgentsInTurn, Orderly', died = "no", NEW h \in Hosts, Handler(h)
    PROVE  InOrder' /\ AgentsInTurn'
<1>1. /\ ~inGame /\ monsters = <<>> /\ ~Waits("EnterGame")
      /\ \A g \in Hosts : g = h \/ (stage[g] = "received" /\ stage'[g] = "received")
      /\ h \notin failed' /\ failed = {}
  BY HandlerIsAlone
<1>2. monsters' = monsters /\ inGame' = inGame /\ initialized' = initialized
  BY DEF Handler, LoadMesh, AllocCrowd, InitCrowd, QueueEnterGame, roomVars
<1>3. stage \in [Hosts -> DOMAIN After \cup {"done"}]
  BY DEF NavigationTypeOK
<1>4. CASE LoadMesh(h)
  <2>1. stage'[h] = "crowd" /\ mesh' /\ UNCHANGED <<crowd, crowds, jobs, active, died>>
    BY <1>1, <1>3, <1>4 DEF LoadMesh, Goes, After, Noting, roomVars
  <2>2. InOrder'
    BY <1>1, <1>2, <2>1 DEF InOrder, Waits, Entered
  <2>. QED
    BY <1>1, <1>2, <2>1, <2>2 DEF AgentsInTurn
<1>5. CASE AllocCrowd(h)
  <2>1. stage[h] = "crowd" /\ stage'[h] = "init" /\ crowd' = h /\ UNCHANGED <<mesh, crowds, jobs, active, died>>
    BY <1>1, <1>3, <1>5 DEF AllocCrowd, Goes, After, Noting, roomVars
  <2>2. InOrder'
    BY <1>1, <1>2, <2>1 DEF InOrder, Waits, Entered
  <2>. QED
    BY <1>1, <1>2, <2>1, <2>2 DEF AgentsInTurn
<1>6. CASE InitCrowd(h)
  <2>1. stage[h] = "init" /\ stage'[h] = "queue" /\ UNCHANGED <<mesh, crowd, jobs>>
    BY <1>3, <1>6 DEF InitCrowd, Goes, After, roomVars
  <2>2. crowd = h /\ mesh /\ h # Null
    BY <2>1, CrowdsAreCrowds DEF InOrder
  <2>3. PICK outcome \in {"raw", IF mesh THEN "ready" ELSE "empty"} :
           crowds' = [crowds EXCEPT ![h] = outcome] /\ Noting(h, outcome = "ready")
    BY <1>6, <2>2 DEF InitCrowd
  <2>4. outcome = "ready"
    BY <1>1, <2>3 DEF Noting
  <2>5. crowds'[h] = "ready" /\ active'[h] = 0
    BY <1>6, <2>2, <2>3, <2>4 DEF InitCrowd, NavigationTypeOK
  <2>6. died' = "no"
    BY <1>1, <1>6, <2>2 DEF InitCrowd
  <2>7. InOrder'
    BY <1>1, <1>2, <2>1, <2>2, <2>5, <2>6 DEF InOrder, Waits, Entered
  <2>. QED
    BY <1>1, <1>2, <2>1, <2>5, <2>7 DEF AgentsInTurn
<1>7. CASE QueueEnterGame(h)
  <2>1. stage[h] = "queue" /\ stage'[h] = "done" /\ UNCHANGED <<mesh, crowd, crowds, active, died>>
    BY <1>3, <1>7 DEF QueueEnterGame, Goes, After
  <2>2. \A k \in JobKinds : Waits(k)' => Waits(k) \/ k = "EnterGame"
    BY <1>7, JobQueued DEF QueueEnterGame, JobKinds
  <2>3. Waits("SpawnMonster")' => Waits("SpawnMonster")
    BY <2>2 DEF JobKinds
  <2>4. Entered'
    BY <2>1 DEF Entered
  <2>5. InOrder'
    BY <1>1, <1>2, <2>1, <2>3, <2>4 DEF InOrder
  <2>. QED
    BY <1>1, <1>2, <2>1, <2>5 DEF AgentsInTurn
<1>. QED
  BY <1>4, <1>5, <1>6, <1>7 DEF Handler

\* ... and so does every job, and every packet that queues one.
LEMMA JobsKeepOrder ==
    ASSUME NavigationTypeOK, Orderly, InOrder, AgentsInTurn, died = "no",
           RunJob \/ MainUpdate \/ \E job \in {"UpdateRoom", "GameInit", "SpawnMonster"} : Queue(job)
    PROVE  InOrder' /\ AgentsInTurn'
<1>1. UNCHANGED <<stage, mesh, crowd, crowds, failed>>
  BY DEF RunJob, UpdateRoom, EnterGame, GameInit, SpawnMonster, MainUpdate, Update, Queue, handlerVars
<1>2. ASSUME NEW job \in {"UpdateRoom", "GameInit", "SpawnMonster"}, Queue(job)
      PROVE  InOrder' /\ AgentsInTurn'
  <2>1. UNCHANGED <<inGame, initialized, monsters, active, died>>
    BY <1>2 DEF Queue
  <2>2. \A k \in JobKinds : Waits(k)' => Waits(k) \/ k = job
    BY <1>2, JobQueued DEF Queue, JobKinds
  <2>3. (Waits("EnterGame")' => Waits("EnterGame")) /\ (Waits("SpawnMonster")' => Waits("SpawnMonster") \/ inGame)
    BY <1>2, <2>2 DEF JobKinds, Queue
  <2>4. InOrder'
    BY <1>1, <2>1, <2>3 DEF InOrder, Entered
  <2>. QED
    BY <1>1, <2>1, <2>4 DEF AgentsInTurn
<1>3. ASSUME NEW job \in JobKinds, Runs(job)
      PROVE  /\ Waits(job)
             /\ (Waits("EnterGame")' => Waits("EnterGame")) /\ (Waits("SpawnMonster")' => Waits("SpawnMonster"))
  BY <1>3, JobTaken DEF JobKinds
<1>4. ASSUME Update, Waits("EnterGame")' => Waits("EnterGame"), Waits("SpawnMonster")' => Waits("SpawnMonster")
      PROVE  InOrder' /\ AgentsInTurn'
  <2>1. UNCHANGED <<inGame, initialized, monsters, active>>
    BY <1>4 DEF Update
  <2>2. died' \in {"no", "Update"} /\ (inGame => died' = "no")
    BY <1>4, CrowdServes DEF Update, Serves
  <2>3. InOrder'
    BY <1>1, <1>4, <2>1, <2>2 DEF InOrder, Entered
  <2>. QED
    BY <1>1, <2>1, <2>3 DEF AgentsInTurn
<1>5. CASE UpdateRoom
  BY <1>3, <1>4, <1>5 DEF UpdateRoom, JobKinds
<1>6. CASE MainUpdate
  BY <1>4, <1>6 DEF MainUpdate, Waits
<1>7. CASE EnterGame
  <2>1. /\ Waits("EnterGame") /\ inGame' /\ UNCHANGED <<initialized, monsters, active, died>>
        /\ Waits("SpawnMonster")' => Waits("SpawnMonster")
    BY <1>3, <1>7 DEF EnterGame, JobKinds
  <2>2. Entered
    BY <2>1 DEF InOrder
  <2>3. InOrder'
    BY <1>1, <2>1, <2>2 DEF InOrder, Entered
  <2>4. active[crowd] = IF Len(monsters) <= MaxAgents THEN Len(monsters) ELSE MaxAgents
    <3>1. CASE inGame
      BY <3>1 DEF AgentsInTurn
    <3>2. CASE ~inGame
      <4>1. monsters = <<>> /\ active[crowd] = 0
        BY <2>2, <3>2 DEF InOrder, AgentsInTurn, Entered
      <4>. QED
        BY <4>1, CountsAreNumbers
    <3>. QED
      BY <3>1, <3>2
  <2>. QED
    BY <1>1, <2>1, <2>3, <2>4 DEF AgentsInTurn
<1>8. ASSUME inGame, inGame' = inGame, NEW n \in Nat, Spawn(n), initialized' \in BOOLEAN,
             Waits("EnterGame")' => Waits("EnterGame")
      PROVE  InOrder' /\ AgentsInTurn'
  <2>1. AgentsInTurn' /\ died' = died
    BY <1>1, <1>8, SpawnKeeps
  <2>2. InOrder'
    BY <1>1, <1>8, <2>1 DEF InOrder, Entered
  <2>. QED
    BY <2>1, <2>2
<1>9. CASE GameInit
  <2>1. /\ (Waits("EnterGame")' => Waits("EnterGame")) /\ (Waits("SpawnMonster")' => Waits("SpawnMonster"))
        /\ inGame' = inGame
    BY <1>3, <1>9 DEF GameInit, JobKinds
  <2>2. CASE UNCHANGED <<initialized, monsters, active>> /\ died' \in {died, "GameInit"}
    <3>1. InOrder'
      BY <1>1, <2>1, <2>2 DEF InOrder, Entered
    <3>. QED
      BY <1>1, <2>1, <2>2, <3>1 DEF AgentsInTurn
  <2>3. CASE inGame /\ initialized' = TRUE /\ Spawn(FirstMonsters)
    BY <1>8, <2>1, <2>3, CountsAreNumbers
  <2>. QED
    BY <1>9, <2>2, <2>3 DEF GameInit
<1>10. CASE SpawnMonster
  <2>1. /\ Waits("SpawnMonster") /\ (Waits("EnterGame")' => Waits("EnterGame"))
        /\ UNCHANGED <<inGame, initialized>> /\ Spawn(1)
    BY <1>3, <1>10 DEF SpawnMonster, JobKinds
  <2>2. inGame /\ initialized' \in BOOLEAN
    BY <2>1 DEF InOrder, NavigationTypeOK
  <2>. QED
    BY <1>8, <2>1, <2>2
<1>. QED
  BY <1>2, <1>5, <1>6, <1>7, <1>9, <1>10 DEF RunJob

\* Every step keeps CrowdInv: the crowd is not exchanged once somebody entered,
\* and nothing is spawned before, unless there is disorder, which stays.
LEMMA CrowdStepKeeps == CrowdInv /\ [NavigationNext]_navigationVars => CrowdInv'
<1> SUFFICES ASSUME CrowdInv, [NavigationNext]_navigationVars
             PROVE  CrowdInv'
  OBVIOUS
<1>1. NavigationTypeOK /\ NavigationTypeOK'
  BY NavigationTyped DEF CrowdInv
<1>2. ASSUME Orderly'
      PROVE  InOrder' /\ AgentsInTurn'
  <2>1. Orderly /\ InOrder /\ AgentsInTurn
    BY <1>1, <1>2, OrderlyBefore DEF CrowdInv
  <2>2. CASE NavigationNext
    BY <1>1, <1>2, <2>1, <2>2, HandlerKeepsOrder, JobsKeepOrder DEF NavigationNext
  <2>3. CASE UNCHANGED navigationVars
    <3>1. InOrder'
      BY <2>1, <2>3 DEF navigationVars, handlerVars, roomVars, InOrder, Waits, Entered
    <3>. QED
      BY <2>1, <2>3, <3>1 DEF navigationVars, handlerVars, roomVars, AgentsInTurn
  <2>. QED
    BY <2>2, <2>3
<1>. QED
  BY <1>1, <1>2 DEF CrowdInv

(***************************************************************************)
(* The theorems.                                                           *)
(***************************************************************************)
\* Every step of the Server is one of each component, or leaves it alone.
LEMMA StepsOfComponents ==
    [Next]_vars => /\ [LobbyNext]_lobbyVars
                   /\ [ListenerNext]_listenerVars
                   /\ [NavigationNext]_navigationVars
<1> SUFFICES ASSUME [Next]_vars
             PROVE  /\ [LobbyNext]_lobbyVars
                    /\ [ListenerNext]_listenerVars
                    /\ [NavigationNext]_navigationVars
  OBVIOUS
<1>1. CASE LobbyStep
  BY <1>1 DEF LobbyStep, LobbyNext
<1>2. ASSUME NEW r \in Requests, LaunchProcess(r)
      PROVE  /\ LobbyNext
             /\ UNCHANGED <<listenerVars, navigationVars>>
  BY <1>2 DEF LaunchProcess, LobbyNext
<1>3. CASE ListenerStep
  BY <1>3 DEF ListenerStep, ListenerNext
<1>4. ASSUME NEW t \in Workers, NEW h \in Hosts, EnterGameHandler(t, h)
      PROVE  NavigationNext /\ UNCHANGED <<lobbyVars, listenerVars>>
  BY <1>4 DEF EnterGameHandler, Lives, NavigationNext
<1>5. CASE RoomStep
  BY <1>5 DEF RoomStep, Lives, NavigationNext
<1>6. CASE MainStep
  BY <1>6 DEF MainStep, Lives, ListenerNext, NavigationNext
<1>7. CASE UNCHANGED vars
  BY <1>7 DEF vars
<1>. QED
  BY <1>1, <1>2, <1>3, <1>4, <1>5, <1>6, <1>7 DEF Next

\* The invariant of the lobby, of the Listener and of main.
ServerInv == LobbyInv /\ ListenerInv /\ Early

LEMMA ServerInvariance == Spec => []ServerInv
<1>1. Init => ServerInv
  BY LobbyBegins, ListenerBegins, BeginsEarly DEF Init, ServerInv
<1>2. ServerInv /\ [Next]_vars => ServerInv'
  BY LobbyStepKeeps, ListenerStepKeeps, EarlyStepKeeps, StepsOfComponents DEF ServerInv
<1>. QED
  BY <1>1, <1>2, PTL DEF Spec

\* The lobby's list is true in every state, however requests interleave.
THEOREM TrueList == Spec => []ListIsTrue
<1>1. ServerInv => ListIsTrue
  BY DEF ServerInv, LobbyInv
<1>. QED
  BY <1>1, ServerInvariance, PTL

\* The Listener loses no event and shares no Session, whatever fails.
THEOREM Listening == Spec => []KeepsListening
<1>1. ServerInv => KeepsListening
  BY ListenerInvSuffices DEF ServerInv
<1>. QED
  BY <1>1, ServerInvariance, PTL

\* main's own UpdateRoom meets nobody.
THEOREM UpdateAlone == Spec => []FirstUpdateIsAlone
<1>1. ServerInv => FirstUpdateIsAlone
  BY DEF ServerInv, Early, FirstUpdateIsAlone
<1>. QED
  BY <1>1, ServerInvariance, PTL

\* Whatever the clients send, and in whatever order: as long as one C_ENTER_GAME
\* came and its Init did not fail, whoever uses the crowd from EnterGame on finds it
\* initialised, with agents that no two monsters share.
THEOREM CrowdIsReady == Spec => []AgentsOfTheCrowd
<1>1. Init => CrowdInv
  BY CrowdBegins DEF Init
<1>2. CrowdInv /\ [Next]_vars => CrowdInv'
  BY CrowdStepKeeps, StepsOfComponents
<1>3. CrowdInv => AgentsOfTheCrowd
  BY CrowdInvSuffices
<1>. QED
  BY <1>1, <1>2, <1>3, PTL DEF Spec
=============================================================================
