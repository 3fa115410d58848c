-------------------------------- MODULE Monster --------------------------------
(***************************************************************************)
(* One Monster of the Room (src/Server/Monster.cpp, Object.cpp): how its   *)
(* state follows its targets, its arrivals and its wounds, and what the    *)
(* clients are told of it.                                                 *)
(*                                                                         *)
(* Everything here runs in jobs of the Room, one at a time.  A change of   *)
(* state is not broadcast at once: SetState and UpdateAttack queue a job   *)
(* of their own, which runs after those queued before it.  A hit is told   *)
(* by the job that deals it, of a dead Monster too.  news holds the        *)
(* jobs about this Monster that are queued.  Distances, sight and arrival  *)
(* are what the crowd and the clients make them: any.                      *)
(***************************************************************************)
EXTENDS Naturals, Sequences

CONSTANTS
    Players, NoTarget,
    Modes,          \* the EMoveModes of the map's file: "Patrol", "Rush", or both
    MaxNews         \* bound: updates and hits come while less news waits

ASSUME NoTargetIsNone == NoTarget \notin Players
ASSUME ModesOfMaps == Modes \subseteq {"Patrol", "Rush"}

VARIABLES
    monster,        \* the Monster: see Init
    news,           \* the HandleMonsterState and HandleServerAttack jobs queued for it
    told,           \* the last S_MONSTER_STATE or S_ATTACK of it that was broadcast
    struck,         \* an S_HIT of it was broadcast after that
    status,         \* status[p]: "outside", in the Room, gone from it, or "destroyed"
    dead            \* the players with _isDie

vars == <<monster, news, told, struck, status, dead>>

Present == {p \in Players : status[p] = "present"}
\* The Player objects that exist: the Session of one who has left still holds it.
Existing == {p \in Players : status[p] \in {"present", "left"}}

\* _state, _moveMode, _wait, _target, _isDie, and whether the two ticks that
\* the Monster waits for have come.  Every Monster has EMoveType::Move.
Init ==
    /\ \E mode \in Modes :
          monster = [state |-> "IDLE", mode |-> mode, wait |-> FALSE, target |-> NoTarget,
                     isDie |-> FALSE, rested |-> TRUE, reloaded |-> TRUE]
    /\ news = <<>> /\ told = "IDLE" /\ struck = FALSE
    /\ status \in [Players -> {"outside", "present"}] /\ dead = {}

(***************************************************************************)
(* What the methods do: operators on a record of the Monster m and the     *)
(* news it queues.                                                         *)
(***************************************************************************)
Now == [m |-> monster, news |-> news]

\* DoAsync(&Room::HandleMonsterState); the fault forgets it.
Unsaid(queue, state) == queue
Said(queue, state) == Append(queue, state)

\* SetState: who leaves ATTACK patrols from then on.
SetState(at, state) ==
    IF at.m.state = state THEN at
    ELSE [m |-> [at.m EXCEPT !.state = state,
                             !.mode = IF at.m.state = "ATTACK" THEN "Patrol" ELSE @],
          news |-> Said(at.news, state)]

\* _target.lock()
Target(m) == IF m.target \in Existing THEN m.target ELSE NoTarget

\* Update: a target that is dead is given up; the fault keeps it.
KeepTarget(at) == SetState(at, "IDLE")
GiveUp(at) == [SetState(at, "IDLE") EXCEPT !.m.target = NoTarget]
CheckTarget(at) == IF Target(at.m) \in dead THEN GiveUp(at) ELSE at

\* SetTarget for each player who is alive: the nearest of them and of the target
\* there was.
Candidates(m) ==
    LET targets == (Present \ dead) \cup ({Target(m)} \ {NoTarget})
    IN IF targets = {} THEN {NoTarget} ELSE targets

\* What the place of the agent in the crowd, the targets and the map make of
\* them: whether a target is nearer than ATTACK_DISTANCE (GetAgentPos), whether
\* it can be shot at (IsTargetInSight), and whether the Monster has come to where
\* it goes (IsAgentArrived).
InReach(target) == IF target = NoTarget THEN {FALSE} ELSE BOOLEAN
IsTargetInSight == BOOLEAN
IsAgentArrived == BOOLEAN

\* UpdateIdle; near is what the distance to the target says.
UpdateIdle(at, near) ==
    CASE near -> SetState(at, "ATTACK")
      [] ~near /\ at.m.wait /\ ~at.m.rested -> at
      [] OTHER -> SetState([at EXCEPT !.m.wait = FALSE], "MOVE")

\* UpdateMove: a Monster that arrives rests, or attacks if it was rushing.
UpdateMove(at, near, arrived) ==
    CASE near -> SetState(at, "ATTACK")
      [] ~near /\ ~arrived -> at
      [] ~near /\ arrived /\ at.m.mode = "Patrol" ->
            SetState([at EXCEPT !.m.wait = TRUE, !.m.rested = FALSE], "IDLE")
      [] OTHER -> SetState(at, "ATTACK")

\* UpdateAttack: without a target the Monster idles; else it shoots if it sees.
UpdateAttack(at, sees) ==
    LET fired == [at EXCEPT !.m.reloaded = FALSE]
    IN CASE ~at.m.reloaded -> at
         [] at.m.reloaded /\ Target(at.m) = NoTarget -> SetState(fired, "IDLE")
         [] at.m.reloaded /\ Target(at.m) # NoTarget /\ sees ->
               [fired EXCEPT !.news = Append(@, "attack")]
         [] OTHER -> fired

\* The switch of Update.
UpdateState(at, near, arrived, sees) ==
    CASE at.m.state = "IDLE" -> UpdateIdle(at, near)
      [] at.m.state = "MOVE" -> UpdateMove(at, near, arrived)
      [] at.m.state = "ATTACK" -> UpdateAttack(at, sees)
      [] OTHER -> at

\* Object::TakeDamage, which leaves the dead alone, then the Monster's.
Dies(m, kills) == m.isDie \/ kills

TakeDamage(at, kills) ==
    LET hit == [at EXCEPT !.m.isDie = Dies(at.m, kills)]
    IN SetState(hit, IF hit.m.isDie THEN "DIE" ELSE "ATTACK")

(***************************************************************************)
(* The jobs of the Room, and time.                                         *)
(***************************************************************************)
Becomes(at) == monster' = at.m /\ news' = at.news

\* Update stops for a dead Monster; the fault goes on.
Always == TRUE
Living == monster.state # "DIE"

\* UpdateRoom: Update.
Update ==
    /\ Living /\ Len(news) < MaxNews
    /\ LET checked == CheckTarget(Now)
       IN \E target \in Candidates(checked.m), arrived \in IsAgentArrived, sees \in IsTargetInSight :
             \E near \in InReach(target) :
                Becomes(UpdateState([checked EXCEPT !.m.target = target], near, arrived, sees))
    /\ UNCHANGED <<told, struck, status, dead>>

\* HandleHit on the Monster: TakeDamage, then S_HIT, whether it was alive or not.
HitMonster ==
    /\ Len(news) < MaxNews
    /\ \E kills \in BOOLEAN : Becomes(TakeDamage(Now, kills))
    /\ struck' = TRUE
    /\ UNCHANGED <<told, status, dead>>

\* HandleHit on a player.
HitPlayer(p) ==
    /\ p \in Present
    /\ dead' = dead \cup {p}
    /\ UNCHANGED <<monster, news, told, struck, status>>

\* HandleMonsterState and HandleServerAttack: Broadcast.
Tell ==
    /\ news # <<>>
    /\ told' = Head(news) /\ news' = Tail(news) /\ struck' = FALSE
    /\ UNCHANGED <<monster, status, dead>>

\* EnterRoom; HandleLeavePlayer; the end of the Session of one who has left.
PlayerGoes(p, from, to) ==
    /\ status[p] = from
    /\ status' = [status EXCEPT ![p] = to]
    /\ UNCHANGED <<monster, news, told, struck, dead>>

\* WAIT_TIME has passed; ATTACK_TICK has passed.
Rest ==
    /\ ~monster.rested
    /\ monster' = [monster EXCEPT !.rested = TRUE]
    /\ UNCHANGED <<news, told, struck, status, dead>>

Reload ==
    /\ ~monster.reloaded
    /\ monster' = [monster EXCEPT !.reloaded = TRUE]
    /\ UNCHANGED <<news, told, struck, status, dead>>

Next == \/ Update \/ HitMonster \/ Tell \/ Rest \/ Reload
        \/ \E p \in Players : \/ HitPlayer(p)
                             \/ PlayerGoes(p, "outside", "present")
                             \/ PlayerGoes(p, "present", "left")
                             \/ PlayerGoes(p, "left", "destroyed")

Spec == Init /\ [][Next]_vars

\* The Room goes on updating (the heartbeat), its queued jobs run, time passes.
LiveSpec == /\ Spec
            /\ WF_vars(Update) /\ WF_vars(Tell) /\ WF_vars(Rest) /\ WF_vars(Reload)

-----------------------------------------------------------------------------

States == {"IDLE", "MOVE", "ATTACK", "DIE"}

\* The variables have their types.
TypeOK ==
    /\ monster \in [state : States, mode : {"Patrol", "Rush"}, wait : BOOLEAN,
                    target : Players \cup {NoTarget}, isDie : BOOLEAN,
                    rested : BOOLEAN, reloaded : BOOLEAN]
    /\ news \in Seq(States \cup {"attack"})
    /\ told \in States \cup {"attack"}
    /\ struck \in BOOLEAN
    /\ status \in [Players -> {"outside", "present", "left", "destroyed"}]
    /\ dead \subseteq Players

\* What the clients were told last of its state and its attacks, and will be, in
\* order; and the same with the hits among it.
Reports == <<told>> \o news
Story == IF struck THEN <<told, "hit">> \o news ELSE Reports

\* The variables have their types, and what the clients are told ends with what
\* is so: the last state they are told is the Monster's, and after it come only
\* attacks of an attacking Monster.
StoryIsTrue ==
    /\ TypeOK
    /\ LET last == Reports[Len(Reports)]
       IN \/ last = monster.state
          \/ last = "attack" /\ monster.state = "ATTACK"

\* A Monster is in DIE exactly when it is dead, once and for good: whatever was
\* queued when it died, no state and no attack of it follows its death in the
\* story; only hits do, which are told of the dead as of the living.
DeathIsLast ==
    /\ monster.isDie <=> monster.state = "DIE"
    /\ \A i, k \in DOMAIN Story : Story[i] = "DIE" /\ k > i => Story[k] = "hit"

\* When there is nobody left to fight, all who exist being dead, and the hits
\* have ended, a Monster does not attack for ever: it forgets the target that
\* died, and one that rushed or was hit finds no other.
CalmsDown ==
    (<>[](Existing \subseteq dead) /\ ~[]<><<HitMonster>>_vars)
        => <>[](monster.state # "ATTACK")
=============================================================================
