----------------------------- MODULE MonsterProofs -----------------------------
(***************************************************************************)
(* Theorems about Monster, for any set of players, any modes of the map    *)
(* and any bound on the news that waits.                                   *)
(***************************************************************************)
EXTENDS Monster, SequenceTheorems, TLAPS

Kinds == States \cup {"attack"}
Monsters == [state : States, mode : {"Patrol", "Rush"}, wait : BOOLEAN,
             target : Players \cup {NoTarget}, isDie : BOOLEAN,
             rested : BOOLEAN, reloaded : BOOLEAN]
Works == [m : Monsters, news : Seq(Kinds)]

\* The end of what was told, and is queued after it; who tells of a death there
\* says no more.
LastOf(was, queue) == IF queue = <<>> THEN was ELSE queue[Len(queue)]
EndsWith(was, queue, state) == \/ LastOf(was, queue) = state
                               \/ LastOf(was, queue) = "attack" /\ state = "ATTACK"
DeathEnds(was, queue) == /\ was = "DIE" => queue = <<>>
                         /\ \A i \in DOMAIN queue : queue[i] = "DIE" => i = Len(queue)

\* What the methods keep, of a Monster and its news ...
Right(was, work) == /\ work \in Works
                    /\ EndsWith(was, work.news, work.m.state)
                    /\ DeathEnds(was, work.news)
\* ... and of one that lives.
RightAlive(was, work) == Right(was, work) /\ work.m.state # "DIE" /\ ~work.m.isDie

\* The invariant: the Monster and its news are right, and it is dead in DIE only.
Inv == /\ told \in Kinds
       /\ struck \in BOOLEAN
       /\ status \in [Players -> {"outside", "present", "left", "destroyed"}]
       /\ dead \subseteq Players
       /\ Right(told, Now)
       /\ monster.isDie <=> monster.state = "DIE"

\* A queue of news is a sequence.
LEMMA NewsIsSequence ==
    ASSUME NEW queue \in Seq(Kinds)
    PROVE  /\ Len(queue) \in Nat /\ DOMAIN queue = 1..Len(queue)
           /\ queue # <<>> => Len(queue) >= 1
           /\ \A i \in 1..Len(queue) : queue[i] \in Kinds
BY LenProperties, EmptySeq, ElementOfSeq

\* Reports and Story put the last news told, and the hits, before those that wait:
\* Inv says of them what the invariants of Monster say.
LEMMA StoryOfNews ==
    ASSUME Inv
    PROVE  StoryIsTrue /\ DeathIsLast
<1>1. told \in Kinds /\ news \in Seq(Kinds) /\ monster \in Monsters
  BY DEF Inv, Right, Works, Now
<1>2. <<told>> \in Seq(Kinds) /\ Len(<<told>>) = 1 /\ <<told>>[1] = told
  BY <1>1
<1>3. /\ Len(news) \in Nat /\ DOMAIN news = 1..Len(news) /\ (news # <<>> => Len(news) >= 1)
      /\ Len(<<>>) = 0
  BY <1>1, NewsIsSequence
<1>4. /\ Reports \in Seq(Kinds) /\ Len(Reports) = Len(news) + 1
      /\ \A i \in 1..(Len(news) + 1) : Reports[i] = IF i <= 1 THEN told ELSE news[i - 1]
  BY <1>1, <1>2, ConcatProperties DEF Reports
<1>5. DOMAIN Reports = 1..(Len(news) + 1)
  BY <1>4, LenProperties
<1>6. Reports[Len(Reports)] = LastOf(told, news)
  <2>1. CASE news = <<>>
    BY <1>3, <1>4, <2>1 DEF LastOf
  <2>2. CASE news # <<>>
    <3>1. Len(news) + 1 \in 1..(Len(news) + 1) /\ ~(Len(news) + 1 <= 1) /\ (Len(news) + 1) - 1 = Len(news)
      BY <1>3, <2>2
    <3>. QED
      BY <1>4, <2>2, <3>1 DEF LastOf
  <2>. QED
    BY <2>1, <2>2
<1>7. DeathEnds(told, news)
  BY DEF Inv, Right, Now
<1>8. ASSUME ~struck, NEW i \in DOMAIN Story, NEW k \in DOMAIN Story, Story[i] = "DIE", k > i
      PROVE  Story[k] = "hit"
  <2>1. /\ Story = Reports /\ i \in 1..(Len(news) + 1) /\ k \in 1..(Len(news) + 1)
        /\ Reports[i] = IF i <= 1 THEN told ELSE news[i - 1]
    BY <1>4, <1>5, <1>8 DEF Story
  <2>2. CASE i = 1
    BY <1>3, <1>7, <1>8, <2>1, <2>2 DEF DeathEnds
  <2>3. CASE i # 1
    <3>1. i - 1 \in DOMAIN news /\ news[i - 1] = "DIE"
      BY <1>3, <1>8, <2>1, <2>3
    <3>2. i - 1 = Len(news)
      BY <1>7, <3>1 DEF DeathEnds
    <3>. QED
      BY <1>3, <1>8, <2>1, <3>2
  <2>. QED
    BY <2>2, <2>3
<1>9. ASSUME struck, NEW i \in DOMAIN Story, NEW k \in DOMAIN Story, Story[i] = "DIE", k > i
      PROVE  Story[k] = "hit"
  <2> DEFINE All == Kinds \cup {"hit"}
             head == <<told, "hit">>
  <2>1. /\ head \in Seq(All) /\ Len(head) = 2 /\ head[1] = told /\ head[2] = "hit"
        /\ news \in Seq(All)
    BY <1>1
  <2>2. Story = head \o news
    BY <1>9 DEF Story
  <2> HIDE DEF head, All
  <2>3. /\ head \o news \in Seq(All) /\ Len(head \o news) = Len(head) + Len(news)
        /\ \A n \in 1..(Len(head) + Len(news)) :
              (head \o news)[n] = IF n <= Len(head) THEN head[n] ELSE news[n - Len(head)]
    BY ONLY <2>1, ConcatProperties
  <2>4. DOMAIN Story = 1..(2 + Len(news))
    BY <2>1, <2>2, <2>3, LenProperties
  <2>5. /\ i \in 1..(2 + Len(news)) /\ k \in 1..(2 + Len(news))
        /\ Story[i] = IF i <= 2 THEN head[i] ELSE news[i - 2]
        /\ Story[k] = IF k <= 2 THEN head[k] ELSE news[k - 2]
    BY <1>9, <2>1, <2>2, <2>3, <2>4
  <2>6. CASE i = 1
    <3>1. news = <<>>
      BY <1>7, <1>9, <2>1, <2>5, <2>6 DEF DeathEnds
    <3>2. k = 2
      BY <1>3, <1>9, <2>5, <2>6, <3>1
    <3>. QED
      BY <2>1, <2>5, <3>2
  <2>7. i # 2
    BY <1>9, <2>1, <2>5
  <2>8. CASE i > 2
    <3>1. i - 2 \in DOMAIN news /\ news[i - 2] = "DIE"
      BY <1>3, <1>9, <2>5, <2>8
    <3>2. i - 2 = Len(news)
      BY <1>7, <3>1 DEF DeathEnds
    <3>. QED
      BY <1>3, <1>9, <2>5, <3>2
  <2>. QED
    BY <1>3, <2>5, <2>6, <2>7, <2>8
<1>10. TypeOK
  BY <1>1 DEF Inv, TypeOK, Kinds, Monsters
<1>11. StoryIsTrue
  BY <1>6, <1>10 DEF StoryIsTrue, Inv, Right, EndsWith, Now
<1>12. \A i, k \in DOMAIN Story : Story[i] = "DIE" /\ k > i => Story[k] = "hit"
  BY <1>8, <1>9
<1>. QED
  BY <1>11, <1>12 DEF DeathIsLast, Inv

-----------------------------------------------------------------------------
\* News queued after what does not tell of a death is right if it says what is so.
LEMMA NewsAppended ==
    ASSUME NEW was \in Kinds, NEW queue \in Seq(Kinds), NEW kind \in Kinds, NEW state \in States,
           DeathEnds(was, queue), LastOf(was, queue) # "DIE",
           kind = state \/ (kind = "attack" /\ state = "ATTACK")
    PROVE  /\ Append(queue, kind) \in Seq(Kinds)
           /\ EndsWith(was, Append(queue, kind), state)
           /\ DeathEnds(was, Append(queue, kind))
<1> DEFINE a == Append(queue, kind)
<1>1. /\ a \in Seq(Kinds) /\ a # <<>> /\ Len(a) = Len(queue) + 1
      /\ \A i \in 1..Len(queue) : a[i] = queue[i]
      /\ a[Len(queue) + 1] = kind
  BY AppendProperties
<1>2. /\ Len(queue) \in Nat /\ DOMAIN queue = 1..Len(queue) /\ DOMAIN a = 1..Len(a)
      /\ queue # <<>> => Len(queue) >= 1
  BY <1>1, NewsIsSequence
<1> HIDE DEF a
<1>3. EndsWith(was, a, state)
  BY <1>1 DEF EndsWith, LastOf
<1>4. was # "DIE" /\ \A i \in DOMAIN queue : queue[i] # "DIE"
  BY <1>2 DEF DeathEnds, LastOf
<1>5. \A i \in DOMAIN a : a[i] = "DIE" => i = Len(a)
  BY <1>1, <1>2, <1>4
<1>6. DeathEnds(was, a)
  BY <1>4, <1>5 DEF DeathEnds
<1>. QED
  BY <1>1, <1>3, <1>6 DEF a

\* SetState of a Monster that is not in DIE.
LEMMA SetStateKeeps ==
    ASSUME NEW was \in Kinds, NEW work, Right(was, work), work.m.state # "DIE", NEW state \in States
    PROVE  /\ Right(was, SetState(work, state))
           /\ SetState(work, state).m.state = state
           /\ SetState(work, state).m.isDie = work.m.isDie
           /\ SetState(work, state).m.target = work.m.target
<1>1. /\ work \in Works /\ work.m \in Monsters /\ work.news \in Seq(Kinds)
      /\ EndsWith(was, work.news, work.m.state) /\ DeathEnds(was, work.news)
  BY DEF Right, Works
<1>2. CASE work.m.state = state
  BY <1>2 DEF SetState
<1>3. CASE work.m.state # state
  <2>1. PICK m \in Monsters : /\ m.state = state /\ m.isDie = work.m.isDie /\ m.target = work.m.target
                              /\ SetState(work, state) = [m |-> m, news |-> Append(work.news, state)]
    <3> DEFINE mode == IF work.m.state = "ATTACK" THEN "Patrol" ELSE work.m.mode
               m == [work.m EXCEPT !.state = state, !.mode = mode]
    <3>1. mode \in {"Patrol", "Rush"}
      BY <1>1 DEF Monsters
    <3>2. SetState(work, state) = [m |-> m, news |-> Append(work.news, state)]
      BY <1>3 DEF SetState, Said
    <3> HIDE DEF mode
    <3>3. m \in Monsters /\ m.state = state /\ m.isDie = work.m.isDie /\ m.target = work.m.target
      BY <1>1, <3>1 DEF Monsters
    <3> HIDE DEF m
    <3>. QED
      BY <3>2, <3>3
  <2>2. LastOf(was, work.news) # "DIE"
    BY <1>1 DEF EndsWith
  <2>3. /\ Append(work.news, state) \in Seq(Kinds)
        /\ EndsWith(was, Append(work.news, state), state)
        /\ DeathEnds(was, Append(work.news, state))
    <3>1. state \in Kinds
      BY DEF Kinds
    <3>. QED
      BY <1>1, <2>2, <3>1, NewsAppended
  <2>4. /\ SetState(work, state) \in Works
        /\ SetState(work, state).m = m /\ SetState(work, state).news = Append(work.news, state)
    BY <2>1, <2>3 DEF Works
  <2>. QED
    BY <2>1, <2>3, <2>4 DEF Right
<1>. QED
  BY <1>2, <1>3

\* A change of another field of the Monster.
LEMMA SameState ==
    ASSUME NEW was \in Kinds, NEW work, RightAlive(was, work), NEW after \in Works,
           after.news = work.news, after.m.state = work.m.state, after.m.isDie = work.m.isDie
    PROVE  RightAlive(was, after)
BY DEF RightAlive, Right

\* What lives goes on living in any of the three states of UpdateState.
LEMMA SetStateAlive ==
    ASSUME NEW was \in Kinds, NEW work, RightAlive(was, work), NEW state \in {"IDLE", "MOVE", "ATTACK"}
    PROVE  RightAlive(was, SetState(work, state))
BY SetStateKeeps DEF RightAlive, States

\* Update of a living Monster is right, whatever its target, its place and its sight.
LEMMA UpdateAlive ==
    ASSUME NEW was \in Kinds, NEW work, RightAlive(was, work),
           NEW near \in BOOLEAN, NEW arrived \in BOOLEAN, NEW sees \in BOOLEAN
    PROVE  RightAlive(was, UpdateState(work, near, arrived, sees))
<1>1. work \in Works /\ work.m \in Monsters /\ work.news \in Seq(Kinds)
  BY DEF RightAlive, Right, Works
<1>2. CASE work.m.state = "IDLE"
  <2>1. UpdateState(work, near, arrived, sees) = UpdateIdle(work, near)
    BY <1>2 DEF UpdateState
  <2>2. [work EXCEPT !.m.wait = FALSE] \in Works /\ RightAlive(was, [work EXCEPT !.m.wait = FALSE])
    <3>1. [work EXCEPT !.m.wait = FALSE] \in Works
      BY <1>1 DEF Works, Monsters
    <3>. QED
      BY <1>1, <3>1, SameState DEF Works, Monsters
  <2>3. RightAlive(was, SetState(work, "ATTACK"))
    BY SetStateAlive
  <2>4. RightAlive(was, SetState([work EXCEPT !.m.wait = FALSE], "MOVE"))
    BY <2>2, SetStateAlive
  <2>. QED
    BY <2>1, <2>3, <2>4 DEF UpdateIdle
<1>3. CASE work.m.state = "MOVE"
  <2>1. UpdateState(work, near, arrived, sees) = UpdateMove(work, near, arrived)
    BY <1>3 DEF UpdateState
  <2>2. RightAlive(was, [work EXCEPT !.m.wait = TRUE, !.m.rested = FALSE])
    <3>1. [work EXCEPT !.m.wait = TRUE, !.m.rested = FALSE] \in Works
      BY <1>1 DEF Works, Monsters
    <3>. QED
      BY <1>1, <3>1, SameState DEF Works, Monsters
  <2>3. RightAlive(was, SetState(work, "ATTACK"))
    BY SetStateAlive
  <2>4. RightAlive(was, SetState([work EXCEPT !.m.wait = TRUE, !.m.rested = FALSE], "IDLE"))
    BY <2>2, SetStateAlive
  <2>. QED
    BY <2>1, <2>3, <2>4 DEF UpdateMove
<1>4. CASE work.m.state = "ATTACK"
  <2> DEFINE fired == [work EXCEPT !.m.reloaded = FALSE]
             shot == [fired EXCEPT !.news = Append(@, "attack")]
  <2>1. UpdateState(work, near, arrived, sees) = UpdateAttack(work, sees)
    BY <1>4 DEF UpdateState
  <2>2. /\ fired \in Works /\ fired.m.state = "ATTACK" /\ fired.news = work.news
        /\ fired.m.isDie = work.m.isDie /\ fired.m \in Monsters
    BY <1>1, <1>4 DEF Works, Monsters
  <2> HIDE DEF fired
  <2>3. RightAlive(was, fired)
    BY <1>4, <2>2, SameState
  <2>4. RightAlive(was, SetState(fired, "IDLE"))
    BY <2>3, SetStateAlive
  <2>5. RightAlive(was, shot)
    <3>1. LastOf(was, fired.news) # "DIE" /\ DeathEnds(was, fired.news)
      BY <2>2, <2>3 DEF RightAlive, Right, EndsWith
    <3>2. /\ Append(fired.news, "attack") \in Seq(Kinds)
          /\ EndsWith(was, Append(fired.news, "attack"), "ATTACK")
          /\ DeathEnds(was, Append(fired.news, "attack"))
      BY <1>1, <2>2, <3>1, NewsAppended DEF Kinds, States
    <3>3. shot \in Works /\ shot.m = fired.m /\ shot.news = Append(fired.news, "attack")
      BY <2>2, <3>2 DEF Works
    <3>. QED
      BY <2>2, <2>3, <3>2, <3>3 DEF RightAlive, Right
  <2>6. UpdateAttack(work, sees) \in {work, fired, SetState(fired, "IDLE"), shot}
    BY DEF UpdateAttack, fired
  <2>. QED
    BY <2>1, <2>3, <2>4, <2>5, <2>6
<1>5. work.m.state \in {"IDLE", "MOVE", "ATTACK"}
  BY <1>1 DEF RightAlive, Monsters, States
<1>. QED
  BY <1>2, <1>3, <1>4, <1>5

-----------------------------------------------------------------------------
\* The invariant holds at the start.
LEMMA InitInv == Init => Inv
<1> SUFFICES ASSUME Init
             PROVE  Inv
  OBVIOUS
<1>1. /\ monster \in Monsters /\ monster.state = "IDLE" /\ ~monster.isDie
      /\ news = <<>> /\ told = "IDLE" /\ struck = FALSE
  BY ModesOfMaps DEF Init, Monsters, States
<1>2. Now \in Works /\ Now.m = monster /\ Now.news = <<>>
  BY <1>1, EmptySeq DEF Now, Works
<1>3. EndsWith(told, <<>>, monster.state) /\ DeathEnds(told, <<>>)
  BY <1>1, EmptySeq DEF EndsWith, LastOf, DeathEnds
<1>. QED
  BY <1>1, <1>2, <1>3 DEF Init, Inv, Right, Kinds, States

\* Update is of a living Monster, and lets it live.
LEMMA UpdateKeeps ==
    ASSUME Inv, Update
    PROVE  Inv'
<1> USE DEF Inv
<1>1. RightAlive(told, Now) /\ UNCHANGED <<told, struck, status, dead>>
  BY DEF Update, Living, RightAlive, Now
<1> DEFINE checked == CheckTarget(Now)
<1>2. RightAlive(told, checked)
  <2>1. RightAlive(told, SetState(Now, "IDLE"))
    BY <1>1, SetStateAlive
  <2>2. RightAlive(told, GiveUp(Now))
    <3> DEFINE s == SetState(Now, "IDLE")
    <3>1. s \in Works /\ s.m \in Monsters
      BY <2>1 DEF RightAlive, Right, Works
    <3>2. GiveUp(Now) = [s EXCEPT !.m.target = NoTarget]
      BY DEF GiveUp
    <3> HIDE DEF s
    <3>3. /\ GiveUp(Now) \in Works /\ GiveUp(Now).news = s.news
          /\ GiveUp(Now).m.state = s.m.state /\ GiveUp(Now).m.isDie = s.m.isDie
      BY <3>1, <3>2 DEF Works, Monsters
    <3>. QED
      BY <2>1, <3>3, SameState DEF s
  <2>. QED
    BY <1>1, <2>2 DEF CheckTarget
<1>3. PICK target \in Candidates(checked.m), arrived \in BOOLEAN, sees \in BOOLEAN, near \in BOOLEAN :
         Becomes(UpdateState([checked EXCEPT !.m.target = target], near, arrived, sees))
  BY DEF Update, IsAgentArrived, IsTargetInSight, InReach
<1>4. target \in Players \cup {NoTarget}
  <2>1. Target(checked.m) \in Players \cup {NoTarget}
    BY DEF Target, Existing
  <2>. QED
    BY <2>1 DEF Candidates, Present
<1> HIDE DEF checked
<1> DEFINE aimed == [checked EXCEPT !.m.target = target]
           after == UpdateState(aimed, near, arrived, sees)
<1>5. RightAlive(told, aimed)
  <2>1. checked \in Works /\ checked.m \in Monsters
    BY <1>2 DEF RightAlive, Right, Works
  <2>2. /\ aimed \in Works /\ aimed.news = checked.news
        /\ aimed.m.state = checked.m.state /\ aimed.m.isDie = checked.m.isDie
    BY <1>4, <2>1 DEF Works, Monsters
  <2>. QED
    BY <1>2, <2>2, SameState
<1> HIDE DEF aimed
<1>6. RightAlive(told, after)
  BY <1>5, UpdateAlive
<1>7. monster' = after.m /\ news' = after.news
  BY <1>3 DEF Becomes, aimed
<1>8. after \in Works
  BY <1>6 DEF RightAlive, Right
<1> HIDE DEF after
<1>9. Now' = after
  BY <1>7, <1>8 DEF Now, Works
<1>. QED
  BY <1>1, <1>6, <1>7, <1>9 DEF RightAlive

\* A hit leaves a dead Monster as it is, and kills or angers a living one.
LEMMA HitKeeps ==
    ASSUME Inv, HitMonster
    PROVE  Inv'
<1> USE DEF Inv
<1>1. PICK kills \in BOOLEAN : Becomes(TakeDamage(Now, kills))
  BY DEF HitMonster
<1>2. UNCHANGED <<told, status, dead>> /\ struck' \in BOOLEAN
  BY DEF HitMonster
<1>3. /\ Now \in Works /\ Now.m = monster /\ Now.news = news /\ monster \in Monsters /\ news \in Seq(Kinds)
      /\ EndsWith(told, news, monster.state) /\ DeathEnds(told, news)
  BY DEF Right, Works, Now
<1> DEFINE hit == [Now EXCEPT !.m.isDie = Dies(Now.m, kills)]
           state == IF hit.m.isDie THEN "DIE" ELSE "ATTACK"
           after == SetState(hit, state)
<1>4. /\ hit \in Works /\ hit.news = news /\ hit.m.state = monster.state
      /\ hit.m.isDie = (monster.isDie \/ kills)
  <2>1. (monster.isDie \/ kills) \in BOOLEAN
    OBVIOUS
  <2>. QED
    BY <1>3, <2>1 DEF Works, Monsters, Dies
<1>5. monster' = after.m /\ news' = after.news
  BY <1>1 DEF Becomes, TakeDamage
<1> HIDE DEF hit
<1>6. Right(told, hit)
  BY <1>3, <1>4 DEF Right
<1>7. Right(told, after) /\ after.m.state = state /\ after.m.isDie = hit.m.isDie
  <2>1. CASE monster.state = "DIE"
    <3>1. monster.isDie /\ hit.m.isDie
      BY <1>4, <2>1
    <3>2. after = hit
      BY <1>4, <2>1, <3>1 DEF SetState
    <3>. QED
      BY <1>4, <1>6, <2>1, <3>1, <3>2
  <2>2. CASE monster.state # "DIE"
    <3>1. state \in States
      BY DEF States
    <3>. QED
      BY <1>4, <1>6, <2>2, <3>1, SetStateKeeps
  <2>. QED
    BY <2>1, <2>2
<1> HIDE DEF after
<1>8. Now' = after
  BY <1>5, <1>7 DEF Now, Right, Works
<1>9. monster'.isDie <=> monster'.state = "DIE"
  BY <1>5, <1>7
<1>. QED
  BY <1>2, <1>7, <1>8, <1>9

\* A job that tells the news.
LEMMA TellKeeps ==
    ASSUME Inv, Tell
    PROVE  Inv'
<1> USE DEF Inv
<1>1. /\ news # <<>> /\ told' = Head(news) /\ news' = Tail(news)
      /\ struck' \in BOOLEAN /\ UNCHANGED <<monster, status, dead>>
  BY DEF Tell
<1>2. /\ monster \in Monsters /\ news \in Seq(Kinds)
      /\ EndsWith(told, news, monster.state) /\ DeathEnds(told, news)
  BY DEF Right, Works, Now
<1>3. /\ Len(news) \in Nat /\ Len(news) >= 1 /\ DOMAIN news = 1..Len(news)
      /\ \A i \in 1..Len(news) : news[i] \in Kinds
  BY <1>1, <1>2, NewsIsSequence
<1>4. /\ news' \in Seq(Kinds) /\ Len(news') = Len(news) - 1
      /\ \A i \in 1..Len(news') : news'[i] = news[i + 1]
  BY <1>1, <1>2, HeadTailProperties
<1>5. DOMAIN news' = 1..Len(news') /\ (news' # <<>> => Len(news') >= 1) /\ (news' = <<>> => Len(news') = 0)
  BY <1>4, NewsIsSequence
<1>6. told' = news[1] /\ told' \in Kinds
  BY <1>1, <1>3
<1>7. LastOf(told', news') = LastOf(told, news)
  <2>1. CASE news' = <<>>
    BY <1>1, <1>3, <1>4, <1>5, <1>6, <2>1 DEF LastOf
  <2>2. CASE news' # <<>>
    <3>1. Len(news') \in 1..Len(news') /\ Len(news') + 1 = Len(news)
      BY <1>3, <1>4, <1>5, <2>2
    <3>2. news'[Len(news')] = news[Len(news)]
      BY <1>4, <3>1
    <3>. QED
      BY <1>1, <2>2, <3>2 DEF LastOf
  <2>. QED
    BY <2>1, <2>2
<1>9. EndsWith(told', news', monster.state)
  BY <1>2, <1>7 DEF EndsWith
<1>10. DeathEnds(told', news')
  <2>1. 1 \in DOMAIN news /\ (news[1] = "DIE" => 1 = Len(news))
    BY <1>2, <1>3 DEF DeathEnds
  <2>2. ASSUME told' = "DIE"
        PROVE  news' = <<>>
    <3>1. Len(news) = 1
      BY <1>6, <2>1, <2>2
    <3>. QED
      BY <1>4, <1>5, <3>1
  <2>3. ASSUME NEW i \in DOMAIN news', news'[i] = "DIE"
        PROVE  i = Len(news')
    <3>1. i + 1 \in DOMAIN news /\ news[i + 1] = "DIE"
      BY <1>3, <1>4, <1>5, <2>3
    <3>2. i + 1 = Len(news)
      BY <1>2, <3>1 DEF DeathEnds
    <3>. QED
      BY <1>3, <1>4, <1>5, <3>2
  <2>. QED
    BY <2>2, <2>3 DEF DeathEnds
<1>11. Now' \in Works /\ Now'.m = monster /\ Now'.news = news'
  BY <1>1, <1>2, <1>4 DEF Now, Works
<1>. QED
  BY <1>1, <1>6, <1>9, <1>10, <1>11 DEF Right

\* The other steps leave the Monster's state and its news alone.
LEMMA OthersKeep ==
    ASSUME Inv,
           \/ Rest \/ Reload \/ UNCHANGED vars
           \/ \E p \in Players : HitPlayer(p) \/ PlayerGoes(p, "outside", "present")
                                 \/ PlayerGoes(p, "present", "left") \/ PlayerGoes(p, "left", "destroyed")
    PROVE  Inv'
<1> USE DEF Inv
<1>1. /\ monster \in Monsters /\ news \in Seq(Kinds)
      /\ EndsWith(told, news, monster.state) /\ DeathEnds(told, news)
  BY DEF Right, Works, Now
<1>2. UNCHANGED <<news, told, struck>>
  BY DEF Rest, Reload, vars, HitPlayer, PlayerGoes
<1>3. monster' \in Monsters /\ monster'.state = monster.state /\ monster'.isDie = monster.isDie
  BY <1>1 DEF Rest, Reload, vars, HitPlayer, PlayerGoes, Monsters
<1>4. /\ status' \in [Players -> {"outside", "present", "left", "destroyed"}]
      /\ dead' \subseteq Players
  BY DEF Rest, Reload, vars, HitPlayer, PlayerGoes, Present
<1>5. Now' \in Works /\ Now'.m = monster' /\ Now'.news = news'
  BY <1>1, <1>2, <1>3 DEF Now, Works
<1>6. Right(told, Now)'
  BY <1>1, <1>2, <1>3, <1>5 DEF Right
<1>. QED
  BY <1>2, <1>3, <1>4, <1>6

\* Every step preserves the invariant.
LEMMA NextKeeps == Inv /\ [Next]_vars => Inv'
BY UpdateKeeps, HitKeeps, TellKeeps, OthersKeep DEF Next

\* The invariant holds in every reachable state.
LEMMA Invariance == Spec => []Inv
BY InitInv, NextKeeps, PTL DEF Spec

\* Though every change is told by a job of its own, that runs later, what the
\* clients are told ends with the state the Monster is in.
THEOREM TheClientsKnow == Spec => []StoryIsTrue
<1>1. Inv => StoryIsTrue
  BY StoryOfNews
<1>. QED
  BY <1>1, Invariance, PTL

\* A Monster dies once and for good, and whatever was queued when it died, no state
\* and no attack of it is told afterwards: only hits are.
THEOREM NothingAfterDeath == Spec => []DeathIsLast
<1>1. Inv => DeathIsLast
  BY StoryOfNews
<1>. QED
  BY <1>1, Invariance, PTL
=============================================================================
