------------------------------- MODULE RoomProofs -------------------------------
(***************************************************************************)
(* Theorems about Room, for any Sessions, players, monsters and waves.     *)
(***************************************************************************)
EXTENDS Room, FiniteSetTheorems, SequenceTheorems, TLAPS

MonsterKinds == {"HandleServerMove", "HandleMonsterState"}
JobNames == {"EnterRoom", "EnterGame", "GameInit", "HandleLeavePlayer", "HandleMove", "HandleAttack",
             "HandleHit", "HandleInteract", "UpdateRoom", "StartWave", "SpawnMonster", "ClearStage"}
            \cup MonsterKinds
Jobs == {j \in [job : JobNames, who : Players \cup Monsters \cup {NoPlayer}, target : Players \cup {NoPlayer}] :
            j.job # "HandleMonsterState" => j.target = NoPlayer}

\* The jobs, and that no more objects are there than can be counted.
WellFormed == jobs \in Seq(Jobs) /\ IsFiniteSet(InRoom)

\* A player who is in the Room or was initialized has a Session; one who is to
\* enter was never there; only players leave, and only monsters make news.
Histories ==
    /\ \A p \in InRoom \cup inited : sessionOf[p] # NoSession
    /\ \A i \in DOMAIN jobs : jobs[i].job = "EnterRoom" => jobs[i].who \notin inited
    /\ \A i \in DOMAIN jobs : jobs[i].job = "HandleLeavePlayer" => jobs[i].who \in Players
    /\ \A i \in DOMAIN jobs : jobs[i].job \in MonsterKinds => jobs[i].who \in objects \cap Monsters
    /\ ~initialized => inited = {}

\* Who was initialized knows the monsters and the others who were.
Known == \A p \in inited \cap Broadcast(objects) : (objects \cap Monsters) \cup inited \subseteq knows[p]

\* The timers of the Hangar that are set and their jobs that wait.
WaveDue == (IF "wave" \in timers THEN 1 ELSE 0) + Queued("StartWave")
ClearDue == (IF "clear" \in timers THEN 1 ELSE 0) + Queued("ClearStage")

\* The monsters that came or are coming, and those that come with the map.
Come == Cardinality(objects \cap Monsters) + spawns + Queued("SpawnMonster")
FromMap == IF initialized THEN FirstMonsters ELSE 0

\* The timers of the Hangar are set once, at the second step; until the first of
\* them has done its work, there are only the monsters of the map.
Waves ==
    /\ WaveDue <= 1 /\ ClearDue <= 1
    /\ step < 2 => WaveDue = 0 /\ ClearDue = 0
    /\ step < 2 \/ WaveDue = 1 => Come <= FromMap
    /\ \E later \in {0} \cup {Wave[n] : n \in 1..step} : Come <= FromMap + later

\* The steps that are bounded by MaxStep, and the one that ClearStage adds.
Steps == step + Queued("HandleInteract") <= MaxStep + (IF step < 2 \/ ClearDue = 1 THEN 0 ELSE 1)

\* What every step preserves.
Inv == /\ Membership /\ WellFormed /\ Histories /\ EndsWithLastPlayer /\ Known
       /\ Waves /\ Steps

-----------------------------------------------------------------------------
\* The jobs of one kind in a queue.
Kind(q, what) == {i \in DOMAIN q : q[i].job = what}

\* They can be counted.
LEMMA KindIsFinite ==
    ASSUME NEW q \in Seq(Jobs), NEW what
    PROVE  IsFiniteSet(Kind(q, what)) /\ Cardinality(Kind(q, what)) \in Nat
<1>1. Len(q) \in Nat /\ DOMAIN q = 1..Len(q)
  BY LenProperties
<1>2. IsFiniteSet(DOMAIN q)
  BY <1>1, FS_Interval
<1>3. Kind(q, what) \in SUBSET (DOMAIN q)
  BY DEF Kind
<1>. QED
  BY <1>2, <1>3, FS_Subset, FS_CardinalityType

\* The queue r is q with one job more.
OneMore(q, r, j) == q \in Seq(Jobs) /\ j \in Jobs /\ r = Append(q, j)

\* DoAsync puts a job behind the others.
LEMMA JobAppended ==
    ASSUME NEW q, NEW r, NEW j, OneMore(q, r, j)
    PROVE  /\ r \in Seq(Jobs)
           /\ \A i \in DOMAIN r : (i \in DOMAIN q /\ r[i] = q[i]) \/ (i = Len(q) + 1 /\ r[i] = j)
           /\ \A i \in DOMAIN q : i \in DOMAIN r /\ r[i] = q[i]
           /\ Len(q) + 1 \in DOMAIN r /\ Len(q) + 1 \notin DOMAIN q /\ r[Len(q) + 1] = j
           /\ Cardinality(Kind(r, j.job)) = Cardinality(Kind(q, j.job)) + 1
<1>0. q \in Seq(Jobs) /\ j \in Jobs /\ r = Append(q, j)
  BY DEF OneMore
<1>1. Len(q) \in Nat /\ DOMAIN q = 1..Len(q)
  BY <1>0, LenProperties
<1>2. /\ r \in Seq(Jobs) /\ Len(r) = Len(q) + 1
      /\ \A i \in 1..Len(q) : r[i] = q[i]
      /\ r[Len(q) + 1] = j
  BY <1>0, AppendProperties
<1>3. DOMAIN r = 1..(Len(q) + 1)
  BY <1>2, LenProperties
<1>4. /\ \A i \in DOMAIN r : (i \in DOMAIN q /\ r[i] = q[i]) \/ (i = Len(q) + 1 /\ r[i] = j)
      /\ \A i \in DOMAIN q : i \in DOMAIN r /\ r[i] = q[i]
      /\ Len(q) + 1 \in DOMAIN r /\ Len(q) + 1 \notin DOMAIN q
  BY <1>1, <1>2, <1>3
<1>5. Kind(r, j.job) = Kind(q, j.job) \cup {Len(q) + 1}
  BY <1>2, <1>4 DEF Kind
<1>6. Len(q) + 1 \notin Kind(q, j.job)
  BY <1>4 DEF Kind
<1>7. Cardinality(Kind(r, j.job)) = Cardinality(Kind(q, j.job)) + 1
  BY <1>0, <1>5, <1>6, KindIsFinite, FS_AddElement
<1>. QED
  BY <1>2, <1>4, <1>7

\* It is one of its kind.
LEMMA OthersUntouched ==
    ASSUME NEW q, NEW r, NEW j, OneMore(q, r, j), NEW what, what # j.job
    PROVE  Cardinality(Kind(r, what)) = Cardinality(Kind(q, what))
<1>1. /\ \A i \in DOMAIN r : (i \in DOMAIN q /\ r[i] = q[i]) \/ (i = Len(q) + 1 /\ r[i] = j)
      /\ \A i \in DOMAIN q : i \in DOMAIN r /\ r[i] = q[i]
  BY JobAppended
<1>2. Kind(r, what) = Kind(q, what)
  BY <1>1 DEF Kind
<1>. QED
  BY <1>2

\* The first job is taken away.
LEMMA JobTaken ==
    ASSUME NEW q \in Seq(Jobs), q # <<>>
    PROVE  /\ Tail(q) \in Seq(Jobs) /\ Head(q) \in Jobs
           /\ 1 \in DOMAIN q /\ q[1] = Head(q)
           /\ \A i \in DOMAIN Tail(q) : i + 1 \in DOMAIN q \ {1} /\ Tail(q)[i] = q[i + 1]
           /\ \A k \in DOMAIN q \ {1} : k - 1 \in DOMAIN Tail(q) /\ Tail(q)[k - 1] = q[k]
           /\ DOMAIN Tail(q) \subseteq Int
           /\ Cardinality(Kind(Tail(q), Head(q).job)) = Cardinality(Kind(q, Head(q).job)) - 1
           /\ \A what \in JobNames \ {Head(q).job} : Cardinality(Kind(Tail(q), what)) = Cardinality(Kind(q, what))
<1>1. /\ Len(q) \in Nat /\ Len(q) >= 1 /\ DOMAIN q = 1..Len(q)
      /\ Head(q) = q[1] /\ Head(q) \in Jobs
      /\ Tail(q) \in Seq(Jobs) /\ Len(Tail(q)) = Len(q) - 1
      /\ \A i \in 1..Len(Tail(q)) : Tail(q)[i] = q[i + 1]
  BY LenProperties, EmptySeq, HeadTailProperties
<1>2. DOMAIN Tail(q) = 1..(Len(q) - 1)
  BY <1>1, LenProperties
<1>3. /\ 1 \in DOMAIN q /\ DOMAIN Tail(q) \subseteq Int
      /\ \A i \in DOMAIN Tail(q) : i + 1 \in DOMAIN q \ {1} /\ Tail(q)[i] = q[i + 1]
  BY <1>1, <1>2
<1>4. ASSUME NEW k \in DOMAIN q \ {1}
      PROVE  k - 1 \in DOMAIN Tail(q) /\ Tail(q)[k - 1] = q[k]
  <2>1. k - 1 \in 1..(Len(q) - 1) /\ (k - 1) + 1 = k
    BY <1>1
  <2>. QED
    BY <1>2, <1>3, <2>1
<1>5. ASSUME NEW what
      PROVE  Cardinality(Kind(Tail(q), what)) = Cardinality(Kind(q, what) \ {1})
  <2> DEFINE S == Kind(Tail(q), what)
             T == Kind(q, what) \ {1}
             f == [i \in S |-> i + 1]
  <2>1. \A i \in S : i \in Int /\ f[i] = i + 1 /\ f[i] \in T
    BY <1>3 DEF Kind
  <2>2. f \in [S -> T]
    BY <2>1
  <2>3. \A i, k \in S : f[i] = f[k] => i = k
    <3>1. \A i \in S : i \in Int /\ f[i] = i + 1
      BY <2>1
    <3> HIDE DEF S, f
    <3>. QED
      BY <3>1
  <2>4. ASSUME NEW k \in T
        PROVE  \E i \in S : f[i] = k
    <3>1. k \in DOMAIN q \ {1} /\ q[k].job = what /\ k \in Int
      BY <1>1 DEF Kind
    <3>2. k - 1 \in S /\ (k - 1) + 1 = k
      BY <1>4, <3>1 DEF Kind
    <3>. QED
      BY <3>2
  <2>5. f \in Bijection(S, T)
    <3> HIDE DEF S, T, f
    <3>1. f \in Injection(S, T)
      BY <2>2, <2>3 DEF Injection, IsInjective
    <3>2. f \in Surjection(S, T)
      BY <2>2, <2>4 DEF Surjection
    <3>. QED
      BY <3>1, <3>2 DEF Bijection
  <2>6. ExistsBijection(S, T)
    BY <2>5 DEF ExistsBijection
  <2>7. IsFiniteSet(S)
    BY <1>1, KindIsFinite
  <2> HIDE DEF S, T, f
  <2>8. Cardinality(T) = Cardinality(S)
    BY <2>6, <2>7, FS_Bijection
  <2>. QED
    BY <2>8 DEF S, T
<1>6. \A what : IsFiniteSet(Kind(q, what)) /\ Cardinality(Kind(q, what)) \in Nat
  BY KindIsFinite
<1>7. Cardinality(Kind(Tail(q), Head(q).job)) = Cardinality(Kind(q, Head(q).job)) - 1
  <2>1. 1 \in Kind(q, Head(q).job)
    BY <1>1, <1>3 DEF Kind
  <2>2. Cardinality(Kind(q, Head(q).job) \ {1}) = Cardinality(Kind(q, Head(q).job)) - 1
    BY <1>6, <2>1, FS_RemoveElement
  <2>. QED
    BY <1>5, <2>2
<1>8. ASSUME NEW what \in JobNames, what # Head(q).job
      PROVE  Cardinality(Kind(Tail(q), what)) = Cardinality(Kind(q, what))
  <2>1. 1 \notin Kind(q, what)
    BY <1>1, <1>8 DEF Kind
  <2>2. Kind(q, what) \ {1} = Kind(q, what)
    BY <2>1
  <2>. QED
    BY <1>5, <2>2
<1>. QED
  BY <1>1, <1>3, <1>4, <1>7, <1>8

\* The news of the monsters is put behind the other jobs.
IsNews(m) == m \in Seq(Jobs) /\ \A i \in DOMAIN m : m[i].job \in MonsterKinds
Behind(r, q, m) == r = q \o m
LEMMA NewsAppended ==
    ASSUME NEW q \in Seq(Jobs), NEW m, IsNews(m), NEW r, Behind(r, q, m)
    PROVE  /\ r \in Seq(Jobs)
           /\ \A i \in DOMAIN r : (i \in DOMAIN q /\ r[i] = q[i]) \/ (i \notin DOMAIN q /\ \E k \in DOMAIN m : r[i] = m[k])
           /\ \A i \in DOMAIN q : i \in DOMAIN r /\ r[i] = q[i]
           /\ \A what \in JobNames \ MonsterKinds : Cardinality(Kind(r, what)) = Cardinality(Kind(q, what))
<1> USE DEF IsNews, Behind
<1>1. Len(q) \in Nat /\ DOMAIN q = 1..Len(q) /\ Len(m) \in Nat /\ DOMAIN m = 1..Len(m)
  BY LenProperties
<1>2. /\ r \in Seq(Jobs) /\ Len(r) = Len(q) + Len(m)
      /\ \A i \in 1..(Len(q) + Len(m)) : r[i] = IF i <= Len(q) THEN q[i] ELSE m[i - Len(q)]
  BY ConcatProperties
<1>3. DOMAIN r = 1..(Len(q) + Len(m))
  BY <1>2, LenProperties
<1>4. ASSUME NEW i \in DOMAIN r, i \notin DOMAIN q
      PROVE  \E k \in DOMAIN m : r[i] = m[k]
  <2>1. i \in 1..(Len(q) + Len(m)) /\ ~(i <= Len(q)) /\ i - Len(q) \in DOMAIN m
    BY <1>1, <1>3, <1>4
  <2>2. r[i] = m[i - Len(q)]
    BY <1>2, <2>1
  <2>. QED
    BY <2>1, <2>2
<1>5. \A i \in DOMAIN q : i \in DOMAIN r /\ r[i] = q[i]
  BY <1>1, <1>2, <1>3
<1>6. \A what \in JobNames \ MonsterKinds : Kind(r, what) = Kind(q, what)
  <2>1. \A i \in DOMAIN r : i \in DOMAIN q \/ r[i].job \in MonsterKinds
    BY <1>4
  <2>. QED
    BY <1>5, <2>1 DEF Kind
<1>. QED
  BY <1>2, <1>4, <1>5, <1>6

-----------------------------------------------------------------------------
\* A job is its name and whom it is about; one that tells a monster's state has a
\* target as well.
LEMMA JobIsRecord ==
    /\ \A what \in JobNames, who \in Players \cup Monsters \cup {NoPlayer} :
          Job(what, who) \in Jobs /\ Job(what, who).job = what /\ Job(what, who).who = who
    /\ \A who \in Monsters, target \in Players \cup {NoPlayer} :
          /\ Report(who, target) \in Jobs
          /\ Report(who, target).job = "HandleMonsterState" /\ Report(who, target).who = who
    /\ \A j \in Jobs : /\ j.job \in JobNames /\ j.who \in Players \cup Monsters \cup {NoPlayer}
                       /\ j.target \in Players \cup {NoPlayer}
                       /\ \A who : j = Job("EnterRoom", who) <=> j.job = "EnterRoom" /\ j.who = who
<1>1. \A what \in JobNames, who \in Players \cup Monsters \cup {NoPlayer} :
         Job(what, who) \in Jobs /\ Job(what, who).job = what /\ Job(what, who).who = who
  BY DEF Job, Jobs
<1>2. \A who \in Monsters, target \in Players \cup {NoPlayer} :
         /\ Report(who, target) \in Jobs
         /\ Report(who, target).job = "HandleMonsterState" /\ Report(who, target).who = who
  BY DEF Report, Jobs, JobNames, MonsterKinds
<1>3. ASSUME NEW j \in Jobs
      PROVE  /\ j.job \in JobNames /\ j.who \in Players \cup Monsters \cup {NoPlayer}
             /\ j.target \in Players \cup {NoPlayer}
             /\ \A who : j = Job("EnterRoom", who) <=> j.job = "EnterRoom" /\ j.who = who
  BY DEF Job, Jobs
<1>. QED
  BY <1>1, <1>2, <1>3

\* The elements of a sequence of jobs.
LEMMA JobsAreJobs == ASSUME NEW q \in Seq(Jobs) PROVE \A i \in DOMAIN q : q[i] \in Jobs
  BY ElementOfSeq, LenProperties

\* Nobody was added to those who wait to enter, and nobody was let in.
SameNewcomers(q, r) ==
    /\ r \in Seq(Jobs)
    /\ \A i \in DOMAIN r : r[i].job = "EnterRoom" => \E k \in DOMAIN q : q[k] = r[i]
    /\ \A k \in DOMAIN q : q[k].job = "EnterRoom" => \E i \in DOMAIN r : r[i] = q[k]
    /\ \A i, k \in DOMAIN r : r[i].job = "EnterRoom" /\ r[k] = r[i] => k = i
    /\ \A i \in DOMAIN r : r[i].job = "HandleLeavePlayer" => r[i].who \in Players
    /\ \A i \in DOMAIN r : r[i].job \in MonsterKinds => r[i].who \in objects \cap Monsters

\* Who was let in.
LEMMA WhoEntered ==
    ASSUME WellFormed
    PROVE  \A p : p \in Entered <=>
              p \in Players /\ sessionOf[p] # NoSession /\ \A i \in DOMAIN jobs : ~(jobs[i].job = "EnterRoom" /\ jobs[i].who = p)
<1>1. \A i \in DOMAIN jobs : jobs[i] \in Jobs
  BY JobsAreJobs DEF WellFormed
<1>2. \A i \in DOMAIN jobs : \A p : jobs[i] = Job("EnterRoom", p) <=> jobs[i].job = "EnterRoom" /\ jobs[i].who = p
  BY <1>1, JobIsRecord
<1>. QED
  BY <1>2 DEF Entered

\* The same of the next state.
LEMMA WhoEnteredNext ==
    ASSUME jobs' \in Seq(Jobs)
    PROVE  \A p : p \in Entered' <=>
              p \in Players /\ sessionOf'[p] # NoSession /\ \A i \in DOMAIN jobs' : ~(jobs'[i].job = "EnterRoom" /\ jobs'[i].who = p)
<1>1. \A i \in DOMAIN jobs' : jobs'[i] \in Jobs
  BY JobsAreJobs
<1>2. \A i \in DOMAIN jobs' : \A p : jobs'[i] = Job("EnterRoom", p) <=> jobs'[i].job = "EnterRoom" /\ jobs'[i].who = p
  BY <1>1, JobIsRecord
<1>. QED
  BY <1>2 DEF Entered, Job

\* What holds of the newcomers goes on to hold when there are no others.
LEMMA NewcomersKept ==
    ASSUME Inv, SameNewcomers(jobs, jobs'), sessionOf' = sessionOf, InRoom' \subseteq InRoom,
           objects \cap Monsters \subseteq objects',
           inited' \subseteq inited \cup InRoom, ~initialized' => inited' = {}
    PROVE  /\ NewcomersAreNew' /\ Histories' /\ WellFormed' /\ Entered' = Entered
           /\ InRoom' = InRoom /\ playerCount' = playerCount => PlayersCounted'
           /\ InRoom' = InRoom /\ exited' = exited => EndsWithLastPlayer'
           /\ \A i \in DOMAIN jobs' : /\ jobs'[i].who \in Players \cup Monsters \cup {NoPlayer}
                                      /\ jobs'[i].target \in Players \cup {NoPlayer}
<1> USE DEF Inv, Membership
<1>1. jobs' \in Seq(Jobs) /\ IsFiniteSet(InRoom')
  BY FS_Subset DEF SameNewcomers, WellFormed
<1>2. WellFormed'
  BY <1>1 DEF WellFormed
<1>3. /\ \A i \in DOMAIN jobs' : jobs'[i].job = "EnterRoom" => \E k \in DOMAIN jobs : jobs[k] = jobs'[i]
      /\ \A k \in DOMAIN jobs : jobs[k].job = "EnterRoom" => \E i \in DOMAIN jobs' : jobs'[i] = jobs[k]
      /\ \A i, k \in DOMAIN jobs' : jobs'[i].job = "EnterRoom" /\ jobs'[k] = jobs'[i] => k = i
      /\ \A i \in DOMAIN jobs' : jobs'[i].job = "HandleLeavePlayer" => jobs'[i].who \in Players
      /\ \A i \in DOMAIN jobs' : jobs'[i].job \in MonsterKinds => jobs'[i].who \in objects \cap Monsters
  BY DEF SameNewcomers
<1>4. \A i \in DOMAIN jobs : jobs[i].job = "EnterRoom" =>
         /\ jobs[i].who \in Players \ objects /\ sessionOf[jobs[i].who] # NoSession
         /\ jobs[i].who \notin inited
  BY DEF NewcomersAreNew, Histories
<1>5. \A p \in Players : p \in objects' => p \in objects
  BY DEF InRoom
<1>6. \A i \in DOMAIN jobs' : jobs'[i].job = "EnterRoom" =>
         /\ jobs'[i].who \in Players \ objects' /\ sessionOf'[jobs'[i].who] # NoSession
         /\ jobs'[i].who \notin inited'
  BY <1>3, <1>4, <1>5 DEF InRoom
<1>7. NewcomersAreNew'
  BY <1>3, <1>6 DEF NewcomersAreNew
<1>8. Histories'
  <2>1. \A p \in InRoom' \cup inited' : sessionOf'[p] # NoSession
    BY DEF Histories
  <2>. QED
    BY <1>3, <1>6, <2>1 DEF Histories
<1>9. Entered' = Entered
  <2>1. \A p : p \in Entered <=>
           p \in Players /\ sessionOf[p] # NoSession /\ \A i \in DOMAIN jobs : ~(jobs[i].job = "EnterRoom" /\ jobs[i].who = p)
    BY WhoEntered
  <2>2. \A p : p \in Entered' <=>
           p \in Players /\ sessionOf'[p] # NoSession /\ \A i \in DOMAIN jobs' : ~(jobs'[i].job = "EnterRoom" /\ jobs'[i].who = p)
    BY <1>1, WhoEnteredNext
  <2>3. \A p : (\A i \in DOMAIN jobs : ~(jobs[i].job = "EnterRoom" /\ jobs[i].who = p))
               <=> \A i \in DOMAIN jobs' : ~(jobs'[i].job = "EnterRoom" /\ jobs'[i].who = p)
    BY <1>3
  <2>. QED
    BY <2>1, <2>2, <2>3
<1>10. InRoom' = InRoom /\ playerCount' = playerCount => PlayersCounted'
  BY DEF PlayersCounted
<1>11. InRoom' = InRoom /\ exited' = exited => EndsWithLastPlayer'
  BY <1>9 DEF EndsWithLastPlayer
<1>12. \A i \in DOMAIN jobs' : /\ jobs'[i].who \in Players \cup Monsters \cup {NoPlayer}
                               /\ jobs'[i].target \in Players \cup {NoPlayer}
  BY <1>1, JobsAreJobs, JobIsRecord
<1>. QED
  BY <1>2, <1>7, <1>8, <1>9, <1>10, <1>11, <1>12

\* The queue and its counts when a job is queued.
LEMMA JobQueued ==
    ASSUME jobs \in Seq(Jobs), NEW j \in Jobs, DoAsync(j)
    PROVE  /\ jobs' \in Seq(Jobs)
           /\ \A i \in DOMAIN jobs' : (i \in DOMAIN jobs /\ jobs'[i] = jobs[i]) \/ (i = Len(jobs) + 1 /\ jobs'[i] = j)
           /\ \A i \in DOMAIN jobs : i \in DOMAIN jobs' /\ jobs'[i] = jobs[i]
           /\ Len(jobs) + 1 \in DOMAIN jobs' /\ Len(jobs) + 1 \notin DOMAIN jobs /\ jobs'[Len(jobs) + 1] = j
           /\ \A what \in JobNames : what = j.job => Queued(what)' = Queued(what) + 1
           /\ \A what \in JobNames \ {j.job} : Queued(what)' = Queued(what)
<1>1. PICK q, r : q = jobs /\ r = jobs'
  OBVIOUS
<1>2. OneMore(q, r, j)
  BY <1>1 DEF DoAsync, OneMore
<1>3. /\ r \in Seq(Jobs)
      /\ \A i \in DOMAIN r : (i \in DOMAIN q /\ r[i] = q[i]) \/ (i = Len(q) + 1 /\ r[i] = j)
      /\ \A i \in DOMAIN q : i \in DOMAIN r /\ r[i] = q[i]
      /\ Len(q) + 1 \in DOMAIN r /\ Len(q) + 1 \notin DOMAIN q /\ r[Len(q) + 1] = j
      /\ Cardinality(Kind(r, j.job)) = Cardinality(Kind(q, j.job)) + 1
  BY ONLY <1>2, JobAppended
<1>4. ASSUME NEW what
      PROVE  Queued(what) = Cardinality(Kind(q, what)) /\ Queued(what)' = Cardinality(Kind(r, what))
  <2>1. Queued(what) = Cardinality(Kind(jobs, what))
    BY DEF Queued, Kind
  <2>2. Queued(what)' = Cardinality(Kind(jobs', what))
    BY DEF Queued, Kind
  <2>. QED
    BY <1>1, <2>1, <2>2
<1>5. ASSUME NEW what \in JobNames \ {j.job}
      PROVE  Queued(what)' = Queued(what)
  <2>1. Cardinality(Kind(r, what)) = Cardinality(Kind(q, what))
    BY ONLY <1>2, <1>5, OthersUntouched
  <2>. QED
    BY <1>4, <2>1
<1>6. ASSUME NEW what \in JobNames, what = j.job
      PROVE  Queued(what)' = Queued(what) + 1
  BY <1>3, <1>4, <1>6
<1>. QED
  BY <1>1, <1>3, <1>5, <1>6

\* There are no other newcomers when a job of another kind is queued, ...
LEMMA AppendKeepsNewcomers ==
    ASSUME Inv, NEW j \in Jobs, j.job \notin {"EnterRoom"} \cup MonsterKinds,
           j.job = "HandleLeavePlayer" => j.who \in Players, DoAsync(j)
    PROVE  /\ SameNewcomers(jobs, jobs')
           /\ \A what \in JobNames : what = j.job => Queued(what)' = Queued(what) + 1
           /\ \A what \in JobNames \ {j.job} : Queued(what)' = Queued(what)
<1>1. /\ jobs' \in Seq(Jobs)
      /\ \A i \in DOMAIN jobs' : (i \in DOMAIN jobs /\ jobs'[i] = jobs[i]) \/ (i = Len(jobs) + 1 /\ jobs'[i] = j)
      /\ \A i \in DOMAIN jobs : i \in DOMAIN jobs' /\ jobs'[i] = jobs[i]
      /\ \A what \in JobNames : what = j.job => Queued(what)' = Queued(what) + 1
      /\ \A what \in JobNames \ {j.job} : Queued(what)' = Queued(what)
  BY JobQueued DEF Inv, WellFormed
<1>2. SameNewcomers(jobs, jobs')
  BY <1>1 DEF SameNewcomers, Inv, Membership, NewcomersAreNew, Histories
<1>. QED
  BY <1>1, <1>2

\* ... and when one of another kind is run, whatever news is queued then.
LEMMA TakeKeepsNewcomers ==
    ASSUME Inv, jobs # <<>>, Head(jobs).job # "EnterRoom",
           NEW m \in Seq(Jobs),
           \A i \in DOMAIN m : m[i].job \in MonsterKinds /\ m[i].who \in objects \cap Monsters,
           jobs' = Tail(jobs) \o m
    PROVE  /\ SameNewcomers(jobs, jobs')
           /\ \A what \in JobNames \ MonsterKinds : what = Head(jobs).job => Queued(what)' = Queued(what) - 1
           /\ \A what \in JobNames \ ({Head(jobs).job} \cup MonsterKinds) : Queued(what)' = Queued(what)
<1>1. jobs \in Seq(Jobs)
  BY DEF Inv, WellFormed
<1> DEFINE rest == Tail(jobs)
<1>2. /\ rest \in Seq(Jobs)
      /\ 1 \in DOMAIN jobs /\ jobs[1] = Head(jobs)
      /\ \A i \in DOMAIN rest : i + 1 \in DOMAIN jobs \ {1} /\ rest[i] = jobs[i + 1]
      /\ \A k \in DOMAIN jobs \ {1} : k - 1 \in DOMAIN rest /\ rest[k - 1] = jobs[k]
      /\ DOMAIN rest \subseteq Int
      /\ Cardinality(Kind(rest, Head(jobs).job)) = Cardinality(Kind(jobs, Head(jobs).job)) - 1
      /\ \A what \in JobNames \ {Head(jobs).job} : Cardinality(Kind(rest, what)) = Cardinality(Kind(jobs, what))
  BY <1>1, JobTaken
<1>3. jobs' = rest \o m
  OBVIOUS
<1> HIDE DEF rest
<1>4. /\ jobs' \in Seq(Jobs)
      /\ \A i \in DOMAIN jobs' : \/ i \in DOMAIN rest /\ jobs'[i] = rest[i]
                                 \/ i \notin DOMAIN rest /\ \E k \in DOMAIN m : jobs'[i] = m[k]
      /\ \A i \in DOMAIN rest : i \in DOMAIN jobs' /\ jobs'[i] = rest[i]
      /\ \A what \in JobNames \ MonsterKinds : Cardinality(Kind(jobs', what)) = Cardinality(Kind(rest, what))
  <2>1. \A i \in DOMAIN m : m[i].job \in MonsterKinds
    OBVIOUS
  <2>2. PICK r : r = jobs'
    OBVIOUS
  <2>3. PICK q : q = rest
    OBVIOUS
  <2>4. q \in Seq(Jobs) /\ IsNews(m) /\ Behind(r, q, m)
    BY <1>2, <1>3, <2>1, <2>2, <2>3 DEF IsNews, Behind
  <2>5. /\ r \in Seq(Jobs)
        /\ \A i \in DOMAIN r : \/ i \in DOMAIN q /\ r[i] = q[i]
                               \/ i \notin DOMAIN q /\ \E k \in DOMAIN m : r[i] = m[k]
        /\ \A i \in DOMAIN q : i \in DOMAIN r /\ r[i] = q[i]
        /\ \A what \in JobNames \ MonsterKinds : Cardinality(Kind(r, what)) = Cardinality(Kind(q, what))
    BY ONLY <2>4, NewsAppended
  <2>. QED
    BY <2>2, <2>3, <2>5
<1>5. \A i \in DOMAIN jobs' : jobs'[i].job \notin MonsterKinds => i \in DOMAIN rest /\ i + 1 \in DOMAIN jobs /\ jobs'[i] = jobs[i + 1]
  BY <1>2, <1>4
<1>6. ASSUME NEW i \in DOMAIN jobs', NEW k \in DOMAIN jobs', jobs'[i].job = "EnterRoom", jobs'[k] = jobs'[i]
      PROVE  k = i
  <2>1. /\ i \in DOMAIN rest /\ i + 1 \in DOMAIN jobs /\ jobs'[i] = jobs[i + 1]
        /\ k \in DOMAIN rest /\ k + 1 \in DOMAIN jobs /\ jobs'[k] = jobs[k + 1]
    BY <1>5, <1>6 DEF MonsterKinds
  <2>2. k + 1 = i + 1
    BY <1>6, <2>1 DEF Inv, Membership, NewcomersAreNew
  <2>3. i \in Int /\ k \in Int
    BY <1>2, <2>1
  <2>. QED
    BY <2>2, <2>3
<1>7. ASSUME NEW k \in DOMAIN jobs, jobs[k].job = "EnterRoom"
      PROVE  \E i \in DOMAIN jobs' : jobs'[i] = jobs[k]
  <2>1. k # 1
    BY <1>2, <1>7
  <2>. QED
    BY <1>2, <1>4, <2>1
<1>8. SameNewcomers(jobs, jobs')
  <2>1. ASSUME NEW i \in DOMAIN jobs', jobs'[i].job \in MonsterKinds
        PROVE  jobs'[i].who \in objects \cap Monsters
    <3>1. CASE i \in DOMAIN rest /\ jobs'[i] = rest[i]
      BY <1>2, <2>1, <3>1 DEF Inv, Histories
    <3>2. CASE \E k \in DOMAIN m : jobs'[i] = m[k]
      BY <3>2
    <3>. QED
      BY <1>4, <3>1, <3>2
  <2>2. \A i \in DOMAIN jobs' : jobs'[i].job = "EnterRoom" => \E k \in DOMAIN jobs : jobs[k] = jobs'[i]
    BY <1>5 DEF MonsterKinds
  <2>3. \A i \in DOMAIN jobs' : jobs'[i].job = "HandleLeavePlayer" => jobs'[i].who \in Players
    BY <1>5 DEF MonsterKinds, Inv, Histories
  <2>. QED
    BY <1>4, <1>6, <1>7, <2>1, <2>2, <2>3 DEF SameNewcomers
<1>9. ASSUME NEW what
      PROVE  Queued(what) = Cardinality(Kind(jobs, what)) /\ Queued(what)' = Cardinality(Kind(jobs', what))
  <2>1. Queued(what) = Cardinality(Kind(jobs, what))
    BY DEF Queued, Kind
  <2>2. Queued(what)' = Cardinality(Kind(jobs', what))
    BY DEF Queued, Kind
  <2>. QED
    BY <2>1, <2>2
<1>10. ASSUME NEW what \in JobNames \ ({Head(jobs).job} \cup MonsterKinds)
       PROVE  Queued(what)' = Queued(what)
  BY <1>2, <1>4, <1>9
<1>11. ASSUME NEW what \in JobNames, what = Head(jobs).job, what \notin MonsterKinds
       PROVE  Queued(what)' = Queued(what) - 1
  BY <1>2, <1>4, <1>9, <1>11
<1>. QED
  BY <1>2, <1>8, <1>10, <1>11

\* ... A job that queues nothing.
LEMMA DoneKeepsNewcomers ==
    ASSUME Inv, jobs # <<>>, Head(jobs).job # "EnterRoom", Done
    PROVE  /\ SameNewcomers(jobs, jobs')
           /\ \A what \in JobNames \ MonsterKinds : what = Head(jobs).job => Queued(what)' = Queued(what) - 1
           /\ \A what \in JobNames \ ({Head(jobs).job} \cup MonsterKinds) : Queued(what)' = Queued(what)
<1>1. jobs \in Seq(Jobs)
  BY DEF Inv, WellFormed
<1>2. Tail(jobs) \in Seq(Jobs) /\ <<>> \in Seq(Jobs) /\ DOMAIN <<>> = {}
  BY <1>1, JobTaken, EmptySeq
<1>3. Tail(jobs) \o <<>> = Tail(jobs)
  BY <1>2, ConcatEmptySeq
<1>. QED
  BY <1>2, <1>3, TakeKeepsNewcomers DEF Done

-----------------------------------------------------------------------------
\* A step that lets nobody in or out, initializes nobody and spawns nothing.
LEMMA Quiet ==
    ASSUME Inv, SameNewcomers(jobs, jobs'), online' \subseteq online,
           playerOf' = playerOf, sessionOf' = sessionOf, objects' = objects, playerCount' = playerCount,
           initialized' = initialized, exited' = exited, inited' = inited, knows' = knows,
           mapName' \in Maps \cup {"none"}, crashed' \in BOOLEAN,
           step' \in Nat, announced' \in Nat, spawns' \in Nat, timers' \subseteq DOMAIN JobOf
    PROVE  Membership' /\ WellFormed' /\ Histories' /\ EndsWithLastPlayer' /\ Known'
<1>1. InRoom' = InRoom
  BY DEF InRoom
<1>2. ~initialized' => inited' = {}
  BY DEF Inv, Histories
<1>3. /\ NewcomersAreNew' /\ Histories' /\ WellFormed' /\ PlayersCounted' /\ EndsWithLastPlayer'
      /\ \A i \in DOMAIN jobs' : /\ jobs'[i].who \in Players \cup Monsters \cup {NoPlayer}
                                 /\ jobs'[i].target \in Players \cup {NoPlayer}
  BY <1>1, <1>2, NewcomersKept
<1>4. TypeOK'
  BY <1>3 DEF Inv, Membership, TypeOK
<1>5. Known'
  BY DEF Inv, Known, Broadcast
<1>. QED
  BY <1>3, <1>4, <1>5 DEF Membership

\* What is counted is a number.
LEMMA CountsAreNumbers ==
    ASSUME jobs \in Seq(Jobs), jobs' \in Seq(Jobs), NEW what
    PROVE  Queued(what) \in Nat /\ Queued(what)' \in Nat
<1>1. Queued(what) = Cardinality(Kind(jobs, what))
  BY DEF Queued, Kind
<1>2. Queued(what)' = Cardinality(Kind(jobs', what))
  BY DEF Queued, Kind
<1>. QED
  BY <1>1, <1>2, KindIsFinite

\* So are the monsters, in any set of objects.
LEMMA MonstersAreCounted ==
    ASSUME NEW S
    PROVE  IsFiniteSet(S \cap Monsters) /\ Cardinality(S \cap Monsters) \in Nat
<1>1. S \cap Monsters \in SUBSET Monsters
  OBVIOUS
<1>. QED
  BY <1>1, MonstersAreFinite, FS_Subset, FS_CardinalityType

\* The jobs that the waves are about.
WaveJobs == {"StartWave", "ClearStage", "SpawnMonster", "HandleInteract"}

\* A step that touches neither the timers of the Hangar nor their jobs.
LEMMA WavesKept ==
    ASSUME Inv, \A what \in WaveJobs : Queued(what)' = Queued(what),
           "wave" \in timers' <=> "wave" \in timers, "clear" \in timers' <=> "clear" \in timers,
           spawns' = spawns, step' = step, initialized' = initialized, objects' \cap Monsters = objects \cap Monsters
    PROVE  Waves' /\ Steps'
<1>1. WaveDue' = WaveDue /\ ClearDue' = ClearDue
  BY DEF WaveDue, ClearDue, WaveJobs
<1>2. Come' = Come /\ FromMap' = FromMap
  BY DEF Come, FromMap, WaveJobs
<1>3. Waves'
  BY <1>1, <1>2 DEF Inv, Waves
<1>4. Steps'
  BY <1>1 DEF Inv, Steps, WaveJobs
<1>. QED
  BY <1>3, <1>4

\* The names of the jobs.
LEMMA WaveJobsAreJobs ==
    WaveJobs \subseteq (JobNames \ {"EnterRoom", "EnterGame", "GameInit", "HandleLeavePlayer",
                                  "HandleMove", "HandleAttack", "HandleHit", "UpdateRoom"}) \ MonsterKinds
  BY DEF WaveJobs, JobNames, MonsterKinds

\* C_LEAVE_GAME.
LEMMA LeaveGameKeeps ==
    ASSUME Inv, NEW s \in Sessions, Handle_C_LEAVE_GAME(s)
    PROVE  Inv'
<1> USE DEF Inv, Membership, TypeOK
<1>1. playerOf[s] \in Players
  BY DEF Handle_C_LEAVE_GAME
<1> DEFINE j == Job("HandleLeavePlayer", playerOf[s])
<1>2. j \in Jobs /\ j.job = "HandleLeavePlayer" /\ j.who \in Players
  <2>1. "HandleLeavePlayer" \in JobNames /\ playerOf[s] \in Players \cup Monsters \cup {NoPlayer}
    BY <1>1 DEF JobNames
  <2>2. j \in Jobs /\ j.job = "HandleLeavePlayer" /\ j.who = playerOf[s]
    BY ONLY <2>1, JobIsRecord
  <2>. QED
    BY ONLY <1>1, <2>2
<1>3. DoAsync(j)
  BY DEF Handle_C_LEAVE_GAME
<1> HIDE DEF j
<1>4. SameNewcomers(jobs, jobs') /\ \A what \in WaveJobs : Queued(what)' = Queued(what)
  BY <1>2, <1>3, AppendKeepsNewcomers, WaveJobsAreJobs DEF MonsterKinds
<1>5. UNCHANGED <<online, memberVars, mapName, initialized, stepVars, endVars, clientVars>>
  BY DEF Handle_C_LEAVE_GAME
<1>6. Membership' /\ WellFormed' /\ Histories' /\ EndsWithLastPlayer' /\ Known'
  BY <1>4, <1>5, Quiet DEF memberVars, stepVars, clientVars, endVars
<1>7. Waves' /\ Steps'
  BY <1>4, <1>5, WavesKept DEF memberVars, stepVars, clientVars, endVars
<1>. QED
  BY <1>6, <1>7

\* Disconnect.
LEMMA DisconnectKeeps ==
    ASSUME Inv, NEW s \in Sessions, Disconnect(s)
    PROVE  Inv'
<1> USE DEF Inv
<1>1. online' \subseteq online /\ UNCHANGED <<memberVars, mapName, initialized, stepVars, jobs, endVars, clientVars>>
  BY DEF Disconnect
<1>2. SameNewcomers(jobs, jobs')
  BY <1>1 DEF SameNewcomers, Membership, NewcomersAreNew, WellFormed, Histories
<1>3. \A what : Queued(what)' = Queued(what)
  BY <1>1 DEF Queued
<1>4. Membership' /\ WellFormed' /\ Histories' /\ EndsWithLastPlayer' /\ Known'
  BY <1>1, <1>2, Quiet DEF memberVars, stepVars, clientVars, endVars, Membership, TypeOK
<1>5. Waves' /\ Steps'
  BY <1>1, <1>3, WavesKept DEF memberVars, stepVars, clientVars, endVars
<1>. QED
  BY <1>4, <1>5

\* The other packets: an interaction is one of those that are bounded.
LEMMA HandlePacketKeeps ==
    ASSUME Inv, NEW s \in Sessions, HandlePacket(s)
    PROVE  Inv'
<1> USE DEF Inv, Membership, TypeOK
<1>2. UNCHANGED <<online, memberVars, mapName, initialized, stepVars, endVars, clientVars>>
  BY DEF HandlePacket
<1>3. ASSUME NEW what \in {"EnterGame", "GameInit", "HandleMove", "HandleAttack", "HandleHit", "HandleInteract"},
             DoAsync(Job(what, NoPlayer))
      PROVE  /\ SameNewcomers(jobs, jobs')
             /\ \A w \in JobNames \ {what} : Queued(w)' = Queued(w)
             /\ Queued(what)' = Queued(what) + 1
  <2> DEFINE j == Job(what, NoPlayer)
  <2>1. /\ j \in Jobs /\ j.job = what /\ what \in JobNames
        /\ what \notin {"EnterRoom", "HandleLeavePlayer"} \cup MonsterKinds
    BY JobIsRecord DEF JobNames, MonsterKinds
  <2>2. DoAsync(j)
    BY <1>3
  <2> HIDE DEF j
  <2>. QED
    BY <2>1, <2>2, AppendKeepsNewcomers
<1>4. ASSUME SameNewcomers(jobs, jobs')
      PROVE  Membership' /\ WellFormed' /\ Histories' /\ EndsWithLastPlayer' /\ Known'
  BY <1>2, <1>4, Quiet DEF memberVars, stepVars, clientVars, endVars
<1>5. ASSUME NEW what \in {"EnterGame", "GameInit", "HandleMove", "HandleAttack", "HandleHit"},
             DoAsync(Job(what, NoPlayer))
      PROVE  Inv'
  <2>1. \A w \in WaveJobs : Queued(w)' = Queued(w)
    BY <1>3, <1>5, WaveJobsAreJobs
  <2>2. Waves' /\ Steps'
    BY <1>2, <2>1, WavesKept DEF memberVars, stepVars, clientVars, endVars
  <2>. QED
    BY <1>3, <1>4, <1>5, <2>2
<1>6. ASSUME step + Queued("HandleInteract") < MaxStep, DoAsync(Job("HandleInteract", NoPlayer))
      PROVE  Inv'
  <2>1. /\ SameNewcomers(jobs, jobs')
        /\ \A w \in JobNames \ {"HandleInteract"} : Queued(w)' = Queued(w)
        /\ Queued("HandleInteract")' = Queued("HandleInteract") + 1
    BY <1>3, <1>6
  <2>2. WaveDue' = WaveDue /\ ClearDue' = ClearDue /\ Come' = Come /\ FromMap' = FromMap /\ step' = step
    BY <1>2, <2>1 DEF WaveDue, ClearDue, Come, FromMap, JobNames, memberVars, stepVars, endVars
  <2>3. Waves'
    BY <2>2 DEF Waves
  <2>4. Queued("HandleInteract") \in Nat
    BY <2>1, CountsAreNumbers DEF SameNewcomers, WellFormed
  <2>5. Steps'
    BY <1>6, <2>1, <2>2, <2>4, WavesAreCounted DEF Steps
  <2>. QED
    BY <1>4, <2>1, <2>3, <2>5
<1>. QED
  BY <1>5, <1>6 DEF HandlePacket

\* What the next job is.
LEMMA NextJob ==
    ASSUME Inv, jobs # <<>>
    PROVE  /\ jobs \in Seq(Jobs) /\ Head(jobs) \in Jobs /\ 1 \in DOMAIN jobs /\ jobs[1] = Head(jobs)
           /\ Head(jobs).who \in Players \cup Monsters \cup {NoPlayer}
  BY JobTaken, JobIsRecord DEF Inv, WellFormed

\* EnterGame, and the jobs that only pass something on, or crash.
LEMMA RelayKeeps ==
    ASSUME Inv, EnterGame \/ Relay \/ HandleMove
    PROVE  Inv'
<1> USE DEF Inv, Membership, TypeOK
<1>1. /\ jobs # <<>> /\ Done
      /\ Head(jobs).job \in {"EnterGame", "HandleMove", "HandleAttack"} \cup MonsterKinds
      /\ UNCHANGED <<online, memberVars, initialized, stepVars, exited, inited, knows>>
  BY DEF EnterGame, Relay, HandleMove, IsNext, MonsterKinds, clientVars, endVars
<1>2. mapName' \in Maps \cup {"none"}
  BY DEF EnterGame, Relay, HandleMove
<1>3. crashed' \in BOOLEAN
  BY DEF EnterGame, Relay, HandleMove, endVars
<1>4. SameNewcomers(jobs, jobs') /\ \A what \in WaveJobs : Queued(what)' = Queued(what)
  BY <1>1, DoneKeepsNewcomers, WaveJobsAreJobs DEF MonsterKinds
<1>5. Membership' /\ WellFormed' /\ Histories' /\ EndsWithLastPlayer' /\ Known'
  BY <1>1, <1>2, <1>3, <1>4, Quiet DEF memberVars, stepVars, endVars
<1>6. Waves' /\ Steps'
  BY <1>1, <1>4, WavesKept DEF memberVars, stepVars, endVars
<1>. QED
  BY <1>5, <1>6

\* A job that queues news of the monsters who are there is as good.
LEMMA NewsKept ==
    ASSUME Inv, jobs # <<>>, Head(jobs).job \in {"UpdateRoom", "HandleHit"},
           NEW m \in Seq(Jobs),
           \A i \in DOMAIN m : m[i].job \in MonsterKinds /\ m[i].who \in objects \cap Monsters,
           jobs' = Tail(jobs) \o m, timers' \in {timers, timers \cup {"update"}},
           UNCHANGED <<online, memberVars, mapName, initialized, step, spawns, announced, endVars, clientVars>>
    PROVE  Inv'
<1> USE DEF Inv, Membership, TypeOK
<1>1. SameNewcomers(jobs, jobs') /\ \A what \in WaveJobs : Queued(what)' = Queued(what)
  BY TakeKeepsNewcomers, WaveJobsAreJobs
<1>2. Membership' /\ WellFormed' /\ Histories' /\ EndsWithLastPlayer' /\ Known'
  BY <1>1, Quiet DEF memberVars, clientVars, endVars, JobOf
<1>3. Waves' /\ Steps'
  BY <1>1, WavesKept DEF memberVars, endVars
<1>. QED
  BY <1>2, <1>3

\* A monster's news, whomever it fights, is a job about a monster who is there.
LEMMA NewsIsOfMonsters ==
    ASSUME Inv
    PROVE  /\ \A m \in objects \cap Monsters, target \in Targets :
                 Report(m, target) \in {j \in Jobs : j.job \in MonsterKinds /\ j.who \in objects \cap Monsters}
           /\ MonsterNews \subseteq {j \in Jobs : j.job \in MonsterKinds /\ j.who \in objects \cap Monsters}
<1>1. Targets \subseteq Players \cup {NoPlayer}
  BY DEF Targets
<1>2. \A m \in objects \cap Monsters, target \in Targets :
         Report(m, target) \in {j \in Jobs : j.job \in MonsterKinds /\ j.who \in objects \cap Monsters}
  BY <1>1, JobIsRecord DEF MonsterKinds
<1>3. \A m \in objects \cap Monsters :
         Job("HandleServerMove", m) \in {j \in Jobs : j.job \in MonsterKinds /\ j.who \in objects \cap Monsters}
  BY JobIsRecord DEF MonsterKinds, JobNames
<1>. QED
  BY <1>2, <1>3 DEF MonsterNews

\* HandleHit: at most one monster says what became of it.
LEMMA HitKeeps ==
    ASSUME Inv, HandleHit
    PROVE  Inv'
<1>1. /\ jobs # <<>> /\ Head(jobs).job = "HandleHit" /\ timers' = timers
      /\ UNCHANGED <<online, memberVars, mapName, initialized, step, spawns, announced, endVars, clientVars>>
  BY DEF HandleHit, IsNext, stepVars, endVars
<1>2. jobs \in Seq(Jobs) /\ Tail(jobs) \in Seq(Jobs)
  BY <1>1, JobTaken DEF Inv, WellFormed
<1>3. CASE Done
  <2>1. <<>> \in Seq(Jobs) /\ DOMAIN <<>> = {} /\ jobs' = Tail(jobs) \o <<>>
    BY <1>2, <1>3, EmptySeq, ConcatEmptySeq DEF Done
  <2>. QED
    BY <1>1, <2>1, NewsKept
<1>4. ASSUME NEW m \in objects \cap Monsters, NEW target \in Targets, jobs' = Tail(jobs) \o <<Report(m, target)>>
      PROVE  Inv'
  <2>1. PICK j : j = Report(m, target)
    OBVIOUS
  <2>2. j \in Jobs /\ j.job \in MonsterKinds /\ j.who \in objects \cap Monsters
    BY <1>4, <2>1, NewsIsOfMonsters
  <2>3. <<j>> \in Seq(Jobs) /\ \A i \in DOMAIN <<j>> : <<j>>[i] = j
    BY <2>2
  <2>. QED
    BY <1>1, <1>4, <2>1, <2>2, <2>3, NewsKept
<1>. QED
  BY <1>3, <1>4 DEF HandleHit

\* UpdateRoom: the monsters say what they will.
LEMMA UpdateRoomKeeps ==
    ASSUME Inv, UpdateRoom
    PROVE  Inv'
<1>1. /\ jobs # <<>> /\ Head(jobs).job = "UpdateRoom"
      /\ timers' = timers \cup {"update"}
      /\ UNCHANGED <<online, memberVars, mapName, initialized, step, spawns, announced, endVars, clientVars>>
  BY DEF UpdateRoom, IsNext
<1>2. PICK m \in SeqOf(MonsterNews, MaxNews) : jobs' = Tail(jobs) \o m
  BY DEF UpdateRoom
<1>3. PICK n \in 0..MaxNews : m \in [1..n -> MonsterNews]
  BY <1>2 DEF SeqOf
<1>4. \A i \in 1..n : m[i] \in Jobs /\ m[i].job \in MonsterKinds /\ m[i].who \in objects \cap Monsters
  BY <1>3, NewsIsOfMonsters
<1>5. n \in Nat /\ DOMAIN m = 1..n /\ m \in [1..n -> Jobs]
  BY <1>3, <1>4, NewsAreCounted
<1>6. m \in Seq(Jobs)
  <2>1. m \in UNION {[1..k -> Jobs] : k \in Nat}
    BY ONLY <1>5
  <2>. QED
    BY ONLY <2>1, SeqDef, Zenon
<1>. QED
  BY <1>1, <1>2, <1>4, <1>5, <1>6, NewsKept

-----------------------------------------------------------------------------
\* C_ENTER_ROOM: the player is new, and the one job that lets it in waits.
LEMMA EnterRoomAskedKeeps ==
    ASSUME Inv, NEW s \in Sessions, Handle_C_ENTER_ROOM(s)
    PROVE  Inv'
<1> USE DEF Inv, Membership
<1>1. PICK p \in Players : CreatePlayer(p, s) /\ DoAsync(Job("EnterRoom", p))
  BY DEF Handle_C_ENTER_ROOM
<1>2. UNCHANGED <<online, objects, playerCount, mapName, initialized, stepVars, endVars, clientVars>>
  BY DEF Handle_C_ENTER_ROOM
<1>3. PICK j : j = Job("EnterRoom", p)
  OBVIOUS
<1>4. j \in Jobs /\ j.job = "EnterRoom" /\ j.who = p
  BY <1>3, JobIsRecord DEF JobNames
<1>5. /\ jobs' \in Seq(Jobs)
      /\ \A i \in DOMAIN jobs' : (i \in DOMAIN jobs /\ jobs'[i] = jobs[i]) \/ (i = Len(jobs) + 1 /\ jobs'[i] = j)
      /\ \A i \in DOMAIN jobs : i \in DOMAIN jobs' /\ jobs'[i] = jobs[i]
      /\ Len(jobs) + 1 \in DOMAIN jobs' /\ Len(jobs) + 1 \notin DOMAIN jobs /\ jobs'[Len(jobs) + 1] = j
      /\ \A what \in JobNames \ {j.job} : Queued(what)' = Queued(what)
  BY <1>1, <1>3, <1>4, JobQueued DEF WellFormed
<1>6. /\ sessionOf[p] = NoSession /\ sessionOf'[p] # NoSession
      /\ \A x : x \in Players /\ x # p => sessionOf'[x] = sessionOf[x]
      /\ sessionOf' \in [Players -> Sessions \cup {NoSession}]
      /\ playerOf' \in [Sessions -> Players \cup {NoPlayer}]
  BY <1>1, NoSessionIsNone DEF CreatePlayer, TypeOK
<1>7. inited \subseteq Players /\ InRoom \subseteq Players /\ p \notin InRoom \cup inited /\ p \notin objects
  BY <1>6 DEF Histories, InRoom, TypeOK
<1>8. \A i \in DOMAIN jobs : jobs[i].job = "EnterRoom" =>
         jobs[i].who \in Players \ objects /\ jobs[i].who # p /\ jobs[i].who \notin inited /\ jobs[i] # j
  BY <1>4, <1>6 DEF NewcomersAreNew, Histories
<1>9. NewcomersAreNew'
  <2>1. ASSUME NEW i \in DOMAIN jobs', jobs'[i].job = "EnterRoom"
        PROVE  /\ jobs'[i].who \in Players \ objects' /\ sessionOf'[jobs'[i].who] # NoSession
               /\ \A k \in DOMAIN jobs' : jobs'[k] = jobs'[i] => k = i
    <3>1. CASE i \in DOMAIN jobs /\ jobs'[i] = jobs[i]
      <4>1. jobs[i].who \in Players \ objects /\ sessionOf'[jobs[i].who] # NoSession /\ jobs[i] # j
        BY <1>6, <1>8, <2>1, <3>1 DEF NewcomersAreNew
      <4>2. ASSUME NEW k \in DOMAIN jobs', jobs'[k] = jobs'[i]
            PROVE  k = i
        <5>1. k \in DOMAIN jobs /\ jobs[k] = jobs[i] /\ jobs[i].job = "EnterRoom"
          BY <1>5, <2>1, <3>1, <4>1, <4>2
        <5>. QED
          BY <3>1, <5>1 DEF NewcomersAreNew
      <4>. QED
        BY <1>2, <3>1, <4>1, <4>2
    <3>2. CASE i = Len(jobs) + 1 /\ jobs'[i] = j
      <4>1. ASSUME NEW k \in DOMAIN jobs', jobs'[k] = jobs'[i]
            PROVE  k = i
        BY <1>4, <1>5, <1>8, <3>2, <4>1
      <4>. QED
        BY <1>2, <1>4, <1>6, <1>7, <3>2, <4>1
    <3>. QED
      BY <1>5, <3>1, <3>2
  <2>. QED
    BY <2>1 DEF NewcomersAreNew
<1>10. InRoom' = InRoom /\ WellFormed' /\ PlayersCounted'
  BY <1>2, <1>5 DEF InRoom, WellFormed, PlayersCounted
<1>11. Histories'
  <2>1. \A x \in InRoom' \cup inited' : sessionOf'[x] # NoSession
    BY <1>2, <1>6, <1>7, <1>10 DEF Histories, clientVars, endVars
  <2>2. \A i \in DOMAIN jobs' : jobs'[i].job = "EnterRoom" => jobs'[i].who \notin inited'
    BY <1>2, <1>4, <1>5, <1>7, <1>8 DEF clientVars, endVars
  <2>3. \A i \in DOMAIN jobs' : jobs'[i].job = "HandleLeavePlayer" => jobs'[i].who \in Players
    BY <1>4, <1>5 DEF Histories
  <2>4. \A i \in DOMAIN jobs' : jobs'[i].job \in MonsterKinds => jobs'[i].who \in objects' \cap Monsters
    BY <1>2, <1>4, <1>5 DEF Histories, MonsterKinds
  <2>. QED
    BY <1>2, <2>1, <2>2, <2>3, <2>4 DEF Histories, clientVars, endVars
<1>12. Entered' = Entered
  <2>1. \A x : x \in Entered <=>
           x \in Players /\ sessionOf[x] # NoSession /\ \A i \in DOMAIN jobs : ~(jobs[i].job = "EnterRoom" /\ jobs[i].who = x)
    BY WhoEntered
  <2>2. \A x : x \in Entered' <=>
           x \in Players /\ sessionOf'[x] # NoSession /\ \A i \in DOMAIN jobs' : ~(jobs'[i].job = "EnterRoom" /\ jobs'[i].who = x)
    BY <1>5, WhoEnteredNext
  <2>3. p \notin Entered /\ p \notin Entered'
    BY <1>4, <1>5, <1>6, <2>1, <2>2
  <2>4. ASSUME NEW x \in Players, x # p
        PROVE  x \in Entered' <=> x \in Entered
    <3>1. (\A i \in DOMAIN jobs' : ~(jobs'[i].job = "EnterRoom" /\ jobs'[i].who = x))
          <=> \A i \in DOMAIN jobs : ~(jobs[i].job = "EnterRoom" /\ jobs[i].who = x)
      BY <1>4, <1>5, <2>4
    <3>. QED
      BY <1>6, <2>1, <2>2, <2>4, <3>1
  <2>5. Entered \subseteq Players /\ Entered' \subseteq Players
    BY <2>1, <2>2
  <2>. QED
    BY <2>3, <2>4, <2>5
<1>13. EndsWithLastPlayer'
  BY <1>2, <1>10, <1>12 DEF EndsWithLastPlayer, endVars
<1>14. TypeOK'
  <2>1. \A i \in DOMAIN jobs' : /\ jobs'[i].who \in Players \cup Monsters \cup {NoPlayer}
                                /\ jobs'[i].target \in Players \cup {NoPlayer}
    BY <1>5, JobsAreJobs, JobIsRecord
  <2>. QED
    BY <1>2, <1>6, <2>1 DEF TypeOK, stepVars, clientVars, endVars
<1>15. Known'
  <2>1. \A x \in inited' \cap Broadcast(objects)' : x \in inited \cap Broadcast(objects)
    <3>1. online' = online /\ objects' = objects /\ inited' = inited
      BY <1>2 DEF clientVars, endVars
    <3>. QED
      BY <1>6, <1>7, <3>1 DEF Broadcast
  <2>. QED
    BY <1>2, <2>1 DEF Known, clientVars, endVars
<1>16. \A what \in WaveJobs : Queued(what)' = Queued(what)
  BY <1>4, <1>5, WaveJobsAreJobs
<1>17. Waves' /\ Steps'
  BY <1>2, <1>16, WavesKept DEF stepVars, endVars
<1>. QED
  BY <1>9, <1>10, <1>11, <1>13, <1>14, <1>15, <1>17

\* The queue and its counts when a job is done.
LEMMA JobDone ==
    ASSUME jobs \in Seq(Jobs), jobs # <<>>, Done
    PROVE  /\ jobs' \in Seq(Jobs) /\ Head(jobs) \in Jobs
           /\ 1 \in DOMAIN jobs /\ jobs[1] = Head(jobs)
           /\ \A i \in DOMAIN jobs' : i \in Int /\ i + 1 \in DOMAIN jobs \ {1} /\ jobs'[i] = jobs[i + 1]
           /\ \A k \in DOMAIN jobs \ {1} : k - 1 \in DOMAIN jobs' /\ jobs'[k - 1] = jobs[k]
           /\ \A what \in JobNames \ {Head(jobs).job} : Queued(what)' = Queued(what)
<1>1. PICK q, r : q = jobs /\ r = jobs' /\ r = Tail(q)
  BY DEF Done
<1>2. q \in Seq(Jobs) /\ q # <<>>
  BY <1>1
<1>3. /\ r \in Seq(Jobs) /\ Head(q) \in Jobs
      /\ 1 \in DOMAIN q /\ q[1] = Head(q)
      /\ \A i \in DOMAIN r : i + 1 \in DOMAIN q \ {1} /\ r[i] = q[i + 1]
      /\ \A k \in DOMAIN q \ {1} : k - 1 \in DOMAIN r /\ r[k - 1] = q[k]
      /\ DOMAIN r \subseteq Int
      /\ \A what \in JobNames \ {Head(q).job} : Cardinality(Kind(r, what)) = Cardinality(Kind(q, what))
  BY <1>1, <1>2, JobTaken
<1>4. ASSUME NEW what
      PROVE  Queued(what) = Cardinality(Kind(q, what)) /\ Queued(what)' = Cardinality(Kind(r, what))
  <2>1. Queued(what) = Cardinality(Kind(jobs, what))
    BY DEF Queued, Kind
  <2>2. Queued(what)' = Cardinality(Kind(jobs', what))
    BY DEF Queued, Kind
  <2>. QED
    BY <1>1, <2>1, <2>2
<1>5. \A what \in JobNames \ {Head(jobs).job} : Queued(what)' = Queued(what)
  BY <1>1, <1>3, <1>4
<1>. QED
  BY <1>1, <1>3, <1>5

\* EnterRoom: the newcomer is counted, and the others stay newcomers.
LEMMA EnterRoomKeeps ==
    ASSUME Inv, ~exited, EnterRoom
    PROVE  Inv'
<1> USE DEF Inv, Membership
<1>1. PICK p : p = Who
  OBVIOUS
<1>2. /\ jobs # <<>> /\ Head(jobs).job = "EnterRoom" /\ Done
      /\ objects' = objects \cup {p}
      /\ playerCount' = playerCount + Cardinality(({p} \cap Players) \ objects)
      /\ UNCHANGED <<online, playerOf, sessionOf, mapName, initialized, stepVars, endVars, clientVars>>
  BY <1>1 DEF EnterRoom, IsNext, AddObject
<1>3. /\ jobs' \in Seq(Jobs) /\ Head(jobs) \in Jobs
      /\ 1 \in DOMAIN jobs /\ jobs[1] = Head(jobs)
      /\ \A i \in DOMAIN jobs' : i \in Int /\ i + 1 \in DOMAIN jobs \ {1} /\ jobs'[i] = jobs[i + 1]
      /\ \A k \in DOMAIN jobs \ {1} : k - 1 \in DOMAIN jobs' /\ jobs'[k - 1] = jobs[k]
      /\ \A what \in JobNames \ {Head(jobs).job} : Queued(what)' = Queued(what)
  BY <1>2, JobDone DEF WellFormed
<1>4. jobs[1].job = "EnterRoom" /\ jobs[1].who = p
  BY <1>1, <1>2, <1>3 DEF Who
<1>5. /\ p \in Players \ objects /\ sessionOf[p] # NoSession /\ p \notin inited
      /\ \A k \in DOMAIN jobs : jobs[k] = jobs[1] => k = 1
  BY <1>3, <1>4 DEF NewcomersAreNew, Histories
<1>6. ASSUME NEW i \in DOMAIN jobs', jobs'[i].job = "EnterRoom"
      PROVE  jobs'[i].who # p
  <2>1. i + 1 \in DOMAIN jobs \ {1} /\ jobs'[i] = jobs[i + 1] /\ jobs[i + 1] \in Jobs /\ jobs[1] \in Jobs
    BY <1>3, JobsAreJobs DEF WellFormed
  <2>2. ASSUME jobs'[i].who = p
        PROVE  jobs[i + 1] = jobs[1]
    BY <1>4, <1>6, <2>1, <2>2, JobIsRecord
  <2>. QED
    BY <1>5, <2>1, <2>2
<1>7. NewcomersAreNew'
  <2>1. ASSUME NEW i \in DOMAIN jobs', jobs'[i].job = "EnterRoom"
        PROVE  /\ jobs'[i].who \in Players \ objects' /\ sessionOf'[jobs'[i].who] # NoSession
               /\ \A k \in DOMAIN jobs' : jobs'[k] = jobs'[i] => k = i
    <3>1. i \in Int /\ i + 1 \in DOMAIN jobs /\ jobs'[i] = jobs[i + 1]
      BY <1>3
    <3>2. jobs[i + 1].who \in Players \ objects /\ sessionOf[jobs[i + 1].who] # NoSession
      BY <2>1, <3>1 DEF NewcomersAreNew
    <3>3. ASSUME NEW k \in DOMAIN jobs', jobs'[k] = jobs'[i]
          PROVE  k = i
      <4>1. k \in Int /\ k + 1 \in DOMAIN jobs /\ jobs[k + 1] = jobs[i + 1]
        BY <1>3, <3>1, <3>3
      <4>2. k + 1 = i + 1
        BY <2>1, <3>1, <4>1 DEF NewcomersAreNew
      <4>. QED
        BY <3>1, <4>1, <4>2
    <3>. QED
      BY <1>2, <1>6, <2>1, <3>1, <3>2, <3>3
  <2>. QED
    BY <2>1 DEF NewcomersAreNew
<1>8. InRoom' = InRoom \cup {p} /\ p \notin InRoom
  BY <1>2, <1>5 DEF InRoom
<1>9. IsFiniteSet(InRoom') /\ Cardinality(InRoom') = Cardinality(InRoom) + 1
  BY <1>8, FS_AddElement DEF WellFormed
<1>10. playerCount' = playerCount + 1
  <2>1. ({p} \cap Players) \ objects = {p}
    BY <1>5
  <2>2. Cardinality({p}) = 1
    BY FS_Singleton
  <2>. QED
    BY <1>2, <2>1, <2>2
<1>11. PlayersCounted' /\ WellFormed'
  BY <1>3, <1>9, <1>10 DEF PlayersCounted, WellFormed
<1>12. Histories'
  <2>1. \A x \in InRoom' \cup inited' : sessionOf'[x] # NoSession
    BY <1>2, <1>5, <1>8 DEF Histories, clientVars, endVars
  <2>2. \A i \in DOMAIN jobs' : /\ jobs'[i].job = "EnterRoom" => jobs'[i].who \notin inited'
                                /\ jobs'[i].job = "HandleLeavePlayer" => jobs'[i].who \in Players
    BY <1>2, <1>3 DEF Histories, clientVars, endVars
  <2>3. \A i \in DOMAIN jobs' : jobs'[i].job \in MonsterKinds => jobs'[i].who \in objects' \cap Monsters
    BY <1>2, <1>3 DEF Histories
  <2>. QED
    BY <1>2, <2>1, <2>2, <2>3 DEF Histories, clientVars, endVars
<1>13. EndsWithLastPlayer'
  BY <1>2, <1>8 DEF EndsWithLastPlayer, endVars
<1>14. TypeOK'
  <2>1. \A i \in DOMAIN jobs' : /\ jobs'[i].who \in Players \cup Monsters \cup {NoPlayer}
                                /\ jobs'[i].target \in Players \cup {NoPlayer}
    BY <1>3, JobsAreJobs, JobIsRecord
  <2>2. playerCount' \in Int
    BY <1>10 DEF TypeOK
  <2>. QED
    BY <1>2, <1>5, <2>1, <2>2 DEF TypeOK, stepVars, clientVars, endVars
<1>15. p \notin Monsters
  BY <1>5, IdsAreUnique
<1>16. Known'
  <2>1. online' = online /\ sessionOf' = sessionOf /\ inited' = inited /\ knows' = knows
    BY <1>2 DEF clientVars, endVars
  <2>2. \A x \in inited' \cap Broadcast(objects)' : x \in inited \cap Broadcast(objects)
    BY <1>2, <1>5, <2>1 DEF Broadcast
  <2>3. (objects' \cap Monsters) \cup inited' = (objects \cap Monsters) \cup inited
    BY <1>2, <1>5, <1>15, <2>1
  <2>. QED
    BY <2>1, <2>2, <2>3 DEF Known
<1>17. \A what \in WaveJobs : Queued(what)' = Queued(what)
  BY <1>2, <1>3, WaveJobsAreJobs
<1>18. objects' \cap Monsters = objects \cap Monsters
  BY <1>2, <1>15
<1>19. Waves' /\ Steps'
  BY <1>2, <1>17, <1>18, WavesKept DEF stepVars, endVars
<1>. QED
  BY <1>7, <1>11, <1>12, <1>13, <1>14, <1>16, <1>19

\* HandleLeavePlayer: the one who leaves was there, and the last ends the game.
LEMMA LeaveKeeps ==
    ASSUME Inv, ~exited, HandleLeavePlayer
    PROVE  Inv'
<1> USE DEF Inv, Membership
<1>1. PICK p : p = Who
  OBVIOUS
<1>2. /\ jobs # <<>> /\ Head(jobs).job = "HandleLeavePlayer" /\ Done
      /\ \/ p \in objects /\ objects' = objects \ {p} /\ playerCount' = playerCount - 1 /\ exited' = (0 >= playerCount')
         \/ p \notin objects /\ UNCHANGED <<objects, playerCount, exited>>
      /\ UNCHANGED <<online, playerOf, sessionOf, mapName, initialized, stepVars, crashed, clientVars>>
  BY <1>1 DEF HandleLeavePlayer, IsNext, IsPresent, NobodyLeft
<1>3. SameNewcomers(jobs, jobs') /\ \A what \in WaveJobs : Queued(what)' = Queued(what)
  BY <1>2, DoneKeepsNewcomers, WaveJobsAreJobs DEF MonsterKinds
<1>4. p \in Players
  BY <1>1, <1>2, NextJob DEF Who, Histories
<1>5. CASE p \notin objects /\ UNCHANGED <<objects, playerCount, exited>>
  <2>1. Membership' /\ WellFormed' /\ Histories' /\ EndsWithLastPlayer' /\ Known'
    BY <1>2, <1>3, <1>5, Quiet DEF stepVars, clientVars, endVars, TypeOK
  <2>2. Waves' /\ Steps'
    BY <1>2, <1>3, <1>5, WavesKept DEF stepVars, endVars
  <2>. QED
    BY <2>1, <2>2
<1>6. CASE p \in objects /\ objects' = objects \ {p} /\ playerCount' = playerCount - 1 /\ exited' = (0 >= playerCount')
  <2>1. InRoom' = InRoom \ {p} /\ p \in InRoom
    BY <1>4, <1>6 DEF InRoom
  <2>2. /\ IsFiniteSet(InRoom') /\ Cardinality(InRoom') = Cardinality(InRoom) - 1
        /\ Cardinality(InRoom') \in Nat /\ (Cardinality(InRoom') = 0 <=> InRoom' = {})
    BY <2>1, FS_RemoveElement, FS_CardinalityType, FS_EmptySet DEF WellFormed
  <2>3. objects' \cap Monsters = objects \cap Monsters
    BY <1>4, <1>6, IdsAreUnique
  <2>4. /\ NewcomersAreNew' /\ Histories' /\ WellFormed' /\ Entered' = Entered
        /\ \A i \in DOMAIN jobs' : /\ jobs'[i].who \in Players \cup Monsters \cup {NoPlayer}
                                   /\ jobs'[i].target \in Players \cup {NoPlayer}
    <3>1. ~initialized' => inited' = {}
      BY <1>2 DEF clientVars, endVars, Histories
    <3>2. sessionOf' = sessionOf /\ inited' \subseteq inited \cup InRoom /\ InRoom' \subseteq InRoom
      BY <1>2, <2>1 DEF clientVars, endVars
    <3>. QED
      BY <1>3, <2>3, <3>1, <3>2, NewcomersKept
  <2>5. playerCount' = Cardinality(InRoom')
    BY <1>6, <2>2 DEF PlayersCounted
  <2>6. p \in Entered
    <3>1. sessionOf[p] # NoSession
      BY <2>1 DEF Histories
    <3>2. \A i \in DOMAIN jobs : ~(jobs[i].job = "EnterRoom" /\ jobs[i].who = p)
      BY <1>6 DEF NewcomersAreNew
    <3>. QED
      BY <1>4, <3>1, <3>2, WhoEntered
  <2>7. exited' <=> InRoom' = {}
    <3>1. 0 >= playerCount' <=> InRoom' = {}
      <4>1. playerCount' \in Nat
        BY <2>2, <2>5
      <4>2. playerCount' = 0 <=> InRoom' = {}
        BY ONLY <2>2, <2>5, Zenon
      <4>3. 0 >= playerCount' <=> playerCount' = 0
        BY ONLY <4>1
      <4>. QED
        BY ONLY <4>2, <4>3, Zenon
    <3>2. exited' = (0 >= playerCount')
      BY ONLY <1>6
    <3>3. exited' <=> 0 >= playerCount'
      BY ONLY <3>2, Zenon
    <3>. QED
      BY ONLY <3>1, <3>3
  <2>8. EndsWithLastPlayer'
    BY <2>4, <2>6, <2>7 DEF EndsWithLastPlayer
  <2>9. TypeOK'
    <3>1. playerCount' \in Int /\ exited' \in BOOLEAN
      BY <1>6, <2>2, <2>5
    <3>. QED
      BY <1>2, <1>6, <2>4, <3>1 DEF TypeOK, stepVars, clientVars, endVars
  <2>10. Known'
    <3>1. online' = online /\ sessionOf' = sessionOf /\ inited' = inited /\ knows' = knows
      BY <1>2 DEF clientVars, endVars
    <3>. QED
      BY <1>6, <3>1 DEF Known, Broadcast
  <2>11. Waves' /\ Steps'
    BY <1>2, <1>3, <2>3, WavesKept DEF stepVars, endVars
  <2>. QED
    BY <2>4, <2>5, <2>8, <2>9, <2>10, <2>11 DEF PlayersCounted
<1>. QED
  BY <1>2, <1>5, <1>6

-----------------------------------------------------------------------------
\* What the waves are counted with.
LEMMA Numbers ==
    ASSUME Inv
    PROVE  /\ \A what : Queued(what) \in Nat
           /\ WaveDue \in Nat /\ ClearDue \in Nat /\ Come \in Nat /\ FromMap \in Nat
           /\ step \in 0..MaxStep + 1
           /\ \A n \in 1..step : Wave[n] \in Nat
<1>1. \A what : Queued(what) \in Nat
  <2>1. \A what : Queued(what) = Cardinality(Kind(jobs, what))
    BY DEF Queued, Kind
  <2>. QED
    BY <2>1, KindIsFinite DEF Inv, WellFormed
<1>2. WaveDue \in Nat /\ ClearDue \in Nat
  BY <1>1 DEF WaveDue, ClearDue
<1>3. Cardinality(objects \cap Monsters) \in Nat
  BY MonstersAreCounted
<1>4. Come \in Nat
  BY <1>1, <1>3 DEF Come, Inv, Membership, TypeOK
<1>5. FromMap \in Nat
  BY WavesAreCounted DEF FromMap
<1>6. step \in 0..MaxStep + 1
  <2>1. step \in Nat /\ Queued("HandleInteract") \in Nat /\ MaxStep \in Nat
    BY <1>1, WavesAreCounted DEF Inv, Membership, TypeOK
  <2>2. step + Queued("HandleInteract") <= MaxStep + 1
    BY <2>1 DEF Inv, Steps
  <2>. QED
    BY <2>1, <2>2
<1>7. \A n \in 1..step : Wave[n] \in Nat
  BY <1>6, WavesAreCounted
<1>. QED
  BY <1>1, <1>2, <1>4, <1>5, <1>6, <1>7

\* As many more may come as came with the map.
LEMMA WavesShifted ==
    ASSUME Inv, NEW d \in Nat, WaveDue' = WaveDue, ClearDue' = ClearDue, step' = step,
           Come' = Come + d, FromMap' = FromMap + d
    PROVE  Waves'
<1>1. /\ Come \in Nat /\ FromMap \in Nat
      /\ \A n \in 1..step : Wave[n] \in Nat
  BY Numbers
<1>2. PICK later \in {0} \cup {Wave[n] : n \in 1..step} : Come <= FromMap + later
  BY DEF Inv, Waves
<1>3. later \in Nat
  BY <1>1
<1>4. Come' <= FromMap' + later
  BY <1>1, <1>2, <1>3
<1>5. step < 2 \/ WaveDue = 1 => Come' <= FromMap'
  BY <1>1 DEF Inv, Waves
<1>. QED
  BY <1>2, <1>4, <1>5 DEF Inv, Waves

\* Sets that have nothing in common are counted one after the other.
LEMMA CountsAdd ==
    ASSUME NEW S, NEW T, IsFiniteSet(S), IsFiniteSet(T), S \cap T = {}
    PROVE  Cardinality(S \cup T) = Cardinality(S) + Cardinality(T)
<1>1. Cardinality(S \cup T) = Cardinality(S) + Cardinality(T) - Cardinality(S \cap T)
  BY FS_Union
<1>2. Cardinality(S \cap T) = 0
  BY FS_EmptySet
<1>3. Cardinality(S) \in Nat /\ Cardinality(T) \in Nat
  BY FS_CardinalityType
<1>. QED
  BY <1>1, <1>2, <1>3

\* New monsters are as many more.
LEMMA MonstersAdded ==
    ASSUME NEW new, new \subseteq Monsters \ objects, objects' = objects \cup new
    PROVE  Cardinality(objects' \cap Monsters) = Cardinality(objects \cap Monsters) + Cardinality(new)
<1>1. PICK S : S = objects \cap Monsters
  OBVIOUS
<1>2. IsFiniteSet(S) /\ S \cap new = {}
  BY <1>1, MonstersAreCounted
<1>3. IsFiniteSet(new)
  <2>1. new \in SUBSET Monsters
    OBVIOUS
  <2>. QED
    BY <2>1, MonstersAreFinite, FS_Subset
<1>4. Cardinality(S \cup new) = Cardinality(S) + Cardinality(new)
  BY ONLY <1>2, <1>3, CountsAdd
<1>5. objects' \cap Monsters = S \cup new
  BY <1>1
<1>. QED
  BY <1>1, <1>4, <1>5

\* GameInit: it happens once, and all in the Room are told what is there.
LEMMA GameInitKeeps ==
    ASSUME Inv, GameInit
    PROVE  Inv'
<1> USE DEF Inv, Membership
<1>1. /\ jobs # <<>> /\ Head(jobs).job = "GameInit" /\ Done
      /\ UNCHANGED <<online, playerOf, sessionOf, playerCount, mapName, stepVars, exited>>
  BY DEF GameInit, IsNext
<1>2. SameNewcomers(jobs, jobs') /\ \A what \in WaveJobs : Queued(what)' = Queued(what)
  BY <1>1, DoneKeepsNewcomers, WaveJobsAreJobs DEF MonsterKinds
<1>3. CASE UNCHANGED <<objects, initialized, inited, knows>> /\ crashed' \in {TRUE, crashed}
  <2>1. Membership' /\ WellFormed' /\ Histories' /\ EndsWithLastPlayer' /\ Known'
    BY <1>1, <1>2, <1>3, Quiet DEF stepVars, endVars, TypeOK
  <2>2. Waves' /\ Steps'
    BY <1>1, <1>2, <1>3, WavesKept DEF stepVars, endVars
  <2>. QED
    BY <2>1, <2>2
<1>4. CASE ~initialized /\ mapName # "none" /\ crashed' = crashed /\ initialized'
  <2>1. PICK monsters \in Fresh(FirstMonsters) :
           /\ objects' = objects \cup monsters
           /\ knows' = [p \in Players |->
                 knows[p] \cup (IF p \in Broadcast(objects) THEN objects ELSE {})
                          \cup (IF p \in Broadcast(objects) THEN monsters ELSE {})]
           /\ inited' = inited \cup Broadcast(objects) /\ initialized' = TRUE
    BY <1>4 DEF GameInit, ToldAll
  <2>2. monsters \subseteq Monsters \ objects /\ Cardinality(monsters) = FirstMonsters
    BY <2>1 DEF Fresh, kSubset
  <2>3. inited = {} /\ Broadcast(objects) \subseteq InRoom
    BY <1>4 DEF Histories, Broadcast, InRoom
  <2>4. InRoom' = InRoom
    BY <2>1, <2>2, IdsAreUnique DEF InRoom
  <2>5. /\ NewcomersAreNew' /\ Histories' /\ WellFormed' /\ PlayersCounted' /\ EndsWithLastPlayer'
        /\ \A i \in DOMAIN jobs' : /\ jobs'[i].who \in Players \cup Monsters \cup {NoPlayer}
                                   /\ jobs'[i].target \in Players \cup {NoPlayer}
    <3>1. /\ sessionOf' = sessionOf /\ playerCount' = playerCount /\ exited' = exited
          /\ inited' \subseteq inited \cup InRoom /\ InRoom' \subseteq InRoom
      BY <1>1, <2>1, <2>3, <2>4
    <3>. QED
      BY <1>2, <1>4, <2>1, <2>4, <3>1, NewcomersKept
  <2>6. TypeOK'
    <3>1. objects' \subseteq Players \cup Monsters /\ inited' \subseteq Players
      BY <2>1, <2>2, <2>3 DEF TypeOK, InRoom
    <3>2. knows' \in [Players -> SUBSET (Players \cup Monsters)]
      BY <2>1, <2>2 DEF TypeOK
    <3>3. initialized' \in BOOLEAN
      BY <2>1
    <3>4. crashed' \in BOOLEAN /\ exited' \in BOOLEAN
      BY <1>1, <1>4 DEF TypeOK
    <3>5. /\ online' = online /\ playerOf' = playerOf /\ sessionOf' = sessionOf /\ playerCount' = playerCount
          /\ mapName' = mapName /\ step' = step /\ announced' = announced /\ spawns' = spawns /\ timers' = timers
      BY <1>1 DEF stepVars
    <3>6. \A i \in DOMAIN jobs' : /\ jobs'[i].who \in Players \cup Monsters \cup {NoPlayer}
                                  /\ jobs'[i].target \in Players \cup {NoPlayer}
      BY <2>5
    <3>. QED
      BY <3>1, <3>2, <3>3, <3>4, <3>5, <3>6 DEF TypeOK
  <2>7. Known'
    <3>1. ASSUME NEW p \in inited'
          PROVE  p \in Players /\ p \in Broadcast(objects) /\ objects' \cup inited' \subseteq knows'[p]
      <4>1. p \in Players /\ p \in Broadcast(objects)
        BY <2>1, <2>3, <3>1 DEF Broadcast
      <4>2. knows'[p] = knows[p] \cup objects \cup monsters
        BY <2>1, <4>1
      <4>. QED
        BY <2>1, <2>3, <4>1, <4>2 DEF InRoom
    <3>. QED
      BY <3>1 DEF Known
  <2>8. WaveDue' = WaveDue /\ ClearDue' = ClearDue
    BY <1>1, <1>2 DEF WaveDue, ClearDue, WaveJobs, stepVars, endVars
  <2>9. Cardinality(objects' \cap Monsters) = Cardinality(objects \cap Monsters) + FirstMonsters
    BY <2>1, <2>2, MonstersAdded
  <2>10. Come' = Come + FirstMonsters
    <3>1. /\ Queued("SpawnMonster")' = Queued("SpawnMonster") /\ Queued("SpawnMonster") \in Nat
          /\ spawns' = spawns /\ spawns \in Nat /\ Cardinality(objects \cap Monsters) \in Nat
      BY <1>1, <1>2, Numbers, MonstersAreCounted DEF WaveJobs, stepVars, endVars, TypeOK
    <3>. QED
      BY <2>9, <3>1, WavesAreCounted DEF Come
  <2>11. FromMap' = FromMap + FirstMonsters
    BY <1>4, WavesAreCounted DEF FromMap
  <2>12. Waves'
    BY <1>1, <2>8, <2>10, <2>11, WavesShifted, WavesAreCounted DEF stepVars, endVars
  <2>13. Steps'
    BY <1>1, <1>2, <2>8 DEF Steps, WaveJobs, stepVars, endVars
  <2>. QED
    BY <2>5, <2>6, <2>7, <2>12, <2>13
<1>. QED
  BY <1>3, <1>4 DEF GameInit, FirstTime

\* SpawnMonster: a monster that was coming has come.
LEMMA SpawnKeeps ==
    ASSUME Inv, SpawnMonster
    PROVE  Inv'
<1> USE DEF Inv, Membership
<1>1. /\ jobs # <<>> /\ Head(jobs).job = "SpawnMonster" /\ Done
      /\ UNCHANGED <<online, playerOf, sessionOf, playerCount, mapName, initialized, stepVars, endVars, inited>>
  BY DEF SpawnMonster, IsNext
<1>2. PICK monsters \in Fresh(1) :
         /\ objects' = objects \cup monsters
         /\ knows' = [p \in Players |-> knows[p] \cup IF p \in Broadcast(objects) THEN monsters ELSE {}]
  BY DEF SpawnMonster, Spawned, ToldAll
<1>3. monsters \subseteq Monsters \ objects /\ Cardinality(monsters) = 1
  BY <1>2 DEF Fresh, kSubset
<1>4. /\ SameNewcomers(jobs, jobs')
      /\ \A what \in WaveJobs \ {"SpawnMonster"} : Queued(what)' = Queued(what)
      /\ Queued("SpawnMonster")' = Queued("SpawnMonster") - 1
  BY <1>1, DoneKeepsNewcomers, WaveJobsAreJobs DEF JobNames, MonsterKinds
<1>5. InRoom' = InRoom
  BY <1>2, <1>3, IdsAreUnique DEF InRoom
<1>6. /\ NewcomersAreNew' /\ Histories' /\ WellFormed' /\ PlayersCounted' /\ EndsWithLastPlayer'
      /\ \A i \in DOMAIN jobs' : /\ jobs'[i].who \in Players \cup Monsters \cup {NoPlayer}
                                 /\ jobs'[i].target \in Players \cup {NoPlayer}
  <2>1. /\ sessionOf' = sessionOf /\ playerCount' = playerCount /\ exited' = exited
        /\ inited' \subseteq inited \cup InRoom /\ InRoom' \subseteq InRoom
    BY <1>1, <1>5 DEF endVars
  <2>2. ~initialized' => inited' = {}
    BY <1>1 DEF Histories
  <2>. QED
    BY <1>2, <1>4, <1>5, <2>1, <2>2, NewcomersKept
<1>7. TypeOK'
  <2>1. objects' \subseteq Players \cup Monsters
    BY <1>2, <1>3 DEF TypeOK
  <2>2. knows' \in [Players -> SUBSET (Players \cup Monsters)]
    BY <1>2, <1>3 DEF TypeOK
  <2>. QED
    BY <1>1, <1>6, <2>1, <2>2 DEF TypeOK, stepVars, endVars
<1>8. Known'
  <2>1. online' = online /\ sessionOf' = sessionOf /\ inited' = inited
    BY <1>1
  <2>2. Broadcast(objects)' = Broadcast(objects)
    BY <1>5, <2>1 DEF Broadcast, InRoom
  <2>3. ASSUME NEW p \in inited \cap Broadcast(objects)
        PROVE  (objects' \cap Monsters) \cup inited \subseteq knows'[p]
    <3>1. knows'[p] = knows[p] \cup monsters
      BY <1>2, <2>3 DEF Broadcast
    <3>2. (objects \cap Monsters) \cup inited \subseteq knows[p]
      BY <2>3 DEF Known
    <3>. QED
      BY <1>2, <3>1, <3>2
  <2>. QED
    BY <2>1, <2>2, <2>3 DEF Known
<1>9. WaveDue' = WaveDue /\ ClearDue' = ClearDue
  BY <1>1, <1>4 DEF WaveDue, ClearDue, WaveJobs, stepVars, endVars
<1>10. Come' = Come + 0
  <2>1. Cardinality(objects' \cap Monsters) = Cardinality(objects \cap Monsters) + 1
    BY <1>2, <1>3, MonstersAdded
  <2>2. /\ Queued("SpawnMonster") \in Nat /\ spawns' = spawns /\ spawns \in Nat
        /\ Cardinality(objects \cap Monsters) \in Nat
    BY <1>1, Numbers, MonstersAreCounted DEF stepVars, endVars, TypeOK
  <2>. QED
    BY <1>4, <2>1, <2>2 DEF Come
<1>11. FromMap' = FromMap + 0
  BY <1>1, WavesAreCounted DEF FromMap
<1>12. Waves'
  BY <1>1, <1>9, <1>10, <1>11, WavesShifted DEF stepVars, endVars
<1>13. Steps'
  BY <1>1, <1>4, <1>9 DEF Steps, WaveJobs, stepVars, endVars
<1>. QED
  BY <1>6, <1>7, <1>8, <1>12, <1>13

\* A timer that is due becomes a job; those of the waves are not counted twice.
LEMMA FireKeeps ==
    ASSUME Inv, NEW timer \in DOMAIN JobOf, Fire(timer)
    PROVE  Inv'
<1> USE DEF Inv, Membership
<1>1. /\ timer \in timers /\ timers' = timers \ {timer} /\ DoAsync(Job(JobOf[timer], NoPlayer))
      /\ UNCHANGED <<online, memberVars, mapName, initialized, step, spawns, announced, endVars, clientVars>>
  BY DEF Fire
<1>2. PICK j : j = Job(JobOf[timer], NoPlayer)
  OBVIOUS
<1>3. \/ timer = "update" /\ JobOf[timer] = "UpdateRoom"
      \/ timer = "wave" /\ JobOf[timer] = "StartWave"
      \/ timer = "clear" /\ JobOf[timer] = "ClearStage"
  BY DEF JobOf
<1>4. j \in Jobs /\ j.job = JobOf[timer]
  BY <1>2, <1>3, JobIsRecord DEF JobNames
<1>5. /\ SameNewcomers(jobs, jobs')
      /\ \A what \in JobNames : what = j.job => Queued(what)' = Queued(what) + 1
      /\ \A what \in JobNames \ {j.job} : Queued(what)' = Queued(what)
  BY <1>1, <1>2, <1>3, <1>4, AppendKeepsNewcomers DEF MonsterKinds
<1>6. Membership' /\ WellFormed' /\ Histories' /\ EndsWithLastPlayer' /\ Known'
  BY <1>1, <1>5, Quiet DEF memberVars, clientVars, endVars, TypeOK
<1>7. WaveDue' = WaveDue
  <2>1. Queued("StartWave") \in Nat
    BY Numbers
  <2>2. CASE timer = "wave"
    <3>1. Queued("StartWave")' = Queued("StartWave") + 1
      BY <1>3, <1>4, <1>5, <2>2 DEF JobNames
    <3>. QED
      BY <1>1, <2>1, <2>2, <3>1 DEF WaveDue
  <2>3. CASE timer # "wave"
    <3>1. Queued("StartWave")' = Queued("StartWave")
      BY <1>3, <1>4, <1>5, <2>3 DEF JobNames
    <3>. QED
      BY <1>1, <2>1, <2>3, <3>1 DEF WaveDue
  <2>. QED
    BY <2>2, <2>3
<1>8. ClearDue' = ClearDue
  <2>1. Queued("ClearStage") \in Nat
    BY Numbers
  <2>2. CASE timer = "clear"
    <3>1. Queued("ClearStage")' = Queued("ClearStage") + 1
      BY <1>3, <1>4, <1>5, <2>2 DEF JobNames
    <3>. QED
      BY <1>1, <2>1, <2>2, <3>1 DEF ClearDue
  <2>3. CASE timer # "clear"
    <3>1. Queued("ClearStage")' = Queued("ClearStage")
      BY <1>3, <1>4, <1>5, <2>3 DEF JobNames
    <3>. QED
      BY <1>1, <2>1, <2>3, <3>1 DEF ClearDue
  <2>. QED
    BY <2>2, <2>3
<1>9. /\ Queued("SpawnMonster")' = Queued("SpawnMonster")
      /\ Queued("HandleInteract")' = Queued("HandleInteract")
  BY <1>3, <1>4, <1>5 DEF JobNames
<1>10. Come' = Come + 0 /\ FromMap' = FromMap + 0
  <2>1. Come \in Nat /\ FromMap \in Nat
    BY Numbers
  <2>2. Come' = Come /\ FromMap' = FromMap
    BY <1>1, <1>9 DEF Come, FromMap, memberVars, endVars
  <2>. QED
    BY <2>1, <2>2
<1>11. Waves'
  BY <1>1, <1>7, <1>8, <1>10, WavesShifted
<1>12. Steps'
  BY <1>1, <1>8, <1>9 DEF Steps
<1>. QED
  BY <1>6, <1>11, <1>12

\* So is each of a wave's.
LEMMA FireSpawnKeeps ==
    ASSUME Inv, FireSpawn
    PROVE  Inv'
<1> USE DEF Inv, Membership
<1>1. /\ spawns > 0 /\ spawns' = spawns - 1 /\ DoAsync(Job("SpawnMonster", NoPlayer))
      /\ UNCHANGED <<online, memberVars, mapName, initialized, step, timers, announced, endVars, clientVars>>
  BY DEF FireSpawn
<1>2. PICK j : j = Job("SpawnMonster", NoPlayer)
  OBVIOUS
<1>3. j \in Jobs /\ j.job = "SpawnMonster"
  BY <1>2, JobIsRecord DEF JobNames
<1>4. /\ SameNewcomers(jobs, jobs')
      /\ Queued("SpawnMonster")' = Queued("SpawnMonster") + 1
      /\ \A what \in WaveJobs \ {"SpawnMonster"} : Queued(what)' = Queued(what)
  BY <1>1, <1>2, <1>3, AppendKeepsNewcomers, WaveJobsAreJobs DEF JobNames, MonsterKinds
<1>5. spawns \in Nat /\ spawns' \in Nat
  BY <1>1 DEF TypeOK
<1>6. Membership' /\ WellFormed' /\ Histories' /\ EndsWithLastPlayer' /\ Known'
  BY <1>1, <1>4, <1>5, Quiet DEF memberVars, clientVars, endVars, TypeOK
<1>7. WaveDue' = WaveDue /\ ClearDue' = ClearDue
  BY <1>1, <1>4 DEF WaveDue, ClearDue, WaveJobs
<1>8. Come' = Come + 0
  <2>1. Cardinality(objects \cap Monsters) \in Nat /\ Queued("SpawnMonster") \in Nat
    BY Numbers, MonstersAreCounted
  <2>2. objects' = objects
    BY <1>1 DEF memberVars, endVars
  <2>. QED
    BY <1>1, <1>4, <1>5, <2>1, <2>2 DEF Come
<1>9. FromMap' = FromMap + 0
  BY <1>1, WavesAreCounted DEF FromMap
<1>10. Waves'
  BY <1>1, <1>7, <1>8, <1>9, WavesShifted
<1>11. Steps'
  BY <1>1, <1>4, <1>7 DEF Steps, WaveJobs
<1>. QED
  BY <1>6, <1>10, <1>11

\* StartWave: it comes once, before any other monsters than those of the map.
LEMMA StartWaveKeeps ==
    ASSUME Inv, StartWave
    PROVE  Inv'
<1> USE DEF Inv, Membership
<1>1. /\ jobs # <<>> /\ Head(jobs).job = "StartWave" /\ Done
      /\ spawns' = spawns + Wave[step]
      /\ UNCHANGED <<online, memberVars, mapName, initialized, step, timers, announced, endVars, clientVars>>
  BY DEF StartWave, IsNext
<1>2. /\ SameNewcomers(jobs, jobs')
      /\ Queued("StartWave")' = Queued("StartWave") - 1
      /\ \A what \in WaveJobs \ {"StartWave"} : Queued(what)' = Queued(what)
  BY <1>1, DoneKeepsNewcomers, WaveJobsAreJobs DEF JobNames, MonsterKinds
<1>3. Queued("StartWave") \in Nat /\ Queued("StartWave")' \in Nat
  BY <1>2, CountsAreNumbers DEF WellFormed, SameNewcomers
<1>4. WaveDue = 1 /\ WaveDue' = 0
  <2>1. WaveDue >= 1 /\ WaveDue' = WaveDue - 1 /\ WaveDue \in Nat
    <3>1. CASE "wave" \in timers
      BY <1>1, <1>2, <1>3, <3>1 DEF WaveDue
    <3>2. CASE "wave" \notin timers
      BY <1>1, <1>2, <1>3, <3>2 DEF WaveDue
    <3>. QED
      BY <3>1, <3>2
  <2>. QED
    BY <2>1 DEF Waves
<1>5. ClearDue' = ClearDue
  BY <1>1, <1>2 DEF ClearDue, WaveJobs
<1>6. step \in Nat /\ step >= 2 /\ step \in 1..step /\ Wave[step] \in Nat
  BY <1>4, Numbers DEF Waves, TypeOK
<1>7. Come \in Nat /\ FromMap \in Nat /\ FromMap' = FromMap /\ Come <= FromMap
  BY <1>1, <1>4, Numbers DEF Waves, FromMap
<1>8. Come' = Come + Wave[step]
  <2>1. Cardinality(objects \cap Monsters) \in Nat /\ Queued("SpawnMonster") \in Nat /\ spawns \in Nat
    BY Numbers, MonstersAreCounted DEF TypeOK
  <2>2. objects' = objects /\ Queued("SpawnMonster")' = Queued("SpawnMonster")
    BY <1>1, <1>2 DEF memberVars, endVars, WaveJobs
  <2>. QED
    BY <1>1, <1>6, <2>1, <2>2 DEF Come
<1>9. Waves'
  <2>1. Come' <= FromMap' + Wave[step]
    BY <1>6, <1>7, <1>8
  <2>2. \E later \in {0} \cup {Wave[n] : n \in 1..step'} : Come' <= FromMap' + later
    BY <1>1, <1>6, <2>1
  <2>3. WaveDue' <= 1 /\ ClearDue' <= 1 /\ ~(step' < 2) /\ WaveDue' # 1
    BY <1>1, <1>4, <1>5, <1>6 DEF Waves
  <2>. QED
    BY ONLY <2>2, <2>3 DEF Waves
<1>10. Steps'
  BY <1>1, <1>2, <1>5 DEF Steps, WaveJobs
<1>11. spawns' \in Nat
  BY <1>1, <1>6 DEF TypeOK
<1>12. Membership' /\ WellFormed' /\ Histories' /\ EndsWithLastPlayer' /\ Known'
  BY <1>1, <1>2, <1>11, Quiet DEF memberVars, clientVars, endVars, TypeOK
<1>. QED
  BY <1>9, <1>10, <1>12

\* At a later step no other wave may come.
LEMMA LaterStep ==
    ASSUME Inv, step' = step + 1, Come' = Come, FromMap' = FromMap
    PROVE  \E later \in {0} \cup {Wave[n] : n \in 1..step'} : Come' <= FromMap' + later
<1>1. PICK later \in {0} \cup {Wave[n] : n \in 1..step} : Come <= FromMap + later
  BY DEF Inv, Waves
<1>2. 1..step \subseteq 1..step'
  BY Numbers
<1>3. later \in {0} \cup {Wave[n] : n \in 1..step'}
  BY <1>1, <1>2
<1>. QED
  BY <1>1, <1>3

\* ClearStage: it is the one step that no interaction asked for.
LEMMA ClearStageKeeps ==
    ASSUME Inv, ClearStage
    PROVE  Inv'
<1> USE DEF Inv, Membership
<1>1. /\ jobs # <<>> /\ Head(jobs).job = "ClearStage" /\ Done
      /\ step' = step + 1 /\ announced' = step'
      /\ UNCHANGED <<online, memberVars, mapName, initialized, timers, spawns, endVars, clientVars>>
  BY DEF ClearStage, IsNext, NextStep
<1>2. /\ SameNewcomers(jobs, jobs')
      /\ Queued("ClearStage")' = Queued("ClearStage") - 1
      /\ \A what \in WaveJobs \ {"ClearStage"} : Queued(what)' = Queued(what)
  BY <1>1, DoneKeepsNewcomers, WaveJobsAreJobs DEF JobNames, MonsterKinds
<1>3. Queued("ClearStage") \in Nat /\ Queued("ClearStage")' \in Nat
  BY <1>2, CountsAreNumbers DEF WellFormed, SameNewcomers
<1>4. ClearDue = 1 /\ ClearDue' = 0
  <2>1. ClearDue >= 1 /\ ClearDue' = ClearDue - 1 /\ ClearDue \in Nat
    <3>1. CASE "clear" \in timers
      BY <1>1, <1>2, <1>3, <3>1 DEF ClearDue
    <3>2. CASE "clear" \notin timers
      BY <1>1, <1>2, <1>3, <3>2 DEF ClearDue
    <3>. QED
      BY <3>1, <3>2
  <2>. QED
    BY <2>1 DEF Waves
<1>5. WaveDue' = WaveDue
  BY <1>1, <1>2 DEF WaveDue, WaveJobs
<1>6. step \in Nat /\ step >= 2
  BY <1>4, Numbers DEF Waves, TypeOK
<1>7. Come' = Come /\ FromMap' = FromMap
  BY <1>1, <1>2 DEF Come, FromMap, memberVars, endVars, WaveJobs
<1>8. Waves'
  <2>1. \E later \in {0} \cup {Wave[n] : n \in 1..step'} : Come' <= FromMap' + later
    BY <1>1, <1>7, LaterStep
  <2>2. WaveDue' <= 1 /\ ClearDue' <= 1 /\ ~(step' < 2)
    BY <1>1, <1>4, <1>5, <1>6 DEF Waves
  <2>3. WaveDue' = 1 => Come' <= FromMap'
    BY <1>5, <1>7 DEF Waves
  <2>. QED
    BY ONLY <2>1, <2>2, <2>3 DEF Waves
<1>9. Steps'
  <2>1. Queued("HandleInteract")' = Queued("HandleInteract") /\ Queued("HandleInteract") \in Nat
    BY <1>2, Numbers DEF WaveJobs
  <2>. QED
    BY <1>1, <1>4, <1>6, <2>1, WavesAreCounted DEF Steps
<1>10. Membership' /\ WellFormed' /\ Histories' /\ EndsWithLastPlayer' /\ Known'
  BY <1>1, <1>2, <1>6, Quiet DEF memberVars, clientVars, endVars, TypeOK
<1>. QED
  BY <1>8, <1>9, <1>10

\* HandleInteract: the timers of the Hangar are set when the second step comes,
\* and it comes once.
LEMMA InteractKeeps ==
    ASSUME Inv, HandleInteract
    PROVE  Inv'
<1> USE DEF Inv, Membership
<1>1. /\ jobs # <<>> /\ Head(jobs).job = "HandleInteract" /\ Done
      /\ UNCHANGED <<online, memberVars, mapName, initialized, spawns, endVars, clientVars>>
  BY DEF HandleInteract, IsNext
<1>2. /\ SameNewcomers(jobs, jobs')
      /\ Queued("HandleInteract")' = Queued("HandleInteract") - 1
      /\ \A what \in WaveJobs \ {"HandleInteract"} : Queued(what)' = Queued(what)
  BY <1>1, DoneKeepsNewcomers, WaveJobsAreJobs DEF JobNames, MonsterKinds
<1>3. /\ Queued("HandleInteract") \in Nat /\ Queued("StartWave") \in Nat /\ Queued("ClearStage") \in Nat
      /\ step \in Nat /\ MaxStep \in Nat
  BY Numbers, WavesAreCounted DEF TypeOK
<1>4. Come' = Come /\ FromMap' = FromMap
  BY <1>1, <1>2 DEF Come, FromMap, memberVars, endVars, WaveJobs
<1>5. CASE UNCHANGED <<step, announced, timers>>
  <2>1. WaveDue' = WaveDue /\ ClearDue' = ClearDue
    BY <1>2, <1>5 DEF WaveDue, ClearDue, WaveJobs
  <2>2. Waves'
    BY <1>4, <1>5, <2>1 DEF Waves
  <2>3. Steps'
    BY <1>2, <1>3, <1>5, <2>1 DEF Steps
  <2>4. Membership' /\ WellFormed' /\ Histories' /\ EndsWithLastPlayer' /\ Known'
    BY <1>1, <1>2, <1>5, Quiet DEF memberVars, clientVars, endVars, TypeOK
  <2>. QED
    BY <2>2, <2>3, <2>4
<1>6. CASE HangarInteract
  <2>1. /\ step' = step + 1 /\ announced' = step'
        /\ step' = 2 => timers' = timers \cup {"wave", "clear"}
        /\ step' # 2 => timers' = timers
    BY <1>6 DEF HangarInteract, NextStep, IsWaveStep
  <2>2. \E later \in {0} \cup {Wave[n] : n \in 1..step'} : Come' <= FromMap' + later
    BY <1>4, <2>1, LaterStep
  <2>3. ASSUME step' # 2
        PROVE  Waves' /\ Steps'
    <3>1. WaveDue' = WaveDue /\ ClearDue' = ClearDue
      BY <1>2, <2>1, <2>3 DEF WaveDue, ClearDue, WaveJobs
    <3>2. step' < 2 <=> step < 2
      BY <1>3, <2>1, <2>3
    <3>3. Waves'
      BY <1>4, <2>2, <3>1, <3>2 DEF Waves
    <3>4. Steps'
      BY <1>2, <1>3, <2>1, <3>1, <3>2 DEF Steps
    <3>. QED
      BY <3>3, <3>4
  <2>4. ASSUME step' = 2
        PROVE  Waves' /\ Steps'
    <3>1. step = 1 /\ WaveDue = 0 /\ ClearDue = 0 /\ Come <= FromMap
      BY <1>3, <2>1, <2>4 DEF Waves
    <3>2. Queued("StartWave") = 0 /\ Queued("ClearStage") = 0
      BY <1>3, <3>1 DEF WaveDue, ClearDue
    <3>3. WaveDue' = 1 /\ ClearDue' = 1
      BY <1>2, <2>1, <2>4, <3>2 DEF WaveDue, ClearDue, WaveJobs
    <3>4. Waves'
      BY <1>4, <2>2, <2>4, <3>1, <3>3 DEF Waves
    <3>5. Steps'
      BY <1>2, <1>3, <2>1, <2>4, <3>1, <3>3 DEF Steps
    <3>. QED
      BY <3>4, <3>5
  <2>5. step' \in Nat /\ timers' \subseteq DOMAIN JobOf
    BY <1>3, <2>1 DEF TypeOK, JobOf
  <2>6. Membership' /\ WellFormed' /\ Histories' /\ EndsWithLastPlayer' /\ Known'
    BY <1>1, <1>2, <2>1, <2>5, Quiet DEF memberVars, clientVars, endVars, TypeOK
  <2>. QED
    BY <2>3, <2>4, <2>6
<1>. QED
  BY <1>5, <1>6 DEF HandleInteract

-----------------------------------------------------------------------------
\* The Room is empty at first, and nothing is queued.
LEMMA InitInv == Init => Inv
<1> SUFFICES ASSUME Init
             PROVE  Inv
  OBVIOUS
<1> USE DEF Init
<1>1. jobs = <<>> /\ jobs \in Seq(Jobs) /\ DOMAIN jobs = {}
  BY EmptySeq
<1>2. InRoom = {} /\ IsFiniteSet(InRoom) /\ Cardinality(InRoom) = 0
  BY FS_EmptySet DEF InRoom
<1>3. \A what : Queued(what) = 0
  <2>1. ASSUME NEW what
        PROVE  Queued(what) = 0
    <3>1. {i \in DOMAIN jobs : jobs[i].job = what} = {}
      BY <1>1
    <3>. QED
      BY <3>1, FS_EmptySet DEF Queued
  <2>. QED
    BY <2>1
<1>4. TypeOK
  <2>1. timers \subseteq DOMAIN JobOf
    BY DEF JobOf
  <2>2. \A i \in DOMAIN jobs : jobs[i].who \in Players \cup Monsters \cup {NoPlayer} /\ jobs[i].target \in Players \cup {NoPlayer}
    BY <1>1
  <2>3. /\ playerOf \in [Sessions -> Players \cup {NoPlayer}]
        /\ sessionOf \in [Players -> Sessions \cup {NoSession}]
        /\ knows \in [Players -> SUBSET (Players \cup Monsters)]
    OBVIOUS
  <2>4. /\ online \subseteq Sessions /\ objects \subseteq Players \cup Monsters
        /\ inited \subseteq Players
    OBVIOUS
  <2>5. playerCount \in Int /\ step \in Nat /\ announced \in Nat /\ spawns \in Nat
    OBVIOUS
  <2>6. mapName \in Maps \cup {"none"} /\ initialized \in BOOLEAN /\ exited \in BOOLEAN /\ crashed \in BOOLEAN
    BY Zenon
  <2>. QED
    BY ONLY <2>1, <2>2, <2>3, <2>4, <2>5, <2>6 DEF TypeOK
<1>5. Membership
  BY <1>1, <1>2, <1>4 DEF Membership, PlayersCounted, NewcomersAreNew
<1>6. WellFormed /\ Histories
  BY <1>1, <1>2 DEF WellFormed, Histories
<1>7. EndsWithLastPlayer
  BY NoSessionIsNone DEF EndsWithLastPlayer, Entered
<1>8. Known
  BY DEF Known
<1>9. WaveDue = 0 /\ ClearDue = 0
  BY <1>3 DEF WaveDue, ClearDue
<1>10. Come = 0 /\ FromMap = 0
  <2>1. objects \cap Monsters = {}
    OBVIOUS
  <2>2. Cardinality(objects \cap Monsters) = 0
    BY <2>1, FS_EmptySet
  <2>. QED
    BY <1>3, <2>2 DEF Come, FromMap
<1>11. Waves /\ Steps
  BY <1>3, <1>9, <1>10, WavesAreCounted DEF Waves, Steps
<1>. QED
  BY <1>5, <1>6, <1>7, <1>8, <1>11 DEF Inv

\* Every step of the Room, and of those who queue jobs for it, preserves it.
LEMMA NextKeeps == Inv /\ [Next]_vars => Inv'
<1> SUFFICES ASSUME Inv, [Next]_vars
             PROVE  Inv'
  OBVIOUS
<1>1. ASSUME ~exited, NEW s \in Sessions,
             Handle_C_ENTER_ROOM(s) \/ Handle_C_LEAVE_GAME(s) \/ HandlePacket(s) \/ Disconnect(s)
      PROVE  Inv'
  BY <1>1, EnterRoomAskedKeeps, LeaveGameKeeps, HandlePacketKeeps, DisconnectKeeps
<1>2. ASSUME ~exited, RunJob
      PROVE  Inv'
  BY <1>2, EnterRoomKeeps, RelayKeeps, HitKeeps, GameInitKeeps, LeaveKeeps, InteractKeeps, UpdateRoomKeeps,
     StartWaveKeeps, SpawnKeeps, ClearStageKeeps DEF RunJob
<1>3. ASSUME ~exited, NEW timer \in DOMAIN JobOf, Fire(timer)
      PROVE  Inv'
  BY <1>3, FireKeeps
<1>4. ASSUME ~exited, FireSpawn
      PROVE  Inv'
  BY <1>4, FireSpawnKeeps
<1>5. CASE UNCHANGED vars
  <2>1. /\ online' = online /\ jobs' = jobs
        /\ UNCHANGED <<memberVars, mapName, initialized, stepVars, endVars, clientVars>>
    BY <1>5 DEF vars
  <2>2. SameNewcomers(jobs, jobs')
    BY <2>1 DEF SameNewcomers, Inv, Membership, NewcomersAreNew, WellFormed, Histories
  <2>3. \A what : Queued(what)' = Queued(what)
    BY <2>1 DEF Queued
  <2>4. Membership' /\ WellFormed' /\ Histories' /\ EndsWithLastPlayer' /\ Known'
    BY <2>1, <2>2, Quiet DEF memberVars, stepVars, clientVars, endVars, Inv, Membership, TypeOK
  <2>5. Waves' /\ Steps'
    BY <2>1, <2>3, WavesKept DEF memberVars, stepVars, endVars
  <2>. QED
    BY <2>4, <2>5 DEF Inv
<1>. QED
  BY <1>1, <1>2, <1>3, <1>4, <1>5 DEF Next, Running

\* The invariant holds.
LEMMA Invariance == Spec => []Inv
<1>. QED
  BY InitInv, NextKeeps, PTL DEF Spec

\* _playerCount counts the players in _objects, and who waits to enter is new,
\* whatever the clients ask for and however often, and whoever goes.
THEOREM CountIsRight == Spec => []Membership
<1>1. Inv => Membership
  BY DEF Inv
<1>. QED
  BY <1>1, Invariance, PTL

\* quick_exit is called by the HandleLeavePlayer of the last player who was let
\* in, and by no other.
THEOREM LastOneOut == Spec => []EndsWithLastPlayer
<1>1. Inv => EndsWithLastPlayer
  BY DEF Inv
<1>. QED
  BY <1>1, Invariance, PTL

\* A client that got S_GAME_INIT was told of every monster in the Room and of every
\* other client that got it, and so of all that the Room's own news of its monsters
\* names, but for the targets that came to the Room later.
THEOREM InitializedAreAcquainted == Spec => []Acquainted
<1>1. ASSUME Inv
      PROVE  Acquainted
  <2>1. ASSUME NEW p \in inited \cap Broadcast(objects), NEW i \in OfMonsters
        PROVE  /\ jobs[i].who \in knows[p]
               /\ jobs[i].target \in knows[p] \cup {NoPlayer} \cup (Players \ inited)
    <3>1. i \in DOMAIN jobs /\ jobs[i].job \in MonsterKinds
      BY DEF OfMonsters, MonsterKinds
    <3>2. jobs[i].who \in objects \cap Monsters /\ jobs[i].target \in Players \cup {NoPlayer}
      BY <1>1, <3>1 DEF Inv, Histories, Membership, TypeOK
    <3>. QED
      BY <1>1, <3>2 DEF Inv, Known
  <2>. QED
    BY <1>1, <2>1 DEF Inv, Known, Acquainted
<1>. QED
  BY <1>1, Invariance, PTL

\* The monsters of the map come once, and those of one wave.
THEOREM OneWave == Spec => []MonstersComeOnce
<1>1. ASSUME Inv
      PROVE  MonstersComeOnce
  <2>1. /\ Come \in Nat /\ FromMap \in Nat /\ FromMap <= FirstMonsters /\ FirstMonsters \in Nat
        /\ \A n \in 1..step : Wave[n] \in Nat
    BY <1>1, Numbers, WavesAreCounted DEF FromMap
  <2>2. PICK later \in {0} \cup {Wave[n] : n \in 1..step} : Come <= FromMap + later
    BY <1>1 DEF Inv, Waves
  <2>3. later \in Nat
    BY <2>1
  <2>4. Come <= FirstMonsters + later
    BY <2>1, <2>2, <2>3
  <2>5. Cardinality(objects \cap Monsters) + (spawns + Queued("SpawnMonster")) = Come
    <3>1. spawns \in Nat /\ Queued("SpawnMonster") \in Nat /\ Cardinality(objects \cap Monsters) \in Nat
      BY <1>1, Numbers, MonstersAreCounted DEF Inv, Membership, TypeOK
    <3>. QED
      BY <3>1 DEF Come
  <2>. QED
    BY <2>2, <2>4, <2>5 DEF MonstersComeOnce
<1>. QED
  BY <1>1, Invariance, PTL
=============================================================================
