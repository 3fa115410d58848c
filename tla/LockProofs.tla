------------------------------- MODULE LockProofs -------------------------------
(***************************************************************************)
(* Theorems about Lock, for any finite set of threads and any way to nest  *)
(* guards that WriteUnlock accepts.                                        *)
(***************************************************************************)
EXTENDS Lock, FiniteSetTheorems, SequenceTheorems, TLAPS

Kinds == {"read", "write"}

\* A way to nest guards is a sequence; the guards of one kind in it are finitely
\* many.
LEMMA ScopeIsSequence ==
    ASSUME NEW s \in Scopes, NEW kind
    PROVE  /\ s \in Seq(Kinds) /\ Len(s) \in Nat /\ DOMAIN s = 1..Len(s)
           /\ s # <<>> => Len(s) >= 1
           /\ \A i \in 1..Len(s) : s[i] \in Kinds
           /\ IsFiniteSet({i \in DOMAIN s : s[i] = kind})
<1>1. s \in Seq(Kinds)
  BY ScopesOfGuards DEF Kinds
<1>2. /\ Len(s) \in Nat /\ DOMAIN s = 1..Len(s)
      /\ s # <<>> => Len(s) >= 1
      /\ \A i \in 1..Len(s) : s[i] \in Kinds
  BY <1>1, LenProperties, EmptySeq, ElementOfSeq
<1>3. IsFiniteSet(1..Len(s))
  BY <1>2, FS_Interval
<1>4. {i \in DOMAIN s : s[i] = kind} \in SUBSET (1..Len(s))
  BY <1>2
<1>5. IsFiniteSet({i \in DOMAIN s : s[i] = kind})
  BY <1>3, <1>4, FS_Subset
<1>. QED
  BY <1>1, <1>2, <1>5

\* The guards that all threads have are finitely many, and no more than a half of the word can count.
LEMMA GuardsInFinite ==
    ASSUME NEW nested \in [Threads -> Scopes], NEW kind \in Kinds
    PROVE  /\ IsFiniteSet(GuardsIn(nested, kind))
           /\ Cardinality(GuardsIn(nested, kind)) \in 0..MaxCount
<1> DEFINE Of(t) == {t} \X {i \in DOMAIN nested[t] : nested[t][i] = kind}
           f == [t \in Threads |-> Of(t)]
<1>1. ASSUME NEW t \in Threads
      PROVE  IsFiniteSet(Of(t))
  <2>1. IsFiniteSet({i \in DOMAIN nested[t] : nested[t][i] = kind})
    BY ScopeIsSequence
  <2>. QED
    BY <2>1, FS_Singleton, FS_Product
<1>2. f \in Surjection(Threads, {Of(t) : t \in Threads})
  BY DEF Surjection
<1>3. IsFiniteSet({Of(t) : t \in Threads})
  BY <1>2, ThreadIds, FS_Surjection
<1>4. IsFiniteSet(UNION {Of(t) : t \in Threads})
  BY <1>1, <1>3, FS_UNION
<1>5. IsFiniteSet(GuardsIn(nested, kind))
  BY <1>4 DEF GuardsIn
<1>6. Cardinality(GuardsIn(nested, kind)) <= MaxCount
  BY CountsFit DEF Kinds
<1>. QED
  BY <1>5, <1>6, FS_CardinalityType, MaxCountIsNumber

\* Where the guards of a kind are in a sequence of them.
Held(s, kind) == {i \in DOMAIN s : s[i] = kind}

\* One guard more at the end of a sequence of them ...
LEMMA GuardAppended ==
    ASSUME NEW s \in Scopes, NEW kind \in Kinds, Append(s, kind) \in Scopes, NEW k
    PROVE  /\ Len(Append(s, kind)) = Len(s) + 1
           /\ \A i \in 1..Len(s) : Append(s, kind)[i] = s[i]
           /\ Append(s, kind)[Len(s) + 1] = kind
           /\ Held(Append(s, kind), k) = Held(s, k) \cup IF k = kind THEN {Len(s) + 1} ELSE {}
           /\ Cardinality(Held(Append(s, kind), k)) = Cardinality(Held(s, k)) + IF k = kind THEN 1 ELSE 0
<1> DEFINE a == Append(s, kind)
<1>1. /\ s \in Seq(Kinds) /\ Len(s) \in Nat /\ DOMAIN s = 1..Len(s) /\ DOMAIN a = 1..Len(a)
      /\ IsFiniteSet(Held(s, k))
  BY ScopeIsSequence DEF Held
<1>2. /\ Len(a) = Len(s) + 1
      /\ \A i \in 1..Len(s) : a[i] = s[i]
      /\ a[Len(s) + 1] = kind
  BY <1>1, AppendProperties
<1> HIDE DEF a
<1>3. Held(a, k) = Held(s, k) \cup IF k = kind THEN {Len(s) + 1} ELSE {}
  BY <1>1, <1>2 DEF Held
<1>4. Len(s) + 1 \notin Held(s, k)
  BY <1>1 DEF Held
<1>5. Cardinality(Held(s, k)) \in Nat
  BY <1>1, FS_CardinalityType
<1>6. Cardinality(Held(a, k)) = Cardinality(Held(s, k)) + IF k = kind THEN 1 ELSE 0
  <2>1. CASE k = kind
    BY <1>1, <1>3, <1>4, <1>5, <2>1, FS_AddElement
  <2>2. CASE k # kind
    BY <1>3, <1>5, <2>2
  <2>. QED
    BY <2>1, <2>2
<1>. QED
  BY <1>2, <1>3, <1>6 DEF a

\* ... and one less.
LEMMA GuardRemoved ==
    ASSUME NEW s \in Scopes, s # <<>>, NEW k
    PROVE  LET r == SubSeq(s, 1, Len(s) - 1) IN
           /\ r \in Scopes
           /\ Len(r) = Len(s) - 1
           /\ \A i \in 1..(Len(s) - 1) : r[i] = s[i]
           /\ Held(r, k) = Held(s, k) \ {Len(s)}
           /\ Cardinality(Held(r, k)) = Cardinality(Held(s, k)) - IF k = s[Len(s)] THEN 1 ELSE 0
<1> DEFINE r == SubSeq(s, 1, Len(s) - 1)
<1>1. /\ s \in Seq(Kinds) /\ Len(s) \in Nat /\ Len(s) >= 1 /\ DOMAIN s = 1..Len(s)
      /\ \A i \in 1..Len(s) : s[i] \in Kinds
      /\ IsFiniteSet(Held(s, k))
  BY ScopeIsSequence DEF Held
<1>2. r \in Scopes
  BY ScopesNest
<1>3. \A i \in 1..(Len(s) - 1) : s[i] \in Kinds
  BY <1>1
<1>4. Len(r) = Len(s) - 1 /\ \A i \in 1..(Len(s) - 1) : r[i] = s[i]
  BY <1>1, <1>3, SubSeqProperties
<1>5. DOMAIN r = 1..Len(r)
  BY <1>2, ScopeIsSequence
<1> HIDE DEF r
<1>6. Held(r, k) = Held(s, k) \ {Len(s)}
  BY <1>1, <1>4, <1>5 DEF Held
<1>7. Len(s) \in Held(s, k) <=> k = s[Len(s)]
  BY <1>1 DEF Held
<1>8. Cardinality(Held(s, k)) \in Nat
  BY <1>1, FS_CardinalityType
<1>a. Cardinality(Held(r, k)) = IF Len(s) \in Held(s, k) THEN Cardinality(Held(s, k)) - 1
                                                      ELSE Cardinality(Held(s, k))
  BY <1>1, <1>6, FS_RemoveElement
<1>9. Cardinality(Held(r, k)) = Cardinality(Held(s, k)) - IF k = s[Len(s)] THEN 1 ELSE 0
  BY <1>a, <1>7, <1>8
<1>. QED
  BY <1>2, <1>4, <1>6, <1>9 DEF r

\* A thread has no more guards of a kind than a half of the word can count.
LEMMA HeldFits ==
    ASSUME NEW s \in Scopes, NEW kind \in Kinds, NEW t \in Threads
    PROVE  Cardinality(Held(s, kind)) \in 0..MaxCount
<1> DEFINE only == [u \in Threads |-> IF u = t THEN s ELSE <<>>]
<1>1. only \in [Threads -> Scopes]
  BY ScopesNest
<1>2. IsFiniteSet(Held(s, kind))
  BY ScopeIsSequence DEF Held
<1>3. GuardsIn(only, kind) = {t} \X Held(s, kind)
  <2>1. only[t] = s /\ \A u \in Threads \ {t} : DOMAIN only[u] = {}
    OBVIOUS
  <2> HIDE DEF only
  <2>. QED
    BY <2>1 DEF GuardsIn, Held
<1>4. Cardinality({t} \X Held(s, kind)) = Cardinality({t}) * Cardinality(Held(s, kind))
  <2>1. IsFiniteSet({t})
    BY FS_Singleton
  <2>. QED
    BY <1>2, <2>1, FS_Product
<1>5. Cardinality(Held(s, kind)) \in Nat
  BY <1>2, FS_CardinalityType
<1>6. Cardinality({t}) = 1
  BY FS_Singleton
<1>7. Cardinality(GuardsIn(only, kind)) = Cardinality(Held(s, kind))
  <2>1. \A c \in Nat : 1 * c = c
    OBVIOUS
  <2> HIDE DEF only
  <2>. QED
    BY <1>3, <1>4, <1>5, <1>6, <2>1
<1>8. Cardinality(GuardsIn(only, kind)) \in 0..MaxCount
  <2> HIDE DEF only
  <2>. QED
    BY <1>1, GuardsInFinite
<1>. QED
  BY <1>7, <1>8

\* Two ways to nest guards that differ in one guard of a kind, of one thread,
\* differ by one in the number of guards of that kind ...
LEMMA OneGuardMore ==
    ASSUME NEW fewer \in [Threads -> Scopes], NEW more \in [Threads -> Scopes],
           NEW k \in Kinds, NEW t \in Threads, NEW i,
           \A u \in Threads \ {t} : more[u] = fewer[u],
           i \notin Held(fewer[t], k), Held(more[t], k) = Held(fewer[t], k) \cup {i}
    PROVE  Cardinality(GuardsIn(more, k)) = Cardinality(GuardsIn(fewer, k)) + 1
<1>1. \A u \in Threads : \A m : m \in Held(more[u], k) <=> m \in Held(fewer[u], k) \/ (u = t /\ m = i)
  OBVIOUS
<1>2. /\ \A x : x \in GuardsIn(more, k) <=> \E u \in Threads : \E m \in Held(more[u], k) : x = <<u, m>>
      /\ \A x : x \in GuardsIn(fewer, k) <=> \E u \in Threads : \E m \in Held(fewer[u], k) : x = <<u, m>>
  BY DEF GuardsIn, Held
<1>3. ASSUME NEW x
      PROVE  x \in GuardsIn(more, k) <=> x \in GuardsIn(fewer, k) \/ x = <<t, i>>
  BY <1>1, <1>2
<1>4. GuardsIn(more, k) = GuardsIn(fewer, k) \cup {<<t, i>>}
  BY <1>3
<1>5. <<t, i>> \notin GuardsIn(fewer, k)
  BY <1>2
<1>6. IsFiniteSet(GuardsIn(fewer, k))
  BY GuardsInFinite
<1>. QED
  BY <1>4, <1>5, <1>6, FS_AddElement

\* ... and if they differ in none, the number is the same.
LEMMA SameGuards ==
    ASSUME NEW nested \in [Threads -> Scopes], NEW after \in [Threads -> Scopes], NEW k,
           \A u \in Threads : Held(after[u], k) = Held(nested[u], k)
    PROVE  GuardsIn(after, k) = GuardsIn(nested, k)
BY DEF GuardsIn, Held

-----------------------------------------------------------------------------
\* What constructing a guard changes.
LEMMA AfterOpened ==
    ASSUME TypeOK, NEW t \in Threads, NEW kind \in Kinds,
           Append(guards[t], kind) \in Scopes, Opened(t, kind)
    PROVE  /\ guards' \in [Threads -> Scopes]
           /\ guards'[t] = Append(guards[t], kind)
           /\ \A u \in Threads \ {t} : guards'[u] = guards[u]
           /\ \A k \in Kinds : Cardinality(GuardsIn(guards', k)) =
                                  Cardinality(GuardsIn(guards, k)) + IF k = kind THEN 1 ELSE 0
<1>1. /\ guards \in [Threads -> Scopes] /\ guards' \in [Threads -> Scopes]
      /\ guards'[t] = Append(guards[t], kind)
      /\ \A u \in Threads \ {t} : guards'[u] = guards[u]
  BY DEF Opened, TypeOK
<1>2. ASSUME NEW k \in Kinds
      PROVE  Cardinality(GuardsIn(guards', k)) =
                Cardinality(GuardsIn(guards, k)) + IF k = kind THEN 1 ELSE 0
  <2>1. Held(guards'[t], k) = Held(guards[t], k) \cup IF k = kind THEN {Len(guards[t]) + 1} ELSE {}
    BY <1>1, GuardAppended
  <2>2. Len(guards[t]) + 1 \notin Held(guards[t], k)
    BY <1>1, ScopeIsSequence DEF Held
  <2>3. CASE k = kind
    BY <1>1, <2>1, <2>2, <2>3, OneGuardMore
  <2>4. CASE k # kind
    <3>1. \A u \in Threads : Held(guards'[u], k) = Held(guards[u], k)
      BY <1>1, <2>1, <2>4
    <3>2. GuardsIn(guards', k) = GuardsIn(guards, k)
      BY <1>1, <3>1, SameGuards
    <3>3. Cardinality(GuardsIn(guards, k)) \in 0..MaxCount
      BY <1>1, GuardsInFinite
    <3>. QED
      BY <2>4, <3>2, <3>3, MaxCountIsNumber
  <2>. QED
    BY <2>3, <2>4
<1>. QED
  BY <1>1, <1>2

\* What destroying one changes.
LEMMA AfterClosed ==
    ASSUME TypeOK, NEW t \in Threads, guards[t] # <<>>, Closed(t)
    PROVE  /\ guards' \in [Threads -> Scopes]
           /\ guards'[t] = SubSeq(guards[t], 1, Len(guards[t]) - 1)
           /\ \A u \in Threads \ {t} : guards'[u] = guards[u]
           /\ \A k \in Kinds : Cardinality(GuardsIn(guards', k)) =
                                  Cardinality(GuardsIn(guards, k)) - IF k = Innermost(t) THEN 1 ELSE 0
<1>1. /\ guards \in [Threads -> Scopes] /\ guards' \in [Threads -> Scopes]
      /\ guards'[t] = SubSeq(guards[t], 1, Len(guards[t]) - 1)
      /\ \A u \in Threads \ {t} : guards'[u] = guards[u]
  BY ScopesNest DEF Closed, TypeOK
<1>2. ASSUME NEW k \in Kinds
      PROVE  Cardinality(GuardsIn(guards', k)) =
                Cardinality(GuardsIn(guards, k)) - IF k = Innermost(t) THEN 1 ELSE 0
  <2>1. Held(guards'[t], k) = Held(guards[t], k) \ {Len(guards[t])}
    BY <1>1, GuardRemoved
  <2>2. Len(guards[t]) \in Held(guards[t], k) <=> k = Innermost(t)
    BY <1>1, ScopeIsSequence DEF Held, Innermost
  <2>3. /\ Cardinality(GuardsIn(guards, k)) \in 0..MaxCount
        /\ Cardinality(GuardsIn(guards', k)) \in 0..MaxCount
    BY <1>1, GuardsInFinite
  <2>4. CASE k = Innermost(t)
    <3>1. /\ Held(guards[t], k) = Held(guards'[t], k) \cup {Len(guards[t])}
          /\ Len(guards[t]) \notin Held(guards'[t], k)
      BY <2>1, <2>2, <2>4
    <3>2. Cardinality(GuardsIn(guards, k)) = Cardinality(GuardsIn(guards', k)) + 1
      BY <1>1, <3>1, OneGuardMore
    <3>. QED
      BY <2>3, <2>4, <3>2, MaxCountIsNumber
  <2>5. CASE k # Innermost(t)
    <3>1. \A u \in Threads : Held(guards'[u], k) = Held(guards[u], k)
      BY <1>1, <2>1, <2>2, <2>5
    <3>2. GuardsIn(guards', k) = GuardsIn(guards, k)
      BY <1>1, <3>1, SameGuards
    <3>. QED
      BY <2>3, <2>5, <3>2, MaxCountIsNumber
  <2>. QED
    BY <2>4, <2>5
<1>. QED
  BY <1>1, <1>2

\* When the word is empty, no thread has a guard or owns the word.
LEMMA FreeMeansNoGuards ==
    ASSUME IndInv, Free
    PROVE  \A u \in Threads : guards[u] = <<>> /\ ~Owns(u)
<1> USE DEF IndInv
<1>1. lockFlag.owner = 0 /\ lockFlag.count = 0
  BY DEF Free, EMPTY_FLAG, Flag
<1>2. \A u \in Threads : ~Owns(u)
  BY <1>1, ThreadIds DEF FlagIsExact
<1>3. GuardsIn(guards, "read") = {}
  <2>1. IsFiniteSet(GuardsIn(guards, "read"))
    BY GuardsInFinite DEF TypeOK, Kinds
  <2>. QED
    BY <1>1, <2>1, FS_EmptySet DEF FlagIsExact, ReadGuards
<1>4. ASSUME NEW u \in Threads, guards[u] # <<>>
      PROVE  FALSE
  <2>1. guards[u] \in Scopes
    BY DEF TypeOK
  <2>a. /\ Len(guards[u]) \in Nat /\ DOMAIN guards[u] = 1..Len(guards[u]) /\ Len(guards[u]) >= 1
        /\ \A i \in 1..Len(guards[u]) : guards[u][i] \in Kinds
    BY <1>4, <2>1, ScopeIsSequence
  <2>2. 1 \in DOMAIN guards[u] /\ guards[u][1] \in Kinds
    BY <2>a
  <2>3. ASSUME guards[u][1] = "read"
        PROVE  FALSE
    <3>1. <<u, 1>> \in GuardsIn(guards, "read")
      BY <2>2, <2>3 DEF GuardsIn
    <3>. QED
      BY <1>3, <3>1
  <2>4. Owns(u)
    BY <2>2, <2>3 DEF Owns, Writes, Guards, Kinds
  <2>. QED
    BY <1>2, <2>4
<1>. QED
  BY <1>2, <1>4

\* The thread that owns the word is alone, and when its innermost guard is a write
\* guard, there is no reader.
LEMMA OwnerIsAlone ==
    ASSUME IndInv, NEW t \in Threads, Owns(t)
    PROVE  /\ lockFlag.owner = t
           /\ \A u \in Threads \ {t} : /\ guards[u] = <<>> /\ ~Owns(u)
                                       /\ at[u] \notin {"addRead", "count", "uncount", "release"}
           /\ guards[t] # <<>> /\ Innermost(t) = "write" => lockFlag.count = 0
<1> USE DEF IndInv
<1>1. lockFlag.owner = t /\ \A u \in Threads \ {t} : guards[u] = <<>> /\ ~Owns(u)
  BY DEF FlagIsExact, OwnsAlone
<1>2. ASSUME NEW u \in Threads \ {t}
      PROVE  at[u] \notin {"addRead", "count", "uncount", "release"}
  BY <1>1 DEF TestsHold, Owns
<1>3. ASSUME guards[t] # <<>>, Innermost(t) = "write"
      PROVE  lockFlag.count = 0
  <2>1. guards[t] \in Scopes /\ Len(guards[t]) \in DOMAIN guards[t]
    BY <1>3, ScopeIsSequence DEF TypeOK
  <2>2. guards[t][1] = "write"
    BY <1>3 DEF OwnsAlone
  <2>3. ASSUME NEW i \in DOMAIN guards[t], guards[t][i] = "read"
        PROVE  FALSE
    <3>1. Len(guards[t]) < i
      BY <1>3, <2>1, <2>2, <2>3, ReadsAreInnermost DEF Innermost
    <3>. QED
      BY <2>1, <3>1, ScopeIsSequence
  <2>4. \A u \in Threads \ {t} : DOMAIN guards[u] = {}
    BY <1>1
  <2>5. GuardsIn(guards, "read") = {}
    BY <2>3, <2>4 DEF GuardsIn
  <2>. QED
    BY <2>5, FS_EmptySet DEF FlagIsExact, ReadGuards
<1>. QED
  BY <1>1, <1>2, <1>3

-----------------------------------------------------------------------------
\* A thread that moves from place to place, with the word, the counter and the
\* guards as they are, keeps the invariant if what the places say is so.
LEMMA MoveKeeps ==
    ASSUME IndInv, NEW t \in Threads, NEW place \in Places \ {"release"}, Goto(t, place),
           UNCHANGED <<lockFlag, writeCount, guards>>,
           expected' \in [Threads -> 0..MaxCount],
           crashed' \in {"no", "LOCK_TIMEOUT", "INVALID_UNLOCK_ORDER", "MULTIPLE_UNLOCK"},
           at[t] \notin {"count", "release"},
           place \in {"count", "addRead", "uncount"} => Writes(t),
           place = "uncount" => Innermost(t) = "write",
           place \in {"spinWrite", "count"} => Append(guards[t], "write") \in Scopes,
           place \in {"addRead", "loadRead", "casRead"} => Append(guards[t], "read") \in Scopes
    PROVE  IndInv'
<1> USE DEF IndInv
<1>1. at' \in [Threads -> Places] /\ at'[t] = place /\ \A u \in Threads \ {t} : at'[u] = at[u]
  BY DEF Goto, TypeOK
<1>2. TypeOK'
  BY <1>1 DEF TypeOK
<1>3. \A u \in Threads : Owns(u)' <=> Owns(u)
  BY <1>1 DEF Owns, Writes, Guards
<1>4. FlagIsExact'
  BY <1>3 DEF FlagIsExact, ReadGuards
<1>5. place \in {"count", "uncount"} => \A u \in Threads \ {t} : at[u] \notin {"count", "uncount"}
  BY OwnerIsAlone DEF Owns
<1>6. WriteCountIsPrivate'
  <2>1. \A u, v \in Threads : at'[u] \in {"count", "uncount"} /\ at'[v] \in {"count", "uncount"} => u = v
    BY <1>1, <1>5 DEF WriteCountIsPrivate
  <2>2. ASSUME NEW u \in Threads, Owns(u)'
        PROVE  writeCount' = Cardinality(Guards(u, "write")') - (IF at'[u] = "release" THEN 1 ELSE 0)
    BY <1>1, <1>3, <2>2 DEF WriteCountIsPrivate, Guards
  <2>. QED
    BY <2>1, <2>2 DEF WriteCountIsPrivate
<1>7. TestsHold'
  <2>1. place = "uncount" => guards[t] # <<>> /\ lockFlag.count = 0
    <3>1. ASSUME place = "uncount"
          PROVE  guards[t] # <<>>
      BY <3>1 DEF Writes, Guards
    <3>. QED
      BY <3>1, OwnerIsAlone DEF Owns
  <2>. QED
    BY <1>1, <2>1 DEF TestsHold, Innermost, Writes, Guards
<1>8. AcquiresForScope'
  BY <1>1 DEF AcquiresForScope
<1>9. OwnsAlone'
  BY <1>3 DEF OwnsAlone
<1>. QED
  BY <1>2, <1>4, <1>6, <1>7, <1>8, <1>9

\* The steps that only test the word, or read it.
LEMMA TestKeeps ==
    ASSUME IndInv, NEW t \in Threads,
           WriteLock(t) \/ ReadLock(t) \/ LoadRead(t) \/ RetryRead(t) \/ WriteUnlock(t) \/ TimeOut(t)
    PROVE  IndInv' /\ (crashed' = crashed \/ crashed' = "LOCK_TIMEOUT")
<1> USE DEF IndInv
<1>1. ASSUME lockFlag.owner = t, at[t] = "run"
      PROVE  Writes(t)
  BY <1>1 DEF FlagIsExact, Owns
<1>2. CASE WriteLock(t)
  <2>1. CASE lockFlag.owner = t
    BY <1>1, <1>2, <2>1, MoveKeeps DEF WriteLock, Places, TypeOK
  <2>2. CASE lockFlag.owner # t
    BY <1>2, <2>2, MoveKeeps DEF WriteLock, Places, TypeOK
  <2>. QED
    BY <1>2, <2>1, <2>2 DEF WriteLock
<1>3. CASE ReadLock(t)
  <2>1. CASE lockFlag.owner = t
    BY <1>1, <1>3, <2>1, MoveKeeps DEF ReadLock, Places, TypeOK
  <2>2. CASE lockFlag.owner # t
    BY <1>3, <2>2, MoveKeeps DEF ReadLock, Places, TypeOK
  <2>. QED
    BY <1>3, <2>1, <2>2 DEF ReadLock
<1>4. CASE LoadRead(t)
  <2>1. lockFlag.count \in 0..MaxCount
    BY DEF TypeOK
  <2>2. expected' \in [Threads -> 0..MaxCount]
    BY <1>4, <2>1 DEF LoadRead, TypeOK
  <2>. QED
    BY <1>4, <2>2, MoveKeeps DEF LoadRead, Places, TypeOK, AcquiresForScope
<1>5. CASE RetryRead(t)
  BY <1>5, MoveKeeps DEF RetryRead, Places, TypeOK, AcquiresForScope
<1>6. CASE WriteUnlock(t)
  <2>1. Len(guards[t]) \in DOMAIN guards[t]
    BY <1>6, ScopeIsSequence DEF WriteUnlock, TypeOK
  <2>2. Writes(t)
    BY <1>6, <2>1 DEF WriteUnlock, Writes, Guards, Innermost
  <2>3. lockFlag.count = 0
    BY <1>6, <2>2, OwnerIsAlone DEF WriteUnlock, Owns
  <2>. QED
    BY <1>6, <2>2, <2>3, MoveKeeps DEF WriteUnlock, Places, TypeOK
<1>7. CASE TimeOut(t)
  <2>1. UNCHANGED <<lockFlag, writeCount, guards, at, expected>> /\ crashed' = "LOCK_TIMEOUT"
    BY <1>7 DEF TimeOut, CRASH
  <2>2. TypeOK' /\ AcquiresForScope' /\ TestsHold'
    BY <2>1 DEF TypeOK, AcquiresForScope, TestsHold, Innermost, Writes, Guards
  <2>3. FlagIsExact' /\ WriteCountIsPrivate' /\ OwnsAlone'
    BY <2>1 DEF FlagIsExact, WriteCountIsPrivate, OwnsAlone, Owns, Writes, Guards, ReadGuards
  <2>. QED
    BY <2>1, <2>2, <2>3
<1>. QED
  BY <1>2, <1>3, <1>4, <1>5, <1>6, <1>7

\* Owning the word is a matter of the place and the guards of a thread; one whose
\* innermost guard is a write guard owns it.
LEMMA InnermostOwns ==
    ASSUME TypeOK, NEW t \in Threads, guards[t] # <<>>
    PROVE  /\ Len(guards[t]) \in DOMAIN guards[t]
           /\ Innermost(t) = "write" => Owns(t)
<1>1. Len(guards[t]) \in DOMAIN guards[t]
  BY ScopeIsSequence DEF TypeOK
<1>. QED
  BY <1>1 DEF Owns, Writes, Guards, Innermost

\* The compare_exchange of WriteLock finds nobody's guards, and a counter of 0.
LEMMA CasWriteKeeps ==
    ASSUME IndInv, NEW t \in Threads, CasWrite(t)
    PROVE  IndInv' /\ crashed' = crashed
<1> USE DEF IndInv
<1>1. \A u \in Threads : guards[u] = <<>> /\ ~Owns(u)
  BY FreeMeansNoGuards DEF CasWrite
<1>2. \A u \in Threads : at[u] \notin {"count", "addRead", "uncount", "release"}
  BY <1>1 DEF TestsHold, Owns
<1>3. /\ lockFlag' = [owner |-> t, count |-> 0] /\ UNCHANGED <<writeCount, guards, expected, crashed>>
      /\ at' \in [Threads -> Places] /\ at'[t] = "count" /\ \A u \in Threads \ {t} : at'[u] = at[u]
      /\ at[t] = "spinWrite" /\ lockFlag.owner = 0 /\ lockFlag.count = 0
  BY DEF CasWrite, Goto, Flag, Free, EMPTY_FLAG, TypeOK, Places
<1>4. TypeOK'
  BY <1>3, MaxCountIsNumber DEF TypeOK
<1>5. \A u \in Threads : Owns(u)' <=> u = t
  BY <1>1, <1>2, <1>3 DEF Owns, Writes, Guards
<1>6. FlagIsExact'
  BY <1>3, <1>5 DEF FlagIsExact, ReadGuards
<1>7. WriteCountIsPrivate'
  <2>1. writeCount' = 0
    BY <1>3 DEF OwnsAlone
  <2>2. Guards(t, "write")' = {}
    BY <1>1, <1>3 DEF Guards
  <2>3. Cardinality({}) = 0
    BY FS_EmptySet
  <2>4. Cardinality(Guards(t, "write")') = 0
    BY <2>2, <2>3
  <2>. QED
    BY <1>2, <1>3, <1>5, <2>1, <2>4 DEF WriteCountIsPrivate
<1>8. TestsHold'
  BY <1>2, <1>3 DEF TestsHold
<1>9. AcquiresForScope'
  BY <1>3 DEF AcquiresForScope
<1>a. OwnsAlone'
  BY <1>1, <1>3, <1>5, ThreadIds DEF OwnsAlone
<1>. QED
  BY <1>3, <1>4, <1>6, <1>7, <1>8, <1>9, <1>a

\* The increment of _writeCount is its owner's, and the counter does not wrap.
LEMMA CountWriteKeeps ==
    ASSUME IndInv, NEW t \in Threads, CountWrite(t)
    PROVE  IndInv' /\ crashed' = crashed
<1> USE DEF IndInv
<1>1. /\ at[t] = "count" /\ writeCount' = (writeCount + 1) % (MaxCount + 1)
      /\ Opened(t, "write") /\ UNCHANGED <<lockFlag, expected, crashed>>
      /\ at' \in [Threads -> Places] /\ at'[t] = "run" /\ \A u \in Threads \ {t} : at'[u] = at[u]
  BY DEF CountWrite, Goto, TypeOK, Places
<1>2. Owns(t)
  BY <1>1 DEF Owns
<1>3. \A u \in Threads \ {t} : /\ guards[u] = <<>> /\ ~Owns(u)
                               /\ at[u] \notin {"addRead", "count", "uncount", "release"}
  BY <1>2, OwnerIsAlone
<1>4. guards[t] \in Scopes /\ Append(guards[t], "write") \in Scopes /\ "write" \in Kinds /\ "read" \in Kinds
  BY <1>1 DEF AcquiresForScope, TypeOK, Kinds
<1>5. /\ guards' \in [Threads -> Scopes]
      /\ guards'[t] = Append(guards[t], "write")
      /\ \A u \in Threads \ {t} : guards'[u] = guards[u]
      /\ Cardinality(GuardsIn(guards', "read")) = Cardinality(GuardsIn(guards, "read")) + 0
  BY <1>1, <1>4, AfterOpened
<1>6. /\ Len(guards'[t]) = Len(guards[t]) + 1
      /\ \A i \in 1..Len(guards[t]) : guards'[t][i] = guards[t][i]
      /\ guards'[t][Len(guards[t]) + 1] = "write"
      /\ Cardinality(Held(guards'[t], "write")) = Cardinality(Held(guards[t], "write")) + 1
  BY <1>4, <1>5, GuardAppended
<1>7. /\ Len(guards[t]) \in Nat /\ (guards[t] # <<>> => Len(guards[t]) >= 1)
      /\ DOMAIN guards'[t] = 1..Len(guards'[t])
  BY <1>4, <1>5, ScopeIsSequence
<1>8. writeCount' = Cardinality(Held(guards'[t], "write")) /\ writeCount' \in 0..MaxCount
  <2>1. writeCount = Cardinality(Held(guards[t], "write"))
    <3>1. writeCount = Cardinality(Held(guards[t], "write")) - 0
      BY <1>1, <1>2 DEF WriteCountIsPrivate, Guards, Held
    <3>. QED
      BY <3>1, <1>4, HeldFits, MaxCountIsNumber
  <2>2. writeCount \in 0..MaxCount /\ Cardinality(Held(guards'[t], "write")) \in 0..MaxCount
    BY <1>4, <1>5, HeldFits DEF TypeOK
  <2>3. writeCount + 1 \in 0..MaxCount
    BY <1>6, <2>1, <2>2
  <2>4. (writeCount + 1) % (MaxCount + 1) = writeCount + 1
    BY <2>3, MaxCountIsNumber
  <2>. QED
    BY <1>1, <1>6, <2>1, <2>3, <2>4
<1>9. TypeOK'
  BY <1>1, <1>5, <1>8 DEF TypeOK
<1>a. \A u \in Threads : Owns(u)' <=> u = t
  <2>1. Len(guards[t]) + 1 \in Guards(t, "write")'
    BY <1>6, <1>7 DEF Guards
  <2>. QED
    BY <1>1, <1>3, <1>5, <2>1 DEF Owns, Writes, Guards
<1>b. FlagIsExact'
  <2>1. Cardinality(GuardsIn(guards, "read")) \in 0..MaxCount
    BY <1>4, GuardsInFinite DEF TypeOK
  <2>2. \A u \in Threads : lockFlag.owner = u <=> u = t
    BY <1>2, <1>3 DEF FlagIsExact
  <2>3. Cardinality(ReadGuards)' = lockFlag.count
    BY <1>5, <2>1, MaxCountIsNumber DEF FlagIsExact, ReadGuards
  <2>. QED
    BY <1>1, <1>a, <2>2, <2>3 DEF FlagIsExact
<1>c. WriteCountIsPrivate'
  <2>1. \A u \in Threads : at'[u] \notin {"count", "uncount"}
    BY <1>1, <1>3
  <2>2. Guards(t, "write")' = Held(guards'[t], "write")
    BY DEF Guards, Held
  <2>3. Cardinality(Held(guards'[t], "write")) \in 0..MaxCount
    BY <1>4, <1>5, HeldFits
  <2>. QED
    BY <1>1, <1>8, <1>a, <2>1, <2>2, <2>3, MaxCountIsNumber DEF WriteCountIsPrivate
<1>d. TestsHold'
  BY <1>1, <1>3 DEF TestsHold
<1>e. AcquiresForScope'
  BY <1>1, <1>5 DEF AcquiresForScope
<1>f. OwnsAlone'
  <2>1. guards'[t][1] = "write"
    <3>1. CASE guards[t] = <<>>
      BY <3>1, <1>6
    <3>2. CASE guards[t] # <<>>
      BY <3>2, <1>2, <1>6, <1>7 DEF OwnsAlone
    <3>. QED
      BY <3>1, <3>2
  <2>2. lockFlag.owner # 0
    BY <1>2, OwnerIsAlone, ThreadIds
  <2>. QED
    BY <1>1, <1>3, <1>5, <1>a, <2>1, <2>2 DEF OwnsAlone
<1>. QED
  BY <1>1, <1>9, <1>b, <1>c, <1>d, <1>e, <1>f

\* One reader more, where nobody else owns the word, does not carry into the owner.
LEMMA AddReadKeeps ==
    ASSUME IndInv, NEW t \in Threads, AddRead(t) \/ CasRead(t)
    PROVE  IndInv' /\ crashed' = crashed
<1> USE DEF IndInv
<1>1. /\ at[t] \in {"addRead", "casRead"} /\ lockFlag' = Plus1(lockFlag)
      /\ Opened(t, "read") /\ UNCHANGED <<writeCount, expected, crashed>>
      /\ at' \in [Threads -> Places] /\ at'[t] = "run" /\ \A u \in Threads \ {t} : at'[u] = at[u]
  BY DEF AddRead, CasRead, Goto, TypeOK, Places
<1>2. \A u \in Threads \ {t} : ~Owns(u)
  <2>1. CASE AddRead(t)
    BY <2>1, OwnerIsAlone DEF AddRead, TestsHold, Owns
  <2>2. CASE CasRead(t)
    BY <2>2, ThreadIds DEF CasRead, ExpectUnowned, Flag, FlagIsExact
  <2>. QED
    BY <2>1, <2>2
<1>3. \A u \in Threads \ {t} : at[u] \notin {"addRead", "count", "uncount", "release"}
  BY <1>2, InnermostOwns DEF TestsHold, Owns
<1>4. guards[t] \in Scopes /\ Append(guards[t], "read") \in Scopes /\ "write" \in Kinds /\ "read" \in Kinds
  BY <1>1 DEF AcquiresForScope, TypeOK, Kinds
<1>5. /\ guards' \in [Threads -> Scopes]
      /\ guards'[t] = Append(guards[t], "read")
      /\ \A u \in Threads \ {t} : guards'[u] = guards[u]
      /\ Cardinality(GuardsIn(guards', "read")) = Cardinality(GuardsIn(guards, "read")) + 1
  BY <1>1, <1>4, AfterOpened
<1>6. /\ \A i \in 1..Len(guards[t]) : guards'[t][i] = guards[t][i]
      /\ Held(guards'[t], "write") = Held(guards[t], "write")
  <2>1. \A k \in Kinds : Held(guards'[t], k) =
              Held(guards[t], k) \cup IF k = "read" THEN {Len(guards[t]) + 1} ELSE {}
    BY <1>4, <1>5, GuardAppended
  <2>2. \A i \in 1..Len(guards[t]) : guards'[t][i] = guards[t][i]
    BY <1>4, <1>5, GuardAppended
  <2>3. \A k \in Kinds : k # "read" => Held(guards'[t], k) = Held(guards[t], k)
    BY <2>1
  <2>4. Held(guards'[t], "write") = Held(guards[t], "write")
    BY <1>4, <2>3
  <2>. QED
    BY <2>2, <2>4
<1>7. /\ Len(guards[t]) \in Nat /\ (guards[t] # <<>> => Len(guards[t]) >= 1)
      /\ DOMAIN guards'[t] = 1..Len(guards'[t])
  BY <1>4, <1>5, ScopeIsSequence
<1>8. /\ lockFlag'.owner = lockFlag.owner /\ lockFlag'.count = lockFlag.count + 1
      /\ lockFlag' \in [owner : Threads \cup {0}, count : 0..MaxCount]
      /\ lockFlag'.count = Cardinality(GuardsIn(guards', "read"))
  <2>1. Cardinality(GuardsIn(guards', "read")) \in 0..MaxCount
    BY <1>4, <1>5, GuardsInFinite
  <2>2. lockFlag.count = Cardinality(GuardsIn(guards, "read"))
    BY DEF FlagIsExact, ReadGuards
  <2>3. lockFlag.count + 1 \in 0..MaxCount /\ lockFlag.count # MaxCount
    BY <1>5, <2>1, <2>2, MaxCountIsNumber DEF TypeOK
  <2>4. lockFlag' = [owner |-> lockFlag.owner, count |-> lockFlag.count + 1]
    BY <1>1, <2>3 DEF Plus1, Flag
  <2>. QED
    BY <1>5, <2>2, <2>3, <2>4 DEF TypeOK
<1>9. TypeOK'
  BY <1>1, <1>5, <1>8 DEF TypeOK
<1>a. \A u \in Threads : Owns(u)' <=> Owns(u)
  <2>1. Guards(t, "write")' = Guards(t, "write")
    BY <1>6 DEF Guards, Held
  <2>. QED
    BY <1>1, <1>5, <2>1 DEF Owns, Writes, Guards
<1>b. FlagIsExact'
  BY <1>8, <1>a DEF FlagIsExact, ReadGuards
<1>c. WriteCountIsPrivate'
  <2>1. \A u \in Threads : at'[u] \notin {"count", "uncount", "release"}
    BY <1>1, <1>3
  <2>2. Guards(t, "write")' = Guards(t, "write")
    BY <1>6 DEF Guards, Held
  <2>3. ASSUME Owns(t)
        PROVE  writeCount = Cardinality(Guards(t, "write")) - 0
    BY <1>1, <2>3 DEF WriteCountIsPrivate
  <2>4. ASSUME NEW u \in Threads, Owns(u)'
        PROVE  writeCount' = Cardinality(Guards(u, "write")') - (IF at'[u] = "release" THEN 1 ELSE 0)
    <3>1. u = t /\ Owns(t)
      BY <1>2, <1>a, <2>4
    <3>. QED
      BY <1>1, <2>1, <2>2, <2>3, <3>1
  <2>. QED
    BY <2>1, <2>4 DEF WriteCountIsPrivate
<1>d. TestsHold'
  BY <1>1, <1>3 DEF TestsHold
<1>e. AcquiresForScope'
  BY <1>1, <1>5 DEF AcquiresForScope
<1>f. OwnsAlone'
  <2>1. ASSUME Owns(t)
        PROVE  guards'[t][1] = "write"
    <3>1. guards[t] # <<>>
      BY <1>1, <2>1 DEF Owns, Writes, Guards
    <3>. QED
      BY <2>1, <3>1, <1>6, <1>7 DEF OwnsAlone
  <2>. QED
    BY <1>1, <1>2, <1>5, <1>8, <1>a, <2>1 DEF OwnsAlone
<1>. QED
  BY <1>1, <1>9, <1>b, <1>c, <1>d, <1>e, <1>f

\* One reader less: its guard was counted, so the word does not run below 0.
LEMMA ReadUnlockKeeps ==
    ASSUME IndInv, NEW t \in Threads, ReadUnlock(t)
    PROVE  IndInv' /\ crashed' = crashed
<1> USE DEF IndInv
<1>1. /\ at[t] = "run" /\ guards[t] # <<>> /\ Innermost(t) = "read"
      /\ lockFlag' = Minus1(lockFlag) /\ UNCHANGED <<writeCount, at, expected>>
  BY DEF ReadUnlock
<1>2. guards[t] \in Scopes /\ "write" \in Kinds /\ "read" \in Kinds
  BY DEF TypeOK, Kinds
<1>3. /\ Len(guards[t]) \in DOMAIN guards[t] /\ Len(guards[t]) \in Nat /\ Len(guards[t]) >= 1
      /\ DOMAIN guards[t] = 1..Len(guards[t])
  BY <1>1, <1>2, ScopeIsSequence
<1>4. lockFlag.count # 0 /\ Closed(t) /\ UNCHANGED crashed
  <2>1. <<t, Len(guards[t])>> \in GuardsIn(guards, "read")
    BY <1>1, <1>3 DEF GuardsIn, Innermost
  <2>2. IsFiniteSet(GuardsIn(guards, "read"))
    BY <1>2, GuardsInFinite DEF TypeOK
  <2>3. Cardinality(GuardsIn(guards, "read")) # 0
    BY <2>1, <2>2, FS_EmptySet
  <2>. QED
    BY <2>3 DEF FlagIsExact, ReadGuards, ReadUnlock
<1>5. /\ guards' \in [Threads -> Scopes]
      /\ guards'[t] = SubSeq(guards[t], 1, Len(guards[t]) - 1)
      /\ \A u \in Threads \ {t} : guards'[u] = guards[u]
      /\ Cardinality(GuardsIn(guards', "read")) = Cardinality(GuardsIn(guards, "read")) - 1
  BY <1>1, <1>2, <1>4, AfterClosed
<1>6. /\ Len(guards'[t]) = Len(guards[t]) - 1
      /\ \A i \in 1..(Len(guards[t]) - 1) : guards'[t][i] = guards[t][i]
      /\ Held(guards'[t], "write") = Held(guards[t], "write") \ {Len(guards[t])}
      /\ Len(guards[t]) \notin Held(guards[t], "write")
  BY <1>1, <1>2, <1>5, GuardRemoved DEF Held, Innermost
<1>7. guards'[t] # <<>> => Len(guards'[t]) >= 1
  BY <1>5, ScopeIsSequence
<1>8. /\ lockFlag'.owner = lockFlag.owner
      /\ lockFlag' \in [owner : Threads \cup {0}, count : 0..MaxCount]
      /\ lockFlag'.count = Cardinality(GuardsIn(guards', "read"))
  <2>1. lockFlag' = [owner |-> lockFlag.owner, count |-> lockFlag.count - 1]
    BY <1>1, <1>4 DEF Minus1, Flag
  <2>2. lockFlag.count - 1 \in 0..MaxCount
    BY <1>4, MaxCountIsNumber DEF TypeOK
  <2>. QED
    BY <1>5, <2>1, <2>2 DEF TypeOK, FlagIsExact, ReadGuards
<1>9. TypeOK'
  BY <1>1, <1>4, <1>5, <1>8 DEF TypeOK
<1>a. \A u \in Threads : Guards(u, "write")' = Guards(u, "write")
  <2>1. Held(guards'[t], "write") = Held(guards[t], "write")
    BY <1>6
  <2>2. \A u \in Threads : Held(guards'[u], "write") = Held(guards[u], "write")
    BY <1>5, <2>1
  <2>. QED
    BY <2>2 DEF Guards, Held
<1>b. \A u \in Threads : Owns(u)' <=> Owns(u)
  BY <1>1, <1>a DEF Owns, Writes
<1>c. FlagIsExact'
  BY <1>8, <1>b DEF FlagIsExact, ReadGuards
<1>d. WriteCountIsPrivate'
  BY <1>1, <1>a, <1>b DEF WriteCountIsPrivate
<1>e. TestsHold'
  BY <1>1, <1>4, <1>5, <1>a DEF TestsHold, Writes
<1>f. AcquiresForScope'
  BY <1>1, <1>5 DEF AcquiresForScope
<1>g. OwnsAlone'
  BY <1>1, <1>3, <1>5, <1>6, <1>7, <1>8, <1>b DEF OwnsAlone
<1>. QED
  BY <1>4, <1>9, <1>c, <1>d, <1>e, <1>f, <1>g

\* The decrement of _writeCount is its owner's, and does not run below 0; at 0
\* the thread has one guard left, the outermost.
LEMMA UncountWriteKeeps ==
    ASSUME IndInv, NEW t \in Threads, UncountWrite(t)
    PROVE  IndInv' /\ crashed' = crashed
<1> USE DEF IndInv
<1>1. /\ at[t] = "uncount" /\ writeCount' = (writeCount - 1) % (MaxCount + 1)
      /\ guards[t] # <<>> /\ Innermost(t) = "write" /\ lockFlag.count = 0
      /\ UNCHANGED <<lockFlag, expected, crashed>>
  BY DEF UncountWrite, TestsHold
<1>2. Owns(t)
  BY <1>1, InnermostOwns
<1>3. /\ lockFlag.owner = t
      /\ \A u \in Threads \ {t} : /\ guards[u] = <<>> /\ ~Owns(u)
                                  /\ at[u] \notin {"addRead", "count", "uncount", "release"}
  BY <1>2, OwnerIsAlone
<1>4. guards[t] \in Scopes /\ "write" \in Kinds /\ "read" \in Kinds
  BY DEF TypeOK, Kinds
<1>5. /\ Len(guards[t]) \in Nat /\ Len(guards[t]) >= 1 /\ DOMAIN guards[t] = 1..Len(guards[t])
      /\ IsFiniteSet(Held(guards[t], "write"))
  BY <1>1, <1>4, ScopeIsSequence DEF Held
<1>6. guards[t][1] = "write"
  BY <1>1, <1>2 DEF OwnsAlone
<1>7. 1 \in Held(guards[t], "write") /\ Len(guards[t]) \in Held(guards[t], "write")
  BY <1>1, <1>5, <1>6 DEF Held, Innermost
<1>8. /\ writeCount = Cardinality(Held(guards[t], "write")) /\ writeCount >= 1
      /\ writeCount' = writeCount - 1 /\ writeCount' \in 0..MaxCount
  <2>1. writeCount = Cardinality(Held(guards[t], "write")) - 0
    BY <1>1, <1>2 DEF WriteCountIsPrivate, Guards, Held
  <2>2. Cardinality(Held(guards[t], "write")) \in 0..MaxCount
    BY <1>4, HeldFits
  <2>3. Cardinality(Held(guards[t], "write")) # 0
    BY <1>5, <1>7, FS_EmptySet
  <2>4. writeCount \in 1..MaxCount /\ writeCount = Cardinality(Held(guards[t], "write"))
    BY <2>1, <2>2, <2>3, MaxCountIsNumber
  <2>5. (writeCount - 1) % (MaxCount + 1) = writeCount - 1
    BY <2>4, MaxCountIsNumber
  <2>6. writeCount' = writeCount - 1
    BY <1>1, <2>5
  <2>7. writeCount >= 1 /\ writeCount - 1 \in 0..MaxCount
    BY <2>4, MaxCountIsNumber
  <2>. QED
    BY <2>4, <2>6, <2>7
<1>9. CASE writeCount' = 0
  <2>1. /\ at' \in [Threads -> Places] /\ at'[t] = "release" /\ \A u \in Threads \ {t} : at'[u] = at[u]
        /\ UNCHANGED guards
    BY <1>9 DEF UncountWrite, Outermost, Goto, TypeOK, Places
  <2>2. Len(guards[t]) = 1
    <3>1. Cardinality(Held(guards[t], "write")) = 1
      BY <1>8, <1>9 DEF TypeOK
    <3>a. /\ IsFiniteSet(Held(guards[t], "write") \ {1})
          /\ Cardinality(Held(guards[t], "write") \ {1}) =
                IF 1 \in Held(guards[t], "write") THEN Cardinality(Held(guards[t], "write")) - 1
                                                 ELSE Cardinality(Held(guards[t], "write"))
      BY <1>5, FS_RemoveElement
    <3>2. IsFiniteSet(Held(guards[t], "write") \ {1}) /\ Cardinality(Held(guards[t], "write") \ {1}) = 0
      BY <1>7, <3>1, <3>a
    <3>3. Held(guards[t], "write") \ {1} = {}
      BY <3>2, FS_EmptySet
    <3>. QED
      BY <1>7, <3>3
  <2>3. TypeOK'
    BY <1>1, <1>8, <2>1 DEF TypeOK
  <2>4. \A u \in Threads : Owns(u)' <=> u = t
    BY <1>2, <1>3, <1>1, <2>1 DEF Owns, Writes, Guards
  <2>5. FlagIsExact'
    BY <1>1, <1>2, <1>3, <2>1, <2>4 DEF FlagIsExact, ReadGuards
  <2>6. WriteCountIsPrivate'
    <3>1. Guards(t, "write")' = Held(guards[t], "write")
      BY <2>1 DEF Guards, Held
    <3>. QED
      BY <1>3, <1>8, <2>1, <2>4, <3>1 DEF WriteCountIsPrivate
  <2>7. TestsHold'
    BY <1>1, <1>3, <2>1, <2>2 DEF TestsHold, Innermost
  <2>8. AcquiresForScope'
    BY <2>1 DEF AcquiresForScope
  <2>9. OwnsAlone'
    BY <1>1, <1>3, <1>6, <2>1, <2>4, ThreadIds DEF OwnsAlone
  <2>. QED
    BY <1>1, <2>3, <2>5, <2>6, <2>7, <2>8, <2>9
<1>10. CASE writeCount' # 0
  <2>1. /\ at' \in [Threads -> Places] /\ at'[t] = "run" /\ \A u \in Threads \ {t} : at'[u] = at[u]
        /\ Closed(t)
    BY <1>10 DEF UncountWrite, Outermost, Goto, TypeOK, Places
  <2>2. /\ guards' \in [Threads -> Scopes]
        /\ guards'[t] = SubSeq(guards[t], 1, Len(guards[t]) - 1)
        /\ \A u \in Threads \ {t} : guards'[u] = guards[u]
        /\ Cardinality(GuardsIn(guards', "read")) = Cardinality(GuardsIn(guards, "read")) - 0
    BY <1>1, <1>4, <2>1, AfterClosed
  <2>3. /\ Len(guards'[t]) = Len(guards[t]) - 1
        /\ \A i \in 1..(Len(guards[t]) - 1) : guards'[t][i] = guards[t][i]
        /\ Cardinality(Held(guards'[t], "write")) = Cardinality(Held(guards[t], "write")) - 1
    BY <1>1, <1>4, <2>2, GuardRemoved DEF Innermost
  <2>4. writeCount' = Cardinality(Held(guards'[t], "write"))
    BY <1>8, <2>3
  <2>5. Held(guards'[t], "write") # {}
    BY <1>10, <2>4, FS_EmptySet
  <2>6. TypeOK'
    BY <1>1, <1>8, <2>1, <2>2 DEF TypeOK
  <2>7. \A u \in Threads : Owns(u)' <=> u = t
    <3>1. Owns(t)'
      BY <2>5 DEF Owns, Writes, Guards, Held
    <3>2. \A u \in Threads \ {t} : ~Owns(u)'
      BY <1>3, <2>1, <2>2 DEF Owns, Writes, Guards
    <3>. QED
      BY <3>1, <3>2
  <2>8. FlagIsExact'
    <3>1. Cardinality(GuardsIn(guards, "read")) = 0
      BY <1>1 DEF FlagIsExact, ReadGuards
    <3>. QED
      BY <1>1, <1>3, <2>2, <2>7, <3>1 DEF FlagIsExact, ReadGuards
  <2>9. WriteCountIsPrivate'
    <3>1. Guards(t, "write")' = Held(guards'[t], "write")
      BY DEF Guards, Held
    <3>2. writeCount' = Cardinality(Held(guards'[t], "write")) - 0
      BY <1>8, <2>4
    <3>3. \A u \in Threads : at'[u] \notin {"count", "uncount"}
      BY <1>3, <2>1
    <3>. QED
      BY <2>1, <2>7, <3>1, <3>2, <3>3 DEF WriteCountIsPrivate
  <2>10. TestsHold'
    BY <1>3, <2>1 DEF TestsHold
  <2>11. AcquiresForScope'
    BY <2>1, <2>2 DEF AcquiresForScope
  <2>12. OwnsAlone'
    <3>1. guards'[t] # <<>> => Len(guards'[t]) >= 1
      BY <2>2, ScopeIsSequence
    <3>. QED
      BY <1>1, <1>3, <1>5, <1>6, <2>2, <2>3, <2>7, <3>1, ThreadIds DEF OwnsAlone
  <2>. QED
    BY <1>1, <2>6, <2>8, <2>9, <2>10, <2>11, <2>12
<1>. QED
  BY <1>9, <1>10

\* The last store empties the word when the last guard is gone.
LEMMA ReleaseKeeps ==
    ASSUME IndInv, NEW t \in Threads, Release(t)
    PROVE  IndInv' /\ crashed' = crashed
<1> USE DEF IndInv
<1>1. /\ at[t] = "release" /\ guards[t] # <<>> /\ Innermost(t) = "write" /\ Len(guards[t]) = 1
      /\ lockFlag.count = 0 /\ lockFlag' = [owner |-> 0, count |-> 0] /\ Closed(t)
      /\ UNCHANGED <<writeCount, expected, crashed>>
      /\ at' \in [Threads -> Places] /\ at'[t] = "run" /\ \A u \in Threads \ {t} : at'[u] = at[u]
  BY DEF Release, TestsHold, EMPTY_FLAG, Flag, Goto, TypeOK, Places
<1>2. Owns(t)
  BY <1>1, InnermostOwns
<1>3. \A u \in Threads \ {t} : /\ guards[u] = <<>> /\ ~Owns(u)
                               /\ at[u] \notin {"addRead", "count", "uncount", "release"}
  BY <1>2, OwnerIsAlone
<1>4. guards[t] \in Scopes /\ "write" \in Kinds /\ "read" \in Kinds
  BY DEF TypeOK, Kinds
<1>5. /\ guards' \in [Threads -> Scopes]
      /\ guards'[t] = SubSeq(guards[t], 1, Len(guards[t]) - 1)
      /\ \A u \in Threads \ {t} : guards'[u] = guards[u]
      /\ Cardinality(GuardsIn(guards', "read")) = Cardinality(GuardsIn(guards, "read")) - 0
  BY <1>1, <1>4, AfterClosed
<1>6. \A u \in Threads : guards'[u] = <<>>
  <2>1. Len(guards'[t]) = Len(guards[t]) - 1
    BY <1>1, <1>4, <1>5, GuardRemoved
  <2>2. guards'[t] # <<>> => Len(guards'[t]) >= 1
    BY <1>5, ScopeIsSequence
  <2>3. guards'[t] = <<>>
    BY <1>1, <2>1, <2>2
  <2>. QED
    BY <1>3, <1>5, <2>3
<1>7. writeCount' = 0
  <2>1. writeCount = Cardinality(Held(guards[t], "write")) - 1
    BY <1>1, <1>2 DEF WriteCountIsPrivate, Guards, Held
  <2>2. DOMAIN guards[t] = {1}
    BY <1>1, <1>4, ScopeIsSequence
  <2>3. Held(guards[t], "write") = {1}
    BY <1>1, <2>2 DEF Held, Innermost
  <2>4. Cardinality({1}) = 1
    BY FS_Singleton
  <2>5. Cardinality(Held(guards[t], "write")) = 1
    BY <2>3, <2>4
  <2>. QED
    BY <1>1, <2>1, <2>5
<1>8. TypeOK'
  BY <1>1, <1>5, <1>7, MaxCountIsNumber DEF TypeOK
<1>9. \A u \in Threads : ~Owns(u)'
  BY <1>1, <1>3, <1>6 DEF Owns, Writes, Guards
<1>a. FlagIsExact'
  <2>1. Cardinality(GuardsIn(guards, "read")) = 0
    BY <1>1 DEF FlagIsExact, ReadGuards
  <2>. QED
    BY <1>1, <1>5, <1>9, <2>1, ThreadIds DEF FlagIsExact, ReadGuards
<1>b. WriteCountIsPrivate'
  BY <1>1, <1>3, <1>9 DEF WriteCountIsPrivate
<1>c. TestsHold'
  BY <1>1, <1>3 DEF TestsHold
<1>d. AcquiresForScope'
  BY <1>1, <1>5 DEF AcquiresForScope
<1>e. OwnsAlone'
  BY <1>7, <1>9 DEF OwnsAlone
<1>. QED
  BY <1>1, <1>8, <1>a, <1>b, <1>c, <1>d, <1>e

-----------------------------------------------------------------------------
\* The invariant holds at the start ...
LEMMA InitIndInv == Init => IndInv
<1> SUFFICES ASSUME Init
             PROVE  IndInv
  OBVIOUS
<1>1. /\ lockFlag = [owner |-> 0, count |-> 0] /\ writeCount = 0
      /\ \A t \in Threads : guards[t] = <<>> /\ at[t] = "run"
  BY DEF Init, EMPTY_FLAG, Flag
<1>2. TypeOK
  BY ScopesNest, MaxCountIsNumber DEF Init, EMPTY_FLAG, Flag, TypeOK, Places
<1>3. \A t \in Threads : ~Owns(t)
  BY <1>1 DEF Owns, Writes, Guards
<1>4. FlagIsExact
  <2>1. ReadGuards = {}
    BY <1>1 DEF ReadGuards, GuardsIn
  <2>. QED
    BY <1>1, <1>3, <2>1, FS_EmptySet, ThreadIds DEF FlagIsExact
<1>5. WriteCountIsPrivate /\ TestsHold /\ AcquiresForScope /\ OwnsAlone
  BY <1>1, <1>3 DEF WriteCountIsPrivate, TestsHold, AcquiresForScope, OwnsAlone
<1>. QED
  BY <1>2, <1>4, <1>5 DEF IndInv

\* ... and every step keeps it; none but a time-out ends the process.
LEMMA NextKeeps ==
    ASSUME IndInv, [Next]_vars
    PROVE  IndInv' /\ (crashed' = crashed \/ crashed' = "LOCK_TIMEOUT")
<1>1. CASE Next
  <2>1. PICK t \in Threads : Step(t)
    BY <1>1 DEF Next
  <2>2. CASE WriteLock(t) \/ ReadLock(t) \/ LoadRead(t) \/ RetryRead(t) \/ WriteUnlock(t) \/ TimeOut(t)
    BY <2>2, TestKeeps
  <2>3. CASE CasWrite(t)
    BY <2>3, CasWriteKeeps
  <2>4. CASE CountWrite(t)
    BY <2>4, CountWriteKeeps
  <2>5. CASE AddRead(t) \/ CasRead(t)
    BY <2>5, AddReadKeeps
  <2>6. CASE UncountWrite(t)
    BY <2>6, UncountWriteKeeps
  <2>7. CASE Release(t)
    BY <2>7, ReleaseKeeps
  <2>8. CASE ReadUnlock(t)
    BY <2>8, ReadUnlockKeeps
  <2>. QED
    BY <2>1, <2>2, <2>3, <2>4, <2>5, <2>6, <2>7, <2>8 DEF Step, Acquire, Unlock
<1>2. CASE UNCHANGED vars
  BY <1>2 DEF vars, IndInv, TypeOK, FlagIsExact, ReadGuards, WriteCountIsPrivate, TestsHold, AcquiresForScope,
              OwnsAlone, Owns, Writes, Guards, Innermost
<1>. QED
  BY <1>1, <1>2

\* The word, the counter, the guards and the places of the threads agree in every
\* reachable state: the word says exactly who has the lock.
THEOREM WordIsExact == Spec => []IndInv
<1>1. IndInv /\ [Next]_vars => IndInv'
  BY NextKeeps
<1>. QED
  BY InitIndInv, <1>1, PTL DEF Spec

\* What the guarded sections of the whole program rely on: a thread that has a
\* write guard is the only one that has guards.
THEOREM MutualExclusion == Spec => []WriterExcludes
<1>1. IndInv => WriterExcludes
  BY DEF IndInv, OwnsAlone, Owns, WriterExcludes
<1>. QED
  BY <1>1, WordIsExact, PTL

\* The unlock operations never end the process: nested as the guards are, no read
\* lock is missing and none is left when the writer unlocks.
THEOREM UnlocksAreLegal == Spec => []OnlyTimeOuts
<1>1. Init => OnlyTimeOuts
  BY DEF Init, OnlyTimeOuts
<1>2. IndInv /\ OnlyTimeOuts /\ [Next]_vars => OnlyTimeOuts'
  BY NextKeeps DEF OnlyTimeOuts
<1>. QED
  BY <1>1, <1>2, WordIsExact, PTL DEF Spec
=============================================================================
