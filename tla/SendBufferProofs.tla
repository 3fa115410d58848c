--------------------------- MODULE SendBufferProofs ---------------------------
(***************************************************************************)
(* Theorems about SendBuffer, for any set of threads, any set of chunks,   *)
(* any size of a chunk, and requests of any size.                          *)
(***************************************************************************)
EXTENDS SendBuffer, SequenceTheorems, TLAPS

\* A thread that has popped a chunk has one; nothing refers to a chunk from the
\* moment it is popped to the moment it is reset, but that thread.
PoppedIsEmpty ==
    \A t \in Threads :
        /\ at[t] \in {"pushOld", "reset", "alloc", "filling"} => local[t] # NoChunk
        /\ at[t] \in {"pushOld", "reset"} => \A b \in buffers : b.owner # local[t]

\* A thread has a chunk to give back exactly while it does so.
GivesBack == \A t \in Threads : dropped[t] # NoChunk <=> at[t] \in {"push", "pushOld"}

\* A chunk is open while its thread fills a buffer, and only then, once it is reset.
OpenWhileFilling ==
    \A t \in Threads : local[t] # NoChunk /\ at[t] \notin {"pushOld", "reset"} =>
                           (open[local[t]] <=> at[t] = "filling")

\* What a thread fills fits in the rest of its chunk, and so does what it asks for,
\* if it fits in a chunk at all.
RequestFits ==
    \A t \in Threads :
        at[t] = "filling" \/ (at[t] = "alloc" /\ request[t] <= ChunkSize)
            => usedSize[local[t]] + request[t] <= ChunkSize

\* The buffers of a chunk follow each other, below _usedSize.
BuffersLaidOut ==
    /\ \A b \in buffers : b.start + b.size <= usedSize[b.owner]
    /\ \A b, c \in buffers : b # c /\ b.owner = c.owner =>
                                 b.start + b.size <= c.start \/ c.start + c.size <= b.start

\* What every step preserves.
Inv == /\ Ownership /\ PoppedIsEmpty /\ GivesBack /\ OpenWhileFilling
       /\ RequestFits /\ BuffersLaidOut /\ OnlyTooLargeCrashes

\* The pool is a sequence of chunks.
LEMMA PoolIsSequence ==
    ASSUME TypeOK
    PROVE  /\ Len(pool) \in Nat /\ DOMAIN pool = 1..Len(pool)
           /\ pool # <<>> => Len(pool) >= 1
           /\ \A i \in 1..Len(pool) : pool[i] \in created
<1>1. pool \in Seq(created)
  BY DEF TypeOK
<1>. QED
  BY <1>1, LenProperties, EmptySeq, ElementOfSeq

\* The pool without the chunk at its back ...
LEMMA PoolPopped ==
    ASSUME TypeOK, pool # <<>>, pool' = PopBack, UNCHANGED created
    PROVE  /\ pool' \in Seq(created')
           /\ DOMAIN pool' = 1..(Len(pool) - 1)
           /\ \A i \in DOMAIN pool' : i \in DOMAIN pool /\ i # Len(pool) /\ pool'[i] = pool[i]
<1>1. /\ Len(pool) \in Nat /\ DOMAIN pool = 1..Len(pool) /\ Len(pool) >= 1
      /\ \A i \in 1..Len(pool) : pool[i] \in created
  BY PoolIsSequence
<1>2. pool \in Seq(created) /\ \A i \in 1..(Len(pool) - 1) : pool[i] \in created
  BY <1>1 DEF TypeOK
<1>3. /\ SubSeq(pool, 1, Len(pool) - 1) \in Seq(created)
      /\ Len(SubSeq(pool, 1, Len(pool) - 1)) = Len(pool) - 1
      /\ \A i \in 1..(Len(pool) - 1) : SubSeq(pool, 1, Len(pool) - 1)[i] = pool[i]
  BY <1>1, <1>2, SubSeqProperties
<1>4. pool' = SubSeq(pool, 1, Len(pool) - 1)
  BY DEF PopBack
<1>5. DOMAIN pool' = 1..Len(pool')
  BY <1>3, <1>4, LenProperties
<1>. QED
  BY <1>1, <1>3, <1>4, <1>5

\* ... and with one more there.
LEMMA PoolPushed ==
    ASSUME TypeOK, NEW c \in created, pool' = Append(pool, c), UNCHANGED created
    PROVE  /\ pool' \in Seq(created')
           /\ DOMAIN pool' = 1..(Len(pool) + 1)
           /\ \A i \in DOMAIN pool : i \in DOMAIN pool' /\ i # Len(pool) + 1 /\ pool'[i] = pool[i]
           /\ pool'[Len(pool) + 1] = c
<1>1. pool \in Seq(created) /\ Len(pool) \in Nat /\ DOMAIN pool = 1..Len(pool)
  BY PoolIsSequence DEF TypeOK
<1>2. /\ Append(pool, c) \in Seq(created) /\ Len(Append(pool, c)) = Len(pool) + 1
      /\ \A i \in 1..Len(pool) : Append(pool, c)[i] = pool[i]
      /\ Append(pool, c)[Len(pool) + 1] = c
  BY <1>1, AppendProperties
<1>3. DOMAIN Append(pool, c) = 1..(Len(pool) + 1)
  BY <1>2, LenProperties
<1>. QED
  BY <1>1, <1>2, <1>3

-----------------------------------------------------------------------------
\* The invariant holds at the start.
LEMMA InitInv == Init => Inv
<1> SUFFICES ASSUME Init
             PROVE  Inv
  OBVIOUS
<1>1. TypeOK
  BY EmptySeq, ChunkSizeIsNumber, MaxRequestIsNumber DEF Init, TypeOK, Places
<1>2. \A i \in DOMAIN pool : FALSE
  BY EmptySeq DEF Init
<1>3. OneOwner /\ PooledIsUnused /\ NoneLost
  BY <1>2 DEF Init, OneOwner, PooledIsUnused, NoneLost
<1>4. PoppedIsEmpty /\ GivesBack /\ OpenWhileFilling /\ RequestFits /\ BuffersLaidOut
      /\ OnlyTooLargeCrashes
  BY DEF Init, OnlyTooLargeCrashes, PoppedIsEmpty, GivesBack, OpenWhileFilling, RequestFits, BuffersLaidOut
<1>. QED
  BY <1>1, <1>3, <1>4 DEF Inv, Ownership

\* Steps that change neither who has which chunk nor what is in the pool keep every
\* chunk where it is.
LEMMA ChunksStay ==
    ASSUME Ownership, TypeOK', UNCHANGED <<created, pool, local, buffers, dropped>>
    PROVE  Ownership'
<1>1. \A c : Referenced(c, local, buffers)' <=> Referenced(c, local, buffers)
  BY DEF Referenced
<1>. QED
  BY <1>1 DEF Ownership, OneOwner, PooledIsUnused, NoneLost

\* Where a thread goes, and where the others stay.
LEMMA Goes ==
    ASSUME TypeOK, NEW t \in Threads, NEW place \in Places, Goto(t, place)
    PROVE  at' \in [Threads -> Places] /\ at'[t] = place /\ \A u \in Threads \ {t} : at'[u] = at[u]
BY DEF TypeOK, Goto

\* SendBufferManager::Open goes on with its own chunk only if there is room.
LEMMA OpenKeeps ==
    ASSUME Inv, NEW t \in Threads, NEW size \in 1..MaxRequest, Open(t, size)
    PROVE  Inv'
<1> USE DEF Inv
<1>0. TypeOK
  BY DEF Ownership
<1>1. /\ at[t] = "run" /\ UNCHANGED <<usedSize, open, created, pool, local, buffers, dropped>>
      /\ request' \in [Threads -> 0..MaxRequest] /\ request'[t] = size
      /\ \A u \in Threads \ {t} : request'[u] = request[u]
  BY <1>0, MaxRequestIsNumber DEF Open, TypeOK
<1>2. PICK place \in {"alloc", "pop"} : Goto(t, place) /\ (place = "alloc" => local[t] # NoChunk
                                                                           /\ FreeSize(local[t]) >= size)
  BY DEF Open, OpenWhileFilling
<1>3. at' \in [Threads -> Places] /\ at'[t] = place /\ \A u \in Threads \ {t} : at'[u] = at[u]
  BY <1>0, <1>2, Goes DEF Places
<1>4. Ownership'
  <2>1. TypeOK'
    BY <1>0, <1>1, <1>3 DEF TypeOK
  <2>. QED
    BY <1>1, <2>1, ChunksStay
<1>5. PoppedIsEmpty' /\ GivesBack' /\ OpenWhileFilling'
  BY <1>1, <1>2, <1>3 DEF PoppedIsEmpty, GivesBack, OpenWhileFilling
<1>6. RequestFits'
  <2>1. ASSUME place = "alloc"
        PROVE  usedSize[local[t]] + size <= ChunkSize
    <3>1. local[t] \in created /\ usedSize[local[t]] \in 0..ChunkSize
      BY <1>0, <1>2, <2>1 DEF TypeOK
    <3>. QED
      BY <1>2, <2>1, <3>1, ChunkSizeIsNumber DEF FreeSize
  <2>. QED
    BY <1>1, <1>2, <1>3, <2>1 DEF RequestFits
<1>7. BuffersLaidOut' /\ OnlyTooLargeCrashes'
  BY <1>1, <1>2, <1>3 DEF BuffersLaidOut, OnlyTooLargeCrashes
<1>. QED
  BY <1>4, <1>5, <1>6, <1>7

\* Reset is of a chunk that no buffer lies in.
LEMMA ResetKeeps ==
    ASSUME Inv, NEW t \in Threads, Reset(t)
    PROVE  Inv'
<1> USE DEF Inv
<1>0. TypeOK /\ OneOwner
  BY DEF Ownership
<1>1. /\ at[t] = "reset" /\ Goto(t, "alloc")
      /\ UNCHANGED <<created, pool, local, buffers, request, dropped>>
      /\ local[t] \in created /\ local[t] # NoChunk
      /\ \A b \in buffers : b.owner # local[t]
  BY <1>0 DEF Reset, TypeOK, PoppedIsEmpty
<1>2. at' \in [Threads -> Places] /\ at'[t] = "alloc" /\ \A u \in Threads \ {t} : at'[u] = at[u]
  BY <1>0, <1>1, Goes DEF Places
<1>3. /\ usedSize' \in [Chunks -> 0..ChunkSize] /\ open' \in [Chunks -> BOOLEAN]
      /\ usedSize'[local[t]] = 0 /\ open'[local[t]] = FALSE
      /\ \A c \in Chunks \ {local[t]} : usedSize'[c] = usedSize[c] /\ open'[c] = open[c]
  BY <1>0, <1>1, ChunkSizeIsNumber DEF Reset, ResetSize, TypeOK
<1>4. Ownership'
  <2>1. TypeOK'
    BY <1>0, <1>1, <1>2, <1>3 DEF TypeOK
  <2>. QED
    BY <1>1, <2>1, ChunksStay
<1>5. \A u \in Threads \ {t} : local[u] # NoChunk => local[u] \in Chunks \ {local[t]}
  BY <1>0, <1>1 DEF OneOwner, TypeOK
<1>6. PoppedIsEmpty' /\ GivesBack'
  BY <1>1, <1>2 DEF PoppedIsEmpty, GivesBack
<1>7. OpenWhileFilling'
  BY <1>1, <1>2, <1>3, <1>5 DEF OpenWhileFilling
<1>8. RequestFits'
  <2>1. request[t] <= ChunkSize => usedSize'[local'[t]] + request'[t] <= ChunkSize
    BY <1>0, <1>1, <1>3, ChunkSizeIsNumber, MaxRequestIsNumber DEF TypeOK
  <2>2. ASSUME NEW u \in Threads \ {t},
               at'[u] = "filling" \/ (at'[u] = "alloc" /\ request'[u] <= ChunkSize)
        PROVE  usedSize'[local'[u]] + request'[u] <= ChunkSize
    <3>1. local[u] # NoChunk
      BY <1>2, <2>2 DEF PoppedIsEmpty
    <3>. QED
      BY <1>1, <1>2, <1>3, <1>5, <2>2, <3>1 DEF RequestFits
  <2>. QED
    BY <1>1, <1>2, <2>1, <2>2 DEF RequestFits
<1>a. OnlyTooLargeCrashes'
  BY <1>1, <1>2 DEF OnlyTooLargeCrashes
<1>9. BuffersLaidOut'
  <2>1. \A b \in buffers : b.owner \in Chunks \ {local[t]}
    BY <1>0, <1>1 DEF TypeOK
  <2>. QED
    BY <1>1, <1>3, <2>1 DEF BuffersLaidOut
<1>. QED
  BY <1>4, <1>6, <1>7, <1>8, <1>9, <1>a

\* SendBufferChunk::Open.
LEMMA AllocKeeps ==
    ASSUME Inv, NEW t \in Threads, Alloc(t)
    PROVE  Inv'
<1> USE DEF Inv
<1>0. TypeOK /\ OneOwner
  BY DEF Ownership
<1>1. /\ at[t] = "alloc" /\ Goto(t, "filling") /\ Fits(t)
      /\ UNCHANGED <<usedSize, created, pool, local, buffers, request, dropped>>
      /\ local[t] \in created /\ local[t] # NoChunk
  BY <1>0 DEF Alloc, TypeOK, PoppedIsEmpty
<1>2. at' \in [Threads -> Places] /\ at'[t] = "filling" /\ \A u \in Threads \ {t} : at'[u] = at[u]
  BY <1>0, <1>1, Goes DEF Places
<1>3. /\ open' \in [Chunks -> BOOLEAN] /\ open'[local[t]] = TRUE
      /\ \A c \in Chunks \ {local[t]} : open'[c] = open[c]
  BY <1>0, <1>1 DEF Alloc, TypeOK
<1>4. Ownership'
  <2>1. TypeOK'
    BY <1>0, <1>1, <1>2, <1>3 DEF TypeOK
  <2>. QED
    BY <1>1, <2>1, ChunksStay
<1>5. \A u \in Threads \ {t} : local[u] # NoChunk => local[u] \in Chunks \ {local[t]}
  BY <1>0, <1>1 DEF OneOwner, TypeOK
<1>6. PoppedIsEmpty' /\ GivesBack' /\ BuffersLaidOut' /\ OnlyTooLargeCrashes'
  BY <1>1, <1>2 DEF PoppedIsEmpty, GivesBack, BuffersLaidOut, OnlyTooLargeCrashes
<1>8. usedSize[local[t]] + request[t] <= ChunkSize
  <2>1. usedSize[local[t]] \in 0..ChunkSize /\ request[t] \in 0..MaxRequest
    BY <1>0, <1>1 DEF TypeOK
  <2>. QED
    BY <1>1, <2>1, ChunkSizeIsNumber, MaxRequestIsNumber DEF Fits, FreeSize
<1>9. RequestFits'
  BY <1>1, <1>2, <1>8 DEF RequestFits
<1>7. OpenWhileFilling'
  BY <1>1, <1>2, <1>3, <1>5 DEF OpenWhileFilling
<1>. QED
  BY <1>4, <1>6, <1>7, <1>9

\* What SendBufferChunk::Open cannot serve is too large for any chunk.
LEMMA CrashKeeps ==
    ASSUME Inv, NEW t \in Threads, Crash(t)
    PROVE  Inv'
<1> USE DEF Inv
<1>0. TypeOK
  BY DEF Ownership
<1>1. /\ at[t] = "alloc" /\ Goto(t, "crashed") /\ ~Fits(t) /\ local[t] \in created
      /\ UNCHANGED <<usedSize, open, created, pool, local, buffers, request, dropped>>
      /\ local[t] # NoChunk /\ ~open[local[t]]
  BY <1>0 DEF Crash, TypeOK, PoppedIsEmpty, OpenWhileFilling
<1>2. at' \in [Threads -> Places] /\ at'[t] = "crashed" /\ \A u \in Threads \ {t} : at'[u] = at[u]
  BY <1>0, <1>1, Goes DEF Places
<1>3. request[t] > ChunkSize
  <2>1. usedSize[local[t]] \in 0..ChunkSize /\ request[t] \in 0..MaxRequest
    BY <1>0, <1>1 DEF TypeOK
  <2>2. usedSize[local[t]] + request[t] > ChunkSize
    BY <1>1, <2>1, ChunkSizeIsNumber, MaxRequestIsNumber DEF Fits, FreeSize
  <2>. QED
    BY <1>1, <2>1, <2>2, ChunkSizeIsNumber, MaxRequestIsNumber DEF RequestFits
<1>4. Ownership'
  <2>1. TypeOK'
    BY <1>0, <1>1, <1>2 DEF TypeOK
  <2>. QED
    BY <1>1, <2>1, ChunksStay
<1>5. PoppedIsEmpty' /\ GivesBack' /\ OpenWhileFilling' /\ RequestFits' /\ BuffersLaidOut'
  BY <1>1, <1>2 DEF PoppedIsEmpty, GivesBack, OpenWhileFilling, RequestFits, BuffersLaidOut
<1>6. OnlyTooLargeCrashes'
  BY <1>1, <1>2, <1>3 DEF OnlyTooLargeCrashes
<1>. QED
  BY <1>4, <1>5, <1>6

\* Close adds a buffer above the others of its chunk, and never more than was asked for.
LEMMA CloseKeeps ==
    ASSUME Inv, NEW t \in Threads, NEW size \in 1..MaxRequest, Close(t, size)
    PROVE  Inv'
<1> USE DEF Inv
<1>0. TypeOK /\ OneOwner
  BY DEF Ownership
<1> DEFINE c == local[t]
           new == Buffer(c, usedSize[c], size)
<1>1. /\ at[t] = "filling" /\ size <= request[t] /\ Goto(t, "run")
      /\ UNCHANGED <<created, pool, local, request, dropped>>
      /\ buffers' = buffers \cup {new}
      /\ c \in created /\ c # NoChunk /\ c \in Chunks
  BY <1>0 DEF Close, TypeOK, PoppedIsEmpty
<1>2. at' \in [Threads -> Places] /\ at'[t] = "run" /\ \A u \in Threads \ {t} : at'[u] = at[u]
  BY <1>0, <1>1, Goes DEF Places
<1>3. usedSize[c] \in 0..ChunkSize /\ usedSize[c] + size \in 0..ChunkSize /\ size \in 1..ChunkSize
  <2>1. usedSize[c] + request[t] <= ChunkSize
    BY <1>1 DEF RequestFits
  <2>2. usedSize[c] \in 0..ChunkSize /\ request[t] \in 0..MaxRequest
    BY <1>0, <1>1 DEF TypeOK
  <2>. QED
    BY <1>1, <2>1, <2>2, ChunkSizeIsNumber, MaxRequestIsNumber
<1>4. /\ usedSize' \in [Chunks -> 0..ChunkSize] /\ open' \in [Chunks -> BOOLEAN]
      /\ usedSize'[c] = usedSize[c] + size /\ open'[c] = FALSE
      /\ \A d \in Chunks \ {c} : usedSize'[d] = usedSize[d] /\ open'[d] = open[d]
  BY <1>0, <1>1, <1>3 DEF Close, TypeOK
<1>5. /\ new.owner = c /\ new.start = usedSize[c] /\ new.size = size
      /\ new \in [owner : created, start : 0..ChunkSize, size : 1..ChunkSize]
  BY <1>1, <1>3 DEF Buffer
<1> HIDE DEF new, c
<1>6. Ownership'
  <2>1. TypeOK'
    BY <1>0, <1>1, <1>2, <1>4, <1>5 DEF TypeOK
  <2>2. \A d : Referenced(d, local, buffers)' <=> Referenced(d, local, buffers)
    BY <1>1, <1>5 DEF Referenced, c
  <2>. QED
    BY <1>1, <2>1, <2>2 DEF Ownership, OneOwner, PooledIsUnused, NoneLost
<1>7. \A u \in Threads \ {t} : local[u] # NoChunk => local[u] \in Chunks \ {c}
  BY <1>0, <1>1 DEF OneOwner, TypeOK, c
<1>8. PoppedIsEmpty'
  BY <1>1, <1>2, <1>5, <1>7 DEF PoppedIsEmpty
<1>9. GivesBack'
  BY <1>1, <1>2 DEF GivesBack
<1>a. OpenWhileFilling'
  BY <1>1, <1>2, <1>4, <1>7 DEF OpenWhileFilling, c
<1>b. RequestFits'
  <2>1. ASSUME NEW u \in Threads,
               at'[u] = "filling" \/ (at'[u] = "alloc" /\ request'[u] <= ChunkSize)
        PROVE  usedSize'[local'[u]] + request'[u] <= ChunkSize
    <3>1. u # t /\ local[u] # NoChunk
      BY <1>2, <2>1 DEF PoppedIsEmpty
    <3>. QED
      BY <1>1, <1>2, <1>4, <1>7, <2>1, <3>1 DEF RequestFits
  <2>. QED
    BY <2>1 DEF RequestFits
<1>c. BuffersLaidOut'
  <2>1. ASSUME NEW b \in buffers
        PROVE  /\ b.owner \in Chunks /\ b.start \in Nat /\ b.size \in Nat
               /\ usedSize[b.owner] \in 0..ChunkSize
               /\ b.start + b.size <= usedSize'[b.owner]
               /\ b.owner = c => b.start + b.size <= new.start
    <3>1. b.owner \in Chunks /\ b.start \in Nat /\ b.size \in Nat /\ usedSize[b.owner] \in 0..ChunkSize
      BY <1>0 DEF TypeOK
    <3>2. b.start + b.size <= usedSize[b.owner]
      BY DEF BuffersLaidOut
    <3>3. usedSize[b.owner] <= usedSize'[b.owner]
      BY <1>3, <1>4, <3>1, ChunkSizeIsNumber
    <3>4. usedSize'[b.owner] \in 0..ChunkSize
      BY <1>4, <3>1
    <3>. QED
      BY <1>5, <3>1, <3>2, <3>3, <3>4, ChunkSizeIsNumber
  <2>2. new.start + new.size <= usedSize'[new.owner]
    BY <1>3, <1>4, <1>5
  <2>. QED
    BY <1>1, <1>5, <2>1, <2>2 DEF BuffersLaidOut
<1>d. OnlyTooLargeCrashes'
  BY <1>1, <1>2 DEF OnlyTooLargeCrashes
<1>. QED
  BY <1>6, <1>8, <1>9, <1>a, <1>b, <1>c, <1>d

\* The chunk whose last reference goes with a buffer was nowhere else.
LEMMA DropKeeps ==
    ASSUME Inv, NEW t \in Threads, NEW b \in buffers, Drop(t, b)
    PROVE  Inv'
<1> USE DEF Inv
<1>0. TypeOK /\ OneOwner /\ PooledIsUnused /\ NoneLost
  BY DEF Ownership
<1>1. /\ at[t] = "run" /\ buffers' = buffers \ {b} /\ b.owner \in created /\ b.owner # NoChunk
      /\ UNCHANGED <<usedSize, open, created, pool, local, request>>
      /\ dropped[t] = NoChunk
  BY <1>0, NoChunkIsNull DEF Drop, TypeOK, GivesBack
<1>2. PICK place \in {"run", "push"} :
         /\ at'[t] = place /\ (\A u \in Threads \ {t} : at'[u] = at[u]) /\ at' \in [Threads -> Places]
         /\ dropped' \in [Threads -> created \cup {NoChunk}]
         /\ \A u \in Threads \ {t} : dropped'[u] = dropped[u]
         /\ \/ place = "run" /\ Referenced(b.owner, local, buffers') /\ dropped'[t] = NoChunk
            \/ place = "push" /\ ~Referenced(b.owner, local, buffers') /\ dropped'[t] = b.owner
  <2>1. CASE Referenced(b.owner, local, buffers')
    BY <1>0, <1>1, <2>1 DEF Drop, TypeOK
  <2>2. CASE ~Referenced(b.owner, local, buffers')
    BY <1>0, <1>1, <2>2 DEF Drop, TypeOK, Goto, Places
  <2>. QED
    BY <2>1, <2>2
<1>3. TypeOK'
  BY <1>0, <1>1, <1>2 DEF TypeOK
<1>4. /\ \A d : Referenced(d, local', buffers') => Referenced(d, local, buffers)
      /\ \A d : Referenced(d, local, buffers) /\ d # b.owner => Referenced(d, local', buffers')
      /\ Referenced(b.owner, local, buffers)
      /\ Referenced(b.owner, local', buffers') <=> place = "run"
  BY <1>1, <1>2 DEF Referenced
<1>5. Ownership'
  <2>1. OneOwner'
    BY <1>0, <1>1 DEF OneOwner
  <2>2. /\ \A i \in DOMAIN pool : pool[i] # b.owner
        /\ \A u \in Threads : dropped[u] # b.owner
    BY <1>0, <1>1, <1>4 DEF PooledIsUnused
  <2>3. PooledIsUnused'
    <3>1. ASSUME NEW i \in DOMAIN pool
          PROVE  /\ ~Referenced(pool[i], local', buffers')
                 /\ \A k \in DOMAIN pool : pool[i] = pool[k] => i = k
      <4>1. ~Referenced(pool[i], local, buffers) /\ \A k \in DOMAIN pool : pool[i] = pool[k] => i = k
        BY <1>0 DEF PooledIsUnused
      <4>. QED
        BY <1>4, <4>1
    <3>2. ASSUME NEW u \in Threads, dropped'[u] # NoChunk
          PROVE  /\ ~Referenced(dropped'[u], local', buffers')
                 /\ \A i \in DOMAIN pool : pool[i] # dropped'[u]
                 /\ \A v \in Threads : dropped'[v] = dropped'[u] => v = u
      <4>1. CASE u = t
        <5>1. dropped'[u] = b.owner /\ place = "push"
          BY <1>2, <3>2, <4>1
        <5>. QED
          BY <1>2, <1>4, <2>2, <4>1, <5>1
      <4>2. CASE u # t
        <5>1. /\ dropped'[u] = dropped[u] /\ dropped[u] # b.owner
              /\ ~Referenced(dropped[u], local, buffers)
              /\ \A i \in DOMAIN pool : pool[i] # dropped[u]
              /\ \A v \in Threads : dropped[v] = dropped[u] => v = u
          BY <1>0, <1>2, <2>2, <3>2, <4>2 DEF PooledIsUnused
        <5>. QED
          BY <1>1, <1>2, <1>4, <3>2, <4>2, <5>1
      <4>. QED
        BY <4>1, <4>2
    <3>. QED
      BY <1>1, <3>1, <3>2 DEF PooledIsUnused
  <2>4. NoneLost'
    <3>1. ASSUME NEW d \in created
          PROVE  \/ Referenced(d, local, buffers)'
                 \/ \E i \in DOMAIN pool : pool[i] = d
                 \/ \E u \in Threads : dropped'[u] = d
      <4>1. CASE d = b.owner
        BY <1>2, <1>4, <4>1
      <4>2. CASE d # b.owner
        <5>1. \/ Referenced(d, local, buffers)
              \/ \E i \in DOMAIN pool : pool[i] = d
              \/ \E u \in Threads : dropped[u] = d
          BY <1>0 DEF NoneLost
        <5>2. d # NoChunk
          BY <1>0, NoChunkIsNull DEF TypeOK
        <5>3. ASSUME NEW u \in Threads, dropped[u] = d
              PROVE  dropped'[u] = d
          BY <1>1, <1>2, <5>2, <5>3
        <5>. QED
          BY <1>4, <4>2, <5>1, <5>3
      <4>. QED
        BY <4>1, <4>2
    <3>. QED
      BY <1>1, <3>1 DEF NoneLost
  <2>. QED
    BY <1>3, <2>1, <2>3, <2>4 DEF Ownership
<1>6. /\ PoppedIsEmpty' /\ GivesBack' /\ OpenWhileFilling' /\ RequestFits' /\ BuffersLaidOut'
      /\ OnlyTooLargeCrashes'
  BY <1>1, <1>2 DEF PoppedIsEmpty, GivesBack, OpenWhileFilling, RequestFits, BuffersLaidOut,
                    OnlyTooLargeCrashes
<1>. QED
  BY <1>5, <1>6

\* Pop takes a chunk that nobody has, and knows whether the old one is anybody's.
LEMMA PopKeeps ==
    ASSUME Inv, NEW t \in Threads, Pop(t)
    PROVE  Inv'
<1> USE DEF Inv
<1>0. TypeOK /\ OneOwner /\ PooledIsUnused /\ NoneLost
  BY DEF Ownership
<1>1. at[t] = "pop" /\ dropped[t] = NoChunk /\ UNCHANGED <<usedSize, open, buffers, request>>
  BY DEF Pop, GivesBack
<1>2. PICK c \in Chunks :
         /\ local' = [local EXCEPT ![t] = c]
         /\ created' = created \cup {c}
         /\ ~Referenced(c, local, buffers) /\ (\A u \in Threads : dropped[u] # c)
         /\ pool' \in Seq(created')
         /\ \A i \in DOMAIN pool' : i \in DOMAIN pool /\ pool'[i] = pool[i] /\ pool'[i] # c
         /\ \A i \in DOMAIN pool : pool[i] # c => i \in DOMAIN pool'
  <2>1. CASE pool # <<>>
    <3>1. local' = [local EXCEPT ![t] = pool[Len(pool)]] /\ pool' = PopBack /\ UNCHANGED created
      BY <2>1 DEF Pop
    <3>2. /\ pool' \in Seq(created') /\ DOMAIN pool' = 1..(Len(pool) - 1)
          /\ \A i \in DOMAIN pool' : i \in DOMAIN pool /\ i # Len(pool) /\ pool'[i] = pool[i]
      BY <1>0, <2>1, <3>1, PoolPopped
    <3>3. /\ Len(pool) \in Nat /\ DOMAIN pool = 1..Len(pool) /\ Len(pool) >= 1
          /\ Len(pool) \in DOMAIN pool /\ pool[Len(pool)] \in created
      BY <1>0, <2>1, PoolIsSequence
    <3>4. /\ ~Referenced(pool[Len(pool)], local, buffers)
          /\ \A u \in Threads : dropped[u] # pool[Len(pool)]
          /\ \A i \in DOMAIN pool : pool[i] = pool[Len(pool)] => i = Len(pool)
      <4>1. pool[Len(pool)] # NoChunk
        BY <1>0, <3>3, NoChunkIsNull DEF TypeOK
      <4>. QED
        BY <1>0, <3>3, <4>1 DEF PooledIsUnused
    <3>5. pool[Len(pool)] \in Chunks /\ created' = created \cup {pool[Len(pool)]}
      BY <1>0, <3>1, <3>3 DEF TypeOK
    <3>6. \A i \in DOMAIN pool' : pool'[i] # pool[Len(pool)]
      BY <3>2, <3>4
    <3>7. \A i \in DOMAIN pool : pool[i] # pool[Len(pool)] => i \in DOMAIN pool'
      BY <3>2, <3>3
    <3>. QED
      BY <3>1, <3>2, <3>4, <3>5, <3>6, <3>7
  <2>2. CASE pool = <<>>
    <3>1. PICK c \in Chunks \ created : /\ local' = [local EXCEPT ![t] = c]
                                        /\ created' = created \cup {c} /\ pool' = pool
      BY <2>2 DEF Pop
    <3>2. ~Referenced(c, local, buffers) /\ \A u \in Threads : dropped[u] # c
      BY <1>0, <3>1, NoChunkIsNull DEF TypeOK, Referenced
    <3>3. \A i \in DOMAIN pool : FALSE
      BY <2>2, EmptySeq
    <3>4. pool' \in Seq(created')
      BY <2>2, <3>1, EmptySeq
    <3>. QED
      BY <3>1, <3>2, <3>3, <3>4
  <2>. QED
    BY <2>1, <2>2
<1>3. /\ local' \in [Threads -> created' \cup {NoChunk}] /\ local'[t] = c
      /\ \A u \in Threads \ {t} : local'[u] = local[u]
      /\ c # NoChunk /\ created' \subseteq Chunks /\ (\A u \in Threads : local[u] # c)
      /\ \A b \in buffers : b.owner # c
  BY <1>0, <1>2, NoChunkIsNull DEF TypeOK, Referenced
<1>4. PICK place \in {"reset", "pushOld"} :
         /\ at'[t] = place /\ (\A u \in Threads \ {t} : at'[u] = at[u]) /\ at' \in [Threads -> Places]
         /\ dropped' \in [Threads -> created' \cup {NoChunk}]
         /\ \A u \in Threads \ {t} : dropped'[u] = dropped[u]
         /\ \/ /\ place = "reset" /\ dropped'[t] = NoChunk
               /\ local[t] = NoChunk \/ Referenced(local[t], local', buffers)
            \/ /\ place = "pushOld" /\ dropped'[t] = local[t]
               /\ local[t] # NoChunk /\ ~Referenced(local[t], local', buffers)
  <2>1. CASE local[t] = NoChunk \/ Referenced(local[t], local', buffers)
    <3>1. Goto(t, "reset") /\ UNCHANGED dropped
      BY <2>1 DEF Pop
    <3>. QED
      BY <1>0, <1>1, <1>2, <2>1, <3>1, Goes DEF Places, TypeOK
  <2>2. CASE local[t] # NoChunk /\ ~Referenced(local[t], local', buffers)
    <3>1. Goto(t, "pushOld") /\ dropped' = [dropped EXCEPT ![t] = local[t]]
      BY <2>2 DEF Pop
    <3>2. dropped' \in [Threads -> created' \cup {NoChunk}] /\ dropped'[t] = local[t]
          /\ \A u \in Threads \ {t} : dropped'[u] = dropped[u]
      BY <1>0, <1>2, <3>1 DEF TypeOK
    <3>. QED
      BY <1>0, <2>2, <3>1, <3>2, Goes DEF Places
  <2>. QED
    BY <2>1, <2>2
<1>5. TypeOK'
  BY <1>0, <1>1, <1>2, <1>3, <1>4 DEF TypeOK
<1>6. /\ \A d : d # c /\ d # local[t] => (Referenced(d, local', buffers) <=> Referenced(d, local, buffers))
      /\ \A d : d # c /\ Referenced(d, local', buffers) => Referenced(d, local, buffers)
      /\ Referenced(c, local', buffers)
      /\ Referenced(local[t], local, buffers)
  BY <1>3 DEF Referenced
<1>7. OneOwner'
  BY <1>0, <1>3 DEF OneOwner
<1>8. place = "pushOld" => /\ \A i \in DOMAIN pool : pool[i] # local[t]
                           /\ \A u \in Threads : dropped[u] # local[t]
  BY <1>0, <1>4, <1>6 DEF PooledIsUnused
<1>9. PooledIsUnused'
  <2>1. ASSUME NEW i \in DOMAIN pool'
        PROVE  /\ ~Referenced(pool'[i], local', buffers)
               /\ \A k \in DOMAIN pool' : pool'[i] = pool'[k] => i = k
    BY <1>0, <1>2, <1>6 DEF PooledIsUnused
  <2>2. ASSUME NEW u \in Threads, dropped'[u] # NoChunk
        PROVE  /\ ~Referenced(dropped'[u], local', buffers)
               /\ \A i \in DOMAIN pool' : pool'[i] # dropped'[u]
               /\ \A v \in Threads : dropped'[v] = dropped'[u] => v = u
    <3>1. CASE u = t
      BY <1>2, <1>4, <1>8, <2>2, <3>1
    <3>2. CASE u # t
      <4>1. /\ ~Referenced(dropped[u], local, buffers) /\ dropped[u] = dropped'[u] /\ dropped[u] # c
            /\ \A i \in DOMAIN pool : pool[i] # dropped[u]
            /\ \A v \in Threads : dropped[v] = dropped[u] => v = u
        BY <1>0, <1>2, <1>4, <2>2, <3>2 DEF PooledIsUnused
      <4>. QED
        BY <1>2, <1>4, <1>6, <1>8, <2>2, <3>2, <4>1
    <3>. QED
      BY <3>1, <3>2
  <2>. QED
    BY <1>1, <2>1, <2>2 DEF PooledIsUnused
<1>a. NoneLost'
  <2>1. ASSUME NEW d \in created'
        PROVE  \/ Referenced(d, local', buffers)
               \/ \E i \in DOMAIN pool' : pool'[i] = d
               \/ \E u \in Threads : dropped'[u] = d
    <3>1. CASE d = c
      BY <1>6, <3>1
    <3>2. CASE d # c /\ d = local[t]
      <4>1. d # NoChunk
        BY <1>5, <2>1, NoChunkIsNull DEF TypeOK
      <4>. QED
        BY <1>4, <3>2, <4>1
    <3>3. CASE d # c /\ d # local[t]
      <4>1. \/ Referenced(d, local, buffers)
            \/ \E i \in DOMAIN pool : pool[i] = d
            \/ \E u \in Threads : dropped[u] = d
        BY <1>0, <1>2, <2>1, <3>3 DEF NoneLost
      <4>2. ASSUME NEW u \in Threads, dropped[u] = d
            PROVE  \E v \in Threads : dropped'[v] = d
        <5>1. d # NoChunk
          BY <1>5, <2>1, NoChunkIsNull DEF TypeOK
        <5>. QED
          BY <1>1, <1>4, <4>2, <5>1
      <4>. QED
        BY <1>2, <1>6, <3>3, <4>1, <4>2
    <3>. QED
      BY <3>1, <3>2, <3>3
  <2>. QED
    BY <1>1, <2>1 DEF NoneLost
<1>b. Ownership'
  BY <1>5, <1>7, <1>9, <1>a DEF Ownership
<1>c. PoppedIsEmpty'
  BY <1>1, <1>3, <1>4 DEF PoppedIsEmpty
<1>d. GivesBack'
  BY <1>1, <1>4 DEF GivesBack
<1>e. OpenWhileFilling' /\ RequestFits' /\ BuffersLaidOut' /\ OnlyTooLargeCrashes'
  BY <1>1, <1>3, <1>4 DEF OpenWhileFilling, RequestFits, BuffersLaidOut, OnlyTooLargeCrashes
<1>. QED
  BY <1>b, <1>c, <1>d, <1>e

\* The deleter puts the chunk into the pool, where it was not.
LEMMA PushGlobalKeeps ==
    ASSUME Inv, NEW t \in Threads, PushGlobal(t)
    PROVE  Inv'
<1> USE DEF Inv
<1>0. TypeOK /\ OneOwner /\ PooledIsUnused /\ NoneLost
  BY DEF Ownership
<1>1. PICK c \in created :
         /\ c = dropped[t] /\ c # NoChunk /\ pool' = Append(pool, c)
         /\ dropped' \in [Threads -> created \cup {NoChunk}] /\ dropped'[t] = NoChunk
         /\ \A u \in Threads \ {t} : dropped'[u] = dropped[u]
         /\ UNCHANGED <<usedSize, open, created, local, buffers, request>>
  BY <1>0 DEF PushGlobal, GivenBack, GivesBack, TypeOK
<1>2. PICK place \in {"run", "reset"} :
         /\ at'[t] = place /\ (\A u \in Threads \ {t} : at'[u] = at[u]) /\ at' \in [Threads -> Places]
         /\ at[t] \in {"push", "pushOld"} /\ (place = "reset" <=> at[t] = "pushOld")
  BY <1>0, Goes DEF PushGlobal, Places
<1>3. /\ pool' \in Seq(created') /\ DOMAIN pool' = 1..(Len(pool) + 1)
      /\ \A i \in DOMAIN pool : i \in DOMAIN pool' /\ i # Len(pool) + 1 /\ pool'[i] = pool[i]
      /\ pool'[Len(pool) + 1] = c
  BY <1>0, <1>1, PoolPushed
<1>4. /\ Len(pool) + 1 \in DOMAIN pool'
      /\ \A i \in DOMAIN pool' : i \in DOMAIN pool \/ i = Len(pool) + 1
  BY <1>0, <1>3, PoolIsSequence
<1>5. \A d : Referenced(d, local, buffers)' <=> Referenced(d, local, buffers)
  BY <1>1 DEF Referenced
<1>6. /\ ~Referenced(c, local, buffers)
      /\ \A i \in DOMAIN pool : pool[i] # c
      /\ \A u \in Threads \ {t} : dropped[u] # c
  BY <1>0, <1>1 DEF PooledIsUnused
<1>7. TypeOK'
  BY <1>0, <1>1, <1>2, <1>3 DEF TypeOK
<1>8. OneOwner'
  BY <1>0, <1>1 DEF OneOwner
<1>9. PooledIsUnused'
  <2>1. ASSUME NEW i \in DOMAIN pool'
        PROVE  /\ ~Referenced(pool'[i], local, buffers)
               /\ \A k \in DOMAIN pool' : pool'[i] = pool'[k] => i = k
    BY <1>0, <1>3, <1>4, <1>6 DEF PooledIsUnused
  <2>2. ASSUME NEW u \in Threads, dropped'[u] # NoChunk
        PROVE  /\ ~Referenced(dropped'[u], local, buffers)
               /\ \A i \in DOMAIN pool' : pool'[i] # dropped'[u]
               /\ \A v \in Threads : dropped'[v] = dropped'[u] => v = u
    <3>1. /\ u # t /\ dropped'[u] = dropped[u] /\ dropped[u] # c
          /\ ~Referenced(dropped[u], local, buffers)
          /\ \A i \in DOMAIN pool : pool[i] # dropped[u]
          /\ \A v \in Threads : dropped[v] = dropped[u] => v = u
      BY <1>0, <1>1, <1>6, <2>2 DEF PooledIsUnused
    <3>. QED
      BY <1>1, <1>3, <1>4, <2>2, <3>1
  <2>. QED
    BY <1>1, <2>1, <2>2 DEF PooledIsUnused
<1>a. NoneLost'
  <2>1. ASSUME NEW d \in created
        PROVE  \/ Referenced(d, local, buffers)'
               \/ \E i \in DOMAIN pool' : pool'[i] = d
               \/ \E u \in Threads : dropped'[u] = d
    BY <1>0, <1>1, <1>3, <1>4, <1>5 DEF NoneLost
  <2>. QED
    BY <1>1, <2>1 DEF NoneLost
<1>b. Ownership'
  BY <1>7, <1>8, <1>9, <1>a DEF Ownership
<1>c. /\ PoppedIsEmpty' /\ GivesBack' /\ OpenWhileFilling' /\ RequestFits' /\ BuffersLaidOut'
      /\ OnlyTooLargeCrashes'
  BY <1>1, <1>2 DEF PoppedIsEmpty, GivesBack, OpenWhileFilling, RequestFits, BuffersLaidOut,
                    OnlyTooLargeCrashes
<1>. QED
  BY <1>b, <1>c

\* Every step preserves the invariant.
LEMMA NextKeeps == Inv /\ [Next]_vars => Inv'
<1> SUFFICES ASSUME Inv, [Next]_vars
             PROVE  Inv'
  OBVIOUS
<1>1. CASE Next
  BY <1>1, OpenKeeps, CloseKeeps, PopKeeps, ResetKeeps, AllocKeeps, CrashKeeps, PushGlobalKeeps, DropKeeps
     DEF Next, Step
<1>2. CASE UNCHANGED vars
  BY <1>2 DEF vars, Inv, Ownership, TypeOK, OneOwner, PooledIsUnused, NoneLost, Referenced, PoppedIsEmpty,
              GivesBack, OpenWhileFilling, RequestFits, BuffersLaidOut, OnlyTooLargeCrashes
<1>. QED
  BY <1>1, <1>2

\* The invariant holds in every reachable state.
LEMMA Invariance == Spec => []Inv
BY InitInv, NextKeeps, PTL DEF Spec

\* A chunk is for ever in one place: with one thread, kept by its buffers, in the
\* pool or on its way there; none is lost and none is handed out twice.
THEOREM ChunksAreOwned == Spec => []Ownership
<1>1. Inv => Ownership
  BY DEF Inv
<1>. QED
  BY <1>1, Invariance, PTL

\* No byte that may still be sent is written again: neither by the buffer a thread
\* is filling nor by any other.
THEOREM NoByteIsShared == Spec => []BuffersDisjoint
<1>1. ASSUME Inv
      PROVE  BuffersDisjoint
  <2> USE <1>1 DEF Inv
  <2>1. TypeOK /\ OneOwner
    BY DEF Ownership
  <2>2. ASSUME NEW b \in buffers
        PROVE  b.start \in Nat /\ b.size \in Nat /\ b.owner \in Chunks
    BY <2>1 DEF TypeOK
  <2>3. ASSUME NEW b \in buffers, NEW c \in buffers, b # c
        PROVE  Bytes(b) \cap Bytes(c) = {}
    <3>1. ASSUME NEW x \in Bytes(b), x \in Bytes(c)
          PROVE  FALSE
      <4>1. PICK i \in b.start..(b.start + b.size - 1) : x = <<b.owner, i>>
        BY <3>1 DEF Bytes
      <4>2. PICK k \in c.start..(c.start + c.size - 1) : x = <<c.owner, k>>
        BY <3>1 DEF Bytes
      <4>3. b.owner = c.owner /\ i = k
        BY <4>1, <4>2
      <4>4. b.start + b.size <= c.start \/ c.start + c.size <= b.start
        BY <2>3, <4>3 DEF BuffersLaidOut
      <4>. QED
        BY <2>2, <4>3, <4>4
    <3>. QED
      BY <3>1
  <2>4. ASSUME NEW t \in Threads, NEW x \in Filling(t)
        PROVE  /\ at[t] = "filling" /\ local[t] # NoChunk /\ usedSize[local[t]] \in Nat
               /\ \E i \in Int : x = <<local[t], i>> /\ usedSize[local[t]] <= i
    <3>1. at[t] = "filling"
      BY <2>4 DEF Filling
    <3>2. local[t] # NoChunk /\ usedSize[local[t]] \in Nat /\ request[t] \in Nat
      BY <2>1, <3>1 DEF PoppedIsEmpty, TypeOK
    <3>3. PICK i \in usedSize[local[t]]..(usedSize[local[t]] + request[t] - 1) : x = <<local[t], i>>
      BY <2>4, <3>1 DEF Filling, Bytes, Buffer
    <3>. QED
      BY <3>1, <3>2, <3>3
  <2>5. ASSUME NEW t \in Threads, NEW u \in Threads, t # u
        PROVE  Filling(t) \cap Filling(u) = {}
    BY <2>1, <2>4, <2>5 DEF OneOwner
  <2>6. ASSUME NEW t \in Threads, NEW b \in buffers
        PROVE  Filling(t) \cap Bytes(b) = {}
    <3>1. ASSUME NEW x \in Filling(t), x \in Bytes(b)
          PROVE  FALSE
      <4>1. PICK i \in b.start..(b.start + b.size - 1) : x = <<b.owner, i>>
        BY <3>1 DEF Bytes
      <4>2. PICK k \in Int : x = <<local[t], k>> /\ usedSize[local[t]] <= k
        BY <2>4, <3>1
      <4>3. b.start + b.size <= usedSize[local[t]] /\ i = k
        BY <4>1, <4>2 DEF BuffersLaidOut
      <4>. QED
        BY <2>2, <2>4, <3>1, <4>1, <4>2, <4>3
    <3>. QED
      BY <3>1
  <2>. QED
    BY <2>3, <2>5, <2>6 DEF BuffersDisjoint
<1>. QED
  BY <1>1, Invariance, PTL

\* A request ends the process only if no chunk could have served it.
THEOREM AlwaysOpens == Spec => []OnlyTooLargeCrashes
<1>1. Inv => OnlyTooLargeCrashes
  BY DEF Inv
<1>. QED
  BY <1>1, Invariance, PTL
=============================================================================
