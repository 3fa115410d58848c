------------------------------ MODULE SendBuffer ------------------------------
(***************************************************************************)
(* SendBuffer, SendBufferChunk and SendBufferManager                       *)
(* (src/Core/SendBuffer.cpp): every thread carves the buffers it sends out *)
(* of a chunk of its own; the buffers then travel to the queues of any     *)
(* number of Sessions and are released by any thread; the chunk goes back  *)
(* to the shared pool when the last reference to it is dropped.            *)
(*                                                                         *)
(* shared_ptr is modelled by what it counts: a chunk is referenced by the  *)
(* LSendBufferChunk of a thread and by the _owner of its SendBuffers.      *)
(***************************************************************************)
EXTENDS Naturals, Sequences, FiniteSets

CONSTANTS
    Threads,
    Chunks,         \* identities of SendBufferChunk objects
    NoChunk,        \* nullptr
    ChunkSize,      \* SEND_BUFFER_CHUNK_SIZE (6000)
    MaxRequest      \* the largest packet MakeSendBuffer asks for (0xFFFF: nothing checks it)

ASSUME NoChunkIsNull == NoChunk \notin Chunks
ASSUME ChunkSizeIsNumber == ChunkSize \in Nat
ASSUME MaxRequestIsNumber == MaxRequest \in Nat

VARIABLES
    usedSize,       \* usedSize[c]: _usedSize
    open,           \* open[c]: _open
    created,        \* the chunks that exist
    pool,           \* _sendBufferChunks, used as a stack
    local,          \* local[t]: LSendBufferChunk
    buffers,        \* the closed SendBuffers that something refers to
    at,             \* at[t]: where t is in SendBufferManager
    request,        \* request[t]: the size t asks for
    dropped         \* dropped[t]: the chunk whose last reference t has dropped

vars == <<usedSize, open, created, pool, local, buffers, at, request, dropped>>

Places == {"run", "pop", "pushOld", "reset", "alloc", "filling", "push", "crashed"}

FreeSize(c) == ChunkSize - usedSize[c]
Goto(t, place) == at' = [at EXCEPT ![t] = place]

\* A closed SendBuffer: where it lies, and its _writeSize.
Buffer(c, start, size) == [owner |-> c, start |-> start, size |-> size]

Init == /\ usedSize = [c \in Chunks |-> 0]
        /\ open = [c \in Chunks |-> FALSE]
        /\ created = {} /\ pool = <<>> /\ buffers = {}
        /\ local = [t \in Threads |-> NoChunk]
        /\ at = [t \in Threads |-> "run"]
        /\ request = [t \in Threads |-> 0]
        /\ dropped = [t \in Threads |-> NoChunk]

\* What keeps a chunk from its deleter, of the references that will be left;
\* the fault forgets that a SendBuffer refers to its chunk.
ReferencedByThread(c, locals, left) == \E t \in Threads : locals[t] = c
Referenced(c, locals, left) == (\E t \in Threads : locals[t] = c) \/ \E b \in left : b.owner = c

\* SendBufferManager::Open: its assertion; then, is there a chunk, with room?
Open(t, size) ==
    /\ at[t] = "run"
    /\ request' = [request EXCEPT ![t] = size]
    /\ Goto(t, IF local[t] = NoChunk THEN "pop"
               ELSE IF open[local[t]] THEN "crashed"
               ELSE IF FreeSize(local[t]) >= size THEN "alloc" ELSE "pop")
    /\ UNCHANGED <<usedSize, open, created, pool, local, buffers, dropped>>

\* Who gets the chunk at the back; the fault leaves it there.
BackStays == pool
PopBack == SubSeq(pool, 1, Len(pool) - 1)

\* Pop, from the pool or a new one, and the assignment to LSendBufferChunk,
\* which may drop the last reference to the old chunk.
Pop(t) ==
    /\ at[t] = "pop"
    /\ \/ /\ pool # <<>>
          /\ local' = [local EXCEPT ![t] = pool[Len(pool)]]
          /\ pool' = PopBack
          /\ UNCHANGED created
       \/ /\ pool = <<>>
          /\ \E c \in Chunks \ created : /\ local' = [local EXCEPT ![t] = c]
                                         /\ created' = created \cup {c}
          /\ UNCHANGED pool
    /\ \/ /\ local[t] = NoChunk \/ Referenced(local[t], local', buffers)
          /\ Goto(t, "reset")
          /\ UNCHANGED dropped
       \/ /\ local[t] # NoChunk /\ ~Referenced(local[t], local', buffers)
          /\ Goto(t, "pushOld")
          /\ dropped' = [dropped EXCEPT ![t] = local[t]]
    /\ UNCHANGED <<usedSize, open, buffers, request>>

\* What Reset does with _usedSize; the fault forgets it.
ResetOpenOnly(t) == usedSize
ResetSize(t) == [usedSize EXCEPT ![local[t]] = 0]

\* SendBufferChunk::Reset, on the chunk that was popped.
Reset(t) ==
    /\ at[t] = "reset"
    /\ open' = [open EXCEPT ![local[t]] = FALSE]
    /\ usedSize' = ResetSize(t)
    /\ Goto(t, "alloc")
    /\ UNCHANGED <<created, pool, local, buffers, request, dropped>>

\* SendBufferChunk::Open: what its assertions let pass and it has room for.
Fits(t) == ~open[local[t]] /\ request[t] <= FreeSize(local[t])

\* SendBufferChunk::Open; the caller fills the buffer ...
Alloc(t) ==
    /\ at[t] = "alloc" /\ Fits(t)
    /\ open' = [open EXCEPT ![local[t]] = TRUE]
    /\ Goto(t, "filling")
    /\ UNCHANGED <<usedSize, created, pool, local, buffers, request, dropped>>

\* ... or an assertion fails, or MakeSendBuffer uses the nullptr it is given:
\* the process is at its end.
Crash(t) ==
    /\ at[t] = "alloc" /\ ~Fits(t)
    /\ Goto(t, "crashed")
    /\ UNCHANGED <<usedSize, open, created, pool, local, buffers, request, dropped>>

\* SendBuffer::Close and SendBufferChunk::Close: the rest of what was asked for
\* is free again.
Close(t, writeSize) ==
    /\ at[t] = "filling" /\ writeSize <= request[t]
    /\ open' = [open EXCEPT ![local[t]] = FALSE]
    /\ usedSize' = [usedSize EXCEPT ![local[t]] = @ + writeSize]
    /\ buffers' = buffers \cup {Buffer(local[t], usedSize[local[t]], writeSize)}
    /\ Goto(t, "run")
    /\ UNCHANGED <<created, pool, local, request, dropped>>

\* The last reference to a SendBuffer is dropped, by whichever thread, and with
\* it perhaps the last one to its chunk.
Drop(t, b) ==
    /\ at[t] = "run"
    /\ buffers' = buffers \ {b}
    /\ \/ Referenced(b.owner, local, buffers') /\ UNCHANGED <<at, dropped>>
       \/ /\ ~Referenced(b.owner, local, buffers')
          /\ dropped' = [dropped EXCEPT ![t] = b.owner]
          /\ Goto(t, "push")
    /\ UNCHANGED <<usedSize, open, created, pool, local, request>>

\* A fault: the deleter does not give the chunk back.
Discarded(t) == pool
GivenBack(t) == Append(pool, dropped[t])

\* PushGlobal, the deleter of a chunk: back into the pool, under a new shared_ptr.
PushGlobal(t) ==
    /\ at[t] \in {"push", "pushOld"}
    /\ pool' = GivenBack(t)
    /\ dropped' = [dropped EXCEPT ![t] = NoChunk]
    /\ Goto(t, IF at[t] = "push" THEN "run" ELSE "reset")
    /\ UNCHANGED <<usedSize, open, created, local, buffers, request>>

Step(t) == \/ \E size \in 1..MaxRequest : Open(t, size) \/ Close(t, size)
           \/ Pop(t) \/ Reset(t) \/ Alloc(t) \/ Crash(t) \/ PushGlobal(t)
           \/ \E b \in buffers : Drop(t, b)

Next == /\ \A t \in Threads : at[t] # "crashed"
        /\ \E t \in Threads : Step(t)

Spec == Init /\ [][Next]_vars

-----------------------------------------------------------------------------

\* The variables have their types.
TypeOK ==
    /\ usedSize \in [Chunks -> 0..ChunkSize]
    /\ open \in [Chunks -> BOOLEAN]
    /\ created \subseteq Chunks
    /\ pool \in Seq(created)
    /\ local \in [Threads -> created \cup {NoChunk}]
    /\ buffers \subseteq [owner : created, start : 0..ChunkSize, size : 1..ChunkSize]
    /\ at \in [Threads -> Places]
    /\ request \in [Threads -> 0..MaxRequest]
    /\ dropped \in [Threads -> created \cup {NoChunk}]

\* The bytes of a buffer, and of the one a thread is filling.
Bytes(b) == {<<b.owner, i>> : i \in b.start..(b.start + b.size - 1)}
Filling(t) == IF at[t] = "filling" THEN Bytes(Buffer(local[t], usedSize[local[t]], request[t])) ELSE {}

\* No two buffers share a byte, and nobody fills a byte of a buffer that may
\* still be sent: a chunk is reset only when all its buffers are gone.
BuffersDisjoint ==
    /\ \A b, c \in buffers : b # c => Bytes(b) \cap Bytes(c) = {}
    /\ \A t, u \in Threads : t # u => Filling(t) \cap Filling(u) = {}
    /\ \A t \in Threads, b \in buffers : Filling(t) \cap Bytes(b) = {}

\* A chunk belongs to one thread at most, so that _open and _usedSize need no lock.
OneOwner == \A t, u \in Threads : local[t] = local[u] /\ local[t] # NoChunk => t = u

\* A chunk that is in the pool, or on its way there, is nobody's and holds no
\* buffer; it is there once.
PooledIsUnused ==
    /\ \A i \in DOMAIN pool : /\ ~Referenced(pool[i], local, buffers)
                              /\ \A k \in DOMAIN pool : pool[i] = pool[k] => i = k
    /\ \A t \in Threads : dropped[t] # NoChunk =>
          /\ ~Referenced(dropped[t], local, buffers)
          /\ \A i \in DOMAIN pool : pool[i] # dropped[t]
          /\ \A u \in Threads : dropped[u] = dropped[t] => u = t

\* No chunk is lost: each is referenced, in the pool or on its way there.
NoneLost ==
    \A c \in created : \/ Referenced(c, local, buffers)
                       \/ \E i \in DOMAIN pool : pool[i] = c
                       \/ \E t \in Threads : dropped[t] = c

\* The variables have their types; and a chunk that was made is, for ever, in one
\* place: with one thread, or kept by its buffers, or in the pool or with the
\* thread that puts it there.
Ownership == TypeOK /\ OneOwner /\ PooledIsUnused /\ NoneLost

\* A thread that wants a buffer gets one unless it asks for more than a whole
\* chunk: whatever other threads do with buffers of its chunk, Open finds the
\* chunk closed and large enough, and only a packet that is too large ends the
\* process.
OnlyTooLargeCrashes == \A t \in Threads : at[t] = "crashed" => request[t] > ChunkSize
=============================================================================
