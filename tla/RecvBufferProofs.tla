--------------------------- MODULE RecvBufferProofs ---------------------------
(***************************************************************************)
(* What RecvBuffer promises for every buffer size, every number of buffers *)
(* from three up, and all sizes below a buffer's that headers may give.    *)
(***************************************************************************)
EXTENDS RecvBuffer, TLAPS

\* The cursors and the room they leave, with what the loop has not cut off yet.
Cursors == /\ TypeOK
           /\ InBounds
           /\ at = "posted" => processLen = 0 /\ RoomForABuffer
           /\ NoPacketWaits

\* The size of the buffer is what its two parameters say.
LEMMA CapacityFacts ==
    /\ Capacity \in Nat
    /\ Capacity >= 3 * BufferSize
    /\ BufferSize \in Nat \ {0}
    /\ HeaderSize \in 1..BufferSize
    /\ \A s \in PacketSizes : s \in Nat /\ s < BufferSize
<1>1. BufferSize \in Nat \ {0} /\ HeaderSize \in 1..BufferSize
  BY BufferSizeIsNumber, HeaderFits
<1>2. \A s \in PacketSizes : s \in Nat /\ s < BufferSize
  BY <1>1, PacketSizesFit
<1>3. BufferCount \in Nat /\ BufferCount >= 3
  BY BufferCountAtLeastThree
<1>4. BufferSize * BufferCount \in Nat /\ BufferSize * BufferCount >= BufferSize * 3
  BY <1>1, <1>3
<1> QED  BY <1>1, <1>2, <1>4 DEF Capacity

\* The buffer is empty at first.
LEMMA CursorsInit == Init => Cursors
BY CapacityFacts DEF Init, Cursors, TypeOK, InBounds, RoomForABuffer, NoPacketWaits,
                     Nothing, NotRead, DataSize, FreeSize

\* The five steps keep the cursors in order.
LEMMA CursorsNext == Cursors /\ [Next]_vars => Cursors'
<1> SUFFICES ASSUME Cursors, [Next]_vars PROVE Cursors'
  OBVIOUS
<1> USE CapacityFacts DEF Cursors, TypeOK, InBounds, RoomForABuffer, NoPacketWaits,
                          DataSize, FreeSize, Unread, NotRead
<1>1. ASSUME NEW n \in 1..Capacity, Receive(n) PROVE Cursors'
  <2>1. writePos' \in 0..Capacity /\ writePos' = writePos + n
    BY <1>1 DEF Receive, Offered
  <2>2. cells' \in [0..Capacity - 1 -> -1..Capacity]
    <3>1. \A i \in 0..Capacity - 1 : i \in writePos..writePos + n - 1 => i - readPos \in -1..Capacity
      OBVIOUS
    <3> QED  BY <1>1, <3>1 DEF Receive
  <2> QED  BY <1>1, <2>1, <2>2 DEF Receive
<1>2. ASSUME ReceiveNothing PROVE Cursors'
  BY <1>2 DEF ReceiveNothing
<1>3. ASSUME ReadHeader PROVE Cursors'
  BY <1>3 DEF ReadHeader
<1>4. ASSUME OnRecvPacket PROVE Cursors'
  <2>1. size \in Nat /\ processLen' = processLen + size /\ readPos + processLen' <= writePos
    BY <1>4 DEF OnRecvPacket, Complete
  <2>2. cells' \in [0..Capacity - 1 -> -1..Capacity]
    <3>1. \A i \in 0..Capacity - 1 : cells[i] \in -1..Capacity
      OBVIOUS
    <3>2. \A i \in 0..Capacity - 1 : cells[i] >= size => cells[i] - size \in -1..Capacity
      BY <2>1, <3>1
    <3> QED  BY <1>4, <2>1, <3>1, <3>2 DEF OnRecvPacket, Nothing
  <2>3. at' = "parse" /\ size' \in PacketSizes \cup {NotRead} /\ readPos' = readPos /\ writePos' = writePos
    BY <1>4 DEF OnRecvPacket
  <2>4. TypeOK' /\ InBounds'
    BY <2>1, <2>2, <2>3
  <2>5. at' # "posted"
    BY <2>3
  <2> QED  BY <2>4, <2>5
<1>5. ASSUME EndRecv PROVE Cursors'
  <2>1. Unread \in Nat /\ Unread < BufferSize
    BY <1>5 DEF EndRecv, HasHeader, Complete
  <2>2. CASE Unread = 0 /\ readPos' = 0 /\ writePos' = 0
                        /\ cells' = [i \in DOMAIN cells |-> Nothing]
    BY <1>5, <2>2 DEF EndRecv, Nothing, HasHeader, Complete
  <2>3. CASE Unread > 0 /\ MustMove(writePos) /\ readPos' = 0 /\ writePos' = Unread
                /\ cells' = [i \in DOMAIN cells |-> IF i < Unread THEN cells[DataStart + i] ELSE Nothing]
    <3>1. cells' \in [0..Capacity - 1 -> -1..Capacity]
      <4>1. \A i \in 0..Capacity - 1 : i < Unread => DataStart + i \in 0..Capacity - 1
        BY <2>1 DEF DataStart
      <4> QED  BY <2>3, <4>1 DEF Nothing
    <3> QED  BY <1>5, <2>1, <2>3, <3>1 DEF EndRecv, HasHeader, Complete
  <2>4. CASE Unread > 0 /\ ~MustMove(writePos) /\ readPos' = DataStart
                /\ UNCHANGED <<writePos, cells>>
    BY <1>5, <2>1, <2>4 DEF EndRecv, MustMove, DataStart, HasHeader, Complete
  <2> QED  BY <1>5, <2>2, <2>3, <2>4 DEF EndRecv
<1>6. CASE UNCHANGED vars
  BY <1>6 DEF vars
<1> QED  BY <1>1, <1>2, <1>3, <1>4, <1>5, <1>6 DEF Next

\* Type correctness, and the cursors stay in order and in the buffer.
THEOREM CursorsInvariant == Spec => []Cursors
BY CursorsInit, CursorsNext, PTL DEF Spec

\* Every receive is posted with room for at least one buffer.
THEOREM AlwaysRoom == Spec => []RoomForABuffer
<1>1. Cursors => RoomForABuffer
  BY DEF Cursors, RoomForABuffer
<1> QED  BY <1>1, CursorsInvariant, PTL

\* No complete packet is left in the buffer when a receive is posted.
THEOREM NoneWaits == Spec => []NoPacketWaits
<1>1. Cursors => NoPacketWaits
  BY DEF Cursors
<1> QED  BY <1>1, CursorsInvariant, PTL

\* A header of size 0 holds the loop in OnRecv.
ZeroIsParsed == size = 0 => at = "parse" /\ HasHeader

\* Behind a header of size 0 nothing ever changes: OnRecv does not return, and
\* what the peer sent behind it is never handed over.
THEOREM ZeroIsNotPassed == Spec => [][size # 0]_vars
<1> USE CapacityFacts DEF Cursors, TypeOK, InBounds, DataSize, FreeSize, Unread, HasHeader, NotRead
<1>1. Init => ZeroIsParsed
  BY DEF Init, ZeroIsParsed
<1>2. ASSUME Cursors, ZeroIsParsed, Next, size = 0 PROVE UNCHANGED vars
  <2>1. at = "parse" /\ HasHeader /\ Complete
    BY <1>2 DEF ZeroIsParsed, Complete
  <2>2. ASSUME OnRecvPacket PROVE UNCHANGED vars
    <3>1. processLen' = processLen /\ UNCHANGED <<readPos, writePos, at, size>>
      BY <1>2, <2>2 DEF OnRecvPacket
    <3>2. \A i \in 0..Capacity - 1 : (IF cells[i] < 0 THEN Nothing ELSE cells[i] - 0) = cells[i]
      BY <1>2 DEF Nothing
    <3>3. cells' = cells
      BY <1>2, <2>2, <3>2 DEF OnRecvPacket
    <3> QED  BY <3>1, <3>3 DEF vars
  <2> QED  BY <1>2, <2>1, <2>2 DEF Next, Receive, ReceiveNothing, ReadHeader, EndRecv
<1>3. Cursors /\ ZeroIsParsed /\ [Next]_vars => ZeroIsParsed'
  <2> SUFFICES ASSUME Cursors, ZeroIsParsed, [Next]_vars, size' = 0
               PROVE  at' = "parse" /\ HasHeader'
    BY DEF ZeroIsParsed
  <2>1. CASE size = 0
    <3>1. UNCHANGED vars
      BY <1>2, <2>1 DEF vars
    <3> QED  BY <2>1, <3>1 DEF ZeroIsParsed, vars
  <2>2. CASE size # 0
    <3>1. CASE ReadHeader
      BY <3>1 DEF ReadHeader
    <3> QED  BY <2>2, <3>1 DEF Next, Receive, ReceiveNothing, OnRecvPacket, EndRecv, vars
  <2> QED  BY <2>1, <2>2
<1>4. Cursors /\ ZeroIsParsed /\ [Next]_vars => [size # 0]_vars
  BY <1>2 DEF vars
<1> QED  BY <1>1, <1>3, <1>4, CursorsInvariant, PTL DEF Spec

\* The two areas of Clean's memcpy never overlap: data moves only when more
\* than two buffers are written, and less than one of them is left.
THEOREM MovesDoNotOverlap == Spec => NoOverlap
<1>1. Cursors /\ [Next]_vars => [writePos' < writePos => writePos' <= readPos + processLen]_vars
  <2> SUFFICES ASSUME Cursors, Next, writePos' < writePos PROVE writePos' <= readPos + processLen
    BY DEF vars
  <2> USE CapacityFacts DEF Cursors, TypeOK, InBounds, DataSize, FreeSize, Unread, NotRead
  <2>1. ASSUME NEW n \in 1..Capacity, Receive(n) PROVE FALSE
    BY <2>1 DEF Receive
  <2>2. CASE EndRecv
    <3>1. Unread < BufferSize
      BY <2>2 DEF EndRecv, HasHeader, Complete
    <3>2. CASE writePos' = 0
      BY <3>2
    <3>3. CASE Unread > 0 /\ MustMove(writePos) /\ writePos' = Unread
      <4>1. writePos > 2 * BufferSize
        BY <3>3 DEF MustMove
      <4> QED  BY <3>1, <3>3, <4>1
    <3>4. CASE writePos' = writePos
      BY <3>4
    <3>5. \/ writePos' = 0
          \/ Unread > 0 /\ MustMove(writePos) /\ writePos' = Unread
          \/ writePos' = writePos
      BY <2>2 DEF EndRecv
    <3> QED  BY <3>2, <3>3, <3>4, <3>5
  <2> QED  BY <2>1, <2>2 DEF Next, ReceiveNothing, ReadHeader, OnRecvPacket
<1> QED  BY <1>1, CursorsInvariant, PTL DEF Spec, NoOverlap

\* The bytes not handed over yet keep their order, wherever Clean moves them.
LEMMA OrderNext == Cursors /\ InStreamOrder /\ [Next]_vars => InStreamOrder'
<1> SUFFICES ASSUME Cursors, InStreamOrder, [Next]_vars,
                    NEW i \in 0..(Unread' - 1)
             PROVE  cells'[readPos' + processLen' + i] = i
  BY DEF InStreamOrder
<1> USE CapacityFacts DEF Cursors, TypeOK, InBounds, DataSize, FreeSize, Unread, NotRead
<1>0. \A k \in 0..Unread - 1 : cells[readPos + processLen + k] = k
  BY DEF InStreamOrder
<1>1. ASSUME NEW n \in 1..Capacity, Receive(n) PROVE cells'[readPos' + processLen' + i] = i
  <2>1. /\ readPos' = readPos /\ writePos' = writePos + n /\ processLen' = 0 /\ processLen = 0
        /\ n <= Capacity - writePos
    BY <1>1 DEF Receive, Offered
  <2>2. readPos + i \in 0..Capacity - 1 /\ readPos + i < writePos + n
    BY <2>1
  <2>3. cells'[readPos + i] = IF readPos + i \in writePos..writePos + n - 1
                              THEN readPos + i - readPos ELSE cells[readPos + i]
    BY <1>1, <2>2 DEF Receive
  <2>4. CASE readPos + i < writePos
    <3>1. cells[readPos + i] = i
      BY <1>0, <2>1, <2>4
    <3> QED  BY <2>1, <2>3, <2>4, <3>1
  <2>5. CASE ~(readPos + i < writePos)
    BY <2>1, <2>2, <2>3, <2>5
  <2> QED  BY <2>4, <2>5
<1>2. CASE UNCHANGED <<readPos, writePos, cells, processLen>>
  BY <1>0, <1>2
<1>3. ASSUME OnRecvPacket PROVE cells'[readPos' + processLen' + i] = i
  <2>1. /\ size \in Nat /\ processLen' = processLen + size
        /\ readPos' = readPos /\ writePos' = writePos
    BY <1>3 DEF OnRecvPacket
  <2> DEFINE place == readPos + processLen + size + i
  <2>2. place \in 0..Capacity - 1 /\ cells[place] = size + i
    BY <1>0, <2>1
  <2>3. cells'[place] = IF cells[place] < size THEN Nothing ELSE cells[place] - size
    BY <1>3, <2>2 DEF OnRecvPacket
  <2> QED  BY <2>1, <2>2, <2>3
<1>4. ASSUME EndRecv PROVE cells'[readPos' + processLen' + i] = i
  <2>1. processLen' = 0 /\ Unread \in Nat /\ Unread < BufferSize
    BY <1>4 DEF EndRecv, HasHeader, Complete
  <2>2. CASE readPos' = 0 /\ writePos' = 0
    BY <2>1, <2>2
  <2>3. CASE readPos' = 0 /\ writePos' = Unread
                /\ cells' = [k \in DOMAIN cells |-> IF k < Unread THEN cells[DataStart + k] ELSE Nothing]
    <3>1. i \in 0..Capacity - 1 /\ i < Unread
      BY <2>1, <2>3
    <3>2. cells'[i] = cells[DataStart + i]
      BY <2>3, <3>1
    <3> QED  BY <1>0, <2>1, <2>3, <3>1, <3>2 DEF DataStart
  <2>4. CASE readPos' = DataStart /\ UNCHANGED <<writePos, cells>>
    <3>1. i \in 0..Unread - 1
      BY <2>1, <2>4 DEF DataStart
    <3> QED  BY <1>0, <2>1, <2>4, <3>1 DEF DataStart
  <2> QED  BY <1>4, <2>2, <2>3, <2>4 DEF EndRecv
<1> QED  BY <1>1, <1>2, <1>3, <1>4 DEF Next, ReceiveNothing, ReadHeader, vars

\* What OnRecvPacket is given is the stream, byte for byte and in order.
THEOREM StreamOrder == Spec => []InStreamOrder
<1>1. Init => InStreamOrder
  BY CapacityFacts DEF Init, InStreamOrder, DataSize, Unread
<1> QED  BY <1>1, OrderNext, CursorsInvariant, PTL DEF Spec
=============================================================================
