------------------------------ MODULE RecvBuffer ------------------------------
(***************************************************************************)
(* The receive path of one PacketSession: the buffer of                    *)
(* src/Core/RecvBuffer.cpp, ProcessRecv, and the loop of                   *)
(* PacketSession::OnRecv that cuts the byte stream into packets.           *)
(*                                                                         *)
(* The peer sends packets; the stream delivers any number of their bytes   *)
(* at a time, as many as RegisterRecv offered room for.  A byte is         *)
(* represented by its distance from the first byte that has not been       *)
(* handed to OnRecvPacket yet, so that cells shows whether each byte is    *)
(* where the cursors say.  One thread at a time is in here                 *)
(* (EventsUsedOnce of Session).                                            *)
(***************************************************************************)
EXTENDS Integers

CONSTANTS
    BufferSize,     \* Session's BUFFER_SIZE (0x10000)
    BufferCount,    \* BUFFER_COUNT (10)
    HeaderSize,     \* sizeof(PacketHeader) (4)
    PacketSizes     \* the values of PacketHeader::size (a uint16) that peers send, 0 among them

ASSUME BufferSizeIsNumber == BufferSize \in Nat \ {0}
\* Clean needs three: one to fill, one to keep free, one that does not overlap.
ASSUME BufferCountAtLeastThree == BufferCount \in Nat /\ BufferCount >= 3
ASSUME HeaderFits == HeaderSize \in 1..BufferSize
\* A uint16 is below BUFFER_SIZE; that it counts the header is not checked.
ASSUME PacketSizesFit == PacketSizes \subseteq 0..(BufferSize - 1)

Capacity == BufferSize * BufferCount
Nothing == -1
NotRead == -1

VARIABLES
    readPos,        \* _readPos
    writePos,       \* _writePos
    cells,          \* cells[i]: which byte of the stream _buffer[i] holds
    processLen,     \* the local of OnRecv
    size,           \* header.size at &buffer[processLen], or NotRead
    at              \* "posted": WSARecv is pending; "parse": in OnRecv's loop; "closed"

vars == <<readPos, writePos, cells, processLen, size, at>>

DataSize == writePos - readPos
FreeSize == Capacity - writePos

\* RegisterRecv offers FreeSize bytes at WritePos.
Init == /\ readPos = 0 /\ writePos = 0
        /\ cells = [i \in 0..Capacity - 1 |-> Nothing]
        /\ processLen = 0
        /\ size = NotRead
        /\ at = "posted"

\* What RegisterRecv offers to WSARecv.
Offered == FreeSize

\* ProcessRecv: numOfBytes have arrived; OnWrite; OnRecv is called.
Receive(numOfBytes) ==
    /\ at = "posted" /\ numOfBytes <= Offered
    /\ cells' = [i \in DOMAIN cells |-> IF i \in writePos..writePos + numOfBytes - 1
                                        THEN i - readPos ELSE cells[i]]
    /\ writePos' = writePos + numOfBytes
    /\ at' = "parse"
    /\ UNCHANGED <<readPos, processLen, size>>

\* ProcessRecv: numOfBytes is 0, the end of the stream; or so it seems when
\* nothing was offered.
ReceiveNothing ==
    /\ at = "posted"
    /\ at' = "closed"
    /\ UNCHANGED <<readPos, writePos, cells, processLen, size>>

\* The loop's first test: is there a header?
Unread == DataSize - processLen
HasHeader == Unread >= HeaderSize

\* The header is read; it says the same each time it is read.
ReadHeader ==
    /\ at = "parse" /\ HasHeader /\ size = NotRead
    /\ size' \in PacketSizes
    /\ UNCHANGED <<readPos, writePos, cells, processLen, at>>

\* The loop's second test; the fault waits for one byte more than the packet has.
CompleteAndMore == Unread > size
Complete == Unread >= size

\* A fault in the loop: processLen is not moved on.
OnRecvPacketAgain ==
    /\ at = "parse" /\ size # NotRead /\ Complete
    /\ size' = NotRead
    /\ UNCHANGED <<readPos, writePos, cells, processLen, at>>

\* OnRecvPacket is given a packet; the bytes after it are now the first.  If
\* the size is smaller than a header, the next header is read from inside this
\* one; if it is 0, the next is this one again, and the loop goes round for ever.
OnRecvPacket ==
    /\ at = "parse" /\ size # NotRead /\ Complete
    /\ processLen' = processLen + size
    /\ cells' = [i \in DOMAIN cells |-> IF cells[i] < size THEN Nothing ELSE cells[i] - size]
    /\ size' = IF size = 0 THEN 0 ELSE NotRead
    /\ UNCHANGED <<readPos, writePos, at>>

\* Clean moves the data when less than one buffer is free; two faults: it waits
\* until nothing is, or always moves.
MoveWhenFull(written) == written = Capacity
MoveAlways(written) == TRUE
MustMove(written) == Capacity - written < BufferSize

\* Where the data begins after OnRead; the fault is to move it before.
DataStartBefore == readPos
DataStart == readPos + processLen

\* The break of the loop, OnRead, Clean and RegisterRecv.
EndRecv ==
    /\ at = "parse"
    /\ ~HasHeader \/ (size # NotRead /\ ~Complete)
    /\ processLen' = 0
    /\ at' = "posted"
    /\ \/ /\ Unread = 0
          /\ readPos' = 0 /\ writePos' = 0
          /\ cells' = [i \in DOMAIN cells |-> Nothing]
       \/ /\ Unread > 0 /\ MustMove(writePos)
          /\ readPos' = 0 /\ writePos' = Unread
          /\ cells' = [i \in DOMAIN cells |-> IF i < Unread THEN cells[DataStart + i] ELSE Nothing]
       \/ /\ Unread > 0 /\ ~MustMove(writePos)
          /\ readPos' = DataStart
          /\ UNCHANGED <<writePos, cells>>
    /\ UNCHANGED size

Next == \/ \E n \in 1..Capacity : Receive(n)
        \/ ReceiveNothing
        \/ ReadHeader \/ OnRecvPacket \/ EndRecv

Spec == Init /\ [][Next]_vars

\* The thread that is in OnRecv keeps running; the peer may be silent.
Fairness == WF_vars(ReadHeader \/ OnRecvPacket \/ EndRecv)

LiveSpec == Spec /\ Fairness

-----------------------------------------------------------------------------

\* The variables have their types.
TypeOK ==
    /\ readPos \in 0..Capacity
    /\ writePos \in 0..Capacity
    /\ cells \in [0..Capacity - 1 -> -1..Capacity]
    /\ processLen \in Nat
    /\ size \in PacketSizes \cup {NotRead}
    /\ at \in {"posted", "parse", "closed"}

\* The cursors and the loop's position are in order, in the buffer.
InBounds == readPos + processLen <= writePos

\* Whenever a receive is posted there is room for a whole buffer: the Session
\* never offers so little that a complete stream looks like a closed one.
RoomForABuffer == at = "posted" => FreeSize >= BufferSize

\* When a receive is posted, less than a packet is left: no complete packet
\* waits for bytes that may never come.
NoPacketWaits == at = "posted" => \/ DataSize < HeaderSize
                                  \/ size # NotRead /\ DataSize < size

\* However the stream is cut, and whatever sizes the headers give, OnRecv comes
\* to an end and the next receive is posted, with one exception: a header of
\* size 0 is never passed, and what the peer sent behind it stays in the buffer.
OnlyZeroHolds == at = "parse" ~> at = "posted" \/ size = 0

\* The bytes not handed over yet lie in the buffer in the order of the stream,
\* from the loop's position on: moving them to the front loses none.
InStreamOrder == \A i \in 0..Unread - 1 : cells[readPos + processLen + i] = i

\* Clean's memcpy is given areas that do not overlap.
NoOverlap == [][writePos' < writePos => writePos' <= readPos + processLen]_vars
=============================================================================
