SPECIFICATION LiveSpec
CONSTANTS
    BufferSize = 5
    BufferCount = 3
    HeaderSize = 2
    PacketSizes = {0, 1, 2, 3, 4}
CHECK_DEADLOCK FALSE
INVARIANTS
    RoomForABuffer
    NoPacketWaits
    InStreamOrder
PROPERTIES
    NoOverlap
    OnlyZeroHolds
