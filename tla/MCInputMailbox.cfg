CONSTANTS
  RingSize = 4
  PacketLimit = 3
  ChunkLimit = 2
  OldByte = {old}
  NewByte = {a, b}
SPECIFICATION Spec
INVARIANTS NoStaleInput
PROPERTIES UnreadKept FifoSpec
