CONSTANTS
  Byte = 4
  BlockSize = 5
  Blocks = 5
  Streams <- MCStreams
  Fields <- MCFields
  BUFFER_SIZE_IN_ELEMENTS = 3
SPECIFICATION Spec
INVARIANT BufferIsInvisible
PROPERTY GetReturns
