\* Two kinds of bytes, every size a few bytes.
SPECIFICATION BufferSpec
CONSTANTS
  Byte = {1, 2}
  kCheapPrepend = 1
  kInitialSize = 2
  kExtrabuf = 2
  MaxChunk = 3
  MaxReadable = 4
INVARIANTS BufferTypeOK
PROPERTIES ImplementsByteQueue GrowsOnlyWhenFull
