\* Every number of every type, doubles that just fit into a Fmt and that do
\* not, entries that just fit into the FixedBuffer and that do not.
\* The process stops at a failed assertion.
SPECIFICATION Spec
CHECK_DEADLOCK FALSE
CONSTANTS
  Capacity = 10
  FmtSize = 7
  Overhead = 2
  PrefixSize = 1
  CharValues = 4
  ShortValues = 4
  IntValues = 12
  LongValues = 24
  Bytes = {0, 1}
  DoubleSizes = {6, 7}
  MaxSliceSize = 2
  MaxPieces = 2
INVARIANTS SliceOrder EntryText
