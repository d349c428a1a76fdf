\* A disk of two tracks with two sectors; an image of four sectors; a page of four bytes and a
\* track of two sectors for the XT, whose clock is exact up to 40 CPU clocks; a stack of two
\* GOSUB records and two visits or calls for the BASIC tools.
SPECIFICATION MCSpec
CONSTANTS
  Wired <- MCWired
  CommandBytes <- MCCommandBytes
  DataBytes <- MCDataBytes
  Tracks = 2
  Sectors = 2
  Values = {1, 2}
  MaxActs = 2
  TraceLimit = 3
  MaxGuest = 2
  MaxUser = 2
  MaxReferences = 4
  MaxClock = 40
  Divisor = 5
  MaxMoves = 3
  Top = 11
  Kind <- MCKind
  Programs <- MCPrograms
  Stores <- MCStores
  Numbers = {9, 10}
  Pointers = {3, 6}
  Callers <- MCCallers
  Depth = 2
  MaxCount = 2
INVARIANTS
  SnapshotRestorable
PROPERTIES
  RequestsAreEdges
  ServiceIsAStack
  DiskIsSound
  InspectorIsTrue
  TransfersHold
