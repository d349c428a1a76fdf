\* One line that a port write and device time both move. Commands: 13 (ICW1) and 20 (EOI).
\* Data: 08 (ICW2, or a mask that admits IR0) and 09 (ICW4, or one that hides it).
SPECIFICATION Spec
CONSTANTS
  Wired = {0}
  BoardLines = {0}
  CommandBytes = {{0, 1, 4}, {5}}
  DataBytes = {{3}, {0, 3}}
  Source = {"channel"}
INVARIANTS
  BoardRestorable
  LatchesAreDue
PROPERTIES
  IntrWaitsItsTurn
  EntriesAnswerOnce
  EventsDelivered
