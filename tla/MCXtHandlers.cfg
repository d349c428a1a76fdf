\* Well-formed handlers for the timer, which port writes and device time both move, and one
\* adapter, nested three deep: two requests in service and a software entry or an ended handler.
\* Data: 08 (ICW2, or the mask that admits both), 09 (ICW4, or a mask that hides the timer)
\* and 0C (hides the adapter).
SPECIFICATION HandlersSpec
CONSTANTS
  Wired = {0, 2}
  BoardLines = {0}
  CommandBytes = {{0, 1, 4}, {5}}
  DataBytes = {{3}, {0, 3}, {2, 3}}
  Source = {}
  MaxFrames = 3
INVARIANTS
  HandlersNest
