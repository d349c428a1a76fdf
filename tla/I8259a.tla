------------------------------- MODULE I8259a -------------------------------
(***************************************************************************)
(* The XT's interrupt controller: eight edge-triggered requests, a mask,   *)
(* the handlers in service, and the command words that program it.         *)
(*                                                                         *)
(* A byte on the bus is the set of its bit positions, so a register of the *)
(* device and a set of request lines are the same thing, as they are in    *)
(* the code.  The operators below take the controller as a record and      *)
(* return it changed; the actions apply them to the variable pic, and the  *)
(* board (XtInterrupts) applies them to its own copy.                      *)
(***************************************************************************)
EXTENDS Integers, FiniteSets

Level == 0..7                  \* a request line, and a bit of a byte
Byte == SUBSET Level

CONSTANTS
    Wired,                     \* the lines something on the board drives
    CommandBytes,              \* bytes software writes to port 20h
    DataBytes                  \* bytes software writes to port 21h

ASSUME WiredAssumption == Wired \subseteq Level
ASSUME BytesAssumption == CommandBytes \subseteq Byte /\ DataBytes \subseteq Byte

VARIABLE pic

\* PHASE: how far the initialization sequence has come.
AwaitingIcw1 == 0
AwaitingIcw2 == 1
AwaitingIcw4 == 2
Initialized == 3

Controller ==
    [irr : Byte, isr : Byte, imr : Byte, base : Byte, levels : Byte,
     phase : AwaitingIcw1..Initialized, readIsr : BOOLEAN]

Ready(p) == p.phase = Initialized

-----------------------------------------------------------------------------
(* Priority resolution *)

\* The highest-priority member, as a set: a one-hot byte, or none.
LowestBit(mask) == {l \in mask : \A m \in mask : l <= m}

\* Mutant of Eligible: a handler in service does not hold back its own level.
ReenteringEligible(p) ==
    {l \in p.irr \ p.imr : \A first \in LowestBit(p.isr) : l <= first}

\* The unmasked requests above every handler in service.
Eligible(p) ==
    {l \in p.irr \ p.imr : \A first \in LowestBit(p.isr) : l < first}

Pending(p) == IF Ready(p) THEN LowestBit(Eligible(p)) ELSE {}

Irq(p) == Pending(p) # {}

\* The vector's upper five bits and its level; level 7 answers a spurious read.
Vector(p) ==
    [base |-> p.base,
     level |-> IF Irq(p) THEN CHOOSE l \in Pending(p) : TRUE ELSE 7]

-----------------------------------------------------------------------------
(* State changes *)

\* Mutant of Reset: the requests survive a reinitialization.
ResetKeepingRequests(p) ==
    [irr |-> p.irr, isr |-> {}, imr |-> Level, base |-> {}, levels |-> p.levels,
     phase |-> AwaitingIcw1, readIsr |-> FALSE]

Reset(p) ==
    [irr |-> {}, isr |-> {}, imr |-> Level, base |-> {}, levels |-> p.levels,
     phase |-> AwaitingIcw1, readIsr |-> FALSE]

Initialize ==
    [irr |-> {}, isr |-> {}, imr |-> Level, base |-> {}, levels |-> {},
     phase |-> AwaitingIcw1, readIsr |-> FALSE]

Acknowledged(p) ==
    [p EXCEPT !.irr = @ \ Pending(p), !.isr = @ \cup Pending(p)]

Rising(p, line, high) == high /\ line \notin p.levels

\* Mutant of LineSet: a falling line withdraws its request.
LineSetWithdrawing(p, line, high) ==
    [p EXCEPT !.irr = IF ~high THEN @ \ {line}
                      ELSE IF Ready(p) /\ Rising(p, line, high) THEN @ \cup {line} ELSE @,
              !.levels = IF high THEN @ \cup {line} ELSE @ \ {line}]

LineSet(p, line, high) ==
    [p EXCEPT !.irr = IF Ready(p) /\ Rising(p, line, high) THEN @ \cup {line} ELSE @,
              !.levels = IF high THEN @ \cup {line} ELSE @ \ {line}]

\* Port 20h: ICW1 has bit 4; of the operation commands only the status
\* selections, the ordinary EOIs and the two no-operations are supported.
IsIcw1(byte) == 4 \in byte
StatusCommand(byte) == byte \ {0, 1} = {3}
Eoi(byte) == byte \ {0, 1, 2} \in {{5}, {5, 6}}
NoOperation(byte) == byte \ {0, 1, 2} \in {{}, {6}}

CommandSupported(p, byte) ==
    IF IsIcw1(byte)
    THEN byte \cap {0, 1, 3, 4} = {0, 1, 4}
    ELSE Ready(p) /\ (StatusCommand(byte) \/ Eoi(byte) \/ NoOperation(byte))

NamedLevel(byte) == {l \in Level : /\ (0 \in byte) = (l % 2 = 1)
                                   /\ (1 \in byte) = ((l \div 2) % 2 = 1)
                                   /\ (2 \in byte) = (l \div 4 = 1)}

\* Mutant of Ended: an EOI that names no level ends every handler.
EndedAll(p, byte) == IF 6 \in byte THEN NamedLevel(byte) ELSE p.isr

\* The level an EOI ends: the one it names (bit 6), or the highest in service.
Ended(p, byte) == IF 6 \in byte THEN NamedLevel(byte) ELSE LowestBit(p.isr)

\* An unsupported command is rejected before anything changes.
CommandWritten(p, byte) ==
    IF ~CommandSupported(p, byte) THEN p
    ELSE IF IsIcw1(byte)
         THEN [Reset(p) EXCEPT !.imr = {}, !.phase = AwaitingIcw2]
    ELSE [p EXCEPT !.readIsr = IF StatusCommand(byte) /\ 1 \in byte
                               THEN 0 \in byte ELSE @,
                   !.isr = IF Eoi(byte) THEN @ \ Ended(p, byte) ELSE @]

\* Port 21h: what the byte means depends on how far initialization has come.
SupportedIcw4(byte) == byte \ {2, 3} = {0}

DataSupported(p, byte) ==
    \/ p.phase \in {AwaitingIcw2, Initialized}
    \/ p.phase = AwaitingIcw4 /\ SupportedIcw4(byte)

DataWritten(p, byte) ==
    IF ~DataSupported(p, byte) THEN p
    ELSE CASE p.phase = AwaitingIcw2 ->
                [p EXCEPT !.base = byte \ {0, 1, 2}, !.phase = AwaitingIcw4]
           [] p.phase = AwaitingIcw4 -> [p EXCEPT !.phase = Initialized]
           [] p.phase = Initialized -> [p EXCEPT !.imr = byte]

\* The registers software reads back.
Status(p) == IF p.readIsr THEN p.isr ELSE p.irr

-----------------------------------------------------------------------------
(* The controller on its own, with every caller its interface allows *)

PicInit == pic = Initialize

SetLine(line, high) == pic' = LineSet(pic, line, high)

Acknowledge == pic' = Acknowledged(pic)

WriteCommand(byte) == pic' = CommandWritten(pic, byte)

WriteData(byte) == pic' = DataWritten(pic, byte)

ResetController == pic' = Reset(pic)

PicNext ==
    \/ \E line \in Wired, high \in BOOLEAN : SetLine(line, high)
    \/ Acknowledge
    \/ \E byte \in CommandBytes : WriteCommand(byte)
    \/ \E byte \in DataBytes : WriteData(byte)
    \/ ResetController

PicSpec == PicInit /\ [][PicNext]_pic

-----------------------------------------------------------------------------
(* Properties *)

\* Every register keeps its width and PHASE stays in its range.
PicTypeOK == pic \in Controller

\* validState, the check a restored snapshot must pass, holds of every state
\* the controller reaches: the base is aligned, and nothing is requested or in
\* service before the initialization sequence is complete.
ValidState(p) ==
    /\ p.base \cap {0, 1, 2} = {}
    /\ Ready(p) \/ (p.irr = {} /\ p.isr = {})

SnapshotRestorable == ValidState(pic)

\* A request leaves IRR only into service or by a reinitialization: neither a
\* mask, nor an EOI, nor the line falling, nor another request discards it.
RequestsKept ==
    [][\A l \in pic.irr \ pic'.irr : l \in pic'.isr \/ ~Ready(pic')]_pic

\* A request enters IRR only on the rising edge of its own line, so a line that
\* is held high, through service, EOI, masking or reinitialization, asks once.
RequestsNeedAnEdge ==
    [][\A l \in pic'.irr \ pic.irr : l \notin pic.levels /\ l \in pic'.levels]_pic

\* IRR is a latch of edges: a request is neither discarded nor invented.
RequestsAreEdges ==
    [][/\ \A l \in pic.irr \ pic'.irr : l \in pic'.isr \/ ~Ready(pic')
       /\ \A l \in pic'.irr \ pic.irr : l \notin pic.levels /\ l \in pic'.levels]_pic

-----------------------------------------------------------------------------
(* What the registers stand for *)

\* The place of a level among those in service: the most urgent is first.
Rank(l, S) == Cardinality({m \in S : m <= l})

\* A set of levels in the order of their priority.
Ranked(S) == [k \in 1..Cardinality(S) |-> CHOOSE l \in S : Rank(l, S) = k]

\* The handlers in service as a stack, the running one first.
ServiceStack == Ranked(pic.isr)

Nested == INSTANCE NestedService WITH
    Line <- Level, waiting <- pic.irr, stack <- ServiceStack

\* The register file implements the stack of nested handlers: an acknowledge
\* pushes a more urgent level, a non-specific EOI (writeCommand 20h) pops the
\* running handler, a specific one removes the level it names. The ISR byte
\* needs no record of the order in which handlers were entered.
ServiceIsAStack == Nested!Spec
=============================================================================
