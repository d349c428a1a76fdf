------------------------------ MODULE MCDevices ------------------------------
(***************************************************************************)
(* Devices for TLC: a behaviour drives the interrupt controller alone,     *)
(* under every order of line changes, commands, data writes, acknowledges  *)
(* and resets on three of its eight lines; or the Apple II's disk with its *)
(* observers; or the inspector of its catalogue; or its BASIC tools; or    *)
(* the XT's refresh and diskette transfers; or its EGA.                    *)
(***************************************************************************)
EXTENDS I8259a, Sequences

CONSTANTS Tracks, Sectors, Values, MaxActs, TraceLimit, MaxGuest, MaxUser, MaxReferences, MaxClock, Divisor, MaxMoves,
          Top, Kind, Programs, Stores, Numbers, Pointers, Callers, Depth, MaxCount
VARIABLES part,
          drive, medium, stream, recording, seen, script, head, shown, touches, looks,     \* DiskII
          disk, panel, trace, calls, returned, guest, user,                                \* DiskInspector
          board, ram, job, outcome, moves,                                                 \* XtDma
          tool, machine, program, points, stop, counts, stack, profiles, active,           \* Applesoft
          events, executing,
          ega, elapsed, sampled, acts                                                      \* IbmEga

ASSUME ClockAssumption == MaxClock \in Nat /\ Divisor \in Nat \ {0}

Diskette == INSTANCE DiskII WITH moves <- touches, MaxMoves <- 2
diskette == <<drive, medium, stream, recording, seen, script, head, shown, touches, looks>>
Inspector == INSTANCE DiskInspector
inspector == <<disk, panel, trace, calls, returned, guest, user>>
Board == INSTANCE XtDma
transfers == <<board, ram, job, outcome, moves>>

\* Line 10 with two statements, alone or behind an empty line 9 that moves it by three bytes.
\* Byte 11 is GOSUB, byte 1 a colon; the links and line numbers are never scanned.
MCKind == [byte \in 0..11 |-> CASE byte = 0 -> "end" [] byte = 1 -> "colon" [] byte = 11 -> "gosub" [] OTHER -> "text"]
MCPrograms == {[start |-> 1, cells |-> <<8, 10, 11, 2, 1, 2, 0, 0>>],
               [start |-> 1, cells |-> <<4, 9, 0, 11, 10, 11, 2, 1, 2, 0, 0>>]}
MCStores == {<<6, 3>>}
MCCallers == {<<10, 3>>}
Basic == INSTANCE Applesoft
basic == <<tool, machine, program, points, stop, counts, stack, profiles, active, events, executing>>

\* Odd/even text; linear memory; a mode that draws through a mask, alone or with the attribute
\* flip-flop half way and the raster in the last of its 64 fields.
Fresh == [misc |-> {0, 1}, seqIndex |-> 0, gcIndex |-> 5, crtIndex |-> 0, attrIndex |-> {}, attrData |-> FALSE,
          phase |-> 0, field |-> 0, seq |-> [i \in 0..4 |-> {}], gc |-> [i \in 0..8 |-> {}], crt |-> [i \in 0..24 |-> 0],
          attr |-> [i \in 0..19 |-> {}], latch |-> [p \in 0..3 |-> {}],
          planes |-> [p \in 0..3 |-> [c \in 0..3 |-> IF c = 0 THEN {p} ELSE {}]]]
Text == [Fresh EXCEPT !.seq = [@ EXCEPT ![2] = {0, 1}], !.gc = [@ EXCEPT ![5] = {4}, ![8] = 0..7]]
Linear == [Fresh EXCEPT !.seq = [@ EXCEPT ![2] = {0}, ![4] = {2}], !.gc = [@ EXCEPT ![6] = {2}, ![8] = 0..7]]
Graphics == [Fresh EXCEPT !.seq = [@ EXCEPT ![1] = {0}, ![2] = 0..3, ![4] = {2}],
                          !.gc = [@ EXCEPT ![5] = {1}, ![6] = {0, 2}, ![7] = 0..3, ![8] = {0, 7}],
                          !.attr = [@ EXCEPT ![16] = {0}, ![18] = 0..3]]
MCSetups == {Text, Linear, Graphics,
             [Graphics EXCEPT !.attrData = TRUE, !.attrIndex = {0, 1, 4}, !.phase = 20, !.field = 63]}
MCPortWrites == {<<<<"3c", "e">>, {0, 2}>>, <<<<"3c", "f">>, {}>>, <<<<"3c", "f">>, {1}>>, <<<<"3c", "f">>, {0}>>,
                 <<<<"3d", "5">>, {0}>>, <<<<"3d", "4">>, 0..4>>, <<<<"3c", "2">>, {1, 2}>>, <<<<"3c", "0">>, {1, 7}>>,
                 <<<<"3c", "1">>, {0}>>, <<<<"3c", "4">>, {0}>>, <<<<"3c", "5">>, {3}>>}
Display == INSTANCE IbmEga WITH PlaneSize <- 4, MaxActs <- 2, Ticks <- {1, 70}, Bytes <- {{0, 7}, {1, 2}},
    Setups <- MCSetups, PortWrites <- MCPortWrites
display == <<ega, elapsed, sampled, acts>>

\* IR0, IR1 and IR7: the extremes of the priority order and a neighbour.
MCWired == {0, 1, 7}

\* 13 and 17 (ICW1), 11 (cascade, rejected), 20 (EOI), 61 (EOI of level 1),
\* 68 (rejected), 0A and 0B (select IRR, ISR), 08 and 40 (no change).
MCCommandBytes ==
    {{0, 1, 4}, {0, 1, 2, 4}, {0, 4}, {5}, {0, 5, 6}, {3, 5, 6},
     {1, 3}, {0, 1, 3}, {3}, {6}}

\* 09 (ICW4; as a mask it hides IR0), 0F (a base with low bits; as a mask it
\* hides IR0 and IR1), 00, FF.
MCDataBytes == {{0, 3}, {0, 1, 2, 3}, {}, Level}

\* The devices a behaviour does not drive are absent from it.
NoDiskette == drive = 0 /\ medium = 0 /\ stream = 0 /\ recording = 0 /\ seen = 0 /\ script = 0 /\ head = 0 /\ shown = 0
              /\ touches = 0 /\ looks = 0
NoInspector == disk = 0 /\ panel = 0 /\ trace = 0 /\ calls = 0 /\ returned = 0 /\ guest = 0 /\ user = 0
NoBoard == board = 0 /\ ram = 0 /\ job = 0 /\ outcome = 0 /\ moves = 0
NoBasic == tool = 0 /\ machine = 0 /\ program = 0 /\ points = 0 /\ stop = 0 /\ counts = 0 /\ stack = 0
           /\ profiles = 0 /\ active = 0 /\ events = 0 /\ executing = 0
NoDisplay == ega = 0 /\ elapsed = 0 /\ sampled = 0 /\ acts = 0

MCInit == /\ PicInit
          /\ \/ part = "controller" /\ NoDiskette /\ NoInspector /\ NoBoard /\ NoBasic /\ NoDisplay
             \/ part = "diskette" /\ Diskette!Init /\ NoInspector /\ NoBoard /\ NoBasic /\ NoDisplay
             \/ part = "inspector" /\ NoDiskette /\ Inspector!Init /\ NoBoard /\ NoBasic /\ NoDisplay
             \/ part = "transfers" /\ NoDiskette /\ NoInspector /\ Board!Init /\ NoBasic /\ NoDisplay
             \/ part = "basic" /\ NoDiskette /\ NoInspector /\ NoBoard /\ Basic!Init /\ NoDisplay
             \/ part = "display" /\ NoDiskette /\ NoInspector /\ NoBoard /\ NoBasic /\ Display!Init
MCNext == \/ part = "controller" /\ PicNext /\ UNCHANGED <<part, diskette, inspector, transfers, basic, display>>
          \/ part = "diskette" /\ Diskette!Next /\ UNCHANGED <<part, pic, inspector, transfers, basic, display>>
          \/ part = "inspector" /\ Inspector!Next /\ UNCHANGED <<part, pic, diskette, transfers, basic, display>>
          \/ part = "transfers" /\ Board!Next /\ UNCHANGED <<part, pic, diskette, inspector, basic, display>>
          \/ part = "basic" /\ Basic!Next /\ UNCHANGED <<part, pic, diskette, inspector, transfers, display>>
          \/ part = "display" /\ Display!Next /\ UNCHANGED <<part, pic, diskette, inspector, transfers, basic>>
MCSpec == MCInit /\ [][MCNext]_<<part, pic, diskette, inspector, transfers, basic, display>>

-----------------------------------------------------------------------------
\* apple2-disk-ii.ts, dos33-stream.ts, apple2-disk-track.ts: the observers say what is on the
\* disk, the controller can be restored, and the disk changes by whole fields only.
DiskIsSound == /\ [](part = "diskette" => Diskette!DiskAgrees)
               /\ [][part = "diskette" => Diskette!WritesWholeField]_diskette
\* dos33-reads.ts, apple2-disk-inspector.ts: the traces and the lists of the inspector are true.
\* apple2-applesoft.ts and its tools: the listing is what RAM holds, and breakpoints, counts and
\* calls belong to statements it has.
InspectorIsTrue == /\ [](part = "inspector" => Inspector!LatestIsFollowed)
                   /\ [](part = "basic" => /\ Basic!ListingIsCurrent /\ Basic!MarksAreInListing
                                           /\ Basic!StopsAtBreakpoints /\ Basic!CallsBalance
                                           /\ Basic!EventsHaveTheirStatement)
                   /\ [][part = "inspector" => Inspector!ReadIsReturned /\ Inspector!UpdateIsCurrent]_inspector
\* io.ts:232: refresh and diskette transfers are exact, and so is the time they take.
\* ibm-ega.ts: what the CPU stores in video memory is what it reads and what shows, under a
\* raster that keeps the time, and the adapter can be restored.
TransfersHold == /\ [](part = "transfers" => Board!Restorable)
                 /\ [](part = "display" => Display!EgaRestorable /\ Display!RasterIsTime)
                 /\ [][part = "display" => Display!StoresShow]_display
                 /\ [][part = "transfers" => Board!TransferIsExact /\ Board!GrantIsExact]_transfers
=============================================================================
