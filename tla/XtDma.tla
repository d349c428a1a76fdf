-------------------------------- MODULE XtDma --------------------------------
(***************************************************************************)
(* The XT board between two CPU boundaries: the clock that drives the      *)
(* 8253's refresh counter and the diskette adapter, the refresh latch, the *)
(* 8237A's grants and the sector transfers they carry (io.ts, clock.ts,    *)
(* diskette-image.ts, and the timed step of interrupts.ts; the registers   *)
(* of the chips are those of their chapters).                              *)
(* One unit of time is a CPU clock (three oscillator ticks). A page of     *)
(* memory has PageSize bytes, a track two sectors of SectorSize bytes.     *)
(***************************************************************************)
EXTENDS Integers, Sequences

CONSTANTS
    MaxClock,      \* the largest exact clock
    Divisor,       \* of the refresh counter
    MaxMoves       \* port writes of the program and acts of the host

VARIABLES
    board,         \* the devices and their latches
    ram,
    job,           \* history: the command under way and the bytes granted to it
    outcome,       \* of the last step
    moves

vars == <<board, ram, job, outcome, moves>>

PageSize == 4
SectorSize == 2
SectorsPerTrack == 2
PulseClocks == 4
RefreshClocks == 4
PeripheralClocks == 5
ByteDelay == 1        \* pulses until the drive offers the next byte

Disk(id) == [offset \in 0..(SectorsPerTrack * SectorSize - 1) |-> 10 * id + offset]
NoDisk == << >>
Image(b) == b.image.bytes

----------------------------------------------------------------------------
(* The diskette adapter.                                                   *)

Idle == [phase |-> "idle", command |-> "none", sector |-> 0, last |-> 0, offset |-> 0, delay |-> 0, st1 |-> 0,
         interrupt |-> FALSE, resetting |-> 0, on |-> TRUE, gate |-> TRUE, motor |-> TRUE, media |-> TRUE,
         writable |-> TRUE]
Writing(f) == f.command = "write"
Selected(f) == f.motor
Dreq(f) == f.phase = "transfer" /\ f.delay = 0 /\ f.gate
Irq(f) == f.interrupt /\ f.on /\ f.gate
Ready(f) == f.on /\ f.resetting = 0
MediaOffset(f) == (f.sector - 1) * SectorSize + f.offset

ClearController(f) == [f EXCEPT !.phase = "idle", !.command = "none", !.sector = 0, !.last = 0, !.offset = 0, !.delay = 0,
                                !.st1 = 0, !.interrupt = FALSE, !.resetting = 0]
FinishTransfer(f, st1) == [f EXCEPT !.phase = "result", !.st1 = st1, !.offset = 0, !.delay = 0, !.interrupt = TRUE]
FindSector(f) ==
    IF ~(f.phase = "search" /\ f.media /\ Selected(f)) THEN f
    ELSE IF Writing(f) /\ ~f.writable THEN FinishTransfer(f, 2)
    ELSE IF f.sector \notin 1..SectorsPerTrack THEN FinishTransfer(f, 4)
    ELSE [f EXCEPT !.phase = "transfer", !.delay = ByteDelay, !.offset = 0]
SampleDrive(f) ==
    FindSector(IF f.phase # "transfer" THEN f
               ELSE IF ~(Selected(f) /\ f.media) THEN FinishTransfer(f, 4)
               ELSE IF Writing(f) /\ ~f.writable THEN FinishTransfer(f, 2) ELSE f)
MountMedia(f, present, writable) == SampleDrive([f EXCEPT !.media = present, !.writable = present /\ writable])
WriteControl(f, on, gate, motor) ==
    LET set == [f EXCEPT !.on = on, !.gate = gate, !.motor = motor]
        cleared == IF on THEN set ELSE ClearController(set)
    IN  SampleDrive(IF on /\ ~f.on THEN [cleared EXCEPT !.resetting = 1] ELSE cleared)
AdvanceAdapter(f) ==
    LET waited == [f EXCEPT !.delay = IF @ = 0 THEN 0 ELSE @ - 1]
    IN  IF f.resetting = 0 THEN waited ELSE [waited EXCEPT !.resetting = 0, !.interrupt = TRUE]

\* The byte was granted: the next one of the sector, of the next sector, or the result.
AcknowledgeByte(f, terminal) ==
    LET sectorDone == terminal \/ f.offset = SectorSize - 1
        atEnd == f.sector = f.last
        next == [f EXCEPT !.sector = IF atEnd THEN 1 ELSE @ + 1]
    IN  IF ~Dreq(f) THEN f
        ELSE IF ~sectorDone THEN [f EXCEPT !.offset = @ + 1, !.delay = ByteDelay]
        ELSE IF terminal \/ atEnd THEN FinishTransfer(next, IF terminal THEN 0 ELSE 128)
        ELSE FindSector([next EXCEPT !.phase = "search"])

----------------------------------------------------------------------------
(* The 8237A: channel 0 refreshes, channel 2 serves the adapter.           *)

Channel(mode, address, count, reload) ==
    [mode |-> mode, masked |-> FALSE, reload |-> reload, address |-> address, count |-> count, base |-> address, reloadCount |-> count]
Pending(d) == {c \in d.levels : ~d.channels[c].masked /\ \A other \in d.levels : d.channels[other].masked \/ other >= c}
CompleteTransfer(d, c) ==
    LET channel == d.channels[c]
        terminal == channel.count = 0
        back == terminal /\ channel.reload
    IN  [d EXCEPT !.channels[c].address = IF back THEN channel.base ELSE (@ + 1) % PageSize,
                  !.channels[c].count = IF back THEN channel.reloadCount ELSE IF terminal THEN PageSize - 1 ELSE @ - 1,
                  !.channels[c].masked = IF terminal /\ ~channel.reload THEN TRUE ELSE @,
                  !.terminal = IF terminal THEN @ \cup {c} ELSE @]

----------------------------------------------------------------------------
(* The board.                                                              *)

\* OUT1's rise asks for a refresh; an acknowledge holds the latch clear meanwhile.
UpdateWiring(b, acknowledged) ==
    LET asked == IF acknowledged THEN FALSE ELSE (b.out /\ ~b.output) \/ b.pending
    IN  [b EXCEPT !.pending = asked, !.output = b.out, !.line = Irq(b.fdc),
           !.dma.levels = (IF asked THEN {0} ELSE {}) \cup (IF b.image.id # 0 /\ Dreq(b.fdc) THEN {2} ELSE {})]

\* Mode 2: low for the last count. A counter that is reset does not count.
Pulse(b, acknowledged) ==
    UpdateWiring([b EXCEPT !.fdc = AdvanceAdapter(@), !.out = b.count \notin {0, 2},
                           !.count = IF @ = 0 THEN 0 ELSE IF @ = 1 THEN Divisor ELSE @ - 1], acknowledged)
\* Every pulse within the interval is visited, and its last part.
Advance(b, clocks, acknowledged) ==
    LET pulses == ((b.clock % PulseClocks) + clocks) \div PulseClocks
        after[n \in 0..pulses] == IF n = 0 THEN b ELSE Pulse(after[n - 1], acknowledged)
    IN  IF clocks = 0 THEN b ELSE [UpdateWiring(after[pulses], acknowledged) EXCEPT !.clock = b.clock + clocks]

\* An early terminal count pads the sector with zeros.
Written(bytes, offset, value, terminal) ==
    [o \in DOMAIN bytes |-> IF o = offset THEN value
                            ELSE IF terminal /\ o > offset /\ o \div SectorSize = offset \div SectorSize THEN 0 ELSE bytes[o]]
Address(b) == b.page * PageSize + b.dma.channels[2].address
Refused(b) ==
    LET refresh == Pending(b.dma) = {0}
        mode == b.dma.channels[IF refresh THEN 0 ELSE 2].mode
    IN  /\ Pending(b.dma) # {}
        /\ \/ b.clock + (IF refresh THEN RefreshClocks ELSE PeripheralClocks) > MaxClock
           \/ refresh /\ mode # "read"
           \/ ~refresh /\ (b.image.id = 0 \/ mode # IF Writing(b.fdc) THEN "read" ELSE "write")
Terminal(b) == b.dma.channels[2].count = 0
GrantRefresh(b) ==
    Advance(UpdateWiring([b EXCEPT !.dma = CompleteTransfer(@, 0)], TRUE), RefreshClocks, TRUE)
GrantByte(b, memory) ==
    LET offset == MediaOffset(b.fdc)
        moved == IF Writing(b.fdc) THEN [b EXCEPT !.image.bytes = Written(@, offset, memory[Address(b)], Terminal(b))] ELSE b
    IN  Advance(UpdateWiring([moved EXCEPT !.fdc = AcknowledgeByte(@, Terminal(b)), !.dma = CompleteTransfer(@, 2)], FALSE),
                PeripheralClocks, FALSE)

\* A plausible bug: the other disk is put in the drive while a sector is transferred.
SetDisketteExchanging(b, id, writable) ==
    UpdateWiring([b EXCEPT !.image = [id |-> id, bytes |-> IF id = 0 THEN NoDisk ELSE Disk(id)],
                           !.fdc = MountMedia(@, id # 0, writable)], FALSE)
SetDiskette(b, id, writable) ==
    LET ejected == IF b.image.id = 0 THEN b.fdc ELSE MountMedia(b.fdc, FALSE, FALSE)
    IN  UpdateWiring([b EXCEPT !.image = [id |-> id, bytes |-> IF id = 0 THEN NoDisk ELSE Disk(id)],
                               !.fdc = IF id = 0 THEN ejected ELSE MountMedia(ejected, TRUE, writable)], FALSE)

\* Reset keeps the disk, the programmed addresses and counts, and clears the rest.
ResetBoard(b) ==
    UpdateWiring([b EXCEPT !.clock = 0, !.count = 0, !.out = FALSE, !.pending = FALSE, !.output = FALSE, !.page = 0,
                    !.dma.channels = [c \in {0, 2} |-> [b.dma.channels[c] EXCEPT !.masked = TRUE]], !.dma.terminal = {},
                    !.fdc = [ClearController(@) EXCEPT !.on = FALSE, !.gate = FALSE, !.motor = FALSE]], FALSE)

----------------------------------------------------------------------------
(* The program: one port access of a CPU boundary.                         *)

NoJob == [kind |-> "none", granted |-> <<>>]
Begun(kind, b) == [kind |-> kind, granted |-> <<>>, sector |-> b.fdc.sector, image |-> Image(b), ram |-> ram,
                   base |-> b.dma.channels[2].address, size |-> b.dma.channels[2].count + 1]
Ports ==
    {<<"dma", mode, address, count>> : mode \in {"read", "write"}, address \in {0, 3}, count \in {0, 2, 3}}
    \cup {<<"command", kind, sector, last>> : kind \in {"read", "write"}, sector \in {1, 3}, last \in {1, 2}}
    \cup {<<"control", on, gate, motor>> : on \in BOOLEAN, gate \in BOOLEAN, motor \in BOOLEAN}
    \cup {<<"mask">>, <<"result">>, <<"sense">>, <<"status">>, <<"page">>}
Access(b, port) ==
    UpdateWiring(
      CASE port[1] = "dma" -> [b EXCEPT !.dma.channels[2] = Channel(port[2], port[3], port[4], FALSE)]
        [] port[1] = "mask" -> [b EXCEPT !.dma.channels[2].masked = ~@]
        [] port[1] = "status" -> [b EXCEPT !.dma.terminal = {}]
        [] port[1] = "page" -> [b EXCEPT !.page = 1]
        [] port[1] = "control" -> [b EXCEPT !.fdc = WriteControl(@, port[2], port[3], port[4])]
        [] port[1] = "command" ->
             [b EXCEPT !.fdc = FindSector([@ EXCEPT !.phase = "search", !.command = port[2], !.sector = port[3], !.last = port[4]])]
        [] port[1] = "result" -> [b EXCEPT !.fdc.phase = "idle", !.fdc.interrupt = FALSE]
        [] port[1] = "sense" -> [b EXCEPT !.fdc.phase = "result", !.fdc.interrupt = FALSE],
      FALSE)
\* The adapter takes a command byte when it is ready, and others are refused.
Possible(b, port) ==
    CASE port[1] = "command" -> Ready(b.fdc) /\ b.fdc.phase = "idle" /\ ~b.fdc.interrupt
      [] port[1] = "sense" -> Ready(b.fdc) /\ b.fdc.phase = "idle" /\ b.fdc.interrupt
      [] port[1] = "result" -> b.fdc.phase = "result"
      [] OTHER -> TRUE

Init ==
    /\ board = [clock |-> 0, count |-> Divisor, out |-> TRUE, output |-> TRUE, pending |-> FALSE, line |-> FALSE, page |-> 0,
                dma |-> [channels |-> [c \in {0, 2} |-> IF c = 0 THEN Channel("read", 0, 1, TRUE)
                                                        ELSE [Channel("none", 0, 0, FALSE) EXCEPT !.masked = TRUE]],
                         levels |-> {}, terminal |-> {}],
                fdc |-> Idle, image |-> [id |-> 1, bytes |-> Disk(1)]]
    /\ ram = [address \in 0..(2 * PageSize - 1) |-> 100 + address]
    /\ job = NoJob /\ outcome = "ok" /\ moves = 0

Move == moves < MaxMoves /\ moves' = moves + 1
\* Grant at most one transfer, then run the CPU, then let its time pass; what refuses leaves
\* what was done before it.
Serviced == IF Pending(board.dma) = {} THEN board
            ELSE IF Pending(board.dma) = {0} THEN GrantRefresh(board) ELSE GrantByte(board, ram)
Granting == Pending(board.dma) = {2} /\ ~Refused(board)
ServicedRam == IF Granting /\ ~Writing(board.fdc)
               THEN [ram EXCEPT ![Address(board)] = Image(board)[MediaOffset(board.fdc)]] ELSE ram
ServicedJob == IF Granting /\ job.kind # "none"
               THEN [job EXCEPT !.granted = Append(@, <<board.image.id, Address(board), MediaOffset(board.fdc)>>)] ELSE job
Timed(b, clocks) == IF b.clock + clocks > MaxClock THEN b ELSE Advance(b, clocks, FALSE)
Late(b, clocks) == IF b.clock + clocks > MaxClock THEN "late" ELSE "ok"

Refuse == /\ Refused(board) /\ outcome' = "refused" /\ UNCHANGED <<board, ram, job, moves>>
\* An instruction that touches no device, one without a published cost, and a halt.
Step(clocks) ==
    /\ ~Refused(board) /\ board' = Timed(Serviced, clocks) /\ ram' = ServicedRam /\ job' = ServicedJob
    /\ outcome' = Late(Serviced, clocks) /\ UNCHANGED moves
Unavailable == /\ Move /\ ~Refused(board) /\ board' = Serviced /\ ram' = ServicedRam /\ job' = ServicedJob
               /\ outcome' = "unavailable"
HaltedStep == Step(PulseClocks - (Serviced.clock % PulseClocks))
OutStep(port) ==
    LET b == Access(Serviced, port) IN
    /\ ~Refused(board) /\ Possible(Serviced, port) /\ Move
    /\ board' = Timed(b, 2) /\ ram' = ServicedRam /\ outcome' = Late(b, 2)
    /\ job' = IF port[1] = "command" THEN Begun(port[2], [Serviced EXCEPT !.fdc.sector = port[3]])
              ELSE IF port[1] \in {"dma", "mask", "page"} THEN NoJob
              ELSE ServicedJob
HostAdvance == Move /\ board' = Timed(board, 6) /\ outcome' = Late(board, 6) /\ UNCHANGED <<ram, job>>
\* A command that still waits for its sector takes it from the disk that is put in.
HostDisk(id, writable) ==
    /\ Move /\ board.image.id # id /\ board' = SetDiskette(board, id, writable) /\ outcome' = "ok" /\ UNCHANGED ram
    /\ job' = IF board.fdc.phase = "search" /\ job.kind # "none" THEN [job EXCEPT !.image = Image(board')] ELSE job
HostReset == Move /\ board' = ResetBoard(board) /\ job' = NoJob /\ outcome' = "ok" /\ UNCHANGED ram

Next ==
    \/ Refuse \/ Step(2) \/ HaltedStep \/ Unavailable \/ HostAdvance \/ HostReset
    \/ \E port \in Ports : OutStep(port)
    \/ HostDisk(0, FALSE) \/ \E writable \in BOOLEAN : HostDisk(2, writable)
Spec == Init /\ [][Next]_vars

----------------------------------------------------------------------------
(* Properties.                                                             *)

\* io.ts, the constructor, and the adapter's validState: a snapshot between any two steps is
\* one a board can be restored from.
Restorable ==
    LET f == board.fdc IN
    /\ board.clock <= MaxClock
    /\ board.dma.levels = (IF board.pending THEN {0} ELSE {}) \cup (IF Dreq(f) THEN {2} ELSE {})
    /\ board.line = Irq(f) /\ f.media = (board.image.id # 0) /\ (f.writable => f.media)
    /\ f.phase = "search" => ~(f.media /\ Selected(f)) /\ ~f.interrupt
    /\ f.phase = "transfer" => /\ f.media /\ Selected(f) /\ (Writing(f) => f.writable) /\ ~f.interrupt
                               /\ f.sector \in 1..SectorsPerTrack /\ f.offset < SectorSize
    /\ f.phase # "transfer" => f.offset = 0 /\ f.delay = 0
    /\ f.resetting # 0 => f.phase = "idle" /\ ~f.interrupt /\ f.on

\* io.ts:232 and the adapter's chapter: a command that ends without an error moved exactly the
\* bytes the channel was programmed for, in order, between the memory and the one disk that was
\* in the drive, each once, padded to a sector when it wrote; whatever refreshes, pauses,
\* closed gates and exchanged disks came between.
TransferIsExact ==
    board.fdc.phase = "transfer" /\ board'.fdc.phase = "result" /\ board'.fdc.st1 = 0 /\ job'.kind # "none" =>
        LET all == job'.granted
            from == (job.sector - 1) * SectorSize
            n == Len(all)
            page == all[1][2] \div PageSize
            addresses == [i \in 1..n |-> page * PageSize + ((job.base + i - 1) % PageSize)]
        IN  /\ n = job.size /\ \A i \in 1..n : all[i] = <<board.image.id, addresses[i], from + i - 1>>
            /\ job.kind = "read" => /\ board'.image.bytes = job.image
                                    /\ \A i \in 1..n : ram'[addresses[i]] = job.image[from + i - 1]
            /\ job.kind = "write" =>
                 /\ ram' = job.ram
                 /\ \A o \in DOMAIN job.image :
                      board'.image.bytes[o] =
                        IF o \in from..(from + n - 1) THEN job.ram[addresses[o - from + 1]]
                        ELSE IF o >= from + n /\ o \div SectorSize = (from + n - 1) \div SectorSize THEN 0
                        ELSE job.image[o]

\* io.ts:232 and clock.ts:24: elapsed time stays exact, and a grant that would pass its range,
\* or that the channel is not programmed for, is refused before it changes anything.
GrantIsExact ==
    outcome' \in {"ok", "unavailable"} /\ Pending(board.dma) # {} /\ moves' = moves
    => ~Refused(board) /\ board'.clock > board.clock
=============================================================================
