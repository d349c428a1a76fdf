---------------------------- MODULE DeviceProofs ----------------------------
(***************************************************************************)
(* Proofs about the XT board's transfers and its EGA, as MCDevices runs    *)
(* them: the board for every divisor of the refresh counter, bound of the  *)
(* exact clock and number of moves; the adapter for every sequence of      *)
(* accesses, of the bytes, ports and ticks the module gives.               *)
(*                                                                         *)
(* The board's invariant has four parts.  Exact says that the adapter's    *)
(* fields agree with its phase and the lines with the fields; JobInv says  *)
(* how far the command under way is: which bytes were granted, where they  *)
(* went, and what the channel and the adapter have left.  Both change      *)
(* together within one grant.  The EGA's is that line, frame and phase are *)
(* those of its registers.                                                 *)
(***************************************************************************)
EXTENDS MCDevices, FiniteSetTheorems, SequenceTheorems, TLAPS

-----------------------------------------------------------------------------
(* The diskette adapter                                                    *)

Phases == {"idle", "search", "transfer", "result"}
Commands == {"none", "read", "write"}
Adapters == [phase : Phases, command : Commands, sector : Nat, last : Nat, offset : Nat, delay : Nat, st1 : Nat,
             interrupt : BOOLEAN, resetting : {0, 1}, on : BOOLEAN, gate : BOOLEAN, motor : BOOLEAN,
             media : BOOLEAN, writable : BOOLEAN]

Adapter(phase, command, sector, last, offset, delay, st1, interrupt, resetting, f) ==
    [phase |-> phase, command |-> command, sector |-> sector, last |-> last, offset |-> offset, delay |-> delay,
     st1 |-> st1, interrupt |-> interrupt, resetting |-> resetting, on |-> f.on, gate |-> f.gate, motor |-> f.motor,
     media |-> f.media, writable |-> f.writable]

\* What an adapter keeps whatever the drive does to it.
Sampled(f) ==
    /\ f \in Adapters
    /\ f.writable => f.media
    /\ f.phase \in {"search", "transfer"} => ~f.interrupt
    /\ f.phase = "transfer" => f.sector \in 1..2 /\ f.offset < 2
    /\ f.phase # "transfer" => f.offset = 0 /\ f.delay = 0
    /\ f.resetting # 0 => f.phase = "idle" /\ ~f.interrupt /\ f.on
    /\ ~f.on => f.phase = "idle" /\ ~f.interrupt
\* With the drive sampled.
AdapterOK(f) ==
    /\ Sampled(f)
    /\ f.phase = "search" => ~(f.media /\ f.motor)
    /\ f.phase = "transfer" => f.media /\ f.motor /\ (f.command = "write" => f.writable)

\* Ready to look for its sector.
Seeking(f) ==
    /\ f \in Adapters /\ f.phase = "search" /\ ~f.interrupt /\ f.resetting = 0 /\ f.on /\ (f.writable => f.media)
    /\ (f.offset = 0 /\ f.delay = 0) \/ (f.media /\ f.motor)

\* The same lines and the same command.
SameLines(f, g) == g.on = f.on /\ g.gate = f.gate /\ g.motor = f.motor /\ g.media = f.media /\ g.writable = f.writable
\* No byte was moved: a transfer stays where it was, starts at its sector, or ends in an error.
Quiet(f, g) ==
    /\ g.phase = "transfer" =>
          /\ g.command = f.command /\ g.sector = f.sector
          /\ (f.phase = "transfer" /\ g.offset = f.offset) \/ (f.phase = "search" /\ g.offset = 0)
    /\ g.phase = "search" => f.phase = "search" /\ g.command = f.command /\ g.sector = f.sector
    /\ g.phase = "result" => f.phase # "transfer" \/ g.st1 # 0
    /\ g.phase = "result" /\ f.phase = "result" => g.st1 = f.st1

\* The sizes of the model's disks and pages, and the clocks of a transfer.
LEMMA BoardNumbers ==
    /\ Board!PageSize = 4 /\ Board!SectorSize = 2 /\ Board!SectorsPerTrack = 2 /\ Board!PulseClocks = 4
    /\ Board!RefreshClocks = 4 /\ Board!PeripheralClocks = 5 /\ Board!ByteDelay = 1
BY DEF Board!PageSize, Board!SectorSize, Board!SectorsPerTrack, Board!PulseClocks, Board!RefreshClocks,
       Board!PeripheralClocks, Board!ByteDelay

\* A command ends: its result waits, with the interrupt it raises.
LEMMA TransferFinishes ==
    ASSUME NEW f \in Adapters, f.resetting = 0, f.on, f.writable => f.media, NEW st1 \in Nat,
           NEW g, g = Board!FinishTransfer(f, st1)
    PROVE  AdapterOK(g) /\ SameLines(f, g) /\ g.phase = "result" /\ g.st1 = st1 /\ g.command = f.command
BY DEF Board!FinishTransfer, AdapterOK, Sampled, SameLines, Adapters, Phases

\* A sector is looked for: it is found, or refused, or waited for without a drive.
LEMMA SectorsAreFound ==
    ASSUME NEW f, Seeking(f), NEW g, g = Board!FindSector(f)
    PROVE  /\ AdapterOK(g) /\ SameLines(f, g) /\ g.command = f.command
           /\ g.phase \in {"transfer", "search"} => g.sector = f.sector
           /\ g.phase = "transfer" => g.offset = 0
           /\ g.phase = "result" => g.st1 # 0
           /\ g.phase \in {"search", "transfer", "result"}
           /\ f.media /\ f.motor => g.phase # "search"
<1>0. /\ f \in Adapters /\ f.phase = "search" /\ ~f.interrupt /\ f.resetting = 0 /\ f.on /\ (f.writable => f.media)
      /\ (f.offset = 0 /\ f.delay = 0) \/ (f.media /\ f.motor)
  BY DEF Seeking
<1>1. CASE ~(f.media /\ f.motor)
  <2>1. g = f
    BY <1>0, <1>1 DEF Board!FindSector, Board!Selected
  <2> QED  BY <1>0, <1>1, <2>1 DEF AdapterOK, Sampled, SameLines
<1>2. CASE f.media /\ f.motor /\ ((f.command = "write" /\ ~f.writable) \/ f.sector \notin 1..2)
  <2>1. g = Board!FinishTransfer(f, 2) \/ g = Board!FinishTransfer(f, 4)
    BY <1>0, <1>2, BoardNumbers DEF Board!FindSector, Board!Selected, Board!Writing
  <2>2. 2 \in Nat /\ 4 \in Nat
    OBVIOUS
  <2> QED  BY <1>0, <1>2, <2>1, <2>2, TransferFinishes
<1>3. CASE f.media /\ f.motor /\ ~(f.command = "write" /\ ~f.writable) /\ f.sector \in 1..2
  <2>1. g = [f EXCEPT !.phase = "transfer", !.delay = 1, !.offset = 0]
    BY <1>0, <1>3, BoardNumbers DEF Board!FindSector, Board!Selected, Board!Writing
  <2>2. g = Adapter("transfer", f.command, f.sector, f.last, 0, 1, f.st1, f.interrupt, f.resetting, f)
    BY <1>0, <2>1, ZenonT(30) DEF Adapters, Adapter
  <2>3. g \in Adapters /\ g.phase = "transfer" /\ g.offset = 0 /\ SameLines(f, g) /\ g.command = f.command
        /\ g.sector = f.sector /\ g.interrupt = f.interrupt /\ g.resetting = f.resetting
    BY <1>0, <2>2 DEF Adapters, Adapter, SameLines, Phases
  <2> QED  BY <1>0, <1>3, <2>3 DEF AdapterOK, Sampled, SameLines
<1> QED  BY <1>1, <1>2, <1>3

\* The drive's lines have changed under the adapter.
LEMMA DrivesAreSampled ==
    ASSUME NEW f, Sampled(f), NEW g, g = Board!SampleDrive(f)
    PROVE  AdapterOK(g) /\ SameLines(f, g) /\ Quiet(f, g) /\ (g.phase = "idle" <=> f.phase = "idle")
<1>1. f \in Adapters /\ 2 \in Nat /\ 4 \in Nat
  BY DEF Sampled
<1>2. CASE f.phase \notin {"search", "transfer"}
  <2>1. g = f
    BY <1>2 DEF Board!SampleDrive, Board!FindSector
  <2> QED  BY <1>2, <2>1 DEF AdapterOK, Quiet, SameLines
<1>3. CASE f.phase = "search"
  <2>1. g = Board!FindSector(f)
    BY <1>3 DEF Board!SampleDrive
  <2>2. ~f.interrupt /\ f.resetting = 0 /\ f.on /\ (f.writable => f.media) /\ f.offset = 0 /\ f.delay = 0
    BY <1>3 DEF Sampled, Adapters
  <2>3. AdapterOK(g) /\ SameLines(f, g) /\ g.command = f.command /\ (g.phase \in {"transfer", "search"} => g.sector = f.sector)
        /\ (g.phase = "transfer" => g.offset = 0) /\ g.phase # "idle"
    <3>1. Seeking(f)
      BY <1>1, <1>3, <2>2 DEF Seeking
    <3> QED  BY <2>1, <3>1, SectorsAreFound
  <2> QED  BY <1>3, <2>3 DEF Quiet
<1>4. CASE f.phase = "transfer" /\ f.media /\ f.motor /\ ~(f.command = "write" /\ ~f.writable)
  <2>1. g = f
    BY <1>4 DEF Board!SampleDrive, Board!FindSector, Board!Selected, Board!Writing
  <2> QED  BY <1>4, <2>1 DEF AdapterOK, Quiet, SameLines
<1>5. CASE f.phase = "transfer" /\ (~(f.media /\ f.motor) \/ (f.command = "write" /\ ~f.writable))
  <2> DEFINE h == IF ~(f.motor /\ f.media) THEN Board!FinishTransfer(f, 4) ELSE Board!FinishTransfer(f, 2)
  <2>1. f.resetting = 0 /\ f.on /\ (f.writable => f.media)
    BY <1>5 DEF Sampled, Adapters
  <2>2. AdapterOK(h) /\ SameLines(f, h) /\ h.phase = "result" /\ h.st1 # 0
    BY <1>1, <2>1, TransferFinishes
  <2>3. g = Board!FindSector(h)
    BY <1>5 DEF Board!SampleDrive, Board!Selected, Board!Writing
  <2> HIDE DEF h
  <2>4. g = h
    BY <2>2, <2>3 DEF Board!FindSector
  <2> QED  BY <1>5, <2>2, <2>4 DEF Quiet
<1> QED  BY <1>2, <1>3, <1>4, <1>5 DEF Sampled, Adapters, Phases

\* A disk is put in or taken out.
LEMMA MediaIsMounted ==
    ASSUME NEW f, AdapterOK(f), NEW present \in BOOLEAN, NEW writable \in BOOLEAN,
           NEW g, g = Board!MountMedia(f, present, writable)
    PROVE  /\ AdapterOK(g) /\ Quiet(f, g) /\ g.media = present /\ (g.phase = "idle" <=> f.phase = "idle")
           /\ g.on = f.on /\ g.gate = f.gate /\ g.motor = f.motor
<1> DEFINE h == [f EXCEPT !.media = present, !.writable = present /\ writable]
<1>1. /\ Sampled(h) /\ h.media = present /\ h.on = f.on /\ h.gate = f.gate /\ h.motor = f.motor
      /\ h.phase = f.phase /\ h.command = f.command /\ h.sector = f.sector /\ h.offset = f.offset /\ h.st1 = f.st1
  BY ZenonT(30) DEF AdapterOK, Sampled, Adapters
<1>2. Board!MountMedia(f, present, writable) = Board!SampleDrive(h)
  BY DEF Board!MountMedia
<1> HIDE DEF h
<1> QED  BY <1>1, <1>2, DrivesAreSampled DEF Quiet, SameLines

\* The digital output register: a reset begins or ends, or lines change.
LEMMA ControlIsWritten ==
    ASSUME NEW f, AdapterOK(f), NEW on \in BOOLEAN, NEW gate \in BOOLEAN, NEW motor \in BOOLEAN,
           NEW g, g = Board!WriteControl(f, on, gate, motor)
    PROVE  AdapterOK(g) /\ Quiet(f, g) /\ g.media = f.media
<1> DEFINE set == [f EXCEPT !.on = on, !.gate = gate, !.motor = motor]
           h == IF ~on THEN Board!ClearController(set)
                ELSE IF ~f.on THEN [set EXCEPT !.resetting = 1] ELSE set
<1>1. /\ Sampled(h) /\ h.media = f.media
      /\ h.phase # "idle" => /\ h.phase = f.phase /\ h.command = f.command /\ h.sector = f.sector
                             /\ h.offset = f.offset /\ h.st1 = f.st1
  <2>0. /\ set \in Adapters /\ set.on = on /\ set.media = f.media /\ set.writable = f.writable /\ set.phase = f.phase
        /\ set.command = f.command /\ set.sector = f.sector /\ set.offset = f.offset /\ set.delay = f.delay
        /\ set.st1 = f.st1 /\ set.interrupt = f.interrupt /\ set.resetting = f.resetting
    BY ZenonT(30) DEF AdapterOK, Sampled, Adapters
  <2> HIDE DEF set
  <2>1. CASE ~on
    <3>1. h = Board!ClearController(set)
      BY <2>1
    <3>2. /\ h \in Adapters /\ h.phase = "idle" /\ h.offset = 0 /\ h.delay = 0 /\ ~h.interrupt /\ h.resetting = 0
          /\ h.media = set.media /\ h.writable = set.writable
      <4>1. h = Adapter("idle", "none", 0, 0, 0, 0, 0, FALSE, 0, set)
        BY <2>0, <3>1, ZenonT(30) DEF Board!ClearController, Adapters, Adapter
      <4> HIDE DEF h
      <4> QED  BY <2>0, <4>1 DEF Adapters, Adapter, Phases, Commands
    <3> HIDE DEF h
    <3> QED  BY <2>0, <3>2 DEF AdapterOK, Sampled
  <2>2. CASE on /\ f.on
    <3>1. h = set
      BY <2>2
    <3> QED  BY <2>0, <2>2, <3>1 DEF AdapterOK, Sampled
  <2>3. CASE on /\ ~f.on
    <3>1. h = [set EXCEPT !.resetting = 1]
      BY <2>3
    <3>2. /\ h \in Adapters /\ h.phase = f.phase /\ h.offset = f.offset /\ h.delay = f.delay /\ h.interrupt = f.interrupt
          /\ h.resetting = 1 /\ h.on = on /\ h.command = f.command /\ h.sector = f.sector /\ h.st1 = f.st1
          /\ h.media = set.media /\ h.writable = set.writable
      BY <2>0, <3>1 DEF Adapters
    <3> HIDE DEF h
    <3> QED  BY <2>0, <2>3, <3>2 DEF AdapterOK, Sampled
  <2> QED  BY <2>1, <2>2, <2>3
<1>2. Board!WriteControl(f, on, gate, motor) = Board!SampleDrive(h)
  BY DEF Board!WriteControl
<1> HIDE DEF h
<1>3. h.phase = "idle" => Board!SampleDrive(h) = h
  BY DEF Board!SampleDrive, Board!FindSector
<1> QED  BY <1>1, <1>2, <1>3, DrivesAreSampled DEF Quiet, SameLines

\* Time passes for the adapter: a byte comes nearer, or the reset ends.
LEMMA AdapterAdvances ==
    ASSUME NEW f, AdapterOK(f),
           NEW g, g = Board!AdvanceAdapter(f)
    PROVE  /\ AdapterOK(g) /\ SameLines(f, g) /\ g.phase = f.phase /\ g.command = f.command /\ g.sector = f.sector
           /\ g.last = f.last /\ g.offset = f.offset /\ g.st1 = f.st1
<1> DEFINE delay == IF f.delay = 0 THEN 0 ELSE f.delay - 1
<1>0. f \in Adapters
  BY DEF AdapterOK, Sampled
<1>1. delay \in Nat /\ (f.delay = 0 => delay = 0)
  BY <1>0 DEF Adapters
<1> HIDE DEF delay
<1>2. CASE f.resetting = 0
  <2>1. g = [f EXCEPT !.delay = delay]
    BY <1>2 DEF Board!AdvanceAdapter, delay
  <2>2. g = Adapter(f.phase, f.command, f.sector, f.last, f.offset, delay, f.st1, f.interrupt, f.resetting, f)
    BY <1>0, <2>1 DEF Adapters, Adapter
  <2>3. /\ g \in Adapters /\ SameLines(f, g) /\ g.phase = f.phase /\ g.command = f.command /\ g.sector = f.sector
        /\ g.last = f.last /\ g.offset = f.offset /\ g.st1 = f.st1 /\ g.delay = delay /\ g.interrupt = f.interrupt
        /\ g.resetting = f.resetting
    BY <1>0, <1>1, <2>2 DEF Adapters, Adapter, SameLines
  <2> QED  BY <1>1, <2>3 DEF AdapterOK, Sampled, SameLines
<1>3. CASE f.resetting # 0
  <2>1. g = [[f EXCEPT !.delay = delay] EXCEPT !.resetting = 0, !.interrupt = TRUE]
    BY <1>3 DEF Board!AdvanceAdapter, delay
  <2>2. g = Adapter(f.phase, f.command, f.sector, f.last, f.offset, delay, f.st1, TRUE, 0, f)
    BY <1>0, <2>1 DEF Adapters, Adapter
  <2>3. /\ g \in Adapters /\ SameLines(f, g) /\ g.phase = f.phase /\ g.command = f.command /\ g.sector = f.sector
        /\ g.last = f.last /\ g.offset = f.offset /\ g.st1 = f.st1 /\ g.delay = delay /\ g.resetting = 0
    BY <1>0, <1>1, <2>2 DEF Adapters, Adapter, SameLines
  <2> QED  BY <1>1, <1>3, <2>3 DEF AdapterOK, Sampled, SameLines
<1> QED  BY <1>2, <1>3

\* A byte was granted.
LEMMA BytesAreAcknowledged ==
    ASSUME NEW f, AdapterOK(f), Board!Dreq(f), NEW terminal \in BOOLEAN,
           NEW g, g = Board!AcknowledgeByte(f, terminal)
    PROVE  /\ AdapterOK(g) /\ SameLines(f, g) /\ g.command = f.command
           /\ g.phase \in {"transfer", "result"}
           /\ g.phase = "transfer" => ~terminal /\ (g.sector - 1) * 2 + g.offset = (f.sector - 1) * 2 + f.offset + 1
           /\ g.phase = "result" /\ g.st1 = 0 => terminal
<1> DEFINE following == IF f.sector = f.last THEN 1 ELSE f.sector + 1
           next == [f EXCEPT !.sector = following]
<1>1. /\ f \in Adapters /\ f.phase = "transfer" /\ f.sector \in 1..2 /\ f.offset < 2 /\ f.offset \in Nat /\ f.delay = 0
      /\ f.media /\ f.motor /\ ~f.interrupt /\ f.resetting = 0 /\ f.on /\ (f.command = "write" => f.writable)
  BY DEF AdapterOK, Sampled, Board!Dreq, Adapters
<1>2. /\ next \in Adapters /\ SameLines(f, next) /\ next.command = f.command /\ next.phase = f.phase
      /\ next.offset = f.offset /\ next.resetting = f.resetting /\ next.interrupt = f.interrupt
      /\ next.sector = following
  <2>0. following \in Nat
    BY <1>1 DEF Adapters
  <2> HIDE DEF following
  <2>a. f \in Adapters /\ next = [f EXCEPT !.sector = following]
    BY <1>1
  <2> HIDE DEF next
  <2>1. next = Adapter(f.phase, f.command, following, f.last, f.offset, f.delay, f.st1, f.interrupt, f.resetting, f)
    BY <2>a DEF Adapters, Adapter
  <2> QED  BY <1>1, <2>0, <2>1 DEF Adapters, Adapter, SameLines
<1>3. CASE ~terminal /\ f.offset # 1
  <2>1. g = [f EXCEPT !.offset = f.offset + 1, !.delay = 1]
    BY <1>3, BoardNumbers DEF Board!AcknowledgeByte
  <2>2. f.offset = 0
    BY <1>1, <1>3
  <2>3. /\ g \in Adapters /\ SameLines(f, g) /\ g.command = f.command /\ g.phase = "transfer" /\ g.offset = 1
        /\ g.sector = f.sector /\ g.resetting = f.resetting /\ g.interrupt = f.interrupt
    <3>0. g = [f EXCEPT !.offset = 1, !.delay = 1]
      BY <2>1, <2>2
    <3>1. g = Adapter(f.phase, f.command, f.sector, f.last, 1, 1, f.st1, f.interrupt, f.resetting, f)
      BY <1>1, <3>0, ZenonT(30) DEF Adapters, Adapter
    <3> QED  BY <1>1, <3>1 DEF Adapters, Adapter, SameLines
  <2> QED  BY <1>1, <1>3, <2>2, <2>3 DEF AdapterOK, Sampled, SameLines
<1> HIDE DEF next
<1>4. CASE terminal \/ (f.offset = 1 /\ f.sector = f.last)
  <2>1. g = Board!FinishTransfer(next, IF terminal THEN 0 ELSE 128)
    BY <1>4, BoardNumbers DEF Board!AcknowledgeByte, next
  <2>2. (IF terminal THEN 0 ELSE 128) \in Nat /\ next.on /\ next.resetting = 0 /\ (next.writable => next.media)
    BY <1>1, <1>2 DEF SameLines
  <2>3. /\ AdapterOK(g) /\ SameLines(next, g) /\ g.phase = "result" /\ g.st1 = (IF terminal THEN 0 ELSE 128)
        /\ g.command = next.command
    BY <1>2, <2>1, <2>2, TransferFinishes
  <2> QED  BY <1>2, <2>3 DEF SameLines
<1>5. CASE ~terminal /\ f.offset = 1 /\ f.sector # f.last
  <2> DEFINE looking == [next EXCEPT !.phase = "search"]
  <2>1. g = Board!FindSector(looking)
    BY <1>5, BoardNumbers DEF Board!AcknowledgeByte, next
  <2>2. /\ looking \in Adapters /\ looking.phase = "search" /\ ~looking.interrupt /\ looking.resetting = 0 /\ looking.on
        /\ looking.media /\ looking.motor /\ SameLines(f, looking) /\ looking.command = f.command
        /\ looking.sector = f.sector + 1
    BY <1>1, <1>2, <1>5 DEF Adapters, SameLines, Phases
  <2> HIDE DEF looking
  <2>3. /\ AdapterOK(g) /\ SameLines(looking, g) /\ g.command = looking.command /\ g.phase \in {"transfer", "result"}
        /\ (g.phase = "transfer" => g.offset = 0 /\ g.sector = looking.sector) /\ (g.phase = "result" => g.st1 # 0)
    <3>1. Seeking(looking)
      BY <2>2 DEF Seeking
    <3> QED  BY <2>1, <2>2, <3>1, SectorsAreFound
  <2> QED  BY <1>1, <1>5, <2>2, <2>3 DEF SameLines
<1> QED  BY <1>1, <1>3, <1>4, <1>5

-----------------------------------------------------------------------------
(* The board and the time that passes on it                                *)

Addresses == 0..3
Modes == {"none", "read", "write"}
Channels == [mode : Modes, masked : BOOLEAN, reload : BOOLEAN, address : Addresses, count : Addresses,
             base : Addresses, reloadCount : Addresses]
Dmas == [channels : [{0, 2} -> Channels], levels : SUBSET {0, 2}, terminal : SUBSET {0, 2}]
Disks == [Addresses -> Int]
Images == [id : Nat, bytes : Disks \cup {<< >>}]
Boards == [clock : Nat, count : Nat, out : BOOLEAN, output : BOOLEAN, pending : BOOLEAN, line : BOOLEAN, page : {0, 1},
           dma : Dmas, fdc : Adapters, image : Images]
BoardOf(clock, count, out, output, pending, line, page, dma, fdc, image) ==
    [clock |-> clock, count |-> count, out |-> out, output |-> output, pending |-> pending, line |-> line,
     page |-> page, dma |-> dma, fdc |-> fdc, image |-> image]
DmaOf(channels, levels, terminal) == [channels |-> channels, levels |-> levels, terminal |-> terminal]

\* A board whose drive is sampled; and one whose lines are wired.
Sound(b) ==
    /\ b \in Boards /\ AdapterOK(b.fdc)
    /\ b.fdc.media <=> b.image.id # 0
    /\ b.image.id # 0 => b.image.bytes \in Disks
    /\ ~b.dma.channels[2].reload
Wires(b) ==
    /\ b.dma.levels = (IF b.pending THEN {0} ELSE {}) \cup (IF Board!Dreq(b.fdc) THEN {2} ELSE {})
    /\ b.line = Board!Irq(b.fdc)
Exact(b) == Sound(b) /\ Wires(b) /\ b.clock <= MaxClock

\* Time alone: the adapter waits.
Waited(f, g) ==
    /\ SameLines(f, g) /\ g.phase = f.phase /\ g.command = f.command /\ g.sector = f.sector
    /\ g.last = f.last /\ g.offset = f.offset /\ g.st1 = f.st1
Rested(b, g) ==
    /\ g.page = b.page /\ g.image = b.image /\ g.dma.channels = b.dma.channels /\ Waited(b.fdc, g.fdc)

\* A byte is asked for only of a disk, in a transfer, when its time has come.
LEMMA DreqNeedsMedia == ASSUME NEW f, AdapterOK(f), Board!Dreq(f) PROVE f.media /\ f.phase = "transfer" /\ f.delay = 0
BY DEF AdapterOK, Board!Dreq

\* The adapter's two lines are either high or low.
LEMMA DreqIsBoolean == ASSUME NEW f, AdapterOK(f) PROVE Board!Dreq(f) \in BOOLEAN /\ Board!Irq(f) \in BOOLEAN
BY DEF AdapterOK, Sampled, Adapters, Board!Dreq, Board!Irq

\* Waiting twice is waiting.
LEMMA RestsOn ==
    ASSUME NEW b, NEW g, NEW h, Rested(b, g), Rested(g, h) PROVE Rested(b, h)
BY DEF Rested, Waited, SameLines
\* Nothing happening is waiting.
LEMMA RestsStill == ASSUME NEW b PROVE Rested(b, b)
BY DEF Rested, Waited, SameLines

\* The board's levels and line follow the adapter and the counter.
LEMMA WiringIsUpdated ==
    ASSUME NEW b, Sound(b), NEW acknowledged \in BOOLEAN, NEW g, g = Board!UpdateWiring(b, acknowledged)
    PROVE  Sound(g) /\ Wires(g) /\ Rested(b, g) /\ g.clock = b.clock /\ g.fdc = b.fdc /\ g.dma.terminal = b.dma.terminal
<1> DEFINE asked == IF acknowledged THEN FALSE ELSE (b.out /\ ~b.output) \/ b.pending
           wanted == b.image.id # 0 /\ Board!Dreq(b.fdc)
           levels == (IF asked THEN {0} ELSE {}) \cup (IF wanted THEN {2} ELSE {})
           dma == DmaOf(b.dma.channels, levels, b.dma.terminal)
<1>0. /\ b \in Boards /\ b.dma \in Dmas /\ b.fdc \in Adapters /\ b.image \in Images
      /\ b.out \in BOOLEAN /\ b.output \in BOOLEAN /\ b.pending \in BOOLEAN
  BY DEF Sound, Boards
<1>1. asked \in BOOLEAN /\ levels \in SUBSET {0, 2} /\ Board!Irq(b.fdc) \in BOOLEAN
  BY <1>0, DreqIsBoolean DEF Sound
<1>2. wanted <=> Board!Dreq(b.fdc)
  BY DreqNeedsMedia DEF Sound
<1>3. g = [b EXCEPT !.pending = asked, !.output = b.out, !.line = Board!Irq(b.fdc), !.dma.levels = levels]
  BY DEF Board!UpdateWiring
<1> HIDE DEF asked, wanted, levels
<1>4. dma \in Dmas /\ dma = [b.dma EXCEPT !.levels = levels]
  BY <1>0, <1>1 DEF DmaOf, Dmas
<1>5. g = [b EXCEPT !.pending = asked, !.output = b.out, !.line = Board!Irq(b.fdc), !.dma = dma]
  BY <1>0, <1>3, <1>4 DEF Boards
<1>a. dma.channels = b.dma.channels /\ dma.levels = levels /\ dma.terminal = b.dma.terminal
  BY DEF DmaOf
<1> HIDE DEF dma
<1>6. g = BoardOf(b.clock, b.count, b.out, b.out, asked, Board!Irq(b.fdc), b.page, dma, b.fdc, b.image)
  BY <1>0, <1>5 DEF Boards, BoardOf
<1>7. g \in Boards
  BY <1>0, <1>1, <1>4, <1>6 DEF Boards, BoardOf
<1>8. /\ g.clock = b.clock /\ g.fdc = b.fdc /\ g.image = b.image /\ g.page = b.page /\ g.dma = dma
      /\ g.pending = asked /\ g.line = Board!Irq(b.fdc)
  BY <1>6 DEF BoardOf
<1>9. Sound(g)
  BY <1>7, <1>8, <1>a DEF Sound
<1>10. Wires(g)
  BY <1>8, <1>a, <1>2 DEF Wires, levels
<1> QED  BY <1>8, <1>9, <1>10, <1>a DEF Rested, Waited, SameLines

\* A pulse of the counter leaves a sound board that only waited.
LEMMA PulsesPass ==
    ASSUME NEW b, Sound(b), NEW acknowledged \in BOOLEAN, NEW g, g = Board!Pulse(b, acknowledged)
    PROVE  Sound(g) /\ Wires(g) /\ Rested(b, g) /\ g.clock = b.clock
<1> DEFINE out == b.count \notin {0, 2}
           count == IF b.count = 0 THEN 0 ELSE IF b.count = 1 THEN Divisor ELSE b.count - 1
           fdc == Board!AdvanceAdapter(b.fdc)
           h == [b EXCEPT !.fdc = fdc, !.out = out, !.count = count]
<1>0. b \in Boards /\ AdapterOK(b.fdc) /\ b.count \in Nat
  BY DEF Sound, Boards
<1>1. AdapterOK(fdc) /\ Waited(b.fdc, fdc)
  BY <1>0, AdapterAdvances DEF Waited
<1>2. fdc \in Adapters /\ out \in BOOLEAN /\ count \in Nat
  BY <1>0, <1>1, ClockAssumption DEF AdapterOK, Sampled
<1>3. g = Board!UpdateWiring(h, acknowledged)
  BY DEF Board!Pulse
<1> HIDE DEF out, count, fdc
<1>a. h = [b EXCEPT !.fdc = fdc, !.out = out, !.count = count]
  OBVIOUS
<1> HIDE DEF h
<1>4. h = BoardOf(b.clock, count, out, b.output, b.pending, b.line, b.page, b.dma, fdc, b.image)
  BY <1>0, <1>a DEF Boards, BoardOf
<1>5. h \in Boards
  BY <1>0, <1>2, <1>4 DEF Boards, BoardOf
<1>6. h.clock = b.clock /\ h.page = b.page /\ h.dma = b.dma /\ h.fdc = fdc /\ h.image = b.image
  BY <1>4 DEF BoardOf
<1>7. Sound(h) /\ Rested(b, h)
  BY <1>1, <1>5, <1>6 DEF Sound, Rested, Waited, SameLines
<1> QED  BY <1>3, <1>6, <1>7, WiringIsUpdated, RestsOn

\* At most two pulses fall within six clocks.
LEMMA PulsesCounted ==
    ASSUME NEW clock \in Nat, NEW clocks \in 1..6 PROVE ((clock % 4) + clocks) \div 4 \in 0..2
<1>1. clock % 4 \in 0..3
  OBVIOUS
<1> QED  BY <1>1

\* The pulses of an interval are taken one after the other.
LEMMA PulsesIterate ==
    ASSUME NEW b, NEW acknowledged, NEW pulses \in 0..2
    PROVE  LET after[n \in 0..pulses] == IF n = 0 THEN b ELSE Board!Pulse(after[n - 1], acknowledged)
           IN  after[pulses] = IF pulses = 0 THEN b
                               ELSE IF pulses = 1 THEN Board!Pulse(b, acknowledged)
                               ELSE Board!Pulse(Board!Pulse(b, acknowledged), acknowledged)
<1> DEFINE Step(f) == [n \in 0..pulses |-> IF n = 0 THEN b ELSE Board!Pulse(f[n - 1], acknowledged)]
           once == Board!Pulse(b, acknowledged)
           witness == [n \in 0..pulses |-> IF n = 0 THEN b ELSE IF n = 1 THEN once ELSE Board!Pulse(once, acknowledged)]
           after == CHOOSE f : f = Step(f)
<1>1. witness = Step(witness)
  <2>1. \A n \in 0..pulses : witness[n] = IF n = 0 THEN b ELSE Board!Pulse(witness[n - 1], acknowledged)
    <3> TAKE n \in 0..pulses
    <3>1. n = 0 \/ n = 1 \/ n = 2
      OBVIOUS
    <3> QED  BY <3>1
  <2> QED  BY <2>1
<1>2. after = Step(after)
  BY <1>1
<1> HIDE DEF after
<1>3. \A n \in 0..pulses : after[n] = IF n = 0 THEN b ELSE Board!Pulse(after[n - 1], acknowledged)
  BY <1>2
<1>4. after[pulses] = IF pulses = 0 THEN b ELSE IF pulses = 1 THEN once ELSE Board!Pulse(once, acknowledged)
  <2>1. after[0] = b
    BY <1>3
  <2>2. pulses >= 1 => after[1] = once
    BY <1>3, <2>1
  <2>3. pulses >= 2 => after[2] = Board!Pulse(once, acknowledged)
    BY <1>3, <2>2
  <2>4. pulses = 0 \/ pulses = 1 \/ pulses = 2
    OBVIOUS
  <2> QED  BY <2>1, <2>2, <2>3, <2>4
<1> QED  BY <1>4 DEF after

\* Every pulse within the interval is visited; nothing but time passes.
LEMMA TimeAdvances ==
    ASSUME NEW b, Sound(b), NEW clocks \in 1..6, NEW acknowledged \in BOOLEAN,
           NEW g, g = Board!Advance(b, clocks, acknowledged)
    PROVE  Sound(g) /\ Wires(g) /\ Rested(b, g) /\ g.clock = b.clock + clocks
<1> DEFINE pulses == ((b.clock % 4) + clocks) \div 4
           once == Board!Pulse(b, acknowledged)
           twice == Board!Pulse(once, acknowledged)
           last == IF pulses = 0 THEN b ELSE IF pulses = 1 THEN once ELSE twice
           h == Board!UpdateWiring(last, acknowledged)
<1>0. b \in Boards /\ b.clock \in Nat
  BY DEF Sound, Boards
<1>1. pulses \in 0..2
  BY <1>0, PulsesCounted
<1>2. g = [h EXCEPT !.clock = b.clock + clocks]
  <2>1. clocks # 0
    OBVIOUS
  <2> HIDE DEF pulses, once, twice
  <2> DEFINE Step(f) == [n \in 0..pulses |-> IF n = 0 THEN b ELSE Board!Pulse(f[n - 1], acknowledged)]
             after == CHOOSE f : f = Step(f)
  <2>2. after[pulses] = last
    BY <1>1, PulsesIterate DEF once, twice
  <2>3. g = [Board!UpdateWiring(after[pulses], acknowledged) EXCEPT !.clock = b.clock + clocks]
    BY <2>1, BoardNumbers DEF Board!Advance, pulses
  <2> QED  BY <2>2, <2>3
<1>3. Sound(once) /\ Rested(b, once) /\ once.clock = b.clock
  BY PulsesPass
<1>4. Sound(twice) /\ Rested(once, twice) /\ twice.clock = b.clock
  BY <1>3, PulsesPass
<1>5. Sound(last) /\ Rested(b, last) /\ last.clock = b.clock
  BY <1>3, <1>4, RestsOn, RestsStill
<1> HIDE DEF last
<1>6. Sound(h) /\ Wires(h) /\ Rested(b, h)
  BY <1>5, WiringIsUpdated, RestsOn
<1> HIDE DEF h
<1>7. h \in Boards
  BY <1>6 DEF Sound
<1>8. g = BoardOf(b.clock + clocks, h.count, h.out, h.output, h.pending, h.line, h.page, h.dma, h.fdc, h.image)
  BY <1>2, <1>7 DEF Boards, BoardOf
<1>9. g \in Boards
  BY <1>0, <1>7, <1>8 DEF Boards, BoardOf
<1>10. /\ g.clock = b.clock + clocks /\ g.pending = h.pending /\ g.line = h.line /\ g.page = h.page /\ g.dma = h.dma
       /\ g.fdc = h.fdc /\ g.image = h.image
  BY <1>8 DEF BoardOf
<1> QED  BY <1>6, <1>9, <1>10 DEF Sound, Wires, Rested

-----------------------------------------------------------------------------
(* The grants                                                              *)

ChannelOf(channel, masked, address, count) ==
    [mode |-> channel.mode, masked |-> masked, reload |-> channel.reload, address |-> address, count |-> count,
     base |-> channel.base, reloadCount |-> channel.reloadCount]

\* The diskette's channel goes on by one byte; a refresh leaves it alone.
LEMMA ChannelsComplete ==
    ASSUME NEW d \in Dmas, NEW c \in {0, 2}, NEW g, g = Board!CompleteTransfer(d, c)
    PROVE  /\ g \in Dmas /\ g.levels = d.levels
           /\ g.channels[2].reload = d.channels[2].reload
           /\ c = 0 => g.channels[2] = d.channels[2]
           /\ c = 2 /\ ~d.channels[2].reload =>
                /\ g.channels[2].address = (d.channels[2].address + 1) % 4
                /\ g.channels[2].count = IF d.channels[2].count = 0 THEN 3 ELSE d.channels[2].count - 1
<1> DEFINE channel == d.channels[c]
           terminal == channel.count = 0
           back == terminal /\ channel.reload
           address == IF back THEN channel.base ELSE (channel.address + 1) % 4
           count == IF back THEN channel.reloadCount ELSE IF terminal THEN 3 ELSE channel.count - 1
           masked == IF terminal /\ ~channel.reload THEN TRUE ELSE channel.masked
           ended == IF terminal THEN d.terminal \cup {c} ELSE d.terminal
           after == ChannelOf(channel, masked, address, count)
           channels == [d.channels EXCEPT ![c] = after]
<1>1. /\ d.channels \in [{0, 2} -> Channels] /\ channel \in Channels /\ d.levels \in SUBSET {0, 2}
      /\ d.terminal \in SUBSET {0, 2}
  BY DEF Dmas
<1>2. address \in Addresses /\ count \in Addresses /\ masked \in BOOLEAN /\ ended \in SUBSET {0, 2}
  <2>1. /\ channel.address \in 0..3 /\ channel.count \in 0..3 /\ channel.base \in 0..3 /\ channel.reloadCount \in 0..3
        /\ channel.masked \in BOOLEAN /\ channel.reload \in BOOLEAN
    BY <1>1 DEF Channels, Addresses
  <2> HIDE DEF channel
  <2>2. (channel.address + 1) % 4 \in 0..3 /\ (channel.count # 0 => channel.count - 1 \in 0..3) /\ 3 \in 0..3
    BY <2>1
  <2>3. address \in Addresses
    BY <2>1, <2>2 DEF Addresses
  <2>4. count \in Addresses
    BY <2>1, <2>2 DEF Addresses
  <2>5. masked \in BOOLEAN
    BY <2>1
  <2>6. ended \in SUBSET {0, 2}
    BY <1>1
  <2> QED  BY <2>3, <2>4, <2>5, <2>6
<1>3. g = [d EXCEPT !.channels[c].address = address, !.channels[c].count = count, !.channels[c].masked = masked,
                    !.terminal = ended]
  BY BoardNumbers DEF Board!CompleteTransfer
<1>4. after \in Channels /\ after.address = address /\ after.count = count /\ after.reload = channel.reload
  <2> HIDE DEF address, count, masked, channel
  <2> QED  BY <1>1, <1>2 DEF ChannelOf, Channels
<1>5. [[[channel EXCEPT !.address = address] EXCEPT !.count = count] EXCEPT !.masked = masked] = after
  <2> HIDE DEF address, count, masked, channel
  <2> DEFINE first == [channel EXCEPT !.address = address]
             second == [first EXCEPT !.count = count]
  <2>1. first = ChannelOf(channel, channel.masked, address, channel.count)
    BY <1>1 DEF ChannelOf, Channels
  <2>2. second = [first EXCEPT !.count = count]
    OBVIOUS
  <2> HIDE DEF first, second
  <2>3. second = ChannelOf(channel, channel.masked, address, count)
    BY <2>1, <2>2 DEF ChannelOf
  <2>4. [second EXCEPT !.masked = masked] = ChannelOf(channel, masked, address, count)
    BY <2>3 DEF ChannelOf
  <2> QED  BY <2>4 DEF first, second
<1> DEFINE d1 == [d EXCEPT !.channels[c].address = address]
           d2 == [d1 EXCEPT !.channels[c].count = count]
           d3 == [d2 EXCEPT !.channels[c].masked = masked]
<1>6. g = [d3 EXCEPT !.terminal = ended]
  BY <1>3, ZenonT(30)
<1>7. g = DmaOf(channels, d.levels, ended)
  <2> HIDE DEF address, count, masked, ended
  <2>1. d1 = DmaOf([d.channels EXCEPT ![c] = [channel EXCEPT !.address = address]], d.levels, d.terminal)
    BY <1>1 DEF DmaOf, Dmas
  <2>2. d2 = DmaOf([d.channels EXCEPT ![c] = [[channel EXCEPT !.address = address] EXCEPT !.count = count]],
                   d.levels, d.terminal)
    <3> DEFINE first == [channel EXCEPT !.address = address]
    <3>1. d1 = DmaOf([d.channels EXCEPT ![c] = first], d.levels, d.terminal)
      BY <2>1
    <3>2. d2 = [d1 EXCEPT !.channels[c].count = count]
      OBVIOUS
    <3> HIDE DEF d1, d2, first
    <3>3. d2 = DmaOf([[d.channels EXCEPT ![c] = first] EXCEPT ![c].count = count], d.levels, d.terminal)
      BY <3>1, <3>2 DEF DmaOf
    <3>4. [[d.channels EXCEPT ![c] = first] EXCEPT ![c].count = count] = [d.channels EXCEPT ![c] = [first EXCEPT !.count = count]]
      BY <1>1
    <3> QED  BY <3>3, <3>4 DEF first
  <2>3. d3 = DmaOf([d.channels EXCEPT ![c] = after], d.levels, d.terminal)
    <3> DEFINE second == [[channel EXCEPT !.address = address] EXCEPT !.count = count]
    <3>1. d2 = DmaOf([d.channels EXCEPT ![c] = second], d.levels, d.terminal) /\ [second EXCEPT !.masked = masked] = after
      BY <2>2, <1>5
    <3>2. d3 = [d2 EXCEPT !.channels[c].masked = masked]
      OBVIOUS
    <3> HIDE DEF d2, d3, second, after
    <3>3. d3 = DmaOf([[d.channels EXCEPT ![c] = second] EXCEPT ![c].masked = masked], d.levels, d.terminal)
      BY <3>1, <3>2 DEF DmaOf
    <3>4. [[d.channels EXCEPT ![c] = second] EXCEPT ![c].masked = masked] = [d.channels EXCEPT ![c] = [second EXCEPT !.masked = masked]]
      BY <1>1
    <3> QED  BY <3>1, <3>3, <3>4
  <2> HIDE DEF d3, after
  <2> QED  BY <1>6, <2>3 DEF DmaOf
<1> HIDE DEF after, address, count, masked, ended
<1>8. /\ channels \in [{0, 2} -> Channels] /\ channels[c] = after
      /\ \A k \in {0, 2} \ {c} : channels[k] = d.channels[k]
  BY <1>1, <1>4
<1> HIDE DEF channels
<1>9. g \in Dmas /\ g.levels = d.levels /\ g.channels = channels
  BY <1>1, <1>2, <1>7, <1>8 DEF DmaOf, Dmas
<1>10. CASE c = 0
  BY <1>8, <1>9, <1>10
<1>11. CASE c = 2
  <2>1. channels[2] = after /\ channel = d.channels[2]
    BY <1>8, <1>11
  <2> HIDE DEF channel
  <2>2. ~channel.reload => address = (channel.address + 1) % 4 /\ count = IF channel.count = 0 THEN 3 ELSE channel.count - 1
    BY DEF address, count
  <2> QED  BY <1>4, <1>9, <1>11, <2>1, <2>2
<1> QED  BY <1>10, <1>11

\* One level is granted at a time: refresh before the diskette, whose request is a byte it waits for.
LEMMA OneIsPending ==
    ASSUME NEW b, Exact(b)
    PROVE  /\ Board!Pending(b.dma) \in {{}, {0}, {2}}
           /\ Board!Pending(b.dma) = {2} => Board!Dreq(b.fdc)
<1>1. b \in Boards /\ b.dma \in Dmas /\ b.dma.levels \in SUBSET {0, 2} /\ b.pending \in BOOLEAN
  BY DEF Exact, Sound, Boards, Dmas
<1>2. Board!Pending(b.dma) \in {{}, {0}, {2}}
  <2> DEFINE P == Board!Pending(b.dma)
  <2>1. P \subseteq {0, 2} /\ \A c \in P : \A other \in b.dma.levels : b.dma.channels[other].masked \/ other >= c
    BY <1>1 DEF Board!Pending
  <2>2. ~(0 \in P /\ 2 \in P)
    BY <1>1, <2>1 DEF Board!Pending
  <2> HIDE DEF P
  <2>3. CASE 0 \in P
    <3>1. P = {0}
      BY <2>1, <2>2, <2>3
    <3> QED  BY <3>1 DEF P
  <2>4. CASE 0 \notin P /\ 2 \in P
    <3>1. P = {2}
      BY <2>1, <2>4
    <3> QED  BY <3>1 DEF P
  <2>5. CASE 0 \notin P /\ 2 \notin P
    <3>1. P = {}
      BY <2>1, <2>5
    <3> QED  BY <3>1 DEF P
  <2> QED  BY <2>3, <2>4, <2>5
<1>3. Board!Pending(b.dma) = {2} => 2 \in b.dma.levels
  BY DEF Board!Pending
<1>4. 2 \in b.dma.levels => Board!Dreq(b.fdc)
  BY DEF Exact, Wires
<1> QED  BY <1>2, <1>3, <1>4

\* Channel 2 and the adapter stay where they were.
Stayed(b, g) ==
    /\ g.page = b.page /\ g.image = b.image /\ g.dma.channels[2] = b.dma.channels[2] /\ Waited(b.fdc, g.fdc)

\* What only waits stays where it was.
LEMMA RestedStayed == ASSUME NEW b, NEW g, Rested(b, g) PROVE Stayed(b, g)
BY DEF Rested, Stayed
\* Staying twice is staying.
LEMMA StaysOn == ASSUME NEW b, NEW g, NEW h, Stayed(b, g), Stayed(g, h) PROVE Stayed(b, h)
BY DEF Stayed, Waited, SameLines

\* A refresh takes its time and moves no byte.
LEMMA RefreshIsGranted ==
    ASSUME NEW b, Exact(b), NEW g, g = Board!GrantRefresh(b)
    PROVE  Sound(g) /\ Wires(g) /\ Stayed(b, g) /\ g.clock = b.clock + 4
<1> DEFINE dma == Board!CompleteTransfer(b.dma, 0)
           h == [b EXCEPT !.dma = dma]
           wired == Board!UpdateWiring(h, TRUE)
<1>0. b \in Boards /\ b.dma \in Dmas /\ Sound(b)
  BY DEF Exact, Sound, Boards
<1>1. dma \in Dmas /\ dma.channels[2].reload = b.dma.channels[2].reload /\ dma.channels[2] = b.dma.channels[2]
  BY <1>0, ChannelsComplete
<1>2. g = Board!Advance(wired, 4, TRUE)
  BY BoardNumbers DEF Board!GrantRefresh
<1> HIDE DEF dma
<1>a. h = [b EXCEPT !.dma = dma]
  OBVIOUS
<1> HIDE DEF h
<1>3. h = BoardOf(b.clock, b.count, b.out, b.output, b.pending, b.line, b.page, dma, b.fdc, b.image)
  BY <1>0, <1>a DEF Boards, BoardOf
<1>4. h \in Boards
  BY <1>0, <1>1, <1>3 DEF Boards, BoardOf
<1>5. h.clock = b.clock /\ h.page = b.page /\ h.dma = dma /\ h.fdc = b.fdc /\ h.image = b.image
  BY <1>3 DEF BoardOf
<1>6. Sound(h) /\ Stayed(b, h)
  BY <1>0, <1>1, <1>4, <1>5 DEF Sound, Stayed, Waited, SameLines
<1>7. Sound(wired) /\ Stayed(b, wired) /\ wired.clock = b.clock
  BY <1>5, <1>6, WiringIsUpdated, RestedStayed, StaysOn, ZenonT(30)
<1> HIDE DEF wired
<1>8. 4 \in 1..6 /\ TRUE \in BOOLEAN
  OBVIOUS
<1>9. Sound(g) /\ Wires(g) /\ Rested(wired, g) /\ g.clock = wired.clock + 4
  BY <1>2, <1>7, <1>8, TimeAdvances
<1> QED  BY <1>7, <1>9, RestedStayed, StaysOn

-----------------------------------------------------------------------------
(* The byte                                                                *)

Memories == [0..7 -> Int]

\* A byte of a sector and a byte of a page are where the transfer puts them.
LEMMA BytesHavePlaces ==
    ASSUME NEW b, Exact(b), Board!Dreq(b.fdc)
    PROVE  /\ Board!MediaOffset(b.fdc) = (b.fdc.sector - 1) * 2 + b.fdc.offset /\ Board!MediaOffset(b.fdc) \in Addresses
           /\ Board!Address(b) = b.page * 4 + b.dma.channels[2].address /\ Board!Address(b) \in 0..7
           /\ b.image.bytes \in Disks /\ b.image.id # 0
           /\ b.dma.channels[2].address \in 0..3 /\ b.dma.channels[2].count \in 0..3 /\ b.page \in {0, 1}
<1>1. /\ b \in Boards /\ AdapterOK(b.fdc) /\ b.dma \in Dmas /\ b.page \in {0, 1} /\ (b.fdc.media <=> b.image.id # 0)
      /\ (b.image.id # 0 => b.image.bytes \in Disks)
  BY DEF Exact, Sound, Boards
<1>2. b.fdc.media /\ b.fdc.sector \in 1..2 /\ b.fdc.offset < 2 /\ b.fdc.offset \in Nat
  BY <1>1 DEF AdapterOK, Sampled, Adapters, Board!Dreq
<1>3. b.dma.channels[2] \in Channels
  BY <1>1 DEF Dmas
<1>4. b.dma.channels[2].address \in 0..3 /\ b.dma.channels[2].count \in 0..3
  BY <1>3 DEF Channels, Addresses
<1>5. Board!MediaOffset(b.fdc) = (b.fdc.sector - 1) * 2 + b.fdc.offset
      /\ Board!Address(b) = b.page * 4 + b.dma.channels[2].address
  BY BoardNumbers DEF Board!MediaOffset, Board!Address
<1>6. (b.fdc.sector - 1) * 2 + b.fdc.offset \in 0..3
  BY <1>2
<1>7. b.page * 4 + b.dma.channels[2].address \in 0..7
  BY <1>1, <1>4
<1> QED  BY <1>1, <1>2, <1>4, <1>5, <1>6, <1>7 DEF Addresses

\* A board with another adapter and DMA controller.
LEMMA BoardIsServed ==
    ASSUME NEW b \in Boards, NEW fdc, NEW dma, NEW h, h = [b EXCEPT !.fdc = fdc, !.dma = dma]
    PROVE  h = BoardOf(b.clock, b.count, b.out, b.output, b.pending, b.line, b.page, dma, fdc, b.image)
BY DEF Boards, BoardOf

\* A byte granted to the diskette moves between memory and image, and time passes.
LEMMA ByteIsGranted ==
    ASSUME NEW b, Exact(b), NEW m \in Memories, Board!Pending(b.dma) = {2}, NEW g, g = Board!GrantByte(b, m)
    PROVE  /\ Sound(g) /\ Wires(g) /\ g.clock = b.clock + 5 /\ g.page = b.page /\ g.image.id = b.image.id
           /\ g.image.bytes = IF Board!Writing(b.fdc)
                              THEN Board!Written(b.image.bytes, Board!MediaOffset(b.fdc), m[Board!Address(b)], Board!Terminal(b))
                              ELSE b.image.bytes
           /\ g.dma.channels[2].address = (b.dma.channels[2].address + 1) % 4
           /\ g.dma.channels[2].count = IF Board!Terminal(b) THEN 3 ELSE b.dma.channels[2].count - 1
           /\ g.fdc.command = b.fdc.command /\ g.fdc.phase \in {"transfer", "result"}
           /\ g.fdc.phase = "transfer" => /\ ~Board!Terminal(b)
                                          /\ Board!MediaOffset(g.fdc) = Board!MediaOffset(b.fdc) + 1
           /\ g.fdc.phase = "result" /\ g.fdc.st1 = 0 => Board!Terminal(b)
<1> DEFINE bytes == IF Board!Writing(b.fdc)
                    THEN Board!Written(b.image.bytes, Board!MediaOffset(b.fdc), m[Board!Address(b)], Board!Terminal(b))
                    ELSE b.image.bytes
           image == [id |-> b.image.id, bytes |-> bytes]
           fdc == Board!AcknowledgeByte(b.fdc, Board!Terminal(b))
           dma == Board!CompleteTransfer(b.dma, 2)
           h == BoardOf(b.clock, b.count, b.out, b.output, b.pending, b.line, b.page, dma, fdc, image)
           wired == Board!UpdateWiring(h, FALSE)
<1>0. b \in Boards /\ Sound(b) /\ b.image \in Images /\ b.dma \in Dmas /\ AdapterOK(b.fdc) /\ ~b.dma.channels[2].reload
      /\ (b.fdc.media <=> b.image.id # 0)
  BY DEF Exact, Sound, Boards
<1>1. Board!Dreq(b.fdc) /\ Board!Terminal(b) \in BOOLEAN
  BY OneIsPending DEF Board!Terminal
<1>2. /\ Board!MediaOffset(b.fdc) \in Addresses /\ Board!Address(b) \in 0..7 /\ b.image.bytes \in Disks /\ b.image.id # 0
  BY <1>1, BytesHavePlaces
<1>3. bytes \in Disks
  <2>1. m[Board!Address(b)] \in Int
    BY <1>2 DEF Memories
  <2>2. Board!Written(b.image.bytes, Board!MediaOffset(b.fdc), m[Board!Address(b)], Board!Terminal(b)) \in Disks
    BY <1>2, <2>1 DEF Board!Written, Disks
  <2> QED  BY <1>2, <2>2
<1>4. /\ AdapterOK(fdc) /\ SameLines(b.fdc, fdc) /\ fdc.command = b.fdc.command /\ fdc.phase \in {"transfer", "result"}
      /\ fdc.phase = "transfer" => /\ ~Board!Terminal(b)
                                   /\ (fdc.sector - 1) * 2 + fdc.offset = (b.fdc.sector - 1) * 2 + b.fdc.offset + 1
      /\ fdc.phase = "result" /\ fdc.st1 = 0 => Board!Terminal(b)
  BY <1>0, <1>1, BytesAreAcknowledged
<1>5. /\ dma \in Dmas /\ ~dma.channels[2].reload
      /\ dma.channels[2].address = (b.dma.channels[2].address + 1) % 4
      /\ dma.channels[2].count = IF Board!Terminal(b) THEN 3 ELSE b.dma.channels[2].count - 1
  BY <1>0, ChannelsComplete DEF Board!Terminal
<1>6. g = Board!Advance(wired, 5, FALSE)
  <2>1. CASE Board!Writing(b.fdc)
    <3>1. [b EXCEPT !.image.bytes = bytes] = BoardOf(b.clock, b.count, b.out, b.output, b.pending, b.line, b.page, b.dma, b.fdc, image)
      <4> HIDE DEF bytes
      <4> QED  BY <1>0 DEF Boards, Images, BoardOf
    <3> DEFINE moved == [b EXCEPT !.image.bytes = bytes]
    <3>2. moved.fdc = b.fdc /\ moved.dma = b.dma
      BY <3>1 DEF BoardOf
    <3>3. [moved EXCEPT !.fdc = Board!AcknowledgeByte(moved.fdc, Board!Terminal(b)), !.dma = Board!CompleteTransfer(moved.dma, 2)] = h
      <4>1. moved \in Boards
        <5>1. image \in Images
          BY <1>0, <1>3 DEF Images
        <5> HIDE DEF moved, image
        <5>2. moved = BoardOf(b.clock, b.count, b.out, b.output, b.pending, b.line, b.page, b.dma, b.fdc, image)
          BY <3>1 DEF moved
        <5> QED  BY <1>0, <5>1, <5>2 DEF Boards, BoardOf
      <4>2. /\ moved.clock = b.clock /\ moved.count = b.count /\ moved.out = b.out /\ moved.output = b.output
            /\ moved.pending = b.pending /\ moved.line = b.line /\ moved.page = b.page /\ moved.image = image
        <5> HIDE DEF image
        <5> QED  BY <3>1 DEF BoardOf
      <4> HIDE DEF moved, image, fdc, dma
      <4>3. [moved EXCEPT !.fdc = fdc, !.dma = dma] = h
        <5> DEFINE served == [moved EXCEPT !.fdc = fdc, !.dma = dma]
        <5>1. served = [moved EXCEPT !.fdc = fdc, !.dma = dma]
          OBVIOUS
        <5> HIDE DEF served
        <5>2. served = BoardOf(moved.clock, moved.count, moved.out, moved.output, moved.pending, moved.line, moved.page,
                               dma, fdc, moved.image)
          BY <4>1, <5>1, BoardIsServed, ZenonT(30)
        <5>3. served = h
          BY <4>2, <5>2
        <5> QED  BY <5>1, <5>3
      <4> QED  BY <3>2, <4>3 DEF fdc, dma
    <3>4. bytes = Board!Written(b.image.bytes, Board!MediaOffset(b.fdc), m[Board!Address(b)], Board!Terminal(b))
      BY <2>1
    <3>5. g = Board!Advance(Board!UpdateWiring([moved EXCEPT !.fdc = Board!AcknowledgeByte(moved.fdc, Board!Terminal(b)),
                                                        !.dma = Board!CompleteTransfer(moved.dma, 2)], FALSE), 5, FALSE)
      BY <2>1, BoardNumbers DEF Board!GrantByte
    <3> HIDE DEF moved, h
    <3> QED  BY <3>3, <3>5
  <2>2. CASE ~Board!Writing(b.fdc)
    <3>1. [b EXCEPT !.fdc = fdc, !.dma = dma] = h
      <4>1. image = b.image
        BY <1>0, <2>2 DEF Images
      <4> HIDE DEF image, fdc, dma
      <4> QED  BY <1>0, <4>1, BoardIsServed, ZenonT(30)
    <3>2. g = Board!Advance(Board!UpdateWiring([b EXCEPT !.fdc = fdc, !.dma = dma], FALSE), 5, FALSE)
      BY <2>2, BoardNumbers DEF Board!GrantByte
    <3> HIDE DEF h, fdc, dma
    <3> QED  BY <3>1, <3>2
  <2> QED  BY <2>1, <2>2
<1>a. image \in Images /\ image.id = b.image.id /\ image.bytes = bytes
  <2> HIDE DEF bytes
  <2> QED  BY <1>0, <1>3 DEF Images
<1> HIDE DEF image, fdc, dma, bytes
<1>7. h \in Boards
  BY <1>0, <1>4, <1>5, <1>a DEF Boards, BoardOf, AdapterOK, Sampled
<1>8. h.clock = b.clock /\ h.page = b.page /\ h.dma = dma /\ h.fdc = fdc /\ h.image = image
  BY DEF BoardOf
<1> HIDE DEF h
<1>9. Sound(h)
  BY <1>0, <1>3, <1>4, <1>5, <1>7, <1>8, <1>a DEF Sound, SameLines
<1>10. Sound(wired) /\ Rested(h, wired) /\ wired.clock = b.clock
  BY <1>8, <1>9, WiringIsUpdated
<1> HIDE DEF wired
<1>11. 5 \in 1..6 /\ FALSE \in BOOLEAN
  OBVIOUS
<1>12. Sound(g) /\ Wires(g) /\ Rested(h, g) /\ g.clock = b.clock + 5
  <2>1. Sound(g) /\ Wires(g) /\ Rested(wired, g) /\ g.clock = wired.clock + 5
    BY <1>6, <1>10, <1>11, TimeAdvances
  <2> QED  BY <1>10, <2>1, RestsOn
<1>13. /\ g.page = b.page /\ g.image = image /\ g.dma.channels = dma.channels /\ g.fdc.phase = fdc.phase
       /\ g.fdc.command = fdc.command /\ g.fdc.sector = fdc.sector /\ g.fdc.offset = fdc.offset /\ g.fdc.st1 = fdc.st1
  BY <1>8, <1>12 DEF Rested, Waited
<1>14. Board!MediaOffset(g.fdc) = (fdc.sector - 1) * 2 + fdc.offset
  BY <1>13, BoardNumbers DEF Board!MediaOffset
<1>15. Board!MediaOffset(b.fdc) = (b.fdc.sector - 1) * 2 + b.fdc.offset
  BY <1>1, BytesHavePlaces
<1> QED  BY <1>4, <1>5, <1>12, <1>13, <1>14, <1>15, <1>a DEF bytes

-----------------------------------------------------------------------------
(* The command under way                                                   *)

Granted == Seq(Nat \X Nat \X Nat)
Jobs == [kind : {"read", "write"}, granted : Granted, sector : Nat, image : Disks \cup {<< >>}, ram : Memories,
         base : Addresses, size : 1..4]
Place(b, j, i) == b.page * 4 + ((j.base + i - 1) % 4)
From(j) == (j.sector - 1) * 2

\* What the channel has left, and which bytes it was granted.
Queued(b, j) ==
    /\ b.dma.channels[2].address = (j.base + Len(j.granted)) % 4
    /\ b.dma.channels[2].count = j.size - 1 - Len(j.granted)
Listed(b, j) == \A i \in 1..Len(j.granted) : j.granted[i] = <<b.image.id, Place(b, j, i), From(j) + i - 1>>
\* What the granted bytes have changed.
ReadSoFar(b, m, j) ==
    b.image.bytes = j.image /\ \A i \in 1..Len(j.granted) : m[Place(b, j, i)] = j.image[From(j) + i - 1]
WrittenSoFar(b, m, j) ==
    /\ m = j.ram
    /\ \A o \in Addresses :
          b.image.bytes[o] = IF o \in From(j)..(From(j) + Len(j.granted) - 1) THEN j.ram[Place(b, j, o - From(j) + 1)]
                             ELSE j.image[o]
Padded(b, m, j) ==
    /\ m = j.ram
    /\ \A o \in Addresses :
          b.image.bytes[o] =
            IF o \in From(j)..(From(j) + Len(j.granted) - 1) THEN j.ram[Place(b, j, o - From(j) + 1)]
            ELSE IF o >= From(j) + Len(j.granted) /\ o \div 2 = (From(j) + Len(j.granted) - 1) \div 2 THEN 0
            ELSE j.image[o]

Searching(b, m, j) ==
    /\ b.fdc.command = j.kind /\ b.fdc.sector = j.sector /\ j.granted = << >> /\ Queued(b, j)
    /\ b.image.bytes = j.image /\ (j.kind = "write" => m = j.ram)
Transferring(b, m, j) ==
    /\ b.fdc.command = j.kind /\ j.sector \in 1..2 /\ j.image \in Disks
    /\ (b.fdc.sector - 1) * 2 + b.fdc.offset = From(j) + Len(j.granted)
    /\ Queued(b, j) /\ Listed(b, j)
    /\ j.kind = "read" => ReadSoFar(b, m, j)
    /\ j.kind = "write" => WrittenSoFar(b, m, j)
\* The last byte was granted.
Finished(b, m, j) ==
    /\ j.sector \in 1..2 /\ j.image \in Disks /\ Len(j.granted) = j.size /\ Listed(b, j)
    /\ j.kind = "read" => ReadSoFar(b, m, j)
    /\ j.kind = "write" => Padded(b, m, j)
JobInv(b, m, j) ==
    \/ j = Board!NoJob
    \/ /\ j \in Jobs
       /\ b.fdc.phase = "search" => Searching(b, m, j)
       /\ b.fdc.phase = "transfer" => Transferring(b, m, j)

\* Nothing was granted, and what happened to the drive lost no byte.
Unmoved(b, g) ==
    /\ g.page = b.page /\ g.image = b.image /\ g.dma.channels[2] = b.dma.channels[2] /\ Quiet(b.fdc, g.fdc)

\* A board that stays lost no byte.
LEMMA StayedUnmoved == ASSUME NEW b, NEW g, Stayed(b, g) PROVE Unmoved(b, g)
BY DEF Stayed, Unmoved, Waited, Quiet
\* Nor does it lose any by staying.
LEMMA UnmovedOn == ASSUME NEW b, NEW g, NEW h, Unmoved(b, g), Stayed(g, h) PROVE Unmoved(b, h)
BY DEF Stayed, Unmoved, Waited, Quiet

\* The sector of the command is under the head.
LEMMA JobsStart ==
    ASSUME NEW m, NEW j \in Jobs, NEW g, Sound(g), Searching(g, m, j), g.fdc.phase = "transfer", g.fdc.offset = 0
    PROVE  Transferring(g, m, j)
<1>1. g.fdc.sector \in 1..2 /\ g.image.bytes \in Disks
  BY DEF Sound, AdapterOK, Sampled
<1>2. Len(j.granted) = 0 /\ j.sector \in 1..2 /\ j.image \in Disks
  BY <1>1 DEF Searching
<1>3. (g.fdc.sector - 1) * 2 + g.fdc.offset = From(j) + Len(j.granted)
  BY <1>1, <1>2 DEF Searching, From
<1>4. Queued(g, j)
  BY DEF Searching
<1>5. Listed(g, j)
  BY <1>2 DEF Listed
<1>6. j.kind = "read" => ReadSoFar(g, m, j)
  BY <1>2 DEF ReadSoFar, Searching
<1>7. j.kind = "write" => WrittenSoFar(g, m, j)
  <2>1. \A o \in Addresses : o \notin From(j)..(From(j) + Len(j.granted) - 1)
    BY <1>2 DEF Addresses, From
  <2> QED  BY <2>1 DEF WrittenSoFar, Searching
<1> QED  BY <1>2, <1>3, <1>4, <1>5, <1>6, <1>7 DEF Transferring, Searching

\* A command under way keeps what it was granted while no byte moves.
LEMMA JobsStay ==
    ASSUME NEW b, NEW m, NEW j, JobInv(b, m, j), Sound(b), NEW g, Sound(g), Unmoved(b, g)
    PROVE  JobInv(g, m, j)
<1>1. CASE j = Board!NoJob
  BY <1>1 DEF JobInv
<1>2. CASE j # Board!NoJob
  <2>1. j \in Jobs /\ (b.fdc.phase = "search" => Searching(b, m, j)) /\ (b.fdc.phase = "transfer" => Transferring(b, m, j))
    BY <1>2 DEF JobInv
  <2>2. g.fdc.phase = "search" => Searching(g, m, j)
    BY <2>1 DEF Unmoved, Quiet, Searching, Queued
  <2>3. ASSUME g.fdc.phase = "transfer" PROVE Transferring(g, m, j)
    <3>1. CASE b.fdc.phase = "transfer"
      <4>1. Transferring(b, m, j) /\ g.fdc.command = b.fdc.command /\ g.fdc.sector = b.fdc.sector /\ g.fdc.offset = b.fdc.offset
            /\ g.image = b.image /\ g.page = b.page /\ g.dma.channels[2] = b.dma.channels[2]
        BY <2>1, <2>3, <3>1 DEF Unmoved, Quiet
      <4> QED  BY <4>1 DEF Transferring, Queued, Listed, ReadSoFar, WrittenSoFar, Place
    <3>2. CASE b.fdc.phase = "search"
      <4>1. /\ Searching(b, m, j) /\ g.fdc.command = b.fdc.command /\ g.fdc.sector = b.fdc.sector /\ g.fdc.offset = 0
            /\ g.image = b.image /\ g.page = b.page /\ g.dma.channels[2] = b.dma.channels[2]
        BY <2>1, <2>3, <3>2 DEF Unmoved, Quiet
      <4>2. Searching(g, m, j)
        BY <4>1 DEF Searching, Queued
      <4> QED  BY <2>1, <2>3, <4>1, <4>2, JobsStart
    <3> QED  BY <2>3, <3>1, <3>2 DEF Unmoved, Quiet
  <2> QED  BY <2>1, <2>2, <2>3 DEF JobInv
<1> QED  BY <1>1, <1>2

\* Four bytes of a page have four places.
LEMMA PlacesDiffer ==
    ASSUME NEW base \in 0..3, NEW i \in 0..3, NEW k \in 0..3, i < k
    PROVE  (base + i) % 4 # (base + k) % 4
OBVIOUS

\* The channel's next address is the place after its last.
LEMMA PlacesFollow ==
    ASSUME NEW base \in 0..3, NEW n \in 0..3 PROVE (((base + n) % 4) + 1) % 4 = (base + (n + 1)) % 4
OBVIOUS

\* The byte the channel asks for is the next of the command, whatever kind it is.
LEMMA JobsAreServed ==
    ASSUME Exact(board), ram \in Memories, JobInv(board, ram, job), job # Board!NoJob,
           ~Board!Refused(board), Board!Pending(board.dma) = {2}, NEW g, g = Board!GrantByte(board, ram)
    PROVE  /\ Board!ServicedRam \in Memories /\ JobInv(g, Board!ServicedRam, Board!ServicedJob)
           /\ Board!ServicedJob = [job EXCEPT !.granted = Board!ServicedJob.granted]
           /\ g.fdc.phase = "result" /\ g.fdc.st1 = 0 => Finished(g, Board!ServicedRam, Board!ServicedJob)
           /\ Board!ServicedJob \in Jobs
<1> DEFINE n == Len(job.granted)
           o == Board!MediaOffset(board.fdc)
           a == Board!Address(board)
           entry == <<board.image.id, a, o>>
           m == Board!ServicedRam
           j == [job EXCEPT !.granted = Append(job.granted, entry)]
<1>1. Board!Dreq(board.fdc) /\ board.fdc.phase = "transfer"
  BY OneIsPending DEF Board!Dreq
<1>2. job \in Jobs /\ Transferring(board, ram, job)
  BY <1>1 DEF JobInv
<1>3. job.granted \in Granted /\ n \in Nat /\ job.base \in 0..3 /\ job.size \in 1..4 /\ job.kind \in {"read", "write"}
      /\ job.ram \in Memories
  BY <1>2 DEF Jobs, Granted, Addresses
<1>4. /\ o = (board.fdc.sector - 1) * 2 + board.fdc.offset /\ o \in 0..3
      /\ a = board.page * 4 + board.dma.channels[2].address /\ a \in 0..7
      /\ board.image.bytes \in Disks /\ board.dma.channels[2].address \in 0..3 /\ board.dma.channels[2].count \in 0..3
      /\ board.page \in {0, 1}
  BY <1>1, BytesHavePlaces DEF Addresses
<1>5. job.sector \in 1..2 /\ job.image \in Disks
  BY <1>2 DEF Transferring
<1>6. From(job) \in 0..3 /\ o = From(job) + n
  BY <1>2, <1>4, <1>5 DEF Transferring, From
<1>7. /\ board.dma.channels[2].address = (job.base + n) % 4 /\ board.dma.channels[2].count = job.size - 1 - n
  BY <1>2 DEF Transferring, Queued
<1>8. n \in 0..3 /\ n < job.size /\ (Board!Terminal(board) <=> n + 1 = job.size)
  <2>1. n \in Nat /\ job.size \in 1..4 /\ job.size - 1 - n \in 0..3
    BY <1>3, <1>4, <1>7
  <2> HIDE DEF n
  <2>2. \A size \in 1..4 : size - 1 - n \in 0..3 => n \in 0..3 /\ n < size /\ (size - 1 - n = 0 <=> n + 1 = size)
    BY <2>1
  <2> QED  BY <1>7, <2>1, <2>2 DEF Board!Terminal
<1>9. a = Place(board, job, n + 1)
  BY <1>3, <1>4, <1>7 DEF Place
<1> HIDE DEF n, o, a, j, m, entry
<1>10. entry \in Nat \X Nat \X Nat /\ entry = <<board.image.id, a, o>>
  <2>1. board.image.id \in Nat
    BY DEF Exact, Sound, Boards, Images
  <2>2. a \in Nat /\ o \in Nat
    <3>1. a \in 0..7 /\ o \in 0..3
      BY <1>4
    <3> QED  BY <3>1
  <2>3. entry = <<board.image.id, a, o>>
    BY DEF entry
  <2> HIDE DEF entry
  <2> QED  BY <2>1, <2>2, <2>3
<1>11. /\ j \in Jobs /\ j.kind = job.kind /\ j.sector = job.sector /\ j.image = job.image /\ j.ram = job.ram
       /\ j.base = job.base /\ j.size = job.size /\ j.granted = Append(job.granted, entry)
  <2>1. Append(job.granted, entry) \in Granted
    BY <1>3, <1>10 DEF Granted
  <2> QED  BY <1>2, <2>1 DEF Jobs, j
<1>12. Len(j.granted) = n + 1 /\ j.granted[n + 1] = entry /\ \A i \in 1..n : j.granted[i] = job.granted[i]
  BY <1>3, <1>10, <1>11 DEF Granted, n
<1>13. Board!ServicedJob = j
  <2>1. job.kind # "none" /\ Board!Granting
    BY <1>3 DEF Board!Granting
  <2> QED  BY <2>1 DEF Board!ServicedJob, j, entry, a, o
<1>14. /\ Sound(g) /\ g.page = board.page /\ g.image.id = board.image.id
       /\ g.image.bytes = IF Board!Writing(board.fdc)
                          THEN Board!Written(board.image.bytes, o, ram[a], Board!Terminal(board))
                          ELSE board.image.bytes
       /\ g.dma.channels[2].address = (board.dma.channels[2].address + 1) % 4
       /\ g.dma.channels[2].count = IF Board!Terminal(board) THEN 3 ELSE board.dma.channels[2].count - 1
       /\ g.fdc.command = board.fdc.command /\ g.fdc.phase \in {"transfer", "result"}
       /\ g.fdc.phase = "transfer" => ~Board!Terminal(board) /\ Board!MediaOffset(g.fdc) = o + 1
       /\ g.fdc.phase = "result" /\ g.fdc.st1 = 0 => Board!Terminal(board)
  BY ByteIsGranted DEF o, a
<1>15. Board!Writing(board.fdc) <=> job.kind = "write"
  BY <1>2 DEF Transferring, Board!Writing
<1>16. m \in Memories /\ (job.kind = "write" => m = ram) /\ (job.kind = "read" => m = [ram EXCEPT ![a] = board.image.bytes[o]])
  <2>1. job.kind = "write" => m = ram
    BY <1>15 DEF m, Board!ServicedRam
  <2>2. job.kind = "read" => m = [ram EXCEPT ![a] = board.image.bytes[o]]
    BY <1>15 DEF m, Board!ServicedRam, Board!Granting, Board!Image, a, o
  <2> DEFINE value == board.image.bytes[o]
             read == [ram EXCEPT ![a] = value]
  <2>3. value \in Int
    BY <1>4 DEF Disks, Addresses
  <2>4. m = ram \/ m = read
    BY <1>3, <2>1, <2>2
  <2> HIDE DEF value
  <2>5. read \in Memories
    BY <1>4, <2>3 DEF Memories
  <2> HIDE DEF read
  <2>6. m \in Memories
    BY <1>4, <2>4, <2>5
  <2> QED  BY <2>1, <2>2, <2>6 DEF read, value
<1>17. From(j) = From(job) /\ \A i : Place(g, j, i) = Place(board, job, i)
  BY <1>11, <1>14 DEF From, Place
<1>18. Listed(g, j)
  <2> SUFFICES ASSUME NEW i \in 1..(n + 1)
               PROVE  j.granted[i] = <<board.image.id, Place(board, job, i), From(job) + i - 1>>
    BY <1>12, <1>14, <1>17 DEF Listed
  <2>1. CASE i = n + 1
    BY <1>6, <1>8, <1>9, <1>10, <1>12, <2>1
  <2>2. CASE i \in 1..n
    BY <1>2, <1>12, <2>2 DEF Transferring, Listed, n
  <2> QED  BY <1>8, <2>1, <2>2
<1>19. job.kind = "read" => ReadSoFar(g, m, j)
  <2> SUFFICES ASSUME job.kind = "read" PROVE ReadSoFar(g, m, j)
    OBVIOUS
  <2>0. m = [ram EXCEPT ![a] = board.image.bytes[o]] /\ DOMAIN ram = 0..7
    BY <1>16 DEF Memories
  <2>1. board.image.bytes = job.image /\ \A i \in 1..n : ram[Place(board, job, i)] = job.image[From(job) + i - 1]
    BY <1>2 DEF Transferring, ReadSoFar, n
  <2>2. g.image.bytes = job.image
    BY <1>14, <1>15, <2>1
  <2>3. ASSUME NEW i \in 1..(n + 1) PROVE m[Place(board, job, i)] = job.image[From(job) + i - 1]
    <3>1. CASE i = n + 1
      <4>1. m[a] = board.image.bytes[o]
        BY <1>4, <2>0
      <4> QED  BY <1>6, <1>8, <1>9, <2>1, <3>1, <4>1
    <3>2. CASE i \in 1..n
      <4>1. Place(board, job, i) # a
        <5>1. (job.base + (i - 1)) % 4 # (job.base + n) % 4
          <6>1. i - 1 \in 0..3 /\ i - 1 < n
            BY <1>8, <3>2
          <6> QED  BY <1>3, <1>8, <6>1, PlacesDiffer
        <5>2. job.base + (i - 1) = job.base + i - 1 /\ job.base + (n + 1) - 1 = job.base + n
          BY <1>3, <1>8, <3>2
        <5>3. (job.base + i - 1) % 4 \in 0..3 /\ (job.base + (n + 1) - 1) % 4 \in 0..3
          BY <1>3, <1>8, <3>2
        <5> QED  BY <1>4, <1>9, <5>1, <5>2, <5>3 DEF Place
      <4>2. m[Place(board, job, i)] = ram[Place(board, job, i)]
        <5>1. (job.base + i - 1) % 4 \in 0..3
          BY <1>3, <1>8, <3>2
        <5>2. Place(board, job, i) \in 0..7
          BY <1>4, <5>1 DEF Place
        <5> QED  BY <2>0, <4>1, <5>2
      <4> QED  BY <2>1, <3>2, <4>2
    <3> QED  BY <1>8, <3>1, <3>2
  <2> QED  BY <1>11, <1>12, <1>17, <2>2, <2>3 DEF ReadSoFar
<1>20. ASSUME job.kind = "write" PROVE /\ m = j.ram
                                       /\ ~Board!Terminal(board) => WrittenSoFar(g, m, j)
                                       /\ Board!Terminal(board) => Padded(g, m, j)
  <2>1. ram = job.ram /\ \A k \in Addresses :
            board.image.bytes[k] = IF k \in From(job)..(From(job) + n - 1) THEN job.ram[Place(board, job, k - From(job) + 1)]
                                   ELSE job.image[k]
    BY <1>2, <1>20 DEF Transferring, WrittenSoFar, n
  <2>2. m = j.ram
    BY <1>11, <1>16, <1>20, <2>1
  <2>3. DOMAIN board.image.bytes = Addresses
    BY <1>4 DEF Disks
  <2>4. \A k \in Addresses :
            g.image.bytes[k] = IF k = o THEN ram[a]
                               ELSE IF Board!Terminal(board) /\ k > o /\ k \div 2 = o \div 2 THEN 0 ELSE board.image.bytes[k]
    BY <1>14, <1>15, <1>20, <2>3, BoardNumbers DEF Board!Written
  <2>5. \A k \in Addresses : k \in From(job)..(From(job) + n) <=> k = o \/ k \in From(job)..(From(job) + n - 1)
    BY <1>6, <1>8 DEF Addresses
  <2>6. From(j) + Len(j.granted) - 1 = From(job) + n
    BY <1>6, <1>8, <1>12, <1>17
  <2>7. ram[a] = job.ram[Place(board, job, o - From(job) + 1)]
    <3>1. o - From(job) + 1 = n + 1
      BY <1>6, <1>8
    <3> QED  BY <1>9, <2>1, <3>1
  <2>8. Board!Terminal(board) \in BOOLEAN
    BY DEF Board!Terminal
  <2>9. CASE ~Board!Terminal(board)
    <3>1. ASSUME NEW k \in Addresses
          PROVE  g.image.bytes[k] = IF k \in From(job)..(From(job) + n) THEN job.ram[Place(board, job, k - From(job) + 1)]
                                    ELSE job.image[k]
      BY <2>1, <2>4, <2>5, <2>7, <2>9
    <3>2. WrittenSoFar(g, m, j)
      BY <1>11, <1>17, <2>2, <2>6, <3>1 DEF WrittenSoFar
    <3> QED  BY <2>2, <2>9, <3>2
  <2>10. CASE Board!Terminal(board)
    <3>1. ASSUME NEW k \in Addresses
          PROVE  g.image.bytes[k] = IF k \in From(job)..(From(job) + n) THEN job.ram[Place(board, job, k - From(job) + 1)]
                                    ELSE IF k >= From(job) + n + 1 /\ k \div 2 = (From(job) + n) \div 2 THEN 0
                                    ELSE job.image[k]
      <4>1. k \notin From(job)..(From(job) + n) => (k > o <=> k >= From(job) + n + 1)
        BY <1>6, <1>8 DEF Addresses
      <4>2. CASE k = o
        BY <2>4, <2>5, <2>7, <4>2
      <4>3. CASE k # o /\ k \in From(job)..(From(job) + n - 1)
        <5>1. ~(k > o) /\ k \in From(job)..(From(job) + n)
          BY <1>6, <1>8, <2>5, <4>3 DEF Addresses
        <5>2. g.image.bytes[k] = board.image.bytes[k]
          BY <2>4, <4>3, <5>1
        <5> QED  BY <2>1, <4>3, <5>1, <5>2
      <4>4. CASE k # o /\ k \notin From(job)..(From(job) + n - 1)
        <5>1. k \notin From(job)..(From(job) + n) /\ board.image.bytes[k] = job.image[k]
          BY <2>1, <2>5, <4>4
        <5>2. g.image.bytes[k] = IF k > o /\ k \div 2 = o \div 2 THEN 0 ELSE job.image[k]
          BY <2>4, <2>10, <4>4, <5>1
        <5> QED  BY <1>6, <4>1, <5>1, <5>2
      <4> QED  BY <4>2, <4>3, <4>4
    <3>2. From(j) + Len(j.granted) = From(job) + n + 1
      BY <1>6, <1>8, <1>12, <1>17
    <3>3. Padded(g, m, j)
      BY <1>11, <1>17, <2>2, <2>6, <3>1, <3>2 DEF Padded
    <3> QED  BY <2>2, <2>10, <3>3
  <2> QED  BY <2>8, <2>9, <2>10
<1>21. g.fdc.phase = "transfer" => Transferring(g, m, j)
  <2> SUFFICES ASSUME g.fdc.phase = "transfer" PROVE Transferring(g, m, j)
    OBVIOUS
  <2>1. ~Board!Terminal(board) /\ Board!MediaOffset(g.fdc) = o + 1
    BY <1>14
  <2>2. (g.fdc.sector - 1) * 2 + g.fdc.offset = From(j) + Len(j.granted)
    BY <1>6, <1>8, <1>12, <1>17, <2>1, BoardNumbers DEF Board!MediaOffset
  <2>3. Queued(g, j)
    <3>1. g.dma.channels[2].address = (job.base + (n + 1)) % 4
      BY <1>3, <1>7, <1>8, <1>14, PlacesFollow
    <3>2. g.dma.channels[2].count = job.size - 1 - (n + 1)
      BY <1>3, <1>7, <1>8, <1>14, <2>1
    <3> QED  BY <1>11, <1>12, <3>1, <3>2 DEF Queued
  <2>4. g.fdc.command = j.kind
    BY <1>2, <1>11, <1>14 DEF Transferring
  <2> QED  BY <1>5, <1>11, <1>18, <1>19, <1>20, <2>1, <2>2, <2>3, <2>4 DEF Transferring
<1>22. g.fdc.phase = "result" /\ g.fdc.st1 = 0 => Finished(g, m, j)
  BY <1>5, <1>8, <1>11, <1>12, <1>14, <1>18, <1>19, <1>20 DEF Finished
<1>23. JobInv(g, m, j)
  BY <1>11, <1>14, <1>21 DEF JobInv
<1>24. j = [job EXCEPT !.granted = j.granted]
  BY <1>11 DEF j
<1> QED  BY <1>11, <1>13, <1>16, <1>22, <1>23, <1>24 DEF m

-----------------------------------------------------------------------------
(* The program's ports                                                     *)

\* All but the channels and the adapter.
SameBoard(b, g) == g.clock = b.clock /\ g.page = b.page /\ g.image = b.image

\* A board with another adapter.
LEMMA AdaptersChange ==
    ASSUME NEW b, Sound(b), NEW fdc, AdapterOK(fdc), fdc.media = b.fdc.media, NEW h, h = [b EXCEPT !.fdc = fdc]
    PROVE  Sound(h) /\ SameBoard(b, h) /\ h.fdc = fdc /\ h.dma = b.dma
<1>1. b \in Boards /\ fdc \in Adapters
  BY DEF Sound, AdapterOK, Sampled
<1>2. h = BoardOf(b.clock, b.count, b.out, b.output, b.pending, b.line, b.page, b.dma, fdc, b.image)
  BY <1>1 DEF Boards, BoardOf
<1>3. h \in Boards
  BY <1>1, <1>2 DEF Boards, BoardOf
<1>4. SameBoard(b, h) /\ h.fdc = fdc /\ h.dma = b.dma
  BY <1>2 DEF BoardOf, SameBoard
<1> QED  BY <1>3, <1>4 DEF Sound, SameBoard

\* A board with another DMA controller.
LEMMA ChipsChange ==
    ASSUME NEW b, Sound(b), NEW dma \in Dmas, ~dma.channels[2].reload, NEW h, h = [b EXCEPT !.dma = dma]
    PROVE  Sound(h) /\ SameBoard(b, h) /\ h.fdc = b.fdc /\ h.dma = dma
<1>1. b \in Boards
  BY DEF Sound
<1>2. h = BoardOf(b.clock, b.count, b.out, b.output, b.pending, b.line, b.page, dma, b.fdc, b.image)
  BY <1>1 DEF Boards, BoardOf
<1>3. h \in Boards
  BY <1>1, <1>2 DEF Boards, BoardOf
<1>4. SameBoard(b, h) /\ h.fdc = b.fdc /\ h.dma = dma
  BY <1>2 DEF BoardOf, SameBoard
<1> QED  BY <1>3, <1>4 DEF Sound, SameBoard

\* A board with another page.
LEMMA PagesChange ==
    ASSUME NEW b, Sound(b), NEW h, h = [b EXCEPT !.page = 1]
    PROVE  Sound(h) /\ h.clock = b.clock /\ h.image = b.image /\ h.fdc = b.fdc /\ h.dma = b.dma
<1>1. b \in Boards
  BY DEF Sound
<1>2. h = BoardOf(b.clock, b.count, b.out, b.output, b.pending, b.line, 1, b.dma, b.fdc, b.image)
  BY <1>1 DEF Boards, BoardOf
<1>3. h \in Boards
  BY <1>1, <1>2 DEF Boards, BoardOf
<1>4. h.clock = b.clock /\ h.image = b.image /\ h.fdc = b.fdc /\ h.dma = b.dma
  BY <1>2 DEF BoardOf
<1> QED  BY <1>3, <1>4 DEF Sound

\* A board with another channel.
LEMMA ChannelsChange ==
    ASSUME NEW b, Sound(b), NEW channel \in Channels, ~channel.reload, NEW h, h = [b EXCEPT !.dma.channels[2] = channel]
    PROVE  Sound(h) /\ SameBoard(b, h) /\ h.fdc = b.fdc
<1> DEFINE channels == [b.dma.channels EXCEPT ![2] = channel]
           dma == DmaOf(channels, b.dma.levels, b.dma.terminal)
<1>1. b \in Boards /\ b.dma \in Dmas /\ b.dma.channels \in [{0, 2} -> Channels]
  BY DEF Sound, Boards, Dmas
<1>2. channels \in [{0, 2} -> Channels] /\ channels[2] = channel
  BY <1>1
<1>3. [b.dma EXCEPT !.channels = channels] = dma
  <2> HIDE DEF channels
  <2> QED  BY <1>1 DEF Dmas, DmaOf
<1>4. h = [b EXCEPT !.dma = dma]
  <2>1. h = [b EXCEPT !.dma = [b.dma EXCEPT !.channels = channels]]
    BY <1>1 DEF Boards, Dmas
  <2> HIDE DEF dma
  <2> QED  BY <1>3, <2>1
<1> HIDE DEF channels
<1>5. dma \in Dmas /\ ~dma.channels[2].reload
  BY <1>1, <1>2 DEF Dmas, DmaOf
<1> HIDE DEF dma
<1> QED  BY <1>4, <1>5, ChipsChange

\* Access(b, port) without its wiring.
Touched(b, port) ==
      CASE port[1] = "dma" -> [b EXCEPT !.dma.channels[2] = Board!Channel(port[2], port[3], port[4], FALSE)]
        [] port[1] = "mask" -> [b EXCEPT !.dma.channels[2].masked = ~@]
        [] port[1] = "status" -> [b EXCEPT !.dma.terminal = {}]
        [] port[1] = "page" -> [b EXCEPT !.page = 1]
        [] port[1] = "control" -> [b EXCEPT !.fdc = Board!WriteControl(@, port[2], port[3], port[4])]
        [] port[1] = "command" ->
             [b EXCEPT !.fdc = Board!FindSector([@ EXCEPT !.phase = "search", !.command = port[2], !.sector = port[3], !.last = port[4]])]
        [] port[1] = "result" -> [b EXCEPT !.fdc.phase = "idle", !.fdc.interrupt = FALSE]
        [] port[1] = "sense" -> [b EXCEPT !.fdc.phase = "result", !.fdc.interrupt = FALSE]

\* What a port does to a sound board.
Accessed(b, g, port) ==
    /\ g.clock = b.clock /\ g.image = b.image
    /\ port[1] \notin {"dma", "mask", "page"} => g.page = b.page /\ g.dma.channels[2] = b.dma.channels[2]
    /\ port[1] \notin {"dma", "mask", "page", "command"} => Quiet(b.fdc, g.fdc)
    /\ port[1] = "command" =>
          /\ b.fdc.phase = "idle" /\ g.fdc.command = port[2]
          /\ g.fdc.phase \in {"transfer", "search"} => g.fdc.sector = port[3]
          /\ g.fdc.phase = "transfer" => g.fdc.offset = 0

\* An adapter in another phase, without its interrupt.
LEMMA PhaseIsSet ==
    ASSUME NEW f \in Adapters, NEW phase, NEW g, g = [f EXCEPT !.phase = phase, !.interrupt = FALSE]
    PROVE  g = Adapter(phase, f.command, f.sector, f.last, f.offset, f.delay, f.st1, FALSE, f.resetting, f)
BY DEF Adapters, Adapter

\* A command looks for its sector.
LEMMA SectorIsAsked ==
    ASSUME NEW f \in Adapters, NEW command, NEW sector, NEW last,
           NEW g, g = [f EXCEPT !.phase = "search", !.command = command, !.sector = sector, !.last = last]
    PROVE  g = Adapter("search", command, sector, last, f.offset, f.delay, f.st1, f.interrupt, f.resetting, f)
BY DEF Adapters, Adapter

\* An adapter left alone moved no byte.
LEMMA SelfQuiet == ASSUME NEW f PROVE Quiet(f, f)
BY DEF Quiet

\* What each port does before the lines are wired.
LEMMA ProgramsTouch ==
    ASSUME NEW b, Sound(b), NEW port \in Board!Ports, Board!Possible(b, port), NEW g, g = Touched(b, port)
    PROVE  Sound(g) /\ Accessed(b, g, port)
<1>0. b \in Boards /\ b.dma \in Dmas /\ AdapterOK(b.fdc) /\ b.fdc \in Adapters /\ b.dma.channels[2] \in Channels
      /\ ~b.dma.channels[2].reload
  BY DEF Sound, Boards, Dmas
<1>1. CASE port[1] = "dma"
  <2>1. port[2] \in {"read", "write"} /\ port[3] \in {0, 3} /\ port[4] \in {0, 2, 3}
    BY <1>1 DEF Board!Ports
  <2> DEFINE channel == Board!Channel(port[2], port[3], port[4], FALSE)
  <2>2. channel \in Channels /\ ~channel.reload
    BY <2>1 DEF Board!Channel, Channels, Addresses, Modes
  <2>3. g = [b EXCEPT !.dma.channels[2] = channel]
    BY <1>1 DEF Touched
  <2> HIDE DEF channel
  <2>4. Sound(g) /\ SameBoard(b, g) /\ g.fdc = b.fdc
    BY <2>2, <2>3, ChannelsChange
  <2> QED  BY <1>1, <2>4 DEF Accessed, SameBoard
<1>2. CASE port[1] = "mask"
  <2> DEFINE channel == [b.dma.channels[2] EXCEPT !.masked = ~b.dma.channels[2].masked]
  <2>2. channel \in Channels /\ ~channel.reload
    BY <1>0 DEF Channels
  <2>3. g = [b EXCEPT !.dma.channels[2].masked = ~@]
    BY <1>2 DEF Touched
  <2>4. g = [b EXCEPT !.dma.channels[2] = channel]
    BY <1>0, <2>3 DEF Boards, Dmas
  <2> HIDE DEF channel
  <2>5. Sound(g) /\ SameBoard(b, g) /\ g.fdc = b.fdc
    BY <2>2, <2>4, ChannelsChange
  <2> QED  BY <1>2, <2>5 DEF Accessed, SameBoard
<1>3. CASE port[1] = "status"
  <2> DEFINE dma == [b.dma EXCEPT !.terminal = {}]
  <2>1. dma \in Dmas /\ dma.channels = b.dma.channels
    BY <1>0 DEF Dmas
  <2>2. g = [b EXCEPT !.dma.terminal = {}]
    BY <1>3 DEF Touched
  <2>3. g = [b EXCEPT !.dma = dma]
    BY <1>0, <2>2 DEF Boards, Dmas
  <2> HIDE DEF dma
  <2>4. Sound(g) /\ SameBoard(b, g) /\ g.fdc = b.fdc /\ g.dma = dma
    BY <1>0, <2>1, <2>3, ChipsChange
  <2> QED  BY <1>3, <2>1, <2>4, SelfQuiet DEF Accessed, SameBoard
<1>4. CASE port[1] = "page"
  <2>1. g = [b EXCEPT !.page = 1]
    BY <1>4 DEF Touched
  <2>2. Sound(g) /\ g.clock = b.clock /\ g.image = b.image
    BY <2>1, PagesChange
  <2> QED  BY <1>4, <2>2 DEF Accessed
<1>5. CASE port[1] = "control"
  <2>1. port[2] \in BOOLEAN /\ port[3] \in BOOLEAN /\ port[4] \in BOOLEAN
    BY <1>5 DEF Board!Ports
  <2> DEFINE fdc == Board!WriteControl(b.fdc, port[2], port[3], port[4])
  <2>2. AdapterOK(fdc) /\ Quiet(b.fdc, fdc) /\ fdc.media = b.fdc.media
    <3> DEFINE on == port[2]
               gate == port[3]
               motor == port[4]
    <3>1. on \in BOOLEAN /\ gate \in BOOLEAN /\ motor \in BOOLEAN /\ fdc = Board!WriteControl(b.fdc, on, gate, motor)
      BY <2>1
    <3> HIDE DEF on, gate, motor, fdc
    <3> QED  BY <1>0, <3>1, ControlIsWritten, ZenonT(30)
  <2>3. g = [b EXCEPT !.fdc = fdc]
    BY <1>5 DEF Touched
  <2> HIDE DEF fdc
  <2>4. Sound(g) /\ SameBoard(b, g) /\ g.fdc = fdc /\ g.dma = b.dma
    BY <2>2, <2>3, AdaptersChange
  <2> QED  BY <1>5, <2>2, <2>4 DEF Accessed, SameBoard
<1>6. CASE port[1] = "command"
  <2>1. port[2] \in {"read", "write"} /\ port[3] \in {1, 3} /\ port[4] \in {1, 2}
    BY <1>6 DEF Board!Ports
  <2>2. b.fdc.phase = "idle" /\ ~b.fdc.interrupt /\ b.fdc.on /\ b.fdc.resetting = 0
    BY <1>6 DEF Board!Possible, Board!Ready
  <2>3. b.fdc.offset = 0 /\ b.fdc.delay = 0 /\ (b.fdc.writable => b.fdc.media)
    BY <1>0, <2>2 DEF AdapterOK, Sampled
  <2> DEFINE asked == [b.fdc EXCEPT !.phase = "search", !.command = port[2], !.sector = port[3], !.last = port[4]]
             fdc == Board!FindSector(asked)
  <2>4. asked = Adapter("search", port[2], port[3], port[4], b.fdc.offset, b.fdc.delay, b.fdc.st1, b.fdc.interrupt,
                        b.fdc.resetting, b.fdc)
    BY <1>0, SectorIsAsked, ZenonT(30)
  <2>a. port[3] \in Nat /\ port[4] \in Nat /\ port[2] \in Commands
    BY <2>1 DEF Commands
  <2>5. Seeking(asked) /\ asked.command = port[2] /\ asked.sector = port[3] /\ SameLines(b.fdc, asked)
    <3> HIDE DEF asked
    <3>1. asked \in Adapters
      BY <1>0, <2>4, <2>a DEF Adapters, Adapter, Phases
    <3>2. /\ asked.phase = "search" /\ asked.interrupt = b.fdc.interrupt /\ asked.resetting = b.fdc.resetting
          /\ SameLines(b.fdc, asked) /\ asked.offset = b.fdc.offset /\ asked.delay = b.fdc.delay
          /\ asked.command = port[2] /\ asked.sector = port[3]
      BY <2>4 DEF Adapter, SameLines
    <3> QED  BY <2>2, <2>3, <3>1, <3>2 DEF Seeking, SameLines
  <2>6. g = [b EXCEPT !.fdc = fdc]
    BY <1>6 DEF Touched
  <2> HIDE DEF asked
  <2>7. /\ AdapterOK(fdc) /\ SameLines(asked, fdc) /\ fdc.command = port[2]
        /\ fdc.phase \in {"transfer", "search"} => fdc.sector = port[3]
        /\ fdc.phase = "transfer" => fdc.offset = 0
    BY <2>5, SectorsAreFound
  <2> HIDE DEF fdc
  <2>8. Sound(g) /\ SameBoard(b, g) /\ g.fdc = fdc /\ g.dma = b.dma
    BY <2>5, <2>6, <2>7, AdaptersChange DEF SameLines
  <2> QED  BY <1>6, <2>2, <2>7, <2>8 DEF Accessed, SameBoard
<1>7. CASE port[1] = "result"
  <2>1. b.fdc.phase = "result"
    BY <1>7 DEF Board!Possible
  <2> DEFINE fdc == [b.fdc EXCEPT !.phase = "idle", !.interrupt = FALSE]
  <2>2. fdc = Adapter("idle", b.fdc.command, b.fdc.sector, b.fdc.last, b.fdc.offset, b.fdc.delay, b.fdc.st1, FALSE,
                      b.fdc.resetting, b.fdc)
    BY <1>0, PhaseIsSet, ZenonT(30)
  <2>3. g = [b EXCEPT !.fdc = fdc]
    <3>1. g = [b EXCEPT !.fdc.phase = "idle", !.fdc.interrupt = FALSE]
      BY <1>7 DEF Touched
    <3> QED  BY <1>0, <3>1 DEF Boards
  <2> HIDE DEF fdc
  <2>4. fdc \in Adapters /\ fdc.phase = "idle" /\ ~fdc.interrupt /\ fdc.resetting = b.fdc.resetting /\ SameLines(b.fdc, fdc)
        /\ fdc.offset = b.fdc.offset /\ fdc.delay = b.fdc.delay
    BY <1>0, <2>2 DEF Adapters, Adapter, Phases, SameLines
  <2>5. AdapterOK(fdc) /\ Quiet(b.fdc, fdc)
    BY <1>0, <2>1, <2>4 DEF AdapterOK, Sampled, SameLines, Quiet
  <2>6. Sound(g) /\ SameBoard(b, g) /\ g.fdc = fdc /\ g.dma = b.dma
    BY <2>3, <2>4, <2>5, AdaptersChange DEF SameLines
  <2> QED  BY <1>7, <2>5, <2>6 DEF Accessed, SameBoard
<1>8. CASE port[1] = "sense"
  <2>1. b.fdc.phase = "idle" /\ b.fdc.on /\ b.fdc.resetting = 0
    BY <1>8 DEF Board!Possible, Board!Ready
  <2> DEFINE fdc == [b.fdc EXCEPT !.phase = "result", !.interrupt = FALSE]
  <2>2. fdc = Adapter("result", b.fdc.command, b.fdc.sector, b.fdc.last, b.fdc.offset, b.fdc.delay, b.fdc.st1, FALSE,
                      b.fdc.resetting, b.fdc)
    BY <1>0, PhaseIsSet, ZenonT(30)
  <2>3. g = [b EXCEPT !.fdc = fdc]
    <3>1. g = [b EXCEPT !.fdc.phase = "result", !.fdc.interrupt = FALSE]
      BY <1>8 DEF Touched
    <3> QED  BY <1>0, <3>1 DEF Boards
  <2> HIDE DEF fdc
  <2>4. fdc \in Adapters /\ fdc.phase = "result" /\ ~fdc.interrupt /\ fdc.resetting = b.fdc.resetting /\ SameLines(b.fdc, fdc)
        /\ fdc.offset = b.fdc.offset /\ fdc.delay = b.fdc.delay
    BY <1>0, <2>2 DEF Adapters, Adapter, Phases, SameLines
  <2>5. AdapterOK(fdc) /\ Quiet(b.fdc, fdc)
    BY <1>0, <2>1, <2>4 DEF AdapterOK, Sampled, SameLines, Quiet
  <2>6. Sound(g) /\ SameBoard(b, g) /\ g.fdc = fdc /\ g.dma = b.dma
    BY <2>3, <2>4, <2>5, AdaptersChange DEF SameLines
  <2> QED  BY <1>8, <2>5, <2>6 DEF Accessed, SameBoard
<1>9. port[1] \in {"dma", "command", "control", "mask", "result", "sense", "status", "page"}
  BY DEF Board!Ports
<1> QED  BY <1>1, <1>2, <1>3, <1>4, <1>5, <1>6, <1>7, <1>8, <1>9

\* And after.
LEMMA ProgramsAccess ==
    ASSUME NEW b, Sound(b), NEW port \in Board!Ports, Board!Possible(b, port), NEW g, g = Board!Access(b, port)
    PROVE  Sound(g) /\ Wires(g) /\ Accessed(b, g, port)
<1> DEFINE h == Touched(b, port)
<1>1. g = Board!UpdateWiring(h, FALSE)
  BY DEF Board!Access, Touched
<1>2. Sound(h) /\ Accessed(b, h, port)
  BY ProgramsTouch
<1> HIDE DEF h
<1>3. Sound(g) /\ Wires(g) /\ Rested(h, g) /\ g.clock = h.clock /\ g.fdc = h.fdc
  BY <1>1, <1>2, WiringIsUpdated
<1> QED  BY <1>2, <1>3 DEF Accessed, Rested

-----------------------------------------------------------------------------
(* The board's steps                                                       *)

\* Time that passes within the bound of the clock leaves the board exact.
LEMMA TimeIsCapped ==
    ASSUME NEW b, Exact(b), NEW clocks \in 1..6, NEW g, g = Board!Timed(b, clocks)
    PROVE  Exact(g) /\ Stayed(b, g) /\ g.clock >= b.clock
<1>0. b.clock \in Nat /\ Sound(b) /\ Wires(b) /\ b.clock <= MaxClock /\ MaxClock \in Nat
  BY ClockAssumption DEF Exact, Sound, Boards
<1>1. CASE b.clock + clocks > MaxClock
  <2>1. g = b
    BY <1>1 DEF Board!Timed
  <2> QED  BY <1>0, <2>1 DEF Exact, Stayed, Waited, SameLines
<1>2. CASE ~(b.clock + clocks > MaxClock)
  <2>1. g = Board!Advance(b, clocks, FALSE)
    BY <1>2 DEF Board!Timed
  <2>2. Sound(g) /\ Wires(g) /\ Rested(b, g) /\ g.clock = b.clock + clocks
    <3>1. FALSE \in BOOLEAN
      OBVIOUS
    <3> QED  BY <1>0, <2>1, <3>1, TimeAdvances
  <2>3. g.clock <= MaxClock /\ g.clock >= b.clock
    BY <1>0, <1>2, <2>2
  <2> QED  BY <2>2, <2>3, RestedStayed DEF Exact
<1> QED  BY <1>1, <1>2

\* The job is the same one, with the bytes granted since.
Continued(j) == j = Board!NoJob \/ (j \in Jobs /\ job \in Jobs /\ j = [job EXCEPT !.granted = j.granted])

\* No command is of neither kind.
LEMMA NoJobIsNone == Board!NoJob.kind = "none" /\ \A j \in Jobs : j.kind # "none"
BY DEF Board!NoJob, Jobs

\* At most one transfer is granted, and nothing else changes.
LEMMA BoardIsServiced ==
    ASSUME Exact(board), ram \in Memories, JobInv(board, ram, job), ~Board!Refused(board), NEW g, g = Board!Serviced
    PROVE  /\ Exact(g) /\ Board!ServicedRam \in Memories /\ JobInv(g, Board!ServicedRam, Board!ServicedJob)
           /\ g.clock >= board.clock /\ (Board!Pending(board.dma) # {} => g.clock > board.clock)
           /\ g.image.id = board.image.id
           /\ Continued(Board!ServicedJob)
           /\ g.fdc.phase = "idle" => Board!ServicedRam = ram
           /\ board.fdc.phase = "transfer" => g.fdc.phase \in {"transfer", "result"}
           /\ board.fdc.phase = "transfer" /\ g.fdc.phase = "result" /\ g.fdc.st1 = 0 /\ Board!ServicedJob # Board!NoJob =>
                Finished(g, Board!ServicedRam, Board!ServicedJob)
<1>0. board.clock \in Nat /\ Sound(board) /\ Wires(board) /\ board.clock <= MaxClock /\ MaxClock \in Nat
  BY ClockAssumption DEF Exact, Sound, Boards
<1>1. job = Board!NoJob \/ job \in Jobs
  BY DEF JobInv
<1>2. ASSUME job \in Jobs PROVE job = [job EXCEPT !.granted = job.granted]
  BY <1>2 DEF Jobs
<1>3. CASE Board!Pending(board.dma) = {}
  <2>1. g = board /\ Board!ServicedRam = ram /\ Board!ServicedJob = job
    BY <1>3 DEF Board!Serviced, Board!ServicedRam, Board!ServicedJob, Board!Granting
  <2>2. g.fdc.phase = board.fdc.phase
    BY <2>1
  <2> QED  BY <1>0, <1>1, <1>2, <1>3, <2>1, <2>2 DEF Continued
<1>4. CASE Board!Pending(board.dma) = {0}
  <2>1. Board!ServicedRam = ram /\ Board!ServicedJob = job /\ g = Board!GrantRefresh(board)
    <3>1. {0} # {2} /\ {0} # {}
      OBVIOUS
    <3> QED  BY <1>4, <3>1 DEF Board!Serviced, Board!ServicedRam, Board!ServicedJob, Board!Granting
  <2>2. Sound(g) /\ Wires(g) /\ Stayed(board, g) /\ g.clock = board.clock + 4
    BY <2>1, RefreshIsGranted
  <2>3. ~(board.clock + 4 > MaxClock)
    <3>1. {0} # {}
      OBVIOUS
    <3> QED  BY <1>4, <3>1, BoardNumbers DEF Board!Refused
  <2>4. Exact(g) /\ g.clock > board.clock
    BY <1>0, <2>2, <2>3 DEF Exact
  <2>5. JobInv(g, ram, job)
    BY <1>0, <2>2, JobsStay, StayedUnmoved
  <2>6. g.fdc.phase = board.fdc.phase /\ g.image = board.image
    BY <2>2 DEF Stayed, Waited
  <2>7. Continued(Board!ServicedJob)
    BY <1>1, <1>2, <2>1 DEF Continued
  <2>8. JobInv(g, Board!ServicedRam, Board!ServicedJob)
    BY <2>1, <2>5
  <2>9. g.clock >= board.clock
    BY <1>0, <2>2
  <2> QED  BY <2>1, <2>4, <2>6, <2>7, <2>8, <2>9
<1>5. CASE Board!Pending(board.dma) = {2}
  <2>0. {2} # {0} /\ {2} # {}
    OBVIOUS
  <2>1. g = Board!GrantByte(board, ram)
    BY <1>5, <2>0 DEF Board!Serviced
  <2>2. Sound(g) /\ Wires(g) /\ g.clock = board.clock + 5 /\ g.fdc.phase \in {"transfer", "result"} /\ g.image.id = board.image.id
    BY <1>5, <2>1, ByteIsGranted
  <2>3. ~(board.clock + 5 > MaxClock)
    BY <1>5, <2>0, BoardNumbers DEF Board!Refused
  <2>4. Exact(g) /\ g.clock > board.clock
    BY <1>0, <2>2, <2>3 DEF Exact
  <2>5. CASE job = Board!NoJob
    <3>1. Board!ServicedJob = job
      BY <2>5, NoJobIsNone DEF Board!ServicedJob
    <3>2. Board!ServicedRam \in Memories
      <4>1. Board!Dreq(board.fdc)
        BY <1>5, OneIsPending
      <4>2. Board!MediaOffset(board.fdc) \in Addresses /\ board.image.bytes \in Disks
        BY <4>1, BytesHavePlaces
      <4>3. board.image.bytes[Board!MediaOffset(board.fdc)] \in Int
        BY <4>2 DEF Disks
      <4> QED  BY <4>3 DEF Board!ServicedRam, Board!Image, Memories
    <3>3. JobInv(g, Board!ServicedRam, Board!ServicedJob)
      BY <2>5, <3>1 DEF JobInv
    <3> QED  BY <1>0, <2>2, <2>4, <2>5, <3>1, <3>2, <3>3 DEF Continued
  <2>6. CASE job # Board!NoJob
    <3>1. /\ Board!ServicedRam \in Memories /\ JobInv(g, Board!ServicedRam, Board!ServicedJob)
          /\ Board!ServicedJob = [job EXCEPT !.granted = Board!ServicedJob.granted]
          /\ g.fdc.phase = "result" /\ g.fdc.st1 = 0 => Finished(g, Board!ServicedRam, Board!ServicedJob)
          /\ Board!ServicedJob \in Jobs
      BY <1>5, <2>1, <2>6, JobsAreServed
    <3> QED  BY <1>0, <1>1, <2>2, <2>4, <2>6, <3>1 DEF Continued
  <2> QED  BY <2>5, <2>6
<1> QED  BY <1>3, <1>4, <1>5, OneIsPending

\* A finished command depends on the disk and the page alone.
LEMMA FinishedStays ==
    ASSUME NEW b, NEW m, NEW j, Finished(b, m, j), NEW g, g.image = b.image, g.page = b.page
    PROVE  Finished(g, m, j)
BY DEF Finished, Listed, ReadSoFar, Padded, Place

\* A finished command is an exact transfer.
LEMMA FinishedIsExact ==
    ASSUME Finished(board', ram', job'), job' \in Jobs, job \in Jobs, job' = [job EXCEPT !.granted = job'.granted],
           board' \in Boards, board'.image.id = board.image.id
    PROVE  Board!TransferIsExact
<1> DEFINE all == job'.granted
           from == (job.sector - 1) * 2
           n == Len(all)
           page == all[1][2] \div 4
           addresses == [i \in 1..n |-> page * 4 + ((job.base + i - 1) % 4)]
<1>1. /\ job'.kind = job.kind /\ job'.sector = job.sector /\ job'.image = job.image /\ job'.ram = job.ram
      /\ job'.base = job.base /\ job'.size = job.size
  <2> DEFINE j == job'
  <2>1. j = [job EXCEPT !.granted = j.granted]
    OBVIOUS
  <2> HIDE DEF j
  <2>2. j.kind = job.kind /\ j.sector = job.sector /\ j.image = job.image /\ j.ram = job.ram /\ j.base = job.base /\ j.size = job.size
    BY <2>1 DEF Jobs
  <2> QED  BY <2>2 DEF j
<1>2. n = job.size /\ job.size \in 1..4 /\ job.base \in 0..3 /\ job.kind \in {"read", "write"}
  BY <1>1 DEF Finished, Jobs, Addresses
<1>3. board'.page \in {0, 1}
  BY DEF Boards
<1>4. From(job') = from
  BY <1>1 DEF From
<1>5. \A i \in 1..n : all[i] = <<board.image.id, Place(board', job', i), from + i - 1>>
  BY <1>4 DEF Finished, Listed
<1> HIDE DEF all, n
<1>6. page = board'.page
  <2>1. all[1] = <<board.image.id, Place(board', job', 1), from + 1 - 1>>
    BY <1>2, <1>5
  <2>2. (job.base + 1 - 1) % 4 \in 0..3
    BY <1>2
  <2>3. \A p \in {0, 1} : \A k \in 0..3 : (p * 4 + k) \div 4 = p
    OBVIOUS
  <2>4. Place(board', job', 1) = board'.page * 4 + ((job.base + 1 - 1) % 4)
    BY <1>1 DEF Place
  <2> QED  BY <1>3, <2>1, <2>2, <2>3, <2>4
<1> HIDE DEF page
<1>7. \A i \in 1..n : addresses[i] = Place(board', job', i)
  BY <1>1, <1>6 DEF Place
<1>8. \A i \in 1..n : all[i] = <<board.image.id, addresses[i], from + i - 1>>
  BY <1>5, <1>7
<1> HIDE DEF addresses
<1>9. job.kind = "read" => /\ board'.image.bytes = job.image
                           /\ \A i \in 1..n : ram'[addresses[i]] = job.image[from + i - 1]
  BY <1>1, <1>4, <1>7 DEF Finished, ReadSoFar, n, all
<1>10. ASSUME job.kind = "write"
       PROVE  /\ ram' = job.ram
              /\ \A o \in DOMAIN job.image :
                   board'.image.bytes[o] =
                     IF o \in from..(from + n - 1) THEN job.ram[addresses[o - from + 1]]
                     ELSE IF o >= from + n /\ o \div 2 = (from + n - 1) \div 2 THEN 0
                     ELSE job.image[o]
  <2>1. ram' = job.ram /\ \A o \in Addresses :
            board'.image.bytes[o] = IF o \in from..(from + n - 1) THEN job.ram[Place(board', job', o - from + 1)]
                                    ELSE IF o >= from + n /\ o \div 2 = (from + n - 1) \div 2 THEN 0
                                    ELSE job.image[o]
    BY <1>1, <1>4, <1>10 DEF Finished, Padded, n, all
  <2>2. DOMAIN job.image = Addresses
    BY <1>1 DEF Finished, Disks
  <2>3. ASSUME NEW o \in Addresses, o \in from..(from + n - 1)
        PROVE  addresses[o - from + 1] = Place(board', job', o - from + 1)
    <3>1. job.sector \in 1..2
      BY <1>1 DEF Finished
    <3>2. o - from + 1 \in 1..n
      BY <1>2, <2>3, <3>1 DEF Addresses
    <3> QED  BY <1>7, <3>2
  <2> QED  BY <2>1, <2>2, <2>3
<1> QED
  <2>1. Board!TransferIsExact =
          (board.fdc.phase = "transfer" /\ board'.fdc.phase = "result" /\ board'.fdc.st1 = 0 /\ job'.kind # "none" =>
             /\ n = job.size /\ \A i \in 1..n : all[i] = <<board.image.id, addresses[i], from + i - 1>>
             /\ job.kind = "read" => /\ board'.image.bytes = job.image
                                     /\ \A i \in 1..n : ram'[addresses[i]] = job.image[from + i - 1]
             /\ job.kind = "write" =>
                  /\ ram' = job.ram
                  /\ \A o \in DOMAIN job.image :
                       board'.image.bytes[o] =
                         IF o \in from..(from + n - 1) THEN job.ram[addresses[o - from + 1]]
                         ELSE IF o >= from + n /\ o \div 2 = (from + n - 1) \div 2 THEN 0
                         ELSE job.image[o])
    BY BoardNumbers DEF Board!TransferIsExact, all, n, page, addresses
  <2> QED  BY <1>2, <1>8, <1>9, <1>10, <2>1

\* A disk is put in, taken out or exchanged: a transfer under way ends in an error.
LEMMA DisksAreSet ==
    ASSUME NEW b, Exact(b), NEW id \in {0, 2}, NEW writable \in BOOLEAN, b.image.id # id,
           NEW g, g = Board!SetDiskette(b, id, writable)
    PROVE  /\ Exact(g) /\ g.clock = b.clock /\ g.page = b.page /\ g.dma.channels = b.dma.channels
           /\ b.fdc.phase = "transfer" => g.fdc.phase = "result" /\ g.fdc.st1 # 0
           /\ g.fdc.phase \in {"search", "transfer"} =>
                b.fdc.phase = "search" /\ g.fdc.command = b.fdc.command /\ g.fdc.sector = b.fdc.sector
           /\ g.fdc.phase = "transfer" => g.fdc.offset = 0
<1> DEFINE ejected == IF b.image.id = 0 THEN b.fdc ELSE Board!MountMedia(b.fdc, FALSE, FALSE)
           fdc == IF id = 0 THEN ejected ELSE Board!MountMedia(ejected, TRUE, writable)
           image == [id |-> id, bytes |-> IF id = 0 THEN Board!NoDisk ELSE Board!Disk(id)]
           h == [b EXCEPT !.image = image, !.fdc = fdc]
<1>0. b \in Boards /\ AdapterOK(b.fdc) /\ Sound(b) /\ b.clock <= MaxClock /\ (b.fdc.media <=> b.image.id # 0)
  BY DEF Exact, Sound
<1>b. TRUE \in BOOLEAN /\ FALSE \in BOOLEAN
  OBVIOUS
<1>1. /\ AdapterOK(ejected) /\ Quiet(b.fdc, ejected) /\ ~ejected.media
      /\ ejected.phase = "idle" <=> b.fdc.phase = "idle"
  <2>1. CASE b.image.id = 0
    BY <1>0, <2>1, SelfQuiet
  <2>2. CASE b.image.id # 0
    <3>1. ejected = Board!MountMedia(b.fdc, FALSE, FALSE)
      BY <2>2
    <3> DEFINE no == FALSE
    <3>2. no \in BOOLEAN /\ ejected = Board!MountMedia(b.fdc, no, no)
      BY <3>1
    <3> HIDE DEF ejected, no
    <3>3. /\ AdapterOK(ejected) /\ Quiet(b.fdc, ejected) /\ ejected.media = no
          /\ (ejected.phase = "idle" <=> b.fdc.phase = "idle")
      BY <1>0, <3>2, MediaIsMounted
    <3> QED  BY <3>3 DEF no
  <2> QED  BY <2>1, <2>2
<1> HIDE DEF ejected
<1>2. ejected.phase # "transfer" /\ (b.fdc.phase = "transfer" => ejected.phase = "result" /\ ejected.st1 # 0)
  <2>1. ejected.phase # "transfer"
    BY <1>1 DEF AdapterOK
  <2>2. ejected.phase \in Phases
    BY <1>1 DEF AdapterOK, Sampled, Adapters
  <2> QED  BY <1>1, <2>1, <2>2 DEF Quiet, Phases
<1>3. /\ AdapterOK(fdc) /\ (fdc.media <=> id # 0) /\ Quiet(ejected, fdc) /\ (fdc.phase = "idle" <=> ejected.phase = "idle")
  <2>1. CASE id = 0
    BY <1>1, <2>1, SelfQuiet
  <2>2. CASE id # 0
    <3>1. fdc = Board!MountMedia(ejected, TRUE, writable)
      BY <2>2
    <3> DEFINE yes == TRUE
    <3>2. yes \in BOOLEAN /\ fdc = Board!MountMedia(ejected, yes, writable)
      BY <3>1
    <3> HIDE DEF fdc, yes
    <3>3. /\ AdapterOK(fdc) /\ Quiet(ejected, fdc) /\ fdc.media = yes
          /\ (fdc.phase = "idle" <=> ejected.phase = "idle")
      BY <1>1, <3>2, MediaIsMounted
    <3> QED  BY <2>2, <3>3 DEF yes
  <2> QED  BY <2>1, <2>2
<1> HIDE DEF fdc
<1>4. /\ b.fdc.phase = "transfer" => fdc.phase = "result" /\ fdc.st1 # 0
      /\ fdc.phase \in {"search", "transfer"} =>
           b.fdc.phase = "search" /\ fdc.command = b.fdc.command /\ fdc.sector = b.fdc.sector
      /\ fdc.phase = "transfer" => fdc.offset = 0
  <2>1. fdc.phase \in Phases
    BY <1>3 DEF AdapterOK, Sampled, Adapters
  <2>2. fdc.phase \in {"search", "transfer"} => ejected.phase = "search" /\ fdc.command = ejected.command /\ fdc.sector = ejected.sector
    BY <1>2, <1>3 DEF Quiet
  <2>3. ejected.phase = "search" => b.fdc.phase = "search" /\ ejected.command = b.fdc.command /\ ejected.sector = b.fdc.sector
    BY <1>1 DEF Quiet
  <2>4. fdc.phase = "transfer" => fdc.offset = 0
    BY <1>2, <1>3 DEF Quiet
  <2>5. b.fdc.phase = "transfer" => fdc.phase = "result"
    BY <1>2, <1>3, <2>1, <2>2 DEF Phases
  <2>6. b.fdc.phase = "transfer" => fdc.st1 # 0
    BY <1>2, <1>3, <2>5 DEF Quiet
  <2> QED  BY <2>2, <2>3, <2>4, <2>5, <2>6
<1>5. image \in Images /\ image.id = id /\ (id # 0 => image.bytes \in Disks)
  <2>1. id # 0 => Board!Disk(id) \in Disks
    BY BoardNumbers DEF Board!Disk, Disks, Addresses
  <2> QED  BY <2>1 DEF Images, Board!NoDisk
<1> HIDE DEF image
<1>6. g = Board!UpdateWiring(h, FALSE)
  BY DEF Board!SetDiskette, fdc, ejected, image
<1>a. h = [b EXCEPT !.image = image, !.fdc = fdc]
  OBVIOUS
<1> HIDE DEF h
<1>7. h = BoardOf(b.clock, b.count, b.out, b.output, b.pending, b.line, b.page, b.dma, fdc, image)
  BY <1>0, <1>a DEF Boards, BoardOf
<1>8. h \in Boards
  BY <1>0, <1>3, <1>5, <1>7 DEF Boards, BoardOf, AdapterOK, Sampled
<1>9. h.clock = b.clock /\ h.page = b.page /\ h.dma = b.dma /\ h.fdc = fdc /\ h.image = image
  BY <1>7 DEF BoardOf
<1>10. Sound(h)
  BY <1>0, <1>3, <1>5, <1>8, <1>9 DEF Sound
<1>11. Sound(g) /\ Wires(g) /\ Rested(h, g) /\ g.clock = h.clock /\ g.fdc = h.fdc
  BY <1>6, <1>10, <1>b, WiringIsUpdated
<1> QED  BY <1>0, <1>4, <1>9, <1>11 DEF Exact, Rested

\* A cleared adapter is idle.
LEMMA ControllerIsCleared ==
    ASSUME NEW f \in Adapters, NEW g, g = Board!ClearController(f)
    PROVE  g = Adapter("idle", "none", 0, 0, 0, 0, 0, FALSE, 0, f)
BY DEF Board!ClearController, Adapters, Adapter

\* The clock, the counter and the page of a reset board.
LEMMA CountersAreCleared ==
    ASSUME NEW b \in Boards,
           NEW g, g = [b EXCEPT !.clock = 0, !.count = 0, !.out = FALSE, !.pending = FALSE, !.output = FALSE, !.page = 0]
    PROVE  g = BoardOf(0, 0, FALSE, FALSE, FALSE, b.line, 0, b.dma, b.fdc, b.image)
BY DEF Boards, BoardOf

\* A board with another DMA controller.
LEMMA ChipsAreSet ==
    ASSUME NEW b \in Boards, NEW dma, NEW g, g = [b EXCEPT !.dma = dma]
    PROVE  g = BoardOf(b.clock, b.count, b.out, b.output, b.pending, b.line, b.page, dma, b.fdc, b.image)
BY DEF Boards, BoardOf

\* A board with other channels, at the end of none of them.
LEMMA ChipsAreMasked ==
    ASSUME NEW b \in Boards, NEW channels \in [{0, 2} -> Channels], NEW h, h = [b EXCEPT !.dma.channels = channels],
           NEW g, g = [h EXCEPT !.dma.terminal = {}]
    PROVE  g = BoardOf(b.clock, b.count, b.out, b.output, b.pending, b.line, b.page, DmaOf(channels, b.dma.levels, {}), b.fdc, b.image)
<1>0. b.dma \in Dmas
  BY DEF Boards
<1> DEFINE masked == [b.dma EXCEPT !.channels = channels]
           ended == [masked EXCEPT !.terminal = {}]
<1>1. h = [b EXCEPT !.dma = masked]
  BY DEF Boards
<1>2. masked = DmaOf(channels, b.dma.levels, b.dma.terminal)
  BY <1>0 DEF Dmas, DmaOf
<1>3. ended = [masked EXCEPT !.terminal = {}]
  OBVIOUS
<1> HIDE DEF masked, ended
<1>4. ended = DmaOf(channels, b.dma.levels, {})
  BY <1>2, <1>3 DEF DmaOf
<1>5. h = BoardOf(b.clock, b.count, b.out, b.output, b.pending, b.line, b.page, masked, b.fdc, b.image)
  BY <1>1 DEF Boards, BoardOf
<1>6. g = [h EXCEPT !.dma = ended]
  <2>1. h.dma = masked
    BY <1>5 DEF BoardOf
  <2>2. g = [h EXCEPT !.dma = [h.dma EXCEPT !.terminal = {}]]
    BY <1>5 DEF BoardOf
  <2> QED  BY <1>3, <2>1, <2>2
<1>7. g = BoardOf(b.clock, b.count, b.out, b.output, b.pending, b.line, b.page, ended, b.fdc, b.image)
  <2>1. masked \in Dmas
    BY <1>0, <1>2 DEF Dmas, DmaOf
  <2>2. h \in Boards
    BY <1>5, <2>1 DEF Boards, BoardOf
  <2>3. /\ h.clock = b.clock /\ h.count = b.count /\ h.out = b.out /\ h.output = b.output /\ h.pending = b.pending
        /\ h.line = b.line /\ h.page = b.page /\ h.fdc = b.fdc /\ h.image = b.image
    BY <1>5 DEF BoardOf
  <2>4. g = BoardOf(h.clock, h.count, h.out, h.output, h.pending, h.line, h.page, ended, h.fdc, h.image)
    BY <1>6, <2>2, ChipsAreSet
  <2> QED  BY <2>3, <2>4
<1> QED  BY <1>4, <1>7

\* The host's reset leaves a sound board with its disk.
LEMMA BoardIsReset ==
    ASSUME NEW b, Exact(b), NEW g, g = Board!ResetBoard(b)
    PROVE  Exact(g)
<1> DEFINE channels == [c \in {0, 2} |-> [b.dma.channels[c] EXCEPT !.masked = TRUE]]
           fdc == [Board!ClearController(b.fdc) EXCEPT !.on = FALSE, !.gate = FALSE, !.motor = FALSE]
           dma == DmaOf(channels, b.dma.levels, {})
           h == [b EXCEPT !.clock = 0, !.count = 0, !.out = FALSE, !.pending = FALSE, !.output = FALSE, !.page = 0,
                    !.dma.channels = channels, !.dma.terminal = {}, !.fdc = fdc]
<1>0. /\ b \in Boards /\ Sound(b) /\ b.dma \in Dmas /\ b.fdc \in Adapters /\ b.dma.channels \in [{0, 2} -> Channels]
      /\ ~b.dma.channels[2].reload /\ (b.fdc.media <=> b.image.id # 0) /\ (b.fdc.writable => b.fdc.media)
      /\ (b.image.id # 0 => b.image.bytes \in Disks)
  BY DEF Exact, Sound, Boards, Dmas, AdapterOK, Sampled
<1>1. channels \in [{0, 2} -> Channels] /\ ~channels[2].reload
  BY <1>0 DEF Channels
<1>2. AdapterOK(fdc) /\ fdc.media = b.fdc.media
  <2> DEFINE cleared == Board!ClearController(b.fdc)
  <2>1. cleared = Adapter("idle", "none", 0, 0, 0, 0, 0, FALSE, 0, b.fdc)
    BY <1>0, ControllerIsCleared
  <2>2. fdc = [cleared EXCEPT !.on = FALSE, !.gate = FALSE, !.motor = FALSE]
    OBVIOUS
  <2> HIDE DEF cleared, fdc
  <2>3. fdc = [phase |-> "idle", command |-> "none", sector |-> 0, last |-> 0, offset |-> 0, delay |-> 0, st1 |-> 0,
               interrupt |-> FALSE, resetting |-> 0, on |-> FALSE, gate |-> FALSE, motor |-> FALSE,
               media |-> b.fdc.media, writable |-> b.fdc.writable]
    BY <2>1, <2>2 DEF Adapter
  <2>4. fdc \in Adapters
    BY <1>0, <2>3 DEF Adapters, Phases, Commands
  <2>5. /\ fdc.phase = "idle" /\ fdc.offset = 0 /\ fdc.delay = 0 /\ ~fdc.interrupt /\ fdc.resetting = 0 /\ fdc.media = b.fdc.media
        /\ fdc.writable = b.fdc.writable
    BY <2>3
  <2> QED  BY <1>0, <2>4, <2>5 DEF AdapterOK, Sampled
<1> HIDE DEF channels, fdc
<1>3. g = Board!UpdateWiring(h, FALSE)
  BY DEF Board!ResetBoard, channels, fdc
<1>4. dma \in Dmas /\ dma.channels = channels
  BY <1>0, <1>1 DEF Dmas, DmaOf
<1>5. h = BoardOf(0, 0, FALSE, FALSE, FALSE, b.line, 0, dma, fdc, b.image)
  <2> DEFINE first == [b EXCEPT !.clock = 0, !.count = 0, !.out = FALSE, !.pending = FALSE, !.output = FALSE, !.page = 0]
             second == [first EXCEPT !.dma.channels = channels]
             third == [second EXCEPT !.dma.terminal = {}]
  <2>1. h = [third EXCEPT !.fdc = fdc]
    OBVIOUS
  <2>2. first = BoardOf(0, 0, FALSE, FALSE, FALSE, b.line, 0, b.dma, b.fdc, b.image)
    BY <1>0, CountersAreCleared, ZenonT(30)
  <2>3. second = [first EXCEPT !.dma.channels = channels] /\ third = [second EXCEPT !.dma.terminal = {}]
    OBVIOUS
  <2> HIDE DEF first, second, third, h, dma
  <2>4. first \in Boards
    BY <1>0, <2>2 DEF Boards, BoardOf
  <2>5. third = BoardOf(first.clock, first.count, first.out, first.output, first.pending, first.line, first.page,
                        DmaOf(channels, first.dma.levels, {}), first.fdc, first.image)
    BY <1>1, <2>3, <2>4, ChipsAreMasked
  <2>6. third = BoardOf(0, 0, FALSE, FALSE, FALSE, b.line, 0, dma, b.fdc, b.image)
    BY <2>2, <2>5 DEF BoardOf, dma
  <2> QED  BY <2>1, <2>6 DEF BoardOf
<1> HIDE DEF h, dma
<1>6. h \in Boards
  BY <1>0, <1>2, <1>4, <1>5 DEF Boards, BoardOf, AdapterOK, Sampled
<1>7. h.clock = 0 /\ h.dma = dma /\ h.fdc = fdc /\ h.image = b.image
  BY <1>5 DEF BoardOf
<1>8. Sound(h)
  BY <1>0, <1>1, <1>2, <1>4, <1>6, <1>7 DEF Sound
<1>9. FALSE \in BOOLEAN
  OBVIOUS
<1>10. Sound(g) /\ Wires(g) /\ g.clock = h.clock
  BY <1>3, <1>8, <1>9, WiringIsUpdated
<1> QED  BY <1>7, <1>10, ClockAssumption DEF Exact

-----------------------------------------------------------------------------
(* The board's invariant                                                   *)

BoardInv == Exact(board) /\ ram \in Memories /\ JobInv(board, ram, job) /\ moves \in Nat

\* Everything a step has to keep and to be.
BoardSteps == BoardInv' /\ Board!TransferIsExact /\ Board!GrantIsExact

\* The board a session starts with.
LEMMA FirstBoard == ASSUME Board!Init PROVE BoardInv
<1> DEFINE channels == [c \in {0, 2} |-> IF c = 0 THEN Board!Channel("read", 0, 1, TRUE)
                                         ELSE [Board!Channel("none", 0, 0, FALSE) EXCEPT !.masked = TRUE]]
           dma == DmaOf(channels, {}, {})
           fdc == Board!Idle
           image == [id |-> 1, bytes |-> Board!Disk(1)]
<1>1. board = BoardOf(0, Divisor, TRUE, TRUE, FALSE, FALSE, 0, dma, fdc, image)
  BY DEF Board!Init, BoardOf, DmaOf
<1>2. channels \in [{0, 2} -> Channels] /\ ~channels[2].reload
  <2>1. Board!Channel("read", 0, 1, TRUE) \in Channels
    BY DEF Board!Channel, Channels, Modes, Addresses
  <2>2. /\ [Board!Channel("none", 0, 0, FALSE) EXCEPT !.masked = TRUE] \in Channels
        /\ ~[Board!Channel("none", 0, 0, FALSE) EXCEPT !.masked = TRUE].reload
    <3> DEFINE none == Board!Channel("none", 0, 0, FALSE)
    <3>1. none = [mode |-> "none", masked |-> FALSE, reload |-> FALSE, address |-> 0, count |-> 0, base |-> 0, reloadCount |-> 0]
      BY DEF Board!Channel
    <3> HIDE DEF none
    <3>2. none \in Channels
      BY <3>1 DEF Channels, Modes, Addresses
    <3>3. [none EXCEPT !.masked = TRUE] \in Channels /\ ~[none EXCEPT !.masked = TRUE].reload
      BY <3>1, <3>2 DEF Channels
    <3> QED  BY <3>3 DEF none
  <2>3. channels[2] = [Board!Channel("none", 0, 0, FALSE) EXCEPT !.masked = TRUE]
    OBVIOUS
  <2>4. ~channels[2].reload
    BY <2>2, <2>3
  <2> QED  BY <2>1, <2>2, <2>4
<1> HIDE DEF channels
<1>3. dma \in Dmas /\ dma.channels = channels /\ dma.levels = {}
  BY <1>2 DEF Dmas, DmaOf
<1>4. fdc = [phase |-> "idle", command |-> "none", sector |-> 0, last |-> 0, offset |-> 0, delay |-> 0, st1 |-> 0,
             interrupt |-> FALSE, resetting |-> 0, on |-> TRUE, gate |-> TRUE, motor |-> TRUE, media |-> TRUE,
             writable |-> TRUE]
  BY DEF Board!Idle
<1> HIDE DEF dma, fdc
<1>5. fdc \in Adapters
  BY <1>4 DEF Adapters, Phases, Commands
<1>6. AdapterOK(fdc) /\ fdc.media /\ ~Board!Dreq(fdc) /\ Board!Irq(fdc) = FALSE /\ fdc.phase = "idle"
  <2>1. /\ fdc.phase = "idle" /\ fdc.offset = 0 /\ fdc.delay = 0 /\ fdc.interrupt = FALSE /\ fdc.resetting = 0 /\ fdc.media
        /\ fdc.on /\ fdc.gate
    BY <1>4
  <2> QED  BY <1>5, <2>1 DEF AdapterOK, Sampled, Board!Dreq, Board!Irq
<1>7. image \in Images /\ image.id = 1 /\ image.bytes \in Disks
  BY BoardNumbers DEF Images, Board!Disk, Disks, Addresses
<1> HIDE DEF image
<1>8. board \in Boards
  BY <1>1, <1>3, <1>5, <1>7, ClockAssumption DEF Boards, BoardOf
<1>9. board.clock = 0 /\ board.pending = FALSE /\ board.line = FALSE /\ board.dma = dma /\ board.fdc = fdc /\ board.image = image
  BY <1>1 DEF BoardOf
<1>10. Exact(board)
  <2>1. Sound(board)
    BY <1>2, <1>3, <1>6, <1>7, <1>8, <1>9 DEF Sound
  <2>2. ~Board!Dreq(board.fdc) /\ board.line = Board!Irq(board.fdc) /\ ~board.pending /\ board.dma.levels = {}
    BY <1>3, <1>6, <1>9
  <2>3. Wires(board)
    BY <2>2 DEF Wires
  <2> QED  BY <1>9, <2>1, <2>3, ClockAssumption DEF Exact
<1>11. ram \in Memories /\ job = Board!NoJob /\ moves \in Nat
  BY BoardNumbers DEF Board!Init, Memories
<1> QED  BY <1>10, <1>11 DEF BoardInv, JobInv

\* A serviced board whose job goes on: no byte is lost before the step ends.
LEMMA ServiceGoesOn ==
    ASSUME BoardInv, ~Board!Refused(board), Exact(board'), Unmoved(Board!Serviced, board'),
           ram' = Board!ServicedRam, job' = Board!ServicedJob
    PROVE  ram' \in Memories /\ JobInv(board', ram', job') /\ Board!TransferIsExact
<1> DEFINE s == Board!Serviced
<1>1. /\ Exact(s) /\ Board!ServicedRam \in Memories /\ JobInv(s, Board!ServicedRam, Board!ServicedJob)
      /\ s.image.id = board.image.id /\ Continued(Board!ServicedJob)
      /\ board.fdc.phase = "transfer" => s.fdc.phase \in {"transfer", "result"}
      /\ board.fdc.phase = "transfer" /\ s.fdc.phase = "result" /\ s.fdc.st1 = 0 /\ Board!ServicedJob # Board!NoJob =>
           Finished(s, Board!ServicedRam, Board!ServicedJob)
  BY BoardIsServiced DEF BoardInv
<1> HIDE DEF s
<1>2. Unmoved(s, board')
  BY DEF s
<1>3. JobInv(board', ram', job')
  <2> DEFINE after == board'
  <2>1. Sound(s) /\ Sound(after) /\ Unmoved(s, after)
    BY <1>1, <1>2 DEF Exact
  <2> HIDE DEF after
  <2>2. JobInv(after, Board!ServicedRam, Board!ServicedJob)
    BY <1>1, <2>1, JobsStay
  <2> QED  BY <2>2 DEF after
<1>4. Board!TransferIsExact
  <2>1. CASE board.fdc.phase = "transfer" /\ board'.fdc.phase = "result" /\ board'.fdc.st1 = 0 /\ job'.kind # "none"
    <3>1. job' # Board!NoJob
      BY <2>1, NoJobIsNone
    <3>2. s.fdc.phase = "result" /\ s.fdc.st1 = 0
      BY <1>1, <1>2, <2>1 DEF Unmoved, Quiet
    <3>3. Finished(s, ram', job')
      BY <1>1, <2>1, <3>1, <3>2
    <3>4. board'.image = s.image /\ board'.page = s.page
      BY <1>2 DEF Unmoved
    <3>5. Finished(board', ram', job')
      <4> DEFINE after == board'
                 m == ram'
                 j == job'
      <4>1. Finished(s, m, j) /\ after.image = s.image /\ after.page = s.page
        BY <3>3, <3>4
      <4> HIDE DEF after, m, j
      <4>2. Finished(after, m, j)
        BY <4>1, FinishedStays
      <4> QED  BY <4>2 DEF after, m, j
    <3>6. job' \in Jobs /\ job \in Jobs /\ job' = [job EXCEPT !.granted = job'.granted]
      BY <1>1, <3>1 DEF Continued
    <3>7. board' \in Boards /\ board'.image.id = board.image.id
      BY <1>1, <3>4 DEF Exact, Sound
    <3> QED  BY <3>5, <3>6, <3>7, FinishedIsExact
  <2>2. CASE ~(board.fdc.phase = "transfer" /\ board'.fdc.phase = "result" /\ board'.fdc.st1 = 0 /\ job'.kind # "none")
    BY <2>2 DEF Board!TransferIsExact
  <2> QED  BY <2>1, <2>2
<1> QED  BY <1>1, <1>3, <1>4

\* A transfer that cannot be granted is refused and changes nothing.
LEMMA BoardRefuses == ASSUME BoardInv, Board!Refuse PROVE BoardSteps
<1>1. board' = board /\ ram' = ram /\ job' = job /\ moves' = moves /\ outcome' = "refused"
  BY DEF Board!Refuse
<1>2. ~(board.fdc.phase = "transfer" /\ board'.fdc.phase = "result") /\ ~(outcome' \in {"ok", "unavailable"})
  BY <1>1
<1>3. Board!TransferIsExact /\ Board!GrantIsExact
  BY <1>2, Zenon DEF Board!TransferIsExact, Board!GrantIsExact
<1> QED  BY <1>1, <1>3 DEF BoardSteps, BoardInv

\* An instruction's clocks pass, then one request is served.
LEMMA BoardRuns ==
    ASSUME BoardInv, NEW clocks \in 1..6, Board!Step(clocks)
    PROVE  BoardSteps
<1> DEFINE s == Board!Serviced
<1>1. ~Board!Refused(board) /\ board' = Board!Timed(s, clocks) /\ ram' = Board!ServicedRam /\ job' = Board!ServicedJob
      /\ moves' = moves
  BY DEF Board!Step
<1>2. Exact(s) /\ s.clock >= board.clock /\ (Board!Pending(board.dma) # {} => s.clock > board.clock)
  BY <1>1, BoardIsServiced DEF BoardInv
<1>3. Exact(board') /\ Stayed(s, board') /\ board'.clock >= s.clock
  <2> DEFINE after == board'
  <2>1. after = Board!Timed(s, clocks)
    BY <1>1
  <2> HIDE DEF after, s
  <2>2. Exact(after) /\ Stayed(s, after) /\ after.clock >= s.clock
    BY <1>2, <2>1, TimeIsCapped
  <2> QED  BY <2>2 DEF after
<1>4. Unmoved(s, board')
  BY <1>3, StayedUnmoved
<1>5. ram' \in Memories /\ JobInv(board', ram', job') /\ Board!TransferIsExact
  BY <1>1, <1>3, <1>4, ServiceGoesOn
<1>6. Board!GrantIsExact
  <2>1. board.clock \in Nat /\ s.clock \in Nat /\ board'.clock \in Nat
    BY <1>2, <1>3 DEF BoardInv, Exact, Sound, Boards
  <2> HIDE DEF s
  <2>2. Board!Pending(board.dma) # {} => board'.clock > board.clock
    BY <1>2, <1>3, <2>1
  <2> QED  BY <1>1, <2>2 DEF Board!GrantIsExact
<1> QED  BY <1>1, <1>3, <1>5, <1>6 DEF BoardSteps, BoardInv

\* A halted CPU still lets time pass and requests be served.
LEMMA BoardHalts == ASSUME BoardInv, Board!HaltedStep PROVE BoardSteps
<1>1. Board!Step(4 - (Board!Serviced.clock % 4))
  BY BoardNumbers DEF Board!HaltedStep
<1>2. ~Board!Refused(board)
  BY DEF Board!HaltedStep, Board!Step
<1>3. Exact(Board!Serviced)
  BY <1>2, BoardIsServiced DEF BoardInv
<1>4. Board!Serviced.clock \in Nat
  BY <1>3 DEF Exact, Sound, Boards
<1>5. 4 - (Board!Serviced.clock % 4) \in 1..6
  BY <1>4
<1> QED  BY <1>1, <1>5, BoardRuns

\* A move of the host or the program is none of the board's grants.
LEMMA MovesCount == ASSUME BoardInv, Board!Move PROVE moves' \in Nat /\ Board!GrantIsExact
BY DEF BoardInv, Board!Move, Board!GrantIsExact

\* An instruction without a published cost lets a request be served.
LEMMA BoardIsUnavailable == ASSUME BoardInv, Board!Unavailable PROVE BoardSteps
<1>1. ~Board!Refused(board) /\ board' = Board!Serviced /\ ram' = Board!ServicedRam /\ job' = Board!ServicedJob /\ Board!Move
  BY DEF Board!Unavailable
<1>2. Exact(board')
  BY <1>1, BoardIsServiced DEF BoardInv
<1>3. Unmoved(Board!Serviced, board')
  BY <1>1, SelfQuiet DEF Unmoved
<1>4. ram' \in Memories /\ JobInv(board', ram', job') /\ Board!TransferIsExact
  BY <1>1, <1>2, <1>3, ServiceGoesOn
<1> QED  BY <1>1, <1>2, <1>4, MovesCount DEF BoardSteps, BoardInv

\* Whatever the program writes: its command begins anew, or what was granted stands.
LEMMA ProgramWrites ==
    ASSUME BoardInv, NEW port \in Board!Ports, Board!OutStep(port)
    PROVE  BoardSteps
<1> DEFINE s == Board!Serviced
           b == Board!Access(s, port)
<1>0. /\ ~Board!Refused(board) /\ Board!Possible(s, port) /\ Board!Move
      /\ board' = Board!Timed(b, 2) /\ ram' = Board!ServicedRam
      /\ job' = IF port[1] = "command" THEN Board!Begun(port[2], [s EXCEPT !.fdc.sector = port[3]])
                ELSE IF port[1] \in {"dma", "mask", "page"} THEN Board!NoJob
                ELSE Board!ServicedJob
  BY DEF Board!OutStep
<1>1. /\ Exact(s) /\ Board!ServicedRam \in Memories /\ (s.fdc.phase = "idle" => Board!ServicedRam = ram)
      /\ board.fdc.phase = "transfer" => s.fdc.phase \in {"transfer", "result"}
  BY <1>0, BoardIsServiced DEF BoardInv
<1>2. Sound(b) /\ Wires(b) /\ Accessed(s, b, port)
  <2>1. Sound(s) /\ Board!Possible(s, port)
    BY <1>0, <1>1 DEF Exact
  <2> HIDE DEF s
  <2> QED  BY <2>1, ProgramsAccess
<1>3. Exact(b)
  <2>1. b.clock = s.clock
    BY <1>2 DEF Accessed
  <2> HIDE DEF b, s
  <2> QED  BY <1>1, <1>2, <2>1 DEF Exact
<1> HIDE DEF b
<1>4. Exact(board') /\ Stayed(b, board')
  <2> DEFINE after == board'
  <2>1. after = Board!Timed(b, 2) /\ 2 \in 1..6
    BY <1>0
  <2> HIDE DEF after
  <2>2. Exact(after) /\ Stayed(b, after)
    BY <1>3, <2>1, TimeIsCapped
  <2> QED  BY <2>2 DEF after
<1>5. CASE port[1] \notin {"dma", "mask", "page", "command"}
  <2>1. job' = Board!ServicedJob
    BY <1>0, <1>5
  <2>2. Unmoved(s, b)
    BY <1>2, <1>5 DEF Accessed, Unmoved
  <2>3. Unmoved(s, board')
    BY <1>4, <2>2, UnmovedOn
  <2>4. ram' \in Memories /\ JobInv(board', ram', job') /\ Board!TransferIsExact
    BY <1>0, <1>4, <2>1, <2>3, ServiceGoesOn
  <2> QED  BY <1>0, <1>4, <2>4, MovesCount DEF BoardSteps, BoardInv
<1>6. CASE port[1] \in {"dma", "mask", "page"}
  <2>1. job' = Board!NoJob
    BY <1>0, <1>6
  <2>2. JobInv(board', ram', job') /\ Board!TransferIsExact
    BY <2>1, NoJobIsNone DEF JobInv, Board!TransferIsExact
  <2> QED  BY <1>0, <1>1, <1>4, <2>2, MovesCount DEF BoardSteps, BoardInv
<1>7. CASE port[1] = "command"
  <2> DEFINE j == [kind |-> port[2], granted |-> << >>, sector |-> port[3], image |-> s.image.bytes, ram |-> ram,
                   base |-> s.dma.channels[2].address, size |-> s.dma.channels[2].count + 1]
  <2>0. s \in Boards /\ s.fdc \in Adapters /\ s.dma.channels[2] \in Channels /\ s.image \in Images
    BY <1>1 DEF Exact, Sound, Boards, Dmas
  <2>1. port[2] \in {"read", "write"} /\ port[3] \in {1, 3}
    BY <1>7 DEF Board!Ports
  <2>2. job' = j
    <3> DEFINE asked == [s EXCEPT !.fdc.sector = port[3]]
    <3>1. asked.fdc.sector = port[3] /\ asked.image = s.image /\ asked.dma = s.dma
      <4> HIDE DEF s
      <4> QED  BY <2>0 DEF Boards, Adapters
    <3>2. job' = Board!Begun(port[2], asked)
      BY <1>0, <1>7
    <3> HIDE DEF asked, s
    <3> QED  BY <3>1, <3>2 DEF Board!Begun, Board!Image
  <2> HIDE DEF s
  <2>3. s.fdc.phase = "idle" /\ ram' = ram
    BY <1>0, <1>1, <1>2, <1>7 DEF Accessed, s
  <2>4. j \in Jobs
    <3>1. s.dma.channels[2].count + 1 \in 1..4 /\ s.dma.channels[2].address \in Addresses
      BY <2>0 DEF Channels, Addresses
    <3>2. s.image.bytes \in Disks \cup {<< >>} /\ ram \in Memories /\ << >> \in Granted /\ port[3] \in Nat
      BY <2>0, <2>1 DEF Images, BoardInv, Granted
    <3> QED  BY <2>1, <3>1, <3>2 DEF Jobs
  <2>5. /\ j.kind = port[2] /\ j.granted = << >> /\ j.sector = port[3] /\ j.image = s.image.bytes /\ j.ram = ram
        /\ j.base = s.dma.channels[2].address /\ j.size = s.dma.channels[2].count + 1 /\ Len(j.granted) = 0
    OBVIOUS
  <2> HIDE DEF j
  <2>6. b.fdc.phase \in {"search", "transfer"} => Searching(b, ram, j)
    <3>1. s.dma.channels[2].address \in 0..3 /\ s.dma.channels[2].count \in 0..3
      BY <2>0 DEF Channels, Addresses
    <3>2. b.dma.channels[2] = s.dma.channels[2] /\ b.image = s.image
      BY <1>2, <1>7 DEF Accessed
    <3>3. Queued(b, j)
      BY <2>5, <3>1, <3>2 DEF Queued
    <3> QED  BY <1>2, <1>7, <2>5, <3>2, <3>3 DEF Accessed, Searching
  <2>7. b.fdc.phase = "transfer" => Transferring(b, ram, j)
    BY <1>2, <1>7, <2>4, <2>6, JobsStart DEF Accessed
  <2>8. JobInv(b, ram, j)
    BY <2>4, <2>6, <2>7 DEF JobInv
  <2>9. JobInv(board', ram', job')
    <3> DEFINE after == board'
    <3>1. Sound(after) /\ Stayed(b, after)
      BY <1>4 DEF Exact
    <3> HIDE DEF after
    <3>2. JobInv(after, ram, j)
      BY <1>2, <2>8, <3>1, JobsStay, StayedUnmoved
    <3> QED  BY <2>2, <2>3, <3>2 DEF after
  <2>10. Board!TransferIsExact
    BY <1>1, <2>3 DEF Board!TransferIsExact, s
  <2> QED  BY <1>0, <1>1, <1>4, <2>9, <2>10, MovesCount DEF BoardSteps, BoardInv
<1> QED  BY <1>5, <1>6, <1>7

\* The host lets time pass.
LEMMA HostAdvances == ASSUME BoardInv, Board!HostAdvance PROVE BoardSteps
<1>1. Board!Move /\ board' = Board!Timed(board, 6) /\ ram' = ram /\ job' = job
  BY DEF Board!HostAdvance
<1>2. Exact(board') /\ Stayed(board, board')
  <2> DEFINE after == board'
  <2>1. after = Board!Timed(board, 6) /\ 6 \in 1..6
    BY <1>1
  <2> HIDE DEF after
  <2>2. Exact(after) /\ Stayed(board, after)
    BY <2>1, TimeIsCapped DEF BoardInv
  <2> QED  BY <2>2 DEF after
<1>3. JobInv(board', ram', job')
  <2> DEFINE after == board'
  <2>1. Sound(after) /\ Stayed(board, after) /\ Sound(board) /\ JobInv(board, ram, job)
    BY <1>2 DEF Exact, BoardInv
  <2> HIDE DEF after
  <2>2. JobInv(after, ram, job)
    BY <2>1, JobsStay, StayedUnmoved
  <2> QED  BY <1>1, <2>2 DEF after
<1>4. Board!TransferIsExact
  <2>1. ~(board.fdc.phase = "transfer" /\ board'.fdc.phase = "result")
    BY <1>2 DEF Stayed, Waited
  <2> QED  BY <2>1, Zenon DEF Board!TransferIsExact
<1> QED  BY <1>1, <1>2, <1>3, <1>4, MovesCount DEF BoardSteps, BoardInv

\* The host changes the disk.
LEMMA HostChangesDisks ==
    ASSUME BoardInv, NEW id \in {0, 2}, NEW writable \in BOOLEAN, Board!HostDisk(id, writable)
    PROVE  BoardSteps
<1> DEFINE g == board'
<1>1. /\ Board!Move /\ board.image.id # id /\ g = Board!SetDiskette(board, id, writable) /\ ram' = ram
      /\ job' = IF board.fdc.phase = "search" /\ job.kind # "none" THEN [job EXCEPT !.image = g.image.bytes] ELSE job
  BY DEF Board!HostDisk, Board!Image
<1> HIDE DEF g
<1>2. /\ Exact(g) /\ g.page = board.page /\ g.dma.channels = board.dma.channels
      /\ board.fdc.phase = "transfer" => g.fdc.phase = "result" /\ g.fdc.st1 # 0
      /\ g.fdc.phase \in {"search", "transfer"} =>
           board.fdc.phase = "search" /\ g.fdc.command = board.fdc.command /\ g.fdc.sector = board.fdc.sector
      /\ g.fdc.phase = "transfer" => g.fdc.offset = 0
  BY <1>1, DisksAreSet DEF BoardInv
<1>3. JobInv(g, ram, job')
  <2>1. CASE job = Board!NoJob
    BY <1>1, <2>1, NoJobIsNone DEF JobInv
  <2>2. CASE job # Board!NoJob
    <3>0. job \in Jobs /\ (board.fdc.phase = "search" => Searching(board, ram, job))
      BY <2>2 DEF BoardInv, JobInv
    <3>1. CASE board.fdc.phase = "search"
      <4> DEFINE j == [job EXCEPT !.image = g.image.bytes]
      <4>1. job' = j
        BY <1>1, <3>0, <3>1, NoJobIsNone
      <4>2. g.image.bytes \in Disks \cup {<< >>}
        BY <1>2 DEF Exact, Sound, Boards, Images
      <4>3. /\ j \in Jobs /\ j.kind = job.kind /\ j.granted = job.granted /\ j.sector = job.sector /\ j.image = g.image.bytes
            /\ j.ram = job.ram /\ j.base = job.base /\ j.size = job.size
        BY <3>0, <4>2 DEF Jobs
      <4> HIDE DEF j
      <4>4. g.fdc.phase \in {"search", "transfer"} => Searching(g, ram, j)
        BY <1>2, <3>0, <3>1, <4>3 DEF Searching, Queued
      <4>5. g.fdc.phase = "transfer" => Transferring(g, ram, j)
        BY <1>2, <4>3, <4>4, JobsStart DEF Exact
      <4>6. JobInv(g, ram, j)
        BY <4>3, <4>4, <4>5 DEF JobInv
      <4> QED  BY <4>1, <4>6
    <3>2. CASE board.fdc.phase # "search"
      BY <1>1, <1>2, <3>0, <3>2 DEF JobInv
    <3> QED  BY <3>1, <3>2
  <2> QED  BY <2>1, <2>2
<1>4. Board!TransferIsExact
  BY <1>2 DEF Board!TransferIsExact, g
<1> QED  BY <1>1, <1>2, <1>3, <1>4, MovesCount DEF BoardSteps, BoardInv, g

\* The host resets the machine.
LEMMA HostResets == ASSUME BoardInv, Board!HostReset PROVE BoardSteps
<1>1. Board!Move /\ board' = Board!ResetBoard(board) /\ job' = Board!NoJob /\ ram' = ram
  BY DEF Board!HostReset
<1>2. Exact(board')
  BY <1>1, BoardIsReset DEF BoardInv
<1>3. JobInv(board', ram', job') /\ Board!TransferIsExact
  BY <1>1, NoJobIsNone DEF JobInv, Board!TransferIsExact
<1> QED  BY <1>1, <1>2, <1>3, MovesCount DEF BoardSteps, BoardInv

\* Every step of the board keeps its invariant and its promises.
LEMMA BoardTakesSteps == ASSUME BoardInv, Board!Next PROVE BoardSteps
<1>1. ASSUME Board!Step(2) PROVE BoardSteps
  <2>1. 2 \in 1..6
    OBVIOUS
  <2> QED  BY <1>1, <2>1, BoardRuns
<1>2. ASSUME Board!HostDisk(0, FALSE) PROVE BoardSteps
  <2> DEFINE no == FALSE
  <2>1. no \in BOOLEAN /\ 0 \in {0, 2} /\ Board!HostDisk(0, no)
    BY <1>2
  <2> HIDE DEF no
  <2> QED  BY <2>1, HostChangesDisks
<1>3. ASSUME NEW writable \in BOOLEAN, Board!HostDisk(2, writable) PROVE BoardSteps
  <2>1. 2 \in {0, 2}
    OBVIOUS
  <2> QED  BY <1>3, <2>1, HostChangesDisks
<1> QED  BY <1>1, <1>2, <1>3, BoardRefuses, BoardHalts, BoardIsUnavailable, HostAdvances, HostResets, ProgramWrites DEF Board!Next

\* io.ts: a snapshot of a sound board is one a board can be built from.
LEMMA BoardCanBeRestored == ASSUME BoardInv PROVE Board!Restorable
<1>1. /\ board.clock <= MaxClock /\ AdapterOK(board.fdc) /\ Wires(board) /\ (board.fdc.media <=> board.image.id # 0)
      /\ board.fdc \in Adapters
  BY DEF BoardInv, Exact, Sound, AdapterOK, Sampled
<1>2. board.fdc.media = (board.image.id # 0)
  BY <1>1 DEF Adapters
<1>3. /\ board.dma.levels = (IF board.pending THEN {0} ELSE {}) \cup (IF Board!Dreq(board.fdc) THEN {2} ELSE {})
      /\ board.line = Board!Irq(board.fdc)
  BY <1>1 DEF Wires
<1> QED  BY <1>1, <1>2, <1>3, BoardNumbers DEF Board!Restorable, AdapterOK, Sampled, Board!Selected, Board!Writing

-----------------------------------------------------------------------------
(* The raster's time                                                       *)

Masks == SUBSET (0..7)
Plane4 == 0..3
PlaneBytes == [0..3 -> Masks]
Planes == [0..3 -> PlaneBytes]
Files(n) == [0..n -> Masks]
Crts == [0..24 -> 0..255]
Egas == [misc : Masks, seqIndex : 0..7, gcIndex : 0..15, crtIndex : 0..31, attrIndex : SUBSET (0..5), attrData : BOOLEAN,
         phase : Nat, field : 0..63, seq : Files(4), gc : Files(8), crt : Crts,
         attr : Files(19), latch : PlaneBytes, planes : Planes, lineTicks : Nat, frameTicks : Nat]
EgaOf(s, misc, crtIndex, attrData, phase, field, seq, crt, lineTicks, frameTicks) ==
    [misc |-> misc, seqIndex |-> s.seqIndex, gcIndex |-> s.gcIndex, crtIndex |-> crtIndex, attrIndex |-> s.attrIndex,
     attrData |-> attrData, phase |-> phase, field |-> field, seq |-> seq, gc |-> s.gc, crt |-> crt, attr |-> s.attr,
     latch |-> s.latch, planes |-> s.planes, lineTicks |-> lineTicks, frameTicks |-> frameTicks]

\* The line and frame are those of the registers, and the raster is within the frame.
Timed(s) ==
    /\ s \in Egas /\ s.lineTicks = Display!LineTicks(s) /\ s.frameTicks = Display!Lines(s) * s.lineTicks
    /\ s.frameTicks > 0 /\ s.phase < s.frameTicks

\* A frame of some lines of some ticks takes time.
LEMMA ProductsArePositive == \A m \in Nat \ {0}, n \in Nat \ {0} : m * n \in Nat \ {0}
OBVIOUS

\* There are lines whatever the two registers hold that count them.
LEMMA LinesAreMany ==
    ASSUME NEW total \in 0..255, NEW overflow \in 0..255
    PROVE  total + 256 * ((overflow \div 1) % 2) + 2 \in Nat \ {0}
<1> DEFINE bit == (overflow \div 1) % 2
<1>1. bit \in {0, 1}
  OBVIOUS
<1> HIDE DEF bit
<1>2. total \in Nat /\ 256 * bit \in {0, 256}
  BY <1>1
<1>3. total + 256 * bit + 2 \in Nat \ {0}
  BY <1>2
<1> QED  BY <1>3 DEF bit

\* A line has dots.
LEMMA DotsAreMany ==
    \A total \in 0..255, width \in {8, 9}, doubled \in {1, 2} :
        (total + 2) * width * doubled \in Nat /\ (total + 2) * width * doubled >= 16
OBVIOUS

\* A number of dots takes ticks.
LEMMA DotsTakeTime == ASSUME NEW dots \in Nat, dots >= 16 PROVE Display!Enhanced(dots) \in Nat \ {0}
<1> DEFINE n == 2 * dots * 715909 + 812850
<1>1. n \in Nat /\ n >= 1625700
  OBVIOUS
<1>2. Display!Enhanced(dots) = n \div 1625700
  BY DEF Display!Enhanced
<1> HIDE DEF n
<1> QED  BY <1>1, <1>2

\* The registers of the CRT controller that the raster and the screen start use are numbers.
LEMMA CrtsAreNumbers ==
    ASSUME NEW crt \in Crts
    PROVE  /\ crt[0] \in 0..255 /\ crt[6] \in 0..255 /\ crt[7] \in 0..255
           /\ crt[12] \in 0..255 /\ crt[13] \in 0..255 /\ crt[19] \in 0..255
BY DEF Crts

\* A line takes time whatever the registers hold, and there are lines.
LEMMA LinesTakeTime ==
    ASSUME NEW s, s.misc \in Masks, s.seq \in Files(4), s.crt \in Crts
    PROVE  Display!LineTicks(s) \in Nat \ {0} /\ Display!Lines(s) \in Nat \ {0}
<1>1. s.crt[0] \in 0..255 /\ s.crt[6] \in 0..255 /\ s.crt[7] \in 0..255
  <2> DEFINE crt == s.crt
  <2>1. crt \in Crts
    OBVIOUS
  <2> HIDE DEF crt
  <2>2. crt[0] \in 0..255 /\ crt[6] \in 0..255 /\ crt[7] \in 0..255
    BY <2>1, CrtsAreNumbers
  <2> QED  BY <2>2 DEF crt
<1>2. Display!Lines(s) \in Nat \ {0}
  <2>1. Display!Lines(s) = s.crt[6] + 256 * ((s.crt[7] \div 1) % 2) + 2
    BY DEF Display!Lines, Display!High
  <2> DEFINE total == s.crt[6]
             overflow == s.crt[7]
  <2>2. total \in 0..255 /\ overflow \in 0..255
    BY <1>1
  <2>3. Display!Lines(s) = total + 256 * ((overflow \div 1) % 2) + 2
    BY <2>1
  <2> HIDE DEF total, overflow
  <2>4. total + 256 * ((overflow \div 1) % 2) + 2 \in Nat \ {0}
    BY <2>2, LinesAreMany, SMTT(30)
  <2> QED  BY <2>3, <2>4
<1>3. Display!CellWidth(s) \in {8, 9}
  BY DEF Display!CellWidth
<1> DEFINE doubled == IF 3 \in s.seq[1] THEN 2 ELSE 1
           dots == (s.crt[0] + 2) * Display!CellWidth(s) * doubled
<1>4. dots \in Nat /\ dots >= 16
  <2> DEFINE width == Display!CellWidth(s)
             total == s.crt[0]
  <2>1. doubled \in {1, 2} /\ width \in {8, 9} /\ total \in 0..255 /\ dots = (total + 2) * width * doubled
    BY <1>1, <1>3
  <2> HIDE DEF doubled, width, total, dots
  <2> QED  BY <2>1, DotsAreMany
<1> HIDE DEF dots
<1>5. Display!Enhanced(dots) \in Nat \ {0}
  BY <1>4, DotsTakeTime
<1>6. Display!LineTicks(s) = IF 2 \in s.misc THEN Display!Enhanced(dots) ELSE dots
  BY DEF Display!LineTicks, dots
<1> QED  BY <1>2, <1>4, <1>5, <1>6

\* Setting the timing makes line, frame and phase those of the registers.
LEMMA TimingIsSet ==
    ASSUME NEW s \in Egas, NEW g, g = Display!SetTiming(s)
    PROVE  /\ Timed(g)
           /\ g = EgaOf(s, s.misc, s.crtIndex, s.attrData, s.phase % g.frameTicks, s.field, s.seq, s.crt, g.lineTicks, g.frameTicks)
           /\ g.lineTicks = Display!LineTicks(s) /\ g.frameTicks = Display!Lines(s) * Display!LineTicks(s)
<1> DEFINE line == Display!LineTicks(s)
           lines == Display!Lines(s)
           frame == lines * line
           phase == s.phase % frame
<1>1. s.misc \in Masks /\ s.seq \in Files(4) /\ s.crt \in Crts /\ s.phase \in Nat
  BY DEF Egas
<1>2. line \in Nat \ {0} /\ lines \in Nat \ {0}
  BY <1>1, LinesTakeTime
<1>3. g = [s EXCEPT !.lineTicks = line, !.frameTicks = frame, !.phase = phase]
  BY DEF Display!SetTiming
<1> HIDE DEF line, lines
<1>4. frame \in Nat \ {0}
  BY <1>2, ProductsArePositive
<1>a. frame = lines * line
  OBVIOUS
<1> HIDE DEF frame
<1>5. phase \in Nat /\ phase < frame
  BY <1>1, <1>4
<1>b. phase = s.phase % frame
  OBVIOUS
<1> HIDE DEF phase
<1>6. g = EgaOf(s, s.misc, s.crtIndex, s.attrData, phase, s.field, s.seq, s.crt, line, frame)
  BY <1>3, ZenonT(30) DEF Egas, EgaOf
<1>7. g \in Egas
  BY <1>2, <1>4, <1>5, <1>6 DEF Egas, EgaOf
<1>8. g.misc = s.misc /\ g.seq = s.seq /\ g.crt = s.crt /\ g.lineTicks = line /\ g.frameTicks = frame /\ g.phase = phase
  BY <1>6 DEF EgaOf
<1>9. Display!LineTicks(g) = line /\ Display!Lines(g) = lines
  BY <1>8 DEF Display!LineTicks, Display!Lines, Display!High, Display!CellWidth, line, lines
<1> QED  BY <1>4, <1>5, <1>6, <1>7, <1>8, <1>9, <1>a, <1>b DEF Timed, line, lines

\* Registers the raster does not use.
LEMMA TimingIsKept ==
    ASSUME NEW s, Timed(s), NEW g \in Egas, g.misc = s.misc, g.seq = s.seq, g.crt = s.crt, g.phase = s.phase,
           g.lineTicks = s.lineTicks, g.frameTicks = s.frameTicks
    PROVE  Timed(g)
<1>1. Display!LineTicks(g) = Display!LineTicks(s) /\ Display!Lines(g) = Display!Lines(s)
  BY DEF Display!LineTicks, Display!Lines, Display!High, Display!CellWidth
<1> QED  BY <1>1 DEF Timed

\* A division has one quotient and one remainder.
LEMMA RemainderIsUnique ==
    ASSUME NEW n \in Nat \ {0}, NEW q \in Int, NEW r \in Nat, r < n, NEW a \in Int, a = q * n + r
    PROVE  a % n = r /\ a \div n = q
<1> DEFINE d == a \div n
           m == a % n
<1>1. d \in Int /\ m \in Nat /\ m < n /\ a = n * d + m
  OBVIOUS
<1> HIDE DEF d, m
<1>2. n * (q - d) = m - r
  BY <1>1
<1>3. q - d = 0
  <2>1. ~(q - d >= 1)
    <3> SUFFICES ASSUME q - d >= 1 PROVE FALSE
      OBVIOUS
    <3>1. n * (q - d) >= n
      BY <1>1
    <3> QED  BY <1>1, <1>2, <3>1
  <2>2. ~(q - d <= -1)
    <3> SUFFICES ASSUME q - d <= -1 PROVE FALSE
      OBVIOUS
    <3>1. n * (q - d) <= -n
      BY <1>1
    <3> QED  BY <1>1, <1>2, <3>1
  <2> QED  BY <1>1, <2>1, <2>2
<1> QED  BY <1>1, <1>2, <1>3 DEF d, m

\* Fields are counted within 64.
LEMMA FieldsWrap ==
    ASSUME NEW n \in Nat
    PROVE  (n \div 64) \in Nat /\ (n % 64) \in 0..63 /\ n = (64 * (n \div 64)) + (n % 64)
<1>1. (n \div 64) \in Nat
  OBVIOUS
<1>2. (n % 64) \in 0..63
  OBVIOUS
<1>3. n = (64 * (n \div 64)) + (n % 64)
  OBVIOUS
<1> QED  BY <1>1, <1>2, <1>3

\* Ticks move the raster by as many, within 64 frames.
LEMMA RasterAdvances ==
    ASSUME NEW s, Timed(s), NEW ticks \in Nat, NEW g, g = Display!Advanced(s, ticks)
    PROVE  /\ Timed(g) /\ g.frameTicks = s.frameTicks
           /\ (Display!Position(s) + ticks) % (64 * s.frameTicks) = Display!Position(g)
<1> DEFINE F == s.frameTicks
           p == s.phase + ticks
           q == p \div F
           r == p % F
           k == (s.field + q) \div 64
           m == (s.field + q) % 64
<1>1. s \in Egas /\ s.phase \in Nat /\ s.field \in 0..63 /\ F \in Nat \ {0} /\ s.phase < F
  BY DEF Timed, Egas
<1>2. p \in Nat /\ q \in Nat /\ r \in Nat /\ r < F /\ p = F * q + r
  <2> HIDE DEF F
  <2>1. p \in Nat
    BY <1>1
  <2> HIDE DEF p
  <2>2. q \in Int /\ r \in Nat /\ r < F /\ p = F * q + r
    BY <1>1, <2>1
  <2> HIDE DEF q, r
  <2>3. ~(q <= -1)
    <3> SUFFICES ASSUME q <= -1 PROVE FALSE
      OBVIOUS
    <3>1. F * q <= -F
      BY <1>1, <2>2
    <3> QED  BY <1>1, <2>1, <2>2, <3>1
  <2> QED  BY <2>1, <2>2, <2>3
<1>3. k \in Nat /\ m \in 0..63 /\ s.field + q = 64 * k + m
  <2> HIDE DEF q
  <2>1. q \in Nat /\ s.field \in Nat
    BY <1>1, <1>2
  <2>2. s.field + q \in Nat
    BY <2>1
  <2> QED  BY <2>2, FieldsWrap
<1>4. g = EgaOf(s, s.misc, s.crtIndex, s.attrData, r, m, s.seq, s.crt, s.lineTicks, s.frameTicks)
  <2>1. CASE p >= F
    <3>1. g = [s EXCEPT !.field = m, !.phase = r]
      BY <2>1 DEF Display!Advanced
    <3> HIDE DEF m, r
    <3> QED  BY <1>1, <3>1 DEF Egas, EgaOf
  <2>2. CASE ~(p >= F)
    <3>1. g = [s EXCEPT !.phase = p]
      BY <2>2 DEF Display!Advanced
    <3>2. r = p /\ q = 0
      <4>1. p \in Nat /\ F \in Nat \ {0}
        BY <1>1, <1>2
      <4>2. ~(p >= F)
        BY <2>2
      <4> HIDE DEF p, F
      <4>3. p = 0 * F + p /\ p < F /\ 0 \in Int /\ p \in Int
        BY <4>1, <4>2
      <4>4. p % F = p /\ p \div F = 0
        BY <4>1, <4>3, RemainderIsUnique
      <4> QED  BY <4>4
    <3>3. m = s.field
      <4> HIDE DEF q
      <4> QED  BY <1>1, <3>2
    <3> HIDE DEF m, r, p
    <3> QED  BY <1>1, <3>1, <3>2, <3>3 DEF Egas, EgaOf
  <2> QED  BY <2>1, <2>2
<1> HIDE DEF k, m, r, q, p
<1>5. g \in Egas
  BY <1>1, <1>2, <1>3, <1>4 DEF Egas, EgaOf
<1>6. g.misc = s.misc /\ g.seq = s.seq /\ g.crt = s.crt /\ g.lineTicks = s.lineTicks /\ g.frameTicks = F /\ g.phase = r /\ g.field = m
  BY <1>4 DEF EgaOf
<1>7. Timed(g)
  <2>1. Display!LineTicks(g) = Display!LineTicks(s) /\ Display!Lines(g) = Display!Lines(s)
    BY <1>6 DEF Display!LineTicks, Display!Lines, Display!High, Display!CellWidth
  <2> QED  BY <1>2, <1>5, <1>6, <2>1 DEF Timed
<1>8. (Display!Position(s) + ticks) % (64 * F) = m * F + r
  <2>0. Display!Position(s) + ticks = s.field * F + p
    <3>1. s.field * F \in Nat
      BY <1>1
    <3> QED  BY <1>1, <3>1 DEF Display!Position, p
  <2> HIDE DEF F
  <2>1. s.field * F + p = (s.field + q) * F + r
    <3>1. s.field * F \in Nat /\ F * q \in Nat /\ (s.field + q) * F = s.field * F + F * q
      BY <1>1, <1>2
    <3> QED  BY <1>2, <3>1
  <2>2. (s.field + q) * F = k * (64 * F) + m * F
    <3>1. (64 * k + m) * F = k * (64 * F) + m * F
      BY <1>1, <1>3
    <3> QED  BY <1>3, <3>1
  <2>3. m * F \in Nat /\ m * F <= 63 * F
    BY <1>1, <1>3
  <2>4. m * F + r \in Nat /\ m * F + r < 64 * F /\ 64 * F \in Nat \ {0}
    BY <1>1, <1>2, <2>3
  <2>5. k * (64 * F) \in Nat
    BY <1>1, <1>3
  <2> DEFINE n == 64 * F
             rest == m * F + r
             a == s.field * F + p
  <2>6. a \in Int /\ a = k * n + rest
    <3>1. s.field * F \in Nat
      BY <1>1
    <3> QED  BY <1>2, <2>1, <2>2, <2>3, <2>5, <3>1
  <2>7. n \in Nat \ {0} /\ rest \in Nat /\ rest < n /\ k \in Int
    BY <1>3, <2>4
  <2> HIDE DEF n, rest, a
  <2>8. a % n = rest
    BY <2>6, <2>7, RemainderIsUnique
  <2> QED  BY <2>0, <2>8 DEF n, rest, a
<1>9. Display!Position(g) = m * F + r
  BY <1>6 DEF Display!Position
<1> QED  BY <1>6, <1>7, <1>8, <1>9

\* A raster put elsewhere.
LEMMA RasterIsSet ==
    ASSUME NEW s \in Egas, NEW phase, NEW field, NEW g, g = [s EXCEPT !.phase = phase, !.field = field]
    PROVE  g = EgaOf(s, s.misc, s.crtIndex, s.attrData, phase, field, s.seq, s.crt, s.lineTicks, s.frameTicks)
BY DEF Egas, EgaOf

\* A snapshot gives back the adapter.
LEMMA EgasRestore ==
    ASSUME NEW s, Timed(s)
    PROVE  Display!Accepts(Display!Snapshot(s)) /\ Display!Restored(Display!Snapshot(s)) = s
<1> DEFINE snapshot == Display!Snapshot(s)
           start == EgaOf(s, s.misc, s.crtIndex, s.attrData, 0, 0, s.seq, s.crt, 18, 36)
           built == Display!Built(snapshot)
<1>1. s \in Egas /\ s.phase \in Nat /\ s.field \in 0..63
  BY DEF Timed, Egas
<1>2. built = Display!SetTiming(start)
  BY DEF Display!Built, Display!Snapshot, EgaOf
<1>3. /\ start.misc = s.misc /\ start.crtIndex = s.crtIndex /\ start.attrData = s.attrData /\ start.phase = 0 /\ start.field = 0
      /\ start.seq = s.seq /\ start.crt = s.crt /\ start.seqIndex = s.seqIndex /\ start.gcIndex = s.gcIndex
      /\ start.attrIndex = s.attrIndex /\ start.gc = s.gc /\ start.attr = s.attr /\ start.latch = s.latch /\ start.planes = s.planes
  BY DEF EgaOf
<1>4. start \in Egas
  BY <1>1 DEF Egas, EgaOf
<1>5. /\ snapshot.seqIndex = s.seqIndex /\ snapshot.gcIndex = s.gcIndex /\ snapshot.crtIndex = s.crtIndex
      /\ snapshot.attrIndex = s.attrIndex /\ snapshot.attrData = s.attrData /\ snapshot.phase = s.phase /\ snapshot.field = s.field
  BY DEF Display!Snapshot
<1> HIDE DEF start, snapshot, built
<1>6. Display!LineTicks(start) = Display!LineTicks(s) /\ Display!Lines(start) = Display!Lines(s)
  BY <1>3 DEF Display!LineTicks, Display!Lines, Display!High, Display!CellWidth
<1>7. /\ Timed(built)
      /\ built = EgaOf(start, start.misc, start.crtIndex, start.attrData, start.phase % built.frameTicks, start.field, start.seq,
                       start.crt, built.lineTicks, built.frameTicks)
      /\ built.lineTicks = s.lineTicks /\ built.frameTicks = s.frameTicks
  BY <1>2, <1>4, <1>6, TimingIsSet DEF Timed
<1> DEFINE phase == start.phase % built.frameTicks
<1>8. built = EgaOf(s, s.misc, s.crtIndex, s.attrData, phase, 0, s.seq, s.crt, s.lineTicks, s.frameTicks)
  BY <1>3, <1>7 DEF EgaOf
<1> HIDE DEF phase
<1>9. [built EXCEPT !.phase = s.phase, !.field = s.field] = s
  <2> DEFINE g == [built EXCEPT !.phase = s.phase, !.field = s.field]
  <2>0. g = [built EXCEPT !.phase = s.phase, !.field = s.field] /\ built \in Egas
    BY <1>7 DEF Timed
  <2> HIDE DEF g
  <2>3. g = EgaOf(built, built.misc, built.crtIndex, built.attrData, s.phase, s.field, built.seq, built.crt,
                  built.lineTicks, built.frameTicks)
    BY <2>0, RasterIsSet, Zenon
  <2>1. g = EgaOf(s, s.misc, s.crtIndex, s.attrData, s.phase, s.field, s.seq, s.crt, s.lineTicks, s.frameTicks)
    BY <1>8, <2>3 DEF EgaOf
  <2>2. s = EgaOf(s, s.misc, s.crtIndex, s.attrData, s.phase, s.field, s.seq, s.crt, s.lineTicks, s.frameTicks)
    BY <1>1 DEF Egas, EgaOf
  <2> QED  BY <2>0, <2>1, <2>2
<1>10. Display!Restored(snapshot) = s
  BY <1>5, <1>9 DEF Display!Restored, built
<1>11. Display!Accepts(snapshot)
  <2>1. /\ s.seqIndex \in 0..7 /\ s.gcIndex \in 0..15 /\ s.crtIndex \in 0..31 /\ s.attrIndex \subseteq 0..5
        /\ s.attrData \in BOOLEAN
    BY <1>1 DEF Egas
  <2>2. s.phase \in 0..(built.frameTicks - 1)
    <3>1. s.frameTicks \in Nat /\ s.phase < s.frameTicks
      BY DEF Timed, Egas
    <3> QED  BY <1>1, <1>7, <3>1
  <2> QED  BY <1>1, <1>5, <2>1, <2>2 DEF Display!Accepts, built
<1> QED  BY <1>10, <1>11 DEF snapshot

-----------------------------------------------------------------------------
(* The registers                                                           *)

\* A set of bits is a byte.
LEMMA NumbersAreBytes == ASSUME NEW byte PROVE Display!Number(byte) \in 0..255
<1>1. \A b \in 0..7 : Display!Set(byte, b) \in 0..1
  BY DEF Display!Set
<1> QED  BY <1>1 DEF Display!Number

\* Its low bits are an index.
LEMMA LowBits ==
    ASSUME NEW byte
    PROVE  Display!Low(byte, 3) \in 0..7 /\ Display!Low(byte, 4) \in 0..15 /\ Display!Low(byte, 5) \in 0..31
<1>1. Display!Low(byte, 3) \in 0..7
  <2>1. /\ \A b \in 0..7 : Display!Set(byte \cap (0..2), b) \in 0..1
        /\ \A b \in 3..7 : Display!Set(byte \cap (0..2), b) = 0
    BY DEF Display!Set
  <2> QED  BY <2>1 DEF Display!Low, Display!Number
<1>2. Display!Low(byte, 4) \in 0..15
  <2>1. /\ \A b \in 0..7 : Display!Set(byte \cap (0..3), b) \in 0..1
        /\ \A b \in 4..7 : Display!Set(byte \cap (0..3), b) = 0
    BY DEF Display!Set
  <2> QED  BY <2>1 DEF Display!Low, Display!Number
<1>3. Display!Low(byte, 5) \in 0..31
  <2>1. /\ \A b \in 0..7 : Display!Set(byte \cap (0..4), b) \in 0..1
        /\ \A b \in 5..7 : Display!Set(byte \cap (0..4), b) = 0
    BY DEF Display!Set
  <2> QED  BY <2>1 DEF Display!Low, Display!Number
<1> QED  BY <1>1, <1>2, <1>3

\* A setup whose raster is within its frame.
Snapshots == [misc : Masks, seqIndex : 0..7, gcIndex : 0..15, crtIndex : 0..31, attrIndex : SUBSET (0..5), attrData : BOOLEAN,
              phase : Nat, field : 0..63, seq : Files(4), gc : Files(8), crt : Crts,
              attr : Files(19), latch : PlaneBytes, planes : Planes]

\* The adapter restored from such a snapshot keeps time.
LEMMA SnapshotsAreTimed ==
    ASSUME NEW snapshot \in Snapshots, snapshot.phase < Display!Lines(snapshot) * Display!LineTicks(snapshot)
    PROVE  Timed(Display!Restored(snapshot))
<1> DEFINE start == EgaOf(snapshot, snapshot.misc, snapshot.crtIndex, snapshot.attrData, 0, 0, snapshot.seq, snapshot.crt, 18, 36)
           built == Display!Built(snapshot)
           g == [built EXCEPT !.phase = snapshot.phase, !.field = snapshot.field]
<1>1. built = Display!SetTiming(start)
  BY DEF Display!Built, EgaOf
<1>2. start \in Egas /\ start.misc = snapshot.misc /\ start.seq = snapshot.seq /\ start.crt = snapshot.crt
  BY DEF Snapshots, Egas, EgaOf
<1>3. snapshot.phase \in Nat /\ snapshot.field \in 0..63
  BY DEF Snapshots
<1>4. g = Display!Restored(snapshot)
  BY DEF Display!Restored
<1>0. g = [built EXCEPT !.phase = snapshot.phase, !.field = snapshot.field]
  OBVIOUS
<1> HIDE DEF start, built, g
<1>5. Timed(built) /\ built.misc = start.misc /\ built.seq = start.seq /\ built.crt = start.crt
      /\ built.frameTicks = Display!Lines(start) * Display!LineTicks(start)
  BY <1>1, <1>2, TimingIsSet DEF EgaOf
<1>6. Display!Lines(start) = Display!Lines(snapshot) /\ Display!LineTicks(start) = Display!LineTicks(snapshot)
  BY <1>2 DEF Display!LineTicks, Display!Lines, Display!High, Display!CellWidth
<1>7. built \in Egas /\ snapshot.phase < built.frameTicks
  BY <1>5, <1>6 DEF Timed
<1>8. g = EgaOf(built, built.misc, built.crtIndex, built.attrData, snapshot.phase, snapshot.field, built.seq, built.crt,
                built.lineTicks, built.frameTicks)
  BY <1>0, <1>7, RasterIsSet, Zenon
<1>9. g \in Egas
  BY <1>3, <1>7, <1>8 DEF Egas, EgaOf
<1>10. /\ g.misc = built.misc /\ g.seq = built.seq /\ g.crt = built.crt /\ g.phase = snapshot.phase
       /\ g.lineTicks = built.lineTicks /\ g.frameTicks = built.frameTicks
  BY <1>8 DEF EgaOf
<1>11. Display!LineTicks(g) = Display!LineTicks(built) /\ Display!Lines(g) = Display!Lines(built)
  BY <1>10 DEF Display!LineTicks, Display!Lines, Display!High, Display!CellWidth
<1> QED  BY <1>4, <1>5, <1>7, <1>9, <1>10, <1>11 DEF Timed

\* A reset adapter keeps time.
LEMMA ResetIsTimed ==
    ASSUME NEW planes \in Planes PROVE Timed(Display!ResetState(planes))
<1> DEFINE start ==
      [misc |-> {}, seqIndex |-> 0, gcIndex |-> 0, crtIndex |-> 0, attrIndex |-> {}, attrData |-> FALSE,
       phase |-> 0, field |-> 0, seq |-> Display!Registers(5, {}), gc |-> Display!Registers(9, {}), crt |-> Display!Registers(25, 0),
       attr |-> Display!Registers(20, {}), latch |-> Display!Registers(4, {}), planes |-> planes, lineTicks |-> 18, frameTicks |-> 36]
<1>1. /\ Display!Registers(5, {}) \in Files(4) /\ Display!Registers(9, {}) \in Files(8)
      /\ Display!Registers(25, 0) \in Crts /\ Display!Registers(20, {}) \in Files(19)
      /\ Display!Registers(4, {}) \in PlaneBytes
  BY DEF Display!Registers, Masks, Files, Crts, PlaneBytes
<1>2. start \in Egas
  BY <1>1 DEF Egas, Masks
<1>3. Display!ResetState(planes) = Display!SetTiming(start)
  BY DEF Display!ResetState
<1> HIDE DEF start
<1> QED  BY <1>2, <1>3, TimingIsSet

-----------------------------------------------------------------------------
(* The ports and the aperture                                              *)

\* An adapter with one register file or flip-flop written.
LEMMA MiscIsTyped ==
    ASSUME NEW s \in Egas, NEW misc \in Masks, NEW g, g = [s EXCEPT !.misc = misc] PROVE g \in Egas
BY DEF Egas

\* Or the sequencer.
LEMMA SequencerIsTyped ==
    ASSUME NEW s \in Egas, NEW seq \in Files(4), NEW g, g = [s EXCEPT !.seq = seq] PROVE g \in Egas
BY DEF Egas

\* Or the CRT controller.
LEMMA ControllerIsTyped ==
    ASSUME NEW s \in Egas, NEW crt \in Crts, NEW g, g = [s EXCEPT !.crt = crt] PROVE g \in Egas
BY DEF Egas

\* A register written there is still of its file.
LEMMA CrtsArePut ==
    \A file \in Crts : \A number \in 0..255 : \A index : Display!Put(file, index, number) \in Crts
<1> SUFFICES ASSUME NEW file \in Crts, NEW number \in 0..255, NEW index PROVE Display!Put(file, index, number) \in Crts
  BY Zenon
<1> DEFINE put == [file EXCEPT ![index] = number]
<1>1. Display!Put(file, index, number) = IF index \in DOMAIN file THEN put ELSE file
  BY Zenon DEF Display!Put
<1>2. put \in Crts
  BY DEF Crts
<1> HIDE DEF put
<1> QED  BY <1>1, <1>2, Zenon

\* Or the graphics controller.
LEMMA GraphicsIsTyped ==
    ASSUME NEW s \in Egas, NEW gc \in Files(8), NEW g, g = [s EXCEPT !.gc = gc]
    PROVE  /\ g \in Egas /\ g.misc = s.misc /\ g.seq = s.seq /\ g.crt = s.crt /\ g.phase = s.phase
           /\ g.lineTicks = s.lineTicks /\ g.frameTicks = s.frameTicks
BY DEF Egas

\* Or the planes.
LEMMA PlanesAreTyped ==
    ASSUME NEW s \in Egas, NEW planes \in Planes, NEW g, g = [s EXCEPT !.planes = planes] PROVE g \in Egas
BY DEF Egas

\* The attribute port: the flip-flop, the index and a register.
AttributesOf(s, attrData, attr, attrIndex) ==
    [misc |-> s.misc, seqIndex |-> s.seqIndex, gcIndex |-> s.gcIndex, crtIndex |-> s.crtIndex, attrIndex |-> attrIndex,
     attrData |-> attrData, phase |-> s.phase, field |-> s.field, seq |-> s.seq, gc |-> s.gc, crt |-> s.crt,
     attr |-> attr, latch |-> s.latch, planes |-> s.planes, lineTicks |-> s.lineTicks, frameTicks |-> s.frameTicks]

\* Each register is what its port sets: the ones the raster depends on set its timing again.
LEMMA PortsAreTimed ==
    ASSUME NEW s, Timed(s), NEW port, NEW byte \in Masks
    PROVE  Timed(Display!PortWritten(s, port, byte))
<1> DEFINE crtIndex == Display!Low(byte, 5)
           crt == Display!Put(s.crt, s.crtIndex, Display!Number(byte))
           attrData == ~s.attrData
           attr == IF s.attrData THEN Display!Put(s.attr, Display!Low(s.attrIndex, 5), byte) ELSE s.attr
           attrIndex == IF s.attrData THEN s.attrIndex ELSE byte \cap (0..5)
           seqIndex == Display!Low(byte, 3)
           seq == Display!Put(s.seq, s.seqIndex, byte)
           gcIndex == Display!Low(byte, 4)
           gc == Display!Put(s.gc, s.gcIndex, byte)
<1>1. s \in Egas
  BY DEF Timed
<1>2. /\ s.misc \in Masks /\ s.attrData \in BOOLEAN /\ s.attrIndex \in SUBSET (0..5) /\ s.seq \in Files(4)
      /\ s.gc \in Files(8) /\ s.crt \in Crts /\ s.attr \in Files(19)
  BY <1>1 DEF Egas
<1>3. crtIndex \in 0..31 /\ seqIndex \in 0..7 /\ gcIndex \in 0..15
  BY LowBits
<1>4. crt \in Crts
  <2> DEFINE number == Display!Number(byte)
             index == s.crtIndex
             file == s.crt
  <2>1. number \in 0..255 /\ file \in Crts
    BY <1>2, NumbersAreBytes
  <2> HIDE DEF number, index, file
  <2>2. Display!Put(file, index, number) \in Crts
    BY <2>1, CrtsArePut
  <2> QED  BY <2>2 DEF number, index, file
<1>5. seq \in Files(4) /\ gc \in Files(8)
  BY <1>2 DEF Display!Put, Files
<1>6. attr \in Files(19)
  BY <1>2 DEF Display!Put, Files
<1>7. attrData \in BOOLEAN
  OBVIOUS
<1>8. attrIndex \in SUBSET (0..5)
  BY <1>2
<1> DEFINE g1 == [s EXCEPT !.crtIndex = crtIndex]
           g2 == [s EXCEPT !.crt = crt]
           g3 == [s EXCEPT !.attrData = attrData, !.attr = attr, !.attrIndex = attrIndex]
           g4 == [s EXCEPT !.misc = byte]
           g5 == [s EXCEPT !.seqIndex = seqIndex]
           g6 == [s EXCEPT !.seq = seq]
           g7 == [s EXCEPT !.gcIndex = gcIndex]
           g8 == [s EXCEPT !.gc = gc]
           g == Display!PortWritten(s, port, byte)
<1>9. g \in {g1, g3, g5, g7, g8, s, Display!SetTiming(g2), Display!SetTiming(g4), Display!SetTiming(g6)}
  BY DEF Display!PortWritten
<1>10. /\ g2 = [s EXCEPT !.crt = crt] /\ g4 = [s EXCEPT !.misc = byte] /\ g6 = [s EXCEPT !.seq = seq] /\ g8 = [s EXCEPT !.gc = gc]
       /\ g3 = [s EXCEPT !.attrData = attrData, !.attr = attr, !.attrIndex = attrIndex]
  OBVIOUS
<1> HIDE DEF crtIndex, crt, attrData, attr, attrIndex, seqIndex, seq, gcIndex, gc, g2, g3, g4, g6, g8, g
<1>11. Timed(Display!SetTiming(g2))
  <2>1. g2 \in Egas
    BY <1>1, <1>4, <1>10, ControllerIsTyped
  <2> QED  BY <2>1, TimingIsSet
<1>12. Timed(Display!SetTiming(g4))
  <2>1. g4 \in Egas
    BY <1>1, <1>10, MiscIsTyped
  <2> QED  BY <2>1, TimingIsSet
<1>13. Timed(Display!SetTiming(g6))
  <2>1. g6 \in Egas
    BY <1>1, <1>5, <1>10, SequencerIsTyped
  <2> QED  BY <2>1, TimingIsSet
<1>14. Timed(g1) /\ Timed(g5) /\ Timed(g7)
  <2>1. g1 \in Egas
    BY <1>1, <1>3 DEF Egas
  <2>2. g5 \in Egas
    BY <1>1, <1>3 DEF Egas
  <2>3. g7 \in Egas
    BY <1>1, <1>3 DEF Egas
  <2>4. Timed(g1)
    BY <1>1, <2>1, TimingIsKept DEF Egas
  <2>5. Timed(g5)
    BY <1>1, <2>2, TimingIsKept DEF Egas
  <2>6. Timed(g7)
    BY <1>1, <2>3, TimingIsKept DEF Egas
  <2> QED  BY <2>4, <2>5, <2>6
<1>15. Timed(g3)
  <2>1. /\ g3 \in Egas /\ g3.misc = s.misc /\ g3.seq = s.seq /\ g3.crt = s.crt /\ g3.phase = s.phase
        /\ g3.lineTicks = s.lineTicks /\ g3.frameTicks = s.frameTicks
    <3>1. g3 = [s EXCEPT !.attrData = attrData, !.attr = attr, !.attrIndex = attrIndex]
      BY <1>10
    <3>2. g3 = AttributesOf(s, attrData, attr, attrIndex)
      BY <1>1, <3>1 DEF AttributesOf, Egas
    <3>3. g3 \in Egas
      BY <1>1, <1>6, <1>7, <1>8, <3>2 DEF AttributesOf, Egas
    <3> QED  BY <3>2, <3>3 DEF AttributesOf
  <2> QED  BY <2>1, TimingIsKept
<1>16. Timed(g8)
  <2>1. /\ g8 \in Egas /\ g8.misc = s.misc /\ g8.seq = s.seq /\ g8.crt = s.crt /\ g8.phase = s.phase
        /\ g8.lineTicks = s.lineTicks /\ g8.frameTicks = s.frameTicks
    BY <1>1, <1>5, <1>10, GraphicsIsTyped
  <2> QED  BY <2>1, TimingIsKept
<1> HIDE DEF g1, g5, g7
<1> QED  BY <1>9, <1>11, <1>12, <1>13, <1>14, <1>15, <1>16 DEF g

\* An address reaches a byte of the plane.
LEMMA CellsAreInPlane ==
    ASSUME NEW s, NEW address \in 0..7, NEW paired
    PROVE  Display!Offset(s, address) \in -1..7 /\ Display!Cell(s, address, paired) \in 0..3
<1>1. Display!Offset(s, address) \in -1..7
  BY DEF Display!Offset
<1> DEFINE at == Display!Offset(s, address)
           n == IF paired THEN at \div 2 ELSE at
<1> HIDE DEF at
<1>2. n \in Int
  BY <1>1 DEF at
<1> HIDE DEF n
<1>3. (n % 4) \in 0..3
  BY <1>2
<1> QED  BY <1>1, <1>3 DEF Display!Cell, at, n

\* Reads load the latches, and a status read the attribute flip-flop.
LEMMA ReadsAreTimed ==
    ASSUME NEW s, Timed(s), NEW address \in 0..7
    PROVE  Timed(Display!Latched(s, address)) /\ Timed(Display!StatusRead(s))
<1> DEFINE latch == [p \in 0..3 |-> s.planes[p][Display!ReadCell(s, address)]]
           g == [s EXCEPT !.latch = latch]
           h == [s EXCEPT !.attrData = FALSE]
<1>1. s \in Egas
  BY DEF Timed
<1>2. Display!ReadCell(s, address) \in 0..3
  BY CellsAreInPlane DEF Display!ReadCell
<1>3. latch \in PlaneBytes
  BY <1>1, <1>2 DEF Egas, PlaneBytes, Planes
<1>4. Display!Latched(s, address) \in {g, s} /\ Display!StatusRead(s) = h
  BY DEF Display!Latched, Display!Plane, Display!StatusRead
<1> HIDE DEF latch
<1>5. g \in Egas /\ h \in Egas
  BY <1>1, <1>3, ZenonT(30) DEF Egas
<1>6. /\ g.misc = s.misc /\ g.seq = s.seq /\ g.crt = s.crt /\ g.phase = s.phase /\ g.lineTicks = s.lineTicks /\ g.frameTicks = s.frameTicks
      /\ h.misc = s.misc /\ h.seq = s.seq /\ h.crt = s.crt /\ h.phase = s.phase /\ h.lineTicks = s.lineTicks /\ h.frameTicks = s.frameTicks
  BY <1>1 DEF Egas
<1> HIDE DEF g, h
<1>7. Timed(g) /\ Timed(h)
  BY <1>5, <1>6, TimingIsKept
<1> QED  BY <1>4, <1>7

\* A store by the CPU changes the planes.
StoreOf(s, address, byte, g) == Timed(s) /\ address \in 0..7 /\ byte \in Masks /\ g = Display!Stored(s, address, byte)

\* A store leaves the raster and the registers alone.
LEMMA StoresAreTimed ==
    ASSUME NEW s, NEW address, NEW byte, NEW g, StoreOf(s, address, byte, g)
    PROVE  /\ Timed(g) /\ g.misc = s.misc /\ g.seq = s.seq /\ g.crt = s.crt /\ g.phase = s.phase /\ g.field = s.field
           /\ g.lineTicks = s.lineTicks /\ g.frameTicks = s.frameTicks /\ g.gc = s.gc /\ g.attr = s.attr
<1>1. s \in Egas
  BY DEF StoreOf, Timed
<1>2. CASE ~Display!Mapped(s, address) \/ Display!Mode(s) = 3
  <2>1. g = s
    BY <1>2 DEF StoreOf, Display!Stored
  <2> QED  BY <2>1 DEF StoreOf
<1>3. CASE ~(~Display!Mapped(s, address) \/ Display!Mode(s) = 3)
  <2> DEFINE cell == Display!WriteCell(s, address)
             planes == [p \in 0..3 |-> IF p \in Display!WrittenPlanes(s, address)
                                       THEN [s.planes[p] EXCEPT ![cell] = Display!Data(s, p, byte)] ELSE s.planes[p]]
  <2>1. g = [s EXCEPT !.planes = planes]
    BY <1>1, <1>3 DEF StoreOf, Display!Stored, Egas, Display!Plane
  <2>2. planes \in Planes
    <3>1. s.planes \in Planes /\ s.latch \in PlaneBytes /\ s.gc \in Files(8)
      BY <1>1 DEF Egas
    <3>2. ASSUME NEW p \in 0..3 PROVE Display!Data(s, p, byte) \in Masks
      <4>1. s.latch[p] \in Masks /\ s.gc[8] \in Masks
        BY <3>1 DEF PlaneBytes, Files
      <4> QED  BY <4>1 DEF Display!Data, Masks
    <3> HIDE DEF cell
    <3> QED  BY <3>1, <3>2 DEF PlaneBytes, Planes
  <2> HIDE DEF planes
  <2>3. g \in Egas
    BY <1>1, <2>1, <2>2, PlanesAreTyped
  <2>4. /\ g.misc = s.misc /\ g.seq = s.seq /\ g.crt = s.crt /\ g.phase = s.phase /\ g.field = s.field
        /\ g.lineTicks = s.lineTicks /\ g.frameTicks = s.frameTicks /\ g.gc = s.gc /\ g.attr = s.attr
    BY <1>1, <2>1 DEF Egas
  <2>5. Timed(g)
    BY <2>3, <2>4, TimingIsKept DEF StoreOf
  <2> QED  BY <2>4, <2>5
<1> QED  BY <1>2, <1>3

\* A store changes one byte of the planes it is written to.
LEMMA StoresReachPlanes ==
    ASSUME NEW s, NEW address, NEW byte, NEW g, StoreOf(s, address, byte, g)
    PROVE  IF ~Display!Mapped(s, address) \/ Display!Mode(s) = 3 THEN g.planes = s.planes
           ELSE g.planes = [p \in 0..3 |-> IF p \in Display!WrittenPlanes(s, address)
                                           THEN [s.planes[p] EXCEPT ![Display!WriteCell(s, address)] = Display!Data(s, p, byte)]
                                           ELSE s.planes[p]]
<1>1. s \in Egas
  BY DEF StoreOf, Timed
<1>2. CASE ~Display!Mapped(s, address) \/ Display!Mode(s) = 3
  BY <1>2 DEF StoreOf, Display!Stored
<1>3. CASE ~(~Display!Mapped(s, address) \/ Display!Mode(s) = 3)
  <2> DEFINE planes == [p \in 0..3 |-> IF p \in Display!WrittenPlanes(s, address)
                                       THEN [s.planes[p] EXCEPT ![Display!WriteCell(s, address)] = Display!Data(s, p, byte)]
                                       ELSE s.planes[p]]
  <2>1. g = [s EXCEPT !.planes = planes]
    BY <1>1, <1>3 DEF StoreOf, Display!Stored, Egas, Display!Plane
  <2> HIDE DEF planes
  <2>2. g.planes = planes
    BY <1>1, <2>1 DEF Egas
  <2> QED  BY <1>3, <2>2 DEF planes
<1> QED  BY <1>2, <1>3

-----------------------------------------------------------------------------
(* The adapter's invariant                                                 *)

EgaInv == Timed(ega) /\ elapsed = Display!Position(ega)

\* The raster's position is a number.
LEMMA PositionsAreNumbers == ASSUME NEW s, Timed(s) PROVE Display!Position(s) \in Nat
<1>1. s.field \in Nat /\ s.phase \in Nat /\ s.frameTicks \in Nat
  BY DEF Timed, Egas
<1>2. s.field * s.frameTicks \in Nat
  BY <1>1
<1> QED  BY <1>1, <1>2 DEF Display!Position

\* A guest's access starts the time again only if it moved the raster.
LEMMA ChangesKeepTime ==
    ASSUME EgaInv, NEW s, Timed(s), Display!Changes(s) PROVE EgaInv'
<1>1. ega' = s
  BY DEF Display!Changes
<1>2. elapsed' = Display!Position(s)
  BY DEF EgaInv, Display!Changes, Display!Position
<1>3. elapsed' = Display!Position(ega')
  BY <1>1, <1>2
<1>4. Timed(ega')
  BY <1>1
<1> QED  BY <1>3, <1>4 DEF EgaInv, Display!Position, Timed, Display!LineTicks, Display!Lines, Display!High, Display!CellWidth

\* The setups start from a snapshot.
LEMMA FreshIsSnapshot ==
    /\ Fresh \in Snapshots /\ Fresh.misc = {0, 1} /\ Fresh.crt = [i \in 0..24 |-> 0] /\ Fresh.phase = 0
    /\ Fresh.seq = [i \in 0..4 |-> {}] /\ Fresh.gc \in Files(8) /\ Fresh.attr \in Files(19)
<1>1. ASSUME NEW p \in 0..3 PROVE [c \in 0..3 |-> IF c = 0 THEN {p} ELSE {}] \in PlaneBytes
  BY DEF PlaneBytes, Masks
<1>2. [p \in 0..3 |-> [c \in 0..3 |-> IF c = 0 THEN {p} ELSE {}]] \in Planes
  BY <1>1 DEF Planes
<1>3. /\ [i \in 0..4 |-> {}] \in Files(4) /\ [i \in 0..8 |-> {}] \in Files(8)
      /\ [i \in 0..24 |-> 0] \in Crts /\ [i \in 0..19 |-> {}] \in Files(19)
      /\ [p \in 0..3 |-> {}] \in PlaneBytes /\ {0, 1} \in Masks
  BY DEF Masks, Files, Crts, PlaneBytes
<1>4. Fresh \in Snapshots
  BY <1>2, <1>3 DEF Fresh, Snapshots
<1> QED  BY <1>3, <1>4 DEF Fresh

\* What a setup has to be.
Starts(snapshot) ==
    /\ snapshot \in Snapshots /\ snapshot.misc = {0, 1} /\ snapshot.crt = [i \in 0..24 |-> 0]
    /\ snapshot.phase = 0 \/ (snapshot.phase = 20 /\ snapshot.seq[1] = {0})

\* A snapshot with these registers changed.
SnapshotOf(s, seq, gc, attr, attrData, attrIndex, phase, field) ==
    [misc |-> s.misc, seqIndex |-> s.seqIndex, gcIndex |-> s.gcIndex, crtIndex |-> s.crtIndex, attrIndex |-> attrIndex,
     attrData |-> attrData, phase |-> phase, field |-> field, seq |-> seq, gc |-> gc, crt |-> s.crt, attr |-> attr,
     latch |-> s.latch, planes |-> s.planes]

\* Each setup is a snapshot whose raster is within its frame.
LEMMA SetupsStart == ASSUME NEW snapshot \in MCSetups PROVE Starts(snapshot)
<1> DEFINE seqs == Fresh.seq
           gcs == Fresh.gc
           attrs == Fresh.attr
           textSeq == [seqs EXCEPT ![2] = {0, 1}]
           textGc == [gcs EXCEPT ![5] = {4}, ![8] = 0..7]
           linearSeq == [seqs EXCEPT ![2] = {0}, ![4] = {2}]
           linearGc == [gcs EXCEPT ![6] = {2}, ![8] = 0..7]
           graphicsSeq == [seqs EXCEPT ![1] = {0}, ![2] = 0..3, ![4] = {2}]
           graphicsGc == [gcs EXCEPT ![5] = {1}, ![6] = {0, 2}, ![7] = 0..3, ![8] = {0, 7}]
           graphicsAttr == [attrs EXCEPT ![16] = {0}, ![18] = 0..3]
<1>1. seqs \in Files(4) /\ gcs \in Files(8) /\ attrs \in Files(19) /\ Fresh \in Snapshots
      /\ Fresh.misc = {0, 1} /\ Fresh.crt = [i \in 0..24 |-> 0] /\ Fresh.phase = 0
  BY FreshIsSnapshot DEF Masks, Files
<1>2. /\ Text = [Fresh EXCEPT !.seq = textSeq, !.gc = textGc] /\ Linear = [Fresh EXCEPT !.seq = linearSeq, !.gc = linearGc]
      /\ Graphics = [Fresh EXCEPT !.seq = graphicsSeq, !.gc = graphicsGc, !.attr = graphicsAttr]
  BY <1>1 DEF Text, Linear, Graphics, Snapshots
<1> HIDE DEF seqs, gcs, attrs
<1>3. textSeq \in Files(4) /\ linearSeq \in Files(4)
  BY <1>1 DEF Masks, Files
<1>4. graphicsSeq \in Files(4) /\ graphicsSeq[1] = {0}
  BY <1>1 DEF Masks, Files
<1>5. textGc \in Files(8) /\ linearGc \in Files(8)
  BY <1>1 DEF Masks, Files
<1>6. graphicsGc \in Files(8) /\ graphicsAttr \in Files(19)
  BY <1>1 DEF Masks, Files
<1> HIDE DEF textSeq, linearSeq, graphicsSeq, textGc, linearGc, graphicsGc, graphicsAttr
<1>7. /\ Fresh.attrData \in BOOLEAN /\ Fresh.attrIndex \in SUBSET (0..5) /\ Fresh.phase \in Nat /\ Fresh.field \in 0..63
      /\ Fresh.attr \in Files(19)
  BY <1>1 DEF Snapshots
<1>8. Starts(Text)
  <2>1. Text = SnapshotOf(Fresh, textSeq, textGc, Fresh.attr, Fresh.attrData, Fresh.attrIndex, Fresh.phase, Fresh.field)
    <3>1. Text = [Fresh EXCEPT !.seq = textSeq, !.gc = textGc]
      BY <1>2
    <3>2. Fresh \in Snapshots
      BY <1>1
    <3> QED  BY <3>1, <3>2 DEF SnapshotOf, Snapshots
  <2>2. Text \in Snapshots /\ Text.misc = Fresh.misc /\ Text.crt = Fresh.crt /\ Text.phase = Fresh.phase
    BY <1>1, <1>3, <1>5, <1>7, <2>1 DEF SnapshotOf, Snapshots
  <2> QED  BY <1>1, <2>2 DEF Starts
<1>9. Starts(Linear)
  <2>1. Linear = SnapshotOf(Fresh, linearSeq, linearGc, Fresh.attr, Fresh.attrData, Fresh.attrIndex, Fresh.phase, Fresh.field)
    <3>1. Linear = [Fresh EXCEPT !.seq = linearSeq, !.gc = linearGc]
      BY <1>2
    <3>2. Fresh \in Snapshots
      BY <1>1
    <3> QED  BY <3>1, <3>2 DEF SnapshotOf, Snapshots
  <2>2. Linear \in Snapshots /\ Linear.misc = Fresh.misc /\ Linear.crt = Fresh.crt /\ Linear.phase = Fresh.phase
    BY <1>1, <1>3, <1>5, <1>7, <2>1 DEF SnapshotOf, Snapshots
  <2> QED  BY <1>1, <2>2 DEF Starts
<1>10. Starts(Graphics) /\ Graphics \in Snapshots /\ Graphics.misc = {0, 1} /\ Graphics.crt = Fresh.crt /\ Graphics.seq = graphicsSeq
  <2>1. Graphics = SnapshotOf(Fresh, graphicsSeq, graphicsGc, graphicsAttr, Fresh.attrData, Fresh.attrIndex, Fresh.phase, Fresh.field)
    <3>1. Graphics = [Fresh EXCEPT !.seq = graphicsSeq, !.gc = graphicsGc, !.attr = graphicsAttr]
      BY <1>2
    <3>2. Fresh \in Snapshots
      BY <1>1
    <3> QED  BY <3>1, <3>2 DEF SnapshotOf, Snapshots
  <2>2. /\ Graphics \in Snapshots /\ Graphics.misc = Fresh.misc /\ Graphics.crt = Fresh.crt /\ Graphics.phase = Fresh.phase
        /\ Graphics.seq = graphicsSeq
    BY <1>1, <1>4, <1>6, <1>7, <2>1 DEF SnapshotOf, Snapshots
  <2> QED  BY <1>1, <2>2 DEF Starts
<1> DEFINE yes == TRUE
           index == {0, 1, 4}
           at == 20
           last == 63
           late == [Graphics EXCEPT !.attrData = yes, !.attrIndex = index, !.phase = at, !.field = last]
<1>11. late = [Graphics EXCEPT !.attrData = yes, !.attrIndex = index, !.phase = at, !.field = last] /\ index \in SUBSET (0..5) /\ yes \in BOOLEAN
       /\ at = 20 /\ last \in 0..63
  OBVIOUS
<1>12. snapshot \in {Text, Linear, Graphics, late}
  BY DEF MCSetups
<1> HIDE DEF late, yes, index, at, last
<1>13. Starts(late)
  <2>1. Graphics.seq \in Files(4) /\ Graphics.gc \in Files(8) /\ Graphics.attr \in Files(19)
    BY <1>10 DEF Snapshots
  <2>2. late = SnapshotOf(Graphics, Graphics.seq, Graphics.gc, Graphics.attr, yes, index, at, last)
    <3>1. late = [Graphics EXCEPT !.attrData = yes, !.attrIndex = index, !.phase = at, !.field = last]
      BY <1>11
    <3>2. Graphics \in Snapshots
      BY <1>10
    <3> QED  BY <3>1, <3>2 DEF SnapshotOf, Snapshots
  <2>3. late \in Snapshots /\ late.misc = Graphics.misc /\ late.crt = Graphics.crt /\ late.phase = at /\ late.seq = Graphics.seq
    <3>1. Graphics \in Snapshots
      BY <1>10
    <3>2. yes \in BOOLEAN /\ index \in SUBSET (0..5) /\ last \in 0..63 /\ at \in Nat
      BY <1>11
    <3>3. late \in Snapshots
      BY <2>1, <2>2, <3>1, <3>2 DEF SnapshotOf, Snapshots
    <3>4. late.misc = Graphics.misc /\ late.crt = Graphics.crt /\ late.phase = at /\ late.seq = Graphics.seq
      BY <2>2 DEF SnapshotOf
    <3> QED  BY <3>3, <3>4
  <2> QED  BY <1>1, <1>4, <1>10, <1>11, <2>3 DEF Starts
<1> QED  BY <1>8, <1>9, <1>10, <1>12, <1>13

\* The adapter a session starts with keeps time.
LEMMA EgaStarts == ASSUME Display!Init PROVE EgaInv
<1>1. PICK snapshot \in MCSetups : ega = Display!Restored(snapshot)
  BY DEF Display!Init
<1>2. Starts(snapshot)
  BY SetupsStart
<1>3. snapshot.phase < Display!Lines(snapshot) * Display!LineTicks(snapshot)
  <2> DEFINE line == Display!LineTicks(snapshot)
             lines == Display!Lines(snapshot)
  <2>1. snapshot.misc \in Masks /\ snapshot.seq \in Files(4) /\ snapshot.crt \in Crts
    BY <1>2 DEF Starts, Snapshots
  <2>2. line \in Nat \ {0} /\ lines \in Nat \ {0}
    BY <2>1, LinesTakeTime
  <2>3. CASE snapshot.phase = 0
    <3> HIDE DEF line, lines
    <3>1. lines * line \in Nat \ {0}
      BY <2>2, ProductsArePositive
    <3>2. 0 < lines * line
      BY <3>1
    <3> QED  BY <2>3, <3>2 DEF line, lines
  <2>4. CASE snapshot.phase = 20 /\ snapshot.seq[1] = {0}
    <3>1. snapshot.crt[0] = 0 /\ snapshot.crt[6] = 0 /\ snapshot.crt[7] = 0 /\ 2 \notin snapshot.misc
      BY <1>2 DEF Starts
    <3>2. Display!CellWidth(snapshot) = 8 /\ 3 \notin snapshot.seq[1]
      BY <2>4 DEF Display!CellWidth
    <3>3. line = 16
      BY <3>1, <3>2 DEF Display!LineTicks
    <3>4. lines = 2
      BY <3>1 DEF Display!Lines, Display!High
    <3> QED  BY <2>4, <3>3, <3>4
  <2> QED  BY <1>2, <2>3, <2>4 DEF Starts
<1>4. Timed(Display!Restored(snapshot))
  BY <1>2, <1>3, SnapshotsAreTimed DEF Starts
<1> QED  BY <1>1, <1>4 DEF Display!Init, EgaInv

\* Every step of the adapter keeps time.
LEMMA EgaTakesSteps == ASSUME EgaInv, Display!Next PROVE EgaInv'
<1>1. Timed(ega) /\ ega \in Egas
  BY DEF EgaInv, Timed
<1>2. ASSUME NEW w \in MCPortWrites, Display!WritePort(w[1], w[2]) PROVE EgaInv'
  <2>1. w[2] \in Masks
    BY DEF MCPortWrites, Masks
  <2>2. Timed(Display!PortWritten(ega, w[1], w[2]))
    BY <1>1, <2>1, PortsAreTimed
  <2> QED  BY <1>2, <2>2, ChangesKeepTime DEF Display!WritePort
<1>3. ASSUME Display!ReadStatus PROVE EgaInv'
  <2>1. Timed(Display!StatusRead(ega))
    <3>1. 0 \in 0..7
      OBVIOUS
    <3> QED  BY <1>1, <3>1, ReadsAreTimed
  <2> QED  BY <1>3, <2>1, ChangesKeepTime DEF Display!ReadStatus
<1>4. ASSUME Display!Reset PROVE EgaInv'
  <2>1. Timed(Display!ResetState(ega.planes))
    BY <1>1, ResetIsTimed DEF Egas
  <2> QED  BY <1>4, <2>1, ChangesKeepTime DEF Display!Reset
<1>5. ASSUME Display!Restore PROVE EgaInv'
  <2>1. Timed(Display!Restored(Display!Snapshot(ega)))
    BY <1>1, EgasRestore
  <2> QED  BY <1>5, <2>1, ChangesKeepTime DEF Display!Restore
<1>6. ASSUME NEW address \in 0..7, Display!Read(address) PROVE EgaInv'
  <2>1. Timed(Display!Latched(ega, address))
    BY <1>1, ReadsAreTimed
  <2> QED  BY <1>6, <2>1, ChangesKeepTime DEF Display!Read
<1>7. ASSUME NEW address \in 0..7, NEW byte \in {{0, 7}, {1, 2}}, Display!Write(address, byte) PROVE EgaInv'
  <2>1. Timed(Display!Stored(ega, address, byte))
    <3>1. byte \in Masks
      BY DEF Masks
    <3> QED  BY <1>1, <3>1, StoresAreTimed DEF StoreOf
  <2> QED  BY <1>7, <2>1, ChangesKeepTime DEF Display!Write
<1>8. ASSUME NEW ticks \in {1, 70}, Display!AdvanceOscillatorTicks(ticks) PROVE EgaInv'
  <2> DEFINE g == Display!Advanced(ega, ticks)
  <2>1. ega' = g /\ elapsed' = (Display!Position(ega) + ticks) % (64 * ega.frameTicks)
    BY <1>8 DEF Display!AdvanceOscillatorTicks, EgaInv
  <2> HIDE DEF g
  <2>2. Timed(g) /\ elapsed' = Display!Position(g)
    BY <1>1, <2>1, RasterAdvances DEF g
  <2>3. Timed(ega') /\ elapsed' = Display!Position(ega')
    BY <2>1, <2>2
  <2> QED  BY <2>3 DEF EgaInv, Display!Position, Timed, Display!LineTicks, Display!Lines, Display!High, Display!CellWidth
<1>9. Display!Aperture = 0..7
  BY DEF Display!Aperture
<1> QED  BY <1>2, <1>3, <1>4, <1>5, <1>6, <1>7, <1>8, <1>9 DEF Display!Next

-----------------------------------------------------------------------------
(* Memory                                                                  *)

\* The addressing depends on registers only.
Addressed(s, g) == g.misc = s.misc /\ g.seq = s.seq /\ g.gc = s.gc

\* A store does not move an address.
LEMMA AddressesAgree ==
    ASSUME NEW s, NEW g, Addressed(s, g), NEW address
    PROVE  /\ Display!Offset(g, address) = Display!Offset(s, address) /\ Display!Mapped(g, address) = Display!Mapped(s, address)
           /\ Display!ReadCell(g, address) = Display!ReadCell(s, address)
           /\ Display!ReadPlane(g, address) = Display!ReadPlane(s, address)
<1>1. Display!Offset(g, address) = Display!Offset(s, address)
  BY DEF Addressed, Display!Offset
<1> QED  BY <1>1 DEF Addressed, Display!Mapped, Display!ReadCell, Display!Cell, Display!ReadsPaired, Display!ReadPlane

\* Two bits select among four.
LEMMA TwoBits == ASSUME NEW byte, NEW low PROVE Display!Two(byte, low) \in 0..3
BY DEF Display!Two, Display!Set

\* What a store leaves in a byte of a plane.
LEMMA StoresReachCells ==
    ASSUME NEW s, NEW address, NEW byte, NEW g, StoreOf(s, address, byte, g)
    PROVE  \A p, cell \in 0..3 :
             g.planes[p][cell] =
               IF /\ Display!Mapped(s, address) /\ Display!Mode(s) /= 3
                  /\ p \in Display!WrittenPlanes(s, address) /\ cell = Display!WriteCell(s, address)
               THEN Display!Data(s, p, byte) ELSE s.planes[p][cell]
<1> SUFFICES ASSUME NEW p \in 0..3, NEW cell \in 0..3
             PROVE  g.planes[p][cell] =
                      IF /\ Display!Mapped(s, address) /\ Display!Mode(s) /= 3
                         /\ p \in Display!WrittenPlanes(s, address) /\ cell = Display!WriteCell(s, address)
                      THEN Display!Data(s, p, byte) ELSE s.planes[p][cell]
  OBVIOUS
<1> DEFINE at == Display!WriteCell(s, address)
           planes == Display!WrittenPlanes(s, address)
           mapped == Display!Mapped(s, address)
           mode == Display!Mode(s)
           data(q) == Display!Data(s, q, byte)
<1>1. IF ~mapped \/ mode = 3 THEN g.planes = s.planes
      ELSE g.planes = [q \in 0..3 |-> IF q \in planes THEN [s.planes[q] EXCEPT ![at] = data(q)] ELSE s.planes[q]]
  BY StoresReachPlanes
<1>2. s.planes \in Planes
  BY DEF StoreOf, Timed, Egas
<1> HIDE DEF at, planes, mapped, mode, data
<1>3. g.planes[p][cell] = IF mapped /\ mode /= 3 /\ p \in planes /\ cell = at THEN data(p) ELSE s.planes[p][cell]
  <2>1. CASE ~mapped \/ mode = 3
    BY <1>1, <2>1
  <2>2. CASE ~(~mapped \/ mode = 3)
    <3>1. g.planes[p] = IF p \in planes THEN [s.planes[p] EXCEPT ![at] = data(p)] ELSE s.planes[p]
      BY <1>1, <2>2
    <3>2. s.planes[p] \in PlaneBytes
      BY <1>2 DEF Planes
    <3> QED  BY <2>2, <3>1, <3>2 DEF PlaneBytes
  <2> QED  BY <2>1, <2>2
<1> QED  BY <1>3 DEF at, planes, mapped, mode, data

\* With its aids off the data is the byte.
LEMMA PlainDataIsByte ==
    ASSUME NEW s, Timed(s), Display!PlainMemory(s), NEW p \in 0..3, NEW byte \in Masks
    PROVE  Display!Data(s, p, byte) = byte
<1>1. s.latch[p] \in Masks
  BY DEF Timed, Egas, Planes, PlaneBytes
<1>2. /\ Display!Mode(s) = 0 /\ s.gc[3] = {} /\ s.gc[1] = {} /\ s.gc[8] = 0..7
  BY DEF Display!PlainMemory, Display!Bit
<1>3. Display!Rotated(byte, 0) = byte
  <2>1. \A b \in 0..7 : (b - 0) % 8 = b
    OBVIOUS
  <2>2. \A b \in byte : (b - 0) % 8 = b
    BY <2>1 DEF Masks
  <2>3. {(b - 0) % 8 : b \in byte} = byte
    BY <2>2, Zenon
  <2> QED  BY <2>3 DEF Display!Rotated
<1>4. Display!Low({}, 3) = 0 /\ Display!Two({}, 3) = 0
  <2>1. \A b \in 0..7 : Display!Set({} \cap (0..2), b) = 0
    BY DEF Display!Set
  <2> QED  BY <2>1 DEF Display!Low, Display!Number, Display!Two, Display!Set
<1>5. Display!Source(s, p, byte) = byte
  BY <1>2, <1>3, <1>4 DEF Display!Source
<1>6. Display!Combined(s, byte, s.latch[p]) = byte
  BY <1>2, <1>4 DEF Display!Combined
<1> QED  BY <1>1, <1>2, <1>5, <1>6 DEF Display!Data, Masks

\* Two addresses reach the same byte.
LEMMA CellsMeet ==
    ASSUME NEW s, Display!PlainMemory(s), NEW a \in 0..7, NEW b \in 0..7, Display!Mapped(s, a), Display!Mapped(s, b)
    PROVE  /\ Display!ReadPlane(s, b) \in 0..3
           /\ (Display!ReadPlane(s, b) \in Display!WrittenPlanes(s, a) /\ Display!ReadCell(s, b) = Display!WriteCell(s, a))
              <=> Display!SameByte(s, a, b)
<1> DEFINE i == Display!Offset(s, a)
           j == Display!Offset(s, b)
           plane == Display!ReadPlane(s, b)
           planes == s.seq[2]
<1>1. i \in 0..7 /\ j \in 0..7
  BY CellsAreInPlane DEF Display!Mapped
<1>2. Display!ReadsPaired(s) <=> Display!WritesPaired(s)
  BY DEF Display!PlainMemory
<1>3. CASE Display!ReadsPaired(s)
  <2>1. plane = 2 * Display!Set(s.gc[4], 1) + (j % 2)
    BY <1>3 DEF Display!ReadPlane
  <2>2. Display!Set(s.gc[4], 1) \in {0, 1}
    BY DEF Display!Set
  <2>3. Display!WrittenPlanes(s, a) = (0..3) \cap planes \cap (IF (i % 2) = 1 THEN {1, 3} ELSE {0, 2})
    BY <1>2, <1>3 DEF Display!WrittenPlanes, Display!Plane
  <2>4. Display!ReadCell(s, b) = (j \div 2) % 4 /\ Display!WriteCell(s, a) = (i \div 2) % 4
    BY <1>2, <1>3 DEF Display!ReadCell, Display!WriteCell, Display!Cell
  <2>5. Display!SameByte(s, a, b) <=> (plane \in planes /\ (i - j) % 8 = 0)
    BY <1>3 DEF Display!SameByte
  <2> HIDE DEF i, j, plane, planes
  <2>6. plane \in 0..3 /\ (plane \in (IF (i % 2) = 1 THEN {1, 3} ELSE {0, 2}) <=> (i % 2) = (j % 2))
    <3>1. (i % 2) \in {0, 1} /\ (j % 2) \in {0, 1}
      BY <1>1
    <3> QED  BY <2>1, <2>2, <3>1
  <2>7. ((i % 2) = (j % 2) /\ (j \div 2) % 4 = (i \div 2) % 4) <=> (i - j) % 8 = 0
    BY <1>1
  <2> QED  BY <2>3, <2>4, <2>5, <2>6, <2>7 DEF plane
<1>4. CASE ~Display!ReadsPaired(s)
  <2>1. plane \in 0..3
    BY <1>4, TwoBits DEF Display!ReadPlane
  <2>2. Display!WrittenPlanes(s, a) = (0..3) \cap planes
    BY <1>2, <1>4 DEF Display!WrittenPlanes, Display!Plane
  <2>3. Display!ReadCell(s, b) = j % 4 /\ Display!WriteCell(s, a) = i % 4
    BY <1>2, <1>4 DEF Display!ReadCell, Display!WriteCell, Display!Cell
  <2>4. Display!SameByte(s, a, b) <=> (plane \in planes /\ (i - j) % 4 = 0)
    BY <1>4 DEF Display!SameByte
  <2> HIDE DEF i, j, plane, planes
  <2>5. (j % 4) = (i % 4) <=> (i - j) % 4 = 0
    BY <1>1
  <2> QED  BY <2>1, <2>2, <2>3, <2>4, <2>5 DEF plane
<1> QED  BY <1>3, <1>4

\* ibm-ega.ts, read and write: plain memory reads back.
LEMMA StoresReadBack ==
    ASSUME NEW s, NEW address, NEW byte, NEW g, StoreOf(s, address, byte, g)
    PROVE  Display!PlainMemory(s) => \A other \in 0..7 :
             Display!Peek(g, other) = IF Display!SameByte(s, address, other) THEN byte ELSE Display!Peek(s, other)
<1>1. Addressed(s, g)
  <2>1. g.misc = s.misc /\ g.seq = s.seq /\ g.gc = s.gc
    BY StoresAreTimed
  <2> QED  BY <2>1 DEF Addressed
<1>a. \A p, cell \in 0..3 :
        g.planes[p][cell] =
          IF /\ Display!Mapped(s, address) /\ Display!Mode(s) /= 3
             /\ p \in Display!WrittenPlanes(s, address) /\ cell = Display!WriteCell(s, address)
          THEN Display!Data(s, p, byte) ELSE s.planes[p][cell]
  BY StoresReachCells
<1>0. Timed(s) /\ address \in 0..7 /\ byte \in Masks
  BY DEF StoreOf
<1> SUFFICES ASSUME Display!PlainMemory(s), NEW other \in 0..7
             PROVE  Display!Peek(g, other) = IF Display!SameByte(s, address, other) THEN byte ELSE Display!Peek(s, other)
  OBVIOUS
<1>2. CASE ~Display!Mapped(s, other)
  BY <1>1, <1>2, AddressesAgree DEF Display!Peek, Display!SameByte
<1>3. CASE Display!Mapped(s, other)
  <2> DEFINE p == Display!ReadPlane(s, other)
             cell == Display!ReadCell(s, other)
  <2>1. 3 \notin s.gc[5] /\ 3 \notin g.gc[5]
    BY <1>1 DEF Display!PlainMemory, Addressed
  <2>2. Display!Peek(s, other) = s.planes[p][cell] /\ Display!Peek(g, other) = g.planes[p][cell]
    BY <1>1, <1>3, <2>1, AddressesAgree DEF Display!Peek
  <2>3. cell \in 0..3
    BY CellsAreInPlane DEF Display!ReadCell
  <2>4. p \in 0..3
    <3>1. CASE Display!ReadsPaired(s)
      <4>1. p = 2 * Display!Set(s.gc[4], 1) + (Display!Offset(s, other) % 2)
        BY <3>1 DEF Display!ReadPlane
      <4>2. Display!Set(s.gc[4], 1) \in {0, 1} /\ Display!Offset(s, other) \in Int
        BY CellsAreInPlane DEF Display!Set
      <4>3. (Display!Offset(s, other) % 2) \in {0, 1}
        BY <4>2
      <4> HIDE DEF p
      <4> QED  BY <4>1, <4>2, <4>3
    <3>2. CASE ~Display!ReadsPaired(s)
      BY <3>2, TwoBits DEF Display!ReadPlane
    <3> QED  BY <3>1, <3>2
  <2>5. CASE ~Display!Mapped(s, address)
    <3>1. ~Display!SameByte(s, address, other)
      BY <2>5 DEF Display!SameByte
    <3>2. g.planes[p][cell] = s.planes[p][cell]
      <4> HIDE DEF p, cell
      <4> QED  BY <1>a, <2>3, <2>4, <2>5
    <3> QED  BY <2>2, <3>1, <3>2
  <2>6. CASE Display!Mapped(s, address)
    <3>1. (p \in Display!WrittenPlanes(s, address) /\ cell = Display!WriteCell(s, address)) <=> Display!SameByte(s, address, other)
      BY <1>0, <1>3, <2>6, CellsMeet
    <3>2. Display!Mode(s) /= 3
      BY DEF Display!PlainMemory
    <3>3. Display!Data(s, p, byte) = byte
      <4> HIDE DEF p
      <4> QED  BY <1>0, <2>4, PlainDataIsByte
    <3>4. g.planes[p][cell] = IF Display!SameByte(s, address, other) THEN byte ELSE s.planes[p][cell]
      <4> HIDE DEF p, cell
      <4>1. g.planes[p][cell] =
               IF /\ Display!Mapped(s, address) /\ Display!Mode(s) /= 3
                  /\ p \in Display!WrittenPlanes(s, address) /\ cell = Display!WriteCell(s, address)
               THEN Display!Data(s, p, byte) ELSE s.planes[p][cell]
        BY <1>a, <2>3, <2>4
      <4> QED  BY <2>6, <3>1, <3>2, <3>3, <4>1
    <3> QED  BY <2>2, <3>4
  <2> QED  BY <2>5, <2>6
<1> QED  BY <1>2, <1>3

-----------------------------------------------------------------------------
(* Drawing                                                                 *)

\* A store that draws: in every plane, with one colour and no function.
Drawn(s, address) ==
    /\ Display!Mapped(s, address) /\ Display!Draws(s) /\ ~Display!WritesPaired(s) /\ Display!Plane \subseteq s.seq[2]
    /\ Display!Two(s.gc[3], 3) = 0
Ink(s, byte) == IF Display!Mode(s) = 2 THEN byte \cap (0..3) ELSE s.gc[0] \cap (0..3)
\* What a dot of the line shows after a store: ink, the latch, or what it did.
DotShows(s, g, address, byte, x) ==
    LET at == x + Display!Low(s.attr[19], 3)
        here == Display!ShownCell(s, 0, at \div 8) = Display!WriteCell(s, address)
        masked == 7 - (at % 8) \notin s.gc[8]
        fresh == \A p \in 0..3 : s.latch[p] = s.planes[p][Display!WriteCell(s, address)]
    IN  Display!GraphicsIndex(g, x, 0) =
          IF here /\ ~masked THEN Ink(s, byte)
          ELSE IF here /\ ~fresh THEN {p \in 0..3 : 7 - (at % 8) \in s.latch[p]}
          ELSE Display!GraphicsIndex(s, x, 0)

\* A dot is the ink where the mask lets it, the latch elsewhere.
LEMMA DrawnDataIsInk ==
    ASSUME NEW s, NEW address, Drawn(s, address), NEW p \in 0..3, NEW byte, NEW b \in 0..7
    PROVE  b \in Display!Data(s, p, byte) <=> IF b \in s.gc[8] THEN p \in Ink(s, byte) ELSE b \in s.latch[p]
<1>1. Display!Mode(s) = 2 \/ (Display!Mode(s) = 0 /\ p \in s.gc[1])
  BY DEF Drawn, Display!Draws, Display!Plane
<1>2. b \in Display!Source(s, p, byte) <=> p \in Ink(s, byte)
  BY <1>1 DEF Display!Source, Display!Whole, Display!Bit, Ink
<1>3. Display!Combined(s, Display!Source(s, p, byte), s.latch[p]) = Display!Source(s, p, byte)
  BY DEF Drawn, Display!Combined
<1>4. Display!Mode(s) /= 1
  BY <1>1
<1> QED  BY <1>2, <1>3, <1>4 DEF Display!Data

\* The raster shows a byte of the plane.
LEMMA ShownCellsAreInPlane ==
    ASSUME NEW s \in Egas, NEW column \in Nat PROVE Display!ShownCell(s, 0, column) \in 0..3
<1>1. s.crt[12] \in Nat /\ s.crt[13] \in Nat /\ s.crt[19] \in Nat
  <2> DEFINE crt == s.crt
  <2>1. crt \in Crts
    BY DEF Egas
  <2> HIDE DEF crt
  <2>2. crt[12] \in 0..255 /\ crt[13] \in 0..255 /\ crt[19] \in 0..255
    BY <2>1, CrtsAreNumbers
  <2>3. \A number \in 0..255 : number \in Nat
    OBVIOUS
  <2> QED  BY <2>2, <2>3, Zenon DEF crt
<1> DEFINE n == 256 * s.crt[12] + s.crt[13] + 0 * s.crt[19] * 2 + column
<1>2. n \in Nat
  BY <1>1
<1> HIDE DEF n
<1>3. (n % 4) \in 0..3
  BY <1>2
<1> QED  BY <1>3 DEF Display!ShownCell, n

\* ibm-ega.ts, write and graphicsIndex: what is drawn is what shows.
LEMMA DrawnDotsShow ==
    ASSUME NEW s, NEW address, NEW byte, NEW g, StoreOf(s, address, byte, g)
    PROVE  Drawn(s, address) => \A x \in 0..31 : DotShows(s, g, address, byte, x)
<1>1. g.crt = s.crt /\ g.attr = s.attr
  BY StoresAreTimed
<1>2. \A p, cell \in 0..3 :
        g.planes[p][cell] =
          IF /\ Display!Mapped(s, address) /\ Display!Mode(s) /= 3
             /\ p \in Display!WrittenPlanes(s, address) /\ cell = Display!WriteCell(s, address)
          THEN Display!Data(s, p, byte) ELSE s.planes[p][cell]
  BY StoresReachCells
<1>3. s \in Egas
  BY DEF StoreOf, Timed
<1> SUFFICES ASSUME Drawn(s, address), NEW x \in 0..31
             PROVE  DotShows(s, g, address, byte, x)
  BY Zenon
<1> DEFINE at == x + Display!Low(s.attr[19], 3)
           b == 7 - (at % 8)
           cell == Display!ShownCell(s, 0, at \div 8)
           there == Display!WriteCell(s, address)
<1>4. at \in Nat
  BY LowBits
<1>5. b \in 0..7 /\ (at \div 8) \in Nat
  <2> HIDE DEF at
  <2> QED  BY <1>4
<1>6. cell \in 0..3
  <2> DEFINE column == at \div 8
  <2>1. column \in Nat
    BY <1>5
  <2> HIDE DEF column
  <2>2. Display!ShownCell(s, 0, column) \in 0..3
    BY <1>3, <2>1, ShownCellsAreInPlane
  <2> QED  BY <2>2 DEF column
<1>7. Display!GraphicsIndex(s, x, 0) = {p \in 0..3 : b \in s.planes[p][cell]}
  BY DEF Display!GraphicsIndex, Display!Plane
<1>8. Display!GraphicsIndex(g, x, 0) = {p \in 0..3 : b \in g.planes[p][cell]}
  BY <1>1 DEF Display!GraphicsIndex, Display!Plane, Display!ShownCell
<1>9. \A p \in 0..3 : p \in Display!WrittenPlanes(s, address)
  BY DEF Drawn, Display!WrittenPlanes, Display!Plane
<1>10. Display!Mapped(s, address) /\ Display!Mode(s) /= 3
  BY DEF Drawn, Display!Draws
<1> HIDE DEF at, b, cell, there, DotShows
<1>11. \A p \in 0..3 : g.planes[p][cell] = IF cell = there THEN Display!Data(s, p, byte) ELSE s.planes[p][cell]
  BY <1>2, <1>6, <1>9, <1>10 DEF there
<1>12. \A p \in 0..3 : b \in Display!Data(s, p, byte) <=> IF b \in s.gc[8] THEN p \in Ink(s, byte) ELSE b \in s.latch[p]
  BY <1>5, DrawnDataIsInk
<1>13. Ink(s, byte) \subseteq 0..3
  BY DEF Ink
<1>14. CASE cell = there /\ b \in s.gc[8]
  <2>1. {p \in 0..3 : b \in g.planes[p][cell]} = Ink(s, byte)
    BY <1>11, <1>12, <1>13, <1>14
  <2> QED  BY <1>8, <1>14, <2>1 DEF at, b, cell, there, DotShows
<1>15. CASE cell = there /\ b \notin s.gc[8] /\ ~\A p \in 0..3 : s.latch[p] = s.planes[p][there]
  <2>1. {p \in 0..3 : b \in g.planes[p][cell]} = {p \in 0..3 : b \in s.latch[p]}
    BY <1>11, <1>12, <1>15
  <2> QED  BY <1>8, <1>15, <2>1 DEF at, b, cell, there, DotShows
<1>16. CASE cell = there /\ b \notin s.gc[8] /\ \A p \in 0..3 : s.latch[p] = s.planes[p][there]
  <2>1. {p \in 0..3 : b \in g.planes[p][cell]} = {p \in 0..3 : b \in s.planes[p][cell]}
    BY <1>11, <1>12, <1>16
  <2> QED  BY <1>7, <1>8, <1>16, <2>1 DEF at, b, cell, there, DotShows
<1>17. CASE cell /= there
  <2>1. {p \in 0..3 : b \in g.planes[p][cell]} = {p \in 0..3 : b \in s.planes[p][cell]}
    BY <1>11, <1>17
  <2> QED  BY <1>7, <1>8, <1>17, <2>1 DEF at, b, cell, there, DotShows
<1> QED  BY <1>14, <1>15, <1>16, <1>17

\* Both, of every store.
LEMMA EgaStoresShow == ASSUME EgaInv PROVE Display!StoresShow
<1> SUFFICES ASSUME NEW address \in 0..7, NEW byte \in {{0, 7}, {1, 2}}, Display!Write(address, byte)
             PROVE  Display!DrawnIsShown(address, byte) /\ Display!StoreReadsBack(address, byte)
  BY DEF Display!StoresShow, Display!Aperture
<1> DEFINE after == ega'
<1>1. StoreOf(ega, address, byte, after)
  BY DEF StoreOf, EgaInv, Display!Write, Display!Changes, Masks
<1> HIDE DEF after
<1>2. Display!PlainMemory(ega) => \A other \in 0..7 :
        Display!Peek(after, other) = IF Display!SameByte(ega, address, other) THEN byte ELSE Display!Peek(ega, other)
  BY <1>1, StoresReadBack
<1>3. Drawn(ega, address) => \A x \in 0..31 : DotShows(ega, after, address, byte, x)
  BY <1>1, DrawnDotsShow
<1>4. Display!StoreReadsBack(address, byte)
  BY <1>2 DEF Display!StoreReadsBack, Display!Aperture, after
<1>5. Display!DrawnIsShown(address, byte)
  <2>1. Drawn(ega, address) => \A x \in 0..31 : DotShows(ega, ega', address, byte, x)
    BY <1>3 DEF after
  <2>2. 8 * 4 - 1 = 31
    OBVIOUS
  <2> QED  BY <2>1, <2>2, ZenonT(30) DEF Display!DrawnIsShown, Drawn, DotShows, Ink, Display!Plane
<1> QED  BY <1>4, <1>5

-----------------------------------------------------------------------------
(* The specification                                                       *)

\* Between accesses the adapter can be restored and is on time.
LEMMA EgaCanBeRestored == ASSUME EgaInv PROVE Display!EgaRestorable /\ Display!RasterIsTime
BY EgasRestore DEF EgaInv, Display!EgaRestorable, Display!RasterIsTime

DevicesInv == (part = "transfers" => BoardInv) /\ (part = "display" => EgaInv)

\* Whichever device a behaviour drives, it starts sound.
LEMMA DevicesStart == MCInit => DevicesInv
BY FirstBoard, EgaStarts DEF MCInit, DevicesInv

\* And stays sound.
LEMMA DevicesTakeSteps ==
    ASSUME DevicesInv, [MCNext]_<<part, pic, diskette, inspector, transfers, basic, display>> PROVE DevicesInv'
<1>1. CASE MCNext
  <2>1. CASE part = "transfers"
    <3>1. Board!Next /\ part' = "transfers"
      BY <1>1, <2>1 DEF MCNext
    <3>2. BoardInv'
      BY <2>1, <3>1, BoardTakesSteps DEF DevicesInv, BoardSteps
    <3> QED  BY <3>1, <3>2 DEF DevicesInv
  <2>2. CASE part = "display"
    <3>1. Display!Next /\ part' = "display"
      BY <1>1, <2>2 DEF MCNext
    <3>2. EgaInv'
      BY <2>2, <3>1, EgaTakesSteps DEF DevicesInv
    <3> QED  BY <3>1, <3>2 DEF DevicesInv
  <2>3. CASE part \notin {"transfers", "display"}
    <3>1. part' = part
      BY <1>1, <2>3 DEF MCNext
    <3> QED  BY <2>3, <3>1 DEF DevicesInv
  <2> QED  BY <2>1, <2>2, <2>3
<1>2. CASE UNCHANGED <<part, pic, diskette, inspector, transfers, basic, display>>
  <2>1. part' = part /\ board' = board /\ ram' = ram /\ job' = job /\ moves' = moves /\ ega' = ega /\ elapsed' = elapsed
    BY <1>2 DEF transfers, display
  <2>2. BoardInv => BoardInv'
    BY <2>1 DEF BoardInv
  <2>3. EgaInv => EgaInv'
    BY <2>1 DEF EgaInv
  <2> QED  BY <2>1, <2>2, <2>3 DEF DevicesInv
<1> QED  BY <1>1, <1>2

\* io.ts:232, ibm-ega.ts: refresh and diskette transfers are exact in bytes and in time,
\* whatever the program, host and disks do between them; what the CPU stores in video memory
\* is what it reads and what shows; board and adapter can be restored at any boundary.
THEOREM TransfersAreExact == MCSpec => TransfersHold
<1>1. MCInit => DevicesInv
  BY DevicesStart
<1>2. DevicesInv /\ [MCNext]_<<part, pic, diskette, inspector, transfers, basic, display>> => DevicesInv'
  BY DevicesTakeSteps
<1>3. DevicesInv => (part = "transfers" => Board!Restorable)
  BY BoardCanBeRestored DEF DevicesInv
<1>4. DevicesInv => (part = "display" => Display!EgaRestorable /\ Display!RasterIsTime)
  BY EgaCanBeRestored DEF DevicesInv
<1>5. DevicesInv /\ [MCNext]_<<part, pic, diskette, inspector, transfers, basic, display>>
      => [part = "display" => Display!StoresShow]_display
  BY EgaStoresShow DEF DevicesInv
<1>6. DevicesInv /\ [MCNext]_<<part, pic, diskette, inspector, transfers, basic, display>>
      => [part = "transfers" => Board!TransferIsExact /\ Board!GrantIsExact]_transfers
  <2> SUFFICES ASSUME DevicesInv, [MCNext]_<<part, pic, diskette, inspector, transfers, basic, display>>, part = "transfers"
               PROVE  (Board!TransferIsExact /\ Board!GrantIsExact) \/ UNCHANGED transfers
    OBVIOUS
  <2>1. CASE MCNext
    <3>1. Board!Next
      BY <2>1 DEF MCNext
    <3> QED  BY <3>1, BoardTakesSteps DEF DevicesInv, BoardSteps
  <2>2. CASE UNCHANGED <<part, pic, diskette, inspector, transfers, basic, display>>
    BY <2>2
  <2> QED  BY <2>1, <2>2
<1> QED  BY <1>1, <1>2, <1>3, <1>4, <1>5, <1>6, PTL DEF MCSpec, TransfersHold
=============================================================================
