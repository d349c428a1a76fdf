------------------------------- MODULE IbmEga -------------------------------
(***************************************************************************)
(* The EGA of the XT: its indexed registers behind two index/data pairs,   *)
(* an attribute flip-flop and a relocated CRTC; the CPU's aperture on four *)
(* planes, with latches, write modes and odd/even addressing; the raster   *)
(* that the oscillator moves; and the dot it shows, which Input Status 1   *)
(* samples.  A byte is the set of its bits, but the CRTC's registers are   *)
(* numbers.  The planes are PlaneSize bytes long (65,536 in the code;      *)
(* addresses wrap within a smaller one).                                   *)
(***************************************************************************)
EXTENDS Integers, FiniteSets

CONSTANTS
    PlaneSize,          \* bytes of a plane
    Setups,             \* snapshots a session may start from
    PortWrites,         \* <<port, byte>> the guest writes
    Bytes,              \* bytes it stores in the aperture
    Ticks,              \* oscillator ticks between its accesses
    MaxActs             \* bound on its accesses

VARIABLES
    ega,                \* the adapter
    elapsed,            \* history: ticks since the timing last changed, within 64 frames
    sampled,            \* the last status the guest read
    acts

ega_vars == <<ega, elapsed, sampled, acts>>

Bit == 0..7
Byte == SUBSET Bit
Plane == 0..3
Cells == 0..(PlaneSize - 1)
Aperture == 0..(2 * PlaneSize - 1)
Set(byte, b) == IF b \in byte THEN 1 ELSE 0
Number(byte) ==
    Set(byte, 0) + 2 * Set(byte, 1) + 4 * Set(byte, 2) + 8 * Set(byte, 3)
    + 16 * Set(byte, 4) + 32 * Set(byte, 5) + 64 * Set(byte, 6) + 128 * Set(byte, 7)
Low(byte, bits) == Number(byte \cap (0..(bits - 1)))
Two(byte, low) == Set(byte, low) + 2 * Set(byte, low + 1)

----------------------------------------------------------------------------
(* Geometry and timing, of the CRTC's and the sequencer's registers.       *)

\* A ninth bit: the one of this weight in the overflow register.
High(s, weight) == 256 * ((s.crt[7] \div weight) % 2)
Columns(s) == s.crt[1] + 1
CellWidth(s) == IF 0 \in s.seq[1] THEN 8 ELSE 9
CellHeight(s) == (s.crt[9] % 32) + 1
DisplayLines(s) == s.crt[18] + High(s, 2) + 1

\* 14,318,180 and 16,257,000 Hz, rounded to the nearest tick.
Enhanced(dots) == (2 * dots * 715909 + 812850) \div (2 * 812850)
LineTicks(s) ==
    LET dots == (s.crt[0] + 2) * CellWidth(s) * (IF 3 \in s.seq[1] THEN 2 ELSE 1)
    IN  IF 2 \in s.misc THEN Enhanced(dots) ELSE dots
Lines(s) == s.crt[6] + High(s, 1) + 2

\* The line and frame are kept, and recomputed with the registers they depend on.
SetTiming(s) ==
    LET line == LineTicks(s)
        frame == Lines(s) * line
    IN  [s EXCEPT !.lineTicks = line, !.frameTicks = frame, !.phase = @ % frame]

Retrace(s, line) ==
    LET start == s.crt[16] + High(s, 4)
    IN  line >= start /\ line - start < (s.crt[17] - start) % 16

Advanced(s, ticks) ==
    LET phase == s.phase + ticks
    IN  IF phase >= s.frameTicks
        THEN [s EXCEPT !.field = (@ + (phase \div s.frameTicks)) % 64, !.phase = phase % s.frameTicks]
        ELSE [s EXCEPT !.phase = phase]

----------------------------------------------------------------------------
(* A session's adapter.                                                    *)

Registers(count, value) == [i \in 0..(count - 1) |-> value]
ResetState(planes) ==
    SetTiming([misc |-> {}, seqIndex |-> 0, gcIndex |-> 0, crtIndex |-> 0, attrIndex |-> {}, attrData |-> FALSE,
               phase |-> 0, field |-> 0, seq |-> Registers(5, {}), gc |-> Registers(9, {}), crt |-> Registers(25, 0),
               attr |-> Registers(20, {}), latch |-> Registers(4, {}), planes |-> planes, lineTicks |-> 18, frameTicks |-> 36])
Blank == [p \in Plane |-> [c \in Cells |-> {}]]

\* A snapshot has no line or frame; the phase is checked against those of its registers.
Snapshot(s) ==
    [misc |-> s.misc, seqIndex |-> s.seqIndex, gcIndex |-> s.gcIndex, crtIndex |-> s.crtIndex,
     attrIndex |-> s.attrIndex, attrData |-> s.attrData, phase |-> s.phase, field |-> s.field, seq |-> s.seq,
     gc |-> s.gc, crt |-> s.crt, attr |-> s.attr, latch |-> s.latch, planes |-> s.planes]
Built(snapshot) ==
    SetTiming([misc |-> snapshot.misc, seqIndex |-> snapshot.seqIndex, gcIndex |-> snapshot.gcIndex,
               crtIndex |-> snapshot.crtIndex, attrIndex |-> snapshot.attrIndex, attrData |-> snapshot.attrData,
               phase |-> 0, field |-> 0, seq |-> snapshot.seq, gc |-> snapshot.gc, crt |-> snapshot.crt,
               attr |-> snapshot.attr, latch |-> snapshot.latch, planes |-> snapshot.planes, lineTicks |-> 18, frameTicks |-> 36])
Accepts(snapshot) ==
    /\ snapshot.seqIndex \in 0..7 /\ snapshot.gcIndex \in 0..15 /\ snapshot.crtIndex \in 0..31
    /\ snapshot.attrIndex \subseteq 0..5 /\ snapshot.attrData \in BOOLEAN
    /\ snapshot.phase \in 0..(Built(snapshot).frameTicks - 1) /\ snapshot.field \in 0..63
Restored(snapshot) == [Built(snapshot) EXCEPT !.phase = snapshot.phase, !.field = snapshot.field]

----------------------------------------------------------------------------
(* Ports.  The CRTC answers at 3B4 or 3D4.                                 *)

\* A register beyond the file is not there.
Put(file, index, byte) == IF index \in DOMAIN file THEN [file EXCEPT ![index] = byte] ELSE file
CrtPort(s) == IF 0 \in s.misc THEN "3d" ELSE "3b"
PortWritten(s, port, byte) ==
    CASE port = <<CrtPort(s), "4">> -> [s EXCEPT !.crtIndex = Low(byte, 5)]
      [] port = <<CrtPort(s), "5">> -> SetTiming([s EXCEPT !.crt = Put(@, s.crtIndex, Number(byte))])
      [] port \in {<<"3c", "0">>, <<"3c", "1">>} ->
           [s EXCEPT !.attrData = ~@,
                     !.attr = IF s.attrData THEN Put(@, Low(s.attrIndex, 5), byte) ELSE @,
                     !.attrIndex = IF s.attrData THEN @ ELSE byte \cap (0..5)]
      [] port = <<"3c", "2">> -> SetTiming([s EXCEPT !.misc = byte])
      [] port = <<"3c", "4">> -> [s EXCEPT !.seqIndex = Low(byte, 3)]
      [] port = <<"3c", "5">> -> SetTiming([s EXCEPT !.seq = Put(@, s.seqIndex, byte)])
      [] port = <<"3c", "e">> -> [s EXCEPT !.gcIndex = Low(byte, 4)]
      [] port = <<"3c", "f">> -> [s EXCEPT !.gc = Put(@, s.gcIndex, byte)]
      [] OTHER -> s

----------------------------------------------------------------------------
(* The aperture.                                                           *)

\* The memory map selects a window of the aperture; -1 is outside it.
Offset(s, address) ==
    LET window == Two(s.gc[6], 2)
        half == PlaneSize + PlaneSize \div 2
    IN  CASE 1 \notin s.misc -> -1
          [] window = 0 -> address
          [] window = 1 /\ address < PlaneSize -> address
          [] window = 2 /\ address \in PlaneSize..(half - 1) -> address - PlaneSize
          [] window = 3 /\ address >= half -> address - half
          [] OTHER -> -1
Mapped(s, address) == Offset(s, address) >= 0
Cell(s, address, paired) == (IF paired THEN Offset(s, address) \div 2 ELSE Offset(s, address)) % PlaneSize

ReadsPaired(s) == 4 \in s.gc[5]
ReadCell(s, address) == Cell(s, address, ReadsPaired(s))
ReadPlane(s, address) ==
    IF ReadsPaired(s) THEN 2 * Set(s.gc[4], 1) + (Offset(s, address) % 2) ELSE Two(s.gc[4], 0)
\* Colour compare finds the dots of one colour, in the planes it cares about.
Peek(s, address) ==
    IF ~Mapped(s, address) THEN Bit
    ELSE LET byte(p) == s.planes[p][ReadCell(s, address)]
         IN  IF 3 \in s.gc[5] THEN {b \in Bit : \A p \in Plane \cap s.gc[7] : b \in byte(p) <=> p \in s.gc[2]}
             ELSE byte(ReadPlane(s, address))
Latched(s, address) ==
    IF Mapped(s, address) THEN [s EXCEPT !.latch = [p \in Plane |-> s.planes[p][ReadCell(s, address)]]] ELSE s

WritesPaired(s) == 2 \notin s.seq[4]
WriteCell(s, address) == Cell(s, address, WritesPaired(s))
WrittenPlanes(s, address) ==
    Plane \cap s.seq[2] \cap (IF ~WritesPaired(s) THEN Plane ELSE IF Offset(s, address) % 2 = 1 THEN {1, 3} ELSE {0, 2})
Mode(s) == Two(s.gc[5], 0)
Rotated(byte, by) == {(b - by) % 8 : b \in byte}
Whole(on) == IF on THEN Bit ELSE {}
Source(s, p, byte) ==
    IF Mode(s) = 2 THEN Whole(p \in byte)
    ELSE IF p \in s.gc[1] THEN Whole(p \in s.gc[0])
    ELSE Rotated(byte, Low(s.gc[3], 3))
Combined(s, data, latch) ==
    CASE Two(s.gc[3], 3) = 0 -> data
      [] Two(s.gc[3], 3) = 1 -> data \cap latch
      [] Two(s.gc[3], 3) = 2 -> data \cup latch
      [] Two(s.gc[3], 3) = 3 -> (data \ latch) \cup (latch \ data)
Data(s, p, byte) ==
    IF Mode(s) = 1 THEN s.latch[p]
    ELSE (Combined(s, Source(s, p, byte), s.latch[p]) \cap s.gc[8]) \cup (s.latch[p] \ s.gc[8])
Stored(s, address, byte) ==
    IF ~Mapped(s, address) \/ Mode(s) = 3 THEN s
    ELSE [s EXCEPT !.planes = [p \in Plane |->
            IF p \in WrittenPlanes(s, address) THEN [@[p] EXCEPT ![WriteCell(s, address)] = Data(s, p, byte)] ELSE @[p]]]

----------------------------------------------------------------------------
(* The dot at a raster position, and the pins that Input Status 1 samples. *)

ShownCell(s, row, column) ==
    (256 * s.crt[12] + s.crt[13] + row * s.crt[19] * 2 + column) % PlaneSize
Colour(s, index) == s.attr[Number(index \cap Plane \cap s.attr[18])] \cap (0..5)
GraphicsIndex(s, x, y) ==
    LET at == x + Low(s.attr[19], 3)
    IN  {p \in Plane : 7 - (at % 8) \in s.planes[p][ShownCell(s, y, at \div 8)]}
Glyph(s, character, attribute, line) ==
    s.planes[2][(16384 * Two(s.seq[3], IF 3 \in attribute THEN 2 ELSE 0) + 32 * Number(character) + line) % PlaneSize]
TextIndex(s, x, y) ==
    LET cell == ShownCell(s, y \div CellHeight(s), x \div CellWidth(s))
        character == s.planes[0][cell]
        attribute == s.planes[1][cell]
        line == y % CellHeight(s)
        dot == x % CellWidth(s)
        glyph == Glyph(s, character, attribute, line)
        ink == IF dot < 8 THEN 7 - dot \in glyph
               ELSE 2 \in s.attr[16] /\ character \cap {5, 6, 7} = {6, 7} /\ 0 \in glyph
        dark == (s.field \div 16) % 2 = 1
        blinks == 3 \in s.attr[16]
        cursor == /\ cell = 256 * s.crt[14] + s.crt[15] /\ (s.crt[10] \div 32) % 2 = 0
                  /\ line \in (s.crt[10] % 32)..(s.crt[11] % 32) /\ ~dark
    IN  IF cursor \/ (ink /\ ~(blinks /\ 7 \in attribute /\ dark)) THEN attribute \cap Plane
        ELSE {b - 4 : b \in attribute \cap (4..(IF blinks THEN 6 ELSE 7))}
Pixel(s, x, y) == Colour(s, IF 0 \in s.attr[16] THEN GraphicsIndex(s, x, y) ELSE TextIndex(s, x, y))

Pins == <<{0, 2}, {1, 3}, {4, 5}, {6}>>
Status(s) ==
    LET line == s.phase \div s.lineTicks
        dot == ((s.phase % s.lineTicks) * (s.crt[0] + 2) * CellWidth(s)) \div s.lineTicks
        active == line < DisplayLines(s) /\ dot < Columns(s) * CellWidth(s)
    IN  [active |-> active, retrace |-> Retrace(s, line),
         pins |-> IF active THEN Pixel(s, dot, line) \cap Pins[Two(s.attr[18], 4) + 1] ELSE {}]
StatusRead(s) == [s EXCEPT !.attrData = FALSE]

----------------------------------------------------------------------------
NoStatus == [active |-> FALSE, retrace |-> FALSE, pins |-> {}]
Act == acts < MaxActs /\ acts' = acts + 1
Position(s) == s.field * s.frameTicks + s.phase
Changes(s) ==
    /\ ega' = s
    /\ elapsed' = IF s.frameTicks = ega.frameTicks /\ s.phase = ega.phase /\ s.field = ega.field THEN elapsed ELSE Position(s)

WritePort(port, byte) == Act /\ Changes(PortWritten(ega, port, byte)) /\ UNCHANGED sampled
ReadStatus == Act /\ Changes(StatusRead(ega)) /\ sampled' = Status(ega)
Read(address) == Act /\ Changes(Latched(ega, address)) /\ UNCHANGED sampled
Write(address, byte) == Act /\ Changes(Stored(ega, address, byte)) /\ UNCHANGED sampled
Reset == Act /\ Changes(ResetState(ega.planes)) /\ UNCHANGED sampled
Restore == Changes(Restored(Snapshot(ega))) /\ UNCHANGED <<sampled, acts>>
AdvanceOscillatorTicks(ticks) ==
    /\ Act /\ UNCHANGED sampled
    /\ ega' = Advanced(ega, ticks) /\ elapsed' = (elapsed + ticks) % (64 * ega.frameTicks)

Init == /\ \E snapshot \in Setups : ega = Restored(snapshot)
        /\ elapsed = Position(ega) /\ sampled = NoStatus /\ acts = 0
Next ==
    \/ \E w \in PortWrites : WritePort(w[1], w[2])
    \/ ReadStatus \/ Reset \/ Restore
    \/ \E address \in Aperture : Read(address) \/ \E byte \in Bytes : Write(address, byte)
    \/ \E ticks \in Ticks : AdvanceOscillatorTicks(ticks)
Spec == Init /\ [][Next]_ega_vars

----------------------------------------------------------------------------
(* Properties.                                                             *)

\* snapshot and the constructor: whatever the guest wrote, to whichever registers and in
\* whichever order, the state a session stores is accepted and restored exactly; the line and
\* frame that the raster uses are never those of older registers.
EgaRestorable == Accepts(Snapshot(ega)) /\ Restored(Snapshot(ega)) = ega

\* advanceOscillatorTicks: however the ticks are cut up, the raster is where they put it.
RasterIsTime == elapsed = Position(ega)

\* write, graphicsIndex: a dot drawn with a colour (write mode 2, or set/reset in every plane)
\* shows that colour, and no dot elsewhere changes; the masked dots beside it keep theirs if
\* the latches were loaded from their byte.
Draws(s) == Mode(s) = 2 \/ (Mode(s) = 0 /\ Plane \subseteq s.gc[1])
DrawnIsShown(address, byte) ==
    LET colour == IF Mode(ega) = 2 THEN byte \cap Plane ELSE ega.gc[0] \cap Plane
        At(x) == x + Low(ega.attr[19], 3)
        Here(x) == ShownCell(ega, 0, At(x) \div 8) = WriteCell(ega, address)
        Masked(x) == 7 - (At(x) % 8) \notin ega.gc[8]
        fresh == \A p \in Plane : ega.latch[p] = ega.planes[p][WriteCell(ega, address)]
    IN  (/\ Mapped(ega, address) /\ Draws(ega) /\ ~WritesPaired(ega) /\ Plane \subseteq ega.seq[2] /\ Two(ega.gc[3], 3) = 0)
        => \A x \in 0..(8 * PlaneSize - 1) :
              GraphicsIndex(ega', x, 0) =
                 IF Here(x) /\ ~Masked(x) THEN colour
                 ELSE IF Here(x) /\ ~fresh THEN {p \in Plane : 7 - (At(x) % 8) \in ega.latch[p]}
                 ELSE GraphicsIndex(ega, x, 0)

\* read, write: with its aids off (no rotation, function, set/reset or mask, and odd/even the
\* same both ways) the aperture is a memory: a byte stored in the plane that is read comes
\* back, and no other byte changes unless it is the same byte of the same plane.
PlainMemory(s) ==
    /\ Mode(s) = 0 /\ s.gc[3] = {} /\ s.gc[1] = {} /\ s.gc[8] = Bit /\ 3 \notin s.gc[5]
    /\ ReadsPaired(s) <=> WritesPaired(s)
SameByte(s, a, b) ==
    /\ Mapped(s, a) /\ Mapped(s, b) /\ ReadPlane(s, b) \in s.seq[2]
    /\ (Offset(s, a) - Offset(s, b)) % (IF ReadsPaired(s) THEN 2 * PlaneSize ELSE PlaneSize) = 0
StoreReadsBack(address, byte) ==
    PlainMemory(ega) =>
      \A other \in Aperture :
        Peek(ega', other) = IF SameByte(ega, address, other) THEN byte ELSE Peek(ega, other)
StoresShow ==
    \A address \in Aperture, byte \in Bytes :
        Write(address, byte) => DrawnIsShown(address, byte) /\ StoreReadsBack(address, byte)
=============================================================================
