-------------------------------- MODULE DiskII --------------------------------
(***************************************************************************)
(* The Apple II's diskette: the controller (apple2-disk-ii.ts), the DOS-   *)
(* order medium and its encoded tracks (dos33-disk.ts), a guest that reads *)
(* and writes through the soft switches, and the page's observers: the     *)
(* transfer recorder (apple2-disk-activity.ts), the stream inspector that  *)
(* recognizes fields in what the CPU consumed (dos33-stream.ts) and the    *)
(* track inspector with its held image (apple2-disk-track.ts).             *)
(* A track is scaled down: a prologue is two bytes, an address one byte,   *)
(* a data field one value and its checksum, an epilogue one or two bytes.  *)
(***************************************************************************)
EXTENDS Integers, Sequences, FiniteSets

CONSTANTS
    Tracks, Sectors,   \* of a medium
    Values,            \* what a sector may hold
    MaxMoves,          \* what the guest or the user may do besides polling the data register
    MaxActs            \* those and the updates of the track inspector

VARIABLES
    drive,        \* the controller's state
    medium,       \* the mounted disk, or NoMedium
    stream,       \* the stream inspector's state
    recording,    \* transfers are recorded
    seen,         \* the field completed by the last instruction, or None
    script,       \* the guest's write in progress
    head,         \* history: where the head was at each byte shifted since Q7 went off, and the byte
    shown,        \* the track inspector: its image and the tracks it captured
    moves, looks

vars == <<drive, medium, stream, recording, seen, script, head, shown, moves, looks>>

None == "none"
NoMedium == [id |-> 0]

----------------------------------------------------------------------------
(* The medium: sectors in DOS order, each track encoded as bytes.          *)

Sync == 255
Start == 213          \* D5, the first byte of both prologues
AddressMark == 150
DataMark == 173
Epilogue == 222
AddressEnd == 235
Id(track, sector) == 160 + Sectors * track + sector
Datum(value) == 176 + value
Check(value) == 200 + value

FirstGap == 2
SectorGap == 1
DataGap == 1
AddressFieldSize == 5
DataFieldSize == 5
SectorSpan == AddressFieldSize + DataGap + DataFieldSize + SectorGap
TrackLength == FirstGap + Sectors * SectorSpan - SectorGap

\* The order in which sectors pass under the head is not the image's.
Logical(sector) == Sectors - 1 - sector
DataField(value) == <<Start, DataMark, Datum(value), Check(value), Epilogue>>
Encoded(sectors, track) ==
    [position \in 0..(TrackLength - 1) |->
      LET sector == (position - FirstGap) \div SectorSpan
          within == (position - FirstGap) % SectorSpan
          address == <<Start, AddressMark, Id(track, sector), Epilogue, AddressEnd>>
      IN  IF position < FirstGap THEN Sync
          ELSE IF within < AddressFieldSize THEN address[within + 1]
          ELSE IF within \in (AddressFieldSize + DataGap)..(SectorSpan - SectorGap - 1)
               THEN DataField(sectors[track][Logical(sector)])[within - AddressFieldSize - DataGap + 1]
          ELSE Sync]

\* The value of one complete data field between optional sync bytes, if it is one.
Decoded(bytes) ==
    {value \in Values : \E first \in 1..Len(bytes) :
       /\ first + DataFieldSize - 1 <= Len(bytes)
       /\ SubSeq(bytes, first, first + DataFieldSize - 1) = DataField(value)
       /\ \A at \in 1..Len(bytes) : at \in first..(first + DataFieldSize - 1) \/ bytes[at] = Sync}

\* inspectDos33Track: each address field of a track, with the first data field before the next.
FieldsOf(bytes) ==
    LET marked(kind) == {at \in 0..(TrackLength - 2) : bytes[at] = Start /\ bytes[at + 1] = kind}
        between(at) == {o \in marked(DataMark) : o > at /\ \A next \in marked(AddressMark) : next <= at \/ o < next}
        data(at) == {o \in between(at) : \A other \in between(at) : o <= other}
    IN  {<<bytes[at + 2], UNION {Decoded([i \in 1..DataFieldSize |-> bytes[o + i - 1]]) : o \in data(at)}>> :
           at \in marked(AddressMark)}

\* The sector whose data field would be replaced by one that starts at this position.
Placed(position, size) ==
    {sector \in 0..(Sectors - 1) :
       LET within == position - (FirstGap + sector * SectorSpan)
       IN  /\ within >= AddressFieldSize - 1 /\ within <= AddressFieldSize + DataGap
           /\ within + size <= SectorSpan}

Stored(track, sector, value) == [medium EXCEPT !.sectors[track][Logical(sector)] = value, !.version = @ + 1]
\* writeDataField: an accepted field replaces its sector and makes a new snapshot.
Wrote(track, position, bytes) ==
    IF ~medium.writable \/ Placed(position, Len(bytes)) = {} \/ Decoded(bytes) = {} THEN medium
    ELSE Stored(track, CHOOSE s \in Placed(position, Len(bytes)) : TRUE, CHOOSE value \in Decoded(bytes) : TRUE)

----------------------------------------------------------------------------
(* The controller.                                                         *)

ClocksPerByte == 3
ReadyClocks == 2
LastHalf == 2 * (Tracks - 1)
PhaseDelta == <<<<0, 1, 2, -1>>, <<-1, 0, 1, 2>>, <<-2, -1, 0, 1>>, <<1, -2, -1, 0>>>>
Unread == -1

PowerOn == [half |-> 0, phase |-> 0, position |-> 0, motor |-> FALSE, selected |-> 1, q6 |-> FALSE, q7 |-> FALSE,
            latch |-> 0, clocks |-> 0, shifted |-> <<>>, start |-> Unread, distance |-> Unread]
Dropped(d) == [d EXCEPT !.shifted = <<>>, !.start = Unread]
TrackOf(half) == half \div 2
Turning(d) == d.motor /\ d.selected = 1 /\ medium # NoMedium
Smaller(x, y) == IF x < y THEN x ELSE y

\* advanceCpuClocks: bytes pass under the head, read or not.
Advanced(d, m, elapsed) ==
    LET clocks == d.clocks + elapsed
        bytes == clocks \div ClocksPerByte
        position == (d.position + bytes) % TrackLength
        rest == clocks % ClocksPerByte
    IN  IF elapsed = 0 \/ ~(d.motor /\ d.selected = 1 /\ m # NoMedium) THEN d
        ELSE [d EXCEPT !.clocks = rest, !.position = position,
                !.distance = IF @ = Unread THEN @ ELSE Smaller(TrackLength, @ + bytes),
                !.latch = IF d.q6 \/ d.q7 THEN @ ELSE IF rest >= ReadyClocks THEN 0
                          ELSE IF bytes > 0
                               THEN Encoded(m.sectors, TrackOf(d.half))[(position + TrackLength - 1) % TrackLength]
                          ELSE @]

Phased(d, phase) ==
    IF ~d.motor \/ d.selected # 1 THEN d
    ELSE LET to == d.half + PhaseDelta[d.phase + 1][phase + 1]
             at == [d EXCEPT !.half = IF to < 0 THEN 0 ELSE Smaller(to, LastHalf), !.phase = phase]
         IN  IF phase = d.phase THEN at ELSE [Dropped(at) EXCEPT !.latch = 0]

\* The write latch is shifted out: a transfer, and a byte of the field to come.
Shifts(d) == d.q6 /\ d.q7 /\ Turning(d) /\ medium.writable
Shifted(d) ==
    IF ~Shifts(d) THEN d
    ELSE [d EXCEPT !.start = IF d.shifted = <<>> THEN d.position ELSE @,
                   !.shifted = IF Len(@) < SectorSpan THEN Append(@, d.latch) ELSE @]

\* What each soft switch does to the controller.
Switched(d, switch) ==
    CASE switch \in {1, 3, 5, 7} -> Phased(d, switch \div 2)
      [] switch \in {0, 2, 4, 6} -> d
      [] switch = 8 -> [Dropped(d) EXCEPT !.motor = FALSE, !.latch = 0]
      [] switch = 9 -> [d EXCEPT !.motor = TRUE]
      [] switch = 10 -> [d EXCEPT !.selected = 1, !.latch = 0]
      [] switch = 11 -> [Dropped(d) EXCEPT !.selected = 2, !.latch = 0]
      [] switch = 12 -> [Shifted(d) EXCEPT !.q6 = FALSE]
      [] switch = 13 -> [d EXCEPT !.q6 = TRUE]
      [] switch = 14 -> [Dropped(d) EXCEPT !.q7 = FALSE, !.latch = IF d.q7 THEN 0 ELSE @]
      [] switch = 15 -> [d EXCEPT !.q7 = TRUE]
\* Q7 off ends a write: the field goes to the track now under the head.
Committed(d, switch) ==
    IF switch = 14 /\ d.shifted # <<>> /\ medium # NoMedium /\ Len(d.shifted) < SectorSpan
    THEN Wrote(TrackOf(d.half), d.start, d.shifted) ELSE medium

\* A read of $C0xC consumes a ready byte; one with a write pending shifts it.
Samples(d, switch) == switch = 12 /\ ~d.q7 /\ Turning(d) /\ d.latch >= 128
Transfers(d, switch, written) ==
    IF switch = 12 /\ Shifts(d) THEN <<[kind |-> "write"]>>
    ELSE IF written = Unread /\ Samples(d, switch)
    THEN <<[kind |-> "read", half |-> d.half, position |-> (d.position + TrackLength - 1) % TrackLength,
            value |-> d.latch, distance |-> d.distance]>>
    ELSE <<>>
Loading(d, switch) == /\ switch = 13 \/ (d.q6 /\ switch # 12)
                      /\ switch = 15 \/ (d.q7 /\ switch # 14)
Accessed(d, switch, written) ==
    [Switched(d, switch) EXCEPT
       !.distance = IF written = Unread /\ Samples(d, switch) THEN 0 ELSE @,
       !.latch = IF written # Unread /\ Loading(d, switch) THEN written ELSE @]

----------------------------------------------------------------------------
(* The stream inspector.                                                   *)

Cut == [previous |-> <<>>, address |-> <<>>, field |-> <<>>, prefix |-> <<>>, since |-> 0]
LastTwo(bytes) == IF Len(bytes) > 2 THEN SubSeq(bytes, Len(bytes) - 1, Len(bytes)) ELSE bytes
Mark(kind) == IF kind = "address" THEN AddressMark ELSE DataMark
Sampled(b) == <<b.half, b.position, b.value>>

Follows(b, distance) ==
    LET p == stream.previous
    IN  p = <<>> \/ (b.half = p[1] /\ distance < TrackLength /\ b.position = (p[2] + distance) % TrackLength)
Same(b, distance) == distance = 0 /\ stream.previous = Sampled(b)
Passed(s, distance) == IF s.address = <<>> THEN s.since ELSE s.since + distance
\* A plausible bug: a byte that comes after missed ones continues the field.
SteppedAcrossGap(s, b, distance) ==
    [s EXCEPT !.previous = Sampled(b), !.since = Passed(s, distance),
              !.address = IF Passed(s, distance) > SectorSpan THEN <<>> ELSE @]
\* The state left by a byte that follows the previous one, a gap or a seek.
Stepped(s, b, distance) ==
    LET gap == s.previous # <<>> /\ distance # 1
    IN  [previous |-> Sampled(b), since |-> Passed(s, distance),
         address |-> IF Passed(s, distance) > SectorSpan THEN <<>> ELSE s.address,
         field |-> IF gap THEN <<>> ELSE s.field, prefix |-> IF gap THEN <<>> ELSE s.prefix]

\* A field under way takes the byte; at its length it is an address or a sector's data.
AddressOf(b, bytes) ==
    {sector \in 0..(Sectors - 1) : bytes[3] = Id(TrackOf(b.half), sector) /\ bytes[4] = Epilogue}
ValueOf(bytes) == {value \in Values : bytes[3] = Datum(value) /\ bytes[4] = Check(value)}
FieldLength == 4
Silent(s) == [stream |-> s, seen |-> [kind |-> None]]
Prologue(s, prefix) ==
    IF \E kind \in {"address", "data"} : prefix = <<Start, Mark(kind)>>
    THEN [s EXCEPT !.field = prefix, !.prefix = <<>>, !.address = IF prefix[2] = AddressMark THEN <<>> ELSE @]
    ELSE [s EXCEPT !.prefix = prefix]
Addressed(s, place) ==
    [stream |-> [s EXCEPT !.field = <<>>, !.since = 0, !.address = place],
     seen |-> [kind |-> "address", place |-> place, value |-> {}]]
Completed(s, b, bytes) ==
    IF bytes[2] = AddressMark
    THEN Addressed(s, IF AddressOf(b, bytes) = {} THEN <<>>
                      ELSE <<TrackOf(b.half), CHOOSE sector \in AddressOf(b, bytes) : TRUE>>)
    ELSE [stream |-> [s EXCEPT !.field = <<>>, !.address = <<>>],
          seen |-> IF s.address = <<>> THEN [kind |-> None]
                   ELSE [kind |-> "data", place |-> s.address, value |-> ValueOf(bytes)]]
Taken(s, b) ==
    CASE s.field = <<>> -> Silent(Prologue(s, LastTwo(Append(s.prefix, b.value))))
      [] s.field # <<>> /\ Len(s.field) + 1 < FieldLength -> Silent([s EXCEPT !.field = Append(@, b.value)])
      [] OTHER -> Completed(s, b, Append(s.field, b.value))
ConsumedAfter(b, distance) ==
    IF Same(b, distance) THEN Silent(stream)
    ELSE Taken(Stepped(IF Follows(b, distance) THEN stream ELSE Cut, b, distance), b)
Consumed(b) == ConsumedAfter(b, IF b.distance = Unread THEN 1 ELSE b.distance)

\* The recorder hands over what one instruction transferred.
Recorded(transfers, m) ==
    CASE ~recording \/ medium = NoMedium \/ (transfers = <<>> /\ m = medium) -> Silent(stream)
      [] recording /\ medium # NoMedium /\ m # medium -> Silent(Cut)
      [] OTHER -> IF transfers[1].kind = "write" THEN Silent(Cut) ELSE Consumed(transfers[1])

----------------------------------------------------------------------------
(* The guest and the user.                                                 *)

Disk(id, value) == [id |-> id, writable |-> id = 1, version |-> 0,
                    sectors |-> [track \in 0..(Tracks - 1) |-> [sector \in 0..(Sectors - 1) |-> value]]]
NoImage == [id |-> 0]
Blank == [image |-> NoImage, tracks |-> << >>, displayed |-> << >>]
NoScript == <<>>

\* A restored machine whose guest is polling the data register.
Init ==
    /\ drive \in {[PowerOn EXCEPT !.motor = TRUE, !.half = half, !.phase = half] : half \in 0..1}
    /\ medium = [Disk(1, CHOOSE v \in Values : TRUE)
                 EXCEPT !.sectors = [track \in 0..(Tracks - 1) |-> [sector \in 0..(Sectors - 1) |->
                                      IF (track + sector) % 2 = 0 THEN 1 ELSE 2]]]
    /\ stream = Cut /\ recording = TRUE /\ seen = [kind |-> None]
    /\ script = NoScript /\ head = <<>> /\ shown = Blank /\ moves = 0 /\ looks = 0

Move == moves < MaxMoves /\ moves + looks < MaxActs /\ moves' = moves + 1

Swept(switch) ==
    head' = CASE switch = 12 /\ Shifts(drive) -> Append(head, <<drive.half, drive.position, drive.latch>>)
              [] switch = 14 -> <<>>
              [] OTHER -> head
Access(switch, written, elapsed) ==
    /\ medium' = Committed(drive, switch)
    /\ drive' = Advanced(Accessed(drive, switch, written), medium', elapsed) /\ Swept(switch)
Observe(record) == stream' = record.stream /\ seen' = record.seen

\* One instruction: its access to the controller, then its clocks.
Instruction(switch, written, elapsed) ==
    /\ Access(switch, written, elapsed) /\ Observe(Recorded(Transfers(drive, switch, written), medium'))
    /\ UNCHANGED <<recording, shown, looks>>

\* Slower or faster than the disk: a byte missed, or the same one sampled again.
Poll(elapsed) ==
    /\ script = NoScript /\ Instruction(12, Unread, elapsed) /\ UNCHANGED script
    /\ IF elapsed = ClocksPerByte THEN UNCHANGED moves ELSE Move
Touch(switch) == Move /\ Instruction(switch, Unread, 0) /\ UNCHANGED script

\* The guest writes a field: Q6 and Q7 on, then a store and a shift for each byte, then Q7 off.
Scripted(field) ==
    [i \in 1..(2 * Len(field) + 2) |->
      CASE i = 1 -> <<13, Unread>> [] i = 2 -> <<15, field[1]>> [] i = 2 * Len(field) + 2 -> <<14, Unread>>
        [] i % 2 = 1 /\ i > 1 -> <<12, Unread>> [] OTHER -> <<13, field[i \div 2]>>]
Spoiled(value) == <<Start, DataMark, Datum(value), Check(value) + 10, Epilogue>>
Fields == {DataField(v) : v \in Values}
          \cup {<<Sync>> \o DataField(2), Spoiled(2), SubSeq(DataField(2), 1, 4),
                DataField(2) \o [i \in 1..(SectorSpan - DataFieldSize) |-> Sync]}
BeginWrite(field) ==
    /\ Move /\ script = NoScript /\ ~drive.q7
    /\ script' = Scripted(field) /\ UNCHANGED <<drive, medium, stream, recording, seen, head, shown, looks>>
Write ==
    /\ script # NoScript
    /\ LET access == Head(script) IN Instruction(access[1], access[2], IF access[1] = 12 THEN ClocksPerByte ELSE 0)
    /\ script' = Tail(script)
    /\ UNCHANGED moves
Abandon == Move /\ script # NoScript /\ script' = NoScript
           /\ UNCHANGED <<drive, medium, stream, recording, seen, head, shown, looks>>

\* The page connects the recorder to a new medium, which clears it.
Eject ==
    /\ Move /\ medium # NoMedium /\ medium' = NoMedium
    /\ drive' = [Dropped(drive) EXCEPT !.distance = Unread, !.position = 0, !.clocks = 0, !.latch = 0]
    /\ stream' = Cut /\ seen' = [kind |-> None] /\ head' = <<>> /\ UNCHANGED script
    /\ shown' = Blank /\ UNCHANGED <<recording, looks>>
Mount(id, value) ==
    /\ Move /\ medium.id # id /\ medium' = Disk(id, value) /\ drive' = [PowerOn EXCEPT !.motor = TRUE]
    /\ stream' = Cut /\ seen' = [kind |-> None] /\ script' = NoScript /\ head' = <<>>
    /\ shown' = Blank /\ UNCHANGED <<recording, looks>>
Record ==
    /\ Move /\ recording' = ~recording /\ stream' = Cut /\ seen' = [kind |-> None]
    /\ UNCHANGED <<drive, medium, script, head, shown, looks>>
\* A host access is no instruction's.
HostRead ==
    /\ Move /\ Access(12, Unread, 0)
    /\ Observe(Silent(IF recording /\ Transfers(drive, 12, Unread) # <<>> THEN Cut ELSE stream))
    /\ UNCHANGED <<recording, script, shown, looks>>

\* The inspector's image is the committed snapshot while Live is on; a track is captured
\* only while that snapshot is still the medium's.
Look == moves + looks < MaxActs /\ looks' = looks + 1 /\ UNCHANGED <<drive, medium, stream, recording, script, head, moves>>
        /\ seen' = [kind |-> None]
Snapshot == [id |-> medium.id, version |-> medium.version, sectors |-> medium.sectors]
Refresh ==
    /\ Look /\ medium # NoMedium
    /\ shown' = IF shown.image = Snapshot THEN shown ELSE [image |-> Snapshot, tracks |-> << >>, displayed |-> << >>]
Browse(track) ==
    /\ Look /\ shown.image # NoImage
    /\ LET known == track \in DOMAIN shown.tracks
           fresh == shown.image = Snapshot
           tracks == IF known \/ ~fresh THEN shown.tracks
                     ELSE [at \in DOMAIN shown.tracks \cup {track} |->
                            IF at = track THEN Encoded(medium.sectors, track) ELSE shown.tracks[at]]
       IN  shown' = [shown EXCEPT !.tracks = tracks, !.displayed = IF known \/ fresh THEN <<track>> ELSE << >>]

Next ==
    \/ Write \/ Abandon \/ Eject \/ Record \/ HostRead \/ Refresh
    \/ \E elapsed \in {ClocksPerByte, 1, 2 * ClocksPerByte, SectorSpan * ClocksPerByte, TrackLength * ClocksPerByte} :
         Poll(elapsed)
    \/ \E switch \in {1, 3, 5, 7, 8, 9, 10, 11, 14} : Touch(switch)
    \/ \E field \in Fields : BeginWrite(field)
    \/ Mount(2, 2)
    \/ \E track \in 0..(Tracks - 1) : Browse(track)
Spec == Init /\ [][Next]_vars

----------------------------------------------------------------------------
(* Properties.                                                             *)

\* apple2-disk-ii.ts, the constructor: it takes every snapshot the controller gives.
Restorable ==
    /\ drive.shifted # <<>> => medium # NoMedium /\ medium.writable /\ drive.q7 /\ drive.motor /\ drive.selected = 1
    /\ Len(drive.shifted) <= SectorSpan /\ (drive.shifted # <<>>) = (drive.start # Unread)
    /\ drive.position < TrackLength /\ drive.half \in 0..LastHalf

\* dos33-stream.ts: a field the inspector recognizes is one that is on the disk, and data is
\* the sector's whose address it follows, whatever the guest missed, sought, wrote or swapped.
FieldsAreOnDisk ==
    seen.kind # None =>
      /\ seen.place # <<>> /\ medium # NoMedium
      /\ seen.kind = "data" => seen.value = {medium.sectors[seen.place[1]][Logical(seen.place[2])]}

\* apple2-disk-track.ts: a captured track shows the bytes of the image it is displayed with,
\* though the disk was written meanwhile, and the fields found in it are that image's sectors.
CapturesMatchImage ==
    /\ \A track \in DOMAIN shown.tracks : shown.tracks[track] = Encoded(shown.image.sectors, track)
    /\ \A n \in DOMAIN shown.displayed :
         LET track == shown.displayed[n]
         IN  FieldsOf(shown.tracks[track]) =
               {<<Id(track, sector), {shown.image.sectors[track][Logical(sector)]}>> : sector \in 0..(Sectors - 1)}

\* apple2-disk-ii.ts and dos33-disk.ts: the medium changes only by a complete and valid field,
\* all of it written on one track in the gap after an address field, and only there.
WritesWholeField ==
    medium'.id = medium.id /\ medium' # medium =>
        /\ medium.writable
        /\ \E from \in 1..Len(head), value \in Values, sector \in 0..(Sectors - 1) :
             LET size == Len(head) - from + 1
                 half == head[from][1]
             IN  /\ \A at \in from..Len(head) : head[at][1] = half
                 /\ Decoded([at \in 1..size |-> head[from + at - 1][3]]) = {value}
                 /\ sector \in Placed(head[from][2], size)
                 /\ medium'.sectors = [medium.sectors EXCEPT ![TrackOf(half)][Logical(sector)] = value]

\* The disk, the controller and its observers agree with one another between any two steps.
DiskAgrees == Restorable /\ FieldsAreOnDisk /\ CapturesMatchImage
=============================================================================
