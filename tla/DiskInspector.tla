---------------------------- MODULE DiskInspector ----------------------------
(***************************************************************************)
(* The Apple II page's DOS inspector (apple2-disk-inspector.ts): catalogue *)
(* and file sectors of the committed image (dos33-catalogue.ts), the trace *)
(* of sectors written and of the reads DOS returned (dos33-reads.ts), and  *)
(* the row the user has selected in whichever list is shown. The image is  *)
(* four sectors; a sector keeps its link, its two catalogue entries and    *)
(* its two track/sector pairs.                                             *)
(***************************************************************************)
EXTENDS Integers, Sequences, FiniteSets

CONSTANTS
    TraceLimit,     \* reads and writes kept
    MaxGuest, MaxUser,   \* what either does
    MaxReferences   \* sectors one file may refer to

VARIABLES disk, panel, trace, calls, returned, guest, user

vars == <<disk, panel, trace, calls, returned, guest, user>>

FlatMap(Part(_), seq) ==
    LET upTo[n \in 0..Len(seq)] == IF n = 0 THEN <<>> ELSE upTo[n - 1] \o Part(seq[n]) IN upTo[Len(seq)]

----------------------------------------------------------------------------
(* dos33-catalogue.ts                                                      *)

Size == 4
SectorIds == 1..Size
NoLink == 0
Outside == 9          \* a pointer past the last track or sector
Unused == 0           \* an entry, or the list its file begins with
Deleted == 255
Plain == [standard |-> TRUE, first |-> 1, next |-> <<2, NoLink, NoLink, NoLink>>,
          slots |-> <<<<Deleted, 3>>, <<3, Unused>>, <<Unused, Unused>>, <<Unused, Unused>>>>,
          pairs |-> <<<<NoLink, NoLink>>, <<NoLink, NoLink>>, <<NoLink, 4>>, <<4, 4>>>>]
Contents ==
    {Plain, [Plain EXCEPT !.standard = FALSE], [Plain EXCEPT !.first = Outside],
     [Plain EXCEPT !.next[2] = 1], [Plain EXCEPT !.next[2] = 1, !.slots[2][2] = 4],
     [Plain EXCEPT !.slots[1][1] = Unused], [Plain EXCEPT !.slots[1][2] = Outside],
     [Plain EXCEPT !.next[3] = 3], [Plain EXCEPT !.next[3] = 4], [Plain EXCEPT !.pairs[3][1] = Outside]}

\* The generator's sectors, and whether it ended at a link to none.
Chain(content, first) ==
    LET at[n \in 1..(Size + 1)] ==
          IF n = 1 THEN first ELSE IF at[n - 1] \in SectorIds THEN content.next[at[n - 1]] ELSE NoLink
        good == {n \in 1..Size : \A m \in 1..n : at[m] \in SectorIds /\ \A k \in 1..(m - 1) : at[k] # at[m]}
    IN  [sectors |-> [n \in 1..Cardinality(good) |-> at[n]], whole |-> at[Cardinality(good) + 1] = NoLink]

\* The first unused slot ends the catalogue, whatever its links say after it.
NoCatalogue == [valid |-> FALSE, files |-> <<>>, sectors |-> <<>>]
Catalogue(content) ==
    LET chain == Chain(content, content.first)
        slots == FlatMap(LAMBDA s : <<<<s, 1>>, <<s, 2>>>>, chain.sectors)
        listOf(slot) == content.slots[slot[1]][slot[2]]
        ends == {n \in DOMAIN slots : listOf(slots[n]) = Unused}
        used == IF ends = {} THEN Len(slots) ELSE (CHOOSE n \in ends : \A m \in ends : n <= m) - 1
    IN  IF ~content.standard \/ (ends = {} /\ ~chain.whole) THEN NoCatalogue
        ELSE [valid |-> TRUE,
              files |-> SelectSeq(SubSeq(slots, 1, used), LAMBDA slot : listOf(slot) # Deleted),
              sectors |-> SubSeq(chain.sectors, 1, IF ends = {} THEN Len(chain.sectors) ELSE used \div 2 + 1)]

\* The rows of a file; a bad link or too many references leave none.
FileSectors(content, file) ==
    LET chain == Chain(content, content.slots[file[1]][file[2]])
        data(list) == SelectSeq(content.pairs[list], LAMBDA sector : sector # NoLink)
        rows == <<[key |-> <<"entry", file[1]>>, index |-> file[1]]>>
                \o FlatMap(LAMBDA list : <<[key |-> <<"list", list>>, index |-> list]>>
                              \o [n \in DOMAIN data(list) |-> [key |-> <<"sector", 10 * list + n>>, index |-> data(list)[n]]],
                           chain.sectors)
        late == {n \in DOMAIN rows : rows[n].key[1] = "sector" /\ n > MaxReferences + 1}
    IN  IF ~chain.whole \/ late # {} \/ \E n \in DOMAIN rows : rows[n].index = Outside THEN <<>> ELSE rows

----------------------------------------------------------------------------
(* The panel.                                                              *)

NoMedium == [id |-> 0, version |-> 0, content |-> Plain]
NoImage == [version |-> -1, content |-> Plain]
Traced == {<<"writes", 0, 0>>, <<"reads", 0, 0>>}
Volume == <<"volume", 0, 0>>
TrackSource == <<"track", 0, 0>>
FileSource(file) == <<"file", file[1], file[2]>>
Committed == [version |-> disk.version, content |-> disk.content]
Parsed(image) == IF image = NoImage THEN NoCatalogue ELSE Catalogue(image.content)
Options(image) == {Volume, TrackSource} \cup Traced
                  \cup {FileSource(Parsed(image).files[n]) : n \in DOMAIN Parsed(image).files}

RowsOf(p, reads) ==
    LET traced(kept) == [n \in DOMAIN kept |-> [key |-> <<"event", kept[n].number>>, index |-> kept[n].sector]]
    IN  CASE p.image = NoImage -> <<>>
          [] p.image # NoImage /\ p.source[1] = "writes" -> traced(p.writes)
          [] p.image # NoImage /\ p.source[1] = "reads" -> traced(reads)
          [] p.image # NoImage /\ p.source = TrackSource -> [n \in SectorIds |-> [key |-> <<"track", n>>, index |-> n]]
          [] p.image # NoImage /\ p.source = Volume ->
               <<[key |-> <<"vtoc", 0>>, index |-> 1], [key |-> <<"boot", 0>>, index |-> 1]>>
               \o [n \in DOMAIN Parsed(p.image).sectors |->
                    [key |-> <<"catalogue", Parsed(p.image).sectors[n]>>, index |-> Parsed(p.image).sectors[n]]]
          [] p.image # NoImage /\ p.source[1] = "file" ->
               IF p.source \in Options(p.image) THEN FileSectors(p.image.content, <<p.source[2], p.source[3]>>) ELSE <<>>

SelectedKey(p) == IF p.selected = 0 THEN <<>> ELSE p.rows[p.selected].key
FirstWith(rows, key) == CHOOSE n \in DOMAIN rows : rows[n].key = key /\ \A m \in 1..(n - 1) : rows[m].key # key
ShowRows(p, rows, preferred) ==
    LET kept == ~(p.source \in Traced /\ p.followLatest) /\ \E n \in DOMAIN rows : rows[n].key = preferred
    IN  [p EXCEPT !.rows = rows,
           !.selected = IF kept THEN FirstWith(rows, preferred)
                        ELSE IF p.source \in Traced THEN Len(rows) ELSE IF rows = <<>> THEN 0 ELSE 1]
ShowSource(p, reads, preferred) == ShowRows(p, RowsOf(p, reads), preferred)
\* New options: the source stays if it is still offered.
ShowImage(p, reads) ==
    ShowSource([p EXCEPT !.source = IF p.source \in Options(p.image) THEN @ ELSE Volume], reads, SelectedKey(p))

Fresh(id) == [medium |-> id, image |-> NoImage, source |-> Volume, rows |-> <<>>, selected |-> 0, followLatest |-> TRUE,
              readNumber |-> 0, writes |-> <<>>, sequence |-> 0]

Bounded(kept) == IF Len(kept) > TraceLimit THEN Tail(kept) ELSE kept
NoCall == [request |-> NoLink, entry |-> "none", stack |-> 0, caller |-> "none"]
NoTrace == [pending |-> NoCall, latest |-> NoLink, reads |-> <<>>, sequence |-> 0]
Interrupted(t) == [t EXCEPT !.pending = NoCall, !.latest = NoLink]
Cleared(t) == [t EXCEPT !.reads = <<>>, !.sequence = 0]

\* A page that has shown its disk and traced two writes and two reads of it.
Two == <<[number |-> 1, sector |-> 2], [number |-> 2, sector |-> 3]>>
Init ==
    /\ disk = [id |-> 1, version |-> 2, content |-> Plain]
    /\ panel = ShowImage([Fresh(1) EXCEPT !.image = Committed, !.readNumber = 2, !.writes = Two, !.sequence = 2], Two)
    /\ trace = [NoTrace EXCEPT !.reads = Two, !.sequence = 2]
    /\ calls = <<>> /\ returned = NoLink /\ guest = 0 /\ user = 0
Guest == guest < MaxGuest /\ guest' = guest + 1 /\ UNCHANGED user
User == user < MaxUser /\ user' = user + 1 /\ UNCHANGED guest
Panel == User /\ returned' = NoLink /\ UNCHANGED <<disk, calls>>

\* refresh: a new medium empties the panel and both traces before its image is shown.
Changed == disk.id # panel.medium
Number(reads) == IF reads = <<>> THEN 0 ELSE reads[Len(reads)].number
Shown(p, reads) ==
    IF p.image # Committed THEN ShowImage([p EXCEPT !.image = Committed], reads)
    ELSE IF p.source[1] = "reads" /\ Number(reads) # p.readNumber THEN ShowSource(p, reads, SelectedKey(p))
    ELSE p
Refresh(update) ==
    /\ trace' = IF Changed THEN Cleared(Interrupted(trace)) ELSE trace
    /\ \E p \in {IF Changed THEN Fresh(disk.id) ELSE panel} :
         panel' = IF update /\ disk # NoMedium
                  THEN [Shown(p, trace'.reads) EXCEPT !.readNumber = Number(trace'.reads)] ELSE p
    /\ returned' = NoLink /\ UNCHANGED <<disk, calls, guest, user>>

ChooseSource(source) ==
    /\ Panel /\ panel.image # NoImage /\ source \in Options(panel.image) \ {panel.source}
    /\ panel' = ShowSource([panel EXCEPT !.source = source, !.followLatest = TRUE], trace.reads, <<>>)
    /\ UNCHANGED trace
ChooseSector(n) ==
    /\ Panel /\ n \in DOMAIN panel.rows \ {panel.selected}
    /\ panel' = [panel EXCEPT !.selected = n, !.followLatest = n = Len(panel.rows)] /\ UNCHANGED trace
Clear ==
    /\ Panel /\ panel.source \in Traced /\ panel.rows # <<>>
    /\ LET reads == panel.source[1] = "reads"
           p == [IF reads THEN [panel EXCEPT !.readNumber = 0] ELSE [panel EXCEPT !.writes = <<>>, !.sequence = 0]
                 EXCEPT !.followLatest = TRUE]
           t == IF reads THEN Cleared(trace) ELSE trace
       IN  trace' = t /\ panel' = ShowSource(p, t.reads, <<>>)
BrowseSector(logical) ==
    /\ Panel /\ panel.image # NoImage
    /\ panel' = ShowSource([panel EXCEPT !.source = TrackSource], trace.reads, <<"track", logical>>) /\ UNCHANGED trace

Mount == /\ User /\ disk' = [id |-> user + 2, version |-> 0, content |-> Plain]
         /\ trace' = [trace EXCEPT !.latest = NoLink] /\ returned' = NoLink /\ UNCHANGED <<panel, calls>>
Eject == /\ User /\ disk # NoMedium /\ disk' = NoMedium
         /\ trace' = [trace EXCEPT !.latest = NoLink] /\ returned' = NoLink /\ UNCHANGED <<panel, calls>>
\* The guest writes a sector of the disk; the panel hears of it once it knows the disk.
WriteSector(sector, content) ==
    /\ Guest /\ disk # NoMedium /\ disk' = [disk EXCEPT !.version = @ + 1, !.content = content]
    /\ panel' = IF panel.medium # disk.id THEN panel
                ELSE [panel EXCEPT !.sequence = @ + 1,
                        !.writes = Bounded(Append(@, [number |-> panel.sequence + 1, sector |-> sector]))]
    /\ trace' = [trace EXCEPT !.latest = NoLink] /\ returned' = NoLink /\ UNCHANGED calls

----------------------------------------------------------------------------
(* dos33-reads.ts, and the guest it observes: calls of DOS's entry with a  *)
(* request, or with anything that is no read of a sector into RAM.         *)

ReadRequest(request) == IF disk = NoMedium THEN NoLink ELSE request
\* A plausible bug: only a request for a read replaces the call under observation.
EnteredKeepingPending(entry, request, caller, depth) ==
    IF ReadRequest(request) = NoLink \/ (entry = "boot" /\ caller # "loader") THEN [trace EXCEPT !.latest = NoLink]
    ELSE [trace EXCEPT !.latest = NoLink,
            !.pending = [request |-> request, entry |-> entry, stack |-> depth, caller |-> caller]]
Entered(entry, request, caller, depth) ==
    IF ReadRequest(request) = NoLink \/ (entry = "boot" /\ caller # "loader") THEN Interrupted(trace)
    ELSE [trace EXCEPT !.latest = NoLink,
            !.pending = [request |-> request, entry |-> entry, stack |-> depth, caller |-> caller]]
Frame(entry, request, caller) == [entry |-> entry, request |-> ReadRequest(request), caller |-> caller]
Call(entry, request, caller) ==
    /\ Guest /\ Len(calls) < 2 /\ calls' = Append(calls, Frame(entry, request, caller)) /\ returned' = NoLink
    /\ trace' = Entered(entry, request, caller, Len(calls) + 1) /\ UNCHANGED <<disk, panel>>
\* A retry jumps to the entry again, with another request under the same return address.
Retry(request) ==
    /\ Guest /\ calls # <<>> /\ returned' = NoLink
    /\ LET top == calls[Len(calls)] IN
         /\ calls' = [calls EXCEPT ![Len(calls)] = Frame(top.entry, request, top.caller)]
         /\ trace' = Entered(top.entry, request, top.caller, Len(calls))
    /\ UNCHANGED <<disk, panel>>
\* The wrapper's last RTS, with carry clear or set.
Return(success) ==
    /\ calls # <<>> /\ calls' = SubSeq(calls, 1, Len(calls) - 1)
    /\ LET top == calls[Len(calls)]
           p == trace.pending
           mine == p # NoCall /\ p.entry = top.entry
           read == mine /\ success /\ p.stack = Len(calls) /\ p.caller = top.caller
           number == trace.sequence + 1
       IN  /\ returned' = IF success THEN top.request ELSE NoLink
           /\ trace' = [pending |-> IF mine THEN NoCall ELSE p, latest |-> IF read THEN p.request ELSE NoLink,
                        reads |-> IF read THEN Bounded(Append(trace.reads, [number |-> number, sector |-> p.request]))
                                  ELSE trace.reads,
                        sequence |-> IF read THEN number ELSE trace.sequence]
    /\ UNCHANGED <<disk, panel, guest, user>>
\* The guest discards its frames, or the page restores a machine that may be inside a call.
Unwind == /\ Guest /\ calls # <<>> /\ calls' = <<>> /\ returned' = NoLink
          /\ trace' = [trace EXCEPT !.latest = NoLink] /\ UNCHANGED <<disk, panel>>
Restore(restored) == /\ User /\ calls' = restored /\ returned' = NoLink
                     /\ trace' = Interrupted(trace) /\ UNCHANGED <<disk, panel>>

Next ==
    \/ \E update \in BOOLEAN : Refresh(update)
    \/ \E source \in {Volume, TrackSource, FileSource(<<1, 2>>), FileSource(<<2, 1>>)} \cup Traced : ChooseSource(source)
    \/ \E n \in 1..3 : ChooseSector(n)
    \/ Clear \/ BrowseSector(2) \/ Mount \/ Eject \/ Unwind
    \/ \E content \in Contents : WriteSector(2, content)
    \/ \E request \in {NoLink, 1, 2} :
         Call("boot", request, "loader") \/ Call("boot", request, "program") \/ Call("installed", request, "program")
    \/ \E request \in {NoLink, 2} : Retry(request)
    \/ \E success \in BOOLEAN : Return(success)
    \/ \E restored \in {<<>>, <<Frame("installed", 2, "program")>>} : Restore(restored)
Spec == Init /\ [][Next]_vars

----------------------------------------------------------------------------
(* Properties.                                                             *)

\* dos33-reads.ts: a read is recorded only when the call that returned succeeded in reading
\* that sector, whatever the guest nested, retried, discarded or had restored.
ReadIsReturned == trace'.sequence > trace.sequence => returned' # NoLink /\ trace'.latest = returned'

\* apple2-disk-inspector.ts: an update shows the rows of the image, the writes and the reads
\* there are now, of no other disk, and keeps the row the user picked while it is listed.
UpdateIsCurrent ==
    disk # NoMedium /\ UNCHANGED <<disk, calls, guest, user>> /\ Refresh(TRUE) =>
        /\ panel'.medium = disk.id /\ panel'.image = Committed
        /\ panel'.rows = RowsOf(panel', trace'.reads)
        /\ \A n \in DOMAIN panel'.rows : panel'.rows[n].index \in SectorIds
        /\ LET was == SelectedKey(panel)
               listed == \E n \in DOMAIN panel'.rows : panel'.rows[n].key = was
           IN  panel'.medium = panel.medium /\ panel'.source = panel.source /\ listed /\ was # SelectedKey(panel')
               => panel.followLatest /\ panel.source \in Traced
\* The row the trace follows is its last.
LatestIsFollowed == panel.source \in Traced /\ panel.followLatest => panel.selected = Len(panel.rows)
=============================================================================
