------------------------------ MODULE Applesoft ------------------------------
(***************************************************************************)
(* The BASIC tools of the Apple II page: the listing they share, which is   *)
(* decoded from RAM and kept while nothing in it changes, the breakpoints   *)
(* that follow a statement when its line moves, the visit counts, the       *)
(* profile of GOSUB calls and the events of a statement.  The CPU may store anything at any time; a tool   *)
(* compares what it holds with the listing only where the interpreter asks  *)
(* for a line or dispatches a statement, and it tells one listing from the  *)
(* next by the object, not by its contents.                                 *)
(*                                                                         *)
(* Addresses are the cells of a small memory.  A link and a line number     *)
(* take one cell each.  The interpreter is external: it may dispatch at any *)
(* line and pointer, and leave any record on its stack.                     *)
(***************************************************************************)
EXTENDS Integers, Sequences, SequencesExt, FiniteSets

CONSTANTS
    Top,                       \* the last address below $C000
    Kind,                      \* what each byte is to the decoder
    Programs,                  \* the areas the line editor or a restored state
                               \* leaves: [start, cells]
    Stores,                    \* <<address, byte>>: single stores
    Numbers,                   \* line numbers
    Pointers,                  \* where a dispatch may be
    Callers,                   \* <<line, pointer>>: what a GOSUB may save
    Depth,                     \* GOSUB records the stack has room for
    MaxCount                   \* bound on visits and calls

VARIABLES
    tool,                      \* the tool this behaviour follows
    machine,                   \* RAM, TXTTAB, VARTAB, the ROM and its mapping
    program,                   \* the listing's cache and what tools last saw
    points,                    \* breakpoints
    stop,                      \* what the last match answered
    counts,                    \* visits to each statement
    stack,                     \* the CPU stack's GOSUB records, and its depth
    profiles, active,          \* GOSUB calls: their totals and live records
    events,                    \* what the event recorder has pending and keeps
    executing                  \* history: the statement the interpreter is in

followed == <<tool, machine, program, points, stop, counts, stack, profiles, active>>
vars == <<followed, events, executing>>
-----------------------------------------------------------------------------
(* decodeProgram: the line chain, and each line's statements.              *)

\* CHRGET skips spaces before dispatch.
FirstByte(b, at) ==
    LET skip[i \in DOMAIN b] == IF Kind[b[i]] = "space" THEN skip[i + 1] ELSE i
    IN  skip[at]

\* Open a statement; add a byte to the one that is open.
Begin(b, s, at) ==
    [s EXCEPT !.statements = Append(@, [address |-> FirstByte(b, at), parts |-> <<>>])]
Put(b, s, at, token) ==
    [s EXCEPT !.statements[Len(s.statements)].parts = Append(@, [byte |-> b[at], token |-> token, at |-> at])]

Keyword(kind) == kind \in {"keyword", "remark", "data", "if", "goto", "then", "gosub"}
TokensOf(statement, kind) ==
    {part \in ToSet(statement.parts) : part.token /\ Kind[part.byte] = kind}

\* One byte of a line.  IF X GOTO n dispatches the GOTO, and THEN a statement.
Scan(b, s, i) ==
    LET kind == Kind[b[i]]
        opened == IF kind = "goto" /\ TokensOf(Last(s.statements), "if") # {} THEN Begin(b, s, i) ELSE s
        put == [Put(b, opened, i, TRUE) EXCEPT !.comment = kind = "remark", !.data = kind = "data"]
    IN  CASE kind = "colon" /\ ~s.comment /\ ~s.quoted -> [Begin(b, s, i + 1) EXCEPT !.data = FALSE]
          [] Keyword(kind) /\ ~s.comment /\ ~s.quoted /\ ~s.data ->
               IF kind = "then" /\ Kind[b[FirstByte(b, i + 1)]] # "digit" THEN Begin(b, put, i + 1) ELSE put
          [] OTHER -> [Put(b, s, i, FALSE) EXCEPT !.quoted = IF kind = "quote" /\ ~s.comment THEN ~@ ELSE @]

Statements(b, from, to) ==
    LET scan[i \in (from - 1)..to] ==
          IF i < from
          THEN Begin(b, [statements |-> <<>>, quoted |-> FALSE, comment |-> FALSE, data |-> FALSE], from)
          ELSE Scan(b, scan[i - 1], i)
    IN  scan[to].statements

\* The lines of an area, or none when a link is missing or wrong.
DecodeProgram(b) ==
    LET invalid == [ok |-> FALSE, lines |-> <<>>]
        Linked(at, next) ==
            next >= at + 3 /\ next \in DOMAIN b /\ b[next - 1] = 0 /\ \A i \in (at + 2)..(next - 2) : b[i] # 0
        Line(at, next) == [number |-> b[at + 1], terminator |-> next - 1,
                           statements |-> Statements(b, at + 2, next - 2)]
        chain[at \in DOMAIN b] ==
            CASE b[at] = 0 -> [ok |-> TRUE, lines |-> <<>>]
              [] b[at] # 0 /\ Linked(at, b[at]) ->
                   LET rest == chain[b[at]]
                   IN  IF rest.ok THEN [ok |-> TRUE, lines |-> <<Line(at, b[at])>> \o rest.lines] ELSE invalid
              [] OTHER -> invalid
    IN  chain[CHOOSE first \in DOMAIN b : \A i \in DOMAIN b : first <= i].lines
-----------------------------------------------------------------------------
(* Positions in a listing.                                                 *)

\* The first line with a number, and the statement at a line and index: sets of at most one.
LineNumbered(lines, line) ==
    {lines[i] : i \in {i \in DOMAIN lines : lines[i].number = line /\ \A j \in 1..(i - 1) : lines[j].number # line}}
StatementAt(lines, line, index) ==
    {l.statements[index] : l \in {l \in LineNumbered(lines, line) : index \in DOMAIN l.statements}}

\* resolveApplesoftSource: the same text, wherever BASIC moved it.
Text(s) == [i \in DOMAIN s.parts |-> <<s.parts[i].byte, s.parts[i].token>>]
Resolved(lines, p) == {s \in StatementAt(lines, p.line, p.index) : Text(s) = Text(p.statement)}
Moved(lines, p) == [p EXCEPT !.statement = CHOOSE s \in Resolved(lines, p) : TRUE]
Follow(lines, held) == {Moved(lines, p) : p \in {q \in held : Resolved(lines, q) # {}}}

\* applesoftSourceAt: the position a saved text pointer lies in.
SourceAt(lines, line, pointer) ==
    LET Before(l) == {k \in DOMAIN l.statements : l.statements[k].address <= pointer /\ pointer <= l.terminator}
    IN  UNION {{[line |-> line, index |-> k, statement |-> l.statements[k]] :
                   k \in {k \in Before(l) : \A j \in Before(l) : j <= k}} : l \in LineNumbered(lines, line)}
-----------------------------------------------------------------------------
(* createApplesoftListing, observeApplesoftListing and the breakpoints'     *)
(* listing(): what the tools read.                                          *)

Area(m) == [a \in m.start..(m.end - 1) |-> m.ram[a]]
Uninitialized(m) == m.start = 0 \/ m.start + 1 > m.end \/ m.end > Top + 1

NoCache == [bytes |-> <<>>, lines |-> <<>>]
NoSample == [kind |-> "none", from |-> 0, to |-> 0]
\* Listings are told apart by identity: the cached one, one it replaced, the
\* uninitialized one, the one shown without a ROM, or none yet.
Unseen == [points |-> "none", counts |-> "none", calls |-> "none"]
NoProgram == [owned |-> FALSE, cache |-> NoCache, sample |-> NoSample, seen |-> Unseen]

Past(mark) == IF mark \in {"decoded", "uninitialized"} THEN "past" ELSE mark

\* The machine the listing observes is the one the page has.
Owned(p) ==
    IF p.owned THEN p
    ELSE [NoProgram EXCEPT !.owned = TRUE,
              !.seen = [points |-> "none", counts |-> Past(p.seen.counts), calls |-> Past(p.seen.calls)]]

\* The cached listing, or a new one where the stored bytes differ.
Decoded(p, m) ==
    IF p.cache.bytes = Area(m) THEN p
    ELSE [p EXCEPT !.cache = [bytes |-> Area(m), lines |-> DecodeProgram(Area(m))],
                   !.seen = [tools \in DOMAIN @ |-> IF @[tools] = "decoded" THEN "past" ELSE @[tools]]]

\* program.read(): sample again only after a store in the area or its bounds.
Sampled(p, m) ==
    IF p.sample.kind # "none" THEN p
    ELSE [(IF Uninitialized(m) THEN p ELSE Decoded(p, m)) EXCEPT
              !.sample = [kind |-> IF Uninitialized(m) THEN "uninitialized" ELSE "decoded",
                          from |-> m.start, to |-> m.end]]

\* listing(): what it leaves, and then what it returns.
Looked(p, m) == IF m.loaded /\ m.mapped THEN Sampled(Owned(p), m) ELSE Owned(p)
Source(p, m) == IF ~m.loaded THEN "no ROM" ELSE IF ~m.mapped THEN "banked" ELSE p.sample.kind
Lines(p, m) == IF Source(p, m) = "decoded" THEN p.cache.lines ELSE <<>>

Seen == Looked(program, machine)
SeenLines == Lines(Seen, machine)
SeenSource == Source(Seen, machine)
Marked(p, who, source) == [p EXCEPT !.seen[who] = source]
Compared(p, who) == Marked(p, who, Source(p, machine))
-----------------------------------------------------------------------------
(* The machine: stores, the line editor, the Language Card.                *)

Image(ram, p) == [a \in DOMAIN ram |->
    IF a \in p.start..(p.start + Len(p.cells) - 1) THEN p.cells[a - p.start + 1] ELSE ram[a]]
Edited(m, p) == [m EXCEPT !.ram = Image(m.ram, p), !.start = p.start, !.end = p.start + Len(p.cells)]

\* The observer of RAM writes: a change in the sampled area or its bounds.
Observed(p, m, after) ==
    IF p.owned /\ (\/ after.start # m.start \/ after.end # m.end
                   \/ \E a \in p.sample.from..(p.sample.to - 1) : after.ram[a] # m.ram[a])
    THEN [p EXCEPT !.sample = NoSample] ELSE p

Rewritten(after) ==
    machine' = after /\ program' = Observed(program, machine, after) /\ stop' = [kind |-> "none"]

\* The machines a store by the program, a change of bounds or the line editor leaves.
Changes(m) ==
    {[m EXCEPT !.ram[w[1]] = w[2]] : w \in Stores} \cup {Edited(m, p) : p \in Programs}
        \cup {[m EXCEPT !.start = 0]}

Write == \E after \in Changes(machine) :
    Rewritten(after) /\ UNCHANGED <<tool, points, counts, stack, profiles, active>>

SwitchBank == /\ machine.loaded
              /\ machine' = [machine EXCEPT !.mapped = ~@]
              /\ stop' = [kind |-> "none"]
              /\ UNCHANGED <<tool, program, points, counts, stack, profiles, active>>
-----------------------------------------------------------------------------
(* Breakpoints.                                                            *)

\* reconcile: drop the points whose statement is gone, move the others.
Reconciled(p, m, held) ==
    LET p2 == Looked(p, m)
    IN  IF held = {} \/ Source(p2, m) \in {p2.seen.points, "banked"} THEN <<p2, held>>
        ELSE <<Marked(p2, "points", Source(p2, m)), Follow(Lines(p2, m), held)>>


\* The markers of the listing the page shows: the current one, or one it still holds.
Markers == UNION {{[line |-> l.number, index |-> i, statement |-> l.statements[i]] : i \in DOMAIN l.statements} :
    l \in ToSet(SeenLines) \cup ToSet(program.cache.lines)}

Toggle(marker) ==
    LET lines == SeenLines
        existing == {p \in points : p.line = marker.line /\ p.index = marker.index}
        enable == \A p \in existing : Text(p.statement) # Text(marker.statement)
    IN  /\ program' = Seen
        /\ points' = IF Resolved(lines, marker) = {} THEN points
                     ELSE (points \ existing) \cup (IF enable THEN {Moved(lines, marker)} ELSE {})
        /\ stop' = [kind |-> "none"]
        /\ UNCHANGED <<tool, machine, counts, stack, profiles, active>>

\* applesoftStatement: a stored statement is about to be dispatched.
Dispatches(line, pointer) ==
    /\ machine.loaded /\ machine.mapped
    /\ pointer \in machine.start..(machine.end - 1) /\ pointer <= Top
    /\ Kind[machine.ram[pointer]] \notin {"end", "colon"}

\* match, before the instruction at a dispatch runs.
Match(line, pointer) ==
    LET r == Reconciled(program, machine, points)
        hit == {p \in r[2] : Dispatches(line, pointer) /\ p.line = line /\ p.statement.address = pointer}
    IN  /\ points # {}
        /\ machine.loaded /\ machine.mapped
        /\ program' = r[1] /\ points' = r[2]
        /\ stop' = [kind |-> IF hit # {} THEN "stop" ELSE "go", line |-> line, pointer |-> pointer]
        /\ UNCHANGED <<tool, machine, counts, stack, profiles, active>>

\* Reconcile the breakpoints, then resetExecutionHistory.
Restart(m, p) ==
    LET r == IF points # {} THEN Reconciled(p, m, points) ELSE <<p, points>>
    IN  /\ machine' = m
        /\ program' = Marked(Marked(r[1], "counts", "none"), "calls", "none")
        /\ points' = r[2]
        /\ counts' = {} /\ profiles' = {} /\ active' = <<>>
        /\ stop' = [kind |-> "none"]
        /\ UNCHANGED <<tool, stack>>

\* A restored state, a power cycle or a ROM: a new machine, and the page's refresh reconnects.
Replace(p, rom) ==
    LET m == [Edited(machine, p) EXCEPT !.loaded = rom, !.mapped = TRUE]
        lost == [program EXCEPT !.owned = FALSE]
    IN  Restart(m, lost)

\* The RAM editor, paused.
EditRam(w) ==
    LET after == [machine EXCEPT !.ram[w[1]] = w[2]]
    IN  after # machine /\ Restart(after, Observed(program, machine, after))

\* A panel shows the listing.
Show == program' = Seen /\ UNCHANGED <<tool, machine, points, stop, counts, stack, profiles, active>>
-----------------------------------------------------------------------------
(* Visit counts.                                                           *)

\* What reconciling leaves of the counts: those of statements the listing still has.
CountsKept(p) == IF Source(p, machine) = p.seen.counts THEN counts ELSE Follow(Lines(p, machine), counts)

\* observe at a dispatch: one more visit to the statement there.
Visit(line, pointer) ==
    LET seen == Seen
        kept == CountsKept(seen)
        Here(l) == {k \in DOMAIN l.statements : l.statements[k].address = pointer}
        visited == UNION {{[line |-> line, index |-> k, statement |-> l.statements[k]] :
                             k \in {k \in Here(l) : \A j \in Here(l) : k <= j}} : l \in LineNumbered(Lines(seen, machine), line)}
        entry == {c \in kept : \E v \in visited : c.line = v.line /\ c.index = v.index}
    IN  /\ Dispatches(line, pointer)
        /\ program' = Compared(seen, "counts")
        /\ \A c \in counts : c.count < MaxCount
        /\ counts' = IF entry # {} THEN (kept \ entry) \cup {[c EXCEPT !.count = @ + 1] : c \in entry}
                     ELSE kept \cup {v @@ [count |-> 1] : v \in visited}
        /\ UNCHANGED <<tool, machine, points, stop, stack, profiles, active>>

\* observe where the interpreter asks for a line.
LineInput ==
    /\ machine.loaded /\ machine.mapped /\ counts # {}
    /\ program' = Compared(Seen, "counts")
    /\ counts' = CountsKept(Seen)
    /\ UNCHANGED <<tool, machine, points, stop, stack, profiles, active>>

ClearCounts ==
    /\ counts' = {} /\ program' = Marked(program, "counts", "none")
    /\ UNCHANGED <<tool, machine, points, stop, stack, profiles, active>>
-----------------------------------------------------------------------------
(* The profile of GOSUB calls.  A record's place on the stack stands for    *)
(* its address: record 1 is the outermost.                                 *)

Key(profile) == <<profile.caller.line, profile.caller.index, profile.target.line>>
Retained(p) ==
    LET lines == Lines(p, machine)
        both == {q \in profiles : Resolved(lines, q.caller) # {} /\ Resolved(lines, q.target) # {}}
    IN  IF Source(p, machine) = p.seen.calls THEN profiles
        ELSE {[q EXCEPT !.caller = Moved(lines, @), !.target = Moved(lines, @)] : q \in both}
Kept(kept, call) == \E q \in kept : Key(q) = call.key
Calls(kept) == SelectSeq(active, LAMBDA c : Kept(kept, c))
ProfileLeaves == UNCHANGED <<tool, machine, points, stop, counts>>

Observing == machine.loaded /\ machine.mapped

\* A GOSUB at a pointer of a line, to a line: its record is pushed, its GOTO has succeeded.
Gosub(line, pointer, target) ==
    LET seen == Seen
        lines == Lines(seen, machine)
        retained == Retained(seen)
        place == stack.sp + 1
        record == [line |-> line, pointer |-> pointer]
        callers == {p \in SourceAt(lines, line, pointer) :
                      \E token \in TokensOf(p.statement, "gosub") : token.at <= pointer}
        targets == {[line |-> target, index |-> 1, statement |-> s] : s \in StatementAt(lines, target, 1)}
        counted(from, to) ==
            LET key == <<from.line, from.index, target>>
                known == {q \in retained : Key(q) = key}
                old == IF known # {} THEN known
                       ELSE {[caller |-> from, target |-> to, calls |-> 0, returned |-> 0]}
            IN  /\ profiles' = (retained \ known) \cup {[q EXCEPT !.calls = @ + 1] : q \in old}
                /\ active' = Append(SelectSeq(Calls(retained), LAMBDA c : c.place < place),
                                    [place |-> place, record |-> record, key |-> key])
    IN  /\ Observing /\ place <= Depth
        /\ \A q \in profiles : q.calls < MaxCount
        /\ stack' = [sp |-> place, records |-> [stack.records EXCEPT ![place] = record]]
        /\ program' = Compared(seen, "calls")
        /\ IF callers # {} /\ targets # {} THEN \E from \in callers, to \in targets : counted(from, to)
           ELSE profiles' = retained /\ active' = Calls(retained)
        /\ ProfileLeaves

\* RETURN restores the caller's pointer, POP only discards it.
Leave(returns) ==
    LET done == {c \in ToSet(active) : c.place = stack.sp /\ returns /\ stack.records[c.place] = c.record}
    IN  /\ Observing /\ stack.sp > 0
        /\ stack' = [stack EXCEPT !.sp = @ - 1]
        /\ profiles' = {[q EXCEPT !.returned = IF \E c \in done : c.key = Key(q) THEN @ + 1 ELSE @] : q \in profiles}
        /\ active' = SelectSeq(active, LAMBDA c : c.place < stack.sp)
        /\ UNCHANGED program /\ ProfileLeaves

\* RUN, an error or the program itself moves the stack pointer or changes a record, unobserved.
Abandon ==
    /\ \/ \E sp \in 0..Depth : stack' = [stack EXCEPT !.sp = sp]
       \/ \E i \in 1..Depth : stack' = [stack EXCEPT !.records[i] = [line |-> 0, pointer |-> 0]]
    /\ UNCHANGED <<program, profiles, active>> /\ ProfileLeaves

\* The next dispatch or line input: only records still on the live stack stay.
Boundary ==
    LET retained == Retained(Seen)
    IN  /\ Observing
        /\ program' = Compared(Seen, "calls")
        /\ profiles' = retained
        /\ active' = SelectSeq(Calls(retained), LAMBDA c : c.place <= stack.sp /\ stack.records[c.place] = c.record)
        /\ UNCHANGED stack /\ ProfileLeaves

ClearProfile ==
    /\ profiles' = {} /\ active' = <<>> /\ program' = Marked(program, "calls", "none")
    /\ UNCHANGED stack /\ ProfileLeaves
-----------------------------------------------------------------------------
(* Events: PEEK, POKE, READ and RESTORE, each of the statement that did it. *)
(* The hooks are ROM addresses, so they count only while the ROM is mapped.  *)

Idle == [statement |-> <<>>, token |-> "none", input |-> FALSE, restoring |-> FALSE, item |-> 0, previous |-> 0, data |-> 1]
Forgotten(e) == [e EXCEPT !.statement = <<>>, !.reading = <<>>, !.item = 0, !.restoring = <<>>, !.appended = <<>>]
NoEvents(recording) ==
    [recording |-> recording, statement |-> <<>>, token |-> "none", reading |-> <<>>, item |-> 0,
     restoring |-> <<>>, appended |-> <<>>]
\* append: the entry of this instruction; the code keeps the last 200.
Appended(e, origin, kind, value) == [e EXCEPT !.appended = <<[origin |-> origin, kind |-> kind, value |-> value]>>]

\* observe: nothing is pending unless the statement's dispatch was recorded.
Noticed(e) == events' = IF events.recording THEN e ELSE events
Quiet == [events EXCEPT !.appended = <<>>]
Hooked(e) == Noticed(IF events.statement # <<>> THEN e ELSE Quiet)

Interpret(line, token) ==
    /\ executing' = [Idle EXCEPT !.statement = <<line>>, !.token = token, !.data = executing.data]
    /\ Noticed([Forgotten(events) EXCEPT !.statement = <<line>>, !.token = token])
\* An error or a line input.
LeaveStatement == executing' = [Idle EXCEPT !.data = executing.data] /\ Noticed(Forgotten(events))

In(tokens) == executing.statement # <<>> /\ executing.token \in tokens
AccessMemory(kind) ==
    /\ In({"read", "input", "restore", "run"})
    /\ Hooked(Appended(events, events.statement, kind, 0)) /\ UNCHANGED executing
\* RUN and CLEAR call the same routine.
BeginRestore ==
    /\ In({"restore", "run"}) /\ ~executing.restoring
    /\ executing' = [executing EXCEPT !.restoring = TRUE, !.previous = executing.data]
    /\ Hooked(IF events.token = "restore" THEN [Quiet EXCEPT !.restoring = <<events.statement, executing.data>>] ELSE Quiet)
EndRestore ==
    /\ executing.restoring
    /\ executing' = [executing EXCEPT !.restoring = FALSE, !.data = 1]
    /\ Hooked(IF events.restoring = <<>> THEN Quiet
              ELSE [Appended(events, events.restoring[1], "RESTORE", events.restoring[2]) EXCEPT !.restoring = <<>>])
BeginRead ==
    /\ In({"read"}) /\ ~executing.input /\ executing' = [executing EXCEPT !.input = TRUE]
    /\ Hooked([Quiet EXCEPT !.reading = events.statement])
\* The next item, of READ or of INPUT; DATA may lie outside the listing.
NextItem(address, inListing) ==
    /\ In({"read", "input"}) /\ (executing.token = "read" => executing.input)
    /\ executing' = [executing EXCEPT !.item = address]
    /\ Hooked(IF events.reading = <<>> \/ executing.token # "read" THEN Quiet
              ELSE [Quiet EXCEPT !.item = IF inListing THEN address ELSE 0])
Assign ==
    /\ executing.item # 0
    /\ executing' = [executing EXCEPT !.item = 0, !.data = executing.item]
    /\ Hooked(IF events.reading = <<>> \/ events.item = 0 \/ executing.token # "read" THEN Quiet
              ELSE [Appended(events, events.reading, "READ", events.item) EXCEPT !.item = 0])

\* An instruction that runs in the Language Card's RAM, or that maps it from main RAM.
Bank ==
    \/ /\ machine.mapped /\ machine' = [machine EXCEPT !.mapped = FALSE]
       /\ (Noticed(Forgotten(events)) \/ events' = Quiet)
    \/ /\ ~machine.mapped /\ UNCHANGED machine /\ Noticed(Forgotten(events))
    \/ /\ ~machine.mapped /\ machine' = [machine EXCEPT !.mapped = TRUE] /\ events' = Quiet

Record(on) == events' = [Forgotten(events) EXCEPT !.recording = on]
ClearEvents == events' = Forgotten(events)

-----------------------------------------------------------------------------
Blank == [ram |-> [a \in 0..Top |-> 0], start |-> 0, end |-> 0, loaded |-> TRUE, mapped |-> TRUE]

Init ==
    /\ tool \in {"breakpoints", "history", "profile", "events"}
    /\ machine = Blank
    /\ program = NoProgram /\ points = {} /\ stop = [kind |-> "none"] /\ counts = {}
    /\ stack = [sp |-> 0, records |-> [i \in 1..Depth |-> [line |-> 0, pointer |-> 0]]]
    /\ profiles = {} /\ active = <<>>
    /\ events = NoEvents(TRUE) /\ executing = Idle

Breakpoints ==
    \/ \E marker \in Markers : Toggle(marker)
    \/ \E line \in Numbers, pointer \in Pointers : Match(line, pointer)
History ==
    \/ \E line \in Numbers, pointer \in Pointers : Visit(line, pointer)
    \/ LineInput \/ ClearCounts
Profile ==
    \/ \E caller \in Callers, target \in Numbers : Gosub(caller[1], caller[2], target)
    \/ \E returns \in BOOLEAN : Leave(returns)
    \/ Abandon \/ Boundary \/ ClearProfile

Statement ==
    \/ \E line \in Numbers, token \in {"read", "input", "restore", "run"} : Interpret(line, token)
    \/ LeaveStatement \/ (\E kind \in {"PEEK", "POKE"} : AccessMemory(kind))
    \/ BeginRestore \/ EndRestore \/ BeginRead \/ Assign
    \/ \E address \in {2, 3}, inListing \in BOOLEAN : NextItem(address, inListing)
Events ==
    /\ \/ machine.mapped /\ Statement /\ UNCHANGED machine
       \/ Bank /\ UNCHANGED executing
       \/ ((\E on \in BOOLEAN : Record(on)) \/ ClearEvents) /\ UNCHANGED <<machine, executing>>
    /\ UNCHANGED <<tool, program, points, stop, counts, stack, profiles, active>>

Next ==
    \/ /\ tool # "events" /\ UNCHANGED <<events, executing>>
       /\ \/ Write \/ SwitchBank \/ Show
          \/ \E p \in Programs, rom \in BOOLEAN : Replace(p, rom)
          \/ \E w \in Stores : EditRam(w)
          \/ tool = "breakpoints" /\ Breakpoints
          \/ tool = "history" /\ History
          \/ tool = "profile" /\ Profile
    \/ tool = "events" /\ Events

Spec == Init /\ [][Next]_vars
-----------------------------------------------------------------------------
\* The listing a tool reads, kept across any stores, is what RAM holds now.
ListingIsCurrent ==
    SeenLines = IF machine.loaded /\ machine.mapped /\ ~Uninitialized(machine)
                THEN DecodeProgram(Area(machine)) ELSE <<>>

\* What a tool has compared with the listing is in it, where it says.
MarksAreInListing ==
    SeenSource = "decoded" =>
      \A who \in {"points", "counts"} : Seen.seen[who] = "decoded" =>
        \A p \in IF who = "points" THEN points ELSE counts :
            \E s \in Resolved(SeenLines, p) : s = p.statement

\* A run stops before exactly the statements with a breakpoint, wherever their line is now.
StopsAtBreakpoints ==
    stop.kind # "none" /\ SeenSource = "decoded" =>
        (stop.kind = "stop") =
            (Dispatches(stop.line, stop.pointer) /\
             \E p \in points : p.line = stop.line /\ \E s \in Resolved(SeenLines, p) : s.address = stop.pointer)

\* A call returns at most once, and one record on the stack is one call of one profile.
CallsBalance ==
    /\ \A i, j \in DOMAIN active : active[i].place = active[j].place => i = j
    /\ \A q \in profiles : q.returned + Cardinality({i \in DOMAIN active : active[i].key = Key(q)}) <= q.calls
    /\ \A i \in DOMAIN active : Kept(profiles, active[i])

\* An event belongs to the statement that did it, with the DATA item it read or the pointer it
\* restored, whatever was recorded, mapped or cleared while the statement ran.
EventsHaveTheirStatement ==
    \A i \in DOMAIN events.appended :
        LET e == events.appended[i]
        IN  /\ e.origin = executing.statement
            /\ e.kind = "READ" => executing.token = "read" /\ e.value = executing.data
            /\ e.kind = "RESTORE" => executing.token = "restore" /\ e.value = executing.previous
=============================================================================
