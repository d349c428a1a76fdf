------------------------------ MODULE CocoPage ------------------------------
(***************************************************************************)
(* The CoCo page: a machine with a firmware and an extension socket, files *)
(* verified one at a time, browser storage for each ROM, and one explicit  *)
(* snapshot.  A ROM is known in four places (the page, the sockets, what   *)
(* the session fits at a power cycle, and storage), and a snapshot fits    *)
(* only a machine with the same ROMs.  And the keyboard of its session.    *)
(***************************************************************************)
EXTENDS Naturals, Sequences, FiniteSets

CONSTANT KeyLimit        \* queued keys (1024 in the code)

VARIABLES
    roms,                \* slots the page shows as loaded
    sockets, fitted,     \* ROMs in the machine, and those its next power cycle fits
    keys,                \* the session's queued keys
    running, error, selecting,
    checks,              \* verifications under way: of the remembered ROMs, or of a file
    stored,              \* slots remembered in browser storage
    saved, hasSaved,     \* the stored snapshot; whether the page offers it
    removed              \* history: the extension was removed and not loaded since

machine == <<sockets, fitted, keys>>
execution == <<running, error>>
storage == <<stored, saved, hasSaved, removed>>
vars == <<roms, machine, execution, selecting, checks, storage>>

Slots == {"firmware", "extended"}
NoSnapshot == [kind |-> "none", roms |-> {}, keys |-> 0]
Snapshot(kind, fit, queued) == [kind |-> kind, roms |-> fit, keys |-> queued]
Check(slot, good, boot) == [slot |-> slot, good |-> good, boot |-> boot]

\* The page mounts with an empty machine and verifies what storage remembers.  An older
\* release may have left a snapshot of a machine without an extension socket.
Mounted(kept) ==
    /\ roms' = {} /\ sockets' = {} /\ fitted' = {} /\ keys' = 0 /\ running' = FALSE /\ error' = FALSE
    /\ selecting' = TRUE /\ checks' = {Check(slot, slot \in kept, TRUE) : slot \in Slots}
    /\ hasSaved' = (saved.kind # "none")
Init ==
    /\ roms = {} /\ sockets = {} /\ fitted = {} /\ keys = 0 /\ running = FALSE /\ error = FALSE
    /\ selecting = TRUE /\ checks = {Check(slot, FALSE, TRUE) : slot \in Slots}
    /\ stored = {} /\ removed = FALSE
    /\ saved \in {NoSnapshot, Snapshot("version 1", {"firmware"}, 0), Snapshot("damaged", {}, 0)}
    /\ hasSaved = (saved.kind # "none")
Reload == Mounted(stored) /\ UNCHANGED <<stored, saved, removed>>

HasFirmware == "firmware" \in sockets
Ready == HasFirmware /\ ~selecting

----------------------------------------------------------------------------
(* The machine.                                                            *)

\* Replaced or reset hardware has no history of its own, and no error.
ChangedMachine == running' = FALSE /\ error' = FALSE
\* createCocoSession: fresh hardware with these ROMs.
Fresh(fit) == sockets' = fit /\ fitted' = fit /\ keys' = 0

Run ==
    /\ Ready /\ ~running /\ ~error /\ running' = TRUE
    /\ UNCHANGED <<roms, machine, error, selecting, checks, storage>>
Pause ==
    /\ running /\ running' = FALSE
    /\ UNCHANGED <<roms, machine, error, selecting, checks, storage>>
\* A step of a batch or of a button; keys leave the queue as their phases end.
CanStep == HasFirmware /\ ~selecting
StepMachine ==
    /\ CanStep /\ ~error
    /\ \E taken \in 0..1 : taken <= keys /\ keys' = keys - taken
    /\ error' \in BOOLEAN /\ running' \in {FALSE, running /\ ~error'}
    /\ UNCHANGED <<roms, sockets, fitted, selecting, checks, storage>>
Send ==
    /\ HasFirmware /\ keys < KeyLimit /\ keys' = keys + 1
    /\ UNCHANGED <<roms, sockets, fitted, execution, selecting, checks, storage>>
Reset ==
    /\ Ready /\ ~running /\ keys' = 0 /\ ChangedMachine
    /\ UNCHANGED <<roms, sockets, fitted, selecting, checks, storage>>
PowerOn ==
    /\ ~selecting /\ ~running /\ Fresh(fitted) /\ ChangedMachine
    /\ UNCHANGED <<roms, selecting, checks, storage>>
\* Focus lost, or the page hidden or left, also in the middle of a verification.
ReleaseFocus ==
    /\ running' = FALSE /\ keys' = 0
    /\ UNCHANGED <<roms, sockets, fitted, error, selecting, checks, storage>>

----------------------------------------------------------------------------
(* ROM files.                                                              *)

Choose(slot) ==
    /\ ~selecting /\ selecting' = TRUE /\ running' = FALSE
    /\ \E good \in BOOLEAN : checks' = {Check(slot, good, FALSE)}
    /\ UNCHANGED <<roms, machine, error, storage>>

\* The first firmware is put in the existing machine, which the session must remember for
\* its next power cycle; any other ROM means fresh hardware with both.
FitFirmware == sockets' = sockets \cup {"firmware"} /\ fitted' = fitted \cup {"firmware"} /\ keys' = 0
InstallRom(slot) ==
    /\ IF slot = "firmware" /\ ~HasFirmware THEN FitFirmware ELSE Fresh(roms \cup {slot})
    /\ roms' = roms \cup {slot} /\ ChangedMachine
\* When storage cannot keep the ROM the older entry goes too, where storage permits.
Remember(slot) ==
    /\ stored' \in {stored \cup {slot}, stored \ {slot}, stored}
    /\ removed' = (removed /\ slot # "extended")
Verified(c) ==
    /\ c \in checks /\ ~c.boot /\ checks' = {} /\ selecting' = FALSE
    /\ IF c.good THEN InstallRom(c.slot) /\ Remember(c.slot)
       ELSE UNCHANGED <<roms, machine, execution, stored, removed>>
    /\ UNCHANGED <<saved, hasSaved>>
\* The remembered ROMs arrive in either order; the machine is made when both are settled.
Restored(c) ==
    /\ c \in checks /\ c.boot /\ checks' = checks \ {c}
    /\ roms' = IF c.good THEN roms \cup {c.slot} ELSE roms
    /\ IF checks' = {} THEN Fresh(roms') /\ ChangedMachine /\ selecting' = FALSE
       ELSE UNCHANGED <<machine, execution, selecting>>
    /\ UNCHANGED storage

Forget(slot) ==
    /\ ~selecting /\ stored' = stored \ {slot}
    /\ UNCHANGED <<roms, machine, execution, selecting, checks, saved, hasSaved, removed>>
\* Storage is asked first: a refusal leaves the configuration as it was.
Forgotten == stored' = stored \ {"extended"}
RemoveExtended ==
    /\ ~selecting /\ ~running /\ "extended" \in roms
    /\ Forgotten /\ Fresh(roms \cap {"firmware"}) /\ roms' = roms \ {"extended"} /\ ChangedMachine
    /\ removed' = TRUE
    /\ UNCHANGED <<selecting, checks, saved, hasSaved>>

----------------------------------------------------------------------------
(* The snapshot.                                                           *)

Save ==
    /\ Ready /\ ~running
    /\ saved' = Snapshot("version 2", sockets, keys) /\ hasSaved' = TRUE
    /\ UNCHANGED <<roms, machine, execution, selecting, checks, stored, removed>>
\* A version 1 snapshot has an empty extension socket; the session compares both ROMs.
Fits(s) == s.kind \in {"version 1", "version 2"} /\ s.roms = fitted
Restore ==
    /\ Ready /\ ~running /\ hasSaved /\ Fits(saved)
    /\ sockets' = saved.roms /\ keys' = saved.keys /\ ChangedMachine
    /\ UNCHANGED <<roms, fitted, selecting, checks, storage>>
ForgetSnapshot ==
    /\ ~selecting /\ hasSaved /\ saved' = NoSnapshot /\ hasSaved' = FALSE
    /\ UNCHANGED <<roms, machine, execution, selecting, checks, stored, removed>>

Next ==
    \/ Run \/ Pause \/ StepMachine \/ Send \/ Reset \/ PowerOn \/ ReleaseFocus
    \/ (\E slot \in Slots : Choose(slot) \/ Forget(slot)) \/ RemoveExtended
    \/ (\E c \in checks : Verified(c) \/ Restored(c))
    \/ Save \/ Restore \/ ForgetSnapshot \/ Reload
Spec == Init /\ [][Next]_vars

----------------------------------------------------------------------------
(* Properties.                                                             *)

\* installRom, powerOn, restore and removeExtended: unless a choice is being verified, the
\* ROMs shown are those in the machine and those its next power cycle fits, whichever order
\* they came in; an extension that was removed stays removed, also at the next visit; and a
\* machine runs only with firmware, no error and nothing being verified.
RomsAgree ==
    /\ ~selecting => roms = sockets /\ roms = fitted
    /\ removed => "extended" \notin stored \cup roms
    /\ running => Ready /\ ~error
    /\ selecting <=> checks # {}
    /\ hasSaved <=> saved.kind # "none"
    /\ keys > 0 => HasFirmware

----------------------------------------------------------------------------
(* The keyboard, from host text to PIA pins: the transport that presses    *)
(* one chord at a time for a number of machine steps, the switch matrix it *)
(* closes, and the PIA ports whose drivers and resolved inputs the guest   *)
(* scans.  A session snapshot holds all three, and a restored one is       *)
(* checked for their agreement.                                            *)

CONSTANTS
    Rows, Columns,      \* matrix lines: PA0.. and PB0.. are 0 .. n - 1
    Chords,             \* the chords host text maps to: sets of one or two keys
    Drivers,            \* driver settings the guest writes: Lines(a, b)
    KeySteps,           \* steps a chord stays down, and up (12,000 in the code)
    QueueLimit          \* queued chords (1024 in the code)

VARIABLES
    switches,           \* closed keys of the matrix
    drive,              \* lines the PIA drives low: [a |-> rows, b |-> columns]
    pins,               \* lines the PIA samples low, as last applied
    input, pressed, remaining,   \* the transport
    snapshot,           \* a stored session, or no session
    since               \* history: completed steps since the switches last changed

transport == <<input, pressed, remaining>>
keyboard == <<switches, drive, pins, transport, snapshot, since>>

RowSet == 0..(Rows - 1)
ColumnSet == 0..(Columns - 1)
Lines(a, b) == [a |-> a, b |-> b]
NoLines == Lines({}, {})
NoSession == <<>>

----------------------------------------------------------------------------
(* The matrix: low spreads from driven lines through closed switches.      *)

Closed(down, row) == {k[2] : k \in {k \in down : k[1] = row}}

\* One row of one pass.
Touch(down, low, row) ==
    LET a == IF Closed(down, row) \cap low.b # {} THEN low.a \cup {row} ELSE low.a
    IN  Lines(a, IF row \in a THEN low.b \cup Closed(down, row) ELSE low.b)
\* One pass over the rows, from row 0.
Pass(down, low) ==
    LET after[n \in 0..Rows] == IF n = 0 THEN low ELSE Touch(down, after[n - 1], n - 1)
    IN  after[Rows]
\* Passes repeat until one changes nothing; each adds a line, so their number is bounded.
Resolve(down, low) ==
    LET after[n \in 0..(Rows + Columns)] == IF n = 0 THEN low ELSE Pass(down, after[n - 1])
    IN  after[Rows + Columns]

----------------------------------------------------------------------------
(* Its operations.                                                         *)

KeyboardInit ==
    /\ switches = {} /\ drive = NoLines /\ pins = NoLines
    /\ input = <<>> /\ pressed = FALSE /\ remaining = 0 /\ snapshot = NoSession /\ since = KeySteps

\* #updateKeyboardPins follows every change of a switch or of a driver.
Sampled(down, low) == pins' = Resolve(down, low)
SetSwitches(down) == switches' = down /\ Sampled(down, drive)

Room(chords) == Len(input) + Len(chords) <= QueueLimit
Enqueue(chords) ==
    /\ Room(chords)
    /\ input' = input \o chords
    /\ UNCHANGED <<switches, drive, pins, pressed, remaining, snapshot, since>>

\* beforeStep: when a phase has run out, release the chord or press the next one.
PressesNext == ~pressed /\ input # <<>>
Releases == pressed
Due == remaining = 0
\* The machine's step may write a PIA port, changing its drivers; or it may throw,
\* and then afterStep does not count it.
GuestWrites(low, down) == drive' = low /\ pins' = Resolve(down, low)
PhaseSteps == KeySteps
Counted(left, completed) == IF completed /\ left > 0 THEN left - 1 ELSE left
KeyboardStep ==
    LET releasing == Due /\ Releases
        pressing == Due /\ PressesNext
        down == IF releasing THEN {} ELSE IF pressing THEN Head(input) ELSE switches
        left == IF releasing \/ pressing THEN PhaseSteps ELSE remaining
    IN  /\ switches' = down
        /\ pressed' = ((pressed /\ ~releasing) \/ pressing)
        /\ input' = IF releasing THEN Tail(input) ELSE input
        /\ \E completed \in BOOLEAN, low \in Drivers :
             /\ GuestWrites(low, down)
             /\ remaining' = Counted(left, completed)
             /\ since' = LET before == IF down = switches THEN since ELSE 0
                         IN  IF completed /\ before < KeySteps THEN before + 1 ELSE before
        /\ UNCHANGED snapshot

Lifted == {}
\* Losing the window's focus, and resetting the CPU, lift every key.
ReleasedState ==
    /\ input' = <<>> /\ pressed' = FALSE /\ remaining' = 0 /\ SetSwitches(Lifted)
    /\ since' = KeySteps
ReleaseInput == ReleasedState /\ UNCHANGED <<drive, snapshot>>
KeyboardPowerOn ==
    /\ switches' = {} /\ drive' = NoLines /\ pins' = NoLines
    /\ input' = <<>> /\ pressed' = FALSE /\ remaining' = 0 /\ since' = KeySteps
    /\ UNCHANGED snapshot

SavedQueue == input
SaveKeyboard ==
    /\ snapshot' = [down |-> switches, drive |-> drive, pins |-> pins,
                    input |-> SavedQueue, pressed |-> pressed, remaining |-> remaining]
    /\ UNCHANGED <<switches, drive, pins, transport, since>>
\* A restored session is refused, whole, when its parts disagree.
Held(queue, isDown) == IF isDown THEN Head(queue) ELSE {}
Valid(s) ==
    /\ s.pressed => s.input # <<>>
    /\ Len(s.input) <= QueueLimit /\ s.remaining <= KeySteps
    /\ s.down = Held(s.input, s.pressed) /\ s.pins = Resolve(s.down, s.drive)
RestoreKeyboard ==
    /\ snapshot # NoSession /\ Valid(snapshot)
    /\ switches' = snapshot.down /\ drive' = snapshot.drive /\ pins' = snapshot.pins
    /\ input' = snapshot.input /\ pressed' = snapshot.pressed /\ remaining' = snapshot.remaining
    /\ since' = KeySteps - snapshot.remaining
    /\ UNCHANGED snapshot

KeyboardNext ==
    \/ \E n \in 1..2 : \E chords \in [1..n -> Chords] : Enqueue(chords)
    \/ KeyboardStep \/ ReleaseInput \/ KeyboardPowerOn \/ SaveKeyboard \/ RestoreKeyboard

----------------------------------------------------------------------------
(* Properties.                                                             *)

\* The lines connected to a driven one: the least
\* sets that contain the driven lines and cross every closed switch.
Spread(down, low) == \A k \in down : k[1] \in low.a <=> k[2] \in low.b
Connected(down, low) ==
    LET closures == {l \in [a : SUBSET RowSet, b : SUBSET ColumnSet] :
                        low.a \subseteq l.a /\ low.b \subseteq l.b /\ Spread(down, l)}
    IN  CHOOSE l \in closures : \A m \in closures : l.a \subseteq m.a /\ l.b \subseteq m.b

\* The guest samples the connected lines; exactly the keys of the chord being delivered are
\* down, so none sticks after a release, a reset, a power cycle or a restored session; a phase
\* falls due only once the machine completed all its steps since the switches last changed;
\* and a stored session can always be restored.
ChordIsSampled ==
    /\ pins = Connected(switches, drive) /\ switches = Held(input, pressed)
    /\ remaining = KeySteps - since
    /\ snapshot # NoSession => Valid(snapshot)
=============================================================================
