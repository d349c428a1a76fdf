----------------------------- MODULE Apple2Page -----------------------------
(***************************************************************************)
(* The Apple II page: one browser machine whose ROM, disk and saved states *)
(* arrive through asynchronous verification while the user runs, edits,    *)
(* resets, hides or reloads the page, and another tab shares its storage.  *)
(* A verification captures what it needs when it starts; its result is     *)
(* applied only while it is still the newest selection.                    *)
(***************************************************************************)
EXTENDS Naturals, FiniteSets

CONSTANTS
    Disks,          \* disk images that verify
    Names,          \* names of saved states
    QueueLimit,     \* keyboard queue (4096 in the code)
    MaxChecks,      \* bound on verifications under way at once
    None            \* no disk, no entry

VARIABLES
    session,        \* the machine and its keyboard queue
    rom, diskName,  \* what the page says is loaded
    running, error, \* of the execution controller
    selecting, restoring,
    checks,         \* verifications under way
    busy, saving,   \* the saved-state view, and the state being encoded
    remembered,     \* the ROM in browser storage
    saved,          \* name -> entry in browser storage
    accepted, stuck \* history: the last ROM accepted; storage refused a removal

page == <<rom, diskName, running, error, selecting, restoring>>
store == <<remembered, saved, accepted, stuck>>
vars == <<session, page, checks, busy, saving, store>>

\* A machine, and a machine captured to be saved under a name.
States == [fw : BOOLEAN, boot : BOOLEAN, media : Disks \cup {None}, ram : 0..1, input : 0..QueueLimit]
Captures == [name : Names, state : States, diskName : Disks \cup {None}]
ASSUME PageAssumption == QueueLimit \in Nat /\ MaxChecks \in Nat \ {0} /\ None \notin Captures

Roms == {"plain", "container"}   \* 12 KiB firmware, or with the Disk II bootstrap
Fresh == [fw |-> FALSE, boot |-> FALSE, media |-> None, ram |-> 0, input |-> 0]
Entry(ok, state, label) == [ok |-> ok, state |-> state, diskName |-> label]
Damaged == Entry(FALSE, Fresh, None)
\* A verification of a file ("bad" when it is not what it should be) or of an entry.
Check(id, kind, file, entry) ==
    [id |-> id, kind |-> kind, file |-> file, entry |-> entry, current |-> TRUE, dirty |-> FALSE]
Unused == (1..MaxChecks) \ {c.id : c \in checks}

\* Mounting the page starts a restoration of the remembered ROM.
Mounted(rememberedRom) ==
    /\ session' = Fresh /\ rom' = "none" /\ diskName' = None /\ running' = FALSE /\ error' = FALSE
    /\ selecting' = TRUE /\ restoring' = TRUE
    /\ checks' = {Check(1, "boot", rememberedRom, Damaged)} /\ busy' = FALSE /\ saving' = None
Init ==
    /\ session = Fresh /\ rom = "none" /\ diskName = None /\ running = FALSE /\ error = FALSE
    /\ selecting = TRUE /\ restoring = TRUE /\ checks = {Check(1, "boot", "none", Damaged)}
    /\ busy = FALSE /\ saving = None
    /\ remembered = "none" /\ saved = [n \in Names |-> None] /\ accepted = "none" /\ stuck = FALSE
Reload == Mounted(remembered) /\ UNCHANGED store

\* History: the machine changed under these verifications.
Touched(items) == {[c EXCEPT !.dirty = TRUE] : c \in items}
Superseded(items) == {[c EXCEPT !.dirty = TRUE, !.current = FALSE] : c \in items}

Available == session.fw /\ ~selecting
Paused == ~running /\ ~selecting

----------------------------------------------------------------------------
(* Execution and the machine's own controls.                               *)

Run ==
    /\ ~running /\ ~error /\ Available
    /\ running' = TRUE
    /\ UNCHANGED <<session, rom, diskName, error, selecting, restoring, checks, busy, saving, store>>
Pause ==
    /\ running /\ running' = FALSE
    /\ UNCHANGED <<session, rom, diskName, error, selecting, restoring, checks, busy, saving, store>>

\* One step of a batch or of the Step button: a queued key may be taken, the machine
\* changes, and an exception keeps its effects and blocks execution.
CanStep == session.fw /\ ~selecting
StepMachine ==
    /\ ~error /\ CanStep
    /\ \E ram \in 0..1, taken \in 0..1 :
         /\ taken <= session.input
         /\ session' = [session EXCEPT !.ram = ram, !.input = @ - taken]
    /\ error' \in BOOLEAN /\ running' \in {FALSE, running /\ ~error'}
    /\ checks' = Touched(checks)
    /\ UNCHANGED <<rom, diskName, selecting, restoring, busy, saving, store>>

\* Controls that change the machine; each clears the execution history.
Changed(machine, name) ==
    /\ session' = machine /\ diskName' = name /\ running' = FALSE /\ error' = FALSE
    /\ checks' = Touched(checks)
    /\ UNCHANGED <<rom, selecting, restoring, busy, saving, store>>
Reset == Available /\ Changed([session EXCEPT !.input = 0], diskName)
PoweredOn == [session EXCEPT !.boot = @ /\ session.media # None, !.ram = 0, !.input = 0]
PowerOn == ~selecting /\ Changed(PoweredOn, diskName)
EditMemory == Paused /\ \E ram \in 0..1 : Changed([session EXCEPT !.ram = ram], diskName)

\* Ejecting stops execution but keeps its history and error.
Eject ==
    /\ Available /\ session.media # None
    /\ session' = [session EXCEPT !.media = None] /\ diskName' = None /\ running' = FALSE
    /\ checks' = Touched(checks)
    /\ UNCHANGED <<rom, error, selecting, restoring, busy, saving, store>>
Room == session.input < QueueLimit
Send ==
    /\ Available /\ Room
    /\ session' = [session EXCEPT !.input = @ + 1] /\ checks' = Touched(checks)
    /\ UNCHANGED <<page, busy, saving, store>>

----------------------------------------------------------------------------
(* Selections and their verification.                                      *)

Begin(kind, file, entry) ==
    /\ \E id \in Unused : checks' = Superseded(checks) \cup {Check(id, kind, file, entry)}
    /\ selecting' = TRUE
Choose(kind, files) ==
    /\ ~selecting
    /\ \E file \in files \cup {"bad"} : Begin(kind, file, Damaged)
    /\ running' = FALSE
    /\ UNCHANGED <<session, rom, diskName, error, restoring, busy, saving, store>>
ChooseRom == Choose("rom", Roms)
ChooseDisk == rom = "container" /\ Choose("disk", Disks)

\* A machine without firmware is completed in place; a replaced ROM means fresh
\* hardware without a disk.
InstalledRom(file) ==
    [fw |-> TRUE, media |-> IF rom = "none" THEN session.media ELSE None, input |-> 0,
     boot |-> rom = "none" /\ session.boot, ram |-> IF rom = "none" THEN session.ram ELSE 0]
RomLabelKept == diskName
RomLabel == None
\* The old entry is removed when the new one cannot be kept.
Remember(file) ==
    /\ accepted' = file /\ UNCHANGED saved
    /\ \/ remembered' = file /\ stuck' = FALSE
       \/ remembered' = "none" /\ stuck' = FALSE
       \/ UNCHANGED remembered /\ stuck' = TRUE
ApplyRom(file) == session' = InstalledRom(file) /\ rom' = file /\ diskName' = RomLabel
ApplyDisk(disk) ==
    /\ session' = [Fresh EXCEPT !.fw = TRUE, !.boot = rom = "container", !.media = disk]
    /\ diskName' = disk /\ UNCHANGED rom
\* A saved machine is rebuilt with the firmware now loaded, and refused without it.
Restorable(entry) == entry.ok /\ (entry.state.fw <=> rom # "none")
ApplySaved(entry) == session' = entry.state /\ diskName' = entry.diskName /\ UNCHANGED rom

\* The selection is released whether the result was applied or refused.
SelectingAfterFailure(c, good) == selecting /\ ~(c.current /\ good)
SelectingAfter(c, good) == selecting /\ ~c.current
BusyAfter(c) == busy /\ c.kind \notin {"restore", "compare"}
AppliesAlways(c) == TRUE
Applies(c) == c.current
FileVerifies(c) == c.kind = "rom" /\ c.file # "bad"
DiskVerifies(c) == c.kind = "disk" /\ c.file # "bad"
StoredVerifies(c) == c.kind = "boot" /\ c.file \in Roms   \* nothing stored is not an error
EntryVerifies(c) == c.kind \in {"restore", "compare"} /\ Restorable(c.entry)
Good(c) == FileVerifies(c) \/ DiskVerifies(c) \/ StoredVerifies(c) \/ EntryVerifies(c)
Finish(c) ==
    /\ c \in checks /\ checks' = checks \ {c}
    /\ IF Applies(c) /\ Good(c)
       THEN /\ \/ c.kind = "rom" /\ ApplyRom(c.file) /\ Remember(c.file)
               \/ c.kind = "boot" /\ ApplyRom(c.file) /\ accepted' = c.file
                  /\ UNCHANGED <<remembered, saved, stuck>>
               \/ c.kind = "disk" /\ ApplyDisk(c.file) /\ UNCHANGED store
               \/ c.kind = "restore" /\ ApplySaved(c.entry) /\ UNCHANGED store
               \/ c.kind = "compare" /\ UNCHANGED <<session, rom, diskName, store>>
            /\ IF c.kind = "compare" THEN UNCHANGED <<running, error>>
               ELSE running' = FALSE /\ error' = FALSE
       ELSE UNCHANGED <<session, rom, diskName, running, error, store>>
    /\ selecting' = SelectingAfter(c, Good(c))
    /\ restoring' = (restoring /\ c.kind # "boot")
    /\ busy' = BusyAfter(c)
    /\ UNCHANGED saving

\* Hiding the page cancels a choice but not the restoration of the ROM at mount.
Suspend ==
    /\ running' = FALSE
    /\ IF restoring THEN UNCHANGED <<selecting, checks>>
       ELSE selecting' = FALSE /\ checks' = Superseded(checks)
    /\ UNCHANGED <<session, rom, diskName, error, restoring, busy, saving, store>>
Forget ==
    /\ ~selecting
    /\ \/ remembered' = "none" /\ stuck' = FALSE
       \/ UNCHANGED <<remembered, stuck>>
    /\ UNCHANGED <<session, page, checks, busy, saving, saved, accepted>>

----------------------------------------------------------------------------
(* Saved states: one operation of the view at a time.                      *)

\* The machine and its label are captured before the digest is awaited.
Save(name) ==
    /\ Paused /\ ~busy
    /\ busy' = TRUE /\ saving' = [name |-> name, state |-> session, diskName |-> diskName]
    /\ UNCHANGED <<session, page, checks, store>>
Label == saving.diskName
NameFree(name) == saved[name] = None
SaveEncoded ==
    /\ saving # None
    /\ \/ /\ NameFree(saving.name)
          /\ saved' = [saved EXCEPT ![saving.name] = Entry(TRUE, saving.state, Label)]
       \/ UNCHANGED saved       \* refused: the name is taken, or storage is full
    /\ busy' = FALSE /\ saving' = None
    /\ UNCHANGED <<session, page, checks, remembered, accepted, stuck>>
UseSaved(kind, name) ==
    /\ Paused /\ ~busy /\ saved[name] # None
    /\ Begin(kind, "entry", saved[name]) /\ busy' = TRUE
    /\ UNCHANGED <<session, rom, diskName, running, error, restoring, saving, store>>
Remove(name) ==
    /\ ~busy /\ saved' = [saved EXCEPT ![name] = None]
    /\ UNCHANGED <<session, page, checks, busy, saving, remembered, accepted, stuck>>
\* Another tab of the origin saves, deletes or damages an entry.
OtherTab(name) ==
    /\ \/ saved[name] = None /\ saved' = [saved EXCEPT ![name] = Damaged]
       \/ saved' = [saved EXCEPT ![name] = None]
    /\ UNCHANGED <<session, page, checks, busy, saving, remembered, accepted, stuck>>

Next ==
    \/ Run \/ Pause \/ StepMachine \/ Reset \/ PowerOn \/ EditMemory \/ Eject \/ Send
    \/ ChooseRom \/ ChooseDisk \/ (\E c \in checks : Finish(c)) \/ Suspend \/ Forget \/ SaveEncoded
    \/ (\E name \in Names : Save(name) \/ Remove(name) \/ OtherTab(name)
                            \/ \E kind \in {"restore", "compare"} : UseSaved(kind, name))
    \/ Reload

Spec == Init /\ [][Next]_vars
----------------------------------------------------------------------------
(* Properties.                                                             *)

\* What the page shows is what the machine holds, now and when it comes back.  The disk it
\* names is the one in the drive and can be booted, through power cycles, new ROMs, ejection
\* and restored states; there is firmware exactly when a ROM is shown; a saved entry's label
\* and media were captured together; and, unless storage refused both writing and removal,
\* the ROM of the next visit is the last one accepted.
ShownIsLoaded ==
    /\ session \in States /\ diskName = session.media /\ (session.fw <=> rom # "none")
    /\ session.media # None => session.fw /\ session.boot
    /\ \A name \in Names : saved[name] # None => saved[name].diskName = saved[name].state.media
    /\ stuck \/ remembered \in {"none", accepted}

\* choose and withSavedState: a result is applied only if nothing was selected, hidden or
\* changed since it began; meanwhile the machine neither runs nor changes; and a saved state
\* is deleted or kept, never replaced under its name.
OnlyLatestApplies ==
    [][/\ session' # session /\ ~restoring' => \A c \in checks \ checks' : ~c.dirty
       /\ selecting /\ selecting' /\ restoring' = restoring => session' = session /\ ~running'
       /\ \A n \in Names : saved[n] # None => saved'[n] \in {None, saved[n]}]_vars

\* The controls are locked only while something under way will release them: a refused,
\* cancelled or superseded verification never leaves the page selecting or its view busy.
LocksAreHeld ==
    /\ selecting => \E c \in checks : c.current
    /\ busy => saving # None \/ \E c \in checks : c.kind \in {"restore", "compare"}
=============================================================================
