------------------------------- MODULE XtPage -------------------------------
(***************************************************************************)
(* The XT page: three ROM sockets filled one at a time from storage or     *)
(* from files, a diskette read from a file while the machine may run, a    *)
(* cold or quick power cycle that keeps the diskette in the drive, and one *)
(* stored checkpoint with its own copy of the diskette; and the keyboard   *)
(* of its session.                                                         *)
(***************************************************************************)
EXTENDS Integers, Sequences, SequencesExt, FiniteSets

CONSTANTS Slots, Disks, NoDisk

VARIABLES
    drive,               \* the diskette in the drive: [image, writable, name as shown]
    loaded, remembered, stored,   \* sockets filled; slots the page offers to forget; storage
    loading, readingDisk, running, error,
    reads,               \* file reads under way
    checkpoint, saved    \* the stored checkpoint; whether the page offers it

roms == <<loaded, remembered, stored>>
locks == <<loading, readingDisk, running, error>>
vars == <<drive, roms, locks, reads, checkpoint, saved>>

Empty == [image |-> NoDisk, writable |-> FALSE, name |-> NoDisk]
InDrive(disk, writable) == [image |-> disk, writable |-> writable, name |-> disk]
Read(kind, what, good) == [kind |-> kind, what |-> what, good |-> good]
Kept(roms_, disk) == [some |-> TRUE, roms |-> roms_, drive |-> disk]
NothingKept == [some |-> FALSE, roms |-> {}, drive |-> Empty]

Ready == loaded = Slots
Session == Ready /\ ~loading                      \* the page's "ready"
Idle == Session /\ ~running /\ ~readingDisk       \* what replaces the machine waits for this

Mount(kept) == {Read("boot", slot, slot \in kept) : slot \in Slots}
\* The oldest checkpoints were of a machine with an empty drive.
Init ==
    /\ drive = Empty /\ loaded = {} /\ remembered = {} /\ stored = {}
    /\ loading = TRUE /\ readingDisk = FALSE /\ running = FALSE /\ error = FALSE
    /\ reads = Mount({}) /\ checkpoint \in {NothingKept, Kept(Slots, Empty)} /\ saved = checkpoint.some
Reload ==
    /\ drive' = Empty /\ loaded' = {} /\ remembered' = {}
    /\ loading' = TRUE /\ readingDisk' = FALSE /\ running' = FALSE /\ error' = FALSE
    /\ reads' = Mount(stored) /\ saved' = checkpoint.some /\ UNCHANGED <<stored, checkpoint>>

----------------------------------------------------------------------------
(* Execution and power.                                                    *)

Run ==
    /\ Session /\ ~running /\ ~error /\ running' = TRUE
    /\ UNCHANGED <<drive, roms, loading, readingDisk, error, reads, checkpoint, saved>>
\* Pause, or leaving the window.
Stop ==
    /\ running /\ running' = FALSE
    /\ UNCHANGED <<drive, roms, loading, readingDisk, error, reads, checkpoint, saved>>
\* An unsupported instruction or a thrown error blocks execution.
StepMachine ==
    /\ Session /\ ~error
    /\ error' \in BOOLEAN /\ running' = (running /\ ~error')
    /\ UNCHANGED <<drive, roms, loading, readingDisk, reads, checkpoint, saved>>
Tools == running' = FALSE /\ error' = FALSE       \* resetTools
ResetCpu == Idle /\ Tools /\ UNCHANGED <<drive, roms, loading, readingDisk, reads, checkpoint, saved>>
\* The next machine gets the diskette, with its protection; only a quick start runs it.
DriveAfterPower == drive
PowerOn ==
    /\ Idle /\ drive' = DriveAfterPower /\ running' \in BOOLEAN /\ error' = FALSE
    /\ UNCHANGED <<roms, loading, readingDisk, reads, checkpoint, saved>>

----------------------------------------------------------------------------
(* Diskettes.                                                              *)

\* A file is chosen as a protected or as a writable copy, and read while the machine runs on.
ChooseDisk ==
    /\ ~loading /\ ~readingDisk /\ readingDisk' = TRUE
    /\ \E disk \in Disks, writable, good \in BOOLEAN :
         reads' = {[kind |-> "disk", what |-> InDrive(disk, writable), good |-> good]}
    /\ UNCHANGED <<drive, roms, loading, running, error, checkpoint, saved>>
DiskRead(r) ==
    /\ r \in reads /\ r.kind = "disk" /\ reads' = reads \ {r} /\ readingDisk' = FALSE
    /\ drive' = IF r.good THEN r.what ELSE drive
    /\ UNCHANGED <<roms, loading, running, error, checkpoint, saved>>
Ejected == Empty
Eject ==
    /\ ~loading /\ ~readingDisk /\ drive.name # NoDisk /\ drive' = Ejected
    /\ UNCHANGED <<roms, locks, reads, checkpoint, saved>>

----------------------------------------------------------------------------
(* ROM files.                                                              *)

ChooseRom(slot) ==
    /\ ~loading /\ ~readingDisk /\ ~running /\ loading' = TRUE
    /\ \E good \in BOOLEAN : reads' = {Read("rom", slot, good)}
    /\ UNCHANGED <<drive, roms, readingDisk, running, error, checkpoint, saved>>
\* The socket of the running board is filled; storage may fail to keep the file, and then
\* it may also fail to drop an older one.
RomRead(r) ==
    /\ r \in reads /\ r.kind = "rom" /\ reads' = reads \ {r} /\ loading' = FALSE
    /\ IF r.good
       THEN /\ loaded' = loaded \cup {r.what} /\ Tools
            /\ \/ /\ stored' = stored \cup {r.what}
                  /\ remembered' = remembered \cup {r.what}
               \/ /\ stored' \in {stored \ {r.what}, stored}
                  /\ remembered' = remembered \ {r.what}
       ELSE UNCHANGED <<roms, running, error>>
    /\ UNCHANGED <<drive, readingDisk, checkpoint, saved>>
\* The remembered files arrive in any order; loading ends with the last.
LastRead(rest) == rest = {}
BootRead(r) ==
    /\ r \in reads /\ r.kind = "boot" /\ reads' = reads \ {r}
    /\ loading' = ~LastRead(reads')
    /\ IF r.good THEN loaded' = loaded \cup {r.what} /\ remembered' = remembered \cup {r.what}
       ELSE UNCHANGED <<loaded, remembered>>
    /\ UNCHANGED <<drive, stored, readingDisk, running, error, checkpoint, saved>>
Forget(slot) ==
    /\ ~loading /\ ~running /\ slot \in remembered
    /\ stored' = stored \ {slot} /\ remembered' = remembered \ {slot}
    /\ UNCHANGED <<drive, loaded, locks, reads, checkpoint, saved>>

----------------------------------------------------------------------------
(* The checkpoint.                                                         *)

Save ==
    /\ Idle /\ checkpoint' = Kept(loaded, drive) /\ saved' = TRUE
    /\ UNCHANGED <<drive, roms, locks, reads>>
\* The board, its ROM identities, the keyboard and the disk name are checked before
\* anything is replaced.
Fits(kept) ==
    /\ kept.some /\ kept.roms = loaded
    /\ kept.drive.image # NoDisk <=> kept.drive.name # NoDisk
Restore ==
    /\ Idle /\ saved /\ Fits(checkpoint)
    /\ drive' = checkpoint.drive /\ Tools
    /\ UNCHANGED <<roms, loading, readingDisk, reads, checkpoint, saved>>
RemoveSaved ==
    /\ ~loading /\ ~running /\ saved /\ checkpoint' = NothingKept /\ saved' = FALSE
    /\ UNCHANGED <<drive, roms, locks, reads>>

Next ==
    \/ Run \/ Stop \/ StepMachine \/ ResetCpu \/ PowerOn
    \/ ChooseDisk \/ Eject \/ (\E slot \in Slots : ChooseRom(slot) \/ Forget(slot))
    \/ (\E r \in reads : DiskRead(r) \/ RomRead(r) \/ BootRead(r))
    \/ Save \/ Restore \/ RemoveSaved \/ Reload
Spec == Init /\ [][Next]_vars

----------------------------------------------------------------------------
(* Properties.                                                             *)

\* xtSession and xt-laboratory: the name shown is that of the diskette in the drive, and the
\* drive is writable only with one, through power cycles, late reads and restored checkpoints;
\* a checkpoint can be restored whenever the page offers it; the locks are held exactly while
\* a read of their kind is under way; and a slot is offered for forgetting only if it is stored.
DriveAgrees ==
    /\ drive.name = drive.image /\ (drive.writable => drive.image # NoDisk)
    /\ saved <=> checkpoint.some
    /\ Idle /\ saved => Fits(checkpoint)
    /\ loading <=> \E r \in reads : r.kind \in {"rom", "boot"}
    /\ readingDisk <=> \E r \in reads : r.kind = "disk"
    /\ running => Session /\ ~error
    /\ remembered \subseteq stored

----------------------------------------------------------------------------
(* The host's keyboard: key events, chords and pasted text become scan     *)
(* bytes, a make and a break of an 83-key code, that the board takes one   *)
(* at a time when it can.  Host keys share codes (an arrow and its keypad  *)
(* twin), the queue is bounded, and a break must always find room.  It     *)
(* takes events whether the machine runs or not, and is replaced with the  *)
(* board, so its steps are taken on their own.                             *)

CONSTANTS
    Keys, CodeOf,      \* host keys, and their make codes
    Characters,        \* pasted characters: [code, shift, letter, line]
    ShiftCode,
    Chords,            \* the keys of Ctrl-Break and Ctrl-Alt-Del
    QueueCapacity,     \* 512 in the code
    PasteLimit         \* 4096 in the code

VARIABLES
    bytes, held, paste, delay,   \* the keyboard
    guest                        \* history: codes the guest has seen made and not broken

keyboard == <<bytes, held, paste, delay, guest>>

CharacterInterval == 1           \* a 25th of a second of the XT's time
LineInterval == 2                \* six times that
Make(code) == [code |-> code, down |-> TRUE]
Break(code) == [code |-> code, down |-> FALSE]
CodesOf(keys) == {CodeOf[k] : k \in keys}

KeyboardInit ==
    /\ bytes = <<>> /\ held = {} /\ paste = <<>> /\ delay = 0 /\ guest = {}

----------------------------------------------------------------------------
(* Host events.                                                            *)

\* A code is down while any of its keys is held.
HeldCode(keys, code) == code \in CodesOf(keys)

\* Room for this make, its break and the breaks of the keys now held.
HasRoom == Len(bytes) + Cardinality(held) + 2 <= QueueCapacity
Down(key) ==
    /\ key \notin held /\ HasRoom
    /\ bytes' = IF HeldCode(held, CodeOf[key]) THEN bytes ELSE Append(bytes, Make(CodeOf[key]))
    /\ held' = held \cup {key}
    /\ UNCHANGED <<paste, delay, guest>>
Up(key) ==
    /\ key \in held /\ held' = held \ {key}
    /\ bytes' = IF HeldCode(held', CodeOf[key]) THEN bytes ELSE Append(bytes, Break(CodeOf[key]))
    /\ UNCHANGED <<paste, delay, guest>>

\* Losing focus breaks every code that is down.
Released == bytes \o SetToSeq({Break(code) : code \in CodesOf(held)})
ReleaseHeld == bytes' = Released /\ held' = {} /\ UNCHANGED <<paste, delay, guest>>

\* A chord is whole or refused; it ends a paste.
Pressed(keys) == [i \in 1..Len(keys) |-> Make(CodeOf[keys[i]])]
Lifted(keys) == [i \in 1..Len(keys) |-> Break(CodeOf[keys[Len(keys) + 1 - i]])]
Chord(keys) ==
    /\ Len(bytes) + Cardinality(held) + 2 * Len(keys) <= QueueCapacity
    /\ bytes' = Released \o Pressed(keys) \o Lifted(keys) /\ held' = {}
    /\ paste' = <<>> /\ delay' = 0
    /\ UNCHANGED guest
Paste(text) ==
    /\ Len(paste) + Len(text) <= PasteLimit
    /\ bytes' = Released /\ held' = {} /\ paste' = paste \o text
    /\ UNCHANGED <<delay, guest>>

----------------------------------------------------------------------------
(* Delivery, around each step of the machine.                              *)

\* The next pasted character waits for an empty queue, no held key and its interval.
Starts == bytes = <<>> /\ paste # <<>> /\ held = {} /\ delay = 0
\* The guest's Caps Lock inverts the shift of a letter.
Shifted(character, capsLock) == IF character.letter /\ capsLock THEN ~character.shift ELSE character.shift
Typed(character, shifted) ==
    LET pair == <<Make(character.code), Break(character.code)>>
    IN  IF shifted THEN <<Make(ShiftCode)>> \o pair \o <<Break(ShiftCode)>> ELSE pair
AfterByte(down, byte) == IF byte.down THEN down \cup {byte.code} ELSE down \ {byte.code}

\* beforeStep offers a byte, which the board may refuse; the self test of the guest's
\* keyboard clears everything, and otherwise the machine's time shortens the interval.
Step ==
    \E capsLock, taken, selfTesting \in BOOLEAN, ticks \in 0..LineInterval :
        LET queue == IF Starts THEN Typed(Head(paste), Shifted(Head(paste), capsLock)) ELSE bytes
            wait == IF ~Starts THEN delay ELSE IF Head(paste).line THEN LineInterval ELSE CharacterInterval
            text == IF Starts THEN Tail(paste) ELSE paste
            offered == taken /\ queue # <<>>
        IN  IF selfTesting
            THEN bytes' = <<>> /\ held' = {} /\ paste' = <<>> /\ delay' = 0 /\ guest' = {}
            ELSE /\ bytes' = IF offered THEN Tail(queue) ELSE queue
                 /\ guest' = IF offered THEN AfterByte(guest, Head(queue)) ELSE guest
                 /\ paste' = text /\ delay' = IF wait > ticks THEN wait - ticks ELSE 0
                 /\ UNCHANGED held

\* Fresh hardware has a fresh keyboard; resetting the CPU leaves it alone.
FreshKeyboard == bytes' = <<>> /\ held' = {} /\ paste' = <<>> /\ delay' = 0 /\ guest' = {}

\* The constructor refuses a stored keyboard that none can be.  One that is accepted leads
\* back, with the guest it was stored with, to a state reached before.
Accepted ==
    /\ Len(bytes) + Cardinality(held) <= QueueCapacity
    /\ Len(paste) <= PasteLimit /\ delay <= LineInterval

KeyboardNext ==
    \/ \E key \in Keys : Down(key) \/ Up(key)
    \/ ReleaseHeld \/ (\E keys \in Chords : Chord(keys)) \/ (\E c \in Characters : Paste(<<c>>))
    \/ Step \/ FreshKeyboard

----------------------------------------------------------------------------
(* Properties.                                                             *)

\* What the guest will have seen down after the first n bytes of the queue: the codes whose
\* last byte was a make, and those it saw down before that have had no byte since.
DownAfter(n) ==
    {code \in guest \cup {bytes[i].code : i \in 1..n} :
        \/ code \in guest /\ \A i \in 1..n : bytes[i].code # code
        \/ \E i \in 1..n : bytes[i] = Make(code) /\ \A j \in (i + 1)..n : bytes[j].code # code}
Alternates == \A i \in DOMAIN bytes : bytes[i].down <=> bytes[i].code \notin DownAfter(i - 1)

\* XtKeyboard: no key sticks and none is made twice.  The guest sees makes and breaks of a
\* code alternate, whatever aliases are held, pasted or released on a focus loss, and once
\* the queue has drained it believes down exactly the codes of the keys held; each of those
\* still has room for its break, and a stored keyboard can be restored.
NoKeySticks == DownAfter(Len(bytes)) = CodesOf(held) /\ Alternates /\ Accepted
=============================================================================
