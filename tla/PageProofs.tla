----------------------------- MODULE PageProofs -----------------------------
(***************************************************************************)
(* Proofs about the laboratory pages: the Apple II page, the CoCo's page   *)
(* and keyboard and the XT's page and keyboard, for every set of disks and *)
(* names, switch matrix, chord, driver setting, key code, character and    *)
(* queue limit.                                                            *)
(***************************************************************************)
EXTENDS MCPages, FiniteSetTheorems, SequenceTheorems, WellFoundedInduction, TLAPS

-----------------------------------------------------------------------------
(* The Apple II page                                                       *)

\* A disk is named beside the machine that holds it, and a machine that holds one can boot it.
Sound(machine, name) ==
    /\ machine \in States /\ name = machine.media
    /\ machine.media # None => machine.fw /\ machine.boot

Entries == {entry \in [ok : BOOLEAN, state : States, diskName : Disks \cup {None}] :
                Sound(entry.state, entry.diskName)}
Kinds == {"boot", "rom", "disk", "restore", "compare"}
Files == Disks \cup Roms \cup {"bad", "none", "entry"}
Checks == [id : Nat, kind : Kinds, file : Files, entry : Entries, current : BOOLEAN, dirty : BOOLEAN]

TypeInv ==
    /\ rom \in Roms \cup {"none"}
    /\ running \in BOOLEAN /\ error \in BOOLEAN
    /\ selecting \in BOOLEAN /\ restoring \in BOOLEAN /\ busy \in BOOLEAN
    /\ checks \subseteq Checks
    /\ remembered \in Roms \cup {"none"}
    /\ saved \in [Names -> Entries \cup {None}]

\* What the machine, the labels and the stores hold together.
HeldInv ==
    /\ Sound(session, diskName) /\ (session.fw <=> rom # "none")
    /\ saving # None => saving \in Captures /\ Sound(saving.state, saving.diskName)
    /\ stuck \/ remembered \in {"none", accepted}

\* What a verification under way is about.
WaitingFor(c) ==
    /\ c.kind = "boot" => restoring /\ c.file = remembered
    /\ c.kind = "rom" => c.file \in Roms \cup {"bad"}
    /\ c.kind = "disk" => c.file \in Disks \cup {"bad"} /\ (c.current => rom = "container")

\* One verification at most is current, and it keeps the machine as it was when it began.
SelectionInv ==
    /\ \A c \in checks : WaitingFor(c)
    /\ \A c \in checks : c.current => selecting /\ ~c.dirty
    /\ \A c1, c2 \in checks : c1.current /\ c2.current => c1 = c2
    /\ selecting => ~running /\ \E c \in checks : c.current
    /\ restoring => selecting /\ session = Fresh /\ \A c \in checks : c.kind = "boot" /\ c.current
    /\ busy => saving # None \/ \E c \in checks : c.kind \in {"restore", "compare"}

PageInv == TypeInv /\ HeldInv /\ SelectionInv

-----------------------------------------------------------------------------
(* The history kept of a verification                                      *)

\* The same verification, with its history.
Same(c, item) ==
    c.kind = item.kind /\ c.file = item.file /\ c.entry = item.entry /\ c \in Checks

LEMMA TouchedItems ==
    ASSUME NEW items \in SUBSET Checks
    PROVE  /\ \A c \in Touched(items) : \E item \in items : Same(c, item) /\ c.current = item.current
           /\ \A item \in items : \E c \in Touched(items) : Same(c, item)
<1>1. \A item \in items : /\ [item EXCEPT !.dirty = TRUE] \in Checks
                          /\ Same([item EXCEPT !.dirty = TRUE], item)
                          /\ [item EXCEPT !.dirty = TRUE].current = item.current
  BY DEF Checks, Same
<1> QED  BY <1>1 DEF Touched

LEMMA SupersededItems ==
    ASSUME NEW items \in SUBSET Checks
    PROVE  /\ \A c \in Superseded(items) : ~c.current /\ \E item \in items : Same(c, item)
           /\ \A item \in items : \E c \in Superseded(items) : Same(c, item)
<1>1. \A item \in items : /\ [item EXCEPT !.dirty = TRUE, !.current = FALSE] \in Checks
                          /\ Same([item EXCEPT !.dirty = TRUE, !.current = FALSE], item)
                          /\ ~[item EXCEPT !.dirty = TRUE, !.current = FALSE].current
  BY DEF Checks, Same
<1> QED  BY <1>1 DEF Superseded

\* Verifications that no longer count, beside the locks they leave.
LEMMA NoneSelected ==
    ASSUME PageInv, selecting' = FALSE, restoring' = FALSE, remembered' = remembered,
           \A c \in checks' : ~c.current /\ \E item \in checks : Same(c, item),
           \A item \in checks : \E c \in checks' : Same(c, item),
           ~restoring, busy' = busy, saving' = saving
    PROVE  SelectionInv' /\ checks' \subseteq Checks
<1>1. checks' \subseteq Checks
  BY DEF Same
<1>2. \A c \in checks' : WaitingFor(c)'
  BY DEF PageInv, SelectionInv, WaitingFor, Same
<1>3. (busy => saving # None \/ \E c \in checks : c.kind \in {"restore", "compare"})'
  BY DEF PageInv, SelectionInv, Same
<1> QED  BY <1>1, <1>2, <1>3 DEF SelectionInv

-----------------------------------------------------------------------------
(* The machine's own controls                                              *)

LEMMA MachineChanged ==
    ASSUME PageInv, ~selecting, checks' = Touched(checks),
           UNCHANGED <<rom, selecting, restoring, busy, saving, store>>,
           running' \in BOOLEAN, error' \in BOOLEAN,
           Sound(session, diskName)', session'.fw = session.fw
    PROVE  PageInv'
<1>1. ~restoring /\ \A c \in checks : ~c.current
  BY DEF PageInv, SelectionInv
<1>2. \A c \in checks' : ~c.current /\ \E item \in checks : Same(c, item)
  BY <1>1, TouchedItems DEF PageInv, TypeInv
<1>3. \A item \in checks : \E c \in checks' : Same(c, item)
  BY TouchedItems DEF PageInv, TypeInv
<1>4. SelectionInv' /\ checks' \subseteq Checks
  BY <1>1, <1>2, <1>3, NoneSelected DEF PageInv, TypeInv, store
<1>5. HeldInv'
  BY DEF PageInv, HeldInv, store
<1>6. TypeInv'
  BY <1>4 DEF PageInv, TypeInv, store
<1> QED  BY <1>4, <1>5, <1>6 DEF PageInv

LEMMA ControlStep ==
    ASSUME PageInv,
           Run \/ Pause \/ StepMachine \/ Reset \/ PowerOn \/ EditMemory \/ Eject \/ Send
    PROVE  PageInv'
<1>1. session \in States /\ diskName = session.media
      /\ (session.media # None => session.fw /\ session.boot)
  BY DEF PageInv, HeldInv, Sound
<1>2. CASE Run
  BY <1>2 DEF Run, Available, PageInv, TypeInv, HeldInv, SelectionInv, WaitingFor, store
<1>3. CASE Pause
  BY <1>3 DEF Pause, PageInv, TypeInv, HeldInv, SelectionInv, WaitingFor, store
<1>4. CASE StepMachine
  <2>1. PICK ram \in 0..1, taken \in 0..1 :
          taken <= session.input /\ session' = [session EXCEPT !.ram = ram, !.input = @ - taken]
    BY <1>4 DEF StepMachine
  <2>2. session' \in States /\ session'.media = session.media /\ session'.fw = session.fw
        /\ session'.boot = session.boot
    <3>1. session.input - taken \in 0..QueueLimit
      BY <1>1, <2>1, PageAssumption DEF States
    <3> QED  BY <1>1, <2>1, <3>1 DEF States
  <2>3. Sound(session, diskName)'
    BY <1>1, <1>4, <2>2 DEF Sound, StepMachine
  <2>4. running' \in BOOLEAN /\ error' \in BOOLEAN
    BY <1>4 DEF StepMachine, PageInv, TypeInv
  <2> QED  BY <1>4, <2>2, <2>3, <2>4, MachineChanged DEF StepMachine, CanStep
<1>5. CASE Reset \/ PowerOn \/ EditMemory
  <2>1. PICK machine \in States :
          /\ Changed(machine, diskName)
          /\ machine.fw = session.fw /\ machine.media = session.media
          /\ machine.media # None => machine.boot
    <3>1. CASE Reset
      BY <1>1, <3>1, PageAssumption DEF Reset, States
    <3>2. CASE PowerOn
      <4>1. /\ PoweredOn \in States /\ PoweredOn.fw = session.fw
            /\ PoweredOn.media = session.media
            /\ PoweredOn.media # None => PoweredOn.boot
        <5> DEFINE ready == session.boot /\ session.media # None
        <5>1. ready \in BOOLEAN /\ (session.media # None => ready)
          BY <1>1
        <5>2. PoweredOn = [session EXCEPT !.boot = ready, !.ram = 0, !.input = 0]
          BY DEF PoweredOn
        <5> HIDE DEF ready
        <5>3. session \in States /\ 0 \in 0..QueueLimit /\ 0 \in 0..1
          BY <1>1, PageAssumption
        <5>4. PoweredOn \in States
          BY <5>1, <5>2, <5>3 DEF States
        <5>5. PoweredOn.fw = session.fw /\ PoweredOn.media = session.media /\ PoweredOn.boot = ready
          BY <5>2, <5>3 DEF States
        <5> QED  BY <5>1, <5>4, <5>5
      <4> QED  BY <3>2, <4>1 DEF PowerOn
    <3>3. CASE EditMemory
      BY <1>1, <3>3 DEF EditMemory, States
    <3> QED  BY <1>5, <3>1, <3>2, <3>3
  <2>2. ~selecting
    BY <1>5 DEF Reset, PowerOn, EditMemory, Available, Paused
  <2>3. Sound(session, diskName)'
    BY <1>1, <2>1 DEF Changed, Sound
  <2> QED  BY <2>1, <2>2, <2>3, MachineChanged DEF Changed
<1>6. CASE Eject
  <2>1. session' = [session EXCEPT !.media = None] /\ diskName' = None
    BY <1>6 DEF Eject
  <2>2. Sound(session, diskName)' /\ session'.fw = session.fw
    BY <1>1, <2>1 DEF Sound, States
  <2> QED  BY <1>6, <2>2, MachineChanged DEF Eject, Available, PageInv, TypeInv
<1>7. CASE Send
  <2>1. session' = [session EXCEPT !.input = @ + 1] /\ session.input < QueueLimit
        /\ UNCHANGED page
    BY <1>7 DEF Send, Room
  <2>2. session' \in States /\ session'.media = session.media /\ session'.fw = session.fw
        /\ session'.boot = session.boot
    BY <1>1, <2>1, PageAssumption DEF States
  <2>3. Sound(session, diskName)'
    BY <1>1, <2>1, <2>2 DEF Sound, page
  <2> QED  BY <1>7, <2>1, <2>2, <2>3, MachineChanged DEF Send, Available, page, PageInv, TypeInv
<1> QED  BY <1>2, <1>3, <1>4, <1>5, <1>6, <1>7

-----------------------------------------------------------------------------
(* Selections, and their results                                           *)

LEMMA FreshMachine == Fresh \in States /\ Fresh.media = None /\ ~Fresh.fw /\ Damaged \in Entries
<1>1. Fresh \in States /\ Fresh.media = None /\ ~Fresh.fw
  BY PageAssumption DEF Fresh, States
<1>2. Damaged = [ok |-> FALSE, state |-> Fresh, diskName |-> None] /\ Sound(Fresh, None)
  BY <1>1 DEF Damaged, Entry, Sound
<1> QED  BY <1>1, <1>2 DEF Entries

\* A selection begins: what was under way no longer counts.
LEMMA Begun ==
    ASSUME PageInv, ~selecting, NEW kind \in Kinds \ {"boot"}, NEW file \in Files,
           NEW entry \in Entries, Begin(kind, file, entry),
           kind = "rom" => file \in Roms \cup {"bad"},
           kind = "disk" => file \in Disks \cup {"bad"} /\ rom = "container",
           UNCHANGED <<session, rom, restoring, saving, remembered>>, running' = FALSE,
           busy' = busy \/ kind \in {"restore", "compare"}
    PROVE  SelectionInv' /\ checks' \subseteq Checks /\ selecting' = TRUE
<1>1. PICK id \in Nat :
        checks' = Superseded(checks) \cup {Check(id, kind, file, entry)} /\ selecting' = TRUE
  BY PageAssumption DEF Begin, Unused
<1> DEFINE new == Check(id, kind, file, entry)
<1>2. new \in Checks /\ new.kind = kind /\ new.file = file /\ new.current /\ ~new.dirty
  BY DEF Check, Checks
<1> HIDE DEF new
<1>3. ~restoring /\ checks \subseteq Checks
  BY DEF PageInv, TypeInv, SelectionInv
<1>4. \A c \in Superseded(checks) : ~c.current /\ c \in Checks
                                    /\ \E item \in checks : Same(c, item)
  BY <1>3, SupersededItems DEF Same
<1>5. \A c \in checks' : c = new \/ (~c.current /\ c \in Checks /\ \E item \in checks : Same(c, item))
  BY <1>1, <1>4 DEF new
<1>6. \A c \in checks' : WaitingFor(c)'
  BY <1>2, <1>5 DEF PageInv, SelectionInv, WaitingFor, Same
<1>7. (busy => saving # None \/ \E c \in checks : c.kind \in {"restore", "compare"})'
  <2>1. CASE kind \in {"restore", "compare"}
    BY <1>1, <1>2, <2>1 DEF new
  <2>2. CASE kind \notin {"restore", "compare"}
    <3>1. ASSUME NEW item \in checks PROVE \E c \in checks' : Same(c, item)
      BY <1>1, <1>3, SupersededItems
    <3> QED  BY <2>2, <3>1 DEF PageInv, SelectionInv, Same
  <2> QED  BY <2>1, <2>2
<1>8. new \in checks'
  BY <1>1 DEF new
<1> QED  BY <1>1, <1>2, <1>3, <1>5, <1>6, <1>7, <1>8 DEF SelectionInv

LEMMA ChoiceStep ==
    ASSUME PageInv, ChooseRom \/ ChooseDisk
    PROVE  PageInv'
<1>1. PICK kind \in {"rom", "disk"}, file \in Files :
        /\ Begin(kind, file, Damaged) /\ ~selecting
        /\ kind = "rom" => file \in Roms \cup {"bad"}
        /\ kind = "disk" => file \in Disks \cup {"bad"} /\ rom = "container"
        /\ running' = FALSE
        /\ UNCHANGED <<session, rom, diskName, error, restoring, busy, saving, store>>
  BY DEF ChooseRom, ChooseDisk, Choose, Files
<1>2. SelectionInv' /\ checks' \subseteq Checks /\ selecting' = TRUE
  BY <1>1, FreshMachine, Begun DEF Kinds, store
<1> QED  BY <1>1, <1>2 DEF PageInv, TypeInv, HeldInv, store

LEMMA UseStep ==
    ASSUME PageInv, NEW kind \in {"restore", "compare"}, NEW name \in Names, UseSaved(kind, name)
    PROVE  PageInv'
<1>1. saved[name] \in Entries /\ "entry" \in Files
  BY DEF PageInv, TypeInv, UseSaved, Files
<1>2. ~selecting /\ Begin(kind, "entry", saved[name]) /\ busy' = TRUE /\ running = FALSE
      /\ UNCHANGED <<session, rom, diskName, running, error, restoring, saving, store>>
  BY DEF UseSaved, Paused, PageInv, TypeInv
<1>3. SelectionInv' /\ checks' \subseteq Checks /\ selecting' = TRUE
  BY <1>1, <1>2, Begun DEF Kinds, store
<1> QED  BY <1>2, <1>3 DEF PageInv, TypeInv, HeldInv, store

\* A verification that no longer counts, or whose file is refused, changes nothing but the
\* locks it held.
LEMMA RefusedEnds ==
    ASSUME PageInv, NEW c \in checks, Finish(c), ~(Applies(c) /\ Good(c))
    PROVE  PageInv'
<1>1. /\ checks' = checks \ {c}
      /\ UNCHANGED <<session, rom, diskName, running, error, saving, store>>
      /\ selecting' = (selecting /\ ~c.current)
      /\ restoring' = (restoring /\ c.kind # "boot")
      /\ busy' = (busy /\ c.kind \notin {"restore", "compare"})
  BY DEF Finish, SelectingAfter, BusyAfter, Applies
<1>2. \A d \in checks' : d \in checks /\ (d.current => ~c.current)
  BY <1>1 DEF PageInv, SelectionInv
<1>3. ~restoring'
  BY <1>1 DEF PageInv, SelectionInv
<1>4. \A d \in checks' : WaitingFor(d)'
  <2>1. \A d \in checks' : d.kind # "boot"
    BY <1>1 DEF PageInv, SelectionInv, WaitingFor
  <2> QED  BY <1>1, <1>2, <2>1 DEF PageInv, SelectionInv, WaitingFor
<1>5. (selecting => ~running /\ \E d \in checks : d.current)'
  BY <1>1 DEF PageInv, SelectionInv
<1>6. (busy => saving # None \/ \E d \in checks : d.kind \in {"restore", "compare"})'
  BY <1>1 DEF PageInv, SelectionInv
<1>7. \A d \in checks' : d.current => selecting' /\ ~d.dirty
  BY <1>1, <1>2 DEF PageInv, SelectionInv
<1>8. SelectionInv'
  BY <1>2, <1>3, <1>4, <1>5, <1>6, <1>7 DEF PageInv, SelectionInv
<1>9. selecting' \in BOOLEAN /\ restoring' \in BOOLEAN /\ busy' \in BOOLEAN
  BY <1>1
<1> QED  BY <1>1, <1>8, <1>9 DEF PageInv, TypeInv, HeldInv, store

\* The result that counts ends the selection, and the machine it brings is the one the page
\* names.
LEMMA AcceptedEnds ==
    ASSUME PageInv, NEW c \in checks, Finish(c), Applies(c), Good(c)
    PROVE  PageInv'
<1>1. /\ checks' = checks \ {c} /\ c.current /\ ~selecting' /\ selecting' = FALSE
      /\ restoring' = (restoring /\ c.kind # "boot")
      /\ busy' = (busy /\ c.kind \notin {"restore", "compare"})
      /\ saving' = saving
  BY DEF Finish, SelectingAfter, BusyAfter, Applies
<1>2. \A d \in checks' : d \in checks /\ ~d.current
  BY <1>1 DEF PageInv, SelectionInv
<1>3. ~restoring' /\ restoring' = FALSE /\ selecting
  BY <1>1 DEF PageInv, SelectionInv
<1>4. \A d \in checks' : WaitingFor(d)'
  <2>1. \A d \in checks' : d.kind # "boot"
    BY <1>2 DEF PageInv, SelectionInv, WaitingFor
  <2> QED  BY <1>1, <1>2, <2>1 DEF PageInv, SelectionInv, WaitingFor
<1>5. (busy => saving # None \/ \E d \in checks : d.kind \in {"restore", "compare"})'
  BY <1>1 DEF PageInv, SelectionInv
<1>6. SelectionInv'
  BY <1>1, <1>2, <1>3, <1>4, <1>5 DEF SelectionInv
<1>7. running' \in BOOLEAN /\ error' \in BOOLEAN
  BY DEF Finish, PageInv, TypeInv
<1>8. Sound(session, diskName) /\ (session.fw <=> rom # "none") /\ c \in Checks /\ WaitingFor(c)
      /\ (rom = "none" => session.media = None)
  BY DEF PageInv, TypeInv, HeldInv, SelectionInv, Sound
<1> DEFINE Held == Sound(session, diskName) /\ (session.fw <=> rom # "none")
                   /\ (stuck \/ remembered \in {"none", accepted})
                   /\ rom \in Roms \cup {"none"} /\ remembered \in Roms \cup {"none"}
<1>9. Held' /\ saved' = saved
  <2>1. CASE c.kind \in {"rom", "boot"}
    <3>1. c.file \in Roms /\ ApplyRom(c.file)
      BY <1>8, <2>1 DEF Finish, Good, FileVerifies, DiskVerifies, StoredVerifies, EntryVerifies,
         WaitingFor
    <3>2. session' = InstalledRom(c.file) /\ rom' = c.file /\ diskName' = None
      BY <3>1 DEF ApplyRom, RomLabel
    <3>3. InstalledRom(c.file).fw /\ InstalledRom(c.file).media = None
          /\ InstalledRom(c.file) \in States
      <4> DEFINE ready == rom = "none" /\ session.boot
      <4>1. ready \in BOOLEAN
        OBVIOUS
      <4>2. InstalledRom(c.file) =
              [fw |-> TRUE, media |-> None, input |-> 0, boot |-> ready,
               ram |-> IF rom = "none" THEN session.ram ELSE 0]
        BY <1>8 DEF InstalledRom
      <4>3. (IF rom = "none" THEN session.ram ELSE 0) \in 0..1 /\ 0 \in 0..QueueLimit
        BY <1>8, PageAssumption DEF Sound, States
      <4> HIDE DEF ready
      <4> QED  BY <4>1, <4>2, <4>3 DEF States
    <3>4. Sound(session, diskName)'
      BY <3>2, <3>3 DEF Sound
    <3>5. c.file # "none" /\ c.file \in Roms
      BY <3>1 DEF Roms
    <3>6. (stuck \/ remembered \in {"none", accepted})' /\ remembered' \in Roms \cup {"none"}
          /\ saved' = saved
      <4>1. CASE c.kind = "rom"
        BY <4>1, <3>5 DEF Finish, Remember, PageInv, TypeInv
      <4>2. CASE c.kind = "boot"
        <5>1. remembered' = remembered /\ stuck' = stuck /\ saved' = saved /\ accepted' = c.file
          BY <4>2 DEF Finish
        <5>2. c.file = remembered
          BY <1>8, <4>2 DEF WaitingFor
        <5> QED  BY <5>1, <5>2 DEF PageInv, TypeInv
      <4> QED  BY <2>1, <4>1, <4>2
    <3> QED  BY <3>2, <3>3, <3>4, <3>5, <3>6
  <2>2. CASE c.kind = "disk"
    <3>1. c.file \in Disks /\ ApplyDisk(c.file) /\ UNCHANGED store /\ rom = "container"
      BY <1>1, <1>8, <2>2 DEF Finish, Good, FileVerifies, DiskVerifies, StoredVerifies,
         EntryVerifies, WaitingFor
    <3>2. session' = [Fresh EXCEPT !.fw = TRUE, !.boot = TRUE, !.media = c.file]
          /\ diskName' = c.file /\ rom' = rom
      BY <3>1 DEF ApplyDisk
    <3>3. session' \in States /\ session'.fw /\ session'.boot /\ session'.media = c.file
      BY <3>1, <3>2, FreshMachine DEF States
    <3> QED  BY <3>1, <3>2, <3>3 DEF Sound, store, PageInv, TypeInv, HeldInv
  <2>3. CASE c.kind = "restore"
    <3>1. ApplySaved(c.entry) /\ UNCHANGED store /\ Restorable(c.entry)
      BY <2>3 DEF Finish, Good, FileVerifies, DiskVerifies, StoredVerifies, EntryVerifies
    <3>2. c.entry \in Entries
      BY <1>8 DEF Checks
    <3>3. Sound(c.entry.state, c.entry.diskName) /\ (c.entry.state.fw <=> rom # "none")
      BY <3>1, <3>2 DEF Entries, Restorable
    <3> QED  BY <3>1, <3>3 DEF ApplySaved, store, PageInv, TypeInv, HeldInv, Sound
  <2>4. CASE c.kind = "compare"
    BY <2>4 DEF Finish, store, PageInv, TypeInv, HeldInv, Sound
  <2> QED  BY <1>8, <2>1, <2>2, <2>3, <2>4 DEF Checks, Kinds
<1>10. HeldInv'
  BY <1>1, <1>9 DEF PageInv, HeldInv
<1>11. TypeInv'
  <2>1. checks' \subseteq Checks /\ busy' \in BOOLEAN
    BY <1>1 DEF PageInv, TypeInv
  <2> QED  BY <1>1, <1>3, <1>7, <1>9, <2>1 DEF PageInv, TypeInv
<1> QED  BY <1>6, <1>10, <1>11 DEF PageInv

-----------------------------------------------------------------------------
(* Hiding, reloading and saved states                                      *)

LEMMA SuspendStep ==
    ASSUME PageInv, Suspend
    PROVE  PageInv'
<1>1. UNCHANGED <<session, rom, diskName, error, restoring, busy, saving, store>> /\ running' = FALSE
  BY DEF Suspend
<1>2. CASE restoring
  <2>1. UNCHANGED <<selecting, restoring, checks, busy, saving, remembered>>
    BY <1>1, <1>2 DEF Suspend, store
  <2>2. (\A c \in checks : WaitingFor(c))'
    BY <1>1, <2>1 DEF PageInv, SelectionInv, WaitingFor
  <2>3. SelectionInv'
    BY <1>1, <2>1, <2>2 DEF PageInv, SelectionInv
  <2>4. TypeInv' /\ HeldInv'
    BY <1>1, <2>1 DEF PageInv, TypeInv, HeldInv, store
  <2> QED  BY <2>3, <2>4 DEF PageInv
<1>3. CASE ~restoring
  <2>1. selecting' = FALSE /\ checks' = Superseded(checks) /\ restoring' = FALSE
    BY <1>1, <1>3 DEF Suspend, PageInv, TypeInv
  <2>2. (\A c \in checks' : ~c.current /\ \E item \in checks : Same(c, item))
        /\ (\A item \in checks : \E c \in checks' : Same(c, item))
    BY <2>1, SupersededItems DEF PageInv, TypeInv
  <2>3. SelectionInv' /\ checks' \subseteq Checks
    BY <1>1, <1>3, <2>1, <2>2, NoneSelected DEF store
  <2> QED  BY <1>1, <2>1, <2>3 DEF PageInv, TypeInv, HeldInv, store
<1> QED  BY <1>2, <1>3

\* A mounted page waits for the remembered ROM and nothing else.
LEMMA Mounts ==
    ASSUME Mounted(remembered), UNCHANGED store, remembered \in Roms \cup {"none"},
           saved \in [Names -> Entries \cup {None}], stuck \/ remembered \in {"none", accepted}
    PROVE  PageInv'
<1> DEFINE boot == Check(1, "boot", remembered, Damaged)
<1>1. /\ boot \in Checks /\ boot.kind = "boot" /\ boot.file = remembered
      /\ boot.current /\ ~boot.dirty
  BY FreshMachine DEF Check, Checks, Kinds, Files
<1>2. /\ checks' = {boot} /\ session' = Fresh /\ rom' = "none" /\ diskName' = None
      /\ running' = FALSE /\ error' = FALSE /\ selecting' = TRUE /\ restoring' = TRUE
      /\ busy' = FALSE /\ saving' = None
  BY DEF Mounted
<1> HIDE DEF boot
<1>3. SelectionInv'
  BY <1>1, <1>2 DEF SelectionInv, WaitingFor, store
<1>4. HeldInv'
  BY <1>2, FreshMachine DEF HeldInv, Sound, store
<1>5. TypeInv'
  BY <1>1, <1>2 DEF TypeInv, store
<1> QED  BY <1>3, <1>4, <1>5 DEF PageInv

LEMMA SavedStep ==
    ASSUME PageInv, NEW name \in Names, Save(name) \/ Remove(name) \/ OtherTab(name) \/ SaveEncoded
    PROVE  PageInv'
<1>1. CASE Save(name)
  <2>1. /\ saving' = [name |-> name, state |-> session, diskName |-> diskName] /\ busy' = TRUE
        /\ UNCHANGED <<session, page, checks, store>>
    BY <1>1 DEF Save
  <2>2. saving' \in Captures /\ Sound(saving.state, saving.diskName)'
    BY <2>1 DEF PageInv, HeldInv, Sound, Captures, States
  <2>3. saving' # None
    BY <2>2, PageAssumption
  <2> QED  BY <2>1, <2>2, <2>3
           DEF PageInv, TypeInv, HeldInv, SelectionInv, WaitingFor, page, store
<1>2. CASE Remove(name) \/ OtherTab(name)
  <2>1. saved' \in [Names -> Entries \cup {None}]
    BY <1>2, FreshMachine DEF Remove, OtherTab, PageInv, TypeInv
  <2> QED  BY <1>2, <2>1
           DEF Remove, OtherTab, PageInv, TypeInv, HeldInv, SelectionInv, WaitingFor, page
<1>3. CASE SaveEncoded
  <2>1. /\ saving # None /\ busy' = FALSE /\ saving' = None
        /\ UNCHANGED <<session, page, checks, remembered, accepted, stuck>>
    BY <1>3 DEF SaveEncoded
  <2>2. saving.name \in Names /\ Entry(TRUE, saving.state, Label) \in Entries
    BY <2>1 DEF PageInv, HeldInv, Captures, Entry, Label, Entries
  <2>3. saved' \in [Names -> Entries \cup {None}]
    BY <1>3, <2>2 DEF SaveEncoded, PageInv, TypeInv
  <2> QED  BY <2>1, <2>3 DEF PageInv, TypeInv, HeldInv, SelectionInv, WaitingFor, page
<1> QED  BY <1>1, <1>2, <1>3

LEMMA PageStep ==
    ASSUME PageInv, [Next]_vars
    PROVE  PageInv'
<1>1. CASE \E c \in checks : Finish(c)
  BY <1>1, RefusedEnds, AcceptedEnds
<1>2. CASE Reload
  BY <1>2, Mounts DEF Reload, PageInv, TypeInv, HeldInv
<1>3. CASE Forget
  BY <1>3 DEF Forget, PageInv, TypeInv, HeldInv, SelectionInv, WaitingFor, page
<1>4. CASE SaveEncoded
  <2>1. \E name \in Names : TRUE
    BY <1>4 DEF SaveEncoded, PageInv, HeldInv, Captures
  <2> QED  BY <1>4, <2>1, SavedStep
<1>5. CASE UNCHANGED vars
  BY <1>5 DEF vars, page, store, PageInv, TypeInv, HeldInv, SelectionInv, WaitingFor
<1> QED  BY <1>1, <1>2, <1>3, <1>4, <1>5, ControlStep, ChoiceStep, UseStep, SuspendStep, SavedStep
         DEF Next

LEMMA PageInitially == Init => PageInv
<1> SUFFICES ASSUME Init
             PROVE  PageInv
  OBVIOUS
<1> DEFINE boot == Check(1, "boot", "none", Damaged)
<1>1. /\ boot \in Checks /\ boot.kind = "boot" /\ boot.file = "none"
      /\ boot.current /\ ~boot.dirty
  BY FreshMachine DEF Check, Checks, Kinds, Files
<1>2. checks = {boot}
  BY DEF Init
<1> HIDE DEF boot
<1>3. SelectionInv
  BY <1>1, <1>2 DEF Init, SelectionInv, WaitingFor
<1>4. HeldInv
  BY FreshMachine DEF Init, HeldInv, Sound
<1>5. TypeInv
  BY <1>1, <1>2 DEF Init, TypeInv
<1> QED  BY <1>3, <1>4, <1>5 DEF PageInv

-----------------------------------------------------------------------------
(* What the page promises                                                  *)

LEMMA PageHolds == Spec => []PageInv
BY PageInitially, PageStep, PTL DEF Spec

-----------------------------------------------------------------------------
(* The CoCo's ROMs                                                         *)

CocoVerifications == [slot : Coco!Slots, good : BOOLEAN, boot : BOOLEAN]
\* The agreement holds also while a chosen file is verified, one at a time; the ROMs verified
\* at a visit are those in storage.
RomsInv ==
    /\ Coco!RomsAgree
    /\ roms \subseteq Coco!Slots /\ cocoChecks \subseteq CocoVerifications
    /\ \A c \in cocoChecks : c.boot /\ c.good => c.slot \in stored
    /\ \A c1, c2 \in cocoChecks : c1 = c2 \/ (c1.boot /\ c2.boot)
    /\ (\E c \in cocoChecks : ~c.boot) => roms = sockets /\ roms = fitted

\* What the steps that leave ROMs, storage and verifications alone must keep.
LEMMA CocoMachineStep ==
    ASSUME RomsInv,
           Coco!Run \/ Coco!Pause \/ Coco!StepMachine \/ Coco!Send \/ Coco!Reset \/ Coco!PowerOn
           \/ Coco!ReleaseFocus \/ Coco!Restore
    PROVE  RomsInv'
<1> USE DEF RomsInv, Coco!RomsAgree, Coco!Ready, Coco!HasFirmware
<1>1. CASE Coco!Run \/ Coco!Pause
  BY <1>1 DEF Coco!Run, Coco!Pause, Coco!machine, Coco!storage
<1>2. CASE Coco!StepMachine
  BY <1>2 DEF Coco!StepMachine, Coco!CanStep, Coco!storage
<1>3. CASE Coco!Send
  BY <1>3 DEF Coco!Send, Coco!execution, Coco!storage
<1>4. CASE Coco!Reset
  BY <1>4 DEF Coco!Reset, Coco!ChangedMachine, Coco!storage
<1>5. CASE Coco!PowerOn
  BY <1>5 DEF Coco!PowerOn, Coco!Fresh, Coco!ChangedMachine, Coco!storage
<1>6. CASE Coco!ReleaseFocus
  BY <1>6 DEF Coco!ReleaseFocus, Coco!storage
<1>7. CASE Coco!Restore
  BY <1>7 DEF Coco!Restore, Coco!Fits, Coco!ChangedMachine, Coco!storage
<1> QED  BY <1>1, <1>2, <1>3, <1>4, <1>5, <1>6, <1>7

LEMMA CocoStoreStep ==
    ASSUME RomsInv,
           Coco!Save \/ Coco!ForgetSnapshot \/ Coco!RemoveExtended \/ Coco!Reload
           \/ (\E slot \in Coco!Slots : Coco!Choose(slot) \/ Coco!Forget(slot))
    PROVE  RomsInv'
<1> USE DEF RomsInv, Coco!RomsAgree, Coco!Ready, Coco!HasFirmware
<1>1. CASE Coco!Save
  BY <1>1 DEF Coco!Save, Coco!Snapshot, Coco!machine, Coco!execution
<1>2. CASE Coco!ForgetSnapshot
  BY <1>2 DEF Coco!ForgetSnapshot, Coco!NoSnapshot, Coco!machine, Coco!execution
<1>3. CASE Coco!RemoveExtended
  <2>1. roms \ {"extended"} = roms \cap {"firmware"}
    BY DEF Coco!Slots
  <2>2. cocoChecks = {}
    BY <1>3 DEF Coco!RemoveExtended
  <2> QED  BY <1>3, <2>1, <2>2 DEF Coco!RemoveExtended, Coco!Fresh, Coco!ChangedMachine, Coco!Forgotten
<1>4. CASE Coco!Reload
  <2> DEFINE Boot(slot) == Coco!Check(slot, slot \in stored, TRUE)
  <2>1. ASSUME NEW slot \in Coco!Slots
        PROVE  /\ Boot(slot) \in CocoVerifications /\ Boot(slot).boot
               /\ Boot(slot).slot = slot /\ (Boot(slot).good => slot \in stored)
    <3>1. \A good \in BOOLEAN : Coco!Check(slot, good, TRUE) \in CocoVerifications
      BY DEF CocoVerifications, Coco!Check
    <3>2. (slot \in stored) \in BOOLEAN
      OBVIOUS
    <3> QED  BY <3>1, <3>2, Zenon DEF Coco!Check
  <2>2. cocoChecks' = {Boot(slot) : slot \in Coco!Slots} /\ stored' = stored
    BY <1>4 DEF Coco!Reload, Coco!Mounted
  <2>3. cocoChecks' # {}
    BY <2>2 DEF Coco!Slots
  <2> HIDE DEF Boot
  <2>4. \A c \in cocoChecks' : c \in CocoVerifications /\ c.boot /\ (c.good => c.slot \in stored')
    BY <2>1, <2>2
  <2>5. (hasSaved <=> cocoSaved.kind # "none")'
    BY <1>4, Zenon DEF Coco!Reload, Coco!Mounted
  <2>6. /\ roms' = {} /\ sockets' = {} /\ fitted' = {} /\ keys' = 0 /\ ~cocoRunning' /\ cocoSelecting'
        /\ UNCHANGED <<stored, removed>>
    BY <1>4 DEF Coco!Reload, Coco!Mounted
  <2> QED  BY <2>3, <2>4, <2>5, <2>6
<1>5. ASSUME NEW slot \in Coco!Slots, Coco!Choose(slot)
      PROVE  RomsInv'
  <2>1. PICK good \in BOOLEAN : cocoChecks' = {Coco!Check(slot, good, FALSE)}
    BY <1>5 DEF Coco!Choose
  <2>2. Coco!Check(slot, good, FALSE) \in CocoVerifications /\ ~Coco!Check(slot, good, FALSE).boot
    BY DEF CocoVerifications, Coco!Check
  <2> QED  BY <1>5, <2>1, <2>2 DEF Coco!Choose, Coco!machine, Coco!storage
<1>6. ASSUME NEW slot \in Coco!Slots, Coco!Forget(slot)
      PROVE  RomsInv'
  <2>1. cocoChecks = {}
    BY <1>6 DEF Coco!Forget
  <2> QED  BY <1>6, <2>1 DEF Coco!Forget, Coco!machine, Coco!execution
<1> QED  BY <1>1, <1>2, <1>3, <1>4, <1>5, <1>6

LEMMA CocoVerifiedStep ==
    ASSUME RomsInv, NEW c \in cocoChecks, Coco!Verified(c) \/ Coco!Restored(c)
    PROVE  RomsInv'
<1> USE DEF RomsInv, Coco!RomsAgree, Coco!Ready, Coco!HasFirmware
<1>1. CASE Coco!Verified(c)
  <2>1. ~c.boot /\ roms = sockets /\ roms = fitted /\ cocoChecks' = {} /\ ~cocoSelecting'
        /\ cocoSelecting /\ ~cocoRunning /\ c.slot \in Coco!Slots
    BY <1>1 DEF Coco!Verified, CocoVerifications
  <2>2. CASE c.good
    <3>1. roms' = roms \cup {c.slot} /\ sockets' = roms' /\ fitted' = roms' /\ keys' = 0
          /\ ~cocoRunning' /\ ~cocoError'
      BY <1>1, <2>1, <2>2 DEF Coco!Verified, Coco!InstallRom, Coco!FitFirmware, Coco!Fresh, Coco!ChangedMachine
    <3>2. removed' => "extended" \notin stored' \cup roms'
      BY <1>1, <2>1, <2>2, <3>1 DEF Coco!Verified, Coco!Remember
    <3> QED  BY <1>1, <2>1, <3>1, <3>2 DEF Coco!Verified
  <2>3. CASE ~c.good
    BY <1>1, <2>1, <2>3 DEF Coco!Verified, Coco!machine, Coco!execution
  <2> QED  BY <2>2, <2>3
<1>2. CASE Coco!Restored(c)
  <2>1. c.boot /\ cocoChecks' = cocoChecks \ {c} /\ cocoSelecting /\ ~cocoRunning
        /\ UNCHANGED <<stored, cocoSaved, hasSaved, removed>> /\ c.slot \in Coco!Slots
        /\ \A d \in cocoChecks : d.boot
    BY <1>2 DEF Coco!Restored, Coco!storage, CocoVerifications
  <2>2. /\ roms' = IF c.good THEN roms \cup {c.slot} ELSE roms
        /\ removed' => "extended" \notin stored' \cup roms'
        /\ roms' \subseteq Coco!Slots
    BY <1>2, <2>1 DEF Coco!Restored
  <2>3. CASE cocoChecks' = {}
    <3>1. sockets' = roms' /\ fitted' = roms' /\ keys' = 0 /\ ~cocoRunning' /\ ~cocoSelecting'
      BY <1>2, <2>3 DEF Coco!Restored, Coco!Fresh, Coco!ChangedMachine
    <3> QED  BY <2>1, <2>2, <2>3, <3>1
  <2>4. CASE cocoChecks' # {}
    <3>1. UNCHANGED <<sockets, fitted, keys, cocoRunning, cocoError, cocoSelecting>>
      BY <1>2, <2>4 DEF Coco!Restored, Coco!machine, Coco!execution
    <3> QED  BY <2>1, <2>2, <2>4, <3>1
  <2> QED  BY <2>3, <2>4
<1> QED  BY <1>1, <1>2

LEMMA CocoStep ==
    ASSUME RomsInv, [Coco!Next]_(Coco!vars)
    PROVE  RomsInv'
<1>1. CASE UNCHANGED Coco!vars
  BY <1>1 DEF Coco!vars, Coco!machine, Coco!execution, Coco!storage, RomsInv, Coco!RomsAgree, Coco!Ready, Coco!HasFirmware
<1> QED  BY <1>1, CocoMachineStep, CocoStoreStep, CocoVerifiedStep DEF Coco!Next

LEMMA CocoInitially == Coco!Init => RomsInv
<1> SUFFICES ASSUME Coco!Init PROVE RomsInv
  OBVIOUS
<1> DEFINE Boot(slot) == Coco!Check(slot, FALSE, TRUE)
<1>1. \A slot \in Coco!Slots : Boot(slot) \in CocoVerifications /\ Boot(slot).boot /\ ~Boot(slot).good
  BY DEF CocoVerifications, Coco!Check
<1>2. cocoChecks = {Boot(slot) : slot \in Coco!Slots}
  BY DEF Coco!Init
<1>3. cocoChecks # {}
  BY <1>2 DEF Coco!Slots
<1> HIDE DEF Boot
<1>4. \A c \in cocoChecks : c \in CocoVerifications /\ c.boot /\ ~c.good
  BY <1>1, <1>2
<1>5. hasSaved <=> cocoSaved.kind # "none"
  BY Zenon DEF Coco!Init
<1>6. roms = {} /\ sockets = {} /\ fitted = {} /\ keys = 0 /\ ~cocoRunning /\ cocoSelecting /\ ~removed
  BY DEF Coco!Init
<1> QED  BY <1>3, <1>4, <1>5, <1>6 DEF RomsInv, Coco!RomsAgree, Coco!Ready, Coco!HasFirmware

-----------------------------------------------------------------------------
(* Induction over the natural numbers, and functions defined by it         *)

Less == {pair \in Nat \X Nat : pair[1] < pair[2]}
LEMMA LessIsWellFounded == IsWellFoundedOn(Less, Nat)
BY NatLessThanWellFounded DEF OpToRel, Less

LEMMA Induct ==
    ASSUME NEW S \in SUBSET Nat, 0 \in S, \A n \in S : n + 1 \in S
    PROVE  S = Nat
<1> DEFINE T == Nat \ S
<1> SUFFICES ASSUME T # {} PROVE FALSE
  OBVIOUS
<1>1. PICK m \in T : \A k \in T : <<k, m>> \notin Less
  BY LessIsWellFounded, WFMin
<1>2. \A k \in T : ~(k < m)
  BY <1>1 DEF Less
<1>3. m - 1 \in Nat /\ m - 1 \notin T
  BY <1>2
<1> QED  BY <1>1, <1>3

Steps(step, X) == \A n \in Nat, x \in X : step[<<n, x>>] \in X
Iterated(f, N, X, x0, step) ==
    f \in [0..N -> X] /\ f[0] = x0 /\ \A n \in 1..N : f[n] = step[<<n - 1, f[n - 1]>>]

LEMMA Iterates ==
    ASSUME NEW N \in Nat, NEW X, NEW x0 \in X, NEW step, Steps(step, X)
    PROVE  \E f : Iterated(f, N, X, x0, step)
<1> USE DEF Steps
<1> DEFINE Iterate(k, f) == f \in [0..k -> X] /\ f[0] = x0
                            /\ \A n \in 1..k : f[n] = step[<<n - 1, f[n - 1]>>]
           S == {k \in Nat : \E f : Iterate(k, f)}
<1>1. 0 \in S
  <2>1. Iterate(0, [n \in 0..0 |-> x0])
    OBVIOUS
  <2> QED  BY <2>1
<1>2. ASSUME NEW k \in S PROVE k + 1 \in S
  <2>1. PICK f : Iterate(k, f)
    OBVIOUS
  <2> DEFINE g == [n \in 0..(k + 1) |-> IF n = k + 1 THEN step[<<k, f[k]>>] ELSE f[n]]
  <2>2. f[k] \in X /\ step[<<k, f[k]>>] \in X
    BY <2>1
  <2>3. g \in [0..(k + 1) -> X] /\ g[0] = x0
    BY <2>1, <2>2
  <2>4. \A n \in 1..(k + 1) : g[n] = step[<<n - 1, g[n - 1]>>]
    <3> SUFFICES ASSUME NEW n \in 1..(k + 1) PROVE g[n] = step[<<n - 1, g[n - 1]>>]
      OBVIOUS
    <3>1. n - 1 \in 0..k /\ n - 1 # k + 1
      OBVIOUS
    <3>2. g[n - 1] = f[n - 1]
      BY <3>1
    <3>3. CASE n = k + 1
      BY <3>2, <3>3
    <3>4. CASE n # k + 1
      <4>1. n \in 1..k /\ g[n] = f[n]
        BY <3>4
      <4> QED  BY <2>1, <3>2, <4>1
    <3> QED  BY <3>3, <3>4
  <2> HIDE DEF g
  <2>5. Iterate(k + 1, g) /\ k + 1 \in Nat
    BY <2>3, <2>4
  <2> QED  BY <2>5
<1> HIDE DEF S
<1>3. S = Nat
  BY <1>1, <1>2, Induct DEF S
<1>4. PICK f : Iterate(N, f)
  BY <1>3 DEF S
<1> QED  BY <1>4 DEF Iterated

-----------------------------------------------------------------------------
(* The switch matrix                                                       *)

AllLines == [a : SUBSET Coco!RowSet, b : SUBSET Coco!ColumnSet]
AllKeys == Coco!RowSet \X Coco!ColumnSet

\* Lines that low reaches: no fewer than low, and no more than any closed set above it.
Reached(down, low, l) ==
    /\ l \in AllLines /\ low.a \subseteq l.a /\ low.b \subseteq l.b
    /\ \A m \in AllLines : low.a \subseteq m.a /\ low.b \subseteq m.b /\ Coco!Spread(down, m)
                              => l.a \subseteq m.a /\ l.b \subseteq m.b

LEMMA ReachedFurther ==
    ASSUME NEW down, NEW low \in AllLines, NEW l, NEW k,
           Reached(down, low, l), Reached(down, l, k)
    PROVE  Reached(down, low, k) /\ (k = low => l = low)
<1>1. Reached(down, low, k)
  BY DEF Reached
<1>2. k = low => l.a = low.a /\ l.b = low.b
  BY DEF Reached
<1>3. l \in AllLines
  BY DEF Reached
<1>4. l.a = low.a /\ l.b = low.b => l = low
  BY <1>3 DEF AllLines
<1> QED  BY <1>1, <1>2, <1>4

LEMMA TouchSpreads ==
    ASSUME NEW down \in SUBSET AllKeys, NEW low \in AllLines, NEW row \in Coco!RowSet
    PROVE  LET l == Coco!Touch(down, low, row)
           IN  /\ Reached(down, low, l)
               /\ l = low => \A k \in down : k[1] = row => (row \in low.a <=> k[2] \in low.b)
<1> DEFINE l == Coco!Touch(down, low, row)
           closed == Coco!Closed(down, row)
           a == IF closed \cap low.b # {} THEN low.a \cup {row} ELSE low.a
           b == IF row \in a THEN low.b \cup closed ELSE low.b
<1>1. l = [a |-> a, b |-> b]
  BY DEF Coco!Touch, Coco!Lines
<1>2. \A c : c \in closed <=> \E k \in down : k[1] = row /\ k[2] = c
  BY DEF Coco!Closed
<1>3. closed \subseteq Coco!ColumnSet
  BY <1>2 DEF AllKeys
<1>4. low.a \subseteq Coco!RowSet /\ low.b \subseteq Coco!ColumnSet /\ low = [a |-> low.a, b |-> low.b]
  BY DEF AllLines
<1> HIDE DEF closed
<1>5. l \in AllLines /\ low.a \subseteq l.a /\ low.b \subseteq l.b
  BY <1>1, <1>3, <1>4 DEF AllLines
<1>6. ASSUME l = low, NEW k \in down, k[1] = row PROVE row \in low.a <=> k[2] \in low.b
  <2>1. a = low.a /\ b = low.b
    BY <1>1, <1>6
  <2>2. k[2] \in closed
    BY <1>2, <1>6
  <2> QED  BY <2>1, <2>2
<1>7. ASSUME NEW m \in AllLines, low.a \subseteq m.a, low.b \subseteq m.b, Coco!Spread(down, m)
      PROVE  l.a \subseteq m.a /\ l.b \subseteq m.b
  <2>1. \A c \in closed : row \in m.a <=> c \in m.b
    BY <1>2, <1>7 DEF Coco!Spread
  <2>2. a \subseteq m.a /\ b \subseteq m.b
    BY <1>7, <2>1
  <2> QED  BY <1>1, <2>2
<1> QED  BY <1>5, <1>6, <1>7 DEF Reached

\* The passes' function, and its last value.
LEMMA PassIterates ==
    ASSUME NEW down \in SUBSET AllKeys, NEW low \in AllLines
    PROVE  \E f \in [0..Rows -> AllLines] :
              /\ f[0] = low /\ f[Rows] = Coco!Pass(down, low)
              /\ \A n \in 1..Rows : f[n] = Coco!Touch(down, f[n - 1], n - 1)
<1> DEFINE After(f) == f = [n \in 0..Rows |-> IF n = 0 THEN low ELSE Coco!Touch(down, f[n - 1], n - 1)]
           step == [pair \in Nat \X AllLines |->
                       IF pair[1] \in Coco!RowSet THEN Coco!Touch(down, pair[2], pair[1]) ELSE pair[2]]
<1>1. Rows \in Nat
  BY MatrixAssumption
<1>2. Steps(step, AllLines)
  BY TouchSpreads DEF Steps, Reached
<1>3. \A n \in Nat, l \in AllLines : n \in Coco!RowSet => step[<<n, l>>] = Coco!Touch(down, l, n)
  OBVIOUS
<1> HIDE DEF step
<1>4. PICK f : Iterated(f, Rows, AllLines, low, step)
  BY <1>1, <1>2, Iterates
<1>5. \A n \in 1..Rows : f[n] = Coco!Touch(down, f[n - 1], n - 1)
  <2> SUFFICES ASSUME NEW n \in 1..Rows PROVE f[n] = Coco!Touch(down, f[n - 1], n - 1)
    OBVIOUS
  <2>1. n - 1 \in Coco!RowSet /\ n - 1 \in Nat /\ f[n - 1] \in AllLines
    BY <1>1, <1>4 DEF Coco!RowSet, Iterated
  <2> QED  BY <1>3, <1>4, <2>1 DEF Iterated
<1>6. After(f)
  BY <1>1, <1>4, <1>5 DEF Iterated
<1>7. After(CHOOSE g : After(g))
  BY <1>6
<1> DEFINE g == CHOOSE g : After(g)
<1>8. Coco!Pass(down, low) = g[Rows]
  BY DEF Coco!Pass
<1>13. After(g)
  BY <1>7
<1> HIDE DEF g
<1>9. /\ g = [n \in 0..Rows |-> g[n]] /\ g[0] = low
      /\ \A n \in 1..Rows : g[n] = Coco!Touch(down, g[n - 1], n - 1)
  <2>1. g = [n \in 0..Rows |-> IF n = 0 THEN low ELSE Coco!Touch(down, g[n - 1], n - 1)]
    BY <1>13
  <2>2. \A n \in 0..Rows : g[n] = IF n = 0 THEN low ELSE Coco!Touch(down, g[n - 1], n - 1)
    BY <2>1
  <2>3. 0 \in 0..Rows /\ \A n \in 1..Rows : n \in 0..Rows /\ n # 0
    BY <1>1
  <2>4. g = [n \in 0..Rows |-> g[n]]
    BY <2>1
  <2> QED  BY <2>2, <2>3, <2>4
<1> DEFINE S == {n \in Nat : n <= Rows => g[n] \in AllLines}
<1>10. ASSUME NEW n \in S PROVE n + 1 \in S
  <2> SUFFICES ASSUME n + 1 <= Rows PROVE g[n + 1] \in AllLines
    OBVIOUS
  <2>1. n \in Coco!RowSet /\ n + 1 \in 1..Rows /\ g[n] \in AllLines
    BY <1>1 DEF Coco!RowSet
  <2>2. (n + 1) - 1 = n
    BY <2>1
  <2>3. g[n + 1] = Coco!Touch(down, g[n], n)
    BY <1>9, <2>1, <2>2
  <2> QED  BY <2>1, <2>3, TouchSpreads DEF Reached
<1>11. 0 \in S /\ S \in SUBSET Nat
  BY <1>9
<1> HIDE DEF S
<1>14. S = Nat
  BY <1>10, <1>11, Induct
<1>12. g \in [0..Rows -> AllLines]
  <2>1. \A n \in 0..Rows : g[n] \in AllLines
    BY <1>14 DEF S
  <2> QED  BY <1>9, <2>1
<1> QED  BY <1>8, <1>9, <1>12

LEMMA PassSpreads ==
    ASSUME NEW down \in SUBSET AllKeys, NEW low \in AllLines
    PROVE  /\ Reached(down, low, Coco!Pass(down, low))
           /\ Coco!Pass(down, low) = low => Coco!Spread(down, low)
<1>1. PICK f \in [0..Rows -> AllLines] :
        /\ f[0] = low /\ f[Rows] = Coco!Pass(down, low)
        /\ \A n \in 1..Rows : f[n] = Coco!Touch(down, f[n - 1], n - 1)
  BY PassIterates
<1>2. Rows \in Nat
  BY MatrixAssumption
<1> DEFINE Passed(n) == /\ Reached(down, low, f[n])
                        /\ f[n] = low => \A k \in down : k[1] < n => (k[1] \in low.a <=> k[2] \in low.b)
           S == {n \in Nat : n <= Rows => Passed(n)}
<1>3. 0 \in S
  <2>1. \A k \in down : k[1] \in Coco!RowSet
    BY DEF AllKeys
  <2>2. \A k \in down : ~(k[1] < 0)
    BY <1>2, <2>1 DEF Coco!RowSet
  <2> QED  BY <1>1, <2>2 DEF Reached
<1>4. ASSUME NEW n \in S PROVE n + 1 \in S
  <2> SUFFICES ASSUME n + 1 <= Rows PROVE Passed(n + 1)
    OBVIOUS
  <2>1. n \in Coco!RowSet /\ n + 1 \in 1..Rows /\ n \in 0..Rows /\ (n + 1) - 1 = n /\ n <= Rows
    BY <1>2 DEF Coco!RowSet
  <2>2. f[n + 1] = Coco!Touch(down, f[n], n) /\ f[n] \in AllLines /\ Passed(n)
    BY <1>1, <2>1
  <2>3. /\ Reached(down, f[n], f[n + 1])
        /\ f[n + 1] = f[n] => \A k \in down : k[1] = n => (n \in f[n].a <=> k[2] \in f[n].b)
    BY <2>1, <2>2, TouchSpreads
  <2>4. Reached(down, low, f[n + 1]) /\ (f[n + 1] = low => f[n] = low)
    BY <2>2, <2>3, ReachedFurther
  <2>5. ASSUME f[n + 1] = low, NEW k \in down, k[1] < n + 1
        PROVE  k[1] \in low.a <=> k[2] \in low.b
    <3>1. k[1] \in Nat
      BY <1>2 DEF AllKeys, Coco!RowSet
    <3>2. k[1] < n \/ k[1] = n
      BY <2>5, <3>1
    <3> QED  BY <2>2, <2>3, <2>4, <2>5, <3>2
  <2> QED  BY <2>4, <2>5
<1>5. S \in SUBSET Nat
  OBVIOUS
<1> HIDE DEF S
<1>6. S = Nat
  BY <1>3, <1>4, <1>5, Induct
<1>7. Passed(Rows)
  BY <1>2, <1>6 DEF S
<1>8. \A k \in down : k[1] < Rows
  BY <1>2 DEF AllKeys, Coco!RowSet
<1> QED  BY <1>1, <1>7, <1>8 DEF Coco!Spread

\* The same of the passes that Resolve repeats.
LEMMA ResolveIterates ==
    ASSUME NEW down \in SUBSET AllKeys, NEW low \in AllLines
    PROVE  \E f \in [0..(Rows + Columns) -> AllLines] :
              /\ f[0] = low /\ f[Rows + Columns] = Coco!Resolve(down, low)
              /\ \A n \in 1..(Rows + Columns) : f[n] = Coco!Pass(down, f[n - 1])
<1> DEFINE N == Rows + Columns
           After(f) == f = [n \in 0..N |-> IF n = 0 THEN low ELSE Coco!Pass(down, f[n - 1])]
           step == [pair \in Nat \X AllLines |-> Coco!Pass(down, pair[2])]
<1>1. N \in Nat
  BY MatrixAssumption
<1>2. Steps(step, AllLines)
  BY PassSpreads DEF Steps, Reached
<1>3. \A n \in Nat, l \in AllLines : step[<<n, l>>] = Coco!Pass(down, l)
  OBVIOUS
<1> HIDE DEF step
<1>4. PICK f : Iterated(f, N, AllLines, low, step)
  BY <1>1, <1>2, Iterates
<1>5. \A n \in 1..N : f[n] = Coco!Pass(down, f[n - 1])
  <2> SUFFICES ASSUME NEW n \in 1..N PROVE f[n] = Coco!Pass(down, f[n - 1])
    OBVIOUS
  <2>1. n - 1 \in Nat /\ f[n - 1] \in AllLines
    BY <1>1, <1>4 DEF Iterated
  <2> QED  BY <1>3, <1>4, <2>1 DEF Iterated
<1>6. After(f)
  BY <1>1, <1>4, <1>5 DEF Iterated
<1>7. After(CHOOSE g : After(g))
  BY <1>6
<1> DEFINE g == CHOOSE g : After(g)
<1>8. Coco!Resolve(down, low) = g[N]
  BY DEF Coco!Resolve
<1>9. After(g)
  BY <1>7
<1> HIDE DEF g
<1>10. /\ g = [n \in 0..N |-> g[n]] /\ g[0] = low
       /\ \A n \in 1..N : g[n] = Coco!Pass(down, g[n - 1])
  <2>1. \A n \in 0..N : g[n] = IF n = 0 THEN low ELSE Coco!Pass(down, g[n - 1])
    BY <1>9
  <2>2. 0 \in 0..N /\ \A n \in 1..N : n \in 0..N /\ n # 0
    BY <1>1
  <2>3. g = [n \in 0..N |-> g[n]]
    BY <1>9
  <2> QED  BY <2>1, <2>2, <2>3
<1> DEFINE S == {n \in Nat : n <= N => g[n] \in AllLines}
<1>11. ASSUME NEW n \in S PROVE n + 1 \in S
  <2> SUFFICES ASSUME n + 1 <= N PROVE g[n + 1] \in AllLines
    OBVIOUS
  <2>1. n + 1 \in 1..N /\ g[n] \in AllLines /\ (n + 1) - 1 = n
    BY <1>1
  <2>2. g[n + 1] = Coco!Pass(down, g[n])
    BY <1>10, <2>1
  <2> QED  BY <2>1, <2>2, PassSpreads DEF Reached
<1>12. 0 \in S /\ S \in SUBSET Nat
  BY <1>10
<1> HIDE DEF S
<1>13. S = Nat
  BY <1>11, <1>12, Induct
<1>14. g \in [0..N -> AllLines]
  <2>1. \A n \in 0..N : g[n] \in AllLines
    BY <1>13 DEF S
  <2> QED  BY <1>10, <2>1
<1> QED  BY <1>8, <1>10, <1>14

\* Sets of lines are finite, and their sizes tell them apart.
Size(l) == Cardinality(l.a) + Cardinality(l.b)
LEMMA SizesGrow ==
    ASSUME NEW l \in AllLines, NEW k \in AllLines, l.a \subseteq k.a, l.b \subseteq k.b
    PROVE  /\ Size(l) \in Nat /\ Size(k) \in Nat /\ Size(k) <= Rows + Columns
           /\ l # k => Size(l) < Size(k)
<1>1. /\ IsFiniteSet(Coco!RowSet) /\ Cardinality(Coco!RowSet) = Rows
      /\ IsFiniteSet(Coco!ColumnSet) /\ Cardinality(Coco!ColumnSet) = Columns
      /\ Rows \in Nat /\ Columns \in Nat
  <2>1. Rows \in Nat /\ Columns \in Nat
    BY MatrixAssumption
  <2>2. 0 \in Int /\ Rows - 1 \in Int /\ Columns - 1 \in Int
    BY <2>1
  <2>3. /\ IsFiniteSet(0..(Rows - 1)) /\ Cardinality(0..(Rows - 1)) = IF 0 > Rows - 1 THEN 0 ELSE Rows - 1 - 0 + 1
        /\ IsFiniteSet(0..(Columns - 1)) /\ Cardinality(0..(Columns - 1)) = IF 0 > Columns - 1 THEN 0 ELSE Columns - 1 - 0 + 1
    BY <2>2, FS_Interval
  <2> QED  BY <2>1, <2>3 DEF Coco!RowSet, Coco!ColumnSet
<1>2. k.a \in SUBSET Coco!RowSet /\ k.b \in SUBSET Coco!ColumnSet
  BY DEF AllLines
<1>3. /\ IsFiniteSet(k.a) /\ IsFiniteSet(k.b)
      /\ Cardinality(k.a) <= Rows /\ Cardinality(k.b) <= Columns
  BY <1>1, <1>2, FS_Subset
<1>4. /\ IsFiniteSet(l.a) /\ IsFiniteSet(l.b)
      /\ Cardinality(l.a) <= Cardinality(k.a) /\ Cardinality(l.b) <= Cardinality(k.b)
      /\ Cardinality(k.a) = Cardinality(l.a) => k.a = l.a
      /\ Cardinality(k.b) = Cardinality(l.b) => k.b = l.b
  BY <1>3, FS_Subset
<1>5. /\ Cardinality(k.a) \in Nat /\ Cardinality(k.b) \in Nat
      /\ Cardinality(l.a) \in Nat /\ Cardinality(l.b) \in Nat
  BY <1>3, <1>4, FS_CardinalityType
<1>6. l.a = k.a /\ l.b = k.b => l = k
  BY DEF AllLines
<1> QED  BY <1>1, <1>3, <1>4, <1>5, <1>6 DEF Size

\* Rows + Columns passes are enough: each that changes anything adds a line.
THEOREM ResolveConnects ==
    ASSUME NEW down \in SUBSET AllKeys, NEW low \in AllLines
    PROVE  Reached(down, low, Coco!Resolve(down, low)) /\ Coco!Resolve(down, low) = Coco!Connected(down, low)
<1> DEFINE N == Rows + Columns
<1>1. PICK f \in [0..N -> AllLines] :
        /\ f[0] = low /\ f[N] = Coco!Resolve(down, low)
        /\ \A n \in 1..N : f[n] = Coco!Pass(down, f[n - 1])
  BY ResolveIterates
<1>2. N \in Nat
  BY MatrixAssumption
<1> HIDE DEF N
<1> DEFINE Settled(l) == Coco!Pass(down, l) = l
           Near(n) == Reached(down, low, f[n]) /\ (Settled(f[n]) \/ Size(f[n]) >= n)
           S == {n \in Nat : n <= N => Near(n)}
<1>3. 0 \in S
  <2>1. Size(low) \in Nat
    BY SizesGrow
  <2> QED  BY <1>1, <2>1 DEF Reached
<1>4. ASSUME NEW n \in S PROVE n + 1 \in S
  <2> SUFFICES ASSUME n + 1 <= N PROVE Near(n + 1)
    OBVIOUS
  <2>1. n + 1 \in 1..N /\ n \in 0..N /\ n + 1 \in 0..N /\ (n + 1) - 1 = n
    BY <1>2
  <2>2. f[n + 1] = Coco!Pass(down, f[n]) /\ f[n] \in AllLines /\ f[n + 1] \in AllLines /\ Near(n)
    BY <1>1, <2>1
  <2> HIDE DEF S
  <2>3. Reached(down, f[n], f[n + 1])
    BY <2>2, PassSpreads
  <2>4. Reached(down, low, f[n + 1])
    BY <2>2, <2>3, ReachedFurther
  <2>5. CASE Settled(f[n])
    BY <2>2, <2>4, <2>5
  <2>6. CASE ~Settled(f[n])
    <3>1. f[n] # f[n + 1] /\ Size(f[n]) >= n
      BY <2>2, <2>6
    <3>2. Size(f[n]) \in Nat /\ Size(f[n + 1]) \in Nat /\ Size(f[n]) < Size(f[n + 1])
      BY <2>2, <2>3, <3>1, SizesGrow DEF Reached
    <3>3. Size(f[n + 1]) >= n + 1
      BY <2>1, <3>1, <3>2
    <3> QED  BY <2>4, <3>3
  <2> QED  BY <2>5, <2>6
<1>5. S \in SUBSET Nat
  OBVIOUS
<1> HIDE DEF S
<1>6. S = Nat
  BY <1>3, <1>4, <1>5, Induct
<1> DEFINE r == Coco!Resolve(down, low)
<1>7. Reached(down, low, r) /\ r \in AllLines /\ (Settled(r) \/ Size(r) >= N)
  <2>1. Near(N)
    BY <1>2, <1>6 DEF S
  <2> QED  BY <1>1, <2>1 DEF Reached
<1>8. Settled(r)
  <2>1. Reached(down, r, Coco!Pass(down, r))
    BY <1>7, PassSpreads
  <2>2. r # Coco!Pass(down, r) => Size(r) < N
    BY <1>2, <1>7, <2>1, SizesGrow DEF N, Reached
  <2>3. Size(r) \in Nat
    BY <1>7, SizesGrow
  <2> QED  BY <1>2, <1>7, <2>2, <2>3
<1>9. Coco!Spread(down, r)
  BY <1>7, <1>8, PassSpreads
<1> HIDE DEF r
<1> DEFINE closures == {l \in AllLines : low.a \subseteq l.a /\ low.b \subseteq l.b /\ Coco!Spread(down, l)}
           Least(l) == l \in closures /\ \A m \in closures : l.a \subseteq m.a /\ l.b \subseteq m.b
<1>10. Least(r)
  BY <1>7, <1>9 DEF Reached
<1>11. \A l : Least(l) => l = r
  <2> SUFFICES ASSUME NEW l, Least(l) PROVE l = r
    OBVIOUS
  <2>1. l \in AllLines /\ l.a = r.a /\ l.b = r.b
    BY <1>10
  <2> QED  BY <1>7, <2>1 DEF AllLines
<1>12. Coco!Connected(down, low) = CHOOSE l \in closures : \A m \in closures : l.a \subseteq m.a /\ l.b \subseteq m.b
  BY DEF Coco!Connected, AllLines
<1>13. Coco!Connected(down, low) = r
  <2> HIDE DEF closures
  <2>1. Least(CHOOSE l \in closures : \A m \in closures : l.a \subseteq m.a /\ l.b \subseteq m.b)
    BY <1>10
  <2> HIDE DEF Least
  <2> QED  BY <1>11, <1>12, <2>1
<1> QED  BY <1>7, <1>13 DEF r

-----------------------------------------------------------------------------
(* The CoCo's keyboard                                                     *)

\* With no key down the lines sampled low are the driven ones.
LEMMA NothingSpreads ==
    ASSUME NEW low \in AllLines
    PROVE  Coco!Resolve({}, low) = low
<1>1. {} \in SUBSET AllKeys
  OBVIOUS
<1>2. Reached({}, low, Coco!Resolve({}, low))
  BY <1>1, ResolveConnects
<1>3. Coco!Spread({}, low)
  BY DEF Coco!Spread
<1> QED  BY <1>2, <1>3 DEF Reached, AllLines

\* A stored session is one the keyboard was in.
Stored == [down : SUBSET AllKeys, drive : AllLines, pins : AllLines, input : Seq(CocoChords),
           pressed : BOOLEAN, remaining : Nat]

ChordInv ==
    /\ switches \in SUBSET AllKeys /\ drive \in AllLines /\ pins = Coco!Resolve(switches, drive)
    /\ input \in Seq(CocoChords) /\ pressed \in BOOLEAN
    /\ (pressed => input # <<>>) /\ Len(input) <= KeyQueue
    /\ switches = Coco!Held(input, pressed)
    /\ since \in 0..KeySteps /\ remaining = KeySteps - since
    /\ snapshot # Coco!NoSession => snapshot \in Stored /\ Coco!Valid(snapshot)

LEMMA ChordKeys ==
    /\ \A chord \in CocoChords : chord \in SUBSET AllKeys /\ chord # {}
    /\ \A low \in Drivers : low \in AllLines
    /\ KeySteps \in Nat /\ KeyQueue \in Nat
<1>1. KeySteps \in Nat /\ KeyQueue \in Nat
  BY MatrixAssumption
<1>2. \A low \in Drivers : low \in AllLines
  BY MatrixAssumption DEF AllLines
<1>3. \A chord \in CocoChords : chord \in SUBSET AllKeys /\ chord # {}
  BY MatrixAssumption DEF AllKeys
<1> QED  BY <1>1, <1>2, <1>3

LEMMA HeldKeys ==
    ASSUME NEW queue \in Seq(CocoChords), NEW isDown \in BOOLEAN, isDown => queue # <<>>
    PROVE  /\ Coco!Held(queue, isDown) \in SUBSET AllKeys
           /\ isDown => Coco!Held(queue, isDown) # {} /\ Coco!Held(queue, isDown) = Head(queue)
           /\ ~isDown => Coco!Held(queue, isDown) = {}
<1>1. isDown => Head(queue) \in CocoChords
  OBVIOUS
<1> QED  BY <1>1, ChordKeys DEF Coco!Held

LEMMA ChordQueued ==
    ASSUME ChordInv, NEW n \in 1..2, NEW chords \in [1..n -> CocoChords], Coco!Enqueue(chords)
    PROVE  ChordInv'
<1>1. chords \in Seq(CocoChords)
  OBVIOUS
<1>2. input' = input \o chords /\ Len(input) + Len(chords) <= KeyQueue
  BY DEF Coco!Enqueue, Coco!Room
<1>3. input' \in Seq(CocoChords) /\ Len(input') <= KeyQueue
      /\ (input # <<>> => Head(input') = Head(input) /\ input' # <<>>)
  BY <1>1, <1>2 DEF ChordInv
<1>4. UNCHANGED <<switches, drive, pins, pressed, remaining, snapshot, since>>
  BY DEF Coco!Enqueue
<1>5. Coco!Held(input', pressed) = Coco!Held(input, pressed)
  BY <1>3 DEF Coco!Held, ChordInv
<1> QED  BY <1>3, <1>4, <1>5 DEF ChordInv

LEMMA ChordPhase ==
    ASSUME ChordInv, Coco!KeyboardStep
    PROVE  ChordInv'
<1> DEFINE releasing == Coco!Due /\ Coco!Releases
           pressing == Coco!Due /\ Coco!PressesNext
           down == IF releasing THEN {} ELSE IF pressing THEN Head(input) ELSE switches
           left == IF releasing \/ pressing THEN Coco!PhaseSteps ELSE remaining
           before == IF down = switches THEN since ELSE 0
<1>1. PICK completed \in BOOLEAN, low \in Drivers :
        /\ Coco!GuestWrites(low, down) /\ remaining' = Coco!Counted(left, completed)
        /\ since' = IF completed /\ before < KeySteps THEN before + 1 ELSE before
  BY DEF Coco!KeyboardStep
<1>2. /\ switches' = down /\ pressed' = ((pressed /\ ~releasing) \/ pressing)
      /\ input' = IF releasing THEN Tail(input) ELSE input
      /\ snapshot' = snapshot
  BY DEF Coco!KeyboardStep
<1>3. /\ input \in Seq(CocoChords) /\ pressed \in BOOLEAN /\ (pressed => input # <<>>)
      /\ Len(input) <= KeyQueue /\ switches = Coco!Held(input, pressed) /\ KeySteps \in Nat
      /\ since \in 0..KeySteps /\ remaining = KeySteps - since
  BY ChordKeys DEF ChordInv
<1>4. /\ pressed => switches # {} /\ switches = Head(input)
      /\ ~pressed => switches = {}
  BY <1>3, HeldKeys
<1>5. input # <<>> => Head(input) \in SUBSET AllKeys /\ Head(input) # {}
  BY <1>3, ChordKeys
<1>6. input' \in Seq(CocoChords) /\ Len(input') <= KeyQueue /\ pressed' \in BOOLEAN
  <2>1. releasing => input # <<>>
    BY <1>3 DEF Coco!Releases
  <2>2. input # <<>> => Tail(input) \in Seq(CocoChords) /\ Len(Tail(input)) <= Len(input)
    BY <1>3
  <2> QED  BY <1>2, <1>3, <2>1, <2>2, ChordKeys
<1>7. CASE releasing
  <2>1. pressed /\ remaining = 0
    BY <1>7 DEF Coco!Due, Coco!Releases
  <2>2. ~pressing /\ down = {} /\ left = KeySteps /\ pressed' = FALSE
    BY <1>2, <1>7, <2>1 DEF Coco!PressesNext, Coco!PhaseSteps
  <2>3. before = 0
    BY <1>4, <2>1, <2>2
  <2> HIDE DEF releasing, pressing, down, left, before
  <2>4. since' \in 0..KeySteps /\ remaining' = KeySteps - since'
    BY <1>1, <1>3, <2>2, <2>3 DEF Coco!Counted
  <2>5. switches' = Coco!Held(input', pressed') /\ switches' \in SUBSET AllKeys
    BY <1>2, <2>2 DEF Coco!Held
  <2> QED  BY <1>1, <1>2, <1>6, <2>2, <2>4, <2>5, ChordKeys DEF ChordInv, Coco!GuestWrites
<1>8. CASE pressing
  <2>1. ~pressed /\ remaining = 0 /\ input # <<>> /\ ~releasing
    BY <1>8 DEF Coco!Due, Coco!PressesNext, Coco!Releases
  <2>2. down = Head(input) /\ left = KeySteps /\ pressed' = TRUE /\ input' = input
    BY <1>2, <1>8, <2>1 DEF Coco!PhaseSteps
  <2>3. before = 0
    BY <1>4, <1>5, <2>1, <2>2
  <2> HIDE DEF releasing, pressing, down, left, before
  <2>4. since' \in 0..KeySteps /\ remaining' = KeySteps - since'
    BY <1>1, <1>3, <2>2, <2>3 DEF Coco!Counted
  <2>5. switches' = Coco!Held(input', pressed') /\ switches' \in SUBSET AllKeys
    BY <1>2, <1>5, <2>1, <2>2 DEF Coco!Held
  <2> QED  BY <1>1, <1>2, <1>6, <2>1, <2>2, <2>4, <2>5, ChordKeys DEF ChordInv, Coco!GuestWrites
<1>9. CASE ~releasing /\ ~pressing
  <2>1. down = switches /\ left = remaining /\ before = since /\ pressed' = pressed /\ input' = input
    BY <1>2, <1>3, <1>9
  <2> HIDE DEF releasing, pressing, down, left, before
  <2>2. since' \in 0..KeySteps /\ remaining' = KeySteps - since'
    BY <1>1, <1>3, <2>1 DEF Coco!Counted
  <2> QED  BY <1>1, <1>2, <1>3, <1>6, <2>1, <2>2, ChordKeys DEF ChordInv, Coco!GuestWrites
<1> QED  BY <1>7, <1>8, <1>9

LEMMA ChordLifted ==
    ASSUME ChordInv, Coco!ReleaseInput \/ Coco!KeyboardPowerOn
    PROVE  ChordInv'
<1>1. Coco!NoLines \in AllLines
  BY DEF AllLines, Coco!NoLines, Coco!Lines
<1>2. {} \in SUBSET AllKeys /\ KeySteps \in 0..KeySteps /\ KeySteps - KeySteps = 0 /\ 0 <= KeyQueue
  BY ChordKeys
<1>3. switches' = {} /\ drive' \in AllLines /\ input' = <<>> /\ pressed' = FALSE /\ remaining' = 0
      /\ since' = KeySteps /\ snapshot' = snapshot
  BY <1>1 DEF Coco!ReleaseInput, Coco!ReleasedState, Coco!SetSwitches, Coco!Lifted, Coco!KeyboardPowerOn, ChordInv
<1>4. pins' = Coco!Resolve(switches', drive')
  <2>1. CASE Coco!ReleaseInput
    BY <2>1 DEF Coco!ReleaseInput, Coco!ReleasedState, Coco!SetSwitches, Coco!Sampled
  <2>2. CASE Coco!KeyboardPowerOn
    <3>1. Coco!Resolve({}, Coco!NoLines) = Coco!NoLines
      BY <1>1, NothingSpreads
    <3> QED  BY <2>2, <3>1 DEF Coco!KeyboardPowerOn
  <2> QED  BY <2>1, <2>2
<1>5. Coco!Held(<<>>, FALSE) = {}
  BY DEF Coco!Held
<1>6. /\ switches' \in SUBSET AllKeys /\ input' \in Seq(CocoChords) /\ Len(input') <= KeyQueue
      /\ since' \in 0..KeySteps /\ remaining' = KeySteps - since'
  BY <1>2, <1>3
<1> QED  BY <1>3, <1>4, <1>5, <1>6 DEF ChordInv

LEMMA ChordKept ==
    ASSUME ChordInv, Coco!SaveKeyboard \/ Coco!RestoreKeyboard
    PROVE  ChordInv'
<1>1. CASE Coco!SaveKeyboard
  <2>1. UNCHANGED <<switches, drive, pins, input, pressed, remaining, since>>
    BY <1>1 DEF Coco!SaveKeyboard, Coco!transport
  <2>2. snapshot' = [down |-> switches, drive |-> drive, pins |-> pins, input |-> input,
                     pressed |-> pressed, remaining |-> remaining]
    BY <1>1 DEF Coco!SaveKeyboard, Coco!SavedQueue
  <2>3. pins \in AllLines
    BY ResolveConnects DEF ChordInv, Reached
  <2>6. remaining \in Nat /\ remaining <= KeySteps
    BY ChordKeys DEF ChordInv
  <2>4. snapshot' \in Stored
    BY <2>2, <2>3, <2>6 DEF ChordInv, Stored
  <2>5. Coco!Valid(snapshot')
    BY <2>2, <2>6 DEF ChordInv, Coco!Valid
  <2> QED  BY <2>1, <2>4, <2>5 DEF ChordInv
<1>2. CASE Coco!RestoreKeyboard
  <2>1. snapshot \in Stored /\ Coco!Valid(snapshot) /\ snapshot' = snapshot
    BY <1>2 DEF ChordInv, Coco!RestoreKeyboard
  <2>2. /\ switches' = snapshot.down /\ drive' = snapshot.drive /\ pins' = snapshot.pins
        /\ input' = snapshot.input /\ pressed' = snapshot.pressed /\ remaining' = snapshot.remaining
        /\ since' = KeySteps - snapshot.remaining
    BY <1>2 DEF Coco!RestoreKeyboard
  <2>3. snapshot.remaining \in Nat /\ snapshot.remaining <= KeySteps /\ KeySteps \in Nat
    BY <2>1, ChordKeys DEF Stored, Coco!Valid
  <2>4. since' \in 0..KeySteps /\ remaining' = KeySteps - since'
    BY <2>2, <2>3
  <2> QED  BY <2>1, <2>2, <2>4 DEF ChordInv, Stored, Coco!Valid
<1> QED  BY <1>1, <1>2

LEMMA ChordStep ==
    ASSUME ChordInv, [Coco!KeyboardNext]_(Coco!keyboard)
    PROVE  ChordInv'
<1>1. CASE UNCHANGED Coco!keyboard
  BY <1>1 DEF Coco!keyboard, Coco!transport, ChordInv
<1> QED  BY <1>1, ChordQueued, ChordPhase, ChordLifted, ChordKept DEF Coco!KeyboardNext

LEMMA ChordInitially == Coco!KeyboardInit => ChordInv
<1> SUFFICES ASSUME Coco!KeyboardInit PROVE ChordInv
  OBVIOUS
<1>1. Coco!NoLines \in AllLines
  BY DEF AllLines, Coco!NoLines, Coco!Lines
<1>2. Coco!Resolve({}, Coco!NoLines) = Coco!NoLines
  BY <1>1, NothingSpreads
<1>3. Coco!Held(<<>>, FALSE) = {}
  BY DEF Coco!Held
<1>4. /\ switches = {} /\ drive = Coco!NoLines /\ pins = Coco!NoLines /\ input = <<>> /\ pressed = FALSE
      /\ remaining = 0 /\ since = KeySteps /\ snapshot = Coco!NoSession
  BY DEF Coco!KeyboardInit
<1>5. switches \in SUBSET AllKeys /\ input \in Seq(CocoChords) /\ Len(input) <= KeyQueue
      /\ since \in 0..KeySteps /\ remaining = KeySteps - since
  BY <1>4, ChordKeys
<1> QED  BY <1>1, <1>2, <1>3, <1>4, <1>5 DEF ChordInv

LEMMA ChordHolds == ChordInv => Coco!ChordIsSampled
BY ResolveConnects DEF ChordInv, Coco!ChordIsSampled

-----------------------------------------------------------------------------
(* The XT's diskette                                                       *)

\* A diskette is shown by its name, and an empty drive is not writable.
Labelled(disk) == disk.name = disk.image /\ (disk.writable => disk.image # None)
\* A file is read alone; what a visit reads is in storage; a checkpoint has every ROM.
DriveInv ==
    /\ Xt!DriveAgrees /\ Labelled(xtDrive) /\ loaded \subseteq Sockets
    /\ \A r \in reads : /\ r.kind \in {"boot", "rom", "disk"}
                        /\ r.kind = "disk" => Labelled(r.what)
                        /\ r.kind # "disk" => r.what \in Sockets
                        /\ r.kind = "boot" /\ r.good => r.what \in xtStored
    /\ \A r1, r2 \in reads : r1 = r2 \/ (r1.kind = "boot" /\ r2.kind = "boot")
    /\ checkpoint.some => checkpoint.roms = Sockets /\ Labelled(checkpoint.drive)

LEMMA XtMachineStep ==
    ASSUME DriveInv,
           Xt!Run \/ Xt!Stop \/ Xt!StepMachine \/ Xt!ResetCpu \/ Xt!PowerOn \/ Xt!Eject
           \/ Xt!Save \/ Xt!Restore \/ Xt!RemoveSaved
    PROVE  DriveInv'
<1> USE DEF DriveInv, Xt!DriveAgrees, Xt!Session, Xt!Ready, Xt!Idle, Xt!Fits
<1>1. CASE Xt!Run \/ Xt!Stop
  BY <1>1 DEF Xt!Run, Xt!Stop, Xt!roms, Labelled
<1>2. CASE Xt!StepMachine
  <2>1. xtRunning' => xtRunning /\ ~xtError'
    BY <1>2 DEF Xt!StepMachine
  <2>2. Xt!Session /\ UNCHANGED <<xtDrive, loaded, xtRemembered, xtStored, loading, readingDisk, reads,
                                 checkpoint, xtSaved>>
    BY <1>2 DEF Xt!StepMachine, Xt!roms
  <2> QED  BY <2>1, <2>2 DEF Labelled
<1>3. CASE Xt!ResetCpu
  BY <1>3 DEF Xt!ResetCpu, Xt!Tools, Xt!roms
<1>4. CASE Xt!PowerOn
  BY <1>4 DEF Xt!PowerOn, Xt!DriveAfterPower, Xt!roms
<1>5. CASE Xt!Eject
  <2>1. Labelled(xtDrive')
    BY <1>5 DEF Xt!Eject, Xt!Ejected, Xt!Empty, Labelled
  <2> QED  BY <1>5, <2>1 DEF Xt!Eject, Xt!roms, Xt!locks, Labelled
<1>6. CASE Xt!Save
  <2>1. checkpoint'.some /\ checkpoint'.roms = Sockets /\ checkpoint'.drive = xtDrive
    BY <1>6 DEF Xt!Save, Xt!Kept
  <2> QED  BY <1>6, <2>1 DEF Xt!Save, Xt!roms, Xt!locks, Labelled
<1>7. CASE Xt!Restore
  BY <1>7 DEF Xt!Restore, Xt!Tools, Xt!roms, Labelled
<1>8. CASE Xt!RemoveSaved
  BY <1>8 DEF Xt!RemoveSaved, Xt!NothingKept, Xt!roms, Xt!locks
<1> QED  BY <1>1, <1>2, <1>3, <1>4, <1>5, <1>6, <1>7, <1>8

LEMMA XtChoiceStep ==
    ASSUME DriveInv,
           Xt!ChooseDisk \/ (\E slot \in Sockets : Xt!ChooseRom(slot) \/ Xt!Forget(slot))
    PROVE  DriveInv'
<1> USE DEF DriveInv, Xt!DriveAgrees, Xt!Session, Xt!Ready, Xt!Idle, Xt!Fits
<1>1. CASE Xt!ChooseDisk
  <2>1. PICK disk \in Disks, writable, good \in BOOLEAN :
          reads' = {[kind |-> "disk", what |-> Xt!InDrive(disk, writable), good |-> good]}
    BY <1>1 DEF Xt!ChooseDisk
  <2>2. Labelled(Xt!InDrive(disk, writable))
    BY ScanAssumption DEF Labelled, Xt!InDrive
  <2>3. reads = {} /\ ~loading /\ readingDisk'
    BY <1>1 DEF Xt!ChooseDisk
  <2>4. PICK r : reads' = {r} /\ r.kind = "disk" /\ Labelled(r.what)
    BY <2>1, <2>2
  <2> QED  BY <1>1, <2>3, <2>4 DEF Xt!ChooseDisk, Xt!roms
<1>2. ASSUME NEW slot \in Sockets, Xt!ChooseRom(slot)
      PROVE  DriveInv'
  <2>1. PICK good \in BOOLEAN : reads' = {Xt!Read("rom", slot, good)}
    BY <1>2 DEF Xt!ChooseRom
  <2> DEFINE r == Xt!Read("rom", slot, good)
  <2>2. r.kind = "rom" /\ r.what = slot
    BY DEF Xt!Read
  <2>3. reads' = {r}
    BY <2>1
  <2> HIDE DEF r
  <2> QED  BY <1>2, <2>2, <2>3 DEF Xt!ChooseRom, Xt!roms, Labelled
<1>3. ASSUME NEW slot \in Sockets, Xt!Forget(slot)
      PROVE  DriveInv'
  BY <1>3 DEF Xt!Forget, Xt!locks
<1> QED  BY <1>1, <1>2, <1>3

LEMMA XtReadStep ==
    ASSUME DriveInv, NEW r \in reads, Xt!DiskRead(r) \/ Xt!RomRead(r) \/ Xt!BootRead(r)
    PROVE  DriveInv'
<1> USE DEF DriveInv, Xt!DriveAgrees, Xt!Session, Xt!Ready, Xt!Idle, Xt!Fits
<1>1. CASE Xt!DiskRead(r)
  <2>1. reads' = {} /\ ~loading /\ ~readingDisk' /\ Labelled(xtDrive')
    BY <1>1 DEF Xt!DiskRead
  <2> QED  BY <1>1, <2>1 DEF Xt!DiskRead, Xt!roms, Labelled
<1>2. CASE Xt!RomRead(r)
  <2>1. reads' = {} /\ ~loading' /\ ~readingDisk /\ ~xtRunning /\ r.what \in Sockets
    BY <1>2 DEF Xt!RomRead
  <2>2. xtRemembered' \subseteq xtStored' /\ loaded' \subseteq Sockets /\ ~xtRunning'
    BY <1>2, <2>1 DEF Xt!RomRead, Xt!Tools, Xt!roms
  <2> QED  BY <1>2, <2>1, <2>2 DEF Xt!RomRead, Labelled
<1>3. CASE Xt!BootRead(r)
  <2>1. reads' = reads \ {r} /\ ~xtRunning /\ ~readingDisk /\ loading /\ r.what \in Sockets
        /\ \A r1 \in reads' : r1.kind = "boot"
    BY <1>3 DEF Xt!BootRead
  <2>2. loading' <=> reads' # {}
    BY <1>3 DEF Xt!BootRead, Xt!LastRead
  <2>3. xtRemembered' \subseteq xtStored /\ loaded' \subseteq Sockets
    BY <1>3, <2>1 DEF Xt!BootRead
  <2>4. UNCHANGED <<xtDrive, xtStored, readingDisk, xtRunning, xtError, checkpoint, xtSaved>>
    BY <1>3 DEF Xt!BootRead
  <2> QED  BY <2>1, <2>2, <2>3, <2>4 DEF Labelled
<1> QED  BY <1>1, <1>2, <1>3

\* The reads of a mounted page.
LEMMA XtMount ==
    ASSUME NEW kept
    PROVE  /\ Xt!Mount(kept) # {}
           /\ \A r \in Xt!Mount(kept) : r.kind = "boot" /\ r.what \in Sockets /\ (r.good => r.what \in kept)
<1>1. \A slot \in Sockets : /\ Xt!Read("boot", slot, slot \in kept).kind = "boot"
                            /\ Xt!Read("boot", slot, slot \in kept).what = slot
                            /\ Xt!Read("boot", slot, slot \in kept).good => slot \in kept
  BY Zenon DEF Xt!Read
<1> QED  BY <1>1, ScanAssumption DEF Xt!Mount

LEMMA XtReloadStep ==
    ASSUME DriveInv, Xt!Reload
    PROVE  DriveInv'
<1>1. reads' = Xt!Mount(xtStored) /\ xtDrive' = Xt!Empty /\ loaded' = {} /\ xtRemembered' = {}
      /\ loading' /\ ~readingDisk' /\ ~xtRunning' /\ UNCHANGED <<xtStored, checkpoint>>
  BY DEF Xt!Reload
<1>2. (xtSaved <=> checkpoint.some)'
  BY Zenon DEF Xt!Reload
<1>3. Labelled(xtDrive)'
  BY <1>1 DEF Labelled, Xt!Empty
<1> QED  BY <1>1, <1>2, <1>3, XtMount
         DEF DriveInv, Xt!DriveAgrees, Xt!Session, Xt!Ready, Xt!Idle, Xt!Fits, Labelled

LEMMA XtStep ==
    ASSUME DriveInv, [Xt!Next]_(Xt!vars)
    PROVE  DriveInv'
<1>1. CASE UNCHANGED Xt!vars
  BY <1>1 DEF Xt!vars, Xt!roms, Xt!locks, DriveInv, Xt!DriveAgrees, Xt!Session, Xt!Ready, Xt!Idle, Xt!Fits, Labelled
<1> QED  BY <1>1, XtMachineStep, XtChoiceStep, XtReadStep, XtReloadStep DEF Xt!Next

LEMMA XtInitially == Xt!Init => DriveInv
<1> SUFFICES ASSUME Xt!Init PROVE DriveInv
  OBVIOUS
<1>1. reads = Xt!Mount({}) /\ xtDrive = Xt!Empty /\ loaded = {} /\ xtRemembered = {}
      /\ loading /\ ~readingDisk /\ ~xtRunning
  BY DEF Xt!Init
<1>2. xtSaved <=> checkpoint.some
  BY Zenon DEF Xt!Init
<1>3. Labelled(xtDrive)
  BY <1>1 DEF Labelled, Xt!Empty
<1>4. checkpoint.some => checkpoint.roms = Sockets /\ Labelled(checkpoint.drive)
  BY DEF Xt!Init, Xt!NothingKept, Xt!Kept, Xt!Empty, Labelled
<1> QED  BY <1>1, <1>2, <1>3, <1>4, XtMount
         DEF DriveInv, Xt!DriveAgrees, Xt!Session, Xt!Ready, Xt!Idle, Xt!Fits, Labelled

-----------------------------------------------------------------------------
(* What a guest believes of a queue of scan bytes                          *)

Codes == {CodeOf[key] : key \in Keys} \cup {ShiftCode} \cup Nat
ScanBytes == [code : Codes, down : BOOLEAN]

\* DownAfter, of a guest that saw these codes down and of any queue.
Seen(down, queue, n, code) ==
    \/ code \in down /\ \A i \in 1..n : queue[i].code # code
    \/ \E i \in 1..n : queue[i] = Xt!Make(code) /\ \A j \in (i + 1)..n : queue[j].code # code
\* Makes and breaks alternate, and lead from the codes in one set to those in the other.
Leads(down, queue, up) ==
    /\ \A code : Seen(down, queue, Len(queue), code) <=> code \in up
    /\ \A i \in 1..Len(queue) : queue[i].down <=> ~Seen(down, queue, i - 1, queue[i].code)

LEMMA SeenSame ==
    ASSUME NEW down, NEW q1, NEW q2, NEW n \in Nat, \A i \in 1..n : q1[i] = q2[i], NEW code
    PROVE  Seen(down, q1, n, code) <=> Seen(down, q2, n, code)
BY DEF Seen

LEMMA SeenFirst ==
    ASSUME NEW down, NEW queue, NEW code
    PROVE  Seen(down, queue, 0, code) <=> code \in down
BY DEF Seen

LEMMA SeenNext ==
    ASSUME NEW down, NEW queue, NEW n \in Nat, queue[n + 1] \in ScanBytes, NEW code
    PROVE  Seen(down, queue, n + 1, code)
              <=> IF queue[n + 1].code = code THEN queue[n + 1].down ELSE Seen(down, queue, n, code)
<1>1. \A i : i \in 1..(n + 1) <=> i \in 1..n \/ i = n + 1
  OBVIOUS
<1>2. CASE queue[n + 1].code = code
  <2>1. Seen(down, queue, n + 1, code) <=> queue[n + 1] = Xt!Make(code)
    <3>1. ASSUME NEW i \in 1..(n + 1), \A j \in (i + 1)..(n + 1) : queue[j].code # code
          PROVE  i = n + 1
      <4>1. n + 1 \notin (i + 1)..(n + 1)
        BY <1>2, <3>1
      <4> QED  BY <4>1
    <3>2. \A j \in ((n + 1) + 1)..(n + 1) : FALSE
      OBVIOUS
    <3> QED  BY <1>1, <1>2, <3>1, <3>2 DEF Seen
  <2>2. queue[n + 1] = Xt!Make(code) <=> queue[n + 1].down
    <3>1. queue[n + 1].down \in BOOLEAN /\ queue[n + 1] = [code |-> queue[n + 1].code, down |-> queue[n + 1].down]
      BY DEF ScanBytes
    <3>2. queue[n + 1] = Xt!Make(code) => queue[n + 1].down
      BY DEF Xt!Make
    <3> QED  BY <1>2, <3>1, <3>2 DEF Xt!Make
  <2> QED  BY <1>2, <2>1, <2>2
<1>3. CASE queue[n + 1].code # code
  <2>1. queue[n + 1] # Xt!Make(code)
    BY <1>3 DEF Xt!Make
  <2>2. \A i \in 1..n : \A j : j \in (i + 1)..(n + 1) <=> j \in (i + 1)..n \/ j = n + 1
    OBVIOUS
  <2> QED  BY <1>1, <1>3, <2>1, <2>2 DEF Seen
<1> QED  BY <1>2, <1>3

\* The second half of a queue is seen from what the first half led to.
LEMMA SeenBeyond ==
    ASSUME NEW down, NEW q1 \in Seq(ScanBytes), NEW q2 \in Seq(ScanBytes), NEW up,
           \A code : Seen(down, q1, Len(q1), code) <=> code \in up
    PROVE  \A n \in 0..Len(q2) : \A code :
              Seen(down, q1 \o q2, Len(q1) + n, code) <=> Seen(up, q2, n, code)
<1> DEFINE whole == q1 \o q2
           S == {n \in Nat : n <= Len(q2) => \A code : Seen(down, whole, Len(q1) + n, code) <=> Seen(up, q2, n, code)}
<1>1. /\ Len(q1) \in Nat /\ Len(q2) \in Nat
      /\ \A i \in 1..Len(q1) : whole[i] = q1[i]
      /\ \A n \in 1..Len(q2) : whole[Len(q1) + n] = q2[n] /\ q2[n] \in ScanBytes
  OBVIOUS
<1> HIDE DEF whole
<1>2. 0 \in S
  <2>1. \A code : Seen(down, whole, Len(q1), code) <=> Seen(down, q1, Len(q1), code)
    BY <1>1, SeenSame
  <2> QED  BY <1>1, <2>1, SeenFirst
<1>3. ASSUME NEW n \in S PROVE n + 1 \in S
  <2> SUFFICES ASSUME n + 1 <= Len(q2), NEW code
               PROVE  Seen(down, whole, Len(q1) + (n + 1), code) <=> Seen(up, q2, n + 1, code)
    OBVIOUS
  <2>1. n + 1 \in 1..Len(q2) /\ n <= Len(q2) /\ Len(q1) + n \in Nat /\ Len(q1) + (n + 1) = (Len(q1) + n) + 1
    BY <1>1
  <2>2. whole[(Len(q1) + n) + 1] = q2[n + 1] /\ q2[n + 1] \in ScanBytes
    BY <1>1, <2>1
  <2>3. Seen(down, whole, Len(q1) + n, code) <=> Seen(up, q2, n, code)
    BY <2>1
  <2> HIDE DEF S
  <2>4. Seen(down, whole, (Len(q1) + n) + 1, code)
           <=> IF q2[n + 1].code = code THEN q2[n + 1].down ELSE Seen(down, whole, Len(q1) + n, code)
    BY <2>1, <2>2, SeenNext
  <2>5. Seen(up, q2, n + 1, code)
           <=> IF q2[n + 1].code = code THEN q2[n + 1].down ELSE Seen(up, q2, n, code)
    BY <2>1, <2>2, SeenNext DEF S
  <2> QED  BY <2>1, <2>3, <2>4, <2>5
<1>4. S \in SUBSET Nat
  OBVIOUS
<1> HIDE DEF S
<1>5. S = Nat
  BY <1>2, <1>3, <1>4, Induct
<1> QED  BY <1>1, <1>5 DEF S, whole

LEMMA LeadsOn ==
    ASSUME NEW down, NEW q1 \in Seq(ScanBytes), NEW up, Leads(down, q1, up),
           NEW q2 \in Seq(ScanBytes), NEW last, Leads(up, q2, last)
    PROVE  q1 \o q2 \in Seq(ScanBytes) /\ Leads(down, q1 \o q2, last)
<1>1. q1 \o q2 \in Seq(ScanBytes) /\ Len(q1 \o q2) = Len(q1) + Len(q2) /\ Len(q1) \in Nat /\ Len(q2) \in Nat
  OBVIOUS
<1>2. \A n \in 0..Len(q2) : \A code : Seen(down, q1 \o q2, Len(q1) + n, code) <=> Seen(up, q2, n, code)
  BY SeenBeyond DEF Leads
<1>3. \A code : Seen(down, q1 \o q2, Len(q1 \o q2), code) <=> code \in last
  BY <1>1, <1>2 DEF Leads
<1>4. ASSUME NEW i \in 1..Len(q1 \o q2)
      PROVE  (q1 \o q2)[i].down <=> ~Seen(down, q1 \o q2, i - 1, (q1 \o q2)[i].code)
  <2>1. CASE i <= Len(q1)
    <3>1. (q1 \o q2)[i] = q1[i] /\ \A j \in 1..(i - 1) : (q1 \o q2)[j] = q1[j]
      BY <1>1, <2>1
    <3>2. i - 1 \in Nat /\ i \in 1..Len(q1)
      BY <1>1, <2>1
    <3>3. Seen(down, q1 \o q2, i - 1, q1[i].code) <=> Seen(down, q1, i - 1, q1[i].code)
      BY <3>1, <3>2, SeenSame
    <3> QED  BY <3>1, <3>2, <3>3 DEF Leads
  <2>2. CASE i > Len(q1)
    <3> DEFINE n == i - Len(q1)
    <3>1. n \in 1..Len(q2) /\ (q1 \o q2)[i] = q2[n] /\ n - 1 \in 0..Len(q2) /\ i - 1 = Len(q1) + (n - 1)
      BY <1>1, <2>2
    <3> HIDE DEF n
    <3>2. Seen(down, q1 \o q2, i - 1, q2[n].code) <=> Seen(up, q2, n - 1, q2[n].code)
      BY <1>2, <3>1
    <3> QED  BY <3>1, <3>2 DEF Leads
  <2> QED  BY <1>1, <2>1, <2>2
<1> QED  BY <1>1, <1>3, <1>4 DEF Leads

LEMMA LeadsNowhere ==
    ASSUME NEW down
    PROVE  Leads(down, <<>>, down)
BY SeenFirst DEF Leads

LEMMA LeadsOne ==
    ASSUME NEW down, NEW byte \in ScanBytes
    PROVE  /\ \A code : Seen(down, <<byte>>, 1, code) <=> code \in Xt!AfterByte(down, byte)
           /\ (byte.down <=> byte.code \notin down) => Leads(down, <<byte>>, Xt!AfterByte(down, byte))
<1>1. <<byte>>[0 + 1] = byte /\ Len(<<byte>>) = 1
  OBVIOUS
<1>2. ASSUME NEW code
      PROVE  Seen(down, <<byte>>, 1, code) <=> code \in Xt!AfterByte(down, byte)
  <2>1. Seen(down, <<byte>>, 0 + 1, code)
           <=> IF byte.code = code THEN byte.down ELSE Seen(down, <<byte>>, 0, code)
    BY <1>1, SeenNext
  <2>2. byte.down \in BOOLEAN
    BY DEF ScanBytes
  <2> QED  BY <2>1, <2>2, SeenFirst DEF Xt!AfterByte
<1> QED  BY <1>1, <1>2, SeenFirst DEF Leads

\* A byte that is sent, and a byte that arrives.
LEMMA LeadsAppend ==
    ASSUME NEW down, NEW queue \in Seq(ScanBytes), NEW up, Leads(down, queue, up),
           NEW byte \in ScanBytes, byte.down <=> byte.code \notin up
    PROVE  Append(queue, byte) \in Seq(ScanBytes) /\ Leads(down, Append(queue, byte), Xt!AfterByte(up, byte))
<1>1. <<byte>> \in Seq(ScanBytes) /\ Append(queue, byte) = queue \o <<byte>>
  OBVIOUS
<1>2. Leads(up, <<byte>>, Xt!AfterByte(up, byte))
  BY LeadsOne
<1>3. queue \o <<byte>> \in Seq(ScanBytes) /\ Leads(down, queue \o <<byte>>, Xt!AfterByte(up, byte))
  BY <1>1, <1>2, LeadsOn
<1> QED  BY <1>1, <1>3

LEMMA LeadsTail ==
    ASSUME NEW down, NEW queue \in Seq(ScanBytes), queue # <<>>, NEW up, Leads(down, queue, up)
    PROVE  Tail(queue) \in Seq(ScanBytes) /\ Leads(Xt!AfterByte(down, Head(queue)), Tail(queue), up)
<1> DEFINE byte == Head(queue)
           after == Tail(queue)
           mid == Xt!AfterByte(down, byte)
<1>1. /\ byte \in ScanBytes /\ after \in Seq(ScanBytes) /\ <<byte>> \in Seq(ScanBytes)
      /\ Len(<<byte>>) = 1 /\ Len(queue) = 1 + Len(after) /\ Len(after) \in Nat
      /\ \A i \in 1..Len(after) : after[i] = queue[1 + i]
  OBVIOUS
<1>2. queue = <<byte>> \o after
  OBVIOUS
<1> HIDE DEF byte, after, mid
<1>3. \A code : Seen(down, <<byte>>, Len(<<byte>>), code) <=> code \in mid
  BY <1>1, LeadsOne DEF mid
<1>4. \A n \in 0..Len(after) : \A code : Seen(down, queue, 1 + n, code) <=> Seen(mid, after, n, code)
  <2>1. \A n \in 0..Len(after) : \A code :
          Seen(down, <<byte>> \o after, Len(<<byte>>) + n, code) <=> Seen(mid, after, n, code)
    BY <1>1, <1>3, SeenBeyond
  <2> QED  BY <1>1, <1>2, <2>1
<1>5. \A code : Seen(mid, after, Len(after), code) <=> code \in up
  BY <1>1, <1>4 DEF Leads
<1>6. ASSUME NEW i \in 1..Len(after)
      PROVE  after[i].down <=> ~Seen(mid, after, i - 1, after[i].code)
  <2>1. 1 + i \in 1..Len(queue) /\ (1 + i) - 1 = 1 + (i - 1) /\ i - 1 \in 0..Len(after)
    BY <1>1
  <2>2. queue[1 + i].down <=> ~Seen(down, queue, 1 + (i - 1), queue[1 + i].code)
    BY <2>1 DEF Leads
  <2> QED  BY <1>1, <1>4, <2>1, <2>2
<1> QED  BY <1>1, <1>5, <1>6 DEF Leads, byte, after, mid

\* Breaks of the codes that are down, each once, and makes of codes that are up.
LEMMA LeadsBreaks ==
    ASSUME NEW queue \in Seq(ScanBytes), NEW down,
           \A i \in 1..Len(queue) : ~queue[i].down,
           \A i, j \in 1..Len(queue) : queue[i].code = queue[j].code => i = j,
           \A code : code \in down <=> \E i \in 1..Len(queue) : queue[i].code = code
    PROVE  Leads(down, queue, {})
<1>1. Len(queue) \in Nat
  OBVIOUS
<1>2. ASSUME NEW n \in 0..Len(queue), NEW code
      PROVE  Seen(down, queue, n, code) <=> code \in down /\ \A i \in 1..n : queue[i].code # code
  <2>1. \A i \in 1..n : i \in 1..Len(queue) /\ queue[i] # Xt!Make(code)
    BY <1>1, <1>2 DEF Xt!Make
  <2> QED  BY <2>1 DEF Seen
<1>3. \A code : ~Seen(down, queue, Len(queue), code)
  <2>1. Len(queue) \in 0..Len(queue)
    BY <1>1
  <2> QED  BY <1>2, <2>1
<1>4. ASSUME NEW i \in 1..Len(queue)
      PROVE  Seen(down, queue, i - 1, queue[i].code)
  <2>1. i - 1 \in 0..Len(queue) /\ \A j \in 1..(i - 1) : j \in 1..Len(queue) /\ j # i
    BY <1>1, <1>4
  <2> QED  BY <1>2, <2>1
<1> QED  BY <1>3, <1>4 DEF Leads

LEMMA LeadsMakes ==
    ASSUME NEW queue \in Seq(ScanBytes), NEW up,
           \A i \in 1..Len(queue) : queue[i].down,
           \A i, j \in 1..Len(queue) : queue[i].code = queue[j].code => i = j,
           \A code : code \in up <=> \E i \in 1..Len(queue) : queue[i].code = code
    PROVE  Leads({}, queue, up)
<1>1. Len(queue) \in Nat
  OBVIOUS
<1>2. ASSUME NEW n \in 0..Len(queue), NEW code
      PROVE  Seen({}, queue, n, code) <=> \E i \in 1..n : queue[i].code = code
  <2>1. ASSUME NEW i \in 1..n
        PROVE  /\ i \in 1..Len(queue) /\ (queue[i] = Xt!Make(code) <=> queue[i].code = code)
               /\ queue[i].code = code => \A j \in (i + 1)..n : queue[j].code # code
    <3>1. i \in 1..Len(queue) /\ queue[i] \in ScanBytes /\ queue[i].down
      BY <1>1, <1>2, <2>1
    <3>2. queue[i] = [code |-> queue[i].code, down |-> TRUE]
      BY <3>1 DEF ScanBytes
    <3>3. \A j \in (i + 1)..n : j \in 1..Len(queue) /\ j # i
      BY <1>1, <1>2, <2>1
    <3>4. queue[i] = Xt!Make(code) <=> queue[i].code = code
      <4>1. Xt!Make(code).code = code /\ Xt!Make(queue[i].code) = queue[i]
        BY <3>2 DEF Xt!Make
      <4> QED  BY <4>1
    <3>5. queue[i].code = code => \A j \in (i + 1)..n : queue[j].code # code
      BY <3>1, <3>3
    <3> QED  BY <3>1, <3>4, <3>5
  <2> QED  BY <2>1 DEF Seen
<1>3. \A code : Seen({}, queue, Len(queue), code) <=> code \in up
  <2>1. Len(queue) \in 0..Len(queue)
    BY <1>1
  <2> QED  BY <1>2, <2>1
<1>4. ASSUME NEW i \in 1..Len(queue)
      PROVE  ~Seen({}, queue, i - 1, queue[i].code)
  <2>1. i - 1 \in 0..Len(queue) /\ \A j \in 1..(i - 1) : j \in 1..Len(queue) /\ j # i
    BY <1>1, <1>4
  <2> QED  BY <1>2, <2>1
<1> QED  BY <1>3, <1>4 DEF Leads

\* The page's own name for it.
LEMMA SameCardinality == \A S : Xt!Cardinality(S) = Cardinality(S)
BY DEF Xt!Cardinality, Cardinality

\* A finite set in some order.
LEMMA Ordered ==
    ASSUME NEW S, IsFiniteSet(S)
    PROVE  LET queue == Xt!SetToSeq(S)
           IN  /\ queue \in Seq(S) /\ Len(queue) = Cardinality(S) /\ Cardinality(S) \in Nat
               /\ \A i, j \in 1..Len(queue) : queue[i] = queue[j] => i = j
               /\ \A x \in S : \E i \in 1..Len(queue) : queue[i] = x
<1> DEFINE n == Cardinality(S)
           queue == Xt!SetToSeq(S)
           OneToOne(f) == \A i, j \in 1..n : f[i] = f[j] => i = j
<1>1. n \in Nat /\ ExistsBijection(1..n, S)
  BY FS_CardinalityType
<1>2. PICK f : f \in Injection(1..n, S)
  BY <1>1 DEF ExistsBijection, Bijection
<1>3. f \in [1..n -> S] /\ OneToOne(f)
  BY <1>2 DEF Injection, IsInjective
<1>4. queue = CHOOSE g \in [1..n -> S] : Xt!IsInjective(g)
  BY SameCardinality DEF Xt!SetToSeq
<1>5. \A g \in [1..n -> S] : Xt!IsInjective(g) <=> OneToOne(g)
  BY DEF Xt!IsInjective
<1> HIDE DEF queue, OneToOne
<1>12. Xt!IsInjective(f)
  BY <1>3, <1>5
<1>13. queue \in [1..n -> S] /\ Xt!IsInjective(queue)
  BY <1>3, <1>4, <1>12
<1>6. queue \in [1..n -> S] /\ OneToOne(queue)
  BY <1>5, <1>13
<1>7. queue \in Injection(1..n, S)
  BY <1>6 DEF Injection, IsInjective, OneToOne
<1>8. IsFiniteSet(1..n) /\ Cardinality(1..n) = n
  <2>1. 1 \in Int /\ n \in Int
    BY <1>1
  <2>2. IsFiniteSet(1..n) /\ Cardinality(1..n) = IF 1 > n THEN 0 ELSE n - 1 + 1
    BY <2>1, FS_Interval
  <2> QED  BY <1>1, <2>2
<1>9. queue \in Surjection(1..n, S)
  BY <1>7, <1>8, FS_Injection
<1>10. \A x \in S : \E i \in 1..n : queue[i] = x
  BY <1>9 DEF Surjection
<1>11. queue \in Seq(S) /\ Len(queue) = n
  BY <1>1, <1>6
<1> QED  BY <1>1, <1>6, <1>10, <1>11 DEF OneToOne, queue

\* What a release adds to the queue.
LEMMA LeadsReleases ==
    ASSUME NEW pressed_ \in SUBSET Keys, IsFiniteSet(pressed_)
    PROVE  LET codes == {CodeOf[key] : key \in pressed_}
               queue == Xt!SetToSeq({Xt!Break(code) : code \in codes})
           IN  /\ queue \in Seq(ScanBytes) /\ Leads(codes, queue, {})
               /\ Len(queue) <= Cardinality(pressed_)
<1> DEFINE codes == {CodeOf[key] : key \in pressed_}
           S == {Xt!Break(code) : code \in codes}
           queue == Xt!SetToSeq(S)
           f == [key \in pressed_ |-> Xt!Break(CodeOf[key])]
<1>1. \A code : /\ Xt!Break(code).code = code /\ ~Xt!Break(code).down
                /\ code \in Codes => Xt!Break(code) \in ScanBytes
  BY DEF Xt!Break, ScanBytes
<1>2. \A x : x \in S <=> \E code \in codes : x = Xt!Break(code)
  OBVIOUS
<1>3. codes \subseteq Codes
  BY DEF Codes
<1>4. IsFiniteSet(S) /\ Cardinality(S) <= Cardinality(pressed_)
  <2>1. f \in Surjection(pressed_, S)
    BY DEF Surjection
  <2> QED  BY <2>1, FS_Surjection
<1> HIDE DEF S, queue, codes, f
<1>5. /\ queue \in Seq(S) /\ Len(queue) = Cardinality(S) /\ Cardinality(S) \in Nat
      /\ \A i, j \in 1..Len(queue) : queue[i] = queue[j] => i = j
      /\ \A x \in S : \E i \in 1..Len(queue) : queue[i] = x
  BY <1>4, Ordered DEF queue
<1>6. \A i \in 1..Len(queue) : queue[i] \in S /\ \E code \in codes : queue[i] = Xt!Break(code)
  BY <1>2, <1>5
<1>7. S \subseteq ScanBytes
  BY <1>1, <1>2, <1>3
<1>8. queue \in Seq(ScanBytes)
  BY <1>5, <1>7
<1>9. /\ \A i \in 1..Len(queue) : ~queue[i].down
      /\ \A i, j \in 1..Len(queue) : queue[i].code = queue[j].code => i = j
  BY <1>1, <1>5, <1>6
<1>10. \A code : code \in codes <=> \E i \in 1..Len(queue) : queue[i].code = code
  <2>1. ASSUME NEW code \in codes PROVE \E i \in 1..Len(queue) : queue[i].code = code
    <3>1. Xt!Break(code) \in S /\ Xt!Break(code).code = code
      BY <1>1, <1>2
    <3> QED  BY <1>5, <3>1
  <2>2. ASSUME NEW i \in 1..Len(queue) PROVE queue[i].code \in codes
    <3>1. PICK code \in codes : queue[i] = Xt!Break(code)
      BY <1>6
    <3> QED  BY <1>1, <3>1
  <2> QED  BY <2>1, <2>2
<1>11. Leads(codes, queue, {})
  BY <1>8, <1>9, <1>10, LeadsBreaks
<1> QED  BY <1>4, <1>5, <1>8, <1>11 DEF queue, S, codes

\* A chord presses its codes and lifts them in the opposite order.
LEMMA LeadsChord ==
    ASSUME NEW chord \in XtChords
    PROVE  /\ Xt!Pressed(chord) \o Xt!Lifted(chord) \in Seq(ScanBytes)
           /\ Len(Xt!Pressed(chord) \o Xt!Lifted(chord)) = 2 * Len(chord) /\ Len(chord) \in Nat
           /\ Leads({}, Xt!Pressed(chord) \o Xt!Lifted(chord), {})
           /\ Xt!Pressed(chord) \in Seq(ScanBytes) /\ Xt!Lifted(chord) \in Seq(ScanBytes)
<1> DEFINE n == Len(chord)
           makes == Xt!Pressed(chord)
           breaks == Xt!Lifted(chord)
           codes == {CodeOf[chord[i]] : i \in 1..n}
<1>1. chord \in Seq(Keys) /\ \A i, j \in 1..n : CodeOf[chord[i]] = CodeOf[chord[j]] => i = j
  BY ScanAssumption
<1>2. n \in Nat /\ \A i \in 1..n : chord[i] \in Keys
  BY <1>1
<1>3. \A i \in 1..n : CodeOf[chord[i]] \in Codes
  BY <1>2 DEF Codes
<1>4. \A code \in Codes : Xt!Make(code) \in ScanBytes /\ Xt!Break(code) \in ScanBytes
  BY DEF Xt!Make, Xt!Break, ScanBytes
<1>5. \A code : /\ Xt!Make(code).code = code /\ Xt!Make(code).down
                /\ Xt!Break(code).code = code /\ ~Xt!Break(code).down
  BY DEF Xt!Make, Xt!Break
<1>6. /\ makes = [i \in 1..n |-> Xt!Make(CodeOf[chord[i]])]
      /\ breaks = [i \in 1..n |-> Xt!Break(CodeOf[chord[n + 1 - i]])]
  BY DEF Xt!Pressed, Xt!Lifted
<1>7. \A i \in 1..n : n + 1 - i \in 1..n /\ n + 1 - (n + 1 - i) = i
  BY <1>2
<1>14. \A i, j \in 1..n : CodeOf[chord[i]] = CodeOf[chord[j]] => i = j
  BY <1>1
<1> HIDE DEF makes, breaks, n
<1>8. makes \in Seq(ScanBytes) /\ Len(makes) = n
  BY <1>2, <1>3, <1>4, <1>6
<1>9. breaks \in Seq(ScanBytes) /\ Len(breaks) = n
  <2>1. breaks \in [1..n -> ScanBytes]
    BY <1>3, <1>4, <1>6, <1>7
  <2> QED  BY <1>2, <2>1
<1>10. Leads({}, makes, codes)
  <2>1. /\ \A i \in 1..n : makes[i].down /\ makes[i].code = CodeOf[chord[i]]
        /\ \A code : code \in codes <=> \E i \in 1..n : CodeOf[chord[i]] = code
    BY <1>5, <1>6
  <2> QED  BY <1>1, <1>8, <2>1, LeadsMakes DEF n
<1>11. Leads(codes, breaks, {})
  <2>1. \A i \in 1..n : ~breaks[i].down /\ breaks[i].code = CodeOf[chord[n + 1 - i]]
    BY <1>5, <1>6
  <2>2. \A i, j \in 1..n : breaks[i].code = breaks[j].code => i = j
    <3> SUFFICES ASSUME NEW i \in 1..n, NEW j \in 1..n, breaks[i].code = breaks[j].code
                 PROVE  i = j
      OBVIOUS
    <3>2. CodeOf[chord[n + 1 - i]] = CodeOf[chord[n + 1 - j]] /\ n + 1 - i \in 1..n /\ n + 1 - j \in 1..n
      BY <1>7, <2>1
    <3>1. n + 1 - i = n + 1 - j
      BY <1>14, <3>2
    <3> QED  BY <1>2, <3>1
  <2>3. \A code : code \in codes <=> \E i \in 1..n : breaks[i].code = code
    BY <1>7, <2>1
  <2> HIDE DEF codes
  <2> QED  BY <1>9, <2>1, <2>2, <2>3, LeadsBreaks
<1> HIDE DEF codes
<1>12. makes \o breaks \in Seq(ScanBytes) /\ Leads({}, makes \o breaks, {})
  BY <1>8, <1>9, <1>10, <1>11, LeadsOn
<1>13. Len(makes \o breaks) = 2 * n
  BY <1>2, <1>8, <1>9
<1> QED  BY <1>2, <1>8, <1>9, <1>12, <1>13 DEF makes, breaks, n

\* A make of a code that is up, and a break of one that is down.
LEMMA LeadsMake ==
    ASSUME NEW down, NEW queue \in Seq(ScanBytes), NEW up, Leads(down, queue, up), NEW code \in Codes,
           code \notin up
    PROVE  /\ Append(queue, Xt!Make(code)) \in Seq(ScanBytes)
           /\ Len(Append(queue, Xt!Make(code))) = Len(queue) + 1
           /\ Leads(down, Append(queue, Xt!Make(code)), up \cup {code})
<1>1. Xt!Make(code) \in ScanBytes /\ Xt!Make(code).down /\ Xt!Make(code).code = code
  BY DEF Xt!Make, ScanBytes
<1>2. Xt!AfterByte(up, Xt!Make(code)) = up \cup {code}
  BY <1>1 DEF Xt!AfterByte
<1>3. Len(Append(queue, Xt!Make(code))) = Len(queue) + 1
  BY <1>1
<1>4. Append(queue, Xt!Make(code)) \in Seq(ScanBytes)
      /\ Leads(down, Append(queue, Xt!Make(code)), Xt!AfterByte(up, Xt!Make(code)))
  BY <1>1, LeadsAppend
<1> QED  BY <1>2, <1>3, <1>4

LEMMA LeadsBreak ==
    ASSUME NEW down, NEW queue \in Seq(ScanBytes), NEW up, Leads(down, queue, up), NEW code \in Codes,
           code \in up
    PROVE  /\ Append(queue, Xt!Break(code)) \in Seq(ScanBytes)
           /\ Len(Append(queue, Xt!Break(code))) = Len(queue) + 1
           /\ Leads(down, Append(queue, Xt!Break(code)), up \ {code})
<1>1. Xt!Break(code) \in ScanBytes /\ ~Xt!Break(code).down /\ Xt!Break(code).code = code
  BY DEF Xt!Break, ScanBytes
<1>2. Xt!AfterByte(up, Xt!Break(code)) = up \ {code}
  BY <1>1 DEF Xt!AfterByte
<1>3. Len(Append(queue, Xt!Break(code))) = Len(queue) + 1
  BY <1>1
<1>4. Append(queue, Xt!Break(code)) \in Seq(ScanBytes)
      /\ Leads(down, Append(queue, Xt!Break(code)), Xt!AfterByte(up, Xt!Break(code)))
  BY <1>1, LeadsAppend
<1> QED  BY <1>2, <1>3, <1>4

-----------------------------------------------------------------------------
(* The XT's keyboard                                                       *)

KeysInv ==
    /\ bytes \in Seq(ScanBytes) /\ held \in SUBSET Keys /\ IsFiniteSet(held)
    /\ paste \in Seq(Characters) /\ delay \in 0..Xt!LineInterval
    /\ Leads(guest, bytes, Xt!CodesOf(held))
    /\ Len(bytes) + Cardinality(held) <= QueueCapacity /\ Len(paste) <= PasteLimit

LEMMA KeyNumbers ==
    /\ QueueCapacity \in Nat /\ QueueCapacity >= 4 /\ PasteLimit \in Nat
    /\ KeysInv => Len(bytes) \in Nat /\ Cardinality(held) \in Nat /\ Len(paste) \in Nat /\ delay \in Nat
BY ScanAssumption, FS_CardinalityType DEF KeysInv, Xt!LineInterval

LEMMA KeyDown ==
    ASSUME KeysInv, NEW key \in Keys, Xt!Down(key)
    PROVE  KeysInv'
<1> DEFINE code == CodeOf[key]
           codes == Xt!CodesOf(held)
<1>1. /\ key \notin held /\ Len(bytes) + Cardinality(held) + 2 <= QueueCapacity
      /\ bytes' = IF code \in codes THEN bytes ELSE Append(bytes, Xt!Make(code))
      /\ held' = held \cup {key} /\ UNCHANGED <<paste, delay, guest>>
  BY SameCardinality DEF Xt!Down, Xt!HasRoom, Xt!HeldCode
<1>2. IsFiniteSet(held') /\ Cardinality(held') = Cardinality(held) + 1
  BY <1>1, FS_AddElement DEF KeysInv
<1>3. Xt!CodesOf(held') = codes \cup {code}
  BY <1>1 DEF Xt!CodesOf
<1>4. code \in Codes
  BY DEF Codes
<1>5. /\ bytes' \in Seq(ScanBytes) /\ Leads(guest, bytes', Xt!CodesOf(held')) /\ Len(bytes') <= Len(bytes) + 1
      /\ Len(bytes') \in Nat
  <2>1. CASE code \in codes
    <3>1. Xt!CodesOf(held') = codes
      BY <1>3, <2>1
    <3> QED  BY <1>1, <2>1, <3>1, KeyNumbers DEF KeysInv
  <2>2. CASE code \notin codes
    <3>1. bytes' = Append(bytes, Xt!Make(code))
      BY <1>1, <2>2
    <3> QED  BY <1>3, <1>4, <2>2, <3>1, LeadsMake, KeyNumbers DEF KeysInv
  <2> QED  BY <2>1, <2>2
<1>6. Len(bytes') + Cardinality(held') <= QueueCapacity
  BY <1>1, <1>2, <1>5, KeyNumbers
<1> HIDE DEF code, codes
<1> QED  BY <1>1, <1>2, <1>5, <1>6 DEF KeysInv

LEMMA KeyUp ==
    ASSUME KeysInv, NEW key \in Keys, Xt!Up(key)
    PROVE  KeysInv'
<1> DEFINE code == CodeOf[key]
           codes == Xt!CodesOf(held)
           left == Xt!CodesOf(held')
<1>1. /\ key \in held /\ held' = held \ {key} /\ UNCHANGED <<paste, delay, guest>>
      /\ bytes' = IF code \in left THEN bytes ELSE Append(bytes, Xt!Break(code))
  BY DEF Xt!Up, Xt!HeldCode
<1>2. IsFiniteSet(held') /\ Cardinality(held') = Cardinality(held) - 1
  BY <1>1, FS_RemoveElement DEF KeysInv
<1>3. left \ {code} = codes \ {code} /\ code \in codes
  BY <1>1 DEF Xt!CodesOf
<1>4. code \in Codes
  BY DEF Codes
<1>5. /\ bytes' \in Seq(ScanBytes) /\ Leads(guest, bytes', left) /\ Len(bytes') <= Len(bytes) + 1
      /\ Len(bytes') \in Nat
  <2>1. CASE code \in left
    <3>1. left = codes
      BY <1>3, <2>1
    <3> QED  BY <1>1, <2>1, <3>1, KeyNumbers DEF KeysInv
  <2>2. CASE code \notin left
    <3>1. bytes' = Append(bytes, Xt!Break(code)) /\ left = codes \ {code}
      BY <1>1, <1>3, <2>2
    <3> QED  BY <1>3, <1>4, <3>1, LeadsBreak, KeyNumbers DEF KeysInv
  <2> QED  BY <2>1, <2>2
<1>6. Len(bytes') + Cardinality(held') <= QueueCapacity
  BY <1>2, <1>5, KeyNumbers DEF KeysInv
<1> HIDE DEF code, codes
<1> QED  BY <1>1, <1>2, <1>5, <1>6 DEF KeysInv

\* Lifting every key leaves none down, and takes no more room than was kept for it.
LEMMA KeysLifted ==
    ASSUME KeysInv
    PROVE  /\ Xt!Released \in Seq(ScanBytes) /\ Leads(guest, Xt!Released, {})
           /\ Len(Xt!Released) \in Nat /\ Len(Xt!Released) <= Len(bytes) + Cardinality(held)
<1> DEFINE codes == {CodeOf[key] : key \in held}
           breaks == Xt!SetToSeq({Xt!Break(code) : code \in codes})
<1>1. breaks \in Seq(ScanBytes) /\ Leads(codes, breaks, {}) /\ Len(breaks) <= Cardinality(held)
  BY LeadsReleases DEF KeysInv
<1>2. Xt!CodesOf(held) = codes /\ Xt!Released = bytes \o breaks
  BY DEF Xt!Released, Xt!CodesOf
<1> HIDE DEF codes, breaks
<1>3. bytes \o breaks \in Seq(ScanBytes) /\ Leads(guest, bytes \o breaks, {})
  BY <1>1, <1>2, LeadsOn DEF KeysInv
<1>4. Len(bytes \o breaks) = Len(bytes) + Len(breaks) /\ Len(bytes) \in Nat /\ Len(breaks) \in Nat
  BY <1>1 DEF KeysInv
<1> QED  BY <1>1, <1>2, <1>3, <1>4, KeyNumbers

LEMMA NoneHeld ==
    /\ {} \in SUBSET Keys /\ IsFiniteSet({}) /\ Cardinality({}) = 0 /\ Xt!CodesOf({}) = {}
    /\ 0 \in 0..Xt!LineInterval
BY FS_EmptySet DEF Xt!CodesOf, Xt!LineInterval

LEMMA KeysReleased ==
    ASSUME KeysInv, Xt!ReleaseHeld \/ \E character \in Characters : Xt!Paste(<<character>>)
    PROVE  KeysInv'
<1>1. bytes' = Xt!Released /\ held' = {} /\ UNCHANGED <<delay, guest>>
  BY DEF Xt!ReleaseHeld, Xt!Paste
<1>2. paste' \in Seq(Characters) /\ Len(paste') <= PasteLimit
  <2>1. CASE Xt!ReleaseHeld
    BY <2>1 DEF Xt!ReleaseHeld, KeysInv
  <2>2. ASSUME NEW character \in Characters, Xt!Paste(<<character>>)
        PROVE  paste' \in Seq(Characters) /\ Len(paste') <= PasteLimit
    BY <2>2 DEF Xt!Paste, KeysInv
  <2> QED  BY <2>1, <2>2
<1>3. Len(bytes') + Cardinality(held') <= QueueCapacity
  BY <1>1, KeysLifted, NoneHeld, KeyNumbers DEF KeysInv
<1> QED  BY <1>1, <1>2, <1>3, KeysLifted, NoneHeld DEF KeysInv

LEMMA KeysChord ==
    ASSUME KeysInv, NEW chord \in XtChords, Xt!Chord(chord)
    PROVE  KeysInv'
<1> DEFINE typed == Xt!Pressed(chord) \o Xt!Lifted(chord)
<1>1. /\ Len(bytes) + Cardinality(held) + 2 * Len(chord) <= QueueCapacity
      /\ bytes' = (Xt!Released \o Xt!Pressed(chord)) \o Xt!Lifted(chord)
      /\ held' = {} /\ paste' = <<>> /\ delay' = 0 /\ guest' = guest
  BY SameCardinality DEF Xt!Chord
<1>2. typed \in Seq(ScanBytes) /\ Len(typed) = 2 * Len(chord) /\ Len(chord) \in Nat /\ Leads({}, typed, {})
  BY LeadsChord
<1>3. Xt!Pressed(chord) \in Seq(ScanBytes) /\ Xt!Lifted(chord) \in Seq(ScanBytes)
  BY LeadsChord
<1>4. bytes' = Xt!Released \o typed
  BY <1>1, <1>3, KeysLifted
<1> HIDE DEF typed
<1>5. bytes' \in Seq(ScanBytes) /\ Leads(guest, bytes', {})
  <2>1. Xt!Released \o typed \in Seq(ScanBytes) /\ Leads(guest, Xt!Released \o typed, {})
    BY <1>2, KeysLifted, LeadsOn
  <2> QED  BY <1>4, <2>1
<1>6. Len(bytes') = Len(Xt!Released) + Len(typed)
  <2>1. \A q1, q2 \in Seq(ScanBytes) : Len(q1 \o q2) = Len(q1) + Len(q2)
    OBVIOUS
  <2> QED  BY <1>2, <1>4, <2>1, KeysLifted
<1>7. Len(bytes') + Cardinality(held') <= QueueCapacity
  BY <1>1, <1>2, <1>6, KeysLifted, NoneHeld, KeyNumbers
<1>8. Len(<<>>) <= PasteLimit /\ <<>> \in Seq(Characters)
  BY KeyNumbers
<1> QED  BY <1>1, <1>5, <1>7, <1>8, NoneHeld DEF KeysInv

\* A typed character presses nothing that it does not lift.
LEMMA KeysTyped ==
    ASSUME NEW character \in Characters, NEW shifted \in BOOLEAN
    PROVE  /\ Xt!Typed(character, shifted) \in Seq(ScanBytes) /\ Len(Xt!Typed(character, shifted)) <= 4
           /\ Leads({}, Xt!Typed(character, shifted), {})
<1> DEFINE code == character.code
           plain == Append(Append(<<>>, Xt!Make(code)), Xt!Break(code))
           shift == Append(Append(Append(Append(<<>>, Xt!Make(ShiftCode)), Xt!Make(code)), Xt!Break(code)),
                           Xt!Break(ShiftCode))
<1>1. code \in Codes /\ ShiftCode \in Codes /\ code # ShiftCode
  BY ScanAssumption DEF Codes
<1>2. Xt!Typed(character, shifted) = IF shifted THEN shift ELSE plain
  <2>1. \A b1, b2, b3, b4 :
          (<<b1>> \o <<b2, b3>>) \o <<b4>> = Append(Append(Append(Append(<<>>, b1), b2), b3), b4)
    OBVIOUS
  <2>2. \A b1, b2 : <<b1, b2>> = Append(Append(<<>>, b1), b2)
    OBVIOUS
  <2>3. Xt!Typed(character, shifted) =
          IF shifted
          THEN (<<Xt!Make(ShiftCode)>> \o <<Xt!Make(code), Xt!Break(code)>>) \o <<Xt!Break(ShiftCode)>>
          ELSE <<Xt!Make(code), Xt!Break(code)>>
    BY DEF Xt!Typed
  <2>4. (<<Xt!Make(ShiftCode)>> \o <<Xt!Make(code), Xt!Break(code)>>) \o <<Xt!Break(ShiftCode)>> = shift
    BY <2>1
  <2>5. <<Xt!Make(code), Xt!Break(code)>> = plain
    BY <2>2
  <2> HIDE DEF shift, plain
  <2> QED  BY <2>3, <2>4, <2>5
<1> HIDE DEF code
<1>3. <<>> \in Seq(ScanBytes) /\ Leads({}, <<>>, {}) /\ Len(<<>>) = 0
  BY LeadsNowhere
<1>4. plain \in Seq(ScanBytes) /\ Leads({}, plain, {}) /\ Len(plain) = 2
  <2> DEFINE q1 == Append(<<>>, Xt!Make(code))
  <2>1. q1 \in Seq(ScanBytes) /\ Leads({}, q1, {} \cup {code}) /\ Len(q1) = 1
    <3>1. code \notin {}
      OBVIOUS
    <3>2. q1 \in Seq(ScanBytes) /\ Leads({}, q1, {} \cup {code}) /\ Len(q1) = Len(<<>>) + 1
      BY <1>1, <1>3, <3>1, LeadsMake
    <3> QED  BY <1>3, <3>2
  <2> HIDE DEF q1
  <2>2. {} \cup {code} = {code} /\ {code} \ {code} = {}
    OBVIOUS
  <2>3. Append(q1, Xt!Break(code)) \in Seq(ScanBytes) /\ Len(Append(q1, Xt!Break(code))) = Len(q1) + 1
        /\ Leads({}, Append(q1, Xt!Break(code)), {code} \ {code})
    BY <1>1, <2>1, <2>2, LeadsBreak
  <2> QED  BY <2>1, <2>2, <2>3 DEF q1
<1>5. shift \in Seq(ScanBytes) /\ Leads({}, shift, {}) /\ Len(shift) = 4
  <2> DEFINE q1 == Append(<<>>, Xt!Make(ShiftCode))
             q2 == Append(q1, Xt!Make(code))
             q3 == Append(q2, Xt!Break(code))
             q4 == Append(q3, Xt!Break(ShiftCode))
  <2>1. q1 \in Seq(ScanBytes) /\ Leads({}, q1, {} \cup {ShiftCode}) /\ Len(q1) = 1
    <3>1. ShiftCode \notin {}
      OBVIOUS
    <3>2. q1 \in Seq(ScanBytes) /\ Leads({}, q1, {} \cup {ShiftCode}) /\ Len(q1) = Len(<<>>) + 1
      BY <1>1, <1>3, <3>1, LeadsMake
    <3> QED  BY <1>3, <3>2
  <2>2. /\ {} \cup {ShiftCode} = {ShiftCode} /\ code \notin {ShiftCode} /\ {ShiftCode} \ {ShiftCode} = {}
        /\ ({ShiftCode} \cup {code}) \ {code} = {ShiftCode} /\ code \in {ShiftCode} \cup {code}
    BY <1>1
  <2> HIDE DEF q1
  <2>3. q2 \in Seq(ScanBytes) /\ Leads({}, q2, {ShiftCode} \cup {code}) /\ Len(q2) = Len(q1) + 1
    BY <1>1, <2>1, <2>2, LeadsMake
  <2> HIDE DEF q2
  <2>4. q3 \in Seq(ScanBytes) /\ Leads({}, q3, ({ShiftCode} \cup {code}) \ {code}) /\ Len(q3) = Len(q2) + 1
    BY <1>1, <2>2, <2>3, LeadsBreak
  <2> HIDE DEF q3
  <2>5. q4 \in Seq(ScanBytes) /\ Leads({}, q4, {ShiftCode} \ {ShiftCode}) /\ Len(q4) = Len(q3) + 1
    <3>1. Leads({}, q3, {ShiftCode})
      BY <2>2, <2>4
    <3>2. ShiftCode \in Codes /\ ShiftCode \in {ShiftCode} /\ q3 \in Seq(ScanBytes)
      BY <1>1, <2>4
    <3> QED  BY <3>1, <3>2, LeadsBreak
  <2>6. shift = q4
    BY DEF q1, q2, q3
  <2> HIDE DEF q4, shift
  <2>7. q4 \in Seq(ScanBytes) /\ Leads({}, q4, {}) /\ Len(q4) = 4
    <3>1. Len(q4) = 4
      BY <2>1, <2>3, <2>4, <2>5
    <3>2. Leads({}, q4, {})
      BY <2>2, <2>5
    <3> QED  BY <2>5, <3>1, <3>2
  <2> QED  BY <2>6, <2>7
<1> QED  BY <1>2, <1>4, <1>5

LEMMA NothingTyped ==
    /\ <<>> \in Seq(ScanBytes) /\ Leads({}, <<>>, Xt!CodesOf({})) /\ <<>> \in Seq(Characters)
    /\ Len(<<>>) + Cardinality({}) <= QueueCapacity /\ Len(<<>>) <= PasteLimit
    /\ {} \in SUBSET Keys /\ IsFiniteSet({}) /\ 0 \in 0..Xt!LineInterval
<1>1. <<>> \in Seq(ScanBytes) /\ <<>> \in Seq(Characters) /\ Len(<<>>) = 0
  OBVIOUS
<1>2. Leads({}, <<>>, Xt!CodesOf({}))
  BY NoneHeld, LeadsNowhere
<1>3. Len(<<>>) + Cardinality({}) <= QueueCapacity /\ Len(<<>>) <= PasteLimit
  BY <1>1, NoneHeld, KeyNumbers
<1> QED  BY <1>1, <1>2, <1>3, NoneHeld

LEMMA KeysFresh ==
    ASSUME bytes' = <<>>, held' = {}, paste' = <<>>, delay' = 0, guest' = {}
    PROVE  KeysInv'
BY NothingTyped DEF KeysInv, Xt!CodesOf

\* A step of the machine: a typed character joins an empty queue, and a byte may be taken.
LEMMA KeysStep ==
    ASSUME KeysInv, Xt!Step
    PROVE  KeysInv'
<1>1. PICK capsLock \in BOOLEAN, taken \in BOOLEAN, selfTesting \in BOOLEAN, ticks \in 0..Xt!LineInterval :
        LET queue == IF Xt!Starts THEN Xt!Typed(Head(paste), Xt!Shifted(Head(paste), capsLock)) ELSE bytes
            wait == IF ~Xt!Starts THEN delay ELSE IF Head(paste).line THEN Xt!LineInterval ELSE Xt!CharacterInterval
            text == IF Xt!Starts THEN Tail(paste) ELSE paste
            offered == taken /\ queue # <<>>
        IN  IF selfTesting
            THEN bytes' = <<>> /\ held' = {} /\ paste' = <<>> /\ delay' = 0 /\ guest' = {}
            ELSE /\ bytes' = IF offered THEN Tail(queue) ELSE queue
                 /\ guest' = IF offered THEN Xt!AfterByte(guest, Head(queue)) ELSE guest
                 /\ paste' = text /\ delay' = IF wait > ticks THEN wait - ticks ELSE 0
                 /\ UNCHANGED held
  BY DEF Xt!Step
<1>2. CASE selfTesting
  BY <1>1, <1>2, KeysFresh
<1>3. CASE ~selfTesting
  <2> DEFINE queue == IF Xt!Starts THEN Xt!Typed(Head(paste), Xt!Shifted(Head(paste), capsLock)) ELSE bytes
             wait == IF ~Xt!Starts THEN delay ELSE IF Head(paste).line THEN Xt!LineInterval ELSE Xt!CharacterInterval
             text == IF Xt!Starts THEN Tail(paste) ELSE paste
             offered == taken /\ queue # <<>>
  <2>1. /\ bytes' = IF offered THEN Tail(queue) ELSE queue
        /\ guest' = IF offered THEN Xt!AfterByte(guest, Head(queue)) ELSE guest
        /\ paste' = text /\ delay' = IF wait > ticks THEN wait - ticks ELSE 0
        /\ held' = held
    BY <1>1, <1>3
  <2>2. queue \in Seq(ScanBytes) /\ Leads(guest, queue, Xt!CodesOf(held))
        /\ Len(queue) + Cardinality(held) <= QueueCapacity /\ Len(queue) \in Nat
    <3>1. CASE Xt!Starts
      <4>1. bytes = <<>> /\ paste # <<>> /\ held = {}
        BY <3>1 DEF Xt!Starts
      <4>2. Head(paste) \in Characters
        BY <4>1 DEF KeysInv
      <4>3. Xt!Shifted(Head(paste), capsLock) \in BOOLEAN
        BY <4>2, ScanAssumption DEF Xt!Shifted
      <4>4. queue = Xt!Typed(Head(paste), Xt!Shifted(Head(paste), capsLock))
        BY <3>1
      <4> HIDE DEF queue
      <4>5. queue \in Seq(ScanBytes) /\ Leads({}, queue, {}) /\ Len(queue) <= 4
        BY <4>2, <4>3, <4>4, KeysTyped
      <4>6. Leads(guest, <<>>, {})
        BY <4>1, NoneHeld DEF KeysInv
      <4>7. guest = {}
        BY <4>6, SeenFirst DEF Leads
      <4>8. Len(queue) \in Nat
        BY <4>5
      <4>9. Len(queue) + Cardinality(held) <= QueueCapacity
        BY <4>1, <4>5, <4>8, NoneHeld, KeyNumbers
      <4>10. Leads(guest, queue, Xt!CodesOf(held))
        BY <4>1, <4>5, <4>7, NoneHeld
      <4> QED  BY <4>5, <4>8, <4>9, <4>10
    <3>2. CASE ~Xt!Starts
      BY <3>2, KeyNumbers DEF KeysInv
    <3> QED  BY <3>1, <3>2
  <2>3. paste' \in Seq(Characters) /\ Len(paste') <= PasteLimit
    <3>1. Xt!Starts => paste # <<>>
      BY DEF Xt!Starts
    <3>2. paste # <<>> => Tail(paste) \in Seq(Characters) /\ Len(Tail(paste)) <= Len(paste)
      BY DEF KeysInv
    <3> QED  BY <2>1, <3>1, <3>2, KeyNumbers DEF KeysInv
  <2>4. delay' \in 0..Xt!LineInterval
    <3>1. wait \in 0..Xt!LineInterval
      BY DEF KeysInv, Xt!LineInterval, Xt!CharacterInterval
    <3> HIDE DEF wait
    <3> QED  BY <2>1, <3>1 DEF Xt!LineInterval
  <2> HIDE DEF queue, wait, text
  <2>5. bytes' \in Seq(ScanBytes) /\ Leads(guest', bytes', Xt!CodesOf(held)) /\ Len(bytes') <= Len(queue)
        /\ Len(bytes') \in Nat
    <3>1. CASE offered
      <4>1. Tail(queue) \in Seq(ScanBytes) /\ Leads(Xt!AfterByte(guest, Head(queue)), Tail(queue), Xt!CodesOf(held))
        BY <2>2, <3>1, LeadsTail
      <4>2. Len(Tail(queue)) <= Len(queue) /\ Len(Tail(queue)) \in Nat
        BY <2>2, <3>1
      <4> QED  BY <2>1, <3>1, <4>1, <4>2
    <3>2. CASE ~offered
      BY <2>1, <2>2, <3>2
    <3> QED  BY <3>1, <3>2
  <2>6. Xt!CodesOf(held)' = Xt!CodesOf(held) /\ Cardinality(held') = Cardinality(held)
    BY <2>1 DEF Xt!CodesOf
  <2>7. Len(bytes') + Cardinality(held') <= QueueCapacity
    BY <2>2, <2>5, <2>6, KeyNumbers
  <2> QED  BY <2>1, <2>3, <2>4, <2>5, <2>6, <2>7 DEF KeysInv
<1> QED  BY <1>2, <1>3

LEMMA XtKeysStep ==
    ASSUME KeysInv, [Xt!KeyboardNext]_(Xt!keyboard)
    PROVE  KeysInv'
<1>1. CASE Xt!FreshKeyboard
  BY <1>1, KeysFresh DEF Xt!FreshKeyboard
<1>2. CASE UNCHANGED Xt!keyboard
  BY <1>2 DEF Xt!keyboard, KeysInv, Xt!CodesOf
<1> QED  BY <1>1, <1>2, KeyDown, KeyUp, KeysReleased, KeysChord, KeysStep DEF Xt!KeyboardNext

LEMMA XtKeysInitially == Xt!KeyboardInit => KeysInv
<1> SUFFICES ASSUME Xt!KeyboardInit PROVE KeysInv
  OBVIOUS
<1>1. bytes = <<>> /\ held = {} /\ paste = <<>> /\ delay = 0 /\ guest = {}
  BY DEF Xt!KeyboardInit
<1> QED  BY <1>1, NothingTyped DEF KeysInv

LEMMA XtKeysHold == KeysInv => Xt!NoKeySticks
<1> SUFFICES ASSUME KeysInv PROVE Xt!NoKeySticks
  OBVIOUS
<1>1. Len(bytes) \in Nat /\ DOMAIN bytes = 1..Len(bytes) /\ \A i \in 1..Len(bytes) : bytes[i] \in ScanBytes
  BY DEF KeysInv
<1>2. ASSUME NEW n \in 0..Len(bytes), NEW code
      PROVE  code \in Xt!DownAfter(n) <=> Seen(guest, bytes, n, code)
  <2>1. \A i \in 1..n : bytes[i] = Xt!Make(code) => bytes[i].code = code
    BY DEF Xt!Make
  <2> QED  BY <2>1 DEF Xt!DownAfter, Seen
<1>3. Xt!DownAfter(Len(bytes)) = Xt!CodesOf(held)
  <2>1. Len(bytes) \in 0..Len(bytes)
    BY <1>1
  <2>2. \A code : code \in Xt!DownAfter(Len(bytes)) <=> code \in Xt!CodesOf(held)
    BY <1>2, <2>1 DEF KeysInv, Leads
  <2> QED  BY <2>2
<1>4. Xt!Alternates
  <2>1. \A i \in 1..Len(bytes) : i - 1 \in 0..Len(bytes)
    BY <1>1
  <2>2. \A i \in 1..Len(bytes) : bytes[i].down <=> bytes[i].code \notin Xt!DownAfter(i - 1)
    BY <1>2, <2>1 DEF KeysInv, Leads
  <2> QED  BY <1>1, <2>2 DEF Xt!Alternates
<1>5. Xt!Accepted
  BY SameCardinality DEF KeysInv, Xt!Accepted, Xt!LineInterval
<1> QED  BY <1>3, <1>4, <1>5 DEF Xt!NoKeySticks

-----------------------------------------------------------------------------
(* The pages together                                                      *)

\* A step of one part is a step or a stutter of each.
LEMMA PartSteps ==
    ASSUME [MCNext]_<<part, vars, rest>>
    PROVE  /\ [Next]_vars /\ [Coco!Next]_(Coco!vars) /\ [Xt!Next]_(Xt!vars)
           /\ [Coco!KeyboardNext]_(Coco!keyboard) /\ [Xt!KeyboardNext]_(Xt!keyboard)
<1>1. UNCHANGED cocoPage => UNCHANGED Coco!vars
  BY DEF cocoPage, Coco!vars, Coco!machine, Coco!execution, Coco!storage
<1>2. UNCHANGED cocoKeyboard => UNCHANGED Coco!keyboard
  BY DEF cocoKeyboard, Coco!keyboard, Coco!transport
<1>3. UNCHANGED xtPage => UNCHANGED Xt!vars
  BY DEF xtPage, Xt!vars, Xt!roms, Xt!locks
<1>4. UNCHANGED xtKeyboard => UNCHANGED Xt!keyboard
  BY DEF xtKeyboard, Xt!keyboard
<1>5. UNCHANGED rest => UNCHANGED <<cocoKeyboard, cocoPage, xtKeyboard, xtPage>>
  BY DEF rest
<1> QED  BY <1>1, <1>2, <1>3, <1>4, <1>5 DEF MCNext

PagesInv == PageInv /\ RomsInv /\ ChordInv /\ DriveInv /\ KeysInv

LEMMA PagesHold == MCSpec => []PagesInv
<1>1. MCInit => PagesInv
  BY PageInitially, CocoInitially, ChordInitially, XtInitially, XtKeysInitially DEF MCInit, PagesInv
<1>2. PagesInv /\ [MCNext]_<<part, vars, rest>> => PagesInv'
  BY PartSteps, PageStep, CocoStep, ChordStep, XtStep, XtKeysStep DEF PagesInv
<1> QED  BY <1>1, <1>2, PTL DEF MCSpec

LEMMA AppleBehaves == MCSpec => Spec
<1>1. MCInit => Init
  BY DEF MCInit
<1>2. [MCNext]_<<part, vars, rest>> => [Next]_vars
  BY PartSteps
<1> QED  BY <1>1, <1>2, PTL DEF MCSpec, Spec

\* What every page shows is what its machine has and what storage will bring back, the CoCo's
\* guest samples the chord that is being delivered for as long as it should be, and no key stays
\* down for the XT's guest, whatever verifications, files, focus losses, power cycles and
\* restored sessions come between.
THEOREM PagesAlwaysAgree == MCSpec => []PagesAgree
<1>1. PagesInv => ShownIsLoaded
  BY DEF PagesInv, PageInv, TypeInv, HeldInv, Sound, ShownIsLoaded, Entries
<1>2. PagesInv => PagesAgree
  BY <1>1, ChordHolds, XtKeysHold DEF PagesInv, RomsInv, DriveInv, PagesAgree
<1> QED  BY <1>2, PagesHold, PTL

\* The page names the disk in the drive, which it can boot, and the ROM in the machine; a saved
\* state's label and media belong together; the remembered ROM is the last one accepted.
THEOREM PageShowsItsMachine == Spec => []ShownIsLoaded
<1>1. PageInv => ShownIsLoaded
  BY DEF PageInv, TypeInv, HeldInv, Sound, ShownIsLoaded, Entries
<1> QED  BY <1>1, PageHolds, PTL

\* However verifications are superseded, hidden, refused or reordered, a locked control has
\* something under way that will release it.
THEOREM LocksAreReleased == MCSpec => []LocksAreHeld
<1>1. PageInv => LocksAreHeld
  BY DEF PageInv, SelectionInv, LocksAreHeld
<1> QED  BY <1>1, PageHolds, AppleBehaves, PTL

\* A result changes the machine only if nothing has been selected, hidden or changed since it
\* began; a selection keeps the machine still; a saved state is never replaced.
THEOREM OnlyTheLatestApplies == MCSpec => OnlyLatestApplies
<1> DEFINE Changes == session' # session /\ ~restoring' => \A c \in checks \ checks' : ~c.dirty
           Still == selecting /\ selecting' /\ restoring' = restoring
                       => session' = session /\ ~running'
           Keeps == \A n \in Names : saved[n] # None => saved'[n] \in {None, saved[n]}
<1>1. PageInv /\ Next => Changes
  <2> SUFFICES ASSUME PageInv, Next, session' # session, ~restoring',
                      NEW c \in checks, c \notin checks'
               PROVE  ~c.dirty
    OBVIOUS
  <2>1. CASE \E d \in checks : Finish(d)
    <3>1. PICK d \in checks : Finish(d)
      BY <2>1
    <3>2. d = c /\ Applies(d)
      BY <3>1 DEF Finish
    <3> QED  BY <3>2 DEF Applies, PageInv, SelectionInv
  <2>2. CASE StepMachine \/ Reset \/ PowerOn \/ EditMemory \/ Eject \/ Send
    <3>1. checks' = Touched(checks) /\ c \in Checks
      BY <2>2 DEF StepMachine, Reset, PowerOn, EditMemory, Eject, Send, Changed, PageInv, TypeInv
    <3>2. c.dirty => [c EXCEPT !.dirty = TRUE] = c
      BY <3>1 DEF Checks
    <3> QED  BY <3>1, <3>2 DEF Touched
  <2>3. CASE Reload
    BY <2>3 DEF Reload, Mounted
  <2> QED  BY <2>1, <2>2, <2>3 DEF Next, Run, Pause, ChooseRom, ChooseDisk, Choose, Suspend,
              Forget, SaveEncoded, Save, Remove, OtherTab, UseSaved
<1>2. PageInv /\ Next => Still
  <2> SUFFICES ASSUME PageInv, Next, selecting, selecting', restoring' = restoring
               PROVE  session' = session /\ ~running'
    OBVIOUS
  <2>1. ~running
    BY DEF PageInv, SelectionInv
  <2>2. CASE \E c \in checks : Finish(c)
    BY <2>1, <2>2 DEF Finish, Applies, SelectingAfter
  <2>3. CASE Reload
    BY <2>3 DEF Reload, Mounted, PageInv, SelectionInv
  <2>4. CASE Suspend
    <3>1. session' = session /\ running' = FALSE
      BY <2>4 DEF Suspend
    <3> QED  BY <3>1
  <2>5. CASE SaveEncoded \/ (\E name \in Names : Remove(name) \/ OtherTab(name))
    <3>1. UNCHANGED <<session, page>>
      BY <2>5 DEF SaveEncoded, Remove, OtherTab
    <3> QED  BY <2>1, <3>1 DEF page
  <2> QED  BY <2>1, <2>2, <2>3, <2>4, <2>5 DEF Next, Pause, Run, StepMachine, CanStep, Reset,
              PowerOn, EditMemory, Eject, Send, Available, Paused, ChooseRom, ChooseDisk, Choose,
              Forget, Save, UseSaved
<1>3. PageInv /\ Next => Keeps
  <2> SUFFICES ASSUME PageInv, Next, NEW n \in Names, saved[n] # None
               PROVE  saved'[n] \in {None, saved[n]}
    OBVIOUS
  <2>1. saved \in [Names -> Entries \cup {None}]
    BY DEF PageInv, TypeInv
  <2>2. CASE SaveEncoded \/ (\E name \in Names : Remove(name) \/ OtherTab(name))
    BY <2>1, <2>2 DEF SaveEncoded, NameFree, Remove, OtherTab
  <2>3. CASE ~(SaveEncoded \/ (\E name \in Names : Remove(name) \/ OtherTab(name)))
    <3>1. saved' = saved
      BY <2>3 DEF Next, Run, Pause, StepMachine, Reset, PowerOn, EditMemory, Eject, Send, Changed,
         ChooseRom, ChooseDisk, Choose, Finish, Remember, Suspend, Forget, Save, UseSaved, Reload,
         store
    <3> QED  BY <3>1
  <2> QED  BY <2>2, <2>3
<1>4. PageInv /\ [Next]_vars => [Changes /\ Still /\ Keeps]_vars
  BY <1>1, <1>2, <1>3
<1> QED  BY <1>4, PageHolds, AppleBehaves, PTL DEF Spec, OnlyLatestApplies
=============================================================================
