------------------------------ MODULE MCPages ------------------------------
(* The laboratory pages for TLC: a behaviour drives one of the Apple II page,   *)
(* the CoCo's keyboard or page, and the XT's keyboard or page.                  *)
EXTENDS Apple2Page, Sequences, TLC

CONSTANTS KeyLimit, Rows, Columns, KeySteps, KeyQueue, CocoChords, Drivers,      \* CocoPage
          Sockets, Keys, CodeOf, Characters, ShiftCode, XtChords, QueueCapacity, PasteLimit  \* XtPage

VARIABLES part                                               \* which of the five
VARIABLES switches, drive, pins, input, pressed, remaining, snapshot, since
cocoKeyboard == <<switches, drive, pins, input, pressed, remaining, snapshot, since>>

VARIABLES roms, sockets, fitted, keys, cocoRunning, cocoError, cocoSelecting, cocoChecks, stored,
          cocoSaved, hasSaved, removed
Coco == INSTANCE CocoPage WITH QueueLimit <- KeyQueue, Chords <- CocoChords,
    running <- cocoRunning, error <- cocoError,
    selecting <- cocoSelecting, checks <- cocoChecks, saved <- cocoSaved
cocoPage == <<roms, sockets, fitted, keys, cocoRunning, cocoError, cocoSelecting, cocoChecks, stored,
              cocoSaved, hasSaved, removed>>

\* Chords are sets of keys of the matrix, and the guest drives its lines.
ASSUME MatrixAssumption ==
    /\ Rows \in Nat /\ Columns \in Nat /\ KeySteps \in Nat /\ KeyQueue \in Nat
    /\ CocoChords \subseteq (SUBSET (Coco!RowSet \X Coco!ColumnSet)) \ {{}}
    /\ Drivers \subseteq [a : SUBSET Coco!RowSet, b : SUBSET Coco!ColumnSet]

VARIABLES bytes, held, paste, delay, guest
xtKeyboard == <<bytes, held, paste, delay, guest>>

VARIABLES xtDrive, loaded, xtRemembered, xtStored, loading, readingDisk, xtRunning, xtError, reads,
          checkpoint, xtSaved
Xt == INSTANCE XtPage WITH Slots <- Sockets, NoDisk <- None, Chords <- XtChords,
    drive <- xtDrive, remembered <- xtRemembered, stored <- xtStored, running <- xtRunning,
    error <- xtError, saved <- xtSaved
xtPage == <<xtDrive, loaded, xtRemembered, xtStored, loading, readingDisk, xtRunning, xtError, reads,
            checkpoint, xtSaved>>

\* No two keys of a chord share a code; Shift is no character; a character with its shift fits
\* in the queue; there is a socket for the system's ROM.
ASSUME ScanAssumption ==
    /\ Sockets # {} /\ None \notin Disks
    /\ XtChords \subseteq Seq(Keys)
    /\ \A chord \in XtChords : \A i, j \in 1..Len(chord) : CodeOf[chord[i]] = CodeOf[chord[j]] => i = j
    /\ Characters \subseteq [code : Nat, shift : BOOLEAN, letter : BOOLEAN, line : BOOLEAN]
    /\ \A character \in Characters : character.code # ShiftCode
    /\ QueueCapacity \in Nat /\ QueueCapacity >= 4 /\ PasteLimit \in Nat

----------------------------------------------------------------------------
\* Two rows and two columns, a key alone or two that connect them, one line driven at a time.
MCCocoChords == {{<<0, 0>>}, {<<0, 1>>, <<1, 1>>}}
MCDrivers == {[a |-> {}, b |-> {}], [a |-> {1}, b |-> {}], [a |-> {}, b |-> {0}], [a |-> {}, b |-> {1}]}
\* ArrowUp and Numpad8 share a make code.
MCCodeOf == ("ArrowUp" :> 72) @@ ("Numpad8" :> 72) @@ ("Control" :> 29)
MCCharacters == {[code |-> 72, shift |-> FALSE, letter |-> TRUE, line |-> FALSE],
                 [code |-> 28, shift |-> FALSE, letter |-> FALSE, line |-> TRUE]}
MCXtChords == {<<"Control", "ArrowUp">>}

rest == <<cocoKeyboard, cocoPage, xtKeyboard, xtPage>>
MCInit ==
    /\ part \in {"apple2", "coco keyboard", "coco", "keyboard", "xt"}
    /\ Init /\ Coco!KeyboardInit /\ Coco!Init /\ Xt!KeyboardInit /\ Xt!Init
    /\ part # "xt" => ~checkpoint.some
    /\ part # "coco" => ~hasSaved
MCNext ==
    \/ part = "apple2" /\ Next /\ UNCHANGED <<part, rest>>
    \/ part = "coco keyboard" /\ Coco!KeyboardNext /\ UNCHANGED <<part, vars, cocoPage, xtKeyboard, xtPage>>
    \/ part = "coco" /\ Coco!Next /\ UNCHANGED <<part, vars, cocoKeyboard, xtKeyboard, xtPage>>
    \/ part = "keyboard" /\ Xt!KeyboardNext /\ UNCHANGED <<part, vars, cocoKeyboard, cocoPage, xtPage>>
    \/ part = "xt" /\ Xt!Next /\ UNCHANGED <<part, vars, cocoKeyboard, cocoPage, xtKeyboard>>
MCSpec == MCInit /\ [][MCNext]_<<part, vars, rest>>

\* What a page shows, what its machine has and what it remembers agree: the Apple's disks and
\* ROMs, the CoCo's ROMs, the XT's diskette and ROMs.
\* A chord that is down on the CoCo is the one its PIA samples, and no key is left down for the XT.
PagesAgree == ShownIsLoaded /\ Coco!RomsAgree /\ Xt!DriveAgrees /\ Coco!ChordIsSampled /\ Xt!NoKeySticks
=============================================================================
