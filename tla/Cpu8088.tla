------------------------------ MODULE Cpu8088 ------------------------------
(***************************************************************************)
(* The 8088 as its boundaries see it: the halt and wait latches, the two   *)
(* recognition delays, the owed single-step trap, and the TF and IF flags. *)
(* Registers, memory and the instruction set are abstracted to the classes *)
(* of instruction that touch this state.  Every operator takes the         *)
(* processor as a record and returns it changed; XtInterrupts decides when *)
(* each one happens.                                                       *)
(***************************************************************************)

Processor ==
    [halted : BOOLEAN, waiting : BOOLEAN, interruptDeferred : BOOLEAN,
     recognitionDeferred : BOOLEAN, trapPending : BOOLEAN,
     tf : BOOLEAN, if : BOOLEAN]

\* resetState: the latches and all nine flags are cleared.
ResetState ==
    [halted |-> FALSE, waiting |-> FALSE, interruptDeferred |-> FALSE,
     recognitionDeferred |-> FALSE, trapPending |-> FALSE,
     tf |-> FALSE, if |-> FALSE]

-----------------------------------------------------------------------------
(* Interrupt entry *)

\* The ordered gates of an external offer.
NmiEligible(c) == ~c.recognitionDeferred

IntrEligible(c) == ~c.recognitionDeferred /\ ~c.interruptDeferred /\ c.if

\* Accepting releases WAIT and HLT before the acknowledgement.
AcceptInterrupt(c) == [c EXCEPT !.waiting = FALSE, !.halted = FALSE]

\* Mutant of EnterInterrupt: an entry discards the owed trap.
EnterForgettingTrap(c) ==
    [c EXCEPT !.tf = FALSE, !.if = FALSE, !.recognitionDeferred = FALSE,
              !.interruptDeferred = FALSE, !.waiting = FALSE, !.halted = FALSE,
              !.trapPending = FALSE]

\* The shared entry action; an owed trap is left owed.
EnterInterrupt(c) ==
    [c EXCEPT !.tf = FALSE, !.if = FALSE, !.recognitionDeferred = FALSE,
              !.interruptDeferred = FALSE, !.waiting = FALSE, !.halted = FALSE]

\* Mutant of TrapDue: the trap is sampled after the halt.
TrapDueUnlessHalted(c) == c.trapPending /\ ~c.recognitionDeferred /\ ~c.halted

\* A trap is due before the next instruction, halt or WAIT sample.
TrapDue(c) == c.trapPending /\ ~c.recognitionDeferred

BeginTrap(c) == [c EXCEPT !.trapPending = FALSE]

-----------------------------------------------------------------------------
(* Instruction effects and retirement *)

\* STI, POPF and IRET set IF; going from clear to set asks to delay INTR.
EnablesInterrupts(c, newIf) == ~c.if /\ newIf

FlagsLoaded(c, newTf, newIf) == [c EXCEPT !.tf = newTf, !.if = newIf]

SetInterruptEnable(c, newIf) == [c EXCEPT !.if = newIf]

Stopped(c) == [c EXCEPT !.halted = TRUE]

\* A high TEST pin keeps the WAIT waiting; a low one lets it go.
Polled(c, high) == [c EXCEPT !.waiting = high]

\* Retirement commits the delays the instruction asked for, consuming older
\* ones, and owes a trap if TF was set or a trap was owed before its effects.
Retired(before, after, deferIntr, deferAll) ==
    [after EXCEPT !.interruptDeferred = deferIntr,
                  !.recognitionDeferred = deferAll,
                  !.trapPending = before.trapPending \/ before.tf]
=============================================================================
