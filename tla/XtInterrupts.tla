---------------------------- MODULE XtInterrupts ----------------------------
(***************************************************************************)
(* The XT's interrupt path: devices drive the 8259A's lines and the check  *)
(* inputs, the CPU runs one boundary at a time, and the board samples INTR *)
(* around each boundary (XtIo.runCpuBoundary, stepXtCpu).                  *)
(*                                                                         *)
(* Everything happens on one thread: a boundary is one call, and device    *)
(* time, host input and diagnostics fall between two boundaries, in any    *)
(* order.  The running program is external: any instruction class may come *)
(* next, with any flags on the stack it pops.                              *)
(***************************************************************************)
EXTENDS I8259a, Cpu8088

CONSTANTS
    BoardLines,                \* lines of the board's own devices (IR0, 1, 6),
                               \* which a port write may move
    Source                     \* parity and channel check

ASSUME BoardLinesAssumption == BoardLines \subseteq Wired

VARIABLES
    control,                   \* NMI enable and check latches
    cpu,                       \* the 8088's recognition state
    intrRaisedDuringCpu,       \* INT rose inside the last boundary
    \* History: what the last events were, for the properties only.
    justEnabled,               \* the last instruction to retire set IF from 0
    outputRaised,              \* the last completed boundary's write raised INT
    traced,                    \* an instruction ran with TF set, no trap since
    nmiSpent,                  \* an NMI was taken, its condition still holds
    entered                    \* the vector the last INTR entry used

-----------------------------------------------------------------------------
(* The check latches and the NMI enable.  The two error sources, RAM parity  *)
(* and I/O channel, are treated alike, so the registers are sets of sources. *)

\* disabled: the sources whose check the PPI's PB4 and PB5 hold clear.
SystemControl ==
    [disabled : SUBSET Source, enabled : BOOLEAN, inputs : SUBSET Source,
     errors : SUBSET Source, nmiLevel : BOOLEAN, nmiPending : BOOLEAN]

ControlInitialize ==
    [disabled |-> Source, enabled |-> FALSE, inputs |-> {}, errors |-> {},
     nmiLevel |-> FALSE, nmiPending |-> FALSE]

NmiHigh(s, errors) == s.enabled /\ errors # {}

\* Mutant of Settled: a held clear control does not clear its latch.
SettledIgnoringClears(s) ==
    LET errors == s.errors \cup s.inputs
    IN  [s EXCEPT !.errors = errors,
                  !.nmiLevel = NmiHigh(s, errors),
                  !.nmiPending = @ \/ (NmiHigh(s, errors) /\ ~s.nmiLevel)]

\* Apply the clear controls, retain errors, and record a rising NMI.
Settled(s) ==
    LET errors == (s.errors \cup s.inputs) \ s.disabled
    IN  [s EXCEPT !.errors = errors,
                  !.nmiLevel = NmiHigh(s, errors),
                  !.nmiPending = @ \/ (NmiHigh(s, errors) /\ ~s.nmiLevel)]

ControlSet(s, disabled) == Settled([s EXCEPT !.disabled = disabled])

ErrorsSet(s, inputs) == Settled([s EXCEPT !.inputs = inputs])

EnableWritten(s, enabled) == Settled([s EXCEPT !.enabled = enabled])

NmiAcknowledged(s) == [s EXCEPT !.nmiPending = FALSE]

\* validState, the check a restored snapshot must pass.
ControlValid(s) ==
    /\ s.errors \cap s.disabled = {}
    /\ s.inputs \subseteq s.errors \cup s.disabled
    /\ s.nmiLevel = (s.enabled /\ s.errors # {})
-----------------------------------------------------------------------------
boardVars == <<pic, control, cpu, intrRaisedDuringCpu>>
historyVars == <<justEnabled, outputRaised, traced, nmiSpent, entered>>
vars == <<pic, control, cpu, intrRaisedDuringCpu,
          justEnabled, outputRaised, traced, nmiSpent, entered>>

NoVector == [base |-> {}, level |-> -1]
Vectors == [base : Byte, level : Level] \cup {NoVector}

Init ==
    /\ pic = Initialize
    /\ control = ControlInitialize
    /\ cpu = ResetState
    /\ intrRaisedDuringCpu = FALSE
    /\ justEnabled = FALSE /\ outputRaised = FALSE
    /\ traced = FALSE /\ nmiSpent = FALSE
    /\ entered = NoVector

-----------------------------------------------------------------------------
(* One CPU boundary *)

\* INTR as the boundary sees it: asserted, and not by the last bus transfer.
SampledIntr == Irq(pic) /\ ~intrRaisedDuringCpu

TakesNmi == control.nmiPending /\ NmiEligible(cpu)
TakesIntr == ~TakesNmi /\ SampledIntr /\ IntrEligible(cpu)

\* Mutant of BoundaryEnds: a rise during the boundary is sampled at once.
BoundaryEndsUnmarked == intrRaisedDuringCpu' = FALSE


\* A rise of INT inside this boundary is kept from the next sample.
BoundaryEnds == intrRaisedDuringCpu' = (~Irq(pic) /\ Irq(pic'))

NoteNmiLevel == nmiSpent' = (nmiSpent /\ control'.nmiLevel)

AcceptNmi ==
    /\ TakesNmi
    /\ cpu' = EnterInterrupt(AcceptInterrupt(cpu))
    /\ control' = NmiAcknowledged(control)
    /\ nmiSpent' = control'.nmiLevel
    /\ outputRaised' = FALSE
    /\ UNCHANGED <<pic, justEnabled, traced, entered>>

\* Mutant of AcceptIntr: the vector is read after the request has moved.
AcceptIntrReadingLate ==
    /\ TakesIntr
    /\ pic' = Acknowledged(pic)
    /\ entered' = Vector(pic')
    /\ cpu' = EnterInterrupt(AcceptInterrupt(cpu))
    /\ outputRaised' = FALSE
    /\ UNCHANGED <<control, justEnabled, traced, nmiSpent>>

\* The callback reads the vector, then moves the request into service.
AcceptIntr ==
    /\ TakesIntr
    /\ entered' = Vector(pic)
    /\ pic' = Acknowledged(pic)
    /\ cpu' = EnterInterrupt(AcceptInterrupt(cpu))
    /\ outputRaised' = FALSE
    /\ UNCHANGED <<control, justEnabled, traced, nmiSpent>>

\* No offer was taken: the CPU steps.
Steps == ~TakesNmi /\ ~TakesIntr

DeliverTrap ==
    /\ Steps /\ TrapDue(cpu)
    /\ cpu' = EnterInterrupt(BeginTrap(cpu))
    /\ traced' = FALSE
    /\ outputRaised' = FALSE
    /\ UNCHANGED <<pic, control, justEnabled, nmiSpent, entered>>

StayHalted ==
    /\ Steps /\ ~TrapDue(cpu) /\ cpu.halted
    /\ outputRaised' = FALSE
    /\ UNCHANGED <<pic, control, cpu, justEnabled, traced, nmiSpent, entered>>

\* The CPU attempts an instruction, or samples TEST for a WAIT in progress.
Attempts == Steps /\ ~TrapDue(cpu) /\ ~cpu.halted

Fetches == Attempts /\ ~cpu.waiting

\* The instruction's effects on the processor, committed by its retirement.
Retires(after, deferIntr, deferAll) ==
    /\ cpu' = Retired(cpu, after, deferIntr, deferAll)
    /\ justEnabled' = EnablesInterrupts(cpu, after.if)
    /\ traced' = (traced \/ cpu.tf)

OffBus == outputRaised' = FALSE /\ UNCHANGED <<pic, control, nmiSpent>>

SampleTest(high) ==
    /\ Attempts
    /\ Retires(Polled(cpu, high), FALSE, ~high)
    /\ OffBus
    /\ UNCHANGED entered

ExecutePlain ==
    /\ Fetches
    /\ Retires(cpu, FALSE, FALSE)
    /\ OffBus
    /\ UNCHANGED entered

\* STI and CLI.
ExecuteInterruptFlag(newIf) ==
    /\ Fetches
    /\ Retires(SetInterruptEnable(cpu, newIf), EnablesInterrupts(cpu, newIf), FALSE)
    /\ OffBus
    /\ UNCHANGED entered

\* POPF and IRET replace the flags with whatever the stack holds.
ExecuteLoadFlags(newTf, newIf) ==
    /\ Fetches
    /\ Retires(FlagsLoaded(cpu, newTf, newIf), EnablesInterrupts(cpu, newIf), FALSE)
    /\ OffBus
    /\ UNCHANGED entered

\* MOV or POP into a segment register.
ExecuteLoadSegment ==
    /\ Fetches
    /\ Retires(cpu, FALSE, TRUE)
    /\ OffBus
    /\ UNCHANGED entered

ExecuteHalt ==
    /\ Fetches
    /\ Retires(Stopped(cpu), FALSE, FALSE)
    /\ OffBus
    /\ UNCHANGED entered

\* INT3, INT n, INTO, and the divide error: entry within the instruction.
ExecuteSoftwareEntry ==
    /\ Fetches
    /\ Retires(EnterInterrupt(cpu), FALSE, FALSE)
    /\ OffBus
    /\ UNCHANGED entered

\* An unsupported encoding restores IP and skips retirement.
ExecuteUnsupported ==
    /\ Fetches
    /\ OffBus
    /\ UNCHANGED <<cpu, justEnabled, traced, entered>>

\* OUT: the write reaches a device before the instruction retires.
Outputs ==
    /\ Fetches
    /\ Retires(cpu, FALSE, FALSE)
    /\ outputRaised' = (~Irq(pic) /\ Irq(pic'))
    /\ UNCHANGED entered

OutputPic ==
    /\ \/ \E byte \in CommandBytes :
             CommandSupported(pic, byte) /\ pic' = CommandWritten(pic, byte)
       \/ \E byte \in DataBytes :
             DataSupported(pic, byte) /\ pic' = DataWritten(pic, byte)
    /\ Outputs
    /\ UNCHANGED <<control, nmiSpent>>

\* A write to the timer, the keyboard control or the diskette adapter moves
\* that device's line, which updateWiring samples before the write returns.
OutputDevice(line, high) ==
    /\ pic' = LineSet(pic, line, high)
    /\ Outputs
    /\ UNCHANGED <<control, nmiSpent>>

OutputNmiEnable(enabled) ==
    /\ control' = EnableWritten(control, enabled)
    /\ UNCHANGED pic
    /\ Outputs
    /\ NoteNmiLevel

OutputCheckControl(disabled) ==
    /\ control' = ControlSet(control, disabled)
    /\ UNCHANGED pic
    /\ Outputs
    /\ NoteNmiLevel

Boundary ==
    \/ AcceptNmi
    \/ AcceptIntr
    \/ DeliverTrap
    \/ StayHalted
    \/ \E high \in BOOLEAN : SampleTest(high)
    \/ ExecutePlain
    \/ \E newIf \in BOOLEAN : ExecuteInterruptFlag(newIf)
    \/ \E newTf, newIf \in BOOLEAN : ExecuteLoadFlags(newTf, newIf)
    \/ ExecuteLoadSegment
    \/ ExecuteHalt
    \/ ExecuteSoftwareEntry
    \/ ExecuteUnsupported
    \/ OutputPic
    \/ \E line \in BoardLines, high \in BOOLEAN : OutputDevice(line, high)
    \/ \E enabled \in BOOLEAN : OutputNmiEnable(enabled)
    \/ \E disabled \in SUBSET Source : OutputCheckControl(disabled)

\* A device that rejects a write throws through the CPU and the board: nothing
\* retires and the sample is not updated.  Of a word, the first byte may have
\* arrived; the only such write to move a request line lowers the timer's.
OutputFails ==
    /\ Fetches
    /\ \/ UNCHANGED pic
       \/ \E line \in BoardLines : pic' = LineSet(pic, line, FALSE)
    /\ UNCHANGED <<control, cpu, intrRaisedDuringCpu, historyVars>>

\* runCpuBoundary keeps the sample for the boundary that follows.
CpuBoundary ==
    \/ Boundary /\ BoundaryEnds
    \/ OutputFails

-----------------------------------------------------------------------------
(* Between boundaries *)

\* Device time or a host call settles an interrupt line.
DeviceLine(line, high) ==
    /\ pic' = LineSet(pic, line, high)
    /\ UNCHANGED <<control, cpu, intrRaisedDuringCpu, historyVars>>

CheckErrors(inputs) ==
    /\ control' = ErrorsSet(control, inputs)
    /\ NoteNmiLevel
    /\ UNCHANGED <<pic, cpu, intrRaisedDuringCpu,
                   justEnabled, outputRaised, traced, entered>>

\* The CPU's reset alone; the board keeps its requests and its INTR sample.
ResetCpu ==
    /\ cpu' = ResetState
    /\ justEnabled' = FALSE /\ traced' = FALSE
    /\ UNCHANGED <<pic, control, intrRaisedDuringCpu,
                   outputRaised, nmiSpent, entered>>

\* The machine's reset: the CPU, then the board.  The reset devices drop their
\* lines and the PPI releases PB4 and PB5, which updateWiring samples last.
ResetMachine ==
    /\ cpu' = ResetState
    /\ pic' = [Reset(pic) EXCEPT !.levels = @ \ BoardLines]
    /\ intrRaisedDuringCpu' = FALSE
    /\ control' = ControlSet(ControlInitialize, Source)
    /\ justEnabled' = FALSE /\ outputRaised' = FALSE
    /\ traced' = FALSE /\ nmiSpent' = FALSE
    /\ entered' = NoVector

Devices ==
    \/ \E line \in Wired, high \in BOOLEAN : DeviceLine(line, high)
    \/ \E inputs \in SUBSET Source : CheckErrors(inputs)
    \/ ResetCpu
    \/ ResetMachine

Next == CpuBoundary \/ Devices

\* The host keeps calling the step function while the machine runs; a boundary
\* is always possible, since some class of instruction always is.
Fairness == WF_vars(CpuBoundary)

Spec == Init /\ [][Next]_vars /\ Fairness

-----------------------------------------------------------------------------
(* Invariants *)

\* Every latch, register and history variable stays in its domain.
TypeOK ==
    /\ pic \in Controller
    /\ control \in SystemControl
    /\ cpu \in Processor
    /\ intrRaisedDuringCpu \in BOOLEAN
    /\ justEnabled \in BOOLEAN
    /\ outputRaised \in BOOLEAN
    /\ traced \in BOOLEAN
    /\ nmiSpent \in BOOLEAN
    /\ entered \in Vectors

\* Both device chapters' validState checks accept every state a program and
\* its devices can reach, so a checkpoint taken at any boundary restores.
BoardRestorable == ValidState(pic) /\ ControlValid(control)

\* A halted CPU carries neither recognition delay: nothing would ever retire
\* to consume it (StayHalted), so a delayed halt could not be woken. The same
\* holds of both HLT after STI and HLT after a segment load.
HaltedCanWake ==
    cpu.halted => ~cpu.interruptDeferred /\ ~cpu.recognitionDeferred

\* An instruction that ran with TF set owes its trap until a type 1 entry
\* begins, whatever NMI, INTR, software entry or flag load comes first.
TrapKept == traced => cpu.trapPending

\* The processor's latches are due: a halt can be woken and an owed trap is kept.
LatchesAreDue == HaltedCanWake /\ TrapKept

-----------------------------------------------------------------------------
(* Action properties *)

\* STI, POPF and IRET turn interrupts on one instruction late: INTR is not
\* acknowledged until another instruction retires, so STI;RET, STI;HLT and the
\* end of a handler leave room for one instruction of the interrupted program.
EnableShadow == [][AcceptIntr => ~justEnabled]_vars

\* A request raised by the CPU's own output misses the next sample: the
\* instruction after the OUT runs before the INTR is acknowledged.
OutputMissesSample == [][AcceptIntr => ~outputRaised]_vars

\* The CPU enters through the vector of the very request the controller puts
\* in service, and never through the spurious level 7.
VectorMatchesService ==
    [][AcceptIntr => /\ pic'.isr = pic.isr \cup {entered'.level}
                     /\ entered'.level \in pic.irr \ pic.imr]_vars

\* INTR never overtakes a pending NMI, not even while the NMI is deferred.
NmiNotOvertaken == [][AcceptIntr => ~control.nmiPending]_vars

\* A check error held after its NMI was taken does not retrigger it: another
\* NMI needs the enabled condition to have been low in between.
HeldErrorAsksOnce == [][AcceptNmi => ~nmiSpent]_vars

\* INTR waits its turn: it is acknowledged neither before a pending NMI, nor right after the
\* instruction that enabled it, nor in the boundary whose own output raised it.
IntrWaitsItsTurn ==
    [][AcceptIntr => ~control.nmiPending /\ ~justEnabled /\ ~outputRaised]_vars

\* An entry answers what asked for it, once: the vector is that of the request the controller
\* serves, and a check error that is still held does not interrupt again.
EntriesAnswerOnce ==
    [][/\ AcceptIntr => /\ pic'.isr = pic.isr \cup {entered'.level}
                        /\ entered'.level \in pic.irr \ pic.imr
       /\ AcceptNmi => ~nmiSpent]_vars

-----------------------------------------------------------------------------
(* Liveness *)

\* A halted CPU with interrupts enabled and a request asserted wakes up: no
\* sample delay or deferral can suppress the request at every boundary.
HaltedWakes == (cpu.halted /\ cpu.if /\ Irq(pic)) ~> ~cpu.halted

\* Whatever comes first, a pending NMI and an owed trap are both delivered, and a
\* halted CPU wakes.
EventsDelivered ==
    /\ HaltedWakes
    /\ []<>~cpu.recognitionDeferred =>
          /\ control.nmiPending ~> ~control.nmiPending
          /\ cpu.trapPending ~> ~cpu.trapPending
=============================================================================
