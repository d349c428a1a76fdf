--------------------------- MODULE SerialSession ---------------------------
(***************************************************************************)
(* The host transport of a serial machine: a tape and typed input offered  *)
(* to the machine's one-byte receive register, output captured per machine *)
(* instance, and the run, step, reset, reload and checkpoint controls.     *)
(*                                                                         *)
(* run() is one call but many instructions; it is modelled instruction by  *)
(* instruction, with budget the steps the call has left, and no other      *)
(* method can start until it returns (executionBoundary rejects reentry).  *)
(* The guest program is external: each instruction may read the receive    *)
(* register when it is full, transmit, program the port, or do neither.    *)
(***************************************************************************)
EXTENDS Integers, Sequences

CONSTANTS
    Byte,                \* characters on the line
    Typed, Spoken,       \* those a host types and those a guest says
    Silence,             \* what the guest has heard before its first byte
    Nothing,             \* no checkpoint
    Tapes,               \* tapes a host may load, sequences of bytes
    MaxInput,            \* bound on the keyboard bytes queued
    MaxOutput,           \* bound on the bytes one machine says
    MaxInstances,        \* the machines told apart: the newest takes the
                         \* number, and the buffer, of the one before those
    MaxSteps             \* the largest batch

ASSUME BytesAssumption ==
    /\ Typed \subseteq Byte /\ Spoken \subseteq Byte
    /\ Tapes \subseteq Seq(Byte)
ASSUME SentinelAssumption == Silence \notin Byte
ASSUME BoundsAssumption ==
    /\ MaxInput \in Nat /\ MaxOutput \in Nat
    /\ MaxInstances \in Nat \ {0} /\ MaxSteps \in Nat

\* Storage that holds nothing is no session, and no state of a line either.
ASSUME NothingAssumption ==
    Nothing \notin [machine : [configured : BOOLEAN, received : Seq(Byte),
                              heard : Byte \cup {Silence}],
                   tape : Seq(Byte), tapePosition : Nat, input : Seq(Byte),
                   output : Seq(Byte), taken : Seq(Byte)]
              \cup [coming : Seq(Byte), heard : Byte \cup {Silence},
                    said : Seq(Byte), taken : Seq(Byte)]

VARIABLES
    machine,             \* the current machine: receive register and guest
    instance,            \* which construction it is
    buffers,             \* each construction's captured output
    tape, tapePosition,  \* the attached tape and the next byte to offer
    input,               \* typed bytes not yet offered
    running,
    budget,              \* steps left to the run() in progress, or Idle
    failed,              \* the run() in progress threw
    taken,               \* the host's drained output (the terminal)
    checkpoint           \* the saved session, or Nothing

sessionVars == <<machine, instance, buffers, tape, tapePosition, input,
                 running, budget, failed, taken, checkpoint>>

Idle == -1
Instances == 1..MaxInstances

-----------------------------------------------------------------------------
(* The machine's serial port and its guest *)

\* masterReset: control 03 and an empty receive register.
MasterReset(m) == [m EXCEPT !.configured = FALSE, !.received = <<>>]

NewMachine == [configured |-> FALSE, received |-> <<>>, heard |-> Silence]

\* receive: an offer is refused while the register is full or held in reset.
Accepts(m) == m.configured /\ m.received = <<>>

\* readData: a polling guest reads the register when status says it is full.
Read(m) ==
    IF m.received = <<>> THEN m
    ELSE [m EXCEPT !.heard = Head(m.received), !.received = <<>>]

\* One instruction: a read, a port control, a character, or none of them.
Instructions(m) ==
    [machine : {m, Read(m), MasterReset(m), [m EXCEPT !.configured = TRUE]},
     says : {<<>>}]
    \cup {[machine |-> m, says |-> <<byte>>] :
              byte \in IF m.configured THEN Spoken ELSE {}}

\* Mutant of CapturedBy: every machine writes to the session's current buffer.
CapturedByCurrent(generation) == instance

\* The buffer a machine's output callback closed over when it was created.
CapturedBy(generation) == generation

-----------------------------------------------------------------------------
(* One instruction, with the offer that precedes it *)

OnTape == tapePosition < Len(tape)

Offered ==
    CASE OnTape -> <<tape[tapePosition + 1]>>
      [] ~OnTape /\ input # <<>> -> <<Head(input)>>
      [] OTHER -> <<>>

\* Mutant of OfferAccepted: a tape byte waits for the keyboard to be empty.
OfferAcceptedKeyboardFirst ==
    Offered # <<>> /\ Accepts(machine) /\ (OnTape => input = <<>>)

OfferAccepted == Offered # <<>> /\ Accepts(machine)

MachineOffered ==
    IF OfferAccepted THEN [machine EXCEPT !.received = Offered] ELSE machine

\* Mutant of Consume: a refused offer is dropped.
ConsumeRefused ==
    /\ tapePosition' = IF Offered # <<>> /\ OnTape THEN tapePosition + 1
                       ELSE tapePosition
    /\ input' = IF Offered # <<>> /\ ~OnTape THEN Tail(input) ELSE input

\* An offer the machine refused stays where it is and is offered again.
Consume ==
    /\ tapePosition' = IF OfferAccepted /\ OnTape THEN tapePosition + 1
                       ELSE tapePosition
    /\ input' = IF OfferAccepted /\ ~OnTape THEN Tail(input) ELSE input

\* The bound on output: a machine that has said MaxOutput bytes says no more.
Quiet == Len(taken) + Len(buffers[CapturedBy(instance)]) = MaxOutput

ExecuteInstruction ==
    /\ Consume
    /\ \E result \in Instructions(MachineOffered) :
          /\ result.says # <<>> => ~Quiet
          /\ machine' = result.machine
          /\ buffers' = [buffers EXCEPT ![CapturedBy(instance)] = @ \o result.says]
    /\ UNCHANGED <<instance, tape, taken, checkpoint>>

-----------------------------------------------------------------------------
(* The session's methods *)

Init ==
    /\ machine = NewMachine /\ instance = 1
    /\ buffers = [i \in Instances |-> <<>>]
    /\ tape = <<>> /\ tapePosition = 0 /\ input = <<>>
    /\ running = FALSE /\ budget = Idle /\ failed = FALSE
    /\ taken = <<>>
    /\ checkpoint = Nothing

AtBoundary == budget = Idle

Transport == <<tape, tapePosition, input>>
Hardware == <<machine, instance, buffers>>
Call == <<budget, failed>>

Send(byte) ==
    /\ AtBoundary
    /\ Len(input) < MaxInput
    /\ input' = Append(input, byte)
    /\ UNCHANGED <<Hardware, tape, tapePosition, running, Call, taken, checkpoint>>

Start ==
    /\ AtBoundary
    /\ running' = TRUE
    /\ UNCHANGED <<Hardware, Transport, Call, taken, checkpoint>>

Stop ==
    /\ AtBoundary
    /\ running' = FALSE
    /\ UNCHANGED <<Hardware, Transport, Call, taken, checkpoint>>

\* step(): one instruction while stopped.
Step ==
    /\ AtBoundary /\ ~running
    /\ ExecuteInstruction
    /\ UNCHANGED <<running, Call>>

\* run(maxSteps): a stopped session returns at once, paused.
RunCalled(maxSteps) ==
    /\ AtBoundary /\ running
    /\ budget' = maxSteps
    /\ UNCHANGED <<Hardware, Transport, running, failed, taken, checkpoint>>

\* The batch goes on while instructions execute; any other outcome and any
\* exception stop the session and leave the loop, the instruction's effects
\* and its offer remaining.
RunStep ==
    /\ budget > 0
    /\ ExecuteInstruction
    /\ \/ budget' = budget - 1 /\ UNCHANGED <<running, failed>>
       \/ budget' = 0 /\ running' = FALSE /\ failed' \in BOOLEAN

RunReturns ==
    /\ budget = 0
    /\ budget' = Idle /\ failed' = FALSE
    /\ UNCHANGED <<Hardware, Transport, running, taken, checkpoint>>

Captured == buffers[instance]

\* The host takes ownership of the bytes; a second drain finds none.
Drained ==
    /\ taken' = taken \o Captured
    /\ buffers' = [buffers EXCEPT ![instance] = <<>>]

DrainOutput ==
    /\ AtBoundary
    /\ Drained
    /\ UNCHANGED <<machine, instance, Transport, running, Call, checkpoint>>

ClearInput == tape' = <<>> /\ tapePosition' = 0 /\ input' = <<>>

Reset ==
    /\ AtBoundary
    /\ running' = FALSE
    /\ machine' = MasterReset(machine)
    /\ ClearInput
    /\ UNCHANGED <<instance, buffers, Call, taken, checkpoint>>

\* A machine's reset that throws, before or after its port was reset, leaves
\* the session stopped with its input in place.
ResetFails ==
    /\ AtBoundary
    /\ running' = FALSE
    /\ machine' \in {machine, MasterReset(machine)}
    /\ UNCHANGED <<instance, buffers, Transport, Call, taken, checkpoint>>

\* A fresh machine with its own buffer; the host clears its terminal with it.
NextInstance == (instance % MaxInstances) + 1

NewInstance(bytes) ==
    /\ instance' = NextInstance
    /\ machine' = NewMachine
    /\ buffers' = [buffers EXCEPT ![NextInstance] = <<>>]
    /\ running' = FALSE
    /\ tape' = bytes /\ tapePosition' = 0 /\ input' = <<>>
    /\ taken' = <<>>

Reload(bytes) ==
    /\ AtBoundary
    /\ NewInstance(bytes)
    /\ UNCHANGED <<Call, checkpoint>>

\* Someone who kept a replaced machine makes it transmit.
OldMachineSays(old, byte) ==
    /\ AtBoundary
    /\ old # instance
    /\ Len(buffers[old]) < MaxOutput
    /\ buffers' = [buffers EXCEPT ![CapturedBy(old)] = Append(@, byte)]
    /\ UNCHANGED <<machine, instance, Transport, running, Call, taken, checkpoint>>

\* Mutant of Snapshot: the tape is saved rewound.
SnapshotRewound ==
    [machine |-> machine, tape |-> tape, tapePosition |-> 0,
     input |-> input, output |-> Captured, taken |-> taken]

\* snapshotTransport, with the machine's and the terminal's snapshots: typed
\* input is saved from its first unoffered byte, the tape with its position.
Snapshot ==
    [machine |-> machine, tape |-> tape, tapePosition |-> tapePosition,
     input |-> input, output |-> Captured, taken |-> taken]

\* saveBasicSession refuses a running session.
Save ==
    /\ AtBoundary /\ ~running
    /\ checkpoint' = Snapshot
    /\ UNCHANGED <<Hardware, Transport, running, Call, taken>>

\* A failed write removes the older checkpoint, if storage lets it.
SaveFails ==
    /\ AtBoundary /\ ~running
    /\ checkpoint' \in {Nothing, checkpoint}
    /\ UNCHANGED <<Hardware, Transport, running, Call, taken>>

\* readBasicSession: a new session around the restored machine, its queues and
\* its first buffer filled by restoreTransport, paused.
Restore ==
    /\ AtBoundary /\ checkpoint # Nothing
    /\ machine' = checkpoint.machine /\ instance' = 1
    /\ buffers' = [i \in Instances |-> IF i = 1 THEN checkpoint.output ELSE <<>>]
    /\ tape' = checkpoint.tape /\ tapePosition' = checkpoint.tapePosition
    /\ input' = checkpoint.input
    /\ running' = FALSE /\ failed' = FALSE /\ budget' = Idle
    /\ taken' = checkpoint.taken
    /\ UNCHANGED checkpoint

Next ==
    \/ \E byte \in Typed : Send(byte)
    \/ Start \/ Stop \/ Step
    \/ \E maxSteps \in 0..MaxSteps : RunCalled(maxSteps)
    \/ RunStep \/ RunReturns
    \/ DrainOutput
    \/ Reset \/ ResetFails
    \/ \E bytes \in Tapes : Reload(bytes)
    \/ \E old \in Instances, byte \in Spoken : OldMachineSays(old, byte)
    \/ Save \/ SaveFails \/ Restore

Spec == Init /\ [][Next]_sessionVars

-----------------------------------------------------------------------------
(* Properties *)

Strings(n) == UNION {[1..k -> Byte] : k \in 0..n}

Machine ==
    [configured : BOOLEAN, received : Strings(1), heard : Byte \cup {Silence}]

\* The queues keep their bounds, the tape position stays on the tape
\* (restoreTransport's check), and a port held in reset has no byte waiting
\* (the device's validState), so a saved session passes the restore checks.
SessionTypeOK ==
    /\ machine \in Machine
    /\ machine.received # <<>> => machine.configured
    /\ instance \in Instances
    /\ \A i \in Instances : buffers[i] \in Strings(MaxOutput)
    /\ tape \in Tapes \cup {<<>>}
    /\ tapePosition \in 0..Len(tape)
    /\ input \in Strings(MaxInput)
    /\ running \in BOOLEAN /\ failed \in BOOLEAN
    /\ budget \in {Idle} \cup 0..MaxSteps
    /\ taken \in Strings(MaxOutput)

-----------------------------------------------------------------------------
(* The serial line it implements *)

\* What the queues hold together: the byte in the receive register, then the
\* rest of the tape, then the keyboard.
Rest(position, bytes) == SubSeq(bytes, position + 1, Len(bytes))

Coming(port, position, bytes, typed) ==
    port.received \o Rest(position, bytes) \o typed

Kept ==
    IF checkpoint = Nothing THEN Nothing
    ELSE [coming |-> Coming(checkpoint.machine, checkpoint.tapePosition,
                            checkpoint.tape, checkpoint.input),
          heard |-> checkpoint.machine.heard,
          said |-> checkpoint.output,
          taken |-> checkpoint.taken]

Line == INSTANCE SerialLine WITH
    coming <- Coming(machine, tapePosition, tape, input),
    heard <- machine.heard,
    said <- Captured,
    kept <- Kept

\* The queues and latches of SerialSession implement one serial line: the tape
\* comes before the keyboard, a byte refused by the port is offered again and
\* never twice, output survives a stop, a halt, an exception and a reset and is
\* drained once, a replaced machine cannot be heard, and a restored session
\* carries on with the very bytes that were under way when it was saved.
ImplementsLine == Line!Spec
=============================================================================
