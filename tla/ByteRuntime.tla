----------------------------- MODULE ByteRuntime -----------------------------
(***************************************************************************)
(* The execution boundary of the byte CPUs, callback by callback:          *)
(* byte-execution.ts (8008, 8080), vector-execution.ts (6800, 6502, 6809,  *)
(* 8088), decoded-execution.ts with interrupt-entries.ts (Z80), the opcode *)
(* executor, the recorded buses and the bounded runner run-cpu.ts.         *)
(* Memory, ports and devices are host callbacks: each may return, throw,   *)
(* or try to call the CPU again.  An instruction is its list of effects.   *)
(***************************************************************************)
EXTENDS Integers, Sequences

CONSTANTS
    Families,         \* what is generated: a runtime ("byte", "vector" or "decoded") and when
                      \* the opcode's PC advance is made ("read" or "dispatch")
    Addresses,        \* the PC is in 0 .. Addresses - 1 and wraps
    MaxSteps, EndAddress   \* of the bounded runner

VARIABLES
    family,      \* the generated executor, once and for all
    pc, stopped, enabled, deferred, nmiDeferred,   \* stored CPU state
    active,      \* the execution guard
    call,        \* the boundary under way, or Idle
    bus,         \* transfers the host completed during this boundary
    last,        \* the record of the last boundary that returned
    notices,     \* RETI notifications not matched by a retired RETI (history)
    shadow,      \* the last retired instruction asked for deferral (history)
    nmis,        \* NMIs accepted since an instruction retired (history)
    run          \* the bounded runner

cpu == <<pc, stopped, enabled, deferred, nmiDeferred>>
vars == <<family, cpu, active, call, bus, last, notices, shadow, nmis, run>>

Runtime == family[1]
OpcodeAdvance == family[2]

Idle == [phase |-> "idle"]
NoRun == [on |-> FALSE, taken |-> 0, stop |-> "none"]
Init ==
    /\ family \in Families
    /\ pc = 0 /\ stopped = FALSE /\ enabled = FALSE /\ deferred = FALSE
    /\ active = FALSE /\ call = Idle /\ bus = <<>>
    /\ last = [outcome |-> "none", from |-> 0] /\ notices = 0 /\ shadow = FALSE
    /\ run = NoRun /\ nmiDeferred = FALSE /\ nmis = 0

Plus(n) == (pc + n) % Addresses

\* Effects of the instructions a program may hold.  A prefixed opcode has a second
\* encoding byte; "reject" is a handler that refuses its operand.
Script(opcode) ==
    CASE opcode = "store" -> <<"fetch", "write">>
      [] opcode = "input" -> <<"fetch", "port">>
      [] opcode = "enable" -> (IF Runtime = "vector" THEN <<>> ELSE <<"defer">>) \o <<"enable">>
      [] opcode = "halt" -> <<"halt">>
      [] opcode = "jump" -> <<"fetch", "jump">>
      [] opcode = "reti" -> <<"read", "read", "jump", "reti">>
      [] opcode = "reject" -> <<"fetch", "reject">>
Known == {"store", "input", "enable", "halt", "jump"}
         \cup (IF Runtime = "decoded" THEN {"reti"} ELSE {})
         \cup (IF Runtime = "vector" THEN {"reject"} ELSE {})
Prefixed == {"reti"}
\* An accepted entry stacks the PC, and a vectored one reads its target.
EntryScript == <<"write", "read", "jump">>

----------------------------------------------------------------------------
(* Calls, the guard, and the ways a boundary ends.                         *)

NewCall(kind, timed) ==
    [phase |-> "opcode", kind |-> kind, timed |-> timed, from |-> pc, log |-> <<>>,
     todo |-> <<>>, bytes |-> 0, defer |-> FALSE, reti |-> FALSE, retired |-> FALSE]

Entering == [NewCall("entry", FALSE) EXCEPT !.phase = "body", !.todo = EntryScript]

\* finally: the guard is released however the boundary ends.
Ends(outcome) ==
    /\ active' = FALSE /\ call' = Idle /\ bus' = <<>>
    /\ last' = [outcome |-> outcome, from |-> call.from]

Step(timed) ==
    /\ ~active /\ ~run.on /\ (timed => Runtime = "vector")
    /\ IF stopped
       THEN /\ last' = [outcome |-> "halted", from |-> pc]
            /\ UNCHANGED <<cpu, active, call, bus, notices, shadow, nmis, run>>
       ELSE /\ active' = TRUE /\ call' = NewCall("step", timed) /\ bus' = <<>>
            /\ UNCHANGED <<cpu, last, notices, shadow, nmis, run>>

\* A callback that calls the CPU again is refused by the guard; it may pass the
\* refusal on, which ends the boundary like any host exception.
NestedCall == active /\ UNCHANGED vars

Reset ==
    /\ ~active /\ ~run.on
    /\ pc' = 0 /\ stopped' = FALSE /\ enabled' = FALSE /\ deferred' = FALSE /\ shadow' = FALSE
    /\ nmiDeferred' = FALSE /\ nmis' = 0
    /\ last' = [outcome |-> "reset", from |-> pc]
    /\ UNCHANGED <<active, call, bus, notices, run>>

\* The gate comes before the acknowledgement, acceptance before the first transfer.
Declined == ~enabled \/ deferred
Interrupt ==
    /\ ~active /\ ~run.on
    /\ IF Declined
       THEN last' = [outcome |-> "ignored", from |-> pc]
            /\ UNCHANGED <<cpu, active, call, bus, notices, shadow, nmis, run>>
       ELSE /\ enabled' = FALSE /\ deferred' = FALSE /\ stopped' = FALSE
            /\ active' = TRUE /\ bus' = <<>>
            /\ call' = IF Runtime = "vector" THEN Entering ELSE NewCall("supplied", FALSE)
            /\ UNCHANGED <<pc, nmiDeferred, last, notices, shadow, nmis, run>>

\* A source that needs no acknowledgement; it does not wait for an IRQ's deferral, and
\* is not offered again before an instruction retires.
NonMaskable ==
    /\ ~active /\ ~run.on /\ Runtime = "decoded"
    /\ IF nmiDeferred
       THEN last' = [outcome |-> "ignored", from |-> pc]
            /\ UNCHANGED <<cpu, active, call, bus, notices, shadow, nmis, run>>
       ELSE /\ enabled' = FALSE /\ stopped' = FALSE /\ nmiDeferred' = TRUE /\ nmis' = nmis + 1
            /\ active' = TRUE /\ bus' = <<>> /\ call' = Entering
            /\ UNCHANGED <<pc, deferred, last, notices, shadow, run>>

----------------------------------------------------------------------------
(* One transfer: the host completes it, then the log records it.           *)

Transferred(kind) == bus' = Append(bus, kind)
Logged(kind) == Append(call.log, kind)
FetchKind == IF call.kind = "supplied" THEN "acknowledge" ELSE "read"

\* The opcode's first byte.  A read policy counts it now; dispatch waits until the
\* opcode is known; a decoder commits nothing before the whole encoding is.
AdvancesAtRead == Runtime # "decoded" /\ OpcodeAdvance = "read" /\ call.kind = "step"
AdvancesAtDispatch == Runtime # "decoded" /\ OpcodeAdvance = "dispatch" /\ call.kind = "step"
ReadOpcode ==
    /\ call.phase = "opcode"
    /\ Transferred(FetchKind)
    /\ call' = [call EXCEPT !.phase = "dispatch", !.log = Logged(FetchKind), !.bytes = 1]
    /\ pc' = IF AdvancesAtRead THEN Plus(1) ELSE pc
    /\ UNCHANGED <<stopped, enabled, deferred, nmiDeferred, active, last, notices, shadow, nmis, run>>

Prefix ==
    /\ call.phase = "dispatch" /\ Runtime = "decoded" /\ call.bytes = 1
    /\ Transferred(FetchKind)
    /\ call' = [call EXCEPT !.log = Logged(FetchKind), !.bytes = 2]
    /\ UNCHANGED <<cpu, active, last, notices, shadow, nmis, run>>

\* The acknowledged byte and the CPU's mode may select a vectored entry instead.
SelectEntry ==
    /\ call.phase = "dispatch" /\ Runtime = "decoded" /\ call.kind = "supplied" /\ call.bytes = 1
    /\ call' = [call EXCEPT !.kind = "entry", !.phase = "body", !.todo = EntryScript]
    /\ UNCHANGED <<cpu, active, bus, last, notices, shadow, nmis, run>>

Committed == IF Runtime = "decoded" /\ call.kind = "step" THEN (call.from + call.bytes) % Addresses
             ELSE IF AdvancesAtDispatch THEN (call.from + 1) % Addresses ELSE pc
Dispatch ==
    /\ call.phase = "dispatch"
    /\ \E opcode \in Known :
         /\ (Runtime = "decoded") => ((opcode \in Prefixed) = (call.bytes = 2))
         /\ call' = [call EXCEPT !.phase = "body", !.todo = Script(opcode)]
    /\ pc' = Committed
    /\ UNCHANGED <<stopped, enabled, deferred, nmiDeferred, active, bus, last, notices, shadow, nmis, run>>

\* Timed stepping restores the PC that an unknown opcode's read advanced.
UnknownPc == IF call.timed THEN call.from ELSE pc
Unknown ==
    /\ call.phase = "dispatch"
    /\ pc' = UnknownPc
    /\ Ends(IF call.timed THEN "untimed" ELSE "unsupported")
    /\ UNCHANGED <<stopped, enabled, deferred, nmiDeferred, notices, shadow, nmis, run>>

\* The body's next effect.
Next1 == Head(call.todo)
Doing == call.phase = "body" /\ call.todo # <<>>
Rest(log) == [call EXCEPT !.todo = Tail(@), !.log = log]
BodyTransfer ==
    LET kind == IF Next1 = "fetch" THEN FetchKind ELSE Next1
    IN  /\ Doing /\ Next1 \in {"fetch", "read", "write", "port"}
        /\ Transferred(kind)
        /\ call' = Rest(Logged(kind))
        /\ pc' = IF Next1 = "fetch" /\ call.kind = "step" THEN Plus(1) ELSE pc
        /\ UNCHANGED <<stopped, enabled, deferred, nmiDeferred, active, last, notices, shadow, nmis, run>>
BodyEffect ==
    /\ Doing /\ Next1 \in {"jump", "halt", "enable"}
    /\ call' = Rest(call.log)
    /\ pc' \in IF Next1 = "jump" THEN 0..(Addresses - 1) ELSE {pc}
    /\ stopped' = (stopped \/ Next1 = "halt")
    /\ enabled' = (enabled \/ Next1 = "enable")
    /\ UNCHANGED <<deferred, nmiDeferred, active, bus, last, notices, shadow, nmis, run>>
\* Requests to the boundary are kept in the attempt, not in the CPU.
DeferralRequested == deferred
BodyRequest ==
    /\ Doing /\ Next1 \in {"defer", "reti"}
    /\ call' = [Rest(call.log) EXCEPT !.defer = @ \/ Next1 = "defer", !.reti = @ \/ Next1 = "reti"]
    /\ deferred' = DeferralRequested
    /\ UNCHANGED <<pc, stopped, enabled, nmiDeferred, active, bus, last, notices, shadow, nmis, run>>
BodyRejects ==
    /\ Doing /\ Next1 = "reject"
    /\ pc' = call.from
    /\ Ends(IF call.timed THEN "untimed" ELSE "unsupported")
    /\ UNCHANGED <<stopped, enabled, deferred, nmiDeferred, notices, shadow, nmis, run>>

\* Retirement commits the deferral and forgets the previous ones; the device hears
\* of a RETI only afterwards, and cannot undo it.
Notifies == call.reti /\ call.retired
Retire ==
    /\ call.phase = "body" /\ call.todo = <<>> /\ ~call.retired
    /\ call' = [call EXCEPT !.retired = TRUE]
    /\ IF call.kind = "entry" THEN UNCHANGED <<deferred, nmiDeferred, shadow, nmis>>
       ELSE deferred' = call.defer /\ shadow' = call.defer /\ nmiDeferred' = FALSE /\ nmis' = 0
    /\ notices' = notices + (IF call.reti THEN 1 ELSE 0)
    /\ UNCHANGED <<pc, stopped, enabled, active, bus, last, run>>
Notify ==
    /\ call.phase = "body" /\ call.todo = <<>> /\ Notifies
    /\ notices' = notices - 1
    /\ call' = [call EXCEPT !.reti = FALSE]
    /\ UNCHANGED <<cpu, active, bus, last, shadow, nmis, run>>
Finish ==
    /\ call.phase = "body" /\ call.todo = <<>> /\ call.retired /\ ~call.reti
    /\ Ends(CASE call.kind = "entry" -> "accepted" [] stopped -> "halted" [] OTHER -> "executed")
    /\ UNCHANGED <<cpu, notices, shadow, nmis, run>>

\* Any callback may throw: the next transfer, or the notification of a RETI, whose
\* notice is then taken as delivered.
CallbackThrows ==
    \/ /\ \/ call.phase = "opcode"
          \/ Doing /\ Next1 \in {"fetch", "read", "write", "port"}
       /\ Ends("threw") /\ UNCHANGED <<cpu, notices, shadow, nmis, run>>
    \/ /\ call.phase = "body" /\ call.todo = <<>> /\ Notifies
       /\ Ends("threw") /\ notices' = notices - 1 /\ UNCHANGED <<cpu, shadow, nmis, run>>

Boundary ==
    \/ ReadOpcode \/ Prefix \/ SelectEntry \/ Dispatch \/ Unknown \/ BodyTransfer \/ BodyEffect
    \/ BodyRequest \/ BodyRejects \/ Retire \/ Notify \/ Finish \/ CallbackThrows

----------------------------------------------------------------------------
(* The bounded runner: completion first, then the limit, then one step.    *)

RunCalled ==
    /\ ~active /\ ~run.on /\ run' = [on |-> TRUE, taken |-> 0, stop |-> "none"]
    /\ last' = [outcome |-> "none", from |-> pc]
    /\ UNCHANGED <<cpu, active, call, bus, notices, shadow, nmis>>
\* A bug: the limit is tested before the endpoint.
RunStopLimitFirst ==
    IF last.outcome \notin {"none", "executed"} THEN last.outcome
    ELSE IF run.taken = MaxSteps THEN "step-limit"
    ELSE IF pc = EndAddress THEN "completed" ELSE "none"
RunStop ==
    IF last.outcome \notin {"none", "executed"} THEN last.outcome
    ELSE IF pc = EndAddress THEN "completed"
    ELSE IF run.taken = MaxSteps THEN "step-limit" ELSE "none"
RunLoop ==
    /\ run.on /\ ~active
    /\ IF RunStop # "none"
       THEN run' = [run EXCEPT !.on = FALSE, !.stop = RunStop]
            /\ UNCHANGED <<cpu, active, call, bus, last, notices, shadow, nmis>>
       ELSE /\ run' = [run EXCEPT !.taken = @ + 1]
            /\ IF stopped
               THEN last' = [outcome |-> "halted", from |-> pc] /\ UNCHANGED <<active, call, bus>>
               ELSE active' = TRUE /\ call' = NewCall("step", FALSE) /\ bus' = <<>> /\ UNCHANGED last
            /\ UNCHANGED <<cpu, notices, shadow, nmis>>

Next ==
    /\ UNCHANGED family
    /\ \/ \E timed \in BOOLEAN : Step(timed)
       \/ NestedCall \/ Reset \/ Interrupt \/ NonMaskable \/ Boundary \/ RunCalled \/ RunLoop

Spec == Init /\ [][Next]_vars

----------------------------------------------------------------------------
(* Properties.                                                             *)

\* recorded-memory.ts: the record of a boundary lists the transfers the host completed, in
\* order: the one that failed is missing and nothing is invented.  And byte-execution.ts: an
\* attempt that throws, is refused or is unknown neither consumes the deferral of the
\* instruction before it nor commits its own, and lets no second NMI in; a RETI is announced only after it retired; and a
\* refused opcode leaves the PC where its caller expects it.  execution-boundary.ts: the guard
\* is held exactly while a boundary is under way, whatever ended the one before.
AttemptsAreRecorded ==
    /\ active = (call # Idle)
    /\ call # Idle => call.log = bus
    /\ deferred = shadow /\ nmiDeferred = (nmis = 1) /\ nmis <= 1
    /\ notices \in 0..1 /\ (notices = 1 => call # Idle /\ call.retired)
    /\ ~active /\ last.outcome = "untimed" => pc = last.from
    /\ ~active /\ last.outcome = "unsupported" =>
         pc \in {last.from} \cup (IF OpcodeAdvance = "read" THEN {(last.from + 1) % Addresses} ELSE {})

\* run-cpu.ts: the runner reports a terminal record before the endpoint, and the endpoint
\* before its limit.
RunReports ==
    [][run.on /\ ~run'.on =>
         /\ run'.stop = "step-limit" => run.taken = MaxSteps /\ pc # EndAddress
         /\ run'.stop = "completed" => pc = EndAddress /\ last.outcome \in {"none", "executed"}]_vars
=============================================================================
