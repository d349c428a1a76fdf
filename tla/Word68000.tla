------------------------------ MODULE Word68000 ------------------------------
(***************************************************************************)
(* The 68000's execution boundaries: word-execution.ts (fetch, dispatch,   *)
(* retirement, owed traces), word-events.ts (exception, memory-error and   *)
(* interrupt entry), word-memory.ts (bus faults) and word-runtime.ts       *)
(* (step, reset, interrupt).  Registers and memory are abstracted to what  *)
(* the boundaries test: alignment, mode, mask and latches.  Every transfer *)
(* may succeed, report a bus error, or throw in the host.                  *)
(***************************************************************************)
EXTENDS Naturals

CONSTANTS Levels, Masks   \* offered interrupt levels, masks a program selects

VARIABLES
    cpu,     \* the CPU's latches
    did,     \* what the last call did (history)
    owed,    \* a traced instruction completed and its trace is due (history)
    chain    \* memory-error entries since the last opcode or acknowledgement (history)

vars == <<cpu, did, owed, chain>>

Sources == {"restart", "complete"}     \* where an exception resumes
Kinds == {"none", "exception", "trap", "fault", "reset"}

NewCpu == [s |-> TRUE, t |-> FALSE, mask |-> 7, stopped |-> FALSE, tracePending |-> FALSE,
           faulted |-> FALSE, kind |-> "none", oddPc |-> FALSE, oddStack |-> FALSE]

Init == cpu = NewCpu /\ did = "nothing" /\ owed = FALSE /\ chain = 0

\* Only an explicit bus error unwinds into the CPU; a host exception escapes.
Transfer == {"ok", "bus", "host"}

\* A result: the CPU, how the call ended, and memory-error frames it began.
Result(c, how, frames) == [cpu |-> c, how |-> how, frames |-> frames]

----------------------------------------------------------------------------
(* Entry phases (wordEvents).                                              *)

Prepared(c) == [c EXCEPT !.s = TRUE, !.t = FALSE, !.stopped = FALSE, !.tracePending = FALSE]
Halted(c) == [c EXCEPT !.faulted = TRUE]

\* Reading a vector commits the handler's PC, whatever it is, and then checks it.
Loaded(c) == {[c EXCEPT !.oddPc = odd] : odd \in BOOLEAN}

MemoryError(c) ==
    LET begun == [Prepared(c) EXCEPT !.kind = "fault"]
        n == IF begun.oddStack THEN 0 ELSE 1
    IN  IF begun.oddStack THEN {Result(Halted(begun), "halted", n)}
        ELSE {Result(Halted(begun), "halted", n), Result(begun, "threw", n)}
             \cup {Result(IF d.oddPc THEN Halted(d) ELSE d, "faulted", n) : d \in Loaded(begun)}

\* The short frame and its vector; any fault in them enters a memory error.
Finish(c, completed) ==
    LET entered == [c EXCEPT !.kind = IF completed THEN "trap" ELSE "exception"]
    IN  IF c.oddStack THEN MemoryError(c)
        ELSE {Result(c, "threw", 0)} \cup MemoryError(c)
             \cup {Result([entered EXCEPT !.oddPc = FALSE], "delivered", 0)}
             \cup MemoryError([c EXCEPT !.oddPc = TRUE])

Exception(c, source) == Finish(Prepared(c), source = "complete")

\* A first fetch that fails after reset or memory-error entry stops the CPU.
\* A bug: only a fault's own entry is terminal, not a reset's.
TerminalAfterFault(c) == c.kind = "fault"
TerminalInitialFetch(c) == c.kind \in {"reset", "fault"}
InitialFetch(c) == IF TerminalInitialFetch(c) THEN {Result(Halted(c), "halted", 0)} ELSE MemoryError(c)

----------------------------------------------------------------------------
(* One step (wordExecution).                                               *)

BeginInstruction(c) == [c EXCEPT !.kind = "none"]

\* What an instruction leaves at retirement: a supervisor program may load the
\* status register, stop or move its stack; a taken target is even.
StatusRegister == [s : BOOLEAN, t : BOOLEAN, mask : Masks]
Executed(c) ==
    {c} \cup
    (IF c.s THEN {[c EXCEPT !.s = sr.s, !.t = sr.t, !.mask = sr.mask] : sr \in StatusRegister}
                 \cup {[c EXCEPT !.stopped = TRUE, !.t = sr.t, !.mask = sr.mask] : sr \in StatusRegister}
                 \cup {[c EXCEPT !.oddStack = odd] : odd \in BOOLEAN}
     ELSE {})

Traced(r, sampled) == [r EXCEPT !.cpu.tracePending = sampled]

\* What a delivered entry leaves: a trace is owed after the trap of a traced instruction.
Entry(r, source, sampled) == IF r.how = "delivered" THEN Traced(r, sampled /\ source = "complete") ELSE r
Dispatched(c, sampled) ==
    LET b == BeginInstruction(c)
    IN  {Result(b, "threw", 0)} \cup MemoryError(b)
        \cup (UNION {{Entry(r, source, sampled) : r \in Exception(b, source)} : source \in Sources})
        \cup {Traced(Result(e, "retired", 0), sampled) : e \in Executed(b)}

Records(r, what) ==
    /\ cpu' = r.cpu
    /\ did' = what

\* The chain of memory-error entries starts again at a complete opcode.
Chained(n, frames) == n + frames

StepTrace ==
    /\ ~cpu.faulted /\ cpu.tracePending
    /\ \E r \in Exception(cpu, "restart") :
         /\ Records(r, "trace") /\ owed' = FALSE
         /\ chain' = Chained(chain, r.frames)

StepIdle ==
    /\ cpu.faulted \/ (~cpu.tracePending /\ cpu.stopped)
    /\ did' = "idle" /\ UNCHANGED <<cpu, owed, chain>>

Runs == ~cpu.faulted /\ ~cpu.tracePending /\ ~cpu.stopped

\* The first word cannot be fetched, or the host throws while it is.
StepFailsToFetch ==
    /\ Runs
    /\ \/ \E r \in InitialFetch(cpu) :
            Records(r, "fetch failed") /\ chain' = Chained(chain, r.frames)
       \/ ~cpu.oddPc /\ did' = "threw" /\ UNCHANGED <<cpu, chain>>
    /\ owed' = FALSE

\* A complete opcode: dispatched with the trace sampled before any transfer.
StepExecutes ==
    /\ Runs /\ ~cpu.oddPc
    /\ \E r \in Dispatched(cpu, cpu.t) :
         /\ Records(r, r.how)
         /\ owed' = (cpu.t /\ (r.how = "retired" \/ (r.how = "delivered" /\ r.cpu.kind = "trap")))
         /\ chain' = r.frames

----------------------------------------------------------------------------
(* Interrupt offers and external reset.                                    *)

\* Terminal halt, an owed trace and then the mask reject an offer.
Gate(level) == cpu.faulted \/ cpu.tracePending \/ (level # 7 /\ level <= cpu.mask)

InterruptIgnored(level) == Gate(level) /\ did' = "ignored" /\ UNCHANGED <<cpu, owed, chain>>

Accepted(c, level) == [c EXCEPT !.mask = level]

\* An odd stack is found before the device is asked; an acknowledgement that
\* throws or answers nonsense leaves the entry prepared.
InterruptOffered(level) ==
    /\ ~Gate(level)
    /\ IF cpu.oddStack
       THEN \E r \in MemoryError(Prepared(cpu)) :
              Records(r, "no acknowledgement") /\ chain' = Chained(chain, r.frames)
       ELSE LET c == Accepted(Prepared(cpu), level)
            IN  \E r \in {Result(c, "threw", 0)} \cup Finish(c, FALSE) :
                  Records(r, "acknowledged") /\ chain' = r.frames
    /\ owed' = FALSE

\* Vectors load as far as they can; a modelled failure leaves the CPU halted, a
\* host exception leaves every latch as it was.
Reset ==
    \E oddStack, oddPc, failed \in BOOLEAN :
      /\ cpu' = [s |-> TRUE, t |-> FALSE, mask |-> 7, stopped |-> FALSE, tracePending |-> FALSE,
                 faulted |-> failed \/ oddPc, kind |-> "reset",
                 oddPc |-> oddPc, oddStack |-> oddStack]
      /\ did' = "reset" /\ owed' = FALSE /\ chain' = 1
ResetThrows ==
    \E oddStack \in BOOLEAN :
      cpu' = [cpu EXCEPT !.oddStack = oddStack] /\ did' = "reset threw" /\ UNCHANGED <<owed, chain>>

Next ==
    \/ StepTrace \/ StepIdle \/ StepFailsToFetch \/ StepExecutes
    \/ \E level \in Levels : InterruptIgnored(level) \/ InterruptOffered(level)
    \/ Reset \/ ResetThrows

Spec == Init /\ [][Next]_vars

----------------------------------------------------------------------------
(* Properties.                                                             *)

\* Every latch stays in its domain.
WordTypeOK ==
    /\ cpu \in [s : BOOLEAN, t : BOOLEAN, mask : Masks \cup Levels \cup {7}, stopped : BOOLEAN,
                tracePending : BOOLEAN, faulted : BOOLEAN, kind : Kinds,
                oddPc : BOOLEAN, oddStack : BOOLEAN]
    /\ owed \in BOOLEAN /\ chain \in 0..2

\* word-events.ts: a second bus or address error before any opcode of the handler, or after a
\* reset, stops the CPU instead of writing another frame; and until its handler's first
\* opcode an entered exception is in supervisor mode, untraced and running.
EntriesAreSound ==
    /\ chain <= 1
    /\ cpu.kind \in {"exception", "trap", "fault"} => cpu.s /\ ~cpu.t /\ ~cpu.stopped

\* word-execution.ts: a trace is owed exactly after an instruction that began with T set and
\* completed, whatever trap, fault, offer or reset comes between, and a handler that is
\* entered with one owed was entered by the trap of that instruction.
TraceOnce ==
    /\ cpu.tracePending = owed
    /\ cpu.tracePending => cpu.kind \in {"none", "trap"}
=============================================================================
