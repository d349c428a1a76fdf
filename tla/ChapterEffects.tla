------------------------------ MODULE ChapterEffects ------------------------------
(***************************************************************************)
(* The checks of the chapter compiler on what a body does (cpus/semantics/ *)
(* literate): an instruction family, or an action bound to a slot of an    *)
(* execution contract, is accepted only when the boundary that will run it *)
(* supplies each of its effects and understands each of its outcomes.      *)
(*                                                                         *)
(* The checks read statements; the properties follow the paths on which    *)
(* the shared runtimes execute them.  A statement is its kind and, when it *)
(* has any, its bodies; widths, names and values are left to the validator *)
(* (SemanticStatements).                                                   *)
(***************************************************************************)
EXTENDS Naturals, Sequences, FiniteSets

CONSTANTS
    Steps,      \* the statements bodies are made of
    Roles,      \* what the bodies are for: an instruction family of an execution contract or the
                \* action of one of its slots; the contract's mode, and whether it has timing, IRQ
                \* deferral and RETI notification; whether the body is composed into another
    MaxSteps    \* bound: statements at the top of a body

VARIABLES role, body
vars == <<role, body>>

Pure == {"capture"}                        \* capture and every read of stored state
Memory == {"read-memory", "write-memory"}
Ports == {"read-port", "write-port"}
Staging == {"read-pending-register", "stage-register"}
Cursor == {"read-next-address", "select-target", "reset-devices", "resolve-address", "commit-address-updates"}
Boundary == {"read-test", "send-escape", "report-interrupt", "notify-reti",
             "defer irq", "defer intr", "defer all"}
Clocks == {"report-clocks", "report-clocks when", "add-clocks"}

----------------------------------------------------------------------------
(* The checks.                                                             *)

\* Effects: stored state only, or with capabilities.  A view may not write; "data-memory" is
\* the memory of an execution contract, which has no program space.
View == [writes |-> FALSE, data |-> FALSE, using |-> {}]
State == [writes |-> TRUE, data |-> FALSE, using |-> {}]
DataMemory == [writes |-> TRUE, data |-> TRUE, using |-> {"memory"}]
Using(capabilities) == [writes |-> TRUE, data |-> FALSE, using |-> capabilities]
Capabilities == {"memory", "boundary", "staging", "alignment"}

RECURSIVE StateEffects(_, _, _), SegmentedEffects(_, _, _, _, _), TimingPreparation(_), ByteEffects(_, _),
          VectorTiming(_), WordEffects(_, _), UsesMemory(_), Composes(_, _)
AllBodies(step, check(_)) == \A i \in DOMAIN step.bodies : check(step.bodies[i])

StateEffects(steps, effects, matches) ==
    \A i \in DOMAIN steps :
        LET step == steps[i]
            kind == step.kind
        IN  CASE kind \in Pure -> TRUE
              [] kind = "write" -> effects.writes
              [] kind = "read-program-memory" -> ~effects.data /\ "memory" \in effects.using
              [] kind \in Memory -> "memory" \in effects.using
              [] kind = "alignment-fault" -> "alignment" \in effects.using
              [] kind \in Staging -> "staging" \in effects.using
              [] kind \in Boundary -> "boundary" \in effects.using
              [] kind = "match" -> effects.writes /\ matches
                                   /\ AllBodies(step, LAMBDA b : StateEffects(b, effects, matches))
              [] kind \in {"choose", "when", "iterate", "perform", "read-source"} ->
                   AllBodies(step, LAMBDA b : StateEffects(b, effects, matches))
              [] OTHER -> FALSE

\* Reusable bodies start without a clock declaration of their own.
DeclaresClocks(steps, before) ==
    before \/ \E i \in DOMAIN steps : steps[i].kind \in {"report-clocks", "report-clocks when"}
SegmentedFault == "divide-error"
SegmentedEffects(steps, scope, declared, continuation, timing) ==
    \A i \in DOMAIN steps :
        LET step == steps[i]
            kind == step.kind
            earlier == DeclaresClocks(SubSeq(steps, 1, i - 1), declared)
            into(inner, clocks) ==
                AllBodies(step, LAMBDA b : SegmentedEffects(b, inner, clocks, continuation, timing))
        IN  CASE kind \in {"choose", "when", "iterate"} -> into("branch", earlier)
              [] kind = "match" -> ~continuation /\ into("branch", earlier)
              [] kind \in {"read-source", "perform"} -> into("reusable", FALSE)
              [] kind \in Pure \cup {"write", "read-test", "defer intr", "defer all"} -> TRUE
              [] kind \in {"report-clocks", "report-clocks when"} -> timing /\ ~continuation /\ scope = "family"
              [] kind = "add-clocks" -> earlier /\ ~continuation
              [] kind \in {"fetch-byte", "send-escape", "report-interrupt"} \cup Memory \cup Ports -> ~continuation
              [] kind = "reject" -> ~continuation /\ step.reason \in {SegmentedFault, "opcode", "unsupported"}
              [] kind = "divide" -> ~continuation /\ step.reason = SegmentedFault
              [] OTHER -> FALSE

\* Before a partial clock declaration a family may only read state, fetch and reject.
TimingPreparation(steps) ==
    \A i \in DOMAIN steps :
        \/ steps[i].kind \in Pure \cup {"fetch-byte", "reject"}
        \/ /\ steps[i].kind \in {"read-source", "choose", "when", "match"}
           /\ AllBodies(steps[i], TimingPreparation)

ByteEffects(steps, r) ==
    \A i \in DOMAIN steps :
        LET kind == steps[i].kind
        IN  CASE kind \in Pure \cup {"write", "fetch-byte", "fetch-word"} \cup Memory -> TRUE
              [] kind \in Clocks -> r.timed
              [] kind \in Ports -> r.mode # "vectors"
              [] kind = "defer irq" -> r.deferral
              [] kind = "notify-reti" -> r.mode = "decoded" /\ r.reti
              [] kind = "match" -> r.mode # "decoded" /\ AllBodies(steps[i], LAMBDA b : ByteEffects(b, r))
              [] kind \in {"choose", "when", "iterate", "read-source", "perform"} ->
                   AllBodies(steps[i], LAMBDA b : ByteEffects(b, r))
              [] OTHER -> FALSE

HasBodies(step) == "bodies" \in DOMAIN step
\* A vector family starts with its whole base, and nothing after it declares another.
VectorTiming(steps) ==
    \A i \in DOMAIN steps :
        /\ steps[i].kind \notin {"report-clocks", "report-clocks when"}
        /\ HasBodies(steps[i]) => AllBodies(steps[i], VectorTiming)
TimedVector(steps) == steps # <<>> /\ steps[1].kind = "report-clocks" /\ VectorTiming(Tail(steps))

WordExceptions == {"trap"}
WordEffects(steps, context) ==
    \A i \in DOMAIN steps :
        LET step == steps[i]
        IN  /\ step.kind \notin {"fetch-byte"} \cup Ports \cup Boundary
            /\ step.kind \in Staging => context = "address"
            /\ step.kind \in {"resolve-address", "commit-address-updates"} => context = "instruction"
            /\ step.kind \in {"reject", "divide"} => step.reason \in WordExceptions \cup {"unsupported"}
            /\ HasBodies(step) => AllBodies(step, LAMBDA b : WordEffects(b, context))

UsesMemory(steps) ==
    \E i \in DOMAIN steps :
        \/ steps[i].kind \in Memory \cup {"read-program-memory"}
        \/ HasBodies(steps[i]) /\ \E j \in DOMAIN steps[i].bodies : UsesMemory(steps[i].bodies[j])

\* What the declarations that come first require: an effect needs its kind of CPU boundary, a
\* composed body cannot reject but through a match, and an action names its capabilities.
Connected(kind, r) ==
    CASE kind \in Cursor \cup {"read-program-memory", "alignment-fault"} -> r.mode = "word"
      [] kind \in {"read-test", "send-escape", "report-interrupt", "defer intr", "defer all"} -> r.mode = "segmented"
      [] kind = "defer irq" -> r.deferral
      [] kind = "notify-reti" -> r.reti
      [] OTHER -> TRUE
Composes(steps, r) ==
    \A i \in DOMAIN steps :
        LET step == steps[i]
            inner == IF step.kind \in {"perform", "read-source"} THEN [r EXCEPT !.composed = TRUE] ELSE r
        IN  /\ Connected(step.kind, r)
            /\ r.composed => step.kind \notin {"reject", "divide", "alignment-fault"}
            /\ HasBodies(step) => AllBodies(step, LAMBDA b : Composes(b, inner))
            /\ step.kind = "perform" => StateEffects(step.bodies[1], Using(Capabilities), TRUE)

FamilyFits(r, steps) ==
    CASE r.mode = "segmented" ->
           LET reports == {i \in DOMAIN steps : steps[i].kind \in {"report-clocks", "report-clocks when"}}
           IN  /\ SegmentedEffects(steps, "family", FALSE, FALSE, r.timed)
               /\ Cardinality(reports) <= 1
               /\ \A i \in reports : TimingPreparation(SubSeq(steps, 1, i - 1))
      [] r.mode = "word" -> WordEffects(steps, "instruction")
      [] OTHER -> ByteEffects(steps, r) /\ (r.timed => TimedVector(steps))

\* The slots of the contracts; two kinds of entry leave the default, which allows matches.
HookFits(slot, steps) ==
    CASE slot = "state" -> StateEffects(steps, State, FALSE)
      [] slot \in {"vector reset", "segmented entry"} -> StateEffects(steps, DataMemory, FALSE)
      [] slot \in {"offer entry", "word frame"} -> StateEffects(steps, Using({"memory"}), FALSE)
      [] slot \in {"vector entry", "decoded entry"} -> StateEffects(steps, DataMemory, TRUE)
      [] slot \in {"vector resume", "decoded accept"} -> StateEffects(steps, State, TRUE)
      [] slot = "continuation" -> SegmentedEffects(steps, "family", FALSE, TRUE, FALSE)
      [] slot = "stack check" -> StateEffects(steps, Using({"alignment"}), FALSE)
      [] slot \in {"word vector", "reset attempt"} -> StateEffects(steps, Using({"memory", "alignment"}), FALSE)
      [] slot = "view" -> StateEffects(steps, View, TRUE)
      [] slot = "address source" -> WordEffects(steps, "address")

Accepted(r, steps) ==
    /\ Composes(steps, [r EXCEPT !.composed = r.slot \in {"view", "address source"}])
    /\ IF r.slot = "family" THEN FamilyFits(r, steps)
       ELSE HookFits(r.slot, steps)
            /\ (r.slot \notin {"view", "address source"} => StateEffects(steps, Using(Capabilities), TRUE))

----------------------------------------------------------------------------
(* Execution by the shared runtimes.                                       *)

\* What the runtime hands to the generated body.
Supplies(r, steps) ==
    LET deferral == IF r.deferral THEN {"defer irq"} ELSE {}
        bytes == {"fetch-byte", "fetch-word"} \cup Memory
        segmented == {"fetch-byte", "read-test", "send-escape", "report-interrupt", "defer intr", "defer all"}
                     \cup Memory \cup Ports
        words == {"fetch-word", "read-program-memory", "read-next-address", "select-target", "reset-devices"} \cup Memory
    IN  CASE r.slot = "continuation" -> segmented
          [] r.slot = "address source" -> words \cup Staging
          [] r.slot = "view" -> {}
          [] r.slot # "family" ->
               (IF UsesMemory(steps) THEN Memory \cup (IF r.mode = "word" THEN {"read-program-memory"} ELSE {}) ELSE {})
               \cup {"write"}
          [] r.mode = "supplied" -> bytes \cup Ports \cup deferral
          [] r.mode = "vectors" -> bytes
          [] r.mode = "decoded" -> bytes \cup Ports \cup deferral \cup (IF r.reti THEN {"notify-reti"} ELSE {})
          [] r.mode = "segmented" -> segmented
          [] r.mode = "word" -> words \cup {"resolve-address", "commit-address-updates"}
\* The results it acts on; any other is dropped, or has no handler.
Understands(r) ==
    CASE r.slot \in {"stack check", "word vector", "reset attempt"} -> {"alignment-fault"}
      [] r.slot = "address source" -> {"unsupported"}
      [] r.slot # "family" -> {}
      [] r.mode = "vectors" -> {"unsupported"}
      [] r.mode = "segmented" -> {"unsupported", "opcode", SegmentedFault}
      [] r.mode = "word" -> WordExceptions \cup {"unsupported", "alignment-fault"}
      [] OTHER -> {}

\* An outcome: how often base clocks were reported, whether state, memory or a device was
\* touched, and how the body ended.
Started == [clocks |-> 0, touched |-> FALSE, end |-> "going"]
Ended(o, how) == [o EXCEPT !.end = how]

RECURSIVE Follow(_, _, _)
Effect(kind, o, r) ==
    CASE kind \in Pure -> {o}
      [] kind = "write" -> {[o EXCEPT !.touched = TRUE]}
      [] kind \in Clocks /\ ~r.timed -> {o}
      [] kind = "report-clocks" -> {[o EXCEPT !.clocks = @ + 1]}
      [] kind = "report-clocks when" ->
           {[o EXCEPT !.clocks = @ + 1], Ended(o, IF r.mode = "segmented" THEN "untimed" ELSE "threw")}
      [] kind = "add-clocks" -> {IF o.clocks = 0 THEN Ended(o, "threw") ELSE o}
      [] kind = "alignment-fault" -> {Ended(o, kind), o}
      [] kind \in r.supplied -> {[o EXCEPT !.touched = @ \/ kind \notin {"fetch-byte", "fetch-word"}]}
      [] OTHER -> {Ended(o, "threw")}
After(step, o, r) ==
    LET through(b, from) == UNION {Follow(b, p, r) : p \in from}
    IN  IF o.end # "going" THEN {o}
        ELSE CASE step.kind = "when" -> {o} \cup through(step.bodies[1], {o})
               [] step.kind = "iterate" ->
                    LET once == through(step.bodies[1], {o})
                    IN  {o} \cup once \cup through(step.bodies[1], once)
               [] step.kind \in {"choose", "perform", "read-source"} ->
                    UNION {through(step.bodies[i], {o}) : i \in DOMAIN step.bodies}
               [] step.kind = "match" ->
                    {Ended(o, "unsupported")} \cup UNION {through(step.bodies[i], {o}) : i \in DOMAIN step.bodies}
               [] step.kind = "reject" -> {Ended(o, step.reason)}
               [] step.kind = "divide" -> {o, Ended(o, step.reason)}
               [] OTHER -> Effect(step.kind, o, r)
Follow(steps, o, r) ==
    IF steps = <<>> THEN {o}
    ELSE UNION {Follow(Tail(steps), p, r) : p \in After(Head(steps), o, r)}

\* stepTimed(): a segmented family that declares no clocks, or faults before it did, is
\* refused with nothing done.  An encoding rejected by the body itself keeps that end here,
\* though stepTimed() refuses it with the same exception.
Outcomes(r, steps) ==
    LET timedHere == r.mode = "segmented" /\ r.timed
        declared == DeclaresClocks(steps, FALSE)
        all == Follow(steps, Started, [timed |-> r.timed, mode |-> r.mode, supplied |-> Supplies(r, steps)])
        closed(o) == IF timedHere /\ o.clocks = 0 /\ o.end \notin {"threw", "opcode", "unsupported"}
                     THEN Ended(o, "untimed") ELSE o
    IN  IF timedHere /\ ~declared THEN {Ended(Started, "untimed")} ELSE {closed(o) : o \in all}

----------------------------------------------------------------------------
Init == role \in Roles /\ body = <<>>
\* chapterStatements: another statement of the body.
Append1(step) == Len(body) < MaxSteps /\ body' = Append(body, step) /\ UNCHANGED role
\* compileCpuChapter: the body of the next declaration.
NextBody == body # <<>> /\ body' = <<>> /\ UNCHANGED role
Next == NextBody \/ \E step \in Steps : Append1(step)
Spec == Init /\ [][Next]_vars

----------------------------------------------------------------------------
(* Properties.                                                             *)

\* The boundary serves what the compiler accepts: on no path does a body call a method its
\* runtime does not supply or end in an outcome nobody declared; with timing, the base clocks
\* of an instruction are reported exactly once, before any addition, and an instruction that is
\* refused for want of timing has changed no state and touched no memory or device.
BoundaryServes ==
    Accepted(role, body) =>
        \A o \in Outcomes(role, body) :
            /\ o.end \in {"going", "untimed", "unsupported"} \cup Understands(role)
            /\ o.end = "untimed" => ~o.touched
            /\ o.end = "going" /\ role.timed => o.clocks = 1

\* docs/cpus/literate-specifications.md: actions selected by an execution contract, external
\* entry and acceptance among them, cannot reject, through a source or another action either,
\* because those boundaries cannot consume an instruction's unsupported result.
EntriesCannotReject ==
    role.slot # "family" /\ Accepted(role, body) =>
        \A o \in Outcomes(role, body) : o.end = "unsupported" => "unsupported" \in Understands(role)
=============================================================================
