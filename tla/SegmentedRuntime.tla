--------------------------- MODULE SegmentedRuntime ---------------------------
(***************************************************************************)
(* The 8088's execution boundary, callback by callback:                    *)
(* segmented-execution.ts (owed traps, WAIT, prefixes, one body, faults,   *)
(* retirement, timed steps), vector-offers.ts (INTR and NMI) and           *)
(* coprocessor-access.ts (TEST and ESC), run with the policy the 8088's    *)
(* chapter declares.  Memory, ports, the acknowledgement and the           *)
(* coprocessor are host callbacks: each may answer or throw.               *)
(***************************************************************************)
EXTENDS Integers, Sequences, Cpu8088

CONSTANTS
    Offsets,        \* IP is in 0 .. Offsets - 1 and wraps
    PrefixLimit     \* instruction bytes after which only prefixes is a refusal

VARIABLES
    chip, ip,    \* stored CPU state
    attempt,     \* the boundary under way, or NoAttempt
    wires,       \* transfers the host completed during it
    answer       \* the record of the last boundary that returned

sixteen == <<chip, ip, attempt, wires, answer>>

NoAttempt == [kind |-> "none"]
Init ==
    /\ chip = ResetState /\ ip = 0 /\ attempt = NoAttempt /\ wires = <<>>
    /\ answer = [how |-> "none"]

Past(from, n) == (from + n) % Offsets

\* The clock costs: of a prefix, of an owed trap, and of an instruction.
PrefixClocks == 2
PendingClocks == 70
Clocks == 5
Addition == 1

\* interrupt entry: the vector is read before anything is changed, the flags and
\* latches are cleared before the frame is pushed, CS:IP is replaced last.
EntryScript == <<"read", "mask", "write", "jump">>

\* Instructions as their lists of effects.  "clocks" reports the published cost, "more"
\* an addition, "unpublished" is a group form without one.
Instruction(opcode) ==
    CASE opcode = "store"  -> <<"clocks", "fetch", "more", "write">>
      [] opcode = "group"  -> <<"fetch", "unpublished", "port">>
      [] opcode = "silent" -> <<"fetch">>
      [] opcode = "sti"    -> <<"clocks", "sti">>
      [] opcode = "segment" -> <<"clocks", "read", "delay">>
      [] opcode = "popf"   -> <<"clocks", "read", "flags">>
      [] opcode = "hlt"    -> <<"clocks", "halt">>
      [] opcode = "wait"   -> <<"test">>
      [] opcode = "esc"    -> <<"clocks", "fetch", "read", "escape">>
      [] opcode = "int"    -> <<"clocks", "fetch">> \o EntryScript \o <<"report">>
      [] opcode = "div"    -> <<"clocks", "fetch", "divide">>
      [] opcode = "string" -> <<"clocks", "write", "again">>
      [] opcode = "aam"    -> <<"fetch", "refuse">>
Opcodes == {"store", "group", "silent", "sti", "segment", "popf", "hlt", "wait", "esc", "int",
            "div", "string", "aam"}
Timed == Opcodes \ {"wait"}
Repeated == {"string"}

----------------------------------------------------------------------------
(* Boundaries.                                                             *)

NewAttempt(kind, timed, todo) ==
    [kind |-> kind, timed |-> timed, from |-> ip, was |-> chip, log |-> <<>>, todo |-> todo,
     bytes |-> 0, repeat |-> FALSE, prefixes |-> 0, clocks |-> 0, intr |-> FALSE, all |-> FALSE,
     vector |-> "none"]

Answers(how) ==
    /\ attempt' = NoAttempt /\ wires' = <<>>
    /\ answer' = [how |-> how, kind |-> attempt.kind, from |-> attempt.from, was |-> attempt.was,
                  vector |-> attempt.vector, clocks |-> attempt.clocks,
                  prefixes |-> attempt.prefixes, timed |-> attempt.timed]

Step(timed) ==
    /\ attempt = NoAttempt
    /\ \/ /\ TrapDue(chip)
          /\ chip' = BeginTrap(chip)
          /\ attempt' = [NewAttempt("trap", timed, EntryScript) EXCEPT
                            !.vector = "trap", !.clocks = IF timed THEN PendingClocks ELSE 0]
          /\ UNCHANGED <<ip, wires, answer>>
       \/ /\ ~TrapDue(chip) /\ (chip.halted \/ (chip.waiting /\ timed))
          /\ answer' = [how |-> IF chip.halted THEN "halted" ELSE "untimed", kind |-> "step",
                        from |-> ip, was |-> chip, vector |-> "none", clocks |-> 0, prefixes |-> 0,
                        timed |-> timed]
          /\ UNCHANGED <<chip, ip, attempt, wires>>
       \/ /\ ~TrapDue(chip) /\ ~chip.halted /\ ~(chip.waiting /\ timed)
          /\ attempt' = IF chip.waiting THEN NewAttempt("resume", timed, <<"test">>)
                        ELSE NewAttempt("step", timed, <<>>)
          /\ UNCHANGED <<chip, ip, wires, answer>>

\* Gate first, then the callback, then acceptance, then the vector, then its entry.
Eligible(source) == IF source = "nmi" THEN NmiEligible(chip) ELSE IntrEligible(chip)
Offer(source, connected) ==
    /\ attempt = NoAttempt
    /\ IF Eligible(source) /\ (source = "nmi" \/ connected)
       THEN /\ chip' = AcceptInterrupt(chip)
            /\ attempt' = [NewAttempt("offer", FALSE,
                             (IF source = "nmi" THEN <<>> ELSE <<"acknowledge">>) \o EntryScript)
                           EXCEPT !.vector = source]
            /\ UNCHANGED <<ip, wires, answer>>
       ELSE /\ answer' = [how |-> IF Eligible(source) THEN "threw" ELSE "ignored", kind |-> "refusal",
                          from |-> ip, was |-> chip, vector |-> "none", clocks |-> 0, prefixes |-> 0,
                          timed |-> FALSE]
            /\ UNCHANGED <<chip, ip, attempt, wires>>

Reset ==
    /\ attempt = NoAttempt /\ chip' = ResetState /\ ip' = 0
    /\ answer' = [how |-> "reset"] /\ UNCHANGED <<attempt, wires>>

----------------------------------------------------------------------------
(* Fetching: each completed byte advances the live IP.                     *)

Completed(kind) == wires' = Append(wires, kind)
With(kind) == Append(attempt.log, kind)

Fetching == attempt.kind = "step" /\ attempt.todo = <<>> /\ attempt.bytes = attempt.prefixes
Prefix ==
    /\ Fetching /\ attempt.bytes < PrefixLimit
    /\ Completed("read") /\ ip' = Past(ip, 1)
    /\ \E repeat \in {attempt.repeat, TRUE} :
         attempt' = [attempt EXCEPT !.log = With("read"), !.bytes = @ + 1, !.prefixes = @ + 1,
                                    !.repeat = repeat]
    /\ UNCHANGED <<chip, answer>>

\* A refused opcode, timed or not, leaves the IP at the first prefix.
Published(opcode) == opcode \in Timed /\ (attempt.repeat => opcode \in Repeated)
Handled(opcode) == opcode \in Opcodes /\ (attempt.repeat => opcode \in Repeated)
Opcode(opcode) ==
    /\ Fetching /\ attempt.bytes < PrefixLimit
    /\ IF attempt.timed => Published(opcode)
       THEN IF Handled(opcode)
            THEN /\ Completed("read") /\ ip' = Past(ip, 1)
                 /\ attempt' = [attempt EXCEPT !.log = With("read"), !.bytes = @ + 1,
                                               !.todo = Instruction(opcode)]
                 /\ UNCHANGED answer
            ELSE Answers("unsupported") /\ ip' = attempt.from
       ELSE Answers("untimed") /\ ip' = attempt.from
    /\ UNCHANGED chip
OnlyPrefixes ==
    /\ Fetching /\ attempt.bytes = PrefixLimit
    /\ Answers(IF attempt.timed THEN "untimed" ELSE "unsupported") /\ ip' = attempt.from
    /\ UNCHANGED chip

----------------------------------------------------------------------------
(* The body's effects.                                                     *)

Effect == Head(attempt.todo)
Doing == attempt # NoAttempt /\ attempt.todo # <<>>
Transfers == {"fetch", "read", "write", "port", "escape", "acknowledge", "test"}
After == [attempt EXCEPT !.todo = Tail(@)]

Transfer ==
    /\ Doing /\ Effect \in Transfers \ {"test"}
    /\ LET kind == IF Effect = "fetch" THEN "read" ELSE Effect
       IN  Completed(kind) /\ attempt' = [After EXCEPT !.log = With(kind), !.bytes = @ + (IF Effect = "fetch" THEN 1 ELSE 0)]
    /\ ip' = IF Effect = "fetch" THEN Past(ip, 1) ELSE ip
    /\ UNCHANGED <<chip, answer>>

\* pollWait: a high TEST keeps the IP at the WAIT, a low one delays recognition.
PollWait(high) ==
    /\ Doing /\ Effect = "test"
    /\ Completed("test")
    /\ chip' = Polled(chip, high)
    /\ ip' = IF high /\ attempt.kind = "step" THEN Past(ip, Offsets - 1)
             ELSE IF ~high /\ attempt.kind = "resume" THEN Past(ip, 1) ELSE ip
    /\ attempt' = [After EXCEPT !.log = With("test"), !.all = ~high]
    /\ UNCHANGED answer

\* reportClocks: an unpublished cost refuses the attempt, an addition follows a cost.
ReportClocks ==
    /\ Doing /\ Effect \in {"clocks", "more"}
    /\ attempt' = IF attempt.timed
                  THEN [After EXCEPT !.clocks = IF Effect = "more" THEN @ + Addition
                                                ELSE PrefixClocks * attempt.prefixes + Clocks]
                  ELSE After
    /\ UNCHANGED <<chip, ip, wires, answer>>
Unpublished ==
    /\ Doing /\ Effect = "unpublished"
    /\ IF attempt.timed THEN Answers("untimed") /\ ip' = attempt.from
       ELSE attempt' = After /\ UNCHANGED <<ip, wires, answer>>
    /\ UNCHANGED chip

Register ==
    /\ Doing /\ Effect \in {"mask", "jump", "halt", "delay", "sti", "flags", "report", "again"}
    /\ \E tf, if \in BOOLEAN :
         /\ chip' = CASE Effect = "mask"  -> EnterInterrupt(chip)
                      [] Effect = "halt"  -> Stopped(chip)
                      [] Effect = "sti"   -> SetInterruptEnable(chip, TRUE)
                      [] Effect = "flags" -> FlagsLoaded(chip, tf, if)
                      [] OTHER -> chip
         /\ attempt' = [After EXCEPT !.intr = @ \/ (Effect \in {"sti", "flags"} /\ EnablesInterrupts(chip, chip'.if)),
                                     !.all = @ \/ Effect = "delay",
                                     !.vector = IF Effect = "report" THEN "software" ELSE @]
    /\ ip' \in CASE Effect = "jump" -> 0..(Offsets - 1)
                 [] Effect = "again" /\ attempt.repeat -> {ip, attempt.from}
                 [] OTHER -> {ip}
    /\ UNCHANGED <<wires, answer>>

\* A handler that refuses its operand, and one that divides by zero, whose entry follows.
Refuse ==
    /\ Doing /\ Effect = "refuse"
    /\ Answers(IF attempt.timed THEN "untimed" ELSE "unsupported") /\ ip' = attempt.from
    /\ UNCHANGED chip
Divide ==
    /\ Doing /\ Effect = "divide"
    /\ attempt' \in {After, [attempt EXCEPT !.todo = EntryScript, !.vector = "divide-error"]}
    /\ UNCHANGED <<chip, ip, wires, answer>>

\* A callback may throw; what was done stays and no record is made.
Throws ==
    /\ (Fetching /\ attempt.bytes < PrefixLimit) \/ (Doing /\ Effect \in Transfers)
    /\ Answers("threw") /\ UNCHANGED <<chip, ip>>

----------------------------------------------------------------------------
(* Retirement and the record.                                              *)

Done == attempt # NoAttempt /\ attempt.todo = <<>> /\ ~Fetching
\* A bug: a busy WAIT or a HLT is reported although its trap is owed.
OutcomeIgnoringTrap(c) == IF c.waiting THEN "waiting" ELSE IF c.halted THEN "halted" ELSE "executed"
Outcome(c) ==
    IF c.trapPending THEN "executed"
    ELSE IF c.waiting THEN "waiting" ELSE IF c.halted /\ attempt.kind = "step" THEN "halted" ELSE "executed"
Retire ==
    /\ Done /\ attempt.kind \in {"step", "resume"}
    /\ IF attempt.timed /\ attempt.clocks = 0
       THEN Answers("untimed") /\ ip' = attempt.from /\ UNCHANGED chip
       ELSE /\ chip' = Retired(attempt.was, chip, attempt.intr, attempt.all)
            /\ Answers(IF attempt.vector # "none" THEN "executed" ELSE Outcome(chip'))
            /\ UNCHANGED ip
Entered ==
    /\ Done /\ attempt.kind \in {"trap", "offer"}
    /\ Answers(IF attempt.kind = "trap" THEN "executed" ELSE "accepted")
    /\ UNCHANGED <<chip, ip>>

Next ==
    \/ \E timed \in BOOLEAN : Step(timed)
    \/ \E source \in {"intr", "nmi"}, connected \in BOOLEAN : Offer(source, connected)
    \/ Reset \/ Prefix \/ OnlyPrefixes
    \/ \E opcode \in Opcodes \cup {"unknown"} : Opcode(opcode)
    \/ Transfer \/ ReportClocks \/ Unpublished \/ Register \/ Refuse \/ Divide \/ Throws
    \/ \E high \in BOOLEAN : PollWait(high)
    \/ Retire \/ Entered

Spec == Init /\ [][Next]_sixteen

----------------------------------------------------------------------------
(* Properties.                                                             *)

\* segmented-execution.ts and vector-offers.ts: an attempt that is refused, has no published
\* cost or is ignored leaves the CPU as it found it, prefixes included, so the caller may try
\* again; a halted or waiting record is never returned while a trap is owed, so a runner that
\* stops on it loses none; an entry is reported only when it was made, and never loses an owed
\* trap; an acknowledgement that throws has woken the CPU and entered nothing; and a timed
\* record costs its prefixes and its instruction, once each.
AttemptIsSound ==
    /\ attempt # NoAttempt => attempt.log = wires
    /\ attempt = NoAttempt /\ answer.how \in {"unsupported", "untimed", "ignored"} =>
         ip = answer.from /\ chip = answer.was
    /\ attempt = NoAttempt /\ answer.how \in {"halted", "waiting"} => ~chip.trapPending
    /\ attempt = NoAttempt /\ answer.how \in {"executed", "accepted"} =>
         /\ answer.vector # "none" => ~chip.tf /\ ~chip.if /\ ~chip.halted /\ ~chip.waiting
         /\ chip.trapPending = ((answer.was.trapPending /\ answer.kind # "trap")
                                \/ (answer.was.tf /\ answer.kind \notin {"trap", "offer"}))
         /\ answer.timed => answer.clocks - PrefixClocks * answer.prefixes
                              \in {PendingClocks, Clocks, Clocks + Addition}
    /\ attempt = NoAttempt /\ answer.how = "threw" /\ answer.kind = "offer" =>
         ~chip.halted /\ ~chip.waiting
=============================================================================
