-------------------------- MODULE DebuggedMachine --------------------------
(***************************************************************************)
(* A laboratory's machine under its debugger: the XT, CoCo and Apple II    *)
(* adapters (xt-debugger.ts, coco-debugger.ts, apple2-explorer-view.ts),   *)
(* the 6809's observer of calls, the capture of watched stores             *)
(* (ram-write-capture.ts), and the buttons and batches that drive them.    *)
(* The program is given by what each place may do: call, return, pull,     *)
(* replace its stack, wait; interrupts come between any two boundaries.    *)
(* The stack holds return addresses.                                       *)
(***************************************************************************)
EXTENDS InstructionDebugger, FiniteSets

CONSTANTS
    Places,       \* 0 .. n - 1, the addresses of instructions
    Vector,       \* where an accepted interrupt goes
    Laboratories  \* machines and programs: records of the fields below

ASSUME LimitsAssumption == Limit \in Nat \ {0} /\ FrameLimit \in Nat \ {0}
ASSUME PlacesAssumption ==
    /\ IsFiniteSet(Places) /\ Places = 0..(Cardinality(Places) - 1)
    /\ Vector \in Places

\* A breakpoint of a laboratory with one mapping, "ram".
Point == [address : Places, space : {Anywhere, "ram"}, enabled : BOOLEAN]

\* Only a program that leaves the return addresses it pushed alone is disciplined; the
\* Apple II's CPU does not wait, and what it cannot execute throws.
ASSUME LaboratoriesAssumption ==
    \A l \in Laboratories :
        /\ l.adapter \in {"coco", "xt", "apple2"}
        /\ l.maxStack \in Nat
        /\ \A p \in Places : l.jumps[p] \subseteq Places
        /\ l.points \subseteq SUBSET Point
        /\ l.disciplined => \A p \in Places : l.code[p] \cap {"pull", "pulling call"} = {}
        /\ l.adapter = "apple2" => \A p \in Places : l.code[p] \cap {"cwai", "unsupported"} = {}

VARIABLES
    lab,          \* the laboratory and its program, once and for all
    dbg,          \* the stopping policy
    pc, stack,    \* the program's place and its stack
    wait,         \* "none", or "cwai": its frame is already stacked
    line,         \* an interrupt line: "off", "masked" by the CPU, or "pending"
    last,         \* the outcome of the last boundary recorded
    waitingStack, \* the observer's depth before CWAI, or Unknown
    watching,     \* the watchpoint on the program's variable is enabled
    attached,     \* the RAM whose stores are observed: "none", "current", "old"
    hit,          \* a watched store is shown
    running, failed,   \* the controller's state
    asked,        \* what the user asked last, and where (history)
    since,        \* boundaries completed since (history)
    stored        \* the last boundary stored to the variable (history)

vars == <<lab, dbg, pc, stack, wait, line, last, waitingStack, watching, attached, hit,
          running, failed, asked, since, stored>>
program == <<pc, stack, wait, line, last>>

Adapter == lab.adapter     \* "coco" and "apple2" track calls, "xt" does not
Code == lab.code           \* the kinds of instruction each place may hold
Jumps == lab.jumps         \* where a jump or call of each place may go
MaxStack == lab.maxStack   \* the deepest stack of the modelled program
Lines == lab.lines         \* the states of the interrupt line: "off", "masked", "pending"
Points == lab.points       \* the sets of breakpoints a user may set
Statement == pc \in lab.statements   \* the ROM is about to dispatch a BASIC statement

Unknown == MaxStack + 1
Here == [address |-> pc, space |-> "ram"]
At(p) == [address |-> p, space |-> "ram"]
Following(p) == (p + 1) % Cardinality(Places)

Nothing == [kind |-> "nothing", at |-> None, back |-> 0, depth |-> 0, crosses |-> FALSE]

Init ==
    /\ lab \in Laboratories
    /\ dbg = NewDebugger
    /\ pc = 0 /\ stack = <<>> /\ wait = "none" /\ line = "off" /\ last = "none"
    /\ waitingStack = Unknown
    /\ watching = FALSE /\ attached = "none" /\ hit = FALSE
    /\ running = FALSE /\ failed = FALSE
    /\ asked = Nothing /\ since = 0 /\ stored = FALSE

----------------------------------------------------------------------------
(* One CPU boundary: what the program may do next.                         *)

Boundary(outcome, flow, p, s, w, depth, ret, resets) ==
    [outcome |-> outcome, flow |-> flow, pc |-> p, stack |-> s, wait |-> w,
     stackBefore |-> depth, returnsTo |-> ret, resets |-> resets]

Depth == Len(stack)
Executed(flow, p, s, depth, resets) ==
    Boundary("executed", flow, p, s, "none", depth, Following(pc), resets)
Pushed(x) == Append(stack, x)

\* What the instruction here may do.  A call through an address it pulls pushes its
\* return address over the pulled word; "pull", "push" and "reset" are a program
\* that handles its own return addresses.
Does(kind) ==
    CASE kind = "call" /\ Depth < MaxStack ->
            {Executed("call", p, Pushed(Following(pc)), Depth, FALSE) : p \in Jumps[pc]}
      [] kind = "pulling call" /\ stack # <<>> ->
            {Executed("call", Last(stack), Append(Front(stack), Following(pc)), Depth - 1, FALSE)}
      [] kind \in {"return", "interrupt-return", "stack-return"} /\ stack # <<>> ->
            {Executed(kind, Last(stack), Front(stack), Depth, FALSE)}
      [] kind = "jump" -> {Executed("none", p, stack, Depth, FALSE) : p \in Jumps[pc]}
      [] kind = "push" /\ Depth < MaxStack ->
            {Executed("none", Following(pc), Pushed(p), Depth, FALSE) : p \in Jumps[pc]}
      [] kind = "pull" /\ stack # <<>> -> {Executed("none", Following(pc), Front(stack), Depth, FALSE)}
      [] kind = "reset stack" -> {Executed("none", Following(pc), SubSeq(stack, 1, n), Depth, TRUE) : n \in 0..Depth}
      [] kind = "cwai" /\ Depth < MaxStack ->
            {Boundary("executed", "none", Following(pc), Pushed(Following(pc)), "cwai",
                      Depth, Following(pc), FALSE)}
      [] kind = "unsupported" -> {Boundary("unsupported", "none", pc, stack, "none", Depth, pc, FALSE)}
      [] OTHER -> {}
Instructions == UNION {Does(kind) : kind \in Code[pc]}
Calls == {b \in Instructions : b.flow = "call"}
\* Without any of those the program would run off its own stack: it jumps on.
Running == IF Instructions = {} THEN {Executed("none", Following(pc), stack, Depth, FALSE)} ELSE Instructions

Entries ==
    IF wait = "cwai"
    THEN {Boundary("accepted", "interrupt", Vector, stack, "none", Depth, pc, FALSE)}
    ELSE {Boundary("accepted", "interrupt", Vector, Pushed(pc), "none", Depth, pc, FALSE) :
              room \in {TRUE} \cap {Depth < MaxStack}}

\* The instruction is a call exactly when Step over decoded one.
OverDecodedCall == dbg.plan.kind = "over" /\ dbg.plan.frame = NoFrame

\* A pending interrupt is accepted; a waiting CPU without one only waits.
Boundaries ==
    IF line = "pending" /\ Entries # {} THEN Entries
    ELSE IF wait = "cwai"
    THEN {Boundary("waiting", "none", pc, stack, wait, Depth, pc, FALSE)}
    ELSE IF OverDecodedCall THEN Calls ELSE Running

\* Watched stores are those of ordinary instructions and of the device's frames.
Stores(b) == IF Code[pc] \cap {"jump", "push"} # {} \/ b.outcome = "accepted" THEN BOOLEAN ELSE {FALSE}
CanThrow == "throws" \in Code[pc]

----------------------------------------------------------------------------
(* Adapters.                                                               *)

Connect(a, wanted) == IF wanted THEN "current" ELSE "none"

\* The 6809's observer: the depth a call returns to is known after its push, the
\* depth under a waiting frame only if CWAI itself was observed.
StackedDepthNow(b) == b.stackBefore
StackedDepth(b) ==
    IF b.outcome = "accepted" /\ wait = "cwai" THEN waitingStack ELSE b.stackBefore

ObserveStep(d, b) ==
    Observe(d, [before |-> Here, after |-> At(b.pc), flow |-> b.flow,
                stackBefore |-> StackedDepth(b), stackAfter |-> Len(b.stack),
                returnsTo |-> b.returnsTo, resetsStack |-> b.resets])

ObserveCoco(d, b) ==
    IF b.outcome = "unsupported" THEN Fail(d, At(b.pc))
    ELSE IF b.outcome = "accepted" /\ wait = "cwai" /\ waitingStack = Unknown
    THEN LoseTracking(ObserveBoundary(d), At(b.pc))
    ELSE ObserveStep(d, b)

WaitingStackAfter(b) ==
    IF b.outcome \in {"unsupported", "accepted"} THEN Unknown
    ELSE IF b.outcome = "executed" /\ b.wait = "cwai" THEN Depth
    ELSE waitingStack

ObserveXt(d, b) == IF b.outcome = "unsupported" THEN Fail(d, At(b.pc)) ELSE ObserveBoundary(d)

\* capture(): a watched store of a complete boundary stops there; otherwise a
\* manual step finishes at once, so that it shows its own stop.
CocoCaptured(d, b, caught) ==
    LET e == ObserveCoco(d, b)
    IN  IF caught /\ e.stop.kind # "error" THEN Watchpoint(e, At(b.pc))
        ELSE IF e.plan.kind = "step" THEN BeforeStep(e, At(b.pc), FALSE, FALSE) ELSE e
XtCaptured(d, b, caught) ==
    LET e == ObserveXt(d, b)
    IN  IF b.outcome = "unsupported" THEN e
        ELSE IF caught THEN Watchpoint(e, At(b.pc))
        ELSE IF e.plan.kind = "step" THEN BeforeStep(e, At(b.pc), FALSE, FALSE) ELSE e
\* A bug: a watched store is shown where its instruction began.
CapturedAtCaller(d, b, caught, software) ==
    IF caught THEN Watchpoint(ObserveStep(d, b), Here) ELSE CocoCaptured(d, b, caught)
\* The Apple II's page asks the policy after a manual step only, BASIC breakpoints included.
Apple2Captured(d, b, caught, software) ==
    LET e == ObserveStep(d, b)
        shown == IF caught THEN Watchpoint(e, At(b.pc)) ELSE e
    IN  IF running THEN shown ELSE BeforeStep(shown, At(b.pc), FALSE, software)
Captured(d, b, caught, software) ==
    CASE Adapter = "coco" -> CocoCaptured(d, b, caught)
      [] Adapter = "xt" -> XtCaptured(d, b, caught)
      [] Adapter = "apple2" -> Apple2Captured(d, b, caught, software)

\* A BASIC breakpoint may name the statement about to be dispatched.
SoftwareAt(p) == {FALSE, Adapter = "apple2" /\ p \in lab.statements}

\* A step of the machine, watched stores captured around it; 'shown' is the hit
\* before the step, and 'n' the boundaries completed since the request.
Capture(d, b, stores, shown, n) ==
    \E software \in SoftwareAt(b.pc) :
    LET caught == stores /\ watching /\ Connect(attached, watching) = "current"
        e == Captured(d, b, caught, software)
    IN  /\ dbg' = e
        /\ attached' = Connect(attached, watching)
        /\ hit' = (shown \/ e.stop.kind = "watchpoint")
        /\ waitingStack' = (IF Adapter = "coco" THEN WaitingStackAfter(b) ELSE waitingStack)
        /\ pc' = b.pc /\ stack' = b.stack /\ wait' = b.wait /\ last' = b.outcome
        /\ line' \in Lines
        /\ since' = IF n > Limit THEN n ELSE n + 1
        /\ stored' = (stores /\ b.outcome # "unsupported")
        /\ UNCHANGED failed

\* A step that throws may have moved the machine.
CaptureThrows(d, p) ==
    /\ dbg' = Fail(d, At(p))
    /\ pc' = p /\ failed' = TRUE /\ hit' = FALSE
    /\ waitingStack' = (IF Adapter = "coco" THEN Unknown ELSE waitingStack)
    /\ attached' = Connect(attached, watching) /\ stored' = FALSE
    /\ UNCHANGED <<stack, wait, line, last>>

Idle == ~running /\ ~failed

\* Anything the user asks goes through the policy; the request is remembered with
\* the place it should come back to.
Asking(kind, back, depth, crosses) ==
    [kind |-> kind, at |-> Here, back |-> back, depth |-> depth, crosses |-> crosses]
Ask(d, request) ==
    /\ running' = TRUE /\ dbg' = d /\ asked' = request
    /\ hit' = FALSE /\ since' = 0 /\ stored' = FALSE
    /\ UNCHANGED <<program, waitingStack, watching, attached, failed>>
StoppedHere == dbg.stop = [kind |-> "breakpoint", at |-> Here]

ClickRun == Idle /\ Ask(Run(dbg, Here), Asking("run", pc, Depth, StoppedHere))

\* Step: the policy crosses the current place before the machine moves, or, on the
\* Apple II, after it.
ClickStep ==
    LET request == StepOne(dbg, Here)
        d == IF Adapter = "apple2" THEN request ELSE BeforeStep(request, Here, FALSE, FALSE)
    IN  /\ Idle
        /\ asked' = Asking("step", pc, Depth, TRUE)
        /\ \/ \E b \in Boundaries : \E stores \in Stores(b) : Capture(d, b, stores, FALSE, 0)
           \/ CanThrow /\ CaptureThrows(d, Following(pc)) /\ since' = 0
        /\ UNCHANGED <<running, watching>>

\* Over runs only when the next instruction is a call; otherwise it is one step.
Flows ==
    IF line = "pending" \/ wait # "none" THEN {"none"}
    ELSE {"none"} \cup (IF Calls = {} THEN {} ELSE {"call"})
ClickOver ==
    /\ Adapter # "xt" /\ Idle
    /\ \E flow \in Flows : Ask(Over(dbg, Here, flow), Asking("over", Following(pc), Depth, TRUE))

ClickOut ==
    /\ Adapter # "xt" /\ Idle /\ CanStepOut(dbg)
    /\ LET f == Last(dbg.frames)
       IN  Ask(Out(dbg, Here), Asking("out", f.returnsTo, f.stack, TRUE))

ClickRunTo(p) ==
    /\ Idle
    /\ Ask(RunTo(dbg, Here, [address |-> p, space |-> Anywhere], Limit),
           Asking("target", p, Depth, StoppedHere))

\* One BASIC statement: to the ROM's next dispatch.
ClickStepUntil ==
    /\ Adapter = "apple2" /\ Idle
    /\ Ask(StepUntil(dbg, Here), Asking("until", pc, Depth, TRUE))

ClickPause ==
    /\ running /\ running' = FALSE
    /\ dbg' = Pause(dbg, Here)
    /\ UNCHANGED <<program, waitingStack, watching, attached, hit, failed, asked, since, stored>>

SetBreakpoints(points) ==
    /\ dbg.points # points
    /\ dbg' = [dbg EXCEPT !.points = points]
    /\ UNCHANGED <<program, waitingStack, watching, attached, hit, running, failed, asked, since, stored>>

SetWatchpoints ==
    /\ watching' = ~watching
    /\ attached' = Connect(attached, watching') /\ stored' = FALSE
    /\ UNCHANGED <<dbg, program, waitingStack, hit, running, failed, asked, since>>

\* The row of an address: its breakpoint for any mapping, one for this mapping.
ApplicablePoints(at) == {p \in dbg.points : Matches(p, at)}
ToggledPoints(at) ==
    LET enabled == \E p \in ApplicablePoints(at) : p.enabled
    IN  IF ApplicablePoints(at) = {}
        THEN dbg.points \cup {[address |-> at.address, space |-> Anywhere, enabled |-> TRUE]}
        ELSE {IF p \in ApplicablePoints(at) THEN [p EXCEPT !.enabled = ~enabled] ELSE p : p \in dbg.points}
TogglePoint(p) ==
    /\ dbg' = [dbg EXCEPT !.points = ToggledPoints(At(p))]
    /\ dbg'.points \in Points
    /\ UNCHANGED <<program, waitingStack, watching, attached, hit, running, failed, asked, since, stored>>

\* One turn of a batch: ask the policy, then step the machine.
PausesWaiting == Adapter = "coco" /\ last = "waiting" /\ line = "off"
Stops(d) ==
    /\ dbg' = d /\ running' = FALSE
    /\ UNCHANGED <<program, waitingStack, watching, attached, hit, failed, asked, since, stored>>
Answers == dbg.plan.kind = "until" => Statement
Turn(software) ==
    LET d == BeforeStep(dbg, Here, Answers, software)
    IN  /\ running
        /\ \/ d.stop # None /\ Stops(d)
           \/ d.stop = None /\ PausesWaiting /\ Stops(Pause(d, Here))
           \/ /\ d.stop = None /\ ~PausesWaiting
              /\ \E b \in Boundaries : \E stores \in Stores(b) : Capture(d, b, stores, hit, since)
              /\ UNCHANGED <<running, watching, asked>>
           \/ /\ d.stop = None /\ ~PausesWaiting /\ CanThrow
              /\ CaptureThrows(d, Following(pc)) /\ running' = FALSE
              /\ UNCHANGED <<watching, asked, since>>
BatchTurn == \E software \in SoftwareAt(pc) : Turn(software)

\* Reset, power-on, a loaded ROM and a restored snapshot make another machine and
\* drop what the debugger observed; a restored CPU may already be waiting.
ReplaceMachine(p, w) ==
    /\ Adapter = "apple2" \/ ~running
    /\ w = "cwai" => Adapter # "apple2"
    /\ pc' = p /\ wait' = w /\ stack' = (IF w = "cwai" THEN <<p>> ELSE <<>>)
    /\ line' = "off" /\ last' = "none"
    /\ dbg' = ResetDebugger(dbg)
    /\ waitingStack' = Unknown /\ hit' = FALSE
    /\ attached' = Connect(IF attached = "none" THEN "none" ELSE "old", watching)
    /\ failed' = FALSE /\ asked' = Nothing /\ since' = 0 /\ stored' = FALSE
    /\ running' = FALSE /\ UNCHANGED watching

Next ==
    /\ UNCHANGED lab
    /\ \/ ClickRun \/ ClickStep \/ ClickOver \/ ClickOut \/ ClickPause
       \/ \E p \in Places : ClickRunTo(p) \/ TogglePoint(p)
       \/ \E points \in Points : SetBreakpoints(points)
       \/ ClickStepUntil \/ SetWatchpoints \/ BatchTurn
       \/ \E w \in {"none", "cwai"} : ReplaceMachine(Following(0), w)

Spec == Init /\ [][Next]_vars

----------------------------------------------------------------------------
(* Properties.                                                             *)

\* xt-debugger.ts, coco-debugger.ts: a stop shown to the user names the place where the machine
\* now is, whoever stopped it; a store to a watched variable stops the machine at that boundary,
\* on whatever machine is now connected; and a store is shown only while the machine is stopped
\* by it, or by a pause that came before the batch saw the stop, never beside a later stop.
StopsAreTrue ==
    /\ dbg.stop # None => dbg.stop.at = Here
    /\ stored /\ watching => dbg.stop.kind \in {"watchpoint", "pause", "error"}
    /\ hit => dbg.stop.kind \in {"watchpoint", "pause"}

\* instruction-debugger.ts: a run never executes past an enabled breakpoint: the machine leaves
\* such a place only as the first boundary of a request that crosses it.
BreakpointsHold ==
    [][running /\ AtPoint(dbg, Here, FALSE) /\ since' > since
       => since = 0 /\ asked.crosses /\ asked.at = Here]_vars

\* instruction-debugger.ts: Step over and Step out end where the call they watched returns: at
\* its return address, on the stack it left, however many other calls came between; a BASIC
\* step ends at a dispatch it ran to; and every request but Run ends within its limit.
RequestsReturn ==
    /\ dbg.stop.kind = "over" => pc = asked.back /\ Depth <= asked.depth
    /\ dbg.stop.kind = "out" => pc = asked.back /\ Depth = asked.depth
    /\ asked.kind = "until" /\ dbg.stop.kind = "step" => Statement /\ since > 0
    /\ asked.kind \in {"over", "out", "target", "until"} => since <= Limit
    /\ asked.kind = "step" => since <= 1

\* 6809-debugger.ts: of a program that neither pulls nor replaces return addresses, every
\* observed caller is on the stack, in order: the shown call stack is the machine's.
FramesAreCallers == lab.disciplined =>
    /\ \A i \in DOMAIN dbg.frames :
          /\ dbg.frames[i].stack < Depth
          /\ stack[dbg.frames[i].stack + 1] = dbg.frames[i].returnsTo
    /\ \A i, j \in DOMAIN dbg.frames : i < j => dbg.frames[i].stack < dbg.frames[j].stack
=============================================================================
