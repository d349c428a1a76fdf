------------------------ MODULE InstructionDebugger ------------------------
(***************************************************************************)
(* The stopping policy shared by every laboratory                          *)
(* (site/interactive/instruction-debugger.ts): breakpoints, one request at *)
(* a time (step, over, out, until, target), the instruction limit, and the *)
(* callers observed from completed steps.  The policy is a record d and    *)
(* each method an operator on it; the machine adapters compose them.       *)
(***************************************************************************)
EXTENDS Naturals, Sequences, SequencesExt

CONSTANTS
    Limit,        \* the default instruction limit (budget)
    FrameLimit    \* observed frames kept (128 in the code)

None == [kind |-> "none"]
Anywhere == "any mapping"

\* A breakpoint names an address and, perhaps, a mapping.
Matches(point, at) == point.address = at.address /\ point.space \in {Anywhere, at.space}

NewDebugger ==
    [points |-> {}, plan |-> None, stop |-> None, skip |-> None,
     completed |-> FALSE, remaining |-> Limit, frames |-> <<>>, lost |-> FALSE]

\* Frame numbers only compare equal with the plan's: a fresh one is any unused.
FreshFrame(d) ==
    CHOOSE id \in 0..(FrameLimit + 1) :
        /\ \A i \in DOMAIN d.frames : d.frames[i].id # id
        /\ "frame" \in DOMAIN d.plan => d.plan.frame # id
NoFrame == FrameLimit + 2

Finish(d, kind, at) ==
    [d EXCEPT !.stop = [kind |-> kind, at |-> at], !.plan = None,
              !.skip = None, !.completed = FALSE]

Start(d, at, request, cross, limit) ==
    [d EXCEPT !.skip = IF cross \/ (d.stop = [kind |-> "breakpoint", at |-> at])
                       THEN [kind |-> "at", at |-> at] ELSE None,
              !.stop = None, !.plan = request, !.completed = FALSE, !.remaining = limit]

Run(d, at) == Start(d, at, None, FALSE, Limit)
StepOne(d, at) == Start(d, at, [kind |-> "step"], TRUE, Limit)
Over(d, at, flow) ==
    Start(d, at, IF flow = "call" THEN [kind |-> "over", frame |-> NoFrame] ELSE [kind |-> "step"],
          TRUE, Limit)
CanStepOut(d) == d.frames # <<>>
Out(d, at) == Start(d, at, [kind |-> "out", frame |-> Last(d.frames).id], TRUE, Limit)
StepUntil(d, at) == Start(d, at, [kind |-> "until"], TRUE, Limit)
RunTo(d, at, target, limit) == Start(d, at, [kind |-> "target", point |-> target], FALSE, limit)

\* A request that waits for a frame ends when frames are forgotten.
LoseTracking(d, at) ==
    LET e == [d EXCEPT !.frames = <<>>, !.lost = TRUE]
        waits == \/ d.plan.kind = "out"
                 \/ d.plan.kind = "over" /\ d.plan.frame # NoFrame
    IN  IF waits THEN Finish(e, "tracking-lost", at) ELSE e

Pause(d, at) == Finish(d, "pause", at)
Watchpoint(d, at) == Finish(d, "watchpoint", at)
Fail(d, at) == Finish([d EXCEPT !.frames = <<>>, !.lost = TRUE], "error", at)
ResetDebugger(d) ==
    [d EXCEPT !.frames = <<>>, !.lost = FALSE, !.plan = None, !.stop = None,
              !.skip = None, !.completed = FALSE]

\* The policy's question before each instruction.  'here' says what a boundary
\* condition (stepUntil) or a target's condition answers at this place, and
\* 'software' whether a breakpoint known to the machine's software is here.
AtPoint(d, at, software) == software \/ \E p \in d.points : p.enabled /\ Matches(p, at)

PlanReached(d, at, here) ==
    CASE d.plan.kind = "target" -> Matches(d.plan.point, at) /\ here
      [] d.plan.kind = "until" -> d.remaining < Limit /\ here
      [] OTHER -> (d.plan # None) /\ d.completed

PlanStop(d) == IF d.plan.kind = "until" THEN "step" ELSE d.plan.kind

\* A bug: the crossing kept for the whole request.
BeforeStepBypassingTwice(d, at, here, software) ==
    LET bypass == d.skip = [kind |-> "at", at |-> at]
    IN  IF d.stop # None THEN d
        ELSE IF ~bypass /\ AtPoint(d, at, software) THEN Finish(d, "breakpoint", at)
        ELSE IF PlanReached(d, at, here) THEN Finish(d, PlanStop(d), at)
        ELSE IF d.plan # None /\ d.remaining = 0 THEN Finish(d, "limit", at) ELSE d
BeforeStep(d, at, here, software) ==
    LET bypass == d.skip = [kind |-> "at", at |-> at]
        e == [d EXCEPT !.skip = None]
    IN  IF d.stop # None THEN d
        ELSE IF ~bypass /\ AtPoint(d, at, software) THEN Finish(e, "breakpoint", at)
        ELSE IF PlanReached(e, at, here) THEN Finish(e, PlanStop(d), at)
        ELSE IF d.plan # None /\ d.remaining = 0 THEN Finish(e, "limit", at)
        ELSE e

ObserveBoundary(d) ==
    [d EXCEPT !.stop = None,
              !.remaining = IF d.plan # None THEN d.remaining - 1 ELSE d.remaining,
              !.completed = d.completed \/ d.plan.kind = "step"]

\* A completed step: its place before and after, the stack depth around it, its
\* flow, where it should return to, and whether it replaced the stack pointer.
\* A bug: Step over waits for the latest call instead of its own.
PushFrameRebinding(d, s) ==
    LET id == FreshFrame(d)
        f == [id |-> id, flow |-> s.flow, caller |-> s.before,
              returnsTo |-> s.returnsTo, stack |-> s.stackBefore]
        g == IF Len(d.frames) = FrameLimit THEN LoseTracking(d, s.after) ELSE [d EXCEPT !.frames = Append(@, f)]
    IN  IF g.plan.kind = "over" THEN [g EXCEPT !.plan.frame = id] ELSE g
PushFrame(d, s) ==
    LET e == IF Len(d.frames) = FrameLimit THEN LoseTracking(d, s.after) ELSE d
        id == FreshFrame(e)
        f == [id |-> id, flow |-> s.flow, caller |-> s.before,
              returnsTo |-> s.returnsTo, stack |-> s.stackBefore]
        g == [e EXCEPT !.frames = Append(@, f)]
    IN  IF g.plan.kind = "over" /\ g.plan.frame = NoFrame THEN [g EXCEPT !.plan.frame = id] ELSE g

ReturnsFrom(f, s) ==
    /\ s.flow = "stack-return" \/ f.flow = (IF s.flow = "return" THEN "call" ELSE "interrupt")
    /\ f.stack = s.stackAfter
    /\ f.returnsTo = s.after.address

PopFrame(d, s) ==
    IF d.frames # <<>> /\ ReturnsFrom(Last(d.frames), s)
    THEN [d EXCEPT !.frames = Front(@),
                   !.completed = \/ d.completed
                                  \/ /\ d.plan.kind \in {"over", "out"}
                                     /\ d.plan.frame = Last(d.frames).id]
    ELSE LoseTracking(d, s.after)

Observe(d, s) ==
    LET e == ObserveBoundary(d)
        g == IF s.resetsStack THEN LoseTracking(e, s.after) ELSE e
    IN  IF s.flow \in {"call", "interrupt"} THEN PushFrame(g, s)
        ELSE IF s.flow \in {"return", "interrupt-return", "stack-return"} THEN PopFrame(g, s)
        ELSE g
=============================================================================
