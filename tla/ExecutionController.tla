------------------------- MODULE ExecutionController -------------------------
(***************************************************************************)
(* The loop that runs a machine on the XT, CoCo, Apple II and Altair       *)
(* program pages: site/interactive/execution-controller.ts, with the clock *)
(* pacing of clock-pacing.ts.  Between a user's Run and Stop the machine   *)
(* advances in batches, each one a callback the page asked its host for.   *)
(*                                                                         *)
(* JavaScript runs a callback to its end, so no command of the page falls  *)
(* inside a batch; the host's clock does move while one runs.  The records *)
(* kept for display are left out.  The pages' callbacks (step,             *)
(* pauseBeforeStep, onChange) do not call the controller back.             *)
(***************************************************************************)
EXTENDS Integers, FiniteSets

CONSTANTS
  Delays,       \* the delays a page may choose
  BatchSize,    \* steps in one batch at most
  Slots,        \* identities of the callbacks the host holds
  MaxLate,      \* bound: cancelled callbacks the host may still call
  MaxCost,      \* bound: clocks one step takes
  MaxLag,       \* clocks of lateness that pacing makes up for
  MaxChanges    \* bound: changes of delay or pacing

ASSUME ControllerAssumption ==
  /\ IsFiniteSet(Slots) /\ MaxLate \in Nat /\ Cardinality(Slots) > MaxLate
  /\ BatchSize \in Nat \ {0} /\ MaxCost \in Nat \ {0} /\ MaxLag \in Nat \ {0}
  /\ MaxChanges \in Nat

VARIABLES
  running, error, delayMs,
  timers,     \* callbacks the host holds: id, delay, and whether token = generation
  pending,    \* the one cancel() would clear, or None
  inBatch,    \* a callback is running its loop
  count,      \* steps attempted in it
  pacing,     \* the machine's clock limits Run
  credit,     \* pacing's target - ticks()
  idle,       \* host time since pacing last read it
  canStep,    \* the machine is ready for a step
  wanted,     \* the user asked to run, and nothing has ended that since
  ahead,      \* clocks run beyond the host time since Run or a new speed
  changes

control == <<running, error, delayMs>>
host    == <<timers, pending>>
loop    == <<inBatch, count>>
clock   == <<pacing, credit, idle>>
vars    == <<control, host, loop, clock, canStep, wanted, ahead, changes>>

None == "none"
Timer == [id : Slots, current : BOOLEAN, delay : Delays]
Current == {t \in timers : t.current}

\* Differences beyond these bounds are not told apart: the lag is capped first.
MaxIdle == MaxLag + MaxCost
Least(a, b) == IF a < b THEN a ELSE b
Most(a, b)  == IF a < b THEN b ELSE a

ControllerTypeOK ==
  /\ running \in BOOLEAN /\ error \in BOOLEAN /\ delayMs \in Delays
  /\ timers \subseteq Timer /\ pending \in Slots \cup {None}
  /\ inBatch \in BOOLEAN /\ count \in 0..BatchSize
  /\ pacing \in BOOLEAN /\ credit \in -MaxCost..MaxLag /\ idle \in 0..MaxIdle
  /\ canStep \in BOOLEAN /\ wanted \in BOOLEAN
  /\ ahead \in -(MaxLag + MaxIdle)..MaxCost
  /\ changes \in 0..MaxChanges

Init ==
  /\ running = FALSE /\ error = FALSE /\ delayMs \in Delays
  /\ timers = {} /\ pending = None
  /\ inBatch = FALSE /\ count = 0
  /\ pacing \in BOOLEAN /\ credit = 0 /\ idle = 0
  /\ canStep \in BOOLEAN /\ wanted = FALSE /\ ahead = 0 /\ changes = 0

----------------------------------------------------------------------------
(* Scheduling                                                              *)

\* queue(): one callback of the current generation, after the current delay.
Queue(held) ==
  \E s \in Slots \ {t.id : t \in held} :
    /\ timers' = held \cup {[id |-> s, current |-> TRUE, delay |-> delayMs']}
    /\ pending' = s

\* generation++ makes every callback stale.  cancel() clears the pending one,
\* unless the host has already queued it.
Stale(held) == {[t EXCEPT !.current = FALSE] : t \in held}
Cancelled ==
  {Stale({t \in timers : t.id # pending})}
    \cup (IF Cardinality(timers) <= MaxLate THEN {Stale(timers)} ELSE {})

\* cancelPending() with nothing queued after it.
CancelPending == timers' \in Cancelled /\ pending' = None

\* Bug: the callback of before a change is left alone.
RequeueNothing == UNCHANGED host

\* cancelPending(), then queue() when the machine is running.
Requeue ==
  \E held \in Cancelled :
    IF running THEN Queue(held) ELSE timers' = held /\ pending' = None

\* Bug: the host time of before is still owed.
RestartKeepingTime == credit' = 0 /\ UNCHANGED idle

\* pacing.restart(): forget the host time and the clocks of before.
Restart == credit' = 0 /\ idle' = 0

\* Bug: no lag at all is made up for, not even that of a batch on time.
EarnedNothing == Least(credit + idle, 0)

\* pacing.beginBatch(): host time becomes credit, up to the maximum lag.
Earned == Least(credit + idle, MaxLag)

----------------------------------------------------------------------------
(* The page's commands                                                     *)

\* Entered by Run and by every "continue" control.
Run ==
  /\ ~inBatch /\ ~running /\ ~error /\ canStep
  /\ running' = TRUE /\ delayMs' = delayMs
  /\ IF pacing THEN Restart ELSE UNCHANGED <<credit, idle>>
  /\ Queue(timers)
  /\ wanted' = TRUE /\ ahead' = 0
  /\ UNCHANGED <<error, loop, pacing, canStep, changes>>

\* Pause, a hidden page, a file being chosen.
Stop ==
  /\ ~inBatch
  /\ CancelPending
  /\ running' = FALSE /\ wanted' = FALSE
  /\ UNCHANGED <<error, delayMs, loop, clock, canStep, ahead, changes>>

\* advance(): the step returns a record, or throws after partial effects.
\* Either way the machine's clock may have moved.
Advance(cost) ==
  /\ \/ error' = FALSE /\ cost > 0
     \/ error' = TRUE
  /\ canStep' \in BOOLEAN
  /\ credit' = Most(credit - cost, -MaxCost)

\* One manual step, which no pause condition or pacing limits.
Step ==
  /\ ~inBatch /\ ~running /\ ~error /\ canStep
  /\ \E cost \in 0..MaxCost : Advance(cost)
  /\ UNCHANGED <<running, delayMs, host, loop, pacing, idle, wanted, ahead, changes>>

SetDelay ==
  /\ ~inBatch /\ changes < MaxChanges
  /\ delayMs' \in Delays
  /\ IF pacing THEN Restart ELSE UNCHANGED <<credit, idle>>
  /\ Requeue
  /\ ahead' = 0 /\ changes' = changes + 1
  /\ UNCHANGED <<running, error, loop, pacing, canStep, wanted>>

SetPacing ==
  /\ ~inBatch /\ changes < MaxChanges
  /\ pacing' \in BOOLEAN
  /\ IF pacing' THEN Restart ELSE UNCHANGED <<credit, idle>>
  /\ delayMs' = delayMs
  /\ Requeue
  /\ ahead' = 0 /\ changes' = changes + 1
  /\ UNCHANGED <<running, error, loop, canStep, wanted>>

\* The page has put another machine in place.
Reset ==
  /\ ~inBatch
  /\ CancelPending
  /\ running' = FALSE /\ error' = FALSE /\ wanted' = FALSE
  /\ canStep' \in BOOLEAN
  /\ UNCHANGED <<delayMs, loop, clock, ahead, changes>>

\* A file is being read, or the firmware has arrived.
ReadinessChanges ==
  /\ ~inBatch
  /\ canStep' = ~canStep
  /\ UNCHANGED <<control, host, loop, clock, wanted, ahead, changes>>

----------------------------------------------------------------------------
(* A batch                                                                 *)

\* Bug: the callback tests running alone.
AcceptedWhenRunning(t) == running

\* The first test of the callback: cancellation also rejects one that the
\* host had already queued.
Accepted(t) == running /\ t.current

BeginBatch(t) ==
  /\ ~inBatch /\ t \in timers /\ Accepted(t)
  /\ timers' = timers \ {t} /\ pending' = None
  /\ inBatch' = TRUE /\ count' = 0
  /\ IF pacing THEN credit' = Earned /\ idle' = 0
               ELSE UNCHANGED <<credit, idle>>
  /\ UNCHANGED <<control, pacing, canStep, wanted, ahead, changes>>

RejectCallback(t) ==
  /\ ~inBatch /\ t \in timers /\ ~Accepted(t)
  /\ timers' = timers \ {t}
  /\ UNCHANGED <<control, pending, loop, clock, canStep, wanted, ahead, changes>>

\* The loop's own condition, and pacing.canStep() inside it.
LoopGoesOn == count < BatchSize /\ running /\ ~error /\ canStep
PacingAllows == pacing => credit > 0

BatchStep ==
  /\ inBatch /\ LoopGoesOn /\ PacingAllows
  /\ count' = count + 1
  /\ \E cost \in 0..MaxCost :
       /\ Advance(cost)
       /\ ahead' = IF pacing THEN ahead + cost ELSE ahead
  /\ wanted' = (wanted /\ ~error')
  /\ UNCHANGED <<running, delayMs, host, inBatch, pacing, idle, changes>>

\* pauseBeforeStep() asks for a stop: nothing is queued after it.
BatchPauses ==
  /\ inBatch /\ LoopGoesOn
  /\ running' = FALSE /\ wanted' = FALSE /\ inBatch' = FALSE
  /\ UNCHANGED <<error, delayMs, host, count, clock, canStep, ahead, changes>>

\* The loop ends by its condition, by pacing, or by the batch's time limit,
\* which may expire at any test.  A run that goes on queues the next batch.
BatchEnds ==
  /\ inBatch /\ inBatch' = FALSE
  /\ delayMs' = delayMs
  /\ \/ /\ error \/ ~canStep
        /\ running' = FALSE /\ wanted' = FALSE
        /\ UNCHANGED host
     \/ /\ ~error /\ canStep
        /\ UNCHANGED <<running, wanted>>
        /\ IF running THEN Queue(timers) ELSE UNCHANGED host
  /\ UNCHANGED <<error, count, clock, canStep, ahead, changes>>

\* The host's clock.
Tick ==
  /\ idle' = Least(idle + 1, MaxIdle)
  /\ ahead' = Most(ahead - 1, -(MaxLag + MaxIdle))
  /\ UNCHANGED <<control, host, loop, pacing, credit, canStep, wanted, changes>>

Callback == \E t \in timers : BeginBatch(t) \/ RejectCallback(t)
Command == Run \/ Stop \/ Step \/ SetDelay \/ SetPacing \/ Reset \/ ReadinessChanges

Next == Command \/ Callback \/ BatchStep \/ BatchPauses \/ BatchEnds \/ Tick

Spec == Init /\ [][Next]_vars

\* The host calls every callback it holds, a batch comes to its end, and time passes.
Fairness ==
  /\ \A s \in Slots : WF_vars(\E t \in timers : t.id = s /\ (BeginBatch(t) \/ RejectCallback(t)))
  /\ WF_vars(BatchPauses \/ BatchEnds)
  /\ WF_vars(Tick)

FairSpec == Spec /\ Fairness

----------------------------------------------------------------------------
(* Properties                                                              *)

\* Between batches a running machine has exactly one callback that will be
\* accepted, and a stopped one has none, however often it was stopped, run
\* again, slowed down or reset while a cancelled callback was on its way.
OneCallback ==
  /\ \A s, t \in Current : s = t
  /\ ~inBatch => (running <=> Current # {})
  /\ inBatch => Current = {}

\* A batch never advances the machine after the user stopped or reset it, a
\* pause condition held, or a step failed, until the user asks again.
AdvanceIsAsked ==
  [][inBatch /\ count' > count => wanted /\ ~error /\ canStep]_vars

\* A batch that advances the machine waited for the delay now in force: a
\* callback asked for under an earlier one is never accepted.
DelayHonoured ==
  [][~inBatch /\ inBatch' => \E t \in timers \ timers' : t.delay = delayMs]_vars

\* With pacing, the clocks run since Run (or since the speed changed) exceed
\* the host time that has passed by less than one step: time spent paused is
\* never made up for.
PacedRun == pacing /\ running => ahead < MaxCost

\* A run is never lost or starved: until it ends, batches keep coming, and with pacing they
\* come with time to spend, whatever was overdrawn and however late the callbacks are.
RunKeepsGoing == []<>(~running \/ (inBatch /\ PacingAllows))

\* A batch begins after the delay in force and advances only what the user asked to run.
AdvancesAsAsked ==
  [][/\ inBatch /\ count' > count => wanted /\ ~error /\ canStep
     /\ ~inBatch /\ inBatch' => \E t \in timers \ timers' : t.delay = delayMs]_vars
=============================================================================
