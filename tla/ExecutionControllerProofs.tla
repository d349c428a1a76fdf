---------------------- MODULE ExecutionControllerProofs ----------------------
(***************************************************************************)
(* Theorems about the execution controller, for every set of delays and    *)
(* callbacks, batch size, step cost, lag and number of changes.            *)
(***************************************************************************)
EXTENDS ExecutionController, TLAPS

\* Stale callbacks keep their identity and delay, and none is current.
LEMMA StaleForms ==
  ASSUME NEW held, held \subseteq Timer
  PROVE  /\ Stale(held) \subseteq Timer
         /\ \A t \in Stale(held) : ~t.current
  BY DEF Stale, Timer

LEMMA CancelledForms ==
  ASSUME ControllerTypeOK, NEW held \in Cancelled
  PROVE  /\ held \subseteq Timer
         /\ \A t \in held : ~t.current
<1>1. timers \subseteq Timer
  BY DEF ControllerTypeOK
<1>2. {t \in timers : t.id # pending} \subseteq Timer
  BY <1>1
<1>3. PICK from \in {timers, {t \in timers : t.id # pending}} : held = Stale(from)
  BY DEF Cancelled
<1> QED
  BY <1>1, <1>2, <1>3, StaleForms

\* queue() adds the one current callback, which waits for the delay in force.
LEMMA QueueForms ==
  ASSUME NEW held, held \subseteq Timer, \A t \in held : ~t.current,
         delayMs' \in Delays, Queue(held)
  PROVE  /\ timers' \subseteq Timer /\ pending' \in Slots
         /\ \E t \in timers' : t.current
         /\ \A s, t \in timers' : s.current /\ t.current => s = t
         /\ \A t \in timers' : t.current => t.delay = delayMs'
<1>1. PICK s \in Slots :
        /\ timers' = held \cup {[id |-> s, current |-> TRUE, delay |-> delayMs']}
        /\ pending' = s
  BY DEF Queue
<1> DEFINE new == [id |-> s, current |-> TRUE, delay |-> delayMs']
<1>2. new \in Timer /\ new.current /\ new.delay = delayMs'
  BY DEF Timer
<1>3. timers' = held \cup {new}
  BY <1>1
<1> HIDE DEF new
<1> QED
  BY <1>1, <1>2, <1>3

----------------------------------------------------------------------------
(* The inductive invariant: the callbacks and the loop agree on who may    *)
(* run next, and a run in progress is one the user asked for.              *)

Chain ==
  /\ \A s, t \in timers : s.current /\ t.current => s = t
  /\ ~inBatch => (running <=> \E t \in timers : t.current)
  /\ inBatch => \A t \in timers : ~t.current

Asked ==
  /\ inBatch => running
  /\ running /\ ~error => wanted
  /\ error => inBatch \/ ~running

InForce == \A t \in timers : t.current => t.delay = delayMs

\* What pacing has run is paid for by host time, up to the last step.
Budget == pacing /\ running => ahead + credit + idle <= 0 /\ credit > -MaxCost

Inv == ControllerTypeOK /\ Chain /\ Asked /\ InForce /\ Budget

\* The two halves of the type invariant: the schedule, and the numbers.
Schedule ==
  /\ running \in BOOLEAN /\ error \in BOOLEAN /\ delayMs \in Delays
  /\ timers \subseteq Timer /\ pending \in Slots \cup {None}
  /\ inBatch \in BOOLEAN /\ pacing \in BOOLEAN
  /\ canStep \in BOOLEAN /\ wanted \in BOOLEAN

Numbers ==
  /\ count \in 0..BatchSize
  /\ credit \in -MaxCost..MaxLag /\ idle \in 0..MaxIdle
  /\ ahead \in -(MaxLag + MaxIdle)..MaxCost
  /\ changes \in 0..MaxChanges

LEMMA Bounds ==
  /\ MaxCost \in Int /\ MaxCost > 0 /\ MaxLag \in Int /\ MaxLag > 0
  /\ MaxIdle = MaxLag + MaxCost
  /\ BatchSize \in Nat /\ MaxChanges \in Nat
BY ControllerAssumption DEF MaxIdle

LEMMA InvInitially ==
  ASSUME Init
  PROVE  Inv
<1>1. ControllerTypeOK
  <2>1. Schedule
    BY DEF Init, Schedule
  <2>2. Numbers
    BY Bounds DEF Init, Numbers
  <2> QED
    BY <2>1, <2>2 DEF ControllerTypeOK, Schedule, Numbers
<1>2. Chain /\ Asked /\ InForce
  BY DEF Init, Chain, Asked, InForce
<1>3. Budget
  BY Bounds DEF Init, Budget
<1> QED
  BY <1>1, <1>2, <1>3 DEF Inv

\* A host left with one current callback, for a machine that runs.
LEMMA QueuedKeeps ==
  ASSUME NEW held, held \subseteq Timer, \A t \in held : ~t.current,
         delayMs' \in Delays, Queue(held), running' = TRUE, inBatch' = FALSE
  PROVE  Chain' /\ InForce' /\ timers' \subseteq Timer /\ pending' \in Slots \cup {None}
BY QueueForms DEF Chain, InForce

\* A host left with none, for a machine that stands.
LEMMA ClearedKeeps ==
  ASSUME timers' \subseteq Timer, \A t \in timers' : ~t.current,
         running' = FALSE
  PROVE  Chain' /\ InForce'
BY DEF Chain, InForce

LEMMA RequeueKeeps ==
  ASSUME Inv, Requeue, delayMs' \in Delays, running' = running, inBatch' = FALSE
  PROVE  Chain' /\ InForce' /\ timers' \subseteq Timer /\ pending' \in Slots \cup {None}
<1>0. running \in BOOLEAN /\ ControllerTypeOK
  BY DEF Inv, ControllerTypeOK
<1>1. PICK held \in Cancelled :
        IF running THEN Queue(held) ELSE timers' = held /\ pending' = None
  BY DEF Requeue
<1>2. held \subseteq Timer /\ \A t \in held : ~t.current
  BY <1>0, CancelledForms
<1>3. CASE running
  BY <1>0, <1>1, <1>2, <1>3, QueuedKeeps
<1>4. CASE ~running
  BY <1>0, <1>1, <1>2, <1>4, ClearedKeeps
<1> QED
  BY <1>3, <1>4

\* What cancelPending() leaves.
LEMMA CancelKeeps ==
  ASSUME Inv, CancelPending, running' = FALSE
  PROVE  Chain' /\ InForce' /\ timers' \subseteq Timer /\ pending' \in Slots \cup {None}
<1>1. ControllerTypeOK
  BY DEF Inv
<1>2. timers' \subseteq Timer /\ \A t \in timers' : ~t.current
  BY <1>1, CancelledForms DEF CancelPending
<1> QED
  BY <1>2, ClearedKeeps DEF CancelPending

----------------------------------------------------------------------------
(* One lemma for each group of actions                                     *)

LEMMA CommandKeeps ==
  ASSUME Inv, Command
  PROVE  Inv'
<1> USE DEF Inv
<1>1. CASE Run
  <2>1. running' = TRUE /\ inBatch' = FALSE /\ delayMs' \in Delays /\ Queue(timers)
    BY <1>1 DEF Run, ControllerTypeOK, loop
  <2>2. \A t \in timers : ~t.current
    BY <1>1 DEF Run, Chain
  <2>3. Chain' /\ InForce' /\ timers' \subseteq Timer /\ pending' \in Slots \cup {None}
    BY <2>1, <2>2, QueuedKeeps DEF ControllerTypeOK
  <2>4. ControllerTypeOK'
    BY <1>1, <2>1, <2>3, Bounds DEF Run, ControllerTypeOK, Restart, loop
  <2>5. Asked' /\ Budget'
    BY <1>1, Bounds DEF Run, ControllerTypeOK, Asked, Budget, Restart, loop
  <2> QED
    BY <2>3, <2>4, <2>5
<1>2. CASE Stop
  <2>1. Chain' /\ InForce' /\ timers' \subseteq Timer /\ pending' \in Slots \cup {None}
    BY <1>2, CancelKeeps DEF Stop
  <2>2. ControllerTypeOK' /\ Asked' /\ Budget'
    BY <1>2, <2>1 DEF Stop, ControllerTypeOK, Asked, Budget, loop, clock
  <2> QED
    BY <2>1, <2>2
<1>3. CASE Step
  <2>1. PICK cost \in 0..MaxCost : Advance(cost)
    BY <1>3 DEF Step
  <2>2. ControllerTypeOK'
    <3>1. Schedule'
      BY <1>3, <2>1 DEF Step, Advance, ControllerTypeOK, Schedule, loop, host
    <3>2. Numbers'
      BY <1>3, <2>1, Bounds DEF Step, Advance, Most, ControllerTypeOK, Numbers, loop
    <3> QED
      BY <3>1, <3>2 DEF ControllerTypeOK, Schedule, Numbers
  <2>3. Chain' /\ InForce' /\ Asked' /\ Budget'
    BY <1>3, <2>1 DEF Step, Chain, InForce, Asked, Budget, loop, host
  <2> QED
    BY <2>2, <2>3
<1>4. CASE SetDelay
  <2>1. running' = running /\ inBatch' = FALSE /\ delayMs' \in Delays /\ Requeue
    BY <1>4 DEF SetDelay, ControllerTypeOK, loop
  <2>2. Chain' /\ InForce' /\ timers' \subseteq Timer /\ pending' \in Slots \cup {None}
    BY <2>1, RequeueKeeps
  <2>3. ControllerTypeOK'
    BY <1>4, <2>1, <2>2, Bounds DEF SetDelay, ControllerTypeOK, Restart, loop
  <2>4. Asked' /\ Budget'
    BY <1>4, <2>1, Bounds DEF SetDelay, ControllerTypeOK, Asked, Budget, Restart, loop
  <2> QED
    BY <2>2, <2>3, <2>4
<1>5. CASE SetPacing
  <2>1. running' = running /\ inBatch' = FALSE /\ delayMs' \in Delays /\ Requeue
    BY <1>5 DEF SetPacing, ControllerTypeOK, loop
  <2>2. Chain' /\ InForce' /\ timers' \subseteq Timer /\ pending' \in Slots \cup {None}
    BY <2>1, RequeueKeeps
  <2>3. ControllerTypeOK'
    BY <1>5, <2>1, <2>2, Bounds DEF SetPacing, ControllerTypeOK, Restart, loop
  <2>4. Asked' /\ Budget'
    BY <1>5, <2>1, Bounds DEF SetPacing, ControllerTypeOK, Asked, Budget, Restart, loop
  <2> QED
    BY <2>2, <2>3, <2>4
<1>6. CASE Reset
  <2>1. Chain' /\ InForce' /\ timers' \subseteq Timer /\ pending' \in Slots \cup {None}
    BY <1>6, CancelKeeps DEF Reset
  <2>2. ControllerTypeOK' /\ Asked' /\ Budget'
    BY <1>6, <2>1 DEF Reset, ControllerTypeOK, Asked, Budget, loop, clock
  <2> QED
    BY <2>1, <2>2
<1>7. CASE ReadinessChanges
  BY <1>7 DEF ReadinessChanges, ControllerTypeOK, Chain, Asked, InForce, Budget, control, host, loop, clock
<1> QED
  BY <1>1, <1>2, <1>3, <1>4, <1>5, <1>6, <1>7 DEF Command

LEMMA CallbackKeeps ==
  ASSUME Inv, Callback
  PROVE  Inv'
<1> USE DEF Inv
<1>1. PICK t \in timers : BeginBatch(t) \/ RejectCallback(t)
  BY DEF Callback
<1>2. CASE BeginBatch(t)
  <2>1. running /\ t.current /\ timers' = timers \ {t} /\ inBatch' = TRUE /\ running' = running
    BY <1>2 DEF BeginBatch, Accepted, control
  <2>2. Chain' /\ InForce'
    BY <1>1, <1>2, <2>1 DEF BeginBatch, Chain, InForce, control
  <2>3. ControllerTypeOK'
    BY <1>2, <2>1, Bounds DEF BeginBatch, ControllerTypeOK, Earned, Least, control
  <2>4. Asked' /\ Budget'
    BY <1>2, <2>1, Bounds DEF BeginBatch, ControllerTypeOK, Asked, Budget, Earned, Least, control
  <2> QED
    BY <2>2, <2>3, <2>4
<1>3. CASE RejectCallback(t)
  <2>1. timers' = timers \ {t} /\ UNCHANGED <<running, delayMs, inBatch>> /\ (running => ~t.current)
    BY <1>3 DEF RejectCallback, Accepted, control, loop
  <2>2. running => \A s \in timers : s.current => s # t
    BY <2>1
  <2>3. ~inBatch
    BY <1>3 DEF RejectCallback
  <2>4. Chain' /\ InForce'
    BY <2>1, <2>2, <2>3 DEF Chain, InForce
  <2>5. ControllerTypeOK' /\ Asked' /\ Budget'
    BY <1>3 DEF RejectCallback, ControllerTypeOK, Asked, Budget, control, loop, clock
  <2> QED
    BY <2>4, <2>5
<1> QED
  BY <1>1, <1>2, <1>3

LEMMA BatchKeeps ==
  ASSUME Inv, BatchStep \/ BatchPauses \/ BatchEnds
  PROVE  Inv'
<1> USE DEF Inv
<1>1. CASE BatchStep
  <2>1. PICK cost \in 0..MaxCost :
          Advance(cost) /\ ahead' = IF pacing THEN ahead + cost ELSE ahead
    BY <1>1 DEF BatchStep
  <2>2. Budget'
    BY <1>1, <2>1, Bounds
    DEF BatchStep, LoopGoesOn, PacingAllows, Advance, Most, ControllerTypeOK, Budget
  <2>3. ahead' \in -(MaxLag + MaxIdle)..MaxCost
    BY <1>1, <2>1, Bounds
    DEF BatchStep, LoopGoesOn, PacingAllows, ControllerTypeOK, Budget
  <2>4. ControllerTypeOK'
    <3>1. Schedule'
      BY <1>1, <2>1 DEF BatchStep, Advance, ControllerTypeOK, Schedule, host
    <3>2. Numbers'
      BY <1>1, <2>1, <2>3, Bounds DEF BatchStep, LoopGoesOn, Advance, Most, ControllerTypeOK, Numbers
    <3> QED
      BY <3>1, <3>2 DEF ControllerTypeOK, Schedule, Numbers
  <2>5. Chain' /\ InForce' /\ Asked'
    BY <1>1, <2>1 DEF BatchStep, Advance, LoopGoesOn, Chain, InForce, Asked, ControllerTypeOK, host
  <2> QED
    BY <2>2, <2>4, <2>5
<1>2. CASE BatchPauses
  <2>1. timers' = timers /\ running' = FALSE /\ \A t \in timers : ~t.current
    BY <1>2 DEF BatchPauses, Chain, host
  <2>2. Chain' /\ InForce'
    BY <2>1, ClearedKeeps DEF ControllerTypeOK
  <2>3. ControllerTypeOK' /\ Asked' /\ Budget'
    BY <1>2, <2>1 DEF BatchPauses, ControllerTypeOK, Asked, Budget, host, clock
  <2> QED
    BY <2>2, <2>3
<1>3. CASE BatchEnds
  <2>1. inBatch' = FALSE /\ delayMs' \in Delays /\ running /\ \A t \in timers : ~t.current
    BY <1>3 DEF BatchEnds, ControllerTypeOK, Chain, Asked
  <2>2. CASE error \/ ~canStep
    <3>1. running' = FALSE /\ wanted' = FALSE /\ timers' = timers /\ pending' = pending
      BY <1>3, <2>2 DEF BatchEnds, host
    <3>2. Chain' /\ InForce'
      BY <2>1, <3>1, ClearedKeeps DEF ControllerTypeOK
    <3>3. ControllerTypeOK' /\ Asked' /\ Budget'
      BY <1>3, <3>1 DEF BatchEnds, ControllerTypeOK, Asked, Budget, clock
    <3> QED
      BY <3>2, <3>3
  <2>3. CASE ~error /\ canStep
    <3>1. running' = TRUE /\ wanted' = wanted /\ Queue(timers)
      BY <1>3, <2>1, <2>3 DEF BatchEnds, ControllerTypeOK
    <3>2. Chain' /\ InForce' /\ timers' \subseteq Timer /\ pending' \in Slots \cup {None}
      BY <2>1, <3>1, QueuedKeeps DEF ControllerTypeOK
    <3>3. ControllerTypeOK' /\ Asked' /\ Budget'
      BY <1>3, <2>1, <2>3, <3>1, <3>2 DEF BatchEnds, ControllerTypeOK, Asked, Budget, clock
    <3> QED
      BY <3>2, <3>3
  <2> QED
    BY <2>2, <2>3
<1> QED
  BY <1>1, <1>2, <1>3

LEMMA TickKeeps ==
  ASSUME Inv, Tick
  PROVE  Inv'
<1> USE DEF Inv
<1>1. ControllerTypeOK'
  BY Bounds DEF Tick, Least, Most, ControllerTypeOK, control, host, loop
<1>2. Chain' /\ Asked' /\ InForce'
  BY DEF Tick, Chain, Asked, InForce, control, host, loop
<1>3. Budget'
  BY Bounds DEF Tick, Least, Most, ControllerTypeOK, Budget, control
<1> QED
  BY <1>1, <1>2, <1>3

LEMMA InvInductive ==
  ASSUME Inv, [Next]_vars
  PROVE  Inv'
<1>1. CASE UNCHANGED vars
  BY <1>1
  DEF vars, control, host, loop, clock, Inv, ControllerTypeOK, Chain, Asked, InForce, Budget
<1> QED
  BY <1>1, CommandKeeps, CallbackKeeps, BatchKeeps, TickKeeps DEF Next

\* The callbacks, the loop and the pacing of every reachable state agree.
THEOREM ControllerAgrees == Spec => []Inv
<1> QED
  BY InvInitially, InvInductive, PTL DEF Spec

----------------------------------------------------------------------------
(* The properties                                                          *)

\* Every variable of the controller stays in its domain; in particular a
\* late callback earns no more than the maximum lag.
THEOREM ControllerTypes == Spec => []ControllerTypeOK
<1>1. Inv => ControllerTypeOK
  BY DEF Inv
<1> QED
  BY <1>1, ControllerAgrees, PTL

\* A running machine has one callback to come, a stopped one none.
THEOREM ChainIsSingle == Spec => []OneCallback
<1>1. Inv => OneCallback
  BY DEF Inv, Chain, OneCallback, Current
<1> QED
  BY <1>1, ControllerAgrees, PTL

\* With pacing, a run is never a whole step ahead of the host's clock.
THEOREM RunIsPaced == Spec => []PacedRun
<1>1. Inv => PacedRun
  <2>1. SUFFICES ASSUME Inv, pacing, running
                 PROVE  ahead < MaxCost
    BY DEF PacedRun
  <2>2. ahead + credit + idle <= 0 /\ credit > -MaxCost
    BY <2>1 DEF Inv, Budget
  <2> QED
    BY <2>1, <2>2, Bounds DEF Inv, ControllerTypeOK
<1> QED
  BY <1>1, ControllerAgrees, PTL

\* Nothing but a step of a batch counts.
LEMMA OnlyBatchesCount ==
  ASSUME Inv, [Next]_vars, inBatch, count' > count
  PROVE  BatchStep
<1>1. count \in Int
  BY Bounds DEF Inv, ControllerTypeOK
<1>2. count' # count
  BY <1>1
<1> QED
  BY <1>2
  DEF Next, Command, Callback, Run, Stop, Step, SetDelay, SetPacing, Reset, ReadinessChanges,
      BeginBatch, RejectCallback, BatchPauses, BatchEnds, Tick, vars, loop

\* A batch advances the machine only while the user wants it to run.
THEOREM AdvancesAreAsked == Spec => AdvanceIsAsked
<1>1. ASSUME Inv, [Next]_vars
      PROVE  [inBatch /\ count' > count => wanted /\ ~error /\ canStep]_vars
  <2>1. CASE inBatch /\ count' > count
    <3>1. BatchStep
      BY <1>1, <2>1, OnlyBatchesCount
    <3> QED
      BY <1>1, <3>1 DEF BatchStep, LoopGoesOn, Inv, Asked
  <2> QED
    BY <2>1
<1> QED
  BY <1>1, ControllerAgrees, PTL DEF Spec, AdvanceIsAsked

\* Only an accepted callback begins a batch.
LEMMA OnlyCallbacksBegin ==
  ASSUME [Next]_vars, ~inBatch, inBatch'
  PROVE  \E t \in timers : BeginBatch(t)
BY DEF Next, Command, Callback, Run, Stop, Step, SetDelay, SetPacing, Reset, ReadinessChanges,
       RejectCallback, BatchStep, BatchPauses, BatchEnds, Tick, vars, loop

\* The batch that begins waited for the delay now in force.
THEOREM DelaysAreHonoured == Spec => DelayHonoured
<1>1. ASSUME Inv, [Next]_vars
      PROVE  [~inBatch /\ inBatch' => \E t \in timers \ timers' : t.delay = delayMs]_vars
  <2>1. CASE ~inBatch /\ inBatch'
    <3>1. PICK t \in timers : BeginBatch(t)
      BY <1>1, <2>1, OnlyCallbacksBegin
    <3>2. t \in timers \ timers' /\ t.current
      BY <3>1 DEF BeginBatch, Accepted
    <3> QED
      BY <1>1, <3>2 DEF Inv, InForce
  <2> QED
    BY <2>1
<1> QED
  BY <1>1, ControllerAgrees, PTL DEF Spec, DelayHonoured

\* Batches wait the delay in force and advance what was asked to run.
THEOREM BatchesAdvanceAsAsked == Spec => AdvancesAsAsked
<1> DEFINE Wanted == inBatch /\ count' > count => wanted /\ ~error /\ canStep
           Waited == ~inBatch /\ inBatch' => \E t \in timers \ timers' : t.delay = delayMs
<1>1. [Wanted]_vars /\ [Waited]_vars => [Wanted /\ Waited]_vars
  OBVIOUS
<1> QED  BY <1>1, AdvancesAreAsked, DelaysAreHonoured, PTL
            DEF AdvanceIsAsked, DelayHonoured, AdvancesAsAsked
=============================================================================
