--------------------------- MODULE BasicPageProofs ---------------------------
(***************************************************************************)
(* Proofs about the Altair BASIC page, for every tape, alphabet and bound: *)
(* its batches, its choices and its checkpoint; and about the serial       *)
(* session it drives, each of whose steps is a step of the serial line or  *)
(* moves nothing the line can see.                                         *)
(***************************************************************************)
EXTENDS BasicPage, FiniteSetTheorems, SequenceTheorems, TLAPS

-----------------------------------------------------------------------------
(* One chain of batches                                                    *)

Timer == [id : JobIds, current : BOOLEAN]

\* The timers that will run the session: one for a running session between batches, none
\* while it is stopped, during a batch, and while no page is there.
ChainInv ==
    /\ jobs \subseteq Timer
    /\ running \in BOOLEAN
    /\ budget = Idle \/ budget \in Nat
    /\ AtBoundary /\ running => \E job \in jobs : Current(jobs) = {job}
    /\ ~(AtBoundary /\ running) => Current(jobs) = {}
    /\ ~Mounted => ~running /\ AtBoundary

chainVars == <<jobs, running, budget, page>>

LEMMA NoneCurrent ==
    ASSUME NEW items \in SUBSET Timer
    PROVE  Invalidated(items) \subseteq Timer /\ Current(Invalidated(items)) = {}
<1>1. \A item \in items : [item EXCEPT !.current = FALSE] \in Timer
                          /\ ~[item EXCEPT !.current = FALSE].current
  BY DEF Timer
<1> QED  BY <1>1 DEF Invalidated, Current

LEMMA Stopped ==
    ASSUME ChainInv, StopExecution
    PROVE  running' = FALSE /\ jobs' \subseteq Timer /\ Current(jobs') = {}
<1>1. \A items \in SUBSET jobs : items \in SUBSET Timer
  BY DEF ChainInv
<1> QED  BY <1>1, NoneCurrent DEF StopExecution

LEMMA Queued ==
    ASSUME jobs \subseteq Timer, Current(jobs) = {}, Queue(jobs)
    PROVE  jobs' \subseteq Timer /\ \E job \in jobs' : Current(jobs') = {job}
<1>1. PICK id \in JobIds : jobs' = jobs \cup {[id |-> id, current |-> TRUE]}
  BY DEF Queue, Free
<1> DEFINE next == [id |-> id, current |-> TRUE]
<1>2. next \in Timer /\ next.current
  BY DEF Timer
<1>3. Current(jobs') = {next}
  BY <1>1, <1>2 DEF Current
<1> QED  BY <1>1, <1>2, <1>3

\* A session between calls, and pages without one.
LEMMA ChainStays ==
    ASSUME ChainInv, UNCHANGED chainVars
    PROVE  ChainInv'
BY DEF ChainInv, chainVars, Current, AtBoundary, Mounted

LEMMA ChainEmpties ==
    ASSUME jobs' = {}, running' = FALSE, budget' = Idle
    PROVE  ChainInv'
BY DEF ChainInv, Current, AtBoundary

\* A timer that fires starts the batch it was queued for, or nothing.
LEMMA ChainFires ==
    ASSUME ChainInv, NEW job \in jobs, TimerFires(job)
    PROVE  ChainInv'
<1>1. jobs' = jobs \ {job} /\ AtBoundary /\ Mounted /\ Mounted'
  BY DEF TimerFires, visitVars, Mounted
<1>2. Current(jobs') = Current(jobs) \ {job}
  BY <1>1 DEF Current
<1>3. CASE Valid(job) /\ RunCalled(MaxSteps)
  <2>1. running /\ running' /\ budget' = MaxSteps /\ MaxSteps \in Nat
    BY <1>3, BoundsAssumption DEF RunCalled, ChainInv
  <2>2. Current(jobs') = {}
    BY <1>1, <1>2, <1>3, <2>1 DEF ChainInv, Current, Valid
  <2> QED  BY <1>1, <2>1, <2>2 DEF ChainInv, AtBoundary, Idle
<1>4. CASE ~Valid(job) /\ UNCHANGED sessionVars
  <2>1. Current(jobs') = Current(jobs)
    BY <1>1, <1>2, <1>4 DEF ChainInv, Current, Valid
  <2> QED  BY <1>1, <1>4, <2>1 DEF ChainInv, sessionVars, AtBoundary, Current
<1> QED  BY <1>3, <1>4 DEF TimerFires

\* A batch keeps its timers; its end asks for the next one, or stops.
LEMMA ChainBatches ==
    ASSUME ChainInv, Batch
    PROVE  ChainInv'
<1>1. ~AtBoundary /\ Mounted /\ Mounted' /\ Current(jobs) = {} /\ jobs \subseteq Timer
  BY DEF Batch, BatchStep, BatchEnds, RunStep, ChainInv, AtBoundary, Idle, pageVars,
     visitVars, Mounted
<1>2. CASE BatchStep
  <2>1. jobs' = jobs
    BY <1>2 DEF BatchStep, pageVars
  <2>2. running' \in BOOLEAN /\ budget' \in Nat
    <3>1. budget > 0 /\ budget \in Nat
      BY <1>1, <1>2 DEF BatchStep, RunStep, ChainInv, AtBoundary
    <3>2. (budget' = budget - 1 /\ running' = running) \/ (budget' = 0 /\ running' = FALSE)
      BY <1>2 DEF BatchStep, RunStep
    <3>3. running' \in BOOLEAN
      BY <3>2 DEF ChainInv
    <3>4. budget' \in Nat
      BY <3>1, <3>2
    <3> QED  BY <3>3, <3>4
  <2> QED  BY <1>1, <2>1, <2>2 DEF ChainInv, AtBoundary, Idle, Current
<1>3. CASE BatchEnds /\ failed
  BY <1>1, <1>3, Stopped DEF BatchEnds, ChainInv, AtBoundary, Idle
<1>4. CASE BatchEnds /\ ~failed /\ running
  <2>1. Queue(jobs) /\ running' = running /\ budget' = Idle
    BY <1>4 DEF BatchEnds
  <2> QED  BY <1>1, <1>4, <2>1, Queued DEF ChainInv, AtBoundary
<1>5. CASE BatchEnds /\ ~failed /\ ~running
  BY <1>1, <1>5 DEF BatchEnds, ChainInv, AtBoundary, Current
<1> QED  BY <1>2, <1>3, <1>4, <1>5 DEF Batch

LEMMA ChainStep ==
    ASSUME ChainInv, [PageNext]_vars
    PROVE  ChainInv'
<1>1. CASE ClickRun
  <2>1. AtBoundary /\ ~running /\ running' = TRUE /\ Queue(jobs) /\ budget' = budget
    BY <1>1 DEF ClickRun, CanRun, Start, Call
  <2>2. Mounted'
    BY <1>1 DEF ClickRun, visitVars, Mounted
  <2> QED  BY <2>1, <2>2, Queued DEF ChainInv, AtBoundary
<1>2. CASE StopAndSave \/ ClickReload \/ ClickReset \/ AnyChoice
  <2>1. Mounted' /\ budget' = Idle /\ StopExecution
    BY <1>2 DEF StopAndSave, ClickReload, FreshTape, ClickReset, Reset, AnyChoice, ChooseFile,
       AtBoundary, Call, visitVars, Mounted
  <2> QED  BY <2>1, Stopped DEF ChainInv, AtBoundary
<1>3. CASE \E id \in 1..MaxChecks : CheckOf(id)
  <2>1. PICK check \in checks : CheckEnds(check)
    BY <1>3 DEF CheckOf
  <2>2. CASE check.current /\ check.good
    <3>1. Mounted' /\ budget' = Idle /\ StopExecution
      BY <2>1, <2>2 DEF CheckEnds, FreshTape, AtBoundary, Call, visitVars, Mounted
    <3> QED  BY <3>1, Stopped DEF ChainInv, AtBoundary
  <2>3. CASE ~(check.current /\ check.good)
    <3>1. UNCHANGED chainVars
      BY <2>1, <2>3 DEF CheckEnds, chainVars, sessionVars, executionVars, visitVars
    <3> QED  BY <3>1, ChainStays
  <2> QED  BY <2>2, <2>3
<1>4. CASE \E byte \in Typed : Type(byte)
  BY <1>4, ChainStays DEF Type, Send, pageVars, Call, chainVars
<1>5. CASE LeavePage \/ Crash
  BY <1>5, ChainEmpties DEF LeavePage, Crash, Empty, NoCallbacks
<1>6. CASE Mount
  <2>1. ~Mounted /\ Mounted' /\ jobs' = jobs /\ running' = FALSE /\ budget' = Idle
    BY <1>6 DEF Mount, Mounted, Restore, Empty
  <2> QED  BY <2>1 DEF ChainInv, Current, AtBoundary
<1>7. CASE GoBack
  BY <1>7 DEF GoBack, Mounted, Call, ChainInv, Current, AtBoundary
<1>8. CASE UNCHANGED vars
  BY <1>8, ChainStays DEF vars, sessionVars, pageVars, chainVars
<1> QED  BY <1>1, <1>2, <1>3, <1>4, <1>5, <1>6, <1>7, <1>8, ChainFires, ChainBatches
         DEF PageNext, AnyTimer

\* A session that runs has one callback that will continue it and a stopped one none: late
\* cancellations, restarts and pages left behind neither double nor lose a batch.
THEOREM BatchesAreOneChain == PageSpec => []OneChain
<1>1. PageInit => ChainInv
  BY DEF PageInit, Init, ChainInv, Current, AtBoundary, Mounted
<1>2. ChainInv /\ [PageNext]_vars => ChainInv'
  BY ChainStep
<1>3. ChainInv => OneChain
  BY FS_EmptySet, FS_Singleton DEF ChainInv, OneChain
<1> QED  BY <1>1, <1>2, <1>3, PTL DEF PageSpec

-----------------------------------------------------------------------------
(* The choice made last                                                    *)

Check == [id : 1..MaxChecks, good : BOOLEAN, current : BOOLEAN]

\* A verification that still counts is that of the file chosen last, which alone bears its
\* id; and until it ends the page stands still: no batch runs and none can be asked for.
CheckInv ==
    /\ checks \subseteq Check
    /\ \A c, d \in checks : c.id = d.id => c = d
    /\ \A check \in checks : check.current <=> check.id = latest
    /\ latest = NoCheck \/ latest \in 1..MaxChecks
    /\ latest # NoCheck => selecting /\ ~running /\ AtBoundary /\ Mounted

LEMMA Superseded ==
    ASSUME NEW items \in SUBSET Check, \A c, d \in items : c.id = d.id => c = d
    PROVE  /\ Invalidated(items) \subseteq Check
           /\ \A item \in Invalidated(items) :
                 ~item.current /\ \E check \in items : check.id = item.id
           /\ \A c, d \in Invalidated(items) : c.id = d.id => c = d
<1> DEFINE late(item) == [item EXCEPT !.current = FALSE]
<1>1. \A item \in items : late(item) \in Check /\ late(item).id = item.id /\ ~late(item).current
  BY DEF Check
<1>2. Invalidated(items) = {late(item) : item \in items}
  BY DEF Invalidated
<1> HIDE DEF late
<1>3. ASSUME NEW c \in items, NEW d \in items, late(c).id = late(d).id
      PROVE  late(c) = late(d)
  <2>1. c = d
    BY <1>1, <1>3
  <2> QED  BY <2>1
<1> QED  BY <1>1, <1>2, <1>3

LEMMA ChoiceStep ==
    ASSUME CheckInv, AnyChoice
    PROVE  CheckInv' /\ UNCHANGED machine
<1>1. PICK good \in BOOLEAN : ChooseFile(good)
  BY DEF AnyChoice
<1>2. PICK id \in Free(1..MaxChecks, checks) :
         /\ checks' = Invalidated(checks) \cup {[id |-> id, good |-> good, current |-> TRUE]}
         /\ latest' = id
  BY <1>1 DEF ChooseFile
<1> DEFINE chosen == [id |-> id, good |-> good, current |-> TRUE]
<1>3. chosen \in Check /\ chosen.id = id /\ chosen.current
      /\ id \in 1..MaxChecks /\ \A check \in checks : check.id # id
  BY <1>2 DEF Free, Check
<1>4. /\ Invalidated(checks) \subseteq Check
      /\ \A item \in Invalidated(checks) : ~item.current /\ item.id # id
      /\ \A c, d \in Invalidated(checks) : c.id = d.id => c = d
  BY <1>3, Superseded DEF CheckInv
<1>5. /\ checks' \subseteq Check
      /\ \A c, d \in checks' : c.id = d.id => c = d
      /\ \A check \in checks' : check.current <=> check.id = latest'
  <2> HIDE DEF chosen
  <2>1. checks' = Invalidated(checks) \cup {chosen} /\ latest' = id
    BY <1>2 DEF chosen
  <2> QED  BY <1>3, <1>4, <2>1
<1>6. selecting' /\ ~running' /\ AtBoundary' /\ Mounted' /\ UNCHANGED machine
  BY <1>1 DEF ChooseFile, StopExecution, AtBoundary, Call, visitVars, Mounted, Hardware
<1> QED  BY <1>2, <1>3, <1>5, <1>6 DEF CheckInv

\* The verification that ends was superseded, and moves nothing, or is the latest one.
LEMMA EndStep ==
    ASSUME CheckInv, NEW check \in checks, CheckEnds(check)
    PROVE  /\ CheckInv'
           /\ \/ /\ check.id # latest /\ latest' = latest
                 /\ UNCHANGED <<sessionVars, executionVars, file, selecting, storeVars>>
              \/ /\ check.id = latest /\ latest' = NoCheck
                 /\ check.good \/ UNCHANGED <<machine, tape, file>>
<1>1. checks' = checks \ {check} /\ AtBoundary /\ Mounted
      /\ latest' = IF check.id = latest THEN NoCheck ELSE latest
  BY DEF CheckEnds
<1>2. check \in Check /\ check.id \in 1..MaxChecks
  BY DEF CheckInv, Check
<1>3. \A item \in checks' : item \in Check /\ item.id \in 1..MaxChecks /\ item.id # check.id
  BY <1>1 DEF CheckInv, Check
<1>4. CASE check.current
  <2>1. check.id = latest /\ latest' = NoCheck
    BY <1>1, <1>4 DEF CheckInv
  <2>2. \A item \in checks' : ~item.current /\ item.id # latest'
    BY <1>1, <1>3, <2>1 DEF CheckInv, NoCheck
  <2>3. check.good \/ UNCHANGED <<machine, tape, file>>
    BY <1>4 DEF CheckEnds, sessionVars
  <2> QED  BY <1>1, <1>3, <2>1, <2>2, <2>3 DEF CheckInv
<1>5. CASE ~check.current
  <2>1. check.id # latest /\ latest' = latest
    BY <1>1, <1>5 DEF CheckInv
  <2>2. UNCHANGED <<sessionVars, executionVars, file, selecting, storeVars, visitVars>>
    <3>1. UNCHANGED <<sessionVars, executionVars, file, selecting, keptFile, keptError, visitVars>>
      BY <1>5 DEF CheckEnds
    <3> QED  BY <3>1 DEF sessionVars, storeVars
  <2>3. UNCHANGED <<selecting, running, budget, page>>
    BY <2>2 DEF sessionVars, visitVars
  <2> QED  BY <1>1, <1>3, <2>1, <2>2, <2>3 DEF CheckInv, AtBoundary, Mounted
<1> QED  BY <1>4, <1>5

\* No other event ends a verification, and until the latest one ends none moves the machine.
LEMMA CheckStep ==
    ASSUME CheckInv, [PageNext]_vars
    PROVE  CheckInv' /\ (latest # NoCheck /\ latest' = latest => UNCHANGED machine)
<1>1. CASE \E id \in 1..MaxChecks : CheckOf(id)
  <2>1. PICK check \in checks : CheckEnds(check)
    BY <1>1 DEF CheckOf
  <2>2. CheckInv' /\ (UNCHANGED sessionVars \/ latest' = NoCheck)
    BY <2>1, EndStep
  <2> QED  BY <2>2 DEF sessionVars
<1>2. CASE LeavePage \/ Crash
  <2>1. checks' = {} /\ latest' = NoCheck
    BY <1>2 DEF LeavePage, Crash, NoCallbacks
  <2> QED  BY <2>1 DEF CheckInv
<1>3. CASE Mount \/ GoBack
  <2>1. ~Mounted /\ UNCHANGED <<checks, latest>>
    BY <1>3 DEF Mount, GoBack
  <2> QED  BY <2>1 DEF CheckInv
<1>4. CASE ClickRun \/ ClickReload \/ ClickReset \/ (\E byte \in Typed : Type(byte)) \/ Batch
  <2>1. ~selecting \/ ~AtBoundary
    BY <1>4 DEF ClickRun, CanRun, ClickReload, ClickReset, Type, Batch, BatchStep, BatchEnds,
       RunStep, AtBoundary, Idle
  <2>2. UNCHANGED <<checks, latest>>
    BY <1>4 DEF ClickRun, ClickReload, ClickReset, Type, Batch, BatchStep, BatchEnds, pageVars,
       selectionVars
  <2>3. latest = NoCheck
    BY <2>1 DEF CheckInv
  <2> QED  BY <2>2, <2>3 DEF CheckInv
<1>5. CASE AnyTimer
  <2>1. PICK job \in jobs : TimerFires(job)
    BY <1>5 DEF AnyTimer
  <2>2. UNCHANGED <<checks, latest, selecting, page>>
    BY <2>1 DEF TimerFires, selectionVars, visitVars
  <2>3. UNCHANGED sessionVars \/ (Valid(job) /\ running)
    BY <2>1 DEF TimerFires, Valid
  <2>4. CASE UNCHANGED sessionVars
    BY <2>2, <2>4 DEF CheckInv, sessionVars, AtBoundary, Mounted
  <2>5. CASE running
    <3>1. latest = NoCheck
      BY <2>5 DEF CheckInv
    <3> QED  BY <2>2, <3>1 DEF CheckInv
  <2> QED  BY <2>3, <2>4, <2>5
<1>6. CASE StopAndSave
  <2>1. UNCHANGED <<checks, latest, selecting, machine, budget, page>> /\ ~running'
    BY <1>6 DEF StopAndSave, StopExecution, Hardware, Call, selectionVars, visitVars
  <2> QED  BY <2>1 DEF CheckInv, AtBoundary, Mounted
<1>7. CASE UNCHANGED vars
  BY <1>7 DEF vars, pageVars, sessionVars, CheckInv, AtBoundary, Mounted
<1> QED  BY <1>1, <1>2, <1>3, <1>4, <1>5, <1>6, <1>7, ChoiceStep DEF PageNext

\* Whatever order the verifications of several files end in, only that of the file chosen
\* last may change the page, and only the right tape replaces the machine, which has neither
\* run nor changed since that choice.
THEOREM OnlyTheLastChoice == PageSpec => LastChoiceWins
<1> DEFINE Ends ==
             \A id \in 1..MaxChecks : CheckOf(id) =>
                \/ UNCHANGED <<sessionVars, executionVars, file, selecting, storeVars>>
                \/ id = latest /\ (UNCHANGED <<machine, tape, file>>
                                   \/ \E check \in checks : check.id = id /\ check.good)
           Stands == latest' # NoCheck => ~running' /\ (latest' = latest => UNCHANGED machine)
<1>1. PageInit => CheckInv
  BY DEF PageInit, CheckInv
<1>2. CheckInv /\ [PageNext]_vars => CheckInv'
  BY CheckStep
<1>3. CheckInv => Ends
  <2> SUFFICES ASSUME CheckInv, NEW check \in checks, CheckEnds(check)
               PROVE  \/ UNCHANGED <<sessionVars, executionVars, file, selecting, storeVars>>
                      \/ check.id = latest /\ (UNCHANGED <<machine, tape, file>> \/ check.good)
    BY DEF CheckOf
  <2> QED  BY EndStep
<1>4. CheckInv /\ [PageNext]_vars => Stands
  <2> SUFFICES ASSUME CheckInv, [PageNext]_vars, latest' # NoCheck
               PROVE  ~running' /\ (latest' = latest => UNCHANGED machine)
    OBVIOUS
  <2>1. CheckInv' /\ (latest' = latest => UNCHANGED machine)
    BY CheckStep
  <2> QED  BY <2>1 DEF CheckInv
<1>5. CheckInv /\ [PageNext]_vars => [Ends /\ Stands]_vars
  BY <1>3, <1>4
<1> QED  BY <1>1, <1>2, <1>5, PTL DEF PageSpec, LastChoiceWins

-----------------------------------------------------------------------------
(* The checkpoint                                                          *)

\* A session with a tape carries the file it came from.
Carried(session, tapeFile) == session.tape # <<>> => tapeFile = session.tape

\* The page in front, the page in the history cache and the store agree: each session with a
\* tape is beside its own file, and the page that may write is the newest one.
KeptInv ==
    /\ page = "open" => newest
    /\ page \in {"open", "retired", "leaving"}
    /\ tape # <<>> => file = tape
    /\ CheckpointReadable
    /\ cached = Nothing \/ \E session, tapeFile, failure, fresh :
          /\ cached = [session |-> session, file |-> tapeFile, error |-> failure,
                       newest |-> fresh]
          /\ Carried(session, tapeFile)

LEMMA Saved ==
    ASSUME CheckpointReadable, SavePage, tape' # <<>> => file' = tape'
    PROVE  CheckpointReadable' /\ (checkpoint' # checkpoint => ~Retired)
BY DEF SavePage, Store, Snapshot, ClearStore, storeVars, CheckpointReadable

LEMMA SavedLeaving ==
    ASSUME CheckpointReadable, Store(Snapshot, file, error), tape # <<>> => file = tape
    PROVE  CheckpointReadable' /\ (checkpoint' # checkpoint => ~Retired)
BY DEF Store, Snapshot, ClearStore, storeVars, CheckpointReadable

\* What no event of this page can disturb.
LEMMA VisitStays ==
    ASSUME KeptInv, UNCHANGED visitVars, CheckpointReadable', tape' # <<>> => file' = tape'
    PROVE  KeptInv'
BY DEF KeptInv, visitVars, Carried

LEMMA KeptStep ==
    ASSUME KeptInv, [PageNext]_vars
    PROVE  KeptInv' /\ (checkpoint' # checkpoint => newest')
<1>1. CheckpointReadable /\ (tape # <<>> => file = tape)
  BY DEF KeptInv
<1>2. Mounted /\ ~Retired => newest
  BY DEF KeptInv, Mounted, Retired
<1>3. CASE StopAndSave
  <2>1. Mounted /\ SavePage /\ UNCHANGED visitVars /\ tape' = tape /\ file' = file
    BY <1>3 DEF StopAndSave, Transport, selectionVars
  <2> QED  BY <1>1, <1>2, <2>1, Saved, VisitStays DEF visitVars
<1>4. CASE ClickReload
  <2>1. Mounted /\ SavePage /\ UNCHANGED visitVars /\ tape' = file /\ file' = file
    BY <1>4 DEF ClickReload, FreshTape, NewInstance, selectionVars
  <2> QED  BY <1>1, <1>2, <2>1, Saved, VisitStays DEF visitVars
<1>5. CASE ClickReset
  <2>1. UNCHANGED <<visitVars, checkpoint, keptFile>> /\ tape' = <<>>
    BY <1>5 DEF ClickReset, Reset, ClearInput
  <2> QED  BY <1>1, <2>1, VisitStays DEF CheckpointReadable
<1>6. CASE \E id \in 1..MaxChecks : CheckOf(id)
  <2>1. PICK check \in checks : CheckEnds(check)
    BY <1>6 DEF CheckOf
  <2>2. CASE check.current /\ check.good
    <3>1. Mounted /\ SavePage /\ UNCHANGED visitVars /\ tape' = file'
      BY <2>1, <2>2 DEF CheckEnds, FreshTape, NewInstance
    <3> QED  BY <1>1, <1>2, <3>1, Saved, VisitStays DEF visitVars
  <2>3. CASE ~(check.current /\ check.good)
    <3>1. UNCHANGED <<visitVars, checkpoint, keptFile, tape, file>>
      BY <2>1, <2>3 DEF CheckEnds, sessionVars
    <3> QED  BY <1>1, <3>1, VisitStays DEF CheckpointReadable
  <2> QED  BY <2>2, <2>3
<1>7. CASE LeavePage
  <2>1. /\ Mounted /\ Store(Snapshot, file, error) /\ newest' = newest
        /\ page' = "leaving" /\ tape' = <<>>
        /\ cached' \in {Nothing, cached, PageState}
    BY <1>7 DEF LeavePage, Empty, ClearInput
  <2>2. CheckpointReadable' /\ (checkpoint' # checkpoint => ~Retired)
    BY <1>1, <2>1, SavedLeaving
  <2>3. PageState = [session |-> Snapshot, file |-> file, error |-> error, newest |-> newest]
        /\ Carried(Snapshot, file)
    BY <1>1 DEF PageState, Carried, Snapshot
  <2> QED  BY <1>2, <2>1, <2>2, <2>3 DEF KeptInv
<1>8. CASE Crash
  <2>1. UNCHANGED <<checkpoint, keptFile, newest>> /\ page' = "leaving" /\ tape' = <<>>
        /\ cached' = Nothing
    BY <1>8 DEF Crash, Empty, ClearInput, storeVars
  <2> QED  BY <1>1, <2>1 DEF KeptInv, CheckpointReadable
<1>9. CASE Mount
  <2>1. page' = "open" /\ newest'
    BY <1>9 DEF Mount
  <2>2. CheckpointReadable' /\ (tape' # <<>> => file' = tape')
    <3>1. CASE Restore /\ file' = keptFile /\ UNCHANGED keptFile
      BY <1>1, <3>1 DEF Restore, CheckpointReadable
    <3>2. CASE Empty /\ (ClearStore \/ UNCHANGED storeVars)
      BY <1>1, <3>2 DEF Empty, ClearInput, ClearStore, storeVars, CheckpointReadable
    <3> QED  BY <1>9, <3>1, <3>2 DEF Mount
  <2>3. \/ cached' = Nothing
        \/ \E session, tapeFile, failure, fresh :
              /\ cached' = [session |-> session, file |-> tapeFile, error |-> failure,
                            newest |-> fresh]
              /\ Carried(session, tapeFile)
    <3>1. CASE cached = Nothing
      BY <1>9, <3>1 DEF Mount
    <3>2. CASE cached # Nothing
      <4>1. PICK session, tapeFile, failure, fresh :
              /\ cached = [session |-> session, file |-> tapeFile, error |-> failure,
                            newest |-> fresh]
              /\ Carried(session, tapeFile)
        BY <3>2 DEF KeptInv
      <4>2. cached' = [session |-> session, file |-> tapeFile, error |-> failure,
                       newest |-> FALSE]
        BY <1>9, <3>2, <4>1 DEF Mount
      <4> QED  BY <4>1, <4>2
    <3> QED  BY <3>1, <3>2
  <2> QED  BY <2>1, <2>2, <2>3 DEF KeptInv
<1>10. CASE GoBack
  <2>1. /\ UNCHANGED <<checkpoint, keptFile>> /\ page' = "retired" /\ cached' = Nothing
        /\ tape' = cached.session.tape /\ file' = cached.file /\ cached # Nothing
    BY <1>10 DEF GoBack, storeVars
  <2> QED  BY <1>1, <2>1 DEF KeptInv, Carried, CheckpointReadable
<1>11. ASSUME [ClickRun \/ AnyTimer \/ Batch \/ (\E byte \in Typed : Type(byte)) \/ AnyChoice]_vars
       PROVE  UNCHANGED <<visitVars, checkpoint, keptFile, tape, file>>
  <2>1. CASE ClickRun \/ AnyTimer
    BY <2>1 DEF ClickRun, Start, AnyTimer, TimerFires, RunCalled, sessionVars, Transport,
       selectionVars
  <2>2. CASE Batch
    BY <2>2 DEF Batch, BatchStep, BatchEnds, RunStep, ExecuteInstruction, pageVars, visitVars,
       Transport, selectionVars, storeVars
  <2>3. CASE (\E byte \in Typed : Type(byte)) \/ AnyChoice
    BY <2>3 DEF Type, Send, AnyChoice, ChooseFile, pageVars, visitVars, Transport, storeVars
  <2>4. CASE UNCHANGED vars
    BY <2>4 DEF vars, sessionVars, pageVars, visitVars
  <2> QED  BY <1>11, <2>1, <2>2, <2>3, <2>4
<1>12. CASE [ClickRun \/ AnyTimer \/ Batch \/ (\E byte \in Typed : Type(byte)) \/ AnyChoice]_vars
  BY <1>1, <1>11, <1>12, VisitStays DEF CheckpointReadable
<1> QED  BY <1>3, <1>4, <1>5, <1>6, <1>7, <1>8, <1>9, <1>10, <1>12 DEF PageNext

\* The next page can always read what was kept, whichever choices, failures and crashes came
\* before, and a page shown again from the history cache never writes over a newer page.
THEOREM CheckpointsHold == PageSpec => CheckpointHolds
<1>1. PageInit => KeptInv
  BY DEF PageInit, Init, KeptInv, CheckpointReadable
<1>2. KeptInv /\ [PageNext]_vars => KeptInv' /\ [checkpoint' # checkpoint => newest']_vars
  BY KeptStep
<1>3. KeptInv => CheckpointReadable
  BY DEF KeptInv
<1> QED  BY <1>1, <1>2, <1>3, PTL DEF PageSpec, CheckpointHolds

-----------------------------------------------------------------------------
(* What the queues and the store hold                                      *)

Port == [configured : BOOLEAN, received : {<<>>} \cup {<<byte>> : byte \in Byte},
         heard : Byte \cup {Silence}]

Sessions ==
    {session \in [machine : Port, tape : Seq(Byte), tapePosition : Nat, input : Seq(Byte),
                  output : Seq(Byte), taken : Seq(Byte)] :
        session.tapePosition <= Len(session.tape)}

SessionInv ==
    /\ machine \in Port
    /\ instance \in Instances
    /\ buffers \in [Instances -> Seq(Byte)]
    /\ tape \in Seq(Byte) /\ tapePosition \in Nat /\ tapePosition <= Len(tape)
    /\ input \in Seq(Byte) /\ taken \in Seq(Byte)
    /\ checkpoint \in {Nothing} \cup Sessions

LEMMA Received ==
    ASSUME NEW m \in Port
    PROVE  /\ m.received \in Seq(Byte)
           /\ m.received # <<>> => m.received = <<Head(m.received)>> /\ Head(m.received) \in Byte
<1>1. CASE m.received = <<>>
  BY <1>1, EmptySeq
<1>2. CASE \E byte \in Byte : m.received = <<byte>>
  BY <1>2
<1> QED  BY <1>1, <1>2 DEF Port

LEMMA RestTyped ==
    ASSUME NEW bytes \in Seq(Byte), NEW position \in Nat, position <= Len(bytes)
    PROVE  Rest(position, bytes) \in Seq(Byte)
BY SubSeqProperties DEF Rest

LEMMA ComingTyped ==
    ASSUME NEW m \in Port, NEW bytes \in Seq(Byte), NEW position \in Nat,
           position <= Len(bytes), NEW typed \in Seq(Byte)
    PROVE  /\ Coming(m, position, bytes, typed) \in Seq(Byte)
           /\ Coming(m, position, bytes, typed)
                  = m.received \o (Rest(position, bytes) \o typed)
           /\ Rest(position, bytes) \o typed \in Seq(Byte)
<1> DEFINE rest == Rest(position, bytes)
           held == m.received
<1>1. held \in Seq(Byte) /\ rest \in Seq(Byte)
  BY Received, RestTyped
<1>2. Coming(m, position, bytes, typed) = (held \o rest) \o typed
  BY DEF Coming
<1> HIDE DEF rest, held
<1>3. rest \o typed \in Seq(Byte)
  BY <1>1, ConcatProperties
<1>4. (held \o rest) \o typed = held \o (rest \o typed)
  BY <1>1, ConcatAssociative
<1>5. held \o (rest \o typed) \in Seq(Byte)
  BY <1>1, <1>3, ConcatProperties
<1> QED  BY <1>2, <1>3, <1>4, <1>5 DEF held, rest

LEMMA Consed ==
    ASSUME NEW byte \in Byte, NEW bytes \in Seq(Byte)
    PROVE  /\ <<byte>> \o bytes # <<>>
           /\ Head(<<byte>> \o bytes) = byte
           /\ Tail(<<byte>> \o bytes) = bytes
OBVIOUS

LEMMA Unconsed ==
    ASSUME NEW bytes \in Seq(Byte), bytes # <<>>
    PROVE  <<Head(bytes)>> \o Tail(bytes) = bytes /\ Tail(bytes) \in Seq(Byte)
           /\ Head(bytes) \in Byte
OBVIOUS

\* A tape's next byte, and the end of a tape.
LEMMA RestAdvances ==
    ASSUME NEW bytes \in Seq(Byte), NEW position \in Nat
    PROVE  /\ position < Len(bytes) =>
                  /\ Rest(position, bytes) = <<bytes[position + 1]>> \o Rest(position + 1, bytes)
                  /\ bytes[position + 1] \in Byte
           /\ position = Len(bytes) => Rest(position, bytes) = <<>>
<1>1. CASE position < Len(bytes)
  <2>1. position + 1 \in 1..Len(bytes) /\ Len(bytes) \in (position + 1)..Len(bytes)
    BY <1>1
  <2> QED  BY <1>1, <2>1, SubSeqRecursiveFirst, ElementOfSeq DEF Rest
<1>2. CASE position = Len(bytes)
  BY <1>2, SubSeqEmpty DEF Rest
<1> QED  BY <1>1, <1>2

-----------------------------------------------------------------------------
(* The offer, and the instruction after it                                 *)

\* An offer the port takes moves a byte from the queues into the register, and nothing else.
LEMMA OfferMoves ==
    ASSUME SessionInv, Consume
    PROVE  /\ MachineOffered \in Port /\ MachineOffered.heard = machine.heard
           /\ tapePosition' \in Nat /\ tapePosition' <= Len(tape) /\ input' \in Seq(Byte)
           /\ Coming(machine, tapePosition, tape, input)
                  = MachineOffered.received \o (Rest(tapePosition', tape) \o input')
<1>1. machine \in Port /\ tape \in Seq(Byte) /\ tapePosition \in Nat /\ tapePosition <= Len(tape)
      /\ input \in Seq(Byte)
  BY DEF SessionInv
<1>2. /\ Rest(tapePosition, tape) \o input \in Seq(Byte)
      /\ Coming(machine, tapePosition, tape, input)
            = machine.received \o (Rest(tapePosition, tape) \o input)
  BY <1>1, ComingTyped
<1>3. CASE ~OfferAccepted
  BY <1>1, <1>2, <1>3 DEF Consume, MachineOffered
<1>4. CASE OfferAccepted /\ OnTape
  <2>1. machine.received = <<>> /\ Offered = <<tape[tapePosition + 1]>>
        /\ tapePosition < Len(tape) /\ tapePosition' = tapePosition + 1 /\ input' = input
    BY <1>4 DEF OfferAccepted, Accepts, Consume, OnTape, Offered
  <2>2. tape[tapePosition + 1] \in Byte
        /\ Rest(tapePosition, tape) = <<tape[tapePosition + 1]>> \o Rest(tapePosition', tape)
    BY <1>1, <2>1, RestAdvances
  <2>3. MachineOffered \in Port /\ MachineOffered.heard = machine.heard
        /\ MachineOffered.received = <<tape[tapePosition + 1]>>
    BY <1>1, <1>4, <2>1, <2>2 DEF MachineOffered, Port
  <2>4. tapePosition' \in Nat /\ tapePosition' <= Len(tape)
    BY <1>1, <2>1
  <2>5. Coming(machine, tapePosition, tape, input) = Rest(tapePosition, tape) \o input
    BY <1>2, <2>1, ConcatEmptySeq
  <2>6. Rest(tapePosition', tape) \in Seq(Byte) /\ <<tape[tapePosition + 1]>> \in Seq(Byte)
    BY <1>1, <2>2, <2>4, RestTyped
  <2> QED  BY <1>1, <2>1, <2>2, <2>3, <2>4, <2>5, <2>6, ConcatAssociative
<1>5. CASE OfferAccepted /\ ~OnTape
  <2>1. machine.received = <<>> /\ input # <<>> /\ Offered = <<Head(input)>>
        /\ tapePosition = Len(tape) /\ tapePosition' = tapePosition /\ input' = Tail(input)
    BY <1>1, <1>5 DEF OfferAccepted, Accepts, Consume, OnTape, Offered
  <2>2. Rest(tapePosition, tape) = <<>>
    BY <1>1, <2>1, RestAdvances
  <2>3. <<Head(input)>> \o Tail(input) = input /\ Tail(input) \in Seq(Byte) /\ Head(input) \in Byte
    BY <1>1, <2>1, Unconsed
  <2>4. MachineOffered \in Port /\ MachineOffered.heard = machine.heard
        /\ MachineOffered.received = <<Head(input)>>
    BY <1>1, <1>5, <2>1, <2>3 DEF MachineOffered, Port
  <2>5. Coming(machine, tapePosition, tape, input) = input
    BY <1>1, <1>2, <2>1, <2>2, ConcatEmptySeq
  <2>6. Rest(tapePosition', tape) \o input' = Tail(input)
    BY <2>1, <2>2, <2>3, ConcatEmptySeq
  <2> QED  BY <1>1, <2>1, <2>3, <2>4, <2>5, <2>6
<1> QED  BY <1>3, <1>4, <1>5

\* What one instruction does to the register it finds.
LEMMA Executed ==
    ASSUME SessionInv, ExecuteInstruction
    PROVE  \/ /\ machine' \in {MachineOffered, [MachineOffered EXCEPT !.configured = TRUE],
                               Read(MachineOffered), MasterReset(MachineOffered)}
              /\ buffers' = buffers
           \/ /\ machine' = MachineOffered
              /\ \E byte \in Byte :
                    buffers' = [buffers EXCEPT ![instance] = Append(@, byte)]
<1>1. PICK result \in Instructions(MachineOffered) :
         machine' = result.machine
         /\ buffers' = [buffers EXCEPT ![instance] = @ \o result.says]
  BY DEF ExecuteInstruction, CapturedBy
<1>2. buffers \in [Instances -> Seq(Byte)] /\ instance \in Instances
  BY DEF SessionInv
<1>3. CASE result \in [machine : {MachineOffered, Read(MachineOffered),
                                  MasterReset(MachineOffered),
                                  [MachineOffered EXCEPT !.configured = TRUE]},
                       says : {<<>>}]
  <2>1. buffers[instance] \o result.says = buffers[instance]
    BY <1>2, <1>3, ConcatEmptySeq
  <2>2. buffers' = buffers
    BY <1>1, <1>2, <2>1
  <2> QED  BY <1>1, <1>3, <2>2
<1>4. ASSUME NEW byte \in Byte, result = [machine |-> MachineOffered, says |-> <<byte>>]
      PROVE  /\ machine' = MachineOffered
             /\ buffers' = [buffers EXCEPT ![instance] = Append(@, byte)]
  <2>1. buffers[instance] \o <<byte>> = Append(buffers[instance], byte)
    BY <1>2, AppendIsConcat
  <2> QED  BY <1>1, <1>4, <2>1
<1>5. \/ result \in [machine : {MachineOffered, Read(MachineOffered),
                                MasterReset(MachineOffered),
                                [MachineOffered EXCEPT !.configured = TRUE]},
                     says : {<<>>}]
      \/ \E byte \in Byte : result = [machine |-> MachineOffered, says |-> <<byte>>]
  BY BytesAssumption DEF Instructions
<1> QED  BY <1>3, <1>4, <1>5

LEMMA PortsKept ==
    ASSUME NEW m \in Port
    PROVE  /\ [m EXCEPT !.configured = TRUE] \in Port /\ [m EXCEPT !.configured = TRUE].heard = m.heard
           /\ [m EXCEPT !.configured = TRUE].received = m.received
           /\ Read(m) \in Port /\ Read(m).received = <<>>
           /\ m.received = <<>> => Read(m).heard = m.heard
           /\ m.received # <<>> => Read(m).heard = Head(m.received)
           /\ MasterReset(m) \in Port /\ MasterReset(m).received = <<>>
           /\ MasterReset(m).heard = m.heard
BY Received DEF Port, Read, MasterReset

LEMMA NewMachines ==
    /\ NewMachine \in Port /\ NewMachine.received = <<>> /\ NewMachine.heard = Silence
    /\ instance \in Instances => NextInstance \in Instances
<1>1. instance \in Instances => instance % MaxInstances \in 0..(MaxInstances - 1)
  BY BoundsAssumption DEF Instances
<1> QED  BY <1>1, BoundsAssumption DEF NewMachine, Port, NextInstance, Instances

LEMMA SnapshotTyped ==
    ASSUME SessionInv
    PROVE  Snapshot \in Sessions
BY DEF SessionInv, Snapshot, Sessions, Captured

LEMMA ExecutedInv ==
    ASSUME SessionInv, ExecuteInstruction
    PROVE  SessionInv'
<1>1. Consume /\ UNCHANGED <<instance, tape, taken, checkpoint>>
  BY DEF ExecuteInstruction
<1>2. MachineOffered \in Port /\ tapePosition' \in Nat /\ tapePosition' <= Len(tape)
      /\ input' \in Seq(Byte)
  BY <1>1, OfferMoves
<1>3. machine' \in Port /\ buffers' \in [Instances -> Seq(Byte)]
  <2>1. CASE buffers' = buffers
             /\ machine' \in {MachineOffered, [MachineOffered EXCEPT !.configured = TRUE],
                              Read(MachineOffered), MasterReset(MachineOffered)}
    BY <1>2, <2>1, PortsKept DEF SessionInv
  <2>2. ASSUME machine' = MachineOffered, NEW byte \in Byte,
               buffers' = [buffers EXCEPT ![instance] = Append(@, byte)]
        PROVE  machine' \in Port /\ buffers' \in [Instances -> Seq(Byte)]
    <3>1. Append(buffers[instance], byte) \in Seq(Byte)
      BY AppendProperties DEF SessionInv
    <3> QED  BY <1>2, <2>2, <3>1 DEF SessionInv
  <2> QED  BY <2>1, <2>2, Executed
<1> QED  BY <1>1, <1>2, <1>3 DEF SessionInv

LEMMA InvStep ==
    ASSUME SessionInv, [Next]_sessionVars
    PROVE  SessionInv'
<1>1. CASE \E byte \in Typed : Send(byte)
  <2>1. PICK byte \in Byte : Send(byte)
    BY <1>1, BytesAssumption
  <2>2. Append(input, byte) \in Seq(Byte)
    BY AppendProperties DEF SessionInv
  <2> QED  BY <2>1, <2>2 DEF Send, Hardware, SessionInv
<1>2. CASE Start \/ Stop \/ (\E maxSteps \in 0..MaxSteps : RunCalled(maxSteps)) \/ RunReturns
  BY <1>2 DEF Start, Stop, RunCalled, RunReturns, Hardware, Transport, SessionInv
<1>3. CASE Step \/ RunStep
  BY <1>3, ExecutedInv DEF Step, RunStep
<1>4. CASE DrainOutput
  <2>1. taken \o Captured \in Seq(Byte)
    BY ConcatProperties DEF SessionInv, Captured
  <2>2. buffers' \in [Instances -> Seq(Byte)]
    BY <1>4, EmptySeq DEF DrainOutput, Drained, SessionInv
  <2> QED  BY <1>4, <2>1, <2>2 DEF DrainOutput, Drained, Transport, SessionInv
<1>5. CASE Reset \/ ResetFails
  <2>1. machine' \in Port /\ UNCHANGED <<instance, buffers, taken, checkpoint>>
    BY <1>5, PortsKept DEF Reset, ResetFails, SessionInv
  <2>2. tape' \in Seq(Byte) /\ tapePosition' \in Nat /\ tapePosition' <= Len(tape')
        /\ input' \in Seq(Byte)
    <3>1. CASE Reset
      <4>1. tape' = <<>> /\ tapePosition' = 0 /\ input' = <<>>
        BY <3>1 DEF Reset, ClearInput
      <4> QED  BY <4>1, EmptySeq
    <3>2. CASE ResetFails
      BY <3>2 DEF ResetFails, Transport, SessionInv
    <3> QED  BY <1>5, <3>1, <3>2
  <2> QED  BY <2>1, <2>2 DEF SessionInv
<1>6. CASE \E bytes \in Tapes : Reload(bytes)
  <2>1. PICK bytes \in Seq(Byte) : Reload(bytes)
    BY <1>6, BytesAssumption
  <2>2. Len(bytes) >= 0
    BY LenProperties
  <2>3. machine' \in Port /\ instance' = NextInstance /\ NextInstance \in Instances
    BY <2>1, NewMachines DEF Reload, NewInstance, SessionInv
  <2>4. buffers' \in [Instances -> Seq(Byte)] /\ taken' \in Seq(Byte) /\ input' \in Seq(Byte)
    BY <2>1, EmptySeq DEF Reload, NewInstance, SessionInv
  <2> QED  BY <2>1, <2>2, <2>3, <2>4 DEF Reload, NewInstance, SessionInv
<1>7. CASE \E old \in Instances, byte \in Spoken : OldMachineSays(old, byte)
  <2>1. PICK old \in Instances, byte \in Byte : OldMachineSays(old, byte)
    BY <1>7, BytesAssumption
  <2>2. Append(buffers[old], byte) \in Seq(Byte)
    BY AppendProperties DEF SessionInv
  <2>3. buffers' \in [Instances -> Seq(Byte)]
    BY <2>1, <2>2 DEF OldMachineSays, CapturedBy, SessionInv
  <2> QED  BY <2>1, <2>3 DEF OldMachineSays, Transport, SessionInv
<1>8. CASE Save \/ SaveFails
  <2>1. checkpoint' \in {Nothing} \cup Sessions
    BY <1>8, SnapshotTyped DEF Save, SaveFails, SessionInv
  <2> QED  BY <1>8, <2>1 DEF Save, SaveFails, Hardware, Transport, SessionInv
<1>9. CASE Restore
  <2>1. checkpoint \in Sessions
    BY <1>9 DEF Restore, SessionInv
  <2>2. 1 \in Instances
    BY BoundsAssumption DEF Instances
  <2>3. /\ checkpoint.machine \in Port /\ checkpoint.tape \in Seq(Byte)
        /\ checkpoint.tapePosition \in Nat /\ checkpoint.tapePosition <= Len(checkpoint.tape)
        /\ checkpoint.input \in Seq(Byte) /\ checkpoint.output \in Seq(Byte)
        /\ checkpoint.taken \in Seq(Byte)
    BY <2>1 DEF Sessions
  <2> QED  BY <1>9, <2>2, <2>3, EmptySeq DEF Restore, SessionInv
<1>10. CASE UNCHANGED sessionVars
  BY <1>10 DEF sessionVars, SessionInv
<1> QED  BY <1>1, <1>2, <1>3, <1>4, <1>5, <1>6, <1>7, <1>8, <1>9, <1>10 DEF Next

-----------------------------------------------------------------------------
(* Each step, as the line sees it                                          *)

\* The bytes under way, as the register and the rest of the queues.
LEMMA ComingNow ==
    ASSUME SessionInv
    PROVE  /\ Coming(machine, tapePosition, tape, input) \in Seq(Byte)
           /\ Coming(machine, tapePosition, tape, input)
                 = machine.received \o (Rest(tapePosition, tape) \o input)
           /\ Rest(tapePosition, tape) \o input \in Seq(Byte)
           /\ Captured \in Seq(Byte)
BY ComingTyped DEF SessionInv, Captured

\* The guest hears the byte in its register.
LEMMA HeadTaken ==
    ASSUME NEW m \in Port, m.received # <<>>, NEW rest \in Seq(Byte)
    PROVE  /\ m.received \o rest # <<>>
           /\ Head(m.received \o rest) = Head(m.received)
           /\ Tail(m.received \o rest) = rest
BY Received, Consed

LEMMA ExecutedOnLine ==
    ASSUME SessionInv, ExecuteInstruction
    PROVE  [Line!Next]_Line!lineVars
<1> DEFINE rest == Rest(tapePosition', tape) \o input'
           now == Coming(machine, tapePosition, tape, input)
           next == Coming(machine, tapePosition, tape, input)'
<1>1. Consume /\ UNCHANGED <<instance, tape, taken, checkpoint>> /\ Kept' = Kept
  BY DEF ExecuteInstruction, Kept
<1>2. /\ MachineOffered \in Port /\ MachineOffered.heard = machine.heard
      /\ now = MachineOffered.received \o rest
  BY <1>1, OfferMoves
<1>3. rest \in Seq(Byte) /\ next = machine'.received \o rest
  <2>1. machine' \in Port /\ tape' \in Seq(Byte) /\ tapePosition' \in Nat
        /\ tapePosition' <= Len(tape') /\ input' \in Seq(Byte)
    BY ExecutedInv DEF SessionInv
  <2>2. /\ Coming(machine', tapePosition', tape', input')
              = machine'.received \o (Rest(tapePosition', tape') \o input')
        /\ Rest(tapePosition', tape') \o input' \in Seq(Byte)
    BY <2>1, ComingTyped
  <2> QED  BY <1>1, <2>2 DEF Coming
<1>4. buffers \in [Instances -> Seq(Byte)] /\ instance \in Instances
  BY DEF SessionInv
<1> HIDE DEF rest, now, next
<1>5. CASE /\ machine' = MachineOffered
           /\ \E byte \in Byte : buffers' = [buffers EXCEPT ![instance] = Append(@, byte)]
  <2>1. PICK byte \in Byte : buffers' = [buffers EXCEPT ![instance] = Append(@, byte)]
    BY <1>5
  <2>2. Captured' = Append(Captured, byte)
    BY <1>1, <1>4, <2>1 DEF Captured
  <2>3. next = now /\ machine'.heard = machine.heard
    BY <1>2, <1>3, <1>5
  <2>4. Line!Say(byte)
    BY <1>1, <2>2, <2>3 DEF Line!Say, Line!Become, Line!Now, now, next
  <2> QED  BY <2>4 DEF Line!Next
<1>6. CASE buffers' = buffers
           /\ machine' \in {MachineOffered, [MachineOffered EXCEPT !.configured = TRUE],
                            Read(MachineOffered), MasterReset(MachineOffered)}
  <2>1. Captured' = Captured
    BY <1>1, <1>6 DEF Captured
  <2>2. CASE machine'.received = MachineOffered.received /\ machine'.heard = machine.heard
    <3>1. next = now
      BY <1>2, <1>3, <2>2
    <3> QED  BY <1>1, <2>1, <2>2, <3>1 DEF Line!lineVars, now, next
  <2>3. CASE MachineOffered.received # <<>> /\ machine' = Read(MachineOffered)
    <3>1. next = rest
      BY <1>2, <1>3, <2>3, PortsKept, ConcatEmptySeq
    <3>2. rest = Tail(now) /\ Head(MachineOffered.received) = Head(now) /\ now # <<>>
      BY <1>2, <1>3, <2>3, HeadTaken
    <3>3. machine'.heard = Head(now)
      BY <1>2, <2>3, <3>2, PortsKept
    <3>4. Line!Hear
      BY <1>1, <2>1, <3>1, <3>2, <3>3 DEF Line!Hear, Line!Become, Line!Now, now, next
    <3> QED  BY <3>4 DEF Line!Next
  <2>4. CASE MachineOffered.received # <<>> /\ machine' = MasterReset(MachineOffered)
    <3>1. next = rest /\ machine'.heard = machine.heard
      BY <1>2, <1>3, <2>4, PortsKept, ConcatEmptySeq
    <3>2. rest = Tail(now) /\ now # <<>>
      BY <1>2, <1>3, <2>4, HeadTaken
    <3>3. Line!Drop
      BY <1>1, <2>1, <3>1, <3>2 DEF Line!Drop, Line!Become, Line!Now, now, next
    <3> QED  BY <3>3 DEF Line!Next
  <2> QED  BY <1>2, <1>6, <2>2, <2>3, <2>4, PortsKept
<1> QED  BY <1>5, <1>6, Executed

LEMMA PrefixKept ==
    ASSUME NEW bytes \in Seq(Byte), NEW byte \in Byte
    PROVE  Line!IsPrefix(bytes, bytes \o <<byte>>) /\ bytes \o <<byte>> \in Seq(Byte)
<1>1. <<byte>> \in Seq(Byte) /\ Len(<<byte>>) = 1
  OBVIOUS
<1>2. bytes \o <<byte>> \in Seq(Byte) /\ Len(bytes \o <<byte>>) = Len(bytes) + 1
      /\ Len(bytes) \in Nat
  BY <1>1, ConcatProperties, LenProperties
<1>3. SubSeq(bytes \o <<byte>>, 1, Len(bytes)) = SubSeq(bytes, 1, Len(bytes))
  <2>1. CASE Len(bytes) = 0
    BY <2>1, SubSeqEmpty
  <2>2. CASE Len(bytes) # 0
    BY <1>1, <1>2, <2>2, SubSeqOfConcat1
  <2> QED  BY <2>1, <2>2
<1> QED  BY <1>2, <1>3 DEF Line!IsPrefix

LEMMA SentOnLine ==
    ASSUME SessionInv, NEW byte \in Byte, Send(byte)
    PROVE  Line!Queue
<1> DEFINE rest == Rest(tapePosition, tape)
           now == Coming(machine, tapePosition, tape, input)
           next == Coming(machine, tapePosition, tape, input)'
<1>1. UNCHANGED <<machine, instance, buffers, tape, tapePosition, taken, checkpoint>>
      /\ input' = Append(input, byte)
  BY DEF Send, Hardware
<1>2. machine.received \o rest \in Seq(Byte) /\ input \in Seq(Byte) /\ <<byte>> \in Seq(Byte)
  BY Received, RestTyped, ConcatProperties DEF SessionInv
<1>3. next = (machine.received \o rest) \o (input \o <<byte>>)
  BY <1>1, <1>2, AppendIsConcat DEF Coming
<1>4. next = now \o <<byte>> /\ now \in Seq(Byte)
  <2> HIDE DEF rest, next
  <2>1. now = (machine.received \o rest) \o input
    BY DEF Coming, rest
  <2> DEFINE held == machine.received \o rest
  <2>2. now = held \o input /\ next = held \o (input \o <<byte>>) /\ held \in Seq(Byte)
    BY <1>2, <1>3, <2>1
  <2> HIDE DEF held, now
  <2>3. now \in Seq(Byte)
    BY <1>2, <2>2, ConcatProperties
  <2>4. next = (held \o input) \o <<byte>>
    BY <1>2, <2>2, ConcatAssociative
  <2> QED  BY <2>2, <2>3, <2>4
<1>5. Captured' = Captured /\ machine'.heard = machine.heard /\ Kept' = Kept
  BY <1>1 DEF Captured, Kept
<1> QED  BY <1>1, <1>4, <1>5, PrefixKept DEF Line!Queue

LEMMA ResetOnLine ==
    ASSUME SessionInv, Reset \/ ResetFails
    PROVE  [Line!Next]_Line!lineVars
<1>1. UNCHANGED <<instance, buffers, taken, checkpoint>>
      /\ machine' \in {machine, MasterReset(machine)}
  BY DEF Reset, ResetFails
<1>2. Captured' = Captured /\ machine'.heard = machine.heard /\ Kept' = Kept
  BY <1>1, PortsKept DEF Captured, Kept, SessionInv
<1>3. CASE Reset
  <2>1. machine'.received = <<>> /\ tape' = <<>> /\ tapePosition' = 0 /\ input' = <<>>
    BY <1>3, PortsKept DEF Reset, ClearInput, SessionInv
  <2>2. Rest(0, <<>>) = <<>>
    BY EmptySeq, RestAdvances
  <2>3. Coming(machine, tapePosition, tape, input)' = <<>>
    BY <2>1, <2>2, EmptySeq, ConcatEmptySeq DEF Coming
  <2>4. Line!Restart
    BY <1>1, <1>2, <2>3 DEF Line!Restart, Line!Become, Line!Now
  <2> QED  BY <2>4 DEF Line!Next
<1>4. CASE ResetFails /\ machine'.received = machine.received
  <2>1. Coming(machine, tapePosition, tape, input)' = Coming(machine, tapePosition, tape, input)
    BY <1>4 DEF ResetFails, Transport, Coming
  <2> QED  BY <1>1, <1>2, <2>1 DEF Line!lineVars
<1>5. CASE ResetFails /\ machine' = MasterReset(machine) /\ machine.received # <<>>
  <2>1. UNCHANGED <<tape, tapePosition, input>> /\ machine \in Port /\ machine'.received = <<>>
    BY <1>5, PortsKept DEF ResetFails, Transport, SessionInv
  <2> DEFINE rest == Rest(tapePosition, tape) \o input
             now == Coming(machine, tapePosition, tape, input)
  <2>2. now = machine.received \o rest /\ rest \in Seq(Byte)
    BY ComingNow
  <2>3. Coming(machine, tapePosition, tape, input)' = <<>> \o rest
    <3>1. machine' \in Port
      BY <1>5, <2>1, PortsKept
    <3>2. Coming(machine', tapePosition', tape', input') = machine'.received \o rest
      BY <2>1, <3>1, ComingTyped DEF SessionInv
    <3> QED  BY <2>1, <3>2 DEF Coming
  <2> HIDE DEF rest, now
  <2>4. now # <<>> /\ Tail(now) = rest
    BY <1>5, <2>1, <2>2, HeadTaken
  <2>5. Coming(machine, tapePosition, tape, input)' = Tail(now)
    BY <2>2, <2>3, <2>4, ConcatEmptySeq
  <2>6. Line!Drop
    BY <1>1, <1>2, <2>4, <2>5 DEF Line!Drop, Line!Become, Line!Now, now
  <2> QED  BY <2>6 DEF Line!Next
<1>6. \/ machine'.received = machine.received
      \/ machine' = MasterReset(machine) /\ machine.received # <<>>
  <2>1. MasterReset(machine).received = <<>>
    BY PortsKept DEF SessionInv
  <2> QED  BY <1>1, <2>1
<1> QED  BY <1>3, <1>4, <1>5, <1>6

LEMMA LoadedOnLine ==
    ASSUME SessionInv, NEW bytes \in Seq(Byte), Reload(bytes)
    PROVE  Line!Load
<1>1. /\ machine' = NewMachine /\ tape' = bytes /\ tapePosition' = 0 /\ input' = <<>>
      /\ taken' = <<>> /\ checkpoint' = checkpoint
      /\ instance' = NextInstance
      /\ buffers' = [buffers EXCEPT ![NextInstance] = <<>>]
  BY DEF Reload, NewInstance
<1>2. Captured' = <<>>
  BY <1>1, NewMachines DEF Captured, SessionInv
<1>3. Coming(machine', tapePosition', tape', input') \in Seq(Byte)
  <2>1. Len(bytes) >= 0
    BY LenProperties
  <2> QED  BY <1>1, <2>1, NewMachines, EmptySeq, ComingTyped
<1>4. Coming(machine, tapePosition, tape, input)' \in Seq(Byte)
  BY <1>3 DEF Coming
<1>5. machine'.heard = Silence /\ Kept' = Kept
  BY <1>1, NewMachines DEF Kept
<1> QED  BY <1>1, <1>2, <1>4, <1>5 DEF Line!Load, Line!Become, Line!Fresh

LEMMA SavedOnLine ==
    ASSUME SessionInv, Save \/ SaveFails
    PROVE  [Line!Next]_Line!lineVars
<1>1. UNCHANGED <<machine, instance, buffers, tape, tapePosition, input, taken>>
      /\ checkpoint' \in {Nothing, checkpoint, Snapshot}
  BY DEF Save, SaveFails, Hardware, Transport
<1>2. /\ Captured' = Captured
      /\ Coming(machine, tapePosition, tape, input)' = Coming(machine, tapePosition, tape, input)
      /\ machine'.heard = machine.heard /\ taken' = taken
  BY <1>1 DEF Captured, Coming
<1>3. CASE checkpoint' = checkpoint
  <2>1. Kept' = Kept
    BY <1>3 DEF Kept
  <2> QED  BY <1>2, <2>1 DEF Line!lineVars
<1>4. CASE checkpoint' = Nothing
  <2>1. Kept' = Nothing
    BY <1>4 DEF Kept
  <2> QED  BY <1>2, <2>1 DEF Line!Next, Line!Forget
<1>5. CASE checkpoint' = Snapshot
  <2>1. Snapshot # Nothing
    <3>1. Snapshot \in [machine : Port, tape : Seq(Byte), tapePosition : Nat,
                        input : Seq(Byte), output : Seq(Byte), taken : Seq(Byte)]
      BY SnapshotTyped DEF Sessions
    <3>2. Port \subseteq [configured : BOOLEAN, received : Seq(Byte), heard : Byte \cup {Silence}]
      BY Received DEF Port
    <3> QED  BY <3>1, <3>2, NothingAssumption
  <2>2. Kept' = Line!Now
    BY <1>5, <2>1 DEF Kept, Snapshot, Line!Now
  <2> QED  BY <1>2, <2>2 DEF Line!Next, Line!Keep
<1> QED  BY <1>1, <1>3, <1>4, <1>5

LEMMA RestoredOnLine ==
    ASSUME SessionInv, Restore
    PROVE  Line!Resume
<1>1. checkpoint \in Sessions /\ checkpoint # Nothing /\ checkpoint' = checkpoint
  BY DEF Restore, SessionInv
<1>2. Kept' = Kept
      /\ Kept = [coming |-> Coming(checkpoint.machine, checkpoint.tapePosition,
                                   checkpoint.tape, checkpoint.input),
                 heard |-> checkpoint.machine.heard,
                 said |-> checkpoint.output, taken |-> checkpoint.taken]
  BY <1>1 DEF Kept
<1>3. Kept \in [coming : Seq(Byte), heard : Byte \cup {Silence}, said : Seq(Byte),
                taken : Seq(Byte)]
  <2>1. /\ checkpoint.machine \in Port /\ checkpoint.tape \in Seq(Byte)
        /\ checkpoint.tapePosition \in Nat /\ checkpoint.tapePosition <= Len(checkpoint.tape)
        /\ checkpoint.input \in Seq(Byte) /\ checkpoint.output \in Seq(Byte)
        /\ checkpoint.taken \in Seq(Byte)
    BY <1>1 DEF Sessions
  <2>2. checkpoint.machine.heard \in Byte \cup {Silence}
    BY <2>1 DEF Port
  <2>3. Coming(checkpoint.machine, checkpoint.tapePosition,
               checkpoint.tape, checkpoint.input) \in Seq(Byte)
    BY <2>1, ComingTyped
  <2> QED  BY <1>2, <2>1, <2>2, <2>3
<1>4. Kept # Nothing
  BY <1>3, NothingAssumption
<1>5. Captured' = checkpoint.output
  <2>1. instance' = 1 /\ 1 \in Instances
        /\ buffers' = [i \in Instances |-> IF i = 1 THEN checkpoint.output ELSE <<>>]
    BY BoundsAssumption DEF Restore, Instances
  <2> QED  BY <2>1 DEF Captured
<1>6. Coming(machine, tapePosition, tape, input)'
        = Coming(checkpoint.machine, checkpoint.tapePosition, checkpoint.tape, checkpoint.input)
      /\ machine'.heard = checkpoint.machine.heard /\ taken' = checkpoint.taken
  BY DEF Restore, Coming
<1> QED  BY <1>2, <1>4, <1>5, <1>6 DEF Line!Resume, Line!Become

LEMMA LineStep ==
    ASSUME SessionInv, [Next]_sessionVars
    PROVE  [Line!Next]_Line!lineVars
<1>1. CASE \E byte \in Typed : Send(byte)
  BY <1>1, BytesAssumption, SentOnLine DEF Line!Next
<1>2. ASSUME UNCHANGED <<machine, instance, buffers, tape, tapePosition, input, taken, checkpoint>>
      PROVE  UNCHANGED Line!lineVars
  BY <1>2 DEF Line!lineVars, Coming, Captured, Kept
<1>3. CASE Start \/ Stop \/ (\E maxSteps \in 0..MaxSteps : RunCalled(maxSteps)) \/ RunReturns
           \/ UNCHANGED sessionVars
  BY <1>2, <1>3 DEF Start, Stop, RunCalled, RunReturns, Hardware, Transport, sessionVars
<1>4. CASE Step \/ RunStep
  BY <1>4, ExecutedOnLine DEF Step, RunStep
<1>5. CASE DrainOutput
  <2>1. UNCHANGED <<machine, instance, tape, tapePosition, input, checkpoint>>
        /\ taken' = taken \o Captured /\ buffers' = [buffers EXCEPT ![instance] = <<>>]
    BY <1>5 DEF DrainOutput, Drained, Transport
  <2>2. Captured' = <<>>
    BY <2>1 DEF Captured, SessionInv
  <2>3. Coming(machine, tapePosition, tape, input)' = Coming(machine, tapePosition, tape, input)
        /\ Kept' = Kept
    BY <2>1 DEF Coming, Kept
  <2>4. Line!Take
    BY <2>1, <2>2, <2>3 DEF Line!Take, Line!Become, Line!Now
  <2> QED  BY <2>4 DEF Line!Next
<1>6. CASE \E bytes \in Tapes : Reload(bytes)
  BY <1>6, BytesAssumption, LoadedOnLine DEF Line!Next
<1>7. CASE \E old \in Instances, byte \in Spoken : OldMachineSays(old, byte)
  <2>1. PICK old \in Instances, byte \in Spoken : OldMachineSays(old, byte)
    BY <1>7
  <2>2. UNCHANGED <<machine, instance, tape, tapePosition, input, taken, checkpoint>>
        /\ old # instance /\ buffers' = [buffers EXCEPT ![old] = Append(@, byte)]
    BY <2>1 DEF OldMachineSays, CapturedBy, Transport
  <2>3. Captured' = Captured
    BY <2>2 DEF Captured, SessionInv
  <2>4. Coming(machine, tapePosition, tape, input)' = Coming(machine, tapePosition, tape, input)
        /\ Kept' = Kept
    BY <2>2 DEF Coming, Kept
  <2> QED  BY <2>2, <2>3, <2>4 DEF Line!lineVars
<1>8. CASE Restore
  BY <1>8, RestoredOnLine DEF Line!Next
<1> QED  BY <1>1, <1>3, <1>4, <1>5, <1>6, <1>7, <1>8, ResetOnLine, SavedOnLine DEF Next

\* Whatever the host calls and whenever the guest reads, resets its port or fails, the session
\* is a serial line: no byte is lost, doubled or reordered on the way to the guest or back.
THEOREM SessionIsALine == Spec => ImplementsLine
<1>1. Init => SessionInv /\ Line!Init
  <2> SUFFICES ASSUME Init
               PROVE  SessionInv /\ Line!Init
    OBVIOUS
  <2>1. SessionInv
    BY EmptySeq, NewMachines, BoundsAssumption DEF Init, SessionInv, Instances
  <2>2. Rest(0, <<>>) = <<>>
    BY EmptySeq, RestAdvances
  <2>3. Coming(machine, tapePosition, tape, input) = <<>>
    BY <2>2, EmptySeq, NewMachines, ConcatEmptySeq DEF Init, Coming
  <2>4. machine.heard = Silence /\ Captured = <<>> /\ Kept = Nothing /\ taken = <<>>
    BY NewMachines, BoundsAssumption DEF Init, Captured, Instances, Kept
  <2> QED  BY <2>1, <2>3, <2>4 DEF Line!Init, Line!Now, Line!Fresh
<1>2. SessionInv /\ [Next]_sessionVars => SessionInv' /\ [Line!Next]_Line!lineVars
  BY InvStep, LineStep
<1> QED  BY <1>1, <1>2, PTL DEF Spec, ImplementsLine, Line!Spec
=============================================================================
