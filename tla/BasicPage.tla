------------------------------ MODULE BasicPage ------------------------------
(***************************************************************************)
(* The Altair BASIC page: a serial session driven by host timers, one      *)
(* bounded batch per timer, together with the asynchronous verification of *)
(* a chosen tape file and the checkpoint kept between pages of one tab.    *)
(*                                                                         *)
(* Timer callbacks, promise continuations and events of the browser run    *)
(* one at a time, in any order; a batch runs to its end before any other.  *)
(* A token equal to the current generation or selection is modelled as a   *)
(* flag that every increment of that counter clears.                       *)
(***************************************************************************)
EXTENDS SerialSession, FiniteSets

CONSTANTS
    MaxJobs,             \* bound on the timers the host holds
    MaxChecks,           \* bound on the verifications under way
    HistoryCache         \* the browser may keep a page the user has left

ASSUME PageBoundsAssumption ==
    MaxJobs \in Nat \ {0} /\ MaxChecks \in Nat /\ HistoryCache \in BOOLEAN

VARIABLES
    jobs,                \* host timers: [id, current]
    cancel,              \* the timer the cancel function names, or NoJob
    error,               \* an exception blocks RUN until the machine changes
    file,                \* the verified tape, or Nothing
    selecting,           \* a chosen file is being verified
    checks,              \* verifications under way: [id, good, current]
    page,                \* the page in front of the user
    keptFile, keptError, \* the checkpoint's page half
    cached,              \* the page in the history cache, or Nothing
    \* History, for the properties only.
    latest,              \* the verification of the file chosen last, or NoCheck
    newest               \* no page was mounted after the one in front

executionVars == <<jobs, cancel, error>>
selectionVars == <<file, selecting, checks, latest>>
storeVars == <<checkpoint, keptFile, keptError>>
visitVars == <<page, cached, newest>>
pageVars == <<jobs, cancel, error, file, selecting, checks, page,
              keptFile, keptError, cached, latest, newest>>
vars == <<sessionVars, pageVars>>

NoJob == 0
NoCheck == 0
JobIds == 1..MaxJobs
Mounted == page # "leaving"
Free(ids, inUse) == ids \ {item.id : item \in inUse}

\* Mutant of Retired: a page does not notice that it was left.
NeverRetired == FALSE

\* A retired page was shown again from the history cache and is about to
\* be reloaded; it no longer saves.
Retired == page = "retired"

-----------------------------------------------------------------------------
(* createSerialExecution: batches and their timers *)

Current(items) == {item \in items : item.current}
Invalidated(items) == {[item EXCEPT !.current = FALSE] : item \in items}

\* Mutant of StopExecution: it relies on the host to cancel the callback.
StopExecutionByCancelling ==
    /\ running' = FALSE
    /\ jobs' \in {jobs, {j \in jobs : j.id # cancel}}
    /\ cancel' = NoJob

\* Cancelling may come too late to take the callback from the host.
StopExecution ==
    /\ running' = FALSE
    /\ jobs' \in {Invalidated(jobs), Invalidated({j \in jobs : j.id # cancel})}
    /\ cancel' = NoJob

\* Mutant of Queue: a timer the host still holds counts as the next batch.
QueueUnlessHeld(held) ==
    IF held # {} THEN jobs' = held /\ UNCHANGED cancel
    ELSE jobs' = {[id |-> 1, current |-> TRUE]} /\ cancel' = 1

Queue(held) ==
    \E id \in Free(JobIds, held) :
        /\ \A other \in Free(JobIds, held) : id <= other
        /\ jobs' = held \cup {[id |-> id, current |-> TRUE]}
        /\ cancel' = id

\* RUN: the button, then the guard of execution.run.
CanRun == ~selecting /\ ~running /\ ~error

ClickRun ==
    /\ Mounted
    /\ CanRun
    /\ Start
    /\ Queue(jobs)
    /\ UNCHANGED <<error, keptFile, keptError, selectionVars, visitVars>>

\* A callback of an older generation, or of a stopped session, does nothing.
Valid(job) == job.current /\ running

TimerFires(job) ==
    /\ Mounted /\ AtBoundary
    /\ jobs' = jobs \ {job}
    /\ \/ /\ Valid(job)
          /\ RunCalled(MaxSteps)
          /\ cancel' = NoJob
          /\ UNCHANGED <<error, keptFile, keptError, selectionVars, visitVars>>
       \/ /\ ~Valid(job)
          /\ UNCHANGED <<sessionVars, cancel, error, keptFile, keptError,
                         selectionVars, visitVars>>

BatchStep == RunStep /\ UNCHANGED pageVars

\* After the batch: an exception stops and blocks, the output captured so far
\* is printed either way, and a session still running asks for another timer.
BatchEnds ==
    /\ budget = 0
    /\ budget' = Idle /\ failed' = FALSE
    /\ Drained
    /\ error' = (error \/ failed)
    /\ IF failed THEN StopExecution
       ELSE /\ IF running THEN Queue(jobs) ELSE UNCHANGED <<jobs, cancel>>
            /\ UNCHANGED running
    /\ UNCHANGED <<machine, instance, Transport,
                   selectionVars, storeVars, visitVars>>

-----------------------------------------------------------------------------
(* Keeping the session between pages *)


ClearStore == checkpoint' = Nothing /\ keptFile' = Nothing /\ keptError' = FALSE

\* Storage takes the whole checkpoint, or fails and the older one is removed;
\* where storage is denied altogether, the removal fails as well.
Store(session, tapeFile, failure) ==
    IF Retired THEN UNCHANGED storeVars
    ELSE \/ /\ checkpoint' = session
            /\ keptFile' = tapeFile /\ keptError' = failure
         \/ ClearStore
         \/ UNCHANGED storeVars

\* Conjoined last: it saves what the rest of the action leaves.
SavePage == Store(Snapshot', file', error')

\* STOP, and hiding the tab: stop at the boundary, then save.
StopAndSave ==
    /\ Mounted /\ AtBoundary
    /\ StopExecution
    /\ UNCHANGED <<Hardware, Transport, Call, taken, error, selectionVars, visitVars>>
    /\ SavePage

\* freshTape: clear the execution, load the tape into a new machine.
FreshTape(bytes) ==
    /\ AtBoundary
    /\ StopExecution
    /\ error' = FALSE
    /\ NewInstance(bytes)
    /\ UNCHANGED <<Call, visitVars>>

ClickReload ==
    /\ Mounted /\ file # Nothing /\ ~selecting
    /\ FreshTape(file)
    /\ UNCHANGED selectionVars
    /\ SavePage

\* execution.clear, then session.reset; nothing is saved.
ClickReset ==
    /\ Mounted /\ ~selecting
    /\ StopExecution
    /\ Reset
    /\ error' = FALSE
    /\ UNCHANGED <<keptFile, keptError, selectionVars, visitVars>>

Type(byte) ==
    /\ Mounted /\ ~selecting
    /\ Send(byte)
    /\ UNCHANGED pageVars

-----------------------------------------------------------------------------
(* Choosing a tape file *)

\* Mutant of ChooseFile: an earlier verification stays valid.
ChooseFileAlso(good) ==
    /\ Mounted /\ AtBoundary
    /\ \E id \in Free(1..MaxChecks, checks) :
          /\ checks' = checks \cup {[id |-> id, good |-> good, current |-> TRUE]}
          /\ latest' = id
    /\ selecting' = TRUE
    /\ StopExecution
    /\ UNCHANGED <<Hardware, Transport, Call, taken, error, file, storeVars, visitVars>>

\* The machine stops while the file is read and its digest computed.
ChooseFile(good) ==
    /\ Mounted /\ AtBoundary
    /\ \E id \in Free(1..MaxChecks, checks) :
          /\ checks' = Invalidated(checks)
                       \cup {[id |-> id, good |-> good, current |-> TRUE]}
          /\ latest' = id
    /\ selecting' = TRUE
    /\ StopExecution
    /\ UNCHANGED <<Hardware, Transport, Call, taken, error, file, storeVars, visitVars>>

\* The continuation of a superseded choice returns without effects.
CheckEnds(check) ==
    /\ Mounted /\ AtBoundary
    /\ checks' = checks \ {check}
    /\ latest' = IF check.id = latest THEN NoCheck ELSE latest
    /\ \/ /\ check.current /\ check.good
          /\ file' \in Tapes
          /\ selecting' = FALSE
          /\ FreshTape(file')
          /\ SavePage
       \/ /\ check.current /\ ~check.good
          /\ selecting' = FALSE
          /\ UNCHANGED <<sessionVars, executionVars, file, keptFile, keptError, visitVars>>
       \/ /\ ~check.current
          /\ UNCHANGED <<sessionVars, executionVars, file, selecting,
                         keptFile, keptError, visitVars>>

-----------------------------------------------------------------------------
(* Leaving and coming back *)

PageState ==
    [session |-> Snapshot, file |-> file, error |-> error, newest |-> newest]

\* A page without a session, running batch, timer or verification.
Empty ==
    /\ machine' = NewMachine /\ instance' = 1
    /\ buffers' = [i \in Instances |-> <<>>]
    /\ ClearInput
    /\ taken' = <<>>
    /\ running' = FALSE /\ budget' = Idle /\ failed' = FALSE
    /\ file' = Nothing /\ error' = FALSE

NoCallbacks ==
    /\ jobs' = {} /\ cancel' = NoJob
    /\ checks' = {} /\ selecting' = FALSE /\ latest' = NoCheck

\* pagehide: verifications are invalidated, the machine stops and is saved.
\* The browser may keep the page, machine and all, in its history cache.
LeavePage ==
    /\ Mounted /\ AtBoundary
    /\ page' = "leaving"
    /\ Store(Snapshot, file, error)
    /\ Empty /\ NoCallbacks
    /\ cached' \in {Nothing, cached}
                   \cup (IF HistoryCache /\ ~Retired THEN {PageState} ELSE {})
    /\ UNCHANGED newest

\* The tab dies without an event: what storage holds is all that is left.
Crash ==
    /\ Mounted
    /\ page' = "leaving" /\ cached' = Nothing
    /\ Empty /\ NoCallbacks
    /\ UNCHANGED <<storeVars, newest>>

\* A page opens: it restores the checkpoint, paused, or starts empty. When the
\* read fails it starts empty too, and clears the store if it may.
Mount ==
    /\ ~Mounted
    /\ page' = "open" /\ newest' = TRUE
    /\ \/ /\ Restore
          /\ file' = keptFile /\ error' = keptError
          /\ UNCHANGED <<keptFile, keptError>>
       \/ /\ Empty
          /\ ClearStore \/ UNCHANGED storeVars
    /\ UNCHANGED <<jobs, cancel, selecting, checks, latest>>
    /\ cached' = IF cached = Nothing THEN Nothing
                 ELSE [cached EXCEPT !.newest = FALSE]

\* The browser shows the cached page again, with the machine it held.
GoBack ==
    /\ ~Mounted /\ cached # Nothing
    /\ page' = "retired" /\ cached' = Nothing
    /\ newest' = cached.newest
    /\ machine' = cached.session.machine
    /\ tape' = cached.session.tape /\ tapePosition' = cached.session.tapePosition
    /\ input' = cached.session.input
    /\ instance' = 1
    /\ buffers' = [i \in Instances |-> IF i = 1 THEN cached.session.output ELSE <<>>]
    /\ taken' = cached.session.taken
    /\ file' = cached.file /\ error' = cached.error
    /\ UNCHANGED <<running, Call, jobs, cancel, selecting, checks, latest, storeVars>>

-----------------------------------------------------------------------------

PageInit ==
    /\ Init
    /\ jobs = {} /\ cancel = NoJob /\ error = FALSE
    /\ file = Nothing /\ selecting = FALSE /\ checks = {}
    /\ page = "open"
    /\ keptFile = Nothing /\ keptError = FALSE
    /\ cached = Nothing
    /\ latest = NoCheck /\ newest = TRUE

Batch == BatchStep \/ BatchEnds
AnyTimer == \E job \in jobs : TimerFires(job)
CheckOf(id) == \E check \in checks : check.id = id /\ CheckEnds(check)
AnyChoice == \E good \in BOOLEAN : ChooseFile(good)

PageNext ==
    \/ ClickRun \/ AnyTimer \/ Batch
    \/ StopAndSave \/ ClickReload \/ ClickReset
    \/ \E byte \in Typed : Type(byte)
    \/ AnyChoice
    \/ \E id \in 1..MaxChecks : CheckOf(id)
    \/ LeavePage \/ Crash \/ Mount \/ GoBack

\* A batch returns, the host calls the timers it holds, and reading a file and
\* digesting it settle one way or the other.
Fairness ==
    /\ WF_vars(Batch)
    /\ WF_vars(AnyTimer)
    /\ \A id \in 1..MaxChecks : WF_vars(CheckOf(id))

PageSpec == PageInit /\ [][PageNext]_vars

-----------------------------------------------------------------------------
(* Properties *)

PageTypeOK ==
    /\ SessionTypeOK
    /\ jobs \subseteq [id : JobIds, current : BOOLEAN]
    /\ cancel \in JobIds \cup {NoJob}
    /\ error \in BOOLEAN
    /\ file \in Tapes \cup {Nothing} /\ keptFile \in Tapes \cup {Nothing}
    /\ checks \subseteq [id : 1..MaxChecks, good : BOOLEAN, current : BOOLEAN]
    /\ page \in {"open", "retired", "leaving"}

\* A running session has exactly one callback that will run it, and a stopped
\* one has none, so batches are neither doubled nor lost across STOP, RUN and
\* late cancellations.
OneChain ==
    Mounted /\ AtBoundary =>
        Cardinality(Current(jobs)) = IF running THEN 1 ELSE 0

\* A checkpoint with a tape attached carries that same verified file, which
\* readBasicSession requires: no sequence of choices, resets and failures
\* saves a session that the next page would refuse.
CheckpointReadable ==
    checkpoint # Nothing /\ checkpoint.tape # <<>> => keptFile = checkpoint.tape

\* A verification that ends changes the page only when it is that of the file
\* chosen last, and installs only the right tape; and until that one ends, the
\* machine it may replace neither runs nor changes. So whatever order the
\* verifications end in, nothing was chosen, started or left in between.
LastChoiceWins ==
    [][/\ \A id \in 1..MaxChecks : CheckOf(id) =>
             \/ UNCHANGED <<sessionVars, executionVars, file, selecting, storeVars>>
             \/ id = latest /\ (UNCHANGED <<machine, tape, file>>
                                \/ \E check \in checks : check.id = id /\ check.good)
       /\ latest' # NoCheck => ~running' /\ (latest' = latest => UNCHANGED machine)]_vars

\* The checkpoint is always one the next page can read, and a page shown again
\* from the history cache never writes over that of a page opened after it.
CheckpointHolds == []CheckpointReadable /\ [][checkpoint' # checkpoint => newest']_vars

\* A session that stays running keeps executing batches.
BatchesContinue == <>[]running => []<><<BatchEnds>>_vars

\* Input on offer is taken as long as the session runs and its guest keeps
\* emptying the port: no byte waits for ever on the tape or the keyboard.
InputArrives ==
    <>[]running /\ []<>Accepts(machine) =>
        []<>(Offered = <<>> \/ machine.received # <<>>)

=============================================================================
