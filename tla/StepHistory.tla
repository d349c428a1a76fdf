----------------------------- MODULE StepHistory -----------------------------
(***************************************************************************)
(* What a laboratory keeps of the steps of its machine: the change log     *)
(* (change-log.ts), a ring of boundaries with the bytes each changed, and  *)
(* the history of its watches (memory-watch-history.ts), a ring of         *)
(* accesses for each watched address.  A step may fail after some of its   *)
(* accesses; recording, the logs and the watches may change between steps. *)
(* The Apple II's adapter has every bus access of a step and pairs them    *)
(* with the stores RAM saw; those of the CoCo and the XT have the stores.  *)
(* Registers are left out: a change is a byte.                             *)
(***************************************************************************)
EXTENDS Integers, Sequences, SequencesExt, FiniteSets

CONSTANTS
    Capacity,           \* entries the log keeps
    WatchCapacity,      \* accesses kept for each watch
    Scripts,            \* the accesses of a step: [kind, address, value, stored]
    WatchLists,         \* the watches a page may have: sets of [address, bytes]
    Memories,           \* what RAM may hold when a machine is replaced
    MaxSteps            \* bound on steps and edits

VARIABLES
    adapter,            \* "bus" or "stores"
    bytes,              \* RAM
    log,                \* the change log: [ring, sequence, recording]
    history,            \* the watches' history: [captures, configured, sequence]
    watches,            \* the page's watches
    past, since,        \* history: every transfer since the last reset, and for
                        \* each watch those before it was set or cleared
    steps

vars == <<adapter, bytes, log, history, watches, past, since, steps>>

----------------------------------------------------------------------------
(* A ring: entries[cursor] = entry, cursor = (cursor + 1) % capacity.       *)

EmptyRing == [entries |-> <<>>, cursor |-> 0, captured |-> 0]
Put(ring, entry, capacity) ==
    [entries |-> IF ring.cursor < Len(ring.entries) THEN [ring.entries EXCEPT ![ring.cursor + 1] = entry]
                 ELSE Append(ring.entries, entry),
     cursor |-> (ring.cursor + 1) % capacity, captured |-> ring.captured + 1]
OldestFirst(ring) ==
    LET n == Len(ring.entries) IN [i \in 1..n |-> ring.entries[((ring.cursor + i - 1) % n) + 1]]
NewestFirst(ring) ==
    LET n == Len(ring.entries) IN [i \in 1..n |-> ring.entries[((ring.cursor - i + n) % n) + 1]]

----------------------------------------------------------------------------
(* A step: its completed accesses, and the stores RAM saw.                  *)

\* RAM after each access, and what it held before.
After(script) ==
    LET ram[n \in 0..Len(script)] ==
          IF n = 0 THEN bytes
          ELSE IF script[n].stored THEN [ram[n - 1] EXCEPT ![script[n].address] = script[n].value] ELSE ram[n - 1]
    IN  ram
Stores(script) ==
    LET ram == After(script)
        store(i) == [address |-> script[i].address, before |-> ram[i - 1][script[i].address], after |-> script[i].value]
        at == SelectSeq([i \in 1..Len(script) |-> i], LAMBDA i : script[i].stored)
    IN  [k \in 1..Len(at) |-> store(at[k])]

\* An access, with the byte that a store replaced.
Transfer(kind, address, value, before) ==
    [kind |-> kind, address |-> address, value |-> value, before |-> before]

\* The Apple II's observer pairs each write with the next store, if it is the same.
Paired(script, writes) ==
    LET same(i, k) == /\ script[i].kind = "write" /\ k < Len(writes)
                      /\ writes[k + 1].address = script[i].address /\ writes[k + 1].after = script[i].value
        index[i \in 0..Len(script)] ==
          IF i = 0 THEN 0 ELSE IF same(i, index[i - 1]) THEN index[i - 1] + 1 ELSE index[i - 1]
        seen == SelectSeq([i \in 1..Len(script) |-> i], LAMBDA i : script[i].kind # "fetch")
        one(i) == Transfer(script[i].kind, script[i].address, script[i].value,
                           IF same(i, index[i - 1]) THEN <<writes[index[i]].before>> ELSE <<>>)
    IN  [k \in 1..Len(seen) |-> one(seen[k])]
Transfers(script, writes) ==
    IF adapter = "bus" THEN Paired(script, writes)
    ELSE [k \in 1..Len(writes) |-> Transfer("write", writes[k].address, writes[k].after, <<writes[k].before>>)]

----------------------------------------------------------------------------
(* createMemoryWatchHistory                                                *)

Includes(watch, address) == watch.address <= address /\ address < watch.address + watch.bytes
NoHistory == [captures |-> <<>>, configured |-> <<>>, sequence |-> 0]

\* A new list keeps the rings of the addresses it still has.
Configured(h, list) ==
    IF h.configured = <<list>> THEN h
    ELSE [h EXCEPT !.configured = <<list>>,
            !.captures = [a \in {w.address : w \in list} |-> IF a \in DOMAIN @ THEN @[a] ELSE EmptyRing]]

\* Each watch captures each of its transfers, in their order.
Capture(h, transfer) ==
    LET entry == [number |-> h.sequence, transfer |-> transfer]
        hit == {w.address : w \in {w \in h.configured[1] : Includes(w, transfer.address)}}
    IN  [h EXCEPT !.captures = [a \in DOMAIN @ |-> IF a \in hit THEN Put(@[a], entry, WatchCapacity) ELSE @[a]]]
Observed(h, list, transfers) == FoldLeft(Capture, [Configured(h, list) EXCEPT !.sequence = @ + 1], transfers)

\* entries(watch)
Rows(watch) ==
    IF watch.address \notin DOMAIN history.captures THEN <<>>
    ELSE SelectSeq(OldestFirst(history.captures[watch.address]), LAMBDA entry : Includes(watch, entry.transfer.address))

----------------------------------------------------------------------------
(* createChangeLog                                                         *)

NewLog(recording) == [ring |-> EmptyRing, sequence |-> 0, recording |-> recording]
Entry(source, number, writes) ==
    [source |-> source, number |-> number, changes |-> SelectSeq(writes, LAMBDA w : w.before # w.after)]

\* capture: a step is counted whether or not it is recorded, and recorded whether or not it completes.
Logged(l, writes) ==
    [l EXCEPT !.sequence = @ + 1,
              !.ring = IF l.recording THEN Put(@, Entry("cpu", l.sequence + 1, writes), Capacity) ELSE @]

\* The page's step: the log captures it, and the watches see one that completed.
Outcomes == IF adapter = "bus" THEN {"executed", "unsupported", "throws"}
            ELSE {"executed", "accepted", "unsupported", "throws"}
Step(script, done, outcome) ==
    LET completed == SubSeq(script, 1, done)
        writes == Stores(completed)
        observed == outcome \in {"executed", "accepted"}
        truth == LET seen == SelectSeq([i \in 1..done |-> i],
                               LAMBDA i : IF adapter = "bus" THEN script[i].kind # "fetch" ELSE script[i].stored)
                     before(i) == IF script[i].stored THEN <<After(completed)[i - 1][script[i].address]>> ELSE <<>>
                     one(i) == Transfer(script[i].kind, script[i].address, script[i].value, before(i))
                 IN  [k \in 1..Len(seen) |-> [number |-> history.sequence + 1, transfer |-> one(seen[k])]]
    IN  /\ steps < MaxSteps /\ steps' = steps + 1
        /\ outcome \in Outcomes /\ (observed => done = Len(script))
        /\ bytes' = After(completed)[done]
        /\ log' = Logged(log, writes)
        /\ history' = IF observed THEN Observed(history, watches, Transfers(completed, writes)) ELSE history
        /\ past' = IF observed THEN past \o truth ELSE past
        /\ UNCHANGED <<adapter, watches, since>>

\* A machine replaced or reset: both start again, and RAM is whatever it is now.
ResetHistories == history' = NoHistory /\ past' = <<>> /\ since' = [a \in DOMAIN since |-> 0]
Reset(ram) ==
    /\ bytes' = ram /\ log' = NewLog(log.recording) /\ ResetHistories
    /\ UNCHANGED <<adapter, watches, steps>>

\* The Apple II's RAM editor: the histories start again with the edit.
Edit(address, value) ==
    /\ adapter = "bus" /\ value # bytes[address]
    /\ steps < MaxSteps /\ steps' = steps + 1
    /\ bytes' = [bytes EXCEPT ![address] = value]
    /\ LET change == <<[address |-> address, before |-> bytes[address], after |-> value]>>
       IN  log' = [NewLog(log.recording) EXCEPT !.sequence = 1, !.ring = Put(@, Entry("user", 1, change), Capacity)]
    /\ ResetHistories
    /\ UNCHANGED <<adapter, watches>>

Record(on) == log' = [log EXCEPT !.recording = on] /\ UNCHANGED <<adapter, bytes, history, watches, past, since, steps>>
ClearLog == log' = NewLog(log.recording) /\ UNCHANGED <<adapter, bytes, history, watches, past, since, steps>>

Watch(list) ==
    /\ list # watches
    /\ watches' = list /\ history' = Configured(history, list)
    /\ since' = [a \in {w.address : w \in list} |->
                   IF \E w \in list \cap watches : w.address = a THEN since[a] ELSE Len(past)]
    /\ UNCHANGED <<adapter, bytes, log, past, steps>>
ClearHistory ==
    /\ history' = [NoHistory EXCEPT !.sequence = history.sequence]
    /\ since' = [a \in DOMAIN since |-> Len(past)]
    /\ UNCHANGED <<adapter, bytes, log, watches, past, steps>>

Init ==
    /\ adapter \in {"bus", "stores"} /\ bytes \in Memories /\ log = NewLog(TRUE) /\ history = NoHistory
    /\ watches = {} /\ past = <<>> /\ since = <<>> /\ steps = 0
Next ==
    \/ \E script \in Scripts, outcome \in {"executed", "accepted", "unsupported", "throws"} :
         \E done \in 0..Len(script) : Step(script, done, outcome)
    \/ \E ram \in Memories : Reset(ram)
    \/ \E address \in DOMAIN bytes, value \in {0, 1} : Edit(address, value)
    \/ \E on \in BOOLEAN : Record(on)
    \/ \E list \in WatchLists : Watch(list)
    \/ ClearLog \/ ClearHistory
Spec == Init /\ [][Next]_vars

----------------------------------------------------------------------------
(* Properties.                                                             *)

\* createChangeLog: the changes it shows, newest first, are a true account of RAM.  Entries
\* with no number missing between them link up, each change starting from what the one before
\* it left, and the newest leaves what RAM holds unless a later step went unrecorded; a step
\* that failed has the changes it had made.
ChangesLinkUp ==
    LET newest == NewestFirst(log.ring)
        Linked(i) == IF i = 1 THEN newest[1].number = log.sequence ELSE newest[i].number + 1 = newest[i - 1].number
        flat == LET to[i \in 0..Len(newest)] ==
                      IF i = 0 THEN <<>>
                      ELSE to[i - 1] \o [k \in 1..Len(newest[i].changes) |->
                               [entry |-> i, change |-> newest[i].changes[Len(newest[i].changes) + 1 - k]]]
                IN  to[Len(newest)]
        Unbroken(from, to) == \A i \in from..to : Linked(i)
        Earlier(k, m) == m < k /\ flat[m].change.address = flat[k].change.address
    IN  /\ \A i \in 2..Len(newest) : newest[i].number < newest[i - 1].number
        /\ \A k \in DOMAIN flat :
             LET later == {m \in 1..(k - 1) : Earlier(k, m)}
                 next == CHOOSE m \in later : \A j \in later : j <= m
             IN  IF later = {}
                 THEN Unbroken(1, flat[k].entry) => flat[k].change.after = bytes[flat[k].change.address]
                 ELSE Unbroken(flat[next].entry + 1, flat[k].entry) => flat[k].change.after = flat[next].change.before

\* createMemoryWatchHistory: of the accesses to a range since it was watched, the newest are
\* shown in their order, whatever another watch captured, each with the byte its store
\* replaced; and nothing is shown that no step did.
WatchesMissNothing ==
    \A watch \in watches :
        LET hits == SelectSeq(SubSeq(past, since[watch.address] + 1, Len(past)), LAMBDA e : Includes(watch, e.transfer.address))
            kept == IF Len(hits) < WatchCapacity THEN Len(hits) ELSE WatchCapacity
            shown == Rows(watch)
        IN  /\ IsSuffix(SubSeq(hits, Len(hits) - kept + 1, Len(hits)), shown)
            /\ \A i \in DOMAIN shown : shown[i] \in ToSet(past)
            /\ \A i \in 2..Len(shown) : shown[i - 1].number <= shown[i].number
=============================================================================
