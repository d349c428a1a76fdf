----------------------------- MODULE MCProcessors -----------------------------
(* The CPUs' execution boundaries for TLC: one behaviour drives one of the   *)
(* byte executors, another the 68000, another the 8088's segmented one,      *)
(* another the 8080 of a lesson's page, another the history of a machine's   *)
(* steps.                                                                    *)
EXTENDS AltairLessons

CONSTANTS Families, Addresses, MaxSteps, EndAddress, Levels, Masks, Offsets, PrefixLimit
\* The CPU has an address, and the 8088 an offset.
ASSUME BoundsAssumption == Addresses \in Nat \ {0} /\ Offsets \in Nat \ {0}
VARIABLES part,
          family, pc, stopped, enabled, deferred, nmiDeferred, active, call, bus, last, notices, shadow, nmis, run,
          latches, did, owed, chain, chip, ip, attempt, wires, answer

Eight == INSTANCE ByteRuntime
eight == <<family, pc, stopped, enabled, deferred, nmiDeferred, active, call, bus, last, notices, shadow, nmis, run>>
Sixteen == INSTANCE Word68000 WITH cpu <- latches
sixteen == <<latches, did, owed, chain>>
Segmented == INSTANCE SegmentedRuntime
segmented == <<chip, ip, attempt, wires, answer>>

\* Two stores after a fetch, a store that does not reach RAM, and one that changes nothing.
Bus(kind, address, value, stored) == [kind |-> kind, address |-> address, value |-> value, stored |-> stored]
Byte(address, size) == [address |-> address, bytes |-> size]
VARIABLES adapter, storage, log, history, watches, past, since, count
History == INSTANCE StepHistory WITH
    Capacity <- 2, WatchCapacity <- 2, MaxSteps <- 3, bytes <- storage, steps <- count,
    Scripts <- {<<Bus("fetch", 0, 0, FALSE), Bus("write", 0, 1, TRUE), Bus("write", 1, 0, TRUE)>>,
                <<Bus("read", 1, 0, FALSE), Bus("write", 1, 1, FALSE)>>, <<Bus("write", 0, 0, TRUE)>>},
    WatchLists <- {{}, {Byte(0, 2), Byte(1, 1)}, {Byte(0, 1), Byte(1, 1)}},
    Memories <- {0 :> 0 @@ 1 :> 0, 0 :> 0 @@ 1 :> 1}
stepHistory == <<adapter, storage, log, history, watches, past, since, count>>

MCFamilies == {<<"byte", "read">>, <<"vector", "read">>, <<"vector", "dispatch">>, <<"decoded", "dispatch">>}
MCInit == /\ Eight!Init /\ Sixteen!Init /\ Segmented!Init /\ Init /\ History!Init
          /\ part \in {"bytes", "words", "segments", "lesson", "history"}
          /\ (part # "bytes" => family = <<"byte", "read">>) /\ (part # "lesson" => lesson = "copy")
          /\ (part # "history" => adapter = "bus" /\ storage = (0 :> 0 @@ 1 :> 0))
MCNext == \/ part = "bytes" /\ Eight!Next /\ UNCHANGED <<part, sixteen, segmented, lessons, stepHistory>>
          \/ part = "words" /\ Sixteen!Next /\ UNCHANGED <<part, eight, segmented, lessons, stepHistory>>
          \/ part = "segments" /\ Segmented!Next /\ UNCHANGED <<part, eight, sixteen, lessons, stepHistory>>
          \/ part = "lesson" /\ Next /\ UNCHANGED <<part, eight, sixteen, segmented, stepHistory>>
          \/ part = "history" /\ History!Next /\ UNCHANGED <<part, eight, sixteen, segmented, lessons>>
MCSpec == MCInit /\ [][MCNext]_<<part, eight, sixteen, segmented, lessons, stepHistory>>

\* What a boundary leaves, whichever executor ran it.
AttemptsAreRecorded == Eight!AttemptsAreRecorded /\ Segmented!AttemptIsSound
\* The latches of the 68000 stay in their domains, its entries are sound and a trace is owed once.
EntriesAreSound == Sixteen!WordTypeOK /\ Sixteen!EntriesAreSound /\ Sixteen!TraceOnce
\* What the bounded runner of the byte CPUs reports.
RunReports == Eight!RunReports
\* What a page tells of the instructions it runs: the cards of a lesson, the change log and the
\* accesses to what is watched.
AccountsAreTrue == LessonsHold /\ History!ChangesLinkUp /\ History!WatchesMissNothing
===============================================================================
