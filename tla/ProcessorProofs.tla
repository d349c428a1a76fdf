--------------------------- MODULE ProcessorProofs ---------------------------
(***************************************************************************)
(* What the execution boundaries of the byte CPUs, the 68000 and the 8088  *)
(* keep, for any program, any memory and any number of addresses, offsets, *)
(* levels and masks.                                                       *)
(***************************************************************************)
EXTENDS MCProcessors, SequenceTheorems, TLAPS

----------------------------------------------------------------------------
(* The byte CPUs.                                                          *)

Effects == {"fetch", "read", "write", "port", "defer", "enable", "halt", "jump", "reti", "reject"}
Transfers == {"read", "acknowledge", "write", "port"}
Outcomes == {"none", "halted", "reset", "ignored", "untimed", "unsupported", "accepted", "executed", "threw"}
Address == 0..(Addresses - 1)
Calls == [phase : {"opcode", "dispatch", "body"}, kind : {"step", "supplied", "entry"}, timed : BOOLEAN,
          from : Address, log : Seq(Transfers), todo : Seq(Effects), bytes : {0, 1, 2},
          defer : BOOLEAN, reti : BOOLEAN, retired : BOOLEAN]

\* The CPU, and what it owes to instructions that retired.
CpuInv ==
    /\ pc \in Address /\ stopped \in BOOLEAN /\ enabled \in BOOLEAN
    /\ deferred \in BOOLEAN /\ deferred = shadow
    /\ nmis \in {0, 1} /\ nmiDeferred \in BOOLEAN /\ (nmiDeferred = TRUE <=> nmis = 1)
HistoryInv ==
    /\ bus \in Seq(Transfers) /\ last \in [outcome : Outcomes, from : Address]
    /\ run \in [on : BOOLEAN, taken : Nat, stop : Outcomes \cup {"completed", "step-limit"}]

\* A boundary under way: its record, what is left of it once it has retired, and where its
\* opcode came from until it is dispatched.
InCall ==
    /\ active = TRUE /\ call \in Calls /\ call.log = bus
    /\ call.retired = TRUE => call.phase = "body" /\ call.todo = <<>>
    /\ call.phase = "opcode" => pc = call.from
    /\ call.phase = "dispatch" => pc = IF Eight!AdvancesAtRead THEN (call.from + 1) % Addresses ELSE call.from
    /\ notices = IF call.retired = TRUE /\ call.reti = TRUE THEN 1 ELSE 0
AtRest ==
    /\ active = FALSE /\ call = Eight!Idle /\ notices = 0
    /\ last.outcome = "untimed" => pc = last.from
    /\ last.outcome = "unsupported" =>
         pc \in {last.from} \cup (IF Eight!OpcodeAdvance = "read" THEN {(last.from + 1) % Addresses} ELSE {})
BoundaryInv == CpuInv /\ HistoryInv /\ (InCall \/ AtRest)

HasAddresses == Addresses \in Nat \ {0}

LEMMA CallsAreNotIdle == ASSUME NEW c \in Calls PROVE c # Eight!Idle
BY DEF Calls, Eight!Idle

LEMMA AddressesWrap ==
  ASSUME HasAddresses, NEW p \in Address, NEW n \in {0, 1, 2}
  PROVE  (p + n) % Addresses \in Address
BY DEF HasAddresses, Address

LEMMA ScriptsAreEffects ==
  /\ Eight!EntryScript \in Seq(Effects)
  /\ \A opcode \in Eight!Known : Eight!Script(opcode) \in Seq(Effects)
<1>1. Eight!EntryScript \in Seq(Effects)
  BY DEF Eight!EntryScript, Effects
<1>2. ASSUME NEW opcode \in Eight!Known PROVE Eight!Script(opcode) \in Seq(Effects)
  <2>1. opcode \in {"store", "input", "enable", "halt", "jump", "reti", "reject"}
    BY DEF Eight!Known
  <2>2. <<"defer">> \in Seq(Effects) /\ <<>> \in Seq(Effects) /\ <<"enable">> \in Seq(Effects)
    BY DEF Effects
  <2>3. (IF Eight!Runtime = "vector" THEN <<>> ELSE <<"defer">>) \o <<"enable">> \in Seq(Effects)
    BY <2>2
  <2>4. /\ <<"fetch", "write">> \in Seq(Effects) /\ <<"fetch", "port">> \in Seq(Effects)
        /\ <<"halt">> \in Seq(Effects) /\ <<"fetch", "jump">> \in Seq(Effects)
        /\ <<"read", "read", "jump", "reti">> \in Seq(Effects) /\ <<"fetch", "reject">> \in Seq(Effects)
    BY DEF Effects
  <2> QED BY <2>1, <2>3, <2>4, Zenon DEF Eight!Script
<1> QED BY <1>1, <1>2

LEMMA BoundaryStarts == HasAddresses /\ Eight!Init => BoundaryInv
<1> SUFFICES ASSUME HasAddresses, Eight!Init PROVE BoundaryInv
  OBVIOUS
<1>1. 0 \in Address
  BY DEF HasAddresses, Address
<1>2. CpuInv
  <2>1. pc \in Address /\ stopped = FALSE /\ enabled = FALSE /\ deferred = FALSE /\ shadow = FALSE
    BY <1>1 DEF Eight!Init
  <2>2. nmis = 0 /\ nmiDeferred = FALSE
    BY DEF Eight!Init
  <2>3. deferred = shadow
    BY <2>1
  <2>5. nmiDeferred = TRUE <=> nmis = 1
    BY <2>2
  <2>4. /\ stopped \in BOOLEAN /\ enabled \in BOOLEAN /\ deferred \in BOOLEAN /\ nmiDeferred \in BOOLEAN
        /\ nmis \in {0, 1}
    BY <2>1, <2>2
  <2> QED BY <2>1, <2>3, <2>4, <2>5, Zenon DEF CpuInv
<1>3. HistoryInv
  BY <1>1 DEF Eight!Init, Eight!NoRun, HistoryInv, Outcomes
<1>4. AtRest
  BY DEF Eight!Init, AtRest
<1> QED BY <1>2, <1>3, <1>4 DEF BoundaryInv

\* execution-boundary.ts: a boundary that begins has transferred nothing.
LEMMA CallsBegin ==
  ASSUME BoundaryInv, active = FALSE, active' = TRUE, bus' = <<>>, notices' = notices, pc' = pc,
         \/ \E kind \in {"step", "supplied"}, timed \in BOOLEAN : call' = Eight!NewCall(kind, timed)
         \/ call' = Eight!Entering
  PROVE  InCall' /\ bus' \in Seq(Transfers)
<1>1. notices = 0 /\ pc \in Address
  BY DEF BoundaryInv, InCall, AtRest, CpuInv
<1>2. /\ call' \in Calls /\ call'.log = <<>> /\ call'.retired = FALSE /\ call'.from = pc
      /\ call'.phase \in {"opcode", "body"}
  <2>1. CASE call' = Eight!Entering
    <3>1. Eight!EntryScript \in Seq(Effects)
      BY ScriptsAreEffects
    <3>2. Eight!NewCall("entry", FALSE) \in Calls /\ Eight!NewCall("entry", FALSE).log = <<>>
          /\ Eight!NewCall("entry", FALSE).retired = FALSE /\ Eight!NewCall("entry", FALSE).from = pc
      BY <1>1 DEF Calls, Eight!NewCall
    <3> QED BY <2>1, <3>1, <3>2 DEF Calls, Eight!Entering
  <2>2. CASE \E kind \in {"step", "supplied"}, timed \in BOOLEAN : call' = Eight!NewCall(kind, timed)
    <3>1. PICK kind \in {"step", "supplied"}, timed \in BOOLEAN : call' = Eight!NewCall(kind, timed)
      BY <2>2
    <3> QED BY <1>1, <3>1 DEF Calls, Eight!NewCall
  <2> QED BY <2>1, <2>2
<1> QED BY <1>1, <1>2 DEF InCall

\* However it ends, the guard is released and its outcome kept.
LEMMA CallsEnd ==
  ASSUME BoundaryInv, InCall, NEW outcome \in Outcomes, Eight!Ends(outcome), notices' = 0, pc' \in Address,
         family' = family,
         outcome = "untimed" => pc' = call.from,
         outcome = "unsupported" =>
           pc' = call.from \/ (Eight!OpcodeAdvance = "read" /\ pc' = (call.from + 1) % Addresses),
         run' = run
  PROVE  AtRest' /\ HistoryInv'
<1>1. call.from \in Address
  BY DEF InCall, Calls
<1>2. last'.outcome = outcome /\ last'.from = call.from /\ last' \in [outcome : Outcomes, from : Address]
  BY <1>1 DEF Eight!Ends
<1>3. Eight!OpcodeAdvance' = Eight!OpcodeAdvance
  BY DEF Eight!OpcodeAdvance
<1>4. AtRest'
  BY <1>2, <1>3 DEF AtRest, Eight!Ends
<1>5. HistoryInv'
  BY <1>2 DEF HistoryInv, BoundaryInv, Eight!Ends
<1> QED BY <1>4, <1>5

\* Only a boundary under way has a phase.
LEMMA PhasesAreCalls ==
  ASSUME BoundaryInv, call.phase \in {"opcode", "dispatch", "body"}
  PROVE  InCall /\ call \in Calls /\ call.log = bus /\ active = TRUE
BY DEF BoundaryInv, InCall, AtRest, Eight!Idle

LEMMA FetchesAreTransfers == Eight!FetchKind \in Transfers
BY DEF Eight!FetchKind, Transfers

\* What an action keeps that only moves the boundary on.
LEMMA MovesKeepHistory ==
  ASSUME BoundaryInv, bus' \in Seq(Transfers), last' = last, run' = run
  PROVE  HistoryInv'
BY DEF BoundaryInv, HistoryInv

LEMMA MovesKeepCpu ==
  ASSUME BoundaryInv, pc' \in Address, stopped' \in BOOLEAN, enabled' \in BOOLEAN,
         deferred' = deferred, shadow' = shadow, nmis' = nmis, nmiDeferred' = nmiDeferred
  PROVE  CpuInv'
BY DEF BoundaryInv, CpuInv

\* recorded-memory.ts: a transfer is logged when the host has completed it.
LEMMA TransfersKeepBoundary ==
  ASSUME BoundaryInv, HasAddresses, Eight!ReadOpcode \/ Eight!Prefix \/ Eight!BodyTransfer, family' = family
  PROVE  BoundaryInv'
<1>1. InCall /\ call \in Calls /\ call.log = bus /\ active = TRUE
  BY PhasesAreCalls DEF Eight!ReadOpcode, Eight!Prefix, Eight!BodyTransfer, Eight!Doing
<1>2. pc \in Address /\ call.from \in Address /\ stopped \in BOOLEAN /\ enabled \in BOOLEAN
  BY <1>1 DEF BoundaryInv, CpuInv, Calls
<1>3. bus \in Seq(Transfers)
  BY DEF BoundaryInv, HistoryInv
<1>4. CASE Eight!ReadOpcode
  <2>1. call' = [call EXCEPT !.phase = "dispatch", !.log = Append(bus, Eight!FetchKind), !.bytes = 1]
        /\ bus' = Append(bus, Eight!FetchKind)
    BY <1>1, <1>4 DEF Eight!ReadOpcode, Eight!Logged, Eight!Transferred
  <2>2. bus' \in Seq(Transfers)
    BY <1>3, <2>1, FetchesAreTransfers
  <2>3. /\ call' \in Calls /\ call'.log = bus' /\ call'.phase = "dispatch" /\ call'.from = call.from
        /\ call'.kind = call.kind /\ call'.reti = call.reti /\ call'.retired = call.retired
    BY <1>1, <2>1, <2>2 DEF Calls
  <2>4. call.phase = "opcode" /\ pc = call.from /\ call.retired = FALSE
    BY <1>1, <1>4 DEF Eight!ReadOpcode, InCall, Calls
  <2>5. pc' = IF Eight!AdvancesAtRead THEN (call.from + 1) % Addresses ELSE call.from
    BY <1>4, <2>4 DEF Eight!ReadOpcode, Eight!Plus
  <2>6. Eight!AdvancesAtRead' = Eight!AdvancesAtRead
    BY <2>3 DEF Eight!AdvancesAtRead, Eight!Runtime, Eight!OpcodeAdvance
  <2>7. pc' \in Address
    BY <1>2, <2>5, AddressesWrap
  <2>8. InCall'
    BY <1>1, <1>4, <2>3, <2>4, <2>5, <2>6 DEF InCall, Eight!ReadOpcode
  <2>9. CpuInv' /\ HistoryInv'
    BY <1>2, <1>4, <2>2, <2>7, MovesKeepCpu, MovesKeepHistory DEF Eight!ReadOpcode
  <2> QED BY <2>8, <2>9 DEF BoundaryInv
<1>5. CASE Eight!Prefix
  <2>1. call' = [call EXCEPT !.log = Append(bus, Eight!FetchKind), !.bytes = 2] /\ bus' = Append(bus, Eight!FetchKind)
    BY <1>1, <1>5 DEF Eight!Prefix, Eight!Logged, Eight!Transferred
  <2>2. bus' \in Seq(Transfers)
    BY <1>3, <2>1, FetchesAreTransfers
  <2>3. /\ call' \in Calls /\ call'.log = bus' /\ call'.phase = "dispatch" /\ call'.from = call.from
        /\ call'.kind = call.kind /\ call'.reti = call.reti /\ call'.retired = call.retired
    BY <1>1, <1>5, <2>1, <2>2 DEF Calls, Eight!Prefix
  <2>4. Eight!AdvancesAtRead' = Eight!AdvancesAtRead
    BY <2>3 DEF Eight!AdvancesAtRead, Eight!Runtime, Eight!OpcodeAdvance
  <2>5. pc' = pc /\ active' = active /\ notices' = notices /\ stopped' = stopped /\ enabled' = enabled
    BY <1>5 DEF Eight!Prefix, Eight!cpu
  <2>6. InCall'
    BY <1>1, <1>5, <2>3, <2>4, <2>5 DEF InCall, Eight!Prefix
  <2>7. CpuInv' /\ HistoryInv'
    BY <1>2, <1>5, <2>2, <2>5, MovesKeepCpu, MovesKeepHistory DEF Eight!Prefix, Eight!cpu
  <2> QED BY <2>6, <2>7 DEF BoundaryInv
<1>6. CASE Eight!BodyTransfer
  <2> DEFINE kind == IF Eight!Next1 = "fetch" THEN Eight!FetchKind ELSE Eight!Next1
  <2>1. kind \in Transfers
    BY <1>6, FetchesAreTransfers DEF Eight!BodyTransfer, Transfers
  <2>2. call' = [call EXCEPT !.todo = Tail(call.todo), !.log = Append(bus, kind)] /\ bus' = Append(bus, kind)
    BY <1>1, <1>6 DEF Eight!BodyTransfer, Eight!Logged, Eight!Transferred, Eight!Rest
  <2> HIDE DEF kind
  <2>3. bus' \in Seq(Transfers)
    BY <1>3, <2>1, <2>2
  <2>4. call.todo # <<>> /\ call.phase = "body" /\ call.retired = FALSE
    BY <1>1, <1>6 DEF Eight!BodyTransfer, Eight!Doing, InCall, Calls
  <2>5. /\ call' \in Calls /\ call'.log = bus' /\ call'.phase = "body"
        /\ call'.reti = call.reti /\ call'.retired = FALSE
    <3>1. Tail(call.todo) \in Seq(Effects)
      BY <1>1, <2>4 DEF Calls
    <3> QED BY <1>1, <2>2, <2>3, <2>4, <3>1 DEF Calls
  <2>6. pc' \in Address
    BY <1>2, <1>6, AddressesWrap DEF Eight!BodyTransfer, Eight!Plus
  <2>7. InCall'
    BY <1>1, <1>6, <2>4, <2>5 DEF InCall, Eight!BodyTransfer
  <2>8. CpuInv' /\ HistoryInv'
    BY <1>2, <1>6, <2>3, <2>6, MovesKeepCpu, MovesKeepHistory DEF Eight!BodyTransfer
  <2> QED BY <2>7, <2>8 DEF BoundaryInv
<1> QED BY <1>4, <1>5, <1>6

\* The decoder's choices: an entry, or the body of a known opcode.
LEMMA DecisionsKeepBoundary ==
  ASSUME BoundaryInv, HasAddresses, Eight!SelectEntry \/ Eight!Dispatch, family' = family
  PROVE  BoundaryInv'
<1>1. InCall /\ call \in Calls /\ call.log = bus /\ active = TRUE /\ call.phase = "dispatch" /\ call.retired = FALSE
  <2>1. call.phase = "dispatch"
    BY DEF Eight!SelectEntry, Eight!Dispatch
  <2>2. InCall /\ call \in Calls /\ call.log = bus /\ active = TRUE
    BY <2>1, PhasesAreCalls
  <2> QED BY <2>1, <2>2 DEF InCall, Calls
<1>2. pc \in Address /\ call.from \in Address /\ stopped \in BOOLEAN /\ enabled \in BOOLEAN /\ bus \in Seq(Transfers)
      /\ call.bytes \in {0, 1, 2}
  BY <1>1 DEF BoundaryInv, CpuInv, HistoryInv, Calls
<1>3. /\ bus' = bus /\ last' = last /\ run' = run /\ notices' = notices /\ active' = active
      /\ stopped' = stopped /\ enabled' = enabled /\ deferred' = deferred /\ shadow' = shadow
      /\ nmis' = nmis /\ nmiDeferred' = nmiDeferred
  BY DEF Eight!SelectEntry, Eight!Dispatch, Eight!cpu
<1>4. /\ call' \in Calls /\ call'.log = call.log /\ call'.phase = "body" /\ call'.retired = FALSE
      /\ call'.reti = call.reti
  <2>1. CASE Eight!SelectEntry
    <3>1. call' = [call EXCEPT !.kind = "entry", !.phase = "body", !.todo = Eight!EntryScript]
      BY <2>1 DEF Eight!SelectEntry
    <3>2. Eight!EntryScript \in Seq(Effects)
      BY ScriptsAreEffects
    <3> QED BY <1>1, <3>1, <3>2 DEF Calls
  <2>2. CASE Eight!Dispatch
    <3>1. PICK opcode \in Eight!Known : call' = [call EXCEPT !.phase = "body", !.todo = Eight!Script(opcode)]
      BY <2>2 DEF Eight!Dispatch
    <3>2. Eight!Script(opcode) \in Seq(Effects)
      BY ScriptsAreEffects
    <3> QED BY <1>1, <3>1, <3>2 DEF Calls
  <2> QED BY <2>1, <2>2
<1>5. pc' \in Address
  <2>1. CASE Eight!SelectEntry
    BY <1>2, <2>1 DEF Eight!SelectEntry, Eight!cpu
  <2>2. CASE Eight!Dispatch
    <3>1. Eight!Committed \in Address
      BY <1>2, AddressesWrap DEF Eight!Committed
    <3> QED BY <2>2, <3>1 DEF Eight!Dispatch
  <2> QED BY <2>1, <2>2
<1>6. InCall'
  BY <1>1, <1>3, <1>4 DEF InCall
<1>7. CpuInv' /\ HistoryInv'
  BY <1>2, <1>3, <1>5, MovesKeepCpu, MovesKeepHistory
<1> QED BY <1>6, <1>7 DEF BoundaryInv

\* The rest of a body: what it does to the CPU, and what it asks of the boundary.
LEMMA BodiesKeepBoundary ==
  ASSUME BoundaryInv, HasAddresses, Eight!BodyEffect \/ Eight!BodyRequest, family' = family
  PROVE  BoundaryInv'
<1>1. InCall /\ call \in Calls /\ call.log = bus /\ active = TRUE /\ call.phase = "body" /\ call.todo # <<>>
      /\ call.retired = FALSE
  <2>1. call.phase = "body" /\ call.todo # <<>>
    BY DEF Eight!BodyEffect, Eight!BodyRequest, Eight!Doing
  <2>2. InCall /\ call \in Calls /\ call.log = bus /\ active = TRUE
    BY <2>1, PhasesAreCalls
  <2> QED BY <2>1, <2>2 DEF InCall, Calls
<1>2. pc \in Address /\ stopped \in BOOLEAN /\ enabled \in BOOLEAN /\ deferred \in BOOLEAN /\ bus \in Seq(Transfers)
  BY DEF BoundaryInv, CpuInv, HistoryInv
<1>3. /\ bus' = bus /\ last' = last /\ run' = run /\ notices' = notices /\ active' = active
      /\ deferred' = deferred /\ shadow' = shadow /\ nmis' = nmis /\ nmiDeferred' = nmiDeferred
  BY DEF Eight!BodyEffect, Eight!BodyRequest, Eight!DeferralRequested
<1>4. Eight!Rest(call.log) \in Calls /\ Eight!Rest(call.log).log = call.log /\ Eight!Rest(call.log).phase = "body"
      /\ Eight!Rest(call.log).retired = FALSE
  <2>1. Tail(call.todo) \in Seq(Effects)
    BY <1>1 DEF Calls
  <2>2. Eight!Rest(call.log) = [call EXCEPT !.todo = Tail(call.todo), !.log = call.log]
    BY DEF Eight!Rest
  <2> QED BY <1>1, <2>1, <2>2 DEF Calls
<1>5. call' \in Calls /\ call'.log = call.log /\ call'.phase = "body" /\ call'.retired = FALSE
  <2>1. CASE Eight!BodyEffect
    BY <1>4, <2>1 DEF Eight!BodyEffect
  <2>2. CASE Eight!BodyRequest
    <3>1. PICK d, q \in BOOLEAN : call' = [Eight!Rest(call.log) EXCEPT !.defer = d, !.reti = q]
      <4> DEFINE c == Eight!Rest(call.log)
                 d == c.defer \/ Eight!Next1 = "defer"
                 q == c.reti \/ Eight!Next1 = "reti"
      <4>1. call' = [c EXCEPT !.defer = d, !.reti = q]
        BY <2>2 DEF Eight!BodyRequest
      <4>2. d \in BOOLEAN /\ q \in BOOLEAN
        OBVIOUS
      <4> HIDE DEF d, q, c
      <4> QED BY <4>1, <4>2 DEF c
    <3> QED BY <1>4, <3>1 DEF Calls
  <2> QED BY <2>1, <2>2
<1>6. InCall'
  BY <1>1, <1>3, <1>5 DEF InCall
<1>7. pc' \in Address /\ stopped' \in BOOLEAN /\ enabled' \in BOOLEAN
  BY <1>2 DEF Eight!BodyEffect, Eight!BodyRequest, Address
<1>8. CpuInv' /\ HistoryInv'
  BY <1>2, <1>3, <1>7, MovesKeepCpu, MovesKeepHistory
<1> QED BY <1>6, <1>8 DEF BoundaryInv

\* Retirement commits the instruction's own deferral, and a RETI is announced after it.
LEMMA RetirementKeepsBoundary ==
  ASSUME BoundaryInv, HasAddresses, Eight!Retire \/ Eight!Notify, family' = family
  PROVE  BoundaryInv'
<1>1. InCall /\ call \in Calls /\ call.log = bus /\ active = TRUE /\ call.phase = "body" /\ call.todo = <<>>
  <2>1. call.phase = "body" /\ call.todo = <<>>
    BY DEF Eight!Retire, Eight!Notify
  <2>2. InCall /\ call \in Calls /\ call.log = bus /\ active = TRUE
    BY <2>1, PhasesAreCalls
  <2> QED BY <2>1, <2>2
<1>2. CASE Eight!Retire
  <2>1. call' = [call EXCEPT !.retired = TRUE] /\ call.retired = FALSE /\ call.reti \in BOOLEAN /\ call.defer \in BOOLEAN
    BY <1>1, <1>2 DEF Eight!Retire, Calls
  <2>2. /\ call' \in Calls /\ call'.log = call.log /\ call'.phase = "body" /\ call'.todo = <<>> /\ call'.retired = TRUE
        /\ call'.reti = call.reti
    BY <1>1, <2>1 DEF Calls
  <2>3. notices' = IF call.reti = TRUE THEN 1 ELSE 0
    BY <1>1, <1>2, <2>1 DEF InCall, Eight!Retire
  <2>4. bus' = bus /\ last' = last /\ run' = run /\ active' = active /\ pc' = pc /\ stopped' = stopped /\ enabled' = enabled
    BY <1>2 DEF Eight!Retire
  <2>5. InCall'
    BY <1>1, <2>2, <2>3, <2>4 DEF InCall
  <2>6. HistoryInv'
    BY <2>4, MovesKeepHistory DEF BoundaryInv, HistoryInv
  <2>7. pc \in Address /\ stopped \in BOOLEAN /\ enabled \in BOOLEAN
    BY DEF BoundaryInv, CpuInv
  <2>8. CASE call.kind = "entry"
    <3>1. deferred' = deferred /\ shadow' = shadow /\ nmis' = nmis /\ nmiDeferred' = nmiDeferred
      BY <1>2, <2>8 DEF Eight!Retire
    <3> QED BY <2>4, <2>5, <2>6, <2>7, <3>1, MovesKeepCpu DEF BoundaryInv
  <2>9. CASE call.kind # "entry"
    <3>1. deferred' = call.defer /\ shadow' = call.defer /\ nmiDeferred' = FALSE /\ nmis' = 0
      BY <1>2, <2>9 DEF Eight!Retire
    <3>2. deferred' \in BOOLEAN /\ deferred' = shadow' /\ nmis' \in {0, 1} /\ nmiDeferred' \in BOOLEAN
      BY <2>1, <3>1
    <3>3. nmiDeferred' = TRUE <=> nmis' = 1
      BY <3>1
    <3>4. CpuInv'
      BY <2>4, <2>7, <3>2, <3>3 DEF CpuInv
    <3> QED BY <2>5, <2>6, <3>4 DEF BoundaryInv
  <2> QED BY <2>8, <2>9
<1>3. CASE Eight!Notify
  <2>1. call' = [call EXCEPT !.reti = FALSE] /\ notices' = notices - 1 /\ call.retired = TRUE /\ call.reti = TRUE
    BY <1>1, <1>3 DEF Eight!Notify, Eight!Notifies, Calls
  <2>2. notices' = 0
    BY <1>1, <2>1 DEF InCall
  <2>3. /\ call' \in Calls /\ call'.log = call.log /\ call'.phase = "body" /\ call'.todo = <<>> /\ call'.reti = FALSE
    BY <1>1, <2>1 DEF Calls
  <2>4. /\ bus' = bus /\ last' = last /\ run' = run /\ active' = active /\ pc' = pc /\ stopped' = stopped
        /\ enabled' = enabled /\ deferred' = deferred /\ shadow' = shadow /\ nmis' = nmis /\ nmiDeferred' = nmiDeferred
    BY <1>3 DEF Eight!Notify, Eight!cpu
  <2>5. InCall'
    BY <1>1, <2>2, <2>3, <2>4 DEF InCall
  <2>6. CpuInv' /\ HistoryInv'
    BY <2>4, MovesKeepCpu, MovesKeepHistory DEF BoundaryInv, CpuInv, HistoryInv
  <2> QED BY <2>5, <2>6 DEF BoundaryInv
<1> QED BY <1>2, <1>3

\* Every way a boundary ends, by its result, a refusal or a host's exception.
LEMMA EndingsKeepBoundary ==
  ASSUME BoundaryInv, HasAddresses, Eight!Unknown \/ Eight!BodyRejects \/ Eight!Finish \/ Eight!CallbackThrows, family' = family
  PROVE  BoundaryInv'
<1>1. InCall /\ call \in Calls
  <2>1. call.phase \in {"opcode", "dispatch", "body"}
    BY DEF Eight!Unknown, Eight!BodyRejects, Eight!Finish, Eight!CallbackThrows, Eight!Doing
  <2> QED BY <2>1, PhasesAreCalls
<1>2. pc \in Address /\ call.from \in Address /\ call.retired \in BOOLEAN /\ call.reti \in BOOLEAN
  BY <1>1 DEF BoundaryInv, CpuInv, Calls
<1>3. /\ run' = run /\ stopped' = stopped /\ enabled' = enabled /\ deferred' = deferred /\ shadow' = shadow
      /\ nmis' = nmis /\ nmiDeferred' = nmiDeferred
  BY DEF Eight!Unknown, Eight!BodyRejects, Eight!Finish, Eight!CallbackThrows, Eight!cpu
<1>4. notices' = 0
  <2>1. CASE Eight!Unknown
    BY <1>1, <1>2, <2>1 DEF Eight!Unknown, InCall
  <2>2. CASE Eight!BodyRejects
    BY <1>1, <1>2, <2>2 DEF Eight!BodyRejects, Eight!Doing, InCall
  <2>3. CASE Eight!Finish
    BY <1>1, <1>2, <2>3 DEF Eight!Finish, InCall
  <2>4. CASE Eight!CallbackThrows
    BY <1>1, <1>2, <2>4 DEF Eight!CallbackThrows, Eight!Doing, Eight!Notifies, InCall
  <2> QED BY <2>1, <2>2, <2>3, <2>4
<1>5. pc' \in Address
  BY <1>2 DEF Eight!Unknown, Eight!UnknownPc, Eight!BodyRejects, Eight!Finish, Eight!CallbackThrows, Eight!cpu
<1>6. PICK outcome \in Outcomes :
        /\ Eight!Ends(outcome)
        /\ outcome = "untimed" => pc' = call.from
        /\ outcome = "unsupported" =>
             pc' = call.from \/ (Eight!OpcodeAdvance = "read" /\ pc' = (call.from + 1) % Addresses)
  <2>1. CASE Eight!Unknown
    <3>1. Eight!Ends(IF call.timed THEN "untimed" ELSE "unsupported")
      BY <2>1 DEF Eight!Unknown
    <3>2. pc' = IF call.timed THEN call.from ELSE pc
      BY <2>1 DEF Eight!Unknown, Eight!UnknownPc
    <3>3. pc = IF Eight!AdvancesAtRead THEN (call.from + 1) % Addresses ELSE call.from
      BY <1>1, <2>1 DEF Eight!Unknown, InCall
    <3>4. pc' = call.from \/ (Eight!OpcodeAdvance = "read" /\ pc' = (call.from + 1) % Addresses)
      BY <3>2, <3>3 DEF Eight!AdvancesAtRead
    <3>5. CASE call.timed
      BY <3>1, <3>2, <3>5 DEF Outcomes
    <3>6. CASE ~call.timed
      BY <3>1, <3>4, <3>6 DEF Outcomes
    <3> QED BY <3>5, <3>6
  <2>2. CASE Eight!BodyRejects
    <3>1. Eight!Ends(IF call.timed THEN "untimed" ELSE "unsupported") /\ pc' = call.from
      BY <2>2 DEF Eight!BodyRejects
    <3>2. CASE call.timed
      BY <3>1, <3>2 DEF Outcomes
    <3>3. CASE ~call.timed
      BY <3>1, <3>3 DEF Outcomes
    <3> QED BY <3>2, <3>3
  <2>3. CASE Eight!Finish
    <3>1. Eight!Ends(CASE call.kind = "entry" -> "accepted" [] stopped -> "halted" [] OTHER -> "executed")
      BY <2>3 DEF Eight!Finish
    <3>2. Eight!Ends("accepted") \/ Eight!Ends("halted") \/ Eight!Ends("executed")
      BY <3>1
    <3> QED BY <3>2 DEF Outcomes
  <2>4. CASE Eight!CallbackThrows
    BY <2>4 DEF Eight!CallbackThrows, Outcomes
  <2> QED BY <2>1, <2>2, <2>3, <2>4
<1>7. AtRest' /\ HistoryInv'
  BY <1>1, <1>3, <1>4, <1>5, <1>6, CallsEnd
<1>8. CpuInv'
  BY <1>3, <1>5, MovesKeepCpu DEF BoundaryInv, CpuInv
<1> QED BY <1>7, <1>8 DEF BoundaryInv

\* A record that no boundary made, of a halted CPU or a call that was not accepted.
LEMMA RecordsKeepRest ==
  ASSUME BoundaryInv, active = FALSE, active' = FALSE, call' = call, bus' = bus, notices' = notices,
         NEW outcome \in Outcomes \ {"untimed", "unsupported"},
         last' = [outcome |-> outcome, from |-> pc],
         run' \in [on : BOOLEAN, taken : Nat, stop : Outcomes \cup {"completed", "step-limit"}]
  PROVE  AtRest' /\ HistoryInv'
<1>1. AtRest /\ pc \in Address /\ bus \in Seq(Transfers)
  BY DEF BoundaryInv, InCall, CpuInv, HistoryInv
<1>2. last'.outcome = outcome /\ last' \in [outcome : Outcomes, from : Address]
  BY <1>1
<1>3. AtRest'
  BY <1>1, <1>2 DEF AtRest
<1>4. HistoryInv'
  BY <1>1, <1>2 DEF HistoryInv
<1> QED BY <1>3, <1>4

\* execution-boundary.ts: what a host may call between two boundaries.
LEMMA EntriesKeepBoundary ==
  ASSUME BoundaryInv, HasAddresses, family' = family,
         (\E timed \in BOOLEAN : Eight!Step(timed)) \/ Eight!Reset \/ Eight!Interrupt \/ Eight!NonMaskable
  PROVE  BoundaryInv'
<1>1. active = FALSE /\ AtRest
  BY DEF BoundaryInv, InCall, AtRest, Eight!Step, Eight!Reset, Eight!Interrupt, Eight!NonMaskable
<1>2. /\ pc \in Address /\ stopped \in BOOLEAN /\ enabled \in BOOLEAN /\ deferred \in BOOLEAN /\ deferred = shadow
      /\ nmis \in {0, 1} /\ nmiDeferred \in BOOLEAN /\ (nmiDeferred = TRUE <=> nmis = 1)
  BY DEF BoundaryInv, CpuInv
<1>3. run \in [on : BOOLEAN, taken : Nat, stop : Outcomes \cup {"completed", "step-limit"}]
      /\ last \in [outcome : Outcomes, from : Address]
  BY DEF BoundaryInv, HistoryInv
<1>4. CASE \E timed \in BOOLEAN : Eight!Step(timed)
  <2>1. PICK timed \in BOOLEAN : Eight!Step(timed)
    BY <1>4
  <2>2. /\ pc' = pc /\ stopped' = stopped /\ enabled' = enabled /\ deferred' = deferred /\ shadow' = shadow
        /\ nmis' = nmis /\ nmiDeferred' = nmiDeferred /\ notices' = notices /\ run' = run
    BY <2>1 DEF Eight!Step, Eight!cpu
  <2>3. CpuInv'
    BY <1>2, <2>2, MovesKeepCpu
  <2>4. CASE stopped
    <3>1. /\ last' = [outcome |-> "halted", from |-> pc] /\ active' = FALSE /\ call' = call /\ bus' = bus
      BY <1>1, <2>1, <2>4 DEF Eight!Step
    <3>2. "halted" \in Outcomes \ {"untimed", "unsupported"}
      BY DEF Outcomes
    <3>3. AtRest' /\ HistoryInv'
      BY <1>1, <1>3, <2>2, <3>1, <3>2, RecordsKeepRest
    <3> QED BY <2>3, <3>3 DEF BoundaryInv
  <2>5. CASE ~stopped
    <3>1. active' = TRUE /\ call' = Eight!NewCall("step", timed) /\ bus' = <<>> /\ last' = last
      BY <2>1, <2>5 DEF Eight!Step
    <3>2. InCall' /\ bus' \in Seq(Transfers)
      BY <1>1, <2>2, <3>1, CallsBegin
    <3>3. HistoryInv'
      BY <2>2, <3>1, <3>2, MovesKeepHistory
    <3> QED BY <2>3, <3>2, <3>3 DEF BoundaryInv
  <2> QED BY <2>4, <2>5
<1>5. CASE Eight!Reset
  <2>1. /\ pc' = 0 /\ stopped' = FALSE /\ enabled' = FALSE /\ deferred' = FALSE /\ shadow' = FALSE
        /\ nmiDeferred' = FALSE /\ nmis' = 0 /\ last' = [outcome |-> "reset", from |-> pc]
        /\ active' = active /\ call' = call /\ bus' = bus /\ notices' = notices /\ run' = run
    BY <1>5 DEF Eight!Reset
  <2>2. 0 \in Address
    BY DEF HasAddresses, Address
  <2>3. nmiDeferred' = TRUE <=> nmis' = 1
    BY <2>1
  <2>4. deferred' = shadow' /\ pc' \in Address
    BY <2>1, <2>2
  <2>5. stopped' \in BOOLEAN /\ enabled' \in BOOLEAN /\ deferred' \in BOOLEAN /\ nmis' \in {0, 1} /\ nmiDeferred' \in BOOLEAN
    BY <2>1
  <2>6. CpuInv'
    BY <2>3, <2>4, <2>5, Zenon DEF CpuInv
  <2>7. "reset" \in Outcomes \ {"untimed", "unsupported"}
    BY DEF Outcomes
  <2>8. AtRest' /\ HistoryInv'
    BY <1>1, <1>3, <2>1, <2>7, RecordsKeepRest
  <2> QED BY <2>6, <2>8 DEF BoundaryInv
<1>6. ASSUME Eight!Declined \/ nmiDeferred,
             last' = [outcome |-> "ignored", from |-> pc],
             UNCHANGED <<Eight!cpu, active, call, bus, notices, shadow, nmis, run>>
      PROVE  BoundaryInv'
  <2>1. /\ pc' = pc /\ stopped' = stopped /\ enabled' = enabled /\ deferred' = deferred /\ shadow' = shadow
        /\ nmis' = nmis /\ nmiDeferred' = nmiDeferred /\ notices' = notices /\ run' = run
        /\ active' = active /\ call' = call /\ bus' = bus
    BY <1>6 DEF Eight!cpu
  <2>2. CpuInv'
    BY <1>2, <2>1, MovesKeepCpu
  <2>3. "ignored" \in Outcomes \ {"untimed", "unsupported"}
    BY DEF Outcomes
  <2>4. AtRest' /\ HistoryInv'
    BY <1>1, <1>3, <1>6, <2>1, <2>3, RecordsKeepRest
  <2> QED BY <2>2, <2>4 DEF BoundaryInv
\* Acceptance changes the CPU before the first transfer.
<1>7. ASSUME pc' = pc, stopped' = FALSE, enabled' = FALSE, CpuInv', active' = TRUE, bus' = <<>>,
             notices' = notices, last' = last, run' = run,
             call' = Eight!Entering \/ call' = Eight!NewCall("supplied", FALSE)
      PROVE  BoundaryInv'
  <2>1. InCall' /\ bus' \in Seq(Transfers)
    BY <1>1, <1>7, CallsBegin
  <2>2. HistoryInv'
    BY <1>7, <2>1, MovesKeepHistory
  <2> QED BY <1>7, <2>1, <2>2 DEF BoundaryInv
<1>8. CASE Eight!Interrupt
  <2>1. CASE Eight!Declined
    BY <1>6, <1>8, <2>1 DEF Eight!Interrupt
  <2>2. CASE ~Eight!Declined
    <3>1. /\ enabled' = FALSE /\ deferred' = FALSE /\ stopped' = FALSE /\ active' = TRUE /\ bus' = <<>>
          /\ call' = Eight!Entering \/ call' = Eight!NewCall("supplied", FALSE)
          /\ pc' = pc /\ nmiDeferred' = nmiDeferred /\ last' = last /\ notices' = notices /\ shadow' = shadow
          /\ nmis' = nmis /\ run' = run
      BY <1>8, <2>2 DEF Eight!Interrupt
    <3>2. deferred = FALSE
      BY <1>2, <2>2 DEF Eight!Declined
    <3>3. CpuInv'
      BY <1>2, <3>1, <3>2, MovesKeepCpu
    <3> QED BY <1>7, <3>1, <3>3
  <2> QED BY <2>1, <2>2
<1>9. CASE Eight!NonMaskable
  <2>1. CASE nmiDeferred
    BY <1>6, <1>9, <2>1 DEF Eight!NonMaskable
  <2>2. CASE ~nmiDeferred
    <3>1. /\ enabled' = FALSE /\ stopped' = FALSE /\ nmiDeferred' = TRUE /\ nmis' = nmis + 1
          /\ active' = TRUE /\ bus' = <<>> /\ call' = Eight!Entering
          /\ pc' = pc /\ deferred' = deferred /\ last' = last /\ notices' = notices /\ shadow' = shadow /\ run' = run
      BY <1>9, <2>2 DEF Eight!NonMaskable
    <3>2. nmis = 0
      BY <1>2, <2>2
    <3>3. nmis' = 1
      BY <3>1, <3>2
    <3>4. nmiDeferred' = TRUE <=> nmis' = 1
      BY <3>1, <3>3
    <3>5. CpuInv'
      BY <1>2, <3>1, <3>3, <3>4 DEF CpuInv
    <3> QED BY <1>7, <3>1, <3>5
  <2> QED BY <2>1, <2>2
<1> QED BY <1>4, <1>5, <1>8, <1>9

\* run-cpu.ts: the runner begins a step, or stops with a reason of its own or of the record.
LEMMA RunnerKeepsBoundary ==
  ASSUME BoundaryInv, HasAddresses, family' = family, Eight!RunCalled \/ Eight!RunLoop
  PROVE  BoundaryInv'
<1>1. active = FALSE /\ AtRest
  BY DEF BoundaryInv, InCall, AtRest, Eight!RunCalled, Eight!RunLoop
<1>2. /\ run \in [on : BOOLEAN, taken : Nat, stop : Outcomes \cup {"completed", "step-limit"}]
      /\ last \in [outcome : Outcomes, from : Address]
  BY DEF BoundaryInv, HistoryInv
<1>3. /\ pc' = pc /\ stopped' = stopped /\ enabled' = enabled /\ deferred' = deferred /\ shadow' = shadow
      /\ nmis' = nmis /\ nmiDeferred' = nmiDeferred /\ notices' = notices
  BY DEF Eight!RunCalled, Eight!RunLoop, Eight!cpu
<1>4. CpuInv'
  BY <1>3, MovesKeepCpu DEF BoundaryInv, CpuInv
<1>5. run' \in [on : BOOLEAN, taken : Nat, stop : Outcomes \cup {"completed", "step-limit"}]
  <2>1. CASE Eight!RunCalled
    BY <2>1 DEF Eight!RunCalled, Outcomes
  <2>2. CASE Eight!RunLoop
    <3>1. Eight!RunStop \in Outcomes \cup {"completed", "step-limit"}
      <4>1. last.outcome \in Outcomes /\ "none" \in Outcomes
        BY <1>2 DEF Outcomes
      <4>2. Eight!RunStop \in {last.outcome, "completed", "step-limit", "none"}
        BY DEF Eight!RunStop
      <4> QED BY <4>1, <4>2
    <3>2. run' = [run EXCEPT !.on = FALSE, !.stop = Eight!RunStop] \/ run' = [run EXCEPT !.taken = run.taken + 1]
      BY <2>2 DEF Eight!RunLoop
    <3>3. CASE run' = [run EXCEPT !.on = FALSE, !.stop = Eight!RunStop]
      BY <1>2, <3>1, <3>3
    <3>4. CASE run' = [run EXCEPT !.taken = run.taken + 1]
      <4>1. run.taken + 1 \in Nat
        BY <1>2
      <4> QED BY <1>2, <3>4, <4>1
    <3> QED BY <3>2, <3>3, <3>4
  <2> QED BY <2>1, <2>2
<1>6. CASE Eight!RunCalled
  <2>1. last' = [outcome |-> "none", from |-> pc] /\ active' = FALSE /\ call' = call /\ bus' = bus
    BY <1>1, <1>6 DEF Eight!RunCalled
  <2>2. "none" \in Outcomes \ {"untimed", "unsupported"}
    BY DEF Outcomes
  <2>3. AtRest' /\ HistoryInv'
    BY <1>1, <1>3, <1>5, <2>1, <2>2, RecordsKeepRest
  <2> QED BY <1>4, <2>3 DEF BoundaryInv
<1>7. CASE Eight!RunLoop
  <2>1. CASE Eight!RunStop # "none"
    <3>1. last' = last /\ active' = active /\ call' = call /\ bus' = bus /\ pc' = pc
      BY <1>3, <1>7, <2>1 DEF Eight!RunLoop
    <3>2. Eight!OpcodeAdvance' = Eight!OpcodeAdvance
      BY DEF Eight!OpcodeAdvance
    <3>3. AtRest'
      BY <1>1, <1>3, <3>1, <3>2 DEF AtRest
    <3>4. HistoryInv'
      BY <1>5, <3>1 DEF BoundaryInv, HistoryInv
    <3> QED BY <1>4, <3>3, <3>4 DEF BoundaryInv
  <2>2. CASE Eight!RunStop = "none" /\ stopped
    <3>1. last' = [outcome |-> "halted", from |-> pc] /\ active' = FALSE /\ call' = call /\ bus' = bus
      BY <1>1, <1>7, <2>2 DEF Eight!RunLoop
    <3>2. "halted" \in Outcomes \ {"untimed", "unsupported"}
      BY DEF Outcomes
    <3>3. AtRest' /\ HistoryInv'
      BY <1>1, <1>3, <1>5, <3>1, <3>2, RecordsKeepRest
    <3> QED BY <1>4, <3>3 DEF BoundaryInv
  <2>3. CASE Eight!RunStop = "none" /\ ~stopped
    <3>1. active' = TRUE /\ call' = Eight!NewCall("step", FALSE) /\ bus' = <<>> /\ last' = last
      BY <1>7, <2>3 DEF Eight!RunLoop
    <3>2. InCall' /\ bus' \in Seq(Transfers)
      BY <1>1, <1>3, <3>1, CallsBegin
    <3>3. HistoryInv'
      BY <1>2, <1>5, <3>1, <3>2 DEF HistoryInv
    <3> QED BY <1>4, <3>2, <3>3 DEF BoundaryInv
  <2> QED BY <2>1, <2>2, <2>3
<1> QED BY <1>6, <1>7

LEMMA BoundaryIsKept ==
  ASSUME BoundaryInv, HasAddresses, [Eight!Next]_(Eight!vars)
  PROVE  BoundaryInv'
<1>1. CASE UNCHANGED Eight!vars
  <2>1. /\ family' = family /\ pc' = pc /\ stopped' = stopped /\ enabled' = enabled /\ deferred' = deferred
        /\ nmiDeferred' = nmiDeferred /\ active' = active /\ call' = call /\ bus' = bus /\ last' = last
        /\ notices' = notices /\ shadow' = shadow /\ nmis' = nmis /\ run' = run
    BY <1>1 DEF Eight!vars, Eight!cpu
  <2>2. CpuInv' /\ HistoryInv'
    BY <2>1 DEF BoundaryInv, CpuInv, HistoryInv
  <2>3. Eight!AdvancesAtRead' = Eight!AdvancesAtRead /\ Eight!OpcodeAdvance' = Eight!OpcodeAdvance
    BY <2>1 DEF Eight!AdvancesAtRead, Eight!Runtime, Eight!OpcodeAdvance
  <2>4. CASE InCall
    <3>1. InCall'
      BY <2>1, <2>3, <2>4 DEF InCall
    <3> QED BY <2>2, <3>1 DEF BoundaryInv
  <2>5. CASE AtRest
    <3>1. AtRest'
      BY <2>1, <2>3, <2>5 DEF AtRest
    <3> QED BY <2>2, <3>1 DEF BoundaryInv
  <2> QED BY <2>4, <2>5 DEF BoundaryInv
<1>2. CASE Eight!Next
  <2>1. family' = family
    BY <1>2 DEF Eight!Next
  <2>2. CASE Eight!NestedCall
    BY <1>1, <2>2 DEF Eight!NestedCall
  <2>3. CASE (\E timed \in BOOLEAN : Eight!Step(timed)) \/ Eight!Reset \/ Eight!Interrupt \/ Eight!NonMaskable
    BY <2>1, <2>3, EntriesKeepBoundary
  <2>4. CASE Eight!RunCalled \/ Eight!RunLoop
    BY <2>1, <2>4, RunnerKeepsBoundary
  <2>5. CASE Eight!ReadOpcode \/ Eight!Prefix \/ Eight!BodyTransfer
    BY <2>1, <2>5, TransfersKeepBoundary
  <2>6. CASE Eight!SelectEntry \/ Eight!Dispatch
    BY <2>1, <2>6, DecisionsKeepBoundary
  <2>7. CASE Eight!BodyEffect \/ Eight!BodyRequest
    BY <2>1, <2>7, BodiesKeepBoundary
  <2>8. CASE Eight!Retire \/ Eight!Notify
    BY <2>1, <2>8, RetirementKeepsBoundary
  <2>9. CASE Eight!Unknown \/ Eight!BodyRejects \/ Eight!Finish \/ Eight!CallbackThrows
    BY <2>1, <2>9, EndingsKeepBoundary
  <2> QED BY <1>2, <2>2, <2>3, <2>4, <2>5, <2>6, <2>7, <2>8, <2>9 DEF Eight!Next, Eight!Boundary
<1> QED BY <1>1, <1>2

LEMMA BoundaryIsRecorded == BoundaryInv => Eight!AttemptsAreRecorded
<1> SUFFICES ASSUME BoundaryInv PROVE Eight!AttemptsAreRecorded
  OBVIOUS
<1>1. deferred = shadow /\ nmis <= 1
  BY DEF BoundaryInv, CpuInv
<1>2. nmiDeferred = (nmis = 1)
  <2>1. nmiDeferred \in BOOLEAN /\ (nmiDeferred = TRUE <=> nmis = 1)
    BY DEF BoundaryInv, CpuInv
  <2> QED BY <2>1, Zenon
<1>3. CASE InCall
  <2>1. call # Eight!Idle /\ active = TRUE /\ call.log = bus
    BY <1>3, CallsAreNotIdle DEF InCall
  <2>2. notices \in 0..1 /\ (notices = 1 => call.retired)
    BY <1>3 DEF InCall, Calls
  <2>3. active = (call # Eight!Idle)
    BY <2>1
  <2> QED BY <1>1, <1>2, <2>1, <2>2, <2>3 DEF Eight!AttemptsAreRecorded
<1>4. CASE AtRest
  <2>1. active = FALSE /\ call = Eight!Idle /\ notices = 0
    BY <1>4 DEF AtRest
  <2>2. active = (call # Eight!Idle)
    BY <2>1
  <2>3. /\ last.outcome = "untimed" => pc = last.from
        /\ last.outcome = "unsupported" =>
             pc \in {last.from} \cup (IF Eight!OpcodeAdvance = "read" THEN {(last.from + 1) % Addresses} ELSE {})
    BY <1>4 DEF AtRest
  <2> QED BY <1>1, <1>2, <2>1, <2>2, <2>3 DEF Eight!AttemptsAreRecorded
<1> QED BY <1>3, <1>4 DEF BoundaryInv

\* execution-boundary.ts, recorded-memory.ts and the three runtimes: whatever the program, the
\* host's answers, exceptions and calls, in any order, a boundary's record is what the host
\* completed, the guard is held while it is under way, and a deferral or an NMI is consumed by
\* an instruction that retired and by nothing else.
THEOREM BoundariesAreRecorded ==
  ASSUME HasAddresses
  PROVE  Eight!Spec => []Eight!AttemptsAreRecorded
<1> QED BY BoundaryStarts, BoundaryIsKept, BoundaryIsRecorded, PTL DEF Eight!Spec

\* run-cpu.ts: a runner that reports its limit took that many steps and is not at its endpoint,
\* and one that reports completion is there, after a record that lets it go on.
THEOREM RunnerReports ==
  ASSUME HasAddresses
  PROVE  Eight!Spec => Eight!RunReports
<1> DEFINE Reports ==
      run.on /\ ~run'.on =>
        /\ run'.stop = "step-limit" => run.taken = MaxSteps /\ pc # EndAddress
        /\ run'.stop = "completed" => pc = EndAddress /\ last.outcome \in {"none", "executed"}
<1>1. ASSUME BoundaryInv, [Eight!Next]_(Eight!vars) PROVE [Reports]_(Eight!vars)
  <2> SUFFICES ASSUME run.on = TRUE, run'.on = FALSE
               PROVE  /\ run'.stop = "step-limit" => run.taken = MaxSteps /\ pc # EndAddress
                      /\ run'.stop = "completed" => pc = EndAddress /\ last.outcome \in {"none", "executed"}
    <3>1. run.on \in BOOLEAN /\ run'.on \in BOOLEAN
      BY <1>1, BoundaryIsKept DEF BoundaryInv, HistoryInv
    <3> QED BY <3>1
  <2>1. run' # run
    OBVIOUS
  <2>2. run \in [on : BOOLEAN, taken : Nat, stop : Outcomes \cup {"completed", "step-limit"}] /\ last.outcome \in Outcomes
    BY <1>1 DEF BoundaryInv, HistoryInv
  <2>3. Eight!RunCalled \/ Eight!RunLoop
    BY <1>1, <2>1 DEF Eight!Next, Eight!vars, Eight!Step, Eight!NestedCall, Eight!Reset, Eight!Interrupt, Eight!NonMaskable, Eight!Boundary, Eight!ReadOpcode, Eight!Prefix,
          Eight!SelectEntry, Eight!Dispatch, Eight!Unknown, Eight!BodyTransfer, Eight!BodyEffect, Eight!BodyRequest, Eight!BodyRejects, Eight!Retire, Eight!Notify,
          Eight!Finish, Eight!CallbackThrows
  <2>4. Eight!RunLoop
    BY <2>3 DEF Eight!RunCalled
  <2>5. run' = [run EXCEPT !.on = FALSE, !.stop = Eight!RunStop] \/ run' = [run EXCEPT !.taken = run.taken + 1]
    BY <2>4 DEF Eight!RunLoop
  <2>6. run'.stop = Eight!RunStop
    BY <2>2, <2>5
  <2> QED BY <2>2, <2>6 DEF Eight!RunStop, Outcomes
<1>2. Eight!Init /\ [][Eight!Next]_(Eight!vars) => [][Reports]_(Eight!vars)
  <2> QED BY <1>1, BoundaryStarts, BoundaryIsKept, PTL
<1> QED BY <1>2 DEF Eight!Spec, Eight!RunReports

----------------------------------------------------------------------------
(* The 68000.                                                              *)

Latches == [s : BOOLEAN, t : BOOLEAN, mask : Masks \cup Levels \cup {7}, stopped : BOOLEAN,
            tracePending : BOOLEAN, faulted : BOOLEAN, kind : Sixteen!Kinds,
            oddPc : BOOLEAN, oddStack : BOOLEAN]

\* In a handler whose first opcode has not been completed.
Entered(c) == c.s = TRUE /\ c.t = FALSE /\ c.stopped = FALSE /\ c.tracePending = FALSE

\* A memory error ends in a fault's entry, with a frame unless the stack is odd, and then halted.
Failure(r) ==
    /\ r.cpu \in Latches /\ r.how \in {"halted", "threw", "faulted"} /\ r.frames \in {0, 1}
    /\ Entered(r.cpu) /\ r.cpu.kind = "fault"
    /\ r.frames = 0 => r.cpu.faulted = TRUE

LEMMA PreparedEnters ==
  ASSUME NEW c \in Latches
  PROVE  Sixteen!Prepared(c) \in Latches /\ Entered(Sixteen!Prepared(c))
         /\ Sixteen!Prepared(c).kind = c.kind /\ Sixteen!Prepared(c).oddStack = c.oddStack
BY DEF Sixteen!Prepared, Latches, Entered

\* wordEvents: what a bus or address error leaves.
LEMMA MemoryErrorsFail ==
  ASSUME NEW c \in Latches, NEW r \in Sixteen!MemoryError(c)
  PROVE  Failure(r)
<1> DEFINE begun == [Sixteen!Prepared(c) EXCEPT !.kind = "fault"]
<1>1. begun \in Latches /\ Entered(begun) /\ begun.kind = "fault" /\ Sixteen!Halted(begun) \in Latches
      /\ Entered(Sixteen!Halted(begun)) /\ Sixteen!Halted(begun).kind = "fault" /\ Sixteen!Halted(begun).faulted = TRUE
  BY PreparedEnters DEF Latches, Entered, Sixteen!Halted, Sixteen!Kinds
<1> HIDE DEF begun
<1>2. ASSUME NEW d \in Sixteen!Loaded(begun)
      PROVE  /\ d \in Latches /\ Entered(d) /\ d.kind = "fault"
             /\ Sixteen!Halted(d) \in Latches /\ Entered(Sixteen!Halted(d)) /\ Sixteen!Halted(d).kind = "fault"
  <2>1. PICK odd \in BOOLEAN : d = [begun EXCEPT !.oddPc = odd]
    BY DEF Sixteen!Loaded
  <2> QED BY <1>1, <2>1 DEF Latches, Entered, Sixteen!Halted
<1>3. CASE begun.oddStack
  <2>1. r = Sixteen!Result(Sixteen!Halted(begun), "halted", 0)
    BY <1>3 DEF Sixteen!MemoryError, begun
  <2> QED BY <1>1, <2>1 DEF Failure, Sixteen!Result
<1>4. CASE ~begun.oddStack
  <2>1. \/ r = Sixteen!Result(Sixteen!Halted(begun), "halted", 1)
        \/ r = Sixteen!Result(begun, "threw", 1)
        \/ \E d \in Sixteen!Loaded(begun) : r = Sixteen!Result(IF d.oddPc THEN Sixteen!Halted(d) ELSE d, "faulted", 1)
    BY <1>4 DEF Sixteen!MemoryError, begun
  <2> QED BY <1>1, <1>2, <2>1 DEF Failure, Sixteen!Result
<1> QED BY <1>3, <1>4

\* wordEvents: what is left by the short frame and its vector, for an entry that is prepared.
LEMMA EntriesFinish ==
  ASSUME NEW c \in Latches, Entered(c), NEW completed \in BOOLEAN, NEW r \in Sixteen!Finish(c, completed)
  PROVE  \/ Failure(r)
         \/ r = Sixteen!Result(c, "threw", 0)
         \/ \E e \in Latches : /\ r = Sixteen!Result(e, "delivered", 0) /\ Entered(e)
                               /\ e.kind = IF completed THEN "trap" ELSE "exception"
<1> DEFINE entered == [[c EXCEPT !.kind = IF completed THEN "trap" ELSE "exception"] EXCEPT !.oddPc = FALSE]
           odd == [c EXCEPT !.oddPc = TRUE]
<1>1. /\ entered \in Latches /\ Entered(entered) /\ odd \in Latches
      /\ entered.kind = IF completed THEN "trap" ELSE "exception"
  BY DEF Latches, Entered, Sixteen!Kinds
<1>2. \/ r \in Sixteen!MemoryError(c) \/ r \in Sixteen!MemoryError(odd)
      \/ r = Sixteen!Result(c, "threw", 0) \/ r = Sixteen!Result(entered, "delivered", 0)
  BY DEF Sixteen!Finish
<1> HIDE DEF entered, odd
<1> QED BY <1>1, <1>2, MemoryErrorsFail DEF Sixteen!Result

\* What holds between two boundaries.  A chain of memory-error entries can only continue in a
\* reset or in the entry it left, where the first fetch is terminal.
LatchesInv ==
    /\ latches \in Latches /\ owed \in BOOLEAN /\ chain \in {0, 1}
    /\ Sixteen!EntriesAreSound /\ Sixteen!TraceOnce
    /\ chain = 1 /\ latches.faulted = FALSE => latches.kind \in {"fault", "reset"}

\* An entry leaves no trace owed.
LEMMA EnteredIsSound ==
  ASSUME latches' \in Latches, Entered(latches'), owed' = FALSE, chain' \in {0, 1},
         chain' = 0 \/ latches'.kind = "fault" \/ latches'.faulted = TRUE
  PROVE  LatchesInv'
<1>1. Sixteen!EntriesAreSound'
  BY DEF Sixteen!EntriesAreSound, Entered
<1>2. Sixteen!TraceOnce'
  BY DEF Sixteen!TraceOnce, Entered
<1>3. chain' = 1 /\ latches'.faulted = FALSE => latches'.kind \in {"fault", "reset"}
  OBVIOUS
<1>4. owed' \in BOOLEAN
  OBVIOUS
<1> QED BY <1>1, <1>2, <1>3, <1>4 DEF LatchesInv

LEMMA LatchesStart == Sixteen!Init => LatchesInv
<1> SUFFICES ASSUME Sixteen!Init PROVE LatchesInv
  OBVIOUS
<1>1. latches \in Latches /\ owed \in BOOLEAN /\ chain \in {0, 1}
  BY DEF Sixteen!Init, Sixteen!NewCpu, Latches, Sixteen!Kinds
<1>2. Sixteen!EntriesAreSound
  BY DEF Sixteen!Init, Sixteen!NewCpu, Sixteen!EntriesAreSound
<1>3. Sixteen!TraceOnce
  BY DEF Sixteen!Init, Sixteen!NewCpu, Sixteen!TraceOnce
<1>4. chain = 1 /\ latches.faulted = FALSE => latches.kind \in {"fault", "reset"}
  BY DEF Sixteen!Init, Sixteen!NewCpu
<1> QED BY <1>1, <1>2, <1>3, <1>4 DEF LatchesInv

LEMMA LatchesAreTyped == LatchesInv => Sixteen!WordTypeOK
BY DEF LatchesInv, Latches, Sixteen!WordTypeOK

\* wordExecution: an owed trace is delivered before anything else.
LEMMA TracesKeepLatches == LatchesInv /\ Sixteen!StepTrace => LatchesInv'
<1> SUFFICES ASSUME LatchesInv, Sixteen!StepTrace PROVE LatchesInv'
  OBVIOUS
<1>1. latches \in Latches /\ chain = 0
  BY DEF LatchesInv, Sixteen!StepTrace, Sixteen!TraceOnce
<1>2. PICK r \in Sixteen!Exception(latches, "restart") :
        latches' = r.cpu /\ owed' = FALSE /\ chain' = 0 + r.frames
  BY <1>1 DEF Sixteen!StepTrace, Sixteen!Records, Sixteen!Chained
<1>3. r \in Sixteen!Finish(Sixteen!Prepared(latches), FALSE)
  BY <1>2 DEF Sixteen!Exception
<1> DEFINE c == Sixteen!Prepared(latches)
<1>4. c \in Latches /\ Entered(c)
  BY <1>1, PreparedEnters
<1>5. \/ Failure(r)
      \/ r = Sixteen!Result(c, "threw", 0)
      \/ \E e \in Latches : r = Sixteen!Result(e, "delivered", 0) /\ Entered(e) /\ e.kind = "exception"
  BY <1>3, <1>4, EntriesFinish
<1> HIDE DEF c
<1>6. latches' \in Latches /\ Entered(latches') /\ chain' \in {0, 1} /\ (chain' = 0 \/ latches'.kind = "fault")
  BY <1>2, <1>4, <1>5 DEF Sixteen!Result, Failure
<1> QED BY <1>2, <1>6, EnteredIsSound

\* A first fetch that fails.
LEMMA FetchesKeepLatches == LatchesInv /\ Sixteen!StepFailsToFetch => LatchesInv'
<1> SUFFICES ASSUME LatchesInv, Sixteen!StepFailsToFetch PROVE LatchesInv'
  OBVIOUS
<1>1. latches \in Latches /\ latches.faulted = FALSE /\ owed' = FALSE /\ chain \in {0, 1}
  BY DEF LatchesInv, Sixteen!StepFailsToFetch, Sixteen!Runs, Latches
<1>2. latches.tracePending = FALSE /\ owed = FALSE /\ latches.stopped = FALSE
  BY <1>1 DEF LatchesInv, Sixteen!TraceOnce, Sixteen!StepFailsToFetch, Sixteen!Runs, Latches
<1>3. CASE latches' = latches /\ chain' = chain
  <2>1. owed' = owed
    BY <1>1, <1>2
  <2>2. Sixteen!EntriesAreSound' /\ Sixteen!TraceOnce'
    BY <1>3, <2>1 DEF LatchesInv, Sixteen!EntriesAreSound, Sixteen!TraceOnce
  <2> QED BY <1>1, <1>3, <2>1, <2>2 DEF LatchesInv
<1>4. ASSUME NEW r \in Sixteen!InitialFetch(latches), latches' = r.cpu, chain' = chain + r.frames
      PROVE  LatchesInv'
  <2>1. CASE Sixteen!TerminalInitialFetch(latches)
    <3>1. latches' = Sixteen!Halted(latches) /\ chain' = chain
      BY <1>1, <1>4, <2>1 DEF Sixteen!InitialFetch, Sixteen!Result
    <3>2. /\ latches' \in Latches /\ latches'.faulted = TRUE /\ latches'.kind = latches.kind
          /\ latches'.s = latches.s /\ latches'.t = latches.t /\ latches'.stopped = latches.stopped
          /\ latches'.tracePending = FALSE
      BY <1>1, <1>2, <3>1 DEF Sixteen!Halted, Latches
    <3>3. Sixteen!EntriesAreSound'
      BY <3>1, <3>2 DEF LatchesInv, Sixteen!EntriesAreSound
    <3>4. Sixteen!TraceOnce'
      BY <1>1, <3>2 DEF Sixteen!TraceOnce
    <3> QED BY <1>1, <3>1, <3>2, <3>3, <3>4 DEF LatchesInv
  <2>2. CASE ~Sixteen!TerminalInitialFetch(latches)
    <3>1. chain = 0
      BY <1>1, <2>2 DEF LatchesInv, Sixteen!TerminalInitialFetch
    <3>2. Failure(r)
      BY <1>1, <1>4, <2>2, MemoryErrorsFail DEF Sixteen!InitialFetch
    <3>3. latches' \in Latches /\ Entered(latches') /\ chain' \in {0, 1} /\ latches'.kind = "fault"
      BY <1>4, <3>1, <3>2 DEF Failure
    <3> QED BY <1>1, <3>3, EnteredIsSound
  <2> QED BY <2>1, <2>2
<1>5. QED
  BY <1>3, <1>4 DEF Sixteen!StepFailsToFetch, Sixteen!Records, Sixteen!Chained

\* A complete opcode, from the trace that was sampled before it to what it leaves.
LEMMA OpcodesKeepLatches == LatchesInv /\ Sixteen!StepExecutes => LatchesInv'
<1> SUFFICES ASSUME LatchesInv, Sixteen!StepExecutes PROVE LatchesInv'
  OBVIOUS
<1>1. latches \in Latches /\ latches.tracePending = FALSE
  BY DEF LatchesInv, Sixteen!StepExecutes, Sixteen!Runs, Latches
<1>2. PICK r \in Sixteen!Dispatched(latches, latches.t) :
        /\ latches' = r.cpu /\ chain' = r.frames
        /\ owed' = (latches.t /\ (r.how = "retired" \/ (r.how = "delivered" /\ r.cpu.kind = "trap")))
  BY DEF Sixteen!StepExecutes, Sixteen!Records
<1> DEFINE b == Sixteen!BeginInstruction(latches)
<1>3. b \in Latches /\ b.kind = "none" /\ b.tracePending = FALSE
  BY <1>1 DEF Sixteen!BeginInstruction, Latches, Sixteen!Kinds
<1>4. \/ r = Sixteen!Result(b, "threw", 0)
      \/ r \in Sixteen!MemoryError(b)
      \/ \E source \in Sixteen!Sources : \E x \in Sixteen!Exception(b, source) :
           r = Sixteen!Entry(x, source, latches.t)
      \/ \E e \in Sixteen!Executed(b) : r = Sixteen!Traced(Sixteen!Result(e, "retired", 0), latches.t)
  <2> DEFINE entries(source) == {Sixteen!Entry(x, source, latches.t) : x \in Sixteen!Exception(b, source)}
             all == {entries(source) : source \in Sixteen!Sources}
             completed == {Sixteen!Traced(Sixteen!Result(e, "retired", 0), latches.t) : e \in Sixteen!Executed(b)}
  <2>1. Sixteen!Dispatched(latches, latches.t) =
          {Sixteen!Result(b, "threw", 0)} \cup Sixteen!MemoryError(b) \cup (UNION all) \cup completed
    BY DEF Sixteen!Dispatched
  <2> HIDE DEF b, all, completed, entries
  <2>2. r \in Sixteen!Dispatched(latches, latches.t)
    BY <1>2
  <2>5. r = Sixteen!Result(b, "threw", 0) \/ r \in Sixteen!MemoryError(b) \/ r \in UNION all \/ r \in completed
    BY <2>1, <2>2
  <2>3. CASE r \in UNION all
    <3>1. PICK source \in Sixteen!Sources : r \in entries(source)
      BY <2>3 DEF all
    <3>2. PICK x \in Sixteen!Exception(b, source) : r = Sixteen!Entry(x, source, latches.t)
      BY <3>1 DEF entries
    <3> QED BY <3>2
  <2>4. CASE r \in completed
    BY <2>4 DEF completed
  <2> QED BY <2>3, <2>4, <2>5
<1> HIDE DEF b
\* The CPU that has not entered anything keeps kind "none".
<1>5. ASSUME latches' \in Latches, latches'.kind = "none", chain' = 0, latches'.tracePending = owed', owed' \in BOOLEAN
      PROVE  LatchesInv'
  <2>1. Sixteen!EntriesAreSound' /\ Sixteen!TraceOnce'
    BY <1>5 DEF Sixteen!EntriesAreSound, Sixteen!TraceOnce
  <2> QED BY <1>5, <2>1 DEF LatchesInv
<1>6. ASSUME Failure(r) PROVE LatchesInv'
  <2>1. latches' \in Latches /\ Entered(latches') /\ chain' \in {0, 1} /\ latches'.kind = "fault" /\ owed' = FALSE
    BY <1>2, <1>6 DEF Failure
  <2> QED BY <2>1, EnteredIsSound
<1>7. CASE r = Sixteen!Result(b, "threw", 0)
  <2>1. latches' = b /\ chain' = 0 /\ owed' = FALSE
    BY <1>2, <1>7 DEF Sixteen!Result
  <2> QED BY <1>3, <1>5, <2>1
<1>8. CASE r \in Sixteen!MemoryError(b)
  BY <1>3, <1>6, <1>8, MemoryErrorsFail
<1>9. ASSUME NEW source \in Sixteen!Sources, NEW x \in Sixteen!Exception(b, source),
             r = Sixteen!Entry(x, source, latches.t)
      PROVE  LatchesInv'
  <2> DEFINE c == Sixteen!Prepared(b)
             completed == source = "complete"
  <2>1. c \in Latches /\ Entered(c) /\ c.kind = "none" /\ completed \in BOOLEAN
    BY <1>3, PreparedEnters
  <2>2. x \in Sixteen!Finish(c, completed)
    BY <1>9 DEF Sixteen!Exception
  <2> HIDE DEF c, completed
  <2>3. \/ Failure(x)
        \/ x = Sixteen!Result(c, "threw", 0)
        \/ \E e \in Latches : /\ x = Sixteen!Result(e, "delivered", 0) /\ Entered(e)
                              /\ e.kind = IF completed THEN "trap" ELSE "exception"
    BY <2>1, <2>2, EntriesFinish
  <2>4. CASE Failure(x)
    BY <1>6, <1>9, <2>4 DEF Failure, Sixteen!Entry
  <2>5. CASE x = Sixteen!Result(c, "threw", 0)
    <3>1. latches' = c /\ chain' = 0 /\ owed' = FALSE
      BY <1>2, <1>9, <2>5 DEF Sixteen!Result, Sixteen!Entry
    <3> QED BY <1>5, <2>1, <3>1 DEF Entered
  <2>6. ASSUME NEW e \in Latches, x = Sixteen!Result(e, "delivered", 0), Entered(e),
               e.kind = IF completed THEN "trap" ELSE "exception"
        PROVE  LatchesInv'
    <3>1. r = Sixteen!Traced(Sixteen!Result(e, "delivered", 0), latches.t /\ source = "complete")
      BY <1>9, <2>6 DEF Sixteen!Result, Sixteen!Entry
    <3>3. /\ latches' = [e EXCEPT !.tracePending = (latches.t /\ source = "complete")]
          /\ chain' = 0 /\ r.how = "delivered" /\ r.cpu.kind = e.kind
      BY <1>2, <2>6, <3>1 DEF Sixteen!Result, Sixteen!Traced, Latches
    <3>4. owed' = (latches.t /\ source = "complete")
      BY <1>2, <2>6, <3>3 DEF completed
    <3>5. /\ latches' \in Latches /\ latches'.s = TRUE /\ latches'.t = FALSE /\ latches'.stopped = FALSE
          /\ latches'.kind = e.kind /\ latches'.tracePending = owed'
      BY <2>6, <3>3, <3>4 DEF Latches, Entered
    <3>6. Sixteen!EntriesAreSound'
      BY <3>3, <3>5 DEF Sixteen!EntriesAreSound
    <3>7. Sixteen!TraceOnce'
      BY <2>6, <3>4, <3>5 DEF Sixteen!TraceOnce, completed
    <3> QED BY <3>3, <3>4, <3>5, <3>6, <3>7 DEF LatchesInv
  <2> QED BY <2>3, <2>4, <2>5, <2>6
<1>10. ASSUME NEW e \in Sixteen!Executed(b), r = Sixteen!Traced(Sixteen!Result(e, "retired", 0), latches.t)
       PROVE  LatchesInv'
  <2>1. e \in Latches /\ e.kind = "none"
    <3> DEFINE loaded == {[b EXCEPT !.s = sr.s, !.t = sr.t, !.mask = sr.mask] : sr \in Sixteen!StatusRegister}
               waiting == {[b EXCEPT !.stopped = TRUE, !.t = sr.t, !.mask = sr.mask] : sr \in Sixteen!StatusRegister}
               moved == {[b EXCEPT !.oddStack = q] : q \in BOOLEAN}
    <3>1. Sixteen!Executed(b) = {b} \cup (IF b.s THEN loaded \cup waiting \cup moved ELSE {})
      BY DEF Sixteen!Executed
    <3>2. ASSUME NEW sr \in Sixteen!StatusRegister
          PROVE  /\ [b EXCEPT !.s = sr.s, !.t = sr.t, !.mask = sr.mask] \in Latches
                 /\ [b EXCEPT !.s = sr.s, !.t = sr.t, !.mask = sr.mask].kind = "none"
                 /\ [b EXCEPT !.stopped = TRUE, !.t = sr.t, !.mask = sr.mask] \in Latches
                 /\ [b EXCEPT !.stopped = TRUE, !.t = sr.t, !.mask = sr.mask].kind = "none"
      BY <1>3 DEF Latches, Sixteen!StatusRegister
    <3>3. ASSUME NEW q \in BOOLEAN
          PROVE  [b EXCEPT !.oddStack = q] \in Latches /\ [b EXCEPT !.oddStack = q].kind = "none"
      BY <1>3 DEF Latches
    <3>4. CASE e \in loaded
      BY <3>2, <3>4
    <3>5. CASE e \in waiting
      BY <3>2, <3>5
    <3>6. CASE e \in moved
      BY <3>3, <3>6
    <3> HIDE DEF loaded, waiting, moved
    <3>7. e = b \/ e \in loaded \/ e \in waiting \/ e \in moved
      BY <1>10, <3>1
    <3> QED BY <1>3, <3>4, <3>5, <3>6, <3>7
  <2>2. latches' = [e EXCEPT !.tracePending = latches.t] /\ chain' = 0 /\ r.how = "retired"
    BY <1>2, <1>10 DEF Sixteen!Result, Sixteen!Traced
  <2>3. owed' = latches.t /\ latches.t \in BOOLEAN
    BY <1>1, <1>2, <2>2 DEF Latches
  <2>4. latches' \in Latches /\ latches'.kind = "none" /\ latches'.tracePending = latches.t
    BY <2>1, <2>2, <2>3 DEF Latches
  <2> QED BY <1>5, <2>2, <2>3, <2>4
<1> QED BY <1>4, <1>7, <1>8, <1>9, <1>10

\* An offer that the gate lets through, at the levels a device may offer.
LEMMA OffersKeepLatches ==
  ASSUME NEW level \in Levels, LatchesInv, Sixteen!InterruptOffered(level)
  PROVE  LatchesInv'
<1>1. latches \in Latches /\ latches.faulted = FALSE /\ latches.tracePending = FALSE /\ owed' = FALSE /\ chain \in {0, 1}
  BY DEF LatchesInv, Sixteen!InterruptOffered, Sixteen!Gate, Latches
<1> DEFINE prepared == Sixteen!Prepared(latches)
           c == Sixteen!Accepted(prepared, level)
<1>2. prepared \in Latches /\ Entered(prepared) /\ prepared.oddStack = latches.oddStack
  BY <1>1, PreparedEnters
<1>3. c \in Latches /\ Entered(c)
  BY <1>2 DEF Latches, Entered, Sixteen!Accepted
<1>4. CASE latches.oddStack
  <2>1. PICK r \in Sixteen!MemoryError(prepared) : latches' = r.cpu /\ chain' = chain + r.frames
    BY <1>4 DEF Sixteen!InterruptOffered, Sixteen!Records, Sixteen!Chained
  <2>2. Failure(r)
    BY <1>2, <2>1, MemoryErrorsFail
  <2>3. r.frames = 0
    BY <1>1, <1>2, <1>4, <2>1, PreparedEnters DEF Sixteen!MemoryError, Sixteen!Result, Latches
  <2>4. latches' \in Latches /\ Entered(latches') /\ chain' \in {0, 1} /\ latches'.kind = "fault"
    BY <1>1, <2>1, <2>2, <2>3 DEF Failure
  <2> QED BY <1>1, <2>4, EnteredIsSound
<1>5. CASE ~latches.oddStack
  <2>1. PICK r \in {Sixteen!Result(c, "threw", 0)} \cup Sixteen!Finish(c, FALSE) : latches' = r.cpu /\ chain' = r.frames
    BY <1>5 DEF Sixteen!InterruptOffered, Sixteen!Records
  <2> HIDE DEF c
  <2>2. \/ Failure(r)
        \/ r = Sixteen!Result(c, "threw", 0)
        \/ \E e \in Latches : r = Sixteen!Result(e, "delivered", 0) /\ Entered(e)
    BY <1>3, <2>1, EntriesFinish
  <2>3. latches' \in Latches /\ Entered(latches') /\ chain' \in {0, 1} /\ (chain' = 0 \/ latches'.kind = "fault")
    BY <1>3, <2>1, <2>2 DEF Failure, Sixteen!Result
  <2> QED BY <1>1, <2>3, EnteredIsSound
<1> QED BY <1>4, <1>5

\* External reset, and one that the host interrupts.
LEMMA ResetsKeepLatches == LatchesInv /\ (Sixteen!Reset \/ Sixteen!ResetThrows) => LatchesInv'
<1> SUFFICES ASSUME LatchesInv, Sixteen!Reset \/ Sixteen!ResetThrows PROVE LatchesInv'
  OBVIOUS
<1>1. CASE Sixteen!Reset
  <2>1. PICK oddStack, oddPc, failed \in BOOLEAN :
          latches' = [s |-> TRUE, t |-> FALSE, mask |-> 7, stopped |-> FALSE, tracePending |-> FALSE,
                      faulted |-> failed \/ oddPc, kind |-> "reset", oddPc |-> oddPc, oddStack |-> oddStack]
    BY <1>1 DEF Sixteen!Reset
  <2>2. owed' = FALSE /\ chain' = 1
    BY <1>1 DEF Sixteen!Reset
  <2>3. latches' \in Latches /\ latches'.kind = "reset" /\ latches'.tracePending = FALSE
    BY <2>1 DEF Latches, Sixteen!Kinds
  <2>4. Sixteen!EntriesAreSound'
    BY <2>2, <2>3 DEF Sixteen!EntriesAreSound
  <2>5. Sixteen!TraceOnce'
    BY <2>2, <2>3 DEF Sixteen!TraceOnce
  <2> QED BY <2>2, <2>3, <2>4, <2>5 DEF LatchesInv
<1>2. CASE Sixteen!ResetThrows
  <2>1. PICK oddStack \in BOOLEAN : latches' = [latches EXCEPT !.oddStack = oddStack]
    BY <1>2 DEF Sixteen!ResetThrows
  <2>2. owed' = owed /\ chain' = chain
    BY <1>2 DEF Sixteen!ResetThrows
  <2>3. /\ latches' \in Latches /\ latches'.kind = latches.kind /\ latches'.tracePending = latches.tracePending
        /\ latches'.s = latches.s /\ latches'.t = latches.t /\ latches'.stopped = latches.stopped
        /\ latches'.faulted = latches.faulted
    BY <2>1 DEF LatchesInv, Latches
  <2>4. Sixteen!EntriesAreSound' /\ Sixteen!TraceOnce'
    BY <2>2, <2>3 DEF LatchesInv, Sixteen!EntriesAreSound, Sixteen!TraceOnce
  <2> QED BY <2>2, <2>3, <2>4 DEF LatchesInv
<1> QED BY <1>1, <1>2

\* word-execution.ts, word-events.ts: whatever instructions, faults, traces, offers and resets
\* come, in any order, a second bus or address error in an entry stops the CPU, a handler starts
\* in supervisor mode, untraced and running, and a trace is owed once.
THEOREM WordEntriesAreSound ==
  Sixteen!Spec => [](Sixteen!WordTypeOK /\ Sixteen!EntriesAreSound /\ Sixteen!TraceOnce)
<1>1. ASSUME LatchesInv, [Sixteen!Next]_(Sixteen!vars)
      PROVE  LatchesInv'
  <2>1. CASE UNCHANGED Sixteen!vars \/ Sixteen!StepIdle \/ \E level \in Levels : Sixteen!InterruptIgnored(level)
    <3>1. latches' = latches /\ owed' = owed /\ chain' = chain
      BY <2>1 DEF Sixteen!vars, Sixteen!StepIdle, Sixteen!InterruptIgnored
    <3> QED BY <1>1, <3>1 DEF LatchesInv, Sixteen!EntriesAreSound, Sixteen!TraceOnce
  <2>2. CASE Sixteen!StepTrace
    BY <1>1, <2>2, TracesKeepLatches
  <2>3. CASE Sixteen!StepFailsToFetch
    BY <1>1, <2>3, FetchesKeepLatches
  <2>4. CASE Sixteen!StepExecutes
    BY <1>1, <2>4, OpcodesKeepLatches
  <2>5. CASE \E level \in Levels : Sixteen!InterruptOffered(level)
    BY <1>1, <2>5, OffersKeepLatches
  <2>6. CASE Sixteen!Reset \/ Sixteen!ResetThrows
    BY <1>1, <2>6, ResetsKeepLatches
  <2> QED BY <1>1, <2>1, <2>2, <2>3, <2>4, <2>5, <2>6 DEF Sixteen!Next
<1>2. LatchesInv => Sixteen!WordTypeOK /\ Sixteen!EntriesAreSound /\ Sixteen!TraceOnce
  BY LatchesAreTyped DEF LatchesInv
<1> QED BY <1>1, <1>2, LatchesStart, PTL DEF Sixteen!Spec

----------------------------------------------------------------------------
(* The 8088.                                                               *)

Orders == {"clocks", "fetch", "more", "write", "unpublished", "port", "sti", "read", "delay", "flags", "halt",
           "test", "escape", "mask", "jump", "report", "divide", "again", "refuse", "acknowledge"}
Has(todo, order) == \E i \in 1..Len(todo) : todo[i] = order
Only(todo, orders) == \A i \in 1..Len(todo) : todo[i] \in orders

\* What leaves the CPU as it was, what follows once it has entered, and an entry.
Quiet == {"fetch", "unpublished", "port", "refuse"}
Framing == {"write", "jump", "report"}
EntryOrders == {"acknowledge", "read", "mask", "write", "jump"}

\* The rest of an instruction, wherever it is taken up: its cost comes first, an addition once, a
\* halt last, a refusal before anything is changed, and the frame after the flags are cleared.
Ordered(todo) ==
    /\ todo \in Seq(Orders)
    /\ \A i \in 1..Len(todo) : todo[i] = "clocks" => i = 1
    /\ \A i, j \in 1..Len(todo) : todo[i] = "more" /\ todo[j] = "more" => i = j
    /\ \A i \in 1..Len(todo) : todo[i] = "halt" => i = Len(todo)
    /\ Has(todo, "halt") => Only(todo, {"clocks", "halt"})
    /\ Has(todo, "unpublished") \/ Has(todo, "refuse") => Only(todo, Quiet)
    /\ \A i, j \in 1..Len(todo) : todo[i] = "mask" /\ i < j => todo[j] \in Framing

Processors == Segmented!Processor
Offset == 0..(Offsets - 1)
Attempts == [kind : {"step", "resume", "trap", "offer"}, timed : BOOLEAN, from : Offset, was : Processors,
             log : Seq(Orders), todo : Seq(Orders), bytes : Nat, repeat : BOOLEAN, prefixes : Nat, clocks : Nat,
             intr : BOOLEAN, all : BOOLEAN,
             vector : {"none", "trap", "intr", "nmi", "divide-error", "software"}]

\* Of an attempt a, and the CPU c while it is under way.  The trap is still owed, or being made;
\* an entry will clear the flags or has; what may be refused has changed nothing; a prefix has
\* changed nothing; what halts does not wait for recognition; and the clocks are those published.
Cleared(c) == c.tf = FALSE /\ c.if = FALSE /\ c.halted = FALSE /\ c.waiting = FALSE
Trapping(a, c) == c.trapPending = TRUE <=> a.was.trapPending = TRUE /\ a.kind # "trap"
Clearing(a, c) ==
    a.vector # "none" \/ Has(a.todo, "report") =>
        Has(a.todo, "mask") \/ (Cleared(c) /\ Only(a.todo, Framing))
Refusable(a, c) == Has(a.todo, "unpublished") \/ Has(a.todo, "refuse") => c = a.was
Unfetched(a, c) ==
    /\ a.prefixes <= a.bytes
    /\ a.kind = "step" /\ a.bytes = a.prefixes =>
         a.todo = <<>> /\ c = a.was /\ a.clocks = 0 /\ a.vector = "none" /\ a.all = FALSE
Latched(a, c) ==
    /\ a.kind \in {"step", "resume"} =>
         /\ a.was.halted = FALSE
         /\ c.halted = TRUE => a.todo = <<>> /\ a.all = FALSE
         /\ Has(a.todo, "halt") => a.all = FALSE
    /\ a.kind = "resume" => a.timed = FALSE /\ Only(a.todo, {"test"})
    /\ a.kind \in {"trap", "offer"} =>
         /\ Only(a.todo, EntryOrders) /\ a.vector # "none"
         /\ c.halted = TRUE => c.recognitionDeferred = FALSE
    /\ a.kind = "offer" => a.timed = FALSE /\ c.halted = FALSE /\ c.waiting = FALSE
Published(a) == Segmented!PrefixClocks * a.prefixes + Segmented!Clocks
Priced(a, c) ==
    /\ a.kind = "trap" => a.prefixes = 0 /\ (a.timed = TRUE => a.clocks = Segmented!PendingClocks)
    /\ a.kind = "step" /\ a.timed = TRUE =>
         /\ a.clocks \in {0, Published(a), Published(a) + Segmented!Addition}
         /\ Has(a.todo, "more") => Has(a.todo, "clocks") \/ a.clocks = Published(a)
         /\ a.clocks = 0 => c = a.was /\ (Only(a.todo, Quiet) \/ Has(a.todo, "clocks"))
Going(a, c) ==
    /\ a \in Attempts /\ c \in Processors /\ Ordered(a.todo)
    /\ Trapping(a, c) /\ Clearing(a, c) /\ Refusable(a, c)
    /\ Unfetched(a, c) /\ Latched(a, c) /\ Priced(a, c)

\* Between boundaries: the last record is true, and a halted CPU can be woken.
Resting ==
    /\ attempt = Segmented!NoAttempt /\ wires = <<>> /\ chip \in Processors /\ Segmented!AttemptIsSound
    /\ chip.halted = TRUE => chip.recognitionDeferred = FALSE
AttemptInv ==
    /\ ip \in Offset /\ wires \in Seq(Orders)
    /\ Resting \/ (Going(attempt, chip) /\ attempt.log = wires)

HasOffsets == Offsets \in Nat \ {0}

LEMMA RestsAreOrdered ==
  ASSUME NEW todo, Ordered(todo), todo # <<>>
  PROVE  /\ Ordered(Tail(todo)) /\ Head(todo) = todo[1] /\ Head(todo) \in Orders /\ Len(todo) >= 1
         /\ Len(Tail(todo)) = Len(todo) - 1
         /\ \A i \in 1..Len(Tail(todo)) : i + 1 \in 1..Len(todo) /\ Tail(todo)[i] = todo[i + 1]
<1>1. todo \in Seq(Orders)
  BY DEF Ordered
<1>2. /\ Tail(todo) \in Seq(Orders) /\ Head(todo) = todo[1] /\ Head(todo) \in Orders /\ Len(todo) >= 1
      /\ Len(Tail(todo)) = Len(todo) - 1
  BY <1>1
<1>3. \A i \in 1..Len(Tail(todo)) : i + 1 \in 1..Len(todo) /\ Tail(todo)[i] = todo[i + 1]
  BY <1>1, <1>2
<1> DEFINE t == Tail(todo)
<1> HIDE DEF t
<1>4. /\ t \in Seq(Orders) /\ Len(t) = Len(todo) - 1 /\ Len(todo) \in Nat
      /\ \A i \in 1..Len(t) : i + 1 \in 1..Len(todo) /\ t[i] = todo[i + 1]
  BY <1>1, <1>2, <1>3 DEF t
<1>5. \A i \in 1..Len(t) : t[i] = "clocks" => i = 1
  BY <1>4 DEF Ordered
<1>6. \A i, j \in 1..Len(t) : t[i] = "more" /\ t[j] = "more" => i = j
  BY <1>4 DEF Ordered
<1>7. \A i \in 1..Len(t) : t[i] = "halt" => i = Len(t)
  BY <1>4 DEF Ordered
<1>8. Has(t, "halt") => Only(t, {"clocks", "halt"})
  BY <1>4 DEF Ordered, Has, Only
<1>9. Has(t, "unpublished") \/ Has(t, "refuse") => Only(t, Quiet)
  BY <1>4 DEF Ordered, Has, Only
<1>10. \A i, j \in 1..Len(t) : t[i] = "mask" /\ i < j => t[j] \in Framing
  BY <1>4 DEF Ordered
<1>11. Ordered(t)
  BY <1>4, <1>5, <1>6, <1>7, <1>8, <1>9, <1>10 DEF Ordered
<1> QED BY <1>2, <1>3, <1>11 DEF t

\* What a list has, its rest has but for its head.
LEMMA RestsHave ==
  ASSUME NEW todo, Ordered(todo), todo # <<>>, NEW order
  PROVE  Has(todo, order) <=> Head(todo) = order \/ Has(Tail(todo), order)
<1>1. \A i \in 1..Len(todo) : i = 1 \/ i - 1 \in 1..Len(Tail(todo))
  BY RestsAreOrdered DEF Ordered
<1>2. ASSUME Has(todo, order) PROVE Head(todo) = order \/ Has(Tail(todo), order)
  <2>1. PICK i \in 1..Len(todo) : todo[i] = order
    BY <1>2 DEF Has
  <2>2. CASE i = 1
    BY <2>1, <2>2, RestsAreOrdered
  <2>3. CASE i - 1 \in 1..Len(Tail(todo))
    <3>1. Tail(todo)[i - 1] = todo[(i - 1) + 1] /\ (i - 1) + 1 = i
      BY <2>3, RestsAreOrdered
    <3> QED BY <2>1, <2>3, <3>1 DEF Has
  <2> QED BY <1>1, <2>2, <2>3
<1>3. ASSUME Head(todo) = order PROVE Has(todo, order)
  <2>1. 1 \in 1..Len(todo) /\ todo[1] = order
    BY <1>3, RestsAreOrdered DEF Ordered
  <2> QED BY <2>1 DEF Has
<1>4. ASSUME Has(Tail(todo), order) PROVE Has(todo, order)
  <2>1. PICK i \in 1..Len(Tail(todo)) : Tail(todo)[i] = order
    BY <1>4 DEF Has
  <2>2. i + 1 \in 1..Len(todo) /\ todo[i + 1] = order
    BY <2>1, RestsAreOrdered
  <2> QED BY <2>2 DEF Has
<1> QED BY <1>2, <1>3, <1>4

LEMMA RestsKeepTo ==
  ASSUME NEW todo, Ordered(todo), todo # <<>>, NEW orders, Only(todo, orders)
  PROVE  Head(todo) \in orders /\ Only(Tail(todo), orders)
<1>1. 1 \in 1..Len(todo) /\ Head(todo) = todo[1]
  BY RestsAreOrdered DEF Ordered
<1>2. Head(todo) \in orders
  BY <1>1 DEF Only
<1>3. Only(Tail(todo), orders)
  BY RestsAreOrdered DEF Only
<1> QED BY <1>2, <1>3

\* What the head says of the rest.
LEMMA HeadsRule ==
  ASSUME NEW todo, Ordered(todo), todo # <<>>
  PROVE  /\ Has(todo, "clocks") <=> Head(todo) = "clocks"
         /\ Head(todo) = "more" => ~Has(Tail(todo), "more")
         /\ Head(todo) = "halt" => Tail(todo) = <<>>
         /\ Head(todo) = "mask" => Only(Tail(todo), Framing)
<1>1. /\ Head(todo) = todo[1] /\ Len(todo) >= 1 /\ Len(todo) \in Nat /\ Len(Tail(todo)) = Len(todo) - 1
      /\ Tail(todo) \in Seq(Orders)
  BY RestsAreOrdered DEF Ordered
<1>2. \A i \in 1..Len(Tail(todo)) : i + 1 \in 1..Len(todo) /\ Tail(todo)[i] = todo[i + 1]
  BY RestsAreOrdered
<1>3. Has(todo, "clocks") <=> Head(todo) = "clocks"
  <2>1. 1 \in 1..Len(todo)
    BY <1>1
  <2> QED BY <1>1, <2>1 DEF Has, Ordered
<1>4. Head(todo) = "more" => ~Has(Tail(todo), "more")
  <2> SUFFICES ASSUME Head(todo) = "more", NEW i \in 1..Len(Tail(todo)), Tail(todo)[i] = "more" PROVE FALSE
    BY DEF Has
  <2>1. 1 \in 1..Len(todo) /\ i + 1 \in 1..Len(todo) /\ todo[1] = "more" /\ todo[i + 1] = "more" /\ i + 1 # 1
    BY <1>1, <1>2
  <2> QED BY <2>1 DEF Ordered
<1>5. ASSUME Head(todo) = "halt" PROVE Tail(todo) = <<>>
  <2>1. 1 \in 1..Len(todo) /\ todo[1] = "halt"
    BY <1>1, <1>5
  <2>2. Len(todo) = 1
    BY <2>1 DEF Ordered
  <2>3. Len(Tail(todo)) = 0
    BY <1>1, <2>2
  <2> QED BY <1>1, <2>3, EmptySeq
<1>6. Head(todo) = "mask" => Only(Tail(todo), Framing)
  <2> SUFFICES ASSUME Head(todo) = "mask", NEW i \in 1..Len(Tail(todo)) PROVE Tail(todo)[i] \in Framing
    BY DEF Only
  <2>1. 1 \in 1..Len(todo) /\ i + 1 \in 1..Len(todo) /\ todo[1] = "mask" /\ 1 < i + 1
    BY <1>1, <1>2
  <2>2. todo[i + 1] \in Framing
    BY <2>1 DEF Ordered
  <2> QED BY <1>2, <2>2
<1> QED BY <1>3, <1>4, <1>5, <1>6

LEMMA EntriesAreScripted ==
  /\ Segmented!EntryScript = <<"read", "mask", "write", "jump">>
  /\ <<"acknowledge">> \o Segmented!EntryScript = <<"acknowledge", "read", "mask", "write", "jump">>
  /\ <<"clocks", "fetch">> \o Segmented!EntryScript \o <<"report">>
       = <<"clocks", "fetch", "read", "mask", "write", "jump", "report">>
<1> DEFINE entry == <<"read", "mask", "write", "jump">>
           acknowledged == <<"acknowledge", "read", "mask", "write", "jump">>
           int == <<"clocks", "fetch", "read", "mask", "write", "jump", "report">>
<1>1. <<"acknowledge">> \o entry = acknowledged
  <2>1. <<"acknowledge">> \in Seq(Orders) /\ entry \in Seq(Orders) /\ acknowledged \in Seq(Orders)
    BY DEF Orders
  <2>2. <<"acknowledge">> \o entry \in Seq(Orders)
    BY <2>1, ConcatProperties
  <2>3. Len(<<"acknowledge">> \o entry) = 5 /\ Len(acknowledged) = 5
    OBVIOUS
  <2>4. \A i \in 1..5 : (<<"acknowledge">> \o entry)[i] = acknowledged[i]
    OBVIOUS
  <2> QED BY <2>1, <2>2, <2>3, <2>4, SeqEqual
<1>2. <<"clocks", "fetch">> \o entry \o <<"report">> = int
  <2>1. /\ <<"clocks", "fetch">> \in Seq(Orders) /\ entry \in Seq(Orders) /\ <<"report">> \in Seq(Orders)
        /\ int \in Seq(Orders)
    BY DEF Orders
  <2>2. <<"clocks", "fetch">> \o entry \o <<"report">> \in Seq(Orders)
    BY <2>1, ConcatProperties
  <2>3. Len(<<"clocks", "fetch">> \o entry \o <<"report">>) = 7 /\ Len(int) = 7
    OBVIOUS
  <2>4. \A i \in 1..7 : (<<"clocks", "fetch">> \o entry \o <<"report">>)[i] = int[i]
    OBVIOUS
  <2> QED BY <2>1, <2>2, <2>3, <2>4, SeqEqual
<1> QED BY <1>1, <1>2 DEF Segmented!EntryScript

\* What a list of effects may be when an attempt takes it up.
Startable(todo) ==
    /\ Ordered(todo)
    /\ Has(todo, "report") => Has(todo, "mask")
    /\ Has(todo, "more") => Has(todo, "clocks")
Script(todo, timed) == Startable(todo) /\ (timed => Only(todo, Quiet) \/ Has(todo, "clocks"))

LEMMA InstructionsAreOrdered ==
  ASSUME NEW opcode \in Segmented!Opcodes
  PROVE  Script(Segmented!Instruction(opcode), opcode # "wait")
<1> DEFINE todo == Segmented!Instruction(opcode)
<1> SUFFICES Script(todo, opcode # "wait")
  OBVIOUS
<1> HIDE DEF todo
<1>1. CASE opcode = "store"
  <2>1. todo = <<"clocks", "fetch", "more", "write">>
    BY <1>1 DEF todo, Segmented!Instruction
  <2>2. /\ todo \in Seq(Orders) /\ Len(todo) = 4 /\ \A i \in 1..Len(todo) : i = 1 \/ i = 2 \/ i = 3 \/ i = 4
        /\ todo[1] = "clocks" /\ todo[2] = "fetch" /\ todo[3] = "more" /\ todo[4] = "write"
    BY <2>1 DEF Orders
  <2> QED BY <1>1, <2>2 DEF Script, Startable, Ordered, Has, Only, Quiet, Framing
<1>2. CASE opcode = "group"
  <2>1. todo = <<"fetch", "unpublished", "port">>
    BY <1>2 DEF todo, Segmented!Instruction
  <2>2. /\ todo \in Seq(Orders) /\ Len(todo) = 3 /\ \A i \in 1..Len(todo) : i = 1 \/ i = 2 \/ i = 3
        /\ todo[1] = "fetch" /\ todo[2] = "unpublished" /\ todo[3] = "port"
    BY <2>1 DEF Orders
  <2> QED BY <1>2, <2>2 DEF Script, Startable, Ordered, Has, Only, Quiet, Framing
<1>3. CASE opcode = "silent"
  <2>1. todo = <<"fetch">>
    BY <1>3 DEF todo, Segmented!Instruction
  <2>2. /\ todo \in Seq(Orders) /\ Len(todo) = 1 /\ \A i \in 1..Len(todo) : i = 1
        /\ todo[1] = "fetch"
    BY <2>1 DEF Orders
  <2> QED BY <1>3, <2>2 DEF Script, Startable, Ordered, Has, Only, Quiet, Framing
<1>4. CASE opcode = "sti"
  <2>1. todo = <<"clocks", "sti">>
    BY <1>4 DEF todo, Segmented!Instruction
  <2>2. /\ todo \in Seq(Orders) /\ Len(todo) = 2 /\ \A i \in 1..Len(todo) : i = 1 \/ i = 2
        /\ todo[1] = "clocks" /\ todo[2] = "sti"
    BY <2>1 DEF Orders
  <2> QED BY <1>4, <2>2 DEF Script, Startable, Ordered, Has, Only, Quiet, Framing
<1>5. CASE opcode = "segment"
  <2>1. todo = <<"clocks", "read", "delay">>
    BY <1>5 DEF todo, Segmented!Instruction
  <2>2. /\ todo \in Seq(Orders) /\ Len(todo) = 3 /\ \A i \in 1..Len(todo) : i = 1 \/ i = 2 \/ i = 3
        /\ todo[1] = "clocks" /\ todo[2] = "read" /\ todo[3] = "delay"
    BY <2>1 DEF Orders
  <2> QED BY <1>5, <2>2 DEF Script, Startable, Ordered, Has, Only, Quiet, Framing
<1>6. CASE opcode = "popf"
  <2>1. todo = <<"clocks", "read", "flags">>
    BY <1>6 DEF todo, Segmented!Instruction
  <2>2. /\ todo \in Seq(Orders) /\ Len(todo) = 3 /\ \A i \in 1..Len(todo) : i = 1 \/ i = 2 \/ i = 3
        /\ todo[1] = "clocks" /\ todo[2] = "read" /\ todo[3] = "flags"
    BY <2>1 DEF Orders
  <2> QED BY <1>6, <2>2 DEF Script, Startable, Ordered, Has, Only, Quiet, Framing
<1>7. CASE opcode = "hlt"
  <2>1. todo = <<"clocks", "halt">>
    BY <1>7 DEF todo, Segmented!Instruction
  <2>2. /\ todo \in Seq(Orders) /\ Len(todo) = 2 /\ \A i \in 1..Len(todo) : i = 1 \/ i = 2
        /\ todo[1] = "clocks" /\ todo[2] = "halt"
    BY <2>1 DEF Orders
  <2> QED BY <1>7, <2>2 DEF Script, Startable, Ordered, Has, Only, Quiet, Framing
<1>8. CASE opcode = "wait"
  <2>1. todo = <<"test">>
    BY <1>8 DEF todo, Segmented!Instruction
  <2>2. /\ todo \in Seq(Orders) /\ Len(todo) = 1 /\ \A i \in 1..Len(todo) : i = 1
        /\ todo[1] = "test"
    BY <2>1 DEF Orders
  <2> QED BY <1>8, <2>2 DEF Script, Startable, Ordered, Has, Only, Quiet, Framing
<1>9. CASE opcode = "esc"
  <2>1. todo = <<"clocks", "fetch", "read", "escape">>
    BY <1>9 DEF todo, Segmented!Instruction
  <2>2. /\ todo \in Seq(Orders) /\ Len(todo) = 4 /\ \A i \in 1..Len(todo) : i = 1 \/ i = 2 \/ i = 3 \/ i = 4
        /\ todo[1] = "clocks" /\ todo[2] = "fetch" /\ todo[3] = "read" /\ todo[4] = "escape"
    BY <2>1 DEF Orders
  <2> QED BY <1>9, <2>2 DEF Script, Startable, Ordered, Has, Only, Quiet, Framing
<1>10. CASE opcode = "int"
  <2>1. todo = <<"clocks", "fetch", "read", "mask", "write", "jump", "report">>
    BY <1>10, EntriesAreScripted DEF todo, Segmented!Instruction
  <2>2. /\ todo \in Seq(Orders) /\ Len(todo) = 7 /\ \A i \in 1..Len(todo) : i = 1 \/ i = 2 \/ i = 3 \/ i = 4 \/ i = 5 \/ i = 6 \/ i = 7
        /\ todo[1] = "clocks" /\ todo[2] = "fetch" /\ todo[3] = "read" /\ todo[4] = "mask"
        /\ todo[5] = "write" /\ todo[6] = "jump" /\ todo[7] = "report"
    BY <2>1 DEF Orders
  <2> QED BY <1>10, <2>2 DEF Script, Startable, Ordered, Has, Only, Quiet, Framing
<1>11. CASE opcode = "div"
  <2>1. todo = <<"clocks", "fetch", "divide">>
    BY <1>11 DEF todo, Segmented!Instruction
  <2>2. /\ todo \in Seq(Orders) /\ Len(todo) = 3 /\ \A i \in 1..Len(todo) : i = 1 \/ i = 2 \/ i = 3
        /\ todo[1] = "clocks" /\ todo[2] = "fetch" /\ todo[3] = "divide"
    BY <2>1 DEF Orders
  <2> QED BY <1>11, <2>2 DEF Script, Startable, Ordered, Has, Only, Quiet, Framing
<1>12. CASE opcode = "string"
  <2>1. todo = <<"clocks", "write", "again">>
    BY <1>12 DEF todo, Segmented!Instruction
  <2>2. /\ todo \in Seq(Orders) /\ Len(todo) = 3 /\ \A i \in 1..Len(todo) : i = 1 \/ i = 2 \/ i = 3
        /\ todo[1] = "clocks" /\ todo[2] = "write" /\ todo[3] = "again"
    BY <2>1 DEF Orders
  <2> QED BY <1>12, <2>2 DEF Script, Startable, Ordered, Has, Only, Quiet, Framing
<1>13. CASE opcode = "aam"
  <2>1. todo = <<"fetch", "refuse">>
    BY <1>13 DEF todo, Segmented!Instruction
  <2>2. /\ todo \in Seq(Orders) /\ Len(todo) = 2 /\ \A i \in 1..Len(todo) : i = 1 \/ i = 2
        /\ todo[1] = "fetch" /\ todo[2] = "refuse"
    BY <2>1 DEF Orders
  <2> QED BY <1>13, <2>2 DEF Script, Startable, Ordered, Has, Only, Quiet, Framing
<1> QED BY <1>1, <1>2, <1>3, <1>4, <1>5, <1>6, <1>7, <1>8, <1>9, <1>10, <1>11, <1>12, <1>13 DEF Segmented!Opcodes

LEMMA EntriesAreOrdered ==
  ASSUME NEW todo \in {Segmented!EntryScript, <<"acknowledge">> \o Segmented!EntryScript}
  PROVE  /\ Startable(todo) /\ Only(todo, EntryOrders) /\ Has(todo, "mask") /\ todo # <<>>
         /\ ~Has(todo, "halt") /\ ~Has(todo, "unpublished") /\ ~Has(todo, "refuse")
<1>1. CASE todo = <<"read", "mask", "write", "jump">>
  BY <1>1 DEF Startable, Ordered, Has, Only, Orders, Quiet, Framing, EntryOrders
<1>2. CASE todo = <<"acknowledge", "read", "mask", "write", "jump">>
  BY <1>2 DEF Startable, Ordered, Has, Only, Orders, Quiet, Framing, EntryOrders
<1> QED BY <1>1, <1>2, EntriesAreScripted

\* One effect of a body: what it may change of the attempt and of the CPU, by its name.
Moves(a, c, b, d) ==
    LET effect == Head(a.todo) IN
    /\ b \in Attempts /\ d \in Processors /\ b.todo = Tail(a.todo)
    /\ b.kind = a.kind /\ b.timed = a.timed /\ b.was = a.was /\ b.prefixes = a.prefixes /\ b.bytes >= a.bytes
    /\ b.vector = a.vector \/ effect = "report"
    /\ b.all = a.all \/ effect \in {"delay", "test"}
    /\ d.trapPending = c.trapPending
    /\ effect \in Quiet => d = c
    /\ effect = "mask" \/ (effect \in Framing /\ Cleared(c)) => Cleared(d)
    /\ d.halted = c.halted \/ effect \in {"mask", "halt"}
    /\ d.waiting = c.waiting \/ effect \in {"mask", "test"}
    /\ d.recognitionDeferred = c.recognitionDeferred \/ effect = "mask"
    /\ a.timed = TRUE /\ effect = "clocks" => b.clocks = Published(a)
    /\ a.timed = TRUE /\ effect = "more" => b.clocks = a.clocks + Segmented!Addition
    /\ b.clocks = a.clocks \/ effect \in {"clocks", "more"}

LEMMA EffectsGoOn ==
  ASSUME NEW a, NEW c, NEW b, NEW d, Going(a, c), a.todo # <<>>, Moves(a, c, b, d)
  PROVE  Going(b, d)
<1> DEFINE h == Head(a.todo)
           t == Tail(a.todo)
<1> HIDE DEF h, t
<1>1. Ordered(a.todo) /\ b.todo = t
  BY DEF Going, Moves, t
<1>2. Ordered(t) /\ h \in Orders
  BY <1>1, RestsAreOrdered DEF h, t
<1>3. \A order : Has(a.todo, order) <=> h = order \/ Has(t, order)
  BY <1>1, RestsHave DEF h, t
<1>4. /\ Has(a.todo, "clocks") <=> h = "clocks"
      /\ h = "more" => ~Has(t, "more")
      /\ h = "halt" => t = <<>>
      /\ h = "mask" => Only(t, Framing)
  BY <1>1, HeadsRule DEF h, t
<1>5. \A orders : Only(a.todo, orders) => h \in orders /\ Only(t, orders)
  BY <1>1, RestsKeepTo DEF h, t
<1>6. /\ Has(a.todo, "halt") => Only(a.todo, {"clocks", "halt"})
      /\ Has(a.todo, "unpublished") \/ Has(a.todo, "refuse") => Only(a.todo, Quiet)
  BY <1>1 DEF Ordered
<1>7. a \in Attempts /\ c \in Processors /\ b \in Attempts /\ d \in Processors
  BY DEF Going, Moves
<1>8. /\ b.kind = a.kind /\ b.timed = a.timed /\ b.was = a.was /\ b.prefixes = a.prefixes /\ b.bytes >= a.bytes
      /\ b.vector = a.vector \/ h = "report"
      /\ b.all = a.all \/ h \in {"delay", "test"}
      /\ d.trapPending = c.trapPending
      /\ h \in Quiet => d = c
      /\ h = "mask" \/ (h \in Framing /\ Cleared(c)) => Cleared(d)
      /\ d.halted = c.halted \/ h \in {"mask", "halt"}
      /\ d.waiting = c.waiting \/ h \in {"mask", "test"}
      /\ d.recognitionDeferred = c.recognitionDeferred \/ h = "mask"
      /\ a.timed = TRUE /\ h = "clocks" => b.clocks = Published(a)
      /\ a.timed = TRUE /\ h = "more" => b.clocks = a.clocks + Segmented!Addition
      /\ b.clocks = a.clocks \/ h \in {"clocks", "more"}
  BY DEF Moves, h
<1>9. Trapping(b, d)
  BY <1>7, <1>8 DEF Going, Trapping
<1>10. Clearing(b, d)
  <2>1. ASSUME b.vector # "none" \/ Has(t, "report") PROVE Has(a.todo, "mask") \/ (Cleared(c) /\ Only(a.todo, Framing))
    BY <2>1, <1>3, <1>8 DEF Going, Clearing
  <2>2. Has(a.todo, "mask") => Has(t, "mask") \/ (Cleared(d) /\ Only(t, Framing))
    BY <1>3, <1>4, <1>8
  <2>3. Cleared(c) /\ Only(a.todo, Framing) => Cleared(d) /\ Only(t, Framing)
    BY <1>5, <1>8
  <2> QED BY <1>1, <2>1, <2>2, <2>3 DEF Clearing
<1>11. Refusable(b, d)
  BY <1>1, <1>3, <1>5, <1>6, <1>8 DEF Going, Refusable
<1>12. Unfetched(b, d)
  <2>1. a.prefixes \in Nat /\ a.bytes \in Nat /\ b.bytes \in Nat
    BY <1>7 DEF Attempts
  <2> QED BY <1>8, <2>1 DEF Going, Unfetched
<1>13. Latched(b, d)
  <2>1. ASSUME b.kind \in {"step", "resume"}
        PROVE  /\ b.was.halted = FALSE
               /\ d.halted = TRUE => t = <<>> /\ b.all = FALSE
               /\ Has(t, "halt") => b.all = FALSE
    <3>1. b.was.halted = FALSE /\ c.halted # TRUE /\ (Has(a.todo, "halt") => a.all = FALSE)
      BY <2>1, <1>8 DEF Going, Latched
    <3>2. Has(a.todo, "halt") => b.all = FALSE
      BY <3>1, <1>5, <1>6, <1>8
    <3>3. d.halted = TRUE => h = "halt"
      BY <3>1, <1>7, <1>8 DEF Cleared
    <3> QED BY <3>1, <3>2, <3>3, <1>3, <1>4
  <2>2. b.kind = "resume" => b.timed = FALSE /\ Only(t, {"test"})
    BY <1>5, <1>8 DEF Going, Latched
  <2>3. ASSUME b.kind \in {"trap", "offer"}
        PROVE  /\ Only(t, EntryOrders) /\ b.vector # "none"
               /\ d.halted = TRUE => d.recognitionDeferred = FALSE
               /\ b.kind = "offer" => b.timed = FALSE /\ d.halted = FALSE /\ d.waiting = FALSE
    <3>1. /\ Only(t, EntryOrders) /\ h \in EntryOrders /\ a.vector # "none"
          /\ c.halted = TRUE => c.recognitionDeferred = FALSE
          /\ b.kind = "offer" => a.timed = FALSE /\ c.halted = FALSE /\ c.waiting = FALSE
      BY <2>3, <1>5, <1>8 DEF Going, Latched
    <3>2. h # "report" /\ h # "halt" /\ h # "test"
      BY <3>1 DEF EntryOrders
    <3> QED BY <3>1, <3>2, <1>8 DEF Cleared
  <2> QED BY <1>1, <2>1, <2>2, <2>3 DEF Latched
<1>14. Priced(b, d)
  <2>1. a.prefixes \in Nat /\ a.clocks \in Nat /\ b.clocks \in Nat /\ Published(a) \in Nat /\ Published(a) >= 5
    BY <1>7 DEF Attempts, Published, Segmented!PrefixClocks, Segmented!Clocks
  <2>2. Published(b) = Published(a)
    BY <1>8 DEF Published
  <2>3. ASSUME b.kind = "trap" PROVE b.prefixes = 0 /\ (b.timed = TRUE => b.clocks = Segmented!PendingClocks)
    <3>1. h \in EntryOrders /\ a.prefixes = 0 /\ (a.timed = TRUE => a.clocks = Segmented!PendingClocks)
      BY <2>3, <1>5, <1>8 DEF Going, Latched, Priced
    <3>2. h # "clocks" /\ h # "more"
      BY <3>1 DEF EntryOrders
    <3> QED BY <3>1, <3>2, <1>8
  <2>4. ASSUME b.kind = "step", b.timed = TRUE
        PROVE  /\ b.clocks \in {0, Published(b), Published(b) + Segmented!Addition}
               /\ Has(t, "more") => Has(t, "clocks") \/ b.clocks = Published(b)
               /\ b.clocks = 0 => d = b.was /\ (Only(t, Quiet) \/ Has(t, "clocks"))
    <3>1. /\ a.clocks \in {0, Published(a), Published(a) + Segmented!Addition}
          /\ Has(a.todo, "more") => Has(a.todo, "clocks") \/ a.clocks = Published(a)
          /\ a.clocks = 0 => c = a.was /\ (Only(a.todo, Quiet) \/ Has(a.todo, "clocks"))
      BY <2>4, <1>8 DEF Going, Priced
    <3>2. CASE h = "clocks"
      <4>1. b.clocks = Published(a)
        BY <2>4, <3>2, <1>8
      <4> QED BY <4>1, <2>1, <2>2
    <3>3. CASE h = "more"
      <4>1. a.clocks = Published(a) /\ b.clocks = a.clocks + 1 /\ ~Has(t, "more")
        BY <2>4, <3>1, <3>3, <1>3, <1>4, <1>8 DEF Segmented!Addition
      <4> QED BY <4>1, <2>1, <2>2 DEF Segmented!Addition
    <3>4. CASE h # "clocks" /\ h # "more"
      <4>1. b.clocks = a.clocks /\ ~Has(a.todo, "clocks")
        BY <3>4, <1>4, <1>8
      <4> QED BY <4>1, <3>1, <2>2, <1>3, <1>5, <1>8
    <3> QED BY <3>2, <3>3, <3>4
  <2> QED BY <1>1, <2>3, <2>4 DEF Priced
<1> QED BY <1>1, <1>2, <1>7, <1>9, <1>10, <1>11, <1>12, <1>13, <1>14 DEF Going

LEMMA PastWraps ==
  ASSUME HasOffsets, NEW from \in Offset, NEW n \in Nat
  PROVE  Segmented!Past(from, n) \in Offset
BY DEF HasOffsets, Offset, Segmented!Past

LEMMA AttemptsGoOn ==
  ASSUME Going(attempt', chip'), ip' \in Offset, wires' \in Seq(Orders), attempt'.log = wires'
  PROVE  AttemptInv'
BY DEF AttemptInv

LEMMA UnderWay ==
  ASSUME AttemptInv
  PROVE  /\ attempt = Segmented!NoAttempt => Resting
         /\ attempt # Segmented!NoAttempt => Going(attempt, chip) /\ attempt.log = wires
<1>1. Going(attempt, chip) => attempt # Segmented!NoAttempt
  BY DEF Going, Attempts, Segmented!NoAttempt
<1> QED BY <1>1 DEF AttemptInv, Resting

LEMMA AttemptsStart == ASSUME HasOffsets, Segmented!Init PROVE AttemptInv
<1>1. 0 \in Offset /\ <<>> \in Seq(Orders)
  BY DEF HasOffsets, Offset
<1>2. Segmented!ResetState \in Processors /\ Segmented!ResetState.halted = FALSE
  BY DEF Processors, Segmented!Processor, Segmented!ResetState
<1>3. Segmented!AttemptIsSound
  BY DEF Segmented!Init, Segmented!AttemptIsSound
<1> QED BY <1>1, <1>2, <1>3 DEF Segmented!Init, AttemptInv, Resting

\* An answer is true when what it says of the CPU is.
LEMMA AnswersAreTrue ==
  ASSUME Going(attempt, chip), NEW how, Segmented!Answers(how), chip' \in Processors, ip' \in Offset,
         chip'.halted = TRUE => chip'.recognitionDeferred = FALSE,
         how \in {"unsupported", "untimed", "ignored"} => ip' = attempt.from /\ chip' = attempt.was,
         how \in {"halted", "waiting"} => chip'.trapPending = FALSE,
         how \in {"executed", "accepted"} =>
           /\ attempt.vector # "none" => Cleared(chip')
           /\ chip'.trapPending = ((attempt.was.trapPending /\ attempt.kind # "trap")
                                   \/ (attempt.was.tf /\ attempt.kind \notin {"trap", "offer"}))
           /\ attempt.timed => attempt.clocks - Segmented!PrefixClocks * attempt.prefixes
                \in {Segmented!PendingClocks, Segmented!Clocks, Segmented!Clocks + Segmented!Addition},
         how = "threw" /\ attempt.kind = "offer" => chip'.halted = FALSE /\ chip'.waiting = FALSE
  PROVE  AttemptInv'
<1>1. attempt' = Segmented!NoAttempt /\ wires' = <<>>
  BY DEF Segmented!Answers
<1>2. /\ answer'.how = how /\ answer'.kind = attempt.kind /\ answer'.from = attempt.from
      /\ answer'.was = attempt.was /\ answer'.vector = attempt.vector /\ answer'.clocks = attempt.clocks
      /\ answer'.prefixes = attempt.prefixes /\ answer'.timed = attempt.timed
  BY DEF Segmented!Answers
<1>3. Segmented!AttemptIsSound'
  <2>1. (answer'.how \in {"unsupported", "untimed", "ignored"} => ip' = answer'.from /\ chip' = answer'.was)
    BY <1>2
  <2>2. (answer'.how \in {"halted", "waiting"} => ~chip'.trapPending)
    BY <1>2
  <2>3. ASSUME answer'.how \in {"executed", "accepted"}
        PROVE  /\ answer'.vector # "none" => ~chip'.tf /\ ~chip'.if /\ ~chip'.halted /\ ~chip'.waiting
               /\ chip'.trapPending = ((answer'.was.trapPending /\ answer'.kind # "trap")
                                       \/ (answer'.was.tf /\ answer'.kind \notin {"trap", "offer"}))
               /\ answer'.timed => answer'.clocks - Segmented!PrefixClocks * answer'.prefixes
                    \in {Segmented!PendingClocks, Segmented!Clocks, Segmented!Clocks + Segmented!Addition}
    BY <1>2, <2>3 DEF Cleared
  <2>4. (answer'.how = "threw" /\ answer'.kind = "offer" => ~chip'.halted /\ ~chip'.waiting)
    BY <1>2
  <2> QED BY <1>1, <2>1, <2>2, <2>3, <2>4 DEF Segmented!AttemptIsSound
<1>4. wires' \in Seq(Orders)
  BY <1>1
<1> QED BY <1>1, <1>3, <1>4 DEF AttemptInv, Resting

\* An effect under way is that of a body, and of no entry's but for its reads, writes and jump.
LEMMA EffectsAreUnderWay ==
  ASSUME AttemptInv, Segmented!Doing
  PROVE  /\ Going(attempt, chip) /\ attempt.log = wires /\ attempt \in Attempts /\ chip \in Processors
         /\ attempt.todo # <<>> /\ Ordered(attempt.todo) /\ Segmented!Effect \in Orders
         /\ Tail(attempt.todo) \in Seq(Orders) /\ ip \in Offset /\ wires \in Seq(Orders)
         /\ Segmented!Effect \notin EntryOrders => attempt.kind \in {"step", "resume"}
         /\ attempt.kind = "resume" => Segmented!Effect = "test"
         /\ attempt.kind \in {"step", "resume"} => chip.halted = FALSE
<1>1. Going(attempt, chip) /\ attempt.log = wires /\ attempt.todo # <<>>
  BY UnderWay DEF Segmented!Doing
<1>2. attempt \in Attempts /\ chip \in Processors /\ Ordered(attempt.todo)
  BY <1>1 DEF Going
<1>3. Segmented!Effect \in Orders /\ Ordered(Tail(attempt.todo))
  BY <1>1, <1>2, RestsAreOrdered DEF Segmented!Effect
<1>4. \A orders : Only(attempt.todo, orders) => Segmented!Effect \in orders
  BY <1>1, <1>2, RestsKeepTo DEF Segmented!Effect
<1>5. /\ attempt.kind = "resume" => Only(attempt.todo, {"test"})
      /\ attempt.kind \in {"trap", "offer"} => Only(attempt.todo, EntryOrders)
      /\ attempt.kind \in {"step", "resume"} => chip.halted # TRUE
  BY <1>1 DEF Going, Latched
<1>6. attempt.kind \in {"step", "resume", "trap", "offer"} /\ chip.halted \in BOOLEAN
  BY <1>2 DEF Attempts, Processors, Segmented!Processor
<1> QED BY <1>1, <1>2, <1>3, <1>4, <1>5, <1>6 DEF AttemptInv, Ordered

LEMMA TransfersGoOn == ASSUME HasOffsets, AttemptInv, Segmented!Transfer PROVE AttemptInv'
<1>1. Segmented!Doing /\ Segmented!Effect \in Segmented!Transfers \ {"test"} /\ chip' = chip
  BY DEF Segmented!Transfer
<1> DEFINE kind == IF Segmented!Effect = "fetch" THEN "read" ELSE Segmented!Effect
           b == [attempt EXCEPT !.todo = Tail(@), !.log = Append(@, kind),
                                !.bytes = @ + (IF Segmented!Effect = "fetch" THEN 1 ELSE 0)]
<1>2. wires' = Append(wires, kind) /\ attempt' = b
      /\ ip' = IF Segmented!Effect = "fetch" THEN Segmented!Past(ip, 1) ELSE ip
  BY DEF Segmented!Transfer, Segmented!Completed, Segmented!With, Segmented!After
<1>3. /\ Going(attempt, chip) /\ attempt.log = wires /\ attempt \in Attempts /\ chip \in Processors
      /\ attempt.todo # <<>> /\ Segmented!Effect \in Orders
      /\ Tail(attempt.todo) \in Seq(Orders) /\ ip \in Offset /\ wires \in Seq(Orders)
  BY <1>1, EffectsAreUnderWay
<1>4. kind \in Orders
  BY <1>3 DEF Orders
<1>5. b \in Attempts
  <2> DEFINE recorded == Append(attempt.log, kind)
             bytes == attempt.bytes + (IF Segmented!Effect = "fetch" THEN 1 ELSE 0)
  <2>1. recorded \in Seq(Orders) /\ bytes \in Nat
    BY <1>3, <1>4 DEF Attempts
  <2>2. b = [attempt EXCEPT !.todo = Tail(attempt.todo), !.log = recorded, !.bytes = bytes]
    BY <1>3 DEF Attempts
  <2> HIDE DEF recorded, bytes, b
  <2> QED BY <1>3, <2>1, <2>2 DEF Attempts
<1>6. ip' \in Offset
  BY <1>2, <1>3, PastWraps
<1>7. Segmented!Effect \notin {"mask", "report", "delay", "test", "clocks", "more", "halt"}
  BY <1>1 DEF Segmented!Transfers
<1>8. Moves(attempt, chip, b, chip)
  <2>1. b.bytes >= attempt.bytes
    BY <1>3 DEF Attempts
  <2> QED BY <1>3, <1>5, <1>7, <2>1 DEF Moves, Segmented!Effect, Attempts
<1>9. Going(attempt', chip')
  BY <1>1, <1>2, <1>3, <1>8, EffectsGoOn
<1>10. attempt'.log = wires' /\ wires' \in Seq(Orders)
  BY <1>2, <1>3, <1>4 DEF Attempts
<1> QED BY <1>6, <1>9, <1>10, AttemptsGoOn

LEMMA PollsGoOn ==
  ASSUME HasOffsets, AttemptInv, NEW high \in BOOLEAN, Segmented!PollWait(high)
  PROVE  AttemptInv'
<1>1. Segmented!Doing /\ Segmented!Effect = "test"
  BY DEF Segmented!PollWait
<1> DEFINE b == [attempt EXCEPT !.todo = Tail(@), !.log = Append(@, "test"), !.all = ~high]
<1>2. /\ wires' = Append(wires, "test") /\ attempt' = b /\ chip' = [chip EXCEPT !.waiting = high]
      /\ ip' \in {ip, Segmented!Past(ip, 1), Segmented!Past(ip, Offsets - 1)}
  BY DEF Segmented!PollWait, Segmented!Completed, Segmented!With, Segmented!After, Segmented!Polled
<1>3. /\ Going(attempt, chip) /\ attempt.log = wires /\ attempt \in Attempts /\ chip \in Processors
      /\ attempt.todo # <<>> /\ Tail(attempt.todo) \in Seq(Orders) /\ ip \in Offset /\ wires \in Seq(Orders)
  BY <1>1, EffectsAreUnderWay
<1>4. b \in Attempts /\ chip' \in Processors
  <2> DEFINE recorded == Append(attempt.log, "test")
             low == ~high
  <2>1. recorded \in Seq(Orders)
    BY <1>3 DEF Attempts, Orders
  <2>2. b = [attempt EXCEPT !.todo = Tail(attempt.todo), !.log = recorded, !.all = low]
    BY <1>3 DEF Attempts
  <2>4. low \in BOOLEAN
    OBVIOUS
  <2>3. chip' \in Processors
    BY <1>2, <1>3 DEF Processors, Segmented!Processor
  <2> HIDE DEF recorded, low, b
  <2> QED BY <1>3, <2>1, <2>2, <2>3, <2>4 DEF Attempts
<1>5. ip' \in Offset
  <2>1. 1 \in Nat /\ Offsets - 1 \in Nat
    BY DEF HasOffsets
  <2> QED BY <1>2, <1>3, <2>1, PastWraps
<1>6. Moves(attempt, chip, b, chip')
  <2>1. Head(attempt.todo) = "test"
    BY <1>1 DEF Segmented!Effect
  <2>2. /\ b.todo = Tail(attempt.todo) /\ b.kind = attempt.kind /\ b.timed = attempt.timed /\ b.was = attempt.was
        /\ b.prefixes = attempt.prefixes /\ b.bytes = attempt.bytes /\ b.vector = attempt.vector
        /\ b.clocks = attempt.clocks /\ attempt.bytes \in Nat
    BY <1>3 DEF Attempts
  <2>3. /\ chip'.trapPending = chip.trapPending /\ chip'.halted = chip.halted
        /\ chip'.recognitionDeferred = chip.recognitionDeferred
    BY <1>2, <1>3 DEF Processors, Segmented!Processor
  <2> QED BY <1>4, <2>1, <2>2, <2>3 DEF Moves, Quiet, Framing
<1>7. Going(attempt', chip')
  BY <1>2, <1>3, <1>6, EffectsGoOn
<1>8. attempt'.log = wires' /\ wires' \in Seq(Orders)
  BY <1>2, <1>3 DEF Attempts, Orders
<1> QED BY <1>5, <1>7, <1>8, AttemptsGoOn

LEMMA ClocksGoOn == ASSUME HasOffsets, AttemptInv, Segmented!ReportClocks PROVE AttemptInv'
<1>1. Segmented!Doing /\ Segmented!Effect \in {"clocks", "more"}
  BY DEF Segmented!ReportClocks
<1>2. chip' = chip /\ ip' = ip /\ wires' = wires
  BY DEF Segmented!ReportClocks
<1>3. /\ Going(attempt, chip) /\ attempt.log = wires /\ attempt \in Attempts /\ chip \in Processors
      /\ attempt.todo # <<>> /\ Tail(attempt.todo) \in Seq(Orders) /\ ip \in Offset /\ wires \in Seq(Orders)
  BY <1>1, EffectsAreUnderWay
<1> DEFINE cost == IF attempt.timed
                   THEN IF Segmented!Effect = "more" THEN attempt.clocks + Segmented!Addition ELSE Published(attempt)
                   ELSE attempt.clocks
           b == [attempt EXCEPT !.todo = Tail(@), !.clocks = cost]
<1>4. cost \in Nat
  BY <1>3 DEF Attempts, Published, Segmented!Addition, Segmented!PrefixClocks, Segmented!Clocks
<1>5. attempt' = b
  <2>1. CASE attempt.timed
    BY <2>1, <1>3 DEF Segmented!ReportClocks, Segmented!After, Published, Attempts
  <2>2. CASE ~attempt.timed
    BY <2>2, <1>3 DEF Segmented!ReportClocks, Segmented!After, Attempts
  <2> QED BY <2>1, <2>2
<1>6. b \in Attempts
  <2> HIDE DEF cost
  <2> QED BY <1>3, <1>4 DEF Attempts
<1>7. Moves(attempt, chip, b, chip)
  <2>1. Head(attempt.todo) \in {"clocks", "more"}
    BY <1>1 DEF Segmented!Effect
  <2>2. /\ b.todo = Tail(attempt.todo) /\ b.kind = attempt.kind /\ b.timed = attempt.timed /\ b.was = attempt.was
        /\ b.prefixes = attempt.prefixes /\ b.bytes = attempt.bytes /\ b.vector = attempt.vector
        /\ b.clocks = cost /\ b.all = attempt.all /\ attempt.bytes \in Nat
    <3> HIDE DEF cost
    <3> QED BY <1>3 DEF Attempts
  <2>3. attempt.timed = TRUE /\ Head(attempt.todo) = "clocks" => cost = Published(attempt)
    BY DEF Segmented!Effect
  <2>4. attempt.timed = TRUE /\ Head(attempt.todo) = "more" => cost = attempt.clocks + Segmented!Addition
    BY DEF Segmented!Effect
  <2> HIDE DEF cost, b
  <2> QED BY <1>3, <1>6, <2>1, <2>2, <2>3, <2>4 DEF Moves, Quiet, Framing
<1>8. Going(attempt', chip')
  BY <1>2, <1>3, <1>5, <1>7, EffectsGoOn
<1>9. attempt'.log = wires'
  BY <1>2, <1>3, <1>5 DEF Attempts
<1> QED BY <1>2, <1>3, <1>8, <1>9, AttemptsGoOn

LEMMA RegistersGoOn == ASSUME HasOffsets, AttemptInv, Segmented!Register PROVE AttemptInv'
<1>1. Segmented!Doing /\ Segmented!Effect \in {"mask", "jump", "halt", "delay", "sti", "flags", "report", "again"}
  BY DEF Segmented!Register
<1>2. /\ Going(attempt, chip) /\ attempt.log = wires /\ attempt \in Attempts /\ chip \in Processors
      /\ attempt.todo # <<>> /\ Tail(attempt.todo) \in Seq(Orders) /\ ip \in Offset /\ wires \in Seq(Orders)
  BY <1>1, EffectsAreUnderWay
<1>3. PICK tf, if \in BOOLEAN :
        /\ chip' = CASE Segmented!Effect = "mask"  -> Segmented!EnterInterrupt(chip)
                     [] Segmented!Effect = "halt"  -> Segmented!Stopped(chip)
                     [] Segmented!Effect = "sti"   -> Segmented!SetInterruptEnable(chip, TRUE)
                     [] Segmented!Effect = "flags" -> Segmented!FlagsLoaded(chip, tf, if)
                     [] OTHER -> chip
        /\ attempt' = [attempt EXCEPT
                         !.todo = Tail(@),
                         !.intr = @ \/ (Segmented!Effect \in {"sti", "flags"}
                                        /\ Segmented!EnablesInterrupts(chip, chip'.if)),
                         !.all = @ \/ Segmented!Effect = "delay",
                         !.vector = IF Segmented!Effect = "report" THEN "software" ELSE @]
  BY <1>2 DEF Segmented!Register, Segmented!After
<1>4. wires' = wires /\ ip' \in Offset
  <2>1. 0..(Offsets - 1) = Offset /\ attempt.from \in Offset
    BY <1>2 DEF Offset, Attempts
  <2> QED BY <1>2, <2>1 DEF Segmented!Register
<1>5. /\ chip' \in Processors /\ chip'.trapPending = chip.trapPending
      /\ Segmented!Effect \notin {"mask", "halt", "sti", "flags"} => chip' = chip
      /\ Segmented!Effect = "mask" => Cleared(chip')
      /\ chip'.halted = chip.halted \/ Segmented!Effect \in {"mask", "halt"}
      /\ chip'.waiting = chip.waiting \/ Segmented!Effect = "mask"
      /\ chip'.recognitionDeferred = chip.recognitionDeferred \/ Segmented!Effect = "mask"
  <2>1. CASE Segmented!Effect = "mask"
    BY <1>2, <1>3, <2>1 DEF Processors, Segmented!Processor, Segmented!EnterInterrupt, Cleared
  <2>2. CASE Segmented!Effect = "halt"
    BY <1>2, <1>3, <2>2 DEF Processors, Segmented!Processor, Segmented!Stopped
  <2>3. CASE Segmented!Effect = "sti"
    BY <1>2, <1>3, <2>3 DEF Processors, Segmented!Processor, Segmented!SetInterruptEnable
  <2>4. CASE Segmented!Effect = "flags"
    BY <1>2, <1>3, <2>4 DEF Processors, Segmented!Processor, Segmented!FlagsLoaded
  <2>5. CASE Segmented!Effect \notin {"mask", "halt", "sti", "flags"}
    BY <1>2, <1>3, <2>5
  <2> QED BY <2>1, <2>2, <2>3, <2>4, <2>5
<1> DEFINE intr == attempt.intr \/ (Segmented!Effect \in {"sti", "flags"}
                                    /\ Segmented!EnablesInterrupts(chip, chip'.if))
           all == attempt.all \/ Segmented!Effect = "delay"
           vector == IF Segmented!Effect = "report" THEN "software" ELSE attempt.vector
<1>6. intr \in BOOLEAN /\ all \in BOOLEAN /\ (Segmented!Effect # "delay" => all = attempt.all)
  BY <1>2 DEF Attempts
<1>7. vector \in {"none", "trap", "intr", "nmi", "divide-error", "software"}
  BY <1>2 DEF Attempts
<1>8. attempt' = [attempt EXCEPT !.todo = Tail(@), !.intr = intr, !.all = all, !.vector = vector]
  BY <1>2, <1>3 DEF Attempts
<1>9. Segmented!Effect # "report" => vector = attempt.vector
  OBVIOUS
<1> HIDE DEF intr, all, vector
<1>10. attempt' \in Attempts
  BY <1>2, <1>6, <1>7, <1>8 DEF Attempts
<1>11. Moves(attempt, chip, attempt', chip')
  <2>1. /\ attempt'.todo = Tail(attempt.todo) /\ attempt'.kind = attempt.kind /\ attempt'.timed = attempt.timed
        /\ attempt'.was = attempt.was /\ attempt'.prefixes = attempt.prefixes /\ attempt'.bytes = attempt.bytes
        /\ attempt'.clocks = attempt.clocks /\ attempt'.all = all /\ attempt'.vector = vector
        /\ attempt.bytes \in Nat
    BY <1>2, <1>8 DEF Attempts
  <2>2. /\ Head(attempt.todo) = Segmented!Effect
        /\ Segmented!Effect \notin {"test", "clocks", "more"} /\ Segmented!Effect \notin Quiet
        /\ Segmented!Effect \in Framing => Segmented!Effect \notin {"mask", "halt", "sti", "flags"}
    BY <1>1 DEF Segmented!Effect, Quiet, Framing
  <2> QED BY <1>5, <1>6, <1>9, <1>10, <2>1, <2>2 DEF Moves
<1>12. Going(attempt', chip')
  BY <1>2, <1>11, EffectsGoOn
<1>13. attempt'.log = wires'
  BY <1>2, <1>4, <1>8 DEF Attempts
<1> QED BY <1>2, <1>4, <1>12, <1>13, AttemptsGoOn

\* A refusal: nothing has been changed, and the IP goes back.
LEMMA RefusalsRest ==
  ASSUME HasOffsets, AttemptInv, attempt # Segmented!NoAttempt, NEW how \in {"untimed", "unsupported"},
         Segmented!Answers(how), ip' = attempt.from, chip' = chip, chip = attempt.was, chip.halted = FALSE
  PROVE  AttemptInv'
<1>1. Going(attempt, chip)
  BY UnderWay
<1>2. chip \in Processors /\ attempt.from \in Offset
  BY <1>1 DEF Going, Attempts
<1> QED BY <1>1, <1>2, AnswersAreTrue

LEMMA UnpublishedRest == ASSUME HasOffsets, AttemptInv, Segmented!Unpublished PROVE AttemptInv'
<1>1. Segmented!Doing /\ Segmented!Effect = "unpublished" /\ chip' = chip
  BY DEF Segmented!Unpublished
<1>2. /\ Going(attempt, chip) /\ attempt.log = wires /\ attempt \in Attempts /\ chip \in Processors
      /\ attempt.todo # <<>> /\ Ordered(attempt.todo)
      /\ Tail(attempt.todo) \in Seq(Orders) /\ ip \in Offset /\ wires \in Seq(Orders)
      /\ attempt.kind \in {"step", "resume"} /\ chip.halted = FALSE
  BY <1>1, EffectsAreUnderWay DEF EntryOrders
<1>3. CASE attempt.timed
  <2>1. Has(attempt.todo, "unpublished")
    BY <1>1, <1>2, RestsHave DEF Segmented!Effect
  <2>2. chip = attempt.was
    BY <1>2, <2>1 DEF Going, Refusable
  <2>3. Segmented!Answers("untimed") /\ ip' = attempt.from /\ attempt # Segmented!NoAttempt
    BY <1>3 DEF Segmented!Unpublished, Segmented!Doing
  <2> QED BY <1>1, <1>2, <2>2, <2>3, RefusalsRest
<1>4. CASE ~attempt.timed
  <2> DEFINE b == [attempt EXCEPT !.todo = Tail(@)]
  <2>1. attempt' = b /\ ip' = ip /\ wires' = wires
    BY <1>4 DEF Segmented!Unpublished, Segmented!After
  <2>2. b \in Attempts /\ b.log = wires
    BY <1>2 DEF Attempts
  <2>3. Moves(attempt, chip, b, chip)
    <3>1. Head(attempt.todo) = "unpublished"
      BY <1>1 DEF Segmented!Effect
    <3> QED BY <1>2, <2>2, <3>1 DEF Moves, Attempts, Quiet, Framing
  <2>4. Going(attempt', chip')
    BY <1>1, <1>2, <2>1, <2>3, EffectsGoOn
  <2> QED BY <1>2, <2>1, <2>2, <2>4, AttemptsGoOn
<1> QED BY <1>3, <1>4

LEMMA RefusesRest == ASSUME HasOffsets, AttemptInv, Segmented!Refuse PROVE AttemptInv'
<1>1. Segmented!Doing /\ Segmented!Effect = "refuse" /\ chip' = chip /\ ip' = attempt.from
  BY DEF Segmented!Refuse
<1>2. /\ Going(attempt, chip) /\ attempt.todo # <<>> /\ Ordered(attempt.todo)
      /\ attempt.kind \in {"step", "resume"} /\ chip.halted = FALSE
  BY <1>1, EffectsAreUnderWay DEF EntryOrders
<1>3. chip = attempt.was
  <2>1. Has(attempt.todo, "refuse")
    BY <1>1, <1>2, RestsHave DEF Segmented!Effect
  <2> QED BY <1>2, <2>1 DEF Going, Refusable
<1>4. PICK how \in {"untimed", "unsupported"} : Segmented!Answers(how)
  BY DEF Segmented!Refuse
<1> QED BY <1>1, <1>2, <1>3, <1>4, RefusalsRest DEF Segmented!Doing

\* A division by zero goes on with an entry; it has been charged for by then.
LEMMA DividesGoOn == ASSUME HasOffsets, AttemptInv, Segmented!Divide PROVE AttemptInv'
<1>1. /\ Segmented!Doing /\ Segmented!Effect = "divide" /\ chip' = chip /\ ip' = ip /\ wires' = wires
  BY DEF Segmented!Divide
<1>2. /\ Going(attempt, chip) /\ attempt.log = wires /\ attempt \in Attempts /\ chip \in Processors
      /\ attempt.todo # <<>> /\ Ordered(attempt.todo)
      /\ Tail(attempt.todo) \in Seq(Orders) /\ ip \in Offset /\ wires \in Seq(Orders)
      /\ attempt.kind = "step" /\ chip.halted = FALSE
  BY <1>1, EffectsAreUnderWay DEF EntryOrders
<1>3. CASE attempt' = [attempt EXCEPT !.todo = Tail(@)]
  <2>1. attempt' \in Attempts /\ attempt'.log = wires
    BY <1>2, <1>3 DEF Attempts
  <2>2. Moves(attempt, chip, attempt', chip)
    <3>1. Head(attempt.todo) = "divide"
      BY <1>1 DEF Segmented!Effect
    <3> QED BY <1>2, <1>3, <2>1, <3>1 DEF Moves, Attempts, Quiet, Framing
  <2>3. Going(attempt', chip')
    BY <1>1, <1>2, <2>2, EffectsGoOn
  <2> QED BY <1>1, <1>2, <2>1, <2>3, AttemptsGoOn
<1>4. CASE attempt' = [attempt EXCEPT !.todo = Segmented!EntryScript, !.vector = "divide-error"]
  <2> DEFINE b == attempt'
             script == Segmented!EntryScript
  <2> HIDE DEF script
  <2>1. /\ Startable(script) /\ Has(script, "mask") /\ script # <<>> /\ ~Has(script, "halt")
        /\ ~Has(script, "unpublished") /\ ~Has(script, "refuse") /\ Ordered(script) /\ script \in Seq(Orders)
    BY EntriesAreOrdered DEF Startable, Ordered, script
  <2>2. /\ b \in Attempts /\ b.log = wires /\ b.todo = script /\ b.kind = "step" /\ b.timed = attempt.timed
        /\ b.was = attempt.was /\ b.prefixes = attempt.prefixes /\ b.bytes = attempt.bytes
        /\ b.vector = "divide-error" /\ b.clocks = attempt.clocks
    BY <1>2, <1>4, <2>1 DEF Attempts, script
  <2> HIDE DEF b
  <2>3. ~Only(attempt.todo, Quiet) /\ ~Has(attempt.todo, "clocks")
    BY <1>1, <1>2, RestsKeepTo, HeadsRule DEF Segmented!Effect, Quiet
  <2>4. Trapping(b, chip) /\ Clearing(b, chip) /\ Refusable(b, chip)
    BY <1>2, <2>1, <2>2 DEF Going, Trapping, Clearing, Refusable
  <2>5. Unfetched(b, chip) /\ Latched(b, chip)
    BY <1>2, <2>1, <2>2 DEF Going, Unfetched, Latched
  <2>6. Published(b) = Published(attempt)
    BY <2>2 DEF Published
  <2>7. Priced(b, chip)
    BY <1>2, <2>1, <2>2, <2>3, <2>6 DEF Going, Priced, Startable
  <2>8. Going(attempt', chip')
    BY <1>1, <1>2, <2>1, <2>2, <2>4, <2>5, <2>7 DEF Going, b
  <2> QED BY <1>1, <1>2, <2>2, <2>8, AttemptsGoOn DEF b
<1> QED BY <1>3, <1>4 DEF Segmented!Divide, Segmented!After

\* While prefixes are fetched nothing has been changed, charged for or entered.
LEMMA FetchesAreFresh ==
  ASSUME AttemptInv, Segmented!Fetching
  PROVE  /\ Going(attempt, chip) /\ attempt.log = wires /\ attempt \in Attempts /\ chip \in Processors
         /\ attempt # Segmented!NoAttempt /\ ip \in Offset /\ wires \in Seq(Orders)
         /\ attempt.kind = "step" /\ attempt.todo = <<>> /\ attempt.bytes = attempt.prefixes
         /\ chip = attempt.was /\ attempt.clocks = 0 /\ attempt.vector = "none" /\ attempt.all = FALSE
         /\ attempt.was.halted = FALSE
<1>1. attempt # Segmented!NoAttempt
  BY DEF Segmented!Fetching, Segmented!NoAttempt
<1>2. Going(attempt, chip) /\ attempt.log = wires
  BY <1>1, UnderWay
<1>3. attempt.kind = "step" /\ attempt.todo = <<>> /\ attempt.bytes = attempt.prefixes
  BY DEF Segmented!Fetching
<1> QED BY <1>1, <1>2, <1>3 DEF Going, Unfetched, Latched, AttemptInv

LEMMA PrefixesGoOn == ASSUME HasOffsets, AttemptInv, Segmented!Prefix PROVE AttemptInv'
<1>1. Segmented!Fetching /\ chip' = chip /\ ip' = Segmented!Past(ip, 1) /\ wires' = Append(wires, "read")
  BY DEF Segmented!Prefix, Segmented!Completed
<1>2. /\ Going(attempt, chip) /\ attempt.log = wires /\ attempt \in Attempts /\ chip \in Processors
      /\ ip \in Offset /\ wires \in Seq(Orders)
      /\ attempt.kind = "step" /\ attempt.todo = <<>> /\ attempt.bytes = attempt.prefixes
      /\ chip = attempt.was /\ attempt.clocks = 0 /\ attempt.vector = "none" /\ attempt.all = FALSE
      /\ attempt.was.halted = FALSE
  BY <1>1, FetchesAreFresh
<1>3. PICK repeat \in {attempt.repeat, TRUE} :
        attempt' = [attempt EXCEPT !.log = Append(@, "read"), !.bytes = @ + 1, !.prefixes = @ + 1, !.repeat = repeat]
  BY DEF Segmented!Prefix, Segmented!With
<1> DEFINE b == attempt'
<1>4. /\ b \in Attempts /\ b.kind = "step" /\ b.todo = <<>> /\ b.bytes = b.prefixes /\ b.was = chip
      /\ b.clocks = 0 /\ b.vector = "none" /\ b.all = FALSE /\ b.prefixes \in Nat
  <2> DEFINE recorded == Append(attempt.log, "read")
             fetched == attempt.bytes + 1
  <2>1. recorded \in Seq(Orders)
    BY <1>2 DEF Attempts, Orders
  <2>3. fetched \in Nat /\ fetched = attempt.prefixes + 1
    BY <1>2 DEF Attempts
  <2>4. repeat \in BOOLEAN
    BY <1>2 DEF Attempts
  <2>2. b = [attempt EXCEPT !.log = recorded, !.bytes = fetched, !.prefixes = fetched, !.repeat = repeat]
    BY <1>2, <1>3, <2>3 DEF Attempts
  <2> HIDE DEF recorded, fetched, b
  <2> QED BY <1>2, <2>1, <2>2, <2>3, <2>4 DEF Attempts
<1>5. b.log = wires' /\ wires' \in Seq(Orders)
  BY <1>1, <1>2, <1>3 DEF Attempts, Orders
<1>6. b.was.halted = FALSE /\ b.was = chip
  BY <1>2, <1>4
<1> HIDE DEF b
<1>7. Ordered(<<>>) /\ (\A order : ~Has(<<>>, order)) /\ Only(<<>>, Quiet)
  BY DEF Ordered, Has, Only
<1>8. Going(b, chip)
  <2>1. Trapping(b, chip) /\ Clearing(b, chip) /\ Refusable(b, chip)
    BY <1>4, <1>6, <1>7 DEF Trapping, Clearing, Refusable
  <2>2. Unfetched(b, chip) /\ Latched(b, chip)
    BY <1>4, <1>6, <1>7 DEF Unfetched, Latched
  <2>3. Priced(b, chip)
    BY <1>4, <1>6, <1>7 DEF Priced
  <2> QED BY <1>2, <1>4, <1>7, <2>1, <2>2, <2>3 DEF Going
<1>9. ip' \in Offset
  BY <1>1, <1>2, PastWraps
<1> QED BY <1>1, <1>5, <1>8, <1>9, AttemptsGoOn DEF b

LEMMA OpcodesGoOn ==
  ASSUME HasOffsets, AttemptInv, NEW opcode, Segmented!Opcode(opcode)
  PROVE  AttemptInv'
<1>1. Segmented!Fetching /\ chip' = chip
  BY DEF Segmented!Opcode
<1>2. /\ Going(attempt, chip) /\ attempt.log = wires /\ attempt \in Attempts /\ chip \in Processors
      /\ ip \in Offset /\ wires \in Seq(Orders) /\ attempt # Segmented!NoAttempt
      /\ attempt.kind = "step" /\ attempt.todo = <<>> /\ attempt.bytes = attempt.prefixes
      /\ chip = attempt.was /\ attempt.clocks = 0 /\ attempt.vector = "none" /\ attempt.all = FALSE
      /\ attempt.was.halted = FALSE
  BY <1>1, FetchesAreFresh
<1>3. CASE ~((attempt.timed => Segmented!Published(opcode)) /\ Segmented!Handled(opcode))
  <2>1. \E how \in {"untimed", "unsupported"} : Segmented!Answers(how) /\ ip' = attempt.from
    BY <1>3 DEF Segmented!Opcode
  <2> QED BY <1>1, <1>2, <2>1, RefusalsRest
<1>4. CASE (attempt.timed => Segmented!Published(opcode)) /\ Segmented!Handled(opcode)
  <2> DEFINE todo == Segmented!Instruction(opcode)
             b == attempt'
  <2>1. /\ wires' = Append(wires, "read") /\ ip' = Segmented!Past(ip, 1)
        /\ b = [attempt EXCEPT !.log = Append(@, "read"), !.bytes = @ + 1, !.todo = todo]
    BY <1>4 DEF Segmented!Opcode, Segmented!Completed, Segmented!With
  <2>2. /\ Startable(todo) /\ Ordered(todo) /\ todo \in Seq(Orders)
        /\ attempt.timed = TRUE => Only(todo, Quiet) \/ Has(todo, "clocks")
    <3>1. opcode \in Segmented!Opcodes /\ Script(todo, opcode # "wait")
      BY <1>4, InstructionsAreOrdered DEF Segmented!Handled
    <3>2. attempt.timed = TRUE => opcode # "wait"
      BY <1>4 DEF Segmented!Published, Segmented!Timed
    <3> HIDE DEF todo
    <3> QED BY <3>1, <3>2 DEF Script, Startable, Ordered
  <2> HIDE DEF todo
  <2>3. /\ b \in Attempts /\ b.kind = "step" /\ b.todo = todo /\ b.prefixes = attempt.prefixes
        /\ b.bytes = attempt.bytes + 1 /\ b.was = attempt.was /\ b.timed = attempt.timed
        /\ b.clocks = 0 /\ b.vector = "none" /\ b.all = FALSE /\ b.prefixes \in Nat
    <3> DEFINE recorded == Append(attempt.log, "read")
               fetched == attempt.bytes + 1
    <3>1. recorded \in Seq(Orders) /\ fetched \in Nat
      BY <1>2 DEF Attempts, Orders
    <3>2. b = [attempt EXCEPT !.log = recorded, !.bytes = fetched, !.todo = todo]
      BY <1>2, <2>1 DEF Attempts
    <3> HIDE DEF recorded, b
    <3> QED BY <1>2, <2>2, <3>1, <3>2 DEF Attempts
  <2>4. b.log = wires' /\ wires' \in Seq(Orders)
    BY <1>2, <2>1 DEF Attempts, Orders
  <2>5. ip' \in Offset
    BY <1>2, <2>1, PastWraps
  <2> HIDE DEF b
  <2>6. Going(b, chip)
    <3>1. Trapping(b, chip) /\ Clearing(b, chip) /\ Refusable(b, chip)
      BY <1>2, <2>2, <2>3 DEF Trapping, Clearing, Refusable, Startable
    <3>2. Unfetched(b, chip) /\ Latched(b, chip)
      BY <1>2, <2>3 DEF Unfetched, Latched
    <3>3. Priced(b, chip)
      BY <1>2, <2>2, <2>3 DEF Priced, Startable
    <3> QED BY <1>2, <2>2, <2>3, <3>1, <3>2, <3>3 DEF Going
  <2> QED BY <1>1, <2>4, <2>5, <2>6, AttemptsGoOn DEF b
<1> QED BY <1>3, <1>4

LEMMA PrefixesRest == ASSUME HasOffsets, AttemptInv, Segmented!OnlyPrefixes PROVE AttemptInv'
<1>1. Segmented!Fetching /\ chip' = chip /\ ip' = attempt.from
  BY DEF Segmented!OnlyPrefixes
<1>2. \E how \in {"untimed", "unsupported"} : Segmented!Answers(how)
  BY DEF Segmented!OnlyPrefixes
<1> QED BY <1>1, <1>2, FetchesAreFresh, RefusalsRest

LEMMA ThrowsRest == ASSUME HasOffsets, AttemptInv, Segmented!Throws PROVE AttemptInv'
<1>1. Segmented!Answers("threw") /\ chip' = chip /\ ip' = ip
  BY DEF Segmented!Throws
<1>2. CASE Segmented!Fetching
  <2>1. Going(attempt, chip) /\ attempt.kind = "step" /\ chip.halted = FALSE /\ chip \in Processors /\ ip \in Offset
    BY <1>2, FetchesAreFresh
  <2> QED BY <1>1, <2>1, AnswersAreTrue
<1>3. CASE Segmented!Doing
  <2>1. /\ Going(attempt, chip) /\ chip \in Processors /\ ip \in Offset /\ attempt \in Attempts
        /\ attempt.kind \in {"step", "resume"} => chip.halted = FALSE
    BY <1>3, EffectsAreUnderWay
  <2>2. attempt.kind \in {"step", "resume", "trap", "offer"}
    BY <2>1 DEF Attempts
  <2>3. /\ attempt.kind \in {"trap", "offer"} => (chip.halted = TRUE => chip.recognitionDeferred = FALSE)
        /\ attempt.kind = "offer" => chip.halted = FALSE /\ chip.waiting = FALSE
    BY <2>1 DEF Going, Latched
  <2> QED BY <1>1, <2>1, <2>2, <2>3, AnswersAreTrue
<1> QED BY <1>2, <1>3 DEF Segmented!Throws

LEMMA RetirementsRest == ASSUME HasOffsets, AttemptInv, Segmented!Retire PROVE AttemptInv'
<1>1. Segmented!Done /\ attempt.kind \in {"step", "resume"}
  BY DEF Segmented!Retire
<1>2. /\ attempt # Segmented!NoAttempt /\ attempt.todo = <<>>
      /\ attempt.kind = "step" => attempt.bytes # attempt.prefixes
  BY <1>1 DEF Segmented!Done, Segmented!Fetching
<1>3. Going(attempt, chip) /\ attempt \in Attempts /\ chip \in Processors /\ ip \in Offset
  BY <1>2, UnderWay DEF Going, AttemptInv
<1>4. /\ attempt.was \in Processors /\ attempt.was.halted = FALSE /\ attempt.prefixes \in Nat /\ attempt.clocks \in Nat
      /\ attempt.intr \in BOOLEAN /\ attempt.all \in BOOLEAN /\ attempt.timed \in BOOLEAN
      /\ chip.halted = TRUE => attempt.all = FALSE
      /\ attempt.kind = "resume" => attempt.timed = FALSE
  BY <1>1, <1>3 DEF Going, Latched, Attempts
<1>5. ~Has(attempt.todo, "mask")
  BY <1>2 DEF Has
<1>6. CASE attempt.timed /\ attempt.clocks = 0
  <2>1. chip = attempt.was
    BY <1>1, <1>3, <1>4, <1>6 DEF Going, Priced
  <2>2. Segmented!Answers("untimed") /\ ip' = attempt.from /\ chip' = chip
    BY <1>6 DEF Segmented!Retire
  <2> QED BY <1>2, <1>4, <2>1, <2>2, RefusalsRest
<1>7. CASE ~(attempt.timed /\ attempt.clocks = 0)
  <2>1. /\ chip' = [chip EXCEPT !.interruptDeferred = attempt.intr, !.recognitionDeferred = attempt.all,
                                !.trapPending = attempt.was.trapPending \/ attempt.was.tf]
        /\ Segmented!Answers(IF attempt.vector # "none" THEN "executed" ELSE Segmented!Outcome(chip'))
        /\ ip' = ip
    BY <1>7 DEF Segmented!Retire, Segmented!Retired
  <2>2. /\ attempt.was.trapPending \in BOOLEAN /\ attempt.was.tf \in BOOLEAN
        /\ (attempt.was.trapPending \/ attempt.was.tf) \in BOOLEAN
    BY <1>4 DEF Processors, Segmented!Processor
  <2>3. /\ chip' \in Processors /\ chip'.halted = chip.halted /\ chip'.waiting = chip.waiting
        /\ chip'.tf = chip.tf /\ chip'.if = chip.if /\ chip'.recognitionDeferred = attempt.all
        /\ chip'.trapPending = (attempt.was.trapPending \/ attempt.was.tf)
    BY <1>3, <1>4, <2>1, <2>2 DEF Processors, Segmented!Processor
  <2>4. attempt.vector # "none" => Cleared(chip')
    BY <1>3, <1>5, <2>3 DEF Going, Clearing, Cleared
  <2>5. attempt.timed => attempt.clocks - Segmented!PrefixClocks * attempt.prefixes
          \in {Segmented!PendingClocks, Segmented!Clocks, Segmented!Clocks + Segmented!Addition}
    <3>1. attempt.timed => attempt.clocks \in {Published(attempt), Published(attempt) + Segmented!Addition}
      BY <1>1, <1>3, <1>4, <1>7 DEF Going, Priced
    <3> QED BY <1>4, <3>1 DEF Published, Segmented!PrefixClocks, Segmented!Clocks, Segmented!Addition
  <2>6. chip'.trapPending = ((attempt.was.trapPending /\ attempt.kind # "trap")
                             \/ (attempt.was.tf /\ attempt.kind \notin {"trap", "offer"}))
    BY <1>1, <2>2, <2>3
  <2> DEFINE how == IF attempt.vector # "none" THEN "executed" ELSE Segmented!Outcome(chip')
  <2>7. how \in {"executed", "halted", "waiting"} /\ (how \in {"halted", "waiting"} => chip'.trapPending = FALSE)
    <3>1. chip'.trapPending \in BOOLEAN
      BY <2>3 DEF Processors, Segmented!Processor
    <3> QED BY <3>1 DEF Segmented!Outcome
  <2>8. Segmented!Answers(how)
    BY <2>1
  <2> HIDE DEF how
  <2>9. chip'.halted = TRUE => chip'.recognitionDeferred = FALSE
    BY <1>4, <2>3
  <2> QED BY <1>3, <2>1, <2>3, <2>4, <2>5, <2>6, <2>7, <2>8, <2>9, AnswersAreTrue
<1> QED BY <1>6, <1>7

LEMMA EntriesRest == ASSUME HasOffsets, AttemptInv, Segmented!Entered PROVE AttemptInv'
<1>1. Segmented!Done /\ attempt.kind \in {"trap", "offer"} /\ chip' = chip /\ ip' = ip
  BY DEF Segmented!Entered
<1>2. attempt # Segmented!NoAttempt /\ attempt.todo = <<>>
  BY <1>1 DEF Segmented!Done
<1>3. Going(attempt, chip) /\ attempt \in Attempts /\ chip \in Processors /\ ip \in Offset
  BY <1>2, UnderWay DEF Going, AttemptInv
<1>4. Cleared(chip)
  <2>1. ~Has(attempt.todo, "mask")
    BY <1>2 DEF Has
  <2>2. attempt.vector # "none"
    BY <1>1, <1>3 DEF Going, Latched
  <2> QED BY <1>3, <2>1, <2>2 DEF Going, Clearing
<1>5. chip.trapPending = ((attempt.was.trapPending /\ attempt.kind # "trap")
                          \/ (attempt.was.tf /\ attempt.kind \notin {"trap", "offer"}))
  <2>1. chip.trapPending \in BOOLEAN /\ attempt.was.trapPending \in BOOLEAN
    BY <1>3 DEF Attempts, Processors, Segmented!Processor
  <2>2. chip.trapPending = TRUE <=> attempt.was.trapPending = TRUE /\ attempt.kind # "trap"
    BY <1>3 DEF Going, Trapping
  <2> QED BY <1>1, <2>1, <2>2
<1>6. attempt.timed => attempt.clocks - Segmented!PrefixClocks * attempt.prefixes
        \in {Segmented!PendingClocks, Segmented!Clocks, Segmented!Clocks + Segmented!Addition}
  <2>1. attempt.timed => attempt.prefixes = 0 /\ attempt.clocks = Segmented!PendingClocks
    <3>1. attempt.timed \in BOOLEAN
      BY <1>3 DEF Attempts
    <3> QED BY <1>1, <1>3, <3>1 DEF Going, Priced, Latched
  <2> QED BY <2>1 DEF Segmented!PrefixClocks, Segmented!PendingClocks
<1>7. PICK how \in {"executed", "accepted"} : Segmented!Answers(how)
  BY DEF Segmented!Entered
<1> QED BY <1>1, <1>3, <1>4, <1>5, <1>6, <1>7, AnswersAreTrue DEF Cleared

LEMMA StepsStart ==
  ASSUME HasOffsets, AttemptInv, NEW timed \in BOOLEAN, Segmented!Step(timed)
  PROVE  AttemptInv'
<1>1. Resting /\ attempt = Segmented!NoAttempt /\ ip \in Offset /\ chip \in Processors /\ wires = <<>>
  <2>1. attempt = Segmented!NoAttempt
    BY DEF Segmented!Step
  <2> QED BY <2>1, UnderWay DEF AttemptInv, Resting
<1>2. ip' = ip /\ wires' = wires /\ wires' \in Seq(Orders)
  <2>1. ip' = ip /\ wires' = wires
    BY DEF Segmented!Step
  <2> QED BY <1>1, <2>1
<1> DEFINE a == attempt'
<1>3. ASSUME Segmented!TrapDue(chip), chip' = Segmented!BeginTrap(chip), NEW script, script = Segmented!EntryScript,
             a = [Segmented!NewAttempt("trap", timed, script) EXCEPT
                    !.vector = "trap", !.clocks = IF timed THEN Segmented!PendingClocks ELSE 0]
      PROVE  AttemptInv'
  <2>1. /\ Startable(script) /\ Only(script, EntryOrders) /\ Has(script, "mask") /\ ~Has(script, "halt")
        /\ ~Has(script, "unpublished") /\ ~Has(script, "refuse") /\ Ordered(script) /\ script \in Seq(Orders)
    BY <1>3, EntriesAreOrdered DEF Startable, Ordered
  <2> DEFINE new == Segmented!NewAttempt("trap", timed, script)
             cost == IF timed THEN Segmented!PendingClocks ELSE 0
  <2>2. /\ new \in Attempts /\ new.kind = "trap" /\ new.timed = timed /\ new.was = chip /\ new.todo = script
        /\ new.log = <<>> /\ new.bytes = 0 /\ new.prefixes = 0 /\ new.all = FALSE
    BY <1>1, <2>1 DEF Segmented!NewAttempt, Attempts
  <2>3. cost \in Nat /\ (timed = TRUE => cost = Segmented!PendingClocks)
    BY DEF Segmented!PendingClocks
  <2>4. a = [new EXCEPT !.vector = "trap", !.clocks = cost]
    BY <1>3
  <2> HIDE DEF new, cost
  <2>5. /\ a \in Attempts /\ a.kind = "trap" /\ a.timed = timed /\ a.was = chip /\ a.todo = script
        /\ a.log = <<>> /\ a.bytes = 0 /\ a.prefixes = 0 /\ a.vector = "trap" /\ a.clocks = cost
    BY <2>2, <2>3, <2>4 DEF Attempts
  <2>6. /\ chip' \in Processors /\ chip'.trapPending = FALSE /\ chip'.recognitionDeferred = FALSE
    BY <1>1, <1>3 DEF Processors, Segmented!Processor, Segmented!BeginTrap, Segmented!TrapDue
  <2> HIDE DEF a
  <2>7. Trapping(a, chip') /\ Clearing(a, chip') /\ Refusable(a, chip')
    BY <2>1, <2>5, <2>6 DEF Trapping, Clearing, Refusable
  <2>8. Unfetched(a, chip') /\ Latched(a, chip')
    BY <2>1, <2>5, <2>6 DEF Unfetched, Latched
  <2>9. Priced(a, chip')
    BY <2>3, <2>5 DEF Priced
  <2>10. Going(attempt', chip')
    BY <2>1, <2>5, <2>6, <2>7, <2>8, <2>9 DEF Going, a
  <2> QED BY <1>1, <1>2, <2>5, <2>10, AttemptsGoOn DEF a
<1>4. ASSUME NEW how \in {"halted", "untimed"}, ~Segmented!TrapDue(chip), how = "halted" => chip.halted,
             answer' = [how |-> how, kind |-> "step", from |-> ip, was |-> chip, vector |-> "none", clocks |-> 0,
                        prefixes |-> 0, timed |-> timed],
             chip' = chip, attempt' = attempt
      PROVE  AttemptInv'
  <2>1. chip.halted = TRUE => chip.recognitionDeferred = FALSE
    BY <1>1 DEF Resting
  <2>2. how = "halted" => ~chip.trapPending
    BY <1>1, <1>4, <2>1 DEF Segmented!TrapDue, Processors, Segmented!Processor
  <2>3. Segmented!AttemptIsSound'
    BY <1>1, <1>2, <1>4, <2>2 DEF Segmented!AttemptIsSound
  <2> QED BY <1>1, <1>2, <1>4, <2>1, <2>3 DEF AttemptInv, Resting
<1>5. ASSUME ~Segmented!TrapDue(chip), ~chip.halted, ~(chip.waiting /\ timed), chip' = chip,
             a = IF chip.waiting THEN Segmented!NewAttempt("resume", timed, <<"test">>)
                 ELSE Segmented!NewAttempt("step", timed, <<>>)
      PROVE  AttemptInv'
  <2>1. chip.halted = FALSE
    BY <1>1, <1>5 DEF Processors, Segmented!Processor
  <2>2. ASSUME NEW kind \in {"step", "resume"}, NEW todo \in {<<>>, <<"test">>},
               a = Segmented!NewAttempt(kind, timed, todo),
               kind = "resume" => timed = FALSE, kind = "step" => todo = <<>>
        PROVE  AttemptInv'
    <3>1. Ordered(todo) /\ todo \in Seq(Orders)
      <4>1. CASE todo = <<>>
        BY <4>1 DEF Ordered, Orders, Has, Only
      <4>2. CASE todo = <<"test">>
        BY <4>2 DEF Ordered, Orders, Has, Only
      <4> QED BY <4>1, <4>2
    <3>2. /\ Only(todo, {"test"}) /\ (\A order : Has(todo, order) => order = "test")
          /\ todo = <<>> => Only(todo, Quiet)
      BY DEF Has, Only
    <3>3. /\ a \in Attempts /\ a.kind = kind /\ a.timed = timed /\ a.was = chip /\ a.todo = todo /\ a.log = <<>>
          /\ a.bytes = 0 /\ a.prefixes = 0 /\ a.clocks = 0 /\ a.vector = "none" /\ a.all = FALSE
      BY <1>1, <2>2, <3>1 DEF Segmented!NewAttempt, Attempts
    <3> HIDE DEF a
    <3>4. Trapping(a, chip) /\ Clearing(a, chip) /\ Refusable(a, chip)
      BY <2>2, <3>2, <3>3 DEF Trapping, Clearing, Refusable
    <3>5. Unfetched(a, chip) /\ Latched(a, chip)
      BY <2>1, <2>2, <3>2, <3>3 DEF Unfetched, Latched
    <3>6. Priced(a, chip)
      BY <2>2, <3>2, <3>3 DEF Priced
    <3>7. Going(attempt', chip')
      BY <1>1, <1>5, <3>1, <3>3, <3>4, <3>5, <3>6 DEF Going, a
    <3> QED BY <1>1, <1>2, <3>3, <3>7, AttemptsGoOn DEF a
  <2>3. CASE chip.waiting
    <3>1. timed = FALSE
      BY <1>5, <2>3
    <3> QED BY <1>5, <2>2, <2>3, <3>1
  <2>4. CASE ~chip.waiting
    BY <1>5, <2>2, <2>4
  <2> QED BY <2>3, <2>4
<1>6. CASE /\ Segmented!TrapDue(chip) /\ chip' = Segmented!BeginTrap(chip)
           /\ a = [Segmented!NewAttempt("trap", timed, Segmented!EntryScript) EXCEPT
                     !.vector = "trap", !.clocks = IF timed THEN Segmented!PendingClocks ELSE 0]
  BY <1>3, <1>6
<1>7. CASE /\ ~Segmented!TrapDue(chip) /\ chip' = chip /\ attempt' = attempt
           /\ answer' = [how |-> IF chip.halted THEN "halted" ELSE "untimed", kind |-> "step",
                         from |-> ip, was |-> chip, vector |-> "none", clocks |-> 0, prefixes |-> 0,
                         timed |-> timed]
  <2>1. CASE chip.halted
    BY <1>4, <1>7, <2>1
  <2>2. CASE ~chip.halted
    BY <1>4, <1>7, <2>2
  <2> QED BY <2>1, <2>2
<1> QED BY <1>5, <1>6, <1>7 DEF Segmented!Step

LEMMA OffersStart ==
  ASSUME HasOffsets, AttemptInv, NEW source \in {"intr", "nmi"}, NEW connected \in BOOLEAN,
         Segmented!Offer(source, connected)
  PROVE  AttemptInv'
<1>1. Resting /\ attempt = Segmented!NoAttempt /\ ip \in Offset /\ chip \in Processors /\ wires = <<>>
  <2>1. attempt = Segmented!NoAttempt
    BY DEF Segmented!Offer
  <2> QED BY <2>1, UnderWay DEF AttemptInv, Resting
<1>2. ip' = ip /\ wires' = wires /\ wires' \in Seq(Orders)
  <2>1. ip' = ip /\ wires' = wires
    BY DEF Segmented!Offer
  <2> QED BY <1>1, <2>1
<1>3. CASE Segmented!Eligible(source) /\ (source = "nmi" \/ connected)
  <2> DEFINE script == (IF source = "nmi" THEN <<>> ELSE <<"acknowledge">>) \o Segmented!EntryScript
             new == Segmented!NewAttempt("offer", FALSE, script)
             a == attempt'
  <2>1. chip' = [chip EXCEPT !.waiting = FALSE, !.halted = FALSE] /\ a = [new EXCEPT !.vector = source]
    BY <1>3 DEF Segmented!Offer, Segmented!AcceptInterrupt
  <2>2. script \in {Segmented!EntryScript, <<"acknowledge">> \o Segmented!EntryScript}
    <3>1. Segmented!EntryScript \in Seq(Orders)
      BY EntriesAreOrdered DEF Startable, Ordered
    <3>2. <<>> \o Segmented!EntryScript = Segmented!EntryScript
      BY <3>1, ConcatEmptySeq
    <3> QED BY <3>2
  <2> HIDE DEF script
  <2>3. /\ Startable(script) /\ Only(script, EntryOrders) /\ Has(script, "mask") /\ ~Has(script, "halt")
        /\ ~Has(script, "unpublished") /\ ~Has(script, "refuse") /\ Ordered(script) /\ script \in Seq(Orders)
    BY <2>2, EntriesAreOrdered DEF Startable, Ordered
  <2>4. /\ new \in Attempts /\ new.kind = "offer" /\ new.timed = FALSE /\ new.was = chip /\ new.todo = script
        /\ new.log = <<>> /\ new.bytes = 0 /\ new.prefixes = 0 /\ new.all = FALSE
    BY <1>1, <2>3 DEF Segmented!NewAttempt, Attempts
  <2> HIDE DEF new
  <2>5. /\ a \in Attempts /\ a.kind = "offer" /\ a.timed = FALSE /\ a.was = chip /\ a.todo = script
        /\ a.log = <<>> /\ a.bytes = 0 /\ a.prefixes = 0 /\ a.vector = source /\ source # "none"
    BY <2>1, <2>4 DEF Attempts
  <2>6. /\ chip' \in Processors /\ chip'.halted = FALSE /\ chip'.waiting = FALSE
        /\ chip'.trapPending = chip.trapPending
    BY <1>1, <2>1 DEF Processors, Segmented!Processor
  <2> HIDE DEF a
  <2>7. Trapping(a, chip') /\ Clearing(a, chip') /\ Refusable(a, chip')
    BY <2>3, <2>5, <2>6 DEF Trapping, Clearing, Refusable
  <2>8. Unfetched(a, chip') /\ Latched(a, chip') /\ Priced(a, chip')
    BY <2>3, <2>5, <2>6 DEF Unfetched, Latched, Priced
  <2>9. Going(attempt', chip')
    BY <2>3, <2>5, <2>6, <2>7, <2>8 DEF Going, a
  <2> QED BY <1>1, <1>2, <2>5, <2>9, AttemptsGoOn DEF a
<1>4. CASE ~(Segmented!Eligible(source) /\ (source = "nmi" \/ connected))
  <2>1. /\ chip' = chip /\ attempt' = attempt /\ answer'.how \in {"threw", "ignored"} /\ answer'.kind = "refusal"
        /\ answer'.from = ip /\ answer'.was = chip
    <3> DEFINE how == IF Segmented!Eligible(source) THEN "threw" ELSE "ignored"
    <3>1. /\ chip' = chip /\ attempt' = attempt
          /\ answer' = [how |-> how, kind |-> "refusal", from |-> ip, was |-> chip, vector |-> "none", clocks |-> 0,
                        prefixes |-> 0, timed |-> FALSE]
      BY <1>4 DEF Segmented!Offer
    <3>2. how \in {"threw", "ignored"}
      OBVIOUS
    <3> HIDE DEF how
    <3> QED BY <3>1, <3>2
  <2>2. Segmented!AttemptIsSound'
    BY <1>1, <1>2, <2>1 DEF Segmented!AttemptIsSound
  <2> QED BY <1>1, <1>2, <2>1, <2>2 DEF AttemptInv, Resting
<1> QED BY <1>3, <1>4

LEMMA ResetsRest == ASSUME HasOffsets, AttemptInv, Segmented!Reset PROVE AttemptInv'
<1>1. Resting /\ attempt = Segmented!NoAttempt /\ wires = <<>>
  BY UnderWay DEF Segmented!Reset, Resting
<1>2. /\ chip' = Segmented!ResetState /\ ip' = 0 /\ answer'.how = "reset" /\ attempt' = attempt /\ wires' = wires
  BY DEF Segmented!Reset
<1>3. ip' \in Offset /\ wires' \in Seq(Orders) /\ chip' \in Processors /\ chip'.halted = FALSE
  BY <1>1, <1>2 DEF HasOffsets, Offset, Processors, Segmented!Processor, Segmented!ResetState
<1>4. Segmented!AttemptIsSound'
  BY <1>1, <1>2 DEF Segmented!AttemptIsSound
<1> QED BY <1>1, <1>2, <1>3, <1>4 DEF AttemptInv, Resting

LEMMA AttemptsKeep == ASSUME HasOffsets, AttemptInv, [Segmented!Next]_segmented PROVE AttemptInv'
<1>1. CASE UNCHANGED segmented
  BY <1>1 DEF segmented, AttemptInv, Resting, Segmented!AttemptIsSound
<1>2. CASE \E timed \in BOOLEAN : Segmented!Step(timed)
  BY <1>2, StepsStart
<1>3. CASE \E source \in {"intr", "nmi"}, connected \in BOOLEAN : Segmented!Offer(source, connected)
  BY <1>3, OffersStart
<1>4. CASE \E opcode \in Segmented!Opcodes \cup {"unknown"} : Segmented!Opcode(opcode)
  BY <1>4, OpcodesGoOn
<1>5. CASE \E high \in BOOLEAN : Segmented!PollWait(high)
  BY <1>5, PollsGoOn
<1>6. CASE Segmented!Reset \/ Segmented!Prefix \/ Segmented!OnlyPrefixes \/ Segmented!Transfer \/ Segmented!ReportClocks
  BY <1>6, ResetsRest, PrefixesGoOn, PrefixesRest, TransfersGoOn, ClocksGoOn
<1>7. CASE Segmented!Unpublished \/ Segmented!Register \/ Segmented!Refuse \/ Segmented!Divide
  BY <1>7, UnpublishedRest, RegistersGoOn, RefusesRest, DividesGoOn
<1>8. CASE Segmented!Throws \/ Segmented!Retire \/ Segmented!Entered
  BY <1>8, ThrowsRest, RetirementsRest, EntriesRest
<1> QED BY <1>1, <1>2, <1>3, <1>4, <1>5, <1>6, <1>7, <1>8 DEF Segmented!Next

\* segmented-execution.ts: whatever the interleaving of callbacks, throws and refusals, a record of the
\* 8088's boundary says what the boundary did, a refusal leaves the CPU as it found it, and no owed
\* trap is lost or reported away.
THEOREM AttemptsAreSound ==
  ASSUME HasOffsets
  PROVE  Segmented!Spec => []Segmented!AttemptIsSound
<1>1. AttemptInv => Segmented!AttemptIsSound
  BY DEF AttemptInv, Resting, Going, Attempts, Segmented!AttemptIsSound, Segmented!NoAttempt
<1> QED BY <1>1, AttemptsStart, AttemptsKeep, PTL DEF Segmented!Spec, segmented, Segmented!sixteen

----------------------------------------------------------------------------
(* Side by side: a step of the composition is a step, or no step, of each. *)

LEMMA PartsStart ==
  ASSUME MCInit
  PROVE  Eight!Init /\ Sixteen!Init /\ Segmented!Init
BY DEF MCInit

LEMMA PartsStep ==
  ASSUME [MCNext]_<<part, eight, sixteen, segmented, lessons, stepHistory>>
  PROVE  [Eight!Next]_(Eight!vars) /\ [Sixteen!Next]_(Sixteen!vars) /\ [Segmented!Next]_(Segmented!sixteen)
<1>1. CASE part = "bytes" /\ Eight!Next /\ UNCHANGED <<part, sixteen, segmented, lessons, stepHistory>>
  BY <1>1 DEF sixteen, segmented, Sixteen!vars, Segmented!sixteen
<1>2. CASE part = "words" /\ Sixteen!Next /\ UNCHANGED <<part, eight, segmented, lessons, stepHistory>>
  BY <1>2 DEF eight, segmented, Eight!vars, Eight!cpu, Segmented!sixteen
<1>3. CASE part = "segments" /\ Segmented!Next /\ UNCHANGED <<part, eight, sixteen, lessons, stepHistory>>
  BY <1>3 DEF eight, sixteen, Eight!vars, Eight!cpu, Sixteen!vars
<1>4. CASE UNCHANGED <<eight, sixteen, segmented>>
  BY <1>4 DEF eight, sixteen, segmented, Eight!vars, Eight!cpu, Sixteen!vars, Segmented!sixteen
<1> QED BY <1>1, <1>2, <1>3, <1>4 DEF MCNext

\* Whichever executor ran it, a boundary leaves a record of what it did: of the byte CPUs what the
\* caller saw, and of the 8088 what it was charged, entered, refused or still owes.
THEOREM AttemptsLeaveRecords == MCSpec => []AttemptsAreRecorded
<1>1. HasAddresses /\ HasOffsets
  BY BoundsAssumption DEF HasAddresses, HasOffsets
<1>2. Eight!Spec /\ Segmented!Spec => []AttemptsAreRecorded
  BY <1>1, BoundariesAreRecorded, AttemptsAreSound, PTL DEF AttemptsAreRecorded
<1>3. MCSpec => Eight!Spec /\ Segmented!Spec
  BY PartsStart, PartsStep, PTL DEF MCSpec, Eight!Spec, Segmented!Spec
<1> QED BY <1>2, <1>3, PTL

\* word-events.ts, whatever runs beside it: a second bus or address error stops the 68000, its handlers
\* start in supervisor mode, untraced and running, and a trace is owed once.
THEOREM EntriesKeepSound == MCSpec => []EntriesAreSound
<1>1. MCSpec => Sixteen!Spec
  BY PartsStart, PartsStep, PTL DEF MCSpec, Sixteen!Spec
<1> QED BY <1>1, WordEntriesAreSound, PTL DEF EntriesAreSound

\* The bounded runner tells the truth, whatever runs beside it.
THEOREM RunsAreReported == MCSpec => RunReports
<1>1. HasAddresses
  BY BoundsAssumption DEF HasAddresses
<1>2. MCSpec => Eight!Spec
  BY PartsStart, PartsStep, PTL DEF MCSpec, Eight!Spec
<1> QED BY <1>1, <1>2, RunnerReports, PTL DEF RunReports

=============================================================================
