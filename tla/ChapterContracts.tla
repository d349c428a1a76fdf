----------------------------- MODULE ChapterContracts -----------------------------
(***************************************************************************)
(* The declarations of a literate CPU chapter that bind its bodies to a    *)
(* boundary (cpus/semantics/literate): the execution contract, the reset   *)
(* and the public interface, with the symbol tables the compiler keeps     *)
(* while it reads the fences in order.  The compiler checks each contract; *)
(* the generators then emit a module that calls the named actions, views   *)
(* and sources.  Reading and emission are written from different files and *)
(* must agree; the property says that they do.                             *)
(*                                                                         *)
(* A line is a record: the field it sets, the definitions it names in      *)
(* order (refs), and its other operands.  A definition keeps its signature *)
(* and what its body needs; the bodies are checked in ChapterEffects, and  *)
(* opcode pages in OpcodeDecoding.  Clock costs, frame sizes, vectors and  *)
(* masks are numbers the compiler bounds and nothing here depends on.      *)
(***************************************************************************)
EXTENDS Integers, Sequences, FiniteSets, TLC

CONSTANT Fences     \* the declarations an author may write, by kind
VARIABLE tables     \* what the compiler has read
vars == <<tables>>

Flag == 0                      \* the type of a flag; the others are their widths
NoResult == -1                 \* the result of an action
Values(sequence) == {sequence[i] : i \in DOMAIN sequence}
Column(sequence, field) == {sequence[i][field] : i \in DOMAIN sequence}
Distinct(sequence, field) == Cardinality(Column(sequence, field)) = Len(sequence)

Empty == [cpu |-> "", state |-> <<>>, defs |-> <<>>, execution |-> <<>>, reset |-> <<>>, api |-> <<>>,
          families |-> <<>>]

----------------------------------------------------------------------------
(* Reading a contract.                                                     *)

At(lines, field) == lines[CHOOSE i \in DOMAIN lines : lines[i].field = field]
Fields(lines) == Column(lines, "field")
\* A field is written once; unknown ones are refused.
Once(lines, required, optional) ==
    /\ Distinct(lines, "field")
    /\ required \subseteq Fields(lines) /\ Fields(lines) \subseteq required \cup optional

\* What a slot asks of the definition it names.
Asks(of, types, results, effects) == [of |-> of, types |-> types, results |-> results, effects |-> effects]
Action(types, effects) == Asks({"action"}, types, {NoResult}, effects)
View(results) == Asks({"view"}, <<>>, results, {})
Source(types, result) == Asks({"source", "view"}, types, {result}, {})
AddressSource == Asks({"source", "view"}, <<8, 3, 3>>, {32}, {"memory", "program", "staging"})
Meets(defs, name, slot) ==
    /\ name \in DOMAIN defs
    /\ LET d == defs[name]
       IN  /\ d.of \in slot.of /\ d.types = slot.types /\ d.type \in slot.results
           /\ d.needs \subseteq slot.effects
LineMeets(defs, line, slots) ==
    Len(line.refs) = Len(slots) /\ \A i \in DOMAIN slots : Meets(defs, line.refs[i], slots[i])
UsesMemory(d) == d.needs \cap {"memory", "program"} # {}

\* Named recognition: gates, then acceptance, then one delivery.
Ordered(steps, deliveries) ==
    /\ Len(steps) >= 2 /\ steps[Len(steps)].step \in deliveries /\ steps[Len(steps) - 1].step = "accept"
    /\ \A i \in 1..(Len(steps) - 2) : steps[i].step = "gate"
Gates(steps) == {steps[i].on : i \in 1..(Len(steps) - 2)}
Accepting(steps) == steps[Len(steps) - 1]
Delivery(steps) == steps[Len(steps)]

VectorEntryFits(t, e) ==
    /\ CASE e.gate = "mask" -> e.on \in t.state.flags
         [] e.gate = "latch" -> e.on \in t.state.latches
         [] OTHER -> TRUE
    /\ e.enter \in DOMAIN t.defs
    /\ LET d == t.defs[e.enter]
       IN  /\ d.of = "action" /\ d.needs \subseteq {"memory"}
           /\ Flag \notin Values(d.types) /\ Len(e.args) = Len(d.types)
           /\ \A i \in DOMAIN e.args : e.args[i] < 2 ^ d.types[i]
    /\ e.wake # "" =>
         /\ e.gate = "mask" /\ e.choice \in DOMAIN t.state.choices /\ e.value \in t.state.choices[e.choice]
         /\ Meets(t.defs, e.wake, Action(<<>>, {}))
InterruptEntryFits(t, e) ==
    /\ Ordered(e.steps, IF e.acknowledge THEN {"select"} ELSE {"enter"})
    /\ Gates(e.steps) \subseteq t.state.latches
    /\ LineMeets(t.defs, Accepting(e.steps), <<Action(<<>>, {})>>)
    /\ LET delivery == Delivery(e.steps)
       IN  IF ~e.acknowledge THEN LineMeets(t.defs, delivery, <<Action(<<>>, {"memory"})>>)
           ELSE /\ delivery.choice \in DOMAIN t.state.choices
                /\ Distinct(delivery.cases, "value")
                /\ Column(delivery.cases, "value") = t.state.choices[delivery.choice]
                /\ \A i \in DOMAIN delivery.cases :
                      \/ delivery.cases[i].enter = "supplied"
                      \/ Meets(t.defs, delivery.cases[i].enter, Action(<<8>>, {"memory"}))
OfferFits(t, e) ==
    /\ Ordered(e.steps, {"enter"})
    /\ Gates(e.steps) \subseteq t.state.flags \cup t.state.bankFlags \cup t.state.latches
    /\ LineMeets(t.defs, Accepting(e.steps), <<Action(<<>>, {})>>)
    /\ LineMeets(t.defs, Delivery(e.steps), <<Action(<<8>>, {"memory", "program"})>>)
EntriesFit(sources, fits(_)) ==
    sources # <<>> /\ Distinct(sources, "source") /\ \A i \in DOMAIN sources : fits(sources[i])
\* With timing, every source has its cost, once.
TimingFits(lines, sources) ==
    "timing" \in Fields(lines) =>
        LET offers == At(lines, "timing").offers
        IN  Distinct(offers, "source") /\ Column(offers, "source") = Column(sources, "source")

PlainFields == {"memory", "counter", "stopped", "word", "opcode", "operand", "failure", "reset", "retire", "interrupt"}
SuppliedFields == {"interrupt.accept", "interrupt.bytes", "interrupt.counter", "interrupt.unknown"}
PlainSlots(form, line, bits) ==
    CASE line.field = "counter" -> <<View(1..bits), Action(<<16>>, {})>>
      [] line.field = "opcode" -> IF line.advance = "decode" THEN <<Action(<<8>>, {})>> ELSE <<>>
      [] line.field = "reset" -> <<Action(<<>>, IF form = "vectors" THEN {"memory"} ELSE {})>>
      [] line.field = "retire" -> IF line.refs = <<>> THEN <<>> ELSE <<Action(<<>>, {})>>
      [] line.field = "interrupt.accept" -> <<Action(<<>>, {})>>
      [] OTHER -> <<>>
Decoded == {"entries", "external"}
StoppedFits(t, form, line) ==
    /\ line.by = "latch" => line.on \in t.state.latches
    /\ line.by = "choice" => line.on \in DOMAIN t.state.choices /\ line.unless \in t.state.choices[line.on]
    /\ line.waiting => line.by # "none"
    /\ IF form = "vectors" THEN line.by = "none" \/ line.waiting ELSE line.by = "latch" /\ ~line.waiting
\* A bug: the runtimes that do not combine the two policies are not told apart.
CombinedRetireFits(t, form, line) ==
    /\ line.into # "" => line.into \in t.state.latches
    /\ form = "vectors" => line.into = "" /\ line.refs = <<>>
RetireFits(t, form, line) ==
    /\ line.into # "" => line.into \in t.state.latches
    /\ form = "vectors" => line.into = "" /\ line.refs = <<>>
    /\ form = "supplied" => line.into = "" \/ line.refs = <<>>
PlainFits(t, lines) ==
    /\ "interrupt" \in Fields(lines)
    /\ LET interrupt == At(lines, "interrupt")
           form == interrupt.form
           all == lines \o interrupt.inner
           bits == At(lines, "memory").bits
       IN  /\ Once(all, IF form = "supplied" THEN PlainFields \cup SuppliedFields ELSE PlainFields,
                   CASE form = "supplied" -> {"interrupt.callback"} [] form = "vectors" -> {"timing"} [] OTHER -> {"notify"})
           /\ bits \in 1..16
           /\ \A i \in DOMAIN all : LineMeets(t.defs, all[i], PlainSlots(form, all[i], bits))
           /\ StoppedFits(t, form, At(lines, "stopped")) /\ RetireFits(t, form, At(lines, "retire"))
           /\ (form \in Decoded) = (At(lines, "opcode").advance = "decode")
           /\ CASE form = "vectors" -> EntriesFit(interrupt.sources, LAMBDA e : VectorEntryFits(t, e))
                                       /\ TimingFits(lines, interrupt.sources)
                [] form = "entries" -> EntriesFit(interrupt.sources, LAMBDA e : InterruptEntryFits(t, e))
                [] form = "supplied" -> At(all, "interrupt.accept").gates \subseteq t.state.latches
                [] OTHER -> TRUE

SegmentedFields == {"memory", "counter", "segment", "record", "fetch", "prefixes", "stopped", "waiting", "pending",
                    "fault", "reset", "retire", "unsupported", "failure", "interrupt"}
Flags(n) == [i \in 1..n |-> Flag]
SegmentedSlots(line) ==
    CASE line.field = "counter" -> <<Action(<<16>>, {})>>
      [] line.field = "record" -> <<View({32})>>
      [] line.field \in {"fetch", "reset"} -> <<Action(<<>>, {})>>
      [] line.field = "waiting" -> <<Action(<<8>>, {"test"})>>
      [] line.field = "pending" -> <<Action(<<>>, {}), Action(<<8>>, {"memory"})>>
      [] line.field = "fault" -> <<Action(<<8>>, {"memory"})>>
      [] line.field = "retire" -> <<Action(Flags(2 + Len(line.samples)), {})>>
      [] OTHER -> <<>>
SegmentedFits(t, lines) ==
    /\ Once(lines, SegmentedFields, {"timing"})
    /\ LET line(field) == At(lines, field)
           word(register) == register \in DOMAIN t.state.registers /\ t.state.registers[register] = 16
           prefixes == line("prefixes").bytes
       IN  /\ line("memory").bits \in 16..24 /\ line("segment").shift \in 0..(line("memory").bits - 16)
           /\ \A i \in DOMAIN lines : LineMeets(t.defs, lines[i], SegmentedSlots(lines[i]))
           /\ word(line("counter").on) /\ word(line("segment").on)
           /\ line("prefixes").limit > 0 /\ Distinct(prefixes, "opcode")
           /\ \A i \in DOMAIN prefixes : /\ prefixes[i].kind = "segment" => word(prefixes[i].on)
                                         /\ prefixes[i].kind = "repeat" => prefixes[i].value > 0
           /\ {line("stopped").on, line("waiting").on, line("pending").owed, line("pending").inhibited}
                \subseteq t.state.latches
           /\ line("fault").source \notin {"", "unsupported", "opcode", "software"} /\ line("pending").source # ""
           /\ Values(line("retire").samples) \subseteq t.state.flags \cup t.state.bankFlags \cup t.state.latches
           /\ EntriesFit(line("interrupt").sources, LAMBDA e : OfferFits(t, e))
           /\ TimingFits(lines, line("interrupt").sources)

WordFields == {"counter", "memory", "fetch", "alignment", "terminal", "stopped", "trace", "fetched", "retire",
               "address", "unknown", "unsupported", "inputs", "exceptions", "interrupt"}
WordSlots(line, bits) ==
    CASE line.field = "counter" -> <<View({bits} \ {Flag})>>
      [] line.field = "trace" -> <<Action(<<Flag>>, {})>>
      [] line.field = "fetched" -> <<Action(<<16>>, {})>>
      [] line.field = "retire" -> <<Action(<<bits, Flag>>, {})>>
      [] line.field = "address" -> <<AddressSource>>
      [] OTHER -> <<>>
EventFields == {"capture", "prepare", "stack-check", "short-frame", "vector", "complete", "entry-return", "fault-frame",
                "fault-vectors", "function-code", "fault-begin", "halt", "initial-fetch", "levels", "gate", "accept",
                "acknowledge", "interrupt-return"}
EventSlots(line) ==
    CASE line.field = "capture" -> <<View({32}), View({16}), View({16})>>
      [] line.field = "prepare" -> <<Action(<<32, 8>>, {})>>
      [] line.field = "stack-check" -> <<Action(<<32>>, {"alignment"})>>
      [] line.field = "short-frame" -> <<Action(<<32, 16, 32>>, {"memory", "program"})>>
      [] line.field = "vector" -> <<Action(<<8>>, {"memory", "program", "alignment"})>>
      [] line.field = "complete" -> <<Action(<<Flag, 8>>, {})>>
      [] line.field = "entry-return" -> <<Source(<<32, 8, Flag>>, 32)>>
      [] line.field = "fault-frame" -> <<Action(<<32, 16, 32, 32, Flag, Flag, 8>>, {"memory", "program"})>>
      [] line.field = "function-code" -> <<Source(<<Flag>>, 8)>>
      [] line.field \in {"fault-begin", "accept"} -> <<Action(<<8>>, {})>>
      [] line.field = "halt" -> <<Action(<<>>, {})>>
      [] line.field = "initial-fetch" -> <<Source(<<>>, Flag), Source(<<>>, 32), Source(<<>>, Flag)>>
      [] line.field \in {"gate", "acknowledge"} -> <<Source(<<8>>, 8)>>
      [] line.field = "interrupt-return" -> <<View({32})>>
      [] OTHER -> <<>>
EventsFit(t, lines) ==
    /\ Once(lines, EventFields, {})
    /\ \A i \in DOMAIN lines : LineMeets(t.defs, lines[i], EventSlots(lines[i]))
    /\ At(lines, "levels").minimum <= At(lines, "levels").maximum
    /\ Len(At(lines, "gate").reasons) = Cardinality(Values(At(lines, "gate").reasons))
WordFits(t, lines) ==
    /\ Once(lines, WordFields, {"events"})
    /\ LET line(field) == At(lines, field)
           counter == line("counter").refs[1]
           exceptions == line("exceptions").policies
       IN  /\ counter \in DOMAIN t.defs
           /\ LET bits == t.defs[counter].type
              IN  /\ line("memory").bits \in 1..bits
                  /\ \A i \in DOMAIN lines : LineMeets(t.defs, lines[i], WordSlots(lines[i], bits))
           /\ {line("terminal").on, line("stopped").on, line("trace").pending} \subseteq t.state.latches
           /\ line("trace").on \in t.state.flags
           /\ Distinct(line("inputs").encoded, "name") /\ Distinct(exceptions, "name")
           /\ \A i \in DOMAIN exceptions :
                 exceptions[i].name # "unsupported" /\ exceptions[i].vector + exceptions[i].offset <= 255
           /\ {line("trace").exception, line("unknown").exception, line("unsupported").exception}
                \subseteq Column(exceptions, "name")
           /\ line("interrupt").owned = ("events" \in Fields(lines))
           /\ line("interrupt").owned => EventsFit(t, line("events").inner)

ResetSlots(line) ==
    IF line.field = "attempt" THEN <<Action(<<>>, {"memory", "program", "alignment"})>> ELSE <<Action(<<Flag>>, {})>>
ResetFits(t, lines) ==
    Once(lines, {"attempt", "complete"}, {}) /\ \A i \in DOMAIN lines : LineMeets(t.defs, lines[i], ResetSlots(lines[i]))

Stored(state) == state.latches \cup DOMAIN state.choices \cup DOMAIN state.registers \cup {"flags"}
InterfaceFits(t, lines) ==
    \A i \in DOMAIN lines :
        LET view == lines[i].refs[1]
        IN  /\ view \in DOMAIN t.defs /\ t.defs[view].of = "view"
            /\ lines[i].at = "pc" => t.defs[view].type # Flag
            /\ lines[i].at \notin Stored(t.state) /\ \A j \in 1..(i - 1) : lines[j].at # lines[i].at

----------------------------------------------------------------------------
(* The compiler reads the fences in order; a refused one ends it.          *)

Put(field, value) == tables' = [tables EXCEPT ![field] = value]
Begun == tables.cpu # ""
Ready == Begun /\ tables.state # <<>>      \* state comes before what uses it
Mode == tables.execution[1].mode

ReadCpu(d) == ~Begun /\ Put("cpu", d.boundary)
ReadState(d) == Begun /\ tables.state = <<>> /\ tables' = [tables EXCEPT !.state = d.fields]
\* Names are declared once; a boundary's effects need its kind of CPU.
Connected(boundary, needs) ==
    /\ needs \cap {"program", "alignment", "staging"} # {} => boundary = "word"
    /\ "test" \in needs => boundary = "segmented"
ReadDefinitions(d) ==
    /\ Ready /\ DOMAIN d.defs \cap DOMAIN tables.defs = {}
    /\ \A name \in DOMAIN d.defs : /\ Connected(tables.cpu, d.defs[name].needs)
                                   /\ d.defs[name].of = "view" => d.defs[name].types = <<>>
    /\ Put("defs", d.defs @@ tables.defs)
ReadExecution(d) ==
    /\ d.mode = tables.cpu
    /\ CASE d.mode = "segmented" -> SegmentedFits(tables, d.lines)
         [] d.mode = "word" -> WordFits(tables, d.lines)
         [] OTHER -> PlainFits(tables, d.lines)
    /\ Put("execution", <<[mode |-> d.mode, lines |-> d.lines]>>)
ReadReset(d) == ResetFits(tables, d.lines) /\ Put("reset", <<d.lines>>)
External(e) ==
    LET interrupt == At(e.lines, "interrupt")
    IN  CASE e.mode = "word" -> ~interrupt.owned [] e.mode = "plain" -> interrupt.form = "external" [] OTHER -> FALSE
ReadInterface(d) ==
    /\ Ready /\ tables.api = <<>> /\ tables.execution # <<>> /\ ~External(tables.execution[1])
    /\ Mode = "word" => tables.reset # <<>>
    /\ InterfaceFits(tables, d.lines) /\ Put("api", <<d.lines>>)
ReadFamily(d) ==
    /\ Ready /\ \A i \in DOMAIN tables.families : tables.families[i].opcode # d.opcode
    /\ Put("families", Append(tables.families, d))

\* The last checks: instructions against the contract, and whole contracts against each other.
Plain == <<>>
Override == <<[name |-> "overridden", width |-> 8], [name |-> "segmentOverride", width |-> 16]>>
Repeat == Override \o <<[name |-> "repeatMode", width |-> 8], [name |-> "startIP", width |-> 16]>>
FamilyFits(t, family) ==
    LET e == t.execution[1]
    IN  CASE e.mode = "segmented" ->
               /\ family.inputs \in {Plain, Override, Repeat}
               /\ family.opcode < 256 /\ family.opcode \notin Column(At(e.lines, "prefixes").bytes, "opcode")
          [] e.mode = "word" ->
               Values(family.inputs) \subseteq Values(At(e.lines, "inputs").encoded)
          [] OTHER -> family.opcode < 256
ChapterEnds(t) ==
    /\ t.state # <<>>
    /\ t.execution # <<>> =>
         /\ t.execution[1].mode # "word" => t.reset = <<>>
         /\ \A i \in DOMAIN t.families : FamilyFits(t, t.families[i])

Init == tables = Empty
Next == \/ \E d \in Fences.cpu : ReadCpu(d)
        \/ \E d \in Fences.state : ReadState(d)
        \/ \E d \in Fences.definitions : ReadDefinitions(d)
        \/ Ready /\ tables.execution = <<>> /\ \E d \in Fences.execution : ReadExecution(d)
        \/ Ready /\ tables.reset = <<>> /\ \E d \in Fences.reset : ReadReset(d)
        \/ \E d \in Fences.interface : ReadInterface(d)
        \/ \E d \in Fences.family : ReadFamily(d)
Spec == Init /\ [][Next]_vars

----------------------------------------------------------------------------
(* The generated modules: which definitions a line's code calls, with what *)
(* arguments and capabilities, and what it does with the result.           *)

Call(of, types, used, gives) == [of |-> of, types |-> types, used |-> used, gives |-> gives]
Do(types) == Call({"action"}, types, {NoResult}, {})
DoIn(types, gives) == Call({"action"}, types, {NoResult}, gives)
See(used) == Call({"view"}, <<>>, used, {})
Ask(types, used) == Call({"source", "view"}, types, used, {})
Numbers(bits) == 1..bits
Bus == {"memory", "program"}

SuppliedCalls(line, bits) ==
    CASE line.field = "counter" -> <<See(Numbers(bits)), Do(<<16>>)>>
      [] line.field \in {"reset", "interrupt.accept"} -> <<Do(<<>>)>>
      [] line.field = "retire" -> IF line.into = "" /\ line.refs # <<>> THEN <<Do(<<>>)>> ELSE <<>>   \* one policy
      [] OTHER -> <<>>
DecodedCalls(line, bits) ==
    CASE line.field = "counter" -> <<See(Numbers(bits)), Do(<<16>>)>>
      [] line.field = "opcode" -> <<Do(<<8>>)>>
      [] line.field = "reset" -> <<Do(<<>>)>>
      [] line.field = "retire" -> IF line.refs # <<>> THEN <<Do(<<>>)>> ELSE <<>>                    \* both
      [] OTHER -> <<>>
VectorCalls(line, bits) ==
    CASE line.field = "counter" -> <<See(Numbers(bits)), Do(<<16>>)>>
      [] line.field = "reset" -> <<DoIn(<<>>, {"memory"})>>
      [] OTHER -> <<>>
PlainCalls(form, line, bits) ==
    CASE form = "supplied" -> SuppliedCalls(line, bits)
      [] form = "vectors" -> VectorCalls(line, bits)
      [] OTHER -> DecodedCalls(line, bits)
SegmentedCalls(line) ==
    CASE line.field = "counter" -> <<Do(<<16>>)>>
      [] line.field = "record" -> <<See({32})>>
      [] line.field \in {"fetch", "reset"} -> <<Do(<<>>)>>
      [] line.field = "waiting" -> <<DoIn(<<8>>, {"memory", "test"})>>
      [] line.field = "pending" -> <<Do(<<>>), DoIn(<<8>>, {"memory"})>>
      [] line.field = "fault" -> <<DoIn(<<8>>, {"memory"})>>
      [] line.field = "retire" -> <<Do(<<Flag, Flag>> \o [i \in DOMAIN line.samples |-> Flag])>>
      [] OTHER -> <<>>
WordCalls(line, bits) ==
    CASE line.field = "counter" -> <<See(Numbers(bits))>>
      [] line.field = "fetched" -> <<Do(<<16>>)>>
      [] line.field = "retire" -> <<Do(<<bits, Flag>>)>>
      [] line.field = "trace" -> <<Do(<<Flag>>)>>
      [] line.field = "address" -> <<Call({"source", "view"}, <<8, 3, 3>>, Numbers(32), Bus \cup {"staging"})>>
      [] OTHER -> <<>>
EventCalls(line) ==
    CASE line.field = "capture" -> <<See({32}), See({16}), See({16})>>
      [] line.field = "prepare" -> <<Do(<<32, 8>>)>>
      [] line.field = "stack-check" -> <<DoIn(<<32>>, {"alignment"})>>
      [] line.field = "short-frame" -> <<DoIn(<<32, 16, 32>>, Bus)>>
      [] line.field = "vector" -> <<DoIn(<<8>>, Bus \cup {"alignment"})>>
      [] line.field = "complete" -> <<Do(<<Flag, 8>>)>>
      [] line.field = "entry-return" -> <<Ask(<<32, 8, Flag>>, {32})>>
      [] line.field = "fault-frame" -> <<DoIn(<<32, 16, 32, 32, Flag, Flag, 8>>, Bus)>>
      [] line.field = "function-code" -> <<Ask(<<Flag>>, {8})>>
      [] line.field \in {"fault-begin", "accept"} -> <<Do(<<8>>)>>
      [] line.field = "halt" -> <<Do(<<>>)>>
      [] line.field = "initial-fetch" -> <<Ask(<<>>, {Flag}), Ask(<<>>, {32}), Ask(<<>>, {Flag})>>
      [] line.field \in {"gate", "acknowledge"} -> <<Ask(<<8>>, {8})>>
      [] line.field = "interrupt-return" -> <<See({32})>>
      [] OTHER -> <<>>
ResetCalls(line) == IF line.field = "attempt" THEN <<DoIn(<<>>, Bus \cup {"alignment"})>> ELSE <<Do(<<Flag>>)>>

\* Only these sources are emitted as readers of their own.
WordReaders(lines) ==
    {At(lines, "address").refs[1]}
    \cup (IF "events" \notin Fields(lines) THEN {}
          ELSE LET inner == At(lines, "events").inner
               IN  UNION {Values(At(inner, field).refs)
                            : field \in {"entry-return", "function-code", "initial-fetch", "gate", "acknowledge"}})
Answered(defs, readers, name, call) ==
    /\ name \in DOMAIN defs
    /\ LET d == defs[name]
       IN  /\ d.of \in call.of /\ d.types = call.types /\ d.type \in call.used /\ d.needs \subseteq call.gives
           /\ "source" \in call.of => name \in readers
\* Everything the author named is called, and as it expects.
AllAnswered(defs, readers, line, calls) ==
    Len(calls) = Len(line.refs) /\ \A i \in DOMAIN calls : Answered(defs, readers, line.refs[i], calls[i])

\* Latches are tested by truth, choices by a value they can have, flags in the flag record.
Latched(t, names) == names \subseteq t.state.latches
Waits(t, line) ==
    CASE line.by = "latch" -> Latched(t, {line.on})
      [] line.by = "choice" -> line.on \in DOMAIN t.state.choices /\ line.unless \in t.state.choices[line.on]
      [] OTHER -> TRUE
\* A host calls the method of an entry by its source; the cost is looked up by it too.
Named(sources, costs) ==
    /\ \A i, j \in DOMAIN sources : sources[i].source = sources[j].source => i = j
    /\ costs = <<>> \/ \A i \in DOMAIN sources : Cardinality({j \in DOMAIN costs : costs[j].source = sources[i].source}) = 1
Costs(lines) == IF "timing" \in Fields(lines) THEN At(lines, "timing").offers ELSE <<>>
Literal(t, e) ==
    /\ e.enter \in DOMAIN t.defs
    /\ LET types == t.defs[e.enter].types
       IN  Len(e.args) = Len(types) /\ \A i \in DOMAIN types : types[i] # Flag /\ e.args[i] \in 0..(2 ^ types[i] - 1)
    /\ t.defs[e.enter].of = "action" /\ t.defs[e.enter].needs \subseteq {"memory"}
VectorServed(t, e) ==
    /\ Literal(t, e)
    /\ e.gate = "mask" => e.on \in t.state.flags
    /\ e.gate = "latch" => Latched(t, {e.on})
    /\ e.wake # "" => /\ Answered(t.defs, {}, e.wake, Do(<<>>))
                      /\ e.value \in t.state.choices[e.choice] /\ e.gate # "always"
EntryServed(t, e) ==
    /\ Latched(t, Gates(e.steps)) /\ Answered(t.defs, {}, Accepting(e.steps).refs[1], Do(<<>>))
    /\ LET delivery == Delivery(e.steps)
       IN  IF ~e.acknowledge THEN Answered(t.defs, {}, delivery.refs[1], DoIn(<<>>, {"memory"}))
           ELSE \A value \in t.state.choices[delivery.choice] :      \* the switch has no default
                   \E i \in DOMAIN delivery.cases :
                      /\ delivery.cases[i].value = value
                      /\ \/ delivery.cases[i].enter = "supplied"
                         \/ Answered(t.defs, {}, delivery.cases[i].enter, DoIn(<<8>>, {"memory"}))
OfferServed(t, e) ==
    /\ Gates(e.steps) \subseteq t.state.flags \cup t.state.bankFlags \cup t.state.latches
    /\ Answered(t.defs, {}, Accepting(e.steps).refs[1], Do(<<>>))
    /\ Answered(t.defs, {}, Delivery(e.steps).refs[1], DoIn(<<8>>, {"memory"}))

PlainServed(t, lines) ==
    LET interrupt == At(lines, "interrupt")
        form == interrupt.form
        all == lines \o interrupt.inner
    IN  /\ \A i \in DOMAIN all : AllAnswered(t.defs, {}, all[i], PlainCalls(form, all[i], At(lines, "memory").bits))
        /\ Waits(t, At(lines, "stopped")) /\ (form = "vectors" \/ At(lines, "stopped").by = "latch")
        /\ Latched(t, {At(lines, "retire").into} \ {""})
        /\ CASE form = "vectors" -> Named(interrupt.sources, Costs(lines))
                                    /\ \A i \in DOMAIN interrupt.sources : VectorServed(t, interrupt.sources[i])
             [] form = "entries" -> Named(interrupt.sources, <<>>)
                                    /\ \A i \in DOMAIN interrupt.sources : EntryServed(t, interrupt.sources[i])
             [] form = "supplied" -> Latched(t, At(all, "interrupt.accept").gates)
             [] OTHER -> TRUE
SegmentedServed(t, lines) ==
    LET line(field) == At(lines, field)
        word == {r \in DOMAIN t.state.registers : t.state.registers[r] = 16}
        prefixes == line("prefixes").bytes
        sources == line("interrupt").sources
    IN  /\ \A i \in DOMAIN lines : AllAnswered(t.defs, {}, lines[i], SegmentedCalls(lines[i]))
        /\ {line("counter").on, line("segment").on} \subseteq word
        /\ \A i \in DOMAIN prefixes : prefixes[i].kind = "segment" => prefixes[i].on \in word
        /\ Latched(t, {line("stopped").on, line("waiting").on, line("pending").owed, line("pending").inhibited})
        /\ Named(sources, Costs(lines)) /\ \A i \in DOMAIN sources : OfferServed(t, sources[i])
WordServed(t, lines) ==
    LET line(field) == At(lines, field)
        bits == t.defs[line("counter").refs[1]].type
        readers == WordReaders(lines)
        policies == Column(line("exceptions").policies, "name")
    IN  /\ \A i \in DOMAIN lines : AllAnswered(t.defs, readers, lines[i], WordCalls(lines[i], bits))
        /\ Latched(t, {line("terminal").on, line("stopped").on, line("trace").pending})
        /\ {line("trace").exception, line("unknown").exception, line("unsupported").exception} \subseteq policies
        /\ "events" \in Fields(lines) =>
             LET inner == line("events").inner
             IN  \A i \in DOMAIN inner : AllAnswered(t.defs, readers, inner[i], EventCalls(inner[i]))

\* Handlers are partitioned by their inputs and called with what each partition expects.
EncodedInputs(lines) == At(lines, "inputs").encoded
Passed(e, family) ==
    CASE e.mode = "segmented" ->
           IF family.inputs = <<>> THEN <<>>
           ELSE IF "repeatMode" \in Column(family.inputs, "name") THEN Repeat ELSE Override
      [] e.mode = "word" ->
           [i \in DOMAIN family.inputs |->
              [name |-> family.inputs[i].name,
               width |-> EncodedInputs(e.lines)[CHOOSE j \in DOMAIN EncodedInputs(e.lines) :
                                            EncodedInputs(e.lines)[j].name = family.inputs[i].name].width]]
      [] OTHER -> <<>>
\* The generator refuses what it cannot bind: byte families with inputs, a word CPU without instructions.
Generates(t) ==
    /\ Mode = "plain" => \A i \in DOMAIN t.families : t.families[i].inputs = <<>>
    /\ Mode = "word" => t.families # <<>>
FamiliesServed(t) ==
    \A i \in DOMAIN t.families :
        /\ t.families[i].inputs = Passed(t.execution[1], t.families[i])
        /\ Mode = "segmented" =>
             \A j \in DOMAIN At(t.execution[1].lines, "prefixes").bytes :
                At(t.execution[1].lines, "prefixes").bytes[j].opcode # t.families[i].opcode
Timed(e) == e.mode # "word" /\ "timing" \in Fields(e.lines)
Methods(e, stepped) == stepped \cup (IF Timed(e) THEN {"stepTimed", "interruptTimed"} ELSE {})
Returned(e) == Methods(e, {"reset", "step"} \cup (IF External(e) THEN {} ELSE {"interrupt"}))
Invoked(e) == Methods(e, {"reset", "step", "interrupt"})
InterfaceServed(t) ==
    /\ Invoked(t.execution[1]) \subseteq Returned(t.execution[1])
    /\ Mode = "word" => t.reset # <<>>
    /\ \A i \in DOMAIN t.api[1] : LET view == t.api[1][i].refs[1]
                                  IN  Answered(t.defs, {}, view, See(Numbers(32) \cup {Flag}))

(***************************************************************************)
(* A contract the compiler accepts is served by the modules generated from *)
(* it: every definition the author names is called, with the arguments it  *)
(* takes and the capabilities its body needs, and gives what its caller    *)
(* uses; the fields the boundary tests are of the kind it tests; every     *)
(* source has one entry and one cost; handlers get the inputs they declare *)
(* in order; the public class calls methods its boundary has.              *)
(***************************************************************************)
ContractIsServed ==
    tables.execution # <<>> /\ ChapterEnds(tables) /\ Generates(tables) =>
        LET e == tables.execution[1]
        IN  /\ CASE e.mode = "segmented" -> SegmentedServed(tables, e.lines)
                 [] e.mode = "word" -> WordServed(tables, e.lines)
                 [] OTHER -> PlainServed(tables, e.lines)
            /\ tables.reset # <<>> => \A i \in DOMAIN tables.reset[1] :
                  AllAnswered(tables.defs, {}, tables.reset[1][i], ResetCalls(tables.reset[1][i]))
            /\ FamiliesServed(tables)
            /\ tables.api # <<>> => InterfaceServed(tables)
=============================================================================
