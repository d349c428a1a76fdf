------------------------------ MODULE MCChapters ------------------------------
(* Chapters for TLC: the statements and boundaries of bodies, the contracts of each *)
(* kind of CPU that differ from a complete one in one line (dropped, repeated,      *)
(* naming another definition, or written with other operands), and the chapters of  *)
(* a device that differ from a complete one in one place.                           *)
EXTENDS Integers, Sequences, SequencesExt, TLC

CONSTANTS Kinds, MaxSteps
VARIABLES role, body

----------------------------------------------------------------------------
(* Bodies and the boundaries they are written for.                         *)

Leaf(kind) == [kind |-> kind]
With(kind, bodies) == [kind |-> kind, bodies |-> bodies]
Fails(kind, reason) == [kind |-> kind, reason |-> reason]
Fetch == <<Leaf("fetch-byte")>>
Write == <<Leaf("write")>>
ReadsMemory == With("read-source", <<<<Leaf("capture"), Leaf("read-memory")>>>>)
Decodes == With("match", <<Fetch, Write>>)
Steps ==
    {Leaf(kind) : kind \in Kinds}
    \cup {With("when", <<b>>) : b \in {<<Leaf("add-clocks")>>, <<Leaf("report-clocks")>>,
                                      <<Fails("reject", "opcode")>>, Write}}
    \cup {ReadsMemory, Decodes,
          With("read-source", <<<<Decodes>>>>), With("read-source", <<<<Leaf("add-clocks")>>>>),
          With("read-source", <<Fetch>>), With("read-source", <<<<Leaf("stage-register")>>>>),
          With("perform", <<<<Leaf("add-clocks")>>>>), With("perform", <<<<ReadsMemory, Decodes>>>>),
          With("perform", <<<<Leaf("write-memory"), Leaf("defer intr")>>>>),
          With("perform", <<<<Fails("reject", "trap")>>>>),
          With("choose", <<Fetch, <<Leaf("read-port")>>>>), With("choose", <<<<>>, Write>>),
          With("iterate", <<<<Leaf("add-clocks")>>>>), With("iterate", <<<<Leaf("notify-reti")>>>>),
          With("match", <<<<Leaf("report-clocks when")>>>>), With("match", <<Write, <<>>>>),
          Fails("reject", "trap"), Fails("reject", "divide-error"), Fails("divide", "divide-error"),
          Fails("reject", "unsupported")}

Family(mode, timed, deferral, reti) ==
    [slot |-> "family", mode |-> mode, timed |-> timed, deferral |-> deferral, reti |-> reti, composed |-> FALSE]
Hook(slot, mode) ==
    [slot |-> slot, mode |-> mode, timed |-> FALSE, deferral |-> FALSE, reti |-> FALSE, composed |-> FALSE]
Roles ==
    {Family("supplied", FALSE, d, FALSE) : d \in BOOLEAN}
    \cup {Family(mode, t, FALSE, FALSE) : mode \in {"vectors", "segmented"}, t \in BOOLEAN}
    \cup {Family("decoded", FALSE, d, d) : d \in BOOLEAN} \cup {Family("word", FALSE, FALSE, FALSE)}
    \cup {Hook("state", "supplied"), Hook("decoded accept", "decoded"), Hook("decoded entry", "decoded")}
    \cup {Hook(slot, "vectors") : slot \in {"vector reset", "vector entry", "vector resume"}}
    \cup {Hook(slot, "segmented") : slot \in {"segmented entry", "offer entry", "continuation"}}
    \cup {Hook(slot, "word") : slot \in {"stack check", "word frame", "word vector", "reset attempt",
                                         "view", "address source"}}

INSTANCE ChapterEffects WITH Steps <- Steps, Roles <- Roles

----------------------------------------------------------------------------
(* The contract of a CPU.                                                  *)

FlagType == 0
Def(of, types, type, needs) == [of |-> of, types |-> types, type |-> type, needs |-> needs]
A(types) == Def("action", types, -1, {})
M(types) == Def("action", types, -1, {"memory"})
L(field, refs) == [field |-> field, refs |-> refs]
\* The entries of one kind of source with each alternative of one operand.
Changed(record, field, values) == {[record EXCEPT ![field] = value] : value \in values}

Edited(lines, names, others) ==
    {lines} \cup {RemoveAt(lines, i) : i \in DOMAIN lines} \cup {Append(lines, lines[i]) : i \in DOMAIN lines}
    \cup UNION {{[lines EXCEPT ![i].refs[j] = name] : j \in DOMAIN lines[i].refs, name \in names} : i \in DOMAIN lines}
    \cup UNION {{[lines EXCEPT ![i] = line] : line \in {l \in others : l.field = lines[i].field}} : i \in DOMAIN lines}
    \cup {Append(lines, line) : line \in others}

Held == [latches |-> {"halted", "ie", "defer"}, choices |-> [run |-> {"run", "wait"}, mode |-> {"m0", "m1"}],
          flags |-> {"I", "T"}, bankFlags |-> {"Ib"}, registers |-> [PC |-> 16, CS |-> 16, A |-> 8]]

----------------------------------------------------------------------------
PlainLibrary == [pc |-> Def("view", <<>>, 16, {}), carry |-> Def("view", <<>>, FlagType, {}),
                 setPc |-> A(<<16>>), fetched |-> A(<<8>>), clear |-> A(<<>>), load |-> M(<<>>),
                 restart |-> M(<<8>>), enter |-> M(<<16>>), mark |-> A(<<FlagType>>),
                 base |-> Def("source", <<>>, 16, {})]
PlainNames == DOMAIN PlainLibrary \cup {"nowhere"}
Bits(n) == L("memory", <<>>) @@ [bits |-> n]
Stopped(by, on, unless, waiting) == L("stopped", <<>>) @@ [by |-> by, on |-> on, unless |-> unless, waiting |-> waiting]
Advance(on, refs) == L("opcode", refs) @@ [advance |-> on]
Retire(into, refs) == L("retire", refs) @@ [into |-> into]
Interrupt(form, inner, sources) == L("interrupt", <<>>) @@ [form |-> form, inner |-> inner, sources |-> sources]
Accept(gates, refs) == L("interrupt.accept", refs) @@ [gates |-> gates]
Timing(sources) == L("timing", <<>>) @@ [offers |-> [i \in DOMAIN sources |-> [source |-> sources[i]]]]
PlainOthers == {Bits(8), Bits(17), Timing(<<"irq">>), Timing(<<"irq", "nmi">>), Timing(<<"irq", "irq">>),
                L("notify", <<>>), L("interrupt.callback", <<>>), L("other", <<>>)}
    \cup {Stopped("latch", on, "", waiting) : on \in {"halted", "run"}, waiting \in BOOLEAN}
    \cup {Stopped("choice", "run", unless, waiting) : unless \in {"run", "m0"}, waiting \in BOOLEAN}
    \cup {Stopped("none", "", "", waiting) : waiting \in BOOLEAN}
    \cup {Advance(on, refs) : on \in {"read", "decode"}, refs \in {<<>>, <<"fetched">>, <<"restart">>}}
    \cup {Retire(into, refs) : into \in {"", "defer", "run"}, refs \in {<<>>, <<"clear">>, <<"load">>}}
Masked == [source |-> "irq", gate |-> "mask", on |-> "I", enter |-> "enter", args |-> <<20>>,
           wake |-> "clear", choice |-> "run", value |-> "wait"]
Latching == [Masked EXCEPT !.source = "nmi", !.gate = "latch", !.on = "ie", !.wake = ""]
Always == [Latching EXCEPT !.gate = "always"]
VectorEntries ==
    {<<Masked>>, <<Masked, Latching>>, <<Masked, Always>>, <<Masked, Masked>>, <<>>}
    \cup {<<Masked, e>> : e \in Changed(Always, "wake", {"clear"}) \cup Changed(Latching, "on", {"ie", "I", "run"})}
    \cup {<<e>> : e \in Changed(Masked, "on", {"T", "Ib", "ie"}) \cup Changed(Masked, "enter", PlainNames)
                        \cup Changed(Masked, "args", {<<>>, <<65536>>, <<1, 2>>}) \cup Changed(Masked, "wake", PlainNames)
                        \cup Changed(Masked, "choice", {"mode", "halted"}) \cup Changed(Masked, "value", {"run", "m0"})}
Gate(latch) == [step |-> "gate", on |-> latch]
Step(step, action) == [step |-> step, refs |-> <<action>>]
Case(value, enter) == [value |-> value, enter |-> enter]
Select(choice, cases) == [step |-> "select", choice |-> choice, cases |-> cases]
Entry(source, acknowledge, steps) == [source |-> source, acknowledge |-> acknowledge, steps |-> steps]
Direct == Entry("nmi", FALSE, <<Gate("ie"), Step("accept", "clear"), Step("enter", "load")>>)
Selected(choice, cases) == Entry("irq", TRUE, <<Step("accept", "clear"), Select(choice, cases)>>)
NamedEntries ==
    {<<Direct>>, <<Direct, Direct>>, <<>>, <<Direct, Selected("mode", <<Case("m0", "supplied"), Case("m1", "restart")>>)>>}
    \cup {<<[Direct EXCEPT !.steps = steps]>> :
            steps \in {RemoveAt(Direct.steps, i) : i \in 1..3} \cup {Reverse(Direct.steps)}
                      \cup {[Direct.steps EXCEPT ![1].on = latch] : latch \in {"halted", "run", "I"}}
                      \cup {[Direct.steps EXCEPT ![i].refs[1] = name] : i \in {2, 3}, name \in PlainNames}}
    \cup {<<Selected(choice, cases)>> : choice \in {"mode", "run", "halted"},
            cases \in {<<Case("m0", "supplied")>>, <<Case("m0", "supplied"), Case("m0", "restart")>>}
                      \cup {<<Case("m0", name), Case("m1", "restart")>> : name \in PlainNames}}
PlainLines(form) ==
    <<Bits(16), L("counter", <<"pc", "setPc">>), L("word", <<>>), L("operand", <<>>), L("failure", <<>>),
      IF form = "vectors" THEN Stopped("choice", "run", "run", TRUE) ELSE Stopped("latch", "halted", "", FALSE),
      IF form \in {"entries", "external"} THEN Advance("decode", <<"fetched">>) ELSE Advance("read", <<>>),
      L("reset", <<IF form = "vectors" THEN "load" ELSE "clear">>), Retire("", <<>>)>>
Supplied == <<Accept({"ie", "defer"}, <<"clear">>), L("interrupt.bytes", <<>>), L("interrupt.counter", <<>>),
              L("interrupt.unknown", <<>>)>>
AcceptOthers == {Accept(gates, <<"clear">>) : gates \in {{}, {"ie"}, {"I"}}} \cup {L("interrupt.callback", <<>>)}
PlainContracts ==
    {Append(lines, Interrupt("supplied", Supplied, <<>>)) : lines \in Edited(PlainLines("supplied"), PlainNames, PlainOthers)}
    \cup {Append(PlainLines("supplied"), Interrupt("supplied", inner, <<>>)) : inner \in Edited(Supplied, PlainNames, AcceptOthers)}
    \cup {Append(lines, Interrupt("external", <<>>, <<>>)) : lines \in Edited(PlainLines("external"), PlainNames, PlainOthers)}
    \cup {Append(lines, Interrupt("vectors", <<>>, <<Masked, Always>>)) : lines \in Edited(PlainLines("vectors"), PlainNames, PlainOthers)}
    \cup {Append(PlainLines("vectors"), Interrupt("vectors", <<>>, sources)) : sources \in VectorEntries}
    \cup {Append(lines, Interrupt("entries", <<>>, <<Direct>>)) : lines \in Edited(PlainLines("entries"), PlainNames, PlainOthers)}
    \cup {Append(PlainLines("entries"), Interrupt("entries", <<>>, sources)) : sources \in NamedEntries}

----------------------------------------------------------------------------
SegmentedLibrary == [address |-> Def("view", <<>>, 32, {}), pc |-> Def("view", <<>>, 16, {}),
                     setPc |-> A(<<16>>), clear |-> A(<<>>), enter |-> M(<<8>>), poll |-> Def("action", <<8>>, -1, {"test"}),
                     retire |-> A(<<FlagType, FlagType, FlagType, FlagType>>), both |-> A(<<FlagType, FlagType>>)]
SegmentedNames == DOMAIN SegmentedLibrary \cup {"nowhere"}
On(field, refs, on) == L(field, refs) @@ [on |-> on]
Segment(on, shift) == On("segment", <<>>, on) @@ [shift |-> shift]
Prefix(kind, opcode, on, value) == [kind |-> kind, opcode |-> opcode, on |-> on, value |-> value]
PrefixBytes(limit, bytes) == L("prefixes", <<>>) @@ [limit |-> limit, bytes |-> bytes]
Pending(owed, inhibited) == L("pending", <<"clear", "enter">>) @@ [owed |-> owed, inhibited |-> inhibited, source |-> "trap"]
Fault(source) == L("fault", <<"enter">>) @@ [source |-> source]
Samples(samples) == L("retire", <<"retire">>) @@ [samples |-> samples]
Offer == Entry("intr", FALSE, <<Gate("I"), Step("accept", "clear"), Step("enter", "enter")>>)
Nmi == [Offer EXCEPT !.source = "nmi", !.steps = Tail(@)]
Offers ==
    {<<Offer>>, <<Offer, Nmi>>, <<Offer, Offer>>, <<>>}
    \cup {<<[Offer EXCEPT !.steps = steps]>> :
            steps \in {RemoveAt(Offer.steps, i) : i \in 1..3} \cup {Reverse(Offer.steps)}
                      \cup {[Offer.steps EXCEPT ![1].on = gate] : gate \in {"ie", "Ib", "run"}}
                      \cup {[Offer.steps EXCEPT ![i].refs[1] = name] : i \in {2, 3}, name \in SegmentedNames}}
Offered(sources) == L("interrupt", <<>>) @@ [sources |-> sources]
SegmentedLines ==
    <<Bits(20), On("counter", <<"setPc">>, "PC"), Segment("CS", 4), L("record", <<"address">>), L("fetch", <<"clear">>),
      PrefixBytes(4, <<Prefix("segment", 38, "CS", 0), Prefix("repeat", 243, "", 1), Prefix("ignore", 240, "", 0)>>),
      On("stopped", <<>>, "halted"), On("waiting", <<"poll">>, "defer"), Pending("ie", "defer"), Fault("divide"),
      L("reset", <<"clear">>), Samples(<<"T", "ie">>), L("unsupported", <<>>), L("failure", <<>>), Offered(<<Offer, Nmi>>)>>
SegmentedOthers ==
    {Bits(16), Bits(15), Segment("A", 4), Segment("CS", 5), On("counter", <<"setPc">>, "A"), On("counter", <<"setPc">>, "CS"),
     PrefixBytes(0, <<>>), PrefixBytes(1, <<>>), PrefixBytes(1, <<Prefix("segment", 38, "A", 0)>>), PrefixBytes(1, <<Prefix("repeat", 38, "", 0)>>),
     PrefixBytes(1, <<Prefix("ignore", 38, "", 0), Prefix("repeat", 38, "", 1)>>), Pending("run", "defer"), Pending("ie", "I"),
     Fault("opcode"), Fault(""), Samples(<<"T">>), Samples(<<"T", "Ib">>), Samples(<<"T", "run">>), On("stopped", <<>>, "run"),
     Timing(<<"intr", "nmi">>), Timing(<<"intr">>), Timing(<<"intr", "intr">>), L("retire", <<"both">>) @@ [samples |-> <<>>]}
SegmentedContracts ==
    Edited(SegmentedLines, SegmentedNames, SegmentedOthers \cup {Offered(sources) : sources \in Offers})

----------------------------------------------------------------------------
WordLibrary == [pc |-> Def("view", <<>>, 32, {}), sr |-> Def("view", <<>>, 16, {}),
                flag |-> A(<<FlagType>>), word |-> A(<<16>>), retire |-> A(<<32, FlagType>>),
                address |-> Def("source", <<8, 3, 3>>, 32, {"memory", "staging"}), prepare |-> A(<<32, 8>>),
                check |-> Def("action", <<32>>, -1, {"alignment"}), frame |-> M(<<32, 16, 32>>),
                vector |-> Def("action", <<8>>, -1, {"memory", "alignment"}), complete |-> A(<<FlagType, 8>>),
                resume |-> Def("source", <<32, 8, FlagType>>, 32, {}),
                fault |-> M(<<32, 16, 32, 32, FlagType, FlagType, 8>>), code |-> Def("source", <<FlagType>>, 8, {}),
                byte |-> A(<<8>>), halt |-> A(<<>>), terminal |-> Def("source", <<>>, FlagType, {}),
                start |-> Def("source", <<>>, 32, {}), gate |-> Def("source", <<8>>, 8, {}),
                attempt |-> Def("action", <<>>, -1, {"program", "alignment"})]
WordNames == DOMAIN WordLibrary \cup {"nowhere"}
Trace(on, pending, exception) == L("trace", <<"flag">>) @@ [on |-> on, pending |-> pending, exception |-> exception]
Raises(field, exception) == L(field, <<>>) @@ [exception |-> exception]
Input(name, width) == [name |-> name, width |-> width]
Encoded(inputs) == L("inputs", <<>>) @@ [encoded |-> inputs]
Policy(name, vector, offset) == [name |-> name, vector |-> vector, offset |-> offset]
Policies(policies) == L("exceptions", <<>>) @@ [policies |-> policies]
Owned(owned) == L("interrupt", <<>>) @@ [owned |-> owned]
Levels(minimum, maximum) == L("levels", <<>>) @@ [minimum |-> minimum, maximum |-> maximum]
Reasons(reasons) == L("gate", <<"gate">>) @@ [reasons |-> reasons]
EventLines ==
    <<L("capture", <<"pc", "sr", "sr">>), L("prepare", <<"prepare">>), L("stack-check", <<"check">>),
      L("short-frame", <<"frame">>), L("vector", <<"vector">>), L("complete", <<"complete">>), L("entry-return", <<"resume">>),
      L("fault-frame", <<"fault">>), L("fault-vectors", <<>>), L("function-code", <<"code">>), L("fault-begin", <<"byte">>),
      L("halt", <<"halt">>), L("initial-fetch", <<"terminal", "start", "terminal">>), Levels(1, 7), Reasons(<<"masked">>),
      L("accept", <<"byte">>), L("acknowledge", <<"gate">>), L("interrupt-return", <<"pc">>)>>
EventOthers == {Levels(2, 1), Levels(1, 1), Reasons(<<"masked", "masked">>), Reasons(<<"masked", "busy">>)}
Events(inner) == L("events", <<>>) @@ [inner |-> inner]
WordLines ==
    <<L("counter", <<"pc">>), Bits(24), L("fetch", <<>>), L("alignment", <<>>), On("terminal", <<>>, "halted"),
      On("stopped", <<>>, "ie"), Trace("T", "defer", "trace"), L("fetched", <<"word">>), L("retire", <<"retire">>),
      L("address", <<"address">>), Raises("unknown", "illegal"), Raises("unsupported", "illegal"),
      Encoded(<<Input("size", 8), Input("mode", 3)>>), Policies(<<Policy("illegal", 4, 0), Policy("trace", 9, 0)>>), Owned(TRUE)>>
WordOthers ==
    {Bits(32), Bits(33), On("terminal", <<>>, "I"), Trace("ie", "defer", "trace"), Trace("T", "I", "trace"), Trace("T", "ie", "none"),
     Raises("unknown", "none"), Encoded(<<Input("size", 8), Input("size", 3)>>), Encoded(<<Input("size", 4)>>),
     Policies(<<Policy("illegal", 4, 0)>>), Policies(<<Policy("illegal", 250, 15), Policy("trace", 9, 0)>>),
     Policies(<<Policy("illegal", 4, 15), Policy("trace", 9, 0)>>), Policies(<<Policy("illegal", 4, 0), Policy("trace", 9, 0), Policy("trace", 9, 0)>>),
     Owned(FALSE), L("counter", <<"sr">>)}
WordContracts ==
    {Append(lines, Events(EventLines)) : lines \in Edited(WordLines, WordNames, WordOthers)}
    \cup {Append(WordLines, Events(inner)) : inner \in Edited(EventLines, WordNames, EventOthers)}
    \cup {WordLines, [WordLines EXCEPT ![15] = Owned(FALSE)]}

----------------------------------------------------------------------------
Shown(at, view) == L("snapshot", <<view>>) @@ [at |-> at]
Interfaces == {<<>>} \cup {<<Shown(at, view)>> : at \in {"pc", "halted"}, view \in {"pc", "carry", "setPc"}}
              \cup {<<Shown("pc", "pc"), Shown("pc", "pc")>>}
Resets == Edited(<<L("attempt", <<"attempt">>), L("complete", <<"flag">>)>>, WordNames, {})
Overriding == <<Input("overridden", 8), Input("segmentOverriding", 16)>>
Families == {[opcode |-> 37, inputs |-> inputs] :
               inputs \in {<<>>, Overriding, Reverse(Overriding), Overriding \o <<Input("repeatMode", 8), Input("startIP", 16)>>,
                           <<Input("mode", 3), Input("size", 8)>>}}
            \cup {[opcode |-> opcode, inputs |-> <<>>] : opcode \in {38, 300}}

Contracts(mode, all) == {[mode |-> mode, lines |-> lines] : lines \in all}
AuthoredFences == [cpu |-> {[boundary |-> boundary] : boundary \in {"plain", "segmented", "word"}},
           state |-> {[fields |-> Held]},
           definitions |-> {[defs |-> defs] : defs \in {PlainLibrary, SegmentedLibrary, WordLibrary}},
           execution |-> Contracts("plain", PlainContracts) \cup Contracts("segmented", SegmentedContracts)
                           \cup Contracts("word", WordContracts),
           reset |-> {[lines |-> lines] : lines \in Resets},
           interface |-> {[lines |-> lines] : lines \in Interfaces},
           family |-> Families]

----------------------------------------------------------------------------
(* A device: a serial port with a two-element bank, and its edits.         *)

Symbol(kind, name, field, length) == [kind |-> kind, name |-> name, field |-> field, length |-> length]
Bit(n) == [of |-> "literal", n |-> n, type |-> "flag", name |-> ""]
Argument(n) == [of |-> "input", n |-> n, type |-> "", name |-> ""]
Now(name) == [of |-> "stored", n |-> 0, type |-> "", name |-> name]
Stores(name, value) == [kind |-> "write", name |-> name, value |-> value]
Puts(name, value) == [kind |-> "element", name |-> name, value |-> value]
Only(selector) == [kind |-> "match", selector |-> selector, case |-> 0]
Ask(kind, name, arguments) == [kind |-> kind, name |-> name, arguments |-> arguments]
Guarded(condition, steps) == [kind |-> "when", condition |-> condition, steps |-> steps]
Sourced(name, inputs, type, steps, result) ==
    [kind |-> "source", name |-> name, inputs |-> inputs, type |-> type, steps |-> steps, result |-> result]
Acted(name, inputs, steps) ==
    [kind |-> "action", name |-> name, inputs |-> inputs, type |-> "none", steps |-> steps, result |-> Bit(0)]
Device(name) == [kind |-> "device", name |-> name]
Places(fields) == [kind |-> "state", body |-> fields]
SerialState == <<Symbol("register", "RX", "rx", 1), Symbol("latch", "FULL", "full", 1), Symbol("latch", "READY", "ready", 1),
          Symbol("array", "BANK", "bank", 2)>>
SerialBodies ==
    <<Sourced("status", <<>>, "flag", <<>>, Now("FULL")), Sourced("ready", <<>>, "flag", <<>>, Now("READY")),
      Acted("masterReset", <<>>, <<Stores("READY", Bit(1)), Stores("FULL", Bit(0))>>),
      Sourced("data", <<>>, "byte", <<Stores("FULL", Bit(0))>>, Now("RX")),
      Sourced("echo", <<"byte">>, "byte", <<>>, Argument(1)),
      Sourced("decode", <<"byte">>, "byte", <<Only(Argument(1)), Stores("RX", Argument(1))>>, Argument(1)),
      Acted("strobe", <<"byte">>, <<Ask("read-source", "decode", <<Argument(1)>>)>>),
      Acted("setPins", <<"byte", "flag">>, <<Stores("RX", Argument(1)), Stores("FULL", Argument(2))>>),
      Sourced("receive", <<"byte">>, "flag", <<Guarded(Now("READY"), <<Stores("RX", Argument(1)), Stores("FULL", Bit(1))>>)>>, Now("READY")),
      Sourced("configure", <<"byte">>, "flag", <<Only(Argument(1)), Ask("perform", "masterReset", <<>>)>>, Now("READY")),
      Sourced("transmit", <<"byte">>, "flag", <<Puts("BANK", Argument(1)), Stores("READY", Now("FULL"))>>, Now("FULL")),
      Sourced("poke", <<"byte", "byte">>, "flag", <<Puts("BANK", Argument(2))>>, Bit(1))>>
Serves(kind, target, address, notify) == [kind |-> kind, target |-> target, address |-> address, notify |-> notify]
SerialLines ==
    <<Serves("size", "", 2, FALSE), Serves("initialize", "masterReset", 0, FALSE), Serves("reset", "masterReset", 0, FALSE),
      Serves("validate", "ready", 0, FALSE), Serves("view", "status", 0, FALSE), Serves("input", "setPins", 0, FALSE),
      Serves("offer", "receive", 0, FALSE), Serves("read", "data", 1, FALSE),
      Serves("write", "configure", 0, FALSE), Serves("write", "transmit", 1, TRUE)>>
DeviceNames == {SerialBodies[i].name : i \in DOMAIN SerialBodies} \cup {"size"}
DeviceInterfaces ==
    {SerialLines} \cup {RemoveAt(SerialLines, i) : i \in DOMAIN SerialLines} \cup {Append(SerialLines, SerialLines[i]) : i \in DOMAIN SerialLines}
    \cup {[SerialLines EXCEPT ![i].target = name] : i \in DOMAIN SerialLines \ {1}, name \in DeviceNames}
    \cup {[SerialLines EXCEPT ![i].address = at] : i \in {1, 8, 10}, at \in {-1, 0, 2, 3}}
    \cup {Append(SerialLines, Serves("view", name, 0, FALSE)) : name \in {"echo", "decode", "data"}}
    \cup {Append(SerialLines, Serves("input", "strobe", 0, FALSE)), Append(SubSeq(SerialLines, 1, 8), Serves("write", "poke", -1, TRUE)),
          Append(RemoveAt(SerialLines, 8), Serves("read", "echo", -1, FALSE))}
Served(lines) == [kind |-> "interface", lines |-> lines]
Serial == <<Device("serial"), Places(SerialState)>> \o SerialBodies \o <<Served(SerialLines)>>
Swapped(s, i) == [s EXCEPT ![i] = s[i + 1], ![i + 1] = s[i]]
OtherStates == {Append(SerialState, Symbol("latch", "RX", "other", 1)), Append(SerialState, Symbol("latch", "ANY", "rx", 1)),
           [SerialState EXCEPT ![4].length = 0], [SerialState EXCEPT ![2].kind = "flag"]}
OddBodies == {Sourced("odd", <<>>, "flag", <<>>, Now("RX")), Sourced("odd", <<>>, "byte", <<Stores("BANK", Bit(1))>>, Now("RX")),
            Acted("odd", <<>>, <<[kind |-> "fetch"]>>), Acted("odd", <<>>, <<Ask("perform", "odd", <<>>)>>),
            Acted("odd", <<"byte">>, <<Ask("perform", "setPins", <<Argument(1), Argument(1)>>)>>),
            Sourced("ready", <<>>, "flag", <<>>, Now("FULL"))}
DeviceChapters ==
    {[Serial EXCEPT ![Len(Serial)] = Served(lines)] : lines \in DeviceInterfaces}
    \cup {RemoveAt(Serial, i) : i \in DOMAIN Serial} \cup {Append(Serial, Serial[i]) : i \in DOMAIN Serial}
    \cup {Swapped(Serial, i) : i \in 1 .. Len(Serial) - 1}
    \cup {[Serial EXCEPT ![2] = Places(fields)] : fields \in OtherStates} \cup {[Serial EXCEPT ![1] = Device("rom")]}
    \cup {InsertAt(Serial, 15, odd) : odd \in OddBodies}
===============================================================================
