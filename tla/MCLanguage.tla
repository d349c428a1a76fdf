------------------------------ MODULE MCLanguage ------------------------------
(* The instruction language for TLC: a behaviour builds expressions, or          *)
(* statements, or opcode pages, or bodies for the slots of an execution contract, *)
(* or the contracts of a chapter, or the declarations of a machine.              *)
EXTENDS SemanticExpressions

CONSTANTS Connections, Kinds, MaxSteps, MaxDeclarations, MaxRead, Highest
VARIABLES part,                                              \* which of the seven
          definition, captured, method, machine,             \* SemanticStatements
          pages, entries, declared, phase, added, reading,   \* OpcodeDecoding
          role, body,                                        \* ChapterEffects
          tables,                                            \* ChapterContracts
          chapter, count,                                    \* MachineComposition
          rest, device, held, call                          \* DeviceLanguage

-----------------------------------------------------------------------------
(* The statements definitions are built from: every kind, in forms the validator *)
(* accepts and in forms it must refuse.                                          *)
Given == [p |-> "byte", f |-> "flag"]
OnlyP == [p |-> "byte"]
V(name) == [name |-> name, type |-> "none", n |-> 0]
L(type, n) == [name |-> "literal", type |-> type, n |-> n]
CaptureAs(name, value, type) == [kind |-> "capture", name |-> name, value |-> value, type |-> type]
ReadOf(name, what, operands) == [kind |-> "read", name |-> name, what |-> what, operands |-> operands]
WriteTo(what, operands) == [kind |-> "write", what |-> what, operands |-> operands]
Element(name, index) == [kind |-> "read-element", name |-> name, index |-> index]
Reject(reason) == [kind |-> "reject", reason |-> reason]
Yield(steps, result) == [steps |-> steps, result |-> result]
Case(mask, value, steps, result) == [mask |-> mask, value |-> value, steps |-> steps, result |-> result]
Match(name, type, cases) ==
    [kind |-> "match", name |-> name, selector |-> V("p"), type |-> type, cases |-> cases]
Source(name, steps, type, result) ==
    [kind |-> "read-source", name |-> name, steps |-> steps, type |-> type, result |-> result,
     inputs |-> OnlyP, arguments |-> [p |-> V("p")]]
Perform(steps, inputs, arguments) ==
    [kind |-> "perform", steps |-> steps, inputs |-> inputs, arguments |-> arguments]
FlagUpdates(updates, replace) ==
    [kind |-> "flags", updates |-> updates, replace |-> replace,
     parameters |-> [q |-> "flag"], arguments |-> [q |-> V("f")]]
Loop(values, steps, times) == [kind |-> "iterate", values |-> values, steps |-> steps, count |-> times]
Carried(type, initial, next) == [type |-> type, initial |-> initial, next |-> next]

Decode == Match("d", "byte", <<Case(3, 0, <<>>, L("byte", 1)),
                              Case(2, 2, <<ReadOf("m", "fetch-byte", <<>>)>>, V("m"))>>)
StatementSteps ==
    {CaptureAs("x", L("flag", 1), "flag"), CaptureAs("y", V("x"), "byte"), CaptureAs("y", V("x"), "flag"),
     CaptureAs("z", V("t"), "byte"), CaptureAs("x", V("p"), "byte"), CaptureAs("u", V("m"), "byte"),
     ReadOf("x", "flag", <<>>), ReadOf("x", "a", <<>>), ReadOf("t", "pending", <<>>),
     ReadOf("t", "read-memory", <<L("word", 7)>>), ReadOf("t", "read-port", <<V("p")>>),
     ReadOf("x", "read-test", <<>>), ReadOf("n", "read-next-address", <<>>),
     WriteTo("a", <<V("p")>>), WriteTo("a", <<L("word", 9)>>), WriteTo("w", <<V("p")>>), WriteTo("w", <<V("n")>>),
     WriteTo("stage", <<V("x")>>), WriteTo("write-memory", <<L("word", 1), V("p")>>),
     WriteTo("report-clocks", <<L("word", 4)>>), WriteTo("report-interrupt", <<V("p")>>),
     WriteTo("notify-reti", <<>>), WriteTo("reset-devices", <<>>), WriteTo("defer-interrupt", <<>>),
     WriteTo("select-target", <<V("n")>>), WriteTo("commit-updates", <<>>),
     WriteTo("write-port", <<L("word", 2), V("x")>>),
     Element("e", V("p")), Element("e", L("byte", 2)), Element("e", L("byte", 3)),
     Reject("unsupported-form"),
     [kind |-> "when", condition |-> V("f"), steps |-> <<ReadOf("t", "fetch-byte", <<>>)>>],
     [kind |-> "when", condition |-> V("x"), steps |-> <<Reject("trap")>>],
     [kind |-> "choose", name |-> "t", condition |-> V("f"), type |-> "byte",
      yes |-> Yield(<<ReadOf("m", "a", <<>>)>>, V("m")), no |-> Yield(<<>>, V("p"))],
     [kind |-> "choose", name |-> "t", condition |-> V("f"), type |-> "byte",
      yes |-> Yield(<<ReadOf("m", "a", <<>>)>>, V("m")), no |-> Yield(<<>>, V("m"))],
     Decode,
     Match("t", "byte", <<Case(1, 1, <<>>, V("p")), Case(2, 2, <<>>, L("byte", 0))>>),
     Perform(<<Decode, WriteTo("a", <<V("d")>>)>>, OnlyP, [p |-> V("p")]),
     Perform(<<Reject("inside")>>, OnlyP, [p |-> V("p")]),
     Perform(<<WriteTo("a", <<V("x")>>)>>, OnlyP, [p |-> V("p")]),
     Perform(<<WriteTo("a", <<V("x")>>)>>, [x |-> "byte"], [x |-> V("p")]),
     Source("t", <<Decode, ReadOf("m", "read-port", <<L("word", 3)>>)>>, "byte", V("d")),
     Source("t", <<>>, "byte", V("t")),
     Loop([x |-> Carried("byte", V("p"), V("y")), y |-> Carried("byte", L("byte", 1), V("x"))], <<>>, V("p")),
     Loop([y |-> Carried("byte", V("p"), V("m"))], <<ReadOf("m", "fetch-byte", <<>>)>>, L("byte", 2)),
     Loop([y |-> Carried("byte", V("p"), V("x"))], <<>>, L("byte", 1)),
     [kind |-> "divide", dividend |-> L("word", 9), divisor |-> V("p"), quotient |-> "x",
      remainder |-> "y", onError |-> "divide-error"],
     FlagUpdates([c |-> V("q")], FALSE), FlagUpdates([c |-> V("q")], TRUE),
     FlagUpdates([c |-> V("q"), z |-> L("flag", 0)], TRUE), FlagUpdates([c |-> V("x")], FALSE)}

-----------------------------------------------------------------------------
(* Pages and encodings, with two-bit bytes: a root page, a page nested on it, one *)
(* that captures an operand, and families that fit, collide and overlap.         *)
Bits == 2
P(name, prefix, on, operands, fetch) ==
    [name |-> name, prefix |-> prefix, on |-> on, operands |-> operands, fetch |-> fetch]
Pages == {P("cb", 2, "root", 0, TRUE), P("dd", 1, "root", 0, TRUE),
          P("ddcb", 2, "dd", 1, FALSE), P("ed", 2, "root", 1, TRUE), P("edx", 1, "ed", 0, TRUE),
          P("ddx", 3, "dd", 0, TRUE), P("deep", 1, "ddx", 0, TRUE)}
Form(family, pattern, page, choices, view, except) ==
    [family |-> family, pattern |-> pattern, page |-> page, choices |-> choices,
     view |-> view, except |-> except]
Forms == {Form("nop", <<"0", "0">>, "root", <<>>, "operand", {}),
          Form("load", <<"1", "r">>, "root", <<"register", "memory">>, "operand", {}),
          Form("any", <<"x", "1">>, "root", <<>>, "operand", {1}),
          Form("lea", <<"0", "r">>, "dd", <<"register", "memory">>, "address", {}),
          Form("bit", <<"r", "r">>, "ddcb", <<"register", "memory", "unsupported", "value">>, "operand", {}),
          Form("shift", <<"x", "0">>, "cb", <<>>, "operand", {}),
          Form("fixed", <<"1", "0">>, "dd", <<>>, "operand", {}),
          Form("misfit", <<"r", "0">>, "ed", <<"register", "memory">>, "read", {})}
Additional == {<<"dd", 2>>, <<"dd", 3>>, <<"cb", 0>>}

-----------------------------------------------------------------------------
(* Three CPUs with four bytes of memory and one with two, four kinds of device,  *)
(* and the declarations sources are made of.                                     *)
Model(size, pc, mapped, byteBus, ports, vectors, resets, state) ==
    [size |-> size, maximumPc |-> pc, mapped |-> mapped, byteBus |-> byteBus, ports |-> ports,
     vectors |-> vectors, resetDevices |-> resets, state |-> state]
Octet(maximum) == [kind |-> "unsigned", maximum |-> maximum]
Small == [pc |-> Octet(1)]
Wide == [pc |-> Octet(3), z |-> [kind |-> "flag"], halted |-> [kind |-> "boolean"],
         mode |-> [kind |-> "choice", values |-> {0, 2}], wait |-> [kind |-> "named-choice", values |-> {"no", "yes"}],
         banks |-> [kind |-> "array", length |-> 2, element |-> Octet(1)]]
CpuModels == [p6502 |-> Model(4, 3, TRUE, TRUE, -1, TRUE, FALSE, Wide),
              p8080 |-> Model(4, 3, TRUE, TRUE, 1, FALSE, FALSE, Small),
              p68000 |-> Model(4, -1, TRUE, FALSE, -1, FALSE, TRUE, Small),
              p8008 |-> Model(2, 1, FALSE, FALSE, -1, FALSE, FALSE, Small)]
DeviceModel(size, reads, writes, selectors, clocked) ==
    [size |-> size, reads |-> reads, writes |-> writes, selectors |-> selectors, clocked |-> clocked]
DeviceModels == [input |-> DeviceModel(2, {0, 1}, {}, {}, FALSE), output |-> DeviceModel(1, {}, {0}, {}, FALSE),
                 card |-> DeviceModel(1, {0}, {0}, {"lower", "open"}, FALSE), disk |-> DeviceModel(2, {0}, {0, 1}, {}, TRUE)]

Token(text, number) == [text |-> text, number |-> number]
Entry(name, tokens) == [name |-> name, tokens |-> tokens]
Figure(n) == Token("number", n)
Part(name, kind, size) == [name |-> name, kind |-> kind, size |-> size]
All(mode, bank) == <<Entry("wait", <<Token("yes", -1)>>), Entry("pc", <<Figure(3)>>), Entry("z", <<Figure(1)>>),
    Entry("mode", <<Figure(mode)>>), Entry("banks", <<Figure(0), Figure(bank)>>), Entry("halted", <<Token("false", -1)>>)>>
Unused == [size |-> 0, read |-> <<>>, write |-> <<>>]
Region(start, component) == [start |-> start, component |-> component, window |-> Unused]
Route(to, offset, when) == [to |-> to, offset |-> offset, when |-> when]
Window(start, size, read, write) ==
    [start |-> start, component |-> "window", window |-> [size |-> size, read |-> read, write |-> write]]
Card(view) == [component |-> "card", view |-> view]
Lower == <<Route("bank", 0, {Card("lower")}), Route("bank", 2, {})>>
Protected == <<Route("bank", 2, {Card("open"), Card("lower")}), Route("discard", 0, {})>>
Map(unmapped, regions) == [size |-> 4, unmapped |-> unmapped, regions |-> regions]
Binding(direction, port, component, address) ==
    [direction |-> direction, port |-> port, component |-> component, address |-> address]

Sources == [
    components |-> {<<Part("ram", "ram", 4)>>, <<Part("ram", "ram", 4), Part("keys", "input", 0), Part("tape", "output", 0)>>,
                    <<Part("low", "ram", 2), Part("rom", "rom", 2), Part("disk", "disk", 0)>>,
                    <<Part("bank", "ram", 4), Part("card", "card", 0)>>,
                    <<Part("clock", "ram", 4)>>, <<Part("ram", "ram", 4), Part("ram", "rom", 2)>>, <<Part("ram", "ram", 0)>>},
    map |-> {Map(<<7>>, <<Region(1, "ram")>>)}
            \cup {Map(u, <<Region(2, "rom"), Region(0, "low")>>) : u \in {<<>>, <<7>>, <<7, 7>>}}
            \cup {Map(u, <<Region(1, "low"), Region(2, "disk")>>) : u \in {<<7>>}}
            \cup {Map(<<7>>, <<Window(2, size, Lower, Protected)>>) : size \in {1, 2, 3}}
            \cup {Map(<<7>>, <<Window(2, 2, <<Route("bank", 0, {Card("lower")})>>, Protected)>>),
                  Map(<<7>>, <<Window(2, 2, <<Route("bank", 0, {Card("shut")}), Route("bank", 2, {})>>, Protected)>>),
                  Map(<<7>>, <<Window(2, 2, Protected, Lower)>>), Map(<<>>, <<Window(2, 2, Lower, Lower)>>),
                  Map(<<7>>, <<Window(0, 3, <<Route("rom", 1, {})>>, <<Route("rom", 0, {})>>)>>),
                  Map(<<7>>, <<Window(0, 2, <<Route("rom", 0, {})>>, <<Route("rom", 0, {})>>), Region(2, "low")>>)},
    memory |-> {"ram", "low"},
    ports |-> {[unmapped |-> <<5>>, bindings |-> b] :
                b \in {<<Binding("in", 0, "keys", 1), Binding("out", 0, "tape", 0)>>,
                       <<Binding("in", 0, "keys", 1), Binding("in", 0, "keys", 0)>>,
                       <<Binding("in", 2, "keys", 1)>>, <<Binding("out", 1, "keys", 0)>>, <<>>}},
    reset |-> {<<"cpu">>, <<"cpu", "disk">>, <<"disk">>, <<"disk", "cpu">>, <<"cpu", "card", "card">>, <<"cpu", "rom">>},
    resetDevices |-> {<<"disk">>, <<"rom">>},
    clock |-> {<<>>, <<"disk">>, <<"card">>},
    images |-> {[component |-> c, address |-> 1, length |-> n] : c \in {"rom", "low"}, n \in {0, 1, 2}}
               \cup {[component |-> "card", address |-> 0, length |-> 1]},
    externals |-> {"rom", "low"},
    states |-> {<<Entry("pc", <<Figure(n)>>)>> : n \in 1..2} \cup {All(m, b) : m \in 1..2, b \in 1..2}
               \cup {<<Entry("pc", <<Figure(1)>>), Entry("pc", <<Figure(1)>>)>>, <<>>},
    ram |-> {2, 3, 4},
    blocks |-> {[address |-> a, length |-> n] : a \in {1, 3}, n \in {0, 1, 2}},
    end |-> {1, 4}]

-----------------------------------------------------------------------------
Statements == INSTANCE SemanticStatements WITH Inputs <- Given, Steps <- StatementSteps
Decoding == INSTANCE OpcodeDecoding
Authored == INSTANCE MCChapters
Fences == Authored!AuthoredFences
Contracts == INSTANCE ChapterContracts
Devices == INSTANCE DeviceLanguage WITH Chapters <- Authored!DeviceChapters, chapter <- device, state <- held
Machine == INSTANCE MachineComposition
statements == <<definition, captured, method, machine>>
decoding == <<pages, entries, declared, phase, added, reading>>
effects == <<role, body>>
source == <<chapter, count>>
class == <<rest, device, held, call>>

MCInit == /\ part \in {"expressions", "statements", "opcodes", "effects", "contracts", "machine", "device"}
          /\ Init /\ Statements!Init /\ Decoding!Init /\ Authored!Init /\ Contracts!Init /\ Machine!Init
          /\ part = "effects" \/ role = CHOOSE any \in Authored!Roles : TRUE
          /\ IF part = "device" THEN Devices!Init
             ELSE rest = <<>> /\ device = Devices!Unread /\ held = Devices!None /\ call = Devices!NoCall
MCNext == \/ part = "expressions" /\ Next /\ UNCHANGED <<part, tables, statements, decoding, effects, source, class>>
          \/ part = "statements" /\ Statements!Next /\ UNCHANGED <<part, tables, vars, decoding, effects, source, class>>
          \/ part = "opcodes" /\ Decoding!Next /\ UNCHANGED <<part, tables, vars, statements, effects, source, class>>
          \/ part = "effects" /\ Authored!Next /\ UNCHANGED <<part, tables, vars, statements, decoding, source, class>>
          \/ part = "contracts" /\ Contracts!Next /\ UNCHANGED <<part, vars, statements, decoding, effects, source, class>>
          \/ part = "machine" /\ Machine!Next /\ UNCHANGED <<part, tables, vars, statements, decoding, effects, class>>
          \/ part = "device" /\ Devices!Next /\ UNCHANGED <<part, tables, vars, statements, decoding, effects, source>>
MCSpec == MCInit /\ [][MCNext]_<<part, tables, vars, statements, decoding, effects, source, class>>

\* What the validator accepts, the generated method can run.
AcceptedIsSafe == Statements!AcceptedIsSafe
\* What the chapters declare, the generated decoder reads.
DecodingIsDeclared == Decoding!DecodingIsDeclared
\* What the compiler accepts as a contract, or as a body of one, its boundary serves.
ContractIsServed == Contracts!ContractIsServed /\ Authored!BoundaryServes
\* A machine the parser accepts is one that can be built, answers every transfer and every call
\* of its ports, resets, clocks and windows, and a device it names is what its chapter says.
MachineIsWired == Machine!MachineIsWired /\ Devices!DeviceIsSound
\* docs/devices/literate-specifications.md: host values are checked before any declared effect,
\* a view and a refused call change nothing, and the callback hears of accepted writes only.
DeviceServes == [][part = "device" => Devices!DeviceServes]_<<part, class>>
===============================================================================
