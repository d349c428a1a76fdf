--------------------------- MODULE MachineComposition ---------------------------
(***************************************************************************)
(* The machine language (machines/machine-language, machines/language and  *)
(* scripts/compile-composition): declarations in any order name memories   *)
(* and devices and connect them to a CPU.  The parser checks each as it    *)
(* reads it and the whole at the end; the compiler then emits the          *)
(* construction of the machine, whose parts check what they are given.     *)
(*                                                                         *)
(* A declaration with an error ends the parse and has no successor.  An    *)
(* optional declaration is a sequence of none or one.                      *)
(***************************************************************************)
EXTENDS Integers, SequencesExt

CONSTANTS
    CpuModels,      \* model -> size, maximumPc, mapped, byteBus, ports, vectors, resetDevices, state
    DeviceModels,   \* kind -> size, reads, writes, selectors, clocked
    Sources,        \* for each keyword, the declarations a source may have
    MaxRead         \* bound on the declarations of a source

VARIABLES chapter, count
vars == <<chapter, count>>

Absent == -1        \* no maximumPc, no ports
Declared(keyword) == chapter[keyword] # <<>>
The(keyword) == chapter[keyword][1]
NoRepeats(list) == Cardinality(ToSet(list)) = Len(list)

----------------------------------------------------------------------------
(* Reading.                                                                *)

Empty == [components |-> <<>>, map |-> <<>>, memory |-> <<>>, ports |-> <<>>, reset |-> <<>>,
          resetDevices |-> <<>>, clock |-> <<>>, images |-> <<>>, externals |-> <<>>,
          cpu |-> <<>>, ram |-> <<>>, blocks |-> <<>>, end |-> <<>>]
Init == chapter = Empty /\ count = 0
Read(keyword, list) ==
    /\ count' = count + 1
    /\ chapter' = [chapter EXCEPT ![keyword] = list]
Once(keyword, declaration) == ~Declared(keyword) /\ Read(keyword, <<declaration>>)
Also(keyword, declaration) == Read(keyword, Append(chapter[keyword], declaration))

Reserved == {"cpu", "memory", "ports", "reset", "snapshot", "window", "discard", "clock", "step", "interrupt"}
Names(block) == [i \in DOMAIN block |-> block[i].name]
ReadComponents(block) ==
    /\ \A i \in DOMAIN block :
          /\ block[i].name \notin Reserved
          /\ block[i].kind \in {"ram", "rom"} => block[i].size > 0
    /\ NoRepeats(Names(block))
    /\ Once("components", block)

\* In each direction of a window an unconditional route comes last, and there is one.
Routes(window, direction) == IF direction = "read" THEN window.read ELSE window.write
WindowReads(window) ==
    /\ window.size > 0
    /\ \A direction \in {"read", "write"} :
          LET routes == Routes(window, direction)
          IN  routes # <<>> /\ \A i \in DOMAIN routes : (routes[i].when = {}) <=> (i = Len(routes))
    /\ \A i \in DOMAIN window.read : window.read[i].to # "discard"
IsWindow(region) == region.component = "window"
ReadMap(block) ==
    /\ Len(block.unmapped) <= 1
    /\ \A i \in DOMAIN block.regions : IsWindow(block.regions[i]) => WindowReads(block.regions[i].window)
    /\ Once("map", block)

ReadPorts(block) ==
    /\ Len(block.unmapped) <= 1
    /\ NoRepeats([i \in DOMAIN block.bindings |-> <<block.bindings[i].direction, block.bindings[i].port>>])
    /\ Once("ports", block)
ReadTargets(keyword, targets) == NoRepeats(targets) /\ Once(keyword, targets)
ReadImage(image) == Also("images", image)
ReadExternal(component) == component \notin ToSet(chapter.externals) /\ Also("externals", component)

\* The CPU's state: every field once, each spelt for its kind.
Spelt(field, token) ==
    CASE field.kind = "named-choice" -> token.text \in field.values
      [] field.kind = "boolean" -> token.text \in {"true", "false"}
      [] field.kind = "flag" -> token.number \in 0..1
      [] field.kind = "choice" -> token.number \in field.values
      [] field.kind = "unsigned" -> token.number \in 0..field.maximum
StateValue(field, token) ==
    CASE field.kind = "named-choice" -> [type |-> "string", value |-> token.text]
      [] field.kind = "boolean" -> [type |-> "boolean", value |-> token.text = "true"]
      [] field.kind = "flag" -> [type |-> "boolean", value |-> token.number = 1]
      [] OTHER -> [type |-> "number", value |-> token.number]
SpeltField(field, tokens) ==
    IF field.kind = "array"
    THEN Len(tokens) = field.length /\ \A i \in DOMAIN tokens : tokens[i].number \in 0..field.element.maximum
    ELSE Len(tokens) = 1 /\ Spelt(field, tokens[1])
FieldValue(field, tokens) ==
    IF field.kind = "array"
    THEN [type |-> "array", value |-> [i \in DOMAIN tokens |-> StateValue(field.element, tokens[i])]]
    ELSE StateValue(field, tokens[1])
ReadCpu(model, entries) ==
    LET fields == CpuModels[model].state
    IN  /\ NoRepeats(Names(entries)) /\ ToSet(Names(entries)) = DOMAIN fields
        /\ \A i \in DOMAIN entries : SpeltField(fields[entries[i].name], entries[i].tokens)
        /\ Once("cpu", [model |-> model,
                        state |-> [name \in DOMAIN fields |->
                            LET i == CHOOSE j \in DOMAIN entries : entries[j].name = name
                            IN  FieldValue(fields[name], entries[i].tokens)]])

RamSizes == {CpuModels[model].size : model \in DOMAIN CpuModels}
MaximumRam == CHOOSE size \in RamSizes : \A other \in RamSizes : other <= size
ReadRam(size) == size \in RamSizes /\ Once("ram", size)
\* A block may precede the RAM it fills.
ReadBlock(block) ==
    /\ block.address < MaximumRam
    /\ block.length > 0 => block.address + block.length <= (IF Declared("ram") THEN The("ram") ELSE MaximumRam)
    /\ Also("blocks", block)

----------------------------------------------------------------------------
(* The checks at the end of the source.                                    *)

Components == IF Declared("components") THEN The("components") ELSE <<>>
IsComponent(name) == name \in ToSet(Names(Components))
Component(name) == CHOOSE component \in ToSet(Components) : component.name = name
Kind(name) == Component(name).kind
IsDevice(name) == IsComponent(name) /\ Kind(name) \in DOMAIN DeviceModels
Device(name) == DeviceModels[Kind(name)]
Size(name) == IF IsDevice(name) THEN Device(name).size ELSE Component(name).size

ComponentsFit ==
    /\ Components # <<>>
    /\ \A name \in ToSet(chapter.externals) :
          IsComponent(name) /\ Kind(name) = "rom" /\ \A i \in DOMAIN chapter.images : chapter.images[i].component # name
    /\ \A i \in DOMAIN chapter.images :
          LET image == chapter.images[i]
          IN  /\ IsComponent(image.component) /\ ~IsDevice(image.component)
              /\ image.address < Size(image.component)
              /\ image.length <= Size(image.component) - image.address

Cpu == CpuModels[The("cpu").model]
Length(region) == IF IsWindow(region) THEN region.window.size ELSE Size(region.component)

\* A bug: only the start of a window is checked against its target.
WindowStarts(window) ==
    \A direction \in {"read", "write"} : \A i \in DOMAIN Routes(window, direction) :
        LET route == Routes(window, direction)[i]
        IN  /\ route.to # "discard" => IsComponent(route.to) /\ route.offset < Size(route.to)
            /\ \A condition \in route.when :
                  IsDevice(condition.component) /\ condition.view \in Device(condition.component).selectors
WindowFits(window) ==
    \A direction \in {"read", "write"} : \A i \in DOMAIN Routes(window, direction) :
        LET route == Routes(window, direction)[i]
        IN  /\ route.to # "discard" => IsComponent(route.to) /\ route.offset + window.size <= Size(route.to)
            /\ \A condition \in route.when :
                  IsDevice(condition.component) /\ condition.view \in Device(condition.component).selectors

\* Sorted by their starts, each region ends before the next one starts.
Apart(regions) ==
    \A i, j \in DOMAIN regions :
        i # j => \/ regions[i].start + Length(regions[i]) <= regions[j].start
                 \/ regions[j].start + Length(regions[j]) <= regions[i].start
MapFits(map) ==
    /\ Cpu.mapped /\ (Cpu.byteBus <=> map.unmapped # <<>>)
    /\ map.size = Cpu.size
    /\ \A i \in DOMAIN map.regions :
          LET region == map.regions[i]
          IN  /\ IF IsWindow(region) THEN WindowFits(region.window) ELSE IsComponent(region.component)
              /\ region.start + Length(region) <= map.size
    /\ Apart(map.regions)
ConnectionFits ==
    IF Declared("memory")
    THEN /\ ~Declared("map")
         /\ IsComponent(The("memory")) /\ Kind(The("memory")) = "ram" /\ Size(The("memory")) = Cpu.size
    ELSE Declared("map") /\ MapFits(The("map"))

Supported(binding) ==
    IF binding.direction = "in" THEN Device(binding.component).reads ELSE Device(binding.component).writes
PortsFit ==
    Declared("ports") =>
        /\ Cpu.ports # Absent
        /\ \A i \in DOMAIN The("ports").bindings :
              LET binding == The("ports").bindings[i]
              IN  /\ binding.port <= Cpu.ports
                  /\ IsDevice(binding.component)
                  /\ binding.address < Size(binding.component)
                  /\ binding.address \in Supported(binding)
ResetsFit ==
    /\ Declared("resetDevices") =>
          Cpu.resetDevices /\ \A i \in DOMAIN The("resetDevices") : IsDevice(The("resetDevices")[i])
    /\ Declared("reset") =>
          /\ The("reset") # <<>> /\ Head(The("reset")) = "cpu"
          /\ \A i \in 2..Len(The("reset")) : IsDevice(The("reset")[i])
ClockFits ==
    Declared("clock") =>
        Cpu.vectors /\ \A i \in DOMAIN The("clock") : IsDevice(The("clock")[i]) /\ Device(The("clock")[i]).clocked

FlatFits ==
    /\ Declared("ram") /\ The("ram") = Cpu.size
    /\ \A i \in DOMAIN chapter.blocks :
          chapter.blocks[i].address < Cpu.size
          /\ (chapter.blocks[i].length > 0 => chapter.blocks[i].address + chapter.blocks[i].length <= Cpu.size)
EndFits == Declared("end") => Declared("cpu") /\ Cpu.maximumPc # Absent /\ The("end") <= Cpu.maximumPc

Wiring == {"map", "memory", "ports", "reset", "resetDevices", "clock"}
Present == \E keyword \in Wiring \cup {"components", "images", "externals"} : Declared(keyword)
Accepted ==
    /\ EndFits
    /\ Present => ~Declared("ram") /\ chapter.blocks = <<>>
    /\ IF ~Declared("cpu") THEN Present /\ ComponentsFit /\ \A keyword \in Wiring : ~Declared(keyword)
       ELSE IF Present THEN ComponentsFit /\ ClockFits /\ ConnectionFits /\ PortsFit /\ ResetsFit
       ELSE FlatFits

----------------------------------------------------------------------------
(* The machine that is emitted, at the moment it is used.                  *)

\* MemoryMap: the first region of the sorted ones that holds the address.
Holding(address) ==
    {region \in ToSet(The("map").regions) : region.start <= address /\ address < region.start + Length(region)}
RegionAt(address) == CHOOSE region \in Holding(address) : \A other \in Holding(address) : region.start <= other.start

\* The emitted window: the first route whose views, those in on, all answer true.
Taken(routes, on) == routes[CHOOSE i \in DOMAIN routes : routes[i].when \subseteq on
                                                         /\ \A j \in 1..(i - 1) : ~(routes[j].when \subseteq on)]
Nowhere == [to |-> "nowhere", at |-> 0]
Transfer(direction, address, on) ==
    IF Declared("memory") THEN [to |-> The("memory"), at |-> address]
    ELSE IF Holding(address) = {} THEN Nowhere
    ELSE LET region == RegionAt(address)
             local == address - region.start
         IN  IF ~IsWindow(region) THEN [to |-> region.component, at |-> local]
             ELSE LET route == Taken(Routes(region.window, direction), on)
                  IN  [to |-> route.to, at |-> local + route.offset]

\* ROM refuses writes and an absent ROM reads; a device answers what it answers.
BusErrors(direction, transfer) ==
    \/ transfer.to = "nowhere"
    \/ transfer.to # "discard" /\ Kind(transfer.to) = "rom" /\ (direction = "write" \/ transfer.to \in ToSet(chapter.externals))

\* The calls of its parts, under the one name each method has: a port is served by the first case
\* of its direction's switch that names it, a reset list is followed after its first name, and
\* every timed step tells each clocked part its clocks.
Call(name, method, register) == [part |-> name, method |-> method, register |-> register]
Bindings == IF Declared("ports") THEN The("ports").bindings ELSE <<>>
Cases(direction, port) ==
    SelectSeq(Bindings, LAMBDA binding : binding.direction = direction /\ binding.port = port)
Served == {Head(Cases(direction, port)) : <<direction, port>> \in
              {<<d, p>> \in {"in", "out"} \X (0..Cpu.ports) : Cases(d, p) # <<>>}}
PortCalls == {Call(binding.component, IF binding.direction = "in" THEN "read" ELSE "write", binding.address) :
                 binding \in Served}
Targets(keyword) ==
    IF ~Declared(keyword) THEN <<>> ELSE IF keyword = "reset" THEN Tail(The(keyword)) ELSE The(keyword)
ResetCalls == {Call(name, "reset", 0) : name \in ToSet(Targets("reset")) \cup ToSet(Targets("resetDevices"))}
ClockCalls == {Call(name, "advanceCpuClocks", 0) : name \in ToSet(Targets("clock"))}
ViewCalls ==
    {Call(condition.component, condition.view, 0) : condition \in
        UNION {route.when : route \in UNION {ToSet(region.window.read) \cup ToSet(region.window.write) :
            region \in IF Declared("map") THEN ToSet(The("map").regions) ELSE {}}}}

\* The CPU is handed its ports or its devices to reset, the ports when a source has both.
Handed == IF Declared("ports") THEN {"ports"} ELSE IF Declared("resetDevices") THEN {"resetDevices"} ELSE {}
Accepts(keyword) == IF keyword = "ports" THEN Cpu.ports # Absent ELSE Cpu.resetDevices

\* The methods the class of a device has, and the registers they answer.
Answers(call) ==
    /\ IsDevice(call.part)
    /\ CASE call.method = "read" -> call.register \in Device(call.part).reads
         [] call.method = "write" -> call.register \in Device(call.part).writes
         [] call.method = "reset" -> TRUE
         [] call.method = "advanceCpuClocks" -> Device(call.part).clocked
         [] OTHER -> call.method \in Device(call.part).selectors

\* The fields a snapshot has, in the order of the literal, and those a restore demands.
Stateful(component) == component.kind # "rom" \/ component.name \in ToSet(chapter.externals)
StatefulNames == Names(SelectSeq(Components, Stateful))
If(condition, names) == IF condition THEN names ELSE <<>>
Saved == If(Declared("cpu"), <<"cpu">>) \o StatefulNames \o If(Declared("cpu") /\ Declared("clock"), <<"clock">>)
Demanded == If(Declared("cpu"), <<"cpu">>) \o If(Declared("cpu") /\ Declared("clock"), <<"clock">>) \o StatefulNames
Returned == If(Declared("cpu"), <<"cpu">>) \o Names(Components)
            \o If(Declared("clock"), <<"clock", "step", "interrupt">>) \o If(Declared("map"), <<"memory">>)
            \o If(Declared("ports"), <<"ports">>) \o If(Declared("reset"), <<"reset">>)
            \o If(Declared("end"), <<"endAddress">>) \o <<"snapshot">>

\* The constructor of the CPU copies its state, checking every field again.
Copies(field, value) ==
    CASE field.kind \in {"flag", "boolean"} -> value.type = "boolean"
      [] field.kind = "named-choice" -> value.type = "string" /\ value.value \in field.values
      [] field.kind = "choice" -> value.type = "number" /\ value.value \in field.values
      [] field.kind = "unsigned" -> value.type = "number" /\ value.value \in 0..field.maximum
CopiesField(field, value) ==
    IF field.kind = "array"
    THEN value.type = "array" /\ Len(value.value) = field.length
         /\ \A i \in DOMAIN value.value : Copies(field.element, value.value[i])
    ELSE Copies(field, value)

\* Stores of the images, or of the blocks of a flat machine, in order.
Stores == [i \in DOMAIN chapter.images |-> [last |-> chapter.images[i].address + chapter.images[i].length - 1,
                                            within |-> Size(chapter.images[i].component)]]
          \o [i \in DOMAIN chapter.blocks |-> [last |-> chapter.blocks[i].address + chapter.blocks[i].length - 1,
                                               within |-> The("ram")]]

----------------------------------------------------------------------------
NextSource == count > 0 /\ chapter' = Empty /\ count' = 0
ReadDeclaration ==
    \/ \E block \in Sources.components : ReadComponents(block)
    \/ \E block \in Sources.map : ReadMap(block)
    \/ \E component \in Sources.memory : Once("memory", component)
    \/ \E block \in Sources.ports : ReadPorts(block)
    \/ \E targets \in Sources.reset : ReadTargets("reset", targets)
    \/ \E targets \in Sources.resetDevices : ReadTargets("resetDevices", targets)
    \/ \E targets \in Sources.clock : ReadTargets("clock", targets)
    \/ \E image \in Sources.images : ReadImage(image)
    \/ \E component \in Sources.externals : ReadExternal(component)
    \/ \E model \in DOMAIN CpuModels : \E entries \in Sources.states : ReadCpu(model, entries)
    \/ \E size \in Sources.ram : ReadRam(size)
    \/ \E block \in Sources.blocks : ReadBlock(block)
    \/ \E address \in Sources.end : Once("end", address)
Next == NextSource \/ (count < MaxRead /\ ReadDeclaration)
Spec == Init /\ [][Next]_vars

----------------------------------------------------------------------------
(* Properties.                                                             *)

Viewed == {[component |-> component.name, view |-> view] : <<component, view>> \in
             {<<c, v>> \in ToSet(Components) \X UNION {DeviceModels[kind].selectors : kind \in DOMAIN DeviceModels} :
                 c.kind \in DOMAIN DeviceModels /\ v \in DeviceModels[c.kind].selectors}}
\* Memory: whatever the views say, a transfer reaches a byte its component has; a bus error meets
\* a CPU that takes it or the bus that hides it; and every byte mapped is the one reached.
MemoryAnswers ==
    \A direction \in {"read", "write"}, address \in 0..(Cpu.size - 1), on \in SUBSET Viewed :
        LET transfer == Transfer(direction, address, on)
        IN  /\ transfer.to \notin {"discard", "nowhere"} =>
                  IsComponent(transfer.to) /\ transfer.at < Size(transfer.to)
            /\ direction = "read" => transfer.to # "discard"
            /\ BusErrors(direction, transfer) /\ Cpu.byteBus => Declared("map") /\ The("map").unmapped # <<>>
            /\ Declared("map") => Cardinality(Holding(address)) <= 1

\* Calls: each names a method its part has and a register that answers; nothing declared is lost
\* on the way, a binding behind another or beyond the CPU's ports, what the constructor of the CPU
\* is not handed, or a reset of a part whose name opens the list; and a clock times the CPU.
CallsAnswered ==
    /\ \A call \in PortCalls \cup ResetCalls \cup ClockCalls \cup ViewCalls : Answers(call)
    /\ ToSet(Bindings) \subseteq Served
    /\ \A keyword \in {"ports", "resetDevices"} : Declared(keyword) => keyword \in Handed /\ Accepts(keyword)
    /\ Declared("reset") => ToSet(The("reset")) = {"cpu"} \cup ToSet(Targets("reset"))
    /\ Declared("clock") => Cpu.vectors

\* A source the parser accepts, its declarations in whatever order, becomes a machine whose
\* construction no part refuses, whose transfers stay inside the parts they name, whose ports,
\* resets, clocks and windows call only what their devices answer, whose CPU takes the initial
\* state, and whose snapshot has exactly the fields a restore demands.
MachineIsWired ==
    Accepted =>
        /\ \A i \in DOMAIN Stores : Stores[i].last < Stores[i].within
        /\ NoRepeats(Returned) /\ NoRepeats(Saved) /\ ToSet(Saved) = ToSet(Demanded)
        /\ Declared("cpu") =>
              /\ \A name \in DOMAIN Cpu.state : CopiesField(Cpu.state[name], The("cpu").state[name])
              /\ Present => MemoryAnswers /\ CallsAnswered
=============================================================================
