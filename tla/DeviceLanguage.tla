------------------------------ MODULE DeviceLanguage ------------------------------
(***************************************************************************)
(* A device chapter (components/devices/semantics): compile.ts reads its   *)
(* declarations, generate.ts makes a class of them, and the class serves   *)
(* the guest and the host.  The schema is that of cpus/state.ts.           *)
(*                                                                         *)
(* A byte is a number up to Highest and a flag is 0 or 1.  A body is made  *)
(* of the statements that matter here: writes of stored state, calls, byte *)
(* matches that may reject, and fetches, which only a CPU has.  Stored and *)
(* restored values are sequences: a register or a latch has one element.   *)
(***************************************************************************)
EXTENDS Integers, Sequences, FiniteSets

CONSTANTS
    Chapters,     \* the chapters an author may write: sequences of declarations
    Highest       \* the largest byte

VARIABLES
    rest,         \* the declarations not yet read
    chapter,      \* what the compiler knows; later the generated class
    state,        \* the stored state of the device, or None
    call          \* the last call of the class and what came of it
vars == <<rest, chapter, state, call>>

None == [none |-> <<>>]
Every == -1                                    \* the address *
Unread == [named |-> FALSE, stored |-> FALSE, failed |-> FALSE, closed |-> FALSE, symbols |-> None, sources |-> None,
           actions |-> None, api |-> <<>>, schema |-> None]
With(table, name, entry) == [n \in DOMAIN table \cup {name} |-> IF n = name THEN entry ELSE table[n]]
Named(table) == DOMAIN table \ {"none"}
Flag(condition) == IF condition THEN 1 ELSE 0

----------------------------------------------------------------------------
(* The schema.                                                             *)

\* chapterState: the fields in their places, each with its kind, its length and its largest value.
Schema(symbols) ==
    LET field(s) == [kind |-> s.kind, length |-> IF s.kind = "array" THEN s.length ELSE 1,
                     maximum |-> IF s.kind = "latch" THEN 1 ELSE Highest]
    IN  [place \in {symbols[n].field : n \in Named(symbols)} |->
            field(symbols[CHOOSE n \in Named(symbols) : symbols[n].field = place])]
\* stateSymbol, declare and chapterState: a name and a place are used once, a width is supported and
\* an array is not empty.
SymbolFits(body, i) ==
    LET s == body[i]
    IN  /\ s.kind \in {"register", "latch", "array"}
        /\ s.kind = "array" => s.length >= 1
        /\ \A j \in 1 .. i - 1 : body[j].name # s.name /\ body[j].field # s.field
StateFits(body) == \A i \in DOMAIN body : SymbolFits(body, i)

\* readState: a copy of the declared fields, each checked; others are not looked at.
Shapes == [register |-> "number", latch |-> "boolean", array |-> "list"]
Restores(schema, snapshot) ==
    \A place \in DOMAIN schema :
        /\ place \in DOMAIN snapshot
        /\ snapshot[place].shape = Shapes[schema[place].kind]
        /\ Len(snapshot[place].at) = schema[place].length
        /\ \A i \in DOMAIN snapshot[place].at : snapshot[place].at[i] \in 0 .. schema[place].maximum
\* copyState: what snapshot() returns.
Snapshot(schema, stored) ==
    [place \in DOMAIN schema |-> [shape |-> Shapes[schema[place].kind], at |-> stored[place]]]

----------------------------------------------------------------------------
(* Declarations.                                                           *)

RECURSIVE KindsOf(_, _), Resolves(_, _, _), Run(_, _, _, _)
\* The kinds of effect in a body, through the bodies it calls.
KindsOf(c, steps) ==
    UNION {{steps[i].kind} \cup CASE steps[i].kind = "read-source" -> c.sources[steps[i].name].kinds
                                  [] steps[i].kind = "perform" -> c.actions[steps[i].name].kinds
                                  [] steps[i].kind = "when" -> KindsOf(c, steps[i].steps)
                                  [] OTHER -> {} : i \in DOMAIN steps}
Stateful == {"write", "element", "when", "read-source", "perform"}
\* checkStateEffects with the effects of a device: "state", or "view", and with or without matches.
PermittedWithMatches(kinds, view, matches) ==
    kinds \subseteq (Stateful \ (IF view THEN {"write", "element"} ELSE {})) \cup (IF view THEN {} ELSE {"match"})
Permitted(kinds, view, matches) ==
    kinds \subseteq (Stateful \ (IF view THEN {"write", "element"} ELSE {}))
                    \cup (IF matches /\ ~view THEN {"match"} ELSE {})

OperandType(c, operand, inputs) ==
    CASE operand.of = "literal" -> operand.type
      [] operand.of = "input" -> IF operand.n \in DOMAIN inputs THEN inputs[operand.n] ELSE "none"
      [] operand.of = "stored" ->
           IF operand.name \notin Named(c.symbols) THEN "none"
           ELSE CASE c.symbols[operand.name].kind = "register" -> "byte"
                  [] c.symbols[operand.name].kind = "latch" -> "flag"
                  [] OTHER -> "none"
\* The validator's part: what a statement names is declared before it, with its types.
Resolves(c, steps, inputs) ==
    \A i \in DOMAIN steps :
        LET step == steps[i]
            is(operand, type) == OperandType(c, operand, inputs) = type
            passes(table) == /\ step.name \in Named(table)
                             /\ Len(step.arguments) = Len(table[step.name].inputs)
                             /\ \A k \in DOMAIN step.arguments : is(step.arguments[k], table[step.name].inputs[k])
        IN  CASE step.kind = "write" ->
                   /\ step.name \in Named(c.symbols)
                   /\ c.symbols[step.name].kind # "array"
                   /\ is(step.value, IF c.symbols[step.name].kind = "latch" THEN "flag" ELSE "byte")
              [] step.kind = "element" ->
                   step.name \in Named(c.symbols) /\ c.symbols[step.name].kind = "array" /\ is(step.value, "byte")
              [] step.kind = "match" -> is(step.selector, "byte")
              [] step.kind = "when" -> is(step.condition, "flag") /\ Resolves(c, step.steps, inputs)
              [] step.kind = "read-source" -> passes(c.sources)
              [] step.kind = "perform" -> passes(c.actions)
              [] OTHER -> TRUE
\* chapterDeclaration: a source, whose result has the declared type, or an action.
DefinitionFits(c, d) ==
    /\ d.name \notin Named(c.symbols) \cup Named(c.sources) \cup Named(c.actions)
    /\ Resolves(c, d.steps, d.inputs)
    /\ Permitted(KindsOf(c, d.steps), FALSE, TRUE)
    /\ d.kind = "source" => OperandType(c, d.result, d.inputs) = d.type

----------------------------------------------------------------------------
(* The interface.                                                          *)

Reserved == {"constructor", "size", "snapshot", "reset", "offer", "read", "write"}
Lines(lines, kind) == {i \in DOMAIN lines : lines[i].kind = kind}
SizeOf(lines) == lines[CHOOSE i \in Lines(lines, "size") : TRUE].address
Addresses(lines, i) == IF lines[i].address = Every THEN 0 .. SizeOf(lines) - 1 ELSE {lines[i].address}
Bytes(n) == [i \in 1 .. n |-> "byte"]
\* A register, an offer or the validator: the source has the type and the byte inputs of its kind.
SignatureFits(line, source) ==
    /\ source.type = IF line.kind = "read" THEN "byte" ELSE "flag"
    /\ source.inputs = Bytes(Flag(line.kind \in {"offer", "write"})
                             + Flag(line.kind \in {"read", "write"} /\ line.address = Every))
LineFits(c, lines, i) ==
    LET line == lines[i]
        earlier(kinds) == {j \in 1 .. i - 1 : lines[j].kind \in kinds}
    IN  CASE line.kind \in {"view", "input"} ->
               /\ line.target \notin Reserved
               /\ \A j \in earlier({"view", "input"}) : lines[j].target # line.target
               /\ IF line.kind = "view"
                  THEN line.target \in Named(c.sources) /\ Permitted(c.sources[line.target].kinds, TRUE, TRUE)
                  ELSE line.target \in Named(c.actions) /\ Permitted(c.actions[line.target].kinds, FALSE, FALSE)
          [] line.kind = "size" -> earlier({"size"}) = {} /\ line.address \in 1 .. Highest + 1
          [] line.kind \in {"initialize", "reset"} ->
               /\ line.target \in Named(c.actions) /\ c.actions[line.target].inputs = <<>>
               /\ earlier({line.kind}) = {}
          [] line.kind \in {"validate", "offer", "read", "write"} ->
               /\ line.target \in Named(c.sources) /\ SignatureFits(line, c.sources[line.target])
               /\ line.kind = "validate" => Permitted(c.sources[line.target].kinds, TRUE, TRUE)
               /\ IF line.kind \in {"validate", "offer"} THEN earlier({line.kind}) = {}
                  ELSE /\ earlier({"size"}) # {}
                       /\ Addresses(lines, i) \subseteq 0 .. SizeOf(lines) - 1
                       /\ \A j \in earlier({line.kind}) : Addresses(lines, j) \cap Addresses(lines, i) = {}
          [] OTHER -> FALSE
InterfaceFits(c, lines) ==
    /\ \A i \in DOMAIN lines : LineFits(c, lines, i)
    /\ \A kind \in {"size", "initialize", "reset", "validate"} : Lines(lines, kind) # {}

----------------------------------------------------------------------------
(* compileDeviceChapter.                                                   *)

ReservedDevices == {"ram", "rom", "byte-input", "byte-output"}
Fits(c, d) ==
    IF d.kind = "device" THEN ~c.named /\ d.name \notin ReservedDevices
    ELSE /\ c.named /\ c.api = <<>>
         /\ CASE d.kind = "state" -> ~c.stored /\ StateFits(d.body)
              [] d.kind \in {"source", "action"} -> c.stored /\ DefinitionFits(c, d)
              [] d.kind = "interface" -> c.stored /\ InterfaceFits(c, d.lines)
              [] OTHER -> FALSE
Stored(body) ==
    [n \in {body[i].name : i \in DOMAIN body} \cup {"none"} |->
        IF n = "none" THEN <<>> ELSE body[CHOOSE i \in DOMAIN body : body[i].name = n]]
Read(c, d) ==
    LET definition == [inputs |-> d.inputs, steps |-> d.steps, type |-> d.type, result |-> d.result,
                       kinds |-> KindsOf(c, d.steps)]
    IN  CASE d.kind = "device" -> [c EXCEPT !.named = TRUE]
          [] d.kind = "state" -> [c EXCEPT !.stored = TRUE, !.symbols = Stored(d.body)]
          [] d.kind = "source" -> [c EXCEPT !.sources = With(@, d.name, definition)]
          [] d.kind = "action" -> [c EXCEPT !.actions = With(@, d.name, definition)]
          [] d.kind = "interface" -> [c EXCEPT !.api = d.lines]
Failed == [Unread EXCEPT !.failed = TRUE]
\* The next declaration of the chapter, in order; the first that does not fit ends it.
Declare ==
    /\ rest # <<>> /\ ~chapter.failed
    /\ rest' = Tail(rest)
    /\ chapter' = IF Fits(chapter, Head(rest)) THEN Read(chapter, Head(rest)) ELSE Failed
    /\ UNCHANGED <<state, call>>
\* The chapter ends: device, state and interface are required.
Close ==
    /\ rest = <<>> /\ ~chapter.failed /\ ~chapter.closed
    /\ chapter' = IF chapter.api # <<>> THEN [chapter EXCEPT !.closed = TRUE, !.schema = Schema(chapter.symbols)] ELSE Failed
    /\ UNCHANGED <<rest, state, call>>

----------------------------------------------------------------------------
(* generateDevice: the class.                                              *)

Api == chapter.api
Target(kind) == Api[CHOOSE i \in Lines(Api, kind) : TRUE].target
Registers(kind) == UNION {Addresses(Api, i) : i \in Lines(Api, kind)}
Binding(kind, address) == Api[CHOOSE i \in Lines(Api, kind) : address \in Addresses(Api, i)]
TheSchema == chapter.schema
\* What the machine language is told of it.
Description == [size |-> SizeOf(Api), reads |-> Registers("read"), writes |-> Registers("write"),
                output |-> \E i \in Lines(Api, "write") : Api[i].notify,
                selectors |-> {n \in {Api[i].target : i \in Lines(Api, "view")} :
                                chapter.sources[n].type = "flag" /\ chapter.sources[n].inputs = <<>>}]

\* Running a body: the state it leaves and whether a match rejected, which ends it.
Place(name) == chapter.symbols[name].field
Value(operand, stored, arguments) ==
    CASE operand.of = "literal" -> operand.n
      [] operand.of = "input" -> arguments[operand.n]
      [] operand.of = "stored" -> stored[Place(operand.name)][1]
Run(steps, stored, arguments, rejected) ==
    IF steps = <<>> \/ rejected THEN [stored |-> stored, rejected |-> rejected]
    ELSE LET step == Head(steps)
             value(operand) == Value(operand, stored, arguments)
             called(table) == Run(table[step.name].steps, stored, [k \in DOMAIN step.arguments |-> value(step.arguments[k])], FALSE)
             after == CASE step.kind = "write" -> [stored |-> [stored EXCEPT ![Place(step.name)] = <<value(step.value)>>], rejected |-> FALSE]
                        [] step.kind = "element" ->
                             [stored |-> [stored EXCEPT ![Place(step.name)][chapter.symbols[step.name].length] = value(step.value)], rejected |-> FALSE]
                        [] step.kind = "match" -> [stored |-> stored, rejected |-> value(step.selector) # step.case]
                        [] step.kind = "when" ->
                             IF value(step.condition) = 1 THEN Run(step.steps, stored, arguments, FALSE)
                             ELSE [stored |-> stored, rejected |-> FALSE]
                        [] step.kind = "read-source" -> called(chapter.sources)
                        [] step.kind = "perform" -> called(chapter.actions)
         IN  Run(Tail(steps), after.stored, arguments, after.rejected)
Source(name, stored, arguments) ==
    LET run == Run(chapter.sources[name].steps, stored, arguments, FALSE)
    IN  [stored |-> run.stored, rejected |-> run.rejected,
         value |-> IF run.rejected THEN 0 ELSE Value(chapter.sources[name].result, run.stored, arguments)]
Action(name, stored, arguments) == Run(chapter.actions[name].steps, stored, arguments, FALSE)

NoCall == [op |-> "none", at |-> 0, end |-> "none", value |-> 0, dropped |-> FALSE, notified |-> FALSE]
Ended(op, at, end, value, dropped) ==
    [NoCall EXCEPT !.op = op, !.at = at, !.end = end, !.value = value, !.dropped = dropped]
Existing == chapter.closed /\ state # None
\* The checks of a method's arguments; a flag is a Boolean, written as 0 or 1, and 2 is none.
Checked(types, arguments) ==
    \A k \in DOMAIN types : arguments[k] \in 0 .. (IF types[k] = "flag" THEN 1 ELSE Highest)

\* A fresh device starts from zero fields and its initialization; validate decides.
Fresh == [place \in DOMAIN TheSchema |-> [i \in 1 .. TheSchema[place].length |-> 0]]
Valid(stored) == Source(Target("validate"), stored, <<>>).value = 1
Construct ==
    /\ chapter.closed /\ state = None
    /\ LET made == Action(Target("initialize"), Fresh, <<>>)
       IN  /\ Valid(made.stored)
           /\ state' = Source(Target("validate"), made.stored, <<>>).stored
           /\ call' = Ended("construct", 0, "done", 0, made.rejected)
    /\ UNCHANGED <<rest, chapter>>
\* Another device from a snapshot: no initialization.
Restore(snapshot) ==
    /\ Existing
    /\ IF Restores(TheSchema, snapshot) /\ Valid([place \in DOMAIN TheSchema |-> snapshot[place].at])
       THEN /\ state' = Source(Target("validate"), [place \in DOMAIN TheSchema |-> snapshot[place].at], <<>>).stored
            /\ call' = Ended("restore", 0, "done", 0, FALSE)
       ELSE state' = state /\ call' = Ended("restore", 0, "invalid", 0, FALSE)
    /\ UNCHANGED <<rest, chapter>>
Reset ==
    /\ Existing
    /\ LET run == Action(Target("reset"), state, <<>>)
       IN  state' = run.stored /\ call' = Ended("reset", 0, "done", 0, run.rejected)
    /\ UNCHANGED <<rest, chapter>>
\* A view or an input method: its arguments are checked, all of them, before it runs.
Method(i, arguments) ==
    /\ Existing /\ i \in Lines(Api, "view") \cup Lines(Api, "input")
    /\ LET view == Api[i].kind = "view"
           definition == IF view THEN chapter.sources[Api[i].target] ELSE chapter.actions[Api[i].target]
       IN  /\ Len(arguments) = Len(definition.inputs)
           /\ IF ~Checked(definition.inputs, arguments)
              THEN state' = state /\ call' = Ended(Api[i].kind, 0, "invalid", 0, FALSE)
              ELSE LET ran == Source(Api[i].target, state, arguments)
                       acted == Action(Api[i].target, state, arguments)
                   IN  IF view THEN state' = ran.stored /\ call' = Ended("view", 0, "done", ran.value, ran.rejected)
                       ELSE state' = acted.stored /\ call' = Ended("input", 0, "done", 0, acted.rejected)
    /\ UNCHANGED <<rest, chapter>>
Offer(byte) ==
    /\ Existing /\ Lines(Api, "offer") # {}
    /\ IF byte > Highest THEN state' = state /\ call' = Ended("offer", 0, "invalid", 0, FALSE)
       ELSE LET run == Source(Target("offer"), state, <<byte>>)
            IN  state' = run.stored /\ call' = Ended("offer", 0, "done", run.value, run.rejected)
    /\ UNCHANGED <<rest, chapter>>
ReadRegister(address) ==
    /\ Existing
    /\ IF address >= SizeOf(Api) THEN state' = state /\ call' = Ended("read", address, "invalid", 0, FALSE)
       ELSE IF address \notin Registers("read")
       THEN state' = state /\ call' = Ended("read", address, "bus-error", 0, FALSE)
       ELSE LET binding == Binding("read", address)
                run == Source(binding.target, state, IF binding.address = Every THEN <<address>> ELSE <<>>)
            IN  state' = run.stored /\ call' = Ended("read", address, "done", run.value, run.rejected)
    /\ UNCHANGED <<rest, chapter>>
\* A write that its source does not accept throws, whatever the source has done; a rejected
\* match is not false.  The callback comes last and may throw.
WriteRegister(address, byte, throws) ==
    /\ Existing
    /\ IF address >= SizeOf(Api) \/ byte > Highest
       THEN state' = state /\ call' = Ended("write", address, "invalid", 0, FALSE)
       ELSE IF address \notin Registers("write")
       THEN state' = state /\ call' = Ended("write", address, "bus-error", 0, FALSE)
       ELSE LET binding == Binding("write", address)
                run == Source(binding.target, state, IF binding.address = Every THEN <<address, byte>> ELSE <<byte>>)
                accepted == run.rejected \/ run.value = 1
                notified == accepted /\ binding.notify
            IN  /\ throws => notified
                /\ state' = run.stored
                /\ call' = [Ended("write", address, IF accepted /\ ~throws THEN "done" ELSE "threw", run.value, run.rejected)
                            EXCEPT !.notified = notified]
    /\ UNCHANGED <<rest, chapter>>

----------------------------------------------------------------------------
Snapshots ==
    LET now == Snapshot(TheSchema, state)
    IN  {now} \cup {[now EXCEPT ![place].at = at] : place \in DOMAIN now, at \in {<<>>, <<0>>, <<1>>, <<Highest + 1>>, <<1, 0>>}}
        \cup {[now EXCEPT ![place].shape = "undefined"] : place \in DOMAIN now}
Given == 0 .. Highest + 1
Init == /\ rest \in Chapters /\ chapter = Unread /\ state = None /\ call = NoCall
Next == \/ Declare \/ Close \/ Construct \/ Reset
        \/ Existing /\ \E snapshot \in Snapshots : Restore(snapshot)
        \/ \E i \in DOMAIN Api, n \in 0 .. 2 : \E arguments \in [1 .. n -> Given] : Method(i, arguments)
        \/ \E byte \in Given : Offer(byte)
        \/ Existing /\ \E address \in 0 .. SizeOf(Api) : \/ ReadRegister(address)
                                                         \/ \E byte \in Given, throws \in BOOLEAN : WriteRegister(address, byte, throws)

----------------------------------------------------------------------------
(* Properties.                                                             *)

\* A constructed or restored device always holds a state that its own schema would restore,
\* and it tells the machine language the truth: what it reads and writes are registers of its
\* size, and a selector is a flag that needs no input.
DeviceIsSound ==
    chapter.closed =>
        /\ state # None => Restores(TheSchema, Snapshot(TheSchema, state))
        /\ Description.reads \cup Description.writes \subseteq 0 .. Description.size - 1
        /\ call.end = "bus-error" =>
             call.at \notin (IF call.op = "read" THEN Description.reads ELSE Description.writes)
        /\ call.notified => Description.output

\* docs/devices/literate-specifications.md: host values are checked before any declared effect,
\* so a refused call, and one of an unbound register, has changed nothing; a view and the
\* validation of a constructor change nothing; a view or an input never loses a rejection; a
\* restored device holds the snapshot; and the callback hears of accepted writes only.
DeviceServes ==
    state # None =>
        /\ call'.end \in {"invalid", "bus-error"} \/ call'.op = "view" => state' = state
        /\ call'.op \in {"view", "input", "restore"} => ~call'.dropped
        /\ call'.op = "restore" /\ call'.end = "done" => \E s \in Snapshots : state' = [place \in DOMAIN TheSchema |-> s[place].at]
        /\ call'.notified => call'.op = "write" /\ (call'.dropped \/ call'.value = 1)
================================================================================
