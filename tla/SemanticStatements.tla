--------------------------- MODULE SemanticStatements ---------------------------
(***************************************************************************)
(* The instruction language of cpus/semantics, from definition to          *)
(* execution: the validator (validate.ts) appends statements to a          *)
(* definition and checks the whole of it, the generator (generate.ts)      *)
(* compiles it, and the compiled method runs on a CPU's state.             *)
(*                                                                         *)
(* Numbers are two-bit bytes and four-bit words; a definition is built     *)
(* from the statements in Steps.  A run-time value carries its type, so    *)
(* that a step which reads a name nobody captured, or the wrong width, is  *)
(* seen going wrong.  JavaScript itself would go on with undefined.        *)
(***************************************************************************)
EXTENDS Integers, Sequences, FiniteSets, SequencesExt, Bitwise

CONSTANTS
    Steps,        \* the statements a definition is made from
    Inputs,       \* the instruction's inputs: a function from names to types
    Connections,  \* the CPU declaration's boundaries, a subset of {"word", "segmented", "irq", "reti"}
    MaxSteps      \* bound: statements in a definition

VARIABLES
    definition,   \* the statements appended so far
    captured,     \* the appending validator's scope: names to types
    method,       \* the compiled method, or NotCompiled
    machine       \* the CPU's state and the last run's outcome, or NotRun
vars == <<definition, captured, method, machine>>

Types == {"flag", "byte", "word"}
Values == [flag |-> 0 .. 1, byte |-> 0 .. 3, word |-> 0 .. 15]
NotCompiled == [compiled |-> FALSE, rejections |-> {}, uses |-> {}]
Undefined == [type |-> "undefined", n |-> 0]
Value(type, n) == [type |-> type, n |-> n]

\* The CPU schema: a byte register and a word register, two flags, an array of bytes.
Registers == [a |-> "byte", w |-> "word"]
StoredFlags == {"c", "z"}
ArrayLength == 3

\* Statements that capture what the CPU or its context supplies: the captured type, the
\* widths of the operands, the declaration they need and the context's method.
Supply(what) ==
    LET from(type, operands, needs, use) == [type |-> type, operands |-> operands, needs |-> needs, use |-> use]
    IN  CASE what \in DOMAIN Registers -> from(Registers[what], <<>>, {}, {})
          [] what = "pending" -> from("byte", <<>>, {}, {"readPendingRegister"})
          [] what = "flag" -> from("flag", <<>>, {}, {})
          [] what = "fetch-byte" -> from("byte", <<>>, {}, {"fetchByte"})
          [] what = "read-memory" -> from("byte", <<"word">>, {}, {"readByte"})
          [] what = "read-port" -> from("byte", <<"word">>, {}, {"readPort"})
          [] what = "read-test" -> from("flag", <<>>, {"segmented"}, {"readTest"})
          [] what = "read-next-address" -> from("word", <<>>, {"word"}, {"nextAddress"})
\* Statements that only act.
Effect(what) ==
    LET to(operands, needs, use) == [operands |-> operands, needs |-> needs, use |-> use]
    IN  CASE what \in DOMAIN Registers -> to(<<Registers[what]>>, {}, {})
          [] what = "stage" -> to(<<"byte">>, {}, {"stageRegister"})
          [] what = "write-memory" -> to(<<"word", "byte">>, {}, {"writeByte"})
          [] what = "write-port" -> to(<<"word", "byte">>, {}, {"writePort"})
          [] what = "report-clocks" -> to(<<"word">>, {}, {"reportClocks"})
          [] what = "report-interrupt" -> to(<<"byte">>, {"segmented"}, {"reportInterrupt"})
          [] what = "defer-interrupt" -> to(<<>>, {"irq"}, {"deferInterrupt"})
          [] what = "notify-reti" -> to(<<>>, {"reti"}, {"notifyReti"})
          [] what = "reset-devices" -> to(<<>>, {"word"}, {"resetDevices"})
          [] what = "select-target" -> to(<<"word">>, {"word"}, {"jump"})
          [] what = "commit-updates" -> to(<<>>, {"word"}, {"commitAddressUpdates"})

----------------------------------------------------------------------------
(* Validation.  A scope is a function from names to types; Refused is the  *)
(* scope of a body that was rejected.                                      *)

Refused == [refused |-> "flag"]
Bind(scope, name, type) ==
    IF scope = Refused \/ name \in DOMAIN scope THEN Refused
    ELSE [n \in DOMAIN scope \cup {name} |-> IF n = name THEN type ELSE scope[n]]
TypeOf(expr, scope) ==
    IF expr.name = "literal" THEN expr.type
    ELSE IF expr.name \in DOMAIN scope THEN scope[expr.name] ELSE "unknown"
Typed(expr, type, scope) == TypeOf(expr, scope) = type
AllTyped(exprs, types, scope) ==
    Len(exprs) = Len(types) /\ \A i \in DOMAIN exprs : Typed(exprs[i], types[i], scope)

\* A literal, or the width of the selector, bounds an array index.
IndexFits(expr) ==
    IF expr.name = "literal" THEN expr.n < ArrayLength ELSE 3 < ArrayLength

Disjoint(cases) ==
    \A i, j \in DOMAIN cases : i < j =>
        ((cases[i].value ^^ cases[j].value) & cases[i].mask) & cases[j].mask # 0
CasesFit(cases) ==
    cases # <<>> /\ \A i \in DOMAIN cases : cases[i].value & cases[i].mask = cases[i].value

\* The body of an instruction may reject; one composed into it, only through a byte match.
Rejects(step, allow) == step.kind = "reject" => allow = "always"
Within(allow) == "match"

\* A branch sees the captures made before it and keeps its own.
\* A bug: captures made in a branch stay in scope after it.
LeakingScope(outer, inner) == inner
AfterBranch(outer, inner) == IF inner = Refused THEN Refused ELSE outer

ReplacesAll(step) == step.replace => DOMAIN step.updates = StoredFlags
PolicyFits(step, scope) ==
    /\ ReplacesAll(step)
    /\ DOMAIN step.arguments = DOMAIN step.parameters
    /\ \A p \in DOMAIN step.parameters : Typed(step.arguments[p], step.parameters[p], scope)
    /\ DOMAIN step.updates \subseteq StoredFlags
    /\ \A f \in DOMAIN step.updates : Typed(step.updates[f], "flag", step.parameters)

RECURSIVE Checked(_, _, _)
Arguments(step, scope) ==
    /\ DOMAIN step.arguments = DOMAIN step.inputs
    /\ \A p \in DOMAIN step.inputs : Typed(step.arguments[p], step.inputs[p], scope)
Branch(b, type, scope, allow) ==
    LET inner == Checked(b.steps, scope, allow)
    IN  IF inner # Refused /\ Typed(b.result, type, inner) THEN AfterBranch(scope, inner) ELSE Refused

CheckedStep(step, scope, allow) ==
    LET if(accepted, next) == IF accepted THEN next ELSE Refused
        kind == step.kind
    IN  CASE kind = "capture" -> if(Typed(step.value, step.type, scope), Bind(scope, step.name, step.type))
          [] kind = "read" ->
               LET s == Supply(step.what)
               IN  if(s.needs \subseteq Connections /\ AllTyped(step.operands, s.operands, scope),
                      Bind(scope, step.name, s.type))
          [] kind = "write" ->
               LET s == Effect(step.what)
               IN  if(s.needs \subseteq Connections /\ AllTyped(step.operands, s.operands, scope), scope)
          [] kind = "read-element" -> if(TypeOf(step.index, scope) = "byte" /\ IndexFits(step.index),
                                         Bind(scope, step.name, "byte"))
          [] kind = "reject" -> if(Rejects(step, allow), scope)
          [] kind = "when" -> if(Typed(step.condition, "flag", scope),
                                 AfterBranch(scope, Checked(step.steps, scope, allow)))
          [] kind = "choose" ->
               LET yes == Branch(step.yes, step.type, scope, allow)
                   no == Branch(step.no, step.type, scope, allow)
               IN  if(Typed(step.condition, "flag", scope) /\ Refused \notin {yes, no},
                      Bind(yes, step.name, step.type))
          [] kind = "match" ->
               if(/\ Typed(step.selector, "byte", scope)
                  /\ CasesFit(step.cases) /\ Disjoint(step.cases)
                  /\ \A i \in DOMAIN step.cases : Branch(step.cases[i], step.type, scope, allow) # Refused,
                  Bind(scope, step.name, step.type))
          [] kind = "perform" ->
               if(Arguments(step, scope) /\ Checked(step.steps, step.inputs, Within(allow)) # Refused, scope)
          [] kind = "read-source" ->
               LET inner == Checked(step.steps, step.inputs, Within(allow))
               IN  if(Arguments(step, scope) /\ inner # Refused /\ Typed(step.result, step.type, inner),
                      Bind(scope, step.name, step.type))
          [] kind = "iterate" ->
               LET names == DOMAIN step.values
                   inner == FoldSet(LAMBDA n, s : Bind(s, n, step.values[n].type), scope, names)
                   body == IF inner = Refused THEN Refused ELSE Checked(step.steps, inner, allow)
               IN  if(/\ Typed(step.count, "byte", scope) /\ body # Refused
                      /\ \A n \in names : /\ Typed(step.values[n].initial, step.values[n].type, scope)
                                          /\ Typed(step.values[n].next, step.values[n].type, body),
                      inner)
          [] kind = "divide" ->
               if(/\ allow = "always" /\ Typed(step.dividend, "word", scope) /\ Typed(step.divisor, "byte", scope),
                  Bind(Bind(scope, step.quotient, "byte"), step.remainder, "byte"))
          [] kind = "flags" -> if(PolicyFits(step, scope), scope)
Checked(steps, scope, allow) ==
    FoldLeft(LAMBDA s, step : IF s = Refused THEN Refused ELSE CheckedStep(step, s, allow), scope, steps)

----------------------------------------------------------------------------
(* Compilation: the outcomes a method declares and the context it asks for. *)

RECURSIVE Outcomes(_), Uses(_)
Bodies(step) ==
    CASE step.kind \in {"when", "perform", "read-source", "iterate"} -> <<step.steps>>
      [] step.kind = "choose" -> <<step.yes.steps, step.no.steps>>
      [] step.kind = "match" -> [i \in DOMAIN step.cases |-> step.cases[i].steps]
      [] OTHER -> <<>>
OwnOutcome(step) ==
    CASE step.kind = "reject" -> {step.reason}
      [] step.kind = "divide" -> {step.onError}
      [] step.kind = "match" -> {"unsupported"}
      [] OTHER -> {}
OwnUses(step) ==
    CASE step.kind = "read" -> Supply(step.what).use
      [] step.kind = "write" -> Effect(step.what).use
      [] OTHER -> {}
Gathered(steps, own(_), inner(_)) ==
    UNION {own(steps[i]) \cup UNION {inner(Bodies(steps[i])[j]) : j \in DOMAIN Bodies(steps[i])} : i \in DOMAIN steps}
Outcomes(steps) == Gathered(steps, OwnOutcome, Outcomes)
Uses(steps) == Gathered(steps, OwnUses, Uses)

----------------------------------------------------------------------------
(* Execution of the generated statements.  m is the machine: registers,    *)
(* flags, staged writes, context calls, outcome, and whether it went wrong. *)

Read(expr, env) ==
    IF expr.name = "literal" THEN Value(expr.type, expr.n)
    ELSE IF expr.name \in DOMAIN env THEN env[expr.name] ELSE Undefined
Holds(expr, env) == Read(expr, env).n = 1
Put(env, name, v) == [n \in DOMAIN env \cup {name} |-> IF n = name THEN v ELSE env[n]]
Needs(m, ok) == IF ok THEN m ELSE [m EXCEPT !.wrong = TRUE]
Typeable(exprs, types, env) ==
    \A i \in DOMAIN types : Read(exprs[i], env).type = types[i]

\* Loop values are all computed before any is assigned.
NextTogether(values, env) ==
    [n \in DOMAIN env |-> IF n \in DOMAIN values THEN Read(values[n].next, env) ELSE env[n]]

RECURSIVE Ran(_, _, _), Looped(_, _, _, _)
\* A run is [m, env]; a body that rejected returns at once.
Ran(steps, env, m) ==
    LET one(run, step) ==
          IF run.m.outcome # "void" THEN run ELSE
          LET e == run.env
              after(n, v) == [run EXCEPT !.env = Put(e, n, v)]
              reject(reason) == [run EXCEPT !.m.outcome = reason]
              inner(body, scope) == Ran(body, scope, run.m)
              \* The caller keeps its own names; the branch's result is assigned to one of them.
              yields(b, scope, n) == LET r == inner(b.steps, scope)
                                     IN  [m |-> r.m, env |-> IF r.m.outcome = "void" THEN Put(e, n, Read(b.result, r.env)) ELSE e]
              inputs == [p \in DOMAIN step.arguments |-> Read(step.arguments[p], e)]
          IN  CASE step.kind = "capture" ->
                     [after(step.name, Read(step.value, e)) EXCEPT
                        !.m = Needs(@, Read(step.value, e).type = step.type)]
                [] step.kind = "read" ->
                     LET s == Supply(step.what)
                         n == CASE step.what \in DOMAIN Registers -> run.m.registers[step.what]
                                [] step.what = "pending" -> IF run.m.staged = <<>> THEN run.m.registers.a ELSE Last(run.m.staged)
                                [] step.what = "flag" -> run.m.flags.c
                                [] OTHER -> 1
                     IN  [after(step.name, Value(s.type, n)) EXCEPT
                            !.m = [Needs(@, Typeable(step.operands, s.operands, e)) EXCEPT !.uses = @ \cup s.use]]
                [] step.kind = "write" ->
                     LET s == Effect(step.what)
                         v == IF step.operands = <<>> THEN 0 ELSE Read(step.operands[1], e).n
                         m1 == [Needs(run.m, Typeable(step.operands, s.operands, e)) EXCEPT !.uses = @ \cup s.use]
                     IN  [run EXCEPT !.m =
                            CASE step.what \in DOMAIN Registers -> [m1 EXCEPT !.registers[step.what] = v]
                              [] step.what = "stage" -> [m1 EXCEPT !.staged = Append(@, v)]
                              [] OTHER -> m1]
                [] step.kind = "read-element" ->
                     [after(step.name, Value("byte", 0)) EXCEPT !.m = Needs(@, Read(step.index, e).n < ArrayLength)]
                [] step.kind = "reject" -> reject(step.reason)
                [] step.kind = "when" ->
                     IF Holds(step.condition, e) THEN [inner(step.steps, e) EXCEPT !.env = e] ELSE run
                [] step.kind = "choose" -> yields(IF Holds(step.condition, e) THEN step.yes ELSE step.no, e, step.name)
                [] step.kind = "match" ->
                     LET taken == {i \in DOMAIN step.cases :
                                     Read(step.selector, e).n & step.cases[i].mask = step.cases[i].value}
                         several == [run EXCEPT !.m.ambiguous = @ \/ Cardinality(taken) > 1]
                     IN  IF taken = {} THEN reject("unsupported")
                         ELSE [yields(step.cases[CHOOSE i \in taken : \A j \in taken : i <= j], e, step.name)
                                 EXCEPT !.m.ambiguous = @ \/ several.m.ambiguous]
                [] step.kind = "perform" -> [inner(step.steps, inputs) EXCEPT !.env = e]
                [] step.kind = "read-source" -> yields(step, inputs, step.name)
                [] step.kind = "iterate" ->
                     Looped(step, [n \in DOMAIN e \cup DOMAIN step.values |->
                                     IF n \in DOMAIN step.values THEN Read(step.values[n].initial, e) ELSE e[n]],
                            run.m, Read(step.count, e).n)
                [] step.kind = "divide" ->
                     LET l == Read(step.dividend, e).n  r == Read(step.divisor, e).n
                     IN  IF r = 0 THEN reject(step.onError)
                         ELSE IF l \div r > 3 THEN reject(step.onError)
                         ELSE [run EXCEPT !.env = Put(Put(e, step.quotient, Value("byte", l \div r)),
                                                      step.remainder, Value("byte", l % r))]
                [] step.kind = "flags" ->
                     LET set == [f \in DOMAIN step.updates |-> Read(step.updates[f], inputs).n]
                         kept == IF step.replace THEN {} ELSE DOMAIN run.m.flags
                     IN  [run EXCEPT !.m = [Needs(@, \A f \in DOMAIN set : Read(step.updates[f], inputs).type = "flag") EXCEPT
                            !.flags = [f \in kept \cup DOMAIN set |-> IF f \in DOMAIN set THEN set[f] ELSE run.m.flags[f]]]]
    IN  FoldLeft(one, [m |-> m, env |-> env], steps)
Looped(step, env, m, count) ==
    IF count = 0 \/ m.outcome # "void" THEN [m |-> m, env |-> env]
    ELSE LET r == Ran(step.steps, env, m)
             next == NextTogether(step.values, r.env)
         IN  Looped(step, [n \in DOMAIN env |-> next[n]], r.m, count - 1)

----------------------------------------------------------------------------
(* Writing, compiling and running a definition.                            *)

NotRun == [outcome |-> "none", wrong |-> FALSE, ambiguous |-> FALSE, uses |-> {},
           registers |-> [a |-> 0, w |-> 0], flags |-> [c |-> 0, z |-> 0], staged |-> <<>>, env |-> <<>>]
Init == definition = <<>> /\ captured = Inputs /\ method = NotCompiled /\ machine = NotRun

\* statementValidator: a completed statement joins the checked scope.
CheckedScope == captured
AppendStep == \E step \in Steps :
    /\ ~method.compiled /\ Len(definition) < MaxSteps
    /\ LET scope == CheckedStep(step, CheckedScope, "always")
       IN  scope # Refused /\ captured' = scope
    /\ definition' = Append(definition, step)
    /\ UNCHANGED <<method, machine>>
\* The method declares what its body may return and calls; the CPU commits staged writes.
Compile ==
    /\ definition # <<>> /\ ~method.compiled
    /\ method' = [compiled |-> TRUE, rejections |-> Outcomes(definition), uses |-> Uses(definition)]
    /\ UNCHANGED <<definition, captured, machine>>
Run == \E a \in Values.byte, c \in Values.flag : \E args \in [DOMAIN Inputs -> Values.word] :
    /\ method.compiled /\ machine.outcome = "none"
    /\ \A p \in DOMAIN Inputs : args[p] \in Values[Inputs[p]]
    /\ LET r == Ran(definition, [p \in DOMAIN Inputs |-> Value(Inputs[p], args[p])],
                    [outcome |-> "void", wrong |-> FALSE, ambiguous |-> FALSE, uses |-> {},
                     registers |-> [a |-> a, w |-> 5], flags |-> [f \in StoredFlags |-> c], staged |-> <<>>])
       IN  machine' = [outcome |-> r.m.outcome, wrong |-> r.m.wrong, ambiguous |-> r.m.ambiguous,
                       uses |-> r.m.uses, registers |-> r.m.registers, flags |-> r.m.flags,
                       staged |-> r.m.staged, env |-> r.env]
    /\ UNCHANGED <<definition, captured, method>>
Another ==
    /\ machine.outcome # "none"
    /\ definition' = <<>> /\ captured' = Inputs /\ method' = NotCompiled /\ machine' = NotRun
Next == AppendStep \/ Compile \/ Run \/ Another
Spec == Init /\ [][Next]_vars

----------------------------------------------------------------------------
(* Properties.                                                             *)

\* Type correctness.  What runs is a compiled definition whose scope was accepted, and a
\* register holds a value of its width.
StatementsTypeOK ==
    /\ Len(definition) <= MaxSteps /\ \A n \in DOMAIN captured : captured[n] \in Types
    /\ machine.outcome # "none" => method.compiled
    /\ \A r \in DOMAIN Registers : machine.registers[r] \in Values[Registers[r]]

\* validate.ts and generate.ts: an accepted definition never goes wrong.  Whatever branches
\* a run takes, each step reads names captured on that path, with the declared types, and
\* indexes arrays inside their length.
AcceptedNeverGoesWrong == ~machine.wrong

\* generate.ts, outcomes: a method returns nothing or a rejection its type declares, also
\* when a decoder inside a composed action or value source found no case.
RejectionsAreDeclared ==
    machine.outcome # "none" => machine.outcome \in {"void"} \cup method.rejections

\* generate.ts, capabilities: a method calls only the context methods its parameter was
\* picked to have, and asks for none the CPU's declaration does not connect.
ContextIsDeclared ==
    /\ machine.uses \subseteq method.uses
    /\ "segmented" \notin Connections => method.uses \cap {"readTest", "reportInterrupt"} = {}
    /\ "word" \notin Connections =>
         method.uses \cap {"nextAddress", "jump", "resetDevices", "commitAddressUpdates"} = {}

\* statementValidator: appending statement by statement accepts what the whole-definition
\* check accepts, and reaches the same scope.
AppendedIsWhole == Checked(definition, Inputs, "always") = captured

\* validate.ts, byte match: at most one case of an accepted match takes a byte, so the
\* order in which the cases are tested says nothing.
OneCase == ~machine.ambiguous

\* replace-flags: after any run the flag object has every stored flag.
FlagsComplete == machine.outcome # "none" => DOMAIN machine.flags = StoredFlags

\* iterate-together: every next value is computed before any is assigned, so two values
\* that are exchanged at each turn are still those two values after any number of turns.
Exchanges(step) ==
    /\ step.kind = "iterate" /\ DOMAIN step.values = {"x", "y"}
    /\ step.values["x"].next.name = "y" /\ step.values["y"].next.name = "x"
LoopsTogether == \A i \in DOMAIN definition :
    (machine.outcome = "void" /\ Exchanges(definition[i])) =>
        {machine.env[n].n : n \in {"x", "y"}} =
            {Read(definition[i].values[n].initial, machine.env).n : n \in {"x", "y"}}

\* All of these at once: what the checks accept can be compiled and run.
AcceptedIsSafe ==
    /\ StatementsTypeOK /\ AcceptedNeverGoesWrong /\ RejectionsAreDeclared /\ ContextIsDeclared
    /\ AppendedIsWhole /\ OneCase /\ FlagsComplete /\ LoopsTogether
================================================================================
