--------------------------- MODULE NestedService ---------------------------
(***************************************************************************)
(* What a fully nested interrupt controller promises, without registers:   *)
(* requests wait in a set, the handlers in service form a stack whose top  *)
(* is the running one, and a request may start only above the top.         *)
(***************************************************************************)
EXTENDS Integers, Sequences, SequencesExt

CONSTANT Line           \* the request lines, the smaller number the more urgent

VARIABLES waiting,      \* the requests nobody has started to serve
          stack         \* the levels in service, the running handler first

servVars == <<waiting, stack>>

Init == waiting = {} /\ stack = <<>>

Request(line) ==
    /\ waiting' = waiting \cup {line}
    /\ UNCHANGED stack

Start(line) ==
    /\ line \in waiting
    /\ stack = <<>> \/ line < Head(stack)
    /\ waiting' = waiting \ {line}
    /\ stack' = <<line>> \o stack

\* The running handler ends, whichever one it is.
FinishRunning ==
    /\ stack # <<>>
    /\ stack' = Tail(stack)
    /\ UNCHANGED waiting

\* Software ends a handler it names, running or interrupted.
FinishNamed(line) ==
    /\ \E i \in DOMAIN stack : stack[i] = line /\ stack' = RemoveAt(stack, i)
    /\ UNCHANGED waiting

Clear ==
    /\ waiting' = {}
    /\ stack' = <<>>

Next ==
    \/ \E line \in Line : Request(line) \/ Start(line) \/ FinishNamed(line)
    \/ FinishRunning
    \/ Clear

Spec == Init /\ [][Next]_servVars
=============================================================================
