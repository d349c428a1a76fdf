--------------------------- MODULE MCDebuggedMachine ---------------------------
(* A laboratory for TLC: a behaviour debugs small programs, with the rows of one *)
(* address, or arranges the panels the laboratory's tools are docked in.         *)
EXTENDS DebuggedMachine

MCPlaces == 0..4
Row(space, on) == [address |-> 1, space |-> space, enabled |-> on]
\* No breakpoint, one for any mapping, and that with one for this mapping too.
MCPoints == {{}, {Row(Anywhere, TRUE)}, {Row(Anywhere, FALSE)},
             {Row(Anywhere, FALSE), Row("ram", FALSE)}, {Row(Anywhere, TRUE), Row("ram", TRUE)}}
MCFewPoints == {{}, {Row(Anywhere, TRUE)}}
MCJumps == 0 :> {2} @@ 1 :> {0, 4} @@ 2 :> {0} @@ 3 :> {2} @@ 4 :> {2}
\* A caller of itself, a variable's store, a wait and a handler that calls.
MCCallers == 0 :> {"call"} @@ 1 :> {"jump"} @@ 2 :> {"call", "return"} @@ 3 :> {"interrupt-return"}
             @@ 4 :> {"cwai"}
MCTricks == 0 :> {"call", "cwai"} @@ 1 :> {"jump", "reset stack"} @@ 2 :> {"return", "pull", "pulling call"}
            @@ 3 :> {"interrupt-return", "stack-return", "unsupported"} @@ 4 :> {"push", "throws", "cwai"}
\* The Apple II's ROM: a dispatch at 2, and a return a program may have forged.
MCDispatches == 0 :> {"call"} @@ 1 :> {"jump"} @@ 2 :> {"jump", "return"} @@ 3 :> {"pull"} @@ 4 :> {"push", "throws"}
Laboratory(adapter, code, maxStack, lines, points, disciplined) ==
    [adapter |-> adapter, code |-> code, jumps |-> MCJumps, maxStack |-> maxStack, lines |-> lines,
     points |-> points, statements |-> {2}, disciplined |-> disciplined]
MCLaboratories ==
    {Laboratory("coco", MCTricks, 2, {"off", "pending"}, MCFewPoints, FALSE),
     Laboratory("coco", MCCallers, 2, {"off", "pending"}, MCFewPoints, TRUE),
     Laboratory("apple2", MCDispatches, 2, {"off"}, MCFewPoints, FALSE),
     Laboratory("xt", MCTricks, 1, {"off"}, MCPoints, FALSE)}

\* A row of a tab group and a single panel, which a later version would have added.
VARIABLES part, layout, operations
TabGroup(number, panels) == [kind |-> "tabs", id |-> <<"default", number>>, panels |-> panels,
                             active |-> panels[1], collapsed |-> FALSE]
Dock == INSTANCE Workspace WITH Panels <- {"memory", "watches", "screen"}, Tool <- "screen",
    Beside <- "memory", MaxOperations <- 4,
    Defaults <- [kind |-> "split", id |-> <<"default", 3>>, axis |-> "horizontal",
                 items |-> <<TabGroup(1, <<"memory", "watches">>), TabGroup(2, <<"screen">>)>>]
workspace == <<layout, operations>>

\* Any laboratory's page arranges its panels as any other's does.
MCInit ==
    /\ Init /\ Dock!Init
    /\ \/ part = "debugger"
       \/ part = "workspace" /\ lab.adapter = "xt"
MCNext ==
    \/ part = "debugger" /\ Next /\ UNCHANGED <<part, workspace>>
    \/ part = "workspace" /\ Dock!Next /\ UNCHANGED <<part, vars>>
MCSpec == MCInit /\ [][MCNext]_<<part, vars, workspace>>

\* An arrangement of panels survives an operation, a visit and a new tool.
LayoutSurvives == [][layout' # layout => Dock!Survives(layout') /\ Dock!OthersKept]_layout
=============================================================================
