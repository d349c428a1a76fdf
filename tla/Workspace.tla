----------------------------- MODULE Workspace -----------------------------
(***************************************************************************)
(* The docking workspace of the laboratory pages: a tree of rows, columns  *)
(* and tab groups, the operations the tabs, menus and drags apply to it,   *)
(* what the layout preference accepts, and the tools later versions add.   *)
(* Weights are left out: they say how wide, never what is where.           *)
(* Identifiers are <<prefix, number>>.                                     *)
(***************************************************************************)
EXTENDS SequencesExt

CONSTANTS
    Panels,         \* the page's tools
    Defaults,       \* its default layout
    MaxOperations,  \* how many operations TLC lets a history have
    Tool, Beside    \* a tool a later version adds, and the one it is added to

VARIABLES layout, operations
vars == <<layout, operations>>

Nothing == [kind |-> "none"]
Tabs(id, panels, active, collapsed) ==
    [kind |-> "tabs", id |-> id, panels |-> panels, active |-> active, collapsed |-> collapsed]
Split(id, axis, items) == [kind |-> "split", id |-> id, axis |-> axis, items |-> items]

Positions(s, x) == {i \in DOMAIN s : s[i] = x}

RECURSIVE Nodes(_)      \* the nodes of a tree, the root first
Nodes(n) == CASE n.kind = "none" -> <<>>
              [] n.kind = "tabs" -> <<n>>
              [] OTHER -> <<n>> \o FlattenSeq([i \in DOMAIN n.items |-> Nodes(n.items[i])])
IsGroup(n) == n.kind = "tabs"
Groups(n) == SelectSeq(Nodes(n), IsGroup)
GroupsOf(n, panel) == {g \in Range(Groups(n)) : panel \in Range(g.panels)}
PanelGroup(n, panel) == CHOOSE g \in GroupsOf(n, panel) : TRUE
IsOpen(n, panel) == GroupsOf(n, panel) # {}
OpenPanels(n) == {panel \in Panels : IsOpen(n, panel)}
Parents(n, id) == {s \in Range(Nodes(n)) : s.kind = "split" /\ \E i \in DOMAIN s.items : s.items[i].id = id}

Ids(n) == {m.id : m \in Range(Nodes(n))}
NextId(n, prefix) ==
    <<prefix, CHOOSE k \in 1..Cardinality(Ids(n)) + 1 :
                 <<prefix, k>> \notin Ids(n) /\ \A j \in 1..k - 1 : <<prefix, j>> \in Ids(n)>>

----------------------------------------------------------------------------
(* Operations on a layout.                                                 *)

\* Children of the same direction belong to one row or column; a row of one is that one.
Flat(axis, child) == IF child.kind = "split" /\ child.axis = axis THEN child.items ELSE <<child>>
RECURSIVE NormalizeSplit(_)
NormalizeSplit(n) ==
    IF n.kind # "split" THEN n
    ELSE LET items == FlattenSeq([i \in DOMAIN n.items |-> Flat(n.axis, NormalizeSplit(n.items[i]))])
         IN  IF Len(items) = 1 THEN items[1] ELSE [n EXCEPT !.items = items]

RECURSIVE Replace(_, _, _)
Replace(n, id, node) ==
    IF n.id = id THEN node
    ELSE IF n.kind # "split" THEN n
    ELSE [n EXCEPT !.items = [i \in DOMAIN n.items |-> Replace(n.items[i], id, node)]]

ActivatePanel(n, panel) ==
    IF ~IsOpen(n, panel) THEN n
    ELSE LET g == PanelGroup(n, panel)
         IN  Replace(n, g.id, [g EXCEPT !.active = panel, !.collapsed = FALSE])
CollapseGroup(n, g, collapsed) == Replace(n, g.id, [g EXCEPT !.collapsed = collapsed])

\* The neighbour that takes a closed tab's place becomes active.
ActiveUnchanged(g, panel, rest) == g.active
ActiveAfter(g, panel, rest) ==
    IF g.active = panel THEN rest[Min({Len(rest)} \cup Positions(g.panels, panel))] ELSE g.active
RECURSIVE ClosePanel(_, _)
ClosePanel(n, panel) ==
    CASE n.kind = "none" -> n
      [] n.kind = "tabs" ->
           LET rest == Remove(n.panels, panel) IN
           IF ~Contains(n.panels, panel) THEN n
           ELSE IF rest = <<>> THEN Nothing
           ELSE [n EXCEPT !.panels = rest, !.active = ActiveAfter(n, panel, rest)]
      [] OTHER ->
           LET Left(child) == child.kind # "none"
               items == SelectSeq([i \in DOMAIN n.items |-> ClosePanel(n.items[i], panel)], Left)
           IN  IF items = <<>> THEN Nothing ELSE NormalizeSplit([n EXCEPT !.items = items])

\* A place among the tabs of a group, the panel's own old place not counted.
MoveToTab(n, panel, g, index) ==
    LET at == IF \E old \in Positions(g.panels, panel) : old <= index THEN index - 1 ELSE index
        base == IF Contains(g.panels, panel) THEN n ELSE ClosePanel(n, panel)
    IN  Replace(base, g.id, Tabs(g.id, InsertAt(Remove(g.panels, panel), at + 1, panel), panel, FALSE))

Axis(side) == IF side \in {"left", "right"} THEN "horizontal" ELSE "vertical"
Before(side) == side \in {"left", "above"}
\* A whole group that stays in its row or column keeps its identity and its state.
Permuted(n, parent, own, g, side) ==
    LET IsOther(item) == item.id # own.id
        others == SelectSeq(parent.items, IsOther)
        at == CHOOSE i \in DOMAIN others : others[i].id = g.id
    IN  Replace(n, parent.id, [parent EXCEPT !.items = InsertAt(others, IF Before(side) THEN at ELSE at + 1, own)])
\* Otherwise the panel leaves its group, which may vanish, and the destination is divided.
Divided(n, panel, sources, g, side) ==
    LET base == ClosePanel(n, panel)
        whole == {own \in sources : Len(own.panels) = 1}
        new == IF whole # {} THEN CHOOSE own \in whole : TRUE
               ELSE Tabs(NextId(n, "group"), <<panel>>, panel, FALSE)
        node == CHOOSE m \in Range(Groups(base)) : m.id = g.id
    IN  NormalizeSplit(Replace(base, g.id,
            Split(NextId(n, "split"), Axis(side), IF Before(side) THEN <<new, node>> ELSE <<node, new>>)))
MovePanel(n, panel, g, side, index) ==
    LET sources == GroupsOf(n, panel)
        alone == {own \in sources : Len(own.panels) = 1}
        row(own) == {p \in Parents(n, g.id) \cap Parents(n, own.id) : p.axis = Axis(side)}
    IN  CASE side = "tab" -> MoveToTab(n, panel, g, index)
          [] side # "tab" /\ g \in alone -> n
          [] side # "tab" /\ g \notin alone /\ (\E own \in alone : row(own) # {}) ->
               LET own == CHOOSE own \in alone : TRUE
               IN  Permuted(n, CHOOSE p \in row(own) : TRUE, own, g, side)
          [] OTHER -> Divided(n, panel, sources, g, side)
OpenPanel(n, panel) ==
    IF IsOpen(n, panel) THEN ActivatePanel(n, panel)
    ELSE IF Groups(n) = <<>> THEN Tabs(<<"group", 1>>, <<panel>>, panel, FALSE)
    ELSE LET g == Groups(n)[1] IN MovePanel(n, panel, g, "tab", Len(g.panels))

\* What a stored layout must be to be read back; reading it normalises it.
Decodes(n) ==
    LET nodes == Nodes(n)
        tabs == FlattenSeq([i \in DOMAIN Groups(n) |-> Groups(n)[i].panels])
    IN  /\ Cardinality(Ids(n)) = Len(nodes)
        /\ IsInjective(tabs) /\ Range(tabs) \subseteq Panels
        /\ \A m \in Range(nodes) : IF m.kind = "tabs" THEN m.panels # <<>> /\ m.active \in Range(m.panels)
                                   ELSE Len(m.items) >= 2

\* A tool that a later version adds joins the tabs of another, which keep their active tab
\* and their collapse; when that other is hidden the tool opens where any panel would.
WithTab(n) ==
    IF IsOpen(n, Tool) THEN n
    ELSE IF ~IsOpen(n, Beside) THEN OpenPanel(n, Tool)
    ELSE LET g == PanelGroup(n, Beside)
             added == ActivatePanel(MovePanel(n, Tool, g, "tab", Len(g.panels)), g.active)
         IN  CollapseGroup(added, PanelGroup(added, Tool), g.collapsed)

----------------------------------------------------------------------------
(* The page. Every operation commits the whole new layout.                 *)

Init == layout = NormalizeSplit(Defaults) /\ operations = 0
Commit(next) == operations < MaxOperations /\ layout' = next /\ operations' = operations + 1
Select == \E panel \in OpenPanels(layout) : Commit(ActivatePanel(layout, panel))
Show == \E panel \in Panels : Commit(OpenPanel(layout, panel))
Hide == \E panel \in Panels : Commit(ClosePanel(layout, panel))
Collapse == \E g \in Range(Groups(layout)) : Commit(CollapseGroup(layout, g, ~g.collapsed))
\* A tab dropped on a group, at a side or at a place among its tabs.
Drop ==
    \E panel \in OpenPanels(layout), g \in Range(Groups(layout)) :
      \/ \E index \in 0..Len(g.panels) : Commit(MovePanel(layout, panel, g, "tab", index))
      \/ \E side \in {"left", "right", "above", "below"} : Commit(MovePanel(layout, panel, g, side, 0))
\* The menu also places a closed panel, beside another open one.
Place ==
    \E panel \in Panels, target \in OpenPanels(layout), side \in {"tab", "left", "right", "above", "below"} :
      /\ target # panel
      /\ LET g == PanelGroup(layout, target) IN Commit(MovePanel(layout, panel, g, side, Len(g.panels)))
Reset == Commit(Defaults)
\* A new visit reads what the last one stored, or falls back to the default.
Reload == \/ Decodes(layout) /\ Commit(NormalizeSplit(layout))
          \/ layout' = NormalizeSplit(Defaults) /\ operations' = 0
Next == Select \/ Show \/ Hide \/ Collapse \/ Drop \/ Place \/ Reset \/ Reload
Spec == Init /\ [][Next]_vars

----------------------------------------------------------------------------
(* Properties.                                                             *)

\* movePanel, closePanel and normalizeSplit: whatever the user does, the arrangement is one
\* the next visit reads back unchanged: every panel once, every identifier once, no row of
\* one and no row inside a row. And the tool a later version adds (withTab, addTab,
\* addChanges) disturbs nothing: taking it away again gives back the arrangement the user
\* left, with the same active tabs and collapsed groups.
Survives(n) ==
    /\ Decodes(n) /\ NormalizeSplit(n) = n
    /\ Decodes(WithTab(n)) /\ IsOpen(WithTab(n), Tool)
    /\ IsOpen(n, Beside) /\ ~IsOpen(n, Tool) => ClosePanel(WithTab(n), Tool) = n
\* And one operation changes at most the group it leaves and the group it enters: every
\* other keeps its tabs, its active tab and its collapse, and no other panel is lost.
OthersKept ==
    \/ /\ Cardinality(OpenPanels(layout) \ OpenPanels(layout')) <= 1
       /\ Cardinality(Range(Groups(layout)) \ Range(Groups(layout'))) <= 2
    \/ layout' = NormalizeSplit(Defaults)
=============================================================================
