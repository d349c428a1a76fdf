----------------------------- MODULE MCBasicPage -----------------------------
(***************************************************************************)
(* The session alone, under every order of host calls, and its refinement  *)
(* of the serial line; and the page that drives it, with one tape of one   *)
(* byte and two timers, verifications and pages of the tab in play at once.*)
(***************************************************************************)
EXTENDS BasicPage

CONSTANTS a, b

MCByte == {a}
MCBytes == {a, b}
MCTyped == {b}
MCSpoken == {a}
MCTapes == {<<a>>}

CONSTANT Visits     \* which browsers to consider
VARIABLE visit

\* The session without a page.
NoPage == /\ jobs = 0 /\ cancel = 0 /\ error = 0 /\ file = 0 /\ selecting = 0 /\ checks = 0 /\ page = 0
          /\ keptFile = 0 /\ keptError = 0 /\ cached = 0 /\ latest = 0 /\ newest = 0
SessionInit == Init /\ NoPage /\ visit = "none"
SessionNext == Next /\ UNCHANGED <<pageVars, visit>>
SessionSpec == SessionInit /\ [][SessionNext]_<<sessionVars, pageVars, visit>>

\* The same page in a browser that keeps the pages the user has left.
Returning == INSTANCE BasicPage WITH MaxJobs <- 1, MaxChecks <- 1, HistoryCache <- TRUE
VisitNext ==
    /\ UNCHANGED visit
    /\ \/ visit = "once" /\ PageNext
       \/ visit = "returning" /\ Returning!PageNext
VisitInit == PageInit /\ visit \in Visits
VisitSpec == VisitInit /\ [][VisitNext]_<<visit, vars>> /\ Fairness
=============================================================================
