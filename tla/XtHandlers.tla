----------------------------- MODULE XtHandlers -----------------------------
(***************************************************************************)
(* The XT's interrupt path under a program whose handlers are well formed: *)
(* each ends its own service with one non-specific EOI, returns by IRET    *)
(* after it, and otherwise does as it likes (enables interrupts, masks     *)
(* requests, halts, calls software interrupts).  The program's stack of    *)
(* interrupt frames is kept as a sequence, the running handler first.      *)
(***************************************************************************)
EXTENDS XtInterrupts, Sequences

CONSTANT MaxFrames             \* bound: the deepest nesting explored

VARIABLE frames                \* [level, if, ended]: what each entry pushed

handlerVars == <<boardVars, historyVars, frames>>

Software == 8                  \* the level of a frame no request caused

EoiCommand == {5}
InitCommand == {0, 1, 4}

ASSUME HandlersAssumption ==
    MaxFrames \in Nat /\ {InitCommand, EoiCommand} \subseteq CommandBytes

HandlersInit == Init /\ frames = <<>>

Enter(level) ==
    frames' = <<[level |-> level, if |-> cpu.if, ended |-> FALSE]>> \o frames

AcceptRequest ==
    /\ AcceptIntr
    /\ Enter(entered'.level)

CallSoftware ==
    /\ ExecuteSoftwareEntry
    /\ Enter(Software)

\* OUT 20h,20h, by the running handler of a request, once.
EndOfInterrupt ==
    /\ frames # <<>>
    /\ Head(frames).level # Software /\ ~Head(frames).ended
    /\ pic' = CommandWritten(pic, EoiCommand)
    /\ Outputs
    /\ frames' = <<[Head(frames) EXCEPT !.ended = TRUE]>> \o Tail(frames)
    /\ UNCHANGED <<control, nmiSpent>>

\* IRET, once the handler has ended the service it was entered for.
Return ==
    /\ frames # <<>>
    /\ Head(frames).level = Software \/ Head(frames).ended
    /\ ExecuteLoadFlags(FALSE, Head(frames).if)
    /\ frames' = Tail(frames)

\* The program initializes the controller once, then only writes masks.
Configure ==
    /\ \/ pic.phase = AwaitingIcw1 /\ pic' = CommandWritten(pic, InitCommand)
       \/ \E byte \in DataBytes :
             DataSupported(pic, byte) /\ pic' = DataWritten(pic, byte)
    /\ Outputs
    /\ UNCHANGED <<control, nmiSpent, frames>>

OtherwiseRuns ==
    /\ \/ StayHalted
       \/ ExecutePlain
       \/ \E newIf \in BOOLEAN : ExecuteInterruptFlag(newIf)
       \/ ExecuteLoadSegment
       \/ ExecuteHalt
       \/ \E line \in BoardLines, high \in BOOLEAN : OutputDevice(line, high)
    /\ UNCHANGED frames

Request ==
    /\ \E line \in Wired, high \in BOOLEAN : DeviceLine(line, high)
    /\ UNCHANGED frames

Runs == AcceptRequest \/ CallSoftware \/ EndOfInterrupt \/ Return
            \/ Configure \/ OtherwiseRuns

\* Entries deeper than MaxFrames are not explored.
HandlersNext ==
    /\ \/ Runs /\ BoundaryEnds
       \/ Request
    /\ Len(frames') <= MaxFrames

HandlersSpec == HandlersInit /\ [][HandlersNext]_handlerVars

-----------------------------------------------------------------------------
(* Properties *)

InService == {i \in 1..Len(frames) :
                frames[i].level # Software /\ ~frames[i].ended}

\* The controller's ISR is exactly the set of requests whose handlers are on
\* the program's stack and have not ended: no EOI ends somebody else's service
\* and no acknowledgement is lost between controller and CPU.
IsrIsTheStack == pic.isr = {frames[i].level : i \in InService}

\* A handler is interrupted only by more urgent requests: from the running one
\* down, the levels in service grow, so no handler is entered twice before it
\* ended and the nesting in service is never deeper than the lines.
NestingByPriority ==
    \A i, j \in InService : i < j => frames[i].level < frames[j].level

\* The stack of handlers and the in-service register are one: what a non-specific EOI ends
\* is the handler that issued it, and nesting follows the priorities.
HandlersNest == IsrIsTheStack /\ NestingByPriority
=============================================================================
