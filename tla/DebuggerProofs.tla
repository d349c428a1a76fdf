-------------------------- MODULE DebuggerProofs --------------------------
(***************************************************************************)
(* Proofs about the instruction debugger in its laboratories, for every    *)
(* program, set of places, limit and depth of the call stack.  A stop is   *)
(* where the machine is because every operation that stops is given the    *)
(* place after its boundary (PolicyInv); a request comes back where it     *)
(* should because the frame it waits for keeps its number, return address  *)
(* and depth, and no other frame gets that number (RequestInv); and the    *)
(* callers of a disciplined program are its stacked return addresses       *)
(* because each boundary pushes and pops both together, CWAI's frame       *)
(* included (CallsInv).                                                    *)
(***************************************************************************)
EXTENDS DebuggedMachine, FiniteSetTheorems, SequenceTheorems, TLAPS

Location == [address : Places, space : {"ram"}]
StopKinds == {"breakpoint", "watchpoint", "step", "over", "out", "target", "until",
              "limit", "pause", "error", "tracking-lost"}
Stop == {None} \cup [kind : StopKinds, at : Location]
Skip == {None} \cup [kind : {"at"}, at : Location]
Target == [address : Places, space : {Anywhere}]
Waits == [kind : {"over", "out"}, frame : 0..NoFrame]
Plan == {None} \cup [kind : {"step", "until"}] \cup Waits \cup [kind : {"target"}, point : Target]
Frame == [id : 0..(FrameLimit + 1), flow : {"call", "interrupt"}, caller : Location,
          returnsTo : Places, stack : Nat]
Debugger ==
    [points : SUBSET Point, plan : Plan, stop : Stop, skip : Skip, completed : BOOLEAN,
     remaining : Int, frames : Seq(Frame), lost : BOOLEAN]

Flow == {"none", "call", "return", "interrupt", "interrupt-return", "stack-return"}
Steps == [before : Location, after : Location, flow : Flow, stackBefore : Nat, stackAfter : Nat,
          returnsTo : Places, resetsStack : BOOLEAN]

\* The policy has stopped: nothing of the request is left.
StoppedAs(e, kind, at) ==
    /\ e.stop = [kind |-> kind, at |-> at]
    /\ e.plan = None /\ e.skip = None /\ e.completed = FALSE

\* The request goes on as it was.
GoesOn(e, d) ==
    /\ e.stop = d.stop /\ e.plan = d.plan /\ e.skip = d.skip
    /\ e.completed = d.completed /\ e.remaining = d.remaining

----------------------------------------------------------------------------
(* What the policy holds.                                                  *)

\* An address of the one mapping is a location.
LEMMA AtType ==
    ASSUME NEW p \in Places
    PROVE  At(p) \in Location
BY DEF At, Location

\* The place after a place is a place: the program wraps around its last one.
LEMMA FollowingType ==
    ASSUME NEW p \in Places
    PROVE  Following(p) \in Places
<1>1. Cardinality(Places) \in Nat /\ Cardinality(Places) # 0 /\ p \in Nat
  BY PlacesAssumption, FS_CardinalityType
<1>2. (p + 1) % Cardinality(Places) \in 0..(Cardinality(Places) - 1)
  BY <1>1
<1> QED  BY <1>2, PlacesAssumption DEF Following

\* What a plan is follows from its kind.
LEMMA PlanKinds ==
    ASSUME NEW plan \in Plan
    PROVE  /\ plan.kind = "none" <=> plan = None
           /\ plan.kind \in {"over", "out"} => plan \in Waits /\ plan.frame \in 0..NoFrame
           /\ plan.kind \in {"none", "step", "until", "over", "out", "target"}
           /\ plan.kind \in StopKinds \/ plan = None
           /\ plan.kind = "target" => plan.point \in Target
BY DEF Plan, None, Waits, Target, StopKinds

\* Only the absent stop has the kind "none"; every other names a location.
LEMMA StopKind ==
    ASSUME NEW stop \in Stop
    PROVE  /\ stop.kind = "none" <=> stop = None
           /\ stop # None => stop.at \in Location
BY DEF Stop, None, StopKinds

----------------------------------------------------------------------------
(* The policy, operation by operation.                                     *)

\* finish(): the request is over, and the callers and breakpoints stay.
LEMMA FinishType ==
    ASSUME NEW d \in Debugger, NEW kind \in StopKinds, NEW at \in Location
    PROVE  /\ Finish(d, kind, at) \in Debugger
           /\ StoppedAs(Finish(d, kind, at), kind, at)
           /\ Finish(d, kind, at).frames = d.frames
           /\ Finish(d, kind, at).points = d.points
<1>1. [kind |-> kind, at |-> at] \in Stop
  BY DEF Stop
<1>2. None \in Plan /\ None \in Skip
  BY DEF Plan, Skip
<1> QED  BY <1>1, <1>2 DEF Finish, Debugger, StoppedAs

\* start(): a new request; it skips the stop it begins at only when it crosses it.
LEMMA StartType ==
    ASSUME NEW d \in Debugger, NEW at \in Location, NEW request \in Plan, NEW cross \in BOOLEAN
    PROVE  LET e == Start(d, at, request, cross, Limit)
           IN  /\ e \in Debugger
               /\ e.stop = None /\ e.plan = request /\ e.completed = FALSE
               /\ e.remaining = Limit /\ e.frames = d.frames /\ e.points = d.points
               /\ e.skip \in {None, [kind |-> "at", at |-> at]}
               /\ e.skip # None => cross \/ d.stop = [kind |-> "breakpoint", at |-> at]
<1> DEFINE skip == IF cross \/ (d.stop = [kind |-> "breakpoint", at |-> at])
                   THEN [kind |-> "at", at |-> at] ELSE None
<1>1. /\ skip \in {None, [kind |-> "at", at |-> at]}
      /\ skip # None => cross \/ d.stop = [kind |-> "breakpoint", at |-> at]
      /\ skip \in Skip
  BY DEF Skip
<1> HIDE DEF skip
<1>2. None \in Stop /\ Limit \in Int
  BY LimitsAssumption DEF Stop
<1>3. Start(d, at, request, cross, Limit) =
        [d EXCEPT !.skip = skip, !.stop = None, !.plan = request, !.completed = FALSE,
                  !.remaining = Limit]
  BY DEF Start, skip
<1> QED  BY <1>1, <1>2, <1>3 DEF Debugger

\* Frames are forgotten; a request that waits for one of them ends here.
LEMMA LoseTrackingType ==
    ASSUME NEW d \in Debugger, NEW at \in Location
    PROVE  LET e == LoseTracking(d, at)
           IN  /\ e \in Debugger
               /\ e.frames = <<>> /\ e.points = d.points
               /\ \/ StoppedAs(e, "tracking-lost", at)
                  \/ /\ GoesOn(e, d)
                     /\ d.plan.kind # "out"
                     /\ d.plan.kind = "over" => d.plan.frame = NoFrame
<1> DEFINE f == [d EXCEPT !.frames = <<>>, !.lost = TRUE]
<1>1. <<>> \in Seq(Frame)
  OBVIOUS
<1>2. f \in Debugger /\ f.frames = <<>> /\ f.points = d.points /\ GoesOn(f, d)
  BY <1>1 DEF Debugger, GoesOn
<1>3. "tracking-lost" \in StopKinds
  BY DEF StopKinds
<1> DEFINE waits == \/ d.plan.kind = "out"
                    \/ d.plan.kind = "over" /\ d.plan.frame # NoFrame
<1>4. LoseTracking(d, at) = IF waits THEN Finish(f, "tracking-lost", at) ELSE f
  BY DEF LoseTracking
<1>5. ~waits => d.plan.kind # "out" /\ (d.plan.kind = "over" => d.plan.frame = NoFrame)
  OBVIOUS
<1> HIDE DEF f, waits
<1>6. CASE waits
  BY <1>2, <1>3, <1>4, <1>6, FinishType
<1>7. CASE ~waits
  BY <1>2, <1>4, <1>5, <1>7
<1> QED  BY <1>6, <1>7

\* fail(): an error stops the request and forgets the callers.
LEMMA FailType ==
    ASSUME NEW d \in Debugger, NEW at \in Location
    PROVE  LET e == Fail(d, at)
           IN  /\ e \in Debugger
               /\ StoppedAs(e, "error", at)
               /\ e.frames = <<>> /\ e.points = d.points
<1> DEFINE f == [d EXCEPT !.frames = <<>>, !.lost = TRUE]
<1>1. <<>> \in Seq(Frame)
  OBVIOUS
<1>2. f \in Debugger /\ f.frames = <<>> /\ f.points = d.points
  BY <1>1 DEF Debugger
<1>3. "error" \in StopKinds /\ Fail(d, at) = Finish(f, "error", at)
  BY DEF StopKinds, Fail
<1> HIDE DEF f
<1> QED  BY <1>2, <1>3, FinishType

\* reset(): nothing of what was observed is left, the breakpoints stay.
LEMMA ResetType ==
    ASSUME NEW d \in Debugger
    PROVE  LET e == ResetDebugger(d)
           IN  /\ e \in Debugger
               /\ e.stop = None /\ e.plan = None /\ e.skip = None /\ e.completed = FALSE
               /\ e.frames = <<>> /\ e.points = d.points
<1>1. <<>> \in Seq(Frame) /\ None \in Stop /\ None \in Plan /\ None \in Skip
  BY DEF Stop, Plan, Skip
<1> QED  BY <1>1 DEF ResetDebugger, Debugger

\* The question before an instruction: a stop at this place, or on with the request.
LEMMA BeforeStepType ==
    ASSUME NEW d \in Debugger, NEW at \in Location, NEW here \in BOOLEAN, NEW software \in BOOLEAN
    PROVE  LET e == BeforeStep(d, at, here, software)
           IN  /\ e \in Debugger /\ e.frames = d.frames /\ e.points = d.points
               /\ \/ d.stop # None /\ e = d
                  \/ /\ d.stop = None
                     /\ \/ StoppedAs(e, "breakpoint", at)
                        \/ StoppedAs(e, "limit", at)
                        \/ PlanReached(d, at, here) /\ StoppedAs(e, PlanStop(d), at)
                  \/ /\ d.stop = None /\ e.skip = None /\ GoesOn(e, [d EXCEPT !.skip = None])
                     /\ ~PlanReached(d, at, here)
                     /\ d.plan # None => d.remaining # 0
                     /\ d.skip = [kind |-> "at", at |-> at] \/ ~AtPoint(d, at, software)
<1> DEFINE f == [d EXCEPT !.skip = None]
<1>1. /\ f \in Debugger /\ f.frames = d.frames /\ f.points = d.points
      /\ f.plan = d.plan /\ f.skip = None /\ f.completed = d.completed
      /\ f.remaining = d.remaining /\ GoesOn(f, f)
  <2>1. None \in Skip
    BY DEF Skip
  <2> QED  BY <2>1 DEF Debugger, GoesOn
<1>2. PlanReached(f, at, here) <=> PlanReached(d, at, here)
  BY <1>1 DEF PlanReached
<1> DEFINE bypass == d.skip = [kind |-> "at", at |-> at]
           point == AtPoint(d, at, software)
           reached == PlanReached(d, at, here)
           spent == d.plan # None /\ d.remaining = 0
<1>3. BeforeStep(d, at, here, software) =
        IF d.stop # None THEN d
        ELSE IF ~bypass /\ point THEN Finish(f, "breakpoint", at)
        ELSE IF reached THEN Finish(f, PlanStop(d), at)
        ELSE IF spent THEN Finish(f, "limit", at)
        ELSE f
  BY <1>2 DEF BeforeStep
<1>4. "breakpoint" \in StopKinds /\ "limit" \in StopKinds
  BY DEF StopKinds
<1>5. ASSUME reached
      PROVE  PlanStop(d) \in StopKinds
  <2>1. d.plan \in Plan
    BY DEF Debugger
  <2>2. d.plan # None
    BY <1>5, <2>1 DEF PlanReached, None
  <2> QED  BY <2>1, <2>2, PlanKinds DEF PlanStop, StopKinds
<1>6. ~spent => (d.plan # None => d.remaining # 0)
  OBVIOUS
<1> DEFINE e == BeforeStep(d, at, here, software)
<1> HIDE DEF point, reached, spent, bypass, e
<1>7. CASE d.stop # None
  BY <1>3, <1>7 DEF e
<1>8. CASE d.stop = None /\ ~bypass /\ point
  <2>1. e = Finish(f, "breakpoint", at)
    BY <1>3, <1>8 DEF e
  <2> HIDE DEF f
  <2>2. e \in Debugger /\ StoppedAs(e, "breakpoint", at) /\ e.frames = d.frames /\ e.points = d.points
    BY <1>1, <1>4, <2>1, FinishType
  <2> QED  BY <1>8, <2>2 DEF e
<1>9. CASE d.stop = None /\ ~(~bypass /\ point) /\ reached
  <2>1. e = Finish(f, PlanStop(d), at)
    BY <1>3, <1>9 DEF e
  <2> HIDE DEF f
  <2>2. e \in Debugger /\ StoppedAs(e, PlanStop(d), at) /\ e.frames = d.frames /\ e.points = d.points
    BY <1>1, <1>5, <1>9, <2>1, FinishType
  <2> QED  BY <1>9, <2>2 DEF e, reached
<1>10. CASE d.stop = None /\ ~(~bypass /\ point) /\ ~reached /\ spent
  <2>1. e = Finish(f, "limit", at)
    BY <1>3, <1>10 DEF e
  <2> HIDE DEF f
  <2>2. e \in Debugger /\ StoppedAs(e, "limit", at) /\ e.frames = d.frames /\ e.points = d.points
    BY <1>1, <1>4, <2>1, FinishType
  <2> QED  BY <1>10, <2>2 DEF e
<1>11. CASE d.stop = None /\ ~(~bypass /\ point) /\ ~reached /\ ~spent
  <2>1. e = f
    BY <1>3, <1>11 DEF e
  <2>2. e \in Debugger /\ e.skip = None /\ GoesOn(e, f) /\ e.frames = d.frames /\ e.points = d.points
    BY <1>1, <2>1
  <2>3. bypass \/ ~point
    BY <1>11
  <2> QED  BY <1>6, <1>11, <2>2, <2>3 DEF e, bypass, point, reached
<1> QED  BY <1>7, <1>8, <1>9, <1>10, <1>11

\* observeBoundary(): a boundary costs one of the remaining and completes a step.
LEMMA ObserveBoundaryType ==
    ASSUME NEW d \in Debugger
    PROVE  LET e == ObserveBoundary(d)
           IN  /\ e \in Debugger
               /\ e.stop = None /\ e.plan = d.plan /\ e.skip = d.skip
               /\ e.frames = d.frames /\ e.points = d.points
               /\ e.remaining = IF d.plan # None THEN d.remaining - 1 ELSE d.remaining
               /\ e.completed = (d.completed \/ d.plan.kind = "step")
<1> DEFINE r == IF d.plan # None THEN d.remaining - 1 ELSE d.remaining
           c == (d.completed \/ d.plan.kind = "step")
<1>1. r \in Int /\ None \in Stop /\ c \in BOOLEAN
  BY DEF Stop, Debugger
<1>2. ObserveBoundary(d) = [d EXCEPT !.stop = None, !.remaining = r, !.completed = c]
  BY DEF ObserveBoundary
<1> HIDE DEF r, c
<1>3. ObserveBoundary(d).completed = c
  BY <1>2 DEF Debugger
<1>4. ObserveBoundary(d).remaining = r
  BY <1>2 DEF Debugger
<1>5. /\ ObserveBoundary(d) \in Debugger
      /\ ObserveBoundary(d).stop = None /\ ObserveBoundary(d).plan = d.plan
      /\ ObserveBoundary(d).skip = d.skip /\ ObserveBoundary(d).frames = d.frames
      /\ ObserveBoundary(d).points = d.points
  BY <1>1, <1>2 DEF Debugger
<1> QED  BY <1>3, <1>4, <1>5 DEF r, c

\* A nonempty sequence, without its last element.
LEMMA FrontLast ==
    ASSUME NEW S, NEW s \in Seq(S), s # <<>>
    PROVE  /\ Len(s) \in Nat /\ Len(s) >= 1
           /\ Front(s) \in Seq(S) /\ Len(Front(s)) = Len(s) - 1
           /\ \A i \in 1..(Len(s) - 1) : Front(s)[i] = s[i]
           /\ Last(s) = s[Len(s)] /\ Last(s) \in S
<1>1. Len(s) \in Nat /\ Len(s) >= 1
  BY EmptySeq
<1>2. \A i \in 1..(Len(s) - 1) : s[i] \in S
  BY <1>1, ElementOfSeq
<1> DEFINE front == SubSeq(s, 1, Len(s) - 1)
<1>3. /\ front \in Seq(S)
      /\ Len(front) = IF 1 <= Len(s) - 1 THEN (Len(s) - 1) - 1 + 1 ELSE 0
      /\ \A i \in 1..((Len(s) - 1) - 1 + 1) : front[i] = s[1 + i - 1]
  BY <1>1, <1>2, SubSeqProperties
<1>4. s[Len(s)] \in S
  BY <1>1, ElementOfSeq
<1>5. Front(s) = front /\ Last(s) = s[Len(s)]
  BY DEF Front, Last
<1> HIDE DEF front
<1>6. Len(front) = Len(s) - 1
  <2> DEFINE n == Len(s)
  <2>1. n \in Nat /\ n >= 1 /\ Len(front) = IF 1 <= n - 1 THEN (n - 1) - 1 + 1 ELSE 0
    BY <1>1, <1>3
  <2> HIDE DEF n
  <2>2. Len(front) = n - 1
    BY <2>1
  <2> QED  BY <2>2 DEF n
<1>7. ASSUME NEW i \in 1..(Len(s) - 1) PROVE front[i] = s[i]
  BY <1>1, <1>3
<1> QED  BY <1>1, <1>3, <1>4, <1>5, <1>6, <1>7

\* Among FrameLimit + 2 numbers one is not the number of a frame nor the plan's.
LEMMA FreshFrameExists ==
    ASSUME NEW d \in Debugger, Len(d.frames) < FrameLimit
    PROVE  /\ FreshFrame(d) \in 0..(FrameLimit + 1)
           /\ \A i \in DOMAIN d.frames : d.frames[i].id # FreshFrame(d)
           /\ "frame" \in DOMAIN d.plan => d.plan.frame # FreshFrame(d)
<1> DEFINE n == Len(d.frames)
           g == [i \in 1..n |-> d.frames[i].id]
           Used == {d.frames[i].id : i \in 1..n}
           x == d.plan.frame
<1>1. d.frames \in Seq(Frame) /\ n \in Nat /\ DOMAIN d.frames = 1..n
  BY LenProperties DEF Debugger
<1>2. g \in Surjection(1..n, Used)
  BY DEF Surjection
<1>3. ExistsSurjection(1..n, Used)
  BY <1>2 DEF ExistsSurjection
<1>4. IsFiniteSet(Used) /\ Cardinality(Used) <= n
  BY <1>1, <1>3, FS_NatSurjection, FS_SurjCardinalityBound
<1>5. Cardinality(Used) \in Nat
  BY <1>4, FS_CardinalityType
<1>6. IsFiniteSet(Used \cup {x}) /\ Cardinality(Used \cup {x}) <= n + 1
  <2> HIDE DEF Used, x, n
  <2>1. /\ IsFiniteSet(Used \cup {x})
        /\ Cardinality(Used \cup {x}) =
             IF x \in Used THEN Cardinality(Used) ELSE Cardinality(Used) + 1
    BY <1>4, FS_AddElement
  <2> QED  BY <1>1, <1>4, <1>5, <2>1
<1>7. IsFiniteSet(0..(FrameLimit + 1)) /\ Cardinality(0..(FrameLimit + 1)) = FrameLimit + 2
  BY LimitsAssumption, FS_Interval
<1>8. ~(0..(FrameLimit + 1) \subseteq Used \cup {x})
  <2> HIDE DEF Used, x
  <2>1. SUFFICES ASSUME 0..(FrameLimit + 1) \subseteq Used \cup {x} PROVE FALSE
    OBVIOUS
  <2>2. Cardinality(0..(FrameLimit + 1)) <= Cardinality(Used \cup {x})
    BY <1>6, <2>1, FS_Subset
  <2>3. Cardinality(Used \cup {x}) \in Nat
    BY <1>6, FS_CardinalityType
  <2> QED  BY <1>1, <1>6, <1>7, <2>2, <2>3, LimitsAssumption
<1>9. PICK id \in 0..(FrameLimit + 1) : id \notin Used /\ id # x
  BY <1>8
<1>10. \A i \in DOMAIN d.frames : d.frames[i].id # id
  BY <1>1, <1>9
<1> QED  BY <1>9, <1>10 DEF FreshFrame

Distinct(frames) == \A i, j \in DOMAIN frames : frames[i].id = frames[j].id => i = j

\* What the policy keeps of its callers: not too many, and no number twice.
Kept(d) == d \in Debugger /\ Len(d.frames) <= FrameLimit /\ Distinct(d.frames)

Calling(s) == s.flow \in {"call", "interrupt"}
Returning(s) == s.flow \in {"return", "interrupt-return", "stack-return"}
CallOf(f, s) == f \in Frame /\ f.returnsTo = s.returnsTo /\ f.stack = s.stackBefore

\* The callers after a step: forgotten, left alone, one more or one less.
Followed(frames, old, s) ==
    \/ frames = <<>>
    \/ frames = old /\ ~Calling(s) /\ ~Returning(s) /\ ~s.resetsStack
    \/ Calling(s) /\ \E f : CallOf(f, s) /\ frames \in {<<f>>, Append(old, f)}
    \/ Returning(s) /\ old # <<>> /\ frames = Front(old) /\ ReturnsFrom(Last(old), s)

\* The request after a step: it lost its frame, or goes on, perhaps with the frame it waits for
\* or with that frame's return.
Advanced(e, d, s) ==
    \/ StoppedAs(e, "tracking-lost", s.after)
    \/ /\ e.stop = d.stop /\ e.skip = d.skip /\ e.remaining = d.remaining
       /\ \/ /\ e.plan = d.plan /\ e.completed = d.completed
             /\ d.plan.kind \in {"over", "out"} /\ d.plan.frame # NoFrame
                => \A i \in DOMAIN e.frames : e.frames[i].id = d.plan.frame
                       => \E j \in DOMAIN d.frames : d.frames[j] = e.frames[i]
             /\ d.plan.kind = "over" /\ d.plan.frame = NoFrame => ~Calling(s)
          \/ /\ Calling(s) /\ d.plan.kind = "over" /\ d.plan.frame = NoFrame
             /\ e.completed = d.completed
             /\ e.plan \in Waits /\ e.plan.kind = "over" /\ e.plan.frame # NoFrame
             /\ \A i \in DOMAIN e.frames : e.frames[i].id = e.plan.frame => CallOf(e.frames[i], s)
          \/ /\ Returning(s) /\ d.plan.kind \in {"over", "out"} /\ d.plan.frame # NoFrame
             /\ e.plan = d.plan /\ e.completed = TRUE
             /\ \A i \in DOMAIN e.frames : \E j \in DOMAIN d.frames : d.frames[j] = e.frames[i]
             /\ \E j \in DOMAIN d.frames : d.frames[j].id = d.plan.frame /\ ReturnsFrom(d.frames[j], s)

\* A call: its frame is the last, after the callers seen so far or after tracking was lost.
LEMMA PushEffect ==
    ASSUME NEW d, Kept(d), NEW s \in Steps, Calling(s)
    PROVE  LET e == PushFrame(d, s)
           IN  Kept(e) /\ e.points = d.points /\ Followed(e.frames, d.frames, s) /\ Advanced(e, d, s)
<1>0. d \in Debugger /\ d.plan \in Plan /\ d.frames \in Seq(Frame) /\ Len(d.frames) \in Nat
  BY DEF Kept, Debugger
<1> DEFINE room == IF Len(d.frames) = FrameLimit THEN LoseTracking(d, s.after) ELSE d
<1>1. /\ room \in Debugger /\ room.points = d.points
      /\ Len(room.frames) < FrameLimit /\ Distinct(room.frames) /\ room.frames \in {<<>>, d.frames}
      /\ \/ StoppedAs(room, "tracking-lost", s.after)
         \/ /\ GoesOn(room, d)
            /\ \/ room.frames = d.frames
               \/ d.plan.kind # "out" /\ (d.plan.kind = "over" => d.plan.frame = NoFrame)
  <2>1. CASE Len(d.frames) = FrameLimit
    <3>1. s.after \in Location /\ room = LoseTracking(d, s.after)
      BY <2>1 DEF Steps
    <3>2. <<>> \in Seq(Frame) /\ Len(<<>>) = 0 /\ Distinct(<<>>)
      BY DEF Distinct
    <3> HIDE DEF room
    <3> QED  BY <1>0, <3>1, <3>2, LoseTrackingType, LimitsAssumption
  <2>2. CASE Len(d.frames) # FrameLimit
    <3>1. room = d /\ GoesOn(d, d)
      BY <2>2 DEF GoesOn
    <3> HIDE DEF room
    <3> QED  BY <1>0, <2>2, <3>1, LimitsAssumption DEF Kept
  <2> QED  BY <2>1, <2>2
<1> HIDE DEF room
<1> DEFINE id == FreshFrame(room)
           f == [id |-> id, flow |-> s.flow, caller |-> s.before,
                 returnsTo |-> s.returnsTo, stack |-> s.stackBefore]
           g == [room EXCEPT !.frames = Append(@, f)]
<1>2. /\ id \in 0..(FrameLimit + 1) /\ id # NoFrame
      /\ \A i \in DOMAIN room.frames : room.frames[i].id # id
      /\ "frame" \in DOMAIN room.plan => room.plan.frame # id
  <2>1. \A n \in 0..(FrameLimit + 1) : n # NoFrame
    BY LimitsAssumption DEF NoFrame
  <2> QED  BY <1>1, <2>1, FreshFrameExists
<1> HIDE DEF id
<1>3. f \in Frame /\ f.id = id /\ CallOf(f, s)
  BY <1>2 DEF Frame, Steps, Calling, CallOf
<1> HIDE DEF f
<1>4. room.frames \in Seq(Frame) /\ Len(room.frames) \in Nat
  BY <1>1 DEF Debugger
<1>5. /\ Append(room.frames, f) \in Seq(Frame)
      /\ Len(Append(room.frames, f)) = Len(room.frames) + 1
      /\ DOMAIN Append(room.frames, f) = 1..(Len(room.frames) + 1)
      /\ DOMAIN room.frames = 1..Len(room.frames)
      /\ \A i \in 1..Len(room.frames) : Append(room.frames, f)[i] = room.frames[i]
      /\ Append(room.frames, f)[Len(room.frames) + 1] = f
  BY <1>3, <1>4, AppendProperties, LenProperties
<1> DEFINE frames == Append(room.frames, f)
<1> HIDE DEF frames
<1>6. frames \in Seq(Frame) /\ Len(frames) <= FrameLimit /\ Distinct(frames)
  BY <1>1, <1>2, <1>3, <1>4, <1>5, LimitsAssumption DEF Distinct, frames
<1>7. Followed(frames, d.frames, s)
  <2>1. frames \in {<<f>>, Append(d.frames, f)}
    <3>1. Append(<<>>, f) = <<f>>
      BY <1>3
    <3> QED  BY <1>1, <3>1 DEF frames
  <2> QED  BY <1>3, <2>1 DEF Followed
<1>8. /\ g \in Debugger /\ g.frames = frames /\ g.points = d.points
      /\ g.plan = room.plan /\ g.stop = room.stop /\ g.skip = room.skip
      /\ g.completed = room.completed /\ g.remaining = room.remaining
  <2>1. g = [room EXCEPT !.frames = frames]
    BY DEF frames
  <2> QED  BY <1>1, <1>6, <2>1 DEF Debugger
<1> HIDE DEF g
<1> DEFINE binds == g.plan.kind = "over" /\ g.plan.frame = NoFrame
<1>9. PushFrame(d, s) = IF binds THEN [g EXCEPT !.plan.frame = id] ELSE g
  BY DEF PushFrame, room, id, f, g
<1>10. \A i \in DOMAIN frames : frames[i].id = id => CallOf(frames[i], s)
  BY <1>2, <1>3, <1>5 DEF frames
<1>11. \A i \in DOMAIN frames : frames[i].id # id => \E j \in DOMAIN d.frames : d.frames[j] = frames[i]
  BY <1>1, <1>3, <1>5 DEF frames
<1>12. CASE StoppedAs(room, "tracking-lost", s.after)
  <2>1. ~binds
    BY <1>8, <1>12 DEF StoppedAs, None
  <2>2. PushFrame(d, s) = g
    BY <1>9, <2>1
  <2>3. StoppedAs(g, "tracking-lost", s.after)
    BY <1>8, <1>12 DEF StoppedAs
  <2> QED  BY <1>6, <1>7, <1>8, <2>2, <2>3 DEF Kept, Advanced
<1>13. CASE GoesOn(room, d) /\ binds
  <2>1. g.plan \in Waits /\ g.plan.frame = NoFrame /\ g.plan.kind = "over"
    BY <1>8, <1>13, PlanKinds DEF Debugger
  <2> DEFINE plan == [g.plan EXCEPT !.frame = id]
             e == [g EXCEPT !.plan = plan]
  <2>2. plan \in Waits /\ plan \in Plan /\ plan.kind = "over" /\ plan.frame = id
    BY <1>2, <2>1, LimitsAssumption DEF Waits, Plan, NoFrame
  <2>3. PushFrame(d, s) = e
    BY <1>9, <1>13
  <2> HIDE DEF plan
  <2>4. /\ e \in Debugger /\ e.frames = frames /\ e.points = d.points /\ e.plan = plan
        /\ e.stop = d.stop /\ e.skip = d.skip /\ e.completed = d.completed
        /\ e.remaining = d.remaining
    BY <1>8, <1>13, <2>2 DEF Debugger, GoesOn
  <2> HIDE DEF e
  <2>5. d.plan.kind = "over" /\ d.plan.frame = NoFrame
    BY <1>8, <1>13 DEF GoesOn
  <2>6. Advanced(e, d, s)
    BY <1>2, <1>10, <2>2, <2>4, <2>5 DEF Advanced
  <2> QED  BY <1>6, <1>7, <2>3, <2>4, <2>6 DEF Kept
<1>14. CASE GoesOn(room, d) /\ ~binds
  <2>1. PushFrame(d, s) = g
    BY <1>9, <1>14
  <2>2. ~(d.plan.kind = "over" /\ d.plan.frame = NoFrame)
    BY <1>8, <1>14 DEF GoesOn
  <2>3. ASSUME d.plan.kind \in {"over", "out"}, d.plan.frame # NoFrame,
               NEW i \in DOMAIN g.frames, g.frames[i].id = d.plan.frame
        PROVE  \E j \in DOMAIN d.frames : d.frames[j] = g.frames[i]
    <3>1. d.plan \in Waits /\ room.plan = d.plan
      BY <1>0, <1>14, <2>3, PlanKinds DEF GoesOn
    <3>2. "frame" \in DOMAIN d.plan
      BY <3>1 DEF Waits
    <3>3. frames[i].id # id
      BY <1>2, <1>8, <2>3, <3>1, <3>2
    <3> QED  BY <1>8, <1>11, <2>3, <3>3
  <2>4. Advanced(g, d, s)
    BY <1>8, <1>14, <2>2, <2>3 DEF Advanced, GoesOn
  <2> QED  BY <1>6, <1>7, <1>8, <2>1, <2>4 DEF Kept
<1> QED  BY <1>1, <1>12, <1>13, <1>14

\* Frames forgotten: the rest of what a step that is not a call promises.
LEMMA LoseEffect ==
    ASSUME NEW d, Kept(d), NEW s \in Steps, ~Calling(s)
    PROVE  LET e == LoseTracking(d, s.after)
           IN  Kept(e) /\ e.points = d.points /\ Followed(e.frames, d.frames, s) /\ Advanced(e, d, s)
<1> DEFINE e == LoseTracking(d, s.after)
<1>1. d \in Debugger /\ s.after \in Location
  BY DEF Kept, Steps
<1>2. /\ e \in Debugger /\ e.frames = <<>> /\ e.points = d.points
      /\ \/ StoppedAs(e, "tracking-lost", s.after)
         \/ GoesOn(e, d)
  BY <1>1, LoseTrackingType
<1> HIDE DEF e
<1>3. Len(e.frames) = 0 /\ DOMAIN e.frames = {}
  BY <1>2
<1>4. Kept(e) /\ Followed(e.frames, d.frames, s)
  BY <1>2, <1>3, LimitsAssumption DEF Kept, Distinct, Followed
<1>5. Advanced(e, d, s)
  BY <1>2, <1>3 DEF Advanced, GoesOn
<1> QED  BY <1>2, <1>4, <1>5 DEF e

\* A return: the last caller is gone, or no caller is known any more.
LEMMA PopEffect ==
    ASSUME NEW d, Kept(d), NEW s \in Steps, Returning(s)
    PROVE  LET e == PopFrame(d, s)
           IN  Kept(e) /\ e.points = d.points /\ Followed(e.frames, d.frames, s) /\ Advanced(e, d, s)
<1>1. d \in Debugger /\ d.plan \in Plan /\ d.frames \in Seq(Frame) /\ Len(d.frames) <= FrameLimit
      /\ Distinct(d.frames) /\ d.completed \in BOOLEAN
  BY DEF Kept, Debugger
<1> DEFINE returns == d.frames # <<>> /\ ReturnsFrom(Last(d.frames), s)
           waited == d.plan.kind \in {"over", "out"} /\ d.plan.frame = Last(d.frames).id
           e == [d EXCEPT !.frames = Front(@), !.completed = d.completed \/ waited]
<1>2. PopFrame(d, s) = IF returns THEN e ELSE LoseTracking(d, s.after)
  BY DEF PopFrame
<1>3. CASE ~returns
  <2>1. PopFrame(d, s) = LoseTracking(d, s.after) /\ ~Calling(s)
    BY <1>2, <1>3 DEF Calling, Returning
  <2> QED  BY <2>1, LoseEffect
<1>4. CASE returns
  <2> DEFINE n == Len(d.frames)
             front == Front(d.frames)
             done == (d.completed \/ waited)
             f == Last(d.frames)
  <2>1. /\ n \in Nat /\ n >= 1 /\ front \in Seq(Frame) /\ Len(front) = n - 1
        /\ \A i \in 1..(n - 1) : front[i] = d.frames[i]
        /\ f = d.frames[n] /\ f \in Frame
    BY <1>1, <1>4, FrontLast
  <2>2. done \in BOOLEAN /\ (done <=> d.completed \/ waited) /\ (~waited => done = d.completed)
    BY <1>1
  <2>3. e = [d EXCEPT !.frames = front, !.completed = done]
    OBVIOUS
  <2>4. PopFrame(d, s) = e
    BY <1>2, <1>4
  <2>5. DOMAIN front = 1..(n - 1) /\ DOMAIN d.frames = 1..n
    BY <1>1, <2>1, LenProperties
  <2>6. ReturnsFrom(f, s) /\ d.frames # <<>>
    BY <1>4
  <2>7. waited <=> d.plan.kind \in {"over", "out"} /\ d.plan.frame = f.id
    OBVIOUS
  <2> HIDE DEF front, done, waited, e, n, f
  <2>8. /\ e \in Debugger /\ e.frames = front /\ e.points = d.points /\ e.completed = done
        /\ e.plan = d.plan /\ e.stop = d.stop /\ e.skip = d.skip /\ e.remaining = d.remaining
    BY <1>1, <2>1, <2>2, <2>3 DEF Debugger
  <2>9. Distinct(front)
    BY <1>1, <2>1, <2>5 DEF Distinct
  <2>10. Kept(e)
    BY <1>1, <2>1, <2>8, <2>9, LimitsAssumption DEF Kept, n
  <2>11. Followed(front, d.frames, s)
    BY <2>6 DEF Followed, front, f
  <2>12. f.id # NoFrame
    BY <2>1, LimitsAssumption DEF Frame, NoFrame
  <2>13. CASE waited
    <3>1. d.frames[n] = f /\ n \in DOMAIN d.frames
      BY <2>1, <2>5
    <3>2. \E j \in DOMAIN d.frames : d.frames[j].id = d.plan.frame /\ ReturnsFrom(d.frames[j], s)
      BY <2>6, <2>7, <2>13, <3>1
    <3>3. e.completed = TRUE
      BY <2>2, <2>8, <2>13
    <3>4. \A i \in DOMAIN e.frames : \E j \in DOMAIN d.frames : d.frames[j] = e.frames[i]
      BY <2>1, <2>5, <2>8
    <3>5. Advanced(e, d, s)
      BY <2>7, <2>8, <2>12, <2>13, <3>2, <3>3, <3>4 DEF Advanced
    <3> QED  BY <2>4, <2>8, <2>10, <2>11, <3>5
  <2>14. CASE ~waited
    <3>1. e.completed = d.completed
      BY <2>2, <2>8, <2>14
    <3>2. \A i \in DOMAIN e.frames : \E j \in DOMAIN d.frames : d.frames[j] = e.frames[i]
      BY <2>1, <2>5, <2>8
    <3>3. ~Calling(s)
      BY DEF Calling, Returning
    <3>4. Advanced(e, d, s)
      BY <2>8, <3>1, <3>2, <3>3 DEF Advanced
    <3> QED  BY <2>4, <2>8, <2>10, <2>11, <3>4
  <2> QED  BY <2>13, <2>14
<1> QED  BY <1>3, <1>4

\* A completed step, whose stack pointer is replaced by no call or return.
LEMMA ObserveEffect ==
    ASSUME NEW d, Kept(d), NEW s \in Steps,
           s.resetsStack => ~Calling(s) /\ ~Returning(s)
    PROVE  LET e == Observe(d, s)
           IN  /\ Kept(e) /\ e.points = d.points /\ Followed(e.frames, d.frames, s)
               /\ Advanced(e, ObserveBoundary(d), s)
<1> DEFINE o == ObserveBoundary(d)
<1>1. /\ o \in Debugger /\ o.frames = d.frames /\ o.points = d.points
      /\ Kept(o)
  BY ObserveBoundaryType DEF Kept
<1>2. Observe(d, s) = LET g == IF s.resetsStack THEN LoseTracking(o, s.after) ELSE o
                      IN  IF Calling(s) THEN PushFrame(g, s)
                          ELSE IF Returning(s) THEN PopFrame(g, s) ELSE g
  BY DEF Observe, Calling, Returning
<1> HIDE DEF o
<1>3. CASE s.resetsStack
  <2>1. Observe(d, s) = LoseTracking(o, s.after) /\ ~Calling(s)
    BY <1>2, <1>3
  <2> QED  BY <1>1, <2>1, LoseEffect DEF o
<1>4. CASE ~s.resetsStack /\ Calling(s)
  <2>1. Observe(d, s) = PushFrame(o, s)
    BY <1>2, <1>4
  <2> QED  BY <1>1, <1>4, <2>1, PushEffect DEF o
<1>5. CASE ~s.resetsStack /\ Returning(s)
  <2>1. Observe(d, s) = PopFrame(o, s)
    BY <1>2, <1>5 DEF Calling, Returning
  <2> QED  BY <1>1, <1>5, <2>1, PopEffect DEF o
<1>6. CASE ~s.resetsStack /\ ~Calling(s) /\ ~Returning(s)
  <2>1. Observe(d, s) = o
    BY <1>2, <1>6
  <2>2. Followed(o.frames, d.frames, s)
    BY <1>1, <1>6 DEF Followed
  <2>3. Advanced(o, o, s)
    BY <1>6 DEF Advanced
  <2> QED  BY <1>1, <2>1, <2>2, <2>3 DEF o
<1> QED  BY <1>3, <1>4, <1>5, <1>6

Request == [kind : {"nothing", "run", "step", "over", "out", "target", "until"},
            at : Location \cup {None}, back : Places, depth : Nat, crosses : BOOLEAN]

TypeInv ==
    /\ lab \in Laboratories /\ Kept(dbg) /\ pc \in Places /\ stack \in Seq(Places)
    /\ wait \in {"none", "cwai"} /\ waitingStack \in Nat /\ watching \in BOOLEAN
    /\ hit \in BOOLEAN /\ running \in BOOLEAN /\ stored \in BOOLEAN
    /\ asked \in Request /\ since \in Nat
    /\ Adapter = "apple2" => wait = "none"

----------------------------------------------------------------------------
(* The machine and what a boundary does to it.                             *)

\* The machine's place is a location, and the observer's "unknown" a depth.
LEMMA HereType ==
    ASSUME TypeInv
    PROVE  /\ Here \in Location /\ Here = At(pc) /\ Depth \in Nat /\ Following(pc) \in Places
           /\ Unknown \in Nat
<1>1. pc \in Places /\ stack \in Seq(Places) /\ lab \in Laboratories
  BY DEF TypeInv
<1>2. Following(pc) \in Places
  BY <1>1, FollowingType
<1>3. Here \in Location /\ Here = At(pc) /\ Depth \in Nat
  BY <1>1 DEF Here, At, Location, Depth
<1>4. Unknown \in Nat
  <2>1. lab.maxStack \in Nat
    BY <1>1, LaboratoriesAssumption
  <2> QED  BY <2>1 DEF Unknown, MaxStack
<1> QED  BY <1>2, <1>3, <1>4

\* What a boundary of the program may be.
BoundaryType(b) ==
    /\ b.pc \in Places /\ b.stack \in Seq(Places) /\ b.wait \in {"none", "cwai"}
    /\ b.stackBefore \in Nat /\ b.returnsTo \in Places /\ b.resets \in BOOLEAN /\ b.flow \in Flow
    /\ b.resets => b.flow = "none"
    /\ Adapter = "apple2" => b.wait = "none"

MakesCall(b) ==
    /\ b.flow = "call" /\ b.outcome = "executed" /\ b.wait = "none" /\ b.returnsTo = Following(pc)
    /\ \/ b.stackBefore = Depth /\ b.stack = Append(stack, Following(pc))
       \/ ~lab.disciplined /\ b.stackBefore = Depth - 1
Returns(b) ==
    /\ b.flow \in {"return", "interrupt-return", "stack-return"} /\ b.outcome = "executed"
    /\ b.wait = "none" /\ stack # <<>> /\ b.stack = Front(stack)
Replaces(b) == b.flow = "none" /\ b.resets /\ b.wait = "none" /\ b.outcome = "executed"
Continues(b) ==
    /\ b.flow = "none" /\ b.wait = "none" /\ b.outcome \in {"executed", "unsupported"}
    /\ \/ ~lab.disciplined
       \/ b.stack = stack
       \/ \E x \in Places : b.stack = Append(stack, x)
StartsWaiting(b) ==
    /\ b.flow = "none" /\ b.wait = "cwai" /\ b.outcome = "executed"
    /\ b.pc = Following(pc) /\ b.stack = Append(stack, Following(pc))
Waiting(b) ==
    /\ b.flow = "none" /\ b.outcome = "waiting" /\ b.wait = "cwai" /\ wait = "cwai"
    /\ b.stack = stack /\ b.pc = pc
Accepts(b) ==
    /\ b.flow = "interrupt" /\ b.outcome = "accepted" /\ b.wait = "none"
    /\ b.returnsTo = pc /\ b.stackBefore = Depth
    /\ b.stack = IF wait = "cwai" THEN stack ELSE Append(stack, pc)

Instruction(b) ==
    BoundaryType(b) /\ (MakesCall(b) \/ Returns(b) \/ Replaces(b) \/ Continues(b) \/ StartsWaiting(b))

\* What one instruction may do to the stack, by its kind.
LEMMA DoesShape ==
    ASSUME TypeInv, NEW kind \in Code[pc], NEW b \in Does(kind)
    PROVE  Instruction(b)
<1>1. /\ pc \in Places /\ stack \in Seq(Places) /\ lab \in Laboratories /\ Following(pc) \in Places
      /\ Depth \in Nat /\ Depth = Len(stack) /\ Jumps[pc] \subseteq Places
  <2>1. pc \in Places /\ stack \in Seq(Places) /\ lab \in Laboratories
    BY DEF TypeInv
  <2>2. Jumps[pc] \subseteq Places
    BY <2>1, LaboratoriesAssumption DEF Jumps
  <2>3. Following(pc) \in Places
    BY <2>1, FollowingType
  <2> QED  BY <2>1, <2>2, <2>3 DEF Depth
<1>2. /\ lab.disciplined => kind \notin {"pull", "pulling call"}
      /\ Adapter = "apple2" => kind \notin {"cwai", "unsupported"}
  BY <1>1, LaboratoriesAssumption DEF Adapter, Code
<1>3. \A x \in Places : Append(stack, x) \in Seq(Places)
  BY <1>1
<1>4. ASSUME stack # <<>>
      PROVE  /\ Front(stack) \in Seq(Places) /\ Last(stack) \in Places
             /\ Depth - 1 \in Nat
             /\ \A x \in Places : Append(Front(stack), x) \in Seq(Places)
  <2>1. Front(stack) \in Seq(Places) /\ Last(stack) \in Places /\ Depth >= 1
    BY <1>1, <1>4, FrontLast
  <2> QED  BY <1>1, <2>1
<1> DEFINE next == Following(pc)
<1>5. CASE kind = "call"
  <2>1. PICK p \in Jumps[pc] : b = Executed("call", p, Append(stack, next), Depth, FALSE)
    BY <1>5 DEF Does, Pushed
  <2> QED  BY <1>1, <1>3, <2>1 DEF Executed, Boundary, Instruction, BoundaryType, MakesCall, Flow
<1>6. CASE kind = "pulling call"
  <2>1. /\ stack # <<>>
        /\ b = Executed("call", Last(stack), Append(Front(stack), next), Depth - 1, FALSE)
    BY <1>6 DEF Does
  <2> QED  BY <1>1, <1>2, <1>4, <1>6, <2>1 DEF Executed, Boundary, Instruction, BoundaryType, MakesCall, Flow
<1>7. CASE kind \in {"return", "interrupt-return", "stack-return"}
  <2>1. stack # <<>> /\ b = Executed(kind, Last(stack), Front(stack), Depth, FALSE)
    BY <1>7 DEF Does
  <2> QED  BY <1>1, <1>4, <1>7, <2>1 DEF Executed, Boundary, Instruction, BoundaryType, Returns, Flow
<1>8. CASE kind = "jump"
  <2>1. PICK p \in Jumps[pc] : b = Executed("none", p, stack, Depth, FALSE)
    BY <1>8 DEF Does
  <2> QED  BY <1>1, <2>1 DEF Executed, Boundary, Instruction, BoundaryType, Continues, Flow
<1>9. CASE kind = "push"
  <2>1. PICK p \in Jumps[pc] : b = Executed("none", next, Append(stack, p), Depth, FALSE)
    BY <1>9 DEF Does, Pushed
  <2> QED  BY <1>1, <1>3, <2>1 DEF Executed, Boundary, Instruction, BoundaryType, Continues, Flow
<1>10. CASE kind = "pull"
  <2>1. stack # <<>> /\ b = Executed("none", next, Front(stack), Depth, FALSE)
    BY <1>10 DEF Does
  <2> QED  BY <1>1, <1>2, <1>4, <1>10, <2>1 DEF Executed, Boundary, Instruction, BoundaryType, Continues, Flow
<1>11. CASE kind = "reset stack"
  <2>1. PICK n \in 0..Depth : b = Executed("none", next, SubSeq(stack, 1, n), Depth, TRUE)
    BY <1>11 DEF Does
  <2>2. SubSeq(stack, 1, n) \in Seq(Places)
    BY <1>1
  <2> QED  BY <1>1, <2>1, <2>2 DEF Executed, Boundary, Instruction, BoundaryType, Replaces, Flow
<1>12. CASE kind = "cwai"
  <2>1. b = Boundary("executed", "none", next, Append(stack, next), "cwai", Depth, next, FALSE)
    BY <1>12 DEF Does, Pushed
  <2> QED  BY <1>1, <1>2, <1>3, <1>12, <2>1 DEF Boundary, Instruction, BoundaryType, StartsWaiting, Flow
<1>13. CASE kind = "unsupported"
  <2>1. b = Boundary("unsupported", "none", pc, stack, "none", Depth, pc, FALSE)
    BY <1>13 DEF Does
  <2> QED  BY <1>1, <2>1 DEF Boundary, Instruction, BoundaryType, Continues, Flow
<1> QED  BY <1>5, <1>6, <1>7, <1>8, <1>9, <1>10, <1>11, <1>12, <1>13 DEF Does

\* What one boundary may do: an instruction, a wait, or the entry of an interrupt.
LEMMA BoundaryShape ==
    ASSUME TypeInv, NEW b \in Boundaries
    PROVE  /\ BoundaryType(b)
           /\ \/ MakesCall(b) \/ Returns(b) \/ Replaces(b) \/ Continues(b)
              \/ StartsWaiting(b) \/ Waiting(b) \/ Accepts(b)
           /\ OverDecodedCall /\ line # "pending" /\ wait = "none" => MakesCall(b)
<1>1. /\ pc \in Places /\ stack \in Seq(Places) /\ Following(pc) \in Places
      /\ Depth \in Nat /\ Vector \in Places /\ (Adapter = "apple2" => wait = "none")
  BY FollowingType, PlacesAssumption DEF TypeInv, Depth
<1>2. Append(stack, pc) \in Seq(Places)
  BY <1>1
<1>3. ASSUME NEW c \in Instructions PROVE Instruction(c) /\ (c.flow = "call" => MakesCall(c))
  <2>1. PICK kind \in Code[pc] : c \in Does(kind)
    BY <1>3 DEF Instructions
  <2>2. Instruction(c)
    BY <2>1, DoesShape
  <2> QED  BY <2>2 DEF Instruction, Returns, Replaces, Continues, StartsWaiting
<1>4. CASE line = "pending" /\ Entries # {}
  <2>1. b \in Entries
    BY <1>4 DEF Boundaries
  <2>2. CASE wait = "cwai"
    <3>1. b = Boundary("accepted", "interrupt", Vector, stack, "none", Depth, pc, FALSE)
      BY <2>1, <2>2 DEF Entries
    <3> QED  BY <1>1, <1>4, <2>2, <3>1 DEF Boundary, BoundaryType, Accepts, Flow
  <2>3. CASE wait # "cwai"
    <3>1. b = Boundary("accepted", "interrupt", Vector, Append(stack, pc), "none", Depth, pc, FALSE)
      BY <2>1, <2>3 DEF Entries, Pushed
    <3> QED  BY <1>1, <1>2, <1>4, <2>3, <3>1 DEF Boundary, BoundaryType, Accepts, Flow
  <2> QED  BY <2>2, <2>3
<1>5. CASE ~(line = "pending" /\ Entries # {}) /\ wait = "cwai"
  <2>1. b = Boundary("waiting", "none", pc, stack, wait, Depth, pc, FALSE)
    BY <1>5 DEF Boundaries
  <2> QED  BY <1>1, <1>5, <2>1 DEF Boundary, BoundaryType, Waiting, Flow
<1>6. CASE ~(line = "pending" /\ Entries # {}) /\ wait # "cwai" /\ OverDecodedCall
  <2>1. b \in Instructions /\ b.flow = "call"
    BY <1>6 DEF Boundaries, Calls
  <2> QED  BY <1>3, <2>1 DEF Instruction
<1>7. CASE ~(line = "pending" /\ Entries # {}) /\ wait # "cwai" /\ ~OverDecodedCall
  <2>1. b \in Running
    BY <1>7 DEF Boundaries
  <2>2. CASE b \in Instructions
    BY <1>3, <1>7, <2>2 DEF Instruction
  <2>3. CASE b = Executed("none", Following(pc), stack, Depth, FALSE)
    BY <1>1, <1>7, <2>3 DEF Executed, Boundary, BoundaryType, Continues, Flow
  <2> QED  BY <2>1, <2>2, <2>3 DEF Running
<1> QED  BY <1>4, <1>5, <1>6, <1>7

\* The step an observer of calls reports for a boundary.
StepOf(b) ==
    [before |-> Here, after |-> At(b.pc), flow |-> b.flow,
     stackBefore |-> StackedDepth(b), stackAfter |-> Len(b.stack),
     returnsTo |-> b.returnsTo, resetsStack |-> b.resets]

\* The policy as an instruction begins.
Ready(d) ==
    /\ Kept(d) /\ d.stop = None /\ d.completed = FALSE
    /\ Adapter = "xt" => d.frames = <<>> /\ d.plan.kind \notin {"over", "out"}
    /\ ~running => d.plan.kind = "step"

\* A call that Step over decoded is the instruction executed.
Decoded(d, b) == d.plan.kind = "over" /\ d.plan.frame = NoFrame => MakesCall(b) /\ wait = "none"

\* An interrupt out of a wait whose stacked frame was never seen.
Unseen(b) == b.outcome = "accepted" /\ wait = "cwai" /\ waitingStack = Unknown

\* What every adapter reports to the policy.
Observed(o, d, b) ==
    /\ Kept(o) /\ o.points = d.points /\ Followed(o.frames, d.frames, StepOf(b))
    /\ Adapter = "xt" => o.frames = <<>> /\ o.plan.kind \notin {"over", "out"}
    /\ Unseen(b) => o.frames = <<>>
    /\ StoppedAs(o, "error", At(b.pc)) \/ Advanced(o, ObserveBoundary(d), StepOf(b))

----------------------------------------------------------------------------
(* A boundary, as each adapter shows it.                                   *)

\* The step the 6809's observer reports of a boundary is a step of the policy.
LEMMA StepOfType ==
    ASSUME TypeInv, NEW b \in Boundaries
    PROVE  /\ StepOf(b) \in Steps
           /\ StepOf(b).resetsStack => ~Calling(StepOf(b)) /\ ~Returning(StepOf(b))
           /\ StepOf(b).after = At(b.pc) /\ At(b.pc) \in Location
<1>1. BoundaryType(b)
  BY BoundaryShape
<1>2. Here \in Location /\ At(b.pc) \in Location
  BY <1>1, HereType, AtType DEF BoundaryType
<1>3. StackedDepth(b) \in Nat
  BY <1>1 DEF StackedDepth, BoundaryType, TypeInv
<1>4. Len(b.stack) \in Nat
  BY <1>1 DEF BoundaryType
<1> QED  BY <1>1, <1>2, <1>3, <1>4 DEF StepOf, Steps, BoundaryType, Calling, Returning

\* A boundary shown to the policy as a step.
LEMMA StepEffect ==
    ASSUME TypeInv, NEW b \in Boundaries, NEW d, Kept(d)
    PROVE  /\ Kept(ObserveStep(d, b)) /\ ObserveStep(d, b).points = d.points
           /\ Followed(ObserveStep(d, b).frames, d.frames, StepOf(b))
           /\ Advanced(ObserveStep(d, b), ObserveBoundary(d), StepOf(b))
<1>1. ObserveStep(d, b) = Observe(d, StepOf(b))
  BY DEF ObserveStep, StepOf
<1> QED  BY <1>1, StepOfType, ObserveEffect

\* A boundary the CPU does not support.
LEMMA FailEffect ==
    ASSUME TypeInv, NEW b \in Boundaries, NEW d, Kept(d)
    PROVE  Observed(Fail(d, At(b.pc)), d, b)
<1> DEFINE o == Fail(d, At(b.pc))
<1>1. d \in Debugger /\ At(b.pc) \in Location
  BY StepOfType DEF Kept
<1>2. o \in Debugger /\ StoppedAs(o, "error", At(b.pc)) /\ o.frames = <<>> /\ o.points = d.points
  BY <1>1, FailType
<1> HIDE DEF o
<1>3. Len(o.frames) = 0 /\ DOMAIN o.frames = {}
  BY <1>2
<1>4. Kept(o)
  BY <1>2, <1>3, LimitsAssumption DEF Kept, Distinct
<1>5. o.plan.kind \notin {"over", "out"}
  BY <1>2 DEF StoppedAs, None
<1> QED  BY <1>2, <1>4, <1>5 DEF Observed, Followed, o

\* The CoCo's and Apple II's way to show a boundary.
LEMMA CocoEffect ==
    ASSUME TypeInv, NEW b \in Boundaries, NEW d, Ready(d), Decoded(d, b), Adapter # "xt"
    PROVE  Observed(ObserveCoco(d, b), d, b)
<1>1. Kept(d) /\ d \in Debugger
  BY DEF Ready, Kept
<1>2. CASE b.outcome = "unsupported"
  BY <1>1, <1>2, FailEffect DEF ObserveCoco
<1>3. CASE b.outcome # "unsupported" /\ Unseen(b)
  <2> DEFINE p == ObserveBoundary(d)
             o == LoseTracking(p, At(b.pc))
  <2>1. ObserveCoco(d, b) = o
    BY <1>3 DEF ObserveCoco, Unseen
  <2>2. p \in Debugger /\ p.plan = d.plan /\ p.points = d.points /\ At(b.pc) \in Location
    BY <1>1, ObserveBoundaryType, StepOfType
  <2> HIDE DEF p
  <2>3. /\ o \in Debugger /\ o.frames = <<>> /\ o.points = p.points
        /\ \/ StoppedAs(o, "tracking-lost", At(b.pc))
           \/ GoesOn(o, p)
    BY <2>2, LoseTrackingType
  <2> HIDE DEF o
  <2>4. Len(o.frames) = 0 /\ DOMAIN o.frames = {}
    BY <2>3
  <2>5. Kept(o) /\ Followed(o.frames, d.frames, StepOf(b))
    BY <2>3, <2>4, LimitsAssumption DEF Kept, Distinct, Followed
  <2>6. ~(p.plan.kind = "over" /\ p.plan.frame = NoFrame)
    BY <1>3, <2>2 DEF Decoded, Unseen
  <2>7. Advanced(o, p, StepOf(b))
    BY <2>3, <2>4, <2>6, StepOfType DEF Advanced, GoesOn
  <2> QED  BY <2>1, <2>2, <2>3, <2>5, <2>7 DEF Observed, p
<1>4. CASE b.outcome # "unsupported" /\ ~Unseen(b)
  <2>1. ObserveCoco(d, b) = ObserveStep(d, b)
    BY <1>4 DEF ObserveCoco, Unseen
  <2> QED  BY <1>1, <1>4, <2>1, StepEffect DEF Observed
<1> QED  BY <1>2, <1>3, <1>4

\* The XT's way: boundaries without callers.
LEMMA XtEffect ==
    ASSUME TypeInv, NEW b \in Boundaries, NEW d, Ready(d), Adapter = "xt"
    PROVE  Observed(ObserveXt(d, b), d, b)
<1>1. Kept(d) /\ d \in Debugger /\ d.frames = <<>> /\ d.plan.kind \notin {"over", "out"}
  BY DEF Ready, Kept
<1>2. CASE b.outcome = "unsupported"
  BY <1>1, <1>2, FailEffect DEF ObserveXt
<1>3. CASE b.outcome # "unsupported"
  <2> DEFINE o == ObserveBoundary(d)
  <2>1. ObserveXt(d, b) = o
    BY <1>3 DEF ObserveXt
  <2>2. /\ o \in Debugger /\ o.points = d.points /\ o.frames = <<>> /\ o.plan = d.plan
        /\ o.frames = d.frames
    BY <1>1, ObserveBoundaryType
  <2> HIDE DEF o
  <2>3. Kept(o) /\ Followed(o.frames, d.frames, StepOf(b))
    BY <1>1, <2>2 DEF Kept, Followed
  <2>4. Advanced(o, o, StepOf(b))
    BY <1>1, <2>2 DEF Advanced
  <2> QED  BY <1>1, <2>1, <2>2, <2>3, <2>4 DEF Observed, o
<1> QED  BY <1>2, <1>3

\* An observation either ends the request or leaves it its kind and one boundary less.
LEMMA Proceeds ==
    ASSUME TypeInv, NEW b \in Boundaries, NEW d, Ready(d), NEW o, Observed(o, d, b)
    PROVE  \/ StoppedAs(o, "error", At(b.pc))
           \/ StoppedAs(o, "tracking-lost", At(b.pc))
           \/ /\ o.stop = None /\ o.skip = d.skip /\ o.plan.kind = d.plan.kind
              /\ o.remaining = IF d.plan # None THEN d.remaining - 1 ELSE d.remaining
              /\ d.plan.kind = "step" => o.completed = TRUE
<1> DEFINE p == ObserveBoundary(d)
<1>1. /\ p.stop = None /\ p.plan = d.plan /\ p.skip = d.skip
      /\ p.remaining = IF d.plan # None THEN d.remaining - 1 ELSE d.remaining
      /\ p.completed = (d.completed \/ d.plan.kind = "step")
  BY ObserveBoundaryType DEF Ready, Kept
<1>2. d.plan.kind = "step" => p.completed = TRUE
  BY <1>1
<1> HIDE DEF p
<1>3. StoppedAs(o, "error", At(b.pc)) \/ Advanced(o, p, StepOf(b))
  BY DEF Observed, p
<1>4. ASSUME Advanced(o, p, StepOf(b)), ~StoppedAs(o, "tracking-lost", At(b.pc))
      PROVE  /\ o.stop = p.stop /\ o.skip = p.skip /\ o.remaining = p.remaining
             /\ o.plan.kind = p.plan.kind /\ (d.plan.kind = "step" => o.completed = p.completed)
  BY <1>1, <1>4, StepOfType DEF Advanced
<1> QED  BY <1>1, <1>2, <1>3, <1>4

\* What is left of a request that stopped.
LEMMA StoppedMeans ==
    ASSUME NEW e, NEW kind \in StopKinds, NEW at, StoppedAs(e, kind, at)
    PROVE  /\ e.stop # None /\ e.stop.kind = kind /\ e.stop.at = at
           /\ e.plan = None /\ e.plan.kind = "none" /\ e.skip = None /\ e.completed = FALSE
BY DEF StoppedAs, None, StopKinds

\* A manual step either ends here or has completed.
LEMMA ManualStep ==
    ASSUME TypeInv, NEW b \in Boundaries, NEW d, Ready(d), NEW o, Observed(o, d, b)
    PROVE  /\ o.plan.kind = "step" => o.stop = None /\ o.completed = TRUE
           /\ o.stop = None => running \/ o.plan.kind = "step"
           /\ o.stop = None \/ o.stop.kind \in {"error", "tracking-lost"}
<1>1. "error" \in StopKinds /\ "tracking-lost" \in StopKinds
  BY DEF StopKinds
<1>2. CASE StoppedAs(o, "error", At(b.pc))
  BY <1>1, <1>2, StoppedMeans
<1>3. CASE StoppedAs(o, "tracking-lost", At(b.pc))
  BY <1>1, <1>3, StoppedMeans
<1>4. CASE /\ o.stop = None /\ o.plan.kind = d.plan.kind
           /\ d.plan.kind = "step" => o.completed = TRUE
  BY <1>4 DEF Ready
<1> QED  BY <1>2, <1>3, <1>4, Proceeds

\* The policy asked again after a step: a completed step stops, a stop stays.
LEMMA AskedAgain ==
    ASSUME NEW o, Kept(o), NEW at \in Location, NEW software \in BOOLEAN
    PROVE  LET e == BeforeStep(o, at, FALSE, software)
           IN  /\ o.stop # None => e = o
               /\ o.stop = None /\ o.plan.kind = "step" /\ o.completed = TRUE
                  => /\ Kept(e) /\ e.points = o.points /\ e.frames = o.frames
                     /\ \E kind \in {"breakpoint", "limit", "step"} : StoppedAs(e, kind, at)
<1> DEFINE e == BeforeStep(o, at, FALSE, software)
<1>1. /\ o \in Debugger /\ e \in Debugger /\ e.frames = o.frames /\ e.points = o.points
      /\ \/ o.stop # None /\ e = o
         \/ /\ o.stop = None
            /\ \/ StoppedAs(e, "breakpoint", at)
               \/ StoppedAs(e, "limit", at)
               \/ PlanReached(o, at, FALSE) /\ StoppedAs(e, PlanStop(o), at)
         \/ o.stop = None /\ ~PlanReached(o, at, FALSE)
  BY BeforeStepType DEF Kept
<1> HIDE DEF e
<1>2. Kept(e)
  BY <1>1 DEF Kept
<1>3. ASSUME o.plan.kind = "step", o.completed = TRUE
      PROVE  PlanReached(o, at, FALSE) /\ PlanStop(o) = "step"
  BY <1>3 DEF PlanReached, PlanStop, None
<1> QED  BY <1>1, <1>2, <1>3 DEF e

\* What an adapter makes of an observation: the watched store, or the end of a manual step.
Settled(e, o, b, caught) ==
    /\ Kept(e) /\ e.points = o.points /\ e.frames = o.frames
    /\ \/ e = o /\ (caught => o.stop.kind = "error") /\ (running \/ o.stop # None)
       \/ StoppedAs(e, "watchpoint", At(b.pc))
       \/ ~caught /\ \E kind \in {"breakpoint", "limit"} : StoppedAs(e, kind, At(b.pc))
       \/ ~caught /\ o.plan.kind = "step" /\ StoppedAs(e, "step", At(b.pc))

\* A watched store ends the request where the machine is.
LEMMA WatchpointEffect ==
    ASSUME NEW o, Kept(o), NEW at \in Location
    PROVE  LET e == Watchpoint(o, at)
           IN  Kept(e) /\ e.points = o.points /\ e.frames = o.frames /\ StoppedAs(e, "watchpoint", at)
BY FinishType DEF Kept, Watchpoint, StopKinds

\* Every adapter shows the boundary once, then stops, asks again or goes on.
LEMMA CapturedEffect ==
    ASSUME TypeInv, NEW b \in Boundaries, NEW d, Ready(d), Decoded(d, b), NEW caught \in BOOLEAN,
           NEW software \in BOOLEAN
    PROVE  \E o : Observed(o, d, b) /\ Settled(Captured(d, b, caught, software), o, b, caught)
<1>1. At(b.pc) \in Location /\ Kept(d)
  BY StepOfType DEF Ready
<1> DEFINE Fair(e) == \E o : Observed(o, d, b) /\ Settled(e, o, b, caught)
<1>2. CASE Adapter = "coco"
  <2> DEFINE o == ObserveCoco(d, b)
  <2>1. Observed(o, d, b) /\ Kept(o)
    BY <1>2, CocoEffect DEF Observed
  <2>2. Captured(d, b, caught, software) =
          IF caught /\ o.stop.kind # "error" THEN Watchpoint(o, At(b.pc))
          ELSE IF o.plan.kind = "step" THEN BeforeStep(o, At(b.pc), FALSE, FALSE) ELSE o
    BY <1>2 DEF Captured, CocoCaptured
  <2> HIDE DEF o
  <2>3. CASE caught /\ o.stop.kind # "error"
    BY <1>1, <2>1, <2>2, <2>3, WatchpointEffect DEF Settled
  <2>4. CASE ~(caught /\ o.stop.kind # "error") /\ o.plan.kind = "step"
    <3>1. o.stop = None /\ o.completed = TRUE /\ ~caught
      <4>1. o.stop = None /\ o.completed = TRUE
        BY <2>1, <2>4, ManualStep
      <4>2. o.stop.kind # "error"
        BY <4>1 DEF None
      <4> QED  BY <2>4, <4>1, <4>2
    <3>2. Captured(d, b, caught, software) = BeforeStep(o, At(b.pc), FALSE, FALSE)
      BY <2>2, <2>4
    <3> QED  BY <1>1, <2>1, <2>4, <3>1, <3>2, AskedAgain DEF Settled
  <2>5. CASE ~(caught /\ o.stop.kind # "error") /\ o.plan.kind # "step"
    <3>1. Captured(d, b, caught, software) = o
      BY <2>2, <2>5
    <3>2. running \/ o.stop # None
      BY <1>1, <2>1, <2>5, ManualStep
    <3> QED  BY <2>1, <2>5, <3>1, <3>2 DEF Settled
  <2> QED  BY <2>3, <2>4, <2>5
<1>3. CASE Adapter = "xt"
  <2> DEFINE o == ObserveXt(d, b)
  <2>1. Observed(o, d, b) /\ Kept(o)
    BY <1>3, XtEffect DEF Observed
  <2>2. Captured(d, b, caught, software) =
          IF b.outcome = "unsupported" THEN o
          ELSE IF caught THEN Watchpoint(o, At(b.pc))
          ELSE IF o.plan.kind = "step" THEN BeforeStep(o, At(b.pc), FALSE, FALSE) ELSE o
    BY <1>3 DEF Captured, XtCaptured
  <2>3. b.outcome = "unsupported" => StoppedAs(o, "error", At(b.pc))
    BY <1>1, FailType DEF ObserveXt, Kept
  <2> HIDE DEF o
  <2>4. CASE b.outcome = "unsupported"
    BY <2>1, <2>2, <2>3, <2>4 DEF Settled, StoppedAs, None
  <2>5. CASE b.outcome # "unsupported" /\ caught
    BY <1>1, <2>1, <2>2, <2>5, WatchpointEffect DEF Settled
  <2>6. CASE b.outcome # "unsupported" /\ ~caught /\ o.plan.kind = "step"
    <3>1. o.stop = None /\ o.completed = TRUE
      BY <1>1, <2>1, <2>6, ManualStep
    <3>2. Captured(d, b, caught, software) = BeforeStep(o, At(b.pc), FALSE, FALSE)
      BY <2>2, <2>6
    <3> QED  BY <1>1, <2>1, <2>6, <3>1, <3>2, AskedAgain DEF Settled
  <2>7. CASE b.outcome # "unsupported" /\ ~caught /\ o.plan.kind # "step"
    <3>1. Captured(d, b, caught, software) = o
      BY <2>2, <2>7
    <3>2. running \/ o.stop # None
      BY <1>1, <2>1, <2>7, ManualStep
    <3> QED  BY <2>1, <2>7, <3>1, <3>2 DEF Settled
  <2> QED  BY <2>4, <2>5, <2>6, <2>7
<1>4. CASE Adapter = "apple2"
  <2> DEFINE o == ObserveStep(d, b)
             w == Watchpoint(o, At(b.pc))
  <2>1. Observed(o, d, b) /\ Kept(o)
    BY <1>1, <1>4, StepEffect DEF Observed, Unseen, TypeInv
  <2>2. Captured(d, b, caught, software) =
          LET shown == IF caught THEN w ELSE o
          IN  IF running THEN shown ELSE BeforeStep(shown, At(b.pc), FALSE, software)
    BY <1>4 DEF Captured, Apple2Captured
  <2> HIDE DEF o
  <2>3. Kept(w) /\ w.points = o.points /\ w.frames = o.frames /\ StoppedAs(w, "watchpoint", At(b.pc))
    BY <1>1, <2>1, WatchpointEffect
  <2> HIDE DEF w
  <2>4. w.stop # None
    BY <2>3 DEF StoppedAs, None
  <2>5. CASE caught
    <3>1. Captured(d, b, caught, software) = w
      BY <1>1, <2>2, <2>3, <2>4, <2>5, AskedAgain
    <3> QED  BY <2>1, <2>3, <3>1 DEF Settled
  <2>6. CASE ~caught /\ running
    <3>1. Captured(d, b, caught, software) = o
      BY <2>2, <2>6
    <3> QED  BY <2>1, <2>6, <3>1 DEF Settled
  <2>7. CASE ~caught /\ ~running
    <3>1. Captured(d, b, caught, software) = BeforeStep(o, At(b.pc), FALSE, software)
      BY <2>2, <2>7
    <3>2. CASE o.stop # None
      BY <1>1, <2>1, <2>7, <3>1, <3>2, AskedAgain DEF Settled
    <3>3. CASE o.stop = None
      <4>1. o.plan.kind = "step" /\ o.completed = TRUE
        BY <1>1, <2>1, <2>7, <3>3, ManualStep
      <4>2. /\ Kept(BeforeStep(o, At(b.pc), FALSE, software))
            /\ BeforeStep(o, At(b.pc), FALSE, software).points = o.points
            /\ BeforeStep(o, At(b.pc), FALSE, software).frames = o.frames
            /\ \E kind \in {"breakpoint", "limit", "step"} :
                  StoppedAs(BeforeStep(o, At(b.pc), FALSE, software), kind, At(b.pc))
        BY <1>1, <2>1, <3>3, <4>1, AskedAgain
      <4> QED  BY <2>1, <2>7, <3>1, <4>1, <4>2 DEF Settled
    <3> QED  BY <3>2, <3>3
  <2> QED  BY <2>5, <2>6, <2>7
<1>5. Adapter \in {"coco", "xt", "apple2"}
  BY LaboratoriesAssumption DEF TypeInv, Adapter
<1> QED  BY <1>2, <1>3, <1>4, <1>5

\* A capture ends the request here, or leaves the batch to go on.
LEMMA Outcome ==
    ASSUME TypeInv, NEW b \in Boundaries, NEW d, Ready(d), Decoded(d, b), NEW caught \in BOOLEAN,
           NEW software \in BOOLEAN
    PROVE  LET e == Captured(d, b, caught, software)
           IN  \E o : /\ Observed(o, d, b) /\ Kept(e) /\ e.frames = o.frames
                      /\ \/ running /\ e = o /\ o.stop = None /\ ~caught
                         \/ \E kind \in {"error", "tracking-lost", "watchpoint", "breakpoint", "limit", "step"} :
                               /\ StoppedAs(e, kind, At(b.pc))
                               /\ kind = "step" => d.plan.kind = "step"
                               /\ caught => kind \in {"watchpoint", "error"}
<1> DEFINE e == Captured(d, b, caught, software)
<1>1. PICK o : Observed(o, d, b) /\ Settled(e, o, b, caught)
  BY CapturedEffect
<1>2. Kept(e) /\ e.frames = o.frames
  BY <1>1 DEF Settled
<1>3. "error" \in StopKinds /\ "tracking-lost" \in StopKinds
  BY DEF StopKinds
<1> HIDE DEF e
<1>4. CASE e = o /\ (caught => o.stop.kind = "error") /\ (running \/ o.stop # None)
  <2>1. CASE StoppedAs(o, "error", At(b.pc))
    BY <1>1, <1>2, <1>4, <2>1 DEF e
  <2>2. CASE StoppedAs(o, "tracking-lost", At(b.pc))
    <3>1. o.stop.kind = "tracking-lost"
      BY <1>3, <2>2, StoppedMeans
    <3> QED  BY <1>1, <1>2, <1>4, <2>2, <3>1 DEF e
  <2>3. CASE o.stop = None
    <3>1. ~caught
      BY <1>4, <2>3 DEF None
    <3> QED  BY <1>1, <1>2, <1>4, <2>3, <3>1 DEF e
  <2> QED  BY <1>1, <2>1, <2>2, <2>3, Proceeds
<1>5. CASE StoppedAs(e, "watchpoint", At(b.pc))
  BY <1>1, <1>2, <1>5 DEF e
<1>6. CASE ~caught /\ \E kind \in {"breakpoint", "limit"} : StoppedAs(e, kind, At(b.pc))
  BY <1>1, <1>2, <1>6 DEF e
<1>7. CASE ~caught /\ o.plan.kind = "step" /\ StoppedAs(e, "step", At(b.pc))
  <2>1. d.plan.kind = "step"
    <3>1. ~StoppedAs(o, "error", At(b.pc)) /\ ~StoppedAs(o, "tracking-lost", At(b.pc))
      BY <1>3, <1>7, StoppedMeans
    <3> QED  BY <1>1, <1>7, <3>1, Proceeds
  <2> QED  BY <1>1, <1>2, <1>7, <2>1 DEF e
<1> QED  BY <1>1, <1>4, <1>5, <1>6, <1>7 DEF Settled

\* The frames name return addresses on the stack, the latest nearest the top.
Callers(frames, s) ==
    /\ \A i \in DOMAIN frames : frames[i].stack < Len(s) /\ s[frames[i].stack + 1] = frames[i].returnsTo
    /\ \A i, j \in DOMAIN frames : i < j => frames[i].stack < frames[j].stack
Under(frames, n) == \A i \in DOMAIN frames : frames[i].stack < n

----------------------------------------------------------------------------
(* Callers and the stack under them.                                       *)

\* A caller of a typed call stack is typed.
LEMMA FrameType ==
    ASSUME NEW frames \in Seq(Frame), NEW i \in DOMAIN frames
    PROVE  frames[i] \in Frame /\ frames[i].stack \in Nat
<1>1. frames[i] \in Frame
  BY LenProperties, ElementOfSeq
<1> QED  BY <1>1 DEF Frame

\* No callers are callers of every stack.
LEMMA CallersForgotten ==
    ASSUME NEW frames, frames = <<>>, NEW s, NEW n
    PROVE  Callers(frames, s) /\ Under(frames, n)
<1>1. DOMAIN frames = {}
  OBVIOUS
<1> QED  BY <1>1 DEF Callers, Under

\* A push leaves the callers' return addresses where they are.
LEMMA CallersDeeper ==
    ASSUME NEW frames \in Seq(Frame), NEW s \in Seq(Places), NEW x \in Places, Callers(frames, s)
    PROVE  Callers(frames, Append(s, x)) /\ Under(frames, Len(s))
<1>1. /\ Len(Append(s, x)) = Len(s) + 1 /\ Len(s) \in Nat
      /\ \A i \in 1..Len(s) : Append(s, x)[i] = s[i]
  BY AppendProperties
<1>2. \A i \in DOMAIN frames : frames[i].stack \in Nat
  BY FrameType
<1> DEFINE t == Append(s, x)
<1> HIDE DEF t
<1>3. Callers(frames, t)
  BY <1>1, <1>2 DEF Callers, t
<1>4. Under(frames, Len(s))
  BY DEF Callers, Under
<1> QED  BY <1>3, <1>4 DEF t

\* One caller more, above those under it.
LEMMA CallersAdded ==
    ASSUME NEW old \in Seq(Frame), NEW s \in Seq(Places), NEW f \in Frame, NEW frames,
           Callers(old, s), Under(old, f.stack), frames \in {<<f>>, Append(old, f)},
           f.stack < Len(s), s[f.stack + 1] = f.returnsTo
    PROVE  Callers(frames, s)
<1>1. CASE frames = <<f>>
  <2>1. DOMAIN frames = {1} /\ frames[1] = f
    BY <1>1
  <2> QED  BY <2>1 DEF Callers
<1>2. CASE frames = Append(old, f)
  <2> DEFINE n == Len(old)
  <2>1. /\ n \in Nat /\ DOMAIN old = 1..n /\ DOMAIN frames = 1..(n + 1)
        /\ \A i \in 1..n : frames[i] = old[i]
        /\ frames[n + 1] = f
    BY <1>2, AppendProperties, LenProperties
  <2> HIDE DEF n
  <2>2. \A i \in DOMAIN frames : frames[i].stack < Len(s) /\ s[frames[i].stack + 1] = frames[i].returnsTo
    BY <2>1 DEF Callers
  <2>3. \A i, j \in DOMAIN frames : i < j => frames[i].stack < frames[j].stack
    BY <2>1 DEF Callers, Under
  <2> QED  BY <2>2, <2>3 DEF Callers
<1> QED  BY <1>1, <1>2

\* The latest caller returned to.
LEMMA CallersReturned ==
    ASSUME NEW old \in Seq(Frame), NEW s \in Seq(Places), old # <<>>, s # <<>>,
           Callers(old, s), Last(old).stack = Len(Front(s))
    PROVE  Callers(Front(old), Front(s))
<1> DEFINE n == Len(old)
           m == Len(s)
           front == Front(old)
           rest == Front(s)
<1>1. /\ n \in Nat /\ n >= 1 /\ front \in Seq(Frame) /\ Len(front) = n - 1
      /\ \A i \in 1..(n - 1) : front[i] = old[i]
      /\ Last(old) = old[n]
  BY FrontLast
<1>2. /\ m \in Nat /\ m >= 1 /\ rest \in Seq(Places) /\ Len(rest) = m - 1
      /\ \A i \in 1..(m - 1) : rest[i] = s[i]
  BY FrontLast
<1>3. DOMAIN old = 1..n /\ DOMAIN front = 1..(n - 1)
  BY <1>1, LenProperties
<1>4. \A i \in 1..n : old[i].stack \in Nat
  BY <1>3, FrameType
<1>5. old[n].stack = m - 1
  BY <1>1, <1>2
<1> HIDE DEF n, m, front, rest
<1>6. ASSUME NEW i \in 1..(n - 1)
      PROVE  front[i].stack < m - 1 /\ rest[front[i].stack + 1] = front[i].returnsTo
  <2>1. i < n /\ i \in 1..n /\ n \in 1..n /\ front[i] = old[i]
    BY <1>1
  <2>2. old[i].stack < old[n].stack /\ s[old[i].stack + 1] = old[i].returnsTo
    BY <1>3, <2>1 DEF Callers
  <2>3. old[i].stack + 1 \in 1..(m - 1)
    <3> DEFINE k == old[i].stack
    <3>1. k \in Nat /\ k < m - 1
      BY <1>4, <1>5, <2>1, <2>2
    <3> HIDE DEF k
    <3>2. k + 1 \in 1..(m - 1)
      BY <1>2, <3>1
    <3> QED  BY <3>2 DEF k
  <2> QED  BY <1>2, <1>5, <2>1, <2>2, <2>3
<1>7. ASSUME NEW i \in 1..(n - 1), NEW j \in 1..(n - 1), i < j
      PROVE  front[i].stack < front[j].stack
  <2>1. i \in 1..n /\ j \in 1..n
    BY <1>1
  <2> QED  BY <1>1, <1>3, <1>7, <2>1 DEF Callers
<1>8. Callers(front, rest)
  BY <1>2, <1>3, <1>6, <1>7 DEF Callers
<1> QED  BY <1>8 DEF front, rest

Ends(a, p, n) == p = a.back /\ n <= a.depth /\ (a.kind = "out" => n = a.depth)
Limited == {"over", "out", "target", "until"}

\* The policy still serves the request a, m boundaries later, at place p and depth n.
Serves(d, a, p, n, m) ==
    /\ a.kind \in Limited => d.plan # None
    /\ d.plan # None => d.remaining \in Nat /\ d.remaining + m = Limit
    /\ d.plan.kind = "step" => a.kind = "over"
    /\ d.plan.kind \in Limited => a.kind = d.plan.kind
    /\ d.plan.kind \in {"over", "out"} /\ d.plan.frame # NoFrame
       => \A i \in DOMAIN d.frames :
             d.frames[i].id = d.plan.frame => Ends(a, d.frames[i].returnsTo, d.frames[i].stack)
    /\ d.plan.kind \in {"over", "out"} /\ d.completed => Ends(a, p, n)

\* Between actions: a stop is at the machine's place and leaves no request, a crossing is this
\* request's, and Step over still faces the call it decoded.
PolicyInv ==
    /\ dbg.stop # None => StoppedAs(dbg, dbg.stop.kind, Here)
    /\ dbg.skip # None => /\ dbg.skip = [kind |-> "at", at |-> Here]
                          /\ since = 0 /\ asked.crosses /\ asked.at = Here
    /\ dbg.completed => dbg.plan.kind \in {"step", "over", "out"}
    /\ Adapter = "xt" => dbg.frames = <<>> /\ dbg.plan.kind \notin {"over", "out"}
    /\ dbg.plan.kind = "over" /\ dbg.plan.frame = NoFrame
       => /\ line # "pending" /\ wait = "none" /\ since = 0 /\ dbg.completed = FALSE
          /\ asked.back = Following(pc) /\ asked.depth = Depth

RequestInv ==
    /\ dbg.stop = None => Serves(dbg, asked, pc, Depth, since)
    /\ asked.kind = "step" => running = FALSE /\ dbg.stop # None
    /\ RequestsReturn

WaitsOver == stack # <<>> /\ waitingStack + 1 = Depth /\ stack[Depth] = pc /\ Under(dbg.frames, waitingStack)
CallsInv ==
    lab.disciplined /\ Adapter # "xt" =>
        /\ Callers(dbg.frames, stack)
        /\ wait = "cwai" /\ waitingStack # Unknown => WaitsOver

Inv == TypeInv /\ PolicyInv /\ StopsAreTrue /\ RequestInv /\ CallsInv

\* A step of the machine under the request asked after it, n boundaries before it.
Captures(d, b, stores, n) ==
    /\ Ready(d) /\ Decoded(d, b) /\ d.frames = dbg.frames
    /\ Capture(d, b, stores, FALSE, n)
    /\ UNCHANGED <<lab, running, watching>>

----------------------------------------------------------------------------
(* A captured boundary keeps the invariant.                                *)

\* A boundary keeps the types and counts itself.
LEMMA CaptureType ==
    ASSUME TypeInv, NEW b \in Boundaries, NEW d, NEW stores \in BOOLEAN, NEW n \in Nat,
           Captures(d, b, stores, n), asked' \in Request
    PROVE  /\ TypeInv' /\ Here' = At(b.pc) /\ Depth' = Len(b.stack) /\ since' \in Nat
           /\ Adapter' = Adapter /\ (n <= Limit => since' = n + 1)
<1>1. BoundaryType(b)
  BY BoundaryShape
<1>2. Ready(d) /\ Decoded(d, b)
  BY DEF Captures
<1>3. Kept(dbg')
  <2> DEFINE caught == stores /\ watching /\ Connect(attached, watching) = "current"
  <2>1. PICK software \in SoftwareAt(b.pc) : dbg' = Captured(d, b, caught, software)
    BY DEF Captures, Capture
  <2>2. caught \in BOOLEAN /\ software \in BOOLEAN
    BY DEF SoftwareAt
  <2> HIDE DEF caught
  <2> QED  BY <1>2, <2>1, <2>2, Outcome
<1>4. WaitingStackAfter(b) \in Nat
  BY HereType DEF WaitingStackAfter, TypeInv
<1>5. waitingStack' \in Nat
  BY <1>4 DEF Captures, Capture, TypeInv
<1>6. since' \in Nat /\ (n <= Limit => since' = n + 1)
  BY LimitsAssumption DEF Captures, Capture
<1>7. hit' \in BOOLEAN /\ stored' \in BOOLEAN
  BY DEF Captures, Capture
<1>8. /\ lab' = lab /\ running' = running /\ watching' = watching
      /\ pc' = b.pc /\ stack' = b.stack /\ wait' = b.wait
  BY DEF Captures, Capture
<1>9. Adapter' = Adapter /\ Here' = At(b.pc) /\ Depth' = Len(b.stack)
  BY <1>8 DEF Adapter, Here, At, Depth
<1>10. TypeInv'
  BY <1>1, <1>3, <1>5, <1>6, <1>7, <1>8, <1>9 DEF TypeInv, BoundaryType
<1> QED  BY <1>6, <1>9, <1>10

Endings == {"error", "tracking-lost", "watchpoint", "breakpoint", "limit", "step"}

\* A boundary leaves the request running, or stops it at its own end.
LEMMA CaptureEnds ==
    ASSUME TypeInv, NEW b \in Boundaries, NEW d, NEW stores \in BOOLEAN, NEW n \in Nat,
           Captures(d, b, stores, n)
    PROVE  \E o : /\ Observed(o, d, b) /\ dbg'.frames = o.frames
                  /\ \/ running /\ dbg' = o /\ o.stop = None /\ ~(stored' /\ watching)
                     \/ \E kind \in Endings :
                           /\ StoppedAs(dbg', kind, At(b.pc))
                           /\ kind = "step" => d.plan.kind = "step"
                           /\ stored' /\ watching => kind \in {"watchpoint", "error"}
<1> DEFINE caught == stores /\ watching /\ Connect(attached, watching) = "current"
<1>1. caught \in BOOLEAN /\ (stored' /\ watching => caught)
  BY DEF Captures, Capture, Connect
<1>2. /\ Ready(d) /\ Decoded(d, b)
      /\ \E software \in BOOLEAN : dbg' = Captured(d, b, caught, software)
  BY DEF Captures, Capture, SoftwareAt
<1> HIDE DEF caught
<1>3. PICK o : /\ Observed(o, d, b) /\ dbg'.frames = o.frames
               /\ \/ running /\ dbg' = o /\ o.stop = None /\ ~caught
                  \/ \E kind \in Endings :
                        /\ StoppedAs(dbg', kind, At(b.pc))
                        /\ kind = "step" => d.plan.kind = "step"
                        /\ caught => kind \in {"watchpoint", "error"}
  BY <1>1, <1>2, Outcome DEF Endings
<1> QED  BY <1>1, <1>3

\* What may end a request is shown as a stop.
LEMMA EndingsAreStops == Endings \subseteq StopKinds
BY DEF Endings, StopKinds

\* A boundary that stops does so at its own end; a watched store stops it.
LEMMA CaptureStops ==
    ASSUME TypeInv, NEW b \in Boundaries, NEW d, NEW stores \in BOOLEAN, NEW n \in Nat,
           Captures(d, b, stores, n), asked' \in Request
    PROVE  StopsAreTrue'
<1>1. Here' = At(b.pc) /\ watching' = watching
  BY CaptureType DEF Captures
<1>2. hit' = (dbg'.stop.kind = "watchpoint")
  BY DEF Captures, Capture
<1>3. CASE dbg'.stop = None /\ ~(stored' /\ watching)
  BY <1>1, <1>2, <1>3 DEF StopsAreTrue, None
<1>4. ASSUME NEW kind \in Endings, StoppedAs(dbg', kind, At(b.pc)),
             stored' /\ watching => kind \in {"watchpoint", "error"}
      PROVE  StopsAreTrue'
  <2>1. dbg'.stop.kind = kind /\ dbg'.stop.at = At(b.pc)
    BY <1>4, EndingsAreStops, StoppedMeans
  <2> QED  BY <1>1, <1>2, <1>4, <2>1 DEF StopsAreTrue
<1> QED  BY <1>3, <1>4, CaptureEnds

\* A boundary leaves no crossing and no undecoded call behind.
LEMMA CapturePolicy ==
    ASSUME TypeInv, NEW b \in Boundaries, NEW d, NEW stores \in BOOLEAN, NEW n \in Nat,
           Captures(d, b, stores, n), asked' \in Request, running => d.skip = None
    PROVE  PolicyInv'
<1>1. Here' = At(b.pc) /\ Adapter' = Adapter
  BY CaptureType
<1>2. PICK o : /\ Observed(o, d, b) /\ dbg'.frames = o.frames
               /\ \/ running /\ dbg' = o /\ o.stop = None
                  \/ \E kind \in Endings : StoppedAs(dbg', kind, At(b.pc))
  BY CaptureEnds
<1>3. Ready(d) /\ Decoded(d, b)
  BY DEF Captures
<1>4. CASE running /\ dbg' = o /\ o.stop = None
  <2> DEFINE p == ObserveBoundary(d)
  <2>1. p.plan = d.plan /\ p.skip = None /\ p.completed = (d.plan.kind = "step")
    BY <1>3, <1>4, ObserveBoundaryType DEF Ready, Kept
  <2>2. Advanced(o, p, StepOf(b)) /\ ~StoppedAs(o, "tracking-lost", At(b.pc))
    <3>1. "error" \in StopKinds /\ "tracking-lost" \in StopKinds
      BY DEF StopKinds
    <3> QED  BY <1>2, <1>4, <3>1, StoppedMeans DEF Observed
  <2>3. d.plan.kind = "over" /\ d.plan.frame = NoFrame => Calling(StepOf(b))
    BY <1>3 DEF Decoded, MakesCall, Calling, StepOf
  <2> HIDE DEF p
  <2>4. /\ o.skip = None
        /\ o.completed => o.plan.kind \in {"step", "over", "out"}
        /\ ~(o.plan.kind = "over" /\ o.plan.frame = NoFrame)
    BY <2>1, <2>2, <2>3, StepOfType DEF Advanced
  <2>5. Adapter = "xt" => o.frames = <<>> /\ o.plan.kind \notin {"over", "out"}
    BY <1>2 DEF Observed
  <2> QED  BY <1>1, <1>4, <2>4, <2>5 DEF PolicyInv
<1>5. ASSUME NEW kind \in Endings, StoppedAs(dbg', kind, At(b.pc))
      PROVE  PolicyInv'
  <2>1. /\ dbg'.stop.kind = kind /\ dbg'.plan.kind = "none" /\ dbg'.skip = None
        /\ dbg'.completed = FALSE
    BY <1>5, EndingsAreStops, StoppedMeans
  <2>2. Adapter = "xt" => dbg'.frames = <<>>
    BY <1>2 DEF Observed
  <2> QED  BY <1>1, <1>5, <2>1, <2>2 DEF PolicyInv
<1> QED  BY <1>2, <1>4, <1>5

\* What a step leaves of the request it serves.
LEMMA StillServes ==
    ASSUME TypeInv, NEW b \in Boundaries, NEW d, Ready(d), Decoded(d, b), NEW n \in Nat,
           NEW a \in Request, Serves(d, a, pc, Depth, n), d.plan # None => d.remaining # 0,
           d.plan.kind = "over" /\ d.plan.frame = NoFrame => a.back = Following(pc) /\ a.depth = Depth,
           NEW o, Observed(o, d, b), o.stop = None
    PROVE  Serves(o, a, b.pc, Len(b.stack), n + 1)
<1> DEFINE p == ObserveBoundary(d)
<1>1. /\ p.plan = d.plan /\ p.frames = d.frames
      /\ p.remaining = IF d.plan # None THEN d.remaining - 1 ELSE d.remaining
      /\ p.completed = (d.plan.kind = "step")
  BY ObserveBoundaryType DEF Ready, Kept
<1>2. /\ d.plan \in Plan /\ Limit \in Nat
      /\ d.plan.kind = "none" <=> d.plan = None
      /\ d.plan.kind \in {"none", "step", "until", "over", "out", "target"}
      /\ o.plan \in Plan /\ (o.plan.kind = "none" <=> o.plan = None)
  BY PlanKinds, LimitsAssumption DEF Ready, Kept, Debugger, Observed
<1>3. Advanced(o, p, StepOf(b)) /\ ~StoppedAs(o, "tracking-lost", At(b.pc))
  <2>1. "error" \in StopKinds /\ "tracking-lost" \in StopKinds
    BY DEF StopKinds
  <2> QED  BY <2>1, StoppedMeans DEF Observed
<1>4. d.plan # None => d.remaining - 1 \in Nat /\ (d.remaining - 1) + (n + 1) = Limit
  BY <1>2 DEF Serves
<1>5. d.plan.kind = "over" /\ d.plan.frame = NoFrame
      => MakesCall(b) /\ Calling(StepOf(b)) /\ StepOf(b).stackBefore = b.stackBefore
  BY DEF Decoded, MakesCall, Calling, StepOf, StackedDepth
<1>6. BoundaryType(b) /\ Depth \in Nat
  BY BoundaryShape, HereType
<1>7. /\ StepOf(b).returnsTo = b.returnsTo /\ StepOf(b).stackAfter = Len(b.stack)
      /\ StepOf(b).after.address = b.pc /\ StepOf(b).after = At(b.pc)
  BY DEF StepOf, At
<1> HIDE DEF p
<1>8. o.plan.kind = d.plan.kind /\ o.remaining = p.remaining
  BY <1>1, <1>3, <1>7 DEF Advanced
<1>9. /\ a.kind \in Limited => o.plan # None
      /\ o.plan # None => o.remaining \in Nat /\ o.remaining + (n + 1) = Limit
      /\ o.plan.kind = "step" => a.kind = "over"
      /\ o.plan.kind \in Limited => a.kind = o.plan.kind
  BY <1>1, <1>2, <1>4, <1>8 DEF Serves
<1>10. ASSUME o.plan.kind \in {"over", "out"}, o.plan.frame # NoFrame,
              NEW i \in DOMAIN o.frames, o.frames[i].id = o.plan.frame
       PROVE  Ends(a, o.frames[i].returnsTo, o.frames[i].stack)
  <2>1. ASSUME o.plan = d.plan, NEW j \in DOMAIN d.frames, d.frames[j] = o.frames[i]
        PROVE  Ends(a, o.frames[i].returnsTo, o.frames[i].stack)
    BY <1>10, <2>1 DEF Serves
  <2>2. ASSUME CallOf(o.frames[i], StepOf(b)), d.plan.kind = "over", d.plan.frame = NoFrame
        PROVE  Ends(a, o.frames[i].returnsTo, o.frames[i].stack)
    <3>1. a.back = Following(pc) /\ a.depth = Depth /\ a.kind = "over"
      BY <2>2 DEF Serves, Limited
    <3>2. o.frames[i].returnsTo = b.returnsTo /\ o.frames[i].stack = b.stackBefore
      BY <1>5, <1>7, <2>2 DEF CallOf
    <3>3. b.returnsTo = Following(pc) /\ b.stackBefore <= Depth
      BY <1>5, <1>6, <2>2 DEF MakesCall
    <3> QED  BY <3>1, <3>2, <3>3 DEF Ends
  <2> QED  BY <1>1, <1>3, <1>5, <1>7, <1>10, <2>1, <2>2 DEF Advanced
<1>11. ASSUME o.plan.kind \in {"over", "out"}, o.completed
       PROVE  Ends(a, b.pc, Len(b.stack))
  <2>1. PICK j \in DOMAIN d.frames : d.frames[j].id = d.plan.frame /\ ReturnsFrom(d.frames[j], StepOf(b))
    BY <1>1, <1>3, <1>7, <1>8, <1>11 DEF Advanced
  <2>2. d.plan.kind \in {"over", "out"} /\ d.plan.frame # NoFrame
    BY <1>1, <1>3, <1>7, <1>8, <1>11 DEF Advanced
  <2>3. Ends(a, d.frames[j].returnsTo, d.frames[j].stack)
    BY <2>1, <2>2 DEF Serves
  <2>4. d.frames[j].returnsTo = b.pc /\ d.frames[j].stack = Len(b.stack)
    BY <1>7, <2>1 DEF ReturnsFrom
  <2> QED  BY <2>3, <2>4
<1> QED  BY <1>9, <1>10, <1>11 DEF Serves

\* A boundary serves the request on, or ends it where it should come back to.
LEMMA CaptureRequests ==
    ASSUME TypeInv, RequestInv, NEW b \in Boundaries, NEW d, NEW stores \in BOOLEAN, NEW n \in Nat,
           Captures(d, b, stores, n), asked' \in Request, d.plan # None => d.remaining # 0,
           d.plan.kind = "over" /\ d.plan.frame = NoFrame => asked.back = Following(pc) /\ asked.depth = Depth,
           running => asked' = asked /\ n = since /\ dbg.stop = None /\ Serves(d, asked, pc, Depth, n),
           ~running => asked'.kind = "step" /\ n = 0
    PROVE  RequestInv'
<1>1. /\ Here' = At(b.pc) /\ Depth' = Len(b.stack) /\ since' \in Nat /\ pc' = b.pc
      /\ running' = running /\ (n <= Limit => since' = n + 1) /\ TypeInv' /\ running \in BOOLEAN
  <2>1. running' = running /\ pc' = b.pc /\ running \in BOOLEAN
    BY DEF Captures, Capture, TypeInv
  <2> QED  BY <2>1, CaptureType
<1>2. PICK o : /\ Observed(o, d, b) /\ dbg'.frames = o.frames
               /\ \/ running /\ dbg' = o /\ o.stop = None
                  \/ \E kind \in Endings :
                        StoppedAs(dbg', kind, At(b.pc)) /\ (kind = "step" => d.plan.kind = "step")
  BY CaptureEnds
<1>3. Ready(d) /\ Decoded(d, b) /\ asked \in Request
  BY DEF Captures, TypeInv
<1>4. running => asked.kind # "step"
  BY DEF RequestInv
<1>5. running /\ d.plan # None => n + 1 <= Limit
  BY LimitsAssumption, <1>3 DEF Serves, Ready, Kept, Debugger
<1>6. since' = n + 1 \/ (running /\ d.plan = None)
  <2>1. CASE ~running
    <3>1. n = 0 /\ n <= Limit
      BY <2>1, LimitsAssumption
    <3> QED  BY <1>1, <3>1
  <2>2. CASE running /\ d.plan # None
    <3>1. n <= Limit
      BY <1>5, <2>2, LimitsAssumption
    <3> QED  BY <1>1, <3>1
  <2> QED  BY <2>1, <2>2
<1>7. asked'.kind \in Limited => since' <= Limit
  <2>1. SUFFICES ASSUME asked'.kind \in Limited PROVE since' <= Limit
    OBVIOUS
  <2>2. running
    BY <2>1 DEF Limited
  <2>3. d.plan # None
    BY <2>1, <2>2 DEF Serves
  <2> QED  BY <1>5, <1>6, <2>2, <2>3
<1>8. asked'.kind = "step" => since' <= 1
  <2>1. SUFFICES ASSUME asked'.kind = "step" PROVE since' <= 1
    OBVIOUS
  <2>2. ~running /\ n = 0
    BY <1>1, <1>4, <2>1
  <2> QED  BY <1>6, <2>2
<1>9. CASE running /\ dbg' = o /\ o.stop = None
  <2>1. Serves(o, asked, b.pc, Len(b.stack), n + 1)
    BY <1>2, <1>3, <1>9, StillServes
  <2>2. o.plan # None => d.plan # None
    <3>1. CASE StoppedAs(o, "error", At(b.pc)) \/ StoppedAs(o, "tracking-lost", At(b.pc))
      BY <3>1 DEF StoppedAs
    <3>2. CASE o.plan.kind = d.plan.kind
      <4>1. d.plan \in Plan /\ o.plan \in Plan
        BY <1>2, <1>3 DEF Ready, Kept, Debugger, Observed
      <4> QED  BY <3>2, <4>1, PlanKinds
    <3> QED  BY <1>2, <1>3, <3>1, <3>2, Proceeds
  <2>3. Serves(dbg', asked', pc', Depth', since')
    BY <1>1, <1>6, <1>9, <2>1, <2>2 DEF Serves
  <2>4. dbg'.stop.kind \notin {"over", "out", "step"} /\ asked'.kind # "step"
    BY <1>4, <1>9 DEF None
  <2>5. RequestsReturn'
    BY <1>7, <2>4 DEF RequestsReturn, Limited
  <2> QED  BY <2>3, <2>4, <2>5 DEF RequestInv
<1>10. ASSUME NEW kind \in Endings, StoppedAs(dbg', kind, At(b.pc)), kind = "step" => d.plan.kind = "step"
       PROVE  RequestInv'
  <2>1. dbg'.stop.kind = kind /\ dbg'.stop # None /\ kind \notin {"over", "out"}
    BY <1>10, EndingsAreStops, StoppedMeans DEF Endings
  <2>2. asked'.kind = "until" => kind # "step"
    BY <1>10 DEF Serves
  <2>3. RequestsReturn'
    BY <1>7, <1>8, <2>1, <2>2 DEF RequestsReturn, Limited
  <2>4. asked'.kind = "step" => running' = FALSE
    BY <1>1, <1>4
  <2> QED  BY <2>1, <2>3, <2>4 DEF RequestInv
<1> QED  BY <1>2, <1>9, <1>10

\* A boundary keeps every observed caller on the stack, in order.
LEMMA CaptureCalls ==
    ASSUME TypeInv, CallsInv, NEW b \in Boundaries, NEW d, NEW stores \in BOOLEAN, NEW n \in Nat,
           Captures(d, b, stores, n), asked' \in Request
    PROVE  CallsInv'
<1>1. /\ Depth' = Len(b.stack) /\ Adapter' = Adapter /\ lab' = lab
      /\ pc' = b.pc /\ stack' = b.stack /\ wait' = b.wait
  BY CaptureType DEF Captures, Capture
<1>2. PICK o : Observed(o, d, b) /\ dbg'.frames = o.frames
  BY CaptureEnds
<1>3. d.frames = dbg.frames /\ dbg.frames \in Seq(Frame)
  BY DEF Captures, TypeInv, Kept, Debugger
<1> SUFFICES ASSUME lab.disciplined, Adapter # "xt"
             PROVE  /\ Callers(dbg'.frames, b.stack)
                    /\ b.wait = "cwai" /\ waitingStack' # Unknown => WaitsOver'
  BY <1>1 DEF CallsInv, Unknown, MaxStack
<1>4. /\ Callers(dbg.frames, stack) /\ (wait = "cwai" /\ waitingStack # Unknown => WaitsOver)
      /\ stack \in Seq(Places) /\ pc \in Places /\ Following(pc) \in Places /\ Depth = Len(stack)
      /\ Depth \in Nat
  BY HereType DEF CallsInv, TypeInv, Depth
<1>5. Followed(dbg'.frames, dbg.frames, StepOf(b)) /\ (Unseen(b) => dbg'.frames = <<>>)
  BY <1>2, <1>3 DEF Observed
<1>6. /\ StepOf(b).flow = b.flow /\ StepOf(b).stackBefore = StackedDepth(b)
      /\ StepOf(b).stackAfter = Len(b.stack) /\ StepOf(b).returnsTo = b.returnsTo
      /\ StepOf(b).resetsStack = b.resets
  BY DEF StepOf
<1>7. Adapter = "coco" => waitingStack' = WaitingStackAfter(b)
  BY DEF Captures, Capture
<1>8. BoundaryType(b)
  BY BoundaryShape
<1>9. Adapter \in {"coco", "apple2"} /\ (Adapter = "apple2" => wait = "none" /\ b.wait = "none")
  BY <1>8, LaboratoriesAssumption DEF TypeInv, Adapter, BoundaryType
<1>10. CASE MakesCall(b)
  <2>1. b.stack = Append(stack, Following(pc)) /\ b.returnsTo = Following(pc) /\ b.wait = "none"
        /\ StepOf(b).stackBefore = Depth /\ ~Returning(StepOf(b)) /\ Calling(StepOf(b))
    BY <1>6, <1>10 DEF MakesCall, StackedDepth, Returning, Calling
  <2>2. CASE dbg'.frames = <<>>
    BY <2>1, <2>2, CallersForgotten
  <2>3. CASE \E f : CallOf(f, StepOf(b)) /\ dbg'.frames \in {<<f>>, Append(dbg.frames, f)}
    <3>1. PICK f : CallOf(f, StepOf(b)) /\ dbg'.frames \in {<<f>>, Append(dbg.frames, f)}
      BY <2>3
    <3>2. f \in Frame /\ f.returnsTo = Following(pc) /\ f.stack = Len(stack)
      BY <1>4, <1>6, <2>1, <3>1 DEF CallOf
    <3>3. Callers(dbg.frames, b.stack) /\ Under(dbg.frames, f.stack)
      BY <1>3, <1>4, <2>1, <3>2, CallersDeeper
    <3>4. b.stack \in Seq(Places) /\ Len(b.stack) = Len(stack) + 1 /\ b.stack[Len(stack) + 1] = Following(pc)
      BY <1>4, <2>1, AppendProperties
    <3>5. f.stack < Len(b.stack) /\ b.stack[f.stack + 1] = f.returnsTo
      BY <1>4, <3>2, <3>4
    <3>6. Callers(dbg'.frames, b.stack)
      BY <1>3, <3>1, <3>2, <3>3, <3>4, <3>5, CallersAdded
    <3> QED  BY <2>1, <3>6
  <2> QED  BY <1>5, <2>1, <2>2, <2>3 DEF Followed
<1>11. CASE Returns(b)
  <2>1. /\ stack # <<>> /\ b.stack = Front(stack) /\ b.wait = "none"
        /\ ~Calling(StepOf(b)) /\ Returning(StepOf(b))
    BY <1>6, <1>11 DEF Returns, Calling, Returning
  <2>2. CASE dbg'.frames = <<>>
    BY <2>1, <2>2, CallersForgotten
  <2>3. CASE dbg.frames # <<>> /\ dbg'.frames = Front(dbg.frames) /\ ReturnsFrom(Last(dbg.frames), StepOf(b))
    <3>1. Last(dbg.frames).stack = Len(Front(stack))
      BY <1>6, <2>1, <2>3 DEF ReturnsFrom
    <3> QED  BY <1>3, <1>4, <2>1, <2>3, <3>1, CallersReturned
  <2> QED  BY <1>5, <2>1, <2>2, <2>3 DEF Followed
<1>12. CASE Replaces(b)
  <2>1. dbg'.frames = <<>> /\ b.wait = "none"
    BY <1>5, <1>6, <1>12 DEF Replaces, Followed, Calling, Returning
  <2> QED  BY <2>1, CallersForgotten
<1>13. CASE Continues(b)
  <2>1. dbg'.frames \in {<<>>, dbg.frames} /\ b.wait = "none"
    BY <1>5, <1>6, <1>13 DEF Continues, Followed, Calling, Returning
  <2>2. Callers(dbg.frames, b.stack)
    BY <1>3, <1>4, <1>13, CallersDeeper DEF Continues
  <2> QED  BY <2>1, <2>2, CallersForgotten
<1>14. CASE StartsWaiting(b)
  <2>1. /\ dbg'.frames \in {<<>>, dbg.frames} /\ b.stack = Append(stack, Following(pc))
        /\ b.pc = Following(pc) /\ b.wait = "cwai" /\ b.outcome = "executed"
    BY <1>5, <1>6, <1>14 DEF StartsWaiting, Followed, Calling, Returning
  <2>2. waitingStack' = Len(stack)
    BY <1>4, <1>7, <1>9, <2>1 DEF WaitingStackAfter
  <2>3. Callers(dbg.frames, b.stack) /\ Under(dbg.frames, Len(stack))
    BY <1>3, <1>4, <2>1, CallersDeeper
  <2>4. Callers(dbg'.frames, b.stack) /\ Under(dbg'.frames, Len(stack))
    BY <2>1, <2>3, CallersForgotten
  <2>5. /\ b.stack # <<>> /\ Len(b.stack) = Len(stack) + 1 /\ Len(stack) \in Nat
        /\ b.stack[Len(stack) + 1] = b.pc
    BY <1>4, <2>1, AppendProperties
  <2>6. WaitsOver'
    BY <1>1, <2>2, <2>4, <2>5 DEF WaitsOver
  <2> QED  BY <2>4, <2>6
<1>15. CASE Waiting(b)
  <2>1. /\ dbg'.frames \in {<<>>, dbg.frames} /\ b.stack = stack /\ b.pc = pc
        /\ wait = "cwai" /\ b.outcome = "waiting"
    BY <1>5, <1>6, <1>15 DEF Waiting, Followed, Calling, Returning
  <2>2. waitingStack' = waitingStack
    BY <1>7, <1>9, <2>1 DEF WaitingStackAfter
  <2>3. Callers(dbg'.frames, b.stack)
    BY <1>4, <2>1, CallersForgotten
  <2>4. ASSUME waitingStack # Unknown PROVE WaitsOver'
    <3>1. WaitsOver
      BY <1>4, <2>1, <2>4
    <3>2. Under(dbg'.frames, waitingStack)
      BY <2>1, <3>1, CallersForgotten DEF WaitsOver
    <3> QED  BY <1>1, <1>4, <2>1, <2>2, <3>1, <3>2 DEF WaitsOver
  <2> QED  BY <2>2, <2>3, <2>4
<1>16. CASE Accepts(b)
  <2>1. /\ ~Returning(StepOf(b)) /\ Calling(StepOf(b)) /\ b.wait = "none" /\ b.outcome = "accepted"
        /\ b.returnsTo = pc /\ b.stackBefore = Depth
    BY <1>6, <1>16 DEF Accepts, Returning, Calling
  <2>2. CASE dbg'.frames = <<>>
    BY <2>1, <2>2, CallersForgotten
  <2>3. CASE dbg'.frames # <<>>
    <3>1. PICK f : CallOf(f, StepOf(b)) /\ dbg'.frames \in {<<f>>, Append(dbg.frames, f)}
      BY <1>5, <2>1, <2>3 DEF Followed
    <3>2. f \in Frame /\ f.returnsTo = pc /\ f.stack = StackedDepth(b)
      BY <1>6, <2>1, <3>1 DEF CallOf
    <3>3. CASE wait = "cwai"
      <4>1. waitingStack # Unknown
        BY <1>5, <2>1, <2>3, <3>3 DEF Unseen
      <4>2. b.stack = stack /\ f.stack = waitingStack
        BY <1>16, <2>1, <3>2, <3>3 DEF Accepts, StackedDepth
      <4>3. f.stack + 1 = Len(stack) /\ stack[Len(stack)] = pc /\ Under(dbg.frames, f.stack)
        BY <1>4, <3>3, <4>1, <4>2 DEF WaitsOver
      <4>4. f.stack \in Nat
        BY <3>2 DEF Frame
      <4>5. f.stack < Len(stack) /\ stack[f.stack + 1] = f.returnsTo
        BY <1>4, <3>2, <4>3, <4>4
      <4>6. Callers(dbg'.frames, stack)
        BY <1>3, <1>4, <3>1, <3>2, <4>3, <4>5, CallersAdded
      <4> QED  BY <2>1, <4>2, <4>6
    <3>4. CASE wait # "cwai"
      <4>1. b.stack = Append(stack, pc) /\ f.stack = Len(stack)
        BY <1>4, <1>16, <2>1, <3>2, <3>4 DEF Accepts, StackedDepth
      <4>2. Callers(dbg.frames, b.stack) /\ Under(dbg.frames, f.stack)
        BY <1>3, <1>4, <4>1, CallersDeeper
      <4>3. b.stack \in Seq(Places) /\ Len(b.stack) = Len(stack) + 1 /\ b.stack[Len(stack) + 1] = pc
        BY <1>4, <4>1, AppendProperties
      <4>4. f.stack < Len(b.stack) /\ b.stack[f.stack + 1] = f.returnsTo
        BY <1>4, <3>2, <4>1, <4>3
      <4>5. Callers(dbg'.frames, b.stack)
        BY <1>3, <3>1, <3>2, <4>2, <4>3, <4>4, CallersAdded
      <4> QED  BY <2>1, <4>5
    <3> QED  BY <3>3, <3>4
  <2> QED  BY <2>2, <2>3
<1> QED  BY <1>10, <1>11, <1>12, <1>13, <1>14, <1>15, <1>16, BoundaryShape

----------------------------------------------------------------------------
(* The user's requests.                                                    *)

\* The reset place is a place.
LEMMA ZeroIsPlace == 0 \in Places
<1>1. Cardinality(Places) \in Nat
  BY PlacesAssumption, FS_CardinalityType
<1>2. Vector \in 0..(Cardinality(Places) - 1)
  BY PlacesAssumption
<1> QED  BY <1>1, <1>2, PlacesAssumption

\* A new laboratory has a fresh debugger.
LEMMA InitInv == Init => Inv
<1> SUFFICES ASSUME Init PROVE Inv
  OBVIOUS
<1>1. /\ dbg = NewDebugger /\ dbg.frames = <<>> /\ dbg.points = {} /\ dbg.plan = None
      /\ dbg.stop = None /\ dbg.skip = None /\ dbg.completed = FALSE /\ dbg.remaining = Limit
      /\ dbg.lost = FALSE
  BY DEF Init, NewDebugger
<1>2. <<>> \in Seq(Frame) /\ Len(<<>>) = 0 /\ DOMAIN <<>> = {} /\ <<>> \in Seq(Places)
  OBVIOUS
<1>3. dbg \in Debugger
  BY <1>2, LimitsAssumption DEF Init, NewDebugger, Debugger, Plan, Stop, Skip
<1>4. Kept(dbg)
  BY <1>1, <1>2, <1>3, LimitsAssumption DEF Kept, Distinct
<1>5. asked \in Request /\ asked.kind = "nothing"
  BY ZeroIsPlace DEF Init, Nothing, Request
<1>6. waitingStack \in Nat
  <2>1. lab.maxStack \in Nat
    BY LaboratoriesAssumption DEF Init
  <2> QED  BY <2>1 DEF Init, Unknown, MaxStack
<1>7. TypeInv
  BY <1>2, <1>4, <1>5, <1>6, ZeroIsPlace DEF TypeInv, Init
<1>8. PolicyInv
  BY <1>1 DEF PolicyInv, None
<1>9. StopsAreTrue
  BY <1>1 DEF StopsAreTrue, Init
<1>10. Serves(dbg, asked, pc, Depth, since)
  BY <1>1, <1>5 DEF Serves, Limited, None
<1>11. RequestsReturn
  BY <1>1, <1>5 DEF RequestsReturn, None
<1>12. CallsInv
  BY <1>1, CallersForgotten DEF CallsInv, Init
<1> QED  BY <1>5, <1>7, <1>8, <1>9, <1>10, <1>11, <1>12 DEF Inv, RequestInv

\* What Ask leaves alone.
LEMMA AskKeeps ==
    ASSUME Inv, NEW request \in Request, NEW d, Ask(d, request), UNCHANGED lab,
           Kept(d), d.frames = dbg.frames, d.stop = None, d.completed = FALSE, request.kind # "step",
           d.skip # None => d.skip = [kind |-> "at", at |-> Here] /\ request.crosses /\ request.at = Here,
           Adapter = "xt" => d.plan.kind \notin {"over", "out"},
           d.plan.kind = "over" /\ d.plan.frame = NoFrame
           => line # "pending" /\ wait = "none" /\ request.back = Following(pc) /\ request.depth = Depth,
           Serves(d, request, pc, Depth, 0)
    PROVE  Inv'
<1>1. /\ dbg' = d /\ asked' = request /\ hit' = FALSE /\ since' = 0 /\ stored' = FALSE /\ running' = TRUE
      /\ pc' = pc /\ stack' = stack /\ wait' = wait /\ line' = line /\ lab' = lab
      /\ waitingStack' = waitingStack /\ watching' = watching
  BY DEF Ask, program
<1>2. /\ Here' = Here /\ Depth' = Depth /\ Adapter' = Adapter /\ Unknown' = Unknown
      /\ Following(pc)' = Following(pc)
  BY <1>1 DEF Here, Depth, Adapter, Unknown, MaxStack, Following
<1>3. TypeInv'
  BY <1>1, <1>2 DEF Inv, TypeInv
<1>4. PolicyInv'
  BY <1>1, <1>2 DEF Inv, PolicyInv
<1>5. StopsAreTrue'
  BY <1>1 DEF StopsAreTrue
<1>6. RequestsReturn'
  BY <1>1, LimitsAssumption DEF RequestsReturn, None
<1>7. RequestInv'
  BY <1>1, <1>2, <1>6 DEF RequestInv
<1>8. CallsInv'
  BY <1>1, <1>2 DEF Inv, CallsInv, WaitsOver
<1> QED  BY <1>3, <1>4, <1>5, <1>7, <1>8 DEF Inv

\* A request the user starts from here.
LEMMA StartEffect ==
    ASSUME TypeInv, NEW request \in Plan, NEW cross \in BOOLEAN
    PROVE  LET d == Start(dbg, Here, request, cross, Limit)
           IN  /\ Kept(d) /\ d.frames = dbg.frames /\ d.points = dbg.points /\ d.stop = None
               /\ d.plan = request /\ d.completed = FALSE /\ d.remaining = Limit
               /\ d.skip # None => d.skip = [kind |-> "at", at |-> Here] /\ (cross \/ StoppedHere)
<1>1. dbg \in Debugger /\ Here \in Location
  BY HereType DEF TypeInv, Kept
<1> DEFINE d == Start(dbg, Here, request, cross, Limit)
<1>2. /\ d \in Debugger
      /\ d.stop = None /\ d.plan = request /\ d.completed = FALSE
      /\ d.remaining = Limit /\ d.frames = dbg.frames /\ d.points = dbg.points
      /\ d.skip \in {None, [kind |-> "at", at |-> Here]}
      /\ d.skip # None => cross \/ dbg.stop = [kind |-> "breakpoint", at |-> Here]
  BY <1>1, StartType
<1> HIDE DEF d
<1>3. Kept(d)
  BY <1>2 DEF Kept, TypeInv
<1> QED  BY <1>2, <1>3 DEF StoppedHere, d

\* What the user asked is remembered as it was.
LEMMA AskingType ==
    ASSUME TypeInv, NEW kind \in {"run", "step", "over", "out", "target", "until"},
           NEW back \in Places, NEW depth \in Nat, NEW crosses \in BOOLEAN
    PROVE  /\ Asking(kind, back, depth, crosses) \in Request
           /\ Asking(kind, back, depth, crosses).kind = kind
           /\ Asking(kind, back, depth, crosses).at = Here
           /\ Asking(kind, back, depth, crosses).back = back
           /\ Asking(kind, back, depth, crosses).depth = depth
           /\ Asking(kind, back, depth, crosses).crosses = crosses
BY HereType DEF Asking, Request

\* The types the requests need.
LEMMA InvTypes ==
    ASSUME Inv
    PROVE  /\ TypeInv /\ pc \in Places /\ Following(pc) \in Places /\ Depth \in Nat /\ Here \in Location
           /\ StoppedHere \in BOOLEAN
<1>1. TypeInv
  BY DEF Inv
<1>2. pc \in Places /\ StoppedHere \in BOOLEAN
  BY <1>1 DEF TypeInv, StoppedHere
<1> QED  BY <1>1, <1>2, HereType

\* A request that waits for no frame.
LEMMA PlainRequest ==
    ASSUME Inv, UNCHANGED lab, NEW plan \in Plan, NEW cross \in BOOLEAN, NEW a \in Request,
           plan.kind \in {"none", "step", "target", "until"},
           a.kind = (IF plan.kind = "none" THEN "run" ELSE IF plan.kind = "step" THEN "over" ELSE plan.kind),
           a.at = Here, cross \/ StoppedHere => a.crosses,
           Ask(Start(dbg, Here, plan, cross, Limit), a)
    PROVE  Inv'
<1> DEFINE d == Start(dbg, Here, plan, cross, Limit)
<1>1. /\ Kept(d) /\ d.frames = dbg.frames /\ d.stop = None /\ d.plan = plan
      /\ d.completed = FALSE /\ d.remaining = Limit
      /\ d.skip # None => d.skip = [kind |-> "at", at |-> Here] /\ (cross \/ StoppedHere)
  BY StartEffect DEF Inv
<1> HIDE DEF d
<1>2. Serves(d, a, pc, Depth, 0)
  BY <1>1, PlanKinds, LimitsAssumption DEF Serves, Limited
<1> QED  BY <1>1, <1>2, AskKeeps DEF d

\* Run.
LEMMA ClickRunKeeps == ASSUME Inv, ClickRun, UNCHANGED lab PROVE Inv'
<1>1. /\ Asking("run", pc, Depth, StoppedHere) \in Request
      /\ Asking("run", pc, Depth, StoppedHere).kind = "run"
      /\ Asking("run", pc, Depth, StoppedHere).at = Here
      /\ Asking("run", pc, Depth, StoppedHere).crosses = StoppedHere
  BY InvTypes, AskingType
<1>2. None \in Plan /\ None.kind = "none"
  BY DEF Plan, None
<1> QED  BY <1>1, <1>2, PlainRequest DEF ClickRun, Run

\* Run to an address.
LEMMA ClickRunToKeeps == ASSUME Inv, NEW p \in Places, ClickRunTo(p), UNCHANGED lab PROVE Inv'
<1> DEFINE plan == [kind |-> "target", point |-> [address |-> p, space |-> Anywhere]]
           a == Asking("target", p, Depth, StoppedHere)
<1>1. a \in Request /\ a.kind = "target" /\ a.at = Here /\ a.crosses = StoppedHere
  BY InvTypes, AskingType
<1>2. plan \in Plan /\ plan.kind = "target"
  BY DEF Plan, Target
<1>3. Ask(Start(dbg, Here, plan, FALSE, Limit), a)
  BY DEF ClickRunTo, RunTo
<1> HIDE DEF plan, a
<1> QED  BY <1>1, <1>2, <1>3, PlainRequest

\* Step to the next BASIC statement.
LEMMA ClickStepUntilKeeps == ASSUME Inv, ClickStepUntil, UNCHANGED lab PROVE Inv'
<1> DEFINE plan == [kind |-> "until"]
           a == Asking("until", pc, Depth, TRUE)
<1>1. a \in Request /\ a.kind = "until" /\ a.at = Here /\ a.crosses = TRUE
  BY InvTypes DEF Asking, Request
<1>2. plan \in Plan /\ plan.kind = "until"
  BY DEF Plan
<1>3. Ask(Start(dbg, Here, plan, TRUE, Limit), a)
  BY DEF ClickStepUntil, StepUntil
<1> HIDE DEF plan, a
<1> QED  BY <1>1, <1>2, <1>3, PlainRequest

\* Over: one step, or a request that waits for the decoded call's frame.
LEMMA ClickOverKeeps == ASSUME Inv, ClickOver, UNCHANGED lab PROVE Inv'
<1> DEFINE a == Asking("over", Following(pc), Depth, TRUE)
<1>1. /\ a \in Request /\ a.kind = "over" /\ a.at = Here /\ a.crosses = TRUE
      /\ a.back = Following(pc) /\ a.depth = Depth
  BY InvTypes DEF Asking, Request
<1>2. PICK flow \in Flows : Ask(Over(dbg, Here, flow), a)
  BY DEF ClickOver
<1> HIDE DEF a
<1>3. CASE flow # "call"
  <2> DEFINE plan == [kind |-> "step"]
  <2>1. plan \in Plan /\ plan.kind = "step" /\ Ask(Start(dbg, Here, plan, TRUE, Limit), a)
    BY <1>2, <1>3 DEF Plan, Over
  <2> HIDE DEF plan
  <2> QED  BY <1>1, <2>1, PlainRequest
<1>4. CASE flow = "call"
  <2> DEFINE plan == [kind |-> "over", frame |-> NoFrame]
             d == Start(dbg, Here, plan, TRUE, Limit)
  <2>1. line # "pending" /\ wait = "none" /\ Adapter # "xt"
    BY <1>4 DEF Flows, ClickOver
  <2>2. plan \in Plan /\ plan.kind = "over" /\ plan.frame = NoFrame
    BY LimitsAssumption DEF Plan, Waits, NoFrame
  <2>3. Ask(d, a)
    BY <1>2, <1>4 DEF Over
  <2> HIDE DEF plan
  <2>4. /\ Kept(d) /\ d.frames = dbg.frames /\ d.stop = None /\ d.plan = plan
        /\ d.completed = FALSE /\ d.remaining = Limit
        /\ d.skip # None => d.skip = [kind |-> "at", at |-> Here]
    BY <2>2, StartEffect DEF Inv
  <2> HIDE DEF d
  <2>5. Serves(d, a, pc, Depth, 0)
    BY <1>1, <2>2, <2>4, PlanKinds, LimitsAssumption DEF Serves, Limited
  <2> QED  BY <1>1, <2>1, <2>2, <2>3, <2>4, <2>5, AskKeeps
<1> QED  BY <1>3, <1>4

\* Out: the request waits for the last caller's frame, whose number no other has.
LEMMA ClickOutKeeps == ASSUME Inv, ClickOut, UNCHANGED lab PROVE Inv'
<1> DEFINE f == Last(dbg.frames)
           n == Len(dbg.frames)
           a == Asking("out", f.returnsTo, f.stack, TRUE)
           plan == [kind |-> "out", frame |-> f.id]
           d == Start(dbg, Here, plan, TRUE, Limit)
<1>1. dbg.frames \in Seq(Frame) /\ dbg.frames # <<>> /\ Distinct(dbg.frames) /\ Adapter # "xt"
  BY DEF Inv, TypeInv, Kept, Debugger, ClickOut, CanStepOut
<1>2. n \in Nat /\ n >= 1 /\ f = dbg.frames[n] /\ f \in Frame /\ DOMAIN dbg.frames = 1..n
  BY <1>1, FrontLast, LenProperties
<1>3. Ask(d, a)
  BY DEF ClickOut, Out
<1> HIDE DEF f, n
<1>4. f.returnsTo \in Places /\ f.stack \in Nat /\ f.id \in 0..(FrameLimit + 1)
  BY <1>2 DEF Frame
<1>5. /\ a \in Request /\ a.kind = "out" /\ a.at = Here /\ a.crosses = TRUE
      /\ a.back = f.returnsTo /\ a.depth = f.stack
  BY <1>4, InvTypes DEF Asking, Request
<1>6. plan \in Plan /\ plan.kind = "out" /\ plan.frame = f.id
  BY <1>4, LimitsAssumption DEF Plan, Waits, NoFrame
<1> HIDE DEF plan, a
<1>7. /\ Kept(d) /\ d.frames = dbg.frames /\ d.stop = None /\ d.plan = plan
      /\ d.completed = FALSE /\ d.remaining = Limit
      /\ d.skip # None => d.skip = [kind |-> "at", at |-> Here]
  BY <1>6, StartEffect DEF Inv
<1> HIDE DEF d
<1>8. ASSUME NEW i \in DOMAIN dbg.frames, dbg.frames[i].id = f.id
      PROVE  Ends(a, dbg.frames[i].returnsTo, dbg.frames[i].stack)
  <2>1. i = n
    BY <1>1, <1>2, <1>8 DEF Distinct
  <2> QED  BY <1>2, <1>4, <1>5, <2>1 DEF Ends
<1>9. Serves(d, a, pc, Depth, 0)
  BY <1>5, <1>6, <1>7, <1>8, PlanKinds, LimitsAssumption DEF Serves, Limited
<1> QED  BY <1>1, <1>3, <1>5, <1>6, <1>7, <1>9, AskKeeps

\* Only the breakpoints change.
LEMMA PointsKeep ==
    ASSUME Inv, NEW points \in SUBSET Point, dbg' = [dbg EXCEPT !.points = points], UNCHANGED lab,
           UNCHANGED <<program, waitingStack, watching, attached, hit, running, failed, asked, since, stored>>
    PROVE  Inv'
<1>1. /\ pc' = pc /\ stack' = stack /\ wait' = wait /\ line' = line /\ waitingStack' = waitingStack
      /\ watching' = watching /\ hit' = hit /\ running' = running /\ asked' = asked
      /\ since' = since /\ stored' = stored /\ lab' = lab
  BY DEF program
<1>2. dbg \in Debugger /\ TypeInv
  BY DEF Inv, TypeInv, Kept
<1>3. /\ dbg' \in Debugger /\ dbg'.frames = dbg.frames /\ dbg'.plan = dbg.plan /\ dbg'.stop = dbg.stop
      /\ dbg'.skip = dbg.skip /\ dbg'.completed = dbg.completed /\ dbg'.remaining = dbg.remaining
  BY <1>2 DEF Debugger
<1>4. /\ Here' = Here /\ Depth' = Depth /\ Adapter' = Adapter /\ Unknown' = Unknown
      /\ Following(pc)' = Following(pc) /\ (Statement' <=> Statement)
  BY <1>1 DEF Here, Depth, Adapter, Unknown, MaxStack, Following, Statement
<1>5. TypeInv'
  BY <1>1, <1>2, <1>3, <1>4 DEF TypeInv, Kept
<1>6. PolicyInv'
  BY <1>1, <1>3, <1>4 DEF Inv, PolicyInv, StoppedAs
<1>7. StopsAreTrue'
  BY <1>1, <1>3, <1>4 DEF Inv, StopsAreTrue
<1>8. RequestInv'
  BY <1>1, <1>3, <1>4 DEF Inv, RequestInv, RequestsReturn, Serves
<1>9. CallsInv'
  BY <1>1, <1>3, <1>4 DEF Inv, CallsInv, WaitsOver
<1> QED  BY <1>5, <1>6, <1>7, <1>8, <1>9 DEF Inv

\* A toggled row is still a set of breakpoints.
LEMMA ToggledType ==
    ASSUME Inv, NEW p \in Places
    PROVE  ToggledPoints(At(p)) \in SUBSET Point
<1>1. dbg.points \in SUBSET Point
  BY DEF Inv, TypeInv, Kept, Debugger
<1>2. [address |-> p, space |-> Anywhere, enabled |-> TRUE] \in Point
  BY DEF Point
<1>3. \A q \in Point, on \in BOOLEAN : [q EXCEPT !.enabled = on] \in Point
  BY DEF Point
<1> DEFINE enabled == \E q \in ApplicablePoints(At(p)) : q.enabled
<1> HIDE DEF enabled
<1>4. \A q \in Point : [q EXCEPT !.enabled = ~enabled] \in Point
  <2>1. CASE enabled
    <3>1. (~enabled) = FALSE
      BY <2>1
    <3> QED  BY <1>3, <3>1
  <2>2. CASE ~enabled
    <3>1. (~enabled) = TRUE
      BY <2>2
    <3> QED  BY <1>3, <3>1
  <2> QED  BY <2>1, <2>2
<1>5. {IF q \in ApplicablePoints(At(p)) THEN [q EXCEPT !.enabled = ~enabled] ELSE q : q \in dbg.points}
        \in SUBSET Point
  BY <1>1, <1>4
<1>6. dbg.points \cup {[address |-> p, space |-> Anywhere, enabled |-> TRUE]} \in SUBSET Point
  BY <1>1, <1>2
<1> QED  BY <1>5, <1>6 DEF ToggledPoints, enabled, At

\* A watchpoint switched on or off touches no request.
LEMMA SetWatchpointsKeeps == ASSUME Inv, SetWatchpoints, UNCHANGED lab PROVE Inv'
<1>1. /\ pc' = pc /\ stack' = stack /\ wait' = wait /\ line' = line /\ waitingStack' = waitingStack
      /\ hit' = hit /\ running' = running /\ asked' = asked /\ since' = since
      /\ stored' = FALSE /\ lab' = lab /\ dbg' = dbg /\ watching' \in BOOLEAN
  BY DEF program, SetWatchpoints, Inv, TypeInv
<1>2. /\ Here' = Here /\ Depth' = Depth /\ Adapter' = Adapter /\ Unknown' = Unknown
      /\ Following(pc)' = Following(pc) /\ (Statement' <=> Statement)
  BY <1>1 DEF Here, Depth, Adapter, Unknown, MaxStack, Following, Statement
<1>3. TypeInv'
  BY <1>1, <1>2 DEF Inv, TypeInv
<1>4. PolicyInv'
  BY <1>1, <1>2 DEF Inv, PolicyInv
<1>5. StopsAreTrue'
  BY <1>1, <1>2 DEF Inv, StopsAreTrue
<1>6. RequestInv'
  BY <1>1, <1>2 DEF Inv, RequestInv, RequestsReturn
<1>7. CallsInv'
  BY <1>1, <1>2 DEF Inv, CallsInv, WaitsOver
<1> QED  BY <1>3, <1>4, <1>5, <1>6, <1>7 DEF Inv

\* The policy ends the request where the machine is.
LEMMA EndingKeeps ==
    ASSUME Inv, UNCHANGED lab, NEW kind \in StopKinds, StoppedAs(dbg', kind, Here), Kept(dbg'),
           dbg'.frames = dbg.frames, running' = FALSE,
           UNCHANGED <<program, waitingStack, watching, attached, hit, failed, asked, since, stored>>,
           kind = "pause" \/ dbg.stop = None,
           kind = "over" => Ends(asked, pc, Depth),
           kind = "out" => asked.kind = "out" /\ Ends(asked, pc, Depth),
           kind = "step" /\ asked.kind = "until" => Statement /\ since > 0
    PROVE  Inv'
<1>1. /\ pc' = pc /\ stack' = stack /\ wait' = wait /\ line' = line /\ waitingStack' = waitingStack
      /\ watching' = watching /\ hit' = hit /\ asked' = asked
      /\ since' = since /\ stored' = stored /\ lab' = lab
  BY DEF program
<1>2. /\ Here' = Here /\ Depth' = Depth /\ Adapter' = Adapter /\ Unknown' = Unknown
      /\ Following(pc)' = Following(pc) /\ (Statement' <=> Statement)
  BY <1>1 DEF Here, Depth, Adapter, Unknown, MaxStack, Following, Statement
<1>3. /\ dbg'.stop.kind = kind /\ dbg'.stop # None /\ dbg'.stop.at = Here
      /\ dbg'.plan.kind = "none" /\ dbg'.skip = None /\ dbg'.completed = FALSE
  BY StoppedMeans
<1>4. TypeInv'
  BY <1>1, <1>2 DEF Inv, TypeInv
<1>5. PolicyInv'
  BY <1>1, <1>2, <1>3 DEF Inv, PolicyInv
<1>6. StopsAreTrue'
  <2>1. CASE kind = "pause"
    BY <1>1, <1>2, <1>3, <2>1 DEF StopsAreTrue
  <2>2. CASE dbg.stop = None
    <3>1. ~(stored /\ watching) /\ ~hit
      BY <2>2 DEF Inv, StopsAreTrue, None
    <3> QED  BY <1>1, <1>2, <1>3, <3>1 DEF StopsAreTrue
  <2> QED  BY <2>1, <2>2
<1>7. RequestsReturn'
  BY <1>1, <1>2, <1>3 DEF Inv, RequestInv, RequestsReturn, Ends
<1>8. RequestInv'
  BY <1>1, <1>3, <1>7 DEF Inv, RequestInv
<1>9. CallsInv'
  BY <1>1, <1>2 DEF Inv, CallsInv, WaitsOver
<1> QED  BY <1>4, <1>5, <1>6, <1>8, <1>9 DEF Inv

----------------------------------------------------------------------------
(* Pauses, batches and errors.                                             *)

\* pause(): the request is over where the machine is.
LEMMA PauseEffect ==
    ASSUME Inv, NEW d, Kept(d)
    PROVE  /\ Kept(Pause(d, Here)) /\ Pause(d, Here).frames = d.frames
           /\ StoppedAs(Pause(d, Here), "pause", Here)
<1>1. "pause" \in StopKinds /\ Here \in Location /\ d \in Debugger
  BY HereType DEF StopKinds, Inv, Kept
<1>2. /\ Pause(d, Here) \in Debugger /\ Pause(d, Here).frames = d.frames
      /\ StoppedAs(Pause(d, Here), "pause", Here)
  BY <1>1, FinishType DEF Pause
<1> QED  BY <1>2 DEF Kept

\* Pause.
LEMMA ClickPauseKeeps == ASSUME Inv, ClickPause, UNCHANGED lab PROVE Inv'
<1>1. /\ Kept(dbg') /\ dbg'.frames = dbg.frames /\ StoppedAs(dbg', "pause", Here)
  BY PauseEffect DEF ClickPause, Inv, TypeInv
<1>2. "pause" \in StopKinds
  BY DEF StopKinds
<1> QED  BY <1>1, <1>2, EndingKeeps DEF ClickPause

\* The question before an instruction of a batch.
LEMMA Asked ==
    ASSUME Inv, NEW software \in BOOLEAN
    PROVE  LET d == BeforeStep(dbg, Here, Answers, software)
           IN  /\ Kept(d) /\ d.frames = dbg.frames
               /\ \/ dbg.stop # None /\ d = dbg
                  \/ dbg.stop = None /\ \E kind \in StopKinds :
                        /\ StoppedAs(d, kind, Here)
                        /\ kind = "over" => Ends(asked, pc, Depth)
                        /\ kind = "out" => asked.kind = "out" /\ Ends(asked, pc, Depth)
                        /\ kind = "step" /\ asked.kind = "until" => Statement /\ since > 0
                  \/ /\ dbg.stop = None /\ d.stop = None /\ d.skip = None /\ d.plan = dbg.plan
                     /\ d.completed = FALSE /\ d.remaining = dbg.remaining
                     /\ d.plan # None => d.remaining # 0
                     /\ dbg.skip = [kind |-> "at", at |-> Here] \/ ~AtPoint(dbg, Here, software)
<1> DEFINE d == BeforeStep(dbg, Here, Answers, software)
           reached == PlanReached(dbg, Here, Answers)
<1>1. dbg \in Debugger /\ Kept(dbg) /\ Here \in Location /\ Answers \in BOOLEAN
  BY HereType DEF Inv, TypeInv, Kept, Answers
<1>2. /\ d \in Debugger /\ d.frames = dbg.frames
      /\ \/ dbg.stop # None /\ d = dbg
         \/ /\ dbg.stop = None
            /\ \/ StoppedAs(d, "breakpoint", Here)
               \/ StoppedAs(d, "limit", Here)
               \/ reached /\ StoppedAs(d, PlanStop(dbg), Here)
         \/ /\ dbg.stop = None /\ d.skip = None /\ GoesOn(d, [dbg EXCEPT !.skip = None])
            /\ ~reached
            /\ dbg.plan # None => dbg.remaining # 0
            /\ dbg.skip = [kind |-> "at", at |-> Here] \/ ~AtPoint(dbg, Here, software)
  BY <1>1, BeforeStepType
<1> HIDE DEF d
<1>3. Kept(d)
  BY <1>1, <1>2 DEF Kept
<1>4. dbg.plan \in Plan /\ dbg.completed \in BOOLEAN /\ asked \in Request /\ since \in Nat /\ Limit \in Nat
  BY <1>1, LimitsAssumption DEF Debugger, Inv, TypeInv
<1>5. "breakpoint" \in StopKinds /\ "limit" \in StopKinds
  BY DEF StopKinds
<1>6. CASE StoppedAs(d, "breakpoint", Here) \/ StoppedAs(d, "limit", Here)
  BY <1>2, <1>3, <1>5, <1>6 DEF d
<1>7. ASSUME dbg.stop = None, reached, StoppedAs(d, PlanStop(dbg), Here)
      PROVE  /\ PlanStop(dbg) \in StopKinds
             /\ PlanStop(dbg) = "over" => Ends(asked, pc, Depth)
             /\ PlanStop(dbg) = "out" => asked.kind = "out" /\ Ends(asked, pc, Depth)
             /\ PlanStop(dbg) = "step" /\ asked.kind = "until" => Statement /\ since > 0
  <2>1. Serves(dbg, asked, pc, Depth, since)
    BY <1>7 DEF Inv, RequestInv
  <2>2. dbg.plan # None
    BY <1>4, <1>7, PlanKinds DEF PlanReached, None
  <2>3. dbg.plan.kind \in {"step", "until", "over", "out", "target"}
    BY <1>4, <2>2, PlanKinds
  <2>4. PlanStop(dbg) \in StopKinds
    BY <2>3 DEF PlanStop, StopKinds
  <2>5. dbg.plan.kind \in {"over", "out"} => dbg.completed
    BY <1>7 DEF PlanReached
  <2>6. PlanStop(dbg) \in {"over", "out"} => dbg.plan.kind = PlanStop(dbg)
    BY DEF PlanStop
  <2>7. ASSUME PlanStop(dbg) = "step", asked.kind = "until"
        PROVE  Statement /\ since > 0
    <3>1. dbg.plan.kind = "until"
      BY <2>1, <2>7 DEF PlanStop, Serves
    <3>2. dbg.remaining < Limit /\ Answers
      BY <1>7, <3>1 DEF PlanReached
    <3>3. dbg.remaining \in Nat /\ dbg.remaining + since = Limit
      BY <2>1, <2>2 DEF Serves
    <3> QED  BY <1>4, <3>1, <3>2, <3>3 DEF Answers
  <2> QED  BY <2>1, <2>4, <2>5, <2>6, <2>7 DEF Serves, Limited
<1>8. ASSUME dbg.stop = None, d.skip = None, GoesOn(d, [dbg EXCEPT !.skip = None]), ~reached
      PROVE  /\ d.stop = None /\ d.plan = dbg.plan /\ d.remaining = dbg.remaining
             /\ d.completed = FALSE
  <2>1. /\ d.stop = dbg.stop /\ d.plan = dbg.plan /\ d.completed = dbg.completed
        /\ d.remaining = dbg.remaining
    BY <1>1, <1>8 DEF GoesOn, Debugger
  <2>2. dbg.completed => dbg.plan.kind \in {"step", "over", "out"}
    BY DEF Inv, PolicyInv
  <2>3. ~dbg.completed
    BY <1>8, <2>2 DEF PlanReached, None
  <2>4. dbg.completed = FALSE
    BY <1>4, <2>3
  <2> QED  BY <1>8, <2>1, <2>4
<1> HIDE DEF reached
<1> QED  BY <1>2, <1>3, <1>6, <1>7, <1>8 DEF d

\* A step that throws: the policy fails, the callers are forgotten.
LEMMA ThrowKeeps ==
    ASSUME Inv, UNCHANGED lab, NEW d, Kept(d), CaptureThrows(d, Following(pc)),
           running' \in BOOLEAN, watching' = watching, asked' \in Request, since' \in Nat,
           asked'.kind \in Limited => since' <= Limit,
           asked'.kind = "step" => since' <= 1 /\ running' = FALSE
    PROVE  Inv'
<1> DEFINE p == Following(pc)
<1>1. /\ dbg' = Fail(d, At(p)) /\ pc' = p /\ hit' = FALSE /\ stored' = FALSE
      /\ stack' = stack /\ wait' = wait /\ line' = line /\ lab' = lab
      /\ waitingStack' = (IF Adapter = "coco" THEN Unknown ELSE waitingStack)
  BY DEF CaptureThrows
<1>2. /\ TypeInv /\ p \in Places /\ At(p) \in Location /\ Unknown \in Nat
  BY HereType, AtType DEF Inv
<1> HIDE DEF p
<1>3. /\ dbg' \in Debugger /\ StoppedAs(dbg', "error", At(p)) /\ dbg'.frames = <<>>
  BY <1>1, <1>2, FailType DEF Kept
<1>4. /\ dbg'.stop.kind = "error" /\ dbg'.stop.at = At(p) /\ dbg'.stop # None
      /\ dbg'.plan.kind = "none" /\ dbg'.skip = None /\ dbg'.completed = FALSE
  BY <1>3, StoppedMeans DEF StopKinds
<1>5. Here' = At(p) /\ Adapter' = Adapter /\ Unknown' = Unknown
  BY <1>1 DEF Here, At, Adapter, Unknown, MaxStack
<1>6. Kept(dbg')
  <2>1. Len(dbg'.frames) = 0 /\ DOMAIN dbg'.frames = {}
    BY <1>3
  <2> QED  BY <1>3, <2>1, LimitsAssumption DEF Kept, Distinct
<1>7. waitingStack' \in Nat
  BY <1>1, <1>2 DEF TypeInv
<1>8. TypeInv'
  BY <1>1, <1>2, <1>5, <1>6, <1>7 DEF TypeInv
<1>9. PolicyInv'
  BY <1>3, <1>4, <1>5 DEF PolicyInv
<1>10. StopsAreTrue'
  BY <1>1, <1>4, <1>5 DEF StopsAreTrue
<1>11. RequestInv'
  BY <1>4 DEF RequestInv, RequestsReturn, Limited
<1>12. CallsInv'
  <2>1. \A s : Callers(dbg'.frames, s)
    BY <1>3, CallersForgotten
  <2>2. ASSUME Adapter # "xt", wait = "cwai" PROVE waitingStack' = Unknown'
    <3>1. Adapter = "coco"
      BY <1>2, <2>2, LaboratoriesAssumption DEF TypeInv, Adapter
    <3> QED  BY <1>1, <1>5, <3>1
  <2> QED  BY <1>1, <1>5, <2>1, <2>2 DEF CallsInv
<1> QED  BY <1>8, <1>9, <1>10, <1>11, <1>12 DEF Inv

\* An instruction stores to the watched variable or not.
LEMMA StoresType ==
    ASSUME NEW b, NEW stores \in Stores(b)
    PROVE  stores \in BOOLEAN
BY DEF Stores

\* Step: the policy crosses this place, and the boundary ends the request.
LEMMA ClickStepKeeps == ASSUME Inv, ClickStep, UNCHANGED lab PROVE Inv'
<1> DEFINE plan == [kind |-> "step"]
           request == StepOne(dbg, Here)
           d == IF Adapter = "apple2" THEN request ELSE BeforeStep(request, Here, FALSE, FALSE)
<1>1. asked' = Asking("step", pc, Depth, TRUE) /\ running = FALSE /\ running' = running /\ watching' = watching
  BY DEF ClickStep, Idle, Inv, TypeInv
<1>2. asked' \in Request /\ asked'.kind = "step"
  BY <1>1, InvTypes DEF Asking, Request
<1>3. plan \in Plan /\ plan.kind = "step" /\ plan # None /\ request = Start(dbg, Here, plan, TRUE, Limit)
  BY DEF Plan, StepOne, None
<1> HIDE DEF plan
<1>4. /\ Kept(request) /\ request.frames = dbg.frames /\ request.stop = None /\ request.plan = plan
      /\ request.completed = FALSE /\ request.remaining = Limit
  <2> DEFINE e == Start(dbg, Here, plan, TRUE, Limit)
  <2>1. /\ Kept(e) /\ e.frames = dbg.frames /\ e.stop = None /\ e.plan = plan
        /\ e.completed = FALSE /\ e.remaining = Limit
    BY <1>3, StartEffect DEF Inv
  <2> QED  BY <1>3, <2>1
<1>5. request.skip = [kind |-> "at", at |-> Here]
  BY InvTypes DEF StepOne, Start, TypeInv, Kept, Debugger
<1> HIDE DEF request
<1>6. /\ Kept(d) /\ d.frames = dbg.frames /\ d.stop = None /\ d.plan = plan /\ d.completed = FALSE
      /\ d.remaining = Limit
  <2>1. CASE Adapter = "apple2"
    BY <1>4, <2>1
  <2>2. CASE Adapter # "apple2"
    <3> DEFINE e == BeforeStep(request, Here, FALSE, FALSE)
    <3>1. request \in Debugger /\ Here \in Location
      BY <1>4, InvTypes DEF Kept
    <3>2. ~PlanReached(request, Here, FALSE)
      BY <1>3, <1>4 DEF PlanReached
    <3>3. Limit # 0
      BY LimitsAssumption
    <3>4. e = [request EXCEPT !.skip = None]
      <4>1. PlanReached([request EXCEPT !.skip = None], Here, FALSE) <=> PlanReached(request, Here, FALSE)
        BY <3>1 DEF PlanReached, Debugger
      <4> QED  BY <1>4, <1>5, <3>2, <3>3, <4>1 DEF BeforeStep
    <3> HIDE DEF e
    <3>5. /\ e.frames = request.frames /\ e.stop = None /\ e.plan = plan /\ e.completed = FALSE
          /\ e.remaining = Limit /\ e \in Debugger
      <4>1. None \in Skip
        BY DEF Skip
      <4> QED  BY <1>4, <3>1, <3>4, <4>1 DEF Debugger
    <3>6. Kept(e)
      BY <1>4, <3>5 DEF Kept
    <3> QED  BY <1>4, <2>2, <3>5, <3>6 DEF e
  <2> QED  BY <2>1, <2>2
<1>7. ClickStep => \/ \E b \in Boundaries : \E stores \in Stores(b) : Capture(d, b, stores, FALSE, 0)
                   \/ CaptureThrows(d, Following(pc)) /\ since' = 0
  BY DEF ClickStep, request
<1> HIDE DEF d
<1>8. ASSUME NEW b \in Boundaries, NEW stores \in BOOLEAN, Capture(d, b, stores, FALSE, 0)
      PROVE  Inv'
  <2>1. TypeInv /\ RequestInv /\ CallsInv /\ PolicyInv
    BY DEF Inv
  <2>2. Adapter = "xt" => d.frames = <<>> /\ d.plan.kind \notin {"over", "out"}
    BY <1>3, <1>6, <2>1 DEF PolicyInv
  <2>3. Ready(d) /\ Decoded(d, b)
    BY <1>3, <1>6, <2>2 DEF Ready, Decoded
  <2>4. Captures(d, b, stores, 0)
    BY <1>1, <1>6, <1>8, <2>3 DEF Captures
  <2>5. TypeInv' /\ StopsAreTrue' /\ PolicyInv' /\ CallsInv'
    BY <1>1, <1>2, <2>1, <2>4, CaptureType, CaptureStops, CapturePolicy, CaptureCalls
  <2>6. RequestInv'
    BY <1>1, <1>2, <1>3, <1>6, <2>1, <2>4, CaptureRequests, LimitsAssumption
  <2> QED  BY <2>5, <2>6 DEF Inv
<1>9. ASSUME CaptureThrows(d, Following(pc)), since' = 0
      PROVE  Inv'
  <2>1. asked'.kind \notin Limited
    BY <1>2 DEF Limited
  <2>2. since' \in Nat /\ since' <= 1 /\ running' = FALSE
    BY <1>1, <1>9
  <2>3. running' \in BOOLEAN
    BY <1>1 DEF Inv, TypeInv
  <2> QED  BY <1>1, <1>2, <1>6, <1>9, <2>1, <2>2, <2>3, ThrowKeeps
<1> QED  BY <1>7, <1>8, <1>9, StoresType

\* One turn of a batch: the policy stops it, or it crosses only the place asked at.
LEMMA TurnKeeps ==
    ASSUME Inv, NEW software \in BOOLEAN, Turn(software), UNCHANGED lab
    PROVE  /\ Inv'
           /\ AtPoint(dbg, Here, FALSE) /\ since' > since => since = 0 /\ asked.crosses /\ asked.at = Here
<1> DEFINE d == BeforeStep(dbg, Here, Answers, software)
<1>1. running /\ running = TRUE /\ TypeInv /\ PolicyInv /\ RequestInv /\ CallsInv /\ since \in Nat
  BY DEF Turn, Inv, TypeInv
<1>2. /\ Kept(d) /\ d.frames = dbg.frames
      /\ \/ dbg.stop # None /\ d = dbg
         \/ dbg.stop = None /\ \E kind \in StopKinds :
               /\ StoppedAs(d, kind, Here)
               /\ kind = "over" => Ends(asked, pc, Depth)
               /\ kind = "out" => asked.kind = "out" /\ Ends(asked, pc, Depth)
               /\ kind = "step" /\ asked.kind = "until" => Statement /\ since > 0
         \/ /\ dbg.stop = None /\ d.stop = None /\ d.skip = None /\ d.plan = dbg.plan
            /\ d.completed = FALSE /\ d.remaining = dbg.remaining
            /\ d.plan # None => d.remaining # 0
            /\ dbg.skip = [kind |-> "at", at |-> Here] \/ ~AtPoint(dbg, Here, software)
  BY Asked
<1>3. \/ d.stop # None /\ Stops(d)
      \/ d.stop = None /\ Stops(Pause(d, Here))
      \/ /\ d.stop = None
         /\ \E b \in Boundaries : \E stores \in Stores(b) : Capture(d, b, stores, hit, since)
         /\ UNCHANGED <<running, watching, asked>>
      \/ /\ d.stop = None /\ CaptureThrows(d, Following(pc)) /\ running' = FALSE
         /\ UNCHANGED <<watching, asked, since>>
  BY DEF Turn
<1> HIDE DEF d
<1>4. CASE d.stop # None /\ Stops(d)
  <2>1. dbg' = d /\ running' = FALSE /\ since' = since /\ ~(since' > since)
    BY <1>1, <1>4 DEF Stops
  <2>2. CASE dbg.stop # None /\ d = dbg
    <3>1. StoppedAs(dbg', dbg.stop.kind, Here) /\ dbg.stop.kind \in StopKinds
      <4>1. dbg.stop \in Stop
        BY <1>1 DEF TypeInv, Kept, Debugger
      <4>2. dbg.stop.kind \in StopKinds
        BY <2>2, <4>1 DEF Stop
      <4> QED  BY <1>1, <2>1, <2>2, <4>2 DEF PolicyInv
    <3>2. /\ pc' = pc /\ stack' = stack /\ wait' = wait /\ line' = line /\ waitingStack' = waitingStack
          /\ watching' = watching /\ hit' = hit /\ asked' = asked /\ dbg' = dbg
          /\ since' = since /\ stored' = stored /\ lab' = lab
      BY <1>4, <2>2 DEF program, Stops
    <3>3. /\ Here' = Here /\ Depth' = Depth /\ Adapter' = Adapter /\ Unknown' = Unknown
          /\ Following(pc)' = Following(pc) /\ (Statement' <=> Statement)
      BY <3>2 DEF Here, Depth, Adapter, Unknown, MaxStack, Following, Statement
    <3>4. TypeInv'
      BY <1>1, <2>1, <3>2, <3>3 DEF TypeInv
    <3>5. PolicyInv'
      BY <1>1, <3>2, <3>3 DEF PolicyInv
    <3>6. StopsAreTrue'
      BY <3>2, <3>3 DEF Inv, StopsAreTrue
    <3>7. RequestInv'
      BY <1>1, <2>1, <3>2, <3>3 DEF RequestInv, RequestsReturn
    <3>8. CallsInv'
      BY <1>1, <3>2, <3>3 DEF CallsInv, WaitsOver
    <3> QED  BY <1>1, <2>1, <3>4, <3>5, <3>6, <3>7, <3>8 DEF Inv
  <2>3. CASE dbg.stop = None
    <3>1. PICK kind \in StopKinds :
               /\ StoppedAs(d, kind, Here)
               /\ kind = "over" => Ends(asked, pc, Depth)
               /\ kind = "out" => asked.kind = "out" /\ Ends(asked, pc, Depth)
               /\ kind = "step" /\ asked.kind = "until" => Statement /\ since > 0
      BY <1>2, <1>4, <2>3
    <3> QED  BY <1>1, <1>2, <1>4, <2>1, <2>3, <3>1, EndingKeeps DEF Stops
  <2> QED  BY <1>2, <2>2, <2>3
<1>5. CASE d.stop = None /\ Stops(Pause(d, Here))
  <2>1. /\ Kept(dbg') /\ dbg'.frames = dbg.frames /\ StoppedAs(dbg', "pause", Here) /\ running' = FALSE
        /\ since' = since /\ ~(since' > since)
    BY <1>1, <1>2, <1>5, PauseEffect DEF Stops
  <2>2. "pause" \in StopKinds
    BY DEF StopKinds
  <2> QED  BY <1>1, <1>5, <2>1, <2>2, EndingKeeps DEF Stops
<1>6. ASSUME d.stop = None, NEW b \in Boundaries, NEW stores \in BOOLEAN, Capture(d, b, stores, hit, since),
             UNCHANGED <<running, watching, asked>>
      PROVE  /\ Inv'
             /\ AtPoint(dbg, Here, FALSE) => since = 0 /\ asked.crosses /\ asked.at = Here
  <2>1. /\ dbg.stop = None /\ d.skip = None /\ d.plan = dbg.plan /\ d.completed = FALSE
        /\ d.remaining = dbg.remaining /\ (d.plan # None => d.remaining # 0)
        /\ dbg.skip = [kind |-> "at", at |-> Here] \/ ~AtPoint(dbg, Here, software)
    BY <1>2, <1>6, StoppedMeans
  <2>2. hit = FALSE
    BY <1>1, <2>1 DEF Inv, StopsAreTrue, TypeInv, None
  <2>3. asked \in Request /\ asked' = asked /\ running' = running /\ watching' = watching
    BY <1>1, <1>6 DEF TypeInv
  <2>4. Serves(d, asked, pc, Depth, since)
    BY <1>1, <1>2, <2>1 DEF RequestInv, Serves
  <2>5. ASSUME d.plan.kind = "over", d.plan.frame = NoFrame
        PROVE  /\ line # "pending" /\ wait = "none" /\ OverDecodedCall
               /\ asked.back = Following(pc) /\ asked.depth = Depth
    BY <1>1, <2>1, <2>5 DEF PolicyInv, OverDecodedCall
  <2>6. Decoded(d, b)
    BY <1>1, <2>5, BoundaryShape DEF Decoded
  <2>7. Adapter = "xt" => d.frames = <<>> /\ d.plan.kind \notin {"over", "out"}
    BY <1>1, <1>2, <2>1 DEF PolicyInv
  <2>8. Captures(d, b, stores, since)
    BY <1>1, <1>2, <1>6, <2>1, <2>2, <2>6, <2>7 DEF Captures, Ready
  <2>9. TypeInv' /\ StopsAreTrue' /\ PolicyInv' /\ CallsInv'
    BY <1>1, <2>1, <2>3, <2>8, CaptureType, CaptureStops, CapturePolicy, CaptureCalls
  <2>10. RequestInv'
    BY <1>1, <2>1, <2>3, <2>4, <2>5, <2>8, CaptureRequests
  <2>11. AtPoint(dbg, Here, FALSE) => AtPoint(dbg, Here, software)
    BY DEF AtPoint
  <2>12. AtPoint(dbg, Here, FALSE) => since = 0 /\ asked.crosses /\ asked.at = Here
    BY <1>1, <2>1, <2>11 DEF PolicyInv, None
  <2> QED  BY <2>9, <2>10, <2>12 DEF Inv
<1>7. CASE d.stop = None /\ CaptureThrows(d, Following(pc)) /\ running' = FALSE /\ UNCHANGED <<watching, asked, since>>
  <2>1. /\ asked' = asked /\ asked \in Request /\ since' = since /\ asked.kind # "step"
        /\ (asked.kind \in Limited => since <= Limit) /\ ~(since' > since)
        /\ running' = FALSE /\ watching' = watching
    BY <1>1, <1>7 DEF TypeInv, RequestInv, RequestsReturn, Limited
  <2>2. running' \in BOOLEAN
    BY <2>1
  <2> QED  BY <1>1, <1>2, <1>7, <2>1, <2>2, ThrowKeeps
<1> QED  BY <1>3, <1>4, <1>5, <1>6, <1>7, StoresType

----------------------------------------------------------------------------
(* Every step, and the theorems.                                           *)

\* A row of the listing is toggled.
LEMMA TogglePointKeeps == ASSUME Inv, NEW p \in Places, TogglePoint(p), UNCHANGED lab PROVE Inv'
BY PointsKeep, ToggledType DEF TogglePoint

\* The breakpoints are edited.
LEMMA SetBreakpointsKeeps == ASSUME Inv, NEW points \in Points, SetBreakpoints(points), UNCHANGED lab PROVE Inv'
<1>1. points \in SUBSET Point
  BY LaboratoriesAssumption DEF Inv, TypeInv, Points
<1> QED  BY <1>1, PointsKeep DEF SetBreakpoints

\* Another machine: nothing observed or asked is left, though its CPU may already wait.
LEMMA ReplaceMachineKeeps ==
    ASSUME Inv, NEW w \in {"none", "cwai"}, ReplaceMachine(Following(0), w), UNCHANGED lab
    PROVE  Inv'
<1> DEFINE p == Following(0)
<1>1. /\ pc' = p /\ wait' = w /\ stack' = (IF w = "cwai" THEN <<p>> ELSE <<>>)
      /\ dbg' = ResetDebugger(dbg) /\ waitingStack' = Unknown /\ hit' = FALSE /\ watching' = watching
      /\ asked' = Nothing /\ since' = 0 /\ stored' = FALSE /\ running' = FALSE /\ lab' = lab
      /\ (w = "cwai" => Adapter # "apple2")
  BY DEF ReplaceMachine
<1>2. p \in Places /\ 0 \in Places /\ TypeInv /\ Unknown \in Nat /\ dbg \in Debugger
  BY ZeroIsPlace, FollowingType, HereType DEF Inv, TypeInv, Kept
<1> HIDE DEF p
<1>3. stack' \in Seq(Places)
  BY <1>1, <1>2
<1>4. /\ dbg' \in Debugger /\ dbg'.stop = None /\ dbg'.plan = None /\ dbg'.skip = None
      /\ dbg'.completed = FALSE /\ dbg'.frames = <<>>
  BY <1>1, <1>2, ResetType
<1>5. Kept(dbg')
  <2>1. Len(dbg'.frames) = 0 /\ DOMAIN dbg'.frames = {}
    BY <1>4
  <2> QED  BY <1>4, <2>1, LimitsAssumption DEF Kept, Distinct
<1>6. asked' \in Request /\ asked'.kind = "nothing"
  BY <1>1, <1>2 DEF Nothing, Request
<1>7. Adapter' = Adapter /\ Unknown' = Unknown
  BY <1>1 DEF Adapter, Unknown, MaxStack
<1>8. running' \in BOOLEAN /\ hit' \in BOOLEAN /\ stored' \in BOOLEAN /\ since' \in Nat
  BY <1>1
<1>9. TypeInv'
  BY <1>1, <1>2, <1>3, <1>5, <1>6, <1>7, <1>8 DEF TypeInv
<1>10. PolicyInv'
  BY <1>4 DEF PolicyInv, None
<1>11. StopsAreTrue'
  BY <1>1, <1>4 DEF StopsAreTrue
<1>12. RequestInv'
  BY <1>4, <1>6 DEF RequestInv, RequestsReturn, Serves, Limited, None
<1>13. CallsInv'
  BY <1>1, <1>4, <1>7, CallersForgotten DEF CallsInv
<1> QED  BY <1>9, <1>10, <1>11, <1>12, <1>13 DEF Inv

\* Nothing happens.
LEMMA StutterKeeps == ASSUME Inv, UNCHANGED vars PROVE Inv'
<1>1. UNCHANGED <<lab, dbg, pc, stack, wait, line, last, waitingStack, watching, attached, hit,
                  running, failed, asked, since, stored>>
  BY DEF vars
<1>2. /\ Here' = Here /\ Depth' = Depth /\ Adapter' = Adapter /\ Unknown' = Unknown
      /\ Following(pc)' = Following(pc) /\ (Statement' <=> Statement)
  BY <1>1 DEF Here, Depth, Adapter, Unknown, MaxStack, Following, Statement
<1>3. TypeInv'
  BY <1>1, <1>2 DEF Inv, TypeInv
<1>4. PolicyInv'
  BY <1>1, <1>2 DEF Inv, PolicyInv
<1>5. StopsAreTrue'
  BY <1>1, <1>2 DEF Inv, StopsAreTrue
<1>6. RequestInv'
  BY <1>1, <1>2 DEF Inv, RequestInv, RequestsReturn
<1>7. CallsInv'
  BY <1>1, <1>2 DEF Inv, CallsInv, WaitsOver
<1> QED  BY <1>3, <1>4, <1>5, <1>6, <1>7 DEF Inv

\* A turn at which BASIC may have a breakpoint of its own.
LEMMA BatchKeeps ==
    ASSUME Inv, BatchTurn, UNCHANGED lab
    PROVE  /\ Inv'
           /\ AtPoint(dbg, Here, FALSE) /\ since' > since => since = 0 /\ asked.crosses /\ asked.at = Here
<1>1. PICK software \in SoftwareAt(pc) : Turn(software)
  BY DEF BatchTurn
<1>2. software \in BOOLEAN
  BY DEF SoftwareAt
<1> QED  BY <1>1, <1>2, TurnKeeps

\* Every step keeps the inductive invariant.
LEMMA NextKeeps == Inv /\ [Next]_vars => Inv'
<1> SUFFICES ASSUME Inv, [Next]_vars PROVE Inv'
  OBVIOUS
<1>1. CASE UNCHANGED vars
  BY <1>1, StutterKeeps
<1>2. CASE Next
  <2>1. UNCHANGED lab
    BY <1>2 DEF Next
  <2>2. CASE ClickRun
    BY <2>1, <2>2, ClickRunKeeps
  <2>3. CASE ClickStep
    BY <2>1, <2>3, ClickStepKeeps
  <2>4. CASE ClickOver
    BY <2>1, <2>4, ClickOverKeeps
  <2>5. CASE ClickOut
    BY <2>1, <2>5, ClickOutKeeps
  <2>6. CASE ClickPause
    BY <2>1, <2>6, ClickPauseKeeps
  <2>7. ASSUME NEW p \in Places, ClickRunTo(p) PROVE Inv'
    BY <2>1, <2>7, ClickRunToKeeps
  <2>8. ASSUME NEW p \in Places, TogglePoint(p) PROVE Inv'
    BY <2>1, <2>8, TogglePointKeeps
  <2>9. ASSUME NEW points \in Points, SetBreakpoints(points) PROVE Inv'
    BY <2>1, <2>9, SetBreakpointsKeeps
  <2>10. CASE ClickStepUntil
    BY <2>1, <2>10, ClickStepUntilKeeps
  <2>11. CASE SetWatchpoints
    BY <2>1, <2>11, SetWatchpointsKeeps
  <2>12. CASE BatchTurn
    BY <2>1, <2>12, BatchKeeps
  <2>13. ASSUME NEW w \in {"none", "cwai"}, ReplaceMachine(Following(0), w) PROVE Inv'
    BY <2>1, <2>13, ReplaceMachineKeeps
  <2> QED  BY <1>2, <2>2, <2>3, <2>4, <2>5, <2>6, <2>7, <2>8, <2>9, <2>10, <2>11, <2>12, <2>13 DEF Next
<1> QED  BY <1>1, <1>2

\* instruction-debugger.ts, xt-debugger.ts, coco-debugger.ts, apple2-explorer-view.ts: in every
\* laboratory the policy, the machine under it and the request the user made last agree.
THEOREM DebuggerInvariant == Spec => []Inv
<1>1. Init => Inv
  BY InitInv
<1>2. Inv /\ [Next]_vars => Inv'
  BY NextKeeps
<1> QED  BY <1>1, <1>2, PTL DEF Spec

\* xt-debugger.ts:81-99, coco-debugger.ts:72-92: whatever the program does and whatever the user
\* asks, a stop names the machine's place and a watched store stops at its own boundary.
THEOREM StopsNameTheMachine == Spec => []StopsAreTrue
<1>1. Inv => StopsAreTrue
  BY DEF Inv
<1> QED  BY <1>1, DebuggerInvariant, PTL

\* instruction-debugger.ts:73-82, 104-133: whatever calls, returns and interrupts come between, Step
\* over and Step out end at their call's return address and depth, and a request within its limit.
THEOREM RequestsComeBack == Spec => []RequestsReturn
<1>1. Inv => RequestsReturn
  BY DEF Inv, RequestInv
<1> QED  BY <1>1, DebuggerInvariant, PTL

\* 6809-debugger.ts:15-32: of every disciplined program, at any depth, the callers shown are the return
\* addresses on the machine's stack, in order.
THEOREM ShownCallersAreReal == Spec => []FramesAreCallers
<1>1. Inv => FramesAreCallers
  <2> SUFFICES ASSUME Inv, lab.disciplined PROVE Callers(dbg.frames, stack)
    BY DEF FramesAreCallers, Callers, Depth
  <2>1. CASE Adapter = "xt"
    BY <2>1, CallersForgotten DEF Inv, PolicyInv
  <2>2. CASE Adapter # "xt"
    BY <2>2 DEF Inv, CallsInv
  <2> QED  BY <2>1, <2>2
<1> QED  BY <1>1, DebuggerInvariant, PTL

\* instruction-debugger.ts:93-113: whatever the program and its breakpoints, a run leaves an
\* enabled breakpoint only as the first boundary of a request that crosses it.
THEOREM BreakpointsAreKept == Spec => BreakpointsHold
<1> DEFINE A == running /\ AtPoint(dbg, Here, FALSE) /\ since' > since
                => since = 0 /\ asked.crosses /\ asked.at = Here
<1>1. ASSUME Inv, [Next]_vars PROVE [A]_vars
  <2> SUFFICES ASSUME running, AtPoint(dbg, Here, FALSE), since' > since
               PROVE  since = 0 /\ asked.crosses /\ asked.at = Here
    OBVIOUS
  <2>1. since \in Nat /\ running = TRUE
    BY <1>1 DEF Inv, TypeInv
  <2>2. since' # since /\ since' # 0
    BY <2>1
  <2>3. BatchTurn /\ UNCHANGED lab
    BY <1>1, <2>1, <2>2
       DEF vars, Next, ClickRun, ClickStep, ClickOver, ClickOut, ClickPause, ClickRunTo, TogglePoint,
           SetBreakpoints, ClickStepUntil, SetWatchpoints, ReplaceMachine, Ask, Idle
  <2> QED  BY <1>1, <2>3, BatchKeeps
<1> QED  BY <1>1, DebuggerInvariant, PTL DEF Spec, BreakpointsHold
=============================================================================
