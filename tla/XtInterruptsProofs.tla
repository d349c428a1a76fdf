------------------------- MODULE XtInterruptsProofs -------------------------
(***************************************************************************)
(* The interrupt controller and the board's interrupt path, for every set  *)
(* of wired lines, every error source and every byte software may write.   *)
(* First the controller: lemmas about the operators on one, which the      *)
(* board's proofs cite, and the theorems about it on its own.  Then the    *)
(* board: the invariants the runs check are strengthened by three facts    *)
(* about what the latches remember (Remembers), and all of them are        *)
(* inductive together once the types are known.  The action properties     *)
(* then follow from single steps.                                          *)
(***************************************************************************)
EXTENDS XtHandlers, FiniteSetTheorems, SequenceTheorems, TLAPS

-----------------------------------------------------------------------------
(* Every operation keeps the registers in their domains *)

LEMMA LowestBitType ==
    ASSUME NEW mask \in Byte
    PROVE  LowestBit(mask) \in Byte
BY DEF LowestBit, Byte

LEMMA PendingType ==
    ASSUME NEW p \in Controller
    PROVE  /\ Pending(p) \in Byte
           /\ Pending(p) \subseteq p.irr \ p.imr
BY DEF Pending, Eligible, LowestBit, Controller, Byte

LEMMA InitializeType == Initialize \in Controller
BY DEF Initialize, Controller, Byte, Level, AwaitingIcw1, Initialized

LEMMA ResetType ==
    ASSUME NEW p \in Controller
    PROVE  Reset(p) \in Controller
BY DEF Reset, Controller, Byte, Level, AwaitingIcw1, Initialized

LEMMA AcknowledgedType ==
    ASSUME NEW p \in Controller
    PROVE  Acknowledged(p) \in Controller
BY PendingType DEF Acknowledged, Controller, Byte

LEMMA LineSetType ==
    ASSUME NEW p \in Controller, NEW line \in Level, NEW high \in BOOLEAN
    PROVE  LineSet(p, line, high) \in Controller
BY DEF LineSet, Controller, Byte

LEMMA CommandWrittenType ==
    ASSUME NEW p \in Controller, NEW byte \in Byte
    PROVE  CommandWritten(p, byte) \in Controller
<1>1. CASE ~CommandSupported(p, byte)
  BY <1>1 DEF CommandWritten
<1>2. CASE CommandSupported(p, byte) /\ IsIcw1(byte)
  <2>1. ASSUME NEW r \in Controller
        PROVE  [r EXCEPT !.imr = {}, !.phase = AwaitingIcw2] \in Controller
    <3>1. {} \in Byte /\ AwaitingIcw2 \in AwaitingIcw1..Initialized
      BY DEF Byte, AwaitingIcw1, AwaitingIcw2, Initialized
    <3> QED  BY <3>1 DEF Controller
  <2>2. [Reset(p) EXCEPT !.imr = {}, !.phase = AwaitingIcw2] \in Controller
    BY <2>1, ResetType
  <2> QED  BY <1>2, <2>2 DEF CommandWritten
<1>3. CASE CommandSupported(p, byte) /\ ~IsIcw1(byte)
  <2>1. (0 \in byte) \in BOOLEAN
    OBVIOUS
  <2> QED  BY <1>3, <2>1 DEF CommandWritten, Controller, Byte
<1> QED  BY <1>1, <1>2, <1>3

\* A data write changes one register and the phase, or nothing.
LEMMA DataWrittenForms ==
    ASSUME NEW p \in Controller, NEW byte \in Byte
    PROVE  \/ DataWritten(p, byte) = p
           \/ /\ p.phase = AwaitingIcw2
              /\ DataWritten(p, byte) = [p EXCEPT !.base = byte \ {0, 1, 2},
                                                 !.phase = AwaitingIcw4]
           \/ DataWritten(p, byte) = [p EXCEPT !.phase = Initialized]
           \/ DataWritten(p, byte) = [p EXCEPT !.imr = byte]
<1>1. CASE ~DataSupported(p, byte)
  BY <1>1 DEF DataWritten
<1>2. CASE p.phase = AwaitingIcw2
  BY <1>2 DEF DataWritten
<1>3. CASE p.phase = AwaitingIcw4
  BY <1>3 DEF DataWritten, AwaitingIcw2, AwaitingIcw4
<1>4. CASE p.phase = Initialized
  BY <1>4 DEF DataWritten, AwaitingIcw2, AwaitingIcw4, Initialized
<1> QED  BY <1>1, <1>2, <1>3, <1>4 DEF DataSupported

\* A data write leaves requests, services and sampled levels alone.
LEMMA DataWrittenLeaves ==
    ASSUME NEW p \in Controller, NEW byte \in Byte
    PROVE  /\ DataWritten(p, byte).irr = p.irr
           /\ DataWritten(p, byte).isr = p.isr
           /\ DataWritten(p, byte).levels = p.levels
<1>1. \A q \in {p, [p EXCEPT !.base = byte \ {0, 1, 2}, !.phase = AwaitingIcw4],
                  [p EXCEPT !.phase = Initialized], [p EXCEPT !.imr = byte]} :
         q.irr = p.irr /\ q.isr = p.isr /\ q.levels = p.levels
  BY DEF Controller
<1> QED  BY <1>1, DataWrittenForms

LEMMA DataWrittenType ==
    ASSUME NEW p \in Controller, NEW byte \in Byte
    PROVE  DataWritten(p, byte) \in Controller
<1>1. [p EXCEPT !.base = byte \ {0, 1, 2}, !.phase = AwaitingIcw4] \in Controller
  <2>1. p.base \in Byte /\ AwaitingIcw4 \in AwaitingIcw1..Initialized
    BY DEF Controller, AwaitingIcw1, AwaitingIcw4, Initialized
  <2>2. byte \ {0, 1, 2} \in Byte
    BY DEF Byte
  <2> QED  BY <2>1, <2>2 DEF Controller
<1>2. [p EXCEPT !.phase = Initialized] \in Controller
  BY DEF Controller, Byte, AwaitingIcw1, Initialized
<1>3. [p EXCEPT !.imr = byte] \in Controller
  BY DEF Controller, Byte
<1> QED  BY <1>1, <1>2, <1>3, DataWrittenForms

-----------------------------------------------------------------------------
(* Every operation leaves a restorable controller *)

LEMMA ResetValid ==
    ASSUME NEW p \in Controller
    PROVE  ValidState(Reset(p))
BY DEF ValidState, Reset

LEMMA AcknowledgedValid ==
    ASSUME NEW p \in Controller, ValidState(p)
    PROVE  ValidState(Acknowledged(p))
BY DEF ValidState, Acknowledged, Pending, Ready, Controller

\* Only an initialized controller registers an edge.
LEMMA LineSetValid ==
    ASSUME NEW p \in Controller, NEW line \in Level, NEW high \in BOOLEAN,
           ValidState(p)
    PROVE  ValidState(LineSet(p, line, high))
BY DEF ValidState, LineSet, Ready, Controller

LEMMA CommandWrittenValid ==
    ASSUME NEW p \in Controller, NEW byte \in Byte, ValidState(p)
    PROVE  ValidState(CommandWritten(p, byte))
<1>1. CASE ~CommandSupported(p, byte)
  BY <1>1 DEF CommandWritten
<1>2. CASE CommandSupported(p, byte) /\ IsIcw1(byte)
  BY <1>2 DEF CommandWritten, Reset, ValidState
<1>3. CASE CommandSupported(p, byte) /\ ~IsIcw1(byte)
  BY <1>3 DEF CommandWritten, CommandSupported, ValidState, Ready, Controller
<1> QED  BY <1>1, <1>2, <1>3

LEMMA DataWrittenValid ==
    ASSUME NEW p \in Controller, NEW byte \in Byte, ValidState(p)
    PROVE  ValidState(DataWritten(p, byte))
<1>1. CASE DataWritten(p, byte) = p
  BY <1>1
<1>2. CASE /\ p.phase = AwaitingIcw2
           /\ DataWritten(p, byte) = [p EXCEPT !.base = byte \ {0, 1, 2},
                                              !.phase = AwaitingIcw4]
  <2>1. p.irr = {} /\ p.isr = {}
    BY <1>2 DEF ValidState, Ready, AwaitingIcw2, Initialized
  <2> QED  BY <1>2, <2>1 DEF ValidState, Controller
<1>3. CASE DataWritten(p, byte) = [p EXCEPT !.phase = Initialized]
  BY <1>3 DEF ValidState, Ready, Controller
<1>4. CASE DataWritten(p, byte) = [p EXCEPT !.imr = byte]
  BY <1>4 DEF ValidState, Ready, Controller
<1> QED  BY <1>1, <1>2, <1>3, <1>4, DataWrittenForms

-----------------------------------------------------------------------------
(* Theorems *)

\* Every register keeps its width and PHASE its range, in every state.
THEOREM PicTypeCorrect == PicSpec => []PicTypeOK
<1>1. PicInit => PicTypeOK
  BY InitializeType DEF PicInit, PicTypeOK
<1>2. PicTypeOK /\ [PicNext]_pic => PicTypeOK'
  <2> SUFFICES ASSUME PicTypeOK, [PicNext]_pic
               PROVE  PicTypeOK'
    OBVIOUS
  <2>1. ASSUME NEW line \in Wired, NEW high \in BOOLEAN, SetLine(line, high)
        PROVE  PicTypeOK'
    BY <2>1, LineSetType, WiredAssumption DEF SetLine, PicTypeOK
  <2>2. CASE Acknowledge
    BY <2>2, AcknowledgedType DEF Acknowledge, PicTypeOK
  <2>3. ASSUME NEW byte \in CommandBytes, WriteCommand(byte)
        PROVE  PicTypeOK'
    BY <2>3, CommandWrittenType, BytesAssumption DEF WriteCommand, PicTypeOK
  <2>4. ASSUME NEW byte \in DataBytes, WriteData(byte)
        PROVE  PicTypeOK'
    BY <2>4, DataWrittenType, BytesAssumption DEF WriteData, PicTypeOK
  <2>5. CASE ResetController
    BY <2>5, ResetType DEF ResetController, PicTypeOK
  <2>6. CASE UNCHANGED pic
    BY <2>6 DEF PicTypeOK
  <2> QED  BY <2>1, <2>2, <2>3, <2>4, <2>5, <2>6 DEF PicNext
<1> QED  BY <1>1, <1>2, PTL DEF PicSpec

\* The state a snapshot takes always passes validState, so it restores.
THEOREM SnapshotsRestore == PicSpec => []SnapshotRestorable
<1>1. PicInit => SnapshotRestorable
  BY DEF PicInit, Initialize, SnapshotRestorable, ValidState
<1>2. PicTypeOK /\ SnapshotRestorable /\ [PicNext]_pic => SnapshotRestorable'
  <2> SUFFICES ASSUME PicTypeOK, SnapshotRestorable, [PicNext]_pic
               PROVE  SnapshotRestorable'
    OBVIOUS
  <2> USE DEF PicTypeOK, SnapshotRestorable
  <2>1. ASSUME NEW line \in Wired, NEW high \in BOOLEAN, SetLine(line, high)
        PROVE  SnapshotRestorable'
    BY <2>1, LineSetValid, WiredAssumption DEF SetLine
  <2>2. CASE Acknowledge
    BY <2>2, AcknowledgedValid DEF Acknowledge
  <2>3. ASSUME NEW byte \in CommandBytes, WriteCommand(byte)
        PROVE  SnapshotRestorable'
    BY <2>3, CommandWrittenValid, BytesAssumption DEF WriteCommand
  <2>4. ASSUME NEW byte \in DataBytes, WriteData(byte)
        PROVE  SnapshotRestorable'
    BY <2>4, DataWrittenValid, BytesAssumption DEF WriteData
  <2>5. CASE ResetController
    BY <2>5, ResetValid DEF ResetController
  <2>6. CASE UNCHANGED pic
    BY <2>6
  <2> QED  BY <2>1, <2>2, <2>3, <2>4, <2>5, <2>6 DEF PicNext
<1> QED  BY <1>1, <1>2, PicTypeCorrect, PTL DEF PicSpec

\* A request is never discarded: it leaves IRR into service, or the controller
\* is being reinitialized.
THEOREM RequestsAreKept == PicSpec => RequestsKept
<1> DEFINE Kept == \A l \in pic.irr \ pic'.irr : l \in pic'.isr \/ ~Ready(pic')
<1>1. ASSUME PicTypeOK, [PicNext]_pic
      PROVE  [Kept]_pic
  <2> USE <1>1 DEF PicTypeOK
  <2>1. ASSUME NEW line \in Wired, NEW high \in BOOLEAN, SetLine(line, high)
        PROVE  Kept
    BY <2>1 DEF SetLine, LineSet, Controller
  <2>2. CASE Acknowledge
    BY <2>2 DEF Acknowledge, Acknowledged, Controller
  <2>3. ASSUME NEW byte \in CommandBytes, WriteCommand(byte)
        PROVE  Kept
    BY <2>3 DEF WriteCommand, CommandWritten, Reset, Controller,
                Ready, AwaitingIcw2, Initialized
  <2>4. ASSUME NEW byte \in DataBytes, WriteData(byte)
        PROVE  Kept
    BY <2>4, DataWrittenLeaves, BytesAssumption DEF WriteData
  <2>5. CASE ResetController
    BY <2>5 DEF ResetController, Reset, Ready, AwaitingIcw1, Initialized
  <2> QED  BY <2>1, <2>2, <2>3, <2>4, <2>5 DEF PicNext
<1> QED  BY <1>1, PicTypeCorrect, PTL DEF PicSpec, RequestsKept

\* A request enters IRR on the rising edge of its line and in no other way.
THEOREM EveryRequestHadAnEdge == PicSpec => RequestsNeedAnEdge
<1> DEFINE Edge ==
      \A l \in pic'.irr \ pic.irr : l \notin pic.levels /\ l \in pic'.levels
<1>1. ASSUME PicTypeOK, [PicNext]_pic
      PROVE  [Edge]_pic
  <2> USE <1>1 DEF PicTypeOK
  <2>1. ASSUME NEW line \in Wired, NEW high \in BOOLEAN, SetLine(line, high)
        PROVE  Edge
    BY <2>1 DEF SetLine, LineSet, Rising, Controller
  <2>2. CASE Acknowledge
    BY <2>2 DEF Acknowledge, Acknowledged, Controller
  <2>3. ASSUME NEW byte \in CommandBytes, WriteCommand(byte)
        PROVE  Edge
    BY <2>3 DEF WriteCommand, CommandWritten, Reset, Controller
  <2>4. ASSUME NEW byte \in DataBytes, WriteData(byte)
        PROVE  Edge
    BY <2>4, DataWrittenLeaves, BytesAssumption DEF WriteData
  <2>5. CASE ResetController
    BY <2>5 DEF ResetController, Reset
  <2> QED  BY <2>1, <2>2, <2>3, <2>4, <2>5 DEF PicNext
<1> QED  BY <1>1, PicTypeCorrect, PTL DEF PicSpec, RequestsNeedAnEdge

\* IRR is a latch of edges.
THEOREM RequestsLatchEdges == PicSpec => RequestsAreEdges
<1> DEFINE Kept == \A l \in pic.irr \ pic'.irr : l \in pic'.isr \/ ~Ready(pic')
           Edge == \A l \in pic'.irr \ pic.irr : l \notin pic.levels /\ l \in pic'.levels
<1>1. [Kept]_pic /\ [Edge]_pic => [Kept /\ Edge]_pic
  OBVIOUS
<1> QED  BY <1>1, RequestsAreKept, EveryRequestHadAnEdge, PTL
            DEF RequestsKept, RequestsNeedAnEdge, RequestsAreEdges

-----------------------------------------------------------------------------
(* A set of levels as a stack in the order of priority *)

\* Sets of levels are finite.
LEMMA LevelsAreFinite ==
    ASSUME NEW S \in Byte
    PROVE  IsFiniteSet(S) /\ Cardinality(S) \in Nat
<1>1. IsFiniteSet(Level)
  <2>1. 0 \in Int /\ 7 \in Int
    OBVIOUS
  <2> QED  BY <2>1, FS_Interval DEF Level
<1> QED  BY <1>1, FS_Subset, FS_CardinalityType DEF Byte

\* The ranks of the members are 1 to their number.
LEMMA RankRange ==
    ASSUME NEW S \in Byte, NEW l \in S
    PROVE  Rank(l, S) \in 1..Cardinality(S)
<1> DEFINE Below == {m \in S : m <= l}
<1>1. Below \in Byte /\ Below \subseteq S /\ l \in Below
  <2>1. l \in Int /\ l <= l
    BY DEF Byte, Level
  <2>2. Below \subseteq S
    OBVIOUS
  <2> QED  BY <2>1, <2>2 DEF Byte
<1>2. IsFiniteSet(Below) /\ Cardinality(Below) \in Nat /\ Cardinality(S) \in Nat
  BY <1>1, LevelsAreFinite
<1>3. Cardinality(Below) <= Cardinality(S)
  BY <1>1, LevelsAreFinite, FS_Subset
<1>4. Cardinality(Below) # 0
  BY <1>1, <1>2, FS_EmptySet
<1> QED  BY <1>2, <1>3, <1>4 DEF Rank

LEMMA RankIsMonotonic ==
    ASSUME NEW S \in Byte, NEW l \in S, NEW m \in S, l < m
    PROVE  Rank(l, S) < Rank(m, S)
<1> DEFINE Below(n) == {k \in S : k <= n}
<1>1. Below(l) \in SUBSET Below(m) /\ Below(l) # Below(m)
  <2>1. m \in Below(m) /\ m \notin Below(l)
    BY DEF Byte, Level
  <2>2. ASSUME NEW k \in Below(l) PROVE k \in Below(m)
    BY DEF Byte, Level
  <2> QED  BY <2>1, <2>2
<1>2. Below(m) \in Byte /\ Below(l) \in Byte
  BY DEF Byte
<1>3. Cardinality(Below(l)) <= Cardinality(Below(m)) /\ Cardinality(Below(l)) # Cardinality(Below(m))
  <2> HIDE DEF Below
  <2> QED  BY <1>1, <1>2, LevelsAreFinite, FS_Subset
<1>4. Cardinality(Below(l)) \in Nat /\ Cardinality(Below(m)) \in Nat
  BY <1>2, LevelsAreFinite
<1> QED  BY <1>3, <1>4 DEF Rank

\* Every rank is some member's, and no two members share one.
LEMMA RankIsABijection ==
    ASSUME NEW S \in Byte
    PROVE  /\ \A l, m \in S : Rank(l, S) = Rank(m, S) => l = m
           /\ \A k \in 1..Cardinality(S) : \E l \in S : Rank(l, S) = k
<1>1. ASSUME NEW l \in S, NEW m \in S, Rank(l, S) = Rank(m, S)
      PROVE  l = m
  <2>1. l \in Int /\ m \in Int
    BY DEF Byte, Level
  <2>2. Rank(l, S) \in Int /\ Rank(m, S) \in Int
    BY RankRange
  <2>3. ~(l < m) /\ ~(m < l)
    BY <1>1, <2>2, RankIsMonotonic
  <2> QED  BY <2>1, <2>3
<1>2. IsFiniteSet(1..Cardinality(S)) /\ Cardinality(1..Cardinality(S)) = Cardinality(S)
  BY LevelsAreFinite, FS_Interval
<1> DEFINE rank == [l \in S |-> Rank(l, S)]
<1>3. rank \in Injection(S, 1..Cardinality(S))
  BY <1>1, RankRange DEF Injection, IsInjective
<1>4. rank \in Surjection(S, 1..Cardinality(S))
  BY <1>2, <1>3, LevelsAreFinite, FS_Injection
<1>5. \A k \in 1..Cardinality(S) : \E l \in S : rank[l] = k
  BY <1>4 DEF Surjection
<1> QED  BY <1>1, <1>5

\* A stack holds each level in service at its rank.
LEMMA RankedPlaces ==
    ASSUME NEW S \in Byte
    PROVE  /\ Ranked(S) \in Seq(S)
           /\ Len(Ranked(S)) = Cardinality(S)
           /\ DOMAIN Ranked(S) = 1..Cardinality(S)
           /\ \A l \in S : Ranked(S)[Rank(l, S)] = l
           /\ \A k \in 1..Cardinality(S) : Ranked(S)[k] \in S /\ Rank(Ranked(S)[k], S) = k
<1>1. \A k \in 1..Cardinality(S) : Ranked(S)[k] \in S /\ Rank(Ranked(S)[k], S) = k
  BY RankIsABijection DEF Ranked
<1>2. \A l \in S : Ranked(S)[Rank(l, S)] = l
  BY <1>1, RankRange, RankIsABijection
<1>3. Ranked(S) \in [1..Cardinality(S) -> S]
  BY <1>1 DEF Ranked
<1>4. Cardinality(S) \in Nat
  BY LevelsAreFinite
<1> QED  BY <1>1, <1>2, <1>3, <1>4, SeqDef, LenProperties

\* Taking a level out of the set takes its place out of the stack.
LEMMA RankWithout ==
    ASSUME NEW S \in Byte, NEW x \in S, NEW l \in S, l # x
    PROVE  Rank(l, S \ {x}) = IF l < x THEN Rank(l, S) ELSE Rank(l, S) - 1
<1>1. l \in Int /\ x \in Int
  BY DEF Byte, Level
<1>2. CASE l < x
  <2>1. {m \in S \ {x} : m <= l} = {m \in S : m <= l}
    BY <1>1, <1>2
  <2> QED  BY <1>2, <2>1 DEF Rank
<1>3. CASE x < l
  <2>1. {m \in S \ {x} : m <= l} = {m \in S : m <= l} \ {x}
    OBVIOUS
  <2>2. x \in {m \in S : m <= l}
    BY <1>1, <1>3
  <2>3. IsFiniteSet({m \in S : m <= l})
    BY LevelsAreFinite DEF Byte
  <2>4. ~(l < x)
    BY <1>1, <1>3
  <2> QED  BY <2>1, <2>2, <2>3, <2>4, FS_RemoveElement DEF Rank
<1> QED  BY <1>1, <1>2, <1>3

LEMMA RankedWithout ==
    ASSUME NEW S \in Byte, NEW x \in S
    PROVE  LET T == S \ {x}
               i == Rank(x, S)
           IN  /\ Cardinality(S) = Cardinality(T) + 1
               /\ i \in 1..Cardinality(S)
               /\ \A k \in 1..Cardinality(T) :
                      Ranked(T)[k] = IF k < i THEN Ranked(S)[k] ELSE Ranked(S)[k + 1]
<1> DEFINE T == S \ {x}
           i == Rank(x, S)
<1>1. T \in Byte /\ Cardinality(T) \in Nat /\ Cardinality(S) = Cardinality(T) + 1
  BY LevelsAreFinite, FS_RemoveElement DEF Byte
<1>2. i \in 1..Cardinality(S)
  BY RankRange
<1>3. ASSUME NEW k \in 1..Cardinality(T)
      PROVE  Ranked(T)[k] = IF k < i THEN Ranked(S)[k] ELSE Ranked(S)[k + 1]
  <2> DEFINE l == Ranked(T)[k]
  <2>1. l \in T /\ Rank(l, T) = k
    BY <1>1, RankedPlaces
  <2> HIDE DEF l
  <2>2. l \in S /\ l # x /\ l \in Int /\ x \in Int
    BY <2>1 DEF Byte, Level
  <2>3. Rank(l, S) \in 1..Cardinality(S)
    BY <2>2, RankRange
  <2> HIDE DEF i
  <2>4. CASE l < x
    <3>1. Rank(l, S) = k
      BY <2>1, <2>2, <2>4, RankWithout
    <3>2. k < i
      BY <2>2, <2>4, <3>1, RankIsMonotonic DEF i
    <3> QED  BY <2>2, <3>1, <3>2, RankedPlaces DEF l
  <2>5. CASE x < l
    <3>1. Rank(l, S) = k + 1
      <4>1. ~(l < x)
        BY <2>2, <2>5
      <4> QED  BY <2>1, <2>2, <2>3, <4>1, RankWithout
    <3>2. i < k + 1
      BY <2>2, <2>5, <3>1, RankIsMonotonic DEF i
    <3>3. ~(k < i)
      BY <1>1, <1>2, <3>2 DEF i
    <3> QED  BY <2>2, <3>1, <3>3, RankedPlaces DEF l
  <2> QED  BY <2>2, <2>4, <2>5
<1> QED  BY <1>1, <1>2, <1>3

\* The most urgent level in service is the top of the stack.
LEMMA TopOfRanked ==
    ASSUME NEW S \in Byte, NEW x \in S, \A m \in S : x <= m
    PROVE  Rank(x, S) = 1 /\ Head(Ranked(S)) = x /\ Ranked(S) # <<>>
<1>1. {m \in S : m <= x} = {x}
  <2>1. x \in Int /\ x <= x
    BY DEF Byte, Level
  <2>2. ASSUME NEW m \in S, m <= x
        PROVE  m = x
    <3>1. m \in Int /\ x <= m
      BY DEF Byte, Level
    <3> QED  BY <2>1, <2>2, <3>1
  <2> QED  BY <2>1, <2>2
<1>2. Rank(x, S) = 1
  BY <1>1, FS_Singleton DEF Rank
<1>3. 1 \in 1..Cardinality(S) /\ Ranked(S)[1] = x
  BY <1>2, RankRange, RankedPlaces
<1> QED  BY <1>2, <1>3, RankedPlaces, EmptySeq

\* Without its top, the stack is the tail.
LEMMA PopRanked ==
    ASSUME NEW S \in Byte, NEW x \in S, \A m \in S : x <= m
    PROVE  /\ Ranked(S \ {x}) = Tail(Ranked(S))
           /\ Ranked(S) = <<x>> \o Ranked(S \ {x})
<1> DEFINE T == S \ {x}
<1>1. T \in Byte /\ Cardinality(T) \in Nat
  BY LevelsAreFinite DEF Byte
<1>2. /\ Ranked(S) \in Seq(S) /\ Len(Ranked(S)) = Cardinality(S)
      /\ Ranked(T) \in Seq(T) /\ Len(Ranked(T)) = Cardinality(T)
  BY <1>1, RankedPlaces
<1>3. Ranked(T) \in Seq(S)
  BY <1>2, SeqMonotonic
<1>4. Ranked(S) # <<>> /\ Head(Ranked(S)) = x /\ Rank(x, S) = 1 /\ Ranked(S)[1] = x
  BY TopOfRanked, RankedPlaces
<1>5. /\ Cardinality(S) = Cardinality(T) + 1
      /\ \A k \in 1..Cardinality(T) : Ranked(T)[k] = Ranked(S)[k + 1]
  <2>1. \A k \in 1..Cardinality(T) : ~(k < 1)
    OBVIOUS
  <2> QED  BY <1>4, <2>1, RankedWithout
<1> HIDE DEF T
<1>6. /\ Tail(Ranked(S)) \in Seq(S)
      /\ Len(Tail(Ranked(S))) = Cardinality(T)
      /\ \A k \in 1..Cardinality(T) : Tail(Ranked(S))[k] = Ranked(S)[k + 1]
  BY <1>1, <1>2, <1>4, <1>5, HeadTailProperties
<1>7. Ranked(T) = Tail(Ranked(S))
  BY <1>2, <1>3, <1>5, <1>6, SeqEqual
<1>8. Ranked(S) = <<x>> \o Ranked(T)
  <2>1. <<x>> \in Seq(S) /\ Len(<<x>>) = 1 /\ <<x>>[1] = x
    OBVIOUS
  <2>2. /\ <<x>> \o Ranked(T) \in Seq(S)
        /\ Len(<<x>> \o Ranked(T)) = 1 + Cardinality(T)
        /\ \A k \in 1..(1 + Cardinality(T)) :
              (<<x>> \o Ranked(T))[k] = IF k <= 1 THEN <<x>>[k] ELSE Ranked(T)[k - 1]
    BY <1>2, <1>3, <2>1, ConcatProperties
  <2>3. ASSUME NEW k \in 1..(1 + Cardinality(T))
        PROVE  Ranked(S)[k] = (<<x>> \o Ranked(T))[k]
    <3>1. CASE k = 1
      BY <1>4, <2>1, <2>2, <3>1
    <3>2. CASE k # 1
      <4>1. k - 1 \in 1..Cardinality(T) /\ ~(k <= 1) /\ (k - 1) + 1 = k
        BY <1>1, <3>2
      <4> QED  BY <1>5, <2>2, <4>1
    <3> QED  BY <3>1, <3>2
  <2> QED  BY <1>1, <1>2, <1>5, <2>2, <2>3, SeqEqual
<1> QED  BY <1>7, <1>8 DEF T

\* Ending a level that is named takes its place out of the stack.
LEMMA RemoveRanked ==
    ASSUME NEW S \in Byte, NEW x \in S
    PROVE  \E i \in DOMAIN Ranked(S) :
               /\ Ranked(S)[i] = x
               /\ Ranked(S \ {x}) = Nested!RemoveAt(Ranked(S), i)
<1> DEFINE T == S \ {x}
           i == Rank(x, S)
           s == Ranked(S)
           n == Cardinality(S)
<1>1. T \in Byte /\ Cardinality(T) \in Nat /\ n \in Nat
  BY LevelsAreFinite DEF Byte
<1>2. s \in Seq(S) /\ Len(s) = n /\ DOMAIN s = 1..n /\ s[i] = x
  BY RankedPlaces
<1>3. Ranked(T) \in Seq(T) /\ Len(Ranked(T)) = Cardinality(T) /\ Ranked(T) \in Seq(S)
  BY <1>1, RankedPlaces, SeqMonotonic
<1>4. /\ n = Cardinality(T) + 1
      /\ i \in 1..n
      /\ \A k \in 1..Cardinality(T) : Ranked(T)[k] = IF k < i THEN s[k] ELSE s[k + 1]
  BY RankedWithout
<1> HIDE DEF T, i, s, n
<1> DEFINE above == SubSeq(s, 1, i - 1)
           below == SubSeq(s, i + 1, Len(s))
<1>5. \A k \in 1..n : s[k] \in S
  BY <1>2, ElementOfSeq
<1>6. /\ above \in Seq(S) /\ Len(above) = i - 1
      /\ \A k \in 1..(i - 1) : above[k] = s[k]
  <2>1. i \in Int /\ i - 1 \in Int /\ 1..(i - 1) \subseteq 1..n
    BY <1>1, <1>4
  <2>2. /\ above \in Seq(S) /\ Len(above) = IF 1 <= i - 1 THEN (i - 1) - 1 + 1 ELSE 0
        /\ \A k \in 1..((i - 1) - 1 + 1) : above[k] = s[1 + k - 1]
    BY <1>5, <2>1, SubSeqProperties
  <2> HIDE DEF above
  <2> QED  BY <1>4, <2>1, <2>2
<1>7. /\ below \in Seq(S) /\ Len(below) = n - i
      /\ \A k \in 1..(n - i) : below[k] = s[i + k]
  <2>1. i + 1 \in Int /\ n \in Int /\ (i + 1)..n \subseteq 1..n
    BY <1>1, <1>4
  <2>2. /\ below \in Seq(S) /\ Len(below) = IF i + 1 <= n THEN n - (i + 1) + 1 ELSE 0
        /\ \A k \in 1..(n - (i + 1) + 1) : below[k] = s[(i + 1) + k - 1]
    BY <1>2, <1>5, <2>1, SubSeqProperties
  <2> HIDE DEF below
  <2> QED  BY <1>4, <2>1, <2>2
<1> HIDE DEF above, below
<1>8. /\ above \o below \in Seq(S)
      /\ Len(above \o below) = Cardinality(T)
      /\ \A k \in 1..Cardinality(T) :
             (above \o below)[k] = IF k <= i - 1 THEN above[k] ELSE below[k - (i - 1)]
  <2>1. (i - 1) + (n - i) = Cardinality(T)
    BY <1>1, <1>4
  <2>2. /\ above \o below \in Seq(S)
        /\ Len(above \o below) = Len(above) + Len(below)
        /\ \A k \in 1..(Len(above) + Len(below)) :
               (above \o below)[k] = IF k <= Len(above) THEN above[k] ELSE below[k - Len(above)]
    BY <1>6, <1>7, ConcatProperties
  <2> QED  BY <1>6, <1>7, <2>1, <2>2
<1>9. ASSUME NEW k \in 1..Cardinality(T)
      PROVE  Ranked(T)[k] = (above \o below)[k]
  <2>1. CASE k < i
    <3>1. k \in 1..(i - 1) /\ k <= i - 1
      BY <1>1, <1>4, <2>1
    <3> QED  BY <1>4, <1>6, <1>8, <2>1, <3>1
  <2>2. CASE ~(k < i)
    <3>1. k - (i - 1) \in 1..(n - i) /\ ~(k <= i - 1) /\ i + (k - (i - 1)) = k + 1
      BY <1>1, <1>4, <2>2
    <3>2. (above \o below)[k] = s[k + 1]
      BY <1>7, <1>8, <3>1
    <3> QED  BY <1>4, <2>2, <3>2
  <2> QED  BY <2>1, <2>2
<1>10. Ranked(T) = above \o below
  BY <1>3, <1>8, <1>9, SeqEqual
<1> QED  BY <1>2, <1>4, <1>10 DEF T, i, s, n, above, below, Nested!RemoveAt

LEMMA LeastExists ==
    ASSUME NEW S \in Byte, S # {}
    PROVE  \E x \in S : /\ \A m \in S : x <= m
                        /\ LowestBit(S) = {x}
<1> DEFINE x == Ranked(S)[1]
<1>1. 1 \in 1..Cardinality(S)
  BY LevelsAreFinite, FS_EmptySet
<1>2. x \in S /\ Rank(x, S) = 1
  BY <1>1, RankedPlaces
<1> HIDE DEF x
<1>3. ASSUME NEW m \in S
      PROVE  x <= m
  <2>1. x \in Int /\ m \in Int /\ Rank(m, S) \in 1..Cardinality(S)
    BY <1>2, RankRange DEF Byte, Level
  <2>2. ~(m < x)
    BY <1>2, <2>1, RankIsMonotonic
  <2> QED  BY <2>1, <2>2
<1>4. ASSUME NEW m \in S, \A n \in S : m <= n
      PROVE  m = x
  <2>1. x \in Int /\ m \in Int /\ x <= m /\ m <= x
    BY <1>2, <1>3, <1>4 DEF Byte, Level
  <2> QED  BY <2>1
<1>5. LowestBit(S) = {x}
  BY <1>2, <1>3, <1>4 DEF LowestBit
<1> QED  BY <1>2, <1>3, <1>5

\* What is pending is one level, above every handler in service.
LEMMA PendingIsUrgent ==
    ASSUME NEW p \in Controller, Pending(p) # {}
    PROVE  \E l \in p.irr : /\ Pending(p) = {l}
                            /\ \A m \in p.isr : l < m
<1>1. Pending(p) = LowestBit(Eligible(p))
  BY DEF Pending
<1>2. Eligible(p) \in Byte /\ Eligible(p) \subseteq p.irr /\ p.isr \in Byte
  BY DEF Eligible, Controller, Byte
<1>3. Eligible(p) # {}
  BY <1>1 DEF LowestBit
<1>4. PICK l \in Eligible(p) : LowestBit(Eligible(p)) = {l}
  BY <1>2, <1>3, LeastExists
<1>5. ASSUME NEW m \in p.isr
      PROVE  l < m
  <2>1. PICK x \in p.isr : (\A n \in p.isr : x <= n) /\ LowestBit(p.isr) = {x}
    BY <1>2, LeastExists
  <2>2. l < x /\ x <= m
    BY <2>1 DEF Eligible
  <2>3. l \in Int /\ x \in Int /\ m \in Int
    BY <1>2 DEF Byte, Level
  <2> QED  BY <2>2, <2>3
<1> QED  BY <1>1, <1>2, <1>4, <1>5

\* An EOI names one level at most.
LEMMA OneLevelNamed ==
    ASSUME NEW byte, NEW l \in NamedLevel(byte), NEW m \in NamedLevel(byte)
    PROVE  l = m
<1>1. l \in 0..7 /\ m \in 0..7
  BY DEF NamedLevel, Level
<1>2. /\ (l % 2 = 1) <=> (m % 2 = 1)
      /\ ((l \div 2) % 2 = 1) <=> ((m \div 2) % 2 = 1)
      /\ (l \div 4 = 1) <=> (m \div 4 = 1)
  BY DEF NamedLevel
<1> QED  BY <1>1, <1>2, SMTT(60)

LEMMA CommandStep ==
    ASSUME NEW p \in Controller, NEW byte \in Byte
    PROVE  LET q == CommandWritten(p, byte)
           IN  \/ q.irr = p.irr /\ q.isr = p.isr
               \/ q.irr = {} /\ q.isr = {}
               \/ q.irr = p.irr /\ q.isr = p.isr \ Ended(p, byte)
<1>1. CASE ~CommandSupported(p, byte)
  BY <1>1 DEF CommandWritten
<1>2. CASE CommandSupported(p, byte) /\ IsIcw1(byte)
  BY <1>2 DEF CommandWritten, Reset
<1>3. CASE CommandSupported(p, byte) /\ ~IsIcw1(byte) /\ Eoi(byte)
  BY <1>3 DEF CommandWritten, Controller
<1>4. CASE CommandSupported(p, byte) /\ ~IsIcw1(byte) /\ ~Eoi(byte)
  BY <1>4 DEF CommandWritten, Controller
<1> QED  BY <1>1, <1>2, <1>3, <1>4

-----------------------------------------------------------------------------
(* The registers implement a stack of nested handlers, step by step *)

\* Nothing changes for the stack while IRR and ISR keep their values.
LEMMA SameRegisters ==
    ASSUME pic'.irr = pic.irr, pic'.isr = pic.isr
    PROVE  UNCHANGED Nested!servVars
BY DEF Nested!servVars, ServiceStack

LEMMA CleanRegisters ==
    ASSUME pic'.irr = {}, pic'.isr = {}
    PROVE  Nested!Clear
<1>1. Ranked({}) = <<>>
  <2>1. {} \in Byte /\ Cardinality({}) = 0
    BY FS_EmptySet DEF Byte
  <2> QED  BY <2>1, RankedPlaces, EmptySeq
<1> QED  BY <1>1 DEF Nested!Clear, ServiceStack

\* An acknowledge pushes the pending level.
LEMMA AcknowledgeStarts ==
    ASSUME PicTypeOK, Acknowledge
    PROVE  [Nested!Next]_(Nested!servVars)
<1>1. pic \in Controller /\ pic.irr \in Byte /\ pic.isr \in Byte
  BY DEF PicTypeOK, Controller
<1>2. pic'.irr = pic.irr \ Pending(pic) /\ pic'.isr = pic.isr \cup Pending(pic)
  BY <1>1 DEF Acknowledge, Acknowledged, Controller
<1>3. CASE Pending(pic) = {}
  <2>1. pic'.irr = pic.irr /\ pic'.isr = pic.isr
    BY <1>2, <1>3
  <2> QED  BY <2>1, SameRegisters
<1>4. CASE Pending(pic) # {}
  <2>1. PICK l \in pic.irr : Pending(pic) = {l} /\ \A m \in pic.isr : l < m
    BY <1>1, <1>4, PendingIsUrgent
  <2>2. l \in Level /\ l \in Int /\ l \notin pic.isr
    BY <1>1, <2>1 DEF Byte, Level
  <2> DEFINE S == pic.isr \cup {l}
  <2>3. S \in Byte /\ l \in S /\ S \ {l} = pic.isr
    BY <1>1, <2>2 DEF Byte
  <2>4. \A m \in S : l <= m
    BY <1>1, <2>1, <2>2 DEF Byte, Level
  <2>5. Ranked(S) = <<l>> \o Ranked(pic.isr)
    BY <2>3, <2>4, PopRanked
  <2>6. Ranked(pic.isr) = <<>> \/ l < Head(Ranked(pic.isr))
    <3>1. CASE pic.isr = {}
      <4>1. Len(Ranked(pic.isr)) = 0 /\ Ranked(pic.isr) \in Seq(pic.isr)
        BY <1>1, <3>1, RankedPlaces, FS_EmptySet
      <4> QED  BY <4>1, EmptySeq
    <3>2. CASE pic.isr # {}
      <4>1. PICK x \in pic.isr : \A m \in pic.isr : x <= m
        BY <1>1, <3>2, LeastExists
      <4> QED  BY <1>1, <2>1, <4>1, TopOfRanked
    <3> QED  BY <3>1, <3>2
  <2>7. pic'.irr = pic.irr \ {l} /\ pic'.isr = S
    BY <1>2, <2>1
  <2>8. Nested!Start(l)
    BY <2>1, <2>5, <2>6, <2>7 DEF Nested!Start, ServiceStack
  <2> QED  BY <2>2, <2>8 DEF Nested!Next
<1> QED  BY <1>3, <1>4

\* An EOI pops the running handler or takes out the one it names; ICW1 clears.
LEMMA CommandEnds ==
    ASSUME PicTypeOK, NEW byte \in Byte, WriteCommand(byte)
    PROVE  [Nested!Next]_(Nested!servVars)
<1>1. pic \in Controller /\ pic.irr \in Byte /\ pic.isr \in Byte
  BY DEF PicTypeOK, Controller
<1>2. \/ pic'.irr = pic.irr /\ pic'.isr = pic.isr
      \/ pic'.irr = {} /\ pic'.isr = {}
      \/ pic'.irr = pic.irr /\ pic'.isr = pic.isr \ Ended(pic, byte)
  BY <1>1, CommandStep DEF WriteCommand
<1>3. CASE pic'.irr = pic.irr /\ pic'.isr = pic.isr
  BY <1>3, SameRegisters
<1>4. CASE pic'.irr = {} /\ pic'.isr = {}
  BY <1>4, CleanRegisters DEF Nested!Next
<1>5. CASE /\ pic'.irr = pic.irr
           /\ pic'.isr = pic.isr \ Ended(pic, byte)
           /\ pic'.isr # pic.isr
           /\ 6 \in byte
  <2>1. Ended(pic, byte) = NamedLevel(byte)
    BY <1>5 DEF Ended
  <2>2. PICK l \in pic.isr : l \in NamedLevel(byte)
    BY <1>5, <2>1
  <2>3. pic'.isr = pic.isr \ {l} /\ l \in Level
    BY <1>1, <1>5, <2>1, <2>2, OneLevelNamed DEF Byte
  <2>4. Nested!FinishNamed(l)
    <3>1. PICK i \in DOMAIN Ranked(pic.isr) :
             /\ Ranked(pic.isr)[i] = l
             /\ Ranked(pic.isr \ {l}) = Nested!RemoveAt(Ranked(pic.isr), i)
      BY <1>1, <2>2, RemoveRanked
    <3>2. Ranked(pic'.isr) = Nested!RemoveAt(Ranked(pic.isr), i)
      BY <2>3, <3>1
    <3>3. UNCHANGED pic.irr
      BY <1>5
    <3> QED  BY <3>1, <3>2, <3>3 DEF Nested!FinishNamed, ServiceStack
  <2> QED  BY <2>3, <2>4 DEF Nested!Next
<1>6. CASE /\ pic'.irr = pic.irr
           /\ pic'.isr = pic.isr \ Ended(pic, byte)
           /\ pic'.isr # pic.isr
           /\ 6 \notin byte
  <2>1. PICK l \in pic.isr : (\A m \in pic.isr : l <= m) /\ LowestBit(pic.isr) = {l}
    BY <1>1, <1>6, LeastExists
  <2>2. pic'.isr = pic.isr \ {l}
    BY <1>6, <2>1 DEF Ended
  <2>3. Nested!FinishRunning
    BY <1>1, <1>6, <2>1, <2>2, TopOfRanked, PopRanked
       DEF Nested!FinishRunning, ServiceStack
  <2> QED  BY <2>3 DEF Nested!Next
<1> QED  BY <1>2, <1>3, <1>4, <1>5, <1>6

\* The register file implements the stack of nested handlers.
THEOREM RegistersAreAStack == PicSpec => ServiceIsAStack
<1>1. PicInit => Nested!Init
  <2>1. {} \in Byte /\ Cardinality({}) = 0
    BY FS_EmptySet DEF Byte
  <2>2. Ranked({}) = <<>>
    BY <2>1, RankedPlaces, EmptySeq
  <2> QED  BY <2>2 DEF PicInit, Initialize, Nested!Init, ServiceStack
<1>2. PicTypeOK /\ [PicNext]_pic => [Nested!Next]_(Nested!servVars)
  <2> SUFFICES ASSUME PicTypeOK, [PicNext]_pic
               PROVE  [Nested!Next]_(Nested!servVars)
    OBVIOUS
  <2>1. ASSUME NEW line \in Wired, NEW high \in BOOLEAN, SetLine(line, high)
        PROVE  [Nested!Next]_(Nested!servVars)
    <3>1. /\ pic'.isr = pic.isr
          /\ pic'.irr = pic.irr \/ pic'.irr = pic.irr \cup {line}
      BY <2>1 DEF SetLine, LineSet, PicTypeOK, Controller
    <3>2. CASE pic'.irr = pic.irr
      BY <3>1, <3>2, SameRegisters
    <3>3. CASE pic'.irr = pic.irr \cup {line}
      BY <3>1, <3>3, WiredAssumption DEF Nested!Next, Nested!Request, ServiceStack
    <3> QED  BY <3>1, <3>2, <3>3
  <2>2. CASE Acknowledge
    BY <2>2, AcknowledgeStarts
  <2>3. ASSUME NEW byte \in CommandBytes, WriteCommand(byte)
        PROVE  [Nested!Next]_(Nested!servVars)
    BY <2>3, CommandEnds, BytesAssumption
  <2>4. ASSUME NEW byte \in DataBytes, WriteData(byte)
        PROVE  [Nested!Next]_(Nested!servVars)
    BY <2>4, DataWrittenLeaves, SameRegisters, BytesAssumption DEF WriteData, PicTypeOK
  <2>5. CASE ResetController
    BY <2>5, CleanRegisters DEF ResetController, Reset, Nested!Next
  <2>6. CASE UNCHANGED pic
    BY <2>6, SameRegisters
  <2> QED  BY <2>1, <2>2, <2>3, <2>4, <2>5, <2>6 DEF PicNext
<1> QED  BY <1>1, <1>2, PicTypeCorrect, PTL DEF PicSpec, ServiceIsAStack, Nested!Spec

-----------------------------------------------------------------------------
(* The components' types *)

LEMMA ControlTypes ==
    /\ ControlInitialize \in SystemControl
    /\ \A s \in SystemControl, d \in SUBSET Source : ControlSet(s, d) \in SystemControl
    /\ \A s \in SystemControl, i \in SUBSET Source : ErrorsSet(s, i) \in SystemControl
    /\ \A s \in SystemControl, e \in BOOLEAN : EnableWritten(s, e) \in SystemControl
    /\ \A s \in SystemControl : NmiAcknowledged(s) \in SystemControl
<1>1. ASSUME NEW s \in SystemControl
      PROVE  Settled(s) \in SystemControl
  <2>1. /\ (s.errors \cup s.inputs) \ s.disabled \in SUBSET Source
        /\ \A e \in SUBSET Source : NmiHigh(s, e) \in BOOLEAN
    BY DEF SystemControl, NmiHigh
  <2> QED  BY <2>1 DEF Settled, SystemControl
<1>2. \A s \in SystemControl, d \in SUBSET Source : ControlSet(s, d) \in SystemControl
  BY <1>1 DEF ControlSet, SystemControl
<1>3. \A s \in SystemControl, i \in SUBSET Source : ErrorsSet(s, i) \in SystemControl
  BY <1>1 DEF ErrorsSet, SystemControl
<1>4. \A s \in SystemControl, e \in BOOLEAN : EnableWritten(s, e) \in SystemControl
  BY <1>1 DEF EnableWritten, SystemControl
<1>5. \A s \in SystemControl : NmiAcknowledged(s) \in SystemControl
  BY DEF NmiAcknowledged, SystemControl
<1>6. ControlInitialize \in SystemControl
  BY DEF ControlInitialize, SystemControl
<1> QED  BY <1>2, <1>3, <1>4, <1>5, <1>6

LEMMA ProcessorTypes ==
    /\ ResetState \in Processor
    /\ \A c \in Processor :
          /\ AcceptInterrupt(c) \in Processor
          /\ EnterInterrupt(c) \in Processor
          /\ BeginTrap(c) \in Processor
          /\ Stopped(c) \in Processor
          /\ \A newTf, newIf \in BOOLEAN :
                /\ FlagsLoaded(c, newTf, newIf) \in Processor
                /\ SetInterruptEnable(c, newIf) \in Processor
                /\ Polled(c, newIf) \in Processor
          /\ \A after \in Processor, deferIntr, deferAll \in BOOLEAN :
                Retired(c, after, deferIntr, deferAll) \in Processor
<1>1. ResetState \in Processor
  BY DEF ResetState, Processor
<1>2. ASSUME NEW c \in Processor
      PROVE  /\ AcceptInterrupt(c) \in Processor
             /\ EnterInterrupt(c) \in Processor
             /\ BeginTrap(c) \in Processor
             /\ Stopped(c) \in Processor
  BY DEF AcceptInterrupt, EnterInterrupt, BeginTrap, Stopped, Processor
<1>3. ASSUME NEW c \in Processor, NEW newTf \in BOOLEAN, NEW newIf \in BOOLEAN
      PROVE  /\ FlagsLoaded(c, newTf, newIf) \in Processor
             /\ SetInterruptEnable(c, newIf) \in Processor
             /\ Polled(c, newIf) \in Processor
  BY DEF FlagsLoaded, SetInterruptEnable, Polled, Processor
<1>4. ASSUME NEW c \in Processor, NEW after \in Processor,
             NEW deferIntr \in BOOLEAN, NEW deferAll \in BOOLEAN
      PROVE  Retired(c, after, deferIntr, deferAll) \in Processor
  <2>1. (c.trapPending \/ c.tf) \in BOOLEAN
    OBVIOUS
  <2> QED  BY <2>1 DEF Retired, Processor
<1> QED  BY <1>1, <1>2, <1>3, <1>4

\* Priority resolution singles out one level, the one the vector names.
LEMMA VectorNamesPending ==
    ASSUME NEW p \in Controller, Irq(p)
    PROVE  /\ Vector(p).level \in Level
           /\ Pending(p) = {Vector(p).level}
           /\ Vector(p) \in Vectors
<1>1. Pending(p) \in SUBSET Level
  BY PendingType DEF Byte
<1>2. \A l, m \in Pending(p) : l = m
  BY <1>1 DEF Pending, LowestBit, Level
<1>3. (CHOOSE l \in Pending(p) : TRUE) \in Pending(p)
  BY DEF Irq
<1>4. Vector(p).level = CHOOSE l \in Pending(p) : TRUE
  BY DEF Vector
<1>5. Pending(p) = {Vector(p).level} /\ Vector(p).level \in Level
  BY <1>1, <1>2, <1>3, <1>4
<1>6. p.base \in Byte /\ Vector(p) = [base |-> p.base, level |-> Vector(p).level]
  BY <1>4 DEF Controller, Vector
<1> QED  BY <1>5, <1>6 DEF Vectors

-----------------------------------------------------------------------------
(* Type correctness of the board *)

LEMMA BoardTypeStep ==
    ASSUME TypeOK, [Next]_vars
    PROVE  TypeOK'
<1> USE DEF TypeOK
<1>1. ASSUME Boundary, BoundaryEnds
      PROVE  TypeOK'
  <2> USE <1>1 DEF BoundaryEnds
  <2>1. CASE AcceptNmi
    BY <2>1, ControlTypes, ProcessorTypes DEF AcceptNmi, SystemControl
  <2>2. CASE AcceptIntr
    BY <2>2, AcknowledgedType, VectorNamesPending, ProcessorTypes
       DEF AcceptIntr, TakesIntr, SampledIntr
  <2>3. CASE DeliverTrap
    BY <2>3, ProcessorTypes DEF DeliverTrap
  <2>4. CASE StayHalted
    BY <2>4 DEF StayHalted
  <2>5. CASE ExecuteUnsupported
    BY <2>5 DEF ExecuteUnsupported, OffBus
  <2>6. ASSUME NEW after \in Processor,
               NEW deferIntr \in BOOLEAN, NEW deferAll \in BOOLEAN,
               Retires(after, deferIntr, deferAll)
        PROVE  cpu' \in Processor /\ justEnabled' \in BOOLEAN /\ traced' \in BOOLEAN
    BY <2>6, ProcessorTypes DEF Retires, EnablesInterrupts
  <2>7. ASSUME NEW high \in BOOLEAN, SampleTest(high)
        PROVE  TypeOK'
    BY <2>6, <2>7, ProcessorTypes DEF SampleTest, OffBus
  <2>8. CASE ExecutePlain
    BY <2>6, <2>8 DEF ExecutePlain, OffBus
  <2>9. ASSUME NEW newIf \in BOOLEAN, ExecuteInterruptFlag(newIf)
        PROVE  TypeOK'
    BY <2>6, <2>9, ProcessorTypes
       DEF ExecuteInterruptFlag, OffBus, EnablesInterrupts
  <2>10. ASSUME NEW newTf \in BOOLEAN, NEW newIf \in BOOLEAN,
                ExecuteLoadFlags(newTf, newIf)
         PROVE  TypeOK'
    BY <2>6, <2>10, ProcessorTypes DEF ExecuteLoadFlags, OffBus, EnablesInterrupts
  <2>11. CASE ExecuteLoadSegment
    BY <2>6, <2>11 DEF ExecuteLoadSegment, OffBus
  <2>12. CASE ExecuteHalt
    BY <2>6, <2>12, ProcessorTypes DEF ExecuteHalt, OffBus
  <2>13. CASE ExecuteSoftwareEntry
    BY <2>6, <2>13, ProcessorTypes DEF ExecuteSoftwareEntry, OffBus
  <2>14. CASE OutputPic
    BY <2>6, <2>14, CommandWrittenType, DataWrittenType, BytesAssumption
       DEF OutputPic, Outputs
  <2>15. ASSUME NEW line \in BoardLines, NEW high \in BOOLEAN,
                OutputDevice(line, high)
         PROVE  TypeOK'
    BY <2>6, <2>15, LineSetType, WiredAssumption, BoardLinesAssumption
       DEF OutputDevice, Outputs
  <2>16. ASSUME NEW enabled \in BOOLEAN, OutputNmiEnable(enabled)
         PROVE  TypeOK'
    BY <2>6, <2>16, ControlTypes DEF OutputNmiEnable, Outputs, NoteNmiLevel
  <2>17. ASSUME NEW disabled \in SUBSET Source, OutputCheckControl(disabled)
         PROVE  TypeOK'
    BY <2>6, <2>17, ControlTypes DEF OutputCheckControl, Outputs, NoteNmiLevel
  <2> QED  BY <2>1, <2>2, <2>3, <2>4, <2>5, <2>7, <2>8, <2>9, <2>10, <2>11,
              <2>12, <2>13, <2>14, <2>15, <2>16, <2>17 DEF Boundary
<1>2. ASSUME NEW line \in Wired, NEW high \in BOOLEAN, DeviceLine(line, high)
      PROVE  TypeOK'
  BY <1>2, LineSetType, WiredAssumption DEF DeviceLine, historyVars
<1>7. CASE OutputFails
  BY <1>7, LineSetType, WiredAssumption, BoardLinesAssumption
     DEF OutputFails, historyVars
<1>3. ASSUME NEW inputs \in SUBSET Source, CheckErrors(inputs)
      PROVE  TypeOK'
  BY <1>3, ControlTypes DEF CheckErrors, NoteNmiLevel
<1>4. CASE ResetCpu
  BY <1>4, ProcessorTypes DEF ResetCpu
<1>5. CASE ResetMachine
  <2>1. [Reset(pic) EXCEPT !.levels = @ \ BoardLines] \in Controller
    BY ResetType DEF Controller, Byte
  <2> QED  BY <1>5, <2>1, ProcessorTypes, ControlTypes
              DEF ResetMachine, Vectors, NoVector
<1>6. CASE UNCHANGED vars
  BY <1>6 DEF vars
<1> QED  BY <1>1, <1>2, <1>3, <1>4, <1>5, <1>6, <1>7 DEF Next, CpuBoundary, Devices

\* Every latch, register and history variable stays in its domain.
THEOREM BoardTypes == Spec => []TypeOK
<1>1. Init => TypeOK
  BY InitializeType, ControlTypes, ProcessorTypes
     DEF Init, TypeOK, Vectors, NoVector
<1>2. TypeOK /\ [Next]_vars => TypeOK'
  BY BoardTypeStep
<1> QED  BY <1>1, <1>2, PTL DEF Spec

-----------------------------------------------------------------------------
(* The check latches *)

\* An NMI that was taken while its condition holds is not pending again.
SpentIsTaken == nmiSpent => control.nmiLevel /\ ~control.nmiPending

ControlPart == ControlValid(control) /\ SpentIsTaken

\* Settling the latches makes them consistent whatever they held before.
LEMMA SettledValid ==
    ASSUME NEW s \in SystemControl
    PROVE  /\ ControlValid(Settled(s))
           /\ s.nmiLevel /\ ~s.nmiPending => ~Settled(s).nmiPending
BY DEF Settled, ControlValid, NmiHigh, SystemControl

LEMMA ControlOperationsValid ==
    /\ ControlValid(ControlInitialize)
    /\ \A s \in SystemControl : ControlValid(s) => ControlValid(NmiAcknowledged(s))
    /\ \A s \in SystemControl :
          \A s2 \in {ControlSet(s, d) : d \in SUBSET Source}
                   \cup {ErrorsSet(s, i) : i \in SUBSET Source}
                   \cup {EnableWritten(s, e) : e \in BOOLEAN} :
             /\ ControlValid(s2)
             /\ s.nmiLevel /\ ~s.nmiPending => ~s2.nmiPending
<1>1. ControlValid(ControlInitialize)
  BY DEF ControlValid, ControlInitialize
<1>2. \A s \in SystemControl : ControlValid(s) => ControlValid(NmiAcknowledged(s))
  BY DEF ControlValid, NmiAcknowledged, SystemControl
<1>3. ASSUME NEW s \in SystemControl
      PROVE  /\ \A d \in SUBSET Source :
                    /\ ControlValid(ControlSet(s, d))
                    /\ s.nmiLevel /\ ~s.nmiPending => ~ControlSet(s, d).nmiPending
             /\ \A i \in SUBSET Source :
                    /\ ControlValid(ErrorsSet(s, i))
                    /\ s.nmiLevel /\ ~s.nmiPending => ~ErrorsSet(s, i).nmiPending
             /\ \A e \in BOOLEAN :
                    /\ ControlValid(EnableWritten(s, e))
                    /\ s.nmiLevel /\ ~s.nmiPending => ~EnableWritten(s, e).nmiPending
  <2>1. ASSUME NEW d \in SUBSET Source
        PROVE  /\ [s EXCEPT !.disabled = d] \in SystemControl
               /\ [s EXCEPT !.disabled = d].nmiLevel = s.nmiLevel
               /\ [s EXCEPT !.disabled = d].nmiPending = s.nmiPending
    BY DEF SystemControl
  <2>2. ASSUME NEW i \in SUBSET Source
        PROVE  /\ [s EXCEPT !.inputs = i] \in SystemControl
               /\ [s EXCEPT !.inputs = i].nmiLevel = s.nmiLevel
               /\ [s EXCEPT !.inputs = i].nmiPending = s.nmiPending
    BY DEF SystemControl
  <2>3. ASSUME NEW e \in BOOLEAN
        PROVE  /\ [s EXCEPT !.enabled = e] \in SystemControl
               /\ [s EXCEPT !.enabled = e].nmiLevel = s.nmiLevel
               /\ [s EXCEPT !.enabled = e].nmiPending = s.nmiPending
    BY DEF SystemControl
  <2>4. \A d \in SUBSET Source :
           /\ ControlValid(ControlSet(s, d))
           /\ s.nmiLevel /\ ~s.nmiPending => ~ControlSet(s, d).nmiPending
    BY <2>1, SettledValid DEF ControlSet
  <2>5. \A i \in SUBSET Source :
           /\ ControlValid(ErrorsSet(s, i))
           /\ s.nmiLevel /\ ~s.nmiPending => ~ErrorsSet(s, i).nmiPending
    BY <2>2, SettledValid DEF ErrorsSet
  <2>6. \A e \in BOOLEAN :
           /\ ControlValid(EnableWritten(s, e))
           /\ s.nmiLevel /\ ~s.nmiPending => ~EnableWritten(s, e).nmiPending
    BY <2>3, SettledValid DEF EnableWritten
  <2> QED  BY <2>4, <2>5, <2>6
<1> QED  BY <1>1, <1>2, <1>3

LEMMA ControlStep ==
    ASSUME TypeOK, ControlPart, [Next]_vars
    PROVE  ControlPart'
<1> USE DEF TypeOK, ControlPart, SpentIsTaken
<1>1. CASE UNCHANGED <<control, nmiSpent>>
  BY <1>1
<1>2. CASE AcceptNmi
  <2>1. control'.nmiPending = FALSE
    BY <1>2 DEF AcceptNmi, NmiAcknowledged, SystemControl
  <2> QED  BY <1>2, <2>1, ControlOperationsValid DEF AcceptNmi
<1>3. ASSUME NEW enabled \in BOOLEAN, OutputNmiEnable(enabled)
      PROVE  ControlPart'
  BY <1>3, ControlOperationsValid DEF OutputNmiEnable, NoteNmiLevel
<1>4. ASSUME NEW disabled \in SUBSET Source, OutputCheckControl(disabled)
      PROVE  ControlPart'
  BY <1>4, ControlOperationsValid DEF OutputCheckControl, NoteNmiLevel
<1>5. ASSUME NEW inputs \in SUBSET Source, CheckErrors(inputs)
      PROVE  ControlPart'
  BY <1>5, ControlOperationsValid DEF CheckErrors, NoteNmiLevel
<1>6. CASE ResetMachine
  BY <1>6, ControlOperationsValid, ControlTypes DEF ResetMachine
<1>7. CASE Boundary /\ ~AcceptNmi
           /\ ~(\E enabled \in BOOLEAN : OutputNmiEnable(enabled))
           /\ ~(\E disabled \in SUBSET Source : OutputCheckControl(disabled))
  <2>1. UNCHANGED <<control, nmiSpent>>
    BY <1>7 DEF Boundary, AcceptIntr, DeliverTrap, StayHalted, SampleTest,
                ExecutePlain, ExecuteInterruptFlag, ExecuteLoadFlags,
                ExecuteLoadSegment, ExecuteHalt, ExecuteSoftwareEntry,
                ExecuteUnsupported, OffBus, OutputPic, OutputDevice
  <2> QED  BY <1>1, <2>1
<1>8. ASSUME NEW line \in Wired, NEW high \in BOOLEAN, DeviceLine(line, high)
      PROVE  ControlPart'
  BY <1>8 DEF DeviceLine, historyVars
<1>9. CASE OutputFails \/ ResetCpu \/ UNCHANGED vars
  BY <1>1, <1>9 DEF OutputFails, ResetCpu, vars, historyVars
<1> QED  BY <1>2, <1>3, <1>4, <1>5, <1>6, <1>7, <1>8, <1>9
            DEF Next, CpuBoundary, Devices

-----------------------------------------------------------------------------
(* The controller on the board *)

LEMMA ControllerStep ==
    ASSUME TypeOK, ValidState(pic), [Next]_vars
    PROVE  ValidState(pic)'
<1> USE DEF TypeOK
<1>1. CASE UNCHANGED pic
  BY <1>1
<1>2. CASE AcceptIntr
  BY <1>2, AcknowledgedValid DEF AcceptIntr
<1>3. CASE OutputPic
  BY <1>3, CommandWrittenValid, DataWrittenValid, BytesAssumption DEF OutputPic
<1>4. ASSUME NEW line \in Wired, NEW high \in BOOLEAN,
             pic' = LineSet(pic, line, high)
      PROVE  ValidState(pic)'
  BY <1>4, LineSetValid, WiredAssumption
<1>5. CASE ResetMachine
  BY <1>5 DEF ResetMachine, Reset, ValidState
<1>6. CASE Boundary
  <2>1. CASE \E line \in BoardLines, high \in BOOLEAN : OutputDevice(line, high)
    BY <2>1, <1>4, BoardLinesAssumption DEF OutputDevice
  <2>2. CASE /\ ~AcceptIntr /\ ~OutputPic
             /\ ~(\E line \in BoardLines, high \in BOOLEAN : OutputDevice(line, high))
    <3>1. UNCHANGED pic
      BY <1>6, <2>2
         DEF Boundary, AcceptNmi, DeliverTrap, StayHalted, SampleTest,
             ExecutePlain, ExecuteInterruptFlag, ExecuteLoadFlags,
             ExecuteLoadSegment, ExecuteHalt, ExecuteSoftwareEntry,
             ExecuteUnsupported, OffBus, OutputNmiEnable, OutputCheckControl
    <3> QED  BY <1>1, <3>1
  <2> QED  BY <1>2, <1>3, <2>1, <2>2
<1>7. CASE Devices
  <2>1. CASE \E line \in Wired, high \in BOOLEAN : DeviceLine(line, high)
    BY <2>1, <1>4 DEF DeviceLine
  <2>2. CASE (\E inputs \in SUBSET Source : CheckErrors(inputs)) \/ ResetCpu
    BY <2>2, <1>1 DEF CheckErrors, ResetCpu
  <2> QED  BY <1>5, <1>7, <2>1, <2>2 DEF Devices
<1>8. CASE UNCHANGED vars
  BY <1>1, <1>8 DEF vars
<1>9. CASE OutputFails
  BY <1>1, <1>4, <1>9, BoardLinesAssumption DEF OutputFails
<1> QED  BY <1>6, <1>7, <1>8, <1>9 DEF Next, CpuBoundary

-----------------------------------------------------------------------------
(* The processor's latches *)

\* The instruction that set IF has left the delay that keeps INTR out.
EnableIsDeferred == justEnabled /\ cpu.if => cpu.interruptDeferred

ProcessorPart == HaltedCanWake /\ TrapKept /\ EnableIsDeferred

\* Every retirement keeps the three facts, provided an instruction that halts
\* asks for no delay and one that sets IF asks for the INTR delay.
LEMMA RetirementStep ==
    ASSUME TypeOK, ProcessorPart,
           NEW after \in Processor, NEW deferIntr \in BOOLEAN, NEW deferAll \in BOOLEAN,
           after.halted => ~deferIntr /\ ~deferAll,
           EnablesInterrupts(cpu, after.if) => deferIntr,
           Retires(after, deferIntr, deferAll)
    PROVE  ProcessorPart'
<1>1. /\ cpu' \in Processor
      /\ cpu'.halted = after.halted /\ cpu'.if = after.if
      /\ cpu'.interruptDeferred = deferIntr /\ cpu'.recognitionDeferred = deferAll
      /\ cpu'.trapPending = (cpu.trapPending \/ cpu.tf)
  BY DEF Retires, Retired, Processor, TypeOK
<1> QED  BY <1>1 DEF ProcessorPart, HaltedCanWake, TrapKept, EnableIsDeferred, Retires

\* Interrupt entry clears HLT and IF and leaves an owed trap owed.
LEMMA EntryEffects ==
    ASSUME NEW c \in Processor
    PROVE  /\ EnterInterrupt(c) \in Processor
           /\ ~EnterInterrupt(c).halted /\ ~EnterInterrupt(c).if
           /\ EnterInterrupt(c).trapPending = c.trapPending
           /\ AcceptInterrupt(c) \in Processor
           /\ AcceptInterrupt(c).trapPending = c.trapPending
           /\ BeginTrap(c) \in Processor
BY DEF EnterInterrupt, AcceptInterrupt, BeginTrap, Processor

LEMMA ProcessorStep ==
    ASSUME TypeOK, ProcessorPart, [Next]_vars
    PROVE  ProcessorPart'
<1> USE DEF TypeOK
<1>1. CASE UNCHANGED <<cpu, justEnabled, traced>>
  BY <1>1 DEF ProcessorPart, HaltedCanWake, TrapKept, EnableIsDeferred
<1>2. CASE AcceptNmi \/ AcceptIntr
  BY <1>2, EntryEffects DEF AcceptNmi, AcceptIntr,
     ProcessorPart, HaltedCanWake, TrapKept, EnableIsDeferred
<1>3. CASE DeliverTrap
  BY <1>3, EntryEffects DEF DeliverTrap,
     ProcessorPart, HaltedCanWake, TrapKept, EnableIsDeferred
<1>4. CASE StayHalted \/ ExecuteUnsupported
  BY <1>1, <1>4 DEF StayHalted, ExecuteUnsupported
\* The remaining boundaries retire an instruction of a CPU that is not halted.
<1>5. ASSUME NEW high \in BOOLEAN, SampleTest(high)
      PROVE  ProcessorPart'
  <2>1. Polled(cpu, high) \in Processor /\ ~Polled(cpu, high).halted
        /\ Polled(cpu, high).if = cpu.if
    BY <1>5 DEF SampleTest, Attempts, Polled, Processor
  <2> QED  BY <1>5, <2>1, RetirementStep DEF SampleTest, EnablesInterrupts
<1>6. CASE /\ Fetches
           /\ \E deferAll \in BOOLEAN : Retires(cpu, FALSE, deferAll)
  BY <1>6, RetirementStep DEF Fetches, Attempts, EnablesInterrupts
<1>7. ASSUME NEW newIf \in BOOLEAN, ExecuteInterruptFlag(newIf)
      PROVE  ProcessorPart'
  <2>1. LET after == SetInterruptEnable(cpu, newIf)
        IN  after \in Processor /\ ~after.halted /\ after.if = newIf
    BY <1>7 DEF ExecuteInterruptFlag, Fetches, Attempts, SetInterruptEnable, Processor
  <2>2. EnablesInterrupts(cpu, newIf) \in BOOLEAN
    BY DEF EnablesInterrupts
  <2> QED  BY <1>7, <2>1, <2>2, RetirementStep DEF ExecuteInterruptFlag
<1>8. ASSUME NEW newTf \in BOOLEAN, NEW newIf \in BOOLEAN,
             ExecuteLoadFlags(newTf, newIf)
      PROVE  ProcessorPart'
  <2>1. LET after == FlagsLoaded(cpu, newTf, newIf)
        IN  after \in Processor /\ ~after.halted /\ after.if = newIf
    BY <1>8 DEF ExecuteLoadFlags, Fetches, Attempts, FlagsLoaded, Processor
  <2>2. EnablesInterrupts(cpu, newIf) \in BOOLEAN
    BY DEF EnablesInterrupts
  <2> QED  BY <1>8, <2>1, <2>2, RetirementStep DEF ExecuteLoadFlags
<1>9. CASE ExecuteHalt
  <2>1. Stopped(cpu) \in Processor /\ Stopped(cpu).if = cpu.if
    BY DEF Stopped, Processor
  <2> QED  BY <1>9, <2>1, RetirementStep DEF ExecuteHalt, EnablesInterrupts
<1>10. CASE ExecuteSoftwareEntry
  BY <1>10, EntryEffects, RetirementStep DEF ExecuteSoftwareEntry, EnablesInterrupts
<1>11. CASE Boundary
  <2>1. CASE Outputs
    BY <1>6, <2>1 DEF Outputs
  <2>2. CASE ExecutePlain \/ ExecuteLoadSegment
    BY <1>6, <2>2 DEF ExecutePlain, ExecuteLoadSegment
  <2> QED  BY <1>2, <1>3, <1>4, <1>5, <1>7, <1>8, <1>9, <1>10, <1>11, <2>1, <2>2
              DEF Boundary, OutputPic, OutputDevice, OutputNmiEnable, OutputCheckControl
<1>12. ASSUME NEW line \in Wired, NEW high \in BOOLEAN, DeviceLine(line, high)
       PROVE  ProcessorPart'
  BY <1>1, <1>12 DEF DeviceLine, historyVars
<1>13. ASSUME NEW inputs \in SUBSET Source, CheckErrors(inputs)
       PROVE  ProcessorPart'
  BY <1>1, <1>13 DEF CheckErrors
<1>14. CASE ResetCpu \/ ResetMachine
  BY <1>14 DEF ResetCpu, ResetMachine, ResetState,
     ProcessorPart, HaltedCanWake, TrapKept, EnableIsDeferred
<1>15. CASE OutputFails \/ UNCHANGED vars
  BY <1>1, <1>15 DEF OutputFails, historyVars, vars
<1> QED  BY <1>11, <1>12, <1>13, <1>14, <1>15 DEF Next, CpuBoundary, Devices

-----------------------------------------------------------------------------
(* The INTR sample *)

\* INT raised by the last boundary's port write is what the board remembers.
OutputIsRemembered == outputRaised => intrRaisedDuringCpu

LEMMA SampleStep ==
    ASSUME OutputIsRemembered, [Next]_vars
    PROVE  OutputIsRemembered'
<1> USE DEF OutputIsRemembered
<1>1. CASE Boundary /\ BoundaryEnds
  <2>1. CASE Outputs
    BY <1>1, <2>1 DEF Outputs, BoundaryEnds
  <2>2. CASE ~Outputs
    <3>1. outputRaised' = FALSE
      BY <1>1, <2>2
         DEF Boundary, AcceptNmi, AcceptIntr, DeliverTrap, StayHalted, SampleTest,
             ExecutePlain, ExecuteInterruptFlag, ExecuteLoadFlags,
             ExecuteLoadSegment, ExecuteHalt, ExecuteSoftwareEntry,
             ExecuteUnsupported, OffBus, OutputPic, OutputDevice,
             OutputNmiEnable, OutputCheckControl
    <3> QED  BY <3>1
  <2> QED  BY <2>1, <2>2
<1>2. CASE Devices
  BY <1>2 DEF Devices, DeviceLine, CheckErrors, ResetCpu, ResetMachine, historyVars
<1>3. CASE OutputFails \/ UNCHANGED vars
  BY <1>3 DEF OutputFails, historyVars, vars
<1> QED  BY <1>1, <1>2, <1>3 DEF Next, CpuBoundary

-----------------------------------------------------------------------------
(* Theorems *)

BoardInv ==
    /\ ValidState(pic) /\ ControlPart
    /\ ProcessorPart
    /\ OutputIsRemembered

LEMMA BoardInitially ==
    ASSUME Init
    PROVE  TypeOK /\ BoardInv
<1>1. TypeOK
  BY InitializeType, ControlTypes, ProcessorTypes
     DEF Init, TypeOK, Vectors, NoVector
<1>2. ControlValid(control) /\ ValidState(pic)
  BY ControlOperationsValid DEF Init, ValidState, Initialize
<1> QED  BY <1>1, <1>2 DEF Init, BoardInv, ControlPart, SpentIsTaken, ProcessorPart,
            HaltedCanWake, TrapKept, EnableIsDeferred, OutputIsRemembered,
            ResetState

LEMMA BoardInvStep ==
    ASSUME TypeOK, BoardInv, [Next]_vars
    PROVE  BoardInv'
BY ControllerStep, ControlStep, ProcessorStep, SampleStep DEF BoardInv

\* What the board's latches remember, together, in every state.
THEOREM BoardRemembers == Spec => []BoardInv
BY BoardInitially, BoardInvStep, BoardTypes, PTL DEF Spec

\* The board can be checkpointed at any boundary: both chapters' validState
\* checks accept what a snapshot takes.
THEOREM BoardRestores == Spec => []BoardRestorable
<1>1. BoardInv => BoardRestorable
  BY DEF BoardInv, ControlPart, BoardRestorable
<1> QED  BY <1>1, BoardRemembers, PTL

\* A halted CPU carries no recognition delay that could keep it halted.
THEOREM HaltsCanWake == Spec => []HaltedCanWake
<1>1. BoardInv => HaltedCanWake
  BY DEF BoardInv, ProcessorPart
<1> QED  BY <1>1, BoardRemembers, PTL

\* A traced instruction's trap stays owed until its entry begins.
THEOREM TrapsAreKept == Spec => []TrapKept
<1>1. BoardInv => TrapKept
  BY DEF BoardInv, ProcessorPart
<1> QED  BY <1>1, BoardRemembers, PTL

\* INTR is not acknowledged right after the instruction that set IF.
THEOREM EnableHasAShadow == Spec => EnableShadow
<1>1. TypeOK /\ BoardInv /\ [Next]_vars => [AcceptIntr => ~justEnabled]_vars
  BY DEF BoardInv, ProcessorPart, EnableIsDeferred, TypeOK,
         AcceptIntr, TakesIntr, IntrEligible
<1> QED  BY <1>1, BoardTypes, BoardRemembers, PTL DEF Spec, EnableShadow

\* A request raised by a port write misses the sample that follows the write.
THEOREM OutputsMissTheSample == Spec => OutputMissesSample
<1>1. BoardInv /\ [Next]_vars => [AcceptIntr => ~outputRaised]_vars
  BY DEF BoardInv, OutputIsRemembered, AcceptIntr, TakesIntr, SampledIntr
<1> QED  BY <1>1, BoardRemembers, PTL DEF Spec, OutputMissesSample

\* The vector the CPU reads belongs to the request the controller serves.
THEOREM VectorsMatchService == Spec => VectorMatchesService
<1> DEFINE Matches ==
      AcceptIntr => /\ pic'.isr = pic.isr \cup {entered'.level}
                    /\ entered'.level \in pic.irr \ pic.imr
<1>1. TypeOK /\ [Next]_vars => [Matches]_vars
  <2> SUFFICES ASSUME TypeOK, AcceptIntr
               PROVE  /\ pic'.isr = pic.isr \cup {entered'.level}
                      /\ entered'.level \in pic.irr \ pic.imr
    OBVIOUS
  <2>1. pic \in Controller /\ Irq(pic)
    BY DEF TypeOK, AcceptIntr, TakesIntr, SampledIntr
  <2>2. Pending(pic) = {entered'.level} /\ Pending(pic) \subseteq pic.irr \ pic.imr
    BY <2>1, VectorNamesPending, PendingType DEF AcceptIntr
  <2>3. pic'.isr = pic.isr \cup Pending(pic)
    BY <2>1 DEF AcceptIntr, Acknowledged, Controller
  <2> QED  BY <2>2, <2>3
<1> QED  BY <1>1, BoardTypes, PTL DEF Spec, VectorMatchesService

\* INTR never overtakes an NMI.
THEOREM NmiComesFirst == Spec => NmiNotOvertaken
<1>1. [Next]_vars => [AcceptIntr => ~control.nmiPending]_vars
  BY DEF AcceptIntr, TakesIntr, TakesNmi, NmiEligible, IntrEligible
<1> QED  BY <1>1, PTL DEF Spec, NmiNotOvertaken

\* A held check error asks for one NMI.
THEOREM HeldErrorsAskOnce == Spec => HeldErrorAsksOnce
<1>1. BoardInv /\ [Next]_vars => [AcceptNmi => ~nmiSpent]_vars
  BY DEF BoardInv, ControlPart, SpentIsTaken, AcceptNmi, TakesNmi
<1> QED  BY <1>1, BoardRemembers, PTL DEF Spec, HeldErrorAsksOnce

\* Halted processors carry no delay and traced instructions are owed their trap.
THEOREM LatchesStayDue == Spec => []LatchesAreDue
<1>1. HaltedCanWake /\ TrapKept => LatchesAreDue
  BY DEF LatchesAreDue
<1> QED  BY <1>1, HaltsCanWake, TrapsAreKept, PTL

\* INTR is acknowledged after NMI, after the shadow of an enable and after a missed sample.
THEOREM IntrWaits == Spec => IntrWaitsItsTurn
<1>1. /\ [AcceptIntr => ~control.nmiPending]_vars
      /\ [AcceptIntr => ~justEnabled]_vars
      /\ [AcceptIntr => ~outputRaised]_vars
      => [AcceptIntr => ~control.nmiPending /\ ~justEnabled /\ ~outputRaised]_vars
  OBVIOUS
<1> QED  BY <1>1, NmiComesFirst, EnableHasAShadow, OutputsMissTheSample, PTL
            DEF NmiNotOvertaken, EnableShadow, OutputMissesSample, IntrWaitsItsTurn

\* Vectors and services agree, and a held error asks once.
THEOREM EntriesAnswer == Spec => EntriesAnswerOnce
<1> DEFINE Matches ==
      AcceptIntr => /\ pic'.isr = pic.isr \cup {entered'.level}
                    /\ entered'.level \in pic.irr \ pic.imr
<1>1. [Matches]_vars /\ [AcceptNmi => ~nmiSpent]_vars => [Matches /\ (AcceptNmi => ~nmiSpent)]_vars
  OBVIOUS
<1> QED  BY <1>1, VectorsMatchService, HeldErrorsAskOnce, PTL
            DEF VectorMatchesService, HeldErrorAsksOnce, EntriesAnswerOnce

-----------------------------------------------------------------------------
(* Well-formed handlers on this board (XtHandlers)                         *)

Frame == [level : Level \cup {Software}, if : BOOLEAN, ended : BOOLEAN]

\* The frames are frames, and agree with the controller.
StackInv == frames \in Seq(Frame) /\ HandlersNest

LEMMA Pushed ==
    ASSUME NEW s \in Seq(Frame), NEW f \in Frame
    PROVE  /\ <<f>> \o s \in Seq(Frame)
           /\ Len(<<f>> \o s) = Len(s) + 1
           /\ (<<f>> \o s)[1] = f
           /\ \A i \in 1..Len(s) : (<<f>> \o s)[i + 1] = s[i]
           /\ \A i \in 2..(Len(s) + 1) : (<<f>> \o s)[i] = s[i - 1]
OBVIOUS

LEMMA Popped ==
    ASSUME NEW s \in Seq(Frame), s # <<>>
    PROVE  /\ Tail(s) \in Seq(Frame) /\ Head(s) = s[1] /\ s[1] \in Frame
           /\ Len(s) \in Nat /\ Len(s) > 0 /\ Len(Tail(s)) = Len(s) - 1
           /\ \A i \in 1..(Len(s) - 1) : Tail(s)[i] = s[i + 1]
OBVIOUS

\* Steps that move neither the services nor the frames.
LEMMA StackKept ==
    ASSUME StackInv, frames' = frames, pic'.isr = pic.isr
    PROVE  StackInv'
BY DEF StackInv, HandlersNest, IsrIsTheStack, NestingByPriority, InService

\* A software entry pushes a frame that no request owns.
LEMMA SoftwarePushed ==
    ASSUME TypeOK, StackInv, Enter(Software), pic'.isr = pic.isr
    PROVE  StackInv'
<1> DEFINE f == [level |-> Software, if |-> cpu.if, ended |-> FALSE]
<1>1. f \in Frame /\ f.level = Software
  BY DEF Frame, TypeOK, Processor
<1>2. frames' = <<f>> \o frames /\ frames \in Seq(Frame)
  BY DEF Enter, StackInv
<1> HIDE DEF f
<1>3. InService' = {i + 1 : i \in InService}
  <2>1. /\ Len(frames) \in Nat /\ Len(frames') = Len(frames) + 1 /\ frames'[1] = f
        /\ \A i \in 2..(Len(frames) + 1) : frames'[i] = frames[i - 1]
    BY <1>1, <1>2, Pushed
  <2>2. \A i \in InService : i + 1 \in InService'
    <3> SUFFICES ASSUME NEW i \in InService PROVE i + 1 \in InService'
      OBVIOUS
    <3>1. i \in 1..Len(frames) /\ frames[i].level # Software /\ ~frames[i].ended
      BY DEF InService
    <3>2. i + 1 \in 1..Len(frames') /\ frames'[i + 1] = frames[i]
      BY <2>1, <3>1
    <3> QED  BY <3>1, <3>2 DEF InService
  <2>3. \A i \in InService' : i - 1 \in InService /\ i = (i - 1) + 1
    <3> SUFFICES ASSUME NEW i \in InService' PROVE i - 1 \in InService /\ i = (i - 1) + 1
      OBVIOUS
    <3>1. i \in 1..Len(frames') /\ frames'[i].level # Software /\ ~frames'[i].ended
      BY DEF InService
    <3>2. i - 1 \in 1..Len(frames) /\ frames'[i] = frames[i - 1] /\ i = (i - 1) + 1
      BY <1>1, <2>1, <3>1
    <3> QED  BY <3>1, <3>2 DEF InService
  <2> QED  BY <2>2, <2>3
<1>4. \A i \in InService : i \in 1..Len(frames) /\ frames'[i + 1] = frames[i]
  BY <1>1, <1>2, Pushed DEF InService
<1>5. {frames'[i].level : i \in InService'} = {frames[i].level : i \in InService}
  BY <1>3, <1>4
<1>6. NestingByPriority'
  BY <1>3, <1>4 DEF StackInv, HandlersNest, NestingByPriority
<1> QED  BY <1>1, <1>2, <1>5, <1>6, Pushed DEF StackInv, HandlersNest, IsrIsTheStack

\* An acknowledged request pushes the frame of a more urgent handler.
LEMMA RequestPushed ==
    ASSUME TypeOK, StackInv, AcceptRequest
    PROVE  StackInv'
<1> DEFINE f == [level |-> entered'.level, if |-> cpu.if, ended |-> FALSE]
<1>1. pic \in Controller /\ Irq(pic) /\ entered' = Vector(pic)
  BY DEF AcceptRequest, AcceptIntr, TakesIntr, SampledIntr, TypeOK
<1>2. Pending(pic) = {entered'.level} /\ entered'.level \in Level
  BY <1>1, VectorNamesPending
<1>3. pic'.isr = pic.isr \cup {entered'.level}
  BY <1>1, <1>2 DEF AcceptRequest, AcceptIntr, Acknowledged, Controller
<1>4. \A m \in pic.isr : entered'.level < m
  BY <1>1, <1>2, PendingIsUrgent
<1>5. f \in Frame /\ f.level = entered'.level /\ ~f.ended /\ f.level # Software
  BY <1>2 DEF Frame, TypeOK, Processor, Software, Level
<1>6. frames' = <<f>> \o frames /\ frames \in Seq(Frame)
  BY DEF AcceptRequest, Enter, StackInv
<1> HIDE DEF f
<1>7. InService' = {1} \cup {i + 1 : i \in InService} /\ frames'[1] = f
  <2>1. /\ frames'[1] = f
        /\ 1..Len(frames') = {1} \cup {i + 1 : i \in 1..Len(frames)}
        /\ \A i \in 1..Len(frames) : frames'[i + 1] = frames[i]
    BY <1>5, <1>6, Pushed
  <2>2. InService' = {i \in 1..Len(frames') :
                        frames'[i].level # Software /\ ~frames'[i].ended}
    BY DEF InService
  <2> QED  BY <1>5, <2>1, <2>2 DEF InService
<1>8. \A i \in InService : i \in 1..Len(frames) /\ frames'[i + 1] = frames[i]
  BY <1>6, <1>5, Pushed DEF InService
<1>9. pic.isr = {frames[i].level : i \in InService}
  BY DEF StackInv, HandlersNest, IsrIsTheStack
<1>10. {frames'[i].level : i \in InService'} = {f.level} \cup {frames[i].level : i \in InService}
  BY <1>7, <1>8
<1>11. NestingByPriority'
  <2>1. \A i \in InService : f.level < frames[i].level
    BY <1>4, <1>5, <1>9
  <2> QED  BY <1>7, <1>8, <2>1 DEF StackInv, HandlersNest, NestingByPriority
<1> QED  BY <1>3, <1>5, <1>6, <1>9, <1>10, <1>11, Pushed DEF StackInv, HandlersNest, IsrIsTheStack

\* A non-specific EOI of the running handler ends that handler's service.
LEMMA HandlerEnded ==
    ASSUME TypeOK, ValidState(pic), StackInv, EndOfInterrupt
    PROVE  StackInv' /\ CommandSupported(pic, EoiCommand)
<1> DEFINE h == frames[1]
<1>1. frames \in Seq(Frame) /\ frames # <<>> /\ Head(frames) = h /\ h \in Frame
      /\ Len(frames) \in Nat /\ Len(frames) > 0
  BY Popped DEF StackInv, EndOfInterrupt
<1>2. h.level # Software /\ ~h.ended /\ 1 \in InService
  BY <1>1 DEF EndOfInterrupt, InService
<1>3. pic \in Controller /\ pic.isr = {frames[i].level : i \in InService}
  BY DEF TypeOK, StackInv, HandlersNest, IsrIsTheStack
<1>4. h.level \in pic.isr /\ pic.isr \subseteq Level
  BY <1>2, <1>3 DEF Controller, Byte
<1>5. \A i \in InService : i = 1 \/ h.level < frames[i].level
  BY <1>2, <1>1 DEF StackInv, HandlersNest, NestingByPriority, InService
<1>6. LowestBit(pic.isr) = {h.level}
  <2> HIDE DEF h
  <2>1. \A m \in pic.isr : m = h.level \/ h.level < m
    BY <1>3, <1>5 DEF h
  <2> QED  BY <1>4, <2>1 DEF LowestBit, Level
<1>7. Ready(pic)
  BY <1>4 DEF ValidState
<1>8. CommandSupported(pic, EoiCommand) /\ ~IsIcw1(EoiCommand) /\ Eoi(EoiCommand)
  BY <1>7 DEF CommandSupported, IsIcw1, EoiCommand, Eoi
<1>9. pic'.isr = pic.isr \ {h.level}
  <2>1. Ended(pic, EoiCommand) = {h.level}
    BY <1>6 DEF Ended, EoiCommand
  <2> QED  BY <1>3, <1>8, <2>1 DEF EndOfInterrupt, CommandWritten, Controller
<1> DEFINE e == [h EXCEPT !.ended = TRUE]
<1>10. e \in Frame /\ e.ended
  BY <1>1 DEF Frame
<1>11. frames' = <<e>> \o Tail(frames)
  BY <1>1 DEF EndOfInterrupt
<1> HIDE DEF e, h
<1>12. frames' \in Seq(Frame) /\ Len(frames') = Len(frames) /\ frames'[1] = e
       /\ \A i \in 2..Len(frames) : frames'[i] = frames[i]
  <2>1. Tail(frames) \in Seq(Frame) /\ Len(Tail(frames)) = Len(frames) - 1
        /\ \A i \in 1..(Len(frames) - 1) : Tail(frames)[i] = frames[i + 1]
    BY <1>1, Popped
  <2>2. \A i \in 2..Len(frames) : i - 1 \in 1..(Len(frames) - 1) /\ i - 1 + 1 = i
    BY <1>1
  <2> QED  BY <1>1, <1>10, <1>11, <2>1, <2>2, Pushed
<1>13. InService' = InService \ {1}
  BY <1>1, <1>10, <1>12 DEF InService
<1>14. \A i \in InService \ {1} : frames'[i] = frames[i] /\ frames[i].level # h.level
  <2>1. \A i \in InService \ {1} : i \in 2..Len(frames)
    BY <1>1 DEF InService
  <2>2. \A i \in InService \ {1} : frames[i].level \in Level
    BY <1>3, <1>4
  <2> QED  BY <1>4, <1>5, <1>12, <2>1, <2>2 DEF Level
<1>15. {frames'[i].level : i \in InService'} = pic.isr \ {h.level}
  <2>1. \A i \in InService : i = 1 => frames[i].level = h.level
    BY DEF h
  <2> QED  BY <1>3, <1>13, <1>14, <2>1
<1>16. NestingByPriority'
  BY <1>13, <1>14 DEF StackInv, HandlersNest, NestingByPriority
<1> QED  BY <1>8, <1>9, <1>12, <1>15, <1>16 DEF StackInv, HandlersNest, IsrIsTheStack

\* A return pops a frame that is in nobody's service.
LEMMA HandlerReturned ==
    ASSUME StackInv, Return, pic'.isr = pic.isr
    PROVE  StackInv'
<1>1. frames \in Seq(Frame) /\ frames # <<>> /\ frames' = Tail(frames)
  BY DEF StackInv, Return
<1>2. 1 \notin InService
  BY <1>1, Popped DEF Return, InService
<1>3. /\ Len(frames) \in Nat /\ Len(frames') = Len(frames) - 1 /\ frames' \in Seq(Frame)
      /\ \A i \in 1..Len(frames') : frames'[i] = frames[i + 1]
  BY <1>1, Popped
<1>4. InService = {i + 1 : i \in InService'}
  <2>1. \A i \in InService : i - 1 \in 1..Len(frames') /\ i - 1 + 1 = i
    BY <1>2, <1>3 DEF InService
  <2>2. \A i \in InService : i - 1 \in InService'
    BY <1>3, <2>1 DEF InService
  <2>3. \A i \in InService' : i + 1 \in InService
    BY <1>3 DEF InService
  <2> QED  BY <2>1, <2>2, <2>3
<1>5. \A i \in InService' : i \in Nat /\ frames'[i] = frames[i + 1]
  BY <1>3 DEF InService
<1>6. {frames'[i].level : i \in InService'} = {frames[i].level : i \in InService}
  BY <1>4, <1>5
<1>7. NestingByPriority'
  BY <1>4, <1>5 DEF StackInv, HandlersNest, NestingByPriority
<1> QED  BY <1>3, <1>6, <1>7 DEF StackInv, HandlersNest, IsrIsTheStack

\* What else the program does leaves the services alone.
LEMMA ServicesKept ==
    ASSUME TypeOK, ValidState(pic), Configure \/ OtherwiseRuns \/ Request
    PROVE  pic'.isr = pic.isr /\ frames' = frames
<1>1. pic \in Controller
  BY DEF TypeOK
<1>2. \A line, high : LineSet(pic, line, high).isr = pic.isr
  BY <1>1 DEF LineSet, Controller
<1>3. CASE Request
  BY <1>2, <1>3 DEF Request, DeviceLine
<1>4. CASE OtherwiseRuns
  BY <1>2, <1>4 DEF OtherwiseRuns, StayHalted, ExecutePlain, ExecuteInterruptFlag,
     ExecuteLoadSegment, ExecuteHalt, OutputDevice, OffBus
<1>5. CASE Configure
  <2>1. CASE pic.phase = AwaitingIcw1 /\ pic' = CommandWritten(pic, InitCommand)
    <3>1. CommandSupported(pic, InitCommand) /\ IsIcw1(InitCommand)
      BY DEF CommandSupported, InitCommand, IsIcw1
    <3>2. pic.isr = {}
      BY <2>1 DEF ValidState, Ready, AwaitingIcw1, Initialized
    <3> QED  BY <1>5, <2>1, <3>1, <3>2 DEF CommandWritten, Reset, Configure
  <2>2. ASSUME NEW byte \in DataBytes, pic' = DataWritten(pic, byte)
        PROVE  pic'.isr = pic.isr
    BY <1>1, <2>2, DataWrittenLeaves, BytesAssumption
  <2> QED  BY <1>5, <2>1, <2>2 DEF Configure
<1> QED  BY <1>3, <1>4, <1>5

\* Every step of such a program is a step of the board.
LEMMA HandlersRunOnBoard ==
    ASSUME TypeOK, ValidState(pic), StackInv, HandlersNext
    PROVE  Next
<1>1. CASE Request
  BY <1>1 DEF Request, Next, Devices
<1>2. CASE Runs /\ BoundaryEnds
  <2>1. ASSUME AcceptRequest \/ CallSoftware PROVE Boundary
    BY <2>1 DEF AcceptRequest, CallSoftware, Boundary
  <2>2. ASSUME EndOfInterrupt PROVE Boundary
    <3>1. CommandSupported(pic, EoiCommand) /\ EoiCommand \in CommandBytes
      BY <2>2, HandlerEnded, HandlersAssumption
    <3>2. OutputPic
      BY <2>2, <3>1 DEF EndOfInterrupt, OutputPic
    <3> QED  BY <3>2 DEF Boundary
  <2>3. ASSUME Configure PROVE Boundary
    <3>1. CommandSupported(pic, InitCommand) /\ InitCommand \in CommandBytes
      BY HandlersAssumption DEF CommandSupported, InitCommand, IsIcw1
    <3>2. OutputPic
      BY <2>3, <3>1 DEF Configure, OutputPic
    <3> QED  BY <3>2 DEF Boundary
  <2>4. ASSUME Return PROVE Boundary
    <3>1. Head(frames).if \in BOOLEAN
      BY <2>4, Popped DEF Return, StackInv, Frame
    <3> QED  BY <2>4, <3>1 DEF Return, Boundary
  <2>5. ASSUME OtherwiseRuns PROVE Boundary
    BY <2>5 DEF OtherwiseRuns, Boundary
  <2>6. Boundary
    BY <1>2, <2>1, <2>2, <2>3, <2>4, <2>5 DEF Runs
  <2> QED  BY <1>2, <2>6 DEF Next, CpuBoundary
<1> QED  BY <1>1, <1>2 DEF HandlersNext

LEMMA StackStep ==
    ASSUME TypeOK, ValidState(pic), StackInv, [HandlersNext]_handlerVars
    PROVE  StackInv'
<1>1. CASE Runs
  <2>1. CASE CallSoftware
    BY <2>1, SoftwarePushed DEF CallSoftware, ExecuteSoftwareEntry, OffBus
  <2>2. CASE Return
    BY <2>2, HandlerReturned DEF Return, ExecuteLoadFlags, OffBus
  <2>3. CASE Configure \/ OtherwiseRuns
    BY <2>3, ServicesKept, StackKept
  <2> QED  BY <1>1, <2>1, <2>2, <2>3, RequestPushed, HandlerEnded DEF Runs
<1>2. CASE Request
  BY <1>2, ServicesKept, StackKept
<1>3. CASE UNCHANGED handlerVars
  BY <1>3, StackKept DEF handlerVars, boardVars
<1> QED  BY <1>1, <1>2, <1>3 DEF HandlersNext

\* Under well-formed handlers the board keeps all it promises, and the in-service register is
\* the program's stack: an EOI ends the handler that issues it, however they nest.
THEOREM HandlersAreNested == HandlersSpec => [](BoardInv /\ HandlersNest)
<1> DEFINE All == TypeOK /\ BoardInv /\ StackInv
<1>1. HandlersInit => All
  <2> SUFFICES ASSUME HandlersInit
               PROVE  All
    OBVIOUS
  <2>1. TypeOK /\ BoardInv
    BY BoardInitially DEF HandlersInit
  <2>2. frames = <<>> /\ pic.isr = {}
    BY DEF HandlersInit, Init, Initialize
  <2>3. InService = {}
    BY <2>2 DEF InService
  <2> QED  BY <2>1, <2>2, <2>3 DEF StackInv, HandlersNest, IsrIsTheStack, NestingByPriority
<1>2. All /\ [HandlersNext]_handlerVars => All'
  <2> SUFFICES ASSUME All, [HandlersNext]_handlerVars
               PROVE  All'
    OBVIOUS
  <2>1. ValidState(pic)
    BY DEF BoardInv
  <2>2. [Next]_vars
    BY <2>1, HandlersRunOnBoard DEF handlerVars, boardVars, historyVars, vars
  <2> QED  BY <2>1, <2>2, BoardTypeStep, BoardInvStep, StackStep
<1>3. All => BoardInv /\ HandlersNest
  BY DEF StackInv
<1> QED  BY <1>1, <1>2, <1>3, PTL DEF HandlersSpec
=============================================================================
