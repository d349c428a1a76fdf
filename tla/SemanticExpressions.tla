-------------------------- MODULE SemanticExpressions --------------------------
(***************************************************************************)
(* Expressions of the instruction language (cpus/semantics): what          *)
(* validate.ts accepts, what generate-expressions.ts emits, and what the   *)
(* emitted JavaScript computes, against the unsigned bit vector that an    *)
(* expression denotes.  JavaScript's bitwise operators truncate to a       *)
(* signed host word as wide as the widest value, so a missing >>> 0, mask  *)
(* or width check shows only for particular operands.                      *)
(*                                                                         *)
(* Widths are scaled: a byte has ByteWidth bits, a word twice as many, a   *)
(* long and the host word four times, and the two narrow widths (3 and 14) *)
(* are one bit short of a byte and of a word.                              *)
(***************************************************************************)
EXTENDS Integers, Sequences, FiniteSets, Bitwise, Folds

CONSTANTS
    ByteWidth,
    WordSamples, LongSamples,   \* the values enumerated, among them both ends and the sign bit
    Inputs,        \* captured before the first expression: numbers, then a flag
    MaxCaptures    \* bound: captures in a scope

ASSUME WidthAssumption == ByteWidth \in Nat \ {0, 1} /\ ByteWidth % 2 = 0

Byte == ByteWidth
Word == 2 * ByteWidth
Long == 4 * ByteWidth
Widths == {Byte - 1, Byte, Word - 1, Word, Long}
\* The values a run enumerates: all of the shortest widths, samples of the others.
Samples(width) ==
    IF width = Long THEN LongSamples ELSE IF width = Word THEN WordSamples ELSE 0 .. 2^width - 1

VARIABLE scope     \* captured values in order: type, denoted value, emitted value
vars == <<scope>>

Number(width, meaning, code) == [type |-> width, meaning |-> meaning, code |-> code]
Flag(meaning, code) == [type |-> 0, meaning |-> meaning, code |-> code]   \* 0 is the type "flag"
Numbers == {i \in DOMAIN scope : scope[i].type # 0}
Flags == DOMAIN scope \ Numbers

----------------------------------------------------------------------------
(* The host's operators.                                                   *)

Host(n) == n % 2^Long                         \* n >>> 0
Signed(n) == IF Host(n) >= 2^(Long - 1) THEN Host(n) - 2^Long ELSE Host(n)   \* n | 0
BitAnd(a, b) == Signed(Host(a) & Host(b))
BitOr(a, b) == Signed(Host(a) | Host(b))
BitXor(a, b) == Signed(Host(a) ^^ Host(b))
BitNot(a) == -1 - Signed(a)
ShiftLeft(a, n) == Signed(Host(a) * 2^(n % Long))
ShiftRight(a, n) == Host(a) \div 2^(n % Long)
Mask(width) == 2^width - 1
Unsigned(n, width) == IF width = Long THEN Host(n) ELSE n
\* The emitted code read as a two's complement integer.
Integer(n, width, signed) ==
    IF ~signed THEN n
    ELSE IF width = Long THEN Signed(n)
    ELSE BitXor(n, 2^(width - 1)) - 2^(width - 1)
One(flag) == IF flag THEN 1 ELSE 0

----------------------------------------------------------------------------
(* alu.ts: binary addition and subtraction, with their facts.              *)

Nibble == 2^(Byte \div 2) - 1
Add(width, left, right, incoming) ==
    LET sum == left + right + incoming
        result == Host(BitAnd(sum, Mask(width)))
    IN  [result |-> result, carry |-> sum > Mask(width),
         half |-> BitAnd(left, Nibble) + BitAnd(right, Nibble) + incoming > Nibble,
         overflow |-> BitAnd(BitAnd(BitNot(BitXor(left, right)), BitXor(left, result)), 2^(width - 1)) # 0]
HalfBorrow(left, right, incoming) == BitAnd(left, Nibble) < BitAnd(right, Nibble) + incoming
Subtract(width, left, right, incoming) ==
    LET difference == left - right - incoming
        result == Host(BitAnd(difference, Mask(width)))
    IN  [result |-> result, carry |-> difference < 0,
         half |-> HalfBorrow(left, right, incoming),
         overflow |-> BitAnd(BitAnd(BitXor(left, right), BitXor(left, result)), 2^(width - 1)) # 0]
Facts(operation, width, left, right, incoming) ==
    IF operation = "add" THEN Add(width, left, right, incoming)
    ELSE Subtract(width, left, right, incoming)
ShiftedLeft(width, value, incoming) == Host(BitAnd(BitOr(ShiftLeft(value, 1), incoming), Mask(width)))
ShiftedRight(width, value, incoming) ==
    Host(BitOr(ShiftRight(value, 1), ShiftLeft(incoming, width - 1)))

----------------------------------------------------------------------------
(* Bit vectors.                                                            *)

BitOf(n, i) == (n \div 2^i) % 2 = 1
Field(n, high, low) == (n \div 2^low) % 2^(high - low + 1)
Sum(width, on(_)) ==
    LET sum[i \in 0 .. width] ==
          IF i = 0 THEN 0 ELSE sum[i - 1] + (IF on(i - 1) THEN 2^(i - 1) ELSE 0)
    IN  sum[width]
TwosComplement(n, width) == IF BitOf(n, width - 1) THEN n - 2^width ELSE n
Low(n) == n % 2^(Byte \div 2)
Fits(n, width) == n \in -(2^(width - 1)) .. 2^(width - 1) - 1

----------------------------------------------------------------------------
(* What the validator lets through.                                        *)

Arithmetic(width) == width \in {Byte, Word, Long}
Matching(a, b) == a.type = b.type
Widens(from, to) == to > from
Narrows(from, to) == to < from
Range(high, low, from) ==
    0 <= low /\ low <= high /\ high < from /\ high - low + 1 \in Widths
Doubles(width) == width \in {Byte, Word}
ShiftCount(count, width) == count \in 0 .. width

Capture(v) == scope' = Append(scope, v)

----------------------------------------------------------------------------
(* Captures of each expression.                                            *)

Init == scope = <<>>

\* A literal, an instruction input or a value a statement read.
CaptureInput ==
    \/ /\ Len(scope) # Inputs - 1
       /\ \E width \in Widths : \E n \in Samples(width) : Capture(Number(width, n, n))
    \/ /\ Len(scope) = Inputs - 1
       /\ \E b \in BOOLEAN : Capture(Flag(b, b))

CaptureSelect == \E c \in Flags : \E y, n \in Numbers :
    /\ Matching(scope[y], scope[n])
    /\ Capture(Number(scope[y].type,
                      IF scope[c].meaning THEN scope[y].meaning ELSE scope[n].meaning,
                      IF scope[c].code THEN scope[y].code ELSE scope[n].code))

\* pack, most significant bit first: here the bits of a value above one flag.
CapturePack == \E i \in Numbers : \E c \in Flags :
    LET v == scope[i]
        tested(b) == IF b = 0 THEN scope[c].code ELSE BitAnd(v.code, 2^b) # 0
        weights == [k \in 0 .. v.type - 1 |-> IF tested(v.type - k - 1) THEN 2^(v.type - k - 1) ELSE 0]
    IN  Capture(Number(v.type, 2 * (v.meaning \div 2) + One(scope[c].meaning),
                       MapThenFoldSet(+, 0, LAMBDA k : weights[k], LAMBDA K : CHOOSE k \in K : TRUE, DOMAIN weights)))

CaptureBytes == \E i \in Numbers :
    LET v == scope[i]
    IN  \/ /\ v.type = Word
           /\ Capture(Number(Byte, Field(v.meaning, Word - 1, Byte), ShiftRight(v.code, Byte)))
        \/ /\ v.type >= Byte
           /\ Capture(Number(Byte, Field(v.meaning, Byte - 1, 0), BitAnd(v.code, Mask(Byte))))

FieldCode(v, high, low) ==
    IF high - low + 1 = Long THEN ShiftRight(v.code, low)
    ELSE BitAnd(ShiftRight(v.code, low), Mask(high - low + 1))
CaptureBits == \E i \in Numbers : \E high, low \in 0 .. Long - 1 :
    /\ Range(high, low, scope[i].type)
    /\ Capture(Number(high - low + 1, Field(scope[i].meaning, high, low),
                      FieldCode(scope[i], high, low)))

CaptureWithBits == \E i, r \in Numbers : \E high, low \in 0 .. Long - 1 :
    LET v == scope[i]
        fieldMask == Mask(high - low + 1) * 2^low
        kept == 2^v.type - 1 - fieldMask
        code == BitOr(BitAnd(v.code, kept), ShiftLeft(scope[r].code, low))
    IN  /\ Range(high, low, v.type)
        /\ scope[r].type = high - low + 1
        /\ Capture(Number(v.type,
             Sum(v.type, LAMBDA b : IF b \in low .. high THEN BitOf(scope[r].meaning, b - low)
                                    ELSE BitOf(v.meaning, b)),
             Unsigned(code, v.type)))

CaptureWidth == \E i \in Numbers : \E to \in Widths :
    LET v == scope[i]
        signed == Integer(v.code, v.type, TRUE)
    IN  \/ /\ Widens(v.type, to)
           /\ \/ Capture(Number(to, v.meaning, v.code))
              \/ Capture(Number(to, TwosComplement(v.meaning, v.type) % 2^to,
                                IF to = Long THEN Host(signed) ELSE BitAnd(signed, 2^to - 1)))
        \/ /\ Narrows(v.type, to)
           /\ Capture(Number(to, v.meaning % 2^to, BitAnd(v.code, Mask(to))))

CaptureShift == \E i \in Numbers : \E c \in Flags :
    LET v == scope[i]
        width == v.type
        in == One(scope[c].code)
    IN  /\ Arithmetic(width)
        /\ \/ Capture(Number(width, (2 * v.meaning + One(scope[c].meaning)) % 2^width,
                             ShiftedLeft(width, v.code, in)))
           \/ Capture(Number(width, v.meaning \div 2 + One(scope[c].meaning) * 2^(width - 1),
                             ShiftedRight(width, v.code, in)))

\* A bug: a shift by the host's width is left to the host, which shifts by nothing.
ShiftedByHost(v, right, count) ==
    IF right THEN ShiftRight(v.code, count)
    ELSE IF v.type = Long THEN Host(ShiftLeft(v.code, count))
    ELSE BitAnd(ShiftLeft(v.code, count), 2^v.type - 1)
ShiftCode(v, right, count) ==
    IF count = Long THEN 0 ELSE ShiftedByHost(v, right, count)
CaptureShiftBits == \E i \in Numbers : \E right \in BOOLEAN : \E count \in 0 .. Long :
    LET v == scope[i]
    IN  /\ Arithmetic(v.type) /\ ShiftCount(count, v.type)
        /\ Capture(Number(v.type,
             IF right THEN v.meaning \div 2^count ELSE (v.meaning * 2^count) % 2^v.type,
             ShiftCode(v, right, count)))

CaptureLogical == \E l, r \in Numbers :
    LET width == scope[l].type
        pair(op(_, _)) == Sum(width, LAMBDA i : op(BitOf(scope[l].meaning, i), BitOf(scope[r].meaning, i)))
    IN  /\ Matching(scope[l], scope[r])
        /\ \/ Capture(Number(width, pair(LAMBDA a, b : a /\ b),
                             Unsigned(BitAnd(scope[l].code, scope[r].code), width)))
           \/ Capture(Number(width, pair(LAMBDA a, b : a \/ b),
                             Unsigned(BitOr(scope[l].code, scope[r].code), width)))
           \/ Capture(Number(width, pair(LAMBDA a, b : a # b),
                             Unsigned(BitXor(scope[l].code, scope[r].code), width)))

CaptureConcat == \E h, l \in Numbers :
    LET width == scope[h].type
    IN  /\ Matching(scope[h], scope[l]) /\ Doubles(width)
        /\ Capture(Number(2 * width, scope[h].meaning * 2^width + scope[l].meaning,
             IF width = Byte THEN BitOr(ShiftLeft(scope[h].code, Byte), scope[l].code)
             ELSE scope[h].code * 2^Word + scope[l].code))

CaptureProduct == \E l, r \in Numbers : \E signed \in BOOLEAN :
    LET width == scope[l].type
        product == Integer(scope[l].code, width, signed) * Integer(scope[r].code, width, signed)
        value(n) == IF signed THEN TwosComplement(n, width) ELSE n
    IN  /\ Matching(scope[l], scope[r]) /\ Doubles(width)
        /\ Capture(Number(2 * width, (value(scope[l].meaning) * value(scope[r].meaning)) % 2^(2 * width),
             IF ~signed THEN product
             ELSE IF 2 * width = Long THEN Host(product) ELSE BitAnd(product, Mask(Word))))

CaptureArithmetic == \E l, r \in Numbers : \E c \in Flags :
    LET width == scope[l].type
        in == One(scope[c].meaning)
    IN  /\ Matching(scope[l], scope[r]) /\ Arithmetic(width)
        /\ \/ Capture(Number(width, (scope[l].meaning + scope[r].meaning + in) % 2^width,
                Facts("add", width, scope[l].code, scope[r].code, One(scope[c].code)).result))
           \/ Capture(Number(width, (scope[l].meaning - scope[r].meaning - in) % 2^width,
                Facts("subtract", width, scope[l].code, scope[r].code, One(scope[c].code)).result))

CaptureBoolean == \E a, b \in Flags :
    \/ Capture(Flag(~scope[a].meaning, ~scope[a].code))
    \/ Capture(Flag(scope[a].meaning # scope[b].meaning, scope[a].code # scope[b].code))
    \/ Capture(Flag(scope[a].meaning /\ scope[b].meaning, scope[a].code /\ scope[b].code))
    \/ Capture(Flag(scope[a].meaning \/ scope[b].meaning, scope[a].code \/ scope[b].code))

\* evenParity8 counts the bits of a byte.
Even(n) == Cardinality({i \in 0 .. Byte - 1 : BitAnd(ShiftRight(n, i), 1) = 1}) % 2 = 0
CaptureBitTest == \E i \in Numbers :
    LET v == scope[i]
        tested(b) == Flag(BitOf(v.meaning, b), BitAnd(v.code, 2^b) # 0)
    IN  \/ Capture(tested(v.type - 1)) \/ Capture(tested(0))
        \/ \E position \in 0 .. v.type - 1 : Capture(tested(position))
        \/ Capture(Flag(v.meaning = 0, v.code = 0))
        \/ /\ v.type = Byte
           /\ Capture(Flag(Sum(Byte, LAMBDA b : BitOf(v.meaning, b)) \in
                             {n \in 0 .. 2^Byte - 1 : Cardinality({b \in 0 .. Byte - 1 : BitOf(n, b)}) % 2 = 0},
                           Even(v.code)))

CaptureComparison == \E l, r \in Numbers : \E signed \in BOOLEAN :
    LET a == scope[l]  b == scope[r]  width == a.type
        value(n) == IF signed THEN TwosComplement(n, width) ELSE n
    IN  /\ Matching(a, b)
        /\ \/ Capture(Flag(a.meaning = b.meaning, a.code = b.code))
           \/ Capture(Flag(value(a.meaning) < value(b.meaning),
                           Integer(a.code, width, signed) < Integer(b.code, width, signed)))

CaptureFact == \E l, r \in Numbers : \E c \in Flags :
    LET a == scope[l].meaning  b == scope[r].meaning  in == One(scope[c].meaning)
        width == scope[l].type
        sum == TwosComplement(a, width) + TwosComplement(b, width) + in
        difference == TwosComplement(a, width) - TwosComplement(b, width) - in
        add == Facts("add", width, scope[l].code, scope[r].code, One(scope[c].code))
        subtract == Facts("subtract", width, scope[l].code, scope[r].code, One(scope[c].code))
    IN  /\ Matching(scope[l], scope[r]) /\ Arithmetic(width)
        /\ \/ Capture(Flag(a + b + in >= 2^width, add.carry))
           \/ Capture(Flag(Low(a) + Low(b) + in >= 2^(Byte \div 2), add.half))
           \/ Capture(Flag(~Fits(sum, width), add.overflow))
           \/ Capture(Flag(a < b + in, subtract.carry))
           \/ Capture(Flag(Low(a) < Low(b) + in, subtract.half))
           \/ Capture(Flag(~Fits(difference, width), subtract.overflow))

\* A physical address: the base shifted, plus the offset, wrapped to the bus.
AddressBits == Word + 1
CaptureAddress == \E b, o \in Numbers : \E shift \in 0 .. Word :
    LET at(base, offset) == (base * 2^shift + offset) % 2^AddressBits
    IN  /\ scope[b].type = Word /\ scope[o].type = Word
        /\ Capture(Number(Long, at(scope[b].meaning, scope[o].meaning), at(scope[b].code, scope[o].code)))

CaptureNumber ==
    \/ CaptureSelect \/ CapturePack \/ CaptureBytes \/ CaptureBits \/ CaptureWithBits
    \/ CaptureWidth \/ CaptureShift \/ CaptureShiftBits \/ CaptureLogical \/ CaptureConcat
    \/ CaptureProduct \/ CaptureArithmetic
CaptureFlag == CaptureBoolean \/ CaptureBitTest \/ CaptureComparison \/ CaptureFact
\* Inputs come first, and the scope ends with its instruction.
CaptureExpression == CaptureNumber \/ CaptureFlag \/ CaptureAddress
NextInstruction == Len(scope) = MaxCaptures /\ scope' = <<>>
Next ==
    \/ Len(scope) < Inputs /\ CaptureInput
    \/ Len(scope) \in Inputs .. MaxCaptures - 1 /\ CaptureExpression
    \/ NextInstruction
Spec == Init /\ [][Next]_vars

----------------------------------------------------------------------------
(* Properties.                                                             *)

\* generate-expressions.ts and alu.ts: what the emitted JavaScript computes is what the
\* expression denotes.  A number is its bit vector, with no stray high bit or sign, also where
\* an intermediate result is negative or needs the host's sign bit; a carry, borrow, overflow,
\* parity or comparison is the one the operands have as integers, signed or unsigned.
EmittedIsDenoted ==
    /\ \A i \in Numbers : /\ scope[i].code = scope[i].meaning
                          /\ scope[i].type \in Widths /\ scope[i].code \in 0 .. 2^scope[i].type - 1
    /\ \A i \in Flags : scope[i].code \in BOOLEAN /\ scope[i].code = scope[i].meaning
================================================================================
