----------------------------- MODULE OpcodeDecoding -----------------------------
(***************************************************************************)
(* Encodings of a CPU chapter and the decoder generated from them.  An     *)
(* author declares prefix pages and instruction families in any order      *)
(* (literate/compile.ts, families.ts, opcode-pages.ts); patterns expand to *)
(* opcodes (opcodes.ts); the chapter is checked as a whole and bound with  *)
(* a machine's additional handlers (generate-opcodes.ts); and the decoder  *)
(* reads an instruction byte by byte.                                      *)
(*                                                                         *)
(* A byte has Bits bits.  A page's key and an opcode on a page are         *)
(* numbers in that base, prefixes first.                                   *)
(***************************************************************************)
EXTENDS Integers, Sequences, FiniteSets, SequencesExt

CONSTANTS
    Bits,
    Pages,        \* page declarations: [name, prefix, on, operands, fetch]
    Forms,        \* encodings: [family, pattern, page, choices, view, except]
    Additional,   \* handlers a machine may add: pairs of a page's name and an opcode
    MaxDeclarations

Size == 2^Bits
Bytes == 0 .. Size - 1
Root == "root"

VARIABLES
    pages,      \* accepted page layouts, with their keys
    entries,    \* opcodes bound to instruction bodies
    declared,   \* declarations made
    phase,      \* "authoring", "bound", "reading", "decoded" or "refused"
    added,      \* the machine's additional handlers
    reading     \* the bytes read so far and what came of them
vars == <<pages, entries, declared, phase, added, reading>>

----------------------------------------------------------------------------
(* Patterns: a sequence of "0", "1", "x" and the letter "r" of one field.  *)

Fixed(pattern, byte) == \A i \in 1 .. Bits :
    pattern[i] \in {"0", "1"} => ((byte \div 2^(Bits - i)) % 2 = 1) = (pattern[i] = "1")
\* Field bits are read most significant first.
Code(pattern, byte) ==
    LET places == SelectSeq([i \in 1 .. Bits |-> i], LAMBDA i : pattern[i] = "r")
    IN  FoldLeft(LAMBDA code, i : (2 * code) + ((byte \div 2^(Bits - i)) % 2), 0, places)
FieldBits(pattern) == Cardinality({i \in 1 .. Bits : pattern[i] = "r"})
\* opcodeFamily: each encoding of the pattern with the choice its field selects.
Choice(form, byte) == IF form.choices = <<>> THEN "none" ELSE form.choices[Code(form.pattern, byte) + 1]
Fits(form) == IF form.choices = <<>> THEN FieldBits(form.pattern) = 0
              ELSE Len(form.choices) = 2^FieldBits(form.pattern)
Encodings(form) == {byte \in Bytes : Fixed(form.pattern, byte)}
\* bindSelection: unsupported choices, and registers where an address is wanted, bind nothing.
Bindable(form, choice) ==
    /\ choice # "unsupported"
    /\ form.view = "address" => choice = "memory"

----------------------------------------------------------------------------
(* Declarations.                                                           *)

Page(name) == CHOOSE p \in Range(pages) : p.name = name
Known(name) == \E p \in Range(pages) : p.name = name
KeyOf(name) == IF name = Root THEN 0 ELSE Page(name).key
Opcode(name, byte) == KeyOf(name) * Size + byte

\* opcodePageLayouts: a nested page needs an earlier root page that captures nothing.
Nests(p) == p.on # Root => Known(p.on) /\ Page(p.on).on = Root /\ Page(p.on).operands = 0
DeclarePage == \E p \in Pages :
    /\ phase = "authoring" /\ declared < MaxDeclarations
    /\ p.prefix \in 1 .. Size - 1 /\ ~Known(p.name) /\ Nests(p)
    /\ LET key == KeyOf(p.on) * Size + p.prefix
       IN  /\ \A q \in Range(pages) : q.key # key
           /\ pages' = Append(pages, [name |-> p.name, prefix |-> p.prefix, on |-> p.on,
                                      operands |-> p.operands, fetch |-> p.fetch, key |-> key])
    /\ declared' = declared + 1
    /\ UNCHANGED <<entries, phase, added, reading>>

\* chapterFamily: every selection that binds takes its opcode, which must be free; one body
\* is shared by the encodings that make the same selection.
Free(opcodes) == \A e \in entries : e.opcode \notin opcodes
DeclareFamily == \E form \in Forms :
    LET taken == {b \in Encodings(form) : b \notin form.except /\ Bindable(form, Choice(form, b))}
        opcodes == {Opcode(form.page, b) : b \in taken}
    IN  /\ phase = "authoring" /\ declared < MaxDeclarations
        /\ form.page = Root \/ Known(form.page)
        /\ Fits(form) /\ form.except \subseteq Encodings(form) /\ taken # {}
        /\ Free(opcodes)
        /\ entries' = entries \cup {[opcode |-> Opcode(form.page, b), family |-> form.family,
                                     choice |-> Choice(form, b)] : b \in taken}
        /\ declared' = declared + 1
        /\ UNCHANGED <<pages, phase, added, reading>>

\* The end of the chapter, the generator's own checks, and the binding of a machine's handlers.
\* A bug: an instruction may have a prefix for its opcode.
PrefixesNotChecked == TRUE
PrefixesFree == \A p \in Range(pages) : \A e \in entries : e.opcode # p.key
PagesDeclared == \A e \in entries : e.opcode >= Size =>
    \E p \in Range(pages) : p.key = e.opcode \div Size
\* opcodeTable and opcodePages refuse a second handler of an opcode, or one over a nested prefix.
AdditionalFree(extra) ==
    /\ \A a \in extra : \A e \in entries : e.opcode # Opcode(a[1], a[2])
    /\ \A a \in extra : \A p \in Range(pages) : p.on = a[1] => p.prefix # a[2]
Bind == \E extra \in SUBSET Additional :
    /\ phase = "authoring" /\ entries # {}
    /\ \A a \in extra : Known(a[1])
    /\ phase' = IF PrefixesFree /\ PagesDeclared /\ AdditionalFree(extra) THEN "bound" ELSE "refused"
    /\ added' = extra
    /\ UNCHANGED <<pages, entries, declared, reading>>

----------------------------------------------------------------------------
(* opcodeDecoder.                                                          *)

NotReading == [bytes |-> <<>>, page |-> Root, captures |-> <<>>, fetches |-> 0, handler |-> <<>>]
Child(name, byte) == {p \in Range(pages) : p.on = name /\ p.prefix = byte}
Handler(name, byte) ==
    LET own == {e \in entries : e.opcode = Opcode(name, byte)}
    IN  IF own # {} THEN LET e == CHOOSE e \in own : TRUE IN <<e.family, e.choice>>
        ELSE IF <<name, byte>> \in added THEN <<"additional", "none">>
        ELSE <<"unsupported", "none">>

\* Each page's bytes: its captured operands, then its opcode, which may be a nested prefix.
WantsOperand == reading.page # Root /\ Len(reading.captures) < Page(reading.page).operands
ReadOperand == \E byte \in Bytes :
    /\ phase = "reading" /\ WantsOperand
    /\ reading' = [reading EXCEPT !.bytes = Append(@, byte), !.captures = Append(@, byte)]
    /\ UNCHANGED <<pages, entries, declared, phase, added>>
\* The opcode byte counts as an opcode fetch when its page says so; the first one always does.
Counts == reading.page = Root \/ Page(reading.page).fetch
ReadOpcode == \E byte \in Bytes :
    LET fetched == [reading EXCEPT !.bytes = Append(@, byte), !.fetches = @ + (IF Counts THEN 1 ELSE 0)]
    IN  /\ phase = "bound" \/ (phase = "reading" /\ ~WantsOperand)
        /\ IF Child(reading.page, byte) # {}
           THEN /\ reading' = [fetched EXCEPT !.page = (CHOOSE p \in Child(reading.page, byte) : TRUE).name,
                                              !.captures = <<>>]
                /\ phase' = "reading"
           ELSE /\ reading' = [fetched EXCEPT !.handler = Handler(reading.page, byte)]
                /\ phase' = "decoded"
        /\ UNCHANGED <<pages, entries, declared, added>>

\* The next instruction, or another chapter.
Again == phase = "decoded" /\ phase' = "bound" /\ reading' = NotReading /\ UNCHANGED <<pages, entries, declared, added>>
Start(isNew) == isNew /\ phase' = "authoring" /\ pages' = <<>> /\ entries' = {} /\ declared' = 0
               /\ added' = {} /\ reading' = NotReading
Another == Start(phase \in {"refused", "decoded"} \/ (phase = "authoring" /\ declared = MaxDeclarations))
Init == phase = "authoring" /\ pages = <<>> /\ entries = {} /\ declared = 0 /\ added = {} /\ reading = NotReading
Next == DeclarePage \/ DeclareFamily \/ Bind \/ ReadOperand \/ ReadOpcode \/ Again \/ Another
Spec == Init /\ [][Next]_vars

----------------------------------------------------------------------------
(* Properties.                                                             *)

\* Type correctness: keys and opcodes fit three bytes, and a decoder reads at most two
\* prefixes before an opcode.
DecodingTypeOK ==
    /\ phase \in {"authoring", "bound", "reading", "decoded", "refused"}
    /\ \A p \in Range(pages) : p.key \in 1 .. Size^2 - 1
    /\ \A e \in entries : e.opcode \in 0 .. Size^3 - 1
    /\ added \subseteq Additional /\ Len(reading.bytes) <= 4

\* The bytes that select an instruction: everything read but the captured operands.
Path == SelectSeq([i \in DOMAIN reading.bytes |-> i],
                  LAMBDA i : i <= Len(reading.bytes) - Len(reading.captures) - 1 \/ i = Len(reading.bytes))
Selected == FoldLeft(LAMBDA n, i : n * Size + reading.bytes[i], 0, Path)

\* generate-opcodes.ts: the decoder runs the body that owns the bytes read, whatever pages
\* nest and whatever a machine adds, and nothing when nobody owns them.
DecodedIsOwned == phase = "decoded" =>
    IF \E e \in entries : e.opcode = Selected
    THEN \E e \in entries : e.opcode = Selected /\ reading.handler = <<e.family, e.choice>>
    ELSE reading.handler \in {<<"unsupported", "none">>, <<"additional", "none">>}

\* families.ts and opcode-pages.ts: every encoding an author declared can be read.  Following
\* its bytes from the root, prefix by prefix, leads to the page it was declared on, and there
\* its last byte leads nowhere else; no other body has it.
Digits(opcode) == SelectSeq(<<opcode \div Size^2, (opcode \div Size) % Size>>, LAMBDA d : d # 0)
Follow(opcode) ==
    FoldLeft(LAMBDA names, d : {p.name : p \in UNION {Child(n, d) : n \in names}}, {Root}, Digits(opcode))
EveryEncodingReadable == phase \in {"bound", "decoded"} =>
    \A e \in entries :
        /\ \E name \in Follow(e.opcode) : Opcode(name, e.opcode % Size) = e.opcode
        /\ \A name \in Follow(e.opcode) : Child(name, e.opcode % Size) = {}
        /\ \A f \in entries : f.opcode = e.opcode => f = e

\* The captures handed to a body are the bytes its page reads before the opcode, and those
\* bytes alone are not counted among the opcode fetches of a page that reads its opcode.
CapturesAndFetches == phase = "decoded" =>
    LET data == IF reading.page = Root THEN 0 ELSE Page(reading.page).operands
        reads == IF reading.page = Root \/ Page(reading.page).fetch THEN 0 ELSE 1
    IN  /\ reading.captures = SubSeq(reading.bytes, Len(reading.bytes) - data, Len(reading.bytes) - 1)
        /\ reading.fetches + data + reads = Len(reading.bytes)

\* opcodes.ts: the body an encoding runs was bound to the choice its field bits name, most
\* significant first, on the page it was declared for.
ChoiceIsTheField == \A e \in entries : \E form \in Forms :
    /\ e.family = form.family
    /\ form.choices # <<>> =>
         \E b \in Bytes : /\ e.opcode % Size = b
                          /\ \A i \in 1 .. Bits : form.pattern[i] = "r" =>
                               LET place == Cardinality({j \in i + 1 .. Bits : form.pattern[j] = "r"})
                                   index == CHOOSE k \in 0 .. Len(form.choices) - 1 :
                                              form.choices[k + 1] = e.choice
                               IN  (index \div 2^place) % 2 = (b \div 2^(Bits - i)) % 2

\* All of these at once: the generated decoder reads what the chapters declared.
DecodingIsDeclared ==
    DecodingTypeOK /\ DecodedIsOwned /\ EveryEncodingReadable /\ CapturesAndFetches /\ ChoiceIsTheField
=================================================================================
