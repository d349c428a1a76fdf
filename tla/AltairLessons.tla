----------------------------- MODULE AltairLessons -----------------------------
(***************************************************************************)
(* The 8080 lessons: the Altair panel's programs (altair-program.ts, run   *)
(* by altair-program-explorer.ts) and the register explorer's              *)
(* (register-programs.ts, register-explorer.ts).  A lesson is a program in *)
(* RAM, the table of instructions the page describes, the byte devices and *)
(* what the learner may do between two instructions: step, run, stop, send *)
(* a byte, examine, deposit, edit a cell.                                  *)
(***************************************************************************)
EXTENDS Integers, Sequences, FiniteSets, TLC

CONSTANTS
    MaxEdits,     \* deposits and examinations that stray from the reference card
    LineEnds,     \* after how many bytes of a line the learner may send RETURN, the last must
    EditBytes     \* other bytes the learner may enter

VARIABLES
    lesson,       \* the page's lesson
    regs, ram,    \* the 8080; RAM holds zero wherever it was never written
    pending,      \* the input device's byte, or Empty
    running,      \* RUN was pressed and the program has not stopped
    typed, printed,   \* bytes received and sent by the program (history)
    edits         \* strays so far (history)

lessons == <<lesson, regs, ram, pending, running, typed, printed, edits>>
Empty == -1

----------------------------------------------------------------------------
(* The instructions the lessons use.                                       *)

\* Each described instruction: its opcode, its length and the page's action; those of the
\* register explorer and those only the panel's programs use.
RegisterInstructions ==
    [lda |-> <<58, 3, "read">>, sta |-> <<50, 3, "write">>, adi |-> <<198, 2, "add">>,
     sui |-> <<214, 2, "subtract">>, cpi |-> <<254, 2, "compare">>, jmp |-> <<195, 3, "jump">>,
     jnz |-> <<194, 3, "jump">>, jz |-> <<202, 3, "jump">>, jnc |-> <<210, 3, "jump">>,
     mvia |-> <<62, 2, "read">>, mvib |-> <<6, 2, "read">>]
PanelInstructions ==
    [out |-> <<211, 2, "output">>, in |-> <<219, 2, "input">>, ready |-> <<219, 2, "input">>,
     lxi |-> <<33, 3, "read">>, lxisp |-> <<49, 3, "read">>, load |-> <<126, 1, "read">>,
     store |-> <<119, 1, "write">>, inx |-> <<35, 1, "add">>, dcr |-> <<5, 1, "subtract">>,
     count |-> <<120, 1, "read">>, push |-> <<229, 1, "write">>, pop |-> <<225, 1, "read">>,
     call |-> <<205, 3, "jump">>, ret |-> <<201, 1, "jump">>, hlt |-> <<118, 1, "halt">>]
Described == RegisterInstructions @@ PanelInstructions
Mnemonics == DOMAIN Described

\* <<a1, m1, a2, m2, ...>>: an instruction m of the table at each address a.
Table(listing) == [address \in {listing[2 * i - 1] : i \in 1..(Len(listing) \div 2)} |->
                     listing[2 * (CHOOSE i \in 1..(Len(listing) \div 2) : listing[2 * i - 1] = address)]]
At(first, data) == [address \in first..(first + Len(data) - 1) |-> data[address - first + 1]]

\* The reference card of a lesson, its table, what is in RAM besides, and its end.
Lesson(start, bytes, listing, data, end, loaded, input) ==
    [start |-> start, bytes |-> At(start, bytes), table |-> Table(listing), data |-> data, end |-> end,
     loaded |-> loaded, input |-> input]
Hello == <<72, 69, 76, 76, 79, 10>>
Receive == <<219, 0, 254, 0, 202, 0, 1, 219, 1>>
Receiving == <<256, "ready", 258, "cpi", 260, "jz", 263, "in">>
Operands(three, four) == (3 :> three) @@ (4 :> four)
NoEnd == -1

Panel == [
  entry |-> Lesson(256, <<58, 3, 0, 198, 1, 50, 4, 0>>, <<256, "lda", 259, "adi", 261, "sta">>,
    Operands(41, 0), 264, FALSE, FALSE),
  countdown |-> Lesson(256, <<58, 3, 0, 214, 1, 50, 4, 0, 194, 3, 1>>,
    <<256, "lda", 259, "sui", 261, "sta", 264, "jnz">>, Operands(3, 0), 267, TRUE, FALSE),
  output |-> Lesson(256, <<58, 3, 0, 198, 1, 211, 1>>, <<256, "lda", 259, "adi", 261, "out">>,
    (3 :> 41), 263, TRUE, FALSE),
  input |-> Lesson(256, <<219, 1, 211, 1>>, <<256, "in", 258, "out">>, << >>, 260, TRUE, TRUE),
  polling |-> Lesson(256, Receive \o <<211, 1, 195, 0, 1>>, Receiving \o <<265, "out", 267, "jmp">>,
    << >>, NoEnd, TRUE, TRUE),
  reply |-> Lesson(256, Receive \o <<254, 97, 194, 16, 1, 62, 65, 211, 1, 195, 0, 1>>,
    Receiving \o <<265, "cpi", 267, "jnz", 270, "mvia", 272, "out", 274, "jmp">>, << >>, NoEnd, TRUE, TRUE),
  message |-> Lesson(0, <<33, 0, 1, 6, 6, 126, 211, 1, 35, 5, 194, 5, 0, 118>>,
    <<0, "lxi", 3, "mvib", 5, "load", 6, "out", 8, "inx", 9, "dcr", 10, "jnz", 13, "hlt">>,
    At(256, Hello), NoEnd, TRUE, FALSE),
  terminated |-> Lesson(0, <<33, 0, 1, 126, 254, 0, 202, 15, 0, 211, 1, 35, 195, 3, 0, 118>>,
    <<0, "lxi", 3, "load", 4, "cpi", 6, "jz", 9, "out", 11, "inx", 12, "jmp", 15, "hlt">>,
    At(256, Hello), NoEnd, TRUE, FALSE),
  buffer |-> Lesson(0,
    <<33, 0, 1, 6, 8, 219, 0, 254, 0, 202, 5, 0, 219, 1, 254, 10, 202, 25, 0, 119, 35, 5, 194, 5, 0,
      62, 0, 119, 33, 0, 1, 126, 254, 0, 202, 43, 0, 211, 1, 35, 195, 31, 0, 118>>,
    <<0, "lxi", 3, "mvib", 5, "ready", 7, "cpi", 9, "jz", 12, "in", 14, "cpi", 16, "jz", 19, "store",
      20, "inx", 21, "dcr", 22, "jnz", 25, "mvia", 27, "store", 28, "lxi", 31, "load", 32, "cpi",
      34, "jz", 37, "out", 39, "inx", 40, "jmp", 43, "hlt">>, << >>, NoEnd, TRUE, TRUE),
  subroutine |-> Lesson(0,
    <<49, 0, 2, 205, 10, 0, 205, 10, 0, 118, 33, 0, 1, 126, 254, 0, 202, 25, 0, 211, 1, 35, 195, 13, 0, 201>>,
    <<0, "lxisp", 3, "call", 6, "call", 9, "hlt", 10, "lxi", 13, "load", 14, "cpi", 16, "jz", 19, "out",
      21, "inx", 22, "jmp", 25, "ret">>, At(256, Hello), NoEnd, TRUE, FALSE),
  nested |-> Lesson(0,
    <<49, 0, 2, 205, 10, 0, 205, 10, 0, 118, 33, 0, 1, 126, 254, 0, 202, 26, 0, 205, 27, 0, 35,
      195, 13, 0, 201, 211, 1, 201>>,
    <<0, "lxisp", 3, "call", 6, "call", 9, "hlt", 10, "lxi", 13, "load", 14, "cpi", 16, "jz", 19, "call",
      22, "inx", 23, "jmp", 26, "ret", 27, "out", 29, "ret">>, At(256, Hello), NoEnd, TRUE, FALSE),
  saving |-> Lesson(0,
    <<49, 0, 2, 33, 0, 1, 205, 13, 0, 205, 13, 0, 118, 229, 126, 254, 0, 202, 26, 0, 211, 1, 35,
      195, 14, 0, 225, 201>>,
    <<0, "lxisp", 3, "lxi", 6, "call", 9, "call", 12, "hlt", 13, "push", 14, "load", 15, "cpi", 17, "jz",
      20, "out", 22, "inx", 23, "jmp", 26, "pop", 27, "ret">>, At(256, Hello), NoEnd, TRUE, FALSE),
  prompt |-> Lesson(0,
    <<49, 0, 2, 33, 32, 1, 205, 101, 0, 33, 0, 1, 6, 8, 205, 91, 0, 254, 10, 202, 38, 0, 119, 211, 1,
      35, 5, 194, 14, 0, 205, 91, 0, 254, 10, 194, 30, 0, 62, 0, 119, 62, 10, 211, 1, 120, 254, 8,
      202, 3, 0, 254, 7, 194, 70, 0, 33, 0, 1, 126, 254, 72, 202, 76, 0, 254, 63, 202, 82, 0,
      33, 96, 1, 195, 85, 0, 33, 48, 1, 195, 85, 0, 33, 64, 1, 205, 101, 0, 195, 3, 0,
      219, 0, 254, 0, 202, 91, 0, 219, 1, 201, 229, 126, 254, 0, 202, 114, 0, 211, 1, 35, 195, 102, 0,
      225, 201>>,
    <<0, "lxisp", 3, "lxi", 6, "call", 9, "lxi", 12, "mvib", 14, "call", 17, "cpi", 19, "jz", 22, "store",
      23, "out", 25, "inx", 26, "dcr", 27, "jnz", 30, "call", 33, "cpi", 35, "jnz", 38, "mvia", 40, "store",
      41, "mvia", 43, "out", 45, "count", 46, "cpi", 48, "jz", 51, "cpi", 53, "jnz", 56, "lxi", 59, "load",
      60, "cpi", 62, "jz", 65, "cpi", 67, "jz", 70, "lxi", 73, "jmp", 76, "lxi", 79, "jmp", 82, "lxi",
      85, "call", 88, "jmp", 91, "ready", 93, "cpi", 95, "jz", 98, "in", 100, "ret", 101, "push", 102, "load",
      103, "cpi", 105, "jz", 108, "out", 110, "inx", 111, "jmp", 114, "pop", 115, "ret">>,
    At(288, <<62, 32>>) @@ At(304, Hello)
      @@ At(320, <<72, 61>> \o SubSeq(Hello, 1, 5) \o <<32, 63, 61, 72, 69, 76, 80, 10>>)
      @@ At(352, <<85, 78, 75, 78, 79, 87, 78, 10>>), NoEnd, TRUE, TRUE)]

Explorer == [
  copy |-> Lesson(256, <<58, 3, 0, 50, 4, 0>>, <<256, "lda", 259, "sta">>, Operands(200, 42), 262, TRUE, FALSE),
  addone |-> [Panel.entry EXCEPT !.loaded = TRUE],
  jump |-> Lesson(256, <<58, 3, 0, 195, 8, 1, 198, 1, 50, 4, 0>>,
    <<256, "lda", 259, "jmp", 262, "adi", 264, "sta">>, Operands(41, 0), 267, TRUE, FALSE),
  loop |-> Lesson(256, <<58, 3, 0, 198, 1, 50, 4, 0, 195, 3, 1>>,
    <<256, "lda", 259, "adi", 261, "sta", 264, "jmp">>, Operands(41, 0), NoEnd, TRUE, FALSE),
  conditional |-> Lesson(256, <<58, 3, 0, 198, 1, 50, 4, 0, 210, 3, 1>>,
    <<256, "lda", 259, "adi", 261, "sta", 264, "jnc">>, Operands(254, 0), 267, TRUE, FALSE),
  comparison |-> Lesson(256, <<58, 3, 0, 198, 1, 50, 4, 0, 254, 44, 194, 3, 1>>,
    <<256, "lda", 259, "adi", 261, "sta", 264, "cpi", 266, "jnz">>, Operands(41, 0), 269, TRUE, FALSE)]
\* The program bytes the learner may change, and what to, before the first instruction.
OperandChoices ==
    [addone |-> {<<260, EditBytes>>}, comparison |-> {<<265, EditBytes>>}, jump |-> {<<260, {6, 8}>>}]

OnPanel == lesson \in DOMAIN Panel
Card == IF OnPanel THEN Panel[lesson] ELSE Explorer[lesson]
EditableOperand == IF lesson = "entry" THEN 260 ELSE NoEnd
Hosted == {"message", "terminated", "buffer", "subroutine", "nested", "saving", "prompt"}

----------------------------------------------------------------------------
(* The machine.                                                            *)

NewRegs(start) == [a |-> 0, b |-> 0, hl |-> 0, sp |-> 0, pc |-> start, z |-> FALSE, cy |-> FALSE, halted |-> FALSE]
FirstPc(name) == IF name = "entry" THEN 0 ELSE IF name \in DOMAIN Panel THEN Panel[name].start ELSE Explorer[name].start
Fresh(name) ==
    LET card == IF name \in DOMAIN Panel THEN Panel[name] ELSE Explorer[name]
    IN  IF card.loaded THEN card.bytes @@ card.data ELSE card.data
Init ==
    /\ lesson \in DOMAIN Panel \cup DOMAIN Explorer
    /\ regs = NewRegs(FirstPc(lesson)) /\ ram = Fresh(lesson)
    /\ pending = Empty /\ running = FALSE /\ typed = <<>> /\ printed = <<>> /\ edits = 0

Read(address) == IF address \in DOMAIN ram THEN ram[address] ELSE 0
Word(address) == Read(address) + 256 * Read((address + 1) % 65536)
Put(address, value) == (address :> value) @@ ram
Stacked(value) == ((regs.sp - 1) % 65536 :> value \div 256) @@ ((regs.sp - 2) % 65536 :> value % 256) @@ ram

\* The instruction at the PC, by the byte that is there: IN's operand is its port.
Fetched == {m \in Mnemonics : Described[m][1] = Read(regs.pc)
                              /\ (m \in {"in", "ready"} => (m = "in") = (Read(regs.pc + 1) = 1))}
Op == CHOOSE m \in Fetched : TRUE
After == (regs.pc + Described[Op][2]) % 65536
Operand == Read(regs.pc + 1)
Target == Word(regs.pc + 1)
Compared(value) == [regs EXCEPT !.z = (value % 256 = 0), !.cy = (value \notin 0..255)]
Taken == CASE Op \in {"jmp", "call"} -> TRUE [] Op = "jz" -> regs.z [] Op = "jnz" -> ~regs.z [] Op = "jnc" -> ~regs.cy
Executed ==
    [(CASE Op = "lda"   -> [regs EXCEPT !.a = Read(Target)]
        [] Op = "adi"   -> [Compared(regs.a + Operand) EXCEPT !.a = (regs.a + Operand) % 256]
        [] Op = "sui"   -> [Compared(regs.a - Operand) EXCEPT !.a = (regs.a - Operand) % 256]
        [] Op = "cpi"   -> Compared(regs.a - Operand)
        [] Op = "in"    -> [regs EXCEPT !.a = IF pending = Empty THEN 0 ELSE pending]
        [] Op = "ready" -> [regs EXCEPT !.a = IF pending = Empty THEN 0 ELSE 1]
        [] Op = "lxi"   -> [regs EXCEPT !.hl = Target]
        [] Op = "lxisp" -> [regs EXCEPT !.sp = Target]
        [] Op = "mvia"  -> [regs EXCEPT !.a = Operand]
        [] Op = "mvib"  -> [regs EXCEPT !.b = Operand]
        [] Op = "load"  -> [regs EXCEPT !.a = Read(regs.hl)]
        [] Op = "count" -> [regs EXCEPT !.a = regs.b]
        [] Op = "inx"   -> [regs EXCEPT !.hl = (@ + 1) % 65536]
        [] Op = "dcr"   -> [regs EXCEPT !.b = (@ - 1) % 256, !.z = (regs.b = 1)]
        [] Op \in {"push", "call"} -> [regs EXCEPT !.sp = (@ - 2) % 65536]
        [] Op = "pop"   -> [regs EXCEPT !.hl = Word(regs.sp), !.sp = (@ + 2) % 65536]
        [] Op = "ret"   -> [regs EXCEPT !.sp = (@ + 2) % 65536]
        [] Op = "hlt"   -> [regs EXCEPT !.halted = TRUE]
        [] OTHER -> regs)
     EXCEPT !.pc = CASE Op = "ret" -> Word(regs.sp)
                     [] Op \in {"jmp", "jz", "jnz", "jnc", "call"} -> IF Taken THEN Target ELSE After
                     [] OTHER -> After]
Stored ==
    CASE Op = "sta"   -> Put(Target, regs.a)
      [] Op = "store" -> Put(regs.hl, regs.a)
      [] Op = "push"  -> Stacked(regs.hl)
      [] Op = "call"  -> Stacked(After)
      [] OTHER -> ram

----------------------------------------------------------------------------
(* The page.                                                               *)

\* Why the next instruction may not be stepped.
Altered == \E address \in DOMAIN Card.bytes : address # EditableOperand /\ Read(address) # Card.bytes[address]
\* A plausible bug: the page no longer compares the card with memory.
StepProblemTrustingMemory ==
    IF regs.halted THEN "halted"
    ELSE IF regs.pc = Card.end THEN "complete"
    ELSE IF regs.pc \notin DOMAIN Card.table THEN "astray"
    ELSE "none"
StepProblem ==
    IF OnPanel /\ Altered THEN "altered"
    ELSE IF regs.halted THEN "halted"
    ELSE IF regs.pc = Card.end THEN "complete"
    ELSE IF regs.pc \notin DOMAIN Card.table THEN "astray"
    \* A lesson guard, not CPU waiting.
    ELSE IF lesson = "input" /\ Described[Card.table[regs.pc]][3] = "input" /\ pending = Empty THEN "empty"
    ELSE "none"

\* Histories are kept from the prompt's start, and from the last transfer of an endless echo.
Restarting == lesson = "prompt" /\ regs.pc = 3
Latest(bytes, byte) == IF lesson \in {"polling", "reply"} THEN <<byte>> ELSE Append(bytes, byte)
Instruction ==
    /\ StepProblem = "none"
    /\ regs' = Executed /\ ram' = Stored
    /\ pending' = IF Op = "in" THEN Empty ELSE pending
    /\ typed' = IF Restarting THEN <<>> ELSE IF Op = "in" /\ pending # Empty THEN Latest(typed, pending) ELSE typed
    /\ printed' = IF Restarting THEN <<>> ELSE IF Op = "out" THEN Latest(printed, regs.a) ELSE printed
    /\ UNCHANGED <<lesson, edits>>

Step == ~running /\ Instruction /\ UNCHANGED running
\* Running stops with the step that leaves a problem; STOP comes between two instructions.
Runs == running /\ Instruction /\ running' = (StepProblem' = "none")
Run == OnPanel /\ ~running /\ StepProblem = "none" /\ running' = TRUE
       /\ UNCHANGED <<lesson, regs, ram, pending, typed, printed, edits>>
Stop == running /\ running' = FALSE /\ UNCHANGED <<lesson, regs, ram, pending, typed, printed, edits>>

\* A full device refuses a byte, and the learner keeps it.
Sendable == IF lesson \in {"polling", "reply", "input"} THEN {0, 97}
            ELSE (IF Len(typed) \in LineEnds THEN {10} ELSE {})
                 \cup (IF typed = <<>> THEN {72, 63} ELSE IF \E end \in LineEnds : Len(typed) < end THEN {72} ELSE {})
Send ==
    /\ Card.input /\ pending = Empty /\ pending' \in Sendable
    /\ UNCHANGED <<lesson, regs, ram, running, typed, printed, edits>>

Stray == edits < MaxEdits /\ edits' = edits + 1
\* EXAMINE writes the panel's PC and nothing else of the CPU; it does not release HALT.
Examine(address) ==
    /\ OnPanel /\ ~running /\ lesson # "prompt" /\ lesson # "buffer"
    /\ IF address = Card.start /\ lesson = "entry" THEN UNCHANGED edits ELSE Stray
    /\ regs' = [regs EXCEPT !.pc = address]
    /\ UNCHANGED <<lesson, ram, pending, running, typed, printed>>
\* DEPOSIT, and DEPOSIT NEXT, which advances first.
Deposit(address, value) ==
    /\ OnPanel /\ ~running /\ lesson # "prompt" /\ lesson # "buffer"
    /\ IF lesson = "entry" /\ address \in DOMAIN Card.bytes \ DOMAIN ram /\ value = Card.bytes[address]
       THEN UNCHANGED edits ELSE Stray
    /\ ram' = Put(address, value) /\ regs' = [regs EXCEPT !.pc = address]
    /\ UNCHANGED <<lesson, pending, running, typed, printed>>
\* The explorer's cells are addresses 0 to 7; its operand and its destination are the
\* program's own bytes, and only until the first instruction.
EditCell(address, value) ==
    /\ ~OnPanel /\ Stray /\ ram' = Put(address, value)
    /\ UNCHANGED <<lesson, regs, pending, running, typed, printed>>
EditOperand ==
    /\ ~OnPanel /\ lesson \in DOMAIN OperandChoices /\ regs.pc = Card.start /\ edits = 0
    /\ \E choice \in OperandChoices[lesson], value \in EditBytes \cup {6, 8} :
         value \in choice[2] /\ ram' = Put(choice[1], value)
    /\ edits' = 1
    /\ UNCHANGED <<lesson, regs, pending, running, typed, printed>>
Restart ==
    /\ regs' = NewRegs(FirstPc(lesson)) /\ ram' = Fresh(lesson) /\ pending' = Empty /\ running' = FALSE
    /\ typed' = <<>> /\ printed' = <<>> /\ edits' = 0 /\ UNCHANGED lesson

Reachable == DOMAIN Card.table \cup {Card.start + 1}
Next ==
    \/ Step \/ Runs \/ Run \/ Stop \/ Send \/ EditOperand \/ Restart
    \/ \E address \in Reachable : Examine(address)
    \/ \E address \in {regs.pc, regs.pc + 1}, value \in EditBytes \cup {Card.bytes[c] : c \in DOMAIN Card.bytes} :
         (value \in EditBytes \/ (address \in DOMAIN Card.bytes /\ value = Card.bytes[address])) /\ Deposit(address, value)
    \/ \E address \in {3, 4}, value \in EditBytes : EditCell(address, value)

Spec == Init /\ [][Next]_lessons

----------------------------------------------------------------------------
(* Properties.                                                             *)

\* altair-program.ts: whatever the learner entered or examined, an instruction that may be
\* stepped is the one the table describes, so the page neither throws nor describes another.
TableDescribes ==
    StepProblem = "none" => Card.table[regs.pc] \in Fetched

Begins(whole, part) == Len(part) <= Len(whole) /\ SubSeq(whole, 1, Len(part)) = part
Twice(s) == s \o s
Line == SubSeq(typed, 1, Len(typed) - 1)
Kept(s) == SubSeq(s, 1, IF Len(s) < 8 THEN Len(s) ELSE 8)
Reply == CASE Line = <<>> -> <<>> [] Line = <<72>> -> Hello
           [] Line = <<63>> -> <<72, 61, 72, 69, 76, 76, 79, 32, 63, 61, 72, 69, 76, 80, 10>>
           [] OTHER -> <<85, 78, 75, 78, 79, 87, 78, 10>>
\* What each panel program has printed when it is done, or is back where it listens.
Finished ==
    CASE lesson = "countdown" -> regs.pc = Card.end => Read(4) = 0
      [] lesson = "output" -> regs.pc = Card.end => printed = <<42>>
      [] lesson = "input" -> regs.pc = Card.end => printed = typed
      [] lesson = "polling" -> regs.pc = Card.start => printed = typed
      [] lesson = "reply" -> regs.pc = Card.start => printed = [i \in DOMAIN typed |-> IF typed[i] = 97 THEN 65 ELSE typed[i]]
      [] lesson \in {"message", "terminated"} -> Begins(Hello, printed) /\ (regs.halted => printed = Hello)
      [] lesson \in {"subroutine", "nested", "saving"} -> Begins(Twice(Hello), printed) /\ (regs.halted => printed = Twice(Hello))
      [] lesson = "buffer" -> regs.halted => printed = IF typed[Len(typed)] = 10 THEN Line ELSE Kept(typed)
      [] lesson = "prompt" -> regs.pc = 3 /\ typed # <<>> => printed = <<62, 32>> \o Kept(Line) \o <<10>> \o Reply
      [] OTHER -> TRUE

\* The lessons' machines: a program nobody edited never leaves its table or changes itself, reads
\* the input device only when a byte waits, writes only its buffer and its stack however much is
\* typed and whenever, and prints what its lesson says.
ProgramKeepsItsWord ==
    OnPanel /\ edits = 0 /\ lesson # "entry" =>
      /\ StepProblem \notin {"altered", "astray"}
      /\ StepProblem = "none" /\ Op = "in" => pending # Empty
      /\ lesson \in Hosted => DOMAIN ram \subseteq DOMAIN Fresh(lesson) \cup 256..264 \cup 508..511
      /\ regs.sp \in {0, 512, 510, 508}
      /\ Finished

LessonsHold == TableDescribes /\ ProgramKeepsItsWord
=============================================================================
