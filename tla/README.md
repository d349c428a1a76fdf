# A TLA+ verification of Dromaios

Dromaios is an in-browser platform of emulated machines written in TypeScript:
an IBM PC/XT, a Tandy Color Computer, an Apple II Plus, an Altair and bare CPUs.
CPUs and devices are described in literate chapters
(`src/components/*/specifications/*.md`, whose fenced code is the source),
compiled to TypeScript and wired together by machine modules; pages under
`site/interactive` drive them with host timers, files, storage and keys.

This directory holds TLA+ modules for the parts of that system where the order
of events decides what is right, TLC configurations that check them on small
instances, and TLAPS proofs for every value of the constants. `PROJECT.json`
is the index: it lists components, runs, mutants, hazards and theorems, and maps
definitions to the source lines they stand for. The map names whole handlers,
the state and the operators of weight; a helper whose lines lie inside a mapped
definition's is covered by that entry and not listed again.

Paths below omit the leading `src/` of the checkout: `src/runtime/...` is the
repository's `src/runtime`, `site/...` its `site`.

## 1. The system

### Components

| Component (source) | State | Operations | Interacts with | What makes it correct | Module |
|---|---|---|---|---|---|
| 8259A (`devices/specifications/i8259a.md`) | IRR, ISR, IMR, line levels, base, phase of initialization, read selector | lines, acknowledge, port writes and reads, reset, restore | devices, the CPU's INTR | requests are neither lost nor invented, handlers nest, snapshots restore | `I8259a`, `NestedService` |
| XT checks and NMI, board, 8088 recognition (`ibm-xt-system-control.md`, `machines/8088/pc-xt/io.ts`, `interrupts.ts`, `8088.md`) | NMI gates and latches, INTR mark, halt, wait, trap and deferral latches | one CPU boundary, port writes, device time, resets | each other | delays last one retirement; NMI before INTR; one answer per event | `XtInterrupts`, `Cpu8088`, `XtHandlers` |
| XT DMA, refresh, diskette (`i8237a.md`, `ibm-xt-diskette.md`, `clock.ts`, `io.ts`) | channels, requests, page registers, command phase, clock | timed steps, one grant each, disk changes | RAM, interrupt lines | every byte moves once, between the right cells, and costs its clocks | `XtDma` |
| EGA (`devices/ibm-ega.ts`) | registers, latches, planes, raster | port and memory accesses, ticks, snapshot | CPU, page | what is stored is what is read and shown | `IbmEga` |
| Byte, decoded, segmented and word runtimes (`cpus/*-execution.ts`, `word-*.ts`, `interrupt-entries.ts`, `run-cpu.ts`) | mode latches, boundary guard, the record of an attempt | step, offers, entries, faults, bounded run | host callbacks that may throw or call again | a record is what was done; no event is lost, repeated or charged twice | `ByteRuntime`, `SegmentedRuntime`, `Word68000` |
| CPU chapters' compiler and generator (`cpus/semantics/**`, `opcodes.ts`) | declarations | validate, compile, generate, decode | chapters, runtimes | what is accepted never goes wrong and computes what it denotes | `SemanticExpressions`, `SemanticStatements`, `OpcodeDecoding`, `ChapterEffects`, `ChapterContracts` |
| Device compiler (`devices/semantics/**`) and machine language (`machines/language/**`, `scripts/compile-composition.ts`) | declarations; the emitted class or machine | compile, construct, call, transfer, restore | devices, memory, CPUs | accepted sources construct; every call checks before it writes | `DeviceLanguage`, `MachineComposition` |
| 6850 and serial session (`mc6850-polling.md`, `src/runtime/serial-session.ts`) | receive register, tape, typed input, output | send, run, reset, reload, snapshot, restore | machine, page | bytes are neither lost, repeated nor credited to another machine | `SerialSession`, `SerialLine` |
| Altair BASIC page (`altair-basic*.ts`, `serial-execution.ts`) | timers, file, selection, stored session | buttons, batches, files, leaving and returning | session, host, storage | one chain of batches; last choice wins; a stored session can be taken up | `BasicPage` |
| Execution controller (`execution-controller.ts`, `clock-pacing.ts`) | running, delay, callback, pacing | run, stop, step, delay, pacing, batch | host timers, machines | one callback, no step nobody asked for, no burst | `ExecutionController` |
| Debugger (`instruction-debugger.ts`, XT, CoCo, 6809 and Apple II adapters) | breakpoints, plan, skip, frames, watched store | run, step, over, out, run to, pause | controller, machine records | stops and callers are true, requests end | `InstructionDebugger`, `DebuggedMachine` |
| Change log and watches (`change-log.ts`, `memory-watch-history.ts`) | two rings | step, edit, reset, watch, record | laboratories | changes link up, no watched write is missed | `StepHistory` |
| Lessons (`altair-program*.ts`, `altair-panel.ts`, `register-*.ts`) | program card, operand, PC, wait | step, run, stop, deposit, examine, send, edit | an 8080 | what runs is what the card says | `AltairLessons` |
| Apple Disk II and inspectors (`apple2-disk-*.ts`, `dos33-*.ts`) | head, motor, field in progress, recognizer; traces and lists | soft switches, bytes, seeks, host edits; DOS calls | medium, guest | a field lands whole, observers tell the truth | `DiskII`, `DiskInspector` |
| Applesoft tools (`apple2-applesoft*.ts`) | cached listing, breakpoints, counts, GOSUB profile, recorder | RAM writes, interpreter boundaries, edits | RAM, debugger | the listing is what RAM holds; marks belong to it | `Applesoft` |
| Apple II, CoCo and XT pages (`apple2*.ts`, `coco-*.ts`, `xt-*.ts`, `rom-storage.ts`) | ROMs and media shown, fitted, stored; locks; checkpoints; key queues | choose, verify, power, reset, save, restore, hide, keys | machine, promises, storage | the places that know a ROM or a disk agree; locks are released; no key sticks | `Apple2Page`, `CocoPage`, `XtPage` |
| Docking workspace (`workspace/*.ts`) | a tree of splits and tab groups | move, open, close, collapse, store | page, storage | a layout survives an operation and a visit | `Workspace` |
| Instruction sets, CGA, VDG, rendering, text generation, editor grammars | — | — | — | data transformation, tested by fixtures | not modelled |

### Where it is hard

All of it runs on JavaScript's one thread, so nothing is preempted; what
interleaves is the order of *whole calls*, and the places where one call is
split in two:

- **Boundaries.** A CPU step, device time, host input and a diagnostic fall in
  any order between boundaries; inside one, the CPU's own bus writes move the
  devices that will interrupt it, and a host callback may throw or call the CPU
  again half way through an instruction.
- **Callbacks.** A page asks the host for a callback and may cancel it too late.
  A stale one has to be rejected, a needed one must never be forgotten.
- **Promises.** Reading a file and digesting it ends later, after another file,
  a STOP, a hidden page, or a return from the history cache.
- **Partial failure.** A device rejects a write half-way through an OUT; a step
  throws with the machine already changed; storage fails after some of a save.
- **Checkpoints.** A restored state has to satisfy validity checks written next
  to the device, of every state the program could have saved.
- **Observers.** Debugger frames, disk inspectors, source listings, change logs
  and watch lists follow a guest that owes them no discipline.
- **Compilation.** A chapter is checked once and its body run on every path;
  what a check overlooks surfaces in the middle of an instruction.

`PROJECT.json` lists these as hazards with their lines and the properties that
cover them.

## 2. The modules

```
 abstract promises        NestedService                      SerialLine
                               ^                                 ^
 boards and sessions   I8259a  |  Cpu8088                  SerialSession
                          \____|___/   \                         ^
                        XtInterrupts    SegmentedRuntime     BasicPage
                              ^          ByteRuntime
                          XtHandlers     Word68000     InstructionDebugger
                                         AltairLessons        ^
 devices   XtDma  IbmEga                 StepHistory    DebuggedMachine
           DiskII  DiskInspector
           Applesoft                     ExecutionController
 pages     Apple2Page  CocoPage  XtPage  Workspace
 language  SemanticExpressions  SemanticStatements  OpcodeDecoding
           ChapterEffects  ChapterContracts  DeviceLanguage  MachineComposition
```

A module of the last three rows is one component, or one source directory. An
`MC` module gives constants their values; four of them also let one run check
components that do not meet in the program: each of its behaviours drives one of
them and leaves the others at rest, so nothing is interleaved that the program
does not interleave.

**`I8259a`** is the controller's chapter. A byte is the set of its one bits, so
masks, priorities and requests are set expressions; `phase` is the place in the
initialization sequence. The operators (`LineSet`, `Acknowledged`,
`CommandWritten`, `DataWritten`, `Reset`) are pure functions of the state
record, used by the board as well as by the device's own actions. Unsupported
commands throw before anything changes: `CommandSupported` and `DataSupported`
say which. **`NestedService`** is what a fully nested controller promises
without registers: waiting requests and a stack of handlers. The registers
implement it (`Nested`), with the ISR bits, in priority order, as the stack.

**`XtInterrupts`** composes the controller, the check latches and the
recognition latches of **`Cpu8088`**: `CpuBoundary` is one `runCpuBoundary`
around one `stepXtCpu`, from the NMI and INTR offers in the code's order down to
the sample mark kept for the next boundary. Instructions are classes (plain,
those that load flags or a segment register, HLT, WAIT, INT, OUT). A rejected
OUT throws through the CPU and the board: nothing retires and the mark of the
previous boundary stays for one sample more. The page stops a machine after such
an exception, so the mark matters only to a caller that resumes it. The sample
rule itself is the machine chapter's (`src/machines/8088/pc-xt.md`, "When does
the 8088 see INTR?"). `DeviceLine`, `CheckErrors` and the two resets fall
between boundaries. History variables are read only by properties.
**`XtHandlers`** restricts the program: each handler ends its own service with
one non-specific EOI before IRET, as the XT's BIOS does, and relates the stack
of frames to the ISR.

**`XtDma`** is one timed step of the board with refresh and the diskette's
channel contending for the one grant, the adapter's command phases, page
registers and terminal count, and a clock that is exact up to `MaxClock`.
**`IbmEga`** has the registers that route a CPU access (write modes, latches,
masks, chaining), the raster with its attribute flip-flop, and the dot shown at
a position. **`DiskII`** is the controller clocked by soft switches, the medium
as fields on tracks, and its observers; **`DiskInspector`** the catalogue, file
and trace lists with their selected row; **`Applesoft`** the tools that follow a
BASIC program through the interpreter's stores.

**`ByteRuntime`**, **`SegmentedRuntime`** and **`Word68000`** are the generated
executors' boundaries: every callback is an answer chosen by the host (a value,
an exception, a call back into the CPU), and the record returned is compared
with what was done. The first is also the bounded runner. **`AltairLessons`** and
**`StepHistory`** keep the accounts a page shows of such steps.

**`SerialSession`** is the session with its port and machine: `run()` is
modelled instruction by instruction, with `budget` the steps left in the call.
Output is captured per machine construction, so an old machine that still holds
its callback writes to an old buffer (`OldMachineSays`). **`SerialLine`** is the
promise: bytes coming, the byte heard last, bytes said and taken, a kept state.
**`BasicPage`** puts timers, buttons, file verification, storage, page hiding
and the history cache around the session. The generation and selection counters
only ever compare equal or not, so each outstanding callback carries a flag
saying whether its token is still the current one, cleared by every increment.
Storage may take the checkpoint, refuse it (the code then removes the older
one), or deny even that. A page left may be kept by the browser and come back
with its machine while a newer page's checkpoint is in storage.

**`ExecutionController`** is the controller every other machine page uses. The
model keeps only the differences that pacing uses (target minus ticks, and host
time since it last looked), so clocks need no bound. Cancelled callbacks may
still be called. **`InstructionDebugger`** is the shared policy and
**`DebuggedMachine`** its laboratories: a program given by what each place may
do (call, return, pull a return address, wait, throw), on a stack the observer
follows from instruction records alone.

**`Apple2Page`**, **`CocoPage`** and **`XtPage`** are the pages as records of
what they show, what the machine has, what the next power cycle fits and what
storage keeps, under promises that settle in any order; the last two also hold
the keyboards (a queue of chords closing a switch matrix that the PIA samples;
make and break codes of keys that share a code). **`Workspace`** is the layout
tree and its operations.

**`SemanticExpressions`** builds expressions one node at a time beside the
meaning and the JavaScript value of each; **`SemanticStatements`** runs accepted
definitions of a few statements under every input; **`OpcodeDecoding`** declares
pages and families in any order and reads every byte string;
**`ChapterEffects`** and **`ChapterContracts`** vary one line of a contract or a
body and ask whether the boundary can serve what the compiler accepted;
**`DeviceLanguage`** does the same for device chapters and calls the class they
generate; **`MachineComposition`** is the machine parser and the machine it
emits: its transfers, the calls its ports, reset lists, clocked steps and windows
make of its parts, and what its CPU's constructor is handed. `MachineIsWired` asks of
each call that the device named has the method and answers the register, and of each
declaration that something emitted reaches it; dropping any of the parser's checks of
ports, reset lists or clocked devices makes it false.

`*Proofs` modules hold theorems: see section 4.

## 3. The runs

| Run | Module | Question | States |
|---|---|---|---|
| `devices` | MCDevices | Any caller of the 8259A: are requests kept, asked for by an edge only, snapshots restorable, handlers a stack? Does the Disk II place whole fields and do its observers tell the truth? Are the inspector's lists and the Applesoft tools' marks true? Do XT transfers and the EGA keep what they were given? | 760 thousand |
| `xt_interrupts` | XtInterrupts | Any program and devices: are NMI, INTR, traps and deferrals taken in the promised order, with the right vector, and delivered? | 15 thousand |
| `xt_handlers` | XtHandlers | With well-formed handlers, is the ISR exactly the program's stack of handlers? | 130 thousand |
| `serial_session` | MCBasicPage | Does every order of session calls implement one serial line? | 1.9 million |
| `basic_page` | MCBasicPage | One chain of batches, the last choice wins, checkpoints readable and never overwritten by an older page? | 304 thousand |
| `basic_page_live` | MCBasicPage | Do batches go on and does input arrive? | 170 thousand |
| `controller` | ExecutionController | One callback, no unasked step, delay and pacing honoured, a run never lost? | 110 thousand |
| `debugger` | MCDebuggedMachine | Are stops, callers and breakpoints true, does every request end where it says, and does a layout of panels survive every operation and visit? | 757 thousand |
| `processors` | MCProcessors | Any answers of the host in any boundary: are records true, entries sound, accounts of steps right, the bounded runner's report due? | 930 thousand |
| `pages` | MCPages | Do the places that know a ROM, a disk or a key agree, are locks released, does only the latest result apply? | 1.08 million |
| `language` | MCLanguage | Does what the compilers accept mean what it says, and never go wrong? | 507 thousand |
| `entries` | MCChapters | Can an accepted entry action reject? (expects a violation) | — |

Eleven runs pass. The twelfth shows a divergence between the code and its
reference: `docs/cpus/literate-specifications.md:1327` says that actions selected
by an execution contract, external entries among them, "also reject matches,
including through source or nested action calls, because those boundaries cannot
consume an instruction's unsupported result"; the compiler checks named
interrupt entries (`interrupt-entries.ts:30`) and vector sources and their
resumption (`vector-execution.ts:61`) with matches allowed. TLC accepts such an
entry and runs it into the outcome nobody consumes. No chapter of the repository
has one.

### Bounds, and why they are enough

- `devices`: lines IR0, IR1 and IR7 are the two ends of the priority order and a
  neighbour; ten command and four data bytes hit every branch of the port writes,
  the rejected ones included. A disk of two tracks with two sectors is enough for
  a field that ends on another track or sector than it began; `MaxActs` host and
  guest acts fall within one field. The inspector's image has four sectors, a
  trace of three (`TraceLimit`), two guest and two user acts. The BASIC tools have
  a memory of twelve cells holding two programs, one the other moved by a line, a
  GOSUB stack of `Depth` two and counts up to two. The XT's page is four bytes
  long and a track two sectors of two bytes, so that terminal count, page end and
  sector end fall in different places, with a clock exact up to 40. The EGA's
  planes have four bytes, in four set-ups that select each path of an access,
  under eleven port writes.
- `xt_interrupts`: one line driven both by port writes and by device time, one
  check source, bytes that initialize, mask and end. Properties relate one
  request to the CPU's latches; priority among lines is `devices`' and
  `xt_handlers`' subject, which has two lines and a stack of three (`MaxFrames`).
  The theorems remove these bounds.
- `serial_session`: two characters (one typed, one spoken by the guest, so order
  and origin are visible), a tape of one, one typed byte, two bytes of output per
  machine, two machine constructions, calls of one step. A call of one step
  followed by another covers a longer one, since no other method can start within
  it.
- `basic_page`: `MaxJobs` 3 timers held by the host (one current, two cancelled
  too late), `MaxChecks` 2 verifications at once, in a visit that stays and in
  pages that return from the history cache. The port is covered by
  `serial_session`, so input is cut to nothing here and to one byte in the
  liveness run.
- `controller`: two callbacks (`MaxLate` 1 of them cancelled too late), two
  delays, batches of two steps, steps of one or two clocks with a lag of two, two
  changes of delay or pacing. Differences of clocks saturate beyond what any test
  can tell apart.
- `debugger`: programs of five places, one a vector, with two ways to do most
  things, four laboratories (the CoCo's with and without discipline), a request
  of at most three boundaries (`Limit`) and two shown frames, one less than the
  stack can hold. The workspace has three panels in two groups and
  four operations.
- `processors`: three addresses, prefixes up to two, interrupt levels 2 and 7
  under masks 0 and 3, two steps of the bounded runner; rings of two, so that
  they wrap within a script of three steps; one edit of a lesson, at the ends of
  its memory.
- `pages`: one disk and one name, two verifications at once (`MaxChecks`); a
  keyboard matrix of two by two, where two keys can connect lines transitively;
  a scan queue of five with three keys of which two share a code.
- `language`: a byte is two bits wide, words and longs sampled at every sign and
  carry boundary, four declarations in every order, opcode strings of four
  bytes, bodies of two statements of 21 kinds; each contract and device chapter
  with one line dropped, repeated, renamed or varied. Four declarations (`MaxRead`)
  make a machine of a CPU, parts, their connection and one more: ports, a reset
  list, a clock, images or an end, right and wrong.
- `CHECK_DEADLOCK` is on in every run but `language`, whose compilers end.

### Fairness

- `CpuBoundary` (weak): while a machine runs, its page keeps calling the step
  function; some instruction class is always possible. Delivery of NMI and traps
  is stated for programs that do not renew the recognition delay for ever (a
  segment load at every instruction would).
- `Batch`, `AnyTimer`, `BatchEnds` or `BatchPauses`, `Tick` (weak): JavaScript
  runs a callback to its end, the host calls the timers it holds, late perhaps,
  and its clock advances.
- Each verification (weak): reading a chosen file and digesting it settles, with
  success or failure. Storage and the user are never assumed to act.
- The controller's callbacks are fair one by one (`Slots`), since a host may not
  serve one timer for ever at the expense of another.

### Mutants

Every property of every passing run has a mutant: a definition changed as a
plausible bug would change it (the test of the generation dropped, a vector read
after the acknowledge, a tape saved without its file, a disk exchanged within a
sector), under which TLC finds that property violated. They stand in the modules
right before the definition they replace.

## 4. What is proved

Seven modules of theorems, each extending the module whose specification it is
about. `PROJECT.json` lists the results under "theorems"; the lemmas they rest on
are in the modules. No theorem uses the bounds of a `.cfg` file; the pages, the
processors and the devices are proved as their MC modules instantiate them.

### Controller and board

`XtInterruptsProofs` begins with the controller on its own. It assumes
`WiredAssumption` and `BytesAssumption` (wired lines are levels; software bytes are
bytes). Its lemmas give the forms of each operator and what a data or command
write may leave. The type invariant and `ValidState` are inductive as they stand; from them follow `SnapshotRestorable` and, with the edge
latch, `RequestsAreEdges`. `RegistersAreAStack` is the refinement: under `Nested`
an acknowledge pushes a level of higher priority than the top, an EOI pops the
running handler or takes out the one it names, a reset clears, and everything
else leaves the stack alone. It rests on lemmas about `Ordered`, the enumeration
of a set of levels by priority.

For the board it adds `BoardLinesAssumption` (lines that the board's own ports
move are wired) and, for `XtHandlers`, `HandlersAssumption`. The board's promises
are not inductive: that INTR is not acknowledged right after STI depends on the
CPU's deferral latch being set by the very retirement that set IF; that a request
raised by OUT misses a sample depends on the mark being kept across whatever
happens between boundaries. `BoardInv` therefore says what the parts remember of
one another:

- `ValidState(pic)`: nothing is requested or in service before initialization;
- `ControlPart`: the latches are valid, and an NMI already spent has its level
  still high (`SpentIsTaken`), so it cannot be pending again;
- `ProcessorPart`: a halted CPU carries no delay (`HaltedCanWake`), an owed trap
  is pending (`TrapKept`), and after an instruction that set IF, as long as IF
  stays set, INTR is deferred (`EnableIsDeferred`);
- `OutputIsRemembered`: after a completed output that raised INT the mark is set.

`BoardRemembers` proves it inductive, one step per action; the promises follow
with the guard of the acceptance action. `HandlersAreNested` adds `StackInv`: the
frames, in order, are the levels in service by priority, so that the EOI of the
handler on top clears its own bit.

### Execution controller

`ControllerAssumption`: more callback identities than late callbacks; positive
batch, cost and lag. The invariant is `Chain` (at most one current callback, one
exactly when running between batches, none inside a batch), `Asked` (a run without
an error is one the user wants), `InForce` (the current callback waits for the
delay in force) and `Budget` (clocks run ahead, plus credit, plus host time not
yet credited, never exceed zero). `Budget` makes `PacedRun` provable: neither the
cap on the lag nor a manual step preserves `PacedRun` alone.

### Altair page and serial session

`BasicPageProofs` uses the assumptions of `SerialSession` (bytes are bytes, a
sentinel is none, storage that holds nothing holds no session) and
`PageBoundsAssumption`. `ChainInv` gives `OneChain` for any number of late timers.
`LastChoiceWins` speaks of `latest`, a history variable that names the verification
of the file chosen last until it ends: only that one may change the page, only with
the right tape, and until then the machine neither runs nor changes. `CheckInv` (a
verification still counts exactly when it is `latest`, no two share an id, and while
there is a latest one the page is selecting, stopped and between batches) gives it. `KeptInv` (what the page holds
could be saved, and what is saved could be taken up, with the tape's file beside
it) gives `CheckpointHolds`. `SessionIsALine` is the second refinement:
`SessionInv` types the session and its port, and each method maps to a step of
`SerialLine` or moves nothing the line can see. Its lemmas say when a suffix of
the tape and the typed queue is the line's queue of bytes coming; an instruction
that reads is the only step that moves a byte across.

### The pages

`PageProofs` extends `MCPages`, whose specification runs the three pages and two
keyboards, each in its own behaviours. `PageAssumption`, `MatrixAssumption` and
`ScanAssumption` ask that no disk is the absent one, that chords lie in the
matrix, and that no chord names two keys of one code. `PagesInv` is five
invariants, one per part:

- `PageInv` (Apple II): the types; `HeldInv`, each machine held, saved or being
  saved has its own disk's name beside it, and firmware for the ROM shown;
  `SelectionInv`, at most one verification is current, a locked control waits for
  one that will release it, and meanwhile the machine stands still;
- `RomsInv` (CoCo): fitted, shown and stored ROMs agree also while a file is
  verified, one at a time, and what a visit verifies is in storage;
- `ChordInv`: the keys down are the chord at the head of the queue in its phase,
  and the pins are what those keys and the drivers give. The pins come from `Resolve`, which closes
  keys over a matrix in passes; `ResolveConnects` proves that Rows + Columns passes
  reach exactly the lines connected to a driven one. Soundness is an induction over
  keys and passes; completeness counts lines: a pass that changes anything adds
  one, so some pass changed nothing, and a pass that changes nothing has closed
  every key. The induction is over sets of naturals (`Induct`, from the
  well-foundedness of <), because the library's induction theorems take an operator;
- `DriveInv` (XT): drive, label and stored diskette are one disk;
- `KeysInv`: makes and breaks still queued alternate, for every code, and lead
  (`Leads`) from the codes the guest has seen down to those of the keys held; the
  queue keeps room for the break of every key held, so a release always fits.
  A pasted character is typed only into an empty queue with no key held.

### Debugger

`DebuggerProofs` assumes positive limits (`LimitsAssumption`), places that are an
initial segment with a vector among them, and laboratories whose jumps stay among
the places. The invariant has a part for each promise and one for what they share:
`TypeInv`; `PolicyInv` (running, plan, skip and stop agree); `StopsAreTrue`;
`RequestInv` (the frame a request waits for keeps its number, return address and
depth, no other frame takes that number, and no more boundaries have passed than
the limit); `CallsInv` (of a disciplined program, the frames are the stacked
return addresses, each boundary pushing and popping both together, CWAI's early
frame included). Four effects do most of the work: what following a boundary does
to frames when it calls, returns, replaces the stack or does neither.

### Processors

`ProcessorProofs` assumes only that there is an address and an offset
(`BoundsAssumption`). Of the byte runtimes, `BoundaryInv` relates a call under way
to the history of what the host completed (`InCall`) and a CPU at rest to what is
owed to retired instructions (`CpuInv`, `AtRest`). Of the 68000, `LatchesInv` says
what an entry must leave. Of the 8088, `AttemptInv` is either `Resting` or `Going`,
and the latter has a conjunct per promise: the owed trap (`Trapping`), the flags an
entry clears (`Clearing`), a refusal leaves the CPU unchanged (`Refusable`), nothing
but prefixes happens before the opcode (`Unfetched`), latches belong to this
instruction (`Latched`), clocks are prefixes plus instruction, once (`Priced`).
What makes them inductive is `Ordered`: in the orders still to be done of an
attempt, those that can refuse come before those that change anything.
`RunReports` is the bounded runner's.

### XT board and EGA

`DeviceProofs` extends `MCDevices` and proves `TransfersHold` from
`ClockAssumption` (a bound of the exact clock, a positive divisor of the refresh
counter). It is one theorem in two behaviours, each with its invariant.

- `BoardInv` (refresh and diskette transfers). `Exact`: the adapter's fields agree
  with its phase, the drive is sampled, the DMA levels and the interrupt line are
  those of the adapter and the counter. `JobInv`: a command under way is waiting for
  its sector, transferring or finished; the bytes granted so far are the first of
  its sector, at the places that follow its base address round the page; memory or
  disk differs from what the command found by those bytes and, at terminal count, by
  the padding of the sector; channel and adapter have the rest left. A single
  grant moves channel, adapter, byte and list, so it is inductive only with all of
  them; what a program or the host does in between either keeps them (`Unmoved`) or
  ends the transfer in an error, which finishes nothing. Pulses within an interval
  are at most two, so a refresh request is never lost in one.
- `EgaInv`: line and frame are those of the registers (`Timed`), the phase is within
  the frame, and the ticks elapsed are the raster's position; a division has one
  quotient and remainder, so ticks add up however they are cut. That a store reads
  back and shows needs no more of the state than its types: it is about addresses
  that meet (`CellsMeet`) and what data a mode writes. The planes, setups,
  port writes and ticks are those `MCDevices` gives; neither `MaxMoves` nor the bound
  on the guest's accesses is used.

### Left to the model checker

- Liveness (`EventsDelivered`, `BatchesContinue`, `InputArrives`,
  `RunKeepsGoing`): the prover has no fairness.
- `EmittedIsDenoted`, `AcceptedIsSafe`, `DecodingIsDeclared`, `MachineIsWired`,
  `ContractIsServed`, `DeviceServes`, `LayoutSurvives`: their modules reach
  recursive operators or bitwise ones, which the prover's arithmetic backend does
  not read, and what they say of a recursive definition is induction over data.
- `AccountsAreTrue`: lessons are concrete programs, and its sums are folds.
- `DiskIsSound`, `InspectorIsTrue`: their modules are within the prover's reach, and
  their inductive invariants were not carried through: a disk's fields and their
  encoded bytes, and the inspector's held trace.

Looking for `TransfersHold`'s inductive invariant corrected the model. A read
command waiting for its sector has not chosen a disk: if the disk is put in
meanwhile, the sector comes from that one. The earlier model remembered the drive
at the command and was right only because its bound left no room to insert a disk
in between.

## 5. What is not modelled, and why

- Instruction semantics, addressing and flags: sequential data transformation,
  tested against hardware fixtures in the repository.
- In `XtInterrupts` device time is a set of request lines that may move at any
  moment between boundaries: every order the timer, keyboard, DMA and diskette
  could produce is covered, the order they do produce is not distinguished.
  `XtDma` has the order of refresh and diskette, and leaves the CPU out.
- The controller's callbacks into the page (`step`, `pauseBeforeStep`, `onChange`)
  are assumed not to call the controller back. No page does; if one stopped and
  ran it from there, `execution-controller.ts` line 71 would queue a second chain.
- The machine guide's copy of the Altair page has no stored session. There,
  leaving during a verification invalidates it without clearing `selecting`
  (`altair-basic.ts:187`), and nothing reloads the page on its return from the
  history cache; the model covers pages with a stored session.
- The change log's registers are one value; which registers a view shows is left
  out.
- A device chapter's write source, initialization or reset that rejects through a
  match is treated as accepted or dropped as the compiler does; the device model
  does not nest matches.
- The CGA, the VDG and the Apple's video circuits, rendering, terminals, key
  decoding, text generation, editor grammars and build scripts.

"partly" components in `PROJECT.json` name what their modules leave out.
