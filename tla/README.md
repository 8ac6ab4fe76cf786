# A TLA+ model of the VA: emulator, assembler and disassembler

emylathor is a virtual machine, the VA, in C: a 32-bit register CPU with an
emulator (`va`), an assembler (`vasm`) and a disassembler (`vdis`).  This
directory holds TLA+ modules of its core, the TLC runs that check them and
proofs that TLAPS checks.  Paths below are relative to `src/`, the repository.

Run a check with `tlc -config cpu_arith.cfg MCVaCpu` (the table of runs below
names the module of each configuration) and a proof with `tlapm VaCpuProofs.tla`.

## 1. Inventory

Everything here is sequential C in three processes that meet only through
files: vasm writes an image, va loads it, vdis reads it.  There are no threads
and no callbacks but the port handlers.  What is hard is therefore not
interleaving.  It is arithmetic at the edges of the widths, the order in which
one instruction reads and writes registers that may be the same, accesses that
no check stops, long runs of legal instructions, and a buffer that is written,
grown and patched in three different phases.

| Component | State | Operations | Interacts with |
|---|---|---|---|
| CPU core, `src/cpu/cpu.c`, `src/common/rawdefs.h` | 16 registers (R0.., SP, FLGS), 16 control registers, instruction pointer, instruction counter | one turn of `cpu_execute`: fetch, condition, one of 36 opcodes, count, step | decode, memory and ports by calls |
| Fetch and decode, `src/cpu/decode.c` | none | four bytes to the fields of an instruction | memory |
| Memory, `src/cpu/memory.c` | an array of bytes (4 MB); cache lines that nothing uses | read and write bytes, words, dwords | CPU, boot |
| Ports, `src/cpu/pio.c` | 128 handlers, one of which (port 0) exists and keeps a dword | read, write, register (never called) | CPU |
| Boot, `src/mkcontext.c`, `src/emulator.c` | command line, image file | allocate, load the image at 4096, run, exit | all of the above |
| Integer conversions, `src/common/macros.h`, `types.h` | none | split, join, sign | all |
| Emit buffer, `src/assembler/emit.c` | position, highest position, size, buffer, labels, label references | emit an instruction or byte, reserve a reference, define a label, grow | the grammar calls it |
| Assembler grammar, `src/assembler/vasm.y` | the emit context | one action per statement; after the last one label resolution and the file | scanner, emit buffer, name tables |
| Assembler scanner, `src/assembler/vasm.l` | flex's | numbers, names, register ranges | grammar |
| Name tables, `src/common/lookup.c` | constant tables | name to code, code to name | grammar, scanner, disassembler |
| Disassembler, `src/disassembler/` | image buffer | print one line per instruction | decode, name tables |
| Dump, devices, x86 converter, rlang, sandbox, test programs | none of interest | output, an empty function, texts | - |

What makes each of them correct:

* CPU: comparisons and conditions agree for signed and unsigned numbers; flags
  report exactly the overflows, also when the result goes to FLGS; division by
  anything but zero satisfies its equation; logic and shifts act bit by bit; narrow register
  writes leave the rest of the register alone; STOREMA and LOADMA make a stack;
  CALL and a jump to RC return; a program that ended is not taken for one that
  paused; nothing leaves its width.
* Memory and ports: a store changes the bytes it names and no others; port
  numbers stay in the table.
* Emit buffer and grammar: the allocation is never left, the file holds what was
  emitted and nothing uninitialised, every label reference is resolved at its
  reserved place.
* Scanner, grammar, name tables, disassembler: what the assembler encodes is what
  the disassembler prints, the assembler accepts the listing and emits the same
  file again, and what is no instruction does not turn into one.
* The whole: the emulator does what the source says, line by line, though it
  only ever sees the bytes of expanded and resolved instructions.

Every hazard, at its line and with the properties that guard it, is in
`PROJECT.json`.

## 2. Modules

| Module | What it is |
|---|---|
| `VaFormat` | the formats of instructions: packing fields into bytes, taking them out |
| `VaWord` | bytes, words, dwords, flags, conditions and the arithmetic unit |
| `VaCpu` | the emulator: boot, fetch, decode, all instructions, crash, end |
| `VaStack` | abstract: a last-in first-out stack of register values |
| `VaCpuProps` | what the instructions promise; the refinement of `VaStack` |
| `MCVaCpu`, `MCVaPrograms` | instances: opcode tables, register files, images; whole programs |
| `VasmEmit` | the emit buffer under the statements of the grammar |
| `VasmEmitProps` | what the emit buffer promises |
| `MCVasmEmit` | instance: and a history of what was emitted where |
| `VasmCodec` | scanner, grammar, name tables and disassembler: text to bytes and back |
| `VasmCodecProps`, `MCVasmCodec` | what text and bytes promise each other; sources |
| `VasmProgram` | abstract: what a program means, statement by statement |
| `VaSystem` | `VasmEmit` and `VaCpu` composed; the refinement of `VasmProgram` |
| `MCVaSystem` | instance: sources |
| `VaFormatProofs`, `VaCpuProofs`, `VaStackProofs`, `VaStepProofs`, `VaArithProofs` | theorems about the formats and the emulator |
| `VasmEmitProofs`, `VasmImageProofs`, `VasmCodecProofs` | theorems about the assembler and the disassembler |

Extensions: `VaFormat` <- `VaWord` <- `VaCpu` <- `VaCpuProps` <- `MCVaCpu` <-
`MCVaPrograms`; `VasmEmit` <- `VasmEmitProps` <- `MCVasmEmit`; `VaFormat` <- `VasmCodec` <- `VasmCodecProps` <- `MCVasmCodec`; `VaCpu` <- `VaSystem` <-
`MCVaSystem`.  `VaCpuProps` instantiates `VaStack`; `VaSystem` instantiates
`VasmEmit`, the assembler, and `VasmProgram`, which it implements.  The proofs:
`VaFormatProofs`, and `VaCpuProofs` on `VaCpuProps`, <- `VaStackProofs` <-
`VaStepProofs` <- `VaArithProofs`; `VasmEmitProofs` <- `VasmImageProofs`;
`VasmCodecProofs` on `VasmCodecProps` and `VaFormatProofs`.

### VaWord and VaCpu

`regs`, `cregs` and `pos` are the fields of `cpu_context`, `mem` is the array of
`memory_context`, `latch` the static variable of `pio_null`, `count` the
instruction counter, `step` the parameter of `cpu_execute`.  `status` stands for
where control is: before `cpu_execute` (created), in its loop (running),
returned from a single step (paused), returned from STOP or FAIL or exited
(stopped), killed (crashed).  `ret` is what was returned.

A step is one turn of the loop of `cpu_execute`, with everything that turn
does: fetch at `pos`, advance it by four, test the condition against FLGS,
execute, count, and return -1 to a caller that steps.  Each opcode is an action
named as its `ins_` function.  The order of the writes inside an instruction is
kept where it can be seen: MUL, SDIV and the shifts write the flags and then
the destination, ADD, SUB and SMUL the other way round; CALL writes RC before it
reads its target; LOADMA writes the stack pointer last.  `Skip` is a false
condition, `Unknown` an opcode without a case.

Undefined behaviour is a choice.  No access checks the size of the memory, so an
access outside reads any byte of `WildBytes`, or loses its write, or `Crash`
ends the emulator.  A read outside the table of ports may crash.  Registers come
uninitialised from `malloc`: `Init` takes any file of `InitRegs`.

Widths are parameters.  A byte is a pair of register fields (every encoding of
the VA pairs them so), a word two bytes and a dword four, and `NReg`, the number
of values of a register field, fixes them all.  The source has `NReg = 16`; TLC
runs with 4 registers, 4-bit bytes and 16-bit dwords where it multiplies or
shifts (its integers have 32 bits), and with 8 registers, 6-bit bytes and 24-bit
dwords elsewhere.  The top four registers are RC, BP, SP and FLGS, as in the
source.  No definition takes 16 or 32 for a width, and the proofs are for every
`NReg`.  A 4-bit byte has room for 16 opcodes, so `OpOf`, the table of opcodes and
prefixes, and `CondOf`, the table of conditions, are constants too, and each run
brings the ones it is about.  The bit operations of C come as tables on bytes,
with an assumption that pins them bit by bit.

### VasmEmit

`pos`, `highest`, `size`, `offset`, `fixed`, `buf`, `labels` and `refs` are the
fields of `emit_context`.  `cap` is what is really allocated: the code only has
`size`, and the two may differ.  `pending` holds the items a statement still has
to emit, as `.dword` emits byte by byte with a check of the buffer before each,
and `turn` counts the LOADI that label resolution writes, two per reference.
Contents are abstract: a datum, a cleared byte, an uninitialised byte, or a half
of a label's address.  A write outside the allocation sets `overrun`; from then
on the assembler may crash.

`Careful` restricts programs to those the buffer is made for (`Fits`): no
position comes within a block of 2^32, and an item that makes a growing buffer
grow starts exactly at its end.  With `Careful = FALSE` every program is
allowed; the run `emit_growth` shows what then happens.

### VasmCodec

A source is a sequence of lines, a line an operation, a condition and operands
as the scanner hands them on: a name, a hexadecimal or decimal number, or a
register range with whether it was written in small letters.  `Grammar` is the
set of the rules of `exp`, each with the kinds of its operands and the fields
they fill; every rule but those of STOREAS and LOADAS exists with and without a
condition, so a condition is part of the line, and the two rules whose version
with a condition reads an operand from another table are the exceptions in
`Tables`.  A number beyond a word or beyond the 12 bits of its field rejects the
source, as `yyerror` and the scanner exit.  `Forms` are the `snprintf` of
`lib_vasmdis.c`.  The name tables keep their repeated codes, and a look-up that
fails gives what `lookup.c` gives.

The specification is the test of the Makefile (`test-vasm`), with one more
round: `source` is assembled to `file`, `file` listed to `listing`, and
`listing` assembled to `again`.  A file whose size is no multiple of four is
listed to its last byte; what `vdis` reads behind the content is the NUL that
`g_file_load_contents` appends, and then any byte (`Garbage`).  A text without a
line, such as the listing of an empty file, is a syntax error; in `VasmEmit`, a
program without a statement is a text of blank lines, which the grammar accepts.

### VasmProgram and VaSystem

`VasmProgram` says what a source means to its author: registers and a stack of
dwords, a statement a step, labels as places.  It knows no bytes.  It leaves
open where the lines are laid out (`IsLayout`): a label, a return address and a
LOADADR only have to agree with that one layout.  A program that jumps to no line, pops
an empty stack or pushes onto a full one is lost, and anything may follow.

`VaSystem` runs the toolchain.  The assembler is an instance of `VasmEmit`; each
statement of `source` becomes the instructions `Quads` lists, the action of
`VasmEmit` for it and, one item a step, the rest of an expansion.  The written
image is `Image`, in which the items of `VasmEmit` become bytes by the formats of
`VaFormat`; the emulator, `VaCpu`, loads and runs it.  The two meet in nothing
else.

The refinement mapping has two history variables.  `starts` records the
position at which each line began, which gives `place`.  `seen` is the program
as the last whole line left it: while the instruction pointer is inside a line
(`Inside`: the XCHG and LOADI of a LOAD32, the LOADI before a jump) nothing is
seen, and when it is at the beginning of a line, the registers and the dwords
above SP are.  So a step of `VaSystem` is a step of `VasmProgram` when a line
ends, and stutters otherwise.

## 3. Runs

| Run | Checks | Result |
|---|---|---|
| `cpu_arith` | `CompareDecides`, `OverflowExact`, `DivisionEquation`, `BitwiseExact` | hold |
| `cpu_machine` | `TypeOK`, `EndIsFinal`, `StoreConfined`, `NarrowWritesIsolated`, `CmpXchgRetries`, `BitwiseExact` | hold |
| `cpu_programs` | `StackRoundTrip`, `ImplementsStack`, `LoopComputes`, `CallsReturn` | hold |
| `emit` | `TypeOK`, `BufferLayout`, `NeverOverruns`, `RefsResolved`, `ImageInitialised`, `ImageIsEmitted` | hold |
| `codec` | `TypeOK`, `ListingIsSource`, `Reassembles`, `ListingStable`, `OverreadsOnlyOddSizes` | hold |
| `system` | `ImplementsProgram`, `ForwardProgramsEnd` | hold |
| `cpu_fail_status` | `FailSignalsFailure` | violated |
| `cpu_in_port` | `PortsInRange` | violated |
| `cpu_mul_carry` | `MulSetsCarry` | violated |
| `cpu_div_zero` | `ZeroDivisorFires` | violated |
| `emit_growth` | `GrowthFits` | violated |
| `codec_operands` | `OperandsAsWritten` | violated |

Bounds, and why they are enough:

* `cpu_arith`: one instruction (`MaxCount = 2`, one turn and the STOP behind it)
  from every register file over corner values (0, 1, 5, the largest positive, the
  smallest negative and the largest dword), with flags all set and all clear, for
  every pair of operand registers and with R0 and FLGS as destination.  The
  properties compare two adjacent states, so one instruction is enough.
* `cpu_machine`: up to four turns of a table of forty opcodes and prefixes.  The
  values are addresses before, across and behind the end of the memory and at
  the top of the dwords, and a port beyond the last.  Operands alias each other,
  SP and FLGS in every way; images of two instructions jump, call (also through
  RC), step, fall out of the memory or do not fit into it.
* `cpu_programs`: 60 turns.  All programs of four instructions out of pushes and
  pops of one or two registers and two loads, as long as they respect the
  stack's discipline, from register files with free contents; a loop
  for the counters 0, 1 and 5; two nested calls.  `StackRoundTrip` quantifies over
  every register as stack pointer and every range, in every state of these
  programs: stack pointers at the bottom of the memory, which wrap, contents
  pushed before, ranges that are empty or hold the stack pointer.
* `emit`: blocks of 8 bytes, 64 positions, five statements, two labels, two ways
  (register and condition) to refer to one, fixed buffers of 20 bytes (no
  multiple of a block) and growing ones.  Three instructions or one reference
  and an instruction make the buffer grow; `.at 0` and `.at 12` make statements
  overlap references and leave gaps; `.align` 0, 3 and 4 the directive's cases.
  Labels and the ways to refer to them are symmetric: no action and no property
  tells them apart.
* `codec`: the widths of the source.  Every rule of the grammar with every
  operation, every name, every condition, eleven corner numbers and ranges (0,
  the ends of 12 bits and of words, negative ones, small letters); 6144 raw words
  with every first byte; programs of three lines of zero to four bytes.  The
  properties are about lines one by one, but for the sizes, which three lines
  exercise.
* `system`: eight registers, 24-bit dwords, 64 values of a byte.  `R3` is the
  source's R7, the last register with halves.  4009 sources: all programs of two statements
  out of nineteen and of three out of eight, with a label at every place or
  nowhere; a loop, a call within a call that saves RC, pushes without end, a
  source that makes the buffer grow over a reference, and a label defined
  twice; growing and fixed buffers (of 24 bytes, too small for some); flags all
  clear or all set.  24 instructions and a stack of four.

Deadlock is not checked: emulator and assembler end.

`LoopComputes` and `CallsReturn` are liveness: they assume weak fairness of
`Turn`.  The loop of `cpu_execute` is a `while` in a process of its own with
nothing to wait for, so a turn that can be made is made.  No fairness of booting
or of a stepping caller is assumed.  `ForwardProgramsEnd` assumes the same of
`SysTurn`, the turn as `VaSystem` has it, and nothing of the assembler: it starts
from a program that runs.

### What the violated runs show

* `cpu_fail_status`: FAIL returns its 16-bit code and `main` returns it; a code
  that is a multiple of 256 ends with status 0, the status of success
  (`src/cpu/cpu.c:158`, `src/tests/README.md:3`).
* `cpu_in_port`: IN masks the number of its register with 0x7F and not the
  register's value, so a port above 127 reaches `pio_read`
  (`src/cpu/cpu.c:495`, `src/cpu/pio.h:71`).
* `cpu_mul_carry`: MUL with destination FLGS overwrites the carry it has set
  (`src/cpu/cpu.c:666`, `doc/va/contents/instructionset.tex:368`).
* `emit_growth`: an item that crosses the end of a growing buffer makes
  `realloc` ask for the block the buffer already has, and the `memset` clears
  behind it (`src/assembler/emit.c:249`, the comment at 234).
* `cpu_div_zero`: DIV and SDIV by zero return without a trace, and the program goes
  on (`src/cpu/cpu.c:485`, `:779`), where `doc/va/contents/instructionset.tex:151`
  and `:406` announce an exception.  `DivisionEquation` is about other divisors.
* `codec_operands`: the trace assembles a register range in small letters as R0:R0
  (`src/assembler/vasm.l:101`), although `start.tex:19` says the syntax is
  case-insensitive, its example at 82 writes such a range, and `vasm.l:41` says
  what `upper` is for.  The property fails for two more forms: ST2, ST3 and ST4 are
  ST1 (`src/common/lookup.c:95`), four registers in
  `doc/va/contents/registers.tex:48`; and LOADRD with a condition on a word register
  and XCHGC with a condition look operands up in other tables and get register 0
  (`src/assembler/vasm.y:575`, `:843`), while by `instructionset.tex:24` a condition
  only says whether an instruction is executed.

`Misread` of `VasmCodecProps` names these three forms and one more: MOVTC and
MOVFC are accepted with their operands in either order and encoded as written
(`vasm.y:282`), although the manual has one order; it does not say what the other
should mean.  `ListingIsSource` is about all other lines.

Divergences without a run: at a position within four bytes of 2^32 the sum in the
size check wraps, and a fixed buffer is written behind its end
(`src/assembler/emit.c:236`), where `start.tex:9` promises an error; `Fits` keeps
careful programs away from there.  `.offset` changes the addresses of the labels
behind it only, as `emit_label` adds it when the label is defined
(`src/assembler/emit.c:81`), where `start.tex:172` says it is used when labels are
resolved.  An immediate beyond 12 bits is an error, where
`start.tex:69` says it is truncated, and so is an operand of `.byte` beyond 8
bits (`start.tex:137`).  A LOAD32 with a condition on FLGS changes the flags it
depends on (`vasm.y:1014`); `ProgramAssumption` leaves it out.  MOD with an
immediate is assembled, and the emulator reads a register.  A store, or an
image, outside the memory is checked nowhere; the model loses its bytes or
crashes, and as nothing promises a check no property asks for one.

## 4. Theorems

All are proved by `tlapm` from the named assumptions of the modules, which TLC
evaluates on the instances:

* `FieldAssumption`, `WidthAssumption`: a byte is a pair of fields and has a
  quarter of the `DwordBits` bits of a dword; the flags and the bytes of all
  registers fit into a dword.
* `PowerAssumption`: 2^0, 2^1, and 2^(m+n) = 2^m * 2^n up to `DwordBits`.  These are
  laws of numbers and say nothing of the VA; the provers have no theory of
  powers.
* `BitwiseAssumption`: the tables of `&`, `|` and `^` are right bit by bit.
* `MachineAssumption`, `EmitAssumption`: the types of the machine's and the buffer's
  parameters.
* `CodecAssumption`: the fields have sixteen values, as the name tables do; sources
  are finite sequences of lines the scanner can hand on (`Line`); what vdis reads
  behind a file are bytes.

`VaCpuProofs`, for every register width, memory size, image, opcode table and
byte read outside the memory:

* `TypeCorrect`: `Spec => []TypeOK`.  `TypeOK` is inductive.  The argument is
  arithmetic: four bytes joined are below 2^32 (`JoinType`, from `Digit`), a flag
  set or cleared keeps a dword a dword (`WithFlagType`), a register field is a
  half of a byte (`FieldTypes`), narrow registers lie inside the dword registers
  (`GetType`, `PutType`); then one lemma per group of instructions.
* `EndFinal`: `Spec => []EndIsFinal`.  It needs `TypeOK`, as FAIL's code has to
  be a natural number.

`VaFormatProofs`, for every width of a register field: `RegFormatDecodes`,
`Imm12FormatDecodes` and `Imm16FormatDecodes`, that `Fields` undoes the formats.
The lemmas are the division theorem (`DivMod`, `DivModUnique`) and what follows
for pairs and digits.

`VaStackProofs`, for the same: `PopUndoesPush`, `Spec => []StackRoundTrip`.  A
dword is its bytes (`JoinBytes`).  `BytePlace` is the heart: the address LOADMA
computes for byte k of the i-th register of a range is, modulo the dwords, the
place where STOREMA put just this byte, whatever the stack pointer and however
the addresses wrap; then each popped register is the pushed one
(`PoppedRegister`).  The range may hold the stack register.

`VasmEmitProofs`, for every block size, address width, `-f` operand and program:

* `TypeCorrect`: `Spec => []TypeOK`, for all programs, careful or not.
* `LayoutHolds`, `Contained`, `AllResolved`, `NothingUninitialised`: under
  `Careful`, `BufferLayout`, `NeverOverruns`, `RefsResolved` and
  `ImageInitialised` are invariants.  None but the first is inductive.  The
  invariant `IInv` adds: what is allocated is what `size` says (`BufferLayout`),
  no byte of the whole buffer is uninitialised (`Initialised`), the bytes that
  resolution has written so far hold their LOADI unless a later reference has
  them too (`Resolved`), and nothing is left to resolve in a written image
  (`Complete`).  `EmitFits` is the heart: an item that fits either stays inside
  the allocation or finds a full buffer of whole blocks, where one more block is
  exactly what `realloc` gives.

`VasmImageProofs`: `ImageFaithful`, that under `Careful` the image is what was
emitted (`ImageIsEmitted`).  `AsMeant`, the invariant added to `IInv`, says that
the whole buffer agrees with the history and that nothing was emitted behind
it, so a byte that growth clears was meant to be clear.

`VaStepProofs`: what one turn leaves in registers and memory.  A step that counts
an instruction is that instruction's own action, and the fetch has one outcome
(`Counted`, `Dispatched`), which reduces an action property to one action.

* `CmpXchgExact`: `Spec => CmpXchgRetries`.  A dword written is read back
  (`DwordReadBack`), and the flags are set one by one without disturbing each
  other (`FlagSet`, `FlagKept`).
* `StoresStayInPlace`: `Spec => StoreConfined`.  Only four opcodes write memory
  (`Writers`); the two of the property compare the address with the largest dword
  before they write (`SignedValue`, `Reached`).
* `NarrowMovesIsolated`: `Spec => NarrowWritesIsolated`.  A register whose byte is
  replaced keeps the other three (`BytesJoin`, `PutIsolated`).
* `StackRefined`: `Spec /\ [][KeepsStack]_vars => ImplementsStack`, the refinement
  of `VaStack`.  `KeepsStack` is the discipline of the program: SP moves by STOREMA
  and LOADMA only, of ranges without SP, into the memory and not around the whole
  address space, pops no more than was pushed, and nothing else writes the
  pushed dwords.  Programs that do otherwise have no stack to speak of.  The
  invariant `StackInv` says that SP is a whole number of dwords away from `InitSP`
  and that the dwords between lie in the memory: without the second half a pop
  could read bytes no push ever wrote.  A pushed register is at the place the
  mapping reads (`PushedPlace`, from `PoppedRegister`), the older dwords are not
  touched even where the stack wraps (`PushLeaves`), and a pop reads the places
  the mapping names (`PopStep`).

`VaArithProofs`: the arithmetic unit against the integers and against bits, for
every width.

* `CompareExact` (`CompareDecides`), `FlagsExact` (`OverflowExact`) and
  `DivisionExact` (`DivisionEquation`, divisors other than zero) rest on two's complement: what a dword means
  as a signed number (`HalfDword`, `SignedFits`), that a sum or difference is off by
  one period at most (`ModShift`, `OneOverflow`), that C's division truncates
  (`TowardZero`), and that the upper dword of the 64-bit product is what a dword
  cannot hold (`ProductExceeds`, `HighDword`).
* `LogicExact` (`BitwiseExact`): bit n of a number is a bit of its quotient or of its
  remainder by a power of two (`HigherPart`, `LowerPart`, `ShiftedPart`, `SignPart`,
  from `DivDiv`), which gives the shifts and the sign extension (`ShlBits`,
  `ShrBits`, `SarBits`, `ExtendBits`); a dword's bits are those of its bytes
  (`ByteBits`), which gives the logic from the tables (`LogicBits`).

`VasmCodecProofs`, for sources of any length and every overread.  The invariant
`IInv` adds to the types how far each phase has come (`Progress`), that the file
holds the bytes of the lines read so far (`FileIsSource`), the listing the lines
of the bytes (`ListingIsFile`), and the second file the bytes of the listing
(`AgainIsListing`); none of the properties is inductive, as they speak of
finished runs only.

* `CodecTypes`, `OverreadConfined`: `TypeOK` and `OverreadsOnlyOddSizes`.
* `ListingShowsSource` (`ListingIsSource`), `ListingReassembles` (`Reassembles`) and
  `ListingIsStable` (`ListingStable`).  Names and codes are inverse where the tables
  repeat no code (`NameCode`, `CodeName`); a line has one rule (`RuleUnique`), whose
  operands the form of its opcode and prefix prints (`RuleForm`); the formats
  decode what they encode (`EncodedFields`).  So a listed line is the meaning of
  the source's (`ListedEncoded`), and what is printed is read back
  (`PrintedAgain`, `ReadableAccepted`).

Only model-checked: the refinement of `VasmProgram` (`ImplementsProgram`; its mapping
goes through the whole of the CPU and of the buffer), and the liveness
properties (`LoopComputes`, `CallsReturn`, `ForwardProgramsEnd`), which are out of the
prover's reach.

## 5. Not modelled

Exhausted memory at start-up, the cache lines of `memory_context`, the dump and
statistics output and the debug messages.  Files are sequences of bytes; a
failing `fopen` is an exit.  Of the scanner, the matching of characters: white
space, comments, and spellings of numbers such as repeated minus signs.  Of
ports, `pio_register_port`, which nothing calls.  The directives `.at`,
`.offset`, `.align` and the data directives are in `VasmEmit`; `VaSystem` is
about programs without them, as a program cannot say which of its bytes the
emulator will run.  The x86 converter, rlang and the sandbox are not part of a
build.

## 6. What is left

In this order:

1. `ImplementsProgram` for a single statement, LOAD32 first: its expansion
   loads the dword and gives R7 back, from `Imm16FormatDecodes` and
   `Dispatched`; then push and pop, from `PushStep` and `PopStep`.
2. Data among the statements of `VaSystem`, loaded by address through LOADADR.
3. A port with a handler of its own, if a caller of `pio_register_port` appears.
