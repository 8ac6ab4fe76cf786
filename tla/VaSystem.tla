------------------------------ MODULE VaSystem ------------------------------
(***************************************************************************)
(* The toolchain: vasm reads a source statement by statement, expands the  *)
(* pseudo instructions, resolves the labels and writes an image (VasmEmit  *)
(* under the rules of vasm.y); va loads the image and runs it (VaCpu).     *)
(*                                                                         *)
(* Left out: what makes a buffer grow badly (Careful), see emit_growth.    *)
(***************************************************************************)
EXTENDS VaCpu, Sequences

CONSTANTS
  Programs,    \* sources: sequences of statements
  StackRoom,   \* dwords a stack holds
  Block, FixedSizes, Labels, MaxStatements, Zero, Unset  \* see VasmEmit

\* No statement but PUSH and POP touches SP.  A LOAD32 with a condition on FLGS
\* changes its own condition: left out.
ASSUME ProgramAssumption ==
  /\ InitSP = 4 * (StackRoom - 1)
  /\ \A p \in Programs : \A k \in DOMAIN p : p[k].op # "LABEL" =>
       /\ p[k].reg # SP
       /\ p[k].op = "LOAD32" /\ p[k].reg = FLGS => p[k].cond = "ALWAYS"

VARIABLES
  source,      \* the program
  \* the emit_context of VasmEmit
  apos, ahighest, asize, aoffset, afixed, abuf, acap, alabels, arefs, apending,
  aturn, astatus, aoverrun, astatements,
  starts,      \* history: the position of each line, and of the end
  seen         \* history: the program as its last whole line left it

asmvars == <<apos, ahighest, asize, aoffset, afixed, abuf, acap, alabels, arefs,
             apending, aturn, astatus, aoverrun, astatements>>
allvars == <<source, asmvars, starts, seen, vars>>

Asm == INSTANCE VasmEmit WITH
  AddrSize <- DwordSize, DefaultOffset <- LoadAddr, Careful <- TRUE,
  Offsets <- {}, Targets <- {}, Aligns <- {}, Data <- {}, Hows <- {},
  pos <- apos, highest <- ahighest, size <- asize, offset <- aoffset,
  fixed <- afixed, buf <- abuf, cap <- acap, labels <- alabels, refs <- arefs,
  pending <- apending, turn <- aturn, status <- astatus, overrun <- aoverrun,
  statements <- astatements

-----------------------------------------------------------------------------
(* The statements of the grammar, as instructions                          *)

First(op, prefix) ==
  CHOOSE b \in Byte : OpOf[b] = [op |-> op, prefix |-> prefix]
CondField(cond) == CHOOSE f \in Reg : CondOf[f] = cond

\* CPU_REG_R7: the last register with word registers.
R7 == NReg \div 2 - 1
Low(d)  == d % WordSize
High(d) == d \div WordSize

\* One LOADI of the pair that loads a dword: the half into the word register.
LoadHalf(r, cond, half, d) ==
  IF half = "low"
  THEN Imm16Format(First("LOADI", "WORD"), CondField(cond), 2 * r, Low(d))
  ELSE Imm16Format(First("LOADI", "WORD"), CondField(cond), 2 * r + 1, High(d))

LoadPair(r, cond, d) == <<LoadHalf(r, cond, "low", d), LoadHalf(r, cond, "high", d)>>

\* Fault: R7 not given back.
UnswappedLoad32(r, cond, d) ==
  LET swap == RegFormat(First("XCHG", "DWORD"), CondField(cond), 0, R7, r)
  IN  IF r <= R7 THEN LoadPair(r, cond, d) ELSE <<swap>> \o LoadPair(R7, cond, d)
\* LOAD32: through R7 where the register has no word registers.
Load32Quads(r, cond, d) ==
  LET swap == RegFormat(First("XCHG", "DWORD"), CondField(cond), 0, R7, r)
  IN  IF r <= R7 THEN LoadPair(r, cond, d)
      ELSE <<swap>> \o LoadPair(R7, cond, d) \o <<swap>>

\* The instructions of a statement, behind the label reference if it has one.
Quads(s) ==
  LET c == CondField(s.cond)
      stack(op) == Imm16Format(First(op, "IMM"), c, SP, Pair(s.reg, s.reg))
  IN  CASE s.op = "LOAD32" -> Load32Quads(s.reg, s.cond, s.val)
        [] s.op = "LOADADR" -> << >>
        [] s.op = "LDCALL" -> <<RegFormat(First("CALL", "DWORD"), c, s.reg, 0, 0)>>
        [] s.op \in {"LDJMP", "JMP"} ->
             <<RegFormat(First("JMP", "DWORD"), c, s.reg, 0, 0)>>
        [] s.op = "PUSH" -> <<stack("STOREMA")>>
        [] s.op = "POP"  -> <<stack("LOADMA")>>
        [] s.op = "CMP"  -> <<Imm12Format(First("CMP", "IMM"), c, 0, s.reg, s.val)>>
        [] s.op = "SUB"  -> <<Imm12Format(First("SUB", "IMM"), c, s.reg, s.reg, s.val)>>
        [] s.op = "STOP" -> <<RegFormat(First("STOP", "DWORD"), c, 0, 0, 0)>>

\* A byte of the image: of an instruction, or of a LOADI of label resolution.
ByteOf(cell) ==
  LET item == cell[1]
      how  == item[3]
  IN  IF cell = Zero THEN 0
      ELSE IF 0 \in DOMAIN item THEN item[cell[2]]
      ELSE LoadHalf(how.reg, how.cond, item[2], item[1])[cell[2]]

Image == [k \in 1 .. ahighest |-> ByteOf(abuf[k - 1])]

-----------------------------------------------------------------------------
(* The assembler                                                           *)

LabelRefs == {"LOADADR", "LDCALL", "LDJMP"}
This == source[astatements + 1]
How  == [reg |-> This.reg, cond |-> This.cond]

\* A statement that may begin: the one before is done.
Reads(ops) ==
  /\ astatus = "parsing" /\ apending = << >>
  /\ astatements < Len(source) /\ This.op \in ops

\* The line begins here; the program does not notice.
Begins == starts' = Append(starts, apos) /\ UNCHANGED <<source, seen, vars>>

LabelStatement == Reads({"LABEL"}) /\ Asm!Label(This.label) /\ Begins

RefStatement ==
  /\ Reads(LabelRefs) /\ This.reg <= R7
  /\ Asm!LabelRef(This.label, How, IF This.op = "LOADADR" THEN << >> ELSE <<4>>)
  /\ Begins

Load32Statement ==
  Reads({"LOAD32"}) /\ Asm!Load32(Len(Quads(This))) /\ Begins

PlainStatement ==
  /\ Reads({"JMP", "PUSH", "POP", "CMP", "SUB", "STOP"})
  /\ Asm!Instruction(Quads(This)[1]) /\ Begins

\* The next instruction of the statement being read.
EmitRest ==
  /\ apending # << >>
  /\ LET quads == Quads(source[astatements])
     IN  Asm!EmitPending(quads[Len(quads) - Len(apending) + 1])
  /\ UNCHANGED <<source, starts, seen, vars>>

\* yyerror at a label defined twice, at a label reference of a register beyond
\* R7, or where the buffer has to grow and cannot.
Wrong ==
  /\ apending = << >> /\ astatements < Len(source)
  /\ CASE This.op = "LABEL"      -> alabels[This.label] # Unset
       [] This.op \in LabelRefs  -> This.reg > R7 \/ Asm!Exceeds(apos, 8)
       [] This.op = "LOAD32"     -> FALSE
       [] OTHER                  -> Asm!Exceeds(apos, 4)

Rejected == seen' = [seen EXCEPT !.phase = "rejected"]

AsmFails ==
  /\ \/ Asm!StatementFails /\ (Wrong \/ apending # << >>)
     \/ Asm!ResolveFails
  /\ Rejected /\ UNCHANGED <<source, starts, vars>>

AsmEnds ==
  /\ astatements = Len(source) /\ Asm!EndOfInput /\ Begins

AsmResolves ==
  /\ Asm!Resolve \/ Asm!WriteFile
  /\ UNCHANGED <<source, starts, seen, vars>>

Assemble ==
  \/ LabelStatement \/ RefStatement \/ Load32Statement \/ PlainStatement
  \/ EmitRest \/ AsmFails \/ AsmEnds \/ AsmResolves

-----------------------------------------------------------------------------
(* The emulator, and what the program is seen to do                        *)

Visible == Reg \ {SP}
Start(k) == LoadAddr + starts[k]
IsLabel(k) == k \in DOMAIN source /\ source[k].op = "LABEL"
LinesAt(p) == {k \in DOMAIN starts : ~IsLabel(k) /\ p = Start(k)}
Inside(k, p) == k \in DOMAIN source /\ p > Start(k) /\ p < Start(k + 1)

\* The program at the beginning of line k, with these registers and memory.
SeenAt(k, rf, m) ==
  [line |-> k, file |-> [r \in Visible |-> rf[r]], phase |-> "running",
   stack |-> [j \in 1 .. ToDword(InitSP - rf[SP]) \div 4 |->
                Join(Read(m, ToDword(InitSP - 4 * (j - 1)), 4, 0))]]

Observe ==
  seen' =
    LET lost == [seen EXCEPT !.phase = "lost"]
        room == ToDword(InitSP - regs'[SP]) \in 0 .. 4 * StackRoom
        at   == LinesAt(pos')
    IN  IF seen.phase # "running" THEN seen
        ELSE IF status' = "crashed" THEN lost
        ELSE IF status' = "stopped" THEN [seen EXCEPT !.phase = "ended"]
        ELSE IF Inside(seen.line, pos') THEN seen
        ELSE IF at = {} \/ ~room THEN lost
        ELSE SeenAt(CHOOSE k \in at : TRUE, regs', mem')

SysBoot ==
  /\ status = "created" /\ astatus = "written"
  /\ \/ /\ LoadImage(Image)
        /\ seen' = SeenAt(CHOOSE k \in LinesAt(LoadAddr) : TRUE, regs, mem)
     \/ BootFails /\ Rejected
  /\ UNCHANGED <<source, asmvars, starts>>

SysTurn == Turn /\ Observe /\ UNCHANGED <<source, asmvars, starts>>

SysInit ==
  /\ Init /\ Asm!Init
  /\ source \in Programs /\ starts = << >>
  /\ seen = [line |-> 0, file |-> << >>, phase |-> "written", stack |-> << >>]

SysNext == Assemble \/ SysBoot \/ SysTurn

\* The loop of cpu_execute turns by itself.
SysSpec == SysInit /\ [][SysNext]_allvars /\ WF_allvars(SysTurn)

-----------------------------------------------------------------------------
(* What the toolchain promises                                             *)

Program == INSTANCE VasmProgram WITH
  line <- seen.line, file <- seen.file, stack <- seen.stack,
  phase <- seen.phase,
  place <- IF seen.phase \in {"written", "rejected"} THEN << >>
           ELSE [k \in DOMAIN starts |-> Start(k)]

\* The emulator runs the image as the source says, line by line: the
\* expansions of pseudo instructions, the layout, the label addresses and the
\* encoded fields of the assembler agree with what the CPU decodes, loads,
\* jumps to and keeps on its stack; a program that is not correct never runs
\* (vasm.y, emit.c, emulator.c, cpu.c).
ImplementsProgram == Program!Spec

\* The only jumps lead forwards to labels, nothing is popped, and the stack has
\* room for what is pushed.
Forward ==
  /\ Cardinality({k \in DOMAIN source : source[k].op = "PUSH"}) <= StackRoom
  /\ \A k \in DOMAIN source :
       /\ source[k].op \notin {"JMP", "POP"}
       /\ source[k].op \in {"LDJMP", "LDCALL"} =>
            \E m \in k .. Len(source) : IsLabel(m) /\ source[m].label = source[k].label

\* Such a program, once loaded, comes to its end, at a STOP or at the zeroes
\* behind the image, and without a crash: no expansion and no resolved address
\* leads the instruction pointer elsewhere (label_resolution, cpu_execute).
ForwardProgramsEnd ==
  Forward /\ status = "running" ~> seen.phase = "ended" /\ status = "stopped"
=============================================================================
