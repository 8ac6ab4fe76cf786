------------------------------- MODULE VaCpu --------------------------------
(***************************************************************************)
(* The emulator va: it boots (mkcontext.c, emulator.c), fetches and        *)
(* decodes (decode.c), executes one instruction after the other (cpu.c) on *)
(* registers, flat memory (memory.c) and ports (pio.c), and ends.          *)
(*                                                                         *)
(* One step is one turn of the loop of cpu_execute.  An access outside the *)
(* allocated memory is undefined behaviour of the emulator: it crashes, or *)
(* goes on, a byte read there having any value of WildBytes and a byte     *)
(* written there being lost.                                               *)
(***************************************************************************)
EXTENDS VaWord

CONSTANTS
  MemSize,     \* allocated bytes: VA_DEFAULT_MEMORY_SIZE
  LoadAddr,    \* where an image goes: INSTRUCTIONS_START_OFFSET
  InitSP,      \* VA_INIT_SP_LOCATION
  InitSSP,     \* VA_INIT_SSP_LOCATION
  InitRegs,    \* register files malloc may return; bound of the uninitialised
  InitCregs,   \* the same for the control registers
  Images,      \* image files: sequences of bytes
  StepModes,   \* values of cpu_execute's parameter step
  OpOf,        \* opcode and prefix of an instruction's first byte
  CondOf,      \* condition of the high field of its second byte
  WildBytes,   \* bound: bytes read outside the memory
  MaxCount     \* bound: instructions executed

CREG_MR2 == 1
CREG_CR1 == 2
CREG_SSP == 4
CR1_PRIV_MODE == 2
Addr  == 0 .. MemSize - 1
NPort == ByteSize \div 2

Prefixes == {"DWORD", "WORD", "BYTE", "IMM"}
Opcodes  == {"ADD", "AND", "CALL", "CMP", "CMPXCHG", "DIV", "FAIL", "IN",
             "JMP", "LOADI", "LOADID", "LOADMA", "LOADRD", "MUL", "MOD",
             "MOV", "MOVFC", "MOVTC", "NOT", "OR", "OUT", "SAR", "SEX",
             "SDIV", "SHL", "SHR", "SMUL", "STOP", "SUB", "STOREID",
             "STOREMA", "STORERD", "TEST", "XCHG", "XCHGC", "XOR"}

ASSUME MachineAssumption ==
  /\ MemSize \in Nat \ {0} /\ MemSize <= DwordSize
  /\ LoadAddr \in Addr /\ InitSP \in Dword /\ InitSSP \in Dword
  /\ InitRegs \subseteq [Reg -> Dword] /\ InitCregs \subseteq [Reg -> Dword]
  /\ \A img \in Images : \A k \in DOMAIN img : img[k] \in Byte
  /\ StepModes \subseteq BOOLEAN
  /\ \A b \in Byte : OpOf[b].prefix \in Prefixes
  /\ CondOf \in [Reg -> Conditions]
  /\ WildBytes \subseteq Byte /\ WildBytes # {}
  /\ MaxCount \in Nat

VARIABLES
  regs, cregs,  \* cpu_context: registers and control registers
  pos,          \* cpu_context: the instruction pointer
  mem,          \* memory_context: the allocated bytes
  latch,        \* the dword behind port 0, the only port with a handler
  count,        \* statistic_context: instruction_count
  step,         \* the parameter of cpu_execute
  status,       \* created, running, paused (step over), stopped or crashed
  ret           \* what cpu_execute, or exit, last returned

vars == <<regs, cregs, pos, mem, latch, count, step, status, ret>>

TypeOK ==
  /\ regs \in [Reg -> Dword] /\ cregs \in [Reg -> Dword]
  /\ pos \in Dword /\ mem \in [Addr -> Byte] /\ latch \in Dword
  /\ count \in Nat /\ step \in BOOLEAN /\ ret \in Int
  /\ status \in {"created", "running", "paused", "stopped", "crashed"}

-----------------------------------------------------------------------------
(* Registers and memory as bytes                                           *)

\* Bytes an access of a prefix moves; an immediate moves none.
Width == [DWORD |-> 4, WORD |-> 2, BYTE |-> 1, IMM |-> 0]

\* Register n of width w is the bytes n*w .. n*w+w-1 of the register file.
Get(rf, n, w) ==
  [k \in 0 .. w - 1 |-> Bytes(rf[(n * w) \div 4])[((n * w) % 4) + k]]

\* Fault: the other bytes of the dword register not masked in again.
WholePut(rf, n, w, bs) ==
  [rf EXCEPT ![(n * w) \div 4] =
     Join([k \in 0 .. 3 |-> IF k < w THEN bs[k] ELSE 0])]

Put(rf, n, w, bs) ==
  LET r == (n * w) \div 4
      o == (n * w) % 4
  IN  [rf EXCEPT ![r] = Join([k \in 0 .. 3 |->
         IF k \in o .. o + w - 1 THEN bs[k - o] ELSE Bytes(rf[r])[k]])]

SetFlag(rf, mask, on) == [rf EXCEPT ![FLGS] = WithFlag(@, mask, on)]

\* Addresses are dwords: they wrap.
Span(a, n) == {(a + k) % DwordSize : k \in 0 .. n - 1}

\* The byte an out-of-bounds read of this access yields: one choice for all
\* of its bytes, no choice when the access stays inside.
WildOf(span) == IF span \subseteq Addr THEN {0} ELSE WildBytes

Read(m, a, n, wild) ==
  [k \in 0 .. n - 1 |-> LET b == (a + k) % DwordSize
                        IN  IF b \in Addr THEN m[b] ELSE wild]

Write(m, a, n, bs) ==
  [b \in Addr |-> LET k == (b - a) % DwordSize
                  IN  IF k < n THEN bs[k] ELSE m[b]]

-----------------------------------------------------------------------------
(* Fetch and decode                                                        *)

Decode(b) ==
  LET f == Fields(b)
  IN  [op    |-> OpOf[b[0]].op, prefix |-> OpOf[b[0]].prefix,
       cond  |-> CondOf[f.cond], dst   |-> f.dst,
       opa   |-> f.opa,          opb   |-> f.opb,
       imm16 |-> f.imm16,        imm12 |-> f.imm12]

Fetched == {Decode(Read(mem, pos, 4, w)) : w \in WildOf(Span(pos, 4))}

NextPos == (pos + 4) % DwordSize

\* The instruction i has opcode op and its condition holds.
Issues(i, op) == i.op = op /\ CondHolds(i.cond, regs[FLGS])

\* The end of the loop's body: another turn, or -1 to a caller that steps.
Retire ==
  /\ count' = count + 1
  /\ status' = IF step THEN "paused" ELSE status
  /\ ret' = IF step THEN -1 ELSE ret
  /\ UNCHANGED step

\* An instruction whose only effect is on the registers, or on the memory.
RegsOnly(rf) == regs' = rf /\ pos' = NextPos /\ Retire
                /\ UNCHANGED <<cregs, mem, latch>>
MemOnly(m)   == mem' = m /\ pos' = NextPos /\ Retire
                /\ UNCHANGED <<regs, cregs, latch>>

\* The second source operand: a register or the 12-bit immediate.
OpB(i) == IF i.prefix = "IMM" THEN i.imm12 ELSE regs[i.opb]

-----------------------------------------------------------------------------
(* Arithmetic and logic                                                    *)

\* dst first, then the flags: with dst = FLGS the flags survive.
Add(i) ==
  /\ Issues(i, "ADD")
  /\ LET r == AddL(regs[i.opa], OpB(i))
     IN  RegsOnly(SetFlag(SetFlag([regs EXCEPT ![i.dst] = r.val],
                                  FLGS_O, r.o), FLGS_C, r.c))

Sub(i) ==
  /\ Issues(i, "SUB")
  /\ LET r == SubL(regs[i.opa], OpB(i))
     IN  RegsOnly(SetFlag(SetFlag([regs EXCEPT ![i.dst] = r.val],
                                  FLGS_O, r.o), FLGS_C, r.c))

SMul(i) ==
  /\ Issues(i, "SMUL")
  /\ LET r == SMulL(regs[i.opa], OpB(i))
     IN  RegsOnly(SetFlag([regs EXCEPT ![i.dst] = r.val], FLGS_O, r.o))

\* The flags first, then dst: with dst = FLGS the result overwrites them.
Mul(i) ==
  /\ Issues(i, "MUL")
  /\ LET r == MulL(regs[i.opa], OpB(i))
     IN  RegsOnly([SetFlag(regs, FLGS_C, r.c) EXCEPT ![i.dst] = r.val])

\* A zero divisor leaves everything as it is.
SDiv(i) ==
  /\ Issues(i, "SDIV")
  /\ LET r == SDivL(regs[i.opa], OpB(i))
     IN  RegsOnly(IF OpB(i) = 0 THEN regs
                  ELSE [SetFlag(regs, FLGS_O, r.o) EXCEPT ![i.dst] = r.val])

Div(i) ==
  /\ Issues(i, "DIV")
  /\ RegsOnly(IF OpB(i) = 0 THEN regs
              ELSE [regs EXCEPT ![i.dst] = regs[i.opa] \div OpB(i)])

\* Always a register divisor, whatever the prefix.
Mod(i) ==
  /\ Issues(i, "MOD")
  /\ RegsOnly(IF regs[i.opb] = 0 THEN regs
              ELSE [regs EXCEPT ![i.dst] = regs[i.opa] % regs[i.opb]])

\* The three shifts set C from the unshifted operand.
Shift(i, r) == RegsOnly([SetFlag(regs, FLGS_C, r.c) EXCEPT ![i.dst] = r.val])
Shl(i) == Issues(i, "SHL") /\ Shift(i, ShlL(regs[i.opa], OpB(i)))
Shr(i) == Issues(i, "SHR") /\ Shift(i, ShrL(regs[i.opa], OpB(i)))
Sar(i) == Issues(i, "SAR") /\ Shift(i, SarL(regs[i.opa], OpB(i)))

And(i) == /\ Issues(i, "AND")
          /\ RegsOnly([regs EXCEPT ![i.dst] = AndD(regs[i.opa], OpB(i))])
Or(i)  == /\ Issues(i, "OR")
          /\ RegsOnly([regs EXCEPT ![i.dst] = OrD(regs[i.opa], OpB(i))])
Xor(i) == /\ Issues(i, "XOR")
          /\ RegsOnly([regs EXCEPT ![i.dst] = XorD(regs[i.opa], OpB(i))])
Not(i) == /\ Issues(i, "NOT")
          /\ RegsOnly([regs EXCEPT ![i.opa] = NotD(regs[i.opb])])

\* Any other prefix writes operand A back to itself.
Sex(i) ==
  /\ Issues(i, "SEX")
  /\ RegsOnly(CASE i.prefix = "BYTE" ->
                     [regs EXCEPT ![i.opa] = Extend(regs[i.opb], ByteSize)]
                [] i.prefix = "WORD" ->
                     [regs EXCEPT ![i.opa] = Extend(regs[i.opb], WordSize)]
                [] OTHER -> regs)

Cmp(i) ==
  /\ Issues(i, "CMP")
  /\ LET a == regs[i.opa]
         b == OpB(i)
         z == SetFlag(regs, FLGS_Z, a = b)
         c == SetFlag(z, FLGS_C, a < b)
     IN  RegsOnly(SetFlag(c, FLGS_S, SDword(a) < SDword(b)))

Test(i) ==
  /\ Issues(i, "TEST")
  /\ LET v == IF i.prefix = "IMM" THEN i.imm16 ELSE regs[i.dst]
         z == SetFlag(regs, FLGS_Z, v = 0)
         s == SetFlag(z, FLGS_S, SignBit(v))
         e == SetFlag(s, FLGS_E, v % 2 = 0)
     IN  RegsOnly(SetFlag(e, FLGS_P, OddParity(v)))

-----------------------------------------------------------------------------
(* Moves between registers, control registers and ports                    *)

Mov(i) ==
  /\ Issues(i, "MOV")
  /\ RegsOnly(IF i.prefix = "IMM" THEN [regs EXCEPT ![i.opa] = i.imm12]
              ELSE LET w == Width[i.prefix]
                   IN  Put(regs, i.opa, w, Get(regs, i.opb, w)))

\* Only the byte prefix narrows: every other one loads a word register.
LoadI(i) ==
  /\ Issues(i, "LOADI")
  /\ RegsOnly(Put(regs, i.dst, IF i.prefix = "BYTE" THEN 1 ELSE 2,
                  Bytes(i.imm16)))

Xchg(i) ==
  /\ Issues(i, "XCHG")
  /\ RegsOnly([regs EXCEPT ![i.opa] = regs[i.opb], ![i.opb] = regs[i.opa]])

MovFC(i) == /\ Issues(i, "MOVFC")
            /\ RegsOnly([regs EXCEPT ![i.opa] = cregs[i.opb]])

\* An instruction that writes a control register, and maybe registers.
WithCreg(n, v, rf) ==
  /\ cregs' = [cregs EXCEPT ![n] = v]
  /\ regs' = rf /\ pos' = NextPos /\ Retire
  /\ UNCHANGED <<mem, latch>>

MovTC(i) == Issues(i, "MOVTC") /\ WithCreg(i.opa, regs[i.opb], regs)
XchgC(i) ==
  /\ Issues(i, "XCHGC")
  /\ WithCreg(i.opb, regs[i.opa], [regs EXCEPT ![i.opa] = cregs[i.opb]])

\* IN truncates the port number to a byte, so it may lie beyond the 128
\* ports: ports[] is then read out of bounds.  A port without a handler reads
\* as its own number.
InPort(i)  == regs[i.opb] % ByteSize
OutPort(i) == regs[i.opa] % NPort

In(i) ==
  /\ Issues(i, "IN")
  /\ RegsOnly([regs EXCEPT ![i.opa] = IF InPort(i) = 0 THEN latch
                                      ELSE InPort(i)])

Out(i) ==
  /\ Issues(i, "OUT")
  /\ latch' = IF OutPort(i) = 0 THEN regs[i.opb] ELSE latch
  /\ pos' = NextPos /\ Retire
  /\ UNCHANGED <<regs, cregs, mem>>

-----------------------------------------------------------------------------
(* Memory                                                                  *)

\* Effective addresses, as integers: an access outside the dwords is skipped.
\* Fault: the sum already wrapped when it is compared with DWORD_MAX.
WrappedEaId(i, base) == ToDword(regs[base] + i.imm12)
EaId(i, base) == regs[base] + i.imm12
EaRd(i, base) == regs[base] + SDword(regs[i.opb])

LoadAt(i, ea) ==
  LET w == Width[i.prefix]
  IN  IF ea \notin Dword THEN RegsOnly(regs)
      ELSE \E wild \in WildOf(Span(ea, w)) :
             RegsOnly(Put(regs, i.dst, w, Read(mem, ea, w, wild)))

StoreAt(i, ea) ==
  LET w == Width[i.prefix]
  IN  MemOnly(IF ea \notin Dword THEN mem
              ELSE Write(mem, ea, w, Get(regs, i.opa, w)))

LoadID(i)  == Issues(i, "LOADID")  /\ LoadAt(i, EaId(i, i.opa))
LoadRD(i)  == Issues(i, "LOADRD")  /\ LoadAt(i, EaRd(i, i.opa))
StoreID(i) == Issues(i, "STOREID") /\ StoreAt(i, EaId(i, i.dst))
StoreRD(i) == Issues(i, "STORERD") /\ StoreAt(i, EaRd(i, i.dst))

\* On a mismatch operand A receives the dword v of the memory.
\* Fault: the destination register receives it.
LoadsDst(i, v) == [regs EXCEPT ![i.dst] = v]
Mismatch(i, v) == [regs EXCEPT ![i.opa] = v]

\* The mismatch loads operand A before Z is cleared.
CmpXchg(i) ==
  /\ Issues(i, "CMPXCHG")
  /\ \E wild \in WildOf(IF i.prefix = "DWORD" THEN Span(regs[i.dst], 4) ELSE {}) :
       LET dest  == regs[i.dst]
           v     == Join(Read(mem, dest, 4, wild))
           equal == v = regs[i.opa]
       IN  IF i.prefix # "DWORD" THEN RegsOnly(regs)
           ELSE /\ mem' = IF equal THEN Write(mem, dest, 4, Bytes(regs[i.opb]))
                                   ELSE mem
                /\ regs' = SetFlag(IF equal THEN regs ELSE Mismatch(i, v),
                                   FLGS_Z, equal)
                /\ pos' = NextPos /\ Retire
                /\ UNCHANGED <<cregs, latch>>

\* The register range of STOREMA and LOADMA: the fields of imm16's low byte.
RegStart(i) == (i.imm16 % ByteSize) \div NReg
RegEnd(i)   == (i.imm16 % ByteSize) % NReg
\* Fault: the last register of the range not counted.
ShortRangeLen(s, e) == IF s <= e THEN e - s ELSE 0
RangeLen(s, e) == IF s <= e THEN e - s + 1 ELSE 0

\* Pushing registers s .. e from sp downwards: each dword is written at the
\* stack pointer, which then moves down by 4, so e ends lowest.  PopRange reads
\* them back from e to s, moving up by 4 before each read.  The stack pointer
\* is register d; it is written last, even when it is one of s .. e.
PushMem(m, rf, d, s, e) ==
  LET n == RangeLen(s, e)
  IN  Write(m, ToDword(rf[d] - 4 * (n - 1)), 4 * n,
            [k \in 0 .. 4 * n - 1 |-> Bytes(rf[e - (k \div 4)])[k % 4]])

\* Fault: the stack pointer moved by 1 per dword.
BytePushRegs(rf, d, s, e) ==
  [rf EXCEPT ![d] = ToDword(@ - RangeLen(s, e))]
PushRegs(rf, d, s, e) ==
  [rf EXCEPT ![d] = ToDword(@ - 4 * RangeLen(s, e))]

\* Fault: each dword read before the stack pointer moves up.
EarlyPopRegs(m, rf, d, s, e, wild) ==
  [r \in Reg |->
     IF r = d THEN ToDword(rf[d] + 4 * RangeLen(s, e))
     ELSE IF r \in s .. e
     THEN Join(Read(m, ToDword(rf[d] + 4 * (e - r)), 4, wild))
     ELSE rf[r]]

PopRegs(m, rf, d, s, e, wild) ==
  [r \in Reg |->
     IF r = d THEN ToDword(rf[d] + 4 * RangeLen(s, e))
     ELSE IF r \in s .. e
     THEN Join(Read(m, ToDword(rf[d] + 4 * (e - r + 1)), 4, wild))
     ELSE rf[r]]

PushSpan(d, s, e) == Span(ToDword(regs[d] - 4 * (RangeLen(s, e) - 1)),
                          4 * RangeLen(s, e))
PopSpan(d, s, e)  == Span(regs[d] + 4, 4 * RangeLen(s, e))

StoreMA(i) ==
  /\ Issues(i, "STOREMA")
  /\ mem' = PushMem(mem, regs, i.dst, RegStart(i), RegEnd(i))
  /\ regs' = PushRegs(regs, i.dst, RegStart(i), RegEnd(i))
  /\ pos' = NextPos /\ Retire
  /\ UNCHANGED <<cregs, latch>>

LoadMA(i) ==
  /\ Issues(i, "LOADMA")
  /\ \E wild \in WildOf(PopSpan(i.dst, RegStart(i), RegEnd(i))) :
       RegsOnly(PopRegs(mem, regs, i.dst, RegStart(i), RegEnd(i), wild))

-----------------------------------------------------------------------------
(* Control flow                                                            *)

\* Fault: relative to the jump itself.
PosRelative(i) == ToDword(pos + Signed(i.imm16, WordSize))
\* Fault: the instruction pointer not wrapped.
UnwrappedRelative(i) == NextPos + Signed(i.imm16, WordSize)
Relative(i) == ToDword(NextPos + Signed(i.imm16, WordSize))

Jmp(i) ==
  /\ Issues(i, "JMP")
  /\ pos' = IF i.prefix = "IMM" THEN Relative(i) ELSE regs[i.dst]
  /\ Retire
  /\ UNCHANGED <<regs, cregs, mem, latch>>

\* RC is written before the target register is read.
Call(i) ==
  /\ Issues(i, "CALL")
  /\ regs' = [regs EXCEPT ![RC] = NextPos]
  /\ pos' = IF i.prefix = "IMM" THEN Relative(i) ELSE regs'[i.dst]
  /\ Retire
  /\ UNCHANGED <<cregs, mem, latch>>

\* cpu_execute returns r.
Return(r) ==
  /\ status' = "stopped" /\ ret' = r
  /\ count' = count + 1 /\ pos' = NextPos
  /\ UNCHANGED <<regs, cregs, mem, latch, step>>

Stop(i) == Issues(i, "STOP") /\ Return(0)
\* Fault: the code of FAIL read as SIGNED16.
SignedFail(i) == Issues(i, "FAIL") /\ Return(Signed(i.imm16, WordSize))
Fail(i) == Issues(i, "FAIL") /\ Return(i.imm16)

Skip(i)    == ~CondHolds(i.cond, regs[FLGS]) /\ RegsOnly(regs)
Unknown(i) == /\ i.op \notin Opcodes /\ CondHolds(i.cond, regs[FLGS])
              /\ RegsOnly(regs)

Execute(i) ==
  \/ Skip(i)   \/ Unknown(i)
  \/ Add(i)    \/ Sub(i)    \/ SMul(i)    \/ Mul(i)     \/ SDiv(i)
  \/ Div(i)    \/ Mod(i)    \/ Shl(i)     \/ Shr(i)     \/ Sar(i)
  \/ And(i)    \/ Or(i)     \/ Xor(i)     \/ Not(i)     \/ Sex(i)
  \/ Cmp(i)    \/ Test(i)   \/ Mov(i)     \/ LoadI(i)   \/ Xchg(i)
  \/ MovFC(i)  \/ MovTC(i)  \/ XchgC(i)   \/ In(i)      \/ Out(i)
  \/ LoadID(i) \/ LoadRD(i) \/ StoreID(i) \/ StoreRD(i) \/ CmpXchg(i)
  \/ StoreMA(i) \/ LoadMA(i) \/ Jmp(i)    \/ Call(i)    \/ Stop(i)
  \/ Fail(i)

\* The emulator may be killed where it leaves its arrays: the memory, by the
\* fetch or by the instruction's own access, or ports[] by IN.
DataSpan(i) ==
  LET at(ea) == IF ea \in Dword THEN Span(ea, Width[i.prefix]) ELSE {}
      s == RegStart(i)
      e == RegEnd(i)
  IN  CASE i.op = "LOADID"  -> at(EaId(i, i.opa))
        [] i.op = "LOADRD"  -> at(EaRd(i, i.opa))
        [] i.op = "STOREID" -> at(EaId(i, i.dst))
        [] i.op = "STORERD" -> at(EaRd(i, i.dst))
        [] i.op = "STOREMA" -> PushSpan(i.dst, s, e)
        [] i.op = "LOADMA"  -> PopSpan(i.dst, s, e)
        [] i.op = "CMPXCHG" /\ i.prefix = "DWORD" -> Span(regs[i.dst], 4)
        [] OTHER -> {}

Crash ==
  /\ \/ ~(Span(pos, 4) \subseteq Addr)
     \/ \E i \in Fetched :
          /\ CondHolds(i.cond, regs[FLGS])
          /\ \/ ~(DataSpan(i) \subseteq Addr)
             \/ i.op = "IN" /\ InPort(i) >= NPort
  /\ status' = "crashed"
  /\ UNCHANGED <<regs, cregs, pos, mem, latch, count, step, ret>>

-----------------------------------------------------------------------------
(* Boot                                                                    *)

\* emu_init: registers and control registers come uninitialised but for SP
\* and CR1, MR2 and SSP; the latch and the memory are zero.
Init ==
  /\ regs \in {[rf EXCEPT ![SP] = InitSP] : rf \in InitRegs}
  /\ cregs \in {[r \in Reg |-> CASE r = CREG_MR2 -> 0
                              [] r = CREG_CR1 -> CR1_PRIV_MODE
                              [] r = CREG_SSP -> InitSSP
                              [] OTHER -> cf[r]] : cf \in InitCregs}
  /\ pos = 0 /\ mem = [a \in Addr |-> 0] /\ latch = 0 /\ count = 0
  /\ step \in StepModes /\ status = "created" /\ ret = 0

\* emu_load_img: no check that the image fits behind LoadAddr.
LoadImage(img) ==
  /\ mem' = [a \in Addr |-> LET k == a - LoadAddr + 1
                            IN  IF k \in DOMAIN img THEN img[k] ELSE mem[a]]
  /\ pos' = LoadAddr /\ status' = "running"
  /\ UNCHANGED <<regs, cregs, latch, count, step, ret>>

\* main exits: no argument (10), an unreadable image (11), or a crash of the
\* memcpy of an image that does not fit.
BootFails ==
  /\ \/ status' = "stopped" /\ ret' \in {10, 11}
     \/ /\ \E img \in Images : \E k \in DOMAIN img : LoadAddr + k > MemSize
        /\ status' = "crashed" /\ UNCHANGED ret
  /\ UNCHANGED <<regs, cregs, pos, mem, latch, count, step>>

\* A caller that steps calls cpu_execute again.
Reenter ==
  /\ status = "paused"
  /\ status' = "running"
  /\ UNCHANGED <<regs, cregs, pos, mem, latch, count, step, ret>>

Boot == status = "created" /\ (BootFails \/ \E img \in Images : LoadImage(img))

\* One turn of the loop of cpu_execute.
Turn == /\ status = "running" /\ count < MaxCount
        /\ Crash \/ \E i \in Fetched : Execute(i)

Next == Boot \/ Reenter \/ Turn

Spec == Init /\ [][Next]_vars
=============================================================================
