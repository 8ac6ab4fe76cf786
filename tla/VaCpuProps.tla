----------------------------- MODULE VaCpuProps -----------------------------
(***************************************************************************)
(* What the emulator's instructions promise a program.  The reference side *)
(* of each property is stated on integers, not with the operators of the   *)
(* model: Value reads a dword as a signed number through the offset-binary *)
(* code, and the results of arithmetic are the unbounded ones.             *)
(***************************************************************************)
EXTENDS VaCpu, Sequences

Half     == DwordSize \div 2
Value(d) == ((d + Half) % DwordSize) - Half
SignedRange == -Half .. Half - 1
Abs(n)   == IF n < 0 THEN -n ELSE n

\* This step ran the instruction i, of opcode op, fetched inside the memory.
Ran(i, op) == Issues(i, op) /\ count' = count + 1 /\ Span(pos, 4) \subseteq Addr

\* After CMP the condition codes decide the unsigned and the signed order of
\* the operands (ins_cmp, the condition switch of cpu_execute): IZ, NZ equality,
\* IC, NC, IZIC, NZNC the order of dwords, IS, NS, IZIS, NZNS of signed ones.
CompareStep ==
  \A i \in Fetched : Ran(i, "CMP") =>
    LET a == regs[i.opa]
        b == OpB(i)
        Taken(c) == CondHolds(c, regs'[FLGS])
    IN  /\ Taken("IZ")   <=> a = b
        /\ Taken("NZ")   <=> a # b
        /\ Taken("IC")   <=> a < b
        /\ Taken("NC")   <=> a >= b
        /\ Taken("IZIC") <=> a <= b
        /\ Taken("NZNC") <=> a > b
        /\ Taken("IS")   <=> Value(a) < Value(b)
        /\ Taken("NS")   <=> Value(a) >= Value(b)
        /\ Taken("IZIS") <=> Value(a) <= Value(b)
        /\ Taken("NZNS") <=> Value(a) > Value(b)

CompareDecides == [][CompareStep]_vars

\* The high dword of the product of two dwords.
HighWords(a, b) ==
  ((a \div WordSize) * b + ((a % WordSize) * b) \div WordSize) \div WordSize

\* ADD, SUB and SMUL set their flags exactly when the integer result leaves the
\* range of the dwords (C) or of the signed dwords (O), even when the result
\* itself goes to FLGS (ins_add, ins_sub, ins_smul); so does MUL, unless it does
\* (ins_mul).
OverflowStep ==
  \A i \in Fetched :
    LET a == regs[i.opa]
        b == OpB(i)
        C == Masked(regs'[FLGS], FLGS_C)
        O == Masked(regs'[FLGS], FLGS_O)
        Result(r) == i.dst = FLGS \/ regs'[i.dst] = r % DwordSize
    IN  /\ Ran(i, "ADD") =>
             /\ C <=> a + b \notin Dword
             /\ O <=> Value(a) + Value(b) \notin SignedRange
             /\ Result(a + b)
        /\ Ran(i, "SUB") =>
             /\ C <=> a - b \notin Dword
             /\ O <=> Value(a) - Value(b) \notin SignedRange
             /\ Result(a - b)
        /\ Ran(i, "SMUL") =>
             /\ O <=> Value(a) * Value(b) \notin SignedRange
             /\ Result(Value(a) * Value(b))
        /\ Ran(i, "MUL") /\ i.dst # FLGS =>
             /\ C <=> HighWords(a, b) # 0
             /\ Result(a * Value(b))

OverflowExact == [][OverflowStep]_vars

\* By a divisor other than zero, DIV, MOD and SDIV satisfy the division equation:
\* the remainder is smaller than the divisor and, for SDIV, has the sign of the
\* dividend; SDIV flags the one quotient that has no dword (ins_div, ins_mod,
\* ins_sdiv).
DivisionStep ==
  \A i \in Fetched : i.dst # FLGS =>
    LET a == regs[i.opa]
        b == OpB(i)
        m == regs[i.opb]
        q == regs'[i.dst]
        rest == Value(a) - Value(q) * Value(b)
        over == Value(a) = -Half /\ Value(b) = -1
    IN  /\ Ran(i, "DIV") /\ b # 0 => a - q * b \in 0 .. b - 1
        /\ Ran(i, "MOD") /\ m # 0 => q \in 0 .. m - 1 /\ (a - q) % m = 0
        /\ Ran(i, "SDIV") /\ b # 0 =>
             /\ Masked(regs'[FLGS], FLGS_O) <=> over
             /\ over => q = 0
             /\ ~over => /\ Abs(rest) < Abs(Value(b))
                         /\ rest * Value(a) >= 0

DivisionEquation == [][DivisionStep]_vars

\* Logic and shifts, bit by bit: bit n of the result comes from bit n of the
\* operands, or from the bit the shift or the sign extension moves to n; a count
\* of 32 or more is taken modulo 32; C is the bit at the end the shift leaves
\* by, before the shift (ins_and, ins_or, ins_xor, ins_not, ins_shl, ins_shr,
\* ins_sar, ins_sex).
Top == DwordBits - 1
FlagC(i, c, bit) == i.dst = FLGS \/ (c <=> bit)
LogicStep ==
  \A i \in Fetched :
    LET a == regs[i.opa]
        b == OpB(i)
        n == b % DwordBits
        A(k) == k \in 0 .. Top /\ BitOf(a, k)
        B(k) == BitOf(b, k)
        C == Masked(regs'[FLGS], FLGS_C)
        To(r, Bit(_)) == \A k \in 0 .. Top : BitOf(regs'[r], k) <=> Bit(k)
        Least(k, l) == IF k < l THEN k ELSE l
    IN  /\ Ran(i, "AND") => To(i.dst, LAMBDA k : A(k) /\ B(k))
        /\ Ran(i, "OR")  => To(i.dst, LAMBDA k : A(k) \/ B(k))
        /\ Ran(i, "XOR") => To(i.dst, LAMBDA k : A(k) # B(k))
        /\ Ran(i, "NOT") => To(i.opa, LAMBDA k : ~BitOf(regs[i.opb], k))
        /\ Ran(i, "SHL") => To(i.dst, LAMBDA k : A(k - n)) /\ FlagC(i, C, A(Top))
        /\ Ran(i, "SHR") => To(i.dst, LAMBDA k : A(k + n)) /\ FlagC(i, C, A(0))
        /\ Ran(i, "SAR") =>
             To(i.dst, LAMBDA k : A(Least(k + n, Top))) /\ FlagC(i, C, A(0))
        /\ Ran(i, "SEX") /\ i.prefix \in {"BYTE", "WORD"} =>
             LET narrow == (Width[i.prefix] * DwordBits) \div 4
             IN  To(i.opa, LAMBDA k : BitOf(regs[i.opb], Least(k, narrow - 1)))

BitwiseExact == [][LogicStep]_vars

\* A store through a base register changes only bytes from the address the
\* program means, base plus displacement as integers, however large they are;
\* no other instruction but CMPXCHG and STOREMA changes memory.  (The guards of
\* ins_storeid and ins_storerd cover the first byte: an access that itself runs
\* over the last address is left out here.)
StoreStep ==
  \A i \in Fetched :
    LET ea == IF i.op = "STOREID" THEN regs[i.dst] + i.imm12
              ELSE regs[i.dst] + Value(regs[i.opb])
        w == Width[i.prefix]
        Changed == {a \in Addr : mem'[a] # mem[a]}
    IN  Ran(i, i.op) /\ i.op \notin {"CMPXCHG", "STOREMA"} /\ Changed # {} =>
          /\ i.op \in {"STOREID", "STORERD"}
          /\ ea \notin DwordSize - w + 1 .. DwordSize - 1 =>
               Changed \subseteq ea .. ea + w - 1

StoreConfined == [][StoreStep]_vars

\* A narrow move changes no byte of the register file but those it names
\* (cpu_set_byte_reg, cpu_set_word_reg): the other half of a word, the other
\* three quarters of a byte and every other register keep their value.
NarrowStep ==
  \A i \in Fetched :
    LET n == IF i.op = "MOV" THEN i.opa ELSE i.dst
        w == Width[i.prefix]
    IN  (\E op \in {"MOV", "LOADI", "LOADID", "LOADRD"} : Ran(i, op))
        /\ i.prefix \in {"WORD", "BYTE"} =>
          \A r \in Reg : \A k \in 0 .. 3 :
            4 * r + k \notin n * w .. n * w + w - 1 =>
              Bytes(regs'[r])[k] = Bytes(regs[r])[k]

NarrowWritesIsolated == [][NarrowStep]_vars

\* A CMPXCHG inside the memory either swaps or prepares the retry: it reports Z
\* exactly when the dword had the expected value and now is the new one;
\* otherwise memory is untouched and the same instruction, run again, would
\* succeed (its operands being distinct registers other than FLGS).
CmpXchgStep ==
  \A i \in Fetched :
    LET dest == regs[i.dst]
        At(m, a) == Join(Read(m, a, 4, 0))
        Z == Masked(regs'[FLGS], FLGS_Z)
    IN  Ran(i, "CMPXCHG") /\ i.prefix = "DWORD" /\ Span(dest, 4) \subseteq Addr =>
          /\ Z <=> At(mem, dest) = regs[i.opa]
          /\ Z => At(mem', dest) = regs[i.opb]
          /\ ~Z => /\ mem' = mem
                   /\ i.opa \notin {i.dst, FLGS} /\ i.dst # FLGS =>
                        At(mem', regs'[i.dst]) = regs'[i.opa]

CmpXchgRetries == [][CmpXchgStep]_vars

\* LOADMA undoes STOREMA: for every stack register and every range, wrapped or
\* empty or holding the stack register itself, popping what was pushed gives
\* back every register (ins_storema, ins_loadma), as long as the pushed dwords
\* lie in the memory.
StackRoundTrip ==
  \A d, s, e \in Reg :
    PushSpan(d, s, e) \subseteq Addr =>
      PopRegs(PushMem(mem, regs, d, s, e), PushRegs(regs, d, s, e), d, s, e, 0)
        = regs

\* A program that uses SP only to push and pop, never more pops than pushes and
\* never below address 0, sees a stack: the dwords from InitSP down to SP.
Depth == ToDword(InitSP - regs[SP]) \div 4
StackMem == [k \in 1 .. Depth |-> Join(Read(mem, InitSP - 4 * (k - 1), 4, 0))]
Stack == INSTANCE VaStack WITH
           Visible <- Reg \ {SP}, Values <- Dword,
           stack <- StackMem, file <- [r \in Reg \ {SP} |-> regs[r]]

\* The emulator with such a program implements VaStack (ins_storema,
\* ins_loadma, cpu_push_dword, cpu_pop_dword).
ImplementsStack == Stack!Spec

\* Such a program, step by step: STOREMA pushes into the memory and not around
\* the address space, LOADMA pops no more than was pushed, neither names SP in
\* its range, and everything else leaves SP and the pushed dwords alone.
StackMove(i, op) ==
  /\ Ran(i, op) /\ i.dst = SP
  /\ RegStart(i) <= RegEnd(i) /\ SP \notin RegStart(i) .. RegEnd(i)
Pushes(i) ==
  /\ StackMove(i, "STOREMA")
  /\ PushSpan(SP, RegStart(i), RegEnd(i)) \subseteq Addr
  /\ 4 * (Depth + RangeLen(RegStart(i), RegEnd(i))) < DwordSize
Pops(i) ==
  /\ StackMove(i, "LOADMA")
  /\ RangeLen(RegStart(i), RegEnd(i)) <= Depth
LeavesStack ==
  /\ regs'[SP] = regs[SP]
  /\ \A k \in 1 .. Depth : \A b \in Addr \cap Span(InitSP - 4 * (k - 1), 4) :
       mem'[b] = mem[b]
KeepsStack == LeavesStack \/ \E i \in Fetched : Pushes(i) \/ Pops(i)

\* The -1 that tells a stepping caller to call again is never what a program
\* that ended returns: not even FAIL 0xFFFF, its code being read unsigned
\* (cpu_execute, OP_FAIL).
EndIsFinal == status = "stopped" => ret >= 0

-----------------------------------------------------------------------------
(* What the documents say and the code does not do                         *)

\* tests/README.md:3: a test program signals failure with FAIL.  The process
\* must then not end with the exit status of success; the system keeps the low
\* byte of what main returns.
ExitStatus(r) == r % ByteSize
FailStep == \A i \in Fetched :
  Ran(i, "FAIL") /\ i.imm16 # 0 => ExitStatus(ret') # 0
FailSignalsFailure == [][FailStep]_vars

\* pio.h:70: the port number given to pio_read must not exceed 127.
PortStep == \A i \in Fetched : Ran(i, "IN") => InPort(i) < NPort
PortsInRange == [][PortStep]_vars

\* instructionset.tex:368: MUL sets C if the result does not fit into 32 bits.
MulStep == \A i \in Fetched :
  Ran(i, "MUL") =>
    (Masked(regs'[FLGS], FLGS_C) <=> HighWords(regs[i.opa], OpB(i)) # 0)
MulSetsCarry == [][MulStep]_vars

\* instructionset.tex:151, 406: dividing by zero fires a division by zero
\* exception.  Whatever form it takes, such a DIV or SDIV must not go by as if
\* nothing had happened: in a register, a control register, the memory, or
\* where the program goes on, it shows.
ZeroDivisorStep ==
  \A i \in Fetched :
    (Ran(i, "DIV") \/ Ran(i, "SDIV")) /\ OpB(i) = 0 =>
      \/ regs' # regs \/ cregs' # cregs \/ mem' # mem
      \/ status' # "running" \/ pos' # NextPos
ZeroDivisorFires == [][ZeroDivisorStep]_vars
=============================================================================
