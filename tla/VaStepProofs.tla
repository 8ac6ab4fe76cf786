---------------------------- MODULE VaStepProofs ----------------------------
(***************************************************************************)
(* What one turn of the emulator does: a step that counts an instruction   *)
(* is that instruction's action, and what it leaves in the registers and   *)
(* the memory.                                                             *)
(***************************************************************************)
EXTENDS VaStackProofs, SequenceTheorems

-----------------------------------------------------------------------------
(* The step of an instruction                                              *)

\* Inside the memory the fetch has one outcome.
LEMMA OneFetched ==
  ASSUME Span(pos, 4) \subseteq Addr, NEW i \in Fetched, NEW j \in Fetched
  PROVE  i = j
  BY DEF Fetched, WildOf

\* Only the execution of an instruction counts one.
LEMMA Counted ==
  ASSUME TypeOK, [Next]_vars, NEW i \in Fetched, NEW op, Ran(i, op)
  PROVE  Execute(i) /\ Issues(i, op) /\ status = "running"
<1>1. Issues(i, op) /\ count' = count + 1 /\ Span(pos, 4) \subseteq Addr
  BY DEF Ran
<1>2. count' # count
  BY <1>1 DEF TypeOK
<1>3. ~Boot
  BY <1>2 DEF Boot, BootFails, LoadImage
<1>4. ~Reenter /\ ~Crash /\ ~(UNCHANGED vars)
  BY <1>2 DEF Reenter, Crash, vars
<1>5. Turn
  BY <1>3, <1>4 DEF Next
<1>6. PICK j \in Fetched : Execute(j)
  BY <1>4, <1>5 DEF Turn
<1>7. i = j
  BY <1>1, <1>6, OneFetched
<1>. QED  BY <1>1, <1>5, <1>6, <1>7 DEF Turn

\* No two actions issue the same opcode.
LEMMA Issued ==
  ASSUME NEW i
  PROVE  /\ (Add(i) => Issues(i, "ADD")) /\ (Sub(i) => Issues(i, "SUB"))
         /\ (SMul(i) => Issues(i, "SMUL")) /\ (Mul(i) => Issues(i, "MUL"))
         /\ (SDiv(i) => Issues(i, "SDIV")) /\ (Div(i) => Issues(i, "DIV"))
         /\ (Mod(i) => Issues(i, "MOD")) /\ (Shl(i) => Issues(i, "SHL"))
         /\ (Shr(i) => Issues(i, "SHR")) /\ (Sar(i) => Issues(i, "SAR"))
         /\ (And(i) => Issues(i, "AND")) /\ (Or(i) => Issues(i, "OR"))
         /\ (Xor(i) => Issues(i, "XOR")) /\ (Not(i) => Issues(i, "NOT"))
         /\ (Sex(i) => Issues(i, "SEX")) /\ (Cmp(i) => Issues(i, "CMP"))
         /\ (Test(i) => Issues(i, "TEST")) /\ (Mov(i) => Issues(i, "MOV"))
         /\ (LoadI(i) => Issues(i, "LOADI")) /\ (Xchg(i) => Issues(i, "XCHG"))
         /\ (MovFC(i) => Issues(i, "MOVFC")) /\ (MovTC(i) => Issues(i, "MOVTC"))
         /\ (XchgC(i) => Issues(i, "XCHGC")) /\ (In(i) => Issues(i, "IN"))
         /\ (Out(i) => Issues(i, "OUT")) /\ (LoadID(i) => Issues(i, "LOADID"))
         /\ (LoadRD(i) => Issues(i, "LOADRD"))
         /\ (StoreID(i) => Issues(i, "STOREID"))
         /\ (StoreRD(i) => Issues(i, "STORERD"))
         /\ (CmpXchg(i) => Issues(i, "CMPXCHG"))
         /\ (StoreMA(i) => Issues(i, "STOREMA"))
         /\ (LoadMA(i) => Issues(i, "LOADMA"))
         /\ (Jmp(i) => Issues(i, "JMP")) /\ (Call(i) => Issues(i, "CALL"))
         /\ (Stop(i) => Issues(i, "STOP")) /\ (Fail(i) => Issues(i, "FAIL"))
<1>1. /\ (Add(i) => Issues(i, "ADD")) /\ (Sub(i) => Issues(i, "SUB"))
      /\ (SMul(i) => Issues(i, "SMUL")) /\ (Mul(i) => Issues(i, "MUL"))
      /\ (SDiv(i) => Issues(i, "SDIV")) /\ (Div(i) => Issues(i, "DIV"))
      /\ (Mod(i) => Issues(i, "MOD"))
  BY DEF Add, Sub, SMul, Mul, SDiv, Div, Mod
<1>2. /\ (Shl(i) => Issues(i, "SHL")) /\ (Shr(i) => Issues(i, "SHR"))
      /\ (Sar(i) => Issues(i, "SAR")) /\ (And(i) => Issues(i, "AND"))
      /\ (Or(i) => Issues(i, "OR")) /\ (Xor(i) => Issues(i, "XOR"))
      /\ (Not(i) => Issues(i, "NOT")) /\ (Sex(i) => Issues(i, "SEX"))
      /\ (Cmp(i) => Issues(i, "CMP")) /\ (Test(i) => Issues(i, "TEST"))
  BY DEF Shl, Shr, Sar, And, Or, Xor, Not, Sex, Cmp, Test
<1>3. /\ (Mov(i) => Issues(i, "MOV")) /\ (LoadI(i) => Issues(i, "LOADI"))
      /\ (Xchg(i) => Issues(i, "XCHG")) /\ (MovFC(i) => Issues(i, "MOVFC"))
      /\ (MovTC(i) => Issues(i, "MOVTC")) /\ (XchgC(i) => Issues(i, "XCHGC"))
      /\ (In(i) => Issues(i, "IN")) /\ (Out(i) => Issues(i, "OUT"))
  BY DEF Mov, LoadI, Xchg, MovFC, MovTC, XchgC, In, Out
<1>4. /\ (LoadID(i) => Issues(i, "LOADID")) /\ (LoadRD(i) => Issues(i, "LOADRD"))
      /\ (StoreID(i) => Issues(i, "STOREID")) /\ (StoreRD(i) => Issues(i, "STORERD"))
      /\ (CmpXchg(i) => Issues(i, "CMPXCHG")) /\ (StoreMA(i) => Issues(i, "STOREMA"))
      /\ (LoadMA(i) => Issues(i, "LOADMA"))
  BY DEF LoadID, LoadRD, StoreID, StoreRD, CmpXchg, StoreMA, LoadMA
<1>5. /\ (Jmp(i) => Issues(i, "JMP")) /\ (Call(i) => Issues(i, "CALL"))
      /\ (Stop(i) => Issues(i, "STOP")) /\ (Fail(i) => Issues(i, "FAIL"))
  BY DEF Jmp, Call, Stop, Fail
<1>. QED  BY <1>1, <1>2, <1>3, <1>4, <1>5

\* The action of an issued opcode.
LEMMA Dispatched ==
  ASSUME NEW i, NEW op \in Opcodes, Issues(i, op), Execute(i)
  PROVE  /\ (op = "ADD" => Add(i)) /\ (op = "SUB" => Sub(i))
         /\ (op = "SMUL" => SMul(i)) /\ (op = "MUL" => Mul(i))
         /\ (op = "SDIV" => SDiv(i)) /\ (op = "DIV" => Div(i))
         /\ (op = "MOD" => Mod(i)) /\ (op = "CMP" => Cmp(i))
         /\ (op = "MOV" => Mov(i)) /\ (op = "LOADI" => LoadI(i))
         /\ (op = "LOADID" => LoadID(i)) /\ (op = "LOADRD" => LoadRD(i))
         /\ (op = "STOREID" => StoreID(i)) /\ (op = "STORERD" => StoreRD(i))
         /\ (op = "CMPXCHG" => CmpXchg(i))
         /\ (op = "AND" => And(i)) /\ (op = "OR" => Or(i))
         /\ (op = "XOR" => Xor(i)) /\ (op = "NOT" => Not(i))
         /\ (op = "SHL" => Shl(i)) /\ (op = "SHR" => Shr(i))
         /\ (op = "SAR" => Sar(i)) /\ (op = "SEX" => Sex(i))
         /\ (op = "STOREMA" => StoreMA(i)) /\ (op = "LOADMA" => LoadMA(i))
<1>1. ~Skip(i) /\ ~Unknown(i)
  BY DEF Issues, Skip, Unknown
<1>2. i.op = op
  BY DEF Issues
<1>3. \A o : Issues(i, o) => o = op
  BY <1>2 DEF Issues
<1>. QED  BY <1>1, <1>3, Issued DEF Execute

-----------------------------------------------------------------------------
(* Flags                                                                   *)

Masks == {1, 2, 4, 8, 16, 32}

\* A flag reads back as it was set.
LEMMA FlagSet ==
  ASSUME NEW f \in Nat, NEW mask \in Masks, NEW on \in BOOLEAN
  PROVE  Masked(WithFlag(f, mask, on), mask) <=> on
<1>1. CASE mask = 1
  BY <1>1 DEF WithFlag, Masked
<1>2. CASE mask = 2
  BY <1>2 DEF WithFlag, Masked
<1>3. CASE mask = 4
  BY <1>3 DEF WithFlag, Masked
<1>4. CASE mask = 8
  BY <1>4 DEF WithFlag, Masked
<1>5. CASE mask = 16
  BY <1>5 DEF WithFlag, Masked
<1>6. CASE mask = 32
  BY <1>6 DEF WithFlag, Masked
<1>. QED  BY <1>1, <1>2, <1>3, <1>4, <1>5, <1>6 DEF Masks

\* Setting a flag leaves the others alone.
LEMMA FlagKept ==
  ASSUME NEW f \in Nat, NEW mask \in Masks, NEW other \in Masks, mask # other,
         NEW on \in BOOLEAN
  PROVE  Masked(WithFlag(f, mask, on), other) <=> Masked(f, other)
<1>1. CASE mask = 1
  BY <1>1 DEF WithFlag, Masked, Masks
<1>2. CASE mask = 2
  BY <1>2 DEF WithFlag, Masked, Masks
<1>3. CASE mask = 4
  BY <1>3 DEF WithFlag, Masked, Masks
<1>4. CASE mask = 8
  BY <1>4 DEF WithFlag, Masked, Masks
<1>5. CASE mask = 16
  BY <1>5 DEF WithFlag, Masked, Masks
<1>6. CASE mask = 32
  BY <1>6 DEF WithFlag, Masked, Masks
<1>. QED  BY <1>1, <1>2, <1>3, <1>4, <1>5, <1>6 DEF Masks

\* The register file after a flag is set.
LEMMA FlagRegister ==
  ASSUME NEW rf \in RegFile, NEW mask \in Masks, NEW on \in BOOLEAN
  PROVE  LET new == SetFlag(rf, mask, on)
         IN  /\ new \in RegFile
             /\ Masked(new[FLGS], mask) <=> on
             /\ \A other \in Masks \ {mask} :
                  Masked(new[FLGS], other) <=> Masked(rf[FLGS], other)
             /\ \A r \in Reg \ {FLGS} : new[r] = rf[r]
<1>1. FLGS \in Reg /\ rf[FLGS] \in Nat
  BY RegNumbers, SizesPositive DEF RegFile, Dword
<1>2. SetFlag(rf, mask, on) \in RegFile
  BY SetFlagType DEF Masks
<1>3. /\ SetFlag(rf, mask, on)[FLGS] = WithFlag(rf[FLGS], mask, on)
      /\ \A r \in Reg \ {FLGS} : SetFlag(rf, mask, on)[r] = rf[r]
  BY <1>1 DEF SetFlag, RegFile
<1>4. Masked(WithFlag(rf[FLGS], mask, on), mask) <=> on
  BY <1>1, FlagSet
<1>5. \A other \in Masks \ {mask} :
        Masked(WithFlag(rf[FLGS], mask, on), other) <=> Masked(rf[FLGS], other)
  BY <1>1, FlagKept
<1>. QED  BY <1>2, <1>3, <1>4, <1>5

LEMMA FlagMasks ==
  /\ FLGS_Z \in Masks /\ FLGS_C \in Masks /\ FLGS_O \in Masks
  /\ FLGS_P \in Masks /\ FLGS_S \in Masks /\ FLGS_E \in Masks
  /\ FLGS_Z # FLGS_C /\ FLGS_Z # FLGS_S /\ FLGS_C # FLGS_S /\ FLGS_C # FLGS_O
  BY DEF Masks, FLGS_Z, FLGS_C, FLGS_O, FLGS_P, FLGS_S, FLGS_E

-----------------------------------------------------------------------------
(* Memory                                                                  *)

\* The distance of byte k of an access from its address, wrapped or not.
LEMMA Distance ==
  ASSUME NEW a \in Dword, NEW k \in 0 .. 3
  PROVE  LET b == (a + k) % DwordSize
         IN  b \in Dword /\ (b - a) % DwordSize = k
<1>. DEFINE D == DwordSize
            b == (a + k) % D
<1>1. D \in Nat \ {0} /\ k \in 0 .. D - 1 /\ a \in Int /\ a + k \in Int
      /\ -a \in Int
  <2>1. 4 <= D
    BY WidthAssumption, RegNumbers, SizesPositive
  <2>. QED  BY <2>1, SizesPositive DEF Dword
<1>. HIDE DEF D
<1>2. b \in 0 .. D - 1
  BY <1>1, ModRange
<1>3. (b + (-a)) % D = ((a + k) + (-a)) % D
  BY <1>1, ModEarly
<1>4. (a + k) + (-a) = k /\ b + (-a) = b - a
  BY <1>1, <1>2
<1>5. k % D = k
  BY <1>1, SmallMod
<1>. QED  BY <1>2, <1>3, <1>4, <1>5 DEF D, Dword

\* A dword written inside the memory is read back.
LEMMA DwordReadBack ==
  ASSUME NEW m \in Memory, NEW a \in Dword, NEW x \in Dword, NEW wild,
         Span(a, 4) \subseteq Addr
  PROVE  Join(Read(Write(m, a, 4, Bytes(x)), a, 4, wild)) = x
<1>. DEFINE new == Write(m, a, 4, Bytes(x))
<1>1. ASSUME NEW k \in 0 .. 3
      PROVE  Read(new, a, 4, wild)[k] = Bytes(x)[k]
  <2>. DEFINE b == (a + k) % DwordSize
  <2>1. b \in Addr
    BY DEF Span
  <2>2. (b - a) % DwordSize = k
    BY Distance
  <2>3. new[b] = Bytes(x)[k]
    <3>. HIDE DEF b
    <3>. QED  BY <2>1, <2>2 DEF Write
  <2>. HIDE DEF new
  <2>. QED  BY <2>1, <2>3 DEF Read
<1>. HIDE DEF new
<1>2. Join(Read(new, a, 4, wild)) = x
  BY <1>1, JoinBytes
<1>. QED  BY <1>2 DEF new

-----------------------------------------------------------------------------
(* CMPXCHG                                                                 *)

LEMMA CmpXchgEffect ==
  ASSUME TypeOK, NEW i, Decoded(i), CmpXchg(i),
         i.prefix = "DWORD", Span(regs[i.dst], 4) \subseteq Addr
  PROVE  LET v == Join(Read(mem, regs[i.dst], 4, 0))
             equal == v = regs[i.opa]
         IN  /\ mem' = IF equal THEN Write(mem, regs[i.dst], 4, Bytes(regs[i.opb]))
                       ELSE mem
             /\ regs' = SetFlag(IF equal THEN regs ELSE Mismatch(i, v), FLGS_Z, equal)
  BY DEF CmpXchg, WildOf

LEMMA CmpXchgSwapsOrPrepares ==
  ASSUME TypeOK, [Next]_vars
  PROVE  CmpXchgStep
<1>. SUFFICES ASSUME NEW i \in Fetched, Ran(i, "CMPXCHG"), i.prefix = "DWORD",
                     Span(regs[i.dst], 4) \subseteq Addr
              PROVE  LET dest == regs[i.dst]
                         At(m, a) == Join(Read(m, a, 4, 0))
                         Z == Masked(regs'[FLGS], FLGS_Z)
                     IN  /\ Z <=> At(mem, dest) = regs[i.opa]
                         /\ Z => At(mem', dest) = regs[i.opb]
                         /\ ~Z => /\ mem' = mem
                                  /\ i.opa \notin {i.dst, FLGS} /\ i.dst # FLGS =>
                                       At(mem', regs'[i.dst]) = regs'[i.opa]
  BY DEF CmpXchgStep
<1>. DEFINE dest  == regs[i.dst]
            v     == Join(Read(mem, dest, 4, 0))
            equal == v = regs[i.opa]
            old   == IF equal THEN regs ELSE Mismatch(i, v)
<1>1. Decoded(i) /\ CmpXchg(i)
  BY DecodedFetched, Counted, Dispatched DEF Opcodes
<1>2. /\ mem \in Memory /\ regs \in RegFile /\ dest \in Dword
      /\ i.dst \in Reg /\ i.opa \in Reg /\ regs[i.opb] \in Dword
  BY <1>1 DEF TypeOK, Memory, RegFile, Decoded
<1>3. v \in Dword
  <2>1. dest \in Int /\ 0 \in Byte
    BY <1>2, SizesPositive DEF Dword, Byte
  <2>. HIDE DEF dest
  <2>. QED  BY <1>2, <2>1, DwordRead
<1>4. /\ mem' = IF equal THEN Write(mem, dest, 4, Bytes(regs[i.opb])) ELSE mem
      /\ regs' = SetFlag(old, FLGS_Z, equal)
  BY <1>1, CmpXchgEffect
<1>5. old \in RegFile
  BY <1>2, <1>3 DEF Mismatch, RegFile
<1>6. equal \in BOOLEAN
  OBVIOUS
<1>. HIDE DEF v, equal, old
<1>7. /\ Masked(regs'[FLGS], FLGS_Z) <=> equal
      /\ \A r \in Reg \ {FLGS} : regs'[r] = old[r]
  <2>. DEFINE new == SetFlag(old, FLGS_Z, equal)
  <2>1. /\ Masked(new[FLGS], FLGS_Z) <=> equal
        /\ \A r \in Reg \ {FLGS} : new[r] = old[r]
    BY <1>5, <1>6, FlagMasks, FlagRegister
  <2>2. regs' = new
    BY <1>4
  <2>. HIDE DEF new
  <2>. QED  BY <2>1, <2>2
<1>8. equal => Join(Read(mem', dest, 4, 0)) = regs[i.opb]
  BY <1>2, <1>4, DwordReadBack
<1>9. ASSUME ~equal, i.opa \notin {i.dst, FLGS}, i.dst # FLGS
      PROVE  Join(Read(mem', regs'[i.dst], 4, 0)) = regs'[i.opa]
  <2>1. old[i.dst] = dest /\ old[i.opa] = v
    BY <1>2, <1>9 DEF old, Mismatch, RegFile
  <2>2. regs'[i.dst] = dest /\ regs'[i.opa] = v
    BY <1>2, <1>7, <1>9, <2>1
  <2>3. mem' = mem
    BY <1>4, <1>9
  <2>. QED  BY <2>2, <2>3 DEF v
<1>10. ~equal => mem' = mem
  BY <1>4
<1>. QED  BY <1>7, <1>8, <1>9, <1>10 DEF equal, v, dest

\* A retry loop over CMPXCHG makes progress: the instruction either swaps, and
\* says so in Z, or leaves the memory alone and loads what it found, so that it
\* would succeed at once if nobody wrote in between (ins_cmpxchg).
THEOREM CmpXchgExact == Spec => CmpXchgRetries
<1>1. TypeOK /\ [Next]_vars => [CmpXchgStep]_vars
  BY CmpXchgSwapsOrPrepares
<1>. QED  BY <1>1, TypeCorrect, PTL DEF Spec, CmpXchgRetries

-----------------------------------------------------------------------------
(* Stores                                                                  *)

LEMMA HalfDword == Half \in Nat \ {0} /\ DwordSize = Half + Half
<1>1. DwordSize \in Nat \ {0} /\ DwordSize % 64 = 0
  BY SizesPositive, WidthAssumption
<1>. QED  BY <1>1 DEF Half

\* One period added or taken away.
LEMMA ModShift ==
  ASSUME NEW d \in Nat \ {0}, NEW n \in Int, -d <= n, n < d + d
  PROVE  n % d = IF n < 0 THEN n + d ELSE IF n < d THEN n ELSE n - d
<1>1. CASE n < 0
  <2>1. n + d \in 0 .. d - 1 /\ d * (-1) + (n + d) = n
    BY <1>1
  <2>2. (d * (-1) + (n + d)) % d = n + d
    BY <2>1, DivModUnique
  <2>. QED  BY <1>1, <2>1, <2>2
<1>2. CASE 0 <= n /\ n < d
  BY <1>2, SmallMod
<1>3. CASE d <= n
  <2>1. n - d \in 0 .. d - 1 /\ d * 1 + (n - d) = n
    BY <1>3
  <2>2. (d * 1 + (n - d)) % d = n - d
    BY <2>1, DivModUnique
  <2>. QED  BY <1>3, <2>1, <2>2
<1>. QED  BY <1>1, <1>2, <1>3

\* The cast to a signed dword reads two's complement.
LEMMA SignedValue ==
  ASSUME NEW x \in Dword
  PROVE  SDword(x) = Value(x) /\ Value(x) \in SignedRange
         /\ Value(x) = IF x >= Half THEN x - DwordSize ELSE x
<1>1. Half \in Nat \ {0} /\ DwordSize = Half + Half /\ DwordSize \in Nat \ {0}
      /\ x \in 0 .. DwordSize - 1
  BY HalfDword, SizesPositive DEF Dword
<1>2. (x + Half) % DwordSize = IF x + Half < DwordSize THEN x + Half
                               ELSE x + Half - DwordSize
  <2>. DEFINE n == x + Half
  <2>. SUFFICES n % DwordSize = IF n < DwordSize THEN n ELSE n - DwordSize
    BY <1>1
  <2>1. n \in Nat /\ n < DwordSize + DwordSize
    BY <1>1
  <2>. HIDE DEF n
  <2>2. n \in Int /\ -DwordSize <= n /\ ~(n < 0)
    BY <1>1, <2>1
  <2>. QED  BY <1>1, <2>1, <2>2, ModShift
<1>3. SDword(x) = IF x >= Half THEN x - DwordSize ELSE x
  BY DEF SDword, Signed, Half
<1>. QED  BY <1>1, <1>2, <1>3 DEF Value, SignedRange

\* A byte of the memory that an access away from the top of the address space
\* reaches lies behind its address.
LEMMA Reached ==
  ASSUME NEW ea \in Dword, NEW w \in Nat, NEW a \in Dword,
         ea <= DwordSize - w, (a - ea) % DwordSize < w
  PROVE  a \in ea .. ea + w - 1
<1>1. DwordSize \in Nat \ {0} /\ a \in 0 .. DwordSize - 1 /\ ea \in 0 .. DwordSize - 1
  BY SizesPositive DEF Dword
<1>2. a - ea \in Int /\ -DwordSize <= a - ea /\ a - ea < DwordSize + DwordSize
      /\ a - ea < DwordSize
  BY <1>1
<1>3. (a - ea) % DwordSize = IF a - ea < 0 THEN a - ea + DwordSize ELSE a - ea
  BY <1>1, <1>2, ModShift
<1>. QED  BY <1>1, <1>2, <1>3

\* Four instructions write the memory.
LEMMA Writers ==
  ASSUME NEW i, Execute(i)
  PROVE  StoreID(i) \/ StoreRD(i) \/ CmpXchg(i) \/ StoreMA(i) \/ mem' = mem
<1>1. ASSUME Skip(i) \/ Unknown(i) \/ Add(i) \/ Sub(i) \/ SMul(i) \/ Mul(i)
             \/ SDiv(i) \/ Div(i) \/ Mod(i) \/ Shl(i) \/ Shr(i) \/ Sar(i)
      PROVE  mem' = mem
  BY <1>1 DEF Skip, Unknown, Add, Sub, SMul, Mul, SDiv, Div, Mod, Shl, Shr, Sar,
              Shift, RegsOnly
<1>2. ASSUME And(i) \/ Or(i) \/ Xor(i) \/ Not(i) \/ Sex(i) \/ Cmp(i) \/ Test(i)
             \/ Mov(i) \/ LoadI(i) \/ Xchg(i) \/ MovFC(i) \/ MovTC(i)
             \/ XchgC(i) \/ In(i) \/ Out(i)
      PROVE  mem' = mem
  BY <1>2 DEF And, Or, Xor, Not, Sex, Cmp, Test, Mov, LoadI, Xchg, MovFC, MovTC,
              XchgC, WithCreg, In, Out, RegsOnly
<1>3. ASSUME LoadID(i) \/ LoadRD(i) \/ LoadMA(i)
      PROVE  mem' = mem
  BY <1>3 DEF LoadID, LoadRD, LoadAt, LoadMA, RegsOnly
<1>4. ASSUME Jmp(i) \/ Call(i) \/ Stop(i) \/ Fail(i)
      PROVE  mem' = mem
  BY <1>4 DEF Jmp, Call, Stop, Fail, Return
<1>. QED  BY <1>1, <1>2, <1>3, <1>4 DEF Execute

LEMMA StoreInPlace ==
  ASSUME TypeOK, [Next]_vars
  PROVE  StoreStep
<1>. SUFFICES ASSUME NEW i \in Fetched, Ran(i, i.op),
                     i.op \notin {"CMPXCHG", "STOREMA"},
                     NEW a \in Addr, mem'[a] # mem[a]
              PROVE  LET ea == IF i.op = "STOREID" THEN regs[i.dst] + i.imm12
                               ELSE regs[i.dst] + Value(regs[i.opb])
                         w == Width[i.prefix]
                     IN  /\ i.op \in {"STOREID", "STORERD"}
                         /\ ea \notin DwordSize - w + 1 .. DwordSize - 1 =>
                              a \in ea .. ea + w - 1
  BY DEF StoreStep
<1>. DEFINE ea == IF i.op = "STOREID" THEN EaId(i, i.dst) ELSE EaRd(i, i.dst)
            w  == Width[i.prefix]
<1>1. Decoded(i) /\ Execute(i)
  BY DecodedFetched, Counted
<1>2. \A op : Issues(i, op) => i.op = op
  BY DEF Issues
<1>3. StoreID(i) \/ StoreRD(i)
  BY <1>1, <1>2, Writers, Issued
<1>4. StoreAt(i, ea) /\ i.op \in {"STOREID", "STORERD"}
  BY <1>2, <1>3, Issued DEF StoreID, StoreRD
<1>5. /\ regs[i.dst] \in Dword /\ regs[i.opb] \in Dword /\ i.imm12 \in Dword
      /\ w \in {0, 1, 2, 4}
  BY <1>1, Operands, WidthType DEF Decoded
<1>6. ea = IF i.op = "STOREID" THEN regs[i.dst] + i.imm12
           ELSE regs[i.dst] + Value(regs[i.opb])
  BY <1>5, SignedValue DEF EaId, EaRd
<1>. HIDE DEF ea, w
<1>7. /\ ea \in Dword
      /\ mem' = Write(mem, ea, w, Get(regs, i.opa, w))
  BY <1>4 DEF StoreAt, MemOnly, w
<1>8. (a - ea) % DwordSize < w
  <2>1. (a - ea) % DwordSize \in Int
    BY <1>7, SizesPositive, MachineAssumption, ModRange DEF Addr, Dword
  <2>. QED  BY <1>7, <2>1 DEF Write
<1>9. a \in Dword
  BY MachineAssumption, SizesPositive DEF Addr, Dword
<1>10. ASSUME ea \notin DwordSize - w + 1 .. DwordSize - 1
       PROVE  a \in ea .. ea + w - 1
  <2>1. ea <= DwordSize - w /\ w \in Nat
    BY <1>5, <1>7, <1>10, SizesPositive DEF Dword
  <2>. QED  BY <1>7, <1>8, <1>9, <2>1, Reached
<1>. QED  BY <1>4, <1>6, <1>10 DEF w

\* A program that computes a large address stores nowhere, or where it means:
\* the sum of base and displacement is taken in 64 bits and compared with
\* DWORD_MAX before the memory is written, and no other instruction writes it
\* but CMPXCHG and STOREMA (ins_storeid, ins_storerd).
THEOREM StoresStayInPlace == Spec => StoreConfined
<1>1. TypeOK /\ [Next]_vars => [StoreStep]_vars
  BY StoreInPlace
<1>. QED  BY <1>1, TypeCorrect, PTL DEF Spec, StoreConfined

-----------------------------------------------------------------------------
(* Narrow registers                                                        *)

\* The bytes of a dword put together from bytes.
LEMMA BytesJoin ==
  ASSUME NEW b, \A k \in 0 .. 3 : b[k] \in Byte, NEW k \in 0 .. 3
  PROVE  Bytes(Join(b))[k] = b[k]
<1>. DEFINE B  == ByteSize
            e3 == b[3]
            e2 == B * e3 + b[2]
            e1 == B * e2 + b[1]
            e0 == B * e1 + b[0]
<1>1. B \in Nat \ {0}
  BY SizesPositive
<1>2. b[0] \in 0 .. B - 1 /\ b[1] \in 0 .. B - 1 /\ b[2] \in 0 .. B - 1
      /\ b[3] \in 0 .. B - 1
  BY DEF Byte
<1>. HIDE DEF B
<1>3. e3 \in Int /\ e3 % B = b[3]
  BY <1>1, <1>2, SmallMod
<1>. HIDE DEF e3
<1>4. e2 \in Int /\ e2 % B = b[2] /\ e2 \div B = e3
  <2>1. e2 \in Int
    BY <1>1, <1>2, <1>3
  <2>. QED  BY <1>1, <1>2, <1>3, <2>1, DivModUnique
<1>. HIDE DEF e2
<1>5. e1 \in Int /\ e1 % B = b[1] /\ e1 \div B = e2
  <2>1. e1 \in Int
    BY <1>1, <1>2, <1>4
  <2>. QED  BY <1>1, <1>2, <1>4, <2>1, DivModUnique
<1>. HIDE DEF e1
<1>6. e0 \in Int /\ e0 % B = b[0] /\ e0 \div B = e1
  <2>1. e0 \in Int
    BY <1>1, <1>2, <1>5
  <2>. QED  BY <1>1, <1>2, <1>5, <2>1, DivModUnique
<1>7. Join(b) = e0
  <2>1. B * e3 \in Int /\ B * e2 \in Int /\ B * e1 \in Int
    BY <1>1, <1>3, <1>4, <1>5
  <2>2. e2 = b[2] + B * b[3] /\ e1 = b[1] + B * e2 /\ e0 = b[0] + B * e1
    BY <1>1, <1>2, <2>1 DEF e0, e1, e2, e3
  <2>. QED  BY <2>2 DEF Join, B
<1>. HIDE DEF e0
<1>8. Bytes(e0) = [j \in 0 .. 3 |-> <<e0, e1, e2, e3>>[j + 1] % B]
  BY <1>4, <1>5, <1>6 DEF Bytes, B
<1>9. /\ Bytes(e0)[0] = e0 % B /\ Bytes(e0)[1] = e1 % B
      /\ Bytes(e0)[2] = e2 % B /\ Bytes(e0)[3] = e3 % B
  BY <1>8
<1>10. Bytes(e0)[0] = b[0] /\ Bytes(e0)[1] = b[1] /\ Bytes(e0)[2] = b[2]
       /\ Bytes(e0)[3] = b[3]
  BY <1>3, <1>4, <1>5, <1>6, <1>9
<1>11. k = 0 \/ k = 1 \/ k = 2 \/ k = 3
  OBVIOUS
<1>. QED  BY <1>7, <1>10, <1>11

\* A register of w bytes lies in one dword register, and what is put into it
\* stays there.
LEMMA PutIsolated ==
  ASSUME NEW rf \in RegFile, NEW n \in Reg, NEW w \in {1, 2}, NEW bs,
         \A j \in 0 .. w - 1 : bs[j] \in Byte,
         NEW r \in Reg, NEW k \in 0 .. 3, 4 * r + k \notin n * w .. n * w + w - 1
  PROVE  Bytes(Put(rf, n, w, bs)[r])[k] = Bytes(rf[r])[k]
<1>. DEFINE q == (n * w) \div 4
            o == (n * w) % 4
            b == [j \in 0 .. 3 |-> IF j \in o .. o + w - 1 THEN bs[j - o]
                                   ELSE Bytes(rf[q])[j]]
<1>1. q \in Int /\ o \in 0 .. 3 /\ n * w = 4 * q + o /\ w \in Nat /\ n \in Nat /\ r \in Nat
  BY RegNumbers DEF Reg
<1>. HIDE DEF q, o
<1>2. CASE r # q
  <2>1. Put(rf, n, w, bs)[r] = rf[r]
    BY <1>2 DEF Put, RegFile, q
  <2>. QED  BY <2>1
<1>3. CASE r = q
  <2>1. Put(rf, n, w, bs)[r] = Join(b)
    BY <1>3 DEF Put, RegFile, q, o
  <2>2. rf[q] \in Nat
    BY <1>3, SizesPositive DEF RegFile, Dword
  <2>3. \A j \in 0 .. 3 : b[j] \in Byte
    BY <1>1, <2>2, BytesType
  <2>4. k \notin o .. o + w - 1
    BY <1>1, <1>3
  <2>5. b[k] = Bytes(rf[r])[k]
    BY <1>3, <2>4
  <2>. HIDE DEF b
  <2>6. Bytes(Join(b))[k] = b[k]
    BY <2>3, BytesJoin
  <2>. QED  BY <2>1, <2>5, <2>6
<1>. QED  BY <1>2, <1>3

\* The four narrow moves put bytes into the register they name, or skip.
LEMMA NarrowMove ==
  ASSUME TypeOK, NEW i, Decoded(i), i.prefix \in {"WORD", "BYTE"},
         Mov(i) \/ LoadI(i) \/ LoadID(i) \/ LoadRD(i)
  PROVE  LET n == IF i.op = "MOV" THEN i.opa ELSE i.dst
             w == Width[i.prefix]
         IN  \/ regs' = regs
             \/ \E bs : /\ \A j \in 0 .. w - 1 : bs[j] \in Byte
                        /\ regs' = Put(regs, n, w, bs)
<1>. DEFINE n == IF i.op = "MOV" THEN i.opa ELSE i.dst
            w == Width[i.prefix]
            Puts(bs) == /\ \A j \in 0 .. w - 1 : bs[j] \in Byte
                        /\ regs' = Put(regs, n, w, bs)
<1>1. /\ regs \in RegFile /\ mem \in Memory /\ i.opb \in Reg /\ w \in {1, 2}
      /\ i.imm16 \in Nat /\ w = IF i.prefix = "BYTE" THEN 1 ELSE 2
  BY SizesPositive DEF TypeOK, RegFile, Memory, Decoded, Word, Width
<1>2. \A op : Issues(i, op) => i.op = op
  BY DEF Issues
<1>3. CASE Mov(i)
  <2>1. regs' = Put(regs, n, w, Get(regs, i.opb, w))
    BY <1>2, <1>3 DEF Mov, RegsOnly
  <2>2. Get(regs, i.opb, w) \in [0 .. w - 1 -> Byte]
    BY <1>1, GetType
  <2>3. Puts(Get(regs, i.opb, w))
    BY <2>1, <2>2
  <2>. QED  BY <2>3
<1>4. CASE LoadI(i)
  <2>1. regs' = Put(regs, n, w, Bytes(i.imm16))
    BY <1>1, <1>2, <1>4 DEF LoadI, RegsOnly
  <2>2. Bytes(i.imm16) \in [0 .. 3 -> Byte]
    BY <1>1, BytesType
  <2>3. \A j \in 0 .. w - 1 : j \in 0 .. 3
    BY <1>1
  <2>4. Puts(Bytes(i.imm16))
    BY <2>1, <2>2, <2>3
  <2>. QED  BY <2>4
<1>5. ASSUME NEW ea, LoadAt(i, ea), n = i.dst
      PROVE  regs' = regs \/ \E bs : Puts(bs)
  <2>1. CASE ea \notin Dword
    BY <1>5, <2>1 DEF LoadAt, RegsOnly
  <2>2. CASE ea \in Dword
    <3>1. PICK wild \in WildOf(Span(ea, w)) :
            regs' = Put(regs, n, w, Read(mem, ea, w, wild))
      BY <1>5, <2>2 DEF LoadAt, RegsOnly
    <3>2. Read(mem, ea, w, wild) \in [0 .. w - 1 -> Byte]
      <4>1. wild \in Byte /\ ea \in Int /\ w \in Nat
        BY <1>1, <2>2, <3>1, WildType, SizesPositive DEF Dword
      <4>. HIDE DEF w
      <4>. QED  BY <1>1, <4>1, ReadType
    <3>3. Puts(Read(mem, ea, w, wild))
      <4>. HIDE DEF n, w
      <4>. QED  BY <3>1, <3>2
    <3>. QED  BY <3>3
  <2>. QED  BY <2>1, <2>2
<1>6. CASE LoadID(i) \/ LoadRD(i)
  BY <1>2, <1>5, <1>6 DEF LoadID, LoadRD
<1>. QED  BY <1>3, <1>4, <1>6

LEMMA NarrowInPlace ==
  ASSUME TypeOK, [Next]_vars
  PROVE  NarrowStep
<1>. SUFFICES ASSUME NEW i \in Fetched,
                     \E op \in {"MOV", "LOADI", "LOADID", "LOADRD"} : Ran(i, op),
                     i.prefix \in {"WORD", "BYTE"},
                     NEW r \in Reg, NEW k \in 0 .. 3
              PROVE  LET n == IF i.op = "MOV" THEN i.opa ELSE i.dst
                         w == Width[i.prefix]
                     IN  4 * r + k \notin n * w .. n * w + w - 1 =>
                           Bytes(regs'[r])[k] = Bytes(regs[r])[k]
  BY DEF NarrowStep
<1>. DEFINE n == IF i.op = "MOV" THEN i.opa ELSE i.dst
            w == Width[i.prefix]
<1>1. Decoded(i) /\ (Mov(i) \/ LoadI(i) \/ LoadID(i) \/ LoadRD(i))
  <2>1. PICK op \in {"MOV", "LOADI", "LOADID", "LOADRD"} : Ran(i, op)
    OBVIOUS
  <2>2. Decoded(i) /\ Execute(i) /\ Issues(i, op)
    BY <2>1, DecodedFetched, Counted
  <2>3. op \in Opcodes
    BY DEF Opcodes
  <2>. QED  BY <2>2, <2>3, Dispatched
<1>2. regs \in RegFile /\ n \in Reg /\ w \in {1, 2}
  BY <1>1 DEF TypeOK, RegFile, Decoded, Width
<1>3. \/ regs' = regs
      \/ \E bs : /\ \A j \in 0 .. w - 1 : bs[j] \in Byte
                 /\ regs' = Put(regs, n, w, bs)
  BY <1>1, NarrowMove
<1>. HIDE DEF n, w
<1>4. ASSUME 4 * r + k \notin n * w .. n * w + w - 1
      PROVE  Bytes(regs'[r])[k] = Bytes(regs[r])[k]
  <2>1. CASE regs' = regs
    BY <2>1
  <2>2. CASE regs' # regs
    <3>1. PICK bs : /\ \A j \in 0 .. w - 1 : bs[j] \in Byte
                    /\ regs' = Put(regs, n, w, bs)
      BY <1>3, <2>2
    <3>2. Bytes(Put(regs, n, w, bs)[r])[k] = Bytes(regs[r])[k]
      BY <1>2, <1>4, <3>1, PutIsolated, RegNumbers DEF Reg
    <3>. QED  BY <3>1, <3>2
  <2>. QED  BY <2>1, <2>2
<1>. QED  BY <1>4 DEF n, w

\* A byte or word moved into a register disturbs nothing else: the bytes of the
\* dword register around it are masked in again, and the register numbers of a
\* width name disjoint bytes (cpu_set_byte_reg, cpu_set_word_reg).
THEOREM NarrowMovesIsolated == Spec => NarrowWritesIsolated
<1>1. TypeOK /\ [Next]_vars => [NarrowStep]_vars
  BY NarrowInPlace
<1>. QED  BY <1>1, TypeCorrect, PTL DEF Spec, NarrowWritesIsolated

-----------------------------------------------------------------------------
(* The stack of a program                                                  *)

\* The address of the k-th dword of the stack; a stack may wrap.
Place(k) == InitSP - 4 * (k - 1)
WholeDwords == ToDword(InitSP - regs[SP]) % 4 = 0
StackInMemory == \A k \in 1 .. Depth : Span(Place(k), 4) \subseteq Addr
StackInv == WholeDwords /\ StackInMemory

LEMMA Depths ==
  ASSUME TypeOK, WholeDwords
  PROVE  /\ Depth \in Nat /\ 4 * Depth \in 0 .. DwordSize - 1
         /\ \E q \in Int : InitSP - regs[SP] = DwordSize * q + 4 * Depth
<1>. DEFINE D == DwordSize
            x == InitSP - regs[SP]
<1>1. D \in Nat \ {0} /\ InitSP \in Int /\ regs[SP] \in Int
  BY SizesPositive, MachineAssumption, RegNumbers DEF TypeOK, Dword
<1>2. x \in Int
  BY <1>1
<1>3. ToDword(x) % 4 = 0 /\ ToDword(x) \in 0 .. D - 1 /\ x \div D \in Int
      /\ x = D * (x \div D) + ToDword(x)
  <2>. HIDE DEF x
  <2>1. x \div D \in Int /\ x % D \in 0 .. D - 1 /\ x = D * (x \div D) + (x % D)
    BY <1>1, <1>2, DivMod
  <2>2. ToDword(x) % 4 = 0
    BY DEF WholeDwords, x
  <2>. QED  BY <2>1, <2>2 DEF ToDword
<1>. DEFINE t == ToDword(x)
<1>4. Depth = t \div 4
  BY DEF Depth
<1>. HIDE DEF x, t
<1>5. t \in Nat
  BY <1>1, <1>3 DEF t
<1>6. t \div 4 \in Nat /\ t = 4 * (t \div 4) + (t % 4) /\ t % 4 = 0
  BY <1>3, <1>5 DEF t
<1>7. Depth \in Nat /\ 4 * Depth = t
  BY <1>4, <1>6
<1>8. x = D * (x \div D) + 4 * Depth /\ x \div D \in Int
  BY <1>3, <1>7 DEF t
<1>. QED  BY <1>3, <1>7, <1>8 DEF t, x

\* The depth after the stack pointer moved down by n dwords, or up for n < 0.
LEMMA MovedDepth ==
  ASSUME TypeOK, WholeDwords, NEW n \in Int, 4 * (Depth + n) \in 0 .. DwordSize - 1
  PROVE  ToDword(InitSP - ToDword(regs[SP] - 4 * n)) = 4 * (Depth + n)
<1>. DEFINE D == DwordSize
            y == regs[SP] - 4 * n
            v == y % D
            u == y \div D
<1>1. D \in Nat \ {0} /\ InitSP \in Int /\ regs[SP] \in Int /\ y \in Int
      /\ Depth \in Int
  BY SizesPositive, MachineAssumption, RegNumbers, Depths DEF TypeOK, Dword
<1>2. PICK q \in Int : InitSP - regs[SP] = D * q + 4 * Depth
  BY Depths
<1>3. u \in Int /\ v \in Int /\ y = D * u + v
  <2>. HIDE DEF y
  <2>. QED  BY <1>1, DivMod
<1>4. InitSP - v = D * (q + u) + 4 * (Depth + n)
  <2>1. v = regs[SP] - 4 * n - D * u
    <3>. HIDE DEF u, v
    <3>. QED  BY <1>1, <1>3 DEF y
  <2>2. D * (q + u) = D * q + D * u /\ D * q \in Int /\ D * u \in Int
    <3>. HIDE DEF u, v
    <3>. QED  BY <1>1, <1>2, <1>3
  <2>. HIDE DEF u, v, y, D
  <2>. QED  BY <1>1, <1>2, <2>1, <2>2
<1>5. (D * (q + u) + 4 * (Depth + n)) % D = 4 * (Depth + n)
  <2>. DEFINE z == 4 * (Depth + n)
  <2>1. z \in 0 .. D - 1 /\ q + u \in Int
    BY <1>3
  <2>. HIDE DEF z, u
  <2>. QED  BY <1>1, <2>1, DivModUnique DEF z
<1>. QED  BY <1>4, <1>5 DEF ToDword

\* The place n dwords above the top of the stack, from the stack pointer.
LEMMA PlaceAbove ==
  ASSUME TypeOK, WholeDwords, NEW n \in Int
  PROVE  /\ Place(Depth + 1 + n) \in Int
         /\ ToDword(Place(Depth + 1 + n)) = ToDword(regs[SP] - 4 * n)
<1>. DEFINE D == DwordSize
            y == regs[SP] - 4 * n
            p == Place(Depth + 1 + n)
<1>1. D \in Nat \ {0} /\ InitSP \in Int /\ regs[SP] \in Int /\ y \in Int
      /\ Depth \in Int
  BY SizesPositive, MachineAssumption, RegNumbers, Depths DEF TypeOK, Dword
<1>2. PICK q \in Int : InitSP - regs[SP] = D * q + 4 * Depth
  BY Depths
<1>3. D * q \in Int
  BY <1>1, <1>2
<1>4. p \in Int /\ p = y + D * q
  <2>. HIDE DEF D
  <2>. QED  BY <1>1, <1>2, <1>3 DEF Place
<1>5. (y + D * q) % D = y % D
  <2>. HIDE DEF y
  <2>1. y \div D \in Int /\ y % D \in 0 .. D - 1 /\ y = D * (y \div D) + (y % D)
    BY <1>1, DivMod
  <2>. DEFINE u == y \div D
              v == y % D
  <2>2. u \in Int /\ v \in 0 .. D - 1 /\ y = D * u + v
    BY <2>1
  <2>. HIDE DEF u, v
  <2>3. y + D * q = D * (u + q) + v /\ u + q \in Int
    BY <1>1, <1>2, <2>2
  <2>4. (D * (u + q) + v) % D = v
    BY <1>1, <2>2, <2>3, DivModUnique
  <2>. QED  BY <2>3, <2>4 DEF v
<1>. QED  BY <1>4, <1>5 DEF ToDword

\* An access inside the memory depends on its address modulo the dwords only.
LEMMA SameAccess ==
  ASSUME NEW m, NEW a \in Int, NEW b \in Int, ToDword(a) = ToDword(b),
         NEW v, NEW w
  PROVE  /\ Span(a, 4) = Span(b, 4)
         /\ Span(a, 4) \subseteq Addr => Read(m, a, 4, v) = Read(m, b, 4, w)
<1>1. ASSUME NEW k \in 0 .. 3
      PROVE  (a + k) % DwordSize = (b + k) % DwordSize
  <2>1. k \in Int /\ DwordSize \in Nat \ {0}
    BY SizesPositive
  <2>2. ((a % DwordSize) + k) % DwordSize = (a + k) % DwordSize
    BY <2>1, ModEarly
  <2>3. ((b % DwordSize) + k) % DwordSize = (b + k) % DwordSize
    BY <2>1, ModEarly
  <2>. QED  BY <2>2, <2>3 DEF ToDword
<1>2. Span(a, 4) = Span(b, 4)
  BY <1>1 DEF Span
<1>3. ASSUME Span(a, 4) \subseteq Addr, NEW k \in 0 .. 3
      PROVE  (a + k) % DwordSize \in Addr
  BY <1>3 DEF Span
<1>. QED  BY <1>1, <1>2, <1>3 DEF Read

\* A pushed register is at its place.
LEMMA PushedPlace ==
  ASSUME TypeOK, WholeDwords, NEW s \in Reg, NEW e \in Reg,
         PushSpan(SP, s, e) \subseteq Addr, NEW r \in s .. e
  PROVE  LET p == Place(Depth + 1 + (r - s))
         IN  /\ Span(p, 4) \subseteq Addr
             /\ Join(Read(PushMem(mem, regs, SP, s, e), p, 4, 0)) = regs[r]
<1>. DEFINE n == RangeLen(s, e)
            sp == regs[SP]
            i == e - r
            p == Place(Depth + 1 + (r - s))
            a == ToDword(ToDword(sp - 4 * n) + 4 * (i + 1))
            base == ToDword(sp - 4 * (n - 1))
            m == PushMem(mem, regs, SP, s, e)
<1>1. /\ s \in Int /\ e \in Int /\ r \in Int /\ n \in 1 .. NReg /\ n = e - s + 1
      /\ i \in 0 .. n - 1 /\ i \in Int /\ n \in Int
  BY FieldSizes DEF Reg, RangeLen
<1>2. DwordSize \in Nat \ {0} /\ sp \in Int /\ sp \in Dword
  BY SizesPositive, RegNumbers DEF TypeOK, Dword
<1>3. p \in Int /\ ToDword(p) = ToDword(sp - 4 * (r - s))
  <2>1. r - s \in Int
    BY <1>1
  <2>. QED  BY <2>1, PlaceAbove
<1>4. a = ToDword(sp - 4 * (r - s)) /\ a \in Dword
  <2>1. sp - 4 * n \in Int /\ 4 * (i + 1) \in Int /\ sp - 4 * n + 4 * (i + 1) \in Int
        /\ sp - 4 * n + 4 * (i + 1) = sp - 4 * (r - s)
    <3>. HIDE DEF sp, n
    <3>. QED  BY <1>1, <1>2
  <2>. HIDE DEF sp, n, i
  <2>2. (((sp - 4 * n) % DwordSize) + 4 * (i + 1)) % DwordSize
          = (sp - 4 * n + 4 * (i + 1)) % DwordSize
    BY <1>2, <2>1, ModEarly
  <2>3. a = ToDword(sp - 4 * n + 4 * (i + 1))
    BY <2>2 DEF ToDword
  <2>. QED  BY <2>1, <2>3, ToDwordType
<1>5. a \in Int /\ ToDword(a) = ToDword(p)
  <2>1. a % DwordSize = a
    BY <1>2, <1>4, SmallMod DEF Dword
  <2>. QED  BY <1>2, <1>3, <1>4, <2>1 DEF ToDword, Dword
<1>6. Span(a, 4) \subseteq Addr
  <2>1. ASSUME NEW k \in 0 .. 3
        PROVE  (a + k) % DwordSize \in Addr
    <3>1. (a + k) % DwordSize \in Span(base, 4 * n)
      <4>. HIDE DEF n, i
      <4>. QED  BY <1>1, <1>2, BytePlace
    <3>. QED  BY <3>1 DEF PushSpan
  <2>. HIDE DEF a
  <2>. QED  BY <2>1 DEF Span
<1>7. Join(Read(m, a, 4, 0)) = regs[r]
  <2>1. PushRegs(regs, SP, s, e)[SP] = ToDword(sp - 4 * n)
    BY RegNumbers DEF PushRegs, TypeOK
  <2>2. i + 1 = e - r + 1
    OBVIOUS
  <2>3. Join(Read(m, ToDword(PushRegs(regs, SP, s, e)[SP] + 4 * (e - r + 1)), 4, 0))
          = regs[r]
    BY RegNumbers, PoppedRegister
  <2>. QED  BY <2>1, <2>2, <2>3
<1>8. Span(a, 4) = Span(p, 4) /\ Read(m, a, 4, 0) = Read(m, p, 4, 0)
  <2>. HIDE DEF a, p, m
  <2>. QED  BY <1>3, <1>5, <1>6, SameAccess
<1>. QED  BY <1>6, <1>7, <1>8

\* A push writes above the dwords of the stack.
LEMMA PushLeaves ==
  ASSUME TypeOK, WholeDwords, NEW s \in Reg, NEW e \in Reg, s <= e,
         4 * (Depth + RangeLen(s, e)) < DwordSize,
         NEW k \in 1 .. Depth, NEW j \in 0 .. 3,
         (Place(k) + j) % DwordSize \in Addr
  PROVE  PushMem(mem, regs, SP, s, e)[(Place(k) + j) % DwordSize]
           = mem[(Place(k) + j) % DwordSize]
<1>. DEFINE D == DwordSize
            n == RangeLen(s, e)
            base == ToDword(regs[SP] - 4 * (n - 1))
            b == (Place(k) + j) % D
            rest == 4 * (Depth - k + n) + j
<1>1. D \in Nat \ {0} /\ InitSP \in Int /\ regs[SP] \in Int /\ Depth \in Nat
  BY SizesPositive, MachineAssumption, RegNumbers, Depths DEF TypeOK, Dword
<1>2. n \in Nat /\ n >= 1 /\ n - 1 \in Int
  BY FieldSizes DEF Reg, RangeLen
<1>. HIDE DEF n
<1>3. rest \in Int /\ rest >= 4 * n /\ rest \in 0 .. D - 1
  BY <1>1, <1>2 DEF n
<1>4. base \in Int /\ \E u \in Int : base = Place(Depth + n) + D * u
  <2>. DEFINE p == Place(Depth + 1 + (n - 1))
  <2>1. p \in Int /\ ToDword(p) = base
    BY <1>2, PlaceAbove
  <2>2. Depth + 1 + (n - 1) = Depth + n
    BY <1>1, <1>2
  <2>. HIDE DEF p, base
  <2>3. p \div D \in Int /\ p % D \in 0 .. D - 1 /\ p = D * (p \div D) + (p % D)
    BY <1>1, <2>1, DivMod
  <2>. DEFINE v == p \div D
  <2>4. v \in Int /\ p = D * v + base /\ base \in Int
    BY <2>1, <2>3 DEF ToDword
  <2>. HIDE DEF v
  <2>5. base = p + D * (-v) /\ -v \in Int
    BY <1>1, <2>1, <2>4
  <2>6. p = Place(Depth + n)
    BY <2>2 DEF p
  <2>. QED  BY <2>4, <2>5, <2>6
<1>5. PICK u \in Int : base = Place(Depth + n) + D * u
  BY <1>4
<1>. HIDE DEF base, rest, b
<1>6. (b - base) % D = rest
  <2>1. Place(k) + j \in Int /\ -base \in Int /\ D * u \in Int
    BY <1>1, <1>4, <1>5 DEF Place
  <2>2. (((Place(k) + j) % D) + (-base)) % D = (Place(k) + j + (-base)) % D
    BY <1>1, <2>1, ModEarly
  <2>3. b \in Int /\ b - base = b + (-base)
    <3>1. b \in Int
      BY <1>1, <2>1, DivMod DEF b
    <3>. QED  BY <1>4, <3>1
  <2>4. Place(k) + j + (-base) = D * (-u) + rest
    <3>1. D * (-u) = -(D * u)
      BY <1>1, <1>5
    <3>. DEFINE z == D * u
    <3>2. base = Place(Depth + n) + z /\ D * (-u) = -z /\ z \in Int
      BY <1>5, <2>1, <3>1
    <3>. HIDE DEF z
    <3>3. Place(k) + j + (-base) = -z + rest
      BY <1>1, <1>2, <1>4, <3>2 DEF Place, rest
    <3>. QED  BY <3>2, <3>3
  <2>5. (D * (-u) + rest) % D = rest
    <3>1. -u \in Int
      BY <1>5
    <3>. QED  BY <1>1, <1>3, <3>1, DivModUnique
  <2>. QED  BY <2>2, <2>3, <2>4, <2>5 DEF b
<1>7. ~((b - base) % D < 4 * n)
  BY <1>2, <1>3, <1>6
<1>8. b \in Addr
  BY DEF b
<1>. QED  BY <1>7, <1>8 DEF PushMem, Write, base, b, n

\* A stack in a memory is a sequence of dwords.
LEMMA StackSequence ==
  ASSUME NEW m \in Memory, NEW d \in Nat
  PROVE  LET st == [k \in 1 .. d |-> Join(Read(m, InitSP - 4 * (k - 1), 4, 0))]
         IN  st \in Seq(Dword) /\ Len(st) = d
<1>. DEFINE st == [k \in 1 .. d |-> Join(Read(m, InitSP - 4 * (k - 1), 4, 0))]
<1>1. ASSUME NEW k \in 1 .. d
      PROVE  Join(Read(m, InitSP - 4 * (k - 1), 4, 0)) \in Dword
  <2>1. InitSP - 4 * (k - 1) \in Int
    BY MachineAssumption DEF Dword
  <2>2. 0 \in Byte
    BY SizesPositive DEF Byte
  <2>. QED  BY <2>1, <2>2, DwordRead
<1>2. st \in [1 .. d -> Dword]
  BY <1>1
<1>. HIDE DEF st
<1>3. st \in Seq(Dword) /\ Len(st) = d
  BY <1>2
<1>. QED  BY <1>3 DEF st

\* The mapped registers.
LEMMA VisibleFile ==
  ASSUME TypeOK
  PROVE  [r \in Reg \ {SP} |-> regs[r]] \in [Reg \ {SP} -> Dword]
  BY DEF TypeOK

LEMMA RangeOf ==
  ASSUME TypeOK, NEW i \in Fetched, NEW op, StackMove(i, op)
  PROVE  LET s == RegStart(i)
             e == RegEnd(i)
         IN  /\ s \in Reg /\ e \in Reg /\ s <= e /\ s .. e \subseteq Reg \ {SP}
             /\ RangeLen(s, e) = e - s + 1 /\ RangeLen(s, e) \in Nat \ {0}
<1>. DEFINE s == RegStart(i)
            e == RegEnd(i)
<1>1. i.imm16 % ByteSize \in Byte
  <2>1. i.imm16 \in Int
    BY DecodedFetched, SizesPositive DEF Decoded, Word
  <2>. QED  BY <2>1, SizesPositive, DivMod DEF Byte
<1>2. s \in Reg /\ e \in Reg
  BY <1>1, FieldTypes DEF RegStart, RegEnd
<1>3. s <= e /\ SP \notin s .. e
  BY DEF StackMove
<1>. HIDE DEF s, e
<1>4. s .. e \subseteq Reg
  BY <1>2, FieldSizes DEF Reg
<1>5. RangeLen(s, e) = e - s + 1 /\ RangeLen(s, e) \in Nat \ {0}
  BY <1>2, <1>3, FieldSizes DEF Reg, RangeLen
<1>. QED  BY <1>2, <1>3, <1>4, <1>5 DEF s, e

LEMMA MoveEnds ==
  ASSUME TypeOK, NEW i \in Fetched, NEW op, StackMove(i, op)
  PROVE  RegStart(i) \in Reg \ {SP} /\ RegEnd(i) \in Reg \ {SP} /\ RegStart(i) <= RegEnd(i)
<1>. DEFINE s == RegStart(i)
            e == RegEnd(i)
<1>1. s \in Reg /\ e \in Reg /\ s <= e /\ s .. e \subseteq Reg \ {SP}
  BY RangeOf
<1>. HIDE DEF s, e
<1>2. s \in s .. e /\ e \in s .. e
  BY <1>1, FieldSizes DEF Reg
<1>. QED  BY <1>1, <1>2 DEF s, e

\* STOREMA is VaStack's push.
LEMMA PushStep ==
  ASSUME TypeOK, TypeOK', StackInv, [Next]_vars, NEW i \in Fetched, Pushes(i)
  PROVE  StackInv' /\ Stack!Push(RegStart(i), RegEnd(i))
<1>. DEFINE s == RegStart(i)
            e == RegEnd(i)
            n == RangeLen(s, e)
            file == [r \in Reg \ {SP} |-> regs[r]]
            pushed == [k \in 1 .. e - s + 1 |-> file[s + k - 1]]
<1>1. /\ s \in Reg /\ e \in Reg /\ s <= e /\ s .. e \subseteq Reg \ {SP}
      /\ n = e - s + 1 /\ n \in Nat \ {0}
  BY RangeOf DEF Pushes
<1>2. PushSpan(SP, s, e) \subseteq Addr /\ 4 * (Depth + n) < DwordSize
  BY DEF Pushes
<1>3. mem' = PushMem(mem, regs, SP, s, e) /\ regs' = PushRegs(regs, SP, s, e)
  <2>1. Ran(i, "STOREMA") /\ i.dst = SP
    BY DEF Pushes, StackMove
  <2>2. StoreMA(i)
    BY <2>1, Counted, Dispatched DEF Opcodes
  <2>. QED  BY <2>1, <2>2 DEF StoreMA
<1>4. WholeDwords /\ StackInMemory /\ Depth \in Nat
  BY Depths DEF StackInv
<1>. HIDE DEF s, e, n
<1>5. s \in Int /\ e \in Int
  BY <1>1, FieldSizes DEF Reg
<1>6. regs'[SP] = ToDword(regs[SP] - 4 * n) /\ \A r \in Reg \ {SP} : regs'[r] = regs[r]
  BY <1>3, RegNumbers DEF PushRegs, TypeOK, n
<1>7. WholeDwords' /\ Depth' = Depth + n
  <2>1. 4 * (Depth + n) \in 0 .. DwordSize - 1
    BY <1>1, <1>2, <1>4, SizesPositive
  <2>2. ToDword(InitSP - regs'[SP]) = 4 * (Depth + n)
    BY <1>1, <1>4, <1>6, <2>1, MovedDepth
  <2>3. Depth + n \in Nat
    BY <1>1, <1>4
  <2>4. (4 * (Depth + n)) % 4 = 0 /\ (4 * (Depth + n)) \div 4 = Depth + n
    <3>. DEFINE z == Depth + n
    <3>1. z \in Nat
      BY <2>3
    <3>. HIDE DEF z
    <3>2. (4 * z) % 4 = 0 /\ (4 * z) \div 4 = z
      BY <3>1
    <3>. QED  BY <3>2 DEF z
  <2>. QED  BY <2>2, <2>4 DEF WholeDwords, Depth
<1>8. ASSUME NEW k \in 1 .. Depth
      PROVE  Read(mem', Place(k), 4, 0) = Read(mem, Place(k), 4, 0)
  <2>1. ASSUME NEW j \in 0 .. 3
        PROVE  /\ (Place(k) + j) % DwordSize \in Addr
               /\ mem'[(Place(k) + j) % DwordSize] = mem[(Place(k) + j) % DwordSize]
    <3>1. (Place(k) + j) % DwordSize \in Span(Place(k), 4)
      BY DEF Span
    <3>2. (Place(k) + j) % DwordSize \in Addr
      BY <1>4, <3>1 DEF StackInMemory
    <3>. QED  BY <1>1, <1>2, <1>3, <1>4, <3>2, PushLeaves DEF n
  <2>. QED  BY <2>1 DEF Read
<1>9. ASSUME NEW r \in s .. e
      PROVE  /\ Depth + 1 + (r - s) \in Depth + 1 .. Depth + n
             /\ Span(Place(Depth + 1 + (r - s)), 4) \subseteq Addr
             /\ Join(Read(mem', Place(Depth + 1 + (r - s)), 4, 0)) = regs[r]
  <2>1. Depth + 1 + (r - s) \in Depth + 1 .. Depth + n
    BY <1>1, <1>4, <1>5
  <2>. QED  BY <1>1, <1>2, <1>3, <1>4, <2>1, PushedPlace
<1>10. \A k \in 1 .. Depth + n : k \in 1 .. Depth \/ k \in Depth + 1 .. Depth + n
  BY <1>1, <1>4
<1>11. StackInv'
  <2>1. ASSUME NEW k \in 1 .. Depth + n
        PROVE  Span(Place(k), 4) \subseteq Addr
    <3>1. CASE k \in 1 .. Depth
      BY <1>4, <3>1 DEF StackInMemory
    <3>2. CASE k \in Depth + 1 .. Depth + n
      <4>. DEFINE r == s + (k - Depth) - 1
      <4>1. r \in s .. e /\ k = Depth + 1 + (r - s)
        BY <1>1, <1>4, <1>5, <3>2
      <4>. HIDE DEF r
      <4>. QED  BY <1>9, <4>1
    <3>. QED  BY <1>10, <3>1, <3>2
  <2>2. StackInMemory'
    BY <1>7, <2>1 DEF StackInMemory
  <2>. QED  BY <1>7, <2>2 DEF StackInv
<1>12. StackMem' = StackMem \o pushed
  <2>1. pushed \in Seq(Dword) /\ Len(pushed) = n
        /\ \A k \in 1 .. n : pushed[k] = regs[s + k - 1]
    <3>1. \A k \in 1 .. n : s + k - 1 \in Reg \ {SP}
      <4>1. \A k \in 1 .. n : s + k - 1 \in s .. e
        BY <1>1, <1>5
      <4>. QED  BY <1>1, <4>1
    <3>2. \A k \in 1 .. n : file[s + k - 1] = regs[s + k - 1]
      BY <3>1
    <3>3. \A k \in 1 .. n : regs[s + k - 1] \in Dword
      BY <3>1 DEF TypeOK
    <3>. HIDE DEF file
    <3>4. pushed = [k \in 1 .. n |-> file[s + k - 1]]
      BY <1>1
    <3>. HIDE DEF pushed
    <3>5. pushed \in [1 .. n -> Dword] /\ \A k \in 1 .. n : pushed[k] = regs[s + k - 1]
      BY <3>2, <3>3, <3>4
    <3>. QED  BY <1>1, <3>5
  <2>2. /\ StackMem \in Seq(Dword) /\ Len(StackMem) = Depth
        /\ StackMem' \in Seq(Dword) /\ Len(StackMem') = Depth'
    <3>1. mem \in Memory /\ mem' \in Memory /\ Depth' \in Nat
      BY <1>1, <1>4, <1>7 DEF TypeOK, Memory
    <3>. QED  BY <1>4, <3>1, StackSequence DEF StackMem
  <2>. HIDE DEF pushed
  <2>3. /\ StackMem \o pushed \in Seq(Dword) /\ Len(StackMem \o pushed) = Depth + n
        /\ \A k \in 1 .. Depth + n : (StackMem \o pushed)[k] =
             IF k <= Depth THEN StackMem[k] ELSE pushed[k - Depth]
    BY <2>1, <2>2, ConcatProperties
  <2>4. ASSUME NEW k \in 1 .. Depth + n
        PROVE  StackMem'[k] = (StackMem \o pushed)[k]
    <3>1. StackMem'[k] = Join(Read(mem', Place(k), 4, 0))
      BY <1>7 DEF StackMem, Place
    <3>2. CASE k \in 1 .. Depth
      <4>1. StackMem[k] = Join(Read(mem, Place(k), 4, 0))
        BY <3>2 DEF StackMem, Place
      <4>. QED  BY <1>8, <2>3, <3>1, <3>2, <4>1
    <3>3. CASE k \in Depth + 1 .. Depth + n
      <4>. DEFINE r == s + (k - Depth) - 1
      <4>1. r \in s .. e /\ k = Depth + 1 + (r - s) /\ k - Depth \in 1 .. n
        BY <1>1, <1>4, <1>5, <3>3
      <4>. HIDE DEF r
      <4>2. Join(Read(mem', Place(k), 4, 0)) = regs[r]
        BY <1>9, <4>1
      <4>3. pushed[k - Depth] = regs[r]
        <5>1. s + (k - Depth) - 1 = r
          BY DEF r
        <5>. QED  BY <2>1, <4>1, <5>1
      <4>4. ~(k <= Depth)
        BY <1>4, <3>3
      <4>. QED  BY <2>3, <3>1, <4>2, <4>3, <4>4
    <3>. QED  BY <1>10, <3>2, <3>3
  <2>. QED  BY <1>7, <2>2, <2>3, <2>4, SeqEqual
<1>13. file' = file
  BY <1>6
<1>. QED  BY <1>1, <1>11, <1>12, <1>13 DEF Stack!Push, s, e

\* LOADMA is VaStack's pop.
LEMMA PopStep ==
  ASSUME TypeOK, TypeOK', StackInv, [Next]_vars, NEW i \in Fetched, Pops(i)
  PROVE  StackInv' /\ Stack!Pop(RegStart(i), RegEnd(i))
<1>. DEFINE s == RegStart(i)
            e == RegEnd(i)
            n == RangeLen(s, e)
            file == [r \in Reg \ {SP} |-> regs[r]]
            left == Depth - n
<1>1. /\ s \in Reg /\ e \in Reg /\ s <= e /\ s .. e \subseteq Reg \ {SP}
      /\ n = e - s + 1 /\ n \in Nat \ {0}
  BY RangeOf DEF Pops
<1>2. n <= Depth
  BY DEF Pops
<1>3. mem' = mem /\ \E wild : regs' = PopRegs(mem, regs, SP, s, e, wild)
  <2>1. Ran(i, "LOADMA") /\ i.dst = SP
    BY DEF Pops, StackMove
  <2>2. LoadMA(i)
    BY <2>1, Counted, Dispatched DEF Opcodes
  <2>. QED  BY <2>1, <2>2 DEF LoadMA, RegsOnly
<1>4. WholeDwords /\ StackInMemory /\ Depth \in Nat /\ 4 * Depth \in 0 .. DwordSize - 1
  BY Depths DEF StackInv
<1>5. PICK wild : regs' = PopRegs(mem, regs, SP, s, e, wild)
  BY <1>3
<1>. HIDE DEF s, e, n
<1>6. s \in Int /\ e \in Int /\ left \in 0 .. Depth /\ left \in Nat
  BY <1>1, <1>2, <1>4, FieldSizes DEF Reg
<1>7. regs[SP] \in Int /\ DwordSize \in Nat \ {0}
  BY SizesPositive, RegNumbers DEF TypeOK, Dword
<1>8. /\ regs'[SP] = ToDword(regs[SP] + 4 * n)
      /\ \A r \in (Reg \ {SP}) \ (s .. e) : regs'[r] = regs[r]
      /\ \A r \in s .. e :
           regs'[r] = Join(Read(mem, ToDword(regs[SP] + 4 * (e - r + 1)), 4, wild))
  BY <1>1, <1>5, RegNumbers DEF PopRegs, n
<1>9. WholeDwords' /\ Depth' = left
  <2>1. 4 * left \in 0 .. DwordSize - 1 /\ Depth + (-n) = left /\ -n \in Int
    <3>1. Depth + (-n) = left /\ -n \in Int
      BY <1>1, <1>4
    <3>. HIDE DEF left
    <3>2. 4 * left \in Int /\ 0 <= 4 * left /\ 4 * left <= 4 * Depth
      BY <1>4, <1>6
    <3>3. 4 * Depth <= DwordSize - 1
      BY <1>4
    <3>4. 4 * left \in 0 .. DwordSize - 1
      <4>. DEFINE x == 4 * left
                  y == 4 * Depth
      <4>1. x \in Int /\ y \in Int /\ 0 <= x /\ x <= y /\ y <= DwordSize - 1
        BY <1>4, <3>2, <3>3
      <4>. HIDE DEF x, y
      <4>2. x \in 0 .. DwordSize - 1
        BY <1>7, <4>1
      <4>. QED  BY <4>2 DEF x
    <3>. QED  BY <3>1, <3>4
  <2>2. regs[SP] - 4 * (-n) = regs[SP] + 4 * n
    BY <1>1, <1>7
  <2>3. ToDword(InitSP - regs'[SP]) = 4 * left
    BY <1>4, <1>8, <2>1, <2>2, MovedDepth
  <2>. HIDE DEF left
  <2>4. (4 * left) % 4 = 0 /\ (4 * left) \div 4 = left
    BY <1>6
  <2>. QED  BY <2>3, <2>4 DEF WholeDwords, Depth
<1>10. StackInv'
  <2>1. \A k \in 1 .. left : k \in 1 .. Depth
    BY <1>4, <1>6
  <2>2. StackInMemory'
    BY <1>4, <1>9, <2>1 DEF StackInMemory
  <2>. QED  BY <1>9, <2>2 DEF StackInv
<1>11. StackMem \in Seq(Dword) /\ Len(StackMem) = Depth
       /\ StackMem' \in Seq(Dword) /\ Len(StackMem') = left
  <2>1. mem \in Memory /\ mem' \in Memory /\ Depth' \in Nat
    BY <1>6, <1>9 DEF TypeOK, Memory
  <2>. QED  BY <1>4, <1>9, <2>1, StackSequence DEF StackMem
<1>12. StackMem' = SubSeq(StackMem, 1, left)
  <2>1. ASSUME NEW k \in 1 .. left
        PROVE  StackMem'[k] = StackMem[k] /\ StackMem[k] \in Dword
    <3>1. k \in 1 .. Depth
      BY <1>4, <1>6
    <3>2. StackMem[k] = Join(Read(mem, InitSP - 4 * (k - 1), 4, 0))
      BY <3>1 DEF StackMem
    <3>3. StackMem'[k] = Join(Read(mem, InitSP - 4 * (k - 1), 4, 0))
      BY <1>3, <1>9 DEF StackMem
    <3>. QED  BY <1>11, <3>1, <3>2, <3>3
  <2>. HIDE DEF left
  <2>2. /\ SubSeq(StackMem, 1, left) \in Seq(Dword)
        /\ Len(SubSeq(StackMem, 1, left)) = left
        /\ \A k \in 1 .. left : SubSeq(StackMem, 1, left)[k] = StackMem[k]
    <3>1. /\ SubSeq(StackMem, 1, left) \in Seq(Dword)
          /\ Len(SubSeq(StackMem, 1, left)) = IF 1 <= left THEN left - 1 + 1 ELSE 0
          /\ \A k \in 1 .. left - 1 + 1 :
               SubSeq(StackMem, 1, left)[k] = StackMem[1 + k - 1]
      BY <1>6, <2>1, SubSeqProperties
    <3>2. left - 1 + 1 = left /\ \A k \in 1 .. left : 1 + k - 1 = k
      BY <1>6
    <3>. QED  BY <1>6, <3>1, <3>2
  <2>. QED  BY <1>11, <2>1, <2>2, SeqEqual
<1>13. ASSUME NEW r \in s .. e
       PROVE  regs'[r] = StackMem[left + 1 + r - s]
  <2>. DEFINE k == left + 1 + r - s
              a == ToDword(regs[SP] + 4 * (e - r + 1))
  <2>1. k \in 1 .. Depth /\ s - r + (n - 1) = e - r + 1 - 1 /\ r \in Int
        /\ k = Depth + 1 + (r - s - n) /\ r - s - n \in Int
    BY <1>1, <1>4, <1>6
  <2>2. Place(k) \in Int /\ ToDword(Place(k)) = a
    <3>1. Place(k) \in Int /\ ToDword(Place(k)) = ToDword(regs[SP] - 4 * (r - s - n))
      <4>. HIDE DEF k
      <4>. QED  BY <1>4, <2>1, PlaceAbove
    <3>2. regs[SP] - 4 * (r - s - n) = regs[SP] + 4 * (e - r + 1)
      BY <1>1, <1>6, <1>7, <2>1
    <3>. QED  BY <3>1, <3>2
  <2>3. a \in Int /\ ToDword(a) = a
    <3>1. regs[SP] + 4 * (e - r + 1) \in Int
      BY <1>6, <1>7, <2>1
    <3>2. a \in Dword
      BY <3>1, ToDwordType
    <3>. HIDE DEF a
    <3>. QED  BY <1>7, <3>2, SmallMod DEF Dword, ToDword
  <2>4. Span(Place(k), 4) \subseteq Addr
    <3>. HIDE DEF k
    <3>. QED  BY <1>4, <2>1 DEF StackInMemory
  <2>5. Read(mem, Place(k), 4, 0) = Read(mem, a, 4, wild)
    <3>. HIDE DEF a, k
    <3>. QED  BY <2>2, <2>3, <2>4, SameAccess
  <2>6. StackMem[k] = Join(Read(mem, Place(k), 4, 0))
    <3>. HIDE DEF k
    <3>. QED  BY <2>1 DEF StackMem, Place
  <2>. QED  BY <1>8, <2>5, <2>6
<1>14. file' = [r \in Reg \ {SP} |-> IF r \in s .. e THEN StackMem[left + 1 + r - s]
                                    ELSE file[r]]
  <2>1. \A r \in Reg \ {SP} : regs'[r] = IF r \in s .. e THEN StackMem[left + 1 + r - s]
                                         ELSE file[r]
    BY <1>8, <1>13
  <2>. QED  BY <2>1
<1>15. Len(StackMem) - (e - s + 1) = left /\ left >= 0
  BY <1>1, <1>6, <1>11
<1>. QED  BY <1>1, <1>10, <1>12, <1>14, <1>15 DEF Stack!Pop, s, e

\* A step that leaves SP and the stack's dwords alone.
LEMMA ComputeStep ==
  ASSUME TypeOK, TypeOK', StackInv, LeavesStack
  PROVE  StackInv' /\ Stack!Compute
<1>1. regs'[SP] = regs[SP] /\ Depth' = Depth /\ WholeDwords'
  BY DEF LeavesStack, Depth, StackInv, WholeDwords
<1>2. StackInv'
  BY <1>1 DEF StackInv, StackInMemory
<1>3. ASSUME NEW k \in 1 .. Depth
      PROVE  Read(mem', Place(k), 4, 0) = Read(mem, Place(k), 4, 0)
  <2>1. ASSUME NEW j \in 0 .. 3
        PROVE  /\ (Place(k) + j) % DwordSize \in Addr
               /\ mem'[(Place(k) + j) % DwordSize] = mem[(Place(k) + j) % DwordSize]
    <3>1. (Place(k) + j) % DwordSize \in Span(Place(k), 4)
      BY DEF Span
    <3>2. (Place(k) + j) % DwordSize \in Addr
      BY <3>1 DEF StackInv, StackInMemory
    <3>. QED  BY <3>1, <3>2 DEF LeavesStack, Place
  <2>. QED  BY <2>1 DEF Read
<1>4. StackMem' = StackMem
  BY <1>1, <1>3 DEF StackMem, Place
<1>5. [r \in Reg \ {SP} |-> regs[r]]' \in [Reg \ {SP} -> Dword]
  BY DEF TypeOK
<1>. QED  BY <1>2, <1>4, <1>5 DEF Stack!Compute

\* A program that keeps its stack sees VaStack: STOREMA and LOADMA with SP are
\* Push and Pop of the abstract stack, wherever it lies and however long the
\* program runs (ins_storema, ins_loadma, cpu_push_dword, cpu_pop_dword).
THEOREM StackRefined == Spec /\ [][KeepsStack]_vars => ImplementsStack
<1>1. Init => StackInv /\ Stack!Init
  <2>. SUFFICES ASSUME Init PROVE StackInv /\ Stack!Init
    OBVIOUS
  <2>1. TypeOK
    BY InitType
  <2>2. regs[SP] = InitSP /\ InitSP \in Int
    BY RegNumbers, MachineAssumption DEF Init, Dword
  <2>3. ToDword(InitSP - regs[SP]) = 0
    <3>1. InitSP - regs[SP] = 0 /\ 0 \in 0 .. DwordSize - 1
      BY <2>2, SizesPositive
    <3>. QED  BY <3>1, SizesPositive, SmallMod DEF ToDword
  <2>4. WholeDwords /\ Depth = 0
    BY <2>3 DEF WholeDwords, Depth
  <2>5. StackInv
    BY <2>4 DEF StackInv, StackInMemory
  <2>6. StackMem = << >>
    BY <2>4 DEF StackMem
  <2>7. [r \in Reg \ {SP} |-> regs[r]] \in [Reg \ {SP} -> Dword]
    BY <2>1 DEF TypeOK
  <2>. QED  BY <2>5, <2>6, <2>7 DEF Stack!Init
<1>2. TypeOK /\ TypeOK' /\ StackInv /\ [Next]_vars /\ [KeepsStack]_vars
        => StackInv' /\ [Stack!Next]_<<StackMem, [r \in Reg \ {SP} |-> regs[r]]>>
  <2>. SUFFICES ASSUME TypeOK, TypeOK', StackInv, [Next]_vars, [KeepsStack]_vars
                PROVE  StackInv' /\ [Stack!Next]_<<StackMem, [r \in Reg \ {SP} |-> regs[r]]>>
    OBVIOUS
  <2>1. CASE UNCHANGED vars
    BY <2>1 DEF vars, StackInv, WholeDwords, StackInMemory, Depth, StackMem
  <2>2. CASE LeavesStack
    BY <2>2, ComputeStep DEF Stack!Next
  <2>3. CASE \E i \in Fetched : Pushes(i)
    <3>1. PICK i \in Fetched : Pushes(i)
      BY <2>3
    <3>2. StackInv' /\ Stack!Push(RegStart(i), RegEnd(i))
      BY <3>1, PushStep
    <3>3. RegStart(i) \in Reg \ {SP} /\ RegEnd(i) \in Reg \ {SP}
          /\ RegStart(i) <= RegEnd(i)
      BY <3>1, MoveEnds DEF Pushes
    <3>. QED  BY <3>2, <3>3 DEF Stack!Next
  <2>4. CASE \E i \in Fetched : Pops(i)
    <3>1. PICK i \in Fetched : Pops(i)
      BY <2>4
    <3>2. StackInv' /\ Stack!Pop(RegStart(i), RegEnd(i))
      BY <3>1, PopStep
    <3>3. RegStart(i) \in Reg \ {SP} /\ RegEnd(i) \in Reg \ {SP}
          /\ RegStart(i) <= RegEnd(i)
      BY <3>1, MoveEnds DEF Pops
    <3>. QED  BY <3>2, <3>3 DEF Stack!Next
  <2>. QED  BY <2>1, <2>2, <2>3, <2>4 DEF KeepsStack
<1>. QED  BY <1>1, <1>2, TypeCorrect, PTL DEF Spec, ImplementsStack, Stack!Spec
=============================================================================
