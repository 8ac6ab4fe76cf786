---------------------------- MODULE VaCpuProofs ----------------------------
(***************************************************************************)
(* Proofs about VaCpu.                                                     *)
(***************************************************************************)
EXTENDS VaCpuProps, TLAPS

LEMMA ModRange ==
  ASSUME NEW n \in Int, NEW d \in Nat \ {0}
  PROVE  n % d \in 0 .. d - 1
  OBVIOUS

LEMMA DivRange ==
  ASSUME NEW n \in Nat, NEW d \in Nat \ {0}
  PROVE  n \div d \in 0 .. n
  OBVIOUS

LEMMA DivInt ==
  ASSUME NEW n \in Int, NEW d \in Nat \ {0}
  PROVE  n \div d \in Int
  OBVIOUS

\* One more digit of base b below m digits.
LEMMA Digit ==
  ASSUME NEW b \in Nat \ {0}, NEW m \in Nat \ {0},
         NEW x \in 0 .. m - 1, NEW y \in 0 .. b - 1
  PROVE  y + b * x \in 0 .. b * m - 1
<1>1. b * x \in Nat /\ b * x <= b * (m - 1)
  OBVIOUS
<1>2. b * (m - 1) = b * m - b
  OBVIOUS
<1>3. b * m \in Nat
  OBVIOUS
<1>. QED  BY <1>1, <1>2, <1>3

LEMMA SizesPositive ==
  /\ ByteSize \in Nat \ {0} /\ WordSize \in Nat \ {0}
  /\ DwordSize \in Nat \ {0}
<1>1. ByteSize \in Nat \ {0}
  BY FieldAssumption DEF ByteSize
<1>2. WordSize \in Nat \ {0}
  BY <1>1 DEF WordSize
<1>3. DwordSize \in Nat \ {0}
  BY <1>2 DEF DwordSize
<1>. QED  BY <1>1, <1>2, <1>3

LEMMA JoinType ==
  ASSUME NEW b, b[0] \in Byte, b[1] \in Byte, b[2] \in Byte, b[3] \in Byte
  PROVE  Join(b) \in Dword
<1>. DEFINE B == ByteSize
<1>0. B \in Nat \ {0} /\ B * B \in Nat \ {0} /\ B * (B * B) \in Nat \ {0}
  BY SizesPositive
<1>. HIDE DEF B
<1>. b[0] \in 0 .. B - 1 /\ b[1] \in 0 .. B - 1 /\ b[2] \in 0 .. B - 1
     /\ b[3] \in 0 .. B - 1
  BY DEF Byte, B
<1>1. b[2] + B * b[3] \in 0 .. B * B - 1
  BY <1>0, Digit
<1>2. b[1] + B * (b[2] + B * b[3]) \in 0 .. B * (B * B) - 1
  BY <1>0, <1>1, Digit
<1>3. b[0] + B * (b[1] + B * (b[2] + B * b[3])) \in 0 .. B * (B * (B * B)) - 1
  BY <1>0, <1>2, Digit
<1>4. B * (B * (B * B)) = DwordSize
  BY <1>0 DEF DwordSize, WordSize, B
<1>. QED  BY <1>3, <1>4 DEF Join, Dword, B

LEMMA BytesType ==
  ASSUME NEW d \in Nat
  PROVE  Bytes(d) \in [0 .. 3 -> Byte]
<1>. DEFINE d1 == d \div ByteSize
            d2 == d1 \div ByteSize
            d3 == d2 \div ByteSize
<1>1. d1 \in Nat
  BY SizesPositive, DivRange
<1>2. d2 \in Nat
  <2>. HIDE DEF d1
  <2>. QED  BY <1>1, SizesPositive, DivRange
<1>3. d3 \in Nat
  <2>. HIDE DEF d2
  <2>. QED  BY <1>2, SizesPositive, DivRange
<1>. HIDE DEF d1, d2, d3
<1>4. ASSUME NEW k \in 0 .. 3
      PROVE  <<d, d1, d2, d3>>[k + 1] \in Nat
  BY <1>1, <1>2, <1>3
<1>5. ASSUME NEW k \in 0 .. 3
      PROVE  <<d, d1, d2, d3>>[k + 1] % ByteSize \in Byte
  <2>. DEFINE n == <<d, d1, d2, d3>>[k + 1]
  <2>1. n \in Nat
    BY <1>4
  <2>. HIDE DEF n
  <2>2. n % ByteSize \in Byte
    BY <2>1, SizesPositive, ModRange DEF Byte
  <2>. QED  BY <2>2 DEF n
<1>. QED  BY <1>5 DEF Bytes, d1, d2, d3

LEMMA ToDwordType ==
  ASSUME NEW n \in Int
  PROVE  ToDword(n) \in Dword
  BY SizesPositive, ModRange DEF ToDword, Dword

LEMMA SignedType ==
  ASSUME NEW n \in Int, NEW size \in Nat \ {0}
  PROVE  Signed(n, size) \in Int
  BY DEF Signed

\* A flag fits into a dword: the dword has 64 values or more.
LEMMA WithFlagType ==
  ASSUME NEW f \in Dword, NEW mask \in {1, 2, 4, 8, 16, 32}, NEW on
  PROVE  WithFlag(f, mask, on) \in Dword
<1>1. DwordSize \in Nat /\ DwordSize % 64 = 0
  BY SizesPositive, WidthAssumption
<1>2. CASE mask = 1
  BY <1>1, <1>2 DEF WithFlag, Masked, Dword
<1>3. CASE mask = 2
  BY <1>1, <1>3 DEF WithFlag, Masked, Dword
<1>4. CASE mask = 4
  BY <1>1, <1>4 DEF WithFlag, Masked, Dword
<1>5. CASE mask = 8
  BY <1>1, <1>5 DEF WithFlag, Masked, Dword
<1>6. CASE mask = 16
  BY <1>1, <1>6 DEF WithFlag, Masked, Dword
<1>7. CASE mask = 32
  BY <1>1, <1>7 DEF WithFlag, Masked, Dword
<1>. QED  BY <1>2, <1>3, <1>4, <1>5, <1>6, <1>7
LEMMA AluTypes ==
  ASSUME NEW a \in Dword, NEW b \in Dword
  PROVE  /\ AddL(a, b).val \in Dword /\ SubL(a, b).val \in Dword
         /\ MulL(a, b).val \in Dword /\ SMulL(a, b).val \in Dword
<1>1. a \in Int /\ b \in Int /\ SDword(a) \in Int /\ SDword(b) \in Int
  BY SizesPositive, SignedType DEF Dword, SDword
<1>2. a * SDword(b) \in Int /\ SDword(a) * SDword(b) \in Int
      /\ a + b \in Int /\ a - b \in Int
  BY <1>1
<1>. QED  BY <1>2, ToDwordType DEF AddL, SubL, MulL, SMulL

LEMMA QuotientType ==
  ASSUME NEW x \in Int, NEW y \in Int, y # 0
  PROVE  Quotient(x, y) \in Int
<1>. DEFINE abs(n) == IF n < 0 THEN -n ELSE n
<1>1. abs(x) \in Int /\ abs(y) \in Nat \ {0}
  OBVIOUS
<1>2. abs(x) \div abs(y) \in Int
  <2>. HIDE DEF abs
  <2>. QED  BY <1>1, DivInt
<1>. QED  BY <1>2 DEF Quotient

LEMMA SDivType ==
  ASSUME NEW a \in Dword, NEW b \in Dword, b # 0
  PROVE  SDivL(a, b).val \in Dword
<1>1. SDword(a) \in Int /\ SDword(b) \in Int /\ SDword(b) # 0
  BY SizesPositive DEF SDword, Signed, Dword
<1>2. ToDword(Quotient(SDword(a), SDword(b))) \in Dword
  BY <1>1, QuotientType, ToDwordType
<1>3. 0 \in Dword
  BY SizesPositive DEF Dword
<1>. QED  BY <1>2, <1>3 DEF SDivL

LEMMA PowerType ==
  ASSUME NEW b \in Nat
  PROVE  2^ShiftCount(b) \in Nat \ {0}
<1>1. DwordBits \in Nat \ {0} /\ \A n \in 0 .. DwordBits : 2^n \in Nat \ {0}
  BY WidthAssumption, PowerAssumption
<1>2. ShiftCount(b) \in 0 .. DwordBits - 1
  <2>1. b % DwordBits \in 0 .. DwordBits - 1
    BY <1>1, ModRange
  <2>. QED  BY <2>1 DEF ShiftCount
<1>3. ShiftCount(b) \in 0 .. DwordBits
  BY <1>1, <1>2
<1>. QED  BY <1>1, <1>3

LEMMA ShiftTypes ==
  ASSUME NEW a \in Dword, NEW b \in Dword
  PROVE  ShlL(a, b).val \in Dword /\ ShrL(a, b).val \in Dword
         /\ SarL(a, b).val \in Dword
<1>. DEFINE p == 2^ShiftCount(b)
<1>1. a \in Nat /\ b \in Nat
  BY SizesPositive DEF Dword
<1>2. p \in Nat \ {0}
  BY <1>1, PowerType
<1>. HIDE DEF p
<1>3. ToDword(a * p) \in Dword
  BY <1>1, <1>2, ToDwordType
<1>4. a \div p \in Dword
  BY <1>1, <1>2, DivRange, SizesPositive DEF Dword
<1>5. ToDword(SDword(a) \div p) \in Dword
  BY <1>1, <1>2, DivInt, ToDwordType, SignedType, SizesPositive DEF SDword
<1>. QED  BY <1>3, <1>4, <1>5 DEF ShlL, ShrL, SarL, p

\* The bytewise operators and the complement.
LEMMA LogicTypes ==
  ASSUME NEW a \in Dword, NEW b \in Dword
  PROVE  AndD(a, b) \in Dword /\ OrD(a, b) \in Dword /\ XorD(a, b) \in Dword
         /\ NotD(a) \in Dword
<1>1. a \in Nat /\ b \in Nat
  BY SizesPositive DEF Dword
<1>2. ASSUME NEW T \in [Byte \X Byte -> Byte]
      PROVE  Bytewise(T, a, b) \in Dword
  <2>. DEFINE r == [k \in 0 .. 3 |-> T[<<Bytes(a)[k], Bytes(b)[k]>>]]
  <2>1. \A k \in 0 .. 3 : r[k] \in Byte
    BY <1>1, BytesType
  <2>2. r[0] \in Byte /\ r[1] \in Byte /\ r[2] \in Byte /\ r[3] \in Byte
    BY <2>1
  <2>. HIDE DEF r
  <2>3. Join(r) \in Dword
    BY <2>2, JoinType
  <2>. QED  BY <2>3 DEF Bytewise, r
<1>3. AndByte \in [Byte \X Byte -> Byte] /\ OrByte \in [Byte \X Byte -> Byte]
      /\ XorByte \in [Byte \X Byte -> Byte]
  BY BitwiseAssumption DEF TableAssumption
<1>4. NotD(a) \in Dword
  BY SizesPositive DEF NotD, Dword
<1>. QED  BY <1>2, <1>3, <1>4 DEF AndD, OrD, XorD

LEMMA ExtendType ==
  ASSUME NEW d \in Dword, NEW size \in Nat \ {0}
  PROVE  Extend(d, size) \in Dword
<1>1. d \in Int
  BY SizesPositive DEF Dword
<1>2. d % size \in Int
  BY <1>1, ModRange
<1>. QED  BY <1>2, SignedType, ToDwordType DEF Extend

-----------------------------------------------------------------------------
(* Registers, memory and the fields of an instruction                      *)

RegFile == [Reg -> Dword]
Memory  == [Addr -> Byte]

\* What Decode yields.
Decoded(i) ==
  /\ i.prefix \in Prefixes /\ i.dst \in Reg /\ i.opa \in Reg /\ i.opb \in Reg
  /\ i.imm16 \in Word /\ i.imm12 \in Word

LEMMA RegNumbers ==
  /\ FLGS \in Reg /\ SP \in Reg /\ RC \in Reg /\ NReg \in Nat \ {0}
  /\ CREG_MR2 \in Reg
  BY FieldAssumption DEF FLGS, SP, RC, Reg, CREG_MR2

\* A register field is the upper or the lower half of a byte.
LEMMA FieldTypes ==
  ASSUME NEW x \in Byte
  PROVE  x \div NReg \in Reg /\ x % NReg \in Reg
<1>1. NReg \in Nat \ {0}
  BY RegNumbers
<1>2. x % NReg \in Reg
  BY <1>1, SizesPositive, ModRange DEF Byte, Reg
<1>3. x \div NReg \in Nat /\ (x \div NReg) * NReg <= x
  BY <1>1, SizesPositive DEF Byte
<1>4. x < NReg * NReg
  BY <1>1 DEF Byte, ByteSize
<1>5. x \div NReg < NReg
  <2>. DEFINE q == x \div NReg
  <2>1. q \in Nat /\ q * NReg < NReg * NReg
    BY <1>1, <1>3, <1>4, SizesPositive DEF Byte
  <2>. HIDE DEF q
  <2>2. ~(q >= NReg)
    <3>1. q >= NReg => q * NReg >= NReg * NReg
      BY <1>1, <2>1
    <3>2. q * NReg \in Nat /\ NReg * NReg \in Nat
      BY <1>1, <2>1
    <3>. QED  BY <2>1, <3>1, <3>2
  <2>3. q < NReg
    BY <1>1, <2>1, <2>2
  <2>. QED  BY <2>3 DEF q
<1>. QED  BY <1>1, <1>2, <1>3, <1>5 DEF Reg

LEMMA ByteInDword == Byte \subseteq Dword /\ Word \subseteq Dword /\ Byte \subseteq Nat
<1>1. ByteSize <= WordSize
  BY SizesPositive DEF WordSize
<1>2. WordSize <= DwordSize
  BY SizesPositive DEF DwordSize
<1>. QED  BY <1>1, <1>2, SizesPositive DEF Byte, Word, Dword

LEMMA SetFlagType ==
  ASSUME NEW rf \in RegFile, NEW mask \in {1, 2, 4, 8, 16, 32}, NEW on
  PROVE  SetFlag(rf, mask, on) \in RegFile
  BY RegNumbers, WithFlagType DEF SetFlag, RegFile

LEMMA GetType ==
  ASSUME NEW rf \in RegFile, NEW n \in Reg, NEW w \in {0, 1, 2, 4}
  PROVE  Get(rf, n, w) \in [0 .. w - 1 -> Byte]
<1>1. ASSUME NEW k \in 0 .. w - 1
      PROVE  (n * w) \div 4 \in Reg /\ ((n * w) % 4) + k \in 0 .. 3
  <2>1. CASE w = 1
    BY <2>1, RegNumbers DEF Reg
  <2>2. CASE w = 2
    BY <2>2, RegNumbers DEF Reg
  <2>3. CASE w = 4
    BY <2>3, RegNumbers DEF Reg
  <2>. QED  BY <2>1, <2>2, <2>3
<1>2. ASSUME NEW k \in 0 .. w - 1
      PROVE  Bytes(rf[(n * w) \div 4])[((n * w) % 4) + k] \in Byte
  <2>1. rf[(n * w) \div 4] \in Nat
    BY <1>1, SizesPositive DEF RegFile, Dword
  <2>. QED  BY <1>1, <2>1, BytesType
<1>. QED  BY <1>2 DEF Get

LEMMA PutType ==
  ASSUME NEW rf \in RegFile, NEW n \in Reg, NEW w \in {0, 1, 2, 4}, NEW bs,
         \A k \in 0 .. w - 1 : bs[k] \in Byte
  PROVE  Put(rf, n, w, bs) \in RegFile
<1>. DEFINE r == (n * w) \div 4
            o == (n * w) % 4
            b == [k \in 0 .. 3 |-> IF k \in o .. o + w - 1 THEN bs[k - o]
                                   ELSE Bytes(rf[r])[k]]
<1>1. r \in Reg /\ o \in 0 .. 3
  <2>1. CASE w = 0
    BY <2>1, RegNumbers DEF Reg
  <2>2. CASE w = 1
    BY <2>2, RegNumbers DEF Reg
  <2>3. CASE w = 2
    BY <2>3, RegNumbers DEF Reg
  <2>4. CASE w = 4
    BY <2>4, RegNumbers DEF Reg
  <2>. QED  BY <2>1, <2>2, <2>3, <2>4
<1>. HIDE DEF r, o
<1>2. Bytes(rf[r]) \in [0 .. 3 -> Byte]
  BY <1>1, BytesType, SizesPositive DEF RegFile, Dword
<1>3. \A k \in 0 .. 3 : b[k] \in Byte
  BY <1>1, <1>2
<1>4. b[0] \in Byte /\ b[1] \in Byte /\ b[2] \in Byte /\ b[3] \in Byte
  BY <1>3
<1>. HIDE DEF b
<1>5. Join(b) \in Dword
  BY <1>4, JoinType
<1>6. [rf EXCEPT ![r] = Join(b)] \in RegFile
  BY <1>5 DEF RegFile
<1>. QED  BY <1>6 DEF Put, r, o, b

LEMMA ReadType ==
  ASSUME NEW m \in Memory, NEW a \in Int, NEW n \in Nat, NEW wild \in Byte
  PROVE  Read(m, a, n, wild) \in [0 .. n - 1 -> Byte]
  BY DEF Read, Memory

LEMMA WriteType ==
  ASSUME NEW m \in Memory, NEW a \in Int, NEW n \in Nat, NEW bs,
         \A k \in 0 .. n - 1 : bs[k] \in Byte
  PROVE  Write(m, a, n, bs) \in Memory
<1>1. ASSUME NEW b \in Addr
      PROVE  (b - a) % DwordSize \in Nat
  <2>1. b - a \in Int
    BY MachineAssumption DEF Addr
  <2>. QED  BY <2>1, SizesPositive, ModRange
<1>2. ASSUME NEW b \in Addr, (b - a) % DwordSize < n
      PROVE  bs[(b - a) % DwordSize] \in Byte
  BY <1>1, <1>2
<1>. QED  BY <1>2 DEF Write, Memory

LEMMA WildType ==
  ASSUME NEW span, NEW wild \in WildOf(span)
  PROVE  wild \in Byte
  BY MachineAssumption, SizesPositive DEF WildOf, Byte

LEMMA DwordRead ==
  ASSUME NEW m \in Memory, NEW a \in Int, NEW wild \in Byte
  PROVE  Join(Read(m, a, 4, wild)) \in Dword
<1>. DEFINE b == Read(m, a, 4, wild)
<1>1. b \in [0 .. 4 - 1 -> Byte]
  BY ReadType
<1>2. b[0] \in Byte /\ b[1] \in Byte /\ b[2] \in Byte /\ b[3] \in Byte
  <2>. HIDE DEF b
  <2>. QED  BY <1>1
<1>. HIDE DEF b
<1>3. Join(b) \in Dword
  BY <1>2, JoinType
<1>. QED  BY <1>3 DEF b

LEMMA RangeLenType ==
  ASSUME NEW s \in Reg, NEW e \in Reg
  PROVE  RangeLen(s, e) \in Nat
  BY RegNumbers DEF RangeLen, Reg

LEMMA PushTypes ==
  ASSUME NEW m \in Memory, NEW rf \in RegFile,
         NEW d \in Reg, NEW s \in Reg, NEW e \in Reg
  PROVE  PushMem(m, rf, d, s, e) \in Memory /\ PushRegs(rf, d, s, e) \in RegFile
<1>. DEFINE n  == RangeLen(s, e)
            bs == [k \in 0 .. 4 * n - 1 |-> Bytes(rf[e - (k \div 4)])[k % 4]]
<1>1. n \in Nat /\ rf[d] \in Nat
  BY RangeLenType, SizesPositive DEF RegFile, Dword
<1>2. ASSUME NEW k \in 0 .. 4 * n - 1
      PROVE  Bytes(rf[e - (k \div 4)])[k % 4] \in Byte
  <2>1. e - (k \div 4) \in Reg /\ k % 4 \in 0 .. 3
    BY RegNumbers DEF RangeLen, Reg
  <2>2. rf[e - (k \div 4)] \in Nat
    BY <2>1, SizesPositive DEF RegFile, Dword
  <2>. QED  BY <2>1, <2>2, BytesType
<1>3. \A k \in 0 .. 4 * n - 1 : bs[k] \in Byte
  BY <1>2
<1>. HIDE DEF n, bs
<1>4. rf[d] - 4 * (n - 1) \in Int /\ rf[d] - 4 * n \in Int /\ 4 * n \in Nat
  BY <1>1
<1>5. ToDword(rf[d] - 4 * (n - 1)) \in Int /\ ToDword(rf[d] - 4 * n) \in Dword
  BY <1>4, ToDwordType, SizesPositive DEF Dword
<1>6. Write(m, ToDword(rf[d] - 4 * (n - 1)), 4 * n, bs) \in Memory
  BY <1>3, <1>4, <1>5, WriteType
<1>7. [rf EXCEPT ![d] = ToDword(rf[d] - 4 * n)] \in RegFile
  BY <1>5 DEF RegFile
<1>. QED  BY <1>6, <1>7 DEF PushMem, PushRegs, n, bs, RegFile

LEMMA PopType ==
  ASSUME NEW m \in Memory, NEW rf \in RegFile, NEW wild \in Byte,
         NEW d \in Reg, NEW s \in Reg, NEW e \in Reg
  PROVE  PopRegs(m, rf, d, s, e, wild) \in RegFile
<1>1. RangeLen(s, e) \in Nat /\ rf[d] \in Nat
  BY RangeLenType, SizesPositive DEF RegFile, Dword
<1>2. ToDword(rf[d] + 4 * RangeLen(s, e)) \in Dword
  BY <1>1, ToDwordType
<1>3. ASSUME NEW r \in Reg
      PROVE  Join(Read(m, ToDword(rf[d] + 4 * (e - r + 1)), 4, wild)) \in Dword
  <2>1. rf[d] + 4 * (e - r + 1) \in Int
    BY <1>1, RegNumbers DEF Reg
  <2>2. ToDword(rf[d] + 4 * (e - r + 1)) \in Int
    BY <2>1, ToDwordType, SizesPositive DEF Dword
  <2>. QED  BY <2>2, DwordRead
<1>. QED  BY <1>2, <1>3 DEF PopRegs, RegFile
LEMMA DecodedFetched ==
  ASSUME TypeOK, NEW i \in Fetched
  PROVE  Decoded(i)
<1>1. PICK w \in WildOf(Span(pos, 4)) : i = Decode(Read(mem, pos, 4, w))
  BY DEF Fetched
<1>. DEFINE b == Read(mem, pos, 4, w)
<1>2. b \in [0 .. 4 - 1 -> Byte]
  <2>1. mem \in Memory /\ pos \in Int
    BY SizesPositive DEF TypeOK, Memory, Dword
  <2>2. w \in Byte
    BY <1>1, WildType
  <2>. QED  BY <2>1, <2>2, ReadType
<1>. HIDE DEF b
<1>3. b[0] \in Byte /\ b[1] \in Byte /\ b[2] \in Byte /\ b[3] \in Byte
  BY <1>2
<1>4. i.prefix \in Prefixes
  BY <1>1, <1>3, MachineAssumption DEF Decode, Fields, b
<1>5. i.dst \in Reg /\ i.opa \in Reg /\ i.opb \in Reg
  BY <1>1, <1>3, FieldTypes DEF Decode, Fields, b
<1>6. b[3] * ByteSize + b[2] \in Word
  BY <1>3, SizesPositive, Digit DEF Byte, Word, WordSize
<1>7. (b[2] % NReg) * ByteSize + b[3] \in Word
  <2>1. b[2] % NReg \in Byte
    <3>1. b[2] % NReg \in 0 .. NReg - 1
      BY <1>3, FieldTypes DEF Reg
    <3>2. NReg <= ByteSize
      BY RegNumbers DEF ByteSize
    <3>. QED  BY <3>1, <3>2, SizesPositive, RegNumbers DEF Byte
  <2>. QED  BY <1>3, <2>1, SizesPositive, Digit DEF Byte, Word, WordSize
<1>. QED  BY <1>1, <1>4, <1>5, <1>6, <1>7 DEF Decode, Fields, Decoded, b

-----------------------------------------------------------------------------
(* Each instruction keeps the types                                        *)

LEMMA Operands ==
  ASSUME TypeOK, NEW i, Decoded(i)
  PROVE  /\ OpB(i) \in Dword /\ i.imm16 \in Dword /\ i.imm12 \in Dword
         /\ \A r \in Reg : regs[r] \in Dword
         /\ NextPos \in Dword
<1>1. i.imm16 \in Dword /\ i.imm12 \in Dword
  BY ByteInDword DEF Decoded
<1>2. \A r \in Reg : regs[r] \in Dword
  BY DEF TypeOK
<1>3. OpB(i) \in Dword
  BY <1>1, <1>2 DEF OpB, Decoded
<1>4. NextPos \in Dword
  BY SizesPositive, ModRange DEF TypeOK, NextPos, Dword
<1>. QED  BY <1>1, <1>2, <1>3, <1>4

LEMMA RegsOnlyType ==
  ASSUME TypeOK, NEW rf \in RegFile, RegsOnly(rf)
  PROVE  TypeOK'
<1>1. NextPos \in Dword
  BY SizesPositive, ModRange DEF TypeOK, NextPos, Dword
<1>. QED  BY <1>1 DEF TypeOK, RegsOnly, Retire, RegFile

\* An instruction that changes the memory only keeps the types when the
\* memory it makes is one.
LEMMA MemOnlyType ==
  ASSUME TypeOK, NEW m \in Memory, MemOnly(m)
  PROVE  TypeOK'
<1>1. NextPos \in Dword
  BY SizesPositive, ModRange DEF TypeOK, NextPos, Dword
<1>2. mem' \in [Addr -> Byte] /\ pos' \in Dword
  BY <1>1 DEF MemOnly, Memory
<1>3. regs' \in [Reg -> Dword] /\ cregs' \in [Reg -> Dword] /\ latch' \in Dword
  BY DEF TypeOK, MemOnly
<1>4. Retire
  BY DEF MemOnly
<1>5. count' \in Nat /\ step' \in BOOLEAN /\ ret' \in Int
  BY <1>4 DEF TypeOK, Retire
<1>6. status' \in {"created", "running", "paused", "stopped", "crashed"}
  BY <1>4 DEF TypeOK, Retire
<1>. QED  BY <1>2, <1>3, <1>5, <1>6 DEF TypeOK

\* What the instructions make of the registers is a register file.
LEMMA RegFiles ==
  ASSUME TypeOK
  PROVE  /\ regs \in RegFile
         /\ \A rf \in RegFile, r \in Reg, v \in Dword : [rf EXCEPT ![r] = v] \in RegFile
         /\ \A rf \in RegFile : \A on :
              /\ SetFlag(rf, FLGS_Z, on) \in RegFile
              /\ SetFlag(rf, FLGS_C, on) \in RegFile
              /\ SetFlag(rf, FLGS_O, on) \in RegFile
              /\ SetFlag(rf, FLGS_P, on) \in RegFile
              /\ SetFlag(rf, FLGS_S, on) \in RegFile
              /\ SetFlag(rf, FLGS_E, on) \in RegFile
<1>1. \A rf \in RegFile, r \in Reg, v \in Dword : [rf EXCEPT ![r] = v] \in RegFile
  BY DEF RegFile
<1>2. \A rf \in RegFile, mask \in {1, 2, 4, 8, 16, 32} : \A on :
        SetFlag(rf, mask, on) \in RegFile
  BY SetFlagType
<1>. QED  BY <1>1, <1>2 DEF TypeOK, RegFile, FLGS_Z, FLGS_C, FLGS_O, FLGS_P,
                          FLGS_S, FLGS_E

LEMMA ArithTypes ==
  ASSUME TypeOK, NEW i, Decoded(i),
         Add(i) \/ Sub(i) \/ SMul(i) \/ Mul(i) \/ SDiv(i) \/ Div(i) \/ Mod(i)
  PROVE  TypeOK'
<1>. DEFINE a == regs[i.opa]
            b == OpB(i)
            m == regs[i.opb]
            Dst(rf, v) == [rf EXCEPT ![i.dst] = v]
<1>1. a \in Dword /\ b \in Dword /\ m \in Dword
  BY Operands DEF Decoded
<1>2. regs \in RegFile /\ \A rf \in RegFile, v \in Dword : Dst(rf, v) \in RegFile
  BY RegFiles DEF Decoded
<1>3. \A rf \in RegFile : \A on : SetFlag(rf, FLGS_C, on) \in RegFile
                            /\ SetFlag(rf, FLGS_O, on) \in RegFile
  BY RegFiles
<1>4. SUFFICES \E rf \in RegFile : RegsOnly(rf)
  BY RegsOnlyType
<1>5. CASE Add(i)
  <2>1. SetFlag(SetFlag(Dst(regs, AddL(a, b).val), FLGS_O, AddL(a, b).o),
                FLGS_C, AddL(a, b).c) \in RegFile
    BY <1>1, <1>2, <1>3, AluTypes
  <2>. QED  BY <1>5, <2>1 DEF Add
<1>6. CASE Sub(i)
  <2>1. SetFlag(SetFlag(Dst(regs, SubL(a, b).val), FLGS_O, SubL(a, b).o),
                FLGS_C, SubL(a, b).c) \in RegFile
    BY <1>1, <1>2, <1>3, AluTypes
  <2>. QED  BY <1>6, <2>1 DEF Sub
<1>7. CASE SMul(i)
  <2>1. SetFlag(Dst(regs, SMulL(a, b).val), FLGS_O, SMulL(a, b).o) \in RegFile
    BY <1>1, <1>2, <1>3, AluTypes
  <2>. QED  BY <1>7, <2>1 DEF SMul
<1>8. CASE Mul(i)
  <2>1. Dst(SetFlag(regs, FLGS_C, MulL(a, b).c), MulL(a, b).val) \in RegFile
    BY <1>1, <1>2, <1>3, AluTypes
  <2>. QED  BY <1>8, <2>1 DEF Mul
<1>9. CASE SDiv(i)
  <2>1. b # 0 => Dst(SetFlag(regs, FLGS_O, SDivL(a, b).o), SDivL(a, b).val) \in RegFile
    BY <1>1, <1>2, <1>3, SDivType
  <2>. QED  BY <1>2, <1>9, <2>1 DEF SDiv
<1>10. CASE Div(i)
  <2>1. b # 0 => a \div b \in Dword
    BY <1>1, DivRange, SizesPositive DEF Dword
  <2>2. b # 0 => Dst(regs, a \div b) \in RegFile
    BY <1>2, <2>1
  <2>. QED  BY <1>2, <1>10, <2>2 DEF Div
<1>11. CASE Mod(i)
  <2>1. m # 0 => a % m \in Dword
    <3>. HIDE DEF a, m
    <3>. SUFFICES ASSUME m # 0 PROVE a % m \in Dword
      OBVIOUS
    <3>1. m \in Nat \ {0} /\ a \in Int /\ m <= DwordSize
      BY <1>1, SizesPositive DEF Dword
    <3>2. a % m \in 0 .. m - 1
      BY <3>1, ModRange
    <3>. QED  BY <3>1, <3>2, SizesPositive DEF Dword
  <2>2. m # 0 => Dst(regs, a % m) \in RegFile
    BY <1>2, <2>1
  <2>. QED  BY <1>2, <1>11, <2>2 DEF Mod
<1>. QED  BY <1>5, <1>6, <1>7, <1>8, <1>9, <1>10, <1>11
LEMMA LogicActionTypes ==
  ASSUME TypeOK, NEW i, Decoded(i),
         Shl(i) \/ Shr(i) \/ Sar(i) \/ And(i) \/ Or(i) \/ Xor(i) \/ Not(i)
         \/ Sex(i) \/ Cmp(i) \/ Test(i)
  PROVE  TypeOK'
<1>. DEFINE a == regs[i.opa]
            b == OpB(i)
            m == regs[i.opb]
<1>1. /\ a \in Dword /\ b \in Dword /\ m \in Dword
      /\ i.dst \in Reg /\ i.opa \in Reg
  BY Operands DEF Decoded
<1>2. regs \in RegFile
      /\ \A rf \in RegFile, r \in Reg, v \in Dword : [rf EXCEPT ![r] = v] \in RegFile
  BY RegFiles
<1>3. \A rf \in RegFile : \A on : /\ SetFlag(rf, FLGS_Z, on) \in RegFile
              /\ SetFlag(rf, FLGS_C, on) \in RegFile
              /\ SetFlag(rf, FLGS_P, on) \in RegFile
              /\ SetFlag(rf, FLGS_S, on) \in RegFile
                              /\ SetFlag(rf, FLGS_E, on) \in RegFile
  BY RegFiles
<1>4. SUFFICES \E rf \in RegFile : RegsOnly(rf)
  BY RegsOnlyType
<1>5. CASE Shl(i)
  BY <1>1, <1>2, <1>3, <1>5, ShiftTypes DEF Shl, Shift
<1>6. CASE Shr(i)
  BY <1>1, <1>2, <1>3, <1>6, ShiftTypes DEF Shr, Shift
<1>7. CASE Sar(i)
  BY <1>1, <1>2, <1>3, <1>7, ShiftTypes DEF Sar, Shift
<1>8. CASE And(i) \/ Or(i) \/ Xor(i)
  BY <1>1, <1>2, <1>8, LogicTypes DEF And, Or, Xor
<1>9. CASE Not(i)
  BY <1>1, <1>2, <1>9, LogicTypes DEF Not
<1>10. CASE Sex(i)
  <2>1. Extend(m, ByteSize) \in Dword /\ Extend(m, WordSize) \in Dword
    BY <1>1, ExtendType, SizesPositive
  <2>. QED  BY <1>1, <1>2, <1>10, <2>1 DEF Sex
<1>11. CASE Cmp(i)
  <2>1. SetFlag(SetFlag(SetFlag(regs, FLGS_Z, a = b), FLGS_C, a < b),
                FLGS_S, SDword(a) < SDword(b)) \in RegFile
    BY <1>2, <1>3
  <2>. QED  BY <1>11, <2>1 DEF Cmp
<1>12. CASE Test(i)
  <2>. DEFINE v == IF i.prefix = "IMM" THEN i.imm16 ELSE regs[i.dst]
  <2>1. SetFlag(SetFlag(SetFlag(SetFlag(regs, FLGS_Z, v = 0), FLGS_S, SignBit(v)),
                        FLGS_E, v % 2 = 0), FLGS_P, OddParity(v)) \in RegFile
    BY <1>2, <1>3
  <2>. QED  BY <1>12, <2>1 DEF Test
<1>. QED  BY <1>5, <1>6, <1>7, <1>8, <1>9, <1>10, <1>11, <1>12

LEMMA WidthType ==
  ASSUME NEW p \in Prefixes
  PROVE  Width[p] \in {0, 1, 2, 4}
  BY DEF Width, Prefixes

LEMMA MoveTypes ==
  ASSUME TypeOK, NEW i, Decoded(i),
         Mov(i) \/ LoadI(i) \/ Xchg(i) \/ MovFC(i) \/ MovTC(i) \/ XchgC(i)
         \/ In(i) \/ Out(i)
  PROVE  TypeOK'
<1>1. /\ regs \in RegFile /\ cregs \in [Reg -> Dword] /\ latch \in Dword
      /\ \A rf \in RegFile, r \in Reg, v \in Dword : [rf EXCEPT ![r] = v] \in RegFile
  BY RegFiles DEF TypeOK
<1>2. /\ i.dst \in Reg /\ i.opa \in Reg /\ i.opb \in Reg /\ i.prefix \in Prefixes
      /\ regs[i.opa] \in Dword /\ regs[i.opb] \in Dword
      /\ i.imm12 \in Dword /\ i.imm16 \in Nat /\ NextPos \in Dword
  BY Operands, SizesPositive DEF Decoded, Word
<1>3. CASE Mov(i)
  <2>1. [regs EXCEPT ![i.opa] = i.imm12] \in RegFile
    BY <1>1, <1>2
  <2>2. Put(regs, i.opa, Width[i.prefix], Get(regs, i.opb, Width[i.prefix])) \in RegFile
    <3>. DEFINE w == Width[i.prefix]
    <3>1. w \in {0, 1, 2, 4}
      BY <1>2, WidthType
    <3>. HIDE DEF w
    <3>2. \A k \in 0 .. w - 1 : Get(regs, i.opb, w)[k] \in Byte
      BY <1>1, <1>2, <3>1, GetType
    <3>3. Put(regs, i.opa, w, Get(regs, i.opb, w)) \in RegFile
      BY <1>1, <1>2, <3>1, <3>2, PutType
    <3>. QED  BY <3>3 DEF w
  <2>. QED  BY <1>3, <2>1, <2>2, RegsOnlyType DEF Mov
<1>4. CASE LoadI(i)
  <2>. DEFINE w == IF i.prefix = "BYTE" THEN 1 ELSE 2
  <2>1. \A k \in 0 .. w - 1 : Bytes(i.imm16)[k] \in Byte
    BY <1>2, BytesType
  <2>2. Put(regs, i.dst, w, Bytes(i.imm16)) \in RegFile
    <3>1. w \in {0, 1, 2, 4}
      OBVIOUS
    <3>. HIDE DEF w
    <3>. QED  BY <1>1, <1>2, <2>1, <3>1, PutType
  <2>. QED  BY <1>4, <2>2, RegsOnlyType DEF LoadI
<1>5. CASE Xchg(i)
  <2>1. [regs EXCEPT ![i.opa] = regs[i.opb], ![i.opb] = regs[i.opa]] \in RegFile
    BY <1>1, <1>2 DEF RegFile
  <2>. QED  BY <1>5, <2>1, RegsOnlyType DEF Xchg
<1>6. CASE MovFC(i)
  <2>1. [regs EXCEPT ![i.opa] = cregs[i.opb]] \in RegFile
    BY <1>1, <1>2
  <2>. QED  BY <1>6, <2>1, RegsOnlyType DEF MovFC
<1>7. CASE MovTC(i)
  BY <1>1, <1>2, <1>7 DEF MovTC, WithCreg, Retire, TypeOK, RegFile
<1>8. CASE XchgC(i)
  <2>1. [regs EXCEPT ![i.opa] = cregs[i.opb]] \in RegFile
    BY <1>1, <1>2
  <2>. QED  BY <1>1, <1>2, <1>8, <2>1 DEF XchgC, WithCreg, Retire, TypeOK, RegFile
<1>9. CASE In(i)
  <2>1. InPort(i) \in Dword
    <3>1. regs[i.opb] \in Int
      BY <1>2, SizesPositive DEF Dword
    <3>2. InPort(i) \in Byte
      BY <3>1, SizesPositive, ModRange DEF InPort, Byte
    <3>. QED  BY <3>2, ByteInDword
  <2>2. [regs EXCEPT ![i.opa] = IF InPort(i) = 0 THEN latch ELSE InPort(i)] \in RegFile
    BY <1>1, <1>2, <2>1
  <2>. QED  BY <1>9, <2>2, RegsOnlyType DEF In
<1>10. CASE Out(i)
  BY <1>1, <1>2, <1>10 DEF Out, Retire, TypeOK
<1>. QED  BY <1>3, <1>4, <1>5, <1>6, <1>7, <1>8, <1>9, <1>10
LEMMA LoadType ==
  ASSUME TypeOK, NEW i, Decoded(i), NEW ea, LoadAt(i, ea)
  PROVE  TypeOK'
<1>. DEFINE w == Width[i.prefix]
<1>1. regs \in RegFile /\ mem \in Memory /\ i.dst \in Reg /\ w \in {0, 1, 2, 4}
  BY WidthType DEF TypeOK, RegFile, Memory, Decoded
<1>2. CASE ea \notin Dword
  BY <1>1, <1>2, RegsOnlyType DEF LoadAt
<1>3. CASE ea \in Dword
  <2>1. PICK wild \in WildOf(Span(ea, w)) :
          RegsOnly(Put(regs, i.dst, w, Read(mem, ea, w, wild)))
    BY <1>3 DEF LoadAt
  <2>2. wild \in Byte /\ ea \in Int
    BY <1>3, WildType, SizesPositive DEF Dword
  <2>. HIDE DEF w
  <2>3. \A k \in 0 .. w - 1 : Read(mem, ea, w, wild)[k] \in Byte
    <3>1. w \in Nat
      BY <1>1
    <3>2. Read(mem, ea, w, wild) \in [0 .. w - 1 -> Byte]
      BY <1>1, <2>2, <3>1, ReadType
    <3>. QED  BY <3>2
  <2>4. Put(regs, i.dst, w, Read(mem, ea, w, wild)) \in RegFile
    BY <1>1, <2>3, PutType
  <2>. QED  BY <2>1, <2>4, RegsOnlyType
<1>. QED  BY <1>2, <1>3

LEMMA StoreType ==
  ASSUME TypeOK, NEW i, Decoded(i), NEW ea, StoreAt(i, ea)
  PROVE  TypeOK'
<1>. DEFINE w == Width[i.prefix]
            m == IF ea \notin Dword THEN mem ELSE Write(mem, ea, w, Get(regs, i.opa, w))
<1>1. regs \in RegFile /\ mem \in Memory /\ i.opa \in Reg /\ w \in {0, 1, 2, 4}
  BY WidthType DEF TypeOK, RegFile, Memory, Decoded
<1>2. m \in Memory
  <2>1. \A k \in 0 .. w - 1 : Get(regs, i.opa, w)[k] \in Byte
    BY <1>1, GetType
  <2>2. w \in Nat /\ (ea \in Dword => ea \in Int)
    BY <1>1, SizesPositive DEF Dword
  <2>. HIDE DEF w
  <2>. QED  BY <1>1, <2>1, <2>2, WriteType
<1>3. MemOnly(m)
  BY DEF StoreAt
<1>. HIDE DEF m
<1>. QED  BY <1>2, <1>3, MemOnlyType

LEMMA MemoryTypes ==
  ASSUME TypeOK, NEW i, Decoded(i),
         LoadID(i) \/ LoadRD(i) \/ StoreID(i) \/ StoreRD(i) \/ CmpXchg(i)
         \/ StoreMA(i) \/ LoadMA(i)
  PROVE  TypeOK'
<1>1. regs \in RegFile /\ mem \in Memory /\ NextPos \in Dword
  BY Operands DEF TypeOK, RegFile, Memory
<1>2. /\ i.dst \in Reg /\ i.opa \in Reg /\ i.opb \in Reg
      /\ RegStart(i) \in Reg /\ RegEnd(i) \in Reg
  <2>1. i.imm16 % ByteSize \in Byte
    <3>1. i.imm16 \in Int
      BY SizesPositive DEF Decoded, Word
    <3>2. i.imm16 % ByteSize \in 0 .. ByteSize - 1
      BY ONLY <3>1, SizesPositive, ModRange
    <3>. QED  BY <3>2 DEF Byte
  <2>. QED  BY <2>1, FieldTypes DEF Decoded, RegStart, RegEnd
<1>3. CASE LoadID(i) \/ LoadRD(i)
  BY <1>3, LoadType DEF LoadID, LoadRD
<1>4. CASE StoreID(i) \/ StoreRD(i)
  BY <1>4, StoreType DEF StoreID, StoreRD
<1>5. CASE CmpXchg(i)
  <2>. DEFINE dest == regs[i.dst]
              span == IF i.prefix = "DWORD" THEN Span(dest, 4) ELSE {}
              v(wild) == Join(Read(mem, dest, 4, wild))
              equal(wild) == v(wild) = regs[i.opa]
  <2>1. CASE i.prefix # "DWORD"
    BY <1>1, <1>5, <2>1, RegsOnlyType DEF CmpXchg
  <2>2. CASE i.prefix = "DWORD"
    <3>1. PICK wild \in WildOf(span) :
            /\ mem' = IF equal(wild) THEN Write(mem, dest, 4, Bytes(regs[i.opb])) ELSE mem
            /\ regs' = SetFlag(IF equal(wild) THEN regs ELSE Mismatch(i, v(wild)),
                               FLGS_Z, equal(wild))
            /\ pos' = NextPos /\ Retire
            /\ UNCHANGED <<cregs, latch>>
      BY <1>5, <2>2 DEF CmpXchg
    <3>2. dest \in Int /\ regs[i.opb] \in Nat
      BY <1>1, <1>2, SizesPositive DEF RegFile, Dword
    <3>3. v(wild) \in Dword
      BY <1>1, <3>1, <3>2, WildType, DwordRead
    <3>4. Write(mem, dest, 4, Bytes(regs[i.opb])) \in Memory
      <4>1. \A k \in 0 .. 4 - 1 : Bytes(regs[i.opb])[k] \in Byte
        BY <3>2, BytesType
      <4>. QED  BY <1>1, <3>2, <4>1, WriteType
    <3>5. mem' \in Memory
      BY <1>1, <3>1, <3>4
    <3>6. (IF equal(wild) THEN regs ELSE Mismatch(i, v(wild))) \in RegFile
      BY <1>1, <1>2, <3>3, RegFiles DEF Mismatch
    <3>7. regs' \in RegFile
      <4>. HIDE DEF v, equal
      <4>. QED  BY <3>1, <3>6, RegFiles
    <3>. QED  BY <1>1, <3>1, <3>5, <3>7 DEF Retire, TypeOK, Memory, RegFile
  <2>. QED  BY <2>1, <2>2
<1>6. CASE StoreMA(i)
  <2>1. mem' \in Memory /\ regs' \in RegFile
    BY <1>1, <1>2, <1>6, PushTypes DEF StoreMA
  <2>. QED  BY <1>1, <1>6, <2>1 DEF StoreMA, Retire, TypeOK, Memory, RegFile
<1>7. CASE LoadMA(i)
  <2>1. PICK wild \in WildOf(PopSpan(i.dst, RegStart(i), RegEnd(i))) :
          RegsOnly(PopRegs(mem, regs, i.dst, RegStart(i), RegEnd(i), wild))
    BY <1>7 DEF LoadMA
  <2>2. PopRegs(mem, regs, i.dst, RegStart(i), RegEnd(i), wild) \in RegFile
    BY <1>1, <1>2, <2>1, WildType, PopType
  <2>. QED  BY <2>1, <2>2, RegsOnlyType
<1>. QED  BY <1>3, <1>4, <1>5, <1>6, <1>7

LEMMA ControlTypes ==
  ASSUME TypeOK, NEW i, Decoded(i),
         Skip(i) \/ Unknown(i) \/ Jmp(i) \/ Call(i) \/ Stop(i) \/ Fail(i)
  PROVE  TypeOK'
<1>1. /\ regs \in RegFile /\ NextPos \in Dword /\ i.dst \in Reg
      /\ \A r \in Reg : regs[r] \in Dword
  BY Operands DEF TypeOK, RegFile, Decoded
<1>2. i.imm16 \in Int
  BY SizesPositive DEF Decoded, Word
<1>3. Relative(i) \in Dword
  <2>1. Signed(i.imm16, WordSize) \in Int
    BY <1>2, SizesPositive, SignedType
  <2>2. NextPos + Signed(i.imm16, WordSize) \in Int
    BY <1>1, <2>1, SizesPositive DEF Dword
  <2>. QED  BY <2>2, ToDwordType DEF Relative
<1>4. CASE Skip(i) \/ Unknown(i)
  BY <1>1, <1>4, RegsOnlyType DEF Skip, Unknown
<1>5. CASE Jmp(i)
  BY <1>1, <1>3, <1>5 DEF Jmp, Retire, TypeOK
<1>6. CASE Call(i)
  <2>1. [regs EXCEPT ![RC] = NextPos] \in RegFile
    BY <1>1, RegNumbers DEF RegFile
  <2>2. regs' \in RegFile /\ pos' \in Dword
    BY <1>1, <1>3, <1>6, <2>1 DEF Call, RegFile
  <2>. QED  BY <1>6, <2>2 DEF Call, Retire, TypeOK, RegFile
<1>7. CASE Stop(i) \/ Fail(i)
  BY <1>1, <1>2, <1>7 DEF Stop, Fail, Return, TypeOK
<1>. QED  BY <1>4, <1>5, <1>6, <1>7

-----------------------------------------------------------------------------
(* The emulator                                                            *)

LEMMA InitType == Init => TypeOK
<1>. SUFFICES ASSUME Init PROVE TypeOK
  OBVIOUS
<1>1. 0 \in Dword /\ 0 \in Byte /\ 2 \in Dword /\ InitSP \in Dword /\ InitSSP \in Dword
  BY WidthAssumption, MachineAssumption, SizesPositive DEF Dword, Byte
<1>2. regs \in [Reg -> Dword]
  BY <1>1, MachineAssumption DEF Init
<1>3. cregs \in [Reg -> Dword]
  BY <1>1, MachineAssumption DEF Init, CR1_PRIV_MODE
<1>. QED  BY <1>1, <1>2, <1>3, MachineAssumption DEF Init, TypeOK

LEMMA BootType ==
  ASSUME TypeOK, Boot
  PROVE  TypeOK'
<1>1. CASE BootFails
  BY <1>1 DEF BootFails, TypeOK
<1>2. CASE \E img \in Images : LoadImage(img)
  <2>1. PICK img \in Images : LoadImage(img)
    BY <1>2
  <2>2. \A k \in DOMAIN img : img[k] \in Byte
    BY MachineAssumption
  <2>3. mem' \in [Addr -> Byte]
    BY <2>1, <2>2 DEF LoadImage, TypeOK
  <2>4. LoadAddr \in Dword
    BY MachineAssumption, SizesPositive DEF Addr, Dword
  <2>. QED  BY <2>1, <2>3, <2>4 DEF LoadImage, TypeOK
<1>. QED  BY <1>1, <1>2 DEF Boot

LEMMA TurnType ==
  ASSUME TypeOK, Turn
  PROVE  TypeOK'
<1>1. CASE Crash
  BY <1>1 DEF Crash, TypeOK
<1>2. CASE \E i \in Fetched : Execute(i)
  <2>1. PICK i \in Fetched : Execute(i)
    BY <1>2
  <2>2. Decoded(i)
    BY DecodedFetched
  <2>. QED  BY <2>1, <2>2, ArithTypes, LogicActionTypes, MoveTypes, MemoryTypes,
               ControlTypes DEF Execute
<1>. QED  BY <1>1, <1>2 DEF Turn

\* Every value stays in its type, whatever the widths, the memory size, the
\* image and the bytes read outside the memory: no register, address or byte
\* exceeds its width (the casts of cpu.c, decode.c and memory.c).
THEOREM TypeCorrect == Spec => []TypeOK
<1>1. Init => TypeOK
  BY InitType
<1>2. TypeOK /\ [Next]_vars => TypeOK'
  <2>. SUFFICES ASSUME TypeOK, [Next]_vars PROVE TypeOK'
    OBVIOUS
  <2>1. CASE Boot
    BY <2>1, BootType
  <2>2. CASE Reenter
    BY <2>2 DEF Reenter, TypeOK
  <2>3. CASE Turn
    BY <2>3, TurnType
  <2>4. CASE UNCHANGED vars
    BY <2>4 DEF vars, TypeOK
  <2>. QED  BY <2>1, <2>2, <2>3, <2>4 DEF Next
<1>. QED  BY <1>1, <1>2, PTL DEF Spec

\* An ended program is never taken for a paused one: only a step over leaves -1,
\* and what STOP, FAIL and the exits of main return is not negative
\* (cpu_execute, main).
THEOREM EndFinal == Spec => []EndIsFinal
<1>1. Init => EndIsFinal
  BY DEF Init, EndIsFinal
<1>2. TypeOK /\ EndIsFinal /\ [Next]_vars => EndIsFinal'
  <2>. SUFFICES ASSUME TypeOK, EndIsFinal, [Next]_vars PROVE EndIsFinal'
    OBVIOUS
  <2>1. CASE Boot
    BY <2>1 DEF Boot, BootFails, LoadImage, EndIsFinal
  <2>2. CASE Reenter \/ UNCHANGED vars
    BY <2>2 DEF Reenter, vars, EndIsFinal
  <2>3. CASE Turn
    <3>1. CASE Crash
      BY <3>1 DEF Crash, EndIsFinal
    <3>2. CASE \E i \in Fetched : Execute(i)
      <4>1. PICK i \in Fetched : Execute(i)
        BY <3>2
      <4>2. i.imm16 >= 0
        BY DecodedFetched, SizesPositive DEF Decoded, Word
      <4>3. CASE Stop(i) \/ Fail(i)
        BY <4>2, <4>3 DEF Stop, Fail, Return, EndIsFinal
      <4>4. CASE ~(Stop(i) \/ Fail(i))
        <5>1. Retire
          BY <4>1, <4>4 DEF Execute, Skip, Unknown, Add, Sub, SMul, Mul, SDiv,
             Div, Mod, Shl, Shr, Sar, Shift, And, Or, Xor, Not, Sex, Cmp, Test,
             Mov, LoadI, Xchg, MovFC, MovTC, XchgC, WithCreg, In, Out, LoadID,
             LoadRD, LoadAt, StoreID, StoreRD, StoreAt, CmpXchg, StoreMA,
             LoadMA, Jmp, Call, RegsOnly, MemOnly
        <5>2. status = "running"
          BY <2>3 DEF Turn
        <5>. QED  BY <5>1, <5>2 DEF Retire, EndIsFinal
      <4>. QED  BY <4>3, <4>4
    <3>. QED  BY <2>3, <3>1, <3>2 DEF Turn
  <2>. QED  BY <2>1, <2>2, <2>3 DEF Next
<1>. QED  BY <1>1, <1>2, TypeCorrect, PTL DEF Spec
=============================================================================
