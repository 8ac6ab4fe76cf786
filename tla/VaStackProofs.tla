--------------------------- MODULE VaStackProofs ---------------------------
(***************************************************************************)
(* LOADMA undoes STOREMA, for every width of the VA, every stack register  *)
(* and every range of registers.                                           *)
(***************************************************************************)
EXTENDS VaCpuProofs, VaFormatProofs

\* A dword is its bytes.
LEMMA JoinBytes ==
  ASSUME NEW x \in Dword, NEW b, \A k \in 0 .. 3 : b[k] = Bytes(x)[k]
  PROVE  Join(b) = x
<1>. DEFINE B  == ByteSize
            d1 == x \div B
            d2 == d1 \div B
            d3 == d2 \div B
<1>1. B \in Nat \ {0} /\ B * B \in Nat \ {0} /\ B * B * B \in Nat \ {0}
      /\ DwordSize = B * B * B * B
  <2>1. B \in Nat \ {0}
    BY SizesPositive
  <2>2. DwordSize = (B * B) * (B * B)
    BY DEF DwordSize, WordSize
  <2>. HIDE DEF B
  <2>3. B * B \in Nat \ {0}
    BY <2>1
  <2>4. B * B * B \in Nat \ {0}
    BY <2>1, <2>3
  <2>5. (B * B) * (B * B) = B * B * B * B
    BY <2>1
  <2>. QED  BY <2>1, <2>2, <2>3, <2>4, <2>5
<1>2. b[0] = x % B /\ b[1] = d1 % B /\ b[2] = d2 % B /\ b[3] = d3 % B
  BY DEF Bytes
<1>. HIDE DEF B
<1>3. x \in 0 .. (B * B * B) * B - 1
  BY <1>1 DEF Dword
<1>4. d1 \in 0 .. (B * B) * B - 1
  BY <1>1, <1>3, QuotientRange
<1>. HIDE DEF d1
<1>5. d2 \in 0 .. B * B - 1
  BY <1>1, <1>4, QuotientRange
<1>. HIDE DEF d2
<1>6. d3 \in 0 .. B - 1
  BY <1>1, <1>5, QuotientRange
<1>7. x \in Int /\ d1 \in Int /\ d2 \in Int
  BY <1>1, <1>3, <1>4, <1>5
<1>8. x = B * d1 + (x % B) /\ d1 = B * d2 + (d1 % B) /\ d2 = B * d3 + (d2 % B)
  BY <1>1, <1>7, DivMod DEF d1, d2
<1>9. d3 % B = d3
  <2>1. d3 = B * 0 + d3
    BY <1>1, <1>6
  <2>2. (B * 0 + d3) % B = d3
    BY <1>1, <1>6, DivModUnique
  <2>. QED  BY <2>1, <2>2
<1>10. Join(b) = b[0] + B * (b[1] + B * (b[2] + B * b[3]))
  BY DEF Join, B
<1>. DEFINE r0 == x % B
            r1 == d1 % B
            r2 == d2 % B
<1>11. r0 \in Int /\ r1 \in Int /\ r2 \in Int
  BY <1>1, <1>7, DivMod
<1>. HIDE DEF d3, r0, r1, r2
<1>12. b[0] = r0 /\ b[1] = r1 /\ b[2] = r2 /\ b[3] = d3
  BY <1>2, <1>9 DEF r0, r1, r2, d3
<1>13. x = B * d1 + r0 /\ d1 = B * d2 + r1 /\ d2 = B * d3 + r2
  BY <1>8 DEF r0, r1, r2
<1>14. r2 + B * d3 = d2
  BY <1>1, <1>6, <1>11, <1>13
<1>15. r1 + B * d2 = d1
  BY <1>1, <1>7, <1>11, <1>13
<1>16. r0 + B * d1 = x
  BY <1>1, <1>7, <1>11, <1>13
<1>. QED  BY <1>10, <1>12, <1>14, <1>15, <1>16

LEMMA SmallMod ==
  ASSUME NEW d \in Nat \ {0}, NEW n \in 0 .. d - 1
  PROVE  n % d = n
<1>1. d * 0 + n = n
  OBVIOUS
<1>2. (d * 0 + n) % d = n
  BY DivModUnique
<1>. QED  BY <1>1, <1>2

\* Byte k of a register of a range of n, counted from its end, is where it was
\* pushed when the stack pointer was p.
LEMMA BytePlace ==
  ASSUME NEW p \in Dword, NEW n \in 1 .. NReg, NEW i \in 0 .. n - 1, NEW k \in 0 .. 3
  PROVE  LET base == ToDword(p - 4 * (n - 1))
             b    == (ToDword(ToDword(p - 4 * n) + 4 * (i + 1)) + k) % DwordSize
         IN  /\ b \in Span(base, 4 * n)
             /\ (b - base) % DwordSize = 4 * i + k
             /\ 4 * i + k \in 0 .. 4 * n - 1
<1>. DEFINE D == DwordSize
            base == ToDword(p - 4 * (n - 1))
            b == (ToDword(ToDword(p - 4 * n) + 4 * (i + 1)) + k) % D
            j == 4 * i + k
<1>1. D \in Nat \ {0} /\ NReg \in Nat /\ 4 * NReg <= D /\ p \in Int
  BY SizesPositive, FieldSizes, WidthAssumption DEF Dword
<1>2. n \in Int /\ i \in Int /\ k \in Int /\ j \in 0 .. 4 * n - 1 /\ j \in 0 .. D - 1
  BY <1>1
<1>3. b = (base + j) % D
  <2>1. ToDword(ToDword(p - 4 * n) + 4 * (i + 1)) = (p - 4 * n + 4 * (i + 1)) % D
    <3>1. p - 4 * n \in Int /\ 4 * (i + 1) \in Int
      BY <1>1, <1>2
    <3>. QED  BY <1>1, <3>1, ModEarly DEF ToDword
  <2>2. b = (p - 4 * n + 4 * (i + 1) + k) % D
    <3>. DEFINE x == p - 4 * n + 4 * (i + 1)
    <3>1. x \in Int
      BY <1>1, <1>2
    <3>2. b = ((x % D) + k) % D
      BY <2>1
    <3>. HIDE DEF x
    <3>3. ((x % D) + k) % D = (x + k) % D
      BY <1>1, <1>2, <3>1, ModEarly
    <3>4. x + k = p - 4 * n + 4 * (i + 1) + k
      BY DEF x
    <3>. QED  BY <3>2, <3>3, <3>4
  <2>3. (base + j) % D = (p - 4 * (n - 1) + j) % D
    <3>1. p - 4 * (n - 1) \in Int /\ j \in Int
      BY <1>1, <1>2
    <3>. HIDE DEF j
    <3>. QED  BY <1>1, <3>1, ModEarly DEF ToDword
  <2>4. p - 4 * n + 4 * (i + 1) + k = p - 4 * (n - 1) + j
    BY <1>1, <1>2
  <2>. QED  BY <2>2, <2>3, <2>4
<1>4. base \in Int
  <2>1. p - 4 * (n - 1) \in Int
    BY <1>1, <1>2
  <2>. QED  BY <1>1, <2>1, DivMod DEF ToDword
<1>. HIDE DEF base, b, j
<1>5. b \in Span(base, 4 * n)
  BY <1>2, <1>3 DEF Span
<1>6. (b - base) % D = j
  <2>1. (((base + j) % D) + (-base)) % D = (base + j + (-base)) % D
    <3>1. base + j \in Int /\ -base \in Int
      BY <1>2, <1>4
    <3>. QED  BY <1>1, <3>1, ModEarly
  <2>2. base + j + (-base) = j
    BY <1>2, <1>4
  <2>3. b \in Int
    <3>1. base + j \in Int
      BY <1>2, <1>4
    <3>. QED  BY <1>1, <1>3, <3>1, DivMod
  <2>4. b - base = b + (-base)
    BY <1>4, <2>3
  <2>5. j % D = j
    BY <1>1, <1>2, SmallMod
  <2>. QED  BY <1>3, <2>1, <2>2, <2>4, <2>5
<1>. QED  BY <1>2, <1>5, <1>6 DEF base, b, j

\* A register of the range is read back from where it was pushed.
LEMMA PoppedRegister ==
  ASSUME TypeOK, NEW d \in Reg, NEW s \in Reg, NEW e \in Reg,
         PushSpan(d, s, e) \subseteq Addr, NEW r \in s .. e
  PROVE  Join(Read(PushMem(mem, regs, d, s, e),
                   ToDword(PushRegs(regs, d, s, e)[d] + 4 * (e - r + 1)), 4, 0))
           = regs[r]
<1>. DEFINE n == RangeLen(s, e)
            i == e - r
            base == ToDword(regs[d] - 4 * (n - 1))
            a == ToDword(ToDword(regs[d] - 4 * n) + 4 * (i + 1))
            m == PushMem(mem, regs, d, s, e)
            R == Read(m, a, 4, 0)
<1>1. /\ s \in Int /\ e \in Int /\ r \in Int /\ s <= r /\ r <= e /\ r \in Reg
      /\ n \in 1 .. NReg /\ n = e - s + 1 /\ i \in 0 .. n - 1
  BY FieldSizes DEF Reg, RangeLen
<1>2. regs \in [Reg -> Dword] /\ regs[d] \in Dword /\ regs[r] \in Dword
  BY <1>1 DEF TypeOK
<1>3. PushRegs(regs, d, s, e)[d] = ToDword(regs[d] - 4 * n)
  BY <1>2 DEF PushRegs
<1>4. Span(base, 4 * n) \subseteq Addr
  BY DEF PushSpan
<1>5. m = [q \in Addr |-> LET k == (q - base) % DwordSize
                          IN  IF k < 4 * n THEN Bytes(regs[e - (k \div 4)])[k % 4]
                              ELSE mem[q]]
  <2>. DEFINE bs == [k \in 0 .. 4 * n - 1 |-> Bytes(regs[e - (k \div 4)])[k % 4]]
  <2>1. m = [q \in Addr |-> LET k == (q - base) % DwordSize
                            IN  IF k < 4 * n THEN bs[k] ELSE mem[q]]
    BY DEF PushMem, Write
  <2>2. ASSUME NEW q \in Addr, (q - base) % DwordSize < 4 * n
        PROVE  (q - base) % DwordSize \in 0 .. 4 * n - 1
    <3>1. base \in Int /\ q \in Int /\ q - base \in Int /\ DwordSize \in Nat \ {0}
      <4>1. regs[d] - 4 * (n - 1) \in Int
        BY <1>1, <1>2, SizesPositive DEF Dword
      <4>2. base \in Int /\ q \in Int /\ DwordSize \in Nat \ {0}
        BY <4>1, SizesPositive, DivMod, MachineAssumption DEF ToDword, Addr
      <4>. HIDE DEF base
      <4>. QED  BY <4>2
    <3>. HIDE DEF base, n
    <3>2. (q - base) % DwordSize \in 0 .. DwordSize - 1
      BY <3>1, DivMod
    <3>3. n \in Int
      BY <1>1
    <3>. QED  BY <2>2, <3>1, <3>2, <3>3
  <2>. HIDE DEF base, m, n
  <2>. QED  BY <2>1, <2>2
<1>6. ASSUME NEW k \in 0 .. 3
      PROVE  R[k] = Bytes(regs[r])[k]
  <2>. DEFINE b == (a + k) % DwordSize
              j == 4 * i + k
  <2>1. /\ b \in Span(base, 4 * n) /\ (b - base) % DwordSize = j
        /\ j \in 0 .. 4 * n - 1
    <3>. HIDE DEF n, i
    <3>. QED  BY <1>1, <1>2, BytePlace
  <2>2. b \in Addr
    BY <1>4, <2>1
  <2>. HIDE DEF n, base, a, m
  <2>3. R[k] = m[b]
    BY <2>2 DEF Read
  <2>. HIDE DEF b
  <2>4. j \div 4 = i /\ j % 4 = k /\ j < 4 * n
    <3>1. i \in Int /\ n \in Int
      BY <1>1
    <3>. HIDE DEF i
    <3>. QED  BY <2>1, <3>1
  <2>5. e - i = r
    BY <1>1
  <2>. HIDE DEF j
  <2>6. m[b] = Bytes(regs[e - (j \div 4)])[j % 4]
    BY <1>5, <2>1, <2>2, <2>4
  <2>. QED  BY <2>3, <2>4, <2>5, <2>6
<1>7. Join(R) = regs[r]
  <2>. HIDE DEF R
  <2>. QED  BY <1>2, <1>6, JoinBytes
<1>. QED  BY <1>3, <1>7

LEMMA RoundTrip ==
  ASSUME TypeOK, NEW d \in Reg, NEW s \in Reg, NEW e \in Reg,
         PushSpan(d, s, e) \subseteq Addr
  PROVE  PopRegs(PushMem(mem, regs, d, s, e), PushRegs(regs, d, s, e), d, s, e, 0)
           = regs
<1>. DEFINE n == RangeLen(s, e)
            rf == PushRegs(regs, d, s, e)
            m == PushMem(mem, regs, d, s, e)
            back(r) == IF r = d THEN ToDword(rf[d] + 4 * n)
                       ELSE IF r \in s .. e
                       THEN Join(Read(m, ToDword(rf[d] + 4 * (e - r + 1)), 4, 0))
                       ELSE rf[r]
<1>1. regs \in [Reg -> Dword]
  BY DEF TypeOK
<1>2. rf = [regs EXCEPT ![d] = ToDword(regs[d] - 4 * n)]
  BY <1>1 DEF PushRegs
<1>3. ASSUME NEW r \in Reg
      PROVE  back(r) = regs[r]
  <2>1. CASE r = d
    <3>1. n \in Int
      BY RangeLenType, FieldSizes DEF Reg, RangeLen
    <3>2. DwordSize \in Nat \ {0} /\ regs[d] \in Dword /\ regs[d] \in Int
      BY <1>1, SizesPositive DEF Dword
    <3>3. rf[d] = (regs[d] - 4 * n) % DwordSize
      BY <1>1, <1>2 DEF ToDword
    <3>. HIDE DEF n, rf
    <3>4. (rf[d] + 4 * n) % DwordSize = (regs[d] - 4 * n + 4 * n) % DwordSize
      <4>1. regs[d] - 4 * n \in Int /\ 4 * n \in Int
        BY <3>1, <3>2
      <4>. QED  BY <3>2, <3>3, <4>1, ModEarly
    <3>5. regs[d] - 4 * n + 4 * n = regs[d]
      BY <3>1, <3>2
    <3>6. regs[d] % DwordSize = regs[d]
      BY <3>2, SmallMod DEF Dword
    <3>. QED  BY <2>1, <3>4, <3>5, <3>6 DEF ToDword
  <2>2. CASE r # d /\ r \in s .. e
    BY <2>2, PoppedRegister
  <2>3. CASE r # d /\ r \notin s .. e
    BY <1>1, <1>2, <2>3
  <2>. HIDE DEF back
  <2>. QED  BY <2>1, <2>2, <2>3
<1>4. PopRegs(m, rf, d, s, e, 0) = [r \in Reg |-> back(r)]
  BY DEF PopRegs
<1>. HIDE DEF back
<1>5. [r \in Reg |-> back(r)] = [r \in Reg |-> regs[r]]
  BY <1>3
<1>. QED  BY <1>1, <1>4, <1>5

\* Whenever the pushed dwords lie in the memory, LOADMA gives back every register
\* STOREMA was given, the stack pointer included, at whatever address the stack is
\* and even where it wraps (ins_storema, ins_loadma, cpu_push_dword,
\* cpu_pop_dword).
THEOREM PopUndoesPush == Spec => []StackRoundTrip
<1>1. TypeOK => StackRoundTrip
  BY RoundTrip DEF StackRoundTrip
<1>. QED  BY <1>1, TypeCorrect, PTL
=============================================================================
