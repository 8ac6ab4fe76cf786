---------------------------- MODULE VaArithProofs ---------------------------
(***************************************************************************)
(* The arithmetic of the emulator against the integers, and its logic and  *)
(* shifts against bits, for every width.                                   *)
(***************************************************************************)
EXTENDS VaStepProofs

-----------------------------------------------------------------------------
(* Comparison                                                              *)

LEMMA CmpFlags ==
  ASSUME TypeOK, NEW i, Decoded(i), Cmp(i)
  PROVE  LET a == regs[i.opa]
             b == OpB(i)
             f == regs'[FLGS]
         IN  /\ Masked(f, FLGS_Z) <=> a = b
             /\ Masked(f, FLGS_C) <=> a < b
             /\ Masked(f, FLGS_S) <=> Value(a) < Value(b)
<1>. DEFINE a == regs[i.opa]
            b == OpB(i)
            eq == a = b
            lt == a < b
            sl == SDword(a) < SDword(b)
            z == SetFlag(regs, FLGS_Z, eq)
            c == SetFlag(z, FLGS_C, lt)
            s == SetFlag(c, FLGS_S, sl)
<1>1. regs' = s
  BY DEF Cmp, RegsOnly
<1>2. regs \in RegFile /\ a \in Dword /\ b \in Dword
  BY Operands DEF TypeOK, RegFile, Decoded
<1>3. eq \in BOOLEAN /\ lt \in BOOLEAN /\ sl \in BOOLEAN
  BY <1>2
<1>4. sl <=> Value(a) < Value(b)
  BY <1>2, SignedValue
<1>. HIDE DEF eq, lt, sl
<1>5. z \in RegFile /\ (Masked(z[FLGS], FLGS_Z) <=> eq)
  BY <1>2, <1>3, FlagMasks, FlagRegister
<1>. HIDE DEF z
<1>6. /\ c \in RegFile
      /\ Masked(c[FLGS], FLGS_Z) <=> eq
      /\ Masked(c[FLGS], FLGS_C) <=> lt
  BY <1>3, <1>5, FlagMasks, FlagRegister
<1>. HIDE DEF c
<1>7. /\ Masked(s[FLGS], FLGS_Z) <=> eq
      /\ Masked(s[FLGS], FLGS_C) <=> lt
      /\ Masked(s[FLGS], FLGS_S) <=> sl
  <2>1. /\ Masked(s[FLGS], FLGS_S) <=> sl
        /\ \A other \in Masks \ {FLGS_S} :
             Masked(s[FLGS], other) <=> Masked(c[FLGS], other)
    BY <1>3, <1>6, FlagMasks, FlagRegister
  <2>. HIDE DEF s
  <2>. QED  BY <1>6, <2>1, FlagMasks
<1>. HIDE DEF s
<1>. QED  BY <1>1, <1>4, <1>7 DEF eq, lt

LEMMA CompareOrders ==
  ASSUME TypeOK, [Next]_vars
  PROVE  CompareStep
<1>. SUFFICES ASSUME NEW i \in Fetched, Ran(i, "CMP")
              PROVE  LET a == regs[i.opa]
                         b == OpB(i)
                         Taken(c) == CondHolds(c, regs'[FLGS])
                     IN  /\ Taken("IZ")   <=> a = b
                         /\ Taken("NZ")   <=> a # b
                         /\ Taken("IC")   <=> a < b
                         /\ Taken("NC")   <=> a >= b
                         /\ Taken("IZIC") <=> a <= b
                         /\ Taken("NZNC") <=> a > b
                         /\ Taken("IS")   <=> Value(a) < Value(b)
                         /\ Taken("NS")   <=> Value(a) >= Value(b)
                         /\ Taken("IZIS") <=> Value(a) <= Value(b)
                         /\ Taken("NZNS") <=> Value(a) > Value(b)
  BY DEF CompareStep
<1>. DEFINE a == regs[i.opa]
            b == OpB(i)
            f == regs'[FLGS]
<1>1. Decoded(i) /\ Cmp(i)
  BY DecodedFetched, Counted, Dispatched DEF Opcodes
<1>2. a \in Int /\ b \in Int /\ Value(a) \in Int /\ Value(b) \in Int
      /\ (a = b <=> Value(a) = Value(b))
  <2>1. a \in Dword /\ b \in Dword
    BY <1>1, Operands DEF Decoded
  <2>2. /\ Value(a) = IF a >= Half THEN a - DwordSize ELSE a
        /\ Value(b) = IF b >= Half THEN b - DwordSize ELSE b
    BY <2>1, SignedValue
  <2>. HIDE DEF a, b
  <2>. QED  BY <2>1, <2>2, HalfDword DEF Dword
<1>3. /\ Masked(f, FLGS_Z) <=> a = b
      /\ Masked(f, FLGS_C) <=> a < b
      /\ Masked(f, FLGS_S) <=> Value(a) < Value(b)
  BY <1>1, CmpFlags
<1>4. /\ CondHolds("IZ", f) <=> Masked(f, FLGS_Z)
      /\ CondHolds("NZ", f) <=> ~Masked(f, FLGS_Z)
      /\ CondHolds("IC", f) <=> Masked(f, FLGS_C)
      /\ CondHolds("NC", f) <=> ~Masked(f, FLGS_C)
      /\ CondHolds("IS", f) <=> Masked(f, FLGS_S)
      /\ CondHolds("NS", f) <=> ~Masked(f, FLGS_S)
      /\ CondHolds("IZIC", f) <=> Masked(f, FLGS_Z) \/ Masked(f, FLGS_C)
      /\ CondHolds("NZNC", f) <=> ~Masked(f, FLGS_Z) /\ ~Masked(f, FLGS_C)
      /\ CondHolds("IZIS", f) <=> Masked(f, FLGS_Z) \/ Masked(f, FLGS_S)
      /\ CondHolds("NZNS", f) <=> ~Masked(f, FLGS_Z) /\ ~Masked(f, FLGS_S)
  BY DEF CondHolds
<1>. HIDE DEF a, b, f
<1>5. /\ CondHolds("IZ", f)   <=> a = b
      /\ CondHolds("NZ", f)   <=> a # b
      /\ CondHolds("IC", f)   <=> a < b
      /\ CondHolds("NC", f)   <=> a >= b
      /\ CondHolds("IZIC", f) <=> a <= b
      /\ CondHolds("NZNC", f) <=> a > b
  BY <1>2, <1>3, <1>4
<1>6. /\ CondHolds("IS", f)   <=> Value(a) < Value(b)
      /\ CondHolds("NS", f)   <=> Value(a) >= Value(b)
      /\ CondHolds("IZIS", f) <=> Value(a) <= Value(b)
      /\ CondHolds("NZNS", f) <=> Value(a) > Value(b)
  BY <1>2, <1>3, <1>4
<1>. QED  BY <1>5, <1>6 DEF a, b, f

\* After CMP every condition that orders the operands is right, in the unsigned
\* and in the signed reading, for all pairs of dwords and all flags before it
\* (ins_cmp, the condition switch of cpu_execute).
THEOREM CompareExact == Spec => CompareDecides
<1>1. TypeOK /\ [Next]_vars => [CompareStep]_vars
  BY CompareOrders
<1>. QED  BY <1>1, TypeCorrect, PTL DEF Spec, CompareDecides

-----------------------------------------------------------------------------
(* Division                                                                *)

\* An integer survives the dword exactly when it is in the signed range.
LEMMA SignedFits ==
  ASSUME NEW n \in Int
  PROVE  /\ n \in SignedRange <=> SDword(ToDword(n)) = n
         /\ n \in SignedRange => Value(ToDword(n)) = n
<1>1. Half \in Nat \ {0} /\ DwordSize = Half + Half /\ DwordSize \in Nat \ {0}
  BY HalfDword, SizesPositive
<1>2. ToDword(n) \in Dword
  BY ToDwordType
<1>3. /\ SDword(ToDword(n)) = Value(ToDword(n))
      /\ Value(ToDword(n)) \in SignedRange
      /\ Value(ToDword(n)) = IF ToDword(n) >= Half THEN ToDword(n) - DwordSize
                             ELSE ToDword(n)
  BY <1>2, SignedValue
<1>4. ASSUME n \in SignedRange
      PROVE  Value(ToDword(n)) = n
  <2>1. -DwordSize <= n /\ n < DwordSize + DwordSize /\ n < DwordSize
        /\ -Half <= n /\ n < Half
    BY <1>1, <1>4 DEF SignedRange
  <2>2. n % DwordSize = IF n < 0 THEN n + DwordSize ELSE n
    BY <1>1, <2>1, ModShift
  <2>. QED  BY <1>1, <1>3, <2>1, <2>2 DEF ToDword
<1>. QED  BY <1>3, <1>4

\* The quotient of C rounds toward zero: the remainder is smaller than the
\* divisor and has the sign of the dividend.
LEMMA TowardZero ==
  ASSUME NEW x \in Int, NEW y \in Int, y # 0
  PROVE  LET q == Quotient(x, y)
             rest == x - q * y
         IN  /\ q \in Int /\ rest \in Int
             /\ Abs(rest) < Abs(y)
             /\ rest * x >= 0
             /\ Abs(q) <= Abs(x)
             /\ q > 0 => (x < 0 <=> y < 0)
             /\ Abs(q) = Abs(x) => x = 0 \/ Abs(y) = 1
             /\ Abs(y) = 1 => q = x * y
<1>. DEFINE u == Abs(x)
            v == Abs(y)
            d == u \div v
            r == u % v
            q == Quotient(x, y)
            rest == x - q * y
<1>1. u \in Nat /\ v \in Nat \ {0}
  BY DEF Abs
<1>2. x = IF x < 0 THEN -u ELSE u
  BY DEF Abs
<1>3. y = IF y < 0 THEN -v ELSE v
  BY DEF Abs
<1>4. q = IF (x < 0) = (y < 0) THEN d ELSE -d
  BY DEF Quotient, Abs
<1>. HIDE DEF u, v, q
<1>5. d \in Int /\ r \in 0 .. v - 1 /\ u = v * d + r
  BY <1>1, DivMod
<1>6. d \in 0 .. u
  BY <1>1, DivRange
<1>7. d = u => u = 0 \/ v = 1
  <2>1. ASSUME d = u, v >= 2
        PROVE  u = 0
    <3>1. v * u >= 2 * u
      BY <1>1, <2>1
    <3>2. v * u \in Int
      BY <1>1
    <3>. QED  BY <1>1, <1>5, <2>1, <3>1, <3>2
  <2>. QED  BY <1>1, <2>1
<1>8. v = 1 => d = u
  BY <1>1, <1>5, <1>6
<1>. HIDE DEF d, r
<1>9. v * d \in Int
  BY <1>1, <1>5
<1>10. q * y = IF x < 0 THEN -(v * d) ELSE v * d
  <2>1. (-d) * v = -(v * d) /\ d * v = v * d /\ d * (-v) = -(v * d)
        /\ (-d) * (-v) = v * d
    BY <1>1, <1>5
  <2>. QED  BY <1>3, <1>4, <2>1
<1>11. rest = IF x < 0 THEN -r ELSE r
  BY <1>1, <1>2, <1>5, <1>9, <1>10
<1>12. q \in Int
  BY <1>4, <1>5
<1>13. rest \in Int
  BY <1>5, <1>11
<1>. HIDE DEF rest
<1>14. Abs(rest) < v
  BY <1>1, <1>5, <1>11 DEF Abs
<1>15. rest * x >= 0
  <2>1. r * u >= 0 /\ (-r) * (-u) = r * u
    BY <1>1, <1>5
  <2>. QED  BY <1>2, <1>11, <2>1
<1>16. Abs(q) = d
  BY <1>4, <1>6, <1>1 DEF Abs
<1>17. q > 0 => (x < 0 <=> y < 0)
  BY <1>1, <1>4, <1>6
<1>18. v = 1 => q = x * y
  <2>1. v = 1 => d = u /\ (y = 1 \/ y = -1)
    BY <1>3, <1>8
  <2>. QED  BY <1>1, <1>2, <1>4, <2>1
<1>19. Abs(q) <= u /\ (Abs(q) = u => u = 0 \/ v = 1)
  BY <1>1, <1>6, <1>7, <1>16
<1>20. u = 0 => x = 0
  BY <1>1, <1>2
<1>. QED  BY <1>12, <1>13, <1>14, <1>15, <1>17, <1>18, <1>19, <1>20
          DEF u, v, q, rest

\* The one signed quotient without a dword.
LEMMA OneOverflow ==
  ASSUME NEW x \in SignedRange, NEW y \in SignedRange, y # 0
  PROVE  Quotient(x, y) \notin SignedRange <=> x = -Half /\ y = -1
<1>. DEFINE q == Quotient(x, y)
<1>1. Half \in Nat \ {0} /\ x \in -Half .. Half - 1 /\ y \in -Half .. Half - 1
      /\ x \in Int /\ y \in Int
  BY HalfDword DEF SignedRange
<1>2. /\ q \in Int /\ Abs(q) <= Abs(x)
      /\ q > 0 => (x < 0 <=> y < 0)
      /\ Abs(q) = Abs(x) => x = 0 \/ Abs(y) = 1
      /\ Abs(y) = 1 => q = x * y
  BY <1>1, TowardZero
<1>. HIDE DEF q
<1>3. ASSUME q \notin SignedRange
      PROVE  x = -Half /\ y = -1
  <2>1. q = Half /\ x = -Half
    BY <1>1, <1>2, <1>3 DEF Abs, SignedRange
  <2>2. y < 0 /\ Abs(y) = 1
    BY <1>1, <1>2, <2>1 DEF Abs
  <2>. QED  BY <1>1, <2>1, <2>2 DEF Abs
<1>4. ASSUME x = -Half, y = -1
      PROVE  q \notin SignedRange
  <2>1. y + 1 = 0 /\ x + Half = 0
    BY <1>1, <1>4
  <2>2. Abs(y) = 1
    BY <1>1, <2>1 DEF Abs
  <2>3. x * y = Half
    <3>1. x * (y + 1) = x * y + x /\ x * 0 = 0
      BY <1>1
    <3>2. x * y \in Int
      BY <1>1
    <3>. QED  BY <1>1, <2>1, <3>1, <3>2
  <2>4. q = Half
    BY <1>2, <2>2, <2>3
  <2>. QED  BY <1>1, <2>4 DEF SignedRange
<1>. QED  BY <1>3, <1>4 DEF q

LEMMA DivisionLaws ==
  ASSUME TypeOK, [Next]_vars
  PROVE  DivisionStep
<1>. SUFFICES ASSUME NEW i \in Fetched, i.dst # FLGS
              PROVE  LET a == regs[i.opa]
                         b == OpB(i)
                         m == regs[i.opb]
                         q == regs'[i.dst]
                         rest == Value(a) - Value(q) * Value(b)
                         over == Value(a) = -Half /\ Value(b) = -1
                     IN  /\ Ran(i, "DIV") /\ b # 0 => a - q * b \in 0 .. b - 1
                         /\ Ran(i, "MOD") /\ m # 0 =>
                              q \in 0 .. m - 1 /\ (a - q) % m = 0
                         /\ Ran(i, "SDIV") /\ b # 0 =>
                              /\ Masked(regs'[FLGS], FLGS_O) <=> over
                              /\ over => q = 0
                              /\ ~over => /\ Abs(rest) < Abs(Value(b))
                                          /\ rest * Value(a) >= 0
  BY DEF DivisionStep
<1>. DEFINE a == regs[i.opa]
            b == OpB(i)
            m == regs[i.opb]
            q == regs'[i.dst]
            rest == Value(a) - Value(q) * Value(b)
            over == Value(a) = -Half /\ Value(b) = -1
<1>1. /\ Decoded(i) /\ regs \in RegFile /\ i.dst \in Reg
      /\ a \in Dword /\ b \in Dword /\ m \in Dword
      /\ a \in Nat /\ b \in Nat /\ m \in Nat
  BY DecodedFetched, Operands, SizesPositive DEF Decoded, TypeOK, RegFile, Dword
<1>2. ASSUME NEW op \in {"DIV", "MOD", "SDIV"}, Ran(i, op)
      PROVE  (op = "DIV" => Div(i)) /\ (op = "MOD" => Mod(i))
             /\ (op = "SDIV" => SDiv(i))
  BY <1>2, Counted, Dispatched DEF Opcodes
<1>3. ASSUME Ran(i, "DIV"), b # 0
      PROVE  a - q * b \in 0 .. b - 1
  <2>1. regs' = IF b = 0 THEN regs ELSE [regs EXCEPT ![i.dst] = a \div b]
    BY <1>2, <1>3 DEF Div, RegsOnly
  <2>2. b # 0 => q = a \div b
    BY <1>1, <2>1 DEF RegFile
  <2>. HIDE DEF a, b, q
  <2>3. a - q * b \in 0 .. b - 1
    <3>1. a \in Int /\ b \in Nat \ {0}
      BY <1>1, <1>3
    <3>. DEFINE r == a % b
                d == a \div b
    <3>2. d \in Int /\ r \in 0 .. b - 1 /\ a = b * d + r
      BY ONLY <3>1, DivMod
    <3>. HIDE DEF r
    <3>3. q = d
      BY <1>3, <2>2
    <3>. HIDE DEF d
    <3>4. q \in Int /\ a = b * q + r
      BY <3>2, <3>3
    <3>5. q * b = b * q /\ b * q \in Int
      BY <3>1, <3>4
    <3>. QED  BY <3>1, <3>2, <3>4, <3>5
  <2>. QED  BY <2>3
<1>4. ASSUME Ran(i, "MOD"), m # 0
      PROVE  q \in 0 .. m - 1 /\ (a - q) % m = 0
  <2>1. regs' = IF m = 0 THEN regs ELSE [regs EXCEPT ![i.dst] = a % m]
    BY <1>2, <1>4 DEF Mod, RegsOnly
  <2>2. m # 0 => q = a % m
    BY <1>1, <2>1 DEF RegFile
  <2>. HIDE DEF a, m, q
  <2>3. q \in 0 .. m - 1 /\ (a - q) % m = 0
    <3>1. a \in Int /\ m \in Nat \ {0} /\ 0 \in 0 .. m - 1
      BY <1>1, <1>4
    <3>. DEFINE r == a % m
                d == a \div m
    <3>2. d \in Int /\ r \in 0 .. m - 1 /\ a = m * d + r
      BY ONLY <3>1, DivMod
    <3>3. q = r
      BY <1>4, <2>2
    <3>. HIDE DEF d, r
    <3>4. a - q = m * d + 0
      BY <3>1, <3>2, <3>3
    <3>5. (m * d + 0) % m = 0
      BY ONLY <3>1, <3>2, DivModUnique
    <3>. QED  BY <3>2, <3>3, <3>4, <3>5
  <2>. QED  BY <2>3
<1>5. ASSUME Ran(i, "SDIV"), b # 0
      PROVE  /\ Masked(regs'[FLGS], FLGS_O) <=> over
             /\ over => q = 0
             /\ ~over => /\ Abs(rest) < Abs(Value(b))
                         /\ rest * Value(a) >= 0
  <2>. DEFINE r == SDivL(a, b)
              Q == Quotient(Value(a), Value(b))
  <2>1. regs' = IF b = 0 THEN regs
                ELSE [SetFlag(regs, FLGS_O, r.o) EXCEPT ![i.dst] = r.val]
    BY <1>2, <1>5 DEF SDiv, RegsOnly
  <2>2. /\ SDword(a) = Value(a) /\ SDword(b) = Value(b)
        /\ Value(a) \in SignedRange /\ Value(b) \in SignedRange
        /\ Value(a) \in Int /\ Value(b) \in Int /\ Value(b) # 0
    <3>1. /\ SDword(a) = Value(a) /\ SDword(b) = Value(b)
          /\ Value(a) \in SignedRange /\ Value(b) \in SignedRange
      BY <1>1, SignedValue
    <3>2. Value(b) = IF b >= Half THEN b - DwordSize ELSE b
      BY <1>1, SignedValue
    <3>. HIDE DEF b
    <3>3. Value(b) # 0
      BY <1>1, <1>5, <3>2, SizesPositive DEF Dword
    <3>. QED  BY <3>1, <3>3, HalfDword DEF SignedRange
  <2>3. /\ Q \in Int /\ (Q \notin SignedRange <=> over)
        /\ Abs(Value(a) - Q * Value(b)) < Abs(Value(b))
        /\ (Value(a) - Q * Value(b)) * Value(a) >= 0
    BY <2>2, TowardZero, OneOverflow
  <2>4. /\ (r.o <=> over) /\ r.o \in BOOLEAN
        /\ r.val = IF over THEN 0 ELSE ToDword(Q)
    BY <2>2, <2>3, SignedFits DEF SDivL
  <2>5. ~over => Value(ToDword(Q)) = Q
    BY <2>3, SignedFits
  <2>. HIDE DEF r, over, Q
  <2>6. /\ SetFlag(regs, FLGS_O, r.o) \in RegFile
        /\ Masked(SetFlag(regs, FLGS_O, r.o)[FLGS], FLGS_O) <=> over
    BY <1>1, <2>4, FlagMasks, FlagRegister
  <2>7. /\ regs'[FLGS] = SetFlag(regs, FLGS_O, r.o)[FLGS]
        /\ q = r.val
    BY <1>1, <1>5, <2>1, <2>6, RegNumbers DEF RegFile
  <2>8. ~over => rest = Value(a) - Q * Value(b)
    BY <2>4, <2>5, <2>7
  <2>. HIDE DEF q, rest
  <2>. QED  BY <2>3, <2>4, <2>6, <2>7, <2>8
<1>. QED  BY <1>3, <1>4, <1>5

\* DIV, MOD and SDIV divide: quotient and remainder satisfy the division
\* equation for every dword and every divisor but zero, and SDIV flags the
\* single quotient that has no dword (ins_div, ins_mod, ins_sdiv).
THEOREM DivisionExact == Spec => DivisionEquation
<1>1. TypeOK /\ [Next]_vars => [DivisionStep]_vars
  BY DivisionLaws
<1>. QED  BY <1>1, TypeCorrect, PTL DEF Spec, DivisionEquation

-----------------------------------------------------------------------------
(* Carry and overflow                                                      *)

\* Carry is the unsigned, overflow the signed sum that has no dword.
LEMMA SumFlags ==
  ASSUME NEW a \in Dword, NEW b \in Dword
  PROVE  /\ AddL(a, b).c <=> a + b \notin Dword
         /\ AddL(a, b).o <=> Value(a) + Value(b) \notin SignedRange
         /\ AddL(a, b).c \in BOOLEAN /\ AddL(a, b).o \in BOOLEAN
<1>. DEFINE sum == (a + b) % DwordSize
<1>1. Half \in Nat \ {0} /\ DwordSize = Half + Half /\ DwordSize \in Nat \ {0}
      /\ a \in 0 .. DwordSize - 1 /\ b \in 0 .. DwordSize - 1
  BY HalfDword, SizesPositive DEF Dword
<1>2. sum = IF a + b < DwordSize THEN a + b ELSE a + b - DwordSize
  <2>. DEFINE n == a + b
  <2>. SUFFICES n % DwordSize = IF n < DwordSize THEN n ELSE n - DwordSize
    BY <1>1
  <2>1. n \in Nat /\ n < DwordSize + DwordSize
    BY <1>1
  <2>. HIDE DEF n
  <2>2. n \in Int /\ -DwordSize <= n /\ ~(n < 0)
    BY <1>1, <2>1
  <2>. QED  BY <1>1, <2>1, <2>2, ModShift
<1>3. /\ Value(a) = IF a >= Half THEN a - DwordSize ELSE a
      /\ Value(b) = IF b >= Half THEN b - DwordSize ELSE b
  BY SignedValue
<1>. DEFINE carry == a + b >= DwordSize
            over  == (a >= Half) = (b >= Half) /\ (sum >= Half) # (a >= Half)
<1>4. AddL(a, b).c = carry /\ AddL(a, b).o = over
  BY DEF AddL, SignBit, Half, ToDword
<1>. HIDE DEF sum
<1>5. carry <=> a + b \notin Dword
  BY <1>1 DEF Dword
<1>6. over <=> Value(a) + Value(b) \notin SignedRange
  BY <1>1, <1>2, <1>3 DEF SignedRange
<1>7. carry \in BOOLEAN /\ over \in BOOLEAN
  OBVIOUS
<1>. HIDE DEF carry, over
<1>. QED  BY <1>4, <1>5, <1>6, <1>7

\* The same of the difference.
LEMMA DifferenceFlags ==
  ASSUME NEW a \in Dword, NEW b \in Dword
  PROVE  /\ SubL(a, b).c <=> a - b \notin Dword
         /\ SubL(a, b).o <=> Value(a) - Value(b) \notin SignedRange
         /\ SubL(a, b).c \in BOOLEAN /\ SubL(a, b).o \in BOOLEAN
<1>. DEFINE diff == (a - b) % DwordSize
<1>1. Half \in Nat \ {0} /\ DwordSize = Half + Half /\ DwordSize \in Nat \ {0}
      /\ a \in 0 .. DwordSize - 1 /\ b \in 0 .. DwordSize - 1
  BY HalfDword, SizesPositive DEF Dword
<1>2. diff = IF a < b THEN a - b + DwordSize ELSE a - b
  <2>. DEFINE n == a - b
  <2>. SUFFICES n % DwordSize = IF n < 0 THEN n + DwordSize ELSE n
    BY <1>1
  <2>1. n \in Int /\ -DwordSize <= n /\ n < DwordSize
    BY <1>1
  <2>. HIDE DEF n
  <2>2. n < DwordSize + DwordSize
    BY <1>1, <2>1
  <2>. QED  BY <1>1, <2>1, <2>2, ModShift
<1>3. /\ Value(a) = IF a >= Half THEN a - DwordSize ELSE a
      /\ Value(b) = IF b >= Half THEN b - DwordSize ELSE b
  BY SignedValue
<1>. DEFINE carry == a < b
            over  == (a >= Half) # (b >= Half) /\ (diff >= Half) # (a >= Half)
<1>4. SubL(a, b).c = carry /\ SubL(a, b).o = over
  BY DEF SubL, SignBit, Half, ToDword
<1>. HIDE DEF diff
<1>5. carry <=> a - b \notin Dword
  BY <1>1 DEF Dword
<1>6. over <=> Value(a) - Value(b) \notin SignedRange
  BY <1>1, <1>2, <1>3 DEF SignedRange
<1>7. carry \in BOOLEAN /\ over \in BOOLEAN
  OBVIOUS
<1>. HIDE DEF carry, over
<1>. QED  BY <1>4, <1>5, <1>6, <1>7

\* The test of ins_mul against DWORD_MAX, without the product.
LEMMA ProductExceeds ==
  ASSUME NEW a \in Nat, NEW b \in Nat, NEW d \in Nat \ {0}
  PROVE  a * b >= d <=> b # 0 /\ a > (d - 1) \div b
<1>1. CASE b = 0
  BY <1>1
<1>2. CASE b # 0
  <2>. DEFINE q == (d - 1) \div b
              s == (d - 1) % b
  <2>1. b \in Nat \ {0} /\ d - 1 \in Int
    BY <1>2
  <2>2. q \in Int /\ s \in 0 .. b - 1 /\ d - 1 = b * q + s
    BY ONLY <2>1, DivMod
  <2>. HIDE DEF q, s
  <2>3. a * b = b * a /\ b * a \in Int /\ b * q \in Int
    BY <2>1, <2>2
  <2>4. ASSUME a > q
        PROVE  a * b >= d
    <3>1. b * (a - q - 1) >= 0 /\ b * (a - q - 1) = b * a - b * q - b
      BY <2>1, <2>2, <2>4
    <3>. QED  BY <2>1, <2>2, <2>3, <3>1
  <2>5. ASSUME ~(a > q)
        PROVE  ~(a * b >= d)
    <3>1. b * (q - a) >= 0 /\ b * (q - a) = b * q - b * a
      BY <2>1, <2>2, <2>5
    <3>. QED  BY <2>1, <2>2, <2>3, <3>1
  <2>. QED  BY <1>2, <2>4, <2>5 DEF q
<1>. QED  BY <1>1, <1>2

\* The high dword of a product, computed word by word.
LEMMA HighDword ==
  ASSUME NEW a \in Nat, NEW b \in Nat
  PROVE  HighWords(a, b) # 0 <=> a * b >= DwordSize
<1>. DEFINE W == WordSize
            h == a \div W
            l == a % W
            k == (l * b) \div W
            r == (l * b) % W
            X == h * b + k
<1>1. W \in Nat \ {0} /\ DwordSize = W * W
  BY SizesPositive DEF DwordSize
<1>2. HighWords(a, b) = X \div W
  BY DEF HighWords
<1>. HIDE DEF W
<1>3. h \in Int /\ l \in 0 .. W - 1 /\ a = W * h + l
  BY <1>1, DivMod
<1>4. h \in Nat
  BY <1>1, DivRange
<1>. HIDE DEF h, l
<1>5. l * b \in Nat
  BY <1>3
<1>6. k \in Int /\ r \in 0 .. W - 1 /\ l * b = W * k + r
  <2>. DEFINE n == l * b
  <2>1. n \in Int
    BY <1>5
  <2>. HIDE DEF n
  <2>2. n \div W \in Int /\ n % W \in 0 .. W - 1 /\ n = W * (n \div W) + (n % W)
    BY <1>1, <2>1, DivMod
  <2>. QED  BY <2>2 DEF n
<1>7. k \in Nat
  BY <1>1, <1>5, DivRange
<1>. HIDE DEF k, r
<1>8. X \in Nat
  BY <1>4, <1>7
<1>9. a * b = W * X + r
  <2>1. a * b = W * (h * b) + l * b
    BY <1>1, <1>3, <1>4
  <2>2. W * X = W * (h * b) + W * k
    BY <1>1, <1>4, <1>7
  <2>3. W * (h * b) \in Int /\ W * k \in Int
    BY <1>1, <1>4, <1>7
  <2>. HIDE DEF X
  <2>. QED  BY <1>6, <2>1, <2>2, <2>3
<1>. HIDE DEF X
<1>10. X >= W <=> a * b >= W * W
  <2>1. W * X \in Int /\ W * W \in Int
    BY <1>1, <1>8
  <2>2. X >= W => W * X >= W * W
    BY <1>1, <1>8
  <2>3. X <= W - 1 => W * X <= W * W - W
    <3>1. X <= W - 1 => W * (W - 1 - X) >= 0
      BY <1>1, <1>8
    <3>2. W * (W - 1 - X) = W * W - W - W * X
      BY <1>1, <1>8
    <3>. QED  BY <1>1, <2>1, <3>1, <3>2
  <2>. QED  BY <1>1, <1>6, <1>8, <1>9, <2>1, <2>2, <2>3
<1>11. X \div W # 0 <=> X >= W
  <2>1. X < W => X \div W = 0
    <3>1. X < W => (W * 0 + X) \div W = 0
      BY <1>1, <1>8, DivModUnique
    <3>2. W * 0 + X = X
      BY <1>1, <1>8
    <3>. QED  BY <3>1, <3>2
  <2>2. X \div W \in Int /\ X % W \in 0 .. W - 1 /\ X = W * (X \div W) + (X % W)
    BY <1>1, <1>8, DivMod
  <2>3. X \div W = 0 => X < W
    <3>. DEFINE u == X % W
    <3>1. X \div W = 0 => X = W * 0 + u
      BY <2>2
    <3>2. u \in 0 .. W - 1
      BY <2>2
    <3>. HIDE DEF u
    <3>. QED  BY <1>1, <1>8, <3>1, <3>2
  <2>. QED  BY <1>1, <1>8, <2>1, <2>3
<1>. QED  BY <1>1, <1>2, <1>10, <1>11

\* What ADD and SUB leave: the result, then O, then C.
LEMMA ResultThenFlags ==
  ASSUME TypeOK, NEW d \in Reg, NEW v \in Dword, NEW o \in BOOLEAN, NEW c \in BOOLEAN,
         regs' = SetFlag(SetFlag([regs EXCEPT ![d] = v], FLGS_O, o), FLGS_C, c)
  PROVE  /\ Masked(regs'[FLGS], FLGS_C) <=> c
         /\ Masked(regs'[FLGS], FLGS_O) <=> o
         /\ d = FLGS \/ regs'[d] = v
<1>. DEFINE r0 == [regs EXCEPT ![d] = v]
            r1 == SetFlag(r0, FLGS_O, o)
            r2 == SetFlag(r1, FLGS_C, c)
<1>1. r0 \in RegFile /\ r0[d] = v
  BY DEF TypeOK, RegFile
<1>2. regs' = r2
  OBVIOUS
<1>. HIDE DEF r0
<1>3. /\ r1 \in RegFile
      /\ Masked(r1[FLGS], FLGS_O) <=> o
      /\ \A r \in Reg \ {FLGS} : r1[r] = r0[r]
  BY <1>1, FlagMasks, FlagRegister
<1>. HIDE DEF r1
<1>4. /\ Masked(r2[FLGS], FLGS_C) <=> c
      /\ Masked(r2[FLGS], FLGS_O) <=> Masked(r1[FLGS], FLGS_O)
      /\ \A r \in Reg \ {FLGS} : r2[r] = r1[r]
  <2>1. /\ Masked(r2[FLGS], FLGS_C) <=> c
        /\ \A r \in Reg \ {FLGS} : r2[r] = r1[r]
    BY <1>3, FlagMasks, FlagRegister
  <2>2. \A other \in Masks \ {FLGS_C} :
          Masked(r2[FLGS], other) <=> Masked(r1[FLGS], other)
    BY <1>3, FlagMasks, FlagRegister
  <2>. HIDE DEF r2
  <2>. QED  BY <2>1, <2>2, FlagMasks
<1>. HIDE DEF r2
<1>5. d \in Reg \ {FLGS} => r2[d] = v
  BY <1>1, <1>3, <1>4
<1>. QED  BY <1>2, <1>3, <1>4, <1>5

LEMMA FlagsOfArithmetic ==
  ASSUME TypeOK, [Next]_vars
  PROVE  OverflowStep
<1>. SUFFICES
       ASSUME NEW i \in Fetched
       PROVE  LET a == regs[i.opa]
                  b == OpB(i)
                  C == Masked(regs'[FLGS], FLGS_C)
                  O == Masked(regs'[FLGS], FLGS_O)
                  Result(r) == i.dst = FLGS \/ regs'[i.dst] = r % DwordSize
              IN  /\ Ran(i, "ADD") =>
                       /\ C <=> a + b \notin Dword
                       /\ O <=> Value(a) + Value(b) \notin SignedRange
                       /\ Result(a + b)
                  /\ Ran(i, "SUB") =>
                       /\ C <=> a - b \notin Dword
                       /\ O <=> Value(a) - Value(b) \notin SignedRange
                       /\ Result(a - b)
                  /\ Ran(i, "SMUL") =>
                       /\ O <=> Value(a) * Value(b) \notin SignedRange
                       /\ Result(Value(a) * Value(b))
                  /\ Ran(i, "MUL") /\ i.dst # FLGS =>
                       /\ C <=> HighWords(a, b) # 0
                       /\ Result(a * Value(b))
  BY DEF OverflowStep
<1>. DEFINE a == regs[i.opa]
            b == OpB(i)
            C == Masked(regs'[FLGS], FLGS_C)
            O == Masked(regs'[FLGS], FLGS_O)
            Result(r) == i.dst = FLGS \/ regs'[i.dst] = r % DwordSize
<1>1. /\ Decoded(i) /\ regs \in RegFile /\ i.dst \in Reg
      /\ a \in Dword /\ b \in Dword /\ a \in Nat /\ b \in Nat
  BY DecodedFetched, Operands, SizesPositive DEF Decoded, TypeOK, RegFile, Dword
<1>2. /\ SDword(a) = Value(a) /\ SDword(b) = Value(b)
      /\ Value(a) \in Int /\ Value(b) \in Int
  BY <1>1, SignedValue, HalfDword DEF SignedRange
<1>3. ASSUME NEW op \in {"ADD", "SUB", "SMUL", "MUL"}, Ran(i, op)
      PROVE  /\ op = "ADD" => Add(i)
             /\ op = "SUB" => Sub(i)
             /\ op = "SMUL" => SMul(i)
             /\ op = "MUL" => Mul(i)
  BY <1>3, Counted, Dispatched DEF Opcodes
<1>4. ASSUME Ran(i, "ADD")
      PROVE  /\ C <=> a + b \notin Dword
             /\ O <=> Value(a) + Value(b) \notin SignedRange
             /\ Result(a + b)
  <2>. DEFINE r == AddL(a, b)
  <2>1. regs' = SetFlag(SetFlag([regs EXCEPT ![i.dst] = r.val], FLGS_O, r.o),
                        FLGS_C, r.c)
    BY <1>3, <1>4 DEF Add, RegsOnly
  <2>2. /\ r.c <=> a + b \notin Dword
        /\ r.o <=> Value(a) + Value(b) \notin SignedRange
        /\ r.c \in BOOLEAN /\ r.o \in BOOLEAN
    BY <1>1, SumFlags
  <2>3. r.val \in Dword /\ r.val = (a + b) % DwordSize
    BY <1>1, AluTypes DEF AddL, ToDword
  <2>. HIDE DEF a, b, r
  <2>. QED  BY <1>1, <2>1, <2>2, <2>3, ResultThenFlags
<1>5. ASSUME Ran(i, "SUB")
      PROVE  /\ C <=> a - b \notin Dword
             /\ O <=> Value(a) - Value(b) \notin SignedRange
             /\ Result(a - b)
  <2>. DEFINE r == SubL(a, b)
  <2>1. regs' = SetFlag(SetFlag([regs EXCEPT ![i.dst] = r.val], FLGS_O, r.o),
                        FLGS_C, r.c)
    BY <1>3, <1>5 DEF Sub, RegsOnly
  <2>2. /\ r.c <=> a - b \notin Dword
        /\ r.o <=> Value(a) - Value(b) \notin SignedRange
        /\ r.c \in BOOLEAN /\ r.o \in BOOLEAN
    BY <1>1, DifferenceFlags
  <2>3. r.val \in Dword /\ r.val = (a - b) % DwordSize
    BY <1>1, AluTypes DEF SubL, ToDword
  <2>. HIDE DEF a, b, r
  <2>. QED  BY <1>1, <2>1, <2>2, <2>3, ResultThenFlags
<1>6. ASSUME Ran(i, "SMUL")
      PROVE  /\ O <=> Value(a) * Value(b) \notin SignedRange
             /\ Result(Value(a) * Value(b))
  <2>. DEFINE p  == Value(a) * Value(b)
              o  == SDword(ToDword(p)) # p
              r0 == [regs EXCEPT ![i.dst] = ToDword(p)]
              r1 == SetFlag(r0, FLGS_O, o)
  <2>1. regs' = r1
    BY <1>2, <1>3, <1>6 DEF SMul, RegsOnly, SMulL
  <2>2. p \in Int
    BY <1>2
  <2>. HIDE DEF p
  <2>3. o <=> p \notin SignedRange
    BY <2>2, SignedFits
  <2>4. o \in BOOLEAN
    OBVIOUS
  <2>5. r0 \in RegFile /\ r0[i.dst] = p % DwordSize
    BY <1>1, <2>2, ToDwordType DEF RegFile, ToDword
  <2>. HIDE DEF r0, o
  <2>6. /\ Masked(r1[FLGS], FLGS_O) <=> o
        /\ \A r \in Reg \ {FLGS} : r1[r] = r0[r]
    BY <2>4, <2>5, FlagMasks, FlagRegister
  <2>. HIDE DEF r1
  <2>. QED  BY <1>1, <2>1, <2>3, <2>5, <2>6 DEF p
<1>7. ASSUME Ran(i, "MUL"), i.dst # FLGS
      PROVE  /\ C <=> HighWords(a, b) # 0
             /\ Result(a * Value(b))
  <2>. DEFINE c  == b # 0 /\ a > (DwordSize - 1) \div b
              r0 == SetFlag(regs, FLGS_C, c)
  <2>1. regs' = [r0 EXCEPT ![i.dst] = ToDword(a * Value(b))]
    BY <1>2, <1>3, <1>7 DEF Mul, RegsOnly, MulL
  <2>2. c <=> HighWords(a, b) # 0
    BY <1>1, SizesPositive, ProductExceeds, HighDword
  <2>3. c \in BOOLEAN
    OBVIOUS
  <2>. HIDE DEF c
  <2>4. r0 \in RegFile /\ (Masked(r0[FLGS], FLGS_C) <=> c)
    BY <1>1, <2>3, FlagMasks, FlagRegister
  <2>. HIDE DEF r0
  <2>5. regs'[FLGS] = r0[FLGS] /\ regs'[i.dst] = ToDword(a * Value(b))
    BY <1>1, <1>7, <2>1, <2>4, RegNumbers DEF RegFile
  <2>. QED  BY <2>2, <2>4, <2>5 DEF ToDword
<1>. QED  BY <1>4, <1>5, <1>6, <1>7

\* The flags of ADD, SUB, SMUL and MUL tell the truth about the integers, for
\* all operands: C the unsigned and O the signed result that has no dword, the
\* 64-bit product included (ins_add, ins_sub, ins_smul, ins_mul).
THEOREM FlagsExact == Spec => OverflowExact
<1>1. TypeOK /\ [Next]_vars => [OverflowStep]_vars
  BY FlagsOfArithmetic
<1>. QED  BY <1>1, TypeCorrect, PTL DEF Spec, OverflowExact

-----------------------------------------------------------------------------
(* Bits                                                                    *)

Two(n) == 2^n

LEMMA Powers ==
  /\ DwordBits \in Nat \ {0} /\ Two(0) = 1 /\ Two(1) = 2
  /\ \A n \in 0 .. DwordBits : Two(n) \in Nat \ {0}
  /\ \A m, n \in 0 .. DwordBits : m + n <= DwordBits => Two(m + n) = Two(m) * Two(n)
  /\ \A v, n : BitOf(v, n) = Masked(v, Two(n))
  BY WidthAssumption, PowerAssumption DEF Two, BitOf

\* One division after the other.
LEMMA DivDiv ==
  ASSUME NEW n \in Int, NEW p \in Nat \ {0}, NEW q \in Nat \ {0}
  PROVE  (n \div p) \div q = n \div (p * q)
<1>. DEFINE a == n \div p
            r == n % p
            c == a \div q
            s == a % q
<1>1. a \in Int /\ r \in 0 .. p - 1 /\ n = p * a + r
  BY DivMod
<1>. HIDE DEF a, r
<1>2. c \in Int /\ s \in 0 .. q - 1 /\ a = q * c + s
  BY <1>1, DivMod
<1>. HIDE DEF c, s
<1>3. p * q \in Nat \ {0} /\ p * s \in Int /\ p * (q * c) = (p * q) * c
  BY <1>2
<1>4. 0 <= p * s /\ p * s <= p * q - p
  <2>1. p * (q - 1 - s) >= 0 /\ p * (q - 1 - s) = p * q - p - p * s
    BY <1>2
  <2>. QED  BY <1>2, <1>3, <2>1
<1>5. p * s + r \in 0 .. p * q - 1
  BY <1>1, <1>3, <1>4
<1>6. n = (p * q) * c + (p * s + r)
  <2>1. p * a = p * (q * c) + p * s
    BY <1>1, <1>2
  <2>2. (p * q) * c \in Int
    BY <1>2, <1>3
  <2>. QED  BY <1>1, <1>3, <2>1, <2>2
<1>7. n \div (p * q) = c
  BY <1>2, <1>3, <1>5, <1>6, DivModUnique
<1>. QED  BY <1>7 DEF a, c

\* Adding a multiple of the next power leaves a bit as it is.
LEMMA HigherPart ==
  ASSUME NEW n \in Int, NEW e \in Int, NEW p \in Nat \ {0}
  PROVE  Masked(n + (p * 2) * e, p) <=> Masked(n, p)
<1>. DEFINE q == n \div p
            r == n % p
<1>1. q \in Int /\ r \in 0 .. p - 1 /\ n = p * q + r
  BY DivMod
<1>2. (n + (p * 2) * e) \div p = q + 2 * e
  <2>. HIDE DEF q, r
  <2>1. n + (p * 2) * e = p * (q + 2 * e) + r
    <3>1. p * (q + 2 * e) = p * q + (p * 2) * e /\ p * q \in Int
          /\ (p * 2) * e \in Int
      BY <1>1
    <3>. QED  BY <1>1, <3>1
  <2>2. q + 2 * e \in Int
    BY <1>1
  <2>. QED  BY <1>1, <2>1, <2>2, DivModUnique
<1>3. (q + 2 * e) % 2 = q % 2
  <2>. HIDE DEF q
  <2>. QED  BY <1>1
<1>. QED  BY <1>2, <1>3 DEF Masked

\* The bits below a power are those of the remainder.
LEMMA LowerPart ==
  ASSUME NEW n \in Int, NEW p \in Nat \ {0}, NEW c \in Nat \ {0}
  PROVE  Masked(n % ((p * 2) * c), p) <=> Masked(n, p)
<1>. DEFINE d == (p * 2) * c
            t == n \div d
            r == n % d
<1>1. d \in Nat \ {0} /\ p * 2 \in Nat
  OBVIOUS
<1>2. t \in Int /\ r \in 0 .. d - 1 /\ n = d * t + r
  <2>. HIDE DEF d
  <2>. QED  BY <1>1, DivMod
<1>. HIDE DEF t, r
<1>3. n = r + (p * 2) * (c * t)
  <2>1. ((p * 2) * c) * t = (p * 2) * (c * t) /\ (p * 2) * (c * t) \in Int
    BY <1>2
  <2>. QED  BY <1>1, <1>2, <2>1
<1>4. c * t \in Int /\ r \in Int
  BY <1>1, <1>2
<1>5. Masked(r + (p * 2) * (c * t), p) <=> Masked(r, p)
  BY <1>4, HigherPart
<1>. QED  BY <1>3, <1>5 DEF r, d

\* A bit of a quotient.
LEMMA ShiftedPart ==
  ASSUME NEW n \in Int, NEW p \in Nat \ {0}, NEW q \in Nat \ {0}
  PROVE  Masked(n \div p, q) <=> Masked(n, p * q)
  BY DivDiv DEF Masked

\* What lies within a power of zero has no bit there, or only signs.
LEMMA SignPart ==
  ASSUME NEW p \in Nat \ {0}, NEW n \in -p .. p - 1
  PROVE  Masked(n, p) <=> n < 0
<1>1. CASE n < 0
  <2>1. n = p * (-1) + (n + p) /\ n + p \in 0 .. p - 1
    BY <1>1
  <2>2. (p * (-1) + (n + p)) \div p = -1
    BY <2>1, DivModUnique
  <2>. QED  BY <1>1, <2>1, <2>2 DEF Masked
<1>2. CASE n >= 0
  <2>1. n = p * 0 + n /\ n \in 0 .. p - 1
    BY <1>2
  <2>2. (p * 0 + n) \div p = 0
    BY <2>1, DivModUnique
  <2>. QED  BY <1>2, <2>1, <2>2 DEF Masked
<1>. QED  BY <1>1, <1>2

\* A power is twice a lower one, times what is left.
LEMMA PowerSplit ==
  ASSUME NEW m \in 0 .. DwordBits, NEW n \in 0 .. m - 1
  PROVE  /\ Two(n) \in Nat \ {0} /\ Two(m - n - 1) \in Nat \ {0}
         /\ Two(m) = (Two(n) * 2) * Two(m - n - 1)
<1>. DEFINE k == m - n - 1
<1>1. DwordBits \in Nat /\ k \in 0 .. DwordBits /\ n \in 0 .. DwordBits
      /\ 1 \in 0 .. DwordBits /\ n + 1 \in 0 .. DwordBits /\ (n + 1) + k = m
      /\ (n + 1) + k <= DwordBits /\ n + 1 <= DwordBits
  BY Powers
<1>. HIDE DEF k
<1>2. Two(n + 1) = Two(n) * Two(1)
  BY <1>1, Powers
<1>3. Two((n + 1) + k) = Two(n + 1) * Two(k)
  BY <1>1, Powers
<1>4. Two(n) \in Nat \ {0} /\ Two(k) \in Nat \ {0} /\ Two(1) = 2
  BY <1>1, Powers
<1>. QED  BY <1>1, <1>2, <1>3, <1>4 DEF k

\* The sizes as powers.
LEMMA SizePowers ==
  LET n == DwordBits \div 4
  IN  /\ n \in Nat \ {0} /\ DwordBits = 4 * n
      /\ Two(n) = ByteSize /\ Two(2 * n) = WordSize /\ Two(4 * n) = DwordSize
<1>. DEFINE n == DwordBits \div 4
<1>1. n \in Nat \ {0} /\ DwordBits = 4 * n
  BY WidthAssumption
<1>2. Two(n) = ByteSize
  BY WidthAssumption DEF Two
<1>. HIDE DEF n
<1>3. n \in 0 .. DwordBits /\ 2 * n \in 0 .. DwordBits /\ n + n = 2 * n
      /\ 2 * n + 2 * n = 4 * n /\ n + n <= DwordBits /\ 2 * n + 2 * n <= DwordBits
  BY <1>1
<1>4. Two(n + n) = Two(n) * Two(n)
  BY <1>3, Powers
<1>5. Two(2 * n + 2 * n) = Two(2 * n) * Two(2 * n)
  BY <1>3, Powers
<1>. QED  BY <1>1, <1>2, <1>3, <1>4, <1>5 DEF n, WordSize, DwordSize

LEMMA TopBit ==
  /\ Top \in Nat /\ Top + 1 = DwordBits /\ Two(DwordBits) = DwordSize
  /\ Two(Top) = Half
<1>1. DwordBits \in Nat \ {0} /\ Top \in 0 .. DwordBits - 1 /\ DwordBits - Top - 1 = 0
      /\ DwordBits \in 0 .. DwordBits /\ Top + 1 = DwordBits
  BY Powers DEF Top
<1>2. Two(DwordBits) = (Two(Top) * 2) * Two(0) /\ Two(Top) \in Nat
  BY <1>1, PowerSplit
<1>3. Two(DwordBits) = DwordSize
  BY SizePowers
<1>4. DwordSize = Half + Half /\ Half \in Nat
  BY HalfDword
<1>. QED  BY <1>1, <1>2, <1>3, <1>4, Powers

\* A bit of an integer is a bit of its dword.
LEMMA DwordBit ==
  ASSUME NEW n \in Int, NEW k \in 0 .. Top
  PROVE  BitOf(ToDword(n), k) <=> BitOf(n, k)
<1>1. k \in 0 .. DwordBits - 1 /\ DwordBits \in 0 .. DwordBits
  BY TopBit
<1>2. /\ Two(k) \in Nat \ {0} /\ Two(DwordBits - k - 1) \in Nat \ {0}
      /\ DwordSize = (Two(k) * 2) * Two(DwordBits - k - 1)
  BY <1>1, PowerSplit, TopBit
<1>. QED  BY <1>2, LowerPart, Powers DEF ToDword

\* NOT.
LEMMA NotBits ==
  ASSUME NEW x \in Dword, NEW k \in 0 .. Top
  PROVE  BitOf(NotD(x), k) <=> ~BitOf(x, k)
<1>. DEFINE p == Two(k)
            e == Two(DwordBits - k - 1)
            q == x \div p
            r == x % p
<1>1. k \in 0 .. DwordBits - 1 /\ DwordBits \in 0 .. DwordBits
  BY TopBit
<1>2. p \in Nat \ {0} /\ e \in Nat \ {0} /\ DwordSize = (p * 2) * e
  BY <1>1, PowerSplit, TopBit
<1>3. x \in Int
  BY SizesPositive DEF Dword
<1>. HIDE DEF p, e
<1>4. q \in Int /\ r \in 0 .. p - 1 /\ x = p * q + r
  BY <1>2, <1>3, DivMod
<1>. HIDE DEF q, r
<1>5. NotD(x) = p * (2 * e - q - 1) + (p - 1 - r)
  <2>1. p * (2 * e - q - 1) = (p * 2) * e - p * q - p /\ p * q \in Int
        /\ (p * 2) * e \in Int
    BY <1>2, <1>4
  <2>. QED  BY <1>2, <1>4, <2>1 DEF NotD
<1>6. NotD(x) \div p = 2 * e - q - 1
  <2>1. 2 * e - q - 1 \in Int /\ p - 1 - r \in 0 .. p - 1
    BY <1>2, <1>4
  <2>. QED  BY <1>2, <1>5, <2>1, DivModUnique
<1>7. (2 * e - q - 1) % 2 = 1 <=> ~(q % 2 = 1)
  BY <1>2, <1>4
<1>8. BitOf(NotD(x), k) <=> (NotD(x) \div p) % 2 = 1
  BY Powers DEF Masked, p
<1>9. BitOf(x, k) <=> q % 2 = 1
  BY Powers DEF Masked, p, q
<1>. QED  BY <1>6, <1>7, <1>8, <1>9

\* SHR: a bit moves down, zeroes come in at the top.
LEMMA ShrBits ==
  ASSUME NEW x \in Dword, NEW n \in 0 .. Top, NEW k \in 0 .. Top
  PROVE  BitOf(x \div 2^n, k) <=> k + n <= Top /\ BitOf(x, k + n)
<1>1. x \in Int /\ x \in Nat /\ x < DwordSize
  BY SizesPositive DEF Dword
<1>2. k \in 0 .. DwordBits /\ n \in 0 .. DwordBits /\ Top \in Nat /\ Top + 1 = DwordBits
  BY TopBit
<1>3. Two(n) \in Nat \ {0} /\ Two(k) \in Nat \ {0}
  BY <1>2, Powers
<1>4. BitOf(x \div 2^n, k) <=> Masked(x, Two(n) * Two(k))
  BY <1>1, <1>3, ShiftedPart, Powers DEF Two
<1>5. CASE k + n <= Top
  <2>1. n + k <= DwordBits /\ n + k = k + n
    BY <1>2, <1>5
  <2>2. Two(n + k) = Two(n) * Two(k)
    BY <1>2, <2>1, Powers
  <2>. QED  BY <1>4, <1>5, <2>1, <2>2, Powers
<1>6. CASE k + n > Top
  <2>. DEFINE y == x \div 2^n
              m == DwordBits - n
  <2>1. m \in 0 .. DwordBits /\ n + m = DwordBits /\ m <= k /\ k - m \in 0 .. DwordBits
        /\ m + (k - m) = k /\ n + m <= DwordBits /\ m + (k - m) <= DwordBits
    BY <1>2, <1>6
  <2>. HIDE DEF m
  <2>2. DwordSize = Two(n) * Two(m) /\ Two(k) = Two(m) * Two(k - m)
    BY <1>2, <2>1, Powers, TopBit
  <2>3. Two(m) \in Nat \ {0} /\ Two(k - m) \in Nat \ {0}
    BY <2>1, Powers
  <2>4. x \in 0 .. Two(m) * Two(n) - 1
    BY <1>1, <1>3, <2>2, <2>3
  <2>5. y \in 0 .. Two(m) - 1
    BY <1>3, <2>3, <2>4, QuotientRange DEF Two
  <2>. HIDE DEF y
  <2>6. Two(m) <= Two(k)
    <3>1. Two(m) * (Two(k - m) - 1) >= 0
          /\ Two(m) * (Two(k - m) - 1) = Two(m) * Two(k - m) - Two(m)
      BY <2>3
    <3>. QED  BY <1>3, <2>2, <2>3, <3>1
  <2>7. y \in -Two(k) .. Two(k) - 1 /\ ~(y < 0)
    BY <1>3, <2>3, <2>5, <2>6
  <2>8. ~Masked(y, Two(k))
    BY <1>3, <2>7, SignPart
  <2>. QED  BY <1>6, <2>8, Powers, <1>2 DEF y
<1>. QED  BY <1>2, <1>5, <1>6

\* The bits of a signed reading are the bits it reads.
LEMMA SignedBits ==
  ASSUME NEW w \in 1 .. DwordBits, NEW x \in 0 .. Two(w) - 1
  PROVE  LET s == Signed(x, Two(w))
         IN  /\ s \in -Two(w - 1) .. Two(w - 1) - 1
             /\ Two(w - 1) \in Nat \ {0}
             /\ \A k \in 0 .. w - 1 : BitOf(s, k) <=> BitOf(x, k)
<1>. DEFINE s == Signed(x, Two(w))
            h == Two(w - 1)
<1>1. DwordBits \in Nat /\ w \in 0 .. DwordBits /\ w - 1 \in 0 .. w - 1
      /\ w - (w - 1) - 1 = 0
  BY Powers
<1>2. h \in Nat \ {0} /\ Two(w) = (h * 2) * Two(0)
  BY <1>1, PowerSplit
<1>3. Two(w) = h + h
  <2>. HIDE DEF h
  <2>. QED  BY <1>2, Powers
<1>4. s = IF x >= h THEN x - (h + h) ELSE x
  <2>1. (h + h) \div 2 = h
    <3>. HIDE DEF h
    <3>. QED  BY <1>2
  <2>. HIDE DEF h
  <2>. QED  BY <1>3, <2>1 DEF Signed
<1>. HIDE DEF s, h
<1>5. s \in -h .. h - 1
  BY <1>2, <1>3, <1>4
<1>6. ASSUME NEW k \in 0 .. w - 1
      PROVE  BitOf(s, k) <=> BitOf(x, k)
  <2>. DEFINE p == Two(k)
              e == Two(w - k - 1)
  <2>1. p \in Nat \ {0} /\ e \in Nat \ {0} /\ Two(w) = (p * 2) * e
    BY <1>1, PowerSplit
  <2>. HIDE DEF p, e
  <2>2. x \in Int /\ -e \in Int
    BY <1>2, <1>3, <2>1
  <2>3. Masked(x + (p * 2) * (-e), p) <=> Masked(x, p)
    BY <2>1, <2>2, HigherPart
  <2>4. x + (p * 2) * (-e) = x - (h + h)
    <3>1. (p * 2) * (-e) = -((p * 2) * e) /\ (p * 2) * e = h + h
      BY <1>3, <2>1
    <3>. QED  BY <1>2, <2>2, <3>1
  <2>5. s = x \/ s = x + (p * 2) * (-e)
    BY <1>4, <2>4
  <2>. QED  BY <2>3, <2>5, Powers DEF p
<1>. QED  BY <1>2, <1>5, <1>6 DEF s, h

\* Above its size a signed number has only its sign.
LEMMA SignFill ==
  ASSUME NEW t \in 0 .. Top, NEW v \in -Two(t) .. Two(t) - 1, NEW k \in t .. Top
  PROVE  BitOf(v, k) <=> v < 0
<1>1. t \in 0 .. DwordBits /\ k - t \in 0 .. DwordBits /\ t + (k - t) = k
      /\ t + (k - t) <= DwordBits /\ k \in 0 .. DwordBits
  BY TopBit
<1>. DEFINE p == Two(t)
            e == Two(k - t)
<1>2. p \in Nat \ {0} /\ e \in Nat \ {0} /\ Two(k) = p * e
  BY <1>1, Powers
<1>3. v \in -p .. p - 1
  OBVIOUS
<1>. HIDE DEF p, e
<1>4. p <= p * e /\ p * e \in Nat \ {0}
  <2>1. p * (e - 1) >= 0 /\ p * (e - 1) = p * e - p
    BY <1>2
  <2>. QED  BY <1>2, <2>1
<1>5. v \in -Two(k) .. Two(k) - 1 /\ Two(k) \in Nat \ {0}
  BY <1>2, <1>3, <1>4
<1>. QED  BY <1>5, SignPart, Powers

\* SHL: a bit moves up, zeroes come in at the bottom.
LEMMA ShlBits ==
  ASSUME NEW x \in Dword, NEW n \in 0 .. Top, NEW k \in 0 .. Top
  PROVE  BitOf(ToDword(x * 2^n), k) <=> k - n \in 0 .. Top /\ BitOf(x, k - n)
<1>. DEFINE p == Two(n)
            y == x * p
<1>1. k \in 0 .. DwordBits /\ n \in 0 .. DwordBits /\ Top \in Nat /\ Top + 1 = DwordBits
  BY TopBit
<1>2. p \in Nat \ {0} /\ Two(k) \in Nat \ {0} /\ x \in Int
  BY <1>1, Powers, SizesPositive DEF Dword
<1>. HIDE DEF p
<1>3. y \in Int
  BY <1>2
<1>4. BitOf(ToDword(y), k) <=> BitOf(y, k)
  <2>. HIDE DEF y
  <2>. QED  BY <1>3, DwordBit
<1>5. CASE k >= n
  <2>1. k - n \in 0 .. DwordBits /\ n + (k - n) = k /\ n + (k - n) <= DwordBits
        /\ k - n \in 0 .. Top
    BY <1>1, <1>5
  <2>2. Two(k) = p * Two(k - n) /\ Two(k - n) \in Nat \ {0}
    BY <1>1, <2>1, Powers DEF p
  <2>3. y \div p = x
    <3>1. y = p * x + 0 /\ 0 \in 0 .. p - 1
      BY <1>2
    <3>. QED  BY <1>2, <3>1, DivModUnique
  <2>. HIDE DEF y
  <2>4. Masked(y \div p, Two(k - n)) <=> Masked(y, p * Two(k - n))
    BY <1>2, <1>3, <2>2, ShiftedPart
  <2>5. BitOf(y, k) <=> BitOf(x, k - n)
    BY <2>2, <2>3, <2>4, Powers
  <2>. QED  BY <1>4, <2>1, <2>5 DEF y, p, Two
<1>6. CASE k < n
  <2>. DEFINE q == Two(k)
              e == Two(n - k - 1)
  <2>1. k \in 0 .. n - 1
    BY <1>1, <1>6
  <2>2. q \in Nat \ {0} /\ e \in Nat \ {0} /\ p = (q * 2) * e
    BY <1>1, <2>1, PowerSplit DEF p
  <2>. HIDE DEF q, e
  <2>. DEFINE z == y - (q * 2) * (e * x)
  <2>3. z = 0 /\ y = z + (q * 2) * (e * x) /\ e * x \in Int
    BY <1>2, <1>3, <2>2
  <2>. HIDE DEF y, z
  <2>4. Masked(z + (q * 2) * (e * x), q) <=> Masked(z, q)
    BY <2>2, <2>3, HigherPart
  <2>5. ~Masked(z, q)
    <3>1. z \in -q .. q - 1 /\ ~(z < 0)
      BY <2>2, <2>3
    <3>. QED  BY <2>2, <3>1, SignPart
  <2>6. ~BitOf(y, k)
    BY <2>3, <2>4, <2>5, Powers DEF q
  <2>7. k - n \notin 0 .. Top
    BY <1>1, <1>6
  <2>. QED  BY <1>4, <2>6, <2>7 DEF y, p, Two
<1>. QED  BY <1>1, <1>5, <1>6

\* SAR: a bit moves down, the sign comes in at the top.
LEMMA SarBits ==
  ASSUME NEW x \in Dword, NEW n \in 0 .. Top, NEW k \in 0 .. Top
  PROVE  BitOf(ToDword(SDword(x) \div 2^n), k)
           <=> BitOf(x, IF k + n < Top THEN k + n ELSE Top)
<1>. DEFINE p == Two(n)
            s == SDword(x)
            y == s \div p
<1>1. k \in 0 .. DwordBits /\ n \in 0 .. DwordBits /\ Top \in Nat /\ Top + 1 = DwordBits
      /\ DwordBits \in 1 .. DwordBits /\ DwordBits - 1 = Top
  BY TopBit
<1>2. /\ p \in Nat \ {0} /\ Two(k) \in Nat \ {0}
      /\ Two(DwordBits) = DwordSize /\ x \in 0 .. Two(DwordBits) - 1
  BY <1>1, Powers, TopBit DEF Dword
<1>3. /\ s \in -Two(Top) .. Two(Top) - 1
      /\ Two(Top) \in Nat \ {0}
      /\ \A j \in 0 .. Top : BitOf(s, j) <=> BitOf(x, j)
  BY <1>1, <1>2, SignedBits DEF SDword
<1>. HIDE DEF p, s
<1>4. s \in Int
  BY <1>3
<1>5. y \in Int /\ s % p \in 0 .. p - 1 /\ s = p * y + (s % p)
  BY <1>2, <1>4, DivMod
<1>6. BitOf(ToDword(y), k) <=> BitOf(y, k)
  <2>. HIDE DEF y
  <2>. QED  BY <1>5, DwordBit
<1>7. CASE k + n < Top
  <2>1. n + k <= DwordBits /\ n + k = k + n /\ k + n \in 0 .. Top
    BY <1>1, <1>7
  <2>2. Two(n + k) = p * Two(k)
    BY <1>1, <2>1, Powers DEF p
  <2>3. Masked(y, Two(k)) <=> Masked(s, p * Two(k))
    BY <1>2, <1>4, ShiftedPart
  <2>4. BitOf(y, k) <=> BitOf(x, k + n)
    <3>. HIDE DEF y
    <3>. QED  BY <1>3, <2>1, <2>2, <2>3, Powers
  <2>. QED  BY <1>6, <1>7, <2>4 DEF y, p, s, Two
<1>8. CASE ~(k + n < Top)
  <2>. DEFINE t == Top - n
              e == Two(t)
              r == s % p
  <2>1. t \in 0 .. DwordBits /\ n + t = Top /\ n + t <= DwordBits /\ t \in 0 .. Top
        /\ k \in t .. Top /\ Top \in 0 .. Top /\ Top \in Top .. Top
    BY <1>1, <1>8
  <2>. HIDE DEF t
  <2>2. e \in Nat \ {0} /\ Two(Top) = p * e
    BY <1>1, <2>1, Powers DEF p
  <2>3. r \in 0 .. p - 1 /\ s = p * y + r
    BY <1>5
  <2>. HIDE DEF y, e, r
  <2>4. p * y \in Int /\ p * e \in Int /\ p * e >= 1
    BY <1>2, <1>3, <1>5, <2>2
  <2>5. y < e
    <3>1. y >= e => p * (y - e) >= 0
      BY <1>2, <1>5, <2>2
    <3>2. p * (y - e) = p * y - p * e
      BY <1>2, <1>5, <2>2
    <3>. QED  BY <1>3, <1>5, <2>2, <2>3, <2>4, <3>1, <3>2
  <2>6. -e <= y
    <3>1. y <= -e - 1 => p * (-e - 1 - y) >= 0
      BY <1>2, <1>5, <2>2
    <3>2. p * (-e - 1 - y) = -(p * e) - p - p * y
      BY <1>2, <1>5, <2>2
    <3>. QED  BY <1>2, <1>3, <1>5, <2>2, <2>3, <2>4, <3>1, <3>2
  <2>7. y < 0 <=> s < 0
    <3>1. y <= -1 => p * (-1 - y) >= 0
      BY <1>2, <1>5
    <3>2. p * (-1 - y) = -p - p * y
      BY <1>2, <1>5
    <3>3. y >= 0 => p * y >= 0
      BY <1>2, <1>5
    <3>. QED  BY <1>2, <1>5, <2>3, <2>4, <3>1, <3>2, <3>3
  <2>8. BitOf(y, k) <=> y < 0
    BY <1>5, <2>1, <2>2, <2>5, <2>6, SignFill DEF e
  <2>9. BitOf(s, Top) <=> s < 0
    BY <1>3, <2>1, SignFill
  <2>10. BitOf(y, k) <=> BitOf(x, Top)
    BY <1>3, <2>1, <2>7, <2>8, <2>9
  <2>. QED  BY <1>6, <1>8, <2>10 DEF y, p, s, Two
<1>. QED  BY <1>7, <1>8

\* SEX: the bit below the size fills the rest.
LEMMA ExtendBits ==
  ASSUME NEW d \in Dword, NEW w \in 1 .. DwordBits, NEW k \in 0 .. Top
  PROVE  BitOf(Extend(d, Two(w)), k) <=> BitOf(d, IF k < w - 1 THEN k ELSE w - 1)
<1>. DEFINE x == d % Two(w)
            s == Signed(x, Two(w))
<1>1. /\ w \in 0 .. DwordBits /\ w - 1 \in 0 .. w - 1 /\ w - 1 \in 0 .. Top
      /\ w - 1 \in w - 1 .. Top /\ d \in Int
  BY TopBit, SizesPositive DEF Dword
<1>2. Two(w) \in Nat \ {0}
  BY <1>1, Powers
<1>3. x \in 0 .. Two(w) - 1
  BY <1>1, <1>2, ModRange
<1>4. ASSUME NEW j \in 0 .. w - 1
      PROVE  BitOf(x, j) <=> BitOf(d, j)
  <2>. DEFINE p == Two(j)
              e == Two(w - j - 1)
  <2>1. p \in Nat \ {0} /\ e \in Nat \ {0} /\ Two(w) = (p * 2) * e
    BY <1>1, PowerSplit
  <2>. HIDE DEF p, e
  <2>2. Masked(d % ((p * 2) * e), p) <=> Masked(d, p)
    BY <1>1, <2>1, LowerPart
  <2>. QED  BY <2>1, <2>2, Powers DEF p
<1>. HIDE DEF x
<1>5. /\ s \in -Two(w - 1) .. Two(w - 1) - 1
      /\ Two(w - 1) \in Nat \ {0}
      /\ \A j \in 0 .. w - 1 : BitOf(s, j) <=> BitOf(x, j)
  BY <1>3, SignedBits
<1>6. Extend(d, Two(w)) = ToDword(s)
  BY DEF Extend, x
<1>. HIDE DEF s
<1>7. s \in Int
  BY <1>5
<1>8. BitOf(ToDword(s), k) <=> BitOf(s, k)
  BY <1>7, DwordBit
<1>9. CASE k < w - 1
  <2>1. k \in 0 .. w - 1
    BY <1>1, <1>9
  <2>. QED  BY <1>4, <1>5, <1>6, <1>8, <1>9, <2>1
<1>10. CASE ~(k < w - 1)
  <2>1. k \in w - 1 .. Top
    BY <1>1, <1>10
  <2>2. (BitOf(s, k) <=> s < 0) /\ (BitOf(s, w - 1) <=> s < 0)
    BY <1>1, <1>5, <2>1, SignFill
  <2>. QED  BY <1>1, <1>4, <1>5, <1>6, <1>8, <1>10, <2>2
<1>. QED  BY <1>9, <1>10

\* The bits of a byte of a dword.
LEMMA ByteBits ==
  ASSUME NEW x \in Dword, NEW j \in 0 .. 3, NEW t \in 0 .. (DwordBits \div 4) - 1
  PROVE  BitOf(Bytes(x)[j], t) <=> BitOf(x, (DwordBits \div 4) * j + t)
<1>. DEFINE n == DwordBits \div 4
            B == ByteSize
            d1 == x \div B
            d2 == d1 \div B
            d3 == d2 \div B
<1>1. n \in Nat \ {0} /\ DwordBits = 4 * n /\ Two(n) = B /\ DwordBits \in Nat
  BY SizePowers
<1>2. B \in Nat \ {0} /\ x \in Int
  BY SizesPositive DEF Dword
<1>3. /\ Bytes(x)[0] = x % B /\ Bytes(x)[1] = d1 % B
      /\ Bytes(x)[2] = d2 % B /\ Bytes(x)[3] = d3 % B
  BY DEF Bytes
<1>. HIDE DEF n, B
<1>4. t \in 0 .. n - 1
  BY DEF n
<1>5. /\ t \in 0 .. DwordBits /\ n \in 0 .. DwordBits
      /\ Two(t) \in Nat \ {0} /\ Two(n - t - 1) \in Nat \ {0}
      /\ B = (Two(t) * 2) * Two(n - t - 1)
  <2>1. t \in 0 .. DwordBits /\ n \in 0 .. DwordBits
    BY <1>1, <1>4
  <2>. QED  BY <1>1, <1>4, <2>1, PowerSplit
<1>6. ASSUME NEW v \in Int
      PROVE  BitOf(v % B, t) <=> BitOf(v, t)
  <2>1. Masked(v % ((Two(t) * 2) * Two(n - t - 1)), Two(t)) <=> Masked(v, Two(t))
    BY <1>5, LowerPart
  <2>. QED  BY <1>5, <2>1, Powers
<1>7. ASSUME NEW m \in 0 .. 3 * n
      PROVE  BitOf(x \div Two(m), t) <=> BitOf(x, m + t)
  <2>1. m \in 0 .. DwordBits /\ m + t <= DwordBits
    BY <1>1, <1>4
  <2>2. Two(m) \in Nat \ {0} /\ Two(m + t) = Two(m) * Two(t)
    BY <1>5, <2>1, Powers
  <2>3. Masked(x \div Two(m), Two(t)) <=> Masked(x, Two(m) * Two(t))
    BY <1>2, <1>5, <2>2, ShiftedPart
  <2>. QED  BY <2>2, <2>3, Powers
<1>8. /\ n \in 0 .. DwordBits /\ 2 * n \in 0 .. DwordBits /\ n + n = 2 * n
      /\ 2 * n + n = 3 * n /\ n + n <= DwordBits /\ 2 * n + n <= DwordBits
      /\ n \in 0 .. 3 * n /\ 2 * n \in 0 .. 3 * n /\ 3 * n \in 0 .. 3 * n
  BY <1>1
<1>9. Two(2 * n) = B * B /\ Two(3 * n) = (B * B) * B
  <2>1. Two(n + n) = Two(n) * Two(n)
    BY <1>8, Powers
  <2>2. Two(2 * n + n) = Two(2 * n) * Two(n)
    BY <1>8, Powers
  <2>. QED  BY <1>1, <1>8, <2>1, <2>2
<1>10. B * B \in Nat \ {0}
  BY <1>2
<1>11. d1 = x \div Two(n) /\ d2 = x \div Two(2 * n) /\ d3 = x \div Two(3 * n)
  <2>1. d2 = x \div (B * B)
    BY <1>2, DivDiv
  <2>2. (x \div (B * B)) \div B = x \div ((B * B) * B)
    BY <1>2, <1>10, DivDiv
  <2>. QED  BY <1>1, <1>9, <2>1, <2>2
<1>. HIDE DEF d1, d2, d3
<1>12. d1 \in Int /\ d2 \in Int /\ d3 \in Int
  BY <1>2, DivMod DEF d1, d2, d3
<1>13. CASE j = 0
  <2>1. BitOf(Bytes(x)[0], t) <=> BitOf(x, t)
    BY <1>2, <1>3, <1>6
  <2>2. n * 0 + t = t
    BY <1>1, <1>4
  <2>. QED  BY <1>13, <2>1, <2>2 DEF n
<1>14. CASE j = 1
  <2>1. BitOf(Bytes(x)[1], t) <=> BitOf(x, n + t)
    BY <1>3, <1>6, <1>7, <1>8, <1>11, <1>12
  <2>2. n * 1 + t = n + t
    BY <1>1, <1>4
  <2>. QED  BY <1>14, <2>1, <2>2 DEF n
<1>15. CASE j = 2
  <2>1. BitOf(Bytes(x)[2], t) <=> BitOf(x, 2 * n + t)
    BY <1>3, <1>6, <1>7, <1>8, <1>11, <1>12
  <2>2. n * 2 + t = 2 * n + t
    BY <1>1, <1>4
  <2>. QED  BY <1>15, <2>1, <2>2 DEF n
<1>16. CASE j = 3
  <2>1. BitOf(Bytes(x)[3], t) <=> BitOf(x, 3 * n + t)
    BY <1>3, <1>6, <1>7, <1>8, <1>11, <1>12
  <2>2. n * 3 + t = 3 * n + t
    BY <1>1, <1>4
  <2>. QED  BY <1>16, <2>1, <2>2 DEF n
<1>. QED  BY <1>13, <1>14, <1>15, <1>16

\* A table of bytes works byte by byte.
LEMMA TableBits ==
  ASSUME NEW T \in [Byte \X Byte -> Byte], NEW x \in Dword, NEW y \in Dword,
         NEW j \in 0 .. 3, NEW t \in 0 .. (DwordBits \div 4) - 1
  PROVE  BitOf(Bytewise(T, x, y), (DwordBits \div 4) * j + t)
           <=> BitOf(T[<<Bytes(x)[j], Bytes(y)[j]>>], t)
<1>. DEFINE b == [k \in 0 .. 3 |-> T[<<Bytes(x)[k], Bytes(y)[k]>>]]
<1>1. x \in Nat /\ y \in Nat
  BY SizesPositive DEF Dword
<1>2. \A k \in 0 .. 3 : b[k] \in Byte
  BY <1>1, BytesType
<1>3. b[0] \in Byte /\ b[1] \in Byte /\ b[2] \in Byte /\ b[3] \in Byte
  BY <1>2
<1>4. Bytewise(T, x, y) = Join(b) /\ b[j] = T[<<Bytes(x)[j], Bytes(y)[j]>>]
  BY DEF Bytewise
<1>. HIDE DEF b
<1>5. Join(b) \in Dword
  BY <1>3, JoinType
<1>6. Bytes(Join(b))[j] = b[j]
  BY <1>2, BytesJoin
<1>. QED  BY <1>4, <1>5, <1>6, ByteBits

LEMMA LogicBits ==
  ASSUME NEW x \in Dword, NEW y \in Dword, NEW k \in 0 .. Top
  PROVE  /\ BitOf(AndD(x, y), k) <=> BitOf(x, k) /\ BitOf(y, k)
         /\ BitOf(OrD(x, y), k) <=> BitOf(x, k) \/ BitOf(y, k)
         /\ BitOf(XorD(x, y), k) <=> (BitOf(x, k) # BitOf(y, k))
<1>. DEFINE n == DwordBits \div 4
            j == k \div n
            t == k % n
            u == Bytes(x)[j]
            v == Bytes(y)[j]
<1>1. n \in Nat \ {0} /\ DwordBits = 4 * n /\ k \in 0 .. 4 * n - 1
  BY SizePowers, TopBit
<1>. HIDE DEF n
<1>2. j \in 0 .. 3 /\ t \in 0 .. n - 1 /\ k = n * j + t
  <2>1. j \in Int /\ t \in 0 .. n - 1 /\ k = n * j + t
    <3>1. k \in Int
      BY <1>1
    <3>. QED  BY <1>1, <3>1, DivMod
  <2>2. k \in 0 .. 4 * n - 1 /\ 4 \in Nat \ {0}
    BY <1>1
  <2>3. j \in 0 .. 4 - 1
    BY <1>1, <2>2, QuotientRange
  <2>. QED  BY <2>1, <2>3
<1>. HIDE DEF j, t
<1>3. u \in Byte /\ v \in Byte
  BY <1>2, BytesType, SizesPositive DEF Dword
<1>4. (BitOf(u, t) <=> BitOf(x, k)) /\ (BitOf(v, t) <=> BitOf(y, k))
  BY <1>2, ByteBits DEF n
<1>. HIDE DEF u, v
<1>5. /\ AndByte \in [Byte \X Byte -> Byte] /\ OrByte \in [Byte \X Byte -> Byte]
      /\ XorByte \in [Byte \X Byte -> Byte]
  BY BitwiseAssumption DEF TableAssumption
<1>6. /\ BitOf(AndByte[<<u, v>>], t) <=> BitOf(u, t) /\ BitOf(v, t)
      /\ BitOf(OrByte[<<u, v>>], t) <=> BitOf(u, t) \/ BitOf(v, t)
      /\ BitOf(XorByte[<<u, v>>], t) <=> (BitOf(u, t) # BitOf(v, t))
  BY <1>2, <1>3, BitwiseAssumption DEF TableAssumption, n
<1>7. /\ BitOf(AndD(x, y), k) <=> BitOf(AndByte[<<u, v>>], t)
      /\ BitOf(OrD(x, y), k) <=> BitOf(OrByte[<<u, v>>], t)
      /\ BitOf(XorD(x, y), k) <=> BitOf(XorByte[<<u, v>>], t)
  BY <1>2, <1>5, TableBits DEF AndD, OrD, XorD, n, u, v
<1>8. BitOf(u, t) \in BOOLEAN /\ BitOf(v, t) \in BOOLEAN
      /\ BitOf(x, k) \in BOOLEAN /\ BitOf(y, k) \in BOOLEAN
  BY DEF BitOf, Masked
<1>. QED  BY <1>4, <1>6, <1>7, <1>8

-----------------------------------------------------------------------------
(* Logic and shifts                                                        *)

\* The bits at the two ends.
LEMMA EndBits ==
  ASSUME NEW x \in Dword
  PROVE  (BitOf(x, Top) <=> SignBit(x)) /\ (BitOf(x, 0) <=> x % 2 = 1)
<1>1. x \in Int /\ x \in 0 .. DwordSize - 1
  BY SizesPositive DEF Dword
<1>2. BitOf(x, 0) <=> x % 2 = 1
  <2>1. x \div 1 = x
    BY <1>1
  <2>. QED  BY <2>1, Powers DEF Masked
<1>3. BitOf(x, Top) <=> SignBit(x)
  <2>1. Half \in Nat \ {0} /\ DwordSize = Half + Half
    BY HalfDword
  <2>2. SignBit(x) <=> x >= Half
    BY DEF SignBit, Half
  <2>3. CASE x >= Half
    <3>. DEFINE q == 1
                r == x - Half
    <3>1. x = Half * q + r /\ r \in 0 .. Half - 1 /\ q \in Int /\ q = 1
      BY <1>1, <2>1, <2>3
    <3>. HIDE DEF q, r
    <3>2. x \div Half = q
      BY <2>1, <3>1, DivModUnique
    <3>3. Masked(x, Half)
      BY <3>1, <3>2 DEF Masked
    <3>. QED  BY <2>2, <2>3, <3>3, Powers, TopBit
  <2>4. CASE x < Half
    <3>1. x \in -Half .. Half - 1 /\ ~(x < 0)
      BY <1>1, <2>1, <2>4
    <3>2. ~Masked(x, Half)
      BY <2>1, <3>1, SignPart
    <3>. QED  BY <1>1, <2>1, <2>2, <2>4, <3>2, Powers, TopBit
  <2>. QED  BY <1>1, <2>1, <2>3, <2>4
<1>. QED  BY <1>2, <1>3

\* What a shift leaves: C, then the result, which may be FLGS.
LEMMA ShiftEffect ==
  ASSUME TypeOK, NEW i, Decoded(i), NEW r, r.c \in BOOLEAN, Shift(i, r)
  PROVE  /\ regs'[i.dst] = r.val
         /\ i.dst = FLGS \/ (Masked(regs'[FLGS], FLGS_C) <=> r.c)
<1>. DEFINE r0 == SetFlag(regs, FLGS_C, r.c)
<1>1. regs \in RegFile /\ i.dst \in Reg /\ FLGS \in Reg
  BY RegNumbers DEF TypeOK, RegFile, Decoded
<1>2. regs' = [r0 EXCEPT ![i.dst] = r.val]
  BY DEF Shift, RegsOnly
<1>3. r0 \in RegFile /\ (Masked(r0[FLGS], FLGS_C) <=> r.c)
  BY <1>1, FlagMasks, FlagRegister
<1>. HIDE DEF r0
<1>. QED  BY <1>1, <1>2, <1>3 DEF RegFile

LEMMA BitsOfLogic ==
  ASSUME TypeOK, [Next]_vars
  PROVE  LogicStep
<1>. SUFFICES
       ASSUME NEW i \in Fetched
       PROVE  LET a == regs[i.opa]
                  b == OpB(i)
                  n == b % DwordBits
                  A(k) == k \in 0 .. Top /\ BitOf(a, k)
                  B(k) == BitOf(b, k)
                  C == Masked(regs'[FLGS], FLGS_C)
                  To(r, Bit(_)) == \A k \in 0 .. Top : BitOf(regs'[r], k) <=> Bit(k)
                  Least(k, l) == IF k < l THEN k ELSE l
              IN  /\ Ran(i, "AND") => To(i.dst, LAMBDA k : A(k) /\ B(k))
                  /\ Ran(i, "OR")  => To(i.dst, LAMBDA k : A(k) \/ B(k))
                  /\ Ran(i, "XOR") => To(i.dst, LAMBDA k : A(k) # B(k))
                  /\ Ran(i, "NOT") => To(i.opa, LAMBDA k : ~BitOf(regs[i.opb], k))
                  /\ Ran(i, "SHL") =>
                       To(i.dst, LAMBDA k : A(k - n)) /\ FlagC(i, C, A(Top))
                  /\ Ran(i, "SHR") =>
                       To(i.dst, LAMBDA k : A(k + n)) /\ FlagC(i, C, A(0))
                  /\ Ran(i, "SAR") =>
                       To(i.dst, LAMBDA k : A(Least(k + n, Top)))
                       /\ FlagC(i, C, A(0))
                  /\ Ran(i, "SEX") /\ i.prefix \in {"BYTE", "WORD"} =>
                       LET narrow == (Width[i.prefix] * DwordBits) \div 4
                       IN  To(i.opa, LAMBDA k : BitOf(regs[i.opb],
                                                      Least(k, narrow - 1)))
  BY DEF LogicStep
<1>. DEFINE a == regs[i.opa]
            b == OpB(i)
            m == regs[i.opb]
            n == b % DwordBits
            A(k) == k \in 0 .. Top /\ BitOf(a, k)
            C == Masked(regs'[FLGS], FLGS_C)
            Least(k, l) == IF k < l THEN k ELSE l
<1>1. /\ Decoded(i) /\ regs \in RegFile /\ i.dst \in Reg /\ i.opa \in Reg
      /\ a \in Dword /\ b \in Dword /\ m \in Dword
  BY DecodedFetched, Operands DEF Decoded, TypeOK, RegFile
<1>2. n \in 0 .. Top /\ n = ShiftCount(b) /\ Top \in Nat /\ Top \in 0 .. Top /\ 0 \in 0 .. Top
  <2>1. b \in Int
    BY <1>1, SizesPositive DEF Dword
  <2>2. n \in 0 .. DwordBits - 1
    BY <2>1, Powers, ModRange
  <2>. QED  BY <2>2, TopBit DEF Top, ShiftCount
<1>3. ASSUME NEW op \in {"AND", "OR", "XOR", "NOT", "SHL", "SHR", "SAR", "SEX"},
             Ran(i, op)
      PROVE  /\ op = "AND" => And(i)
             /\ op = "OR"  => Or(i)
             /\ op = "XOR" => Xor(i)
             /\ op = "NOT" => Not(i)
             /\ op = "SHL" => Shl(i)
             /\ op = "SHR" => Shr(i)
             /\ op = "SAR" => Sar(i)
             /\ op = "SEX" => Sex(i)
  BY <1>3, Counted, Dispatched DEF Opcodes
<1>4. ASSUME NEW r \in Reg, NEW v, regs' = [regs EXCEPT ![r] = v]
      PROVE  regs'[r] = v
  BY <1>1, <1>4 DEF RegFile
<1>5. ASSUME Ran(i, "AND"), NEW k \in 0 .. Top
      PROVE  BitOf(regs'[i.dst], k) <=> A(k) /\ BitOf(b, k)
  <2>1. regs'[i.dst] = AndD(a, b)
    BY <1>1, <1>3, <1>4, <1>5 DEF And, RegsOnly
  <2>. QED  BY <1>1, <2>1, LogicBits
<1>6. ASSUME Ran(i, "OR"), NEW k \in 0 .. Top
      PROVE  BitOf(regs'[i.dst], k) <=> A(k) \/ BitOf(b, k)
  <2>1. regs'[i.dst] = OrD(a, b)
    BY <1>1, <1>3, <1>4, <1>6 DEF Or, RegsOnly
  <2>. QED  BY <1>1, <2>1, LogicBits
<1>7. ASSUME Ran(i, "XOR"), NEW k \in 0 .. Top
      PROVE  BitOf(regs'[i.dst], k) <=> (A(k) # BitOf(b, k))
  <2>1. regs'[i.dst] = XorD(a, b)
    BY <1>1, <1>3, <1>4, <1>7 DEF Xor, RegsOnly
  <2>2. A(k) = BitOf(a, k)
    BY DEF BitOf, Masked
  <2>. QED  BY <1>1, <2>1, <2>2, LogicBits
<1>8. ASSUME Ran(i, "NOT"), NEW k \in 0 .. Top
      PROVE  BitOf(regs'[i.opa], k) <=> ~BitOf(m, k)
  <2>1. regs'[i.opa] = NotD(m)
    BY <1>1, <1>3, <1>4, <1>8 DEF Not, RegsOnly
  <2>. QED  BY <1>1, <2>1, NotBits
<1>9. ASSUME Ran(i, "SHL")
      PROVE  /\ \A k \in 0 .. Top : BitOf(regs'[i.dst], k) <=> A(k - n)
             /\ FlagC(i, C, A(Top))
  <2>. DEFINE r == ShlL(a, b)
  <2>1. Shift(i, r)
    BY <1>3, <1>9 DEF Shl
  <2>2. r.val = ToDword(a * 2^n) /\ r.c = SignBit(a)
    BY <1>2 DEF ShlL, SignBit
  <2>6. r.c \in BOOLEAN
    BY DEF SignBit, ShlL
  <2>. HIDE DEF r
  <2>3. /\ regs'[i.dst] = r.val
        /\ i.dst = FLGS \/ (C <=> r.c)
    BY <1>1, <2>1, <2>6, ShiftEffect
  <2>4. FlagC(i, C, A(Top))
    BY <1>1, <1>2, <2>2, <2>3, EndBits DEF FlagC
  <2>5. \A k \in 0 .. Top : BitOf(ToDword(a * 2^n), k) <=> A(k - n)
    BY <1>1, <1>2, ShlBits
  <2>. QED  BY <2>2, <2>3, <2>4, <2>5
<1>10. ASSUME Ran(i, "SHR")
       PROVE  /\ \A k \in 0 .. Top : BitOf(regs'[i.dst], k) <=> A(k + n)
              /\ FlagC(i, C, A(0))
  <2>. DEFINE r == ShrL(a, b)
  <2>1. Shift(i, r)
    BY <1>3, <1>10 DEF Shr
  <2>2. r.val = a \div 2^n /\ r.c = (a % 2 = 1)
    BY <1>2 DEF ShrL
  <2>6. r.c \in BOOLEAN
    BY DEF ShrL
  <2>. HIDE DEF r
  <2>3. /\ regs'[i.dst] = r.val
        /\ i.dst = FLGS \/ (C <=> r.c)
    BY <1>1, <2>1, <2>6, ShiftEffect
  <2>4. FlagC(i, C, A(0))
    BY <1>1, <1>2, <2>2, <2>3, EndBits DEF FlagC
  <2>5. ASSUME NEW k \in 0 .. Top
        PROVE  BitOf(a \div 2^n, k) <=> A(k + n)
    <3>1. k + n \in 0 .. Top <=> k + n <= Top
      BY <1>2
    <3>. QED  BY <1>1, <1>2, <3>1, ShrBits
  <2>. QED  BY <2>2, <2>3, <2>4, <2>5
<1>11. ASSUME Ran(i, "SAR")
       PROVE  /\ \A k \in 0 .. Top :
                   BitOf(regs'[i.dst], k) <=> A(Least(k + n, Top))
              /\ FlagC(i, C, A(0))
  <2>. DEFINE r == SarL(a, b)
  <2>1. Shift(i, r)
    BY <1>3, <1>11 DEF Sar
  <2>2. r.val = ToDword(SDword(a) \div 2^n) /\ r.c = (a % 2 = 1)
    BY <1>2 DEF SarL
  <2>6. r.c \in BOOLEAN
    BY DEF SarL
  <2>. HIDE DEF r
  <2>3. /\ regs'[i.dst] = r.val
        /\ i.dst = FLGS \/ (C <=> r.c)
    BY <1>1, <2>1, <2>6, ShiftEffect
  <2>4. FlagC(i, C, A(0))
    BY <1>1, <1>2, <2>2, <2>3, EndBits DEF FlagC
  <2>5. ASSUME NEW k \in 0 .. Top
        PROVE  BitOf(ToDword(SDword(a) \div 2^n), k) <=> A(Least(k + n, Top))
    <3>1. Least(k + n, Top) \in 0 .. Top
      BY <1>2
    <3>. QED  BY <1>1, <1>2, <3>1, SarBits
  <2>. QED  BY <2>2, <2>3, <2>4, <2>5
<1>12. ASSUME Ran(i, "SEX"), i.prefix \in {"BYTE", "WORD"}, NEW k \in 0 .. Top
       PROVE  BitOf(regs'[i.opa], k)
                <=> BitOf(m, Least(k, (Width[i.prefix] * DwordBits) \div 4 - 1))
  <2>. DEFINE q == DwordBits \div 4
              w == (Width[i.prefix] * DwordBits) \div 4
              size == IF i.prefix = "BYTE" THEN ByteSize ELSE WordSize
  <2>1. /\ q \in Nat \ {0} /\ DwordBits = 4 * q
        /\ Two(q) = ByteSize /\ Two(2 * q) = WordSize
    BY SizePowers
  <2>2. w \in 1 .. DwordBits /\ size = Two(w)
    <3>. HIDE DEF q
    <3>1. CASE i.prefix = "BYTE"
      <4>1. w = q
        BY <2>1, <3>1 DEF Width
      <4>. QED  BY <2>1, <3>1, <4>1
    <3>2. CASE i.prefix = "WORD"
      <4>1. w = 2 * q
        BY <2>1, <3>2 DEF Width
      <4>. QED  BY <2>1, <3>2, <4>1
    <3>. QED  BY <1>12, <3>1, <3>2
  <2>3. regs' = [regs EXCEPT ![i.opa] = Extend(m, size)]
    BY <1>3, <1>12 DEF Sex, RegsOnly
  <2>4. regs'[i.opa] = Extend(m, size)
    BY <1>1, <1>4, <2>3
  <2>. HIDE DEF w, size
  <2>5. BitOf(Extend(m, Two(w)), k) <=> BitOf(m, IF k < w - 1 THEN k ELSE w - 1)
    BY <1>1, <2>2, ExtendBits
  <2>. QED  BY <2>2, <2>4, <2>5 DEF w
<1>. QED  BY <1>5, <1>6, <1>7, <1>8, <1>9, <1>10, <1>11, <1>12

\* AND, OR, XOR, NOT, the shifts and SEX are right bit by bit, for every number
\* of bits: counts of a dword's width and more are taken modulo it, the
\* arithmetic shift and the sign extension repeat the sign, and C is the bit the
\* code takes from the unshifted operand (ins_and, ins_or, ins_xor, ins_not,
\* ins_shl, ins_shr, ins_sar, ins_sex).
THEOREM LogicExact == Spec => BitwiseExact
<1>1. TypeOK /\ [Next]_vars => [LogicStep]_vars
  BY BitsOfLogic
<1>. QED  BY <1>1, TypeCorrect, PTL DEF Spec, BitwiseExact
=============================================================================
