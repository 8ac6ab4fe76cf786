--------------------------- MODULE VaFormatProofs ---------------------------
(***************************************************************************)
(* What the assembler packs into an instruction is what the CPU and the    *)
(* disassembler take out of it, for every width of a field; and the facts  *)
(* about division this rests on.                                           *)
(***************************************************************************)
EXTENDS VaFormat, TLAPS

-----------------------------------------------------------------------------
(* Quotients and remainders                                                *)

LEMMA DivMod ==
  ASSUME NEW n \in Int, NEW d \in Nat \ {0}
  PROVE  /\ n \div d \in Int /\ n % d \in 0 .. d - 1
         /\ n = d * (n \div d) + (n % d)
<1>1. n \div d \in Int
  OBVIOUS
<1>2. n % d \in 0 .. d - 1
  OBVIOUS
<1>3. n = d * (n \div d) + (n % d)
  OBVIOUS
<1>. QED  BY <1>1, <1>2, <1>3

LEMMA MultipleInside ==
  ASSUME NEW d \in Nat \ {0}, NEW k \in Int, -d < d * k, d * k < d
  PROVE  k = 0
<1>1. CASE k >= 1
  <2>1. d * k >= d
    BY <1>1
  <2>. QED  BY <2>1
<1>2. CASE k <= -1
  <2>1. d * k <= -d
    BY <1>2
  <2>. QED  BY <2>1
<1>. QED  BY <1>1, <1>2

LEMMA DivModUnique ==
  ASSUME NEW d \in Nat \ {0}, NEW q \in Int, NEW r \in 0 .. d - 1
  PROVE  (d * q + r) % d = r /\ (d * q + r) \div d = q
<1>. DEFINE n == d * q + r
            u == n \div d
            v == n % d
<1>1. n \in Int /\ d * q \in Int
  OBVIOUS
<1>2. u \in Int /\ v \in 0 .. d - 1 /\ n = d * u + v
  <2>. HIDE DEF n
  <2>. QED  BY <1>1, DivMod
<1>. HIDE DEF u, v
<1>3. d * (q - u) = d * q - d * u /\ d * u \in Int
  BY <1>2
<1>4. d * (q - u) = v - r
  BY <1>1, <1>2, <1>3
<1>5. q - u = 0
  <2>1. q - u \in Int /\ -d < v - r /\ v - r < d
    BY <1>2
  <2>. QED  BY <1>4, <2>1, MultipleInside
<1>6. u = q /\ v = r
  <2>1. u = q
    BY <1>2, <1>5
  <2>. QED  BY <1>1, <1>2, <2>1
<1>. QED  BY <1>6 DEF u, v

\* A remainder may be taken early.
LEMMA ModEarly ==
  ASSUME NEW x \in Int, NEW y \in Int, NEW d \in Nat \ {0}
  PROVE  ((x % d) + y) % d = (x + y) % d
<1>. DEFINE a == x \div d
            b == x % d
            u == (b + y) \div d
            v == (b + y) % d
<1>1. a \in Int /\ b \in Int /\ x = d * a + b
  BY DivMod
<1>. HIDE DEF a, b
<1>2. u \in Int /\ v \in 0 .. d - 1 /\ b + y = d * u + v
  BY <1>1, DivMod
<1>. HIDE DEF u, v
<1>3. d * (a + u) = d * a + d * u /\ d * a \in Int /\ d * u \in Int
  BY <1>1, <1>2
<1>4. x + y = d * (a + u) + v
  BY <1>1, <1>2, <1>3
<1>5. (d * (a + u) + v) % d = v
  <2>1. a + u \in Int
    BY <1>1, <1>2
  <2>. QED  BY <1>2, <2>1, DivModUnique
<1>. QED  BY <1>4, <1>5 DEF v, b

\* What is below m times d has a quotient below m.
LEMMA QuotientRange ==
  ASSUME NEW m \in Nat \ {0}, NEW d \in Nat \ {0}, NEW n \in 0 .. m * d - 1
  PROVE  n \div d \in 0 .. m - 1
<1>. DEFINE u == n \div d
            v == n % d
<1>1. m * d \in Nat /\ m * d = d * m /\ n \in Int /\ n >= 0 /\ n < m * d
  OBVIOUS
<1>2. u \in Int /\ v \in 0 .. d - 1 /\ n = d * u + v
  BY <1>1, DivMod
<1>. HIDE DEF u, v
<1>3. u >= 0
  <2>1. CASE u <= -1
    <3>1. d * u <= -d /\ d * u \in Int
      BY <1>2, <2>1
    <3>. QED  BY <1>1, <1>2, <3>1
  <2>. QED  BY <1>2, <2>1
<1>4. u <= m - 1
  <2>1. CASE u >= m
    <3>1. d * u >= d * m /\ d * u \in Int
      BY <1>2, <2>1
    <3>. QED  BY <1>1, <1>2, <3>1
  <2>. QED  BY <1>2, <2>1
<1>. QED  BY <1>2, <1>3, <1>4 DEF u

-----------------------------------------------------------------------------
(* Fields                                                                  *)

Field == 0 .. NReg - 1

LEMMA FieldSizes ==
  /\ NReg \in Nat \ {0} /\ ByteSize \in Nat \ {0} /\ WordSize \in Nat \ {0}
  /\ NReg <= ByteSize
<1>1. NReg \in Nat \ {0} /\ NReg >= 1
  BY FieldAssumption
<1>2. NReg * NReg \in Nat \ {0} /\ NReg <= NReg * NReg
  BY <1>1
<1>3. ByteSize \in Nat \ {0} /\ NReg <= ByteSize
  BY <1>2 DEF ByteSize
<1>4. ByteSize * ByteSize \in Nat \ {0}
  BY <1>3
<1>. QED  BY <1>1, <1>3, <1>4 DEF WordSize

\* Two fields in a byte.
LEMMA PairFields ==
  ASSUME NEW hi \in Field, NEW lo \in Field
  PROVE  /\ Pair(hi, lo) \in 0 .. ByteSize - 1
         /\ Pair(hi, lo) \div NReg = hi /\ Pair(hi, lo) % NReg = lo
<1>1. hi \in 0 .. NReg - 1 /\ lo \in 0 .. NReg - 1 /\ NReg \in Nat \ {0}
  BY FieldSizes DEF Field
<1>2. hi * NReg + lo = NReg * hi + lo
  BY <1>1
<1>3. (NReg * hi + lo) \div NReg = hi /\ (NReg * hi + lo) % NReg = lo
  BY <1>1, DivModUnique
<1>4. NReg * hi + lo \in 0 .. NReg * NReg - 1
  <2>1. NReg * hi <= NReg * (NReg - 1) /\ NReg * hi \in Nat
    BY <1>1
  <2>2. NReg * (NReg - 1) = NReg * NReg - NReg /\ NReg * NReg \in Nat
    BY <1>1
  <2>. QED  BY <1>1, <2>1, <2>2
<1>. QED  BY <1>2, <1>3, <1>4 DEF Pair, ByteSize

LEMMA DigitField ==
  ASSUME NEW imm \in 0 .. NReg * ByteSize - 1
  PROVE  imm \div ByteSize \in Field /\ imm % ByteSize \in 0 .. ByteSize - 1
<1>1. NReg \in Nat \ {0} /\ ByteSize \in Nat \ {0} /\ NReg * ByteSize \in Nat
  BY FieldSizes
<1>2. imm \div ByteSize \in 0 .. NReg - 1
  BY <1>1, QuotientRange
<1>3. imm \in Int
  BY <1>1
<1>. QED  BY <1>1, <1>2, <1>3, DivMod DEF Field

LEMMA QuadBytes ==
  ASSUME NEW b0, NEW b1, NEW b2, NEW b3
  PROVE  LET q == Quad(b0, b1, b2, b3)
         IN  q[0] = b0 /\ q[1] = b1 /\ q[2] = b2 /\ q[3] = b3
  BY DEF Quad

\* An instruction of registers (emit_fmt_i, ii, v and vi, and the decoder's
\* DST, OPA and OPB): every register comes back.
THEOREM RegFormatDecodes ==
  ASSUME NEW first, NEW cond \in Field, NEW dst \in Field, NEW a \in Field,
         NEW b \in Field
  PROVE  LET f == Fields(RegFormat(first, cond, dst, a, b))
         IN  f.cond = cond /\ f.dst = dst /\ f.opa = a /\ f.opb = b
<1>. DEFINE q == RegFormat(first, cond, dst, a, b)
<1>1. q[1] = Pair(cond, dst) /\ q[2] = Pair(a, b)
  BY QuadBytes DEF RegFormat
<1>. HIDE DEF q
<1>. QED  BY <1>1, PairFields DEF Fields, q

\* An instruction with a 12-bit immediate (emit_fmt_iii and vii, IMM12): every
\* register and all of the immediate come back.
THEOREM Imm12FormatDecodes ==
  ASSUME NEW first, NEW cond \in Field, NEW dst \in Field, NEW a \in Field,
         NEW imm \in 0 .. NReg * ByteSize - 1
  PROVE  LET f == Fields(Imm12Format(first, cond, dst, a, imm))
         IN  f.cond = cond /\ f.dst = dst /\ f.opa = a /\ f.imm12 = imm
<1>. DEFINE q == Imm12Format(first, cond, dst, a, imm)
            u == imm \div ByteSize
            v == imm % ByteSize
<1>1. q[1] = Pair(cond, dst) /\ q[2] = Pair(a, u) /\ q[3] = v
  BY QuadBytes DEF Imm12Format
<1>2. u \in Field /\ v \in 0 .. ByteSize - 1
  BY DigitField
<1>3. imm = ByteSize * u + v
  <2>1. imm \in Int /\ ByteSize \in Nat \ {0}
    BY FieldSizes
  <2>. QED  BY <2>1, DivMod
<1>. HIDE DEF q, u, v
<1>4. u * ByteSize + v = imm
  BY <1>2, <1>3, FieldSizes DEF Field
<1>5. q[2] \div NReg = a /\ q[2] % NReg = u /\ q[1] \div NReg = cond /\ q[1] % NReg = dst
  BY <1>1, <1>2, PairFields
<1>. QED  BY <1>1, <1>4, <1>5 DEF Fields, q

\* An instruction with a 16-bit immediate (emit_fmt_iv and viii, IMM16): the
\* immediate, little endian here, comes back whole.
THEOREM Imm16FormatDecodes ==
  ASSUME NEW first, NEW cond \in Field, NEW dst \in Field,
         NEW imm \in 0 .. WordSize - 1
  PROVE  LET f == Fields(Imm16Format(first, cond, dst, imm))
         IN  f.cond = cond /\ f.dst = dst /\ f.imm16 = imm
<1>. DEFINE q == Imm16Format(first, cond, dst, imm)
            u == imm \div ByteSize
            v == imm % ByteSize
<1>1. q[1] = Pair(cond, dst) /\ q[2] = v /\ q[3] = u
  BY QuadBytes DEF Imm16Format
<1>2. imm = ByteSize * u + v /\ u \in Int /\ v \in Int
  <2>1. imm \in Int /\ ByteSize \in Nat \ {0}
    BY FieldSizes
  <2>. QED  BY <2>1, DivMod
<1>. HIDE DEF q, u, v
<1>3. u * ByteSize + v = imm
  BY <1>2, FieldSizes
<1>4. q[1] \div NReg = cond /\ q[1] % NReg = dst
  BY <1>1, PairFields
<1>. QED  BY <1>1, <1>3, <1>4 DEF Fields, q
=============================================================================
