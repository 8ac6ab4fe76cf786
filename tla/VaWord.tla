------------------------------- MODULE VaWord -------------------------------
(***************************************************************************)
(* The data of the VA: bytes, words of two bytes and dwords of four, the   *)
(* conversions between them and the arithmetic unit.  Every width follows  *)
(* from NReg, the number of values of a field of VaFormat: NReg = 16 is    *)
(* the VA of the source (8/16/32 bits); NReg = 4 is a VA with 4-bit bytes  *)
(* and 16-bit dwords, small enough for TLC.  Nothing below depends on      *)
(* which of them it is.                                                    *)
(***************************************************************************)
EXTENDS VaFormat, FiniteSets

CONSTANTS
  DwordBits,  \* bits of a dword: 32 in the source
  AndByte,    \* the C operators & | ^ on two bytes, as tables
  OrByte,
  XorByte

DwordSize == WordSize * WordSize

Byte  == 0 .. ByteSize - 1
Word  == 0 .. WordSize - 1
Dword == 0 .. DwordSize - 1

\* The dword registers, and those with a role.
Reg  == 0 .. NReg - 1
RC   == NReg - 4
SP   == NReg - 2
FLGS == NReg - 1

\* A byte has a quarter of the bits of a dword, the flags need six, and the
\* bytes of all registers fit into the address space.
ASSUME WidthAssumption ==
  /\ DwordBits \in Nat \ {0} /\ DwordBits % 4 = 0
  /\ 2^(DwordBits \div 4) = ByteSize
  /\ DwordSize % 64 = 0
  /\ 4 * NReg <= DwordSize

\* Laws of powers, true of all numbers: the provers know nothing of 2^n.
ASSUME PowerAssumption ==
  /\ 2^0 = 1 /\ 2^1 = 2
  /\ \A n \in 0 .. DwordBits : 2^n \in Nat \ {0}
  /\ \A m, n \in 0 .. DwordBits : m + n <= DwordBits => 2^(m + n) = 2^m * 2^n

\* Bit n of a natural number, as a truth value and as the mask 2^n selects it.
Masked(v, mask) == (v \div mask) % 2 = 1
BitOf(v, n) == Masked(v, 2^n)

TableAssumption(T, Op(_, _)) ==
  /\ T \in [Byte \X Byte -> Byte]
  /\ \A x, y \in Byte : \A n \in 0 .. (DwordBits \div 4) - 1 :
       BitOf(T[<<x, y>>], n) <=> Op(BitOf(x, n), BitOf(y, n))

ASSUME BitwiseAssumption ==
  /\ TableAssumption(AndByte, LAMBDA p, q : p /\ q)
  /\ TableAssumption(OrByte,  LAMBDA p, q : p \/ q)
  /\ TableAssumption(XorByte, LAMBDA p, q : p # q)

-----------------------------------------------------------------------------
(* Bytes and dwords                                                        *)

\* The four bytes of a dword, the lowest first.
Bytes(d) ==
  LET d1 == d  \div ByteSize
      d2 == d1 \div ByteSize
      d3 == d2 \div ByteSize
  IN  [k \in 0 .. 3 |-> <<d, d1, d2, d3>>[k + 1] % ByteSize]

\* The dword of four bytes.
Join(b) == b[0] + ByteSize * (b[1] + ByteSize * (b[2] + ByteSize * b[3]))

\* Two's complement: a value below size read as signed, and back.
Signed(n, size) == IF n >= size \div 2 THEN n - size ELSE n
\* Fault: the operands of a signed comparison left unsigned.
UnsignedSDword(d) == d
SDword(d)   == Signed(d, DwordSize)
ToDword(n)  == n % DwordSize
SignBit(d)  == d >= DwordSize \div 2

Bytewise(T, x, y) == Join([k \in 0 .. 3 |-> T[<<Bytes(x)[k], Bytes(y)[k]>>]])
AndD(x, y) == Bytewise(AndByte, x, y)
OrD(x, y)  == Bytewise(OrByte, x, y)
XorD(x, y) == Bytewise(XorByte, x, y)
NotD(x)    == DwordSize - 1 - x

-----------------------------------------------------------------------------
(* Flags: one bit each of the register FLGS                                *)

FLGS_Z == 1
FLGS_C == 2
FLGS_O == 4
FLGS_P == 8
FLGS_S == 16
FLGS_E == 32

\* Fault: the &= ~mask forgotten.
StickyWithFlag(f, mask, on) == IF on /\ ~Masked(f, mask) THEN f + mask ELSE f

\* f |= mask when on, f &= ~mask otherwise.
WithFlag(f, mask, on) ==
  (f - (IF Masked(f, mask) THEN mask ELSE 0)) + (IF on THEN mask ELSE 0)

\* The condition field of an instruction against the flags f.
Conditions == {"ALWAYS", "IZ", "NZ", "IS", "NS", "IO", "NO", "IP", "NP",
               "IZIS", "IZIC", "NZNS", "NZNC", "IC", "NC", "NF"}

CondHolds(cond, f) ==
  LET z == Masked(f, FLGS_Z)  c == Masked(f, FLGS_C)  o == Masked(f, FLGS_O)
      p == Masked(f, FLGS_P)  s == Masked(f, FLGS_S)  e == Masked(f, FLGS_E)
  IN  \/ cond = "ALWAYS"
      \/ (cond = "IZ" /\ z) \/ (cond = "NZ" /\ ~z)
      \/ (cond = "IS" /\ s) \/ (cond = "NS" /\ ~s)
      \/ (cond = "IO" /\ o) \/ (cond = "NO" /\ ~o)
      \/ (cond = "IP" /\ p) \/ (cond = "NP" /\ ~p)
      \/ (cond = "IC" /\ c) \/ (cond = "NC" /\ ~c)
      \/ (cond = "IZIS" /\ (z \/ s))
      \/ (cond = "NZNS" /\ ~z /\ ~s)
      \/ (cond = "IZIC" /\ (z \/ c))
      \/ (cond = "NZNC" /\ ~z /\ ~c)
      \/ (cond = "NF" /\ ~z /\ ~c /\ ~s /\ ~o /\ ~p /\ ~e)

-----------------------------------------------------------------------------
(* Arithmetic: the dword result and the flags the instruction derives      *)

AddL(a, b) ==
  LET sum == ToDword(a + b)
  IN  [val |-> sum, c |-> a + b >= DwordSize,
       o |-> SignBit(a) = SignBit(b) /\ SignBit(sum) # SignBit(a)]

SubL(a, b) ==
  LET diff == ToDword(a - b)
  IN  [val |-> diff, c |-> a < b,
       o |-> SignBit(a) # SignBit(b) /\ SignBit(diff) # SignBit(a)]

\* The qword product a * b exceeds DWORD_MAX.  SDword(b) is congruent to b,
\* which keeps TLC's integers small.
MulL(a, b) ==
  [val |-> ToDword(a * SDword(b)),
   c   |-> b # 0 /\ a > (DwordSize - 1) \div b]

SMulL(a, b) ==
  LET prod == SDword(a) * SDword(b)
  IN  [val |-> ToDword(prod), o |-> SDword(ToDword(prod)) # prod]

\* Fault: division rounding down instead of toward zero.
FloorQuotient(x, y) == IF y < 0 THEN (-x) \div (-y) ELSE x \div y

\* Division of C rounds toward zero.
Quotient(x, y) ==
  LET abs(n) == IF n < 0 THEN -n ELSE n
      q == abs(x) \div abs(y)
  IN  IF (x < 0) = (y < 0) THEN q ELSE -q

\* For b # 0, in 64 bits: an overflowing quotient is flagged and zeroed.
SDivL(a, b) ==
  LET q == Quotient(SDword(a), SDword(b))
      over == SDword(ToDword(q)) # q
  IN  [val |-> IF over THEN 0 ELSE ToDword(q), o |-> over]

ShiftCount(b) == b % DwordBits
ShlL(a, b) == [val |-> ToDword(a * 2^ShiftCount(b)), c |-> SignBit(a)]
ShrL(a, b) == [val |-> a \div 2^ShiftCount(b), c |-> a % 2 = 1]
\* Fault: the arithmetic shift fills with zeroes.
LogicalSarL(a, b) == [val |-> a \div 2^ShiftCount(b), c |-> a % 2 = 1]
SarL(a, b) == [val |-> ToDword(SDword(a) \div 2^ShiftCount(b)), c |-> a % 2 = 1]

OddParity(v) == Cardinality({n \in 0 .. DwordBits - 1 : BitOf(v, n)}) % 2 = 1

\* Fault: the extension forgotten.
ZeroExtend(d, size) == d % size
\* Sign extension of the low part of d, size values wide.
Extend(d, size) == ToDword(Signed(d % size, size))
=============================================================================
