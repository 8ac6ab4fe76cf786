------------------------------ MODULE VaFormat ------------------------------
(***************************************************************************)
(* The formats of the VA's instructions: how the assembler packs fields    *)
(* into the four bytes of an instruction (emit.c) and how they are taken   *)
(* out again (decode.c, and lib_vasmdis.c in the same words).  A byte is   *)
(* two fields of NReg values, so that NReg = 16 is the VA of the source.   *)
(* The first byte, opcode and prefix, is left as it is.                    *)
(***************************************************************************)
EXTENDS Integers

CONSTANT NReg  \* values of a field that names a register: 16 in the source

ByteSize == NReg * NReg
WordSize == ByteSize * ByteSize

\* Four registers R0.. share their bytes with the byte registers, so the
\* fields come in fours.
ASSUME FieldAssumption == NReg \in Nat /\ NReg >= 4 /\ NReg % 4 = 0

\* The bytes of an instruction, the first byte at index 0.
Quad(b0, b1, b2, b3) == [k \in 0 .. 3 |-> <<b0, b1, b2, b3>>[k + 1]]

\* (hi << 4) | lo
Pair(hi, lo) == hi * NReg + lo

\* emit_fmt_ii; I, V and VI leave fields 0.
RegFormat(first, cond, dst, a, b) ==
  Quad(first, Pair(cond, dst), Pair(a, b), 0)

\* Fault: the immediate's low byte before its high bits.
SwappedImm12Format(first, cond, dst, a, imm) ==
  Quad(first, Pair(cond, dst), Pair(a, imm % NReg), imm \div NReg)

\* emit_fmt_iii; VII leaves dst 0.  The immediate is big endian.
Imm12Format(first, cond, dst, a, imm) ==
  Quad(first, Pair(cond, dst), Pair(a, imm \div ByteSize), imm % ByteSize)

\* emit_fmt_iv; VIII leaves dst 0.  The immediate is little endian.
Imm16Format(first, cond, dst, imm) ==
  Quad(first, Pair(cond, dst), imm % ByteSize, imm \div ByteSize)

\* Fault: the immediate of two bytes taken out big endian.
BigEndianFields(b) ==
  [cond  |-> b[1] \div NReg,  dst |-> b[1] % NReg,
   opa   |-> b[2] \div NReg,  opb |-> b[2] % NReg,
   imm16 |-> b[2] * ByteSize + b[3],
   imm12 |-> (b[2] % NReg) * ByteSize + b[3]]

\* All fields, whether the instruction's format has them or not.
Fields(b) ==
  [cond  |-> b[1] \div NReg,  dst |-> b[1] % NReg,
   opa   |-> b[2] \div NReg,  opb |-> b[2] % NReg,
   imm16 |-> b[3] * ByteSize + b[2],
   imm12 |-> (b[2] % NReg) * ByteSize + b[3]]
=============================================================================
