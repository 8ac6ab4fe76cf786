------------------------------ MODULE MCVaCpu -------------------------------
(***************************************************************************)
(* Instances of VaCpu for TLC, of two sizes.  Arithmetic and programs have *)
(* four registers, 4-bit bytes and 16-bit dwords, the largest whose        *)
(* products TLC can count; a byte then has room for sixteen opcodes, so    *)
(* each run brings a table of its own.  Everything else has eight          *)
(* registers, 6-bit bytes and 24-bit dwords.                               *)
(***************************************************************************)
EXTENDS VaCpuProps

\* The table of a logical operator on the bytes.
TableOf(Op(_, _)) ==
  [p \in Byte \X Byte |-> CHOOSE z \in Byte : \A n \in 0 .. DwordBits \div 4 - 1 :
     BitOf(z, n) <=> Op(BitOf(p[1], n), BitOf(p[2], n))]
MCAndByte == TableOf(LAMBDA p, q : p /\ q)
MCOrByte  == TableOf(LAMBDA p, q : p \/ q)
MCXorByte == TableOf(LAMBDA p, q : p # q)

\* Opcode tables.  First byte 0 is STOP, as in the source: zeroed memory stops.
OpTable(seq) == [b \in Byte |-> IF b \in DOMAIN seq
                                THEN [op |-> seq[b][1], prefix |-> seq[b][2]]
                                ELSE [op |-> "STOP", prefix |-> "DWORD"]]

ArithOps == OpTable(<<
  <<"ADD", "DWORD">>, <<"SUB", "DWORD">>, <<"SMUL", "DWORD">>,
  <<"MUL", "DWORD">>, <<"CMP", "DWORD">>, <<"CMP", "IMM">>, <<"DIV", "DWORD">>,
  <<"DIV", "IMM">>, <<"SDIV", "DWORD">>, <<"MOD", "DWORD">>, <<"MOD", "IMM">>,
  <<"SHL", "DWORD">>, <<"SHL", "IMM">>, <<"SHR", "DWORD">>, <<"SAR", "DWORD">> >>)

\* First bytes 1 to 15 access memory and parts of registers, 16 to 30 move
\* control and talk to ports, 31 to 40 act bit by bit.
MachineOps == OpTable(<<
  <<"LOADID", "DWORD">>, <<"LOADID", "WORD">>, <<"LOADID", "BYTE">>,
  <<"STOREID", "DWORD">>, <<"STOREID", "WORD">>, <<"STOREID", "BYTE">>,
  <<"LOADRD", "WORD">>, <<"STORERD", "DWORD">>, <<"STORERD", "BYTE">>,
  <<"LOADMA", "IMM">>, <<"STOREMA", "IMM">>, <<"CMPXCHG", "DWORD">>,
  <<"MOV", "WORD">>, <<"MOV", "BYTE">>, <<"LOADI", "WORD">>,
  <<"JMP", "IMM">>, <<"JMP", "DWORD">>, <<"CALL", "IMM">>, <<"CALL", "DWORD">>,
  <<"FAIL", "IMM">>, <<"IN", "DWORD">>, <<"OUT", "DWORD">>, <<"TEST", "DWORD">>,
  <<"MOVTC", "DWORD">>, <<"MOVFC", "DWORD">>, <<"XCHG", "DWORD">>,
  <<"XCHGC", "DWORD">>, <<"IRET", "DWORD">>, <<"LOADI", "BYTE">>,
  <<"MOV", "IMM">>,
  <<"AND", "DWORD">>, <<"OR", "DWORD">>, <<"XOR", "DWORD">>, <<"NOT", "DWORD">>,
  <<"AND", "IMM">>, <<"SEX", "BYTE">>, <<"SEX", "WORD">>, <<"SEX", "DWORD">>,
  <<"TEST", "IMM">>, <<"CMPXCHG", "WORD">> >>)

\* Which conditions the values of a condition field stand for.
NoConds    == [f \in Reg |-> "ALWAYS"]
OrderConds == [f \in Reg |-> IF f = 0 THEN "ALWAYS"
                             ELSE <<"IZIC", "NZNS", "NF">>[((f - 1) % 3) + 1]]

\* Register files that differ in R0, R1 and FLGS.
FilesOver(vals, flags) ==
  {[r \in Reg |-> CASE r = 0 -> a [] r = 1 -> b [] r = FLGS -> f
                    [] OTHER -> InitSP] : a \in vals, b \in vals, f \in flags}

\* Corner values of a dword; addresses, one of which is a port beyond the last.
ArithRegs   == FilesOver({0, 1, 5, 32767, 32768, 65535}, {0, 63})
MachineRegs == FilesOver({0, 8, 10, 40, DwordSize - 2}, {0, 9, 18})
ZeroCregs   == {[r \in Reg |-> 0]}

\* Images of one instruction (zeroes, which stop, follow it), and of two.
Instructions(firsts, seconds, thirds, fourths) ==
  {<<b1, b2, b3, b4>> : b1 \in firsts, b2 \in seconds, b3 \in thirds, b4 \in fourths}
Pairs(is, js) == {i \o j : i \in is, j \in js}

ArithImages == Instructions(1 .. 15, {0, FLGS}, Byte, {15})

\* Operands with every way to alias, the stack pointer and the flags included.
Operands == {Pair(a, b) : a, b \in {0, 1, SP, FLGS}}
MemoryImages  == Instructions(1 .. 15, {1, FLGS}, Operands, {0, 1, 9})
LogicImages   == Instructions(31 .. 40, {0, FLGS}, Operands, {5})
\* Two instructions under conditions, a FAIL of a multiple of a byte, and an
\* image longer than the memory behind LoadAddr.
ControlImages == Pairs(Instructions(16 .. 30, {1, Pair(1, RC), Pair(2, FLGS)},
                                    {6, 9, 56}, {0, 63}),
                       Instructions({16, 20, 28}, {0, Pair(1, 0)}, {12}, {0}))
                 \cup {<<20, 0, 0, 63>>, [k \in 1 .. 25 |-> 16]}
MachineImages == MemoryImages \cup LogicImages \cup ControlImages
=============================================================================
