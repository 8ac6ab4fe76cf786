---------------------------- MODULE MCVasmCodec -----------------------------
(***************************************************************************)
(* Sources for VasmCodec at the width of the VA: every rule of the grammar *)
(* with every name, condition and corner number, raw words, and short      *)
(* programs of lines of different sizes.                                   *)
(***************************************************************************)
EXTENDS VasmCodecProps

\* The name n of a kind, counted around.
Around(kind, n) == NamesOf[kind][(n % Len(NamesOf[kind])) + 1]

\* Operands of a rule: the k-th register is name n + k of its kind, a number is v.
Operands(r, n, v) ==
  [k \in DOMAIN r.kinds |-> IF r.kinds[k] = "INT" THEN v
                            ELSE Name(Around(r.kinds[k], n + k))]

Numbers(r) ==
  IF \A k \in DOMAIN r.kinds : r.kinds[k] # "INT" THEN {Hex(0)}
  ELSE {Hex(0), Hex(35), Hex(4095), Hex(4096), Hex(61593), Hex(65536), Dec(-1),
        Dec(32768), RegRange("R0", "R5", FALSE), RegRange("RB", "FLGS", FALSE),
        RegRange("R0", "R5", TRUE)}

\* One instruction: every rule and operation, with every name and condition.
Lines ==
  UNION {{Instruction(op, cond, Operands(r, n, v)) :
            op \in r.ops, cond \in {"ALWAYS", CondNames[n]}, v \in Numbers(r)} :
         r \in Grammar, n \in 1 .. 16}
\* Lines no rule accepts.
WrongLines ==
  {Instruction("MOVTC", "ALWAYS", <<Name("R1"), Name("R2")>>),
   Instruction("XCHG", "IZ", <<Name("R1"), Hex(3)>>),
   Instruction("LOADI", "ALWAYS", <<Name("R1"), Hex(3)>>)}

\* Words that are not what the assembler emits.
Words == {Raw(<<b0, b1, b2, b3>>) :
            b0 \in 0 .. 255, b1 \in {0, 19, 248}, b2 \in {0, 25, 41, 247}, b3 \in {0, 165}}

\* Programs of up to three lines that need not be four bytes each.
Pieces == {Raw(<<>>), Raw(<<6>>), Raw(<<70, 1>>), Raw(<<1, 2, 3>>),
           Instruction("STOP", "NZ", << >>),
           Instruction("STOREMA", "ALWAYS", <<Name("SP"), RegRange("RC", "BP", FALSE)>>),
           Instruction("CMP", "IS", <<Name("RA"), Hex(291)>>)}

MCSources ==
  {<< >>} \cup {<<line>> : line \in Lines \cup WrongLines \cup Words}
    \cup {<<a, b, c>> : a \in Pieces, b \in Pieces, c \in Pieces}
=============================================================================
