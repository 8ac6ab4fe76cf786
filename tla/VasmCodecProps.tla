--------------------------- MODULE VasmCodecProps ---------------------------
(***************************************************************************)
(* What the assembler and the disassembler promise together.               *)
(***************************************************************************)
EXTENDS VasmCodec

TypeOK ==
  /\ file \in Seq(0 .. 255) /\ again \in Seq(0 .. 255) /\ overread \in BOOLEAN
  /\ at \in 0 .. Len(source) \cup 0 .. Len(listing)
  /\ phase \in {"assembling", "listing", "reassembling", "done", "rejected"}
  /\ \A k \in DOMAIN listing : listing[k].cond \in {CondNames[n] : n \in 1 .. 16}

Finished == phase \in {"reassembling", "done"} \/ (phase = "rejected" /\ listing # << >>)
OnlyInstructions == \A k \in DOMAIN source : ~IsRaw(source[k])

\* What an operand says to its reader: names and values, however spelled.
NumberOf(name) == (CHOOSE k \in DOMAIN Reg32Names : Reg32Names[k] = name) - 1
Meaning(o) ==
  CASE o.lex = "NAME" -> o
    [] o.lex = "RANGE" -> Hex(Pair(NumberOf(o.start), NumberOf(o.end)))
    [] OTHER -> Hex(o.val % WordSize)
MeaningOf(line) ==
  [line EXCEPT !.operands = [k \in DOMAIN @ |-> Meaning(@[k])]]

\* The operands of a move of a control register in the other order, which the
\* grammar accepts, and the instruction then takes for what they are not.
Backward(line) ==
  \/ line.op = "MOVTC" /\ KindOf(line.operands[1]) = "REG32"
  \/ line.op = "MOVFC" /\ KindOf(line.operands[1]) = "CREG"

\* The other forms of which the assembler reads an operand as another one: a
\* condition on LOADRD with a word register or on XCHGC (vasm.y:570, 836), a
\* control register that shares its code (lookup.c:94) and a register range in
\* small letters (vasm.l:97).
OtherTable(line) ==
  /\ line.cond # "ALWAYS"
  /\ \/ line.op = "XCHGC"
     \/ line.op = "LOADRD" /\ KindOf(line.operands[1]) = "REG16"
SharedCode(line) ==
  \E k \in DOMAIN line.operands :
    line.operands[k].lex = "NAME" /\ line.operands[k].name \in {"ST2", "ST3", "ST4"}
SmallRange(line) ==
  \E k \in DOMAIN line.operands :
    line.operands[k].lex = "RANGE" /\ line.operands[k].lower
Misread(line) ==
  Backward(line) \/ OtherTable(line) \/ SharedCode(line) \/ SmallRange(line)

\* What vdis prints for an assembled program is the program: the listing the
\* test of the Makefile (test-vasm, compare.sh) compares with its source, here
\* for every instruction, condition, name and number of the grammar, the misread
\* forms excepted (emit_fmt_*, vasmdis_disasm_instruction, lookup.c).
ListingIsSource ==
  Finished /\ OnlyInstructions =>
    /\ Len(listing) = Len(source)
    /\ \A k \in DOMAIN source :
         Misread(source[k]) \/ listing[k] = MeaningOf(source[k])

\* The assembler accepts what vdis prints of its own output, and emits the same
\* file again, the misread forms included but for the backward moves: they are
\* misread only once (vasm.y, vasmdis_disasm_instruction).
Reassembles ==
  /\ Finished /\ OnlyInstructions
  /\ \A k \in DOMAIN source : ~Backward(source[k])
  => phase # "rejected" /\ (phase = "done" => again = file)

\* The assembler accepts what vdis prints of any bytes, unless they are no
\* instruction the grammar knows: no form of operands, a control register without
\* a name, or a condition on an instruction the grammar has without one
\* (decode_instruction_arguments, get_name_of_creg, vasm.y:848).
Readable(b) ==
  LET line == Listed(b)
  IN  /\ line.op # NotAName
      /\ line.operands = << >> => line.op \in FmtI
      /\ \A k \in DOMAIN line.operands :
           line.operands[k].lex = "NAME" => line.operands[k].name # NotAName
      /\ line.op \in AddressSpace => line.cond = "ALWAYS"

\* The k-th four bytes of a file.
QuadAt(bytes, k) == [j \in 0 .. 3 |-> bytes[4 * k - 3 + j]]

\* What vdis lists of arbitrary whole words is stable: the assembler reads each
\* readable line, and what it emits for it lists as the same line (the unused
\* bits of a word being lost), the misread forms excepted.
ListingStable ==
  Finished /\ Len(file) = 4 =>
    /\ phase = "rejected" => ~Readable(QuadAt(file, 1))
    /\ phase = "done" =>
         /\ Readable(QuadAt(file, 1))
         /\ Misread(listing[1]) \/ Listed(QuadAt(again, 1)) = listing[1]

\* vdis lists every byte of the file, and reads behind its content and the NUL
\* that follows it only when one or two bytes remain for the last line (the loop
\* of vdis.c, vasmdis_bytes_to_instruction).
OverreadsOnlyOddSizes ==
  /\ overread => Len(file) % 4 \in {1, 2}
  /\ Finished => 4 * Len(listing) \in Len(file) .. Len(file) + 3

-----------------------------------------------------------------------------
(* What the documents say and the code does not do                         *)

\* A line is encoded with the operands it names, which is more than
\* ListingIsSource says.  registers.tex:48: ST1 to ST4 are four registers
\* (lookup.c).  instructionset.tex:24, 277: a condition says whether an
\* instruction is executed, not on what (the rules of exp with a CONDITION).
\* start.tex:19, vasm.l:41: the syntax is case-insensitive, so a register range
\* in small letters is the range it is in capitals (reg_range_to16bit_int).
OperandsAsWritten ==
  Finished /\ OnlyInstructions =>
    \A k \in DOMAIN source :
      Backward(source[k]) \/ listing[k] = MeaningOf(source[k])
=============================================================================
