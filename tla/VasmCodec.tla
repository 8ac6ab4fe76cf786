----------------------------- MODULE VasmCodec ------------------------------
(***************************************************************************)
(* Instructions as text and as bytes: the scanner (vasm.l) and the grammar *)
(* of the assembler (vasm.y) in one direction, the disassembler vdis       *)
(* (lib_vasmdis.c) in the other, both with the name tables of lookup.c.    *)
(*                                                                         *)
(* A source is assembled into a file, the file is disassembled into a      *)
(* listing, four bytes a line, and the listing is assembled again.  Text   *)
(* is abstracted to its tokens; white space and comments are left out.     *)
(***************************************************************************)
EXTENDS VaFormat, Sequences

CONSTANTS
  Sources,   \* programs: sequences of lines, see Accepted
  Garbage    \* bound: bytes vdis reads behind the file's content

-----------------------------------------------------------------------------
(* Names                                                                   *)

Names(table) == {table[k] : k \in DOMAIN table}

\* A table of names by code; an entry without a name has no instruction.
OpNames ==
  <<"STOP", "FAIL", "", "", "IRET", "", "LOADI", "", "STOREMA", "LOADMA", "INT",
    "JMP", "CALL", "STOREAS", "LOADAS", "", "SMUL", "SDIV", "NOT", "", "SEX",
    "MOD", "TEST", "", "CMP", "IN", "MOV", "CMPXCHG", "", "MOVTC", "MOVFC",
    "SAR", "XCHG", "AND", "OR", "XOR", "SHL", "SHR", "LOADID", "LOADRD",
    "STOREID", "STORERD", "ADD", "SUB", "MUL", "DIV", "OUT", "XCHGC">>
CondNames ==
  <<"ALWAYS", "IZ", "NZ", "IS", "NS", "IO", "NO", "IP", "NP", "IZIS", "IZIC",
    "NZNS", "NZNC", "IC", "NC", "NF">>
Reg32Names ==
  <<"R0", "R1", "R2", "R3", "R4", "R5", "R6", "R7", "R8", "R9", "RA", "RB", "RC",
    "BP", "SP", "FLGS">>
Reg16Names ==
  <<"R0L", "R0H", "R1L", "R1H", "R2L", "R2H", "R3L", "R3H", "R4L", "R4H", "R5L",
    "R5H", "R6L", "R6H", "R7L", "R7H">>
Reg8Names ==
  <<"R0LL", "R0LH", "R0HL", "R0HH", "R1LL", "R1LH", "R1HL", "R1HH", "R2LL",
    "R2LH", "R2HL", "R2HH", "R3LL", "R3LH", "R3HL", "R3HH">>
\* ST2, ST3 and ST4 repeat the code of ST1.
CregNames ==
  <<"MR1", "MR2", "CR1", "CR2", "SSP", "MR3", "MR4", "ST1", "ST2", "ST3", "ST4">>

NamesOf == [REG32 |-> Reg32Names, REG16 |-> Reg16Names, REG8 |-> Reg8Names,
            CREG |-> CregNames]

CodeAt(kind, k) == IF kind = "CREG" /\ k > 8 THEN 7 ELSE k - 1

\* get_op_for_name: an unknown name is STOP.
OpCode(name) ==
  LET at == {k \in DOMAIN OpNames : OpNames[k] = name}
  IN  IF at = {} THEN 0 ELSE (CHOOSE k \in at : TRUE) - 1

CondCode(name) == (CHOOSE k \in DOMAIN CondNames : CondNames[k] = name) - 1

\* get_reg_for_name and its like, by width: an unknown name is R0, R0L, R0LL or
\* CR1.
CodeOf(kind, name) ==
  LET at == {k \in DOMAIN NamesOf[kind] : NamesOf[kind][k] = name}
  IN  IF at = {} THEN (IF kind = "CREG" THEN 2 ELSE 0)
      ELSE CodeAt(kind, CHOOSE k \in at : TRUE)

\* get_name_of_op, get_name_of_reg and its like: the first entry of a code.
NotAName == "N/A"
OpName(code) ==
  IF code + 1 \in DOMAIN OpNames /\ OpNames[code + 1] # "" THEN OpNames[code + 1]
  ELSE NotAName
NameOf(kind, code) ==
  IF code < IF kind = "CREG" THEN 8 ELSE 16 THEN NamesOf[kind][code + 1]
  ELSE NotAName
\* Fault: the name before.
PreviousCondName(code) == CondNames[IF code = 0 THEN 1 ELSE code]
CondName(code) == CondNames[code + 1]

-----------------------------------------------------------------------------
(* The scanner                                                             *)

\* Operands as written: names, numbers and register ranges.  lower: written
\* with small letters.
Name(n)            == [lex |-> "NAME", name |-> n]
Hex(v)             == [lex |-> "HEX", val |-> v]
Dec(v)             == [lex |-> "DEC", val |-> v]
RegRange(s, e, small) == [lex |-> "RANGE", start |-> s, end |-> e, lower |-> small]

\* Names of the tables; N/A stands for all others.
OperandNames == {NotAName} \cup UNION {Names(NamesOf[kind]) : kind \in DOMAIN NamesOf}
Operand ==
  [lex : {"NAME"}, name : OperandNames]
    \cup [lex : {"HEX"}, val : Nat] \cup [lex : {"DEC"}, val : Int]
    \cup [lex : {"RANGE"}, start : Names(Reg32Names), end : Names(Reg32Names),
          lower : BOOLEAN]

\* reg_range_to16bit_int looks both names up as written, so a small letter makes
\* them unknown.
RangeInt(o) ==
  LET code(n) == IF o.lower THEN 0 ELSE CodeOf("REG32", n)
  IN  Pair(code(o.start), code(o.end))

\* Values of an INT are words: hexToDec, to16BitInt.
InRange(o) ==
  /\ o.lex = "HEX" => o.val \in 0 .. WordSize - 1
  /\ o.lex = "DEC" => o.val \in -(WordSize \div 2) .. WordSize \div 2 - 1

IntOf(o) == IF o.lex = "RANGE" THEN RangeInt(o) ELSE o.val % WordSize

\* The kind of an operand's token; GARBAGE is a name no rule of the scanner has.
KindOf(o) ==
  IF o.lex # "NAME" THEN "INT"
  ELSE LET kinds == {k \in DOMAIN NamesOf :
                       \E n \in DOMAIN NamesOf[k] : NamesOf[k][n] = o.name}
       IN  IF kinds = {} THEN "GARBAGE" ELSE CHOOSE k \in kinds : TRUE

-----------------------------------------------------------------------------
(* The grammar                                                             *)

\* A rule of exp: operands of these kinds go into these fields.
Rule(ops, kinds, prefix, slots) ==
  [ops |-> ops, kinds |-> kinds, prefix |-> prefix, slots |-> slots]

FmtI    == {"IRET", "STOP"}
FmtII   == {"ADD", "AND", "DIV", "OR", "MOD", "MUL", "SAR", "SDIV", "SHL", "SHR",
            "SMUL", "SUB", "XOR"}
FmtIV   == {"LOADMA", "STOREMA"}
FmtV    == {"CALL", "JMP", "TEST"}
FmtVI   == {"CMP", "IN", "NOT", "OUT", "XCHG"}
FmtVIC  == {"MOVTC", "MOVFC"}
FmtVIII == {"FAIL", "INT"}
AddressSpace == {"STOREAS", "LOADAS"}

DwordRules ==
  {Rule(FmtI, << >>, "DWORD", << >>),
   Rule(FmtII \cup {"CMPXCHG"}, <<"REG32", "REG32", "REG32">>, "DWORD",
        <<"dst", "opa", "opb">>),
   Rule(FmtV \cup AddressSpace, <<"REG32">>, "DWORD", <<"dst">>),
   Rule(FmtVI, <<"REG32", "REG32">>, "DWORD", <<"opa", "opb">>),
   Rule(FmtVIC, <<"CREG", "REG32">>, "DWORD", <<"opa", "opb">>),
   Rule(FmtVIC \cup {"XCHGC"}, <<"REG32", "CREG">>, "DWORD", <<"opa", "opb">>)}

\* Loads, stores and moves of a register of kind k.
LoadRules(k, prefix) ==
  {Rule({"LOADID"}, <<k, "REG32", "INT">>, prefix, <<"dst", "opa", "imm12">>),
   Rule({"LOADRD"}, <<k, "REG32", "REG32">>, prefix, <<"dst", "opa", "opb">>)}
StoreRules(k, prefix) ==
  {Rule({"STOREID"}, <<"REG32", k, "INT">>, prefix, <<"dst", "opa", "imm12">>),
   Rule({"STORERD"}, <<"REG32", k, "REG32">>, prefix, <<"dst", "opa", "opb">>)}
WidthRules(k, prefix) ==
  LoadRules(k, prefix) \cup StoreRules(k, prefix)
    \cup {Rule({"MOV"}, <<k, k>>, prefix, <<"opa", "opb">>)}

\* What only words and bytes have.
NarrowRules(k, prefix) ==
  WidthRules(k, prefix)
    \cup {Rule({"LOADI"}, <<k, "INT">>, prefix, <<"dst", "imm16">>),
          Rule({"SEX"}, <<"REG32", k>>, prefix, <<"opa", "opb">>)}

ImmediateRules ==
  {Rule(FmtII, <<"REG32", "REG32", "INT">>, "IMM", <<"dst", "opa", "imm12">>),
   Rule(FmtIV, <<"REG32", "INT">>, "IMM", <<"dst", "imm16">>),
   Rule({"CMP"}, <<"REG32", "INT">>, "IMM", <<"opa", "imm12">>),
   Rule(FmtV \cup FmtVIII, <<"INT">>, "IMM", <<"imm16">>)}

Grammar == DwordRules \cup WidthRules("REG32", "DWORD")
           \cup NarrowRules("REG16", "WORD") \cup NarrowRules("REG8", "BYTE")
           \cup ImmediateRules

PrefixNames == <<"DWORD", "WORD", "BYTE", "IMM">>
PrefixCode(p) == (CHOOSE k \in DOMAIN PrefixNames : PrefixNames[k] = p) - 1

\* A line: an instruction, or the raw bytes of .byte and its like.
Instruction(op, cond, operands) ==
  [op |-> op, cond |-> cond, operands |-> operands]
Raw(bytes) == [bytes |-> bytes]
IsRaw(line) == "bytes" \in DOMAIN line

Line == [op : Names(OpNames) \cup {NotAName}, cond : Names(CondNames),
         operands : Seq(Operand)]
          \cup [bytes : Seq(0 .. 255)]

\* The name tables and the numbers below are those of the source's width.
ASSUME CodecAssumption ==
  NReg = 16 /\ Sources \subseteq Seq(Line) /\ Garbage \subseteq 0 .. 255

RulesFor(line) ==
  {r \in Grammar :
     /\ line.op \in r.ops
     /\ r.kinds = [k \in DOMAIN line.operands |-> KindOf(line.operands[k])]
     /\ line.op \in AddressSpace => line.cond = "ALWAYS"}

\* The tables the operands are looked up in.  Two rules with a condition name
\* another one than the operand's own.
Tables(r, line) ==
  IF line.cond # "ALWAYS" /\ line.op = "LOADRD" /\ r.prefix = "WORD"
  THEN <<"REG8", "REG32", "REG16">>
  ELSE IF line.cond # "ALWAYS" /\ line.op = "XCHGC" THEN <<"REG32", "REG8">>
  ELSE r.kinds

\* What field f of the instruction receives: 0 when it has no such field.
FieldValue(r, line, f) ==
  LET at == {k \in DOMAIN r.slots : r.slots[k] = f}
      k  == CHOOSE n \in at : TRUE
      o  == line.operands[k]
  IN  IF at = {} THEN 0
      ELSE IF o.lex = "NAME" THEN CodeOf(Tables(r, line)[k], o.name) ELSE IntOf(o)

\* Fault: no check that an immediate fits into 12 bits.
UncheckedAccepted(line) ==
  ~IsRaw(line) =>
    /\ \A k \in DOMAIN line.operands : InRange(line.operands[k])
    /\ RulesFor(line) # {}
\* The line is accepted: a rule has its form, its numbers are in the scanner's
\* range and an immediate of 12 bits has no more (checkIfValid12Bit).
Accepted(line) ==
  ~IsRaw(line) =>
    /\ \A k \in DOMAIN line.operands : InRange(line.operands[k])
    /\ \E r \in RulesFor(line) : FieldValue(r, line, "imm12") < NReg * ByteSize

Encoded(line) ==
  LET r     == CHOOSE rule \in RulesFor(line) : TRUE
      val(f) == FieldValue(r, line, f)
      has(f) == \E k \in DOMAIN r.slots : r.slots[k] = f
      first == PrefixCode(r.prefix) * 64 + OpCode(line.op)
      cond  == CondCode(line.cond)
  IN  CASE has("imm12") -> Imm12Format(first, cond, val("dst"), val("opa"), val("imm12"))
        [] has("imm16") -> Imm16Format(first, cond, val("dst"), val("imm16"))
        [] OTHER -> RegFormat(first, cond, val("dst"), val("opa"), val("opb"))

BytesOf(line) ==
  IF IsRaw(line) THEN line.bytes ELSE [k \in 1 .. 4 |-> Encoded(line)[k - 1]]

-----------------------------------------------------------------------------
(* The disassembler                                                        *)

\* A form of a listing: these fields, printed as these kinds.
Form(ops, kinds, fields) == [ops |-> ops, kinds |-> kinds, fields |-> fields]

DwordForms ==
  {Form(FmtII \cup {"LOADRD", "STORERD", "CMPXCHG"}, <<"REG32", "REG32", "REG32">>,
        <<"dst", "opa", "opb">>),
   Form(FmtV \cup AddressSpace, <<"REG32">>, <<"dst">>),
   Form(FmtVI \cup {"MOV"}, <<"REG32", "REG32">>, <<"opa", "opb">>),
   Form({"LOADID", "STOREID"}, <<"REG32", "REG32", "INT">>, <<"dst", "opa", "imm12">>),
   Form({"MOVTC"}, <<"CREG", "REG32">>, <<"opa", "opb">>),
   Form({"XCHGC", "MOVFC"}, <<"REG32", "CREG">>, <<"opa", "opb">>)}

NarrowForms(k) ==
  {Form({"LOADI"}, <<k, "INT">>, <<"dst", "imm16">>),
   Form({"LOADID"}, <<k, "REG32", "INT">>, <<"dst", "opa", "imm12">>),
   Form({"LOADRD"}, <<k, "REG32", "REG32">>, <<"dst", "opa", "opb">>),
   Form({"MOV"}, <<k, k>>, <<"opa", "opb">>),
   Form({"SEX"}, <<"REG32", k>>, <<"opa", "opb">>),
   Form({"STOREID"}, <<"REG32", k, "INT">>, <<"dst", "opa", "imm12">>),
   Form({"STORERD"}, <<"REG32", k, "REG32">>, <<"dst", "opa", "opb">>)}

ImmediateForms ==
  {Form(FmtII, <<"REG32", "REG32", "INT">>, <<"dst", "opa", "imm12">>),
   Form({"CMP"}, <<"REG32", "INT">>, <<"opa", "imm12">>),
   Form(FmtV \cup FmtVIII, <<"INT">>, <<"imm16">>),
   Form(FmtIV, <<"REG32", "INT">>, <<"dst", "imm16">>)}

Forms == [DWORD |-> DwordForms, WORD |-> NarrowForms("REG16"),
          BYTE |-> NarrowForms("REG8"), IMM |-> ImmediateForms]

\* vasmdis_disasm_instruction.  An instruction without a form has its operands
\* replaced by a comment.
Listed(b) ==
  LET f     == Fields(b)
      op    == OpName(b[0] % 64)
      forms == {g \in Forms[PrefixNames[b[0] \div 64 + 1]] : op \in g.ops}
      form  == CHOOSE g \in forms : TRUE
      text(kind, v) == IF kind = "INT" THEN Hex(v) ELSE Name(NameOf(kind, v))
  IN  Instruction(op, CondName(f.cond),
                  IF forms = {} THEN << >>
                  ELSE [k \in DOMAIN form.kinds |->
                          text(form.kinds[k], f[form.fields[k]])])

-----------------------------------------------------------------------------
VARIABLES
  source,    \* the program
  file,      \* bytes vasm has emitted
  listing,   \* lines vdis has printed
  again,     \* bytes vasm has emitted for the listing
  at,        \* lines the running assembler has read
  phase,     \* assembling, listing, reassembling, done or rejected
  overread   \* vdis has read behind the file's content and its terminating NUL

vars == <<source, file, listing, again, at, phase, overread>>

Init ==
  /\ source \in Sources
  /\ file = << >> /\ listing = << >> /\ again = << >> /\ at = 0
  /\ phase = "assembling" /\ overread = FALSE

\* The next line of a text the assembler reads; a text without any is a syntax
\* error (exps).
Assembles(text) == at < Len(text) /\ Accepted(text[at + 1]) /\ at' = at + 1
Rejects(text) ==
  /\ text = << >> \/ (at < Len(text) /\ ~Accepted(text[at + 1]))
  /\ phase' = "rejected"
  /\ UNCHANGED <<source, file, listing, again, at, overread>>
AllRead(text) == text # << >> /\ at = Len(text)

Assemble ==
  /\ phase = "assembling" /\ Assembles(source)
  /\ file' = file \o BytesOf(source[at + 1])
  /\ UNCHANGED <<source, listing, again, phase, overread>>
AssembleFails == phase = "assembling" /\ Rejects(source)
AssembleEnds ==
  /\ phase = "assembling" /\ AllRead(source)
  /\ phase' = "listing"
  /\ UNCHANGED <<source, file, listing, again, at, overread>>

\* vdis: the loop over pos.  The last line may read behind the content: first
\* the NUL g_file_load_contents appends, then anything.
Pos == 4 * Len(listing)
\* Fault: one turn more.
ListsMoreInclusive == Pos <= Len(file)
ListsMore == Pos < Len(file)

Disassemble ==
  /\ phase = "listing" /\ ListsMore
  /\ \E g \in Garbage :
       listing' = Append(listing, Listed([k \in 0 .. 3 |->
         CASE Pos + k < Len(file) -> file[Pos + k + 1]
           [] Pos + k = Len(file) -> 0
           [] Pos + k > Len(file) -> g]))
  /\ overread' = (overread \/ Pos + 3 > Len(file))
  /\ UNCHANGED <<source, file, again, at, phase>>
DisassembleEnds ==
  /\ phase = "listing" /\ ~ListsMore
  /\ phase' = "reassembling" /\ at' = 0
  /\ UNCHANGED <<source, file, listing, again, overread>>

Reassemble ==
  /\ phase = "reassembling" /\ Assembles(listing)
  /\ again' = again \o BytesOf(listing[at + 1])
  /\ UNCHANGED <<source, file, listing, phase, overread>>
ReassembleFails == phase = "reassembling" /\ Rejects(listing)
ReassembleEnds ==
  /\ phase = "reassembling" /\ AllRead(listing)
  /\ phase' = "done"
  /\ UNCHANGED <<source, file, listing, again, at, overread>>

Next ==
  \/ Assemble \/ AssembleFails \/ AssembleEnds
  \/ Disassemble \/ DisassembleEnds
  \/ Reassemble \/ ReassembleFails \/ ReassembleEnds

Spec == Init /\ [][Next]_vars
=============================================================================
