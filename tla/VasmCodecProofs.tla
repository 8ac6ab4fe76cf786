-------------------------- MODULE VasmCodecProofs ---------------------------
(***************************************************************************)
(* Text and bytes at the width of the VA, for every source: the listing of *)
(* an assembled file is its source, the listing assembles to the same file *)
(* again, and what vdis prints of any word is stable.                      *)
(***************************************************************************)
EXTENDS VasmCodecProps, VaFormatProofs, SequenceTheorems

-----------------------------------------------------------------------------
(* The name tables                                                         *)

TableKinds == {"REG32", "REG16", "REG8", "CREG"}

\* Codes of the names of a kind.
Codes(kind) == IF kind = "CREG" THEN 0 .. 7 ELSE 0 .. 15

LEMMA TableSizes ==
  /\ DOMAIN NamesOf = TableKinds
  /\ NamesOf["REG32"] = Reg32Names /\ DOMAIN Reg32Names = 1 .. 16
  /\ NamesOf["REG16"] = Reg16Names /\ DOMAIN Reg16Names = 1 .. 16
  /\ NamesOf["REG8"] = Reg8Names /\ DOMAIN Reg8Names = 1 .. 16
  /\ NamesOf["CREG"] = CregNames /\ DOMAIN CregNames = 1 .. 11
<1>1. DOMAIN NamesOf = TableKinds
  BY DEF NamesOf, TableKinds
<1>2. /\ NamesOf["REG32"] = Reg32Names /\ NamesOf["REG16"] = Reg16Names
      /\ NamesOf["REG8"] = Reg8Names /\ NamesOf["CREG"] = CregNames
  BY DEF NamesOf
<1>3. DOMAIN Reg32Names = 1 .. 16 /\ DOMAIN Reg16Names = 1 .. 16
  BY DEF Reg32Names, Reg16Names
<1>4. DOMAIN Reg8Names = 1 .. 16 /\ DOMAIN CregNames = 1 .. 11
  BY DEF Reg8Names, CregNames
<1>. QED  BY <1>1, <1>2, <1>3, <1>4

\* No name stands twice in the tables.
LEMMA NamesDiffer ==
  ASSUME NEW k \in TableKinds, NEW l \in TableKinds,
         NEW m \in DOMAIN NamesOf[k], NEW n \in DOMAIN NamesOf[l],
         NamesOf[k][m] = NamesOf[l][n]
  PROVE  k = l /\ m = n
<1>1. CASE k = "REG32"
  BY <1>1, TableSizes DEF TableKinds, Reg32Names, Reg16Names, Reg8Names, CregNames
<1>2. CASE k = "REG16"
  BY <1>2, TableSizes DEF TableKinds, Reg32Names, Reg16Names, Reg8Names, CregNames
<1>3. CASE k = "REG8"
  BY <1>3, TableSizes DEF TableKinds, Reg32Names, Reg16Names, Reg8Names, CregNames
<1>4. CASE k = "CREG"
  BY <1>4, TableSizes DEF TableKinds, Reg32Names, Reg16Names, Reg8Names, CregNames
<1>. QED  BY <1>1, <1>2, <1>3, <1>4 DEF TableKinds

\* What a look-up by name yields is a code, also for an unknown name.
LEMMA CodeType ==
  ASSUME NEW kind \in TableKinds, NEW name
  PROVE  CodeOf(kind, name) \in Codes(kind)
<1>. DEFINE hits == {k \in DOMAIN NamesOf[kind] : NamesOf[kind][k] = name}
<1>1. DOMAIN NamesOf[kind] = IF kind = "CREG" THEN 1 .. 11 ELSE 1 .. 16
  BY TableSizes DEF TableKinds
<1>2. CASE hits = {}
  BY <1>2 DEF CodeOf, Codes
<1>3. CASE hits # {}
  <2>1. (CHOOSE k \in hits : TRUE) \in hits
    BY <1>3
  <2>2. PICK n : n = CHOOSE k \in hits : TRUE
    OBVIOUS
  <2>3. n \in DOMAIN NamesOf[kind]
    BY <2>1, <2>2
  <2>4. CodeOf(kind, name) = CodeAt(kind, n)
    BY <1>3, <2>2 DEF CodeOf
  <2>. QED  BY <1>1, <2>3, <2>4 DEF CodeAt, Codes
<1>. QED  BY <1>2, <1>3

\* The n-th name of a table has the code n - 1, and this code has that name;
\* all but the names of control registers that repeat a code.
LEMMA NameCode ==
  ASSUME NEW kind \in TableKinds, NEW n \in DOMAIN NamesOf[kind],
         kind = "CREG" => n <= 8
  PROVE  /\ CodeOf(kind, NamesOf[kind][n]) = n - 1
         /\ NameOf(kind, n - 1) = NamesOf[kind][n]
<1>. DEFINE name == NamesOf[kind][n]
            hits == {k \in DOMAIN NamesOf[kind] : NamesOf[kind][k] = name}
<1>1. n \in 1 .. 16
  BY TableSizes DEF TableKinds
<1>2. hits = {n}
  BY NamesDiffer
<1>3. (CHOOSE k \in hits : TRUE) = n
  BY <1>2
<1>4. CodeOf(kind, name) = CodeAt(kind, n)
  BY <1>2, <1>3 DEF CodeOf
<1>5. CodeAt(kind, n) = n - 1
  BY <1>1 DEF CodeAt
<1>6. NameOf(kind, n - 1) = NamesOf[kind][n]
  BY <1>1 DEF NameOf
<1>. QED  BY <1>4, <1>5, <1>6

\* The other way round: each code has a name, which has that code.
LEMMA CodeName ==
  ASSUME NEW kind \in TableKinds, NEW c \in Codes(kind)
  PROVE  /\ c + 1 \in DOMAIN NamesOf[kind] /\ NameOf(kind, c) = NamesOf[kind][c + 1]
         /\ CodeOf(kind, NameOf(kind, c)) = c
<1>1. c + 1 \in DOMAIN NamesOf[kind] /\ c \in 0 .. 15 /\ (kind = "CREG" => c + 1 <= 8)
  BY TableSizes DEF TableKinds, Codes
<1>. QED  BY <1>1, NameCode, (c + 1) - 1 = c

\* A name is scanned as the kind of the table that has it.
LEMMA NameKind ==
  ASSUME NEW kind \in TableKinds, NEW n \in DOMAIN NamesOf[kind]
  PROVE  KindOf(Name(NamesOf[kind][n])) = kind
<1>. DEFINE name == NamesOf[kind][n]
            kinds == {k \in DOMAIN NamesOf :
                        \E m \in DOMAIN NamesOf[k] : NamesOf[k][m] = name}
<1>1. kinds = {kind}
  BY TableSizes, NamesDiffer
<1>2. KindOf(Name(name)) = CHOOSE k \in kinds : TRUE
  BY <1>1 DEF KindOf, Name
<1>. QED  BY <1>1, <1>2

\* What the scanner takes an operand for.
LEMMA OperandKind ==
  ASSUME NEW o
  PROVE  /\ o.lex # "NAME" <=> KindOf(o) = "INT"
         /\ KindOf(o) \in TableKinds =>
              \E n \in DOMAIN NamesOf[KindOf(o)] : NamesOf[KindOf(o)][n] = o.name
<1>. DEFINE kinds == {k \in DOMAIN NamesOf :
                        \E m \in DOMAIN NamesOf[k] : NamesOf[k][m] = o.name}
<1>1. CASE o.lex # "NAME"
  BY <1>1 DEF KindOf, TableKinds
<1>2. CASE o.lex = "NAME" /\ kinds = {}
  BY <1>2 DEF KindOf, TableKinds
<1>3. CASE o.lex = "NAME" /\ kinds # {}
  <2>1. (CHOOSE k \in kinds : TRUE) \in kinds
    BY <1>3
  <2>2. KindOf(o) = CHOOSE k \in kinds : TRUE
    BY <1>3 DEF KindOf
  <2>. QED  BY <1>3, <2>1, <2>2, TableSizes DEF TableKinds
<1>. QED  BY <1>1, <1>2, <1>3

-----------------------------------------------------------------------------
(* The rules of the grammar and the forms of the listing                   *)

Kinds == TableKinds \cup {"INT"}
Numeric == {"imm12", "imm16"}
RegSlots == {"dst", "opa", "opb"}

\* What a rule does with its operands follows from their kinds: numbers go into
\* an immediate, registers into the register fields in order, moves leaving out
\* the destination.
Movers == FmtVI \cup FmtVIC \cup {"XCHGC", "MOV", "SEX"}
WithWord == FmtIV \cup FmtV \cup FmtVIII \cup {"LOADI"}
SlotBy(op, kind, n) ==
  IF kind = "INT" THEN IF op \in WithWord THEN "imm16" ELSE "imm12"
  ELSE IF op \in Movers THEN <<"opa", "opb">>[n] ELSE <<"dst", "opa", "opb">>[n]

\* The prefix is the width of the narrow operand; without one a number makes it
\* immediate, unless it is a displacement.
Has(kinds, kind) == \E n \in DOMAIN kinds : kinds[n] = kind
PrefixBy(op, kinds) ==
  IF Has(kinds, "REG16") THEN "WORD"
  ELSE IF Has(kinds, "REG8") THEN "BYTE"
  ELSE IF Has(kinds, "INT") /\ op \notin {"LOADID", "STOREID"} THEN "IMM"
  ELSE "DWORD"

LEMMA RulePrefix ==
  ASSUME NEW r \in Grammar, NEW op \in r.ops
  PROVE  r.prefix = PrefixBy(op, r.kinds)
<1>. USE DEF DwordRules, LoadRules, StoreRules, WidthRules, NarrowRules,
             ImmediateRules, Rule, FmtI, FmtII, FmtIV, FmtV, FmtVI, FmtVIC,
             FmtVIII, AddressSpace, PrefixBy, Has
<1>1. CASE r \in DwordRules
  BY <1>1
<1>2. CASE r \in WidthRules("REG32", "DWORD")
  BY <1>2
<1>3. CASE r \in NarrowRules("REG16", "WORD")
  BY <1>3
<1>4. CASE r \in NarrowRules("REG8", "BYTE")
  BY <1>4
<1>5. CASE r \in ImmediateRules
  BY <1>5
<1>. QED  BY <1>1, <1>2, <1>3, <1>4, <1>5 DEF Grammar

LEMMA RuleSlots ==
  ASSUME NEW r \in Grammar, NEW op \in r.ops
  PROVE  /\ DOMAIN r.slots = DOMAIN r.kinds
         /\ \A n \in DOMAIN r.kinds : r.slots[n] = SlotBy(op, r.kinds[n], n)
<1>. USE DEF DwordRules, LoadRules, StoreRules, WidthRules, NarrowRules,
             ImmediateRules, Rule, FmtI, FmtII, FmtIV, FmtV, FmtVI, FmtVIC,
             FmtVIII, AddressSpace, SlotBy, Movers, WithWord
<1>1. CASE r \in DwordRules
  BY <1>1
<1>2. CASE r \in WidthRules("REG32", "DWORD")
  BY <1>2
<1>3. CASE r \in NarrowRules("REG16", "WORD")
  BY <1>3
<1>4. CASE r \in NarrowRules("REG8", "BYTE")
  BY <1>4
<1>5. CASE r \in ImmediateRules
  BY <1>5
<1>. QED  BY <1>1, <1>2, <1>3, <1>4, <1>5 DEF Grammar

\* So two rules for the same operation and kinds of operands are one.
LEMMA RuleUnique ==
  ASSUME NEW r \in Grammar, NEW s \in Grammar, NEW op \in r.ops, op \in s.ops,
         r.kinds = s.kinds
  PROVE  /\ r.prefix = s.prefix /\ DOMAIN r.slots = DOMAIN s.slots
         /\ \A n \in DOMAIN r.slots : r.slots[n] = s.slots[n]
  BY RulePrefix, RuleSlots

\* A rule has up to three operands, each with a field of its own; the numbers
\* go into the immediates, of which a rule has one at most.
LEMMA RuleShape ==
  ASSUME NEW r \in Grammar
  PROVE  /\ r.prefix \in {"DWORD", "WORD", "BYTE", "IMM"}
         /\ DOMAIN r.slots = DOMAIN r.kinds /\ DOMAIN r.slots \subseteq 1 .. 3
         /\ \A k \in DOMAIN r.slots :
              /\ r.kinds[k] \in Kinds /\ r.slots[k] \in RegSlots \cup Numeric
              /\ r.kinds[k] = "INT" <=> r.slots[k] \in Numeric
         /\ \A j, k \in DOMAIN r.slots : r.slots[j] = r.slots[k] => j = k
         /\ (\E k \in DOMAIN r.slots : r.slots[k] = "imm12") =>
              \A k \in DOMAIN r.slots : r.slots[k] \in {"dst", "opa", "imm12"}
         /\ (\E k \in DOMAIN r.slots : r.slots[k] = "imm16") =>
              \A k \in DOMAIN r.slots : r.slots[k] \in {"dst", "imm16"}
<1>. USE DEF DwordRules, LoadRules, StoreRules, WidthRules, NarrowRules,
             ImmediateRules, Rule, Kinds, TableKinds, Numeric, RegSlots
<1>1. CASE r \in DwordRules
  BY <1>1
<1>2. CASE r \in WidthRules("REG32", "DWORD")
  BY <1>2
<1>3. CASE r \in NarrowRules("REG16", "WORD")
  BY <1>3
<1>4. CASE r \in NarrowRules("REG8", "BYTE")
  BY <1>4
<1>5. CASE r \in ImmediateRules
  BY <1>5
<1>. QED  BY <1>1, <1>2, <1>3, <1>4, <1>5 DEF Grammar

\* The operations of the grammar have an entry of their own in the table.
GrammarOps == FmtI \cup FmtII \cup FmtIV \cup FmtV \cup FmtVI \cup FmtVIC \cup FmtVIII
              \cup AddressSpace
              \cup {"CMPXCHG", "XCHGC", "LOADID", "LOADRD", "STOREID", "STORERD",
                    "MOV", "LOADI", "SEX"}

LEMMA RuleOps ==
  ASSUME NEW r \in Grammar, NEW op \in r.ops
  PROVE  op \in GrammarOps
<1>. USE DEF LoadRules, StoreRules, WidthRules, NarrowRules, Rule
<1>1. CASE r \in DwordRules
  BY <1>1 DEF DwordRules, GrammarOps
<1>2. CASE r \in WidthRules("REG32", "DWORD")
  BY <1>2 DEF GrammarOps
<1>3. CASE r \in NarrowRules("REG16", "WORD")
  BY <1>3 DEF GrammarOps
<1>4. CASE r \in NarrowRules("REG8", "BYTE")
  BY <1>4 DEF GrammarOps
<1>5. CASE r \in ImmediateRules
  BY <1>5 DEF ImmediateRules, GrammarOps, FmtVI
<1>. QED  BY <1>1, <1>2, <1>3, <1>4, <1>5 DEF Grammar

LEMMA OpEntries ==
  /\ OpNames[1] = "STOP" /\ OpNames[2] = "FAIL" /\ OpNames[5] = "IRET"
  /\ OpNames[7] = "LOADI" /\ OpNames[9] = "STOREMA" /\ OpNames[10] = "LOADMA"
  /\ OpNames[11] = "INT" /\ OpNames[12] = "JMP" /\ OpNames[13] = "CALL"
  /\ OpNames[14] = "STOREAS" /\ OpNames[15] = "LOADAS" /\ OpNames[17] = "SMUL"
  /\ OpNames[18] = "SDIV" /\ OpNames[19] = "NOT" /\ OpNames[21] = "SEX"
  /\ OpNames[22] = "MOD" /\ OpNames[23] = "TEST" /\ OpNames[25] = "CMP"
  /\ OpNames[26] = "IN" /\ OpNames[27] = "MOV" /\ OpNames[28] = "CMPXCHG"
  /\ OpNames[30] = "MOVTC" /\ OpNames[31] = "MOVFC" /\ OpNames[32] = "SAR"
  /\ OpNames[33] = "XCHG" /\ OpNames[34] = "AND" /\ OpNames[35] = "OR"
  /\ OpNames[36] = "XOR" /\ OpNames[37] = "SHL" /\ OpNames[38] = "SHR"
  /\ OpNames[39] = "LOADID" /\ OpNames[40] = "LOADRD" /\ OpNames[41] = "STOREID"
  /\ OpNames[42] = "STORERD" /\ OpNames[43] = "ADD" /\ OpNames[44] = "SUB"
  /\ OpNames[45] = "MUL" /\ OpNames[46] = "DIV" /\ OpNames[47] = "OUT"
  /\ OpNames[48] = "XCHGC" /\ DOMAIN OpNames = 1 .. 48
  BY DEF OpNames

LEMMA OpEntry ==
  ASSUME NEW op \in GrammarOps
  PROVE  \E k \in 1 .. 48 : OpNames[k] = op
<1>1. CASE op \in FmtI \cup FmtII \cup FmtIV
  BY <1>1, OpEntries DEF FmtI, FmtII, FmtIV
<1>2. CASE op \in FmtV \cup FmtVI \cup FmtVIC \cup FmtVIII \cup AddressSpace
  BY <1>2, OpEntries DEF FmtV, FmtVI, FmtVIC, FmtVIII, AddressSpace
<1>3. CASE op \in {"CMPXCHG", "XCHGC", "LOADID", "LOADRD", "STOREID", "STORERD",
                   "MOV", "LOADI", "SEX"}
  BY <1>3, OpEntries
<1>. QED  BY <1>1, <1>2, <1>3 DEF GrammarOps

\* The code of an operation of the grammar is listed as that operation.
LEMMA OpNamed ==
  ASSUME NEW op \in GrammarOps
  PROVE  OpCode(op) \in 0 .. 47 /\ OpName(OpCode(op)) = op
<1>. DEFINE hits == {k \in DOMAIN OpNames : OpNames[k] = op}
<1>1. hits # {}
  BY OpEntry, OpEntries
<1>2. PICK n : n = CHOOSE k \in hits : TRUE
  OBVIOUS
<1>3. n \in 1 .. 48 /\ OpNames[n] = op
  BY <1>1, <1>2, OpEntries
<1>4. OpCode(op) = n - 1
  BY <1>1, <1>2 DEF OpCode
<1>5. op # ""
  BY DEF GrammarOps, FmtI, FmtII, FmtIV, FmtV, FmtVI, FmtVIC, FmtVIII, AddressSpace
<1>. HIDE DEF hits
<1>6. n - 1 \in 0 .. 47 /\ (n - 1) + 1 = n
  BY <1>3
<1>7. n \in DOMAIN OpNames
  BY <1>3, OpEntries
<1>8. OpName(n - 1) = op
  BY <1>3, <1>5, <1>6, <1>7 DEF OpName
<1>. QED  BY <1>4, <1>6, <1>8

LEMMA OpCodeType ==
  ASSUME NEW op
  PROVE  OpCode(op) \in 0 .. 63
<1>. DEFINE hits == {k \in DOMAIN OpNames : OpNames[k] = op}
<1>1. CASE hits = {}
  BY <1>1 DEF OpCode
<1>2. CASE hits # {}
  <2>1. PICK n : n = CHOOSE k \in hits : TRUE
    OBVIOUS
  <2>2. n \in 1 .. 48
    BY <1>2, <2>1, OpEntries
  <2>3. OpCode(op) = n - 1
    BY <1>2, <2>1 DEF OpCode
  <2>. HIDE DEF hits
  <2>4. n - 1 \in 0 .. 63
    BY <2>2
  <2>. QED  BY <2>3, <2>4
<1>. QED  BY <1>1, <1>2

LEMMA CondEntries == DOMAIN CondNames = 1 .. 16
  BY DEF CondNames

LEMMA CondNamed ==
  ASSUME NEW cond \in Names(CondNames)
  PROVE  CondCode(cond) \in 0 .. 15 /\ CondName(CondCode(cond)) = cond
<1>1. PICK n : n = CHOOSE k \in DOMAIN CondNames : CondNames[k] = cond
  OBVIOUS
<1>2. n \in 1 .. 16 /\ CondNames[n] = cond
  BY <1>1, CondEntries DEF Names
<1>3. CondCode(cond) = n - 1
  BY <1>1 DEF CondCode
<1>. QED  BY <1>2, <1>3 DEF CondName

LEMMA PrefixNamed ==
  ASSUME NEW p \in {"DWORD", "WORD", "BYTE", "IMM"}
  PROVE  PrefixCode(p) \in 0 .. 3 /\ PrefixNames[PrefixCode(p) + 1] = p
<1>1. PICK n : n = CHOOSE k \in DOMAIN PrefixNames : PrefixNames[k] = p
  OBVIOUS
<1>2. /\ DOMAIN PrefixNames = 1 .. 4
      /\ PrefixNames[1] = "DWORD" /\ PrefixNames[2] = "WORD"
      /\ PrefixNames[3] = "BYTE" /\ PrefixNames[4] = "IMM"
  BY DEF PrefixNames
<1>3. \E k \in DOMAIN PrefixNames : PrefixNames[k] = p
  BY <1>2
<1>4. n \in 1 .. 4 /\ PrefixNames[n] = p
  BY <1>1, <1>2, <1>3
<1>5. PrefixCode(p) = n - 1
  BY <1>1 DEF PrefixCode
<1>6. n - 1 \in 0 .. 3 /\ (n - 1) + 1 = n
  BY <1>4
<1>. QED  BY <1>4, <1>5, <1>6

\* The forms the disassembler has for an instruction.
FormsFor(prefix, op) == {g \in Forms[prefix] : op \in g.ops}

LEMMA FormsOf ==
  /\ Forms["DWORD"] = DwordForms /\ Forms["WORD"] = NarrowForms("REG16")
  /\ Forms["BYTE"] = NarrowForms("REG8") /\ Forms["IMM"] = ImmediateForms
  BY DEF Forms

\* The operands of an instruction in the order in which no rule writes them.
BackwardRule(r, op) ==
  \/ op = "MOVTC" /\ r.kinds = <<"REG32", "CREG">>
  \/ op = "MOVFC" /\ r.kinds = <<"CREG", "REG32">>

\* The kinds of the operands of an instruction, as vdis prints them.
WidthKind(p) == CASE p = "WORD" -> "REG16" [] p = "BYTE" -> "REG8" [] OTHER -> "REG32"
KindsBy(p, op) ==
  CASE op \in FmtI -> << >>
    [] op \in FmtII -> <<"REG32", "REG32", IF p = "IMM" THEN "INT" ELSE "REG32">>
    [] op = "CMPXCHG" -> <<"REG32", "REG32", "REG32">>
    [] op \in FmtIV -> <<"REG32", "INT">>
    [] op \in FmtV \cup AddressSpace -> <<IF p = "IMM" THEN "INT" ELSE "REG32">>
    [] op \in FmtVIII -> <<"INT">>
    [] op \in FmtVI -> <<"REG32", IF p = "IMM" THEN "INT" ELSE "REG32">>
    [] op = "MOVTC" -> <<"CREG", "REG32">>
    [] op \in {"MOVFC", "XCHGC"} -> <<"REG32", "CREG">>
    [] op = "LOADID" -> <<WidthKind(p), "REG32", "INT">>
    [] op = "LOADRD" -> <<WidthKind(p), "REG32", "REG32">>
    [] op = "STOREID" -> <<"REG32", WidthKind(p), "INT">>
    [] op = "STORERD" -> <<"REG32", WidthKind(p), "REG32">>
    [] op = "MOV" -> <<WidthKind(p), WidthKind(p)>>
    [] op = "LOADI" -> <<WidthKind(p), "INT">>
    [] op = "SEX" -> <<"REG32", WidthKind(p)>>

LEMMA RuleKinds ==
  ASSUME NEW r \in Grammar, NEW op \in r.ops
  PROVE  r.kinds = KindsBy(r.prefix, op) \/ BackwardRule(r, op)
<1>. USE DEF DwordRules, LoadRules, StoreRules, WidthRules, NarrowRules,
             ImmediateRules, Rule, FmtI, FmtII, FmtIV, FmtV, FmtVI, FmtVIC,
             FmtVIII, AddressSpace, KindsBy, WidthKind, BackwardRule
<1>1. CASE r \in DwordRules
  BY <1>1
<1>2. CASE r \in WidthRules("REG32", "DWORD")
  BY <1>2
<1>3. CASE r \in NarrowRules("REG16", "WORD")
  BY <1>3
<1>4. CASE r \in NarrowRules("REG8", "BYTE")
  BY <1>4
<1>5. CASE r \in ImmediateRules
  BY <1>5
<1>. QED  BY <1>1, <1>2, <1>3, <1>4, <1>5 DEF Grammar

LEMMA FormKinds ==
  ASSUME NEW p \in {"DWORD", "WORD", "BYTE", "IMM"}, NEW op, NEW g \in FormsFor(p, op)
  PROVE  g.kinds = KindsBy(p, op) /\ op \notin FmtI
<1>. USE FormsOf DEF FmtI, FmtII, FmtIV, FmtV, FmtVI, FmtVIC, FmtVIII, AddressSpace,
             FormsFor, DwordForms, NarrowForms, ImmediateForms, Form, KindsBy,
             WidthKind
<1>1. CASE p = "DWORD"
  BY <1>1
<1>2. CASE p = "WORD"
  BY <1>2
<1>3. CASE p = "BYTE"
  BY <1>3
<1>4. CASE p = "IMM"
  BY <1>4
<1>. QED  BY <1>1, <1>2, <1>3, <1>4

LEMMA FormExists ==
  ASSUME NEW r \in Grammar, NEW op \in r.ops, op \notin FmtI
  PROVE  FormsFor(r.prefix, op) # {}
<1>1. ASSUME NEW o \in FmtII \cup FmtV \cup AddressSpace \cup FmtVI \cup FmtVIC
                     \cup {"CMPXCHG", "XCHGC", "MOV", "LOADID", "LOADRD", "STOREID",
                           "STORERD"}
      PROVE  \E g \in DwordForms : o \in g.ops
  BY DEF DwordForms, Form, FmtVIC
<1>2. ASSUME NEW k,
             NEW o \in {"LOADI", "LOADID", "LOADRD", "MOV", "SEX", "STOREID", "STORERD"}
      PROVE  \E g \in NarrowForms(k) : o \in g.ops
  BY DEF NarrowForms, Form
<1>3. ASSUME NEW o \in FmtII \cup {"CMP"} \cup FmtV \cup FmtVIII \cup FmtIV
      PROVE  \E g \in ImmediateForms : o \in g.ops
  BY DEF ImmediateForms, Form
<1>. USE FormsOf DEF LoadRules, StoreRules, WidthRules, NarrowRules, Rule, FormsFor
<1>4. CASE r \in DwordRules
  BY <1>1, <1>4 DEF DwordRules
<1>5. CASE r \in WidthRules("REG32", "DWORD")
  BY <1>1, <1>5
<1>6. CASE r \in NarrowRules("REG16", "WORD")
  BY <1>2, <1>6
<1>7. CASE r \in NarrowRules("REG8", "BYTE")
  BY <1>2, <1>7
<1>8. CASE r \in ImmediateRules
  BY <1>3, <1>8 DEF ImmediateRules
<1>. QED  BY <1>4, <1>5, <1>6, <1>7, <1>8 DEF Grammar

\* Each form is that of a rule.
LEMMA FormRule ==
  ASSUME NEW p \in {"DWORD", "WORD", "BYTE", "IMM"}, NEW op, NEW g \in FormsFor(p, op)
  PROVE  \E r \in Grammar : op \in r.ops /\ r.kinds = g.kinds /\ r.slots = g.fields
<1>. USE FormsOf DEF DwordRules, LoadRules, StoreRules, WidthRules, NarrowRules,
             ImmediateRules, Rule, FmtI, FmtII, FmtIV, FmtV, FmtVI, FmtVIC,
             FmtVIII, AddressSpace, FormsFor, DwordForms, NarrowForms,
             ImmediateForms, Form
<1>1. CASE p = "DWORD"
  BY <1>1 DEF Grammar
<1>2. CASE p = "WORD"
  BY <1>2 DEF Grammar
<1>3. CASE p = "BYTE"
  BY <1>3 DEF Grammar
<1>4. CASE p = "IMM"
  BY <1>4 DEF Grammar
<1>. QED  BY <1>1, <1>2, <1>3, <1>4

\* Only formats without operands have none.
LEMMA NoOperands ==
  ASSUME NEW r \in Grammar, NEW op \in r.ops
  PROVE  r.kinds = << >> <=> op \in FmtI
<1>. USE DEF DwordRules, LoadRules, StoreRules, WidthRules, NarrowRules,
             ImmediateRules, Rule, FmtI, FmtII, FmtIV, FmtV, FmtVI, FmtVIC,
             FmtVIII, AddressSpace
<1>1. CASE r \in DwordRules
  BY <1>1
<1>2. CASE r \in WidthRules("REG32", "DWORD")
  BY <1>2
<1>3. CASE r \in NarrowRules("REG16", "WORD")
  BY <1>3
<1>4. CASE r \in NarrowRules("REG8", "BYTE")
  BY <1>4
<1>5. CASE r \in ImmediateRules
  BY <1>5
<1>. QED  BY <1>1, <1>2, <1>3, <1>4, <1>5 DEF Grammar

\* A rule and a form agree on what the operands of an instruction are.
LEMMA RuleForm ==
  ASSUME NEW r \in Grammar, NEW op \in r.ops, ~BackwardRule(r, op)
  PROVE  /\ r.kinds = << >> <=> FormsFor(r.prefix, op) = {}
         /\ \A g \in FormsFor(r.prefix, op) : g.kinds = r.kinds
         /\ \A g \in FormsFor(r.prefix, op) : \A n \in DOMAIN r.slots : g.fields[n] = r.slots[n]
<1>1. r.prefix \in {"DWORD", "WORD", "BYTE", "IMM"}
  BY RuleShape
<1>2. r.kinds = KindsBy(r.prefix, op)
  BY RuleKinds
<1>3. ASSUME NEW g \in FormsFor(r.prefix, op)
      PROVE  g.kinds = r.kinds /\ \A n \in DOMAIN r.slots : g.fields[n] = r.slots[n]
  <2>1. g.kinds = r.kinds
    BY <1>1, <1>2, FormKinds
  <2>2. PICK s \in Grammar : op \in s.ops /\ s.kinds = g.kinds /\ s.slots = g.fields
    BY <1>1, FormRule
  <2>. QED  BY <2>1, <2>2, RuleUnique
<1>4. r.kinds = << >> <=> op \in FmtI
  BY NoOperands
<1>5. r.kinds = << >> => FormsFor(r.prefix, op) = {}
  BY <1>1, <1>4, FormKinds
<1>. QED  BY <1>3, <1>4, <1>5, FormExists

-----------------------------------------------------------------------------
(* What the fields of an instruction receive                               *)

LEMMA FieldRange == Field = 0 .. 15
  BY CodecAssumption DEF Field

LEMMA ByteNumber == ByteSize = 256
  BY CodecAssumption, SMT DEF ByteSize

LEMMA SizesOrder == NReg * ByteSize \in Nat /\ NReg * ByteSize <= WordSize /\ WordSize \in Nat
<1>1. NReg \in Nat /\ ByteSize \in Nat /\ NReg <= ByteSize
  BY FieldSizes
<1>2. NReg * ByteSize <= ByteSize * ByteSize /\ NReg * ByteSize \in Nat
  BY <1>1
<1>. QED  BY <1>2, FieldSizes DEF WordSize

Instructions == [op : Names(OpNames) \cup {NotAName}, cond : Names(CondNames),
                 operands : Seq(Operand)]

LEMMA LineType ==
  /\ \A line \in Line : ~IsRaw(line) => line \in Instructions
  /\ \A line \in Instructions : line \in Line /\ ~IsRaw(line)
<1>1. ASSUME NEW line \in Instructions  PROVE ~IsRaw(line)
  BY <1>1 DEF Instructions, IsRaw
<1>2. ASSUME NEW line \in [bytes : Seq(0 .. 255)]  PROVE IsRaw(line)
  BY <1>2 DEF IsRaw
<1>. QED  BY <1>1, <1>2 DEF Line, Instructions

\* The rule an instruction is assembled by.
RuleOf(line) == CHOOSE rule \in RulesFor(line) : TRUE

LEMMA RuleOfLine ==
  ASSUME NEW line \in Instructions, NEW r \in RulesFor(line)
  PROVE  /\ r \in Grammar /\ line.op \in r.ops /\ line.op \in GrammarOps
         /\ DOMAIN r.kinds = DOMAIN line.operands
         /\ DOMAIN r.slots = DOMAIN line.operands
         /\ \A k \in DOMAIN line.operands :
              r.kinds[k] = KindOf(line.operands[k]) /\ line.operands[k] \in Operand
<1>1. r \in Grammar /\ line.op \in r.ops
      /\ r.kinds = [k \in DOMAIN line.operands |-> KindOf(line.operands[k])]
  BY DEF RulesFor
<1>2. line.operands \in Seq(Operand)
  BY DEF Instructions
<1>. QED  BY <1>1, <1>2, RuleShape, RuleOps

LEMMA RuleOfIn ==
  ASSUME NEW line, NEW r \in RulesFor(line)
  PROVE  RuleOf(line) \in RulesFor(line)
  BY DEF RuleOf

\* A field receives its own operand.
LEMMA FieldValueAt ==
  ASSUME NEW r \in Grammar, NEW line, NEW k \in DOMAIN r.slots
  PROVE  FieldValue(r, line, r.slots[k]) =
           IF line.operands[k].lex = "NAME"
           THEN CodeOf(Tables(r, line)[k], line.operands[k].name)
           ELSE IntOf(line.operands[k])
<1>. DEFINE f == r.slots[k]
            hits == {n \in DOMAIN r.slots : r.slots[n] = f}
<1>1. hits = {k}
  BY RuleShape
<1>2. (CHOOSE n \in hits : TRUE) = k
  BY <1>1
<1>. QED  BY <1>1, <1>2 DEF FieldValue

LEMMA FieldValueNone ==
  ASSUME NEW r, NEW line, NEW f, \A k \in DOMAIN r.slots : r.slots[k] # f
  PROVE  FieldValue(r, line, f) = 0
  BY DEF FieldValue

\* A rule looks registers up in a table, if not always in that of their kind.
LEMMA TablesShape ==
  ASSUME NEW r \in Grammar, NEW line, line.op \in r.ops, NEW k \in DOMAIN r.kinds,
         r.kinds[k] # "INT"
  PROVE  /\ Tables(r, line)[k] \in TableKinds
         /\ Tables(r, line)[k] # r.kinds[k] => Tables(r, line)[k] # "CREG"
<1>1. r.kinds[k] \in TableKinds
  BY RuleShape DEF Kinds
<1>2. CASE line.op = "LOADRD" /\ r.prefix = "WORD"
  <2>1. r.kinds = <<"REG16", "REG32", "REG32">>
    BY <1>2, RuleKinds DEF BackwardRule, KindsBy, WidthKind, FmtI, FmtII, FmtIV, FmtV,
                           FmtVI, FmtVIC, FmtVIII, AddressSpace
  <2>. QED  BY <1>1, <1>2, <2>1 DEF Tables, TableKinds
<1>3. CASE line.op = "XCHGC"
  <2>1. r.kinds = <<"REG32", "CREG">>
    BY <1>3, RuleKinds DEF BackwardRule, KindsBy, WidthKind, FmtI, FmtII, FmtIV, FmtV,
                           FmtVI, FmtVIC, FmtVIII, AddressSpace
  <2>. QED  BY <1>1, <1>3, <2>1 DEF Tables, TableKinds
<1>4. CASE ~(line.op = "LOADRD" /\ r.prefix = "WORD") /\ line.op # "XCHGC"
  BY <1>1, <1>4 DEF Tables
<1>. QED  BY <1>2, <1>3, <1>4

\* A name in another kind's table is an unknown name.
LEMMA Foreign ==
  ASSUME NEW kind \in TableKinds, NEW n \in DOMAIN NamesOf[kind],
         NEW table \in TableKinds \ {"CREG"}, table # kind
  PROVE  CodeOf(table, NamesOf[kind][n]) = 0
<1>1. {k \in DOMAIN NamesOf[table] : NamesOf[table][k] = NamesOf[kind][n]} = {}
  BY NamesDiffer
<1>. QED  BY <1>1 DEF CodeOf

\* A register read as a number is a code of its kind, whatever its table.
LEMMA CodeFits ==
  ASSUME NEW line \in Instructions, NEW r \in RulesFor(line),
         NEW k \in DOMAIN r.slots, r.kinds[k] # "INT"
  PROVE  /\ FieldValue(r, line, r.slots[k]) \in Codes(r.kinds[k])
         /\ Tables(r, line)[k] # r.kinds[k] => FieldValue(r, line, r.slots[k]) = 0
<1>. DEFINE o == line.operands[k]
            table == Tables(r, line)[k]
<1>1. r \in Grammar /\ line.op \in r.ops /\ k \in DOMAIN r.kinds
      /\ r.kinds[k] = KindOf(o) /\ r.kinds[k] \in TableKinds
  BY RuleOfLine, RuleShape DEF Kinds
<1>2. o.lex = "NAME" /\ \E n \in DOMAIN NamesOf[r.kinds[k]] : NamesOf[r.kinds[k]][n] = o.name
  BY <1>1, OperandKind
<1>3. FieldValue(r, line, r.slots[k]) = CodeOf(table, o.name)
  BY <1>1, <1>2, FieldValueAt
<1>4. table \in TableKinds /\ (table # r.kinds[k] => table # "CREG")
  BY <1>1, TablesShape
<1>. HIDE DEF o, table
<1>5. CASE table = r.kinds[k]
  BY <1>3, <1>4, <1>5, CodeType DEF table
<1>6. CASE table # r.kinds[k]
  <2>1. CodeOf(table, o.name) = 0
    BY <1>1, <1>2, <1>4, <1>6, Foreign
  <2>2. 0 \in Codes(r.kinds[k])
    BY DEF Codes
  <2>. QED  BY <1>3, <2>1, <2>2
<1>. QED  BY <1>5, <1>6 DEF table

LEMMA IntFits ==
  ASSUME NEW o \in Operand, o.lex # "NAME"
  PROVE  IntOf(o) \in 0 .. WordSize - 1
<1>1. ByteSize \in Nat \ {0} /\ WordSize \in Nat \ {0} /\ ByteSize <= WordSize
  <2>1. ByteSize \in Nat \ {0}
    BY FieldSizes
  <2>2. ByteSize <= ByteSize * ByteSize
    BY <2>1
  <2>. QED  BY <2>1, <2>2, FieldSizes DEF WordSize
<1>2. CASE o.lex = "RANGE"
  <2>. DEFINE code(n) == IF o.lower THEN 0 ELSE CodeOf("REG32", n)
  <2>1. ASSUME NEW n  PROVE code(n) \in Field
    <3>1. CodeOf("REG32", n) \in 0 .. 15
      BY CodeType DEF TableKinds, Codes
    <3>. QED  BY <3>1, FieldRange
  <2>2. IntOf(o) = Pair(code(o.start), code(o.end))
    BY <1>2 DEF IntOf, RangeInt
  <2>. HIDE DEF code
  <2>3. Pair(code(o.start), code(o.end)) \in 0 .. ByteSize - 1
    BY <2>1, PairFields
  <2>. QED  BY <1>1, <2>2, <2>3
<1>3. CASE o.lex # "RANGE"
  <2>1. o.val \in Int
    BY <1>3 DEF Operand
  <2>2. o.val % WordSize \in 0 .. WordSize - 1
    BY <1>1, <2>1, DivMod
  <2>. QED  BY <1>3, <2>2 DEF IntOf
<1>. QED  BY <1>2, <1>3

\* Every field of an accepted instruction fits its place.
Fits(f) == IF f \in RegSlots THEN Field
           ELSE IF f = "imm12" THEN 0 .. NReg * ByteSize - 1 ELSE 0 .. WordSize - 1

LEMMA ZeroFits == ASSUME NEW f  PROVE 0 \in Fits(f)
<1>1. NReg * ByteSize \in Nat \ {0}
  BY FieldSizes
<1>. QED  BY <1>1, FieldSizes DEF Fits, Field

LEMMA ValueFits ==
  ASSUME NEW line \in Instructions, Accepted(line), NEW r \in RulesFor(line), NEW f
  PROVE  FieldValue(r, line, f) \in Fits(f)
<1>1. CASE \A k \in DOMAIN r.slots : r.slots[k] # f
  BY <1>1, FieldValueNone, ZeroFits
<1>2. ASSUME NEW k \in DOMAIN r.slots, r.slots[k] = f, r.kinds[k] # "INT"
      PROVE  FieldValue(r, line, f) \in Fits(f)
  <2>1. FieldValue(r, line, f) \in 0 .. 15
    BY <1>2, CodeFits DEF Codes
  <2>2. f \in RegSlots
    BY <1>2, RuleOfLine, RuleShape
  <2>. QED  BY <2>1, <2>2, FieldRange DEF Fits
<1>3. ASSUME NEW k \in DOMAIN r.slots, r.slots[k] = f, r.kinds[k] = "INT"
      PROVE  FieldValue(r, line, f) \in Fits(f)
  <2>. DEFINE v == FieldValue(r, line, f)
  <2>1. /\ r \in Grammar /\ line.op \in r.ops /\ KindOf(line.operands[k]) = "INT"
        /\ line.operands[k] \in Operand
    BY <1>3, RuleOfLine
  <2>2. f \in Numeric
    BY <1>3, <2>1, RuleShape
  <2>3. line.operands[k].lex # "NAME"
    BY <2>1, OperandKind
  <2>4. v = IntOf(line.operands[k])
    BY <1>3, <2>1, <2>3, FieldValueAt
  <2>5. v \in 0 .. WordSize - 1
    BY <2>1, <2>3, <2>4, IntFits
  <2>6. CASE f = "imm12"
    <3>1. PICK s \in RulesFor(line) : FieldValue(s, line, "imm12") < NReg * ByteSize
      BY LineType DEF Accepted
    <3>2. s \in Grammar /\ line.op \in s.ops /\ s.kinds = r.kinds
      BY <3>1, <2>1 DEF RulesFor
    <3>3. k \in DOMAIN s.slots /\ s.slots[k] = f
      BY <1>3, <2>1, <3>2, RuleUnique
    <3>4. FieldValue(s, line, f) = v
      BY <2>3, <2>4, <3>2, <3>3, FieldValueAt
    <3>. HIDE DEF v
    <3>5. v < NReg * ByteSize /\ v \in Nat /\ NReg * ByteSize \in Nat
      BY <2>5, <2>6, <3>1, <3>4, FieldSizes
    <3>6. v \in 0 .. NReg * ByteSize - 1
      BY <3>5
    <3>. QED  BY <2>6, <3>6 DEF Fits, RegSlots, v
  <2>7. CASE f # "imm12"
    BY <2>2, <2>5, <2>7 DEF Numeric, Fits, RegSlots
  <2>. QED  BY <2>6, <2>7
<1>. QED  BY <1>1, <1>2, <1>3

-----------------------------------------------------------------------------
(* What an instruction is encoded as                                       *)

Byte == 0 .. ByteSize - 1
Quads == [0 .. 3 -> Byte]

LEMMA QuadType ==
  ASSUME NEW b0 \in Byte, NEW b1 \in Byte, NEW b2 \in Byte, NEW b3 \in Byte
  PROVE  Quad(b0, b1, b2, b3) \in Quads
<1>1. \A k \in 0 .. 3 : <<b0, b1, b2, b3>>[k + 1] \in Byte
  OBVIOUS
<1>. QED  BY <1>1 DEF Quad, Quads

LEMMA RegFormatType ==
  ASSUME NEW first \in Byte, NEW cond \in Field, NEW dst \in Field, NEW a \in Field,
         NEW b \in Field
  PROVE  RegFormat(first, cond, dst, a, b) \in Quads
<1>1. 0 \in Byte
  BY FieldSizes DEF Byte
<1>2. Pair(cond, dst) \in Byte /\ Pair(a, b) \in Byte
  BY PairFields DEF Byte
<1>. QED  BY <1>1, <1>2, QuadType DEF RegFormat

LEMMA Imm12FormatType ==
  ASSUME NEW first \in Byte, NEW cond \in Field, NEW dst \in Field, NEW a \in Field,
         NEW imm \in 0 .. NReg * ByteSize - 1
  PROVE  Imm12Format(first, cond, dst, a, imm) \in Quads
<1>1. imm \div ByteSize \in Field /\ imm % ByteSize \in Byte
  BY DigitField DEF Byte
<1>2. Pair(cond, dst) \in Byte /\ Pair(a, imm \div ByteSize) \in Byte
  BY <1>1, PairFields DEF Byte
<1>. QED  BY <1>1, <1>2, QuadType DEF Imm12Format

LEMMA Imm16FormatType ==
  ASSUME NEW first \in Byte, NEW cond \in Field, NEW dst \in Field,
         NEW imm \in 0 .. WordSize - 1
  PROVE  Imm16Format(first, cond, dst, imm) \in Quads
<1>1. imm \div ByteSize \in Byte /\ imm % ByteSize \in Byte
  <2>1. ByteSize \in Nat \ {0} /\ imm \in Int /\ imm \in 0 .. ByteSize * ByteSize - 1
    BY FieldSizes DEF WordSize
  <2>. QED  BY <2>1, QuotientRange, DivMod DEF Byte
<1>2. Pair(cond, dst) \in Byte
  BY PairFields DEF Byte
<1>. QED  BY <1>1, <1>2, QuadType DEF Imm16Format

\* The first byte is the prefix and the code of the operation.
LEMMA FirstByte ==
  ASSUME NEW p \in 0 .. 3, NEW c \in 0 .. 63
  PROVE  /\ p * 64 + c \in Byte
         /\ (p * 64 + c) \div 64 = p /\ (p * 64 + c) % 64 = c
<1>1. Byte = 0 .. 255
  BY CodecAssumption DEF Byte, ByteSize
<1>2. p * 64 + c \in 0 .. 255
  OBVIOUS
<1>3. p * 64 + c = 64 * p + c
  OBVIOUS
<1>4. (64 * p + c) % 64 = c /\ (64 * p + c) \div 64 = p
  BY DivModUnique, 64 \in Nat \ {0}
<1>. QED  BY <1>1, <1>2, <1>3, <1>4

Opens(b, line, r) ==
  /\ b \in Quads /\ b[0] % 64 = OpCode(line.op) /\ PrefixNames[b[0] \div 64 + 1] = r.prefix
  /\ Fields(b).cond = CondCode(line.cond)

\* Whatever format an accepted instruction has, its fields hold what the
\* operands say.
LEMMA EncodedFields ==
  ASSUME NEW line \in Instructions, Accepted(line)
  PROVE  LET r == RuleOf(line)
             b == Encoded(line)
         IN  /\ r \in RulesFor(line) /\ Opens(b, line, r)
             /\ \A k \in DOMAIN r.slots :
                  Fields(b)[r.slots[k]] = FieldValue(r, line, r.slots[k])
<1>. DEFINE r == RuleOf(line)
            b == Encoded(line)
            val(f) == FieldValue(r, line, f)
            has(f) == \E k \in DOMAIN r.slots : r.slots[k] = f
            first == PrefixCode(r.prefix) * 64 + OpCode(line.op)
            cond == CondCode(line.cond)
<1>1. r \in RulesFor(line)
  BY LineType, RuleOfIn DEF Accepted
<1>2. r \in Grammar /\ line.op \in GrammarOps
  BY <1>1, RuleOfLine
<1>3. /\ first \in Byte /\ first % 64 = OpCode(line.op)
      /\ PrefixNames[first \div 64 + 1] = r.prefix
  BY <1>2, RuleShape, PrefixNamed, OpCodeType, FirstByte
<1>4. cond \in Field
  BY CondNamed, FieldRange DEF Instructions
<1>5. \A f : val(f) \in Fits(f)
  BY <1>1, ValueFits
<1>6. val("dst") \in Field /\ val("opa") \in Field /\ val("opb") \in Field
      /\ val("imm12") \in 0 .. NReg * ByteSize - 1 /\ val("imm16") \in 0 .. WordSize - 1
  BY <1>5 DEF Fits, RegSlots
<1>7. b = CASE has("imm12") -> Imm12Format(first, cond, val("dst"), val("opa"), val("imm12"))
            [] has("imm16") -> Imm16Format(first, cond, val("dst"), val("imm16"))
            [] OTHER -> RegFormat(first, cond, val("dst"), val("opa"), val("opb"))
  BY DEF Encoded, RuleOf
<1>8. /\ \A k \in DOMAIN r.slots : r.slots[k] \in RegSlots \cup Numeric
      /\ has("imm12") => \A k \in DOMAIN r.slots : r.slots[k] \in {"dst", "opa", "imm12"}
      /\ has("imm16") => \A k \in DOMAIN r.slots : r.slots[k] \in {"dst", "imm16"}
  BY <1>2, RuleShape
<1>. SUFFICES Opens(b, line, r) /\ \A k \in DOMAIN r.slots : Fields(b)[r.slots[k]] = val(r.slots[k])
  BY <1>1
<1>. HIDE DEF r, b, val, first, cond
<1>9. CASE has("imm12")
  <2>1. b = Imm12Format(first, cond, val("dst"), val("opa"), val("imm12"))
    <3>1. ~has("imm16")
      BY <1>8, <1>9
    <3>. QED  BY <1>7, <1>9, <3>1
  <2>2. b \in Quads /\ b[0] = first
    BY <2>1, <1>3, <1>4, <1>6, Imm12FormatType, QuadBytes DEF Imm12Format
  <2>3. /\ Fields(b).cond = cond /\ Fields(b).dst = val("dst")
        /\ Fields(b).opa = val("opa") /\ Fields(b).imm12 = val("imm12")
    BY <2>1, <1>4, <1>6, Imm12FormatDecodes
  <2>4. Opens(b, line, r)
    BY <1>3, <2>2, <2>3 DEF Opens, cond
  <2>. QED  BY <1>8, <1>9, <2>3, <2>4
<1>10. CASE has("imm16") /\ ~has("imm12")
  <2>1. b = Imm16Format(first, cond, val("dst"), val("imm16"))
    BY <1>7, <1>10
  <2>2. b \in Quads /\ b[0] = first
    BY <2>1, <1>3, <1>4, <1>6, Imm16FormatType, QuadBytes DEF Imm16Format
  <2>3. Fields(b).cond = cond /\ Fields(b).dst = val("dst") /\ Fields(b).imm16 = val("imm16")
    BY <2>1, <1>4, <1>6, Imm16FormatDecodes
  <2>4. Opens(b, line, r)
    BY <1>3, <2>2, <2>3 DEF Opens, cond
  <2>. QED  BY <1>8, <1>10, <2>3, <2>4
<1>11. CASE ~has("imm16") /\ ~has("imm12")
  <2>1. b = RegFormat(first, cond, val("dst"), val("opa"), val("opb"))
    BY <1>7, <1>11
  <2>2. b \in Quads /\ b[0] = first
    BY <2>1, <1>3, <1>4, <1>6, RegFormatType, QuadBytes DEF RegFormat
  <2>3. /\ Fields(b).cond = cond /\ Fields(b).dst = val("dst")
        /\ Fields(b).opa = val("opa") /\ Fields(b).opb = val("opb")
    BY <2>1, <1>4, <1>6, RegFormatDecodes
  <2>4. Opens(b, line, r)
    BY <1>3, <2>2, <2>3 DEF Opens, cond
  <2>5. \A k \in DOMAIN r.slots : r.slots[k] \in {"dst", "opa", "opb"}
    BY <1>8, <1>11 DEF RegSlots, Numeric
  <2>. QED  BY <2>3, <2>4, <2>5
<1>. QED  BY <1>9, <1>10, <1>11

\* How vdis prints a value.
Text(kind, v) == IF kind = "INT" THEN Hex(v) ELSE Name(NameOf(kind, v))

\* The line for an instruction's rule and values.
Printed(line) ==
  LET r == RuleOf(line)
  IN  Instruction(line.op, line.cond,
                  [k \in DOMAIN r.kinds |-> Text(r.kinds[k], FieldValue(r, line, r.slots[k]))])

LEMMA BackwardIs ==
  ASSUME NEW line \in Instructions, NEW r \in RulesFor(line), ~Backward(line)
  PROVE  ~BackwardRule(r, line.op)
<1>1. r.kinds = [k \in DOMAIN line.operands |-> KindOf(line.operands[k])]
  BY DEF RulesFor
<1>2. ASSUME NEW x, NEW y, r.kinds = <<x, y>>  PROVE KindOf(line.operands[1]) = x
  BY <1>1, <1>2
<1>. QED  BY <1>2 DEF BackwardRule, Backward

\* A listing shows an instruction as its rule has it.
LEMMA ListedEncoded ==
  ASSUME NEW line \in Instructions, Accepted(line), ~Backward(line)
  PROVE  Listed(Encoded(line)) = Printed(line)
<1>. DEFINE r == RuleOf(line)
            b == Encoded(line)
            f == Fields(b)
            op == OpName(b[0] % 64)
            forms == {g \in Forms[PrefixNames[b[0] \div 64 + 1]] : op \in g.ops}
            form == CHOOSE g \in forms : TRUE
            operands == IF forms = {} THEN << >>
                        ELSE [k \in DOMAIN form.kinds |->
                                Text(form.kinds[k], f[form.fields[k]])]
<1>1. /\ r \in RulesFor(line) /\ Opens(b, line, r)
      /\ \A k \in DOMAIN r.slots : f[r.slots[k]] = FieldValue(r, line, r.slots[k])
  BY EncodedFields
<1>2. r \in Grammar /\ line.op \in r.ops /\ line.op \in GrammarOps
  BY <1>1, RuleOfLine
<1>3. op = line.op
  BY <1>1, <1>2, OpNamed DEF Opens
<1>4. CondName(f.cond) = line.cond
  BY <1>1, CondNamed DEF Opens, Instructions
<1>5. forms = FormsFor(r.prefix, line.op)
  BY <1>1, <1>3 DEF Opens, FormsFor
<1>6. Listed(b) = Instruction(op, CondName(f.cond), operands)
  BY DEF Listed, Text
<1>. HIDE DEF b, f, op, forms
<1>7. /\ r.kinds = << >> <=> forms = {}
      /\ \A g \in forms : g.kinds = r.kinds
      /\ \A g \in forms : \A n \in DOMAIN r.slots : g.fields[n] = r.slots[n]
  BY <1>1, <1>2, <1>5, RuleForm, BackwardIs
<1>8. DOMAIN r.slots = DOMAIN r.kinds
  BY <1>2, RuleShape
<1>. HIDE DEF r
<1>9. operands = [k \in DOMAIN r.kinds |-> Text(r.kinds[k], FieldValue(r, line, r.slots[k]))]
  <2>1. CASE forms = {}
    BY <1>7, <2>1
  <2>2. CASE forms # {}
    <3>1. form \in forms
      BY <2>2
    <3>2. form.kinds = r.kinds /\ \A n \in DOMAIN r.slots : form.fields[n] = r.slots[n]
      BY <1>7, <3>1
    <3>. HIDE DEF form
    <3>3. \A n \in DOMAIN r.slots : f[form.fields[n]] = FieldValue(r, line, r.slots[n])
      BY <1>1, <3>2
    <3>. QED  BY <1>8, <2>2, <3>2, <3>3
  <2>. QED  BY <2>1, <2>2
<1>10. Printed(line) =
         Instruction(line.op, line.cond,
           [k \in DOMAIN r.kinds |-> Text(r.kinds[k], FieldValue(r, line, r.slots[k]))])
  BY DEF Printed, r
<1>. QED  BY <1>3, <1>4, <1>6, <1>9, <1>10 DEF b

LEMMA NameOperand ==
  ASSUME NEW o \in Operand, o.lex = "NAME"
  PROVE  o = Name(o.name)
  BY DEF Operand, Name

\* The two ways to number a register of a range.
LEMMA RangeNumber ==
  ASSUME NEW name \in Names(Reg32Names)
  PROVE  CodeOf("REG32", name) = NumberOf(name)
<1>1. PICK n : n = CHOOSE k \in DOMAIN Reg32Names : Reg32Names[k] = name
  OBVIOUS
<1>2. n \in DOMAIN Reg32Names /\ Reg32Names[n] = name
  BY <1>1 DEF Names
<1>3. CodeOf("REG32", name) = n - 1
  BY <1>2, TableSizes, NameCode DEF TableKinds
<1>. QED  BY <1>1, <1>3 DEF NumberOf

LEMMA NumberMeans ==
  ASSUME NEW o \in Operand, o.lex # "NAME", ~(o.lex = "RANGE" /\ o.lower)
  PROVE  Hex(IntOf(o)) = Meaning(o)
<1>1. CASE o.lex = "RANGE"
  <2>1. o.start \in Names(Reg32Names) /\ o.end \in Names(Reg32Names)
    BY <1>1 DEF Operand
  <2>2. RangeInt(o) = Pair(NumberOf(o.start), NumberOf(o.end))
    BY <1>1, <2>1, RangeNumber DEF RangeInt
  <2>. QED  BY <1>1, <2>2 DEF IntOf, Meaning
<1>2. CASE o.lex # "RANGE"
  BY <1>2 DEF IntOf, Meaning
<1>. QED  BY <1>1, <1>2

\* The names that are looked up in another table are misread.
LEMMA TablesMisread ==
  ASSUME NEW line \in Instructions, NEW r \in RulesFor(line), ~Misread(line)
  PROVE  Tables(r, line) = r.kinds
<1>1. CASE line.cond # "ALWAYS" /\ line.op = "LOADRD" /\ r.prefix = "WORD"
  <2>1. r \in Grammar /\ line.op \in r.ops
        /\ r.kinds = [k \in DOMAIN line.operands |-> KindOf(line.operands[k])]
    BY DEF RulesFor
  <2>2. r.kinds = <<"REG16", "REG32", "REG32">>
    BY <1>1, <2>1, RuleKinds DEF BackwardRule, KindsBy, WidthKind, FmtI, FmtII, FmtIV,
                                 FmtV, FmtVI, FmtVIC, FmtVIII, AddressSpace
  <2>3. KindOf(line.operands[1]) = "REG16"
    BY <2>1, <2>2
  <2>. QED  BY <1>1, <2>3 DEF Misread, OtherTable
<1>2. CASE line.cond # "ALWAYS" /\ line.op = "XCHGC"
  BY <1>2 DEF Misread, OtherTable
<1>3. CASE /\ ~(line.cond # "ALWAYS" /\ line.op = "LOADRD" /\ r.prefix = "WORD")
           /\ ~(line.cond # "ALWAYS" /\ line.op = "XCHGC")
  BY <1>3 DEF Tables
<1>. QED  BY <1>1, <1>2, <1>3

LEMMA CregEntries ==
  CregNames[9] = "ST2" /\ CregNames[10] = "ST3" /\ CregNames[11] = "ST4"
  BY DEF CregNames

\* So every operand of another instruction is printed as what it means.
LEMMA OperandMeans ==
  ASSUME NEW line \in Instructions, ~Misread(line), NEW r \in RulesFor(line),
         NEW k \in DOMAIN r.kinds
  PROVE  Text(r.kinds[k], FieldValue(r, line, r.slots[k])) = Meaning(line.operands[k])
<1>. DEFINE o == line.operands[k]
            v == FieldValue(r, line, r.slots[k])
<1>1. /\ r \in Grammar /\ k \in DOMAIN r.slots /\ k \in DOMAIN line.operands
      /\ r.kinds[k] = KindOf(o) /\ o \in Operand /\ r.kinds[k] \in Kinds
  BY RuleOfLine, RuleShape
<1>2. v = IF o.lex = "NAME" THEN CodeOf(r.kinds[k], o.name) ELSE IntOf(o)
  BY <1>1, TablesMisread, FieldValueAt
<1>3. /\ ~(o.lex = "RANGE" /\ o.lower)
      /\ ~(o.lex = "NAME" /\ o.name \in {"ST2", "ST3", "ST4"})
  BY <1>1 DEF Misread, SharedCode, SmallRange
<1>. HIDE DEF o, v
<1>4. CASE o.lex # "NAME"
  <2>1. r.kinds[k] = "INT"
    BY <1>1, <1>4, OperandKind
  <2>. QED  BY <1>1, <1>2, <1>3, <1>4, <2>1, NumberMeans DEF Text, v, o
<1>5. CASE o.lex = "NAME"
  <2>1. r.kinds[k] \in TableKinds /\ r.kinds[k] # "INT"
    BY <1>1, <1>5, OperandKind DEF Kinds
  <2>2. PICK n \in DOMAIN NamesOf[r.kinds[k]] : NamesOf[r.kinds[k]][n] = o.name
    BY <1>1, <2>1, OperandKind
  <2>3. r.kinds[k] = "CREG" => n <= 8
    BY <1>3, <1>5, <2>2, TableSizes, CregEntries
  <2>4. v = n - 1 /\ NameOf(r.kinds[k], v) = o.name
    BY <1>2, <1>5, <2>1, <2>2, <2>3, NameCode
  <2>5. Meaning(o) = o
    BY <1>5 DEF Meaning
  <2>. QED  BY <1>1, <1>5, <2>1, <2>4, <2>5, NameOperand DEF Text, v, o
<1>. QED  BY <1>4, <1>5

LEMMA InstructionOf ==
  ASSUME NEW line \in Instructions
  PROVE  line = Instruction(line.op, line.cond, line.operands)
  BY DEF Instructions, Instruction

LEMMA PrintedMeans ==
  ASSUME NEW line \in Instructions, Accepted(line), ~Misread(line)
  PROVE  Printed(line) = MeaningOf(line)
<1>. DEFINE r == RuleOf(line)
            ops == [k \in DOMAIN line.operands |-> Meaning(line.operands[k])]
<1>1. r \in RulesFor(line)
  BY EncodedFields
<1>2. DOMAIN r.kinds = DOMAIN line.operands
  BY <1>1, RuleOfLine
<1>3. Printed(line) = Instruction(line.op, line.cond, ops)
  BY <1>1, <1>2, OperandMeans DEF Printed
<1>4. MeaningOf(line) = Instruction(line.op, line.cond, ops)
  BY InstructionOf DEF MeaningOf, Instructions, Instruction
<1>. QED  BY <1>3, <1>4

-----------------------------------------------------------------------------
(* The assembler reads a listing                                           *)

LEMMA HexRead ==
  ASSUME NEW v \in 0 .. WordSize - 1
  PROVE  /\ Hex(v) \in Operand /\ Hex(v).lex # "NAME" /\ InRange(Hex(v))
         /\ KindOf(Hex(v)) = "INT" /\ IntOf(Hex(v)) = v
<1>1. v \in Nat
  OBVIOUS
<1>2. Hex(v) = [lex |-> "HEX", val |-> v] /\ Hex(v).lex = "HEX" /\ Hex(v).val = v
  BY DEF Hex
<1>3. Hex(v) \in Operand
  BY <1>1, <1>2 DEF Operand
<1>4. InRange(Hex(v))
  BY <1>2 DEF InRange
<1>5. v % WordSize = v
  <2>1. WordSize \in Nat \ {0} /\ WordSize * 0 + v = v
    BY FieldSizes
  <2>. QED  BY <2>1, DivModUnique
<1>. QED  BY <1>2, <1>3, <1>4, <1>5 DEF KindOf, IntOf

LEMMA NameIsName ==
  ASSUME NEW kind \in TableKinds, NEW n \in DOMAIN NamesOf[kind]
  PROVE  NamesOf[kind][n] \in OperandNames \ {NotAName}
<1>1. NamesOf[kind][n] \in OperandNames
  <2>1. NamesOf[kind][n] \in Names(NamesOf[kind]) /\ kind \in DOMAIN NamesOf
    BY TableSizes DEF Names
  <2>. QED  BY <2>1 DEF OperandNames
<1>2. CASE kind = "REG32"
  BY <1>1, <1>2, TableSizes DEF Reg32Names, NotAName
<1>3. CASE kind = "REG16"
  BY <1>1, <1>3, TableSizes DEF Reg16Names, NotAName
<1>4. CASE kind = "REG8"
  BY <1>1, <1>4, TableSizes DEF Reg8Names, NotAName
<1>5. CASE kind = "CREG"
  BY <1>1, <1>5, TableSizes DEF CregNames, NotAName
<1>. QED  BY <1>2, <1>3, <1>4, <1>5 DEF TableKinds

LEMMA NameRead ==
  ASSUME NEW kind \in TableKinds, NEW c \in Codes(kind)
  PROVE  LET o == Name(NameOf(kind, c))
         IN  /\ o \in Operand /\ o.lex = "NAME" /\ o.name = NameOf(kind, c)
             /\ InRange(o) /\ KindOf(o) = kind
<1>1. c + 1 \in DOMAIN NamesOf[kind] /\ NameOf(kind, c) = NamesOf[kind][c + 1]
  BY CodeName
<1>2. KindOf(Name(NameOf(kind, c))) = kind
  BY <1>1, NameKind
<1>3. NameOf(kind, c) \in OperandNames
  BY <1>1, NameIsName
<1>. QED  BY <1>2, <1>3 DEF Name, Operand, InRange

\* A printed operand is read as what it was printed for, from any table.
LEMMA PrintedRead ==
  ASSUME NEW line \in Instructions, Accepted(line), NEW r \in RulesFor(line),
         NEW k \in DOMAIN r.kinds
  PROVE  LET v == FieldValue(r, line, r.slots[k])
             o == Text(r.kinds[k], v)
         IN  /\ o \in Operand /\ InRange(o) /\ KindOf(o) = r.kinds[k]
             /\ v = IF o.lex = "NAME" THEN CodeOf(Tables(r, line)[k], o.name) ELSE IntOf(o)
<1>. DEFINE v == FieldValue(r, line, r.slots[k])
            o == Text(r.kinds[k], v)
            table == Tables(r, line)[k]
            kind == r.kinds[k]
<1>1. /\ r \in Grammar /\ line.op \in r.ops /\ k \in DOMAIN r.slots
      /\ kind \in Kinds /\ r.slots[k] \in RegSlots \cup Numeric
      /\ kind = "INT" <=> r.slots[k] \in Numeric
  BY RuleOfLine, RuleShape
<1>2. CASE kind = "INT"
  <2>1. v \in Fits(r.slots[k])
    BY ValueFits
  <2>2. v \in 0 .. WordSize - 1
    <3>1. NReg * ByteSize - 1 <= WordSize - 1 /\ NReg * ByteSize \in Nat /\ WordSize \in Nat
      BY SizesOrder
    <3>. HIDE DEF v
    <3>. QED  BY <1>1, <1>2, <2>1, <3>1 DEF Fits, RegSlots, Numeric
  <2>3. o = Hex(v)
    BY <1>2 DEF Text
  <2>. HIDE DEF v, o
  <2>. QED  BY <1>2, <2>2, <2>3, HexRead DEF v, o
<1>3. CASE kind # "INT"
  <2>1. kind \in TableKinds /\ v \in Codes(kind) /\ (table # kind => v = 0)
    BY <1>1, <1>3, CodeFits DEF Kinds
  <2>2. o = Name(NameOf(kind, v))
    BY <1>3 DEF Text
  <2>3. table \in TableKinds /\ (table # kind => table # "CREG")
    BY <1>1, <1>3, TablesShape
  <2>. HIDE DEF v, o, table, kind
  <2>4. o \in Operand /\ o.lex = "NAME" /\ o.name = NameOf(kind, v) /\ InRange(o)
        /\ KindOf(o) = kind
    BY <2>1, <2>2, NameRead
  <2>5. CodeOf(table, o.name) = v
    <3>1. CASE table = kind
      BY <2>1, <2>4, <3>1, CodeName
    <3>2. CASE table # kind
      BY <2>1, <2>3, <2>4, <3>2, CodeName, Foreign
    <3>. QED  BY <3>1, <3>2
  <2>. QED  BY <2>4, <2>5 DEF v, o, table, kind
<1>. QED  BY <1>2, <1>3

LEMMA SameFields ==
  ASSUME NEW r \in Grammar, NEW line, NEW p,
         \A k \in DOMAIN r.slots : FieldValue(r, p, r.slots[k]) = FieldValue(r, line, r.slots[k])
  PROVE  \A f : FieldValue(r, p, f) = FieldValue(r, line, f)
<1>. TAKE f
<1>1. CASE \E k \in DOMAIN r.slots : r.slots[k] = f
  BY <1>1
<1>2. CASE \A k \in DOMAIN r.slots : r.slots[k] # f
  BY <1>2, FieldValueNone
<1>. QED  BY <1>1, <1>2

\* What vdis prints of an instruction the assembler accepts, and encodes as it
\* encoded the instruction.
LEMMA PrintedAgain ==
  ASSUME NEW line \in Instructions, Accepted(line)
  PROVE  /\ Printed(line) \in Instructions /\ Accepted(Printed(line))
         /\ Encoded(Printed(line)) = Encoded(line)
<1>. DEFINE r == RuleOf(line)
            p == Printed(line)
            text(k) == Text(r.kinds[k], FieldValue(r, line, r.slots[k]))
<1>1. r \in RulesFor(line)
  BY EncodedFields
<1>2. /\ r \in Grammar /\ line.op \in r.ops /\ DOMAIN r.kinds = DOMAIN line.operands
      /\ DOMAIN r.slots = DOMAIN line.operands
      /\ \A k \in DOMAIN line.operands : r.kinds[k] = KindOf(line.operands[k])
  BY <1>1, RuleOfLine
<1>3. p.op = line.op /\ p.cond = line.cond /\ p.operands = [k \in DOMAIN line.operands |-> text(k)]
  BY <1>2 DEF Printed, Instruction
<1>4. \A k \in DOMAIN line.operands :
        text(k) \in Operand /\ InRange(text(k)) /\ KindOf(text(k)) = r.kinds[k]
  BY <1>1, <1>2, PrintedRead
<1>5. p \in Instructions
  <2>1. line.operands \in Seq(Operand) /\ DOMAIN line.operands = 1 .. Len(line.operands)
        /\ Len(line.operands) \in Nat
    BY DEF Instructions
  <2>. HIDE DEF r, text
  <2>2. p.operands \in Seq(Operand)
    BY <1>3, <1>4, <2>1
  <2>3. p = Instruction(p.op, p.cond, p.operands)
    BY DEF Printed, Instruction
  <2>. HIDE DEF p
  <2>. QED  BY <1>3, <2>2, <2>3 DEF Instructions, Instruction
<1>. HIDE DEF p
<1>6. RulesFor(p) = RulesFor(line)
  <2>. HIDE DEF r, text
  <2>1. [k \in DOMAIN p.operands |-> KindOf(p.operands[k])]
          = [k \in DOMAIN line.operands |-> KindOf(line.operands[k])]
    BY <1>2, <1>3, <1>4
  <2>. QED  BY <1>3, <2>1 DEF RulesFor
<1>7. RuleOf(p) = r
  BY <1>6 DEF RuleOf
<1>8. Tables(r, p) = Tables(r, line)
  BY <1>3 DEF Tables
<1>9. ASSUME NEW k \in DOMAIN r.slots
      PROVE  FieldValue(r, p, r.slots[k]) = FieldValue(r, line, r.slots[k])
  <2>1. FieldValue(r, p, r.slots[k]) =
          IF text(k).lex = "NAME" THEN CodeOf(Tables(r, p)[k], text(k).name)
          ELSE IntOf(text(k))
    <3>1. p.operands[k] = text(k)
      BY <1>2, <1>3
    <3>. HIDE DEF r, text
    <3>. QED  BY <1>2, <3>1, FieldValueAt
  <2>. QED  BY <1>1, <1>2, <1>8, <2>1, PrintedRead
<1>10. \A f : FieldValue(r, p, f) = FieldValue(r, line, f)
  <2>. HIDE DEF r
  <2>. QED  BY <1>2, <1>9, SameFields
<1>11. Encoded(p) = Encoded(line)
  BY <1>3, <1>6, <1>10 DEF Encoded, RuleOf
<1>12. Accepted(p)
  <2>1. FieldValue(r, line, "imm12") < NReg * ByteSize
    <3>1. FieldValue(r, line, "imm12") \in 0 .. NReg * ByteSize - 1
      BY <1>1, ValueFits DEF Fits, RegSlots
    <3>. HIDE DEF r
    <3>2. NReg * ByteSize \in Nat
      BY FieldSizes
    <3>. QED  BY <3>1, <3>2
  <2>2. \A k \in DOMAIN p.operands : InRange(p.operands[k])
    BY <1>3, <1>4
  <2>. HIDE DEF r, text
  <2>. QED  BY <1>1, <1>6, <1>10, <2>1, <2>2 DEF Accepted
<1>. QED  BY <1>5, <1>11, <1>12 DEF p

-----------------------------------------------------------------------------
(* Any four bytes                                                          *)

LEMMA ByteRange == Byte = 0 .. 255
  BY ByteNumber, SMT DEF Byte

\* Two bytes are a word.
LEMMA DigitsOf ==
  ASSUME NEW m \in Nat \ {0}, NEW d \in 0 .. m - 1, NEW c \in Byte
  PROVE  d * ByteSize + c \in 0 .. m * ByteSize - 1
<1>1. ByteSize \in Nat \ {0} /\ c \in 0 .. ByteSize - 1
  BY FieldSizes DEF Byte
<1>2. d * ByteSize <= (m - 1) * ByteSize /\ d * ByteSize \in Nat
  BY <1>1
<1>3. (m - 1) * ByteSize = m * ByteSize - ByteSize /\ m * ByteSize \in Nat
  BY <1>1
<1>. QED  BY <1>1, <1>2, <1>3

LEMMA WordOf ==
  ASSUME NEW hi \in Byte, NEW lo \in Byte
  PROVE  hi * ByteSize + lo \in 0 .. WordSize - 1
<1>1. ByteSize \in Nat \ {0} /\ hi \in 0 .. ByteSize - 1
  BY FieldSizes DEF Byte
<1>. QED  BY <1>1, DigitsOf DEF WordSize

\* The fields of any four bytes.
LEMMA FieldTypes ==
  ASSUME NEW b \in Quads
  PROVE  /\ b[0] % 64 \in 0 .. 63 /\ b[0] \div 64 \in 0 .. 3
         /\ Fields(b).cond \in Field
         /\ \A f \in RegSlots : Fields(b)[f] \in 0 .. 15
         /\ \A f \in Numeric : Fields(b)[f] \in Fits(f)
<1>1. b[0] \in Byte /\ b[1] \in Byte /\ b[2] \in Byte /\ b[3] \in Byte
  BY DEF Quads
<1>2. b[0] % 64 \in 0 .. 63 /\ b[0] \div 64 \in 0 .. 3
  <2>1. b[0] \in 0 .. 255
    BY <1>1, ByteRange, Zenon
  <2>. QED  BY <2>1, SMT
<1>3. ASSUME NEW c \in Byte  PROVE c \div NReg \in Field /\ c % NReg \in Field
  <2>1. c \in 0 .. NReg * NReg - 1 /\ NReg \in Nat \ {0} /\ c \in Int
    BY FieldSizes DEF Byte, ByteSize
  <2>. QED  BY <2>1, QuotientRange, DivMod DEF Field
<1>4. \A f \in RegSlots : Fields(b)[f] \in 0 .. 15
  BY <1>1, <1>3, FieldRange DEF Fields, RegSlots
<1>5. Fields(b).cond \in Field
  BY <1>1, <1>3 DEF Fields
<1>6. Fields(b).imm16 \in Fits("imm16")
  BY <1>1, WordOf DEF Fields, Fits, RegSlots
<1>7. Fields(b).imm12 \in Fits("imm12")
  <2>1. b[2] % NReg \in Field
    BY <1>1, <1>3
  <2>2. (b[2] % NReg) * ByteSize + b[3] \in 0 .. NReg * ByteSize - 1
    BY <1>1, <2>1, FieldSizes, DigitsOf DEF Field
  <2>. QED  BY <1>1, <2>1, <2>2 DEF Fields, Fits, RegSlots
<1>. QED  BY <1>2, <1>4, <1>5, <1>6, <1>7 DEF Numeric

\* The form of a word, when it has one.
FormsIn(b) == FormsFor(PrefixNames[b[0] \div 64 + 1], OpName(b[0] % 64))
FormOf(b) == CHOOSE g \in FormsIn(b) : TRUE

LEMMA PrefixType ==
  ASSUME NEW p \in 0 .. 3
  PROVE  PrefixNames[p + 1] \in {"DWORD", "WORD", "BYTE", "IMM"}
  BY DEF PrefixNames

LEMMA OpNameType ==
  ASSUME NEW c \in 0 .. 63
  PROVE  OpName(c) \in Names(OpNames) \cup {NotAName}
<1>1. CASE c + 1 \in DOMAIN OpNames /\ OpNames[c + 1] # ""
  BY <1>1 DEF OpName, Names
<1>2. CASE ~(c + 1 \in DOMAIN OpNames /\ OpNames[c + 1] # "")
  BY <1>2 DEF OpName
<1>. QED  BY <1>1, <1>2

LEMMA CondNameType ==
  ASSUME NEW c \in Field
  PROVE  CondName(c) \in Names(CondNames)
<1>1. c + 1 \in 1 .. 16
  BY FieldRange
<1>. QED  BY <1>1, CondEntries DEF CondName, Names

\* The line of any four bytes, and what its operands print.
LEMMA ListedIs ==
  ASSUME NEW b \in Quads
  PROVE  LET line == Listed(b)
             form == FormOf(b)
         IN  /\ line.op = OpName(b[0] % 64) /\ line.op \in Names(OpNames) \cup {NotAName}
             /\ line.cond \in Names(CondNames)
             /\ line = Instruction(line.op, line.cond, line.operands)
             /\ FormsIn(b) = {} => line.operands = << >>
             /\ FormsIn(b) # {} =>
                  /\ form \in FormsIn(b)
                  /\ line.operands = [k \in DOMAIN form.kinds |->
                                        Text(form.kinds[k], Fields(b)[form.fields[k]])]
<1>1. Listed(b) = Instruction(OpName(b[0] % 64), CondName(Fields(b).cond),
                    IF FormsIn(b) = {} THEN << >>
                    ELSE [k \in DOMAIN FormOf(b).kinds |->
                            Text(FormOf(b).kinds[k], Fields(b)[FormOf(b).fields[k]])])
  BY DEF Listed, FormsIn, FormOf, FormsFor, Text
<1>2. FormsIn(b) # {} => FormOf(b) \in FormsIn(b)
  BY DEF FormOf
<1>3. /\ OpName(b[0] % 64) \in Names(OpNames) \cup {NotAName}
      /\ CondName(Fields(b).cond) \in Names(CondNames)
  BY FieldTypes, OpNameType, CondNameType
<1>4. ASSUME NEW op, NEW cond, NEW operands
      PROVE  LET i == Instruction(op, cond, operands)
             IN  i.op = op /\ i.cond = cond /\ i.operands = operands
  BY DEF Instruction
<1>. QED  BY <1>1, <1>2, <1>3, <1>4

LEMMA KindsFunction ==
  ASSUME NEW r \in Grammar
  PROVE  r.kinds = [k \in DOMAIN r.kinds |-> r.kinds[k]] /\ DOMAIN r.kinds \in {1 .. 0, 1 .. 1, 1 .. 2, 1 .. 3}
<1>. USE DEF DwordRules, LoadRules, StoreRules, WidthRules, NarrowRules,
             ImmediateRules, Rule
<1>1. CASE r \in DwordRules
  BY <1>1
<1>2. CASE r \in WidthRules("REG32", "DWORD")
  BY <1>2
<1>3. CASE r \in NarrowRules("REG16", "WORD")
  BY <1>3
<1>4. CASE r \in NarrowRules("REG8", "BYTE")
  BY <1>4
<1>5. CASE r \in ImmediateRules
  BY <1>5
<1>. QED  BY <1>1, <1>2, <1>3, <1>4, <1>5 DEF Grammar

LEMMA NoNameKind == KindOf(Name(NotAName)) = "GARBAGE"
<1>1. {k \in DOMAIN NamesOf : \E n \in DOMAIN NamesOf[k] : NamesOf[k][n] = NotAName} = {}
  BY TableSizes, NameIsName
<1>. QED  BY <1>1 DEF KindOf, Name

\* The form of a word has a rule of the grammar.
LEMMA FormOfRule ==
  ASSUME NEW b \in Quads, FormsIn(b) # {}
  PROVE  \E r \in Grammar : /\ OpName(b[0] % 64) \in r.ops
                            /\ r.kinds = FormOf(b).kinds /\ r.slots = FormOf(b).fields
<1>1. FormOf(b) \in FormsFor(PrefixNames[b[0] \div 64 + 1], OpName(b[0] % 64))
  BY ListedIs DEF FormsIn
<1>2. PrefixNames[b[0] \div 64 + 1] \in {"DWORD", "WORD", "BYTE", "IMM"}
  BY FieldTypes, PrefixType
<1>. QED  BY <1>1, <1>2, FormRule

\* A printed operand is read as its kind, but for a control register's code
\* without a name.
LEMMA ListedOperand ==
  ASSUME NEW b \in Quads, FormsIn(b) # {}, NEW k \in DOMAIN FormOf(b).kinds
  PROVE  LET kind == FormOf(b).kinds[k]
             v == Fields(b)[FormOf(b).fields[k]]
             o == Text(kind, v)
         IN  /\ o \in Operand /\ InRange(o)
             /\ (o.lex = "NAME" => o.name # NotAName) <=> KindOf(o) = kind
             /\ kind = "INT" => v \in Fits(FormOf(b).fields[k]) /\ o.lex # "NAME" /\ IntOf(o) = v
<1>. DEFINE kind == FormOf(b).kinds[k]
            f == FormOf(b).fields[k]
            v == Fields(b)[f]
            o == Text(kind, v)
<1>1. /\ kind \in Kinds /\ f \in RegSlots \cup Numeric
      /\ kind = "INT" <=> f \in Numeric
  BY FormOfRule, RuleShape
<1>2. CASE kind = "INT"
  <2>1. v \in Fits(f) /\ f \in Numeric
    BY <1>1, <1>2, FieldTypes
  <2>2. o = Hex(v)
    BY <1>2 DEF Text
  <2>. HIDE DEF kind, f, v, o
  <2>3. v \in 0 .. WordSize - 1
    <3>1. NReg * ByteSize - 1 <= WordSize - 1 /\ NReg * ByteSize \in Nat /\ WordSize \in Nat
      BY SizesOrder
    <3>. QED  BY <2>1, <3>1 DEF Fits, RegSlots, Numeric
  <2>. QED  BY <1>2, <2>1, <2>2, <2>3, HexRead DEF kind, f, v, o
<1>3. CASE kind # "INT" /\ v \in Codes(kind)
  <2>1. o = Name(NameOf(kind, v)) /\ kind \in TableKinds
    BY <1>1, <1>3 DEF Text, Kinds
  <2>. HIDE DEF kind, f, v, o
  <2>2. NameOf(kind, v) # NotAName
    BY <1>3, <2>1, CodeName, NameIsName
  <2>. QED  BY <1>3, <2>1, <2>2, NameRead DEF kind, f, v, o
<1>4. CASE kind # "INT" /\ v \notin Codes(kind)
  <2>1. v \in 0 .. 15
    BY <1>1, <1>4, FieldTypes
  <2>2. o = Name(NameOf(kind, v)) /\ kind \in TableKinds
    BY <1>1, <1>4 DEF Text, Kinds
  <2>. HIDE DEF kind, f, v, o
  <2>3. kind = "CREG" /\ ~(v < 8)
    BY <1>4, <2>1 DEF Codes
  <2>4. NameOf(kind, v) = NotAName
    BY <2>3 DEF NameOf
  <2>5. /\ Name(NotAName) \in Operand /\ Name(NotAName).lex = "NAME"
        /\ Name(NotAName).name = NotAName /\ InRange(Name(NotAName))
    <3>1. NotAName \in OperandNames
      BY DEF OperandNames
    <3>. QED  BY <3>1 DEF Name, Operand, InRange
  <2>6. KindOf(o) # kind
    BY <2>2, <2>3, <2>4, NoNameKind
  <2>. QED  BY <1>4, <2>2, <2>4, <2>5, <2>6 DEF kind, f, v, o
<1>. QED  BY <1>2, <1>3, <1>4

LEMMA ListedType ==
  ASSUME NEW b \in Quads
  PROVE  Listed(b) \in Instructions
<1>. DEFINE line == Listed(b)
<1>1. line.operands \in Seq(Operand)
  <2>1. CASE FormsIn(b) = {}
    <3>1. line.operands = << >>
      BY <2>1, ListedIs
    <3>. HIDE DEF line
    <3>. QED  BY <3>1
  <2>2. CASE FormsIn(b) # {}
    <3>. DEFINE kinds == FormOf(b).kinds
                text(k) == Text(kinds[k], Fields(b)[FormOf(b).fields[k]])
    <3>1. DOMAIN kinds \in {1 .. 0, 1 .. 1, 1 .. 2, 1 .. 3}
      BY <2>2, FormOfRule, KindsFunction
    <3>2. \A k \in DOMAIN kinds : text(k) \in Operand
      BY <2>2, ListedOperand
    <3>3. line.operands = [k \in DOMAIN kinds |-> text(k)]
      BY <2>2, ListedIs
    <3>. HIDE DEF line, kinds, text
    <3>4. \E n \in Nat : DOMAIN kinds = 1 .. n
      BY <3>1
    <3>. QED  BY <3>2, <3>3, <3>4
  <2>. QED  BY <2>1, <2>2
<1>2. /\ line = Instruction(line.op, line.cond, line.operands)
      /\ line.op \in Names(OpNames) \cup {NotAName} /\ line.cond \in Names(CondNames)
  BY ListedIs
<1>. HIDE DEF line
<1>3. line \in Instructions
  BY <1>1, <1>2 DEF Instructions, Instruction
<1>. QED  BY <1>3 DEF line

LEMMA GrammarOpsNamed == NotAName \notin GrammarOps
  BY DEF NotAName, GrammarOps, FmtI, FmtII, FmtIV, FmtV, FmtVI, FmtVIC, FmtVIII,
         AddressSpace

LEMMA EmptyRule == \E r \in Grammar : r.ops = FmtI /\ r.kinds = << >> /\ r.slots = << >>
<1>1. Rule(FmtI, << >>, "DWORD", << >>) \in Grammar
  BY DEF Grammar, DwordRules
<1>. QED  BY <1>1 DEF Rule

\* The assembler accepts a listed line exactly when it is readable.
LEMMA ReadableAccepted ==
  ASSUME NEW b \in Quads
  PROVE  Accepted(Listed(b)) <=> Readable(b)
<1>. DEFINE line == Listed(b)
<1>1. line \in Instructions /\ ~IsRaw(line)
  BY ListedType, LineType
<1>2. ASSUME Accepted(line)  PROVE Readable(b)
  <2>1. PICK r \in RulesFor(line) : TRUE
    BY <1>1, <1>2 DEF Accepted
  <2>2. /\ r \in Grammar /\ line.op \in r.ops /\ line.op \in GrammarOps
        /\ DOMAIN r.kinds = DOMAIN line.operands
        /\ \A k \in DOMAIN line.operands : r.kinds[k] = KindOf(line.operands[k])
    BY <1>1, RuleOfLine
  <2>3. r.kinds = [k \in DOMAIN line.operands |-> KindOf(line.operands[k])]
        /\ (line.op \in AddressSpace => line.cond = "ALWAYS")
    BY DEF RulesFor
  <2>. HIDE DEF line
  <2>4. line.op # NotAName
    BY <2>2, GrammarOpsNamed
  <2>5. ASSUME line.operands = << >>  PROVE line.op \in FmtI
    <3>1. r.kinds = << >>
      BY <2>3, <2>5
    <3>. QED  BY <2>2, <3>1, NoOperands
  <2>6. ASSUME NEW k \in DOMAIN line.operands, line.operands[k].lex = "NAME"
        PROVE  line.operands[k].name # NotAName
    <3>1. KindOf(line.operands[k]) \in TableKinds
      BY <2>2, <2>6, RuleShape, OperandKind DEF Kinds
    <3>. QED  BY <3>1, OperandKind, NameIsName
  <2>. QED  BY <2>3, <2>4, <2>5, <2>6 DEF Readable, line
<1>3. ASSUME Readable(b)  PROVE Accepted(line)
  <2>1. /\ line.operands = << >> => line.op \in FmtI
        /\ \A k \in DOMAIN line.operands :
             line.operands[k].lex = "NAME" => line.operands[k].name # NotAName
        /\ line.op \in AddressSpace => line.cond = "ALWAYS"
    BY <1>3 DEF Readable
  <2>2. CASE FormsIn(b) = {}
    <3>1. line.operands = << >>
      BY <2>2, ListedIs
    <3>2. PICK r \in Grammar : r.ops = FmtI /\ r.kinds = << >> /\ r.slots = << >>
      BY EmptyRule
    <3>. HIDE DEF line
    <3>3. r \in RulesFor(line)
      BY <2>1, <3>1, <3>2 DEF RulesFor
    <3>4. FieldValue(r, line, "imm12") = 0
      BY <3>2, FieldValueNone
    <3>5. 0 < NReg * ByteSize
      BY FieldSizes
    <3>. QED  BY <3>1, <3>3, <3>4, <3>5 DEF Accepted
  <2>3. CASE FormsIn(b) # {}
    <3>. DEFINE form == FormOf(b)
                val(k) == Fields(b)[form.fields[k]]
                text(k) == Text(form.kinds[k], val(k))
    <3>1. PICK r \in Grammar : /\ OpName(b[0] % 64) \in r.ops
                               /\ r.kinds = form.kinds /\ r.slots = form.fields
      BY <2>3, FormOfRule
    <3>2. /\ line.op \in r.ops
          /\ line.operands = [k \in DOMAIN form.kinds |-> text(k)]
      BY <2>3, <3>1, ListedIs
    <3>3. \A k \in DOMAIN form.kinds :
            /\ text(k) \in Operand /\ InRange(text(k))
            /\ (text(k).lex = "NAME" => text(k).name # NotAName) <=> KindOf(text(k)) = form.kinds[k]
            /\ form.kinds[k] = "INT" =>
                 val(k) \in Fits(form.fields[k]) /\ text(k).lex # "NAME" /\ IntOf(text(k)) = val(k)
      BY <2>3, ListedOperand
    <3>4. r.kinds = [k \in DOMAIN r.kinds |-> r.kinds[k]] /\ DOMAIN r.slots = DOMAIN r.kinds
      BY KindsFunction, RuleShape
    <3>. HIDE DEF line, form, text, val
    <3>5. \A k \in DOMAIN form.kinds : KindOf(text(k)) = form.kinds[k]
      BY <2>1, <3>2, <3>3
    <3>6. [k \in DOMAIN line.operands |-> KindOf(line.operands[k])] = r.kinds
      BY <3>1, <3>2, <3>4, <3>5
    <3>7. r \in RulesFor(line)
      BY <2>1, <3>2, <3>6 DEF RulesFor
    <3>8. FieldValue(r, line, "imm12") < NReg * ByteSize
      <4>1. CASE \A k \in DOMAIN r.slots : r.slots[k] # "imm12"
        <5>1. FieldValue(r, line, "imm12") = 0
          BY <4>1, FieldValueNone
        <5>. QED  BY <5>1, FieldSizes
      <4>2. ASSUME NEW k \in DOMAIN r.slots, r.slots[k] = "imm12"
            PROVE  FieldValue(r, line, "imm12") < NReg * ByteSize
        <5>1. r.kinds[k] = "INT" /\ k \in DOMAIN form.kinds
          BY <3>1, <3>4, <4>2, RuleShape DEF Numeric
        <5>2. line.operands[k] = text(k) /\ text(k).lex # "NAME" /\ IntOf(text(k)) = val(k)
          BY <3>1, <3>2, <3>3, <5>1
        <5>3. FieldValue(r, line, "imm12") = val(k)
          BY <4>2, <5>2, FieldValueAt
        <5>4. val(k) \in 0 .. NReg * ByteSize - 1
          BY <3>1, <3>3, <4>2, <5>1 DEF Fits, RegSlots
        <5>. QED  BY <5>3, <5>4, FieldSizes
      <4>. QED  BY <4>1, <4>2
    <3>9. \A k \in DOMAIN line.operands : InRange(line.operands[k])
      BY <3>2, <3>3
    <3>. QED  BY <3>7, <3>8, <3>9 DEF Accepted
  <2>. QED  BY <2>2, <2>3
<1>. QED  BY <1>2, <1>3

\* A readable line means what it says.
LEMMA ListedMeans ==
  ASSUME NEW b \in Quads
  PROVE  MeaningOf(Listed(b)) = Listed(b)
<1>. DEFINE line == Listed(b)
<1>1. line \in Instructions
  BY ListedType
<1>2. \A k \in DOMAIN line.operands : Meaning(line.operands[k]) = line.operands[k]
  <2>1. CASE FormsIn(b) = {}
    <3>1. line.operands = << >>
      BY <2>1, ListedIs
    <3>. QED  BY <3>1
  <2>2. ASSUME FormsIn(b) # {}, NEW k \in DOMAIN line.operands
        PROVE  Meaning(line.operands[k]) = line.operands[k]
    <3>. DEFINE kind == FormOf(b).kinds[k]
                v == Fields(b)[FormOf(b).fields[k]]
    <3>1. line.operands[k] = Text(kind, v) /\ k \in DOMAIN FormOf(b).kinds
      BY <2>2, ListedIs
    <3>2. kind = "INT" => IntOf(Text(kind, v)) = v
      BY <2>2, <3>1, ListedOperand
    <3>. HIDE DEF line, kind, v
    <3>3. CASE kind = "INT"
      <4>1. Text(kind, v) = Hex(v)
        BY <3>3 DEF Text
      <4>2. Hex(v).lex = "HEX" /\ Hex(v).val = v
        BY DEF Hex
      <4>3. v % WordSize = v
        BY <3>2, <3>3, <4>1, <4>2 DEF IntOf
      <4>. QED  BY <3>1, <4>1, <4>2, <4>3 DEF Meaning
    <3>4. CASE kind # "INT"
      BY <3>1, <3>4 DEF Text, Name, Meaning
    <3>. QED  BY <3>3, <3>4
  <2>. QED  BY <2>1, <2>2
<1>. HIDE DEF line
<1>3. MeaningOf(line) = [line EXCEPT !.operands = [k \in DOMAIN @ |-> line.operands[k]]]
  BY <1>2 DEF MeaningOf
<1>4. [k \in DOMAIN line.operands |-> line.operands[k]] = line.operands
  BY <1>1 DEF Instructions
<1>. QED  BY <1>1, <1>3, <1>4 DEF Instructions, line

-----------------------------------------------------------------------------
(* The inductive invariant                                                 *)

Types ==
  /\ source \in Seq(Line) /\ listing \in Seq(Instructions)
  /\ file \in Seq(Byte) /\ again \in Seq(Byte)
  /\ at \in Nat /\ overread \in BOOLEAN
  /\ phase \in {"assembling", "listing", "reassembling", "done", "rejected"}

\* How far each phase has come.  A program rejected at its first reading has no
\* listing.
Progress ==
  /\ phase = "assembling" => listing = << >> /\ ~overread
  /\ phase \in {"assembling", "listing"} => again = << >>
  /\ ~Finished => at <= Len(source)
  /\ phase = "listing" => at = Len(source)
  /\ Finished => at <= Len(listing) /\ Len(file) <= 4 * Len(listing)
  /\ phase = "done" => at = Len(listing)
  /\ phase = "rejected" /\ listing # << >> => at < Len(listing) /\ ~Accepted(listing[at + 1])

\* These bytes are the first n instructions of a text.
Assembled(bytes, text, n) ==
  /\ Len(bytes) = 4 * n
  /\ \A k \in 1 .. n : Accepted(text[k]) /\ QuadAt(bytes, k) = Encoded(text[k])

FileIsSource ==
  OnlyInstructions =>
    /\ phase = "assembling" => Assembled(file, source, at)
    /\ phase = "listing" \/ Finished => Assembled(file, source, Len(source))

ListingIsFile ==
  /\ 4 * Len(listing) < Len(file) + 4
  /\ overread => Len(file) % 4 \in {1, 2}
  /\ \A k \in DOMAIN listing : 4 * k <= Len(file) => listing[k] = Listed(QuadAt(file, k))

AgainIsListing == Finished => Assembled(again, listing, at)

IInv == Types /\ Progress /\ FileIsSource /\ ListingIsFile /\ AgainIsListing

LEMMA BytesOfType ==
  ASSUME NEW line \in Line, Accepted(line)
  PROVE  /\ BytesOf(line) \in Seq(Byte)
         /\ ~IsRaw(line) =>
              /\ Encoded(line) \in Quads /\ Len(BytesOf(line)) = 4
              /\ \A j \in 0 .. 3 : BytesOf(line)[j + 1] = Encoded(line)[j]
<1>1. CASE IsRaw(line)
  <2>1. line \in [bytes : Seq(0 .. 255)]
    BY <1>1, LineType DEF Line, Instructions
  <2>2. line.bytes \in Seq(0 .. 255)
    BY <2>1
  <2>3. BytesOf(line) = line.bytes
    BY <1>1 DEF BytesOf
  <2>. QED  BY <1>1, <2>2, <2>3, ByteRange, Zenon
<1>2. CASE ~IsRaw(line)
  <2>. DEFINE q == Encoded(line)
  <2>1. q \in [0 .. 3 -> Byte]
    BY <1>2, LineType, EncodedFields DEF Opens, Quads
  <2>2. BytesOf(line) = [k \in 1 .. 4 |-> q[k - 1]]
    BY <1>2 DEF BytesOf
  <2>. HIDE DEF q
  <2>3. \A k \in 1 .. 4 : q[k - 1] \in Byte
    BY <2>1
  <2>4. BytesOf(line) \in [1 .. 4 -> Byte] /\ \A j \in 0 .. 3 : BytesOf(line)[j + 1] = q[j]
    BY <2>2, <2>3
  <2>5. BytesOf(line) \in Seq(Byte)
    BY <2>4, SeqDef, 4 \in Nat
  <2>6. Len(BytesOf(line)) = 4
    BY <2>4, <2>5
  <2>. QED  BY <1>2, <2>1, <2>4, <2>5, <2>6 DEF q, Quads
<1>. QED  BY <1>1, <1>2

LEMMA QuadAtType ==
  ASSUME NEW bytes \in Seq(Byte), NEW k \in Nat \ {0}, 4 * k <= Len(bytes)
  PROVE  QuadAt(bytes, k) \in Quads
<1>1. \A j \in 0 .. 3 : 4 * k - 3 + j \in 1 .. Len(bytes)
  OBVIOUS
<1>2. \A j \in 0 .. 3 : bytes[4 * k - 3 + j] \in Byte
  BY <1>1
<1>. QED  BY <1>2 DEF QuadAt, Quads

\* One more instruction.
LEMMA AssembledNext ==
  ASSUME NEW bytes \in Seq(Byte), NEW text, NEW n \in Nat, Assembled(bytes, text, n),
         text[n + 1] \in Instructions, Accepted(text[n + 1])
  PROVE  Assembled(bytes \o BytesOf(text[n + 1]), text, n + 1)
<1>. DEFINE line == text[n + 1]
            b == BytesOf(line)
            more == bytes \o b
<1>1. line \in Line /\ ~IsRaw(line) /\ Accepted(line)
  BY LineType
<1>2. /\ b \in Seq(Byte) /\ Len(b) = 4 /\ Encoded(line) \in Quads
      /\ \A j \in 0 .. 3 : b[j + 1] = Encoded(line)[j]
  BY <1>1, BytesOfType
<1>3. Len(bytes) = 4 * n
  BY DEF Assembled
<1>. HIDE DEF line, b
<1>4. /\ more \in Seq(Byte) /\ Len(more) = 4 * (n + 1)
      /\ \A i \in 1 .. 4 * n : more[i] = bytes[i]
      /\ \A j \in 0 .. 3 : more[4 * n + 1 + j] = b[j + 1]
  <2>1. /\ more \in Seq(Byte) /\ Len(more) = Len(bytes) + Len(b)
        /\ \A i \in 1 .. Len(bytes) + Len(b) :
             more[i] = IF i <= Len(bytes) THEN bytes[i] ELSE b[i - Len(bytes)]
    BY <1>2, ConcatProperties, Zenon
  <2>. HIDE DEF more
  <2>2. Len(more) = 4 * (n + 1) /\ \A i \in 1 .. 4 * n : more[i] = bytes[i]
    BY <1>2, <1>3, <2>1
  <2>3. ASSUME NEW j \in 0 .. 3  PROVE more[4 * n + 1 + j] = b[j + 1]
    <3>1. 4 * n + 1 + j \in 1 .. Len(more) /\ ~(4 * n + 1 + j <= 4 * n)
          /\ (4 * n + 1 + j) - 4 * n = j + 1
      BY <2>2
    <3>. QED  BY <1>3, <2>1, <3>1
  <2>. QED  BY <2>1, <2>2, <2>3
<1>. HIDE DEF more
<1>5. ASSUME NEW k \in 1 .. n  PROVE QuadAt(more, k) = QuadAt(bytes, k)
  <2>1. \A j \in 0 .. 3 : 4 * k - 3 + j \in 1 .. 4 * n
    OBVIOUS
  <2>2. \A j \in 0 .. 3 : more[4 * k - 3 + j] = bytes[4 * k - 3 + j]
    BY <1>4, <2>1
  <2>. QED  BY <2>2 DEF QuadAt
<1>6. QuadAt(more, n + 1) = Encoded(line)
  <2>1. \A j \in 0 .. 3 : 4 * (n + 1) - 3 + j = 4 * n + 1 + j
    OBVIOUS
  <2>2. \A j \in 0 .. 3 : more[4 * (n + 1) - 3 + j] = Encoded(line)[j]
    BY <1>2, <1>4, <2>1
  <2>. QED  BY <1>2, <2>2 DEF QuadAt, Quads
<1>7. ASSUME NEW k \in 1 .. n + 1
      PROVE  Accepted(text[k]) /\ QuadAt(more, k) = Encoded(text[k])
  <2>1. CASE k \in 1 .. n
    BY <1>5, <2>1 DEF Assembled
  <2>2. CASE k = n + 1
    BY <1>1, <1>6, <2>2 DEF line
  <2>. QED  BY <2>1, <2>2
<1>. QED  BY <1>4, <1>7 DEF Assembled, more, b, line

LEMMA InitIInv == Init => IInv
<1>. SUFFICES ASSUME Init  PROVE IInv
  OBVIOUS
<1>. USE DEF Init
<1>1. Types
  <2>1. source \in Seq(Line)
    BY CodecAssumption
  <2>2. file \in Seq(Byte) /\ again \in Seq(Byte) /\ listing \in Seq(Instructions)
    BY EmptySeq
  <2>3. at \in Nat /\ overread \in BOOLEAN
    OBVIOUS
  <2>. QED  BY <2>1, <2>2, <2>3 DEF Types
<1>2. ~Finished
  BY DEF Finished
<1>3. Progress
  <2>1. Len(source) \in Nat
    BY CodecAssumption
  <2>. QED  BY <1>2, <2>1 DEF Progress
<1>4. FileIsSource /\ AgainIsListing
  <2>1. Assembled(file, source, at)
    BY DEF Assembled
  <2>. QED  BY <1>2, <2>1 DEF FileIsSource, AgainIsListing
<1>5. ListingIsFile
  BY DEF ListingIsFile
<1>. QED  BY <1>1, <1>3, <1>4, <1>5 DEF IInv

-----------------------------------------------------------------------------
(* Each step keeps the invariant                                           *)

LEMMA AssembleStep == IInv /\ Assemble => IInv'
<1>. SUFFICES ASSUME IInv, Assemble  PROVE IInv'
  OBVIOUS
<1>. USE DEF IInv
<1>1. /\ phase = "assembling" /\ phase' = "assembling" /\ listing = << >> /\ ~overread
      /\ source' = source /\ listing' = listing /\ again' = again /\ overread' = overread
      /\ again = << >>
  BY DEF Assemble, Progress
<1>2. /\ at \in Nat /\ at < Len(source) /\ at' = at + 1 /\ Len(source) \in Nat
      /\ source[at + 1] \in Line /\ Accepted(source[at + 1])
      /\ file' = file \o BytesOf(source[at + 1])
  BY DEF Assemble, Assembles, Types
<1>3. ~Finished /\ ~Finished'
  BY <1>1 DEF Finished
<1>4. file' \in Seq(Byte)
  <2>1. BytesOf(source[at + 1]) \in Seq(Byte)
    BY <1>2, BytesOfType
  <2>. QED  BY <1>2, <2>1, ConcatProperties DEF Types
<1>5. Types'
  BY <1>1, <1>2, <1>4 DEF Types
<1>6. Progress'
  BY <1>1, <1>2, <1>3 DEF Progress
<1>7. FileIsSource'
  <2>. SUFFICES ASSUME OnlyInstructions  PROVE Assembled(file', source, at + 1)
    BY <1>1, <1>2, <1>3 DEF FileIsSource, OnlyInstructions
  <2>1. source[at + 1] \in Instructions
    BY <1>2, LineType DEF OnlyInstructions, Types
  <2>2. Assembled(file, source, at)
    BY <1>1 DEF FileIsSource
  <2>. QED  BY <1>2, <2>1, <2>2, AssembledNext DEF Types
<1>8. ListingIsFile'
  <2>1. Len(file') \in Nat /\ Len(listing') = 0 /\ DOMAIN listing' = {}
    BY <1>1, <1>4
  <2>. QED  BY <1>1, <2>1 DEF ListingIsFile
<1>9. AgainIsListing'
  BY <1>3 DEF AgainIsListing
<1>. QED  BY <1>5, <1>6, <1>7, <1>8, <1>9

LEMMA AssembleFailsStep == IInv /\ AssembleFails => IInv'
<1>. SUFFICES ASSUME IInv, AssembleFails  PROVE IInv'
  OBVIOUS
<1>. USE DEF IInv
<1>1. /\ phase = "assembling" /\ phase' = "rejected" /\ listing = << >>
      /\ UNCHANGED <<source, file, listing, again, at, overread>>
  BY DEF AssembleFails, Rejects, Progress
<1>2. ~Finished /\ ~Finished'
  BY <1>1 DEF Finished
<1>3. Types'
  BY <1>1 DEF Types
<1>4. Progress'
  BY <1>1, <1>2 DEF Progress
<1>5. FileIsSource' /\ AgainIsListing'
  BY <1>1, <1>2 DEF FileIsSource, AgainIsListing
<1>6. ListingIsFile'
  BY <1>1 DEF ListingIsFile
<1>. QED  BY <1>3, <1>4, <1>5, <1>6

LEMMA AssembleEndsStep == IInv /\ AssembleEnds => IInv'
<1>. SUFFICES ASSUME IInv, AssembleEnds  PROVE IInv'
  OBVIOUS
<1>. USE DEF IInv
<1>1. /\ phase = "assembling" /\ phase' = "listing" /\ at = Len(source) /\ listing = << >>
      /\ again = << >>
      /\ UNCHANGED <<source, file, listing, again, at, overread>>
  BY DEF AssembleEnds, AllRead, Progress
<1>2. ~Finished /\ ~Finished'
  BY <1>1 DEF Finished
<1>3. Types'
  BY <1>1 DEF Types
<1>4. Progress'
  <2>1. at <= Len(source)
    BY <1>2 DEF Progress
  <2>. QED  BY <1>1, <1>2, <2>1 DEF Progress
<1>5. FileIsSource'
  BY <1>1, <1>2 DEF FileIsSource, OnlyInstructions
<1>6. AgainIsListing'
  BY <1>2 DEF AgainIsListing
<1>7. ListingIsFile'
  BY <1>1 DEF ListingIsFile
<1>. QED  BY <1>3, <1>4, <1>5, <1>6, <1>7

LEMMA DisassembleStep == IInv /\ Disassemble => IInv'
<1>. SUFFICES ASSUME IInv, Disassemble  PROVE IInv'
  OBVIOUS
<1>. USE DEF IInv
<1>. DEFINE n == Len(listing)
            read(g) == [k \in 0 .. 3 |->
                          CASE Pos + k < Len(file) -> file[Pos + k + 1]
                            [] Pos + k = Len(file) -> 0
                            [] Pos + k > Len(file) -> g]
<1>1. PICK g \in Garbage : listing' = Append(listing, Listed(read(g)))
  BY DEF Disassemble
<1>. DEFINE q == read(g)
<1>2. /\ phase = "listing" /\ phase' = "listing" /\ Pos < Len(file)
      /\ overread' = (overread \/ Pos + 3 > Len(file))
      /\ UNCHANGED <<source, file, again, at>>
  BY DEF Disassemble, ListsMore
<1>3. n \in Nat /\ Pos = 4 * n /\ Len(file) \in Nat
  BY DEF Types, Pos
<1>4. q \in Quads
  <2>1. ASSUME NEW k \in 0 .. 3  PROVE q[k] \in Byte
    <3>1. CASE Pos + k < Len(file)
      <4>1. Pos + k + 1 \in 1 .. Len(file)
        BY <1>3, <3>1
      <4>2. file[Pos + k + 1] \in Byte
        BY <4>1 DEF Types
      <4>3. q[k] = file[Pos + k + 1]
        BY <1>3, <3>1
      <4>. QED  BY <4>2, <4>3
    <3>2. CASE Pos + k = Len(file)
      <4>1. q[k] = 0
        BY <1>3, <3>2
      <4>2. 0 \in Byte
        BY FieldSizes DEF Byte
      <4>. QED  BY <4>1, <4>2, Zenon
    <3>3. CASE Pos + k > Len(file)
      <4>1. q[k] = g
        BY <1>3, <3>3
      <4>2. g \in Byte
        <5>1. Byte = 0 .. 255
          BY ByteRange, Zenon
        <5>2. g \in 0 .. 255
          BY CodecAssumption, Zenon
        <5>. QED  BY <5>1, <5>2
      <4>. QED  BY <4>1, <4>2, Zenon
    <3>. QED  BY <1>3, <3>1, <3>2, <3>3
  <2>. QED  BY <2>1 DEF Quads
<1>5. 4 * (n + 1) <= Len(file) => q = QuadAt(file, n + 1)
  <2>. SUFFICES ASSUME 4 * (n + 1) <= Len(file)  PROVE q = QuadAt(file, n + 1)
    OBVIOUS
  <2>1. ASSUME NEW k \in 0 .. 3
        PROVE  Pos + k < Len(file) /\ Pos + k + 1 = 4 * (n + 1) - 3 + k
    BY <1>3
  <2>2. \A k \in 0 .. 3 : q[k] = file[4 * (n + 1) - 3 + k]
    BY <1>3, <2>1
  <2>. QED  BY <2>2 DEF QuadAt
<1>. HIDE DEF q, read
<1>6. Listed(q) \in Instructions
  BY <1>4, ListedType
<1>7. /\ listing' \in Seq(Instructions) /\ listing' # << >> /\ Len(listing') = n + 1
      /\ \A k \in 1 .. n : listing'[k] = listing[k]
      /\ listing'[n + 1] = Listed(q)
  BY <1>1, <1>6, AppendProperties DEF Types, q
<1>8. ~Finished /\ ~Finished'
  BY <1>2 DEF Finished
<1>9. Types'
  <2>1. overread' \in BOOLEAN
    BY <1>2 DEF Types
  <2>. QED  BY <1>2, <1>7, <2>1 DEF Types
<1>10. Progress'
  BY <1>2, <1>8 DEF Progress
<1>11. FileIsSource'
  BY <1>2, <1>8 DEF FileIsSource, OnlyInstructions
<1>12. AgainIsListing'
  BY <1>8 DEF AgainIsListing
<1>13. ListingIsFile'
  <2>1. 4 * Len(listing') < Len(file) + 4
    BY <1>2, <1>3, <1>7
  <2>2. overread' => Len(file) % 4 \in {1, 2}
    <3>1. CASE overread
      BY <3>1 DEF ListingIsFile
    <3>2. CASE Pos + 3 > Len(file)
      <4>1. Len(file) = 4 * n + 1 \/ Len(file) = 4 * n + 2
        BY <1>2, <1>3, <3>2
      <4>2. (4 * n + 1) % 4 = 1 /\ (4 * n + 2) % 4 = 2
        BY <1>3, SMT
      <4>. QED  BY <4>1, <4>2, Zenon
    <3>. QED  BY <1>2, <3>1, <3>2
  <2>3. ASSUME NEW k \in 1 .. n + 1, 4 * k <= Len(file)
        PROVE  listing'[k] = Listed(QuadAt(file, k))
    <3>1. CASE k = n + 1
      BY <1>5, <1>7, <2>3, <3>1
    <3>2. CASE k \in 1 .. n
      <4>1. DOMAIN listing = 1 .. n
        BY DEF Types
      <4>. QED  BY <1>7, <2>3, <3>2, <4>1 DEF ListingIsFile
    <3>. QED  BY <1>3, <3>1, <3>2
  <2>4. DOMAIN listing' = 1 .. n + 1
    BY <1>7
  <2>. QED  BY <1>2, <2>1, <2>2, <2>3, <2>4 DEF ListingIsFile
<1>. QED  BY <1>9, <1>10, <1>11, <1>12, <1>13

LEMMA DisassembleEndsStep == IInv /\ DisassembleEnds => IInv'
<1>. SUFFICES ASSUME IInv, DisassembleEnds  PROVE IInv'
  OBVIOUS
<1>. USE DEF IInv
<1>1. /\ phase = "listing" /\ phase' = "reassembling" /\ at' = 0 /\ ~(Pos < Len(file))
      /\ again = << >> /\ UNCHANGED <<source, file, listing, again, overread>>
  BY DEF DisassembleEnds, ListsMore, Progress
<1>2. Finished'
  BY <1>1 DEF Finished
<1>3. Len(file) <= 4 * Len(listing) /\ 0 <= Len(listing)
  BY <1>1 DEF Types, Pos
<1>4. Types'
  BY <1>1 DEF Types
<1>5. Progress'
  BY <1>1, <1>2, <1>3 DEF Progress
<1>6. FileIsSource'
  BY <1>1, <1>2 DEF FileIsSource, OnlyInstructions
<1>7. AgainIsListing'
  BY <1>1 DEF AgainIsListing, Assembled
<1>8. ListingIsFile'
  BY <1>1 DEF ListingIsFile
<1>. QED  BY <1>4, <1>5, <1>6, <1>7, <1>8

LEMMA ReassembleStep == IInv /\ Reassemble => IInv'
<1>. SUFFICES ASSUME IInv, Reassemble  PROVE IInv'
  OBVIOUS
<1>. USE DEF IInv
<1>1. /\ phase = "reassembling" /\ phase' = "reassembling"
      /\ UNCHANGED <<source, file, listing, overread>>
  BY DEF Reassemble
<1>2. /\ at \in Nat /\ at < Len(listing) /\ at' = at + 1 /\ Len(listing) \in Nat
      /\ listing[at + 1] \in Instructions /\ Accepted(listing[at + 1])
      /\ again' = again \o BytesOf(listing[at + 1])
  BY DEF Reassemble, Assembles, Types
<1>3. Finished /\ Finished'
  BY <1>1 DEF Finished
<1>4. again' \in Seq(Byte)
  <2>1. BytesOf(listing[at + 1]) \in Seq(Byte)
    BY <1>2, LineType, BytesOfType
  <2>. QED  BY <1>2, <2>1, ConcatProperties DEF Types
<1>5. Types'
  BY <1>1, <1>2, <1>4 DEF Types
<1>6. Progress'
  <2>1. at' <= Len(listing)
    BY <1>2
  <2>. QED  BY <1>1, <1>3, <2>1 DEF Progress
<1>7. FileIsSource'
  BY <1>1, <1>3 DEF FileIsSource, OnlyInstructions
<1>8. ListingIsFile'
  BY <1>1 DEF ListingIsFile
<1>9. AgainIsListing'
  <2>1. Assembled(again, listing, at)
    BY <1>3 DEF AgainIsListing
  <2>2. Assembled(again', listing, at + 1)
    BY <1>2, <2>1, AssembledNext DEF Types
  <2>. QED  BY <1>1, <1>2, <2>2 DEF AgainIsListing
<1>. QED  BY <1>5, <1>6, <1>7, <1>8, <1>9

LEMMA ReassembleFailsStep == IInv /\ ReassembleFails => IInv'
<1>. SUFFICES ASSUME IInv, ReassembleFails  PROVE IInv'
  OBVIOUS
<1>. USE DEF IInv
<1>1. /\ phase = "reassembling" /\ phase' = "rejected"
      /\ listing = << >> \/ (at < Len(listing) /\ ~Accepted(listing[at + 1]))
      /\ UNCHANGED <<source, file, listing, again, at, overread>>
  BY DEF ReassembleFails, Rejects
<1>2. Finished /\ (Finished' <=> listing # << >>)
  BY <1>1 DEF Finished
<1>3. listing = << >> => at <= Len(source)
  <2>1. at <= Len(listing) /\ at \in Nat /\ Len(source) \in Nat
    BY <1>2 DEF Types, Progress
  <2>2. listing = << >> => Len(listing) = 0
    OBVIOUS
  <2>. QED  BY <2>1, <2>2
<1>4. Types'
  BY <1>1 DEF Types
<1>5. Progress'
  BY <1>1, <1>2, <1>3 DEF Progress
<1>6. FileIsSource' /\ AgainIsListing'
  BY <1>1, <1>2 DEF FileIsSource, OnlyInstructions, AgainIsListing
<1>7. ListingIsFile'
  BY <1>1 DEF ListingIsFile
<1>. QED  BY <1>4, <1>5, <1>6, <1>7

LEMMA ReassembleEndsStep == IInv /\ ReassembleEnds => IInv'
<1>. SUFFICES ASSUME IInv, ReassembleEnds  PROVE IInv'
  OBVIOUS
<1>. USE DEF IInv
<1>1. /\ phase = "reassembling" /\ phase' = "done" /\ at = Len(listing)
      /\ UNCHANGED <<source, file, listing, again, at, overread>>
  BY DEF ReassembleEnds, AllRead
<1>2. Finished /\ Finished'
  BY <1>1 DEF Finished
<1>3. Types'
  BY <1>1 DEF Types
<1>4. Progress'
  BY <1>1, <1>2 DEF Progress
<1>5. FileIsSource' /\ AgainIsListing'
  BY <1>1, <1>2 DEF FileIsSource, OnlyInstructions, AgainIsListing
<1>6. ListingIsFile'
  BY <1>1 DEF ListingIsFile
<1>. QED  BY <1>3, <1>4, <1>5, <1>6

LEMMA StutterStep == IInv /\ UNCHANGED vars => IInv'
  BY DEF IInv, vars, Types, Progress, FileIsSource, ListingIsFile, AgainIsListing,
         Finished, OnlyInstructions

LEMMA IInvHolds == Spec => []IInv
<1>1. IInv /\ [Next]_vars => IInv'
  BY AssembleStep, AssembleFailsStep, AssembleEndsStep, DisassembleStep,
     DisassembleEndsStep, ReassembleStep, ReassembleFailsStep, ReassembleEndsStep,
     StutterStep DEF Next
<1>. QED  BY InitIInv, <1>1, PTL DEF Spec

-----------------------------------------------------------------------------
(* The properties                                                          *)

\* The types of the properties: the files of vasm are bytes, and every line of
\* vdis has one of the sixteen conditions (emit.c, get_name_of_cond).
THEOREM CodecTypes == Spec => []TypeOK
<1>1. IInv => TypeOK
  <2>. SUFFICES ASSUME IInv  PROVE TypeOK
    OBVIOUS
  <2>1. file \in Seq(0 .. 255) /\ again \in Seq(0 .. 255) /\ overread \in BOOLEAN
        /\ phase \in {"assembling", "listing", "reassembling", "done", "rejected"}
    BY ByteRange, Zenon DEF IInv, Types
  <2>2. at \in 0 .. Len(source) \cup 0 .. Len(listing)
    <3>1. at \in Nat /\ Len(source) \in Nat /\ Len(listing) \in Nat
      BY DEF IInv, Types
    <3>2. at <= Len(source) \/ at <= Len(listing)
      BY DEF IInv, Progress
    <3>. QED  BY <3>1, <3>2
  <2>3. \A k \in DOMAIN listing : listing[k].cond \in {CondNames[n] : n \in 1 .. 16}
    <3>1. \A k \in DOMAIN listing : listing[k].cond \in Names(CondNames)
      <4>1. \A k \in DOMAIN listing : listing[k] \in Instructions
        BY DEF IInv, Types
      <4>. QED  BY <4>1 DEF Instructions
    <3>. QED  BY <3>1, CondEntries DEF Names
  <2>. QED  BY <2>1, <2>2, <2>3 DEF TypeOK
<1>. QED  BY <1>1, IInvHolds, PTL

\* vdis lists every byte of a file, and reads behind its content and the NUL
\* that follows it only for one or two bytes left over: the loop of vdis.c on
\* files of any length.
THEOREM OverreadConfined == Spec => []OverreadsOnlyOddSizes
<1>1. IInv => OverreadsOnlyOddSizes
  <2>. SUFFICES ASSUME IInv  PROVE OverreadsOnlyOddSizes
    OBVIOUS
  <2>1. Len(file) \in Nat /\ Len(listing) \in Nat /\ 4 * Len(listing) < Len(file) + 4
    BY DEF IInv, Types, ListingIsFile
  <2>2. Finished => Len(file) <= 4 * Len(listing)
    BY DEF IInv, Progress
  <2>3. Finished => 4 * Len(listing) \in Len(file) .. Len(file) + 3
    BY <2>1, <2>2
  <2>. QED  BY <2>3 DEF IInv, ListingIsFile, OverreadsOnlyOddSizes
<1>. QED  BY <1>1, IInvHolds, PTL

\* With instructions only, a finished listing has a line for each.
LEMMA LineForLine ==
  ASSUME IInv, Finished, OnlyInstructions
  PROVE  /\ Len(listing) = Len(source) /\ Len(file) = 4 * Len(source)
         /\ \A k \in 1 .. Len(source) :
              /\ source[k] \in Instructions /\ Accepted(source[k])
              /\ QuadAt(file, k) = Encoded(source[k])
              /\ listing[k] = Listed(Encoded(source[k]))
<1>1. Len(source) \in Nat /\ Len(listing) \in Nat /\ DOMAIN listing = 1 .. Len(listing)
      /\ \A k \in 1 .. Len(source) : source[k] \in Instructions
  BY LineType DEF IInv, Types, OnlyInstructions
<1>2. /\ Len(file) = 4 * Len(source)
      /\ \A k \in 1 .. Len(source) :
           Accepted(source[k]) /\ QuadAt(file, k) = Encoded(source[k])
  BY DEF IInv, FileIsSource, Assembled
<1>3. Len(file) <= 4 * Len(listing) /\ 4 * Len(listing) < Len(file) + 4
  BY DEF IInv, Progress, ListingIsFile
<1>4. Len(listing) = Len(source)
  BY <1>1, <1>2, <1>3
<1>5. ASSUME NEW k \in 1 .. Len(source)  PROVE listing[k] = Listed(Encoded(source[k]))
  <2>1. 4 * k <= Len(file) /\ k \in DOMAIN listing
    BY <1>1, <1>2, <1>4
  <2>. QED  BY <1>2, <2>1 DEF IInv, ListingIsFile
<1>. QED  BY <1>1, <1>2, <1>4, <1>5

\* The test of the Makefile (test-vasm, compare.sh) for every program: vdis
\* prints of an assembled program, of any length, the program itself, the misread
\* forms excepted (emit_fmt_*, vasmdis_disasm_instruction, lookup.c).
THEOREM ListingShowsSource == Spec => []ListingIsSource
<1>1. IInv => ListingIsSource
  <2>. SUFFICES ASSUME IInv, Finished, OnlyInstructions
                PROVE  /\ Len(listing) = Len(source)
                       /\ \A k \in DOMAIN source :
                            Misread(source[k]) \/ listing[k] = MeaningOf(source[k])
    BY DEF ListingIsSource
  <2>1. Len(listing) = Len(source) /\ DOMAIN source = 1 .. Len(source)
    BY LineForLine DEF IInv, Types
  <2>2. ASSUME NEW k \in 1 .. Len(source), ~Misread(source[k])
        PROVE  listing[k] = MeaningOf(source[k])
    <3>1. source[k] \in Instructions /\ Accepted(source[k])
          /\ listing[k] = Listed(Encoded(source[k]))
      BY LineForLine
    <3>2. ~Backward(source[k])
      BY <2>2 DEF Misread
    <3>. QED  BY <2>2, <3>1, <3>2, ListedEncoded, PrintedMeans
  <2>. QED  BY <2>1, <2>2
<1>. QED  BY <1>1, IInvHolds, PTL

LEMMA QuadsEqual ==
  ASSUME NEW a \in Seq(Byte), NEW b \in Seq(Byte), NEW n \in Nat,
         Len(a) = 4 * n, Len(b) = 4 * n,
         \A k \in 1 .. n : QuadAt(a, k) = QuadAt(b, k)
  PROVE  a = b
<1>1. ASSUME NEW i \in 1 .. 4 * n  PROVE a[i] = b[i]
  <2>. DEFINE k == (i - 1) \div 4 + 1
              j == (i - 1) % 4
  <2>1. k \in 1 .. n /\ j \in 0 .. 3 /\ 4 * k - 3 + j = i
    <3>. DEFINE m == i - 1
    <3>1. m \in Int /\ m >= 0 /\ m < 4 * n
      OBVIOUS
    <3>. HIDE DEF m
    <3>2. m \div 4 \in Int /\ m % 4 \in 0 .. 3 /\ m = 4 * (m \div 4) + (m % 4)
      BY <3>1
    <3>3. k = m \div 4 + 1 /\ j = m % 4 /\ i = m + 1
      BY DEF m
    <3>. HIDE DEF j, k
    <3>. QED  BY <3>1, <3>2, <3>3
  <2>. HIDE DEF k, j
  <2>2. QuadAt(a, k)[j] = a[i] /\ QuadAt(b, k)[j] = b[i]
    BY <2>1 DEF QuadAt
  <2>. QED  BY <2>1, <2>2
<1>. QED  BY <1>1, SeqEqual

\* The assembler accepts what vdis prints of its own output and emits the same
\* file again, for every program without a backward move (vasm.y,
\* vasmdis_disasm_instruction).
THEOREM ListingReassembles == Spec => []Reassembles
<1>1. IInv => Reassembles
  <2>. SUFFICES ASSUME IInv, Finished, OnlyInstructions,
                       \A k \in DOMAIN source : ~Backward(source[k])
                PROVE  phase # "rejected" /\ (phase = "done" => again = file)
    BY DEF Reassembles
  <2>1. /\ Len(listing) = Len(source) /\ Len(file) = 4 * Len(source)
        /\ Len(source) \in Nat /\ DOMAIN source = 1 .. Len(source)
        /\ file \in Seq(Byte) /\ again \in Seq(Byte) /\ at \in Nat
    BY LineForLine DEF IInv, Types
  <2>2. ASSUME NEW k \in 1 .. Len(source)
        PROVE  /\ Accepted(listing[k])
               /\ Encoded(listing[k]) = QuadAt(file, k)
    <3>1. /\ source[k] \in Instructions /\ Accepted(source[k])
          /\ listing[k] = Listed(Encoded(source[k]))
          /\ QuadAt(file, k) = Encoded(source[k]) /\ ~Backward(source[k])
      BY <2>1, LineForLine
    <3>. QED  BY <3>1, ListedEncoded, PrintedAgain
  <2>3. phase # "rejected"
    <3>1. ASSUME phase = "rejected"  PROVE FALSE
      <4>1. at < Len(listing) /\ ~Accepted(listing[at + 1])
        BY <3>1 DEF IInv, Progress, Finished
      <4>2. at + 1 \in 1 .. Len(source)
        BY <2>1, <4>1
      <4>. QED  BY <2>2, <4>1, <4>2
    <3>. QED  BY <3>1
  <2>4. ASSUME phase = "done"  PROVE again = file
    <3>1. at = Len(source) /\ Assembled(again, listing, at)
      BY <2>1, <2>4 DEF IInv, Progress, AgainIsListing
    <3>2. /\ Len(again) = 4 * Len(source)
          /\ \A k \in 1 .. Len(source) : QuadAt(again, k) = Encoded(listing[k])
      BY <3>1 DEF Assembled
    <3>. QED  BY <2>1, <2>2, <3>2, QuadsEqual
  <2>. QED  BY <2>3, <2>4
<1>. QED  BY <1>1, IInvHolds, PTL

\* Any four bytes: the assembler reads the line vdis prints for them exactly
\* when it is readable, and what it then emits prints as the same line, the
\* misread forms excepted (decode_instruction_arguments, vasm.y).
THEOREM ListingIsStable == Spec => []ListingStable
<1>1. IInv => ListingStable
  <2>. SUFFICES ASSUME IInv, Finished, Len(file) = 4
                PROVE  /\ phase = "rejected" => ~Readable(QuadAt(file, 1))
                       /\ phase = "done" =>
                            /\ Readable(QuadAt(file, 1))
                            /\ \/ Misread(listing[1])
                               \/ Listed(QuadAt(again, 1)) = listing[1]
    BY DEF ListingStable
  <2>. DEFINE b == QuadAt(file, 1)
  <2>1. b \in Quads
    <3>1. 4 * 1 <= Len(file) /\ 1 \in Nat \ {0}
      OBVIOUS
    <3>. QED  BY <3>1, QuadAtType DEF IInv, Types
  <2>2. Len(listing) = 1 /\ listing[1] = Listed(b) /\ at \in Nat
    <3>1. Len(listing) \in Nat /\ DOMAIN listing = 1 .. Len(listing) /\ at \in Nat
      BY DEF IInv, Types
    <3>2. 4 <= 4 * Len(listing) /\ 4 * Len(listing) < 8
      BY DEF IInv, Progress, ListingIsFile
    <3>3. Len(listing) = 1
      BY <3>1, <3>2
    <3>. QED  BY <3>1, <3>3 DEF IInv, ListingIsFile
  <2>. HIDE DEF b
  <2>3. ASSUME phase = "rejected"  PROVE ~Readable(b)
    <3>1. at < Len(listing) /\ ~Accepted(listing[at + 1])
      BY <2>3 DEF IInv, Progress, Finished
    <3>2. at = 0
      BY <2>2, <3>1
    <3>. QED  BY <2>1, <2>2, <3>1, <3>2, ReadableAccepted
  <2>4. ASSUME phase = "done"
        PROVE  Readable(b) /\ (Misread(listing[1]) \/ Listed(QuadAt(again, 1)) = listing[1])
    <3>1. Assembled(again, listing, 1)
      BY <2>2, <2>4 DEF IInv, Progress, AgainIsListing
    <3>2. Accepted(listing[1]) /\ QuadAt(again, 1) = Encoded(listing[1])
      BY <3>1 DEF Assembled
    <3>3. listing[1] \in Instructions
      BY <2>1, <2>2, ListedType
    <3>4. ASSUME ~Misread(listing[1])  PROVE Listed(Encoded(listing[1])) = listing[1]
      <4>1. ~Backward(listing[1])
        BY <3>4 DEF Misread
      <4>2. Listed(Encoded(listing[1])) = MeaningOf(listing[1])
        BY <3>2, <3>3, <3>4, <4>1, ListedEncoded, PrintedMeans
      <4>. QED  BY <2>1, <2>2, <4>2, ListedMeans
    <3>. QED  BY <2>1, <2>2, <3>2, <3>4, ReadableAccepted
  <2>. QED  BY <2>3, <2>4 DEF b
<1>. QED  BY <1>1, IInvHolds, PTL
=============================================================================
