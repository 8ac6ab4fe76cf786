----------------------------- MODULE MCVaSystem -----------------------------
(***************************************************************************)
(* The toolchain with eight registers, bytes of 64 values and dwords of 24 *)
(* bits: R0 to R3 have word registers, R3 being the source's R7; then RC,  *)
(* BP, SP and FLGS.                                                        *)
(***************************************************************************)
EXTENDS VaSystem

TableOf(Op(_, _)) ==
  [p \in Byte \X Byte |-> CHOOSE z \in Byte : \A n \in 0 .. 5 :
     BitOf(z, n) <=> Op(BitOf(p[1], n), BitOf(p[2], n))]
MCAndByte == TableOf(LAMBDA p, q : p /\ q)
MCOrByte  == TableOf(LAMBDA p, q : p \/ q)
MCXorByte == TableOf(LAMBDA p, q : p # q)

\* Every other first byte is a FAIL.
MCOps ==
  LET named == <<<<"LOADI", "WORD">>, <<"XCHG", "DWORD">>, <<"CALL", "DWORD">>,
                 <<"JMP", "DWORD">>, <<"STOREMA", "IMM">>, <<"LOADMA", "IMM">>,
                 <<"CMP", "IMM">>, <<"SUB", "IMM">>>>
  IN  [b \in Byte |->
         IF b = 0 THEN [op |-> "STOP", prefix |-> "DWORD"]
         ELSE IF b \in DOMAIN named THEN [op |-> named[b][1], prefix |-> named[b][2]]
         ELSE [op |-> "FAIL", prefix |-> "IMM"]]

MCConds == [f \in Reg |-> <<"ALWAYS", "IZ", "NZ", "IS", "NS", "IZIC", "NZNC",
                            "IC">>[f + 1]]

\* Uninitialised registers: unlike each other, all flags clear or set.
MCRegs == {[r \in Reg |-> IF r = FLGS THEN f ELSE 4097 * r + 5] : f \in {0, 63}}
MCCregs == {[r \in Reg |-> 0]}

-----------------------------------------------------------------------------
(* Programs                                                                *)

BP == NReg - 3
Label(l)         == [op |-> "LABEL", label |-> l, cond |-> "ALWAYS"]
Ref(op, c, r, l) == [op |-> op, cond |-> c, reg |-> r, label |-> l]
Of(op, c, r)     == [op |-> op, cond |-> c, reg |-> r]
Val(op, c, r, v) == [op |-> op, cond |-> c, reg |-> r, val |-> v]
Halt             == Of("STOP", "ALWAYS", 0)

\* With a label a at any place, or nowhere.
Menu ==
  {Val("LOAD32", "ALWAYS", 0, 9001), Val("LOAD32", "IZ", RC, 12345678),
   Val("LOAD32", "NZ", R7, 4096), Val("LOAD32", "ALWAYS", BP, 16777215),
   Val("LOAD32", "ALWAYS", FLGS, 3), Ref("LOADADR", "ALWAYS", 1, "a"),
   Ref("LDJMP", "NZ", 0, "a"), Ref("LDJMP", "ALWAYS", R7, "a"),
   Ref("LDCALL", "IZIC", 2, "a"), Ref("LDCALL", "ALWAYS", RC, "a"),
   Val("CMP", "ALWAYS", 0, 300), Val("SUB", "NS", 0, 5),
   Of("PUSH", "ALWAYS", 0), Of("PUSH", "IC", RC), Of("POP", "ALWAYS", 1),
   Of("JMP", "ALWAYS", 1), Of("JMP", "IZ", RC), Of("STOP", "IZ", 0), Halt}
SmallMenu ==
  {Ref("LOADADR", "ALWAYS", 1, "a"), Ref("LDCALL", "ALWAYS", 2, "a"),
   Ref("LDJMP", "NZ", 0, "a"), Val("LOAD32", "ALWAYS", RC, 9001),
   Val("SUB", "ALWAYS", 0, 5), Of("PUSH", "ALWAYS", 1), Of("POP", "ALWAYS", RC),
   Of("JMP", "ALWAYS", RC)}

WithLabel(p) ==
  {p} \cup {SubSeq(p, 1, k) \o <<Label("a")>> \o SubSeq(p, k + 1, Len(p)) :
              k \in 0 .. Len(p)}

\* A loop that counts R0 down from 2.
Loop == <<Val("LOAD32", "ALWAYS", 0, 2), Label("a"), Val("SUB", "ALWAYS", 0, 1),
          Val("CMP", "ALWAYS", 0, 0), Ref("LDJMP", "NZ", 1, "a"), Halt>>
\* A call within a call, RC on the stack.
Calls == <<Ref("LDCALL", "ALWAYS", 1, "a"), Halt,
           Label("a"), Of("PUSH", "ALWAYS", RC), Ref("LDCALL", "ALWAYS", 1, "b"),
           Of("POP", "ALWAYS", RC), Of("JMP", "ALWAYS", RC),
           Label("b"), Val("SUB", "ALWAYS", 0, 1), Of("JMP", "ALWAYS", RC)>>
\* Pushes without end.
Pushes == <<Label("a"), Of("PUSH", "ALWAYS", 0), Ref("LDJMP", "ALWAYS", 1, "a")>>
\* The buffer grows behind the fourth of five references.
Long == <<Ref("LDJMP", "ALWAYS", 0, "a"), Val("SUB", "ALWAYS", 0, 1),
          Ref("LDJMP", "NZ", 0, "a"), Val("SUB", "ALWAYS", 0, 1),
          Ref("LDCALL", "NZ", 2, "a"), Val("SUB", "ALWAYS", 0, 1),
          Label("a"), Ref("LDJMP", "ALWAYS", R7, "b"), Val("SUB", "ALWAYS", 0, 1),
          Ref("LDCALL", "ALWAYS", 2, "b"), Val("SUB", "ALWAYS", 0, 1),
          Label("b"), Val("LOAD32", "ALWAYS", BP, 7)>>

MCPrograms ==
  {Loop, Calls, Pushes, Long, <<Label("a"), Halt, Label("a")>>}
    \cup UNION {WithLabel(<<s, t>>) : s, t \in Menu}
    \cup UNION {WithLabel(<<s, t, u>>) : s, t, u \in SmallMenu}
=============================================================================
