---------------------------- MODULE VasmProgram -----------------------------
(***************************************************************************)
(* What an assembler program means, without addresses of instructions,     *)
(* bytes and expansions: its statements are executed line by line, each in *)
(* one step, on registers and a stack of dwords.  The assembler has to     *)
(* lay the lines out somewhere, and a program that jumps elsewhere, pops   *)
(* an empty stack or pushes onto a full one is lost.                       *)
(***************************************************************************)
EXTENDS VaWord, Sequences

CONSTANTS
  Labels,     \* label names
  StackRoom   \* dwords a stack holds

VARIABLES
  source,  \* the program
  place,   \* the address of each line, and of the end of the program
  line,    \* the line executed next
  file,    \* the registers but the stack pointer
  stack,   \* the pushed dwords, the top last
  phase    \* written, rejected, running, ended or lost

progvars == <<source, place, line, file, stack, phase>>

Visible == Reg \ {SP}
Scratch == NReg \div 2 - 1  \* the last register whose halves are registers

LabelRefs == {"LOADADR", "LDCALL", "LDJMP"}
Statement ==
  [op : {"LABEL"}, cond : {"ALWAYS"}, label : Labels]
    \cup [op : LabelRefs, cond : Conditions, reg : Visible, label : Labels]
    \cup [op : {"LOAD32", "CMP", "SUB"}, cond : Conditions, reg : Visible, val : Dword]
    \cup [op : {"JMP", "PUSH", "POP", "STOP"}, cond : Conditions, reg : Visible]

Lines == DOMAIN source
IsLabel(k) == k \in Lines /\ source[k].op = "LABEL"

\* Where a label stands.
LineOf(l) == CHOOSE k \in Lines : IsLabel(k) /\ source[k].label = l

\* The first statement from line k on, or the end of the program.
From(k) == CHOOSE m \in k .. Len(source) + 1 :
             ~IsLabel(m) /\ \A n \in k .. m - 1 : IsLabel(n)

\* Every label is defined once, and referred to with a register that has halves.
Correct ==
  /\ \A k, m \in Lines : IsLabel(k) /\ IsLabel(m) /\ k # m =>
       source[k].label # source[m].label
  /\ \A k \in Lines : source[k].op \in LabelRefs =>
       /\ source[k].reg <= Scratch
       /\ \E m \in Lines : IsLabel(m) /\ source[m].label = source[k].label

\* Lines follow each other; a label has the address of what follows it.
IsLayout(p) ==
  /\ p \in [1 .. Len(source) + 1 -> Dword]
  /\ \A k \in Lines : IF IsLabel(k) THEN p[k + 1] = p[k] ELSE p[k + 1] > p[k]

Init ==
  /\ source \in Seq(Statement)
  /\ place = << >> /\ line = 0 /\ file = << >> /\ stack = << >>
  /\ phase = "written"

Reject ==
  /\ phase = "written" /\ phase' = "rejected"
  /\ UNCHANGED <<source, place, line, file, stack>>

\* Loaded somewhere, with any registers.
Load ==
  /\ phase = "written" /\ Correct
  /\ IsLayout(place') /\ file' \in [Visible -> Dword]
  /\ line' = From(1) /\ stack' = << >> /\ phase' = "running"
  /\ UNCHANGED source

-----------------------------------------------------------------------------
(* Statements                                                              *)

Running == phase = "running" /\ UNCHANGED <<source, place>>

\* The statement executed next is one of ops, and its condition holds.
Executes(ops) ==
  /\ Running /\ line \in Lines /\ source[line].op \in ops
  /\ CondHolds(source[line].cond, file[FLGS])
This == source[line]

Continue == line' = From(line + 1) /\ UNCHANGED phase
Assign(f) == file' = f /\ Continue /\ UNCHANGED stack
Lose == phase' = "lost" /\ UNCHANGED <<line, file, stack>>

Skip ==
  /\ Running /\ line \in Lines
  /\ ~CondHolds(This.cond, file[FLGS])
  /\ Assign(file)

Load32 == Executes({"LOAD32"}) /\ Assign([file EXCEPT ![This.reg] = This.val])

LoadAdr ==
  /\ Executes({"LOADADR"})
  /\ Assign([file EXCEPT ![This.reg] = place[LineOf(This.label)]])

Compare ==
  /\ Executes({"CMP"})
  /\ LET a == file[This.reg]
         z == WithFlag(file[FLGS], FLGS_Z, a = This.val)
         c == WithFlag(z, FLGS_C, a < This.val)
     IN  Assign([file EXCEPT
           ![FLGS] = WithFlag(c, FLGS_S, SDword(a) < SDword(This.val))])

Subtract ==
  /\ Executes({"SUB"})
  /\ LET r == SubL(file[This.reg], This.val)
         f == [file EXCEPT ![This.reg] = r.val]
     IN  Assign([f EXCEPT
           ![FLGS] = WithFlag(WithFlag(@, FLGS_O, r.o), FLGS_C, r.c)])

\* To the label, whose address the register keeps.
LdJmp ==
  /\ Executes({"LDJMP"})
  /\ file' = [file EXCEPT ![This.reg] = place[LineOf(This.label)]]
  /\ line' = From(LineOf(This.label))
  /\ UNCHANGED <<stack, phase>>

\* RC keeps the address of the next line.
LdCall ==
  /\ Executes({"LDCALL"})
  /\ file' = [file EXCEPT ![This.reg] = place[LineOf(This.label)],
                          ![RC] = place[line + 1]]
  /\ line' = From(LineOf(This.label))
  /\ UNCHANGED <<stack, phase>>

\* To the statement at the address in the register.
Jmp ==
  /\ Executes({"JMP"})
  /\ LET at == {k \in DOMAIN place : place[k] = file[This.reg]}
     IN  IF at = {} THEN Lose
         ELSE /\ line' = From(CHOOSE k \in at : TRUE)
              /\ UNCHANGED <<file, stack, phase>>

Push ==
  /\ Executes({"PUSH"})
  /\ IF Len(stack) = StackRoom THEN Lose
     ELSE stack' = Append(stack, file[This.reg]) /\ Continue /\ UNCHANGED file

Pop ==
  /\ Executes({"POP"})
  /\ IF stack = << >> THEN Lose
     ELSE /\ file' = [file EXCEPT ![This.reg] = stack[Len(stack)]]
          /\ stack' = SubSeq(stack, 1, Len(stack) - 1)
          /\ Continue

\* STOP, or the end of the program: zeroes follow it, and they are a STOP.
Stop ==
  /\ \/ Executes({"STOP"})
     \/ Running /\ line = Len(source) + 1
  /\ phase' = "ended"
  /\ UNCHANGED <<line, file, stack>>

Next ==
  \/ Reject \/ Load \/ Skip \/ Load32 \/ LoadAdr \/ Compare \/ Subtract
  \/ LdJmp \/ LdCall \/ Jmp \/ Push \/ Pop \/ Stop

Spec == Init /\ [][Next]_progvars
=============================================================================
