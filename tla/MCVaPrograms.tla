----------------------------- MODULE MCVaPrograms ---------------------------
(***************************************************************************)
(* Whole programs on the instance of MCVaCpu: a loop, nested calls, and    *)
(* every sequence of four pushes, pops and loads that keeps to its stack.  *)
(***************************************************************************)
EXTENDS MCVaCpu

VARIABLE start  \* history: the registers and the memory of the loaded program

ProgramOps == OpTable(<<
  <<"CALL", "IMM">>, <<"STOREMA", "IMM">>, <<"LOADMA", "IMM">>,
  <<"JMP", "DWORD">>, <<"ADD", "IMM">>, <<"CMP", "IMM">>, <<"JMP", "IMM">>,
  <<"ADD", "DWORD">>, <<"SUB", "IMM">>, <<"LOADI", "WORD">>,
  <<"LOADI", "BYTE">> >>)
LoopConds == [f \in Reg |-> IF f = 0 THEN "ALWAYS" ELSE "IZ"]

\* loop: CMP BP, 0;  JMP.IZ end;  ADD R0, R0, SP;  SUB BP, BP, 1;  JMP loop
\* end:  STOP
LoopImage == <<6, 0, 4, 0,    7, 4, 12, 0,   8, 0, 2, 0,
               9, 1, 4, 1,    7, 0, 12, 14,  0, 0, 0, 0>>

\* main: CALL f;  ADD BP, BP, 1;  STOP
\* f:    STOREMA SP, range;  CALL g;  LOADMA SP, range;  JMP RC
\* g:    ADD BP, BP, 2;  JMP RC
\* with the range RC, or RC:BP.
CallImage(e) == <<1, 0, 8, 0,   5, 1, 4, 1,   0, 0, 0, 0,
                  2, 2, e, 0,   1, 0, 8, 0,   3, 2, e, 0,   4, 0, 0, 0,
                  5, 1, 4, 2,   4, 0, 0, 0>>

\* Programs of four pushes, pops and loads that never pop an empty stack nor
\* push a fourth dword; the third byte names the range R0, R1, R0:R1 or FLGS.
StackInstructions ==
  Instructions({2, 3}, {SP}, {0, 5, 1, 15}, {0})
    \cup {<<10, 1, 7, 3>>, <<11, 2, 9, 0>>}
Growth(i) == LET n == IF i[3] = 1 THEN 2 ELSE 1
             IN  CASE i[1] = 2 -> n [] i[1] = 3 -> -n [] OTHER -> 0
StackImages ==
  {i \o j \o k \o l : <<i, j, k, l>> \in
     {p \in StackInstructions \X StackInstructions \X StackInstructions
            \X StackInstructions :
        LET d1 == Growth(p[1])
            d2 == d1 + Growth(p[2])
            d3 == d2 + Growth(p[3])
        IN  {d1, d2, d3, d3 + Growth(p[4])} \subseteq 0 .. 3}}

Programs == {LoopImage, CallImage(0), CallImage(1)} \cup StackImages

ProgramRegs == {rf \in FilesOver({0, 1, 5, 9001}, {0, 63}) : rf[0] = 9001}

PInit == Init /\ start = [regs |-> regs, mem |-> mem]
PNext == /\ Next
         /\ start' = IF status = "created" THEN [regs |-> regs', mem |-> mem']
                     ELSE start
\* The loop of cpu_execute turns by itself.
PSpec == PInit /\ [][PNext]_<<vars, start>> /\ WF_vars(Turn)

\* The program is running, or ran to its STOP at offset end of the image.
Runs(img) == /\ status = "running"
             /\ \A k \in DOMAIN img : start.mem[LoadAddr + k - 1] = img[k]
EndedAt(end) == status = "stopped" /\ ret = 0 /\ pos = LoadAddr + end + 4

\* The loop ends whatever the uninitialised registers hold, and has then added
\* SP to R0 as often as BP said, modulo 2^32: the backward jump, the conditional
\* forward jump, CMP and SUB agree on the loop's counter (ins_jmp, ins_cmp,
\* ins_sub).  The counter is small enough for MaxCount.
LoopComputes ==
  Runs(LoopImage) /\ start.regs[1] < 10 ~>
    /\ EndedAt(20)
    /\ regs[0] = (start.regs[0] + start.regs[1] * start.regs[SP]) % DwordSize

\* Nested calls that save RC on the stack come back behind each CALL, with the
\* stack pointer where it was and BP restored exactly when it was saved
\* (ins_call, ins_jmp, ins_storema, ins_loadma).
CallsReturn ==
  \A e \in 0 .. 1 :
    Runs(CallImage(e)) ~>
      /\ EndedAt(8)
      /\ regs[SP] = InitSP
      /\ regs[1] = (start.regs[1] + IF e = 0 THEN 3 ELSE 1) % DwordSize
=============================================================================
