-------------------------- MODULE VasmImageProofs --------------------------
(***************************************************************************)
(* The image the assembler writes is what it emitted, proved with the      *)
(* layout of VasmEmitProofs.                                               *)
(***************************************************************************)
EXTENDS VasmEmitProofs, MCVasmEmit

\* The buffer holds what was emitted, and nothing was emitted behind it.
AsMeant ==
  /\ \A q \in 0 .. cap - 1 : buf[q] = meant[q]
  /\ \A q \in Position : q >= cap => meant[q] = Zero

\* What Put records of an item of n bytes at p, nothing where only space is
\* reserved.
Recorded(p, n, puts, c) ==
  \A q \in Position :
    meant'[q] = IF puts /\ q \in p .. p + n - 1 THEN <<c, q - p>> ELSE meant[q]

LEMMA RangeBelow ==
  ASSUME NEW x \in Nat, NEW y \in Nat, x < y
  PROVE  0 .. x - 1 \subseteq 0 .. y - 1
  OBVIOUS

LEMMA RangeSplit ==
  ASSUME NEW x \in Nat, NEW y \in Nat, NEW q \in 0 .. y - 1
  PROVE  q \in 0 .. x - 1 \/ q \in x .. y - 1
  OBVIOUS

LEMMA RangeFrom ==
  ASSUME NEW x \in Nat, NEW y \in Nat, NEW q \in x .. y - 1
  PROVE  q \in Nat /\ q >= x
  OBVIOUS

LEMMA CapInPosition ==
  ASSUME TypeOK, cap = size
  PROVE  /\ cap \in Nat /\ cap < AddrSize /\ 0 .. cap - 1 \subseteq Position
         /\ AddrSize \in Nat
  BY Sizes DEF TypeOK, Position

\* An item that fits, or the space of a reference.
LEMMA EmitAsMeant ==
  ASSUME IInv, AsMeant, Careful, TypeOK',
         NEW n \in 1 .. 8, NEW puts \in BOOLEAN,
         NEW c, puts => n <= 4 /\ \A k \in 0 .. 3 : <<c, k>> # Unset,
         Fits(n), Emit(pos, n, puts, c), Recorded(pos, n, puts, c)
  PROVE  AsMeant'
<1>1. TypeOK /\ pos \in Position /\ size \in Nat /\ pos \in Nat
  <2>1. TypeOK
    BY DEF IInv
  <2>2. pos \in Position /\ size \in Position
    BY <2>1 DEF TypeOK
  <2>. QED  BY <2>1, <2>2, Sizes DEF Position
<1>2. /\ pos + Block < AddrSize
      /\ fixed \/ pos + n <= size \/ (pos = highest /\ pos = size)
  BY DEF Fits
<1>3. pos + n < AddrSize
  BY <1>1, <1>2, Sizes
<1>4. /\ cap' = size' /\ highest' <= size' /\ pos + n <= highest' /\ cap <= cap'
      /\ \A q \in 0 .. cap - 1 :
           buf'[q] = IF puts /\ q \in pos .. pos + n - 1 THEN <<c, q - pos>> ELSE buf[q]
      /\ \A q \in cap .. cap' - 1 :
           buf'[q] = IF puts /\ q \in pos .. pos + n - 1 THEN <<c, q - pos>> ELSE Zero
  <2>1. BufferLayout /\ NeverOverruns /\ Initialised
    BY DEF IInv
  <2>2. pos + n <= size \/ pos + Block < AddrSize
    BY <1>2
  <2>3. puts => n <= 4 /\ \A k \in 0 .. 3 : <<c, k>> # Unset
    OBVIOUS
  <2>. QED  BY ONLY <1>1, <1>2, <1>3, <2>1, <2>2, <2>3, n \in 1 .. 8, puts \in BOOLEAN,
                    Emit(pos, n, puts, c), EmitFits
<1>5. cap \in Nat /\ cap' \in Nat /\ 0 .. cap' - 1 \subseteq Position /\ highest' \in Nat
  <2>1. cap = size
    BY DEF IInv, BufferLayout
  <2>2. highest' \in Position /\ size' \in Position
    BY DEF TypeOK
  <2>3. highest' \in Nat /\ cap' \in Nat /\ cap' < AddrSize /\ AddrSize \in Nat
    BY <1>4, <2>2, Sizes DEF Position
  <2>4. 0 .. cap' - 1 \subseteq Position
    BY <2>3, RangeBelow DEF Position
  <2>5. cap \in Nat
    BY <1>1, <2>1
  <2>. QED  BY <2>3, <2>4, <2>5
<1>6. ASSUME NEW q \in 0 .. cap' - 1
      PROVE  buf'[q] = meant'[q]
  <2>1. meant'[q] = IF puts /\ q \in pos .. pos + n - 1 THEN <<c, q - pos>> ELSE meant[q]
    BY <1>5 DEF Recorded
  <2>2. CASE q \in 0 .. cap - 1
    <3>1. buf[q] = meant[q]
      BY <2>2 DEF AsMeant
    <3>. QED  BY <1>4, <2>1, <2>2, <3>1
  <2>3. CASE q \in cap .. cap' - 1
    <3>0. q \in Position
      BY <1>5
    <3>1. q \in Position /\ q >= cap
      BY <1>5, <2>3, <3>0, RangeFrom
    <3>2. meant[q] = Zero
      BY ONLY AsMeant, <3>1 DEF AsMeant
    <3>. QED  BY <1>4, <2>1, <2>3, <3>2
  <2>4. q \in 0 .. cap - 1 \/ q \in cap .. cap' - 1
    BY <1>5, RangeSplit
  <2>. QED  BY <2>2, <2>3, <2>4
<1>7. ASSUME NEW q \in Position, q >= cap'
      PROVE  meant'[q] = Zero
  <2>1. q \in Nat /\ q >= cap /\ q \notin pos .. pos + n - 1
    BY <1>1, <1>4, <1>5, <1>7, Sizes DEF Position
  <2>2. meant[q] = Zero
    BY <2>1 DEF AsMeant
  <2>. QED  BY <2>1, <2>2 DEF Recorded
<1>. QED  BY <1>6, <1>7 DEF AsMeant

LEMMA PutRecords ==
  ASSUME NEW p, NEW n, NEW c, NEW puts \in BOOLEAN, puts, Put(p, n, c)
  PROVE  Recorded(p, n, puts, c)
  BY DEF Put, Recorded, Span

LEMMA StatementAsMeant ==
  ASSUME IInv, AsMeant, Careful, TypeOK', NEW c \in Data,
         \/ Instruction(c) /\ Put(pos, 4, c)
         \/ EmitPending(c) /\ Put(pos, Head(pending), c)
  PROVE  AsMeant'
<1>1. PICK n \in 1 .. 8 : n <= 4 /\ Fits(n) /\ Emit(pos, n, TRUE, c) /\ Put(pos, n, c)
  <2>1. CASE Instruction(c) /\ Put(pos, 4, c)
    <3>1. 4 \in 1 .. 8 /\ 4 <= 4
      OBVIOUS
    <3>. QED  BY <2>1, <3>1 DEF Instruction
  <2>2. CASE EmitPending(c) /\ Put(pos, Head(pending), c)
    <3>1. Head(pending) \in {1, 4}
      BY <2>2 DEF EmitPending, IInv, TypeOK
    <3>2. Head(pending) \in 1 .. 8 /\ Head(pending) <= 4
      BY <3>1
    <3>. QED  BY <2>2, <3>2 DEF EmitPending
  <2>. QED  BY <2>1, <2>2
<1>2. PICK puts \in BOOLEAN : puts = TRUE
  OBVIOUS
<1>3. Emit(pos, n, puts, c) /\ Recorded(pos, n, puts, c)
  BY <1>1, <1>2, PutRecords
<1>4. \A k \in 0 .. 3 : <<c, k>> # Unset
  BY EmitAssumption
<1>. QED  BY <1>1, <1>3, <1>4, EmitAsMeant

LEMMA LabelRefAsMeant ==
  ASSUME IInv, AsMeant, Careful, TypeOK', UNCHANGED meant,
         NEW l \in Labels, NEW how \in Hows, NEW behind, LabelRef(l, how, behind)
  PROVE  AsMeant'
<1>1. PICK puts \in BOOLEAN : puts = FALSE
  OBVIOUS
<1>2. Fits(8) /\ Emit(pos, 8, FALSE, Zero)
  BY DEF LabelRef
<1>3. Emit(pos, 8, puts, Zero)
  BY <1>1, <1>2
<1>4. Recorded(pos, 8, puts, Zero)
  BY <1>1 DEF Recorded
<1>5. 8 \in 1 .. 8
  OBVIOUS
<1>. QED  BY <1>1, <1>2, <1>3, <1>4, <1>5, EmitAsMeant

LEMMA ResolveAsMeant ==
  ASSUME IInv, AsMeant, Resolve, Put(LoadIPos, 4, <<labels[Ref.label], Half, Ref.how>>)
  PROVE  AsMeant'
<1>. DEFINE r == (turn + 1) \div 2
            p == LoadIPos
            c == <<labels[Ref.label], Half, Ref.how>>
<1>1. /\ cap' = cap /\ cap' = size' /\ highest' <= size' /\ pos' = p + 4
      /\ r \in DOMAIN refs /\ refs[r].at \in Nat
      /\ p = refs[r].at + (IF turn = 2 * r THEN 4 ELSE 0)
      /\ \A q \in 0 .. cap - 1 :
           buf'[q] = IF q \in p .. p + 3 THEN <<LoadIOf(refs[r], Half), q - p>> ELSE buf[q]
  BY ResolveWrites
<1>2. c = LoadIOf(refs[r], Half)
  BY DEF Ref, LoadIOf
<1>3. p \in Nat /\ p + 3 < cap /\ cap \in Nat /\ 0 .. cap - 1 \subseteq Position
  <2>1. highest \in Nat /\ cap \in Nat /\ highest <= cap /\ cap = size
    BY Sizes DEF IInv, BufferLayout, TypeOK, Position
  <2>2. refs[r].at + 8 <= highest
    BY <1>1 DEF IInv, BufferLayout
  <2>3. p \in Nat /\ p <= refs[r].at + 4
    BY <1>1
  <2>. HIDE DEF p, r
  <2>4. 0 .. cap - 1 \subseteq Position
    BY <2>1, CapInPosition DEF IInv
  <2>5. p + 3 < cap
    <3>1. refs[r].at \in Nat
      BY <1>1
    <3>. QED  BY <2>1, <2>2, <2>3, <3>1
  <2>. QED  BY <2>1, <2>3, <2>4, <2>5
<1>. HIDE DEF p, r, c
<1>4. \A q \in Position :
        meant'[q] = IF q \in p .. p + 3 THEN <<c, q - p>> ELSE meant[q]
  <2>1. p + 4 - 1 = p + 3
    BY <1>3
  <2>. QED  BY <2>1 DEF Put, Span, p, c
<1>5. ASSUME NEW q \in 0 .. cap - 1
      PROVE  buf'[q] = meant'[q]
  BY <1>1, <1>2, <1>3, <1>4 DEF AsMeant
<1>6. ASSUME NEW q \in Position, q >= cap
      PROVE  meant'[q] = Zero
  <2>1. q \notin p .. p + 3
    BY <1>3, <1>6, Sizes DEF Position
  <2>. QED  BY <1>4, <1>6, <2>1 DEF AsMeant
<1>. QED  BY <1>1, <1>5, <1>6 DEF AsMeant

LEMMA HNextAsMeant ==
  ASSUME IInv, AsMeant, Careful, [HNext]_<<vars, meant>>
  PROVE  AsMeant' /\ [Next]_vars
<1>1. [Next]_vars
  BY DEF HNext, Next
<1>2. TypeOK'
  BY <1>1, NextType DEF IInv
<1>3. CASE \E c \in Data : \/ Instruction(c) /\ Put(pos, 4, c)
                           \/ EmitPending(c) /\ Put(pos, Head(pending), c)
  BY <1>1, <1>2, <1>3, StatementAsMeant
<1>4. CASE Resolve /\ Put(LoadIPos, 4, <<labels[Ref.label], Half, Ref.how>>)
  BY <1>1, <1>4, ResolveAsMeant
<1>5. CASE UNCHANGED meant /\ \E l \in Labels : \E how \in Hows :
             LabelRef(l, how, << >>) \/ LabelRef(l, how, << 4 >>)
  BY <1>1, <1>2, <1>5, LabelRefAsMeant
<1>6. CASE UNCHANGED <<buf, cap, meant>>
  BY <1>1, <1>6 DEF AsMeant, Position
<1>7. CASE /\ \/ \E n \in {1, 2, 4} : Bytes(n)
              \/ \E n \in {2, 4} : Load32(n)
              \/ \E a \in Aligns : Align(a)
              \/ \E l \in Labels : Label(l)
              \/ \E o \in Offsets : Offset(o)
              \/ \E t \in Targets : At(t)
              \/ StatementFails \/ EndOfInput \/ ResolveFails \/ WriteFile \/ Crash
           /\ UNCHANGED meant
  <2>1. UNCHANGED <<buf, cap, meant>>
    BY <1>7 DEF Bytes, Load32, Align, Items, Label, Offset, At, StatementFails,
                EndOfInput, ResolveFails, Fail, WriteFile, Crash
  <2>. QED  BY <1>6, <2>1
<1>8. CASE UNCHANGED <<vars, meant>>
  BY <1>6, <1>8 DEF vars
<1>. QED  BY <1>3, <1>4, <1>5, <1>7, <1>8 DEF HNext

\* Every byte of a written image is the byte that was emitted for it, however
\* often the buffer grew, for every block size, address width and -f operand
\* (handle_exceeding_buffer, emit_byte, label_resolution, write_file).
THEOREM ImageFaithful == Careful => (HSpec => []ImageIsEmitted)
<1>. SUFFICES ASSUME Careful PROVE HSpec => []ImageIsEmitted
  OBVIOUS
<1>1. HInit => IInv /\ AsMeant
  <2>1. HInit => IInv
    BY InitIInv DEF HInit
  <2>2. HInit => \A q \in 0 .. cap - 1 : q \in Position
    BY <2>1, CapInPosition DEF IInv, BufferLayout
  <2>. QED  BY <2>1, <2>2 DEF HInit, Init, AsMeant
<1>2. IInv /\ AsMeant /\ [HNext]_<<vars, meant>> => (IInv /\ AsMeant)'
  BY HNextAsMeant, NextIInv
<1>3. IInv /\ AsMeant => ImageIsEmitted
  <2>1. IInv => highest \in Nat /\ cap \in Nat /\ highest <= cap
    BY Sizes DEF IInv, BufferLayout, TypeOK, Position
  <2>. QED  BY <2>1 DEF AsMeant, ImageIsEmitted
<1>. QED  BY <1>1, <1>2, <1>3, PTL DEF HSpec
=============================================================================
