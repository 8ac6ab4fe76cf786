--------------------------- MODULE VasmEmitProofs ---------------------------
(***************************************************************************)
(* Proofs about VasmEmit: for programs that fit the buffer's assumptions,  *)
(* the assembler stays inside its allocation and writes a complete image.  *)
(***************************************************************************)
EXTENDS VasmEmitProps, SequenceTheorems, TLAPS

-----------------------------------------------------------------------------
(* Positions and growth                                                    *)

LEMMA Sizes ==
  /\ Block \in Nat /\ Block >= 8 /\ AddrSize \in Nat /\ AddrSize >= 16
  /\ Block < AddrSize /\ 0 \in Position
<1>1. Block \in Nat /\ Block >= 8 /\ AddrSize \in Nat /\ AddrSize >= 2 * Block
  BY EmitAssumption
<1>. QED  BY <1>1 DEF Position

LEMMA ToPosType ==
  ASSUME NEW n \in Int
  PROVE  ToPos(n) \in Position
  BY Sizes DEF ToPos, Position

LEMMA ToPosSmall ==
  ASSUME NEW n \in Position
  PROVE  ToPos(n) = n
  BY Sizes DEF ToPos, Position

\* The number of a byte in its item comes back from its position, even when the
\* item wraps.
LEMMA ByteNumber ==
  ASSUME NEW p \in Position, NEW k \in 0 .. 3
  PROVE  ToPos(ToPos(p + k) - p) = k
<1>1. /\ p \in Nat /\ k \in Nat /\ AddrSize \in Nat /\ p < AddrSize /\ k < AddrSize
      /\ k \in Position
  BY Sizes DEF Position
<1>2. CASE p + k < AddrSize
  <2>1. ToPos(p + k) = p + k
    BY <1>1, <1>2, ToPosSmall DEF Position
  <2>2. ToPos(p + k) - p = k
    BY <1>1, <2>1
  <2>. QED  BY <1>1, <2>2, ToPosSmall
<1>3. CASE p + k >= AddrSize
  <2>1. (p + k) % AddrSize = p + k - AddrSize
    BY <1>1, <1>3
  <2>2. ToPos(p + k) - p = k - AddrSize
    BY <1>1, <2>1 DEF ToPos
  <2>3. (k - AddrSize) % AddrSize = k
    BY <1>1
  <2>. QED  BY <2>2, <2>3 DEF ToPos
<1>. QED  BY <1>1, <1>2, <1>3

\* A buffer of whole blocks grows by exactly one when it is full.
LEMMA GrownByABlock ==
  ASSUME highest \in Nat, highest % Block = 0
  PROVE  GrownCap = highest + Block
<1>. DEFINE q == highest \div Block
<1>1. Block \in Nat \ {0}
  BY Sizes
<1>2. q \in Nat /\ highest = q * Block
  BY <1>1
<1>. HIDE DEF q
<1>3. (q + 1) * Block = q * Block + Block
  BY <1>1, <1>2
<1>. QED  BY <1>2, <1>3 DEF GrownCap, q

LEMMA NextBlock ==
  ASSUME NEW n \in Nat, n % Block = 0
  PROVE  (n + Block) % Block = 0
<1>. DEFINE q == n \div Block
<1>1. Block \in Nat \ {0}
  BY Sizes
<1>2. q \in Nat /\ n = q * Block
  BY <1>1
<1>. HIDE DEF q
<1>3. n + Block = (q + 1) * Block
  BY <1>1, <1>2
<1>4. ((q + 1) * Block) % Block = 0
  BY <1>1, <1>2
<1>. QED  BY <1>3, <1>4
-----------------------------------------------------------------------------
(* Types                                                                   *)

\* The part of TypeOK about what Emit changes.
BufferTyped ==
  /\ pos \in Position /\ highest \in Position /\ size \in Position /\ cap \in Nat
  /\ buf \in [0 .. cap - 1 -> Content] /\ overrun \in BOOLEAN

\* The rest of it.
RestTyped ==
  /\ offset \in Position /\ fixed \in BOOLEAN
  /\ labels \in [Labels -> Position \cup {Unset}]
  /\ refs \in Seq([label : Labels, at : Position, how : Hows])
  /\ pending \in Seq({1, 4}) /\ turn \in Nat \ {0} /\ statements \in Nat
  /\ status \in {"parsing", "resolving", "written", "failed", "crashed"}

LEMMA TypeParts == TypeOK <=> BufferTyped /\ RestTyped
  BY DEF TypeOK, BufferTyped, RestTyped

LEMMA EmitTypes ==
  ASSUME TypeOK, NEW p \in Position, NEW n \in 1 .. 8, NEW puts \in BOOLEAN,
         NEW c, puts => n <= 4 /\ c \in Data \cup LoadIs, Emit(p, n, puts, c)
  PROVE  BufferTyped'
<1>1. p + n \in Int /\ size + Block \in Int /\ highest \in Nat
  BY Sizes DEF TypeOK, Position
<1>2. ToPos(p + n) \in Position /\ ToPos(size + Block) \in Position
  BY <1>1, ToPosType
<1>3. GrownCap \in Nat
  <2>1. highest \div Block \in Nat
    BY <1>1, Sizes
  <2>. QED  BY <2>1, Sizes DEF GrownCap
<1>4. cap' \in Nat /\ size' \in Position
  BY <1>2, <1>3 DEF Emit, TypeOK
<1>5. pos' \in Position /\ highest' \in Position
  BY <1>2 DEF Emit, Higher, TypeOK
<1>6. overrun' \in BOOLEAN
  BY DEF Emit, TypeOK
<1>7. buf' \in [0 .. cap' - 1 -> Content]
  <2>. DEFINE clear == IF Exceeds(p, n) THEN Cleared(p) ELSE {}
              put   == IF puts THEN {ToPos(q) : q \in Span(p, n)} ELSE {}
  <2>1. buf' = [q \in 0 .. cap' - 1 |->
                  CASE q \in put -> <<c, ToPos(q - p)>>
                    [] q \in clear \ put -> Zero
                    [] q \notin put \cup clear -> IF q < cap THEN buf[q] ELSE Unset]
    BY DEF Emit
  <2>2. ASSUME NEW q \in put
        PROVE  <<c, ToPos(q - p)>> \in Content
    <3>1. puts /\ n <= 4
      OBVIOUS
    <3>2. PICK s \in Span(p, n) : q = ToPos(s)
      BY <3>1
    <3>3. p \in Int /\ p \in Position
      BY Sizes DEF Position
    <3>4. PICK k \in 0 .. 3 : s = p + k
      <4>1. s \in p .. p + n - 1
        BY <3>2 DEF Span
      <4>2. s - p \in 0 .. 3 /\ s = p + (s - p)
        BY <3>1, <3>3, <4>1
      <4>. QED  BY <4>2
    <3>5. ToPos(q - p) = k
      BY <3>2, <3>3, <3>4, ByteNumber
    <3>. QED  BY <3>1, <3>5 DEF Content
  <2>. HIDE DEF clear, put
  <2>3. ASSUME NEW q \in 0 .. cap' - 1
        PROVE  (IF q < cap THEN buf[q] ELSE Unset) \in Content
    <3>1. Unset \in Content
      BY DEF Content
    <3>2. q < cap => buf[q] \in Content
      BY <1>4 DEF TypeOK
    <3>. QED  BY <3>1, <3>2
  <2>4. Zero \in Content
    BY DEF Content
  <2>. QED  BY <2>1, <2>2, <2>3, <2>4
<1>. QED  BY <1>4, <1>5, <1>6, <1>7 DEF BufferTyped

LEMMA ItemsType ==
  ASSUME TypeOK, NEW n \in Nat, NEW w \in {1, 4}, Items(n, w)
  PROVE  TypeOK'
<1>1. [k \in 1 .. n |-> w] \in Seq({1, 4})
  OBVIOUS
<1>. QED  BY <1>1 DEF Items, TypeOK

LEMMA AlignWidth ==
  ASSUME TypeOK, NEW a \in Aligns, Align(a)
  PROVE  (-pos) % a \in Nat
  BY EmitAssumption DEF TypeOK, Position, Align

LEMMA LabelRefType ==
  ASSUME TypeOK, NEW l \in Labels, NEW how \in Hows,
         NEW behind \in {<< >>, << 4 >>}, LabelRef(l, how, behind)
  PROVE  TypeOK'
<1>1. pos \in Position /\ 8 \in 1 .. 8 /\ FALSE \in BOOLEAN
  BY DEF TypeOK
<1>3. BufferTyped'
  <2>1. Emit(pos, 8, FALSE, Zero)
    BY DEF LabelRef
  <2>. QED  BY <1>1, <2>1, EmitTypes
<1>4. refs' \in Seq([label : Labels, at : Position, how : Hows])
  BY <1>1 DEF LabelRef, TypeOK
<1>5. behind \in Seq({1, 4})
  <2>1. CASE behind = << >>
    BY <2>1, EmptySeq
  <2>2. CASE behind = << 4 >>
    BY <2>2
  <2>. QED  BY <2>1, <2>2
<1>6. RestTyped'
  BY <1>4, <1>5, TypeParts DEF LabelRef, RestTyped
<1>. QED  BY <1>3, <1>6 DEF TypeOK, BufferTyped, RestTyped

LEMMA EmittingTypes ==
  ASSUME TypeOK, NEW c \in Data, Instruction(c) \/ EmitPending(c)
  PROVE  TypeOK'
<1>1. pos \in Position /\ c \in Data \cup LoadIs
  BY DEF TypeOK
<1>2. CASE Instruction(c)
  <2>1. Emit(pos, 4, TRUE, c)
    BY <1>2 DEF Instruction
  <2>2. 4 \in 1 .. 8 /\ 4 <= 4 /\ TRUE \in BOOLEAN
    OBVIOUS
  <2>3. BufferTyped'
    BY <1>1, <2>1, <2>2, EmitTypes
  <2>4. RestTyped'
    BY <1>2, TypeParts DEF Instruction, RestTyped
  <2>. QED  BY <2>3, <2>4 DEF TypeOK, BufferTyped, RestTyped
<1>3. CASE EmitPending(c)
  <2>1. Emit(pos, Head(pending), TRUE, c)
    BY <1>3 DEF EmitPending
  <2>2. Head(pending) \in {1, 4} /\ Tail(pending) \in Seq({1, 4})
    BY <1>3 DEF EmitPending, TypeOK
  <2>3. Head(pending) \in 1 .. 8 /\ Head(pending) <= 4 /\ TRUE \in BOOLEAN
    BY <2>2
  <2>4. BufferTyped'
    BY <1>1, <2>1, <2>3, EmitTypes
  <2>5. RestTyped'
    BY <1>3, <2>2, TypeParts DEF EmitPending, RestTyped
  <2>. QED  BY <2>4, <2>5 DEF TypeOK, BufferTyped, RestTyped
<1>. QED  BY <1>2, <1>3

\* The reference being resolved.
LEMMA RefType ==
  ASSUME TypeOK, More
  PROVE  /\ (turn + 1) \div 2 \in DOMAIN refs
         /\ Ref.label \in Labels /\ Ref.how \in Hows
         /\ Ref.at \in Position /\ LoadIPos \in Position
<1>1. (turn + 1) \div 2 \in 1 .. Len(refs)
  BY DEF TypeOK, More
<1>2. Ref \in [label : Labels, at : Position, how : Hows] /\ DOMAIN refs = 1 .. Len(refs)
  <2>1. refs \in Seq([label : Labels, at : Position, how : Hows])
    BY DEF TypeOK
  <2>2. refs[(turn + 1) \div 2] \in [label : Labels, at : Position, how : Hows]
    BY <1>1, <2>1, ElementOfSeq
  <2>3. DOMAIN refs = 1 .. Len(refs)
    BY <2>1, LenProperties
  <2>. QED  BY <2>2, <2>3 DEF Ref
<1>. QED  BY <1>1, <1>2 DEF LoadIPos, TypeOK

LEMMA ResolveType ==
  ASSUME TypeOK, Resolve
  PROVE  TypeOK'
<1>. DEFINE c == <<labels[Ref.label], Half, Ref.how>>
<1>1. LoadIPos \in Position /\ labels[Ref.label] \in Position /\ Ref.how \in Hows
  BY RefType DEF Resolve, TypeOK
<1>2. c \in Data \cup LoadIs
  BY <1>1 DEF LoadIs, Halves, Half
<1>3. Emit(LoadIPos, 4, TRUE, c)
  BY DEF Resolve
<1>. HIDE DEF c
<1>4. 4 \in 1 .. 8 /\ 4 <= 4 /\ TRUE \in BOOLEAN
  OBVIOUS
<1>5. BufferTyped'
  BY <1>1, <1>2, <1>3, <1>4, EmitTypes
<1>6. RestTyped'
  BY TypeParts DEF Resolve, RestTyped
<1>. QED  BY <1>5, <1>6 DEF TypeOK, BufferTyped, RestTyped

LEMMA InitType == Init => TypeOK
<1>1. Block \in Position
  BY Sizes DEF Position
<1>2. FixedSizes \subseteq Position /\ DefaultOffset \in Position
  BY EmitAssumption DEF Position
<1>3. Zero \in Content
  BY DEF Content
<1>. SUFFICES ASSUME Init PROVE TypeOK
  OBVIOUS
<1>4. size \in Position /\ fixed \in BOOLEAN
  BY <1>1, <1>2 DEF Init
<1>5. size \in Nat
  BY <1>4 DEF Position
<1>6. refs \in Seq([label : Labels, at : Position, how : Hows]) /\ pending \in Seq({1, 4})
  BY EmptySeq DEF Init
<1>7. BufferTyped
  BY <1>3, <1>4, <1>5, Sizes DEF Init, BufferTyped
<1>8. RestTyped
  BY <1>2, <1>4, <1>6 DEF Init, RestTyped
<1>. QED  BY <1>7, <1>8, TypeParts

LEMMA NextType ==
  ASSUME TypeOK, [Next]_vars
  PROVE  TypeOK'
<1>1. CASE \E c \in Data : Instruction(c) \/ EmitPending(c)
  BY <1>1, EmittingTypes
<1>2. CASE \/ \E n \in {1, 2, 4} : Bytes(n)
           \/ \E n \in {2, 4} : Load32(n)
  BY <1>2, ItemsType DEF Bytes, Load32
<1>3. CASE \E a \in Aligns : Align(a)
  BY <1>3, ItemsType, AlignWidth DEF Align
<1>4. CASE \E l \in Labels : \E how \in Hows :
             LabelRef(l, how, << >>) \/ LabelRef(l, how, << 4 >>)
  BY <1>4, LabelRefType
<1>5. CASE \E l \in Labels : Label(l)
  <2>1. LabelAddr \in Position
    <3>1. pos + offset \in Int
      BY Sizes DEF TypeOK, Position
    <3>. QED  BY <3>1, ToPosType DEF LabelAddr
  <2>. QED  BY <1>5, <2>1 DEF Label, TypeOK
<1>6. CASE \E o \in Offsets : Offset(o)
  BY <1>6, EmitAssumption DEF Offset, TypeOK, Position
<1>7. CASE \E t \in Targets : At(t)
  BY <1>7, EmitAssumption DEF At, TypeOK, Position
<1>8. CASE StatementFails \/ ResolveFails
  BY <1>8 DEF StatementFails, ResolveFails, Fail, TypeOK
<1>9. CASE EndOfInput \/ WriteFile \/ Crash
  BY <1>9 DEF EndOfInput, WriteFile, Crash, TypeOK
<1>10. CASE Resolve
  BY <1>10, ResolveType
<1>11. CASE UNCHANGED vars
  BY <1>11 DEF vars, TypeOK
<1>. QED  BY <1>1, <1>2, <1>3, <1>4, <1>5, <1>6, <1>7, <1>8, <1>9, <1>10, <1>11
          DEF Next

\* Every value stays in its type, whatever the program: positions are dwords, and
\* the buffer is always what is allocated (emit_context).
THEOREM TypeCorrect == Spec => []TypeOK
<1>1. TypeOK /\ [Next]_vars => TypeOK'
  BY NextType
<1>. QED  BY <1>1, InitType, PTL DEF Spec
-----------------------------------------------------------------------------
(* The layout of the buffer                                                *)

\* No byte of the buffer is uninitialised.
Initialised == \A q \in 0 .. cap - 1 : buf[q] # Unset

\* What an Emit that fits keeps and does.
LEMMA EmitFits ==
  ASSUME TypeOK, BufferLayout, NeverOverruns, Initialised,
         NEW p \in Position, NEW n \in 1 .. 8, NEW puts \in BOOLEAN,
         NEW c, puts => n <= 4 /\ \A k \in 0 .. 3 : <<c, k>> # Unset,
         Emit(p, n, puts, c),
         p + n < AddrSize,
         p + n <= size \/ p + Block < AddrSize,
         fixed \/ p + n <= size \/ (p = highest /\ p = size)
  PROVE  /\ cap' = size' /\ highest' <= size'
         /\ highest <= highest' /\ p + n <= highest' /\ pos' = p + n
         /\ ~fixed => size' % Block = 0
         /\ NeverOverruns' /\ Initialised'
         /\ \A q \in 0 .. cap - 1 :
              buf'[q] = IF puts /\ q \in p .. p + n - 1 THEN <<c, q - p>> ELSE buf[q]
         /\ cap <= cap' /\ (p + n <= size => cap' = cap)
         /\ \A q \in cap .. cap' - 1 :
              buf'[q] = IF puts /\ q \in p .. p + n - 1 THEN <<c, q - p>> ELSE Zero
<1>. DEFINE put   == IF puts THEN {ToPos(q) : q \in Span(p, n)} ELSE {}
            clear == IF Exceeds(p, n) THEN Cleared(p) ELSE {}
<1>1. /\ Exceeds(p, n) => ~fixed
      /\ cap' = IF Exceeds(p, n) THEN GrownCap ELSE cap
      /\ size' = IF Exceeds(p, n) THEN ToPos(size + Block) ELSE size
      /\ buf' = [q \in 0 .. cap' - 1 |->
                   CASE q \in put -> <<c, ToPos(q - p)>>
                     [] q \in clear \ put -> Zero
                     [] q \notin put \cup clear -> IF q < cap THEN buf[q] ELSE Unset]
      /\ overrun' = (overrun \/ \E q \in put \cup clear : q >= cap')
  BY DEF Emit
<1>2. BufferTyped
  BY TypeParts
<1>3. ~overrun /\ cap = size /\ highest <= size
  BY DEF NeverOverruns, BufferLayout
<1>4. /\ p \in Nat /\ n \in Nat /\ n >= 1 /\ n <= 8 /\ size \in Nat /\ cap = size
      /\ highest \in Nat /\ highest <= size /\ AddrSize \in Nat
  BY <1>2, <1>3, Sizes DEF BufferTyped, Position
<1>5. ToPos(p + n - 1) = p + n - 1 /\ ToPos(p + n) = p + n
  <2>1. p + n - 1 \in Position /\ p + n \in Position
    BY <1>4 DEF Position
  <2>. QED  BY <2>1, ToPosSmall
<1>6. put = IF puts THEN p .. p + n - 1 ELSE {}
  <2>1. ASSUME NEW q \in Span(p, n)
        PROVE  ToPos(q) = q
    <3>1. q \in Position
      BY <1>4 DEF Span, Position
    <3>. QED  BY <3>1, ToPosSmall
  <2>. QED  BY <2>1 DEF Span
<1>7. Exceeds(p, n) <=> p + n > size
  BY <1>4, <1>5 DEF Exceeds
<1>8. pos' = p + n /\ highest' = Higher(p + n)
  BY <1>5 DEF Emit
<1>9. highest <= highest' /\ p + n <= highest' /\ highest' \in {highest, p + n}
  BY <1>4, <1>8 DEF Higher
<1>0. ASSUME NEW q \in put
      PROVE  ToPos(q - p) = q - p /\ <<c, q - p>> # Unset
  <2>1. puts /\ n <= 4 /\ q \in p .. p + n - 1
    BY <1>6
  <2>2. q - p \in 0 .. 3 /\ q - p \in Position
    BY <1>4, <2>1, Sizes DEF Position
  <2>. QED  BY <2>1, <2>2, ToPosSmall
<1>. DEFINE byte(q) == <<c, q - p>>
<1>. HIDE DEF put, clear
<1>10. ASSUME NEW q \in 0 .. cap' - 1
      PROVE  buf'[q] = IF q \in put THEN byte(q) ELSE IF q \in clear THEN Zero
                       ELSE IF q < cap THEN buf[q] ELSE Unset
  BY <1>0, <1>1
<1>14. ASSUME NEW q \in put
       PROVE  byte(q) # Unset
  BY <1>0
<1>. HIDE DEF byte
<1>11. overrun' => \E q \in put \cup clear : q >= cap'
  BY <1>1, <1>3
<1>12. CASE p + n <= size
  <2>1. cap' = cap /\ size' = size /\ clear = {}
    BY <1>1, <1>4, <1>7, <1>12 DEF clear
  <2>2. \A q \in put : q < cap
    BY <1>4, <1>6, <1>12
  <2>3. ~overrun'
    BY <1>4, <1>6, <1>11, <2>1, <2>2
  <2>4. \A q \in 0 .. cap - 1 : buf'[q] = IF q \in put THEN byte(q) ELSE buf[q]
    BY <1>4, <1>10, <2>1
  <2>5. \A q \in 0 .. cap - 1 :
          buf'[q] = IF puts /\ q \in p .. p + n - 1 THEN byte(q) ELSE buf[q]
    BY <2>4, <1>6
  <2>6. Initialised'
    BY <1>14, <2>1, <2>4 DEF Initialised
  <2>7. highest' <= size' /\ cap' = size' /\ (~fixed => size' % Block = 0)
    BY <1>4, <1>9, <1>12, <2>1 DEF BufferLayout
  <2>8. cap <= cap' /\ cap .. cap' - 1 = {}
    BY <1>4, <2>1
  <2>. QED  BY <1>8, <1>9, <2>1, <2>3, <2>5, <2>6, <2>7, <2>8 DEF NeverOverruns, byte
<1>13. CASE p + n > size
  <2>1. ~fixed /\ p = highest /\ p = size /\ p + Block < AddrSize
    BY <1>4, <1>7, <1>13 DEF Emit
  <2>2. GrownCap = size + Block
    <3>1. size % Block = 0
      BY <2>1 DEF BufferLayout
    <3>. QED  BY <1>4, <2>1, <3>1, GrownByABlock
  <2>3. ToPos(size + Block) = size + Block
    <3>1. size + Block \in Position
      BY <1>4, <2>1, Sizes DEF Position
    <3>. QED  BY <3>1, ToPosSmall
  <2>4. Cleared(p) = size .. size + Block - 1
    BY <2>1 DEF Cleared, Span
  <2>5. cap' = size + Block /\ size' = size + Block /\ clear = size .. size + Block - 1
    BY <1>1, <1>4, <1>7, <1>13, <2>2, <2>3, <2>4 DEF clear
  <2>6. \A q \in put \cup clear : q < size + Block
    BY <1>4, <1>6, <2>1, <2>5, Sizes
  <2>7. ~overrun'
    <3>1. \A q \in put \cup clear : q \in Int
      BY <1>4, <1>6, <2>5, Sizes
    <3>2. ~ \E q \in put \cup clear : q >= cap'
      BY <1>4, <2>5, <2>6, <3>1, Sizes
    <3>. QED  BY <1>11, <3>2
  <2>8. ASSUME NEW q \in 0 .. size + Block - 1
        PROVE  buf'[q] = IF q \in put THEN byte(q) ELSE IF q >= size THEN Zero ELSE buf[q]
    BY <1>4, <1>10, <2>5, Sizes
  <2>9. \A q \in 0 .. cap - 1 :
          buf'[q] = IF puts /\ q \in p .. p + n - 1 THEN byte(q) ELSE buf[q]
    BY <1>4, <1>6, <2>8, Sizes
  <2>10. Initialised'
    <3>1. Zero # Unset
      BY EmitAssumption
    <3>2. \A q \in 0 .. size - 1 : buf[q] # Unset
      BY <1>4 DEF Initialised
    <3>3. \A q \in 0 .. size + Block - 1 : buf'[q] # Unset
      BY <1>14, <1>4, <2>8, <3>1, <3>2, Sizes
    <3>4. \A q \in 0 .. cap' - 1 : buf'[q] # Unset
      BY <1>4, <2>5, <3>3, Sizes
    <3>. QED  BY <3>4 DEF Initialised
  <2>11. highest' <= size' /\ cap' = size'
    BY <1>4, <1>9, <2>1, <2>5, Sizes
  <2>12. size' % Block = 0
    <3>1. size % Block = 0
      BY <2>1 DEF BufferLayout
    <3>. QED  BY <1>4, <2>5, <3>1, NextBlock
  <2>13. cap <= cap' /\ ~(p + n <= size)
    BY <1>4, <1>13, <2>5, Sizes
  <2>14. \A q \in cap .. cap' - 1 :
           buf'[q] = IF puts /\ q \in p .. p + n - 1 THEN byte(q) ELSE Zero
    BY <1>4, <1>6, <2>5, <2>8, Sizes
  <2>. QED  BY <1>8, <1>9, <2>7, <2>9, <2>10, <2>11, <2>12, <2>13, <2>14
            DEF NeverOverruns, byte
<1>. QED  BY <1>4, <1>12, <1>13 DEF byte
-----------------------------------------------------------------------------
(* Label resolution                                                        *)

\* The bytes of reference k that label_resolution has written, when turn is
\* the LOADI it emits next.
Written(k) == {j \in 0 .. 7 : IF j < 4 THEN turn >= 2 * k ELSE turn >= 2 * k + 1}
Again(k, b) == \E m \in DOMAIN refs : m > k /\ b \in Span(refs[m].at, 8)

\* They hold the reference's LOADI unless a later reference has the byte too.
Resolved ==
  status \in {"resolving", "written"} =>
    \A k \in DOMAIN refs : \A j \in Written(k) :
      \/ Again(k, refs[k].at + j)
      \/ buf[refs[k].at + j] = <<LoadIOf(refs[k], HalfOf(j)), j % 4>>

\* A written image has nothing more to resolve.
Complete == status = "written" => ~More

IInv == TypeOK /\ BufferLayout /\ NeverOverruns /\ Initialised /\ Resolved /\ Complete

LEMMA InitIInv == Init => IInv
<1>. SUFFICES ASSUME Init PROVE IInv
  OBVIOUS
<1>1. TypeOK
  BY InitType
<1>2. BufferLayout
  <2>1. cap = size /\ highest <= size /\ Len(refs) = 0 /\ DOMAIN refs = {}
    BY <1>1, Sizes DEF Init, TypeOK, Position
  <2>2. ~fixed => size % Block = 0
    <3>1. ~fixed => size = Block
      BY DEF Init
    <3>. QED  BY <3>1, Sizes
  <2>. QED  BY <2>1, <2>2 DEF Init, BufferLayout
<1>3. NeverOverruns
  BY DEF Init, NeverOverruns
<1>4. Initialised
  BY EmitAssumption DEF Init, Initialised
<1>. QED  BY <1>1, <1>2, <1>3, <1>4 DEF IInv, Resolved, Complete, Init

\* An action that leaves the buffer and the references alone.
LEMMA LayoutKept ==
  ASSUME IInv, status' \in {"parsing", "failed", "crashed"},
         status' = "parsing" => status = "parsing",
         UNCHANGED <<highest, size, fixed, buf, cap, refs, turn, overrun>>,
         status # "parsing" => UNCHANGED pos
  PROVE  BufferLayout' /\ NeverOverruns' /\ Initialised' /\ Resolved' /\ Complete'
<1>1. BufferLayout'
  BY DEF IInv, BufferLayout, Ref
<1>. QED  BY <1>1 DEF IInv, NeverOverruns, Initialised, Resolved, Complete
LEMMA RefTypes ==
  ASSUME TypeOK
  PROVE  /\ Len(refs) \in Nat /\ DOMAIN refs = 1 .. Len(refs)
         /\ \A k \in DOMAIN refs :
              refs[k].label \in Labels /\ refs[k].at \in Position /\ refs[k].how \in Hows
<1>1. refs \in Seq([label : Labels, at : Position, how : Hows])
  BY DEF TypeOK
<1>2. Len(refs) \in Nat /\ DOMAIN refs = 1 .. Len(refs)
  BY <1>1, LenProperties
<1>3. \A k \in 1 .. Len(refs) : refs[k] \in [label : Labels, at : Position, how : Hows]
  BY <1>1, ElementOfSeq
<1>. QED  BY <1>2, <1>3

\* A statement's item that fits.
LEMMA ItemFits ==
  ASSUME IInv, Careful, NEW n \in 1 .. 8, NEW puts \in BOOLEAN,
         NEW c, puts => n <= 4 /\ \A k \in 0 .. 3 : <<c, k>> # Unset,
         Fits(n), Emit(pos, n, puts, c)
  PROVE  /\ cap' = size' /\ highest' <= size'
         /\ highest <= highest' /\ pos + n <= highest'
         /\ ~fixed => size' % Block = 0
         /\ NeverOverruns' /\ Initialised'
<1>1. pos \in Position /\ size \in Nat
  BY DEF IInv, TypeOK, Position
<1>2. /\ pos + Block < AddrSize
      /\ fixed \/ pos + n <= size \/ (pos = highest /\ pos = size)
  BY DEF Fits
<1>3. pos + n < AddrSize
  BY <1>1, <1>2, Sizes DEF Position
<1>. QED  BY <1>1, <1>2, <1>3, EmitFits DEF IInv

LEMMA EmittingKeeps ==
  ASSUME IInv, Careful, NEW c \in Data, Instruction(c) \/ EmitPending(c)
  PROVE  BufferLayout' /\ NeverOverruns' /\ Initialised' /\ Resolved' /\ Complete'
<1>1. TypeOK /\ \A k \in 0 .. 3 : <<c, k>> # Unset
  BY EmitAssumption DEF IInv
<1>2. PICK n \in 1 .. 8 : n <= 4 /\ Fits(n) /\ Emit(pos, n, TRUE, c)
  <2>1. CASE Instruction(c)
    <3>1. 4 \in 1 .. 8 /\ 4 <= 4
      OBVIOUS
    <3>. QED  BY <2>1, <3>1 DEF Instruction
  <2>2. CASE EmitPending(c)
    <3>1. Head(pending) \in {1, 4}
      BY <1>1, <2>2 DEF EmitPending, TypeOK
    <3>2. Head(pending) \in 1 .. 8 /\ Head(pending) <= 4
      BY <3>1
    <3>. QED  BY <2>2, <3>2 DEF EmitPending
  <2>. QED  BY <2>1, <2>2
<1>3. /\ status = "parsing" /\ status' = "parsing"
      /\ UNCHANGED <<fixed, labels, refs, turn>>
  BY DEF Instruction, EmitPending, Parsing
<1>4. TRUE \in BOOLEAN
  OBVIOUS
<1>5. /\ cap' = size' /\ highest' <= size'
      /\ highest <= highest' /\ pos + n <= highest'
      /\ ~fixed => size' % Block = 0
      /\ NeverOverruns' /\ Initialised'
  BY <1>1, <1>2, <1>4, ItemFits
<1>6. BufferLayout'
  <2>1. highest \in Int /\ highest' \in Int
    <3>1. TypeOK'
      BY <1>1, EmittingTypes
    <3>. QED  BY <1>1, <3>1, Sizes DEF TypeOK, Position
  <2>2. \A k \in DOMAIN refs : refs[k].at + 8 <= highest'
    <3>1. \A k \in DOMAIN refs : refs[k].at \in Int /\ refs[k].at + 8 <= highest
      BY <1>1, RefTypes, Sizes DEF IInv, BufferLayout, Position
    <3>. QED  BY <1>5, <2>1, <3>1
  <2>3. turn = 1 /\ turn <= 2 * Len(refs) + 1
    BY <1>3 DEF IInv, BufferLayout
  <2>. QED  BY <1>3, <1>5, <2>2, <2>3 DEF BufferLayout
<1>. QED  BY <1>3, <1>5, <1>6 DEF Resolved, Complete

LEMMA LabelRefKeeps ==
  ASSUME IInv, Careful, NEW l \in Labels, NEW how \in Hows,
         NEW behind \in {<< >>, << 4 >>}, LabelRef(l, how, behind)
  PROVE  BufferLayout' /\ NeverOverruns' /\ Initialised' /\ Resolved' /\ Complete'
<1>1. TypeOK /\ TypeOK'
  BY LabelRefType DEF IInv
<1>2. /\ status = "parsing" /\ status' = "parsing" /\ UNCHANGED <<fixed, labels, turn>>
      /\ Fits(8) /\ Emit(pos, 8, FALSE, Zero)
      /\ refs' = Append(refs, [label |-> l, at |-> pos, how |-> how])
  BY DEF LabelRef, Parsing
<1>3. 8 \in 1 .. 8 /\ FALSE \in BOOLEAN
  OBVIOUS
<1>4. /\ cap' = size' /\ highest' <= size'
      /\ highest <= highest' /\ pos + 8 <= highest'
      /\ ~fixed => size' % Block = 0
      /\ NeverOverruns' /\ Initialised'
  BY <1>2, <1>3, ItemFits
<1>5. /\ Len(refs') = Len(refs) + 1
      /\ \A k \in DOMAIN refs' :
           \/ k \in DOMAIN refs /\ refs'[k] = refs[k]
           \/ refs'[k].at = pos
  <2>1. refs \in Seq([label : Labels, at : Position, how : Hows])
        /\ [label |-> l, at |-> pos, how |-> how] \in [label : Labels, at : Position, how : Hows]
    BY <1>1 DEF TypeOK
  <2>. QED  BY <1>2, <2>1, AppendProperties
<1>6. \A k \in DOMAIN refs' : refs'[k].at + 8 <= highest'
  <2>1. highest \in Int /\ highest' \in Int /\ pos \in Int
    BY <1>1, Sizes DEF TypeOK, Position
  <2>2. \A k \in DOMAIN refs : refs[k].at \in Int /\ refs[k].at + 8 <= highest
    BY <1>1, RefTypes, Sizes DEF IInv, BufferLayout, Position
  <2>. QED  BY <1>4, <1>5, <2>1, <2>2
<1>7. turn' = 1 /\ turn' <= 2 * Len(refs') + 1
  <2>1. turn = 1 /\ Len(refs) \in Nat
    BY <1>1, <1>2, RefTypes DEF IInv, BufferLayout
  <2>. QED  BY <1>2, <1>5, <2>1
<1>8. BufferLayout'
  BY <1>2, <1>4, <1>6, <1>7 DEF BufferLayout
<1>. QED  BY <1>2, <1>4, <1>8 DEF Resolved, Complete
\* The LOADI that label_resolution writes next goes to the reserved place.
LEMMA ResolveWrites ==
  ASSUME IInv, Resolve, NEW r, r = (turn + 1) \div 2
  PROVE  /\ r \in DOMAIN refs /\ LoadIPos = refs[r].at + (IF turn = 2 * r THEN 4 ELSE 0)
         /\ turn \in {2 * r - 1, 2 * r} /\ refs[r].at \in Nat
         /\ Half = (IF turn = 2 * r THEN "high" ELSE "low")
         /\ cap' = size' /\ highest' <= size' /\ highest <= highest'
         /\ pos' = LoadIPos + 4 /\ cap' = cap
         /\ ~fixed => size' % Block = 0
         /\ NeverOverruns' /\ Initialised'
         /\ \A q \in 0 .. cap - 1 :
              buf'[q] = IF q \in LoadIPos .. LoadIPos + 3
                        THEN <<LoadIOf(refs[r], Half), q - LoadIPos>>
                        ELSE buf[q]
<1>. DEFINE p == LoadIPos
            c == <<labels[Ref.label], Half, Ref.how>>
<1>1. TypeOK /\ More /\ Emit(p, 4, TRUE, c)
  BY DEF IInv, Resolve
<1>2. /\ r \in DOMAIN refs /\ refs[r] = Ref /\ refs[r].at \in Nat
      /\ p \in Position /\ labels[Ref.label] \in Position
  <2>1. r \in DOMAIN refs /\ refs[r] = Ref /\ refs[r].at \in Position /\ p \in Position
    BY <1>1, RefType DEF Ref
  <2>2. labels[Ref.label] \in Position
    BY <1>1, RefType DEF Resolve, TypeOK
  <2>. QED  BY <2>1, <2>2, Sizes DEF Position
<1>3. turn \in Nat
  BY <1>1 DEF TypeOK
<1>4. turn \in {2 * r - 1, 2 * r} /\ (turn % 2 = 1 <=> turn = 2 * r - 1)
      /\ (turn % 2 = 0 <=> turn = 2 * r)
  BY <1>3
<1>5. p = refs[r].at + (IF turn = 2 * r THEN 4 ELSE 0)
  <2>1. turn % 2 = 0 => pos = Ref.at + 4
    BY DEF IInv, BufferLayout
  <2>. QED  BY <1>2, <1>3, <1>4, <2>1 DEF LoadIPos
<1>6. Half = (IF turn = 2 * r THEN "high" ELSE "low")
  BY <1>3, <1>4 DEF Half
<1>7. refs[r].at + 8 <= highest /\ highest <= size /\ size \in Position
  BY <1>1, <1>2 DEF IInv, BufferLayout, TypeOK
<1>8. highest \in Nat /\ size \in Nat /\ size < AddrSize /\ p \in Nat
  BY <1>1, <1>2, Sizes DEF TypeOK, Position
<1>9. p + 4 <= size /\ p + 4 < AddrSize
  BY <1>2, <1>3, <1>5, <1>7, <1>8, Sizes
<1>10. \A k \in 0 .. 3 : <<c, k>> # Unset
  <2>1. Ref.how \in Hows
    BY <1>1, RefType
  <2>2. c \in (0 .. AddrSize - 1) \X {"low", "high"} \X Hows
    BY <1>2, <1>6, <2>1 DEF Position
  <2>. HIDE DEF c
  <2>. QED  BY <2>2, EmitAssumption
<1>11. 4 \in 1 .. 8 /\ 4 <= 4
  OBVIOUS
<1>12. BufferLayout /\ NeverOverruns /\ Initialised
  BY DEF IInv
<1>. HIDE DEF p, c
<1>13. /\ p + 4 <= size \/ p + Block < AddrSize
       /\ fixed \/ p + 4 <= size \/ (p = highest /\ p = size)
       /\ TypeOK /\ p \in Position /\ p + 4 < AddrSize /\ Emit(p, 4, TRUE, c)
  BY <1>1, <1>2, <1>9
<1>14. /\ cap' = size' /\ highest' <= size'
       /\ highest <= highest' /\ pos' = p + 4 /\ cap' = cap
       /\ ~fixed => size' % Block = 0
       /\ NeverOverruns' /\ Initialised'
       /\ \A q \in 0 .. cap - 1 :
            buf'[q] = IF q \in p .. p + 4 - 1 THEN <<c, q - p>> ELSE buf[q]
  <2>1. PICK puts \in BOOLEAN : puts = TRUE
    OBVIOUS
  <2>2. Emit(p, 4, puts, c)
    BY <2>1, <1>13
  <2>3. /\ cap' = size' /\ highest' <= size'
        /\ highest <= highest' /\ pos' = p + 4 /\ cap' = cap
        /\ ~fixed => size' % Block = 0
        /\ NeverOverruns' /\ Initialised'
        /\ \A q \in 0 .. cap - 1 :
             buf'[q] = IF puts /\ q \in p .. p + 4 - 1 THEN <<c, q - p>> ELSE buf[q]
    BY ONLY <1>9, <1>10, <1>11, <1>12, <1>13, <2>2, puts \in BOOLEAN, EmitFits
  <2>. QED  BY <2>1, <2>3
<1>15. p + 4 - 1 = p + 3
  BY <1>8
<1>16. c = LoadIOf(refs[r], Half)
  BY <1>2, <1>6 DEF c, LoadIOf, Half
<1>. QED  BY <1>2, <1>4, <1>5, <1>6, <1>14, <1>15, <1>16 DEF p

\* Byte j of a place, in the LOADI at p, is byte j % 4 of this LOADI.
LEMMA PlaceInHalf ==
  ASSUME NEW at \in Nat, NEW j \in 0 .. 7, NEW second,
         NEW p, p = at + (IF second THEN 4 ELSE 0), at + j \in p .. p + 3
  PROVE  (at + j) - p = j % 4
<1>1. CASE second
  <2>1. (at + j) - p = j - 4 /\ j \in 4 .. 7
    BY <1>1
  <2>. QED  BY <2>1
<1>2. CASE ~second
  <2>1. (at + j) - p = j /\ j \in 0 .. 3
    BY <1>2
  <2>. QED  BY <2>1
<1>. QED  BY <1>1, <1>2

LEMMA ResolveKeeps ==
  ASSUME IInv, Resolve
  PROVE  BufferLayout' /\ NeverOverruns' /\ Initialised' /\ Resolved' /\ Complete'
<1>. DEFINE r == (turn + 1) \div 2
            p == LoadIPos
<1>1. /\ r \in DOMAIN refs /\ p = refs[r].at + (IF turn = 2 * r THEN 4 ELSE 0)
      /\ turn \in {2 * r - 1, 2 * r} /\ refs[r].at \in Nat
      /\ Half = (IF turn = 2 * r THEN "high" ELSE "low")
      /\ cap' = size' /\ highest' <= size' /\ highest <= highest'
      /\ pos' = p + 4
      /\ ~fixed => size' % Block = 0
      /\ NeverOverruns' /\ Initialised'
  BY ResolveWrites
<1>0. \A q \in 0 .. cap - 1 :
        buf'[q] = IF q \in p .. p + 3
                  THEN <<LoadIOf(refs[r], Half), q - p>> ELSE buf[q]
  BY ResolveWrites
<1>2. /\ status = "resolving" /\ status' = "resolving" /\ turn' = turn + 1 /\ More
      /\ UNCHANGED <<fixed, labels, refs>>
  BY DEF Resolve
<1>3. /\ TypeOK /\ TypeOK' /\ turn \in Nat /\ r \in Nat
      /\ Len(refs) \in Nat /\ DOMAIN refs = 1 .. Len(refs)
      /\ \A k \in DOMAIN refs : refs[k].at \in Nat
  <2>1. TypeOK /\ TypeOK'
    BY ResolveType DEF IInv
  <2>2. turn \in Nat
    BY <2>1 DEF TypeOK
  <2>. QED  BY <2>1, <2>2, RefTypes, Sizes DEF Position
<1>4. /\ highest \in Nat /\ highest' \in Nat /\ cap \in Nat /\ highest <= cap
      /\ \A k \in DOMAIN refs : refs[k].at + 8 <= highest
  <2>1. highest \in Nat /\ highest' \in Nat /\ cap \in Nat
    BY <1>3, Sizes DEF TypeOK, Position
  <2>. QED  BY <2>1 DEF IInv, BufferLayout
<1>5. BufferLayout'
  <2>1. \A k \in DOMAIN refs : refs[k].at + 8 <= highest'
    BY <1>1, <1>3, <1>4
  <2>2. turn' <= 2 * Len(refs) + 1
    BY <1>2, <1>3 DEF More
  <2>3. turn' % 2 = 0 => pos' = Ref'.at + 4
    <3>. SUFFICES ASSUME turn' % 2 = 0 PROVE pos' = Ref'.at + 4
      OBVIOUS
    <3>1. turn = 2 * r - 1
      BY <1>1, <1>2, <1>3
    <3>2. (turn' + 1) \div 2 = r
      BY <1>2, <1>3, <3>1
    <3>3. Ref' = refs[r]
      BY <1>2, <3>2 DEF Ref
    <3>. HIDE DEF r, p
    <3>4. p = refs[r].at
      BY <1>1, <1>3, <3>1
    <3>. QED  BY <1>1, <3>3, <3>4
  <2>. HIDE DEF r, p
  <2>. QED  BY <1>1, <1>2, <2>1, <2>2, <2>3 DEF BufferLayout
<1>. HIDE DEF r, p
<1>6. Resolved'
  <2>1. SUFFICES ASSUME NEW k \in DOMAIN refs, NEW j \in 0 .. 7,
                        IF j < 4 THEN turn + 1 >= 2 * k ELSE turn + 1 >= 2 * k + 1
                 PROVE  \/ Again(k, refs[k].at + j)
                        \/ buf'[refs[k].at + j] = <<LoadIOf(refs[k], HalfOf(j)), j % 4>>
    BY <1>2 DEF Resolved, Written, Again, LoadIOf
  <2>. DEFINE b == refs[k].at + j
  <2>2. b \in 0 .. cap - 1 /\ k \in Nat /\ refs[k].at \in Nat
    BY <1>3, <1>4
  <2>3. j \in Written(k) => Again(k, b) \/ buf[b] = <<LoadIOf(refs[k], HalfOf(j)), j % 4>>
    BY <1>2 DEF IInv, Resolved
  <2>4. k <= r
    BY <1>1, <1>3, <2>1, <2>2
  <2>5. CASE k < r
    <3>1. j \in Written(k)
      BY <1>1, <1>3, <2>2, <2>5 DEF Written
    <3>2. CASE b \in p .. p + 3
      <4>1. p \in Nat /\ refs[r].at <= p /\ p <= refs[r].at + 4
        BY <1>1
      <4>2. b \in refs[r].at .. refs[r].at + 8 - 1
        BY <1>1, <2>2, <3>2, <4>1
      <4>. QED  BY <1>1, <2>5, <4>2 DEF Again, Span
    <3>3. CASE b \notin p .. p + 3
      BY <1>0, <2>2, <2>3, <3>1, <3>3
    <3>. QED  BY <3>2, <3>3
  <2>6. CASE k = r
    <3>1. CASE b \in p .. p + 3
      <4>1. HalfOf(j) = Half
        BY <1>1, <1>3, <2>1, <2>2, <2>6, <3>1 DEF HalfOf
      <4>2. b - p = j % 4
        <5>. DEFINE at == refs[r].at
        <5>1. /\ at \in Nat /\ b = at + j
              /\ p = at + (IF turn = 2 * r THEN 4 ELSE 0)
          BY <1>1, <2>6
        <5>. HIDE DEF at, b
        <5>. QED  BY <3>1, <5>1, PlaceInHalf
      <4>3. b \in 0 .. cap - 1 /\ b \in p .. p + 3
        BY <2>2, <3>1
      <4>4. buf'[b] = <<LoadIOf(refs[r], Half), b - p>>
        BY <1>0, <4>3
      <4>. QED  BY <2>6, <4>1, <4>2, <4>4
    <3>2. CASE b \notin p .. p + 3
      <4>1. j \in Written(k)
        <5>1. CASE turn = 2 * r - 1
          <6>1. p = refs[k].at
            BY <1>1, <1>3, <2>6, <5>1
          <6>2. j >= 4
            BY <2>2, <3>2, <6>1
          <6>. QED  BY <1>3, <2>1, <2>6, <5>1, <6>2
        <5>2. CASE turn = 2 * r
          <6>1. p = refs[k].at + 4
            BY <1>1, <1>3, <2>6, <5>2
          <6>2. j < 4
            BY <2>2, <3>2, <6>1
          <6>. QED  BY <1>3, <2>6, <5>2, <6>2 DEF Written
        <5>. QED  BY <1>1, <5>1, <5>2
      <4>. QED  BY <1>0, <2>2, <2>3, <3>2, <4>1
    <3>. QED  BY <3>1, <3>2
  <2>. QED  BY <1>3, <2>2, <2>4, <2>5, <2>6
<1>. QED  BY <1>1, <1>2, <1>5, <1>6 DEF Complete

LEMMA NextIInv ==
  ASSUME IInv, Careful, [Next]_vars
  PROVE  IInv'
<1>1. TypeOK'
  BY NextType DEF IInv
<1>. SUFFICES BufferLayout' /\ NeverOverruns' /\ Initialised' /\ Resolved' /\ Complete'
  BY <1>1 DEF IInv
<1>2. CASE \E c \in Data : Instruction(c) \/ EmitPending(c)
  BY <1>2, EmittingKeeps
<1>3. CASE \E l \in Labels : \E how \in Hows :
             LabelRef(l, how, << >>) \/ LabelRef(l, how, << 4 >>)
  BY <1>3, LabelRefKeeps
<1>4. CASE \/ \E n \in {1, 2, 4} : Bytes(n)
           \/ \E n \in {2, 4} : Load32(n)
           \/ \E a \in Aligns : Align(a)
           \/ \E l \in Labels : Label(l)
           \/ \E o \in Offsets : Offset(o)
           \/ \E t \in Targets : At(t)
  BY <1>4, LayoutKept DEF Bytes, Load32, Align, Items, Label, Offset, At, Parsing
<1>5. CASE StatementFails \/ ResolveFails \/ Crash
  BY <1>5, LayoutKept DEF StatementFails, ResolveFails, Fail, Crash
<1>6. CASE EndOfInput
  <2>1. turn = 1 /\ UNCHANGED <<pos, highest, size, fixed, buf, cap, refs, turn, overrun>>
        /\ status' = "resolving"
    BY <1>6 DEF EndOfInput, IInv, BufferLayout
  <2>2. BufferLayout'
    BY <2>1 DEF IInv, BufferLayout, Ref
  <2>3. Resolved'
    <3>1. \A k \in DOMAIN refs : k \in Nat /\ k >= 1
      BY RefTypes DEF IInv
    <3>2. \A k \in DOMAIN refs : Written(k)' = {}
      BY <2>1, <3>1 DEF Written
    <3>. QED  BY <2>1, <3>2 DEF Resolved
  <2>. QED  BY <2>1, <2>2, <2>3 DEF IInv, NeverOverruns, Initialised, Complete
<1>7. CASE Resolve
  BY <1>7, ResolveKeeps
<1>8. CASE WriteFile
  <2>1. /\ status = "resolving" /\ status' = "written" /\ ~More
        /\ UNCHANGED <<pos, highest, size, fixed, buf, cap, labels, refs, turn>>
        /\ overrun' = (overrun \/ highest > cap)
    BY <1>8 DEF WriteFile
  <2>2. NeverOverruns'
    <3>1. highest \in Int /\ cap \in Int /\ highest <= cap
      BY Sizes DEF IInv, BufferLayout, TypeOK, Position
    <3>2. ~(highest > cap)
      BY <3>1
    <3>3. ~overrun
      BY DEF IInv, NeverOverruns
    <3>4. ~overrun'
      BY ONLY <2>1, <3>2, <3>3, Zenon
    <3>. QED  BY <3>4 DEF NeverOverruns
  <2>3. BufferLayout'
    BY <2>1 DEF IInv, BufferLayout, Ref
  <2>4. Resolved'
    BY <2>1 DEF IInv, Resolved, Written, Again, LoadIOf
  <2>. QED  BY <2>1, <2>2, <2>3, <2>4 DEF IInv, Initialised, Complete, More
<1>9. CASE UNCHANGED vars
  <2>1. BufferLayout' /\ Complete'
    BY <1>9 DEF vars, IInv, BufferLayout, Ref, Complete, More
  <2>2. Resolved'
    BY <1>9 DEF vars, IInv, Resolved, Written, Again, LoadIOf
  <2>. QED  BY <1>9, <2>1, <2>2 DEF vars, IInv, NeverOverruns, Initialised
<1>. QED  BY <1>2, <1>3, <1>4, <1>5, <1>6, <1>7, <1>8, <1>9 DEF Next

LEMMA IInvInvariant ==
  ASSUME Careful
  PROVE  Spec => []IInv
<1>1. IInv /\ [Next]_vars => IInv'
  BY NextIInv
<1>. QED  BY <1>1, InitIInv, PTL DEF Spec

\* Between any two statements the code's view of the buffer is what is allocated:
\* the sizes agree, the highest position and every reserved place lie inside
\* (emit_context).
THEOREM LayoutHolds == Careful => (Spec => []BufferLayout)
<1>. SUFFICES ASSUME Careful PROVE Spec => []BufferLayout
  OBVIOUS
<1>1. IInv => BufferLayout
  BY DEF IInv
<1>. QED  BY <1>1, IInvInvariant, PTL

\* A program that fits the buffer's assumptions never drives the assembler out of
\* its allocation, for every block size, address width and -f operand
\* (handle_exceeding_buffer, label_resolution, write_file).
THEOREM Contained == Careful => (Spec => []NeverOverruns)
<1>. SUFFICES ASSUME Careful PROVE Spec => []NeverOverruns
  OBVIOUS
<1>1. IInv => NeverOverruns
  BY DEF IInv
<1>. QED  BY <1>1, IInvInvariant, PTL

\* In a written image every reference is resolved, with the low half first
\* (label_resolution, emit_label_res).
THEOREM AllResolved == Careful => (Spec => []RefsResolved)
<1>. SUFFICES ASSUME Careful PROVE Spec => []RefsResolved
  OBVIOUS
<1>1. IInv => RefsResolved
  <2>. SUFFICES ASSUME IInv, status = "written", NEW k \in DOMAIN refs, NEW j \in 0 .. 7
                PROVE  LET b == refs[k].at + j
                           again == \E m \in DOMAIN refs : m > k /\ b \in Span(refs[m].at, 8)
                       IN  \/ again
                           \/ /\ b < highest
                              /\ buf[b] = <<LoadIOf(refs[k], HalfOf(j)), j % 4>>
    BY DEF RefsResolved
  <2>1. TypeOK /\ turn \in Nat /\ turn > 2 * Len(refs)
    BY DEF IInv, Complete, More, TypeOK
  <2>2. k \in 1 .. Len(refs) /\ Len(refs) \in Nat /\ refs[k].at \in Nat
    BY <2>1, RefTypes, Sizes DEF Position
  <2>3. j \in Written(k)
    BY <2>1, <2>2 DEF Written
  <2>4. refs[k].at + j < highest
    <3>1. highest \in Nat /\ refs[k].at + 8 <= highest
      BY <2>1, Sizes DEF IInv, BufferLayout, TypeOK, Position
    <3>. QED  BY <2>2, <3>1
  <2>5. \/ Again(k, refs[k].at + j)
        \/ buf[refs[k].at + j] = <<LoadIOf(refs[k], HalfOf(j)), j % 4>>
    BY <2>3 DEF IInv, Resolved
  <2>. QED  BY <2>4, <2>5 DEF Again
<1>. QED  BY <1>1, IInvInvariant, PTL

\* No byte of a written image is uninitialised memory (the memset of
\* handle_exceeding_buffer).
THEOREM NothingUninitialised == Careful => (Spec => []ImageInitialised)
<1>. SUFFICES ASSUME Careful PROVE Spec => []ImageInitialised
  OBVIOUS
<1>1. IInv => ImageInitialised
  <2>1. IInv => highest \in Nat /\ cap \in Nat /\ highest <= cap
    BY Sizes DEF IInv, BufferLayout, TypeOK, Position
  <2>. QED  BY <2>1 DEF IInv, Initialised, ImageInitialised
<1>. QED  BY <1>1, IInvInvariant, PTL
=============================================================================
