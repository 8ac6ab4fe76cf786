------------------------------ MODULE VasmEmit ------------------------------
(***************************************************************************)
(* The emit buffer of the assembler vasm (emit.c) under the statements of  *)
(* its grammar (vasm.y): statements write bytes at the position, a label   *)
(* reference only reserves eight of them, and after the last statement     *)
(* label_resolution goes back and writes the two LOADI of each reference.  *)
(* The buffer has a fixed size (-f) or grows by blocks.                    *)
(*                                                                         *)
(* An item, what one statement emits at once, is a value, and a byte in    *)
(* the buffer is the pair of an item and the number of the byte in it.     *)
(*                                                                         *)
(* size is what the code believes the buffer holds, cap what is allocated. *)
(* A write or clear outside the allocation sets overrun; it is lost, and   *)
(* the assembler may crash from then on.                                   *)
(***************************************************************************)
EXTENDS Integers, Sequences, FiniteSets

CONSTANTS
  Block,          \* DYNAMIC_BUFFER_SIZE
  AddrSize,       \* values of a dword
  FixedSizes,     \* operands of -f
  Labels,         \* label names
  Data,           \* items: instructions, and the bytes of directives
  Hows,           \* register and condition of a label reference
  DefaultOffset,  \* the offset main sets
  Offsets,        \* operands of .offset
  Targets,        \* operands of .at
  Aligns,         \* operands of .align
  MaxStatements,  \* bound: statements of a program
  Careful,        \* only programs that fit the buffer's assumptions, see Fits
  Zero, Unset     \* a cleared byte; an uninitialised byte or undefined label

ASSUME EmitAssumption ==
  /\ Block \in Nat /\ Block >= 8
  /\ AddrSize \in Nat /\ AddrSize >= 2 * Block /\ AddrSize % Block = 0
  /\ Careful \in BOOLEAN
  /\ FixedSizes \subseteq 0 .. AddrSize - 1
  /\ DefaultOffset \in 0 .. AddrSize - 1
  /\ Offsets \subseteq 0 .. AddrSize - 1 /\ Targets \subseteq 0 .. AddrSize - 1
  /\ Aligns \subseteq Nat
  /\ MaxStatements \in Nat
  /\ Unset \notin 0 .. AddrSize - 1
  /\ Unset # Zero
  /\ \A c \in Data \cup ((0 .. AddrSize - 1) \X {"low", "high"} \X Hows) :
       \A k \in 0 .. 3 : Unset # <<c, k>>

VARIABLES
  pos, highest, size, offset,  \* emit_context
  fixed,       \* emit_context: buf_len_fixed
  buf, cap,    \* emit_context: the allocated bytes 0 .. cap - 1
  labels,      \* emit_context: the value of each label
  refs,        \* emit_context: labelrefs, in order
  pending,     \* widths of what the statement being executed still emits
  turn,        \* LOADI label_resolution emits next: two per reference
  status,      \* parsing, resolving, written, failed or crashed
  overrun,     \* the allocation has been left
  statements   \* bound's counter

vars == <<pos, highest, size, offset, fixed, buf, cap, labels, refs, pending, turn,
          status, overrun, statements>>

Position == 0 .. AddrSize - 1
ToPos(n) == n % AddrSize
\* Fault: the position taken for the highest one without a comparison.
LatestHigher(p) == p
Higher(p) == IF p > highest THEN p ELSE highest

\* The two LOADI of a reference carry the halves of the label's address.
Halves == {"low", "high"}
LoadIs == Position \X Halves \X Hows
Content == ((Data \cup LoadIs) \X (0 .. 3)) \cup {Zero, Unset}

TypeOK ==
  /\ pos \in Position /\ highest \in Position /\ offset \in Position
  /\ size \in Position /\ cap \in Nat /\ fixed \in BOOLEAN
  /\ buf \in [0 .. cap - 1 -> Content]
  /\ labels \in [Labels -> Position \cup {Unset}]
  /\ refs \in Seq([label : Labels, at : Position, how : Hows])
  /\ pending \in Seq({1, 4}) /\ turn \in Nat \ {0} /\ statements \in Nat
  /\ status \in {"parsing", "resolving", "written", "failed", "crashed"}
  /\ overrun \in BOOLEAN

-----------------------------------------------------------------------------
(* The buffer                                                              *)

\* handle_exceeding_buffer: the last byte of n more is beyond size.  The sum
\* is a dword and wraps.
\* Fault: the byte behind the buffer taken for its last.
LateExceeds(p, n) == ToPos(p + n - 1) > size
Exceeds(p, n) == ToPos(p + n - 1) >= size

\* Dynamic growth: to the block behind highest, with a block cleared from p.
GrownCap == (highest \div Block + 1) * Block
Span(p, n) == p .. p + n - 1
\* Fault: what realloc adds not cleared.
NothingCleared(p) == {}
\* Fault: the whole allocation cleared as it grows.
WholeCleared(p) == 0 .. p + Block - 1
Cleared(p) == Span(p, Block)

\* A program the buffer is made for: no position wraps, and an item that makes
\* the buffer grow starts exactly at its end, with no gap before it.
Fits(n) ==
  Careful => /\ pos + Block < AddrSize
             /\ fixed \/ pos + n <= size \/ (pos = highest /\ pos = size)

\* The n bytes of item c at p, only reserved (a label reference) when puts is
\* FALSE.  Not enabled where a fixed buffer is exceeded.
Emit(p, n, puts, c) ==
  LET grows == Exceeds(p, n)
      cap2  == IF grows THEN GrownCap ELSE cap
      clear == IF grows THEN Cleared(p) ELSE {}
      put   == IF puts THEN {ToPos(q) : q \in Span(p, n)} ELSE {}
  IN  /\ ~(grows /\ fixed)
      /\ cap' = cap2
      /\ size' = IF grows THEN ToPos(size + Block) ELSE size
      /\ buf' = [q \in 0 .. cap2 - 1 |->
                   CASE q \in put -> <<c, ToPos(q - p)>>
                     [] q \in clear \ put -> Zero
                     [] q \notin put \cup clear ->
                          IF q < cap THEN buf[q] ELSE Unset]
      /\ overrun' = (overrun \/ \E q \in put \cup clear : q >= cap2)
      /\ pos' = ToPos(p + n)
      /\ highest' = Higher(ToPos(p + n))

\* yyerror, or a realloc that fails: the assembler exits without a file.
Fail ==
  /\ status' = "failed"
  /\ UNCHANGED <<pos, highest, size, offset, fixed, buf, cap, labels, refs,
                 pending, turn, overrun, statements>>

-----------------------------------------------------------------------------
(* Statements                                                              *)

Parsing == status = "parsing" /\ pending = << >> /\ statements < MaxStatements

\* An instruction: four bytes at once (emit_fmt_i .. emit_fmt_viii).
Instruction(c) ==
  /\ Parsing /\ Fits(4)
  /\ Emit(pos, 4, TRUE, c)
  /\ statements' = statements + 1
  /\ UNCHANGED <<offset, fixed, labels, refs, pending, turn, status>>

\* The rest of a statement, item by item, each with its own check of the buffer.
EmitPending(c) ==
  /\ status = "parsing" /\ pending # << >> /\ Fits(Head(pending))
  /\ Emit(pos, Head(pending), TRUE, c)
  /\ pending' = Tail(pending)
  /\ UNCHANGED <<offset, fixed, labels, refs, turn, status, statements>>

\* A statement that emits n items of w bytes.
Items(n, w) ==
  /\ Parsing
  /\ pending' = [k \in 1 .. n |-> w] /\ statements' = statements + 1
  /\ UNCHANGED <<pos, highest, size, offset, fixed, buf, cap, labels, refs,
                 turn, status, overrun>>

\* .byte, .word, .dword: one emit_byte each.
Bytes(n) == Items(n, 1)

\* LOAD32: two LOADI, between two XCHG for a register beyond R7.
Load32(n) == Items(n, 4)

\* .align: bytes up to the next position divisible by a.  Left out: an
\* alignment that only ends behind the wrap of the position.
Align(a) ==
  /\ a # 0 /\ (AddrSize % a = 0 \/ pos + a <= AddrSize)
  /\ Items((-pos) % a, 1)

\* LOADADR, and LDCALL and LDJMP, which emit an instruction behind it:
\* emit_label_ref reserves its bytes, nothing is written to them yet.
LabelRef(l, how, behind) ==
  /\ Parsing /\ Fits(8)
  /\ Emit(pos, 8, FALSE, Zero)
  /\ refs' = Append(refs, [label |-> l, at |-> pos, how |-> how])
  /\ pending' = behind /\ statements' = statements + 1
  /\ UNCHANGED <<offset, fixed, labels, turn, status>>

\* Fault: the address of a label not wrapped.
UnwrappedLabelAddr == pos + offset
\* Fault: the address of a label without the offset.
PlainLabelAddr == pos
LabelAddr == ToPos(pos + offset)

\* .label: the address is fixed here, with the offset in force here.
Label(l) ==
  /\ Parsing /\ labels[l] = Unset
  /\ labels' = [labels EXCEPT ![l] = LabelAddr]
  /\ statements' = statements + 1
  /\ UNCHANGED <<pos, highest, size, offset, fixed, buf, cap, refs, pending,
                 turn, status, overrun>>

Offset(o) ==
  /\ Parsing
  /\ offset' = o /\ statements' = statements + 1
  /\ UNCHANGED <<pos, highest, size, fixed, buf, cap, labels, refs, pending,
                 turn, status, overrun>>

At(t) ==
  /\ Parsing
  /\ pos' = t /\ statements' = statements + 1
  /\ UNCHANGED <<highest, size, offset, fixed, buf, cap, labels, refs, pending,
                 turn, status, overrun>>

\* A statement that ends the assembler: a syntax error, an empty text included, a
\* value out of range, a label defined twice, an item beyond a fixed buffer, or no
\* memory to grow.
StatementFails ==
  /\ status = "parsing"
  /\ pending # << >> => Exceeds(pos, Head(pending))
  /\ Fail

\* The grammar wants one exp, but a blank line is one: a program may have no
\* statement.
EndOfInput ==
  /\ status = "parsing" /\ pending = << >>
  /\ status' = "resolving"
  /\ UNCHANGED <<pos, highest, size, offset, fixed, buf, cap, labels, refs,
                 pending, turn, overrun, statements>>

-----------------------------------------------------------------------------
(* Label resolution                                                        *)

Ref == refs[(turn + 1) \div 2]
More == turn <= 2 * Len(refs)
\* Fault: the position not set back to the reference.
StaleLoadIPos == pos
\* The first LOADI goes to the reserved place, the second behind the first.
LoadIPos == IF turn % 2 = 1 THEN Ref.at ELSE pos
Half == IF turn % 2 = 1 THEN "low" ELSE "high"

Resolve ==
  /\ status = "resolving" /\ More /\ labels[Ref.label] # Unset
  /\ Emit(LoadIPos, 4, TRUE, <<labels[Ref.label], Half, Ref.how>>)
  /\ turn' = turn + 1
  /\ UNCHANGED <<offset, fixed, labels, refs, pending, status, statements>>

\* An undefined label, a LOADI that exceeds the buffer, or, after the last
\* reference, an output file that cannot be opened.
ResolveFails ==
  /\ status = "resolving"
  /\ More => labels[Ref.label] = Unset \/ Exceeds(LoadIPos, 4)
  /\ Fail

\* write_file: the bytes below highest.
WriteFile ==
  /\ status = "resolving" /\ ~More
  /\ status' = "written"
  /\ overrun' = (overrun \/ highest > cap)
  /\ UNCHANGED <<pos, highest, size, offset, fixed, buf, cap, labels, refs,
                 pending, turn, statements>>

\* Out of the allocation, or a position modulo 0 in .align.
Crash ==
  /\ overrun \/ (Parsing /\ 0 \in Aligns)
  /\ status \in {"parsing", "resolving"}
  /\ status' = "crashed"
  /\ UNCHANGED <<pos, highest, size, offset, fixed, buf, cap, labels, refs,
                 pending, turn, overrun, statements>>

-----------------------------------------------------------------------------
Init ==
  /\ \/ fixed = TRUE /\ size \in FixedSizes
     \/ fixed = FALSE /\ size = Block
  /\ cap = size /\ buf = [q \in 0 .. cap - 1 |-> Zero]
  /\ pos = 0 /\ highest = 0 /\ offset = DefaultOffset
  /\ labels = [l \in Labels |-> Unset] /\ refs = << >>
  /\ pending = << >> /\ turn = 1 /\ status = "parsing" /\ overrun = FALSE
  /\ statements = 0

Next ==
  \/ \E c \in Data : Instruction(c) \/ EmitPending(c)
  \/ \E n \in {1, 2, 4} : Bytes(n)
  \/ \E n \in {2, 4} : Load32(n)
  \/ \E a \in Aligns : Align(a)
  \/ \E l \in Labels :
       \/ \E how \in Hows : LabelRef(l, how, << >>) \/ LabelRef(l, how, <<4>>)
       \/ Label(l)
  \/ \E o \in Offsets : Offset(o)
  \/ \E t \in Targets : At(t)
  \/ StatementFails \/ EndOfInput
  \/ Resolve \/ ResolveFails \/ WriteFile \/ Crash

Spec == Init /\ [][Next]_vars
=============================================================================
