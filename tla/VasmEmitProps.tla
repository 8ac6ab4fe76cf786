--------------------------- MODULE VasmEmitProps ---------------------------
(***************************************************************************)
(* What the emit buffer promises its callers.                              *)
(***************************************************************************)
EXTENDS VasmEmit

\* The assembler never leaves its allocation, whatever the order of
\* statements, growth and label resolution (handle_exceeding_buffer,
\* emit_label_ref, label_resolution, write_file).  It needs Careful.
NeverOverruns == ~overrun

\* How the code's view of the buffer hangs together between statements: it
\* believes in the allocation it has, a growing one being whole blocks; what
\* it will write is allocated; every reserved place lies in the image, and
\* the second LOADI of a reference will go behind the first one's place
\* (handle_exceeding_buffer, set_highest_position, emit_label_ref,
\* label_resolution).  It needs Careful.
BufferLayout ==
  /\ cap = size /\ highest <= size
  /\ ~fixed => size % Block = 0
  /\ \A k \in DOMAIN refs : refs[k].at + 8 <= highest
  /\ status = "parsing" => turn = 1
  /\ turn <= 2 * Len(refs) + 1
  /\ turn % 2 = 0 => pos = Ref.at + 4

\* Byte j of a reserved place belongs to the LOADI of this half.
HalfOf(j) == IF j < 4 THEN "low" ELSE "high"
LoadIOf(r, half) == <<labels[r.label], half, r.how>>

\* In a written image every reserved place holds the two LOADI of its label,
\* the low half first, unless a later reference reserved the byte again: no
\* statement's bytes, placed there with .at, survive (label_resolution).
RefsResolved ==
  status = "written" =>
    \A k \in DOMAIN refs : \A j \in 0 .. 7 :
      LET b == refs[k].at + j
          again == \E m \in DOMAIN refs : m > k /\ b \in Span(refs[m].at, 8)
      IN  \/ again
          \/ /\ b < highest
             /\ buf[b] = <<LoadIOf(refs[k], HalfOf(j)), j % 4>>

\* No byte of a written image is uninitialised memory: the blocks a growing
\* buffer gains are cleared, gaps that .at leaves included (calloc of
\* emit_create_context, memset of handle_exceeding_buffer).
ImageInitialised ==
  status = "written" => \A q \in 0 .. highest - 1 : buf[q] # Unset

-----------------------------------------------------------------------------
(* What the documents say and the code does not keep                       *)

\* An item of less than a block always fits the buffer once it has grown
\* (the comment of handle_exceeding_buffer, emit.c:234).
GrowthFits == ~fixed => ~overrun
=============================================================================
