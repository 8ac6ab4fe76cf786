----------------------------- MODULE MCVasmEmit -----------------------------
(***************************************************************************)
(* The assembler's buffer with blocks of 8 bytes and positions of 6 bits,  *)
(* and a record of what was emitted where.                                 *)
(***************************************************************************)
EXTENDS VasmEmitProps, TLC

\* Labels are alike, and so are the ways to refer to one.
Symmetry == Permutations(Labels) \cup Permutations(Hows)

VARIABLE meant   \* the bytes of the image, as emitted one after the other

Put(p, n, c) == meant' = [q \in Position |-> IF q \in Span(p, n)
                                            THEN <<c, q - p>> ELSE meant[q]]

HInit == Init /\ meant = [q \in Position |-> Zero]

HNext ==
  \/ \E c \in Data :
       \/ Instruction(c) /\ Put(pos, 4, c)
       \/ EmitPending(c) /\ Put(pos, Head(pending), c)
  \/ Resolve /\ Put(LoadIPos, 4, <<labels[Ref.label], Half, Ref.how>>)
  \/ /\ \/ \E n \in {1, 2, 4} : Bytes(n)
        \/ \E n \in {2, 4} : Load32(n)
        \/ \E a \in Aligns : Align(a)
        \/ \E l \in Labels :
             \/ \E how \in Hows :
                  LabelRef(l, how, << >>) \/ LabelRef(l, how, <<4>>)
             \/ Label(l)
        \/ \E o \in Offsets : Offset(o)
        \/ \E t \in Targets : At(t)
        \/ StatementFails \/ EndOfInput \/ ResolveFails \/ WriteFile \/ Crash
     /\ UNCHANGED meant

HSpec == HInit /\ [][HNext]_<<vars, meant>>

\* A written image is what was emitted, growth or not: a buffer that grows
\* keeps every byte emitted before (handle_exceeding_buffer, write_file).
ImageIsEmitted ==
  status = "written" => \A q \in 0 .. highest - 1 : buf[q] = meant[q]
=============================================================================
