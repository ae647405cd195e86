---------------------------- MODULE MCTealStack ----------------------------
(* Instances of TealStack for TLC.                                         *)
EXTENDS TealStack

I(op, n)    == [op |-> op, n |-> n, m |-> 0]
Prototypes  == {[op |-> "proto", n |-> a, m |-> r] : a \in 0..2, r \in 0..1}

\* Opcodes that neither jump to a label that is there nor end a subroutine.
Simple ==
  {I(op, 0) : op \in {"byte", "+", "return", "assert", "pop", "dup", "dup2", "swap", "select"}}
  \cup {I(op, n) : op \in {"int", "load", "store", "dig", "cover", "uncover", "bury", "popn", "dupn"},
                   n \in 0..2}
Jumps  == {I("b", 9), I("bz", 9), I("bnz", 9), I("callsub", 9), I("retsub", 0), I("proto", 1)}
Frames == {I(op, n) : op \in {"frame_dig", "frame_bury"}, n \in -2..1}

\* Two opcodes on no, one or three values.
Straight == {s \o <<x, y>> : s \in {<<>>, <<I("int", 1)>>, <<I("int", 1), I("byte", 0), I("int", 2)>>},
                             x \in Simple \cup Jumps, y \in Simple \cup Jumps \cup Frames}

\* A loop, or a label given twice.
Loops == {<<I("int", 1), I("label", 1), x, y, j, I("label", 9 - l)>> :
            x, y \in Simple, j \in {I("bnz", 1), I("bz", 1)}, l \in {0, 8}}

\* A subroutine, which may call itself, between its arguments and what its
\* caller does with the results.
Subroutines == {<<I("int", 1), a, I("callsub", 1), x, I("b", 2),
                  I("label", 1), p, y, z, I("retsub", 0), I("label", 2)>> :
                  a \in {I("int", 2), I("byte", 0), I("dupn", 2)},
                  p \in Prototypes \cup {I("pop", 0), I("dup", 0)},
                  x \in {I("pop", 0), I("+", 0), I("dup", 0), I("callsub", 1)},
                  y, z \in Frames \cup {I("int", 2), I("pop", 0), I("dupn", 2), I("bnz", 2), I("callsub", 1)}}

\* Subroutines that do just what they have declared: r results on top of what the
\* caller left, of which a values are arguments.
Declared == {<<I("int", 1), I("int", 2), I("callsub", 1), I("return", 0), I("label", 1),
               [op |-> "proto", n |-> a, m |-> r]>> \o [i \in 1..r |-> x] \o <<I("retsub", 0)>> :
               a, r \in 0..2, x \in {I("int", 2), I("dup", 0)}}

MCPrograms == Straight \cup Loops \cup Subroutines
=============================================================================
