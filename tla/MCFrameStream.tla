----------------------------- MODULE MCFrameStream -----------------------------
(* FrameStream for TLC: the two layouts are interchangeable.                *)
EXTENDS FrameStream, TLC

Symmetry == Permutations(Layouts)

=============================================================================
