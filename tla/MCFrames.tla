------------------------------ MODULE MCFrames ------------------------------
(* Frames for TLC: the channels of an instance are interchangeable.         *)
EXTENDS Frames, TLC

Symmetry == Permutations(Channels)
=============================================================================
