------------------------- MODULE MCSequenceTracker -------------------------
(***************************************************************************)
(* A small instance of SequenceTracker for TLC.                            *)
(***************************************************************************)
EXTENDS SequenceTracker, TLC

CONSTANTS s1, s2

MCSession  == {s1, s2}
MCSymmetry == Permutations(MCSession)
=============================================================================
