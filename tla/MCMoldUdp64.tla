---------------------------- MODULE MCMoldUdp64 ----------------------------
(***************************************************************************)
(* Small instances of MoldUdp64 for TLC.                                   *)
(***************************************************************************)
EXTENDS MoldUdp64

\* One session, the others are alike: SequenceTracker is checked with two.
MCSession == {"NASDAQ"}
=============================================================================
