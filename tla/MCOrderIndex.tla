---------------------------- MODULE MCOrderIndex ----------------------------
(***************************************************************************)
(* A small instance of OrderIndex for TLC.                                 *)
(***************************************************************************)
EXTENDS OrderIndex

\* In a table of four slots the third key makes it grow to eight, where up to four
\* keys then collide.
MCKey   == 1 .. 4
MCValue == {1, 2}

\* Homes 2, 6 and 7: shared homes, a chain that runs into another key's home, and
\* chains that go around the end of the table at both sizes, with a hole before and
\* after the end.
MCHashes == [MCKey -> {2, 6, 7}]
=============================================================================
