----------------------------- MODULE MCHostDma -----------------------------
(***************************************************************************)
(* TLC instances of HostDma.                                               *)
(***************************************************************************)
EXTENDS HostDma, TLC

CONSTANTS e1, e2

EntrySymmetry == Permutations(Entries)
=============================================================================
