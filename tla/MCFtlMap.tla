------------------------------ MODULE MCFtlMap ------------------------------
(***************************************************************************)
(* TLC instances of FtlMap.                                                *)
(***************************************************************************)
EXTENDS FtlMap

(* Slices and data are only compared and copied. *)
LsaSymmetry == Permutations(Lsas)
StoreSymmetry == Permutations(Lsas) \cup Permutations(Data)
=============================================================================
