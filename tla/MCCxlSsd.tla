------------------------------ MODULE MCCxlSsd ------------------------------
(***************************************************************************)
(* TLC instances of CxlSsd.                                                *)
(***************************************************************************)
EXTENDS CxlSsd, TLC

(* Payloads are only compared and copied, so the stored ones are           *)
(* interchangeable.                                                        *)
StoreSymmetry == Permutations(Stores)
=============================================================================
