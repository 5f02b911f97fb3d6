----------------------------- MODULE MCReqSched -----------------------------
(***************************************************************************)
(* TLC instances of ReqSched.                                              *)
(***************************************************************************)
EXTENDS ReqSched

CONSTANT w1

TwoBlocks == w1 :> <<"a", "b">>
ThreeBlocks == w1 :> <<"a", "b", "c">>

(* The host reads a slice that is in the buffer, or overwrites a whole one *)
(* that is not.                                                            *)
HostCalls == {<<"hit", "TxDMA">>, <<"miss", "RxDMA">>}
HostAndLoads == HostCalls \cup {<<"load", "">>}

(* Buffer entries are only compared. *)
BufSymmetry == Permutations(Bufs)
=============================================================================
