----------------------------- MODULE MCNvmeTask -----------------------------
(***************************************************************************)
(* TLC instances of NvmeTask.                                              *)
(***************************************************************************)
EXTENDS NvmeTask

TwoSlots == {0, 1}
OneQueue == {1}
=============================================================================
