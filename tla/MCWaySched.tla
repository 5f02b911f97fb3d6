----------------------------- MODULE MCWaySched -----------------------------
(***************************************************************************)
(* TLC instances of WaySched.                                              *)
(***************************************************************************)
EXTENDS WaySched

Two == 0 .. 1
InOrder == <<0, 1>>

(* Every kind of request: on one way a read of a slice and a raw read, as  *)
(* in the bad block scan, on the other a reset, the set feature, a program *)
(* and an erase.                                                           *)
EveryKind ==
    [w \in Two |->
        CASE w = 0 -> <<Request("READ", TRUE, TRUE, 0), Request("READ", FALSE, FALSE, 1)>>
          [] w = 1 -> <<Request("RESET", TRUE, FALSE, 2), Request("SET_FEATURE", TRUE, FALSE, 2),
                        Request("WRITE", TRUE, FALSE, 3), Request("ERASE", TRUE, FALSE, 4)>>]
=============================================================================
