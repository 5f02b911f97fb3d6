---------------------------- MODULE MCBadBlocks ----------------------------
(***************************************************************************)
(* TLC instances of BadBlocks: two dies of three user and two reserved     *)
(* blocks.  The block of the table may fail, a user block, or one and a    *)
(* reserved one; the memory holds zeros or ones.                           *)
(***************************************************************************)
EXTENDS BadBlocks

(* No mark; a user and a reserved block of the first die; all that is      *)
(* reserved of the second.                                                 *)
MCMarks ==
    {[d \in Dies |-> [b \in Blocks |-> CASE <<d, b>> \in first -> {"first"}
                                        [] <<d, b>> \in last -> {"last"}
                                        [] OTHER -> {}]] :
        first \in {{}, {<<0, 1>>, <<1, 3>>}}, last \in {{}, {<<0, 3>>, <<1, 4>>}}}
MCFailing == {{}, {Bbt}, {2}, {1, 4}}
MCGarbage == {[d \in Dies |-> {}], [d \in Dies |-> Blocks]}
=============================================================================
