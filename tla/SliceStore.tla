----------------------------- MODULE SliceStore -----------------------------
(***************************************************************************)
(* What the translation layer promises: a store of logical slices that     *)
(* serves one write at a time.  A slice reads as what the last finished    *)
(* write put there, whatever garbage collection moves or erases            *)
(* underneath.                                                             *)
(***************************************************************************)
CONSTANTS
    Lsas,       \* the logical slices
    Data,       \* what a slice may hold
    NoData,     \* the slice was never written
    NoRequest   \* no write is being served

VARIABLES
    contents,   \* logical slice -> what it reads as
    request     \* the write being served

Init ==
    /\ contents = [l \in Lsas |-> NoData]
    /\ request = NoRequest

Accept(l, x) ==
    /\ request = NoRequest
    /\ request' = [lsa |-> l, data |-> x]
    /\ UNCHANGED contents

Finish ==
    /\ request # NoRequest
    /\ contents' = [contents EXCEPT ![request.lsa] = request.data]
    /\ request' = NoRequest

Next ==
    \/ \E l \in Lsas, x \in Data : Accept(l, x)
    \/ Finish

Spec == Init /\ [][Next]_<<contents, request>>
=============================================================================
