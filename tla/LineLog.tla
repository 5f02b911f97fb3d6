------------------------------ MODULE LineLog ------------------------------
(***************************************************************************)
(* What the write log and its index promise together: a map from each      *)
(* cacheline to the payload last stored for it, or to nothing.  Storing a  *)
(* line uses one unit of the log's capacity and disturbs no other line, a  *)
(* page's lines leave the map together (compaction drains the log one NAND *)
(* page at a time), and only a log that is used up is recycled, as a       *)
(* whole, to take the store that found it full.                            *)
(***************************************************************************)
EXTENDS Naturals

CONSTANTS
    Pages,      \* the logical NAND pages
    Lines,      \* the cachelines of a page
    Payloads,   \* what a cacheline may hold
    Absent,     \* the map holds nothing for a line
    Capacity,   \* the stores the log takes before it is recycled
    NoStore     \* no store was accepted yet

VARIABLES
    newest,     \* line -> payload, or Absent
    used,       \* the capacity in use
    last        \* the last store the host was told of, as <<line, payload>>

logVars == <<newest, used, last>>

Addr == Pages \X Lines

Init ==
    /\ newest = [a \in Addr |-> Absent]
    /\ used = 0
    /\ last = NoStore

(* A memory store: the line maps to its payload, every other line is kept. *)
Store(a, v) ==
    /\ used < Capacity
    /\ used' = used + 1
    /\ last' = <<a, v>>
    /\ newest' = [newest EXCEPT ![a] = v]

(* The lines of page p leave a full log. *)
Drain(p) ==
    /\ used = Capacity
    /\ newest' = [a \in Addr |-> IF a[1] = p THEN Absent ELSE newest[a]]
    /\ UNCHANGED <<used, last>>

(* A full log is emptied and takes the store that was waiting. *)
Recycle(a, v) ==
    /\ used = Capacity
    /\ used' = 1
    /\ last' = <<a, v>>
    /\ newest' = [b \in Addr |-> IF b = a THEN v ELSE Absent]

Next ==
    \/ \E a \in Addr, v \in Payloads : Store(a, v) \/ Recycle(a, v)
    \/ \E p \in Pages : Drain(p)

Spec == Init /\ [][Next]_logVars
=============================================================================
