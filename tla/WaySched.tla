------------------------------ MODULE WaySched ------------------------------
(***************************************************************************)
(* The NAND way scheduler of one channel (request_schedule.c): the seven   *)
(* lists its ways are on, the pass that looks at them, the issue of the    *)
(* request at the head of a way's queue, its status check and its retries. *)
(*                                                                         *)
(* The pass is one thread, step by step; the V2F controller and the flash  *)
(* ways run beside it and are read by polling.  The variable todo holds    *)
(* the requests not yet in a way's queue: the upper layers hand them down  *)
(* between two passes, and the end of a request releases some that waited  *)
(* for it (ReqSched says which; here it is any).                           *)
(***************************************************************************)
EXTENDS Naturals, FiniteSets, Sequences, SequencesExt

CONSTANTS
    Ways,           \* the ways of the channel
    WayOrder,       \* the same, in the order InitReqScheduler links them
    Load,           \* way -> the requests it is ever given, in order
    RetryLimit,     \* RETRY_LIMIT
    QueueDepth,     \* the commands the controller takes for the channel
    NoWay           \* WAY_NONE

(* A request of the low level: its code, whether the controller decodes it *)
(* (nandEcc), whether it asks for warnings (nandEccWarning), its block,    *)
(* and how often its read was triggered (kept for the properties only).    *)
Codes == {"READ", "READ_TRANSFER", "WRITE", "ERASE", "RESET", "SET_FEATURE"}
Request(code, ecc, warn, block) ==
    [code |-> code, ecc |-> ecc, warn |-> warn, block |-> block, tries |-> 0]
IsRead(r) == r.code \in {"READ", "READ_TRANSFER"}

IssueLists == {"readTrigger", "erase", "write", "readTransfer"}
ListNames == {"idle", "statusReport", "statusCheck"} \cup IssueLists

ASSUME WaysAssumption ==
    /\ WayOrder \in Seq(Ways)
    /\ Range(WayOrder) = Ways
    /\ Len(WayOrder) > 0
    /\ \A i, j \in DOMAIN WayOrder : WayOrder[i] = WayOrder[j] => i = j
    /\ NoWay \notin Ways

ASSUME LimitsAssumption ==
    /\ RetryLimit \in Nat
    /\ QueueDepth \in Nat \ {0}

ASSUME LoadAssumption ==
    Load \in [Ways -> Seq([code : Codes \ {"READ_TRANSFER"}, ecc : BOOLEAN,
                           warn : BOOLEAN, block : Nat, tries : {0}])]

VARIABLES
    pc,         \* where the pass is; "rest" between two passes
    cur,        \* wayNo of the walk
    snap,       \* readyBusy: the ways that were ready when it was read
    waits,      \* waitWayCnt
    lists,      \* the way lists of the channel
    die,        \* way -> dieState, reqStatusCheckOpt and retryLimit
    queue,      \* way -> nandReqQ
    todo,       \* way -> the requests that are not in its queue yet
    grown,      \* the blocks marked bad by failed requests
    hw,         \* way -> the commands the controller holds, and the flash
    mem         \* way -> statusReport, completeFlag and errorInfo

pass == <<pc, cur, snap, waits>>
vars == <<pc, cur, snap, waits, lists, die, queue, todo, grown, hw, mem>>
-----------------------------------------------------------------------------
(* The lists.  A way is put at the tail and taken from anywhere.  There is *)
(* one link per way, shared by all the lists: the way that follows is read *)
(* from the list the way is on at that moment.                             *)

Place(q, w) == CHOOSE i \in DOMAIN q : q[i] = w
Put(ls, l, w) == [ls EXCEPT ![l] = Append(@, w)]
Get(ls, l, w) == [ls EXCEPT ![l] = RemoveAt(@, Place(@, w))]

PutToNandIdleList(ls, w) == Put(ls, "idle", w)
SelectivGetFromNandIdleList(ls, w) == Get(ls, "idle", w)
PutToNandStatusReportList(ls, w) == Put(ls, "statusReport", w)
SelectivGetFromNandStatusReportList(ls, w) == Get(ls, "statusReport", w)
PutToNandReadTriggerList(ls, w) == Put(ls, "readTrigger", w)
SelectiveGetFromNandReadTriggerList(ls, w) == Get(ls, "readTrigger", w)
PutToNandWriteList(ls, w) == Put(ls, "write", w)
SelectiveGetFromNandWriteList(ls, w) == Get(ls, "write", w)
PutToNandReadTransferList(ls, w) == Put(ls, "readTransfer", w)
SelectiveGetFromNandReadTransferList(ls, w) == Get(ls, "readTransfer", w)
PutToNandEraseList(ls, w) == Put(ls, "erase", w)
SelectiveGetFromNandEraseList(ls, w) == Get(ls, "erase", w)

(* A mutation: the way stays on the list it was on. *)
GetNothing(ls, w) == ls

PutToNandStatusCheckList(ls, w) == Put(ls, "statusCheck", w)
SelectiveGetFromNandStatusCheckList(ls, w) == Get(ls, "statusCheck", w)

PutToNandWayPriorityTable(ls, w, code) ==
    CASE code = "READ" -> PutToNandReadTriggerList(ls, w)
      [] code = "READ_TRANSFER" -> PutToNandReadTransferList(ls, w)
      [] code = "ERASE" -> PutToNandEraseList(ls, w)
      [] code \in {"WRITE", "RESET", "SET_FEATURE"} -> PutToNandWriteList(ls, w)

First(q) == IF q = <<>> THEN NoWay ELSE q[1]

(* nextWay of a way on list q. *)
After(q, w) == IF w = Last(q) THEN NoWay ELSE q[Place(q, w) + 1]
-----------------------------------------------------------------------------
(* The controller and the flash ways. *)

FlashOps == {"READ", "WRITE", "ERASE", "RESET"}

(* V2FIsControllerBusy *)
Held(h) == [i \in DOMAIN WayOrder |-> Len(h[WayOrder[i]].cmds)]
Plus(m, n) == m + n
ControllerBusy(h) == QueueDepth <= FoldLeft(Plus, 0, Held(h))

(* V2FReadyBusyAsync: a command the controller still holds does not show.  *)
ReadyBusy == {w \in Ways : ~hw[w].running}

Issued(h, w, c) == [h EXCEPT ![w].cmds = Append(@, c)]

(* A mutation: the report of the request before is left in place. *)
StatusCheckKeepsReport(w) ==
    /\ hw' = Issued(hw, w, "STATUS")
    /\ UNCHANGED mem

V2FStatusCheckAsync(w) ==
    /\ hw' = Issued(hw, w, "STATUS")
    /\ mem' = [mem EXCEPT ![w].report = "none"]

(* V2FReadPageTransferAsync and V2FReadPageTransferRawAsync. *)
V2FReadPageTransferAsync(w) ==
    /\ hw' = Issued(hw, w, "TRANSFER")
    /\ mem' = [mem EXCEPT ![w].flag = FALSE]

(* The other commands, which report nothing by themselves. *)
V2FCommand(w, c) ==
    /\ hw' = Issued(hw, w, c)
    /\ UNCHANGED mem

(* A flash operation begins, and ends well or not. *)
Start(w) ==
    /\ hw[w].cmds # <<>>
    /\ Head(hw[w].cmds) \in FlashOps
    /\ ~hw[w].running
    /\ hw' = [hw EXCEPT ![w].running = TRUE, ![w].cmds = Tail(@)]
    /\ UNCHANGED <<pass, lists, die, queue, todo, grown, mem>>

Finish(w) ==
    /\ hw[w].running
    /\ \E f \in BOOLEAN : hw' = [hw EXCEPT ![w].running = FALSE, ![w].failed = f]
    /\ UNCHANGED <<pass, lists, die, queue, todo, grown, mem>>

(* READ STATUS works on a busy way too. *)
ReportStatus(w) ==
    /\ hw[w].cmds # <<>>
    /\ Head(hw[w].cmds) = "STATUS"
    /\ hw' = [hw EXCEPT ![w].cmds = Tail(@)]
    /\ mem' = [mem EXCEPT ![w].report =
                  CASE hw[w].running -> "running"
                    [] ~hw[w].running /\ hw[w].failed -> "fail"
                    [] OTHER -> "pass"]
    /\ UNCHANGED <<pass, lists, die, queue, todo, grown>>

(* A page is transferred and decoded. *)
Transfer(w) ==
    /\ hw[w].cmds # <<>>
    /\ Head(hw[w].cmds) = "TRANSFER"
    /\ ~hw[w].running
    /\ hw' = [hw EXCEPT ![w].cmds = Tail(@)]
    /\ \E e \in {"good", "worn", "bad"} :
           mem' = [mem EXCEPT ![w].flag = TRUE, ![w].errorInfo = e]
    /\ UNCHANGED <<pass, lists, die, queue, todo, grown>>
-----------------------------------------------------------------------------
(* The request at the head of a way's queue. *)

HeadReq(w) == Head(queue[w])

(* Requests come into the queues: q and t become queue' and todo'.         *)
LetGo(q, t, n) ==
    /\ queue' = [v \in Ways |-> q[v] \o SubSeq(t[v], 1, n[v])]
    /\ todo' = [v \in Ways |-> SubSeq(t[v], n[v] + 1, Len(t[v]))]

(* How many requests of each way may go: one of way x, or k of way w.      *)
Nobody == [v \in Ways |-> 0]
OneOf(x) == [Nobody EXCEPT ![x] = 1]

(* ReleaseBlockedByRowAddrDepReq for a way that has nothing else to do: any*)
(* of the requests that are held back may go, on top of b.                 *)
Released(b, q, t, w) ==
    IF q[w] = <<>> /\ b[w] = 0 THEN {[b EXCEPT ![w] = k] : k \in 0 .. Len(t[w])} ELSE {b}

(* A completed request releases the one that waits for its buffer, of any  *)
(* way (ReleaseBlockedByBufDepReq); then come those of its own way.        *)
ReleasedBy(q, t, w) ==
    LET byBuffer == {Nobody} \cup {OneOf(x) : x \in {y \in Ways : t[y] # <<>>}}
    IN  UNION {Released(b, q, t, w) : b \in byBuffer}

IssueNandReq(w) ==
    LET r == HeadReq(w)
        opt == CASE r.code \in {"READ", "WRITE", "ERASE"} -> "CHECK"
                 [] r.code = "READ_TRANSFER" -> "COMPLETION_FLAG"
                 [] r.code \in {"RESET", "SET_FEATURE"} -> "NONE"
    IN  /\ die' = [die EXCEPT ![w].state = "EXE", ![w].check = opt]
        /\ queue' = IF r.code = "READ" THEN [queue EXCEPT ![w][1].tries = @ + 1] ELSE queue
        /\ CASE r.code = "READ_TRANSFER" -> V2FReadPageTransferAsync(w)
             [] r.code \in FlashOps -> V2FCommand(w, r.code)
             [] r.code = "SET_FEATURE" -> UNCHANGED <<hw, mem>>

(* V2FSetFeaturesSync waits until the way has done everything before.      *)
MayIssue(w) == HeadReq(w).code = "SET_FEATURE" => hw[w].cmds = <<>> /\ ~hw[w].running

CheckEccErrorInfo(w) ==
    CASE mem[w].errorInfo = "bad" -> "FAIL"
      [] mem[w].errorInfo = "worn" /\ HeadReq(w).warn -> "WARNING"
      [] OTHER -> "DONE"

(* What CheckReqStatus returns. *)
ReqStatus(w) ==
    CASE die[w].check = "COMPLETION_FLAG" /\ mem[w].flag ->
             IF HeadReq(w).ecc THEN CheckEccErrorInfo(w) ELSE "DONE"
      [] die[w].check = "REPORT" /\ mem[w].report = "pass" -> "DONE"
      [] die[w].check = "REPORT" /\ mem[w].report = "fail" -> "FAIL"
      [] die[w].check = "NONE" /\ w \in ReadyBusy -> "DONE"
      [] OTHER -> "RUNNING"

(* A mutation: a report that says not yet is waited for again. *)
AsksOnce(w) ==
    IF die[w].check = "REPORT" /\ mem[w].report = "pass" THEN "NONE" ELSE die[w].check

(* The reqStatusCheckOpt CheckReqStatus leaves when it asks for no report. *)
NextCheck(w) ==
    CASE die[w].check = "REPORT" /\ mem[w].report = "pass" -> "NONE"
      [] die[w].check = "REPORT" /\ mem[w].report = "running" -> "CHECK"
      [] OTHER -> die[w].check

(* The read of a page is over; its data is still to be transferred.        *)
Advance(w) ==
    /\ queue' = [queue EXCEPT ![w][1].code = "READ_TRANSFER"]
    /\ die' = [die EXCEPT ![w].state = "IDLE", ![w].check = NextCheck(w)]
    /\ UNCHANGED <<todo, grown>>

(* A mutation: the die still counts as executing. *)
RetryStillExecuting(w) ==
    /\ queue' = [queue EXCEPT ![w][1].code = "READ"]
    /\ die' = [die EXCEPT ![w].retry = @ - 1]
    /\ UNCHANGED <<todo, grown>>

(* A failed read begins again with its trigger. *)
Retry(w) ==
    /\ queue' = [queue EXCEPT ![w][1].code = "READ"]
    /\ die' = [die EXCEPT ![w].state = "IDLE", ![w].retry = @ - 1]
    /\ UNCHANGED <<todo, grown>>

(* A mutation: only a failure gives the way its retries back. *)
CompleteKeepsRetries(w, marks) ==
    LET q == [queue EXCEPT ![w] = Tail(@)] IN
    /\ die' = [die EXCEPT ![w].state = "IDLE", ![w].check = NextCheck(w),
                          ![w].retry = IF marks THEN RetryLimit ELSE @]
    /\ grown' = IF marks THEN grown \cup {HeadReq(w).block} ELSE grown
    /\ \E n \in ReleasedBy(q, todo, w) : LetGo(q, todo, n)

(* A mutation: the block is looked up after the request has left. *)
CompleteMarksNext(w, marks) ==
    LET q == [queue EXCEPT ![w] = Tail(@)] IN
    /\ die' = [die EXCEPT ![w].state = "IDLE", ![w].check = NextCheck(w),
                          ![w].retry = RetryLimit]
    /\ grown' = IF marks /\ q[w] # <<>> THEN grown \cup {Head(q[w]).block} ELSE grown
    /\ \E n \in ReleasedBy(q, todo, w) : LetGo(q, todo, n)

(* The request leaves the queue, done or given up; marks says whether its  *)
(* block is marked bad.                                                    *)
Complete(w, marks) ==
    LET q == [queue EXCEPT ![w] = Tail(@)] IN
    /\ die' = [die EXCEPT ![w].state = "IDLE", ![w].check = NextCheck(w),
                          ![w].retry = RetryLimit]
    /\ grown' = IF marks THEN grown \cup {HeadReq(w).block} ELSE grown
    /\ \E n \in ReleasedBy(q, todo, w) : LetGo(q, todo, n)

(* A mutation: the retries are not limited. *)
RetryForever(w, status) ==
    CASE status = "DONE" /\ HeadReq(w).code = "READ" -> Advance(w)
      [] status = "DONE" /\ HeadReq(w).code # "READ" -> Complete(w, FALSE)
      [] status = "FAIL" /\ IsRead(HeadReq(w)) -> Retry(w)
      [] OTHER -> Complete(w, TRUE)

(* ExecuteNandReq for a way whose request is being executed. *)
ExecuteNandReq(w, status) ==
    CASE status = "DONE" /\ HeadReq(w).code = "READ" -> Advance(w)
      [] status = "DONE" /\ HeadReq(w).code # "READ" -> Complete(w, FALSE)
      [] status = "FAIL" /\ IsRead(HeadReq(w)) /\ die[w].retry > 0 -> Retry(w)
      [] OTHER -> Complete(w, TRUE)
-----------------------------------------------------------------------------
(* SchedulingNandReqPerCh. *)

(* Between two passes the upper layers hand down a request. *)
Arrive(w) ==
    /\ pc = "rest"
    /\ todo[w] # <<>>
    /\ LetGo(queue, todo, OneOf(w))
    /\ UNCHANGED <<pass, lists, die, grown, hw, mem>>

BeginPass ==
    /\ pc = "rest"
    /\ pc' = "idle"
    /\ cur' = First(lists["idle"])
    /\ waits' = 0
    /\ UNCHANGED <<snap, lists, die, queue, todo, grown, hw, mem>>

(* A mutation: every idle way is counted as one that waits. *)
IdleCounted(w) == waits + 1

(* waitWayCnt after the idle way w was looked at. *)
IdleCount(w) == IF queue'[w] = <<>> THEN waits + 1 ELSE waits

IdleWay(w) ==
    /\ pc = "idle"
    /\ cur = w
    /\ \E n \in Released(Nobody, queue, todo, w) : LetGo(queue, todo, n)
    /\ cur' = After(lists["idle"], w)
    /\ lists' = IF queue'[w] = <<>> THEN lists
                ELSE PutToNandWayPriorityTable(SelectivGetFromNandIdleList(lists, w), w,
                                               Head(queue'[w]).code)
    /\ waits' = IdleCount(w)
    /\ UNCHANGED <<pc, snap, die, grown, hw, mem>>

IdleEnd ==
    /\ pc = "idle"
    /\ cur = NoWay
    /\ pc' = "report"
    /\ cur' = First(lists["statusReport"])
    /\ snap' = ReadyBusy
    /\ UNCHANGED <<waits, lists, die, queue, todo, grown, hw, mem>>

(* The way w of the status report list is looked at. *)
ReportOf(w) ==
    /\ pc = "report"
    /\ cur = w
    /\ cur' = After(lists["statusReport"], w)
    /\ UNCHANGED <<pc, snap, hw, mem>>

ReportEnded(w) ==
    /\ ReportOf(w)
    /\ w \in snap
    /\ ReqStatus(w) # "RUNNING"
    /\ ExecuteNandReq(w, ReqStatus(w))
    /\ LET got == SelectivGetFromNandStatusReportList(lists, w) IN
       IF queue'[w] = <<>>
       THEN lists' = PutToNandIdleList(got, w) /\ waits' = waits + 1
       ELSE lists' = PutToNandWayPriorityTable(got, w, Head(queue'[w]).code) /\ UNCHANGED waits

(* The report came too early and is asked for again. *)
ReportAgain(w) ==
    /\ ReportOf(w)
    /\ w \in snap
    /\ ReqStatus(w) = "RUNNING"
    /\ NextCheck(w) = "CHECK"
    /\ die' = [die EXCEPT ![w].check = "CHECK"]
    /\ lists' = PutToNandStatusCheckList(SelectivGetFromNandStatusReportList(lists, w), w)
    /\ UNCHANGED <<waits, queue, todo, grown>>

ReportWaits(w) ==
    /\ ReportOf(w)
    /\ w \in snap => ReqStatus(w) = "RUNNING" /\ NextCheck(w) # "CHECK"
    /\ waits' = waits + 1
    /\ UNCHANGED <<lists, die, queue, todo, grown>>

(* The walks that use the controller, in this order; a walk of an empty    *)
(* list does nothing.  The locals of the pass are of no use after it.      *)
Walks == <<"statusCheck", "readTrigger", "erase", "write", "readTransfer">>

WalkFrom(k, ls) ==
    LET left == {j \in k .. Len(Walks) : ls[Walks[j]] # <<>>}
    IN  IF left = {} THEN "rest" ELSE Walks[CHOOSE j \in left : \A i \in left : j <= i]

(* Nothing is issued when every way waits or the controller is busy. *)
ReportEnd ==
    /\ pc = "report"
    /\ cur = NoWay
    /\ pc' = IF waits # Cardinality(Ways) /\ ~ControllerBusy(hw) THEN WalkFrom(1, lists) ELSE "rest"
    /\ snap' = {}
    /\ waits' = 0
    /\ UNCHANGED <<cur, lists, die, queue, todo, grown, hw, mem>>

(* The first ready way of the status check list is asked for its status    *)
(* (a reset has none); as it goes to another list, the walk ends there.    *)
ChecksStatus(w) ==
    /\ IF die[w].check = "CHECK"
       THEN V2FStatusCheckAsync(w) /\ die' = [die EXCEPT ![w].check = "REPORT"]
       ELSE UNCHANGED <<die, hw, mem>>
    /\ lists' = PutToNandStatusReportList(SelectiveGetFromNandStatusCheckList(lists, w), w)

StatusCheck(i) ==
    /\ pc = "statusCheck"
    /\ lists["statusCheck"][i] \in ReadyBusy
    /\ \A j \in 1 .. i - 1 : lists["statusCheck"][j] \notin ReadyBusy
    /\ ChecksStatus(lists["statusCheck"][i])
    /\ pc' = IF ControllerBusy(hw') THEN "rest" ELSE WalkFrom(2, lists)
    /\ UNCHANGED <<cur, snap, waits, queue, todo, grown>>

NoneToCheck ==
    /\ pc = "statusCheck"
    /\ Range(lists["statusCheck"]) \cap ReadyBusy = {}
    /\ pc' = WalkFrom(2, lists)
    /\ UNCHANGED <<cur, snap, waits, lists, die, queue, todo, grown, hw, mem>>

(* The list an issued request's way goes to, from list l. *)
PutIssued(l, w) ==
    CASE l = "readTrigger" ->
             PutToNandStatusCheckList(SelectiveGetFromNandReadTriggerList(lists, w), w)
      [] l = "erase" -> PutToNandStatusCheckList(SelectiveGetFromNandEraseList(lists, w), w)
      [] l = "write" -> PutToNandStatusCheckList(SelectiveGetFromNandWriteList(lists, w), w)
      [] l = "readTransfer" ->
             PutToNandStatusReportList(SelectiveGetFromNandReadTransferList(lists, w), w)

(* One way of the list is issued: its link is read when it is already the  *)
(* tail of another list, which ends the walk.                              *)
Issue(k) ==
    /\ pc = Walks[k]
    /\ LET w == Head(lists[pc]) IN
       /\ IF die[w].state = "IDLE" THEN MayIssue(w) /\ IssueNandReq(w)
                                   ELSE UNCHANGED <<die, queue, hw, mem>>
       /\ lists' = PutIssued(pc, w)
    /\ pc' = IF ControllerBusy(hw') THEN "rest" ELSE WalkFrom(k + 1, lists)
    /\ UNCHANGED <<cur, snap, waits, todo, grown>>
-----------------------------------------------------------------------------
(* InitReqScheduler *)
Init ==
    /\ pc = "rest"
    /\ cur = NoWay
    /\ snap = {}
    /\ waits = 0
    /\ lists = [l \in ListNames |-> IF l = "idle" THEN WayOrder ELSE <<>>]
    /\ die = [w \in Ways |-> [state |-> "IDLE", check |-> "NONE", retry |-> RetryLimit]]
    /\ queue = [w \in Ways |-> <<>>]
    /\ todo = Load
    /\ grown = {}
    /\ hw = [w \in Ways |-> [cmds |-> <<>>, running |-> FALSE, failed |-> FALSE]]
    /\ mem = [w \in Ways |-> [report |-> "none", flag |-> FALSE, errorInfo |-> "good"]]

PassStep ==
    \/ BeginPass
    \/ IdleEnd
    \/ \E w \in Ways : IdleWay(w) \/ ReportEnded(w) \/ ReportAgain(w) \/ ReportWaits(w)
    \/ ReportEnd
    \/ NoneToCheck
    \/ \E i \in DOMAIN lists["statusCheck"] : StatusCheck(i)
    \/ \E k \in 2 .. Len(Walks) : Issue(k)

HwStep(w) == Start(w) \/ Finish(w) \/ ReportStatus(w) \/ Transfer(w)

Next == PassStep \/ \E w \in Ways : Arrive(w) \/ HwStep(w)

(* The loops that wait for requests run pass after pass, and the           *)
(* controller and the flash finish what they were given.                   *)
Fairness == WF_vars(PassStep) /\ \A w \in Ways : WF_vars(HwStep(w))

Spec == Init /\ [][Next]_vars
FairSpec == Spec /\ Fairness
-----------------------------------------------------------------------------
(* Types. *)
TypeOK ==
    /\ pc \in {"rest", "idle", "report", "statusCheck"} \cup IssueLists
    /\ cur \in Ways \cup {NoWay}
    /\ waits \in 0 .. Cardinality(Ways)
    /\ lists \in [ListNames -> Seq(Ways)]
    /\ die \in [Ways -> [state : {"IDLE", "EXE"}, retry : 0 .. RetryLimit,
                         check : {"NONE", "CHECK", "REPORT", "COMPLETION_FLAG"}]]
    /\ \A w \in Ways : hw[w].running \in BOOLEAN /\ Len(hw[w].cmds) <= QueueDepth

(* Every way is on exactly one list, once, and the list fits what its die  *)
(* and the request at the head of its queue need next.                     *)
Fits(l, w) ==
    LET code == HeadReq(w).code IN
    CASE l = "idle" -> die[w].state = "IDLE"
      [] l = "statusCheck" -> /\ queue[w] # <<>>
                              /\ die[w].state = "EXE"
                              /\ die[w].check \in {"CHECK", "NONE"}
      [] l = "statusReport" -> /\ queue[w] # <<>>
                               /\ die[w].state = "EXE"
                               /\ die[w].check \in {"REPORT", "COMPLETION_FLAG", "NONE"}
      [] l = "readTrigger" -> queue[w] # <<>> /\ die[w].state = "IDLE" /\ code = "READ"
      [] l = "readTransfer" -> queue[w] # <<>> /\ die[w].state = "IDLE" /\ code = "READ_TRANSFER"
      [] l = "erase" -> queue[w] # <<>> /\ die[w].state = "IDLE" /\ code = "ERASE"
      [] l = "write" -> /\ queue[w] # <<>>
                        /\ die[w].state = "IDLE"
                        /\ code \in {"WRITE", "RESET", "SET_FEATURE"}

OnOneList ==
    /\ \A l \in ListNames : \A i, j \in DOMAIN lists[l] : lists[l][i] = lists[l][j] => i = j
    /\ \A l, m \in ListNames : l # m => Range(lists[l]) \cap Range(lists[m]) = {}
    /\ \A w \in Ways : \E l \in ListNames : w \in Range(lists[l])

ListsFit == \A l \in ListNames : \A w \in Range(lists[l]) : Fits(l, w)

(* The count of waiting ways cuts the pass short only when no way has      *)
(* anything to issue or to ask.                                            *)
ShortcutExact ==
    pc = "report" /\ cur = NoWay =>
        (waits = Cardinality(Ways) <=> \A k \in DOMAIN Walks : lists[Walks[k]] = <<>>)

(* The request at the head of w's queue leaves it. *)
Leaves(w) == Len(queue'[w]) + Len(todo'[w]) < Len(queue[w]) + Len(todo[w])

(* The flash has done what w's request asked for: the controller holds     *)
(* nothing more for the way, and the last operation went well.             *)
DoneWell(w) ==
    /\ hw[w].cmds = <<>>
    /\ ~hw[w].running
    /\ HeadReq(w).code # "READ_TRANSFER" => ~hw[w].failed
    /\ HeadReq(w).code = "READ_TRANSFER" /\ HeadReq(w).ecc => mem[w].errorInfo # "bad"

(* A request leaves without a mark only when the flash has done it, and    *)
(* done it well.  (Nobody asks how a reset or a set feature ended.)        *)
LeavesDone ==
    [][\A w \in Ways : Leaves(w) /\ HeadReq(w).code \notin {"RESET", "SET_FEATURE"} =>
          DoneWell(w) \/ HeadReq(w).block \in grown']_vars

(* A block is marked bad only when the request for it leaves, after the    *)
(* flash failed it or its page was worn.                                   *)
MarksDeserved ==
    [][\A b \in grown' \ grown : \E w \in Ways :
          /\ Leaves(w)
          /\ HeadReq(w).block = b
          /\ IF HeadReq(w).code = "READ_TRANSFER" THEN mem[w].errorInfo # "good" ELSE hw[w].failed]_vars

(* A read that newly marks its block is given up only after all its        *)
(* retries, whatever the requests before it on the way have used, or when  *)
(* its page is worn.                                                       *)
FullRetries ==
    [][\A w \in Ways : Leaves(w) /\ IsRead(HeadReq(w)) /\ HeadReq(w).block \in grown' \ grown =>
          \/ HeadReq(w).tries = RetryLimit + 1
          \/ HeadReq(w).ecc /\ mem[w].errorInfo = "worn"]_vars

(* What is queued is done at some time: the loops that wait for it end.    *)
AllLeave == []<>(\A w \in Ways : queue[w] = <<>>)
=============================================================================
