--------------------------- MODULE NvmeTaskProofs ---------------------------
(***************************************************************************)
(* For any number of queues and slots, and any limit of resets: the status *)
(* word follows the host unless the loop overwrites it, and a session      *)
(* starts with nothing of the one before (NvmeTask).                       *)
(*                                                                         *)
(* The argument: an event that changes the register stays pending until    *)
(* the handler has read the register after it, and the handler looks at    *)
(* the enabling before the shutdown, which can only follow it (InOrder).   *)
(* So a register whose event is not pending has been answered (Settled).   *)
(* Only a ready controller is running, and one that is not ready has no    *)
(* queues and no settings left, except within the branches that take them  *)
(* away (Fresh).                                                           *)
(***************************************************************************)
EXTENDS NvmeTask, TLAPS

Statuses == {"IDLE", "WAIT_CC_EN", "RUNNING", "SHUTDOWN", "WAIT_RESET", "RESET"}

Pending == irq \cup isr

Types ==
    /\ link \in BOOLEAN
    /\ cc \in [en : BOOLEAN, shn : BOOLEAN]
    /\ overwritten \in BOOLEAN
    /\ status \in Statuses
    /\ cacheEn \in BOOLEAN

(* Where the loop is within a branch that ends with a new status. *)
Within == {"enable", "enabled", "shutdown", "shut", "reset", "resetting", "lost", "losing"}

Fresh ==
    /\ pc \in Within => status # "RUNNING"
    /\ status = "RUNNING" \/ pc = "enabled" => csts.rdy
    /\ pc = "resetting" => ~csts.rdy /\ ~cacheEn
    /\ pc \in {"lost", "losing"} => io = NoQueues
    /\ ~csts.rdy /\ pc \notin {"lost", "resetting"} => io = NoQueues /\ ~cacheEn

InOrder ==
    /\ cc.en => link
    /\ cc.en /\ cc.shn =>
           /\ "ccEn" \in irq => "ccShn" \in irq
           /\ "ccEn" \in isr => "ccShn" \in Pending
    /\ pc = "reset" => ~cc.en \/ (~csts.rdy /\ ~cc.shn)
    /\ pc = "resetting" => ~csts.rdy /\ ~(cc.en /\ cc.shn)

Settled ==
    ~overwritten =>
        /\ cc.en /\ cc.shn /\ "ccShn" \notin Pending => status \in {"SHUTDOWN", "WAIT_RESET"}
        /\ cc.en /\ ~cc.shn /\ "ccEn" \notin Pending => status \in {"WAIT_CC_EN", "RUNNING"}
        /\ ~cc.en /\ "ccEn" \notin Pending =>
               status \in {"IDLE", "WAIT_RESET", "RESET", "SHUTDOWN"}

TaskInv == Types /\ Fresh /\ InOrder /\ Settled
-----------------------------------------------------------------------------
LEMMA TaskInvInit == Init => TaskInv
<1> SUFFICES ASSUME Init PROVE TaskInv
    OBVIOUS
<1>1. /\ link = FALSE /\ ~cc.en /\ ~cc.shn /\ ~csts.rdy
      /\ irq = {} /\ isr = {} /\ status = "IDLE" /\ pc = "top"
      /\ io = NoQueues /\ ~cacheEn
    BY DEF Init
<1>2. cc \in [en : BOOLEAN, shn : BOOLEAN] /\ overwritten \in BOOLEAN /\ cacheEn \in BOOLEAN
    BY DEF Init
<1>3. Types
    BY <1>1, <1>2 DEF Types, Statuses
<1>4. Fresh
    BY <1>1 DEF Fresh, Within
<1>5. InOrder
    BY <1>1 DEF InOrder
<1>6. Settled
    BY <1>1 DEF Settled
<1>7. QED
    BY <1>3, <1>4, <1>5, <1>6 DEF TaskInv

LEMMA TypesNext ==
    ASSUME Types, [Next]_vars
    PROVE  Types'
<1> USE DEF Types, Statuses, host, regs
<1>1. CASE Loop
    BY <1>1 DEF Loop, Idle, NoCommand, Schedule, WaitCcEn, Enable, Enabled, Shutdown,
           ShutQueues, Shut, WaitReset, ResetCsts, ResetQueues, LinkLost, LostCsts, Lost,
           AdminCommand, IoCommand, Command, Becomes, HandleSetFeatures,
           HandleGetFeatures, HandleIoQueue, HandleIdentify, HandleReport,
           SetNvmeCpl, Done, Assert
<1>2. CASE Handler
    <2>1. \A e : Asked(e) \subseteq Statuses
        BY DEF Asked
    <2>2. status' \in Statuses /\ overwritten' \in BOOLEAN
        BY <1>2, <2>1 DEF Handler, EnterIrq, HandleEvent, task
    <2>3. UNCHANGED <<link, cc, cacheEn>>
        BY <1>2 DEF Handler, EnterIrq, HandleEvent
    <2>4. QED
        BY <2>2, <2>3
<1>3. CASE HostSetsCc
    <2>1. PICK new \in [en : BOOLEAN, shn : BOOLEAN] : cc' = new
        BY <1>3, Zenon DEF HostSetsCc, CcIs
    <2>2. UNCHANGED <<link, status, overwritten, cacheEn>>
        BY <1>3 DEF HostSetsCc, task
    <2>3. QED
        BY <2>1, <2>2
<1>4. CASE LinkLoss \/ LinkUp
    <2>1. cc' \in [en : BOOLEAN, shn : BOOLEAN]
        <3>1. cc' = cc \/ cc' = [en |-> FALSE, shn |-> FALSE]
            BY <1>4, Zenon DEF LinkLoss, LinkUp
        <3>2. [en |-> FALSE, shn |-> FALSE] \in [en : BOOLEAN, shn : BOOLEAN]
            OBVIOUS
        <3>3. QED
            BY <3>1, <3>2
    <2>2. link' \in BOOLEAN
        <3>1. link' = TRUE \/ link' = FALSE
            BY <1>4, Zenon DEF LinkLoss, LinkUp
        <3>2. QED
            BY <3>1
    <2>3. UNCHANGED <<status, overwritten, cacheEn>>
        BY <1>4 DEF LinkLoss, LinkUp, task
    <2>4. QED
        BY <2>1, <2>2, <2>3
<1>5. CASE \E s \in Slots : TakeCommand(s) \/ Hardware(s)
    BY <1>5 DEF TakeCommand, Hardware, PageRead, AutoCompletion, task
<1>6. CASE UNCHANGED vars
    BY <1>6 DEF vars, task
<1>7. QED
    BY <1>1, <1>2, <1>3, <1>4, <1>5, <1>6 DEF Next

LEMMA FreshNext ==
    ASSUME Types, Fresh, [Next]_vars
    PROVE  Fresh'
<1> USE DEF Fresh, Within
<1>1. CASE Idle \/ NoCommand \/ Schedule
    BY <1>1 DEF Idle, NoCommand, Schedule, Branch, At, host, regs
<1>2. CASE WaitCcEn \/ Shutdown \/ WaitReset
    BY <1>2 DEF WaitCcEn, Shutdown, WaitReset, Branch, At, host, regs, SetNvmeCsts
<1>3. CASE Enable \/ Enabled
    BY <1>3 DEF Enable, Enabled, Becomes, At, host, regs, SetNvmeCsts
<1>4. CASE ShutQueues \/ Shut
    BY <1>4 DEF ShutQueues, Shut, Becomes, At, host, regs, SetNvmeCsts
<1>5. CASE ResetCsts \/ ResetQueues
    BY <1>5 DEF ResetCsts, ResetQueues, Becomes, At, host, SetNvmeCsts
<1>6. CASE LinkLost \/ LostCsts \/ Lost
    BY <1>6 DEF LinkLost, LostCsts, Lost, Becomes, Branch, At, host, regs, SetNvmeCsts
<1>7. CASE \E s \in Slots : AdminCommand(s) \/ IoCommand(s)
    <2>1. /\ csts.rdy /\ csts' = csts /\ status' = status
          /\ pc' \in {"schedule", "top", "stopped"}
        BY <1>7 DEF AdminCommand, IoCommand, Command, Branch, host, HandleSetFeatures,
               HandleGetFeatures, HandleIoQueue, HandleIdentify, HandleReport, SetNvmeCpl,
               Done, Assert
    <2>2. QED
        BY <2>1
<1>8. CASE Handler
    <2>1. \A e : "RUNNING" \notin Asked(e)
        BY DEF Asked
    <2>2. status' = "RUNNING" => status = "RUNNING"
        BY <1>8, <2>1 DEF Handler, EnterIrq, HandleEvent, task
    <2>3. UNCHANGED <<csts, pc, io, cacheEn>>
        BY <1>8 DEF Handler, EnterIrq, HandleEvent, host, task, regs
    <2>4. QED
        BY <2>2, <2>3
<1>9. CASE \/ HostSetsCc \/ LinkLoss \/ LinkUp
           \/ \E s \in Slots : TakeCommand(s) \/ Hardware(s)
           \/ UNCHANGED vars
    <2>1. UNCHANGED <<csts, status, pc, io, cacheEn>>
        BY <1>9 DEF HostSetsCc, LinkLoss, LinkUp, TakeCommand, Hardware, PageRead,
               AutoCompletion, vars, host, task, regs
    <2>2. QED
        BY <2>1
<1>10. QED
    BY <1>1, <1>2, <1>3, <1>4, <1>5, <1>6, <1>7, <1>8, <1>9 DEF Next, Loop

(* What the loop does to the order of the events and to what is settled:   *)
(* nothing, except at the end of a branch.                                 *)
LEMMA LoopQuiet ==
    ASSUME Types, InOrder, Settled, UNCHANGED <<link, cc, irq, isr, status, overwritten>>,
           pc' = "reset" => ~cc.en,
           pc' = "resetting" => pc = "reset" /\ ~csts'.rdy
    PROVE  InOrder' /\ Settled'
BY DEF Types, InOrder, Settled, Pending

(* What the end of a branch overwrites is noted. *)
LEMMA BecomesFact ==
    ASSUME NEW s, NEW next, Becomes(s, next), ~overwritten'
    PROVE  ~overwritten /\ status \in {s, next}
BY Zenon DEF Becomes

LEMMA LoopNext ==
    ASSUME Types, InOrder, Settled, Loop
    PROVE  InOrder' /\ Settled'
<1> USE DEF host, regs
<1>1. CASE Idle \/ NoCommand \/ Schedule \/ WaitCcEn \/ Shutdown \/ WaitReset
    BY <1>1, LoopQuiet DEF Idle, NoCommand, Schedule, WaitCcEn, Shutdown, WaitReset
<1>2. CASE Enable \/ ShutQueues \/ ResetCsts \/ LinkLost \/ LostCsts
    BY <1>2, LoopQuiet
       DEF Enable, ShutQueues, ResetCsts, LinkLost, LostCsts, At, SetNvmeCsts
<1>3. CASE \E s \in Slots : AdminCommand(s) \/ IoCommand(s)
    BY <1>3, LoopQuiet
       DEF AdminCommand, IoCommand, Command, HandleSetFeatures, HandleGetFeatures,
           HandleIoQueue, HandleIdentify, HandleReport, SetNvmeCpl, Done, Assert
<1>4. CASE Enabled \/ Shut \/ ResetQueues \/ Lost
    <2>1. UNCHANGED <<link, cc, csts, irq, isr>> /\ pc' \in {"schedule", "stopped"}
        BY <1>4 DEF Enabled, Shut, ResetQueues, Lost
    <2>2. InOrder'
        BY <2>1 DEF InOrder, Pending
    <2>3. CASE Enabled
        <3>1. ~overwritten' => ~overwritten /\ status \in {"WAIT_CC_EN", "RUNNING"}
            BY <2>3, BecomesFact DEF Enabled
        <3>2. status' = "RUNNING"
            BY <2>3 DEF Enabled, Becomes
        <3>3. QED
            BY <2>1, <2>2, <3>1, <3>2 DEF Settled, Pending
    <2>4. CASE Shut
        <3>1. ~overwritten' => ~overwritten /\ status \in {"SHUTDOWN", "WAIT_RESET"}
            BY <2>4, BecomesFact DEF Shut
        <3>2. status' = "WAIT_RESET"
            BY <2>4 DEF Shut, Becomes
        <3>3. QED
            BY <2>1, <2>2, <3>1, <3>2 DEF Settled, Pending
    <2>5. CASE ResetQueues
        <3>1. ~overwritten' => ~overwritten /\ status \in {"WAIT_RESET", "IDLE"}
            BY <2>5, BecomesFact DEF ResetQueues
        <3>2. status' = "IDLE" /\ ~(cc.en /\ cc.shn)
            BY <2>5 DEF ResetQueues, At, Becomes, InOrder
        <3>3. QED
            BY <2>1, <2>2, <3>1, <3>2 DEF Settled, Pending
    <2>6. CASE Lost
        <3>1. ~overwritten' => ~overwritten /\ status \in {"RESET", "IDLE"}
            BY <2>6, BecomesFact DEF Lost
        <3>2. status' = "IDLE"
            BY <2>6 DEF Lost, Becomes
        <3>3. QED
            BY <2>1, <2>2, <3>1, <3>2 DEF Settled, Pending
    <2>7. QED
        BY <1>4, <2>2, <2>3, <2>4, <2>5, <2>6
<1>5. QED
    BY <1>1, <1>2, <1>3, <1>4 DEF Loop

(* The handler reads a register after the event that it has changed.       *)
LEMMA HandlerNext ==
    ASSUME Types, InOrder, Settled, Handler
    PROVE  InOrder' /\ Settled'
<1>1. CASE EnterIrq
    BY <1>1 DEF EnterIrq, host, task, InOrder, Settled, Pending
<1>2. ASSUME NEW k \in DOMAIN Events, HandleEvent(k)
      PROVE  InOrder' /\ Settled'
    <2>1. /\ UNCHANGED <<link, cc, csts, irq, pc>>
          /\ Events[k] \in isr /\ isr' = isr \ {Events[k]}
        BY <1>2 DEF HandleEvent, host
    <2>2. \/ Asked(Events[k]) = {} /\ UNCHANGED <<status, overwritten>>
          \/ status' \in Asked(Events[k])
        BY <1>2 DEF HandleEvent
    <2>3. k \in 1 .. 3 /\ Events[1] = "link" /\ Events[2] = "ccEn" /\ Events[3] = "ccShn"
        BY DEF Events
    <2>4. CASE k = 1
        BY <2>1, <2>2, <2>3, <2>4 DEF Asked, Types, InOrder, Settled, Pending
    <2>5. CASE k = 2
        BY <2>1, <2>2, <2>3, <2>5 DEF Asked, Types, InOrder, Settled, Pending
    <2>6. CASE k = 3
        <3>1. "ccEn" \notin isr
            BY <1>2, <2>3, <2>6 DEF HandleEvent
        <3>2. QED
            BY <2>1, <2>2, <2>3, <2>6, <3>1 DEF Asked, Types, InOrder, Settled, Pending
    <2>7. QED
        BY <2>3, <2>4, <2>5, <2>6
<1>3. QED
    BY <1>1, <1>2 DEF Handler

(* A register does not change without its event. *)
LEMMA HostNext ==
    ASSUME Types, InOrder, Settled, HostSetsCc \/ LinkLoss \/ LinkUp
    PROVE  InOrder' /\ Settled'
<1>1. CASE HostSetsCc
    <2>1. UNCHANGED <<link, csts, isr, status, pc, overwritten>> /\ link
        BY <1>1 DEF HostSetsCc, task
    <2>2. CASE ~cc.en /\ ~csts.rdy /\ CcIs([en |-> TRUE, shn |-> FALSE])
        BY <2>1, <2>2 DEF CcIs, Types, InOrder, Settled, Pending
    <2>3. CASE cc.en /\ csts.rdy /\ CcIs([cc EXCEPT !.en = FALSE])
        BY <2>1, <2>3 DEF CcIs, Types, InOrder, Settled, Pending
    <2>4. CASE cc.en /\ csts.rdy /\ ~cc.shn /\ CcIs([cc EXCEPT !.shn = TRUE])
        BY <2>1, <2>4 DEF CcIs, Types, InOrder, Settled, Pending
    <2>5. QED
        BY <1>1, <2>2, <2>3, <2>4 DEF HostSetsCc
<1>2. CASE LinkLoss
    BY <1>2 DEF LinkLoss, task, Types, InOrder, Settled, Pending
<1>3. CASE LinkUp
    BY <1>3 DEF LinkUp, task, Types, InOrder, Settled, Pending
<1>4. QED
    BY <1>1, <1>2, <1>3

(* The status word, the events that wait and the registers agree in every  *)
(* state, wherever the interrupt cuts into a branch of the loop.           *)
THEOREM TaskInvariant == Spec => []TaskInv
<1>1. TaskInv /\ [Next]_vars => TaskInv'
    <2> SUFFICES ASSUME TaskInv, [Next]_vars PROVE TaskInv'
        OBVIOUS
    <2>1. Types' /\ Fresh'
        BY TypesNext, FreshNext DEF TaskInv
    <2>2. InOrder' /\ Settled'
        <3>1. CASE \/ \E s \in Slots : TakeCommand(s) \/ Hardware(s)
                   \/ UNCHANGED vars
            <4>1. UNCHANGED <<link, cc, csts, irq, isr, status, pc, overwritten>>
                BY <3>1 DEF TakeCommand, Hardware, PageRead, AutoCompletion, vars, host, task
            <4>2. QED
                BY <4>1 DEF TaskInv, InOrder, Settled, Pending
        <3>2. QED
            BY <3>1, LoopNext, HandlerNext, HostNext DEF TaskInv, Next
    <2>3. QED
        BY <2>1, <2>2 DEF TaskInv
<1>2. QED
    BY <1>1, TaskInvInit, PTL DEF Spec

(* With no event left to handle, between two turns of the loop, the status *)
(* fits what the host asks for, unless the loop overwrote it (nvme_main,   *)
(* dev_irq_handler).                                                       *)
THEOREM StatusFollowsHostCorrect == Spec => []StatusFollowsHost
<1>1. TaskInv => StatusFollowsHost
    BY DEF TaskInv, Types, Settled, Fresh, Pending, StatusFollowsHost
<1>2. QED
    BY <1>1, TaskInvariant, PTL

(* When the controller becomes ready no I/O queue is valid and the cache   *)
(* is as after power-up (set_nvme_admin_queue).                            *)
THEOREM SessionsFreshCorrect == Spec => SessionsFresh
<1>1. TaskInv =>
          [~csts.rdy /\ csts'.rdy /\ pc = "enable" => io = NoQueues /\ ~cacheEn]_vars
    BY DEF TaskInv, Fresh
<1>2. QED
    BY <1>1, TaskInvariant, PTL DEF SessionsFresh
=============================================================================
