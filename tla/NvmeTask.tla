------------------------------ MODULE NvmeTask ------------------------------
(***************************************************************************)
(* The NVMe task: the loop of nvme_main, the interrupt handler that tells  *)
(* it by one status word what the host does with the controller            *)
(* (host_lld.c), and the admin and I/O commands (nvme_admin_cmd.c,         *)
(* nvme_io_cmd.c) as far as they concern the controller's state.           *)
(*                                                                         *)
(* A branch of the loop is cut where the host can see a register change or *)
(* where the status is written at its end: the interrupt may come between. *)
(* While the handler runs the loop does not.  A branch is chosen by one    *)
(* read of the status (the code compares it anew for every branch; what it *)
(* misses when the status changes in between is found in the next turn).   *)
(***************************************************************************)
EXTENDS Naturals, FiniteSets

CONSTANTS
    Queues,         \* the I/O queues in use
    ResetLimit,     \* the 5 of nvme_main
    Slots           \* the command slots of the controller

ASSUME LimitAssumption == ResetLimit \in Nat \ {0}

(* The events the handler acts on, in the order it looks at them.          *)
Events == <<"link", "ccEn", "ccShn">>

VARIABLES
    link, cc, csts,     \* the link, CC.EN and CC.SHN, CSTS.RDY and CSTS.SHST
    irq, isr,           \* events that wait, and those the handler has yet to do
    status,             \* g_nvmeTask.status
    pc,                 \* where nvme_main is
    overwritten,        \* the loop has overwritten what the handler wrote last
    adminQ, io,         \* the queues that are valid
    cacheEn,            \* g_nvmeTask.cacheEn
    rstCnt,
    slots               \* slot -> what it holds

(* A slot is "free", or holds an "admin" or "io" command to be fetched, one *)
(* that reads "flash", whose page is "read", whose data goes to or comes    *)
(* from the host by "dma", or one that is answered but "kept".  pc is       *)
(* "stopped" once the loop goes round in ASSERT or waits for what never     *)
(* happens; the interrupts go on.                                           *)

host == <<link, cc, csts>>
task == <<status, pc, overwritten>>
regs == <<adminQ, io, cacheEn>>
vars == <<host, irq, isr, task, regs, rstCnt, slots>>

NoQueues == [sq |-> {}, cq |-> {}]
-----------------------------------------------------------------------------
(* The host enables a controller that is not ready, and disables, shuts    *)
(* down and uses one that is; the link may go down at any time.            *)

CcIs(new) ==
    /\ cc' = new
    /\ irq' = irq \cup {e \in {"ccEn"} : new.en # cc.en} \cup {e \in {"ccShn"} : new.shn # cc.shn}

HostSetsCc ==
    /\ link
    /\ \/ ~cc.en /\ ~csts.rdy /\ CcIs([en |-> TRUE, shn |-> FALSE])
       \/ cc.en /\ csts.rdy /\ CcIs([cc EXCEPT !.en = FALSE])
       \/ cc.en /\ csts.rdy /\ ~cc.shn /\ CcIs([cc EXCEPT !.shn = TRUE])
    /\ UNCHANGED <<link, csts, isr, task, regs, rstCnt, slots>>

(* Losing the link resets the registers of the host.  A link trained anew  *)
(* before the handler has run is left out: the handler would find it up.   *)
LinkLoss ==
    /\ link
    /\ link' = FALSE
    /\ cc' = [en |-> FALSE, shn |-> FALSE]
    /\ irq' = irq \cup {"link"} \cup {e \in {"ccEn"} : cc.en} \cup {e \in {"ccShn"} : cc.shn}
    /\ UNCHANGED <<csts, isr, task, regs, rstCnt, slots>>

LinkUp ==
    /\ ~link
    /\ "link" \notin irq \cup isr
    /\ link' = TRUE
    /\ irq' = irq \cup {"link"}
    /\ UNCHANGED <<cc, csts, isr, task, regs, rstCnt, slots>>

(* The controller takes commands from the queues that are valid. *)
TakeCommand(s) ==
    /\ link /\ csts.rdy /\ cc.en
    /\ slots[s] = "free"
    /\ \/ adminQ /\ slots' = [slots EXCEPT ![s] = "admin"]
       \/ io.sq # {} /\ slots' = [slots EXCEPT ![s] = "io"]
    /\ UNCHANGED <<host, irq, isr, task, regs, rstCnt>>

(* The flash reads a page; the DMA engine answers what it has transferred. *)
PageRead(s) ==
    /\ slots[s] = "flash"
    /\ slots' = [slots EXCEPT ![s] = "read"]
    /\ UNCHANGED <<host, irq, isr, task, regs, rstCnt>>

AutoCompletion(s) ==
    /\ slots[s] = "dma"
    /\ slots' = [slots EXCEPT ![s] = "free"]
    /\ UNCHANGED <<host, irq, isr, task, regs, rstCnt>>
-----------------------------------------------------------------------------
(* dev_irq_handler: the status register is read and cleared, and then for  *)
(* every event the register it is about is read again.                     *)

EnterIrq ==
    /\ isr = {}
    /\ irq # {}
    /\ isr' = irq
    /\ irq' = {}
    /\ UNCHANGED <<host, task, regs, rstCnt, slots>>

(* A mutation: a controller that is disabled asks for nothing.             *)
AskedWhenOn(e) ==
    CASE e = "link" /\ ~link -> {"RESET"}
      [] e = "ccEn" /\ cc.en -> {"WAIT_CC_EN"}
      [] e = "ccShn" /\ cc.shn -> {"SHUTDOWN"}
      [] OTHER -> {}

(* The status an event asks for, if any. *)
Asked(e) ==
    CASE e = "link" /\ ~link -> {"RESET"}
      [] e = "ccEn" /\ cc.en -> {"WAIT_CC_EN"}
      [] e = "ccEn" /\ ~cc.en -> {"WAIT_RESET"}
      [] e = "ccShn" /\ cc.shn -> {"SHUTDOWN"}
      [] OTHER -> {}

(* A mutation: only the first of the events is handled. *)
HandleFirst(k) ==
    /\ Events[k] \in isr
    /\ \A j \in 1 .. k - 1 : Events[j] \notin isr
    /\ isr' = {}
    /\ IF Asked(Events[k]) = {}
       THEN UNCHANGED <<status, overwritten>>
       ELSE status' \in Asked(Events[k]) /\ overwritten' = FALSE
    /\ UNCHANGED <<host, irq, pc, regs, rstCnt, slots>>

HandleEvent(k) ==
    /\ Events[k] \in isr
    /\ \A j \in 1 .. k - 1 : Events[j] \notin isr
    /\ isr' = isr \ {Events[k]}
    /\ IF Asked(Events[k]) = {}
       THEN UNCHANGED <<status, overwritten>>
       ELSE status' \in Asked(Events[k]) /\ overwritten' = FALSE
    /\ UNCHANGED <<host, irq, pc, regs, rstCnt, slots>>
-----------------------------------------------------------------------------
(* nvme_main.  Each branch begins at the top of the loop. *)

At(p) == isr = {} /\ pc = p

Branch(s) == At("top") /\ status = s

(* The branch for status s ends by writing the next status. *)
Becomes(s, next) ==
    /\ status' = next
    /\ overwritten' = (overwritten \/ status \notin {s, next})

SetNvmeCsts(rdy, shst) == csts' = [rdy |-> rdy, shst |-> shst]

(* WAIT_CC_EN: check_nvme_cc_en; the admin queues, CSTS.RDY; RUNNING.      *)
WaitCcEn ==
    /\ Branch("WAIT_CC_EN")
    /\ pc' = IF cc.en THEN "enable" ELSE "schedule"
    /\ UNCHANGED <<host, irq, isr, status, overwritten, regs, rstCnt, slots>>

Enable ==
    /\ At("enable")
    /\ adminQ' = TRUE
    /\ SetNvmeCsts(TRUE, csts.shst)
    /\ pc' = "enabled"
    /\ UNCHANGED <<link, cc, irq, isr, status, overwritten, io, cacheEn, rstCnt, slots>>

Enabled ==
    /\ At("enabled")
    /\ Becomes("WAIT_CC_EN", "RUNNING")
    /\ pc' = "schedule"
    /\ UNCHANGED <<host, irq, isr, regs, rstCnt, slots>>

(* SHUTDOWN: CSTS.SHST is 1 while the queues are closed and 2 when they    *)
(* are.  Last the bad block table is written, which waits for all requests *)
(* of the flash and may wait for ever.                                     *)
Shutdown ==
    /\ Branch("SHUTDOWN")
    /\ IF cc.shn
       THEN pc' = "shutdown" /\ SetNvmeCsts(csts.rdy, 1)
       ELSE pc' = "schedule" /\ UNCHANGED csts
    /\ UNCHANGED <<link, cc, irq, isr, status, overwritten, regs, rstCnt, slots>>

ShutQueues ==
    /\ At("shutdown")
    /\ io' = NoQueues
    /\ adminQ' = FALSE
    /\ cacheEn' = FALSE
    /\ SetNvmeCsts(csts.rdy, 2)
    /\ pc' = "shut"
    /\ UNCHANGED <<link, cc, irq, isr, status, overwritten, rstCnt, slots>>

Shut ==
    /\ At("shut")
    /\ Becomes("SHUTDOWN", "WAIT_RESET")
    /\ pc' \in {"schedule", "stopped"}
    /\ UNCHANGED <<host, irq, isr, regs, rstCnt, slots>>

(* A mutation: the reset of a controller that is disabled forgets the      *)
(* volatile cache setting.                                                 *)
ResetKeepsCache ==
    /\ At("reset")
    /\ SetNvmeCsts(FALSE, 0)
    /\ pc' = "resetting"
    /\ UNCHANGED <<link, cc, irq, isr, status, overwritten, adminQ, io, cacheEn, rstCnt, slots>>

(* WAIT_RESET: CSTS is cleared first and the queues are closed after it.   *)
WaitReset ==
    /\ Branch("WAIT_RESET")
    /\ pc' = IF ~cc.en THEN "reset" ELSE "schedule"
    /\ UNCHANGED <<host, irq, isr, status, overwritten, regs, rstCnt, slots>>

ResetCsts ==
    /\ At("reset")
    /\ cacheEn' = FALSE
    /\ SetNvmeCsts(FALSE, 0)
    /\ pc' = "resetting"
    /\ UNCHANGED <<link, cc, irq, isr, status, overwritten, adminQ, io, rstCnt, slots>>

ResetQueues ==
    /\ At("resetting")
    /\ adminQ' = FALSE
    /\ io' = NoQueues
    /\ Becomes("WAIT_RESET", "IDLE")
    /\ pc' = "schedule"
    /\ UNCHANGED <<host, irq, isr, cacheEn, rstCnt, slots>>

(* RESET, after the link was lost.  pcie_async_reset writes the register   *)
(* from a variable of which it has set the count only.                     *)
LinkLost ==
    /\ Branch("RESET")
    /\ io' = NoQueues
    /\ IF rstCnt >= ResetLimit
       THEN /\ \E r \in BOOLEAN, h \in 0 .. 3 : SetNvmeCsts(r, h)
            /\ rstCnt' = 0
       ELSE rstCnt' = rstCnt + 1 /\ UNCHANGED csts
    /\ pc' = "lost"
    /\ UNCHANGED <<link, cc, irq, isr, status, overwritten, adminQ, cacheEn, slots>>

LostCsts ==
    /\ At("lost")
    /\ cacheEn' = FALSE
    /\ adminQ' = FALSE
    /\ SetNvmeCsts(FALSE, 0)
    /\ pc' = "losing"
    /\ UNCHANGED <<link, cc, irq, isr, status, overwritten, io, rstCnt, slots>>

Lost ==
    /\ At("losing")
    /\ Becomes("RESET", "IDLE")
    /\ pc' = "schedule"
    /\ UNCHANGED <<host, irq, isr, regs, rstCnt, slots>>

Idle ==
    /\ Branch("IDLE")
    /\ pc' = "schedule"
    /\ UNCHANGED <<host, irq, isr, status, overwritten, regs, rstCnt, slots>>
-----------------------------------------------------------------------------
(* RUNNING: a command, if there is one. *)

Command(s, kind) ==
    /\ Branch("RUNNING")
    /\ slots[s] = kind
    /\ rstCnt' = 0
    /\ UNCHANGED <<host, irq, isr, status, overwritten, adminQ>>

(* set_auto_nvme_cpl, set_nvme_slot_release *)
Answer(s) == slots' = [slots EXCEPT ![s] = "free"]

(* ASSERT is a loop for ever; nothing was changed before it. *)
Assert == pc' = "stopped" /\ UNCHANGED <<io, cacheEn, slots>>

(* An admin command that is answered. *)
Done(s) == pc' = "schedule" /\ Answer(s)

(* handle_set_features: the volatile write cache; the number of queues is  *)
(* only kept to be told again.  An unknown feature is an ASSERT.           *)
HandleSetFeatures(s) ==
    \/ Done(s) /\ cacheEn' \in BOOLEAN /\ UNCHANGED io
    \/ Assert

(* handle_create_io_cq, handle_create_io_sq, handle_delete_io_cq,          *)
(* handle_delete_io_sq; numbers, sizes and addresses of a new queue are    *)
(* asserted.                                                               *)
HandleIoQueue(s) ==
    \/ /\ Done(s)
       /\ \E q \in Queues : io' \in {[io EXCEPT !.sq = @ \cup {q}], [io EXCEPT !.sq = @ \ {q}],
                                     [io EXCEPT !.cq = @ \cup {q}], [io EXCEPT !.cq = @ \ {q}]}
       /\ UNCHANGED cacheEn
    \/ Assert

(* handle_get_features, handle_identify: what they do not know, an ASSERT. *)
HandleGetFeatures(s) == (Done(s) /\ UNCHANGED <<io, cacheEn>>) \/ Assert
HandleIdentify(s) == (Done(s) /\ UNCHANGED <<io, cacheEn>>) \/ Assert

(* handle_get_log_page; an abort, an event request (which only gives its   *)
(* slot back) or an unknown command.                                       *)
HandleReport(s) == Done(s) /\ UNCHANGED <<io, cacheEn>>

(* A completion without the slot: security receive and doorbell buffers.   *)
SetNvmeCpl(s) ==
    /\ slots' = [slots EXCEPT ![s] = "kept"]
    /\ pc' = "schedule"
    /\ UNCHANGED <<io, cacheEn>>

(* handle_nvme_admin_cmd *)
AdminCommand(s) ==
    /\ Command(s, "admin")
    /\ \/ HandleSetFeatures(s) \/ HandleGetFeatures(s) \/ HandleIoQueue(s)
       \/ HandleIdentify(s) \/ HandleReport(s) \/ SetNvmeCpl(s)

(* handle_nvme_io_read, handle_nvme_io_write: flash is read first, or the  *)
(* transfer can begin.                                                     *)
HandleNvmeIo(s) ==
    \/ slots' = [slots EXCEPT ![s] = "flash"]
    \/ slots' = [slots EXCEPT ![s] = "dma"]

(* handle_nvme_io_cmd; the other commands are answered when they are done. *)
(* No scheduling in this turn.  An unknown command, a block or an address  *)
(* out of range is an ASSERT; a wait for the flash inside a command may    *)
(* never end (ReqSched, CxlSsd), and the loop stops in it likewise.        *)
IoCommand(s) ==
    /\ Command(s, "io")
    /\ \/ /\ pc' = "top"
          /\ HandleNvmeIo(s) \/ Answer(s)
          /\ UNCHANGED <<io, cacheEn>>
       \/ Assert

NoCommand ==
    /\ Branch("RUNNING")
    /\ \A s \in Slots : slots[s] \notin {"admin", "io"}
    /\ pc' = "schedule"
    /\ UNCHANGED <<host, irq, isr, status, overwritten, regs, rstCnt, slots>>

(* A mutation: one request is looked for, always the first. *)
FirstScheduled ==
    IF \E s \in Slots : slots[s] = "read"
    THEN [slots EXCEPT ![CHOOSE s \in Slots : slots[s] = "read"] = "dma"]
    ELSE slots

(* CheckDoneNvmeDmaReq and SchedulingNandReq: what was read goes out.      *)
Scheduled == [s \in Slots |-> IF slots[s] = "read" THEN "dma" ELSE slots[s]]

Schedule ==
    /\ At("schedule")
    /\ slots' = Scheduled
    /\ pc' = "top"
    /\ UNCHANGED <<host, irq, isr, status, overwritten, regs, rstCnt>>
-----------------------------------------------------------------------------
(* main enables the interrupts before the loop begins. *)
Init ==
    /\ link = FALSE
    /\ cc = [en |-> FALSE, shn |-> FALSE]
    /\ csts = [rdy |-> FALSE, shst |-> 0]
    /\ irq = {}
    /\ isr = {}
    /\ status = "IDLE"
    /\ pc = "top"
    /\ overwritten = FALSE
    /\ adminQ = FALSE
    /\ io = NoQueues
    /\ cacheEn = FALSE
    /\ rstCnt = 0
    /\ slots = [s \in Slots |-> "free"]

Loop ==
    \/ Idle \/ NoCommand \/ Schedule
    \/ WaitCcEn \/ Enable \/ Enabled
    \/ Shutdown \/ ShutQueues \/ Shut
    \/ WaitReset \/ ResetCsts \/ ResetQueues
    \/ LinkLost \/ LostCsts \/ Lost
    \/ \E s \in Slots : AdminCommand(s) \/ IoCommand(s)

Handler == EnterIrq \/ \E k \in DOMAIN Events : HandleEvent(k)

Hardware(s) == PageRead(s) \/ AutoCompletion(s)

Next ==
    \/ Loop
    \/ Handler
    \/ HostSetsCc
    \/ LinkLoss
    \/ LinkUp
    \/ \E s \in Slots : TakeCommand(s) \/ Hardware(s)

(* The handler and the hardware finish; the interrupts, of which the host  *)
(* may cause any number, leave the loop time to go on.  A loop that has    *)
(* stopped has no step and is asked for none.                              *)
Fairness ==
    /\ WF_vars(Handler)
    /\ SF_vars(Loop)
    /\ \A s \in Slots : WF_vars(Hardware(s))

Spec == Init /\ [][Next]_vars
FairSpec == Spec /\ Fairness
-----------------------------------------------------------------------------
(* With no event left to handle, between two turns of the loop, the status *)
(* is one that fits what the host asks for and what it has been told: the  *)
(* one word that handler and loop both write has not lost an event, unless *)
(* the loop overwrote it.                                                  *)
StatusFollowsHost ==
    pc = "top" /\ irq = {} /\ isr = {} /\ ~overwritten =>
        CASE cc.en /\ cc.shn -> status \in {"SHUTDOWN", "WAIT_RESET"}
          [] cc.en /\ ~cc.shn -> /\ status \in {"WAIT_CC_EN", "RUNNING"}
                                 /\ status = "RUNNING" => csts.rdy
          [] OTHER -> status \in {"IDLE", "WAIT_RESET", "RESET", "SHUTDOWN"}

(* When the controller becomes ready, nothing of the session before is     *)
(* left: no I/O queue is valid, and the cache is as after power-up.        *)
SessionsFresh ==
    [][~csts.rdy /\ csts'.rdy /\ pc = "enable" => io = NoQueues /\ ~cacheEn]_vars

Stopped == pc = "stopped"

(* A host that enables, disables or shuts down the controller and waits is *)
(* answered, unless its request was overwritten or the loop has stopped in *)
(* a command or at the end of a shutdown.                                  *)
Honoured ==
    /\ cc.en ~> csts.rdy \/ ~cc.en \/ cc.shn \/ overwritten \/ Stopped
    /\ ~cc.en ~> ~csts.rdy \/ cc.en \/ overwritten \/ Stopped
    /\ cc.shn ~> csts.shst = 2 \/ ~cc.shn \/ ~cc.en \/ overwritten \/ Stopped

(* What the loop has taken is answered at some time, however many commands *)
(* are taken and answered in other slots meanwhile: it is enough that some *)
(* turn without an I/O command comes again and again.                      *)
Answered ==
    []<>(pc = "schedule") =>
        \A s \in Slots : slots[s] \in {"flash", "read", "dma"} ~> slots[s] = "free"
=============================================================================
