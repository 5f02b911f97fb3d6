------------------------------ MODULE HostDma ------------------------------
(***************************************************************************)
(* Host DMA: the two automatic DMA FIFOs of nvme/host_lld.c, and the       *)
(* requests request_transform.c feeds them.  A request moves               *)
(* numOfNvmeBlock blocks between the host and one data buffer entry; it    *)
(* remembers the FIFO's tail and overflow count after its last block, and  *)
(* CheckDoneNvmeDmaReq compares them with the hardware's head to tell      *)
(* whether the request is done.  A request on an entry that an earlier     *)
(* request holds waits in the entry's chain until that one is done.        *)
(*                                                                         *)
(* The firmware is sequential: it issues one request, or walks the queue   *)
(* of issued requests once, before it does anything else.  The hardware    *)
(* takes blocks from the FIFOs at any time in between.  The cached copy of *)
(* the head register is read again before every use, so it is no state.    *)
(***************************************************************************)
EXTENDS Naturals, SequencesExt

CONSTANTS
    FifoSize,       \* slots of a FIFO, 256: head and tail are 8 bits wide
    OverflowMod,    \* overFlowCnt is a 32-bit count
    MaxBlocks,      \* NVME_BLOCKS_PER_SLICE
    Entries,        \* the data buffer entries
    MaxRequests     \* bound: requests the host's commands ask for

ASSUME DmaSizesAssumption ==
    /\ FifoSize \in Nat \ {0, 1}
    /\ OverflowMod \in Nat \ {0}
    /\ MaxBlocks \in Nat \ {0}
    /\ MaxRequests \in Nat

Dirs == {"rx", "tx"}
Kinds == Dirs \cup {"nand"}
Slots == 0 .. FifoSize - 1

VARIABLES
    fifoTail,       \* direction -> the next slot the firmware fills
    overFlowCnt,    \* direction -> how often the tail wrapped, in 32 bits
    fifoHead,       \* direction -> the next slot the hardware takes
    tailLap,        \* history: how often the tail wrapped
    headLap,        \* history: how often the head wrapped
    nvmeDmaReqQ,    \* the issued requests, oldest first
    chain,          \* entry -> the requests on it, the one that holds it first
    issuing,        \* the request whose blocks are being issued
    walk,           \* the queue position the walk visits next, 0: no walk
    done,           \* rxDone and txDone of the walk
    accepted        \* how many requests arrived

fifoVars == <<fifoTail, overFlowCnt, fifoHead, tailLap, headLap>>
reqVars == <<nvmeDmaReqQ, chain, issuing>>
vars == <<fifoVars, reqVars, walk, done, accepted>>

NoRequest == [dir |-> "none"]
NothingDone == [d \in Dirs |-> FALSE]
-----------------------------------------------------------------------------
(* Requests and the entries they hold *)

(* The request at the head of chain c is issued if it is a DMA; a NAND     *)
(* request goes to the NAND scheduler instead.                             *)
Started(e, c) ==
    IF c # <<>> /\ Head(c).kind \in Dirs
    THEN [dir |-> Head(c).kind, entry |-> e, left |-> Head(c).blocks]
    ELSE NoRequest

(* ReleaseBlockedByBufDepReq for the request that holds entry e. *)
Release(e) ==
    /\ chain' = [chain EXCEPT ![e] = Tail(@)]
    /\ issuing' = Started(e, Tail(chain[e]))

Idle == issuing = NoRequest /\ walk = 0

(* A mutation: CheckBufDep reports no dependency. *)
ArriveUnchecked(e, kind, blocks) ==
    LET req == [kind |-> kind, blocks |-> blocks] IN
    /\ Idle
    /\ accepted < MaxRequests
    /\ accepted' = accepted + 1
    /\ chain' = [chain EXCEPT ![e] = Append(@, req)]
    /\ issuing' = Started(e, <<req>>)
    /\ UNCHANGED <<fifoVars, nvmeDmaReqQ, walk, done>>

(* UpdateDataBufEntryInfoBlockingReq and SelectLowLevelReqQ: the request   *)
(* joins the chain of its entry and starts if it is alone there.           *)
Arrive(e, kind, blocks) ==
    LET req == [kind |-> kind, blocks |-> blocks] IN
    /\ Idle
    /\ accepted < MaxRequests
    /\ accepted' = accepted + 1
    /\ chain' = [chain EXCEPT ![e] = Append(@, req)]
    /\ issuing' = IF chain[e] = <<>> THEN Started(e, <<req>>) ELSE NoRequest
    /\ UNCHANGED <<fifoVars, nvmeDmaReqQ, walk, done>>
-----------------------------------------------------------------------------
(* Issuing *)

(* A mutation: the FIFO is filled without a look at the head. *)
FullTooLate(d) == FALSE

(* A mutation: an empty FIFO is taken for a full one. *)
FullWhenEmpty(d) == fifoTail[d] = fifoHead[d]

(* The spin of set_auto_tx_dma and set_auto_rx_dma. *)
Full(d) == (fifoTail[d] + 1) % FifoSize = fifoHead[d]

(* A mutation: the tail does not wrap. *)
NextSlotUnwrapped(i) == i + 1

(* The 8-bit increment of a FIFO index. *)
NextSlot(i) == (i + 1) % FifoSize

(* One block goes into the FIFO, and after the last one the request joins  *)
(* the queue with the tail and the overflow count it will be checked by.   *)
IssueBlock ==
    /\ issuing # NoRequest
    /\ LET d == issuing.dir
           tail == NextSlot(fifoTail[d])
           wrapped == tail < fifoTail[d]
       IN  /\ ~ Full(d)
           /\ fifoTail' = [fifoTail EXCEPT ![d] = tail]
           /\ overFlowCnt' = [overFlowCnt EXCEPT ![d] =
                                 IF wrapped THEN (@ + 1) % OverflowMod ELSE @]
           /\ tailLap' = [tailLap EXCEPT ![d] = IF wrapped THEN @ + 1 ELSE @]
           /\ IF issuing.left = 1
              THEN /\ nvmeDmaReqQ' =
                          Append(nvmeDmaReqQ,
                                 [dir |-> d, entry |-> issuing.entry,
                                  reqTail |-> tail,
                                  overFlowCnt |-> overFlowCnt'[d],
                                  lap |-> tailLap'[d]])
                   /\ issuing' = NoRequest
              ELSE /\ issuing' = [issuing EXCEPT !.left = @ - 1]
                   /\ UNCHANGED nvmeDmaReqQ
    /\ UNCHANGED <<fifoHead, headLap, chain, walk, done, accepted>>

(* The hardware has moved a block. *)
HwDone(d) ==
    /\ fifoHead[d] # fifoTail[d]
    /\ fifoHead' = [fifoHead EXCEPT ![d] = NextSlot(@)]
    /\ headLap' = [headLap EXCEPT ![d] =
                      IF NextSlot(fifoHead[d]) < fifoHead[d] THEN @ + 1 ELSE @]
    /\ UNCHANGED <<fifoTail, overFlowCnt, tailLap, reqVars, walk, done, accepted>>
-----------------------------------------------------------------------------
(* Checking *)

(* A mutation: the overflow count is not looked at where head and tail     *)
(* both lie behind the request's tail.                                     *)
PartialDoneNoOverflow(r) ==
    LET h == fifoHead[r.dir]
        t == fifoTail[r.dir]
        cnt == overFlowCnt[r.dir]
    IN  \/ h = t
        \/ h < r.reqTail /\ t < r.reqTail /\ t > h
        \/ h < r.reqTail /\ t >= r.reqTail /\ cnt # r.overFlowCnt
        \/ h = r.reqTail
        \/ h > r.reqTail /\ (t < r.reqTail \/ t > h)

(* check_auto_tx_dma_partial_done and its rx twin. *)
PartialDone(r) ==
    LET h == fifoHead[r.dir]
        t == fifoTail[r.dir]
        cnt == overFlowCnt[r.dir]
    IN  \/ h = t
        \/ /\ h < r.reqTail /\ t < r.reqTail
           /\ t > h \/ cnt # (r.overFlowCnt + 1) % OverflowMod
        \/ h < r.reqTail /\ t >= r.reqTail /\ cnt # r.overFlowCnt
        \/ h = r.reqTail
        \/ /\ h > r.reqTail
           /\ t < r.reqTail \/ t > h \/ cnt # r.overFlowCnt

(* The task loop calls CheckDoneNvmeDmaReq, and so does the allocation of  *)
(* a request while the pool is empty.                                      *)
StartCheck ==
    /\ Idle
    /\ nvmeDmaReqQ # <<>>
    /\ walk' = Len(nvmeDmaReqQ)
    /\ done' = NothingDone
    /\ UNCHANGED <<fifoVars, reqVars, accepted>>

(* One step of the walk, from the newest request to the oldest: once a     *)
(* request is found done, the older ones of its direction are taken for    *)
(* done without a look at the FIFO.                                        *)
CheckReq ==
    /\ issuing = NoRequest
    /\ walk > 0
    /\ LET r == nvmeDmaReqQ[walk]
           isDone == done[r.dir] \/ PartialDone(r)
       IN  /\ done' = IF walk = 1 THEN NothingDone
                      ELSE [done EXCEPT ![r.dir] = isDone]
           /\ IF isDone
              THEN /\ nvmeDmaReqQ' = RemoveAt(nvmeDmaReqQ, walk)
                   /\ Release(r.entry)
              ELSE UNCHANGED reqVars
    /\ walk' = walk - 1
    /\ UNCHANGED <<fifoVars, accepted>>

(* The NAND scheduler finds the NAND request that holds entry e complete.  *)
NandDone(e) ==
    /\ Idle
    /\ chain[e] # <<>>
    /\ Head(chain[e]).kind = "nand"
    /\ Release(e)
    /\ UNCHANGED <<fifoVars, nvmeDmaReqQ, walk, done, accepted>>
-----------------------------------------------------------------------------
Init ==
    /\ fifoTail = [d \in Dirs |-> 0]
    /\ overFlowCnt = [d \in Dirs |-> 0]
    /\ fifoHead = [d \in Dirs |-> 0]
    /\ tailLap = [d \in Dirs |-> 0]
    /\ headLap = [d \in Dirs |-> 0]
    /\ nvmeDmaReqQ = <<>>
    /\ chain = [e \in Entries |-> <<>>]
    /\ issuing = NoRequest
    /\ walk = 0
    /\ done = NothingDone
    /\ accepted = 0

Next ==
    \/ \E e \in Entries, kind \in Kinds, n \in 1 .. MaxBlocks :
           Arrive(e, kind, n)
    \/ IssueBlock
    \/ StartCheck
    \/ CheckReq
    \/ \E e \in Entries : NandDone(e)
    \/ \E d \in Dirs : HwDone(d)

Spec == Init /\ [][Next]_vars

(* The hardware empties its FIFOs; issuing and the walk run to their end;  *)
(* the task loop comes back to CheckDoneNvmeDmaReq and to the NAND         *)
(* scheduler, between which it may do other things first.                  *)
FairSpec ==
    /\ Spec
    /\ \A d \in Dirs : WF_vars(HwDone(d))
    /\ WF_vars(IssueBlock)
    /\ WF_vars(CheckReq)
    /\ SF_vars(StartCheck)
    /\ \A e \in Entries : SF_vars(NandDone(e))
-----------------------------------------------------------------------------
IssuedReqs == [dir : Dirs, entry : Entries, reqTail : Slots,
               overFlowCnt : 0 .. OverflowMod - 1, lap : Nat]

TypeOK ==
    /\ fifoTail \in [Dirs -> Slots]
    /\ overFlowCnt \in [Dirs -> 0 .. OverflowMod - 1]
    /\ fifoHead \in [Dirs -> Slots]
    /\ tailLap \in [Dirs -> Nat]
    /\ headLap \in [Dirs -> Nat]
    /\ nvmeDmaReqQ \in Seq(IssuedReqs)
    /\ chain \in [Entries -> Seq([kind : Kinds, blocks : 1 .. MaxBlocks])]
    /\ issuing \in [dir : Dirs, entry : Entries, left : 1 .. MaxBlocks]
                       \cup {NoRequest}
    /\ walk \in 0 .. Len(nvmeDmaReqQ)
    /\ done \in [Dirs -> BOOLEAN]
    /\ accepted \in 0 .. MaxRequests

Queued == {nvmeDmaReqQ[k] : k \in DOMAIN nvmeDmaReqQ}

(* The hardware has taken every block of request r. *)
Finished(r) ==
    \/ r.lap < headLap[r.dir]
    \/ r.lap = headLap[r.dir] /\ r.reqTail <= fifoHead[r.dir]

(* Comparing 8-bit indices and the overflow count decides exactly whether  *)
(* the hardware has taken a request's blocks, wherever head and tail have  *)
(* wrapped to, as long as the overflow count itself has not wrapped.       *)
PartialDoneExact == \A r \in Queued : PartialDone(r) <=> Finished(r)

(* CheckDoneNvmeDmaReq retires no request that the hardware still works    *)
(* on: its buffer entry would go to the next request, and the host's data  *)
(* would be lost or replaced.                                              *)
RetiredWhenDone ==
    [][\A r \in Queued : r \notin Queued' => Finished(r)]_vars

Active(e) == issuing # NoRequest /\ issuing.entry = e

(* Two issued transfers never share a buffer entry, and the one that holds *)
(* an entry is the first of the entry's chain.                             *)
EntryHeldOnce ==
    /\ \A j, k \in DOMAIN nvmeDmaReqQ :
           nvmeDmaReqQ[j].entry = nvmeDmaReqQ[k].entry => j = k
    /\ \A r \in Queued : ~ Active(r.entry)
    /\ \A r \in Queued :
           chain[r.entry] # <<>> /\ Head(chain[r.entry]).kind = r.dir

(* A DMA request at the head of a chain is being issued or is issued: no   *)
(* release, in the middle of the walk or out of the NAND scheduler,        *)
(* forgets the request it lets go.                                         *)
HolderIsActive ==
    \A e \in Entries :
        chain[e] # <<>> /\ Head(chain[e]).kind \in Dirs
            => Active(e) \/ \E r \in Queued : r.entry = e

(* The transfers and the chains agree on who holds an entry. *)
EntriesHeld == EntryHeldOnce /\ HolderIsActive

(* Every request on an entry is done in the end, once the host stops       *)
(* sending: a full FIFO drains, a done request is recognised, and the      *)
(* requests behind it are released.                                        *)
EntryFreedInTheEnd == \A e \in Entries : chain[e] # <<>> ~> chain[e] = <<>>
=============================================================================
