------------------------------ MODULE ReqSched ------------------------------
(***************************************************************************)
(* The low-level request scheduler: the request pool and its queues        *)
(* (request_allocation.c), the buffer and row address dependencies         *)
(* (request_transform.c, data_buffer.c) and the loops that wait for them   *)
(* (request_schedule.c).                                                   *)
(*                                                                         *)
(* The firmware is one thread.  A call of the upper layers hands down a    *)
(* few requests in order, the variable work; handing one down may wait,    *)
(* and the wait loops run the scheduler.  Between calls the main loop runs *)
(* it.  The host DMA engine and the flash ways finish what they were given *)
(* at any time; the scheduler then completes the request and releases      *)
(* those that waited for it.  What a way does with the request at the      *)
(* head of its queue is one step here.                                     *)
(*                                                                         *)
(* Which free tag is taken and the order of the buffer-blocked queue are   *)
(* not observable: both are sets.                                          *)
(***************************************************************************)
EXTENDS Integers, FiniteSets, SequencesExt

CONSTANTS
    NumTags,        \* AVAILABLE_OUNTSTANDING_REQ_COUNT
    Ways,           \* the flash ways (of all channels)
    BlockList,      \* way -> its blocks
    NumPages,       \* USER_PAGES_PER_BLOCK
    Bufs,           \* data buffer entries
    Calls,          \* what the upper layers do, see CallKinds
    QueueDepth,     \* the slices the host has under way
    Overtaking      \* a request may overtake the blocked erase of its block

DmaCodes == {"RxDMA", "TxDMA"}

(* Accesses to a slice in the buffer, or not in it and without or with a   *)
(* read from flash, by direction; CXL loads; those of a slice that the     *)
(* load's own eviction moves; and what log compaction does with a page in  *)
(* the buffer and with one that is not.                                    *)
CallKinds == ({"hit", "miss", "fill"} \X DmaCodes) \cup ({"load"} \X {"", "stale"})
                 \cup ({"flush", "page"} \X {""})

ASSUME ReqSizesAssumption ==
    /\ NumTags \in Nat \ {0}
    /\ NumPages \in Nat \ {0}
    /\ QueueDepth \in Nat
    /\ Overtaking \in BOOLEAN
    /\ Calls \subseteq CallKinds

Blocks == UNION {Range(BlockList[w]) : w \in Ways}
WayOf == [b \in Blocks |-> CHOOSE w \in Ways : b \in Range(BlockList[w])]
Tags == 1 .. NumTags
NoTag == 0                      \* REQ_SLOT_TAG_NONE
Entries == Bufs \cup Ways       \* a way has one temporary entry, for copies
NoEntry == "DATA_BUF_NONE"
NoBlock == "BLOCK_NONE"
Pages == 0 .. NumPages - 1

ASSUME ReqWaysAssumption ==
    /\ Ways \cap Bufs = {}
    /\ NoEntry \notin Ways \cup Bufs
    /\ NoBlock \notin Blocks
    /\ BlockList \in [Ways -> Seq(Blocks)]
    /\ \A w \in Ways : Len(BlockList[w]) > 1
    /\ \A w \in Ways : \A i, j \in DOMAIN BlockList[w] : BlockList[w][i] = BlockList[w][j] => i = j
    /\ \A v, w \in Ways : v # w => Range(BlockList[v]) \cap Range(BlockList[w]) = {}

VARIABLES
    sched,      \* the pool, the queues and the tables, see Init
    work,       \* the requests the running call has still to hand down
    waiting,    \* the read that waits in SyncReleaseEraseReq, or NoTag
    ftl,        \* what the upper layers keep of blocks and entries
    flash       \* block -> its contents: the erase cycle, the programmed pages

vars == <<sched, work, waiting, ftl, flash>>

(* A request, and the erase cycle of the block it is meant for.  The page  *)
(* of an erase is its programmedPageCnt.                                   *)
Request(code, e, b, p, c) == [code |-> code, entry |-> e, block |-> b, page |-> p, cycle |-> c]
Dma(code, e) == Request(code, e, NoBlock, 0, 0)
Nand(code, e, b, p) == Request(code, e, b, p, ftl.cycle[b])
NoReq == Dma("NONE", NoEntry)
Hold == Dma("HOLD", NoEntry)    \* a tag is taken for a later request
Sync == Dma("SYNC", NoEntry)    \* SyncAllLowLevelReqDone

IsDma(r) == r.code \in DmaCodes

Without(q, t) == RemoveAt(q, CHOOSE i \in DOMAIN q : q[i] = t)
-----------------------------------------------------------------------------
(* Queues.  Each operator takes the scheduler's state and returns the next.*)

PutToNandReqQ(s, t) ==
    [s EXCEPT !.nandQ[WayOf[s.req[t].block]] = Append(@, t), !.notCompleted = @ + 1]

PutToNvmeDmaReqQ(s, t) == [s EXCEPT !.dmaQ = Append(@, t)]

(* A mutation: not counted. *)
PutToBlockedByBufDepReqQUncounted(s, t) == [s EXCEPT !.bufQ = @ \cup {t}]

PutToBlockedByBufDepReqQ(s, t) ==
    [s EXCEPT !.bufQ = @ \cup {t}, !.blocked = @ + 1]

SelectiveGetFromBlockedByBufDepReqQ(s, t) ==
    [s EXCEPT !.bufQ = @ \ {t}, !.blocked = @ - 1]

PutToBlockedByRowAddrDepReqQ(s, t) ==
    [s EXCEPT !.rowQ[WayOf[s.req[t].block]] = Append(@, t), !.blocked = @ + 1]

(* A mutation: it stays counted. *)
SelectiveGetKeepsCount(s, t) ==
    [s EXCEPT !.rowQ[WayOf[s.req[t].block]] = Without(@, t)]

SelectiveGetFromBlockedByRowAddrDepReqQ(s, t) ==
    [s EXCEPT !.rowQ[WayOf[s.req[t].block]] = Without(@, t), !.blocked = @ - 1]
-----------------------------------------------------------------------------
(* Row address dependencies of one block. *)

(* A mutation: a page may be read while it is programmed. *)
RowAddrPassEarly(s, t) ==
    LET r == s.req[t] IN
    \/ r.code = "READ" /\ r.page <= s.permitted[r.block]
    \/ r.code \in {"WRITE", "ERASE"} /\ r.page = s.permitted[r.block]

(* The block's table lets the request of t go. *)
RowAddrPass(s, t) ==
    LET r == s.req[t] IN
    \/ r.code = "READ" /\ r.page < s.permitted[r.block]
    \/ r.code = "WRITE" /\ r.page = s.permitted[r.block]
    \/ /\ r.code = "ERASE"
       /\ r.page = s.permitted[r.block]
       /\ s.blockedReads[r.block] = 0

(* The table after a program or an erase was let go. *)
RowAddrGo(s, t) ==
    LET b == s.req[t].block IN
    CASE s.req[t].code = "WRITE" -> [s EXCEPT !.permitted[b] = @ + 1]
      [] s.req[t].code = "ERASE" -> [s EXCEPT !.permitted[b] = 0, !.eraseFlag[b] = FALSE]
      [] OTHER -> s

(* The table after a read that had been blocked is let go. *)
RowAddrRelease(s, t) ==
    IF s.req[t].code = "READ"
    THEN [s EXCEPT !.blockedReads[s.req[t].block] = @ - 1]
    ELSE RowAddrGo(s, t)

(* The table after a request was blocked, by either dependency. *)
RowAddrBlock(s, t) ==
    LET b == s.req[t].block IN
    CASE s.req[t].code = "READ" -> [s EXCEPT !.blockedReads[b] = @ + 1]
      [] s.req[t].code = "ERASE" -> [s EXCEPT !.eraseFlag[b] = TRUE]
      [] OTHER -> s

(* CheckRowAddrDep with ..._OPT_SELECT, and the queue that follows from it.*)
SelectByRowAddr(s, t) ==
    IF RowAddrPass(s, t)
    THEN PutToNandReqQ(RowAddrGo(s, t), t)
    ELSE PutToBlockedByRowAddrDepReqQ(RowAddrBlock(s, t), t)

(* The same with ..._OPT_RELEASE. *)
ReleaseByRowAddr(s, t) ==
    IF RowAddrPass(s, t)
    THEN PutToNandReqQ(RowAddrRelease(s, t), t)
    ELSE PutToBlockedByRowAddrDepReqQ(s, t)

(* A blocked request of the way is let go when the table lets it. *)
Release(s, t) ==
    IF RowAddrPass(s, t)
    THEN PutToNandReqQ(SelectiveGetFromBlockedByRowAddrDepReqQ(RowAddrRelease(s, t), t), t)
    ELSE s

(* The way's blocked queue is walked once, head first. *)
ReleaseBlockedByRowAddrDepReq(s, w) == FoldLeft(Release, s, s.rowQ[w])
-----------------------------------------------------------------------------
(* Buffer dependencies: the requests of an entry form a chain. *)

UpdateDataBufEntryInfoBlockingReq(s, t) ==
    LET e == s.req[t].entry IN
    CASE e = NoEntry -> s
      [] e # NoEntry /\ s.tail[e] = NoTag -> [s EXCEPT !.tail[e] = t]
      [] OTHER -> [s EXCEPT !.prevBlocking[t] = s.tail[e],
                            !.nextBlocking[s.tail[e]] = t,
                            !.tail[e] = t]

SelectLowLevelReqQ(s, t) ==
    IF s.prevBlocking[t] = NoTag
    THEN IF IsDma(s.req[t]) THEN PutToNvmeDmaReqQ(s, t) ELSE SelectByRowAddr(s, t)
    ELSE PutToBlockedByBufDepReqQ(RowAddrBlock(s, t), t)

(* A mutation: the tail is cleared whoever it is. *)
ReleaseAnyTail(s, t) ==
    LET e == s.req[t].entry IN
    IF e # NoEntry THEN [s EXCEPT !.tail[e] = NoTag] ELSE s

(* The tail an entry is left with when t completes. *)
ReleaseTail(s, t) ==
    LET e == s.req[t].entry IN
    IF e # NoEntry /\ s.tail[e] = t THEN [s EXCEPT !.tail[e] = NoTag] ELSE s

(* The successor of t in the chain becomes its head. *)
CutOff(s, t) ==
    LET target == s.nextBlocking[t] IN
    IF target = NoTag THEN s
    ELSE [s EXCEPT !.prevBlocking[target] = NoTag, !.nextBlocking[t] = NoTag]

ReleaseBlockedByBufDepReq(s, t) ==
    LET target == s.nextBlocking[t]
        free == ReleaseTail(CutOff(s, t), t)
        out == SelectiveGetFromBlockedByBufDepReqQ(free, target)
    IN  CASE target = NoTag \/ target \notin free.bufQ -> free
          [] target \in free.bufQ /\ IsDma(s.req[target]) -> PutToNvmeDmaReqQ(out, target)
          [] OTHER -> ReleaseByRowAddr(out, target)

(* The end of a request: its tag is free, its successor released. *)
Complete(s, t) ==
    [ReleaseBlockedByBufDepReq([s EXCEPT !.free = @ \cup {t}], t) EXCEPT !.req[t] = NoReq]
-----------------------------------------------------------------------------
(* The firmware hands requests down, and waits. *)

Idle == work = <<>> /\ waiting = NoTag

(* SyncAllLowLevelReqDone runs: it calls SchedulingNandReq only. *)
Syncing == waiting = NoTag /\ work # <<>> /\ Head(work) = Sync

(* Every other loop that runs the scheduler looks at the DMA engine too.   *)
PollsDma == ~Syncing

(* A read of a block whose erase is blocked waits for the erase first. *)
MustWait(s, t) == s.req[t].code = "READ" /\ s.eraseFlag[s.req[t].block]

(* A slice has its tag from the start, and that of an eviction is taken    *)
(* before garbage collection.                                              *)
HasTag(r) == IsDma(r) \/ (r.code = "WRITE" /\ r.entry \in Bufs)

(* The tag a request gets, and the state in which it has it. *)
TagFor(s, r) == IF HasTag(r) THEN Last(s.held) ELSE Min(s.free)

Take(s, r) ==
    LET t == TagFor(s, r) IN
    IF HasTag(r) THEN [s EXCEPT !.held = Front(@), !.req[t] = r]
    ELSE [s EXCEPT !.free = @ \ {t}, !.req[t] = r]

(* A request gets its tag and joins its entry's chain.  Nothing more is    *)
(* handed down while an earlier one, or the want of a tag, waits.          *)
HandDown(a, r) ==
    LET s == a.sched
        t == TagFor(s, r)
        got == Take(s, r)
        chained == UpdateDataBufEntryInfoBlockingReq(got, t)
    IN  CASE a.work # <<>> \/ a.waiting # NoTag \/ r = Sync \/ (~HasTag(r) /\ s.free = {})
             -> [a EXCEPT !.work = Append(@, r)]
          [] OTHER
             -> CASE r = Hold -> [a EXCEPT !.sched = [got EXCEPT !.held = Append(@, t)]]
                  [] r # Hold /\ MustWait(chained, t)
                       -> [a EXCEPT !.sched = chained, !.waiting = t]
                  [] OTHER -> [a EXCEPT !.sched = SelectLowLevelReqQ(chained, t)]

(* A call runs, from scheduler state s, until it waits or is over. *)
Run(s, reqs) ==
    LET a == FoldLeft(HandDown, [sched |-> s, waiting |-> NoTag, work |-> <<>>], reqs)
    IN  /\ sched' = a.sched
        /\ waiting' = a.waiting
        /\ work' = a.work

(* SyncAvailFreeReq returns. *)
HasTagFreed == waiting = NoTag /\ work # <<>> /\ Head(work) # Sync /\ sched.free # {}
TagFreed ==
    /\ HasTagFreed
    /\ Run(sched, work)
    /\ UNCHANGED <<ftl, flash>>

(* SyncReleaseEraseReq returns; the buffer dependency is looked at again.  *)
HasEraseReleased == waiting # NoTag /\ ~sched.eraseFlag[sched.req[waiting].block]
EraseReleased ==
    /\ HasEraseReleased
    /\ Run(SelectLowLevelReqQ(sched, waiting), work)
    /\ UNCHANGED <<ftl, flash>>

(* SyncAllLowLevelReqDone returns. *)
AllDone ==
    /\ Syncing
    /\ sched.notCompleted = 0
    /\ sched.blocked = 0
    /\ Run(sched, Tail(work))
    /\ UNCHANGED <<ftl, flash>>
-----------------------------------------------------------------------------
(* The scheduler. *)

(* The queue is left, the request ends. *)
SelectiveGetFromNvmeDmaReqQ(s, t) == Complete([s EXCEPT !.dmaQ = Without(@, t)], t)

(* One request of the walk; done are those the engine reports as done.     *)
WalkDma(a, t) ==
    IF t \in a.done THEN [a EXCEPT !.sched = SelectiveGetFromNvmeDmaReqQ(@, t)] ELSE a

(* CheckDoneNvmeDmaReq: each direction is done with a few of its oldest.   *)
(* The queue is walked from its tail.                                      *)
DmaDone(done) ==
    /\ PollsDma
    /\ done # {}
    /\ \A i, j \in DOMAIN sched.dmaQ :
           /\ i < j
           /\ sched.req[sched.dmaQ[i]].code = sched.req[sched.dmaQ[j]].code
           /\ sched.dmaQ[j] \in done
           => sched.dmaQ[i] \in done
    /\ sched' = FoldLeft(WalkDma, [sched |-> sched, done |-> done], Reverse(sched.dmaQ)).sched
    /\ UNCHANGED <<work, waiting, ftl, flash>>

(* What the request does to its block. *)
Effect(r) ==
    CASE r.code = "WRITE" -> [flash EXCEPT ![r.block] = [cycle |-> r.cycle, pages |-> r.page + 1]]
      [] r.code = "ERASE" -> [flash EXCEPT ![r.block] = [cycle |-> 1 - r.cycle, pages |-> 0]]
      [] OTHER -> flash

(* A mutation: the blocked requests wait for a busy way. *)
LooksWhenBusy(s, w) == s.nandQ[w] # <<>>

LooksAtBlocked(s, w) == s.nandQ[w] = <<>>

(* GetFromNandReqQ, and a look at the blocked requests of a way that has   *)
(* nothing else to do.                                                     *)
NandDone(w) ==
    /\ sched.nandQ[w] # <<>>
    /\ LET t == Head(sched.nandQ[w])
           got == [sched EXCEPT !.nandQ[w] = Tail(@), !.notCompleted = @ - 1]
           s == Complete(got, t)
       IN /\ sched' = IF LooksAtBlocked(s, w) THEN ReleaseBlockedByRowAddrDepReq(s, w) ELSE s
          /\ flash' = Effect(sched.req[t])
    /\ UNCHANGED <<work, waiting, ftl>>
-----------------------------------------------------------------------------
(* Calls of the upper layers, with what they keep (see FtlMap). *)

(* Below, f is what the upper layers keep. *)

CurrentFull(f, w) == f.currentPage[f.current[w]] = NumPages

(* The head of the way's free list becomes its current block. *)
Taken(f, w) ==
    [f EXCEPT !.current[w] = Head(f.freeBlocks[w]), !.freeBlocks[w] = Tail(@)]

(* The next slice of the current block is given to a write from entry e.   *)
WriteSlice(f, w, e) == Nand("WRITE", e, f.current[w], f.currentPage[f.current[w]])
Used(f, w) == [f EXCEPT !.currentPage[f.current[w]] = @ + 1]

(* EraseBlock: the block joins the free list at once. *)
EraseReq(b) == Nand("ERASE", NoEntry, b, ftl.currentPage[b])
Erased(f, b) ==
    [f EXCEPT !.currentPage[b] = 0, !.cycle[b] = 1 - @, !.freeBlocks[WayOf[b]] = Append(@, b)]

(* A valid slice of the victim is read to the way's temporary entry and    *)
(* written to the reserved block.                                          *)
CopySlice(c, p) ==
    [c EXCEPT !.reqs = @ \o <<Nand("READ", c.way, c.victim, p), WriteSlice(c.next, c.way, c.way)>>,
              !.next = Used(@, c.way)]

(* The valid slices of a victim: some of its pages, in order. *)
ValidSlices == UNION {{s \in [1 .. n -> Pages] : \A i, j \in 1 .. n : i < j => s[i] < s[j]} :
                        n \in 1 .. NumPages - 1}

Copies(w, b, s) ==
    FoldLeft(CopySlice, [way |-> w, victim |-> b, reqs |-> <<>>, next |-> Taken(ftl, w)], s)

(* The victim is erased, after what c has requested. *)
Freed(c, b) == [reqs |-> Append(c.reqs, EraseReq(b)), next |-> Erased(c.next, b)]

(* GarbageCollection of a victim with no valid slice or with some.  (That  *)
(* the current block is no victim without valid slices is the restriction  *)
(* KeepsCurrentBlock of FtlMap.)                                           *)
Collections(w) ==
    LET victims == {b \in Blocks : WayOf[b] = w /\ ftl.currentPage[b] = NumPages}
    IN  {Freed([reqs |-> <<>>, next |-> ftl], b) : b \in victims \ {ftl.current[w]}}
        \cup {Freed(Copies(w, b, s), b) : b \in victims, s \in ValidSlices}

(* FindFreeVirtualSlice for a write from entry e: the current block, a     *)
(* free one beyond the reserve, or what garbage collection makes room for. *)
(* An eviction has its tag by then, a write from no entry takes it after.  *)
Writes(w, e) ==
    LET tag == IF e = NoEntry THEN <<>> ELSE <<Hold>>
        Write(reqs, f) ==
            LET g == IF CurrentFull(f, w) THEN Taken(f, w) ELSE f
            IN  [reqs |-> Append(reqs, WriteSlice(g, w, e)), next |-> Used(g, w)]
    IN  IF ~CurrentFull(ftl, w) \/ Len(ftl.freeBlocks[w]) > 1
        THEN {Write(tag, ftl)}
        ELSE {Write(tag \o c.reqs, c.next) : c \in Collections(w)}

(* The exclusion Overtaking = FALSE makes.  A block is free, and may be    *)
(* written and collected again, while its erase is blocked until an        *)
(* earlier program or read of it; a write to the page that program waits   *)
(* for, or a second erase, may be let go first.                            *)
Overtakes(r) ==
    /\ r.code \in {"WRITE", "ERASE"}
    /\ sched.eraseFlag[r.block]
    /\ r.code = "WRITE" => r.page >= sched.permitted[r.block]

(* AddrTransWrite chooses the way. *)
AllowedWrites(e) ==
    {ev \in UNION {Writes(w, e) : w \in Ways} :
        Overtaking \/ \A k \in DOMAIN ev.reqs : ~Overtakes(ev.reqs[k])}

(* EvictDataBufEntry: a write if the entry is dirty. *)
Evictions(e) ==
    IF ftl.dirty[e] THEN AllowedWrites(e) ELSE {[reqs |-> <<>>, next |-> ftl]}

(* The reads of some slice into entry e, at its place in f. *)
Reads(f, e) ==
    {Request("READ", e, v[1], v[2], f.cycle[v[1]]) :
        v \in {u \in Blocks \X Pages : u[2] < f.currentPage[u[1]]}}

(* The host sends another command. *)
HostMay == Cardinality({t \in Tags : IsDma(sched.req[t])}) < QueueDepth

(* ReqTransSliceToLowLevel, the slice is in entry e. *)
SliceHit(e, c) ==
    /\ Idle
    /\ HostMay
    /\ <<"hit", c>> \in Calls
    /\ Run(sched, <<Hold, Dma(c, e)>>)
    /\ ftl' = [ftl EXCEPT !.dirty[e] = @ \/ c = "RxDMA"]
    /\ UNCHANGED flash

(* The slice is in no entry, and e is evicted for it.  The slice is read   *)
(* unless all of it is to be written or it was never written before.       *)
SliceMiss(e, c) ==
    /\ Idle
    /\ HostMay
    /\ \E ev \in Evictions(e) :
        /\ \E fill \in {<<>>} \cup {<<r>> : r \in Reads(ev.next, e)} :
            /\ <<IF fill = <<>> THEN "miss" ELSE "fill", c>> \in Calls
            /\ Run(sched, <<Hold>> \o ev.reqs \o fill \o <<Dma(c, e)>>)
        /\ ftl' = [ev.next EXCEPT !.dirty[e] = (c = "RxDMA")]
    /\ UNCHANGED flash

(* The slice that r reads is moved by the garbage collection of ev. *)
Moved(r, ev) == \E k \in DOMAIN ev.reqs :
    ev.reqs[k].code = "READ" /\ ev.reqs[k].block = r.block /\ ev.reqs[k].page = r.page

(* ReadNandPageAndLoadToDataCache, a CXL load; the entry is dirty after it *)
(* if lines of the log were merged into it.  The slice's place is looked   *)
(* up before the eviction.                                                 *)
CxlLoad(e) ==
    /\ Idle
    /\ \E ev \in Evictions(e), r \in Reads(ftl, e), modified \in BOOLEAN :
        /\ ev.next.cycle[r.block] = ftl.cycle[r.block] \/ Moved(r, ev)
        /\ <<"load", IF Moved(r, ev) THEN "stale" ELSE "">> \in Calls
        /\ Run(sched, ev.reqs \o <<r, Sync>>)
        /\ ftl' = [ev.next EXCEPT !.dirty[e] = modified]
    /\ UNCHANGED flash

(* Log compaction of a page in entry e: EvictDataBufEntryForMemoryCopy.    *)
FlushEntry(e) ==
    /\ Idle
    /\ <<"flush", "">> \in Calls
    /\ \E ev \in Evictions(e) :
        /\ Run(sched, ev.reqs \o <<Sync>>)
        /\ ftl' = [ev.next EXCEPT !.dirty[e] = FALSE]
    /\ UNCHANGED flash

(* Log compaction of a page in no entry: TriggerInternalDataRead unless it *)
(* was never written, TriggerInternalDataWrite.  Neither joins a chain.    *)
(* The second alone is handle_nvme_write_page.                             *)
PageWrite ==
    /\ Idle
    /\ <<"page", "">> \in Calls
    /\ \E read \in {<<>>} \cup {<<r, Sync>> : r \in Reads(ftl, NoEntry)}, ev \in AllowedWrites(NoEntry) :
        /\ Run(sched, read \o ev.reqs \o <<Sync>>)
        /\ ftl' = ev.next
    /\ UNCHANGED flash
-----------------------------------------------------------------------------
Init ==
    /\ sched = [free |-> Tags,                          \* freeReqQ
                held |-> <<>>,                          \* taken, not in use yet
                req |-> [t \in Tags |-> NoReq],         \* reqPool
                bufQ |-> {},                            \* blockedByBufDepReqQ
                rowQ |-> [w \in Ways |-> <<>>],         \* blockedByRowAddrDepReqQ
                nandQ |-> [w \in Ways |-> <<>>],        \* nandReqQ
                dmaQ |-> <<>>,                          \* nvmeDmaReqQ
                prevBlocking |-> [t \in Tags |-> NoTag],
                nextBlocking |-> [t \in Tags |-> NoTag],
                tail |-> [e \in Entries |-> NoTag],     \* blockingReqTail
                notCompleted |-> 0,                     \* notCompletedNandReqCnt
                blocked |-> 0,                          \* blockedReqCnt
                permitted |-> [b \in Blocks |-> 0],     \* permittedProgPage
                blockedReads |-> [b \in Blocks |-> 0],  \* blockedReadReqCnt
                eraseFlag |-> [b \in Blocks |-> FALSE]] \* blockedEraseReqFlag
    /\ work = <<>>
    /\ waiting = NoTag
    /\ ftl = [current |-> [w \in Ways |-> Head(BlockList[w])],
              currentPage |-> [b \in Blocks |-> 0],
              freeBlocks |-> [w \in Ways |-> Tail(BlockList[w])],
              cycle |-> [b \in Blocks |-> 0],
              dirty |-> [e \in Bufs |-> FALSE]]
    /\ flash = [b \in Blocks |-> [cycle |-> 0, pages |-> 0]]

Next ==
    \/ TagFreed
    \/ EraseReleased
    \/ AllDone
    \/ \E done \in SUBSET Range(sched.dmaQ) : DmaDone(done)
    \/ \E w \in Ways : NandDone(w)
    \/ \E e \in Bufs, c \in DmaCodes : SliceHit(e, c) \/ SliceMiss(e, c)
    \/ \E e \in Bufs : CxlLoad(e) \/ FlushEntry(e)
    \/ PageWrite

(* The loops go round as long as they wait, the ways finish what they were *)
(* given, and so does each direction of the DMA engine.  All of it is weak *)
(* fairness, but TLC is slow to evaluate whether these actions are enabled *)
(* and is told instead when they are.                                      *)
HasDma(c) == PollsDma /\ \E t \in Range(sched.dmaQ) : sched.req[t].code = c
DmaDoneOf(c) ==
    \E done \in SUBSET Range(sched.dmaQ) :
        DmaDone(done) /\ \E t \in done : sched.req[t].code = c

Fairness ==
    /\ []<>~HasTagFreed \/ []<><<TagFreed>>_vars
    /\ []<>~HasEraseReleased \/ []<><<EraseReleased>>_vars
    /\ WF_vars(AllDone)
    /\ \A w \in Ways : []<>(sched.nandQ[w] = <<>>) \/ []<><<NandDone(w)>>_vars
    /\ \A c \in DmaCodes : []<>~HasDma(c) \/ []<><<DmaDoneOf(c)>>_vars

Spec == Init /\ [][Next]_vars
FairSpec == Spec /\ Fairness
-----------------------------------------------------------------------------
InNandQ == UNION {Range(sched.nandQ[w]) : w \in Ways}
InRowQ == UNION {Range(sched.rowQ[w]) : w \in Ways}

(* Types. *)
TypeOK ==
    /\ sched.notCompleted \in 0 .. NumTags
    /\ sched.blocked \in 0 .. NumTags
    /\ sched.permitted \in [Blocks -> 0 .. NumPages]
    /\ sched.blockedReads \in [Blocks -> 0 .. NumTags]
    /\ sched.prevBlocking \in [Tags -> Tags \cup {NoTag}]
    /\ sched.nextBlocking \in [Tags -> Tags \cup {NoTag}]
    /\ sched.tail \in [Entries -> Tags \cup {NoTag}]
    /\ waiting \in Tags \cup {NoTag}

(* Every request out of the pool is in one queue or is the one that waits, *)
(* and the two counters the sync loop reads are what is queued.            *)
EachQueuedOnce ==
    LET parts == <<sched.free, InNandQ, InRowQ, Range(sched.dmaQ), sched.bufQ,
                   Range(sched.held), {waiting} \ {NoTag}>>
    IN  /\ \A t \in Tags : Cardinality({k \in DOMAIN parts : t \in parts[k]}) = 1
        /\ sched.notCompleted = Cardinality(parts[2])
        /\ sched.blocked = Cardinality(parts[3] \cup parts[5])

(* blockedReadReqCnt is the number of the block's reads that are queued    *)
(* blocked, by either dependency.                                          *)
BlockedReadsCounted ==
    LET reads == {t \in InRowQ \cup sched.bufQ : sched.req[t].code = "READ"} IN
    \A b \in Blocks :
        sched.blockedReads[b] = Cardinality({t \in reads : sched.req[t].block = b})

GivenOut == InNandQ \cup InRowQ \cup Range(sched.dmaQ)

(* Two requests that name an entry are never let go together: the next     *)
(* waits until the transfer or flash operation before it has ended.  These *)
(* are host transfers, fills, evictions, flushes and copies.  The read of  *)
(* log compaction names none (though what it reads goes to the data of the *)
(* first entry, as its REQ_OPT_DATA_BUF_ADDR_NO_SPARE does not fit the two *)
(* bits of dataBufFormat): nothing keeps it from the other requests.       *)
EntryExclusive ==
    \A e \in Entries : Cardinality({t \in GivenOut : sched.req[t].entry = e}) <= 1

(* What a block is about to do fits what it holds. *)
FlashInOrder ==
    \A w \in Ways : sched.nandQ[w] # <<>> =>
        LET r == sched.req[Head(sched.nandQ[w])]
            f == flash[r.block]
        IN /\ r.cycle = f.cycle
           /\ r.code = "READ" => r.page < f.pages
           /\ r.code # "READ" => r.page = f.pages

(* A way with nothing to do has no blocked request that could go. *)
NoneForgotten ==
    \A w \in Ways : sched.nandQ[w] = <<>> =>
        \A t \in Range(sched.rowQ[w]) : ~RowAddrPass(sched, t)

(* Once the flash and the DMA engine have nothing to do, no request is     *)
(* blocked and no read waits for an erase, except because of a stale load: *)
(* its read is blocked for a page of a block that was erased since.        *)
NothingStuck ==
    (\A w \in Ways : sched.nandQ[w] = <<>>) /\ sched.dmaQ = <<>> =>
        \/ /\ sched.blocked = 0
           /\ waiting # NoTag => HasEraseReleased
        \/ \E t \in InRowQ : /\ sched.req[t].code = "READ"
                             /\ sched.req[t].cycle # flash[sched.req[t].block].cycle

(* The wait a CXL load ends with, and that of each page of a compaction,   *)
(* is over at some time.                                                   *)
LoadsEnd == Syncing ~> ~Syncing
=============================================================================
