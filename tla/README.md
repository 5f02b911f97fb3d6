# OpenCXD firmware: specification and verification

TLA+ models of the OpenCXD firmware (`src/openssd/src/`): a CXL-attached SSD
built on the Cosmos+ OpenSSD controller. The host loads and stores cachelines;
the firmware keeps stores in a DRAM write log with a two-level index, caches NAND
pages in a data buffer, and keeps the flash behind a page-mapped translation
layer with garbage collection. It is bare-metal C: one main loop that runs each
command's handler to its end, one interrupt handler, and two kinds of hardware
that work beside it (the host DMA engine and the NAND channels).

Contents: [inventory](#inventory), [modules](#modules),
[runs](#runs-and-what-they-show), [bounds](#bounds-and-why-they-are-enough),
[fairness](#fairness), [proofs](#what-is-proved), [findings](#findings),
[not modelled](#what-is-not-modelled), [plan](#plan).

## Inventory

| Component (source) | State | Operations | What makes it correct |
|---|---|---|---|
| **CXL.mem path** (`nvme/cxl_ssd.c`, `nvme/nvme_io_cmd.c`) | none of its own | `MemReadRequestSingle` (cache r1, log r2, flash r3), `MemWriteRequestSingle`, `handle_nvme_write_page` | a load returns the last store; a store that meets a full log is logged after compaction |
| **Write log and index** (`writelog/*.c`) | `write_log_entries`, `write_log_count`, `logIndex`, `nand_page_list`, the compaction buffer | `logWrite`, `logCompaction`, `insertLogIndex`, `lookupLogIndex`, resets | the index names the newest entry of each line; compaction finds every logged line and puts it on flash before the log is recycled |
| **Data cache** (`data_buffer.c`) | per entry: page, dirty bit, LRU links, hash links, last blocking request | `CheckDataBufHit*`, `AllocateDataBuf`, `PutToDataBufHashList` | each page cached once, the LRU list complete, no dirty contents older than flash |
| **Address translation** (`address_translation.c`) | slice maps both ways, per block: page counter, invalid count, links; per die: free list, current block | `AddrTransRead`, `AddrTransWrite`, `FindFreeVirtualSlice[ForGc]`, `InvalidateOldVsa`, `EraseBlock`, free lists | a slice reads as last written; no block is handed out twice or full |
| **Bad blocks** (`address_translation.c:63-625, 876-921`) | per block: bad bit, remapped block; per die: the table on flash, `grownBadUpdate`, `badBlockCount` | `InitBlockDieMap` and all it calls, `UpdatePhyBlockMapForGrownBadBlock`, `UpdateBadBlockTableForGrownBadBlock` | no bad block is used, no block twice; the capacity counts what is left out; the tables are complete |
| **Garbage collection** (`garbage_collection.c`) | per die: victim lists by invalid count | `GarbageCollection`, `Put/Get/SelectiveGetFromGcVictimList` | every valid slice of a victim moves before the erase; the collection gives back more than it takes |
| **Host DMA** (`nvme/host_lld.c`, `request_transform.c:602-676`) | two FIFOs with 8-bit head and tail and an overflow count; queue of issued requests | `set_auto_tx/rx_dma`, `check_auto_*_partial_done`, `CheckDoneNvmeDmaReq` | a request is retired only when its blocks have moved, and is retired in the end |
| **Request pool and queues** (`request_allocation.c`) | pool of 128 requests per die threaded through free, slice, blocked, DMA and per-way NAND lists; counters | `PutTo*ReqQ`, `GetFrom*ReqQ`, `SelectiveGetFrom*` | a request is on one list; counters equal list lengths; a spinning `GetFromFreeReqQ` ends |
| **Request transformation** (`request_transform.c`) | buffer chains (`blockingReqTail`), `rowAddrDependencyTable` | slice splitting, eviction, dependency checks and releases | requests on one entry, and programs, reads and erases of one block, run in issue order |
| **NAND way scheduler** (`request_schedule.c`) | per channel: seven way lists; per way: status, retry count | `SchedulingNandReq`, `IssueNandReq`, `ExecuteNandReq`, `CheckEccErrorInfo` | a way is on one list; every request completes or is reported failed; retries stop |
| **NVMe task loop and interrupt** (`nvme/nvme_main.c`, `nvme/host_lld.c:66-238`) | `g_nvmeTask.status`, `cacheEn`, `rstCnt`, the valid queues, CSTS | the main loop, `dev_irq_handler`, the register helpers | the status follows the host; enable, shutdown and reset are served; a session starts clean |
| **NVMe commands** (`nvme/nvme_io_cmd.c`, `nvme/nvme_admin_cmd.c`) | queue registers, command slots | dispatch, features, queue creation and deletion, identify | every command taken is answered |
| **Start-up, driver, generated code** (`main.c`, `ftl_config.c`, `nsc_driver.c`, `t4nsc_ucode.h`) | registers, constants | initialisation | - |

Interactions. The task loop calls a handler per command. The CXL.mem path calls
the log, the index, the cache; on a miss, or in compaction, the cache's eviction
and the translation layer, and waits in `SyncAllLowLevelReqDone`. Block commands share the cache with it. The translation
layer calls garbage collection, which issues copies and an erase. Block commands go through
slice requests, the cache and the dependency checks to the two schedulers. What
the schedulers find complete releases the requests blocked behind it.

Hard behaviours. State shared by three copies of a line (cache, log, flash) with
no single owner; compaction interrupted by nothing but spanning many flash
operations; asynchronous hardware read through wrapping 8-bit registers; requests
released from inside walks over the lists they join; garbage collection in the
middle of an allocation that already changed the maps; the interrupt handler
writing a status word the loop reads and writes. Every such place is listed under
`hazards` in `PROJECT.json`, at its line, with the properties that cover it.

## Modules

| Module | Models | State and actions |
|---|---|---|
| `LineLog` | abstract: what log and index promise | a map from line to payload and the capacity used; `Store`, `Drain` a page, `Recycle` |
| `CxlSsd` | CXL.mem path, write log, index, compaction, data cache | `write_log_entries`, `logIndex`, `nandPageList`, the LRU list `lru` with `lsa`, `dirty`, `bufData`, the compaction buffer, flash pages. One action per handler branch (`MemReadCached` r1, `MemReadLogged` r2, `MemReadFlash` and `MemReadMissing` r3, `MemWrite`, `WritePage`); compaction is one action per loop iteration (`SkipUnusedPage`, `CompactCachedPage`, `CompactUncachedPage`, `FinishCompaction`, the last with the store that was waiting). Block commands use the same cache, a slice at a time (`BlockHit`, `BlockMiss`), and their transfers end in the main loop (`TransferDone`); `transfers` decides whether a sync returns (`SyncReturns`), `blockWritten` is a history |
| `MCCxlSsd`, `CxlSsdProofs` | TLC instances; theorems and proofs | - |
| `HostDma` | the DMA FIFOs and the requests that use them | FIFO indices, issued queue, one chain of requests per buffer entry. The hardware moves a head (`HwDone`) between any two firmware steps; a request arrives, its blocks are issued one at a time (spinning while the FIFO is full), the retirement walk visits one request per step and reads the head anew |
| `MCHostDma`, `HostDmaProofs` | TLC instances; theorems and proofs | - |
| `SliceStore` | abstract: what the translation layer promises | slice contents and the one write being served; `Accept`, `Finish` |
| `FtlMap` | address translation and garbage collection over good blocks | the maps, block counters, free lists, victim lists, current blocks, die rotation, flash contents. `AddrTransWrite` is split where something can be observed: `BeginWrite` (invalidate), `UseCurrentBlock`/`UseFreeBlock`, or `StartGc`, page by page `SkipPage`/`LeaveVictim`/`CopyTo*`, `EraseBlock`, then the allocation again |
| `MCFtlMap`, `FtlMapProofs` | TLC instances; theorems and proofs | - |
| `ReqSched` | the request pool and its queues, both dependencies, the three wait loops, completion | `sched` (the pool, queues, chains, row address table and counters), `work` (what the running call still hands down), `waiting` (the read in `SyncReleaseEraseReq`), `ftl` (what decides which blocks requests name), `flash`. Calls from above: `SliceHit`, `SliceMiss` (block commands), `CxlLoad`, `FlushEntry` (compaction of a cached page), `PageWrite` (compaction of an uncached page; the page-write command), each the whole handler up to where it waits; returns from waits: `TagFreed`, `EraseReleased`, `AllDone`; completions: `DmaDone`, `NandDone` |
| `MCReqSched`, `ReqSchedProofs`, `ReqOrderProofs` | TLC instances; theorems and proofs, the last of `FlashInOrder` and `NothingStuck` | - |
| `WaySched` | `SchedulingNandReqPerCh`, the way lists of a channel, issue, status check, retry | the pass as a thread (`pc`, `cur`, `snap`, `waits`): one way per step in the walks over idle and reporting ways (`IdleWay`, `ReportEnded`/`ReportAgain`/`ReportWaits`), one step per walk that issues (`StatusCheck` or `NoneToCheck`, `Issue`). `die` and `queue` are the code's; the controller and the flash (`Start`, `Finish`, `ReportStatus`, `Transfer`) run beside the pass and are read by polling |
| `MCWaySched`, `WaySchedProofs` | TLC instance; theorems and proofs | - |
| `NvmeTask` | the main loop, the interrupt handler, admin and I/O commands as far as they touch controller state and slots, or stop the firmware | a branch of the loop is cut where the host sees a register change and where the status is written at its end (`Enable`, `Enabled`; `Shutdown`, `ShutQueues`, `Shut`; ...). The handler takes the waiting events at once (`EnterIrq`) and reads the register of each when it gets to it (`HandleEvent`). A command that meets an `ASSERT` (a `while(1)`, `debug.h:64`), or waits for what never happens, leaves the loop in `pc = "stopped"`. The host, the link, the flash and the auto-completion are the environment |
| `MCNvmeTask`, `NvmeTaskProofs` | TLC instances; theorems and proofs | - |
| `BadBlocks` | start-up from `EraseTotalBlockSpace` to `InitBlockMap`, blocks that fail in service, the table written at a shutdown, power cuts | one action per loop iteration of the scan (`FindBadBlock`) and of the remapping (`RemapNothing`/`Skip`/`Take`/`Count`); tables are erased and written in separate steps (`SaveErase`/`SaveWrite`, `FlushErase`/`FlushWrite`), for any subset of the dies, so that a power cut leaves any mix; `PowerCycle` between any two steps |
| `MCBadBlocks`, `BadBlocksProofs` | TLC instance; theorems and proofs | - |

Conventions. Names are the source's. `map` in `PROJECT.json` gives the lines of
each definition. Operators marked "A mutation" are plausible bugs of the definition
after them; no specification uses them, they exist to show that each property
fails when the code is wrong.

Abstractions. Payloads, slices and data are labels. Flash behind `CxlSsd` is a page store: each NAND
access of its handlers is followed by `SyncAllLowLevelReqDone`. Block commands only hand requests down; contents
are there what all requests handed down so far leave, in their order per entry (`EntryExclusive`) and per block
(`FlashInOrder`). The processor's own accesses to an entry (a hit, w2 of a store, the internal read) do not join
its chain and may meet a transfer under way; what the two make of the entry's bytes then is not followed. The lines
a block command writes are any contiguous range, none for a read; lines that neither command nor flash give keep what the
entry held. A sync that does not return ends the behaviour (`Hung`, or compaction going no further). Flash in
`FtlMap` changes in the order requests are issued, which is what the row address
dependency is for; `FlashInOrder` of `ReqSched` says so, is checked and proved, and finding 4 is
where it fails. The linked
lists threaded through `prevBlock`/`nextBlock` are sequences: a block is on one
list at a time, which `VictimsListed` and `FreeBlocksErased` check. With `HotBlocks` a block may be current and
free at once; invalidating a slice of it would unlink it from the free list and cut that
(`SelectiveGetFromGcVictimList`), so `KeepsFreeList` leaves such writes out. Without `HotBlocks` it
excludes nothing: mapped slices lie in programmed blocks and free blocks are erased. A virtual slice address is the triple of
die, block and page. `HostDma` keeps `tailLap` and `headLap`, history the code does
not have, to say what really was transferred. In `ReqSched` the order of the
buffer-blocked queue is left out (nothing depends on it), the free tag taken is
the smallest (tags are interchangeable), a block's contents are an erase cycle and
a number of programmed pages, and which slice a call is about is a choice
restricted by what the blocks hold. A call is one step up to its first wait, since
the firmware is one thread; the wait loops interleave with the hardware step by
step. The tags an eviction and a slice take before garbage collection runs are
held from there (`Hold`). A collection copies any ascending choice of its victim's pages but all of them (with
`KeepsCurrentBlock`, none only of a block that is not current). Log compaction is several calls here, one per
page, between which other commands may come; in the code nothing comes between its pages, which is one of
these orders. The completion of its internal read compares `blockingReqTail` at an address far outside the table
(`request_transform.c:521`) and clears it if it equals the tag; this is left out. The walk of `SchedulingNandReqPerCh` over idle ways is left out
there: it looks at blocked requests of ways with an empty queue, and `NoneForgotten` says
that none of them could go.

`WaySched` is the counterpart: which requests a completion releases is any choice
(`Released`, `ReleasedBy`), what the scheduler does with them is the code's. A request
keeps what `CheckReqStatus` and `ExecuteNandReq` look at, and its block; `tries` is
history for `FullRetries`. A set feature waits inside its call
(`V2FSetFeaturesSync`), so the pass is blocked until the way is at rest.

In `NvmeTask` the loop compares the status once per turn. The code compares it anew in each `else if`;
a change in between makes it miss all branches and find the new status in the next turn. A command
slot holds the stage of its command only; `overwritten` is history: it says that the loop has overwritten a status of the handler.
What is asserted of a command (known feature, CNS or opcode; queue number, size, address; range of blocks) is a
choice between going on and stopping, since the command's arguments are not modelled; so is a flash
wait inside a command or at the end of a shutdown (finding 3).

In `BadBlocks` a die has one LUN, as configured (`LUNS_PER_DIE` is 1; the half of
`RemapBadBlock` for a second LUN is not compiled), and the table fits one page. A page torn
by a power cut reads as no table, the first block of a die, which holds the
table, is good when delivered, and erasing a marked block leaves the mark. `held`, `list`,
`unsaved`, `failed` and `due` partly are history: what a shutdown set out to write.

## Runs and what they show

| Run | Checks | Shows |
|---|---|---|
| `cxl_log` | `TypeOK`, `IndexNewest`, `LoggedLinesIndexed`, `PendingStoreLogged` | the index never names an overwritten entry, another line's entry or one from before recycling; compaction can find every logged line; the store that met a full log is logged, unless a transfer of the host is in the way of compaction; block commands read and write the cache meanwhile |
| `cxl_cache` | `CompactedLinesOnFlash`, `DirtyPagesListed`, `CachedOnce`, `RefinesLineLog` | what compaction wrote for uncached pages stays on flash through the rest of its loop; no entry that stores alone made dirty outlives the log; hits, misses and evictions keep the LRU list whole; log and index implement `LineLog` |
| `cxl_lost_store` | one property, violated | see [findings](#findings) |
| `host_dma` | `TypeOK`, `PartialDoneExact`, `EntriesHeld`, `RetiredWhenDone`, `EntryFreedInTheEnd` | the comparison of wrapping indices is exact, no transfer is retired early, two transfers never share an entry, no released request is forgotten, and every entry is freed in the end |
| `ftl` | `TypeOK`, `FreeBlocksErased`, `VictimsListed`, `InvalidCounted`, `GcFindsRoom`, `ImplementsStore` | free lists, victim lists and counts stay right while slices are rewritten in every order; a slice reads as its last finished write during and after collection, also of the current block; collection never runs out of blocks and leaves room |
| `ftl_hot` | one property, violated | see [findings](#findings) |
| `req_sched` | `TypeOK`, `EachQueuedOnce`, `BlockedReadsCounted`, `EntryExclusive`, `FlashInOrder`, `NoneForgotten`, `NothingStuck` | every tag is in one place and the counters the sync loop reads are exact; of the requests that name an entry one at a time is let go; each program, read and erase finds its block as it was when it was issued; when flash and DMA engine are done, no request is left blocked, except behind the read of a stale load that waits for a page of an erased block (below) |
| `req_hang`, `req_overtake` | one property each, violated | see [findings](#findings) |
| `way_sched` | `TypeOK`, `OnOneList`, `ListsFit`, `ShortcutExact`, `LeavesDone`, `MarksDeserved`, `FullRetries`, `AllLeave` | a way is on one list, the one that fits what its request needs next, although the lists share their links and change during the walks; the count of waiting ways ends a pass only when nothing is to be issued; a request leaves unmarked only when the flash has done it well, and leaves marked only when it failed, after all retries; every queue drains |
| `nvme_task` | `StatusFollowsHost`, `SessionsFresh`, `Honoured`, `Answered` | the status word that loop and handler share follows the host; a session starts without queues and settings of the one before; enable, disable and shutdown are answered; a command that waits for its page or its transfer is answered, while commands are taken, answered and taken again in the other slot without end. The first and third except when the loop has overwritten the handler's status, the third also except when the firmware has stopped (below) |
| `bad_blocks` | `RemapSound`, `TablesComplete` | no marked block nor that of the table is used, no block twice, and the capacity is reduced by exactly what is left out; tables on flash cover the marks through any power cut, and a shutdown that could write has saved all that had failed when it began |

Every action of each `Next` fires in a passing run.

## Bounds and why they are enough

- `cxl_log`: 2 pages of 2 lines, 1 cache entry, 3 log entries, 1 stored payload.
  Offsets, not payloads, tell log entries apart. Three entries allow a line logged
  twice together with a line of the other page, and one of the same page; the
  pages compete for the cache entry. Block commands access one of the pages (`BlockPages`), with
  up to two transfers under way (`MaxTransfers`), so a sync meets none, one and a chained one.
  About 997,000 states.
- `cxl_cache`: 3 pages of 1 line, 2 cache entries, 2 log entries, 2 payloads
  (symmetric: they are only copied), block commands on 1 page with 1 transfer at a time. More pages than
  entries, so loads evict; two entries, so a compaction meets a cached and an uncached page. About 3.0 million
  states. `Fill` equals `Blank` in these instances: what a page or block write leaves is
  told apart from stores only. Deadlock is not checked in the runs with block commands: a sync may never
  return (finding 3). `MaxTransfers` stays below what the request pool
  holds; a pool that runs empty is the subject of `ReqSched`.
- `cxl_lost_store`: 2 pages of 2 lines, 1 entry, 2 log entries, no page writes
  (which would overwrite lines by themselves) and no block commands.
- `host_dma`: FIFOs of 3 slots, an overflow count modulo 4, requests of 1 or 2
  blocks on 2 entries, at most `MaxRequests` = 4 requests, so a tail wraps twice
  and a head is met before and after each wrap, with FIFOs full and requests
  chained. Deadlock is not checked: arrivals are bounded and the system then rests.
  179,000 states.
- `ftl`: 1 die of 3 blocks of 3 pages, 4 slices, 2 data (both symmetric). One
  block is current, one is the reserve, so collection starts after a few writes; a
  victim, which may be the current block, has 0 to 2 valid slices, and old copies differ
  from new. 943,000 states. Dies share the slice map and the rotation only.
- `ftl_hot`: 1 die of 3 blocks of 2 pages, 3 slices, no exclusion.
  It stops at the firmware's assertion, so deadlock is not checked. `KeepsFreeList` leaves out writes that would
  touch the links of a block that is current and free at once, so every step of the counterexample is a step
  of the code with its links shared.
- `req_sched`: 1 way of 2 blocks of 2 pages, 1 buffer entry, 5 tags, 2 host
  commands at a time, all calls. The one entry chains everything; two
  blocks force a collection with each full block; with five tags the pool runs
  empty in the middle of evictions and a read can meet a blocked erase. About 2.0 million
  states. Ways share only tags and entries. Deadlock is not checked: a CXL load
  may wait for ever (finding 3). Blocks of two pages have one valid slice at most
  when they are collected; the theorems have no such limit, and TLC finds nothing either with `NumPages = 3` and
  `NumTags = 4` (two copies; 1.07 million states), where no read meets a blocked erase.
- `req_hang`: 3 tags. `req_overtake`: 3 blocks of 1 page, 2 entries (symmetric),
  3 commands, 7 tags: one entry must free a block for which the other entry's write still waits.
- `way_sched`: 2 ways, one given a decoded and a raw read, the other a reset, a set
  feature, a program and an erase, in every order of arrival and release; one
  retry; a controller that takes 2 commands, so that it is busy with one way's.
  Every list, every status and the controller's limit occur, with the two ways on the same
  or on different lists. Deadlock is checked: the passes go on for ever.
- `nvme_task`: 2 slots, so that one command waits while the other slot is served again and again; 1 I/O queue,
  1 reset before `pcie_async_reset`; the host and the link may act at every step, any number of times. 726,000 states.
- `bad_blocks`: 2 dies of 3 user and 2 reserved blocks; marks on both kinds of
  blocks, on either of the two pages, and on all that is reserved of one die; the
  table's block, a user block, or a user and a reserved one may fail, each time
  differently on the two dies; memory comes up all zeros or all ones. 505,000 states.
  Power may be cut any number of times.

`Overtaking = FALSE` restricts `ReqSched`: no eviction issues a write or an erase that would be let
go before the blocked erase of its block: a write to the page the table permits next or a later one, or a
second erase. Without it finding 4 occurs, after which flash and tables disagree. `Calls` limits the kinds of calls, in the violation
runs only.

`HotBlocks = FALSE` is the one restriction of the environment of `FtlMap`: no write
invalidates the last valid slice of a current block while no other block can be
taken. What happens without it is the finding of `ftl_hot`; after it the maps no
longer mean anything, so the passing runs exclude it. `HotBlocks = TRUE` removes
the restriction.

## Fairness

Liveness is stated under the fairness below; the safety properties of these modules do not use it.

- `CxlSsd!FairSpec` has weak fairness on compaction: the loop runs inside one
  handler and goes on as long as its syncs return. A sync waits for the flash, which finishes, and for all blocked
  requests; one that is blocked behind a transfer keeps it from returning for ever, because it never looks at the DMA
  engine. `SyncReturns` is then false and the step of compaction disabled, so fairness does not
  force it. `PendingStoreLogged` asks for the store only where no such transfer is under way when compaction begins (none
  begins during it); that it waits for ever otherwise is finding 3.
- `HostDma!FairSpec` has weak fairness on the hardware, on issuing and on the
  walk (loops of the firmware that nothing interrupts), and strong fairness on
  starting a walk and on NAND completion: the task loop comes back to both, with
  other work in between. The loop only does so in iterations without an I/O
  command (`nvme_main.c:423`); a host that never pauses is outside this
  assumption, which the list of hazards says.

- `ReqSched!FairSpec` has weak fairness on the wait loops, each way and each
  direction of the DMA engine: the loops go round, the hardware finishes what it was
  given. It is written with the actions' guards rather than `WF`, except once, because
  TLC is slow to decide whether these actions are enabled. `req_hang` shows a load
  that does not end even so.

- `WaySched!FairSpec` has weak fairness on the pass, which the loops waiting
  for requests call again and again, and on the controller and the flash of each way.
- `NvmeTask!FairSpec` has weak fairness on the interrupt handler and the hardware,
  and strong fairness on the loop: the host may cause any number of interrupts, each
  of which holds the loop up, but they leave it time to go on. A loop that has stopped (`ASSERT`, a wait without
  end) has no step that fairness could ask for, and `Honoured` excepts it: no later request is served. `Answered` is stated for
  behaviours where turns that schedule recur: a turn with an I/O command schedules nothing
  (`exeLlr`, `nvme_main.c:423`), and nothing in the code limits such turns.

`FtlMap` and `BadBlocks` state no liveness: sequential code that the environment may stop.

## What is proved

All proofs are checked by TLAPS for every value of the constants that satisfies
the named assumptions (`SizesAssumption`, `ContentsAssumption`,
`DmaSizesAssumption`, `SizeAssumption`, `FlashAssumption`, `FtlSizesAssumption`,
`FtlNonesAssumption`, `ReqSizesAssumption`, `ReqWaysAssumption`, `WaysAssumption`,
`LimitsAssumption`, `LoadAssumption`; the proofs of `NvmeTask` need none): at least one page,
line, entry and log slot, a page that was never programmed is told apart from
contents; a FIFO of at least two slots; a translation layer with at least one die, block
and page, whose "none" values are none of these; at least one die and one user block, the first
block of a die without a mark; at least one tag, and two blocks or more on every way, each on one way
only and listed once; at least one way of the channel, linked once each, and a load of well-formed
requests, of which none is handed down as a transfer.

**`CxlSsdProofs`**, in layers, each using the ones before:
`TypeCorrect`; `CachedOnceCorrect` (moving an entry to the head permutes the LRU
list; a page enters the cache only where it was found missing);
`LogInv` = `IndexNewest` /\ `LoggedLinesIndexed`, the inductive core: neither is
inductive alone, since recycling is safe only because all that was logged was
also indexed; from it `CompactedLinesOnFlashCorrect` and
`DirtyPagesListedCorrect` (of entries that no block write made dirty: `blockWritten`), which need `LogInv` to
know that what compaction merges is the newest payload; and, with `FullWhileCompacting` (compaction only runs on a
full log), `LogImplementsMap`: every step of `CxlSsd` is a step of `LineLog` or
leaves it unchanged.

**`HostDmaProofs`**: the inductive invariant `DmaInv` joins `TypeOK` with
`HoldInv` (entries and chains: `EntriesHeld` and what the walk
may assume of the request it retires), `FifoInv` (`LapInv`: the head is at most one
lap behind the tail; `CountInv`: the overflow count is the lap number modulo its
width; `ReqInv`: what each queued request recorded lies between head and tail) and
`OrderInv` (requests of one direction are queued in FIFO order, and `done`, once
set in a walk, is true of all older ones). The last is what makes the short cut
of the walk sound: once one request is found done, older ones are retired without
looking, although new blocks may have been issued meanwhile.
`PartialDoneCorrect` needs that the overflow count has not wrapped
(`CountsUnwrapped`); `RetiredWhenDoneCorrect` does not.

**`FtlMapProofs`**: the inductive invariant `FtlInv` joins types with `MapsAgree` (a mapped
slice's place maps back to it), `MappedProgrammed` (such a place lies below its block's page
counter), `PendingUnmapped` (the slice being written has no place),
`FreeLists` and `VictimLists` (free blocks are listed once, unprogrammed, neither current nor victim;
a full block is listed once, under its count), `InvalidKnown` (the count is the number of pages
nothing maps to), and five parts about a collection under way: `PassedPagesInvalid` (what the copying has
passed holds nothing valid, so the erase loses nothing), `CurrentVictimValid` and `CurrentBlockKept` (a victim that
is still the current block has a valid page ahead, so it has been left before it is erased) and `Room`. The last
is the argument that collection ends: the pages already copied and those still to copy fit into
the reserved block, because a victim has at least one page that is not copied. It gives all
five invariants of the run, for any number of dies, blocks and slices, and `FtlImplementsStore`:
every step is a step of `SliceStore` or leaves it unchanged. The theorems assume `~ HotBlocks`: with it finding 2
makes a block free and current at once, and the invariant false.

**`BadBlocksProofs`**: the inductive invariant `BadInv` joins types with `KnowsBad` (what
the firmware knows to be bad covers the marks from the end of the scan on: a table that
is read instead of scanning covers them because every table written does, in whatever
session), `Remapping` (the loop of `RemapBadBlock` hands out good reserved blocks in
ascending order, so each once, leaves the good blocks alone, and counts exactly the bad ones it
leaves in place), `RemapSound` itself, and `Reports` (a failure books its die, a
booking is never undone, so a shutdown that skips a die has nothing to write for it). It
gives `RemapSoundCorrect` and `TablesCompleteCorrect`; that the table's block is never behind a
virtual block is what lets the table leave that block out.

**`ReqSchedProofs`**: the proof follows the tags. A function `at` says of each tag whether it is free,
held, in which queue or waiting, or on its way between two of these; `Sound` says
that the sets and queues hold exactly the tags `at` puts there, in no queue twice and on the way of
their block (`Placed`), that what is there fits there (`Fitting`), that the two counters the sync loop
reads count it (`Counted`), that the requests of an entry form one chain of which only the head is let go
(`Chained`: the links fit in both directions, an entry whose chain has a head has a tail, tags
out of use are unlinked), that each `blockedReads` counts the block's blocked reads (`ReadsCounted`), and that a way with
an empty queue has no blocked request that could go (`SeenAt`, for all ways but those
not looked at yet). Every operation moves one tag from one place to another; its lemma
(`SelectLowLevelSound`, `CompleteSound`, `RunSound`, ...) says how `at` follows. The inductive invariant `ReqInv` is:
some `at` makes the scheduler `Sound` with no tag left under way (`InOrder`), every way keeps a free block
in reserve for garbage collection (`FtlOK`), and the requests still to be handed down take
exactly the tags that are held for them (`Takes`). The last two are needed because
a call may wait in its middle: what it left behind must find its tags when it goes on, and a
write must find a page. The loops of the code (the walk over the DMA queue, the walk over a way's blocked
requests, the hand-down of a call) are folds; the proofs go along them with lemma `FoldPath`.
`ReqInv` gives `TypeOK`, `EachQueuedOnce`, `BlockedReadsCounted`, `EntryExclusive`
and `NoneForgotten`, for any number of tags, ways, blocks, pages and entries, for calls of all kinds, and for both values of
`Overtaking`: findings 3 and 4 break none of the five. `EntryExclusive` is about the requests that name an entry. The
internal read of compaction names none and is in no chain; what that means is an observation below.

**`ReqOrderProofs`** proves `FlashInOrder` and `NothingStuck` for `Overtaking = FALSE`. A block has a state (erase cycle, programmed
pages) in four places: on the flash; where the flash will be when its way has done all it was given; where the
requests handed down so far leave it; and in the maps of the translation layer, which are ahead by what the running call
has not handed down yet. The inductive invariant `OrderInv` says that requests lead from each to the next:

- from the flash to the second, the queue of the way, request by request (`Trail`); the second state has as many
  pages as `permittedProgPage` says, so the table is what the flash will be;
- from the second to the third, the blocked requests, in no order (`Pending`): no two writes of an erase cycle are for
  the same page (`WritesDiffer`); those of the block's present cycle are for the permitted page or later ones, and, while
  an erase is blocked, those of the next cycle for earlier ones, which the table cannot let go before the erase
  (`WritesDue`); a block has one blocked erase at most, of the present cycle and for more pages than any write of that
  cycle still waits for (`ErasesDue`, `OneErase`, `ErasesLast`); a blocked read is of the present cycle, or belongs to the
  stale load of a page that is never programmed, behind which nothing is handed down until all is done (`ReadsDue`);
- from the third to the maps, what the running call still hands down (`Plan`), none of which overtakes (`Allowed`).

What is let go because the table permits it is thus the next in the block's order, wherever it waited (`OrderedPass`);
an erase additionally needs `blockedReads` to be exact, which is where `ReqInv` comes in. A read
that waits inside its call for a blocked erase (`waiting`) is handed down once that erase has gone (`WaitOK`). That the calls plan what the maps
say is proved for each shape of a write, an eviction and a page write (`WritesOrder`, `EvictionsOrder`, `PageWriteOrder`), and
for a collection along the fold that lists its copies, however many (`CopiesOrder`, `CollectionsOrder`).

That no circle of waits arises between chains and row addresses (`NothingStuck`) needs one order both agree with. `OrderInv`
therefore also says (`Timely`) that there is an age for every request, such that a request of a chain
is older than the next one (`ChainAged`), and that what a blocked request waits for in its block is blocked too
and older (`Awaits`): a write waits for the writes of the pages before it, one of the next cycle also for the
blocked erase, an erase for all writes and reads of its block, a read for the writes up to its page. It also says
that these writes exist (`Full`): from the permitted page to where the requests handed down lead, every page has a
blocked write. A request that is handed down is the youngest; what is let go never makes another one wait longer. When the
queues of the flash and of the DMA engine are empty, the oldest blocked request waits for nobody: it is neither
in a chain behind another (`OldestNoBuf`) nor held by the table, unless it is a read of a cycle that is over
(`OldestRow`), which is the exception `NothingStuck` makes. Without blocked requests the read that waits in
its call may go on.

**`NvmeTaskProofs`**: the inductive invariant `TaskInv` is `Fresh` (only a ready controller
runs; one that is not ready has no queues and no settings, except inside the
branches that take them away in another order), `InOrder` (a register's event is
pending until the handler has read the register after it; while the controller is on and shutting down
no enabling is pending behind the shutdown) and
`Settled` (a register without a pending event has been answered). It gives
`StatusFollowsHostCorrect` and `SessionsFreshCorrect`, for a host that does what it likes and a link that comes up again
only after the handler has seen it go down.

**`WaySchedProofs`**: the inductive invariant `Inv` joins types with `WayInv` (`OnOneList`
and `ListsFit`, and where the walks stand: they are needed to know that the way a walk moves is on the list
it is taken from) and `HeldInv` (what the controller holds for a way is what its die waits for:
nothing but flash commands while the die is idle, and an answer, once asked for, is the
last thing to come; a report that says pass or fail is still true when the pass reads it,
because nothing can have started in between). From the second follow `LeavesDoneCorrect` and
`MarksDeservedCorrect`, for any number of ways and any load: which step a request leaves in is
lemma `WhoLeaves`, what its status says of the flash is `StatusFact`. Two further invariants build on
it: `WaitsCount` (`waitWayCnt` is the number of ways the pass has looked at so far and left waiting),
`DepthInv` (no way has more commands in the controller than it takes in all, because the walks that issue run only
while it takes some) and `RetriesLeft` give `TypeOK` and `ShortcutExact`; `TriesCount` (the times the head of a queue was issued and the retries its way has
left add up to the limit, and what is behind it was never issued) gives `FullRetries`.

Only model-checked: the liveness properties, which are out of the prover's reach. Every safety invariant and
every action property of the passing runs is a theorem, and so are both refinements.
No theorem is about a recursive definition; the models have none.

## Findings

Each is a run that ends in a counterexample to what the quoted text says:

1. **Compaction drops a store** (`cxl_lost_store`, `writelog.c:136`). A page
   cached without its logged lines is clean; compaction "flushes" it, which writes
   nothing, and clears its index slots.
2. **A block is current and free at once** (`ftl_hot`,
   `address_translation.c:692`). A victim without valid slices is erased without
   the call that would leave it when it is the current block. The writes of the run avoid a second effect of the same
   state, which has no run of its own: a write that invalidates a slice of such a block takes it out
   of the free list by the links the two lists share, and loses free blocks.
3. **A CXL load, or a store, hangs the firmware** (`req_hang`, `request_schedule.c:117`). The
   load waits for all requests in a loop that does not look at the DMA engine; if
   its buffer entry still has a host transfer under way, the read chained behind it
   is never released. Log compaction waits in the same loop, and its flush of a dirty entry joins the
   chain like the load's read (`request_transform.c:212`, `writelog.c:128`): the store that found the log full is
   then never appended. In `CxlSsd` this is `SyncReturns`.
4. **A write passes the erase of its block** (`req_overtake`,
   `request_transform.c:357`). A block is free once its erase is requested; while
   that erase is blocked, behind a program that waits for its buffer entry, the
   block can be written again, the new program goes first and the erase destroys it. A second erase
   of the block can pass the first in the same way (`:366`): the erase branch does not look at
   `blockedEraseReqFlag` either. That takes three blocks of one page, two entries and 14 steps from a state that is
   deep itself, so no run reaches it; it came up as the case in which `FlashInOrder` could not be proved.

### Observations

Behaviour met while modelling that has no run of its own, because it follows from the same
cause as a finding or no text of the repository contradicts it. It is in the models unless
noted, and listed under `hazards`:

- A miss caches the page as flash has it, without the lines in the log; the next
  load of a logged line hits the cache and returns the old contents (`cxl_ssd.c:103`).
- The data-buffer option 4 of compaction's read does not fit the 2-bit field it is stored in and becomes 0, "entry"
  (`writelog.c:242`, `request_format.h:83, 144`); the address of the compaction buffer is then taken for the number of
  an entry and comes down, in 32 bits, to the data of entry 0 (`request_schedule.c:774`). The compaction buffer is
  not loaded, and its previous contents are written back as the rest of the page (`InternalReadEntry` of `CxlSsd`).
  The read joins no chain, so it may meet a host transfer or a flash operation of entry 0: `EntryExclusive` is about the
  requests that name an entry, and this one is not among them.
- A block write makes a cache entry dirty whose page `nand_page_list` need not hold; compaction passes over it, and the
  entry, with stores that hit it, is written only when it is evicted (`request_transform.c:292`). `DirtyPagesListed`
  excepts these entries.
- With two dies the rotation can leave one with valid slices only; garbage collection then
  finds no victim although blocks are free elsewhere (`garbage_collection.c:179`).
- Byte address 0 is never found in the log; the page-write command goes past cache and
  log; the orphan check of compaction counts overwritten entries.
- `ReadNandPageAndLoadToDataCache` looks an address up before the eviction that may
  move the slice: such a stale load (`Calls` has it as a kind of its own) reads an erased
  block, waits for a page that is not there, and is the exception of `NothingStuck`.
- The loop writes the status at the end of a branch whatever the handler wrote in
  between; the host's request is then forgotten (`nvme_main.c:119, 163, 190, 216`).
  `StatusFollowsHost` and `Honoured` except it by `overwritten`; without that exception
  each part of `Honoured` fails.
- `pcie_async_reset` writes CSTS from a variable whose fields RDY and SHST are not set
  (`host_lld.c:188`): for a moment after lost links the controller may look ready.
- Unsupported features, opcodes, Identify structures, queue arguments and block ranges end in `ASSERT`, a loop for ever
  (`debug.h:64`; `nvme_admin_cmd.c:163, 237, 257, 314, 385`, `nvme_io_cmd.c:101, 129, 331`): no command is
  answered any more, in no slot. `NvmeTask` has it as `stopped`.
- A link that is lost and trained again faster than the handler runs leaves the
  status of the session before. Training takes longer (`LinkUp`), so the runs exclude it.
- Commands answered by `set_nvme_cpl` keep their slot for ever (`nvme_admin_cmd.c:537`).
- Every start-up erases all blocks, and the tables with them, before it reads the tables
  (`address_translation.c:603`), despite the prompt "Press 'X' to re-make the bad block table." in line 601
  and the flush of grown bad blocks at shutdown: what a session learned about failing blocks is lost
  unless the erase fails. Within a session a block that has failed stays in use.

## What is not modelled

- What has no state beyond registers and tables: the NAND controller's registers
  (`nsc_driver.c`; `WaySched` models what its commands do), the identify and log page
  data, the generated microcode, start-up of caches and interrupts, debug output.
- The splitting of a block command into slices and its partial blocks; in `ReqSched` a
  command is one slice. Direct DMA, which admin commands wait for in place.
- The block count arithmetic of `InitFTL` beyond which blocks are counted bad.
- More than one channel and more than one LUN: channels share no list, and the
  build has one LUN.
- Time: the firmware has no timers; its waits are loops.

## Plan

Done: `LineLog`, `CxlSsd`, `HostDma`, `SliceStore`, `FtlMap`, `BadBlocks`, `NvmeTask`, `ReqSched`,
`WaySched` and their proofs.

Left, in order:

1. A composition of `ReqSched` and `WaySched`: the release choices of the second are
   those of the first; a per-block queue as the abstract specification of both.
2. `SliceSplit`: the splitting of commands against a reference definition.
