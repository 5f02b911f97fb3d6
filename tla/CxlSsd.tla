------------------------------- MODULE CxlSsd -------------------------------
(***************************************************************************)
(* The CXL.mem side of the firmware: nvme/cxl_ssd.c (memory loads and      *)
(* stores), writelog/writelog.c (the write log and its compaction),        *)
(* writelog/logindex.c (the two-level index) and the part of               *)
(* data_buffer.c and request_transform.c they call (the data cache: LRU    *)
(* order, page held, dirty bit, contents).                                 *)
(*                                                                         *)
(* The firmware runs these handlers to completion, one command at a time,  *)
(* so a handler is one action; logCompaction is one action per iteration   *)
(* of its loop over the NAND page list, which shows its intermediate       *)
(* states.  Every NAND access in them is followed by                       *)
(* SyncAllLowLevelReqDone, so the flash behind the translation layer is a  *)
(* page store here.                                                        *)
(*                                                                         *)
(* Block reads and writes share the cache (ReqTransSliceToLowLevel of      *)
(* request_transform.c, one action per slice of a command).  They only     *)
(* hand requests down, to run behind those of their entry (ReqSched), and  *)
(* contents are here what the requests handed down so far leave.  A host   *)
(* transfer ends when the main loop looks at the DMA engine, which         *)
(* SyncAllLowLevelReqDone never does.                                      *)
(*                                                                         *)
(* A cacheline's address is the pair <<page, line>>; the byte address 0    *)
(* falls in ZeroAddr.  Payloads are labels: they tell which store or which *)
(* earlier contents a copy of a line comes from.                           *)
(***************************************************************************)
EXTENDS Integers

CONSTANTS
    NumPages,       \* LOG_INDEX_BUCKET_COUNT, the logical NAND pages
    NumLines,       \* LOG_INDEX_BUCKET_SIZE, the cachelines of a page
    NumEntries,     \* AVAILABLE_DATA_BUFFER_ENTRY_COUNT
    MaxLogEntries,  \* MAX_LOG_ENTRIES
    Stores,         \* the payloads the host stores
    PageWrites,     \* the pages it writes with the page-write command
    BlockPages,     \* the pages it reads and writes with block commands
    MaxTransfers,   \* the transfers of one entry it has under way
    Blank,          \* the initial contents of memory
    Fill,           \* what block and page-write commands write
    Unprogrammed    \* a page the translation layer has no VSA for

ASSUME SizesAssumption ==
    /\ NumPages \in Nat \ {0}
    /\ NumLines \in Nat \ {0}
    /\ NumEntries \in Nat \ {0}
    /\ MaxLogEntries \in Nat \ {0}
    /\ MaxTransfers \in Nat

Pages == 0 .. NumPages - 1
Lines == 0 .. NumLines - 1
Entries == 0 .. NumEntries - 1
Offsets == 0 .. MaxLogEntries - 1
Addr == Pages \X Lines
ZeroAddr == <<0, 0>>
Payloads == Stores \cup {Blank, Fill}
PageData == [Lines -> Payloads]
BlankPage == [l \in Lines |-> Blank]

ASSUME ContentsAssumption ==
    /\ Unprogrammed \notin PageData
    /\ PageWrites \subseteq Pages
    /\ BlockPages \subseteq Pages

None == MaxLogEntries + 1       \* an index slot without a log offset
LsaNone == -1                   \* a cache entry that holds no page
DataBufFail == -1               \* the page is not cached
Idle == -1                      \* no compaction is running
Hung == -2                      \* the firmware spins in SyncAllLowLevelReqDone

ZeroEntry == [addressEnd |-> ZeroAddr, payload |-> Blank]
NoWrite == <<ZeroAddr, Blank>>

VARIABLES
    write_log_entries,  \* the log
    write_log_count,    \* how much of it is in use
    logIndex,           \* LOG_INDEX_TABLE: line -> log offset or None
    nandPageList,       \* nand_page_list: the pages with logged lines
    lru,                \* the LRU list, head at position 0
    lsa,                \* entry -> the page it holds
    dirty,              \* entry -> flash has older contents
    bufData,            \* entry -> the page's contents
    blockWritten,       \* entry -> a block write made it dirty (a history)
    transfers,          \* entry -> its host transfers that have not ended
    compactBuf,         \* the compaction buffer
    nand,               \* page -> contents on flash, or Unprogrammed
    cursor,             \* logCompaction's loop variable, or Idle, or Hung
    pending             \* the store that found the log full

logVars == <<write_log_entries, write_log_count, logIndex, nandPageList>>
hostVars == <<blockWritten, transfers>>
cacheVars == <<lru, lsa, dirty, bufData, hostVars>>
vars == <<logVars, cacheVars, compactBuf, nand, cursor, pending>>
-----------------------------------------------------------------------------
(* The data cache *)

(* CheckDataBufHitWithLSA: the entry that holds page p. *)
EntryOf(p) ==
    IF \E e \in Entries : lsa[e] = p
    THEN CHOOSE e \in Entries : lsa[e] = p
    ELSE DataBufFail

Cached(p) == EntryOf(p) # DataBufFail

(* A mutation: the neighbour that takes e's place is not relinked. *)
MoveToHeadLosesOne(e) ==
    LET at == CHOOSE i \in Entries : lru[i] = e
    IN  lru' = [i \in Entries |->
                    IF i = 0 THEN e ELSE IF i < at THEN lru[i - 1] ELSE lru[i]]

(* The relinking every hit and every allocation ends with: entry e leaves  *)
(* its place in the LRU list and becomes its head.                         *)
MoveToHead(e) ==
    LET at == CHOOSE i \in Entries : lru[i] = e
    IN  lru' = [i \in Entries |->
                    IF i = 0 THEN e ELSE IF i <= at THEN lru[i - 1] ELSE lru[i]]

LruTail == lru[NumEntries - 1]

(* EvictDataBufEntryForMemoryCopy: flash as it is once entry e was         *)
(* flushed.  A clean entry is not written.                                 *)
FlushedNand(e) ==
    IF dirty[e] THEN [nand EXCEPT ![lsa[e]] = bufData[e]] ELSE nand
-----------------------------------------------------------------------------
(* Waiting for the flash *)

(* SyncAllLowLevelReqDone returns, after requests of the entries in used   *)
(* were handed down, if none of them and none of the host's transfers is   *)
(* behind a transfer: it waits for all blocked requests, and runs the      *)
(* flash only.                                                             *)
SyncReturns(used) ==
    /\ \A e \in Entries : transfers[e] <= 1
    /\ \A e \in used : transfers[e] = 0

Synced(used) == IF SyncReturns(used) THEN Idle ELSE Hung
-----------------------------------------------------------------------------
(* The write log and its index *)

(* A mutation: an insertion that takes a slot in use for the newest one. *)
InsertLogIndexOnce(idx, pages, a, offset) ==
    /\ logIndex' = IF idx[a] = None THEN [idx EXCEPT ![a] = offset] ELSE idx
    /\ nandPageList' = pages \cup {a[1]}

(* A mutation: the page list remembers only the last page. *)
InsertLogIndexLastPage(idx, pages, a, offset) ==
    /\ logIndex' = [idx EXCEPT ![a] = offset]
    /\ nandPageList' = {a[1]}

(* insertLogIndex on index idx and page list pages. *)
InsertLogIndex(idx, pages, a, offset) ==
    /\ logIndex' = [idx EXCEPT ![a] = offset]
    /\ nandPageList' = pages \cup {a[1]}

(* lookupLogIndex: byte address 0 is answered before the table is read. *)
LookupLogIndex(a) == IF a = ZeroAddr THEN None ELSE logIndex[a]

EmptyLog == [k \in Offsets |-> ZeroEntry]
EmptyIndex == [a \in Addr |-> None]

(* logWrite: append (w1), update the cached copy (w2), index (w3); applied *)
(* to a log, count, index and page list that compaction may just have      *)
(* reset.                                                                  *)
LogWrite(a, v, log, count, idx, pages) ==
    /\ count < MaxLogEntries
    /\ write_log_entries' =
           [log EXCEPT ![count] = [addressEnd |-> a, payload |-> v]]
    /\ write_log_count' = count + 1
    /\ LET e == EntryOf(a[1])
       IN  IF e # DataBufFail
           THEN /\ bufData' = [bufData EXCEPT ![e][a[2]] = v]
                /\ dirty' = [dirty EXCEPT ![e] = TRUE]
                /\ MoveToHead(e)
           ELSE UNCHANGED <<bufData, dirty, lru>>
    /\ InsertLogIndex(idx, pages, a, count)
    /\ UNCHANGED <<lsa, hostVars>>
-----------------------------------------------------------------------------
(* Memory stores and log compaction *)

(* MemWriteRequestSingle while the log has room. *)
MemWrite(a, v) ==
    /\ cursor = Idle
    /\ write_log_count < MaxLogEntries
    /\ LogWrite(a, v, write_log_entries, write_log_count, logIndex,
                nandPageList)
    /\ UNCHANGED <<compactBuf, nand, cursor, pending>>

(* MemWriteRequestSingle when the log is full: logCompaction comes first. *)
StartCompaction(a, v) ==
    /\ cursor = Idle
    /\ write_log_count >= MaxLogEntries
    /\ cursor' = 0
    /\ pending' = <<a, v>>
    /\ UNCHANGED <<logVars, cacheVars, compactBuf, nand>>

(* A mutation: the loop bound tested with <= instead of <. *)
CompactingPastEnd == cursor \in 0 .. NumPages

Compacting == cursor \in Pages

(* A mutation: an unused page that is skipped without counting it. *)
SkipUnusedPageForever ==
    /\ Compacting
    /\ cursor \notin nandPageList
    /\ UNCHANGED vars

SkipUnusedPage ==
    /\ Compacting
    /\ cursor \notin nandPageList
    /\ cursor' = cursor + 1
    /\ UNCHANGED <<logVars, cacheVars, compactBuf, nand, pending>>

(* A mutation: the flushed entry stays dirty. *)
CompactCachedPageStaysDirty ==
    LET e == EntryOf(cursor) IN
    /\ Compacting
    /\ cursor \in nandPageList
    /\ e # DataBufFail
    /\ SyncReturns({d \in {e} : dirty[d]})
    /\ MoveToHead(e)
    /\ nand' = FlushedNand(e)
    /\ logIndex' = [a \in Addr |-> IF a[1] = cursor THEN None ELSE logIndex[a]]
    /\ cursor' = cursor + 1
    /\ UNCHANGED <<write_log_entries, write_log_count, nandPageList, lsa,
                   dirty, bufData, hostVars, compactBuf, pending>>

(* The page is cached: flush the entry and clear the page's index slots.   *)
(* Compaction goes no further if the sync in between does not return.      *)
CompactCachedPage ==
    LET e == EntryOf(cursor) IN
    /\ Compacting
    /\ cursor \in nandPageList
    /\ e # DataBufFail
    /\ SyncReturns({d \in {e} : dirty[d]})
    /\ MoveToHead(e)
    /\ nand' = FlushedNand(e)
    /\ dirty' = [dirty EXCEPT ![e] = FALSE]
    /\ blockWritten' = [blockWritten EXCEPT ![e] = FALSE]
    /\ logIndex' = [a \in Addr |-> IF a[1] = cursor THEN None ELSE logIndex[a]]
    /\ cursor' = cursor + 1
    /\ UNCHANGED <<write_log_entries, write_log_count, nandPageList, lsa,
                   bufData, transfers, compactBuf, pending>>

(* A mutation: offset 0 taken for "no entry". *)
MergedSkipsOffsetZero(p, base) ==
    [l \in Lines |-> IF logIndex[<<p, l>>] \in {0, None} THEN base[l]
                     ELSE write_log_entries[logIndex[<<p, l>>]].payload]

(* Page p's lines as the index knows them, over the contents of base. *)
Merged(p, base) ==
    [l \in Lines |-> IF logIndex[<<p, l>>] = None THEN base[l]
                     ELSE write_log_entries[logIndex[<<p, l>>]].payload]

(* Where TriggerInternalDataRead's page lands.  The option                 *)
(* REQ_OPT_DATA_BUF_ADDR_NO_SPARE (4) is stored in the 2-bit dataBufFormat *)
(* and reads back as REQ_OPT_DATA_BUF_ENTRY (0), so GenerateDataBufAddr    *)
(* takes the buffer's address for an entry number: DATA_BUFFER_BASE_ADDR + *)
(* address * 16384, in 32 bits.  The compaction buffer is 16384-aligned    *)
(* past the log of 932067 entries of 72 bytes at 0x300000; the product     *)
(* keeps that address modulo 2^18, which is 0.                             *)
LogEnd == 3145728 + 932067 * 72
CompactBufAddr == LogEnd + (16384 - (LogEnd % 16384))
InternalReadEntry == CompactBufAddr % 262144

(* The page is not cached: load it if it was ever programmed, merge the    *)
(* logged lines into the compaction buffer, write the buffer to flash.     *)
CompactUncachedPage ==
    /\ Compacting
    /\ cursor \in nandPageList
    /\ ~ Cached(cursor)
    /\ SyncReturns({})
    /\ IF nand[cursor] # Unprogrammed
       THEN bufData' = [bufData EXCEPT ![InternalReadEntry] = nand[cursor]]
       ELSE UNCHANGED bufData
    /\ compactBuf' = Merged(cursor, compactBuf)
    /\ nand' = [nand EXCEPT ![cursor] = compactBuf']
    /\ cursor' = cursor + 1
    /\ UNCHANGED <<logVars, lru, lsa, dirty, hostVars, pending>>

(* A mutation: the log is recycled and its index is not. *)
FinishCompactionKeepsIndex ==
    /\ cursor = NumPages
    /\ LogWrite(pending[1], pending[2], EmptyLog, 0, logIndex, nandPageList)
    /\ cursor' = Idle
    /\ pending' = NoWrite
    /\ UNCHANGED <<compactBuf, nand>>

(* initWriteLog and initLogIndex, then the store that was waiting. *)
FinishCompaction ==
    /\ cursor = NumPages
    /\ LogWrite(pending[1], pending[2], EmptyLog, 0, EmptyIndex, {})
    /\ cursor' = Idle
    /\ pending' = NoWrite
    /\ UNCHANGED <<compactBuf, nand>>
-----------------------------------------------------------------------------
(* Memory loads and the page-write command *)

(* r1: the page is cached. *)
MemReadCached(a) ==
    /\ cursor = Idle
    /\ Cached(a[1])
    /\ MoveToHead(EntryOf(a[1]))
    /\ UNCHANGED <<logVars, lsa, dirty, bufData, hostVars, compactBuf, nand,
                   cursor, pending>>

(* r2: the line is in the log. *)
MemReadLogged(a) ==
    /\ cursor = Idle
    /\ ~ Cached(a[1])
    /\ LookupLogIndex(a) # None
    /\ UNCHANGED vars

(* r3: ReadNandPageAndLoadToDataCache takes the LRU tail, flushes what it  *)
(* held, and reads the page from flash.                                    *)
MemReadFlash(a) ==
    LET p == a[1]
        e == LruTail
    IN  /\ cursor = Idle
        /\ ~ Cached(p)
        /\ LookupLogIndex(a) = None
        /\ nand[p] # Unprogrammed
        /\ MoveToHead(e)
        /\ nand' = FlushedNand(e)
        /\ dirty' = [dirty EXCEPT ![e] = FALSE]
        /\ lsa' = [lsa EXCEPT ![e] = p]
        /\ bufData' = [bufData EXCEPT ![e] = nand'[p]]
        /\ blockWritten' = [blockWritten EXCEPT ![e] = FALSE]
        /\ cursor' = Synced({e})
        /\ UNCHANGED <<logVars, transfers, compactBuf, pending>>

(* r3 fails: the page was never programmed, the load returns -1. *)
MemReadMissing(a) ==
    /\ cursor = Idle
    /\ ~ Cached(a[1])
    /\ LookupLogIndex(a) = None
    /\ nand[a[1]] = Unprogrammed
    /\ UNCHANGED vars

(* IO_NVM_WRITE_PAGE writes a page to flash past the cache and the log. *)
WritePage(p) ==
    /\ cursor = Idle
    /\ nand' = [nand EXCEPT ![p] = [l \in Lines |-> Fill]]
    /\ cursor' = Synced({})
    /\ UNCHANGED <<logVars, cacheVars, compactBuf, pending>>
-----------------------------------------------------------------------------
(* Block reads and writes *)

(* A slice of a block command, whose page is cached.  The host writes the  *)
(* lines of written, or reads (none).                                      *)
BlockHit(p, written) ==
    LET e == EntryOf(p) IN
    /\ cursor = Idle
    /\ e # DataBufFail
    /\ transfers[e] < MaxTransfers
    /\ MoveToHead(e)
    /\ bufData' = [bufData EXCEPT ![e] = [l \in Lines |->
                        IF l \in written THEN Fill ELSE bufData[e][l]]]
    /\ dirty' = [dirty EXCEPT ![e] = @ \/ written # {}]
    /\ blockWritten' = [blockWritten EXCEPT ![e] = @ \/ written # {}]
    /\ transfers' = [transfers EXCEPT ![e] = @ + 1]
    /\ UNCHANGED <<logVars, lsa, compactBuf, nand, cursor, pending>>

(* The page is not cached: it gets the LRU tail, flushed, and is read from *)
(* flash unless all of it is written or it was never programmed.  Lines    *)
(* that neither gives keep what the entry held.  nand_page_list does not   *)
(* hear of it.                                                             *)
BlockMiss(p, written) ==
    LET e == LruTail
        base == IF written # Lines /\ nand[p] # Unprogrammed THEN nand[p]
                ELSE bufData[e]
    IN  /\ cursor = Idle
        /\ ~ Cached(p)
        /\ transfers[e] < MaxTransfers
        /\ MoveToHead(e)
        /\ nand' = FlushedNand(e)
        /\ lsa' = [lsa EXCEPT ![e] = p]
        /\ bufData' = [bufData EXCEPT ![e] = [l \in Lines |->
                            IF l \in written THEN Fill ELSE base[l]]]
        /\ dirty' = [dirty EXCEPT ![e] = written # {}]
        /\ blockWritten' = [blockWritten EXCEPT ![e] = written # {}]
        /\ transfers' = [transfers EXCEPT ![e] = @ + 1]
        /\ UNCHANGED <<logVars, compactBuf, cursor, pending>>

(* CheckDoneNvmeDmaReq, in the main loop: a transfer of entry e ended.     *)
TransferDone(e) ==
    /\ cursor = Idle
    /\ transfers[e] > 0
    /\ transfers' = [transfers EXCEPT ![e] = @ - 1]
    /\ UNCHANGED <<logVars, lru, lsa, dirty, bufData, blockWritten, compactBuf,
                   nand, cursor, pending>>
-----------------------------------------------------------------------------
Init ==
    /\ write_log_entries = EmptyLog
    /\ write_log_count = 0
    /\ logIndex = EmptyIndex
    /\ nandPageList = {}
    /\ lru = [i \in Entries |-> i]
    /\ lsa = [e \in Entries |-> LsaNone]
    /\ dirty = [e \in Entries |-> FALSE]
    /\ bufData = [e \in Entries |-> BlankPage]
    /\ blockWritten = [e \in Entries |-> FALSE]
    /\ transfers = [e \in Entries |-> 0]
    /\ compactBuf = BlankPage
    /\ nand = [p \in Pages |-> Unprogrammed]
    /\ cursor = Idle
    /\ pending = NoWrite

Compaction ==
    \/ SkipUnusedPage
    \/ CompactCachedPage
    \/ CompactUncachedPage
    \/ FinishCompaction

Next ==
    \/ \E a \in Addr, v \in Stores : MemWrite(a, v) \/ StartCompaction(a, v)
    \/ Compaction
    \/ \E a \in Addr :
           \/ MemReadCached(a)
           \/ MemReadLogged(a)
           \/ MemReadFlash(a)
           \/ MemReadMissing(a)
    \/ \E p \in PageWrites : WritePage(p)
    \/ \E p \in BlockPages, first, last \in Lines :
           BlockHit(p, first .. last) \/ BlockMiss(p, first .. last)
    \/ \E e \in Entries : TransferDone(e)

(* The compaction loop goes on as long as the syncs in it return; one that *)
(* does not, waiting for a request behind a transfer, disables its step.   *)
Spec == Init /\ [][Next]_vars

FairSpec == Spec /\ WF_vars(Compaction)
-----------------------------------------------------------------------------
TypeOK ==
    /\ write_log_entries \in
           [Offsets -> [addressEnd : Addr, payload : Payloads]]
    /\ write_log_count \in 0 .. MaxLogEntries
    /\ logIndex \in [Addr -> Offsets \cup {None}]
    /\ nandPageList \in SUBSET Pages
    /\ lru \in [Entries -> Entries]
    /\ lsa \in [Entries -> Pages \cup {LsaNone}]
    /\ dirty \in [Entries -> BOOLEAN]
    /\ bufData \in [Entries -> PageData]
    /\ blockWritten \in [Entries -> BOOLEAN]
    /\ transfers \in [Entries -> 0 .. MaxTransfers]
    /\ compactBuf \in PageData
    /\ nand \in [Pages -> PageData \cup {Unprogrammed}]
    /\ cursor \in Pages \cup {Idle, Hung, NumPages}
    /\ pending \in Addr \X Payloads

(* The log entry at offset k is the last one written for its line. *)
NewestFor(k, a) ==
    /\ k \in 0 .. write_log_count - 1
    /\ write_log_entries[k].addressEnd = a
    /\ \A j \in k + 1 .. write_log_count - 1 : write_log_entries[j].addressEnd # a

(* An index slot, if it is in use, names the newest log entry of its line: *)
(* no overwritten payload, no entry of another line, no offset left over   *)
(* from before the log was recycled.                                       *)
IndexNewest == \A a \in Addr : logIndex[a] # None => NewestFor(logIndex[a], a)

(* Every logged line is indexed and its page listed, until compaction has  *)
(* passed its page: compaction finds all there is to flush by walking      *)
(* nand_page_list and the index, never the log itself.                     *)
LoggedLinesIndexed ==
    \A k \in 0 .. write_log_count - 1 :
        LET a == write_log_entries[k].addressEnd
        IN  /\ a[1] \in nandPageList
            /\ (cursor <= a[1] \/ ~ Cached(a[1])) => logIndex[a] # None

(* Once compaction has passed an uncached page, flash holds the newest     *)
(* payload of each of its logged lines, and holds it until the log is      *)
(* recycled.                                                               *)
CompactedLinesOnFlash ==
    \A k \in 0 .. write_log_count - 1 :
        LET a == write_log_entries[k].addressEnd
        IN  NewestFor(k, a) /\ a[1] < cursor /\ ~ Cached(a[1])
                => /\ nand[a[1]] # Unprogrammed
                   /\ nand[a[1]][a[2]] = write_log_entries[k].payload

(* The page of an entry that memory stores alone made dirty is one         *)
(* compaction has yet to flush, so what they wrote to the cache does not   *)
(* outlive the log that describes it.  A block write makes an entry dirty  *)
(* that compaction never looks for, and that is written when it is         *)
(* evicted.                                                                *)
DirtyPagesListed ==
    \A e \in Entries :
        dirty[e] /\ ~ blockWritten[e]
            => lsa[e] \in nandPageList /\ cursor <= lsa[e]

(* The LRU list holds each entry once and no page is cached twice, however *)
(* hits, misses, stores and compaction reorder the list.                   *)
CachedOnce ==
    /\ \A e \in Entries : \E i \in Entries : lru[i] = e
    /\ \A d, e \in Entries : lsa[d] = lsa[e] /\ lsa[d] # LsaNone => d = e

(* The log and its index implement the map of LineLog: what the index      *)
(* finds for a line is the payload last stored for it, whatever else was   *)
(* logged, compacted or recycled, and only a full log is recycled.         *)
Newest ==
    [a \in Addr |-> IF logIndex[a] = None THEN Unprogrammed
                    ELSE write_log_entries[logIndex[a]].payload]

LastStore ==
    IF write_log_count = 0 THEN NoWrite
    ELSE LET entry == write_log_entries[write_log_count - 1]
         IN  <<entry.addressEnd, entry.payload>>

AsMap == INSTANCE LineLog WITH
             newest <- Newest, used <- write_log_count, last <- LastStore,
             Absent <- Unprogrammed, Capacity <- MaxLogEntries,
             NoStore <- NoWrite

RefinesLineLog == AsMap!Spec

(* A store that finds the log full is logged once compaction made room,    *)
(* unless the host has two transfers of one entry under way or one of an   *)
(* entry that compaction is to flush.                                      *)
PendingStoreLogged ==
    LET toFlush == {e \in Entries : dirty[e] /\ lsa[e] \in nandPageList} IN
    \A a \in Addr, v \in Stores :
        cursor = 0 /\ pending = <<a, v>> /\ SyncReturns(toFlush)
            ~> write_log_entries[0] = [addressEnd |-> a, payload |-> v]

-----------------------------------------------------------------------------
(* What a comment of the code says, and the code does not do. *)

(* writelog.c: "if a given nand page is cached onto the data cache, write  *)
(* immediately", then clear the page's log entries: a line whose index     *)
(* slot compaction clears should be on flash.                              *)
ClearedLinesOnFlash ==
    [][\A a \in Addr :
          Compacting /\ logIndex[a] # None /\ logIndex'[a] = None
              => nand'[a[1]][a[2]] = write_log_entries[logIndex[a]].payload]_vars
=============================================================================
