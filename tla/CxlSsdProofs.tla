---------------------------- MODULE CxlSsdProofs ----------------------------
(***************************************************************************)
(* Proofs about CxlSsd for every number of pages, lines, cache entries and *)
(* log entries.  The safety properties are proved in layers: types; the    *)
(* LRU list and the pages cached; the log against its index; then flash    *)
(* and dirty bits against the log.  Each layer's invariant is inductive    *)
(* given the layers below it.                                              *)
(***************************************************************************)
EXTENDS CxlSsd, TLAPS

USE DEF Pages, Lines, Entries, Offsets, Addr, Payloads, PageData, None,
        LsaNone, DataBufFail, Idle, Hung, ZeroAddr, hostVars

-----------------------------------------------------------------------------
(* The types of the operators the actions are built from. *)

(* A cached page's entry holds that page. *)
LEMMA EntryOfFact ==
    ASSUME NEW p, Cached(p)
    PROVE  EntryOf(p) \in Entries /\ lsa[EntryOf(p)] = p
<1>1. PICK e \in Entries : lsa[e] = p
    BY DEF Cached, EntryOf
<1>2. EntryOf(p) = CHOOSE d \in Entries : lsa[d] = p
    BY <1>1 DEF EntryOf
<1>3. QED
    BY <1>1, <1>2

(* No entry holds a page that is not cached. *)
LEMMA NotCachedFact ==
    ASSUME NEW p, ~ Cached(p)
    PROVE  \A e \in Entries : lsa[e] # p
<1>1. SUFFICES ASSUME NEW e \in Entries, lsa[e] = p
               PROVE  FALSE
    OBVIOUS
<1>2. EntryOf(p) \in Entries
    BY <1>1 DEF EntryOf
<1>3. QED
    BY <1>2 DEF Cached

LEMMA MoveToHeadType ==
    ASSUME SizesAssumption, lru \in [Entries -> Entries],
           NEW e \in Entries, MoveToHead(e)
    PROVE  lru' \in [Entries -> Entries]
<1> DEFINE at == CHOOSE i \in Entries : lru[i] = e
<1>1. lru' = [i \in Entries |-> IF i = 0 THEN e
                                ELSE IF i <= at THEN lru[i - 1] ELSE lru[i]]
    BY DEF MoveToHead
<1> HIDE DEF at
<1>2. \A i \in Entries : i # 0 => i - 1 \in Entries
    BY DEF SizesAssumption, Entries
<1>3. QED
    BY <1>1, <1>2

LEMMA FlushedNandType ==
    ASSUME TypeOK, NEW e \in Entries
    PROVE  FlushedNand(e) \in [Pages -> PageData \cup {Unprogrammed}]
BY DEF TypeOK, FlushedNand

LEMMA MergedType ==
    ASSUME TypeOK, SizesAssumption, NEW p \in Pages, NEW base \in PageData
    PROVE  Merged(p, base) \in PageData
BY DEF TypeOK, Merged, SizesAssumption

LEMMA EmptyTypes ==
    ASSUME SizesAssumption
    PROVE  /\ EmptyLog \in [Offsets -> [addressEnd : Addr, payload : Payloads]]
           /\ EmptyIndex \in [Addr -> Offsets \cup {None}]
           /\ BlankPage \in PageData
           /\ NoWrite \in Addr \X Payloads
BY DEF SizesAssumption, EmptyLog, EmptyIndex, BlankPage, NoWrite, ZeroEntry

(* What logWrite leaves behind, whether or not the log was just reset. *)
LEMMA LogWriteType ==
    ASSUME TypeOK, SizesAssumption,
           NEW a \in Addr, NEW v \in Payloads,
           NEW log \in [Offsets -> [addressEnd : Addr, payload : Payloads]],
           NEW count \in 0 .. MaxLogEntries,
           NEW idx \in [Addr -> Offsets \cup {None}],
           NEW pages \in SUBSET Pages,
           LogWrite(a, v, log, count, idx, pages)
    PROVE  /\ write_log_entries' \in
                  [Offsets -> [addressEnd : Addr, payload : Payloads]]
           /\ write_log_count' \in 0 .. MaxLogEntries
           /\ logIndex' \in [Addr -> Offsets \cup {None}]
           /\ nandPageList' \in SUBSET Pages
           /\ lru' \in [Entries -> Entries]
           /\ lsa' = lsa /\ UNCHANGED hostVars
           /\ dirty' \in [Entries -> BOOLEAN]
           /\ bufData' \in [Entries -> PageData]
<1>1. count \in Offsets /\ count < MaxLogEntries
    BY DEF LogWrite, SizesAssumption
<1>2. /\ write_log_entries' \in
             [Offsets -> [addressEnd : Addr, payload : Payloads]]
      /\ write_log_count' \in 0 .. MaxLogEntries
    <2>1. write_log_entries' \in [Offsets -> [addressEnd : Addr, payload : Payloads]]
        BY <1>1 DEF LogWrite
    <2>2. write_log_count' \in 0 .. MaxLogEntries
        BY <1>1 DEF LogWrite, SizesAssumption
    <2>3. QED
        BY <2>1, <2>2
<1>3. logIndex' \in [Addr -> Offsets \cup {None}] /\ nandPageList' \in SUBSET Pages
    BY <1>1 DEF LogWrite, InsertLogIndex
<1>4. CASE Cached(a[1])
    <2>1. EntryOf(a[1]) \in Entries
        BY <1>4, EntryOfFact
    <2>2. MoveToHead(EntryOf(a[1]))
        BY <1>4 DEF LogWrite, Cached
    <2>3. lru' \in [Entries -> Entries]
        BY <2>1, <2>2, MoveToHeadType DEF TypeOK
    <2>4. dirty' \in [Entries -> BOOLEAN]
        BY <1>4, <2>1 DEF LogWrite, Cached, TypeOK
    <2>5. bufData' \in [Entries -> PageData]
        <3> DEFINE e == EntryOf(a[1])
                   page == [bufData[e] EXCEPT ![a[2]] = v]
        <3>1. page \in PageData
            BY <2>1 DEF TypeOK
        <3>2. bufData' = [bufData EXCEPT ![e] = page]
            BY <1>4 DEF LogWrite, Cached
        <3> HIDE DEF page, e
        <3>3. QED
            BY <3>1, <3>2 DEF TypeOK
    <2>6. QED
        BY <1>2, <1>3, <2>3, <2>4, <2>5 DEF LogWrite
<1>5. CASE ~ Cached(a[1])
    BY <1>2, <1>3, <1>5 DEF LogWrite, Cached, TypeOK
<1>6. QED
    BY <1>4, <1>5
-----------------------------------------------------------------------------
(* Types *)

(* One transfer of an entry more, or one less. *)
LEMMA TransfersType ==
    ASSUME TypeOK, NEW e \in Entries
    PROVE  /\ transfers[e] < MaxTransfers
               => [transfers EXCEPT ![e] = @ + 1] \in [Entries -> 0 .. MaxTransfers]
           /\ transfers[e] > 0
               => [transfers EXCEPT ![e] = @ - 1] \in [Entries -> 0 .. MaxTransfers]
<1>1. transfers \in [Entries -> 0 .. MaxTransfers] /\ transfers[e] \in 0 .. MaxTransfers
    BY DEF TypeOK
<1>2. PICK n \in 0 .. MaxTransfers : n = transfers[e]
    BY <1>1
<1>3. /\ n < MaxTransfers => n + 1 \in 0 .. MaxTransfers
      /\ n > 0 => n - 1 \in 0 .. MaxTransfers
    BY <1>2, SizesAssumption DEF SizesAssumption
<1> HIDE DEF Entries
<1>4. QED
    BY <1>1, <1>2, <1>3

LEMMA TypeStep ==
    ASSUME TypeOK, SizesAssumption, ContentsAssumption, [Next]_vars
    PROVE  TypeOK'
<1>1. ASSUME NEW a \in Addr, NEW v \in Stores, MemWrite(a, v)
      PROVE  TypeOK'
    <2>1. LogWrite(a, v, write_log_entries, write_log_count, logIndex, nandPageList)
        BY <1>1 DEF MemWrite
    <2>2. QED
        BY <1>1, <2>1, LogWriteType DEF MemWrite, TypeOK
<1>2. ASSUME NEW a \in Addr, NEW v \in Stores, StartCompaction(a, v)
      PROVE  TypeOK'
    <2>1. cursor' \in Pages \cup {Idle, Hung, NumPages}
        BY <1>2 DEF StartCompaction, SizesAssumption
    <2>2. pending' \in Addr \X Payloads
        BY <1>2 DEF StartCompaction
    <2>3. QED
        BY <1>2, <2>1, <2>2 DEF StartCompaction, TypeOK, logVars, cacheVars
<1>3. CASE SkipUnusedPage
    <2>1. cursor' \in Pages \cup {Idle, Hung, NumPages}
        BY <1>3 DEF SkipUnusedPage, Compacting, SizesAssumption
    <2>2. QED
        BY <1>3, <2>1 DEF SkipUnusedPage, TypeOK, logVars, cacheVars
<1>4. CASE CompactCachedPage
    <2> DEFINE e == EntryOf(cursor)
    <2>1. e \in Entries
        BY <1>4, EntryOfFact DEF CompactCachedPage, Cached
    <2>2. lru' \in [Entries -> Entries]
        BY <1>4, <2>1, MoveToHeadType DEF CompactCachedPage, TypeOK
    <2>3. nand' \in [Pages -> PageData \cup {Unprogrammed}]
        BY <1>4, <2>1, FlushedNandType DEF CompactCachedPage
    <2>4. /\ dirty' \in [Entries -> BOOLEAN]
          /\ blockWritten' \in [Entries -> BOOLEAN]
        BY <1>4 DEF CompactCachedPage, TypeOK
    <2>5. logIndex' \in [Addr -> Offsets \cup {None}]
        BY <1>4 DEF CompactCachedPage, TypeOK
    <2>6. cursor' \in Pages \cup {Idle, Hung, NumPages}
        BY <1>4 DEF CompactCachedPage, Compacting, SizesAssumption
    <2>7. QED
        BY <1>4, <2>2, <2>3, <2>4, <2>5, <2>6 DEF CompactCachedPage, TypeOK
<1>5. CASE CompactUncachedPage
    <2>1. cursor \in Pages
        BY <1>5 DEF CompactUncachedPage, Compacting
    <2>2. compactBuf' \in PageData
        BY <1>5, <2>1, MergedType DEF CompactUncachedPage, TypeOK
    <2>3. nand' \in [Pages -> PageData \cup {Unprogrammed}]
        BY <1>5, <2>2 DEF CompactUncachedPage, TypeOK
    <2>4. bufData' \in [Entries -> PageData]
        BY <1>5, <2>1 DEF CompactUncachedPage, TypeOK
    <2>5. cursor' \in Pages \cup {Idle, Hung, NumPages}
        BY <1>5, <2>1 DEF CompactUncachedPage, SizesAssumption
    <2>6. QED
        BY <1>5, <2>2, <2>3, <2>4, <2>5 DEF CompactUncachedPage, TypeOK, logVars
<1>6. CASE FinishCompaction
    <2>1. pending[1] \in Addr /\ pending[2] \in Payloads
        BY DEF TypeOK
    <2>2. LogWrite(pending[1], pending[2], EmptyLog, 0, EmptyIndex, {})
        BY <1>6 DEF FinishCompaction
    <2>3. 0 \in 0 .. MaxLogEntries
        BY DEF SizesAssumption
    <2>4. /\ write_log_entries' \in
                 [Offsets -> [addressEnd : Addr, payload : Payloads]]
          /\ write_log_count' \in 0 .. MaxLogEntries
          /\ logIndex' \in [Addr -> Offsets \cup {None}]
          /\ nandPageList' \in SUBSET Pages
          /\ lru' \in [Entries -> Entries]
          /\ lsa' = lsa /\ UNCHANGED hostVars
          /\ dirty' \in [Entries -> BOOLEAN]
          /\ bufData' \in [Entries -> PageData]
        <3> HIDE DEF Pages, Lines, Entries, Offsets, Addr, Payloads, PageData,
                     None
        <3>1. {} \in SUBSET Pages
            OBVIOUS
        <3>2. QED
            BY <2>1, <2>2, <2>3, <3>1, LogWriteType, EmptyTypes
    <2>5. cursor' \in Pages \cup {Idle, Hung, NumPages}
        BY <1>6 DEF FinishCompaction
    <2>6. pending' \in Addr \X Payloads
        BY <1>6, EmptyTypes DEF FinishCompaction
    <2>7. QED
        BY <1>6, <2>4, <2>5, <2>6 DEF FinishCompaction, TypeOK
<1>7. ASSUME NEW a \in Addr, MemReadCached(a)
      PROVE  TypeOK'
    <2>1. EntryOf(a[1]) \in Entries
        BY <1>7, EntryOfFact DEF MemReadCached
    <2>2. lru' \in [Entries -> Entries]
        BY <1>7, <2>1, MoveToHeadType DEF MemReadCached, TypeOK
    <2>3. QED
        BY <1>7, <2>2 DEF MemReadCached, TypeOK, logVars
<1>8. ASSUME NEW a \in Addr, MemReadFlash(a)
      PROVE  TypeOK'
    <2>1. LruTail \in Entries
        BY DEF LruTail, TypeOK, SizesAssumption
    <2>2. lru' \in [Entries -> Entries]
        BY <1>8, <2>1, MoveToHeadType DEF MemReadFlash, TypeOK
    <2>3. nand' \in [Pages -> PageData \cup {Unprogrammed}]
        BY <1>8, <2>1, FlushedNandType DEF MemReadFlash
    <2>4. nand'[a[1]] \in PageData
        <3>1. ASSUME dirty[LruTail], lsa[LruTail] = a[1]
              PROVE  FALSE
            BY <1>8, <2>1, <3>1, NotCachedFact DEF MemReadFlash
        <3>2. nand'[a[1]] = nand[a[1]]
            BY <1>8, <3>1 DEF MemReadFlash, FlushedNand, TypeOK
        <3>3. QED
            BY <1>8, <3>2 DEF MemReadFlash, TypeOK
    <2>5. /\ dirty' \in [Entries -> BOOLEAN]
          /\ blockWritten' \in [Entries -> BOOLEAN]
          /\ lsa' \in [Entries -> Pages \cup {LsaNone}]
          /\ bufData' \in [Entries -> PageData]
        BY <1>8, <2>1, <2>4 DEF MemReadFlash, TypeOK
    <2>6. cursor' \in {Idle, Hung}
        BY <1>8 DEF MemReadFlash, Synced
    <2>7. QED
        BY <1>8, <2>2, <2>3, <2>5, <2>6 DEF MemReadFlash, TypeOK, logVars
<1>9. ASSUME NEW a \in Addr, MemReadLogged(a) \/ MemReadMissing(a)
      PROVE  TypeOK'
    BY <1>9 DEF MemReadLogged, MemReadMissing, TypeOK, vars, logVars, cacheVars
<1>10. ASSUME NEW p \in PageWrites, WritePage(p)
       PROVE  TypeOK'
    <2>1. cursor' \in {Idle, Hung}
        BY <1>10 DEF WritePage, Synced
    <2>2. QED
        BY <1>10, <2>1
        DEF WritePage, TypeOK, logVars, cacheVars, ContentsAssumption
<1>11. ASSUME NEW p \in BlockPages, NEW first \in Lines, NEW last \in Lines,
              BlockHit(p, first .. last)
       PROVE  TypeOK'
    <2>1. EntryOf(p) \in Entries
        BY <1>11, EntryOfFact DEF BlockHit, Cached
    <2>2. lru' \in [Entries -> Entries]
        BY <1>11, <2>1, MoveToHeadType DEF BlockHit, TypeOK
    <2>3. bufData' \in [Entries -> PageData]
        <3> DEFINE page == [l \in Lines |-> IF l \in first .. last THEN Fill
                                            ELSE bufData[EntryOf(p)][l]]
        <3>1. bufData[EntryOf(p)] \in PageData
            BY <2>1 DEF TypeOK
        <3>2. page \in PageData
            BY <3>1
        <3>3. bufData' = [bufData EXCEPT ![EntryOf(p)] = page]
            BY <1>11 DEF BlockHit
        <3> HIDE DEF page
        <3>4. QED
            BY <3>2, <3>3 DEF TypeOK
    <2>4. /\ dirty' \in [Entries -> BOOLEAN]
          /\ blockWritten' \in [Entries -> BOOLEAN]
        BY <1>11, <2>1 DEF BlockHit, TypeOK
    <2>5. transfers' \in [Entries -> 0 .. MaxTransfers]
        BY <1>11, <2>1, TransfersType DEF BlockHit
    <2>6. QED
        BY <1>11, <2>2, <2>3, <2>4, <2>5 DEF BlockHit, TypeOK, logVars
<1>12. ASSUME NEW p \in BlockPages, NEW first \in Lines, NEW last \in Lines,
              BlockMiss(p, first .. last)
       PROVE  TypeOK'
    <2> DEFINE base == IF first .. last # Lines /\ nand[p] # Unprogrammed
                       THEN nand[p] ELSE bufData[LruTail]
               page == [l \in Lines |-> IF l \in first .. last THEN Fill
                                        ELSE base[l]]
    <2>1. LruTail \in Entries /\ p \in Pages
        BY DEF LruTail, TypeOK, SizesAssumption, ContentsAssumption
    <2>2. lru' \in [Entries -> Entries]
        BY <1>12, <2>1, MoveToHeadType DEF BlockMiss, TypeOK
    <2>3. nand' \in [Pages -> PageData \cup {Unprogrammed}]
        BY <1>12, <2>1, FlushedNandType DEF BlockMiss
    <2>4. base \in PageData
        BY <2>1 DEF TypeOK
    <2>5. bufData' = [bufData EXCEPT ![LruTail] = page]
        BY <1>12 DEF BlockMiss
    <2> HIDE DEF base
    <2>6. page \in PageData
        BY <2>4
    <2> HIDE DEF page
    <2>7. bufData' \in [Entries -> PageData]
        BY <2>5, <2>6 DEF TypeOK
    <2>8. /\ dirty' \in [Entries -> BOOLEAN]
          /\ blockWritten' \in [Entries -> BOOLEAN]
          /\ lsa' \in [Entries -> Pages \cup {LsaNone}]
        BY <1>12, <2>1 DEF BlockMiss, TypeOK
    <2>9. transfers' \in [Entries -> 0 .. MaxTransfers]
        BY <1>12, <2>1, TransfersType DEF BlockMiss
    <2>10. QED
        BY <1>12, <2>2, <2>3, <2>7, <2>8, <2>9 DEF BlockMiss, TypeOK, logVars
<1>13. ASSUME NEW e \in Entries, TransferDone(e)
       PROVE  TypeOK'
    <2>1. transfers' \in [Entries -> 0 .. MaxTransfers]
        BY <1>13, TransfersType DEF TransferDone
    <2>2. QED
        BY <1>13, <2>1 DEF TransferDone, TypeOK, logVars
<1>14. CASE UNCHANGED vars
    BY <1>14 DEF TypeOK, vars, logVars, cacheVars
<1>15. QED
    BY <1>1, <1>2, <1>3, <1>4, <1>5, <1>6, <1>7, <1>8, <1>9, <1>10, <1>11,
       <1>12, <1>13, <1>14
    DEF Next, Compaction

(* Every variable keeps its type, whatever the sizes. *)
THEOREM TypeCorrect == Spec => []TypeOK
<1>1. Init => TypeOK
    BY SizesAssumption, EmptyTypes DEF Init, TypeOK
<1>2. TypeOK /\ [Next]_vars => TypeOK'
    BY TypeStep, SizesAssumption, ContentsAssumption
<1>3. QED
    BY <1>1, <1>2, PTL DEF Spec
-----------------------------------------------------------------------------
(* The LRU list and the pages cached *)

(* Relinking an entry to the head loses no entry of the list. *)
LEMMA MoveToHeadKeepsAll ==
    ASSUME SizesAssumption, lru \in [Entries -> Entries],
           \A d \in Entries : \E i \in Entries : lru[i] = d,
           NEW e \in Entries, MoveToHead(e)
    PROVE  \A d \in Entries : \E i \in Entries : lru'[i] = d
<1> DEFINE at == CHOOSE i \in Entries : lru[i] = e
<1>1. at \in Entries /\ lru[at] = e
    OBVIOUS
<1>2. lru' = [i \in Entries |->
                  IF i = 0 THEN e ELSE IF i <= at THEN lru[i - 1] ELSE lru[i]]
    BY DEF MoveToHead
<1> HIDE DEF at
<1>3. SUFFICES ASSUME NEW d \in Entries
               PROVE  \E i \in Entries : lru'[i] = d
    OBVIOUS
<1>4. CASE d = e
    <2>1. 0 \in Entries
        BY DEF SizesAssumption
    <2>2. lru'[0] = d
        BY <1>2, <1>4, <2>1
    <2>3. QED
        BY <2>1, <2>2
<1>5. CASE d # e
    <2>1. PICK i \in Entries : lru[i] = d
        OBVIOUS
    <2>2. CASE i < at
        <3>1. i + 1 \in Entries /\ i + 1 <= at /\ i + 1 # 0 /\ (i + 1) - 1 = i
            BY <1>1, <2>2 DEF SizesAssumption
        <3>2. lru'[i + 1] = d
            BY <1>2, <2>1, <3>1
        <3>3. QED
            BY <3>1, <3>2
    <2>3. CASE at < i
        <3>1. i # 0 /\ ~ (i <= at)
            BY <1>1, <2>3
        <3>2. lru'[i] = d
            BY <1>2, <2>1, <3>1
        <3>3. QED
            BY <3>2
    <2>4. i # at
        BY <1>1, <1>5, <2>1
    <2>5. QED
        BY <1>1, <2>2, <2>3, <2>4
<1>6. QED
    BY <1>4, <1>5

(* logWrite relinks at most one entry and caches no page. *)
LEMMA LogWriteCachedOnce ==
    ASSUME TypeOK, SizesAssumption, CachedOnce,
           NEW a, NEW v, NEW log, NEW count, NEW idx, NEW pages,
           LogWrite(a, v, log, count, idx, pages)
    PROVE  CachedOnce'
<1>1. CASE Cached(a[1])
    <2>1. EntryOf(a[1]) \in Entries /\ MoveToHead(EntryOf(a[1]))
        BY <1>1, EntryOfFact DEF LogWrite, Cached
    <2>2. \A d \in Entries : \E i \in Entries : lru'[i] = d
        BY <2>1, MoveToHeadKeepsAll DEF TypeOK, CachedOnce
    <2>3. QED
        BY <2>2 DEF LogWrite, CachedOnce
<1>2. CASE ~ Cached(a[1])
    BY <1>2 DEF LogWrite, Cached, CachedOnce
<1>3. QED
    BY <1>1, <1>2

LEMMA CachedOnceStep ==
    ASSUME TypeOK, SizesAssumption, CachedOnce, [Next]_vars
    PROVE  CachedOnce'
<1>1. ASSUME NEW a \in Addr, NEW v \in Stores, MemWrite(a, v)
      PROVE  CachedOnce'
    BY <1>1, LogWriteCachedOnce DEF MemWrite
<1>2. CASE FinishCompaction
    BY <1>2, LogWriteCachedOnce DEF FinishCompaction
<1>3. CASE CompactCachedPage
    <2>1. EntryOf(cursor) \in Entries /\ MoveToHead(EntryOf(cursor))
        BY <1>3, EntryOfFact DEF CompactCachedPage, Cached
    <2>2. \A d \in Entries : \E i \in Entries : lru'[i] = d
        BY <2>1, MoveToHeadKeepsAll DEF TypeOK, CachedOnce
    <2>3. QED
        BY <1>3, <2>2 DEF CompactCachedPage, CachedOnce
<1>4. ASSUME NEW a \in Addr, MemReadCached(a)
      PROVE  CachedOnce'
    <2>1. EntryOf(a[1]) \in Entries /\ MoveToHead(EntryOf(a[1]))
        BY <1>4, EntryOfFact DEF MemReadCached
    <2>2. \A d \in Entries : \E i \in Entries : lru'[i] = d
        BY <2>1, MoveToHeadKeepsAll DEF TypeOK, CachedOnce
    <2>3. QED
        BY <1>4, <2>2 DEF MemReadCached, CachedOnce
<1>5. ASSUME NEW a \in Addr, MemReadFlash(a)
      PROVE  CachedOnce'
    <2>1. LruTail \in Entries /\ MoveToHead(LruTail)
        BY <1>5 DEF LruTail, TypeOK, SizesAssumption, MemReadFlash
    <2>2. \A d \in Entries : \E i \in Entries : lru'[i] = d
        BY <2>1, MoveToHeadKeepsAll DEF TypeOK, CachedOnce
    <2>3. lsa' = [lsa EXCEPT ![LruTail] = a[1]]
        BY <1>5 DEF MemReadFlash
    <2>4. \A d \in Entries : lsa[d] # a[1]
        BY <1>5, NotCachedFact DEF MemReadFlash
    <2>5. \A d, e \in Entries : lsa'[d] = lsa'[e] /\ lsa'[d] # LsaNone => d = e
        BY <2>1, <2>3, <2>4 DEF TypeOK, CachedOnce
    <2>6. QED
        BY <2>2, <2>5 DEF CachedOnce
<1>6. ASSUME NEW p, NEW written, BlockHit(p, written)
      PROVE  CachedOnce'
    <2>1. EntryOf(p) \in Entries /\ MoveToHead(EntryOf(p))
        BY <1>6, EntryOfFact DEF BlockHit, Cached
    <2>2. \A d \in Entries : \E i \in Entries : lru'[i] = d
        BY <2>1, MoveToHeadKeepsAll DEF TypeOK, CachedOnce
    <2>3. QED
        BY <1>6, <2>2 DEF BlockHit, CachedOnce
<1>7. ASSUME NEW p, NEW written, BlockMiss(p, written)
      PROVE  CachedOnce'
    <2>1. LruTail \in Entries /\ MoveToHead(LruTail)
        BY <1>7 DEF LruTail, TypeOK, SizesAssumption, BlockMiss
    <2>2. \A d \in Entries : \E i \in Entries : lru'[i] = d
        BY <2>1, MoveToHeadKeepsAll DEF TypeOK, CachedOnce
    <2>3. lsa' = [lsa EXCEPT ![LruTail] = p]
        BY <1>7 DEF BlockMiss
    <2>4. \A d \in Entries : lsa[d] # p
        BY <1>7, NotCachedFact DEF BlockMiss
    <2>5. \A d, e \in Entries : lsa'[d] = lsa'[e] /\ lsa'[d] # LsaNone => d = e
        BY <2>1, <2>3, <2>4 DEF TypeOK, CachedOnce
    <2>6. QED
        BY <2>2, <2>5 DEF CachedOnce
<1>8. ASSUME \/ \E a \in Addr, v \in Stores : StartCompaction(a, v)
             \/ SkipUnusedPage
             \/ CompactUncachedPage
             \/ \E a \in Addr : MemReadLogged(a) \/ MemReadMissing(a)
             \/ \E p \in PageWrites : WritePage(p)
             \/ \E e \in Entries : TransferDone(e)
             \/ UNCHANGED vars
      PROVE  CachedOnce'
    <2>1. lru' = lru /\ lsa' = lsa
        BY <1>8 DEF StartCompaction, SkipUnusedPage, CompactUncachedPage,
                    MemReadLogged, MemReadMissing, WritePage, TransferDone,
                    vars, cacheVars
    <2>2. QED
        BY <2>1 DEF CachedOnce
<1>9. QED
    BY <1>1, <1>2, <1>3, <1>4, <1>5, <1>6, <1>7, <1>8 DEF Next, Compaction

(* Hits, misses, stores and compaction keep the LRU list a list of all     *)
(* entries, and never cache a page twice.                                  *)
THEOREM CachedOnceCorrect == Spec => []CachedOnce
<1>1. Init => CachedOnce
    BY DEF Init, CachedOnce
<1>2. TypeOK /\ CachedOnce /\ [Next]_vars => CachedOnce'
    BY CachedOnceStep, SizesAssumption
<1>3. QED
    BY <1>1, <1>2, TypeCorrect, PTL DEF Spec
-----------------------------------------------------------------------------
(* The log against its index *)

(* The two log invariants for a log, count, index and page list, with no   *)
(* compaction running.                                                     *)
IndexedLog(log, count, idx, pages) ==
    /\ \A b \in Addr : idx[b] # None =>
           /\ idx[b] \in 0 .. count - 1
           /\ log[idx[b]].addressEnd = b
           /\ \A j \in idx[b] + 1 .. count - 1 : log[j].addressEnd # b
    /\ \A k \in 0 .. count - 1 :
           log[k].addressEnd[1] \in pages /\ idx[log[k].addressEnd] # None

(* logWrite appends to an indexed log and leaves an indexed log. *)
LEMMA LogWriteIndexed ==
    ASSUME SizesAssumption, NEW a \in Addr, NEW v \in Payloads,
           NEW log \in [Offsets -> [addressEnd : Addr, payload : Payloads]],
           NEW count \in 0 .. MaxLogEntries,
           NEW idx \in [Addr -> Offsets \cup {None}],
           NEW pages \in SUBSET Pages,
           IndexedLog(log, count, idx, pages),
           LogWrite(a, v, log, count, idx, pages)
    PROVE  IndexedLog(write_log_entries', write_log_count', logIndex',
                      nandPageList')
<1>1. /\ write_log_entries' =
             [log EXCEPT ![count] = [addressEnd |-> a, payload |-> v]]
      /\ write_log_count' = count + 1
      /\ logIndex' = [idx EXCEPT ![a] = count]
      /\ nandPageList' = pages \cup {a[1]}
    BY DEF LogWrite, InsertLogIndex
<1>2. count \in Offsets /\ count < MaxLogEntries
    BY DEF LogWrite, SizesAssumption
<1>3. write_log_entries'[count].addressEnd = a
    BY <1>1, <1>2
<1>4. \A k \in 0 .. count - 1 : write_log_entries'[k] = log[k]
    BY <1>1, <1>2
<1> HIDE DEF Addr
<1>5. ASSUME NEW b \in Addr, logIndex'[b] # None
      PROVE  /\ logIndex'[b] \in 0 .. write_log_count' - 1
             /\ write_log_entries'[logIndex'[b]].addressEnd = b
             /\ \A j \in logIndex'[b] + 1 .. write_log_count' - 1 :
                    write_log_entries'[j].addressEnd # b
    <2>1. CASE b = a
        <3>1. logIndex'[b] = count
            BY <1>1, <2>1
        <3>2. QED
            BY <1>1, <1>2, <1>3, <2>1, <3>1
    <2>2. CASE b # a
        <3>1. logIndex'[b] = idx[b]
            BY <1>1, <2>2
        <3>2. /\ idx[b] \in 0 .. count - 1
              /\ log[idx[b]].addressEnd = b
              /\ \A j \in idx[b] + 1 .. count - 1 : log[j].addressEnd # b
            BY <1>5, <3>1 DEF IndexedLog
        <3>3. \A j \in idx[b] + 1 .. count :
                  write_log_entries'[j].addressEnd # b
            BY <1>2, <1>3, <1>4, <2>2, <3>2
        <3>4. QED
            BY <1>1, <1>2, <1>4, <3>1, <3>2, <3>3
    <2>3. QED
        BY <2>1, <2>2
<1>6. ASSUME NEW k \in 0 .. write_log_count' - 1
      PROVE  /\ write_log_entries'[k].addressEnd[1] \in nandPageList'
             /\ logIndex'[write_log_entries'[k].addressEnd] # None
    <2>1. CASE k = count
        BY <1>1, <1>2, <1>3, <2>1
    <2>2. CASE k # count
        <3>1. k \in 0 .. count - 1
            BY <1>1, <1>2, <2>2
        <3>2. /\ write_log_entries'[k].addressEnd = log[k].addressEnd
              /\ log[k].addressEnd \in Addr
            BY <1>2, <1>4, <3>1
        <3>3. log[k].addressEnd[1] \in pages /\ idx[log[k].addressEnd] # None
            BY <3>1 DEF IndexedLog
        <3>4. logIndex'[log[k].addressEnd] # None
            BY <1>1, <1>2, <3>2, <3>3
        <3>5. QED
            BY <1>1, <3>2, <3>3, <3>4
    <2>3. QED
        BY <2>1, <2>2
<1>7. QED
    BY <1>5, <1>6 DEF IndexedLog

LogInv == IndexNewest /\ LoggedLinesIndexed

(* Every offset in use is a log entry's, and every entry names a line. *)
LEMMA LoggedAddr ==
    ASSUME TypeOK, SizesAssumption, NEW k \in 0 .. write_log_count - 1
    PROVE  k \in Offsets /\ write_log_entries[k].addressEnd \in Addr
<1>1. k \in Offsets
    BY DEF TypeOK, SizesAssumption
<1>2. write_log_entries[k] \in [addressEnd : Addr, payload : Payloads]
    BY <1>1 DEF TypeOK
<1>3. QED
    BY <1>1, <1>2

(* An offset in use is an offset of the log. *)
LEMMA UsedOffset ==
    ASSUME NEW max \in Nat, NEW count \in 0 .. max, NEW k \in 0 .. count - 1
    PROVE  k \in 0 .. max - 1
OBVIOUS

LEMMA LoggedAddrNext ==
    ASSUME TypeOK', SizesAssumption, NEW k \in 0 .. write_log_count' - 1
    PROVE  write_log_entries'[k].addressEnd[1] \in Pages
<1>1. k \in Offsets
    <2>1. write_log_count' \in 0 .. MaxLogEntries /\ MaxLogEntries \in Nat
        BY DEF TypeOK, SizesAssumption
    <2>2. QED
        BY <2>1, UsedOffset
<1>2. write_log_entries'[k] \in [addressEnd : Addr, payload : Payloads]
    BY <1>1 DEF TypeOK
<1>3. QED
    BY <1>1, <1>2

(* A step to an indexed log is a step to both invariants. *)
LEMMA IndexedLogFact ==
    ASSUME IndexedLog(write_log_entries', write_log_count', logIndex',
                      nandPageList')
    PROVE  LogInv'
BY DEF IndexedLog, LogInv, IndexNewest, LoggedLinesIndexed, NewestFor

(* With no compaction running the invariants say the log is indexed. *)
LEMMA IdleIndexedLog ==
    ASSUME TypeOK, SizesAssumption, LogInv, cursor = Idle
    PROVE  IndexedLog(write_log_entries, write_log_count, logIndex,
                      nandPageList)
<1>1. \A k \in 0 .. write_log_count - 1 :
          write_log_entries[k].addressEnd \in Addr
    BY LoggedAddr
<1>2. \A a \in Addr : cursor <= a[1]
    OBVIOUS
<1> HIDE DEF Addr
<1>3. QED
    BY <1>1, <1>2
    DEF LogInv, IndexNewest, LoggedLinesIndexed, NewestFor, IndexedLog

(* An empty log is indexed. *)
LEMMA EmptyIndexedLog == IndexedLog(EmptyLog, 0, EmptyIndex, {})
BY DEF IndexedLog, EmptyIndex

LEMMA LogInvStep ==
    ASSUME TypeOK, SizesAssumption, ContentsAssumption, LogInv, [Next]_vars
    PROVE  LogInv'
<1>1. ASSUME NEW a \in Addr, NEW v \in Stores, MemWrite(a, v)
      PROVE  LogInv'
    <2>1. LogWrite(a, v, write_log_entries, write_log_count, logIndex,
                   nandPageList)
        BY <1>1 DEF MemWrite
    <2>2. IndexedLog(write_log_entries, write_log_count, logIndex,
                     nandPageList)
        BY <1>1, IdleIndexedLog DEF MemWrite
    <2>3. v \in Payloads
        OBVIOUS
    <2>4. IndexedLog(write_log_entries', write_log_count', logIndex',
                     nandPageList')
        BY <2>1, <2>2, <2>3, LogWriteIndexed DEF TypeOK
    <2>5. QED
        BY <2>4, IndexedLogFact
<1>2. CASE FinishCompaction
    <2>1. LogWrite(pending[1], pending[2], EmptyLog, 0, EmptyIndex, {})
        BY <1>2 DEF FinishCompaction
    <2>2. pending[1] \in Addr /\ pending[2] \in Payloads
        BY DEF TypeOK
    <2>3. 0 \in 0 .. MaxLogEntries /\ {} \in SUBSET Pages
        BY DEF SizesAssumption
    <2> HIDE DEF Pages, Offsets, Addr, Payloads, None
    <2>4. IndexedLog(write_log_entries', write_log_count', logIndex',
                     nandPageList')
        BY <2>1, <2>2, <2>3, EmptyTypes, EmptyIndexedLog, LogWriteIndexed
    <2>5. QED
        BY <2>4, IndexedLogFact
<1>3. CASE CompactCachedPage
    <2>1. /\ write_log_entries' = write_log_entries
          /\ write_log_count' = write_log_count
          /\ nandPageList' = nandPageList
          /\ lsa' = lsa
          /\ cursor \in Pages
          /\ cursor' = cursor + 1
        BY <1>3 DEF CompactCachedPage, Compacting
    <2>2. \A a \in Addr :
              logIndex'[a] = IF a[1] = cursor THEN None ELSE logIndex[a]
        BY <1>3 DEF CompactCachedPage
    <2>3. IndexNewest'
        BY <2>1, <2>2 DEF LogInv, IndexNewest, NewestFor
    <2>4. Cached(cursor)
        BY <1>3 DEF CompactCachedPage, Cached
    <2>5. ASSUME NEW k \in 0 .. write_log_count - 1,
                 NEW a, a = write_log_entries[k].addressEnd
          PROVE  /\ a[1] \in nandPageList
                 /\ (cursor + 1 <= a[1] \/ ~ Cached(a[1]))
                        => logIndex'[a] # None
        <3>1. a \in Addr
            BY <2>5, LoggedAddr
        <3>2. /\ a[1] \in nandPageList
              /\ (cursor <= a[1] \/ ~ Cached(a[1])) => logIndex[a] # None
            BY <2>5 DEF LogInv, LoggedLinesIndexed
        <3>3. cursor + 1 <= a[1] => cursor <= a[1] /\ a[1] # cursor
            BY <2>1, <3>1
        <3>4. QED
            BY <2>2, <2>4, <3>1, <3>2, <3>3
    <2>6. \A p : Cached(p)' = Cached(p)
        BY <2>1 DEF Cached, EntryOf
    <2>7. LoggedLinesIndexed'
        BY <2>1, <2>5, <2>6 DEF LoggedLinesIndexed
    <2>8. QED
        BY <2>3, <2>7 DEF LogInv
<1>4. ASSUME \/ \E a \in Addr : MemReadFlash(a)
             \/ \E p \in PageWrites : WritePage(p)
             \/ \E p \in BlockPages, first, last \in Lines :
                    BlockHit(p, first .. last) \/ BlockMiss(p, first .. last)
             \/ \E e \in Entries : TransferDone(e)
      PROVE  LogInv'
    <2>1. UNCHANGED logVars /\ cursor = Idle
        BY <1>4 DEF MemReadFlash, WritePage, BlockHit, BlockMiss, TransferDone
    <2>2. IndexedLog(write_log_entries, write_log_count, logIndex,
                     nandPageList)
        BY <2>1, IdleIndexedLog
    <2>3. QED
        BY <2>1, <2>2, IndexedLogFact DEF logVars
<1>5. ASSUME \/ \E a \in Addr, v \in Stores : StartCompaction(a, v)
             \/ SkipUnusedPage
             \/ CompactUncachedPage
             \/ \E a \in Addr : \/ MemReadCached(a)
                                \/ MemReadLogged(a)
                                \/ MemReadMissing(a)
             \/ UNCHANGED vars
      PROVE  LogInv'
    <2>1. /\ UNCHANGED <<write_log_entries, write_log_count, logIndex,
                         nandPageList, lsa>>
          /\ cursor' = cursor \/ cursor = Idle \/ cursor' = cursor + 1
        BY <1>5 DEF StartCompaction, SkipUnusedPage, CompactUncachedPage,
                    MemReadCached, MemReadLogged, MemReadMissing,
                    vars, logVars, cacheVars
    <2>2. IndexNewest'
        BY <2>1 DEF LogInv, IndexNewest, NewestFor
    <2>3. \A p : Cached(p)' = Cached(p)
        BY <2>1 DEF Cached, EntryOf
    <2>4. \A p \in Pages : cursor' <= p => cursor <= p
        <3>1. cursor \in Int
            BY DEF TypeOK, SizesAssumption
        <3>2. \A p \in Pages : p \in Nat
            OBVIOUS
        <3> HIDE DEF Pages
        <3>3. QED
            BY <2>1, <3>1, <3>2
    <2>5. \A k \in 0 .. write_log_count - 1 :
              write_log_entries[k].addressEnd[1] \in Pages
        BY LoggedAddr
    <2> HIDE DEF Pages
    <2>6. LoggedLinesIndexed'
        BY <2>1, <2>3, <2>4, <2>5 DEF LogInv, LoggedLinesIndexed
    <2>7. QED
        BY <2>2, <2>6 DEF LogInv
<1>6. QED
    BY <1>1, <1>2, <1>3, <1>4, <1>5 DEF Next, Compaction

LEMMA LogInvCorrect == Spec => []LogInv
<1>1. Init => LogInv
    BY DEF Init, LogInv, IndexNewest, LoggedLinesIndexed, EmptyIndex
<1>2. TypeOK /\ LogInv /\ [Next]_vars => LogInv'
    BY LogInvStep, SizesAssumption, ContentsAssumption
<1>3. QED
    BY <1>1, <1>2, TypeCorrect, PTL DEF Spec

(* An index slot in use names the newest log entry of its line. *)
THEOREM IndexNewestCorrect == Spec => []IndexNewest
BY LogInvCorrect, PTL DEF LogInv

(* Compaction misses no logged line by walking the page list and index. *)
THEOREM LoggedLinesIndexedCorrect == Spec => []LoggedLinesIndexed
BY LogInvCorrect, PTL DEF LogInv
-----------------------------------------------------------------------------
(* Flash and dirty bits against the log *)

(* A line has one newest log entry. *)
LEMMA NewestForUnique ==
    ASSUME TypeOK, SizesAssumption, NEW a \in Addr, NEW j, NEW k,
           NewestFor(j, a), NewestFor(k, a)
    PROVE  j = k
<1>1. j \in Int /\ k \in Int
    BY DEF NewestFor, TypeOK, SizesAssumption
<1>2. CASE j < k
    <2>1. k \in j + 1 .. write_log_count - 1
        BY <1>1, <1>2 DEF NewestFor
    <2>2. QED
        BY <2>1 DEF NewestFor
<1>3. CASE k < j
    <2>1. j \in k + 1 .. write_log_count - 1
        BY <1>1, <1>3 DEF NewestFor
    <2>2. QED
        BY <2>1 DEF NewestFor
<1>4. QED
    BY <1>1, <1>2, <1>3

(* Flash holds the newest payload of log entry k's line. *)
OnFlash(k) ==
    LET a == write_log_entries[k].addressEnd
    IN  /\ nand[a[1]] # Unprogrammed
        /\ nand[a[1]][a[2]] = write_log_entries[k].payload

LEMMA CompactedLinesOnFlashStep ==
    ASSUME TypeOK, SizesAssumption, ContentsAssumption, LogInv,
           CompactedLinesOnFlash, [Next]_vars
    PROVE  CompactedLinesOnFlash'
<1> USE DEF CompactedLinesOnFlash
<1>1. ASSUME cursor' \in {Idle, Hung, 0}
      PROVE  CompactedLinesOnFlash'
    <2>1. TypeOK'
        BY TypeStep
    <2>2. ASSUME NEW k \in 0 .. write_log_count' - 1
          PROVE  ~ (write_log_entries'[k].addressEnd[1] < cursor')
        <3>1. write_log_entries'[k].addressEnd[1] \in Pages
            BY <2>1, <2>2, LoggedAddrNext
        <3>2. QED
            BY <1>1, <3>1
    <2>3. QED
        BY <2>2
<1>2. ASSUME \/ \E a \in Addr, v \in Stores : MemWrite(a, v)
             \/ \E a \in Addr, v \in Stores : StartCompaction(a, v)
             \/ FinishCompaction
             \/ \E a \in Addr : \/ MemReadCached(a)
                                \/ MemReadLogged(a)
                                \/ MemReadFlash(a)
                                \/ MemReadMissing(a)
             \/ \E p \in PageWrites : WritePage(p)
             \/ \E p \in BlockPages, first, last \in Lines :
                    BlockHit(p, first .. last) \/ BlockMiss(p, first .. last)
             \/ \E e \in Entries : TransferDone(e)
      PROVE  CompactedLinesOnFlash'
    <2>1. cursor' \in {Idle, Hung, 0}
        BY <1>2 DEF MemWrite, StartCompaction, FinishCompaction, vars,
                    MemReadCached, MemReadLogged, MemReadFlash, Synced,
                    MemReadMissing, WritePage, BlockHit, BlockMiss,
                    TransferDone
    <2>2. QED
        BY <1>1, <2>1
<1>3. ASSUME /\ UNCHANGED <<write_log_entries, write_log_count, lsa>>
             /\ cursor \in Pages
             /\ cursor' = cursor + 1
             /\ \A p \in Pages :
                    p # cursor /\ ~ Cached(p) => nand'[p] = nand[p]
             /\ \A k \in 0 .. write_log_count - 1 :
                    LET a == write_log_entries[k].addressEnd
                    IN  /\ NewestFor(k, a) /\ a[1] = cursor
                        /\ ~ Cached(a[1])
                        => OnFlash(k)'
      PROVE  CompactedLinesOnFlash'
    <2>1. \A p : Cached(p)' = Cached(p)
        BY <1>3 DEF Cached, EntryOf
    <2>2. \A k, a : NewestFor(k, a)' = NewestFor(k, a)
        BY <1>3 DEF NewestFor
    <2>3. SUFFICES ASSUME NEW k \in 0 .. write_log_count - 1,
                          NEW a, a = write_log_entries[k].addressEnd,
                          NewestFor(k, a), a[1] < cursor + 1, ~ Cached(a[1])
                   PROVE  /\ nand'[a[1]] # Unprogrammed
                          /\ nand'[a[1]][a[2]] = write_log_entries[k].payload
        BY <1>3, <2>1, <2>2
    <2>4. a \in Addr
        BY <2>3, LoggedAddr
    <2>5. CASE a[1] = cursor
        BY <1>3, <2>3, <2>5 DEF OnFlash
    <2>6. CASE a[1] # cursor
        <3>1. a[1] \in Pages /\ a[1] < cursor
            BY <1>3, <2>3, <2>4, <2>6
        <3>2. nand[a[1]] # Unprogrammed
              /\ nand[a[1]][a[2]] = write_log_entries[k].payload
            BY <2>3, <3>1
        <3>3. QED
            BY <1>3, <2>3, <2>6, <3>1, <3>2
    <2>7. QED
        BY <2>5, <2>6
<1>4. CASE SkipUnusedPage
    <2>1. \A k \in 0 .. write_log_count - 1 :
              write_log_entries[k].addressEnd[1] # cursor
        BY <1>4 DEF SkipUnusedPage, LogInv, LoggedLinesIndexed
    <2>2. QED
        BY <1>3, <1>4, <2>1
        DEF SkipUnusedPage, Compacting, logVars, cacheVars
<1>5. CASE CompactCachedPage
    <2>1. Cached(cursor) /\ cursor \in Pages
        BY <1>5 DEF CompactCachedPage, Compacting, Cached
    <2>2. EntryOf(cursor) \in Entries /\ lsa[EntryOf(cursor)] = cursor
        BY <2>1, EntryOfFact
    <2>3. \A p \in Pages : p # cursor => nand'[p] = nand[p]
        BY <1>5, <2>2 DEF CompactCachedPage, FlushedNand, TypeOK
    <2>4. QED
        BY <1>3, <1>5, <2>1, <2>3 DEF CompactCachedPage
<1>6. CASE CompactUncachedPage
    <2>1. cursor \in Pages /\ ~ Cached(cursor)
        BY <1>6 DEF CompactUncachedPage, Compacting
    <2>2. nand' = [nand EXCEPT ![cursor] = Merged(cursor, compactBuf)]
        BY <1>6 DEF CompactUncachedPage
    <2>3. nand'[cursor] = Merged(cursor, compactBuf)
        BY <2>1, <2>2 DEF TypeOK
    <2>4. nand'[cursor] # Unprogrammed
        <3>1. compactBuf \in PageData
            BY DEF TypeOK
        <3> HIDE DEF Pages, PageData
        <3>2. QED
            BY <2>1, <2>3, <3>1, MergedType DEF ContentsAssumption
    <2>5. ASSUME NEW k \in 0 .. write_log_count - 1,
                 NEW a, a = write_log_entries[k].addressEnd,
                 NewestFor(k, a), a[1] = cursor
          PROVE  nand'[a[1]][a[2]] = write_log_entries[k].payload
        <3>1. a \in Addr
            BY <2>5, LoggedAddr
        <3>2. logIndex[a] # None
            BY <2>1, <2>5 DEF LogInv, LoggedLinesIndexed
        <3>3. NewestFor(logIndex[a], a)
            BY <3>1, <3>2 DEF LogInv, IndexNewest
        <3>4. logIndex[a] = k
            BY <2>5, <3>1, <3>3, NewestForUnique
        <3>5. a = <<cursor, a[2]>> /\ a[2] \in Lines
            BY <2>5, <3>1
        <3>6. Merged(cursor, compactBuf)[a[2]] = write_log_entries[k].payload
            BY <3>2, <3>4, <3>5 DEF Merged
        <3>7. QED
            BY <2>3, <2>5, <3>6
    <2>6. \A p \in Pages : p # cursor => nand'[p] = nand[p]
        BY <2>2 DEF TypeOK
    <2>7. UNCHANGED <<write_log_entries, write_log_count, lsa>>
          /\ cursor' = cursor + 1
        BY <1>6 DEF CompactUncachedPage, logVars
    <2>8. ASSUME NEW k \in 0 .. write_log_count - 1,
                 NewestFor(k, write_log_entries[k].addressEnd),
                 write_log_entries[k].addressEnd[1] = cursor
          PROVE  OnFlash(k)'
        <3> DEFINE a == write_log_entries[k].addressEnd
        <3>1. nand'[a[1]][a[2]] = write_log_entries[k].payload
            BY <2>5, <2>8
        <3>2. nand'[a[1]] # Unprogrammed
            BY <2>4, <2>8
        <3>3. QED
            BY <2>7, <3>1, <3>2 DEF OnFlash
    <2>9. QED
        BY <1>3, <2>1, <2>6, <2>7, <2>8
<1>7. CASE UNCHANGED vars
    BY <1>7 DEF vars, logVars, cacheVars, NewestFor, Cached, EntryOf
<1>8. QED
    BY <1>2, <1>4, <1>5, <1>6, <1>7 DEF Next, Compaction

(* What compaction wrote for an uncached page stays on flash until the log *)
(* is recycled.                                                            *)
THEOREM CompactedLinesOnFlashCorrect == Spec => []CompactedLinesOnFlash
<1>1. Init => CompactedLinesOnFlash
    BY DEF Init, CompactedLinesOnFlash
<1>2. TypeOK /\ LogInv /\ CompactedLinesOnFlash /\ [Next]_vars
          => CompactedLinesOnFlash'
    BY CompactedLinesOnFlashStep, SizesAssumption, ContentsAssumption
<1>3. QED
    BY <1>1, <1>2, TypeCorrect, LogInvCorrect, PTL DEF Spec

(* Both values that say no compaction runs come before any page.           *)
LEMMA HungFirst ==
    ASSUME TypeOK, NEW e \in Entries
    PROVE  Idle <= lsa[e] /\ Hung <= lsa[e]
<1>1. \A x \in Pages \cup {LsaNone} : Idle <= x /\ Hung <= x
    OBVIOUS
<1> HIDE DEF Pages, Entries, Idle, Hung
<1>2. QED
    BY <1>1 DEF TypeOK

LEMMA DirtyPagesListedStep ==
    ASSUME TypeOK, SizesAssumption, CachedOnce, DirtyPagesListed, [Next]_vars
    PROVE  DirtyPagesListed'
<1> USE DEF DirtyPagesListed
<1>1. \A e \in Entries : Idle <= lsa[e] /\ Hung <= lsa[e]
    BY HungFirst
<1>2. ASSUME NEW a \in Addr, NEW v \in Stores, MemWrite(a, v)
      PROVE  DirtyPagesListed'
    <2>1. /\ nandPageList' = nandPageList \cup {a[1]}
          /\ UNCHANGED <<lsa, cursor, blockWritten>>
          /\ cursor = Idle
        BY <1>2 DEF MemWrite, LogWrite, InsertLogIndex
    <2>2. CASE Cached(a[1])
        <3>1. EntryOf(a[1]) \in Entries /\ lsa[EntryOf(a[1])] = a[1]
            BY <2>2, EntryOfFact
        <3>2. dirty' = [dirty EXCEPT ![EntryOf(a[1])] = TRUE]
            BY <1>2, <2>2 DEF MemWrite, LogWrite, Cached
        <3>3. QED
            BY <1>1, <2>1, <3>1, <3>2 DEF TypeOK
    <2>3. CASE ~ Cached(a[1])
        BY <1>2, <2>1, <2>3 DEF MemWrite, LogWrite, Cached
    <2>4. QED
        BY <2>2, <2>3
<1>3. ASSUME NEW a \in Addr, NEW v \in Stores, StartCompaction(a, v)
      PROVE  DirtyPagesListed'
    <2>1. \A p \in nandPageList : 0 <= p
        BY DEF TypeOK
    <2>2. QED
        BY <1>3, <2>1 DEF StartCompaction, logVars, cacheVars
<1>4. CASE SkipUnusedPage
    <2>1. /\ UNCHANGED <<dirty, blockWritten, lsa, nandPageList>>
          /\ cursor' = cursor + 1
        BY <1>4 DEF SkipUnusedPage, logVars, cacheVars
    <2>2. cursor \notin nandPageList /\ cursor \in Int
        BY <1>4 DEF SkipUnusedPage, Compacting
    <2>3. \A p \in nandPageList : p \in Int
        BY DEF TypeOK
    <2>4. QED
        BY <2>1, <2>2, <2>3
<1>5. CASE CompactCachedPage
    <2> DEFINE c == EntryOf(cursor)
    <2>1. Cached(cursor) /\ cursor \in Pages
        BY <1>5 DEF CompactCachedPage, Compacting, Cached
    <2>2. c \in Entries /\ lsa[c] = cursor
        BY <2>1, EntryOfFact
    <2>3. /\ dirty' = [dirty EXCEPT ![c] = FALSE]
          /\ blockWritten' = [blockWritten EXCEPT ![c] = FALSE]
          /\ UNCHANGED <<lsa, nandPageList>>
          /\ cursor' = cursor + 1
        BY <1>5 DEF CompactCachedPage
    <2> HIDE DEF c
    <2>4. ASSUME NEW e \in Entries, dirty'[e], ~ blockWritten'[e]
          PROVE  lsa[e] \in nandPageList /\ cursor + 1 <= lsa[e]
        <3>1. e # c /\ dirty[e] /\ ~ blockWritten[e]
            BY <2>2, <2>3, <2>4 DEF TypeOK
        <3>2. lsa[e] \in nandPageList /\ cursor <= lsa[e]
            BY <3>1
        <3>3. lsa[e] # cursor
            BY <2>1, <2>2, <3>1 DEF CachedOnce
        <3>4. lsa[e] \in Int
            BY <3>2 DEF TypeOK
        <3>5. QED
            BY <2>1, <3>2, <3>3, <3>4
    <2>5. QED
        BY <2>3, <2>4
<1>6. CASE CompactUncachedPage
    <2>1. ~ Cached(cursor) /\ cursor \in Pages
        BY <1>6 DEF CompactUncachedPage, Compacting
    <2>2. \A e \in Entries : lsa[e] # cursor
        BY <2>1, NotCachedFact
    <2>3. /\ UNCHANGED <<dirty, blockWritten, lsa, nandPageList>>
          /\ cursor' = cursor + 1
        BY <1>6 DEF CompactUncachedPage, logVars
    <2>4. \A p \in nandPageList : p \in Int
        BY DEF TypeOK
    <2>5. QED
        BY <2>1, <2>2, <2>3, <2>4
<1>7. CASE FinishCompaction
    <2> DEFINE a == pending[1]
    <2>1. /\ nandPageList' = {} \cup {a[1]}
          /\ UNCHANGED <<lsa, blockWritten>>
          /\ cursor' = Idle
          /\ cursor = NumPages
        BY <1>7 DEF FinishCompaction, LogWrite, InsertLogIndex
    <2>2. \A e \in Entries : dirty[e] => blockWritten[e]
        <3>1. \A p \in nandPageList : ~ (NumPages <= p)
            BY DEF TypeOK, SizesAssumption
        <3>2. QED
            BY <2>1, <3>1
    <2>3. \A e \in Entries : cursor' <= lsa[e]
        BY <1>1, <2>1
    <2>4. CASE Cached(a[1])
        <3>1. EntryOf(a[1]) \in Entries /\ lsa[EntryOf(a[1])] = a[1]
            BY <2>4, EntryOfFact
        <3>2. dirty' = [dirty EXCEPT ![EntryOf(a[1])] = TRUE]
            BY <1>7, <2>4 DEF FinishCompaction, LogWrite, Cached
        <3>3. \A e \in Entries :
                  dirty'[e] /\ ~ blockWritten[e] => e = EntryOf(a[1])
            BY <2>2, <3>2 DEF TypeOK
        <3>4. QED
            BY <2>1, <2>3, <3>1, <3>3
    <2>5. CASE ~ Cached(a[1])
        <3>1. dirty' = dirty
            BY <1>7, <2>5 DEF FinishCompaction, LogWrite, Cached
        <3>2. QED
            BY <2>1, <2>2, <3>1
    <2>6. QED
        BY <2>4, <2>5
<1>8. ASSUME NEW a \in Addr, MemReadFlash(a)
      PROVE  DirtyPagesListed'
    <2>1. /\ UNCHANGED nandPageList
          /\ cursor = Idle
          /\ cursor' \in {Idle, Hung}
          /\ dirty' = [dirty EXCEPT ![LruTail] = FALSE]
          /\ blockWritten' = [blockWritten EXCEPT ![LruTail] = FALSE]
          /\ lsa' = [lsa EXCEPT ![LruTail] = a[1]]
        BY <1>8 DEF MemReadFlash, Synced, logVars
    <2>2. LruTail \in Entries
        BY DEF LruTail, TypeOK, SizesAssumption
    <2>3. \A e \in Entries :
              dirty'[e] => /\ dirty[e]
                           /\ lsa'[e] = lsa[e]
                           /\ blockWritten'[e] = blockWritten[e]
        BY <2>1, <2>2 DEF TypeOK
    <2>4. \A e \in Entries : cursor' <= lsa[e]
        BY <1>1, <2>1
    <2>5. ASSUME NEW e \in Entries, dirty'[e], ~ blockWritten'[e]
          PROVE  lsa'[e] \in nandPageList' /\ cursor' <= lsa'[e]
        <3>1. dirty[e] /\ lsa'[e] = lsa[e] /\ ~ blockWritten[e]
            BY <2>3, <2>5
        <3>2. QED
            BY <2>1, <2>4, <3>1
    <2>6. QED
        BY <2>5
<1>9. ASSUME NEW p \in BlockPages, NEW first \in Lines, NEW last \in Lines,
             BlockHit(p, first .. last)
      PROVE  DirtyPagesListed'
    <2>1. PICK block : block = (first .. last # {})
        OBVIOUS
    <2>2. /\ UNCHANGED <<lsa, nandPageList, cursor>>
          /\ dirty' = [dirty EXCEPT ![EntryOf(p)] = @ \/ block]
          /\ blockWritten' = [blockWritten EXCEPT ![EntryOf(p)] = @ \/ block]
        BY <1>9, <2>1 DEF BlockHit, logVars
    <2>3. \A e \in Entries :
              dirty'[e] /\ ~ blockWritten'[e] => dirty[e] /\ ~ blockWritten[e]
        BY <2>2 DEF TypeOK
    <2>4. QED
        BY <2>2, <2>3
<1>10. ASSUME NEW p \in BlockPages, NEW first \in Lines, NEW last \in Lines,
              BlockMiss(p, first .. last)
       PROVE  DirtyPagesListed'
    <2>1. PICK block : block = (first .. last # {})
        OBVIOUS
    <2>2. /\ UNCHANGED <<nandPageList, cursor>>
          /\ dirty' = [dirty EXCEPT ![LruTail] = block]
          /\ blockWritten' = [blockWritten EXCEPT ![LruTail] = block]
          /\ lsa' = [lsa EXCEPT ![LruTail] = p]
        BY <1>10, <2>1 DEF BlockMiss, logVars
    <2>3. LruTail \in Entries
        BY DEF LruTail, TypeOK, SizesAssumption
    <2>4. \A e \in Entries :
              dirty'[e] /\ ~ blockWritten'[e]
                  => dirty[e] /\ ~ blockWritten[e] /\ lsa'[e] = lsa[e]
        BY <2>2, <2>3 DEF TypeOK
    <2>5. QED
        BY <2>2, <2>4
<1>11. ASSUME \E p \in PageWrites : WritePage(p)
       PROVE  DirtyPagesListed'
    <2>1. /\ UNCHANGED <<dirty, blockWritten, lsa, nandPageList>>
          /\ cursor' \in {Idle, Hung}
        BY <1>11 DEF WritePage, Synced, logVars, cacheVars
    <2>2. \A e \in Entries : cursor' <= lsa[e]
        BY <1>1, <2>1
    <2>3. QED
        BY <2>1, <2>2
<1>12. ASSUME \/ \E a \in Addr : \/ MemReadCached(a)
                                 \/ MemReadLogged(a)
                                 \/ MemReadMissing(a)
              \/ \E e \in Entries : TransferDone(e)
              \/ UNCHANGED vars
       PROVE  DirtyPagesListed'
    <2>1. UNCHANGED <<dirty, blockWritten, lsa, nandPageList, cursor>>
        BY <1>12 DEF MemReadCached, MemReadLogged, MemReadMissing,
                     TransferDone, vars, logVars, cacheVars
    <2>2. QED
        BY <2>1
<1>13. QED
    BY <1>2, <1>3, <1>4, <1>5, <1>6, <1>7, <1>8, <1>9, <1>10, <1>11, <1>12
    DEF Next, Compaction

(* What memory stores alone wrote to a cached page does not outlive the    *)
(* log that describes it.                                                  *)
THEOREM DirtyPagesListedCorrect == Spec => []DirtyPagesListed
<1>1. Init => DirtyPagesListed
    BY DEF Init, DirtyPagesListed
<1>2. TypeOK /\ CachedOnce /\ DirtyPagesListed /\ [Next]_vars
          => DirtyPagesListed'
    BY DirtyPagesListedStep, SizesAssumption
<1>3. QED
    BY <1>1, <1>2, TypeCorrect, CachedOnceCorrect, PTL DEF Spec
-----------------------------------------------------------------------------
(* The log and its index implement LineLog *)

(* Compaction runs only on a full log: nothing is appended before the log  *)
(* is recycled.                                                            *)
FullWhileCompacting ==
    cursor \notin {Idle, Hung} => write_log_count = MaxLogEntries

LEMMA FullStep ==
    ASSUME TypeOK, SizesAssumption, FullWhileCompacting, [Next]_vars
    PROVE  FullWhileCompacting'
<1>1. ASSUME NEW a \in Addr, NEW v \in Stores, StartCompaction(a, v)
      PROVE  FullWhileCompacting'
    <2>1. write_log_count = MaxLogEntries
        BY <1>1 DEF StartCompaction, TypeOK, SizesAssumption
    <2>2. QED
        BY <1>1, <2>1 DEF StartCompaction, FullWhileCompacting, logVars
<1>2. ASSUME cursor' \in {Idle, Hung}
      PROVE  FullWhileCompacting'
    BY <1>2 DEF FullWhileCompacting
<1>3. ASSUME cursor \notin {Idle, Hung}, write_log_count' = write_log_count
      PROVE  FullWhileCompacting'
    BY <1>3 DEF FullWhileCompacting
<1>4. CASE SkipUnusedPage \/ CompactCachedPage \/ CompactUncachedPage
    BY <1>3, <1>4 DEF SkipUnusedPage, CompactCachedPage, CompactUncachedPage,
                      Compacting, logVars
<1>5. CASE UNCHANGED vars
    BY <1>5 DEF vars, logVars, FullWhileCompacting
<1>6. QED
    BY <1>1, <1>2, <1>4, <1>5
    DEF Next, Compaction, MemWrite, FinishCompaction, MemReadCached,
        MemReadLogged, MemReadFlash, MemReadMissing, WritePage, Synced,
        BlockHit, BlockMiss, TransferDone, vars

(* The payload an index finds for a line. *)
Found(log, idx, a) ==
    IF idx[a] = None THEN Unprogrammed ELSE log[idx[a]].payload

(* logWrite changes what is found for its line, and for no other. *)
LEMMA LogWriteFound ==
    ASSUME SizesAssumption, NEW a \in Addr, NEW v \in Payloads,
           NEW log \in [Offsets -> [addressEnd : Addr, payload : Payloads]],
           NEW count \in 0 .. MaxLogEntries,
           NEW idx \in [Addr -> Offsets \cup {None}],
           NEW pages \in SUBSET Pages,
           IndexedLog(log, count, idx, pages),
           LogWrite(a, v, log, count, idx, pages)
    PROVE  /\ Newest' = [b \in Addr |-> IF b = a THEN v ELSE Found(log, idx, b)]
           /\ LastStore' = <<a, v>>
           /\ write_log_count' = count + 1
           /\ count < MaxLogEntries
<1>1. /\ write_log_entries' =
             [log EXCEPT ![count] = [addressEnd |-> a, payload |-> v]]
      /\ write_log_count' = count + 1
      /\ logIndex' = [idx EXCEPT ![a] = count]
    BY DEF LogWrite, InsertLogIndex
<1>2. count \in Offsets /\ count < MaxLogEntries
    BY DEF LogWrite, SizesAssumption
<1>3. write_log_entries'[count] = [addressEnd |-> a, payload |-> v]
    BY <1>1, <1>2
<1> HIDE DEF Addr
<1>4. ASSUME NEW b \in Addr
      PROVE  (IF logIndex'[b] = None THEN Unprogrammed
              ELSE write_log_entries'[logIndex'[b]].payload)
                 = IF b = a THEN v ELSE Found(log, idx, b)
    <2>1. CASE b = a
        <3>1. logIndex'[b] = count /\ count # None
            BY <1>1, <1>2, <2>1
        <3>2. QED
            BY <1>3, <2>1, <3>1
    <2>2. CASE b # a
        <3>1. logIndex'[b] = idx[b]
            BY <1>1, <2>2
        <3>2. CASE idx[b] = None
            BY <2>2, <3>1, <3>2 DEF Found
        <3>3. CASE idx[b] # None
            <4>1. idx[b] \in 0 .. count - 1
                BY <3>3 DEF IndexedLog
            <4>2. write_log_entries'[idx[b]] = log[idx[b]]
                BY <1>1, <1>2, <4>1
            <4>3. QED
                BY <2>2, <3>1, <3>3, <4>2 DEF Found
        <3>4. QED
            BY <3>2, <3>3
    <2>3. QED
        BY <2>1, <2>2
<1>5. Newest' = [b \in Addr |-> IF b = a THEN v ELSE Found(log, idx, b)]
    BY <1>4 DEF Newest
<1>6. LastStore' = <<a, v>>
    BY <1>1, <1>2, <1>3 DEF LastStore
<1>7. QED
    BY <1>1, <1>2, <1>5, <1>6

LEMMA RefinementStep ==
    ASSUME TypeOK, SizesAssumption, LogInv, FullWhileCompacting, [Next]_vars
    PROVE  [AsMap!Next]_(AsMap!logVars)
<1>1. ASSUME NEW a \in Addr, NEW v \in Stores, MemWrite(a, v)
      PROVE  AsMap!Store(a, v)
    <2>1. LogWrite(a, v, write_log_entries, write_log_count, logIndex,
                   nandPageList)
        BY <1>1 DEF MemWrite
    <2>2. IndexedLog(write_log_entries, write_log_count, logIndex,
                     nandPageList)
        BY <1>1, IdleIndexedLog DEF MemWrite
    <2>3. v \in Payloads
        OBVIOUS
    <2>4. /\ Newest' = [b \in Addr |->
                           IF b = a THEN v
                           ELSE Found(write_log_entries, logIndex, b)]
          /\ LastStore' = <<a, v>>
          /\ write_log_count' = write_log_count + 1
          /\ write_log_count < MaxLogEntries
        BY <2>1, <2>2, <2>3, LogWriteFound DEF TypeOK
    <2>5. Newest' = [Newest EXCEPT ![a] = v]
        <3> HIDE DEF Addr, None
        <3>1. QED
            BY <2>4 DEF Newest, Found
    <2>6. QED
        BY <2>4, <2>5 DEF AsMap!Store
<1>2. CASE FinishCompaction
    <2> DEFINE a == pending[1]
               v == pending[2]
    <2>1. LogWrite(a, v, EmptyLog, 0, EmptyIndex, {})
        BY <1>2 DEF FinishCompaction
    <2>2. a \in Addr /\ v \in Payloads
        BY DEF TypeOK
    <2>3. 0 \in 0 .. MaxLogEntries /\ {} \in SUBSET Pages
        BY DEF SizesAssumption
    <2>4. write_log_count = MaxLogEntries
        BY <1>2 DEF FinishCompaction, FullWhileCompacting, SizesAssumption
    <2> HIDE DEF a, v, Pages, Offsets, Addr, Payloads, None
    <2>5. /\ Newest' = [b \in Addr |->
                           IF b = a THEN v ELSE Found(EmptyLog, EmptyIndex, b)]
          /\ LastStore' = <<a, v>>
          /\ write_log_count' = 0 + 1
        BY <2>1, <2>2, <2>3, EmptyTypes, EmptyIndexedLog, LogWriteFound
    <2>6. Newest' = [b \in Addr |-> IF b = a THEN v ELSE Unprogrammed]
        BY <2>5 DEF Found, EmptyIndex
    <2>7. AsMap!Recycle(a, v)
        BY <2>4, <2>5, <2>6 DEF AsMap!Recycle, AsMap!Addr, Addr
    <2>8. QED
        BY <2>2, <2>7 DEF AsMap!Next, AsMap!Addr, Addr
<1>3. CASE CompactCachedPage
    <2>1. /\ cursor \in Pages
          /\ UNCHANGED <<write_log_entries, write_log_count>>
          /\ logIndex' =
                 [a \in Addr |-> IF a[1] = cursor THEN None ELSE logIndex[a]]
        BY <1>3 DEF CompactCachedPage, Compacting
    <2>2. write_log_count = MaxLogEntries
        BY <2>1 DEF FullWhileCompacting
    <2> HIDE DEF Pages, Lines, None
    <2>3. Newest' = [a \in Addr |->
                        IF a[1] = cursor THEN Unprogrammed ELSE Newest[a]]
        <3> HIDE DEF Addr
        <3>1. QED
            BY <2>1 DEF Newest
    <2>4. LastStore' = LastStore
        BY <2>1 DEF LastStore
    <2>5. AsMap!Drain(cursor)
        BY <2>1, <2>2, <2>3, <2>4 DEF AsMap!Drain, AsMap!Addr
    <2>6. QED
        BY <2>1, <2>5 DEF AsMap!Next
<1>4. ASSUME \/ \E a \in Addr, v \in Stores : StartCompaction(a, v)
             \/ SkipUnusedPage
             \/ CompactUncachedPage
             \/ \E a \in Addr : \/ MemReadCached(a)
                                \/ MemReadLogged(a)
                                \/ MemReadFlash(a)
                                \/ MemReadMissing(a)
             \/ \E p \in PageWrites : WritePage(p)
             \/ \E p \in BlockPages, first, last \in Lines :
                    BlockHit(p, first .. last) \/ BlockMiss(p, first .. last)
             \/ \E e \in Entries : TransferDone(e)
             \/ UNCHANGED vars
      PROVE  UNCHANGED AsMap!logVars
    <2>1. UNCHANGED <<write_log_entries, write_log_count, logIndex>>
        BY <1>4 DEF StartCompaction, SkipUnusedPage, CompactUncachedPage,
                    MemReadCached, MemReadLogged, MemReadFlash,
                    MemReadMissing, WritePage, BlockHit, BlockMiss,
                    TransferDone, vars, logVars
    <2>2. QED
        BY <2>1 DEF AsMap!logVars, Newest, LastStore
<1>5. ASSUME NEW a \in Addr, NEW v \in Stores, MemWrite(a, v)
      PROVE  AsMap!Next
    BY <1>1, <1>5 DEF AsMap!Next, AsMap!Addr
<1>6. QED
    BY <1>2, <1>3, <1>4, <1>5 DEF Next, Compaction

(* The write log and its index implement the map of LineLog. *)
THEOREM LogImplementsMap == Spec => RefinesLineLog
<1>1. Init => AsMap!Init
    BY DEF Init, AsMap!Init, AsMap!Addr, Newest, LastStore, EmptyIndex
<1>2. Init => FullWhileCompacting
    BY DEF Init, FullWhileCompacting
<1>3. TypeOK /\ FullWhileCompacting /\ [Next]_vars => FullWhileCompacting'
    BY FullStep, SizesAssumption
<1>4. TypeOK /\ LogInv /\ FullWhileCompacting /\ [Next]_vars
          => [AsMap!Next]_(AsMap!logVars)
    BY RefinementStep, SizesAssumption
<1>5. QED
    BY <1>1, <1>2, <1>3, <1>4, TypeCorrect, LogInvCorrect, PTL
    DEF Spec, RefinesLineLog, AsMap!Spec
=============================================================================
