--------------------------- MODULE HostDmaProofs ---------------------------
(***************************************************************************)
(* Proofs about HostDma for every FIFO size, every width of the overflow   *)
(* count and any number of entries and requests.  The layers are: types;   *)
(* where head and tail of a FIFO are (FifoInv); how a request's recorded   *)
(* tail relates to the FIFO's (ReqInv), the order of the queue and what a  *)
(* set done flag means (OrderInv); and who holds the entries (HoldInv).    *)
(***************************************************************************)
EXTENDS HostDma, FiniteSets, SequenceTheorems, TLAPS

-----------------------------------------------------------------------------
(* Facts about the operators *)

(* What is left of a sequence without its k-th element. *)
LEMMA RemoveAtFact ==
    ASSUME NEW S, NEW s \in Seq(S), NEW k \in 1 .. Len(s)
    PROVE  /\ RemoveAt(s, k) \in Seq(S)
           /\ Len(RemoveAt(s, k)) = Len(s) - 1
           /\ \A j \in 1 .. Len(s) - 1 :
                  RemoveAt(s, k)[j] = IF j < k THEN s[j] ELSE s[j + 1]
<1> DEFINE front == SubSeq(s, 1, k - 1)
           back == SubSeq(s, k + 1, Len(s))
<1>1. Len(s) \in Nat
    OBVIOUS
<1>2. \A i \in 1 .. Len(s) : s[i] \in S
    OBVIOUS
<1>3. /\ front \in Seq(S)
      /\ Len(front) = k - 1
      /\ \A i \in 1 .. k - 1 : front[i] = s[i]
    BY <1>1, <1>2, SubSeqProperties
<1>4. /\ back \in Seq(S)
      /\ Len(back) = Len(s) - k
      /\ \A i \in 1 .. Len(s) - k : back[i] = s[k + i]
    <2>1. \A i \in k + 1 .. Len(s) : s[i] \in S
        BY <1>1, <1>2
    <2>2. QED
        BY <1>1, <2>1, SubSeqProperties
<1>5. RemoveAt(s, k) = front \o back
    BY DEF RemoveAt
<1> HIDE DEF front, back
<1>6. /\ front \o back \in Seq(S)
      /\ Len(front \o back) = Len(front) + Len(back)
      /\ \A i \in 1 .. Len(front) + Len(back) :
             (front \o back)[i] = IF i <= Len(front) THEN front[i]
                                  ELSE back[i - Len(front)]
    BY <1>3, <1>4, ConcatProperties
<1>7. QED
    BY <1>1, <1>3, <1>4, <1>5, <1>6

(* An index wraps at the end of the FIFO and nowhere else. *)
LEMMA NextSlotFact ==
    ASSUME DmaSizesAssumption, NEW i \in Slots
    PROVE  /\ NextSlot(i) \in Slots
           /\ NextSlot(i) = IF i = FifoSize - 1 THEN 0 ELSE i + 1
BY DEF DmaSizesAssumption, Slots, NextSlot

(* The overflow count stays in range, and does not wrap below its bound. *)
LEMMA CountFact ==
    ASSUME DmaSizesAssumption, NEW c \in 0 .. OverflowMod - 1
    PROVE  /\ (c + 1) % OverflowMod \in 0 .. OverflowMod - 1
           /\ c + 1 < OverflowMod => (c + 1) % OverflowMod = c + 1
           /\ c + 1 = OverflowMod => (c + 1) % OverflowMod = 0
BY DEF DmaSizesAssumption

(* What a release starts is a request of the entry's chain. *)
LEMMA StartedFact ==
    ASSUME NEW e \in Entries,
           NEW c \in Seq([kind : Kinds, blocks : 1 .. MaxBlocks])
    PROVE  /\ Started(e, c) \in
                  [dir : Dirs, entry : Entries, left : 1 .. MaxBlocks]
                      \cup {NoRequest}
           /\ Started(e, c) # NoRequest =>
                  /\ Started(e, c).entry = e
                  /\ c # <<>>
                  /\ Head(c).kind = Started(e, c).dir
           /\ c # <<>> /\ Head(c).kind \in Dirs => Started(e, c) # NoRequest
<1>1. CASE c # <<>> /\ Head(c).kind \in Dirs
    <2>1. Head(c) \in [kind : Kinds, blocks : 1 .. MaxBlocks]
        BY <1>1, HeadTailProperties
    <2>2. Started(e, c) = [dir |-> Head(c).kind, entry |-> e, left |-> Head(c).blocks]
        BY <1>1 DEF Started
    <2>3. Started(e, c).dir # "none"
        BY <1>1, <2>2 DEF Dirs
    <2>4. QED
        BY <1>1, <2>1, <2>2, <2>3 DEF NoRequest
<1>2. CASE ~ (c # <<>> /\ Head(c).kind \in Dirs)
    BY <1>2 DEF Started
<1>3. QED
    BY <1>1, <1>2

(* The request being issued, if there is one. *)
LEMMA IssuingFact ==
    ASSUME TypeOK, issuing # NoRequest
    PROVE  /\ issuing \in [dir : Dirs, entry : Entries, left : 1 .. MaxBlocks]
           /\ issuing.dir \in Dirs
           /\ issuing.entry \in Entries
           /\ issuing.left \in 1 .. MaxBlocks
BY DEF TypeOK
-----------------------------------------------------------------------------
(* Types *)

LEMMA ReleaseType ==
    ASSUME TypeOK, NEW e \in Entries, chain[e] # <<>>, Release(e)
    PROVE  /\ chain' \in [Entries -> Seq([kind : Kinds, blocks : 1 .. MaxBlocks])]
           /\ issuing' \in [dir : Dirs, entry : Entries, left : 1 .. MaxBlocks]
                               \cup {NoRequest}
<1> DEFINE R == [kind : Kinds, blocks : 1 .. MaxBlocks]
<1>1. chain \in [Entries -> Seq(R)] /\ chain[e] \in Seq(R)
    BY DEF TypeOK
<1> HIDE DEF R
<1>2. Tail(chain[e]) \in Seq(R)
    BY <1>1, HeadTailProperties
<1>3. chain' \in [Entries -> Seq(R)]
    BY <1>1, <1>2 DEF Release
<1>4. issuing' \in [dir : Dirs, entry : Entries, left : 1 .. MaxBlocks] \cup {NoRequest}
    BY <1>2, StartedFact DEF Release, R
<1>5. QED
    BY <1>3, <1>4 DEF R

(* Where the tail and the counts go when a block is issued. *)
LEMMA IssueBlockFact ==
    ASSUME TypeOK, DmaSizesAssumption, IssueBlock, NEW d, d = issuing.dir
    PROVE  /\ d \in Dirs
           /\ fifoTail' \in [Dirs -> Slots]
           /\ overFlowCnt' \in [Dirs -> 0 .. OverflowMod - 1]
           /\ tailLap' \in [Dirs -> Nat]
           /\ \A c \in Dirs \ {d} : /\ fifoTail'[c] = fifoTail[c]
                                    /\ overFlowCnt'[c] = overFlowCnt[c]
                                    /\ tailLap'[c] = tailLap[c]
           /\ fifoTail'[d] # fifoHead[d]
           /\ \/ /\ fifoTail[d] < FifoSize - 1
                 /\ fifoTail'[d] = fifoTail[d] + 1
                 /\ overFlowCnt'[d] = overFlowCnt[d]
                 /\ tailLap'[d] = tailLap[d]
              \/ /\ fifoTail[d] = FifoSize - 1
                 /\ fifoTail'[d] = 0
                 /\ overFlowCnt'[d] = (overFlowCnt[d] + 1) % OverflowMod
                 /\ tailLap'[d] = tailLap[d] + 1
<1> DEFINE tail == NextSlot(fifoTail[d])
<1>1. d \in Dirs
    BY IssuingFact DEF IssueBlock
<1>2. fifoTail[d] \in Slots /\ overFlowCnt[d] \in 0 .. OverflowMod - 1 /\ tailLap[d] \in Nat
    BY <1>1 DEF TypeOK
<1>3. /\ tail \in Slots
      /\ tail = IF fifoTail[d] = FifoSize - 1 THEN 0 ELSE fifoTail[d] + 1
    BY <1>2, NextSlotFact
<1>4. (overFlowCnt[d] + 1) % OverflowMod \in 0 .. OverflowMod - 1
    BY <1>2, CountFact
<1>5. /\ tail # fifoHead[d]
      /\ fifoTail' = [fifoTail EXCEPT ![d] = tail]
      /\ overFlowCnt' = [overFlowCnt EXCEPT ![d] =
             IF tail < fifoTail[d] THEN (overFlowCnt[d] + 1) % OverflowMod
             ELSE overFlowCnt[d]]
      /\ tailLap' = [tailLap EXCEPT ![d] =
             IF tail < fifoTail[d] THEN tailLap[d] + 1 ELSE tailLap[d]]
    BY DEF IssueBlock, Full, NextSlot
<1>6. tail < fifoTail[d] <=> fifoTail[d] = FifoSize - 1
    BY <1>2, <1>3 DEF Slots, DmaSizesAssumption
<1> HIDE DEF tail
<1>7. /\ fifoTail' \in [Dirs -> Slots]
      /\ fifoTail'[d] = tail
      /\ \A c \in Dirs \ {d} : fifoTail'[c] = fifoTail[c]
    BY <1>1, <1>3, <1>5 DEF TypeOK
<1>8. /\ overFlowCnt' \in [Dirs -> 0 .. OverflowMod - 1]
      /\ overFlowCnt'[d] = IF tail < fifoTail[d]
                           THEN (overFlowCnt[d] + 1) % OverflowMod
                           ELSE overFlowCnt[d]
      /\ \A c \in Dirs \ {d} : overFlowCnt'[c] = overFlowCnt[c]
    BY <1>1, <1>2, <1>4, <1>5 DEF TypeOK
<1>9. /\ tailLap' \in [Dirs -> Nat]
      /\ tailLap'[d] = IF tail < fifoTail[d] THEN tailLap[d] + 1 ELSE tailLap[d]
      /\ \A c \in Dirs \ {d} : tailLap'[c] = tailLap[c]
    <2> DEFINE lap == IF tail < fifoTail[d] THEN tailLap[d] + 1 ELSE tailLap[d]
    <2>1. lap \in Nat
        BY <1>2
    <2>2. tailLap \in [Dirs -> Nat] /\ tailLap' = [tailLap EXCEPT ![d] = lap]
        BY <1>5 DEF TypeOK
    <2>3. QED
        BY <1>1, <2>1, <2>2
<1>10. fifoTail[d] # FifoSize - 1 => fifoTail[d] < FifoSize - 1
    BY <1>2 DEF Slots, DmaSizesAssumption
<1>11. QED
    BY <1>1, <1>3, <1>5, <1>6, <1>7, <1>8, <1>9, <1>10

(* What issuing a block does to the queue: nothing, or the request joins   *)
(* it at the end with the tail and count it leaves behind.                 *)
LEMMA IssueBlockQueue ==
    ASSUME TypeOK, DmaSizesAssumption, IssueBlock, NEW d, d = issuing.dir
    PROVE  \/ /\ nvmeDmaReqQ' = nvmeDmaReqQ
              /\ issuing' \in [dir : Dirs, entry : Entries, left : 1 .. MaxBlocks]
              /\ issuing' # NoRequest
              /\ issuing'.entry = issuing.entry
              /\ issuing'.dir = issuing.dir
           \/ /\ issuing' = NoRequest
              /\ \E r \in IssuedReqs :
                    /\ nvmeDmaReqQ' = Append(nvmeDmaReqQ, r)
                    /\ r.dir = d
                    /\ r.entry = issuing.entry
                    /\ r.reqTail = fifoTail'[d]
                    /\ r.overFlowCnt = overFlowCnt'[d]
                    /\ r.lap = tailLap'[d]
<1>1. /\ issuing \in [dir : Dirs, entry : Entries, left : 1 .. MaxBlocks]
      /\ issuing.left \in 1 .. MaxBlocks
      /\ issuing.entry \in Entries
      /\ d \in Dirs
    BY IssuingFact DEF IssueBlock
<1>2. CASE issuing.left = 1
    <2> DEFINE r == [dir |-> d, entry |-> issuing.entry,
                     reqTail |-> fifoTail'[d],
                     overFlowCnt |-> overFlowCnt'[d],
                     lap |-> tailLap'[d]]
    <2>1. /\ fifoTail'[d] \in Slots
          /\ overFlowCnt'[d] \in 0 .. OverflowMod - 1
          /\ tailLap'[d] \in Nat
        BY <1>1, IssueBlockFact
    <2>2. r \in IssuedReqs
        BY <1>1, <2>1 DEF IssuedReqs
    <2>3. fifoTail'[d] = NextSlot(fifoTail[d])
        BY <1>1 DEF IssueBlock, TypeOK
    <2>4. nvmeDmaReqQ' = Append(nvmeDmaReqQ, r) /\ issuing' = NoRequest
        BY <1>2, <2>3 DEF IssueBlock
    <2>5. QED
        BY <2>2, <2>4
<1>3. CASE issuing.left # 1
    <2>1. /\ nvmeDmaReqQ' = nvmeDmaReqQ
          /\ issuing' = [issuing EXCEPT !.left = issuing.left - 1]
        BY <1>3 DEF IssueBlock
    <2>2. issuing.left - 1 \in 1 .. MaxBlocks
        BY <1>1, <1>3 DEF DmaSizesAssumption
    <2>3. /\ issuing' \in [dir : Dirs, entry : Entries, left : 1 .. MaxBlocks]
          /\ issuing'.entry = issuing.entry
          /\ issuing'.dir = issuing.dir
        BY <1>1, <2>1, <2>2
    <2>4. issuing' # NoRequest
        BY <1>1, <2>3 DEF NoRequest, Dirs
    <2>5. QED
        BY <2>1, <2>3, <2>4
<1>4. QED
    BY <1>2, <1>3

(* The walk's step: r is the request it visits, and it leaves the queue if *)
(* it is found done.                                                       *)
LEMMA CheckReqFact ==
    ASSUME TypeOK, CheckReq, NEW r, r = nvmeDmaReqQ[walk]
    PROVE  /\ walk \in 1 .. Len(nvmeDmaReqQ)
           /\ r \in IssuedReqs
           /\ r.dir \in Dirs
           /\ r.entry \in Entries
           /\ done' \in [Dirs -> BOOLEAN]
           /\ \/ /\ done[r.dir] \/ PartialDone(r)
                 /\ nvmeDmaReqQ' = RemoveAt(nvmeDmaReqQ, walk)
                 /\ Release(r.entry)
              \/ /\ ~ (done[r.dir] \/ PartialDone(r))
                 /\ UNCHANGED reqVars
<1>1. walk \in 1 .. Len(nvmeDmaReqQ) /\ nvmeDmaReqQ \in Seq(IssuedReqs)
    BY DEF TypeOK, CheckReq
<1>2. r \in IssuedReqs
    BY <1>1, ElementOfSeq
<1>3. r.dir \in Dirs /\ r.entry \in Entries
    BY <1>2 DEF IssuedReqs
<1>4. NothingDone \in [Dirs -> BOOLEAN]
    BY DEF NothingDone
<1>5. done' \in [Dirs -> BOOLEAN]
    <2> DEFINE isDone == done[r.dir] \/ PartialDone(r)
    <2>1. isDone \in BOOLEAN
        BY <1>3 DEF TypeOK, PartialDone
    <2>2. done' = IF walk = 1 THEN NothingDone ELSE [done EXCEPT ![r.dir] = isDone]
        BY DEF CheckReq
    <2> HIDE DEF isDone
    <2>3. QED
        BY <1>3, <1>4, <2>1, <2>2 DEF TypeOK
<1>6. QED
    BY <1>1, <1>2, <1>3, <1>5 DEF CheckReq

(* The request a walk visits holds its entry. *)
LEMMA VisitedHolds ==
    ASSUME TypeOK, EntryHeldOnce, NEW k \in 1 .. Len(nvmeDmaReqQ)
    PROVE  /\ nvmeDmaReqQ[k] \in Queued
           /\ nvmeDmaReqQ[k] \in IssuedReqs
           /\ nvmeDmaReqQ[k].entry \in Entries
           /\ nvmeDmaReqQ[k].dir \in Dirs
           /\ chain[nvmeDmaReqQ[k].entry] # <<>>
           /\ Head(chain[nvmeDmaReqQ[k].entry]).kind = nvmeDmaReqQ[k].dir
<1>1. nvmeDmaReqQ \in Seq(IssuedReqs)
    BY DEF TypeOK
<1>2. k \in DOMAIN nvmeDmaReqQ /\ nvmeDmaReqQ[k] \in IssuedReqs
    BY <1>1, LenProperties, ElementOfSeq
<1>3. nvmeDmaReqQ[k] \in Queued
    BY <1>2 DEF Queued
<1>4. QED
    BY <1>2, <1>3 DEF EntryHeldOnce, IssuedReqs


LEMMA TypeStep ==
    ASSUME TypeOK, EntryHeldOnce, DmaSizesAssumption, [Next]_vars
    PROVE  TypeOK'
<1>1. ASSUME NEW e \in Entries, NEW kind \in Kinds, NEW n \in 1 .. MaxBlocks,
             Arrive(e, kind, n)
      PROVE  TypeOK'
    <2> DEFINE R == [kind : Kinds, blocks : 1 .. MaxBlocks]
               req == [kind |-> kind, blocks |-> n]
    <2>1. req \in R
        OBVIOUS
    <2>2. chain \in [Entries -> Seq(R)]
        BY DEF TypeOK
    <2>3. <<req>> \in Seq(R)
        BY <2>1
    <2>4. Started(e, <<req>>) \in
              [dir : Dirs, entry : Entries, left : 1 .. MaxBlocks] \cup {NoRequest}
        BY <2>3, StartedFact
    <2>5. chain' = [chain EXCEPT ![e] = Append(chain[e], req)]
        BY <1>1 DEF Arrive
    <2>6. issuing' \in [dir : Dirs, entry : Entries, left : 1 .. MaxBlocks]
                           \cup {NoRequest}
        BY <1>1, <2>4 DEF Arrive
    <2>7. accepted' \in 0 .. MaxRequests
        BY <1>1 DEF Arrive, TypeOK, DmaSizesAssumption
    <2> HIDE DEF R, req
    <2>8. chain' \in [Entries -> Seq(R)]
        BY <2>1, <2>2, <2>5
    <2>9. QED
        BY <1>1, <2>6, <2>7, <2>8 DEF Arrive, TypeOK, fifoVars, R
<1>2. CASE IssueBlock
    <2> DEFINE d == issuing.dir
    <2>1. /\ fifoTail' \in [Dirs -> Slots]
          /\ overFlowCnt' \in [Dirs -> 0 .. OverflowMod - 1]
          /\ tailLap' \in [Dirs -> Nat]
        BY <1>2, IssueBlockFact
    <2>2. /\ nvmeDmaReqQ' \in Seq(IssuedReqs)
          /\ walk' \in 0 .. Len(nvmeDmaReqQ')
          /\ issuing' \in [dir : Dirs, entry : Entries, left : 1 .. MaxBlocks]
                              \cup {NoRequest}
        <3>1. nvmeDmaReqQ \in Seq(IssuedReqs) /\ walk \in 0 .. Len(nvmeDmaReqQ)
            BY DEF TypeOK
        <3>2. walk' = walk
            BY <1>2 DEF IssueBlock
        <3>3. CASE \E r \in IssuedReqs : nvmeDmaReqQ' = Append(nvmeDmaReqQ, r)
            BY <1>2, <3>1, <3>2, <3>3, IssueBlockQueue
        <3>4. CASE nvmeDmaReqQ' = nvmeDmaReqQ
            BY <1>2, <3>1, <3>2, <3>4, IssueBlockQueue
        <3>5. QED
            BY <1>2, <3>3, <3>4, IssueBlockQueue
    <2>3. QED
        BY <1>2, <2>1, <2>2 DEF IssueBlock, TypeOK
<1>3. CASE StartCheck
    <2>1. walk' \in 0 .. Len(nvmeDmaReqQ)
        BY <1>3 DEF StartCheck, TypeOK
    <2>2. done' \in [Dirs -> BOOLEAN]
        BY <1>3 DEF StartCheck, NothingDone
    <2>3. QED
        BY <1>3, <2>1, <2>2 DEF StartCheck, TypeOK, fifoVars, reqVars
<1>4. CASE CheckReq
    <2> DEFINE r == nvmeDmaReqQ[walk]
    <2>1. /\ walk \in 1 .. Len(nvmeDmaReqQ)
          /\ r.entry \in Entries
          /\ done' \in [Dirs -> BOOLEAN]
        BY <1>4, CheckReqFact
    <2>2. chain[r.entry] # <<>>
        BY <2>1, VisitedHolds
    <2>3. /\ chain' \in [Entries -> Seq([kind : Kinds, blocks : 1 .. MaxBlocks])]
          /\ issuing' \in [dir : Dirs, entry : Entries, left : 1 .. MaxBlocks]
                              \cup {NoRequest}
        <3>1. CASE Release(r.entry)
            BY <2>1, <2>2, <3>1, ReleaseType
        <3>2. CASE UNCHANGED reqVars
            BY <3>2 DEF reqVars, TypeOK
        <3>3. QED
            BY <1>4, <3>1, <3>2, CheckReqFact
    <2>4. /\ nvmeDmaReqQ' \in Seq(IssuedReqs)
          /\ walk' \in 0 .. Len(nvmeDmaReqQ')
        <3>1. walk' = walk - 1 /\ nvmeDmaReqQ \in Seq(IssuedReqs)
            BY <1>4 DEF CheckReq, TypeOK
        <3>2. CASE nvmeDmaReqQ' = RemoveAt(nvmeDmaReqQ, walk)
            BY <2>1, <3>1, <3>2, RemoveAtFact
        <3>3. CASE UNCHANGED reqVars
            BY <2>1, <3>1, <3>3 DEF reqVars
        <3>4. QED
            BY <1>4, <3>2, <3>3, CheckReqFact
    <2>5. QED
        BY <1>4, <2>1, <2>3, <2>4 DEF CheckReq, TypeOK, fifoVars
<1>5. ASSUME NEW e \in Entries, NandDone(e)
      PROVE  TypeOK'
    <2>1. /\ chain' \in [Entries -> Seq([kind : Kinds, blocks : 1 .. MaxBlocks])]
          /\ issuing' \in [dir : Dirs, entry : Entries, left : 1 .. MaxBlocks]
                              \cup {NoRequest}
        BY <1>5, ReleaseType DEF NandDone
    <2>2. QED
        BY <1>5, <2>1 DEF NandDone, TypeOK, fifoVars
<1>6. ASSUME NEW d \in Dirs, HwDone(d)
      PROVE  TypeOK'
    <2>1. NextSlot(fifoHead[d]) \in Slots
        BY NextSlotFact DEF TypeOK
    <2>2. fifoHead' \in [Dirs -> Slots]
        BY <1>6, <2>1 DEF HwDone, TypeOK
    <2>3. headLap' \in [Dirs -> Nat]
        BY <1>6 DEF HwDone, TypeOK
    <2>4. QED
        BY <1>6, <2>2, <2>3 DEF HwDone, TypeOK, reqVars
<1>7. CASE UNCHANGED vars
    BY <1>7 DEF TypeOK, vars, fifoVars, reqVars
<1>8. QED
    BY <1>1, <1>2, <1>3, <1>4, <1>5, <1>6, <1>7 DEF Next

-----------------------------------------------------------------------------
(* Who holds the entries *)

(* The request being issued is the first of its entry's chain. *)
IssuingHolds ==
    issuing # NoRequest =>
        /\ chain[issuing.entry] # <<>>
        /\ Head(chain[issuing.entry]).kind = issuing.dir

HoldInv == EntryHeldOnce /\ IssuingHolds /\ HolderIsActive

LEMMA QueuedFact ==
    ASSUME TypeOK
    PROVE  /\ DOMAIN nvmeDmaReqQ = 1 .. Len(nvmeDmaReqQ)
           /\ Len(nvmeDmaReqQ) \in Nat
           /\ \A r \in Queued : r \in IssuedReqs /\ r.dir \in Dirs /\ r.entry \in Entries
<1>1. nvmeDmaReqQ \in Seq(IssuedReqs)
    BY DEF TypeOK
<1>2. DOMAIN nvmeDmaReqQ = 1 .. Len(nvmeDmaReqQ) /\ Len(nvmeDmaReqQ) \in Nat
    BY <1>1, LenProperties
<1>3. \A k \in 1 .. Len(nvmeDmaReqQ) : nvmeDmaReqQ[k] \in IssuedReqs
    BY <1>1, ElementOfSeq
<1>4. QED
    BY <1>2, <1>3 DEF Queued, IssuedReqs

(* The elements of a sequence after an append, and after a removal. *)
LEMMA AppendElements ==
    ASSUME NEW S, NEW s \in Seq(S), NEW x \in S
    PROVE  /\ DOMAIN Append(s, x) = 1 .. Len(s) + 1
           /\ \A k \in 1 .. Len(s) : Append(s, x)[k] = s[k]
           /\ Append(s, x)[Len(s) + 1] = x
           /\ s # <<>> => Head(Append(s, x)) = Head(s)
           /\ s = <<>> => Head(Append(s, x)) = x
           /\ Append(s, x) # <<>>
OBVIOUS

LEMMA RemoveElements ==
    ASSUME NEW S, NEW s \in Seq(S), NEW k \in 1 .. Len(s)
    PROVE  /\ DOMAIN RemoveAt(s, k) = 1 .. Len(s) - 1
           /\ \A j \in 1 .. Len(s) - 1 :
                  RemoveAt(s, k)[j] = s[IF j < k THEN j ELSE j + 1]
           /\ \A i \in (1 .. Len(s)) \ {k} :
                  \E j \in 1 .. Len(s) - 1 : RemoveAt(s, k)[j] = s[i]
<1> DEFINE t == RemoveAt(s, k)
<1>1. /\ t \in Seq(S)
      /\ Len(t) = Len(s) - 1
      /\ \A j \in 1 .. Len(s) - 1 : t[j] = IF j < k THEN s[j] ELSE s[j + 1]
    BY RemoveAtFact
<1>2. DOMAIN t = 1 .. Len(s) - 1
    BY <1>1, LenProperties
<1> HIDE DEF t
<1>3. ASSUME NEW i \in (1 .. Len(s)) \ {k}
      PROVE  \E j \in 1 .. Len(s) - 1 : t[j] = s[i]
    <2>1. CASE i < k
        BY <1>1, <1>2, <2>1
    <2>2. CASE i > k
        <3>1. i - 1 \in 1 .. Len(s) - 1 /\ ~ (i - 1 < k)
            BY <2>2
        <3>2. t[i - 1] = s[i]
            BY <1>1, <3>1
        <3>3. QED
            BY <1>2, <3>1, <3>2
    <2>3. QED
        BY <1>3, <2>1, <2>2
<1>4. QED
    BY <1>1, <1>2, <1>3 DEF t

(* A release of an entry that no other request holds. *)
LEMMA ReleaseHold ==
    ASSUME TypeOK, HoldInv, issuing = NoRequest,
           NEW e \in Entries, chain[e] # <<>>, Release(e),
           \A j, k \in DOMAIN nvmeDmaReqQ' :
               nvmeDmaReqQ'[j].entry = nvmeDmaReqQ'[k].entry => j = k,
           \A r \in Queued' : r \in Queued /\ r.entry # e,
           \A r \in Queued : r.entry # e => r \in Queued'
    PROVE  HoldInv'
<1> DEFINE R == [kind : Kinds, blocks : 1 .. MaxBlocks]
<1>1. chain[e] \in Seq(R) /\ chain \in [Entries -> Seq(R)]
    BY DEF TypeOK
<1>2. Tail(chain[e]) \in Seq(R)
    BY <1>1, HeadTailProperties
<1>3. /\ chain'[e] = Tail(chain[e])
      /\ \A f \in Entries \ {e} : chain'[f] = chain[f]
    BY <1>1 DEF Release
<1>4. /\ issuing' # NoRequest =>
            /\ issuing'.entry = e
            /\ chain'[e] # <<>>
            /\ Head(chain'[e]).kind = issuing'.dir
      /\ chain'[e] # <<>> /\ Head(chain'[e]).kind \in Dirs => issuing' # NoRequest
    <2>1. chain'[e] \in Seq([kind : Kinds, blocks : 1 .. MaxBlocks])
        BY <1>2, <1>3
    <2>2. issuing' = Started(e, chain'[e])
        BY <1>3 DEF Release
    <2>3. QED
        BY <2>1, <2>2, StartedFact
<1>5. \A f \in Entries : ~ Active(f)
    BY DEF Active
<1>6. EntryHeldOnce'
    <2>1. \A r \in Queued' : ~ Active(r.entry)'
        BY <1>4 DEF Active
    <2>2. ASSUME NEW r \in Queued'
          PROVE  chain'[r.entry] # <<>> /\ Head(chain'[r.entry]).kind = r.dir
        <3>1. r \in Queued /\ r.entry \in Entries \ {e}
            BY <2>2, QueuedFact
        <3>2. QED
            BY <1>3, <3>1 DEF HoldInv, EntryHeldOnce
    <2>3. QED
        BY <2>1, <2>2 DEF EntryHeldOnce
<1>7. IssuingHolds'
    BY <1>4 DEF IssuingHolds
<1>8. HolderIsActive'
    <2>1. SUFFICES ASSUME NEW f \in Entries, chain'[f] # <<>>,
                          Head(chain'[f]).kind \in Dirs
                   PROVE  Active(f)' \/ \E r \in Queued' : r.entry = f
        BY DEF HolderIsActive
    <2>2. CASE f = e
        BY <1>4, <2>1, <2>2 DEF Active
    <2>3. CASE f # e
        <3>1. \E r \in Queued : r.entry = f
            BY <1>3, <1>5, <2>1, <2>3 DEF HoldInv, HolderIsActive
        <3>2. QED
            BY <2>3, <3>1
    <2>4. QED
        BY <2>2, <2>3
<1>9. QED
    BY <1>6, <1>7, <1>8 DEF HoldInv


LEMMA HoldStep ==
    ASSUME TypeOK, HoldInv, DmaSizesAssumption, [Next]_vars
    PROVE  HoldInv'
<1> DEFINE R == [kind : Kinds, blocks : 1 .. MaxBlocks]
<1>0. EntryHeldOnce
    BY DEF HoldInv
<1>1. ASSUME NEW e \in Entries, NEW kind \in Kinds, NEW n \in 1 .. MaxBlocks,
             Arrive(e, kind, n)
      PROVE  HoldInv'
    <2> DEFINE req == [kind |-> kind, blocks |-> n]
    <2>1. req \in R /\ req.kind = kind /\ chain[e] \in Seq(R)
        BY DEF TypeOK
    <2>2. /\ chain'[e] = Append(chain[e], req)
          /\ \A f \in Entries \ {e} : chain'[f] = chain[f]
          /\ nvmeDmaReqQ' = nvmeDmaReqQ
          /\ issuing = NoRequest
        BY <1>1 DEF Arrive, TypeOK, Idle
    <2>3. Queued' = Queued
        BY <2>2 DEF Queued
    <2>4. /\ chain'[e] # <<>>
          /\ chain[e] # <<>> => Head(chain'[e]) = Head(chain[e])
          /\ chain[e] = <<>> => Head(chain'[e]) = req
        <3> HIDE DEF R, req
        <3>1. QED
            BY <2>1, <2>2, AppendElements
    <2>5. /\ issuing' # NoRequest =>
                /\ chain[e] = <<>>
                /\ issuing'.entry = e
                /\ issuing'.dir = kind
          /\ chain[e] = <<>> /\ kind \in Dirs => issuing' # NoRequest
        <3>1. issuing' = IF chain[e] = <<>> THEN Started(e, <<req>>) ELSE NoRequest
            BY <1>1 DEF Arrive
        <3>2. Started(e, <<req>>) = IF kind \in Dirs
                                    THEN [dir |-> kind, entry |-> e, left |-> n]
                                    ELSE NoRequest
            BY DEF Started
        <3>3. kind \in Dirs => [dir |-> kind, entry |-> e, left |-> n] # NoRequest
            BY DEF NoRequest, Dirs
        <3>4. QED
            BY <3>1, <3>2, <3>3
    <2> HIDE DEF R
    <2>6. EntryHeldOnce'
        <3>1. ASSUME NEW r \in Queued'
              PROVE  /\ ~ Active(r.entry)'
                     /\ chain'[r.entry] # <<>>
                     /\ Head(chain'[r.entry]).kind = r.dir
            <4>1. /\ r \in Queued /\ r.entry \in Entries
                  /\ chain[r.entry] # <<>>
                  /\ Head(chain[r.entry]).kind = r.dir
                BY <1>0, <2>3, <3>1, QueuedFact DEF EntryHeldOnce
            <4>2. QED
                BY <2>2, <2>4, <2>5, <4>1 DEF Active
        <3>2. QED
            BY <1>0, <2>2, <3>1 DEF EntryHeldOnce
    <2>7. IssuingHolds'
        BY <2>1, <2>4, <2>5 DEF IssuingHolds
    <2>8. HolderIsActive'
        <3>1. SUFFICES ASSUME NEW f \in Entries, chain'[f] # <<>>,
                              Head(chain'[f]).kind \in Dirs
                       PROVE  Active(f)' \/ \E r \in Queued' : r.entry = f
            BY DEF HolderIsActive
        <3>2. CASE f = e /\ chain[e] = <<>>
            BY <2>1, <2>4, <2>5, <3>1, <3>2 DEF Active
        <3>3. CASE ~ (f = e /\ chain[e] = <<>>)
            <4>1. chain[f] # <<>> /\ Head(chain[f]).kind \in Dirs
                BY <2>2, <2>4, <3>1, <3>3
            <4>2. ~ Active(f)
                BY <2>2 DEF Active
            <4>3. QED
                BY <2>3, <4>1, <4>2 DEF HoldInv, HolderIsActive
        <3>4. QED
            BY <3>2, <3>3
    <2>9. QED
        BY <2>6, <2>7, <2>8 DEF HoldInv
<1>2. CASE IssueBlock
    <2>1. /\ issuing # NoRequest
          /\ chain' = chain
          /\ issuing.entry \in Entries
          /\ nvmeDmaReqQ \in Seq(IssuedReqs)
        BY <1>2, IssuingFact DEF IssueBlock, TypeOK
    <2>2. CASE /\ nvmeDmaReqQ' = nvmeDmaReqQ
               /\ issuing' # NoRequest
               /\ issuing'.entry = issuing.entry
               /\ issuing'.dir = issuing.dir
        <3>1. Queued' = Queued
            BY <2>2 DEF Queued
        <3>2. \A f : Active(f)' <=> Active(f)
            BY <2>1, <2>2 DEF Active
        <3>3. QED
            BY <2>1, <2>2, <3>1, <3>2
               DEF HoldInv, EntryHeldOnce, IssuingHolds, HolderIsActive
    <2>3. ASSUME issuing' = NoRequest,
                 NEW r \in IssuedReqs,
                 nvmeDmaReqQ' = Append(nvmeDmaReqQ, r),
                 r.dir = issuing.dir,
                 r.entry = issuing.entry
          PROVE  HoldInv'
        <3>1. /\ DOMAIN nvmeDmaReqQ' = 1 .. Len(nvmeDmaReqQ) + 1
              /\ \A k \in 1 .. Len(nvmeDmaReqQ) : nvmeDmaReqQ'[k] = nvmeDmaReqQ[k]
              /\ nvmeDmaReqQ'[Len(nvmeDmaReqQ) + 1] = r
              /\ DOMAIN nvmeDmaReqQ = 1 .. Len(nvmeDmaReqQ)
              /\ Len(nvmeDmaReqQ) \in Nat
            BY <2>1, <2>3, AppendElements, QueuedFact
        <3>2. Queued' = Queued \cup {r}
            BY <3>1 DEF Queued
        <3>3. \A q \in Queued : q.entry # r.entry
            BY <1>0, <2>1, <2>3 DEF EntryHeldOnce, Active
        <3>4. \A f : ~ Active(f)'
            BY <2>3 DEF Active
        <3>5. \A j, k \in DOMAIN nvmeDmaReqQ' :
                  nvmeDmaReqQ'[j].entry = nvmeDmaReqQ'[k].entry => j = k
            <4>1. \A k \in 1 .. Len(nvmeDmaReqQ) : nvmeDmaReqQ[k].entry # r.entry
                BY <3>1, <3>3 DEF Queued
            <4>2. \A j, k \in 1 .. Len(nvmeDmaReqQ) :
                      nvmeDmaReqQ[j].entry = nvmeDmaReqQ[k].entry => j = k
                BY <1>0, <3>1 DEF EntryHeldOnce
            <4>3. QED
                BY <3>1, <4>1, <4>2
        <3>6. \A q \in Queued' : chain[q.entry] # <<>> /\ Head(chain[q.entry]).kind = q.dir
            BY <1>0, <2>1, <2>3, <3>2 DEF EntryHeldOnce, HoldInv, IssuingHolds
        <3>7. EntryHeldOnce'
            BY <2>1, <3>4, <3>5, <3>6 DEF EntryHeldOnce
        <3>8. HolderIsActive'
            BY <2>1, <2>3, <3>2 DEF HoldInv, HolderIsActive, Active
        <3>9. QED
            BY <2>3, <3>7, <3>8 DEF HoldInv, IssuingHolds
    <2>4. QED
        BY <1>2, <2>2, <2>3, IssueBlockQueue
<1>3. CASE CheckReq
    <2> DEFINE r == nvmeDmaReqQ[walk]
    <2>1. /\ walk \in 1 .. Len(nvmeDmaReqQ)
          /\ r.entry \in Entries
          /\ nvmeDmaReqQ \in Seq(IssuedReqs)
          /\ issuing = NoRequest
        BY <1>3, CheckReqFact DEF TypeOK, CheckReq
    <2>2. chain[r.entry] # <<>>
        BY <1>0, <2>1, VisitedHolds
    <2>3. CASE UNCHANGED reqVars
        BY <2>3 DEF HoldInv, EntryHeldOnce, IssuingHolds, HolderIsActive, Queued,
                    Active, reqVars
    <2>4. CASE nvmeDmaReqQ' = RemoveAt(nvmeDmaReqQ, walk) /\ Release(r.entry)
        <3>1. /\ DOMAIN nvmeDmaReqQ' = 1 .. Len(nvmeDmaReqQ) - 1
              /\ \A j \in 1 .. Len(nvmeDmaReqQ) - 1 :
                     nvmeDmaReqQ'[j] = nvmeDmaReqQ[IF j < walk THEN j ELSE j + 1]
              /\ \A i \in (1 .. Len(nvmeDmaReqQ)) \ {walk} :
                     \E j \in 1 .. Len(nvmeDmaReqQ) - 1 :
                         nvmeDmaReqQ'[j] = nvmeDmaReqQ[i]
            <4> DEFINE q == RemoveAt(nvmeDmaReqQ, walk)
            <4>1. /\ DOMAIN q = 1 .. Len(nvmeDmaReqQ) - 1
                  /\ \A j \in 1 .. Len(nvmeDmaReqQ) - 1 :
                         q[j] = nvmeDmaReqQ[IF j < walk THEN j ELSE j + 1]
                  /\ \A i \in (1 .. Len(nvmeDmaReqQ)) \ {walk} :
                         \E j \in 1 .. Len(nvmeDmaReqQ) - 1 : q[j] = nvmeDmaReqQ[i]
                BY <2>1, RemoveElements
            <4>2. nvmeDmaReqQ' = q
                BY <2>4
            <4> HIDE DEF q
            <4>3. QED
                BY <4>1, <4>2
        <3>2. DOMAIN nvmeDmaReqQ = 1 .. Len(nvmeDmaReqQ) /\ Len(nvmeDmaReqQ) \in Nat
            BY QueuedFact
        <3>3. \A j, k \in 1 .. Len(nvmeDmaReqQ) :
                  nvmeDmaReqQ[j].entry = nvmeDmaReqQ[k].entry => j = k
            BY <1>0, <3>2 DEF EntryHeldOnce
        <3>4. \A j, k \in DOMAIN nvmeDmaReqQ' :
                  nvmeDmaReqQ'[j].entry = nvmeDmaReqQ'[k].entry => j = k
            <4> DEFINE at(j) == IF j < walk THEN j ELSE j + 1
            <4>1. \A j \in DOMAIN nvmeDmaReqQ' :
                      /\ at(j) \in 1 .. Len(nvmeDmaReqQ)
                      /\ nvmeDmaReqQ'[j] = nvmeDmaReqQ[at(j)]
                BY <2>1, <3>1, <3>2
            <4>2. \A j, k \in DOMAIN nvmeDmaReqQ' : at(j) = at(k) => j = k
                BY <2>1, <3>1, <3>2
            <4> HIDE DEF at
            <4>3. QED
                BY <3>3, <4>1, <4>2
        <3>5. ASSUME NEW q \in Queued'
              PROVE  q \in Queued /\ q.entry # r.entry
            <4>1. PICK j \in DOMAIN nvmeDmaReqQ' : q = nvmeDmaReqQ'[j]
                BY <3>5 DEF Queued
            <4>2. PICK k \in 1 .. Len(nvmeDmaReqQ) : k # walk /\ q = nvmeDmaReqQ[k]
                BY <2>1, <3>1, <3>2, <4>1
            <4>3. QED
                BY <2>1, <3>2, <3>3, <4>2 DEF Queued
        <3>6. ASSUME NEW q \in Queued, q.entry # r.entry
              PROVE  q \in Queued'
            <4>1. PICK k \in 1 .. Len(nvmeDmaReqQ) : q = nvmeDmaReqQ[k]
                BY <3>2, <3>6 DEF Queued
            <4>2. QED
                BY <3>1, <3>6, <4>1 DEF Queued
        <3>7. QED
            BY <2>1, <2>2, <2>4, <3>4, <3>5, <3>6, ReleaseHold
    <2>5. QED
        BY <1>3, <2>3, <2>4, CheckReqFact
<1>4. ASSUME NEW e \in Entries, NandDone(e)
      PROVE  HoldInv'
    <2>1. /\ chain[e] # <<>> /\ Head(chain[e]).kind = "nand"
          /\ Release(e)
          /\ nvmeDmaReqQ' = nvmeDmaReqQ
          /\ issuing = NoRequest
        BY <1>4 DEF NandDone, Idle
    <2>2. Queued' = Queued
        BY <2>1 DEF Queued
    <2>3. \A r \in Queued : r.entry # e
        BY <1>0, <2>1, QueuedFact DEF EntryHeldOnce, Dirs
    <2>4. \A j, k \in DOMAIN nvmeDmaReqQ' :
              nvmeDmaReqQ'[j].entry = nvmeDmaReqQ'[k].entry => j = k
        BY <1>0, <2>1 DEF EntryHeldOnce
    <2>5. QED
        BY <2>1, <2>2, <2>3, <2>4, ReleaseHold
<1>5. CASE UNCHANGED reqVars
    BY <1>5 DEF HoldInv, EntryHeldOnce, IssuingHolds, HolderIsActive, Queued,
                Active, reqVars
<1>6. QED
    BY <1>1, <1>2, <1>3, <1>4, <1>5 DEF Next, StartCheck, HwDone, vars

-----------------------------------------------------------------------------
(* The FIFOs, and what a request's recorded tail says *)

(* The tail is ahead of the head by less than a lap. *)
LapInv(d) ==
    \/ tailLap[d] = headLap[d] /\ fifoHead[d] <= fifoTail[d]
    \/ tailLap[d] = headLap[d] + 1 /\ fifoTail[d] < fifoHead[d]

(* Before the count wraps it is the number of laps. *)
CountInv(d) == tailLap[d] < OverflowMod => overFlowCnt[d] = tailLap[d]

(* Where request r's last block is, seen from the tail and its count. *)
ReqInv(r) ==
    /\ \/ r.lap < tailLap[r.dir]
       \/ r.lap = tailLap[r.dir] /\ r.reqTail <= fifoTail[r.dir]
    /\ r.lap = tailLap[r.dir] => overFlowCnt[r.dir] = r.overFlowCnt
    /\ r.lap + 1 = tailLap[r.dir] =>
           overFlowCnt[r.dir] = (r.overFlowCnt + 1) % OverflowMod
    /\ r.lap < OverflowMod => r.overFlowCnt = r.lap

FifoInv ==
    /\ \A d \in Dirs : LapInv(d) /\ CountInv(d)
    /\ \A r \in Queued : ReqInv(r)

(* The comparison never takes an unfinished request for a done one, even   *)
(* when the overflow count wraps.                                          *)
LEMMA PartialDoneSound ==
    ASSUME TypeOK, FifoInv, DmaSizesAssumption,
           NEW r \in Queued, PartialDone(r)
    PROVE  Finished(r)
<1> DEFINE d == r.dir
<1>1. /\ r \in IssuedReqs
      /\ d \in Dirs
      /\ r.lap \in Nat /\ r.reqTail \in Slots
    BY QueuedFact DEF IssuedReqs
<1>2. /\ fifoTail[d] \in Slots /\ fifoHead[d] \in Slots
      /\ tailLap[d] \in Nat /\ headLap[d] \in Nat
    BY <1>1 DEF TypeOK
<1>3. LapInv(d) /\ ReqInv(r)
    BY <1>1 DEF FifoInv
<1>4. QED
    BY <1>1, <1>2, <1>3
       DEF LapInv, ReqInv, PartialDone, Finished, Slots, DmaSizesAssumption

(* Before the overflow count wraps, it recognises every finished request.  *)
LEMMA PartialDoneComplete ==
    ASSUME TypeOK, FifoInv, DmaSizesAssumption,
           NEW r \in Queued, tailLap[r.dir] < OverflowMod, Finished(r)
    PROVE  PartialDone(r)
<1> DEFINE d == r.dir
<1>1. /\ r \in IssuedReqs
      /\ d \in Dirs
      /\ r.lap \in Nat /\ r.reqTail \in Slots
      /\ r.overFlowCnt \in 0 .. OverflowMod - 1
    BY QueuedFact DEF IssuedReqs
<1>2. /\ fifoTail[d] \in Slots /\ fifoHead[d] \in Slots
      /\ tailLap[d] \in Nat /\ headLap[d] \in Nat
    BY <1>1 DEF TypeOK
<1>3. LapInv(d) /\ ReqInv(r) /\ CountInv(d)
    BY <1>1 DEF FifoInv
<1>4. /\ r.lap <= tailLap[d]
      /\ r.overFlowCnt = r.lap
      /\ overFlowCnt[d] = tailLap[d]
    BY <1>1, <1>2, <1>3 DEF ReqInv, CountInv, DmaSizesAssumption
<1>5. r.lap + 1 < OverflowMod =>
          (r.overFlowCnt + 1) % OverflowMod = r.lap + 1
    BY <1>1, <1>4, CountFact
<1>6. r.lap + 1 = OverflowMod => r.lap = tailLap[d]
    BY <1>1, <1>2, <1>4 DEF DmaSizesAssumption
<1>7. r.lap + 1 < OverflowMod \/ r.lap + 1 = OverflowMod
    BY <1>1, <1>2, <1>4 DEF DmaSizesAssumption
<1>8. QED
    BY <1>1, <1>2, <1>3, <1>4, <1>5, <1>6, <1>7
       DEF LapInv, ReqInv, PartialDone, Finished, Slots, DmaSizesAssumption

LEMMA LapStep ==
    ASSUME TypeOK, FifoInv, DmaSizesAssumption, [Next]_vars, NEW d \in Dirs
    PROVE  LapInv(d)'
<1>0. /\ fifoTail[d] \in Slots /\ fifoHead[d] \in Slots
      /\ tailLap[d] \in Nat /\ headLap[d] \in Nat
      /\ LapInv(d)
    BY DEF TypeOK, FifoInv
<1>1. CASE IssueBlock
    <2>1. fifoHead'[d] = fifoHead[d] /\ headLap'[d] = headLap[d]
        BY <1>1 DEF IssueBlock
    <2>2. CASE d = issuing.dir
        BY <1>0, <1>1, <2>1, <2>2, IssueBlockFact
           DEF LapInv, Slots, DmaSizesAssumption
    <2>3. CASE d # issuing.dir
        <3>1. fifoTail'[d] = fifoTail[d] /\ tailLap'[d] = tailLap[d]
            BY <1>1, <2>3, IssueBlockFact
        <3>2. QED
            BY <1>0, <2>1, <3>1 DEF LapInv
    <2>4. QED
        BY <2>2, <2>3
<1>2. ASSUME NEW c \in Dirs, HwDone(c)
      PROVE  LapInv(d)'
    <2>1. fifoTail'[d] = fifoTail[d] /\ tailLap'[d] = tailLap[d]
        BY <1>2 DEF HwDone
    <2>2. CASE c = d
        <3>1. /\ fifoHead[d] # fifoTail[d]
              /\ fifoHead'[d] = NextSlot(fifoHead[d])
              /\ headLap'[d] = IF NextSlot(fifoHead[d]) < fifoHead[d]
                               THEN headLap[d] + 1 ELSE headLap[d]
            BY <1>2, <2>2 DEF HwDone, TypeOK
        <3>2. NextSlot(fifoHead[d]) =
                  IF fifoHead[d] = FifoSize - 1 THEN 0 ELSE fifoHead[d] + 1
            BY <1>0, NextSlotFact
        <3>3. QED
            BY <1>0, <2>1, <3>1, <3>2 DEF LapInv, Slots, DmaSizesAssumption
    <2>3. CASE c # d
        <3>1. fifoHead'[d] = fifoHead[d] /\ headLap'[d] = headLap[d]
            BY <1>2, <2>3 DEF HwDone, TypeOK
        <3>2. QED
            BY <1>0, <2>1, <3>1 DEF LapInv
    <2>4. QED
        BY <2>2, <2>3
<1>3. CASE UNCHANGED fifoVars
    BY <1>0, <1>3 DEF LapInv, fifoVars
<1>4. QED
    BY <1>1, <1>2, <1>3 DEF Next, Arrive, StartCheck, CheckReq, NandDone, vars

(* A request that was and stays queued keeps its place behind the tail. *)
LEMMA ReqStep ==
    ASSUME TypeOK, FifoInv, DmaSizesAssumption, [Next]_vars,
           NEW r \in Queued
    PROVE  ReqInv(r)'
<1> DEFINE d == r.dir
<1>0. /\ r \in IssuedReqs
      /\ d \in Dirs
      /\ r.lap \in Nat /\ r.reqTail \in Slots
      /\ r.overFlowCnt \in 0 .. OverflowMod - 1
      /\ fifoTail[d] \in Slots
      /\ tailLap[d] \in Nat
      /\ ReqInv(r)
    BY QueuedFact DEF IssuedReqs, TypeOK, FifoInv
<1>1. CASE IssueBlock
    <2>1. CASE d = issuing.dir
        <3>1. \/ /\ fifoTail'[d] = fifoTail[d] + 1
                 /\ overFlowCnt'[d] = overFlowCnt[d]
                 /\ tailLap'[d] = tailLap[d]
              \/ /\ overFlowCnt'[d] = (overFlowCnt[d] + 1) % OverflowMod
                 /\ tailLap'[d] = tailLap[d] + 1
            BY <1>1, <2>1, IssueBlockFact
        <3>2. QED
            BY <1>0, <3>1 DEF ReqInv, Slots, DmaSizesAssumption
    <2>2. CASE d # issuing.dir
        <3>1. /\ fifoTail'[d] = fifoTail[d]
              /\ overFlowCnt'[d] = overFlowCnt[d]
              /\ tailLap'[d] = tailLap[d]
            BY <1>0, <1>1, <2>2, IssueBlockFact
        <3>2. QED
            BY <1>0, <3>1 DEF ReqInv
    <2>3. QED
        BY <2>1, <2>2
<1>2. CASE UNCHANGED <<fifoTail, overFlowCnt, tailLap>>
    BY <1>0, <1>2 DEF ReqInv
<1>3. QED
    BY <1>1, <1>2 DEF Next, Arrive, StartCheck, CheckReq, NandDone, HwDone,
                      vars, fifoVars

(* Which requests are queued after a step. *)
LEMMA QueuedStep ==
    ASSUME TypeOK, DmaSizesAssumption, [Next]_vars, NEW q \in Queued'
    PROVE  \/ q \in Queued
           \/ /\ IssueBlock
              /\ q \in IssuedReqs
              /\ q.dir = issuing.dir
              /\ q.reqTail = fifoTail'[q.dir]
              /\ q.overFlowCnt = overFlowCnt'[q.dir]
              /\ q.lap = tailLap'[q.dir]
<1>0. /\ DOMAIN nvmeDmaReqQ = 1 .. Len(nvmeDmaReqQ)
      /\ Len(nvmeDmaReqQ) \in Nat
      /\ nvmeDmaReqQ \in Seq(IssuedReqs)
    BY QueuedFact DEF TypeOK
<1>1. CASE nvmeDmaReqQ' = nvmeDmaReqQ
    BY <1>1 DEF Queued
<1>2. ASSUME IssueBlock,
             NEW r \in IssuedReqs,
             nvmeDmaReqQ' = Append(nvmeDmaReqQ, r),
             r.dir = issuing.dir,
             r.reqTail = fifoTail'[r.dir],
             r.overFlowCnt = overFlowCnt'[r.dir],
             r.lap = tailLap'[r.dir]
      PROVE  q \in Queued \/ q = r
    <2>1. /\ DOMAIN nvmeDmaReqQ' = 1 .. Len(nvmeDmaReqQ) + 1
          /\ \A k \in 1 .. Len(nvmeDmaReqQ) : nvmeDmaReqQ'[k] = nvmeDmaReqQ[k]
          /\ nvmeDmaReqQ'[Len(nvmeDmaReqQ) + 1] = r
        BY <1>0, <1>2, AppendElements
    <2>2. QED
        BY <1>0, <2>1 DEF Queued
<1>3. ASSUME walk \in 1 .. Len(nvmeDmaReqQ),
             nvmeDmaReqQ' = RemoveAt(nvmeDmaReqQ, walk)
      PROVE  q \in Queued
    <2>1. /\ DOMAIN nvmeDmaReqQ' = 1 .. Len(nvmeDmaReqQ) - 1
          /\ \A j \in 1 .. Len(nvmeDmaReqQ) - 1 :
                 nvmeDmaReqQ'[j] = nvmeDmaReqQ[IF j < walk THEN j ELSE j + 1]
        BY <1>0, <1>3, RemoveElements
    <2>2. PICK j \in 1 .. Len(nvmeDmaReqQ) - 1 : q = nvmeDmaReqQ'[j]
        BY <2>1 DEF Queued
    <2>3. \E k \in 1 .. Len(nvmeDmaReqQ) : q = nvmeDmaReqQ[k]
        BY <1>0, <1>3, <2>1, <2>2
    <2>4. QED
        BY <1>0, <2>3 DEF Queued
<1>4. CASE IssueBlock
    BY <1>1, <1>2, <1>4, IssueBlockQueue
<1>5. CASE CheckReq
    BY <1>1, <1>3, <1>5, CheckReqFact DEF reqVars
<1>6. QED
    BY <1>1, <1>4, <1>5 DEF Next, Arrive, StartCheck, NandDone, HwDone, vars,
                            reqVars

LEMMA FifoStep ==
    ASSUME TypeOK, FifoInv, DmaSizesAssumption, [Next]_vars
    PROVE  FifoInv'
<1>1. ASSUME NEW d \in Dirs
      PROVE  LapInv(d)' /\ CountInv(d)'
    <2>1. /\ tailLap[d] \in Nat
          /\ overFlowCnt[d] \in 0 .. OverflowMod - 1
          /\ CountInv(d)
        BY <1>1 DEF TypeOK, FifoInv
    <2>2. CASE IssueBlock
        <3>1. \/ overFlowCnt'[d] = overFlowCnt[d] /\ tailLap'[d] = tailLap[d]
              \/ /\ overFlowCnt'[d] = (overFlowCnt[d] + 1) % OverflowMod
                 /\ tailLap'[d] = tailLap[d] + 1
            BY <1>1, <2>2, IssueBlockFact
        <3>2. overFlowCnt[d] + 1 < OverflowMod =>
                  (overFlowCnt[d] + 1) % OverflowMod = overFlowCnt[d] + 1
            BY <2>1, CountFact
        <3>3. CountInv(d)'
            BY <2>1, <3>1, <3>2 DEF CountInv, DmaSizesAssumption
        <3>4. QED
            BY <1>1, <3>3, LapStep
    <2>3. CASE UNCHANGED <<overFlowCnt, tailLap>>
        BY <1>1, <2>1, <2>3, LapStep DEF CountInv
    <2>4. QED
        BY <2>2, <2>3 DEF Next, Arrive, StartCheck, CheckReq, NandDone, HwDone,
                          vars, fifoVars
<1>2. ASSUME NEW q \in Queued'
      PROVE  ReqInv(q)'
    <2>1. CASE q \in Queued
        BY <2>1, ReqStep
    <2>2. CASE /\ q \in IssuedReqs
               /\ q.dir \in Dirs
               /\ q.reqTail = fifoTail'[q.dir]
               /\ q.overFlowCnt = overFlowCnt'[q.dir]
               /\ q.lap = tailLap'[q.dir]
        <3>1. q.lap \in Nat /\ q.reqTail \in Nat
            BY <2>2 DEF IssuedReqs, Slots
        <3>2. CountInv(q.dir)'
            BY <1>1, <2>2
        <3>3. QED
            BY <2>2, <3>1, <3>2 DEF ReqInv, CountInv
    <2>3. QED
        BY <1>2, <2>1, <2>2, QueuedStep DEF IssuedReqs
<1>3. QED
    BY <1>1, <1>2 DEF FifoInv

-----------------------------------------------------------------------------
(* The order of the queue and the walk's flags *)

Before(q, r) ==
    \/ q.lap < r.lap
    \/ q.lap = r.lap /\ q.reqTail <= r.reqTail

QueueOrdered ==
    \A j, k \in 1 .. Len(nvmeDmaReqQ) :
        j < k /\ nvmeDmaReqQ[j].dir = nvmeDmaReqQ[k].dir
            => Before(nvmeDmaReqQ[j], nvmeDmaReqQ[k])

(* A set flag speaks for every request the walk has yet to visit. *)
FlagSound ==
    \A k \in 1 .. walk :
        done[nvmeDmaReqQ[k].dir] => Finished(nvmeDmaReqQ[k])

OrderInv == QueueOrdered /\ FlagSound

LEMMA OrderStep ==
    ASSUME TypeOK, FifoInv, OrderInv, DmaSizesAssumption, [Next]_vars
    PROVE  OrderInv'
<1>0. /\ nvmeDmaReqQ \in Seq(IssuedReqs)
      /\ Len(nvmeDmaReqQ) \in Nat
      /\ walk \in 0 .. Len(nvmeDmaReqQ)
      /\ \A k \in 1 .. Len(nvmeDmaReqQ) :
             /\ nvmeDmaReqQ[k] \in Queued
             /\ nvmeDmaReqQ[k].dir \in Dirs
             /\ nvmeDmaReqQ[k].lap \in Nat
             /\ nvmeDmaReqQ[k].reqTail \in Slots
    <2>1. nvmeDmaReqQ \in Seq(IssuedReqs) /\ walk \in 0 .. Len(nvmeDmaReqQ)
        BY DEF TypeOK
    <2>2. \A k \in 1 .. Len(nvmeDmaReqQ) :
              nvmeDmaReqQ[k] \in Queued /\ nvmeDmaReqQ[k] \in IssuedReqs
        BY <2>1, QueuedFact, ElementOfSeq DEF Queued
    <2>3. QED
        BY <2>1, <2>2, QueuedFact DEF IssuedReqs
<1>1. CASE IssueBlock
    <2>1. CASE nvmeDmaReqQ' = nvmeDmaReqQ
        BY <1>1, <2>1 DEF OrderInv, QueueOrdered, FlagSound, Before, Finished,
                          IssueBlock
    <2>2. ASSUME NEW r \in IssuedReqs,
                 nvmeDmaReqQ' = Append(nvmeDmaReqQ, r),
                 r.reqTail = fifoTail'[r.dir],
                 r.lap = tailLap'[r.dir]
          PROVE  OrderInv'
        <3>1. /\ Len(nvmeDmaReqQ') = Len(nvmeDmaReqQ) + 1
              /\ \A k \in 1 .. Len(nvmeDmaReqQ) : nvmeDmaReqQ'[k] = nvmeDmaReqQ[k]
              /\ nvmeDmaReqQ'[Len(nvmeDmaReqQ) + 1] = r
            BY <1>0, <2>2, AppendElements
        <3>2. \A k \in 1 .. Len(nvmeDmaReqQ) :
                  nvmeDmaReqQ[k].dir = r.dir => Before(nvmeDmaReqQ[k], r)
            <4>1. SUFFICES ASSUME NEW k \in 1 .. Len(nvmeDmaReqQ),
                                  NEW q, q = nvmeDmaReqQ[k], q.dir = r.dir
                           PROVE  Before(q, r)
                OBVIOUS
            <4>2. q \in Queued
                BY <1>0, <4>1
            <4>3. ReqInv(q)'
                BY <4>2, ReqStep
            <4>4. QED
                BY <2>2, <4>1, <4>3 DEF ReqInv, Before
        <3>3. QueueOrdered'
            <4>1. SUFFICES ASSUME NEW j \in 1 .. Len(nvmeDmaReqQ) + 1,
                                  NEW k \in 1 .. Len(nvmeDmaReqQ) + 1,
                                  j < k,
                                  nvmeDmaReqQ'[j].dir = nvmeDmaReqQ'[k].dir
                           PROVE  Before(nvmeDmaReqQ'[j], nvmeDmaReqQ'[k])
                BY <3>1 DEF QueueOrdered, Before
            <4>2. j \in 1 .. Len(nvmeDmaReqQ) /\ nvmeDmaReqQ'[j] = nvmeDmaReqQ[j]
                BY <1>0, <3>1, <4>1
            <4>3. CASE k = Len(nvmeDmaReqQ) + 1
                BY <3>1, <3>2, <4>1, <4>2, <4>3
            <4>4. CASE k \in 1 .. Len(nvmeDmaReqQ)
                <5>1. nvmeDmaReqQ'[k] = nvmeDmaReqQ[k]
                    BY <3>1, <4>4
                <5>2. QED
                    BY <4>1, <4>2, <4>4, <5>1 DEF OrderInv, QueueOrdered
            <4>5. QED
                BY <1>0, <4>1, <4>3, <4>4
        <3>4. FlagSound'
            <4>1. \A k \in 1 .. walk : nvmeDmaReqQ'[k] = nvmeDmaReqQ[k]
                BY <1>0, <3>1
            <4>2. QED
                BY <1>1, <4>1 DEF OrderInv, FlagSound, Finished, IssueBlock
        <3>5. QED
            BY <3>3, <3>4 DEF OrderInv
    <2>3. QED
        BY <1>1, <2>1, <2>2, IssueBlockQueue
<1>2. CASE StartCheck
    <2>1. QueueOrdered'
        BY <1>2 DEF StartCheck, reqVars, OrderInv, QueueOrdered, Before
    <2>2. FlagSound'
        BY <1>0, <1>2 DEF StartCheck, reqVars, FlagSound, NothingDone
    <2>3. QED
        BY <2>1, <2>2 DEF OrderInv
<1>3. CASE CheckReq
    <2> DEFINE r == nvmeDmaReqQ[walk]
    <2>1. /\ walk \in 1 .. Len(nvmeDmaReqQ)
          /\ r.dir \in Dirs
          /\ walk' = walk - 1
          /\ UNCHANGED fifoVars
        BY <1>3, CheckReqFact DEF CheckReq
    <2>2. CASE nvmeDmaReqQ' = RemoveAt(nvmeDmaReqQ, walk)
        <3>1. /\ Len(nvmeDmaReqQ') = Len(nvmeDmaReqQ) - 1
              /\ \A j \in 1 .. Len(nvmeDmaReqQ) - 1 :
                     nvmeDmaReqQ'[j] = nvmeDmaReqQ[IF j < walk THEN j ELSE j + 1]
            BY <1>0, <2>1, <2>2, RemoveElements, RemoveAtFact
        <3>2. QueueOrdered'
            <4>1. SUFFICES ASSUME NEW j \in 1 .. Len(nvmeDmaReqQ) - 1,
                                  NEW k \in 1 .. Len(nvmeDmaReqQ) - 1,
                                  j < k,
                                  nvmeDmaReqQ'[j].dir = nvmeDmaReqQ'[k].dir
                           PROVE  Before(nvmeDmaReqQ'[j], nvmeDmaReqQ'[k])
                BY <3>1 DEF QueueOrdered, Before
            <4> DEFINE a == IF j < walk THEN j ELSE j + 1
                       b == IF k < walk THEN k ELSE k + 1
            <4>2. /\ a \in 1 .. Len(nvmeDmaReqQ) /\ b \in 1 .. Len(nvmeDmaReqQ)
                  /\ a < b
                BY <1>0, <2>1, <4>1
            <4>3. nvmeDmaReqQ'[j] = nvmeDmaReqQ[a] /\ nvmeDmaReqQ'[k] = nvmeDmaReqQ[b]
                BY <3>1
            <4> HIDE DEF a, b
            <4>4. QED
                BY <4>1, <4>2, <4>3 DEF OrderInv, QueueOrdered
        <3>3. \A k \in 1 .. walk' : nvmeDmaReqQ'[k] = nvmeDmaReqQ[k]
            BY <1>0, <2>1, <3>1
        <3>4. QED
            <4>1. SUFFICES ASSUME NEW k \in 1 .. walk', done'[nvmeDmaReqQ[k].dir]
                           PROVE  Finished(nvmeDmaReqQ[k])
                BY <2>1, <3>2, <3>3 DEF OrderInv, FlagSound, Finished, fifoVars
            <4>2. /\ walk # 1
                  /\ k \in 1 .. Len(nvmeDmaReqQ) /\ k < walk /\ k \in 1 .. walk
                BY <1>0, <2>1, <4>1
            <4>3. done' = [done EXCEPT ![r.dir] = done[r.dir] \/ PartialDone(r)]
                BY <1>3, <4>2 DEF CheckReq
            <4>4. CASE done[nvmeDmaReqQ[k].dir]
                BY <4>2, <4>4 DEF OrderInv, FlagSound
            <4>5. CASE ~ done[nvmeDmaReqQ[k].dir]
                <5>1. nvmeDmaReqQ[k].dir = r.dir /\ PartialDone(r)
                    BY <1>0, <2>1, <4>1, <4>2, <4>3, <4>5 DEF TypeOK
                <5>2. Finished(r)
                    BY <1>0, <2>1, <5>1, PartialDoneSound
                <5>3. Before(nvmeDmaReqQ[k], r)
                    BY <2>1, <4>2, <5>1 DEF OrderInv, QueueOrdered
                <5>4. /\ fifoHead[r.dir] \in Nat /\ headLap[r.dir] \in Nat
                      /\ nvmeDmaReqQ[k].lap \in Nat /\ nvmeDmaReqQ[k].reqTail \in Nat
                      /\ r.lap \in Nat /\ r.reqTail \in Nat
                    BY <1>0, <2>1, <4>2 DEF TypeOK, Slots
                <5>5. QED
                    BY <5>1, <5>2, <5>3, <5>4 DEF Before, Finished
            <4>6. QED
                BY <4>4, <4>5
    <2>3. CASE UNCHANGED reqVars /\ ~ (done[r.dir] \/ PartialDone(r))
        <3>1. QueueOrdered'
            BY <2>3 DEF reqVars, OrderInv, QueueOrdered, Before
        <3>2. ASSUME NEW k \in 1 .. walk', done'[nvmeDmaReqQ[k].dir]
              PROVE  Finished(nvmeDmaReqQ[k])
            <4>1. walk # 1 /\ k \in 1 .. walk /\ k \in 1 .. Len(nvmeDmaReqQ)
                BY <1>0, <2>1, <3>2
            <4>2. done' = [done EXCEPT ![r.dir] = FALSE]
                BY <1>3, <2>3, <4>1 DEF CheckReq
            <4>3. done[nvmeDmaReqQ[k].dir]
                BY <1>0, <2>1, <3>2, <4>1, <4>2 DEF TypeOK
            <4>4. QED
                BY <4>1, <4>3 DEF OrderInv, FlagSound
        <3>3. QED
            BY <2>1, <2>3, <3>1, <3>2 DEF OrderInv, FlagSound, Finished,
                                          fifoVars, reqVars
    <2>4. QED
        BY <1>3, <2>2, <2>3, CheckReqFact
<1>4. ASSUME NEW c \in Dirs, HwDone(c)
      PROVE  OrderInv'
    <2>1. UNCHANGED <<nvmeDmaReqQ, walk, done>>
        BY <1>4 DEF HwDone, reqVars
    <2>2. ASSUME NEW k \in 1 .. walk, Finished(nvmeDmaReqQ[k])
          PROVE  Finished(nvmeDmaReqQ[k])'
        <3> DEFINE d == nvmeDmaReqQ[k].dir
        <3>1. /\ d \in Dirs
              /\ nvmeDmaReqQ[k].lap \in Nat /\ nvmeDmaReqQ[k].reqTail \in Slots
              /\ fifoHead[d] \in Slots /\ headLap[d] \in Nat
            BY <1>0 DEF TypeOK
        <3>2. NextSlot(fifoHead[d]) =
                  IF fifoHead[d] = FifoSize - 1 THEN 0 ELSE fifoHead[d] + 1
            BY <3>1, NextSlotFact
        <3>3. \/ fifoHead'[d] = fifoHead[d] /\ headLap'[d] = headLap[d]
              \/ /\ fifoHead'[d] = NextSlot(fifoHead[d])
                 /\ headLap'[d] = IF NextSlot(fifoHead[d]) < fifoHead[d]
                                  THEN headLap[d] + 1 ELSE headLap[d]
            BY <1>4, <3>1 DEF HwDone, TypeOK
        <3>4. QED
            BY <2>1, <2>2, <3>1, <3>2, <3>3
               DEF Finished, Slots, DmaSizesAssumption
    <2>3. QED
        BY <2>1, <2>2 DEF OrderInv, QueueOrdered, FlagSound, Before
<1>5. CASE UNCHANGED <<fifoVars, nvmeDmaReqQ, walk, done>>
    BY <1>5 DEF OrderInv, QueueOrdered, FlagSound, Before, Finished, fifoVars
<1>6. QED
    BY <1>1, <1>2, <1>3, <1>4, <1>5
       DEF Next, Arrive, NandDone, vars, reqVars
-----------------------------------------------------------------------------
(* The theorems *)

DmaInv == TypeOK /\ HoldInv /\ FifoInv /\ OrderInv

LEMMA InitInv ==
    ASSUME DmaSizesAssumption, Init
    PROVE  DmaInv
<1>1. /\ 0 \in Slots
      /\ 0 \in 0 .. OverflowMod - 1
      /\ 0 < OverflowMod
      /\ 0 \in 0 .. MaxRequests
    BY DEF Slots, DmaSizesAssumption
<1>2. nvmeDmaReqQ = <<>> /\ Queued = {} /\ Len(nvmeDmaReqQ) = 0
    BY DEF Init, Queued
<1>3. TypeOK
    <2>1. chain \in [Entries -> Seq([kind : Kinds, blocks : 1 .. MaxBlocks])]
        <3> DEFINE R == [kind : Kinds, blocks : 1 .. MaxBlocks]
        <3> HIDE DEF R
        <3>1. <<>> \in Seq(R)
            OBVIOUS
        <3>2. QED
            BY <3>1 DEF Init, R
    <2>2. nvmeDmaReqQ \in Seq(IssuedReqs)
        BY <1>2
    <2>3. QED
        BY <1>1, <1>2, <2>1, <2>2 DEF Init, TypeOK, NothingDone
<1>4. HoldInv
    BY <1>2 DEF Init, HoldInv, EntryHeldOnce, IssuingHolds, HolderIsActive
<1>5. FifoInv
    BY <1>1, <1>2 DEF Init, FifoInv, LapInv, CountInv
<1>6. OrderInv
    BY <1>2 DEF Init, OrderInv, QueueOrdered, FlagSound
<1>7. QED
    BY <1>3, <1>4, <1>5, <1>6 DEF DmaInv

(* The FIFOs, the queue of issued requests and the chains of the entries   *)
(* agree in every state, for any interleaving with the hardware.           *)
THEOREM DmaInvCorrect == Spec => []DmaInv
<1>1. Init => DmaInv
    BY InitInv, DmaSizesAssumption
<1>2. DmaInv /\ [Next]_vars => DmaInv'
    BY TypeStep, HoldStep, FifoStep, OrderStep, DmaSizesAssumption
       DEF DmaInv, HoldInv
<1>3. QED
    BY <1>1, <1>2, PTL DEF Spec

(* Every variable keeps its type, for every FIFO size: indices and counts  *)
(* stay in range, and no chain is released that is empty.                  *)
THEOREM DmaTypeCorrect == Spec => []TypeOK
<1>1. DmaInv => TypeOK
    BY DEF DmaInv
<1>2. QED
    BY <1>1, DmaInvCorrect, PTL

(* Two issued transfers never share a buffer entry, and a released request *)
(* is never forgotten.                                                     *)
THEOREM EntriesHeldCorrect == Spec => []EntriesHeld
<1>1. DmaInv => EntriesHeld
    BY DEF DmaInv, HoldInv, EntriesHeld
<1>2. QED
    BY <1>1, DmaInvCorrect, PTL

CountsUnwrapped == \A d \in Dirs : tailLap[d] < OverflowMod

(* Until an overflow count wraps, the comparison of 8-bit indices and      *)
(* counts finds exactly the requests whose blocks the hardware has taken.  *)
THEOREM PartialDoneCorrect == Spec => [](CountsUnwrapped => PartialDoneExact)
<1>1. DmaInv => (CountsUnwrapped => PartialDoneExact)
    <2>1. SUFFICES ASSUME DmaInv, CountsUnwrapped, NEW r \in Queued
                   PROVE  PartialDone(r) <=> Finished(r)
        BY DEF PartialDoneExact
    <2>2. TypeOK /\ FifoInv
        BY <2>1 DEF DmaInv
    <2>3. tailLap[r.dir] < OverflowMod
        BY <2>1, <2>2, QueuedFact DEF CountsUnwrapped
    <2>4. QED
        BY <2>2, <2>3, PartialDoneSound, PartialDoneComplete, DmaSizesAssumption
<1>2. QED
    BY <1>1, DmaInvCorrect, PTL

(* No request leaves the queue while the hardware still works on it, for   *)
(* every FIFO size, and even when the overflow count wraps.                *)
THEOREM RetiredWhenDoneCorrect == Spec => RetiredWhenDone
<1>1. ASSUME DmaInv, [Next]_vars, NEW r \in Queued, r \notin Queued'
      PROVE  Finished(r)
    <2>0. /\ TypeOK /\ FifoInv /\ OrderInv
          /\ DOMAIN nvmeDmaReqQ = 1 .. Len(nvmeDmaReqQ)
          /\ Len(nvmeDmaReqQ) \in Nat
          /\ nvmeDmaReqQ \in Seq(IssuedReqs)
        BY <1>1, QueuedFact DEF DmaInv, TypeOK
    <2>1. nvmeDmaReqQ' # nvmeDmaReqQ
        BY <1>1 DEF Queued
    <2>2. CASE IssueBlock
        <3>1. PICK q \in IssuedReqs : nvmeDmaReqQ' = Append(nvmeDmaReqQ, q)
            BY <2>0, <2>1, <2>2, IssueBlockQueue, DmaSizesAssumption
        <3>2. /\ DOMAIN nvmeDmaReqQ' = 1 .. Len(nvmeDmaReqQ) + 1
              /\ \A k \in 1 .. Len(nvmeDmaReqQ) : nvmeDmaReqQ'[k] = nvmeDmaReqQ[k]
            BY <2>0, <3>1, AppendElements
        <3>3. r \in Queued'
            BY <1>1, <2>0, <3>2 DEF Queued
        <3>4. QED
            BY <1>1, <3>3
    <2>3. CASE CheckReq
        <3> DEFINE v == nvmeDmaReqQ[walk]
        <3>1. /\ walk \in 1 .. Len(nvmeDmaReqQ)
              /\ done[v.dir] \/ PartialDone(v)
              /\ nvmeDmaReqQ' = RemoveAt(nvmeDmaReqQ, walk)
            BY <2>0, <2>1, <2>3, CheckReqFact DEF reqVars
        <3>2. r = v
            <4>1. /\ DOMAIN nvmeDmaReqQ' = 1 .. Len(nvmeDmaReqQ) - 1
                  /\ \A i \in (1 .. Len(nvmeDmaReqQ)) \ {walk} :
                         \E j \in 1 .. Len(nvmeDmaReqQ) - 1 :
                             nvmeDmaReqQ'[j] = nvmeDmaReqQ[i]
                BY <2>0, <3>1, RemoveElements
            <4>2. PICK k \in 1 .. Len(nvmeDmaReqQ) : r = nvmeDmaReqQ[k]
                BY <1>1, <2>0 DEF Queued
            <4>3. QED
                BY <1>1, <4>1, <4>2 DEF Queued
        <3>3. CASE done[v.dir]
            <4>1. walk \in 1 .. walk
                BY <3>1
            <4>2. QED
                BY <2>0, <3>2, <3>3, <4>1 DEF OrderInv, FlagSound
        <3>4. CASE PartialDone(v)
            BY <1>1, <2>0, <3>2, <3>4, PartialDoneSound, DmaSizesAssumption
        <3>5. QED
            BY <3>1, <3>3, <3>4
    <2>4. QED
        BY <1>1, <2>1, <2>2, <2>3
           DEF Next, Arrive, StartCheck, NandDone, HwDone, vars, reqVars
<1>2. DmaInv /\ [Next]_vars =>
          [\A r \in Queued : r \notin Queued' => Finished(r)]_vars
    BY <1>1
<1>3. QED
    BY <1>2, DmaInvCorrect, PTL DEF RetiredWhenDone, Spec

=============================================================================
