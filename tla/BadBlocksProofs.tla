--------------------------- MODULE BadBlocksProofs ---------------------------
(***************************************************************************)
(* For any number of dies and blocks, any marks, failures and power cuts:  *)
(* the remapping is sound and the tables are complete (BadBlocks).         *)
(*                                                                         *)
(* The argument: what the firmware knows to be bad covers the marks from   *)
(* the end of the scan on, because a table on flash always does (KnowsBad);*)
(* the loop of RemapBadBlock hands out good reserved blocks in ascending   *)
(* order, each once, and counts exactly the bad blocks it leaves in place  *)
(* (Remapping); from then on only the set of bad blocks grows.  A failure  *)
(* books its die for good, so that a shutdown never skips it (Reports).    *)
(***************************************************************************)
EXTENDS BadBlocks, TLAPS

Starting == {"erase", "read", "find", "save", "saving", "recovered"}
Found == {"save", "saving", "recovered", "remap", "map", "stopped",
          "run", "flush", "flushing", "flushed"}

Types ==
    /\ marks \in [Dies -> [Blocks -> SUBSET Pages]]
    /\ table \in [Dies -> (SUBSET Blocks) \cup {NoTable}]
    /\ bad \in [Dies -> SUBSET Blocks]
    /\ remapped \in [Dies -> [Blocks -> Blocks]]
    /\ booked \subseteq Dies
    /\ held \subseteq Dies
    /\ list \in [Dies -> SUBSET Blocks]
    /\ unsaved \subseteq Dies
    /\ reserved \in [Dies -> Nat]
    /\ counted \in [Dies -> SUBSET VirtualBlocks]
    /\ vbad \in [Dies -> SUBSET VirtualBlocks]
    /\ pc \in Starting \cup Found
    /\ block \in Blocks
    /\ die \in Dies
    /\ failed \in [Dies -> SUBSET Blocks]
    /\ due \in [Dies -> SUBSET Blocks]

(* The maker's marks are on flash, and so are they in what is known.       *)
Knows(d) ==
    /\ marks[d][Bbt] = {}
    /\ table[d] # NoTable => Marked(d) \subseteq table[d]
    /\ pc = "find" =>
           \A b \in Marked(d) : d \in held \/ b < block => b \in bad[d]
    /\ pc \in Found => Marked(d) \subseteq bad[d]
    /\ pc \in Found \ {"save", "saving", "recovered"} => Bbt \in bad[d]
    /\ pc \in {"flush", "flushing"} /\ d \notin held => Marked(d) \subseteq list[d]

KnowsBad == \A d \in Dies : Knows(d)

(* Whether RemapBadBlock is past a block. *)
Past(d, v) ==
    \/ pc = "map"
    \/ pc = "remap" /\ (v < block \/ (v = block /\ d < die))

Replaced(d, v) ==
    /\ UserBlocks <= remapped[d][v]
    /\ remapped[d][v] < reserved[d]
    /\ remapped[d][v] \notin bad[d]

(* What the loop of RemapBadBlock has done, and has left as it was. *)
Left(d, v) == remapped[d][v] = v /\ v \notin counted[d]

RemappedSoFar(d) ==
    /\ UserBlocks <= reserved[d]
    /\ \A v \in VirtualBlocks :
        /\ Past(d, v) \/ Left(d, v)
        /\ Past(d, v) /\ v \notin bad[d] => Left(d, v)
        /\ Past(d, v) /\ v \in bad[d] =>
               \/ v \notin counted[d] /\ Replaced(d, v)
               \/ v \in counted[d] /\ remapped[d][v] = v
        /\ \A w \in VirtualBlocks : remapped[d][v] = remapped[d][w] => v = w

LoopBounds ==
    /\ pc \in Starting \ {"find"} => block = 0
    /\ pc \in Starting => die = 0
    /\ pc = "remap" => block < UserBlocks

Remapping ==
    /\ LoopBounds
    /\ pc \in Starting \cup {"remap", "map"} => \A d \in Dies : RemappedSoFar(d)

(* What has failed is known and booked; what a shutdown has to write is in *)
(* the table it made.                                                      *)
Reported(d) ==
    /\ ~ Running => failed[d] = {} /\ due[d] = {}
    /\ failed[d] \subseteq bad[d] \ {Bbt}
    /\ failed[d] # {} => d \in booked
    /\ pc \in {"flush", "flushing"} =>
           /\ d \in held => due[d] = {}
           /\ d \notin held => due[d] \subseteq list[d]
    /\ pc = "flushed" /\ d \notin unsaved /\ due[d] # {} =>
           table[d] # NoTable /\ due[d] \subseteq table[d]

Reports == \A d \in Dies : Reported(d)

BadInv == Types /\ KnowsBad /\ Remapping /\ RemapSound /\ Reports
-----------------------------------------------------------------------------
(* Facts about the constants and the helpers *)

LEMMA SizeFact ==
    /\ NumDies \in Nat /\ TotalBlocks \in Nat /\ UserBlocks \in Nat
    /\ 1 <= NumDies /\ 1 <= UserBlocks /\ UserBlocks <= TotalBlocks
    /\ Bbt \in Blocks /\ 0 \in Blocks /\ 0 \in Dies
    /\ VirtualBlocks \subseteq Blocks
    /\ UserBlocks - 1 \in VirtualBlocks
BY SizeAssumption DEF SizeAssumption, Bbt, Blocks, Dies, VirtualBlocks

(* A table is never mistaken for a missing one. *)
LEMMA TableFact ==
    ASSUME NEW s \in SUBSET Blocks
    PROVE  s # NoTable
BY FlashAssumption DEF FlashAssumption

(* What an erase of tables may leave: each is as it was, or gone. *)
LEMMA EraseTablesFact ==
    ASSUME Types, NEW ds \in SUBSET Dies, EraseTables(ds)
    PROVE  /\ table' \in [Dies -> (SUBSET Blocks) \cup {NoTable}]
           /\ \A d \in Dies : table'[d] \in {table[d], NoTable}
           /\ \A d \in Dies \ ds : table'[d] = table[d]
BY DEF EraseTables, Types

(* What a write of tables does: only erased ones change, to the new ones. *)
LEMMA WriteTablesFact ==
    ASSUME Types, NEW done \in SUBSET Dies,
           NEW new, new \in [Dies -> SUBSET Blocks], WriteTables(done, new)
    PROVE  /\ table' \in [Dies -> (SUBSET Blocks) \cup {NoTable}]
           /\ \A d \in Dies : table'[d] = IF d \in done THEN new[d] ELSE table[d]
           /\ \A d \in done : table'[d] # NoTable
BY TableFact DEF WriteTables, Types

(* The loop of RemapBadBlock visits every user block of every die: a step  *)
(* adds the block it is at, and no other, to those it is past.             *)
LEMMA AdvanceFact ==
    ASSUME Types, pc = "remap", block < UserBlocks, Advance
    PROVE  /\ block' \in Blocks
           /\ die' \in Dies
           /\ pc' \in {"remap", "map"}
           /\ pc' = "remap" => block' < UserBlocks
           /\ \A d \in Dies, v \in VirtualBlocks :
                  Past(d, v)' <=> Past(d, v) \/ (d = die /\ v = block)
<1>1. /\ block \in Nat /\ block \in Blocks /\ die \in 0 .. NumDies - 1
      /\ VirtualBlocks = 0 .. UserBlocks - 1 /\ Dies = 0 .. NumDies - 1
      /\ Blocks = 0 .. TotalBlocks - 1
    BY DEF Types, Blocks, Dies, VirtualBlocks
<1>2. /\ block' \in Blocks
      /\ die' \in Dies
      /\ pc' \in {"remap", "map"}
      /\ pc' = "remap" => block' < UserBlocks
    BY <1>1, SizeFact DEF Advance
<1>3. ASSUME NEW d \in Dies, NEW v \in VirtualBlocks
      PROVE  Past(d, v)' <=> Past(d, v) \/ (d = die /\ v = block)
    <2>1. d \in 0 .. NumDies - 1 /\ v \in 0 .. UserBlocks - 1
        BY <1>1
    <2>2. Past(d, v) <=> v < block \/ (v = block /\ d < die)
        BY DEF Past
    <2>3. CASE die < NumDies - 1
        <3>1. Past(d, v)' <=> v < block \/ (v = block /\ d < die + 1)
            BY <2>3 DEF Past, Advance
        <3>2. QED
            BY <1>1, <2>1, <2>2, <3>1, SizeFact
    <2>4. CASE die >= NumDies - 1 /\ block < UserBlocks - 1
        <3>1. die = NumDies - 1 /\ ~ (die < NumDies - 1)
            BY <1>1, <2>4, SizeFact
        <3>2. Past(d, v)' <=> v < block + 1 \/ (v = block + 1 /\ d < 0)
            BY <2>4, <3>1 DEF Past, Advance
        <3>3. QED
            BY <1>1, <2>1, <2>2, <3>1, <3>2, SizeFact
    <2>5. CASE die >= NumDies - 1 /\ ~ (block < UserBlocks - 1)
        <3>1. die = NumDies - 1 /\ ~ (die < NumDies - 1) /\ block = UserBlocks - 1
            BY <1>1, <2>5, SizeFact
        <3>2. Past(d, v)'
            BY <2>5, <3>1 DEF Past, Advance
        <3>3. QED
            BY <1>1, <2>1, <2>2, <3>1, <3>2, SizeFact
    <2>6. QED
        BY <1>1, <2>3, <2>4, <2>5, SizeFact
<1>4. QED
    BY <1>2, <1>3
-----------------------------------------------------------------------------
(* Types *)

LEMMA TypesInit == Init => Types
<1> SUFFICES ASSUME Init PROVE Types
    OBVIOUS
<1>1. marks \in [Dies -> [Blocks -> SUBSET Pages]] /\ bad \in [Dies -> SUBSET Blocks]
    BY FlashAssumption DEF Init, FlashAssumption
<1>2. QED
    BY <1>1, SizeFact DEF Init, Types, Each, Starting, Found

(* The loop bound of RemapBadBlock is needed for the type of counted. *)
LEMMA TypesNext ==
    ASSUME Types, pc = "remap" => block < UserBlocks, [Next]_vars
    PROVE  Types'
<1> USE SizeFact DEF Starting, Found, flash, phyMap, remap, save, seen
<1>1. CASE PowerCycle
    <2>1. bad' \in [Dies -> SUBSET Blocks]
        BY <1>1, FlashAssumption DEF PowerCycle, PowerOn, FlashAssumption
    <2>2. QED
        BY <1>1, <2>1 DEF PowerCycle, PowerOn, Types, Each
<1>2. CASE EraseTotalBlockSpace
    <2>1. PICK f \in [Dies -> Failing] :
              /\ UpdatePhyBlockMapForGrownBadBlock(f)
              /\ table' \in {[d \in Dies |-> IF d \in kept THEN table[d] ELSE NoTable] :
                                  kept \in SUBSET {d \in Dies : Bbt \in f[d]}}
        BY <1>2 DEF EraseTotalBlockSpace
    <2>2. \A d \in Dies : f[d] \subseteq Blocks
        BY FlashAssumption DEF FlashAssumption
    <2>3. bad' \in [Dies -> SUBSET Blocks] /\ booked' \subseteq Dies
        BY <2>1, <2>2 DEF UpdatePhyBlockMapForGrownBadBlock, Types
    <2>4. table' \in [Dies -> (SUBSET Blocks) \cup {NoTable}]
        BY <2>1 DEF Types
    <2>5. QED
        BY <1>2, <2>3, <2>4 DEF EraseTotalBlockSpace, Types
<1>3. CASE ReadBadBlockTable
    <2>1. bad' \in [Dies -> SUBSET Blocks]
        BY <1>3 DEF ReadBadBlockTable, Types
    <2>2. QED
        BY <1>3, <2>1 DEF ReadBadBlockTable, Types
<1>4. CASE FindBadBlock
    <2>1. bad' \in [Dies -> SUBSET Blocks]
        BY <1>4 DEF FindBadBlock, Types
    <2>2. block' \in Blocks /\ pc' \in {"find", "save"}
        BY <1>4 DEF FindBadBlock, Types, Blocks
    <2>3. QED
        BY <1>4, <2>1, <2>2 DEF FindBadBlock, Types
<1>5. CASE SaveErase
    BY <1>5, EraseTablesFact DEF SaveErase, Types
<1>6. CASE SaveWrite
    <2>1. PICK done \in SUBSET Erased(Dies \ held) : WriteTables(done, bad)
        BY <1>6 DEF SaveWrite
    <2>2. table' \in [Dies -> (SUBSET Blocks) \cup {NoTable}]
        BY <2>1, WriteTablesFact DEF Erased, Types
    <2>3. QED
        BY <1>6, <2>2 DEF SaveWrite, Types
<1>7. CASE HideBbt
    BY <1>7 DEF HideBbt, Types
<1>8. CASE RemapNothing
    BY <1>8, AdvanceFact DEF RemapNothing, Types
<1>9. CASE RemapSkip
    BY <1>9 DEF RemapSkip, Types
<1>10. CASE RemapTake
    <2>1. reserved[die] \in Blocks
        BY <1>10 DEF RemapTake, Types, Blocks
    <2>2. reserved' \in [Dies -> Nat] /\ remapped' \in [Dies -> [Blocks -> Blocks]]
        BY <1>10, <2>1 DEF RemapTake, Types
    <2>3. QED
        BY <1>10, <2>2, AdvanceFact DEF RemapTake, Types
<1>11. CASE RemapCount
    <2>1. block \in VirtualBlocks
        BY <1>11 DEF RemapCount, Types, Blocks, VirtualBlocks
    <2>2. counted' \in [Dies -> SUBSET VirtualBlocks]
        BY <1>11, <2>1 DEF RemapCount, Types
    <2>3. QED
        BY <1>11, <2>2, AdvanceFact DEF RemapCount, Types
<1>12. CASE InitBlockMap
    BY <1>12 DEF InitBlockMap, Types
<1>13. CASE FlushBegin
    BY <1>13 DEF FlushBegin, NewTable, Types
<1>14. CASE FlushErase
    BY <1>14, EraseTablesFact DEF FlushErase, Types
<1>15. CASE FlushWrite
    <2>1. PICK done \in SUBSET Erased(Dies \ held) :
              WriteTables(done, list) /\ unsaved' = (Dies \ held) \ done
        BY <1>15 DEF FlushWrite
    <2>2. table' \in [Dies -> (SUBSET Blocks) \cup {NoTable}]
        BY <2>1, WriteTablesFact DEF Erased, Types
    <2>3. QED
        BY <1>15, <2>1, <2>2 DEF FlushWrite, Types
<1>16. CASE Resume
    BY <1>16 DEF Resume, Types
<1>17. CASE \E d \in Dies, v \in VirtualBlocks : Fail(d, v)
    <2>1. PICK d \in Dies, v \in VirtualBlocks : Fail(d, v)
        BY <1>17
    <2>2. RowBlock(d, v) \in Blocks
        BY DEF RowBlock, Types
    <2>3. bad' \in [Dies -> SUBSET Blocks] /\ booked' \subseteq Dies
        BY <2>1, <2>2 DEF Fail, UpdatePhyBlockMapForGrownBadBlock, Types
    <2>4. failed' \in [Dies -> SUBSET Blocks]
        BY <2>1, <2>2 DEF Fail, Types
    <2>5. QED
        BY <2>1, <2>3, <2>4 DEF Fail, Types
<1>18. CASE UNCHANGED vars
    BY <1>18 DEF vars, Types
<1>19. QED
    BY <1>1, <1>2, <1>3, <1>4, <1>5, <1>6, <1>7, <1>8, <1>9, <1>10, <1>11,
       <1>12, <1>13, <1>14, <1>15, <1>16, <1>17, <1>18
       DEF Next, StartUp, Flush
-----------------------------------------------------------------------------
(* KnowsBad *)

LEMMA KnowsBadInit == Init => KnowsBad
<1> SUFFICES ASSUME Init, NEW d \in Dies PROVE Knows(d)
    BY DEF KnowsBad
<1>1. marks[d][Bbt] = {}
    BY FlashAssumption DEF Init, FlashAssumption
<1>2. QED
    BY <1>1 DEF Init, Knows, Found, Each

(* After a start of the power only the flash is known. *)
LEMMA KnowsBadPowerOn ==
    ASSUME KnowsBad, PowerOn, UNCHANGED flash
    PROVE  KnowsBad'
BY DEF KnowsBad, Knows, PowerOn, Found, Marked, flash

LEMMA KnowsBadStartUp ==
    ASSUME Types, KnowsBad, LoopBounds, StartUp
    PROVE  KnowsBad'
<1> USE SizeFact DEF Starting, Found, flash, phyMap, remap, save, seen
<1> SUFFICES ASSUME NEW d \in Dies PROVE Knows(d)'
    BY DEF KnowsBad
<1>1. Knows(d)
    BY DEF KnowsBad
<1>2. Marked(d)' = Marked(d) /\ Marked(d) \subseteq Blocks
    BY DEF StartUp, EraseTotalBlockSpace, ReadBadBlockTable, FindBadBlock, SaveErase,
           SaveWrite, HideBbt, RemapNothing, RemapSkip, RemapTake, RemapCount,
           InitBlockMap, Marked
<1>3. marks' = marks
    BY DEF StartUp, EraseTotalBlockSpace, ReadBadBlockTable, FindBadBlock, SaveErase,
           SaveWrite, HideBbt, RemapNothing, RemapSkip, RemapTake, RemapCount,
           InitBlockMap
<1>4. CASE EraseTotalBlockSpace
    <2>1. table'[d] \in {table[d], NoTable}
        BY <1>4 DEF EraseTotalBlockSpace, Types
    <2>2. QED
        BY <1>1, <1>2, <1>3, <1>4, <2>1 DEF EraseTotalBlockSpace, Knows
<1>5. CASE ReadBadBlockTable
    <2>1. block' = 0 /\ table' = table
        BY <1>5 DEF ReadBadBlockTable, LoopBounds
    <2>2. d \in held' <=> table[d] # NoTable
        BY <1>5 DEF ReadBadBlockTable
    <2>3. d \in held' => bad'[d] = table[d]
        BY <1>5 DEF ReadBadBlockTable
    <2>4. pc' = "recovered" => d \in held'
        BY <1>5 DEF ReadBadBlockTable
    <2>5. pc' \in {"find", "recovered"}
        BY <1>5 DEF ReadBadBlockTable
    <2>6. \A b \in Blocks : ~ (b < 0)
        BY DEF Blocks
    <2>7. QED
        BY <1>1, <1>2, <1>3, <2>1, <2>2, <2>3, <2>4, <2>5, <2>6 DEF Knows
<1>6. CASE FindBadBlock
    <2>1. PICK found \in SUBSET (Dies \ held) :
              /\ \A e \in Dies \ held : (e \in found) \in Detect(e, block)
              /\ bad' = [e \in Dies |-> CASE e \in held -> bad[e]
                                          [] e \in found -> bad[e] \cup {block}
                                          [] OTHER -> bad[e] \ {block}]
        BY <1>6 DEF FindBadBlock
    <2>2. held' = held /\ table' = table /\ list' = list
        BY <1>6 DEF FindBadBlock
    <2>3. d \in held => bad'[d] = bad[d]
        BY <2>1
    <2>4. ASSUME NEW b \in Marked(d), d \notin held, b < block \/ b = block
          PROVE  b \in bad'[d]
        <3>1. CASE b = block
            <4>1. marks[d][block] # {}
                BY <3>1 DEF Marked
            <4>2. Detect(d, block) = {TRUE}
                BY <4>1 DEF Detect
            <4>3. d \in found
                BY <2>1, <2>4, <4>2
            <4>4. QED
                BY <2>1, <2>4, <3>1, <4>3
        <3>2. CASE b # block
            <4>1. b \in bad[d]
                BY <1>1, <1>6, <2>4, <3>2 DEF Knows, FindBadBlock
            <4>2. QED
                BY <2>1, <2>4, <3>2, <4>1
        <3>3. QED
            BY <3>1, <3>2
    <2>5. CASE block = TotalBlocks - 1
        <3>1. pc' = "save"
            BY <1>6, <2>5 DEF FindBadBlock
        <3>2. \A b \in Marked(d) : b < block \/ b = block
            BY <1>2, <2>5 DEF Blocks
        <3>3. d \notin held => Marked(d) \subseteq bad'[d]
            BY <2>4, <3>2
        <3>4. d \in held => Marked(d) \subseteq bad'[d]
            BY <1>1, <1>6, <2>3 DEF Knows, FindBadBlock
        <3>5. QED
            BY <1>1, <1>2, <1>3, <2>2, <3>1, <3>3, <3>4 DEF Knows
    <2>6. CASE block # TotalBlocks - 1
        <3>1. pc' = "find" /\ block' = block + 1
            BY <1>6, <2>6 DEF FindBadBlock
        <3>2. \A b \in Marked(d) : b < block + 1 => b < block \/ b = block
            BY <1>2 DEF Blocks, Types
        <3>3. \A b \in Marked(d) : d \notin held /\ b < block + 1 => b \in bad'[d]
            BY <2>4, <3>2
        <3>4. \A b \in Marked(d) : d \in held => b \in bad'[d]
            BY <1>1, <1>6, <2>3 DEF Knows, FindBadBlock
        <3>5. QED
            BY <1>1, <1>2, <1>3, <2>2, <3>1, <3>3, <3>4 DEF Knows
    <2>7. QED
        BY <2>5, <2>6
<1>7. CASE SaveErase
    <2>1. table'[d] \in {table[d], NoTable}
        BY <1>7, EraseTablesFact DEF SaveErase
    <2>2. QED
        BY <1>1, <1>2, <1>3, <1>7, <2>1 DEF SaveErase, Knows
<1>8. CASE SaveWrite
    <2>1. PICK done \in SUBSET Erased(Dies \ held) : WriteTables(done, bad)
        BY <1>8 DEF SaveWrite
    <2>2. table'[d] \in {table[d], bad[d]}
        <3>1. done \in SUBSET Dies /\ bad \in [Dies -> SUBSET Blocks]
            BY <2>1 DEF Erased, Types
        <3>2. \A e \in Dies : table'[e] = IF e \in done THEN bad[e] ELSE table[e]
            BY <2>1, <3>1, WriteTablesFact
        <3>3. QED
            BY <3>2
    <2>3. QED
        BY <1>1, <1>2, <1>3, <1>8, <2>2 DEF SaveWrite, Knows
<1>9. CASE HideBbt
    <2>1. bad'[d] = bad[d] \cup {Bbt} /\ pc' = "remap" /\ UNCHANGED <<table, list>>
        BY <1>9 DEF HideBbt
    <2>2. QED
        BY <1>1, <1>2, <1>3, <1>9, <2>1 DEF HideBbt, Knows
<1>10. CASE RemapNothing \/ RemapSkip \/ RemapTake \/ RemapCount
    <2>1. pc = "remap" /\ UNCHANGED <<table, bad, list>>
        BY <1>10 DEF RemapNothing, RemapSkip, RemapTake, RemapCount
    <2>2. pc' \in {"remap", "map"}
        BY <1>10, <2>1, AdvanceFact
           DEF RemapNothing, RemapSkip, RemapTake, RemapCount, LoopBounds
    <2>3. QED
        BY <1>1, <1>2, <1>3, <2>1, <2>2 DEF Knows
<1>11. CASE InitBlockMap
    BY <1>1, <1>2, <1>3, <1>11 DEF InitBlockMap, Knows
<1>12. QED
    BY <1>4, <1>5, <1>6, <1>7, <1>8, <1>9, <1>10, <1>11 DEF StartUp

LEMMA KnowsBadRunning ==
    ASSUME Types, KnowsBad, Flush \/ \E d \in Dies, v \in VirtualBlocks : Fail(d, v)
    PROVE  KnowsBad'
<1> USE SizeFact DEF Starting, Found, flash, phyMap, remap, save, seen
<1> SUFFICES ASSUME NEW d \in Dies PROVE Knows(d)'
    BY DEF KnowsBad
<1>1. Knows(d)
    BY DEF KnowsBad
<1>2. marks' = marks
    BY DEF Flush, FlushBegin, FlushErase, FlushWrite, Resume, Fail
<1>3. Marked(d)' = Marked(d) /\ Bbt \notin Marked(d)
    BY <1>1, <1>2 DEF Marked, Knows
<1>4. CASE FlushBegin
    <2>1. UNCHANGED <<table, bad>> /\ pc = "run" /\ pc' = "flush"
        BY <1>4 DEF FlushBegin
    <2>2. d \notin held' => list'[d] = bad[d] \ {Bbt}
        BY <1>4 DEF FlushBegin, NewTable, Types
    <2>3. QED
        BY <1>1, <1>2, <1>3, <2>1, <2>2 DEF Knows
<1>5. CASE FlushErase
    <2>1. table'[d] \in {table[d], NoTable}
        BY <1>5, EraseTablesFact DEF FlushErase
    <2>2. QED
        BY <1>1, <1>2, <1>3, <1>5, <2>1 DEF FlushErase, Knows
<1>6. CASE FlushWrite
    <2>1. PICK done \in SUBSET Erased(Dies \ held) : WriteTables(done, list)
        BY <1>6 DEF FlushWrite
    <2>2. table'[d] = IF d \in done THEN list[d] ELSE table[d]
        <3>1. done \in SUBSET Dies /\ list \in [Dies -> SUBSET Blocks]
            BY <2>1 DEF Erased, Types
        <3>2. \A e \in Dies : table'[e] = IF e \in done THEN list[e] ELSE table[e]
            BY <2>1, <3>1, WriteTablesFact
        <3>3. QED
            BY <3>2
    <2>3. d \in done => d \notin held
        BY <2>1 DEF Erased
    <2>4. QED
        BY <1>1, <1>2, <1>3, <1>6, <2>2, <2>3 DEF FlushWrite, Knows
<1>7. CASE Resume
    BY <1>1, <1>2, <1>3, <1>7 DEF Resume, Knows
<1>8. CASE \E e \in Dies, v \in VirtualBlocks : Fail(e, v)
    <2>1. PICK e \in Dies, v \in VirtualBlocks : Fail(e, v)
        BY <1>8
    <2>2. UNCHANGED <<table, held, list, pc, block>> /\ pc \notin Starting
        BY <2>1 DEF Fail
    <2>3. bad[d] \subseteq bad'[d]
        BY <2>1 DEF Fail, UpdatePhyBlockMapForGrownBadBlock, Types
    <2>4. QED
        BY <1>1, <1>2, <1>3, <2>2, <2>3 DEF Knows
<1>9. QED
    BY <1>4, <1>5, <1>6, <1>7, <1>8 DEF Flush
-----------------------------------------------------------------------------
(* Remapping *)

LEMMA RemappingFresh ==
    ASSUME remapped = Each([b \in Blocks |-> b]), counted = Each({}),
           reserved = Each(UserBlocks), NEW d \in Dies,
           \A v \in VirtualBlocks : ~ Past(d, v)
    PROVE  RemappedSoFar(d)
<1>1. \A v \in VirtualBlocks : v \in Blocks
    BY SizeFact
<1>2. \A v \in VirtualBlocks : remapped[d][v] = v /\ v \notin counted[d]
    BY <1>1 DEF Each
<1>3. UserBlocks <= reserved[d]
    BY SizeFact DEF Each
<1>4. QED
    BY <1>2, <1>3 DEF RemappedSoFar, Left

LEMMA RemappingInit == Init => Remapping
<1> SUFFICES ASSUME Init PROVE Remapping
    OBVIOUS
<1>1. \A d \in Dies, v \in VirtualBlocks : ~ Past(d, v)
    BY DEF Init, Past
<1>2. \A d \in Dies : RemappedSoFar(d)
    BY <1>1, RemappingFresh DEF Init
<1>3. QED
    BY <1>2 DEF Init, Remapping, LoopBounds

LEMMA RemappingPowerOn ==
    ASSUME PowerOn
    PROVE  Remapping'
<1>1. \A d \in Dies, v \in VirtualBlocks : ~ Past(d, v)'
    BY DEF PowerOn, Past
<1>2. ASSUME NEW d \in Dies PROVE RemappedSoFar(d)'
    <2>1. \A v \in VirtualBlocks : v \in Blocks
        BY SizeFact
    <2>2. \A v \in VirtualBlocks : remapped'[d][v] = v /\ v \notin counted'[d]
        BY <2>1 DEF PowerOn, Each
    <2>3. UserBlocks <= reserved'[d]
        BY SizeFact DEF PowerOn, Each
    <2>4. QED
        BY <1>1, <2>2, <2>3 DEF RemappedSoFar, Left
<1>3. QED
    BY <1>2 DEF PowerOn, Remapping, LoopBounds

(* Before RemapBadBlock its variables keep what they have at the start. *)
LEMMA RemappingBefore ==
    ASSUME Types, Remapping, pc \in Starting, pc' \in Starting \cup {"remap"},
           block' \in Nat, pc' # "find" => block' = 0,
           UNCHANGED <<remapped, remap, die>>
    PROVE  Remapping'
<1>1. ASSUME NEW d \in Dies PROVE RemappedSoFar(d)'
    <2>1. RemappedSoFar(d) /\ \A v \in VirtualBlocks : ~ Past(d, v)
        BY DEF Remapping, Past, Starting
    <2>2. die = 0
        BY DEF Remapping, LoopBounds
    <2>3. \A v \in VirtualBlocks : ~ Past(d, v)'
        BY <2>2 DEF Past, Starting, VirtualBlocks, Dies
    <2>4. QED
        BY <2>1, <2>3 DEF RemappedSoFar, Left, remap
<1>2. LoopBounds'
    BY SizeFact DEF Remapping, LoopBounds, Starting
<1>3. QED
    BY <1>1, <1>2 DEF Remapping

LEMMA RemappingNext ==
    ASSUME Types, Remapping, [Next]_vars
    PROVE  Remapping'
<1> USE SizeFact DEF flash, phyMap, remap, save, seen
<1>1. CASE PowerCycle
    BY <1>1, RemappingPowerOn DEF PowerCycle
<1>2. CASE EraseTotalBlockSpace
    BY <1>2, RemappingBefore
       DEF EraseTotalBlockSpace, Remapping, LoopBounds, Starting
<1>3. CASE ReadBadBlockTable
    BY <1>3, RemappingBefore
       DEF ReadBadBlockTable, Remapping, LoopBounds, Starting
<1>4. CASE FindBadBlock
    BY <1>4, RemappingBefore
       DEF FindBadBlock, Remapping, LoopBounds, Starting, Types, Blocks
<1>5. CASE SaveErase
    BY <1>5, RemappingBefore DEF SaveErase, Remapping, LoopBounds, Starting
<1>6. CASE SaveWrite
    BY <1>6, RemappingBefore DEF SaveWrite, Remapping, LoopBounds, Starting
<1>7. CASE HideBbt
    BY <1>7, RemappingBefore DEF HideBbt, Remapping, LoopBounds, Starting
<1>8. CASE RemapNothing
    <2>1. pc = "remap" /\ block \notin bad[die] /\ Advance
          /\ UNCHANGED <<bad, remapped, reserved, counted>>
        BY <1>8 DEF RemapNothing
    <2>2. block < UserBlocks
        BY <2>1 DEF Remapping, LoopBounds
    <2>3. ASSUME NEW d \in Dies PROVE RemappedSoFar(d)'
        <3>1. RemappedSoFar(d)
            BY <2>1 DEF Remapping
        <3>2. \A v \in VirtualBlocks : Past(d, v)' <=> Past(d, v) \/ (d = die /\ v = block)
            BY <2>1, <2>2, AdvanceFact
        <3>3. \A v \in VirtualBlocks : v \notin bad[d] => Left(d, v)
            BY <3>1 DEF RemappedSoFar
        <3>4. \A v \in VirtualBlocks : Past(d, v)' /\ v \in bad[d] => Past(d, v)
            BY <2>1, <3>2
        <3>5. \A v \in VirtualBlocks : Left(d, v)' <=> Left(d, v)
            BY <2>1 DEF Left
        <3>6. \A v \in VirtualBlocks : Replaced(d, v)' <=> Replaced(d, v)
            BY <2>1 DEF Replaced
        <3>7. QED
            BY <2>1, <3>1, <3>2, <3>3, <3>4, <3>5, <3>6 DEF RemappedSoFar
    <2>4. LoopBounds'
        BY <2>1, <2>2, AdvanceFact DEF LoopBounds, Starting
    <2>5. QED
        BY <2>3, <2>4 DEF Remapping
<1>9. CASE RemapSkip
    <2>1. pc = "remap" /\ UNCHANGED <<bad, remapped, counted, pc, block, die>>
          /\ reserved' = [reserved EXCEPT ![die] = @ + 1]
        BY <1>9 DEF RemapSkip
    <2>2. \A d \in Dies : reserved[d] \in Nat /\ reserved'[d] \in Nat /\ reserved[d] <= reserved'[d]
        BY <2>1 DEF Types
    <2>3. ASSUME NEW d \in Dies PROVE RemappedSoFar(d)'
        <3>1. RemappedSoFar(d)
            BY <2>1 DEF Remapping
        <3>2. \A v \in VirtualBlocks : Past(d, v)' <=> Past(d, v)
            BY <2>1 DEF Past
        <3>3. \A v \in VirtualBlocks : Left(d, v)' <=> Left(d, v)
            BY <2>1 DEF Left
        <3>4. \A v \in VirtualBlocks : remapped[d][v] \in Nat
            BY DEF Types, Blocks
        <3>5. \A v \in VirtualBlocks : Replaced(d, v) => Replaced(d, v)'
            BY <2>1, <2>2, <3>4 DEF Replaced
        <3>6. UserBlocks <= reserved'[d]
            BY <2>2, <3>1 DEF RemappedSoFar
        <3>7. QED
            BY <2>1, <3>1, <3>2, <3>3, <3>5, <3>6 DEF RemappedSoFar
    <2>4. QED
        BY <2>1, <2>3 DEF Remapping, LoopBounds
<1>10. CASE RemapTake
    <2>1. /\ pc = "remap" /\ block \in bad[die] /\ Advance
          /\ reserved[die] < TotalBlocks /\ reserved[die] \notin bad[die]
          /\ remapped' = [remapped EXCEPT ![die][block] = reserved[die]]
          /\ reserved' = [reserved EXCEPT ![die] = @ + 1]
          /\ UNCHANGED <<bad, counted>>
        BY <1>10 DEF RemapTake
    <2>2. block < UserBlocks /\ block \in VirtualBlocks
        BY <2>1 DEF Remapping, LoopBounds, Types, Blocks, VirtualBlocks
    <2>3. ASSUME NEW d \in Dies PROVE RemappedSoFar(d)'
        <3>1. RemappedSoFar(d)
            BY <2>1 DEF Remapping
        <3>2. \A v \in VirtualBlocks : Past(d, v)' <=> Past(d, v) \/ (d = die /\ v = block)
            BY <2>1, <2>2, AdvanceFact
        <3>3. CASE d # die
            <4>1. reserved'[d] = reserved[d] /\ remapped'[d] = remapped[d]
                BY <2>1, <3>3 DEF Types
            <4>2. \A v \in VirtualBlocks : Left(d, v)' <=> Left(d, v)
                BY <2>1, <4>1 DEF Left
            <4>3. \A v \in VirtualBlocks : Replaced(d, v)' <=> Replaced(d, v)
                BY <2>1, <4>1 DEF Replaced
            <4>4. QED
                BY <2>1, <3>1, <3>2, <3>3, <4>1, <4>2, <4>3 DEF RemappedSoFar
        <3>4. CASE d = die
            <4>1. /\ reserved'[d] = reserved[d] + 1 /\ reserved[d] \in Nat
                  /\ remapped'[d][block] = reserved[d]
                  /\ \A v \in VirtualBlocks \ {block} : remapped'[d][v] = remapped[d][v]
                BY <2>1, <2>2, <3>4 DEF Types
            <4>2. UserBlocks <= reserved[d] /\ UserBlocks <= reserved'[d]
                BY <3>1, <4>1 DEF RemappedSoFar
            <4>3. \A v \in VirtualBlocks : remapped[d][v] \in Nat /\ v \in Nat /\ v < UserBlocks
                <5>1. \A v \in VirtualBlocks : remapped[d][v] \in Nat
                    BY DEF Types, Blocks
                <5>2. QED
                    BY <5>1 DEF VirtualBlocks
            <4>4. \A v \in VirtualBlocks : Left(d, v) \/ Replaced(d, v) \/ remapped[d][v] = v
                BY <3>1 DEF RemappedSoFar
            <4>5. \A v \in VirtualBlocks : remapped[d][v] < reserved[d]
                BY <4>1, <4>2, <4>3, <4>4 DEF Left, Replaced
            <4>6. \A v \in VirtualBlocks \ {block} : Left(d, v)' <=> Left(d, v)
                BY <2>1, <4>1 DEF Left
            <4>7. \A v \in VirtualBlocks \ {block} : Replaced(d, v) => Replaced(d, v)'
                BY <2>1, <4>1, <4>3 DEF Replaced
            <4>8. \A v \in VirtualBlocks : v = block => Replaced(d, v)'
                BY <2>1, <3>4, <4>1, <4>2 DEF Replaced
            <4>9. ~ Past(d, block)
                BY <2>1, <2>2, <3>4 DEF Past, Types, Blocks, Dies
            <4>10. block \notin counted'[d]
                BY <2>1, <2>2, <3>1, <4>9 DEF RemappedSoFar, Left
            <4>11. \A v, w \in VirtualBlocks : remapped'[d][v] = remapped'[d][w] => v = w
                <5>1. \A v \in VirtualBlocks \ {block} : remapped'[d][v] # remapped'[d][block]
                    BY <4>1, <4>3, <4>5
                <5>2. \A v, w \in VirtualBlocks \ {block} :
                          remapped'[d][v] = remapped'[d][w] => v = w
                    BY <3>1, <4>1 DEF RemappedSoFar
                <5>3. QED
                    BY <5>1, <5>2
            <4>12. ASSUME NEW v \in VirtualBlocks
                   PROVE  /\ Past(d, v)' \/ Left(d, v)'
                          /\ Past(d, v)' /\ v \notin bad'[d] => Left(d, v)'
                          /\ Past(d, v)' /\ v \in bad'[d] =>
                                 \/ v \notin counted'[d] /\ Replaced(d, v)'
                                 \/ v \in counted'[d] /\ remapped'[d][v] = v
                <5>1. CASE v = block
                    BY <2>1, <3>2, <3>4, <4>8, <4>10, <5>1
                <5>2. CASE v # block
                    BY <2>1, <3>1, <3>2, <4>1, <4>6, <4>7, <5>2 DEF RemappedSoFar
                <5>3. QED
                    BY <5>1, <5>2
            <4>13. QED
                BY <4>2, <4>11, <4>12 DEF RemappedSoFar
        <3>5. QED
            BY <3>3, <3>4
    <2>4. LoopBounds'
        BY <2>1, <2>2, AdvanceFact DEF LoopBounds, Starting
    <2>5. QED
        BY <2>3, <2>4 DEF Remapping
<1>11. CASE RemapCount
    <2>1. /\ pc = "remap" /\ block \in bad[die] /\ Advance
          /\ counted' = [counted EXCEPT ![die] = @ \cup {block}]
          /\ UNCHANGED <<bad, remapped, reserved>>
        BY <1>11 DEF RemapCount
    <2>2. block < UserBlocks /\ block \in VirtualBlocks
        BY <2>1 DEF Remapping, LoopBounds, Types, Blocks, VirtualBlocks
    <2>3. ASSUME NEW d \in Dies PROVE RemappedSoFar(d)'
        <3>1. RemappedSoFar(d)
            BY <2>1 DEF Remapping
        <3>2. \A v \in VirtualBlocks : Past(d, v)' <=> Past(d, v) \/ (d = die /\ v = block)
            BY <2>1, <2>2, AdvanceFact
        <3>3. \A v \in VirtualBlocks :
                  v \in counted'[d] <=> v \in counted[d] \/ (d = die /\ v = block)
            BY <2>1 DEF Types
        <3>4. \A v \in VirtualBlocks : Replaced(d, v)' <=> Replaced(d, v)
            BY <2>1 DEF Replaced
        <3>5. ASSUME NEW v \in VirtualBlocks
              PROVE  /\ Past(d, v)' \/ Left(d, v)'
                     /\ Past(d, v)' /\ v \notin bad'[d] => Left(d, v)'
                     /\ Past(d, v)' /\ v \in bad'[d] =>
                            \/ v \notin counted'[d] /\ Replaced(d, v)'
                            \/ v \in counted'[d] /\ remapped'[d][v] = v
            <4>1. CASE d = die /\ v = block
                <5>1. ~ Past(d, v)
                    BY <2>1, <2>2, <4>1 DEF Past, Types, Blocks, Dies
                <5>2. remapped[d][v] = v
                    BY <3>1, <5>1 DEF RemappedSoFar, Left
                <5>3. QED
                    BY <2>1, <3>2, <3>3, <4>1, <5>2
            <4>2. CASE ~ (d = die /\ v = block)
                <5>1. Left(d, v)' <=> Left(d, v)
                    BY <2>1, <3>3, <4>2 DEF Left
                <5>2. QED
                    BY <2>1, <3>1, <3>2, <3>3, <3>4, <4>2, <5>1 DEF RemappedSoFar
            <4>3. QED
                BY <4>1, <4>2
        <3>6. QED
            BY <2>1, <3>1, <3>5 DEF RemappedSoFar
    <2>4. LoopBounds'
        BY <2>1, <2>2, AdvanceFact DEF LoopBounds, Starting
    <2>5. QED
        BY <2>3, <2>4 DEF Remapping
<1>12. CASE InitBlockMap \/ Flush \/ \E d \in Dies, v \in VirtualBlocks : Fail(d, v)
    <2>1. pc' \in {"run", "stopped", "flush", "flushing", "flushed"}
        BY <1>12 DEF InitBlockMap, Flush, FlushBegin, FlushErase, FlushWrite, Resume, Fail
    <2>2. QED
        BY <2>1 DEF Remapping, LoopBounds, Starting
<1>13. CASE UNCHANGED vars
    <2>1. UNCHANGED <<bad, remapped, reserved, counted, pc, block, die>>
        BY <1>13 DEF vars
    <2>2. ASSUME NEW d \in Dies, RemappedSoFar(d) PROVE RemappedSoFar(d)'
        BY <2>1, <2>2 DEF RemappedSoFar, Left, Replaced, Past
    <2>3. QED
        BY <2>1, <2>2 DEF Remapping, LoopBounds
<1>14. QED
    BY <1>1, <1>2, <1>3, <1>4, <1>5, <1>6, <1>7, <1>8, <1>9, <1>10, <1>11,
       <1>12, <1>13
       DEF Next, StartUp
-----------------------------------------------------------------------------
(* RemapSound *)

(* What the loop has done when it ends is what the FTL is handed.          *)
LEMMA RemapSoundMap ==
    ASSUME Types, KnowsBad, Remapping, InitBlockMap
    PROVE  RemapSound'
<1>1. /\ pc = "map" /\ UNCHANGED <<marks, bad, remapped, counted>>
      /\ vbad' = [d \in Dies |-> {v \in VirtualBlocks : remapped[d][v] \in bad[d]}]
    BY DEF InitBlockMap, flash, phyMap, remap
<1>2. ASSUME NEW d \in Dies
      PROVE  RemappedSoFar(d) /\ \A v \in VirtualBlocks : Past(d, v)
    BY <1>1 DEF Remapping, Past
<1>3. ASSUME NEW d \in Dies PROVE vbad'[d] = counted'[d]
    <2>1. \A v \in VirtualBlocks : v \in counted[d] <=> remapped[d][v] \in bad[d]
        BY <1>2, <1>3 DEF RemappedSoFar, Left, Replaced
    <2>2. counted[d] \subseteq VirtualBlocks
        BY DEF Types
    <2>3. QED
        BY <1>1, <2>1, <2>2
<1>4. ASSUME NEW d \in Dies, NEW v \in VirtualBlocks \ vbad'[d]
      PROVE  /\ remapped[d][v] \in Blocks \ (Marked(d) \cup {Bbt})
             /\ \A w \in VirtualBlocks \ vbad'[d] : remapped[d][v] = remapped[d][w] => v = w
    <2>1. remapped[d][v] \notin bad[d]
        BY <1>1, <1>4
    <2>2. Marked(d) \cup {Bbt} \subseteq bad[d]
        BY <1>1 DEF KnowsBad, Knows, Found
    <2>3. v \in Blocks
        BY SizeFact
    <2>4. remapped[d][v] \in Blocks
        BY <2>3 DEF Types
    <2>5. QED
        BY <1>2, <2>1, <2>2, <2>4 DEF RemappedSoFar
<1>5. BadNeverUsed'
    BY <1>1, <1>4 DEF BadNeverUsed, RowBlock, Marked
<1>6. QED
    BY <1>3, <1>5 DEF RemapSound, SpaceCounted

LEMMA RemapSoundNext ==
    ASSUME Types, KnowsBad, Remapping, RemapSound, [Next]_vars
    PROVE  RemapSound'
<1> USE DEF flash, phyMap, remap, save, seen
<1>1. CASE PowerCycle \/ (StartUp /\ ~ InitBlockMap)
    <2>1. ~ Running'
        <3>1. CASE RemapNothing \/ RemapTake \/ RemapCount
            BY <3>1, AdvanceFact
               DEF RemapNothing, RemapTake, RemapCount, Remapping, LoopBounds, Running
        <3>2. CASE ~ (RemapNothing \/ RemapTake \/ RemapCount)
            BY <1>1, <3>2 DEF PowerCycle, PowerOn, StartUp, EraseTotalBlockSpace,
                   ReadBadBlockTable, FindBadBlock, SaveErase, SaveWrite, HideBbt,
                   RemapSkip, Running
        <3>3. QED
            BY <3>1, <3>2
    <2>2. QED
        BY <2>1 DEF RemapSound
<1>2. CASE InitBlockMap
    BY <1>2, RemapSoundMap
<1>3. CASE \/ Flush
           \/ \E d \in Dies, v \in VirtualBlocks : Fail(d, v)
           \/ UNCHANGED vars
    <2>1. /\ UNCHANGED <<marks, remapped, counted, vbad>>
          /\ Running' => Running
        BY <1>3 DEF Flush, FlushBegin, FlushErase, FlushWrite, Resume, Fail, vars, Running
    <2>2. QED
        BY <2>1 DEF RemapSound, BadNeverUsed, SpaceCounted, RowBlock, Marked
<1>4. QED
    BY <1>1, <1>2, <1>3 DEF Next
-----------------------------------------------------------------------------
(* Reports *)

LEMMA ReportsNext ==
    ASSUME Types, Remapping, RemapSound, Reports, [Next]_vars
    PROVE  Reports'
<1> USE DEF flash, phyMap, remap, save, seen
<1> SUFFICES ASSUME NEW d \in Dies PROVE Reported(d)'
    BY DEF Reports
<1>1. Reported(d)
    BY DEF Reports
<1>2. CASE PowerCycle
    BY <1>2 DEF PowerCycle, PowerOn, Each, Reported, Running
<1>3. CASE StartUp
    <2>1. ~ Running /\ UNCHANGED seen
        BY <1>3 DEF StartUp, EraseTotalBlockSpace, ReadBadBlockTable, FindBadBlock, SaveErase,
               SaveWrite, HideBbt, RemapNothing, RemapSkip, RemapTake, RemapCount,
               InitBlockMap, Running
    <2>2. failed'[d] = {} /\ due'[d] = {}
        BY <1>1, <2>1 DEF Reported
    <2>3. QED
        BY <2>2 DEF Reported
<1>4. CASE FlushBegin
    <2>1. /\ pc = "run" /\ pc' = "flush" /\ due' = failed
          /\ UNCHANGED <<bad, booked, failed>>
          /\ d \in held' <=> d \notin booked
        BY <1>4 DEF FlushBegin
    <2>2. d \in booked => list'[d] = bad[d] \ {Bbt}
        BY <1>4 DEF FlushBegin, NewTable, Types
    <2>3. QED
        BY <1>1, <2>1, <2>2 DEF Reported, Running
<1>5. CASE FlushErase
    BY <1>1, <1>5 DEF FlushErase, Reported, Running
<1>6. CASE FlushWrite
    <2>1. PICK done \in SUBSET Erased(Dies \ held) :
              WriteTables(done, list) /\ unsaved' = (Dies \ held) \ done
        BY <1>6 DEF FlushWrite
    <2>2. done \in SUBSET Dies /\ list \in [Dies -> SUBSET Blocks]
        BY <2>1 DEF Erased, Types
    <2>3. d \in done => table'[d] = list[d] /\ table'[d] # NoTable
        BY <2>1, <2>2, WriteTablesFact
    <2>4. d \notin unsaved' => d \in held \/ d \in done
        BY <2>1
    <2>5. d \in done => d \notin held
        BY <2>1 DEF Erased
    <2>6. QED
        BY <1>1, <1>6, <2>3, <2>4, <2>5 DEF FlushWrite, Reported, Running
<1>7. CASE Resume
    BY <1>1, <1>7 DEF Resume, Reported, Running
<1>8. CASE \E e \in Dies, v \in VirtualBlocks : Fail(e, v)
    <2>1. PICK e \in Dies, v \in VirtualBlocks : Fail(e, v)
        BY <1>8
    <2>2. /\ Running /\ UNCHANGED <<pc, held, list, table, due, unsaved>>
        BY <2>1 DEF Fail, Running
    <2>3. RowBlock(e, v) # Bbt
        BY <2>1, <2>2 DEF Fail, RemapSound, BadNeverUsed
    <2>4. /\ bad'[d] = IF d = e THEN bad[d] \cup {RowBlock(e, v)} ELSE bad[d]
          /\ failed'[d] = IF d = e THEN failed[d] \cup {RowBlock(e, v)} ELSE failed[d]
        BY <2>1 DEF Fail, UpdatePhyBlockMapForGrownBadBlock, Types
    <2>5. booked \subseteq booked' /\ (d = e => d \in booked')
        BY <2>1 DEF Fail, UpdatePhyBlockMapForGrownBadBlock
    <2>6. QED
        BY <1>1, <2>2, <2>3, <2>4, <2>5 DEF Reported, Running
<1>9. CASE UNCHANGED vars
    BY <1>1, <1>9 DEF vars, Reported, Running
<1>10. QED
    BY <1>2, <1>3, <1>4, <1>5, <1>6, <1>7, <1>8, <1>9 DEF Next, Flush
-----------------------------------------------------------------------------
(* From power-up on, whatever blocks fail and wherever the power is cut,   *)
(* the parts of the invariant hold together.                               *)
THEOREM BadInvariant == Spec => []BadInv
<1>1. Init => BadInv
    <2> SUFFICES ASSUME Init PROVE BadInv
        OBVIOUS
    <2>1. RemapSound /\ Reports
        BY DEF Init, RemapSound, Running, Reports, Reported, Each
    <2>2. QED
        BY <2>1, TypesInit, KnowsBadInit, RemappingInit DEF BadInv
<1>2. BadInv /\ [Next]_vars => BadInv'
    <2> SUFFICES ASSUME BadInv, [Next]_vars PROVE BadInv'
        OBVIOUS
    <2>1. Types' /\ Remapping' /\ RemapSound' /\ Reports'
        BY TypesNext, RemappingNext, RemapSoundNext, ReportsNext
           DEF BadInv, Remapping, LoopBounds
    <2>2. KnowsBad'
        <3>1. CASE PowerCycle
            BY <3>1, KnowsBadPowerOn DEF PowerCycle, BadInv
        <3>2. CASE StartUp
            BY <3>2, KnowsBadStartUp DEF BadInv, Remapping
        <3>3. CASE Flush \/ \E d \in Dies, v \in VirtualBlocks : Fail(d, v)
            BY <3>3, KnowsBadRunning DEF BadInv
        <3>4. CASE UNCHANGED vars
            BY <3>4 DEF vars, flash, phyMap, save, BadInv, KnowsBad, Knows, Marked
        <3>5. QED
            BY <3>1, <3>2, <3>3, <3>4 DEF Next
    <2>3. QED
        BY <2>1, <2>2 DEF BadInv
<1>3. QED
    BY <1>1, <1>2, PTL DEF Spec

(* No block that the maker has marked, nor the block of the table, is      *)
(* handed to the FTL, no two virtual blocks share a block, and the blocks  *)
(* that RemapBadBlock counts are those InitBlockMap leaves out.            *)
THEOREM RemapSoundCorrect == Spec => []RemapSound
<1>1. BadInv => RemapSound
    BY DEF BadInv
<1>2. QED
    BY <1>1, BadInvariant, PTL

(* A table on flash covers the marks of its die; after a shutdown that     *)
(* wrote its tables it also has what had failed when the shutdown began.   *)
THEOREM TablesCompleteCorrect == Spec => []TablesComplete
<1>1. BadInv => TablesComplete
    BY DEF BadInv, KnowsBad, Knows, Reports, Reported, TablesComplete
<1>2. QED
    BY <1>1, BadInvariant, PTL
=============================================================================
