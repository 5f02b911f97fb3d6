------------------------------ MODULE BadBlocks ------------------------------
(***************************************************************************)
(* The bad blocks of the flash (address_translation.c): the start-up,      *)
(* which erases everything, reads or makes the bad block table, replaces   *)
(* the bad blocks and builds the block map of the FTL; the blocks that     *)
(* fail later; and the table that a shutdown writes.                       *)
(*                                                                         *)
(* The loops of the start-up over the blocks take one step per block, and  *)
(* the power may fail between any two steps.  A die has one LUN, and its   *)
(* table fits one page of block 0.                                         *)
(***************************************************************************)
EXTENDS Naturals, FiniteSets

CONSTANTS
    NumDies,        \* USER_DIES
    UserBlocks,     \* USER_BLOCKS_PER_LUN
    TotalBlocks,    \* TOTAL_BLOCKS_PER_LUN
    Marks,          \* the marks the maker of the flash may have set
    Failing,        \* the sets of blocks of a die that may fail together
    Garbage,        \* what the memory may hold when the power comes on
    NoTable         \* in place of a table that is not there

Dies == 0 .. NumDies - 1
Blocks == 0 .. TotalBlocks - 1
VirtualBlocks == 0 .. UserBlocks - 1

(* Where a bad block may be marked: BAD_BLOCK_MARK_PAGE0 and _PAGE1. *)
Pages == {"first", "last"}

(* bbtInfo.phyBlock *)
Bbt == 0

ASSUME SizeAssumption ==
    /\ NumDies \in Nat \ {0}
    /\ UserBlocks \in Nat \ {0}
    /\ TotalBlocks \in Nat
    /\ UserBlocks <= TotalBlocks

(* The first block of a die is good when the flash is delivered. *)
ASSUME FlashAssumption ==
    /\ Marks \subseteq [Dies -> [Blocks -> SUBSET Pages]]
    /\ \A m \in Marks, d \in Dies : m[d][Bbt] = {}
    /\ Failing \subseteq SUBSET Blocks
    /\ Garbage \subseteq [Dies -> SUBSET Blocks]
    /\ \A s \in SUBSET Blocks : NoTable # s

VARIABLES
    marks,      \* die -> block -> where the maker has marked it
    table,      \* die -> the blocks its table on flash calls bad, or NoTable
    bad,        \* die -> the blocks with phyBlock.bad
    remapped,   \* die -> block -> phyBlock.remappedPhyBlock
    booked,     \* the dies with grownBadUpdate
    held,       \* the dies whose table is left as it is (dieState)
    list,       \* die -> the table a shutdown is about to write
    unsaved,    \* the dies where the last shutdown could not write it
    reserved,   \* die -> reservedBlockOfLun0
    counted,    \* die -> the blocks counted by badBlockCount
    vbad,       \* die -> the virtual blocks with virtualBlock.bad
    pc,         \* where the firmware is
    block, die, \* the loops over blocks and dies
    failed,     \* die -> the blocks that have failed for the FTL since the start
    due         \* die -> those that had when the last shutdown began

flash == <<marks, table>>
phyMap == <<bad, remapped>>
remap == <<reserved, counted>>
save == <<held, list, unsaved>>
seen == <<failed, due>>
vars == <<flash, phyMap, booked, save, remap, vbad, pc, block, die, seen>>

Each(x) == [d \in Dies |-> x]

Marked(d) == {b \in Blocks : marks[d][b] # {}}
MayFail(b) == \E f \in Failing : b \in f
-----------------------------------------------------------------------------
(* InitAddressMap after the power came on: of the map in memory only the   *)
(* remapping is set.                                                       *)
PowerOn ==
    /\ bad' \in Garbage
    /\ remapped' = Each([b \in Blocks |-> b])
    /\ booked' = {}
    /\ held' = {}
    /\ list' = Each({})
    /\ unsaved' = {}
    /\ reserved' = Each(UserBlocks)
    /\ counted' = Each({})
    /\ vbad' = Each({})
    /\ pc' = "erase"
    /\ block' = 0
    /\ die' = 0
    /\ failed' = Each({})
    /\ due' = Each({})

PowerCycle == PowerOn /\ UNCHANGED flash

(* UpdatePhyBlockMapForGrownBadBlock for the blocks f(d) of each die.      *)
UpdatePhyBlockMapForGrownBadBlock(f) ==
    /\ bad' = [d \in Dies |-> bad[d] \cup f[d]]
    /\ booked' = booked \cup {d \in Dies : f[d] # {}}

(* EraseTotalBlockSpace.  No condition is left before it.  The erase of a  *)
(* block that the maker has marked leaves the mark.                        *)
EraseTotalBlockSpace ==
    /\ pc = "erase"
    /\ \E f \in [Dies -> Failing] :
        /\ UpdatePhyBlockMapForGrownBadBlock(f)
        /\ table' \in {[d \in Dies |-> IF d \in kept THEN table[d] ELSE NoTable] :
                            kept \in SUBSET {d \in Dies : Bbt \in f[d]}}
    /\ pc' = "read"
    /\ UNCHANGED <<marks, remapped, save, remap, vbad, block, die, seen>>

(* ReadBadBlockTable, RecoverBadBlockTable *)
ReadBadBlockTable ==
    /\ pc = "read"
    /\ held' = {d \in Dies : table[d] # NoTable}
    /\ bad' = [d \in Dies |-> IF d \in held' THEN table[d] ELSE bad[d]]
    /\ pc' = IF held' = Dies THEN "recovered" ELSE "find"
    /\ UNCHANGED <<flash, remapped, booked, list, unsaved, remap, vbad, block, die, seen>>

(* Whether the block is found to be bad.  A block without a mark is when a *)
(* failed erase has left data in it, and when reading it fails.            *)
Detect(d, b) ==
    IF marks[d][b] # {} THEN {TRUE} ELSE {FALSE} \cup {MayFail(b)}

(* FindBadBlock, for one block of every die without a table. *)
FindBadBlock ==
    /\ pc = "find"
    /\ \E found \in SUBSET (Dies \ held) :
        /\ \A d \in Dies \ held : (d \in found) \in Detect(d, block)
        /\ bad' = [d \in Dies |-> CASE d \in held -> bad[d]
                                    [] d \in found -> bad[d] \cup {block}
                                    [] OTHER -> bad[d] \ {block}]
    /\ IF block = TotalBlocks - 1
       THEN block' = 0 /\ pc' = "save"
       ELSE block' = block + 1 /\ pc' = "find"
    /\ UNCHANGED <<flash, remapped, booked, save, remap, vbad, die, seen>>

(* SaveBadBlockTable, for the dies ds: the tables are erased, and written. *)
(* A page that could not be erased cannot be written.                      *)
EraseTables(ds) ==
    \E kept \in SUBSET ds :
        table' = [d \in Dies |-> IF d \in ds \ kept THEN NoTable ELSE table[d]]

WriteTables(done, new) ==
    table' = [d \in Dies |-> IF d \in done THEN new[d] ELSE table[d]]

Erased(ds) == {d \in ds : table[d] = NoTable}

SaveErase ==
    /\ pc = "save"
    /\ EraseTables(Dies \ held)
    /\ pc' = "saving"
    /\ UNCHANGED <<marks, phyMap, booked, save, remap, vbad, block, die, seen>>

SaveWrite ==
    /\ pc = "saving"
    /\ \E done \in SUBSET Erased(Dies \ held) : WriteTables(done, bad)
    /\ pc' = "recovered"
    /\ UNCHANGED <<marks, phyMap, booked, save, remap, vbad, block, die, seen>>

(* The end of RecoverBadBlockTable; InitBlockDieMap keeps the host off the *)
(* blocks of the tables.                                                   *)
HideBbt ==
    /\ pc = "recovered"
    /\ booked' = {}
    /\ bad' = [d \in Dies |-> bad[d] \cup {Bbt}]
    /\ pc' = "remap"
    /\ UNCHANGED <<flash, remapped, save, remap, vbad, block, die, seen>>
-----------------------------------------------------------------------------
(* RemapBadBlock.  Every user block of every die in turn: a bad one gets   *)
(* the next reserved block that is good, while there is one.               *)

Advance ==
    IF die < NumDies - 1
    THEN die' = die + 1 /\ block' = block /\ pc' = pc
    ELSE /\ die' = 0
         /\ IF block < UserBlocks - 1
            THEN block' = block + 1 /\ pc' = pc
            ELSE block' = 0 /\ pc' = "map"

RemapNothing ==
    /\ pc = "remap"
    /\ block \notin bad[die]
    /\ Advance
    /\ UNCHANGED <<flash, phyMap, booked, save, remap, vbad, seen>>

RemapSkip ==
    /\ pc = "remap"
    /\ block \in bad[die]
    /\ reserved[die] < TotalBlocks
    /\ reserved[die] \in bad[die]
    /\ reserved' = [reserved EXCEPT ![die] = @ + 1]
    /\ UNCHANGED <<flash, phyMap, booked, save, counted, vbad, pc, block, die, seen>>

(* A mutation: a reserved block is not used up. *)
RemapAgain ==
    /\ pc = "remap"
    /\ block \in bad[die]
    /\ reserved[die] < TotalBlocks
    /\ reserved[die] \notin bad[die]
    /\ remapped' = [remapped EXCEPT ![die][block] = reserved[die]]
    /\ Advance
    /\ UNCHANGED <<flash, bad, booked, save, remap, vbad, seen>>

RemapTake ==
    /\ pc = "remap"
    /\ block \in bad[die]
    /\ reserved[die] < TotalBlocks
    /\ reserved[die] \notin bad[die]
    /\ remapped' = [remapped EXCEPT ![die][block] = reserved[die]]
    /\ reserved' = [reserved EXCEPT ![die] = @ + 1]
    /\ Advance
    /\ UNCHANGED <<flash, bad, booked, save, counted, vbad, seen>>

RemapCount ==
    /\ pc = "remap"
    /\ block \in bad[die]
    /\ reserved[die] >= TotalBlocks
    /\ counted' = [counted EXCEPT ![die] = @ \cup {block}]
    /\ Advance
    /\ UNCHANGED <<flash, phyMap, booked, save, reserved, vbad, seen>>

(* InitBlockMap, InitCurrentBlockOfDieMap: every die needs a current block *)
(* besides the one it reserves, or the firmware stops.                     *)
InitBlockMap ==
    /\ pc = "map"
    /\ vbad' = [d \in Dies |-> {v \in VirtualBlocks : remapped[d][v] \in bad[d]}]
    /\ pc' = IF \A d \in Dies : Cardinality(VirtualBlocks \ vbad'[d]) > 1
             THEN "run" ELSE "stopped"
    /\ UNCHANGED <<flash, phyMap, booked, save, remap, block, die, seen>>
-----------------------------------------------------------------------------
(* The physical block in the row address of a request of the FTL           *)
(* (GenerateNandRowAddr); ExecuteNandReq takes it back out of the address  *)
(* when the request has failed.                                            *)
RowBlock(d, v) == remapped[d][v]

(* A request for a block of the FTL fails, perhaps while the tables are    *)
(* being written.                                                          *)
Fail(d, v) ==
    /\ pc \in {"run", "flush", "flushing", "flushed"}
    /\ v \notin vbad[d]
    /\ MayFail(RowBlock(d, v))
    /\ UpdatePhyBlockMapForGrownBadBlock([e \in Dies |-> IF e = d THEN {RowBlock(d, v)} ELSE {}])
    /\ failed' = [failed EXCEPT ![d] = @ \cup {RowBlock(d, v)}]
    /\ UNCHANGED <<flash, remapped, save, remap, vbad, pc, block, die, due>>

(* UpdateBadBlockTableForGrownBadBlock when the host shuts down: the dies  *)
(* with a new bad block get a new table.                                   *)
NewTable(d) == bad[d] \ {Bbt}

FlushBegin ==
    /\ pc = "run"
    /\ due' = failed
    /\ held' = Dies \ booked
    /\ list' = [d \in Dies |-> IF d \in booked THEN NewTable(d) ELSE list[d]]
    /\ pc' = "flush"
    /\ UNCHANGED <<flash, phyMap, booked, unsaved, remap, vbad, block, die, failed>>

FlushErase ==
    /\ pc = "flush"
    /\ EraseTables(Dies \ held)
    /\ pc' = "flushing"
    /\ UNCHANGED <<marks, phyMap, booked, save, remap, vbad, block, die, seen>>

(* A mutation: what is written is no longer booked. *)
FlushAndUnbook ==
    /\ pc = "flushing"
    /\ \E done \in SUBSET Erased(Dies \ held) :
        /\ WriteTables(done, list)
        /\ unsaved' = (Dies \ held) \ done
        /\ booked' = booked \ done
    /\ pc' = "flushed"
    /\ UNCHANGED <<marks, phyMap, held, list, remap, vbad, block, die, seen>>

FlushWrite ==
    /\ pc = "flushing"
    /\ \E done \in SUBSET Erased(Dies \ held) :
        /\ WriteTables(done, list)
        /\ unsaved' = (Dies \ held) \ done
    /\ pc' = "flushed"
    /\ UNCHANGED <<marks, phyMap, booked, held, list, remap, vbad, block, die, seen>>

(* The host enables the controller again. *)
Resume ==
    /\ pc = "flushed"
    /\ pc' = "run"
    /\ UNCHANGED <<flash, phyMap, booked, save, remap, vbad, block, die, seen>>
-----------------------------------------------------------------------------
Init ==
    /\ marks \in Marks
    /\ table = Each(NoTable)
    /\ bad \in Garbage
    /\ remapped = Each([b \in Blocks |-> b])
    /\ booked = {}
    /\ held = {}
    /\ list = Each({})
    /\ unsaved = {}
    /\ reserved = Each(UserBlocks)
    /\ counted = Each({})
    /\ vbad = Each({})
    /\ pc = "erase"
    /\ block = 0
    /\ die = 0
    /\ failed = Each({})
    /\ due = Each({})

StartUp ==
    \/ EraseTotalBlockSpace
    \/ ReadBadBlockTable
    \/ FindBadBlock
    \/ SaveErase
    \/ SaveWrite
    \/ HideBbt
    \/ RemapNothing \/ RemapSkip \/ RemapTake \/ RemapCount
    \/ InitBlockMap

Flush == FlushBegin \/ FlushErase \/ FlushWrite \/ Resume

Next ==
    \/ StartUp
    \/ Flush
    \/ PowerCycle
    \/ \E d \in Dies, v \in VirtualBlocks : Fail(d, v)

Spec == Init /\ [][Next]_vars
-----------------------------------------------------------------------------
Running == pc \in {"run", "flush", "flushing", "flushed"}

(* No block that the maker has marked, nor the block of the table, is      *)
(* behind a virtual block in use, and no two of those share a block,       *)
(* whether the bad blocks were found or read from a table of a session     *)
(* before.                                                                 *)
BadNeverUsed ==
    \A d \in Dies : \A v \in VirtualBlocks \ vbad[d] :
        /\ RowBlock(d, v) \in Blocks \ (Marked(d) \cup {Bbt})
        /\ \A w \in VirtualBlocks \ vbad[d] : RowBlock(d, v) = RowBlock(d, w) => v = w

(* The capacity is reduced by the blocks that RemapBadBlock counts; those  *)
(* are the ones that InitBlockMap keeps from the FTL.                      *)
SpaceCounted == \A d \in Dies : vbad[d] = counted[d]

(* What RemapBadBlock and InitBlockMap hand to the FTL is sound. *)
RemapSound == Running => BadNeverUsed /\ SpaceCounted

(* A table on flash calls every marked block bad, in whatever session it   *)
(* was written.  After a shutdown that could write its tables they also    *)
(* have every block that had failed when it began: in that session or      *)
(* before an earlier shutdown of it, or while that one was writing.        *)
TablesComplete ==
    \A d \in Dies :
        /\ table[d] # NoTable => Marked(d) \subseteq table[d]
        /\ pc = "flushed" /\ d \notin unsaved /\ due[d] # {} =>
               table[d] # NoTable /\ due[d] \subseteq table[d]
=============================================================================
