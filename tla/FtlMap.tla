------------------------------- MODULE FtlMap -------------------------------
(***************************************************************************)
(* The translation layer: slice maps, block and free-block bookkeeping and *)
(* slice allocation (address_translation.c) with garbage collection        *)
(* (garbage_collection.c).                                                 *)
(*                                                                         *)
(* AddrTransWrite is called from sequential code and nothing touches the   *)
(* maps meanwhile.  It is several actions here, in its own order:          *)
(* invalidate the slice's old place; take a slice of the current block or  *)
(* of a free one; or, before that, garbage collection page by page and the *)
(* erase.  The NAND requests issued for a place change the flash in the    *)
(* order they are issued, so flash contents change with the maps.          *)
(*                                                                         *)
(* A virtual slice address is the triple <<die, block, page>>; a page is   *)
(* one slice.  The assertions the code makes stop it, and leave the model  *)
(* without a next step.                                                    *)
(***************************************************************************)
EXTENDS Naturals, SequencesExt

CONSTANTS
    NumDies,        \* USER_DIES
    NumBlocks,      \* the good blocks of USER_BLOCKS_PER_DIE
    NumPages,       \* USER_PAGES_PER_BLOCK = SLICES_PER_BLOCK
    Lsas,           \* the logical slices
    Data,           \* what is written to them
    NoData,         \* an erased page
    LsaNone, VsaNone, \* LSA_NONE, VSA_NONE
    HotBlocks       \* the host may overwrite a whole current block

ASSUME FtlSizesAssumption ==
    /\ NumDies \in Nat \ {0}
    /\ NumBlocks \in Nat \ {0, 1}
    /\ NumPages \in Nat \ {0}
    /\ HotBlocks \in BOOLEAN

Dies == 0 .. NumDies - 1
Blocks == 0 .. NumBlocks - 1
Pages == 0 .. NumPages - 1
Vsas == Dies \X Blocks \X Pages

ASSUME FtlNonesAssumption ==
    /\ LsaNone \notin Lsas
    /\ VsaNone \notin Vsas
    /\ NoData \notin Data

ReservedFreeBlockCount == 1     \* RESERVED_FREE_BLOCK_COUNT

VARIABLES
    logicalSlice,       \* LSA -> VSA
    virtualSlice,       \* VSA -> LSA
    nand,               \* VSA -> what the flash page holds
    currentPage,        \* die, block -> its next page to program
    invalidSliceCnt,    \* die, block -> its slices that were overwritten
    freeBlocks,         \* die -> the free block list, head first
    gcVictimList,       \* die, invalid slices -> the blocks with that many
    currentBlock,       \* die -> the block that takes writes
    targetDie,          \* sliceAllocationTargetDie
    phase,              \* where AddrTransWrite is
    pending,            \* the write it serves
    gc                  \* the victim block and the page GC looks at

sliceVars == <<logicalSlice, virtualSlice, nand>>
blockVars == <<currentPage, invalidSliceCnt, freeBlocks, gcVictimList, currentBlock>>
vars == <<sliceVars, blockVars, targetDie, phase, pending, gc>>

NoWrite == [lsa |-> LsaNone, data |-> NoData, old |-> NoData]
NoGc == [victim |-> 0, page |-> 0]
-----------------------------------------------------------------------------
(* Slices *)

(* What a read of slice l returns (AddrTransRead, then the flash page). *)
Contents(l) == IF logicalSlice[l] = VsaNone THEN NoData ELSE nand[logicalSlice[l]]

(* A mutation: a slice is valid as long as the block was not erased. *)
ValidUntilErased(v) == virtualSlice[v] # LsaNone

(* Place v holds the current contents of a slice. *)
Valid(v) == virtualSlice[v] # LsaNone /\ logicalSlice[virtualSlice[v]] = v

(* A block leaves the list it is linked in, wherever it is. *)
Unlink(list, b) ==
    IF \E k \in DOMAIN list : list[k] = b
    THEN RemoveAt(list, CHOOSE k \in DOMAIN list : list[k] = b)
    ELSE list

(* Slice l, holding x, is programmed to the next page of block b. *)
Program(l, x, d, b) ==
    LET v == <<d, b, currentPage[d][b]>> IN
    /\ nand' = [nand EXCEPT ![v] = x]
    /\ logicalSlice' = [logicalSlice EXCEPT ![l] = v]
    /\ virtualSlice' = [virtualSlice EXCEPT ![v] = l]
    /\ currentPage' = [currentPage EXCEPT ![d][b] = @ + 1]

(* The head of die d's free list becomes its current block. *)
TakeFreeBlock(d) ==
    /\ currentBlock' = [currentBlock EXCEPT ![d] = Head(freeBlocks[d])]
    /\ freeBlocks' = [freeBlocks EXCEPT ![d] = Tail(@)]
-----------------------------------------------------------------------------
(* Writing a slice *)

(* The exclusion HotBlocks = FALSE makes: no write invalidates the last    *)
(* valid slice of a current block while no further block can be allocated. *)
(* Garbage collection would erase the current block and leave it both      *)
(* current and free.                                                       *)
KeepsCurrentBlock(l) ==
    LET v == logicalSlice[l] IN
    v # VsaNone =>
        \/ v[2] # currentBlock[v[1]]
        \/ invalidSliceCnt[v[1]][v[2]] + 1 < NumPages
        \/ Len(freeBlocks[v[1]]) > ReservedFreeBlockCount

IsFree(d, b) == \E k \in DOMAIN freeBlocks[d] : freeBlocks[d][k] = b

(* The code links a block by one pair of fields in whichever list it is.   *)
(* Only a block that HotBlocks left both current and free could be taken   *)
(* out of the free list by SelectiveGetFromGcVictimList, which would cut   *)
(* it: those writes are left out, so free and victim lists are apart here. *)
KeepsFreeList(l) ==
    LET v == logicalSlice[l] IN v # VsaNone => ~ IsFree(v[1], v[2])

(* A mutation: the block enters the new list and never leaves the old one. *)
InvalidateWithoutUnlinking(v) ==
    LET n == invalidSliceCnt[v[1]][v[2]] IN
    /\ invalidSliceCnt' = [invalidSliceCnt EXCEPT ![v[1]][v[2]] = n + 1]
    /\ gcVictimList' = [gcVictimList EXCEPT ![v[1]][n + 1] = Append(@, v[2])]

(* The block of an overwritten slice moves up to the next victim list. *)
CountInvalid(v) ==
    LET n == invalidSliceCnt[v[1]][v[2]] IN
    /\ invalidSliceCnt' = [invalidSliceCnt EXCEPT ![v[1]][v[2]] = n + 1]
    /\ gcVictimList' =
           [gcVictimList EXCEPT ![v[1]][n] = Unlink(@, v[2]),
                                ![v[1]][n + 1] = Append(@, v[2])]

(* AddrTransWrite up to the end of InvalidateOldVsa. *)
BeginWrite(l, x) ==
    LET v == logicalSlice[l] IN
    /\ phase = "idle"
    /\ HotBlocks \/ KeepsCurrentBlock(l)
    /\ KeepsFreeList(l)
    /\ phase' = "allocate"
    /\ pending' = [lsa |-> l, data |-> x, old |-> Contents(l)]
    /\ IF v # VsaNone /\ virtualSlice[v] = l
       THEN /\ CountInvalid(v)
            /\ logicalSlice' = [logicalSlice EXCEPT ![l] = VsaNone]
       ELSE UNCHANGED <<logicalSlice, invalidSliceCnt, gcVictimList>>
    /\ UNCHANGED <<virtualSlice, nand, currentPage, freeBlocks, currentBlock,
                   targetDie, gc>>

Full(d) == currentPage[d][currentBlock[d]] = NumPages

(* A mutation: one page too many. *)
HasRoomForOneMore(d) == currentPage[d][currentBlock[d]] <= NumPages

HasRoom(d) == currentPage[d][currentBlock[d]] < NumPages

(* GetFromFbList(GET_FREE_BLOCK_NORMAL) finds a block beyond the reserve. *)
CanTakeFreeBlock(d) == Len(freeBlocks[d]) > ReservedFreeBlockCount

(* FindDieForFreeSliceAllocation, and AddrTransWrite returns. *)
EndWrite ==
    /\ targetDie' = (targetDie + 1) % NumDies
    /\ phase' = "idle"
    /\ pending' = NoWrite
    /\ UNCHANGED <<invalidSliceCnt, gcVictimList, gc>>

(* FindFreeVirtualSlice, before or after garbage collection. *)
UseCurrentBlock ==
    /\ phase \in {"allocate", "after"}
    /\ HasRoom(targetDie)
    /\ Program(pending.lsa, pending.data, targetDie, currentBlock[targetDie])
    /\ EndWrite
    /\ UNCHANGED <<freeBlocks, currentBlock>>

UseFreeBlock ==
    /\ phase \in {"allocate", "after"}
    /\ Full(targetDie)
    /\ CanTakeFreeBlock(targetDie)
    /\ TakeFreeBlock(targetDie)
    /\ Program(pending.lsa, pending.data, targetDie, Head(freeBlocks[targetDie]))
    /\ EndWrite
-----------------------------------------------------------------------------
(* Garbage collection of the target die *)

HasVictim(d) == \E n \in 1 .. NumPages : gcVictimList[d][n] # <<>>

(* GetFromGcVictimList: the lists are searched from the most invalid one. *)
MostInvalid(d) ==
    CHOOSE n \in 1 .. NumPages :
        /\ gcVictimList[d][n] # <<>>
        /\ \A m \in n + 1 .. NumPages : gcVictimList[d][m] = <<>>

(* A victim without a valid slice is erased without a look at its pages. *)
StartGc ==
    LET d == targetDie
        n == MostInvalid(d)
        victim == Head(gcVictimList[d][n])
    IN  /\ phase = "allocate"
        /\ Full(d)
        /\ ~ CanTakeFreeBlock(d)
        /\ HasVictim(d)
        /\ gcVictimList' = [gcVictimList EXCEPT ![d][n] = Tail(@)]
        /\ gc' = [victim |-> victim,
                  page |-> IF invalidSliceCnt[d][victim] = NumPages
                           THEN NumPages ELSE 0]
        /\ phase' = "gc"
        /\ UNCHANGED <<sliceVars, currentPage, invalidSliceCnt, freeBlocks,
                       currentBlock, targetDie, pending>>

VictimPage == <<targetDie, gc.victim, gc.page>>

SkipPage ==
    /\ phase = "gc"
    /\ gc.page < NumPages
    /\ ~ Valid(VictimPage)
    /\ gc' = [gc EXCEPT !.page = @ + 1]
    /\ UNCHANGED <<sliceVars, blockVars, targetDie, phase, pending>>

(* FindFreeVirtualSliceForGc when the victim is the current block.  The    *)
(* reserved block may be taken here.                                       *)
LeaveVictim ==
    /\ phase = "gc"
    /\ gc.page < NumPages
    /\ Valid(VictimPage)
    /\ gc.victim = currentBlock[targetDie]
    /\ freeBlocks[targetDie] # <<>>
    /\ TakeFreeBlock(targetDie)
    /\ UNCHANGED <<sliceVars, currentPage, invalidSliceCnt, gcVictimList,
                   targetDie, phase, pending, gc>>

(* A valid slice is read from the victim and written to block b. *)
CopyTo(b) ==
    /\ phase = "gc"
    /\ gc.page < NumPages
    /\ Valid(VictimPage)
    /\ gc.victim # currentBlock[targetDie]
    /\ Program(virtualSlice[VictimPage], nand[VictimPage], targetDie, b)
    /\ gc' = [gc EXCEPT !.page = @ + 1]
    /\ UNCHANGED <<invalidSliceCnt, gcVictimList, targetDie, phase, pending>>

CopyToCurrentBlock ==
    /\ HasRoom(targetDie)
    /\ CopyTo(currentBlock[targetDie])
    /\ UNCHANGED <<freeBlocks, currentBlock>>

CopyToFreeBlock ==
    /\ Full(targetDie)
    /\ freeBlocks[targetDie] # <<>>
    /\ TakeFreeBlock(targetDie)
    /\ CopyTo(Head(freeBlocks[targetDie]))

(* A mutation: the page counter of the erased block is not reset. *)
ResetCountOnly(d, b) ==
    /\ invalidSliceCnt' = [invalidSliceCnt EXCEPT ![d][b] = 0]
    /\ UNCHANGED currentPage

(* A mutation: the count of its invalid slices is not. *)
ResetPageOnly(d, b) ==
    /\ currentPage' = [currentPage EXCEPT ![d][b] = 0]
    /\ UNCHANGED invalidSliceCnt

ResetBlock(d, b) ==
    /\ currentPage' = [currentPage EXCEPT ![d][b] = 0]
    /\ invalidSliceCnt' = [invalidSliceCnt EXCEPT ![d][b] = 0]

(* A mutation: the erased block is not given back. *)
DropBlock(d, b) == UNCHANGED freeBlocks

PutToFbList(d, b) == freeBlocks' = [freeBlocks EXCEPT ![d] = Append(@, b)]

(* The erased block joins the free list, its slices forgotten. *)
EraseBlock ==
    LET d == targetDie
        b == gc.victim
    IN  /\ phase = "gc"
        /\ gc.page = NumPages
        /\ nand' = [v \in Vsas |-> IF v[1] = d /\ v[2] = b THEN NoData ELSE nand[v]]
        /\ virtualSlice' = [v \in Vsas |-> IF v[1] = d /\ v[2] = b THEN LsaNone
                                           ELSE virtualSlice[v]]
        /\ ResetBlock(d, b)
        /\ PutToFbList(d, b)
        /\ gc' = NoGc
        /\ phase' = "after"
        /\ UNCHANGED <<logicalSlice, gcVictimList, currentBlock, targetDie, pending>>
-----------------------------------------------------------------------------
(* Erased flash and empty maps; every die's first block is current. *)
Init ==
    /\ logicalSlice = [l \in Lsas |-> VsaNone]
    /\ virtualSlice = [v \in Vsas |-> LsaNone]
    /\ nand = [v \in Vsas |-> NoData]
    /\ currentPage = [d \in Dies |-> [b \in Blocks |-> 0]]
    /\ invalidSliceCnt = [d \in Dies |-> [b \in Blocks |-> 0]]
    /\ freeBlocks = [d \in Dies |-> [k \in 1 .. NumBlocks - 1 |-> k]]
    /\ gcVictimList = [d \in Dies |-> [n \in 0 .. NumPages |-> <<>>]]
    /\ currentBlock = [d \in Dies |-> 0]
    /\ targetDie = 0
    /\ phase = "idle"
    /\ pending = NoWrite
    /\ gc = NoGc

Next ==
    \/ \E l \in Lsas, x \in Data : BeginWrite(l, x)
    \/ UseCurrentBlock
    \/ UseFreeBlock
    \/ StartGc
    \/ SkipPage
    \/ LeaveVictim
    \/ CopyToCurrentBlock
    \/ CopyToFreeBlock
    \/ EraseBlock

Spec == Init /\ [][Next]_vars
-----------------------------------------------------------------------------
TypeOK ==
    /\ logicalSlice \in [Lsas -> Vsas \cup {VsaNone}]
    /\ virtualSlice \in [Vsas -> Lsas \cup {LsaNone}]
    /\ nand \in [Vsas -> Data \cup {NoData}]
    /\ currentPage \in [Dies -> [Blocks -> 0 .. NumPages]]
    /\ invalidSliceCnt \in [Dies -> [Blocks -> 0 .. NumPages]]
    /\ freeBlocks \in [Dies -> Seq(Blocks)]
    /\ gcVictimList \in [Dies -> [0 .. NumPages -> Seq(Blocks)]]
    /\ currentBlock \in [Dies -> Blocks]
    /\ targetDie \in Dies
    /\ phase \in {"idle", "allocate", "gc", "after"}
    /\ pending \in [lsa : Lsas, data : Data, old : Data \cup {NoData}]
                       \cup {NoWrite}
    /\ gc \in [victim : Blocks, page : 0 .. NumPages]

Victim(d, b) == phase = "gc" /\ d = targetDie /\ b = gc.victim

(* A free block is erased, listed once and not current: a block handed out *)
(* twice, or with pages already programmed, would take two writes on one   *)
(* page.                                                                   *)
FreeBlocksErased ==
    \A d \in Dies :
        /\ \A j, k \in DOMAIN freeBlocks[d] :
               freeBlocks[d][j] = freeBlocks[d][k] => j = k
        /\ \A b \in Blocks : IsFree(d, b) =>
               /\ currentPage[d][b] = 0
               /\ b # currentBlock[d]
               /\ ~ Victim(d, b)

(* Every block with overwritten slices, but the victim, is listed once,    *)
(* under the number it has: garbage collection finds it, and finds the     *)
(* block that costs it least.                                              *)
VictimsListed ==
    \A d \in Dies, b \in Blocks, n \in 0 .. NumPages :
        LET places == {k \in DOMAIN gcVictimList[d][n] : gcVictimList[d][n][k] = b}
        IN  IF n = invalidSliceCnt[d][b] /\ n > 0 /\ ~ Victim(d, b)
            THEN \E k \in places : places = {k}
            ELSE places = {}

(* The invalid slices of a block are its programmed pages whose slice was  *)
(* written again since: a page counted wrongly is a slice lost by an erase *)
(* that skips it, or a block that is never collected.                      *)
InvalidCounted ==
    \A d \in Dies, b \in Blocks : ~ Victim(d, b) =>
        Cardinality({p \in Pages : p < currentPage[d][b] /\ ~ Valid(<<d, b, p>>)})
            = invalidSliceCnt[d][b]

(* Two assertions of FindFreeVirtualSlice and FindFreeVirtualSliceForGc    *)
(* hold: garbage collection leaves room for the write it was started for,  *)
(* and never runs out of blocks itself.                                    *)
GcFindsRoom ==
    LET d == targetDie IN
    /\ phase = "after" /\ Full(d) => CanTakeFreeBlock(d)
    /\ phase = "gc" /\ (Full(d) \/ gc.victim = currentBlock[d]) =>
           \/ freeBlocks[d] # <<>>
           \/ \A p \in gc.page .. NumPages - 1 : ~ Valid(<<d, gc.victim, p>>)

(* The layer is a store of slices: no write and no collection loses, mixes *)
(* or resurrects the contents of any slice.                                *)
SliceContents ==
    [l \in Lsas |-> IF pending.lsa = l THEN pending.old ELSE Contents(l)]

ServedRequest ==
    IF phase = "idle" THEN NoWrite ELSE [lsa |-> pending.lsa, data |-> pending.data]

Store == INSTANCE SliceStore
    WITH contents <- SliceContents, request <- ServedRequest, NoRequest <- NoWrite

ImplementsStore == Store!Spec

(* address_translation.c:690 "[WARNING] Current page management fail       *)
(* [WARNING]": a block takes no more slices than it has pages.             *)
CurrentPageManaged ==
    \A d \in Dies, b \in Blocks : currentPage[d][b] <= NumPages
=============================================================================
