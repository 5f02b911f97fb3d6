---------------------------- MODULE FtlMapProofs ----------------------------
(***************************************************************************)
(* Proofs about FtlMap for any number of dies, blocks, pages and slices,   *)
(* and for every host that keeps to HotBlocks = FALSE.  One invariant,     *)
(* FtlInv, is inductive; what the runs check follows from it, and so does  *)
(* the refinement of SliceStore.                                           *)
(***************************************************************************)
EXTENDS FtlMap, SequenceTheorems, FiniteSetTheorems, TLAPS

-----------------------------------------------------------------------------
(* Facts about sequences *)

(* What is left of a sequence without its k-th element. *)
LEMMA RemoveAtFact ==
    ASSUME NEW S, NEW s \in Seq(S), NEW k \in 1 .. Len(s)
    PROVE  /\ RemoveAt(s, k) \in Seq(S)
           /\ Len(RemoveAt(s, k)) = Len(s) - 1
           /\ \A j \in 1 .. Len(s) - 1 :
                  RemoveAt(s, k)[j] = IF j < k THEN s[j] ELSE s[j + 1]
<1> DEFINE front == SubSeq(s, 1, k - 1)
           back == SubSeq(s, k + 1, Len(s))
<1>1. Len(s) \in Nat
    OBVIOUS
<1>2. \A i \in 1 .. Len(s) : s[i] \in S
    OBVIOUS
<1>3. /\ front \in Seq(S)
      /\ Len(front) = k - 1
      /\ \A i \in 1 .. k - 1 : front[i] = s[i]
    BY <1>1, <1>2, SubSeqProperties
<1>4. /\ back \in Seq(S)
      /\ Len(back) = Len(s) - k
      /\ \A i \in 1 .. Len(s) - k : back[i] = s[k + i]
    <2>1. \A i \in k + 1 .. Len(s) : s[i] \in S
        BY <1>1, <1>2
    <2>2. QED
        BY <1>1, <2>1, SubSeqProperties
<1>5. RemoveAt(s, k) = front \o back
    BY DEF RemoveAt
<1> HIDE DEF front, back
<1>6. /\ front \o back \in Seq(S)
      /\ Len(front \o back) = Len(front) + Len(back)
      /\ \A i \in 1 .. Len(front) + Len(back) :
             (front \o back)[i] = IF i <= Len(front) THEN front[i]
                                  ELSE back[i - Len(front)]
    BY <1>3, <1>4, ConcatProperties
<1>7. QED
    BY <1>1, <1>3, <1>4, <1>5, <1>6

(* A sequence in which nothing is twice. *)
Once(s) == \A i, j \in DOMAIN s : s[i] = s[j] => i = j

(* Without its k-th element it has one element less. *)
LEMMA OnceRemoveAt ==
    ASSUME NEW S, NEW s \in Seq(S), NEW k \in 1 .. Len(s), Once(s)
    PROVE  /\ RemoveAt(s, k) \in Seq(S)
           /\ Once(RemoveAt(s, k))
           /\ Range(RemoveAt(s, k)) = Range(s) \ {s[k]}
<1> DEFINE r == RemoveAt(s, k)
           x == s[k]
<1>1. Len(s) \in Nat /\ DOMAIN s = 1 .. Len(s)
    OBVIOUS
<1>2. /\ r \in Seq(S)
      /\ Len(r) = Len(s) - 1
      /\ \A j \in 1 .. Len(s) - 1 : r[j] = IF j < k THEN s[j] ELSE s[j + 1]
    BY RemoveAtFact
<1> HIDE DEF r
<1>3. DOMAIN r = 1 .. Len(s) - 1
    BY <1>2
<1>4. Once(r)
    <2>1. SUFFICES ASSUME NEW i \in DOMAIN r, NEW j \in DOMAIN r, r[i] = r[j]
                   PROVE  i = j
        BY DEF Once
    <2>2. \A m, n \in 1 .. Len(s) : s[m] = s[n] => m = n
        BY <1>1 DEF Once
    <2>3. QED
        BY <1>1, <1>2, <1>3, <2>1, <2>2
<1>5. Range(r) \subseteq Range(s) \ {x}
    <2>1. SUFFICES ASSUME NEW j \in DOMAIN r PROVE r[j] \in Range(s) \ {x}
        BY DEF Range
    <2>2. CASE j < k
        BY <1>1, <1>2, <1>3, <2>1, <2>2 DEF Once, Range
    <2>3. CASE ~ (j < k)
        BY <1>1, <1>2, <1>3, <2>1, <2>3 DEF Once, Range
    <2>4. QED
        BY <2>2, <2>3
<1>6. Range(s) \ {x} \subseteq Range(r)
    <2>1. SUFFICES ASSUME NEW i \in DOMAIN s, s[i] # x PROVE s[i] \in Range(r)
        BY DEF Range
    <2>2. CASE i < k
        <3>1. i \in DOMAIN r /\ r[i] = s[i]
            BY <1>1, <1>2, <1>3, <2>1, <2>2
        <3>2. QED
            BY <3>1 DEF Range
    <2>3. CASE i > k
        <3>1. i - 1 \in DOMAIN r /\ r[i - 1] = s[i]
            BY <1>1, <1>2, <1>3, <2>1, <2>3
        <3>2. QED
            BY <3>1 DEF Range
    <2>4. QED
        BY <1>1, <2>1, <2>2, <2>3
<1>7. QED
    BY <1>2, <1>4, <1>5, <1>6 DEF r

(* A new element at its end leaves nothing twice. *)
LEMMA OnceAppend ==
    ASSUME NEW S, NEW s \in Seq(S), NEW x \in S \ Range(s), Once(s)
    PROVE  /\ Append(s, x) \in Seq(S)
           /\ Once(Append(s, x))
           /\ Range(Append(s, x)) = Range(s) \cup {x}
<1>1. /\ Append(s, x) \in Seq(S)
      /\ DOMAIN Append(s, x) = 1 .. Len(s) + 1
      /\ \A i \in 1 .. Len(s) : Append(s, x)[i] = s[i]
      /\ Append(s, x)[Len(s) + 1] = x
    BY AppendProperties
<1>2. Len(s) \in Nat /\ DOMAIN s = 1 .. Len(s)
    OBVIOUS
<1>3. \A i \in 1 .. Len(s) : s[i] # x
    BY <1>2 DEF Range
<1>4. Once(Append(s, x))
    BY <1>1, <1>2, <1>3 DEF Once
<1>5. Range(Append(s, x)) = Range(s) \cup {x}
    BY <1>1, <1>2 DEF Range
<1>6. QED
    BY <1>1, <1>4, <1>5

(* Its tail has all but its head. *)
LEMMA OnceTail ==
    ASSUME NEW S, NEW s \in Seq(S), s # <<>>, Once(s)
    PROVE  /\ Head(s) \in Range(s)
           /\ Tail(s) \in Seq(S)
           /\ Len(Tail(s)) = Len(s) - 1
           /\ Once(Tail(s))
           /\ Range(Tail(s)) = Range(s) \ {Head(s)}
<1> DEFINE t == Tail(s)
           x == Head(s)
<1>1. /\ Len(s) \in Nat /\ DOMAIN s = 1 .. Len(s)
      /\ 1 \in DOMAIN s
      /\ x = s[1]
      /\ t \in Seq(S)
      /\ Len(t) = Len(s) - 1
      /\ DOMAIN t = 1 .. Len(s) - 1
      /\ \A i \in 1 .. Len(s) - 1 : t[i] = s[i + 1]
    BY HeadTailProperties
<1> HIDE DEF t, x
<1>2. Once(t)
    <2>1. SUFFICES ASSUME NEW i \in DOMAIN t, NEW j \in DOMAIN t, t[i] = t[j]
                   PROVE  i = j
        BY DEF Once
    <2>2. i + 1 \in DOMAIN s /\ j + 1 \in DOMAIN s /\ s[i + 1] = s[j + 1]
        BY <1>1, <2>1
    <2>3. i + 1 = j + 1
        BY <2>2 DEF Once
    <2>4. QED
        BY <1>1, <2>3
<1>3. x \in Range(s)
    BY <1>1 DEF Range
<1>4. Range(t) \subseteq Range(s) \ {x}
    <2>1. SUFFICES ASSUME NEW i \in DOMAIN t PROVE t[i] \in Range(s) /\ t[i] # x
        BY DEF Range
    <2>2. i + 1 \in DOMAIN s /\ i + 1 # 1 /\ t[i] = s[i + 1]
        BY <1>1
    <2>3. s[i + 1] # s[1]
        BY <1>1, <2>2 DEF Once
    <2>4. QED
        BY <1>1, <2>2, <2>3 DEF Range
<1>5. Range(s) \ {x} \subseteq Range(t)
    <2>1. SUFFICES ASSUME NEW i \in DOMAIN s, s[i] # x PROVE s[i] \in Range(t)
        BY DEF Range
    <2>2. i - 1 \in DOMAIN t /\ t[i - 1] = s[i]
        BY <1>1, <2>1
    <2>3. QED
        BY <2>2 DEF Range
<1>6. QED
    BY <1>1, <1>2, <1>3, <1>4, <1>5 DEF t, x
-----------------------------------------------------------------------------
(* The invariant *)

(* The two maps agree on every slice that has a place. *)
MapsAgree ==
    \A l \in Lsas : logicalSlice[l] # VsaNone =>
                        virtualSlice[logicalSlice[l]] = l

(* A place that was given to a slice lies below its block's next page. *)
MappedProgrammed ==
    \A v \in Vsas : virtualSlice[v] # LsaNone => v[3] < currentPage[v[1]][v[2]]

(* A slice that is being written has no place. *)
PendingUnmapped ==
    /\ phase = "idle" => pending = NoWrite
    /\ phase # "idle" => /\ pending.lsa \in Lsas
                         /\ logicalSlice[pending.lsa] = VsaNone

(* Collection leaves nothing valid behind it. *)
PassedPagesInvalid ==
    phase = "gc" =>
        \A p \in Pages : p < gc.page => ~ Valid(<<targetDie, gc.victim, p>>)

(* A victim that is the current block still has a slice to move, and is no *)
(* longer current when it is moved.                                        *)
CurrentVictimValid ==
    phase = "gc" /\ gc.victim = currentBlock[targetDie] =>
        \E p \in Pages : p >= gc.page /\ Valid(<<targetDie, gc.victim, p>>)

(* What HotBlocks = FALSE excludes stays excluded. *)
CurrentBlockKept ==
    \A d \in Dies : invalidSliceCnt[d][currentBlock[d]] = NumPages =>
                        Len(freeBlocks[d]) > 1

(* Some page of the victim is not copied. *)
SomePageSaved(used) ==
    \/ used < gc.page
    \/ \E p \in Pages : p >= gc.page /\ ~ Valid(<<targetDie, gc.victim, p>>)

(* The pages already copied and those still to be copied fit in a block:   *)
(* the reserved one before it is taken, the current one afterwards.        *)
GcRoom ==
    \/ /\ Len(freeBlocks[targetDie]) = 1
       /\ Full(targetDie)
       /\ SomePageSaved(0)
    \/ /\ Len(freeBlocks[targetDie]) = 0
       /\ currentBlock[targetDie] # gc.victim
       /\ currentPage[targetDie][currentBlock[targetDie]] <= gc.page
       /\ SomePageSaved(currentPage[targetDie][currentBlock[targetDie]])

Room ==
    /\ \A d \in Dies : ~ (phase = "gc" /\ d = targetDie) => Len(freeBlocks[d]) >= 1
    /\ phase = "gc" => GcRoom
    /\ phase = "after" /\ Full(targetDie) => Len(freeBlocks[targetDie]) >= 2

(* FreeBlocksErased, VictimsListed and InvalidCounted, said of lists and    *)
(* sets as a whole.                                                        *)
FreeLists ==
    \A d \in Dies :
        /\ Once(freeBlocks[d])
        /\ \A b \in Range(freeBlocks[d]) : /\ currentPage[d][b] = 0
                                           /\ b # currentBlock[d]
                                           /\ ~ Victim(d, b)

Listed(d, b, n) == n = invalidSliceCnt[d][b] /\ n > 0 /\ ~ Victim(d, b)

VictimLists ==
    \A d \in Dies, n \in 0 .. NumPages :
        /\ Once(gcVictimList[d][n])
        /\ \A b \in Blocks : b \in Range(gcVictimList[d][n]) <=> Listed(d, b, n)

InvalidPages(d, b) == {p \in Pages : p < currentPage[d][b] /\ ~ Valid(<<d, b, p>>)}

InvalidKnown ==
    \A d \in Dies, b \in Blocks : ~ Victim(d, b) =>
        Cardinality(InvalidPages(d, b)) = invalidSliceCnt[d][b]

FtlInv ==
    /\ TypeOK
    /\ MapsAgree
    /\ MappedProgrammed
    /\ PendingUnmapped
    /\ FreeLists
    /\ VictimLists
    /\ InvalidKnown
    /\ PassedPagesInvalid
    /\ CurrentVictimValid
    /\ CurrentBlockKept
    /\ Room
-----------------------------------------------------------------------------
(* Facts about places, pages and lists *)

LEMMA VsaFact ==
    /\ \A d \in Dies, b \in Blocks, p \in Pages :
           /\ <<d, b, p>> \in Vsas
           /\ <<d, b, p>>[1] = d /\ <<d, b, p>>[2] = b /\ <<d, b, p>>[3] = p
    /\ \A v \in Vsas : /\ v[1] \in Dies /\ v[2] \in Blocks /\ v[3] \in Pages
                       /\ v = <<v[1], v[2], v[3]>>
    /\ VsaNone \notin Vsas
BY FtlNonesAssumption DEF Vsas

LEMMA SizeFact ==
    /\ NumPages \in Nat /\ NumPages >= 1
    /\ NumBlocks \in Nat /\ NumBlocks >= 2
    /\ NumDies \in Nat /\ NumDies >= 1
    /\ \A p \in Pages : p \in Nat /\ p < NumPages
    /\ \A p \in Nat : p < NumPages => p \in Pages
    /\ \A b \in Blocks : b \in Nat
    /\ \A d \in Dies : d \in Nat
BY FtlSizesAssumption DEF Pages, Blocks, Dies

LEMMA InvalidPagesFact ==
    ASSUME NEW S, S \subseteq Pages
    PROVE  /\ IsFiniteSet(S)
           /\ Cardinality(S) \in Nat
           /\ Cardinality(S) <= NumPages
           /\ Cardinality(S) = NumPages <=> S = Pages
           /\ \A p \in Pages \ S : /\ Cardinality(S) < NumPages
                                   /\ Cardinality(S \cup {p}) = Cardinality(S) + 1
<1>1. IsFiniteSet(Pages) /\ Cardinality(Pages) = NumPages
    BY SizeFact, FS_Interval DEF Pages
<1>2. S \in SUBSET Pages
    OBVIOUS
<1>3. IsFiniteSet(S) /\ Cardinality(S) <= NumPages
    BY <1>1, <1>2, FS_Subset
<1>4. Cardinality(S) = NumPages <=> S = Pages
    BY <1>1, <1>2, FS_Subset
<1>5. Cardinality(S) \in Nat
    BY <1>3, FS_CardinalityType
<1>6. ASSUME NEW p \in Pages \ S
      PROVE  Cardinality(S) < NumPages /\ Cardinality(S \cup {p}) = Cardinality(S) + 1
    <2>1. S # Pages
        OBVIOUS
    <2>2. Cardinality(S \cup {p}) = Cardinality(S) + 1
        BY <1>3, FS_AddElement
    <2>3. QED
        BY <1>3, <1>4, <1>5, <2>1, <2>2, SizeFact
<1>7. QED
    BY <1>3, <1>4, <1>5, <1>6

(* A set of numbers up to n has a greatest one. *)
LEMMA GreatestFact ==
    ASSUME NEW n \in Nat, NEW T, T \subseteq 1 .. n, T # {}
    PROVE  \E m \in T : \A k \in T : k <= m
<1> DEFINE R == OpToRel(<, Nat)
           U == {n - m : m \in T}
<1>1. IsWellFoundedOn(R, Nat)
    BY NatLessThanWellFounded
<1>2. \A i, j \in Nat : i < j => <<i, j>> \in R
    BY DEF OpToRel
<1> HIDE DEF R
<1>3. U \subseteq Nat /\ U # {}
    <2>1. \A m \in T : m \in Nat /\ n - m \in Nat
        OBVIOUS
    <2>2. QED
        BY <2>1
<1>4. PICK u \in U : \A w \in U : ~ (<<w, u>> \in R)
    <2> HIDE DEF U
    <2>1. QED
        BY <1>1, <1>3, WFMin
<1>5. PICK m \in T : u = n - m
    OBVIOUS
<1>6. ASSUME NEW k \in T PROVE k <= m
    <2>1. n - k \in U /\ ~ (<<n - k, n - m>> \in R)
        BY <1>4, <1>5
    <2>2. n - k \in Nat /\ n - m \in Nat /\ k \in Nat /\ m \in Nat
        OBVIOUS
    <2>3. ~ (n - k < n - m)
        BY <1>2, <2>1, <2>2
    <2>4. QED
        BY <2>2, <2>3
<1>7. QED
    BY <1>6

LEMMA UnlinkFact ==
    ASSUME NEW S, NEW s \in Seq(S), NEW x \in S, Once(s)
    PROVE  /\ Unlink(s, x) \in Seq(S)
           /\ Once(Unlink(s, x))
           /\ Range(Unlink(s, x)) = Range(s) \ {x}
<1>1. DOMAIN s = 1 .. Len(s)
    OBVIOUS
<1>2. CASE \E k \in DOMAIN s : s[k] = x
    <2>1. PICK i \in DOMAIN s : s[i] = x
        BY <1>2
    <2> DEFINE m == CHOOSE j \in DOMAIN s : s[j] = x
    <2>2. m \in DOMAIN s /\ s[m] = x
        BY <2>1
    <2>3. Unlink(s, x) = RemoveAt(s, m)
        BY <1>2 DEF Unlink
    <2> HIDE DEF m
    <2>4. QED
        BY <1>1, <2>2, <2>3, OnceRemoveAt
<1>3. CASE ~ \E k \in DOMAIN s : s[k] = x
    BY <1>3 DEF Unlink, Range
<1>4. QED
    BY <1>2, <1>3
-----------------------------------------------------------------------------
(* What parts of several actions do *)

(* A programmed page was in no slice's place; the slice leaves its old one *)
(* and every other page is as valid as it was.                             *)
Programmed(l, d, b, p) ==
    /\ logicalSlice' \in [Lsas -> Vsas \cup {VsaNone}]
    /\ virtualSlice' \in [Vsas -> Lsas \cup {LsaNone}]
    /\ nand' \in [Vsas -> Data \cup {NoData}]
    /\ currentPage' \in [Dies -> [Blocks -> 0 .. NumPages]]
    /\ MapsAgree'
    /\ MappedProgrammed'
    /\ virtualSlice[<<d, b, p>>] = LsaNone
    /\ Valid(<<d, b, p>>)'
    /\ \A w \in Vsas : w = logicalSlice[l] => ~ Valid(w)'
    /\ \A w \in Vsas : w # <<d, b, p>> /\ w # logicalSlice[l]
                           => (Valid(w)' <=> Valid(w))
    /\ currentPage'[d][b] = p + 1
    /\ \A e \in Dies, c \in Blocks :
           e # d \/ c # b => currentPage'[e][c] = currentPage[e][c]
    /\ \A e \in Dies, c \in Blocks :
           (\A q \in Pages : <<e, c, q>> # logicalSlice[l])
               => InvalidPages(e, c)' = InvalidPages(e, c)

LEMMA ProgramFact ==
    ASSUME TypeOK, MapsAgree, MappedProgrammed,
           NEW l \in Lsas, NEW x \in Data \cup {NoData},
           NEW d \in Dies, NEW b \in Blocks, NEW p \in Pages,
           currentPage[d][b] = p, Program(l, x, d, b)
    PROVE  Programmed(l, d, b, p)
<1>1. PICK v \in Vsas : v = <<d, b, p>> /\ v[1] = d /\ v[2] = b /\ v[3] = p
    <2>1. <<d, b, p>> \in Vsas
        BY VsaFact
    <2>2. <<d, b, p>>[1] = d /\ <<d, b, p>>[2] = b /\ <<d, b, p>>[3] = p
        OBVIOUS
    <2>3. QED
        BY <2>1, <2>2, Zenon
<1>2. /\ nand' = [nand EXCEPT ![v] = x]
      /\ logicalSlice' = [logicalSlice EXCEPT ![l] = v]
      /\ virtualSlice' = [virtualSlice EXCEPT ![v] = l]
      /\ currentPage' = [currentPage EXCEPT ![d] = [currentPage[d] EXCEPT ![b] = p + 1]]
    BY <1>1 DEF Program
<1>3. /\ logicalSlice \in [Lsas -> Vsas \cup {VsaNone}]
      /\ virtualSlice \in [Vsas -> Lsas \cup {LsaNone}]
      /\ nand \in [Vsas -> Data \cup {NoData}]
    BY DEF TypeOK
<1>4. currentPage \in [Dies -> [Blocks -> 0 .. NumPages]] /\ p + 1 \in 0 .. NumPages
    <2>1. p \in Nat /\ p < NumPages /\ NumPages \in Nat
        BY SizeFact
    <2>2. QED
        BY <2>1 DEF TypeOK
<1>5. VsaNone # v /\ LsaNone # l
    BY VsaFact, FtlNonesAssumption
<1>6. /\ logicalSlice' \in [Lsas -> Vsas \cup {VsaNone}]
      /\ virtualSlice' \in [Vsas -> Lsas \cup {LsaNone}]
      /\ nand' \in [Vsas -> Data \cup {NoData}]
    BY <1>2, <1>3
<1>7. /\ currentPage' \in [Dies -> [Blocks -> 0 .. NumPages]]
      /\ currentPage'[d][b] = p + 1
      /\ \A e \in Dies, c \in Blocks :
             e # d \/ c # b => currentPage'[e][c] = currentPage[e][c]
    BY <1>2, <1>4
<1>8. virtualSlice[v] = LsaNone
    BY <1>1, SizeFact DEF MappedProgrammed
<1>9. /\ logicalSlice'[l] = v /\ virtualSlice'[v] = l
      /\ \A k \in Lsas : k # l => logicalSlice'[k] = logicalSlice[k]
      /\ \A w \in Vsas : w # v => virtualSlice'[w] = virtualSlice[w]
    BY <1>2, <1>3
<1>10. MapsAgree'
    <2>1. SUFFICES ASSUME NEW k \in Lsas, logicalSlice'[k] # VsaNone
                   PROVE  virtualSlice'[logicalSlice'[k]] = k
        BY DEF MapsAgree
    <2>2. CASE k = l
        BY <1>9, <2>2
    <2>3. CASE k # l
        <3>1. logicalSlice[k] \in Vsas /\ virtualSlice[logicalSlice[k]] = k
            BY <1>3, <1>9, <2>1, <2>3 DEF MapsAgree
        <3>2. logicalSlice[k] # v
            BY <1>8, <3>1, FtlNonesAssumption
        <3>3. QED
            BY <1>9, <2>3, <3>1, <3>2
    <2>4. QED
        BY <2>2, <2>3
<1>11. MappedProgrammed'
    <2>1. SUFFICES ASSUME NEW w \in Vsas, virtualSlice'[w] # LsaNone
                   PROVE  w[3] < currentPage'[w[1]][w[2]]
        BY DEF MappedProgrammed
    <2>2. CASE w = v
        BY <1>1, <1>7, <2>2, SizeFact
    <2>3. CASE w # v
        <3>1. /\ w[1] \in Dies /\ w[2] \in Blocks /\ w[3] \in Nat
              /\ w[3] < currentPage[w[1]][w[2]]
            BY <1>9, <2>1, <2>3, VsaFact, SizeFact DEF MappedProgrammed
        <3>2. CASE w[1] = d /\ w[2] = b
            BY <1>7, <3>1, <3>2, SizeFact
        <3>3. CASE ~ (w[1] = d /\ w[2] = b)
            BY <1>7, <3>1, <3>3
        <3>4. QED
            BY <3>2, <3>3
    <2>4. QED
        BY <2>2, <2>3
<1>12. Valid(v)'
    BY <1>5, <1>9 DEF Valid
<1>13. ASSUME NEW w \in Vsas, w = logicalSlice[l]
       PROVE  ~ Valid(w)'
    <2>1. virtualSlice[w] = l /\ w # v
        BY <1>5, <1>8, <1>13, VsaFact DEF MapsAgree
    <2>2. virtualSlice'[w] = l /\ logicalSlice'[l] # w
        BY <1>9, <2>1
    <2>3. QED
        BY <2>2 DEF Valid
<1>14. ASSUME NEW w \in Vsas, w # v, w # logicalSlice[l]
       PROVE  Valid(w)' <=> Valid(w)
    <2>1. virtualSlice'[w] = virtualSlice[w]
        BY <1>9, <1>14
    <2>2. CASE virtualSlice[w] = LsaNone
        BY <2>1, <2>2 DEF Valid
    <2>3. CASE virtualSlice[w] = l
        BY <1>9, <1>14, <2>1, <2>3 DEF Valid
    <2>4. CASE virtualSlice[w] \in Lsas \ {l}
        BY <1>9, <2>1, <2>4 DEF Valid
    <2>5. QED
        BY <1>3, <2>2, <2>3, <2>4
<1>15. ASSUME NEW e \in Dies, NEW c \in Blocks,
              \A q \in Pages : <<e, c, q>> # logicalSlice[l]
       PROVE  InvalidPages(e, c)' = InvalidPages(e, c)
    <2>1. SUFFICES ASSUME NEW q \in Pages
                   PROVE  q < currentPage'[e][c] /\ ~ Valid(<<e, c, q>>)'
                          <=> q < currentPage[e][c] /\ ~ Valid(<<e, c, q>>)
        BY DEF InvalidPages
    <2>2. <<e, c, q>> \in Vsas
        BY VsaFact
    <2>3. CASE <<e, c, q>> = v
        <3>1. e = d /\ c = b /\ q = p
            BY <1>1, <2>3
        <3>2. ~ (q < currentPage[e][c])
            BY <3>1, SizeFact
        <3>3. QED
            BY <1>12, <2>3, <3>2
    <2>4. CASE <<e, c, q>> # v
        <3>1. Valid(<<e, c, q>>)' <=> Valid(<<e, c, q>>)
            BY <1>14, <1>15, <2>2, <2>4
        <3>2. q < currentPage'[e][c] <=> q < currentPage[e][c]
            <4>1. CASE e = d /\ c = b
                <5>1. q # p /\ q \in Nat /\ p \in Nat
                    BY <1>1, <2>4, <4>1, SizeFact
                <5>2. currentPage'[e][c] = p + 1 /\ currentPage[e][c] = p
                    BY <1>7, <4>1
                <5>3. QED
                    BY <5>1, <5>2
            <4>2. CASE ~ (e = d /\ c = b)
                BY <1>7, <4>2
            <4>3. QED
                BY <4>1, <4>2
        <3>3. QED
            BY <3>1, <3>2
    <2>5. QED
        BY <2>3, <2>4
<1>16. QED
    BY <1>1, <1>6, <1>7, <1>8, <1>10, <1>11, <1>12, <1>13, <1>14, <1>15
    DEF Programmed

(* Where die d programs once b is its current block: what the current and  *)
(* the head of the free list have in common.                               *)
Allocated(d, b) ==
    /\ currentBlock' \in [Dies -> Blocks]
    /\ freeBlocks' \in [Dies -> Seq(Blocks)]
    /\ b = currentBlock'[d]
    /\ \A e \in Dies \ {d} : /\ freeBlocks'[e] = freeBlocks[e]
                             /\ currentBlock'[e] = currentBlock[e]
    /\ Once(freeBlocks'[d])
    /\ Range(freeBlocks'[d]) \subseteq Range(freeBlocks[d]) \ {b}
    /\ ~ Victim(d, b)
    /\ currentPage[d][b] < NumPages
    /\ \/ UNCHANGED <<freeBlocks, currentBlock>>
       \/ /\ currentPage[d][b] = 0
          /\ invalidSliceCnt[d][b] = 0
          /\ Len(freeBlocks'[d]) = Len(freeBlocks[d]) - 1

LEMMA StayFact ==
    ASSUME FtlInv, NEW d \in Dies, HasRoom(d), ~ Victim(d, currentBlock[d]),
           UNCHANGED <<freeBlocks, currentBlock>>
    PROVE  Allocated(d, currentBlock[d])
BY DEF FtlInv, TypeOK, FreeLists, HasRoom, Allocated

LEMMA FreeCountFact ==
    ASSUME FtlInv, NEW d \in Dies, NEW b \in Blocks, b \in Range(freeBlocks[d])
    PROVE  invalidSliceCnt[d][b] = 0
<1>1. currentPage[d][b] = 0 /\ ~ Victim(d, b)
    BY DEF FtlInv, FreeLists
<1>2. \A p \in Pages : ~ (p < currentPage[d][b])
    BY <1>1, SizeFact
<1>3. InvalidPages(d, b) = {}
    BY <1>2 DEF InvalidPages
<1>4. QED
    BY <1>1, <1>3, FS_EmptySet DEF FtlInv, InvalidKnown

LEMMA TakeFact ==
    ASSUME FtlInv, NEW d \in Dies, freeBlocks[d] # <<>>, TakeFreeBlock(d)
    PROVE  /\ Head(freeBlocks[d]) \in Blocks
           /\ Head(freeBlocks[d]) # currentBlock[d]
           /\ currentPage[d][Head(freeBlocks[d])] = 0
           /\ Len(freeBlocks'[d]) = Len(freeBlocks[d]) - 1
           /\ Allocated(d, Head(freeBlocks[d]))
<1>1. /\ freeBlocks \in [Dies -> Seq(Blocks)] /\ currentBlock \in [Dies -> Blocks]
      /\ freeBlocks[d] \in Seq(Blocks) /\ Once(freeBlocks[d])
    BY DEF FtlInv, TypeOK, FreeLists
<1>2. PICK h \in Blocks : h = Head(freeBlocks[d])
    BY <1>1
<1>3. /\ h \in Range(freeBlocks[d])
      /\ Tail(freeBlocks[d]) \in Seq(Blocks)
      /\ Len(Tail(freeBlocks[d])) = Len(freeBlocks[d]) - 1
      /\ Once(Tail(freeBlocks[d]))
      /\ Range(Tail(freeBlocks[d])) = Range(freeBlocks[d]) \ {h}
    BY <1>1, <1>2, OnceTail
<1>4. currentPage[d][h] = 0 /\ h # currentBlock[d] /\ ~ Victim(d, h)
    BY <1>3 DEF FtlInv, FreeLists
<1>5. invalidSliceCnt[d][h] = 0
    BY <1>2, <1>3, FreeCountFact
<1>6. /\ currentBlock' = [currentBlock EXCEPT ![d] = h]
      /\ freeBlocks' = [freeBlocks EXCEPT ![d] = Tail(freeBlocks[d])]
    BY <1>1, <1>2 DEF TakeFreeBlock
<1>7. /\ currentBlock' \in [Dies -> Blocks] /\ currentBlock'[d] = h
      /\ freeBlocks' \in [Dies -> Seq(Blocks)]
      /\ freeBlocks'[d] = Tail(freeBlocks[d])
      /\ \A e \in Dies \ {d} : /\ freeBlocks'[e] = freeBlocks[e]
                               /\ currentBlock'[e] = currentBlock[e]
    BY <1>1, <1>3, <1>6
<1>8. 0 < NumPages
    BY SizeFact
<1>9. Allocated(d, h)
    BY <1>3, <1>4, <1>5, <1>7, <1>8 DEF Allocated
<1>10. QED
    BY <1>2, <1>3, <1>4, <1>7, <1>9

(* Programming slice l to the block just allocated keeps every bookkeeping *)
(* of blocks: slice l had no place, or one in the victim.                  *)
Stored(l, d, b) ==
    /\ logicalSlice' \in [Lsas -> Vsas \cup {VsaNone}]
    /\ virtualSlice' \in [Vsas -> Lsas \cup {LsaNone}]
    /\ nand' \in [Vsas -> Data \cup {NoData}]
    /\ currentPage' \in [Dies -> [Blocks -> 0 .. NumPages]]
    /\ currentPage'[d][b] = currentPage[d][b] + 1
    /\ MapsAgree' /\ MappedProgrammed' /\ FreeLists' /\ VictimLists'
    /\ InvalidKnown' /\ CurrentBlockKept'
    /\ \A w \in Vsas : w = logicalSlice[l] => ~ Valid(w)'
    /\ \A w \in Vsas : ~ (w[1] = d /\ w[2] = b) /\ w # logicalSlice[l]
                           => (Valid(w)' <=> Valid(w))

LEMMA AllocateStep ==
    ASSUME FtlInv, NEW l \in Lsas, NEW x \in Data \cup {NoData},
           NEW d \in Dies, NEW b \in Blocks, Allocated(d, b), Program(l, x, d, b),
           UNCHANGED <<invalidSliceCnt, gcVictimList>>,
           \A e \in Dies, c \in Blocks : Victim(e, c)' <=> Victim(e, c),
           \A e \in Dies, c \in Blocks, q \in Pages :
               <<e, c, q>> = logicalSlice[l] => Victim(e, c)
    PROVE  Stored(l, d, b)
<1>1. PICK p \in Pages : p = currentPage[d][b]
    <2>1. currentPage[d][b] \in 0 .. NumPages /\ currentPage[d][b] < NumPages
        BY DEF FtlInv, TypeOK, Allocated
    <2>2. QED
        BY <2>1, SizeFact
<1>2. TypeOK /\ MapsAgree /\ MappedProgrammed
    BY DEF FtlInv
<1>3. /\ logicalSlice' \in [Lsas -> Vsas \cup {VsaNone}]
      /\ virtualSlice' \in [Vsas -> Lsas \cup {LsaNone}]
      /\ nand' \in [Vsas -> Data \cup {NoData}]
      /\ currentPage' \in [Dies -> [Blocks -> 0 .. NumPages]]
      /\ MapsAgree'
      /\ MappedProgrammed'
      /\ \A w \in Vsas : w = logicalSlice[l] => ~ Valid(w)'
      /\ \A w \in Vsas : w # <<d, b, p>> /\ w # logicalSlice[l]
                             => (Valid(w)' <=> Valid(w))
      /\ currentPage'[d][b] = p + 1
      /\ \A e \in Dies, c \in Blocks :
             e # d \/ c # b => currentPage'[e][c] = currentPage[e][c]
      /\ \A e \in Dies, c \in Blocks :
             (\A q \in Pages : <<e, c, q>> # logicalSlice[l])
                 => InvalidPages(e, c)' = InvalidPages(e, c)
    <2>1. currentPage[d][b] = p
        BY <1>1
    <2>2. Programmed(l, d, b, p)
        BY <1>2, <2>1, ProgramFact
    <2>3. QED
        BY <2>2 DEF Programmed
<1>4. \A w \in Vsas : ~ (w[1] = d /\ w[2] = b) /\ w # logicalSlice[l]
                          => (Valid(w)' <=> Valid(w))
    BY <1>3
<1>5. FreeLists'
    <2>1. SUFFICES ASSUME NEW e \in Dies
                   PROVE  /\ Once(freeBlocks'[e])
                          /\ \A c \in Range(freeBlocks'[e]) :
                                 /\ currentPage'[e][c] = 0
                                 /\ c # currentBlock'[e]
                                 /\ ~ Victim(e, c)'
        BY DEF FreeLists
    <2>2. /\ Once(freeBlocks[e])
          /\ \A c \in Range(freeBlocks[e]) : /\ currentPage[e][c] = 0
                                             /\ c # currentBlock[e]
                                             /\ ~ Victim(e, c)
        BY DEF FtlInv, FreeLists
    <2>3. \A c \in Range(freeBlocks[e]) : c \in Blocks
        <3>1. freeBlocks[e] \in Seq(Blocks)
            BY DEF FtlInv, TypeOK
        <3>2. QED
            BY <3>1 DEF Range
    <2>4. \A c \in Blocks : Victim(e, c)' <=> Victim(e, c)
        OBVIOUS
    <2>5. CASE e = d
        <3>1. /\ Once(freeBlocks'[d]) /\ b = currentBlock'[d]
              /\ Range(freeBlocks'[d]) \subseteq Range(freeBlocks[d]) \ {b}
            BY DEF Allocated
        <3>2. QED
            BY <1>3, <2>2, <2>3, <2>4, <2>5, <3>1
    <2>6. CASE e # d
        <3>1. freeBlocks'[e] = freeBlocks[e] /\ currentBlock'[e] = currentBlock[e]
            BY <2>6 DEF Allocated
        <3>2. \A c \in Blocks : currentPage'[e][c] = currentPage[e][c]
            BY <1>3, <2>6
        <3>3. QED
            BY <2>2, <2>3, <2>4, <3>1, <3>2
    <2>7. QED
        BY <2>5, <2>6
<1>6. VictimLists'
    BY DEF FtlInv, VictimLists, Listed
<1>7. InvalidKnown'
    <2>1. SUFFICES ASSUME NEW e \in Dies, NEW c \in Blocks, ~ Victim(e, c)'
                   PROVE  Cardinality(InvalidPages(e, c)') = invalidSliceCnt'[e][c]
        BY DEF InvalidKnown
    <2>2. ~ Victim(e, c) /\ InvalidPages(e, c)' = InvalidPages(e, c)
        BY <1>3, <2>1
    <2>3. QED
        BY <2>2 DEF FtlInv, InvalidKnown
<1>8. CurrentBlockKept'
    <2>1. SUFFICES ASSUME NEW e \in Dies,
                          invalidSliceCnt[e][currentBlock'[e]] = NumPages
                   PROVE  Len(freeBlocks'[e]) > 1
        BY DEF CurrentBlockKept
    <2>2. currentBlock'[e] = currentBlock[e] /\ freeBlocks'[e] = freeBlocks[e]
        BY <2>1, SizeFact DEF Allocated
    <2>3. QED
        BY <2>1, <2>2 DEF FtlInv, CurrentBlockKept
<1>9. QED
    BY <1>1, <1>3, <1>4, <1>5, <1>6, <1>7, <1>8 DEF Stored
-----------------------------------------------------------------------------
(* Every action keeps FtlInv *)

LEMMA UseStep ==
    ASSUME FtlInv, phase \in {"allocate", "after"}, NEW b \in Blocks,
           Allocated(targetDie, b), Len(freeBlocks'[targetDie]) >= 1,
           Program(pending.lsa, pending.data, targetDie, b), EndWrite
    PROVE  FtlInv'
<1>1. PICK d \in Dies : d = targetDie
    BY DEF FtlInv, TypeOK
<1>2. PICK l \in Lsas : l = pending.lsa /\ logicalSlice[l] = VsaNone
    BY DEF FtlInv, PendingUnmapped
<1>3. pending.data \in Data \cup {NoData}
    BY DEF FtlInv, TypeOK, NoWrite
<1>4. /\ targetDie' = (targetDie + 1) % NumDies /\ phase' = "idle"
      /\ pending' = NoWrite /\ gc' = gc
      /\ UNCHANGED <<invalidSliceCnt, gcVictimList>>
    BY DEF EndWrite
<1>5. \A e \in Dies, c \in Blocks : ~ Victim(e, c) /\ ~ Victim(e, c)'
    BY <1>4 DEF Victim
<1>6. \A e \in Dies, c \in Blocks, q \in Pages : <<e, c, q>> # logicalSlice[l]
    BY <1>2, VsaFact
<1>7. Stored(l, d, b)
    <2>1. Allocated(d, b) /\ Program(l, pending.data, d, b)
        BY <1>1, <1>2
    <2>2. QED
        BY <1>3, <1>4, <1>5, <1>6, <2>1, AllocateStep
<1>8. TypeOK'
    <2>1. targetDie' \in Dies
        BY <1>1, <1>4, SizeFact DEF Dies
    <2>2. /\ invalidSliceCnt' \in [Dies -> [Blocks -> 0 .. NumPages]]
          /\ gcVictimList' \in [Dies -> [0 .. NumPages -> Seq(Blocks)]]
          /\ gc' \in [victim : Blocks, page : 0 .. NumPages]
        BY <1>4 DEF FtlInv, TypeOK
    <2>3. freeBlocks' \in [Dies -> Seq(Blocks)] /\ currentBlock' \in [Dies -> Blocks]
        BY DEF Allocated
    <2>4. QED
        BY <1>4, <1>7, <2>1, <2>2, <2>3 DEF Stored, TypeOK
<1>9. PendingUnmapped' /\ PassedPagesInvalid' /\ CurrentVictimValid'
    BY <1>4 DEF PendingUnmapped, PassedPagesInvalid, CurrentVictimValid
<1>10. Room'
    <2>1. ASSUME NEW e \in Dies PROVE Len(freeBlocks'[e]) >= 1
        <3>1. CASE e = d
            BY <1>1, <3>1
        <3>2. CASE e # d
            BY <1>1, <3>2 DEF FtlInv, Room, Allocated
        <3>3. QED
            BY <3>1, <3>2
    <2>2. QED
        BY <1>4, <2>1 DEF Room
<1>11. QED
    BY <1>7, <1>8, <1>9, <1>10 DEF FtlInv, Stored

LEMMA CopyStep ==
    ASSUME FtlInv, NEW b \in Blocks, Allocated(targetDie, b), CopyTo(b),
           \/ HasRoom(targetDie) /\ UNCHANGED <<freeBlocks, currentBlock>>
           \/ /\ Full(targetDie)
              /\ currentPage[targetDie][b] = 0
              /\ Len(freeBlocks'[targetDie]) = Len(freeBlocks[targetDie]) - 1
    PROVE  FtlInv'
<1>1. PICK d \in Dies, m \in Blocks, p \in Pages :
          d = targetDie /\ m = gc.victim /\ p = gc.page
    <2>1. /\ targetDie \in Dies /\ gc.victim \in Blocks /\ gc.page \in 0 .. NumPages
          /\ gc.page < NumPages
        BY DEF FtlInv, TypeOK, CopyTo
    <2>2. gc.page \in Pages
        BY <2>1, SizeFact
    <2>3. QED
        BY <2>1, <2>2
<1>2. PICK v \in Vsas : v = <<d, m, p>> /\ v = VictimPage
    BY <1>1, VsaFact DEF VictimPage
<1>3. Valid(v)
    BY <1>2 DEF CopyTo
<1>4. PICK l \in Lsas : l = virtualSlice[v] /\ logicalSlice[l] = v
    BY <1>3 DEF Valid, FtlInv, TypeOK
<1>5. /\ phase = "gc" /\ phase' = "gc" /\ targetDie' = targetDie
      /\ gc' = [gc EXCEPT !.page = @ + 1] /\ pending' = pending
      /\ UNCHANGED <<invalidSliceCnt, gcVictimList>>
    BY DEF CopyTo
<1>6. gc \in [victim : Blocks, page : 0 .. NumPages]
    BY DEF FtlInv, TypeOK
<1>7. /\ gc'.victim = m /\ gc'.page = p + 1
      /\ gc' \in [victim : Blocks, page : 0 .. NumPages]
    <2>1. gc.page = p /\ p + 1 \in 0 .. NumPages
        BY <1>1, SizeFact
    <2>2. QED
        BY <1>1, <1>5, <1>6, <2>1
<1>8. \A e \in Dies, c \in Blocks :
          /\ Victim(e, c)' <=> Victim(e, c)
          /\ Victim(e, c) <=> e = d /\ c = m
    BY <1>1, <1>5, <1>7 DEF Victim
<1>9. Stored(l, d, b)
    <2>1. Allocated(d, b)
        BY <1>1
    <2>2. Program(l, nand[v], d, b)
        BY <1>1, <1>2, <1>4 DEF CopyTo
    <2>3. nand[v] \in Data \cup {NoData}
        BY DEF FtlInv, TypeOK
    <2>4. \A e \in Dies, c \in Blocks, q \in Pages :
              <<e, c, q>> = logicalSlice[l] => Victim(e, c)
        BY <1>2, <1>4, <1>8
    <2>5. QED
        BY <1>5, <1>8, <2>1, <2>2, <2>3, <2>4, AllocateStep
<1>10. b # m /\ currentBlock'[d] = b /\ gc.victim # currentBlock[d]
    BY <1>1, <1>8 DEF Allocated, CopyTo
<1>11. ~ Valid(v)' /\ \A q \in Pages : q # p => (Valid(<<d, m, q>>)' <=> Valid(<<d, m, q>>))
    <2>1. ~ Valid(v)'
        BY <1>4, <1>9 DEF Stored
    <2>2. ASSUME NEW q \in Pages, q # p
          PROVE  Valid(<<d, m, q>>)' <=> Valid(<<d, m, q>>)
        <3>1. /\ <<d, m, q>> \in Vsas
              /\ <<d, m, q>>[2] = m
              /\ <<d, m, q>> # v
            BY <1>2, <2>2, VsaFact
        <3>2. QED
            BY <1>4, <1>9, <1>10, <3>1 DEF Stored
    <2>3. QED
        BY <2>1, <2>2
<1>12. TypeOK'
    <2>1. /\ invalidSliceCnt' \in [Dies -> [Blocks -> 0 .. NumPages]]
          /\ gcVictimList' \in [Dies -> [0 .. NumPages -> Seq(Blocks)]]
          /\ targetDie' \in Dies
          /\ pending' \in [lsa : Lsas, data : Data, old : Data \cup {NoData}]
                              \cup {NoWrite}
        BY <1>5 DEF FtlInv, TypeOK
    <2>2. freeBlocks' \in [Dies -> Seq(Blocks)] /\ currentBlock' \in [Dies -> Blocks]
        BY DEF Allocated
    <2>3. QED
        BY <1>5, <1>7, <1>9, <2>1, <2>2 DEF Stored, TypeOK
<1>13. PendingUnmapped'
    <2>1. pending.lsa \in Lsas /\ logicalSlice[pending.lsa] = VsaNone
        BY <1>5 DEF FtlInv, PendingUnmapped
    <2>2. pending.lsa # l
        BY <1>4, <2>1, VsaFact
    <2>3. logicalSlice'[pending.lsa] = VsaNone
        <3>1. logicalSlice' = [logicalSlice EXCEPT ![l] = <<targetDie, b, currentPage[targetDie][b]>>]
            BY <1>2, <1>4 DEF CopyTo, Program
        <3>2. QED
            BY <2>1, <2>2, <3>1 DEF FtlInv, TypeOK
    <2>4. QED
        BY <1>5, <2>1, <2>3 DEF PendingUnmapped
<1>14. PassedPagesInvalid'
    <2>1. SUFFICES ASSUME NEW q \in Pages, q < p + 1
                   PROVE  ~ Valid(<<d, m, q>>)'
        BY <1>1, <1>5, <1>7 DEF PassedPagesInvalid
    <2>2. CASE q = p
        BY <1>2, <1>11, <2>2
    <2>3. CASE q # p
        <3>1. q < p
            BY <2>1, <2>3, SizeFact
        <3>2. ~ Valid(<<d, m, q>>)
            BY <1>1, <1>5, <3>1 DEF FtlInv, PassedPagesInvalid
        <3>3. QED
            BY <1>11, <2>3, <3>2
    <2>4. QED
        BY <2>2, <2>3
<1>15. CurrentVictimValid'
    BY <1>1, <1>5, <1>7, <1>10 DEF CurrentVictimValid
<1>16. Room'
    <2>1. PICK used \in 0 .. NumPages : used = currentPage[d][b]
        BY DEF FtlInv, TypeOK
    <2>2. /\ Len(freeBlocks'[d]) = 0
          /\ used <= p
          /\ \/ used < p
             \/ \E q \in Pages : q >= p /\ ~ Valid(<<d, m, q>>)
        <3>1. /\ GcRoom
              /\ Len(freeBlocks[d]) \in Nat
              /\ currentPage[d][currentBlock[d]] \in 0 .. NumPages
              /\ p \in Nat /\ p < NumPages /\ NumPages \in Nat
            BY <1>5, SizeFact DEF FtlInv, TypeOK, Room
        <3>2. CASE HasRoom(d) /\ UNCHANGED <<freeBlocks, currentBlock>>
            <4>1. b = currentBlock[d]
                BY <1>10, <3>2
            <4>2. ~ Full(d)
                BY <3>1, <3>2 DEF HasRoom, Full
            <4>3. QED
                BY <1>1, <2>1, <3>1, <3>2, <4>1, <4>2 DEF GcRoom, SomePageSaved
        <3>3. CASE /\ Full(d)
                   /\ currentPage[d][b] = 0
                   /\ Len(freeBlocks'[d]) = Len(freeBlocks[d]) - 1
            <4>1. ~ (currentPage[d][currentBlock[d]] <= p)
                BY <3>1, <3>3 DEF Full
            <4>2. Len(freeBlocks[d]) = 1 /\ SomePageSaved(0)
                BY <1>1, <3>1, <4>1 DEF GcRoom
            <4>3. 0 < p \/ \E q \in Pages : q >= p /\ ~ Valid(<<d, m, q>>)
                BY <1>1, <4>2 DEF SomePageSaved
            <4>4. used = 0 /\ Len(freeBlocks'[d]) = 0
                BY <2>1, <3>3, <4>2
            <4>5. QED
                BY <3>1, <4>3, <4>4
        <3>4. QED
            BY <1>1, <3>2, <3>3
    <2>3. \/ used + 1 < p + 1
          \/ \E q \in Pages : q >= p + 1 /\ ~ Valid(<<d, m, q>>)'
        <3>1. CASE used < p
            BY <2>1, <3>1, SizeFact
        <3>2. ASSUME NEW q \in Pages, q >= p, ~ Valid(<<d, m, q>>)
              PROVE  q >= p + 1 /\ ~ Valid(<<d, m, q>>)'
            <4>1. q # p
                BY <1>2, <1>3, <3>2
            <4>2. QED
                BY <1>11, <3>2, <4>1, SizeFact
        <3>3. QED
            BY <2>2, <3>1, <3>2
    <2>4. currentPage'[d][b] = used + 1 /\ used + 1 <= p + 1
        <3>1. currentPage'[d][b] = currentPage[d][b] + 1
            BY <1>9 DEF Stored
        <3>2. QED
            BY <2>1, <2>2, <3>1, SizeFact
    <2>5. SomePageSaved(used + 1)'
        BY <1>1, <1>5, <1>7, <2>3 DEF SomePageSaved
    <2>6. GcRoom'
        BY <1>1, <1>5, <1>7, <1>10, <2>2, <2>3, <2>4 DEF GcRoom, SomePageSaved
    <2>7. \A e \in Dies : e # d => Len(freeBlocks'[e]) >= 1
        BY <1>1, <1>5 DEF FtlInv, Room, Allocated
    <2>8. QED
        BY <1>1, <1>5, <2>6, <2>7 DEF Room
<1>17. QED
    BY <1>9, <1>12, <1>13, <1>14, <1>15, <1>16 DEF FtlInv, Stored

LEMMA SkipStep ==
    ASSUME FtlInv, SkipPage
    PROVE  FtlInv'
<1>1. PICK d \in Dies, m \in Blocks, p \in Pages :
          d = targetDie /\ m = gc.victim /\ p = gc.page
    <2>1. /\ targetDie \in Dies /\ gc.victim \in Blocks /\ gc.page \in 0 .. NumPages
          /\ gc.page < NumPages
        BY DEF FtlInv, TypeOK, SkipPage
    <2>2. gc.page \in Pages
        BY <2>1, SizeFact
    <2>3. QED
        BY <2>1, <2>2
<1>2. /\ phase = "gc" /\ ~ Valid(<<d, m, p>>)
      /\ gc' = [gc EXCEPT !.page = @ + 1]
      /\ UNCHANGED <<sliceVars, blockVars, targetDie, phase, pending>>
    BY <1>1 DEF SkipPage, VictimPage
<1>3. gc \in [victim : Blocks, page : 0 .. NumPages]
    BY DEF FtlInv, TypeOK
<1>4. /\ gc'.victim = m /\ gc'.page = p + 1
      /\ gc' \in [victim : Blocks, page : 0 .. NumPages]
    <2>1. gc.page = p /\ p + 1 \in 0 .. NumPages
        BY <1>1, SizeFact
    <2>2. QED
        BY <1>1, <1>2, <1>3, <2>1
<1>5. /\ \A e, c : Victim(e, c)' <=> Victim(e, c)
      /\ \A w : Valid(w)' <=> Valid(w)
    BY <1>1, <1>2, <1>4 DEF Victim, Valid, sliceVars
<1>6. TypeOK'
    BY <1>2, <1>4 DEF FtlInv, TypeOK, sliceVars, blockVars
<1>7. MapsAgree' /\ MappedProgrammed' /\ PendingUnmapped' /\ CurrentBlockKept'
    BY <1>2 DEF FtlInv, MapsAgree, MappedProgrammed, PendingUnmapped,
                CurrentBlockKept, sliceVars, blockVars
<1>8. FreeLists'
    BY <1>2, <1>5 DEF FtlInv, FreeLists, blockVars
<1>9. VictimLists'
    BY <1>2, <1>5 DEF FtlInv, VictimLists, Listed, blockVars
<1>10. InvalidKnown'
    <2>1. \A e \in Dies, c \in Blocks : InvalidPages(e, c)' = InvalidPages(e, c)
        BY <1>2, <1>5 DEF InvalidPages, blockVars
    <2>2. QED
        BY <1>2, <1>5, <2>1 DEF FtlInv, InvalidKnown, blockVars
<1>11. PassedPagesInvalid'
    <2>1. SUFFICES ASSUME NEW q \in Pages, q < p + 1
                   PROVE  ~ Valid(<<d, m, q>>)
        BY <1>1, <1>2, <1>4, <1>5 DEF PassedPagesInvalid
    <2>2. q < p \/ q = p
        BY <2>1, SizeFact
    <2>3. QED
        BY <1>1, <1>2, <2>2 DEF FtlInv, PassedPagesInvalid
<1>12. CurrentVictimValid'
    <2>1. SUFFICES ASSUME m = currentBlock[d]
                   PROVE  \E q \in Pages : q >= p + 1 /\ Valid(<<d, m, q>>)
        BY <1>1, <1>2, <1>4, <1>5 DEF CurrentVictimValid, blockVars
    <2>2. PICK q \in Pages : q >= p /\ Valid(<<d, m, q>>)
        BY <1>1, <1>2, <2>1 DEF FtlInv, CurrentVictimValid
    <2>3. q # p
        BY <1>2, <2>2
    <2>4. QED
        BY <2>2, <2>3, SizeFact
<1>13. Room'
    <2>1. PICK used \in 0 .. NumPages : used = currentPage[d][currentBlock[d]]
        BY DEF FtlInv, TypeOK
    <2>2. p \in Nat
        BY SizeFact
    <2>3. GcRoom'
        <3>1. CASE /\ Len(freeBlocks[d]) = 1
                   /\ Full(d)
            BY <1>1, <1>2, <1>4, <2>2, <3>1
            DEF GcRoom, Full, SomePageSaved, blockVars
        <3>2. CASE /\ Len(freeBlocks[d]) = 0
                   /\ currentBlock[d] # m
                   /\ used <= p
            <4>1. used < p + 1 /\ used <= p + 1
                BY <2>2, <3>2
            <4>2. QED
                BY <1>1, <1>2, <1>4, <2>1, <3>2, <4>1
                DEF GcRoom, SomePageSaved, blockVars
        <3>3. GcRoom
            BY <1>2 DEF FtlInv, Room
        <3>4. QED
            BY <1>1, <2>1, <3>1, <3>2, <3>3 DEF GcRoom
    <2>4. QED
        BY <1>1, <1>2, <2>3 DEF FtlInv, Room, blockVars
<1>14. QED
    BY <1>6, <1>7, <1>8, <1>9, <1>10, <1>11, <1>12, <1>13 DEF FtlInv

LEMMA LeaveStep ==
    ASSUME FtlInv, LeaveVictim
    PROVE  FtlInv'
<1>1. PICK d \in Dies, m \in Blocks, p \in Pages :
          d = targetDie /\ m = gc.victim /\ p = gc.page
    <2>1. /\ targetDie \in Dies /\ gc.victim \in Blocks /\ gc.page \in 0 .. NumPages
          /\ gc.page < NumPages
        BY DEF FtlInv, TypeOK, LeaveVictim
    <2>2. gc.page \in Pages
        BY <2>1, SizeFact
    <2>3. QED
        BY <2>1, <2>2
<1>2. /\ phase = "gc" /\ m = currentBlock[d] /\ freeBlocks[d] # <<>>
      /\ TakeFreeBlock(d)
      /\ UNCHANGED <<sliceVars, currentPage, invalidSliceCnt, gcVictimList,
                     targetDie, phase, pending, gc>>
    BY <1>1 DEF LeaveVictim
<1>3. PICK b \in Blocks :
          /\ b # m /\ currentPage[d][b] = 0
          /\ Len(freeBlocks'[d]) = Len(freeBlocks[d]) - 1
          /\ Allocated(d, b)
    BY <1>2, TakeFact
<1>4. /\ \A e, c : Victim(e, c)' <=> Victim(e, c)
      /\ \A w : Valid(w)' <=> Valid(w)
    BY <1>2 DEF Victim, Valid, sliceVars
<1>5. currentBlock'[d] = b
    BY <1>3 DEF Allocated
<1>6. TypeOK'
    BY <1>2, <1>3 DEF FtlInv, TypeOK, sliceVars, Allocated
<1>7. MapsAgree' /\ MappedProgrammed' /\ PendingUnmapped'
    BY <1>2 DEF FtlInv, MapsAgree, MappedProgrammed, PendingUnmapped, sliceVars
<1>8. CurrentBlockKept'
    <2>1. SUFFICES ASSUME NEW e \in Dies,
                          invalidSliceCnt[e][currentBlock'[e]] = NumPages
                   PROVE  Len(freeBlocks'[e]) > 1
        BY <1>2 DEF CurrentBlockKept
    <2>2. currentBlock'[e] = currentBlock[e] /\ freeBlocks'[e] = freeBlocks[e]
        BY <1>3, <2>1, SizeFact DEF Allocated
    <2>3. QED
        BY <2>1, <2>2 DEF FtlInv, CurrentBlockKept
<1>9. FreeLists'
    <2>1. SUFFICES ASSUME NEW e \in Dies
                   PROVE  /\ Once(freeBlocks'[e])
                          /\ \A c \in Range(freeBlocks'[e]) :
                                 /\ currentPage[e][c] = 0
                                 /\ c # currentBlock'[e]
                                 /\ ~ Victim(e, c)
        BY <1>2, <1>4 DEF FreeLists
    <2>2. /\ Once(freeBlocks[e])
          /\ \A c \in Range(freeBlocks[e]) : /\ currentPage[e][c] = 0
                                             /\ c # currentBlock[e]
                                             /\ ~ Victim(e, c)
        BY DEF FtlInv, FreeLists
    <2>3. CASE e = d
        BY <1>3, <2>2, <2>3 DEF Allocated
    <2>4. CASE e # d
        BY <1>3, <2>2, <2>4 DEF Allocated
    <2>5. QED
        BY <2>3, <2>4
<1>10. VictimLists'
    BY <1>2, <1>4 DEF FtlInv, VictimLists, Listed
<1>11. InvalidKnown'
    <2>1. \A e \in Dies, c \in Blocks : InvalidPages(e, c)' = InvalidPages(e, c)
        BY <1>2, <1>4 DEF InvalidPages
    <2>2. QED
        BY <1>2, <1>4, <2>1 DEF FtlInv, InvalidKnown
<1>12. PassedPagesInvalid'
    BY <1>2, <1>4 DEF FtlInv, PassedPagesInvalid
<1>13. CurrentVictimValid'
    BY <1>1, <1>2, <1>3, <1>5 DEF CurrentVictimValid
<1>14. Room'
    <2>1. Len(freeBlocks[d]) = 1 /\ SomePageSaved(0)
        BY <1>1, <1>2 DEF FtlInv, Room, GcRoom
    <2>2. /\ Len(freeBlocks'[d]) = 0
          /\ currentPage'[d][currentBlock'[d]] = 0
        BY <1>2, <1>3, <1>5, <2>1
    <2>3. 0 <= gc'.page /\ gc' = gc /\ targetDie' = d
        BY <1>1, <1>2, SizeFact
    <2>4. SomePageSaved(0)'
        BY <1>2, <1>4, <2>1 DEF SomePageSaved
    <2>5. GcRoom'
        BY <1>1, <1>3, <1>5, <2>2, <2>3, <2>4 DEF GcRoom, SomePageSaved
    <2>6. \A e \in Dies : e # d => Len(freeBlocks'[e]) >= 1
        BY <1>1, <1>3 DEF FtlInv, Room, Allocated
    <2>7. QED
        BY <1>2, <2>3, <2>5, <2>6 DEF Room
<1>15. QED
    BY <1>6, <1>7, <1>8, <1>9, <1>10, <1>11, <1>12, <1>13, <1>14 DEF FtlInv

(* The search of the victim lists finds a list that is not empty. *)
LEMMA MostInvalidFact ==
    ASSUME TypeOK, NEW d \in Dies, HasVictim(d)
    PROVE  MostInvalid(d) \in 1 .. NumPages /\ gcVictimList[d][MostInvalid(d)] # <<>>
<1> DEFINE T == {n \in 1 .. NumPages : gcVictimList[d][n] # <<>>}
<1>1. T \subseteq 1 .. NumPages /\ T # {} /\ NumPages \in Nat
    BY SizeFact DEF HasVictim
<1>2. PICK n \in T : \A k \in T : k <= n
    <2> HIDE DEF T
    <2>1. QED
        BY <1>1, GreatestFact
<1>3. /\ n \in 1 .. NumPages /\ gcVictimList[d][n] # <<>>
      /\ \A k \in n + 1 .. NumPages : gcVictimList[d][k] = <<>>
    <2>1. SUFFICES ASSUME NEW k \in n + 1 .. NumPages, gcVictimList[d][k] # <<>>
                   PROVE  FALSE
        OBVIOUS
    <2>2. k \in T /\ n \in Nat /\ ~ (k <= n)
        BY <1>1, <2>1
    <2>3. QED
        BY <1>2, <2>2
<1>4. QED
    BY <1>3 DEF MostInvalid

LEMMA StartGcStep ==
    ASSUME FtlInv, StartGc
    PROVE  FtlInv'
<1>1. PICK d \in Dies : d = targetDie
    BY DEF FtlInv, TypeOK
<1>2. PICK n \in 1 .. NumPages : n = MostInvalid(d) /\ gcVictimList[d][n] # <<>>
    BY <1>1, MostInvalidFact DEF StartGc, FtlInv
<1>3. /\ gcVictimList \in [Dies -> [0 .. NumPages -> Seq(Blocks)]]
      /\ n \in 0 .. NumPages /\ n > 0 /\ NumPages \in Nat
      /\ gcVictimList[d][n] \in Seq(Blocks) /\ Once(gcVictimList[d][n])
    <2>1. n \in 0 .. NumPages /\ n > 0 /\ NumPages \in Nat
        BY SizeFact
    <2>2. gcVictimList \in [Dies -> [0 .. NumPages -> Seq(Blocks)]]
        BY DEF FtlInv, TypeOK
    <2>3. Once(gcVictimList[d][n])
        BY <2>1 DEF FtlInv, VictimLists
    <2>4. QED
        BY <2>1, <2>2, <2>3
<1>4. PICK m \in Blocks : m = Head(gcVictimList[d][n])
    BY <1>2, <1>3
<1>5. /\ m \in Range(gcVictimList[d][n])
      /\ Tail(gcVictimList[d][n]) \in Seq(Blocks)
      /\ Once(Tail(gcVictimList[d][n]))
      /\ Range(Tail(gcVictimList[d][n])) = Range(gcVictimList[d][n]) \ {m}
    BY <1>2, <1>3, <1>4, OnceTail
<1>6. invalidSliceCnt[d][m] = n
    BY <1>3, <1>5 DEF FtlInv, VictimLists, Listed
<1>7. PICK p \in 0 .. NumPages : p = IF n = NumPages THEN NumPages ELSE 0
    BY <1>3
<1>8. /\ phase = "allocate" /\ Full(d) /\ ~ CanTakeFreeBlock(d)
      /\ gcVictimList' = [gcVictimList EXCEPT ![d] =
                              [gcVictimList[d] EXCEPT ![n] = Tail(gcVictimList[d][n])]]
      /\ gc' = [victim |-> m, page |-> p]
      /\ phase' = "gc"
      /\ UNCHANGED <<sliceVars, currentPage, invalidSliceCnt, freeBlocks,
                     currentBlock, targetDie, pending>>
    BY <1>1, <1>2, <1>4, <1>6, <1>7 DEF StartGc
<1>9. /\ \A e, c : ~ Victim(e, c)
      /\ \A e, c : Victim(e, c)' <=> e = d /\ c = m
      /\ \A w : Valid(w)' <=> Valid(w)
    BY <1>1, <1>8 DEF Victim, Valid, sliceVars
<1>10. /\ gcVictimList' \in [Dies -> [0 .. NumPages -> Seq(Blocks)]]
       /\ gcVictimList'[d][n] = Tail(gcVictimList[d][n])
       /\ \A e \in Dies, k \in 0 .. NumPages :
              e # d \/ k # n => gcVictimList'[e][k] = gcVictimList[e][k]
    BY <1>3, <1>5, <1>8
<1>11. InvalidPages(d, m) \subseteq Pages /\ Cardinality(InvalidPages(d, m)) = n
    BY <1>6, <1>9 DEF FtlInv, InvalidKnown, InvalidPages
<1>12. TypeOK'
    <2>1. gc' \in [victim : Blocks, page : 0 .. NumPages]
        BY <1>8
    <2>2. QED
        BY <1>8, <1>10, <2>1 DEF FtlInv, TypeOK, sliceVars
<1>13. MapsAgree' /\ MappedProgrammed' /\ PendingUnmapped' /\ CurrentBlockKept'
    BY <1>8 DEF FtlInv, MapsAgree, MappedProgrammed, PendingUnmapped,
                CurrentBlockKept, sliceVars
<1>14. FreeLists'
    <2>1. m \notin Range(freeBlocks[d])
        BY <1>3, <1>6, FreeCountFact
    <2>2. QED
        BY <1>8, <1>9, <2>1 DEF FtlInv, FreeLists
<1>15. VictimLists'
    <2>1. SUFFICES ASSUME NEW e \in Dies, NEW k \in 0 .. NumPages
                   PROVE  /\ Once(gcVictimList'[e][k])
                          /\ \A c \in Blocks :
                                 c \in Range(gcVictimList'[e][k]) <=> Listed(e, c, k)'
        BY DEF VictimLists
    <2>2. /\ Once(gcVictimList[e][k])
          /\ \A c \in Blocks :
                 c \in Range(gcVictimList[e][k]) <=> Listed(e, c, k)
        BY DEF FtlInv, VictimLists
    <2>3. \A c \in Blocks : Listed(e, c, k)' <=> Listed(e, c, k) /\ ~ (e = d /\ c = m)
        BY <1>8, <1>9 DEF Listed
    <2>4. CASE e = d /\ k = n
        BY <1>5, <1>10, <2>2, <2>3, <2>4
    <2>5. CASE ~ (e = d /\ k = n)
        <3>1. ~ (e = d /\ Listed(e, m, k))
            BY <1>6, <2>5 DEF Listed
        <3>2. QED
            BY <1>10, <2>2, <2>3, <2>5, <3>1
    <2>6. QED
        BY <2>4, <2>5
<1>16. InvalidKnown'
    <2>1. \A e \in Dies, c \in Blocks : InvalidPages(e, c)' = InvalidPages(e, c)
        BY <1>8, <1>9 DEF InvalidPages
    <2>2. QED
        BY <1>8, <1>9, <2>1 DEF FtlInv, InvalidKnown
<1>17. PassedPagesInvalid'
    <2>1. SUFFICES ASSUME NEW q \in Pages, q < p
                   PROVE  ~ Valid(<<d, m, q>>)
        BY <1>1, <1>8, <1>9 DEF PassedPagesInvalid
    <2>2. n = NumPages
        BY <1>7, <2>1, SizeFact
    <2>3. q \in InvalidPages(d, m)
        BY <1>11, <2>2, InvalidPagesFact
    <2>4. QED
        BY <2>3 DEF InvalidPages
<1>18. CurrentVictimValid'
    <2>1. SUFFICES ASSUME m = currentBlock[d]
                   PROVE  \E q \in Pages : q >= p /\ Valid(<<d, m, q>>)
        BY <1>1, <1>8, <1>9 DEF CurrentVictimValid
    <2>2. n # NumPages
        BY <1>6, <1>8, <2>1
        DEF FtlInv, CurrentBlockKept, CanTakeFreeBlock, ReservedFreeBlockCount
    <2>3. PICK q \in Pages : q \notin InvalidPages(d, m)
        <3>1. InvalidPages(d, m) # Pages
            BY <1>11, <2>2, InvalidPagesFact
        <3>2. QED
            BY <1>11, <3>1
    <2>4. q < currentPage[d][m]
        BY <1>8, <2>1, SizeFact DEF Full
    <2>5. Valid(<<d, m, q>>)
        BY <2>3, <2>4 DEF InvalidPages
    <2>6. q >= p
        BY <1>7, <2>2, SizeFact
    <2>7. QED
        BY <2>5, <2>6
<1>19. Room'
    <2>1. Len(freeBlocks[d]) = 1
        <3>1. Len(freeBlocks[d]) \in Nat
            BY DEF FtlInv, TypeOK
        <3>2. Len(freeBlocks[d]) >= 1 /\ ~ (Len(freeBlocks[d]) > 1)
            BY <1>8 DEF FtlInv, Room, CanTakeFreeBlock, ReservedFreeBlockCount
        <3>3. \A k \in Nat : k >= 1 /\ ~ (k > 1) => k = 1
            OBVIOUS
        <3>4. QED
            BY <3>1, <3>2, <3>3, Zenon
    <2>2. 0 < p \/ \E q \in Pages : q >= p /\ ~ Valid(<<d, m, q>>)
        <3>1. CASE n = NumPages
            BY <1>3, <1>7, <3>1
        <3>2. CASE n # NumPages
            <4>1. InvalidPages(d, m) # {}
                <5>1. SUFFICES ASSUME InvalidPages(d, m) = {} PROVE FALSE
                    OBVIOUS
                <5>2. Cardinality(InvalidPages(d, m)) = 0
                    BY <5>1, FS_EmptySet
                <5>3. QED
                    BY <1>3, <1>11, <5>2
            <4>2. PICK q \in Pages : ~ Valid(<<d, m, q>>)
                BY <4>1 DEF InvalidPages
            <4>3. q >= p
                BY <1>7, <3>2, SizeFact
            <4>4. QED
                BY <4>2, <4>3
        <3>3. QED
            BY <3>1, <3>2
    <2>3. SomePageSaved(0)'
        BY <1>1, <1>8, <1>9, <2>2 DEF SomePageSaved
    <2>4. GcRoom'
        BY <1>1, <1>8, <2>1, <2>3 DEF GcRoom, Full
    <2>5. QED
        BY <1>1, <1>8, <2>4 DEF FtlInv, Room
<1>20. QED
    BY <1>12, <1>13, <1>14, <1>15, <1>16, <1>17, <1>18, <1>19 DEF FtlInv

LEMMA EraseStep ==
    ASSUME FtlInv, EraseBlock
    PROVE  FtlInv'
<1>1. PICK d \in Dies, m \in Blocks : d = targetDie /\ m = gc.victim
    BY DEF FtlInv, TypeOK
<1>2. /\ phase = "gc" /\ gc.page = NumPages
      /\ nand' = [v \in Vsas |-> IF v[1] = d /\ v[2] = m THEN NoData ELSE nand[v]]
      /\ virtualSlice' = [v \in Vsas |-> IF v[1] = d /\ v[2] = m THEN LsaNone
                                         ELSE virtualSlice[v]]
      /\ currentPage' = [currentPage EXCEPT ![d] = [currentPage[d] EXCEPT ![m] = 0]]
      /\ invalidSliceCnt' =
             [invalidSliceCnt EXCEPT ![d] = [invalidSliceCnt[d] EXCEPT ![m] = 0]]
      /\ freeBlocks' = [freeBlocks EXCEPT ![d] = Append(freeBlocks[d], m)]
      /\ gc' = NoGc /\ phase' = "after"
      /\ UNCHANGED <<logicalSlice, gcVictimList, currentBlock, targetDie, pending>>
    BY <1>1 DEF EraseBlock, ResetBlock, PutToFbList, FtlInv, TypeOK
<1>3. /\ logicalSlice \in [Lsas -> Vsas \cup {VsaNone}]
      /\ virtualSlice \in [Vsas -> Lsas \cup {LsaNone}]
      /\ nand \in [Vsas -> Data \cup {NoData}]
      /\ currentPage \in [Dies -> [Blocks -> 0 .. NumPages]]
      /\ invalidSliceCnt \in [Dies -> [Blocks -> 0 .. NumPages]]
      /\ freeBlocks \in [Dies -> Seq(Blocks)]
    BY DEF FtlInv, TypeOK
<1>4. NumPages \in Nat /\ 0 \in 0 .. NumPages /\ 0 \in Blocks
    BY SizeFact DEF Blocks
<1>5. /\ \A e, c : ~ Victim(e, c)'
      /\ \A e, c : Victim(e, c) <=> e = d /\ c = m
    BY <1>1, <1>2 DEF Victim
<1>6. /\ currentPage' \in [Dies -> [Blocks -> 0 .. NumPages]]
      /\ invalidSliceCnt' \in [Dies -> [Blocks -> 0 .. NumPages]]
      /\ currentPage'[d][m] = 0 /\ invalidSliceCnt'[d][m] = 0
      /\ \A e \in Dies, c \in Blocks : e # d \/ c # m =>
             /\ currentPage'[e][c] = currentPage[e][c]
             /\ invalidSliceCnt'[e][c] = invalidSliceCnt[e][c]
    BY <1>2, <1>3, <1>4
<1>7. \A w \in Vsas : w[1] = d /\ w[2] = m => ~ Valid(w)
    <2>1. SUFFICES ASSUME NEW w \in Vsas, w[1] = d, w[2] = m PROVE ~ Valid(w)
        OBVIOUS
    <2>2. w[3] \in Pages /\ w = <<d, m, w[3]>>
        BY <2>1, VsaFact
    <2>3. w[3] < NumPages
        BY <2>2, SizeFact
    <2>4. ~ Valid(<<d, m, w[3]>>)
        BY <1>1, <1>2, <2>2, <2>3 DEF FtlInv, PassedPagesInvalid
    <2>5. QED
        BY <2>2, <2>4
<1>8. \A w \in Vsas : Valid(w)' <=> Valid(w)
    <2>1. SUFFICES ASSUME NEW w \in Vsas PROVE Valid(w)' <=> Valid(w)
        OBVIOUS
    <2>2. CASE w[1] = d /\ w[2] = m
        <3>1. virtualSlice'[w] = LsaNone
            BY <1>2, <2>2
        <3>2. QED
            BY <1>7, <2>2, <3>1 DEF Valid
    <2>3. CASE ~ (w[1] = d /\ w[2] = m)
        <3>1. virtualSlice'[w] = virtualSlice[w]
            BY <1>2, <2>3
        <3>2. QED
            BY <1>2, <3>1 DEF Valid
    <2>4. QED
        BY <2>2, <2>3
<1>9. m # currentBlock[d]
    <2>1. \A p \in Pages : ~ (p >= NumPages)
        BY SizeFact
    <2>2. QED
        BY <1>1, <1>2, <2>1 DEF FtlInv, CurrentVictimValid
<1>10. /\ freeBlocks' \in [Dies -> Seq(Blocks)]
       /\ Once(freeBlocks'[d])
       /\ Range(freeBlocks'[d]) = Range(freeBlocks[d]) \cup {m}
       /\ Len(freeBlocks'[d]) = Len(freeBlocks[d]) + 1
       /\ \A e \in Dies : e # d => freeBlocks'[e] = freeBlocks[e]
    <2>1. m \notin Range(freeBlocks[d]) /\ Once(freeBlocks[d])
        BY <1>5 DEF FtlInv, FreeLists
    <2>2. freeBlocks[d] \in Seq(Blocks)
        BY <1>3
    <2>3. /\ Append(freeBlocks[d], m) \in Seq(Blocks)
          /\ Once(Append(freeBlocks[d], m))
          /\ Range(Append(freeBlocks[d], m)) = Range(freeBlocks[d]) \cup {m}
        BY <2>1, <2>2, OnceAppend
    <2>4. Len(Append(freeBlocks[d], m)) = Len(freeBlocks[d]) + 1
        BY <2>2, AppendProperties
    <2>5. QED
        BY <1>2, <1>3, <2>3, <2>4
<1>11. TypeOK'
    <2>1. /\ nand' \in [Vsas -> Data \cup {NoData}]
          /\ virtualSlice' \in [Vsas -> Lsas \cup {LsaNone}]
        BY <1>2, <1>3
    <2>2. gc' \in [victim : Blocks, page : 0 .. NumPages]
        BY <1>2, <1>4 DEF NoGc
    <2>3. QED
        BY <1>2, <1>6, <1>10, <2>1, <2>2 DEF FtlInv, TypeOK
<1>12. MapsAgree'
    <2>1. SUFFICES ASSUME NEW k \in Lsas, logicalSlice[k] # VsaNone
                   PROVE  virtualSlice'[logicalSlice[k]] = k
        BY <1>2 DEF MapsAgree
    <2>2. PICK w \in Vsas : w = logicalSlice[k] /\ virtualSlice[w] = k
        BY <1>3, <2>1 DEF FtlInv, MapsAgree
    <2>3. Valid(w)
        BY <2>2, FtlNonesAssumption DEF Valid
    <2>4. ~ (w[1] = d /\ w[2] = m)
        BY <1>7, <2>3
    <2>5. QED
        BY <1>2, <2>2, <2>4
<1>13. MappedProgrammed'
    <2>1. SUFFICES ASSUME NEW w \in Vsas, virtualSlice'[w] # LsaNone
                   PROVE  w[3] < currentPage'[w[1]][w[2]]
        BY DEF MappedProgrammed
    <2>2. ~ (w[1] = d /\ w[2] = m) /\ virtualSlice[w] # LsaNone
        BY <1>2, <2>1
    <2>3. w[1] \in Dies /\ w[2] \in Blocks /\ w[3] < currentPage[w[1]][w[2]]
        BY <2>2, VsaFact DEF FtlInv, MappedProgrammed
    <2>4. QED
        BY <1>6, <2>2, <2>3
<1>14. PendingUnmapped' /\ PassedPagesInvalid' /\ CurrentVictimValid'
    BY <1>2 DEF FtlInv, PendingUnmapped, PassedPagesInvalid, CurrentVictimValid
<1>15. FreeLists'
    <2>1. SUFFICES ASSUME NEW e \in Dies
                   PROVE  /\ Once(freeBlocks'[e])
                          /\ \A c \in Range(freeBlocks'[e]) :
                                 /\ currentPage'[e][c] = 0
                                 /\ c # currentBlock[e]
        BY <1>2, <1>5 DEF FreeLists
    <2>2. /\ Once(freeBlocks[e])
          /\ \A c \in Range(freeBlocks[e]) : /\ currentPage[e][c] = 0
                                             /\ c # currentBlock[e]
        BY DEF FtlInv, FreeLists
    <2>3. \A c \in Range(freeBlocks[e]) : c \in Blocks
        <3>1. freeBlocks[e] \in Seq(Blocks)
            BY <1>3
        <3>2. QED
            BY <3>1 DEF Range
    <2>4. CASE e = d
        BY <1>6, <1>9, <1>10, <2>2, <2>3, <2>4
    <2>5. CASE e # d
        <3>1. freeBlocks'[e] = freeBlocks[e]
            BY <1>10, <2>5
        <3>2. \A c \in Blocks : currentPage'[e][c] = currentPage[e][c]
            BY <1>6, <2>5
        <3>3. QED
            BY <2>2, <2>3, <3>1, <3>2
    <2>6. QED
        BY <2>4, <2>5
<1>16. VictimLists'
    <2>1. ASSUME NEW e \in Dies, NEW c \in Blocks, NEW n \in 0 .. NumPages
          PROVE  Listed(e, c, n)' <=> Listed(e, c, n)
        <3>1. CASE e = d /\ c = m
            BY <1>5, <1>6, <3>1 DEF Listed
        <3>2. CASE ~ (e = d /\ c = m)
            BY <1>5, <1>6, <3>2 DEF Listed
        <3>3. QED
            BY <3>1, <3>2
    <2>2. QED
        BY <1>2, <2>1 DEF FtlInv, VictimLists
<1>17. InvalidKnown'
    <2>1. SUFFICES ASSUME NEW e \in Dies, NEW c \in Blocks
                   PROVE  Cardinality(InvalidPages(e, c)') = invalidSliceCnt'[e][c]
        BY DEF InvalidKnown
    <2>2. CASE e = d /\ c = m
        <3>1. \A p \in Pages : ~ (p < currentPage'[e][c])
            BY <1>6, <2>2, SizeFact
        <3>2. InvalidPages(e, c)' = {}
            BY <3>1 DEF InvalidPages
        <3>3. QED
            BY <1>6, <2>2, <3>2, FS_EmptySet
    <2>3. CASE ~ (e = d /\ c = m)
        <3>1. InvalidPages(e, c)' = InvalidPages(e, c)
            BY <1>6, <1>8, <2>3, VsaFact DEF InvalidPages
        <3>2. QED
            BY <1>5, <1>6, <2>3, <3>1 DEF FtlInv, InvalidKnown
    <2>4. QED
        BY <2>2, <2>3
<1>18. \A e \in Dies : /\ Len(freeBlocks[e]) \in Nat
                       /\ Len(freeBlocks'[e]) >= Len(freeBlocks[e])
                       /\ currentBlock[e] \in Blocks
    <2>1. \A e \in Dies : Len(freeBlocks[e]) \in Nat /\ currentBlock[e] \in Blocks
        BY DEF FtlInv, TypeOK
    <2>2. ASSUME NEW e \in Dies PROVE Len(freeBlocks'[e]) >= Len(freeBlocks[e])
        <3>1. CASE e = d
            BY <1>10, <2>1, <3>1
        <3>2. CASE e # d
            BY <1>10, <2>1, <3>2
        <3>3. QED
            BY <3>1, <3>2
    <2>3. QED
        BY <2>1, <2>2
<1>19. CurrentBlockKept'
    <2>1. SUFFICES ASSUME NEW e \in Dies,
                          invalidSliceCnt'[e][currentBlock[e]] = NumPages
                   PROVE  Len(freeBlocks'[e]) > 1
        BY <1>2 DEF CurrentBlockKept
    <2>2. invalidSliceCnt[e][currentBlock[e]] = NumPages
        BY <1>6, <1>9, <1>18, <2>1
    <2>3. Len(freeBlocks[e]) > 1
        BY <2>2 DEF FtlInv, CurrentBlockKept
    <2>4. QED
        BY <1>10, <1>18, <2>3
<1>20. Room'
    <2>1. ASSUME NEW e \in Dies PROVE Len(freeBlocks'[e]) >= 1
        <3>1. CASE e = d
            BY <1>10, <1>18, <3>1
        <3>2. CASE e # d
            BY <1>1, <1>10, <3>2 DEF FtlInv, Room
        <3>3. QED
            BY <3>1, <3>2
    <2>2. ASSUME Full(d)' PROVE Len(freeBlocks'[d]) >= 2
        <3>1. currentPage[d][currentBlock[d]] = NumPages
            BY <1>2, <1>6, <1>9, <1>18, <2>2 DEF Full
        <3>2. ~ SomePageSaved(NumPages)
            <4>1. \A p \in Pages : ~ (p >= NumPages)
                BY SizeFact
            <4>2. ~ (NumPages < NumPages)
                BY <1>4
            <4>3. QED
                BY <1>2, <4>1, <4>2 DEF SomePageSaved
        <3>3. Len(freeBlocks[d]) = 1
            BY <1>1, <1>2, <3>1, <3>2 DEF FtlInv, Room, GcRoom
        <3>4. QED
            BY <1>10, <3>3
    <2>3. QED
        BY <1>1, <1>2, <2>1, <2>2 DEF Room, Full
<1>21. QED
    BY <1>11, <1>12, <1>13, <1>14, <1>15, <1>16, <1>17, <1>19, <1>20 DEF FtlInv

(* The invalid pages of a block never include the place of a slice that is *)
(* overwritten: the count has room for it, and the page is new to the set. *)
LEMMA BeginStep ==
    ASSUME FtlInv, ~ HotBlocks, NEW l \in Lsas, NEW x \in Data, BeginWrite(l, x)
    PROVE  FtlInv'
<1>1. /\ logicalSlice \in [Lsas -> Vsas \cup {VsaNone}]
      /\ virtualSlice \in [Vsas -> Lsas \cup {LsaNone}]
      /\ nand \in [Vsas -> Data \cup {NoData}]
      /\ currentPage \in [Dies -> [Blocks -> 0 .. NumPages]]
      /\ invalidSliceCnt \in [Dies -> [Blocks -> 0 .. NumPages]]
      /\ gcVictimList \in [Dies -> [0 .. NumPages -> Seq(Blocks)]]
      /\ targetDie \in Dies
    BY DEF FtlInv, TypeOK
<1>2. /\ phase = "idle" /\ phase' = "allocate"
      /\ pending' = [lsa |-> l, data |-> x, old |-> Contents(l)]
      /\ KeepsCurrentBlock(l)
      /\ UNCHANGED <<virtualSlice, nand, currentPage, freeBlocks, currentBlock,
                     targetDie, gc>>
    BY DEF BeginWrite
<1>3. /\ \A e, c : ~ Victim(e, c)
      /\ \A e, c : ~ Victim(e, c)'
    BY <1>2 DEF Victim
<1>4. /\ pending' \in [lsa : Lsas, data : Data, old : Data \cup {NoData}]
      /\ pending'.lsa = l
    <2>1. Contents(l) \in Data \cup {NoData}
        BY <1>1 DEF Contents
    <2>2. QED
        BY <1>2, <2>1
<1>5. PassedPagesInvalid' /\ CurrentVictimValid'
    BY <1>2 DEF PassedPagesInvalid, CurrentVictimValid
<1>6. MappedProgrammed'
    BY <1>2 DEF FtlInv, MappedProgrammed
<1>7. FreeLists'
    BY <1>2, <1>3 DEF FtlInv, FreeLists
<1>8. Room'
    BY <1>2 DEF FtlInv, Room
<1>9. CASE logicalSlice[l] = VsaNone
    <2>1. UNCHANGED <<logicalSlice, invalidSliceCnt, gcVictimList>>
        BY <1>9 DEF BeginWrite
    <2>2. TypeOK'
        BY <1>2, <1>4, <2>1 DEF FtlInv, TypeOK
    <2>3. MapsAgree' /\ PendingUnmapped' /\ CurrentBlockKept'
        BY <1>2, <1>4, <1>9, <2>1
        DEF FtlInv, MapsAgree, PendingUnmapped, CurrentBlockKept
    <2>4. VictimLists'
        BY <1>3, <2>1 DEF FtlInv, VictimLists, Listed
    <2>5. InvalidKnown'
        <3>1. \A e \in Dies, c \in Blocks : InvalidPages(e, c)' = InvalidPages(e, c)
            BY <1>2, <2>1 DEF InvalidPages, Valid
        <3>2. QED
            BY <1>3, <2>1, <3>1 DEF FtlInv, InvalidKnown
    <2>6. QED
        BY <1>5, <1>6, <1>7, <1>8, <2>2, <2>3, <2>4, <2>5 DEF FtlInv
<1>10. CASE logicalSlice[l] # VsaNone
    <2>1. PICK v \in Vsas : v = logicalSlice[l] /\ virtualSlice[v] = l
        BY <1>1, <1>10 DEF FtlInv, MapsAgree
    <2>2. PICK d \in Dies, b \in Blocks, p \in Pages :
              d = v[1] /\ b = v[2] /\ p = v[3] /\ v = <<d, b, p>>
        BY VsaFact
    <2>3. Valid(v) /\ p < currentPage[d][b]
        BY <2>1, <2>2, FtlNonesAssumption DEF FtlInv, MappedProgrammed, Valid
    <2>4. PICK n \in 0 .. NumPages : n = invalidSliceCnt[d][b]
        BY <1>1
    <2>5. /\ InvalidPages(d, b) \subseteq Pages
          /\ Cardinality(InvalidPages(d, b)) = n
          /\ p \in Pages \ InvalidPages(d, b)
        BY <1>3, <2>2, <2>3, <2>4 DEF FtlInv, InvalidKnown, InvalidPages
    <2>6. /\ n < NumPages
          /\ Cardinality(InvalidPages(d, b) \cup {p}) = n + 1
        BY <2>5, InvalidPagesFact
    <2>7. n \in Nat /\ n + 1 \in 0 .. NumPages /\ n + 1 # n /\ NumPages \in Nat
        BY <2>6, SizeFact
    <2> DEFINE left == Unlink(gcVictimList[d][n], b)
               joined == Append(gcVictimList[d][n + 1], b)
    <2>8. /\ logicalSlice' = [logicalSlice EXCEPT ![l] = VsaNone]
          /\ invalidSliceCnt' =
                 [invalidSliceCnt EXCEPT ![d] = [invalidSliceCnt[d] EXCEPT ![b] = n + 1]]
          /\ gcVictimList' = [gcVictimList EXCEPT ![d][n] = Unlink(@, b),
                                                 ![d][n + 1] = Append(@, b)]
        <3>1. /\ logicalSlice' = [logicalSlice EXCEPT ![l] = VsaNone]
              /\ CountInvalid(v)
            BY <2>1, VsaFact DEF BeginWrite
        <3>2. v[1] = d /\ v[2] = b
            BY <2>2
        <3>3. invalidSliceCnt' =
                  [invalidSliceCnt EXCEPT ![d] = [invalidSliceCnt[d] EXCEPT ![b] = n + 1]]
            BY <1>1, <2>4, <3>1, <3>2 DEF CountInvalid
        <3>4. gcVictimList' = [gcVictimList EXCEPT ![d][n] = Unlink(@, b),
                                                   ![d][n + 1] = Append(@, b)]
            BY <2>4, <3>1, <3>2 DEF CountInvalid
        <3>5. QED
            BY <3>1, <3>3, <3>4
    <2>9. /\ gcVictimList[d][n] \in Seq(Blocks) /\ gcVictimList[d][n + 1] \in Seq(Blocks)
          /\ Once(gcVictimList[d][n]) /\ Once(gcVictimList[d][n + 1])
          /\ b \notin Range(gcVictimList[d][n + 1])
        <3>1. gcVictimList[d][n] \in Seq(Blocks) /\ gcVictimList[d][n + 1] \in Seq(Blocks)
            BY <1>1, <2>7
        <3>2. Once(gcVictimList[d][n]) /\ Once(gcVictimList[d][n + 1])
            BY <2>7 DEF FtlInv, VictimLists
        <3>3. ~ Listed(d, b, n + 1)
            BY <2>4, <2>7 DEF Listed
        <3>4. b \notin Range(gcVictimList[d][n + 1])
            BY <2>7, <3>3 DEF FtlInv, VictimLists
        <3>5. QED
            BY <3>1, <3>2, <3>4
    <2>10. left \in Seq(Blocks) /\ Once(left) /\ Range(left) = Range(gcVictimList[d][n]) \ {b}
        BY <2>9, UnlinkFact
    <2>11. /\ joined \in Seq(Blocks) /\ Once(joined)
           /\ Range(joined) = Range(gcVictimList[d][n + 1]) \cup {b}
        BY <2>9, OnceAppend
    <2>12. /\ gcVictimList' \in [Dies -> [0 .. NumPages -> Seq(Blocks)]]
           /\ gcVictimList'[d][n] = left
           /\ gcVictimList'[d][n + 1] = joined
           /\ \A e \in Dies, k \in 0 .. NumPages : e # d \/ (k # n /\ k # n + 1)
                  => gcVictimList'[e][k] = gcVictimList[e][k]
        BY <1>1, <2>7, <2>8, <2>10, <2>11
    <2> HIDE DEF left, joined
    <2>13. /\ invalidSliceCnt' \in [Dies -> [Blocks -> 0 .. NumPages]]
           /\ invalidSliceCnt'[d][b] = n + 1
           /\ \A e \in Dies, c \in Blocks : e # d \/ c # b
                  => invalidSliceCnt'[e][c] = invalidSliceCnt[e][c]
        BY <1>1, <2>7, <2>8
    <2>14. /\ logicalSlice' \in [Lsas -> Vsas \cup {VsaNone}]
           /\ logicalSlice'[l] = VsaNone
           /\ \A k \in Lsas : k # l => logicalSlice'[k] = logicalSlice[k]
        BY <1>1, <2>8
    <2>15. TypeOK'
        BY <1>2, <1>4, <2>12, <2>13, <2>14 DEF FtlInv, TypeOK
    <2>16. MapsAgree'
        BY <1>2, <2>14 DEF FtlInv, MapsAgree
    <2>17. PendingUnmapped'
        BY <1>2, <1>4, <2>14 DEF PendingUnmapped
    <2>18. VictimLists'
        <3>1. SUFFICES ASSUME NEW e \in Dies, NEW k \in 0 .. NumPages
                       PROVE  /\ Once(gcVictimList'[e][k])
                              /\ \A c \in Blocks :
                                     c \in Range(gcVictimList'[e][k]) <=> Listed(e, c, k)'
            BY DEF VictimLists
        <3>2. /\ Once(gcVictimList[e][k])
              /\ \A c \in Blocks :
                     c \in Range(gcVictimList[e][k]) <=> Listed(e, c, k)
            BY DEF FtlInv, VictimLists
        <3>3. \A c \in Blocks : e # d \/ c # b => (Listed(e, c, k)' <=> Listed(e, c, k))
            BY <1>3, <2>13 DEF Listed
        <3>4. /\ Listed(d, b, k)' <=> k = n + 1
              /\ Listed(d, b, k) => k = n
            BY <1>3, <2>4, <2>7, <2>13 DEF Listed
        <3>5. CASE e = d /\ k = n
            BY <2>7, <2>10, <2>12, <3>2, <3>3, <3>4, <3>5
        <3>6. CASE e = d /\ k = n + 1
            BY <2>7, <2>11, <2>12, <3>2, <3>3, <3>4, <3>6
        <3>7. CASE e # d \/ (k # n /\ k # n + 1)
            <4>1. \A c \in Blocks : Listed(e, c, k)' <=> Listed(e, c, k)
                BY <3>3, <3>4, <3>7
            <4>2. QED
                BY <2>12, <3>2, <3>7, <4>1
        <3>8. QED
            BY <3>5, <3>6, <3>7
    <2>19. \A w \in Vsas : Valid(w)' <=> Valid(w) /\ w # v
        <3>1. SUFFICES ASSUME NEW w \in Vsas PROVE Valid(w)' <=> Valid(w) /\ w # v
            OBVIOUS
        <3>2. virtualSlice'[w] = virtualSlice[w]
            BY <1>2
        <3>3. CASE virtualSlice[w] = LsaNone
            BY <3>2, <3>3 DEF Valid
        <3>4. CASE virtualSlice[w] = l
            BY <2>1, <2>14, <3>2, <3>4, VsaFact DEF Valid
        <3>5. CASE virtualSlice[w] \in Lsas \ {l}
            BY <2>1, <2>14, <3>2, <3>5 DEF Valid
        <3>6. QED
            BY <1>1, <3>3, <3>4, <3>5
    <2>20. InvalidKnown'
        <3>1. SUFFICES ASSUME NEW e \in Dies, NEW c \in Blocks
                       PROVE  Cardinality(InvalidPages(e, c)') = invalidSliceCnt'[e][c]
            BY DEF InvalidKnown
        <3>2. CASE e = d /\ c = b
            <4>1. ASSUME NEW q \in Pages
                  PROVE  q \in InvalidPages(e, c)' <=> q \in InvalidPages(d, b) \cup {p}
                <5>1. /\ <<d, b, q>> \in Vsas
                      /\ <<d, b, q>> = v <=> q = p
                    BY <2>2, VsaFact
                <5>2. QED
                    BY <1>2, <2>3, <2>19, <3>2, <5>1 DEF InvalidPages
            <4>2. InvalidPages(e, c)' = InvalidPages(d, b) \cup {p}
                <5>1. InvalidPages(e, c)' \subseteq Pages
                    BY DEF InvalidPages
                <5>2. QED
                    BY <2>5, <4>1, <5>1
            <4>3. QED
                BY <2>6, <2>13, <3>2, <4>2
        <3>3. CASE ~ (e = d /\ c = b)
            <4>1. \A q \in Pages : <<e, c, q>> \in Vsas /\ <<e, c, q>> # v
                BY <2>2, <3>3, VsaFact
            <4>2. InvalidPages(e, c)' = InvalidPages(e, c)
                BY <1>2, <2>19, <4>1 DEF InvalidPages
            <4>3. QED
                BY <1>3, <2>13, <3>3, <4>2 DEF FtlInv, InvalidKnown
        <3>4. QED
            BY <3>2, <3>3
    <2>21. CurrentBlockKept'
        <3>1. SUFFICES ASSUME NEW e \in Dies,
                              invalidSliceCnt'[e][currentBlock[e]] = NumPages
                       PROVE  Len(freeBlocks[e]) > 1
            BY <1>2 DEF CurrentBlockKept
        <3>2. currentBlock[e] \in Blocks
            BY DEF FtlInv, TypeOK
        <3>3. CASE e = d /\ currentBlock[e] = b
            <4>1. ~ (n + 1 < NumPages)
                BY <2>7, <2>13, <3>1, <3>3
            <4>2. QED
                BY <1>2, <2>1, <2>2, <2>4, <3>3, <4>1, VsaFact
                DEF KeepsCurrentBlock, ReservedFreeBlockCount
        <3>4. CASE ~ (e = d /\ currentBlock[e] = b)
            BY <2>13, <3>1, <3>2, <3>4 DEF FtlInv, CurrentBlockKept
        <3>5. QED
            BY <3>3, <3>4
    <2>22. QED
        BY <1>5, <1>6, <1>7, <1>8, <2>15, <2>16, <2>17, <2>18, <2>20, <2>21 DEF FtlInv
<1>11. QED
    BY <1>9, <1>10

LEMMA InitFact == Init => FtlInv
<1> SUFFICES ASSUME Init PROVE FtlInv
    OBVIOUS
<1>1. /\ phase = "idle" /\ targetDie = 0 /\ pending = NoWrite /\ gc = NoGc
      /\ logicalSlice = [l \in Lsas |-> VsaNone]
      /\ virtualSlice = [v \in Vsas |-> LsaNone]
      /\ nand = [v \in Vsas |-> NoData]
      /\ currentPage = [d \in Dies |-> [b \in Blocks |-> 0]]
      /\ invalidSliceCnt = [d \in Dies |-> [b \in Blocks |-> 0]]
      /\ freeBlocks = [d \in Dies |-> [k \in 1 .. NumBlocks - 1 |-> k]]
      /\ gcVictimList = [d \in Dies |-> [n \in 0 .. NumPages |-> <<>>]]
      /\ currentBlock = [d \in Dies |-> 0]
    BY DEF Init
<1>2. /\ NumPages \in Nat /\ 0 \in 0 .. NumPages /\ 0 \in Blocks /\ 0 \in Dies
      /\ NumBlocks - 1 \in Nat /\ NumBlocks - 1 >= 1
      /\ \A k \in 1 .. NumBlocks - 1 : k \in Blocks /\ k # 0
      /\ NumPages # 0
    BY SizeFact DEF Blocks, Dies
<1> DEFINE all == [k \in 1 .. NumBlocks - 1 |-> k]
<1>3. all \in Seq(Blocks) /\ Len(all) = NumBlocks - 1 /\ DOMAIN all = 1 .. NumBlocks - 1
    <2>1. all \in [1 .. NumBlocks - 1 -> Blocks]
        BY <1>2
    <2>2. all \in Seq(Blocks)
        BY <1>2, <2>1, SeqDef
    <2>3. QED
        BY <1>2, <2>2, LenProperties
<1>4. Once(all) /\ \A b \in Range(all) : b \in Blocks /\ b # 0
    BY <1>2 DEF Once, Range
<1>5. \A d \in Dies : freeBlocks[d] = all
    BY <1>1
<1> HIDE DEF all
<1>6. <<>> \in Seq(Blocks) /\ Once(<<>>) /\ Range(<<>>) = {}
    BY DEF Once, Range
<1>7. \A d, b : ~ Victim(d, b)
    BY <1>1 DEF Victim
<1>8. TypeOK
    <2>1. freeBlocks \in [Dies -> Seq(Blocks)]
        BY <1>1, <1>3 DEF all
    <2>2. gc \in [victim : Blocks, page : 0 .. NumPages]
        BY <1>1, <1>2 DEF NoGc
    <2>3. gcVictimList \in [Dies -> [0 .. NumPages -> Seq(Blocks)]]
        BY <1>1, <1>6
    <2>4. QED
        BY <1>1, <1>2, <2>1, <2>2, <2>3 DEF TypeOK
<1>9. MapsAgree /\ MappedProgrammed
    BY <1>1 DEF MapsAgree, MappedProgrammed
<1>10. PendingUnmapped /\ PassedPagesInvalid /\ CurrentVictimValid
    BY <1>1 DEF PendingUnmapped, PassedPagesInvalid, CurrentVictimValid
<1>11. FreeLists
    <2>1. SUFFICES ASSUME NEW d \in Dies
                   PROVE  /\ Once(all)
                          /\ \A b \in Range(all) : /\ currentPage[d][b] = 0
                                                   /\ b # currentBlock[d]
        BY <1>5, <1>7 DEF FreeLists
    <2>2. QED
        BY <1>1, <1>4
<1>12. VictimLists
    <2>1. \A d \in Dies, n \in 0 .. NumPages : gcVictimList[d][n] = <<>>
        BY <1>1
    <2>2. \A d \in Dies, b \in Blocks, n \in 0 .. NumPages : ~ Listed(d, b, n)
        BY <1>1 DEF Listed
    <2>3. QED
        BY <1>6, <2>1, <2>2 DEF VictimLists
<1>13. InvalidKnown
    <2>1. SUFFICES ASSUME NEW d \in Dies, NEW b \in Blocks
                   PROVE  Cardinality(InvalidPages(d, b)) = invalidSliceCnt[d][b]
        BY DEF InvalidKnown
    <2>2. currentPage[d][b] = 0 /\ invalidSliceCnt[d][b] = 0
        BY <1>1
    <2>3. \A p \in Pages : ~ (p < currentPage[d][b])
        BY <2>2, SizeFact
    <2>4. InvalidPages(d, b) = {}
        BY <2>3 DEF InvalidPages
    <2>5. QED
        BY <2>2, <2>4, FS_EmptySet
<1>14. CurrentBlockKept
    BY <1>1, <1>2 DEF CurrentBlockKept
<1>15. Room
    BY <1>1, <1>2, <1>3, <1>5 DEF Room
<1>16. QED
    BY <1>8, <1>9, <1>10, <1>11, <1>12, <1>13, <1>14, <1>15 DEF FtlInv

LEMMA FtlStep ==
    ASSUME ~ HotBlocks, FtlInv, [Next]_vars
    PROVE  FtlInv'
<1>1. targetDie \in Dies
    BY DEF FtlInv, TypeOK
<1>2. ASSUME NEW l \in Lsas, NEW x \in Data, BeginWrite(l, x) PROVE FtlInv'
    BY <1>2, BeginStep
<1>3. CASE UseCurrentBlock
    <2>1. /\ phase \in {"allocate", "after"} /\ HasRoom(targetDie)
          /\ Program(pending.lsa, pending.data, targetDie, currentBlock[targetDie])
          /\ EndWrite
          /\ UNCHANGED <<freeBlocks, currentBlock>>
        BY <1>3 DEF UseCurrentBlock
    <2>2. ~ Victim(targetDie, currentBlock[targetDie])
        BY <2>1 DEF Victim
    <2>3. Allocated(targetDie, currentBlock[targetDie])
        BY <1>1, <2>1, <2>2, StayFact
    <2>4. currentBlock[targetDie] \in Blocks
        BY <1>1 DEF FtlInv, TypeOK
    <2>5. Len(freeBlocks'[targetDie]) >= 1
        BY <1>1, <2>1 DEF FtlInv, Room
    <2>6. QED
        BY <2>1, <2>3, <2>4, <2>5, UseStep
<1>4. CASE UseFreeBlock
    <2>1. /\ phase \in {"allocate", "after"} /\ CanTakeFreeBlock(targetDie)
          /\ TakeFreeBlock(targetDie)
          /\ Program(pending.lsa, pending.data, targetDie, Head(freeBlocks[targetDie]))
          /\ EndWrite
        BY <1>4 DEF UseFreeBlock
    <2>2. freeBlocks[targetDie] \in Seq(Blocks) /\ Len(freeBlocks[targetDie]) > 1
        BY <1>1, <2>1 DEF FtlInv, TypeOK, CanTakeFreeBlock, ReservedFreeBlockCount
    <2>3. freeBlocks[targetDie] # <<>>
        BY <2>2
    <2>4. /\ Head(freeBlocks[targetDie]) \in Blocks
          /\ Len(freeBlocks'[targetDie]) = Len(freeBlocks[targetDie]) - 1
          /\ Allocated(targetDie, Head(freeBlocks[targetDie]))
        BY <1>1, <2>1, <2>3, TakeFact
    <2>5. Len(freeBlocks'[targetDie]) >= 1
        BY <2>2, <2>4
    <2>6. QED
        BY <2>1, <2>4, <2>5, UseStep
<1>5. CASE StartGc
    BY <1>5, StartGcStep
<1>6. CASE SkipPage
    BY <1>6, SkipStep
<1>7. CASE LeaveVictim
    BY <1>7, LeaveStep
<1>8. CASE CopyToCurrentBlock
    <2>1. /\ HasRoom(targetDie) /\ CopyTo(currentBlock[targetDie])
          /\ UNCHANGED <<freeBlocks, currentBlock>>
        BY <1>8 DEF CopyToCurrentBlock
    <2>2. ~ Victim(targetDie, currentBlock[targetDie])
        BY <2>1 DEF Victim, CopyTo
    <2>3. Allocated(targetDie, currentBlock[targetDie])
        BY <1>1, <2>1, <2>2, StayFact
    <2>4. currentBlock[targetDie] \in Blocks
        BY <1>1 DEF FtlInv, TypeOK
    <2>5. QED
        BY <2>1, <2>3, <2>4, CopyStep
<1>9. CASE CopyToFreeBlock
    <2>1. /\ Full(targetDie) /\ freeBlocks[targetDie] # <<>>
          /\ TakeFreeBlock(targetDie) /\ CopyTo(Head(freeBlocks[targetDie]))
        BY <1>9 DEF CopyToFreeBlock
    <2>2. /\ Head(freeBlocks[targetDie]) \in Blocks
          /\ currentPage[targetDie][Head(freeBlocks[targetDie])] = 0
          /\ Len(freeBlocks'[targetDie]) = Len(freeBlocks[targetDie]) - 1
          /\ Allocated(targetDie, Head(freeBlocks[targetDie]))
        BY <1>1, <2>1, TakeFact
    <2>3. QED
        BY <2>1, <2>2, CopyStep
<1>10. CASE EraseBlock
    BY <1>10, EraseStep
<1>11. CASE UNCHANGED vars
    <2>1. /\ \A e, c : Victim(e, c)' <=> Victim(e, c)
          /\ \A w : Valid(w)' <=> Valid(w)
        BY <1>11 DEF vars, sliceVars, blockVars, Victim, Valid
    <2>2. TypeOK'
        BY <1>11 DEF FtlInv, TypeOK, vars, sliceVars, blockVars
    <2>3. MapsAgree' /\ MappedProgrammed' /\ PendingUnmapped' /\ CurrentBlockKept'
        BY <1>11 DEF FtlInv, MapsAgree, MappedProgrammed, PendingUnmapped,
                     CurrentBlockKept, vars, sliceVars, blockVars
    <2>4. FreeLists' /\ VictimLists'
        BY <1>11, <2>1 DEF FtlInv, FreeLists, VictimLists, Listed,
                           vars, sliceVars, blockVars
    <2>5. InvalidKnown'
        <3>1. \A e \in Dies, c \in Blocks : InvalidPages(e, c)' = InvalidPages(e, c)
            BY <1>11, <2>1 DEF InvalidPages, vars, blockVars
        <3>2. QED
            BY <1>11, <2>1, <3>1 DEF FtlInv, InvalidKnown, vars, blockVars
    <2>6. PassedPagesInvalid' /\ CurrentVictimValid'
        BY <1>11, <2>1 DEF FtlInv, PassedPagesInvalid, CurrentVictimValid,
                           vars, blockVars
    <2>7. Room'
        BY <1>11, <2>1 DEF FtlInv, Room, GcRoom, SomePageSaved, Full, vars, blockVars
    <2>8. QED
        BY <2>2, <2>3, <2>4, <2>5, <2>6, <2>7 DEF FtlInv
<1>12. QED
    BY <1>2, <1>3, <1>4, <1>5, <1>6, <1>7, <1>8, <1>9, <1>10, <1>11 DEF Next
-----------------------------------------------------------------------------
(* What the runs check, for every geometry *)

(* The maps, the free lists and the victim lists agree in every state, the *)
(* ones in the middle of a write or a collection included.                 *)
THEOREM FtlInvariant ==
    ASSUME ~ HotBlocks
    PROVE  Spec => []FtlInv
<1>1. FtlInv /\ [Next]_vars => FtlInv'
    BY FtlStep
<1>2. QED
    BY <1>1, InitFact, PTL DEF Spec

(* The maps, lists and counters of the translation layer keep their types, *)
(* and no counter of a block exceeds its pages (address_translation.c).    *)
THEOREM FtlTypeCorrect ==
    ASSUME ~ HotBlocks
    PROVE  Spec => []TypeOK
<1>1. FtlInv => TypeOK
    BY DEF FtlInv
<1>2. QED
    BY <1>1, FtlInvariant, PTL

(* The warning of address_translation.c:690 is never printed for a host    *)
(* that overwrites no whole current block.                                 *)
THEOREM CurrentPageManagedCorrect ==
    ASSUME ~ HotBlocks
    PROVE  Spec => []CurrentPageManaged
<1>1. FtlInv => CurrentPageManaged
    <2>1. \A k \in 0 .. NumPages : k <= NumPages
        BY SizeFact
    <2>2. QED
        BY <2>1 DEF FtlInv, TypeOK, CurrentPageManaged
<1>2. QED
    BY <1>1, FtlInvariant, PTL

(* A block on a free list is erased, listed once and not current           *)
(* (PutToFbList, GetFromFbList).                                           *)
THEOREM FreeBlocksErasedCorrect ==
    ASSUME ~ HotBlocks
    PROVE  Spec => []FreeBlocksErased
<1>1. FtlInv => FreeBlocksErased
    BY DEF FtlInv, FreeLists, FreeBlocksErased, Once, IsFree, Range
<1>2. QED
    BY <1>1, FtlInvariant, PTL

(* A block is on the victim list of its invalid slices, once, and on no    *)
(* other (PutToGcVictimList, SelectiveGetFromGcVictimList).                *)
THEOREM VictimsListedCorrect ==
    ASSUME ~ HotBlocks
    PROVE  Spec => []VictimsListed
<1>1. FtlInv => VictimsListed
    <2>1. SUFFICES ASSUME FtlInv, NEW d \in Dies, NEW b \in Blocks,
                          NEW n \in 0 .. NumPages
                   PROVE  LET places == {k \in DOMAIN gcVictimList[d][n] :
                                             gcVictimList[d][n][k] = b}
                          IN  IF n = invalidSliceCnt[d][b] /\ n > 0 /\ ~ Victim(d, b)
                              THEN \E k \in places : places = {k}
                              ELSE places = {}
        BY DEF VictimsListed
    <2> DEFINE list == gcVictimList[d][n]
               places == {k \in DOMAIN list : list[k] = b}
    <2>2. Once(list) /\ (b \in Range(list) <=> Listed(d, b, n))
        BY <2>1 DEF FtlInv, VictimLists
    <2>3. CASE Listed(d, b, n)
        <3>1. PICK k \in DOMAIN list : list[k] = b
            BY <2>2, <2>3 DEF Range
        <3>2. \A j \in DOMAIN list : list[j] = b => j = k
            BY <2>2, <3>1 DEF Once
        <3>3. k \in places /\ places = {k}
            BY <3>1, <3>2
        <3>4. QED
            BY <2>3, <3>3 DEF Listed
    <2>4. CASE ~ Listed(d, b, n)
        <3>1. \A k \in DOMAIN list : list[k] # b
            BY <2>2, <2>4 DEF Range
        <3>2. places = {}
            BY <3>1
        <3>3. QED
            BY <2>4, <3>2 DEF Listed
    <2>5. QED
        BY <2>3, <2>4
<1>2. QED
    BY <1>1, FtlInvariant, PTL

(* invalidSliceCnt counts the programmed pages of a block that hold no     *)
(* slice's contents (InvalidateOldVsa, EraseBlock).                        *)
THEOREM InvalidCountedCorrect ==
    ASSUME ~ HotBlocks
    PROVE  Spec => []InvalidCounted
<1>1. FtlInv => InvalidCounted
    BY DEF FtlInv, InvalidKnown, InvalidPages, InvalidCounted
<1>2. QED
    BY <1>1, FtlInvariant, PTL

(* One reserved block is enough: collection finds room for what it moves,  *)
(* and leaves room for the write that started it.                          *)
THEOREM GcFindsRoomCorrect ==
    ASSUME ~ HotBlocks
    PROVE  Spec => []GcFindsRoom
<1>1. FtlInv => GcFindsRoom
    <2>1. SUFFICES ASSUME FtlInv PROVE GcFindsRoom
        OBVIOUS
    <2>2. PICK d \in Dies, k \in 0 .. NumPages :
              d = targetDie /\ k = gc.page
        BY <2>1 DEF FtlInv, TypeOK
    <2>3. freeBlocks[d] \in Seq(Blocks) /\ Len(freeBlocks[d]) \in Nat
        BY <2>1 DEF FtlInv, TypeOK
    <2>4. ASSUME phase = "after", Full(d)
          PROVE  CanTakeFreeBlock(d)
        <3>1. Len(freeBlocks[d]) >= 2
            BY <2>1, <2>2, <2>4 DEF FtlInv, Room
        <3>2. QED
            BY <2>3, <3>1 DEF CanTakeFreeBlock, ReservedFreeBlockCount
    <2>5. ASSUME phase = "gc", Full(d) \/ gc.victim = currentBlock[d],
                 freeBlocks[d] = <<>>
          PROVE  \A p \in k .. NumPages - 1 : ~ Valid(<<d, gc.victim, p>>)
        <3>1. Len(freeBlocks[d]) # 1
            BY <2>5
        <3>2. currentBlock[d] # gc.victim /\ currentPage[d][currentBlock[d]] <= k
            BY <2>1, <2>2, <2>5, <3>1 DEF FtlInv, Room, GcRoom
        <3>3. NumPages <= k
            BY <2>5, <3>2 DEF Full
        <3>4. QED
            BY <3>3, SizeFact
    <2>6. QED
        BY <2>2, <2>4, <2>5 DEF GcFindsRoom
<1>2. QED
    BY <1>1, FtlInvariant, PTL
-----------------------------------------------------------------------------
(* The translation layer implements SliceStore *)

LEMMA ProgramContents ==
    ASSUME FtlInv, NEW l \in Lsas, NEW x \in Data \cup {NoData},
           NEW d \in Dies, NEW b \in Blocks, Allocated(d, b), Program(l, x, d, b)
    PROVE  /\ Contents(l)' = x
           /\ \A k \in Lsas : k # l => Contents(k)' = Contents(k)
<1>1. PICK p \in Pages : p = currentPage[d][b]
    <2>1. currentPage[d][b] \in 0 .. NumPages /\ currentPage[d][b] < NumPages
        BY DEF FtlInv, TypeOK, Allocated
    <2>2. QED
        BY <2>1, SizeFact
<1>2. PICK v \in Vsas : v = <<d, b, p>> /\ v[1] = d /\ v[2] = b /\ v[3] = p
    <2>1. <<d, b, p>> \in Vsas
        BY VsaFact
    <2>2. <<d, b, p>>[1] = d /\ <<d, b, p>>[2] = b /\ <<d, b, p>>[3] = p
        OBVIOUS
    <2>3. QED
        BY <2>1, <2>2, Zenon
<1>3. /\ logicalSlice \in [Lsas -> Vsas \cup {VsaNone}]
      /\ nand \in [Vsas -> Data \cup {NoData}]
      /\ VsaNone \notin Vsas
    BY VsaFact DEF FtlInv, TypeOK
<1>4. /\ nand' = [nand EXCEPT ![v] = x]
      /\ logicalSlice' = [logicalSlice EXCEPT ![l] = v]
    BY <1>1, <1>2 DEF Program
<1>5. virtualSlice[v] = LsaNone
    BY <1>1, <1>2, SizeFact DEF FtlInv, MappedProgrammed
<1>6. Contents(l)' = x
    BY <1>3, <1>4 DEF Contents
<1>7. ASSUME NEW k \in Lsas, k # l PROVE Contents(k)' = Contents(k)
    <2>1. logicalSlice'[k] = logicalSlice[k]
        BY <1>3, <1>4, <1>7
    <2>2. CASE logicalSlice[k] = VsaNone
        BY <2>1, <2>2 DEF Contents
    <2>3. CASE logicalSlice[k] # VsaNone
        <3>1. logicalSlice[k] \in Vsas /\ virtualSlice[logicalSlice[k]] = k
            BY <1>3, <2>3 DEF FtlInv, MapsAgree
        <3>2. logicalSlice[k] # v
            BY <1>5, <3>1, FtlNonesAssumption
        <3>3. nand'[logicalSlice[k]] = nand[logicalSlice[k]]
            BY <1>3, <1>4, <3>1, <3>2
        <3>4. QED
            BY <2>1, <3>3 DEF Contents
    <2>4. QED
        BY <2>2, <2>3
<1>8. QED
    BY <1>6, <1>7

(* A step of garbage collection that changes no slice's contents stutters. *)
LEMMA StutterStep ==
    ASSUME phase # "idle", phase' # "idle", pending' = pending,
           \A k \in Lsas : Contents(k)' = Contents(k)
    PROVE  UNCHANGED <<SliceContents, ServedRequest>>
BY DEF SliceContents, ServedRequest

LEMMA AcceptStep ==
    ASSUME FtlInv, NEW l \in Lsas, NEW x \in Data, BeginWrite(l, x)
    PROVE  Store!Accept(l, x)
<1>1. /\ phase = "idle" /\ phase' = "allocate" /\ nand' = nand
      /\ pending' = [lsa |-> l, data |-> x, old |-> Contents(l)]
      /\ pending = NoWrite
    BY DEF FtlInv, PendingUnmapped, BeginWrite
<1>2. \A k \in Lsas : k # l => logicalSlice'[k] = logicalSlice[k]
    BY DEF BeginWrite, FtlInv, TypeOK
<1>3. ServedRequest = NoWrite /\ ServedRequest' = [lsa |-> l, data |-> x]
    BY <1>1 DEF ServedRequest
<1>4. \A k \in Lsas : pending.lsa # k
    BY <1>1, FtlNonesAssumption DEF NoWrite
<1>5. SliceContents = [k \in Lsas |-> Contents(k)]
    BY <1>4 DEF SliceContents
<1>6. SliceContents' = [k \in Lsas |-> IF l = k THEN Contents(l) ELSE Contents(k)']
    BY <1>1 DEF SliceContents
<1>7. \A k \in Lsas : l # k => Contents(k)' = Contents(k)
    BY <1>1, <1>2 DEF Contents
<1>8. SliceContents' = SliceContents
    BY <1>5, <1>6, <1>7
<1>9. QED
    BY <1>3, <1>8 DEF Store!Accept

LEMMA FinishStep ==
    ASSUME FtlInv, phase \in {"allocate", "after"}, NEW b \in Blocks,
           Allocated(targetDie, b),
           Program(pending.lsa, pending.data, targetDie, b), EndWrite
    PROVE  Store!Finish
<1>1. PICK d \in Dies : d = targetDie
    BY DEF FtlInv, TypeOK
<1>2. PICK l \in Lsas : l = pending.lsa
    BY DEF FtlInv, PendingUnmapped
<1>3. pending.data \in Data \cup {NoData}
    BY DEF FtlInv, TypeOK, NoWrite
<1>4. phase' = "idle" /\ pending' = NoWrite
    BY DEF EndWrite
<1>5. /\ Contents(l)' = pending.data
      /\ \A k \in Lsas : k # l => Contents(k)' = Contents(k)
    <2>1. Allocated(d, b) /\ Program(l, pending.data, d, b)
        BY <1>1, <1>2
    <2>2. QED
        BY <1>3, <2>1, ProgramContents
<1>6. /\ ServedRequest = [lsa |-> l, data |-> pending.data]
      /\ ServedRequest' = NoWrite
    BY <1>2, <1>4 DEF ServedRequest
<1>7. ServedRequest # NoWrite
    <2>1. ServedRequest.lsa \in Lsas /\ NoWrite.lsa = LsaNone
        BY <1>6 DEF NoWrite
    <2>2. QED
        BY <2>1, FtlNonesAssumption
<1>8. \A k \in Lsas : SliceContents[k] = IF l = k THEN pending.old ELSE Contents(k)
    BY <1>2 DEF SliceContents
<1>9. SliceContents' = [k \in Lsas |-> Contents(k)']
    <2>1. \A k \in Lsas : NoWrite.lsa # k
        BY FtlNonesAssumption DEF NoWrite
    <2>2. QED
        BY <1>4, <2>1 DEF SliceContents
<1>10. SliceContents' = [SliceContents EXCEPT ![ServedRequest.lsa] = ServedRequest.data]
    <2>1. ServedRequest.lsa = l /\ ServedRequest.data = pending.data
        BY <1>6
    <2>2. DOMAIN SliceContents = Lsas
        BY DEF SliceContents
    <2>3. SliceContents = [k \in Lsas |-> SliceContents[k]]
        BY DEF SliceContents
    <2>4. QED
        BY <1>5, <1>8, <1>9, <2>1, <2>2, <2>3
<1>11. QED
    BY <1>6, <1>7, <1>10 DEF Store!Finish

LEMMA CopyStutters ==
    ASSUME FtlInv, NEW b \in Blocks, Allocated(targetDie, b), CopyTo(b)
    PROVE  UNCHANGED <<SliceContents, ServedRequest>>
<1>1. PICK d \in Dies, m \in Blocks, p \in Pages :
          d = targetDie /\ m = gc.victim /\ p = gc.page
    <2>1. /\ targetDie \in Dies /\ gc.victim \in Blocks /\ gc.page \in 0 .. NumPages
          /\ gc.page < NumPages
        BY DEF FtlInv, TypeOK, CopyTo
    <2>2. gc.page \in Pages
        BY <2>1, SizeFact
    <2>3. QED
        BY <2>1, <2>2
<1>2. PICK v \in Vsas : v = <<d, m, p>> /\ v = VictimPage
    BY <1>1, VsaFact DEF VictimPage
<1>3. Valid(v)
    BY <1>2 DEF CopyTo
<1>4. PICK l \in Lsas : l = virtualSlice[v] /\ logicalSlice[l] = v
    BY <1>3 DEF Valid, FtlInv, TypeOK
<1>5. Allocated(d, b) /\ Program(l, nand[v], d, b)
    BY <1>1, <1>2, <1>4 DEF CopyTo
<1>6. nand[v] \in Data \cup {NoData} /\ Contents(l) = nand[v]
    <2>1. nand[v] \in Data \cup {NoData}
        BY DEF FtlInv, TypeOK
    <2>2. v # VsaNone
        BY VsaFact
    <2>3. QED
        BY <1>4, <2>1, <2>2 DEF Contents
<1>7. \A k \in Lsas : Contents(k)' = Contents(k)
    BY <1>5, <1>6, ProgramContents
<1>8. phase = "gc" /\ phase' = "gc" /\ pending' = pending
    BY DEF CopyTo
<1>9. QED
    BY <1>7, <1>8, StutterStep

LEMMA EraseStutters ==
    ASSUME FtlInv, EraseBlock
    PROVE  UNCHANGED <<SliceContents, ServedRequest>>
<1>1. PICK d \in Dies, m \in Blocks : d = targetDie /\ m = gc.victim
    BY DEF FtlInv, TypeOK
<1>2. /\ phase = "gc" /\ gc.page = NumPages
      /\ nand' = [v \in Vsas |-> IF v[1] = d /\ v[2] = m THEN NoData ELSE nand[v]]
      /\ phase' = "after" /\ UNCHANGED <<logicalSlice, pending>>
    BY <1>1 DEF EraseBlock
<1>3. ASSUME NEW k \in Lsas PROVE Contents(k)' = Contents(k)
    <2>1. CASE logicalSlice[k] = VsaNone
        BY <1>2, <2>1 DEF Contents
    <2>2. CASE logicalSlice[k] # VsaNone
        <3>1. PICK w \in Vsas : w = logicalSlice[k] /\ virtualSlice[w] = k
            BY <2>2 DEF FtlInv, TypeOK, MapsAgree
        <3>2. Valid(w)
            BY <3>1, FtlNonesAssumption DEF Valid
        <3>3. ~ (w[1] = d /\ w[2] = m)
            <4>1. SUFFICES ASSUME w[1] = d, w[2] = m PROVE FALSE
                OBVIOUS
            <4>2. w[3] \in Pages /\ w[3] < NumPages /\ w = <<d, m, w[3]>>
                BY <4>1, VsaFact, SizeFact
            <4>3. ~ Valid(<<d, m, w[3]>>)
                BY <1>1, <1>2, <4>2 DEF FtlInv, PassedPagesInvalid
            <4>4. QED
                BY <3>2, <4>2, <4>3
        <3>4. nand'[w] = nand[w]
            BY <1>2, <3>3
        <3>5. QED
            BY <1>2, <3>1, <3>4 DEF Contents
    <2>3. QED
        BY <2>1, <2>2
<1>4. QED
    BY <1>2, <1>3, StutterStep

LEMMA StoreStep ==
    ASSUME FtlInv, [Next]_vars
    PROVE  [Store!Next]_<<SliceContents, ServedRequest>>
<1>1. targetDie \in Dies
    BY DEF FtlInv, TypeOK
<1>2. ASSUME NEW l \in Lsas, NEW x \in Data, BeginWrite(l, x)
      PROVE  Store!Next
    BY <1>2, AcceptStep DEF Store!Next
<1>3. ASSUME UseCurrentBlock PROVE Store!Next
    <2>1. /\ phase \in {"allocate", "after"} /\ HasRoom(targetDie)
          /\ Program(pending.lsa, pending.data, targetDie, currentBlock[targetDie])
          /\ EndWrite
          /\ UNCHANGED <<freeBlocks, currentBlock>>
        BY <1>3 DEF UseCurrentBlock
    <2>2. ~ Victim(targetDie, currentBlock[targetDie])
        BY <2>1 DEF Victim
    <2>3. Allocated(targetDie, currentBlock[targetDie])
        BY <1>1, <2>1, <2>2, StayFact
    <2>4. currentBlock[targetDie] \in Blocks
        BY <1>1 DEF FtlInv, TypeOK
    <2>5. QED
        BY <2>1, <2>3, <2>4, FinishStep DEF Store!Next
<1>4. ASSUME UseFreeBlock PROVE Store!Next
    <2>1. /\ phase \in {"allocate", "after"} /\ CanTakeFreeBlock(targetDie)
          /\ TakeFreeBlock(targetDie)
          /\ Program(pending.lsa, pending.data, targetDie, Head(freeBlocks[targetDie]))
          /\ EndWrite
        BY <1>4 DEF UseFreeBlock
    <2>2. freeBlocks[targetDie] \in Seq(Blocks) /\ Len(freeBlocks[targetDie]) > 1
        BY <1>1, <2>1 DEF FtlInv, TypeOK, CanTakeFreeBlock, ReservedFreeBlockCount
    <2>3. freeBlocks[targetDie] # <<>>
        BY <2>2
    <2>4. /\ Head(freeBlocks[targetDie]) \in Blocks
          /\ Allocated(targetDie, Head(freeBlocks[targetDie]))
        BY <1>1, <2>1, <2>3, TakeFact
    <2>5. QED
        BY <2>1, <2>4, FinishStep DEF Store!Next
<1>5. ASSUME StartGc \/ SkipPage \/ LeaveVictim
      PROVE  UNCHANGED <<SliceContents, ServedRequest>>
    <2>1. phase # "idle" /\ phase' # "idle" /\ pending' = pending /\ UNCHANGED sliceVars
        BY <1>5 DEF StartGc, SkipPage, LeaveVictim
    <2>2. \A k \in Lsas : Contents(k)' = Contents(k)
        BY <2>1 DEF sliceVars, Contents
    <2>3. QED
        BY <2>1, <2>2, StutterStep
<1>6. ASSUME CopyToCurrentBlock PROVE UNCHANGED <<SliceContents, ServedRequest>>
    <2>1. /\ HasRoom(targetDie) /\ CopyTo(currentBlock[targetDie])
          /\ UNCHANGED <<freeBlocks, currentBlock>>
        BY <1>6 DEF CopyToCurrentBlock
    <2>2. ~ Victim(targetDie, currentBlock[targetDie])
        BY <2>1 DEF Victim, CopyTo
    <2>3. Allocated(targetDie, currentBlock[targetDie])
        BY <1>1, <2>1, <2>2, StayFact
    <2>4. currentBlock[targetDie] \in Blocks
        BY <1>1 DEF FtlInv, TypeOK
    <2>5. QED
        BY <2>1, <2>3, <2>4, CopyStutters
<1>7. ASSUME CopyToFreeBlock PROVE UNCHANGED <<SliceContents, ServedRequest>>
    <2>1. /\ freeBlocks[targetDie] # <<>>
          /\ TakeFreeBlock(targetDie) /\ CopyTo(Head(freeBlocks[targetDie]))
        BY <1>7 DEF CopyToFreeBlock
    <2>2. /\ Head(freeBlocks[targetDie]) \in Blocks
          /\ Allocated(targetDie, Head(freeBlocks[targetDie]))
        BY <1>1, <2>1, TakeFact
    <2>3. QED
        BY <2>1, <2>2, CopyStutters
<1>8. ASSUME EraseBlock PROVE UNCHANGED <<SliceContents, ServedRequest>>
    BY <1>8, EraseStutters
<1>9. ASSUME UNCHANGED vars PROVE UNCHANGED <<SliceContents, ServedRequest>>
    BY <1>9 DEF vars, sliceVars, SliceContents, ServedRequest, Contents
<1>10. QED
    BY <1>2, <1>3, <1>4, <1>5, <1>6, <1>7, <1>8, <1>9 DEF Next

(* A slice reads as what the last finished write put there: AddrTransWrite *)
(* with garbage collection inside it is one write of a store of slices.    *)
THEOREM FtlImplementsStore ==
    ASSUME ~ HotBlocks
    PROVE  Spec => ImplementsStore
<1>1. Init => Store!Init
    <2>1. SUFFICES ASSUME Init PROVE Store!Init
        OBVIOUS
    <2>2. pending.lsa = LsaNone /\ phase = "idle"
        BY <2>1 DEF Init, NoWrite
    <2>3. \A k \in Lsas : logicalSlice[k] = VsaNone /\ pending.lsa # k
        BY <2>1, <2>2, FtlNonesAssumption DEF Init
    <2>4. SliceContents = [k \in Lsas |-> NoData]
        BY <2>3 DEF SliceContents, Contents
    <2>5. QED
        BY <2>2, <2>4 DEF Store!Init, ServedRequest
<1>2. FtlInv /\ [Next]_vars => [Store!Next]_<<SliceContents, ServedRequest>>
    BY StoreStep
<1>3. QED
    BY <1>1, <1>2, FtlInvariant, PTL DEF Spec, ImplementsStore, Store!Spec
=============================================================================
