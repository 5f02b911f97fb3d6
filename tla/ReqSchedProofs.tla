--------------------------- MODULE ReqSchedProofs ---------------------------
(***************************************************************************)
(* Proofs about ReqSched, for any number of tags, ways, blocks and buffer  *)
(* entries.                                                                *)
(*                                                                         *)
(* The proofs follow the tags.  A function at says where each tag is; the  *)
(* set and the queues of the scheduler hold exactly the tags that at puts  *)
(* there, so that no tag is in two places, and the counters count them.    *)
(* Every operation moves one tag at a time, and every lemma says how at    *)
(* follows.                                                                *)
(***************************************************************************)
EXTENDS ReqSched, SequenceTheorems, FiniteSetTheorems, WellFoundedInduction, TLAPS

-----------------------------------------------------------------------------
(* Facts about sequences *)

(* What is left of a sequence without its k-th element. *)
LEMMA RemoveAtFact ==
    ASSUME NEW S, NEW s \in Seq(S), NEW k \in 1 .. Len(s)
    PROVE  /\ RemoveAt(s, k) \in Seq(S)
           /\ Len(RemoveAt(s, k)) = Len(s) - 1
           /\ \A j \in 1 .. Len(s) - 1 :
                  RemoveAt(s, k)[j] = IF j < k THEN s[j] ELSE s[j + 1]
<1> DEFINE front == SubSeq(s, 1, k - 1)
           back == SubSeq(s, k + 1, Len(s))
<1>1. Len(s) \in Nat
    OBVIOUS
<1>2. \A i \in 1 .. Len(s) : s[i] \in S
    OBVIOUS
<1>3. /\ front \in Seq(S)
      /\ Len(front) = k - 1
      /\ \A i \in 1 .. k - 1 : front[i] = s[i]
    BY <1>1, <1>2, SubSeqProperties
<1>4. /\ back \in Seq(S)
      /\ Len(back) = Len(s) - k
      /\ \A i \in 1 .. Len(s) - k : back[i] = s[k + i]
    <2>1. \A i \in k + 1 .. Len(s) : s[i] \in S
        BY <1>1, <1>2
    <2>2. QED
        BY <1>1, <2>1, SubSeqProperties
<1>5. RemoveAt(s, k) = front \o back
    BY DEF RemoveAt
<1> HIDE DEF front, back
<1>6. /\ front \o back \in Seq(S)
      /\ Len(front \o back) = Len(front) + Len(back)
      /\ \A i \in 1 .. Len(front) + Len(back) :
             (front \o back)[i] = IF i <= Len(front) THEN front[i]
                                  ELSE back[i - Len(front)]
    BY <1>3, <1>4, ConcatProperties
<1>7. QED
    BY <1>1, <1>3, <1>4, <1>5, <1>6

(* A sequence in which nothing is twice. *)
Once(s) == \A i, j \in DOMAIN s : s[i] = s[j] => i = j

(* Without its k-th element it has one element less. *)
LEMMA OnceRemoveAt ==
    ASSUME NEW S, NEW s \in Seq(S), NEW k \in 1 .. Len(s), Once(s)
    PROVE  /\ RemoveAt(s, k) \in Seq(S)
           /\ Once(RemoveAt(s, k))
           /\ Range(RemoveAt(s, k)) = Range(s) \ {s[k]}
<1> DEFINE r == RemoveAt(s, k)
           x == s[k]
<1>1. Len(s) \in Nat /\ DOMAIN s = 1 .. Len(s)
    OBVIOUS
<1>2. /\ r \in Seq(S)
      /\ Len(r) = Len(s) - 1
      /\ \A j \in 1 .. Len(s) - 1 : r[j] = IF j < k THEN s[j] ELSE s[j + 1]
    BY RemoveAtFact
<1> HIDE DEF r
<1>3. DOMAIN r = 1 .. Len(s) - 1
    BY <1>2
<1>4. Once(r)
    <2>1. SUFFICES ASSUME NEW i \in DOMAIN r, NEW j \in DOMAIN r, r[i] = r[j]
                   PROVE  i = j
        BY DEF Once
    <2>2. \A m, n \in 1 .. Len(s) : s[m] = s[n] => m = n
        BY <1>1 DEF Once
    <2>3. QED
        BY <1>1, <1>2, <1>3, <2>1, <2>2
<1>5. Range(r) \subseteq Range(s) \ {x}
    <2>1. SUFFICES ASSUME NEW j \in DOMAIN r PROVE r[j] \in Range(s) \ {x}
        BY DEF Range
    <2>2. CASE j < k
        BY <1>1, <1>2, <1>3, <2>1, <2>2 DEF Once, Range
    <2>3. CASE ~ (j < k)
        BY <1>1, <1>2, <1>3, <2>1, <2>3 DEF Once, Range
    <2>4. QED
        BY <2>2, <2>3
<1>6. Range(s) \ {x} \subseteq Range(r)
    <2>1. SUFFICES ASSUME NEW i \in DOMAIN s, s[i] # x PROVE s[i] \in Range(r)
        BY DEF Range
    <2>2. CASE i < k
        <3>1. i \in DOMAIN r /\ r[i] = s[i]
            BY <1>1, <1>2, <1>3, <2>1, <2>2
        <3>2. QED
            BY <3>1 DEF Range
    <2>3. CASE i > k
        <3>1. i - 1 \in DOMAIN r /\ r[i - 1] = s[i]
            BY <1>1, <1>2, <1>3, <2>1, <2>3
        <3>2. QED
            BY <3>1 DEF Range
    <2>4. QED
        BY <1>1, <2>1, <2>2, <2>3
<1>7. QED
    BY <1>2, <1>4, <1>5, <1>6 DEF r

(* A sequence with an element at its end is not empty. *)
LEMMA AppendNonEmpty ==
    ASSUME NEW S, NEW s \in Seq(S), NEW e \in S
    PROVE  Append(s, e) # <<>>
<1>1. Len(Append(s, e)) = Len(s) + 1 /\ Len(s) \in Nat
    BY AppendProperties
<1>2. Append(s, e) \in Seq(S)
    BY AppendProperties
<1>3. QED
    BY <1>1, <1>2, EmptySeq

(* A new element at its end leaves nothing twice. *)
LEMMA OnceAppend ==
    ASSUME NEW S, NEW s \in Seq(S), NEW x \in S \ Range(s), Once(s)
    PROVE  /\ Append(s, x) \in Seq(S)
           /\ Once(Append(s, x))
           /\ Range(Append(s, x)) = Range(s) \cup {x}
<1>1. /\ Append(s, x) \in Seq(S)
      /\ DOMAIN Append(s, x) = 1 .. Len(s) + 1
      /\ \A i \in 1 .. Len(s) : Append(s, x)[i] = s[i]
      /\ Append(s, x)[Len(s) + 1] = x
    BY AppendProperties
<1>2. Len(s) \in Nat /\ DOMAIN s = 1 .. Len(s)
    OBVIOUS
<1>3. \A i \in 1 .. Len(s) : s[i] # x
    BY <1>2 DEF Range
<1>4. Once(Append(s, x))
    BY <1>1, <1>2, <1>3 DEF Once
<1>5. Range(Append(s, x)) = Range(s) \cup {x}
    BY <1>1, <1>2 DEF Range
<1>6. QED
    BY <1>1, <1>4, <1>5

(* Its tail has all but its head. *)
LEMMA OnceTail ==
    ASSUME NEW S, NEW s \in Seq(S), s # <<>>, Once(s)
    PROVE  /\ Head(s) \in Range(s)
           /\ Tail(s) \in Seq(S)
           /\ Len(Tail(s)) = Len(s) - 1
           /\ Once(Tail(s))
           /\ Range(Tail(s)) = Range(s) \ {Head(s)}
<1> DEFINE t == Tail(s)
           x == Head(s)
<1>1. /\ Len(s) \in Nat /\ DOMAIN s = 1 .. Len(s)
      /\ 1 \in DOMAIN s
      /\ x = s[1]
      /\ t \in Seq(S)
      /\ Len(t) = Len(s) - 1
      /\ DOMAIN t = 1 .. Len(s) - 1
      /\ \A i \in 1 .. Len(s) - 1 : t[i] = s[i + 1]
    BY HeadTailProperties
<1> HIDE DEF t, x
<1>2. Once(t)
    <2>1. SUFFICES ASSUME NEW i \in DOMAIN t, NEW j \in DOMAIN t, t[i] = t[j]
                   PROVE  i = j
        BY DEF Once
    <2>2. i + 1 \in DOMAIN s /\ j + 1 \in DOMAIN s /\ s[i + 1] = s[j + 1]
        BY <1>1, <2>1
    <2>3. i + 1 = j + 1
        BY <2>2 DEF Once
    <2>4. QED
        BY <1>1, <2>3
<1>3. x \in Range(s)
    BY <1>1 DEF Range
<1>4. Range(t) \subseteq Range(s) \ {x}
    <2>1. SUFFICES ASSUME NEW i \in DOMAIN t PROVE t[i] \in Range(s) /\ t[i] # x
        BY DEF Range
    <2>2. i + 1 \in DOMAIN s /\ i + 1 # 1 /\ t[i] = s[i + 1]
        BY <1>1
    <2>3. s[i + 1] # s[1]
        BY <1>1, <2>2 DEF Once
    <2>4. QED
        BY <1>1, <2>2, <2>3 DEF Range
<1>5. Range(s) \ {x} \subseteq Range(t)
    <2>1. SUFFICES ASSUME NEW i \in DOMAIN s, s[i] # x PROVE s[i] \in Range(t)
        BY DEF Range
    <2>2. i - 1 \in DOMAIN t /\ t[i - 1] = s[i]
        BY <1>1, <2>1
    <2>3. QED
        BY <2>2 DEF Range
<1>6. QED
    BY <1>1, <1>2, <1>3, <1>4, <1>5 DEF t, x

(* Induction up to n, for sets. *)
LEMMA UpTo ==
    ASSUME NEW n \in Nat, NEW K, 0 \in K,
           \A k \in 0 .. n : k # n /\ k \in K => k + 1 \in K
    PROVE  \A k \in 0 .. n : k \in K
<1> DEFINE R == OpToRel(<, Nat)
           U == (0 .. n) \ K
<1>1. IsWellFoundedOn(R, Nat)
    BY NatLessThanWellFounded
<1>2. \A i, j \in Nat : i < j => <<i, j>> \in R
    BY DEF OpToRel
<1> HIDE DEF R
<1>3. SUFFICES ASSUME U # {} PROVE FALSE
    OBVIOUS
<1>4. PICK u \in U : \A w \in U : ~ (<<w, u>> \in R)
    <2>1. U \subseteq Nat
        OBVIOUS
    <2> HIDE DEF U
    <2>2. QED
        BY <1>1, <1>3, <2>1, WFMin
<1>5. u \in 0 .. n /\ u # 0 /\ u - 1 \in 0 .. n /\ u - 1 # n /\ u - 1 < u
    OBVIOUS
<1>6. u - 1 \notin U
    <2>1. <<u - 1, u>> \in R
        BY <1>2, <1>5
    <2>2. QED
        BY <1>4, <2>1
<1>7. (u - 1) + 1 \in K
    BY <1>5, <1>6
<1>8. QED
    BY <1>5, <1>7

(* Max of a set of numbers is its greatest. *)
LEMMA MaxFact ==
    ASSUME NEW s, NEW k \in s, \A j \in s : j <= k, s \subseteq Nat
    PROVE  Max(s) = k
<1>1. \A j \in s : k >= j
    OBVIOUS
<1>2. \E x \in s : \A y \in s : x >= y
    BY <1>1
<1>3. Max(s) \in s /\ \A y \in s : Max(s) >= y
    BY <1>2 DEF Max
<1>4. Max(s) \in Nat /\ k \in Nat /\ k <= Max(s) /\ Max(s) <= k
    <2>1. \A m \in Nat : m >= k => k <= m
        OBVIOUS
    <2>2. Max(s) \in Nat /\ k \in Nat
        BY <1>3
    <2>3. QED
        BY <1>3, <2>1, <2>2
<1>5. QED
    BY <1>4
-----------------------------------------------------------------------------
(* The invariant *)

FlashCodes == {"READ", "WRITE", "ERASE"}
Codes == {"NONE", "HOLD", "SYNC"} \cup FlashCodes \cup DmaCodes
Requests == [code : Codes, entry : Entries \cup {NoEntry}, block : Blocks \cup {NoBlock},
             page : Nat, cycle : Int]

(* A request that does something: a transfer or a flash operation. *)
NandReq(r) ==
    /\ r.code \in FlashCodes
    /\ r.block \in Blocks
    /\ r.code = "WRITE" => r.page \in Pages
Proper(r) == IsDma(r) \/ NandReq(r)

Shape ==
    [free : SUBSET Tags, held : Seq(Tags), req : [Tags -> Requests],
     bufQ : SUBSET Tags, rowQ : [Ways -> Seq(Tags)], nandQ : [Ways -> Seq(Tags)],
     dmaQ : Seq(Tags),
     prevBlocking : [Tags -> Tags \cup {NoTag}], nextBlocking : [Tags -> Tags \cup {NoTag}],
     tail : [Entries -> Tags \cup {NoTag}],
     notCompleted : Int, blocked : Int,
     permitted : [Blocks -> 0 .. NumPages], blockedReads : [Blocks -> Int],
     eraseFlag : [Blocks -> BOOLEAN]]
-----------------------------------------------------------------------------
(* Where the tags are *)

(* A new tag has just been taken; a loose one has joined its entry's chain *)
(* and is on its way to a queue, or from one.                              *)
Places == {"free", "held", "new", "loose", "nand", "row", "dma", "buf", "wait"}
Live(p) == p \notin {"free", "held", "new"}

At(at, p) == {t \in Tags : at[t] = p}
OnWay(req, at, p, w) == {t \in Tags : at[t] = p /\ WayOf[req[t].block] = w}

(* Sequence q holds the elements of set x, each once. *)
Lists(q, x) == Once(q) /\ Range(q) = x

Placed(s, wt, at) ==
    /\ at \in [Tags -> Places]
    /\ s.free = At(at, "free")
    /\ s.bufQ = At(at, "buf")
    /\ {wt} \ {NoTag} = At(at, "wait")
    /\ Lists(s.held, At(at, "held"))
    /\ Lists(s.dmaQ, At(at, "dma"))
    /\ \A w \in Ways : Lists(s.nandQ[w], OnWay(s.req, at, "nand", w))
    /\ \A w \in Ways : Lists(s.rowQ[w], OnWay(s.req, at, "row", w))

(* What is where it is fits there. *)
Fitting(s, at) ==
    \A t \in Tags :
        /\ Live(at[t]) => Proper(s.req[t])
        /\ at[t] = "dma" => IsDma(s.req[t])
        /\ at[t] \in {"nand", "row"} => NandReq(s.req[t])

Counted(s, at) ==
    /\ s.notCompleted = Cardinality(At(at, "nand"))
    /\ s.blocked = Cardinality(At(at, "row") \cup At(at, "buf"))

Core(s, wt, at) == s \in Shape /\ Placed(s, wt, at) /\ Fitting(s, at) /\ Counted(s, at)

(* The requests of an entry form one chain: it has one head, a released    *)
(* request is the head, and the links fit.                                 *)
OneHead(s, at) ==
    \A t, u \in Tags :
        /\ Live(at[t]) /\ Live(at[u])
        /\ s.req[t].entry \in Entries /\ s.req[u].entry = s.req[t].entry
        /\ s.prevBlocking[t] = NoTag /\ s.prevBlocking[u] = NoTag
        => t = u
HeadHasTail(s, at) ==
    \A t \in Tags :
        Live(at[t]) /\ s.req[t].entry \in Entries /\ s.prevBlocking[t] = NoTag =>
            s.tail[s.req[t].entry] # NoTag
LinksFit(s, at) ==
    \A t \in Tags : s.nextBlocking[t] # NoTag =>
        LET u == s.nextBlocking[t] IN
        /\ Live(at[t]) /\ Live(at[u])
        /\ s.req[t].entry \in Entries /\ s.req[u].entry = s.req[t].entry
        /\ s.prevBlocking[u] = t
TailsFit(s, at) ==
    \A e \in Entries : s.tail[e] # NoTag =>
        /\ Live(at[s.tail[e]])
        /\ s.req[s.tail[e]].entry = e
        /\ s.nextBlocking[s.tail[e]] = NoTag
HeadsReleased(s, at) ==
    \A t \in Tags : at[t] \in {"nand", "row", "dma"} => s.prevBlocking[t] = NoTag
RestUnlinked(s, at) ==
    \A t \in Tags : ~Live(at[t]) => s.prevBlocking[t] = NoTag /\ s.nextBlocking[t] = NoTag

Chained(s, at) ==
    /\ OneHead(s, at)
    /\ HeadHasTail(s, at)
    /\ LinksFit(s, at)
    /\ TailsFit(s, at)
    /\ HeadsReleased(s, at)
    /\ RestUnlinked(s, at)

(* The blocked reads of block b. *)
ReadsOf(req, at, b) ==
    {t \in Tags : at[t] \in {"row", "buf"} /\ req[t].code = "READ" /\ req[t].block = b}
ReadsCounted(s, at) ==
    \A b \in Blocks : s.blockedReads[b] = Cardinality(ReadsOf(s.req, at, b))

(* Way w has work, or no blocked request that could go. *)
SeenAt(s, w) == s.nandQ[w] = <<>> => \A t \in Range(s.rowQ[w]) : ~RowAddrPass(s, t)

(* All is in order, except that nobody has looked at the ways x yet. *)
Sound(s, wt, at, x) ==
    /\ Core(s, wt, at)
    /\ Chained(s, at)
    /\ ReadsCounted(s, at)
    /\ \A w \in Ways \ x : SeenAt(s, w)
-----------------------------------------------------------------------------
(* Queues *)

LEMMA TagFact == Tags \subseteq Nat /\ NoTag \notin Tags /\ IsFiniteSet(Tags)
<1>1. NumTags \in Nat
    BY ReqSizesAssumption DEF ReqSizesAssumption
<1>2. IsFiniteSet(1 .. NumTags)
    BY <1>1, FS_Interval
<1>3. QED
    BY <1>1, <1>2 DEF Tags, NoTag

LEMMA SetCount ==
    ASSUME NEW x \in SUBSET Tags
    PROVE  /\ IsFiniteSet(x) /\ Cardinality(x) \in Nat
           /\ \A t \in Tags \ x : Cardinality(x \cup {t}) = Cardinality(x) + 1
           /\ \A t \in x : Cardinality(x \ {t}) = Cardinality(x) - 1
<1>1. IsFiniteSet(x)
    BY TagFact, FS_Subset
<1>2. Cardinality(x) \in Nat
    BY <1>1, FS_CardinalityType
<1>3. ASSUME NEW t \in Tags \ x PROVE Cardinality(x \cup {t}) = Cardinality(x) + 1
    BY <1>1, FS_AddElement
<1>4. ASSUME NEW t \in x PROVE Cardinality(x \ {t}) = Cardinality(x) - 1
    BY <1>1, FS_RemoveElement
<1>5. QED
    BY <1>1, <1>2, <1>3, <1>4

LEMMA ListsAppend ==
    ASSUME NEW q \in Seq(Tags), NEW x, Lists(q, x), NEW t \in Tags, t \notin x
    PROVE  Append(q, t) \in Seq(Tags) /\ Lists(Append(q, t), x \cup {t})
BY OnceAppend DEF Lists

LEMMA ListsWithout ==
    ASSUME NEW q \in Seq(Tags), NEW x, Lists(q, x), NEW t \in x
    PROVE  Without(q, t) \in Seq(Tags) /\ Lists(Without(q, t), x \ {t})
<1> DEFINE k == CHOOSE i \in DOMAIN q : q[i] = t
<1>1. \E i \in DOMAIN q : q[i] = t
    BY DEF Lists, Range
<1>2. k \in 1 .. Len(q) /\ q[k] = t
    BY <1>1
<1>3. Without(q, t) = RemoveAt(q, k)
    BY DEF Without
<1> HIDE DEF k
<1>4. QED
    BY <1>2, <1>3, OnceRemoveAt DEF Lists

LEMMA ListsTail ==
    ASSUME NEW q \in Seq(Tags), NEW x, Lists(q, x), q # <<>>
    PROVE  Head(q) \in x /\ Tail(q) \in Seq(Tags) /\ Lists(Tail(q), x \ {Head(q)})
BY OnceTail DEF Lists

LEMMA ListsFront ==
    ASSUME NEW q \in Seq(Tags), NEW x, Lists(q, x), q # <<>>
    PROVE  /\ Last(q) \in x /\ Front(q) \in Seq(Tags) /\ Lists(Front(q), x \ {Last(q)})
           /\ Len(Front(q)) = Len(q) - 1
<1> DEFINE f == Front(q)
<1>1. PICK n \in Nat : /\ n = Len(q) /\ n > 0 /\ DOMAIN q = 1 .. n /\ n \in 1 .. n
                      /\ Last(q) = q[n]
    BY DEF Last
<1>2. Last(q) \in x
    BY <1>1 DEF Lists, Range
<1>3. /\ f \in Seq(Tags) /\ Len(f) = n - 1
      /\ \A i \in 1 .. n - 1 : f[i] = q[i]
    <2> DEFINE m == n - 1
    <2>1. m \in Nat /\ \A i \in 1 .. m : q[i] \in Tags
        BY <1>1
    <2>2. f = SubSeq(q, 1, m)
        BY <1>1 DEF Front
    <2> HIDE DEF m, f
    <2>3. /\ f \in Seq(Tags)
          /\ Len(f) = IF 1 <= m THEN m - 1 + 1 ELSE 0
          /\ \A i \in 1 .. m - 1 + 1 : f[i] = q[1 + i - 1]
        BY <2>1, <2>2, SubSeqProperties
    <2>4. \A i \in 1 .. m : i \in 1 .. m - 1 + 1 /\ 1 + i - 1 = i
        BY <2>1
    <2>5. f \in Seq(Tags) /\ Len(f) = m /\ \A i \in 1 .. m : f[i] = q[i]
        BY <2>1, <2>3, <2>4
    <2>6. QED
        BY <2>5 DEF m
<1> HIDE DEF f
<1>4. DOMAIN f = 1 .. n - 1
    BY <1>1, <1>3
<1>5. Once(f)
    BY <1>1, <1>3, <1>4 DEF Once, Lists
<1>6. Range(f) = Range(q) \ {q[n]}
    <2>1. ASSUME NEW t \in Range(f) PROVE t \in Range(q) /\ t # q[n]
        <3>1. PICK i \in 1 .. n - 1 : t = q[i]
            BY <1>3, <1>4, <2>1 DEF Range
        <3>2. i \in DOMAIN q /\ i # n
            BY <1>1, <3>1
        <3>3. QED
            BY <1>1, <3>1, <3>2 DEF Range, Once, Lists
    <2>2. ASSUME NEW t \in Range(q), t # q[n] PROVE t \in Range(f)
        <3>1. PICK i \in 1 .. n : t = q[i]
            BY <1>1, <2>2 DEF Range
        <3>2. i \in 1 .. n - 1
            BY <1>1, <2>2, <3>1
        <3>3. QED
            BY <1>3, <1>4, <3>1, <3>2 DEF Range
    <2>3. QED
        BY <2>1, <2>2
<1>7. QED
    BY <1>1, <1>2, <1>3, <1>5, <1>6 DEF Lists, f

(* Tag t goes to place q. *)
Goes(at, t, q) == [at EXCEPT ![t] = q]

LEMMA GoesFact ==
    ASSUME NEW at \in [Tags -> Places], NEW t \in Tags, NEW q \in Places, at[t] # q
    PROVE  /\ Goes(at, t, q) \in [Tags -> Places]
           /\ Goes(at, t, q)[t] = q /\ \A x \in Tags \ {t} : Goes(at, t, q)[x] = at[x]
           /\ t \notin At(at, q) /\ At(Goes(at, t, q), q) = At(at, q) \cup {t}
           /\ t \in At(at, at[t]) /\ At(Goes(at, t, q), at[t]) = At(at, at[t]) \ {t}
           /\ \A p \in Places \ {q, at[t]} : At(Goes(at, t, q), p) = At(at, p)
BY DEF At, Goes

LEMMA GoesOnWay ==
    ASSUME NEW at \in [Tags -> Places], NEW t \in Tags, NEW q \in Places, at[t] # q,
           NEW req, NEW w
    PROVE  /\ OnWay(req, Goes(at, t, q), q, w) =
                  IF WayOf[req[t].block] = w THEN OnWay(req, at, q, w) \cup {t}
                                             ELSE OnWay(req, at, q, w)
           /\ t \notin OnWay(req, at, q, w)
           /\ OnWay(req, Goes(at, t, q), at[t], w) = OnWay(req, at, at[t], w) \ {t}
           /\ \A p \in Places \ {q, at[t]} :
                  OnWay(req, Goes(at, t, q), p, w) = OnWay(req, at, p, w)
<1> DEFINE b == Goes(at, t, q)
<1>1. b[t] = q /\ \A x \in Tags \ {t} : b[x] = at[x]
    BY GoesFact
<1> HIDE DEF b
<1>2. QED
    BY <1>1 DEF OnWay, b
-----------------------------------------------------------------------------
(* One tag moves *)

LEMMA WayOfFact ==
    ASSUME NEW b \in Blocks
    PROVE  WayOf[b] \in Ways /\ b \in Range(BlockList[WayOf[b]])
<1>1. \E w \in Ways : b \in Range(BlockList[w])
    BY DEF Blocks
<1>2. QED
    BY <1>1 DEF WayOf

LEMMA CoreFacts ==
    ASSUME NEW s, NEW wt, NEW at, Core(s, wt, at)
    PROVE  /\ s \in Shape /\ at \in [Tags -> Places]
           /\ s.free = At(at, "free") /\ s.bufQ = At(at, "buf")
           /\ {wt} \ {NoTag} = At(at, "wait")
           /\ Lists(s.held, At(at, "held")) /\ Lists(s.dmaQ, At(at, "dma"))
           /\ \A w \in Ways : Lists(s.nandQ[w], OnWay(s.req, at, "nand", w))
           /\ \A w \in Ways : Lists(s.rowQ[w], OnWay(s.req, at, "row", w))
           /\ Fitting(s, at) /\ Counted(s, at)
BY DEF Core, Placed

(* What the set x and the queue x of place r become when tag t goes from   *)
(* place p to place q.                                                     *)
SetMoves(x, y, r, t, p, q) == y = IF r = q THEN x \cup {t} ELSE IF r = p THEN x \ {t} ELSE x
QueueMoves(x, y, r, t, p, q) ==
    IF r = q THEN y = Append(x, t)
    ELSE IF r = p THEN Lists(y, Range(x) \ {t})
    ELSE y = x

Moves(s, u, t, p, q) ==
    /\ SetMoves(s.free, u.free, "free", t, p, q)
    /\ SetMoves(s.bufQ, u.bufQ, "buf", t, p, q)
    /\ QueueMoves(s.held, u.held, "held", t, p, q)
    /\ QueueMoves(s.dmaQ, u.dmaQ, "dma", t, p, q)
    /\ \A w \in Ways :
           IF WayOf[s.req[t].block] = w
           THEN /\ QueueMoves(s.nandQ[w], u.nandQ[w], "nand", t, p, q)
                /\ QueueMoves(s.rowQ[w], u.rowQ[w], "row", t, p, q)
           ELSE u.nandQ[w] = s.nandQ[w] /\ u.rowQ[w] = s.rowQ[w]
    /\ u.notCompleted = s.notCompleted + (IF q = "nand" THEN 1 ELSE 0)
                                       - (IF p = "nand" THEN 1 ELSE 0)
    /\ u.blocked = s.blocked + (IF q \in {"row", "buf"} THEN 1 ELSE 0)
                             - (IF p \in {"row", "buf"} THEN 1 ELSE 0)

LEMMA QueueMovesFact ==
    ASSUME NEW x \in Seq(Tags), NEW X, Lists(x, X), NEW y, NEW Y, NEW t \in Tags,
           NEW p, NEW q, NEW r, QueueMoves(x, y, r, t, p, q), SetMoves(X, Y, r, t, p, q),
           r = q => t \notin X
    PROVE  Lists(y, Y)
<1>1. CASE r = q
    BY <1>1, ListsAppend DEF QueueMoves, SetMoves
<1>2. CASE r # q
    BY <1>2 DEF QueueMoves, SetMoves, Lists
<1>3. QED
    BY <1>1, <1>2

LEMMA PlacesMove ==
    ASSUME NEW at \in [Tags -> Places], NEW t \in Tags, NEW q \in Places, at[t] # q,
           NEW r \in Places
    PROVE  /\ SetMoves(At(at, r), At(Goes(at, t, q), r), r, t, at[t], q)
           /\ r = q => t \notin At(at, r)
           /\ r = at[t] => t \in At(at, r)
BY GoesFact DEF SetMoves

LEMMA OnWaysMove ==
    ASSUME NEW at \in [Tags -> Places], NEW t \in Tags, NEW q \in Places, at[t] # q,
           NEW r \in Places, NEW req, NEW w
    PROVE  /\ WayOf[req[t].block] = w =>
                  SetMoves(OnWay(req, at, r, w), OnWay(req, Goes(at, t, q), r, w), r, t, at[t], q)
           /\ WayOf[req[t].block] # w =>
                  OnWay(req, Goes(at, t, q), r, w) = OnWay(req, at, r, w)
           /\ r = q => t \notin OnWay(req, at, r, w)
<1> DEFINE b == Goes(at, t, q)
           z == WayOf[req[t].block]
<1>1. b[t] = q /\ \A x \in Tags \ {t} : b[x] = at[x]
    BY GoesFact
<1> HIDE DEF b
<1>2. z = WayOf[req[t].block]
    OBVIOUS
<1>3. \A x \in Tags : x \in OnWay(req, b, r, w) <=> b[x] = r /\ WayOf[req[x].block] = w
    BY DEF OnWay
<1>4. \A x \in Tags : x \in OnWay(req, at, r, w) <=> at[x] = r /\ WayOf[req[x].block] = w
    BY DEF OnWay
<1>5. OnWay(req, b, r, w) \subseteq Tags /\ OnWay(req, at, r, w) \subseteq Tags
    BY DEF OnWay
<1> HIDE DEF z
<1>6. CASE r = q
    <2>1. t \notin OnWay(req, at, r, w)
        BY <1>4, <1>6
    <2>2. z # w => OnWay(req, b, r, w) = OnWay(req, at, r, w)
        <3>1. SUFFICES ASSUME z # w, NEW x \in Tags
                       PROVE  x \in OnWay(req, b, r, w) <=> x \in OnWay(req, at, r, w)
            BY <1>5
        <3>2. QED
            BY <1>1, <1>2, <1>3, <1>4, <3>1
    <2>3. z = w => OnWay(req, b, r, w) = OnWay(req, at, r, w) \cup {t}
        <3>1. SUFFICES ASSUME z = w, NEW x \in Tags
                       PROVE  x \in OnWay(req, b, r, w) <=> x \in OnWay(req, at, r, w) \cup {t}
            BY <1>5
        <3>2. QED
            BY <1>1, <1>2, <1>3, <1>4, <1>6, <3>1
    <2>4. QED
        BY <1>2, <1>6, <2>1, <2>2, <2>3 DEF SetMoves, b
<1>7. CASE r = at[t]
    BY <1>1, <1>2, <1>3, <1>4, <1>5, <1>7 DEF SetMoves, b
<1>8. CASE r # q /\ r # at[t]
    <2>1. OnWay(req, b, r, w) = OnWay(req, at, r, w)
        BY <1>1, <1>3, <1>4, <1>5, <1>8
    <2>2. QED
        BY <1>8, <2>1 DEF SetMoves, b
<1>9. QED
    BY <1>6, <1>7, <1>8

LEMMA FittingMove ==
    ASSUME NEW s, NEW u, NEW at, Fitting(s, at), u.req = s.req, NEW t \in Tags,
           at \in [Tags -> Places], NEW q,
           Live(q) => Proper(s.req[t]), q = "dma" => IsDma(s.req[t]),
           q \in {"nand", "row"} => NandReq(s.req[t])
    PROVE  Fitting(u, Goes(at, t, q))
BY DEF Fitting, Goes

LEMMA CountedMove ==
    ASSUME NEW s, NEW u, NEW wt, NEW at, Core(s, wt, at), NEW t \in Tags,
           NEW q \in Places, at[t] # q, Moves(s, u, t, at[t], q)
    PROVE  Counted(u, Goes(at, t, q))
<1> DEFINE b == Goes(at, t, q)
           x == At(at, "nand")
           y == At(at, "row") \cup At(at, "buf")
<1>1. at \in [Tags -> Places] /\ Counted(s, at) /\ at[t] \in Places
    BY CoreFacts
<1>2. x \in SUBSET Tags /\ y \in SUBSET Tags
    BY DEF At
<1>3. \A r \in Places : SetMoves(At(at, r), At(b, r), r, t, at[t], q)
    BY <1>1, PlacesMove
<1>4. \A r \in Places : (r = at[t] => t \in At(at, r)) /\ (r # at[t] => t \notin At(at, r))
    BY DEF At
<1>5. s.notCompleted = Cardinality(x) /\ s.blocked = Cardinality(y)
    BY <1>1 DEF Counted
<1>6. At(b, "nand") = IF q = "nand" THEN x \cup {t} ELSE IF at[t] = "nand" THEN x \ {t} ELSE x
    BY <1>3 DEF SetMoves, Places
<1>7. /\ at[t] = "nand" => t \in x
      /\ at[t] # "nand" => t \notin x
    BY <1>4 DEF Places
<1>8. At(b, "row") \cup At(b, "buf") =
          IF q \in {"row", "buf"} THEN y \cup {t}
          ELSE IF at[t] \in {"row", "buf"} THEN y \ {t} ELSE y
    <2>1. /\ At(b, "row") = IF q = "row" THEN At(at, "row") \cup {t}
                            ELSE IF at[t] = "row" THEN At(at, "row") \ {t} ELSE At(at, "row")
          /\ At(b, "buf") = IF q = "buf" THEN At(at, "buf") \cup {t}
                            ELSE IF at[t] = "buf" THEN At(at, "buf") \ {t} ELSE At(at, "buf")
        BY <1>3 DEF SetMoves, Places
    <2>2. /\ at[t] # "row" => t \notin At(at, "row")
          /\ at[t] # "buf" => t \notin At(at, "buf")
        BY <1>4 DEF Places
    <2>3. QED
        BY <2>1, <2>2
<1>9. at[t] \in {"row", "buf"} <=> t \in y
    BY <1>4 DEF Places
<1>10. /\ u.notCompleted = s.notCompleted + (IF q = "nand" THEN 1 ELSE 0)
                                          - (IF at[t] = "nand" THEN 1 ELSE 0)
       /\ u.blocked = s.blocked + (IF q \in {"row", "buf"} THEN 1 ELSE 0)
                                - (IF at[t] \in {"row", "buf"} THEN 1 ELSE 0)
    BY DEF Moves
<1>11. /\ Cardinality(x) \in Nat /\ Cardinality(y) \in Nat
       /\ t \notin x => Cardinality(x \cup {t}) = Cardinality(x) + 1
       /\ t \in x => Cardinality(x \ {t}) = Cardinality(x) - 1
       /\ t \in x => x \cup {t} = x
       /\ t \notin y => Cardinality(y \cup {t}) = Cardinality(y) + 1
       /\ t \in y => Cardinality(y \ {t}) = Cardinality(y) - 1
       /\ t \in y => y \cup {t} = y
    BY <1>2, SetCount
<1> HIDE DEF x, y, b
<1>12. \A n \in Nat : n + 1 - 0 = n + 1 /\ n + 0 - 1 = n - 1 /\ n + 0 - 0 = n /\ n + 1 - 1 = n
    OBVIOUS
<1>13. u.notCompleted = Cardinality(At(b, "nand"))
    <2>1. CASE q = "nand"
        <3>1. u.notCompleted = s.notCompleted + 1 - 0
            BY <1>10, <2>1
        <3>2. At(b, "nand") = x \cup {t}
            BY <1>6, <2>1
        <3>3. QED
            BY <1>5, <1>11, <1>7, <1>12, <2>1, <3>1, <3>2
    <2>2. CASE q # "nand" /\ at[t] = "nand"
        <3>1. u.notCompleted = s.notCompleted + 0 - 1
            BY <1>10, <2>2
        <3>2. At(b, "nand") = x \ {t}
            BY <1>6, <2>2
        <3>3. QED
            BY <1>5, <1>11, <1>7, <1>12, <2>2, <3>1, <3>2
    <2>3. CASE q # "nand" /\ at[t] # "nand"
        <3>1. u.notCompleted = s.notCompleted + 0 - 0
            BY <1>10, <2>3
        <3>2. At(b, "nand") = x
            BY <1>6, <2>3
        <3>3. QED
            BY <1>5, <1>11, <1>7, <1>12, <2>3, <3>1, <3>2
    <2>4. QED
        BY <2>1, <2>2, <2>3
<1>14. u.blocked = Cardinality(At(b, "row") \cup At(b, "buf"))
    <2>1. CASE q \in {"row", "buf"} /\ at[t] \in {"row", "buf"}
        <3>1. u.blocked = s.blocked + 1 - 1
            BY <1>10, <2>1
        <3>2. At(b, "row") \cup At(b, "buf") = y \cup {t}
            BY <1>8, <2>1
        <3>3. QED
            BY <1>5, <1>11, <1>9, <1>12, <2>1, <3>1, <3>2
    <2>2. CASE q \in {"row", "buf"} /\ at[t] \notin {"row", "buf"}
        <3>1. u.blocked = s.blocked + 1 - 0
            BY <1>10, <2>2
        <3>2. At(b, "row") \cup At(b, "buf") = y \cup {t}
            BY <1>8, <2>2
        <3>3. QED
            BY <1>5, <1>11, <1>9, <1>12, <2>2, <3>1, <3>2
    <2>3. CASE q \notin {"row", "buf"} /\ at[t] \in {"row", "buf"}
        <3>1. u.blocked = s.blocked + 0 - 1
            BY <1>10, <2>3
        <3>2. At(b, "row") \cup At(b, "buf") = y \ {t}
            BY <1>8, <2>3
        <3>3. QED
            BY <1>5, <1>11, <1>9, <1>12, <2>3, <3>1, <3>2
    <2>4. CASE q \notin {"row", "buf"} /\ at[t] \notin {"row", "buf"}
        <3>1. u.blocked = s.blocked + 0 - 0
            BY <1>10, <2>4
        <3>2. At(b, "row") \cup At(b, "buf") = y
            BY <1>8, <2>4
        <3>3. QED
            BY <1>5, <1>11, <1>9, <1>12, <2>4, <3>1, <3>2
    <2>5. QED
        BY <2>1, <2>2, <2>3, <2>4
<1>15. QED
    BY <1>13, <1>14 DEF Counted, b

LEMMA PlacedMove ==
    ASSUME NEW s, NEW u, NEW wt, NEW at, Core(s, wt, at), NEW t \in Tags,
           NEW q \in Places, at[t] # q, Moves(s, u, t, at[t], q),
           u \in Shape, u.req = s.req,
           NEW v, {v} \ {NoTag} = At(Goes(at, t, q), "wait")
    PROVE  Placed(u, v, Goes(at, t, q))
<1> DEFINE b == Goes(at, t, q)
<1>1. /\ at \in [Tags -> Places] /\ s \in Shape
      /\ s.free = At(at, "free") /\ s.bufQ = At(at, "buf")
      /\ Lists(s.held, At(at, "held")) /\ Lists(s.dmaQ, At(at, "dma"))
      /\ \A w \in Ways : /\ Lists(s.nandQ[w], OnWay(s.req, at, "nand", w))
                         /\ Lists(s.rowQ[w], OnWay(s.req, at, "row", w))
    BY CoreFacts
<1>2. \A r \in Places : /\ SetMoves(At(at, r), At(b, r), r, t, at[t], q)
                        /\ r = q => t \notin At(at, r)
    BY <1>1, PlacesMove
<1>3. b \in [Tags -> Places]
    BY <1>1, GoesFact
<1> HIDE DEF b
<1>4. u.free = At(b, "free") /\ u.bufQ = At(b, "buf")
    BY <1>1, <1>2 DEF Moves, SetMoves, Places
<1>5. Lists(u.held, At(b, "held"))
    <2>1. s.held \in Seq(Tags)
        BY <1>1 DEF Shape
    <2>2. QED
        BY <1>1, <1>2, <2>1, QueueMovesFact DEF Moves, Places
<1>6. Lists(u.dmaQ, At(b, "dma"))
    <2>1. s.dmaQ \in Seq(Tags)
        BY <1>1 DEF Shape
    <2>2. QED
        BY <1>1, <1>2, <2>1, QueueMovesFact DEF Moves, Places
<1>7. ASSUME NEW w \in Ways
      PROVE  Lists(u.nandQ[w], OnWay(s.req, b, "nand", w)) /\ Lists(u.rowQ[w], OnWay(s.req, b, "row", w))
    <2>1. s.nandQ[w] \in Seq(Tags) /\ s.rowQ[w] \in Seq(Tags)
        BY <1>1 DEF Shape
    <2>2. ASSUME NEW r \in Places
          PROVE  /\ WayOf[s.req[t].block] = w =>
                        SetMoves(OnWay(s.req, at, r, w), OnWay(s.req, b, r, w), r, t, at[t], q)
                 /\ WayOf[s.req[t].block] # w =>
                        OnWay(s.req, b, r, w) = OnWay(s.req, at, r, w)
                 /\ r = q => t \notin OnWay(s.req, at, r, w)
        BY <1>1, OnWaysMove DEF b
    <2>3. "nand" \in Places /\ "row" \in Places
        BY DEF Places
    <2>4. CASE WayOf[s.req[t].block] = w
        <3>1. /\ QueueMoves(s.nandQ[w], u.nandQ[w], "nand", t, at[t], q)
              /\ QueueMoves(s.rowQ[w], u.rowQ[w], "row", t, at[t], q)
            BY <2>4 DEF Moves
        <3>2. /\ SetMoves(OnWay(s.req, at, "nand", w), OnWay(s.req, b, "nand", w), "nand", t, at[t], q)
              /\ SetMoves(OnWay(s.req, at, "row", w), OnWay(s.req, b, "row", w), "row", t, at[t], q)
              /\ "nand" = q => t \notin OnWay(s.req, at, "nand", w)
              /\ "row" = q => t \notin OnWay(s.req, at, "row", w)
            BY <2>2, <2>3, <2>4
        <3>3. Lists(s.nandQ[w], OnWay(s.req, at, "nand", w)) /\ Lists(s.rowQ[w], OnWay(s.req, at, "row", w))
            BY <1>1
        <3>4. Lists(u.nandQ[w], OnWay(s.req, b, "nand", w))
            BY <2>1, <3>1, <3>2, <3>3, QueueMovesFact
        <3>5. Lists(u.rowQ[w], OnWay(s.req, b, "row", w))
            BY <2>1, <3>1, <3>2, <3>3, QueueMovesFact
        <3>6. QED
            BY <3>4, <3>5
    <2>5. CASE WayOf[s.req[t].block] # w
        <3>1. u.nandQ[w] = s.nandQ[w] /\ u.rowQ[w] = s.rowQ[w]
            BY <2>5 DEF Moves
        <3>2. QED
            BY <1>1, <2>2, <2>3, <2>5, <3>1
    <2>6. QED
        BY <2>4, <2>5
<1>8. {v} \ {NoTag} = At(b, "wait")
    BY DEF b
<1>9. Placed(u, v, b)
    BY <1>3, <1>4, <1>5, <1>6, <1>7, <1>8 DEF Placed
<1>10. QED
    BY <1>9 DEF b

(* A tag that goes where it may go keeps the tags in order. *)
LEMMA CoreMove ==
    ASSUME NEW s, NEW u, NEW wt, NEW at, Core(s, wt, at), NEW t \in Tags,
           NEW q \in Places, at[t] # q, Moves(s, u, t, at[t], q),
           u \in Shape, u.req = s.req,
           NEW v, {v} \ {NoTag} = At(Goes(at, t, q), "wait"),
           Live(q) => Proper(s.req[t]), q = "dma" => IsDma(s.req[t]),
           q \in {"nand", "row"} => NandReq(s.req[t])
    PROVE  Core(u, v, Goes(at, t, q))
<1>1. Fitting(s, at) /\ at \in [Tags -> Places]
    BY CoreFacts
<1>2. Fitting(u, Goes(at, t, q))
    BY <1>1, FittingMove
<1>3. QED
    BY <1>2, PlacedMove, CountedMove DEF Core

LEMMA CoreMoveOn ==
    ASSUME NEW s, NEW u, NEW wt, NEW at, Core(s, wt, at), NEW t \in Tags,
           NEW q \in Places, at[t] # q, Moves(s, u, t, at[t], q),
           u \in Shape, u.req = s.req, q # "wait", at[t] # "wait",
           Live(q) => Proper(s.req[t]), q = "dma" => IsDma(s.req[t]),
           q \in {"nand", "row"} => NandReq(s.req[t])
    PROVE  Core(u, wt, Goes(at, t, q))
<1>1. at \in [Tags -> Places] /\ {wt} \ {NoTag} = At(at, "wait")
    BY CoreFacts
<1>2. At(Goes(at, t, q), "wait") = At(at, "wait")
    BY <1>1, GoesFact DEF Places
<1>3. QED
    BY <1>1, <1>2, CoreMove

SameQueues(s, u) ==
    /\ u.free = s.free /\ u.held = s.held /\ u.bufQ = s.bufQ /\ u.rowQ = s.rowQ
    /\ u.nandQ = s.nandQ /\ u.dmaQ = s.dmaQ
    /\ u.notCompleted = s.notCompleted /\ u.blocked = s.blocked
SameChains(s, u) ==
    u.prevBlocking = s.prevBlocking /\ u.nextBlocking = s.nextBlocking /\ u.tail = s.tail
SameTable(s, u) ==
    /\ u.permitted = s.permitted /\ u.blockedReads = s.blockedReads
    /\ u.eraseFlag = s.eraseFlag

LEMMA CoreSame ==
    ASSUME NEW s, NEW u, NEW wt, NEW at, Core(s, wt, at),
           u \in Shape, u.req = s.req, SameQueues(s, u)
    PROVE  Core(u, wt, at)
BY DEF Core, Placed, Fitting, Counted, SameQueues

(* One tag goes from place p to place q, and nothing else happens. *)
Step(s, u, t, p, q) ==
    /\ u \in Shape /\ u.req = s.req /\ SameChains(s, u) /\ SameTable(s, u)
    /\ Moves(s, u, t, p, q)

LEMMA PutNandMoves ==
    ASSUME NEW s \in Shape, NEW t \in Tags, NandReq(s.req[t]),
           NEW w \in Ways, w = WayOf[s.req[t].block],
           NEW u, u = PutToNandReqQ(s, t)
    PROVE  Step(s, u, t, "loose", "nand")
<1>1. u = [s EXCEPT !.nandQ = [s.nandQ EXCEPT ![w] = Append(s.nandQ[w], t)],
                    !.notCompleted = s.notCompleted + 1]
    BY DEF PutToNandReqQ
<1>2. [s.nandQ EXCEPT ![w] = Append(s.nandQ[w], t)] \in [Ways -> Seq(Tags)]
    BY DEF Shape
<1>3. s.notCompleted + 1 \in Int /\ s.notCompleted \in Int /\ s.blocked \in Int
    BY DEF Shape
<1>4. u \in Shape
    BY <1>1, <1>2, <1>3 DEF Shape
<1>5. /\ SameChains(s, u) /\ SameTable(s, u) /\ u.req = s.req
      /\ u.free = s.free /\ u.held = s.held /\ u.bufQ = s.bufQ /\ u.rowQ = s.rowQ
      /\ u.dmaQ = s.dmaQ /\ u.notCompleted = s.notCompleted + 1 /\ u.blocked = s.blocked
      /\ u.nandQ = [s.nandQ EXCEPT ![w] = Append(s.nandQ[w], t)]
    BY <1>1 DEF Shape, SameChains, SameTable
<1>6. /\ u.nandQ[w] = Append(s.nandQ[w], t)
      /\ \A v \in Ways \ {w} : u.nandQ[v] = s.nandQ[v]
    BY <1>5 DEF Shape
<1>7. u.notCompleted = s.notCompleted + 1 - 0 /\ u.blocked = s.blocked + 0 - 0
    <2>1. \A n \in Int : n + 1 = n + 1 - 0 /\ n = n + 0 - 0
        OBVIOUS
    <2>2. QED
        BY <1>3, <1>5, <2>1
<1>8. Moves(s, u, t, "loose", "nand")
    BY <1>5, <1>6, <1>7 DEF Moves, SetMoves, QueueMoves
<1>9. QED
    BY <1>4, <1>5, <1>6, <1>8 DEF Step

LEMMA PutRowMoves ==
    ASSUME NEW s \in Shape, NEW t \in Tags, NandReq(s.req[t]),
           NEW w \in Ways, w = WayOf[s.req[t].block],
           NEW u, u = PutToBlockedByRowAddrDepReqQ(s, t)
    PROVE  Step(s, u, t, "loose", "row")
<1>1. u = [s EXCEPT !.rowQ = [s.rowQ EXCEPT ![w] = Append(s.rowQ[w], t)],
                    !.blocked = s.blocked + 1]
    BY DEF PutToBlockedByRowAddrDepReqQ
<1>2. [s.rowQ EXCEPT ![w] = Append(s.rowQ[w], t)] \in [Ways -> Seq(Tags)]
    BY DEF Shape
<1>3. s.blocked + 1 \in Int /\ s.notCompleted \in Int /\ s.blocked \in Int
    BY DEF Shape
<1>4. u \in Shape
    BY <1>1, <1>2, <1>3 DEF Shape
<1>5. /\ SameChains(s, u) /\ SameTable(s, u) /\ u.req = s.req
      /\ u.free = s.free /\ u.held = s.held /\ u.bufQ = s.bufQ /\ u.nandQ = s.nandQ
      /\ u.dmaQ = s.dmaQ /\ u.notCompleted = s.notCompleted /\ u.blocked = s.blocked + 1
      /\ u.rowQ = [s.rowQ EXCEPT ![w] = Append(s.rowQ[w], t)]
    BY <1>1 DEF Shape, SameChains, SameTable
<1>6. /\ u.rowQ[w] = Append(s.rowQ[w], t)
      /\ \A v \in Ways \ {w} : u.rowQ[v] = s.rowQ[v]
    BY <1>5 DEF Shape
<1>7. u.notCompleted = s.notCompleted + 0 - 0 /\ u.blocked = s.blocked + 1 - 0
    <2>1. \A n \in Int : n + 1 = n + 1 - 0 /\ n = n + 0 - 0
        OBVIOUS
    <2>2. QED
        BY <1>3, <1>5, <2>1
<1>8. Moves(s, u, t, "loose", "row")
    BY <1>5, <1>6, <1>7 DEF Moves, SetMoves, QueueMoves
<1>9. QED
    BY <1>4, <1>5, <1>6, <1>8 DEF Step

LEMMA PutDmaMoves ==
    ASSUME NEW s \in Shape, NEW t \in Tags, NEW u, u = PutToNvmeDmaReqQ(s, t)
    PROVE  Step(s, u, t, "loose", "dma")
<1>1. u = [s EXCEPT !.dmaQ = Append(s.dmaQ, t)]
    BY DEF PutToNvmeDmaReqQ
<1>2. Append(s.dmaQ, t) \in Seq(Tags)
    BY DEF Shape
<1>3. s.notCompleted \in Int /\ s.blocked \in Int
    BY DEF Shape
<1>4. u \in Shape
    BY <1>1, <1>2 DEF Shape
<1>5. /\ SameChains(s, u) /\ SameTable(s, u) /\ u.req = s.req
      /\ u.free = s.free /\ u.held = s.held /\ u.bufQ = s.bufQ /\ u.nandQ = s.nandQ
      /\ u.rowQ = s.rowQ /\ u.notCompleted = s.notCompleted /\ u.blocked = s.blocked
      /\ u.dmaQ = Append(s.dmaQ, t)
    BY <1>1 DEF Shape, SameChains, SameTable
<1>6. u.notCompleted = s.notCompleted + 0 - 0 /\ u.blocked = s.blocked + 0 - 0
    BY <1>3, <1>5
<1>7. Moves(s, u, t, "loose", "dma")
    BY <1>5, <1>6 DEF Moves, SetMoves, QueueMoves
<1>8. QED
    BY <1>4, <1>5, <1>7 DEF Step

LEMMA PutBufMoves ==
    ASSUME NEW s \in Shape, NEW t \in Tags, NEW u, u = PutToBlockedByBufDepReqQ(s, t)
    PROVE  Step(s, u, t, "loose", "buf")
<1>1. u = [s EXCEPT !.bufQ = s.bufQ \cup {t}, !.blocked = s.blocked + 1]
    BY DEF PutToBlockedByBufDepReqQ
<1>2. s.bufQ \cup {t} \in SUBSET Tags
    BY DEF Shape
<1>3. s.blocked + 1 \in Int /\ s.notCompleted \in Int /\ s.blocked \in Int
    BY DEF Shape
<1>4. u \in Shape
    BY <1>1, <1>2, <1>3 DEF Shape
<1>5. /\ SameChains(s, u) /\ SameTable(s, u) /\ u.req = s.req
      /\ u.free = s.free /\ u.held = s.held /\ u.dmaQ = s.dmaQ /\ u.nandQ = s.nandQ
      /\ u.rowQ = s.rowQ /\ u.notCompleted = s.notCompleted /\ u.blocked = s.blocked + 1
      /\ u.bufQ = s.bufQ \cup {t}
    BY <1>1 DEF Shape, SameChains, SameTable
<1>6. u.notCompleted = s.notCompleted + 0 - 0 /\ u.blocked = s.blocked + 1 - 0
    BY <1>3, <1>5
<1>7. Moves(s, u, t, "loose", "buf")
    BY <1>5, <1>6 DEF Moves, SetMoves, QueueMoves
<1>8. QED
    BY <1>4, <1>5, <1>7 DEF Step

LEMMA GetBufMoves ==
    ASSUME NEW s \in Shape, NEW t \in Tags,
           NEW u, u = SelectiveGetFromBlockedByBufDepReqQ(s, t)
    PROVE  Step(s, u, t, "buf", "loose")
<1>1. u = [s EXCEPT !.bufQ = s.bufQ \ {t}, !.blocked = s.blocked - 1]
    BY DEF SelectiveGetFromBlockedByBufDepReqQ
<1>2. s.bufQ \ {t} \in SUBSET Tags
    BY DEF Shape
<1>3. s.blocked - 1 \in Int /\ s.notCompleted \in Int /\ s.blocked \in Int
    BY DEF Shape
<1>4. u \in Shape
    BY <1>1, <1>2, <1>3 DEF Shape
<1>5. /\ SameChains(s, u) /\ SameTable(s, u) /\ u.req = s.req
      /\ u.free = s.free /\ u.held = s.held /\ u.dmaQ = s.dmaQ /\ u.nandQ = s.nandQ
      /\ u.rowQ = s.rowQ /\ u.notCompleted = s.notCompleted /\ u.blocked = s.blocked - 1
      /\ u.bufQ = s.bufQ \ {t}
    BY <1>1 DEF Shape, SameChains, SameTable
<1>6. u.notCompleted = s.notCompleted + 0 - 0 /\ u.blocked = s.blocked + 0 - 1
    BY <1>3, <1>5
<1>7. Moves(s, u, t, "buf", "loose")
    BY <1>5, <1>6 DEF Moves, SetMoves, QueueMoves
<1>8. QED
    BY <1>4, <1>5, <1>7 DEF Step

LEMMA GetRowMoves ==
    ASSUME NEW s \in Shape, NEW t \in Tags, NandReq(s.req[t]),
           NEW w \in Ways, w = WayOf[s.req[t].block],
           Once(s.rowQ[w]), t \in Range(s.rowQ[w]),
           NEW u, u = SelectiveGetFromBlockedByRowAddrDepReqQ(s, t)
    PROVE  Step(s, u, t, "row", "loose")
<1> DEFINE q == Without(s.rowQ[w], t)
<1>1. u = [s EXCEPT !.rowQ = [s.rowQ EXCEPT ![w] = q], !.blocked = s.blocked - 1]
    BY DEF SelectiveGetFromBlockedByRowAddrDepReqQ
<1>2. q \in Seq(Tags) /\ Lists(q, Range(s.rowQ[w]) \ {t})
    <2>1. s.rowQ[w] \in Seq(Tags) /\ Lists(s.rowQ[w], Range(s.rowQ[w]))
        BY DEF Shape, Lists
    <2>2. QED
        BY <2>1, ListsWithout
<1> HIDE DEF q
<1>3. s.blocked - 1 \in Int /\ s.notCompleted \in Int /\ s.blocked \in Int
    BY DEF Shape
<1>4. u \in Shape
    <2>1. [s.rowQ EXCEPT ![w] = q] \in [Ways -> Seq(Tags)]
        BY <1>2 DEF Shape
    <2>2. QED
        BY <1>1, <1>3, <2>1 DEF Shape
<1>5. /\ SameChains(s, u) /\ SameTable(s, u) /\ u.req = s.req
      /\ u.free = s.free /\ u.held = s.held /\ u.bufQ = s.bufQ /\ u.nandQ = s.nandQ
      /\ u.dmaQ = s.dmaQ /\ u.notCompleted = s.notCompleted /\ u.blocked = s.blocked - 1
      /\ u.rowQ = [s.rowQ EXCEPT ![w] = q]
    BY <1>1 DEF Shape, SameChains, SameTable
<1>6. u.rowQ[w] = q /\ \A v \in Ways \ {w} : u.rowQ[v] = s.rowQ[v]
    BY <1>5 DEF Shape
<1>7. u.notCompleted = s.notCompleted + 0 - 0 /\ u.blocked = s.blocked + 0 - 1
    BY <1>3, <1>5
<1>8. Moves(s, u, t, "row", "loose")
    BY <1>2, <1>5, <1>6, <1>7 DEF Moves, SetMoves, QueueMoves
<1>9. Range(u.rowQ[w]) = Range(s.rowQ[w]) \ {t}
    BY <1>2, <1>6 DEF Lists
<1>10. QED
    BY <1>4, <1>5, <1>6, <1>8, <1>9 DEF Step

LEMMA GetDmaMoves ==
    ASSUME NEW s \in Shape, NEW t \in Tags, Once(s.dmaQ), t \in Range(s.dmaQ),
           NEW u, u = [s EXCEPT !.dmaQ = Without(s.dmaQ, t)]
    PROVE  Step(s, u, t, "dma", "loose")
<1> DEFINE q == Without(s.dmaQ, t)
<1>1. q \in Seq(Tags) /\ Lists(q, Range(s.dmaQ) \ {t})
    <2>1. s.dmaQ \in Seq(Tags) /\ Lists(s.dmaQ, Range(s.dmaQ))
        BY DEF Shape, Lists
    <2>2. QED
        BY <2>1, ListsWithout
<1> HIDE DEF q
<1>2. s.notCompleted \in Int /\ s.blocked \in Int
    BY DEF Shape
<1>3. u = [s EXCEPT !.dmaQ = q]
    BY DEF q
<1>4. u \in Shape
    BY <1>1, <1>3 DEF Shape
<1>5. /\ SameChains(s, u) /\ SameTable(s, u) /\ u.req = s.req
      /\ u.free = s.free /\ u.held = s.held /\ u.bufQ = s.bufQ /\ u.nandQ = s.nandQ
      /\ u.rowQ = s.rowQ /\ u.notCompleted = s.notCompleted /\ u.blocked = s.blocked
      /\ u.dmaQ = q
    BY <1>3 DEF Shape, SameChains, SameTable
<1>6. u.notCompleted = s.notCompleted + 0 - 0 /\ u.blocked = s.blocked + 0 - 0
    BY <1>2, <1>5
<1>7. Moves(s, u, t, "dma", "loose")
    BY <1>1, <1>5, <1>6 DEF Moves, SetMoves, QueueMoves
<1>8. QED
    BY <1>4, <1>5, <1>7 DEF Step

LEMMA GetNandMoves ==
    ASSUME NEW s \in Shape, NEW w \in Ways, NEW t \in Tags, w = WayOf[s.req[t].block],
           NEW q \in Seq(Tags), Lists(q, Range(s.nandQ[w]) \ {t}),
           NEW u, u = [s EXCEPT !.nandQ = [s.nandQ EXCEPT ![w] = q],
                                !.notCompleted = s.notCompleted - 1]
    PROVE  Step(s, u, t, "nand", "loose")
<1>1. s.notCompleted - 1 \in Int /\ s.notCompleted \in Int /\ s.blocked \in Int
    BY DEF Shape
<1>2. u \in Shape
    <2>1. [s.nandQ EXCEPT ![w] = q] \in [Ways -> Seq(Tags)]
        BY DEF Shape
    <2>2. QED
        BY <1>1, <2>1 DEF Shape
<1>3. /\ SameChains(s, u) /\ SameTable(s, u) /\ u.req = s.req
      /\ u.free = s.free /\ u.held = s.held /\ u.bufQ = s.bufQ /\ u.rowQ = s.rowQ
      /\ u.dmaQ = s.dmaQ /\ u.notCompleted = s.notCompleted - 1 /\ u.blocked = s.blocked
      /\ u.nandQ = [s.nandQ EXCEPT ![w] = q]
    BY DEF Shape, SameChains, SameTable
<1>4. u.nandQ[w] = q /\ \A v \in Ways \ {w} : u.nandQ[v] = s.nandQ[v]
    BY <1>3 DEF Shape
<1>5. u.notCompleted = s.notCompleted + 0 - 1 /\ u.blocked = s.blocked + 0 - 0
    BY <1>1, <1>3
<1>6. Moves(s, u, t, "nand", "loose")
    BY <1>3, <1>4, <1>5 DEF Moves, SetMoves, QueueMoves
<1>7. QED
    BY <1>2, <1>3, <1>4, <1>6 DEF Step

LEMMA FreeMoves ==
    ASSUME NEW s \in Shape, NEW t \in Tags, NEW u, u = [s EXCEPT !.free = @ \cup {t}]
    PROVE  Step(s, u, t, "loose", "free")
<1>1. s.free \cup {t} \in SUBSET Tags /\ s.notCompleted \in Int /\ s.blocked \in Int
    BY DEF Shape
<1>2. u \in Shape
    BY <1>1 DEF Shape
<1>3. /\ SameChains(s, u) /\ SameTable(s, u) /\ u.req = s.req
      /\ u.free = s.free \cup {t} /\ u.held = s.held /\ u.bufQ = s.bufQ /\ u.nandQ = s.nandQ
      /\ u.rowQ = s.rowQ /\ u.notCompleted = s.notCompleted /\ u.blocked = s.blocked
      /\ u.dmaQ = s.dmaQ
    BY DEF Shape, SameChains, SameTable
<1>4. u.notCompleted = s.notCompleted + 0 - 0 /\ u.blocked = s.blocked + 0 - 0
    BY <1>1, <1>3
<1>5. Moves(s, u, t, "loose", "free")
    BY <1>3, <1>4 DEF Moves, SetMoves, QueueMoves
<1>6. QED
    BY <1>2, <1>3, <1>5 DEF Step

LEMMA TakeFreeMoves ==
    ASSUME NEW s \in Shape, NEW t \in Tags, NEW u, u = [s EXCEPT !.free = @ \ {t}]
    PROVE  Step(s, u, t, "free", "new")
<1>1. s.free \ {t} \in SUBSET Tags /\ s.notCompleted \in Int /\ s.blocked \in Int
    BY DEF Shape
<1>2. u \in Shape
    BY <1>1 DEF Shape
<1>3. /\ SameChains(s, u) /\ SameTable(s, u) /\ u.req = s.req
      /\ u.free = s.free \ {t} /\ u.held = s.held /\ u.bufQ = s.bufQ /\ u.nandQ = s.nandQ
      /\ u.rowQ = s.rowQ /\ u.notCompleted = s.notCompleted /\ u.blocked = s.blocked
      /\ u.dmaQ = s.dmaQ
    BY DEF Shape, SameChains, SameTable
<1>4. u.notCompleted = s.notCompleted + 0 - 0 /\ u.blocked = s.blocked + 0 - 0
    BY <1>1, <1>3
<1>5. Moves(s, u, t, "free", "new")
    BY <1>3, <1>4 DEF Moves, SetMoves, QueueMoves
<1>6. QED
    BY <1>2, <1>3, <1>5 DEF Step

LEMMA HoldMoves ==
    ASSUME NEW s \in Shape, NEW t \in Tags, NEW u, u = [s EXCEPT !.held = Append(@, t)]
    PROVE  Step(s, u, t, "new", "held") /\ Len(u.held) = Len(s.held) + 1
<1>1. /\ Append(s.held, t) \in Seq(Tags) /\ Len(Append(s.held, t)) = Len(s.held) + 1
      /\ s.notCompleted \in Int /\ s.blocked \in Int
    BY DEF Shape
<1>2. u \in Shape
    BY <1>1 DEF Shape
<1>3. /\ SameChains(s, u) /\ SameTable(s, u) /\ u.req = s.req
      /\ u.free = s.free /\ u.held = Append(s.held, t) /\ u.bufQ = s.bufQ /\ u.nandQ = s.nandQ
      /\ u.rowQ = s.rowQ /\ u.notCompleted = s.notCompleted /\ u.blocked = s.blocked
      /\ u.dmaQ = s.dmaQ
    BY DEF Shape, SameChains, SameTable
<1>4. u.notCompleted = s.notCompleted + 0 - 0 /\ u.blocked = s.blocked + 0 - 0
    BY <1>1, <1>3
<1>5. Moves(s, u, t, "new", "held")
    BY <1>3, <1>4 DEF Moves, SetMoves, QueueMoves
<1>6. QED
    BY <1>1, <1>2, <1>3, <1>5 DEF Step

LEMMA UnholdMoves ==
    ASSUME NEW s \in Shape, Once(s.held), s.held # <<>>,
           NEW t, t = Last(s.held), NEW u, u = [s EXCEPT !.held = Front(@)]
    PROVE  t \in Tags /\ Step(s, u, t, "held", "new") /\ Len(u.held) = Len(s.held) - 1
<1> DEFINE q == Front(s.held)
<1>1. /\ t \in Tags /\ q \in Seq(Tags) /\ Lists(q, Range(s.held) \ {t})
      /\ Len(q) = Len(s.held) - 1
    <2>1. s.held \in Seq(Tags) /\ Lists(s.held, Range(s.held)) /\ Range(s.held) \subseteq Tags
        BY DEF Shape, Lists, Range
    <2>2. /\ Last(s.held) \in Range(s.held) /\ q \in Seq(Tags)
          /\ Lists(q, Range(s.held) \ {Last(s.held)}) /\ Len(q) = Len(s.held) - 1
        BY <2>1, ListsFront
    <2> HIDE DEF q
    <2>3. QED
        BY <2>1, <2>2
<1>2. u = [s EXCEPT !.held = q] /\ s.notCompleted \in Int /\ s.blocked \in Int
    BY DEF Shape
<1> HIDE DEF q
<1>3. u \in Shape
    BY <1>1, <1>2 DEF Shape
<1>4. /\ SameChains(s, u) /\ SameTable(s, u) /\ u.req = s.req
      /\ u.free = s.free /\ u.held = q /\ u.bufQ = s.bufQ /\ u.nandQ = s.nandQ
      /\ u.rowQ = s.rowQ /\ u.notCompleted = s.notCompleted /\ u.blocked = s.blocked
      /\ u.dmaQ = s.dmaQ
    BY <1>2 DEF Shape, SameChains, SameTable
<1>5. u.notCompleted = s.notCompleted + 0 - 0 /\ u.blocked = s.blocked + 0 - 0
    BY <1>2, <1>4
<1>6. Moves(s, u, t, "held", "new")
    BY <1>1, <1>4, <1>5 DEF Moves, SetMoves, QueueMoves
<1>7. QED
    BY <1>1, <1>3, <1>4, <1>6 DEF Step

(* The request of a tag that is in no queue of its way is replaced. *)
LEMMA SetReqCore ==
    ASSUME NEW s, NEW wt, NEW at, Core(s, wt, at), NEW t \in Tags, NEW r \in Requests,
           at[t] \in {"free", "held", "new"}, NEW u, u = [s EXCEPT !.req[t] = r]
    PROVE  /\ Core(u, wt, at) /\ SameChains(s, u) /\ SameTable(s, u) /\ SameQueues(s, u)
           /\ u.req = [s.req EXCEPT ![t] = r]
<1>1. s \in Shape
    BY CoreFacts
<1>2. u = [s EXCEPT !.req = [s.req EXCEPT ![t] = r]]
    OBVIOUS
<1>3. [s.req EXCEPT ![t] = r] \in [Tags -> Requests]
    BY <1>1 DEF Shape
<1>4. u \in Shape
    BY <1>1, <1>2, <1>3 DEF Shape
<1>5. /\ SameChains(s, u) /\ SameTable(s, u) /\ SameQueues(s, u)
      /\ u.req = [s.req EXCEPT ![t] = r]
    BY <1>1, <1>2 DEF Shape, SameChains, SameTable, SameQueues
<1>6. \A x \in Tags \ {t} : u.req[x] = s.req[x]
    BY <1>1, <1>5 DEF Shape
<1>7. \A w \in Ways, p \in {"nand", "row"} : OnWay(u.req, at, p, w) = OnWay(s.req, at, p, w)
    BY <1>6 DEF OnWay
<1>8. Placed(u, wt, at)
    BY <1>5, <1>7, CoreFacts DEF Placed, SameQueues
<1>9. Fitting(u, at)
    BY <1>6, CoreFacts DEF Fitting, Live
<1>10. Counted(u, at)
    BY <1>5, CoreFacts DEF Counted, SameQueues
<1>11. QED
    BY <1>4, <1>5, <1>8, <1>9, <1>10 DEF Core
-----------------------------------------------------------------------------
(* The row address table *)

(* The table changes for block b only. *)
OnlyBlock(s, u, b) ==
    \A c \in Blocks \ {b} :
        u.permitted[c] = s.permitted[c] /\ u.blockedReads[c] = s.blockedReads[c]

LEMMA RowAddrGoFact ==
    ASSUME NEW s \in Shape, NEW t \in Tags, NandReq(s.req[t]), RowAddrPass(s, t),
           NEW u, u = RowAddrGo(s, t)
    PROVE  /\ u \in Shape /\ u.req = s.req /\ SameQueues(s, u) /\ SameChains(s, u)
           /\ u.blockedReads = s.blockedReads /\ OnlyBlock(s, u, s.req[t].block)
<1> DEFINE b == s.req[t].block
<1>1. b \in Blocks /\ NumPages \in Nat
    BY ReqSizesAssumption DEF NandReq, ReqSizesAssumption
<1>2. CASE s.req[t].code = "WRITE"
    <2>1. u = [s EXCEPT !.permitted = [s.permitted EXCEPT ![b] = @ + 1]]
        BY <1>2 DEF RowAddrGo
    <2>2. s.permitted[b] + 1 \in 0 .. NumPages
        <3>1. s.req[t].page \in Pages /\ s.req[t].page = s.permitted[b]
            BY <1>2 DEF NandReq, RowAddrPass
        <3>2. QED
            BY <1>1, <3>1 DEF Pages
    <2>3. [s.permitted EXCEPT ![b] = @ + 1] \in [Blocks -> 0 .. NumPages]
        BY <1>1, <2>2 DEF Shape
    <2>4. u \in Shape
        BY <2>1, <2>3 DEF Shape
    <2>5. /\ u.req = s.req /\ SameQueues(s, u) /\ SameChains(s, u)
          /\ u.blockedReads = s.blockedReads
        BY <2>1 DEF Shape, SameQueues, SameChains
    <2>6. u.permitted = [s.permitted EXCEPT ![b] = @ + 1]
        BY <2>1 DEF Shape
    <2>7. OnlyBlock(s, u, b)
        BY <2>5, <2>6 DEF Shape, OnlyBlock
    <2>8. QED
        BY <2>4, <2>5, <2>7
<1>3. CASE s.req[t].code = "ERASE"
    <2>1. u = [s EXCEPT !.permitted = [s.permitted EXCEPT ![b] = 0],
                        !.eraseFlag = [s.eraseFlag EXCEPT ![b] = FALSE]]
        BY <1>3 DEF RowAddrGo
    <2>2. /\ [s.permitted EXCEPT ![b] = 0] \in [Blocks -> 0 .. NumPages]
          /\ [s.eraseFlag EXCEPT ![b] = FALSE] \in [Blocks -> BOOLEAN]
        BY <1>1 DEF Shape
    <2>3. u \in Shape
        BY <2>1, <2>2 DEF Shape
    <2>4. /\ u.req = s.req /\ SameQueues(s, u) /\ SameChains(s, u)
          /\ u.blockedReads = s.blockedReads
        BY <2>1 DEF Shape, SameQueues, SameChains
    <2>5. u.permitted = [s.permitted EXCEPT ![b] = 0]
        BY <2>1 DEF Shape
    <2>6. OnlyBlock(s, u, b)
        BY <2>4, <2>5 DEF Shape, OnlyBlock
    <2>7. QED
        BY <2>3, <2>4, <2>6
<1>4. CASE s.req[t].code \notin {"WRITE", "ERASE"}
    <2>1. u = s
        BY <1>4 DEF RowAddrGo
    <2>2. QED
        BY <2>1 DEF SameQueues, SameChains, OnlyBlock
<1>5. QED
    BY <1>2, <1>3, <1>4

LEMMA RowAddrReleaseFact ==
    ASSUME NEW s \in Shape, NEW t \in Tags, NandReq(s.req[t]), RowAddrPass(s, t),
           NEW u, u = RowAddrRelease(s, t)
    PROVE  /\ u \in Shape /\ u.req = s.req /\ SameQueues(s, u) /\ SameChains(s, u)
           /\ OnlyBlock(s, u, s.req[t].block)
           /\ s.req[t].code = "READ" =>
                  u.blockedReads = [s.blockedReads EXCEPT ![s.req[t].block] = @ - 1]
           /\ s.req[t].code # "READ" => u.blockedReads = s.blockedReads
<1> DEFINE b == s.req[t].block
<1>1. b \in Blocks
    BY DEF NandReq
<1>2. CASE s.req[t].code = "READ"
    <2>1. u = [s EXCEPT !.blockedReads = [s.blockedReads EXCEPT ![b] = @ - 1]]
        BY <1>2 DEF RowAddrRelease
    <2>2. [s.blockedReads EXCEPT ![b] = @ - 1] \in [Blocks -> Int]
        BY <1>1 DEF Shape
    <2>3. u \in Shape
        BY <2>1, <2>2 DEF Shape
    <2>4. QED
        BY <1>2, <2>1, <2>3 DEF Shape, SameQueues, SameChains, OnlyBlock
<1>3. CASE s.req[t].code # "READ"
    BY <1>3, RowAddrGoFact DEF RowAddrRelease
<1>4. QED
    BY <1>2, <1>3

LEMMA RowAddrBlockFact ==
    ASSUME NEW s \in Shape, NEW t \in Tags, Proper(s.req[t]),
           NEW u, u = RowAddrBlock(s, t)
    PROVE  /\ u \in Shape /\ u.req = s.req /\ SameQueues(s, u) /\ SameChains(s, u)
           /\ u.permitted = s.permitted
           /\ s.req[t].code = "READ" =>
                  u.blockedReads = [s.blockedReads EXCEPT ![s.req[t].block] = @ + 1]
           /\ s.req[t].code # "READ" => u.blockedReads = s.blockedReads
<1> DEFINE b == s.req[t].block
<1>1. s.req[t].code \in {"READ", "ERASE"} => b \in Blocks
    BY DEF Proper, NandReq, IsDma, DmaCodes
<1>2. CASE s.req[t].code = "READ"
    <2>1. u = [s EXCEPT !.blockedReads = [s.blockedReads EXCEPT ![b] = @ + 1]]
        BY <1>2 DEF RowAddrBlock
    <2>2. [s.blockedReads EXCEPT ![b] = @ + 1] \in [Blocks -> Int]
        BY <1>1, <1>2 DEF Shape
    <2>3. u \in Shape
        BY <2>1, <2>2 DEF Shape
    <2>4. QED
        BY <1>2, <2>1, <2>3 DEF Shape, SameQueues, SameChains
<1>3. CASE s.req[t].code = "ERASE"
    <2>1. u = [s EXCEPT !.eraseFlag = [s.eraseFlag EXCEPT ![b] = TRUE]]
        BY <1>3 DEF RowAddrBlock
    <2>2. [s.eraseFlag EXCEPT ![b] = TRUE] \in [Blocks -> BOOLEAN]
        BY <1>1, <1>3 DEF Shape
    <2>3. u \in Shape
        BY <2>1, <2>2 DEF Shape
    <2>4. QED
        BY <1>3, <2>1, <2>3 DEF Shape, SameQueues, SameChains
<1>4. CASE s.req[t].code \notin {"READ", "ERASE"}
    <2>1. u = s
        BY <1>4 DEF RowAddrBlock
    <2>2. QED
        BY <1>4, <2>1 DEF SameQueues, SameChains
<1>5. QED
    BY <1>2, <1>3, <1>4

NoFreer(s, u, v) ==
    \A c \in Blocks : WayOf[c] = v =>
        u.permitted[c] = s.permitted[c] /\ u.blockedReads[c] >= s.blockedReads[c]
RowReqsKept(s, u, at) == \A y \in Tags : at[y] = "row" => u.req[y] = s.req[y]

(* A way stays seen while its queues stay and its tables are no freer. *)
LEMMA SeenKept ==
    ASSUME NEW s, NEW u, NEW wt, NEW at, Core(s, wt, at), ReadsCounted(s, at), NEW v \in Ways,
           SeenAt(s, v), u.rowQ[v] = s.rowQ[v],
           u.nandQ[v] = <<>> => s.nandQ[v] = <<>>,
           u.blockedReads \in [Blocks -> Int],
           RowReqsKept(s, u, at), NoFreer(s, u, v)
    PROVE  SeenAt(u, v)
<1>1. SUFFICES ASSUME u.nandQ[v] = <<>>, NEW y \in Range(u.rowQ[v])
               PROVE  ~RowAddrPass(u, y)
    BY DEF SeenAt
<1>2. y \in OnWay(s.req, at, "row", v)
    BY <1>1, CoreFacts DEF Lists
<1>3. y \in Tags /\ at[y] = "row" /\ WayOf[s.req[y].block] = v
    BY <1>2 DEF OnWay
<1>4. NandReq(s.req[y]) /\ s.req[y].block \in Blocks
    BY <1>3, CoreFacts DEF Fitting, NandReq
<1>5. ~RowAddrPass(s, y)
    BY <1>1 DEF SeenAt
<1>6. u.req[y] = s.req[y]
    BY <1>3 DEF RowReqsKept
<1>7. /\ u.permitted[s.req[y].block] = s.permitted[s.req[y].block]
      /\ u.blockedReads[s.req[y].block] >= s.blockedReads[s.req[y].block]
    BY <1>3, <1>4 DEF NoFreer
<1>8. u.blockedReads[s.req[y].block] = 0 => s.blockedReads[s.req[y].block] = 0
    <2>1. ReadsOf(s.req, at, s.req[y].block) \in SUBSET Tags
        BY DEF ReadsOf
    <2>2. s.blockedReads[s.req[y].block] \in Nat
        BY <1>4, <2>1, SetCount DEF ReadsCounted
    <2>3. u.blockedReads[s.req[y].block] \in Int
        BY <1>4
    <2>4. \A m \in Int, n \in Nat : m >= n /\ m = 0 => n = 0
        OBVIOUS
    <2>5. QED
        BY <1>7, <2>2, <2>3, <2>4
<1>9. QED
    BY <1>5, <1>6, <1>7, <1>8 DEF RowAddrPass

LEMMA SeenOther ==
    ASSUME NEW s, NEW u, NEW wt, NEW at, Core(s, wt, at), ReadsCounted(s, at), NEW v \in Ways,
           SeenAt(s, v), u \in Shape,
           u.rowQ[v] = s.rowQ[v], u.nandQ[v] = s.nandQ[v],
           RowReqsKept(s, u, at), NEW b, WayOf[b] # v, OnlyBlock(s, u, b)
    PROVE  SeenAt(u, v)
<1>1. u.blockedReads \in [Blocks -> Int] /\ s.blockedReads \in [Blocks -> Int]
    BY CoreFacts DEF Shape
<1>2. NoFreer(s, u, v)
    BY <1>1 DEF OnlyBlock, NoFreer
<1>3. u.nandQ[v] = <<>> => s.nandQ[v] = <<>>
    OBVIOUS
<1>4. QED
    BY <1>1, <1>2, <1>3, SeenKept

LEMMA ChainedMove ==
    ASSUME NEW s \in Shape, NEW u, NEW at, Chained(s, at), at \in [Tags -> Places],
           SameChains(s, u), u.req = s.req,
           NEW t \in Tags, Live(at[t]), NEW q \in Places, Live(q),
           q \in {"nand", "row", "dma"} => s.prevBlocking[t] = NoTag
    PROVE  Chained(u, Goes(at, t, q))
<1> DEFINE b == Goes(at, t, q)
<1>1. b[t] = q /\ \A y \in Tags \ {t} : b[y] = at[y]
    BY DEF Goes
<1> HIDE DEF b
<1>2. \A y \in Tags : Live(b[y]) <=> Live(at[y])
    BY <1>1
<1>3. OneHead(u, b) /\ HeadHasTail(u, b)
    BY <1>2 DEF Chained, OneHead, HeadHasTail, SameChains
<1>4. ASSUME NEW y \in Tags, u.nextBlocking[y] # NoTag
      PROVE  LET z == u.nextBlocking[y] IN
             /\ Live(b[y]) /\ Live(b[z])
             /\ u.req[y].entry \in Entries /\ u.req[z].entry = u.req[y].entry
             /\ u.prevBlocking[z] = y
    <2>1. u.nextBlocking[y] \in Tags /\ s.nextBlocking[y] = u.nextBlocking[y]
        BY <1>4 DEF Shape, SameChains
    <2>2. QED
        BY <1>2, <1>4, <2>1 DEF Chained, LinksFit, SameChains
<1>5. LinksFit(u, b)
    BY <1>4 DEF LinksFit
<1>6. TailsFit(u, b)
    BY <1>2 DEF Chained, TailsFit, SameChains, Shape
<1>7. HeadsReleased(u, b) /\ RestUnlinked(u, b)
    BY <1>1, <1>2 DEF Chained, HeadsReleased, RestUnlinked, SameChains
<1>8. QED
    BY <1>3, <1>5, <1>6, <1>7 DEF Chained, b
-----------------------------------------------------------------------------
(* What is selected and released *)

Blocked(p) == p \in {"row", "buf"}

LEMMA ReadsMove ==
    ASSUME NEW s \in Shape, NEW u, NEW at \in [Tags -> Places], ReadsCounted(s, at),
           u.req = s.req, NEW t \in Tags, NEW q \in Places,
           s.req[t].code = "READ" => s.req[t].block \in Blocks,
           NEW d \in Int, d = (IF Blocked(q) THEN 1 ELSE 0) - (IF Blocked(at[t]) THEN 1 ELSE 0),
           s.req[t].code = "READ" =>
               u.blockedReads = [s.blockedReads EXCEPT ![s.req[t].block] = @ + d],
           s.req[t].code # "READ" => u.blockedReads = s.blockedReads
    PROVE  ReadsCounted(u, Goes(at, t, q))
<1> DEFINE a == Goes(at, t, q)
           r == s.req[t]
<1>1. a[t] = q /\ \A y \in Tags \ {t} : a[y] = at[y]
    BY DEF Goes
<1>2. SUFFICES ASSUME NEW b \in Blocks
               PROVE  u.blockedReads[b] = Cardinality(ReadsOf(s.req, a, b))
    BY DEF ReadsCounted
<1> DEFINE x == ReadsOf(s.req, at, b)
           y == ReadsOf(s.req, a, b)
<1>3. /\ x \in SUBSET Tags /\ y \in SUBSET Tags
      /\ \A z \in Tags : z \in x <=> Blocked(at[z]) /\ s.req[z].code = "READ" /\ s.req[z].block = b
      /\ \A z \in Tags : z \in y <=> Blocked(a[z]) /\ s.req[z].code = "READ" /\ s.req[z].block = b
    BY DEF ReadsOf, Blocked
<1>4. s.blockedReads[b] = Cardinality(x) /\ s.blockedReads \in [Blocks -> Int]
    BY DEF ReadsCounted, Shape
<1>5. /\ Cardinality(x) \in Nat
      /\ t \notin x => Cardinality(x \cup {t}) = Cardinality(x) + 1
      /\ t \in x => Cardinality(x \ {t}) = Cardinality(x) - 1
    BY <1>3, SetCount
<1> HIDE DEF a, x, y
<1>6. CASE r.code = "READ" /\ r.block = b
    <2>1. u.blockedReads[b] = s.blockedReads[b] + d
        BY <1>4, <1>6
    <2>2. CASE Blocked(q) /\ Blocked(at[t])
        <3>1. d = 0
            BY <2>2
        <3>2. \A z \in Tags : z \in y <=> z \in x
            BY <1>1, <1>3, <2>2
        <3>3. y = x
            BY <1>3, <3>2
        <3>4. QED
            BY <1>4, <1>5, <2>1, <3>1, <3>3 DEF y, a
    <2>3. CASE Blocked(q) /\ ~Blocked(at[t])
        <3>1. y = x \cup {t} /\ t \notin x /\ d = 1
            BY <1>1, <1>3, <1>6, <2>3
        <3>2. QED
            BY <1>4, <1>5, <2>1, <3>1 DEF y, a
    <2>4. CASE ~Blocked(q) /\ Blocked(at[t])
        <3>1. y = x \ {t} /\ t \in x /\ d = -1
            BY <1>1, <1>3, <1>6, <2>4
        <3>2. QED
            BY <1>4, <1>5, <2>1, <3>1 DEF y, a
    <2>5. CASE ~Blocked(q) /\ ~Blocked(at[t])
        <3>1. d = 0
            BY <2>5
        <3>2. \A z \in Tags : z \in y <=> z \in x
            BY <1>1, <1>3, <2>5
        <3>3. y = x
            BY <1>3, <3>2
        <3>4. QED
            BY <1>4, <1>5, <2>1, <3>1, <3>3 DEF y, a
    <2>6. QED
        BY <2>2, <2>3, <2>4, <2>5
<1>7. CASE ~(r.code = "READ" /\ r.block = b)
    <2>1. y = x
        <3>1. \A z \in Tags : z \in y <=> z \in x
            BY <1>1, <1>3, <1>7
        <3>2. QED
            BY <1>3, <3>1
    <2>2. u.blockedReads[b] = s.blockedReads[b]
        BY <1>4, <1>7
    <2>3. QED
        BY <1>4, <2>1, <2>2 DEF y, a
<1>8. QED
    BY <1>6, <1>7

LEMMA SoundFacts ==
    ASSUME NEW s, NEW wt, NEW at, NEW x, Sound(s, wt, at, x)
    PROVE  /\ s \in Shape /\ at \in [Tags -> Places] /\ Core(s, wt, at)
           /\ Chained(s, at) /\ ReadsCounted(s, at)
           /\ \A w \in Ways \ x : SeenAt(s, w)
           /\ \A t \in Tags : /\ s.req[t] \in Requests
                              /\ Live(at[t]) => Proper(s.req[t])
                              /\ at[t] \in {"nand", "row"} => NandReq(s.req[t])
BY CoreFacts DEF Sound, Fitting, Shape

LEMMA StepFacts ==
    ASSUME NEW s, NEW u, NEW t, NEW p, NEW q, Step(s, u, t, p, q)
    PROVE  /\ \A w \in Ways \ {WayOf[s.req[t].block]} :
                  u.nandQ[w] = s.nandQ[w] /\ u.rowQ[w] = s.rowQ[w]
           /\ {p, q} \cap {"nand", "row"} = {} =>
                  \A w \in Ways : u.nandQ[w] = s.nandQ[w] /\ u.rowQ[w] = s.rowQ[w]
           /\ {p, q} \cap {"nand", "row"} = {"row"} =>
                  \A w \in Ways : u.nandQ[w] = s.nandQ[w]
           /\ "held" \notin {p, q} => u.held = s.held
           /\ "buf" \notin {p, q} => u.bufQ = s.bufQ
BY DEF Step, Moves, QueueMoves, SetMoves

(* What a step of a tag owes the blocked reads. *)
ReadsFollow(s, u, t, p, q) ==
    LET d == (IF Blocked(q) THEN 1 ELSE 0) - (IF Blocked(p) THEN 1 ELSE 0) IN
    /\ s.req[t].code = "READ" =>
           u.blockedReads = [s.blockedReads EXCEPT ![s.req[t].block] = @ + d]
    /\ s.req[t].code # "READ" => u.blockedReads = s.blockedReads

LEMMA MoveSound ==
    ASSUME NEW s, NEW wt, NEW at, NEW x, Sound(s, wt, at, x),
           NEW t \in Tags, NEW q \in Places, at[t] # q, Live(at[t]), Live(q),
           at[t] # "wait", q # "wait",
           q \in {"nand", "row", "dma"} => s.prevBlocking[t] = NoTag,
           q = "dma" => IsDma(s.req[t]), q \in {"nand", "row"} => NandReq(s.req[t]),
           NEW u \in Shape, u.req = s.req, SameChains(s, u), Moves(s, u, t, at[t], q),
           ReadsFollow(s, u, t, at[t], q),
           NEW y, \A w \in Ways \ y : SeenAt(u, w)
    PROVE  Sound(u, wt, Goes(at, t, q), y)
<1>1. /\ s \in Shape /\ at \in [Tags -> Places] /\ Core(s, wt, at)
      /\ Chained(s, at) /\ ReadsCounted(s, at) /\ Proper(s.req[t])
    BY SoundFacts
<1>2. Core(u, wt, Goes(at, t, q))
    BY <1>1, CoreMoveOn
<1>3. Chained(u, Goes(at, t, q))
    BY <1>1, ChainedMove
<1>4. ReadsCounted(u, Goes(at, t, q))
    <2>1. s.req[t].code = "READ" => s.req[t].block \in Blocks
        BY <1>1 DEF Proper, IsDma, DmaCodes, NandReq
    <2> DEFINE d == (IF Blocked(q) THEN 1 ELSE 0) - (IF Blocked(at[t]) THEN 1 ELSE 0)
    <2>2. d \in Int
        OBVIOUS
    <2>3. /\ s.req[t].code = "READ" =>
                 u.blockedReads = [s.blockedReads EXCEPT ![s.req[t].block] = @ + d]
          /\ s.req[t].code # "READ" => u.blockedReads = s.blockedReads
        BY DEF ReadsFollow
    <2>4. QED
        BY <1>1, <2>1, <2>2, <2>3, ReadsMove
<1>5. QED
    BY <1>2, <1>3, <1>4 DEF Sound

(* Where the ways stand after a step to or from a queue of a way. *)
LEMMA SeenMove ==
    ASSUME NEW s, NEW wt, NEW at, NEW x, Sound(s, wt, at, x),
           NEW t \in Tags, NandReq(s.req[t]), NEW p, NEW q,
           NEW u \in Shape, u.req = s.req, Moves(s, u, t, p, q),
           OnlyBlock(s, u, s.req[t].block),
           NEW v \in Ways \ x, v # WayOf[s.req[t].block]
    PROVE  SeenAt(u, v)
<1>1. u.rowQ[v] = s.rowQ[v] /\ u.nandQ[v] = s.nandQ[v]
    BY DEF Moves
<1>2. RowReqsKept(s, u, at)
    BY DEF RowReqsKept
<1>3. Core(s, wt, at) /\ ReadsCounted(s, at) /\ SeenAt(s, v)
    BY SoundFacts
<1>4. QED
    BY <1>1, <1>2, <1>3, SeenOther

(* After a step elsewhere. *)
LEMMA SeenElsewhere ==
    ASSUME NEW s, NEW wt, NEW at, NEW x, Sound(s, wt, at, x),
           NEW t, NEW p, NEW q, {p, q} \cap {"nand", "row"} = {},
           NEW u \in Shape, RowReqsKept(s, u, at), Moves(s, u, t, p, q),
           NEW v \in Ways \ x, NoFreer(s, u, v)
    PROVE  SeenAt(u, v)
<1>1. u.rowQ[v] = s.rowQ[v] /\ u.nandQ[v] = s.nandQ[v]
    BY DEF Moves, QueueMoves
<1>2. u.nandQ[v] = <<>> => s.nandQ[v] = <<>>
    BY <1>1
<1>3. u.blockedReads \in [Blocks -> Int]
    BY DEF Shape
<1>4. Core(s, wt, at) /\ ReadsCounted(s, at) /\ SeenAt(s, v)
    BY SoundFacts
<1>5. QED
    BY <1>1, <1>2, <1>3, <1>4, SeenKept

(* A request is let go to its way. *)
LEMMA LetGo ==
    ASSUME NEW s, NEW wt, NEW at, NEW x, Sound(s, wt, at, x),
           NEW t \in Tags, at[t] \in {"loose", "row", "buf"},
           s.prevBlocking[t] = NoTag, NandReq(s.req[t]),
           NEW u \in Shape, u.req = s.req, SameChains(s, u), Moves(s, u, t, at[t], "nand"),
           ReadsFollow(s, u, t, at[t], "nand"), OnlyBlock(s, u, s.req[t].block)
    PROVE  Sound(u, wt, Goes(at, t, "nand"), x)
<1> DEFINE w == WayOf[s.req[t].block]
<1>1. w \in Ways
    BY WayOfFact DEF NandReq
<1>2. ASSUME NEW y \in Ways \ x PROVE SeenAt(u, y)
    <2>1. CASE y = w
        <3>1. s.nandQ[w] \in Seq(Tags)
            BY <1>1, SoundFacts DEF Shape
        <3>2. Append(s.nandQ[w], t) # <<>>
            BY <3>1, AppendNonEmpty
        <3>3. u.nandQ[w] = Append(s.nandQ[w], t)
            BY <1>1 DEF Moves, QueueMoves
        <3>4. QED
            BY <2>1, <3>2, <3>3 DEF SeenAt
    <2>2. CASE y # w
        BY <1>2, <2>2, SeenMove
    <2>3. QED
        BY <2>1, <2>2
<1>3. QED
    BY <1>2, MoveSound DEF Live, Places

(* A request is blocked by the table of its block. *)
LEMMA KeptBack ==
    ASSUME NEW s, NEW wt, NEW at, NEW x, Sound(s, wt, at, x),
           NEW t \in Tags, at[t] \in {"loose", "buf"},
           s.prevBlocking[t] = NoTag, NandReq(s.req[t]), ~RowAddrPass(s, t),
           NEW u \in Shape, u.req = s.req, SameChains(s, u), Moves(s, u, t, at[t], "row"),
           u.permitted = s.permitted, ReadsFollow(s, u, t, at[t], "row")
    PROVE  Sound(u, wt, Goes(at, t, "row"), x)
<1> DEFINE b == s.req[t].block
           w == WayOf[b]
<1>1. w \in Ways /\ b \in Blocks
    BY WayOfFact DEF NandReq
<1>2. /\ s \in Shape /\ at \in [Tags -> Places] /\ Core(s, wt, at)
      /\ Chained(s, at) /\ ReadsCounted(s, at)
    BY SoundFacts
<1>3. OnlyBlock(s, u, b)
    BY <1>1, <1>2 DEF ReadsFollow, OnlyBlock, Shape
<1>4. \A c \in Blocks : s.blockedReads[c] \in Nat
    <2>1. \A c \in Blocks : ReadsOf(s.req, at, c) \in SUBSET Tags
        BY DEF ReadsOf
    <2>2. QED
        BY <1>2, <2>1, SetCount DEF ReadsCounted
<1>5. /\ s.req[t].code = "READ" => u.blockedReads[b] \in {s.blockedReads[b], s.blockedReads[b] + 1}
      /\ s.req[t].code # "READ" => u.blockedReads[b] = s.blockedReads[b]
    <2>1. PICK d : d = (IF Blocked("row") THEN 1 ELSE 0) - (IF Blocked(at[t]) THEN 1 ELSE 0)
        OBVIOUS
    <2>2. d \in {0, 1}
        BY <2>1 DEF Blocked
    <2>3. /\ s.req[t].code = "READ" => u.blockedReads = [s.blockedReads EXCEPT ![b] = @ + d]
          /\ s.req[t].code # "READ" => u.blockedReads = s.blockedReads
        BY <2>1 DEF ReadsFollow
    <2>4. s.blockedReads \in [Blocks -> Int]
        BY <1>2 DEF Shape
    <2>5. s.req[t].code = "READ" => u.blockedReads[b] = s.blockedReads[b] + d
        BY <1>1, <2>3, <2>4
    <2>6. s.blockedReads[b] + 0 = s.blockedReads[b]
        BY <1>1, <2>4
    <2>7. QED
        BY <2>2, <2>3, <2>5, <2>6
<1>6. \A y \in Tags : RowAddrPass(u, y) /\ s.req[y].block \in Blocks => RowAddrPass(s, y)
    <2>1. \A c \in Blocks : u.blockedReads[c] = 0 => s.blockedReads[c] = 0
        <3>1. \A n \in Nat : n + 1 # 0
            OBVIOUS
        <3>2. QED
            BY <1>3, <1>4, <1>5, <3>1 DEF OnlyBlock
    <2>2. QED
        BY <2>1 DEF RowAddrPass
<1>7. ASSUME NEW y \in Ways \ x PROVE SeenAt(u, y)
    <2>1. CASE y = w
        <3>1. /\ u.nandQ[w] = s.nandQ[w] /\ u.rowQ[w] = Append(s.rowQ[w], t)
            BY <1>1 DEF Moves, QueueMoves
        <3>2. s.rowQ[w] \in Seq(Tags) /\ Lists(s.rowQ[w], OnWay(s.req, at, "row", w))
            BY <1>1, <1>2, CoreFacts DEF Shape
        <3>3. ASSUME NEW z \in Range(u.rowQ[w]) PROVE z = t \/ z \in Range(s.rowQ[w])
            <4>1. t \notin OnWay(s.req, at, "row", w)
                BY DEF OnWay
            <4>2. Range(u.rowQ[w]) = OnWay(s.req, at, "row", w) \cup {t}
                <5>1. Lists(Append(s.rowQ[w], t), OnWay(s.req, at, "row", w) \cup {t})
                    BY <3>2, <4>1, ListsAppend
                <5>2. QED
                    BY <3>1, <5>1 DEF Lists
            <4>3. QED
                BY <3>2, <3>3, <4>2 DEF Lists
        <3>4. ASSUME NEW z \in Range(s.rowQ[w]) PROVE z \in Tags /\ s.req[z].block \in Blocks
            <4>1. z \in Tags /\ at[z] = "row"
                BY <3>2, <3>4 DEF Lists, OnWay
            <4>2. QED
                BY <4>1, SoundFacts DEF NandReq
        <3>5. SeenAt(s, w)
            BY <1>7, <2>1, SoundFacts
        <3>6. QED
            BY <1>1, <1>6, <2>1, <3>1, <3>3, <3>4, <3>5 DEF SeenAt
    <2>2. CASE y # w
        BY <1>3, <1>7, <2>2, SeenMove
    <2>3. QED
        BY <2>1, <2>2
<1>8. QED
    BY <1>7, MoveSound DEF Live, Places

LEMMA MovesAfterSame ==
    ASSUME NEW s, NEW v, NEW u, NEW t, NEW p, NEW q,
           SameQueues(s, v), v.req = s.req, Moves(v, u, t, p, q)
    PROVE  Moves(s, u, t, p, q)
BY DEF Moves, SameQueues

LEMMA MovesThenSame ==
    ASSUME NEW s, NEW v, NEW u, NEW t, NEW p, NEW q,
           Moves(s, v, t, p, q), SameQueues(v, u)
    PROVE  Moves(s, u, t, p, q)
BY DEF Moves, SameQueues

(* A blocked request is taken from where it is and put elsewhere. *)
LEMMA MovesOn ==
    ASSUME NEW s \in Shape, NEW v, NEW u, NEW t, NEW p \in {"row", "buf"},
           NEW q \in {"nand", "row", "dma"} \ {p}, v.req = s.req,
           Moves(s, v, t, p, "loose"), Moves(v, u, t, "loose", q)
    PROVE  Moves(s, u, t, p, q)
<1>1. s.notCompleted \in Int /\ s.blocked \in Int
    BY DEF Shape
<1>2. /\ v.notCompleted = s.notCompleted + 0 - 0
      /\ v.blocked = s.blocked + 0 - 1
    BY DEF Moves
<1>3. /\ u.notCompleted = v.notCompleted + (IF q = "nand" THEN 1 ELSE 0) - 0
      /\ u.blocked = v.blocked + (IF q = "row" THEN 1 ELSE 0) - 0
    BY DEF Moves
<1>4. /\ u.notCompleted = s.notCompleted + (IF q = "nand" THEN 1 ELSE 0) - 0
      /\ u.blocked = s.blocked + (IF q = "row" THEN 1 ELSE 0) - 1
    <2>1. \A m \in Int, k \in {0, 1} : /\ m + 0 - 0 + k - 0 = m + k - 0
                                       /\ m + 0 - 1 + k - 0 = m + k - 1
        OBVIOUS
    <2>2. QED
        BY <1>1, <1>2, <1>3, <2>1
<1>5. /\ SetMoves(s.free, u.free, "free", t, p, q)
      /\ SetMoves(s.bufQ, u.bufQ, "buf", t, p, q)
      /\ QueueMoves(s.held, u.held, "held", t, p, q)
      /\ QueueMoves(s.dmaQ, u.dmaQ, "dma", t, p, q)
    BY DEF Moves, SetMoves, QueueMoves
<1>6. ASSUME NEW w \in Ways
      PROVE  IF WayOf[s.req[t].block] = w
             THEN /\ QueueMoves(s.nandQ[w], u.nandQ[w], "nand", t, p, q)
                  /\ QueueMoves(s.rowQ[w], u.rowQ[w], "row", t, p, q)
             ELSE u.nandQ[w] = s.nandQ[w] /\ u.rowQ[w] = s.rowQ[w]
    <2>1. CASE WayOf[s.req[t].block] # w
        BY <2>1 DEF Moves
    <2>2. CASE WayOf[s.req[t].block] = w
        <3>1. /\ QueueMoves(s.nandQ[w], v.nandQ[w], "nand", t, p, "loose")
              /\ QueueMoves(s.rowQ[w], v.rowQ[w], "row", t, p, "loose")
              /\ QueueMoves(v.nandQ[w], u.nandQ[w], "nand", t, "loose", q)
              /\ QueueMoves(v.rowQ[w], u.rowQ[w], "row", t, "loose", q)
            BY <2>2 DEF Moves
        <3>2. QueueMoves(s.nandQ[w], u.nandQ[w], "nand", t, p, q)
            BY <3>1 DEF QueueMoves
        <3>3. QueueMoves(s.rowQ[w], u.rowQ[w], "row", t, p, q)
            BY <3>1 DEF QueueMoves
        <3>4. QED
            BY <2>2, <3>2, <3>3
    <2>3. QED
        BY <2>1, <2>2
<1>7. QED
    BY <1>4, <1>5, <1>6 DEF Moves

LEMMA ReadsStay ==
    ASSUME NEW s \in Shape, NEW u, NEW t, u.blockedReads = s.blockedReads, NEW p, NEW q,
           Blocked(p) <=> Blocked(q), s.req[t].code = "READ" => s.req[t].block \in Blocks
    PROVE  ReadsFollow(s, u, t, p, q)
<1>1. (IF Blocked(q) THEN 1 ELSE 0) - (IF Blocked(p) THEN 1 ELSE 0) = 0
    OBVIOUS
<1>2. \A c \in Blocks : s.blockedReads = [s.blockedReads EXCEPT ![c] = @ + 0]
    BY DEF Shape
<1>3. QED
    BY <1>1, <1>2 DEF ReadsFollow

LEMMA SelectByRowAddrSound ==
    ASSUME NEW s, NEW wt, NEW at, NEW x, Sound(s, wt, at, x),
           NEW t \in Tags, at[t] = "loose", s.prevBlocking[t] = NoTag, NandReq(s.req[t]),
           NEW u, u = SelectByRowAddr(s, t)
    PROVE  /\ \E q \in {"nand", "row"} : Sound(u, wt, Goes(at, t, q), x)
           /\ u.req = s.req /\ u.held = s.held
<1>1. s \in Shape
    BY SoundFacts
<1>2. s.req[t].block \in Blocks /\ WayOf[s.req[t].block] \in Ways
    BY WayOfFact DEF NandReq
<1>3. CASE RowAddrPass(s, t)
    <2>1. PICK v : v = RowAddrGo(s, t)
        OBVIOUS
    <2>2. /\ v \in Shape /\ v.req = s.req /\ SameQueues(s, v) /\ SameChains(s, v)
          /\ v.blockedReads = s.blockedReads /\ OnlyBlock(s, v, s.req[t].block)
        BY <1>1, <1>3, <2>1, RowAddrGoFact
    <2>3. u = PutToNandReqQ(v, t) /\ NandReq(v.req[t])
        BY <1>3, <2>1, <2>2 DEF SelectByRowAddr
    <2>4. Step(v, u, t, "loose", "nand")
        BY <1>2, <2>2, <2>3, PutNandMoves
    <2>5. /\ u \in Shape /\ u.req = s.req /\ SameChains(s, u) /\ Moves(v, u, t, "loose", "nand")
          /\ u.blockedReads = s.blockedReads /\ OnlyBlock(s, u, s.req[t].block)
        BY <2>2, <2>4 DEF Step, SameChains, SameTable, OnlyBlock
    <2>6. Moves(s, u, t, "loose", "nand")
        BY <2>2, <2>5, MovesAfterSame
    <2>7. ReadsFollow(s, u, t, "loose", "nand")
        BY <1>1, <1>2, <2>5, ReadsStay DEF Blocked
    <2>8. Sound(u, wt, Goes(at, t, "nand"), x)
        BY <2>5, <2>6, <2>7, LetGo
    <2>9. u.held = s.held
        BY <2>6 DEF Moves, QueueMoves
    <2>10. QED
        BY <2>5, <2>8, <2>9
<1>4. CASE ~RowAddrPass(s, t)
    <2>1. PICK v : v = RowAddrBlock(s, t)
        OBVIOUS
    <2>2. /\ v \in Shape /\ v.req = s.req /\ SameQueues(s, v) /\ SameChains(s, v)
          /\ v.permitted = s.permitted
          /\ s.req[t].code = "READ" =>
                 v.blockedReads = [s.blockedReads EXCEPT ![s.req[t].block] = @ + 1]
          /\ s.req[t].code # "READ" => v.blockedReads = s.blockedReads
        BY <1>1, <2>1, RowAddrBlockFact DEF Proper
    <2>3. u = PutToBlockedByRowAddrDepReqQ(v, t) /\ NandReq(v.req[t])
        BY <1>4, <2>1, <2>2 DEF SelectByRowAddr
    <2>4. Step(v, u, t, "loose", "row")
        BY <1>2, <2>2, <2>3, PutRowMoves
    <2>5. /\ u \in Shape /\ u.req = s.req /\ SameChains(s, u) /\ Moves(v, u, t, "loose", "row")
          /\ u.blockedReads = v.blockedReads /\ u.permitted = s.permitted
        BY <2>2, <2>4 DEF Step, SameChains, SameTable
    <2>6. Moves(s, u, t, "loose", "row")
        BY <2>2, <2>5, MovesAfterSame
    <2>7. ReadsFollow(s, u, t, "loose", "row")
        BY <2>2, <2>5 DEF Blocked, ReadsFollow
    <2>8. Sound(u, wt, Goes(at, t, "row"), x)
        BY <1>4, <2>5, <2>6, <2>7, KeptBack
    <2>9. u.held = s.held
        BY <2>6 DEF Moves, QueueMoves
    <2>10. QED
        BY <2>5, <2>8, <2>9
<1>5. QED
    BY <1>3, <1>4

LEMMA PropertyOfReads ==
    ASSUME NEW r, Proper(r)
    PROVE  /\ r.code \in {"READ", "WRITE", "ERASE"} => r.block \in Blocks
           /\ ~IsDma(r) => NandReq(r)
           /\ IsDma(r) => r.code # "READ"
BY DEF Proper, NandReq, IsDma, DmaCodes

LEMMA ReadsLess ==
    ASSUME NEW s \in Shape, NEW u, NEW t, NEW p, NEW q, Blocked(p), ~Blocked(q),
           s.req[t].code = "READ" => s.req[t].block \in Blocks,
           s.req[t].code = "READ" =>
               u.blockedReads = [s.blockedReads EXCEPT ![s.req[t].block] = @ - 1],
           s.req[t].code # "READ" => u.blockedReads = s.blockedReads
    PROVE  ReadsFollow(s, u, t, p, q)
<1>1. (IF Blocked(q) THEN 1 ELSE 0) - (IF Blocked(p) THEN 1 ELSE 0) = 0 - 1
    OBVIOUS
<1>2. \A c \in Blocks : [s.blockedReads EXCEPT ![c] = @ - 1] = [s.blockedReads EXCEPT ![c] = @ + (0 - 1)]
    <2>1. \A c \in Blocks : s.blockedReads[c] - 1 = s.blockedReads[c] + (0 - 1)
        BY DEF Shape
    <2>2. QED
        BY <2>1
<1>3. QED
    BY <1>1, <1>2 DEF ReadsFollow

LEMMA SelectLowLevelSound ==
    ASSUME NEW s, NEW wt, NEW at, NEW x, Sound(s, wt, at, x),
           NEW t \in Tags, at[t] = "loose", NEW u, u = SelectLowLevelReqQ(s, t)
    PROVE  /\ \E q \in {"nand", "row", "dma", "buf"} : Sound(u, wt, Goes(at, t, q), x)
           /\ u.req = s.req /\ u.held = s.held
<1>1. s \in Shape /\ at \in [Tags -> Places] /\ Proper(s.req[t])
    BY SoundFacts DEF Live
<1>2. CASE s.prevBlocking[t] = NoTag /\ IsDma(s.req[t])
    <2>1. u = PutToNvmeDmaReqQ(s, t)
        BY <1>2 DEF SelectLowLevelReqQ
    <2>2. Step(s, u, t, "loose", "dma")
        BY <1>1, <2>1, PutDmaMoves
    <2>3. /\ u \in Shape /\ u.req = s.req /\ SameChains(s, u) /\ Moves(s, u, t, "loose", "dma")
          /\ u.blockedReads = s.blockedReads /\ u.permitted = s.permitted
        BY <2>2 DEF Step, SameTable
    <2>4. ReadsFollow(s, u, t, "loose", "dma")
        BY <1>1, <2>3, ReadsStay, PropertyOfReads DEF Blocked
    <2>5. ASSUME NEW v \in Ways \ x PROVE SeenAt(u, v)
        <3>1. NoFreer(s, u, v) /\ RowReqsKept(s, u, at)
            BY <1>1, <2>3 DEF NoFreer, RowReqsKept, Shape
        <3>2. QED
            BY <2>3, <3>1, SeenElsewhere
    <2>6. Sound(u, wt, Goes(at, t, "dma"), x)
        BY <1>2, <2>3, <2>4, <2>5, MoveSound DEF Live, Places
    <2>7. QED
        BY <2>2, <2>3, <2>6, StepFacts
<1>3. CASE s.prevBlocking[t] = NoTag /\ ~IsDma(s.req[t])
    <2>1. u = SelectByRowAddr(s, t) /\ NandReq(s.req[t])
        BY <1>1, <1>3, PropertyOfReads DEF SelectLowLevelReqQ
    <2>2. QED
        BY <1>3, <2>1, SelectByRowAddrSound
<1>4. CASE s.prevBlocking[t] # NoTag
    <2>1. PICK v : v = RowAddrBlock(s, t)
        OBVIOUS
    <2>2. u = PutToBlockedByBufDepReqQ(v, t)
        BY <1>4, <2>1 DEF SelectLowLevelReqQ
    <2>3. /\ v \in Shape /\ v.req = s.req /\ SameQueues(s, v) /\ SameChains(s, v)
          /\ v.permitted = s.permitted
          /\ s.req[t].code = "READ" =>
                 v.blockedReads = [s.blockedReads EXCEPT ![s.req[t].block] = @ + 1]
          /\ s.req[t].code # "READ" => v.blockedReads = s.blockedReads
        BY <1>1, <2>1, RowAddrBlockFact
    <2>4. Step(v, u, t, "loose", "buf")
        BY <2>2, <2>3, PutBufMoves
    <2>5. /\ u \in Shape /\ u.req = s.req /\ SameChains(s, u) /\ Moves(v, u, t, "loose", "buf")
          /\ u.blockedReads = v.blockedReads /\ u.permitted = s.permitted
        BY <2>3, <2>4 DEF Step, SameChains, SameTable
    <2>6. Moves(s, u, t, "loose", "buf")
        BY <2>3, <2>5, MovesAfterSame
    <2>7. ReadsFollow(s, u, t, "loose", "buf")
        BY <2>3, <2>5 DEF Blocked, ReadsFollow
    <2>8. ASSUME NEW w \in Ways \ x PROVE SeenAt(u, w)
        <3>1. \A c \in Blocks : u.blockedReads[c] >= s.blockedReads[c]
            <4>1. \A c \in Blocks : s.blockedReads[c] \in Int
                BY <1>1 DEF Shape
            <4>2. \A n \in Int : n >= n /\ n + 1 >= n
                OBVIOUS
            <4>3. \A c \in Blocks : u.blockedReads[c] \in {s.blockedReads[c], s.blockedReads[c] + 1}
                <5>1. CASE s.req[t].code = "READ"
                    <6>1. s.req[t].block \in Blocks /\ s.blockedReads \in [Blocks -> Int]
                        BY <1>1, <5>1, PropertyOfReads DEF Shape
                    <6>2. u.blockedReads = [s.blockedReads EXCEPT ![s.req[t].block] = @ + 1]
                        BY <2>3, <2>5, <5>1
                    <6>3. QED
                        BY <6>1, <6>2
                <5>2. CASE s.req[t].code # "READ"
                    BY <1>1, <2>3, <2>5, <5>2 DEF Shape
                <5>3. QED
                    BY <5>1, <5>2
            <4>4. QED
                BY <4>1, <4>2, <4>3
        <3>2. NoFreer(s, u, w) /\ RowReqsKept(s, u, at)
            BY <2>5, <3>1 DEF NoFreer, RowReqsKept
        <3>3. QED
            BY <2>5, <2>6, <3>2, SeenElsewhere
    <2>9. Sound(u, wt, Goes(at, t, "buf"), x)
        BY <2>5, <2>6, <2>7, <2>8, MoveSound DEF Live, Places
    <2>10. u.held = s.held
        BY <2>6 DEF Moves, QueueMoves
    <2>11. QED
        BY <2>5, <2>9, <2>10
<1>5. QED
    BY <1>2, <1>3, <1>4

(* A request that was blocked behind another is selected again. *)
LEMMA ReleaseBufSound ==
    ASSUME NEW s, NEW wt, NEW at, NEW x, Sound(s, wt, at, x),
           NEW t \in Tags, at[t] = "buf", s.prevBlocking[t] = NoTag,
           NEW out, out = SelectiveGetFromBlockedByBufDepReqQ(s, t),
           NEW u, u = IF IsDma(s.req[t]) THEN PutToNvmeDmaReqQ(out, t) ELSE ReleaseByRowAddr(out, t)
    PROVE  /\ \E q \in {"nand", "row", "dma"} : Sound(u, wt, Goes(at, t, q), x)
           /\ u.req = s.req /\ u.held = s.held
<1>1. s \in Shape /\ at \in [Tags -> Places] /\ Proper(s.req[t])
    BY SoundFacts DEF Live
<1>2. Step(s, out, t, "buf", "loose")
    BY <1>1, GetBufMoves
<1>3. /\ out \in Shape /\ out.req = s.req /\ SameChains(s, out) /\ SameTable(s, out)
      /\ Moves(s, out, t, "buf", "loose")
    BY <1>2 DEF Step
<1>4. s.req[t].code = "READ" => s.req[t].block \in Blocks
    BY <1>1, PropertyOfReads
<1>5. CASE IsDma(s.req[t])
    <2>1. Step(out, u, t, "loose", "dma")
        BY <1>3, <1>5, PutDmaMoves
    <2>2. /\ u \in Shape /\ u.req = s.req /\ SameChains(s, u) /\ Moves(out, u, t, "loose", "dma")
          /\ u.blockedReads = s.blockedReads /\ u.permitted = s.permitted
        BY <1>3, <2>1 DEF Step, SameTable, SameChains
    <2>3. Moves(s, u, t, "buf", "dma")
        BY <1>1, <1>3, <2>2, MovesOn
    <2>4. ReadsFollow(s, u, t, "buf", "dma")
        BY <1>1, <1>5, <2>2, PropertyOfReads DEF ReadsFollow
    <2>5. ASSUME NEW v \in Ways \ x PROVE SeenAt(u, v)
        <3>1. s.blockedReads \in [Blocks -> Int]
            BY <1>1 DEF Shape
        <3>2. NoFreer(s, u, v)
            BY <2>2, <3>1 DEF NoFreer
        <3>3. RowReqsKept(s, u, at)
            BY <2>2 DEF RowReqsKept
        <3>4. QED
            BY <2>2, <2>3, <3>2, <3>3, SeenElsewhere
    <2>6. Sound(u, wt, Goes(at, t, "dma"), x)
        BY <1>5, <2>2, <2>3, <2>4, <2>5, MoveSound DEF Live, Places
    <2>7. u.held = s.held
        BY <2>3 DEF Moves, QueueMoves
    <2>8. QED
        BY <2>2, <2>6, <2>7
<1>6. ASSUME ~IsDma(s.req[t])
      PROVE  /\ NandReq(s.req[t]) /\ s.req[t].block \in Blocks
             /\ WayOf[s.req[t].block] \in Ways
             /\ u = ReleaseByRowAddr(out, t)
             /\ RowAddrPass(out, t) <=> RowAddrPass(s, t)
    <2>1. NandReq(s.req[t]) /\ s.req[t].block \in Blocks
        BY <1>1, <1>6, PropertyOfReads DEF NandReq
    <2>2. WayOf[s.req[t].block] \in Ways
        BY <2>1, WayOfFact
    <2>3. RowAddrPass(out, t) <=> RowAddrPass(s, t)
        BY <1>3 DEF RowAddrPass, SameTable
    <2>4. QED
        BY <1>6, <2>1, <2>2, <2>3
<1>7. CASE ~IsDma(s.req[t]) /\ RowAddrPass(s, t)
    <2>1. PICK v : v = RowAddrRelease(out, t)
        OBVIOUS
    <2>2. u = PutToNandReqQ(v, t)
        BY <1>6, <1>7, <2>1 DEF ReleaseByRowAddr
    <2>3. /\ v \in Shape /\ v.req = s.req /\ SameQueues(out, v) /\ SameChains(out, v)
          /\ OnlyBlock(out, v, s.req[t].block)
          /\ s.req[t].code = "READ" =>
                 v.blockedReads = [out.blockedReads EXCEPT ![s.req[t].block] = @ - 1]
          /\ s.req[t].code # "READ" => v.blockedReads = out.blockedReads
        BY <1>3, <1>6, <1>7, <2>1, RowAddrReleaseFact
    <2>4. Step(v, u, t, "loose", "nand")
        BY <1>6, <1>7, <2>2, <2>3, PutNandMoves
    <2>5. /\ u \in Shape /\ u.req = s.req /\ SameChains(s, u) /\ Moves(v, u, t, "loose", "nand")
          /\ u.blockedReads = v.blockedReads /\ OnlyBlock(s, u, s.req[t].block)
        BY <1>3, <2>3, <2>4 DEF Step, SameChains, SameTable, OnlyBlock
    <2>6. Moves(s, u, t, "buf", "nand")
        BY <1>1, <1>3, <2>3, <2>5, MovesAfterSame, MovesOn
    <2>7. ReadsFollow(s, u, t, "buf", "nand")
        <3>1. out.blockedReads = s.blockedReads
            BY <1>3 DEF SameTable
        <3>2. s.req[t].code = "READ" =>
                  u.blockedReads = [s.blockedReads EXCEPT ![s.req[t].block] = @ - 1]
            BY <2>3, <2>5, <3>1
        <3>3. s.req[t].code # "READ" => u.blockedReads = s.blockedReads
            BY <2>3, <2>5, <3>1
        <3>4. Blocked("buf") /\ ~Blocked("nand") /\ s \in Shape
            BY <1>1 DEF Blocked
        <3>5. QED
            BY <1>4, <3>2, <3>3, <3>4, ReadsLess
    <2>8. Sound(u, wt, Goes(at, t, "nand"), x)
        BY <1>6, <1>7, <2>5, <2>6, <2>7, LetGo
    <2>9. u.held = s.held
        BY <2>6 DEF Moves, QueueMoves
    <2>10. QED
        BY <2>5, <2>8, <2>9
<1>8. CASE ~IsDma(s.req[t]) /\ ~RowAddrPass(s, t)
    <2>1. u = PutToBlockedByRowAddrDepReqQ(out, t)
        BY <1>6, <1>8 DEF ReleaseByRowAddr
    <2>2. Step(out, u, t, "loose", "row")
        BY <1>3, <1>6, <1>8, <2>1, PutRowMoves
    <2>3. /\ u \in Shape /\ u.req = s.req /\ SameChains(s, u) /\ Moves(out, u, t, "loose", "row")
          /\ u.blockedReads = s.blockedReads /\ u.permitted = s.permitted
        BY <1>3, <2>2 DEF Step, SameTable, SameChains
    <2>4. Moves(s, u, t, "buf", "row")
        BY <1>1, <1>3, <2>3, MovesOn
    <2>5. ReadsFollow(s, u, t, "buf", "row")
        BY <1>1, <1>4, <2>3, ReadsStay DEF Blocked
    <2>6. Sound(u, wt, Goes(at, t, "row"), x)
        BY <1>6, <1>8, <2>3, <2>4, <2>5, KeptBack
    <2>7. u.held = s.held
        BY <2>4 DEF Moves, QueueMoves
    <2>8. QED
        BY <2>3, <2>6, <2>7
<1>9. QED
    BY <1>5, <1>7, <1>8

(* Releasing t: nothing happens unless its table lets it go. *)
Released(s, u, wt, at, x, t) ==
    /\ RowAddrPass(s, t) => /\ Sound(u, wt, Goes(at, t, "nand"), x)
                            /\ u.nandQ[WayOf[s.req[t].block]] # <<>>
    /\ ~RowAddrPass(s, t) => u = s
    /\ \A v \in Ways : s.nandQ[v] # <<>> => u.nandQ[v] # <<>>
    /\ u.req = s.req /\ u.held = s.held

LEMMA ReleaseSound ==
    ASSUME NEW s, NEW wt, NEW at, NEW x, Sound(s, wt, at, x),
           NEW t \in Tags, at[t] = "row", NEW u, u = Release(s, t)
    PROVE  Released(s, u, wt, at, x, t)
<1> DEFINE w == WayOf[s.req[t].block]
<1>1. /\ s \in Shape /\ at \in [Tags -> Places] /\ Core(s, wt, at)
      /\ NandReq(s.req[t]) /\ s.prevBlocking[t] = NoTag
    BY SoundFacts DEF Chained, HeadsReleased
<1>2. s.req[t].block \in Blocks /\ w \in Ways
    BY <1>1, WayOfFact DEF NandReq
<1>3. CASE ~RowAddrPass(s, t)
    BY <1>3 DEF Release, Released
<1>4. CASE RowAddrPass(s, t)
    <2>1. PICK v : v = RowAddrRelease(s, t)
        OBVIOUS
    <2>2. PICK g : g = SelectiveGetFromBlockedByRowAddrDepReqQ(v, t)
        OBVIOUS
    <2>3. u = PutToNandReqQ(g, t)
        BY <1>4, <2>1, <2>2 DEF Release
    <2>4. /\ v \in Shape /\ v.req = s.req /\ SameQueues(s, v) /\ SameChains(s, v)
          /\ OnlyBlock(s, v, s.req[t].block)
          /\ s.req[t].code = "READ" =>
                 v.blockedReads = [s.blockedReads EXCEPT ![s.req[t].block] = @ - 1]
          /\ s.req[t].code # "READ" => v.blockedReads = s.blockedReads
        BY <1>1, <1>4, <2>1, RowAddrReleaseFact
    <2>5. Once(v.rowQ[w]) /\ t \in Range(v.rowQ[w])
        <3>1. Lists(s.rowQ[w], OnWay(s.req, at, "row", w))
            BY <1>1, <1>2, CoreFacts
        <3>2. t \in OnWay(s.req, at, "row", w)
            BY DEF OnWay
        <3>3. v.rowQ = s.rowQ
            BY <2>4 DEF SameQueues
        <3>4. QED
            BY <3>1, <3>2, <3>3 DEF Lists
    <2>6. NandReq(v.req[t]) /\ w = WayOf[v.req[t].block]
        BY <1>1, <2>4
    <2> HIDE DEF w
    <2>7. Step(v, g, t, "row", "loose")
        BY <1>2, <2>2, <2>4, <2>5, <2>6, GetRowMoves
    <2>8. /\ g \in Shape /\ g.req = s.req /\ SameChains(s, g) /\ SameTable(v, g)
          /\ Moves(s, g, t, "row", "loose")
        BY <2>4, <2>7, MovesAfterSame DEF Step, SameChains
    <2>9. NandReq(g.req[t]) /\ w = WayOf[g.req[t].block]
        BY <2>4, <2>6, <2>8
    <2>10. Step(g, u, t, "loose", "nand")
        BY <1>2, <2>3, <2>8, <2>9, PutNandMoves
    <2>11. /\ u \in Shape /\ u.req = s.req /\ SameChains(s, u) /\ Moves(g, u, t, "loose", "nand")
           /\ u.blockedReads = v.blockedReads /\ OnlyBlock(s, u, s.req[t].block)
        BY <2>4, <2>8, <2>10 DEF Step, SameChains, SameTable, OnlyBlock
    <2>12. Moves(s, u, t, "row", "nand")
        BY <1>1, <2>8, <2>11, MovesOn
    <2>13. ReadsFollow(s, u, t, "row", "nand")
        <3>1. /\ s.req[t].code = "READ" =>
                     u.blockedReads = [s.blockedReads EXCEPT ![s.req[t].block] = @ - 1]
              /\ s.req[t].code # "READ" => u.blockedReads = s.blockedReads
            BY <2>4, <2>11
        <3>2. Blocked("row") /\ ~Blocked("nand") /\ s \in Shape
            BY <1>1 DEF Blocked
        <3>3. s.req[t].code = "READ" => s.req[t].block \in Blocks
            BY <1>2
        <3>4. QED
            BY <3>1, <3>2, <3>3, ReadsLess
    <2>14. Sound(u, wt, Goes(at, t, "nand"), x)
        BY <1>1, <2>11, <2>12, <2>13, LetGo
    <2>15. s.nandQ \in [Ways -> Seq(Tags)]
        BY <1>1 DEF Shape
    <2>16. u.nandQ[w] = Append(s.nandQ[w], t) /\ Append(s.nandQ[w], t) # <<>>
        <3>1. u.nandQ[w] = Append(s.nandQ[w], t)
            BY <1>2, <2>12 DEF Moves, QueueMoves, w
        <3>2. s.nandQ[w] \in Seq(Tags)
            BY <1>2, <2>15
        <3>3. QED
            BY <3>1, <3>2, AppendNonEmpty
    <2>17. \A y \in Ways : y # w => u.nandQ[y] = s.nandQ[y]
        BY <2>12 DEF Moves, w
    <2>18. u.held = s.held
        BY <2>12 DEF Moves, QueueMoves
    <2>19. QED
        BY <1>4, <2>11, <2>14, <2>16, <2>17, <2>18 DEF Released, w
<1>5. QED
    BY <1>3, <1>4
-----------------------------------------------------------------------------
(* The chain of an entry *)

(* A new request joins the chain of its entry. *)
LEMMA JoinChain ==
    ASSUME NEW s \in Shape, NEW at \in [Tags -> Places], Chained(s, at),
           NEW t \in Tags, at[t] = "new", NEW u, u = UpdateDataBufEntryInfoBlockingReq(s, t)
    PROVE  /\ u \in Shape /\ u.req = s.req /\ SameQueues(s, u) /\ SameTable(s, u)
           /\ Chained(u, Goes(at, t, "loose"))
<1> DEFINE a == Goes(at, t, "loose")
           e == s.req[t].entry
<1>1. a[t] = "loose" /\ \A y \in Tags \ {t} : a[y] = at[y]
    BY DEF Goes
<1>2. ~Live(at[t]) /\ Live(a[t]) /\ \A y \in Tags \ {t} : Live(a[y]) <=> Live(at[y])
    BY <1>1 DEF Live
<1>3. \A y \in Tags : a[y] \in {"nand", "row", "dma"} <=> at[y] \in {"nand", "row", "dma"}
    BY <1>1
<1>4. s.prevBlocking[t] = NoTag /\ s.nextBlocking[t] = NoTag
    BY <1>2 DEF Chained, RestUnlinked
<1>5. e \in Entries \cup {NoEntry} /\ NoEntry \notin Entries
    BY ReqWaysAssumption DEF Shape, Requests, Entries, ReqWaysAssumption
<1>6. NoTag \notin Tags
    BY TagFact
<1>7. /\ OneHead(s, at) /\ HeadHasTail(s, at) /\ LinksFit(s, at) /\ TailsFit(s, at)
      /\ HeadsReleased(s, at) /\ RestUnlinked(s, at)
    BY DEF Chained
<1>8. /\ s.prevBlocking \in [Tags -> Tags \cup {NoTag}]
      /\ s.nextBlocking \in [Tags -> Tags \cup {NoTag}]
      /\ s.tail \in [Entries -> Tags \cup {NoTag}]
    BY DEF Shape
<1>9. \A y \in Tags : s.nextBlocking[y] # t
    BY <1>2, <1>6, <1>7 DEF LinksFit
<1>10. \A f \in Entries : s.tail[f] # t
    BY <1>2, <1>6, <1>7 DEF TailsFit
<1> HIDE DEF a
<1>11. CASE e = NoEntry
    <2>1. u = s
        BY <1>11 DEF UpdateDataBufEntryInfoBlockingReq
    <2>2. OneHead(s, a) /\ HeadHasTail(s, a)
        BY <1>2, <1>5, <1>7, <1>11 DEF OneHead, HeadHasTail
    <2>3. LinksFit(s, a)
        BY <1>2, <1>4, <1>7, <1>8, <1>9 DEF LinksFit
    <2>4. TailsFit(s, a)
        BY <1>2, <1>7, <1>8, <1>10 DEF TailsFit
    <2>5. HeadsReleased(s, a) /\ RestUnlinked(s, a)
        BY <1>2, <1>3, <1>7 DEF HeadsReleased, RestUnlinked
    <2>6. QED
        BY <2>1, <2>2, <2>3, <2>4, <2>5 DEF Chained, SameQueues, SameTable, a
<1>12. CASE e # NoEntry /\ s.tail[e] = NoTag
    <2>1. e \in Entries
        BY <1>5, <1>12
    <2>2. u = [s EXCEPT !.tail = [s.tail EXCEPT ![e] = t]]
        BY <1>12 DEF UpdateDataBufEntryInfoBlockingReq
    <2>3. u \in Shape
        <3>1. [s.tail EXCEPT ![e] = t] \in [Entries -> Tags \cup {NoTag}]
            BY <1>8, <2>1
        <3>2. QED
            BY <2>2, <3>1 DEF Shape
    <2>4. /\ u.req = s.req /\ SameQueues(s, u) /\ SameTable(s, u)
          /\ u.prevBlocking = s.prevBlocking /\ u.nextBlocking = s.nextBlocking
          /\ u.tail = [s.tail EXCEPT ![e] = t]
        BY <2>2 DEF Shape, SameQueues, SameTable
    <2>5. \A f \in Entries : u.tail[f] = IF f = e THEN t ELSE s.tail[f]
        BY <1>8, <2>4
    <2>6. \A y \in Tags : Live(at[y]) /\ s.req[y].entry = e => s.prevBlocking[y] # NoTag
        BY <1>7, <1>12, <2>1 DEF HeadHasTail
    <2>7. OneHead(u, a)
        BY <1>2, <1>7, <2>4, <2>6 DEF OneHead
    <2>8. HeadHasTail(u, a)
        BY <1>2, <1>6, <1>7, <2>4, <2>5 DEF HeadHasTail
    <2>9. LinksFit(u, a)
        BY <1>2, <1>4, <1>7, <1>8, <1>9, <2>4 DEF LinksFit
    <2>10. TailsFit(u, a)
        <3>1. SUFFICES ASSUME NEW f \in Entries, u.tail[f] # NoTag
                       PROVE  /\ Live(a[u.tail[f]]) /\ u.req[u.tail[f]].entry = f
                              /\ u.nextBlocking[u.tail[f]] = NoTag
            BY DEF TailsFit
        <3>2. CASE f = e
            BY <1>2, <1>4, <2>4, <2>5, <3>2
        <3>3. CASE f # e
            BY <1>2, <1>7, <1>8, <1>10, <2>4, <2>5, <3>1, <3>3 DEF TailsFit
        <3>4. QED
            BY <3>2, <3>3
    <2>11. HeadsReleased(u, a) /\ RestUnlinked(u, a)
        BY <1>2, <1>3, <1>7, <2>4 DEF HeadsReleased, RestUnlinked
    <2>12. QED
        BY <2>3, <2>4, <2>7, <2>8, <2>9, <2>10, <2>11 DEF Chained, a
<1>13. CASE e # NoEntry /\ s.tail[e] # NoTag
    <2>1. e \in Entries
        BY <1>5, <1>13
    <2> DEFINE z == s.tail[e]
    <2>2. u = [s EXCEPT !.prevBlocking = [s.prevBlocking EXCEPT ![t] = z],
                        !.nextBlocking = [s.nextBlocking EXCEPT ![z] = t],
                        !.tail = [s.tail EXCEPT ![e] = t]]
        BY <1>13 DEF UpdateDataBufEntryInfoBlockingReq
    <2>3. /\ z \in Tags /\ z # t /\ Live(at[z]) /\ s.req[z].entry = e
          /\ s.nextBlocking[z] = NoTag
        BY <1>2, <1>7, <1>8, <1>13, <2>1 DEF TailsFit
    <2> HIDE DEF z
    <2>4. u \in Shape
        <3>1. /\ [s.tail EXCEPT ![e] = t] \in [Entries -> Tags \cup {NoTag}]
              /\ [s.prevBlocking EXCEPT ![t] = z] \in [Tags -> Tags \cup {NoTag}]
              /\ [s.nextBlocking EXCEPT ![z] = t] \in [Tags -> Tags \cup {NoTag}]
            BY <1>8, <2>1, <2>3
        <3>2. QED
            BY <2>2, <3>1 DEF Shape
    <2>5. /\ u.req = s.req /\ SameQueues(s, u) /\ SameTable(s, u)
          /\ u.prevBlocking = [s.prevBlocking EXCEPT ![t] = z]
          /\ u.nextBlocking = [s.nextBlocking EXCEPT ![z] = t]
          /\ u.tail = [s.tail EXCEPT ![e] = t]
        BY <2>2 DEF Shape, SameQueues, SameTable
    <2>6. /\ \A f \in Entries : u.tail[f] = IF f = e THEN t ELSE s.tail[f]
          /\ \A y \in Tags : u.prevBlocking[y] = IF y = t THEN z ELSE s.prevBlocking[y]
          /\ \A y \in Tags : u.nextBlocking[y] = IF y = z THEN t ELSE s.nextBlocking[y]
        BY <1>8, <2>5
    <2>7. OneHead(u, a)
        BY <1>2, <1>6, <1>7, <2>3, <2>5, <2>6 DEF OneHead
    <2>8. HeadHasTail(u, a)
        BY <1>2, <1>6, <1>7, <2>3, <2>5, <2>6 DEF HeadHasTail
    <2>9. LinksFit(u, a)
        BY <1>2, <1>4, <1>7, <1>8, <1>9, <2>1, <2>3, <2>5, <2>6 DEF LinksFit
    <2>10. TailsFit(u, a)
        <3>1. SUFFICES ASSUME NEW f \in Entries, u.tail[f] # NoTag
                       PROVE  /\ Live(a[u.tail[f]])
                              /\ u.req[u.tail[f]].entry = f
                              /\ u.nextBlocking[u.tail[f]] = NoTag
            BY DEF TailsFit
        <3>2. CASE f = e
            BY <1>2, <1>4, <2>3, <2>5, <2>6, <3>2
        <3>3. CASE f # e
            <4>1. u.tail[f] = s.tail[f] /\ s.tail[f] \in Tags \ {t}
                BY <1>8, <1>10, <2>6, <3>1, <3>3
            <4>2. /\ Live(at[s.tail[f]]) /\ s.req[s.tail[f]].entry = f
                  /\ s.nextBlocking[s.tail[f]] = NoTag
                BY <1>7, <3>1, <4>1 DEF TailsFit
            <4>3. s.tail[f] # z
                BY <2>3, <3>3, <4>2
            <4>4. QED
                BY <1>2, <2>5, <2>6, <4>1, <4>2, <4>3
        <3>4. QED
            BY <3>2, <3>3
    <2>11. HeadsReleased(u, a) /\ RestUnlinked(u, a)
        BY <1>2, <1>3, <1>7, <2>3, <2>5, <2>6 DEF HeadsReleased, RestUnlinked
    <2>12. QED
        BY <2>4, <2>5, <2>7, <2>8, <2>9, <2>10, <2>11 DEF Chained, a
<1>14. QED
    BY <1>11, <1>12, <1>13

(* A request that has ended leaves the chain of its entry. *)
LEMMA LeaveChain ==
    ASSUME NEW s \in Shape, NEW at \in [Tags -> Places], Chained(s, at),
           NEW t \in Tags, at[t] = "loose", s.prevBlocking[t] = NoTag,
           NEW z, z = s.nextBlocking[t],
           NEW u, u.req = s.req,
           \A y \in Tags : u.prevBlocking[y] = IF y = z THEN NoTag ELSE s.prevBlocking[y],
           \A y \in Tags : u.nextBlocking[y] = IF y = t THEN NoTag ELSE s.nextBlocking[y],
           \A f \in Entries : u.tail[f] = IF s.tail[f] = t THEN NoTag ELSE s.tail[f]
    PROVE  Chained(u, Goes(at, t, "free"))
<1> DEFINE a == Goes(at, t, "free")
<1>1. a[t] = "free" /\ \A y \in Tags \ {t} : a[y] = at[y]
    BY DEF Goes
<1>2. Live(at[t]) /\ ~Live(a[t]) /\ \A y \in Tags \ {t} : Live(a[y]) <=> Live(at[y])
    BY <1>1 DEF Live
<1>3. \A y \in Tags : a[y] \in {"nand", "row", "dma"} => at[y] \in {"nand", "row", "dma"}
    BY <1>1
<1>4. NoTag \notin Tags
    BY TagFact
<1>5. /\ OneHead(s, at) /\ HeadHasTail(s, at) /\ LinksFit(s, at) /\ TailsFit(s, at)
      /\ HeadsReleased(s, at) /\ RestUnlinked(s, at)
    BY DEF Chained
<1>6. /\ s.prevBlocking \in [Tags -> Tags \cup {NoTag}]
      /\ s.nextBlocking \in [Tags -> Tags \cup {NoTag}]
      /\ s.tail \in [Entries -> Tags \cup {NoTag}]
    BY DEF Shape
<1>7. z # NoTag => /\ z \in Tags /\ z # t /\ Live(at[z])
                   /\ s.req[t].entry \in Entries /\ s.req[z].entry = s.req[t].entry
                   /\ s.prevBlocking[z] = t
    BY <1>4, <1>5, <1>6 DEF LinksFit
<1> HIDE DEF a
<1>8. OneHead(u, a)
    <2>1. SUFFICES ASSUME NEW x \in Tags, NEW y \in Tags, Live(a[x]), Live(a[y]),
                          s.req[x].entry \in Entries, s.req[y].entry = s.req[x].entry,
                          u.prevBlocking[x] = NoTag, u.prevBlocking[y] = NoTag
                   PROVE  x = y
        BY DEF OneHead
    <2>2. x # t /\ y # t /\ Live(at[x]) /\ Live(at[y])
        BY <1>2, <2>1
    <2>3. CASE x # z /\ y # z
        BY <1>5, <2>1, <2>2, <2>3 DEF OneHead
    <2>4. CASE x = z /\ y # z
        BY <1>2, <1>4, <1>5, <1>7, <2>1, <2>2, <2>4 DEF OneHead
    <2>5. CASE y = z /\ x # z
        BY <1>2, <1>4, <1>5, <1>7, <2>1, <2>2, <2>5 DEF OneHead
    <2>6. QED
        BY <2>3, <2>4, <2>5
<1>9. HeadHasTail(u, a)
    <2>1. SUFFICES ASSUME NEW y \in Tags, Live(a[y]), s.req[y].entry \in Entries,
                          u.prevBlocking[y] = NoTag
                   PROVE  u.tail[s.req[y].entry] # NoTag
        BY DEF HeadHasTail
    <2>2. y # t /\ Live(at[y])
        BY <1>2, <2>1
    <2>3. s.tail[s.req[y].entry] # t
        <3>1. CASE y = z
            BY <1>2, <1>4, <1>5, <1>7, <2>1, <3>1 DEF TailsFit
        <3>2. CASE y # z
            BY <1>2, <1>4, <1>5, <2>1, <2>2, <3>2 DEF TailsFit, OneHead
        <3>3. QED
            BY <3>1, <3>2
    <2>4. s.tail[s.req[y].entry] # NoTag
        <3>1. CASE y = z
            BY <1>2, <1>4, <1>5, <1>7, <2>1, <3>1 DEF HeadHasTail
        <3>2. CASE y # z
            BY <1>5, <2>1, <2>2, <3>2 DEF HeadHasTail
        <3>3. QED
            BY <3>1, <3>2
    <2>5. QED
        BY <2>1, <2>3, <2>4
<1>10. LinksFit(u, a)
    <2>1. SUFFICES ASSUME NEW y \in Tags, u.nextBlocking[y] # NoTag,
                          NEW v, v = u.nextBlocking[y]
                   PROVE  /\ Live(a[y]) /\ Live(a[v])
                          /\ u.req[y].entry \in Entries /\ u.req[v].entry = u.req[y].entry
                          /\ u.prevBlocking[v] = y
        BY DEF LinksFit
    <2>2. y # t /\ v = s.nextBlocking[y] /\ v \in Tags
        BY <1>6, <2>1
    <2>3. /\ Live(at[y]) /\ Live(at[v]) /\ s.prevBlocking[v] = y
          /\ s.req[y].entry \in Entries /\ s.req[v].entry = s.req[y].entry
        BY <1>5, <2>1, <2>2 DEF LinksFit
    <2>4. v # t /\ v # z
        BY <1>4, <1>7, <2>2, <2>3
    <2>5. QED
        BY <1>2, <2>2, <2>3, <2>4
<1>11. TailsFit(u, a)
    <2>1. SUFFICES ASSUME NEW f \in Entries, u.tail[f] # NoTag
                   PROVE  /\ Live(a[u.tail[f]])
                          /\ u.req[u.tail[f]].entry = f
                          /\ u.nextBlocking[u.tail[f]] = NoTag
        BY DEF TailsFit
    <2>2. u.tail[f] = s.tail[f] /\ s.tail[f] \in Tags \ {t}
        BY <1>6, <2>1
    <2>3. /\ Live(at[s.tail[f]]) /\ s.req[s.tail[f]].entry = f
          /\ s.nextBlocking[s.tail[f]] = NoTag
        BY <1>5, <2>1, <2>2 DEF TailsFit
    <2>4. QED
        BY <1>2, <2>2, <2>3
<1>12. HeadsReleased(u, a)
    BY <1>3, <1>5 DEF HeadsReleased
<1>13. RestUnlinked(u, a)
    BY <1>2, <1>5 DEF RestUnlinked
<1>14. QED
    BY <1>8, <1>9, <1>10, <1>11, <1>12, <1>13 DEF Chained, a

(* The state in which t is free and its successor is cut off. *)
Cut(s, t) ==
    LET f == [s EXCEPT !.free = @ \cup {t}] IN ReleaseTail(CutOff(f, t), t)

LEMMA CutFields ==
    ASSUME NEW s \in Shape, NEW t \in Tags, NEW u, u = Cut(s, t),
           NEW z, z = s.nextBlocking[t],
           \A f \in Entries : s.tail[f] = t => s.req[t].entry = f,
           NEW f, f = [s EXCEPT !.free = @ \cup {t}]
    PROVE  /\ u \in Shape /\ u.req = s.req /\ SameQueues(f, u) /\ SameTable(f, u)
           /\ \A y \in Tags : u.prevBlocking[y] = IF y = z THEN NoTag ELSE s.prevBlocking[y]
           /\ \A y \in Tags : u.nextBlocking[y] = IF y = t THEN NoTag ELSE s.nextBlocking[y]
           /\ \A e \in Entries : u.tail[e] = IF s.tail[e] = t THEN NoTag ELSE s.tail[e]
<1>1. /\ f \in Shape /\ f.req = s.req /\ f.nextBlocking = s.nextBlocking
      /\ f.prevBlocking = s.prevBlocking /\ f.tail = s.tail
    <2>1. Step(s, f, t, "loose", "free")
        BY FreeMoves
    <2>2. QED
        BY <2>1 DEF Step, SameChains
<1>2. /\ f.prevBlocking \in [Tags -> Tags \cup {NoTag}]
      /\ f.nextBlocking \in [Tags -> Tags \cup {NoTag}]
      /\ f.tail \in [Entries -> Tags \cup {NoTag}]
    BY <1>1 DEF Shape
<1>3. NoTag \notin Tags /\ z \in Tags \cup {NoTag}
    BY <1>1, <1>2, TagFact
<1>4. s.req[t].entry \in Entries \cup {NoEntry} /\ NoEntry \notin Entries
    BY ReqWaysAssumption DEF Shape, Requests, Entries, ReqWaysAssumption
<1>5. PICK c : c = IF z = NoTag THEN f
                   ELSE [f EXCEPT !.prevBlocking = [f.prevBlocking EXCEPT ![z] = NoTag],
                                  !.nextBlocking = [f.nextBlocking EXCEPT ![t] = NoTag]]
    OBVIOUS
<1>6. u = ReleaseTail(c, t)
    <2>1. CutOff(f, t) = c
        BY <1>1, <1>5 DEF CutOff
    <2>2. QED
        BY <2>1 DEF Cut
<1>7. c \in Shape
    <2>1. /\ [f.prevBlocking EXCEPT ![z] = NoTag] \in [Tags -> Tags \cup {NoTag}]
          /\ [f.nextBlocking EXCEPT ![t] = NoTag] \in [Tags -> Tags \cup {NoTag}]
        BY <1>2
    <2>2. QED
        BY <1>1, <1>5, <2>1 DEF Shape
<1>8. c.req = f.req /\ SameQueues(f, c) /\ SameTable(f, c) /\ c.tail = f.tail
    BY <1>1, <1>5 DEF Shape, SameQueues, SameTable
<1>9. /\ \A y \in Tags : c.prevBlocking[y] = IF y = z THEN NoTag ELSE f.prevBlocking[y]
      /\ \A y \in Tags : c.nextBlocking[y] = IF y = t THEN NoTag ELSE f.nextBlocking[y]
    <2>1. CASE z = NoTag
        <3>1. c = f
            BY <1>5, <2>1
        <3>2. /\ \A y \in Tags : y # z
              /\ f.nextBlocking[t] = NoTag
            BY <1>1, <1>3, <2>1
        <3>3. QED
            BY <2>1, <3>1, <3>2
    <2>2. CASE z # NoTag
        <3>1. /\ c.prevBlocking = [f.prevBlocking EXCEPT ![z] = NoTag]
              /\ c.nextBlocking = [f.nextBlocking EXCEPT ![t] = NoTag]
            BY <1>1, <1>5, <2>2 DEF Shape
        <3>2. QED
            BY <1>2, <1>3, <3>1
    <2>3. QED
        BY <2>1, <2>2
<1> DEFINE e == s.req[t].entry
<1>10. CASE e # NoEntry /\ c.tail[e] = t
    <2>1. u = [c EXCEPT !.tail = [c.tail EXCEPT ![e] = NoTag]]
        BY <1>1, <1>6, <1>8, <1>10 DEF ReleaseTail
    <2>2. [c.tail EXCEPT ![e] = NoTag] \in [Entries -> Tags \cup {NoTag}]
        BY <1>2, <1>8
    <2>3. u \in Shape
        BY <1>7, <2>1, <2>2 DEF Shape
    <2>4. /\ u.req = s.req /\ SameQueues(f, u) /\ SameTable(f, u)
          /\ u.prevBlocking = c.prevBlocking /\ u.nextBlocking = c.nextBlocking
          /\ u.tail = [c.tail EXCEPT ![e] = NoTag]
        BY <1>1, <1>7, <1>8, <2>1 DEF Shape, SameQueues, SameTable
    <2>5. \A g \in Entries : u.tail[g] = IF s.tail[g] = t THEN NoTag ELSE s.tail[g]
        BY <1>1, <1>2, <1>4, <1>8, <1>10, <2>4
    <2>6. QED
        BY <1>1, <1>9, <2>3, <2>4, <2>5
<1>11. CASE ~(e # NoEntry /\ c.tail[e] = t)
    <2>1. u = c
        BY <1>1, <1>6, <1>8, <1>11 DEF ReleaseTail
    <2>2. \A g \in Entries : s.tail[g] # t
        BY <1>1, <1>4, <1>8, <1>11
    <2>3. QED
        BY <1>1, <1>7, <1>8, <1>9, <2>1, <2>2
<1>12. QED
    BY <1>10, <1>11

LEMMA ReadsUnmoved ==
    ASSUME NEW s \in Shape, NEW u, NEW at \in [Tags -> Places], ReadsCounted(s, at),
           u.req = s.req, u.blockedReads = s.blockedReads, NEW t \in Tags, NEW q \in Places,
           s.req[t].code = "READ" => s.req[t].block \in Blocks, ~Blocked(q), ~Blocked(at[t])
    PROVE  ReadsCounted(u, Goes(at, t, q))
<1>1. s.blockedReads \in [Blocks -> Int]
    BY DEF Shape
<1>2. \A b \in Blocks : s.blockedReads = [s.blockedReads EXCEPT ![b] = @ + 0]
    BY <1>1
<1>3. PICK d \in Int : d = 0
    OBVIOUS
<1>4. d = (IF Blocked(q) THEN 1 ELSE 0) - (IF Blocked(at[t]) THEN 1 ELSE 0)
    BY <1>3
<1>5. s.req[t].code = "READ" =>
          u.blockedReads = [s.blockedReads EXCEPT ![s.req[t].block] = @ + d]
    BY <1>2, <1>3
<1>6. QED
    BY <1>4, <1>5, ReadsMove

(* The tag of an ended request is free, and its successor is the head of   *)
(* the chain.                                                              *)
LEMMA CutSound ==
    ASSUME NEW s, NEW wt, NEW at, NEW x, Sound(s, wt, at, x),
           NEW t \in Tags, at[t] = "loose", s.prevBlocking[t] = NoTag,
           NEW z, z = s.nextBlocking[t], NEW c, c = Cut(s, t)
    PROVE  /\ Sound(c, wt, Goes(at, t, "free"), x)
           /\ c.req = s.req /\ c.held = s.held /\ c.bufQ = s.bufQ
           /\ z # NoTag => z \in Tags /\ z # t /\ c.prevBlocking[z] = NoTag
<1>1. /\ s \in Shape /\ at \in [Tags -> Places] /\ Core(s, wt, at)
      /\ Chained(s, at) /\ ReadsCounted(s, at)
      /\ \A w \in Ways \ x : SeenAt(s, w)
      /\ Proper(s.req[t])
    BY SoundFacts DEF Live
<1>2. \A e \in Entries : s.tail[e] = t => s.req[t].entry = e
    BY <1>1, TagFact DEF Chained, TailsFit
<1>3. PICK f : f = [s EXCEPT !.free = @ \cup {t}]
    OBVIOUS
<1>4. Step(s, f, t, "loose", "free")
    BY <1>1, <1>3, FreeMoves
<1>5. /\ f \in Shape /\ f.req = s.req /\ SameTable(s, f)
      /\ Moves(s, f, t, "loose", "free")
    BY <1>4 DEF Step
<1>6. /\ c \in Shape /\ c.req = s.req /\ SameQueues(f, c) /\ SameTable(f, c)
      /\ \A y \in Tags : c.prevBlocking[y] = IF y = z THEN NoTag ELSE s.prevBlocking[y]
      /\ \A y \in Tags : c.nextBlocking[y] = IF y = t THEN NoTag ELSE s.nextBlocking[y]
      /\ \A e \in Entries : c.tail[e] = IF s.tail[e] = t THEN NoTag ELSE s.tail[e]
    BY <1>1, <1>2, <1>3, CutFields
<1>7. Moves(s, c, t, "loose", "free")
    BY <1>5, <1>6, MovesThenSame
<1>8. Core(c, wt, Goes(at, t, "free"))
    <2>1. Core(f, wt, Goes(at, t, "free"))
        BY <1>1, <1>5, CoreMoveOn DEF Live, Places
    <2>2. QED
        BY <1>5, <1>6, <2>1, CoreSame
<1>9. Chained(c, Goes(at, t, "free"))
    BY <1>1, <1>6, LeaveChain
<1>10. c.permitted = s.permitted /\ c.blockedReads = s.blockedReads
    BY <1>5, <1>6 DEF SameTable
<1>11. ReadsCounted(c, Goes(at, t, "free"))
    <2>1. s.req[t].code = "READ" => s.req[t].block \in Blocks
        BY <1>1, PropertyOfReads
    <2>2. ~Blocked("free") /\ ~Blocked(at[t]) /\ "free" \in Places
        BY DEF Blocked, Places
    <2>3. QED
        BY <1>1, <1>6, <1>10, <2>1, <2>2, ReadsUnmoved
<1>12. \A v \in Ways \ x : SeenAt(c, v)
    <2>1. SUFFICES ASSUME NEW v \in Ways \ x PROVE SeenAt(c, v)
        OBVIOUS
    <2>2. RowReqsKept(s, c, at)
        BY <1>6 DEF RowReqsKept
    <2>3. NoFreer(s, c, v)
        <3>1. s.blockedReads \in [Blocks -> Int]
            BY <1>1 DEF Shape
        <3>2. QED
            BY <1>10, <3>1 DEF NoFreer
    <2>4. QED
        BY <1>6, <1>7, <2>2, <2>3, SeenElsewhere
<1>13. c.held = s.held /\ c.bufQ = s.bufQ
    <2>1. f.held = s.held /\ f.bufQ = s.bufQ
        BY <1>4, StepFacts
    <2>2. QED
        BY <1>6, <2>1 DEF SameQueues
<1>14. z # NoTag => z \in Tags /\ z # t /\ c.prevBlocking[z] = NoTag
    <2>1. z \in Tags \cup {NoTag}
        BY <1>1 DEF Shape
    <2>2. z # NoTag => s.prevBlocking[z] = t
        BY <1>1 DEF Chained, LinksFit
    <2>3. QED
        BY <1>6, <2>1, <2>2, TagFact
<1>15. QED
    BY <1>6, <1>8, <1>9, <1>11, <1>12, <1>13, <1>14 DEF Sound

SetReq(s, t, r) == [s EXCEPT !.req[t] = r]

(* The request of a tag that is not in use is set. *)
LEMMA SetReqSound ==
    ASSUME NEW s, NEW wt, NEW at, NEW x, Sound(s, wt, at, x), NEW t \in Tags,
           NEW r \in Requests, at[t] \in {"free", "held", "new"},
           NEW u, u = SetReq(s, t, r)
    PROVE  /\ Sound(u, wt, at, x)
           /\ u.req = [s.req EXCEPT ![t] = r] /\ u.held = s.held /\ u.free = s.free
<1>1. /\ s \in Shape /\ at \in [Tags -> Places] /\ Core(s, wt, at)
      /\ Chained(s, at) /\ ReadsCounted(s, at)
      /\ \A w \in Ways \ x : SeenAt(s, w)
    BY SoundFacts
<1>2. /\ Core(u, wt, at) /\ SameChains(s, u) /\ SameTable(s, u) /\ SameQueues(s, u)
      /\ u.req = [s.req EXCEPT ![t] = r]
    <2>1. Core(u, wt, at)
        BY <1>1, SetReqCore DEF SetReq
    <2>2. SameChains(s, u) /\ SameTable(s, u)
        BY <1>1, SetReqCore DEF SetReq
    <2>3. SameQueues(s, u)
        BY <1>1, SetReqCore DEF SetReq
    <2>4. u.req = [s.req EXCEPT ![t] = r]
        BY <1>1, SetReqCore DEF SetReq
    <2>5. QED
        BY <2>1, <2>2, <2>3, <2>4
<1>3. \A y \in Tags \ {t} : u.req[y] = s.req[y]
    BY <1>1, <1>2 DEF Shape
<1>4. ~Live(at[t])
    BY DEF Live
<1>5. Chained(u, at)
    <2>1. /\ u.prevBlocking = s.prevBlocking /\ u.nextBlocking = s.nextBlocking
          /\ u.tail = s.tail
        BY <1>2 DEF SameChains
    <2>2. /\ s.nextBlocking \in [Tags -> Tags \cup {NoTag}]
          /\ s.tail \in [Entries -> Tags \cup {NoTag}]
        BY <1>1 DEF Shape
    <2>3. \A y \in Tags : Live(at[y]) => u.req[y] = s.req[y]
        BY <1>3, <1>4
    <2>4. OneHead(u, at)
        BY <1>1, <2>1, <2>3 DEF Chained, OneHead
    <2>5. HeadHasTail(u, at)
        BY <1>1, <2>1, <2>3 DEF Chained, HeadHasTail
    <2>6. LinksFit(u, at)
        BY <1>1, <2>1, <2>2, <2>3 DEF Chained, LinksFit
    <2>7. TailsFit(u, at)
        BY <1>1, <2>1, <2>2, <2>3 DEF Chained, TailsFit
    <2>8. HeadsReleased(u, at) /\ RestUnlinked(u, at)
        BY <1>1, <2>1 DEF Chained, HeadsReleased, RestUnlinked
    <2>9. QED
        BY <2>4, <2>5, <2>6, <2>7, <2>8 DEF Chained
<1>6. u.blockedReads = s.blockedReads /\ u.permitted = s.permitted
    BY <1>2 DEF SameTable
<1>7. ReadsCounted(u, at)
    <2>1. ASSUME NEW b \in Blocks PROVE ReadsOf(u.req, at, b) = ReadsOf(s.req, at, b)
        BY <1>3 DEF ReadsOf
    <2>2. QED
        BY <1>1, <1>6, <2>1 DEF ReadsCounted
<1>8. \A v \in Ways \ x : SeenAt(u, v)
    <2>1. SUFFICES ASSUME NEW v \in Ways \ x PROVE SeenAt(u, v)
        OBVIOUS
    <2>2. RowReqsKept(s, u, at)
        BY <1>3 DEF RowReqsKept
    <2>3. s.blockedReads \in [Blocks -> Int]
        BY <1>1 DEF Shape
    <2>4. NoFreer(s, u, v)
        BY <1>6, <2>3 DEF NoFreer
    <2>5. u.rowQ[v] = s.rowQ[v] /\ u.nandQ[v] = s.nandQ[v]
        BY <1>2 DEF SameQueues
    <2>6. u.blockedReads \in [Blocks -> Int]
        BY <1>6, <2>3
    <2>7. QED
        BY <1>1, <2>1, <2>2, <2>4, <2>5, <2>6, SeenKept
<1>9. QED
    BY <1>2, <1>5, <1>7, <1>8 DEF Sound, SameQueues

(* What the end of t leaves of the others: at most a request that was      *)
(* blocked behind another is released.                                     *)
Ended(s, u, wt, at, x, t) ==
    /\ \E a : /\ Sound(u, wt, a, x) /\ a[t] = "free"
              /\ \A y \in Tags \ {t} :
                     \/ a[y] = at[y]
                     \/ at[y] = "buf" /\ a[y] \in {"nand", "row", "dma"}
    /\ u.held = s.held
    /\ \A y \in Tags \ {t} : u.req[y] = s.req[y]

LEMMA ReleaseNextFact ==
    ASSUME NEW f, NEW t, NEW z, z = f.nextBlocking[t],
           NEW c, c = ReleaseTail(CutOff(f, t), t), NoTag \notin c.bufQ,
           NEW out, out = SelectiveGetFromBlockedByBufDepReqQ(c, z),
           NEW u, u = ReleaseBlockedByBufDepReq(f, t)
    PROVE  /\ z = NoTag \/ z \notin c.bufQ => u = c
           /\ z # NoTag /\ z \in c.bufQ =>
                  u = IF IsDma(f.req[z]) THEN PutToNvmeDmaReqQ(out, z) ELSE ReleaseByRowAddr(out, z)
<1>1. CASE z = NoTag \/ z \notin c.bufQ
    BY <1>1 DEF ReleaseBlockedByBufDepReq
<1>2. CASE z # NoTag /\ z \in c.bufQ /\ IsDma(f.req[z])
    BY <1>2 DEF ReleaseBlockedByBufDepReq
<1>3. CASE z # NoTag /\ z \in c.bufQ /\ ~IsDma(f.req[z])
    BY <1>3 DEF ReleaseBlockedByBufDepReq
<1>4. QED
    BY <1>1, <1>2, <1>3

LEMMA ReleaseNextSound ==
    ASSUME NEW s, NEW wt, NEW at, NEW x, Sound(s, wt, at, x),
           NEW t \in Tags, at[t] = "loose", s.prevBlocking[t] = NoTag,
           NEW u, u = ReleaseBlockedByBufDepReq([s EXCEPT !.free = @ \cup {t}], t)
    PROVE  Ended(s, u, wt, at, x, t)
<1>1. PICK z : z = s.nextBlocking[t]
    OBVIOUS
<1>2. PICK c : c = Cut(s, t)
    OBVIOUS
<1>3. PICK b : b = Goes(at, t, "free")
    OBVIOUS
<1>4. /\ Sound(c, wt, b, x)
      /\ c.req = s.req /\ c.held = s.held /\ c.bufQ = s.bufQ
      /\ z # NoTag => z \in Tags /\ z # t /\ c.prevBlocking[z] = NoTag
    BY <1>1, <1>2, <1>3, CutSound
<1>5. s \in Shape /\ at \in [Tags -> Places]
    BY SoundFacts
<1>6. b \in [Tags -> Places] /\ b[t] = "free" /\ \A y \in Tags \ {t} : b[y] = at[y]
    BY <1>3, <1>5 DEF Goes, Places
<1>7. PICK f : f = [s EXCEPT !.free = @ \cup {t}]
    OBVIOUS
<1>8. f.nextBlocking[t] = z /\ f.req = s.req
    BY <1>1, <1>5, <1>7 DEF Shape
<1>9. c = ReleaseTail(CutOff(f, t), t)
    BY <1>2, <1>7 DEF Cut
<1>10. u = ReleaseBlockedByBufDepReq(f, t)
    BY <1>7
<1>11. c.bufQ = At(b, "buf") /\ NoTag \notin c.bufQ
    <2>1. Core(c, wt, b)
        BY <1>4, SoundFacts
    <2>2. c.bufQ = At(b, "buf")
        BY <2>1, CoreFacts
    <2>3. QED
        BY <2>2, TagFact DEF At
<1>12. CASE z = NoTag \/ z \notin c.bufQ
    <2>1. u = c
        BY <1>12, <1>8, <1>9, <1>10, <1>11, ReleaseNextFact
    <2>2. QED
        BY <1>4, <1>6, <2>1 DEF Ended
<1>13. CASE z # NoTag /\ z \in c.bufQ
    <2>1. PICK out : out = SelectiveGetFromBlockedByBufDepReqQ(c, z)
        OBVIOUS
    <2>2. u = IF IsDma(c.req[z]) THEN PutToNvmeDmaReqQ(out, z) ELSE ReleaseByRowAddr(out, z)
        BY <1>4, <1>13, <1>8, <1>9, <1>10, <1>11, <2>1, ReleaseNextFact
    <2>3. z \in Tags /\ z # t /\ c.prevBlocking[z] = NoTag
        BY <1>4, <1>13
    <2>4. b[z] = "buf"
        BY <1>13, <1>11 DEF At
    <2>5. /\ \E q \in {"nand", "row", "dma"} : Sound(u, wt, Goes(b, z, q), x)
          /\ u.req = c.req /\ u.held = c.held
        BY <1>4, <2>1, <2>2, <2>3, <2>4, ReleaseBufSound
    <2>6. PICK q \in {"nand", "row", "dma"} : Sound(u, wt, Goes(b, z, q), x)
        BY <2>5
    <2>7. PICK a : a = Goes(b, z, q)
        OBVIOUS
    <2>8. a[z] = q /\ \A y \in Tags \ {z} : a[y] = b[y]
        BY <1>6, <2>3, <2>7 DEF Goes
    <2>9. \A y \in Tags \ {t} : \/ a[y] = at[y]
                                \/ at[y] = "buf" /\ a[y] \in {"nand", "row", "dma"}
        BY <1>6, <2>3, <2>4, <2>8
    <2>10. Sound(u, wt, a, x) /\ a[t] = "free"
        BY <1>6, <2>3, <2>6, <2>7, <2>8
    <2>11. u.req = s.req /\ u.held = s.held
        BY <1>4, <2>5
    <2>12. QED
        BY <2>9, <2>10, <2>11 DEF Ended
<1>14. QED
    BY <1>12, <1>13

LEMMA NoReqFact == NoReq \in Requests /\ Hold \in Requests /\ NoReq.code = "NONE" /\ Hold.code = "HOLD"
BY DEF NoReq, Hold, Dma, Request, Requests, Codes

LEMMA CompleteSound ==
    ASSUME NEW s, NEW wt, NEW at, NEW x, Sound(s, wt, at, x),
           NEW t \in Tags, at[t] = "loose", s.prevBlocking[t] = NoTag,
           NEW u, u = Complete(s, t)
    PROVE  Ended(s, u, wt, at, x, t)
<1>1. PICK v : v = ReleaseBlockedByBufDepReq([s EXCEPT !.free = @ \cup {t}], t)
    OBVIOUS
<1>2. Ended(s, v, wt, at, x, t)
    BY <1>1, ReleaseNextSound
<1>3. PICK a : /\ Sound(v, wt, a, x) /\ a[t] = "free"
               /\ \A y \in Tags \ {t} : \/ a[y] = at[y]
                                        \/ at[y] = "buf" /\ a[y] \in {"nand", "row", "dma"}
    BY <1>2 DEF Ended
<1>4. PICK r \in Requests : r = NoReq
    BY NoReqFact
<1>5. u = [v EXCEPT !.req[t] = r]
    BY <1>1, <1>4 DEF Complete
<1>6. Sound(u, wt, a, x) /\ u.req = [v.req EXCEPT ![t] = r] /\ u.held = v.held
    <2>1. a[t] \in {"free", "held", "new"} /\ u = SetReq(v, t, r)
        BY <1>3, <1>5 DEF SetReq
    <2>2. QED
        BY <1>3, <2>1, SetReqSound
<1>7. v.req \in [Tags -> Requests]
    BY <1>3, SoundFacts DEF Shape
<1>8. \A y \in Tags \ {t} : u.req[y] = v.req[y]
    BY <1>6, <1>7
<1>9. v.held = s.held /\ \A y \in Tags \ {t} : v.req[y] = s.req[y]
    BY <1>2 DEF Ended
<1>10. u.held = s.held /\ \A y \in Tags \ {t} : u.req[y] = s.req[y]
    BY <1>6, <1>8, <1>9
<1>11. QED
    BY <1>3, <1>6, <1>10 DEF Ended

(* A transfer or a flash operation that has ended has left its queue. *)
LEMMA LeftSound ==
    ASSUME NEW s, NEW wt, NEW at, NEW x, Sound(s, wt, at, x),
           NEW t \in Tags, at[t] \in {"dma", "nand"},
           NEW v, Step(s, v, t, at[t], "loose"),
           NEW y, \A w \in Ways \ y : SeenAt(v, w)
    PROVE  \E b : /\ Sound(v, wt, b, y) /\ b[t] = "loose" /\ v.prevBlocking[t] = NoTag
                 /\ \A z \in Tags \ {t} : b[z] = at[z]
<1>1. /\ s \in Shape /\ at \in [Tags -> Places] /\ Chained(s, at)
      /\ Proper(s.req[t])
    BY SoundFacts DEF Live
<1>2. /\ v \in Shape /\ v.req = s.req /\ SameChains(s, v) /\ SameTable(s, v)
      /\ Moves(s, v, t, at[t], "loose")
    BY DEF Step
<1>3. ReadsFollow(s, v, t, at[t], "loose")
    <2>1. v.blockedReads = s.blockedReads
        BY <1>2 DEF SameTable
    <2>2. s.req[t].code = "READ" => s.req[t].block \in Blocks
        BY <1>1, PropertyOfReads
    <2>3. Blocked(at[t]) <=> Blocked("loose")
        BY DEF Blocked
    <2>4. QED
        BY <1>1, <2>1, <2>2, <2>3, ReadsStay
<1>4. PICK b : b = Goes(at, t, "loose")
    OBVIOUS
<1>5. Sound(v, wt, b, y)
    <2>1. /\ "loose" \in Places /\ at[t] # "loose" /\ Live(at[t]) /\ Live("loose")
          /\ at[t] # "wait"
        BY DEF Places, Live
    <2>2. QED
        BY <1>2, <1>3, <1>4, <2>1, MoveSound
<1>6. b[t] = "loose" /\ \A z \in Tags \ {t} : b[z] = at[z]
    BY <1>1, <1>4 DEF Goes
<1>7. v.prevBlocking[t] = NoTag
    BY <1>1, <1>2 DEF Chained, HeadsReleased, SameChains
<1>8. QED
    BY <1>5, <1>6, <1>7

LEMMA LeaveSound ==
    ASSUME NEW s, NEW wt, NEW at, NEW x, Sound(s, wt, at, x),
           NEW t \in Tags, at[t] \in {"dma", "nand"},
           NEW v, Step(s, v, t, at[t], "loose"),
           NEW y, \A w \in Ways \ y : SeenAt(v, w),
           NEW u, u = Complete(v, t)
    PROVE  Ended(s, u, wt, at, y, t)
<1>1. PICK b : /\ Sound(v, wt, b, y) /\ b[t] = "loose" /\ v.prevBlocking[t] = NoTag
               /\ \A z \in Tags \ {t} : b[z] = at[z]
    BY LeftSound
<1>2. Ended(v, u, wt, b, y, t)
    BY <1>1, CompleteSound
<1>3. v.held = s.held /\ v.req = s.req
    BY StepFacts DEF Step
<1>4. PICK a : /\ Sound(u, wt, a, y) /\ a[t] = "free"
               /\ \A z \in Tags \ {t} : \/ a[z] = b[z]
                                        \/ b[z] = "buf" /\ a[z] \in {"nand", "row", "dma"}
    BY <1>2 DEF Ended
<1>5. \A z \in Tags \ {t} : \/ a[z] = at[z]
                            \/ at[z] = "buf" /\ a[z] \in {"nand", "row", "dma"}
    BY <1>1, <1>4
<1>6. u.held = s.held /\ \A z \in Tags \ {t} : u.req[z] = s.req[z]
    BY <1>2, <1>3 DEF Ended
<1>7. QED
    BY <1>4, <1>5, <1>6 DEF Ended

LEMMA TableSame ==
    ASSUME NEW s \in Shape, NEW u, SameTable(s, u)
    PROVE  \A v : NoFreer(s, u, v)
<1>1. s.blockedReads \in [Blocks -> Int]
    BY DEF Shape
<1>2. QED
    BY <1>1 DEF NoFreer, SameTable

LEMMA DmaLeft ==
    ASSUME NEW s, NEW wt, NEW at, NEW x, Sound(s, wt, at, x),
           NEW t \in Tags, at[t] = "dma", NEW v, v = [s EXCEPT !.dmaQ = Without(@, t)]
    PROVE  Step(s, v, t, "dma", "loose") /\ \A w \in Ways \ x : SeenAt(v, w)
<1>1. s \in Shape /\ Core(s, wt, at)
    BY SoundFacts
<1>2. Once(s.dmaQ) /\ t \in Range(s.dmaQ)
    <2>1. Lists(s.dmaQ, At(at, "dma"))
        BY <1>1, CoreFacts
    <2>2. QED
        BY <2>1 DEF Lists, At
<1>3. v = [s EXCEPT !.dmaQ = Without(s.dmaQ, t)]
    OBVIOUS
<1>4. Step(s, v, t, "dma", "loose")
    BY <1>1, <1>2, <1>3, GetDmaMoves
<1>5. /\ v \in Shape /\ v.req = s.req /\ SameTable(s, v) /\ Moves(s, v, t, "dma", "loose")
    BY <1>4 DEF Step
<1>6. \A w \in Ways \ x : SeenAt(v, w)
    <2>1. SUFFICES ASSUME NEW w \in Ways \ x PROVE SeenAt(v, w)
        OBVIOUS
    <2>2. RowReqsKept(s, v, at) /\ NoFreer(s, v, w)
        BY <1>1, <1>5, TableSame DEF RowReqsKept
    <2>3. QED
        BY <1>5, <2>2, SeenElsewhere
<1>7. QED
    BY <1>4, <1>6

LEMMA DmaEndSound ==
    ASSUME NEW s, NEW wt, NEW at, NEW x, Sound(s, wt, at, x),
           NEW t \in Tags, at[t] = "dma", NEW u, u = SelectiveGetFromNvmeDmaReqQ(s, t)
    PROVE  Ended(s, u, wt, at, x, t)
<1>1. PICK v : v = [s EXCEPT !.dmaQ = Without(@, t)]
    OBVIOUS
<1>2. Step(s, v, t, "dma", "loose") /\ \A w \in Ways \ x : SeenAt(v, w)
    BY <1>1, DmaLeft
<1>3. u = Complete(v, t)
    BY <1>1 DEF SelectiveGetFromNvmeDmaReqQ
<1>4. QED
    BY <1>2, <1>3, LeaveSound

(* The request at the head of a way's queue ends. *)
HeadLeft(s, w) == [s EXCEPT !.nandQ[w] = Tail(@), !.notCompleted = @ - 1]
HeadDone(s, w) == Complete(HeadLeft(s, w), Head(s.nandQ[w]))

LEMMA NandLeft ==
    ASSUME NEW s, NEW wt, NEW at, NEW x, Sound(s, wt, at, x),
           NEW w \in Ways, s.nandQ[w] # <<>>, NEW t, t = Head(s.nandQ[w]),
           NEW v, v = HeadLeft(s, w)
    PROVE  /\ t \in Tags /\ at[t] = "nand" /\ WayOf[s.req[t].block] = w
           /\ Step(s, v, t, "nand", "loose") /\ \A y \in Ways \ (x \cup {w}) : SeenAt(v, y)
<1>1. s \in Shape /\ Core(s, wt, at)
    BY SoundFacts
<1>2. PICK n : n = s.nandQ[w]
    OBVIOUS
<1>3. n \in Seq(Tags) /\ Lists(n, OnWay(s.req, at, "nand", w))
    BY <1>1, <1>2, CoreFacts DEF Shape
<1>4. PICK q : q = Tail(n)
    OBVIOUS
<1>5. t \in OnWay(s.req, at, "nand", w) /\ q \in Seq(Tags) /\ Lists(q, Range(n) \ {t})
    BY <1>2, <1>3, <1>4, ListsTail DEF Lists
<1>6. t \in Tags /\ at[t] = "nand" /\ WayOf[s.req[t].block] = w
    BY <1>5 DEF OnWay
<1>7. PICK z : z = [s EXCEPT !.nandQ = [s.nandQ EXCEPT ![w] = q],
                             !.notCompleted = s.notCompleted - 1]
    OBVIOUS
<1>8. Step(s, z, t, "nand", "loose")
    <2>1. w = WayOf[s.req[t].block] /\ Lists(q, Range(s.nandQ[w]) \ {t})
        BY <1>2, <1>5, <1>6
    <2>2. s \in Shape /\ t \in Tags /\ q \in Seq(Tags)
        BY <1>1, <1>5, <1>6
    <2>3. QED
        BY <1>7, <2>1, <2>2, GetNandMoves
<1>9. /\ z \in Shape /\ z.req = s.req /\ SameTable(s, z) /\ Moves(s, z, t, "nand", "loose")
    BY <1>8 DEF Step
<1>10. NandReq(s.req[t])
    BY <1>6, SoundFacts
<1>11. \A y \in Ways \ (x \cup {w}) : SeenAt(z, y)
    <2>1. SUFFICES ASSUME NEW y \in Ways \ (x \cup {w}) PROVE SeenAt(z, y)
        OBVIOUS
    <2>2. OnlyBlock(s, z, s.req[t].block)
        BY <1>9 DEF OnlyBlock, SameTable
    <2>3. y \in Ways \ x /\ y # WayOf[s.req[t].block]
        BY <1>6
    <2>4. Sound(s, wt, at, x) /\ t \in Tags /\ z \in Shape /\ z.req = s.req /\ Moves(s, z, t, "nand", "loose")
        BY <1>6, <1>9
    <2>5. QED
        BY <1>10, <2>2, <2>3, <2>4, SeenMove
<1>12. v = z
    BY <1>2, <1>4, <1>7 DEF HeadLeft
<1>13. QED
    BY <1>6, <1>8, <1>11, <1>12

LEMMA NandEndSound ==
    ASSUME NEW s, NEW wt, NEW at, NEW x, Sound(s, wt, at, x),
           NEW w \in Ways, s.nandQ[w] # <<>>, NEW t, t = Head(s.nandQ[w]),
           NEW u, u = HeadDone(s, w)
    PROVE  /\ t \in Tags /\ at[t] = "nand" /\ WayOf[s.req[t].block] = w
           /\ Ended(s, u, wt, at, x \cup {w}, t)
<1>1. PICK v : v = HeadLeft(s, w)
    OBVIOUS
<1>2. /\ t \in Tags /\ at[t] = "nand" /\ WayOf[s.req[t].block] = w
      /\ Step(s, v, t, "nand", "loose") /\ \A y \in Ways \ (x \cup {w}) : SeenAt(v, y)
    BY <1>1, NandLeft
<1>3. u = Complete(v, t)
    BY <1>1 DEF HeadDone
<1>4. QED
    BY <1>2, <1>3, LeaveSound
-----------------------------------------------------------------------------
(* The walks over the queues *)

(* One turn of the loops that are folds: what a way releases, the walk     *)
(* over the DMA queue, the hand-down of a call, the copies of a collection.*)
Turn(kind, a, x) ==
    CASE kind = "release" -> Release(a, x)
      [] kind = "walk" -> WalkDma(a, x)
      [] kind = "hand" -> HandDown(a, x)
      [] kind = "copy" -> CopySlice(a, x)

(* The fold of kind over q, from base. *)
Fold(kind, base, q) == FoldLeft(LAMBDA a, x : Turn(kind, a, x), base, q)

(* h computes the fold on every part of the first n elements of q. *)
Folds(kind, h, base, q, n) ==
    h = [s \in SUBSET (1 .. n) |->
            IF s = {} THEN base
            ELSE LET x == Max(s) IN Turn(kind, h[s \ {x}], q[x])]

(* There is such a function. *)
LEMMA FoldsExist ==
    ASSUME NEW kind, NEW q, NEW base, NEW n \in Nat
    PROVE  \E h : Folds(kind, h, base, q, n)
<1> DEFINE K == {k \in 0 .. n : \E h : Folds(kind, h, base, q, k)}
<1>1. 0 \in K
    <2> DEFINE g == [s \in SUBSET (1 .. 0) |-> base]
    <2>1. \A s \in SUBSET (1 .. 0) : s = {}
        OBVIOUS
    <2>2. g = [s \in SUBSET (1 .. 0) |->
            IF s = {} THEN base
            ELSE LET x == Max(s) IN Turn(kind, g[s \ {x}], q[x])]
        BY <2>1, Zenon
    <2>3. Folds(kind, g, base, q, 0)
        BY <2>2 DEF Folds
    <2>4. QED
        BY <2>3
<1>2. ASSUME NEW k \in 0 .. n, k # n, k \in K PROVE k + 1 \in K
    <2>1. PICK h : Folds(kind, h, base, q, k)
        BY <1>2
    <2> DEFINE g == [s \in SUBSET (1 .. k + 1) |->
                        IF k + 1 \in s THEN Turn(kind, h[s \ {k + 1}], q[k + 1]) ELSE h[s]]
    <2>2. ASSUME NEW s \in SUBSET (1 .. k + 1)
          PROVE  g[s] = IF s = {} THEN base
                        ELSE LET x == Max(s) IN Turn(kind, g[s \ {x}], q[x])
        <3>1. CASE k + 1 \in s
            <4>1. Max(s) = k + 1
                <5>1. (\A j \in s : j <= k + 1) /\ s \subseteq Nat
                    OBVIOUS
                <5>2. QED
                    BY <3>1, <5>1, MaxFact
            <4>2. s \ {k + 1} \in SUBSET (1 .. k + 1) /\ k + 1 \notin s \ {k + 1} /\ s # {}
                BY <3>1
            <4>3. g[s \ {k + 1}] = h[s \ {k + 1}]
                BY <4>2
            <4>4. g[s] = Turn(kind, h[s \ {k + 1}], q[k + 1])
                BY <3>1
            <4> HIDE DEF g
            <4>5. QED
                BY <4>1, <4>2, <4>3, <4>4
        <3>2. CASE k + 1 \notin s /\ s = {}
            <4>1. s \in SUBSET (1 .. k) /\ g[s] = h[s]
                BY <3>2
            <4>2. h[s] = base
                BY <2>1, <3>2, <4>1 DEF Folds
            <4>3. QED
                BY <3>2, <4>1, <4>2
        <3>3. CASE k + 1 \notin s /\ s # {}
            <4>1. s \in SUBSET (1 .. k) /\ g[s] = h[s]
                BY <3>3
            <4>2. PICK x : x = Max(s)
                OBVIOUS
            <4>3. s \ {x} \in SUBSET (1 .. k) /\ s \ {x} \in SUBSET (1 .. k + 1) /\ k + 1 \notin s \ {x}
                BY <3>3, <4>1
            <4>4. g[s \ {x}] = h[s \ {x}]
                BY <4>3
            <4>5. h[s] = Turn(kind, h[s \ {x}], q[x])
                BY <2>1, <3>3, <4>1, <4>2 DEF Folds
            <4> HIDE DEF g
            <4>6. QED
                BY <3>3, <4>1, <4>2, <4>4, <4>5
        <3>4. QED
            BY <3>1, <3>2, <3>3
    <2>3. g = [s \in SUBSET (1 .. k + 1) |-> g[s]]
        OBVIOUS
    <2> HIDE DEF g
    <2>4. Folds(kind, g, base, q, k + 1)
        BY <2>2, <2>3 DEF Folds
    <2>5. k + 1 \in 0 .. n
        BY <1>2
    <2>6. QED
        BY <2>4, <2>5
<1> HIDE DEF K
<1>3. n \in K
    BY <1>1, <1>2, UpTo
<1>4. QED
    BY <1>3 DEF K

(* What a fold computes is reached turn by turn. *)
LEMMA FoldPath ==
    ASSUME NEW kind, NEW S, NEW q \in Seq(S), NEW base
    PROVE  \E f : /\ f[0] = base
                  /\ \A k \in 1 .. Len(q) : f[k] = Turn(kind, f[k - 1], q[k])
                  /\ f[Len(q)] = Fold(kind, base, q)
<1> DEFINE it == CHOOSE h : Folds(kind, h, base, q, Len(q))
           f == [k \in 0 .. Len(q) |-> it[1 .. k]]
<1>1. Len(q) \in Nat /\ DOMAIN q = 1 .. Len(q)
    OBVIOUS
<1>2. Folds(kind, it, base, q, Len(q))
    BY <1>1, FoldsExist
<1>3. Fold(kind, base, q) = it[1 .. Len(q)]
    BY <1>1 DEF Fold, FoldLeft, MapThenFoldSet, Folds
<1> HIDE DEF it
<1>4. f[0] = base
    <2>1. 1 .. 0 = {} /\ 1 .. 0 \in SUBSET (1 .. Len(q)) /\ 0 \in 0 .. Len(q)
        BY <1>1
    <2>2. QED
        BY <1>2, <2>1 DEF Folds
<1>5. ASSUME NEW k \in 1 .. Len(q)
      PROVE  f[k] = Turn(kind, f[k - 1], q[k])
    <2>1. /\ k \in 1 .. k /\ k \in 0 .. Len(q) /\ k - 1 \in 0 .. Len(q)
          /\ 1 .. k \in SUBSET (1 .. Len(q))
        BY <1>1
    <2>2. (1 .. k) \ {k} = 1 .. k - 1
        BY <1>1
    <2>3. Max(1 .. k) = k
        <3>1. k \in 1 .. k /\ (\A j \in 1 .. k : j <= k) /\ 1 .. k \subseteq Nat
            OBVIOUS
        <3>2. QED
            BY <3>1, MaxFact
    <2>4. it[1 .. k] = Turn(kind, it[(1 .. k) \ {k}], q[k])
        BY <1>2, <2>1, <2>3 DEF Folds
    <2>5. QED
        BY <2>1, <2>2, <2>4
<1>6. f[Len(q)] = Fold(kind, base, q)
    BY <1>1, <1>3
<1>7. QED
    BY <1>4, <1>5, <1>6

(* The states a walk goes through. *)
LEMMA ReleasePath ==
    ASSUME NEW q \in Seq(Tags), NEW s
    PROVE  \E f : /\ f[0] = s
                  /\ \A k \in 1 .. Len(q) : f[k] = Release(f[k - 1], q[k])
                  /\ f[Len(q)] = FoldLeft(Release, s, q)
<1>1. FoldLeft(Release, s, q) = Fold("release", s, q)
    BY DEF Turn, Fold, FoldLeft, MapThenFoldSet, Max
<1>2. PICK f : /\ f[0] = s
               /\ \A k \in 1 .. Len(q) : f[k] = Turn("release", f[k - 1], q[k])
               /\ f[Len(q)] = Fold("release", s, q)
    BY FoldPath
<1>3. QED
    BY <1>1, <1>2 DEF Turn

LEMMA WalkPath ==
    ASSUME NEW q \in Seq(Tags), NEW a
    PROVE  \E f : /\ f[0] = a
                  /\ \A k \in 1 .. Len(q) : f[k] = WalkDma(f[k - 1], q[k])
                  /\ f[Len(q)] = FoldLeft(WalkDma, a, q)
<1>1. FoldLeft(WalkDma, a, q) = Fold("walk", a, q)
    BY DEF Turn, Fold, FoldLeft, MapThenFoldSet, Max
<1>2. PICK f : /\ f[0] = a
               /\ \A k \in 1 .. Len(q) : f[k] = Turn("walk", f[k - 1], q[k])
               /\ f[Len(q)] = Fold("walk", a, q)
    BY FoldPath
<1>3. QED
    BY <1>1, <1>2 DEF Turn

(* The walk over the blocked requests q of way w, when k are looked at: as *)
(* long as the way has nothing to do, none could go.                       *)
ReleasedUpTo(s, u, wt, at, x, w, q, k) ==
    /\ \E a : /\ Sound(u, wt, a, x)
              /\ \A y \in Tags : a[y] = at[y] \/ (at[y] = "row" /\ a[y] = "nand")
              /\ \A j \in k + 1 .. Len(q) : a[q[j]] = "row"
    /\ u.req = s.req /\ u.held = s.held
    /\ u.nandQ[w] = <<>> => u = s /\ \A j \in 1 .. k : ~RowAddrPass(s, q[j])

LEMMA ReleaseOneMore ==
    ASSUME NEW s, NEW wt, NEW at, NEW x, NEW w \in Ways, NEW q \in Seq(Tags), Once(q),
           NEW k \in Nat, k + 1 \in 1 .. Len(q), WayOf[s.req[q[k + 1]].block] = w,
           NEW u, ReleasedUpTo(s, u, wt, at, x, w, q, k),
           NEW v, v = Release(u, q[k + 1])
    PROVE  ReleasedUpTo(s, v, wt, at, x, w, q, k + 1)
<1>1. PICK a : /\ Sound(u, wt, a, x)
               /\ \A y \in Tags : a[y] = at[y] \/ (at[y] = "row" /\ a[y] = "nand")
               /\ \A j \in k + 1 .. Len(q) : a[q[j]] = "row"
    BY DEF ReleasedUpTo
<1>2. /\ u.req = s.req /\ u.held = s.held
      /\ u.nandQ[w] = <<>> => u = s /\ \A j \in 1 .. k : ~RowAddrPass(s, q[j])
    BY DEF ReleasedUpTo
<1>3. PICK t \in Tags : t = q[k + 1]
    OBVIOUS
<1>4. k + 1 \in k + 1 .. Len(q) /\ a[t] = "row"
    BY <1>1, <1>3
<1>5. Released(u, v, wt, a, x, t)
    BY <1>1, <1>3, <1>4, ReleaseSound
<1>6. a \in [Tags -> Places] /\ Len(q) \in Nat
    BY <1>1, SoundFacts
<1>7. WayOf[u.req[t].block] = w
    BY <1>2, <1>3
<1>8. \A j \in k + 2 .. Len(q) : q[j] \in Tags /\ q[j] # t /\ j \in k + 1 .. Len(q)
    BY <1>3, <1>6 DEF Once
<1>9. v.req = s.req /\ v.held = s.held
    BY <1>2, <1>5 DEF Released
<1>10. (k + 1) + 1 .. Len(q) = k + 2 .. Len(q)
    BY <1>6
<1>11. CASE RowAddrPass(u, t)
    <2>1. Sound(v, wt, Goes(a, t, "nand"), x) /\ v.nandQ[w] # <<>>
        BY <1>5, <1>7, <1>11 DEF Released
    <2>2. PICK b : b = Goes(a, t, "nand")
        OBVIOUS
    <2>3. b[t] = "nand" /\ \A y \in Tags \ {t} : b[y] = a[y]
        BY <1>6, <2>2 DEF Goes
    <2>4. \A y \in Tags : b[y] = at[y] \/ (at[y] = "row" /\ b[y] = "nand")
        BY <1>1, <1>4, <2>3
    <2>5. \A j \in k + 2 .. Len(q) : b[q[j]] = "row"
        BY <1>1, <1>8, <2>3
    <2>6. QED
        BY <1>9, <1>10, <2>1, <2>2, <2>4, <2>5 DEF ReleasedUpTo
<1>12. CASE ~RowAddrPass(u, t)
    <2>1. v = u
        BY <1>5, <1>12 DEF Released
    <2>2. v.nandQ[w] = <<>> => v = s /\ \A j \in 1 .. k + 1 : ~RowAddrPass(s, q[j])
        <3>1. \A j \in 1 .. k + 1 : j \in 1 .. k \/ j = k + 1
            OBVIOUS
        <3>2. QED
            BY <1>2, <1>3, <1>12, <2>1, <3>1
    <2>3. \A j \in k + 2 .. Len(q) : a[q[j]] = "row"
        BY <1>1, <1>8
    <2>4. QED
        BY <1>1, <1>9, <1>10, <2>1, <2>2, <2>3 DEF ReleasedUpTo
<1>13. QED
    BY <1>11, <1>12

(* A walk over all blocked requests of a way. *)
LEMMA ReleaseAllSound ==
    ASSUME NEW s, NEW wt, NEW at, NEW x, Sound(s, wt, at, x), NEW w \in Ways,
           NEW u, u = ReleaseBlockedByRowAddrDepReq(s, w)
    PROVE  /\ \E a : /\ Sound(u, wt, a, x \ {w})
                     /\ \A y \in Tags : a[y] = at[y] \/ (at[y] = "row" /\ a[y] = "nand")
           /\ u.req = s.req /\ u.held = s.held
<1>1. s \in Shape /\ Core(s, wt, at)
    BY SoundFacts
<1>2. PICK q : q = s.rowQ[w]
    OBVIOUS
<1>3. q \in Seq(Tags) /\ Lists(q, OnWay(s.req, at, "row", w))
    BY <1>1, <1>2, CoreFacts DEF Shape
<1>4. /\ Len(q) \in Nat /\ DOMAIN q = 1 .. Len(q) /\ Once(q)
      /\ \A j \in 1 .. Len(q) : q[j] \in Tags /\ at[q[j]] = "row" /\ WayOf[s.req[q[j]].block] = w
    BY <1>3 DEF Lists, Range, OnWay
<1>5. PICK f : /\ f[0] = s
               /\ \A k \in 1 .. Len(q) : f[k] = Release(f[k - 1], q[k])
               /\ f[Len(q)] = u
    <2>1. \E f : /\ f[0] = s
                 /\ \A k \in 1 .. Len(q) : f[k] = Release(f[k - 1], q[k])
                 /\ f[Len(q)] = FoldLeft(Release, s, q)
        BY <1>3, ReleasePath
    <2>2. u = FoldLeft(Release, s, q)
        BY <1>2 DEF ReleaseBlockedByRowAddrDepReq
    <2>3. QED
        BY <2>1, <2>2
<1> DEFINE n == Len(q)
           K == {k \in 0 .. n : ReleasedUpTo(s, f[k], wt, at, x, w, q, k)}
<1>6. 0 \in K
    <2>1. 0 \in 0 .. Len(q) /\ 0 + 1 .. Len(q) = 1 .. Len(q) /\ 1 .. 0 = {}
        BY <1>4
    <2>2. \A j \in 1 .. Len(q) : at[q[j]] = "row"
        BY <1>4
    <2>3. ReleasedUpTo(s, f[0], wt, at, x, w, q, 0)
        BY <1>5, <2>1, <2>2 DEF ReleasedUpTo
    <2>4. QED
        BY <2>1, <2>3
<1>7. ASSUME NEW k \in 0 .. n, k # n, ReleasedUpTo(s, f[k], wt, at, x, w, q, k)
      PROVE  k + 1 \in 0 .. n /\ ReleasedUpTo(s, f[k + 1], wt, at, x, w, q, k + 1)
    <2>1. k \in Nat /\ k + 1 \in 1 .. n /\ k + 1 \in 0 .. n /\ (k + 1) - 1 = k
        <3>1. n \in Nat
            BY <1>4
        <3> HIDE DEF n
        <3>2. QED
            BY <1>7, <3>1
    <2>2. f[k + 1] = Release(f[k], q[k + 1])
        BY <1>5, <2>1
    <2>3. ReleasedUpTo(s, f[k + 1], wt, at, x, w, q, k + 1)
        BY <1>3, <1>4, <1>7, <2>1, <2>2, ReleaseOneMore
    <2>4. QED
        BY <2>1, <2>3
<1>8. n \in K
    <2>1. n \in Nat
        BY <1>4
    <2> HIDE DEF n
    <2>2. \A k \in 0 .. n : k # n /\ k \in K => k + 1 \in K
        BY <1>7
    <2> HIDE DEF K
    <2>3. \A k \in 0 .. n : k \in K
        BY <1>6, <2>1, <2>2, UpTo
    <2>4. QED
        BY <2>1, <2>3
<1>9. ReleasedUpTo(s, u, wt, at, x, w, q, Len(q))
    BY <1>5, <1>8 DEF K
<1>10. PICK a : /\ Sound(u, wt, a, x)
                /\ \A y \in Tags : a[y] = at[y] \/ (at[y] = "row" /\ a[y] = "nand")
    BY <1>9 DEF ReleasedUpTo
<1>11. /\ u.req = s.req /\ u.held = s.held
       /\ u.nandQ[w] = <<>> => u = s /\ \A j \in 1 .. Len(q) : ~RowAddrPass(s, q[j])
    BY <1>9 DEF ReleasedUpTo
<1>12. SeenAt(u, w)
    <2>1. SUFFICES ASSUME u.nandQ[w] = <<>>, NEW t \in Range(u.rowQ[w])
                   PROVE  ~RowAddrPass(u, t)
        BY DEF SeenAt
    <2>2. u = s
        BY <1>11, <2>1
    <2>3. PICK j \in 1 .. Len(q) : t = q[j]
        BY <1>2, <1>4, <2>1, <2>2 DEF Range
    <2>4. QED
        BY <1>11, <2>1, <2>2, <2>3
<1>13. Sound(u, wt, a, x \ {w})
    BY <1>10, <1>12 DEF Sound
<1>14. QED
    BY <1>10, <1>11, <1>13

(* No tag is left on its way. *)
Settled(at) == \A y \in Tags : at[y] \notin {"new", "loose"}

(* From at to a, a tag stays where it is or is let go or free. *)
Onward(at, a) == \A y \in Tags : a[y] = at[y] \/ a[y] \in {"free", "nand", "row", "dma"}

(* The walk over the transfers q, when k are looked at. *)
WalkedUpTo(s, u, wt, at, x, q, k) ==
    /\ \E a : /\ Sound(u, wt, a, x) /\ Onward(at, a)
              /\ \A j \in k + 1 .. Len(q) : a[q[j]] = "dma"
    /\ u.held = s.held

LEMMA WalkOneMore ==
    ASSUME NEW s, NEW wt, NEW at, NEW x, NEW q \in Seq(Tags), Once(q),
           NEW k \in Nat, k + 1 \in 1 .. Len(q),
           NEW u, WalkedUpTo(s, u, wt, at, x, q, k), NEW done,
           NEW v, v = WalkDma([sched |-> u, done |-> done], q[k + 1])
    PROVE  /\ v = [sched |-> v.sched, done |-> done]
           /\ WalkedUpTo(s, v.sched, wt, at, x, q, k + 1)
<1>1. PICK a : /\ Sound(u, wt, a, x) /\ Onward(at, a)
               /\ \A j \in k + 1 .. Len(q) : a[q[j]] = "dma"
    BY DEF WalkedUpTo
<1>2. u.held = s.held
    BY DEF WalkedUpTo
<1>3. PICK t \in Tags : t = q[k + 1]
    OBVIOUS
<1>4. k + 1 \in k + 1 .. Len(q) /\ a[t] = "dma"
    BY <1>1, <1>3
<1>5. \A j \in k + 2 .. Len(q) : q[j] \in Tags /\ q[j] # t /\ j \in k + 1 .. Len(q)
    BY <1>3 DEF Once
<1>6. (k + 1) + 1 .. Len(q) = k + 2 .. Len(q)
    OBVIOUS
<1>7. CASE t \in done
    <2>1. PICK c : c = SelectiveGetFromNvmeDmaReqQ(u, t)
        OBVIOUS
    <2>2. v = [sched |-> c, done |-> done]
        BY <1>3, <1>7, <2>1 DEF WalkDma
    <2>3. Ended(u, c, wt, a, x, t)
        BY <1>1, <1>4, <2>1, DmaEndSound
    <2>4. PICK b : /\ Sound(c, wt, b, x) /\ b[t] = "free"
                   /\ \A y \in Tags \ {t} : \/ b[y] = a[y]
                                            \/ a[y] = "buf" /\ b[y] \in {"nand", "row", "dma"}
        BY <2>3 DEF Ended
    <2>5. Onward(at, b)
        BY <1>1, <2>4 DEF Onward
    <2>6. \A j \in k + 2 .. Len(q) : b[q[j]] = "dma"
        BY <1>1, <1>5, <2>4
    <2>7. c.held = s.held
        BY <1>2, <2>3 DEF Ended
    <2>8. WalkedUpTo(s, c, wt, at, x, q, k + 1)
        BY <1>6, <2>4, <2>5, <2>6, <2>7 DEF WalkedUpTo
    <2>9. v.sched = c
        BY <2>2
    <2>10. QED
        BY <2>2, <2>8, <2>9
<1>8. CASE t \notin done
    <2>1. v = [sched |-> u, done |-> done]
        BY <1>3, <1>8 DEF WalkDma
    <2>2. \A j \in k + 2 .. Len(q) : a[q[j]] = "dma"
        BY <1>1, <1>5
    <2>3. WalkedUpTo(s, u, wt, at, x, q, k + 1)
        BY <1>1, <1>2, <1>6, <2>2 DEF WalkedUpTo
    <2>4. v.sched = u
        BY <2>1
    <2>5. QED
        BY <2>1, <2>3, <2>4
<1>9. QED
    BY <1>7, <1>8

LEMMA WalkAllSound ==
    ASSUME NEW s, NEW wt, NEW at, NEW x, Sound(s, wt, at, x), NEW done,
           NEW q \in Seq(Tags), Once(q), \A j \in 1 .. Len(q) : at[q[j]] = "dma",
           NEW u, u = FoldLeft(WalkDma, [sched |-> s, done |-> done], q).sched
    PROVE  /\ \E a : Sound(u, wt, a, x) /\ Onward(at, a)
           /\ u.held = s.held
<1>1. PICK n \in Nat : n = Len(q)
    OBVIOUS
<1>2. PICK f : /\ f[0] = [sched |-> s, done |-> done]
               /\ \A k \in 1 .. n : f[k] = WalkDma(f[k - 1], q[k])
               /\ f[n].sched = u
    <2>1. PICK c : c = [sched |-> s, done |-> done]
        OBVIOUS
    <2>2. PICK f : /\ f[0] = c
                   /\ \A k \in 1 .. Len(q) : f[k] = WalkDma(f[k - 1], q[k])
                   /\ f[Len(q)] = FoldLeft(WalkDma, c, q)
        BY WalkPath
    <2>3. u = f[n].sched
        BY <1>1, <2>1, <2>2
    <2>4. QED
        BY <1>1, <2>1, <2>2, <2>3
<1>3. PICK g : g = [k \in 0 .. n |-> f[k].sched]
    OBVIOUS
<1> DEFINE K == {k \in 0 .. n : /\ f[k] = [sched |-> g[k], done |-> done]
                                /\ WalkedUpTo(s, g[k], wt, at, x, q, k)}
<1>4. 0 \in K
    <2>1. 0 \in 0 .. n /\ 0 + 1 .. n = 1 .. n
        OBVIOUS
    <2>2. g[0] = s /\ f[0] = [sched |-> g[0], done |-> done]
        BY <1>2, <1>3, <2>1
    <2>3. Onward(at, at)
        BY DEF Onward
    <2>4. WalkedUpTo(s, s, wt, at, x, q, 0)
        BY <1>1, <2>1, <2>3 DEF WalkedUpTo
    <2>5. QED
        BY <2>1, <2>2, <2>4
<1>5. ASSUME NEW k \in 0 .. n, k # n, f[k] = [sched |-> g[k], done |-> done],
             WalkedUpTo(s, g[k], wt, at, x, q, k)
      PROVE  /\ k + 1 \in 0 .. n /\ f[k + 1] = [sched |-> g[k + 1], done |-> done]
             /\ WalkedUpTo(s, g[k + 1], wt, at, x, q, k + 1)
    <2>1. k \in Nat /\ k + 1 \in 1 .. n /\ k + 1 \in 0 .. n /\ (k + 1) - 1 = k
        BY <1>5
    <2>2. f[k + 1] = WalkDma([sched |-> g[k], done |-> done], q[k + 1])
        BY <1>2, <1>5, <2>1
    <2>3. /\ f[k + 1] = [sched |-> f[k + 1].sched, done |-> done]
          /\ WalkedUpTo(s, f[k + 1].sched, wt, at, x, q, k + 1)
        BY <1>1, <1>5, <2>1, <2>2, WalkOneMore
    <2>4. g[k + 1] = f[k + 1].sched
        BY <1>3, <2>1
    <2>5. QED
        BY <2>1, <2>3, <2>4
<1>6. n \in K
    <2>1. \A k \in 0 .. n : k # n /\ k \in K => k + 1 \in K
        BY <1>5
    <2> HIDE DEF K
    <2>2. \A k \in 0 .. n : k \in K
        BY <1>4, <2>1, UpTo
    <2>3. QED
        BY <2>2
<1>7. WalkedUpTo(s, u, wt, at, x, q, n)
    <2>1. g[n] = u
        BY <1>2, <1>3
    <2>2. QED
        BY <1>6, <2>1
<1>8. QED
    BY <1>7 DEF WalkedUpTo

LEMMA ReverseFact ==
    ASSUME NEW q \in Seq(Tags), Once(q)
    PROVE  /\ Reverse(q) \in Seq(Tags) /\ Once(Reverse(q))
           /\ \A j \in 1 .. Len(Reverse(q)) : Reverse(q)[j] \in Range(q)
<1>1. PICK n \in Nat : n = Len(q) /\ DOMAIN q = 1 .. n
    OBVIOUS
<1>2. PICK r : r = [i \in 1 .. n |-> q[(n - i) + 1]]
    OBVIOUS
<1>3. Reverse(q) = r
    BY <1>1, <1>2 DEF Reverse
<1>4. \A i \in 1 .. n : (n - i) + 1 \in 1 .. n
    OBVIOUS
<1>5. r \in [1 .. n -> Tags] /\ DOMAIN r = 1 .. n
    BY <1>1, <1>2, <1>4
<1>6. r \in Seq(Tags) /\ Len(r) = n
    BY <1>5, IsASeq
<1>7. Once(r)
    <2>1. SUFFICES ASSUME NEW i \in 1 .. n, NEW j \in 1 .. n, r[i] = r[j] PROVE i = j
        BY <1>5 DEF Once
    <2>2. q[(n - i) + 1] = q[(n - j) + 1]
        BY <1>2, <2>1
    <2>3. (n - i) + 1 = (n - j) + 1
        BY <1>1, <1>4, <2>2 DEF Once
    <2>4. QED
        BY <2>3
<1>8. \A j \in 1 .. n : r[j] \in Range(q)
    BY <1>1, <1>2, <1>4 DEF Range
<1>9. QED
    BY <1>3, <1>6, <1>7, <1>8
-----------------------------------------------------------------------------
(* Handing a request down *)

LEMMA MinFact ==
    ASSUME NEW x \in SUBSET Tags, x # {}
    PROVE  Min(x) \in x
<1>1. x \subseteq Nat
    BY TagFact
<1>2. PICK R : R = OpToRel(<, Nat)
    OBVIOUS
<1>3. IsWellFoundedOn(R, Nat)
    BY <1>2, NatLessThanWellFounded
<1>4. \A i, j \in Nat : i < j => <<i, j>> \in R
    BY <1>2 DEF OpToRel
<1>5. PICK m \in x : \A y \in x : ~ (<<y, m>> \in R)
    BY <1>1, <1>3, WFMin
<1>6. ASSUME NEW y \in x PROVE m <= y
    <2>1. y \in Nat /\ m \in Nat
        BY <1>1
    <2>2. ~(y < m)
        BY <1>4, <1>5, <2>1
    <2>3. QED
        BY <2>1, <2>2
<1>7. QED
    BY <1>6 DEF Min

(* A tag that is not in use moves. *)
LEMMA RestSound ==
    ASSUME NEW s, NEW wt, NEW at, NEW x, Sound(s, wt, at, x), NEW t \in Tags,
           NEW q \in {"free", "held", "new"}, at[t] \in {"free", "held", "new"}, at[t] # q,
           NEW u, Step(s, u, t, at[t], q)
    PROVE  Sound(u, wt, Goes(at, t, q), x) /\ u.req = s.req
<1>1. /\ s \in Shape /\ at \in [Tags -> Places] /\ Core(s, wt, at)
      /\ Chained(s, at) /\ ReadsCounted(s, at)
    BY SoundFacts
<1>2. /\ u \in Shape /\ u.req = s.req /\ SameChains(s, u) /\ SameTable(s, u)
      /\ Moves(s, u, t, at[t], q)
    BY DEF Step
<1>3. /\ q \in Places /\ ~Live(q) /\ ~Live(at[t]) /\ ~Blocked(q) /\ ~Blocked(at[t])
      /\ q \notin {"wait", "dma", "nand", "row"} /\ at[t] # "wait"
      /\ {at[t], q} \cap {"nand", "row"} = {}
    BY DEF Places, Live, Blocked
<1>4. Core(u, wt, Goes(at, t, q))
    BY <1>1, <1>2, <1>3, CoreMoveOn
<1>5. PICK a : a = Goes(at, t, q)
    OBVIOUS
<1>6. a[t] = q /\ \A y \in Tags \ {t} : a[y] = at[y]
    BY <1>1, <1>5 DEF Goes
<1>7. Chained(u, a)
    <2>1. \A y \in Tags : Live(a[y]) <=> Live(at[y])
        BY <1>3, <1>6
    <2>2. \A y \in Tags : a[y] \in {"nand", "row", "dma"} => at[y] = a[y]
        BY <1>3, <1>6
    <2>3. /\ u.prevBlocking = s.prevBlocking /\ u.nextBlocking = s.nextBlocking
          /\ u.tail = s.tail
        BY <1>2 DEF SameChains
    <2>4. /\ s.nextBlocking \in [Tags -> Tags \cup {NoTag}]
          /\ s.tail \in [Entries -> Tags \cup {NoTag}]
        BY <1>1 DEF Shape
    <2>5. OneHead(u, a)
        BY <1>1, <1>2, <2>1, <2>3 DEF Chained, OneHead
    <2>6. HeadHasTail(u, a)
        BY <1>1, <1>2, <2>1, <2>3 DEF Chained, HeadHasTail
    <2>7. LinksFit(u, a)
        BY <1>1, <1>2, <2>1, <2>3, <2>4 DEF Chained, LinksFit
    <2>8. TailsFit(u, a)
        BY <1>1, <1>2, <2>1, <2>3, <2>4 DEF Chained, TailsFit
    <2>9. HeadsReleased(u, a) /\ RestUnlinked(u, a)
        BY <1>1, <2>1, <2>2, <2>3 DEF Chained, HeadsReleased, RestUnlinked
    <2>10. QED
        BY <2>5, <2>6, <2>7, <2>8, <2>9 DEF Chained
<1>8. ReadsCounted(u, a)
    <2>1. ASSUME NEW b \in Blocks PROVE ReadsOf(u.req, a, b) = ReadsOf(s.req, at, b)
        BY <1>2, <1>3, <1>6 DEF ReadsOf, Blocked
    <2>2. QED
        BY <1>1, <1>2, <2>1 DEF ReadsCounted, SameTable
<1>9. \A v \in Ways \ x : SeenAt(u, v)
    <2>1. SUFFICES ASSUME NEW v \in Ways \ x PROVE SeenAt(u, v)
        OBVIOUS
    <2>2. RowReqsKept(s, u, at) /\ NoFreer(s, u, v)
        BY <1>1, <1>2, TableSame DEF RowReqsKept
    <2>3. QED
        BY <1>2, <1>3, <2>2, SeenElsewhere
<1>10. QED
    BY <1>2, <1>4, <1>5, <1>7, <1>8, <1>9 DEF Sound

(* A free tag is taken for request r. *)
LEMMA TakeFreeSound ==
    ASSUME NEW s, NEW wt, NEW at, NEW x, Sound(s, wt, at, x), s.free # {},
           NEW t, t = Min(s.free), NEW r \in Requests,
           NEW u, u = SetReq([s EXCEPT !.free = @ \ {t}], t, r)
    PROVE  /\ t \in Tags /\ at[t] = "free" /\ Sound(u, wt, Goes(at, t, "new"), x)
           /\ u.held = s.held /\ u.req[t] = r
<1>1. s \in Shape /\ at \in [Tags -> Places] /\ Core(s, wt, at)
    BY SoundFacts
<1>2. s.free = At(at, "free") /\ s.free \in SUBSET Tags
    BY <1>1, CoreFacts DEF Shape
<1>3. t \in Tags /\ at[t] = "free"
    BY <1>2, MinFact DEF At
<1>4. PICK v : v = [s EXCEPT !.free = @ \ {t}]
    OBVIOUS
<1>5. Step(s, v, t, "free", "new")
    BY <1>1, <1>3, <1>4, TakeFreeMoves
<1>6. Sound(v, wt, Goes(at, t, "new"), x)
    BY <1>3, <1>5, RestSound
<1>7. v.held = s.held /\ v \in Shape
    BY <1>5, StepFacts DEF Step
<1>8. Goes(at, t, "new")[t] = "new" /\ u = SetReq(v, t, r)
    BY <1>1, <1>3, <1>4 DEF Goes
<1>9. /\ Sound(u, wt, Goes(at, t, "new"), x) /\ u.held = v.held
      /\ u.req = [v.req EXCEPT ![t] = r]
    BY <1>3, <1>6, <1>8, SetReqSound
<1>10. u.req[t] = r
    BY <1>3, <1>7, <1>9 DEF Shape
<1>11. QED
    BY <1>3, <1>7, <1>9, <1>10

(* The tag held last is taken for request r. *)
LEMMA TakeHeldSound ==
    ASSUME NEW s, NEW wt, NEW at, NEW x, Sound(s, wt, at, x), s.held # <<>>,
           NEW t, t = Last(s.held), NEW r \in Requests,
           NEW u, u = SetReq([s EXCEPT !.held = Front(@)], t, r)
    PROVE  /\ t \in Tags /\ at[t] = "held" /\ Sound(u, wt, Goes(at, t, "new"), x)
           /\ Len(u.held) = Len(s.held) - 1 /\ u.req[t] = r
<1>1. s \in Shape /\ at \in [Tags -> Places] /\ Core(s, wt, at)
    BY SoundFacts
<1>2. Lists(s.held, At(at, "held")) /\ s.held \in Seq(Tags)
    BY <1>1, CoreFacts DEF Shape
<1>3. t \in Tags /\ at[t] = "held"
    <2>1. t \in At(at, "held")
        BY <1>2, ListsFront
    <2>2. QED
        BY <2>1 DEF At
<1>4. PICK v : v = [s EXCEPT !.held = Front(@)]
    OBVIOUS
<1>5. Step(s, v, t, "held", "new") /\ Len(v.held) = Len(s.held) - 1
    BY <1>1, <1>2, <1>4, UnholdMoves DEF Lists
<1>6. Sound(v, wt, Goes(at, t, "new"), x)
    BY <1>3, <1>5, RestSound
<1>7. v \in Shape
    BY <1>5 DEF Step
<1>8. Goes(at, t, "new")[t] = "new" /\ u = SetReq(v, t, r)
    BY <1>1, <1>3, <1>4 DEF Goes
<1>9. /\ Sound(u, wt, Goes(at, t, "new"), x) /\ u.held = v.held
      /\ u.req = [v.req EXCEPT ![t] = r]
    BY <1>3, <1>6, <1>8, SetReqSound
<1>10. u.req[t] = r
    BY <1>3, <1>7, <1>9 DEF Shape
<1>11. QED
    BY <1>3, <1>5, <1>6, <1>9, <1>10

(* A tag is kept for a later request. *)
LEMMA HoldSound ==
    ASSUME NEW s, NEW wt, NEW at, NEW x, Sound(s, wt, at, x),
           NEW t \in Tags, at[t] = "new", NEW u, u = [s EXCEPT !.held = Append(@, t)]
    PROVE  Sound(u, wt, Goes(at, t, "held"), x) /\ Len(u.held) = Len(s.held) + 1
<1>1. s \in Shape
    BY SoundFacts
<1>2. Step(s, u, t, "new", "held") /\ Len(u.held) = Len(s.held) + 1
    BY <1>1, HoldMoves
<1>3. QED
    BY <1>2, RestSound

(* A tag that has its request joins the chain of its entry. *)
LEMMA JoinSound ==
    ASSUME NEW s, NEW wt, NEW at, NEW x, Sound(s, wt, at, x),
           NEW t \in Tags, at[t] = "new", Proper(s.req[t]),
           NEW u, u = UpdateDataBufEntryInfoBlockingReq(s, t)
    PROVE  Sound(u, wt, Goes(at, t, "loose"), x) /\ u.req = s.req /\ u.held = s.held
<1>1. /\ s \in Shape /\ at \in [Tags -> Places] /\ Core(s, wt, at)
      /\ Chained(s, at) /\ ReadsCounted(s, at)
    BY SoundFacts
<1>2. /\ u \in Shape /\ u.req = s.req /\ SameQueues(s, u) /\ SameTable(s, u)
      /\ Chained(u, Goes(at, t, "loose"))
    BY <1>1, JoinChain
<1>3. Moves(s, u, t, "new", "loose")
    <2>1. s.notCompleted \in Int /\ s.blocked \in Int
        BY <1>1 DEF Shape
    <2>2. \A n \in Int : n = (n + 0) - 0
        OBVIOUS
    <2>3. QED
        BY <1>2, <2>1, <2>2 DEF Moves, SetMoves, QueueMoves, SameQueues
<1>4. "loose" \in Places /\ ~Blocked("loose") /\ ~Blocked(at[t]) /\ at[t] # "wait"
    BY DEF Places, Blocked
<1>5. Core(u, wt, Goes(at, t, "loose"))
    BY <1>1, <1>2, <1>3, <1>4, CoreMoveOn
<1>6. ReadsCounted(u, Goes(at, t, "loose"))
    <2>1. s.req[t].code = "READ" => s.req[t].block \in Blocks
        BY PropertyOfReads
    <2>2. u.blockedReads = s.blockedReads
        BY <1>2 DEF SameTable
    <2>3. QED
        BY <1>1, <1>2, <1>4, <2>1, <2>2, ReadsUnmoved
<1>7. \A v \in Ways \ x : SeenAt(u, v)
    <2>1. SUFFICES ASSUME NEW v \in Ways \ x PROVE SeenAt(u, v)
        OBVIOUS
    <2>2. RowReqsKept(s, u, at) /\ NoFreer(s, u, v)
        BY <1>1, <1>2, TableSame DEF RowReqsKept
    <2>3. QED
        BY <1>2, <1>3, <2>2, SeenElsewhere
<1>8. QED
    BY <1>2, <1>5, <1>6, <1>7 DEF Sound, SameQueues

(* A request comes to wait for an erase, or has waited for it. *)
LEMMA WaitSound ==
    ASSUME NEW s, NEW wt, NEW at, NEW x, Sound(s, wt, at, x), NEW t \in Tags,
           NEW q \in {"loose", "wait"}, at[t] \in {"loose", "wait"}, at[t] # q,
           NEW v, {v} \ {NoTag} = At(Goes(at, t, q), "wait")
    PROVE  Sound(s, v, Goes(at, t, q), x)
<1>1. /\ s \in Shape /\ at \in [Tags -> Places] /\ Core(s, wt, at)
      /\ Chained(s, at) /\ ReadsCounted(s, at) /\ \A w \in Ways \ x : SeenAt(s, w)
      /\ Proper(s.req[t])
    BY SoundFacts DEF Live
<1>2. Moves(s, s, t, at[t], q)
    <2>1. s.notCompleted \in Int /\ s.blocked \in Int
        BY <1>1 DEF Shape
    <2>2. \A n \in Int : n = (n + 0) - 0
        OBVIOUS
    <2>3. QED
        BY <2>1, <2>2 DEF Moves, SetMoves, QueueMoves
<1>3. /\ q \in Places /\ ~Blocked(q) /\ ~Blocked(at[t]) /\ Live(q) /\ Live(at[t])
      /\ q \notin {"dma", "nand", "row"}
    BY DEF Places, Blocked, Live
<1>4. Core(s, v, Goes(at, t, q))
    BY <1>1, <1>2, <1>3, CoreMove
<1>5. Chained(s, Goes(at, t, q))
    <2>1. SameChains(s, s)
        BY DEF SameChains
    <2>2. QED
        BY <1>1, <1>3, <2>1, ChainedMove
<1>6. ReadsCounted(s, Goes(at, t, q))
    <2>1. s.req[t].code = "READ" => s.req[t].block \in Blocks
        BY <1>1, PropertyOfReads
    <2>2. QED
        BY <1>1, <1>3, <2>1, ReadsUnmoved
<1>7. QED
    BY <1>1, <1>4, <1>5, <1>6 DEF Sound

(* What a call may hand down. *)
Callable == {r \in Requests : r = Hold \/ r = Sync \/ Proper(r)}

(* How many tags a request adds to those that are held. *)
Weight(r) == IF r = Hold THEN 1 ELSE IF HasTag(r) THEN -1 ELSE 0

LEMMA WeightFact ==
    /\ ~HasTag(Hold) /\ ~HasTag(Sync) /\ Hold # Sync
    /\ ~Proper(Hold) /\ ~Proper(Sync)
    /\ Hold \in Callable /\ Sync \in Callable
    /\ Weight(Hold) = 1 /\ Weight(Sync) = 0
    /\ \A r : Weight(r) \in {-1, 0, 1}
<1>1. /\ Hold.code = "HOLD" /\ Sync.code = "SYNC" /\ Hold \in Requests /\ Sync \in Requests
    BY DEF Hold, Sync, Dma, Request, Requests, Codes
<1>2. Hold # Sync
    BY <1>1
<1>3. ~HasTag(Hold) /\ ~HasTag(Sync)
    BY <1>1 DEF HasTag, IsDma, DmaCodes
<1>4. ~Proper(Hold) /\ ~Proper(Sync)
    BY <1>1 DEF Proper, NandReq, IsDma, DmaCodes, FlashCodes
<1>5. QED
    BY <1>1, <1>2, <1>3, <1>4 DEF Weight, Callable

(* The scheduler is in order and request r adds d tags to those held. *)
InOrder(s, wt) == \E at : Sound(s, wt, at, {}) /\ Settled(at)

(* What follows when a tag has been taken for a request that is no Hold. *)
LEMMA SelectSound ==
    ASSUME NEW s, NEW at, Sound(s, NoTag, at, {}),
           NEW t \in Tags, at[t] = "new", \A y \in Tags \ {t} : at[y] \notin {"new", "loose"},
           Proper(s.req[t]),
           NEW c, c = UpdateDataBufEntryInfoBlockingReq(s, t),
           NEW u, u = SelectLowLevelReqQ(c, t)
    PROVE  /\ InOrder(c, t) /\ c.held = s.held
           /\ InOrder(u, NoTag) /\ u.held = s.held
<1>1. PICK a : a = Goes(at, t, "loose")
    OBVIOUS
<1>2. Sound(c, NoTag, a, {}) /\ c.req = s.req /\ c.held = s.held
    BY <1>1, JoinSound
<1>3. at \in [Tags -> Places] /\ a \in [Tags -> Places]
    BY <1>2, SoundFacts
<1>4. a[t] = "loose" /\ \A y \in Tags \ {t} : a[y] \notin {"new", "loose"}
    BY <1>1, <1>3 DEF Goes
<1>5. InOrder(c, t)
    <2>1. PICK b : b = Goes(a, t, "wait")
        OBVIOUS
    <2>2. b[t] = "wait" /\ \A y \in Tags \ {t} : b[y] = a[y]
        BY <1>3, <2>1 DEF Goes, Places
    <2>3. {t} \ {NoTag} = At(b, "wait")
        <3>1. {NoTag} \ {NoTag} = At(a, "wait")
            <4>1. Core(c, NoTag, a)
                BY <1>2, SoundFacts
            <4>2. QED
                BY <4>1, CoreFacts
        <3>2. QED
            BY <2>2, <3>1, TagFact DEF At
    <2>4. Sound(c, t, b, {})
        BY <1>2, <1>4, <2>1, <2>3, WaitSound
    <2>5. QED
        BY <1>4, <2>2, <2>4 DEF InOrder, Settled
<1>6. InOrder(u, NoTag) /\ u.held = c.held
    <2>1. /\ \E q \in {"nand", "row", "dma", "buf"} : Sound(u, NoTag, Goes(a, t, q), {})
          /\ u.held = c.held
        BY <1>2, <1>4, SelectLowLevelSound
    <2>2. PICK q \in {"nand", "row", "dma", "buf"} : Sound(u, NoTag, Goes(a, t, q), {})
        BY <2>1
    <2>3. PICK b : b = Goes(a, t, q)
        OBVIOUS
    <2>4. b[t] = q /\ \A y \in Tags \ {t} : b[y] = a[y]
        BY <1>3, <2>3 DEF Goes
    <2>5. Settled(b)
        BY <1>4, <2>4 DEF Settled
    <2>6. QED
        BY <2>1, <2>2, <2>3, <2>5 DEF InOrder
<1>7. QED
    BY <1>2, <1>5, <1>6

Stops(s, r) == r = Sync \/ (~HasTag(r) /\ s.free = {})

(* What becomes of request r when nothing waits: either all stays and r is *)
(* kept back, or r has its tag and may have to wait.                       *)
Handed(s, b, r) ==
    \/ b = [sched |-> s, waiting |-> NoTag, work |-> <<r>>]
    \/ \E u, v :
           /\ b = [sched |-> u, waiting |-> v, work |-> <<>>]
           /\ InOrder(u, v)
           /\ Len(u.held) = Len(s.held) + Weight(r)

LEMMA HandDownFact ==
    ASSUME NEW s, NEW r, NEW t, t = TagFor(s, r), NEW g, g = Take(s, r),
           NEW c, c = UpdateDataBufEntryInfoBlockingReq(g, t),
           NEW h, h = [g EXCEPT !.held = Append(@, t)],
           NEW a, a = [sched |-> s, waiting |-> NoTag, work |-> <<>>],
           NEW b, b = HandDown(a, r)
    PROVE  /\ Stops(s, r) => b = [sched |-> s, waiting |-> NoTag, work |-> <<r>>]
           /\ ~Stops(s, r) /\ r = Hold =>
                  b = [sched |-> h, waiting |-> NoTag, work |-> <<>>]
           /\ ~Stops(s, r) /\ r # Hold /\ MustWait(c, t) =>
                  b = [sched |-> c, waiting |-> t, work |-> <<>>]
           /\ ~Stops(s, r) /\ r # Hold /\ ~MustWait(c, t) =>
                  b = [sched |-> SelectLowLevelReqQ(c, t), waiting |-> NoTag, work |-> <<>>]
<1>1. a.sched = s /\ a.waiting = NoTag /\ a.work = <<>>
    OBVIOUS
<1>2. CASE Stops(s, r)
    <2>1. b = [a EXCEPT !.work = Append(@, r)]
        BY <1>1, <1>2 DEF HandDown, Stops
    <2>2. Append(a.work, r) = <<r>>
        BY <1>1
    <2>3. QED
        BY <1>2, <2>1, <2>2
<1>3. CASE ~Stops(s, r) /\ r = Hold
    <2>1. b = [a EXCEPT !.sched = h]
        BY <1>1, <1>3 DEF HandDown, Stops
    <2>2. QED
        BY <1>3, <2>1
<1>4. CASE ~Stops(s, r) /\ r # Hold /\ MustWait(c, t)
    <2>1. b = [a EXCEPT !.sched = c, !.waiting = t]
        BY <1>1, <1>4 DEF HandDown, Stops
    <2>2. QED
        BY <1>4, <2>1
<1>5. CASE ~Stops(s, r) /\ r # Hold /\ ~MustWait(c, t)
    <2>1. b = [a EXCEPT !.sched = SelectLowLevelReqQ(c, t)]
        BY <1>1, <1>5 DEF HandDown, Stops
    <2>2. QED
        BY <1>5, <2>1
<1>6. QED
    BY <1>2, <1>3, <1>4, <1>5

LEMMA HandOne ==
    ASSUME NEW s, InOrder(s, NoTag), NEW r \in Callable, HasTag(r) => s.held # <<>>,
           NEW b, b = HandDown([sched |-> s, waiting |-> NoTag, work |-> <<>>], r)
    PROVE  Handed(s, b, r)
<1>1. PICK at : Sound(s, NoTag, at, {}) /\ Settled(at)
    BY DEF InOrder
<1>2. /\ s \in Shape /\ at \in [Tags -> Places] /\ s.held \in Seq(Tags)
    BY <1>1, SoundFacts DEF Shape
<1>3. PICK t : t = TagFor(s, r)
    OBVIOUS
<1>4. PICK g : g = Take(s, r)
    OBVIOUS
<1>5. PICK c : c = UpdateDataBufEntryInfoBlockingReq(g, t)
    OBVIOUS
<1>6. PICK h : h = [g EXCEPT !.held = Append(@, t)]
    OBVIOUS
<1>7. PICK u : u = SelectLowLevelReqQ(c, t)
    OBVIOUS
<1>8. /\ Stops(s, r) => b = [sched |-> s, waiting |-> NoTag, work |-> <<r>>]
      /\ ~Stops(s, r) /\ r = Hold =>
             b = [sched |-> h, waiting |-> NoTag, work |-> <<>>]
      /\ ~Stops(s, r) /\ r # Hold /\ MustWait(c, t) =>
             b = [sched |-> c, waiting |-> t, work |-> <<>>]
      /\ ~Stops(s, r) /\ r # Hold /\ ~MustWait(c, t) =>
             b = [sched |-> u, waiting |-> NoTag, work |-> <<>>]
    BY <1>3, <1>4, <1>5, <1>6, <1>7, HandDownFact
<1>9. CASE Stops(s, r)
    BY <1>8, <1>9 DEF Handed
<1>10. CASE ~Stops(s, r)
    <2>1. r \in Requests /\ (HasTag(r) \/ s.free # {}) /\ (r = Hold \/ Proper(r))
        BY <1>10 DEF Stops, Callable
    <2>2. /\ t \in Tags /\ Sound(g, NoTag, Goes(at, t, "new"), {}) /\ g.req[t] = r
          /\ Len(g.held) = Len(s.held) - (IF HasTag(r) THEN 1 ELSE 0)
        <3>1. CASE HasTag(r)
            <4>1. t = Last(s.held) /\ g = SetReq([s EXCEPT !.held = Front(@)], t, r)
                BY <1>3, <1>4, <3>1 DEF TagFor, Take, SetReq
            <4>2. QED
                BY <1>1, <2>1, <3>1, <4>1, TakeHeldSound
        <3>2. CASE ~HasTag(r)
            <4>1. t = Min(s.free) /\ g = SetReq([s EXCEPT !.free = @ \ {t}], t, r)
                BY <1>3, <1>4, <3>2 DEF TagFor, Take, SetReq
            <4>2. g.held = s.held
                BY <1>1, <2>1, <3>2, <4>1, TakeFreeSound
            <4>3. t \in Tags /\ Sound(g, NoTag, Goes(at, t, "new"), {}) /\ g.req[t] = r
                BY <1>1, <2>1, <3>2, <4>1, TakeFreeSound
            <4>4. Len(s.held) \in Nat
                BY <1>2
            <4>5. QED
                BY <3>2, <4>2, <4>3, <4>4
        <3>3. QED
            BY <3>1, <3>2
    <2>3. PICK a : a = Goes(at, t, "new")
        OBVIOUS
    <2>4. /\ a \in [Tags -> Places] /\ a[t] = "new"
          /\ \A y \in Tags \ {t} : a[y] \notin {"new", "loose"}
        BY <1>1, <1>2, <2>2, <2>3 DEF Goes, Settled, Places
    <2>5. Len(s.held) \in Nat
        BY <1>2
    <2>6. CASE r = Hold
        <3>1. Sound(h, NoTag, Goes(a, t, "held"), {}) /\ Len(h.held) = Len(g.held) + 1
            <4>1. Sound(g, NoTag, a, {}) /\ t \in Tags /\ a[t] = "new"
                BY <2>2, <2>3, <2>4
            <4>2. Sound(h, NoTag, Goes(a, t, "held"), {})
                BY <1>6, <4>1, HoldSound
            <4>3. Len(h.held) = Len(g.held) + 1
                BY <1>6, <4>1, HoldSound
            <4>4. QED
                BY <4>2, <4>3
        <3>2. PICK d : d = Goes(a, t, "held")
            OBVIOUS
        <3>3. d[t] = "held" /\ \A y \in Tags \ {t} : d[y] = a[y]
            BY <2>2, <2>4, <3>2 DEF Goes
        <3>4. InOrder(h, NoTag)
            BY <2>4, <3>1, <3>2, <3>3 DEF InOrder, Settled
        <3>5. Len(h.held) = Len(s.held) + Weight(r)
            BY <2>2, <2>5, <2>6, <3>1, WeightFact
        <3>6. QED
            BY <1>8, <1>10, <2>6, <3>4, <3>5 DEF Handed
    <2>7. CASE r # Hold
        <3>1. Proper(g.req[t])
            BY <2>1, <2>2, <2>7
        <3>2. /\ InOrder(c, t) /\ c.held = g.held
              /\ InOrder(u, NoTag) /\ u.held = g.held
            BY <1>5, <1>7, <2>2, <2>3, <2>4, <3>1, SelectSound
        <3>3. Len(g.held) = Len(s.held) + Weight(r)
            <4>1. CASE HasTag(r)
                <5>1. Weight(r) = -1
                    BY <2>7, <4>1 DEF Weight
                <5>2. Len(g.held) = Len(s.held) - 1
                    BY <2>2, <4>1
                <5>3. QED
                    BY <2>5, <5>1, <5>2
            <4>2. CASE ~HasTag(r)
                <5>1. Weight(r) = 0
                    BY <2>7, <4>2 DEF Weight
                <5>2. Len(g.held) = Len(s.held) - 0
                    BY <2>2, <4>2
                <5>3. QED
                    BY <2>5, <5>1, <5>2
            <4>3. QED
                BY <4>1, <4>2
        <3>4. QED
            BY <1>8, <1>10, <2>7, <3>2, <3>3 DEF Handed
    <2>8. QED
        BY <2>6, <2>7
<1>11. QED
    BY <1>9, <1>10

(* Each request of reqs that needs a tag that is held finds one, when n    *)
(* are held, and none is left.                                             *)
BalancedBy(reqs, n, h) ==
    /\ h \in [0 .. Len(reqs) -> Nat]
    /\ h[0] = n /\ h[Len(reqs)] = 0
    /\ \A k \in 1 .. Len(reqs) : h[k] = h[k - 1] + Weight(reqs[k])
Balanced(reqs, n) == \E h : BalancedBy(reqs, n, h)

LEMMA HandPath ==
    ASSUME NEW q \in Seq(Callable), NEW a
    PROVE  \E f : /\ f[0] = a
                  /\ \A k \in 1 .. Len(q) : f[k] = HandDown(f[k - 1], q[k])
                  /\ f[Len(q)] = FoldLeft(HandDown, a, q)
<1>1. FoldLeft(HandDown, a, q) = Fold("hand", a, q)
    BY DEF Turn, Fold, FoldLeft, MapThenFoldSet, Max
<1>2. PICK f : /\ f[0] = a
               /\ \A k \in 1 .. Len(q) : f[k] = Turn("hand", f[k - 1], q[k])
               /\ f[Len(q)] = Fold("hand", a, q)
    BY FoldPath
<1>3. QED
    BY <1>1, <1>2 DEF Turn

LEMMA HandStuck ==
    ASSUME NEW a, a.work # <<>> \/ a.waiting # NoTag, NEW r
    PROVE  HandDown(a, r) = [a EXCEPT !.work = Append(@, r)]
BY DEF HandDown

(* Of the first k requests j are handed down, the others are kept back. *)
HandedUpTo(a, reqs, h, j, k) ==
    \E u, v, q :
        /\ a = [sched |-> u, waiting |-> v, work |-> q]
        /\ InOrder(u, v) /\ Len(u.held) = h[j]
        /\ q \in Seq(Callable) /\ Len(q) = k - j
        /\ \A i \in 1 .. k - j : q[i] = reqs[j + i]

LEMMA HandedFact ==
    ASSUME NEW u, NEW v, NEW q \in Seq(Callable), NEW reqs, NEW h, NEW j, NEW k,
           InOrder(u, v), Len(u.held) = h[j], Len(q) = k - j,
           \A i \in 1 .. k - j : q[i] = reqs[j + i],
           NEW a, a = [sched |-> u, waiting |-> v, work |-> q]
    PROVE  HandedUpTo(a, reqs, h, j, k)
BY DEF HandedUpTo

LEMMA HandOneMore ==
    ASSUME NEW reqs \in Seq(Callable), NEW n, NEW h, BalancedBy(reqs, n, h),
           NEW k \in Nat, k + 1 \in 1 .. Len(reqs), NEW j \in 0 .. k,
           NEW a, HandedUpTo(a, reqs, h, j, k), NEW b, b = HandDown(a, reqs[k + 1])
    PROVE  \E i \in 0 .. k + 1 : HandedUpTo(b, reqs, h, i, k + 1)
<1>1. PICK r \in Callable : r = reqs[k + 1]
    OBVIOUS
<1>2. PICK u, v, q :
        /\ a = [sched |-> u, waiting |-> v, work |-> q]
        /\ InOrder(u, v) /\ Len(u.held) = h[j]
        /\ q \in Seq(Callable) /\ Len(q) = k - j
        /\ \A i \in 1 .. k - j : q[i] = reqs[j + i]
    BY DEF HandedUpTo
<1>3. CASE q # <<>> \/ v # NoTag
    <2>1. PICK p : p = Append(q, r)
        OBVIOUS
    <2>2. b = [sched |-> u, waiting |-> v, work |-> p]
        <3>1. a.sched = u /\ a.waiting = v /\ a.work = q
            BY <1>2
        <3>2. b = [a EXCEPT !.work = Append(@, r)]
            BY <1>1, <1>3, <3>1, HandStuck
        <3>3. QED
            BY <1>2, <2>1, <3>1, <3>2
    <2>3. p \in Seq(Callable) /\ Len(p) = (k + 1) - j
        BY <1>2, <2>1
    <2>4. \A i \in 1 .. (k + 1) - j : p[i] = reqs[j + i]
        <3>1. \A i \in 1 .. k - j : p[i] = q[i]
            BY <1>2, <2>1
        <3>2. p[(k + 1) - j] = r
            BY <1>2, <2>1
        <3>3. \A i \in 1 .. (k + 1) - j : i \in 1 .. k - j \/ i = (k + 1) - j
            OBVIOUS
        <3>4. j + ((k + 1) - j) = k + 1
            OBVIOUS
        <3>5. QED
            BY <1>1, <1>2, <3>1, <3>2, <3>3, <3>4
    <2>5. HandedUpTo(b, reqs, h, j, k + 1)
        BY <1>2, <2>2, <2>3, <2>4 DEF HandedUpTo
    <2>6. j \in 0 .. k + 1
        OBVIOUS
    <2>7. QED
        BY <2>5, <2>6
<1>4. CASE q = <<>> /\ v = NoTag
    <2>1. j = k
        BY <1>2, <1>4
    <2>2. Len(u.held) = h[k] /\ h[k] \in Nat /\ h[k + 1] \in Nat /\ h[k + 1] = h[k] + Weight(r)
        <3>1. k \in 0 .. Len(reqs) /\ k + 1 \in 0 .. Len(reqs) /\ (k + 1) - 1 = k
            OBVIOUS
        <3>2. QED
            BY <1>1, <1>2, <2>1, <3>1 DEF BalancedBy
    <2>3. HasTag(r) => u.held # <<>>
        <3>1. SUFFICES ASSUME HasTag(r), u.held = <<>> PROVE FALSE
            OBVIOUS
        <3>2. Weight(r) = -1
            BY <3>1, WeightFact DEF Weight
        <3>3. Len(u.held) = 0
            BY <3>1
        <3>4. QED
            BY <2>2, <3>2, <3>3
    <2>4. InOrder(u, NoTag)
        BY <1>2, <1>4
    <2>5. b = HandDown([sched |-> u, waiting |-> NoTag, work |-> <<>>], r)
        BY <1>1, <1>2, <1>4
    <2>6. Handed(u, b, r)
        BY <2>3, <2>4, <2>5, HandOne
    <2>7. k + 1 \in 0 .. k + 1 /\ k \in 0 .. k + 1
        OBVIOUS
    <2>8. CASE b = [sched |-> u, waiting |-> NoTag, work |-> <<r>>]
        <3>1. PICK p : p = <<r>>
            OBVIOUS
        <3>2. p \in Seq(Callable) /\ Len(p) = 1 /\ p[1] = r
            BY <3>1
        <3>3. (k + 1) - k = 1 /\ \A i \in 1 .. (k + 1) - k : i = 1
            OBVIOUS
        <3>4. \A i \in 1 .. (k + 1) - k : p[i] = reqs[k + i]
            BY <1>1, <3>2, <3>3
        <3>5. b = [sched |-> u, waiting |-> NoTag, work |-> p] /\ Len(p) = (k + 1) - k
            BY <2>8, <3>1, <3>2, <3>3
        <3>6. Len(u.held) = h[k]
            BY <2>2
        <3>7. HandedUpTo(b, reqs, h, k, k + 1)
            <4>1. PICK l : l = k + 1
                OBVIOUS
            <4>2. /\ Len(p) = l - k /\ \A i \in 1 .. l - k : p[i] = reqs[k + i]
                  /\ p \in Seq(Callable)
                BY <3>2, <3>4, <3>5, <4>1
            <4>3. HandedUpTo(b, reqs, h, k, l)
                BY <2>4, <3>5, <3>6, <4>2, HandedFact
            <4>4. QED
                BY <4>1, <4>3
        <3>8. QED
            BY <2>7, <3>7
    <2>9. ASSUME NEW w, NEW y, b = [sched |-> w, waiting |-> y, work |-> <<>>],
                 InOrder(w, y), Len(w.held) = Len(u.held) + Weight(r)
          PROVE  HandedUpTo(b, reqs, h, k + 1, k + 1)
        <3>1. /\ <<>> \in Seq(Callable) /\ Len(<<>>) = (k + 1) - (k + 1)
              /\ 1 .. (k + 1) - (k + 1) = {}
            OBVIOUS
        <3>2. Len(w.held) = h[k + 1]
            BY <2>2, <2>9
        <3>3. QED
            BY <2>9, <3>1, <3>2 DEF HandedUpTo
    <2>10. QED
        BY <2>6, <2>8, <2>9, <2>7 DEF Handed
<1>5. QED
    BY <1>3, <1>4

(* What a call leaves: the scheduler in order, and a rest that finds the   *)
(* tags it needs.                                                          *)
LEMMA RunSound ==
    ASSUME NEW s, InOrder(s, NoTag), NEW reqs \in Seq(Callable), Balanced(reqs, Len(s.held)),
           NEW a, a = FoldLeft(HandDown, [sched |-> s, waiting |-> NoTag, work |-> <<>>], reqs)
    PROVE  /\ InOrder(a.sched, a.waiting)
           /\ a.work \in Seq(Callable) /\ Balanced(a.work, Len(a.sched.held))
<1>1. PICK h : BalancedBy(reqs, Len(s.held), h)
    BY DEF Balanced
<1>2. PICK n \in Nat : n = Len(reqs)
    OBVIOUS
<1>3. PICK f : /\ f[0] = [sched |-> s, waiting |-> NoTag, work |-> <<>>]
               /\ \A k \in 1 .. n : f[k] = HandDown(f[k - 1], reqs[k])
               /\ f[n] = a
    BY <1>2, HandPath
<1> DEFINE K == {k \in 0 .. n : \E j \in 0 .. k : HandedUpTo(f[k], reqs, h, j, k)}
<1>4. 0 \in K
    <2>1. /\ <<>> \in Seq(Callable) /\ Len(<<>>) = 0 - 0 /\ 1 .. 0 - 0 = {}
          /\ 0 \in 0 .. n /\ 0 \in 0 .. 0
        OBVIOUS
    <2>2. Len(s.held) = h[0]
        BY <1>1 DEF BalancedBy
    <2>3. HandedUpTo(f[0], reqs, h, 0, 0)
        BY <1>3, <2>1, <2>2 DEF HandedUpTo
    <2>4. QED
        BY <2>1, <2>3
<1>5. ASSUME NEW k \in 0 .. n, k # n, NEW j \in 0 .. k, HandedUpTo(f[k], reqs, h, j, k)
      PROVE  k + 1 \in 0 .. n /\ \E i \in 0 .. k + 1 : HandedUpTo(f[k + 1], reqs, h, i, k + 1)
    <2>1. k \in Nat /\ k + 1 \in 1 .. n /\ k + 1 \in 0 .. n /\ (k + 1) - 1 = k
        BY <1>5
    <2>2. f[k + 1] = HandDown(f[k], reqs[k + 1])
        BY <1>3, <2>1
    <2>3. \E i \in 0 .. k + 1 : HandedUpTo(f[k + 1], reqs, h, i, k + 1)
        BY <1>1, <1>2, <1>5, <2>1, <2>2, HandOneMore
    <2>4. QED
        BY <2>1, <2>3
<1>6. n \in K
    <2>1. \A k \in 0 .. n : k # n /\ k \in K => k + 1 \in K
        BY <1>5
    <2> HIDE DEF K
    <2>2. \A k \in 0 .. n : k \in K
        BY <1>4, <2>1, UpTo
    <2>3. QED
        BY <2>2
<1>7. PICK j \in 0 .. n : HandedUpTo(a, reqs, h, j, n)
    BY <1>3, <1>6
<1>8. PICK u, v, q :
        /\ a = [sched |-> u, waiting |-> v, work |-> q]
        /\ InOrder(u, v) /\ Len(u.held) = h[j]
        /\ q \in Seq(Callable) /\ Len(q) = n - j
        /\ \A i \in 1 .. n - j : q[i] = reqs[j + i]
    BY <1>7 DEF HandedUpTo
<1>9. PICK m : m = n - j
    OBVIOUS
<1> HIDE DEF K
<1>10. m \in Nat
    BY <1>9
<1>11. PICK g : g = [i \in 0 .. m |-> h[j + i]]
    OBVIOUS
<1>12. BalancedBy(q, h[j], g)
    <2>1. h \in [0 .. n -> Nat] /\ h[n] = 0 /\ \A k \in 1 .. n : h[k] = h[k - 1] + Weight(reqs[k])
        BY <1>1, <1>2 DEF BalancedBy
    <2>2. \A i \in 0 .. m : j + i \in 0 .. n
        BY <1>9, <1>10
    <2>3. g \in [0 .. m -> Nat]
        BY <1>11, <2>1, <2>2
    <2>4. g[0] = h[j] /\ g[m] = 0
        <3>1. 0 \in 0 .. m /\ m \in 0 .. m /\ j + 0 = j /\ j + m = n
            BY <1>9, <1>10
        <3>2. QED
            BY <1>11, <2>1, <3>1
    <2>5. ASSUME NEW i \in 1 .. m PROVE g[i] = g[i - 1] + Weight(q[i])
        <3>1. /\ i \in 0 .. m /\ i - 1 \in 0 .. m /\ j + i \in 1 .. n
              /\ j + (i - 1) = (j + i) - 1
            BY <1>9, <1>10
        <3>2. g[i] = h[j + i] /\ g[i - 1] = h[(j + i) - 1] /\ q[i] = reqs[j + i]
            BY <1>8, <1>9, <1>11, <1>10, <3>1
        <3>3. QED
            BY <2>1, <3>1, <3>2
    <2>6. Len(q) = m
        BY <1>8, <1>9
    <2>7. QED
        BY <2>3, <2>4, <2>5, <2>6 DEF BalancedBy
<1>13. a.sched = u /\ a.waiting = v /\ a.work = q
    BY <1>8
<1>14. QED
    BY <1>8, <1>12, <1>13 DEF Balanced

(* The requests q take the tags that are held from n to m. *)
Takes(q, n, m) ==
    /\ q \in Seq(Callable)
    /\ \E h : /\ h \in [0 .. Len(q) -> Nat]
              /\ h[0] = n /\ h[Len(q)] = m
              /\ \A k \in 1 .. Len(q) : h[k] = h[k - 1] + Weight(q[k])

LEMMA TakesBalanced ==
    ASSUME NEW q, NEW n
    PROVE  /\ Takes(q, n, 0) => q \in Seq(Callable) /\ Balanced(q, n)
           /\ q \in Seq(Callable) /\ Balanced(q, n) => Takes(q, n, 0)
BY DEF Takes, Balanced, BalancedBy

LEMMA TakesNone ==
    ASSUME NEW n \in Nat
    PROVE  Takes(<<>>, n, n)
<1>1. PICK q : q = <<>>
    OBVIOUS
<1>2. q \in Seq(Callable) /\ Len(q) = 0
    BY <1>1
<1>3. PICK h : h = [k \in 0 .. 0 |-> n]
    OBVIOUS
<1>4. 0 \in 0 .. 0 /\ 1 .. 0 = {}
    OBVIOUS
<1>5. h \in [0 .. 0 -> Nat] /\ h[0] = n
    BY <1>3, <1>4
<1>6. Takes(q, n, n)
    BY <1>2, <1>4, <1>5 DEF Takes
<1>7. QED
    BY <1>1, <1>6

LEMMA TakesOne ==
    ASSUME NEW r \in Callable, NEW n \in Nat, NEW m \in Nat, m = n + Weight(r)
    PROVE  Takes(<<r>>, n, m)
<1>1. PICK q : q = <<r>>
    OBVIOUS
<1>2. q \in Seq(Callable) /\ Len(q) = 1 /\ q[1] = r
    BY <1>1
<1>3. PICK h : h = [k \in 0 .. 1 |-> IF k = 0 THEN n ELSE m]
    OBVIOUS
<1>4. 0 \in 0 .. 1 /\ 1 \in 0 .. 1 /\ 1 # 0 /\ 1 - 1 = 0 /\ \A k \in 1 .. 1 : k = 1
    OBVIOUS
<1>5. h \in [0 .. 1 -> Nat] /\ h[0] = n /\ h[1] = m
    BY <1>3, <1>4
<1>6. \A k \in 1 .. 1 : h[k] = h[k - 1] + Weight(q[k])
    BY <1>2, <1>4, <1>5
<1>7. Takes(q, n, m)
    BY <1>2, <1>5, <1>6 DEF Takes
<1>8. QED
    BY <1>1, <1>7

LEMMA TakesConcat ==
    ASSUME NEW p, NEW q, NEW n, NEW m, NEW l, Takes(p, n, m), Takes(q, m, l)
    PROVE  Takes(p \o q, n, l)
<1>1. PICK P \in Nat, Q \in Nat : P = Len(p) /\ Q = Len(q)
    BY DEF Takes
<1>2. PICK g : /\ g \in [0 .. P -> Nat] /\ g[0] = n /\ g[P] = m
               /\ \A k \in 1 .. P : g[k] = g[k - 1] + Weight(p[k])
    BY <1>1 DEF Takes
<1>3. PICK h : /\ h \in [0 .. Q -> Nat] /\ h[0] = m /\ h[Q] = l
               /\ \A k \in 1 .. Q : h[k] = h[k - 1] + Weight(q[k])
    BY <1>1 DEF Takes
<1>4. PICK s : s = p \o q
    OBVIOUS
<1>5. p \in Seq(Callable) /\ q \in Seq(Callable)
    BY DEF Takes
<1>6. /\ s \in Seq(Callable) /\ Len(s) = P + Q
      /\ \A k \in 1 .. P + Q : s[k] = IF k <= P THEN p[k] ELSE q[k - P]
    BY <1>1, <1>4, <1>5, ConcatProperties
<1>7. PICK f : f = [k \in 0 .. P + Q |-> IF k <= P THEN g[k] ELSE h[k - P]]
    OBVIOUS
<1>8. \A k \in 0 .. P + Q : k <= P => k \in 0 .. P
    BY <1>1
<1>9. \A k \in 0 .. P + Q : ~(k <= P) => k - P \in 1 .. Q /\ k - P \in 0 .. Q
    BY <1>1
<1>10. \A k \in 0 .. P + Q : f[k] \in Nat
    BY <1>2, <1>3, <1>7, <1>8, <1>9
<1>11. f \in [0 .. P + Q -> Nat]
    BY <1>7, <1>10
<1>12. f[0] = n
    <2>1. 0 \in 0 .. P + Q /\ 0 <= P
        BY <1>1
    <2>2. QED
        BY <1>2, <1>7, <2>1
<1>13. f[P + Q] = l
    <2>1. P + Q \in 0 .. P + Q /\ (P + Q <= P => P + Q = P /\ Q = 0) /\ (P + Q) - P = Q
        BY <1>1
    <2>2. CASE P + Q <= P
        BY <1>2, <1>3, <1>7, <2>1, <2>2
    <2>3. CASE ~(P + Q <= P)
        BY <1>3, <1>7, <2>1, <2>3
    <2>4. QED
        BY <2>2, <2>3
<1>14. ASSUME NEW k \in 1 .. P + Q PROVE f[k] = f[k - 1] + Weight(s[k])
    <2>1. k \in 0 .. P + Q /\ k - 1 \in 0 .. P + Q
        BY <1>1
    <2>2. CASE k <= P
        <3>1. k - 1 <= P /\ k \in 1 .. P
            BY <1>1, <2>2
        <3>2. f[k] = g[k] /\ f[k - 1] = g[k - 1] /\ s[k] = p[k]
            BY <1>6, <1>7, <2>1, <2>2, <3>1
        <3>3. QED
            BY <1>2, <3>1, <3>2
    <2>3. CASE k = P + 1
        <3>1. ~(k <= P) /\ k - 1 = P /\ k - 1 <= P /\ k - P = 1 /\ 1 \in 1 .. Q /\ 1 - 1 = 0
            BY <1>1, <2>3
        <3>2. f[k] = h[1] /\ f[k - 1] = g[P] /\ s[k] = q[1]
            BY <1>6, <1>7, <2>1, <3>1
        <3>3. h[1] = h[0] + Weight(q[1])
            BY <1>3, <3>1
        <3>4. QED
            BY <1>2, <1>3, <3>2, <3>3
    <2>4. CASE k > P + 1
        <3>1. /\ ~(k <= P) /\ ~(k - 1 <= P) /\ k - P \in 1 .. Q
              /\ (k - 1) - P = (k - P) - 1
            BY <1>1, <2>4
        <3>2. f[k] = h[k - P] /\ f[k - 1] = h[(k - P) - 1] /\ s[k] = q[k - P]
            BY <1>6, <1>7, <2>1, <3>1
        <3>3. QED
            BY <1>3, <3>1, <3>2
    <2>5. QED
        BY <1>1, <2>2, <2>3, <2>4
<1>15. Takes(s, n, l)
    BY <1>6, <1>11, <1>12, <1>13, <1>14 DEF Takes
<1>16. QED
    BY <1>4, <1>15
-----------------------------------------------------------------------------
(* What the upper layers hand down *)

(* Below, f is what the upper layers keep. *)
FtlWay(f, w) ==
    /\ WayOf[f.current[w]] = w
    /\ Once(f.freeBlocks[w])
    /\ f.current[w] \notin Range(f.freeBlocks[w])
    /\ \A b \in Range(f.freeBlocks[w]) : f.currentPage[b] = 0 /\ WayOf[b] = w

FtlBase(f) ==
    /\ f \in [current : [Ways -> Blocks], currentPage : [Blocks -> 0 .. NumPages],
              freeBlocks : [Ways -> Seq(Blocks)], cycle : [Blocks -> Int],
              dirty : [Bufs -> BOOLEAN]]
    /\ \A w \in Ways : FtlWay(f, w)

(* Every way keeps a block in reserve. *)
FtlOK(f) == FtlBase(f) /\ \A w \in Ways : Len(f.freeBlocks[w]) >= 1

LEMMA FtlTypes ==
    ASSUME NEW f, FtlBase(f)
    PROVE  /\ f.current \in [Ways -> Blocks] /\ f.currentPage \in [Blocks -> 0 .. NumPages]
           /\ f.freeBlocks \in [Ways -> Seq(Blocks)] /\ f.cycle \in [Blocks -> Int]
           /\ f.dirty \in [Bufs -> BOOLEAN]
BY DEF FtlBase

LEMMA TakenOK ==
    ASSUME NEW f, FtlBase(f), NEW w \in Ways, Len(f.freeBlocks[w]) >= 1,
           NEW g, g = Taken(f, w)
    PROVE  /\ FtlBase(g) /\ g.currentPage = f.currentPage
           /\ g.currentPage[g.current[w]] = 0
           /\ Len(g.freeBlocks[w]) = Len(f.freeBlocks[w]) - 1
           /\ \A v \in Ways \ {w} : g.freeBlocks[v] = f.freeBlocks[v]
           /\ g.dirty = f.dirty /\ g.cycle = f.cycle
<1>1. PICK q : q = f.freeBlocks[w]
    OBVIOUS
<1>2. q \in Seq(Blocks) /\ Once(q) /\ q # <<>> /\ Len(q) \in Nat
    <2>1. q \in Seq(Blocks)
        BY <1>1, FtlTypes
    <2>2. Once(q)
        BY <1>1 DEF FtlBase, FtlWay
    <2>3. q # <<>>
        BY <1>1, <2>1
    <2>4. QED
        BY <2>1, <2>2, <2>3
<1>3. PICK b, p : b = Head(q) /\ p = Tail(q)
    OBVIOUS
<1>4. /\ b \in Range(q) /\ b \in Blocks /\ p \in Seq(Blocks) /\ Len(p) = Len(q) - 1 /\ Once(p)
      /\ Range(p) = Range(q) \ {b}
    BY <1>2, <1>3, OnceTail
<1>5. /\ f.current \in [Ways -> Blocks] /\ f.freeBlocks \in [Ways -> Seq(Blocks)]
    BY FtlTypes
<1>6. PICK c, r : /\ c = [f.current EXCEPT ![w] = b]
                  /\ r = [f.freeBlocks EXCEPT ![w] = p]
    OBVIOUS
<1>7. c \in [Ways -> Blocks] /\ r \in [Ways -> Seq(Blocks)]
    BY <1>4, <1>5, <1>6
<1>8. g = [f EXCEPT !.current = c, !.freeBlocks = r]
    <2>1. g = [f EXCEPT !.current = c, !.freeBlocks[w] = Tail(@)]
        BY <1>1, <1>3, <1>6 DEF Taken
    <2>2. QED
        BY <1>1, <1>3, <1>6, <2>1 DEF FtlBase
<1>9. /\ g \in [current : [Ways -> Blocks], currentPage : [Blocks -> 0 .. NumPages],
                freeBlocks : [Ways -> Seq(Blocks)], cycle : [Blocks -> Int],
                dirty : [Bufs -> BOOLEAN]]
      /\ g.current = c /\ g.freeBlocks = r /\ g.currentPage = f.currentPage
      /\ g.dirty = f.dirty /\ g.cycle = f.cycle
    BY <1>7, <1>8 DEF FtlBase
<1>10. c[w] = b /\ r[w] = p /\ \A v \in Ways \ {w} : c[v] = f.current[v] /\ r[v] = f.freeBlocks[v]
    BY <1>5, <1>6
<1>11. FtlWay(f, w)
    BY DEF FtlBase
<1>12. FtlWay(g, w)
    BY <1>1, <1>4, <1>9, <1>10, <1>11 DEF FtlWay
<1>13. \A v \in Ways \ {w} : FtlWay(g, v)
    BY <1>9, <1>10 DEF FtlBase, FtlWay
<1>14. FtlBase(g)
    BY <1>9, <1>12, <1>13 DEF FtlBase
<1>15. g.currentPage[g.current[w]] = 0
    BY <1>1, <1>4, <1>9, <1>10, <1>11 DEF FtlWay
<1>16. QED
    BY <1>1, <1>4, <1>9, <1>10, <1>14, <1>15

LEMMA UsedOK ==
    ASSUME NEW f, FtlBase(f), NEW w \in Ways, f.currentPage[f.current[w]] < NumPages,
           NEW g, g = Used(f, w)
    PROVE  /\ FtlBase(g) /\ g.freeBlocks = f.freeBlocks /\ g.current = f.current
           /\ g.currentPage[g.current[w]] = f.currentPage[f.current[w]] + 1
           /\ \A b \in Blocks \ {f.current[w]} : g.currentPage[b] = f.currentPage[b]
           /\ g.dirty = f.dirty
<1>1. NumPages \in Nat
    BY ReqSizesAssumption DEF ReqSizesAssumption
<1>2. /\ f.current \in [Ways -> Blocks] /\ f.currentPage \in [Blocks -> 0 .. NumPages]
    BY FtlTypes
<1>3. PICK b \in Blocks : b = f.current[w]
    BY <1>2
<1>4. PICK n \in 0 .. NumPages : n = f.currentPage[b] + 1
    BY <1>1, <1>2, <1>3
<1>5. PICK p : p = [f.currentPage EXCEPT ![b] = n]
    OBVIOUS
<1>6. p \in [Blocks -> 0 .. NumPages] /\ p[b] = n /\ \A c \in Blocks \ {b} : p[c] = f.currentPage[c]
    BY <1>2, <1>5
<1>7. g = [f EXCEPT !.currentPage = p]
    BY <1>3, <1>4, <1>5 DEF Used
<1>8. /\ g \in [current : [Ways -> Blocks], currentPage : [Blocks -> 0 .. NumPages],
                freeBlocks : [Ways -> Seq(Blocks)], cycle : [Blocks -> Int],
                dirty : [Bufs -> BOOLEAN]]
      /\ g.current = f.current /\ g.freeBlocks = f.freeBlocks /\ g.currentPage = p
      /\ g.dirty = f.dirty
    BY <1>6, <1>7 DEF FtlBase
<1>9. ASSUME NEW v \in Ways PROVE FtlWay(g, v)
    <2>1. FtlWay(f, v) /\ FtlWay(f, w)
        BY DEF FtlBase
    <2>2. \A c \in Range(f.freeBlocks[v]) : c \in Blocks /\ c # b
        <3>1. f.freeBlocks[v] \in Seq(Blocks)
            BY FtlTypes
        <3>2. ASSUME NEW c \in Range(f.freeBlocks[v]) PROVE c \in Blocks
            BY <3>1 DEF Range
        <3>3. \A c \in Range(f.freeBlocks[v]) : c = b => v = w
            BY <1>3, <2>1 DEF FtlWay
        <3>4. QED
            BY <1>3, <2>1, <3>2, <3>3 DEF FtlWay
    <2>3. QED
        BY <1>6, <1>8, <2>1, <2>2 DEF FtlWay
<1>10. QED
    BY <1>3, <1>4, <1>6, <1>8, <1>9 DEF FtlBase

LEMMA ErasedOK ==
    ASSUME NEW f, FtlBase(f), NEW b \in Blocks, f.currentPage[b] = NumPages,
           NEW w \in Ways, w = WayOf[b], f.current[w] # b, NEW g, g = Erased(f, b)
    PROVE  /\ FtlBase(g) /\ g.current = f.current
           /\ Len(g.freeBlocks[w]) = Len(f.freeBlocks[w]) + 1
           /\ \A v \in Ways \ {w} : g.freeBlocks[v] = f.freeBlocks[v]
           /\ \A c \in Blocks \ {b} : g.currentPage[c] = f.currentPage[c]
           /\ g.dirty = f.dirty
<1>1. NumPages \in Nat \ {0}
    BY ReqSizesAssumption DEF ReqSizesAssumption
<1>2. /\ f.current \in [Ways -> Blocks] /\ f.currentPage \in [Blocks -> 0 .. NumPages]
      /\ f.freeBlocks \in [Ways -> Seq(Blocks)] /\ f.cycle \in [Blocks -> Int]
    BY FtlTypes
<1>3. w = WayOf[b]
    OBVIOUS
<1>4. PICK q : q = f.freeBlocks[w]
    OBVIOUS
<1>5. FtlWay(f, w)
    BY DEF FtlBase
<1>6. q \in Seq(Blocks) /\ Once(q) /\ b \notin Range(q)
    BY <1>1, <1>2, <1>4, <1>5 DEF FtlWay
<1>7. PICK r : r = Append(q, b)
    OBVIOUS
<1>8. r \in Seq(Blocks) /\ Once(r) /\ Range(r) = Range(q) \cup {b} /\ Len(r) = Len(q) + 1
    BY <1>6, <1>7, OnceAppend
<1>9. PICK p, e, l : /\ p = [f.currentPage EXCEPT ![b] = 0]
                     /\ e = [f.cycle EXCEPT ![b] = 1 - @]
                     /\ l = [f.freeBlocks EXCEPT ![w] = r]
    OBVIOUS
<1>10. p \in [Blocks -> 0 .. NumPages] /\ e \in [Blocks -> Int] /\ l \in [Ways -> Seq(Blocks)]
    <2>1. 1 - f.cycle[b] \in Int /\ 0 \in 0 .. NumPages
        BY <1>1, <1>2
    <2>2. QED
        BY <1>2, <1>8, <1>9, <2>1
<1>11. g = [f EXCEPT !.currentPage = p, !.cycle = e, !.freeBlocks = l]
    <2>1. g = [f EXCEPT !.currentPage = p, !.cycle = e, !.freeBlocks[w] = Append(@, b)]
        BY <1>3, <1>9 DEF Erased, FtlBase
    <2>2. QED
        BY <1>4, <1>7, <1>9, <2>1 DEF FtlBase
<1>12. /\ g \in [current : [Ways -> Blocks], currentPage : [Blocks -> 0 .. NumPages],
                freeBlocks : [Ways -> Seq(Blocks)], cycle : [Blocks -> Int],
                dirty : [Bufs -> BOOLEAN]]
      /\ g.current = f.current /\ g.freeBlocks = l /\ g.currentPage = p
      /\ g.dirty = f.dirty
    BY <1>10, <1>11 DEF FtlBase
<1>13. /\ p[b] = 0 /\ \A c \in Blocks \ {b} : p[c] = f.currentPage[c]
       /\ l[w] = r /\ \A v \in Ways \ {w} : l[v] = f.freeBlocks[v]
    BY <1>2, <1>9
<1>14. FtlWay(g, w)
    <2>1. \A c \in Range(q) : c \in Blocks /\ c # b
        BY <1>6 DEF Range
    <2>2. WayOf[g.current[w]] = w /\ g.freeBlocks[w] = r /\ g.current[w] = f.current[w]
        BY <1>5, <1>12, <1>13 DEF FtlWay
    <2>3. g.current[w] \notin Range(r)
        BY <1>4, <1>5, <1>8, <2>2 DEF FtlWay
    <2>4. \A c \in Range(q) : g.currentPage[c] = 0 /\ WayOf[c] = w
        BY <1>4, <1>5, <1>12, <1>13, <2>1 DEF FtlWay
    <2>5. g.currentPage[b] = 0 /\ WayOf[b] = w
        BY <1>3, <1>12, <1>13
    <2>6. QED
        BY <1>8, <2>2, <2>3, <2>4, <2>5 DEF FtlWay
<1>15. ASSUME NEW v \in Ways \ {w} PROVE FtlWay(g, v)
    <2>1. FtlWay(f, v)
        BY DEF FtlBase
    <2>2. f.freeBlocks[v] \in Seq(Blocks)
        BY <1>2
    <2>3. \A c \in Range(f.freeBlocks[v]) : c \in Blocks
        BY <2>2 DEF Range
    <2>4. \A c \in Range(f.freeBlocks[v]) : c # b
        BY <1>3, <2>1 DEF FtlWay
    <2>5. QED
        BY <1>12, <1>13, <2>1, <2>3, <2>4 DEF FtlWay
<1>16. FtlBase(g)
    BY <1>12, <1>14, <1>15 DEF FtlBase
<1>17. QED
    BY <1>3, <1>4, <1>8, <1>12, <1>13, <1>16

LEMMA TakesAppend ==
    ASSUME NEW q, NEW n, NEW m \in Nat, Takes(q, n, m), NEW r \in Callable,
           NEW l \in Nat, l = m + Weight(r)
    PROVE  Takes(Append(q, r), n, l)
<1>1. q \in Seq(Callable)
    BY DEF Takes
<1>2. Append(q, r) = q \o <<r>>
    BY <1>1, AppendIsConcat
<1>3. Takes(<<r>>, m, l)
    BY TakesOne
<1>4. QED
    BY <1>2, <1>3, TakesConcat

LEMMA TakesNothing ==
    ASSUME NEW q \in Seq(Callable), \A k \in 1 .. Len(q) : Weight(q[k]) = 0, NEW n \in Nat
    PROVE  Takes(q, n, n)
<1>1. PICK h : h = [k \in 0 .. Len(q) |-> n]
    OBVIOUS
<1>2. /\ 0 \in 0 .. Len(q) /\ Len(q) \in 0 .. Len(q) /\ n = n + 0
      /\ \A k \in 1 .. Len(q) : k \in 0 .. Len(q) /\ k - 1 \in 0 .. Len(q)
    OBVIOUS
<1>3. QED
    BY <1>1, <1>2 DEF Takes

LEMMA BufNoWay == Bufs \subseteq Entries /\ Ways \subseteq Entries /\ \A w \in Ways : w \notin Bufs
BY ReqWaysAssumption DEF Entries, ReqWaysAssumption

LEMMA NandCallable ==
    ASSUME FtlBase(ftl), NEW c \in FlashCodes, NEW e \in Entries \cup {NoEntry},
           NEW b \in Blocks, NEW p \in Nat, c = "WRITE" => p \in Pages,
           NEW r, r = Nand(c, e, b, p)
    PROVE  /\ r \in Callable /\ r \in Requests /\ Proper(r)
           /\ Weight(r) = IF c = "WRITE" /\ e \in Bufs THEN -1 ELSE 0
<1>1. ftl.cycle[b] \in Int
    BY FtlTypes
<1>2. r = [code |-> c, entry |-> e, block |-> b, page |-> p, cycle |-> ftl.cycle[b]]
    BY DEF Nand, Request
<1>3. r.code = c /\ r.entry = e /\ r.block = b /\ r.page = p
    BY <1>2
<1>4. r \in Requests
    BY <1>1, <1>2 DEF Requests, Codes
<1>5. Proper(r)
    BY <1>3 DEF Proper, NandReq
<1>6. HasTag(r) <=> c = "WRITE" /\ e \in Bufs
    BY <1>3 DEF HasTag, IsDma, DmaCodes, FlashCodes
<1>7. r # Hold
    BY <1>5, WeightFact
<1>8. QED
    BY <1>4, <1>5, <1>6, <1>7 DEF Callable, Weight

LEMMA WriteSliceCallable ==
    ASSUME FtlBase(ftl), NEW f, FtlBase(f), NEW w \in Ways, NEW e \in Entries \cup {NoEntry},
           f.currentPage[f.current[w]] < NumPages, NEW r, r = WriteSlice(f, w, e)
    PROVE  r \in Callable /\ Weight(r) = IF e \in Bufs THEN -1 ELSE 0
<1>1. PICK b \in Blocks : b = f.current[w]
    BY FtlTypes
<1>2. PICK p \in Nat : p = f.currentPage[b] /\ p \in Pages
    <2>1. NumPages \in Nat /\ f.currentPage \in [Blocks -> 0 .. NumPages]
        BY FtlTypes, ReqSizesAssumption DEF ReqSizesAssumption
    <2>2. QED
        BY <1>1, <2>1 DEF Pages
<1>3. r = Nand("WRITE", e, b, p)
    BY <1>1, <1>2 DEF WriteSlice
<1>4. "WRITE" \in FlashCodes
    BY DEF FlashCodes
<1>5. /\ r \in Callable
      /\ Weight(r) = IF "WRITE" = "WRITE" /\ e \in Bufs THEN -1 ELSE 0
    BY <1>2, <1>3, <1>4, NandCallable
<1>6. QED
    BY <1>5

LEMMA EraseCallable ==
    ASSUME FtlBase(ftl), NEW b \in Blocks, NEW r, r = EraseReq(b)
    PROVE  r \in Callable /\ Weight(r) = 0
<1>1. NumPages \in Nat /\ ftl.currentPage \in [Blocks -> 0 .. NumPages]
    BY FtlTypes, ReqSizesAssumption DEF ReqSizesAssumption
<1>2. ftl.currentPage[b] \in Nat /\ "ERASE" \in FlashCodes /\ "ERASE" # "WRITE"
    BY <1>1 DEF FlashCodes
<1>3. r = Nand("ERASE", NoEntry, b, ftl.currentPage[b])
    BY DEF EraseReq
<1>4. /\ r \in Callable
      /\ Weight(r) = IF "ERASE" = "WRITE" /\ NoEntry \in Bufs THEN -1 ELSE 0
    BY <1>2, <1>3, NandCallable
<1>5. QED
    BY <1>2, <1>4

(* The pages that are copied. *)
LEMMA ValidSlicesFact ==
    ASSUME NEW s \in ValidSlices
    PROVE  s \in Seq(Pages) /\ Len(s) \in 1 .. NumPages - 1
<1>1. PICK n \in 1 .. NumPages - 1 : s \in [1 .. n -> Pages]
    BY DEF ValidSlices
<1>2. n \in Nat
    BY <1>1
<1>3. QED
    BY <1>1, <1>2

(* The copies of a collection, one by one. *)
LEMMA CopyPath ==
    ASSUME NEW s \in Seq(Pages), NEW a
    PROVE  \E f : /\ f[0] = a
                  /\ \A k \in 1 .. Len(s) : f[k] = CopySlice(f[k - 1], s[k])
                  /\ f[Len(s)] = FoldLeft(CopySlice, a, s)
<1>1. FoldLeft(CopySlice, a, s) = Fold("copy", a, s)
    BY DEF Turn, Fold, FoldLeft, MapThenFoldSet, Max
<1>2. PICK f : /\ f[0] = a
               /\ \A k \in 1 .. Len(s) : f[k] = Turn("copy", f[k - 1], s[k])
               /\ f[Len(s)] = Fold("copy", a, s)
    BY FoldPath
<1>3. QED
    BY <1>1, <1>2 DEF Turn

(* With c, k slices of block b are copied to the block that way w took     *)
(* when the upper layers kept t.                                           *)
Copied(c, w, b, t, k) ==
    /\ c = [way |-> w, victim |-> b, reqs |-> c.reqs, next |-> c.next]
    /\ FtlBase(c.next) /\ c.next.current = t.current /\ c.next.freeBlocks = t.freeBlocks
    /\ c.next.currentPage[t.current[w]] = k
    /\ \A d \in Blocks \ {t.current[w]} : c.next.currentPage[d] = t.currentPage[d]
    /\ \A n \in Nat : Takes(c.reqs, n, n)

(* One more copy leaves what the upper layers keep in order. *)
LEMMA CopyOK ==
    ASSUME FtlBase(ftl), NEW w \in Ways, NEW b \in Blocks, NEW t, NEW k \in Nat, k < NumPages,
           NEW c, Copied(c, w, b, t, k), NEW p \in Pages, NEW d, d = CopySlice(c, p)
    PROVE  Copied(d, w, b, t, k + 1)
<1>1. PICK q, f : q = c.reqs /\ f = c.next
    OBVIOUS
<1>2. /\ c = [way |-> w, victim |-> b, reqs |-> q, next |-> f]
      /\ FtlBase(f) /\ f.current = t.current /\ f.freeBlocks = t.freeBlocks
      /\ f.currentPage[t.current[w]] = k
      /\ \A e \in Blocks \ {t.current[w]} : f.currentPage[e] = t.currentPage[e]
      /\ \A n \in Nat : Takes(q, n, n)
    BY <1>1 DEF Copied
<1>3. PICK x, y, g : x = Nand("READ", w, b, p) /\ y = WriteSlice(f, w, w) /\ g = Used(f, w)
    OBVIOUS
<1>4. PICK l : l = <<x, y>>
    OBVIOUS
<1>5. d = [way |-> w, victim |-> b, reqs |-> q \o l, next |-> g]
    <2>1. c = [way |-> w, victim |-> b, reqs |-> q, next |-> f]
        BY <1>2
    <2>2. d = [way |-> w, victim |-> b, reqs |-> q \o <<x, y>>, next |-> Used(f, w)]
        BY <1>3, <2>1 DEF CopySlice
    <2>3. QED
        BY <1>3, <1>4, <2>2
<1>6. /\ FtlBase(g) /\ g.freeBlocks = f.freeBlocks /\ g.current = f.current
      /\ g.currentPage[g.current[w]] = f.currentPage[f.current[w]] + 1
      /\ \A e \in Blocks \ {f.current[w]} : g.currentPage[e] = f.currentPage[e]
    BY <1>2, <1>3, UsedOK
<1>7. x \in Callable /\ Weight(x) = 0
    <2>1. p \in Nat /\ "READ" \in FlashCodes /\ "READ" # "WRITE" /\ w \in Entries \cup {NoEntry}
        BY BufNoWay, ReqSizesAssumption DEF Pages, FlashCodes, ReqSizesAssumption
    <2>2. x \in Callable /\ Weight(x) = IF "READ" = "WRITE" /\ w \in Bufs THEN -1 ELSE 0
        BY <1>3, <2>1, NandCallable
    <2>3. QED
        BY <2>1, <2>2
<1>8. y \in Callable /\ Weight(y) = 0
    <2>1. w \in Entries \cup {NoEntry} /\ w \notin Bufs /\ f.currentPage[f.current[w]] < NumPages
        BY <1>2, BufNoWay
    <2>2. QED
        BY <1>2, <1>3, <2>1, WriteSliceCallable
<1>9. ASSUME NEW n \in Nat PROVE Takes(q \o l, n, n)
    <2>1. /\ l \in Seq(Callable) /\ Len(l) = 2 /\ l[1] = x /\ l[2] = y
          /\ \A i \in 1 .. 2 : i = 1 \/ i = 2
        BY <1>4, <1>7, <1>8
    <2>2. \A i \in 1 .. Len(l) : Weight(l[i]) = 0
        BY <1>7, <1>8, <2>1
    <2>3. Takes(l, n, n)
        BY <2>1, <2>2, TakesNothing
    <2>4. QED
        BY <1>2, <2>3, TakesConcat
<1>10. d.reqs = q \o l /\ d.next = g
    BY <1>5
<1>11. QED
    BY <1>2, <1>5, <1>6, <1>9, <1>10 DEF Copied

(* Every copy leaves what the upper layers keep in order. *)
LEMMA CopiesOK ==
    ASSUME FtlBase(ftl), NEW w \in Ways, Len(ftl.freeBlocks[w]) >= 1, NEW b \in Blocks,
           NEW t, t = Taken(ftl, w), NEW s \in Seq(Pages), Len(s) < NumPages
    PROVE  \E f : /\ f[0] = [way |-> w, victim |-> b, reqs |-> <<>>, next |-> t]
                  /\ \A k \in 1 .. Len(s) : f[k] = CopySlice(f[k - 1], s[k])
                  /\ f[Len(s)] = Copies(w, b, s)
                  /\ \A k \in 0 .. Len(s) : Copied(f[k], w, b, t, k)
<1>1. PICK a : a = [way |-> w, victim |-> b, reqs |-> <<>>, next |-> t]
    OBVIOUS
<1>2. PICK f : /\ f[0] = a
               /\ \A k \in 1 .. Len(s) : f[k] = CopySlice(f[k - 1], s[k])
               /\ f[Len(s)] = FoldLeft(CopySlice, a, s)
    BY CopyPath
<1>3. PICK m \in Nat : m = Len(s)
    OBVIOUS
<1>4. Copied(f[0], w, b, t, 0)
    <2>1. FtlBase(t) /\ t.currentPage[t.current[w]] = 0
        BY TakenOK
    <2>2. a.next = t /\ a.reqs = <<>> /\ f[0] = a
        BY <1>1, <1>2
    <2>3. \A n \in Nat : Takes(a.reqs, n, n)
        BY <2>2, TakesNone
    <2>4. QED
        BY <1>1, <2>1, <2>2, <2>3 DEF Copied
<1>5. PICK K : K = {k \in 0 .. m : Copied(f[k], w, b, t, k)}
    OBVIOUS
<1>6. 0 \in K
    BY <1>4, <1>5
<1>7. ASSUME NEW k \in 0 .. m, k # m, k \in K PROVE k + 1 \in K
    <2>1. k \in Nat /\ k + 1 \in 0 .. m /\ k + 1 \in 1 .. Len(s) /\ (k + 1) - 1 = k
        BY <1>3, <1>7
    <2>2. k < NumPages
        BY <1>3, <1>7, ReqSizesAssumption DEF ReqSizesAssumption
    <2>3. f[k + 1] = CopySlice(f[k], s[k + 1])
        BY <1>2, <2>1
    <2>4. s[k + 1] \in Pages
        BY <2>1
    <2>5. Copied(f[k], w, b, t, k)
        BY <1>5, <1>7
    <2>6. Copied(f[k + 1], w, b, t, k + 1)
        BY <2>1, <2>2, <2>3, <2>4, <2>5, CopyOK
    <2>7. QED
        BY <1>5, <2>1, <2>6
<1>8. \A k \in 0 .. m : k \in K
    BY <1>6, <1>7, UpTo
<1>9. f[Len(s)] = Copies(w, b, s)
    BY <1>1, <1>2 DEF Copies
<1>10. QED
    BY <1>1, <1>2, <1>3, <1>5, <1>8, <1>9

(* A victim is one of the way's full blocks.  It has no valid slice, and   *)
(* is not the way's current block, or it has some.                         *)
LEMMA CollectionsFact ==
    ASSUME NEW w, NEW c \in Collections(w)
    PROVE  \E b \in Blocks :
               /\ WayOf[b] = w /\ ftl.currentPage[b] = NumPages
               /\ \/ b # ftl.current[w] /\ c = Freed([reqs |-> <<>>, next |-> ftl], b)
                  \/ \E s \in ValidSlices : c = Freed(Copies(w, b, s), b)
BY DEF Collections

(* What a garbage collection leaves for the write that asked for it. *)
Collected(c, w) ==
    /\ FtlBase(c.next)
    /\ \A n \in Nat : Takes(c.reqs, n, n)
    /\ \A v \in Ways \ {w} : Len(c.next.freeBlocks[v]) >= 1
    /\ Len(c.next.freeBlocks[w]) >= IF CurrentFull(c.next, w) THEN 2 ELSE 1

LEMMA CollectionsOK ==
    ASSUME FtlOK(ftl), NEW w \in Ways, CurrentFull(ftl, w), NEW c \in Collections(w)
    PROVE  Collected(c, w)
<1>1. /\ FtlBase(ftl) /\ \A v \in Ways : Len(ftl.freeBlocks[v]) >= 1
      /\ \A v \in Ways : Len(ftl.freeBlocks[v]) \in Nat
    BY FtlTypes DEF FtlOK
<1>2. NumPages \in Nat \ {0}
    BY ReqSizesAssumption DEF ReqSizesAssumption
<1>3. PICK b \in Blocks :
          /\ WayOf[b] = w /\ ftl.currentPage[b] = NumPages
          /\ \/ b # ftl.current[w] /\ c = Freed([reqs |-> <<>>, next |-> ftl], b)
             \/ \E s \in ValidSlices : c = Freed(Copies(w, b, s), b)
    BY CollectionsFact
<1>4. PICK z : z = EraseReq(b)
    OBVIOUS
<1>5. z \in Callable /\ Weight(z) = 0
    BY <1>1, <1>4, EraseCallable
<1>6. ASSUME NEW q, \A n \in Nat : Takes(q, n, n), NEW f, NEW a, a.reqs = q, a.next = f,
             c = Freed(a, b), NEW g, g = Erased(f, b)
      PROVE  c.next = g /\ \A n \in Nat : Takes(c.reqs, n, n)
    <2>1. c.reqs = Append(q, z) /\ c.next = g
        BY <1>4, <1>6 DEF Freed
    <2>2. \A n \in Nat : n = n + Weight(z)
        BY <1>5
    <2>3. \A n \in Nat : Takes(Append(q, z), n, n)
        BY <1>5, <1>6, <2>2, TakesAppend
    <2>4. QED
        BY <2>1, <2>3
<1>7. ASSUME b # ftl.current[w], NEW a, a = [reqs |-> <<>>, next |-> ftl], c = Freed(a, b)
      PROVE  Collected(c, w)
    <2>1. PICK g, q : g = Erased(ftl, b) /\ q = <<>>
        OBVIOUS
    <2>2. a.reqs = q /\ a.next = ftl /\ \A n \in Nat : Takes(q, n, n)
        BY <1>7, <2>1, TakesNone
    <2>3. c.next = g /\ \A n \in Nat : Takes(c.reqs, n, n)
        BY <1>6, <1>7, <2>1, <2>2
    <2>4. /\ FtlBase(g)
          /\ Len(g.freeBlocks[w]) = Len(ftl.freeBlocks[w]) + 1
          /\ \A v \in Ways \ {w} : g.freeBlocks[v] = ftl.freeBlocks[v]
        BY <1>1, <1>3, <1>7, <2>1, ErasedOK
    <2>5. Len(g.freeBlocks[w]) >= 2 /\ \A v \in Ways \ {w} : Len(g.freeBlocks[v]) >= 1
        BY <1>1, <2>4
    <2>6. Len(g.freeBlocks[w]) \in Nat
        BY <1>1, <2>4
    <2>7. QED
        BY <2>3, <2>4, <2>5, <2>6 DEF Collected
<1>8. ASSUME NEW s \in ValidSlices, NEW a, a = Copies(w, b, s), c = Freed(a, b)
      PROVE  Collected(c, w)
    <2>1. PICK t : t = Taken(ftl, w)
        OBVIOUS
    <2>2. /\ FtlBase(t) /\ t.currentPage = ftl.currentPage
          /\ t.currentPage[t.current[w]] = 0
          /\ Len(t.freeBlocks[w]) = Len(ftl.freeBlocks[w]) - 1
          /\ \A v \in Ways \ {w} : t.freeBlocks[v] = ftl.freeBlocks[v]
        BY <1>1, <2>1, TakenOK
    <2>3. PICK m \in 1 .. NumPages - 1 : m = Len(s) /\ s \in Seq(Pages)
        BY ValidSlicesFact
    <2>4. m # NumPages /\ m < NumPages /\ 0 # NumPages /\ m \in 0 .. m
        BY <1>2, <2>3
    <2>5. Copied(a, w, b, t, m)
        <3>1. Len(ftl.freeBlocks[w]) >= 1 /\ Len(s) < NumPages
            BY <1>1, <2>3, <2>4
        <3>2. PICK f : /\ f[Len(s)] = Copies(w, b, s)
                       /\ \A k \in 0 .. Len(s) : Copied(f[k], w, b, t, k)
            BY <1>1, <2>1, <2>3, <3>1, CopiesOK
        <3>3. QED
            BY <1>8, <2>3, <2>4, <3>2
    <2>6. PICK q, u, g : q = a.reqs /\ u = a.next /\ g = Erased(u, b)
        OBVIOUS
    <2>7. /\ FtlBase(u) /\ u.current = t.current /\ u.freeBlocks = t.freeBlocks
          /\ u.currentPage[t.current[w]] = m
          /\ \A d \in Blocks \ {t.current[w]} : u.currentPage[d] = t.currentPage[d]
          /\ \A n \in Nat : Takes(q, n, n)
        BY <2>5, <2>6 DEF Copied
    <2>8. c.next = g /\ \A n \in Nat : Takes(c.reqs, n, n)
        BY <1>6, <1>8, <2>6, <2>7
    <2>9. b # t.current[w]
        BY <1>3, <2>2, <2>4
    <2>10. u.currentPage[b] = NumPages /\ u.current[WayOf[b]] # b
        BY <1>3, <2>2, <2>7, <2>9
    <2>11. /\ FtlBase(g) /\ g.current = u.current
           /\ Len(g.freeBlocks[w]) = Len(u.freeBlocks[w]) + 1
           /\ \A v \in Ways \ {w} : g.freeBlocks[v] = u.freeBlocks[v]
           /\ \A d \in Blocks \ {b} : g.currentPage[d] = u.currentPage[d]
        <3>1. /\ FtlBase(u) /\ u.currentPage[b] = NumPages /\ g = Erased(u, b)
              /\ w = WayOf[b] /\ u.current[w] # b
            BY <1>3, <2>6, <2>7, <2>10
        <3>2. QED
            BY <3>1, ErasedOK
    <2>12. ~CurrentFull(g, w)
        <3>1. u.current[w] \in Blocks
            BY <2>7, FtlTypes
        <3>2. g.currentPage[g.current[w]] = m
            BY <2>7, <2>9, <2>11, <3>1
        <3>3. QED
            BY <2>4, <3>2 DEF CurrentFull
    <2>13. Len(g.freeBlocks[w]) >= 1 /\ \A v \in Ways \ {w} : Len(g.freeBlocks[v]) >= 1
        BY <1>1, <2>2, <2>7, <2>11
    <2>14. QED
        BY <2>8, <2>11, <2>12, <2>13 DEF Collected
<1>9. QED
    BY <1>3, <1>7, <1>8

(* A way gets a block with room, and keeps one in reserve. *)
LEMMA RoomOK ==
    ASSUME NEW f, FtlBase(f), NEW w \in Ways,
           \A v \in Ways : Len(f.freeBlocks[v]) >= 1,
           CurrentFull(f, w) => Len(f.freeBlocks[w]) >= 2,
           NEW g, CurrentFull(f, w) => g = Taken(f, w), ~CurrentFull(f, w) => g = f
    PROVE  /\ FtlBase(g) /\ g.currentPage[g.current[w]] < NumPages
           /\ \A v \in Ways : Len(g.freeBlocks[v]) >= 1
<1>1. NumPages \in Nat \ {0} /\ \A v \in Ways : Len(f.freeBlocks[v]) \in Nat
    BY FtlTypes, ReqSizesAssumption DEF ReqSizesAssumption
<1>2. CASE CurrentFull(f, w)
    <2>1. g = Taken(f, w)
        BY <1>2
    <2>2. /\ FtlBase(g) /\ g.currentPage[g.current[w]] = 0
          /\ Len(g.freeBlocks[w]) = Len(f.freeBlocks[w]) - 1
          /\ \A v \in Ways \ {w} : g.freeBlocks[v] = f.freeBlocks[v]
        BY <2>1, TakenOK
    <2>3. Len(g.freeBlocks[w]) >= 1
        BY <1>1, <1>2, <2>2
    <2>4. \A v \in Ways : Len(g.freeBlocks[v]) >= 1
        BY <2>2, <2>3
    <2>5. 0 < NumPages
        BY <1>1
    <2>6. QED
        BY <2>2, <2>4, <2>5
<1>3. CASE ~CurrentFull(f, w)
    <2>1. PICK n : n = f.currentPage[f.current[w]]
        OBVIOUS
    <2>2. n \in 0 .. NumPages
        BY <2>1, FtlTypes
    <2>3. n # NumPages
        BY <1>3, <2>1 DEF CurrentFull
    <2>4. n < NumPages
        BY <1>1, <2>2, <2>3
    <2>5. QED
        BY <1>3, <2>1, <2>4
<1>4. QED
    BY <1>2, <1>3

LEMMA NoEntryFact == NoEntry \notin Bufs
BY ReqWaysAssumption DEF ReqWaysAssumption

(* The tag a write has before anything is done for it. *)
TagOf(e) == IF e = NoEntry THEN <<>> ELSE <<Hold>>

LEMMA TakesHold == \A n \in Nat : Takes(<<Hold>>, n, n + 1)
<1>1. \A n \in Nat : n + 1 \in Nat
    OBVIOUS
<1>2. QED
    BY <1>1, WeightFact, TakesOne

(* The write from an entry, or from none, after requests that hold what it *)
(* needs.                                                                  *)
LEMMA WriteOK ==
    ASSUME FtlBase(ftl), NEW g, FtlBase(g), NEW w \in Ways, NEW e \in Bufs \cup {NoEntry},
           g.currentPage[g.current[w]] < NumPages,
           \A v \in Ways : Len(g.freeBlocks[v]) >= 1,
           NEW q, \A n \in Nat : Takes(q, n, n),
           NEW h, h = TagOf(e)
    PROVE  /\ FtlOK(Used(g, w))
           /\ \A n \in Nat : Takes(Append(h \o q, WriteSlice(g, w, e)), n, n)
<1>1. PICK u : u = Used(g, w)
    OBVIOUS
<1>2. FtlBase(u) /\ u.freeBlocks = g.freeBlocks
    BY <1>1, UsedOK
<1>3. FtlOK(Used(g, w))
    BY <1>1, <1>2 DEF FtlOK
<1>4. PICK r : r = WriteSlice(g, w, e)
    OBVIOUS
<1>5. r \in Callable /\ Weight(r) = IF e \in Bufs THEN -1 ELSE 0
    <2>1. e \in Entries \cup {NoEntry}
        BY BufNoWay
    <2>2. QED
        BY <1>4, <2>1, WriteSliceCallable
<1>6. ASSUME NEW n \in Nat PROVE Takes(Append(h \o q, r), n, n)
    <2>1. CASE e = NoEntry
        <3>1. Takes(h, n, n) /\ n \in Nat
            BY <2>1, TakesNone DEF TagOf
        <3>2. Takes(h \o q, n, n)
            BY <3>1, TakesConcat
        <3>3. n = n + Weight(r)
            BY <1>5, <2>1, NoEntryFact
        <3>4. QED
            BY <1>5, <3>2, <3>3, TakesAppend
    <2>2. CASE e \in Bufs
        <3>1. n + 1 \in Nat /\ n = (n + 1) + (-1)
            OBVIOUS
        <3>2. Takes(h, n, n + 1)
            BY <2>2, TakesHold, NoEntryFact DEF TagOf
        <3>3. Takes(h \o q, n, n + 1)
            BY <3>1, <3>2, TakesConcat
        <3>4. n = (n + 1) + Weight(r)
            BY <1>5, <2>2, <3>1
        <3>5. QED
            BY <1>5, <3>1, <3>3, <3>4, TakesAppend
    <2>3. QED
        BY <2>1, <2>2
<1>7. QED
    BY <1>3, <1>4, <1>6

(* A write takes a block with room, or what a collection leaves has some.  *)
WroteBy(ev, w, e, h) ==
    \/ /\ ~CurrentFull(ftl, w) \/ Len(ftl.freeBlocks[w]) > 1
       /\ \E g : /\ g = IF CurrentFull(ftl, w) THEN Taken(ftl, w) ELSE ftl
                 /\ ev = [reqs |-> Append(h, WriteSlice(g, w, e)), next |-> Used(g, w)]
    \/ /\ CurrentFull(ftl, w)
       /\ \E c \in Collections(w) : \E g :
             /\ g = IF CurrentFull(c.next, w) THEN Taken(c.next, w) ELSE c.next
             /\ ev = [reqs |-> Append(h \o c.reqs, WriteSlice(g, w, e)), next |-> Used(g, w)]

LEMMA WritesFact ==
    ASSUME NEW w, NEW e, NEW ev \in Writes(w, e)
    PROVE  WroteBy(ev, w, e, TagOf(e))
BY DEF Writes, TagOf, WroteBy

(* A write leaves what the upper layers keep in order, and as many tags    *)
(* held as before.                                                         *)
LEMMA WritesOK ==
    ASSUME FtlOK(ftl), NEW e \in Bufs \cup {NoEntry}, NEW w \in Ways, NEW ev \in Writes(w, e)
    PROVE  FtlOK(ev.next) /\ \A n \in Nat : Takes(ev.reqs, n, n)
<1>1. FtlBase(ftl) /\ \A v \in Ways : Len(ftl.freeBlocks[v]) >= 1
    BY DEF FtlOK
<1>2. \A v \in Ways : Len(ftl.freeBlocks[v]) \in Nat
    BY <1>1, FtlTypes
<1>3. PICK h, none : h = TagOf(e) /\ none = <<>>
    OBVIOUS
<1>4. h \in Seq(Callable)
    BY <1>3, WeightFact DEF TagOf
<1>5. WroteBy(ev, w, e, h)
    BY <1>3, WritesFact
<1>6. ASSUME ~CurrentFull(ftl, w) \/ Len(ftl.freeBlocks[w]) > 1,
             NEW g, g = IF CurrentFull(ftl, w) THEN Taken(ftl, w) ELSE ftl,
             ev = [reqs |-> Append(h, WriteSlice(g, w, e)), next |-> Used(g, w)]
      PROVE  FtlOK(ev.next) /\ \A n \in Nat : Takes(ev.reqs, n, n)
    <2>1. CurrentFull(ftl, w) => Len(ftl.freeBlocks[w]) >= 2
        BY <1>1, <1>2, <1>6
    <2>2. /\ FtlBase(g) /\ g.currentPage[g.current[w]] < NumPages
          /\ \A v \in Ways : Len(g.freeBlocks[v]) >= 1
        BY <1>1, <1>6, <2>1, RoomOK
    <2>3. h \o none = h /\ \A n \in Nat : Takes(none, n, n)
        BY <1>3, <1>4, TakesNone
    <2>4. /\ FtlOK(Used(g, w))
          /\ \A n \in Nat : Takes(Append(h \o none, WriteSlice(g, w, e)), n, n)
        BY <1>1, <1>3, <2>2, <2>3, WriteOK
    <2>5. ev.next = Used(g, w) /\ ev.reqs = Append(h, WriteSlice(g, w, e))
        BY <1>6
    <2>6. QED
        BY <2>3, <2>4, <2>5
<1>7. ASSUME CurrentFull(ftl, w), NEW c \in Collections(w), NEW f, f = c.next,
             NEW q, q = c.reqs,
             NEW g, g = IF CurrentFull(f, w) THEN Taken(f, w) ELSE f,
             ev = [reqs |-> Append(h \o q, WriteSlice(g, w, e)), next |-> Used(g, w)]
      PROVE  FtlOK(ev.next) /\ \A n \in Nat : Takes(ev.reqs, n, n)
    <2>1. Collected(c, w)
        BY <1>7, CollectionsOK
    <2>2. /\ FtlBase(f) /\ \A n \in Nat : Takes(q, n, n)
          /\ \A v \in Ways \ {w} : Len(f.freeBlocks[v]) >= 1
          /\ Len(f.freeBlocks[w]) >= IF CurrentFull(f, w) THEN 2 ELSE 1
        BY <1>7, <2>1 DEF Collected
    <2>3. /\ CurrentFull(f, w) => Len(f.freeBlocks[w]) >= 2
          /\ ~CurrentFull(f, w) => Len(f.freeBlocks[w]) >= 1
        BY <2>2
    <2>4. \A v \in Ways : Len(f.freeBlocks[v]) >= 1
        <3>1. Len(f.freeBlocks[w]) \in Nat
            BY <2>2, FtlTypes
        <3>2. Len(f.freeBlocks[w]) >= 1
            BY <2>3, <3>1
        <3>3. QED
            BY <2>2, <3>2
    <2>5. /\ FtlBase(g) /\ g.currentPage[g.current[w]] < NumPages
          /\ \A v \in Ways : Len(g.freeBlocks[v]) >= 1
        BY <1>7, <2>2, <2>3, <2>4, RoomOK
    <2>6. /\ FtlOK(Used(g, w))
          /\ \A n \in Nat : Takes(Append(h \o q, WriteSlice(g, w, e)), n, n)
        BY <1>1, <1>3, <2>2, <2>5, WriteOK
    <2>7. ev.next = Used(g, w) /\ ev.reqs = Append(h \o q, WriteSlice(g, w, e))
        BY <1>7
    <2>8. QED
        BY <2>6, <2>7
<1>8. QED
    BY <1>5, <1>6, <1>7 DEF WroteBy

(* And so does an eviction. *)
LEMMA EvictionsOK ==
    ASSUME FtlOK(ftl), NEW e \in Bufs, NEW ev \in Evictions(e)
    PROVE  FtlOK(ev.next) /\ \A n \in Nat : Takes(ev.reqs, n, n)
<1>1. CASE ~ftl.dirty[e]
    <2>1. ev = [reqs |-> <<>>, next |-> ftl]
        BY <1>1 DEF Evictions
    <2>2. ev.reqs = <<>> /\ ev.next = ftl
        BY <2>1
    <2>3. QED
        BY <2>2, TakesNone
<1>2. CASE ftl.dirty[e]
    <2>1. PICK w \in Ways : ev \in Writes(w, e)
        BY <1>2 DEF Evictions, AllowedWrites
    <2>2. QED
        BY <2>1, WritesOK
<1>3. QED
    BY <1>1, <1>2

LEMMA ReadsOK ==
    ASSUME NEW f, FtlBase(f), NEW e \in Bufs \cup {NoEntry}, NEW r \in Reads(f, e)
    PROVE  r \in Callable /\ Weight(r) = 0
<1>1. PICK b \in Blocks, p \in Pages : r = Request("READ", e, b, p, f.cycle[b])
    BY DEF Reads
<1>2. f.cycle[b] \in Int /\ p \in Nat
    BY <1>1, FtlTypes, ReqSizesAssumption DEF Pages, ReqSizesAssumption
<1>3. r = [code |-> "READ", entry |-> e, block |-> b, page |-> p, cycle |-> f.cycle[b]]
    BY <1>1 DEF Request
<1>4. r.code = "READ" /\ r.block = b
    BY <1>3
<1>5. r \in Requests
    BY <1>1, <1>2, <1>3, BufNoWay DEF Requests, Codes, FlashCodes
<1>6. Proper(r) /\ ~HasTag(r)
    BY <1>4 DEF Proper, NandReq, HasTag, IsDma, DmaCodes, FlashCodes
<1>7. QED
    BY <1>5, <1>6, WeightFact DEF Callable, Weight

LEMMA DmaOK ==
    ASSUME NEW c \in DmaCodes, NEW e \in Bufs
    PROVE  Dma(c, e) \in Callable /\ Weight(Dma(c, e)) = -1
<1>1. PICK r : r = [code |-> c, entry |-> e, block |-> NoBlock, page |-> 0, cycle |-> 0]
    OBVIOUS
<1>2. r = Dma(c, e)
    BY <1>1 DEF Dma, Request
<1>3. r.code = c
    BY <1>1
<1>4. r \in Requests
    BY <1>1, BufNoWay DEF Requests, Codes
<1>5. Proper(r) /\ HasTag(r)
    BY <1>3 DEF Proper, HasTag, IsDma
<1>6. QED
    BY <1>2, <1>4, <1>5, WeightFact DEF Callable, Weight

(* Setting whether an entry is dirty disturbs nothing. *)
LEMMA DirtyOK ==
    ASSUME NEW f, FtlOK(f), NEW e \in Bufs, NEW d \in BOOLEAN, NEW g, g = [f EXCEPT !.dirty[e] = d]
    PROVE  FtlOK(g)
<1>1. PICK h : h = [f.dirty EXCEPT ![e] = d]
    OBVIOUS
<1>2. h \in [Bufs -> BOOLEAN]
    BY <1>1, FtlTypes DEF FtlOK
<1>3. g = [f EXCEPT !.dirty = h]
    BY <1>1
<1>4. /\ g \in [current : [Ways -> Blocks], currentPage : [Blocks -> 0 .. NumPages],
                freeBlocks : [Ways -> Seq(Blocks)], cycle : [Blocks -> Int],
                dirty : [Bufs -> BOOLEAN]]
      /\ g.current = f.current /\ g.currentPage = f.currentPage /\ g.freeBlocks = f.freeBlocks
    BY <1>2, <1>3 DEF FtlOK, FtlBase
<1>5. QED
    BY <1>4 DEF FtlOK, FtlBase, FtlWay
-----------------------------------------------------------------------------
(* The inductive invariant *)

(* The scheduler is in order, and so is what the upper layers keep; the    *)
(* requests that are not handed down yet find the tags they need, and no   *)
(* tag is held that none of them needs.                                    *)
ReqInv ==
    /\ InOrder(sched, waiting)
    /\ FtlOK(ftl)
    /\ Takes(work, Len(sched.held), 0)

LEMMA TakesTail ==
    ASSUME NEW q, NEW n, Takes(q, n, 0), q # <<>>, Head(q) = Sync
    PROVE  Takes(Tail(q), n, 0)
<1>1. q \in Seq(Callable)
    BY DEF Takes
<1>2. PICK m \in Nat : Len(q) = m + 1
    <2>1. Len(q) \in Nat \ {0}
        BY <1>1
    <2>2. Len(q) - 1 \in Nat /\ Len(q) = (Len(q) - 1) + 1
        BY <2>1
    <2>3. QED
        BY <2>2
<1>3. PICK h : /\ h \in [0 .. m + 1 -> Nat] /\ h[0] = n /\ h[m + 1] = 0
               /\ \A k \in 1 .. m + 1 : h[k] = h[k - 1] + Weight(q[k])
    BY <1>2 DEF Takes
<1>4. PICK p : p = Tail(q)
    OBVIOUS
<1>5. p \in Seq(Callable) /\ Len(p) = m /\ \A k \in 1 .. m : p[k] = q[k + 1]
    BY <1>1, <1>2, <1>4
<1>6. PICK g : g = [k \in 0 .. m |-> h[k + 1]]
    OBVIOUS
<1>7. \A k \in 0 .. m : k + 1 \in 0 .. m + 1
    OBVIOUS
<1>8. g \in [0 .. m -> Nat]
    BY <1>3, <1>6, <1>7
<1>9. g[0] = n /\ g[m] = 0
    <2>1. /\ 0 \in 0 .. m /\ m \in 0 .. m /\ 1 \in 1 .. m + 1 /\ 1 - 1 = 0 /\ 0 + 1 = 1
          /\ 0 \in 0 .. m + 1
        OBVIOUS
    <2>2. h[1] = h[0] + Weight(q[1])
        BY <1>3, <2>1
    <2>3. Weight(q[1]) = 0
        BY WeightFact
    <2>4. h[0] \in Nat
        BY <1>3, <2>1
    <2>5. h[1] = n
        BY <1>3, <2>2, <2>3, <2>4
    <2>6. QED
        BY <1>3, <1>6, <2>1, <2>5
<1>10. ASSUME NEW k \in 1 .. m PROVE g[k] = g[k - 1] + Weight(p[k])
    <2>1. /\ k \in 0 .. m /\ k - 1 \in 0 .. m /\ k + 1 \in 1 .. m + 1
          /\ (k - 1) + 1 = k /\ (k + 1) - 1 = k
        OBVIOUS
    <2>2. h[k + 1] = h[k] + Weight(q[k + 1])
        BY <1>3, <2>1
    <2>3. g[k] = h[k + 1] /\ g[k - 1] = h[k]
        BY <1>6, <2>1
    <2>4. QED
        BY <1>5, <2>2, <2>3
<1>11. Takes(p, n, 0)
    <2>1. /\ g \in [0 .. Len(p) -> Nat] /\ g[0] = n /\ g[Len(p)] = 0
          /\ \A k \in 1 .. Len(p) : g[k] = g[k - 1] + Weight(p[k])
        BY <1>5, <1>8, <1>9, <1>10
    <2>2. QED
        BY <1>5, <2>1, ZenonT(30) DEF Takes
<1>12. QED
    BY <1>4, <1>11

(* The blocks of a way are its own. *)
LEMMA BlocksOfWay ==
    ASSUME NEW w \in Ways
    PROVE  /\ BlockList[w] \in Seq(Blocks) /\ Once(BlockList[w])
           /\ Len(BlockList[w]) \in Nat /\ Len(BlockList[w]) > 1
           /\ \A b \in Range(BlockList[w]) : b \in Blocks /\ WayOf[b] = w
<1>1. BlockList[w] \in Seq(Blocks) /\ Len(BlockList[w]) > 1
    BY ReqWaysAssumption DEF ReqWaysAssumption
<1>2. Once(BlockList[w])
    BY ReqWaysAssumption DEF ReqWaysAssumption, Once
<1>3. ASSUME NEW b \in Range(BlockList[w]) PROVE b \in Blocks /\ WayOf[b] = w
    <2>1. b \in Blocks
        BY DEF Blocks
    <2>2. WayOf[b] \in Ways /\ b \in Range(BlockList[WayOf[b]])
        BY <2>1, WayOfFact
    <2>3. \A v \in Ways : v # w => Range(BlockList[v]) \cap Range(BlockList[w]) = {}
        BY ReqWaysAssumption DEF ReqWaysAssumption
    <2>4. QED
        BY <2>1, <2>2, <2>3
<1>4. QED
    BY <1>1, <1>2, <1>3

LEMMA FtlInit ==
    ASSUME Init
    PROVE  FtlOK(ftl)
<1>1. NumPages \in Nat
    BY ReqSizesAssumption DEF ReqSizesAssumption
<1>2. /\ ftl = [current |-> [w \in Ways |-> Head(BlockList[w])],
                currentPage |-> [b \in Blocks |-> 0],
                freeBlocks |-> [w \in Ways |-> Tail(BlockList[w])],
                cycle |-> [b \in Blocks |-> 0],
                dirty |-> [e \in Bufs |-> FALSE]]
    BY DEF Init
<1>3. ASSUME NEW w \in Ways, NEW q, q = BlockList[w]
      PROVE  /\ Head(q) \in Range(q) /\ Head(q) \in Blocks
             /\ Tail(q) \in Seq(Blocks) /\ Len(Tail(q)) = Len(q) - 1
             /\ Once(Tail(q)) /\ Range(Tail(q)) = Range(q) \ {Head(q)}
             /\ Len(Tail(q)) >= 1
    <2>1. q \in Seq(Blocks) /\ Once(q) /\ Len(q) \in Nat /\ Len(q) > 1
        BY <1>3, BlocksOfWay
    <2>2. q # <<>>
        BY <2>1
    <2>3. /\ Head(q) \in Range(q) /\ Head(q) \in Blocks
          /\ Tail(q) \in Seq(Blocks) /\ Len(Tail(q)) = Len(q) - 1
          /\ Once(Tail(q)) /\ Range(Tail(q)) = Range(q) \ {Head(q)}
        BY <2>1, <2>2, OnceTail
    <2>4. QED
        BY <2>1, <2>3
<1>4. /\ \A w \in Ways : ftl.current[w] = Head(BlockList[w])
      /\ \A w \in Ways : ftl.freeBlocks[w] = Tail(BlockList[w])
      /\ \A b \in Blocks : ftl.currentPage[b] = 0
    BY <1>2
<1>5. ASSUME NEW w \in Ways PROVE FtlWay(ftl, w) /\ Len(ftl.freeBlocks[w]) >= 1
    <2>1. PICK q : q = BlockList[w]
        OBVIOUS
    <2>2. /\ Head(q) \in Range(q) /\ Len(Tail(q)) >= 1
          /\ Once(Tail(q)) /\ Range(Tail(q)) = Range(q) \ {Head(q)}
        BY <1>3, <2>1
    <2>3. \A b \in Range(q) : b \in Blocks /\ WayOf[b] = w
        BY <2>1, BlocksOfWay
    <2>4. ftl.current[w] = Head(q) /\ ftl.freeBlocks[w] = Tail(q)
        BY <1>4, <2>1
    <2>5. QED
        BY <1>4, <2>2, <2>3, <2>4 DEF FtlWay
<1>6. /\ [w \in Ways |-> Head(BlockList[w])] \in [Ways -> Blocks]
      /\ [w \in Ways |-> Tail(BlockList[w])] \in [Ways -> Seq(Blocks)]
    BY <1>3
<1>7. ftl \in [current : [Ways -> Blocks], currentPage : [Blocks -> 0 .. NumPages],
               freeBlocks : [Ways -> Seq(Blocks)], cycle : [Blocks -> Int],
               dirty : [Bufs -> BOOLEAN]]
    BY <1>1, <1>2, <1>6
<1>8. QED
    BY <1>5, <1>7 DEF FtlOK, FtlBase

(* At the start all tags are free. *)
LEMMA SchedInit ==
    ASSUME Init
    PROVE  InOrder(sched, NoTag)
<1>1. PICK at : at = [t \in Tags |-> "free"]
    OBVIOUS
<1>2. /\ NumPages \in Nat
    BY ReqSizesAssumption DEF ReqSizesAssumption
<1>3. PICK n : n = NoReq
    OBVIOUS
<1>4. sched = [free |-> Tags, held |-> <<>>, req |-> [t \in Tags |-> n], bufQ |-> {},
               rowQ |-> [w \in Ways |-> <<>>], nandQ |-> [w \in Ways |-> <<>>], dmaQ |-> <<>>,
               prevBlocking |-> [t \in Tags |-> NoTag], nextBlocking |-> [t \in Tags |-> NoTag],
               tail |-> [e \in Entries |-> NoTag], notCompleted |-> 0, blocked |-> 0,
               permitted |-> [b \in Blocks |-> 0], blockedReads |-> [b \in Blocks |-> 0],
               eraseFlag |-> [b \in Blocks |-> FALSE]]
    BY <1>3 DEF Init
<1>5. sched \in Shape
    BY <1>2, <1>3, <1>4, NoReqFact DEF Shape
<1>6. /\ sched.free = Tags /\ sched.held = <<>> /\ sched.bufQ = {} /\ sched.dmaQ = <<>>
      /\ \A w \in Ways : sched.rowQ[w] = <<>> /\ sched.nandQ[w] = <<>>
      /\ \A t \in Tags : sched.prevBlocking[t] = NoTag /\ sched.nextBlocking[t] = NoTag
      /\ \A e \in Entries : sched.tail[e] = NoTag
      /\ sched.notCompleted = 0 /\ sched.blocked = 0
      /\ \A b \in Blocks : sched.blockedReads[b] = 0
    BY <1>4
<1>7. \A t \in Tags : at[t] = "free" /\ ~Live(at[t])
    BY <1>1 DEF Live
<1>8. /\ at \in [Tags -> Places]
      /\ At(at, "free") = Tags
      /\ At(at, "held") = {} /\ At(at, "dma") = {} /\ At(at, "nand") = {}
      /\ At(at, "row") = {} /\ At(at, "buf") = {} /\ At(at, "wait") = {}
    BY <1>1, <1>7 DEF At, Places
<1>9. Lists(<<>>, {})
    BY DEF Lists, Once, Range
<1>10. \A w \in Ways : /\ OnWay(sched.req, at, "nand", w) = {}
                       /\ OnWay(sched.req, at, "row", w) = {}
    BY <1>7 DEF OnWay
<1>11. Placed(sched, NoTag, at)
    BY <1>6, <1>8, <1>9, <1>10 DEF Placed
<1>12. Fitting(sched, at)
    BY <1>7 DEF Fitting
<1>13. Counted(sched, at)
    BY <1>6, <1>8, FS_EmptySet DEF Counted
<1>14. Chained(sched, at)
    BY <1>6, <1>7 DEF Chained, OneHead, HeadHasTail, LinksFit, TailsFit, HeadsReleased, RestUnlinked
<1>15. ReadsCounted(sched, at)
    <2>1. \A b \in Blocks : ReadsOf(sched.req, at, b) = {}
        BY <1>7 DEF ReadsOf
    <2>2. QED
        BY <1>6, <2>1, FS_EmptySet DEF ReadsCounted
<1>16. \A w \in Ways : SeenAt(sched, w)
    BY <1>6, <1>9 DEF SeenAt, Lists
<1>17. Sound(sched, NoTag, at, {})
    BY <1>5, <1>11, <1>12, <1>13, <1>14, <1>15, <1>16 DEF Sound, Core
<1>18. Settled(at)
    BY <1>7 DEF Settled
<1>19. QED
    BY <1>17, <1>18 DEF InOrder

LEMMA InitReqInv == Init => ReqInv
<1>1. SUFFICES ASSUME Init PROVE ReqInv
    OBVIOUS
<1>2. waiting = NoTag /\ work = <<>> /\ Len(sched.held) = 0
    BY <1>1 DEF Init
<1>3. Takes(<<>>, 0, 0)
    BY TakesNone
<1>4. QED
    BY <1>1, <1>2, <1>3, FtlInit, SchedInit DEF ReqInv

(* A call that runs leaves the invariant. *)
LEMMA RunInv ==
    ASSUME NEW s, InOrder(s, NoTag), NEW reqs, Takes(reqs, Len(s.held), 0), FtlOK(ftl'),
           Run(s, reqs)
    PROVE  ReqInv'
<1>1. PICK a : a = FoldLeft(HandDown, [sched |-> s, waiting |-> NoTag, work |-> <<>>], reqs)
    OBVIOUS
<1>2. sched' = a.sched /\ waiting' = a.waiting /\ work' = a.work
    BY <1>1 DEF Run
<1>3. reqs \in Seq(Callable) /\ Balanced(reqs, Len(s.held))
    BY TakesBalanced
<1>4. /\ InOrder(a.sched, a.waiting)
      /\ a.work \in Seq(Callable) /\ Balanced(a.work, Len(a.sched.held))
    BY <1>1, <1>3, RunSound
<1>5. Takes(a.work, Len(a.sched.held), 0)
    BY <1>4, TakesBalanced
<1>6. QED
    BY <1>2, <1>4, <1>5 DEF ReqInv

LEMMA TagFreedInv == ReqInv /\ TagFreed => ReqInv'
<1>1. SUFFICES ASSUME ReqInv, TagFreed PROVE ReqInv'
    OBVIOUS
<1>2. waiting = NoTag /\ Run(sched, work) /\ ftl' = ftl
    BY <1>1 DEF TagFreed, HasTagFreed
<1>3. InOrder(sched, NoTag) /\ Takes(work, Len(sched.held), 0) /\ FtlOK(ftl')
    BY <1>1, <1>2 DEF ReqInv
<1>4. QED
    BY <1>2, <1>3, RunInv

LEMMA EraseReleasedInv == ReqInv /\ EraseReleased => ReqInv'
<1>1. SUFFICES ASSUME ReqInv, EraseReleased PROVE ReqInv'
    OBVIOUS
<1>2. PICK u : u = SelectLowLevelReqQ(sched, waiting)
    OBVIOUS
<1>3. waiting # NoTag /\ Run(u, work) /\ ftl' = ftl
    BY <1>1, <1>2 DEF EraseReleased, HasEraseReleased
<1>4. PICK at : Sound(sched, waiting, at, {}) /\ Settled(at)
    BY <1>1 DEF ReqInv, InOrder
<1>5. at \in [Tags -> Places] /\ Core(sched, waiting, at)
    BY <1>4, SoundFacts
<1>6. {waiting} \ {NoTag} = At(at, "wait")
    BY <1>5, CoreFacts
<1>7. waiting \in Tags /\ at[waiting] = "wait" /\ \A y \in Tags : at[y] = "wait" => y = waiting
    BY <1>3, <1>6 DEF At
<1>8. PICK t \in Tags : t = waiting
    BY <1>7
<1>9. PICK b : b = Goes(at, t, "loose")
    OBVIOUS
<1>10. /\ b \in [Tags -> Places] /\ b[t] = "loose" /\ \A y \in Tags \ {t} : b[y] = at[y]
    BY <1>5, <1>9 DEF Goes, Places
<1>11. {NoTag} \ {NoTag} = At(b, "wait")
    BY <1>7, <1>8, <1>10 DEF At
<1>12. Sound(sched, NoTag, b, {})
    BY <1>4, <1>7, <1>8, <1>9, <1>11, WaitSound
<1>13. u = SelectLowLevelReqQ(sched, t)
    BY <1>2, <1>8
<1>14. /\ \E q \in {"nand", "row", "dma", "buf"} : Sound(u, NoTag, Goes(b, t, q), {})
       /\ u.held = sched.held
    BY <1>10, <1>12, <1>13, SelectLowLevelSound
<1>15. PICK q \in {"nand", "row", "dma", "buf"} : Sound(u, NoTag, Goes(b, t, q), {})
    BY <1>14
<1>16. PICK a : a = Goes(b, t, q)
    OBVIOUS
<1>17. a[t] = q /\ \A y \in Tags \ {t} : a[y] = at[y]
    BY <1>10, <1>16 DEF Goes
<1>18. Settled(a)
    BY <1>4, <1>17 DEF Settled
<1>19. InOrder(u, NoTag)
    BY <1>15, <1>16, <1>18 DEF InOrder
<1>20. Takes(work, Len(u.held), 0) /\ FtlOK(ftl')
    BY <1>1, <1>3, <1>14 DEF ReqInv
<1>21. QED
    BY <1>3, <1>19, <1>20, RunInv

LEMMA AllDoneInv == ReqInv /\ AllDone => ReqInv'
<1>1. SUFFICES ASSUME ReqInv, AllDone PROVE ReqInv'
    OBVIOUS
<1>2. waiting = NoTag /\ work # <<>> /\ Head(work) = Sync /\ Run(sched, Tail(work)) /\ ftl' = ftl
    BY <1>1 DEF AllDone, Syncing
<1>3. InOrder(sched, NoTag) /\ Takes(work, Len(sched.held), 0) /\ FtlOK(ftl')
    BY <1>1, <1>2 DEF ReqInv
<1>4. Takes(Tail(work), Len(sched.held), 0)
    BY <1>2, <1>3, TakesTail
<1>5. QED
    BY <1>2, <1>3, <1>4, RunInv

LEMMA DmaDoneInv ==
    ASSUME ReqInv, NEW done, DmaDone(done)
    PROVE  ReqInv'
<1>1. PICK at : Sound(sched, waiting, at, {}) /\ Settled(at)
    BY DEF ReqInv, InOrder
<1>2. sched \in Shape /\ Core(sched, waiting, at)
    BY <1>1, SoundFacts
<1>3. PICK d : d = sched.dmaQ
    OBVIOUS
<1>4. d \in Seq(Tags) /\ Lists(d, At(at, "dma"))
    BY <1>2, <1>3, CoreFacts DEF Shape
<1>5. PICK q : q = Reverse(d)
    OBVIOUS
<1>6. q \in Seq(Tags) /\ Once(q) /\ \A j \in 1 .. Len(q) : q[j] \in Range(d)
    BY <1>4, <1>5, ReverseFact DEF Lists
<1>7. \A j \in 1 .. Len(q) : at[q[j]] = "dma"
    BY <1>4, <1>6 DEF Lists, At
<1>8. PICK u : u = FoldLeft(WalkDma, [sched |-> sched, done |-> done], q).sched
    OBVIOUS
<1>9. (\E a : Sound(u, waiting, a, {}) /\ Onward(at, a)) /\ u.held = sched.held
    BY <1>1, <1>6, <1>7, <1>8, WalkAllSound
<1>10. PICK a : Sound(u, waiting, a, {}) /\ Onward(at, a)
    BY <1>9
<1>11. Settled(a)
    BY <1>1, <1>10 DEF Settled, Onward
<1>12. sched' = u /\ waiting' = waiting /\ work' = work /\ ftl' = ftl
    BY <1>3, <1>5, <1>8 DEF DmaDone
<1>13. InOrder(u, waiting)
    BY <1>10, <1>11 DEF InOrder
<1>14. QED
    BY <1>9, <1>12, <1>13 DEF ReqInv

LEMMA NandDoneInv ==
    ASSUME ReqInv, NEW w \in Ways, NandDone(w)
    PROVE  ReqInv'
<1>1. PICK at : Sound(sched, waiting, at, {}) /\ Settled(at)
    BY DEF ReqInv, InOrder
<1>2. PICK t : t = Head(sched.nandQ[w])
    OBVIOUS
<1>3. PICK v : v = HeadDone(sched, w)
    OBVIOUS
<1>4. /\ sched.nandQ[w] # <<>> /\ waiting' = waiting /\ work' = work /\ ftl' = ftl
      /\ sched' = IF v.nandQ[w] = <<>> THEN ReleaseBlockedByRowAddrDepReq(v, w) ELSE v
    BY <1>3 DEF NandDone, LooksAtBlocked, HeadDone, HeadLeft
<1>5. Ended(sched, v, waiting, at, {w}, t)
    <2>1. Ended(sched, v, waiting, at, {} \cup {w}, t)
        BY <1>1, <1>2, <1>3, <1>4, NandEndSound
    <2>2. {} \cup {w} = {w}
        OBVIOUS
    <2>3. QED
        BY <2>1, <2>2
<1>6. PICK a : /\ Sound(v, waiting, a, {w}) /\ a[t] = "free"
               /\ \A y \in Tags \ {t} : \/ a[y] = at[y]
                                        \/ at[y] = "buf" /\ a[y] \in {"nand", "row", "dma"}
    BY <1>5 DEF Ended
<1>7. v.held = sched.held
    BY <1>5 DEF Ended
<1>8. Settled(a)
    BY <1>1, <1>6 DEF Settled
<1>9. CASE v.nandQ[w] = <<>>
    <2>1. PICK u : u = ReleaseBlockedByRowAddrDepReq(v, w)
        OBVIOUS
    <2>2. /\ \E b : /\ Sound(u, waiting, b, {w} \ {w})
                    /\ \A y \in Tags : b[y] = a[y] \/ (a[y] = "row" /\ b[y] = "nand")
          /\ u.held = v.held
        BY <1>6, <2>1, ReleaseAllSound
    <2>3. PICK b : /\ Sound(u, waiting, b, {w} \ {w})
                   /\ \A y \in Tags : b[y] = a[y] \/ (a[y] = "row" /\ b[y] = "nand")
        BY <2>2
    <2>4. {w} \ {w} = {}
        OBVIOUS
    <2>5. Settled(b)
        BY <1>8, <2>3 DEF Settled
    <2>6. InOrder(u, waiting)
        BY <2>3, <2>4, <2>5 DEF InOrder
    <2>7. sched' = u
        BY <1>4, <1>9, <2>1
    <2>8. QED
        BY <1>4, <1>7, <2>2, <2>6, <2>7 DEF ReqInv
<1>10. CASE v.nandQ[w] # <<>>
    <2>1. \A y \in Ways : SeenAt(v, y)
        <3>1. \A y \in Ways \ {w} : SeenAt(v, y)
            BY <1>6, SoundFacts
        <3>2. SeenAt(v, w)
            BY <1>10 DEF SeenAt
        <3>3. QED
            BY <3>1, <3>2
    <2>2. Sound(v, waiting, a, {})
        BY <1>6, <2>1 DEF Sound
    <2>3. InOrder(v, waiting)
        BY <1>8, <2>2 DEF InOrder
    <2>4. sched' = v
        BY <1>4, <1>10
    <2>5. QED
        BY <1>4, <1>7, <2>3, <2>4 DEF ReqInv
<1>11. QED
    BY <1>9, <1>10

(* Between calls nothing is held. *)
LEMMA IdleFacts ==
    ASSUME ReqInv, Idle
    PROVE  InOrder(sched, NoTag) /\ FtlOK(ftl) /\ Len(sched.held) = 0
<1>1. work = <<>> /\ waiting = NoTag
    BY DEF Idle
<1>2. PICK h : /\ h \in [0 .. Len(work) -> Nat]
               /\ h[0] = Len(sched.held) /\ h[Len(work)] = 0
    BY DEF ReqInv, Takes
<1>3. Len(work) = 0
    BY <1>1
<1>4. QED
    BY <1>1, <1>2, <1>3 DEF ReqInv

LEMMA SliceHitInv ==
    ASSUME ReqInv, NEW e \in Bufs, NEW c \in DmaCodes, SliceHit(e, c)
    PROVE  ReqInv'
<1>1. InOrder(sched, NoTag) /\ FtlOK(ftl) /\ Len(sched.held) = 0
    BY IdleFacts DEF SliceHit
<1>2. PICK d : d = Dma(c, e)
    OBVIOUS
<1>3. PICK y : y = (ftl.dirty[e] \/ c = "RxDMA")
    OBVIOUS
<1>4. Run(sched, <<Hold, d>>) /\ ftl' = [ftl EXCEPT !.dirty[e] = y]
    BY <1>2, <1>3 DEF SliceHit
<1>5. y \in BOOLEAN
    BY <1>3
<1>6. FtlOK(ftl')
    BY <1>1, <1>4, <1>5, DirtyOK
<1>7. Takes(<<Hold, d>>, 0, 0)
    <2>1. d \in Callable /\ Weight(d) = -1
        BY <1>2, DmaOK
    <2>2. Takes(<<Hold>>, 0, 1)
        <3>1. 0 + 1 = 1 /\ 0 \in Nat
            OBVIOUS
        <3>2. QED
            BY <3>1, TakesHold
    <2>3. 0 = 1 + Weight(d) /\ 0 \in Nat /\ 1 \in Nat
        BY <2>1
    <2>4. Takes(Append(<<Hold>>, d), 0, 0)
        BY <2>1, <2>2, <2>3, TakesAppend
    <2>5. Append(<<Hold>>, d) = <<Hold, d>>
        <3>1. PICK p, q : p = Append(<<Hold>>, d) /\ q = <<Hold, d>>
            OBVIOUS
        <3>2. <<Hold>> \in Seq(Callable) /\ Len(<<Hold>>) = 1 /\ <<Hold>>[1] = Hold
            BY WeightFact
        <3>3. p \in Seq(Callable) /\ Len(p) = 2 /\ p[1] = Hold /\ p[2] = d
            BY <2>1, <3>1, <3>2, AppendProperties
        <3>4. q \in Seq(Callable) /\ Len(q) = 2 /\ q[1] = Hold /\ q[2] = d
            BY <2>1, <3>1, WeightFact
        <3>5. \A k \in 1 .. 2 : k = 1 \/ k = 2
            OBVIOUS
        <3>6. p = q
            BY <3>3, <3>4, <3>5, SeqEqual
        <3>7. QED
            BY <3>1, <3>6
    <2>6. QED
        BY <2>4, <2>5
<1>8. QED
    BY <1>1, <1>4, <1>6, <1>7, RunInv

LEMMA SliceMissInv ==
    ASSUME ReqInv, NEW e \in Bufs, NEW c \in DmaCodes, SliceMiss(e, c)
    PROVE  ReqInv'
<1>1. InOrder(sched, NoTag) /\ FtlOK(ftl) /\ Len(sched.held) = 0
    BY IdleFacts DEF SliceMiss
<1>2. PICK d : d = Dma(c, e)
    OBVIOUS
<1>3. PICK y \in BOOLEAN : y = (c = "RxDMA")
    OBVIOUS
<1>4. PICK ev \in Evictions(e) :
        /\ \E fill \in {<<>>} \cup {<<r>> : r \in Reads(ev.next, e)} :
               Run(sched, <<Hold>> \o ev.reqs \o fill \o <<d>>)
        /\ ftl' = [ev.next EXCEPT !.dirty[e] = y]
    BY <1>2, <1>3 DEF SliceMiss
<1>5. PICK fill \in {<<>>} \cup {<<r>> : r \in Reads(ev.next, e)} :
          Run(sched, <<Hold>> \o ev.reqs \o fill \o <<d>>)
    BY <1>4
<1>6. FtlOK(ev.next) /\ Takes(ev.reqs, 1, 1)
    BY <1>1, EvictionsOK
<1>7. FtlOK(ftl')
    BY <1>4, <1>6, DirtyOK
<1>8. Takes(fill, 1, 1)
    <2>1. CASE fill = <<>>
        BY <2>1, TakesNone
    <2>2. ASSUME NEW r \in Reads(ev.next, e), fill = <<r>> PROVE Takes(fill, 1, 1)
        <3>1. r \in Callable /\ Weight(r) = 0
            BY <1>6, ReadsOK DEF FtlOK
        <3>2. 1 \in Nat /\ 1 = 1 + Weight(r)
            BY <3>1
        <3>3. QED
            BY <2>2, <3>1, <3>2, TakesOne
    <2>3. QED
        BY <2>1, <2>2
<1>9. Takes(<<Hold>>, 0, 1)
    <2>1. 0 + 1 = 1 /\ 0 \in Nat
        OBVIOUS
    <2>2. QED
        BY <2>1, TakesHold
<1>10. Takes(<<d>>, 1, 0)
    <2>1. d \in Callable /\ Weight(d) = -1
        BY <1>2, DmaOK
    <2>2. 0 = 1 + Weight(d) /\ 0 \in Nat /\ 1 \in Nat
        BY <2>1
    <2>3. QED
        BY <2>1, <2>2, TakesOne
<1>11. Takes(<<Hold>> \o ev.reqs, 0, 1)
    BY <1>6, <1>9, TakesConcat
<1>12. Takes(<<Hold>> \o ev.reqs \o fill, 0, 1)
    BY <1>8, <1>11, TakesConcat
<1>13. Takes(<<Hold>> \o ev.reqs \o fill \o <<d>>, 0, 0)
    BY <1>10, <1>12, TakesConcat
<1>14. QED
    BY <1>1, <1>5, <1>7, <1>13, RunInv

LEMMA CxlLoadInv ==
    ASSUME ReqInv, NEW e \in Bufs, CxlLoad(e)
    PROVE  ReqInv'
<1>1. InOrder(sched, NoTag) /\ FtlOK(ftl) /\ Len(sched.held) = 0
    BY IdleFacts DEF CxlLoad
<1>2. PICK ev \in Evictions(e), r \in Reads(ftl, e), y \in BOOLEAN :
        /\ Run(sched, ev.reqs \o <<r, Sync>>)
        /\ ftl' = [ev.next EXCEPT !.dirty[e] = y]
    BY DEF CxlLoad
<1>3. FtlOK(ev.next) /\ Takes(ev.reqs, 0, 0)
    BY <1>1, EvictionsOK
<1>4. FtlOK(ftl')
    BY <1>2, <1>3, DirtyOK
<1>5. Takes(<<r, Sync>>, 0, 0)
    <2>1. r \in Callable /\ Weight(r) = 0
        BY <1>1, ReadsOK DEF FtlOK
    <2>2. PICK q : q = <<r, Sync>>
        OBVIOUS
    <2>3. /\ q \in Seq(Callable) /\ Len(q) = 2 /\ q[1] = r /\ q[2] = Sync
        BY <2>1, <2>2, WeightFact
    <2>4. \A k \in 1 .. Len(q) : Weight(q[k]) = 0
        <3>1. \A k \in 1 .. 2 : k = 1 \/ k = 2
            OBVIOUS
        <3>2. QED
            BY <2>1, <2>3, <3>1, WeightFact
    <2>5. Takes(q, 0, 0)
        BY <2>3, <2>4, TakesNothing
    <2>6. QED
        BY <2>2, <2>5
<1>6. Takes(ev.reqs \o <<r, Sync>>, 0, 0)
    BY <1>3, <1>5, TakesConcat
<1>7. QED
    BY <1>1, <1>2, <1>4, <1>6, RunInv

(* The wait for all requests needs no tag. *)
LEMMA TakesSync == Takes(<<Sync>>, 0, 0)
<1>1. 0 = 0 + Weight(Sync) /\ 0 \in Nat
    BY WeightFact
<1>2. QED
    BY <1>1, WeightFact, TakesOne

LEMMA FlushEntryInv ==
    ASSUME ReqInv, NEW e \in Bufs, FlushEntry(e)
    PROVE  ReqInv'
<1>1. InOrder(sched, NoTag) /\ FtlOK(ftl) /\ Len(sched.held) = 0
    BY IdleFacts DEF FlushEntry
<1>2. PICK ev \in Evictions(e) :
        /\ Run(sched, ev.reqs \o <<Sync>>)
        /\ ftl' = [ev.next EXCEPT !.dirty[e] = FALSE]
    BY DEF FlushEntry
<1>3. FtlOK(ev.next) /\ Takes(ev.reqs, 0, 0)
    BY <1>1, EvictionsOK
<1>4. FtlOK(ftl')
    BY <1>2, <1>3, DirtyOK
<1>5. Takes(ev.reqs \o <<Sync>>, 0, 0)
    BY <1>3, TakesSync, TakesConcat
<1>6. QED
    BY <1>1, <1>2, <1>4, <1>5, RunInv

(* A page that is written without an entry is written on some way, after   *)
(* its read or without one.                                                *)
LEMMA AllowedWritesFact ==
    ASSUME NEW e, NEW ev \in AllowedWrites(e)
    PROVE  \E w \in Ways : ev \in Writes(w, e)
BY DEF AllowedWrites

(* What precedes such a write. *)
PageReads == {<<>>} \cup {<<r, Sync>> : r \in Reads(ftl, NoEntry)}

LEMMA PageReadsFact ==
    ASSUME NEW read \in PageReads
    PROVE  read = <<>> \/ \E r \in Reads(ftl, NoEntry) : read = <<r, Sync>>
BY Zenon DEF PageReads

LEMMA PageWriteFact ==
    ASSUME PageWrite
    PROVE  /\ Idle
           /\ \E read \in PageReads, ev \in AllowedWrites(NoEntry) :
                  Run(sched, read \o ev.reqs \o <<Sync>>) /\ ftl' = ev.next
           /\ UNCHANGED flash
BY Zenon DEF PageWrite, PageReads

LEMMA PageWriteInv == ReqInv /\ PageWrite => ReqInv'
<1> SUFFICES ASSUME ReqInv, PageWrite PROVE ReqInv'
    OBVIOUS
<1>1. InOrder(sched, NoTag) /\ FtlOK(ftl) /\ Len(sched.held) = 0
    BY IdleFacts DEF PageWrite
<1>2. PICK read \in PageReads, ev \in AllowedWrites(NoEntry) :
          Run(sched, read \o ev.reqs \o <<Sync>>) /\ ftl' = ev.next
    BY PageWriteFact
<1>3. PICK w \in Ways : ev \in Writes(w, NoEntry)
    BY <1>2, AllowedWritesFact
<1>4. FtlOK(ftl') /\ Takes(ev.reqs, 0, 0)
    <2>1. NoEntry \in Bufs \cup {NoEntry}
        OBVIOUS
    <2>2. FtlOK(ev.next) /\ \A n \in Nat : Takes(ev.reqs, n, n)
        BY <1>1, <1>3, <2>1, WritesOK, Zenon
    <2>3. QED
        BY <1>2, <2>2
<1>5. Takes(read, 0, 0)
    <2>1. CASE read = <<>>
        BY <2>1, TakesNone
    <2>2. ASSUME NEW r \in Reads(ftl, NoEntry), read = <<r, Sync>> PROVE Takes(read, 0, 0)
        <3>1. r \in Callable /\ Weight(r) = 0
            BY <1>1, ReadsOK DEF FtlOK
        <3>2. read \in Seq(Callable) /\ Len(read) = 2 /\ read[1] = r /\ read[2] = Sync
            BY <2>2, <3>1, WeightFact
        <3>3. \A k \in 1 .. Len(read) : Weight(read[k]) = 0
            <4>1. \A k \in 1 .. 2 : k = 1 \/ k = 2
                OBVIOUS
            <4>2. QED
                BY <3>1, <3>2, <4>1, WeightFact
        <3>4. QED
            BY <3>2, <3>3, TakesNothing
    <2>3. QED
        BY <2>1, <2>2, PageReadsFact
<1>6. Takes(read \o ev.reqs \o <<Sync>>, 0, 0)
    BY <1>4, <1>5, TakesSync, TakesConcat
<1>7. QED
    BY <1>1, <1>2, <1>4, <1>6, RunInv

(* The scheduler's invariant: what each step of it leaves in order. *)
THEOREM ReqInvariant == Spec => []ReqInv
<1>1. ReqInv /\ [Next]_vars => ReqInv'
    <2>1. SUFFICES ASSUME ReqInv, [Next]_vars PROVE ReqInv'
        OBVIOUS
    <2>2. CASE TagFreed
        BY <2>1, <2>2, TagFreedInv
    <2>3. CASE EraseReleased
        BY <2>1, <2>3, EraseReleasedInv
    <2>4. CASE AllDone
        BY <2>1, <2>4, AllDoneInv
    <2>5. ASSUME NEW done, DmaDone(done) PROVE ReqInv'
        BY <2>1, <2>5, DmaDoneInv
    <2>6. ASSUME NEW w \in Ways, NandDone(w) PROVE ReqInv'
        BY <2>1, <2>6, NandDoneInv
    <2>7. ASSUME NEW e \in Bufs, NEW c \in DmaCodes, SliceHit(e, c) PROVE ReqInv'
        BY <2>1, <2>7, SliceHitInv
    <2>8. ASSUME NEW e \in Bufs, NEW c \in DmaCodes, SliceMiss(e, c) PROVE ReqInv'
        BY <2>1, <2>8, SliceMissInv
    <2>9. ASSUME NEW e \in Bufs, CxlLoad(e) PROVE ReqInv'
        BY <2>1, <2>9, CxlLoadInv
    <2>10. ASSUME NEW e \in Bufs, FlushEntry(e) PROVE ReqInv'
        BY <2>1, <2>10, FlushEntryInv
    <2>11. CASE PageWrite
        BY <2>1, <2>11, PageWriteInv
    <2>12. CASE UNCHANGED vars
        BY <2>1, <2>12 DEF vars, ReqInv
    <2>13. QED
        BY <2>1, <2>2, <2>3, <2>4, <2>5, <2>6, <2>7, <2>8, <2>9, <2>10, <2>11, <2>12 DEF Next
<1>2. QED
    BY <1>1, InitReqInv, PTL DEF Spec
-----------------------------------------------------------------------------
(* What follows from the invariant *)

(* The queues hold the tags at their places. *)
LEMMA PartsFact ==
    ASSUME NEW at, Sound(sched, waiting, at, {})
    PROVE  /\ sched.free = At(at, "free") /\ Range(sched.held) = At(at, "held")
           /\ InNandQ = At(at, "nand") /\ InRowQ = At(at, "row")
           /\ Range(sched.dmaQ) = At(at, "dma") /\ sched.bufQ = At(at, "buf")
           /\ {waiting} \ {NoTag} = At(at, "wait")
<1>1. Core(sched, waiting, at) /\ Fitting(sched, at)
    BY SoundFacts, CoreFacts
<1>2. /\ sched.free = At(at, "free") /\ Range(sched.held) = At(at, "held")
      /\ Range(sched.dmaQ) = At(at, "dma") /\ sched.bufQ = At(at, "buf")
      /\ {waiting} \ {NoTag} = At(at, "wait")
    BY <1>1, CoreFacts DEF Lists
<1>3. \A w \in Ways : /\ Range(sched.nandQ[w]) = OnWay(sched.req, at, "nand", w)
                      /\ Range(sched.rowQ[w]) = OnWay(sched.req, at, "row", w)
    BY <1>1, CoreFacts DEF Lists
<1>4. \A t \in Tags : at[t] \in {"nand", "row"} => WayOf[sched.req[t].block] \in Ways
    BY <1>1, WayOfFact DEF Fitting, NandReq
<1>5. InNandQ = At(at, "nand") /\ InRowQ = At(at, "row")
    <2>1. ASSUME NEW t PROVE t \in InNandQ <=> t \in At(at, "nand")
        BY <1>3, <1>4 DEF InNandQ, OnWay, At
    <2>2. ASSUME NEW t PROVE t \in InRowQ <=> t \in At(at, "row")
        BY <1>3, <1>4 DEF InRowQ, OnWay, At
    <2>3. QED
        BY <2>1, <2>2
<1>6. QED
    BY <1>2, <1>5

LEMMA AtMostTags ==
    ASSUME NEW x \in SUBSET Tags
    PROVE  Cardinality(x) \in 0 .. NumTags
<1>1. NumTags \in Nat \ {0}
    BY ReqSizesAssumption DEF ReqSizesAssumption
<1>2. Cardinality(Tags) = NumTags
    BY <1>1, FS_Interval DEF Tags
<1>3. Cardinality(x) \in Nat /\ Cardinality(x) <= Cardinality(Tags)
    BY TagFact, FS_Subset, SetCount
<1>4. QED
    BY <1>1, <1>2, <1>3

LEMMA TypeHolds == ReqInv => TypeOK
<1>1. SUFFICES ASSUME ReqInv PROVE TypeOK
    OBVIOUS
<1>2. PICK at : Sound(sched, waiting, at, {}) /\ Settled(at)
    BY <1>1 DEF ReqInv, InOrder
<1>3. /\ sched \in Shape /\ Core(sched, waiting, at) /\ ReadsCounted(sched, at)
    BY <1>2, SoundFacts
<1>4. sched.notCompleted \in 0 .. NumTags /\ sched.blocked \in 0 .. NumTags
    <2>1. At(at, "nand") \in SUBSET Tags /\ At(at, "row") \cup At(at, "buf") \in SUBSET Tags
        BY DEF At
    <2>2. Counted(sched, at)
        BY <1>3, CoreFacts
    <2>3. QED
        BY <2>1, <2>2, AtMostTags DEF Counted
<1>5. sched.blockedReads \in [Blocks -> 0 .. NumTags]
    <2>1. sched.blockedReads \in [Blocks -> Int]
        BY <1>3 DEF Shape
    <2>2. ASSUME NEW b \in Blocks PROVE sched.blockedReads[b] \in 0 .. NumTags
        <3>1. ReadsOf(sched.req, at, b) \in SUBSET Tags
            BY DEF ReadsOf
        <3>2. QED
            BY <1>3, <3>1, AtMostTags DEF ReadsCounted
    <2>3. QED
        BY <2>1, <2>2
<1>6. waiting \in Tags \cup {NoTag}
    BY <1>2, PartsFact DEF At
<1>7. QED
    BY <1>3, <1>4, <1>5, <1>6 DEF TypeOK, Shape

LEMMA QueuedOnceHolds == ReqInv => EachQueuedOnce
<1>1. SUFFICES ASSUME ReqInv PROVE EachQueuedOnce
    OBVIOUS
<1>2. PICK at : Sound(sched, waiting, at, {}) /\ Settled(at)
    BY <1>1 DEF ReqInv, InOrder
<1>3. at \in [Tags -> Places] /\ Counted(sched, at)
    <2>1. at \in [Tags -> Places] /\ Core(sched, waiting, at)
        BY <1>2, SoundFacts
    <2>2. QED
        BY <2>1, CoreFacts
<1>4. PICK parts : parts = <<sched.free, InNandQ, InRowQ, Range(sched.dmaQ), sched.bufQ,
                             Range(sched.held), {waiting} \ {NoTag}>>
    OBVIOUS
<1>5. /\ DOMAIN parts = 1 .. 7
      /\ parts[1] = At(at, "free") /\ parts[2] = At(at, "nand") /\ parts[3] = At(at, "row")
      /\ parts[4] = At(at, "dma") /\ parts[5] = At(at, "buf")
      /\ parts[6] = At(at, "held") /\ parts[7] = At(at, "wait")
    BY <1>2, <1>4, PartsFact
<1>6. ASSUME NEW t \in Tags PROVE Cardinality({k \in DOMAIN parts : t \in parts[k]}) = 1
    <2>1. at[t] \in {"free", "nand", "row", "dma", "buf", "held", "wait"}
        BY <1>2, <1>3 DEF Settled, Places
    <2>2. \A k \in 1 .. 7 : \/ k = 1 \/ k = 2 \/ k = 3 \/ k = 4 \/ k = 5 \/ k = 6 \/ k = 7
        OBVIOUS
    <2>3. \E i \in 1 .. 7 : \A k \in 1 .. 7 : t \in parts[k] <=> k = i
        <3>1. CASE at[t] = "free"
            <4>1. \A k \in 1 .. 7 : t \in parts[k] <=> k = 1
                BY <1>5, <2>2, <3>1 DEF At
            <4>2. QED
                BY <4>1
        <3>2. CASE at[t] = "nand"
            <4>1. \A k \in 1 .. 7 : t \in parts[k] <=> k = 2
                BY <1>5, <2>2, <3>2 DEF At
            <4>2. QED
                BY <4>1
        <3>3. CASE at[t] = "row"
            <4>1. \A k \in 1 .. 7 : t \in parts[k] <=> k = 3
                BY <1>5, <2>2, <3>3 DEF At
            <4>2. QED
                BY <4>1
        <3>4. CASE at[t] = "dma"
            <4>1. \A k \in 1 .. 7 : t \in parts[k] <=> k = 4
                BY <1>5, <2>2, <3>4 DEF At
            <4>2. QED
                BY <4>1
        <3>5. CASE at[t] = "buf"
            <4>1. \A k \in 1 .. 7 : t \in parts[k] <=> k = 5
                BY <1>5, <2>2, <3>5 DEF At
            <4>2. QED
                BY <4>1
        <3>6. CASE at[t] = "held"
            <4>1. \A k \in 1 .. 7 : t \in parts[k] <=> k = 6
                BY <1>5, <2>2, <3>6 DEF At
            <4>2. QED
                BY <4>1
        <3>7. CASE at[t] = "wait"
            <4>1. \A k \in 1 .. 7 : t \in parts[k] <=> k = 7
                BY <1>5, <2>2, <3>7 DEF At
            <4>2. QED
                BY <4>1
        <3>8. QED
            BY <2>1, <3>1, <3>2, <3>3, <3>4, <3>5, <3>6, <3>7
    <2>4. PICK i \in 1 .. 7 : \A k \in 1 .. 7 : t \in parts[k] <=> k = i
        BY <2>3
    <2>5. {k \in DOMAIN parts : t \in parts[k]} = {i}
        BY <1>5, <2>4
    <2>6. QED
        BY <2>5, FS_Singleton
<1>7. sched.notCompleted = Cardinality(parts[2]) /\ sched.blocked = Cardinality(parts[3] \cup parts[5])
    BY <1>3, <1>5 DEF Counted
<1>8. QED
    BY <1>4, <1>6, <1>7 DEF EachQueuedOnce

LEMMA ReadsCountedHolds == ReqInv => BlockedReadsCounted
<1>1. SUFFICES ASSUME ReqInv PROVE BlockedReadsCounted
    OBVIOUS
<1>2. PICK at : Sound(sched, waiting, at, {}) /\ Settled(at)
    BY <1>1 DEF ReqInv, InOrder
<1>3. InRowQ = At(at, "row") /\ sched.bufQ = At(at, "buf")
    BY <1>2, PartsFact
<1>4. ReadsCounted(sched, at)
    BY <1>2, SoundFacts
<1>5. ASSUME NEW b \in Blocks
      PROVE  {t \in {u \in InRowQ \cup sched.bufQ : sched.req[u].code = "READ"} :
                  sched.req[t].block = b} = ReadsOf(sched.req, at, b)
    BY <1>3 DEF ReadsOf, At
<1>6. QED
    BY <1>4, <1>5 DEF BlockedReadsCounted, ReadsCounted

LEMMA ExclusiveHolds == ReqInv => EntryExclusive
<1>1. SUFFICES ASSUME ReqInv PROVE EntryExclusive
    OBVIOUS
<1>2. PICK at : Sound(sched, waiting, at, {}) /\ Settled(at)
    BY <1>1 DEF ReqInv, InOrder
<1>3. Chained(sched, at)
    BY <1>2, SoundFacts
<1>4. /\ InNandQ = At(at, "nand") /\ InRowQ = At(at, "row") /\ Range(sched.dmaQ) = At(at, "dma")
    BY <1>2, PartsFact
<1>5. ASSUME NEW e \in Entries, NEW x,
             x = {t \in GivenOut : sched.req[t].entry = e}
      PROVE  Cardinality(x) <= 1
    <2>1. \A t \in x : /\ t \in Tags /\ at[t] \in {"nand", "row", "dma"}
                       /\ sched.req[t].entry = e
        BY <1>4, <1>5 DEF At, GivenOut
    <2>2. \A t \in x : Live(at[t]) /\ sched.prevBlocking[t] = NoTag
        BY <1>3, <2>1 DEF Chained, HeadsReleased, Live
    <2>3. \A t, u \in x : t = u
        BY <1>3, <2>1, <2>2 DEF Chained, OneHead
    <2>4. x = {} \/ \E t : x = {t}
        BY <2>3
    <2>5. CASE x = {}
        <3>1. Cardinality(x) = 0
            BY <2>5, FS_EmptySet
        <3>2. QED
            BY <3>1
    <2>6. ASSUME NEW t, x = {t} PROVE Cardinality(x) <= 1
        <3>1. Cardinality({t}) = 1
            BY FS_Singleton
        <3>2. QED
            BY <2>6, <3>1
    <2>7. QED
        BY <2>4, <2>5, <2>6
<1>6. QED
    BY <1>5 DEF EntryExclusive

LEMMA NoneForgottenHolds == ReqInv => NoneForgotten
<1>1. SUFFICES ASSUME ReqInv PROVE NoneForgotten
    OBVIOUS
<1>2. PICK at : Sound(sched, waiting, at, {}) /\ Settled(at)
    BY <1>1 DEF ReqInv, InOrder
<1>3. \A w \in Ways : SeenAt(sched, w)
    BY <1>2, SoundFacts
<1>4. QED
    BY <1>3 DEF NoneForgotten, SeenAt

(* The types of the scheduler's tables and counters. *)
THEOREM ReqTypeCorrect == Spec => []TypeOK
BY ReqInvariant, TypeHolds, PTL

(* Every request out of the pool is in one queue or is the one that waits, *)
(* and the counters SyncAllLowLevelReqDone reads are what is queued.       *)
THEOREM EachQueuedOnceCorrect == Spec => []EachQueuedOnce
BY ReqInvariant, QueuedOnceHolds, PTL

(* blockedReadReqCnt, for which an erase waits, is the number of reads of  *)
(* the block that are queued blocked.                                      *)
THEOREM BlockedReadsCorrect == Spec => []BlockedReadsCounted
BY ReqInvariant, ReadsCountedHolds, PTL

(* Of the requests that share a buffer entry one at most is let go.        *)
THEOREM EntryExclusiveCorrect == Spec => []EntryExclusive
BY ReqInvariant, ExclusiveHolds, PTL

(* No request that could go is left blocked on a way with nothing to do.   *)
THEOREM NoneForgottenCorrect == Spec => []NoneForgotten
BY ReqInvariant, NoneForgottenHolds, PTL
=============================================================================
