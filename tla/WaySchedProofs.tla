--------------------------- MODULE WaySchedProofs ---------------------------
(***************************************************************************)
(* Proofs about WaySched for any number of ways, any load, any limit of    *)
(* retries and any queue depth of the controller.  The layers are: types;  *)
(* where each way is, and what it needs there (WayInv); and what the       *)
(* controller holds for it (HeldInv), from which it follows what can be    *)
(* said of a request when it leaves its queue.                             *)
(***************************************************************************)
EXTENDS WaySched, SequenceTheorems, FiniteSetTheorems, WellFoundedInduction, TLAPS

Req == [code : Codes, ecc : BOOLEAN, warn : BOOLEAN, block : Nat, tries : Nat]
Checks == {"NONE", "CHECK", "REPORT", "COMPLETION_FLAG"}
Die == [state : {"IDLE", "EXE"}, check : Checks, retry : Int]
Commands == FlashOps \cup {"STATUS", "TRANSFER"}
Chip == [cmds : Seq(Commands), running : BOOLEAN, failed : BOOLEAN]
Answer == [report : {"none", "running", "pass", "fail"}, flag : BOOLEAN,
           errorInfo : {"good", "worn", "bad"}]

Types ==
    /\ pc \in {"rest", "idle", "report", "statusCheck"} \cup IssueLists
    /\ cur \in Ways \cup {NoWay}
    /\ lists \in [ListNames -> Seq(Ways)]
    /\ die \in [Ways -> Die]
    /\ queue \in [Ways -> Seq(Req)]
    /\ todo \in [Ways -> Seq(Req)]
    /\ hw \in [Ways -> Chip]
    /\ mem \in [Ways -> Answer]
-----------------------------------------------------------------------------
(* Facts about sequences *)

(* What is left of a sequence without its k-th element. *)
LEMMA RemoveAtFact ==
    ASSUME NEW S, NEW s \in Seq(S), NEW k \in 1 .. Len(s)
    PROVE  /\ RemoveAt(s, k) \in Seq(S)
           /\ Len(RemoveAt(s, k)) = Len(s) - 1
           /\ \A j \in 1 .. Len(s) - 1 :
                  RemoveAt(s, k)[j] = IF j < k THEN s[j] ELSE s[j + 1]
<1> DEFINE front == SubSeq(s, 1, k - 1)
           back == SubSeq(s, k + 1, Len(s))
<1>1. Len(s) \in Nat
    OBVIOUS
<1>2. \A i \in 1 .. Len(s) : s[i] \in S
    OBVIOUS
<1>3. /\ front \in Seq(S)
      /\ Len(front) = k - 1
      /\ \A i \in 1 .. k - 1 : front[i] = s[i]
    BY <1>1, <1>2, SubSeqProperties
<1>4. /\ back \in Seq(S)
      /\ Len(back) = Len(s) - k
      /\ \A i \in 1 .. Len(s) - k : back[i] = s[k + i]
    <2>1. \A i \in k + 1 .. Len(s) : s[i] \in S
        BY <1>1, <1>2
    <2>2. QED
        BY <1>1, <2>1, SubSeqProperties
<1>5. RemoveAt(s, k) = front \o back
    BY DEF RemoveAt
<1> HIDE DEF front, back
<1>6. /\ front \o back \in Seq(S)
      /\ Len(front \o back) = Len(front) + Len(back)
      /\ \A i \in 1 .. Len(front) + Len(back) :
             (front \o back)[i] = IF i <= Len(front) THEN front[i]
                                  ELSE back[i - Len(front)]
    BY <1>3, <1>4, ConcatProperties
<1>7. QED
    BY <1>1, <1>3, <1>4, <1>5, <1>6

(* A sequence in which nothing is twice. *)
Once(s) == \A i, j \in DOMAIN s : s[i] = s[j] => i = j

(* Without its k-th element it has one element less. *)
LEMMA OnceRemoveAt ==
    ASSUME NEW S, NEW s \in Seq(S), NEW k \in 1 .. Len(s), Once(s)
    PROVE  /\ RemoveAt(s, k) \in Seq(S)
           /\ Once(RemoveAt(s, k))
           /\ Range(RemoveAt(s, k)) = Range(s) \ {s[k]}
<1> DEFINE r == RemoveAt(s, k)
           x == s[k]
<1>1. Len(s) \in Nat /\ DOMAIN s = 1 .. Len(s)
    OBVIOUS
<1>2. /\ r \in Seq(S)
      /\ Len(r) = Len(s) - 1
      /\ \A j \in 1 .. Len(s) - 1 : r[j] = IF j < k THEN s[j] ELSE s[j + 1]
    BY RemoveAtFact
<1> HIDE DEF r
<1>3. DOMAIN r = 1 .. Len(s) - 1
    BY <1>2
<1>4. Once(r)
    <2>1. SUFFICES ASSUME NEW i \in DOMAIN r, NEW j \in DOMAIN r, r[i] = r[j]
                   PROVE  i = j
        BY DEF Once
    <2>2. \A m, n \in 1 .. Len(s) : s[m] = s[n] => m = n
        BY <1>1 DEF Once
    <2>3. QED
        BY <1>1, <1>2, <1>3, <2>1, <2>2
<1>5. Range(r) \subseteq Range(s) \ {x}
    <2>1. SUFFICES ASSUME NEW j \in DOMAIN r PROVE r[j] \in Range(s) \ {x}
        BY DEF Range
    <2>2. CASE j < k
        BY <1>1, <1>2, <1>3, <2>1, <2>2 DEF Once, Range
    <2>3. CASE ~ (j < k)
        BY <1>1, <1>2, <1>3, <2>1, <2>3 DEF Once, Range
    <2>4. QED
        BY <2>2, <2>3
<1>6. Range(s) \ {x} \subseteq Range(r)
    <2>1. SUFFICES ASSUME NEW i \in DOMAIN s, s[i] # x PROVE s[i] \in Range(r)
        BY DEF Range
    <2>2. CASE i < k
        <3>1. i \in DOMAIN r /\ r[i] = s[i]
            BY <1>1, <1>2, <1>3, <2>1, <2>2
        <3>2. QED
            BY <3>1 DEF Range
    <2>3. CASE i > k
        <3>1. i - 1 \in DOMAIN r /\ r[i - 1] = s[i]
            BY <1>1, <1>2, <1>3, <2>1, <2>3
        <3>2. QED
            BY <3>1 DEF Range
    <2>4. QED
        BY <1>1, <2>1, <2>2, <2>3
<1>7. QED
    BY <1>2, <1>4, <1>5, <1>6 DEF r

(* A new element at its end leaves nothing twice. *)
LEMMA OnceAppend ==
    ASSUME NEW S, NEW s \in Seq(S), NEW x \in S \ Range(s), Once(s)
    PROVE  /\ Append(s, x) \in Seq(S)
           /\ Once(Append(s, x))
           /\ Range(Append(s, x)) = Range(s) \cup {x}
<1>1. /\ Append(s, x) \in Seq(S)
      /\ DOMAIN Append(s, x) = 1 .. Len(s) + 1
      /\ \A i \in 1 .. Len(s) : Append(s, x)[i] = s[i]
      /\ Append(s, x)[Len(s) + 1] = x
    BY AppendProperties
<1>2. Len(s) \in Nat /\ DOMAIN s = 1 .. Len(s)
    OBVIOUS
<1>3. \A i \in 1 .. Len(s) : s[i] # x
    BY <1>2 DEF Range
<1>4. Once(Append(s, x))
    BY <1>1, <1>2, <1>3 DEF Once
<1>5. Range(Append(s, x)) = Range(s) \cup {x}
    BY <1>1, <1>2 DEF Range
<1>6. QED
    BY <1>1, <1>4, <1>5

(* A sequence in which nothing is twice has as many elements as it is long.*)
LEMMA OnceCount ==
    ASSUME NEW S, NEW s \in Seq(S), Once(s)
    PROVE  IsFiniteSet(Range(s)) /\ Cardinality(Range(s)) = Len(s)
<1> DEFINE T == 1 .. Len(s)
<1>1. Len(s) \in Nat /\ DOMAIN s = T
    OBVIOUS
<1>2. IsFiniteSet(T) /\ Cardinality(T) = Len(s)
    BY <1>1, FS_Interval
<1> HIDE DEF T
<1>3. s \in [T -> Range(s)]
    BY <1>1 DEF Range
<1>4. s \in Bijection(T, Range(s))
    <2>1. \A i, j \in T : s[i] = s[j] => i = j
        BY <1>1 DEF Once
    <2>2. \A x \in Range(s) : \E i \in T : s[i] = x
        BY <1>1 DEF Range
    <2>3. s \in Injection(T, Range(s))
        BY <1>3, <2>1 DEF Injection, IsInjective
    <2>4. s \in Surjection(T, Range(s))
        BY <1>3, <2>2 DEF Surjection
    <2>5. QED
        BY <2>3, <2>4 DEF Bijection
<1>5. ExistsBijection(T, Range(s))
    BY <1>4 DEF ExistsBijection
<1>6. QED
    BY <1>2, <1>5, FS_Bijection

(* Induction up to n, for sets. *)
LEMMA UpTo ==
    ASSUME NEW n \in Nat, NEW K, 0 \in K,
           \A k \in 0 .. n : k # n /\ k \in K => k + 1 \in K
    PROVE  \A k \in 0 .. n : k \in K
<1> DEFINE R == OpToRel(<, Nat)
           U == (0 .. n) \ K
<1>1. IsWellFoundedOn(R, Nat)
    BY NatLessThanWellFounded
<1>2. \A i, j \in Nat : i < j => <<i, j>> \in R
    BY DEF OpToRel
<1> HIDE DEF R
<1>3. SUFFICES ASSUME U # {} PROVE FALSE
    OBVIOUS
<1>4. PICK u \in U : \A w \in U : ~ (<<w, u>> \in R)
    <2>1. U \subseteq Nat
        OBVIOUS
    <2> HIDE DEF U
    <2>2. QED
        BY <1>1, <1>3, <2>1, WFMin
<1>5. u \in 0 .. n /\ u # 0 /\ u - 1 \in 0 .. n /\ u - 1 # n /\ u - 1 < u
    OBVIOUS
<1>6. u - 1 \notin U
    <2>1. <<u - 1, u>> \in R
        BY <1>2, <1>5
    <2>2. QED
        BY <1>4, <2>1
<1>7. (u - 1) + 1 \in K
    BY <1>5, <1>6
<1>8. QED
    BY <1>5, <1>7

LEMMA PlaceFact ==
    ASSUME NEW q \in Seq(Ways), NEW w \in Range(q)
    PROVE  Place(q, w) \in 1 .. Len(q) /\ q[Place(q, w)] = w
BY DEF Place, Range

LEMMA TakeFact ==
    ASSUME NEW q \in Seq(Ways), NEW w \in Range(q), Once(q)
    PROVE  /\ RemoveAt(q, Place(q, w)) \in Seq(Ways)
           /\ Once(RemoveAt(q, Place(q, w)))
           /\ Range(RemoveAt(q, Place(q, w))) = Range(q) \ {w}
BY PlaceFact, OnceRemoveAt

(* The ways before and after a way in a list. *)
LEMMA FirstFact ==
    ASSUME NEW q \in Seq(Ways)
    PROVE  First(q) \in Range(q) \cup {NoWay}
BY DEF First, Range

LEMMA AfterFact ==
    ASSUME NEW q \in Seq(Ways), NEW w \in Range(q), Once(q)
    PROVE  After(q, w) \in (Range(q) \ {w}) \cup {NoWay}
<1>1. Place(q, w) \in 1 .. Len(q) /\ q[Place(q, w)] = w
    BY PlaceFact
<1>2. CASE w = Last(q)
    BY <1>2 DEF After
<1>3. CASE w # Last(q)
    <2>1. Len(q) \in Nat /\ DOMAIN q = 1 .. Len(q)
        OBVIOUS
    <2>2. Place(q, w) # Len(q)
        BY <1>1, <1>3 DEF Last
    <2>3. Place(q, w) + 1 \in DOMAIN q
        BY <1>1, <2>1, <2>2
    <2>4. q[Place(q, w) + 1] # w
        BY <1>1, <2>1, <2>3 DEF Once
    <2>5. QED
        BY <1>3, <2>3, <2>4 DEF After, Range
<1>4. QED
    BY <1>2, <1>3
-----------------------------------------------------------------------------
(* Facts about the helpers *)

(* A way that is put from one list on another (or behind itself) is there, *)
(* and every other way is where it was.                                    *)
LEMMA MoveFact ==
    ASSUME lists \in [ListNames -> Seq(Ways)], OnOneList,
           NEW l \in ListNames, NEW m \in ListNames, NEW w \in Range(lists[l]),
           lists' = Put(Get(lists, l, w), m, w)
    PROVE  /\ lists' \in [ListNames -> Seq(Ways)]
           /\ OnOneList'
           /\ \A k \in ListNames \ {m} : Range(lists'[k]) = Range(lists[k]) \ {w}
           /\ Range(lists'[m]) = Range(lists[m]) \cup {w}
<1> DEFINE taken == Get(lists, l, w)
<1>1. \A k \in ListNames : Once(lists[k]) /\ Range(lists[k]) \subseteq Ways
    BY DEF OnOneList, Once, Range
<1>2. w \in Ways
    BY <1>1
<1>3. taken \in [ListNames -> Seq(Ways)]
    BY <1>1, TakeFact DEF Get
<1>4. \A k \in ListNames : Once(taken[k]) /\ Range(taken[k]) = Range(lists[k]) \ {w}
    <2>1. ASSUME NEW k \in ListNames, k # l
          PROVE  taken[k] = lists[k] /\ w \notin Range(lists[k])
        BY <2>1 DEF OnOneList, Get
    <2>2. taken[l] = RemoveAt(lists[l], Place(lists[l], w))
        BY DEF Get
    <2>3. Once(taken[l]) /\ Range(taken[l]) = Range(lists[l]) \ {w}
        BY <1>1, <2>2, TakeFact
    <2>4. QED
        BY <1>1, <2>1, <2>3
<1>5. lists' = [taken EXCEPT ![m] = Append(@, w)]
    BY DEF Put
<1> HIDE DEF taken
<1>6. /\ lists' \in [ListNames -> Seq(Ways)]
      /\ \A k \in ListNames : Once(lists'[k])
      /\ \A k \in ListNames \ {m} : Range(lists'[k]) = Range(lists[k]) \ {w}
      /\ Range(lists'[m]) = Range(lists[m]) \cup {w}
    <2>1. /\ Append(taken[m], w) \in Seq(Ways) /\ Once(Append(taken[m], w))
          /\ Range(Append(taken[m], w)) = Range(taken[m]) \cup {w}
        BY <1>2, <1>3, <1>4, OnceAppend
    <2>2. QED
        BY <1>3, <1>4, <1>5, <2>1
<1>7. OnOneList'
    <2>1. \A k \in ListNames : \A i, j \in DOMAIN lists'[k] :
              lists'[k][i] = lists'[k][j] => i = j
        BY <1>6 DEF Once
    <2>2. ASSUME NEW k \in ListNames, NEW n \in ListNames, k # n
          PROVE  Range(lists'[k]) \cap Range(lists'[n]) = {}
        <3>1. Range(lists[k]) \cap Range(lists[n]) = {}
            BY <2>2 DEF OnOneList
        <3>2. CASE k = m
            BY <1>6, <2>2, <3>1, <3>2
        <3>3. CASE n = m
            BY <1>6, <2>2, <3>1, <3>3
        <3>4. CASE k # m /\ n # m
            BY <1>6, <2>2, <3>1, <3>4
        <3>5. QED
            BY <3>2, <3>3, <3>4
    <2>3. ASSUME NEW v \in Ways PROVE \E k \in ListNames : v \in Range(lists'[k])
        <3>1. CASE v = w
            BY <1>6, <3>1
        <3>2. CASE v # w
            <4>1. PICK k \in ListNames : v \in Range(lists[k])
                BY DEF OnOneList
            <4>2. v \in Range(lists'[k])
                BY <1>6, <3>2, <4>1
            <4>3. QED
                BY <4>2
        <3>3. QED
            BY <3>1, <3>2
    <2>4. QED
        BY <2>1, <2>2, <2>3 DEF OnOneList
<1>8. QED
    BY <1>6, <1>7

(* A walk is only entered with a way on its list. *)
LEMMA WalkFromFact ==
    ASSUME NEW k \in 1 .. 6, NEW ls
    PROVE  \/ WalkFrom(k, ls) = "rest"
           \/ \E j \in k .. 5 : WalkFrom(k, ls) = Walks[j] /\ ls[Walks[j]] # <<>>
<1> DEFINE left == {j \in k .. Len(Walks) : ls[Walks[j]] # <<>>}
<1>1. Len(Walks) = 5
    BY DEF Walks
<1>2. left \subseteq 1 .. 5 /\ left \subseteq k .. 5
    BY <1>1
<1>3. CASE left = {}
    BY <1>3 DEF WalkFrom
<1>4. CASE left # {}
    <2>1. \E j \in left : \A i \in left : j <= i
        <3> HIDE DEF left
        <3>1. CASE 1 \in left
            BY <1>2, <3>1
        <3>2. CASE 1 \notin left /\ 2 \in left
            BY <1>2, <3>2
        <3>3. CASE 1 \notin left /\ 2 \notin left /\ 3 \in left
            BY <1>2, <3>3
        <3>4. CASE 1 \notin left /\ 2 \notin left /\ 3 \notin left /\ 4 \in left
            BY <1>2, <3>4
        <3>5. CASE 1 \notin left /\ 2 \notin left /\ 3 \notin left /\ 4 \notin left
            <4>1. \A i \in left : i \in 1 .. 5 /\ i = 5
                BY <1>2, <3>5
            <4>2. QED
                BY <1>4, <4>1
        <3>6. QED
            BY <3>1, <3>2, <3>3, <3>4, <3>5
    <2>2. PICK j \in left : j = CHOOSE a \in left : \A i \in left : a <= i
        BY <2>1
    <2>3. WalkFrom(k, ls) = Walks[j]
        BY <1>4, <2>2 DEF WalkFrom
    <2>4. QED
        BY <1>2, <2>2, <2>3
<1>5. QED
    BY <1>3, <1>4

(* Letting requests go takes none away, and leaves the head of every queue *)
(* that has one.                                                           *)
Shares(t) == {n \in [Ways -> Nat] : \A v \in Ways : n[v] <= Len(t[v])}

LEMMA LetGoFact ==
    ASSUME NEW q \in [Ways -> Seq(Req)], NEW t \in [Ways -> Seq(Req)],
           NEW n \in Shares(t), LetGo(q, t, n)
    PROVE  /\ queue' \in [Ways -> Seq(Req)]
           /\ todo' \in [Ways -> Seq(Req)]
           /\ \A v \in Ways : Len(queue'[v]) + Len(todo'[v]) = Len(q[v]) + Len(t[v])
           /\ \A v \in Ways : q[v] # <<>> =>
                  queue'[v] # <<>> /\ Head(queue'[v]) = Head(q[v])
<1>1. ASSUME NEW v \in Ways
      PROVE  /\ queue'[v] \in Seq(Req) /\ todo'[v] \in Seq(Req)
             /\ Len(queue'[v]) + Len(todo'[v]) = Len(q[v]) + Len(t[v])
             /\ q[v] # <<>> => queue'[v] # <<>> /\ Head(queue'[v]) = Head(q[v])
    <2> DEFINE s == t[v]
               gone == SubSeq(s, 1, n[v])
               kept == SubSeq(s, n[v] + 1, Len(s))
    <2>1. s \in Seq(Req) /\ q[v] \in Seq(Req) /\ n[v] \in 0 .. Len(s) /\ Len(s) \in Nat
        BY DEF Shares
    <2>2. \A i \in 1 .. Len(s) : s[i] \in Req
        BY <2>1
    <2>3. queue'[v] = q[v] \o gone /\ todo'[v] = kept
        BY DEF LetGo
    <2> HIDE DEF s
    <2>4. gone \in Seq(Req) /\ Len(gone) = n[v]
        BY <2>1, <2>2, SubSeqProperties
    <2>5. kept \in Seq(Req) /\ Len(kept) = Len(s) - n[v]
        <3>1. \A i \in n[v] + 1 .. Len(s) : s[i] \in Req
            BY <2>1, <2>2
        <3>2. /\ kept \in Seq(Req)
              /\ Len(kept) = IF n[v] + 1 <= Len(s) THEN Len(s) - (n[v] + 1) + 1 ELSE 0
            BY <2>1, <3>1, SubSeqProperties
        <3> HIDE DEF kept
        <3>3. QED
            BY <2>1, <3>2
    <2> HIDE DEF gone, kept
    <2>6. /\ q[v] \o gone \in Seq(Req)
          /\ Len(q[v] \o gone) = Len(q[v]) + Len(gone)
          /\ \A i \in 1 .. Len(q[v]) + Len(gone) :
                 (q[v] \o gone)[i] = IF i <= Len(q[v]) THEN q[v][i] ELSE gone[i - Len(q[v])]
        BY <2>1, <2>4, ConcatProperties
    <2>7. Len(queue'[v]) + Len(todo'[v]) = Len(q[v]) + Len(t[v])
        BY <2>1, <2>3, <2>4, <2>5, <2>6 DEF s
    <2>8. ASSUME q[v] # <<>> PROVE queue'[v] # <<>> /\ Head(queue'[v]) = Head(q[v])
        <3>1. Len(q[v]) \in Nat \ {0} /\ Len(gone) \in Nat
            BY <2>1, <2>4, <2>8
        <3>2. queue'[v] # <<>> /\ queue'[v][1] = q[v][1]
            BY <2>3, <2>6, <3>1
        <3>3. QED
            BY <2>1, <2>3, <2>6, <2>8, <3>2
    <2>9. QED
        BY <2>3, <2>5, <2>6, <2>7, <2>8
<1>2. queue' = [v \in Ways |-> queue'[v]] /\ todo' = [v \in Ways |-> todo'[v]]
    BY DEF LetGo
<1>3. QED
    BY <1>1, <1>2

LEMMA OneOfFact ==
    ASSUME NEW t \in [Ways -> Seq(Req)], NEW x \in Ways, t[x] # <<>>
    PROVE  OneOf(x) \in Shares(t)
<1>1. OneOf(x) \in [Ways -> Nat] /\ \A v \in Ways : OneOf(x)[v] = IF v = x THEN 1 ELSE 0
    BY DEF OneOf, Nobody
<1>2. \A v \in Ways : Len(t[v]) \in Nat
    OBVIOUS
<1>3. Len(t[x]) # 0
    OBVIOUS
<1>4. ASSUME NEW v \in Ways PROVE OneOf(x)[v] <= Len(t[v])
    BY <1>1, <1>2, <1>3
<1>5. QED
    BY <1>1, <1>4 DEF Shares

LEMMA ReleasedFact ==
    ASSUME NEW q, NEW t \in [Ways -> Seq(Req)], NEW w \in Ways,
           NEW b \in Shares(t), NEW n \in Released(b, q, t, w)
    PROVE  n \in Shares(t)
<1>1. CASE q[w] = <<>> /\ b[w] = 0
    <2>1. PICK k \in 0 .. Len(t[w]) : n = [b EXCEPT ![w] = k]
        BY <1>1 DEF Released
    <2>2. Len(t[w]) \in Nat
        OBVIOUS
    <2>3. QED
        BY <2>1, <2>2 DEF Shares
<1>2. CASE ~ (q[w] = <<>> /\ b[w] = 0)
    BY <1>2 DEF Released
<1>3. QED
    BY <1>1, <1>2

LEMMA NobodyFact ==
    ASSUME NEW t \in [Ways -> Seq(Req)]
    PROVE  Nobody \in Shares(t)
<1>1. \A v \in Ways : Len(t[v]) \in Nat
    OBVIOUS
<1>2. QED
    BY <1>1 DEF Nobody, Shares

LEMMA ReleasedByFact ==
    ASSUME NEW q, NEW t \in [Ways -> Seq(Req)], NEW w \in Ways,
           NEW n \in ReleasedBy(q, t, w)
    PROVE  n \in Shares(t)
<1>1. PICK b \in {Nobody} \cup {OneOf(x) : x \in {y \in Ways : t[y] # <<>>}} :
          n \in Released(b, q, t, w)
    BY DEF ReleasedBy
<1>2. b \in Shares(t)
    BY <1>1, NobodyFact, OneOfFact
<1>3. QED
    BY <1>1, <1>2, ReleasedFact
-----------------------------------------------------------------------------
(* The request at the head of a queue *)

(* The queue of v, if it has a head, still has one with the same code. *)
HeadKept(v) ==
    queue[v] # <<>> => queue'[v] # <<>> /\ Head(queue'[v]).code = Head(queue[v]).code

(* No request of v leaves its queue or comes from nowhere. *)
SumKept(v) == Len(queue'[v]) + Len(todo'[v]) = Len(queue[v]) + Len(todo[v])

LEMMA HeadReqFact ==
    ASSUME Types, NEW w \in Ways, queue[w] # <<>>
    PROVE  HeadReq(w) \in Req /\ queue[w][1] = HeadReq(w) /\ Len(queue[w]) \in Nat \ {0}
<1>1. queue[w] \in Seq(Req)
    BY DEF Types
<1>2. QED
    BY <1>1 DEF HeadReq

(* A change of the head of one queue. *)
LEMMA ReplaceHeadFact ==
    ASSUME Types, NEW w \in Ways, queue[w] # <<>>, NEW r \in Req,
           queue' = [queue EXCEPT ![w] = [queue[w] EXCEPT ![1] = r]]
    PROVE  /\ queue' \in [Ways -> Seq(Req)]
           /\ queue'[w] # <<>> /\ Head(queue'[w]) = r
           /\ Len(queue'[w]) = Len(queue[w])
           /\ \A v \in Ways \ {w} : queue'[v] = queue[v]
<1> DEFINE s == queue[w]
           u == [s EXCEPT ![1] = r]
<1>1. s \in Seq(Req) /\ 1 \in 1 .. Len(s) /\ Len(s) \in Nat
    BY HeadReqFact DEF Types
<1> HIDE DEF s
<1>2. u \in Seq(Req) /\ Len(u) = Len(s) /\ u[1] = r
    BY <1>1, ExceptSeq
<1> HIDE DEF u
<1>3. u # <<>> /\ Head(u) = r
    BY <1>1, <1>2
<1>4. queue' = [queue EXCEPT ![w] = u]
    BY DEF u, s
<1>5. QED
    BY <1>2, <1>3, <1>4 DEF Types, s

LEMMA RecodeFact ==
    ASSUME Types, NEW w \in Ways, queue[w] # <<>>, NEW c \in Codes,
           queue' = [queue EXCEPT ![w][1].code = c], todo' = todo
    PROVE  /\ queue' \in [Ways -> Seq(Req)]
           /\ queue'[w] # <<>> /\ Head(queue'[w]).code = c
           /\ \A v \in Ways \ {w} : HeadKept(v)
           /\ \A v \in Ways : SumKept(v)
<1> DEFINE r == [queue[w][1] EXCEPT !.code = c]
<1>1. r \in Req /\ r.code = c
    BY HeadReqFact DEF Req
<1>2. queue' = [queue EXCEPT ![w] = [queue[w] EXCEPT ![1] = r]]
    OBVIOUS
<1> HIDE DEF r
<1>3. QED
    BY <1>1, <1>2, ReplaceHeadFact DEF HeadKept, SumKept

LEMMA CountTryFact ==
    ASSUME Types, NEW w \in Ways, queue[w] # <<>>,
           queue' = [queue EXCEPT ![w][1].tries = @ + 1], todo' = todo
    PROVE  /\ queue' \in [Ways -> Seq(Req)]
           /\ \A v \in Ways : HeadKept(v) /\ SumKept(v)
<1> DEFINE r == [queue[w][1] EXCEPT !.tries = queue[w][1].tries + 1]
<1>1. r \in Req /\ r.code = queue[w][1].code
    BY HeadReqFact DEF Req
<1>2. queue' = [queue EXCEPT ![w] = [queue[w] EXCEPT ![1] = r]]
    OBVIOUS
<1>3. r.code = Head(queue[w]).code
    BY <1>1, HeadReqFact DEF HeadReq
<1> HIDE DEF r
<1>4. /\ queue' \in [Ways -> Seq(Req)]
      /\ queue'[w] # <<>> /\ Head(queue'[w]) = r
      /\ Len(queue'[w]) = Len(queue[w])
      /\ \A v \in Ways \ {w} : queue'[v] = queue[v]
    BY <1>1, <1>2, ReplaceHeadFact
<1>5. ASSUME NEW v \in Ways PROVE HeadKept(v) /\ SumKept(v)
    <2>1. CASE v = w
        BY <1>3, <1>4, <2>1 DEF HeadKept, SumKept
    <2>2. CASE v # w
        BY <1>4, <2>2 DEF HeadKept, SumKept
    <2>3. QED
        BY <2>1, <2>2
<1>6. QED
    BY <1>4, <1>5

LEMMA LetGoKeeps ==
    ASSUME Types, NEW n \in Shares(todo), LetGo(queue, todo, n)
    PROVE  /\ queue' \in [Ways -> Seq(Req)] /\ todo' \in [Ways -> Seq(Req)]
           /\ \A v \in Ways : HeadKept(v) /\ SumKept(v)
<1>1. queue \in [Ways -> Seq(Req)] /\ todo \in [Ways -> Seq(Req)]
    BY DEF Types
<1>2. /\ queue' \in [Ways -> Seq(Req)]
      /\ todo' \in [Ways -> Seq(Req)]
      /\ \A v \in Ways : Len(queue'[v]) + Len(todo'[v]) = Len(queue[v]) + Len(todo[v])
      /\ \A v \in Ways : queue[v] # <<>> =>
             queue'[v] # <<>> /\ Head(queue'[v]) = Head(queue[v])
    BY <1>1, LetGoFact
<1>3. QED
    BY <1>2 DEF HeadKept, SumKept

(* A request leaves: only its own queue loses it. *)
LEMMA CompleteFact ==
    ASSUME Types, NEW w \in Ways, queue[w] # <<>>, NEW marks, Complete(w, marks)
    PROVE  /\ queue' \in [Ways -> Seq(Req)] /\ todo' \in [Ways -> Seq(Req)]
           /\ \A v \in Ways \ {w} : HeadKept(v) /\ SumKept(v)
           /\ Leaves(w)
<1> DEFINE q == [queue EXCEPT ![w] = Tail(@)]
<1>1. PICK n \in ReleasedBy(q, todo, w) : LetGo(q, todo, n)
    BY DEF Complete
<1>2. /\ queue[w] \in Seq(Req) /\ Tail(queue[w]) \in Seq(Req)
      /\ Len(Tail(queue[w])) = Len(queue[w]) - 1 /\ Len(queue[w]) \in Nat
    BY HeadTailProperties DEF Types
<1>3. /\ q \in [Ways -> Seq(Req)] /\ todo \in [Ways -> Seq(Req)]
      /\ q[w] = Tail(queue[w]) /\ \A v \in Ways \ {w} : q[v] = queue[v]
    BY <1>2 DEF Types
<1> HIDE DEF q
<1>4. n \in Shares(todo)
    BY <1>1, <1>3, ReleasedByFact
<1>5. /\ queue' \in [Ways -> Seq(Req)] /\ todo' \in [Ways -> Seq(Req)]
      /\ \A v \in Ways : Len(queue'[v]) + Len(todo'[v]) = Len(q[v]) + Len(todo[v])
      /\ \A v \in Ways : q[v] # <<>> => queue'[v] # <<>> /\ Head(queue'[v]) = Head(q[v])
    BY <1>1, <1>3, <1>4, LetGoFact
<1>6. \A v \in Ways \ {w} : HeadKept(v) /\ SumKept(v)
    BY <1>3, <1>5 DEF HeadKept, SumKept
<1>7. Len(todo[w]) \in Nat
    BY <1>3
<1>8. Leaves(w)
    BY <1>2, <1>3, <1>5, <1>7 DEF Leaves
<1>9. QED
    BY <1>5, <1>6, <1>8

(* A change of one die. *)
LEMMA DieFact ==
    ASSUME Types, NEW w \in Ways, NEW d \in Die, die' = [die EXCEPT ![w] = d]
    PROVE  /\ die' \in [Ways -> Die]
           /\ die'[w] = d
           /\ \A v \in Ways \ {w} : die'[v] = die[v]
BY DEF Types

(* What ExecuteNandReq leaves of the die of w. *)
IdleDie(w) ==
    /\ die' \in [Ways -> Die]
    /\ die'[w].state = "IDLE"
    /\ \A v \in Ways \ {w} : die'[v] = die[v]

LEMMA CompletedDie ==
    ASSUME Types, NEW w \in Ways, NEW check \in Checks, NEW retry \in Int,
           die' = [die EXCEPT ![w].state = "IDLE", ![w].check = check, ![w].retry = retry]
    PROVE  IdleDie(w)
<1> DEFINE d == [die[w] EXCEPT !.state = "IDLE", !.check = check, !.retry = retry]
<1>1. d \in Die /\ d.state = "IDLE"
    BY DEF Types, Die
<1>2. die' = [die EXCEPT ![w] = d]
    OBVIOUS
<1> HIDE DEF d
<1>3. QED
    BY <1>1, <1>2, DieFact DEF IdleDie

LEMMA AdvancedDie ==
    ASSUME Types, NEW w \in Ways, NEW check \in Checks,
           die' = [die EXCEPT ![w].state = "IDLE", ![w].check = check]
    PROVE  IdleDie(w)
<1> DEFINE d == [die[w] EXCEPT !.state = "IDLE", !.check = check]
<1>1. d \in Die /\ d.state = "IDLE"
    BY DEF Types, Die
<1>2. die' = [die EXCEPT ![w] = d]
    OBVIOUS
<1> HIDE DEF d
<1>3. QED
    BY <1>1, <1>2, DieFact DEF IdleDie

LEMMA RetriedDie ==
    ASSUME Types, NEW w \in Ways,
           die' = [die EXCEPT ![w].state = "IDLE", ![w].retry = @ - 1]
    PROVE  IdleDie(w)
<1> DEFINE n == die[w].retry - 1
           d == [die[w] EXCEPT !.state = "IDLE", !.retry = n]
<1>1. die[w] \in Die
    BY DEF Types
<1>2. n \in Int
    BY <1>1 DEF Die
<1>3. die' = [die EXCEPT ![w] = d]
    OBVIOUS
<1> HIDE DEF n
<1>4. d \in Die /\ d.state = "IDLE"
    BY <1>1, <1>2 DEF Die
<1> HIDE DEF d
<1>5. QED
    BY <1>3, <1>4, DieFact DEF IdleDie

LEMMA NextCheckFact ==
    ASSUME Types, NEW w \in Ways
    PROVE  NextCheck(w) \in Checks
<1>1. die[w].check \in Checks
    BY DEF Types, Die
<1>2. QED
    BY <1>1 DEF NextCheck, Checks

(* ExecuteNandReq leaves the die idle and the other ways alone. *)
LEMMA ExecuteFact ==
    ASSUME Types, NEW w \in Ways, queue[w] # <<>>, NEW status, ExecuteNandReq(w, status)
    PROVE  /\ queue' \in [Ways -> Seq(Req)] /\ todo' \in [Ways -> Seq(Req)]
           /\ \A v \in Ways \ {w} : HeadKept(v) /\ SumKept(v)
           /\ IdleDie(w)
           /\ \/ SumKept(w) /\ grown' = grown
              \/ Complete(w, FALSE) /\ status = "DONE" /\ HeadReq(w).code # "READ"
              \/ Complete(w, TRUE) /\ status # "DONE"
<1>1. NextCheck(w) \in Checks
    BY NextCheckFact
<1>2. RetryLimit \in Int
    BY LimitsAssumption DEF LimitsAssumption
<1>3. CASE Advance(w)
    <2>1. queue' = [queue EXCEPT ![w][1].code = "READ_TRANSFER"] /\ todo' = todo
        BY <1>3 DEF Advance
    <2>2. /\ queue' \in [Ways -> Seq(Req)]
          /\ \A v \in Ways \ {w} : HeadKept(v)
          /\ \A v \in Ways : SumKept(v)
        BY <2>1, RecodeFact DEF Codes
    <2>3. die' = [die EXCEPT ![w].state = "IDLE", ![w].check = NextCheck(w)]
        BY <1>3 DEF Advance
    <2>4. IdleDie(w)
        BY <1>1, <2>3, AdvancedDie
    <2>5. QED
        BY <1>3, <2>2, <2>4 DEF Advance, Types
<1>4. CASE Retry(w)
    <2>1. queue' = [queue EXCEPT ![w][1].code = "READ"] /\ todo' = todo
        BY <1>4 DEF Retry
    <2>2. /\ queue' \in [Ways -> Seq(Req)]
          /\ \A v \in Ways \ {w} : HeadKept(v)
          /\ \A v \in Ways : SumKept(v)
        BY <2>1, RecodeFact DEF Codes
    <2>3. die' = [die EXCEPT ![w].state = "IDLE", ![w].retry = @ - 1]
        BY <1>4 DEF Retry
    <2>4. IdleDie(w)
        BY <2>3, RetriedDie
    <2>5. QED
        BY <1>4, <2>2, <2>4 DEF Retry, Types
<1>5. ASSUME NEW marks, Complete(w, marks)
      PROVE  /\ queue' \in [Ways -> Seq(Req)] /\ todo' \in [Ways -> Seq(Req)]
             /\ \A v \in Ways \ {w} : HeadKept(v) /\ SumKept(v)
             /\ IdleDie(w)
    <2>1. die' = [die EXCEPT ![w].state = "IDLE", ![w].check = NextCheck(w),
                             ![w].retry = RetryLimit]
        BY <1>5 DEF Complete
    <2>2. IdleDie(w)
        BY <1>1, <1>2, <2>1, CompletedDie
    <2>3. QED
        BY <1>5, <2>2, CompleteFact
<1>6. \/ Advance(w) \/ Retry(w)
      \/ Complete(w, FALSE) /\ status = "DONE" /\ HeadReq(w).code # "READ"
      \/ Complete(w, TRUE) /\ status # "DONE"
    BY DEF ExecuteNandReq
<1>7. CASE Advance(w) \/ Retry(w)
    <2>1. grown' = grown
        BY <1>7 DEF Advance, Retry
    <2>2. QED
        BY <1>3, <1>4, <1>7, <2>1
<1>8. QED
    BY <1>5, <1>6, <1>7
-----------------------------------------------------------------------------
(* Where the ways are *)

(* Every way is on one list, which fits it; a walk of a list that a way can *)
(* leave meanwhile stands on a way of the list; and a walk that issues has  *)
(* a way to issue.                                                          *)
WayInv ==
    /\ OnOneList
    /\ ListsFit
    /\ pc = "idle" => cur \in Range(lists["idle"]) \cup {NoWay}
    /\ pc = "report" => cur \in Range(lists["statusReport"]) \cup {NoWay}
    /\ pc \in IssueLists => lists[pc] # <<>>

PriorityList(code) ==
    CASE code = "READ" -> "readTrigger"
      [] code = "READ_TRANSFER" -> "readTransfer"
      [] code = "ERASE" -> "erase"
      [] OTHER -> "write"

LEMMA PriorityFact ==
    ASSUME NEW ls, NEW w, NEW code \in Codes
    PROVE  /\ PutToNandWayPriorityTable(ls, w, code) = Put(ls, PriorityList(code), w)
           /\ PriorityList(code) \in IssueLists
<1>1. CASE code = "READ"
    BY <1>1 DEF PutToNandWayPriorityTable, PriorityList, IssueLists, PutToNandReadTriggerList
<1>2. CASE code = "READ_TRANSFER"
    BY <1>2 DEF PutToNandWayPriorityTable, PriorityList, IssueLists, PutToNandReadTransferList
<1>3. CASE code = "ERASE"
    BY <1>3 DEF PutToNandWayPriorityTable, PriorityList, IssueLists, PutToNandEraseList
<1>4. CASE code \in {"WRITE", "RESET", "SET_FEATURE"}
    BY <1>4 DEF PutToNandWayPriorityTable, PriorityList, IssueLists, PutToNandWriteList
<1>5. QED
    BY <1>1, <1>2, <1>3, <1>4 DEF Codes

(* A way with a request and an idle die fits the list the request is for. *)
LEMMA PriorityFits ==
    ASSUME NEW w \in Ways, queue'[w] # <<>>, die'[w].state = "IDLE",
           Head(queue'[w]).code \in Codes,
           NEW m, m = PriorityList(Head(queue'[w]).code)
    PROVE  Fits(m, w)'
<1> DEFINE code == Head(queue'[w]).code
<1>1. CASE code = "READ"
    BY <1>1 DEF Fits, PriorityList, HeadReq
<1>2. CASE code = "READ_TRANSFER"
    BY <1>2 DEF Fits, PriorityList, HeadReq
<1>3. CASE code = "ERASE"
    BY <1>3 DEF Fits, PriorityList, HeadReq
<1>4. CASE code \in {"WRITE", "RESET", "SET_FEATURE"}
    BY <1>4 DEF Fits, PriorityList, HeadReq
<1>5. QED
    BY <1>1, <1>2, <1>3, <1>4 DEF Codes

LEMMA FitsKept ==
    ASSUME NEW l \in ListNames, NEW v \in Ways, Fits(l, v),
           die'[v] = die[v], HeadKept(v)
    PROVE  Fits(l, v)'
BY DEF Fits, HeadReq, HeadKept, ListNames, IssueLists

(* One way goes to another list, and the others stay as they are. *)
LEMMA MoveFits ==
    ASSUME lists \in [ListNames -> Seq(Ways)], OnOneList, ListsFit,
           NEW l \in ListNames, NEW m \in ListNames, NEW w \in Range(lists[l]),
           lists' = Put(Get(lists, l, w), m, w), Fits(m, w)',
           \A v \in Ways \ {w} : die'[v] = die[v] /\ HeadKept(v)
    PROVE  ListsFit'
<1>1. SUFFICES ASSUME NEW k \in ListNames, NEW v \in Range(lists'[k]) PROVE Fits(k, v)'
    BY DEF ListsFit
<1>2. /\ \A j \in ListNames \ {m} : Range(lists'[j]) = Range(lists[j]) \ {w}
      /\ Range(lists'[m]) = Range(lists[m]) \cup {w}
    BY MoveFact
<1>3. CASE v = w
    BY <1>1, <1>2, <1>3
<1>4. CASE v # w
    <2>1. v \in Range(lists[k])
        BY <1>1, <1>2, <1>4
    <2>2. v \in Ways \ {w}
        BY <1>4, <2>1 DEF Range
    <2>3. Fits(k, v)
        BY <2>1 DEF ListsFit
    <2>4. QED
        BY <2>2, <2>3, FitsKept
<1>5. QED
    BY <1>3, <1>4

LEMMA StayFits ==
    ASSUME lists \in [ListNames -> Seq(Ways)], OnOneList, ListsFit, lists' = lists,
           \A v \in Ways : die'[v] = die[v] /\ HeadKept(v)
    PROVE  OnOneList' /\ ListsFit'
<1>1. OnOneList'
    BY DEF OnOneList
<1>2. ASSUME NEW l \in ListNames, NEW v \in Range(lists[l]) PROVE Fits(l, v)'
    <2>1. v \in Ways
        BY DEF Range
    <2>2. Fits(l, v)
        BY DEF ListsFit
    <2>3. QED
        BY <2>1, <2>2, FitsKept
<1>3. QED
    BY <1>1, <1>2 DEF ListsFit

(* A list that a move does not touch stays as full as it was. *)
LEMMA OthersFull ==
    ASSUME lists \in [ListNames -> Seq(Ways)], OnOneList,
           NEW l \in ListNames, NEW m \in ListNames, NEW w \in Range(lists[l]),
           lists' = Put(Get(lists, l, w), m, w),
           NEW k \in ListNames, k # l, lists[k] # <<>>
    PROVE  lists'[k] # <<>>
<1>1. /\ \A j \in ListNames \ {m} : Range(lists'[j]) = Range(lists[j]) \ {w}
      /\ Range(lists'[m]) = Range(lists[m]) \cup {w}
    BY MoveFact
<1>2. w \notin Range(lists[k])
    BY DEF OnOneList
<1>3. lists[k][1] \in Range(lists[k])
    BY DEF Range
<1>4. Range(lists'[k]) # {}
    BY <1>1, <1>2, <1>3
<1>5. QED
    BY <1>4 DEF Range
-----------------------------------------------------------------------------
(* What the controller holds *)

Quiet(c) == \A i \in DOMAIN c : c[i] \in FlashOps
Ends(c, x) ==
    /\ c # <<>>
    /\ c[Len(c)] = x
    /\ \A i \in 1 .. Len(c) - 1 : c[i] \in FlashOps

(* What is on its way for w, by what its die waits for: an answer is the   *)
(* last thing the controller has to give, and what it says of the flash is *)
(* true when the pass reads it.                                            *)
Holds(w) ==
    LET c == hw[w].cmds
        m == mem[w]
        code == HeadReq(w).code
    IN  /\ die[w].state = "IDLE" => Quiet(c)
        /\ die[w].state = "EXE" => queue[w] # <<>>
        /\ die[w].state = "EXE" /\ die[w].check = "CHECK" =>
               Quiet(c) /\ code \in {"READ", "WRITE", "ERASE"}
        /\ die[w].state = "EXE" /\ die[w].check = "NONE" =>
               Quiet(c) /\ code \in {"RESET", "SET_FEATURE"}
        /\ die[w].state = "EXE" /\ die[w].check = "REPORT" =>
               /\ code \in {"READ", "WRITE", "ERASE"}
               /\ m.report = "none" => Ends(c, "STATUS")
               /\ m.report # "none" => c = <<>>
               /\ m.report = "pass" => ~hw[w].running /\ ~hw[w].failed
               /\ m.report = "fail" => ~hw[w].running /\ hw[w].failed
        /\ die[w].state = "EXE" /\ die[w].check = "COMPLETION_FLAG" =>
               /\ code = "READ_TRANSFER"
               /\ ~m.flag => Ends(c, "TRANSFER")
               /\ m.flag => c = <<>> /\ ~hw[w].running

HeldInv == \A w \in Ways : Holds(w)

Inv == Types /\ WayInv /\ HeldInv

LEMMA HoldsKept ==
    ASSUME NEW v \in Ways, Holds(v), die'[v] = die[v], hw'[v] = hw[v], mem'[v] = mem[v],
           HeadKept(v), die[v].state \in {"IDLE", "EXE"}
    PROVE  Holds(v)'
BY DEF Holds, HeadKept, HeadReq

LEMMA AppendCommand ==
    ASSUME NEW c \in Seq(Commands), Quiet(c), NEW x \in Commands
    PROVE  /\ x \in FlashOps => Quiet(Append(c, x))
           /\ x \notin FlashOps => Ends(Append(c, x), x)
<1>1. /\ Append(c, x) # <<>> /\ Len(Append(c, x)) = Len(c) + 1
      /\ DOMAIN Append(c, x) = 1 .. Len(c) + 1
      /\ \A i \in 1 .. Len(c) : Append(c, x)[i] = c[i]
      /\ Append(c, x)[Len(c) + 1] = x
    BY AppendProperties
<1>2. Len(c) \in Nat /\ DOMAIN c = 1 .. Len(c)
    OBVIOUS
<1>3. QED
    BY <1>1, <1>2 DEF Quiet, Ends

LEMMA TailCommand ==
    ASSUME NEW c \in Seq(Commands), c # <<>>
    PROVE  /\ Quiet(c) => Quiet(Tail(c)) /\ Head(c) \in FlashOps
           /\ \A x : Ends(c, x) /\ Head(c) \in FlashOps /\ x \notin FlashOps => Ends(Tail(c), x)
           /\ \A x : Ends(c, x) /\ Head(c) \notin FlashOps => Head(c) = x /\ Tail(c) = <<>>
<1>1. /\ Tail(c) \in Seq(Commands) /\ Len(Tail(c)) = Len(c) - 1
      /\ \A i \in 1 .. Len(Tail(c)) : Tail(c)[i] = c[i + 1]
      /\ Head(c) = c[1]
    BY HeadTailProperties
<1>2. Len(c) \in Nat \ {0} /\ DOMAIN c = 1 .. Len(c) /\ DOMAIN Tail(c) = 1 .. Len(c) - 1
    BY <1>1
<1>3. ASSUME Quiet(c) PROVE Quiet(Tail(c)) /\ Head(c) \in FlashOps
    BY <1>1, <1>2, <1>3 DEF Quiet
<1>4. ASSUME NEW x, Ends(c, x), Head(c) \in FlashOps, x \notin FlashOps
      PROVE  Ends(Tail(c), x)
    <2>1. Len(c) # 1
        BY <1>1, <1>4 DEF Ends
    <2>2. Tail(c) # <<>> /\ Tail(c)[Len(c) - 1] = x
        <3>1. Len(c) - 1 \in 1 .. Len(Tail(c))
            BY <1>1, <1>2, <2>1
        <3>2. Tail(c)[Len(c) - 1] = c[Len(c)]
            BY <1>1, <1>2, <3>1
        <3>3. Tail(c) # <<>>
            <4>1. Len(Tail(c)) # 0
                BY <1>1, <1>2, <3>1
            <4>2. QED
                BY <4>1, EmptySeq
        <3>4. QED
            BY <1>4, <3>2, <3>3 DEF Ends
    <2>3. ASSUME NEW i \in 1 .. Len(Tail(c)) - 1 PROVE Tail(c)[i] \in FlashOps
        <3>1. i \in 1 .. Len(Tail(c)) /\ i + 1 \in 1 .. Len(c) - 1
            BY <1>1, <1>2
        <3>2. QED
            BY <1>1, <1>4, <3>1 DEF Ends
    <2>4. QED
        BY <1>1, <2>2, <2>3 DEF Ends
<1>5. ASSUME NEW x, Ends(c, x), Head(c) \notin FlashOps
      PROVE  Head(c) = x /\ Tail(c) = <<>>
    <2>1. Len(c) = 1
        BY <1>1, <1>2, <1>5 DEF Ends
    <2>2. c[1] = x
        BY <1>5, <2>1 DEF Ends
    <2>3. Len(Tail(c)) = 0
        BY <1>1, <2>1
    <2>4. Tail(c) = <<>>
        BY <1>1, <2>3, EmptySeq
    <2>5. QED
        BY <1>1, <2>2, <2>4
<1>6. QED
    BY <1>3, <1>4, <1>5
-----------------------------------------------------------------------------
(* The controller and the flash *)

LEMMA IssuedFact ==
    ASSUME Types, NEW w \in Ways, NEW c \in Commands, hw' = Issued(hw, w, c)
    PROVE  /\ hw' \in [Ways -> Chip]
           /\ hw'[w].cmds = Append(hw[w].cmds, c)
           /\ \A v \in Ways \ {w} : hw'[v] = hw[v]
<1> DEFINE a == Append(hw[w].cmds, c)
           h == [hw[w] EXCEPT !.cmds = a]
<1>1. hw \in [Ways -> Chip] /\ hw[w] \in Chip
    BY DEF Types
<1>2. a \in Seq(Commands)
    BY <1>1, AppendProperties DEF Chip
<1>3. hw' = [hw EXCEPT ![w] = h]
    BY DEF Issued
<1> HIDE DEF a
<1>4. h \in Chip /\ h.cmds = a
    BY <1>1, <1>2 DEF Chip
<1> HIDE DEF h
<1>5. QED
    BY <1>1, <1>3, <1>4 DEF a

LEMMA TakenFact ==
    ASSUME Types, NEW w \in Ways, hw[w].cmds # <<>>, hw' = [hw EXCEPT ![w].cmds = Tail(@)]
    PROVE  /\ hw' \in [Ways -> Chip]
           /\ hw'[w].cmds = Tail(hw[w].cmds)
           /\ hw'[w].running = hw[w].running /\ hw'[w].failed = hw[w].failed
           /\ \A v \in Ways \ {w} : hw'[v] = hw[v]
<1> DEFINE t == Tail(hw[w].cmds)
           h == [hw[w] EXCEPT !.cmds = t]
<1>1. hw \in [Ways -> Chip] /\ hw[w] \in Chip
    BY DEF Types
<1>2. t \in Seq(Commands)
    BY <1>1, HeadTailProperties DEF Chip
<1>3. hw' = [hw EXCEPT ![w] = h]
    OBVIOUS
<1>4. h.cmds = Tail(hw[w].cmds)
    BY <1>1 DEF Chip
<1> HIDE DEF t
<1>5. h \in Chip /\ h.running = hw[w].running /\ h.failed = hw[w].failed
    BY <1>1, <1>2 DEF Chip
<1> HIDE DEF h
<1>6. QED
    BY <1>1, <1>3, <1>4, <1>5

(* Everything the pass knows is as it was, and so are the queues. *)
Beside == UNCHANGED <<pc, cur, lists, die, queue, todo>>

LEMMA BesideKeeps ==
    ASSUME Types, WayInv, Beside, hw' \in [Ways -> Chip], mem' \in [Ways -> Answer]
    PROVE  Types' /\ WayInv'
<1>1. Types'
    BY DEF Types, Beside
<1>2. \A v \in Ways : die'[v] = die[v] /\ HeadKept(v)
    BY DEF Beside, HeadKept
<1>3. OnOneList' /\ ListsFit'
    BY <1>2, StayFits DEF Beside, WayInv, Types
<1>4. QED
    BY <1>1, <1>3 DEF WayInv, Beside

LEMMA BesideHolds ==
    ASSUME Types, HeldInv, Beside, NEW w \in Ways, Holds(w)',
           \A v \in Ways \ {w} : hw'[v] = hw[v] /\ mem'[v] = mem[v]
    PROVE  HeldInv'
<1>1. ASSUME NEW v \in Ways, v # w PROVE Holds(v)'
    <2>1. Holds(v) /\ die[v].state \in {"IDLE", "EXE"}
        BY DEF HeldInv, Types, Die
    <2>2. die'[v] = die[v] /\ HeadKept(v)
        BY DEF Beside, HeadKept
    <2>3. QED
        BY <1>1, <2>1, <2>2, HoldsKept
<1>2. QED
    BY <1>1 DEF HeldInv

LEMMA StartKeeps ==
    ASSUME Inv, NEW w \in Ways, Start(w)
    PROVE  Inv'
<1> USE DEF Inv
<1> DEFINE c == hw[w].cmds
           h == [hw[w] EXCEPT !.running = TRUE, !.cmds = Tail(c)]
<1>1. hw \in [Ways -> Chip] /\ hw[w] \in Chip /\ c \in Seq(Commands) /\ c # <<>>
    BY DEF Types, Chip, Start
<1>2. Tail(c) \in Seq(Commands)
    BY <1>1, HeadTailProperties
<1>3. h \in Chip /\ h.cmds = Tail(c)
    BY <1>1, <1>2 DEF Chip
<1>4. hw' = [hw EXCEPT ![w] = h]
    BY DEF Start
<1> HIDE DEF h
<1>5. /\ hw' \in [Ways -> Chip] /\ hw'[w].cmds = Tail(c)
      /\ \A v \in Ways \ {w} : hw'[v] = hw[v]
    BY <1>1, <1>3, <1>4
<1>6. Beside /\ mem' = mem
    BY DEF Start, Beside, pass
<1>7. Types' /\ WayInv'
    BY <1>5, <1>6, BesideKeeps DEF Types
<1>8. Head(c) \in FlashOps
    BY DEF Start
<1>9. /\ Quiet(c) => Quiet(Tail(c))
      /\ Ends(c, "STATUS") => Ends(Tail(c), "STATUS")
      /\ Ends(c, "TRANSFER") => Ends(Tail(c), "TRANSFER")
    BY <1>1, <1>8, TailCommand DEF FlashOps
<1>10. Holds(w)
    BY DEF HeldInv
<1>11. UNCHANGED <<die, queue, mem>>
    BY <1>6 DEF Beside
<1>12. Holds(w)'
    <2> HIDE DEF c
    <2>1. c = hw[w].cmds
        BY DEF c
    <2>2. QED
        BY <1>1, <1>5, <1>9, <1>10, <1>11, <2>1 DEF Holds, HeadReq
<1>13. HeldInv'
    BY <1>5, <1>6, <1>12, BesideHolds
<1>14. QED
    BY <1>7, <1>13

LEMMA FinishKeeps ==
    ASSUME Inv, NEW w \in Ways, Finish(w)
    PROVE  Inv'
<1> USE DEF Inv
<1>1. PICK f \in BOOLEAN : hw' = [hw EXCEPT ![w].running = FALSE, ![w].failed = f]
    BY DEF Finish
<1> DEFINE h == [hw[w] EXCEPT !.running = FALSE, !.failed = f]
<1>2. hw \in [Ways -> Chip] /\ hw[w] \in Chip
    BY DEF Types
<1>3. h \in Chip /\ h.cmds = hw[w].cmds
    BY <1>2 DEF Chip
<1>4. hw' = [hw EXCEPT ![w] = h]
    BY <1>1
<1> HIDE DEF h
<1>5. /\ hw' \in [Ways -> Chip] /\ hw'[w].cmds = hw[w].cmds /\ hw[w].running
      /\ \A v \in Ways \ {w} : hw'[v] = hw[v]
    BY <1>2, <1>3, <1>4 DEF Finish
<1>6. Beside /\ mem' = mem
    BY DEF Finish, Beside, pass
<1>7. Types' /\ WayInv'
    BY <1>5, <1>6, BesideKeeps DEF Types
<1>8. Holds(w)
    BY DEF HeldInv
<1>9. h.running = FALSE
    BY <1>2 DEF h, Chip
<1>10. hw'[w].running = FALSE
    BY <1>2, <1>4, <1>9
<1>11. UNCHANGED <<die, queue, mem>>
    BY <1>6 DEF Beside
<1>12. Holds(w)'
    BY <1>5, <1>8, <1>10, <1>11 DEF Holds, HeadReq
<1>13. HeldInv'
    BY <1>5, <1>6, <1>12, BesideHolds
<1>14. QED
    BY <1>7, <1>13

(* Whoever waits for an answer: the answers come in the order asked. *)
LEMMA AnswerFact ==
    ASSUME Types, NEW w \in Ways, Holds(w), hw[w].cmds # <<>>, Head(hw[w].cmds) \notin FlashOps
    PROVE  /\ die[w].state = "EXE" /\ Tail(hw[w].cmds) = <<>>
           /\ \/ die[w].check = "REPORT" /\ Head(hw[w].cmds) = "STATUS" /\ mem[w].report = "none"
              \/ die[w].check = "COMPLETION_FLAG" /\ Head(hw[w].cmds) = "TRANSFER" /\ ~mem[w].flag
<1> DEFINE c == hw[w].cmds
<1>1. c \in Seq(Commands) /\ die[w].state \in {"IDLE", "EXE"} /\ die[w].check \in Checks
    BY DEF Types, Chip, Die
<1>2. ~Quiet(c)
    BY <1>1, TailCommand
<1>3. die[w].state = "EXE" /\ die[w].check \in {"REPORT", "COMPLETION_FLAG"}
    BY <1>1, <1>2 DEF Holds, Checks
<1>4. CASE die[w].check = "REPORT"
    <2>1. Ends(c, "STATUS") /\ mem[w].report = "none"
        BY <1>3, <1>4 DEF Holds
    <2>2. QED
        BY <1>1, <1>3, <1>4, <2>1, TailCommand
<1>5. CASE die[w].check = "COMPLETION_FLAG"
    <2>1. Ends(c, "TRANSFER") /\ ~mem[w].flag
        BY <1>3, <1>5 DEF Holds
    <2>2. QED
        BY <1>1, <1>3, <1>5, <2>1, TailCommand
<1>6. QED
    BY <1>3, <1>4, <1>5

LEMMA ReportStatusKeeps ==
    ASSUME Inv, NEW w \in Ways, ReportStatus(w)
    PROVE  Inv'
<1> USE DEF Inv
<1>1. /\ hw[w].cmds # <<>> /\ Head(hw[w].cmds) = "STATUS"
      /\ hw' = [hw EXCEPT ![w].cmds = Tail(@)]
      /\ Beside
    BY DEF ReportStatus, Beside, pass
<1>2. Holds(w) /\ Head(hw[w].cmds) \notin FlashOps
    BY <1>1 DEF HeldInv, FlashOps
<1>3. die[w].state = "EXE" /\ Tail(hw[w].cmds) = <<>> /\ die[w].check = "REPORT"
    BY <1>1, <1>2, AnswerFact
<1>4. /\ hw' \in [Ways -> Chip] /\ hw'[w].cmds = <<>>
      /\ hw'[w].running = hw[w].running /\ hw'[w].failed = hw[w].failed
      /\ \A v \in Ways \ {w} : hw'[v] = hw[v]
    BY <1>1, <1>3, TakenFact
<1> DEFINE a == CASE hw[w].running -> "running"
                  [] ~hw[w].running /\ hw[w].failed -> "fail"
                  [] OTHER -> "pass"
           m == [mem[w] EXCEPT !.report = a]
<1>5. hw[w].running \in BOOLEAN /\ hw[w].failed \in BOOLEAN
    BY DEF Types, Chip
<1>6. /\ a \in {"running", "pass", "fail"}
      /\ a = "pass" => ~hw[w].running /\ ~hw[w].failed
      /\ a = "fail" => ~hw[w].running /\ hw[w].failed
    BY <1>5
<1>7. mem' = [mem EXCEPT ![w] = m]
    BY DEF ReportStatus
<1> HIDE DEF a
<1>8. m \in Answer /\ m.report = a
    BY <1>6 DEF Types, Answer
<1> HIDE DEF m
<1>9. /\ mem' \in [Ways -> Answer] /\ mem'[w].report = a
      /\ \A v \in Ways \ {w} : mem'[v] = mem[v]
    BY <1>7, <1>8 DEF Types
<1>10. Types' /\ WayInv'
    BY <1>1, <1>4, <1>9, BesideKeeps
<1>11. UNCHANGED <<die, queue>>
    BY <1>1 DEF Beside
<1>12. Holds(w)'
    BY <1>2, <1>3, <1>4, <1>6, <1>9, <1>11 DEF Holds, HeadReq
<1>13. HeldInv'
    BY <1>1, <1>4, <1>9, <1>12, BesideHolds
<1>14. QED
    BY <1>10, <1>13

LEMMA TransferKeeps ==
    ASSUME Inv, NEW w \in Ways, Transfer(w)
    PROVE  Inv'
<1> USE DEF Inv
<1>1. /\ hw[w].cmds # <<>> /\ Head(hw[w].cmds) = "TRANSFER"
      /\ ~hw[w].running
      /\ hw' = [hw EXCEPT ![w].cmds = Tail(@)]
      /\ Beside
    BY DEF Transfer, Beside, pass
<1>2. Holds(w) /\ Head(hw[w].cmds) \notin FlashOps
    BY <1>1 DEF HeldInv, FlashOps
<1>3. /\ die[w].state = "EXE" /\ Tail(hw[w].cmds) = <<>>
      /\ die[w].check = "COMPLETION_FLAG"
    BY <1>1, <1>2, AnswerFact
<1>4. /\ hw' \in [Ways -> Chip] /\ hw'[w].cmds = <<>>
      /\ hw'[w].running = hw[w].running
      /\ \A v \in Ways \ {w} : hw'[v] = hw[v]
    BY <1>1, <1>3, TakenFact
<1>5. PICK e \in {"good", "worn", "bad"} :
          mem' = [mem EXCEPT ![w].flag = TRUE, ![w].errorInfo = e]
    BY DEF Transfer
<1> DEFINE m == [mem[w] EXCEPT !.flag = TRUE, !.errorInfo = e]
<1>6. mem' = [mem EXCEPT ![w] = m]
    BY <1>5
<1>7. m \in Answer /\ m.flag = TRUE
    BY DEF Types, Answer
<1> HIDE DEF m
<1>8. /\ mem' \in [Ways -> Answer] /\ mem'[w].flag = TRUE
      /\ \A v \in Ways \ {w} : mem'[v] = mem[v]
    BY <1>6, <1>7 DEF Types
<1>9. Types' /\ WayInv'
    BY <1>1, <1>4, <1>8, BesideKeeps
<1>10. UNCHANGED <<die, queue>>
    BY <1>1 DEF Beside
<1>11. Holds(w)'
    BY <1>1, <1>2, <1>3, <1>4, <1>8, <1>10 DEF Holds, HeadReq
<1>12. HeldInv'
    BY <1>1, <1>4, <1>8, <1>11, BesideHolds
<1>13. QED
    BY <1>9, <1>12
-----------------------------------------------------------------------------
(* The steps of the pass *)

LEMMA InitInv ==
    ASSUME Init PROVE Inv
<1>1. WayOrder \in Seq(Ways) /\ Range(WayOrder) = Ways /\ Once(WayOrder)
    BY WaysAssumption DEF WaysAssumption, Once
<1>2. lists \in [ListNames -> Seq(Ways)]
    BY <1>1 DEF Init, ListNames
<1>3. todo \in [Ways -> Seq(Req)]
    <2> DEFINE R == [code : Codes \ {"READ_TRANSFER"}, ecc : BOOLEAN,
                     warn : BOOLEAN, block : Nat, tries : {0}]
    <2>1. Load \in [Ways -> Seq(R)]
        BY LoadAssumption DEF LoadAssumption
    <2>2. R \subseteq Req
        BY DEF Req
    <2> HIDE DEF R
    <2>3. Seq(R) \subseteq Seq(Req)
        BY <2>2, SeqDef
    <2>4. QED
        BY <2>1, <2>3 DEF Init
<1>4. die \in [Ways -> Die]
    BY LimitsAssumption DEF LimitsAssumption, Init, Die, Checks
<1>5. hw \in [Ways -> Chip] /\ mem \in [Ways -> Answer] /\ queue \in [Ways -> Seq(Req)]
    BY DEF Init, Chip, Answer
<1>6. Types
    BY <1>2, <1>3, <1>4, <1>5 DEF Init, Types
<1>7. lists["idle"] = WayOrder /\ \A l \in ListNames \ {"idle"} : lists[l] = <<>>
    BY DEF Init, ListNames
<1>8. Range(lists["idle"]) = Ways /\ \A l \in ListNames \ {"idle"} : Range(lists[l]) = {}
    <2>1. Range(<<>>) = {}
        BY DEF Range
    <2>2. QED
        BY <1>1, <1>7, <2>1
<1>9. OnOneList
    <2>1. \A l \in ListNames : Once(lists[l])
        BY <1>1, <1>7 DEF Once
    <2>2. QED
        BY <1>8, <2>1 DEF OnOneList, Once, ListNames
<1>10. ListsFit
    BY <1>8 DEF ListsFit, Fits, Init
<1>11. WayInv
    BY <1>9, <1>10 DEF WayInv, Init, IssueLists
<1>12. HeldInv
    BY DEF HeldInv, Holds, Init, Quiet
<1>13. QED
    BY <1>6, <1>11, <1>12 DEF Inv

(* The way a walk stands on is on the list of the walk. *)
LEMMA OnList ==
    ASSUME Types, NEW l \in ListNames, NEW w \in Ways, cur = w,
           cur \in Range(lists[l]) \cup {NoWay}
    PROVE  w \in Range(lists[l])
BY WaysAssumption DEF WaysAssumption

LEMMA HoldsAll ==
    ASSUME Types, HeldInv, UNCHANGED <<die, hw, mem>>, \A v \in Ways : HeadKept(v)
    PROVE  HeldInv'
<1>1. ASSUME NEW v \in Ways PROVE Holds(v)'
    <2>1. Holds(v) /\ die[v].state \in {"IDLE", "EXE"}
        BY DEF HeldInv, Types, Die
    <2>2. QED
        BY <2>1, HoldsKept
<1>2. QED
    BY <1>1 DEF HeldInv

LEMMA ArriveKeeps ==
    ASSUME Inv, NEW w \in Ways, Arrive(w)
    PROVE  Inv'
<1> USE DEF Inv
<1>1. /\ todo[w] # <<>> /\ LetGo(queue, todo, OneOf(w))
      /\ UNCHANGED <<pc, cur, lists, die, hw, mem>> /\ pc = "rest"
    BY DEF Arrive, pass
<1>2. OneOf(w) \in Shares(todo)
    BY <1>1, OneOfFact DEF Types
<1>3. /\ queue' \in [Ways -> Seq(Req)] /\ todo' \in [Ways -> Seq(Req)]
      /\ \A v \in Ways : HeadKept(v) /\ SumKept(v)
    BY <1>1, <1>2, LetGoKeeps
<1>4. Types'
    BY <1>1, <1>3 DEF Types
<1>5. OnOneList' /\ ListsFit'
    BY <1>1, <1>3, StayFits DEF WayInv, Types
<1>6. WayInv'
    BY <1>1, <1>5 DEF WayInv, IssueLists
<1>7. HeldInv'
    BY <1>1, <1>3, HoldsAll
<1>8. QED
    BY <1>4, <1>6, <1>7

(* Nothing but the place of the pass changes. *)
LEMMA OnlyThePass ==
    ASSUME Inv, UNCHANGED <<lists, die, queue, todo, hw, mem>>,
           pc' \in {"rest", "idle", "report", "statusCheck"} \cup IssueLists,
           cur' \in Ways \cup {NoWay},
           pc' = "idle" => cur' \in Range(lists["idle"]) \cup {NoWay},
           pc' = "report" => cur' \in Range(lists["statusReport"]) \cup {NoWay},
           pc' \in IssueLists => lists[pc'] # <<>>
    PROVE  Inv'
<1> USE DEF Inv
<1>1. Types'
    BY DEF Types
<1>2. \A v \in Ways : HeadKept(v)
    BY DEF HeadKept
<1>3. OnOneList' /\ ListsFit'
    BY <1>2, StayFits DEF WayInv, Types
<1>4. WayInv'
    BY <1>3 DEF WayInv
<1>5. HeldInv'
    BY <1>2, HoldsAll
<1>6. QED
    BY <1>1, <1>4, <1>5

LEMMA FirstOfList ==
    ASSUME Types, NEW l \in ListNames
    PROVE  /\ First(lists[l]) \in Range(lists[l]) \cup {NoWay}
           /\ First(lists[l]) \in Ways \cup {NoWay}
<1>1. lists[l] \in Seq(Ways)
    BY DEF Types
<1>2. First(lists[l]) \in Range(lists[l]) \cup {NoWay} /\ Range(lists[l]) \subseteq Ways
    BY <1>1, FirstFact DEF Range
<1>3. QED
    BY <1>2

LEMMA BeginPassKeeps ==
    ASSUME Inv, BeginPass PROVE Inv'
<1>1. "idle" \in ListNames
    BY DEF ListNames
<1>2. pc' = "idle" /\ cur' = First(lists["idle"])
    BY DEF BeginPass
<1>3. cur' \in Range(lists["idle"]) \cup {NoWay} /\ cur' \in Ways \cup {NoWay}
    BY <1>1, <1>2, FirstOfList DEF Inv
<1>4. QED
    BY <1>2, <1>3, OnlyThePass DEF BeginPass, IssueLists

LEMMA IdleEndKeeps ==
    ASSUME Inv, IdleEnd PROVE Inv'
<1>1. "statusReport" \in ListNames
    BY DEF ListNames
<1>2. pc' = "report" /\ cur' = First(lists["statusReport"])
    BY DEF IdleEnd
<1>3. cur' \in Range(lists["statusReport"]) \cup {NoWay} /\ cur' \in Ways \cup {NoWay}
    BY <1>1, <1>2, FirstOfList DEF Inv
<1>4. QED
    BY <1>2, <1>3, OnlyThePass DEF IdleEnd, IssueLists

(* Where a walk may go on. *)
LEMMA WalkNames ==
    /\ Len(Walks) = 5
    /\ Walks[1] = "statusCheck"
    /\ \A j \in 2 .. 5 : Walks[j] \in IssueLists
    /\ \A j, k \in 1 .. 5 : Walks[j] = Walks[k] => j = k
    /\ IssueLists \subseteq ListNames
BY DEF Walks, IssueLists, ListNames

LEMMA ReportEndKeeps ==
    ASSUME Inv, ReportEnd PROVE Inv'
<1>1. pc' = "rest" \/ \E j \in 1 .. 5 : pc' = Walks[j] /\ lists[Walks[j]] # <<>>
    BY WalkFromFact DEF ReportEnd
<1>2. /\ pc' \in {"rest", "statusCheck"} \cup IssueLists
      /\ pc' \in IssueLists => lists[pc'] # <<>>
    BY <1>1, WalkNames DEF IssueLists
<1>3. UNCHANGED <<cur, lists, die, queue, todo, hw, mem>> /\ cur \in Ways \cup {NoWay}
    BY DEF ReportEnd, Inv, Types
<1>4. pc' # "idle" /\ pc' # "report"
    BY <1>2 DEF IssueLists
<1>5. QED
    BY <1>2, <1>3, <1>4, OnlyThePass

LEMMA NoneToCheckKeeps ==
    ASSUME Inv, NoneToCheck PROVE Inv'
<1>1. pc' = "rest" \/ \E j \in 2 .. 5 : pc' = Walks[j] /\ lists[Walks[j]] # <<>>
    BY WalkFromFact DEF NoneToCheck
<1>2. /\ pc' \in {"rest"} \cup IssueLists
      /\ pc' \in IssueLists => lists[pc'] # <<>>
    BY <1>1, WalkNames DEF IssueLists
<1>3. UNCHANGED <<cur, lists, die, queue, todo, hw, mem>> /\ cur \in Ways \cup {NoWay}
    BY DEF NoneToCheck, Inv, Types
<1>4. pc' # "idle" /\ pc' # "report"
    BY <1>2 DEF IssueLists
<1>5. QED
    BY <1>2, <1>3, <1>4, OnlyThePass

LEMMA AfterOfList ==
    ASSUME Types, OnOneList, NEW l \in ListNames, NEW w \in Range(lists[l])
    PROVE  /\ After(lists[l], w) \in (Range(lists[l]) \ {w}) \cup {NoWay}
           /\ After(lists[l], w) \in Ways \cup {NoWay}
<1>1. lists[l] \in Seq(Ways) /\ Once(lists[l])
    BY DEF Types, OnOneList, Once
<1>2. Range(lists[l]) \subseteq Ways
    BY <1>1 DEF Range
<1>3. QED
    BY <1>1, <1>2, AfterFact

LEMMA IdleWayKeeps ==
    ASSUME Inv, NEW w \in Ways, IdleWay(w)
    PROVE  Inv'
<1> USE DEF Inv
<1>1. /\ pc = "idle" /\ cur = w /\ UNCHANGED <<pc, die, hw, mem>>
      /\ cur' = After(lists["idle"], w)
      /\ lists' = IF queue'[w] = <<>> THEN lists
                  ELSE PutToNandWayPriorityTable(SelectivGetFromNandIdleList(lists, w), w,
                                                 Head(queue'[w]).code)
    BY DEF IdleWay
<1>2. PICK n \in Released(Nobody, queue, todo, w) : LetGo(queue, todo, n)
    BY DEF IdleWay
<1>3. n \in Shares(todo)
    BY <1>2, NobodyFact, ReleasedFact DEF Types
<1>4. /\ queue' \in [Ways -> Seq(Req)] /\ todo' \in [Ways -> Seq(Req)]
      /\ \A v \in Ways : HeadKept(v) /\ SumKept(v)
    BY <1>2, <1>3, LetGoKeeps
<1>5. HeldInv'
    BY <1>1, <1>4, HoldsAll
<1>6. "idle" \in ListNames /\ OnOneList /\ ListsFit /\ lists \in [ListNames -> Seq(Ways)]
    BY DEF ListNames, WayInv, Types
<1>7. w \in Range(lists["idle"])
    BY <1>1, <1>6, OnList DEF WayInv
<1>8. /\ cur' \in (Range(lists["idle"]) \ {w}) \cup {NoWay}
      /\ cur' \in Ways \cup {NoWay}
    BY <1>1, <1>6, <1>7, AfterOfList
<1>9. CASE queue'[w] = <<>>
    <2>1. lists' = lists
        BY <1>1, <1>9
    <2>2. OnOneList' /\ ListsFit'
        BY <1>1, <1>4, <1>6, <2>1, StayFits
    <2>3. Types'
        BY <1>1, <1>4, <1>8, <2>1 DEF Types
    <2>4. WayInv'
        BY <1>1, <1>8, <2>1, <2>2 DEF WayInv, IssueLists
    <2>5. QED
        BY <1>5, <2>3, <2>4
<1>10. CASE queue'[w] # <<>>
    <2>1. Head(queue'[w]) \in Req
        BY <1>4, <1>10
    <2>2. Head(queue'[w]).code \in Codes
        BY <2>1 DEF Req
    <2>3. PICK m \in IssueLists : m = PriorityList(Head(queue'[w]).code)
        BY <2>2, PriorityFact
    <2>4. lists' = Put(Get(lists, "idle", w), m, w)
        BY <1>1, <1>10, <2>2, <2>3, PriorityFact DEF SelectivGetFromNandIdleList
    <2>5. m \in ListNames /\ m # "idle"
        BY <2>3 DEF ListNames, IssueLists
    <2>6. die[w].state = "IDLE"
        BY <1>6, <1>7 DEF ListsFit, Fits
    <2>7. Fits(m, w)'
        BY <1>1, <1>10, <2>2, <2>3, <2>6, PriorityFits
    <2>8. /\ lists' \in [ListNames -> Seq(Ways)]
          /\ OnOneList'
          /\ Range(lists'["idle"]) = Range(lists["idle"]) \ {w}
        BY <1>6, <1>7, <2>4, <2>5, MoveFact
    <2>9. ListsFit'
        BY <1>1, <1>4, <1>6, <1>7, <2>4, <2>5, <2>7, MoveFits
    <2>10. Types'
        BY <1>1, <1>4, <1>8, <2>8 DEF Types
    <2>11. WayInv'
        BY <1>1, <1>8, <2>8, <2>9 DEF WayInv, IssueLists
    <2>12. QED
        BY <1>5, <2>10, <2>11
<1>11. QED
    BY <1>9, <1>10

(* The way w leaves the status report list, and the walk goes on. *)
LEMMA ReportMoves ==
    ASSUME Inv, NEW w \in Ways, ReportOf(w)
    PROVE  /\ pc = "report" /\ pc' = "report" /\ hw' = hw /\ mem' = mem
           /\ w \in Range(lists["statusReport"])
           /\ Fits("statusReport", w)
           /\ cur' \in (Range(lists["statusReport"]) \ {w}) \cup {NoWay}
           /\ cur' \in Ways \cup {NoWay}
<1> USE DEF Inv
<1>1. /\ pc = "report" /\ cur = w /\ pc' = "report" /\ hw' = hw /\ mem' = mem
      /\ cur' = After(lists["statusReport"], w)
    BY DEF ReportOf
<1>2. "statusReport" \in ListNames /\ OnOneList /\ ListsFit
    BY DEF ListNames, WayInv
<1>3. w \in Range(lists["statusReport"])
    BY <1>1, <1>2, OnList DEF WayInv
<1>4. Fits("statusReport", w)
    BY <1>2, <1>3 DEF ListsFit
<1>5. QED
    BY <1>1, <1>2, <1>3, <1>4, AfterOfList

(* The other ways keep what they have when one way's request goes on. *)
LEMMA OthersHold ==
    ASSUME Types, HeldInv, hw' = hw, mem' = mem, NEW w \in Ways, Holds(w)',
           \A v \in Ways \ {w} : die'[v] = die[v] /\ HeadKept(v)
    PROVE  HeldInv'
<1>1. ASSUME NEW v \in Ways, v # w PROVE Holds(v)'
    <2>1. Holds(v) /\ die[v].state \in {"IDLE", "EXE"}
        BY DEF HeldInv, Types, Die
    <2>2. QED
        BY <1>1, <2>1, HoldsKept
<1>2. QED
    BY <1>1 DEF HeldInv

(* What the pass learns of a request is what the flash did. *)
LEMMA StatusFact ==
    ASSUME Inv, NEW w \in Ways, Fits("statusReport", w),
           ReqStatus(w) # "RUNNING"
    PROVE  /\ Quiet(hw[w].cmds)
           /\ \/ /\ HeadReq(w).code = "READ_TRANSFER"
                 /\ hw[w].cmds = <<>> /\ ~hw[w].running
                 /\ ReqStatus(w) = "DONE" /\ HeadReq(w).ecc => mem[w].errorInfo # "bad"
                 /\ ReqStatus(w) # "DONE" => mem[w].errorInfo # "good"
              \/ /\ HeadReq(w).code \in {"READ", "WRITE", "ERASE"}
                 /\ hw[w].cmds = <<>> /\ ~hw[w].running
                 /\ ReqStatus(w) = "DONE" => ~hw[w].failed
                 /\ ReqStatus(w) # "DONE" => hw[w].failed
              \/ /\ HeadReq(w).code \in {"RESET", "SET_FEATURE"}
                 /\ ReqStatus(w) = "DONE"
<1> USE DEF Inv
<1>1. Holds(w) /\ die[w].state = "EXE"
    BY DEF HeldInv, Fits
<1>2. die[w].check \in {"REPORT", "COMPLETION_FLAG", "NONE"}
    BY DEF Fits
<1>3. mem[w].flag \in BOOLEAN /\ mem[w].errorInfo \in {"good", "worn", "bad"}
    BY DEF Types, Answer
<1>4. Quiet(<<>>)
    BY DEF Quiet
<1>5. CASE die[w].check = "COMPLETION_FLAG"
    <2>1. mem[w].flag
        BY <1>5 DEF ReqStatus
    <2>2. ReqStatus(w) = IF HeadReq(w).ecc THEN CheckEccErrorInfo(w) ELSE "DONE"
        BY <1>5, <2>1 DEF ReqStatus
    <2>3. HeadReq(w).code = "READ_TRANSFER" /\ hw[w].cmds = <<>> /\ ~hw[w].running
        BY <1>1, <1>5, <2>1 DEF Holds
    <2>4. /\ ReqStatus(w) = "DONE" /\ HeadReq(w).ecc => mem[w].errorInfo # "bad"
          /\ ReqStatus(w) # "DONE" => mem[w].errorInfo # "good"
        BY <2>2 DEF CheckEccErrorInfo
    <2>5. QED
        BY <1>4, <2>3, <2>4
<1>6. CASE die[w].check = "REPORT"
    <2>1. \/ ReqStatus(w) = "DONE" /\ mem[w].report = "pass"
          \/ ReqStatus(w) = "FAIL" /\ mem[w].report = "fail"
        BY <1>6 DEF ReqStatus
    <2>2. HeadReq(w).code \in {"READ", "WRITE", "ERASE"} /\ hw[w].cmds = <<>>
        BY <1>1, <1>6, <2>1 DEF Holds
    <2>3. /\ mem[w].report = "pass" => ~hw[w].running /\ ~hw[w].failed
          /\ mem[w].report = "fail" => ~hw[w].running /\ hw[w].failed
        BY <1>1, <1>6 DEF Holds
    <2>4. QED
        BY <1>4, <2>1, <2>2, <2>3
<1>7. CASE die[w].check = "NONE"
    <2>1. ReqStatus(w) = "DONE"
        BY <1>7 DEF ReqStatus
    <2>2. HeadReq(w).code \in {"RESET", "SET_FEATURE"} /\ Quiet(hw[w].cmds)
        BY <1>1, <1>7 DEF Holds
    <2>3. QED
        BY <2>1, <2>2
<1>8. QED
    BY <1>2, <1>5, <1>6, <1>7

LEMMA ReportEndedKeeps ==
    ASSUME Inv, NEW w \in Ways, ReportEnded(w)
    PROVE  Inv'
<1> USE DEF Inv
<1>1. ReportOf(w) /\ ReqStatus(w) # "RUNNING" /\ ExecuteNandReq(w, ReqStatus(w))
    BY DEF ReportEnded
<1>2. /\ pc = "report" /\ pc' = "report" /\ hw' = hw /\ mem' = mem
      /\ w \in Range(lists["statusReport"])
      /\ Fits("statusReport", w)
      /\ cur' \in (Range(lists["statusReport"]) \ {w}) \cup {NoWay}
      /\ cur' \in Ways \cup {NoWay}
    BY <1>1, ReportMoves
<1>3. queue[w] # <<>>
    BY <1>2 DEF Fits
<1>4. /\ queue' \in [Ways -> Seq(Req)] /\ todo' \in [Ways -> Seq(Req)]
      /\ \A v \in Ways \ {w} : HeadKept(v) /\ SumKept(v)
      /\ IdleDie(w)
    BY <1>1, <1>3, ExecuteFact
<1>5. Quiet(hw[w].cmds)
    BY <1>1, <1>2, StatusFact
<1>6. Holds(w)'
    BY <1>2, <1>4, <1>5 DEF Holds, IdleDie
<1>7. HeldInv'
    BY <1>2, <1>4, <1>6, OthersHold DEF IdleDie
<1>8. /\ "statusReport" \in ListNames /\ OnOneList /\ ListsFit
      /\ lists \in [ListNames -> Seq(Ways)]
    BY DEF ListNames, WayInv, Types
<1>9. \E m \in ListNames : /\ m # "statusReport"
                           /\ lists' = Put(Get(lists, "statusReport", w), m, w)
                           /\ Fits(m, w)'
    <2>1. CASE queue'[w] = <<>>
        <3>1. lists' = Put(Get(lists, "statusReport", w), "idle", w)
            BY <2>1 DEF ReportEnded, PutToNandIdleList, SelectivGetFromNandStatusReportList
        <3>2. Fits("idle", w)'
            BY <1>4 DEF Fits, IdleDie
        <3>3. "idle" \in ListNames
            BY DEF ListNames
        <3>4. QED
            BY <3>1, <3>2, <3>3
    <2>2. CASE queue'[w] # <<>>
        <3>1. Head(queue'[w]) \in Req
            BY <1>4, <2>2
        <3>2. Head(queue'[w]).code \in Codes
            BY <3>1 DEF Req
        <3>3. PICK m \in IssueLists : m = PriorityList(Head(queue'[w]).code)
            BY <3>2, PriorityFact
        <3>4. lists' = PutToNandWayPriorityTable(
                           SelectivGetFromNandStatusReportList(lists, w), w,
                           Head(queue'[w]).code)
            BY <2>2 DEF ReportEnded
        <3>5. lists' = Put(Get(lists, "statusReport", w), m, w)
            BY <3>2, <3>3, <3>4, PriorityFact DEF SelectivGetFromNandStatusReportList
        <3>6. Fits(m, w)'
            BY <1>4, <2>2, <3>2, <3>3, PriorityFits DEF IdleDie
        <3>7. QED
            BY <3>3, <3>5, <3>6 DEF ListNames, IssueLists
    <2>3. QED
        BY <2>1, <2>2
<1>10. PICK m \in ListNames : /\ m # "statusReport"
                              /\ lists' = Put(Get(lists, "statusReport", w), m, w)
                              /\ Fits(m, w)'
    BY <1>9
<1>11. /\ lists' \in [ListNames -> Seq(Ways)]
       /\ OnOneList'
       /\ Range(lists'["statusReport"]) = Range(lists["statusReport"]) \ {w}
    BY <1>2, <1>8, <1>10, MoveFact
<1>12. ListsFit'
    BY <1>2, <1>4, <1>8, <1>10, MoveFits DEF IdleDie
<1>13. Types'
    BY <1>2, <1>4, <1>11 DEF Types, IdleDie
<1>14. WayInv'
    BY <1>2, <1>11, <1>12 DEF WayInv, IssueLists
<1>15. QED
    BY <1>7, <1>13, <1>14

LEMMA ReportAgainKeeps ==
    ASSUME Inv, NEW w \in Ways, ReportAgain(w)
    PROVE  Inv'
<1> USE DEF Inv
<1>1. ReportOf(w) /\ NextCheck(w) = "CHECK" /\ UNCHANGED <<queue, todo>>
    BY DEF ReportAgain
<1>2. /\ pc = "report" /\ pc' = "report" /\ hw' = hw /\ mem' = mem
      /\ w \in Range(lists["statusReport"])
      /\ Fits("statusReport", w)
      /\ cur' \in (Range(lists["statusReport"]) \ {w}) \cup {NoWay}
      /\ cur' \in Ways \cup {NoWay}
    BY <1>1, ReportMoves
<1> DEFINE d == [die[w] EXCEPT !.check = "CHECK"]
<1>3. die' = [die EXCEPT ![w] = d]
    BY DEF ReportAgain
<1>4. die[w] \in Die /\ d \in Die /\ d.check = "CHECK" /\ d.state = die[w].state
    BY DEF Types, Die, Checks
<1> HIDE DEF d
<1>5. /\ die' \in [Ways -> Die]
      /\ die'[w].state = "EXE" /\ die'[w].check = "CHECK"
      /\ \A v \in Ways \ {w} : die'[v] = die[v]
    BY <1>2, <1>3, <1>4, DieFact DEF Fits
<1>6. \A v \in Ways : HeadKept(v)
    BY <1>1 DEF HeadKept
<1>7. die[w].check = "REPORT" /\ mem[w].report = "running"
    BY <1>1, <1>2 DEF NextCheck, Fits
<1>8. Holds(w) /\ die[w].state = "EXE" /\ queue[w] # <<>>
    BY <1>2 DEF HeldInv, Fits
<1>9. HeadReq(w).code \in {"READ", "WRITE", "ERASE"} /\ Quiet(hw[w].cmds)
    BY <1>7, <1>8 DEF Holds, Quiet
<1>10. Holds(w)'
    BY <1>1, <1>2, <1>5, <1>8, <1>9 DEF Holds, HeadReq
<1>11. HeldInv'
    BY <1>2, <1>5, <1>6, <1>10, OthersHold
<1>12. /\ "statusReport" \in ListNames /\ "statusCheck" \in ListNames
       /\ OnOneList /\ ListsFit /\ lists \in [ListNames -> Seq(Ways)]
    BY DEF ListNames, WayInv, Types
<1>13. lists' = Put(Get(lists, "statusReport", w), "statusCheck", w)
    BY DEF ReportAgain, PutToNandStatusCheckList, SelectivGetFromNandStatusReportList
<1>14. Fits("statusCheck", w)'
    BY <1>1, <1>5, <1>8 DEF Fits
<1>15. /\ lists' \in [ListNames -> Seq(Ways)]
       /\ OnOneList'
       /\ Range(lists'["statusReport"]) = Range(lists["statusReport"]) \ {w}
    <2>1. "statusReport" # "statusCheck"
        OBVIOUS
    <2>2. /\ lists' \in [ListNames -> Seq(Ways)] /\ OnOneList'
          /\ \A k \in ListNames \ {"statusCheck"} : Range(lists'[k]) = Range(lists[k]) \ {w}
        BY <1>2, <1>12, <1>13, MoveFact
    <2>3. QED
        BY <1>12, <2>1, <2>2
<1>16. ListsFit'
    BY <1>2, <1>5, <1>6, <1>12, <1>13, <1>14, MoveFits
<1>17. Types'
    BY <1>1, <1>2, <1>5, <1>15 DEF Types
<1>18. WayInv'
    BY <1>2, <1>15, <1>16 DEF WayInv, IssueLists
<1>19. QED
    BY <1>11, <1>17, <1>18

LEMMA ReportWaitsKeeps ==
    ASSUME Inv, NEW w \in Ways, ReportWaits(w)
    PROVE  Inv'
<1>1. ReportOf(w) /\ UNCHANGED <<lists, die, queue, todo>>
    BY DEF ReportWaits
<1>2. /\ pc' = "report" /\ hw' = hw /\ mem' = mem
      /\ cur' \in (Range(lists["statusReport"]) \ {w}) \cup {NoWay}
      /\ cur' \in Ways \cup {NoWay}
    BY <1>1, ReportMoves
<1>3. QED
    BY <1>1, <1>2, OnlyThePass DEF IssueLists

(* A walk that has moved a way of its list goes on to a later one. *)
LEMMA WalksOn ==
    ASSUME lists \in [ListNames -> Seq(Ways)], OnOneList,
           NEW k \in 1 .. 5, NEW m \in {"statusCheck", "statusReport"},
           NEW w \in Range(lists[Walks[k]]),
           lists' = Put(Get(lists, Walks[k], w), m, w),
           NEW next, next = "rest" \/ next = WalkFrom(k + 1, lists)
    PROVE  /\ next \in {"rest"} \cup IssueLists
           /\ next \in IssueLists => lists'[next] # <<>>
<1>1. CASE next = "rest"
    BY <1>1 DEF IssueLists
<1>2. ASSUME NEW j \in k + 1 .. 5, next = Walks[j], lists[Walks[j]] # <<>>
      PROVE  next \in IssueLists /\ lists'[next] # <<>>
    <2>1. j \in 2 .. 5 /\ j # k
        BY <1>2
    <2>2. next \in IssueLists /\ next \in ListNames /\ Walks[k] \in ListNames
        BY <1>2, <2>1, WalkNames DEF ListNames
    <2>3. next # Walks[k]
        BY <1>2, <2>1, WalkNames
    <2>4. m \in ListNames
        BY DEF ListNames
    <2>5. lists'[next] # <<>>
        BY <1>2, <2>2, <2>3, <2>4, OthersFull
    <2>6. QED
        BY <2>2, <2>5
<1>3. CASE next = WalkFrom(k + 1, lists)
    <2>1. next = "rest" \/ \E j \in k + 1 .. 5 : next = Walks[j] /\ lists[Walks[j]] # <<>>
        BY <1>3, WalkFromFact
    <2>2. QED
        BY <1>1, <1>2, <2>1
<1>4. QED
    BY <1>1, <1>3

LEMMA StatusCheckKeeps ==
    ASSUME Inv, NEW i \in DOMAIN lists["statusCheck"], StatusCheck(i)
    PROVE  Inv'
<1> USE DEF Inv
<1>1. /\ "statusReport" \in ListNames /\ "statusCheck" \in ListNames
      /\ OnOneList /\ ListsFit /\ lists \in [ListNames -> Seq(Ways)]
    BY DEF ListNames, WayInv, Types
<1>2. PICK w \in Ways : w = lists["statusCheck"][i] /\ w \in Range(lists["statusCheck"])
    BY <1>1 DEF Range
<1>3. ChecksStatus(w) /\ UNCHANGED <<cur, queue, todo>>
    BY <1>2 DEF StatusCheck
<1>4. pc' = "rest" \/ pc' = WalkFrom(2, lists)
    BY DEF StatusCheck
<1>5. Fits("statusCheck", w) /\ Holds(w)
    BY <1>1, <1>2 DEF ListsFit, HeldInv
<1>6. queue[w] # <<>> /\ die[w].state = "EXE" /\ die[w].check \in {"CHECK", "NONE"}
    BY <1>5 DEF Fits
<1>7. \A v \in Ways : HeadKept(v)
    BY <1>3 DEF HeadKept
<1>8. lists' = Put(Get(lists, "statusCheck", w), "statusReport", w)
    BY <1>3 DEF ChecksStatus, PutToNandStatusReportList, SelectiveGetFromNandStatusCheckList
<1>9. lists' \in [ListNames -> Seq(Ways)] /\ OnOneList'
    BY <1>1, <1>2, <1>8, MoveFact
<1>10. pc' \in {"rest"} \cup IssueLists /\ (pc' \in IssueLists => lists'[pc'] # <<>>)
    <2>1. Walks[1] = "statusCheck" /\ 1 \in 1 .. 5 /\ 1 + 1 = 2
        BY WalkNames
    <2>2. w \in Range(lists[Walks[1]]) /\ lists' = Put(Get(lists, Walks[1], w), "statusReport", w)
        BY <1>2, <1>8, <2>1
    <2>3. pc' = "rest" \/ pc' = WalkFrom(1 + 1, lists)
        BY <1>4, <2>1
    <2>4. QED
        BY <1>1, <2>1, <2>2, <2>3, WalksOn
<1>11. CASE die[w].check = "CHECK"
    <2>1. /\ hw' = Issued(hw, w, "STATUS") /\ mem' = [mem EXCEPT ![w].report = "none"]
          /\ die' = [die EXCEPT ![w].check = "REPORT"]
        BY <1>3, <1>11 DEF ChecksStatus, V2FStatusCheckAsync
    <2> DEFINE d == [die[w] EXCEPT !.check = "REPORT"]
               m == [mem[w] EXCEPT !.report = "none"]
    <2>2. d \in Die /\ d.check = "REPORT" /\ d.state = "EXE"
        <3>1. die[w] \in Die
            BY <1>2 DEF Types
        <3>2. "REPORT" \in Checks
            BY DEF Checks
        <3>3. QED
            BY <1>6, <3>1, <3>2 DEF Die
    <2>3. m \in Answer /\ m.report = "none"
        <3>1. mem[w] \in Answer
            BY <1>2 DEF Types
        <3>2. QED
            BY <3>1 DEF Answer
    <2>4. die' = [die EXCEPT ![w] = d] /\ mem' = [mem EXCEPT ![w] = m]
        BY <2>1
    <2> HIDE DEF d, m
    <2>5. /\ die' \in [Ways -> Die] /\ die'[w].check = "REPORT" /\ die'[w].state = "EXE"
          /\ \A v \in Ways \ {w} : die'[v] = die[v]
        BY <1>2, <2>2, <2>4, DieFact
    <2>6. /\ mem' \in [Ways -> Answer] /\ mem'[w].report = "none"
          /\ \A v \in Ways \ {w} : mem'[v] = mem[v]
        BY <1>2, <2>4, <2>3 DEF Types
    <2>7. "STATUS" \in Commands \ FlashOps
        BY DEF Commands, FlashOps
    <2>8. /\ hw' \in [Ways -> Chip] /\ hw'[w].cmds = Append(hw[w].cmds, "STATUS")
          /\ \A v \in Ways \ {w} : hw'[v] = hw[v]
        BY <1>2, <2>1, <2>7, IssuedFact
    <2>9. HeadReq(w).code \in {"READ", "WRITE", "ERASE"} /\ Quiet(hw[w].cmds)
        BY <1>5, <1>6, <1>11 DEF Holds
    <2>10. hw[w].cmds \in Seq(Commands)
        BY <1>2 DEF Types, Chip
    <2>11. Ends(hw'[w].cmds, "STATUS")
        BY <2>7, <2>8, <2>9, <2>10, AppendCommand
    <2>12. Holds(w)'
        BY <1>3, <1>6, <2>5, <2>6, <2>9, <2>11 DEF Holds, HeadReq
    <2>13. Fits("statusReport", w)'
        BY <1>3, <1>6, <2>5 DEF Fits
    <2>14. ListsFit'
        BY <1>1, <1>2, <1>7, <1>8, <2>5, <2>13, MoveFits
    <2>15. ASSUME NEW v \in Ways, v # w PROVE Holds(v)'
        <3>1. Holds(v) /\ die[v].state \in {"IDLE", "EXE"}
            BY DEF HeldInv, Types, Die
        <3>2. QED
            BY <1>7, <2>5, <2>6, <2>8, <2>15, <3>1, HoldsKept
    <2>16. Types'
        BY <1>3, <1>9, <1>10, <2>5, <2>6, <2>8 DEF Types
    <2>17. WayInv'
        BY <1>9, <1>10, <2>14 DEF WayInv, IssueLists
    <2>18. QED
        BY <2>12, <2>15, <2>16, <2>17 DEF HeldInv
<1>12. CASE die[w].check # "CHECK"
    <2>1. UNCHANGED <<die, hw, mem>>
        BY <1>3, <1>12 DEF ChecksStatus
    <2>2. Fits("statusReport", w)'
        BY <1>3, <1>6, <1>12, <2>1 DEF Fits
    <2>3. ListsFit'
        BY <1>1, <1>2, <1>7, <1>8, <2>1, <2>2, MoveFits
    <2>4. HeldInv'
        BY <1>7, <2>1, HoldsAll
    <2>5. Types'
        BY <1>3, <1>9, <1>10, <2>1 DEF Types
    <2>6. WayInv'
        BY <1>9, <1>10, <2>3 DEF WayInv, IssueLists
    <2>7. QED
        BY <2>4, <2>5, <2>6
<1>13. QED
    BY <1>11, <1>12

(* The list an issued request's way goes to. *)
IssuedTo(l) == IF l = "readTransfer" THEN "statusReport" ELSE "statusCheck"

LEMMA PutIssuedFact ==
    ASSUME NEW l \in IssueLists, NEW w
    PROVE  PutIssued(l, w) = Put(Get(lists, l, w), IssuedTo(l), w)
<1> USE DEF PutIssued, IssuedTo, PutToNandStatusCheckList, PutToNandStatusReportList
<1>1. CASE l = "readTrigger"
    BY <1>1 DEF SelectiveGetFromNandReadTriggerList
<1>2. CASE l = "erase"
    BY <1>2 DEF SelectiveGetFromNandEraseList
<1>3. CASE l = "write"
    BY <1>3 DEF SelectiveGetFromNandWriteList
<1>4. CASE l = "readTransfer"
    BY <1>4 DEF SelectiveGetFromNandReadTransferList
<1>5. QED
    BY <1>1, <1>2, <1>3, <1>4 DEF IssueLists

(* The request at the head of an idle way is issued. *)
LEMMA IssueHolds ==
    ASSUME Types, NEW w \in Ways, Holds(w), die[w].state = "IDLE", queue[w] # <<>>,
           IssueNandReq(w), todo' = todo
    PROVE  /\ queue' \in [Ways -> Seq(Req)] /\ die' \in [Ways -> Die]
           /\ hw' \in [Ways -> Chip] /\ mem' \in [Ways -> Answer]
           /\ \A v \in Ways : HeadKept(v) /\ SumKept(v)
           /\ \A v \in Ways \ {w} : die'[v] = die[v] /\ hw'[v] = hw[v] /\ mem'[v] = mem[v]
           /\ die'[w].state = "EXE"
           /\ die'[w].check = IF HeadReq(w).code = "READ_TRANSFER" THEN "COMPLETION_FLAG"
                              ELSE IF HeadReq(w).code \in {"READ", "WRITE", "ERASE"} THEN "CHECK"
                              ELSE "NONE"
           /\ Holds(w)'
<1> DEFINE r == HeadReq(w)
           opt == CASE r.code \in {"READ", "WRITE", "ERASE"} -> "CHECK"
                    [] r.code = "READ_TRANSFER" -> "COMPLETION_FLAG"
                    [] r.code \in {"RESET", "SET_FEATURE"} -> "NONE"
           d == [die[w] EXCEPT !.state = "EXE", !.check = opt]
<1>1. HeadReq(w) \in Req
    BY HeadReqFact
<1>2. r.code \in Codes
    BY <1>1 DEF Req
<1>3. die' = [die EXCEPT ![w].state = "EXE", ![w].check = opt]
    BY DEF IssueNandReq
<1>4. opt = IF HeadReq(w).code = "READ_TRANSFER" THEN "COMPLETION_FLAG"
            ELSE IF HeadReq(w).code \in {"READ", "WRITE", "ERASE"} THEN "CHECK" ELSE "NONE"
    BY <1>2 DEF Codes
<1>5. opt \in Checks
    BY <1>4 DEF Checks
<1> HIDE DEF opt
<1>6. d \in Die /\ d.state = "EXE" /\ d.check = opt
    BY <1>5 DEF Types, Die
<1> HIDE DEF d
<1>7. /\ die' \in [Ways -> Die] /\ die'[w].state = "EXE" /\ die'[w].check = opt
      /\ \A v \in Ways \ {w} : die'[v] = die[v]
    <2>1. die' = [die EXCEPT ![w] = d]
        BY <1>3 DEF d
    <2>2. QED
        BY <1>6, <2>1, DieFact
<1>8. queue' \in [Ways -> Seq(Req)] /\ \A v \in Ways : HeadKept(v) /\ SumKept(v)
    <2>1. CASE HeadReq(w).code = "READ"
        <3>1. queue' = [queue EXCEPT ![w][1].tries = @ + 1]
            BY <2>1 DEF IssueNandReq
        <3>2. QED
            BY <3>1, CountTryFact
    <2>2. CASE HeadReq(w).code # "READ"
        <3>1. queue' = queue
            BY <2>2 DEF IssueNandReq
        <3>2. QED
            BY <3>1 DEF Types, HeadKept, SumKept
    <2>3. QED
        BY <2>1, <2>2
<1>9. queue'[w] # <<>> /\ Head(queue'[w]).code = HeadReq(w).code
    BY <1>8 DEF HeadKept, HeadReq
<1>10. /\ hw[w].cmds \in Seq(Commands) /\ Quiet(hw[w].cmds)
       /\ hw \in [Ways -> Chip] /\ mem \in [Ways -> Answer]
    BY DEF Types, Chip, Holds
<1>11. CASE HeadReq(w).code = "READ_TRANSFER"
    <2>1. hw' = Issued(hw, w, "TRANSFER") /\ mem' = [mem EXCEPT ![w].flag = FALSE]
        BY <1>11 DEF IssueNandReq, V2FReadPageTransferAsync, FlashOps
    <2> DEFINE m == [mem[w] EXCEPT !.flag = FALSE]
    <2>2. m \in Answer /\ m.flag = FALSE
        BY <1>10 DEF Answer
    <2>3. mem' = [mem EXCEPT ![w] = m]
        BY <2>1
    <2> HIDE DEF m
    <2>4. /\ mem' \in [Ways -> Answer] /\ mem'[w].flag = FALSE
          /\ \A v \in Ways \ {w} : mem'[v] = mem[v]
        BY <1>10, <2>2, <2>3
    <2>5. "TRANSFER" \in Commands \ FlashOps
        BY DEF Commands, FlashOps
    <2>6. /\ hw' \in [Ways -> Chip] /\ hw'[w].cmds = Append(hw[w].cmds, "TRANSFER")
          /\ \A v \in Ways \ {w} : hw'[v] = hw[v]
        BY <2>1, <2>5, IssuedFact
    <2>7. Ends(hw'[w].cmds, "TRANSFER")
        BY <1>10, <2>5, <2>6, AppendCommand
    <2>8. Holds(w)'
        BY <1>4, <1>7, <1>9, <1>11, <2>4, <2>7 DEF Holds, HeadReq
    <2>9. QED
        BY <1>4, <1>7, <1>8, <2>4, <2>6, <2>8
<1>12. CASE HeadReq(w).code \in FlashOps
    <2>1. hw' = Issued(hw, w, HeadReq(w).code) /\ mem' = mem
        BY <1>12 DEF IssueNandReq, V2FCommand, FlashOps
    <2>2. HeadReq(w).code \in Commands
        BY <1>12 DEF Commands
    <2>3. /\ hw' \in [Ways -> Chip] /\ hw'[w].cmds = Append(hw[w].cmds, HeadReq(w).code)
          /\ \A v \in Ways \ {w} : hw'[v] = hw[v]
        BY <2>1, <2>2, IssuedFact
    <2>4. Quiet(hw'[w].cmds)
        BY <1>10, <1>12, <2>2, <2>3, AppendCommand
    <2>5. Holds(w)'
        BY <1>4, <1>7, <1>9, <1>12, <2>4 DEF Holds, HeadReq, FlashOps
    <2>6. QED
        BY <1>4, <1>7, <1>8, <1>10, <2>1, <2>3, <2>5
<1>13. CASE HeadReq(w).code = "SET_FEATURE"
    <2>1. hw' = hw /\ mem' = mem
        BY <1>13 DEF IssueNandReq, FlashOps
    <2>2. Holds(w)'
        BY <1>4, <1>7, <1>9, <1>10, <1>13, <2>1 DEF Holds, HeadReq
    <2>3. QED
        BY <1>4, <1>7, <1>8, <1>10, <2>1, <2>2
<1>14. QED
    BY <1>2, <1>11, <1>12, <1>13 DEF Codes, FlashOps

LEMMA IssueKeeps ==
    ASSUME Inv, NEW k \in 2 .. Len(Walks), Issue(k)
    PROVE  Inv'
<1> USE DEF Inv
<1> DEFINE l == Walks[k]
<1>1. k \in 2 .. 5 /\ k \in 1 .. 5
    BY WalkNames
<1>2. l \in IssueLists /\ l \in ListNames
    BY <1>1, WalkNames
<1>3. pc = l /\ lists[l] # <<>>
    BY <1>2 DEF Issue, WayInv
<1>4. OnOneList /\ ListsFit /\ lists \in [ListNames -> Seq(Ways)] /\ lists[l] \in Seq(Ways)
    BY <1>2 DEF WayInv, Types
<1> HIDE DEF l
<1>5. PICK w \in Ways : w = Head(lists[l]) /\ w \in Range(lists[l])
    BY <1>3, <1>4 DEF Range
<1>6. /\ IF die[w].state = "IDLE" THEN MayIssue(w) /\ IssueNandReq(w)
                                  ELSE UNCHANGED <<die, queue, hw, mem>>
      /\ lists' = PutIssued(l, w)
    BY <1>3, <1>5 DEF Issue
<1>7. UNCHANGED <<cur, todo>> /\ (pc' = "rest" \/ pc' = WalkFrom(k + 1, lists))
    BY DEF Issue
<1>8. Fits(l, w) /\ Holds(w)
    BY <1>2, <1>4, <1>5 DEF ListsFit, HeldInv
<1>9. die[w].state = "IDLE" /\ queue[w] # <<>>
    BY <1>2, <1>8 DEF Fits, IssueLists
<1>10. l = "readTransfer" <=> HeadReq(w).code = "READ_TRANSFER"
    BY <1>2, <1>8 DEF Fits, IssueLists
<1>11. /\ queue' \in [Ways -> Seq(Req)] /\ die' \in [Ways -> Die]
       /\ hw' \in [Ways -> Chip] /\ mem' \in [Ways -> Answer]
       /\ \A v \in Ways : HeadKept(v)
       /\ \A v \in Ways \ {w} : die'[v] = die[v] /\ hw'[v] = hw[v] /\ mem'[v] = mem[v]
       /\ die'[w].state = "EXE"
       /\ die'[w].check = IF HeadReq(w).code = "READ_TRANSFER" THEN "COMPLETION_FLAG"
                          ELSE IF HeadReq(w).code \in {"READ", "WRITE", "ERASE"} THEN "CHECK"
                          ELSE "NONE"
       /\ Holds(w)'
    BY <1>5, <1>6, <1>7, <1>8, <1>9, IssueHolds
<1>12. lists' = Put(Get(lists, l, w), IssuedTo(l), w)
    BY <1>2, <1>6, PutIssuedFact
<1>13. IssuedTo(l) \in {"statusCheck", "statusReport"} /\ IssuedTo(l) \in ListNames
    BY DEF IssuedTo, ListNames
<1>14. queue'[w] # <<>>
    BY <1>5, <1>9, <1>11 DEF HeadKept
<1>15. Fits(IssuedTo(l), w)'
    <2>1. CASE l = "readTransfer"
        BY <1>10, <1>11, <1>14, <2>1 DEF Fits, IssuedTo
    <2>2. CASE l # "readTransfer"
        BY <1>10, <1>11, <1>14, <2>2 DEF Fits, IssuedTo
    <2>3. QED
        BY <2>1, <2>2
<1>16. lists' \in [ListNames -> Seq(Ways)] /\ OnOneList'
    BY <1>2, <1>4, <1>5, <1>12, <1>13, MoveFact
<1>17. ListsFit'
    <2>1. \A v \in Ways \ {w} : die'[v] = die[v] /\ HeadKept(v)
        BY <1>11
    <2>2. QED
        BY <1>2, <1>4, <1>5, <1>12, <1>13, <1>15, <2>1, MoveFits
<1>18. pc' \in {"rest"} \cup IssueLists /\ (pc' \in IssueLists => lists'[pc'] # <<>>)
    BY <1>1, <1>4, <1>5, <1>7, <1>12, <1>13, WalksOn DEF l
<1>19. ASSUME NEW v \in Ways, v # w PROVE Holds(v)'
    <2>1. Holds(v) /\ die[v].state \in {"IDLE", "EXE"}
        BY DEF HeldInv, Types, Die
    <2>2. QED
        BY <1>11, <1>19, <2>1, HoldsKept
<1>20. HeldInv'
    BY <1>11, <1>19 DEF HeldInv
<1>21. Types'
    BY <1>7, <1>11, <1>16, <1>18 DEF Types
<1>22. WayInv'
    BY <1>16, <1>17, <1>18 DEF WayInv, IssueLists
<1>23. QED
    BY <1>20, <1>21, <1>22
-----------------------------------------------------------------------------
(* Theorems *)

(* In every state each way is on one list that fits it, and what the       *)
(* controller holds for a way is what its die waits for.                   *)
THEOREM WayInvariant == Spec => []Inv
<1>1. Inv /\ [Next]_vars => Inv'
    <2> SUFFICES ASSUME Inv, [Next]_vars PROVE Inv'
        OBVIOUS
    <2>1. CASE BeginPass
        BY <2>1, BeginPassKeeps
    <2>2. CASE IdleEnd
        BY <2>2, IdleEndKeeps
    <2>3. ASSUME NEW w \in Ways, IdleWay(w) \/ ReportEnded(w) \/ ReportAgain(w) \/ ReportWaits(w)
          PROVE  Inv'
        BY <2>3, IdleWayKeeps, ReportEndedKeeps, ReportAgainKeeps, ReportWaitsKeeps
    <2>4. CASE ReportEnd
        BY <2>4, ReportEndKeeps
    <2>5. CASE NoneToCheck
        BY <2>5, NoneToCheckKeeps
    <2>6. ASSUME NEW i \in DOMAIN lists["statusCheck"], StatusCheck(i) PROVE Inv'
        BY <2>6, StatusCheckKeeps
    <2>7. ASSUME NEW k \in 2 .. Len(Walks), Issue(k) PROVE Inv'
        BY <2>7, IssueKeeps
    <2>8. ASSUME NEW w \in Ways, Arrive(w) PROVE Inv'
        BY <2>8, ArriveKeeps
    <2>9. ASSUME NEW w \in Ways, HwStep(w) PROVE Inv'
        BY <2>9, StartKeeps, FinishKeeps, ReportStatusKeeps, TransferKeeps DEF HwStep
    <2>10. CASE UNCHANGED vars
        <3>1. UNCHANGED <<pc, cur, lists, die, queue, todo, hw, mem>>
            BY <2>10 DEF vars, pass
        <3>2. QED
            BY <3>1, OnlyThePass DEF Inv, Types, WayInv
    <2>11. QED
        BY <2>1, <2>2, <2>3, <2>4, <2>5, <2>6, <2>7, <2>8, <2>9, <2>10 DEF Next, PassStep
<1>2. QED
    BY <1>1, InitInv, PTL DEF Spec

(* Every way is always on exactly one of the lists, and there once, though *)
(* all of them are linked by the same fields of the way.                   *)
THEOREM OnOneListCorrect == Spec => []OnOneList
<1>1. Inv => OnOneList
    BY DEF Inv, WayInv
<1>2. QED
    BY <1>1, WayInvariant, PTL

(* A way that waits on a list has what the list is for: a die in the right *)
(* state, and at the head of its queue a request of the right code.        *)
THEOREM ListsFitCorrect == Spec => []ListsFit
<1>1. Inv => ListsFit
    BY DEF Inv, WayInv
<1>2. QED
    BY <1>1, WayInvariant, PTL

(* How the request of w ended, as the pass sees it. *)
EndedWell(w) == Complete(w, FALSE) /\ ReqStatus(w) = "DONE" /\ HeadReq(w).code # "READ"
EndedBadly(w) == Complete(w, TRUE) /\ ReqStatus(w) # "DONE"

(* Requests leave, and blocks are marked, only when the pass finds one     *)
(* request ended.                                                          *)
LEMMA WhoLeaves ==
    ASSUME Inv, Next
    PROVE  \/ (\A v \in Ways : SumKept(v)) /\ grown' = grown
           \/ \E w \in Ways : /\ ReportEnded(w)
                              /\ EndedWell(w) \/ EndedBadly(w)
                              /\ \A v \in Ways \ {w} : SumKept(v)
<1> USE DEF Inv
<1>1. CASE UNCHANGED <<queue, todo, grown>>
    BY <1>1 DEF SumKept
<1>2. CASE \/ BeginPass \/ IdleEnd \/ ReportEnd \/ NoneToCheck
           \/ \E w \in Ways : ReportAgain(w) \/ ReportWaits(w) \/ HwStep(w)
           \/ \E i \in DOMAIN lists["statusCheck"] : StatusCheck(i)
    <2>1. UNCHANGED <<queue, todo, grown>>
        BY <1>2 DEF BeginPass, IdleEnd, ReportEnd, NoneToCheck, ReportAgain, ReportWaits,
                    StatusCheck, HwStep, Start, Finish, ReportStatus, Transfer
    <2>2. QED
        BY <1>1, <2>1
<1>3. ASSUME NEW w \in Ways, Arrive(w)
      PROVE  (\A v \in Ways : SumKept(v)) /\ grown' = grown
    <2>1. OneOf(w) \in Shares(todo)
        BY <1>3, OneOfFact DEF Arrive, Types
    <2>2. QED
        BY <1>3, <2>1, LetGoKeeps DEF Arrive
<1>4. ASSUME NEW w \in Ways, IdleWay(w)
      PROVE  (\A v \in Ways : SumKept(v)) /\ grown' = grown
    <2>1. PICK n \in Released(Nobody, queue, todo, w) : LetGo(queue, todo, n)
        BY <1>4 DEF IdleWay
    <2>2. n \in Shares(todo)
        BY <2>1, NobodyFact, ReleasedFact DEF Types
    <2>3. QED
        BY <1>4, <2>1, <2>2, LetGoKeeps DEF IdleWay
<1>5. ASSUME NEW k \in 2 .. Len(Walks), Issue(k)
      PROVE  (\A v \in Ways : SumKept(v)) /\ grown' = grown
    <2>1. UNCHANGED <<todo, grown>>
        BY <1>5 DEF Issue
    <2>2. pc = Walks[k] /\ pc \in IssueLists /\ lists[pc] # <<>> /\ lists[pc] \in Seq(Ways)
        BY <1>5, WalkNames DEF Issue, WayInv, Types
    <2>3. PICK w \in Ways : w = Head(lists[pc])
        BY <2>2
    <2>4. w \in Range(lists[pc])
        BY <2>2, <2>3 DEF Range
    <2>5. IF die[w].state = "IDLE" THEN IssueNandReq(w) ELSE UNCHANGED queue
        BY <1>5, <2>3 DEF Issue
    <2>6. Fits(pc, w) /\ Holds(w)
        BY <2>2, <2>4, WalkNames DEF WayInv, ListsFit, HeldInv
    <2>7. queue[w] # <<>>
        BY <2>2, <2>6 DEF Fits, IssueLists
    <2>8. \A v \in Ways : SumKept(v)
        <3>1. CASE die[w].state = "IDLE"
            BY <2>1, <2>5, <2>6, <2>7, <3>1, IssueHolds
        <3>2. CASE die[w].state # "IDLE"
            BY <2>1, <2>5, <3>2 DEF SumKept
        <3>3. QED
            BY <3>1, <3>2
    <2>9. QED
        BY <2>1, <2>8
<1>6. ASSUME NEW w \in Ways, ReportEnded(w)
      PROVE  \/ (\A v \in Ways : SumKept(v)) /\ grown' = grown
             \/ /\ EndedWell(w) \/ EndedBadly(w)
                /\ \A v \in Ways \ {w} : SumKept(v)
    <2>1. ReportOf(w) /\ ExecuteNandReq(w, ReqStatus(w))
        BY <1>6 DEF ReportEnded
    <2>2. queue[w] # <<>>
        BY <2>1, ReportMoves DEF Fits
    <2>3. /\ \A v \in Ways \ {w} : SumKept(v)
          /\ \/ SumKept(w) /\ grown' = grown
             \/ Complete(w, FALSE) /\ ReqStatus(w) = "DONE" /\ HeadReq(w).code # "READ"
             \/ Complete(w, TRUE) /\ ReqStatus(w) # "DONE"
        BY <2>1, <2>2, ExecuteFact
    <2>4. QED
        BY <2>3 DEF EndedWell, EndedBadly
<1>7. QED
    BY <1>2, <1>3, <1>4, <1>5, <1>6 DEF Next, PassStep

LEMMA KeptStays ==
    ASSUME Types, Types', NEW v \in Ways, SumKept(v)
    PROVE  ~Leaves(v)
<1>1. queue[v] \in Seq(Req) /\ todo[v] \in Seq(Req)
    BY DEF Types
<1>2. Len(queue[v]) \in Nat /\ Len(todo[v]) \in Nat
    BY <1>1, LenProperties
<1>3. Len(queue'[v]) + Len(todo'[v]) = Len(queue[v]) + Len(todo[v])
    BY DEF SumKept
<1>4. queue'[v] \in Seq(Req) /\ todo'[v] \in Seq(Req)
    BY DEF Types
<1>5. Len(queue'[v]) \in Nat /\ Len(todo'[v]) \in Nat
    BY <1>4, LenProperties
<1>6. \A a, b, c, d \in Nat : a + b = c + d => ~ (a + b < c + d)
    OBVIOUS
<1>7. ~ (Len(queue'[v]) + Len(todo'[v]) < Len(queue[v]) + Len(todo[v]))
    BY <1>2, <1>3, <1>5, <1>6, Zenon
<1>8. QED
    BY <1>7 DEF Leaves

(* A request leaves its queue without its block being marked only when the *)
(* flash has done what it asked for, and done it well (CheckReqStatus).    *)
THEOREM LeavesDoneCorrect == Spec => LeavesDone
<1>1. Inv /\ Inv' /\ [Next]_vars =>
          [\A w \in Ways : Leaves(w) /\ HeadReq(w).code \notin {"RESET", "SET_FEATURE"} =>
               DoneWell(w) \/ HeadReq(w).block \in grown']_vars
    <2> SUFFICES ASSUME Inv, Inv', Next, NEW w \in Ways, Leaves(w),
                        HeadReq(w).code \notin {"RESET", "SET_FEATURE"}
                 PROVE  DoneWell(w) \/ HeadReq(w).block \in grown'
        OBVIOUS
    <2>1. ReportEnded(w) /\ (EndedWell(w) \/ EndedBadly(w))
        BY WhoLeaves, KeptStays DEF Inv
    <2>2. CASE EndedBadly(w)
        BY <2>2 DEF EndedBadly, Complete
    <2>3. CASE EndedWell(w)
        <3>1. Fits("statusReport", w) /\ ReqStatus(w) # "RUNNING" /\ ReqStatus(w) = "DONE"
            BY <2>1, <2>3, ReportMoves DEF ReportEnded, EndedWell
        <3>2. QED
            BY <3>1, StatusFact DEF DoneWell
    <2>4. QED
        BY <2>1, <2>2, <2>3
<1>2. QED
    BY <1>1, WayInvariant, PTL DEF Spec, LeavesDone

(* A block is marked bad only for a request of it that the flash failed or *)
(* whose page was worn (ExecuteNandReq, CheckEccErrorInfo).                *)
THEOREM MarksDeservedCorrect == Spec => MarksDeserved
<1>1. Inv /\ Inv' /\ [Next]_vars =>
          [\A b \in grown' \ grown : \E w \in Ways :
               /\ Leaves(w)
               /\ HeadReq(w).block = b
               /\ IF HeadReq(w).code = "READ_TRANSFER" THEN mem[w].errorInfo # "good"
                                                       ELSE hw[w].failed]_vars
    <2> SUFFICES ASSUME Inv, Next, NEW b \in grown' \ grown
                 PROVE  \E w \in Ways :
                            /\ Leaves(w)
                            /\ HeadReq(w).block = b
                            /\ IF HeadReq(w).code = "READ_TRANSFER"
                               THEN mem[w].errorInfo # "good" ELSE hw[w].failed
        OBVIOUS
    <2>1. PICK w \in Ways : ReportEnded(w) /\ (EndedWell(w) \/ EndedBadly(w))
        BY WhoLeaves
    <2>2. ~EndedWell(w)
        BY DEF EndedWell, Complete
    <2>3. Complete(w, TRUE) /\ ReqStatus(w) # "DONE"
        BY <2>1, <2>2 DEF EndedBadly
    <2>4. Fits("statusReport", w) /\ ReqStatus(w) # "RUNNING" /\ queue[w] # <<>>
        BY <2>1, ReportMoves DEF ReportEnded, Fits
    <2>5. Leaves(w)
        BY <2>3, <2>4, CompleteFact DEF Inv
    <2>6. HeadReq(w).block = b
        BY <2>3 DEF Complete
    <2>7. IF HeadReq(w).code = "READ_TRANSFER" THEN mem[w].errorInfo # "good" ELSE hw[w].failed
        BY <2>3, <2>4, StatusFact
    <2>8. QED
        BY <2>5, <2>6, <2>7
<1>2. QED
    BY <1>1, WayInvariant, PTL DEF Spec, MarksDeserved
-----------------------------------------------------------------------------
(* Where a walk is in its list *)

LEMMA PlaceIs ==
    ASSUME NEW q \in Seq(Ways), Once(q), NEW i \in 1 .. Len(q)
    PROVE  Place(q, q[i]) = i
<1>1. q[i] \in Range(q) /\ DOMAIN q = 1 .. Len(q)
    BY DEF Range
<1>2. Place(q, q[i]) \in 1 .. Len(q) /\ q[Place(q, q[i])] = q[i]
    BY <1>1, PlaceFact
<1>3. QED
    BY <1>1, <1>2 DEF Once

(* How many ways of list q a walk that stands on w has behind it. *)
Before(q, w) == IF w = NoWay THEN Len(q) ELSE Place(q, w) - 1

LEMMA BeforeFirst ==
    ASSUME NEW q \in Seq(Ways), Once(q)
    PROVE  Before(q, First(q)) = 0
<1>1. CASE q = <<>>
    BY <1>1 DEF First, Before
<1>2. CASE q # <<>>
    <2>1. 1 \in 1 .. Len(q) /\ q[1] \in Ways
        BY <1>2
    <2>2. First(q) = q[1] /\ q[1] # NoWay
        BY <1>2, <2>1, WaysAssumption DEF First, WaysAssumption
    <2>3. Place(q, First(q)) = 1
        BY <2>1, <2>2, PlaceIs
    <2>4. QED
        BY <2>2, <2>3 DEF Before
<1>3. QED
    BY <1>1, <1>2

(* The walk goes on behind w, whether w stays or leaves. *)
LEMMA BeforeAfter ==
    ASSUME NEW q \in Seq(Ways), NEW w \in Range(q), Once(q)
    PROVE  /\ Before(q, After(q, w)) = Before(q, w) + 1
           /\ Before(RemoveAt(q, Place(q, w)), After(q, w)) = Before(q, w)
<1> DEFINE r == RemoveAt(q, Place(q, w))
<1>1. PICK k \in 1 .. Len(q) : k = Place(q, w) /\ q[k] = w
    BY PlaceFact
<1>2. Len(q) \in Nat /\ w \in Ways /\ w # NoWay
    BY WaysAssumption DEF WaysAssumption, Range
<1>3. Before(q, w) = k - 1
    BY <1>1, <1>2 DEF Before
<1>4. /\ r \in Seq(Ways) /\ Len(r) = Len(q) - 1
      /\ \A j \in 1 .. Len(q) - 1 : r[j] = IF j < k THEN q[j] ELSE q[j + 1]
    BY <1>1, RemoveAtFact
<1>5. Once(r)
    BY <1>1, OnceRemoveAt
<1> HIDE DEF r
<1>6. CASE k = Len(q)
    <2>1. After(q, w) = NoWay
        BY <1>1, <1>6 DEF After, Last
    <2>2. QED
        BY <1>2, <1>3, <1>4, <1>6, <2>1 DEF Before, r
<1>7. CASE k # Len(q)
    <2>1. k + 1 \in 1 .. Len(q) /\ k \in 1 .. Len(r) /\ Len(q) \in 1 .. Len(q)
        BY <1>2, <1>4, <1>7
    <2>2. w # Last(q)
        <3>1. q[Len(q)] # q[k]
            BY <1>7, <2>1 DEF Once
        <3>2. QED
            BY <1>1, <3>1 DEF Last
    <2>3. After(q, w) = q[k + 1] /\ q[k + 1] \in Ways /\ q[k + 1] # NoWay
        BY <1>1, <2>1, <2>2, WaysAssumption DEF After, WaysAssumption
    <2>4. Place(q, q[k + 1]) = k + 1
        BY <2>1, PlaceIs
    <2>5. r[k] = q[k + 1]
        BY <1>2, <1>4, <1>7
    <2>6. Place(r, q[k + 1]) = k
        BY <1>4, <1>5, <2>1, <2>5, PlaceIs
    <2>7. Before(q, After(q, w)) = k /\ Before(r, After(q, w)) = k - 1
        BY <2>3, <2>4, <2>6 DEF Before
    <2>8. QED
        BY <1>3, <2>7 DEF r
<1>8. QED
    BY <1>6, <1>7

(* The lengths of the lists when a way goes from l to m. *)
LEMMA MoveLengths ==
    ASSUME lists \in [ListNames -> Seq(Ways)], NEW l \in ListNames, NEW m \in ListNames,
           l # m, NEW w \in Range(lists[l]), lists' = Put(Get(lists, l, w), m, w)
    PROVE  /\ lists'[l] = RemoveAt(lists[l], Place(lists[l], w))
           /\ Len(lists'[m]) = Len(lists[m]) + 1
           /\ \A k \in ListNames \ {l, m} : lists'[k] = lists[k]
<1> DEFINE taken == [lists EXCEPT ![l] = RemoveAt(lists[l], Place(lists[l], w))]
<1>1. lists' = [taken EXCEPT ![m] = Append(taken[m], w)]
    BY DEF Put, Get
<1>2. /\ taken[l] = RemoveAt(lists[l], Place(lists[l], w))
      /\ DOMAIN taken = ListNames
      /\ \A k \in ListNames \ {l} : taken[k] = lists[k]
    OBVIOUS
<1> HIDE DEF taken
<1>3. /\ lists'[l] = taken[l] /\ lists'[m] = Append(lists[m], w)
      /\ \A k \in ListNames \ {l, m} : lists'[k] = lists[k]
    BY <1>1, <1>2
<1>4. w \in Ways
    BY DEF Range
<1>5. Len(Append(lists[m], w)) = Len(lists[m]) + 1
    BY <1>4, AppendProperties
<1>6. QED
    BY <1>2, <1>3, <1>5

(* waitWayCnt counts the idle ways a pass has looked at and left idle, and *)
(* later all idle ways and those whose report it still waits for.          *)
WaitsCount ==
    /\ pc = "idle" => waits = Before(lists["idle"], cur)
    /\ pc = "report" => waits = Len(lists["idle"]) + Before(lists["statusReport"], cur)
    /\ pc \notin {"idle", "report"} => waits = 0

LEMMA BeforeNat ==
    ASSUME NEW q \in Seq(Ways), NEW w \in Range(q) \cup {NoWay}
    PROVE  Before(q, w) \in 0 .. Len(q)
<1>1. Len(q) \in Nat
    OBVIOUS
<1>2. CASE w = NoWay
    BY <1>1, <1>2 DEF Before
<1>3. CASE w # NoWay
    <2>1. Place(q, w) \in 1 .. Len(q)
        BY <1>3, PlaceFact
    <2>2. QED
        BY <1>1, <1>3, <2>1 DEF Before
<1>4. QED
    BY <1>2, <1>3

LEMMA ListFacts ==
    ASSUME Inv
    PROVE  /\ lists \in [ListNames -> Seq(Ways)]
           /\ \A l \in ListNames : lists[l] \in Seq(Ways) /\ Once(lists[l])
           /\ {"idle", "statusReport", "statusCheck"} \cup IssueLists = ListNames
           /\ {"idle", "statusReport", "statusCheck"} \cap IssueLists = {}
BY DEF Inv, WayInv, Types, OnOneList, Once, ListNames, IssueLists

(* The count as it changes in the walk over the idle ways.                 *)
LEMMA IdleWayCounts ==
    ASSUME Inv, Inv', WaitsCount, NEW w \in Ways, IdleWay(w)
    PROVE  WaitsCount'
<1>1. /\ pc = "idle" /\ pc' = "idle" /\ cur = w /\ cur' = After(lists["idle"], w)
      /\ waits' = IF queue'[w] = <<>> THEN waits + 1 ELSE waits
      /\ queue'[w] = <<>> => lists' = lists
      /\ queue'[w] # <<>> => lists' = PutToNandWayPriorityTable(
                                 SelectivGetFromNandIdleList(lists, w), w, Head(queue'[w]).code)
    BY DEF IdleWay, IdleCount
<1>2. /\ lists \in [ListNames -> Seq(Ways)] /\ "idle" \in ListNames
      /\ lists["idle"] \in Seq(Ways) /\ Once(lists["idle"])
    BY ListFacts
<1>3. w \in Range(lists["idle"])
    BY <1>1, <1>2, OnList DEF Inv, WayInv
<1>4. waits = Before(lists["idle"], w)
    BY <1>1 DEF WaitsCount
<1>5. CASE queue'[w] = <<>>
    BY <1>1, <1>2, <1>3, <1>4, <1>5, BeforeAfter DEF WaitsCount
<1>6. CASE queue'[w] # <<>>
    <2>1. Head(queue'[w]) \in Req
        BY <1>6 DEF Inv, Types
    <2>2. Head(queue'[w]).code \in Codes
        BY <2>1 DEF Req
    <2>3. PICK m \in IssueLists : m = PriorityList(Head(queue'[w]).code)
        BY <2>2, PriorityFact
    <2>4. lists' = Put(Get(lists, "idle", w), m, w)
        BY <1>1, <1>6, <2>2, <2>3, PriorityFact DEF SelectivGetFromNandIdleList
    <2>5. m \in ListNames /\ m # "idle"
        BY <2>3 DEF ListNames, IssueLists
    <2>6. lists'["idle"] = RemoveAt(lists["idle"], Place(lists["idle"], w))
        BY <1>2, <1>3, <2>4, <2>5, MoveLengths
    <2>7. Before(lists'["idle"], cur') = Before(lists["idle"], w)
        BY <1>1, <1>2, <1>3, <2>6, BeforeAfter
    <2>8. waits' = Before(lists'["idle"], cur')
        BY <1>1, <1>4, <1>6, <2>7
    <2>9. QED
        BY <1>1, <2>8 DEF WaitsCount
<1>7. QED
    BY <1>5, <1>6

LEMMA IdleEndCounts ==
    ASSUME Inv, WaitsCount, IdleEnd
    PROVE  WaitsCount'
<1>1. /\ pc = "idle" /\ cur = NoWay /\ pc' = "report" /\ waits' = waits /\ lists' = lists
      /\ cur' = First(lists["statusReport"])
    BY DEF IdleEnd
<1>2. lists["statusReport"] \in Seq(Ways) /\ Once(lists["statusReport"])
    BY ListFacts
<1>3. Before(lists["statusReport"], cur') = 0
    BY <1>1, <1>2, BeforeFirst
<1>4. waits = Len(lists["idle"]) /\ Len(lists["idle"]) \in Nat
    BY <1>1, ListFacts DEF WaitsCount, Before
<1>5. waits' = Len(lists'["idle"]) + Before(lists'["statusReport"], cur')
    BY <1>1, <1>3, <1>4
<1>6. QED
    BY <1>1, <1>5 DEF WaitsCount

LEMMA BeginPassCounts ==
    ASSUME Inv, BeginPass
    PROVE  WaitsCount'
<1>1. pc' = "idle" /\ waits' = 0 /\ lists' = lists /\ cur' = First(lists["idle"])
    BY DEF BeginPass
<1>2. lists["idle"] \in Seq(Ways) /\ Once(lists["idle"])
    BY ListFacts
<1>3. Before(lists'["idle"], cur') = 0
    BY <1>1, <1>2, BeforeFirst
<1>4. QED
    BY <1>1, <1>3 DEF WaitsCount

(* A way leaves the status report list for m. *)
LEMMA ReportMoveCounts ==
    ASSUME Inv, WaitsCount, NEW w \in Ways, ReportOf(w), NEW m \in ListNames,
           m # "statusReport", lists' = Put(Get(lists, "statusReport", w), m, w),
           waits' = IF m = "idle" THEN waits + 1 ELSE waits
    PROVE  WaitsCount'
<1>1. /\ pc = "report" /\ pc' = "report" /\ w \in Range(lists["statusReport"])
      /\ cur = w /\ cur' = After(lists["statusReport"], w)
    BY ReportMoves DEF ReportOf
<1>2. /\ lists \in [ListNames -> Seq(Ways)]
      /\ "statusReport" \in ListNames /\ "idle" \in ListNames
      /\ lists["statusReport"] \in Seq(Ways) /\ Once(lists["statusReport"])
      /\ Len(lists["idle"]) \in Nat
    BY ListFacts
<1>3. /\ lists'["statusReport"] = RemoveAt(lists["statusReport"], Place(lists["statusReport"], w))
      /\ Len(lists'["idle"]) = IF m = "idle" THEN Len(lists["idle"]) + 1 ELSE Len(lists["idle"])
    BY <1>1, <1>2, MoveLengths
<1>4. Before(lists'["statusReport"], cur') = Before(lists["statusReport"], w)
    BY <1>1, <1>2, <1>3, BeforeAfter
<1>5. Before(lists["statusReport"], w) \in Nat
    BY <1>1, <1>2, BeforeNat
<1>6. waits = Len(lists["idle"]) + Before(lists["statusReport"], w)
    BY <1>1 DEF WaitsCount
<1>7. waits' = Len(lists'["idle"]) + Before(lists'["statusReport"], cur')
    BY <1>2, <1>3, <1>4, <1>5, <1>6
<1>8. QED
    BY <1>1, <1>7 DEF WaitsCount

LEMMA ReportEndedCounts ==
    ASSUME Inv, Inv', WaitsCount, NEW w \in Ways, ReportEnded(w)
    PROVE  WaitsCount'
<1>1. ReportOf(w)
    BY DEF ReportEnded
<1>2. CASE queue'[w] = <<>>
    <2>1. lists' = Put(Get(lists, "statusReport", w), "idle", w) /\ waits' = waits + 1
        BY <1>2 DEF ReportEnded, PutToNandIdleList, SelectivGetFromNandStatusReportList
    <2>2. "idle" \in ListNames
        BY DEF ListNames
    <2>3. QED
        BY <1>1, <2>1, <2>2, ReportMoveCounts
<1>3. CASE queue'[w] # <<>>
    <2>1. Head(queue'[w]) \in Req
        BY <1>3 DEF Inv, Types
    <2>2. Head(queue'[w]).code \in Codes
        BY <2>1 DEF Req
    <2>3. PICK m \in IssueLists : m = PriorityList(Head(queue'[w]).code)
        BY <2>2, PriorityFact
    <2>4. /\ lists' = PutToNandWayPriorityTable(
                          SelectivGetFromNandStatusReportList(lists, w), w,
                          Head(queue'[w]).code)
          /\ waits' = waits
        BY <1>3 DEF ReportEnded
    <2>5. lists' = Put(Get(lists, "statusReport", w), m, w)
        BY <2>2, <2>3, <2>4, PriorityFact DEF SelectivGetFromNandStatusReportList
    <2>6. m \in ListNames /\ m # "statusReport" /\ m # "idle"
        BY <2>3 DEF ListNames, IssueLists
    <2>7. QED
        BY <1>1, <2>4, <2>5, <2>6, ReportMoveCounts
<1>4. QED
    BY <1>2, <1>3

LEMMA ReportAgainCounts ==
    ASSUME Inv, WaitsCount, NEW w \in Ways, ReportAgain(w)
    PROVE  WaitsCount'
<1>1. /\ ReportOf(w) /\ waits' = waits
      /\ lists' = Put(Get(lists, "statusReport", w), "statusCheck", w)
    BY DEF ReportAgain, PutToNandStatusCheckList, SelectivGetFromNandStatusReportList
<1>2. "statusCheck" \in ListNames
    BY DEF ListNames
<1>3. QED
    BY <1>1, <1>2, ReportMoveCounts

LEMMA ReportWaitsCounts ==
    ASSUME Inv, WaitsCount, NEW w \in Ways, ReportWaits(w)
    PROVE  WaitsCount'
<1>1. ReportOf(w) /\ waits' = waits + 1 /\ lists' = lists
    BY DEF ReportWaits
<1>2. /\ pc = "report" /\ pc' = "report" /\ w \in Range(lists["statusReport"])
      /\ cur = w /\ cur' = After(lists["statusReport"], w)
    BY <1>1, ReportMoves DEF ReportOf
<1>3. lists["statusReport"] \in Seq(Ways) /\ Once(lists["statusReport"])
      /\ Len(lists["idle"]) \in Nat
    BY ListFacts
<1>4. Before(lists["statusReport"], cur') = Before(lists["statusReport"], w) + 1
    BY <1>2, <1>3, BeforeAfter
<1>5. Before(lists["statusReport"], w) \in Nat
    BY <1>2, <1>3, BeforeNat
<1>6. waits = Len(lists["idle"]) + Before(lists["statusReport"], w)
    BY <1>2 DEF WaitsCount
<1>7. waits' = Len(lists'["idle"]) + Before(lists'["statusReport"], cur')
    BY <1>1, <1>3, <1>4, <1>5, <1>6
<1>8. QED
    BY <1>2, <1>7 DEF WaitsCount

(* Outside the two walks the count is not used. *)
LEMMA WalksDoNotCount ==
    ASSUME WaitsCount, pc \notin {"idle", "report"}, waits' = waits,
           pc' \notin {"idle", "report"}
    PROVE  WaitsCount'
BY DEF WaitsCount

LEMMA CountsStay ==
    ASSUME WaitsCount, UNCHANGED <<pc, cur, waits, lists>>
    PROVE  WaitsCount'
BY DEF WaitsCount, Before

LEMMA WalkNotCounting ==
    ASSUME NEW k \in 1 .. 6, NEW ls, NEW p, p = "rest" \/ p = WalkFrom(k, ls)
    PROVE  p \notin {"idle", "report"}
<1>1. p = "rest" \/ \E j \in k .. 5 : p = Walks[j]
    BY WalkFromFact
<1>2. ASSUME NEW j \in k .. 5 PROVE Walks[j] \notin {"idle", "report"}
    <2>1. j \in 1 .. 5
        OBVIOUS
    <2>2. CASE j = 1
        BY <2>2, WalkNames
    <2>3. CASE j # 1
        <3>1. j \in 2 .. 5
            BY <2>1, <2>3
        <3>2. Walks[j] \in IssueLists
            BY <3>1, WalkNames
        <3>3. QED
            BY <3>2 DEF IssueLists
    <2>4. QED
        BY <2>2, <2>3
<1>3. QED
    BY <1>1, <1>2

LEMMA IssueCounts ==
    ASSUME WaitsCount, NEW k \in 2 .. Len(Walks), Issue(k)
    PROVE  WaitsCount'
<1>1. k \in 2 .. 5 /\ k \in 1 .. 6 /\ k + 1 \in 1 .. 6
    BY WalkNames
<1>2. pc = Walks[k] /\ waits' = waits /\ (pc' = "rest" \/ pc' = WalkFrom(k + 1, lists))
    BY DEF Issue
<1>3. Walks[k] \in IssueLists
    BY <1>1, WalkNames
<1>4. pc \notin {"idle", "report"}
    BY <1>2, <1>3 DEF IssueLists
<1>5. pc' \notin {"idle", "report"}
    BY <1>1, <1>2, WalkNotCounting
<1>6. QED
    BY <1>2, <1>4, <1>5, WalksDoNotCount

LEMMA ChecksCount ==
    ASSUME WaitsCount,
           NoneToCheck \/ \E i \in DOMAIN lists["statusCheck"] : StatusCheck(i)
    PROVE  WaitsCount'
<1>1. /\ pc = "statusCheck" /\ waits' = waits
      /\ pc' = "rest" \/ pc' = WalkFrom(2, lists)
    BY DEF NoneToCheck, StatusCheck
<1>2. pc' \notin {"idle", "report"}
    BY <1>1, WalkNotCounting
<1>3. QED
    BY <1>1, <1>2, WalksDoNotCount

LEMMA ReportEndCounts ==
    ASSUME ReportEnd
    PROVE  WaitsCount'
<1>1. waits' = 0 /\ (pc' = "rest" \/ pc' = WalkFrom(1, lists))
    BY DEF ReportEnd
<1>2. pc' \notin {"idle", "report"}
    BY <1>1, WalkNotCounting
<1>3. QED
    BY <1>1, <1>2 DEF WaitsCount

(* At every point of a pass waitWayCnt is exact (SchedulingNandReqPerCh).  *)
THEOREM WaitsCounted == Spec => []WaitsCount
<1>1. Init => WaitsCount
    BY DEF Init, WaitsCount
<1>2. Inv /\ Inv' /\ WaitsCount /\ [Next]_vars => WaitsCount'
    <2> SUFFICES ASSUME Inv, Inv', WaitsCount, [Next]_vars PROVE WaitsCount'
        OBVIOUS
    <2>1. CASE BeginPass
        BY <2>1, BeginPassCounts
    <2>2. CASE IdleEnd
        BY <2>2, IdleEndCounts
    <2>3. ASSUME NEW w \in Ways, IdleWay(w) \/ ReportEnded(w) \/ ReportAgain(w) \/ ReportWaits(w)
          PROVE  WaitsCount'
        BY <2>3, IdleWayCounts, ReportEndedCounts, ReportAgainCounts, ReportWaitsCounts
    <2>4. CASE ReportEnd
        BY <2>4, ReportEndCounts
    <2>5. CASE NoneToCheck \/ \E i \in DOMAIN lists["statusCheck"] : StatusCheck(i)
        BY <2>5, ChecksCount
    <2>6. ASSUME NEW k \in 2 .. Len(Walks), Issue(k) PROVE WaitsCount'
        BY <2>6, IssueCounts
    <2>7. ASSUME NEW w \in Ways, Arrive(w) \/ HwStep(w) PROVE WaitsCount'
        <3>1. UNCHANGED <<pc, cur, waits, lists>>
            BY <2>7 DEF Arrive, HwStep, Start, Finish, ReportStatus, Transfer, pass
        <3>2. QED
            BY <3>1, CountsStay
    <2>8. CASE UNCHANGED vars
        BY <2>8, CountsStay DEF vars
    <2>9. QED
        BY <2>1, <2>2, <2>3, <2>4, <2>5, <2>6, <2>7, <2>8 DEF Next, PassStep
<1>3. QED
    BY <1>1, <1>2, WayInvariant, PTL DEF Spec

LEMMA WaysFinite == IsFiniteSet(Ways) /\ Cardinality(Ways) \in Nat
<1>1. WayOrder \in Seq(Ways) /\ Once(WayOrder) /\ Range(WayOrder) = Ways
    BY WaysAssumption DEF WaysAssumption, Once
<1>2. QED
    BY <1>1, OnceCount, FS_CardinalityType

(* The two lists of ways that wait hold together as many ways as they are  *)
(* long.                                                                   *)
LEMMA WaitingWays ==
    ASSUME Inv
    PROVE  /\ Range(lists["idle"]) \cup Range(lists["statusReport"]) \in SUBSET Ways
           /\ Cardinality(Range(lists["idle"]) \cup Range(lists["statusReport"]))
                  = Len(lists["idle"]) + Len(lists["statusReport"])
<1> DEFINE A == Range(lists["idle"])
           B == Range(lists["statusReport"])
<1>1. /\ lists["idle"] \in Seq(Ways) /\ Once(lists["idle"])
      /\ lists["statusReport"] \in Seq(Ways) /\ Once(lists["statusReport"])
    BY ListFacts
<1>2. A \cap B = {}
    BY DEF Inv, WayInv, OnOneList, ListNames
<1>3. A \cup B \in SUBSET Ways
    BY <1>1 DEF Range
<1>4. /\ IsFiniteSet(A) /\ Cardinality(A) = Len(lists["idle"])
      /\ IsFiniteSet(B) /\ Cardinality(B) = Len(lists["statusReport"])
    BY <1>1, OnceCount
<1>5. Len(lists["idle"]) \in Nat /\ Len(lists["statusReport"]) \in Nat
    BY <1>1
<1> HIDE DEF A, B
<1>6. Cardinality(A \cup B) = Cardinality(A) + Cardinality(B) - Cardinality(A \cap B)
    BY <1>4, FS_Union
<1>7. Cardinality(A \cap B) = 0
    BY <1>2, FS_EmptySet
<1>8. QED
    BY <1>3, <1>4, <1>5, <1>6, <1>7 DEF A, B

LEMMA WaitsBounded ==
    ASSUME Inv, WaitsCount
    PROVE  waits \in 0 .. Cardinality(Ways)
<1>1. Len(lists["idle"]) \in Nat /\ Len(lists["statusReport"]) \in Nat
    BY ListFacts
<1>2. Len(lists["idle"]) + Len(lists["statusReport"]) <= Cardinality(Ways)
    <2>1. Cardinality(Range(lists["idle"]) \cup Range(lists["statusReport"])) <= Cardinality(Ways)
        BY WaitingWays, WaysFinite, FS_Subset
    <2>2. QED
        BY <2>1, WaitingWays
<1>3. CASE pc = "idle"
    <2>1. Before(lists["idle"], cur) \in 0 .. Len(lists["idle"])
        BY <1>3, ListFacts, BeforeNat DEF Inv, WayInv
    <2>2. waits = Before(lists["idle"], cur)
        BY <1>3 DEF WaitsCount
    <2>3. \A a, b, c, k \in Nat : k <= a /\ a + b <= c => k \in 0 .. c
        OBVIOUS
    <2>4. Before(lists["idle"], cur) \in Nat /\ Before(lists["idle"], cur) <= Len(lists["idle"])
        BY <1>1, <2>1
    <2>5. QED
        BY <1>1, <1>2, <2>2, <2>3, <2>4, WaysFinite
<1>4. CASE pc = "report"
    <2>1. Before(lists["statusReport"], cur) \in 0 .. Len(lists["statusReport"])
        BY <1>4, ListFacts, BeforeNat DEF Inv, WayInv
    <2>2. waits = Len(lists["idle"]) + Before(lists["statusReport"], cur)
        BY <1>4 DEF WaitsCount
    <2>3. \A a, b, c, k \in Nat : k <= b /\ a + b <= c => a + k \in 0 .. c
        OBVIOUS
    <2>4. Before(lists["statusReport"], cur) \in Nat /\ Before(lists["statusReport"], cur) <= Len(lists["statusReport"])
        BY <1>1, <2>1
    <2>5. QED
        BY <1>1, <1>2, <2>2, <2>3, <2>4, WaysFinite
<1>5. CASE pc \notin {"idle", "report"}
    BY <1>5, WaysFinite DEF WaitsCount
<1>6. QED
    BY <1>3, <1>4, <1>5

(* The count ends a pass early exactly when no way is on a list that       *)
(* something is issued or asked from (SchedulingNandReqPerCh).             *)
THEOREM ShortcutExactCorrect == Spec => []ShortcutExact
<1>1. Inv /\ WaitsCount => ShortcutExact
    <2> SUFFICES ASSUME Inv, WaitsCount, pc = "report", cur = NoWay
                 PROVE  waits = Cardinality(Ways) <=>
                            \A k \in DOMAIN Walks : lists[Walks[k]] = <<>>
        BY DEF ShortcutExact
    <2> DEFINE A == Range(lists["idle"]) \cup Range(lists["statusReport"])
    <2>1. waits = Cardinality(A)
        BY WaitingWays DEF WaitsCount, Before
    <2>2. A \in SUBSET Ways /\ (Cardinality(Ways) = Cardinality(A) => Ways = A)
        BY WaitingWays, WaysFinite, FS_Subset
    <2>3. waits = Cardinality(Ways) <=> A = Ways
        BY <2>1, <2>2
    <2>4. ASSUME A = Ways, NEW k \in 1 .. 5 PROVE lists[Walks[k]] = <<>>
        <3>1. Walks[k] \in ListNames /\ Walks[k] # "idle" /\ Walks[k] # "statusReport"
            BY DEF Walks, ListNames, IssueLists
        <3>2. Range(lists[Walks[k]]) \cap A = {}
            BY <3>1 DEF Inv, WayInv, OnOneList, ListNames
        <3>3. lists[Walks[k]] \in Seq(Ways)
            BY <3>1, ListFacts
        <3>4. Range(lists[Walks[k]]) \subseteq Ways
            BY <3>3 DEF Range
        <3>5. Range(lists[Walks[k]]) = {}
            BY <2>4, <3>2, <3>4
        <3>6. \A q \in Seq(Ways) : q # <<>> => 1 \in DOMAIN q
            OBVIOUS
        <3>7. QED
            BY <3>3, <3>5, <3>6 DEF Range
    <2>5. ASSUME \A k \in 1 .. 5 : lists[Walks[k]] = <<>>, NEW w \in Ways PROVE w \in A
        <3>1. PICK l \in ListNames : w \in Range(lists[l])
            BY DEF Inv, WayInv, OnOneList
        <3>2. ASSUME NEW k \in 1 .. 5 PROVE l # Walks[k]
            <4>1. Range(lists[Walks[k]]) = {}
                BY <2>5 DEF Range
            <4>2. QED
                BY <3>1, <4>1
        <3>3. \A m \in ListNames : m = "idle" \/ m = "statusReport" \/ \E k \in 1 .. 5 : m = Walks[k]
            BY DEF Walks, ListNames, IssueLists
        <3>4. l = "idle" \/ l = "statusReport"
            BY <3>2, <3>3
        <3>5. QED
            BY <3>1, <3>4
    <2>6. DOMAIN Walks = 1 .. 5
        BY DEF Walks
    <2>7. A = Ways <=> \A k \in 1 .. 5 : lists[Walks[k]] = <<>>
        BY <2>2, <2>4, <2>5
    <2>8. QED
        BY <2>3, <2>6, <2>7
<1>2. QED
    BY <1>1, WayInvariant, WaitsCounted, PTL
-----------------------------------------------------------------------------
(* What the controller takes, and the retries *)

(* Max of a set of numbers is its greatest. *)
LEMMA MaxFact ==
    ASSUME NEW s, NEW k \in s, \A j \in s : j <= k, s \subseteq Nat
    PROVE  Max(s) = k
<1>1. \A j \in s : k >= j
    OBVIOUS
<1>2. \E x \in s : \A y \in s : x >= y
    BY <1>1
<1>3. Max(s) \in s /\ \A y \in s : Max(s) >= y
    BY <1>2 DEF Max
<1>4. Max(s) \in Nat /\ k \in Nat /\ k <= Max(s) /\ Max(s) <= k
    <2>1. \A m \in Nat : m >= k => k <= m
        OBVIOUS
    <2>2. Max(s) \in Nat /\ k \in Nat
        BY <1>3
    <2>3. QED
        BY <1>3, <2>1, <2>2
<1>5. QED
    BY <1>4

(* h computes the sum of every part of the first n elements of q. *)
Sums(h, base, q, n) ==
    h = [s \in SUBSET (1 .. n) |->
            IF s = {} THEN base
            ELSE LET x == Max(s) IN Plus(h[s \ {x}], q[x])]

(* There is such a function. *)
LEMMA SumsExist ==
    ASSUME NEW q, NEW base, NEW n \in Nat
    PROVE  \E h : Sums(h, base, q, n)
<1> DEFINE K == {k \in 0 .. n : \E h : Sums(h, base, q, k)}
<1>1. 0 \in K
    <2> DEFINE g == [s \in SUBSET (1 .. 0) |-> base]
    <2>1. \A s \in SUBSET (1 .. 0) : s = {}
        OBVIOUS
    <2>2. g = [s \in SUBSET (1 .. 0) |->
            IF s = {} THEN base
            ELSE LET x == Max(s) IN Plus(g[s \ {x}], q[x])]
        BY <2>1, Zenon
    <2>3. Sums(g, base, q, 0)
        BY <2>2 DEF Sums
    <2>4. QED
        BY <2>3
<1>2. ASSUME NEW k \in 0 .. n, k # n, k \in K PROVE k + 1 \in K
    <2>1. PICK h : Sums(h, base, q, k)
        BY <1>2
    <2> DEFINE g == [s \in SUBSET (1 .. k + 1) |->
                        IF k + 1 \in s THEN Plus(h[s \ {k + 1}], q[k + 1]) ELSE h[s]]
    <2>2. ASSUME NEW s \in SUBSET (1 .. k + 1)
          PROVE  g[s] = IF s = {} THEN base
                        ELSE LET x == Max(s) IN Plus(g[s \ {x}], q[x])
        <3>1. CASE k + 1 \in s
            <4>1. Max(s) = k + 1
                <5>1. (\A j \in s : j <= k + 1) /\ s \subseteq Nat
                    OBVIOUS
                <5>2. QED
                    BY <3>1, <5>1, MaxFact
            <4>2. s \ {k + 1} \in SUBSET (1 .. k + 1) /\ k + 1 \notin s \ {k + 1} /\ s # {}
                BY <3>1
            <4>3. g[s \ {k + 1}] = h[s \ {k + 1}]
                BY <4>2
            <4>4. g[s] = Plus(h[s \ {k + 1}], q[k + 1])
                BY <3>1
            <4> HIDE DEF g
            <4>5. QED
                BY <4>1, <4>2, <4>3, <4>4
        <3>2. CASE k + 1 \notin s /\ s = {}
            <4>1. s \in SUBSET (1 .. k) /\ g[s] = h[s]
                BY <3>2
            <4>2. h[s] = base
                BY <2>1, <3>2, <4>1 DEF Sums
            <4>3. QED
                BY <3>2, <4>1, <4>2
        <3>3. CASE k + 1 \notin s /\ s # {}
            <4>1. s \in SUBSET (1 .. k) /\ g[s] = h[s]
                BY <3>3
            <4>2. PICK x : x = Max(s)
                OBVIOUS
            <4>3. s \ {x} \in SUBSET (1 .. k) /\ s \ {x} \in SUBSET (1 .. k + 1) /\ k + 1 \notin s \ {x}
                BY <3>3, <4>1
            <4>4. g[s \ {x}] = h[s \ {x}]
                BY <4>3
            <4>5. h[s] = Plus(h[s \ {x}], q[x])
                BY <2>1, <3>3, <4>1, <4>2 DEF Sums
            <4> HIDE DEF g
            <4>6. QED
                BY <3>3, <4>1, <4>2, <4>4, <4>5
        <3>4. QED
            BY <3>1, <3>2, <3>3
    <2>3. g = [s \in SUBSET (1 .. k + 1) |-> g[s]]
        OBVIOUS
    <2> HIDE DEF g
    <2>4. Sums(g, base, q, k + 1)
        BY <2>2, <2>3 DEF Sums
    <2>5. k + 1 \in 0 .. n
        BY <1>2
    <2>6. QED
        BY <2>4, <2>5
<1> HIDE DEF K
<1>3. n \in K
    BY <1>1, <1>2, UpTo
<1>4. QED
    BY <1>3 DEF K

(* What FoldLeft computes with Plus is reached by its partial sums. *)
LEMMA FoldPath ==
    ASSUME NEW S, NEW q \in Seq(S), NEW base
    PROVE  \E f : /\ f[0] = base
                  /\ \A k \in 1 .. Len(q) : f[k] = Plus(f[k - 1], q[k])
                  /\ f[Len(q)] = FoldLeft(Plus, base, q)
<1> DEFINE it == CHOOSE h : Sums(h, base, q, Len(q))
           f == [k \in 0 .. Len(q) |-> it[1 .. k]]
<1>1. Len(q) \in Nat /\ DOMAIN q = 1 .. Len(q)
    OBVIOUS
<1>2. Sums(it, base, q, Len(q))
    BY <1>1, SumsExist
<1>3. FoldLeft(Plus, base, q) = it[1 .. Len(q)]
    BY <1>1 DEF FoldLeft, MapThenFoldSet, Sums
<1> HIDE DEF it
<1>4. f[0] = base
    <2>1. 1 .. 0 = {} /\ 1 .. 0 \in SUBSET (1 .. Len(q)) /\ 0 \in 0 .. Len(q)
        BY <1>1
    <2>2. QED
        BY <1>2, <2>1 DEF Sums
<1>5. ASSUME NEW k \in 1 .. Len(q)
      PROVE  f[k] = Plus(f[k - 1], q[k])
    <2>1. /\ k \in 1 .. k /\ k \in 0 .. Len(q) /\ k - 1 \in 0 .. Len(q)
          /\ 1 .. k \in SUBSET (1 .. Len(q))
        BY <1>1
    <2>2. (1 .. k) \ {k} = 1 .. k - 1
        BY <1>1
    <2>3. Max(1 .. k) = k
        <3>1. k \in 1 .. k /\ (\A j \in 1 .. k : j <= k) /\ 1 .. k \subseteq Nat
            OBVIOUS
        <3>2. QED
            BY <3>1, MaxFact
    <2>4. it[1 .. k] = Plus(it[(1 .. k) \ {k}], q[k])
        BY <1>2, <2>1, <2>3 DEF Sums
    <2>5. QED
        BY <2>1, <2>2, <2>4
<1>6. f[Len(q)] = FoldLeft(Plus, base, q)
    BY <1>1, <1>3
<1>7. QED
    BY <1>4, <1>5, <1>6

(* The sum FoldLeft computes, by its partial sums. *)
LEMMA SumPath ==
    ASSUME NEW q \in Seq(Nat)
    PROVE  \E f : /\ f[0] = 0
                  /\ \A k \in 1 .. Len(q) : f[k] = f[k - 1] + q[k]
                  /\ f[Len(q)] = FoldLeft(Plus, 0, q)
<1>1. PICK f : /\ f[0] = 0
               /\ \A k \in 1 .. Len(q) : f[k] = Plus(f[k - 1], q[k])
               /\ f[Len(q)] = FoldLeft(Plus, 0, q)
    BY FoldPath
<1>2. QED
    BY <1>1 DEF Plus

(* A sum is at least each of its terms. *)
LEMMA SumBounds ==
    ASSUME NEW q \in Seq(Nat)
    PROVE  /\ FoldLeft(Plus, 0, q) \in Nat
           /\ \A k \in 1 .. Len(q) : q[k] <= FoldLeft(Plus, 0, q)
<1>1. PICK f : /\ f[0] = 0
               /\ \A k \in 1 .. Len(q) : f[k] = f[k - 1] + q[k]
               /\ f[Len(q)] = FoldLeft(Plus, 0, q)
    BY SumPath
<1>2. Len(q) \in Nat /\ \A k \in 1 .. Len(q) : q[k] \in Nat
    OBVIOUS
<1> DEFINE K == {i \in 0 .. Len(q) : f[i] \in Nat /\ \A k \in 1 .. i : q[k] <= f[i]}
<1>3. 0 \in K
    BY <1>1, <1>2
<1>4. ASSUME NEW i \in 0 .. Len(q), i # Len(q), i \in K
      PROVE  i + 1 \in K
    <2>1. i + 1 \in 1 .. Len(q) /\ (i + 1) - 1 = i
        BY <1>2, <1>4
    <2>2. f[i + 1] = f[i] + q[i + 1] /\ f[i] \in Nat /\ q[i + 1] \in Nat
        BY <1>1, <1>2, <1>4, <2>1
    <2>3. ASSUME NEW k \in 1 .. i + 1 PROVE q[k] <= f[i + 1]
        <3>1. CASE k = i + 1
            BY <2>2, <3>1
        <3>2. CASE k # i + 1
            <4>1. k \in 1 .. i /\ k \in 1 .. Len(q)
                BY <1>2, <1>4, <3>2
            <4>2. q[k] <= f[i] /\ q[k] \in Nat
                BY <1>2, <1>4, <4>1
            <4>3. QED
                BY <2>2, <4>2
        <3>3. QED
            BY <3>1, <3>2
    <2>4. f[i + 1] \in Nat
        BY <2>2
    <2>5. QED
        BY <1>2, <2>1, <2>3, <2>4
<1>5. \A i \in 0 .. Len(q) : i \in K
    <2> HIDE DEF K
    <2>1. QED
        BY <1>2, <1>3, <1>4, UpTo
<1>6. Len(q) \in K
    BY <1>2, <1>5
<1>7. QED
    BY <1>1, <1>6

(* A sum of terms that are not greater is not greater. *)
LEMMA SumMonotone ==
    ASSUME NEW q \in Seq(Nat), NEW r \in Seq(Nat), Len(r) = Len(q),
           \A k \in 1 .. Len(q) : r[k] <= q[k]
    PROVE  FoldLeft(Plus, 0, r) <= FoldLeft(Plus, 0, q)
<1>1. PICK f : /\ f[0] = 0
               /\ \A k \in 1 .. Len(q) : f[k] = f[k - 1] + q[k]
               /\ f[Len(q)] = FoldLeft(Plus, 0, q)
    BY SumPath
<1>2. PICK g : /\ g[0] = 0
               /\ \A k \in 1 .. Len(r) : g[k] = g[k - 1] + r[k]
               /\ g[Len(r)] = FoldLeft(Plus, 0, r)
    BY SumPath
<1>3. Len(q) \in Nat /\ \A k \in 1 .. Len(q) : q[k] \in Nat /\ r[k] \in Nat
    OBVIOUS
<1> DEFINE K == {i \in 0 .. Len(q) : f[i] \in Nat /\ g[i] \in Nat /\ g[i] <= f[i]}
<1>4. 0 \in K
    BY <1>1, <1>2, <1>3
<1>5. ASSUME NEW i \in 0 .. Len(q), i # Len(q), i \in K
      PROVE  i + 1 \in K
    <2>1. i + 1 \in 1 .. Len(q) /\ (i + 1) - 1 = i
        BY <1>3, <1>5
    <2>2. f[i + 1] = f[i] + q[i + 1] /\ g[i + 1] = g[i] + r[i + 1]
        BY <1>1, <1>2, <2>1
    <2>3. /\ f[i] \in Nat /\ g[i] \in Nat /\ g[i] <= f[i]
          /\ q[i + 1] \in Nat /\ r[i + 1] \in Nat /\ r[i + 1] <= q[i + 1]
        BY <1>3, <1>5, <2>1
    <2>4. \A a, b, c, d \in Nat :
              a <= b /\ c <= d => a + c \in Nat /\ b + d \in Nat /\ a + c <= b + d
        OBVIOUS
    <2> HIDE DEF K
    <2>5. /\ f[i + 1] \in Nat /\ g[i + 1] \in Nat
          /\ g[i + 1] <= f[i + 1]
        <3>1. /\ g[i] + r[i + 1] \in Nat /\ f[i] + q[i + 1] \in Nat
              /\ g[i] + r[i + 1] <= f[i] + q[i + 1]
            BY <2>3, <2>4
        <3>2. QED
            BY <2>2, <3>1
    <2>6. i + 1 \in 0 .. Len(q)
        BY <1>3, <2>1
    <2>7. QED
        BY <2>5, <2>6 DEF K
<1>6. \A i \in 0 .. Len(q) : i \in K
    <2> HIDE DEF K
    <2>1. QED
        BY <1>3, <1>4, <1>5, UpTo
<1>7. Len(q) \in K
    BY <1>3, <1>6
<1>8. QED
    BY <1>1, <1>2, <1>7

LEMMA HeldFact ==
    ASSUME NEW h \in [Ways -> Chip]
    PROVE  /\ Held(h) \in Seq(Nat) /\ Len(Held(h)) = Len(WayOrder)
           /\ \A k \in 1 .. Len(WayOrder) : WayOrder[k] \in Ways
                                            /\ Held(h)[k] = Len(h[WayOrder[k]].cmds)
           /\ \A w \in Ways : /\ Len(h[w].cmds) \in Nat
                              /\ \E k \in 1 .. Len(WayOrder) : WayOrder[k] = w
<1>1. WayOrder \in Seq(Ways) /\ Range(WayOrder) = Ways
    BY WaysAssumption DEF WaysAssumption
<1>2. Len(WayOrder) \in Nat /\ DOMAIN WayOrder = 1 .. Len(WayOrder)
    BY <1>1
<1>3. \A w \in Ways : h[w].cmds \in Seq(Commands)
    BY DEF Chip
<1>4. \A w \in Ways : Len(h[w].cmds) \in Nat
    BY <1>3, LenProperties
<1>5. \A k \in 1 .. Len(WayOrder) : WayOrder[k] \in Ways
    BY <1>1
<1>6. Held(h) = [k \in 1 .. Len(WayOrder) |-> Len(h[WayOrder[k]].cmds)]
    BY <1>2 DEF Held
<1>7. Held(h) \in [1 .. Len(WayOrder) -> Nat]
    BY <1>4, <1>5, <1>6
<1>8. Held(h) \in Seq(Nat) /\ Len(Held(h)) = Len(WayOrder)
    BY <1>2, <1>7, SeqDef
<1>9. \A w \in Ways : \E k \in 1 .. Len(WayOrder) : WayOrder[k] = w
    BY <1>1, <1>2 DEF Range
<1>10. QED
    BY <1>4, <1>5, <1>6, <1>8, <1>9

(* A controller that is not busy has a place free for the commands of any  *)
(* way.                                                                    *)
LEMMA NotBusyFact ==
    ASSUME NEW h \in [Ways -> Chip], ~ControllerBusy(h), NEW w \in Ways
    PROVE  Len(h[w].cmds) + 1 <= QueueDepth
<1>1. PICK k \in 1 .. Len(WayOrder) : WayOrder[k] = w
    BY HeldFact
<1>2. Held(h) \in Seq(Nat) /\ Len(Held(h)) = Len(WayOrder) /\ Held(h)[k] = Len(h[w].cmds)
    BY <1>1, HeldFact
<1>3. FoldLeft(Plus, 0, Held(h)) \in Nat /\ Held(h)[k] <= FoldLeft(Plus, 0, Held(h))
    BY <1>2, SumBounds
<1>4. QueueDepth \in Nat /\ Len(h[w].cmds) \in Nat
    BY LimitsAssumption, HeldFact DEF LimitsAssumption
<1>5. ~ (QueueDepth <= FoldLeft(Plus, 0, Held(h)))
    BY DEF ControllerBusy
<1>6. \A a, b, d \in Nat : a <= b /\ ~ (d <= b) => a + 1 <= d
    OBVIOUS
<1>7. QED
    BY <1>2, <1>3, <1>4, <1>5, <1>6

(* Commands that are taken from the controller do not make it busy. *)
LEMMA StaysFree ==
    ASSUME NEW h \in [Ways -> Chip], NEW g \in [Ways -> Chip], ~ControllerBusy(h),
           \A w \in Ways : Len(g[w].cmds) <= Len(h[w].cmds)
    PROVE  ~ControllerBusy(g)
<1>1. /\ Held(h) \in Seq(Nat) /\ Len(Held(h)) = Len(WayOrder)
      /\ Held(g) \in Seq(Nat) /\ Len(Held(g)) = Len(WayOrder)
    BY HeldFact
<1>2. \A k \in 1 .. Len(WayOrder) : Held(g)[k] <= Held(h)[k]
    BY HeldFact
<1>3. FoldLeft(Plus, 0, Held(g)) <= FoldLeft(Plus, 0, Held(h))
    BY <1>1, <1>2, SumMonotone
<1>4. FoldLeft(Plus, 0, Held(g)) \in Nat /\ FoldLeft(Plus, 0, Held(h)) \in Nat
    BY <1>1, SumBounds
<1>5. QueueDepth \in Nat
    BY LimitsAssumption DEF LimitsAssumption
<1>6. \A a, b, d \in Nat : a <= b /\ ~ (d <= b) => ~ (d <= a)
    OBVIOUS
<1>7. QED
    BY <1>3, <1>4, <1>5, <1>6 DEF ControllerBusy

(* The walks that use the controller run only while it takes commands.     *)
DepthInv ==
    /\ \A w \in Ways : Len(hw[w].cmds) <= QueueDepth
    /\ pc \in {"statusCheck"} \cup IssueLists => ~ControllerBusy(hw)

(* The commands of each way after a step that gives the controller none. *)
NoneIssued == \A w \in Ways : Len(hw'[w].cmds) <= Len(hw[w].cmds)

LEMMA TakenHeld ==
    ASSUME Inv, NEW w \in Ways, HwStep(w)
    PROVE  NoneIssued
<1>1. hw \in [Ways -> Chip] /\ \A v \in Ways : hw[v].cmds \in Seq(Commands)
    BY DEF Inv, Types, Chip
<1>2. \A v \in Ways : Len(hw[v].cmds) \in Nat
    BY <1>1, LenProperties
<1>3. ASSUME hw[w].cmds # <<>> PROVE Len(Tail(hw[w].cmds)) <= Len(hw[w].cmds)
    <2>1. Len(Tail(hw[w].cmds)) = Len(hw[w].cmds) - 1
        BY <1>1, <1>3, HeadTailProperties
    <2>2. QED
        BY <1>2, <2>1
<1>4. \A v \in Ways \ {w} : hw'[v] = hw[v]
    BY <1>1 DEF HwStep, Start, Finish, ReportStatus, Transfer
<1>5. \/ hw'[w].cmds = hw[w].cmds
      \/ hw[w].cmds # <<>> /\ hw'[w].cmds = Tail(hw[w].cmds)
    <2> DEFINE c == hw[w]
    <2>1. c \in Chip
        BY <1>1
    <2>2. CASE Start(w)
        <3>1. hw' = [hw EXCEPT ![w] = [c EXCEPT !.running = TRUE, !.cmds = Tail(c.cmds)]]
            BY <2>2 DEF Start
        <3>2. [c EXCEPT !.running = TRUE, !.cmds = Tail(c.cmds)].cmds = Tail(c.cmds)
            BY <2>1 DEF Chip
        <3>3. hw'[w].cmds = Tail(c.cmds)
            BY <1>1, <3>1, <3>2
        <3>4. QED
            BY <2>2, <3>3 DEF Start
    <2>3. CASE Finish(w)
        BY <1>1, <2>3 DEF Finish, Chip
    <2>4. CASE ReportStatus(w)
        BY <1>1, <2>4 DEF ReportStatus, Chip
    <2>5. CASE Transfer(w)
        BY <1>1, <2>5 DEF Transfer, Chip
    <2>6. QED
        BY <2>2, <2>3, <2>4, <2>5 DEF HwStep
<1>6. Len(hw'[w].cmds) <= Len(hw[w].cmds)
    <2>1. \A n \in Nat : n <= n
        OBVIOUS
    <2>2. QED
        BY <1>2, <1>3, <1>5, <2>1
<1>7. ASSUME NEW v \in Ways PROVE Len(hw'[v].cmds) <= Len(hw[v].cmds)
    <2>1. CASE v = w
        BY <1>6, <2>1
    <2>2. CASE v # w
        <3>1. \A n \in Nat : n <= n
            OBVIOUS
        <3>2. hw'[v] = hw[v]
            BY <1>4, <2>2
        <3>3. QED
            BY <1>2, <3>1, <3>2
    <2>3. QED
        BY <2>1, <2>2
<1>8. QED
    BY <1>7 DEF NoneIssued

LEMMA SameHeld ==
    ASSUME Inv, hw' = hw
    PROVE  NoneIssued
<1>1. \A v \in Ways : hw[v].cmds \in Seq(Commands)
    BY DEF Inv, Types, Chip
<1>2. \A v \in Ways : Len(hw[v].cmds) \in Nat
    BY <1>1, LenProperties
<1>3. \A n \in Nat : n <= n
    OBVIOUS
<1>4. QED
    BY <1>2, <1>3 DEF NoneIssued

LEMMA NoneIssuedKeeps ==
    ASSUME Inv, Inv', DepthInv, NoneIssued,
           \/ pc' \notin {"statusCheck"} \cup IssueLists
           \/ ~ControllerBusy(hw)
    PROVE  DepthInv'
<1>1. hw \in [Ways -> Chip] /\ hw' \in [Ways -> Chip]
    BY DEF Inv, Types
<1>2. \A w \in Ways : Len(hw[w].cmds) \in Nat /\ Len(hw'[w].cmds) \in Nat
    BY <1>1, HeldFact
<1>3. QueueDepth \in Nat
    BY LimitsAssumption DEF LimitsAssumption
<1>4. \A a, b, c \in Nat : a <= b /\ b <= c => a <= c
    OBVIOUS
<1>5. \A w \in Ways : Len(hw'[w].cmds) <= QueueDepth
    BY <1>2, <1>3, <1>4 DEF NoneIssued, DepthInv
<1>6. ~ControllerBusy(hw) => ~ControllerBusy(hw')
    BY <1>1, StaysFree DEF NoneIssued
<1>7. QED
    BY <1>5, <1>6 DEF DepthInv

LEMMA IssuedKeeps ==
    ASSUME Inv, Inv', DepthInv, ~ControllerBusy(hw), NEW w \in Ways, NEW c,
           hw' = Issued(hw, w, c),
           pc' \in {"statusCheck"} \cup IssueLists => ~ControllerBusy(hw')
    PROVE  DepthInv'
<1>1. hw \in [Ways -> Chip] /\ hw' \in [Ways -> Chip]
    BY DEF Inv, Types
<1>2. hw'[w].cmds = Append(hw[w].cmds, c) /\ \A v \in Ways \ {w} : hw'[v] = hw[v]
    BY <1>1 DEF Issued, Chip
<1>3. hw[w].cmds \in Seq(Commands) /\ hw'[w].cmds \in Seq(Commands)
    BY <1>1 DEF Chip
<1>4. Len(hw'[w].cmds) = Len(hw[w].cmds) + 1
    <2>1. hw[w].cmds \in Seq(Commands \cup {c})
        BY <1>3
    <2>2. QED
        BY <1>2, <2>1, AppendProperties
<1>5. Len(hw'[w].cmds) <= QueueDepth
    BY <1>1, <1>4, NotBusyFact
<1>6. \A v \in Ways : Len(hw'[v].cmds) <= QueueDepth
    BY <1>2, <1>5 DEF DepthInv
<1>7. QED
    BY <1>6 DEF DepthInv

LEMMA IssueDepth ==
    ASSUME Inv, Inv', DepthInv, NEW k \in 2 .. Len(Walks), Issue(k)
    PROVE  DepthInv'
<1>1. pc = Walks[k] /\ Walks[k] \in IssueLists
    <2>1. k \in 2 .. 5
        BY WalkNames
    <2>2. QED
        BY <2>1, WalkNames DEF Issue
<1>2. ~ControllerBusy(hw)
    BY <1>1 DEF DepthInv
<1>3. pc' \in {"statusCheck"} \cup IssueLists => ~ControllerBusy(hw')
    BY DEF Issue, IssueLists
<1>4. PICK w \in Ways : w = Head(lists[pc])
    <2>1. lists[pc] \in Seq(Ways) /\ lists[pc] # <<>>
        BY <1>1, WalkNames DEF Inv, Types, WayInv
    <2>2. QED
        BY <2>1
<1>5. hw' = hw \/ \E c : hw' = Issued(hw, w, c)
    <2>1. CASE die[w].state = "IDLE"
        <3>1. IssueNandReq(w)
            BY <1>4, <2>1 DEF Issue
        <3>2. HeadReq(w).code \in Codes
            <4>1. Fits(pc, w)
                <5>1. lists[pc] \in Seq(Ways) /\ lists[pc] # <<>>
                    BY <1>1, WalkNames DEF Inv, Types, WayInv
                <5>2. 1 \in DOMAIN lists[pc] /\ w = lists[pc][1]
                    BY <1>4, <5>1
                <5>3. w \in Range(lists[pc])
                    BY <5>2 DEF Range
                <5>4. QED
                    BY <1>1, <5>3, WalkNames DEF Inv, WayInv, ListsFit
            <4>2. queue[w] # <<>>
                BY <1>1, <4>1 DEF Fits, IssueLists
            <4>3. HeadReq(w) \in Req
                BY <4>2, HeadReqFact DEF Inv
            <4>4. QED
                BY <4>3 DEF Req
        <3>3. CASE HeadReq(w).code = "READ_TRANSFER"
            <4>1. V2FReadPageTransferAsync(w)
                BY <3>1, <3>3 DEF IssueNandReq, FlashOps
            <4>2. QED
                BY <4>1 DEF V2FReadPageTransferAsync
        <3>4. CASE HeadReq(w).code \in FlashOps
            BY <3>1, <3>4 DEF IssueNandReq, V2FCommand, FlashOps
        <3>5. CASE HeadReq(w).code = "SET_FEATURE"
            BY <3>1, <3>5 DEF IssueNandReq, FlashOps
        <3>6. QED
            BY <3>2, <3>3, <3>4, <3>5 DEF Codes, FlashOps
    <2>2. CASE die[w].state # "IDLE"
        BY <1>4, <2>2 DEF Issue
    <2>3. QED
        BY <2>1, <2>2
<1>6. QED
    BY <1>2, <1>3, <1>5, SameHeld, NoneIssuedKeeps, IssuedKeeps

LEMMA StatusCheckDepth ==
    ASSUME Inv, Inv', DepthInv, NEW i \in DOMAIN lists["statusCheck"], StatusCheck(i)
    PROVE  DepthInv'
<1>1. ~ControllerBusy(hw)
    BY DEF DepthInv, StatusCheck
<1>2. pc' \in {"statusCheck"} \cup IssueLists => ~ControllerBusy(hw')
    BY DEF StatusCheck, IssueLists
<1>3. PICK w \in Ways : w = lists["statusCheck"][i]
    <2>1. lists["statusCheck"] \in Seq(Ways)
        BY ListFacts
    <2>2. QED
        BY <2>1
<1>4. hw' = hw \/ hw' = Issued(hw, w, "STATUS")
    BY <1>3 DEF StatusCheck, ChecksStatus, V2FStatusCheckAsync
<1>5. QED
    BY <1>1, <1>2, <1>4, SameHeld, NoneIssuedKeeps, IssuedKeeps

(* The controller is never given more than it takes: it is asked before    *)
(* each command whether it is busy (V2FIsControllerBusy).                  *)
THEOREM DepthKept == Spec => []DepthInv
<1>1. Init => DepthInv
    <2> SUFFICES ASSUME Init PROVE DepthInv
        OBVIOUS
    <2>1. \A w \in Ways : hw[w].cmds = <<>>
        BY DEF Init
    <2>2. Len(<<>>) = 0 /\ QueueDepth \in Nat
        BY LimitsAssumption DEF LimitsAssumption
    <2>3. pc = "rest"
        BY DEF Init
    <2>4. QED
        BY <2>1, <2>2, <2>3 DEF DepthInv, IssueLists
<1>2. Inv /\ Inv' /\ DepthInv /\ [Next]_vars => DepthInv'
    <2> SUFFICES ASSUME Inv, Inv', DepthInv, [Next]_vars PROVE DepthInv'
        OBVIOUS
    <2>1. CASE BeginPass \/ IdleEnd \/ ReportEnd \/ NoneToCheck
        <3>1. hw' = hw
            BY <2>1 DEF BeginPass, IdleEnd, ReportEnd, NoneToCheck
        <3>2. pc' \notin {"statusCheck"} \cup IssueLists \/ ~ControllerBusy(hw)
            BY <2>1 DEF BeginPass, IdleEnd, ReportEnd, NoneToCheck, IssueLists, DepthInv
        <3>3. QED
            BY <3>1, <3>2, SameHeld, NoneIssuedKeeps
    <2>2. ASSUME NEW w \in Ways, IdleWay(w) \/ ReportEnded(w) \/ ReportAgain(w) \/ ReportWaits(w)
          PROVE  DepthInv'
        <3>1. hw' = hw /\ pc' = pc /\ pc \in {"idle", "report"}
            BY <2>2 DEF IdleWay, ReportEnded, ReportAgain, ReportWaits, ReportOf
        <3>2. pc' \notin {"statusCheck"} \cup IssueLists
            BY <3>1 DEF IssueLists
        <3>3. QED
            BY <3>1, <3>2, SameHeld, NoneIssuedKeeps
    <2>3. ASSUME NEW i \in DOMAIN lists["statusCheck"], StatusCheck(i) PROVE DepthInv'
        BY <2>3, StatusCheckDepth
    <2>4. ASSUME NEW k \in 2 .. Len(Walks), Issue(k) PROVE DepthInv'
        BY <2>4, IssueDepth
    <2>5. ASSUME NEW w \in Ways, Arrive(w) \/ HwStep(w) PROVE DepthInv'
        <3>1. pc' = pc
            BY <2>5 DEF Arrive, HwStep, Start, Finish, ReportStatus, Transfer, pass
        <3>2. pc' \notin {"statusCheck"} \cup IssueLists \/ ~ControllerBusy(hw)
            BY <3>1 DEF DepthInv
        <3>3. NoneIssued
            BY <2>5, TakenHeld, SameHeld DEF Arrive
        <3>4. QED
            BY <3>2, <3>3, NoneIssuedKeeps
    <2>6. CASE UNCHANGED vars
        BY <2>6 DEF vars, DepthInv
    <2>7. QED
        BY <2>1, <2>2, <2>3, <2>4, <2>5, <2>6 DEF Next, PassStep
<1>3. QED
    BY <1>1, <1>2, WayInvariant, PTL DEF Spec

(* A die has between none and all of its retries left. *)
RetriesLeft == \A w \in Ways : die[w].retry \in 0 .. RetryLimit

LEMMA RetriesKept ==
    ASSUME Inv, RetriesLeft, NEW w \in Ways,
           die' = die \/ \E d : die' = [die EXCEPT ![w] = d] /\ d.retry \in 0 .. RetryLimit
    PROVE  RetriesLeft'
BY DEF RetriesLeft, Inv, Types

LEMMA ExecuteRetries ==
    ASSUME Inv, RetriesLeft, NEW w \in Ways, NEW status, ExecuteNandReq(w, status)
    PROVE  RetriesLeft'
<1>1. RetryLimit \in Nat /\ die[w].retry \in 0 .. RetryLimit /\ die[w] \in Die
    BY LimitsAssumption DEF LimitsAssumption, RetriesLeft, Inv, Types
<1>2. CASE Advance(w)
    <2> DEFINE d == [die[w] EXCEPT !.state = "IDLE", !.check = NextCheck(w)]
    <2>1. die' = [die EXCEPT ![w] = d]
        BY <1>2 DEF Advance
    <2>2. d.retry = die[w].retry
        BY <1>1 DEF Die
    <2> HIDE DEF d
    <2>3. QED
        BY <1>1, <2>1, <2>2, RetriesKept
<1>3. CASE Retry(w) /\ die[w].retry > 0
    <2> DEFINE n == die[w].retry - 1
               d == [die[w] EXCEPT !.state = "IDLE", !.retry = n]
    <2>1. die' = [die EXCEPT ![w] = d]
        BY <1>3 DEF Retry
    <2>2. n \in 0 .. RetryLimit
        BY <1>1, <1>3
    <2> HIDE DEF n
    <2>3. d.retry = n
        BY <1>1 DEF Die
    <2> HIDE DEF d
    <2>4. QED
        BY <2>1, <2>2, <2>3, RetriesKept
<1>4. ASSUME NEW marks, Complete(w, marks) PROVE RetriesLeft'
    <2> DEFINE d == [die[w] EXCEPT !.state = "IDLE", !.check = NextCheck(w), !.retry = RetryLimit]
    <2>1. die' = [die EXCEPT ![w] = d]
        BY <1>4 DEF Complete
    <2>2. d.retry = RetryLimit /\ RetryLimit \in 0 .. RetryLimit
        BY <1>1 DEF Die
    <2> HIDE DEF d
    <2>3. QED
        BY <2>1, <2>2, RetriesKept
<1>5. QED
    BY <1>2, <1>3, <1>4 DEF ExecuteNandReq

LEMMA CheckRetries ==
    ASSUME Inv, RetriesLeft, NEW w \in Ways, NEW c, die' = [die EXCEPT ![w].check = c]
    PROVE  RetriesLeft'
<1> DEFINE d == [die[w] EXCEPT !.check = c]
<1>1. die' = [die EXCEPT ![w] = d]
    OBVIOUS
<1>2. die[w] \in Die /\ die[w].retry \in 0 .. RetryLimit
    BY DEF RetriesLeft, Inv, Types
<1>3. d.retry = die[w].retry
    BY <1>2 DEF Die
<1> HIDE DEF d
<1>4. QED
    BY <1>1, <1>2, <1>3, RetriesKept

LEMMA IssueRetries ==
    ASSUME Inv, RetriesLeft, NEW w \in Ways, IssueNandReq(w)
    PROVE  RetriesLeft'
<1>1. PICK c : die' = [die EXCEPT ![w].state = "EXE", ![w].check = c]
    BY DEF IssueNandReq
<1> DEFINE d == [die[w] EXCEPT !.state = "EXE", !.check = c]
<1>2. die' = [die EXCEPT ![w] = d]
    BY <1>1
<1>3. die[w] \in Die /\ die[w].retry \in 0 .. RetryLimit
    BY DEF RetriesLeft, Inv, Types
<1>4. d.retry = die[w].retry
    BY <1>3 DEF Die
<1> HIDE DEF d
<1>5. QED
    BY <1>2, <1>3, <1>4, RetriesKept

(* The retries of a die never run below zero or above the limit            *)
(* (ExecuteNandReq).                                                       *)
THEOREM RetriesBounded == Spec => []RetriesLeft
<1>1. Init => RetriesLeft
    BY LimitsAssumption DEF Init, RetriesLeft, LimitsAssumption
<1>2. Inv /\ RetriesLeft /\ [Next]_vars => RetriesLeft'
    <2> SUFFICES ASSUME Inv, RetriesLeft, [Next]_vars PROVE RetriesLeft'
        OBVIOUS
    <2>1. ASSUME NEW w \in Ways, ReportEnded(w) PROVE RetriesLeft'
        BY <2>1, ExecuteRetries DEF ReportEnded
    <2>2. ASSUME NEW w \in Ways, ReportAgain(w) PROVE RetriesLeft'
        BY <2>2, CheckRetries DEF ReportAgain
    <2>3. ASSUME NEW i \in DOMAIN lists["statusCheck"], StatusCheck(i) PROVE RetriesLeft'
        <3>1. PICK w \in Ways : w = lists["statusCheck"][i]
            <4>1. lists["statusCheck"] \in Seq(Ways)
                BY ListFacts
            <4>2. QED
                BY <4>1
        <3>2. die' = die \/ die' = [die EXCEPT ![w].check = "REPORT"]
            BY <2>3, <3>1 DEF StatusCheck, ChecksStatus
        <3>3. QED
            BY <3>1, <3>2, CheckRetries DEF RetriesLeft
    <2>4. ASSUME NEW k \in 2 .. Len(Walks), Issue(k) PROVE RetriesLeft'
        <3>1. pc \in IssueLists /\ pc \in ListNames
            <4>1. k \in 2 .. 5
                BY WalkNames
            <4>2. QED
                BY <2>4, <4>1, WalkNames DEF Issue
        <3>2. PICK w \in Ways : w = Head(lists[pc])
            <4>1. lists[pc] \in Seq(Ways) /\ lists[pc] # <<>>
                BY <3>1 DEF Inv, Types, WayInv
            <4>2. QED
                BY <4>1
        <3>3. die' = die \/ IssueNandReq(w)
            BY <2>4, <3>2 DEF Issue
        <3>4. QED
            BY <3>2, <3>3, IssueRetries DEF RetriesLeft
    <2>5. CASE die' = die
        BY <2>5 DEF RetriesLeft
    <2>6. \/ die' = die
          \/ \E w \in Ways : ReportEnded(w) \/ ReportAgain(w)
          \/ \E i \in DOMAIN lists["statusCheck"] : StatusCheck(i)
          \/ \E k \in 2 .. Len(Walks) : Issue(k)
        BY DEF Next, PassStep, BeginPass, IdleEnd, IdleWay, ReportWaits, ReportEnd, NoneToCheck,
               Arrive, HwStep, Start, Finish, ReportStatus, Transfer, vars
    <2>7. QED
        BY <2>1, <2>2, <2>3, <2>4, <2>5, <2>6
<1>3. QED
    BY <1>1, <1>2, WayInvariant, PTL DEF Spec

(* Counters, lists and what the controller holds stay within their types   *)
(* and limits (request_schedule.c, nsc_driver.h).                          *)
THEOREM WayTypeCorrect == Spec => []TypeOK
<1>1. Inv /\ WaitsCount /\ DepthInv /\ RetriesLeft => TypeOK
    <2> SUFFICES ASSUME Inv, WaitsCount, DepthInv, RetriesLeft PROVE TypeOK
        OBVIOUS
    <2>1. Types
        BY DEF Inv
    <2>2. waits \in 0 .. Cardinality(Ways)
        BY WaitsBounded
    <2>3. die \in [Ways -> [state : {"IDLE", "EXE"}, retry : 0 .. RetryLimit,
                            check : {"NONE", "CHECK", "REPORT", "COMPLETION_FLAG"}]]
        <3>1. \A w \in Ways : die[w] \in [state : {"IDLE", "EXE"}, retry : 0 .. RetryLimit,
                                          check : {"NONE", "CHECK", "REPORT", "COMPLETION_FLAG"}]
            BY <2>1 DEF Types, Die, Checks, RetriesLeft
        <3>2. die = [w \in Ways |-> die[w]]
            BY <2>1 DEF Types
        <3>3. QED
            BY <3>1, <3>2
    <2>4. \A w \in Ways : hw[w].running \in BOOLEAN /\ Len(hw[w].cmds) <= QueueDepth
        BY <2>1 DEF Types, Chip, DepthInv
    <2>5. QED
        BY <2>1, <2>2, <2>3, <2>4 DEF Types, TypeOK
<1>2. QED
    BY <1>1, WayInvariant, WaitsCounted, DepthKept, RetriesBounded, PTL
-----------------------------------------------------------------------------
(* How often a read was tried *)

(* The request at the head of queue s and the retries of die d: every     *)
(* issue of a read has cost one retry, but the first.                      *)
Budget(s, d) ==
    IF s # <<>> /\ IsRead(Head(s))
    THEN Head(s).tries + d.retry = IF Head(s).code = "READ" /\ d.state = "IDLE"
                                   THEN RetryLimit ELSE RetryLimit + 1
    ELSE d.retry = RetryLimit

(* No request is tried before it is at the head. *)
Fresh(r) == r.tries = 0 /\ r.code # "READ_TRANSFER"

Untried(s, t) ==
    /\ \A i \in 2 .. Len(s) : Fresh(s[i])
    /\ \A i \in 1 .. Len(t) : Fresh(t[i])

TriesCount == \A w \in Ways : Budget(queue[w], die[w]) /\ Untried(queue[w], todo[w])

(* Requests that are let go come untried, behind the head or as the head. *)
LEMMA LetGoTries ==
    ASSUME NEW q \in [Ways -> Seq(Req)], NEW t \in [Ways -> Seq(Req)],
           NEW n \in Shares(t), LetGo(q, t, n), NEW v \in Ways, Untried(q[v], t[v])
    PROVE  /\ Untried(queue'[v], todo'[v])
           /\ q[v] # <<>> => queue'[v] # <<>> /\ Head(queue'[v]) = Head(q[v])
           /\ q[v] = <<>> => queue'[v] = <<>> \/ Fresh(Head(queue'[v]))
<1> DEFINE s == t[v]
           r == q[v]
           gone == SubSeq(s, 1, n[v])
           kept == SubSeq(s, n[v] + 1, Len(s))
<1>1. /\ s \in Seq(Req) /\ r \in Seq(Req) /\ n[v] \in 0 .. Len(s)
      /\ Len(s) \in Nat /\ Len(r) \in Nat
    BY DEF Shares
<1>2. queue'[v] = r \o gone /\ todo'[v] = kept
    BY DEF LetGo
<1>3. /\ \A i \in 2 .. Len(r) : Fresh(r[i])
      /\ \A i \in 1 .. Len(s) : Fresh(s[i]) /\ s[i] \in Req
    BY <1>1 DEF Untried
<1>4. queue'[v] \in Seq(Req)
    BY LetGoFact
<1>5. r # <<>> => queue'[v] # <<>> /\ Head(queue'[v]) = Head(r)
    BY LetGoFact
<1> HIDE DEF s, r
<1>6. /\ gone \in Seq(Req) /\ Len(gone) = n[v]
      /\ \A i \in 1 .. n[v] : gone[i] = s[i]
    BY <1>1, <1>3, SubSeqProperties
<1>7. \A i \in 1 .. Len(kept) : Fresh(kept[i])
    <2> DEFINE m == n[v] + 1
    <2>1. m \in Nat \ {0} /\ \A i \in m .. Len(s) : s[i] \in Req
        BY <1>1, <1>3
    <2>2. kept = SubSeq(s, m, Len(s))
        OBVIOUS
    <2> HIDE DEF kept, m
    <2>3. /\ Len(SubSeq(s, m, Len(s))) = IF m <= Len(s) THEN Len(s) - m + 1 ELSE 0
          /\ \A i \in 1 .. Len(s) - m + 1 : SubSeq(s, m, Len(s))[i] = s[m + i - 1]
        BY <1>1, <2>1, SubSeqProperties
    <2>4. ASSUME NEW i \in 1 .. Len(kept) PROVE Fresh(kept[i])
        <3>1. i \in 1 .. Len(s) - m + 1 /\ m + i - 1 \in 1 .. Len(s)
            BY <1>1, <2>1, <2>2, <2>3
        <3>2. QED
            BY <1>3, <2>2, <2>3, <3>1
    <2>5. QED
        BY <2>4
<1>8. \A i \in 1 .. n[v] : Fresh(gone[i])
    BY <1>1, <1>3, <1>6
<1> HIDE DEF gone, kept
<1>9. /\ Len(r \o gone) = Len(r) + n[v]
      /\ \A i \in 1 .. Len(r) + n[v] :
             (r \o gone)[i] = IF i <= Len(r) THEN r[i] ELSE gone[i - Len(r)]
    <2>1. /\ Len(r \o gone) = Len(r) + Len(gone)
          /\ \A i \in 1 .. Len(r) + Len(gone) :
                 (r \o gone)[i] = IF i <= Len(r) THEN r[i] ELSE gone[i - Len(r)]
        BY <1>1, <1>6, ConcatProperties
    <2>2. QED
        BY <1>6, <2>1
<1>10. ASSUME NEW i \in 1 .. Len(r) + n[v], i # 1 \/ Len(r) = 0
       PROVE  Fresh((r \o gone)[i])
    <2>1. CASE i <= Len(r)
        <3>1. i \in 2 .. Len(r)
            BY <1>1, <1>10, <2>1
        <3>2. QED
            BY <1>3, <1>9, <2>1, <3>1
    <2>2. CASE ~ (i <= Len(r))
        <3>1. i - Len(r) \in 1 .. n[v]
            BY <1>1, <2>2
        <3>2. QED
            BY <1>8, <1>9, <2>2, <3>1
    <2>3. QED
        BY <2>1, <2>2
<1>11. \A i \in 2 .. Len(queue'[v]) : Fresh(queue'[v][i])
    <2>1. \A i \in 2 .. Len(r) + n[v] : i \in 1 .. Len(r) + n[v] /\ i # 1
        OBVIOUS
    <2>2. QED
        BY <1>2, <1>9, <1>10, <2>1
<1>12. r = <<>> => queue'[v] = <<>> \/ Fresh(Head(queue'[v]))
    <2> SUFFICES ASSUME r = <<>>, queue'[v] # <<>> PROVE Fresh(Head(queue'[v]))
        OBVIOUS
    <2>1. Head(queue'[v]) = queue'[v][1] /\ 1 \in 1 .. Len(queue'[v])
        BY <1>4
    <2>2. Len(r) = 0
        OBVIOUS
    <2>3. QED
        BY <1>2, <1>9, <1>10, <2>1, <2>2
<1>13. QED
    BY <1>2, <1>5, <1>7, <1>11, <1>12 DEF Untried, r

(* A way that has nothing to do has an idle die. *)
LEMMA EmptyIsIdle ==
    ASSUME Inv, NEW w \in Ways, queue[w] = <<>>
    PROVE  die[w].state = "IDLE"
<1>1. PICK l \in ListNames : w \in Range(lists[l])
    BY DEF Inv, WayInv, OnOneList
<1>2. Fits(l, w)
    BY <1>1 DEF Inv, WayInv, ListsFit
<1>3. QED
    BY <1>2 DEF Fits, ListNames, IssueLists

LEMMA LetGoTriesKept ==
    ASSUME Inv, TriesCount, NEW n \in Shares(todo), LetGo(queue, todo, n), die' = die
    PROVE  TriesCount'
<1>1. queue \in [Ways -> Seq(Req)] /\ todo \in [Ways -> Seq(Req)] /\ RetryLimit \in Nat
    BY LimitsAssumption DEF Inv, Types, LimitsAssumption
<1>2. ASSUME NEW v \in Ways
      PROVE  Budget(queue'[v], die'[v]) /\ Untried(queue'[v], todo'[v])
    <2>1. Budget(queue[v], die[v]) /\ Untried(queue[v], todo[v])
        BY DEF TriesCount
    <2>2. /\ Untried(queue'[v], todo'[v])
          /\ queue[v] # <<>> => queue'[v] # <<>> /\ Head(queue'[v]) = Head(queue[v])
          /\ queue[v] = <<>> => queue'[v] = <<>> \/ Fresh(Head(queue'[v]))
        BY <1>1, <2>1, LetGoTries
    <2>3. CASE queue[v] # <<>>
        BY <2>1, <2>2, <2>3 DEF Budget
    <2>4. CASE queue[v] = <<>>
        <3>1. die[v].state = "IDLE" /\ die[v].retry = RetryLimit
            BY <2>1, <2>4, EmptyIsIdle DEF Budget
        <3>2. QED
            BY <1>1, <2>2, <2>4, <3>1 DEF Budget, Fresh, IsRead
    <2>5. QED
        BY <2>2, <2>3, <2>4
<1>3. QED
    BY <1>2 DEF TriesCount

(* One die and its queue change, the others stay as they are. *)
LEMMA OneTries ==
    ASSUME TriesCount, NEW w \in Ways,
           \A v \in Ways \ {w} : queue'[v] = queue[v] /\ todo'[v] = todo[v] /\ die'[v] = die[v],
           Budget(queue'[w], die'[w]), Untried(queue'[w], todo'[w])
    PROVE  TriesCount'
BY DEF TriesCount

(* A change of the head only. *)
LEMMA HeadTries ==
    ASSUME Inv, TriesCount, NEW w \in Ways, queue[w] # <<>>, NEW r \in Req,
           queue' = [queue EXCEPT ![w] = [queue[w] EXCEPT ![1] = r]], todo' = todo,
           NEW d \in Die, die' = [die EXCEPT ![w] = d],
           IF IsRead(r) THEN r.tries + d.retry = IF r.code = "READ" /\ d.state = "IDLE"
                                                 THEN RetryLimit ELSE RetryLimit + 1
                        ELSE d.retry = RetryLimit
    PROVE  TriesCount'
<1>1. /\ queue' \in [Ways -> Seq(Req)]
      /\ queue'[w] # <<>> /\ Head(queue'[w]) = r
      /\ Len(queue'[w]) = Len(queue[w])
      /\ \A v \in Ways \ {w} : queue'[v] = queue[v]
    BY ReplaceHeadFact DEF Inv
<1>2. die'[w] = d /\ \A v \in Ways \ {w} : die'[v] = die[v]
    BY DieFact DEF Inv
<1>3. Budget(queue'[w], die'[w])
    BY <1>1, <1>2 DEF Budget
<1>4. Untried(queue[w], todo[w]) /\ queue[w] \in Seq(Req) /\ queue \in [Ways -> Seq(Req)]
    BY DEF TriesCount, Inv, Types
<1>5. queue'[w] = [queue[w] EXCEPT ![1] = r]
    BY <1>4
<1>6. \A i \in 2 .. Len(queue[w]) : i \in DOMAIN queue[w] /\ i # 1
    BY <1>4
<1>7. \A i \in 2 .. Len(queue'[w]) : queue'[w][i] = queue[w][i]
    BY <1>1, <1>5, <1>6
<1>8. Untried(queue'[w], todo'[w])
    BY <1>1, <1>4, <1>7 DEF Untried
<1>9. QED
    BY <1>1, <1>2, <1>3, <1>8, OneTries

(* The head of w's queue, and what its tries say. *)
LEMMA HeadBudget ==
    ASSUME Inv, TriesCount, RetriesLeft, NEW w \in Ways, queue[w] # <<>>
    PROVE  /\ HeadReq(w) \in Req /\ die[w] \in Die /\ RetryLimit \in Nat
           /\ die[w].retry \in 0 .. RetryLimit
           /\ IF IsRead(HeadReq(w))
              THEN HeadReq(w).tries + die[w].retry =
                       IF HeadReq(w).code = "READ" /\ die[w].state = "IDLE"
                       THEN RetryLimit ELSE RetryLimit + 1
              ELSE die[w].retry = RetryLimit
<1>1. HeadReq(w) \in Req
    BY HeadReqFact DEF Inv
<1>2. Budget(queue[w], die[w])
    BY DEF TriesCount
<1>3. QED
    BY <1>1, <1>2, LimitsAssumption DEF Budget, HeadReq, Inv, Types, LimitsAssumption, RetriesLeft

LEMMA AdvanceTries ==
    ASSUME Inv, TriesCount, RetriesLeft, NEW w \in Ways, queue[w] # <<>>,
           die[w].state = "EXE", HeadReq(w).code = "READ", Advance(w)
    PROVE  TriesCount'
<1> DEFINE r == [HeadReq(w) EXCEPT !.code = "READ_TRANSFER"]
           c == NextCheck(w)
           d == [die[w] EXCEPT !.state = "IDLE", !.check = c]
<1>1. HeadReq(w) = queue[w][1]
    BY HeadReqFact DEF Inv
<1>2. /\ queue' = [queue EXCEPT ![w] = [queue[w] EXCEPT ![1] = r]]
      /\ die' = [die EXCEPT ![w] = d] /\ todo' = todo
    BY <1>1 DEF Advance
<1>3. c \in Checks
    BY NextCheckFact DEF Inv
<1> HIDE DEF c
<1>4. r \in Req /\ r.code = "READ_TRANSFER" /\ r.tries = HeadReq(w).tries
    BY HeadBudget DEF Req, Codes
<1>5. d \in Die /\ d.state = "IDLE" /\ d.retry = die[w].retry
    BY <1>3, HeadBudget DEF Die
<1>6. HeadReq(w).tries + die[w].retry = RetryLimit + 1
    BY HeadBudget DEF IsRead
<1> HIDE DEF r, d
<1>7. QED
    BY <1>2, <1>4, <1>5, <1>6, HeadTries DEF IsRead

LEMMA RetryTries ==
    ASSUME Inv, TriesCount, RetriesLeft, NEW w \in Ways, queue[w] # <<>>,
           die[w].state = "EXE", IsRead(HeadReq(w)), Retry(w)
    PROVE  TriesCount'
<1> DEFINE r == [HeadReq(w) EXCEPT !.code = "READ"]
           k == die[w].retry - 1
           d == [die[w] EXCEPT !.state = "IDLE", !.retry = k]
<1>1. HeadReq(w) = queue[w][1]
    BY HeadReqFact DEF Inv
<1>2. /\ queue' = [queue EXCEPT ![w] = [queue[w] EXCEPT ![1] = r]]
      /\ die' = [die EXCEPT ![w] = d] /\ todo' = todo
    BY <1>1 DEF Retry
<1>3. k \in Int
    BY HeadBudget
<1>4. HeadReq(w).tries + die[w].retry = RetryLimit + 1
    BY HeadBudget
<1>5. HeadReq(w).tries + k = RetryLimit
    BY <1>4, HeadBudget DEF Req
<1> HIDE DEF k
<1>6. r \in Req /\ r.code = "READ" /\ r.tries = HeadReq(w).tries
    BY HeadBudget DEF Req, Codes
<1>7. d \in Die /\ d.state = "IDLE" /\ d.retry = k
    BY <1>3, HeadBudget DEF Die
<1> HIDE DEF r, d
<1>8. QED
    BY <1>2, <1>5, <1>6, <1>7, HeadTries DEF IsRead

LEMMA CompleteTries ==
    ASSUME Inv, TriesCount, RetriesLeft, NEW w \in Ways, queue[w] # <<>>,
           NEW marks, Complete(w, marks)
    PROVE  TriesCount'
<1> DEFINE q == [queue EXCEPT ![w] = Tail(@)]
           c == NextCheck(w)
           k == RetryLimit
           d == [die[w] EXCEPT !.state = "IDLE", !.check = c, !.retry = k]
<1>1. PICK n \in ReleasedBy(q, todo, w) : LetGo(q, todo, n)
    BY DEF Complete
<1>2. die' = [die EXCEPT ![w] = d]
    BY DEF Complete
<1>3. c \in Checks
    BY NextCheckFact DEF Inv
<1> HIDE DEF c
<1>4. RetryLimit \in Nat /\ k \in Int /\ die[w] \in Die
    BY HeadBudget
<1> HIDE DEF k
<1>5. d \in Die /\ d.state = "IDLE" /\ d.retry = k
    BY <1>3, <1>4 DEF Die
<1> HIDE DEF d
<1>6. die'[w] = d /\ \A v \in Ways \ {w} : die'[v] = die[v]
    BY <1>2, <1>5, DieFact DEF Inv
<1>7. /\ queue[w] \in Seq(Req) /\ Tail(queue[w]) \in Seq(Req)
      /\ Len(Tail(queue[w])) = Len(queue[w]) - 1 /\ Len(queue[w]) \in Nat
      /\ \A i \in 1 .. Len(queue[w]) - 1 : Tail(queue[w])[i] = queue[w][i + 1]
    BY HeadTailProperties DEF Inv, Types
<1>8. /\ q \in [Ways -> Seq(Req)] /\ todo \in [Ways -> Seq(Req)]
      /\ q[w] = Tail(queue[w]) /\ \A v \in Ways \ {w} : q[v] = queue[v]
    BY <1>7 DEF Inv, Types
<1> HIDE DEF q
<1>9. n \in Shares(todo)
    BY <1>1, <1>8, ReleasedByFact
<1>10. \A v \in Ways : Budget(queue[v], die[v]) /\ Untried(queue[v], todo[v])
    BY DEF TriesCount
<1>11. \A i \in 1 .. Len(q[w]) : Fresh(q[w][i])
    <2> SUFFICES ASSUME NEW i \in 1 .. Len(q[w]) PROVE Fresh(q[w][i])
        OBVIOUS
    <2>1. i \in 1 .. Len(queue[w]) - 1 /\ i + 1 \in 2 .. Len(queue[w])
        BY <1>7, <1>8
    <2>2. q[w][i] = queue[w][i + 1]
        BY <1>7, <1>8, <2>1
    <2>3. QED
        BY <1>10, <2>1, <2>2 DEF Untried
<1>12. ASSUME NEW v \in Ways PROVE Untried(q[v], todo[v])
    <2>1. \A i \in 2 .. Len(q[w]) : i \in 1 .. Len(q[w])
        OBVIOUS
    <2>2. QED
        BY <1>8, <1>10, <1>11, <2>1 DEF Untried
<1>13. ASSUME NEW v \in Ways
       PROVE  /\ Untried(queue'[v], todo'[v])
              /\ q[v] # <<>> => queue'[v] # <<>> /\ Head(queue'[v]) = Head(q[v])
              /\ q[v] = <<>> => queue'[v] = <<>> \/ Fresh(Head(queue'[v]))
    BY <1>1, <1>8, <1>9, <1>12, LetGoTries
<1>14. queue'[w] = <<>> \/ Fresh(Head(queue'[w]))
    <2>1. q[w] \in Seq(Req)
        BY <1>8
    <2>2. q[w] # <<>> => Fresh(Head(q[w]))
        BY <1>11, <2>1
    <2>3. QED
        BY <1>13, <2>2
<1>15. Budget(queue'[w], die'[w])
    BY <1>4, <1>5, <1>6, <1>14 DEF Budget, Fresh, IsRead, k
<1>16. ASSUME NEW v \in Ways, v # w PROVE Budget(queue'[v], die'[v])
    <2>1. q[v] = queue[v] /\ die'[v] = die[v] /\ Budget(queue[v], die[v])
        BY <1>6, <1>8, <1>10, <1>16
    <2>2. CASE queue[v] # <<>>
        BY <1>13, <2>1, <2>2 DEF Budget
    <2>3. CASE queue[v] = <<>>
        <3>1. die[v].state = "IDLE" /\ die[v].retry = RetryLimit
            BY <2>1, <2>3, EmptyIsIdle DEF Budget
        <3>2. QED
            BY <1>4, <1>13, <2>1, <2>3, <3>1 DEF Budget, Fresh, IsRead
    <2>4. QED
        BY <2>2, <2>3
<1>17. QED
    BY <1>13, <1>15, <1>16 DEF TriesCount

LEMMA ReportEndedTries ==
    ASSUME Inv, TriesCount, RetriesLeft, NEW w \in Ways, ReportEnded(w)
    PROVE  TriesCount'
<1>1. queue[w] # <<>> /\ die[w].state = "EXE"
    BY ReportMoves DEF ReportEnded, Fits
<1>2. ExecuteNandReq(w, ReqStatus(w))
    BY DEF ReportEnded
<1>3. \/ HeadReq(w).code = "READ" /\ Advance(w)
      \/ IsRead(HeadReq(w)) /\ Retry(w)
      \/ Complete(w, FALSE) \/ Complete(w, TRUE)
    BY <1>2 DEF ExecuteNandReq
<1>4. QED
    BY <1>1, <1>3, AdvanceTries, RetryTries, CompleteTries

LEMMA CheckTries ==
    ASSUME Inv, TriesCount, NEW w \in Ways, NEW c, die' = [die EXCEPT ![w].check = c],
           queue' = queue, todo' = todo
    PROVE  TriesCount'
<1> DEFINE d == [die[w] EXCEPT !.check = c]
<1>1. die' = [die EXCEPT ![w] = d]
    OBVIOUS
<1>2. die \in [Ways -> Die]
    BY DEF Inv, Types
<1>3. d.retry = die[w].retry /\ d.state = die[w].state
    BY <1>2 DEF Die
<1> HIDE DEF d
<1>4. die'[w] = d /\ \A v \in Ways \ {w} : die'[v] = die[v]
    BY <1>1, <1>2
<1>5. Budget(queue[w], die[w]) /\ Untried(queue[w], todo[w])
    BY DEF TriesCount
<1>6. QED
    BY <1>3, <1>4, <1>5, OneTries DEF Budget

LEMMA IssueTries ==
    ASSUME Inv, TriesCount, RetriesLeft, NEW w \in Ways, queue[w] # <<>>,
           die[w].state = "IDLE", IssueNandReq(w), todo' = todo
    PROVE  TriesCount'
<1>1. PICK c \in Checks : die' = [die EXCEPT ![w].state = "EXE", ![w].check = c]
    <2>1. HeadReq(w).code \in Codes
        BY HeadBudget DEF Req
    <2>2. QED
        BY <2>1 DEF IssueNandReq, Codes, FlashOps, Checks
<1> DEFINE d == [die[w] EXCEPT !.state = "EXE", !.check = c]
<1>2. die' = [die EXCEPT ![w] = d]
    BY <1>1
<1>3. d \in Die /\ d.state = "EXE" /\ d.retry = die[w].retry
    BY HeadBudget DEF Die
<1> HIDE DEF d
<1>4. HeadReq(w) = queue[w][1] /\ queue[w] \in Seq(Req) /\ queue \in [Ways -> Seq(Req)]
    BY HeadReqFact DEF Inv, Types
<1>5. CASE HeadReq(w).code = "READ"
    <2> DEFINE k == HeadReq(w).tries + 1
               r == [HeadReq(w) EXCEPT !.tries = k]
    <2>1. queue' = [queue EXCEPT ![w] = [queue[w] EXCEPT ![1] = r]]
        BY <1>4, <1>5 DEF IssueNandReq
    <2>2. k \in Nat
        BY HeadBudget DEF Req
    <2>3. HeadReq(w).tries + die[w].retry = RetryLimit
        BY <1>5, HeadBudget DEF IsRead
    <2>4. k + die[w].retry = RetryLimit + 1
        BY <2>3, HeadBudget DEF Req
    <2> HIDE DEF k
    <2>5. r \in Req /\ r.code = "READ" /\ r.tries = k
        BY <1>5, <2>2, HeadBudget DEF Req
    <2> HIDE DEF r
    <2>6. QED
        BY <1>2, <1>3, <2>1, <2>4, <2>5, HeadTries DEF IsRead
<1>6. CASE HeadReq(w).code # "READ"
    <2>1. queue' = queue
        BY <1>6 DEF IssueNandReq
    <2>2. die'[w] = d /\ \A v \in Ways \ {w} : die'[v] = die[v]
        BY <1>2, <1>3, DieFact DEF Inv
    <2>3. Budget(queue[w], die[w]) /\ Untried(queue[w], todo[w])
        BY DEF TriesCount
    <2>4. Budget(queue[w], die'[w])
        BY <1>3, <1>6, <2>2, <2>3 DEF Budget, HeadReq
    <2>5. QED
        BY <2>1, <2>2, <2>3, <2>4, OneTries
<1>7. QED
    BY <1>5, <1>6

(* The tries of a read and the retries its way has left add up             *)
(* (ExecuteNandReq, IssueNandReq).                                         *)
THEOREM TriesCounted == Spec => []TriesCount
<1>1. Init => TriesCount
    <2> SUFFICES ASSUME Init, NEW w \in Ways PROVE Budget(queue[w], die[w]) /\ Untried(queue[w], todo[w])
        BY DEF TriesCount
    <2>1. queue[w] = <<>> /\ die[w].retry = RetryLimit /\ todo[w] = Load[w]
        BY DEF Init
    <2> DEFINE R == [code : Codes \ {"READ_TRANSFER"}, ecc : BOOLEAN,
                     warn : BOOLEAN, block : Nat, tries : {0}]
    <2>2. Load[w] \in Seq(R)
        BY LoadAssumption DEF LoadAssumption
    <2>3. \A r \in R : Fresh(r)
        BY DEF Fresh
    <2> HIDE DEF R
    <2>4. \A i \in 1 .. Len(Load[w]) : Load[w][i] \in R
        BY <2>2
    <2>5. Len(queue[w]) = 0
        BY <2>1
    <2>6. QED
        BY <2>1, <2>3, <2>4, <2>5 DEF Budget, Untried
<1>2. Inv /\ TriesCount /\ RetriesLeft /\ [Next]_vars => TriesCount'
    <2> SUFFICES ASSUME Inv, TriesCount, RetriesLeft, [Next]_vars PROVE TriesCount'
        OBVIOUS
    <2>1. CASE UNCHANGED <<die, queue, todo>>
        BY <2>1 DEF TriesCount
    <2>2. ASSUME NEW w \in Ways, Arrive(w) PROVE TriesCount'
        <3>1. OneOf(w) \in Shares(todo)
            BY <2>2, OneOfFact DEF Arrive, Inv, Types
        <3>2. QED
            BY <2>2, <3>1, LetGoTriesKept DEF Arrive
    <2>3. ASSUME NEW w \in Ways, IdleWay(w) PROVE TriesCount'
        <3>1. PICK n \in Released(Nobody, queue, todo, w) : LetGo(queue, todo, n)
            BY <2>3 DEF IdleWay
        <3>2. n \in Shares(todo)
            BY <3>1, NobodyFact, ReleasedFact DEF Inv, Types
        <3>3. QED
            BY <2>3, <3>1, <3>2, LetGoTriesKept DEF IdleWay
    <2>4. ASSUME NEW w \in Ways, ReportEnded(w) PROVE TriesCount'
        BY <2>4, ReportEndedTries
    <2>5. ASSUME NEW w \in Ways, ReportAgain(w) PROVE TriesCount'
        BY <2>5, CheckTries DEF ReportAgain
    <2>6. ASSUME NEW i \in DOMAIN lists["statusCheck"], StatusCheck(i) PROVE TriesCount'
        <3>1. PICK w \in Ways : w = lists["statusCheck"][i]
            <4>1. lists["statusCheck"] \in Seq(Ways)
                BY ListFacts
            <4>2. QED
                BY <4>1
        <3>2. /\ die' = die \/ die' = [die EXCEPT ![w].check = "REPORT"]
              /\ queue' = queue /\ todo' = todo
            BY <2>6, <3>1 DEF StatusCheck, ChecksStatus
        <3>3. QED
            BY <2>1, <3>1, <3>2, CheckTries
    <2>7. ASSUME NEW k \in 2 .. Len(Walks), Issue(k) PROVE TriesCount'
        <3>1. pc = Walks[k] /\ pc \in IssueLists /\ lists[pc] # <<>> /\ lists[pc] \in Seq(Ways)
            BY <2>7, WalkNames DEF Issue, Inv, WayInv, Types
        <3>2. PICK w \in Ways : w = Head(lists[pc])
            BY <3>1
        <3>3. w \in Range(lists[pc])
            BY <3>1, <3>2 DEF Range
        <3>4. Fits(pc, w)
            BY <3>1, <3>3, WalkNames DEF Inv, WayInv, ListsFit
        <3>5. queue[w] # <<>>
            BY <3>1, <3>4 DEF Fits, IssueLists
        <3>6. CASE die[w].state = "IDLE"
            BY <2>7, <3>2, <3>5, <3>6, IssueTries DEF Issue
        <3>7. CASE die[w].state # "IDLE"
            BY <2>1, <2>7, <3>2, <3>7 DEF Issue
        <3>8. QED
            BY <3>6, <3>7
    <2>8. \/ UNCHANGED <<die, queue, todo>>
          \/ \E w \in Ways : Arrive(w) \/ IdleWay(w) \/ ReportEnded(w) \/ ReportAgain(w)
          \/ \E i \in DOMAIN lists["statusCheck"] : StatusCheck(i)
          \/ \E k \in 2 .. Len(Walks) : Issue(k)
        BY DEF Next, PassStep, BeginPass, IdleEnd, ReportWaits, ReportEnd, NoneToCheck,
               HwStep, Start, Finish, ReportStatus, Transfer, vars
    <2>9. QED
        BY <2>1, <2>2, <2>3, <2>4, <2>5, <2>6, <2>7, <2>8
<1>3. QED
    BY <1>1, <1>2, WayInvariant, RetriesBounded, PTL DEF Spec

(* A read whose block is marked bad has had every retry, or its page was   *)
(* worn (ExecuteNandReq).                                                  *)
THEOREM FullRetriesCorrect == Spec => FullRetries
<1>1. Inv /\ Inv' /\ TriesCount /\ RetriesLeft /\ [Next]_vars =>
          [\A w \in Ways :
               Leaves(w) /\ IsRead(HeadReq(w)) /\ HeadReq(w).block \in grown' \ grown =>
                   \/ HeadReq(w).tries = RetryLimit + 1
                   \/ HeadReq(w).ecc /\ mem[w].errorInfo = "worn"]_vars
    <2> SUFFICES ASSUME Inv, Inv', TriesCount, RetriesLeft, Next, NEW w \in Ways, Leaves(w),
                        IsRead(HeadReq(w)), HeadReq(w).block \in grown' \ grown
                 PROVE  \/ HeadReq(w).tries = RetryLimit + 1
                        \/ HeadReq(w).ecc /\ mem[w].errorInfo = "worn"
        OBVIOUS
    <2>1. ReportEnded(w) /\ (EndedWell(w) \/ EndedBadly(w))
        BY WhoLeaves, KeptStays DEF Inv
    <2>2. EndedBadly(w)
        BY <2>1 DEF EndedWell, Complete
    <2>3. queue[w] # <<>> /\ die[w].state = "EXE" /\ ReqStatus(w) # "RUNNING"
        BY <2>1, ReportMoves DEF ReportEnded, Fits
    <2>4. ReqStatus(w) # "DONE" /\ ExecuteNandReq(w, ReqStatus(w))
        BY <2>1, <2>2 DEF EndedBadly, ReportEnded
    <2>5. HeadReq(w).tries + die[w].retry = RetryLimit + 1
        BY <2>3, HeadBudget
    <2>6. CASE ReqStatus(w) = "FAIL"
        <3>1. ~Retry(w)
            BY <2>2 DEF Retry, EndedBadly, Complete
        <3>2. ~ (die[w].retry > 0)
            BY <2>4, <2>6, <3>1 DEF ExecuteNandReq
        <3>3. die[w].retry = 0 /\ HeadReq(w).tries \in Nat
            BY <2>3, <3>2, HeadBudget DEF Req
        <3>4. QED
            BY <2>5, <3>3
    <2>7. CASE ReqStatus(w) # "FAIL"
        BY <2>3, <2>4, <2>7 DEF ReqStatus, CheckEccErrorInfo
    <2>8. QED
        BY <2>6, <2>7
<1>2. QED
    BY <1>1, WayInvariant, TriesCounted, RetriesBounded, PTL DEF Spec, FullRetries
=============================================================================
