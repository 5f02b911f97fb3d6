--------------------------- MODULE ReqOrderProofs ---------------------------
(***************************************************************************)
(* Proofs that the requests of a block reach its flash in order            *)
(* (FlashInOrder of ReqSched) and that none is left behind (NothingStuck), *)
(* for any number of tags, ways, blocks and buffer entries.                *)
(*                                                                         *)
(* A block has an erase cycle and programmed pages in three places: on the *)
(* flash; where the flash will be when its way has done what it was given, *)
(* that is, what the row address table stands for; and where the requests  *)
(* handed down so far leave it, of which the upper layers are ahead by the *)
(* requests not handed down yet.  Each step between two of these follows   *)
(* the requests on the way: a queue by a trail of states, the blocked      *)
(* requests, which are in no order, by what Pending says of them.          *)
(*                                                                         *)
(* The blocked requests have ages.  Each waits for an older one, in the    *)
(* chain of its entry (ChainAged) or in the order of its block (Awaits),   *)
(* and what the block still needs is among them (Full): the oldest waits   *)
(* for nobody, so it can go unless it reads what is never programmed.      *)
(***************************************************************************)
EXTENDS ReqSchedProofs

(* The state of a block. *)
States == [cycle : Int, pages : Nat]
State(c, p) == [cycle |-> c, pages |-> p]

(* Request r fits a block in state x, and what it leaves. *)
Fits(r, x) ==
    /\ r.cycle = x.cycle
    /\ r.code = "READ" => r.page < x.pages
    /\ r.code # "READ" => r.page = x.pages
After(r, x) ==
    CASE r.code = "WRITE" -> State(r.cycle, r.page + 1)
      [] r.code = "ERASE" -> State(1 - r.cycle, 0)
      [] OTHER -> x

(* The queue q of requests takes block b from state x to state y, by h.    *)
TrailBy(h, q, req, b, x, y) ==
    /\ h \in [1 .. Len(q) + 1 -> States]
    /\ h[1] = x
    /\ h[Len(q) + 1] = y
    /\ \A i \in 1 .. Len(q) :
           /\ req[q[i]].block = b => Fits(req[q[i]], h[i]) /\ h[i + 1] = After(req[q[i]], h[i])
           /\ req[q[i]].block # b => h[i + 1] = h[i]
Trail(q, req, b, x, y) == \E h : TrailBy(h, q, req, b, x, y)

(* Nothing queued, nothing changes. *)
LEMMA TrailEmpty ==
    ASSUME NEW req, NEW b, NEW x \in States
    PROVE  Trail(<<>>, req, b, x, x)
<1>1. PICK h : h = [i \in 1 .. Len(<<>>) + 1 |-> x]
    OBVIOUS
<1>2. Len(<<>>) = 0
    OBVIOUS
<1>3. TrailBy(h, <<>>, req, b, x, x)
    BY <1>1, <1>2 DEF TrailBy
<1>4. QED
    BY <1>3 DEF Trail

(* A request that fits is appended. *)
LEMMA TrailAppend ==
    ASSUME NEW q \in Seq(Tags), NEW req, NEW b, NEW x, NEW y, Trail(q, req, b, x, y),
           NEW t \in Tags, NEW z \in States,
           req[t].block = b => Fits(req[t], y) /\ z = After(req[t], y),
           req[t].block # b => z = y
    PROVE  Trail(Append(q, t), req, b, x, z)
<1>1. PICK h : TrailBy(h, q, req, b, x, y)
    BY DEF Trail
<1>2. PICK n \in Nat : n = Len(q)
    OBVIOUS
<1>3. PICK p : p = Append(q, t)
    OBVIOUS
<1>4. p \in Seq(Tags) /\ Len(p) = n + 1 /\ p[n + 1] = t /\ \A i \in 1 .. n : p[i] = q[i]
    BY <1>2, <1>3
<1>5. PICK g : g = [i \in 1 .. n + 2 |-> IF i = n + 2 THEN z ELSE h[i]]
    OBVIOUS
<1>6. h \in [1 .. n + 1 -> States] /\ h[1] = x /\ h[n + 1] = y
    BY <1>1, <1>2 DEF TrailBy
<1>7. \A i \in 1 .. n + 1 : i \in 1 .. n + 2 /\ i # n + 2
    OBVIOUS
<1>8. \A i \in 1 .. n + 1 : g[i] = h[i]
    BY <1>5, <1>7
<1>9. g[n + 2] = z /\ n + 2 \in 1 .. n + 2
    BY <1>5
<1>10. g \in [1 .. (n + 1) + 1 -> States]
    <2>1. (n + 1) + 1 = n + 2 /\ \A i \in 1 .. n + 2 : i \in 1 .. n + 1 \/ i = n + 2
        OBVIOUS
    <2>2. QED
        BY <1>5, <1>6, <2>1
<1>11. ASSUME NEW i \in 1 .. n + 1
       PROVE  /\ req[p[i]].block = b => Fits(req[p[i]], g[i]) /\ g[i + 1] = After(req[p[i]], g[i])
              /\ req[p[i]].block # b => g[i + 1] = g[i]
    <2>1. CASE i = n + 1
        <3>1. p[i] = t /\ g[i] = y /\ g[i + 1] = z
            <4>1. i + 1 = n + 2 /\ n + 1 \in 1 .. n + 1
                BY <2>1
            <4>2. QED
                BY <1>4, <1>6, <1>8, <1>9, <2>1, <4>1
        <3>2. QED
            BY <3>1
    <2>2. CASE i # n + 1
        <3>1. i \in 1 .. n /\ i + 1 \in 1 .. n + 1
            BY <2>2
        <3>2. p[i] = q[i] /\ g[i] = h[i] /\ g[i + 1] = h[i + 1]
            BY <1>4, <1>8, <3>1
        <3>3. /\ req[q[i]].block = b => Fits(req[q[i]], h[i]) /\ h[i + 1] = After(req[q[i]], h[i])
              /\ req[q[i]].block # b => h[i + 1] = h[i]
            BY <1>1, <1>2, <3>1 DEF TrailBy
        <3>4. QED
            BY <3>2, <3>3
    <2>3. QED
        BY <2>1, <2>2
<1>12. TrailBy(g, p, req, b, x, z)
    <2>1. g[1] = x
        <3>1. 1 \in 1 .. n + 1
            OBVIOUS
        <3>2. QED
            BY <1>6, <1>8, <3>1
    <2>2. g[(n + 1) + 1] = z
        <3>1. (n + 1) + 1 = n + 2
            OBVIOUS
        <3>2. QED
            BY <1>9, <3>1
    <2>3. QED
        BY <1>4, <1>10, <1>11, <2>1, <2>2 DEF TrailBy
<1>13. QED
    BY <1>3, <1>12 DEF Trail

(* The head of the queue has been done. *)
LEMMA TrailTail ==
    ASSUME NEW q \in Seq(Tags), q # <<>>, NEW req, NEW b, NEW x, NEW y,
           Trail(q, req, b, x, y), NEW r, r = req[Head(q)]
    PROVE  /\ r.block = b => Fits(r, x) /\ Trail(Tail(q), req, b, After(r, x), y)
           /\ r.block # b => Trail(Tail(q), req, b, x, y)
<1>1. PICK h : TrailBy(h, q, req, b, x, y)
    BY DEF Trail
<1>2. PICK n \in Nat : Len(q) = n + 1
    <2>1. Len(q) \in Nat /\ Len(q) # 0 /\ Len(q) - 1 \in Nat /\ Len(q) = (Len(q) - 1) + 1
        OBVIOUS
    <2>2. QED
        BY <2>1
<1>3. PICK p : p = Tail(q)
    OBVIOUS
<1>4. Len(p) = n /\ q[1] = Head(q) /\ \A i \in 1 .. n : p[i] = q[i + 1]
    BY <1>2, <1>3
<1>5. /\ h \in [1 .. n + 2 -> States] /\ h[1] = x /\ h[n + 2] = y
      /\ \A i \in 1 .. n + 1 :
             /\ req[q[i]].block = b => Fits(req[q[i]], h[i]) /\ h[i + 1] = After(req[q[i]], h[i])
             /\ req[q[i]].block # b => h[i + 1] = h[i]
    <2>1. (n + 1) + 1 = n + 2
        OBVIOUS
    <2>2. QED
        BY <1>1, <1>2, <2>1 DEF TrailBy
<1>6. /\ r.block = b => Fits(r, x) /\ h[2] = After(r, x)
      /\ r.block # b => h[2] = x
    <2>1. 1 \in 1 .. n + 1 /\ 1 + 1 = 2
        OBVIOUS
    <2>2. QED
        BY <1>4, <1>5, <2>1
<1>7. PICK g : g = [i \in 1 .. n + 1 |-> h[i + 1]]
    OBVIOUS
<1>8. TrailBy(g, p, req, b, h[2], y)
    <2>1. \A i \in 1 .. n + 1 : i + 1 \in 1 .. n + 2
        OBVIOUS
    <2>2. g \in [1 .. n + 1 -> States]
        BY <1>5, <1>7, <2>1
    <2>3. g[1] = h[2] /\ g[n + 1] = y
        <3>1. 1 \in 1 .. n + 1 /\ n + 1 \in 1 .. n + 1 /\ 1 + 1 = 2 /\ (n + 1) + 1 = n + 2
            OBVIOUS
        <3>2. QED
            BY <1>5, <1>7, <3>1
    <2>4. ASSUME NEW i \in 1 .. n
          PROVE  /\ req[p[i]].block = b =>
                        Fits(req[p[i]], g[i]) /\ g[i + 1] = After(req[p[i]], g[i])
                 /\ req[p[i]].block # b => g[i + 1] = g[i]
        <3>1. i \in 1 .. n + 1 /\ i + 1 \in 1 .. n + 1
            OBVIOUS
        <3>2. g[i] = h[i + 1] /\ g[i + 1] = h[(i + 1) + 1] /\ p[i] = q[i + 1]
            BY <1>4, <1>7, <3>1
        <3>3. QED
            BY <1>5, <3>1, <3>2
    <2>5. QED
        BY <1>4, <2>2, <2>3, <2>4 DEF TrailBy
<1>9. Trail(p, req, b, h[2], y)
    BY <1>8 DEF Trail
<1>10. QED
    BY <1>3, <1>6, <1>9

(* Only the requests in the queue matter. *)
LEMMA TrailSame ==
    ASSUME NEW q \in Seq(Tags), NEW req, NEW b, NEW x, NEW y, Trail(q, req, b, x, y),
           NEW new, \A i \in 1 .. Len(q) : new[q[i]] = req[q[i]]
    PROVE  Trail(q, new, b, x, y)
<1>1. PICK h : TrailBy(h, q, req, b, x, y)
    BY DEF Trail
<1>2. TrailBy(h, q, new, b, x, y)
    BY <1>1 DEF TrailBy
<1>3. QED
    BY <1>2 DEF Trail
-----------------------------------------------------------------------------
(* The blocked requests P, when the table is at page pm and cycle go, ef   *)
(* says whose erase is blocked, and the requests handed down leave the     *)
(* blocks in state F; d: the call that handed the last one down waits for  *)
(* all requests to be done.                                                *)
Sorts(req, P) ==
    \A t \in P : /\ req[t] \in Requests
                 /\ req[t].code \in FlashCodes => req[t].block \in Blocks

(* The table lags behind what was handed down by an erase or by programs.  *)
TableLags(pm, ef, go, F) ==
    \A b \in Blocks :
        /\ ef[b] => F[b].cycle = 1 - go[b]
        /\ ~ef[b] => F[b].cycle = go[b] /\ pm[b] <= F[b].pages

(* A program is due in the cycle of the table, or in the next one.  Those  *)
(* of the next one cannot go before the erase does.                        *)
WritesDue(req, pm, ef, P, go, F) ==
    \A t \in P : req[t].code = "WRITE" =>
        LET r == req[t]
            b == req[t].block
        IN  \/ /\ r.cycle = go[b]
               /\ pm[b] <= r.page
               /\ ~ef[b] => r.page < F[b].pages
            \/ /\ ef[b]
               /\ r.cycle = F[b].cycle
               /\ r.page < pm[b]
               /\ r.page < F[b].pages
WritesDiffer(req, P) ==
    \A t, u \in P :
        /\ req[t].code = "WRITE" /\ req[u].code = "WRITE"
        /\ req[t].block = req[u].block /\ req[t].cycle = req[u].cycle
        /\ req[t].page = req[u].page
        => t = u
ErasesDue(req, ef, P, go) ==
    \A t \in P : req[t].code = "ERASE" =>
        ef[req[t].block] /\ req[t].cycle = go[req[t].block]
OneErase(req, P) ==
    \A t, u \in P :
        req[t].code = "ERASE" /\ req[u].code = "ERASE" /\ req[t].block = req[u].block => t = u
ErasesLast(req, P) ==
    \A t, u \in P :
        /\ req[t].code = "WRITE" /\ req[u].code = "ERASE"
        /\ req[t].block = req[u].block /\ req[t].cycle = req[u].cycle
        => req[t].page < req[u].page

(* A read is due in the cycle of the table, unless it comes from a stale   *)
(* load: it then reads a block with no page, and never goes.               *)
ReadsDue(req, ef, P, go, F, d) ==
    \A t \in P : req[t].code = "READ" =>
        \/ req[t].cycle = go[req[t].block]
        \/ d /\ ~ef[req[t].block] /\ F[req[t].block].pages = 0

Pending(req, pm, ef, P, go, F, d) ==
    /\ Sorts(req, P)
    /\ TableLags(pm, ef, go, F)
    /\ WritesDue(req, pm, ef, P, go, F)
    /\ WritesDiffer(req, P)
    /\ ErasesDue(req, ef, P, go)
    /\ OneErase(req, P)
    /\ ErasesLast(req, P)
    /\ ReadsDue(req, ef, P, go, F, d)

(* What request r makes of the states x of the blocks.                     *)
Follows(r, x, y) ==
    /\ r.code \in {"WRITE", "ERASE"} =>
           /\ r.block \in Blocks
           /\ Fits(r, x[r.block])
           /\ y = [x EXCEPT ![r.block] = After(r, @)]
    /\ r.code \notin {"WRITE", "ERASE"} => y = x

(* A request that is handed down joins the blocked ones.                   *)
LEMMA PendingWrite ==
    ASSUME NEW req, NEW pm \in [Blocks -> Nat], NEW ef \in [Blocks -> BOOLEAN],
           NEW P, NEW go \in [Blocks -> Int], NEW F \in [Blocks -> States],
           Pending(req, pm, ef, P, go, F, FALSE),
           NEW t, t \notin P,
           NEW r, r = req[t], r \in Requests, r.code = "WRITE", NEW G, Follows(r, F, G),
           ef[r.block] => r.page < pm[r.block], NEW d
    PROVE  Pending(req, pm, ef, P \cup {t}, go, G, d)
<1>1. PICK b \in Blocks : b = r.block
    BY DEF Follows
<1>2. r.cycle = F[b].cycle /\ r.page = F[b].pages /\ F[b] \in States
    BY <1>1 DEF Follows, Fits
<1>3. G = [F EXCEPT ![b] = State(r.cycle, r.page + 1)]
    BY <1>1 DEF Follows, After
<1>4. /\ G[b].cycle = F[b].cycle /\ G[b].pages = F[b].pages + 1
      /\ \A c \in Blocks \ {b} : G[c] = F[c]
    BY <1>2, <1>3 DEF State
<1>5. G \in [Blocks -> States]
    BY <1>2, <1>3 DEF State, States
<1>6. /\ Sorts(req, P) /\ TableLags(pm, ef, go, F) /\ WritesDue(req, pm, ef, P, go, F)
      /\ WritesDiffer(req, P) /\ ErasesDue(req, ef, P, go) /\ OneErase(req, P)
      /\ ErasesLast(req, P) /\ ReadsDue(req, ef, P, go, F, FALSE)
    BY DEF Pending
<1>7. /\ F[b].cycle \in Int /\ F[b].pages \in Nat /\ go[b] \in Int /\ pm[b] \in Nat
      /\ ef[b] => F[b].cycle = 1 - go[b]
      /\ ~ef[b] => F[b].cycle = go[b] /\ pm[b] <= F[b].pages
    BY <1>2, <1>6 DEF TableLags, States
<1>8. \A y \in P : /\ req[y].page \in Nat /\ req[y].cycle \in Int
                   /\ req[y].code \in FlashCodes => req[y].block \in Blocks
    BY <1>6 DEF Sorts, Requests
<1>9. Sorts(req, P \cup {t})
    BY <1>1, <1>6 DEF Sorts
<1>10. TableLags(pm, ef, go, G)
    <2>1. SUFFICES ASSUME NEW c \in Blocks
                   PROVE  /\ ef[c] => G[c].cycle = 1 - go[c]
                          /\ ~ef[c] => G[c].cycle = go[c] /\ pm[c] <= G[c].pages
        BY DEF TableLags
    <2>2. CASE c = b
        BY <1>4, <1>7, <2>2
    <2>3. CASE c # b
        BY <1>4, <1>6, <2>3 DEF TableLags
    <2>4. QED
        BY <2>2, <2>3
<1>11. ASSUME NEW y \in P, req[y].code = "WRITE", NEW c, c = req[y].block
       PROVE  \/ req[y].cycle = go[c] /\ pm[c] <= req[y].page /\ (~ef[c] => req[y].page < F[c].pages)
              \/ /\ ef[c] /\ req[y].cycle = F[c].cycle
                 /\ req[y].page < pm[c] /\ req[y].page < F[c].pages
    BY <1>6, <1>11 DEF WritesDue
<1>12. WritesDue(req, pm, ef, P \cup {t}, go, G)
    <2>1. SUFFICES ASSUME NEW y \in P \cup {t}, req[y].code = "WRITE", NEW c, c = req[y].block
                   PROVE  \/ /\ req[y].cycle = go[c] /\ pm[c] <= req[y].page
                             /\ ~ef[c] => req[y].page < G[c].pages
                          \/ /\ ef[c] /\ req[y].cycle = G[c].cycle
                             /\ req[y].page < pm[c] /\ req[y].page < G[c].pages
        BY DEF WritesDue
    <2>2. CASE y = t
        <3>1. c = b /\ r.page < G[b].pages /\ r.cycle = G[b].cycle
            BY <1>1, <1>2, <1>4, <1>7, <2>1, <2>2
        <3>2. CASE ef[b]
            BY <1>1, <2>1, <2>2, <3>1, <3>2
        <3>3. CASE ~ef[b]
            BY <1>1, <1>2, <1>7, <2>1, <2>2, <3>1, <3>3
        <3>4. QED
            BY <3>2, <3>3
    <2>3. CASE y \in P /\ c = b
        <3>1. req[y].page < F[c].pages => req[y].page < G[c].pages
            BY <1>4, <1>7, <1>8, <2>3
        <3>2. \/ req[y].cycle = go[c] /\ pm[c] <= req[y].page /\ (~ef[c] => req[y].page < F[c].pages)
              \/ /\ ef[c] /\ req[y].cycle = F[c].cycle
                 /\ req[y].page < pm[c] /\ req[y].page < F[c].pages
            BY <1>11, <2>1, <2>3
        <3>3. G[c].cycle = F[c].cycle
            BY <1>4, <2>3
        <3>4. QED
            BY <3>1, <3>2, <3>3
    <2>4. CASE y \in P /\ c # b
        <3>1. c \in Blocks
            BY <1>8, <2>1, <2>4 DEF FlashCodes
        <3>2. QED
            BY <1>4, <1>11, <2>1, <2>4, <3>1
    <2>5. QED
        BY <2>2, <2>3, <2>4
<1>13. \A y \in P : req[y].code = "WRITE" /\ req[y].block = b /\ req[y].cycle = r.cycle =>
           req[y].page < r.page
    BY <1>2, <1>7, <1>11
<1>14. WritesDiffer(req, P \cup {t})
    <2>1. \A y, z \in P :
              /\ req[y].code = "WRITE" /\ req[z].code = "WRITE"
              /\ req[y].block = req[z].block /\ req[y].cycle = req[z].cycle
              /\ req[y].page = req[z].page
              => y = z
        BY <1>6 DEF WritesDiffer
    <2>2. \A y \in P : req[y].code = "WRITE" /\ req[y].block = b /\ req[y].cycle = r.cycle =>
              req[y].page # r.page
        <3>1. r.page \in Nat
            BY DEF Requests
        <3>2. QED
            BY <1>8, <1>13, <3>1
    <2>3. QED
        BY <1>1, <2>1, <2>2 DEF WritesDiffer
<1>15. ErasesDue(req, ef, P \cup {t}, go)
    BY <1>6 DEF ErasesDue
<1>16. OneErase(req, P \cup {t})
    BY <1>6 DEF OneErase
<1>17. ErasesLast(req, P \cup {t})
    <2>1. \A y, z \in P :
              /\ req[y].code = "WRITE" /\ req[z].code = "ERASE"
              /\ req[y].block = req[z].block /\ req[y].cycle = req[z].cycle
              => req[y].page < req[z].page
        BY <1>6 DEF ErasesLast
    <2>2. ASSUME NEW z \in P, req[z].code = "ERASE", req[z].block = b
          PROVE  req[z].cycle # r.cycle
        <3>1. ef[b] /\ req[z].cycle = go[b]
            BY <1>6, <2>2 DEF ErasesDue
        <3>2. QED
            BY <1>2, <1>7, <3>1
    <2>3. QED
        BY <1>1, <2>1, <2>2 DEF ErasesLast
<1>18. ReadsDue(req, ef, P \cup {t}, go, G, d)
    BY <1>6 DEF ReadsDue
<1>19. QED
    BY <1>5, <1>9, <1>10, <1>12, <1>14, <1>15, <1>16, <1>17, <1>18 DEF Pending

Flagged(ef, b, new) == new = [ef EXCEPT ![b] = TRUE]
(* A blocked erase joins: it raises the flag of its block, the table       *)
(* stays.                                                                  *)
LEMMA PendingErase ==
    ASSUME NEW req, NEW pm \in [Blocks -> Nat], NEW ef \in [Blocks -> BOOLEAN],
           NEW P, NEW go \in [Blocks -> Int], NEW F \in [Blocks -> States],
           Pending(req, pm, ef, P, go, F, FALSE),
           NEW t, t \notin P,
           NEW r, r = req[t], r \in Requests, r.code = "ERASE", NEW G, Follows(r, F, G),
           ~ef[r.block], NEW new, Flagged(ef, r.block, new), NEW d
    PROVE  Pending(req, pm, new, P \cup {t}, go, G, d)
<1>1. PICK b \in Blocks : b = r.block
    BY DEF Follows
<1>2. r.cycle = F[b].cycle /\ r.page = F[b].pages /\ F[b] \in States /\ ~ef[b]
    BY <1>1 DEF Follows, Fits
<1>3. G = [F EXCEPT ![b] = State(1 - r.cycle, 0)]
    BY <1>1 DEF Follows, After
<1>4. /\ G[b].cycle = 1 - F[b].cycle
      /\ \A c \in Blocks \ {b} : G[c] = F[c]
    BY <1>2, <1>3 DEF State
<1>5. G \in [Blocks -> States]
    BY <1>2, <1>3 DEF State, States
<1>6. /\ Sorts(req, P) /\ TableLags(pm, ef, go, F) /\ WritesDue(req, pm, ef, P, go, F)
      /\ WritesDiffer(req, P) /\ ErasesDue(req, ef, P, go) /\ OneErase(req, P)
      /\ ErasesLast(req, P) /\ ReadsDue(req, ef, P, go, F, FALSE)
    BY DEF Pending
<1>7. F[b].cycle = go[b]
    BY <1>2, <1>6 DEF TableLags
<1>8. new[b] /\ \A c \in Blocks \ {b} : new[c] = ef[c]
    BY <1>1 DEF Flagged
<1>9. \A y \in P : /\ req[y].page \in Nat /\ req[y].cycle \in Int
                   /\ req[y].code \in FlashCodes => req[y].block \in Blocks
    BY <1>6 DEF Sorts, Requests
<1>10. Sorts(req, P \cup {t})
    BY <1>1, <1>6 DEF Sorts
<1>11. TableLags(pm, new, go, G)
    <2>1. SUFFICES ASSUME NEW c \in Blocks
                   PROVE  /\ new[c] => G[c].cycle = 1 - go[c]
                          /\ ~new[c] => G[c].cycle = go[c] /\ pm[c] <= G[c].pages
        BY DEF TableLags
    <2>2. CASE c = b
        BY <1>4, <1>7, <1>8, <2>2
    <2>3. CASE c # b
        BY <1>4, <1>6, <1>8, <2>3 DEF TableLags
    <2>4. QED
        BY <2>2, <2>3
<1>12. ASSUME NEW y \in P, req[y].code = "WRITE", NEW c, c = req[y].block
       PROVE  \/ req[y].cycle = go[c] /\ pm[c] <= req[y].page /\ (~ef[c] => req[y].page < F[c].pages)
              \/ /\ ef[c] /\ req[y].cycle = F[c].cycle
                 /\ req[y].page < pm[c] /\ req[y].page < F[c].pages
    BY <1>6, <1>12 DEF WritesDue
<1>13. WritesDue(req, pm, new, P \cup {t}, go, G)
    <2>1. SUFFICES ASSUME NEW y \in P, req[y].code = "WRITE", NEW c, c = req[y].block
                   PROVE  \/ /\ req[y].cycle = go[c] /\ pm[c] <= req[y].page
                             /\ ~new[c] => req[y].page < G[c].pages
                          \/ /\ new[c] /\ req[y].cycle = G[c].cycle
                             /\ req[y].page < pm[c] /\ req[y].page < G[c].pages
        BY DEF WritesDue
    <2>2. c \in Blocks
        BY <1>9, <2>1 DEF FlashCodes
    <2>3. CASE c = b
        BY <1>2, <1>8, <1>12, <2>1, <2>3
    <2>4. CASE c # b
        BY <1>4, <1>8, <1>12, <2>1, <2>2, <2>4
    <2>5. QED
        BY <2>3, <2>4
<1>14. WritesDiffer(req, P \cup {t})
    BY <1>6 DEF WritesDiffer
<1>15. ASSUME NEW y \in P, req[y].code = "ERASE"
       PROVE  /\ req[y].block # b /\ req[y].block \in Blocks
              /\ ef[req[y].block] /\ req[y].cycle = go[req[y].block]
    <2>1. ef[req[y].block] /\ req[y].cycle = go[req[y].block]
        BY <1>6, <1>15 DEF ErasesDue
    <2>2. QED
        BY <1>2, <1>9, <1>15, <2>1 DEF FlashCodes
<1>16. ErasesDue(req, new, P \cup {t}, go)
    <2>1. \A y \in P : req[y].code = "ERASE" =>
              new[req[y].block] /\ req[y].cycle = go[req[y].block]
        BY <1>8, <1>15
    <2>2. new[r.block] /\ r.cycle = go[r.block]
        BY <1>1, <1>2, <1>7, <1>8
    <2>3. QED
        BY <2>1, <2>2 DEF ErasesDue
<1>17. OneErase(req, P \cup {t})
    BY <1>1, <1>6, <1>15 DEF OneErase
<1>18. ErasesLast(req, P \cup {t})
    <2>1. \A y, z \in P :
              /\ req[y].code = "WRITE" /\ req[z].code = "ERASE"
              /\ req[y].block = req[z].block /\ req[y].cycle = req[z].cycle
              => req[y].page < req[z].page
        BY <1>6 DEF ErasesLast
    <2>2. \A y \in P : req[y].code = "WRITE" /\ req[y].block = b => req[y].page < r.page
        BY <1>2, <1>12
    <2>3. QED
        BY <1>1, <2>1, <2>2 DEF ErasesLast
<1>19. ReadsDue(req, new, P \cup {t}, go, G, d)
    BY <1>6 DEF ReadsDue
<1>20. QED
    BY <1>5, <1>10, <1>11, <1>13, <1>14, <1>16, <1>17, <1>18, <1>19 DEF Pending

(* A blocked request that changes no block joins. *)
LEMMA PendingOther ==
    ASSUME NEW req, NEW pm, NEW ef, NEW P, NEW go, NEW F, NEW d,
           Pending(req, pm, ef, P, go, F, d),
           NEW t,
           NEW r, r = req[t], r \in Requests, r.code \notin {"WRITE", "ERASE"},
           NEW e, d => e,
           r.code = "READ" => /\ r.block \in Blocks /\ ~ef[r.block]
                              /\ r.cycle = F[r.block].cycle \/ (e /\ F[r.block].pages = 0)
    PROVE  Pending(req, pm, ef, P \cup {t}, go, F, e)
<1>1. /\ Sorts(req, P) /\ TableLags(pm, ef, go, F) /\ WritesDue(req, pm, ef, P, go, F)
      /\ WritesDiffer(req, P) /\ ErasesDue(req, ef, P, go) /\ OneErase(req, P)
      /\ ErasesLast(req, P) /\ ReadsDue(req, ef, P, go, F, d)
    BY DEF Pending
<1>2. Sorts(req, P \cup {t})
    BY <1>1 DEF Sorts, FlashCodes
<1>3. WritesDue(req, pm, ef, P \cup {t}, go, F)
    BY <1>1 DEF WritesDue
<1>4. WritesDiffer(req, P \cup {t})
    BY <1>1 DEF WritesDiffer
<1>5. ErasesDue(req, ef, P \cup {t}, go)
    BY <1>1 DEF ErasesDue
<1>6. OneErase(req, P \cup {t})
    BY <1>1 DEF OneErase
<1>7. ErasesLast(req, P \cup {t})
    BY <1>1 DEF ErasesLast
<1>8. ReadsDue(req, ef, P \cup {t}, go, F, e)
    <2>1. r.code = "READ" => r.cycle = go[r.block] \/ (e /\ ~ef[r.block] /\ F[r.block].pages = 0)
        BY <1>1 DEF TableLags
    <2>2. QED
        BY <1>1, <2>1 DEF ReadsDue
<1>9. QED
    BY <1>1, <1>2, <1>3, <1>4, <1>5, <1>6, <1>7, <1>8 DEF Pending

(* Fewer requests are blocked. *)
LEMMA PendingLess ==
    ASSUME NEW old, NEW req, NEW pm, NEW ef, NEW P, NEW go, NEW F, NEW d,
           Pending(old, pm, ef, P, go, F, d),
           NEW Q, Q \subseteq P, \A y \in Q : req[y] = old[y], NEW e, d => e
    PROVE  Pending(req, pm, ef, Q, go, F, e)
<1>1. /\ Sorts(old, P) /\ TableLags(pm, ef, go, F) /\ WritesDue(old, pm, ef, P, go, F)
      /\ WritesDiffer(old, P) /\ ErasesDue(old, ef, P, go) /\ OneErase(old, P)
      /\ ErasesLast(old, P) /\ ReadsDue(old, ef, P, go, F, d)
    BY DEF Pending
<1>2. Sorts(req, Q)
    BY <1>1 DEF Sorts
<1>3. WritesDue(req, pm, ef, Q, go, F)
    BY <1>1 DEF WritesDue
<1>4. WritesDiffer(req, Q)
    BY <1>1 DEF WritesDiffer
<1>5. ErasesDue(req, ef, Q, go)
    BY <1>1 DEF ErasesDue
<1>6. OneErase(req, Q)
    BY <1>1 DEF OneErase
<1>7. ErasesLast(req, Q)
    BY <1>1 DEF ErasesLast
<1>8. ReadsDue(req, ef, Q, go, F, e)
    BY <1>1 DEF ReadsDue
<1>9. QED
    BY <1>1, <1>2, <1>3, <1>4, <1>5, <1>6, <1>7, <1>8 DEF Pending

(* A read that the table lets go is due. *)
LEMMA GoRead ==
    ASSUME NEW req, NEW pm \in [Blocks -> Nat], NEW ef, NEW P, NEW go,
           NEW F \in [Blocks -> States], NEW d, Pending(req, pm, ef, P, go, F, d),
           NEW t \in P, NEW r, r = req[t], r.code = "READ", r.page < pm[r.block]
    PROVE  r.block \in Blocks /\ Fits(r, State(go[r.block], pm[r.block]))
<1>1. r.block \in Blocks /\ r.page \in Nat
    BY DEF Pending, Sorts, FlashCodes, Requests
<1>2. PICK b \in Blocks : b = r.block
    BY <1>1
<1>3. r.cycle = go[b] \/ (~ef[b] /\ F[b].pages = 0)
    BY <1>2 DEF Pending, ReadsDue
<1>4. ~ef[b] => pm[b] <= F[b].pages
    BY DEF Pending, TableLags
<1>5. r.cycle = go[b]
    <2>1. SUFFICES ASSUME ~ef[b], F[b].pages = 0 PROVE FALSE
        BY <1>3
    <2>2. pm[b] \in Nat /\ pm[b] <= 0 /\ r.page < pm[b]
        BY <1>2, <1>4, <2>1
    <2>3. QED
        BY <1>1, <2>2
<1>6. QED
    BY <1>1, <1>2, <1>5 DEF Fits, State

(* A program or an erase that the table lets go is due. *)
LEMMA GoFits ==
    ASSUME NEW req, NEW pm \in [Blocks -> Nat], NEW ef, NEW P, NEW go, NEW F, NEW d,
           Pending(req, pm, ef, P, go, F, d),
           NEW t \in P, req[t].code \in {"WRITE", "ERASE"},
           req[t].page = pm[req[t].block]
    PROVE  /\ req[t].block \in Blocks
           /\ Fits(req[t], State(go[req[t].block], pm[req[t].block]))
<1>1. PICK r : r = req[t]
    OBVIOUS
<1>2. r.block \in Blocks /\ r.page \in Nat
    BY <1>1 DEF Pending, Sorts, FlashCodes, Requests
<1>3. PICK b \in Blocks : b = r.block
    BY <1>2
<1>4. pm[b] \in Nat /\ r.page = pm[b]
    BY <1>1, <1>3
<1>5. r.cycle = go[b]
    <2>1. CASE r.code = "WRITE"
        <3>1. r.cycle = go[b] \/ r.page < pm[b]
            BY <1>1, <1>3, <2>1 DEF Pending, WritesDue
        <3>2. QED
            BY <1>4, <3>1
    <2>2. CASE r.code = "ERASE"
        BY <1>1, <1>3, <2>2 DEF Pending, ErasesDue
    <2>3. QED
        BY <1>1, <2>1, <2>2
<1>6. r.code # "READ"
    BY <1>1
<1>7. Fits(r, State(go[b], pm[b]))
    BY <1>4, <1>5, <1>6 DEF Fits, State
<1>8. QED
    BY <1>1, <1>3, <1>7

(* A program is let go. *)
LEMMA GoWrite ==
    ASSUME NEW req, NEW pm \in [Blocks -> Nat], NEW ef \in [Blocks -> BOOLEAN], NEW P,
           NEW go \in [Blocks -> Int], NEW F \in [Blocks -> States], NEW d,
           Pending(req, pm, ef, P, go, F, d),
           NEW t \in P, NEW r, r = req[t], r.code = "WRITE",
           NEW b, b = r.block, r.page = pm[b],
           NEW new, new[b] = pm[b] + 1, \A c \in Blocks \ {b} : new[c] = pm[c]
    PROVE  Pending(req, new, ef, P \ {t}, go, F, d)
<1>1. b \in Blocks /\ r.page \in Nat
    BY DEF Pending, Sorts, FlashCodes, Requests
<1>2. b \in Blocks /\ b = r.block
    BY <1>1
<1>3. /\ Sorts(req, P) /\ TableLags(pm, ef, go, F) /\ WritesDue(req, pm, ef, P, go, F)
      /\ WritesDiffer(req, P) /\ ErasesDue(req, ef, P, go) /\ OneErase(req, P)
      /\ ErasesLast(req, P) /\ ReadsDue(req, ef, P, go, F, d)
    BY DEF Pending
<1>4. new[b] = pm[b] + 1 /\ \A c \in Blocks \ {b} : new[c] = pm[c]
    BY <1>2
<1>5. pm[b] \in Nat /\ F[b].pages \in Nat /\ r.page = pm[b]
    BY <1>2 DEF States
<1>6. r.cycle = go[b] /\ (~ef[b] => r.page < F[b].pages)
    <2>1. \/ r.cycle = go[b] /\ (~ef[b] => r.page < F[b].pages)
          \/ r.page < pm[b]
        BY <1>2, <1>3 DEF WritesDue
    <2>2. QED
        BY <1>5, <2>1
<1>7. \A y \in P : /\ req[y].page \in Nat
                   /\ req[y].code \in FlashCodes => req[y].block \in Blocks
    BY <1>3 DEF Sorts, Requests
<1>8. Sorts(req, P \ {t}) /\ WritesDiffer(req, P \ {t}) /\ OneErase(req, P \ {t})
    BY <1>3 DEF Sorts, WritesDiffer, OneErase
<1>9. ErasesDue(req, ef, P \ {t}, go) /\ ErasesLast(req, P \ {t})
    BY <1>3 DEF ErasesDue, ErasesLast
<1>10. ReadsDue(req, ef, P \ {t}, go, F, d)
    BY <1>3 DEF ReadsDue
<1>11. TableLags(new, ef, go, F)
    <2>1. SUFFICES ASSUME NEW c \in Blocks
                   PROVE  /\ ef[c] => F[c].cycle = 1 - go[c]
                          /\ ~ef[c] => F[c].cycle = go[c] /\ new[c] <= F[c].pages
        BY DEF TableLags
    <2>2. /\ ef[c] => F[c].cycle = 1 - go[c]
          /\ ~ef[c] => F[c].cycle = go[c] /\ pm[c] <= F[c].pages
        BY <1>3 DEF TableLags
    <2>3. CASE c = b
        BY <1>4, <1>5, <1>6, <2>2, <2>3
    <2>4. CASE c # b
        BY <1>4, <2>2, <2>4
    <2>5. QED
        BY <2>3, <2>4
<1>12. WritesDue(req, new, ef, P \ {t}, go, F)
    <2>1. SUFFICES ASSUME NEW y \in P \ {t}, req[y].code = "WRITE", NEW c, c = req[y].block
                   PROVE  \/ /\ req[y].cycle = go[c] /\ new[c] <= req[y].page
                             /\ ~ef[c] => req[y].page < F[c].pages
                          \/ /\ ef[c] /\ req[y].cycle = F[c].cycle
                             /\ req[y].page < new[c] /\ req[y].page < F[c].pages
        BY DEF WritesDue
    <2>2. c \in Blocks /\ req[y].page \in Nat
        BY <1>7, <2>1 DEF FlashCodes
    <2>3. \/ /\ req[y].cycle = go[c] /\ pm[c] <= req[y].page
             /\ ~ef[c] => req[y].page < F[c].pages
          \/ /\ ef[c] /\ req[y].cycle = F[c].cycle
             /\ req[y].page < pm[c] /\ req[y].page < F[c].pages
        BY <1>3, <2>1 DEF WritesDue
    <2>4. CASE c # b
        BY <1>4, <2>2, <2>3, <2>4
    <2>5. CASE c = b
        <3>1. req[y].cycle = go[c] => req[y].page # r.page
            <4>1. \A z, u \in P :
                      /\ req[z].code = "WRITE" /\ req[u].code = "WRITE"
                      /\ req[z].block = req[u].block /\ req[z].cycle = req[u].cycle
                      /\ req[z].page = req[u].page
                      => z = u
                BY <1>3 DEF WritesDiffer
            <4>2. y \in P /\ y # t /\ req[y].block = r.block
                BY <1>2, <2>1, <2>5
            <4>3. ~(req[y].cycle = r.cycle /\ req[y].page = r.page)
                BY <2>1, <4>1, <4>2
            <4>4. QED
                BY <1>6, <2>5, <4>3
        <3>2. req[y].cycle = go[c] /\ pm[c] <= req[y].page => new[c] <= req[y].page
            BY <1>4, <1>5, <2>2, <2>5, <3>1
        <3>3. req[y].page < pm[c] => req[y].page < new[c]
            BY <1>4, <1>5, <2>2, <2>5
        <3>4. QED
            BY <2>3, <3>2, <3>3
    <2>6. QED
        BY <2>4, <2>5
<1>13. QED
    BY <1>8, <1>9, <1>10, <1>11, <1>12 DEF Pending

NoReads(req, P, b) == \A t \in P : req[t].code = "READ" => req[t].block # b
Cleared(b, pm, go, ef, new, on, fl) ==
    /\ new[b] = 0 /\ on[b] = 1 - go[b] /\ fl[b] = FALSE
    /\ \A c \in Blocks \ {b} : new[c] = pm[c] /\ on[c] = go[c] /\ fl[c] = ef[c]

(* An erase is let go, when no read of the block is blocked. *)
LEMMA GoErase ==
    ASSUME NEW req, NEW pm \in [Blocks -> Nat], NEW ef \in [Blocks -> BOOLEAN], NEW P,
           NEW go \in [Blocks -> Int], NEW F \in [Blocks -> States], NEW d,
           Pending(req, pm, ef, P, go, F, d),
           NEW t \in P, req[t].code = "ERASE",
           NEW b, b = req[t].block, req[t].page = pm[b], NoReads(req, P, b),
           NEW new, NEW on, NEW fl, Cleared(b, pm, go, ef, new, on, fl)
    PROVE  Pending(req, new, fl, P \ {t}, on, F, d)
<1>1. PICK r : r = req[t]
    OBVIOUS
<1>2. b \in Blocks /\ b = r.block /\ r.page \in Nat
    BY <1>1 DEF Pending, Sorts, FlashCodes, Requests
<1>3. /\ Sorts(req, P) /\ TableLags(pm, ef, go, F) /\ WritesDue(req, pm, ef, P, go, F)
      /\ WritesDiffer(req, P) /\ ErasesDue(req, ef, P, go) /\ OneErase(req, P)
      /\ ErasesLast(req, P) /\ ReadsDue(req, ef, P, go, F, d)
    BY DEF Pending
<1>4. /\ new[b] = 0 /\ on[b] = 1 - go[b] /\ ~fl[b]
      /\ \A c \in Blocks \ {b} : new[c] = pm[c] /\ on[c] = go[c] /\ fl[c] = ef[c]
    BY <1>2 DEF Cleared
<1>5. pm[b] \in Nat /\ F[b].pages \in Nat /\ go[b] \in Int /\ r.page = pm[b]
    BY <1>1, <1>2 DEF States
<1>6. ef[b] /\ r.cycle = go[b] /\ F[b].cycle = on[b]
    BY <1>1, <1>2, <1>3, <1>4 DEF ErasesDue, TableLags
<1>7. \A y \in P : /\ req[y].page \in Nat /\ req[y].cycle \in Int
                   /\ req[y].code \in FlashCodes => req[y].block \in Blocks
    BY <1>3 DEF Sorts, Requests
<1>8. Sorts(req, P \ {t}) /\ WritesDiffer(req, P \ {t}) /\ OneErase(req, P \ {t})
    BY <1>3 DEF Sorts, WritesDiffer, OneErase
<1>9. ErasesLast(req, P \ {t})
    BY <1>3 DEF ErasesLast
<1>10. ErasesDue(req, fl, P \ {t}, on)
    <2>1. SUFFICES ASSUME NEW y \in P \ {t}, req[y].code = "ERASE", NEW c, c = req[y].block
                   PROVE  fl[c] /\ req[y].cycle = on[c]
        BY DEF ErasesDue
    <2>2. c \in Blocks /\ ef[c] /\ req[y].cycle = go[c]
        BY <1>3, <1>7, <2>1 DEF FlashCodes, ErasesDue
    <2>3. c # b
        BY <1>3, <2>1 DEF OneErase
    <2>4. QED
        BY <1>4, <2>2, <2>3
<1>11. ReadsDue(req, fl, P \ {t}, on, F, d)
    <2>1. SUFFICES ASSUME NEW y \in P \ {t}, req[y].code = "READ", NEW c, c = req[y].block
                   PROVE  req[y].cycle = on[c] \/ (d /\ ~fl[c] /\ F[c].pages = 0)
        BY DEF ReadsDue
    <2>2. req[y].cycle = go[c] \/ (d /\ ~ef[c] /\ F[c].pages = 0)
        BY <1>3, <2>1 DEF ReadsDue
    <2>3. c \in Blocks /\ c # b
        BY <1>7, <2>1 DEF FlashCodes, NoReads
    <2>4. QED
        BY <1>4, <2>2, <2>3
<1>12. TableLags(new, fl, on, F)
    <2>1. SUFFICES ASSUME NEW c \in Blocks
                   PROVE  /\ fl[c] => F[c].cycle = 1 - on[c]
                          /\ ~fl[c] => F[c].cycle = on[c] /\ new[c] <= F[c].pages
        BY DEF TableLags
    <2>2. /\ ef[c] => F[c].cycle = 1 - go[c]
          /\ ~ef[c] => F[c].cycle = go[c] /\ pm[c] <= F[c].pages
        BY <1>3 DEF TableLags
    <2>3. CASE c = b
        BY <1>4, <1>5, <1>6, <2>3
    <2>4. CASE c # b
        BY <1>4, <2>2, <2>4
    <2>5. QED
        BY <2>3, <2>4
<1>13. WritesDue(req, new, fl, P \ {t}, on, F)
    <2>1. SUFFICES ASSUME NEW y \in P \ {t}, req[y].code = "WRITE", NEW c, c = req[y].block
                   PROVE  \/ /\ req[y].cycle = on[c] /\ new[c] <= req[y].page
                             /\ ~fl[c] => req[y].page < F[c].pages
                          \/ /\ fl[c] /\ req[y].cycle = F[c].cycle
                             /\ req[y].page < new[c] /\ req[y].page < F[c].pages
        BY DEF WritesDue
    <2>2. c \in Blocks /\ req[y].page \in Nat
        BY <1>7, <2>1 DEF FlashCodes
    <2>3. \/ /\ req[y].cycle = go[c] /\ pm[c] <= req[y].page
             /\ ~ef[c] => req[y].page < F[c].pages
          \/ /\ ef[c] /\ req[y].cycle = F[c].cycle
             /\ req[y].page < pm[c] /\ req[y].page < F[c].pages
        BY <1>3, <2>1 DEF WritesDue
    <2>4. CASE c # b
        BY <1>4, <2>2, <2>3, <2>4
    <2>5. CASE c = b
        <3>1. req[y].cycle = go[c] => req[y].page < r.page
            <4>1. \A z, u \in P :
                      /\ req[z].code = "WRITE" /\ req[u].code = "ERASE"
                      /\ req[z].block = req[u].block /\ req[z].cycle = req[u].cycle
                      => req[z].page < req[u].page
                BY <1>3 DEF ErasesLast
            <4>2. y \in P /\ req[y].block = r.block
                BY <1>2, <2>1, <2>5
            <4>3. req[y].cycle = r.cycle => req[y].page < r.page
                BY <1>1, <2>1, <4>1, <4>2
            <4>4. QED
                BY <1>6, <2>5, <4>3
        <3>2. req[y].cycle = F[c].cycle /\ req[y].page < F[c].pages
            <4>1. ~(req[y].cycle = go[c] /\ pm[c] <= req[y].page)
                BY <1>5, <2>2, <2>5, <3>1
            <4>2. QED
                BY <2>3, <4>1
        <3>3. req[y].cycle = on[c] /\ new[c] <= req[y].page /\ ~fl[c]
            BY <1>4, <1>6, <2>2, <2>5, <3>2
        <3>4. QED
            BY <3>2, <3>3
    <2>6. QED
        BY <2>4, <2>5
<1>14. QED
    BY <1>8, <1>9, <1>10, <1>11, <1>12, <1>13 DEF Pending
-----------------------------------------------------------------------------
(* What a blocked request waits for has been handed down before it: there  *)
(* is an age to tell, up to a top.                                         *)
Programs(r, b, p) == r.code = "WRITE" /\ r.block = b /\ r.page = p
Erases(r, b) == r.code = "ERASE" /\ r.block = b
Reading(r, b) == r.code = "READ" /\ r.block = b

(* Of block b, the pages between the table and what was handed down will be*)
(* programmed, and those of the next cycle after an erase.                 *)
OpenFull(req, pm, ef, P, F) ==
    \A b \in Blocks : ~ef[b] =>
        \A p \in Nat : pm[b] <= p /\ p < F[b].pages => \E y \in P : Programs(req[y], b, p)
ShutFull(req, pm, ef, P, F) ==
    \A b \in Blocks : ef[b] =>
        /\ F[b].pages <= pm[b]
        /\ \E y \in P : Erases(req[y], b)
        /\ \A p \in Nat : p < F[b].pages => \E y \in P : Programs(req[y], b, p)

(* A read awaits the program of its page and those before, unless it comes *)
(* from a stale load.                                                      *)
ReadAwaits(age, req, pm, ef, P, F) ==
    \A t \in P : req[t].code = "READ" =>
        LET b == req[t].block IN
        ef[b] \/ req[t].cycle = F[b].cycle =>
            \A p \in Nat : pm[b] <= p /\ p <= req[t].page =>
                \E y \in P : Programs(req[y], b, p) /\ age[y] < age[t]

(* A program awaits those before it, and one of the next cycle the erase.  *)
WriteAwaits(age, req, pm, P) ==
    \A t \in P : req[t].code = "WRITE" =>
        LET b == req[t].block IN
        /\ \A p \in Nat : p < req[t].page /\ (pm[b] <= p \/ req[t].page < pm[b]) =>
               \E y \in P : Programs(req[y], b, p) /\ age[y] < age[t]
        /\ req[t].page < pm[b] => \E y \in P : Erases(req[y], b) /\ age[y] < age[t]

(* An erase awaits all programs and all reads of its block.                *)
EraseAwaits(age, req, pm, P) ==
    \A t \in P : req[t].code = "ERASE" =>
        LET b == req[t].block IN
        /\ pm[b] <= req[t].page
        /\ \A p \in Nat : pm[b] <= p /\ p < req[t].page =>
               \E y \in P : Programs(req[y], b, p) /\ age[y] < age[t]
        /\ \A y \in P : Reading(req[y], b) => age[y] < age[t]

(* A request of an entry awaits the one before it in the chain.            *)
ChainAged(age, next) == \A t \in Tags : next[t] # NoTag => age[t] < age[next[t]]

Full(req, pm, ef, P, F) == OpenFull(req, pm, ef, P, F) /\ ShutFull(req, pm, ef, P, F)
Awaits(age, req, pm, ef, P, F) ==
    /\ ReadAwaits(age, req, pm, ef, P, F)
    /\ WriteAwaits(age, req, pm, P)
    /\ EraseAwaits(age, req, pm, P)
Aged(age, top, next) ==
    top \in Nat /\ age \in [Tags -> 0 .. top] /\ ChainAged(age, next)

(* Links that are cut need no age, and a new one leads to a younger.       *)
LEMMA AgedLinks ==
    ASSUME NEW age, NEW top, NEW next, Aged(age, top, next), NEW new,
           \A y \in Tags : new[y] \in {next[y], NoTag} \/ age[y] < age[new[y]]
    PROVE  Aged(age, top, new)
BY DEF Aged, ChainAged

(* A blocked request that is no flash operation, or leaves, awaits nothing.*)
LEMMA AwaitsSame ==
    ASSUME NEW age, NEW req, NEW pm, NEW ef, NEW P, NEW F,
           Awaits(age, req, pm, ef, P, F), Full(req, pm, ef, P, F),
           NEW new, NEW a, NEW Q,
           \A y \in P \cap Q : new[y] = req[y] /\ a[y] = age[y],
           \A y \in P \ Q : req[y].code \notin FlashCodes,
           \A y \in Q \ P : new[y].code \notin FlashCodes
    PROVE  Awaits(a, new, pm, ef, Q, F) /\ Full(new, pm, ef, Q, F)
<1>1. /\ \A y \in P : req[y].code \in FlashCodes => y \in Q /\ new[y] = req[y] /\ a[y] = age[y]
      /\ \A y \in Q : new[y].code \in FlashCodes => y \in P /\ new[y] = req[y] /\ a[y] = age[y]
    OBVIOUS
<1>2. \A y \in P : \A b, p : Programs(req[y], b, p) => y \in Q /\ Programs(new[y], b, p) /\ a[y] = age[y]
    BY <1>1 DEF Programs, FlashCodes
<1>3. \A y \in P : \A b : Erases(req[y], b) => y \in Q /\ Erases(new[y], b) /\ a[y] = age[y]
    BY <1>1 DEF Erases, FlashCodes
<1>4. \A y \in Q : \A b : Reading(new[y], b) => y \in P /\ Reading(req[y], b) /\ a[y] = age[y]
    BY <1>1 DEF Reading, FlashCodes
<1>5. Full(new, pm, ef, Q, F)
    BY <1>2, <1>3 DEF Full, OpenFull, ShutFull
<1>6. \A y \in Q : new[y].code \in {"READ", "WRITE", "ERASE"} =>
          y \in P /\ new[y] = req[y] /\ a[y] = age[y]
    BY <1>1 DEF FlashCodes
<1>7. ReadAwaits(a, new, pm, ef, Q, F)
    BY <1>2, <1>6 DEF Awaits, ReadAwaits
<1>8. WriteAwaits(a, new, pm, Q)
    BY <1>2, <1>3, <1>6 DEF Awaits, WriteAwaits
<1>9. EraseAwaits(a, new, pm, Q)
    BY <1>2, <1>4, <1>6 DEF Awaits, EraseAwaits
<1>10. QED
    BY <1>5, <1>7, <1>8, <1>9 DEF Awaits

(* A program that is handed down awaits those before it.                   *)
LEMMA AwaitsWrite ==
    ASSUME NEW req, NEW pm \in [Blocks -> Nat], NEW ef \in [Blocks -> BOOLEAN],
           NEW P, NEW go \in [Blocks -> Int], NEW F \in [Blocks -> States],
           Pending(req, pm, ef, P, go, F, FALSE),
           NEW age, Awaits(age, req, pm, ef, P, F), Full(req, pm, ef, P, F),
           NEW t, \A y \in P : age[y] < age[t],
           NEW r, r = req[t], r \in Requests, r.code = "WRITE", NEW G, Follows(r, F, G),
           ef[r.block] => r.page < pm[r.block]
    PROVE  Awaits(age, req, pm, ef, P \cup {t}, G) /\ Full(req, pm, ef, P \cup {t}, G)
<1>1. PICK b \in Blocks : b = r.block
    BY DEF Follows
<1>2. r.cycle = F[b].cycle /\ r.page = F[b].pages /\ F[b] \in States
    BY <1>1 DEF Follows, Fits
<1>3. G = [F EXCEPT ![b] = State(r.cycle, r.page + 1)]
    BY <1>1 DEF Follows, After
<1>4. /\ G[b].pages = r.page + 1
      /\ \A c \in Blocks : G[c].cycle = F[c].cycle
      /\ \A c \in Blocks \ {b} : G[c] = F[c]
    BY <1>2, <1>3 DEF State
<1>5. r.page \in Nat /\ pm[b] \in Nat /\ (~ef[b] => pm[b] <= r.page)
    BY <1>2 DEF Pending, TableLags, States
<1>6. /\ OpenFull(req, pm, ef, P, F) /\ ShutFull(req, pm, ef, P, F)
      /\ ReadAwaits(age, req, pm, ef, P, F) /\ WriteAwaits(age, req, pm, P)
      /\ EraseAwaits(age, req, pm, P)
    BY DEF Full, Awaits
<1>7. Programs(req[t], b, r.page)
    BY <1>1 DEF Programs
<1>8. OpenFull(req, pm, ef, P \cup {t}, G)
    <2>1. SUFFICES ASSUME NEW c \in Blocks, ~ef[c], NEW p \in Nat, pm[c] <= p, p < G[c].pages
                   PROVE  \E y \in P \cup {t} : Programs(req[y], c, p)
        BY DEF OpenFull
    <2>2. CASE c = b /\ p = r.page
        BY <1>7, <2>2
    <2>3. CASE ~(c = b /\ p = r.page)
        <3>1. p < F[c].pages
            BY <1>2, <1>4, <1>5, <2>1, <2>3
        <3>2. QED
            BY <1>6, <2>1, <3>1 DEF OpenFull
    <2>4. QED
        BY <2>2, <2>3
<1>9. ShutFull(req, pm, ef, P \cup {t}, G)
    <2>1. SUFFICES ASSUME NEW c \in Blocks, ef[c]
                   PROVE  /\ G[c].pages <= pm[c]
                          /\ \E y \in P \cup {t} : Erases(req[y], c)
                          /\ \A p \in Nat : p < G[c].pages =>
                                 \E y \in P \cup {t} : Programs(req[y], c, p)
        BY DEF ShutFull
    <2>2. G[c].pages <= pm[c]
        <3>1. CASE c = b
            BY <1>1, <1>4, <1>5, <2>1, <3>1
        <3>2. CASE c # b
            BY <1>4, <1>6, <2>1, <3>2 DEF ShutFull
        <3>3. QED
            BY <3>1, <3>2
    <2>3. ASSUME NEW p \in Nat, p < G[c].pages PROVE \E y \in P \cup {t} : Programs(req[y], c, p)
        <3>1. CASE c = b /\ p = r.page
            BY <1>7, <3>1
        <3>2. CASE ~(c = b /\ p = r.page)
            <4>1. p < F[c].pages
                BY <1>2, <1>4, <1>5, <2>3, <3>2
            <4>2. QED
                BY <1>6, <2>1, <4>1 DEF ShutFull
        <3>3. QED
            BY <3>1, <3>2
    <2>4. QED
        BY <1>6, <2>1, <2>2, <2>3 DEF ShutFull
<1>10. \A y \in P : req[y].code = "READ" => req[y].block \in Blocks
    BY DEF Pending, Sorts, FlashCodes
<1>11. ReadAwaits(age, req, pm, ef, P \cup {t}, G)
    BY <1>4, <1>6, <1>10 DEF ReadAwaits
<1>12. WriteAwaits(age, req, pm, P \cup {t})
    <2>1. SUFFICES ASSUME NEW y \in P \cup {t}, req[y].code = "WRITE", NEW c, c = req[y].block
                   PROVE  /\ \A p \in Nat : p < req[y].page /\ (pm[c] <= p \/ req[y].page < pm[c]) =>
                                 \E z \in P \cup {t} : Programs(req[z], c, p) /\ age[z] < age[y]
                          /\ req[y].page < pm[c] =>
                                 \E z \in P \cup {t} : Erases(req[z], c) /\ age[z] < age[y]
        BY DEF WriteAwaits
    <2>2. CASE y \in P
        BY <1>6, <2>1, <2>2 DEF WriteAwaits
    <2>3. CASE y = t /\ ef[b]
        BY <1>1, <1>2, <1>6, <2>1, <2>3 DEF ShutFull
    <2>4. CASE y = t /\ ~ef[b]
        BY <1>1, <1>2, <1>5, <1>6, <2>1, <2>4 DEF OpenFull
    <2>5. QED
        BY <2>2, <2>3, <2>4
<1>13. EraseAwaits(age, req, pm, P \cup {t})
    BY <1>6 DEF EraseAwaits, Reading
<1>14. QED
    BY <1>8, <1>9, <1>11, <1>12, <1>13 DEF Full, Awaits

(* An erase that is handed down awaits the programs and the reads.         *)
LEMMA AwaitsErase ==
    ASSUME NEW req, NEW pm \in [Blocks -> Nat], NEW ef \in [Blocks -> BOOLEAN],
           NEW P, NEW go \in [Blocks -> Int], NEW F \in [Blocks -> States],
           Pending(req, pm, ef, P, go, F, FALSE),
           NEW age, Awaits(age, req, pm, ef, P, F), Full(req, pm, ef, P, F),
           NEW t, \A y \in P : age[y] < age[t],
           NEW r, r = req[t], r \in Requests, r.code = "ERASE", NEW G, Follows(r, F, G),
           ~ef[r.block], NEW new, Flagged(ef, r.block, new)
    PROVE  Awaits(age, req, pm, new, P \cup {t}, G) /\ Full(req, pm, new, P \cup {t}, G)
<1>1. PICK b \in Blocks : b = r.block
    BY DEF Follows
<1>2. r.cycle = F[b].cycle /\ r.page = F[b].pages /\ F[b] \in States /\ ~ef[b]
    BY <1>1 DEF Follows, Fits
<1>3. G = [F EXCEPT ![b] = State(1 - r.cycle, 0)]
    BY <1>1 DEF Follows, After
<1>4. G[b].pages = 0 /\ \A c \in Blocks \ {b} : G[c] = F[c]
    BY <1>2, <1>3 DEF State
<1>5. r.page \in Nat /\ pm[b] \in Nat /\ pm[b] <= r.page
    BY <1>2 DEF Pending, TableLags, States
<1>6. /\ OpenFull(req, pm, ef, P, F) /\ ShutFull(req, pm, ef, P, F)
      /\ ReadAwaits(age, req, pm, ef, P, F) /\ WriteAwaits(age, req, pm, P)
      /\ EraseAwaits(age, req, pm, P)
    BY DEF Full, Awaits
<1>7. new[b] /\ \A c \in Blocks \ {b} : new[c] = ef[c]
    BY <1>1 DEF Flagged
<1>8. Erases(req[t], b)
    BY <1>1 DEF Erases
<1>9. OpenFull(req, pm, new, P \cup {t}, G)
    BY <1>4, <1>6, <1>7 DEF OpenFull
<1>10. ShutFull(req, pm, new, P \cup {t}, G)
    <2>1. SUFFICES ASSUME NEW c \in Blocks, new[c]
                   PROVE  /\ G[c].pages <= pm[c]
                          /\ \E y \in P \cup {t} : Erases(req[y], c)
                          /\ \A p \in Nat : p < G[c].pages =>
                                 \E y \in P \cup {t} : Programs(req[y], c, p)
        BY DEF ShutFull
    <2>2. CASE c = b
        BY <1>4, <1>5, <1>8, <2>2
    <2>3. CASE c # b
        BY <1>4, <1>6, <1>7, <2>1, <2>3 DEF ShutFull
    <2>4. QED
        BY <2>2, <2>3
<1>11. \A y \in P : req[y].code = "READ" =>
           req[y].block \in Blocks /\ (req[y].block = b => req[y].cycle = F[b].cycle)
    BY <1>2 DEF Pending, Sorts, FlashCodes, ReadsDue, TableLags
<1>12. ReadAwaits(age, req, pm, new, P \cup {t}, G)
    <2>1. SUFFICES ASSUME NEW y \in P, req[y].code = "READ", NEW c, c = req[y].block,
                          new[c] \/ req[y].cycle = G[c].cycle,
                          NEW p \in Nat, pm[c] <= p, p <= req[y].page
                   PROVE  \E z \in P : Programs(req[z], c, p) /\ age[z] < age[y]
        BY DEF ReadAwaits
    <2>2. ef[c] \/ req[y].cycle = F[c].cycle
        BY <1>4, <1>7, <1>11, <2>1
    <2>3. QED
        BY <1>6, <2>1, <2>2 DEF ReadAwaits
<1>13. WriteAwaits(age, req, pm, P \cup {t})
    BY <1>6 DEF WriteAwaits
<1>14. EraseAwaits(age, req, pm, P \cup {t})
    <2>1. SUFFICES ASSUME NEW y \in P \cup {t}, req[y].code = "ERASE", NEW c, c = req[y].block
                   PROVE  /\ pm[c] <= req[y].page
                          /\ \A p \in Nat : pm[c] <= p /\ p < req[y].page =>
                                 \E z \in P \cup {t} : Programs(req[z], c, p) /\ age[z] < age[y]
                          /\ \A z \in P \cup {t} : Reading(req[z], c) => age[z] < age[y]
        BY DEF EraseAwaits
    <2>2. \A k : ~Reading(req[t], k)
        BY DEF Reading
    <2>3. CASE y = t
        BY <1>1, <1>2, <1>5, <1>6, <2>1, <2>2, <2>3 DEF OpenFull
    <2>4. CASE y \in P
        BY <1>6, <2>1, <2>2, <2>4 DEF EraseAwaits
    <2>5. QED
        BY <2>3, <2>4
<1>15. QED
    BY <1>9, <1>10, <1>12, <1>13, <1>14 DEF Full, Awaits

(* A read that is handed down awaits the program of its page.              *)
LEMMA AwaitsRead ==
    ASSUME NEW req, NEW pm \in [Blocks -> Nat], NEW ef \in [Blocks -> BOOLEAN],
           NEW P, NEW go, NEW F, NEW d, Pending(req, pm, ef, P, go, F, d),
           NEW age, Awaits(age, req, pm, ef, P, F), Full(req, pm, ef, P, F),
           NEW t, \A y \in P : age[y] < age[t],
           NEW r, r = req[t], r \in Requests, r.code = "READ", r.block \in Blocks, ~ef[r.block],
           F[r.block] \in States, r.cycle = F[r.block].cycle => r.page < F[r.block].pages
    PROVE  Awaits(age, req, pm, ef, P \cup {t}, F) /\ Full(req, pm, ef, P \cup {t}, F)
<1>1. PICK b \in Blocks : b = r.block
    OBVIOUS
<1>2. /\ OpenFull(req, pm, ef, P, F) /\ ShutFull(req, pm, ef, P, F)
      /\ ReadAwaits(age, req, pm, ef, P, F) /\ WriteAwaits(age, req, pm, P)
      /\ EraseAwaits(age, req, pm, P)
    BY DEF Full, Awaits
<1>3. ReadAwaits(age, req, pm, ef, P \cup {t}, F)
    <2>1. SUFFICES ASSUME NEW y \in P \cup {t}, req[y].code = "READ", NEW c, c = req[y].block,
                          ef[c] \/ req[y].cycle = F[c].cycle,
                          NEW p \in Nat, pm[c] <= p, p <= req[y].page
                   PROVE  \E z \in P : Programs(req[z], c, p) /\ age[z] < age[y]
        BY DEF ReadAwaits
    <2>2. CASE y = t
        <3>1. ~ef[c] /\ c = b /\ req[y].cycle = F[c].cycle /\ req[y].page < F[c].pages
              /\ req[y].page \in Nat /\ F[c].pages \in Nat
            BY <1>1, <2>1, <2>2 DEF Requests, States
        <3>2. p < F[c].pages
            BY <2>1, <3>1
        <3>3. QED
            BY <1>2, <2>1, <2>2, <3>1, <3>2 DEF OpenFull
    <2>3. CASE y \in P
        BY <1>2, <2>1, <2>3 DEF ReadAwaits
    <2>4. QED
        BY <2>2, <2>3
<1>4. WriteAwaits(age, req, pm, P \cup {t})
    BY <1>2 DEF WriteAwaits
<1>5. EraseAwaits(age, req, pm, P \cup {t})
    <2>1. \A y \in P : req[y].code = "ERASE" => req[y].block # b
        BY <1>1 DEF Pending, ErasesDue
    <2>2. \A c : Reading(req[t], c) => c = b
        BY <1>1 DEF Reading
    <2>3. QED
        BY <1>2, <2>1, <2>2 DEF EraseAwaits
<1>6. Full(req, pm, ef, P \cup {t}, F)
    BY <1>2 DEF Full, OpenFull, ShutFull
<1>7. QED
    BY <1>3, <1>4, <1>5, <1>6 DEF Awaits

(* A read is let go: nothing awaited it but the erase.                     *)
LEMMA AwaitsReadGone ==
    ASSUME NEW age, NEW req, NEW pm, NEW ef, NEW P, NEW F,
           Awaits(age, req, pm, ef, P, F), Full(req, pm, ef, P, F),
           NEW t, req[t].code = "READ"
    PROVE  Awaits(age, req, pm, ef, P \ {t}, F) /\ Full(req, pm, ef, P \ {t}, F)
<1>1. \A b, p : ~Programs(req[t], b, p) /\ ~Erases(req[t], b)
    BY DEF Programs, Erases
<1>2. Full(req, pm, ef, P \ {t}, F)
    BY <1>1 DEF Full, OpenFull, ShutFull
<1>3. ReadAwaits(age, req, pm, ef, P \ {t}, F)
    BY <1>1 DEF Awaits, ReadAwaits
<1>4. WriteAwaits(age, req, pm, P \ {t})
    BY <1>1 DEF Awaits, WriteAwaits
<1>5. EraseAwaits(age, req, pm, P \ {t})
    BY <1>1 DEF Awaits, EraseAwaits
<1>6. QED
    BY <1>2, <1>3, <1>4, <1>5 DEF Awaits

(* A program is let go: the table is one page further.                     *)
LEMMA AwaitsWriteGone ==
    ASSUME NEW req, NEW pm \in [Blocks -> Nat], NEW ef \in [Blocks -> BOOLEAN],
           NEW P, NEW go \in [Blocks -> Int], NEW F \in [Blocks -> States], NEW d,
           Pending(req, pm, ef, P, go, F, d),
           NEW age, Awaits(age, req, pm, ef, P, F), Full(req, pm, ef, P, F),
           NEW t \in P, NEW r, r = req[t], r.code = "WRITE",
           NEW b, b = r.block, r.page = pm[b],
           NEW new, new[b] = pm[b] + 1, \A c \in Blocks \ {b} : new[c] = pm[c]
    PROVE  Awaits(age, req, new, ef, P \ {t}, F) /\ Full(req, new, ef, P \ {t}, F)
<1>1. b \in Blocks /\ pm[b] \in Nat /\ F[b].pages \in Nat
    BY DEF Pending, Sorts, FlashCodes, States
<1>2. /\ OpenFull(req, pm, ef, P, F) /\ ShutFull(req, pm, ef, P, F)
      /\ ReadAwaits(age, req, pm, ef, P, F) /\ WriteAwaits(age, req, pm, P)
      /\ EraseAwaits(age, req, pm, P)
    BY DEF Full, Awaits
<1>3. \A y \in P : /\ req[y].page \in Nat
                   /\ req[y].code \in {"READ", "WRITE", "ERASE"} => req[y].block \in Blocks
    BY DEF Pending, Sorts, FlashCodes, Requests
<1>4. \A c : ~Erases(req[t], c)
    BY DEF Erases
<1>5. \A c, p : Programs(req[t], c, p) => c = b /\ p = pm[b]
    BY DEF Programs
<1>6. r.cycle = go[b]
    BY <1>1 DEF Pending, WritesDue
<1>7. \A y \in P \ {t} : req[y].code = "WRITE" /\ req[y].block = b => req[y].page # pm[b]
    <2>1. SUFFICES ASSUME NEW y \in P, req[y].code = "WRITE", req[y].block = b, req[y].page = pm[b]
                   PROVE  y = t
        OBVIOUS
    <2>2. req[y].cycle = go[b]
        BY <1>1, <2>1 DEF Pending, WritesDue
    <2>3. QED
        BY <1>6, <2>1, <2>2 DEF Pending, WritesDiffer
<1>8. \A y \in P : req[y].code = "ERASE" /\ req[y].block = b => pm[b] < req[y].page
    BY <1>6 DEF Pending, ErasesDue, ErasesLast
<1>9. OpenFull(req, new, ef, P \ {t}, F)
    <2>1. SUFFICES ASSUME NEW c \in Blocks, ~ef[c], NEW p \in Nat, new[c] <= p, p < F[c].pages
                   PROVE  \E y \in P \ {t} : Programs(req[y], c, p)
        BY DEF OpenFull
    <2>2. pm[c] <= p /\ ~(c = b /\ p = pm[b])
        BY <1>1, <2>1
    <2>3. QED
        BY <1>2, <1>5, <2>1, <2>2 DEF OpenFull
<1>10. ShutFull(req, new, ef, P \ {t}, F)
    <2>1. SUFFICES ASSUME NEW c \in Blocks, ef[c]
                   PROVE  /\ F[c].pages <= new[c]
                          /\ \E y \in P \ {t} : Erases(req[y], c)
                          /\ \A p \in Nat : p < F[c].pages =>
                                 \E y \in P \ {t} : Programs(req[y], c, p)
        BY DEF ShutFull
    <2>2. F[c].pages <= pm[c] /\ pm[c] \in Nat /\ F[c].pages \in Nat
        BY <1>2, <2>1 DEF ShutFull, States
    <2>3. F[c].pages <= new[c]
        BY <1>1, <2>2
    <2>4. \A p \in Nat : p < F[c].pages => ~(c = b /\ p = pm[b])
        BY <2>2
    <2>5. QED
        BY <1>2, <1>4, <1>5, <2>1, <2>3, <2>4 DEF ShutFull
<1>11. ReadAwaits(age, req, new, ef, P \ {t}, F)
    <2>1. SUFFICES ASSUME NEW y \in P \ {t}, req[y].code = "READ", NEW c, c = req[y].block,
                          ef[c] \/ req[y].cycle = F[c].cycle,
                          NEW p \in Nat, new[c] <= p, p <= req[y].page
                   PROVE  \E z \in P \ {t} : Programs(req[z], c, p) /\ age[z] < age[y]
        BY DEF ReadAwaits
    <2>2. c \in Blocks
        BY <1>3, <2>1
    <2>3. pm[c] <= p /\ ~(c = b /\ p = pm[b])
        BY <1>1, <2>1, <2>2
    <2>4. QED
        BY <1>2, <1>5, <2>1, <2>3 DEF ReadAwaits
<1>12. WriteAwaits(age, req, new, P \ {t})
    <2>1. SUFFICES ASSUME NEW y \in P \ {t}, req[y].code = "WRITE", NEW c, c = req[y].block
                   PROVE  /\ \A p \in Nat : p < req[y].page /\ (new[c] <= p \/ req[y].page < new[c]) =>
                                 \E z \in P \ {t} : Programs(req[z], c, p) /\ age[z] < age[y]
                          /\ req[y].page < new[c] =>
                                 \E z \in P \ {t} : Erases(req[z], c) /\ age[z] < age[y]
        BY DEF WriteAwaits
    <2>2. c \in Blocks /\ req[y].page \in Nat /\ pm[c] \in Nat
        BY <1>3, <2>1
    <2>3. req[y].page < new[c] => req[y].page < pm[c]
        BY <1>1, <1>7, <2>1, <2>2
    <2>4. ASSUME NEW p \in Nat, p < req[y].page, new[c] <= p \/ req[y].page < new[c]
          PROVE  \E z \in P \ {t} : Programs(req[z], c, p) /\ age[z] < age[y]
        <3>1. (pm[c] <= p \/ req[y].page < pm[c]) /\ ~(c = b /\ p = pm[b])
            BY <1>1, <2>2, <2>3, <2>4
        <3>2. QED
            BY <1>2, <1>5, <2>1, <2>4, <3>1 DEF WriteAwaits
    <2>5. QED
        BY <1>2, <1>4, <2>1, <2>3, <2>4 DEF WriteAwaits
<1>13. EraseAwaits(age, req, new, P \ {t})
    <2>1. SUFFICES ASSUME NEW y \in P \ {t}, req[y].code = "ERASE", NEW c, c = req[y].block
                   PROVE  /\ new[c] <= req[y].page
                          /\ \A p \in Nat : new[c] <= p /\ p < req[y].page =>
                                 \E z \in P \ {t} : Programs(req[z], c, p) /\ age[z] < age[y]
                          /\ \A z \in P \ {t} : Reading(req[z], c) => age[z] < age[y]
        BY DEF EraseAwaits
    <2>2. c \in Blocks /\ req[y].page \in Nat /\ pm[c] \in Nat /\ pm[c] <= req[y].page
        BY <1>2, <1>3, <2>1 DEF EraseAwaits
    <2>3. new[c] <= req[y].page
        BY <1>1, <1>8, <2>1, <2>2
    <2>4. ASSUME NEW p \in Nat, new[c] <= p, p < req[y].page
          PROVE  \E z \in P \ {t} : Programs(req[z], c, p) /\ age[z] < age[y]
        <3>1. pm[c] <= p /\ ~(c = b /\ p = pm[b])
            BY <1>1, <2>2, <2>4
        <3>2. QED
            BY <1>2, <1>5, <2>1, <2>4, <3>1 DEF EraseAwaits
    <2>5. QED
        BY <1>2, <2>1, <2>3, <2>4 DEF EraseAwaits
<1>14. QED
    BY <1>9, <1>10, <1>11, <1>12, <1>13 DEF Full, Awaits

(* An erase is let go: the table of its block starts again.                *)
LEMMA AwaitsEraseGone ==
    ASSUME NEW req, NEW pm \in [Blocks -> Nat], NEW ef \in [Blocks -> BOOLEAN],
           NEW P, NEW go \in [Blocks -> Int], NEW F \in [Blocks -> States], NEW d,
           Pending(req, pm, ef, P, go, F, d),
           NEW age, Awaits(age, req, pm, ef, P, F), Full(req, pm, ef, P, F),
           NEW t \in P, req[t].code = "ERASE",
           NEW b, b = req[t].block, req[t].page = pm[b], NoReads(req, P, b),
           NEW new, NEW on, NEW fl, Cleared(b, pm, go, ef, new, on, fl)
    PROVE  Awaits(age, req, new, fl, P \ {t}, F) /\ Full(req, new, fl, P \ {t}, F)
<1>1. b \in Blocks /\ pm[b] \in Nat /\ ef[b] /\ req[t].cycle = go[b]
    BY DEF Pending, Sorts, FlashCodes, ErasesDue
<1>2. /\ OpenFull(req, pm, ef, P, F) /\ ShutFull(req, pm, ef, P, F)
      /\ ReadAwaits(age, req, pm, ef, P, F) /\ WriteAwaits(age, req, pm, P)
      /\ EraseAwaits(age, req, pm, P)
    BY DEF Full, Awaits
<1>3. \A y \in P : /\ req[y].page \in Nat
                   /\ req[y].code \in {"READ", "WRITE", "ERASE"} => req[y].block \in Blocks
    BY DEF Pending, Sorts, FlashCodes, Requests
<1>4. /\ new[b] = 0 /\ ~fl[b]
      /\ \A c \in Blocks \ {b} : new[c] = pm[c] /\ fl[c] = ef[c]
    BY DEF Cleared
<1>5. \A c, p : ~Programs(req[t], c, p)
    BY DEF Programs
<1>6. \A c : Erases(req[t], c) => c = b
    BY DEF Erases
<1>7. \A y \in P \ {t} : req[y].code = "ERASE" => req[y].block # b
    BY DEF Pending, OneErase
<1>8. \A y \in P : req[y].code = "WRITE" /\ req[y].block = b => req[y].page < pm[b]
    <2>1. SUFFICES ASSUME NEW y \in P, req[y].code = "WRITE", req[y].block = b
                   PROVE  req[y].page < pm[b]
        OBVIOUS
    <2>2. req[y].cycle = go[b] \/ req[y].page < pm[b]
        BY <1>1, <2>1 DEF Pending, WritesDue
    <2>3. req[y].cycle = go[b] => req[y].page < req[t].page
        BY <1>1, <2>1 DEF Pending, ErasesLast
    <2>4. QED
        BY <2>2, <2>3
<1>9. OpenFull(req, new, fl, P \ {t}, F)
    <2>1. SUFFICES ASSUME NEW c \in Blocks, ~fl[c], NEW p \in Nat, new[c] <= p, p < F[c].pages
                   PROVE  \E y \in P : Programs(req[y], c, p)
        BY <1>5 DEF OpenFull
    <2>2. CASE c = b
        BY <1>1, <1>2, <2>1, <2>2 DEF ShutFull
    <2>3. CASE c # b
        BY <1>2, <1>4, <2>1, <2>3 DEF OpenFull
    <2>4. QED
        BY <2>2, <2>3
<1>10. ShutFull(req, new, fl, P \ {t}, F)
    BY <1>2, <1>4, <1>5, <1>6 DEF ShutFull
<1>11. ReadAwaits(age, req, new, fl, P \ {t}, F)
    <2>1. SUFFICES ASSUME NEW y \in P \ {t}, req[y].code = "READ", NEW c, c = req[y].block,
                          fl[c] \/ req[y].cycle = F[c].cycle,
                          NEW p \in Nat, new[c] <= p, p <= req[y].page
                   PROVE  \E z \in P : Programs(req[z], c, p) /\ age[z] < age[y]
        BY <1>5 DEF ReadAwaits
    <2>2. c \in Blocks /\ c # b
        BY <1>3, <2>1 DEF NoReads
    <2>3. QED
        BY <1>2, <1>4, <2>1, <2>2 DEF ReadAwaits
<1>12. WriteAwaits(age, req, new, P \ {t})
    <2>1. SUFFICES ASSUME NEW y \in P \ {t}, req[y].code = "WRITE", NEW c, c = req[y].block
                   PROVE  /\ \A p \in Nat : p < req[y].page /\ (new[c] <= p \/ req[y].page < new[c]) =>
                                 \E z \in P : Programs(req[z], c, p) /\ age[z] < age[y]
                          /\ req[y].page < new[c] =>
                                 \E z \in P \ {t} : Erases(req[z], c) /\ age[z] < age[y]
        BY <1>5 DEF WriteAwaits
    <2>2. c \in Blocks /\ req[y].page \in Nat
        BY <1>3, <2>1
    <2>3. CASE c = b
        <3>1. req[y].page < pm[c] /\ ~(req[y].page < new[c])
            <4>1. req[y].page < pm[c]
                BY <1>8, <2>1, <2>3
            <4>2. new[c] = 0
                BY <1>4, <2>3
            <4>3. QED
                BY <2>2, <4>1, <4>2
        <3>2. QED
            BY <1>2, <2>1, <3>1 DEF WriteAwaits
    <2>4. CASE c # b
        BY <1>2, <1>4, <1>6, <2>1, <2>2, <2>4 DEF WriteAwaits
    <2>5. QED
        BY <2>3, <2>4
<1>13. EraseAwaits(age, req, new, P \ {t})
    <2>1. SUFFICES ASSUME NEW y \in P \ {t}, req[y].code = "ERASE", NEW c, c = req[y].block
                   PROVE  /\ new[c] <= req[y].page
                          /\ \A p \in Nat : new[c] <= p /\ p < req[y].page =>
                                 \E z \in P : Programs(req[z], c, p) /\ age[z] < age[y]
                          /\ \A z \in P : Reading(req[z], c) => age[z] < age[y]
        BY <1>5 DEF EraseAwaits
    <2>2. c \in Blocks /\ c # b
        BY <1>3, <1>7, <2>1
    <2>3. QED
        BY <1>2, <1>4, <2>1, <2>2 DEF EraseAwaits
<1>14. QED
    BY <1>9, <1>10, <1>11, <1>12, <1>13 DEF Full, Awaits
-----------------------------------------------------------------------------
(* What the requests P wait for is among them, and older. *)
TimelyBy(age, top, s, P, F) ==
    /\ Full(s.req, s.permitted, s.eraseFlag, P, F)
    /\ Awaits(age, s.req, s.permitted, s.eraseFlag, P, F)
    /\ Aged(age, top, s.nextBlocking)
Timely(s, P, F) == \E age, top : TimelyBy(age, top, s, P, F)

(* The requests P are still to be let go, those handed down leave the      *)
(* blocks in state F, and the flash is in state fl.                        *)
OrderedBy(go, s, P, F, d, fl) ==
    /\ go \in [Blocks -> Int]
    /\ Pending(s.req, s.permitted, s.eraseFlag, P, go, F, d)
    /\ \A b \in Blocks :
           Trail(s.nandQ[WayOf[b]], s.req, b, fl[b], State(go[b], s.permitted[b]))
    /\ Timely(s, P, F)
Ordered(s, P, F, d, fl) == \E go : OrderedBy(go, s, P, F, d, fl)

(* The table and the queues of the ways stay, links are cut at most. *)
LinksCut(s, u) == \A y \in Tags : u.nextBlocking[y] \in {s.nextBlocking[y], NoTag}
SameOrder(s, u) ==
    /\ u.nandQ = s.nandQ /\ u.permitted = s.permitted /\ u.eraseFlag = s.eraseFlag
    /\ LinksCut(s, u)

(* What leaves P or joins it without being a flash operation. *)
NoFlash(req, P) == \A y \in P : req[y].code \notin FlashCodes

(* The request of t is let go. *)
Passed(s, u, t) ==
    LET r == s.req[t]
        w == WayOf[s.req[t].block]
    IN  /\ u.nandQ = [s.nandQ EXCEPT ![w] = Append(@, t)]
        /\ r.code = "READ" => u.permitted = s.permitted /\ u.eraseFlag = s.eraseFlag
        /\ r.code = "WRITE" => /\ u.permitted = [s.permitted EXCEPT ![r.block] = @ + 1]
                               /\ u.eraseFlag = s.eraseFlag
        /\ r.code = "ERASE" => /\ u.permitted = [s.permitted EXCEPT ![r.block] = 0]
                               /\ u.eraseFlag = [s.eraseFlag EXCEPT ![r.block] = FALSE]
        /\ u.nextBlocking = s.nextBlocking

(* The parts of a scheduler that the order is about. *)
LEMMA ShapeOrder ==
    ASSUME NEW s \in Shape
    PROVE  /\ s.req \in [Tags -> Requests] /\ s.nandQ \in [Ways -> Seq(Tags)]
           /\ s.rowQ \in [Ways -> Seq(Tags)] /\ s.bufQ \in SUBSET Tags
           /\ s.permitted \in [Blocks -> Nat] /\ s.eraseFlag \in [Blocks -> BOOLEAN]
<1>1. s.permitted \in [Blocks -> 0 .. NumPages]
    BY DEF Shape
<1>2. s.permitted \in [Blocks -> Nat]
    BY <1>1
<1>3. QED
    BY <1>2 DEF Shape

(* What changes neither the table nor the flash operations concerned keeps *)
(* what they wait for.                                                     *)
LEMMA TimelySame ==
    ASSUME NEW s, NEW P, NEW F, Timely(s, P, F),
           NEW u, u.permitted = s.permitted, u.eraseFlag = s.eraseFlag, LinksCut(s, u),
           NEW Q, \A y \in P \cap Q : u.req[y] = s.req[y],
           NoFlash(s.req, P \ Q), NoFlash(u.req, Q \ P)
    PROVE  Timely(u, Q, F)
<1>1. PICK age, top : TimelyBy(age, top, s, P, F)
    BY DEF Timely
<1>2. Full(s.req, s.permitted, s.eraseFlag, P, F) /\ Awaits(age, s.req, s.permitted, s.eraseFlag, P, F)
    BY <1>1 DEF TimelyBy
<1>3. Full(u.req, s.permitted, s.eraseFlag, Q, F) /\ Awaits(age, u.req, s.permitted, s.eraseFlag, Q, F)
    <2>1. /\ \A y \in P \cap Q : u.req[y] = s.req[y] /\ age[y] = age[y]
          /\ \A y \in P \ Q : s.req[y].code \notin FlashCodes
          /\ \A y \in Q \ P : u.req[y].code \notin FlashCodes
        BY DEF NoFlash
    <2>2. PICK pm, ef, req, new : pm = s.permitted /\ ef = s.eraseFlag /\ req = s.req /\ new = u.req
        OBVIOUS
    <2>3. /\ Full(req, pm, ef, P, F) /\ Awaits(age, req, pm, ef, P, F)
          /\ \A y \in P \cap Q : new[y] = req[y] /\ age[y] = age[y]
          /\ \A y \in P \ Q : req[y].code \notin FlashCodes
          /\ \A y \in Q \ P : new[y].code \notin FlashCodes
        BY <1>2, <2>1, <2>2
    <2>4. Awaits(age, new, pm, ef, Q, F) /\ Full(new, pm, ef, Q, F)
        BY <2>3, AwaitsSame
    <2>5. QED
        BY <2>2, <2>4
<1>4. Aged(age, top, u.nextBlocking)
    BY <1>1, AgedLinks DEF TimelyBy, LinksCut
<1>5. QED
    BY <1>3, <1>4 DEF Timely, TimelyBy

(* A request that is let go: what waited for it waits no more for it. *)
LEMMA TimelyPass ==
    ASSUME NEW s \in Shape, NEW P, NEW go \in [Blocks -> Int], NEW F \in [Blocks -> States], NEW d,
           Pending(s.req, s.permitted, s.eraseFlag, P, go, F, d), Timely(s, P, F),
           NEW t \in P, NEW r, r = s.req[t], NandReq(r),
           r.code # "READ" => r.page = s.permitted[r.block],
           r.code = "ERASE" => NoReads(s.req, P, r.block),
           NEW u, u.req = s.req, Passed(s, u, t)
    PROVE  Timely(u, P \ {t}, F)
<1>1. PICK age, top : TimelyBy(age, top, s, P, F)
    BY DEF Timely
<1>2. /\ Full(s.req, s.permitted, s.eraseFlag, P, F)
      /\ Awaits(age, s.req, s.permitted, s.eraseFlag, P, F)
      /\ Aged(age, top, u.nextBlocking)
    <2>1. u.nextBlocking = s.nextBlocking
        BY DEF Passed
    <2>2. QED
        BY <1>1, <2>1 DEF TimelyBy
<1>3. PICK b \in Blocks : b = r.block
    BY DEF NandReq
<1>4. s.permitted \in [Blocks -> Nat] /\ s.eraseFlag \in [Blocks -> BOOLEAN]
    BY ShapeOrder
<1>5. CASE r.code = "READ"
    <2>1. u.permitted = s.permitted /\ u.eraseFlag = s.eraseFlag
        BY <1>5 DEF Passed
    <2>2. /\ Awaits(age, s.req, s.permitted, s.eraseFlag, P \ {t}, F)
          /\ Full(s.req, s.permitted, s.eraseFlag, P \ {t}, F)
        BY <1>2, <1>5, AwaitsReadGone
    <2>3. QED
        BY <1>2, <2>1, <2>2 DEF Timely, TimelyBy
<1>6. CASE r.code = "WRITE"
    <2>1. u.permitted = [s.permitted EXCEPT ![b] = @ + 1] /\ u.eraseFlag = s.eraseFlag
        BY <1>3, <1>6 DEF Passed
    <2>2. u.permitted[b] = s.permitted[b] + 1 /\ \A c \in Blocks \ {b} : u.permitted[c] = s.permitted[c]
        BY <1>4, <2>1
    <2>3. /\ s.req[t].code = "WRITE" /\ b = s.req[t].block /\ s.req[t].page = s.permitted[b]
          /\ Pending(s.req, s.permitted, s.eraseFlag, P, go, F, d)
        BY <1>3, <1>6
    <2>4. /\ Awaits(age, s.req, u.permitted, s.eraseFlag, P \ {t}, F)
          /\ Full(s.req, u.permitted, s.eraseFlag, P \ {t}, F)
        <3>1. PICK pm, new, ef, req : /\ pm = s.permitted /\ new = u.permitted
                                      /\ ef = s.eraseFlag /\ req = s.req
            OBVIOUS
        <3>2. /\ pm \in [Blocks -> Nat] /\ ef \in [Blocks -> BOOLEAN]
              /\ Pending(req, pm, ef, P, go, F, d)
              /\ Full(req, pm, ef, P, F) /\ Awaits(age, req, pm, ef, P, F)
              /\ r = req[t] /\ r.code = "WRITE" /\ b = r.block /\ r.page = pm[b]
              /\ new[b] = pm[b] + 1 /\ \A c \in Blocks \ {b} : new[c] = pm[c]
            BY <1>2, <1>3, <1>4, <1>6, <2>2, <2>3, <3>1
        <3>3. Awaits(age, req, new, ef, P \ {t}, F) /\ Full(req, new, ef, P \ {t}, F)
            BY <3>2, AwaitsWriteGone
        <3>4. QED
            BY <3>1, <3>3
    <2>5. QED
        BY <1>2, <2>1, <2>4 DEF Timely, TimelyBy
<1>7. CASE r.code = "ERASE"
    <2>1. /\ u.permitted = [s.permitted EXCEPT ![b] = 0]
          /\ u.eraseFlag = [s.eraseFlag EXCEPT ![b] = FALSE]
        BY <1>3, <1>7 DEF Passed
    <2>2. PICK on : on = [go EXCEPT ![b] = 1 - @]
        OBVIOUS
    <2>3. Cleared(b, s.permitted, go, s.eraseFlag, u.permitted, on, u.eraseFlag)
        BY <1>4, <2>1, <2>2 DEF Cleared
    <2>4. s.req[t].code = "ERASE" /\ b = s.req[t].block /\ s.req[t].page = s.permitted[b]
          /\ NoReads(s.req, P, b)
        BY <1>3, <1>7
    <2>5. /\ Awaits(age, s.req, u.permitted, u.eraseFlag, P \ {t}, F)
          /\ Full(s.req, u.permitted, u.eraseFlag, P \ {t}, F)
        BY <1>2, <1>4, <2>3, <2>4, AwaitsEraseGone
    <2>6. QED
        BY <1>2, <2>5 DEF Timely, TimelyBy
<1>8. QED
    BY <1>5, <1>6, <1>7 DEF NandReq, FlashCodes

(* What changes neither queue nor table nor the requests concerned keeps   *)
(* the order.                                                              *)
LEMMA OrderedSame ==
    ASSUME NEW s \in Shape, NEW u, SameOrder(s, u),
           NEW P, NEW F, NEW d, NEW fl, Ordered(s, P, F, d, fl),
           NEW Q, Q \subseteq P, NoFlash(s.req, P \ Q),
           NEW e, d => e, \A y \in Q : u.req[y] = s.req[y],
           \A w \in Ways : \A y \in Range(s.nandQ[w]) : u.req[y] = s.req[y]
    PROVE  Ordered(u, Q, F, e, fl)
<1>1. PICK go : OrderedBy(go, s, P, F, d, fl)
    BY DEF Ordered
<1>2. Pending(u.req, u.permitted, u.eraseFlag, Q, go, F, e)
    BY <1>1, PendingLess DEF OrderedBy, SameOrder
<1>3. ASSUME NEW b \in Blocks
      PROVE  Trail(u.nandQ[WayOf[b]], u.req, b, fl[b], State(go[b], u.permitted[b]))
    <2>1. WayOf[b] \in Ways /\ s.nandQ[WayOf[b]] \in Seq(Tags)
        BY ShapeOrder, WayOfFact
    <2>2. PICK q \in Seq(Tags) : q = s.nandQ[WayOf[b]]
        BY <2>1
    <2>3. \A i \in 1 .. Len(q) : u.req[q[i]] = s.req[q[i]]
        BY <2>1, <2>2 DEF Range
    <2>4. Trail(q, s.req, b, fl[b], State(go[b], s.permitted[b]))
        BY <1>1, <2>2 DEF OrderedBy
    <2>5. Trail(q, u.req, b, fl[b], State(go[b], s.permitted[b]))
        BY <2>3, <2>4, TrailSame
    <2>6. QED
        BY <2>2, <2>5 DEF SameOrder
<1>4. Timely(u, Q, F)
    <2>1. \A y \in P \cap Q : u.req[y] = s.req[y]
        OBVIOUS
    <2>2. NoFlash(u.req, Q \ P)
        BY DEF NoFlash
    <2>3. Timely(s, P, F)
        BY <1>1 DEF OrderedBy
    <2>4. QED
        BY <2>1, <2>2, <2>3, TimelySame DEF SameOrder
<1>5. QED
    BY <1>1, <1>2, <1>3, <1>4 DEF Ordered, OrderedBy

LEMMA OrderedKept ==
    ASSUME NEW s \in Shape, NEW u, SameOrder(s, u),
           NEW P, NEW F, NEW d, NEW fl, Ordered(s, P, F, d, fl),
           \A y \in P : u.req[y] = s.req[y],
           \A w \in Ways : \A y \in Range(s.nandQ[w]) : u.req[y] = s.req[y]
    PROVE  Ordered(u, P, F, d, fl)
<1>1. NoFlash(s.req, P \ P)
    BY DEF NoFlash
<1>2. QED
    BY <1>1, OrderedSame

(* A blocked request that is let go reaches its way in order. *)
LEMMA OrderedPass ==
    ASSUME NEW s \in Shape, NEW P, P \subseteq Tags, NEW F \in [Blocks -> States], NEW d, NEW fl,
           Ordered(s, P, F, d, fl), NEW t \in P, NandReq(s.req[t]), RowAddrPass(s, t),
           NEW r, r = s.req[t],
           r.code = "ERASE" => NoReads(s.req, P, r.block),
           NEW u, u.req = s.req, Passed(s, u, t)
    PROVE  Ordered(u, P \ {t}, F, d, fl)
<1>1. PICK go : OrderedBy(go, s, P, F, d, fl)
    BY DEF Ordered
<1>2. /\ go \in [Blocks -> Int] /\ Pending(s.req, s.permitted, s.eraseFlag, P, go, F, d)
      /\ \A c \in Blocks :
             Trail(s.nandQ[WayOf[c]], s.req, c, fl[c], State(go[c], s.permitted[c]))
    BY <1>1 DEF OrderedBy
<1>3. PICK b \in Blocks : b = r.block
    BY DEF NandReq
<1>4. PICK w \in Ways : w = WayOf[b]
    BY WayOfFact
<1>5. /\ s.nandQ \in [Ways -> Seq(Tags)] /\ s.permitted \in [Blocks -> Nat]
      /\ s.eraseFlag \in [Blocks -> BOOLEAN] /\ t \in Tags
    BY ShapeOrder
<1>6. r.code \in {"READ", "WRITE", "ERASE"}
    BY DEF NandReq, FlashCodes
<1>7. /\ r.code = "READ" => r.page < s.permitted[b]
      /\ r.code # "READ" => r.page = s.permitted[b]
    BY <1>3, <1>6 DEF RowAddrPass
<1>8. /\ u.nandQ[w] = Append(s.nandQ[w], t)
      /\ \A v \in Ways \ {w} : u.nandQ[v] = s.nandQ[v]
    BY <1>3, <1>4, <1>5 DEF Passed
<1>9. PICK on : on = IF r.code = "ERASE" THEN [go EXCEPT ![b] = 1 - @] ELSE go
    OBVIOUS
<1>10. /\ on \in [Blocks -> Int] /\ u.permitted \in [Blocks -> Nat]
       /\ \A c \in Blocks \ {b} : on[c] = go[c] /\ u.permitted[c] = s.permitted[c]
    <2>1. on \in [Blocks -> Int] /\ \A c \in Blocks \ {b} : on[c] = go[c]
        BY <1>2, <1>9
    <2>2. CASE r.code = "READ"
        BY <1>5, <2>1, <2>2 DEF Passed
    <2>3. CASE r.code = "WRITE"
        <3>1. u.permitted = [s.permitted EXCEPT ![b] = @ + 1]
            BY <1>3, <2>3 DEF Passed
        <3>2. QED
            BY <1>5, <2>1, <3>1
    <2>4. CASE r.code = "ERASE"
        <3>1. u.permitted = [s.permitted EXCEPT ![b] = 0]
            BY <1>3, <2>4 DEF Passed
        <3>2. QED
            BY <1>5, <2>1, <3>1
    <2>5. QED
        BY <1>6, <2>2, <2>3, <2>4
<1>11. /\ Pending(u.req, u.permitted, u.eraseFlag, P \ {t}, on, F, d)
       /\ Fits(r, State(go[b], s.permitted[b]))
       /\ After(r, State(go[b], s.permitted[b])) = State(on[b], u.permitted[b])
    <2>1. CASE r.code = "READ"
        <3>1. Fits(r, State(go[b], s.permitted[b]))
            BY <1>2, <1>3, <1>5, <1>7, <2>1, GoRead
        <3>2. Pending(s.req, s.permitted, s.eraseFlag, P \ {t}, go, F, d)
            BY <1>2, PendingLess
        <3>3. on = go /\ u.permitted = s.permitted /\ u.eraseFlag = s.eraseFlag
            BY <1>9, <2>1 DEF Passed
        <3>4. After(r, State(go[b], s.permitted[b])) = State(go[b], s.permitted[b])
            BY <2>1 DEF After
        <3>5. QED
            BY <3>1, <3>2, <3>3, <3>4
    <2>2. CASE r.code = "WRITE"
        <3>1. on = go /\ u.eraseFlag = s.eraseFlag
              /\ u.permitted[b] = s.permitted[b] + 1
            BY <1>3, <1>5, <1>9, <2>2 DEF Passed
        <3>2. r.page = s.permitted[b]
            BY <1>7, <2>2
        <3>3. \A c \in Blocks \ {b} : u.permitted[c] = s.permitted[c]
            BY <1>10
        <3>4. /\ Fits(r, State(go[b], s.permitted[b]))
              /\ After(r, State(go[b], s.permitted[b])) = State(go[b], u.permitted[b])
              /\ Pending(s.req, u.permitted, s.eraseFlag, P \ {t}, go, F, d)
            <4>1. /\ s.permitted \in [Blocks -> Nat] /\ s.eraseFlag \in [Blocks -> BOOLEAN]
                  /\ go \in [Blocks -> Int] /\ F \in [Blocks -> States] /\ t \in P
                  /\ Pending(s.req, s.permitted, s.eraseFlag, P, go, F, d)
                  /\ s.req[t].code = "WRITE" /\ b = s.req[t].block /\ s.req[t].page = s.permitted[b]
                BY <1>2, <1>3, <1>5, <2>2, <3>2
            <4>2. Fits(r, State(go[b], s.permitted[b]))
                BY <4>1, GoFits
            <4>3. After(r, State(go[b], s.permitted[b])) = State(go[b], u.permitted[b])
                BY <2>2, <3>1, <3>2, <4>2 DEF After, Fits, State
            <4>4. Pending(s.req, u.permitted, s.eraseFlag, P \ {t}, go, F, d)
                BY <3>1, <3>3, <4>1, GoWrite
            <4>5. QED
                BY <4>2, <4>3, <4>4
        <3>5. QED
            BY <3>1, <3>4
    <2>3. CASE r.code = "ERASE"
        <3>1. on[b] = 1 - go[b] /\ u.permitted[b] = 0
            BY <1>2, <1>3, <1>5, <1>9, <2>3 DEF Passed
        <3>2. u.eraseFlag[b] = FALSE /\ \A c \in Blocks \ {b} : u.eraseFlag[c] = s.eraseFlag[c]
            BY <1>3, <1>5, <2>3 DEF Passed
        <3>3. r.page = s.permitted[b]
            BY <1>7, <2>3
        <3>4. NoReads(s.req, P, b)
            BY <1>3, <2>3
        <3>5. \A c \in Blocks \ {b} :
                  /\ u.permitted[c] = s.permitted[c] /\ on[c] = go[c]
                  /\ u.eraseFlag[c] = s.eraseFlag[c]
            BY <1>10, <3>2
        <3>6. /\ Fits(r, State(go[b], s.permitted[b]))
              /\ After(r, State(go[b], s.permitted[b])) = State(on[b], u.permitted[b])
              /\ Pending(s.req, u.permitted, u.eraseFlag, P \ {t}, on, F, d)
            <4>1. /\ s.permitted \in [Blocks -> Nat] /\ s.eraseFlag \in [Blocks -> BOOLEAN]
                  /\ go \in [Blocks -> Int] /\ F \in [Blocks -> States] /\ t \in P
                  /\ Pending(s.req, s.permitted, s.eraseFlag, P, go, F, d)
                  /\ s.req[t].code = "ERASE" /\ b = s.req[t].block /\ s.req[t].page = s.permitted[b]
                BY <1>2, <1>3, <1>5, <2>3, <3>3
            <4>2. Fits(r, State(go[b], s.permitted[b]))
                BY <4>1, GoFits
            <4>3. After(r, State(go[b], s.permitted[b])) = State(on[b], u.permitted[b])
                BY <2>3, <3>1, <4>2 DEF After, Fits, State
            <4>4. Pending(s.req, u.permitted, u.eraseFlag, P \ {t}, on, F, d)
                <5>1. Cleared(b, s.permitted, go, s.eraseFlag, u.permitted, on, u.eraseFlag)
                    BY <3>1, <3>2, <3>5 DEF Cleared
                <5>2. QED
                    BY <3>4, <4>1, <5>1, GoErase
            <4>5. QED
                BY <4>2, <4>3, <4>4
        <3>7. QED
            BY <3>6
    <2>4. QED
        BY <1>6, <2>1, <2>2, <2>3
<1>12. ASSUME NEW c \in Blocks
       PROVE  Trail(u.nandQ[WayOf[c]], u.req, c, fl[c], State(on[c], u.permitted[c]))
    <2>1. PICK x : x = State(go[c], s.permitted[c])
        OBVIOUS
    <2>2. PICK z : z = State(on[c], u.permitted[c])
        OBVIOUS
    <2>3. z \in States
        BY <1>10, <2>2 DEF State, States
    <2>4. Trail(s.nandQ[WayOf[c]], s.req, c, fl[c], x)
        BY <1>2, <2>1
    <2>5. CASE WayOf[c] # w
        <3>1. c # b /\ WayOf[c] \in Ways
            BY <1>4, <2>5, WayOfFact
        <3>2. u.nandQ[WayOf[c]] = s.nandQ[WayOf[c]] /\ z = x
            BY <1>8, <1>10, <2>1, <2>2, <2>5, <3>1
        <3>3. QED
            BY <2>2, <2>4, <3>2
    <2>6. CASE WayOf[c] = w
        <3>1. PICK q \in Seq(Tags) : q = s.nandQ[w]
            BY <1>5
        <3>2. Trail(q, s.req, c, fl[c], x) /\ u.nandQ[WayOf[c]] = Append(q, t)
            BY <1>8, <2>4, <2>6, <3>1
        <3>3. /\ s.req[t].block = c => Fits(s.req[t], x) /\ z = After(s.req[t], x)
              /\ s.req[t].block # c => z = x
            BY <1>3, <1>10, <1>11, <2>1, <2>2
        <3>4. Trail(Append(q, t), s.req, c, fl[c], z)
            BY <1>5, <2>3, <3>2, <3>3, TrailAppend
        <3>5. QED
            BY <2>2, <3>2, <3>4
    <2>7. QED
        BY <2>5, <2>6
<1>13. Timely(u, P \ {t}, F)
    <2>1. Timely(s, P, F)
        BY <1>1 DEF OrderedBy
    <2>2. r.code # "READ" => r.page = s.permitted[r.block]
        BY <1>3, <1>7
    <2>3. QED
        BY <1>2, <2>1, <2>2, TimelyPass
<1>14. QED
    BY <1>10, <1>11, <1>12, <1>13 DEF Ordered, OrderedBy
-----------------------------------------------------------------------------

(* The blocked requests. *)
Pend(s) == s.bufQ \cup UNION {Range(s.rowQ[w]) : w \in Ways}

(* The blocked requests and those queued at a way are where at says. *)
LEMMA PendFact ==
    ASSUME NEW s, NEW wt, NEW at, NEW x, Sound(s, wt, at, x)
    PROVE  /\ Pend(s) \subseteq Tags
           /\ \A y \in Tags : y \in Pend(s) <=> at[y] \in {"row", "buf"}
           /\ \A w \in Ways : \A y \in Range(s.nandQ[w]) : y \in Tags /\ at[y] = "nand"
<1>1. /\ s.bufQ = At(at, "buf")
      /\ \A w \in Ways : Range(s.nandQ[w]) = OnWay(s.req, at, "nand", w)
      /\ \A w \in Ways : Range(s.rowQ[w]) = OnWay(s.req, at, "row", w)
    BY SoundFacts, CoreFacts DEF Lists
<1>2. \A y \in Tags : at[y] = "row" => WayOf[s.req[y].block] \in Ways
    BY SoundFacts, WayOfFact DEF NandReq
<1>3. \A y : y \in Pend(s) <=> y \in s.bufQ \/ \E w \in Ways : y \in Range(s.rowQ[w])
    BY DEF Pend
<1>4. \A y : y \in Pend(s) <=> y \in Tags /\ at[y] \in {"row", "buf"}
    BY <1>1, <1>2, <1>3 DEF At, OnWay
<1>5. \A w \in Ways : \A y \in Range(s.nandQ[w]) : y \in Tags /\ at[y] = "nand"
    BY <1>1 DEF OnWay
<1>6. QED
    BY <1>4, <1>5

(* What a longer queue holds. *)
LEMMA RangeOfAppend ==
    ASSUME NEW q \in Seq(Tags), NEW t \in Tags
    PROVE  Range(Append(q, t)) = Range(q) \cup {t}
<1>1. PICK n \in Nat : n = Len(q) /\ DOMAIN q = 1 .. n
    OBVIOUS
<1>2. PICK p : p = Append(q, t)
    OBVIOUS
<1>3. /\ DOMAIN p = 1 .. n + 1 /\ p[n + 1] = t /\ n + 1 \in 1 .. n + 1
      /\ \A i \in 1 .. n : p[i] = q[i] /\ i \in 1 .. n + 1
      /\ \A i \in 1 .. n + 1 : i = n + 1 \/ i \in 1 .. n
    BY <1>1, <1>2
<1>4. \A y : y \in Range(p) <=> \E i \in 1 .. n + 1 : y = p[i]
    BY <1>3 DEF Range
<1>5. \A y : y \in Range(q) <=> \E i \in 1 .. n : y = q[i]
    BY <1>1 DEF Range
<1>6. \A y : y \in Range(p) <=> y \in Range(q) \/ y = t
    BY <1>3, <1>4, <1>5
<1>7. QED
    BY <1>2, <1>6

(* A queue of a way that holds t besides. *)
RowJoined(s, u, w, t) ==
    u.bufQ = s.bufQ /\ u.rowQ = [s.rowQ EXCEPT ![w] = Append(@, t)]
LEMMA PendAppend ==
    ASSUME NEW s \in Shape, NEW t \in Tags, NEW w \in Ways,
           NEW u, RowJoined(s, u, w, t)
    PROVE  Pend(u) = Pend(s) \cup {t}
<1>1. s.rowQ \in [Ways -> Seq(Tags)]
    BY ShapeOrder
<1>2. Range(u.rowQ[w]) = Range(s.rowQ[w]) \cup {t}
    BY <1>1, RangeOfAppend DEF RowJoined
<1>3. \A v \in Ways : v # w => u.rowQ[v] = s.rowQ[v]
    BY <1>1 DEF RowJoined
<1>4. \A y : y \in Pend(u) <=> y \in Pend(s) \/ y = t
    BY <1>2, <1>3 DEF Pend, RowJoined
<1>5. QED
    BY <1>4

(* A request that the table lets go is put to its way. *)
LEMMA PassedPut ==
    ASSUME NEW s \in Shape, NEW t \in Tags, NandReq(s.req[t]),
           NEW v, v = RowAddrGo(s, t) \/ v = RowAddrRelease(s, t),
           NEW g \in Shape, g.req = v.req, g.nandQ = v.nandQ, g.permitted = v.permitted,
           g.eraseFlag = v.eraseFlag, g.nextBlocking = v.nextBlocking, NEW u, u = PutToNandReqQ(g, t)
    PROVE  /\ Passed(s, u, t) /\ u.req = s.req /\ v.req = s.req
           /\ v.bufQ = s.bufQ /\ v.rowQ = s.rowQ /\ u.bufQ = g.bufQ /\ u.rowQ = g.rowQ
<1>1. PICK r : r = s.req[t] /\ r.block \in Blocks /\ r.code \in FlashCodes
    BY DEF NandReq
<1>2. /\ v.req = s.req /\ v.bufQ = s.bufQ /\ v.rowQ = s.rowQ /\ v.nandQ = s.nandQ
      /\ v.nextBlocking = s.nextBlocking
      /\ r.code = "READ" => v.permitted = s.permitted /\ v.eraseFlag = s.eraseFlag
      /\ r.code = "WRITE" => /\ v.permitted = [s.permitted EXCEPT ![r.block] = @ + 1]
                             /\ v.eraseFlag = s.eraseFlag
      /\ r.code = "ERASE" => /\ v.permitted = [s.permitted EXCEPT ![r.block] = 0]
                             /\ v.eraseFlag = [s.eraseFlag EXCEPT ![r.block] = FALSE]
    <2>1. CASE r.code = "READ"
        <3>1. RowAddrGo(s, t) = s
            BY <1>1, <2>1 DEF RowAddrGo
        <3>2. PICK n : n = [s.blockedReads EXCEPT ![r.block] = @ - 1]
            OBVIOUS
        <3>3. RowAddrRelease(s, t) = [s EXCEPT !.blockedReads = n]
            BY <1>1, <2>1, <3>2 DEF RowAddrRelease
        <3>4. /\ v.req = s.req /\ v.bufQ = s.bufQ /\ v.rowQ = s.rowQ /\ v.nandQ = s.nandQ
              /\ v.permitted = s.permitted /\ v.eraseFlag = s.eraseFlag
              /\ v.nextBlocking = s.nextBlocking
            BY <3>1, <3>3 DEF Shape
        <3>5. QED
            BY <2>1, <3>4
    <2>2. CASE r.code \in {"WRITE", "ERASE"}
        <3>1. v = RowAddrGo(s, t)
            BY <1>1, <2>2 DEF RowAddrRelease
        <3>2. CASE r.code = "WRITE"
            <4>1. PICK n : n = [s.permitted EXCEPT ![r.block] = @ + 1]
                OBVIOUS
            <4>2. v = [s EXCEPT !.permitted = n]
                BY <1>1, <3>1, <3>2, <4>1 DEF RowAddrGo
            <4>3. QED
                BY <3>2, <4>1, <4>2 DEF Shape
        <3>3. CASE r.code = "ERASE"
            <4>1. PICK n, m : n = [s.permitted EXCEPT ![r.block] = 0]
                              /\ m = [s.eraseFlag EXCEPT ![r.block] = FALSE]
                OBVIOUS
            <4>2. v = [s EXCEPT !.permitted = n, !.eraseFlag = m]
                BY <1>1, <3>1, <3>3, <4>1 DEF RowAddrGo
            <4>3. QED
                BY <3>3, <4>1, <4>2 DEF Shape
        <3>4. QED
            BY <2>2, <3>2, <3>3
    <2>3. QED
        BY <1>1, <2>1, <2>2 DEF FlashCodes
<1>3. /\ u.nandQ = [g.nandQ EXCEPT ![WayOf[g.req[t].block]] = Append(@, t)]
      /\ u.req = g.req /\ u.bufQ = g.bufQ /\ u.rowQ = g.rowQ
      /\ u.permitted = g.permitted /\ u.eraseFlag = g.eraseFlag
      /\ u.nextBlocking = g.nextBlocking
    <2>1. PICK q : q = [g.nandQ EXCEPT ![WayOf[g.req[t].block]] = Append(@, t)]
        OBVIOUS
    <2>2. u = [g EXCEPT !.nandQ = q, !.notCompleted = g.notCompleted + 1]
        BY <2>1 DEF PutToNandReqQ
    <2>3. QED
        BY <2>1, <2>2 DEF Shape
<1>4. Passed(s, u, t)
    BY <1>1, <1>2, <1>3 DEF Passed
<1>5. QED
    BY <1>2, <1>3, <1>4
-----------------------------------------------------------------------------

(* The request may be handed down while the erase of its block is blocked. *)
Allowed(s, r) ==
    /\ r.code = "WRITE" /\ s.eraseFlag[r.block] => r.page < s.permitted[r.block]
    /\ r.code = "ERASE" => ~s.eraseFlag[r.block]

(* The block of a read is in its cycle and has its page, or the read comes *)
(* from a stale load and the block is empty, in the next cycle.            *)
ReadFits(r, F, d) ==
    r.code = "READ" =>
        /\ r.block \in Blocks
        /\ \/ r.cycle = F[r.block].cycle /\ r.page < F[r.block].pages
           \/ d /\ r.cycle # F[r.block].cycle /\ F[r.block].pages = 0

(* A request leaves every block in a state. *)
LEMMA FollowsStates ==
    ASSUME NEW r \in Requests, NEW F \in [Blocks -> States], NEW G, Follows(r, F, G)
    PROVE  G \in [Blocks -> States]
<1>1. CASE r.code \in {"WRITE", "ERASE"}
    <2>1. r.block \in Blocks /\ G = [F EXCEPT ![r.block] = After(r, F[r.block])]
        BY <1>1 DEF Follows
    <2>2. r.page \in Nat /\ r.cycle \in Int
        BY DEF Requests
    <2>3. After(r, F[r.block]) \in States
        BY <1>1, <2>2 DEF After, State, States
    <2>4. QED
        BY <2>1, <2>3
<1>2. CASE r.code \notin {"WRITE", "ERASE"}
    BY <1>2 DEF Follows
<1>3. QED
    BY <1>1, <1>2

(* The table of the block of a request that is blocked. *)
LEMMA BlockFields ==
    ASSUME NEW s \in Shape, NEW t \in Tags, NEW r, r = s.req[t], NandReq(r),
           NEW v, v = RowAddrBlock(s, t)
    PROVE  /\ v \in Shape /\ v.req = s.req /\ SameQueues(s, v) /\ SameChains(s, v)
           /\ v.permitted = s.permitted
           /\ r.code = "ERASE" => Flagged(s.eraseFlag, r.block, v.eraseFlag)
           /\ r.code # "ERASE" => v.eraseFlag = s.eraseFlag
           /\ r.code # "READ" => v.blockedReads = s.blockedReads
<1>1. Proper(s.req[t]) /\ r.code \in FlashCodes
    BY DEF Proper, NandReq
<1>2. /\ v \in Shape /\ v.req = s.req /\ SameQueues(s, v) /\ SameChains(s, v)
      /\ v.permitted = s.permitted
      /\ r.code # "READ" => v.blockedReads = s.blockedReads
    BY <1>1, RowAddrBlockFact
<1>3. /\ r.code = "ERASE" => Flagged(s.eraseFlag, r.block, v.eraseFlag)
      /\ r.code # "ERASE" => v.eraseFlag = s.eraseFlag
    <2>1. CASE r.code = "READ"
        <3>1. PICK n : n = [s.blockedReads EXCEPT ![r.block] = @ + 1]
            OBVIOUS
        <3>2. v = [s EXCEPT !.blockedReads = n]
            BY <2>1, <3>1 DEF RowAddrBlock
        <3>3. QED
            BY <2>1, <3>2 DEF Shape
    <2>2. CASE r.code = "WRITE"
        BY <2>2 DEF RowAddrBlock
    <2>3. CASE r.code = "ERASE"
        <3>1. PICK n : n = [s.eraseFlag EXCEPT ![r.block] = TRUE]
            OBVIOUS
        <3>2. v = [s EXCEPT !.eraseFlag = n]
            BY <2>3, <3>1 DEF RowAddrBlock
        <3>3. QED
            BY <2>3, <3>1, <3>2 DEF Shape, Flagged
    <2>4. QED
        BY <1>1, <2>1, <2>2, <2>3 DEF FlashCodes
<1>4. QED
    BY <1>2, <1>3

(* Request r may be handed down next, and takes the blocks from F to G. *)
Due(s, r, F, G, d) ==
    /\ Follows(r, F, G)
    /\ Allowed(s, r)
    /\ ReadFits(r, F, d)
    /\ r.code = "READ" => ~s.eraseFlag[r.block]

(* A request that is in no chain yet may be the youngest. *)
LEMMA Youngest ==
    ASSUME NEW s \in Shape, NEW P, P \subseteq Tags, NEW F, Timely(s, P, F),
           NEW t \in Tags, t \notin P, s.nextBlocking[t] = NoTag
    PROVE  \E age, top : TimelyBy(age, top, s, P, F) /\ \A y \in Tags \ {t} : age[y] < age[t]
<1>1. PICK age, top, next, pm, ef, req :
          /\ next = s.nextBlocking /\ pm = s.permitted /\ ef = s.eraseFlag /\ req = s.req
          /\ Aged(age, top, next) /\ Full(req, pm, ef, P, F) /\ Awaits(age, req, pm, ef, P, F)
    BY DEF Timely, TimelyBy
<1>2. /\ next \in [Tags -> Tags \cup {NoTag}] /\ next[t] = NoTag
      /\ top \in Nat /\ age \in [Tags -> 0 .. top]
    BY <1>1 DEF Aged, Shape
<1>3. \A y \in Tags : age[y] \in 0 .. top /\ age[y] \in 0 .. top + 1 /\ age[y] < top + 1
    BY <1>2
<1>4. PICK new : new = [age EXCEPT ![t] = top + 1]
    OBVIOUS
<1>5. new[t] = top + 1 /\ \A y \in Tags : y # t => new[y] = age[y] /\ new[y] < new[t]
    BY <1>2, <1>3, <1>4
<1>6. new \in [Tags -> 0 .. top + 1]
    <2>1. top + 1 \in 0 .. top + 1
        BY <1>2
    <2>2. QED
        BY <1>2, <1>3, <1>4, <2>1
<1>7. ChainAged(new, next)
    <2>1. SUFFICES ASSUME NEW y \in Tags, next[y] # NoTag PROVE new[y] < new[next[y]]
        BY DEF ChainAged
    <2>2. y # t /\ next[y] \in Tags /\ age[y] < age[next[y]] /\ new[y] = age[y]
        BY <1>1, <1>2, <1>5, <2>1 DEF Aged, ChainAged
    <2>3. CASE next[y] = t
        BY <1>5, <2>2, <2>3
    <2>4. CASE next[y] # t
        BY <1>5, <2>2, <2>4
    <2>5. QED
        BY <2>3, <2>4
<1>8. Aged(new, top + 1, next)
    <2>1. top + 1 \in Nat
        BY <1>2
    <2>2. QED
        BY <1>6, <1>7, <2>1 DEF Aged
<1>9. \A y \in P : new[y] = age[y] /\ new[y] < new[t]
    BY <1>5
<1>10. Awaits(new, req, pm, ef, P, F)
    <2>1. \A y \in P \cap P : req[y] = req[y] /\ new[y] = age[y]
        BY <1>9
    <2>2. QED
        BY <1>1, <2>1, AwaitsSame
<1>11. TimelyBy(new, top + 1, s, P, F)
    BY <1>1, <1>8, <1>10 DEF TimelyBy
<1>12. QED
    BY <1>5, <1>11

(* It is the youngest. *)
LEMMA TimelyJoin ==
    ASSUME NEW s \in Shape, NEW t \in Tags, NEW r, r = s.req[t], NandReq(r),
           NEW P, P \subseteq Tags, t \notin P, s.nextBlocking[t] = NoTag,
           NEW F \in [Blocks -> States], NEW G, Timely(s, P, F), Follows(r, F, G),
           NEW go \in [Blocks -> Int],
           Pending(s.req, s.permitted, s.eraseFlag, P, go, F, FALSE),
           NEW d, Allowed(s, r), ReadFits(r, F, d), r.code = "READ" => ~s.eraseFlag[r.block],
           NEW v, v.req = s.req, v.permitted = s.permitted, v.nextBlocking = s.nextBlocking,
           r.code = "ERASE" => Flagged(s.eraseFlag, r.block, v.eraseFlag),
           r.code # "ERASE" => v.eraseFlag = s.eraseFlag
    PROVE  Timely(v, P \cup {t}, G)
<1>1. PICK age, top : TimelyBy(age, top, s, P, F) /\ \A y \in P : age[y] < age[t]
    <2>1. PICK age, top : TimelyBy(age, top, s, P, F) /\ \A y \in Tags \ {t} : age[y] < age[t]
        BY Youngest
    <2>2. \A y \in P : y \in Tags \ {t}
        OBVIOUS
    <2>3. QED
        BY <2>1, <2>2
<1>6. PICK pm, ef, req, new : /\ pm = s.permitted /\ ef = s.eraseFlag /\ req = s.req
                              /\ new = v.eraseFlag
    OBVIOUS
<1>7. /\ pm \in [Blocks -> Nat] /\ ef \in [Blocks -> BOOLEAN]
      /\ r = req[t] /\ r \in Requests /\ r.block \in Blocks /\ r.code \in FlashCodes
      /\ Pending(req, pm, ef, P, go, F, FALSE)
    BY <1>6, ShapeOrder DEF NandReq
<1>8. Full(req, pm, ef, P, F) /\ Awaits(age, req, pm, ef, P, F)
    BY <1>1, <1>6 DEF TimelyBy
<1>10. Awaits(age, req, pm, new, P \cup {t}, G) /\ Full(req, pm, new, P \cup {t}, G)
    <2>1. CASE r.code = "WRITE"
        <3>1. new = ef /\ (ef[r.block] => r.page < pm[r.block])
            BY <1>6, <2>1 DEF Allowed
        <3>2. QED
            BY <1>1, <1>7, <1>8, <2>1, <3>1, AwaitsWrite
    <2>2. CASE r.code = "ERASE"
        <3>1. Flagged(ef, r.block, new) /\ ~ef[r.block]
            BY <1>6, <2>2 DEF Allowed
        <3>2. QED
            BY <1>1, <1>7, <1>8, <2>2, <3>1, AwaitsErase
    <2>3. CASE r.code = "READ"
        <3>1. new = ef /\ ~ef[r.block] /\ G = F
            BY <1>6, <2>3 DEF Follows
        <3>2. r.cycle = F[r.block].cycle => r.page < F[r.block].pages
            BY <2>3 DEF ReadFits
        <3>3. F[r.block] \in States
            BY <1>7
        <3>4. QED
            BY <1>1, <1>7, <1>8, <2>3, <3>1, <3>2, <3>3, AwaitsRead
    <2>4. QED
        BY <1>7, <2>1, <2>2, <2>3 DEF FlashCodes
<1>11. TimelyBy(age, top, v, P \cup {t}, G)
    BY <1>1, <1>6, <1>10 DEF TimelyBy
<1>12. QED
    BY <1>11 DEF Timely

(* A request that is handed down is blocked at first. *)
LEMMA JoinBlocked ==
    ASSUME NEW s \in Shape, NEW t \in Tags, NEW r, r = s.req[t], NandReq(r),
           NEW P, P \subseteq Tags, t \notin P, s.nextBlocking[t] = NoTag,
           NEW F \in [Blocks -> States], NEW G, Follows(r, F, G),
           NEW fl, Ordered(s, P, F, FALSE, fl), NEW d, Allowed(s, r), ReadFits(r, F, d),
           r.code = "READ" => ~s.eraseFlag[r.block],
           NEW v, v = RowAddrBlock(s, t)
    PROVE  Ordered(v, P \cup {t}, G, d, fl) /\ G \in [Blocks -> States]
<1>1. PICK go : OrderedBy(go, s, P, F, FALSE, fl)
    BY DEF Ordered
<1>2. /\ go \in [Blocks -> Int] /\ Pending(s.req, s.permitted, s.eraseFlag, P, go, F, FALSE)
      /\ \A c \in Blocks :
             Trail(s.nandQ[WayOf[c]], s.req, c, fl[c], State(go[c], s.permitted[c]))
    BY <1>1 DEF OrderedBy
<1>3. /\ s.req \in [Tags -> Requests] /\ s.permitted \in [Blocks -> Nat]
      /\ s.eraseFlag \in [Blocks -> BOOLEAN] /\ r \in Requests
      /\ r.block \in Blocks /\ r.code \in FlashCodes
    BY ShapeOrder DEF NandReq
<1>4. /\ v.req = s.req /\ v.nandQ = s.nandQ /\ v.permitted = s.permitted
      /\ r.code = "ERASE" => Flagged(s.eraseFlag, r.block, v.eraseFlag)
      /\ r.code # "ERASE" => v.eraseFlag = s.eraseFlag
    BY BlockFields DEF SameQueues
<1>5. Pending(s.req, s.permitted, v.eraseFlag, P \cup {t}, go, G, d) /\ G \in [Blocks -> States]
    <2>1. CASE r.code = "WRITE"
        <3>1. s.eraseFlag[r.block] => r.page < s.permitted[r.block]
            BY <2>1 DEF Allowed
        <3>2. Pending(s.req, s.permitted, s.eraseFlag, P \cup {t}, go, G, d)
            BY <1>2, <1>3, <2>1, <3>1, PendingWrite
        <3>3. G \in [Blocks -> States]
            BY <1>3, FollowsStates
        <3>4. QED
            BY <1>4, <2>1, <3>2, <3>3
    <2>2. CASE r.code = "ERASE"
        <3>1. ~s.eraseFlag[r.block] /\ Flagged(s.eraseFlag, r.block, v.eraseFlag)
            BY <1>4, <2>2 DEF Allowed
        <3>2. Pending(s.req, s.permitted, v.eraseFlag, P \cup {t}, go, G, d)
            BY <1>2, <1>3, <2>2, <3>1, PendingErase
        <3>3. G \in [Blocks -> States]
            BY <1>3, FollowsStates
        <3>4. QED
            BY <3>2, <3>3
    <2>3. CASE r.code = "READ"
        <3>1. /\ r.code \notin {"WRITE", "ERASE"} /\ ~s.eraseFlag[r.block]
              /\ r.cycle = F[r.block].cycle \/ (d /\ F[r.block].pages = 0)
            BY <2>3 DEF ReadFits
        <3>2. Pending(s.req, s.permitted, s.eraseFlag, P \cup {t}, go, F, d)
            BY <1>2, <1>3, <3>1, PendingOther
        <3>3. G = F
            BY <3>1 DEF Follows
        <3>4. QED
            BY <1>4, <2>3, <3>2, <3>3
    <2>4. QED
        BY <1>3, <2>1, <2>2, <2>3 DEF FlashCodes
<1>6. Timely(v, P \cup {t}, G)
    <2>1. Timely(s, P, F)
        BY <1>1 DEF OrderedBy
    <2>2. v.nextBlocking = s.nextBlocking
        BY BlockFields DEF SameChains
    <2>3. QED
        BY <1>2, <1>4, <2>1, <2>2, TimelyJoin
<1>7. QED
    BY <1>2, <1>4, <1>5, <1>6 DEF Ordered, OrderedBy

(* Fewer requests, or the last of a call. *)
LEMMA OrderedLess ==
    ASSUME NEW s, NEW P, NEW F, NEW d, NEW fl, Ordered(s, P, F, d, fl),
           NEW Q, Q \subseteq P, NoFlash(s.req, P \ Q), NEW e, d => e
    PROVE  Ordered(s, Q, F, e, fl)
<1>1. PICK go : OrderedBy(go, s, P, F, d, fl)
    BY DEF Ordered
<1>2. Pending(s.req, s.permitted, s.eraseFlag, Q, go, F, e)
    BY <1>1, PendingLess DEF OrderedBy
<1>3. Timely(s, Q, F)
    <2>1. Timely(s, P, F) /\ NoFlash(s.req, Q \ P) /\ LinksCut(s, s)
        BY <1>1 DEF OrderedBy, NoFlash, LinksCut
    <2>2. QED
        BY <2>1, TimelySame
<1>4. QED
    BY <1>1, <1>2, <1>3 DEF Ordered, OrderedBy

(* The last of a call. *)
LEMMA OrderedLast ==
    ASSUME NEW s, NEW P, NEW F, NEW d, NEW fl, Ordered(s, P, F, d, fl), NEW e, d => e
    PROVE  Ordered(s, P, F, e, fl)
<1>1. NoFlash(s.req, P \ P)
    BY DEF NoFlash
<1>2. QED
    BY <1>1, OrderedLess

(* A block whose counter of blocked reads is zero has no blocked read. *)
LEMMA NoReadsLeft ==
    ASSUME NEW s, NEW wt, NEW at, NEW x, Sound(s, wt, at, x),
           NEW b \in Blocks, s.blockedReads[b] = 0
    PROVE  NoReads(s.req, Pend(s), b)
<1>1. Cardinality(ReadsOf(s.req, at, b)) = 0
    BY SoundFacts DEF ReadsCounted
<1>2. ReadsOf(s.req, at, b) \in SUBSET Tags
    BY DEF ReadsOf
<1>3. IsFiniteSet(ReadsOf(s.req, at, b))
    BY <1>2, SetCount
<1>4. ReadsOf(s.req, at, b) = {}
    BY <1>1, <1>3, FS_EmptySet
<1>5. QED
    BY <1>4, PendFact DEF NoReads, ReadsOf

(* A request that is handed down, when nothing of its entry is before it.  *)
LEMMA SelectByRowAddrOrdered ==
    ASSUME NEW s, NEW wt, NEW at, NEW x, Sound(s, wt, at, x),
           NEW t \in Tags, at[t] = "loose", s.nextBlocking[t] = NoTag, NEW r, r = s.req[t], NandReq(r),
           NEW F \in [Blocks -> States], NEW G, NEW d, Due(s, r, F, G, d),
           NEW fl, Ordered(s, Pend(s), F, FALSE, fl),
           NEW u, u = SelectByRowAddr(s, t)
    PROVE  Ordered(u, Pend(u), G, d, fl)
<1>1. /\ s \in Shape /\ t \notin Pend(s) /\ r \in Requests
      /\ r.block \in Blocks /\ r.code \in FlashCodes
      /\ Pend(s) \subseteq Tags
    BY SoundFacts, PendFact DEF NandReq
<1>2. PICK P : P = Pend(s) \cup {t}
    OBVIOUS
<1>3. PICK v : v = RowAddrBlock(s, t)
    OBVIOUS
<1>4. Ordered(v, P, G, d, fl)
    BY <1>1, <1>2, <1>3, JoinBlocked DEF Due
<1>5. G \in [Blocks -> States]
    BY <1>1, FollowsStates DEF Due
<1>6. /\ v \in Shape /\ v.req = s.req /\ SameQueues(s, v) /\ SameChains(s, v)
      /\ v.permitted = s.permitted
      /\ r.code = "ERASE" => Flagged(s.eraseFlag, r.block, v.eraseFlag)
      /\ r.code # "ERASE" => v.eraseFlag = s.eraseFlag
      /\ r.code # "READ" => v.blockedReads = s.blockedReads
    BY <1>1, <1>3, BlockFields
<1>7. CASE RowAddrPass(s, t)
    <2>1. PICK g : g = RowAddrGo(s, t)
        OBVIOUS
    <2>2. u = PutToNandReqQ(g, t)
        BY <1>7, <2>1 DEF SelectByRowAddr
    <2>3. g \in Shape
        BY <1>1, <1>7, <2>1, RowAddrGoFact
    <2>4. /\ Passed(s, u, t) /\ u.req = s.req /\ g.bufQ = s.bufQ /\ g.rowQ = s.rowQ
          /\ u.bufQ = g.bufQ /\ u.rowQ = g.rowQ
        BY <1>1, <2>1, <2>2, <2>3, PassedPut
    <2>5. Passed(v, u, t)
        <3>1. /\ v.nandQ = s.nandQ /\ v.req = s.req /\ v.permitted = s.permitted
              /\ v.nextBlocking = s.nextBlocking
            BY <1>6 DEF SameQueues, SameChains
        <3>2. r.code = "ERASE" => [v.eraseFlag EXCEPT ![r.block] = FALSE]
                                    = [s.eraseFlag EXCEPT ![r.block] = FALSE]
            BY <1>1, <1>6, ShapeOrder DEF Flagged
        <3>3. QED
            BY <1>6, <2>4, <3>1, <3>2 DEF Passed
    <2>6. RowAddrPass(v, t)
        BY <1>1, <1>6, <1>7 DEF RowAddrPass
    <2>7. r.code = "ERASE" => NoReads(v.req, P, r.block)
        <3>1. SUFFICES ASSUME r.code = "ERASE" PROVE NoReads(v.req, P, r.block)
            OBVIOUS
        <3>2. s.blockedReads[r.block] = 0
            BY <1>7, <3>1 DEF RowAddrPass
        <3>3. NoReads(s.req, Pend(s), r.block)
            BY <1>1, <3>2, NoReadsLeft
        <3>4. QED
            BY <1>2, <1>6, <3>1, <3>3 DEF NoReads
    <2>8. P \subseteq Tags /\ t \in P /\ NandReq(v.req[t]) /\ r = v.req[t] /\ u.req = v.req
        BY <1>1, <1>2, <1>6, <2>4
    <2>9. Ordered(u, P \ {t}, G, d, fl)
        BY <1>4, <1>5, <1>6, <2>5, <2>6, <2>7, <2>8, OrderedPass
    <2>10. Pend(u) = P \ {t}
        BY <1>1, <1>2, <2>4 DEF Pend
    <2>11. QED
        BY <2>9, <2>10
<1>8. CASE ~RowAddrPass(s, t)
    <2>1. u = PutToBlockedByRowAddrDepReqQ(v, t)
        BY <1>3, <1>8 DEF SelectByRowAddr
    <2>2. PICK w \in Ways : w = WayOf[v.req[t].block]
        BY <1>1, <1>6, WayOfFact
    <2>3. /\ SameOrder(v, u) /\ u.req = v.req /\ u.bufQ = v.bufQ
          /\ u.rowQ = [v.rowQ EXCEPT ![w] = Append(@, t)]
        <3>1. PICK q : q = [v.rowQ EXCEPT ![w] = Append(@, t)]
            OBVIOUS
        <3>2. u = [v EXCEPT !.rowQ = q, !.blocked = v.blocked + 1]
            BY <2>1, <2>2, <3>1 DEF PutToBlockedByRowAddrDepReqQ
        <3>3. QED
            BY <1>6, <3>1, <3>2 DEF Shape, SameOrder, LinksCut
    <2>4. Ordered(u, P, G, d, fl)
        BY <1>4, <1>6, <2>3, OrderedKept
    <2>5. Pend(u) = P
        <3>1. Pend(u) = Pend(v) \cup {t}
            <4>1. RowJoined(v, u, w, t)
                BY <2>3 DEF RowJoined
            <4>2. QED
                BY <1>6, <4>1, PendAppend
        <3>2. Pend(v) = Pend(s)
            BY <1>6 DEF Pend, SameQueues
        <3>3. QED
            BY <1>2, <3>1, <3>2
    <2>6. QED
        BY <2>4, <2>5
<1>9. QED
    BY <1>7, <1>8
-----------------------------------------------------------------------------

(* A blocked request that is no flash operation is not in the order. *)
LEMMA JoinOther ==
    ASSUME NEW s \in Shape, NEW t \in Tags, s.req[t].code \notin FlashCodes,
           NEW P, NEW F, NEW fl, Ordered(s, P, F, FALSE, fl), NEW d
    PROVE  Ordered(s, P \cup {t}, F, d, fl)
<1>1. PICK go : OrderedBy(go, s, P, F, FALSE, fl)
    BY DEF Ordered
<1>2. PICK r : r = s.req[t]
    OBVIOUS
<1>3. r \in Requests /\ r.code \notin {"WRITE", "ERASE"} /\ r.code # "READ"
    BY <1>2, ShapeOrder DEF FlashCodes
<1>4. Pending(s.req, s.permitted, s.eraseFlag, P, go, F, FALSE)
    BY <1>1 DEF OrderedBy
<1>5. Pending(s.req, s.permitted, s.eraseFlag, P \cup {t}, go, F, d)
    BY <1>2, <1>3, <1>4, PendingOther
<1>6. Timely(s, P \cup {t}, F)
    <2>1. Timely(s, P, F)
        BY <1>1 DEF OrderedBy
    <2>2. LinksCut(s, s) /\ NoFlash(s.req, P \ (P \cup {t})) /\ NoFlash(s.req, (P \cup {t}) \ P)
        BY DEF LinksCut, NoFlash
    <2>3. QED
        BY <2>1, <2>2, TimelySame
<1>7. QED
    BY <1>1, <1>5, <1>6 DEF Ordered, OrderedBy

(* A request that is handed down. *)
LEMMA SelectOrdered ==
    ASSUME NEW s, NEW wt, NEW at, NEW x, Sound(s, wt, at, x),
           NEW t \in Tags, at[t] = "loose", s.nextBlocking[t] = NoTag, NEW r, r = s.req[t],
           NEW F \in [Blocks -> States], NEW G, NEW d, Due(s, r, F, G, d),
           NEW fl, Ordered(s, Pend(s), F, FALSE, fl),
           NEW u, u = SelectLowLevelReqQ(s, t)
    PROVE  Ordered(u, Pend(u), G, d, fl)
<1>1. s \in Shape /\ Proper(r) /\ t \notin Pend(s) /\ Pend(s) \subseteq Tags
    BY SoundFacts, PendFact DEF Live
<1>2. /\ ~IsDma(r) => NandReq(r)
      /\ IsDma(r) => r.code \notin FlashCodes /\ r.code \notin {"WRITE", "ERASE"}
    BY <1>1 DEF Proper, IsDma, DmaCodes, FlashCodes
<1>3. CASE s.prevBlocking[t] = NoTag /\ IsDma(r)
    <2>1. u = PutToNvmeDmaReqQ(s, t)
        BY <1>3 DEF SelectLowLevelReqQ
    <2>2. SameOrder(s, u) /\ u.req = s.req /\ u.bufQ = s.bufQ /\ u.rowQ = s.rowQ
        BY <1>1, <2>1 DEF PutToNvmeDmaReqQ, Shape, SameOrder, LinksCut
    <2>3. Pend(u) = Pend(s) /\ G = F
        BY <1>2, <1>3, <2>2 DEF Pend, Follows, Due
    <2>4. Ordered(u, Pend(s), F, FALSE, fl)
        BY <1>1, <2>2, OrderedKept
    <2>5. QED
        BY <2>3, <2>4, OrderedLast
<1>4. CASE s.prevBlocking[t] = NoTag /\ ~IsDma(r)
    <2>1. u = SelectByRowAddr(s, t)
        BY <1>4 DEF SelectLowLevelReqQ
    <2>2. NandReq(r) /\ Sound(s, wt, at, x)
        BY <1>2, <1>4
    <2>3. QED
        BY <2>1, <2>2, SelectByRowAddrOrdered
<1>5. CASE s.prevBlocking[t] # NoTag
    <2>1. PICK v : v = RowAddrBlock(s, t)
        OBVIOUS
    <2>2. PICK P : P = Pend(s) \cup {t}
        OBVIOUS
    <2>3. /\ v \in Shape /\ v.req = s.req /\ v.bufQ = s.bufQ /\ v.rowQ = s.rowQ
          /\ Ordered(v, P, G, d, fl)
        <3>1. CASE IsDma(r)
            <4>1. v = s
                BY <1>2, <2>1, <3>1 DEF RowAddrBlock, FlashCodes
            <4>2. Ordered(s, P, F, d, fl)
                BY <1>1, <1>2, <2>2, <3>1, JoinOther
            <4>3. G = F
                BY <1>2, <3>1 DEF Follows, Due
            <4>4. QED
                BY <1>1, <4>1, <4>2, <4>3
        <3>2. CASE ~IsDma(r)
            <4>1. Ordered(v, P, G, d, fl)
                BY <1>1, <1>2, <2>1, <2>2, <3>2, JoinBlocked DEF Due
            <4>2. v \in Shape /\ v.req = s.req /\ SameQueues(s, v)
                BY <1>1, <1>2, <2>1, <3>2, BlockFields
            <4>3. QED
                BY <4>1, <4>2 DEF SameQueues
        <3>3. QED
            BY <3>1, <3>2
    <2>4. u = PutToBlockedByBufDepReqQ(v, t)
        BY <1>5, <2>1 DEF SelectLowLevelReqQ
    <2>5. /\ SameOrder(v, u) /\ u.req = v.req /\ u.rowQ = v.rowQ
          /\ u.bufQ = v.bufQ \cup {t}
        BY <2>3, <2>4 DEF PutToBlockedByBufDepReqQ, Shape, SameOrder, LinksCut
    <2>6. Ordered(u, P, G, d, fl)
        BY <2>3, <2>5, OrderedKept
    <2>7. Pend(u) = P
        BY <2>2, <2>3, <2>5 DEF Pend
    <2>8. QED
        BY <2>6, <2>7
<1>6. QED
    BY <1>3, <1>4, <1>5

(* A blocked request that the table lets go. *)
LEMMA LetGoOrdered ==
    ASSUME NEW s, NEW wt, NEW at, NEW x, Sound(s, wt, at, x), NEW F \in [Blocks -> States],
           NEW d, NEW fl, Ordered(s, Pend(s), F, d, fl),
           NEW t \in Pend(s), NandReq(s.req[t]), RowAddrPass(s, t),
           NEW u, u.req = s.req, Passed(s, u, t), Pend(u) = Pend(s) \ {t}
    PROVE  Ordered(u, Pend(u), F, d, fl)
<1>1. s \in Shape /\ Pend(s) \subseteq Tags
    BY SoundFacts, PendFact
<1>2. PICK r : r = s.req[t]
    OBVIOUS
<1>3. r.code = "ERASE" => NoReads(s.req, Pend(s), r.block)
    <2>1. SUFFICES ASSUME r.code = "ERASE" PROVE NoReads(s.req, Pend(s), r.block)
        OBVIOUS
    <2>2. s.blockedReads[r.block] = 0 /\ r.block \in Blocks
        BY <1>2, <2>1 DEF RowAddrPass, NandReq
    <2>3. QED
        BY <2>2, NoReadsLeft
<1>4. Ordered(u, Pend(s) \ {t}, F, d, fl)
    BY <1>1, <1>2, <1>3, OrderedPass
<1>5. QED
    BY <1>4

(* From u on: an erase is blocked if it was, and the table has gone on, and*)
(* the read that waits is the same.                                        *)
Since(old, s, wt) ==
    /\ \A b \in Blocks :
           s.eraseFlag[b] => old.eraseFlag[b] /\ old.permitted[b] <= s.permitted[b]
    /\ wt \in Tags => s.req[wt] = old.req[wt]

(* All blocked requests are in order, since the state old. *)
Turned(s, wt, F, d, fl, old) == Ordered(s, Pend(s), F, d, fl) /\ Since(old, s, wt)

(* A link leads both ways, a request that is blocked by one of its entry   *)
(* has one before it, and nothing comes after the read that waits.         *)
Linked(s, wt) ==
    /\ \A y \in Tags : s.prevBlocking[y] # NoTag =>
           s.prevBlocking[y] \in Tags /\ s.nextBlocking[s.prevBlocking[y]] = y
    /\ \A y \in s.bufQ : s.prevBlocking[y] # NoTag
    /\ wt \in Tags => s.nextBlocking[wt] = NoTag
InTurn(s, wt, F, d, fl, old) == Turned(s, wt, F, d, fl, old) /\ Linked(s, wt)

SameLinks(s, u) ==
    u.bufQ = s.bufQ /\ u.prevBlocking = s.prevBlocking /\ u.nextBlocking = s.nextBlocking
LEMMA LinkedSame ==
    ASSUME NEW s, NEW u, SameLinks(s, u), NEW wt, Linked(s, wt)
    PROVE  Linked(u, wt)
BY DEF SameLinks, Linked

(* Turned carries over a step that moves no flash operation.               *)
LEMMA TurnedSame ==
    ASSUME NEW s \in Shape, NEW u, SameOrder(s, u), u.req = s.req,
           NEW wt, NEW F, NEW d, NEW fl, NEW old, Turned(s, wt, F, d, fl, old),
           Pend(u) \subseteq Pend(s), NoFlash(s.req, Pend(s) \ Pend(u))
    PROVE  Turned(u, wt, F, d, fl, old)
<1>1. Ordered(s, Pend(s), F, d, fl) /\ Since(old, s, wt)
    BY DEF Turned
<1>2. Ordered(u, Pend(u), F, d, fl)
    <2>1. PICK P, Q : P = Pend(s) /\ Q = Pend(u)
        OBVIOUS
    <2>2. /\ Q \subseteq P /\ NoFlash(s.req, P \ Q) /\ Ordered(s, P, F, d, fl)
          /\ \A y \in Q : u.req[y] = s.req[y]
          /\ \A w \in Ways : \A y \in Range(s.nandQ[w]) : u.req[y] = s.req[y]
        BY <1>1, <2>1
    <2>3. Ordered(u, Q, F, d, fl)
        BY <2>2, OrderedSame
    <2>4. QED
        BY <2>1, <2>3
<1>3. Since(old, u, wt)
    BY <1>1 DEF Since, SameOrder
<1>4. QED
    BY <1>2, <1>3 DEF Turned

(* InTurn carries over a step that moves nothing the order is about. *)
LEMMA InTurnSame ==
    ASSUME NEW s \in Shape, NEW u, SameOrder(s, u), u.req = s.req, SameLinks(s, u),
           NEW wt, NEW F, NEW d, NEW fl, NEW old, InTurn(s, wt, F, d, fl, old),
           Pend(u) = Pend(s)
    PROVE  InTurn(u, wt, F, d, fl, old)
<1>1. NoFlash(s.req, Pend(s) \ Pend(u))
    BY DEF NoFlash
<1>2. Turned(u, wt, F, d, fl, old)
    BY <1>1, TurnedSame DEF InTurn
<1>3. QED
    BY <1>2, LinkedSame DEF InTurn

(* A request that is let go lets the table go on, or ends a blocked erase. *)
LEMMA PassedSince ==
    ASSUME NEW s \in Shape, NEW t \in Tags, NandReq(s.req[t]), NEW u, Passed(s, u, t)
    PROVE  \A b \in Blocks :
               u.eraseFlag[b] => s.eraseFlag[b] /\ s.permitted[b] <= u.permitted[b]
<1>1. SUFFICES ASSUME NEW b \in Blocks, u.eraseFlag[b]
               PROVE  s.eraseFlag[b] /\ s.permitted[b] <= u.permitted[b]
    OBVIOUS
<1>2. PICK r : r = s.req[t] /\ r.code \in FlashCodes /\ r.block \in Blocks
    BY DEF NandReq
<1>3. s.permitted \in [Blocks -> Nat] /\ s.eraseFlag \in [Blocks -> BOOLEAN]
    BY ShapeOrder
<1>4. CASE r.code = "READ"
    <2>1. u.permitted = s.permitted /\ u.eraseFlag = s.eraseFlag
        BY <1>2, <1>4 DEF Passed
    <2>2. QED
        BY <1>1, <1>3, <2>1
<1>5. CASE r.code = "WRITE"
    <2>1. u.permitted = [s.permitted EXCEPT ![r.block] = @ + 1] /\ u.eraseFlag = s.eraseFlag
        BY <1>2, <1>5 DEF Passed
    <2>2. u.permitted[b] = s.permitted[b] \/ u.permitted[b] = s.permitted[b] + 1
        BY <1>2, <1>3, <2>1
    <2>3. s.permitted[b] \in Nat
        BY <1>3
    <2>4. QED
        BY <1>1, <2>1, <2>2, <2>3
<1>6. CASE r.code = "ERASE"
    <2>1. /\ u.permitted = [s.permitted EXCEPT ![r.block] = 0]
          /\ u.eraseFlag = [s.eraseFlag EXCEPT ![r.block] = FALSE]
        BY <1>2, <1>6 DEF Passed
    <2>2. b # r.block
        BY <1>1, <1>2, <1>3, <2>1
    <2>3. s.permitted[b] \in Nat /\ u.permitted[b] = s.permitted[b]
          /\ u.eraseFlag[b] = s.eraseFlag[b]
        BY <1>2, <1>3, <2>1, <2>2
    <2>4. QED
        BY <1>1, <2>3
<1>7. QED
    BY <1>2, <1>4, <1>5, <1>6 DEF FlashCodes

(* Turned carries over the release of a blocked request by                 *)
(* CheckRowAddrDep.                                                        *)
LEMMA TurnedLetGo ==
    ASSUME NEW s, NEW wt, NEW at, NEW x, Sound(s, wt, at, x), NEW F \in [Blocks -> States],
           NEW d, NEW fl, NEW old \in Shape, Turned(s, wt, F, d, fl, old),
           NEW t \in Pend(s), NandReq(s.req[t]), RowAddrPass(s, t),
           NEW u \in Shape, u.req = s.req, Passed(s, u, t), Pend(u) = Pend(s) \ {t}
    PROVE  Turned(u, wt, F, d, fl, old)
<1>1. Ordered(s, Pend(s), F, d, fl) /\ Since(old, s, wt)
    BY DEF Turned
<1>2. s \in Shape /\ t \in Tags
    BY SoundFacts, PendFact
<1>3. Ordered(u, Pend(u), F, d, fl)
    BY <1>1, LetGoOrdered
<1>4. Since(old, u, wt)
    <2>1. \A b \in Blocks :
              u.eraseFlag[b] => s.eraseFlag[b] /\ s.permitted[b] <= u.permitted[b]
        BY <1>2, PassedSince
    <2>2. /\ s.permitted \in [Blocks -> Nat] /\ u.permitted \in [Blocks -> Nat]
          /\ old.permitted \in [Blocks -> Nat]
        BY <1>2, ShapeOrder
    <2>3. ASSUME NEW b \in Blocks, u.eraseFlag[b]
          PROVE  old.eraseFlag[b] /\ old.permitted[b] <= u.permitted[b]
        <3>1. /\ s.eraseFlag[b] /\ s.permitted[b] <= u.permitted[b]
              /\ old.eraseFlag[b] /\ old.permitted[b] <= s.permitted[b]
            BY <1>1, <2>1, <2>3 DEF Since
        <3>2. s.permitted[b] \in Nat /\ u.permitted[b] \in Nat /\ old.permitted[b] \in Nat
            BY <2>2
        <3>3. QED
            BY <3>1, <3>2
    <2>4. QED
        BY <1>1, <2>3 DEF Since
<1>5. QED
    BY <1>3, <1>4 DEF Turned

(* Queueing at a way keeps the types. *)
LEMMA PutNandShape ==
    ASSUME NEW s \in Shape, NEW t \in Tags, NandReq(s.req[t]), NEW u, u = PutToNandReqQ(s, t)
    PROVE  u \in Shape /\ SameChains(s, u)
<1>1. PICK w \in Ways : w = WayOf[s.req[t].block]
    BY WayOfFact DEF NandReq
<1>2. Step(s, u, t, "loose", "nand")
    BY <1>1, PutNandMoves
<1>3. QED
    BY <1>2 DEF Step

(* A request that was blocked behind another of its entry goes on. *)
GoesOn(s, out, u, t) ==
    /\ IsDma(s.req[t]) => u = PutToNvmeDmaReqQ(out, t)
    /\ ~IsDma(s.req[t]) => u = ReleaseByRowAddr(out, t)

LEMMA ReleaseBufOrdered ==
    ASSUME NEW s, NEW wt, NEW at, NEW x, Sound(s, wt, at, x), NEW F \in [Blocks -> States],
           NEW d, NEW fl, NEW old \in Shape, Turned(s, wt, F, d, fl, old),
           NEW t \in Tags, at[t] = "buf",
           NEW out, out = SelectiveGetFromBlockedByBufDepReqQ(s, t),
           NEW u, GoesOn(s, out, u, t)
    PROVE  /\ Turned(u, wt, F, d, fl, old)
           /\ u.bufQ = s.bufQ \ {t}
           /\ u.prevBlocking = s.prevBlocking /\ u.nextBlocking = s.nextBlocking
<1>1. s \in Shape /\ Proper(s.req[t]) /\ t \in Pend(s)
    BY SoundFacts, PendFact DEF Live
<1>2. ~IsDma(s.req[t]) => NandReq(s.req[t])
    BY <1>1 DEF Proper
<1>3. /\ out \in Shape /\ SameTable(s, out) /\ out.req = s.req /\ out.nandQ = s.nandQ
      /\ out.rowQ = s.rowQ /\ out.bufQ = s.bufQ \ {t} /\ SameChains(s, out)
    <2>1. s.bufQ \ {t} \in SUBSET Tags /\ s.blocked - 1 \in Int
        BY <1>1 DEF Shape
    <2>2. QED
        BY <1>1, <2>1 DEF SelectiveGetFromBlockedByBufDepReqQ, Shape, SameTable, SameChains
<1>4. \A w \in Ways : t \notin Range(s.rowQ[w])
    <2>1. \A w \in Ways : Range(s.rowQ[w]) = OnWay(s.req, at, "row", w)
        BY SoundFacts, CoreFacts DEF Lists
    <2>2. QED
        BY <2>1 DEF OnWay
<1>5. CASE IsDma(s.req[t])
    <2>1. u = PutToNvmeDmaReqQ(out, t)
        BY <1>5 DEF GoesOn
    <2>2. u.nandQ = out.nandQ /\ SameTable(out, u) /\ u.req = out.req
          /\ u.bufQ = out.bufQ /\ u.rowQ = out.rowQ /\ SameChains(out, u)
        BY <1>3, <2>1 DEF PutToNvmeDmaReqQ, Shape, SameTable, SameChains
    <2>3. SameOrder(s, u) /\ u.req = s.req /\ Pend(u) = Pend(s) \ {t}
        BY <1>3, <1>4, <2>2 DEF SameOrder, SameTable, SameChains, LinksCut, Pend
    <2>4. NoFlash(s.req, Pend(s) \ Pend(u))
        BY <1>5, <2>3 DEF NoFlash, IsDma, DmaCodes, FlashCodes
    <2>5. Turned(u, wt, F, d, fl, old)
        BY <1>1, <2>3, <2>4, TurnedSame
    <2>6. QED
        BY <1>3, <2>2, <2>5 DEF SameChains
<1>6. CASE ~IsDma(s.req[t]) /\ RowAddrPass(out, t)
    <2>1. PICK v : v = RowAddrRelease(out, t)
        OBVIOUS
    <2>2. u = PutToNandReqQ(v, t) /\ v \in Shape /\ SameChains(out, v)
        BY <1>2, <1>3, <1>6, <2>1, RowAddrReleaseFact DEF ReleaseByRowAddr, GoesOn
    <2>3. /\ Passed(out, u, t) /\ u.req = out.req /\ v.req = out.req /\ u.bufQ = out.bufQ /\ u.rowQ = out.rowQ
        BY <1>2, <1>3, <1>6, <2>1, <2>2, PassedPut
    <2>4. Passed(s, u, t)
        BY <1>3, <2>3 DEF Passed, SameTable, SameChains
    <2>5. RowAddrPass(s, t)
        BY <1>3, <1>6 DEF RowAddrPass, SameTable
    <2>6. Pend(u) = Pend(s) \ {t}
        BY <1>3, <1>4, <2>3 DEF Pend
    <2>7. u \in Shape /\ SameChains(v, u)
        <3>1. v \in Shape /\ NandReq(v.req[t])
            BY <1>2, <1>3, <1>6, <2>2, <2>3
        <3>2. QED
            BY <2>2, <3>1, PutNandShape
    <2>8. u.req = s.req /\ NandReq(s.req[t])
        BY <1>2, <1>3, <1>6, <2>3
    <2>9. Turned(u, wt, F, d, fl, old)
        BY <1>1, <2>4, <2>5, <2>6, <2>7, <2>8, TurnedLetGo
    <2>10. QED
        BY <1>3, <2>2, <2>3, <2>7, <2>9 DEF SameChains
<1>7. CASE ~IsDma(s.req[t]) /\ ~RowAddrPass(out, t)
    <2>1. u = PutToBlockedByRowAddrDepReqQ(out, t)
        BY <1>7 DEF ReleaseByRowAddr, GoesOn
    <2>2. PICK w \in Ways : w = WayOf[out.req[t].block]
        BY <1>2, <1>3, <1>7, WayOfFact DEF NandReq
    <2>3. /\ SameOrder(out, u) /\ u.req = out.req /\ u.bufQ = out.bufQ /\ SameChains(out, u)
          /\ u.rowQ = [out.rowQ EXCEPT ![w] = Append(@, t)]
        <3>1. PICK q : q = [out.rowQ EXCEPT ![w] = Append(@, t)]
            OBVIOUS
        <3>2. u = [out EXCEPT !.rowQ = q, !.blocked = out.blocked + 1]
            BY <2>1, <2>2, <3>1 DEF PutToBlockedByRowAddrDepReqQ
        <3>3. /\ u.req = out.req /\ u.bufQ = out.bufQ /\ u.rowQ = q /\ u.nandQ = out.nandQ
              /\ u.permitted = out.permitted /\ u.eraseFlag = out.eraseFlag /\ SameChains(out, u)
            BY <1>3, <3>2 DEF Shape, SameChains
        <3>4. QED
            BY <3>1, <3>3 DEF SameOrder, LinksCut, SameChains
    <2>4. SameOrder(s, u) /\ u.req = s.req
        BY <1>3, <2>3 DEF SameOrder, SameTable, SameChains, LinksCut
    <2>5. Pend(u) = Pend(s)
        <3>1. Pend(u) = Pend(out) \cup {t}
            <4>1. out \in Shape /\ RowJoined(out, u, w, t)
                BY <1>3, <2>3 DEF RowJoined
            <4>2. QED
                BY <4>1, PendAppend
        <3>2. Pend(out) = Pend(s) \ {t}
            BY <1>3, <1>4 DEF Pend
        <3>3. QED
            BY <1>1, <3>1, <3>2
    <2>6. NoFlash(s.req, Pend(s) \ Pend(u))
        BY <2>5 DEF NoFlash
    <2>7. Turned(u, wt, F, d, fl, old)
        BY <1>1, <2>4, <2>5, <2>6, TurnedSame
    <2>8. QED
        BY <1>3, <2>3, <2>7 DEF SameChains
<1>8. QED
    BY <1>5, <1>6, <1>7

(* A request that the table had blocked. *)
LEMMA ReleaseOrdered ==
    ASSUME NEW s, NEW wt, NEW at, NEW x, Sound(s, wt, at, x), NEW F \in [Blocks -> States],
           NEW d, NEW fl, NEW old \in Shape, InTurn(s, wt, F, d, fl, old),
           NEW t \in Tags, at[t] = "row", NEW u, u = Release(s, t)
    PROVE  InTurn(u, wt, F, d, fl, old)
<1>1. s \in Shape /\ NandReq(s.req[t]) /\ t \in Pend(s)
    BY SoundFacts, PendFact
<1>2. PICK w \in Ways : w = WayOf[s.req[t].block]
    BY <1>1, WayOfFact DEF NandReq
<1>3. CASE ~RowAddrPass(s, t)
    BY <1>3 DEF Release
<1>4. CASE RowAddrPass(s, t)
    <2>1. PICK v : v = RowAddrRelease(s, t)
        OBVIOUS
    <2>2. PICK g : g = SelectiveGetFromBlockedByRowAddrDepReqQ(v, t)
        OBVIOUS
    <2>3. u = PutToNandReqQ(g, t)
        BY <1>4, <2>1, <2>2 DEF Release
    <2>4. v \in Shape /\ v.req = s.req /\ SameQueues(s, v) /\ SameChains(s, v)
        BY <1>1, <1>4, <2>1, RowAddrReleaseFact
    <2>5. Lists(v.rowQ[w], OnWay(s.req, at, "row", w)) /\ t \in OnWay(s.req, at, "row", w)
        <3>1. Lists(s.rowQ[w], OnWay(s.req, at, "row", w))
            BY SoundFacts, CoreFacts
        <3>2. v.rowQ = s.rowQ
            BY <2>4 DEF SameQueues
        <3>3. QED
            BY <1>2, <3>1, <3>2 DEF OnWay
    <2>6. Step(v, g, t, "row", "loose")
        BY <1>1, <1>2, <2>2, <2>4, <2>5, GetRowMoves DEF Lists
    <2>7. /\ g \in Shape /\ g.req = v.req /\ SameTable(v, g) /\ Moves(v, g, t, "row", "loose")
          /\ SameChains(v, g)
        BY <2>6 DEF Step
    <2>8. g.nandQ = v.nandQ /\ g.bufQ = v.bufQ
        <3>1. PICK q : q = [v.rowQ EXCEPT ![WayOf[v.req[t].block]] = Without(@, t)]
            OBVIOUS
        <3>2. g = [v EXCEPT !.rowQ = q, !.blocked = v.blocked - 1]
            BY <2>2, <3>1 DEF SelectiveGetFromBlockedByRowAddrDepReqQ
        <3>3. QED
            BY <2>4, <3>2 DEF Shape
    <2>9. Passed(s, u, t) /\ u.req = s.req /\ u.bufQ = g.bufQ /\ u.rowQ = g.rowQ
        BY <1>1, <2>1, <2>3, <2>7, <2>8, PassedPut DEF SameTable, SameChains
    <2>10. Pend(u) = Pend(s) \ {t}
        <3>1. t \notin s.bufQ
            <4>1. s.bufQ = At(at, "buf")
                BY SoundFacts, CoreFacts
            <4>2. QED
                BY <4>1 DEF At
        <3>2. ASSUME NEW z \in Ways
              PROVE  Range(g.rowQ[z]) = Range(s.rowQ[z]) \ {t}
            <4>1. Range(s.rowQ[z]) = OnWay(s.req, at, "row", z)
                BY SoundFacts, CoreFacts DEF Lists
            <4>2. s.rowQ = v.rowQ /\ w = WayOf[v.req[t].block]
                BY <1>2, <2>4 DEF SameQueues
            <4>3. CASE z = w
                BY <2>7, <4>2, <4>3 DEF Moves, QueueMoves, Lists
            <4>4. CASE z # w
                <5>1. g.rowQ[z] = v.rowQ[z]
                    BY <2>7, <4>2, <4>4 DEF Moves
                <5>2. t \notin Range(s.rowQ[z])
                    BY <1>2, <4>1, <4>4 DEF OnWay
                <5>3. QED
                    BY <4>2, <5>1, <5>2
            <4>5. QED
                BY <4>3, <4>4
        <3>3. QED
            BY <2>4, <2>8, <2>9, <3>1, <3>2 DEF Pend, SameQueues
    <2>11. u \in Shape /\ SameChains(g, u)
        <3>1. g \in Shape /\ NandReq(g.req[t])
            BY <1>1, <2>4, <2>7
        <3>2. QED
            BY <2>3, <3>1, PutNandShape
    <2>12. Turned(u, wt, F, d, fl, old)
        BY <1>1, <1>4, <2>9, <2>10, <2>11, TurnedLetGo DEF InTurn
    <2>13. SameLinks(s, u)
        BY <2>4, <2>7, <2>8, <2>9, <2>11 DEF SameLinks, SameChains, SameQueues
    <2>14. QED
        BY <2>12, <2>13, LinkedSame DEF InTurn
<1>5. QED
    BY <1>3, <1>4
-----------------------------------------------------------------------------

(* The links of a chain after its head t has left it. *)
NextCut(s, c, t) ==
    /\ \A y \in Tags : c.prevBlocking[y] = IF y = s.nextBlocking[t] THEN NoTag ELSE s.prevBlocking[y]
    /\ \A y \in Tags : c.nextBlocking[y] = IF y = t THEN NoTag ELSE s.nextBlocking[y]

(* A request that leaves the chain of its entry: nothing else changes. *)
LEMMA CutOrder ==
    ASSUME NEW s, NEW wt, NEW at, NEW x, Sound(s, wt, at, x),
           NEW t \in Tags, at[t] = "loose", NEW c, c = Cut(s, t)
    PROVE  /\ SameOrder(s, c) /\ c.req = s.req /\ c.bufQ = s.bufQ /\ c.rowQ = s.rowQ
           /\ c \in Shape /\ NextCut(s, c, t)
<1>1. s \in Shape /\ Chained(s, at) /\ at \in [Tags -> Places]
    BY SoundFacts
<1>2. \A f \in Entries : s.tail[f] = t => s.req[t].entry = f
    BY <1>1, TagFact DEF Chained, TailsFit
<1>3. PICK f : f = [s EXCEPT !.free = @ \cup {t}]
    OBVIOUS
<1>4. PICK z : z = s.nextBlocking[t]
    OBVIOUS
<1>5. /\ c \in Shape /\ c.req = s.req /\ SameQueues(f, c) /\ SameTable(f, c)
      /\ \A y \in Tags : c.prevBlocking[y] = IF y = z THEN NoTag ELSE s.prevBlocking[y]
      /\ \A y \in Tags : c.nextBlocking[y] = IF y = t THEN NoTag ELSE s.nextBlocking[y]
    BY <1>1, <1>2, <1>3, <1>4, CutFields
<1>6. /\ f.nandQ = s.nandQ /\ f.bufQ = s.bufQ /\ f.rowQ = s.rowQ
      /\ f.permitted = s.permitted /\ f.eraseFlag = s.eraseFlag
    BY <1>1, <1>3 DEF Shape
<1>7. QED
    BY <1>4, <1>5, <1>6 DEF SameOrder, SameQueues, SameTable, NextCut, LinksCut

(* The chain that is left. *)
LEMMA LinkedNext ==
    ASSUME NEW s \in Shape, NEW wt, Linked(s, wt), NEW t \in Tags,
           NEW c, NextCut(s, c, t),
           NEW u, u.prevBlocking = c.prevBlocking, u.nextBlocking = c.nextBlocking,
           u.bufQ = s.bufQ \ {s.nextBlocking[t]}
    PROVE  Linked(u, wt)
<1>1. PICK z : z = s.nextBlocking[t]
    OBVIOUS
<1>2. /\ \A y \in Tags : u.prevBlocking[y] = IF y = z THEN NoTag ELSE s.prevBlocking[y]
      /\ \A y \in Tags : u.nextBlocking[y] = IF y = t THEN NoTag ELSE s.nextBlocking[y]
      /\ u.bufQ = s.bufQ \ {z}
    BY <1>1 DEF NextCut
<1>3. s.bufQ \in SUBSET Tags
    BY ShapeOrder
<1>4. ASSUME NEW y \in Tags, u.prevBlocking[y] # NoTag
      PROVE  u.prevBlocking[y] \in Tags /\ u.nextBlocking[u.prevBlocking[y]] = y
    <2>1. y # z /\ u.prevBlocking[y] = s.prevBlocking[y]
        BY <1>2, <1>4
    <2>2. s.prevBlocking[y] \in Tags /\ s.nextBlocking[s.prevBlocking[y]] = y
        BY <1>4, <2>1 DEF Linked
    <2>3. s.prevBlocking[y] # t
        BY <1>1, <2>1, <2>2
    <2>4. QED
        BY <1>2, <2>1, <2>2, <2>3
<1>5. ASSUME NEW y \in u.bufQ PROVE u.prevBlocking[y] # NoTag
    <2>1. y \in Tags /\ y \in s.bufQ /\ y # z
        BY <1>2, <1>3
    <2>2. QED
        BY <1>2, <2>1 DEF Linked
<1>6. wt \in Tags => u.nextBlocking[wt] = NoTag
    BY <1>2 DEF Linked
<1>7. QED
    BY <1>4, <1>5, <1>6 DEF Linked

(* The next of the chain is released. *)
LEMMA ReleaseNextOrdered ==
    ASSUME NEW s, NEW wt, NEW at, NEW x, Sound(s, wt, at, x),
           NEW t \in Tags, at[t] = "loose", s.prevBlocking[t] = NoTag,
           NEW F \in [Blocks -> States], NEW d, NEW fl, NEW old \in Shape, InTurn(s, wt, F, d, fl, old),
           NEW u, u = ReleaseBlockedByBufDepReq([s EXCEPT !.free = @ \cup {t}], t)
    PROVE  InTurn(u, wt, F, d, fl, old)
<1>1. PICK z : z = s.nextBlocking[t]
    OBVIOUS
<1>2. PICK c : c = Cut(s, t)
    OBVIOUS
<1>3. PICK b : b = Goes(at, t, "free")
    OBVIOUS
<1>4. /\ Sound(c, wt, b, x) /\ c.req = s.req
      /\ z # NoTag => z \in Tags /\ z # t
    BY <1>1, <1>2, <1>3, CutSound
<1>5. s \in Shape /\ SameOrder(s, c) /\ c.bufQ = s.bufQ /\ c.rowQ = s.rowQ /\ NextCut(s, c, t)
    BY <1>2, SoundFacts, CutOrder
<1>6. Pend(c) = Pend(s)
    BY <1>5 DEF Pend
<1>7. Turned(c, wt, F, d, fl, old) /\ Linked(s, wt)
    <2>1. NoFlash(s.req, Pend(s) \ Pend(c))
        BY <1>6 DEF NoFlash
    <2>2. QED
        BY <1>4, <1>5, <1>6, <2>1, TurnedSame DEF InTurn
<1>8. PICK f : f = [s EXCEPT !.free = @ \cup {t}]
    OBVIOUS
<1>9. f.nextBlocking[t] = z /\ f.req = s.req
    BY <1>1, <1>5, <1>8 DEF Shape
<1>10. c = ReleaseTail(CutOff(f, t), t)
    BY <1>2, <1>8 DEF Cut
<1>11. u = ReleaseBlockedByBufDepReq(f, t)
    BY <1>8
<1>12. c.bufQ = At(b, "buf") /\ NoTag \notin c.bufQ
    <2>1. Core(c, wt, b)
        BY <1>4, SoundFacts
    <2>2. c.bufQ = At(b, "buf")
        BY <2>1, CoreFacts
    <2>3. QED
        BY <2>2, TagFact DEF At
<1>13. CASE z = NoTag \/ z \notin c.bufQ
    <2>1. u = c
        BY <1>13, <1>9, <1>10, <1>11, <1>12, ReleaseNextFact
    <2>2. u.bufQ = s.bufQ \ {z}
        <3>1. u.bufQ = s.bufQ /\ z \notin s.bufQ
            BY <1>5, <1>12, <1>13, <2>1
        <3>2. QED
            BY <3>1
    <2>3. Linked(u, wt)
        BY <1>1, <1>5, <1>7, <2>1, <2>2, LinkedNext
    <2>4. QED
        BY <1>7, <2>1, <2>3 DEF InTurn
<1>14. CASE z # NoTag /\ z \in c.bufQ
    <2>1. PICK out : out = SelectiveGetFromBlockedByBufDepReqQ(c, z)
        OBVIOUS
    <2>2. u = IF IsDma(c.req[z]) THEN PutToNvmeDmaReqQ(out, z) ELSE ReleaseByRowAddr(out, z)
        BY <1>4, <1>14, <1>9, <1>10, <1>11, <1>12, <2>1, ReleaseNextFact
    <2>3. z \in Tags /\ b[z] = "buf"
        BY <1>14, <1>12 DEF At
    <2>4. /\ Turned(u, wt, F, d, fl, old) /\ u.bufQ = c.bufQ \ {z}
          /\ u.prevBlocking = c.prevBlocking /\ u.nextBlocking = c.nextBlocking
        <3>1. Sound(c, wt, b, x) /\ Turned(c, wt, F, d, fl, old)
            BY <1>4, <1>7
        <3>2. z \in Tags /\ b[z] = "buf"
            BY <2>3
        <3>3. QED
            <4>1. GoesOn(c, out, u, z)
                BY <2>2 DEF GoesOn
            <4>2. QED
                BY <2>1, <3>1, <3>2, <4>1, ReleaseBufOrdered, SMTT(30)
    <2>5. Linked(u, wt)
        BY <1>1, <1>5, <1>7, <2>4, LinkedNext
    <2>6. QED
        BY <2>4, <2>5 DEF InTurn
<1>15. QED
    BY <1>13, <1>14

(* A tag that is free gets another request, which is not looked at yet. *)
LEMMA SetReqOrdered ==
    ASSUME NEW s, NEW wt, NEW at, NEW x, Sound(s, wt, at, x), NEW t \in Tags,
           at[t] \in {"free", "held", "new"}, NEW r \in Requests,
           NEW F, NEW d, NEW fl, NEW old \in Shape, InTurn(s, wt, F, d, fl, old),
           NEW u, u = SetReq(s, t, r)
    PROVE  InTurn(u, wt, F, d, fl, old)
<1>1. s \in Shape /\ s.req \in [Tags -> Requests] /\ Pend(s) \subseteq Tags
    BY SoundFacts, PendFact, ShapeOrder
<1>2. t \notin Pend(s) /\ \A w \in Ways : t \notin Range(s.nandQ[w])
    BY PendFact
<1>3. PICK q : q = [s.req EXCEPT ![t] = r]
    OBVIOUS
<1>4. u = [s EXCEPT !.req = q]
    BY <1>3 DEF SetReq
<1>5. /\ SameOrder(s, u) /\ u.req = q /\ u.bufQ = s.bufQ /\ u.rowQ = s.rowQ
      /\ SameLinks(s, u)
    BY <1>1, <1>4 DEF SameOrder, LinksCut, SameLinks, Shape
<1>6. Pend(u) = Pend(s)
    BY <1>5 DEF Pend
<1>7. \A y \in Tags : y # t => u.req[y] = s.req[y]
    BY <1>1, <1>3, <1>5
<1>8. \A y \in Pend(s) : u.req[y] = s.req[y]
    BY <1>1, <1>2, <1>7
<1>9. \A w \in Ways : \A y \in Range(s.nandQ[w]) : u.req[y] = s.req[y]
    <2>1. \A w \in Ways : \A y \in Range(s.nandQ[w]) : y \in Tags
        BY PendFact
    <2>2. QED
        BY <1>2, <1>7, <2>1
<1>10. Ordered(s, Pend(s), F, d, fl) /\ Since(old, s, wt) /\ Linked(s, wt)
    BY DEF InTurn, Turned
<1>11. Ordered(u, Pend(u), F, d, fl)
    BY <1>1, <1>5, <1>6, <1>8, <1>9, <1>10, OrderedKept
<1>12. Since(old, u, wt)
    <2>1. wt \in Tags => at[wt] = "wait"
        <3>1. {wt} \ {NoTag} = At(at, "wait")
            BY SoundFacts, CoreFacts
        <3>2. QED
            BY <3>1, TagFact DEF At
    <2>2. wt \in Tags => u.req[wt] = s.req[wt]
        BY <1>7, <2>1
    <2>3. QED
        BY <1>5, <1>10, <2>2 DEF Since, SameOrder
<1>13. QED
    BY <1>5, <1>10, <1>11, <1>12, LinkedSame DEF InTurn, Turned

(* What is released when a request completes is released in order. *)
LEMMA CompleteOrdered ==
    ASSUME NEW s, NEW wt, NEW at, NEW x, Sound(s, wt, at, x),
           NEW t \in Tags, at[t] = "loose", s.prevBlocking[t] = NoTag,
           NEW F \in [Blocks -> States], NEW d, NEW fl, NEW old \in Shape, InTurn(s, wt, F, d, fl, old),
           NEW u, u = Complete(s, t)
    PROVE  InTurn(u, wt, F, d, fl, old)
<1>1. PICK v : v = ReleaseBlockedByBufDepReq([s EXCEPT !.free = @ \cup {t}], t)
    OBVIOUS
<1>2. InTurn(v, wt, F, d, fl, old)
    BY <1>1, ReleaseNextOrdered
<1>3. Ended(s, v, wt, at, x, t)
    BY <1>1, ReleaseNextSound
<1>4. PICK a : Sound(v, wt, a, x) /\ a[t] = "free"
    BY <1>3 DEF Ended
<1>5. PICK r \in Requests : r = NoReq
    BY NoReqFact
<1>6. u = SetReq(v, t, r)
    BY <1>1, <1>5 DEF Complete, SetReq
<1>7. QED
    BY <1>2, <1>4, <1>6, SetReqOrdered
-----------------------------------------------------------------------------

(* A transfer or a flash operation that has left its queue ends. *)
LEMMA LeaveOrdered ==
    ASSUME NEW s, NEW wt, NEW at, NEW x, Sound(s, wt, at, x),
           NEW t \in Tags, at[t] \in {"dma", "nand"},
           NEW v, Step(s, v, t, at[t], "loose"),
           NEW y, \A w \in Ways \ y : SeenAt(v, w),
           NEW F \in [Blocks -> States], NEW d, NEW fl, NEW old \in Shape, InTurn(v, wt, F, d, fl, old),
           NEW u, u = Complete(v, t)
    PROVE  InTurn(u, wt, F, d, fl, old)
<1>1. PICK b : Sound(v, wt, b, y) /\ b[t] = "loose" /\ v.prevBlocking[t] = NoTag
    BY LeftSound
<1>2. QED
    BY <1>1, CompleteOrdered

(* A transfer ends. *)
LEMMA DmaEndOrdered ==
    ASSUME NEW s, NEW wt, NEW at, NEW x, Sound(s, wt, at, x),
           NEW t \in Tags, at[t] = "dma",
           NEW F \in [Blocks -> States], NEW d, NEW fl, NEW old \in Shape, InTurn(s, wt, F, d, fl, old),
           NEW u, u = SelectiveGetFromNvmeDmaReqQ(s, t)
    PROVE  InTurn(u, wt, F, d, fl, old)
<1>1. PICK q : q = Without(s.dmaQ, t)
    OBVIOUS
<1>2. PICK v : v = [s EXCEPT !.dmaQ = q]
    OBVIOUS
<1>3. v = [s EXCEPT !.dmaQ = Without(@, t)]
    BY <1>1, <1>2
<1>4. Step(s, v, t, "dma", "loose") /\ \A w \in Ways \ x : SeenAt(v, w)
    BY <1>3, DmaLeft
<1>6. s \in Shape
    BY SoundFacts
<1>7. /\ SameOrder(s, v) /\ v.req = s.req /\ v.bufQ = s.bufQ /\ v.rowQ = s.rowQ
      /\ SameLinks(s, v)
    BY <1>2, <1>6 DEF SameOrder, LinksCut, SameLinks, Shape
<1>8. Pend(v) = Pend(s)
    BY <1>7 DEF Pend
<1>9. InTurn(v, wt, F, d, fl, old)
    BY <1>6, <1>7, <1>8, InTurnSame
<1>10. u = Complete(v, t)
    BY <1>3 DEF SelectiveGetFromNvmeDmaReqQ
<1>11. QED
    BY <1>4, <1>9, <1>10, LeaveOrdered

(* What request r does to the blocks. *)
Does(r, x, y) == y = [x EXCEPT ![r.block] = After(r, @)]

(* The request at the head of a way's queue has left it. *)
HeadGone(s, v, w) ==
    /\ s.nandQ[w] # <<>>
    /\ v.req = s.req /\ SameTable(s, v) /\ SameLinks(s, v)
    /\ v.nandQ = [s.nandQ EXCEPT ![w] = Tail(@)]

(* The request at the head of a way's queue fits its block. *)
LEMMA HeadFits ==
    ASSUME NEW s \in Shape, NEW w \in Ways, s.nandQ[w] # <<>>,
           NEW r, r = s.req[Head(s.nandQ[w])], r.block \in Blocks, WayOf[r.block] = w,
           NEW P, NEW F, NEW d, NEW fl, Ordered(s, P, F, d, fl)
    PROVE  Fits(r, fl[r.block])
<1>1. PICK go : OrderedBy(go, s, P, F, d, fl)
    BY DEF Ordered
<1>2. PICK q : q = s.nandQ[w]
    OBVIOUS
<1>3. q \in Seq(Tags) /\ q # <<>> /\ r = s.req[Head(q)]
    BY <1>2, ShapeOrder
<1>4. \A b \in Blocks :
          Trail(s.nandQ[WayOf[b]], s.req, b, fl[b], State(go[b], s.permitted[b]))
    BY <1>1 DEF OrderedBy
<1>5. Trail(q, s.req, r.block, fl[r.block], State(go[r.block], s.permitted[r.block]))
    BY <1>2, <1>4
<1>6. QED
    BY <1>3, <1>5, TrailTail

(* It is done. *)
LEMMA HeadLeftOrdered ==
    ASSUME NEW s \in Shape, NEW w \in Ways, NEW v, HeadGone(s, v, w),
           NEW t, t = Head(s.nandQ[w]), NEW r, r = s.req[t], r.block \in Blocks, WayOf[r.block] = w,
           NEW P, NEW F, NEW d, NEW fl \in [Blocks -> States], Ordered(s, P, F, d, fl),
           NEW gl, Does(r, fl, gl)
    PROVE  Ordered(v, P, F, d, gl)
<1>1. PICK go : OrderedBy(go, s, P, F, d, fl)
    BY DEF Ordered
<1>2. PICK q : q = s.nandQ[w]
    OBVIOUS
<1>3. /\ q \in Seq(Tags) /\ q # <<>> /\ r = s.req[Head(q)]
      /\ s.nandQ \in [Ways -> Seq(Tags)]
    BY <1>2, ShapeOrder DEF HeadGone
<1>4. /\ go \in [Blocks -> Int] /\ Pending(s.req, s.permitted, s.eraseFlag, P, go, F, d)
      /\ \A b \in Blocks :
             Trail(s.nandQ[WayOf[b]], s.req, b, fl[b], State(go[b], s.permitted[b]))
    BY <1>1 DEF OrderedBy
<1>7. ASSUME NEW b \in Blocks
      PROVE  Trail(v.nandQ[WayOf[b]], s.req, b, gl[b], State(go[b], s.permitted[b]))
    <2>1. CASE WayOf[b] # w
        <3>1. v.nandQ[WayOf[b]] = s.nandQ[WayOf[b]]
            BY <1>3, <2>1, WayOfFact DEF HeadGone
        <3>2. gl[b] = fl[b]
            BY <2>1 DEF Does
        <3>3. QED
            BY <1>4, <3>1, <3>2
    <2>2. CASE WayOf[b] = w
        <3>1. v.nandQ[WayOf[b]] = Tail(q)
            BY <1>2, <1>3, <2>2 DEF HeadGone
        <3>2. PICK y : y = State(go[b], s.permitted[b])
            OBVIOUS
        <3>3. Trail(q, s.req, b, fl[b], y)
            BY <1>2, <1>4, <2>2, <3>2
        <3>4. CASE r.block = b
            <4>1. Trail(Tail(q), s.req, b, After(r, fl[b]), y)
                BY <1>3, <3>3, <3>4, TrailTail
            <4>2. gl[b] = After(r, fl[b])
                BY <3>4 DEF Does
            <4>3. QED
                BY <3>1, <3>2, <4>1, <4>2
        <3>5. CASE r.block # b
            <4>1. Trail(Tail(q), s.req, b, fl[b], y)
                BY <1>3, <3>3, <3>5, TrailTail
            <4>2. gl[b] = fl[b]
                BY <3>5 DEF Does
            <4>3. QED
                BY <3>1, <3>2, <4>1, <4>2
        <3>6. QED
            BY <3>4, <3>5
    <2>3. QED
        BY <2>1, <2>2
<1>8. Timely(v, P, F)
    <2>1. Timely(s, P, F)
        BY <1>1 DEF OrderedBy
    <2>2. v.permitted = s.permitted /\ v.eraseFlag = s.eraseFlag /\ v.req = s.req
          /\ LinksCut(s, v)
        BY DEF HeadGone, SameTable, SameLinks, LinksCut
    <2>3. NoFlash(s.req, P \ P) /\ NoFlash(v.req, P \ P)
        BY DEF NoFlash
    <2>4. QED
        BY <2>1, <2>2, <2>3, TimelySame
<1>10. OrderedBy(go, v, P, F, d, gl)
    BY <1>4, <1>7, <1>8 DEF OrderedBy, SameTable, HeadGone
<1>9. QED
    BY <1>10 DEF Ordered

(* The operation a way completes fits its block on the flash, and what it  *)
(* releases is released in order.                                          *)
LEMMA HeadDoneOrdered ==
    ASSUME NEW s, NEW wt, NEW at, NEW x, Sound(s, wt, at, x),
           NEW w \in Ways, s.nandQ[w] # <<>>,
           NEW r, r = s.req[Head(s.nandQ[w])],
           NEW F \in [Blocks -> States], NEW d, NEW fl \in [Blocks -> States],
           NEW old \in Shape, InTurn(s, wt, F, d, fl, old),
           NEW gl, Does(r, fl, gl),
           NEW u, u = HeadDone(s, w)
    PROVE  /\ NandReq(r) /\ Fits(r, fl[r.block])
           /\ InTurn(u, wt, F, d, gl, old)
<1>1. PICK t : t = Head(s.nandQ[w])
    OBVIOUS
<1>2. PICK v : v = HeadLeft(s, w)
    OBVIOUS
<1>3. /\ t \in Tags /\ at[t] = "nand" /\ WayOf[s.req[t].block] = w
      /\ Step(s, v, t, "nand", "loose") /\ \A y \in Ways \ (x \cup {w}) : SeenAt(v, y)
    BY <1>1, <1>2, NandLeft
<1>4. PICK z : z = x \cup {w}
    OBVIOUS
<1>5. \A y \in Ways \ z : SeenAt(v, y)
    BY <1>3, <1>4
<1>7. s \in Shape /\ NandReq(r) /\ r = s.req[t]
    BY <1>1, <1>3, SoundFacts
<1>8. PICK q : q = [s.nandQ EXCEPT ![w] = Tail(@)]
    OBVIOUS
<1>9. v = [s EXCEPT !.nandQ = q, !.notCompleted = s.notCompleted - 1]
    BY <1>2, <1>8 DEF HeadLeft
<1>10. /\ v.req = s.req /\ v.nandQ = q /\ SameTable(s, v)
       /\ v.bufQ = s.bufQ /\ v.rowQ = s.rowQ /\ SameLinks(s, v)
    BY <1>7, <1>9 DEF Shape, SameTable, SameLinks
<1>11. Pend(v) = Pend(s)
    BY <1>10 DEF Pend
<1>12. r.block \in Blocks /\ WayOf[r.block] = w
    BY <1>3, <1>7 DEF NandReq
<1>13. Fits(r, fl[r.block]) /\ InTurn(v, wt, F, d, gl, old)
    <2>1. PICK P : P = Pend(s)
        OBVIOUS
    <2>2. Ordered(s, P, F, d, fl) /\ Since(old, s, wt) /\ Linked(s, wt)
        BY <2>1 DEF InTurn, Turned
    <2>3. HeadGone(s, v, w)
        BY <1>8, <1>10 DEF HeadGone
    <2>4. Fits(r, fl[r.block])
        BY <1>7, <1>12, <2>2, HeadFits
    <2>5. Ordered(v, P, F, d, gl)
        BY <1>1, <1>7, <1>12, <2>2, <2>3, HeadLeftOrdered
    <2>6. Since(old, v, wt)
        BY <1>10, <2>2 DEF Since, SameTable
    <2>7. QED
        BY <1>10, <1>11, <2>1, <2>2, <2>4, <2>5, <2>6, LinkedSame DEF InTurn, Turned
<1>14. u = Complete(v, t)
    BY <1>1, <1>2 DEF HeadDone
<1>15. InTurn(u, wt, F, d, gl, old)
    <2>1. at[t] \in {"dma", "nand"} /\ Step(s, v, t, at[t], "loose") /\ t \in Tags
        BY <1>3
    <2>2. PICK h : h = gl
        OBVIOUS
    <2>3. InTurn(v, wt, F, d, h, old)
        BY <1>13, <2>2
    <2>4. InTurn(u, wt, F, d, h, old)
        BY <1>5, <1>14, <2>1, <2>3, LeaveOrdered
    <2>5. QED
        BY <2>2, <2>4
<1>16. QED
    BY <1>7, <1>13, <1>15

(* The walks. *)
LEMMA ReleaseAllOrdered ==
    ASSUME NEW s, NEW wt, NEW at, NEW x, Sound(s, wt, at, x), NEW w \in Ways,
           NEW F \in [Blocks -> States], NEW d, NEW fl, NEW old \in Shape, InTurn(s, wt, F, d, fl, old),
           NEW u, u = ReleaseBlockedByRowAddrDepReq(s, w)
    PROVE  InTurn(u, wt, F, d, fl, old)
<1>1. s \in Shape /\ Core(s, wt, at)
    BY SoundFacts
<1>2. PICK q : q = s.rowQ[w]
    OBVIOUS
<1>3. q \in Seq(Tags) /\ Lists(q, OnWay(s.req, at, "row", w))
    BY <1>1, <1>2, CoreFacts DEF Shape
<1>4. PICK n \in Nat : n = Len(q)
    BY <1>3
<1>5. /\ DOMAIN q = 1 .. n /\ Once(q)
      /\ \A j \in 1 .. n : q[j] \in Tags /\ at[q[j]] = "row" /\ WayOf[s.req[q[j]].block] = w
    BY <1>3, <1>4 DEF Lists, Range, OnWay
<1>6. PICK f : /\ f[0] = s
               /\ \A k \in 1 .. n : f[k] = Release(f[k - 1], q[k])
               /\ f[n] = u
    <2>1. PICK f : /\ f[0] = s
                   /\ \A k \in 1 .. Len(q) : f[k] = Release(f[k - 1], q[k])
                   /\ f[Len(q)] = FoldLeft(Release, s, q)
        BY <1>3, ReleasePath
    <2>2. u = FoldLeft(Release, s, q)
        BY <1>2 DEF ReleaseBlockedByRowAddrDepReq
    <2>3. QED
        BY <1>4, <2>1, <2>2
<1> DEFINE K == {k \in 0 .. n : /\ ReleasedUpTo(s, f[k], wt, at, x, w, q, k)
                                /\ InTurn(f[k], wt, F, d, fl, old)}
<1>7. 0 \in K
    <2>1. 0 \in 0 .. n /\ 0 + 1 .. n = 1 .. n /\ 1 .. 0 = {}
        OBVIOUS
    <2>2. ReleasedUpTo(s, f[0], wt, at, x, w, q, 0)
        BY <1>4, <1>5, <1>6, <2>1 DEF ReleasedUpTo
    <2>3. QED
        BY <1>6, <2>1, <2>2
<1>8. ASSUME NEW k \in 0 .. n, k # n, ReleasedUpTo(s, f[k], wt, at, x, w, q, k),
             InTurn(f[k], wt, F, d, fl, old)
      PROVE  /\ k + 1 \in 0 .. n /\ ReleasedUpTo(s, f[k + 1], wt, at, x, w, q, k + 1)
             /\ InTurn(f[k + 1], wt, F, d, fl, old)
    <2>1. k \in Nat /\ k + 1 \in 1 .. n /\ k + 1 \in 0 .. n /\ (k + 1) - 1 = k
          /\ k + 1 \in k + 1 .. n
        BY <1>8
    <2>2. f[k + 1] = Release(f[k], q[k + 1])
        BY <1>6, <2>1
    <2>3. ReleasedUpTo(s, f[k + 1], wt, at, x, w, q, k + 1)
        BY <1>3, <1>4, <1>5, <1>8, <2>1, <2>2, ReleaseOneMore
    <2>4. PICK a : Sound(f[k], wt, a, x) /\ a[q[k + 1]] = "row"
        BY <1>4, <1>8, <2>1 DEF ReleasedUpTo
    <2>5. PICK t \in Tags : t = q[k + 1]
        BY <1>5, <2>1
    <2>6. PICK v, z : v = f[k] /\ z = f[k + 1]
        OBVIOUS
    <2>7. InTurn(z, wt, F, d, fl, old)
        BY <1>8, <2>2, <2>4, <2>5, <2>6, ReleaseOrdered
    <2>8. QED
        BY <2>1, <2>3, <2>6, <2>7
<1>9. n \in K
    <2>1. \A k \in 0 .. n : k # n /\ k \in K => k + 1 \in K
        BY <1>8
    <2> HIDE DEF K
    <2>2. \A k \in 0 .. n : k \in K
        BY <1>7, <2>1, UpTo
    <2>3. QED
        BY <2>2
<1>10. QED
    BY <1>6, <1>9

(* A walk over the DMA queue releases in order. *)
LEMMA WalkAllOrdered ==
    ASSUME NEW s, NEW wt, NEW at, NEW x, Sound(s, wt, at, x), NEW done,
           NEW q \in Seq(Tags), Once(q), \A j \in 1 .. Len(q) : at[q[j]] = "dma",
           NEW F \in [Blocks -> States], NEW d, NEW fl, NEW old \in Shape, InTurn(s, wt, F, d, fl, old),
           NEW u, u = FoldLeft(WalkDma, [sched |-> s, done |-> done], q).sched
    PROVE  InTurn(u, wt, F, d, fl, old)
<1>1. PICK n \in Nat : n = Len(q)
    OBVIOUS
<1>2. PICK f : /\ f[0] = [sched |-> s, done |-> done]
               /\ \A k \in 1 .. n : f[k] = WalkDma(f[k - 1], q[k])
               /\ f[n].sched = u
    <2>1. PICK c : c = [sched |-> s, done |-> done]
        OBVIOUS
    <2>2. PICK f : /\ f[0] = c
                   /\ \A k \in 1 .. Len(q) : f[k] = WalkDma(f[k - 1], q[k])
                   /\ f[Len(q)] = FoldLeft(WalkDma, c, q)
        BY WalkPath
    <2>3. u = f[n].sched
        BY <1>1, <2>1, <2>2
    <2>4. QED
        BY <1>1, <2>1, <2>2, <2>3
<1>3. PICK g : g = [k \in 0 .. n |-> f[k].sched]
    OBVIOUS
<1> DEFINE K == {k \in 0 .. n : /\ f[k] = [sched |-> g[k], done |-> done]
                                /\ WalkedUpTo(s, g[k], wt, at, x, q, k)
                                /\ InTurn(g[k], wt, F, d, fl, old)}
<1>4. 0 \in K
    <2>1. 0 \in 0 .. n /\ 0 + 1 .. n = 1 .. n
        OBVIOUS
    <2>2. g[0] = s /\ f[0] = [sched |-> g[0], done |-> done]
        BY <1>2, <1>3, <2>1
    <2>3. Onward(at, at)
        BY DEF Onward
    <2>4. WalkedUpTo(s, s, wt, at, x, q, 0)
        BY <1>1, <2>1, <2>3 DEF WalkedUpTo
    <2>5. QED
        BY <2>1, <2>2, <2>4
<1>5. ASSUME NEW k \in 0 .. n, k # n, f[k] = [sched |-> g[k], done |-> done],
             WalkedUpTo(s, g[k], wt, at, x, q, k), InTurn(g[k], wt, F, d, fl, old)
      PROVE  /\ k + 1 \in 0 .. n /\ f[k + 1] = [sched |-> g[k + 1], done |-> done]
             /\ WalkedUpTo(s, g[k + 1], wt, at, x, q, k + 1)
             /\ InTurn(g[k + 1], wt, F, d, fl, old)
    <2>1. k \in Nat /\ k + 1 \in 1 .. n /\ k + 1 \in 0 .. n /\ (k + 1) - 1 = k
          /\ k + 1 \in k + 1 .. n
        BY <1>5
    <2>2. f[k + 1] = WalkDma([sched |-> g[k], done |-> done], q[k + 1])
        BY <1>2, <1>5, <2>1
    <2>3. /\ f[k + 1] = [sched |-> f[k + 1].sched, done |-> done]
          /\ WalkedUpTo(s, f[k + 1].sched, wt, at, x, q, k + 1)
        BY <1>1, <1>5, <2>1, <2>2, WalkOneMore
    <2>4. PICK v, z : v = g[k] /\ z = g[k + 1] /\ z = f[k + 1].sched
        BY <1>3, <2>1
    <2>5. PICK t \in Tags : t = q[k + 1]
        BY <1>1, <2>1
    <2>6. PICK a : Sound(v, wt, a, x) /\ a[t] = "dma"
        BY <1>1, <1>5, <2>1, <2>4, <2>5 DEF WalkedUpTo
    <2>7. z = IF t \in done THEN SelectiveGetFromNvmeDmaReqQ(v, t) ELSE v
        <3>1. PICK c : c = SelectiveGetFromNvmeDmaReqQ(v, t)
            OBVIOUS
        <3>2. PICK o : o = WalkDma([sched |-> v, done |-> done], t)
            OBVIOUS
        <3>3. t \in done => o = [sched |-> c, done |-> done]
            BY <3>1, <3>2 DEF WalkDma
        <3>4. t \notin done => o = [sched |-> v, done |-> done]
            BY <3>2 DEF WalkDma
        <3>5. z = o.sched
            BY <2>2, <2>4, <2>5, <3>2
        <3>6. QED
            BY <3>1, <3>3, <3>4, <3>5
    <2>8. InTurn(z, wt, F, d, fl, old)
        <3>1. CASE t \in done
            <4>1. z = SelectiveGetFromNvmeDmaReqQ(v, t) /\ InTurn(v, wt, F, d, fl, old)
                BY <1>5, <2>4, <2>7, <3>1
            <4>2. QED
                BY <2>6, <4>1, DmaEndOrdered
        <3>2. CASE t \notin done
            BY <1>5, <2>4, <2>7, <3>2
        <3>3. QED
            BY <3>1, <3>2
    <2>9. QED
        BY <2>1, <2>3, <2>4, <2>8
<1>6. n \in K
    <2>1. \A k \in 0 .. n : k # n /\ k \in K => k + 1 \in K
        BY <1>5
    <2> HIDE DEF K
    <2>2. \A k \in 0 .. n : k \in K
        BY <1>4, <2>1, UpTo
    <2>3. QED
        BY <2>2
<1>7. g[n] = u
    BY <1>2, <1>3
<1>8. QED
    BY <1>6, <1>7
-----------------------------------------------------------------------------

(* What handing down request r does to the table: a later request may      *)
(* still be handed down.                                                   *)
Further(s, u, r) ==
    \A b \in Blocks : u.eraseFlag[b] =>
        \/ s.eraseFlag[b] /\ s.permitted[b] <= u.permitted[b]
        \/ r.code = "ERASE" /\ b = r.block

(* Handing down without letting go takes no block further. *)
LEMMA FurtherSame ==
    ASSUME NEW s \in Shape, NEW u, NEW r, u.permitted = s.permitted, u.eraseFlag = s.eraseFlag
    PROVE  Further(s, u, r)
<1>1. s.permitted \in [Blocks -> Nat]
    BY ShapeOrder
<1>2. \A b \in Blocks : s.permitted[b] <= s.permitted[b]
    <2>1. \A n \in Nat : n <= n
        OBVIOUS
    <2>2. QED
        BY <1>1, <2>1
<1>3. QED
    BY <1>2 DEF Further

(* SelectLowLevelReqQ takes no block but that of its request further. *)
LEMMA SelectFurther ==
    ASSUME NEW s, NEW wt, NEW at, NEW x, Sound(s, wt, at, x),
           NEW t \in Tags, at[t] = "loose", NEW r, r = s.req[t],
           NEW u, u = SelectLowLevelReqQ(s, t)
    PROVE  Further(s, u, r)
<1>1. s \in Shape /\ Proper(r)
    BY SoundFacts DEF Live
<1>2. /\ ~IsDma(r) => NandReq(r)
      /\ IsDma(r) => r.code \notin FlashCodes
    BY <1>1 DEF Proper, IsDma, DmaCodes, FlashCodes
<1>3. CASE s.prevBlocking[t] = NoTag /\ IsDma(r)
    <2>1. u = PutToNvmeDmaReqQ(s, t)
        BY <1>3 DEF SelectLowLevelReqQ
    <2>2. u.permitted = s.permitted /\ u.eraseFlag = s.eraseFlag
        BY <1>1, <2>1 DEF PutToNvmeDmaReqQ, Shape
    <2>3. QED
        BY <1>1, <2>2, FurtherSame
<1>4. CASE s.prevBlocking[t] = NoTag /\ ~IsDma(r) /\ RowAddrPass(s, t)
    <2>1. PICK g : g = RowAddrGo(s, t)
        OBVIOUS
    <2>2. u = PutToNandReqQ(g, t)
        BY <1>4, <2>1 DEF SelectLowLevelReqQ, SelectByRowAddr
    <2>3. g \in Shape
        BY <1>1, <1>2, <1>4, <2>1, RowAddrGoFact
    <2>4. /\ Passed(s, u, t) /\ u.req = s.req /\ g.bufQ = s.bufQ /\ g.rowQ = s.rowQ
          /\ u.bufQ = g.bufQ /\ u.rowQ = g.rowQ
        BY <1>1, <1>2, <1>4, <2>1, <2>2, <2>3, PassedPut
    <2>5. \A b \in Blocks :
              u.eraseFlag[b] => s.eraseFlag[b] /\ s.permitted[b] <= u.permitted[b]
        BY <1>1, <1>2, <1>4, <2>4, PassedSince
    <2>6. QED
        BY <2>5 DEF Further
<1>5. CASE s.prevBlocking[t] # NoTag \/ (~IsDma(r) /\ ~RowAddrPass(s, t))
    <2>1. PICK v : v = RowAddrBlock(s, t)
        OBVIOUS
    <2>2. /\ v.permitted = s.permitted
          /\ r.code = "ERASE" => Flagged(s.eraseFlag, r.block, v.eraseFlag)
          /\ r.code # "ERASE" => v.eraseFlag = s.eraseFlag
          /\ v \in Shape
        <3>1. CASE IsDma(r)
            BY <1>1, <1>2, <2>1, <3>1 DEF RowAddrBlock, FlashCodes
        <3>2. CASE ~IsDma(r)
            BY <1>1, <1>2, <2>1, <3>2, BlockFields
        <3>3. QED
            BY <3>1, <3>2
    <2>3. u.permitted = v.permitted /\ u.eraseFlag = v.eraseFlag
        <3>1. CASE s.prevBlocking[t] # NoTag
            <4>1. u = PutToBlockedByBufDepReqQ(v, t)
                BY <2>1, <3>1 DEF SelectLowLevelReqQ
            <4>2. QED
                BY <2>2, <4>1 DEF PutToBlockedByBufDepReqQ, Shape
        <3>2. CASE s.prevBlocking[t] = NoTag
            <4>1. u = PutToBlockedByRowAddrDepReqQ(v, t)
                BY <1>5, <2>1, <3>2 DEF SelectLowLevelReqQ, SelectByRowAddr
            <4>2. PICK q : q = [v.rowQ EXCEPT ![WayOf[v.req[t].block]] = Append(@, t)]
                OBVIOUS
            <4>3. u = [v EXCEPT !.rowQ = q, !.blocked = v.blocked + 1]
                BY <4>1, <4>2 DEF PutToBlockedByRowAddrDepReqQ
            <4>4. QED
                BY <2>2, <4>3 DEF Shape
        <3>3. QED
            BY <3>1, <3>2
    <2>4. CASE r.code = "ERASE"
        <3>1. Flagged(s.eraseFlag, r.block, u.eraseFlag) /\ u.permitted = s.permitted
            BY <2>2, <2>3, <2>4
        <3>2. s.permitted \in [Blocks -> Nat] /\ s.eraseFlag \in [Blocks -> BOOLEAN]
            BY <1>1, ShapeOrder
        <3>3. \A b \in Blocks : b # r.block => u.eraseFlag[b] = s.eraseFlag[b]
            BY <3>1, <3>2 DEF Flagged
        <3>4. \A b \in Blocks : s.permitted[b] <= u.permitted[b]
            <4>1. \A n \in Nat : n <= n
                OBVIOUS
            <4>2. QED
                BY <3>1, <3>2, <4>1
        <3>5. QED
            BY <2>4, <3>3, <3>4 DEF Further
    <2>5. CASE r.code # "ERASE"
        BY <1>1, <2>2, <2>3, <2>5, FurtherSame
    <2>6. QED
        BY <2>4, <2>5
<1>6. QED
    BY <1>3, <1>4, <1>5

(* What may be handed down still may after a request for another block. *)
LEMMA AllowedFurther ==
    ASSUME NEW s \in Shape, NEW u \in Shape, NEW r, Further(s, u, r),
           NEW q \in Requests, Allowed(s, q),
           q.code \in {"WRITE", "ERASE"} => q.block \in Blocks,
           r.code = "ERASE" /\ q.code \in {"WRITE", "ERASE"} => q.block # r.block
    PROVE  Allowed(u, q)
<1>1. s.permitted \in [Blocks -> Nat] /\ u.permitted \in [Blocks -> Nat]
    BY ShapeOrder
<1>2. CASE q.code = "WRITE"
    <2>1. SUFFICES ASSUME u.eraseFlag[q.block] PROVE q.page < u.permitted[q.block]
        BY <1>2 DEF Allowed
    <2>2. s.eraseFlag[q.block] /\ s.permitted[q.block] <= u.permitted[q.block]
        BY <1>2, <2>1 DEF Further
    <2>3. q.page < s.permitted[q.block]
        BY <1>2, <2>2 DEF Allowed
    <2>4. q.page \in Nat /\ s.permitted[q.block] \in Nat /\ u.permitted[q.block] \in Nat
        BY <1>1, <1>2 DEF Requests
    <2>5. QED
        BY <2>2, <2>3, <2>4
<1>3. CASE q.code = "ERASE"
    BY <1>3 DEF Allowed, Further
<1>4. CASE q.code \notin {"WRITE", "ERASE"}
    BY <1>4 DEF Allowed
<1>5. QED
    BY <1>2, <1>3, <1>4
-----------------------------------------------------------------------------
(* Handing down *)

(* The read that waits for an erase. *)
WaitOK(s, wt, F, d) == wt # NoTag => s.req[wt].code = "READ" /\ ReadFits(s.req[wt], F, d)

(* A request gets its tag: the table and the queues stay. *)
LEMMA TakeTable ==
    ASSUME NEW s \in Shape, NEW r, NEW t, t = TagFor(s, r), NEW u, u = Take(s, r)
    PROVE  /\ SameOrder(s, u) /\ u.rowQ = s.rowQ /\ SameLinks(s, u)
           /\ u.req = [s.req EXCEPT ![t] = r]
<1>1. PICK q, h, f : q = [s.req EXCEPT ![t] = r] /\ h = Front(s.held) /\ f = s.free \ {t}
    OBVIOUS
<1>2. u = IF HasTag(r) THEN [s EXCEPT !.held = h, !.req = q] ELSE [s EXCEPT !.free = f, !.req = q]
    BY <1>1 DEF Take
<1>3. CASE HasTag(r)
    <2>1. u = [s EXCEPT !.held = h, !.req = q]
        BY <1>2, <1>3
    <2>2. QED
        BY <1>1, <2>1 DEF SameOrder, LinksCut, SameLinks, Shape
<1>4. CASE ~HasTag(r)
    <2>1. u = [s EXCEPT !.free = f, !.req = q]
        BY <1>2, <1>4
    <2>2. QED
        BY <1>1, <2>1 DEF SameOrder, LinksCut, SameLinks, Shape
<1>5. QED
    BY <1>3, <1>4

(* No blocked request is another. *)
LEMMA TakeOrdered ==
    ASSUME NEW s, NEW wt, NEW at, NEW x, Sound(s, wt, at, x), NEW t \in Tags,
           at[t] \in {"free", "held"}, NEW r, t = TagFor(s, r),
           NEW F, NEW d, NEW fl, Ordered(s, Pend(s), F, d, fl),
           NEW u, u = Take(s, r)
    PROVE  Ordered(u, Pend(u), F, d, fl)
<1>1. s \in Shape /\ s.req \in [Tags -> Requests] /\ Pend(s) \subseteq Tags
    BY SoundFacts, PendFact, ShapeOrder
<1>2. t \notin Pend(s) /\ \A w \in Ways : t \notin Range(s.nandQ[w])
    BY PendFact
<1>3. /\ SameOrder(s, u) /\ u.bufQ = s.bufQ /\ u.rowQ = s.rowQ
      /\ u.req = [s.req EXCEPT ![t] = r]
    BY <1>1, TakeTable DEF SameLinks
<1>4. Pend(u) = Pend(s)
    BY <1>3 DEF Pend
<1>5. \A y \in Tags : y # t => u.req[y] = s.req[y]
    BY <1>1, <1>3
<1>6. \A y \in Pend(s) : u.req[y] = s.req[y]
    BY <1>1, <1>2, <1>5
<1>7. \A w \in Ways : \A y \in Range(s.nandQ[w]) : u.req[y] = s.req[y]
    <2>1. \A w \in Ways : \A y \in Range(s.nandQ[w]) : y \in Tags
        BY PendFact
    <2>2. QED
        BY <1>2, <1>5, <2>1
<1>8. PICK P : P = Pend(s)
    OBVIOUS
<1>9. Ordered(s, P, F, d, fl) /\ \A y \in P : u.req[y] = s.req[y]
    BY <1>6, <1>8
<1>10. Ordered(u, P, F, d, fl)
    <2>1. s \in Shape /\ SameOrder(s, u)
        BY <1>1, <1>3
    <2>2. QED
        BY <1>7, <1>9, <2>1, OrderedKept
<1>11. QED
    BY <1>4, <1>8, <1>10
-----------------------------------------------------------------------------

(* The blocked requests, the table and the queues of the ways stay.        *)
Keeps(s, u) ==
    /\ u.nandQ = s.nandQ /\ u.permitted = s.permitted /\ u.eraseFlag = s.eraseFlag
    /\ Pend(u) = Pend(s) /\ u \in Shape /\ u.req = s.req

(* The order only looks at what Keeps keeps, and at the links. *)
LEMMA KeepsOrdered ==
    ASSUME NEW s \in Shape, NEW u, Keeps(s, u),
           NEW F, NEW d, NEW fl, Ordered(s, Pend(s), F, d, fl),
           Timely(s, Pend(s), F) => Timely(u, Pend(s), F)
    PROVE  Ordered(u, Pend(u), F, d, fl)
<1>1. PICK P : P = Pend(s) /\ P = Pend(u)
    BY DEF Keeps
<1>2. PICK go : OrderedBy(go, s, P, F, d, fl)
    BY <1>1 DEF Ordered
<1>3. OrderedBy(go, u, P, F, d, fl)
    BY <1>1, <1>2 DEF OrderedBy, Keeps
<1>4. QED
    BY <1>1, <1>3 DEF Ordered

(* The links of a chain that t joins at its end. *)
NextJoined(s, u, t) ==
    \/ u.prevBlocking = s.prevBlocking /\ u.nextBlocking = s.nextBlocking
    \/ \E z \in Tags \ {t} :
           /\ s.nextBlocking[z] = NoTag
           /\ \A y \in Tags : u.prevBlocking[y] = IF y = t THEN z ELSE s.prevBlocking[y]
           /\ \A y \in Tags : u.nextBlocking[y] = IF y = z THEN t ELSE s.nextBlocking[y]
LEMMA JoinLinks ==
    ASSUME NEW s \in Shape, NEW at, Chained(s, at),
           NEW t \in Tags, at[t] = "new", NEW u, u = UpdateDataBufEntryInfoBlockingReq(s, t)
    PROVE  /\ s.prevBlocking[t] = NoTag /\ s.nextBlocking[t] = NoTag
           /\ u.nextBlocking[t] = NoTag
           /\ NextJoined(s, u, t)
<1>1. ~Live(at[t])
    BY DEF Live
<1>2. s.prevBlocking[t] = NoTag /\ s.nextBlocking[t] = NoTag
    BY <1>1 DEF Chained, RestUnlinked
<1>3. PICK e : e = s.req[t].entry
    OBVIOUS
<1>4. e \in Entries \cup {NoEntry}
    BY <1>3 DEF Shape, Requests
<1>5. CASE e = NoEntry \/ s.tail[e] = NoTag
    <2>1. u = s \/ u = [s EXCEPT !.tail = [s.tail EXCEPT ![e] = t]]
        BY <1>3, <1>5 DEF UpdateDataBufEntryInfoBlockingReq
    <2>2. u.prevBlocking = s.prevBlocking /\ u.nextBlocking = s.nextBlocking
        BY <2>1 DEF Shape
    <2>3. QED
        BY <1>2, <2>2 DEF NextJoined
<1>6. CASE e # NoEntry /\ s.tail[e] # NoTag
    <2>1. PICK z : z = s.tail[e]
        OBVIOUS
    <2>2. e \in Entries /\ z \in Tags
        BY <1>4, <1>6, <2>1 DEF Shape
    <2>3. Live(at[z]) /\ s.nextBlocking[z] = NoTag
        BY <1>6, <2>1, <2>2 DEF Chained, TailsFit
    <2>4. PICK p, n, l : /\ p = [s.prevBlocking EXCEPT ![t] = z]
                         /\ n = [s.nextBlocking EXCEPT ![z] = t]
                         /\ l = [s.tail EXCEPT ![e] = t]
        OBVIOUS
    <2>5. u = [s EXCEPT !.prevBlocking = p, !.nextBlocking = n, !.tail = l]
        BY <1>3, <1>6, <2>1, <2>4 DEF UpdateDataBufEntryInfoBlockingReq
    <2>6. u.prevBlocking = p /\ u.nextBlocking = n
        BY <2>5 DEF Shape
    <2>7. /\ s.prevBlocking \in [Tags -> Tags \cup {NoTag}]
          /\ s.nextBlocking \in [Tags -> Tags \cup {NoTag}]
        BY DEF Shape
    <2>8. /\ \A y \in Tags : u.prevBlocking[y] = IF y = t THEN z ELSE s.prevBlocking[y]
          /\ \A y \in Tags : u.nextBlocking[y] = IF y = z THEN t ELSE s.nextBlocking[y]
        BY <2>4, <2>6, <2>7
    <2>9. z # t
        BY <1>1, <2>3
    <2>10. QED
        BY <1>2, <2>2, <2>3, <2>8, <2>9 DEF NextJoined
<1>7. QED
    BY <1>5, <1>6

(* A request joins the chain of its entry: it is the youngest of it. *)
LEMMA JoinOrdered ==
    ASSUME NEW s, NEW wt, NEW at, NEW x, Sound(s, wt, at, x),
           NEW t \in Tags, at[t] = "new", NEW u, u = UpdateDataBufEntryInfoBlockingReq(s, t),
           NEW F, NEW d, NEW fl, Ordered(s, Pend(s), F, d, fl), Linked(s, NoTag)
    PROVE  /\ Keeps(s, u) /\ Ordered(u, Pend(u), F, d, fl)
           /\ Linked(u, NoTag) /\ u.nextBlocking[t] = NoTag
<1>1. /\ s \in Shape /\ at \in [Tags -> Places] /\ Chained(s, at)
      /\ Pend(s) \subseteq Tags /\ t \notin Pend(s)
    BY SoundFacts, PendFact
<1>2. /\ u \in Shape /\ u.req = s.req /\ SameQueues(s, u) /\ SameTable(s, u)
    BY <1>1, JoinChain
<1>3. /\ s.prevBlocking[t] = NoTag /\ s.nextBlocking[t] = NoTag
      /\ u.nextBlocking[t] = NoTag /\ NextJoined(s, u, t)
    BY <1>1, JoinLinks
<1>4. Keeps(s, u)
    BY <1>2 DEF SameQueues, SameTable, Pend, Keeps
<1>5. ASSUME Timely(s, Pend(s), F) PROVE Timely(u, Pend(s), F)
    <2>1. PICK P : P = Pend(s)
        OBVIOUS
    <2>2. PICK age, top : TimelyBy(age, top, s, P, F) /\ \A y \in Tags \ {t} : age[y] < age[t]
        BY <1>1, <1>3, <1>5, <2>1, Youngest
    <2>3. \A y \in Tags : u.nextBlocking[y] \in {s.nextBlocking[y], NoTag}
                          \/ age[y] < age[u.nextBlocking[y]]
        BY <1>3, <2>2 DEF NextJoined
    <2>4. Aged(age, top, u.nextBlocking)
        BY <2>2, <2>3, AgedLinks DEF TimelyBy
    <2>5. TimelyBy(age, top, u, P, F)
        BY <1>2, <2>2, <2>4 DEF TimelyBy, SameTable
    <2>6. QED
        BY <2>1, <2>5 DEF Timely
<1>6. Ordered(u, Pend(u), F, d, fl)
    BY <1>1, <1>4, <1>5, KeepsOrdered
<1>7. Linked(u, NoTag)
    <2>1. NoTag \notin Tags /\ s.bufQ \in SUBSET Tags /\ u.bufQ = s.bufQ
        BY <1>1, <1>2, TagFact, ShapeOrder DEF SameQueues
    <2>2. CASE u.prevBlocking = s.prevBlocking /\ u.nextBlocking = s.nextBlocking
        BY <2>1, <2>2, LinkedSame DEF SameLinks
    <2>3. ASSUME NEW z \in Tags \ {t}, s.nextBlocking[z] = NoTag,
                 \A y \in Tags : u.prevBlocking[y] = IF y = t THEN z ELSE s.prevBlocking[y],
                 \A y \in Tags : u.nextBlocking[y] = IF y = z THEN t ELSE s.nextBlocking[y]
          PROVE  Linked(u, NoTag)
        <3>1. ASSUME NEW y \in Tags, u.prevBlocking[y] # NoTag
              PROVE  u.prevBlocking[y] \in Tags /\ u.nextBlocking[u.prevBlocking[y]] = y
            <4>1. CASE y = t
                BY <2>3, <4>1
            <4>2. CASE y # t
                <5>1. u.prevBlocking[y] = s.prevBlocking[y] /\ s.prevBlocking[y] \in Tags
                      /\ s.nextBlocking[s.prevBlocking[y]] = y
                    BY <2>3, <3>1, <4>2 DEF Linked
                <5>2. s.prevBlocking[y] # z
                    BY <2>1, <2>3, <5>1
                <5>3. QED
                    BY <2>3, <5>1, <5>2
            <4>3. QED
                BY <4>1, <4>2
        <3>2. \A y \in u.bufQ : u.prevBlocking[y] # NoTag
            BY <2>1, <2>3 DEF Linked
        <3>3. QED
            BY <2>1, <3>1, <3>2 DEF Linked
    <2>4. QED
        BY <1>3, <2>2, <2>3 DEF NextJoined
<1>8. QED
    BY <1>3, <1>4, <1>6, <1>7

(* Blocked by its entry is only what has a request before it there. *)
LEMMA SelectLinked ==
    ASSUME NEW s, NEW wt, NEW at, NEW x, Sound(s, wt, at, x), Linked(s, NoTag),
           NEW t \in Tags, at[t] = "loose", NEW u, u = SelectLowLevelReqQ(s, t)
    PROVE  Linked(u, NoTag)
<1>1. PICK r : r = s.req[t]
    OBVIOUS
<1>2. s \in Shape /\ Proper(r)
    BY <1>1, SoundFacts DEF Live
<1>3. ~IsDma(r) => NandReq(r)
    BY <1>2 DEF Proper
<1>4. PICK v : v = RowAddrBlock(s, t)
    OBVIOUS
<1>5. v \in Shape /\ v.bufQ = s.bufQ /\ SameChains(s, v) /\ v.req = s.req
    <2>1. CASE IsDma(r)
        BY <1>1, <1>2, <1>4, <2>1 DEF RowAddrBlock, IsDma, DmaCodes, SameChains
    <2>2. CASE ~IsDma(r)
        BY <1>1, <1>2, <1>3, <1>4, <2>2, BlockFields DEF SameQueues
    <2>3. QED
        BY <2>1, <2>2
<1>6. CASE s.prevBlocking[t] = NoTag
    <2>1. SameLinks(s, u)
        <3>1. CASE IsDma(r)
            <4>1. u = PutToNvmeDmaReqQ(s, t)
                BY <1>1, <1>6, <3>1 DEF SelectLowLevelReqQ
            <4>2. QED
                BY <1>2, <4>1 DEF PutToNvmeDmaReqQ, Shape, SameLinks
        <3>2. CASE ~IsDma(r) /\ RowAddrPass(s, t)
            <4>1. PICK g : g = RowAddrGo(s, t)
                OBVIOUS
            <4>2. u = PutToNandReqQ(g, t)
                BY <1>1, <1>6, <3>2, <4>1 DEF SelectLowLevelReqQ, SelectByRowAddr
            <4>3. g \in Shape /\ g.req = s.req /\ SameQueues(s, g) /\ SameChains(s, g)
                BY <1>1, <1>2, <1>3, <3>2, <4>1, RowAddrGoFact
            <4>4. SameChains(g, u) /\ u.bufQ = g.bufQ
                <5>1. PICK q : q = [g.nandQ EXCEPT ![WayOf[g.req[t].block]] = Append(@, t)]
                    OBVIOUS
                <5>2. u = [g EXCEPT !.nandQ = q, !.notCompleted = g.notCompleted + 1]
                    BY <4>2, <5>1 DEF PutToNandReqQ
                <5>3. QED
                    BY <4>3, <5>2 DEF Shape, SameChains
            <4>5. QED
                BY <4>3, <4>4 DEF SameChains, SameQueues, SameLinks
        <3>3. CASE ~IsDma(r) /\ ~RowAddrPass(s, t)
            <4>1. u = PutToBlockedByRowAddrDepReqQ(v, t)
                BY <1>1, <1>4, <1>6, <3>3 DEF SelectLowLevelReqQ, SelectByRowAddr
            <4>2. PICK q : q = [v.rowQ EXCEPT ![WayOf[v.req[t].block]] = Append(@, t)]
                OBVIOUS
            <4>3. u = [v EXCEPT !.rowQ = q, !.blocked = v.blocked + 1]
                BY <4>1, <4>2 DEF PutToBlockedByRowAddrDepReqQ
            <4>4. SameChains(v, u) /\ u.bufQ = v.bufQ
                BY <1>5, <4>3 DEF Shape, SameChains
            <4>5. QED
                BY <1>5, <4>4 DEF SameChains, SameLinks
        <3>4. QED
            BY <3>1, <3>2, <3>3
    <2>2. QED
        BY <2>1, LinkedSame
<1>7. CASE s.prevBlocking[t] # NoTag
    <2>1. u = PutToBlockedByBufDepReqQ(v, t)
        BY <1>4, <1>7 DEF SelectLowLevelReqQ
    <2>2. u.bufQ = s.bufQ \cup {t} /\ SameChains(v, u)
        BY <1>5, <2>1 DEF PutToBlockedByBufDepReqQ, Shape, SameChains
    <2>3. u.prevBlocking = s.prevBlocking /\ u.nextBlocking = s.nextBlocking
        BY <1>5, <2>2 DEF SameChains
    <2>4. QED
        BY <1>7, <2>2, <2>3 DEF Linked
<1>8. QED
    BY <1>6, <1>7

(* A tag is held for later. *)
LEMMA HoldKeeps ==
    ASSUME NEW s \in Shape, NEW t \in Tags, NEW u, u = [s EXCEPT !.held = Append(@, t)]
    PROVE  Keeps(s, u) /\ SameLinks(s, u)
<1>1. PICK h : h = Append(s.held, t)
    OBVIOUS
<1>2. h \in Seq(Tags)
    BY <1>1 DEF Shape
<1>3. u = [s EXCEPT !.held = h]
    BY <1>1
<1>4. /\ u \in Shape /\ u.req = s.req /\ u.nandQ = s.nandQ
      /\ u.permitted = s.permitted /\ u.eraseFlag = s.eraseFlag
      /\ u.rowQ = s.rowQ /\ SameLinks(s, u)
    BY <1>2, <1>3 DEF Shape, SameLinks
<1>5. QED
    BY <1>4 DEF Pend, Keeps, SameLinks

(* Request r is handed down, and the requests after it may be. *)
HandedOn(s, u, v, r, G, d, fl) ==
    /\ Ordered(u, Pend(u), G, d /\ v = NoTag, fl)
    /\ WaitOK(u, v, G, d)
    /\ Further(s, u, r)
    /\ u \in Shape /\ Linked(u, v)

(* The tag a request is given was free or held for it. *)
LEMMA TagTaken ==
    ASSUME NEW s, NEW at, Sound(s, NoTag, at, {}), Settled(at),
           NEW r \in Callable, HasTag(r) => s.held # <<>>, ~Stops(s, r),
           NEW t, t = TagFor(s, r), NEW g, g = Take(s, r)
    PROVE  /\ t \in Tags /\ at[t] \in {"free", "held"}
           /\ Sound(g, NoTag, Goes(at, t, "new"), {}) /\ g.req[t] = r
<1>1. r \in Requests /\ (HasTag(r) \/ s.free # {})
    BY DEF Stops, Callable
<1>2. CASE HasTag(r)
    <2>1. t = Last(s.held) /\ g = SetReq([s EXCEPT !.held = Front(@)], t, r)
        BY <1>2 DEF TagFor, Take, SetReq
    <2>2. QED
        BY <1>1, <1>2, <2>1, TakeHeldSound
<1>3. CASE ~HasTag(r)
    <2>1. t = Min(s.free) /\ g = SetReq([s EXCEPT !.free = @ \ {t}], t, r)
        BY <1>3 DEF TagFor, Take, SetReq
    <2>2. QED
        BY <1>1, <1>3, <2>1, TakeFreeSound
<1>4. QED
    BY <1>2, <1>3

(* What a call starts from. *)
Fresh(s) == [sched |-> s, waiting |-> NoTag, work |-> <<>>]

(* Handing down a Hold: a tag is held. *)
LEMMA HandsHold ==
    ASSUME NEW s, ~Stops(s, Hold), NEW t, t = TagFor(s, Hold), NEW g, g = Take(s, Hold),
           NEW h, h = [g EXCEPT !.held = Append(@, t)], NEW b, b = HandDown(Fresh(s), Hold)
    PROVE  b = [sched |-> h, waiting |-> NoTag, work |-> <<>>]
<1>1. PICK a : a = [sched |-> s, waiting |-> NoTag, work |-> <<>>]
    OBVIOUS
<1>2. a.sched = s /\ a.waiting = NoTag /\ a.work = <<>> /\ b = HandDown(a, Hold)
    BY <1>1 DEF Fresh
<1>3. b = [a EXCEPT !.sched = h]
    BY <1>2 DEF HandDown, Stops
<1>4. QED
    BY <1>1, <1>3

(* Handing down a read that must wait for an erase. *)
LEMMA HandsWait ==
    ASSUME NEW s, NEW r, ~Stops(s, r), r # Hold, NEW t, t = TagFor(s, r),
           NEW c, c = UpdateDataBufEntryInfoBlockingReq(Take(s, r), t), MustWait(c, t),
           NEW b, b = HandDown(Fresh(s), r)
    PROVE  b = [sched |-> c, waiting |-> t, work |-> <<>>]
<1>1. PICK a : a = [sched |-> s, waiting |-> NoTag, work |-> <<>>]
    OBVIOUS
<1>2. a.sched = s /\ a.waiting = NoTag /\ a.work = <<>> /\ b = HandDown(a, r)
    BY <1>1 DEF Fresh
<1>3. b = [a EXCEPT !.sched = c, !.waiting = t]
    BY <1>2 DEF HandDown, Stops
<1>4. QED
    BY <1>1, <1>3

(* Handing down any other request. *)
LEMMA HandsOn ==
    ASSUME NEW s, NEW r, ~Stops(s, r), r # Hold, NEW t, t = TagFor(s, r),
           NEW c, c = UpdateDataBufEntryInfoBlockingReq(Take(s, r), t), ~MustWait(c, t),
           NEW u, u = SelectLowLevelReqQ(c, t), NEW b, b = HandDown(Fresh(s), r)
    PROVE  b = [sched |-> u, waiting |-> NoTag, work |-> <<>>]
<1>1. PICK a : a = [sched |-> s, waiting |-> NoTag, work |-> <<>>]
    OBVIOUS
<1>2. a.sched = s /\ a.waiting = NoTag /\ a.work = <<>> /\ b = HandDown(a, r)
    BY <1>1 DEF Fresh
<1>3. b = [a EXCEPT !.sched = u]
    BY <1>2 DEF HandDown, Stops
<1>4. QED
    BY <1>1, <1>3

(* Handing down stops where there is no tag or all must be done. *)
LEMMA HandStops ==
    ASSUME NEW s, NEW r, Stops(s, r),
           NEW b, b = HandDown(Fresh(s), r)
    PROVE  b.sched = s /\ b.waiting = NoTag /\ Len(b.work) = 1
<1>1. PICK a : a = [sched |-> s, waiting |-> NoTag, work |-> <<>>]
    OBVIOUS
<1>2. a.sched = s /\ a.waiting = NoTag /\ a.work = <<>>
    BY <1>1
<1>3. b = HandDown(a, r)
    BY <1>1 DEF Fresh
<1>4. b = [a EXCEPT !.work = Append(@, r)]
    BY <1>2, <1>3 DEF HandDown, Stops
<1>5. b.work = Append(<<>>, r) /\ b.sched = s /\ b.waiting = NoTag
    BY <1>1, <1>2, <1>4
<1>6. Len(Append(<<>>, r)) = 1
    OBVIOUS
<1>7. QED
    BY <1>5, <1>6

(* Otherwise nothing is left. *)
LEMMA HandsAll ==
    ASSUME NEW s, NEW r, ~Stops(s, r), NEW b, b = HandDown(Fresh(s), r)
    PROVE  b.work = <<>>
BY DEF HandDown, Stops, Fresh

(* One request handed down: the order is that of the plan, one request on. *)
LEMMA HandOneOrdered ==
    ASSUME NEW s, NEW at, Sound(s, NoTag, at, {}), Settled(at),
           NEW r \in Callable, HasTag(r) => s.held # <<>>, ~Stops(s, r),
           NEW F \in [Blocks -> States], NEW G, NEW d \in BOOLEAN,
           Follows(r, F, G), Allowed(s, r), ReadFits(r, F, d),
           NEW fl, Ordered(s, Pend(s), F, FALSE, fl), Linked(s, NoTag),
           NEW b, b = HandDown(Fresh(s), r)
    PROVE  \E u, v : b = [sched |-> u, waiting |-> v, work |-> <<>>] /\ HandedOn(s, u, v, r, G, d, fl)
<1>1. PICK t : t = TagFor(s, r)
    OBVIOUS
<1>2. PICK g : g = Take(s, r)
    OBVIOUS
<1>3. PICK c : c = UpdateDataBufEntryInfoBlockingReq(g, t)
    OBVIOUS
<1>4. PICK h : h = [g EXCEPT !.held = Append(@, t)]
    OBVIOUS
<1>5. PICK u : u = SelectLowLevelReqQ(c, t)
    OBVIOUS
<1>6. /\ r = Hold => b = [sched |-> h, waiting |-> NoTag, work |-> <<>>]
      /\ r # Hold /\ MustWait(c, t) => b = [sched |-> c, waiting |-> t, work |-> <<>>]
      /\ r # Hold /\ ~MustWait(c, t) => b = [sched |-> u, waiting |-> NoTag, work |-> <<>>]
    <2>1. CASE r = Hold
        <3>1. b = [sched |-> h, waiting |-> NoTag, work |-> <<>>]
            BY <1>1, <1>2, <1>4, <2>1, HandsHold
        <3>2. QED
            BY <2>1, <3>1
    <2>2. CASE r # Hold /\ MustWait(c, t)
        <3>1. b = [sched |-> c, waiting |-> t, work |-> <<>>]
            BY <1>1, <1>2, <1>3, <2>2, HandsWait
        <3>2. QED
            BY <2>2, <3>1
    <2>3. CASE r # Hold /\ ~MustWait(c, t)
        <3>1. b = [sched |-> u, waiting |-> NoTag, work |-> <<>>]
            BY <1>1, <1>2, <1>3, <1>5, <2>3, HandsOn
        <3>2. QED
            BY <2>3, <3>1
    <2>4. QED
        BY <2>1, <2>2, <2>3
<1>7. PICK a : a = Goes(at, t, "new")
    OBVIOUS
<1>8. /\ t \in Tags /\ at[t] \in {"free", "held"}
      /\ Sound(g, NoTag, a, {}) /\ g.req[t] = r
    BY <1>1, <1>2, <1>7, TagTaken
<1>9. /\ s \in Shape /\ g \in Shape /\ at \in [Tags -> Places]
    BY <1>8, SoundFacts
<1>10. a[t] = "new" /\ a \in [Tags -> Places]
    BY <1>7, <1>8, <1>9 DEF Goes, Places
<1>11. /\ Ordered(g, Pend(g), F, FALSE, fl)
       /\ g.permitted = s.permitted /\ g.eraseFlag = s.eraseFlag /\ Linked(g, NoTag)
    <2>1. Ordered(g, Pend(g), F, FALSE, fl)
        BY <1>1, <1>2, <1>8, TakeOrdered
    <2>2. SameOrder(s, g) /\ SameLinks(s, g)
        BY <1>1, <1>2, <1>9, TakeTable
    <2>3. QED
        BY <2>1, <2>2, LinkedSame DEF SameOrder
<1>12. CASE r = Hold
    <2>1. /\ Ordered(h, Pend(h), F, FALSE, fl)
          /\ h \in Shape /\ h.permitted = s.permitted /\ h.eraseFlag = s.eraseFlag
          /\ Linked(h, NoTag)
        <3>1. Keeps(g, h) /\ SameLinks(g, h)
            BY <1>4, <1>8, <1>9, HoldKeeps
        <3>2. Timely(g, Pend(g), F) => Timely(h, Pend(g), F)
            BY <3>1 DEF Keeps, SameLinks, Timely, TimelyBy
        <3>3. Ordered(h, Pend(h), F, FALSE, fl)
            BY <1>9, <1>11, <3>1, <3>2, KeepsOrdered
        <3>4. QED
            BY <1>11, <3>1, <3>3, LinkedSame DEF Keeps
    <2>2. G = F
        BY <1>12 DEF Follows, Hold, Dma, Request
    <2>3. Ordered(h, Pend(h), G, d /\ NoTag = NoTag, fl)
        BY <2>1, <2>2, OrderedLast
    <2>4. Further(s, h, r)
        BY <1>9, <2>1, FurtherSame
    <2>5. HandedOn(s, h, NoTag, r, G, d, fl)
        BY <2>1, <2>3, <2>4 DEF HandedOn, WaitOK
    <2>6. QED
        BY <1>6, <1>12, <2>5
<1>13. CASE r # Hold
    <2>1. Proper(g.req[t])
        BY <1>8, <1>13 DEF Stops, Callable
    <2>2. Sound(c, NoTag, Goes(a, t, "loose"), {})
        BY <1>3, <1>8, <1>10, <2>1, JoinSound
    <2>3. PICK l : l = Goes(a, t, "loose")
        OBVIOUS
    <2>4. l[t] = "loose" /\ Sound(c, NoTag, l, {})
        BY <1>8, <1>10, <2>2, <2>3 DEF Goes
    <2>5. /\ Keeps(g, c) /\ Ordered(c, Pend(c), F, FALSE, fl)
          /\ Linked(c, NoTag) /\ c.nextBlocking[t] = NoTag
        <3>1. Sound(g, NoTag, a, {}) /\ a[t] = "new" /\ t \in Tags
            BY <1>8, <1>10
        <3>2. PICK e : e = FALSE
            OBVIOUS
        <3>3. Ordered(g, Pend(g), F, e, fl) /\ Linked(g, NoTag)
            BY <1>11, <3>2
        <3>4. /\ Keeps(g, c) /\ Ordered(c, Pend(c), F, e, fl)
              /\ Linked(c, NoTag) /\ c.nextBlocking[t] = NoTag
            BY <1>3, <3>1, <3>3, JoinOrdered
        <3>5. QED
            BY <3>2, <3>4
    <2>6. /\ Ordered(c, Pend(c), F, FALSE, fl)
          /\ c \in Shape /\ c.req = g.req /\ c.permitted = g.permitted /\ c.eraseFlag = g.eraseFlag
        BY <2>5 DEF Keeps
    <2>7. c.req[t] = r
        BY <1>8, <2>6
    <2>8. CASE MustWait(c, t)
        <3>1. r.code = "READ"
            BY <2>7, <2>8 DEF MustWait
        <3>2. G = F
            BY <3>1 DEF Follows
        <3>3. Ordered(c, Pend(c), G, d /\ t = NoTag, fl)
            BY <2>6, <3>2, OrderedLast
        <3>4. WaitOK(c, t, G, d)
            BY <2>7, <3>1, <3>2 DEF WaitOK
        <3>5. Further(s, c, r)
            BY <1>9, <1>11, <2>6, FurtherSame
        <3>6. HandedOn(s, c, t, r, G, d, fl)
            BY <2>5, <2>6, <3>3, <3>4, <3>5 DEF HandedOn, Linked
        <3>7. QED
            BY <1>6, <1>13, <2>8, <3>6
    <2>9. CASE ~MustWait(c, t)
        <3>1. r.code = "READ" => ~c.eraseFlag[r.block]
            BY <2>7, <2>9 DEF MustWait
        <3>2. Allowed(c, r)
            BY <1>11, <2>6 DEF Allowed
        <3>3. Due(c, r, F, G, d)
            BY <3>1, <3>2 DEF Due
        <3>4. Ordered(u, Pend(u), G, d, fl)
            BY <1>5, <1>8, <2>4, <2>5, <2>7, <3>3, SelectOrdered
        <3>5. Ordered(u, Pend(u), G, d /\ NoTag = NoTag, fl)
            <4>1. (d /\ NoTag = NoTag) = d
                OBVIOUS
            <4>2. QED
                BY <3>4, <4>1, Zenon
        <3>6. Further(c, u, r)
            BY <1>5, <1>8, <2>4, <2>7, SelectFurther
        <3>7. Further(s, u, r)
            BY <1>11, <2>6, <3>6 DEF Further
        <3>8. \E q \in {"nand", "row", "dma", "buf"} : Sound(u, NoTag, Goes(l, t, q), {})
            BY <1>5, <1>8, <2>1, <2>4, <2>7, SelectLowLevelSound
        <3>9. u \in Shape /\ Linked(u, NoTag)
            BY <1>5, <1>8, <2>4, <2>5, <3>8, SoundFacts, SelectLinked
        <3>10. HandedOn(s, u, NoTag, r, G, d, fl)
            BY <3>5, <3>7, <3>9 DEF HandedOn, WaitOK
        <3>11. QED
            BY <1>6, <1>13, <2>9, <3>10
    <2>10. QED
        BY <2>8, <2>9
<1>14. QED
    BY <1>12, <1>13
-----------------------------------------------------------------------------

(* Of the requests q, only the wait for all others follows the k-th.       *)
Ends(q, k) == k + 1 = Len(q) /\ q[k + 1] = Sync

(* A block that is erased is not written or erased again by the requests q.*)
Tidy(q) ==
    \A i, k \in 1 .. Len(q) :
        i < k /\ q[i].code = "ERASE" /\ q[k].code \in {"WRITE", "ERASE"}
        => q[k].block # q[i].block

(* The requests q take the blocks from F to G, by g. *)
PlanBy(g, q, F, G) ==
    /\ g \in [0 .. Len(q) -> [Blocks -> States]]
    /\ g[0] = F /\ g[Len(q)] = G
    /\ \A k \in 1 .. Len(q) :
           Follows(q[k], g[k - 1], g[k]) /\ ReadFits(q[k], g[k - 1], Ends(q, k))
    /\ Tidy(q)
Plan(q, F, G) == \E g : PlanBy(g, q, F, G)

AllowedFrom(s, q, j) == \A k \in j + 1 .. Len(q) : Allowed(s, q[k])

(* Of the requests reqs the first j have been handed down. *)
HandedOrder(a, reqs, g, j, fl) ==
    /\ Ordered(a.sched, Pend(a.sched), g[j], Ends(reqs, j) /\ a.waiting = NoTag, fl)
    /\ WaitOK(a.sched, a.waiting, g[j], Ends(reqs, j))
    /\ AllowedFrom(a.sched, reqs, j)
    /\ Linked(a.sched, a.waiting)

(* The same, for request k + 1 of a call. *)
LEMMA HandedNext ==
    ASSUME NEW reqs \in Seq(Callable), NEW F, NEW G, NEW g, PlanBy(g, reqs, F, G),
           NEW k \in Nat, k + 1 \in 1 .. Len(reqs),
           NEW s, InOrder(s, NoTag), NEW r, r = reqs[k + 1], HasTag(r) => s.held # <<>>,
           ~Stops(s, r), AllowedFrom(s, reqs, k),
           NEW fl, Ordered(s, Pend(s), g[k], FALSE, fl), Linked(s, NoTag),
           NEW b, b = HandDown(Fresh(s), r)
    PROVE  HandedOrder(b, reqs, g, k + 1, fl)
<1>1. PICK n \in Nat : n = Len(reqs)
    OBVIOUS
<1>2. k + 1 \in 1 .. n /\ k \in 0 .. n /\ k + 1 \in 0 .. n /\ (k + 1) - 1 = k
    BY <1>1
<1>3. r \in Callable
    OBVIOUS
<1>4. /\ g[k] \in [Blocks -> States] /\ Follows(r, g[k], g[k + 1])
      /\ ReadFits(r, g[k], Ends(reqs, k + 1))
    <2>1. /\ g \in [0 .. n -> [Blocks -> States]]
          /\ \A i \in 1 .. n :
                 Follows(reqs[i], g[i - 1], g[i]) /\ ReadFits(reqs[i], g[i - 1], Ends(reqs, i))
        BY <1>1 DEF PlanBy
    <2>2. QED
        BY <1>2, <2>1
<1>5. Allowed(s, r)
    <2>1. k + 1 \in k + 1 .. Len(reqs)
        BY <1>1, <1>2
    <2>2. QED
        BY <2>1 DEF AllowedFrom
<1>6. PICK at : Sound(s, NoTag, at, {}) /\ Settled(at)
    BY DEF InOrder
<1>7. PICK d \in BOOLEAN : d = Ends(reqs, k + 1)
    BY DEF Ends
<1>8. PICK F1, G1 : F1 = g[k] /\ G1 = g[k + 1]
    OBVIOUS
<1>9. PICK u, v : /\ b = [sched |-> u, waiting |-> v, work |-> <<>>]
                  /\ HandedOn(s, u, v, r, G1, d, fl)
    BY <1>3, <1>4, <1>5, <1>6, <1>7, <1>8, HandOneOrdered
<1>10. b.sched = u /\ b.waiting = v /\ b.work = <<>>
    BY <1>9
<1>11. s \in Shape /\ u \in Shape /\ Further(s, u, r)
    BY <1>6, <1>9, SoundFacts DEF HandedOn
<1>12. ASSUME NEW i \in (k + 1) + 1 .. Len(reqs) PROVE Allowed(u, reqs[i])
    <2>1. i \in 1 .. Len(reqs) /\ i \in k + 1 .. Len(reqs) /\ k + 1 < i
        BY <1>1, <1>2
    <2>2. PICK q : q = reqs[i]
        OBVIOUS
    <2>3. q \in Callable /\ Allowed(s, q)
        BY <2>1, <2>2 DEF AllowedFrom
    <2>4. q \in Requests /\ (q.code \in {"WRITE", "ERASE"} => q.block \in Blocks)
        <3>1. Hold.code \notin {"WRITE", "ERASE"} /\ Sync.code \notin {"WRITE", "ERASE"}
            BY DEF Hold, Sync, Dma, Request
        <3>2. IsDma(q) => q.code \notin {"WRITE", "ERASE"}
            BY DEF IsDma, DmaCodes
        <3>3. QED
            BY <2>3, <3>1, <3>2 DEF Callable, Proper, NandReq
    <2>5. r.code = "ERASE" /\ q.code \in {"WRITE", "ERASE"} => q.block # r.block
        BY <1>1, <1>2, <2>1, <2>2 DEF PlanBy, Tidy
    <2>6. Allowed(u, q)
        BY <1>11, <2>3, <2>4, <2>5, AllowedFurther
    <2>7. QED
        BY <2>2, <2>6
<1>13. AllowedFrom(u, reqs, k + 1)
    BY <1>12 DEF AllowedFrom
<1>14. Ordered(u, Pend(u), G1, d /\ v = NoTag, fl) /\ WaitOK(u, v, G1, d) /\ Linked(u, v)
    BY <1>9 DEF HandedOn
<1>15. QED
    BY <1>7, <1>8, <1>10, <1>13, <1>14 DEF HandedOrder

(* One more turn of the fold over a call, whether it still hands down or   *)
(* has stopped.                                                            *)
LEMMA OrderOneMore ==
    ASSUME NEW reqs \in Seq(Callable), NEW n, NEW h, BalancedBy(reqs, n, h),
           NEW F, NEW G, NEW g, PlanBy(g, reqs, F, G),
           NEW k \in Nat, k + 1 \in 1 .. Len(reqs), NEW j \in 0 .. k, NEW fl,
           NEW a, HandedUpTo(a, reqs, h, j, k), HandedOrder(a, reqs, g, j, fl),
           NEW b, b = HandDown(a, reqs[k + 1])
    PROVE  \E i \in 0 .. k + 1 : HandedUpTo(b, reqs, h, i, k + 1) /\ HandedOrder(b, reqs, g, i, fl)
<1>1. PICK r \in Callable : r = reqs[k + 1]
    OBVIOUS
<1>2. PICK i \in 0 .. k + 1 : HandedUpTo(b, reqs, h, i, k + 1)
    BY HandOneMore
<1>3. PICK l \in Nat : l = k + 1
    OBVIOUS
<1>4. PICK u, v, q :
        /\ a = [sched |-> u, waiting |-> v, work |-> q]
        /\ InOrder(u, v) /\ Len(u.held) = h[j]
        /\ q \in Seq(Callable) /\ Len(q) = k - j
    BY DEF HandedUpTo
<1>5. a.sched = u /\ a.waiting = v /\ a.work = q
    BY <1>4
<1>6. Len(b.work) = l - i
    BY <1>2, <1>3 DEF HandedUpTo
<1>7. CASE q # <<>> \/ v # NoTag
    <2>1. b = [a EXCEPT !.work = Append(@, r)]
        BY <1>1, <1>5, <1>7, HandStuck
    <2>2. b = [sched |-> u, waiting |-> v, work |-> Append(q, r)]
        BY <1>4, <1>5, <2>1
    <2>3. b.sched = u /\ b.waiting = v /\ b.work = Append(q, r)
        BY <2>2
    <2>4. Len(Append(q, r)) = (k - j) + 1
        BY <1>4
    <2>5. i = j
        BY <1>3, <1>6, <2>3, <2>4
    <2>6. HandedOrder(b, reqs, g, j, fl)
        BY <1>5, <2>3 DEF HandedOrder
    <2>7. QED
        BY <1>2, <2>5, <2>6
<1>8. CASE q = <<>> /\ v = NoTag
    <2>1. j = k
        BY <1>4, <1>8
    <2>2. b = HandDown(Fresh(u), r)
        <3>1. a = Fresh(u)
            BY <1>4, <1>8 DEF Fresh
        <3>2. QED
            BY <1>1, <3>1
    <2>3. InOrder(u, NoTag)
        BY <1>4, <1>8
    <2>4. HasTag(r) => u.held # <<>>
        <3>1. SUFFICES ASSUME HasTag(r), u.held = <<>> PROVE FALSE
            OBVIOUS
        <3>2. Weight(r) = -1
            BY <3>1, WeightFact DEF Weight
        <3>3. Len(u.held) = 0
            BY <3>1
        <3>4. h[k] \in Nat /\ h[k + 1] \in Nat /\ h[k + 1] = h[k] + Weight(r)
            <4>1. k \in 0 .. Len(reqs) /\ k + 1 \in 0 .. Len(reqs) /\ (k + 1) - 1 = k
                OBVIOUS
            <4>2. QED
                BY <1>1, <4>1 DEF BalancedBy
        <3>5. QED
            BY <1>4, <2>1, <3>2, <3>3, <3>4
    <2>5. CASE Stops(u, r)
        <3>1. b.sched = u /\ b.waiting = NoTag /\ Len(b.work) = 1
            BY <2>2, <2>5, HandStops
        <3>2. b.sched = u /\ b.waiting = v /\ Len(b.work) = 1
            BY <1>8, <3>1
        <3>3. i = k
            <4>1. i \in Int /\ k \in Int
                OBVIOUS
            <4>2. l - i = 1
                BY <1>6, <3>2
            <4>3. QED
                BY <1>3, <4>1, <4>2
        <3>4. HandedOrder(b, reqs, g, k, fl)
            BY <1>5, <2>1, <3>2 DEF HandedOrder
        <3>5. QED
            BY <1>2, <3>3, <3>4
    <2>6. CASE ~Stops(u, r)
        <3>1. ~Ends(reqs, k)
            BY <1>1, <2>6 DEF Ends, Stops
        <3>2. Ordered(u, Pend(u), g[k], FALSE, fl)
            <4>1. (Ends(reqs, k) /\ v = NoTag) = FALSE
                BY <3>1
            <4>2. Ordered(u, Pend(u), g[k], Ends(reqs, k) /\ v = NoTag, fl)
                BY <1>5, <2>1 DEF HandedOrder
            <4>3. QED
                BY <4>1, <4>2, Zenon
        <3>3. AllowedFrom(u, reqs, k) /\ Linked(u, NoTag)
            BY <1>5, <1>8, <2>1 DEF HandedOrder
        <3>4. HandedOrder(b, reqs, g, k + 1, fl) /\ b.work = <<>>
            <4>1. HandedOrder(b, reqs, g, k + 1, fl)
                BY <1>1, <2>2, <2>3, <2>4, <2>6, <3>2, <3>3, HandedNext
            <4>2. b.work = <<>>
                BY <2>2, <2>6, HandsAll
            <4>3. QED
                BY <4>1, <4>2
        <3>5. i = k + 1
            <4>1. Len(b.work) = 0
                BY <3>4
            <4>2. QED
                BY <1>3, <1>6, <4>1
        <3>6. QED
            BY <1>2, <3>4, <3>5
    <2>7. QED
        BY <2>5, <2>6
<1>9. QED
    BY <1>7, <1>8
-----------------------------------------------------------------------------

(* The rest q of a call takes the blocks to G.                             *)
Rest(s, wt, q, G, fl) ==
    \E F : /\ Plan(q, F, G)
           /\ Ordered(s, Pend(s), F, Ends(q, 0) /\ wt = NoTag, fl)
           /\ WaitOK(s, wt, F, Ends(q, 0))
           /\ AllowedFrom(s, q, 0)
           /\ Linked(s, wt)

(* The requests q are those of reqs after the j-th. *)
LeftOver(q, reqs, j) ==
    /\ q \in Seq(Callable) /\ Len(q) = Len(reqs) - j
    /\ \A i \in 1 .. Len(reqs) - j : q[i] = reqs[j + i]

(* All turns of the fold over a call. *)
LEMMA OrderAll ==
    ASSUME NEW s, InOrder(s, NoTag), NEW reqs \in Seq(Callable), Balanced(reqs, Len(s.held)),
           NEW F, NEW G, NEW g, PlanBy(g, reqs, F, G), AllowedFrom(s, reqs, 0),
           NEW fl, Ordered(s, Pend(s), F, Ends(reqs, 0), fl), Linked(s, NoTag),
           NEW a, a = FoldLeft(HandDown, Fresh(s), reqs)
    PROVE  \E j \in 0 .. Len(reqs) : HandedOrder(a, reqs, g, j, fl) /\ LeftOver(a.work, reqs, j)
<1>1. PICK h : BalancedBy(reqs, Len(s.held), h)
    BY DEF Balanced
<1>2. PICK n \in Nat : n = Len(reqs)
    OBVIOUS
<1>3. PICK f : /\ f[0] = Fresh(s)
               /\ \A k \in 1 .. n : f[k] = HandDown(f[k - 1], reqs[k])
               /\ f[n] = a
    BY <1>2, HandPath
<1> DEFINE Up(k, j) == HandedUpTo(f[k], reqs, h, j, k) /\ HandedOrder(f[k], reqs, g, j, fl)
           K == {k \in 0 .. n : \E j \in 0 .. k : Up(k, j)}
<1>4. 0 \in K
    <2>1. /\ <<>> \in Seq(Callable) /\ Len(<<>>) = 0 - 0 /\ 1 .. 0 - 0 = {}
          /\ 0 \in 0 .. n /\ 0 \in 0 .. 0
        OBVIOUS
    <2>2. Len(s.held) = h[0]
        BY <1>1 DEF BalancedBy
    <2>3. HandedUpTo(f[0], reqs, h, 0, 0)
        BY <1>3, <2>1, <2>2 DEF HandedUpTo, Fresh
    <2>4. HandedOrder(f[0], reqs, g, 0, fl)
        <3>1. PICK e : e = f[0]
            OBVIOUS
        <3>2. e.sched = s /\ e.waiting = NoTag
            BY <1>3, <3>1 DEF Fresh
        <3>3. g[0] = F
            BY DEF PlanBy
        <3>4. Ordered(s, Pend(s), F, Ends(reqs, 0) /\ NoTag = NoTag, fl)
            <4>1. (Ends(reqs, 0) /\ NoTag = NoTag) = Ends(reqs, 0)
                BY DEF Ends
            <4>2. QED
                BY <4>1, Zenon
        <3>5. QED
            BY <3>1, <3>2, <3>3, <3>4 DEF HandedOrder, WaitOK
    <2>5. QED
        BY <2>1, <2>3, <2>4
<1>5. ASSUME NEW k \in 0 .. n, k # n, NEW j \in 0 .. k, Up(k, j)
      PROVE  k + 1 \in 0 .. n /\ \E i \in 0 .. k + 1 : Up(k + 1, i)
    <2>1. k \in Nat /\ k + 1 \in 1 .. n /\ k + 1 \in 0 .. n /\ (k + 1) - 1 = k
        BY <1>5
    <2>2. f[k + 1] = HandDown(f[k], reqs[k + 1])
        BY <1>3, <2>1
    <2>3. PICK x, y : x = f[k] /\ y = f[k + 1]
        OBVIOUS
    <2>4. \E i \in 0 .. k + 1 : HandedUpTo(y, reqs, h, i, k + 1) /\ HandedOrder(y, reqs, g, i, fl)
        BY <1>1, <1>2, <1>5, <2>1, <2>2, <2>3, OrderOneMore
    <2>5. QED
        BY <2>1, <2>3, <2>4
<1>6. n \in K
    <2>1. \A k \in 0 .. n : k # n /\ k \in K => k + 1 \in K
        BY <1>5
    <2> HIDE DEF K
    <2>2. \A k \in 0 .. n : k \in K
        BY <1>4, <2>1, UpTo
    <2>3. QED
        BY <2>2
<1>7. PICK j \in 0 .. n : HandedUpTo(a, reqs, h, j, n) /\ HandedOrder(a, reqs, g, j, fl)
    BY <1>3, <1>6
<1>8. PICK u, v, q :
        /\ a = [sched |-> u, waiting |-> v, work |-> q]
        /\ q \in Seq(Callable) /\ Len(q) = n - j
        /\ \A i \in 1 .. n - j : q[i] = reqs[j + i]
    BY <1>7 DEF HandedUpTo
<1>9. a.work = q
    BY <1>8
<1>10. QED
    BY <1>2, <1>7, <1>8, <1>9 DEF LeftOver

(* What is kept back is planned as it was. *)
LEMMA PlanRest ==
    ASSUME NEW reqs \in Seq(Callable), NEW F, NEW G, NEW g, PlanBy(g, reqs, F, G),
           NEW j \in 0 .. Len(reqs), NEW q, LeftOver(q, reqs, j)
    PROVE  /\ Plan(q, g[j], G)
           /\ Ends(q, 0) = Ends(reqs, j)
           /\ \A s : AllowedFrom(s, reqs, j) => AllowedFrom(s, q, 0)
<1>1. PICK n \in Nat : n = Len(reqs)
    OBVIOUS
<1>2. PICK m \in Nat : m = n - j /\ m = Len(q)
    <2>1. n - j \in Nat
        BY <1>1
    <2>2. Len(q) = n - j
        BY <1>1 DEF LeftOver
    <2>3. QED
        BY <2>1, <2>2
<1>3. j \in Nat /\ j + m = n /\ \A i \in 1 .. m : q[i] = reqs[j + i]
    BY <1>1, <1>2 DEF LeftOver
<1>4. PICK p : p = [i \in 0 .. m |-> g[j + i]]
    OBVIOUS
<1>5. /\ g \in [0 .. n -> [Blocks -> States]] /\ g[n] = G
      /\ \A k \in 1 .. n : Follows(reqs[k], g[k - 1], g[k])
      /\ \A k \in 1 .. n : ReadFits(reqs[k], g[k - 1], Ends(reqs, k))
      /\ Tidy(reqs)
    BY <1>1 DEF PlanBy
<1>6. \A i \in 0 .. m : j + i \in 0 .. n
    BY <1>3
<1>7. p \in [0 .. m -> [Blocks -> States]]
    BY <1>4, <1>5, <1>6
<1>8. p[0] = g[j] /\ p[m] = G
    <2>1. 0 \in 0 .. m /\ m \in 0 .. m /\ j + 0 = j /\ j + m = n
        BY <1>3
    <2>2. QED
        BY <1>4, <1>5, <2>1
<1>9. ASSUME NEW i \in 0 .. m PROVE Ends(q, i) = Ends(reqs, j + i)
    <2>1. (i + 1 = m) = ((j + i) + 1 = n) /\ (i + 1 = m => i + 1 \in 1 .. m) /\ j + (i + 1) = (j + i) + 1
        BY <1>3
    <2>2. CASE i + 1 = m
        <3>1. q[i + 1] = reqs[(j + i) + 1]
            BY <1>3, <2>1, <2>2
        <3>2. QED
            BY <1>1, <1>2, <2>1, <2>2, <3>1 DEF Ends
    <2>3. CASE i + 1 # m
        BY <1>1, <1>2, <2>1, <2>3 DEF Ends
    <2>4. QED
        BY <2>2, <2>3
<1>10. ASSUME NEW i \in 1 .. m
       PROVE  Follows(q[i], p[i - 1], p[i]) /\ ReadFits(q[i], p[i - 1], Ends(q, i))
    <2>1. /\ i \in 0 .. m /\ i - 1 \in 0 .. m /\ j + i \in 1 .. n
          /\ j + (i - 1) = (j + i) - 1
        BY <1>3
    <2>2. p[i] = g[j + i] /\ p[i - 1] = g[(j + i) - 1] /\ q[i] = reqs[j + i]
        BY <1>3, <1>4, <2>1
    <2>3. Ends(q, i) = Ends(reqs, j + i)
        BY <1>9, <2>1
    <2>4. QED
        BY <1>5, <2>1, <2>2, <2>3
<1>11. Tidy(q)
    <2>1. SUFFICES ASSUME NEW i \in 1 .. m, NEW k \in 1 .. m, i < k, q[i].code = "ERASE",
                          q[k].code \in {"WRITE", "ERASE"}
                   PROVE  q[k].block # q[i].block
        BY <1>2 DEF Tidy
    <2>2. j + i \in 1 .. n /\ j + k \in 1 .. n /\ j + i < j + k
        BY <1>3, <2>1
    <2>3. q[i] = reqs[j + i] /\ q[k] = reqs[j + k]
        BY <1>3
    <2>4. QED
        BY <1>1, <1>5, <2>1, <2>2, <2>3 DEF Tidy
<1>12. Plan(q, g[j], G)
    BY <1>2, <1>7, <1>8, <1>10, <1>11 DEF Plan, PlanBy
<1>13. Ends(q, 0) = Ends(reqs, j)
    <2>1. 0 \in 0 .. m /\ j + 0 = j
        BY <1>3
    <2>2. QED
        BY <1>9, <2>1
<1>14. ASSUME NEW s, AllowedFrom(s, reqs, j) PROVE AllowedFrom(s, q, 0)
    <2>1. SUFFICES ASSUME NEW i \in 1 .. m PROVE Allowed(s, q[i])
        BY <1>2 DEF AllowedFrom
    <2>2. j + i \in j + 1 .. n /\ q[i] = reqs[j + i]
        BY <1>3
    <2>3. QED
        BY <1>1, <1>14, <2>2 DEF AllowedFrom
<1>15. QED
    BY <1>12, <1>13, <1>14

(* What a call leaves is in order. *)
LEMMA RunOrdered ==
    ASSUME NEW s, InOrder(s, NoTag), NEW reqs, Takes(reqs, Len(s.held), 0),
           NEW F, NEW G, Plan(reqs, F, G), AllowedFrom(s, reqs, 0),
           NEW fl, Ordered(s, Pend(s), F, Ends(reqs, 0), fl), Linked(s, NoTag),
           Run(s, reqs)
    PROVE  Rest(sched', waiting', work', G, fl)
<1>1. PICK a : a = FoldLeft(HandDown, Fresh(s), reqs)
    OBVIOUS
<1>2. sched' = a.sched /\ waiting' = a.waiting /\ work' = a.work
    BY <1>1 DEF Run, Fresh
<1>3. reqs \in Seq(Callable) /\ Balanced(reqs, Len(s.held))
    BY TakesBalanced
<1>4. PICK g : PlanBy(g, reqs, F, G)
    BY DEF Plan
<1>5. \E j \in 0 .. Len(reqs) : HandedOrder(a, reqs, g, j, fl) /\ LeftOver(a.work, reqs, j)
    BY <1>1, <1>3, <1>4, OrderAll
<1>6. PICK j \in 0 .. Len(reqs) : HandedOrder(a, reqs, g, j, fl) /\ LeftOver(a.work, reqs, j)
    BY <1>5
<1>7. PICK q : q = a.work
    OBVIOUS
<1>8. /\ Plan(q, g[j], G)
      /\ Ends(q, 0) = Ends(reqs, j)
      /\ \A x : AllowedFrom(x, reqs, j) => AllowedFrom(x, q, 0)
    BY <1>3, <1>4, <1>6, <1>7, PlanRest
<1>9. PICK u, v, E : u = a.sched /\ v = a.waiting /\ E = g[j]
    OBVIOUS
<1>10. /\ Ordered(u, Pend(u), E, Ends(q, 0) /\ v = NoTag, fl)
       /\ WaitOK(u, v, E, Ends(q, 0))
       /\ AllowedFrom(u, q, 0) /\ Linked(u, v)
    BY <1>6, <1>7, <1>8, <1>9 DEF HandedOrder
<1>11. Rest(u, v, q, G, fl)
    BY <1>8, <1>9, <1>10 DEF Rest
<1>12. QED
    BY <1>2, <1>7, <1>9, <1>11
-----------------------------------------------------------------------------

(* The blocks as the upper layers keep them in f. *)
View(f) == [b \in Blocks |-> State(f.cycle[b], f.currentPage[b])]

(* The inductive invariant: what the running call still hands down takes   *)
(* the blocks from where the requests handed down leave them to where the  *)
(* maps of the upper layers say they are.                                  *)
OrderInv ==
    /\ ReqInv
    /\ flash \in [Blocks -> States]
    /\ Rest(sched, waiting, work, View(ftl), flash)

(* Nothing is blocked. *)
LEMMA OrderedNone ==
    ASSUME NEW s, NEW F, NEW d, NEW fl, Ordered(s, {}, F, d, fl), NEW e
    PROVE  Ordered(s, {}, F, e, fl)
<1>1. PICK go : OrderedBy(go, s, {}, F, d, fl)
    BY DEF Ordered
<1>2. Pending(s.req, s.permitted, s.eraseFlag, {}, go, F, e)
    BY <1>1 DEF OrderedBy, Pending, Sorts, WritesDue, WritesDiffer, ErasesDue, OneErase,
                ErasesLast, ReadsDue
<1>3. QED
    BY <1>1, <1>2 DEF Ordered, OrderedBy

(* A counter of blocked requests that is zero counts none. *)
LEMMA NoneBlocked ==
    ASSUME NEW s, NEW wt, NEW at, NEW x, Sound(s, wt, at, x), s.blocked = 0
    PROVE  Pend(s) = {}
<1>1. Cardinality(At(at, "row") \cup At(at, "buf")) = 0
    BY SoundFacts, CoreFacts DEF Counted
<1>2. PICK y \in SUBSET Tags : y = At(at, "row") \cup At(at, "buf")
    BY DEF At
<1>3. IsFiniteSet(y)
    BY SetCount
<1>4. y = {}
    BY <1>1, <1>2, <1>3, FS_EmptySet
<1>5. Pend(s) \subseteq Tags /\ \A t \in Tags : t \in Pend(s) <=> at[t] \in {"row", "buf"}
    BY PendFact
<1>6. QED
    BY <1>2, <1>4, <1>5 DEF At

(* The requests to come may still be handed down. *)
LEMMA AllowedOn ==
    ASSUME NEW s \in Shape, NEW u \in Shape, NEW r, Further(s, u, r), r.code # "ERASE",
           NEW q \in Seq(Callable), NEW j \in Nat, AllowedFrom(s, q, j)
    PROVE  AllowedFrom(u, q, j)
<1>1. SUFFICES ASSUME NEW k \in j + 1 .. Len(q) PROVE Allowed(u, q[k])
    BY DEF AllowedFrom
<1>2. PICK p : p = q[k]
    OBVIOUS
<1>3. k \in 1 .. Len(q)
    OBVIOUS
<1>4. p \in Callable /\ Allowed(s, p)
    BY <1>2, <1>3 DEF AllowedFrom
<1>5. p \in Requests /\ (p.code \in {"WRITE", "ERASE"} => p.block \in Blocks)
    <2>1. Hold.code \notin {"WRITE", "ERASE"} /\ Sync.code \notin {"WRITE", "ERASE"}
        BY DEF Hold, Sync, Dma, Request
    <2>2. IsDma(p) => p.code \notin {"WRITE", "ERASE"}
        BY DEF IsDma, DmaCodes
    <2>3. QED
        BY <1>4, <2>1, <2>2 DEF Callable, Proper, NandReq
<1>6. Allowed(u, p)
    BY <1>4, <1>5, AllowedFurther
<1>7. QED
    BY <1>2, <1>6

(* The scheduler's own steps leave the rest of the call as it is. *)
LEMMA RestSince ==
    ASSUME NEW s \in Shape, NEW u \in Shape, NEW wt, wt # NoTag => wt \in Tags,
           NEW q \in Seq(Callable), NEW F,
           WaitOK(s, wt, F, Ends(q, 0)), AllowedFrom(s, q, 0),
           NEW G, Plan(q, F, G), NEW fl,
           InTurn(u, wt, F, Ends(q, 0) /\ wt = NoTag, fl, s)
    PROVE  Rest(u, wt, q, G, fl)
<1>1. Ordered(u, Pend(u), F, Ends(q, 0) /\ wt = NoTag, fl) /\ Since(s, u, wt)
       /\ Linked(u, wt)
    BY DEF InTurn, Turned
<1>2. WaitOK(u, wt, F, Ends(q, 0))
    BY <1>1 DEF WaitOK, Since
<1>3. Further(s, u, Sync)
    BY <1>1 DEF Further, Since
<1>4. AllowedFrom(u, q, 0)
    <2>1. Sync.code # "ERASE" /\ 0 \in Nat
        BY DEF Sync, Dma, Request
    <2>2. QED
        BY <1>3, <2>1, AllowedOn
<1>5. QED
    BY <1>1, <1>2, <1>4 DEF Rest

(* Nothing has happened since now. *)
LEMMA SinceSelf ==
    ASSUME NEW s \in Shape, NEW wt
    PROVE  Since(s, s, wt)
<1>1. s.permitted \in [Blocks -> Nat]
    BY ShapeOrder
<1>2. \A n \in Nat : n <= n
    OBVIOUS
<1>3. QED
    BY <1>1, <1>2 DEF Since
-----------------------------------------------------------------------------
(* The steps of a call that waited *)

(* Going on with a free tag (SyncAvailFreeReq) keeps the order. *)
LEMMA TagFreedOrder ==
    ASSUME OrderInv, TagFreed
    PROVE  Rest(sched', waiting', work', View(ftl'), flash')
<1>1. /\ waiting = NoTag /\ Run(sched, work) /\ ftl' = ftl /\ flash' = flash
    BY DEF TagFreed, HasTagFreed
<1>2. InOrder(sched, NoTag) /\ Takes(work, Len(sched.held), 0)
    BY <1>1 DEF OrderInv, ReqInv
<1>3. PICK F : /\ Plan(work, F, View(ftl))
               /\ Ordered(sched, Pend(sched), F, Ends(work, 0) /\ waiting = NoTag, flash)
               /\ AllowedFrom(sched, work, 0) /\ Linked(sched, waiting)
    BY DEF OrderInv, Rest
<1>4. Ordered(sched, Pend(sched), F, Ends(work, 0), flash)
    <2>1. (Ends(work, 0) /\ waiting = NoTag) = Ends(work, 0)
        BY <1>1 DEF Ends
    <2>2. QED
        BY <1>3, <2>1, Zenon
<1>5. PICK G : G = View(ftl)
    OBVIOUS
<1>6. Rest(sched', waiting', work', G, flash)
    BY <1>1, <1>2, <1>3, <1>4, <1>5, RunOrdered
<1>7. QED
    BY <1>1, <1>5, <1>6

(* Going on with a read whose erase has gone (SyncReleaseEraseReq) keeps   *)
(* the order.                                                              *)
LEMMA EraseReleasedOrder ==
    ASSUME OrderInv, EraseReleased
    PROVE  Rest(sched', waiting', work', View(ftl'), flash')
<1>1. PICK u : u = SelectLowLevelReqQ(sched, waiting)
    OBVIOUS
<1>2. /\ waiting # NoTag /\ ~sched.eraseFlag[sched.req[waiting].block]
      /\ Run(u, work) /\ ftl' = ftl /\ flash' = flash
    BY <1>1 DEF EraseReleased, HasEraseReleased
<1>3. PICK F : /\ Plan(work, F, View(ftl))
               /\ Ordered(sched, Pend(sched), F, Ends(work, 0) /\ waiting = NoTag, flash)
               /\ WaitOK(sched, waiting, F, Ends(work, 0))
               /\ AllowedFrom(sched, work, 0) /\ Linked(sched, waiting)
    BY DEF OrderInv, Rest
<1>4. F \in [Blocks -> States]
    <2>1. PICK g : PlanBy(g, work, F, View(ftl))
        BY <1>3 DEF Plan
    <2>2. work \in Seq(Callable)
        BY DEF OrderInv, ReqInv, Takes
    <2>3. 0 \in 0 .. Len(work)
        BY <2>2
    <2>4. QED
        BY <2>1, <2>3 DEF PlanBy
<1>5. Ordered(sched, Pend(sched), F, FALSE, flash)
    <2>1. (Ends(work, 0) /\ waiting = NoTag) = FALSE
        BY <1>2
    <2>2. QED
        BY <1>3, <2>1, Zenon
<1>6. PICK at : Sound(sched, waiting, at, {}) /\ Settled(at)
    BY DEF OrderInv, ReqInv, InOrder
<1>7. at \in [Tags -> Places] /\ Core(sched, waiting, at) /\ sched \in Shape
    BY <1>6, SoundFacts
<1>8. {waiting} \ {NoTag} = At(at, "wait")
    BY <1>7, CoreFacts
<1>9. waiting \in Tags /\ at[waiting] = "wait" /\ \A y \in Tags : at[y] = "wait" => y = waiting
    BY <1>2, <1>8 DEF At
<1>10. PICK t \in Tags : t = waiting
    BY <1>9
<1>11. PICK b : b = Goes(at, t, "loose")
    OBVIOUS
<1>12. /\ b \in [Tags -> Places] /\ b[t] = "loose" /\ \A y \in Tags \ {t} : b[y] = at[y]
    BY <1>7, <1>11 DEF Goes, Places
<1>13. {NoTag} \ {NoTag} = At(b, "wait")
    BY <1>9, <1>10, <1>12 DEF At
<1>14. Sound(sched, NoTag, b, {})
    BY <1>6, <1>9, <1>10, <1>11, <1>13, WaitSound
<1>15. PICK r : r = sched.req[t]
    OBVIOUS
<1>16. PICK d : d = Ends(work, 0)
    OBVIOUS
<1>17. r.code = "READ" /\ ReadFits(r, F, d) /\ ~sched.eraseFlag[r.block]
    BY <1>2, <1>3, <1>10, <1>15, <1>16 DEF WaitOK
<1>18. Due(sched, r, F, F, d)
    BY <1>17 DEF Due, Follows, Allowed
<1>19. u = SelectLowLevelReqQ(sched, t)
    BY <1>1, <1>10
<1>20. Ordered(u, Pend(u), F, d, flash) /\ Linked(u, NoTag)
    <2>1. sched.nextBlocking[t] = NoTag /\ Linked(sched, NoTag)
        BY <1>3, <1>10, TagFact DEF Linked
    <2>2. Ordered(u, Pend(u), F, d, flash)
        BY <1>4, <1>5, <1>12, <1>14, <1>15, <1>18, <1>19, <2>1, SelectOrdered
    <2>3. Linked(u, NoTag)
        BY <1>12, <1>14, <1>19, <2>1, SelectLinked
    <2>4. QED
        BY <2>2, <2>3
<1>21. Further(sched, u, r)
    BY <1>12, <1>14, <1>15, <1>19, SelectFurther
<1>22. /\ \E q \in {"nand", "row", "dma", "buf"} : Sound(u, NoTag, Goes(b, t, q), {})
       /\ u.held = sched.held
    BY <1>12, <1>14, <1>19, SelectLowLevelSound
<1>23. PICK q \in {"nand", "row", "dma", "buf"} : Sound(u, NoTag, Goes(b, t, q), {})
    BY <1>22
<1>24. u \in Shape
    BY <1>23, SoundFacts
<1>25. InOrder(u, NoTag)
    <2>1. PICK a : a = Goes(b, t, q)
        OBVIOUS
    <2>2. a[t] = q /\ \A y \in Tags \ {t} : a[y] = at[y]
        BY <1>12, <2>1 DEF Goes
    <2>3. Settled(a)
        BY <1>6, <2>2 DEF Settled
    <2>4. QED
        BY <1>23, <2>1, <2>3 DEF InOrder
<1>26. Takes(work, Len(u.held), 0) /\ work \in Seq(Callable)
    BY <1>22 DEF OrderInv, ReqInv, Takes
<1>27. AllowedFrom(u, work, 0)
    <2>1. r.code # "ERASE" /\ 0 \in Nat
        BY <1>17
    <2>2. QED
        BY <1>3, <1>7, <1>21, <1>24, <1>26, <2>1, AllowedOn
<1>28. PICK G : G = View(ftl)
    OBVIOUS
<1>29. Rest(sched', waiting', work', G, flash)
    BY <1>2, <1>3, <1>16, <1>20, <1>25, <1>26, <1>27, <1>28, RunOrdered
<1>30. QED
    BY <1>2, <1>28, <1>29

(* Going on when all requests are done (SyncAllLowLevelReqDone) keeps the  *)
(* order.                                                                  *)
LEMMA AllDoneOrder ==
    ASSUME OrderInv, AllDone
    PROVE  Rest(sched', waiting', work', View(ftl'), flash')
<1>1. PICK q : q = Tail(work)
    OBVIOUS
<1>2. /\ waiting = NoTag /\ work # <<>> /\ Head(work) = Sync /\ sched.blocked = 0
      /\ Run(sched, q) /\ ftl' = ftl /\ flash' = flash
    BY <1>1 DEF AllDone, Syncing
<1>3. InOrder(sched, NoTag) /\ Takes(work, Len(sched.held), 0) /\ work \in Seq(Callable)
    BY <1>2 DEF OrderInv, ReqInv, Takes
<1>4. Takes(q, Len(sched.held), 0) /\ q \in Seq(Callable)
    <2>1. Takes(q, Len(sched.held), 0)
        BY <1>1, <1>2, <1>3, TakesTail
    <2>2. QED
        BY <2>1 DEF Takes
<1>5. PICK F : /\ Plan(work, F, View(ftl))
               /\ Ordered(sched, Pend(sched), F, Ends(work, 0) /\ waiting = NoTag, flash)
               /\ AllowedFrom(sched, work, 0) /\ Linked(sched, waiting)
    BY DEF OrderInv, Rest
<1>6. PICK G : G = View(ftl)
    OBVIOUS
<1>7. PICK g : PlanBy(g, work, F, G)
    BY <1>5, <1>6 DEF Plan
<1>8. PICK n \in Nat : n = Len(work)
    BY <1>3
<1>9. 1 \in 0 .. n /\ 1 \in 1 .. n /\ 1 - 1 = 0
    BY <1>2, <1>3, <1>8
<1>10. LeftOver(q, work, 1)
    BY <1>1, <1>2, <1>3, <1>4, <1>8 DEF LeftOver
<1>11. Plan(q, g[1], G) /\ AllowedFrom(sched, q, 0)
    <2>1. Plan(q, g[1], G)
        BY <1>3, <1>7, <1>8, <1>9, <1>10, PlanRest
    <2>2. AllowedFrom(sched, work, 1)
        BY <1>5, <1>8 DEF AllowedFrom
    <2>3. \A s : AllowedFrom(s, work, 1) => AllowedFrom(s, q, 0)
        BY <1>3, <1>7, <1>8, <1>9, <1>10, PlanRest
    <2>4. QED
        BY <2>1, <2>2, <2>3
<1>12. g[1] = F
    <2>1. work[1] = Sync
        BY <1>2, <1>3
    <2>2. Follows(work[1], g[0], g[1]) /\ g[0] = F
        BY <1>7, <1>8, <1>9 DEF PlanBy
    <2>3. Sync.code \notin {"WRITE", "ERASE"}
        BY DEF Sync, Dma, Request
    <2>4. QED
        BY <2>1, <2>2, <2>3 DEF Follows
<1>13. PICK at : Sound(sched, waiting, at, {}) /\ Settled(at)
    BY DEF OrderInv, ReqInv, InOrder
<1>14. Pend(sched) = {}
    BY <1>2, <1>13, NoneBlocked
<1>15. Ordered(sched, Pend(sched), F, Ends(q, 0), flash)
    BY <1>5, <1>14, OrderedNone
<1>16. Rest(sched', waiting', work', G, flash)
    <2>1. Linked(sched, NoTag)
        BY <1>2, <1>5
    <2>2. QED
        BY <1>2, <1>3, <1>4, <1>11, <1>12, <1>15, <2>1, RunOrdered
<1>17. QED
    BY <1>2, <1>6, <1>16
-----------------------------------------------------------------------------

(* What OrderInv says of the types. *)
LEMMA OrderFacts ==
    ASSUME OrderInv
    PROVE  /\ \E at : Sound(sched, waiting, at, {}) /\ Settled(at)
           /\ sched \in Shape /\ (waiting # NoTag => waiting \in Tags)
           /\ work \in Seq(Callable) /\ flash \in [Blocks -> States]
<1>1. PICK at : Sound(sched, waiting, at, {}) /\ Settled(at)
    BY DEF OrderInv, ReqInv, InOrder
<1>2. sched \in Shape /\ {waiting} \ {NoTag} = At(at, "wait")
    BY <1>1, SoundFacts, CoreFacts
<1>3. waiting # NoTag => waiting \in Tags
    BY <1>2 DEF At
<1>4. work \in Seq(Callable) /\ flash \in [Blocks -> States]
    BY DEF OrderInv, ReqInv, Takes
<1>5. QED
    BY <1>1, <1>2, <1>3, <1>4

(* Where the requests handed down leave the blocks. *)
HandedView(F) ==
    /\ F \in [Blocks -> States]
    /\ Plan(work, F, View(ftl))
    /\ WaitOK(sched, waiting, F, Ends(work, 0))
    /\ AllowedFrom(sched, work, 0)
    /\ InTurn(sched, waiting, F, Ends(work, 0) /\ waiting = NoTag, flash, sched)

(* What OrderInv says of the requests handed down. *)
LEMMA OrderTurn ==
    ASSUME OrderInv
    PROVE  \E F : HandedView(F)
<1>1. PICK F : /\ Plan(work, F, View(ftl))
               /\ Ordered(sched, Pend(sched), F, Ends(work, 0) /\ waiting = NoTag, flash)
               /\ WaitOK(sched, waiting, F, Ends(work, 0))
               /\ AllowedFrom(sched, work, 0) /\ Linked(sched, waiting)
    BY DEF OrderInv, Rest
<1>2. F \in [Blocks -> States]
    <2>1. PICK g : PlanBy(g, work, F, View(ftl))
        BY <1>1 DEF Plan
    <2>2. work \in Seq(Callable)
        BY OrderFacts
    <2>3. 0 \in 0 .. Len(work)
        BY <2>2
    <2>4. QED
        BY <2>1, <2>3 DEF PlanBy
<1>3. Since(sched, sched, waiting)
    BY OrderFacts, SinceSelf
<1>4. QED
    BY <1>1, <1>2, <1>3 DEF InTurn, Turned, HandedView

(* Completed transfers keep the order. *)
LEMMA DmaDoneOrder ==
    ASSUME OrderInv, NEW done, DmaDone(done), ReqInv'
    PROVE  Rest(sched', waiting', work', View(ftl'), flash')
<1>1. PICK at : Sound(sched, waiting, at, {}) /\ Settled(at)
    BY OrderFacts
<1>2. sched \in Shape /\ Core(sched, waiting, at)
    BY <1>1, SoundFacts
<1>3. PICK d : d = sched.dmaQ
    OBVIOUS
<1>4. d \in Seq(Tags) /\ Lists(d, At(at, "dma"))
    BY <1>2, <1>3, CoreFacts DEF Shape
<1>5. PICK q : q = Reverse(d)
    OBVIOUS
<1>6. q \in Seq(Tags) /\ Once(q) /\ \A j \in 1 .. Len(q) : q[j] \in Range(d)
    BY <1>4, <1>5, ReverseFact DEF Lists
<1>7. \A j \in 1 .. Len(q) : at[q[j]] = "dma"
    BY <1>4, <1>6 DEF Lists, At
<1>8. PICK u : u = FoldLeft(WalkDma, [sched |-> sched, done |-> done], q).sched
    OBVIOUS
<1>9. sched' = u /\ waiting' = waiting /\ work' = work /\ ftl' = ftl /\ flash' = flash
    BY <1>3, <1>5, <1>8 DEF DmaDone
<1>10. PICK F : HandedView(F)
    BY OrderTurn
<1>11. PICK e : e = (Ends(work, 0) /\ waiting = NoTag)
    OBVIOUS
<1>12. F \in [Blocks -> States] /\ InTurn(sched, waiting, F, e, flash, sched)
    BY <1>10, <1>11 DEF HandedView
<1>13. InTurn(u, waiting, F, e, flash, sched)
    BY <1>1, <1>2, <1>6, <1>7, <1>8, <1>12, WalkAllOrdered
<1>14. InTurn(u, waiting, F, Ends(work, 0) /\ waiting = NoTag, flash, sched)
    BY <1>11, <1>13
<1>15. PICK G : G = View(ftl)
    OBVIOUS
<1>16. u \in Shape
    <2>1. InOrder(u, waiting)
        BY <1>9 DEF ReqInv
    <2>2. QED
        BY <2>1, SoundFacts DEF InOrder
<1>17. /\ waiting # NoTag => waiting \in Tags
       /\ work \in Seq(Callable)
    BY OrderFacts
<1>18. Rest(u, waiting, work, G, flash)
    BY <1>2, <1>10, <1>14, <1>15, <1>16, <1>17, RestSince DEF HandedView
<1>19. QED
    BY <1>9, <1>15, <1>18

(* What a way does with a request that fits its block. *)
LEMMA EffectDoes ==
    ASSUME flash \in [Blocks -> States], NEW r \in Requests, NandReq(r)
    PROVE  Does(r, flash, Effect(r)) /\ Effect(r) \in [Blocks -> States]
<1>1. r.block \in Blocks /\ r.page \in Nat /\ r.cycle \in Int
    BY DEF NandReq, Requests
<1>2. CASE r.code = "WRITE"
    <2>1. After(r, flash[r.block]) = State(r.cycle, r.page + 1)
        BY <1>2 DEF After
    <2>2. Effect(r) = [flash EXCEPT ![r.block] = State(r.cycle, r.page + 1)]
        BY <1>2 DEF Effect, State
    <2>3. State(r.cycle, r.page + 1) \in States
        BY <1>1 DEF State, States
    <2>4. QED
        BY <1>1, <2>1, <2>2, <2>3 DEF Does
<1>3. CASE r.code = "ERASE"
    <2>1. After(r, flash[r.block]) = State(1 - r.cycle, 0)
        BY <1>3 DEF After
    <2>2. Effect(r) = [flash EXCEPT ![r.block] = State(1 - r.cycle, 0)]
        BY <1>3 DEF Effect, State
    <2>3. State(1 - r.cycle, 0) \in States
        BY <1>1 DEF State, States
    <2>4. QED
        BY <1>1, <2>1, <2>2, <2>3 DEF Does
<1>4. CASE r.code = "READ"
    <2>1. After(r, flash[r.block]) = flash[r.block]
        BY <1>4 DEF After
    <2>2. Effect(r) = flash
        BY <1>4 DEF Effect
    <2>3. flash = [flash EXCEPT ![r.block] = flash[r.block]]
        BY <1>1
    <2>4. QED
        BY <2>1, <2>2, <2>3 DEF Does
<1>5. QED
    BY <1>2, <1>3, <1>4 DEF NandReq, FlashCodes

(* A completed flash operation keeps the order. *)
LEMMA NandDoneOrder ==
    ASSUME OrderInv, NEW w \in Ways, NandDone(w), ReqInv'
    PROVE  /\ Rest(sched', waiting', work', View(ftl'), flash')
           /\ flash' \in [Blocks -> States]
<1>1. PICK at : Sound(sched, waiting, at, {}) /\ Settled(at)
    BY OrderFacts
<1>2. PICK t : t = Head(sched.nandQ[w])
    OBVIOUS
<1>3. PICK v : v = HeadDone(sched, w)
    OBVIOUS
<1>4. PICK r : r = sched.req[t]
    OBVIOUS
<1>5. /\ sched.nandQ[w] # <<>> /\ waiting' = waiting /\ work' = work /\ ftl' = ftl
      /\ sched' = IF v.nandQ[w] = <<>> THEN ReleaseBlockedByRowAddrDepReq(v, w) ELSE v
      /\ flash' = Effect(r)
    BY <1>2, <1>3, <1>4 DEF NandDone, LooksAtBlocked, HeadDone, HeadLeft
<1>6. PICK h : h = HeadLeft(sched, w)
    OBVIOUS
<1>7. t \in Tags /\ at[t] = "nand"
    BY <1>1, <1>2, <1>5, <1>6, NandLeft
<1>8. r \in Requests /\ NandReq(r)
    BY <1>1, <1>4, <1>7, SoundFacts
<1>9. PICK F : HandedView(F)
    BY OrderTurn
<1>10. PICK e : e = (Ends(work, 0) /\ waiting = NoTag)
    OBVIOUS
<1>11. F \in [Blocks -> States] /\ InTurn(sched, waiting, F, e, flash, sched)
    BY <1>9, <1>10 DEF HandedView
<1>12. PICK gl : gl = Effect(r)
    OBVIOUS
<1>13. flash \in [Blocks -> States] /\ sched \in Shape
    BY OrderFacts
<1>14. Does(r, flash, gl) /\ gl \in [Blocks -> States]
    BY <1>8, <1>12, <1>13, EffectDoes
<1>15. InTurn(v, waiting, F, e, gl, sched)
    BY <1>1, <1>2, <1>3, <1>4, <1>5, <1>11, <1>13, <1>14, HeadDoneOrdered
<1>16. \E a : Sound(v, waiting, a, {w})
    <2>1. Ended(sched, v, waiting, at, {} \cup {w}, t)
        BY <1>1, <1>2, <1>3, <1>5, NandEndSound
    <2>2. {} \cup {w} = {w}
        OBVIOUS
    <2>3. QED
        BY <2>1, <2>2 DEF Ended
<1>17. PICK a : Sound(v, waiting, a, {w})
    BY <1>16
<1>18. InTurn(sched', waiting, F, e, gl, sched)
    <2>1. CASE v.nandQ[w] = <<>>
        <3>1. PICK u : u = ReleaseBlockedByRowAddrDepReq(v, w)
            OBVIOUS
        <3>2. InTurn(u, waiting, F, e, gl, sched)
            BY <1>11, <1>13, <1>15, <1>17, <3>1, ReleaseAllOrdered
        <3>3. QED
            BY <1>5, <2>1, <3>1, <3>2
    <2>2. CASE v.nandQ[w] # <<>>
        BY <1>5, <1>15, <2>2
    <2>3. QED
        BY <2>1, <2>2
<1>19. PICK u : u = sched'
    OBVIOUS
<1>20. InTurn(u, waiting, F, Ends(work, 0) /\ waiting = NoTag, gl, sched)
    BY <1>10, <1>18, <1>19
<1>21. PICK G : G = View(ftl)
    OBVIOUS
<1>22. u \in Shape
    <2>1. InOrder(u, waiting)
        BY <1>5, <1>19 DEF ReqInv
    <2>2. QED
        BY <2>1, SoundFacts DEF InOrder
<1>23. /\ waiting # NoTag => waiting \in Tags
       /\ work \in Seq(Callable)
    BY OrderFacts
<1>24. Rest(u, waiting, work, G, gl)
    BY <1>9, <1>13, <1>20, <1>21, <1>22, <1>23, RestSince DEF HandedView
<1>25. QED
    BY <1>5, <1>12, <1>14, <1>19, <1>21, <1>24
-----------------------------------------------------------------------------

(* Of the requests q none is the wait for all others.                      *)
NoSync(q) == \A k \in 1 .. Len(q) : q[k] # Sync

(* What the requests p erase, the requests q neither write nor erase.      *)
Apart(p, q) ==
    \A i \in 1 .. Len(p), k \in 1 .. Len(q) :
        p[i].code = "ERASE" /\ q[k].code \in {"WRITE", "ERASE"} => q[k].block # p[i].block

(* What a read fits, it fits with less reason too. *)
LEMMA ReadFitsMore ==
    ASSUME NEW r, NEW F, NEW d, NEW e, ReadFits(r, F, d), d => e
    PROVE  ReadFits(r, F, e)
BY DEF ReadFits

(* No request, no change. *)
LEMMA PlanNone ==
    ASSUME NEW F \in [Blocks -> States]
    PROVE  Plan(<<>>, F, F)
<1>1. PICK q : q = <<>>
    OBVIOUS
<1>2. PICK g : g = [k \in 0 .. 0 |-> F]
    OBVIOUS
<1>3. Len(q) = 0 /\ 0 \in 0 .. 0 /\ 1 .. 0 = {}
    BY <1>1
<1>4. g \in [0 .. 0 -> [Blocks -> States]] /\ g[0] = F
    BY <1>2, <1>3
<1>5. Tidy(q)
    BY <1>3 DEF Tidy
<1>6. Plan(q, F, F)
    BY <1>3, <1>4, <1>5 DEF Plan, PlanBy
<1>7. QED
    BY <1>1, <1>6

(* One request is a plan. *)
LEMMA PlanOne ==
    ASSUME NEW F \in [Blocks -> States], NEW G \in [Blocks -> States], NEW r,
           Follows(r, F, G), ReadFits(r, F, FALSE)
    PROVE  Plan(<<r>>, F, G)
<1>1. PICK q : q = <<r>>
    OBVIOUS
<1>2. PICK g : g = [k \in 0 .. 1 |-> IF k = 0 THEN F ELSE G]
    OBVIOUS
<1>3. /\ Len(q) = 1 /\ q[1] = r
      /\ 0 \in 0 .. 1 /\ 1 \in 0 .. 1 /\ 1 # 0 /\ 1 - 1 = 0
      /\ \A k \in 1 .. 1 : k = 1
    BY <1>1
<1>4. g \in [0 .. 1 -> [Blocks -> States]] /\ g[0] = F /\ g[1] = G
    BY <1>2, <1>3
<1>5. ReadFits(r, F, Ends(q, 1))
    BY ReadFitsMore
<1>6. ASSUME NEW k \in 1 .. 1
      PROVE  Follows(q[k], g[k - 1], g[k]) /\ ReadFits(q[k], g[k - 1], Ends(q, k))
    BY <1>3, <1>4, <1>5
<1>7. Tidy(q)
    BY <1>3 DEF Tidy
<1>8. Plan(q, F, G)
    BY <1>3, <1>4, <1>6, <1>7 DEF Plan, PlanBy
<1>9. QED
    BY <1>1, <1>8

(* A read, and the wait for all requests. *)
LEMMA LoadPlanned ==
    ASSUME NEW F \in [Blocks -> States], NEW r, r.code = "READ", NEW d \in BOOLEAN,
           ReadFits(r, F, d), NEW q, q = <<r, Sync>>
    PROVE  \E g : PlanBy(g, q, F, F) /\ \A k \in 1 .. Len(q) : ReadFits(q[k], g[k - 1], d)
<1>2. PICK g : g = [k \in 0 .. 2 |-> F]
    OBVIOUS
<1>3. /\ Len(q) = 2 /\ q[1] = r /\ q[2] = Sync
      /\ 0 \in 0 .. 2 /\ 2 \in 0 .. 2 /\ 1 + 1 = 2
      /\ \A k \in 1 .. 2 : k \in 0 .. 2 /\ k - 1 \in 0 .. 2
      /\ \A k \in 1 .. 2 : k = 1 \/ k = 2
    OBVIOUS
<1>4. /\ g \in [0 .. 2 -> [Blocks -> States]] /\ g[0] = F /\ g[2] = F
      /\ \A k \in 1 .. 2 : g[k - 1] = F /\ g[k] = F
    BY <1>2, <1>3
<1>5. Sync.code \notin {"READ", "WRITE", "ERASE"}
    BY DEF Sync, Dma, Request
<1>6. Ends(q, 1)
    BY <1>3 DEF Ends
<1>7. ReadFits(r, F, Ends(q, 1))
    BY <1>6, ReadFitsMore
<1>8. ReadFits(Sync, F, Ends(q, 2)) /\ ReadFits(Sync, F, d)
    BY <1>5 DEF ReadFits
<1>9. Follows(r, F, F) /\ Follows(Sync, F, F)
    BY <1>5 DEF Follows
<1>10. ASSUME NEW k \in 1 .. 2
       PROVE  /\ Follows(q[k], g[k - 1], g[k])
              /\ ReadFits(q[k], g[k - 1], Ends(q, k)) /\ ReadFits(q[k], g[k - 1], d)
    <2>1. g[k - 1] = F /\ g[k] = F
        BY <1>4
    <2>2. CASE k = 1
        BY <1>3, <1>7, <1>9, <2>1, <2>2
    <2>3. CASE k = 2
        BY <1>3, <1>8, <1>9, <2>1, <2>3
    <2>4. QED
        BY <1>3, <2>2, <2>3
<1>11. Tidy(q)
    <2>1. \A k \in 1 .. 2 : q[k].code # "ERASE"
        BY <1>3, <1>5
    <2>2. QED
        BY <1>3, <2>1 DEF Tidy
<1>12. PlanBy(g, q, F, F)
    BY <1>3, <1>4, <1>10, <1>11 DEF PlanBy
<1>13. QED
    BY <1>3, <1>10, <1>12

LEMMA PlanLoad ==
    ASSUME NEW F \in [Blocks -> States], NEW r, r.code = "READ", ReadFits(r, F, TRUE)
    PROVE  Plan(<<r, Sync>>, F, F)
<1>1. PICK q, d : q = <<r, Sync>> /\ d = TRUE /\ d \in BOOLEAN
    OBVIOUS
<1>2. ReadFits(r, F, d)
    BY <1>1
<1>3. \E g : PlanBy(g, q, F, F)
    BY <1>1, <1>2, LoadPlanned
<1>4. QED
    BY <1>1, <1>3 DEF Plan

(* One part of a call after another. *)
LEMMA PlanByConcat ==
    ASSUME NEW p \in Seq(Callable), NEW q \in Seq(Callable), NEW F, NEW H, NEW G,
           NEW g, PlanBy(g, p, F, H), \A k \in 1 .. Len(p) : ReadFits(p[k], g[k - 1], FALSE),
           Plan(q, H, G), Apart(p, q)
    PROVE  Plan(p \o q, F, G)
<1>1. PICK P \in Nat, Q \in Nat : P = Len(p) /\ Q = Len(q)
    OBVIOUS
<1>2. PlanBy(g, p, F, H)
    OBVIOUS
<1>3. PICK h : PlanBy(h, q, H, G)
    BY DEF Plan
<1>4. /\ g \in [0 .. P -> [Blocks -> States]] /\ g[0] = F /\ g[P] = H
      /\ \A k \in 1 .. P : Follows(p[k], g[k - 1], g[k])
      /\ \A k \in 1 .. P : ReadFits(p[k], g[k - 1], Ends(p, k))
    BY <1>1, <1>2 DEF PlanBy
<1>5. /\ h \in [0 .. Q -> [Blocks -> States]] /\ h[0] = H /\ h[Q] = G
      /\ \A k \in 1 .. Q : Follows(q[k], h[k - 1], h[k])
      /\ \A k \in 1 .. Q : ReadFits(q[k], h[k - 1], Ends(q, k))
    BY <1>1, <1>3 DEF PlanBy
<1>6. PICK s : s = p \o q
    OBVIOUS
<1>7. /\ s \in Seq(Callable) /\ Len(s) = P + Q
      /\ \A k \in 1 .. P + Q : s[k] = IF k <= P THEN p[k] ELSE q[k - P]
    BY <1>1, <1>6, ConcatProperties
<1>8. PICK f : f = [k \in 0 .. P + Q |-> IF k <= P THEN g[k] ELSE h[k - P]]
    OBVIOUS
<1>9. \A k \in 0 .. P + Q : k <= P => k \in 0 .. P
    BY <1>1
<1>10. \A k \in 0 .. P + Q : ~(k <= P) => k - P \in 1 .. Q /\ k - P \in 0 .. Q
    BY <1>1
<1>11. \A k \in 0 .. P + Q : f[k] \in [Blocks -> States]
    <2>1. ASSUME NEW k \in 0 .. P + Q PROVE f[k] \in [Blocks -> States]
        <3>1. CASE k <= P
            BY <1>4, <1>8, <1>9, <3>1
        <3>2. CASE ~(k <= P)
            BY <1>5, <1>8, <1>10, <3>2
        <3>3. QED
            BY <3>1, <3>2
    <2>2. QED
        BY <2>1
<1>12. f \in [0 .. P + Q -> [Blocks -> States]]
    BY <1>8, <1>11
<1>13. f[0] = F
    <2>1. 0 \in 0 .. P + Q /\ 0 <= P
        BY <1>1
    <2>2. QED
        BY <1>4, <1>8, <2>1
<1>14. f[P + Q] = G
    <2>1. P + Q \in 0 .. P + Q /\ (P + Q <= P => P + Q = P /\ Q = 0) /\ (P + Q) - P = Q
        BY <1>1
    <2>2. CASE P + Q <= P
        BY <1>4, <1>5, <1>8, <2>1, <2>2
    <2>3. CASE ~(P + Q <= P)
        BY <1>5, <1>8, <2>1, <2>3
    <2>4. QED
        BY <2>2, <2>3
<1>15. ASSUME NEW k \in 1 .. P, NEW e PROVE ReadFits(p[k], g[k - 1], e)
    <2>1. ReadFits(p[k], g[k - 1], FALSE)
        BY <1>1
    <2>2. QED
        BY <2>1, ReadFitsMore
<1>16. ASSUME NEW k \in 1 .. Q PROVE Ends(q, k) => Ends(s, P + k)
    <2>1. SUFFICES ASSUME Ends(q, k) PROVE Ends(s, P + k)
        OBVIOUS
    <2>2. k + 1 = Q /\ q[k + 1] = Sync
        BY <1>1, <2>1 DEF Ends
    <2>3. (P + k) + 1 = P + Q /\ (P + k) + 1 \in 1 .. P + Q /\ ~((P + k) + 1 <= P)
          /\ ((P + k) + 1) - P = k + 1
        BY <1>1, <2>2
    <2>4. s[(P + k) + 1] = q[k + 1]
        BY <1>7, <2>3
    <2>5. QED
        BY <1>7, <2>2, <2>3, <2>4 DEF Ends
<1>17. ASSUME NEW k \in 1 .. P + Q
       PROVE  Follows(s[k], f[k - 1], f[k]) /\ ReadFits(s[k], f[k - 1], Ends(s, k))
    <2>1. k \in 0 .. P + Q /\ k - 1 \in 0 .. P + Q
        BY <1>1
    <2>2. CASE k <= P
        <3>1. k - 1 <= P /\ k \in 1 .. P
            BY <1>1, <2>2
        <3>2. f[k] = g[k] /\ f[k - 1] = g[k - 1] /\ s[k] = p[k]
            BY <1>7, <1>8, <2>1, <2>2, <3>1
        <3>3. Follows(p[k], g[k - 1], g[k])
            BY <1>4, <3>1
        <3>4. ReadFits(p[k], g[k - 1], Ends(s, k))
            BY <1>15, <3>1
        <3>5. QED
            BY <3>2, <3>3, <3>4
    <2>3. CASE ~(k <= P)
        <3>1. PICK i \in 1 .. Q : i = k - P
            BY <1>10, <2>1, <2>3
        <3>2. P + i = k /\ i - 1 \in 0 .. Q /\ k - P = i /\ (k - 1) - P = i - 1
              /\ (k - 1 <= P => k - 1 = P /\ i - 1 = 0)
            BY <1>1, <2>3, <3>1
        <3>3. f[k] = h[i] /\ s[k] = q[i]
            BY <1>7, <1>8, <2>1, <2>3, <3>2
        <3>4. f[k - 1] = h[i - 1]
            <4>1. CASE k - 1 <= P
                BY <1>4, <1>5, <1>8, <2>1, <3>2, <4>1
            <4>2. CASE ~(k - 1 <= P)
                BY <1>8, <2>1, <3>2, <4>2
            <4>3. QED
                BY <4>1, <4>2
        <3>5. Follows(q[i], h[i - 1], h[i])
            BY <1>5
        <3>6. ReadFits(q[i], h[i - 1], Ends(q, i)) /\ (Ends(q, i) => Ends(s, k))
            BY <1>5, <1>16, <3>2
        <3>7. ReadFits(q[i], h[i - 1], Ends(s, k))
            BY <3>6, ReadFitsMore
        <3>8. QED
            BY <3>3, <3>4, <3>5, <3>7
    <2>4. QED
        BY <2>2, <2>3
<1>18. Tidy(s)
    <2>1. SUFFICES ASSUME NEW i \in 1 .. P + Q, NEW k \in 1 .. P + Q, i < k,
                          s[i].code = "ERASE", s[k].code \in {"WRITE", "ERASE"}
                   PROVE  s[k].block # s[i].block
        BY <1>7 DEF Tidy
    <2>2. CASE k <= P
        <3>1. i \in 1 .. P /\ k \in 1 .. P /\ s[i] = p[i] /\ s[k] = p[k]
            BY <1>1, <1>7, <2>1, <2>2
        <3>2. QED
            BY <1>1, <1>2, <2>1, <3>1 DEF PlanBy, Tidy
    <2>3. CASE i <= P /\ ~(k <= P)
        <3>1. i \in 1 .. P /\ k - P \in 1 .. Q /\ s[i] = p[i] /\ s[k] = q[k - P]
            BY <1>1, <1>7, <2>1, <2>3
        <3>2. QED
            BY <1>1, <2>1, <3>1 DEF Apart
    <2>4. CASE ~(i <= P)
        <3>1. ~(k <= P)
            BY <1>1, <2>1, <2>4
        <3>2. i - P \in 1 .. Q /\ k - P \in 1 .. Q /\ i - P < k - P
            BY <1>1, <2>1, <2>4, <3>1
        <3>3. s[i] = q[i - P] /\ s[k] = q[k - P]
            BY <1>7, <2>4, <3>1
        <3>4. QED
            BY <1>1, <1>3, <2>1, <3>2, <3>3 DEF PlanBy, Tidy
    <2>5. QED
        BY <2>2, <2>3, <2>4
<1>19. Plan(s, F, G)
    BY <1>7, <1>12, <1>13, <1>14, <1>17, <1>18 DEF Plan, PlanBy
<1>20. QED
    BY <1>6, <1>19

LEMMA PlanConcat ==
    ASSUME NEW p \in Seq(Callable), NEW q \in Seq(Callable), NEW F, NEW H, NEW G,
           Plan(p, F, H), Plan(q, H, G), NoSync(p), Apart(p, q)
    PROVE  Plan(p \o q, F, G)
<1>1. PICK g : PlanBy(g, p, F, H)
    BY DEF Plan
<1>2. ASSUME NEW k \in 1 .. Len(p) PROVE ReadFits(p[k], g[k - 1], FALSE)
    <2>1. ~Ends(p, k)
        <3>1. Ends(p, k) => k + 1 \in 1 .. Len(p) /\ p[k + 1] = Sync
            BY DEF Ends
        <3>2. QED
            BY <3>1 DEF NoSync
    <2>2. ReadFits(p[k], g[k - 1], Ends(p, k))
        <3>1. \A i \in 1 .. Len(p) :
                  Follows(p[i], g[i - 1], g[i]) /\ ReadFits(p[i], g[i - 1], Ends(p, i))
            BY <1>1, Zenon DEF PlanBy
        <3>2. QED
            BY <3>1
    <2>3. QED
        BY <2>1, <2>2 DEF ReadFits
<1>3. QED
    BY <1>1, <1>2, PlanByConcat

(* What is read before the wait for all requests is read in its place, and *)
(* more may follow.                                                        *)
LEMMA PlanAfterLoad ==
    ASSUME NEW F \in [Blocks -> States], NEW r \in Callable, r.code = "READ",
           ReadFits(r, F, FALSE), NEW p, p = <<r, Sync>>,
           NEW q \in Seq(Callable), NEW G, Plan(q, F, G)
    PROVE  Plan(p \o q, F, G)
<1>1. PICK d : d = FALSE /\ d \in BOOLEAN
    OBVIOUS
<1>2. ReadFits(r, F, d)
    BY <1>1
<1>3. PICK g : PlanBy(g, p, F, F) /\ \A k \in 1 .. Len(p) : ReadFits(p[k], g[k - 1], d)
    BY <1>1, <1>2, LoadPlanned
<1>4. /\ p \in Seq(Callable) /\ Len(p) = 2 /\ p[1] = r /\ p[2] = Sync
      /\ \A k \in 1 .. 2 : k = 1 \/ k = 2
    BY WeightFact
<1>5. Sync.code # "ERASE"
    BY DEF Sync, Dma, Request
<1>6. Apart(p, q)
    BY <1>4, <1>5 DEF Apart
<1>7. QED
    BY <1>1, <1>3, <1>4, <1>6, PlanByConcat
-----------------------------------------------------------------------------

(* The blocks of the upper layers have states. *)
LEMMA ViewStates ==
    ASSUME NEW f, FtlBase(f)
    PROVE  View(f) \in [Blocks -> States]
<1>1. NumPages \in Nat
    BY ReqSizesAssumption DEF ReqSizesAssumption
<1>2. \A b \in Blocks : f.cycle[b] \in Int /\ f.currentPage[b] \in Nat
    BY <1>1, FtlTypes
<1>3. \A b \in Blocks : State(f.cycle[b], f.currentPage[b]) \in States
    BY <1>2 DEF State, States
<1>4. QED
    BY <1>3 DEF View

(* The state of a block, as the upper layers keep it. *)
LEMMA ViewAt ==
    ASSUME NEW f, NEW b \in Blocks
    PROVE  View(f)[b] = State(f.cycle[b], f.currentPage[b])
BY DEF View

(* The parts of a state. *)
LEMMA StateParts ==
    ASSUME NEW c, NEW p
    PROVE  State(c, p).cycle = c /\ State(c, p).pages = p
BY DEF State

(* What taking a page changes. *)
LEMMA UsedParts ==
    ASSUME NEW f, FtlBase(f), NEW w, NEW u, u = Used(f, w)
    PROVE  /\ u.currentPage = [f.currentPage EXCEPT ![f.current[w]] = @ + 1]
           /\ u.cycle = f.cycle /\ u.current = f.current
BY DEF FtlBase, Used

(* What requesting an erase changes. *)
LEMMA ErasedParts ==
    ASSUME NEW f, FtlBase(f), NEW b \in Blocks, NEW u, u = Erased(f, b)
    PROVE  /\ u.cycle[b] = 1 - f.cycle[b] /\ u.currentPage[b] = 0
           /\ \A d \in Blocks \ {b} :
                  u.cycle[d] = f.cycle[d] /\ u.currentPage[d] = f.currentPage[d]
           /\ u.freeBlocks[WayOf[b]] = Append(f.freeBlocks[WayOf[b]], b)
<1>1. /\ f.currentPage \in [Blocks -> 0 .. NumPages] /\ f.cycle \in [Blocks -> Int]
      /\ f.freeBlocks \in [Ways -> Seq(Blocks)] /\ WayOf[b] \in Ways
    BY FtlTypes, WayOfFact
<1>2. /\ u.currentPage = [f.currentPage EXCEPT ![b] = 0]
      /\ u.cycle = [f.cycle EXCEPT ![b] = 1 - @]
      /\ u.freeBlocks = [f.freeBlocks EXCEPT ![WayOf[b]] = Append(@, b)]
    BY DEF FtlBase, Erased
<1>3. QED
    BY <1>1, <1>2

(* A write for which the upper layers use a page follows what they keep.   *)
LEMMA UsedFollows ==
    ASSUME NEW f, FtlBase(f), NEW w \in Ways, NEW e, NEW r, r = WriteSlice(f, w, e),
           f.cycle[f.current[w]] = ftl.cycle[f.current[w]], NEW u, u = Used(f, w)
    PROVE  Follows(r, View(f), View(u))
<1>1. PICK b \in Blocks : b = f.current[w]
    BY FtlTypes
<1>2. PICK c, p : c = f.cycle[b] /\ p = f.currentPage[b]
    OBVIOUS
<1>3. r = [code |-> "WRITE", entry |-> e, block |-> b, page |-> p, cycle |-> c]
    BY <1>1, <1>2 DEF WriteSlice, Nand, Request
<1>4. r.code = "WRITE" /\ r.block = b /\ r.page = p /\ r.cycle = c
    BY <1>3
<1>5. Fits(r, View(f)[b])
    BY <1>2, <1>4, ViewAt, StateParts DEF Fits
<1>6. After(r, View(f)[b]) = State(c, p + 1)
    BY <1>4 DEF After
<1>7. u.cycle = f.cycle /\ u.currentPage = [f.currentPage EXCEPT ![b] = p + 1]
    BY <1>1, <1>2, UsedParts
<1>8. f.currentPage \in [Blocks -> 0 .. NumPages]
    BY FtlTypes
<1>9. /\ u.cycle[b] = c /\ u.currentPage[b] = p + 1
      /\ \A d \in Blocks \ {b} : u.cycle[d] = f.cycle[d] /\ u.currentPage[d] = f.currentPage[d]
    BY <1>2, <1>7, <1>8
<1>10. View(u) = [View(f) EXCEPT ![b] = State(c, p + 1)]
    BY <1>9 DEF View
<1>11. View(u) = [View(f) EXCEPT ![b] = After(r, @)]
    BY <1>6, <1>10
<1>12. QED
    BY <1>4, <1>5, <1>11 DEF Follows

(* And so does the erase with which they free a block. *)
LEMMA ErasedFollows ==
    ASSUME NEW f, FtlBase(f), NEW b \in Blocks, NEW r, r = EraseReq(b),
           f.cycle[b] = ftl.cycle[b], f.currentPage[b] = ftl.currentPage[b],
           NEW u, u = Erased(f, b)
    PROVE  Follows(r, View(f), View(u))
<1>1. PICK c, p : c = f.cycle[b] /\ p = f.currentPage[b]
    OBVIOUS
<1>2. r = [code |-> "ERASE", entry |-> NoEntry, block |-> b, page |-> p, cycle |-> c]
    BY <1>1 DEF EraseReq, Nand, Request
<1>3. r.code = "ERASE" /\ r.block = b /\ r.page = p /\ r.cycle = c
    BY <1>2
<1>4. Fits(r, View(f)[b])
    BY <1>1, <1>3, ViewAt, StateParts DEF Fits
<1>5. After(r, View(f)[b]) = State(1 - c, 0)
    BY <1>3 DEF After
<1>6. /\ u.cycle[b] = 1 - f.cycle[b] /\ u.currentPage[b] = 0
      /\ \A d \in Blocks \ {b} : u.cycle[d] = f.cycle[d] /\ u.currentPage[d] = f.currentPage[d]
    BY ErasedParts
<1>7. u.cycle[b] = 1 - c
    BY <1>1, <1>6
<1>9. View(u) = [View(f) EXCEPT ![b] = State(1 - c, 0)]
    BY <1>6, <1>7 DEF View
<1>10. View(u) = [View(f) EXCEPT ![b] = After(r, @)]
    BY <1>5, <1>9
<1>11. QED
    BY <1>3, <1>4, <1>10 DEF Follows

(* The view depends on cycles and page counters only. *)
LEMMA ViewSame ==
    ASSUME NEW f, NEW g, g.cycle = f.cycle, g.currentPage = f.currentPage
    PROVE  View(g) = View(f)
BY DEF View

(* A read and a write. *)
LEMMA PlanTwo ==
    ASSUME NEW F \in [Blocks -> States], NEW G \in [Blocks -> States], NEW x, NEW y,
           x.code = "READ", y.code = "WRITE", ReadFits(x, F, FALSE), Follows(y, F, G)
    PROVE  Plan(<<x, y>>, F, G)
<1>1. PICK q : q = <<x, y>>
    OBVIOUS
<1>2. PICK g : g = [k \in 0 .. 2 |-> IF k < 2 THEN F ELSE G]
    OBVIOUS
<1>3. /\ Len(q) = 2 /\ q[1] = x /\ q[2] = y
      /\ 0 \in 0 .. 2 /\ 1 \in 0 .. 2 /\ 2 \in 0 .. 2
      /\ 1 - 1 = 0 /\ 2 - 1 = 1
      /\ \A k \in 1 .. 2 : k = 1 \/ k = 2
    BY <1>1
<1>4. g \in [0 .. 2 -> [Blocks -> States]]
    BY <1>2
<1>5. g[0] = F /\ g[1] = F /\ g[2] = G
    BY <1>2, <1>3
<1>6. Follows(x, F, F) /\ ReadFits(x, F, Ends(q, 1))
    <2>1. Follows(x, F, F)
        BY DEF Follows
    <2>2. ReadFits(x, F, Ends(q, 1))
        BY ReadFitsMore
    <2>3. QED
        BY <2>1, <2>2
<1>7. ReadFits(y, F, Ends(q, 2))
    BY DEF ReadFits
<1>8. ASSUME NEW k \in 1 .. 2
      PROVE  Follows(q[k], g[k - 1], g[k]) /\ ReadFits(q[k], g[k - 1], Ends(q, k))
    <2>1. CASE k = 1
        BY <1>3, <1>5, <1>6, <2>1
    <2>2. CASE k = 2
        BY <1>3, <1>5, <1>7, <2>2
    <2>3. QED
        BY <1>3, <2>1, <2>2
<1>9. Tidy(q)
    <2>1. \A k \in 1 .. 2 : q[k].code # "ERASE"
        BY <1>3
    <2>2. QED
        BY <1>3, <2>1 DEF Tidy
<1>10. Plan(q, F, G)
    BY <1>3, <1>4, <1>5, <1>8, <1>9 DEF Plan, PlanBy
<1>11. QED
    BY <1>1, <1>10

(* A block that is not erased loses no page. *)
Ahead(f) == \A d \in Blocks : f.cycle[d] = ftl.cycle[d] => ftl.currentPage[d] <= f.currentPage[d]

(* Garbage collection of block b, by the requests q, leaves f for a write  *)
(* on way w, which goes to another block.                                  *)
CollectedOf(b, q, f, w) ==
    /\ b \in Blocks
    /\ Plan(q, View(ftl), View(f))
    /\ NoSync(q)
    /\ \A k \in 1 .. Len(q) : q[k].code \in {"READ", "ERASE"} => q[k].block = b
    /\ f.currentPage[b] = 0 /\ f.cycle[b] # ftl.cycle[b] /\ Ahead(f)
    /\ \A d \in Blocks \ {b} : f.cycle[d] = ftl.cycle[d]
    /\ IF CurrentFull(f, w) THEN Head(f.freeBlocks[w]) # b ELSE f.current[w] # b

(* The parts of a flash request. *)
LEMMA NandParts ==
    ASSUME NEW c, NEW e, NEW b, NEW p, NEW r, r = Nand(c, e, b, p)
    PROVE  r.code = c /\ r.block = b /\ r.page = p /\ r.cycle = ftl.cycle[b]
BY DEF Nand, Request

(* A flash operation is not a wait. *)
LEMMA SyncCode == \A r : r.code \in {"READ", "WRITE", "ERASE"} => r # Sync
BY DEF Sync, Dma, Request

(* A request at the end. *)
LEMMA AppendItems ==
    ASSUME NEW q \in Seq(Callable), NEW r \in Callable, NEW s, s = Append(q, r)
    PROVE  /\ s \in Seq(Callable)
           /\ NoSync(q) /\ r # Sync => NoSync(s)
           /\ \A k \in 1 .. Len(s) : r.code # "READ" /\ s[k].code = "READ" =>
                  \E i \in 1 .. Len(q) : s[k] = q[i]
<1>1. PICK n \in Nat : n = Len(q)
    OBVIOUS
<1>2. /\ s \in Seq(Callable) /\ Len(s) = n + 1 /\ s[n + 1] = r
      /\ \A k \in 1 .. n : s[k] = q[k]
    BY <1>1, AppendProperties
<1>3. \A k \in 1 .. n + 1 : k = n + 1 \/ k \in 1 .. n
    BY <1>1
<1>4. QED
    BY <1>1, <1>2, <1>3 DEF NoSync

(* The requests q copy slices of block b. *)
OnlyCopies(q, b) ==
    /\ q \in Seq(Callable) /\ NoSync(q)
    /\ \A k \in 1 .. Len(q) : /\ q[k].code # "ERASE"
                              /\ q[k].code = "READ" => q[k].block = b

(* Copies and more copies. *)
LEMMA MoreCopies ==
    ASSUME NEW p, NEW q, NEW b, OnlyCopies(p, b), OnlyCopies(q, b), NEW r, r = p \o q
    PROVE  OnlyCopies(r, b)
<1>1. p \in Seq(Callable) /\ q \in Seq(Callable) /\ NoSync(p) /\ NoSync(q)
    BY DEF OnlyCopies
<1>2. PICK P \in Nat, Q \in Nat : P = Len(p) /\ Q = Len(q)
    BY <1>1
<1>3. /\ r \in Seq(Callable) /\ Len(r) = P + Q
      /\ \A k \in 1 .. P + Q : r[k] = IF k <= P THEN p[k] ELSE q[k - P]
    BY <1>1, <1>2, ConcatProperties
<1>4. \A k \in 1 .. P + Q : (k <= P => k \in 1 .. P) /\ (~(k <= P) => k - P \in 1 .. Q)
    BY <1>2
<1>5. /\ \A k \in 1 .. P : p[k] # Sync /\ p[k].code # "ERASE" /\ (p[k].code = "READ" => p[k].block = b)
      /\ \A k \in 1 .. Q : q[k] # Sync /\ q[k].code # "ERASE" /\ (q[k].code = "READ" => q[k].block = b)
    BY <1>1, <1>2 DEF OnlyCopies, NoSync
<1>6. \A k \in 1 .. P + Q :
          r[k] # Sync /\ r[k].code # "ERASE" /\ (r[k].code = "READ" => r[k].block = b)
    BY <1>3, <1>4, <1>5
<1>7. QED
    BY <1>3, <1>6 DEF OnlyCopies, NoSync

(* With c, slices of block b are copied as the maps say. *)
CopiedOrder(c, b) ==
    /\ OnlyCopies(c.reqs, b)
    /\ Plan(c.reqs, View(ftl), View(c.next))
    /\ c.next.cycle = ftl.cycle

LEMMA CopyOrder ==
    ASSUME FtlBase(ftl), NEW w \in Ways, NEW b \in Blocks, ftl.currentPage[b] = NumPages,
           NEW t, t.currentPage = ftl.currentPage, b # t.current[w],
           NEW k \in Nat, k < NumPages, NEW c, Copied(c, w, b, t, k), CopiedOrder(c, b),
           NEW p \in Pages, NEW d, d = CopySlice(c, p)
    PROVE  CopiedOrder(d, b)
<1>1. PICK q, f : q = c.reqs /\ f = c.next
    OBVIOUS
<1>2. /\ c = [way |-> w, victim |-> b, reqs |-> q, next |-> f]
      /\ FtlBase(f) /\ f.current = t.current
      /\ f.currentPage[t.current[w]] = k
      /\ \A e \in Blocks \ {t.current[w]} : f.currentPage[e] = t.currentPage[e]
    BY <1>1 DEF Copied
<1>3. OnlyCopies(q, b) /\ Plan(q, View(ftl), View(f)) /\ f.cycle = ftl.cycle
    BY <1>1 DEF CopiedOrder
<1>4. PICK x, y, g : x = Nand("READ", w, b, p) /\ y = WriteSlice(f, w, w) /\ g = Used(f, w)
    OBVIOUS
<1>5. PICK l : l = <<x, y>>
    OBVIOUS
<1>6. d.reqs = q \o l /\ d.next = g
    <2>1. d = [way |-> w, victim |-> b, reqs |-> q \o <<x, y>>, next |-> Used(f, w)]
        BY <1>2, <1>4 DEF CopySlice
    <2>2. QED
        BY <1>4, <1>5, <2>1
<1>7. FtlBase(g)
    BY <1>2, <1>4, UsedOK
<1>8. PICK F \in [Blocks -> States], H \in [Blocks -> States], G \in [Blocks -> States] :
          F = View(ftl) /\ H = View(f) /\ G = View(g)
    BY <1>2, <1>7, ViewStates
<1>9. /\ x.code = "READ" /\ x.block = b /\ x.page = p /\ x.cycle = ftl.cycle[b]
      /\ y.code = "WRITE"
    BY <1>4, NandParts DEF WriteSlice
<1>10. ReadFits(x, H, FALSE)
    <2>1. p < f.currentPage[b]
        BY <1>2, ReqSizesAssumption DEF Pages, ReqSizesAssumption
    <2>2. H[b].cycle = ftl.cycle[b] /\ H[b].pages = f.currentPage[b]
        BY <1>3, <1>8, ViewAt, StateParts
    <2>3. QED
        BY <1>9, <2>1, <2>2 DEF ReadFits
<1>11. Follows(y, H, G)
    BY <1>2, <1>3, <1>4, <1>8, UsedFollows
<1>12. Plan(l, H, G)
    BY <1>5, <1>8, <1>9, <1>10, <1>11, PlanTwo
<1>13. OnlyCopies(l, b)
    <2>1. x \in Callable
        <3>1. p \in Nat /\ "READ" \in FlashCodes /\ w \in Entries \cup {NoEntry}
            BY BufNoWay, ReqSizesAssumption DEF Pages, FlashCodes, ReqSizesAssumption
        <3>2. QED
            BY <1>4, <3>1, NandCallable
    <2>2. y \in Callable
        <3>1. w \in Entries \cup {NoEntry} /\ f.currentPage[f.current[w]] < NumPages
            BY <1>2, BufNoWay
        <3>2. QED
            BY <1>2, <1>4, <3>1, WriteSliceCallable
    <2>3. x # Sync /\ y # Sync
        BY <1>9, SyncCode
    <2>4. /\ l \in Seq(Callable) /\ Len(l) = 2 /\ l[1] = x /\ l[2] = y
          /\ \A i \in 1 .. 2 : i = 1 \/ i = 2
        BY <1>5, <2>1, <2>2
    <2>5. NoSync(l)
        BY <2>3, <2>4 DEF NoSync
    <2>6. QED
        BY <1>9, <2>4, <2>5 DEF OnlyCopies
<1>14. Plan(q \o l, F, G)
    <2>1. q \in Seq(Callable) /\ l \in Seq(Callable) /\ NoSync(q) /\ Apart(q, l)
        BY <1>3, <1>13 DEF OnlyCopies, Apart
    <2>2. Plan(q, F, H)
        BY <1>3, <1>8
    <2>3. QED
        BY <1>12, <2>1, <2>2, PlanConcat
<1>15. OnlyCopies(q \o l, b)
    BY <1>3, <1>13, MoreCopies
<1>16. g.cycle = ftl.cycle
    <2>1. FtlBase(f) /\ g = Used(f, w)
        BY <1>2, <1>4
    <2>2. g.cycle = f.cycle
        BY <2>1 DEF Used, FtlBase
    <2>3. QED
        BY <1>3, <2>2
<1>17. QED
    BY <1>6, <1>8, <1>14, <1>15, <1>16 DEF CopiedOrder

(* All copies of a collection are planned as the maps say. *)
LEMMA CopiesOrder ==
    ASSUME FtlBase(ftl), NEW w \in Ways, Len(ftl.freeBlocks[w]) >= 1,
           NEW b \in Blocks, ftl.currentPage[b] = NumPages,
           NEW t, t = Taken(ftl, w), b # t.current[w],
           NEW s \in Seq(Pages), Len(s) < NumPages
    PROVE  Copied(Copies(w, b, s), w, b, t, Len(s)) /\ CopiedOrder(Copies(w, b, s), b)
<1>1. PICK f : /\ f[0] = [way |-> w, victim |-> b, reqs |-> <<>>, next |-> t]
               /\ \A k \in 1 .. Len(s) : f[k] = CopySlice(f[k - 1], s[k])
               /\ f[Len(s)] = Copies(w, b, s)
               /\ \A k \in 0 .. Len(s) : Copied(f[k], w, b, t, k)
    BY CopiesOK
<1>2. PICK m \in Nat : m = Len(s)
    OBVIOUS
<1>3. t.currentPage = ftl.currentPage /\ t.cycle = ftl.cycle
    BY TakenOK
<1>4. CopiedOrder(f[0], b)
    <2>1. PICK a, none : a = f[0] /\ none = <<>>
        OBVIOUS
    <2>2. a.reqs = none /\ a.next = t
        BY <1>1, <2>1
    <2>3. PICK F \in [Blocks -> States] : F = View(ftl) /\ F = View(t)
        BY <1>3, ViewStates, ViewSame
    <2>4. Plan(none, F, F)
        BY <2>1, PlanNone
    <2>5. OnlyCopies(none, b)
        <3>1. none \in Seq(Callable) /\ Len(none) = 0 /\ 1 .. 0 = {}
            BY <2>1
        <3>2. QED
            BY <3>1 DEF OnlyCopies, NoSync
    <2>6. QED
        BY <1>3, <2>1, <2>2, <2>3, <2>4, <2>5 DEF CopiedOrder
<1>5. PICK K : K = {k \in 0 .. m : CopiedOrder(f[k], b)}
    OBVIOUS
<1>6. 0 \in K
    BY <1>4, <1>5
<1>7. ASSUME NEW k \in 0 .. m, k # m, k \in K PROVE k + 1 \in K
    <2>1. k \in Nat /\ k + 1 \in 0 .. m /\ k + 1 \in 1 .. Len(s) /\ (k + 1) - 1 = k
        BY <1>2, <1>7
    <2>2. k < NumPages
        BY <1>2, <1>7, ReqSizesAssumption DEF ReqSizesAssumption
    <2>3. f[k + 1] = CopySlice(f[k], s[k + 1])
        BY <1>1, <2>1
    <2>4. s[k + 1] \in Pages
        BY <2>1
    <2>5. Copied(f[k], w, b, t, k) /\ CopiedOrder(f[k], b)
        BY <1>1, <1>2, <1>5, <1>7
    <2>6. CopiedOrder(f[k + 1], b)
        BY <1>3, <2>1, <2>2, <2>3, <2>4, <2>5, CopyOrder
    <2>7. QED
        BY <1>5, <2>1, <2>6
<1>8. \A k \in 0 .. m : k \in K
    BY <1>6, <1>7, UpTo
<1>9. m \in 0 .. m
    OBVIOUS
<1>10. CopiedOrder(f[m], b) /\ Copied(f[m], w, b, t, m)
    BY <1>1, <1>2, <1>5, <1>8, <1>9
<1>11. QED
    BY <1>1, <1>2, <1>10

(* The requests s copy and erase block b, and leave it empty in g. *)
FreedTo(s, g, b) ==
    /\ Plan(s, View(ftl), View(g)) /\ NoSync(s)
    /\ \A k \in 1 .. Len(s) : s[k].code \in {"READ", "ERASE"} => s[k].block = b
    /\ g.currentPage[b] = 0 /\ g.cycle[b] # ftl.cycle[b]
    /\ \A d \in Blocks \ {b} : g.cycle[d] = ftl.cycle[d]

(* And so is the erase after them. *)
LEMMA FreedOrder ==
    ASSUME FtlBase(ftl), NEW b \in Blocks, NEW q, OnlyCopies(q, b),
           NEW u, FtlBase(u), Plan(q, View(ftl), View(u)), u.cycle = ftl.cycle,
           u.currentPage[b] = ftl.currentPage[b], NEW g, g = Erased(u, b), FtlBase(g),
           NEW z, z = EraseReq(b), NEW s, s = Append(q, z)
    PROVE  FreedTo(s, g, b)
<1>1. z.code = "ERASE" /\ z.block = b
    BY NandParts DEF EraseReq
<1>2. z \in Callable /\ z # Sync
    BY <1>1, SyncCode, EraseCallable
<1>3. /\ q \in Seq(Callable) /\ NoSync(q)
      /\ \A k \in 1 .. Len(q) : q[k].code # "ERASE" /\ (q[k].code = "READ" => q[k].block = b)
    BY DEF OnlyCopies
<1>4. Follows(z, View(u), View(g))
    BY ErasedFollows
<1>5. PICK F \in [Blocks -> States], H \in [Blocks -> States], G \in [Blocks -> States] :
          F = View(ftl) /\ H = View(u) /\ G = View(g)
    BY ViewStates
<1>6. PICK l : l = <<z>>
    OBVIOUS
<1>7. l \in Seq(Callable) /\ Len(l) = 1 /\ l[1] = z /\ \A k \in 1 .. 1 : k = 1
    BY <1>2, <1>6
<1>8. Plan(l, H, G)
    <2>1. ReadFits(z, H, FALSE)
        BY <1>1 DEF ReadFits
    <2>2. QED
        BY <1>4, <1>5, <1>6, <2>1, PlanOne
<1>9. Plan(q \o l, F, G)
    <2>1. Apart(q, l)
        BY <1>3 DEF Apart
    <2>2. Plan(q, F, H)
        BY <1>5
    <2>3. QED
        BY <1>3, <1>7, <1>8, <2>1, <2>2, PlanConcat
<1>10. s = q \o l
    BY <1>2, <1>3, <1>6, AppendIsConcat
<1>11. NoSync(s)
    BY <1>2, <1>3, AppendItems
<1>12. ASSUME NEW k \in 1 .. Len(s), s[k].code \in {"READ", "ERASE"} PROVE s[k].block = b
    <2>1. PICK n \in Nat : n = Len(q)
        BY <1>3
    <2>2. /\ Len(s) = n + 1 /\ s[n + 1] = z
          /\ \A i \in 1 .. n : s[i] = q[i]
        BY <1>2, <1>3, <2>1, AppendProperties
    <2>3. k = n + 1 \/ k \in 1 .. n
        BY <2>1, <2>2
    <2>4. QED
        BY <1>1, <1>3, <1>12, <2>1, <2>2, <2>3
<1>13. /\ g.cycle[b] = 1 - u.cycle[b] /\ g.currentPage[b] = 0
       /\ \A d \in Blocks \ {b} : g.cycle[d] = u.cycle[d]
    BY ErasedParts
<1>14. g.cycle[b] # ftl.cycle[b]
    <2>1. ftl.cycle[b] \in Int /\ g.cycle[b] = 1 - ftl.cycle[b]
        BY <1>13, FtlTypes
    <2>2. QED
        BY <2>1
<1>15. QED
    BY <1>5, <1>9, <1>10, <1>11, <1>12, <1>13, <1>14 DEF FreedTo

(* The copies and the erase of a collection are planned as the maps say. *)
LEMMA CollectionsOrder ==
    ASSUME FtlOK(ftl), NEW w \in Ways, CurrentFull(ftl, w), NEW c \in Collections(w)
    PROVE  \E b : CollectedOf(b, c.reqs, c.next, w)
<1>1. /\ FtlBase(ftl) /\ Len(ftl.freeBlocks[w]) >= 1 /\ ftl.freeBlocks[w] \in Seq(Blocks)
      /\ FtlWay(ftl, w)
    BY FtlTypes DEF FtlOK, FtlBase
<1>2. NumPages \in Nat \ {0}
    BY ReqSizesAssumption DEF ReqSizesAssumption
<1>3. /\ ftl.currentPage \in [Blocks -> 0 .. NumPages] /\ ftl.cycle \in [Blocks -> Int]
      /\ ftl.freeBlocks \in [Ways -> Seq(Blocks)] /\ ftl.current \in [Ways -> Blocks]
    BY <1>1, FtlTypes
<1>4. PICK b \in Blocks :
          /\ WayOf[b] = w /\ ftl.currentPage[b] = NumPages
          /\ \/ b # ftl.current[w] /\ c = Freed([reqs |-> <<>>, next |-> ftl], b)
             \/ \E s \in ValidSlices : c = Freed(Copies(w, b, s), b)
    BY CollectionsFact
<1>5. PICK z : z = EraseReq(b)
    OBVIOUS
<1>6. ASSUME b # ftl.current[w], NEW a, a = [reqs |-> <<>>, next |-> ftl], c = Freed(a, b)
      PROVE  CollectedOf(b, c.reqs, c.next, w)
    <2>1. PICK g, none : g = Erased(ftl, b) /\ none = <<>>
        OBVIOUS
    <2>2. PICK s : s = Append(none, z)
        OBVIOUS
    <2>3. c.reqs = s /\ c.next = g
        <3>1. a.reqs = none /\ a.next = ftl
            BY <1>6, <2>1
        <3>2. QED
            BY <1>5, <1>6, <2>1, <2>2, <3>1 DEF Freed
    <2>4. /\ FtlBase(g) /\ g.current = ftl.current
          /\ \A d \in Blocks \ {b} : g.currentPage[d] = ftl.currentPage[d]
        <3>1. w = WayOf[b] /\ ftl.current[w] # b /\ ftl.currentPage[b] = NumPages
            BY <1>4, <1>6
        <3>2. QED
            BY <1>1, <2>1, <3>1, ErasedOK
    <2>5. OnlyCopies(none, b)
        <3>1. none \in Seq(Callable) /\ Len(none) = 0 /\ 1 .. 0 = {}
            BY <2>1
        <3>2. QED
            BY <3>1 DEF OnlyCopies, NoSync
    <2>6. Plan(none, View(ftl), View(ftl))
        <3>1. PICK F \in [Blocks -> States] : F = View(ftl)
            BY <1>1, ViewStates
        <3>2. Plan(none, F, F)
            BY <2>1, PlanNone
        <3>3. QED
            BY <3>1, <3>2
    <2>7. /\ Plan(s, View(ftl), View(g)) /\ NoSync(s)
          /\ \A k \in 1 .. Len(s) : s[k].code \in {"READ", "ERASE"} => s[k].block = b
          /\ g.currentPage[b] = 0 /\ g.cycle[b] # ftl.cycle[b]
          /\ \A d \in Blocks \ {b} : g.cycle[d] = ftl.cycle[d]
        <3>1. FtlBase(ftl) /\ ftl.cycle = ftl.cycle /\ ftl.currentPage[b] = ftl.currentPage[b]
            BY <1>1
        <3>2. FreedTo(s, g, b)
            BY <1>5, <2>1, <2>2, <2>4, <2>5, <2>6, <3>1, FreedOrder
        <3>3. QED
            BY <3>2, Zenon DEF FreedTo
    <2>8. CurrentFull(g, w) /\ Head(g.freeBlocks[w]) # b /\ g.current[w] # b
        <3>1. PICK l : l = ftl.freeBlocks[w]
            OBVIOUS
        <3>2. g.freeBlocks[w] = Append(l, b)
            <4>1. g.freeBlocks[WayOf[b]] = Append(ftl.freeBlocks[WayOf[b]], b)
                BY <1>1, <2>1, ErasedParts
            <4>2. QED
                BY <1>4, <3>1, <4>1
        <3>3. l \in Seq(Blocks) /\ Len(l) >= 1
            BY <1>1, <3>1
        <3>4. Head(Append(l, b)) = Head(l) /\ Head(l) \in Range(l)
            <4>1. Append(l, b)[1] = l[1] /\ 1 \in DOMAIN l /\ Append(l, b) \in Seq(Blocks)
                BY <3>3
            <4>2. QED
                BY <3>3, <4>1 DEF Range
        <3>5. ftl.currentPage[Head(l)] = 0
            BY <1>1, <3>1, <3>4 DEF FtlWay
        <3>6. Head(l) # b
            BY <1>2, <1>4, <3>5
        <3>7. g.current[w] = ftl.current[w] /\ ftl.current[w] \in Blocks \ {b}
            BY <1>3, <1>6, <2>4
        <3>8. CurrentFull(g, w)
            BY <2>4, <3>7 DEF CurrentFull
        <3>9. QED
            BY <3>2, <3>4, <3>6, <3>7, <3>8
    <2>9. Ahead(g)
        <3>1. \A d \in Blocks : ftl.currentPage[d] <= ftl.currentPage[d]
            BY <1>2, <1>3
        <3>2. QED
            BY <2>4, <2>7, <3>1 DEF Ahead
    <2>10. QED
        BY <2>3, <2>7, <2>8, <2>9 DEF CollectedOf
<1>7. ASSUME NEW s \in ValidSlices, NEW a, a = Copies(w, b, s), c = Freed(a, b)
      PROVE  CollectedOf(b, c.reqs, c.next, w)
    <2>1. PICK t : t = Taken(ftl, w)
        OBVIOUS
    <2>2. /\ FtlBase(t) /\ t.currentPage = ftl.currentPage
          /\ t.currentPage[t.current[w]] = 0
        BY <1>1, <2>1, TakenOK
    <2>3. PICK m \in 1 .. NumPages - 1 : m = Len(s) /\ s \in Seq(Pages)
        BY ValidSlicesFact
    <2>4. m # NumPages /\ m < NumPages /\ 0 # NumPages /\ m \in Nat
        BY <1>2, <2>3
    <2>5. b # t.current[w]
        BY <1>4, <2>2, <2>4
    <2>6. Copied(a, w, b, t, m) /\ CopiedOrder(a, b)
        <3>1. Len(s) < NumPages
            BY <2>3, <2>4
        <3>2. Copied(Copies(w, b, s), w, b, t, Len(s)) /\ CopiedOrder(Copies(w, b, s), b)
            BY <1>1, <1>4, <2>1, <2>3, <2>5, <3>1, CopiesOrder
        <3>3. QED
            BY <1>7, <2>3, <3>2
    <2>7. PICK q, u, g, r : q = a.reqs /\ u = a.next /\ g = Erased(u, b) /\ r = Append(q, z)
        OBVIOUS
    <2>8. c.reqs = r /\ c.next = g
        BY <1>5, <1>7, <2>7 DEF Freed
    <2>9. /\ FtlBase(u) /\ u.current = t.current
          /\ u.currentPage[t.current[w]] = m
          /\ \A d \in Blocks \ {t.current[w]} : u.currentPage[d] = t.currentPage[d]
        BY <2>6, <2>7 DEF Copied
    <2>10. OnlyCopies(q, b) /\ Plan(q, View(ftl), View(u)) /\ u.cycle = ftl.cycle
        BY <2>6, <2>7 DEF CopiedOrder
    <2>11. u.currentPage[b] = NumPages /\ u.current[w] # b
        BY <1>4, <2>2, <2>5, <2>9
    <2>12. /\ FtlBase(g) /\ g.current = u.current
           /\ \A d \in Blocks \ {b} : g.currentPage[d] = u.currentPage[d]
        <3>1. w = WayOf[b]
            BY <1>4
        <3>2. QED
            BY <2>7, <2>9, <2>11, <3>1, ErasedOK
    <2>13. /\ Plan(r, View(ftl), View(g)) /\ NoSync(r)
           /\ \A k \in 1 .. Len(r) : r[k].code \in {"READ", "ERASE"} => r[k].block = b
           /\ g.currentPage[b] = 0 /\ g.cycle[b] # ftl.cycle[b]
           /\ \A d \in Blocks \ {b} : g.cycle[d] = ftl.cycle[d]
        <3>1. u.currentPage[b] = ftl.currentPage[b]
            BY <1>4, <2>11
        <3>2. FtlBase(ftl) /\ FtlBase(u) /\ FtlBase(g) /\ g = Erased(u, b) /\ r = Append(q, z)
            BY <1>1, <2>7, <2>9, <2>12
        <3>3. FreedTo(r, g, b)
            BY <1>5, <2>10, <3>1, <3>2, FreedOrder
        <3>4. QED
            BY <3>3, Zenon DEF FreedTo
    <2>14. ~CurrentFull(g, w) /\ g.current[w] # b
        <3>1. u.current[w] \in Blocks
            BY <2>9, FtlTypes
        <3>2. g.currentPage[g.current[w]] = m
            BY <2>5, <2>9, <2>12, <3>1
        <3>3. QED
            BY <2>4, <2>11, <2>12, <3>2 DEF CurrentFull
    <2>15. Ahead(g)
        <3>1. ASSUME NEW d \in Blocks \ {b} PROVE ftl.currentPage[d] <= g.currentPage[d]
            <4>1. g.currentPage[d] = u.currentPage[d] /\ ftl.currentPage[d] \in 0 .. NumPages
                BY <1>3, <2>12
            <4>2. CASE d = t.current[w]
                <5>1. ftl.currentPage[d] = 0 /\ u.currentPage[d] = m
                    BY <2>2, <2>9, <4>2
                <5>2. QED
                    BY <2>4, <4>1, <5>1
            <4>3. CASE d # t.current[w]
                <5>1. u.currentPage[d] = ftl.currentPage[d]
                    BY <2>2, <2>9, <4>3
                <5>2. QED
                    BY <1>2, <4>1, <5>1
            <4>4. QED
                BY <4>2, <4>3
        <3>2. QED
            BY <2>13, <3>1 DEF Ahead
    <2>16. QED
        BY <2>8, <2>13, <2>14, <2>15 DEF CollectedOf
<1>8. QED
    BY <1>4, <1>6, <1>7
-----------------------------------------------------------------------------

(* A held tag is no flash operation. *)
LEMMA HoldCode == Hold.code \notin {"READ", "WRITE", "ERASE"} /\ Hold # Sync /\ Hold \in Callable
BY WeightFact DEF Hold, Dma, Request

(* Requests that hold a tag first are planned as without. *)
LEMMA PlanHold ==
    ASSUME NEW F \in [Blocks -> States], NEW G, NEW p \in Seq(Callable), Plan(p, F, G),
           NEW q, q = <<Hold>> \o p
    PROVE  q \in Seq(Callable) /\ Plan(q, F, G)
<1>1. PICK h : h = <<Hold>>
    OBVIOUS
<1>2. h \in Seq(Callable) /\ Len(h) = 1 /\ h[1] = Hold /\ \A k \in 1 .. 1 : k = 1
    BY <1>1, HoldCode
<1>3. NoSync(h) /\ Apart(h, p)
    BY <1>2, HoldCode DEF NoSync, Apart
<1>4. Plan(h, F, F)
    <2>1. Follows(Hold, F, F) /\ ReadFits(Hold, F, FALSE)
        BY HoldCode DEF Follows, ReadFits
    <2>2. QED
        BY <1>1, <2>1, PlanOne
<1>5. Plan(h \o p, F, G)
    BY <1>2, <1>3, <1>4, PlanConcat
<1>6. h \o p \in Seq(Callable)
    BY <1>2, ConcatProperties
<1>7. QED
    BY <1>1, <1>5, <1>6

(* What the requests q read and erase, the requests p do. *)
ReadsAmong(q, p) ==
    \A k \in 1 .. Len(q) : q[k].code \in {"READ", "ERASE"} =>
        \E i \in 1 .. Len(p) : q[k] = p[i]

(* A held tag in front adds no read and no wait. *)
LEMMA HoldItems ==
    ASSUME NEW p \in Seq(Callable), NEW q, q = <<Hold>> \o p
    PROVE  (NoSync(p) => NoSync(q)) /\ ReadsAmong(q, p)
<1>1. PICK h : h = <<Hold>>
    OBVIOUS
<1>2. h \in Seq(Callable) /\ Len(h) = 1 /\ h[1] = Hold
    BY <1>1, HoldCode
<1>3. PICK n \in Nat : n = Len(p)
    OBVIOUS
<1>4. Len(q) = 1 + n /\ \A k \in 1 .. 1 + n : q[k] = IF k <= 1 THEN h[k] ELSE p[k - 1]
    BY <1>1, <1>2, <1>3, ConcatProperties
<1>5. \A k \in 1 .. 1 + n : (k <= 1 => k = 1) /\ (~(k <= 1) => k - 1 \in 1 .. n)
    BY <1>3
<1>6. ASSUME NEW k \in 1 .. Len(q) PROVE q[k] = Hold \/ \E i \in 1 .. n : q[k] = p[i]
    BY <1>2, <1>4, <1>5
<1>7. QED
    BY <1>3, <1>6, HoldCode DEF NoSync, ReadsAmong

(* The tag a write has, if it has one, changes nothing of that. *)
LEMMA TagItems ==
    ASSUME NEW F \in [Blocks -> States], NEW G, NEW p \in Seq(Callable), Plan(p, F, G),
           NoSync(p), NEW e, NEW h, h = TagOf(e), NEW q, q = h \o p
    PROVE  q \in Seq(Callable) /\ Plan(q, F, G) /\ NoSync(q) /\ ReadsAmong(q, p)
<1>1. CASE e = NoEntry
    <2>1. h = <<>>
        BY <1>1 DEF TagOf
    <2>2. q = p
        BY <2>1
    <2>3. ReadsAmong(p, p)
        BY DEF ReadsAmong
    <2>4. QED
        BY <2>2, <2>3
<1>2. CASE e # NoEntry
    <2>1. q = <<Hold>> \o p
        BY <1>2 DEF TagOf
    <2>2. QED
        BY <2>1, PlanHold, HoldItems
<1>3. QED
    BY <1>1, <1>2

(* A write after the requests q. *)
LEMMA WriteOrder ==
    ASSUME FtlBase(ftl), NEW f, NEW g, FtlBase(g), View(g) = View(f),
           NEW w \in Ways, NEW e, NEW b, b = g.current[w], g.cycle[b] = ftl.cycle[b],
           NEW q \in Seq(Callable), Plan(q, View(ftl), View(f)), NoSync(q),
           \A k \in 1 .. Len(q) : q[k].code = "ERASE" => q[k].block # b,
           NEW r \in Callable, r = WriteSlice(g, w, e),
           NEW u, u = Used(g, w), FtlBase(u)
    PROVE  Plan(Append(q, r), View(ftl), View(u))
<1>1. r.code = "WRITE" /\ r.block = b
    BY NandParts DEF WriteSlice
<1>2. Follows(r, View(g), View(u))
    BY UsedFollows
<1>3. PICK F, H \in [Blocks -> States], G \in [Blocks -> States] :
          F = View(ftl) /\ H = View(g) /\ G = View(u)
    BY ViewStates
<1>4. Follows(r, H, G) /\ ReadFits(r, H, FALSE)
    BY <1>1, <1>2, <1>3 DEF ReadFits
<1>5. PICK p : p = <<r>>
    OBVIOUS
<1>6. p \in Seq(Callable) /\ Len(p) = 1 /\ p[1] = r /\ \A k \in 1 .. 1 : k = 1
    BY <1>5
<1>7. Plan(p, H, G)
    BY <1>3, <1>4, <1>5, PlanOne
<1>8. Plan(q, F, H)
    BY <1>3
<1>9. Apart(q, p)
    BY <1>1, <1>6 DEF Apart
<1>10. Plan(q \o p, F, G)
    BY <1>6, <1>7, <1>8, <1>9, PlanConcat
<1>11. Append(q, r) = q \o p
    BY <1>5, AppendIsConcat
<1>12. QED
    BY <1>3, <1>10, <1>11

(* The requests q of an eviction leave f. *)
EvictedTo(q, f) ==
    /\ q \in Seq(Callable)
    /\ Plan(q, View(ftl), View(f))
    /\ NoSync(q)
    /\ \A k \in 1 .. Len(q) : q[k].code = "READ" =>
           f.currentPage[q[k].block] = 0 /\ f.cycle[q[k].block] # ftl.cycle[q[k].block]
    /\ Ahead(f)

(* What the requests q read is left empty, in the next cycle, and block b  *)
(* is not among what they read or erase.                                   *)
Leaves(q, f, b) ==
    \A k \in 1 .. Len(q) :
        /\ q[k].code = "ERASE" => q[k].block # b
        /\ q[k].code = "READ" =>
               /\ q[k].block \in Blocks \ {b} /\ f.currentPage[q[k].block] = 0
               /\ f.cycle[q[k].block] # ftl.cycle[q[k].block]

(* The write of an eviction, after what makes room for it. *)
LEMMA WriteEvicts ==
    ASSUME FtlBase(ftl), NEW f, FtlBase(f), NEW w \in Ways, NEW e \in Bufs \cup {NoEntry},
           \A v \in Ways : Len(f.freeBlocks[v]) >= 1,
           CurrentFull(f, w) => Len(f.freeBlocks[w]) >= 2,
           NEW g, CurrentFull(f, w) => g = Taken(f, w), ~CurrentFull(f, w) => g = f,
           NEW q \in Seq(Callable), Plan(q, View(ftl), View(f)), NoSync(q),
           NEW b, b = g.current[w], f.cycle[b] = ftl.cycle[b],
           Leaves(q, f, b), Ahead(f)
    PROVE  EvictedTo(Append(q, WriteSlice(g, w, e)), Used(g, w))
<1>1. FtlBase(g) /\ g.currentPage[g.current[w]] < NumPages
    BY RoomOK
<1>2. g.cycle = f.cycle /\ g.currentPage = f.currentPage
    <2>1. CASE CurrentFull(f, w)
        <3>1. g = Taken(f, w) /\ Len(f.freeBlocks[w]) >= 1
            BY <2>1
        <3>2. QED
            BY <3>1, TakenOK
    <2>2. CASE ~CurrentFull(f, w)
        BY <2>2
    <2>3. QED
        BY <2>1, <2>2
<1>3. PICK u : u = Used(g, w)
    OBVIOUS
<1>4. /\ FtlBase(u)
      /\ \A d \in Blocks \ {b} : u.currentPage[d] = g.currentPage[d]
    BY <1>1, <1>3, UsedOK
<1>5. View(g) = View(f)
    BY <1>2, ViewSame
<1>6. PICK r : r = WriteSlice(g, w, e)
    OBVIOUS
<1>7. r \in Callable /\ r.code = "WRITE" /\ r # Sync
    <2>1. r.code = "WRITE"
        BY <1>6, NandParts DEF WriteSlice
    <2>2. r \in Callable
        <3>1. e \in Entries \cup {NoEntry}
            BY BufNoWay
        <3>2. QED
            BY <1>1, <1>6, <3>1, WriteSliceCallable
    <2>3. QED
        BY <2>1, <2>2, SyncCode
<1>8. PICK s : s = Append(q, r)
    OBVIOUS
<1>9. Plan(s, View(ftl), View(u))
    <2>1. \A k \in 1 .. Len(q) : q[k].code = "ERASE" => q[k].block # b
        BY DEF Leaves
    <2>2. QED
        BY <2>1, <1>1, <1>2, <1>3, <1>4, <1>5, <1>6, <1>7, <1>8, WriteOrder
<1>10. s \in Seq(Callable) /\ NoSync(s)
    BY <1>7, <1>8, AppendItems
<1>15. u.cycle = f.cycle
    <2>1. u.cycle = g.cycle
        <3>1. FtlBase(g) /\ u = Used(g, w)
            BY <1>1, <1>3
        <3>2. QED
            BY <3>1 DEF Used, FtlBase
    <2>2. QED
        BY <1>2, <2>1
<1>11. ASSUME NEW k \in 1 .. Len(s), s[k].code = "READ"
       PROVE  u.currentPage[s[k].block] = 0 /\ u.cycle[s[k].block] # ftl.cycle[s[k].block]
    <2>1. PICK i \in 1 .. Len(q) : s[k] = q[i]
        BY <1>7, <1>8, <1>11, AppendItems
    <2>2. /\ q[i].block \in Blocks \ {b} /\ f.currentPage[q[i].block] = 0
          /\ f.cycle[q[i].block] # ftl.cycle[q[i].block]
        BY <1>11, <2>1 DEF Leaves
    <2>3. QED
        BY <1>2, <1>4, <1>15, <2>1, <2>2
<1>12. Ahead(u)
    <2>1. SUFFICES ASSUME NEW d \in Blocks, u.cycle[d] = ftl.cycle[d]
                   PROVE  ftl.currentPage[d] <= u.currentPage[d]
        BY DEF Ahead
    <2>3. ftl.currentPage[d] <= f.currentPage[d]
        BY <1>15, <2>1 DEF Ahead
    <2>4. NumPages \in Nat /\ ftl.currentPage[d] \in 0 .. NumPages /\ f.currentPage[d] \in 0 .. NumPages
        BY FtlTypes, ReqSizesAssumption DEF ReqSizesAssumption
    <2>5. u.currentPage[d] = f.currentPage[d] \/ u.currentPage[d] = f.currentPage[d] + 1
        <3>1. u.currentPage[u.current[w]] = g.currentPage[g.current[w]] + 1 /\ u.current = g.current
            BY <1>1, <1>3, UsedOK
        <3>2. CASE d = b
            BY <1>2, <3>1, <3>2
        <3>3. CASE d # b
            BY <1>2, <1>4, <3>3
        <3>4. QED
            BY <3>2, <3>3
    <2>6. QED
        BY <2>3, <2>4, <2>5
<1>13. EvictedTo(s, u)
    BY <1>9, <1>10, <1>11, <1>12 DEF EvictedTo
<1>14. QED
    BY <1>3, <1>6, <1>8, <1>13

(* No page of the upper layers is lost. *)
LEMMA AheadNow == FtlBase(ftl) => Ahead(ftl)
<1>1. ASSUME FtlBase(ftl), NEW d \in Blocks PROVE ftl.currentPage[d] <= ftl.currentPage[d]
    <2>1. NumPages \in Nat /\ ftl.currentPage[d] \in 0 .. NumPages
        BY <1>1, FtlTypes, ReqSizesAssumption DEF ReqSizesAssumption
    <2>2. QED
        BY <2>1
<1>2. QED
    BY <1>1 DEF Ahead

(* All that is handed down for a write is planned as the maps say. *)
LEMMA WritesOrder ==
    ASSUME FtlOK(ftl), NEW e \in Bufs \cup {NoEntry}, NEW w \in Ways, NEW ev \in Writes(w, e)
    PROVE  EvictedTo(ev.reqs, ev.next)
<1>1. FtlBase(ftl) /\ \A v \in Ways : Len(ftl.freeBlocks[v]) >= 1
    BY DEF FtlOK
<1>2. \A v \in Ways : Len(ftl.freeBlocks[v]) \in Nat
    BY <1>1, FtlTypes
<1>3. PICK F \in [Blocks -> States] : F = View(ftl)
    BY <1>1, ViewStates
<1>4. PICK none, h : none = <<>> /\ h = TagOf(e)
    OBVIOUS
<1>5. none \in Seq(Callable) /\ Len(none) = 0 /\ 1 .. 0 = {} /\ NoSync(none)
    BY <1>4 DEF NoSync
<1>6. Plan(none, F, F)
    BY <1>3, <1>4, PlanNone
<1>7. Ahead(ftl)
    BY <1>1, AheadNow
<1>8. WroteBy(ev, w, e, h)
    BY <1>4, WritesFact
<1>9. ASSUME ~CurrentFull(ftl, w) \/ Len(ftl.freeBlocks[w]) > 1,
             NEW g, g = IF CurrentFull(ftl, w) THEN Taken(ftl, w) ELSE ftl,
             ev = [reqs |-> Append(h, WriteSlice(g, w, e)), next |-> Used(g, w)]
      PROVE  EvictedTo(ev.reqs, ev.next)
    <2>1. CurrentFull(ftl, w) => Len(ftl.freeBlocks[w]) >= 2
        BY <1>1, <1>2, <1>9
    <2>2. h \in Seq(Callable)
        BY <1>4, HoldCode DEF TagOf
    <2>3. h = h \o none
        BY <1>4, <2>2
    <2>4. Plan(h, F, F) /\ NoSync(h) /\ ReadsAmong(h, none)
        BY <1>4, <1>5, <1>6, <2>3, TagItems
    <2>5. \A k \in 1 .. Len(h) : h[k].code \notin {"READ", "ERASE"}
        BY <1>5, <2>4 DEF ReadsAmong
    <2>6. PICK b : b = g.current[w]
        OBVIOUS
    <2>7. Plan(h, View(ftl), View(ftl))
        BY <1>3, <2>4
    <2>8. (CurrentFull(ftl, w) => g = Taken(ftl, w)) /\ (~CurrentFull(ftl, w) => g = ftl)
        BY <1>9
    <2>9. EvictedTo(Append(h, WriteSlice(g, w, e)), Used(g, w))
        <3>1. Leaves(h, ftl, b)
            BY <2>5 DEF Leaves
        <3>2. QED
            BY <1>1, <1>7, <2>1, <2>2, <2>4, <2>6, <2>7, <2>8, <3>1, WriteEvicts
    <2>10. ev.next = Used(g, w) /\ ev.reqs = Append(h, WriteSlice(g, w, e))
        BY <1>9
    <2>11. QED
        BY <2>9, <2>10
<1>10. ASSUME CurrentFull(ftl, w), NEW c \in Collections(w), NEW f, f = c.next,
              NEW p, p = c.reqs, NEW q, q = h \o p,
              NEW g, g = IF CurrentFull(f, w) THEN Taken(f, w) ELSE f,
              ev = [reqs |-> Append(q, WriteSlice(g, w, e)), next |-> Used(g, w)]
       PROVE  EvictedTo(ev.reqs, ev.next)
    <2>1. Collected(c, w) /\ \E d : CollectedOf(d, c.reqs, c.next, w)
        BY <1>10, CollectionsOK, CollectionsOrder
    <2>2. /\ FtlBase(f) /\ Takes(p, 0, 0)
          /\ \A v \in Ways \ {w} : Len(f.freeBlocks[v]) >= 1
          /\ Len(f.freeBlocks[w]) >= IF CurrentFull(f, w) THEN 2 ELSE 1
        BY <1>10, <2>1 DEF Collected
    <2>3. /\ CurrentFull(f, w) => Len(f.freeBlocks[w]) >= 2
          /\ ~CurrentFull(f, w) => Len(f.freeBlocks[w]) >= 1
        BY <2>2
    <2>4. \A v \in Ways : Len(f.freeBlocks[v]) >= 1
        <3>1. Len(f.freeBlocks[w]) \in Nat
            BY <2>2, FtlTypes
        <3>2. Len(f.freeBlocks[w]) >= 1
            BY <2>3, <3>1
        <3>3. QED
            BY <2>2, <3>2
    <2>5. PICK d : CollectedOf(d, p, f, w)
        BY <1>10, <2>1
    <2>6. PICK b : b = g.current[w]
        OBVIOUS
    <2>7. b \in Blocks \ {d}
        <3>1. FtlBase(g)
            BY <1>10, <2>2, <2>3, <2>4, RoomOK
        <3>2. b \in Blocks
            BY <2>6, <3>1, FtlTypes
        <3>3. CASE CurrentFull(f, w)
            <4>1. g.current[w] = Head(f.freeBlocks[w])
                <5>1. g = Taken(f, w)
                    BY <1>10, <3>3
                <5>2. f.current \in [Ways -> Blocks]
                    BY <2>2, FtlTypes
                <5>3. g.current = [f.current EXCEPT ![w] = Head(f.freeBlocks[w])]
                    BY <2>2, <5>1 DEF Taken, FtlBase
                <5>4. QED
                    BY <5>2, <5>3
            <4>2. QED
                BY <2>5, <2>6, <3>2, <3>3, <4>1 DEF CollectedOf
        <3>4. CASE ~CurrentFull(f, w)
            BY <1>10, <2>5, <2>6, <3>2, <3>4 DEF CollectedOf
        <3>5. QED
            BY <3>3, <3>4
    <2>8. p \in Seq(Callable)
        BY <2>2 DEF Takes
    <2>9. /\ d \in Blocks /\ Plan(p, View(ftl), View(f)) /\ NoSync(p)
          /\ \A k \in 1 .. Len(p) : p[k].code \in {"READ", "ERASE"} => p[k].block = d
          /\ f.currentPage[d] = 0 /\ f.cycle[b] = ftl.cycle[b]
          /\ f.cycle[d] # ftl.cycle[d] /\ Ahead(f)
        BY <2>5, <2>7 DEF CollectedOf
    <2>10. /\ q \in Seq(Callable) /\ Plan(q, View(ftl), View(f)) /\ NoSync(q)
           /\ ReadsAmong(q, p)
        <3>1. PICK G : G = View(f)
            OBVIOUS
        <3>2. Plan(p, F, G)
            BY <1>3, <2>9, <3>1
        <3>3. q \in Seq(Callable) /\ Plan(q, F, G) /\ NoSync(q) /\ ReadsAmong(q, p)
            BY <1>4, <1>10, <2>8, <2>9, <3>2, TagItems
        <3>4. QED
            BY <1>3, <3>1, <3>3
    <2>11. ASSUME NEW k \in 1 .. Len(q), q[k].code \in {"READ", "ERASE"} PROVE q[k].block = d
        <3>1. PICK i \in 1 .. Len(p) : q[k] = p[i]
            BY <2>10, <2>11 DEF ReadsAmong
        <3>2. QED
            BY <2>9, <2>11, <3>1
    <2>12. Leaves(q, f, b)
        BY <2>7, <2>9, <2>11 DEF Leaves
    <2>13. (CurrentFull(f, w) => g = Taken(f, w)) /\ (~CurrentFull(f, w) => g = f)
        BY <1>10
    <2>14. EvictedTo(Append(q, WriteSlice(g, w, e)), Used(g, w))
        <3>1. f.cycle[b] = ftl.cycle[b] /\ FtlBase(f) /\ Ahead(f)
            BY <2>2, <2>9
        <3>2. QED
            BY <1>1, <2>3, <2>4, <2>6, <2>10, <2>12, <2>13, <3>1, WriteEvicts
    <2>15. ev.next = Used(g, w) /\ ev.reqs = Append(q, WriteSlice(g, w, e))
        BY <1>10
    <2>16. QED
        BY <2>14, <2>15
<1>11. QED
    BY <1>8, <1>9, <1>10 DEF WroteBy

(* And so is all that is handed down for an eviction. *)
LEMMA EvictionsOrder ==
    ASSUME FtlOK(ftl), NEW e \in Bufs, NEW ev \in Evictions(e)
    PROVE  EvictedTo(ev.reqs, ev.next)
<1>1. FtlBase(ftl)
    BY DEF FtlOK
<1>2. CASE ~ftl.dirty[e]
    <2>1. PICK none : none = <<>>
        OBVIOUS
    <2>2. ev = [reqs |-> none, next |-> ftl]
        BY <1>2, <2>1 DEF Evictions
    <2>3. ev.reqs = none /\ ev.next = ftl
        BY <2>2
    <2>4. none \in Seq(Callable) /\ Len(none) = 0 /\ 1 .. 0 = {} /\ NoSync(none)
        BY <2>1 DEF NoSync
    <2>5. PICK F \in [Blocks -> States] : F = View(ftl)
        BY <1>1, ViewStates
    <2>6. Plan(none, F, F) /\ Ahead(ftl)
        BY <1>1, <2>1, PlanNone, AheadNow
    <2>7. QED
        BY <2>3, <2>4, <2>5, <2>6 DEF EvictedTo
<1>3. CASE ftl.dirty[e]
    <2>1. ev \in AllowedWrites(e)
        BY <1>3 DEF Evictions
    <2>2. PICK w \in Ways : ev \in Writes(w, e)
        BY <2>1, AllowedWritesFact
    <2>3. e \in Bufs \cup {NoEntry}
        OBVIOUS
    <2>4. QED
        BY <2>2, <2>3, WritesOrder
<1>4. QED
    BY <1>2, <1>3
-----------------------------------------------------------------------------

(* A call that runs when nothing waits. *)
LEMMA CallOrder ==
    ASSUME OrderInv, Idle, NEW reqs, Takes(reqs, 0, 0), NEW G, Plan(reqs, View(ftl), G),
           AllowedFrom(sched, reqs, 0), Run(sched, reqs)
    PROVE  Rest(sched', waiting', work', G, flash)
<1>1. work = <<>> /\ waiting = NoTag
    BY DEF Idle
<1>2. InOrder(sched, NoTag) /\ Len(sched.held) = 0
    BY IdleFacts DEF OrderInv
<1>3. PICK F : /\ Plan(work, F, View(ftl))
               /\ Ordered(sched, Pend(sched), F, Ends(work, 0) /\ waiting = NoTag, flash)
               /\ Linked(sched, waiting)
    BY DEF OrderInv, Rest
<1>4. F = View(ftl)
    <2>1. PICK g : PlanBy(g, work, F, View(ftl))
        BY <1>3 DEF Plan
    <2>2. Len(work) = 0
        BY <1>1
    <2>3. QED
        BY <2>1, <2>2 DEF PlanBy
<1>5. Ordered(sched, Pend(sched), F, FALSE, flash)
    <2>1. Len(work) = 0 /\ 0 + 1 # 0
        BY <1>1
    <2>2. (Ends(work, 0) /\ waiting = NoTag) = FALSE
        BY <2>1 DEF Ends
    <2>3. QED
        BY <1>3, <2>2, Zenon
<1>6. PICK P, d : P = Pend(sched) /\ d = Ends(reqs, 0)
    OBVIOUS
<1>7. Ordered(sched, P, F, d, flash)
    <2>1. Ordered(sched, P, F, FALSE, flash)
        BY <1>5, <1>6
    <2>2. NoFlash(sched.req, P \ P)
        BY DEF NoFlash
    <2>3. QED
        BY <2>1, <2>2, OrderedLess
<1>8. Ordered(sched, Pend(sched), F, Ends(reqs, 0), flash)
    BY <1>6, <1>7
<1>9. Takes(reqs, Len(sched.held), 0) /\ Plan(reqs, F, G)
    BY <1>2, <1>4
<1>10. Linked(sched, NoTag)
    BY <1>1, <1>3
<1>11. QED
    BY <1>2, <1>8, <1>9, <1>10, RunOrdered

(* Two calls that are allowed are allowed one after the other. *)
LEMMA AllowedConcat ==
    ASSUME NEW s, NEW p \in Seq(Callable), NEW q \in Seq(Callable),
           AllowedFrom(s, p, 0), AllowedFrom(s, q, 0), NEW r, r = p \o q
    PROVE  AllowedFrom(s, r, 0)
<1>1. PICK P \in Nat, Q \in Nat : P = Len(p) /\ Q = Len(q)
    OBVIOUS
<1>2. Len(r) = P + Q /\ \A k \in 1 .. P + Q : r[k] = IF k <= P THEN p[k] ELSE q[k - P]
    BY <1>1, ConcatProperties
<1>3. \A k \in 1 .. P + Q : (k <= P => k \in 1 .. P) /\ (~(k <= P) => k - P \in 1 .. Q)
    BY <1>1
<1>4. /\ \A k \in 1 .. P : Allowed(s, p[k])
      /\ \A k \in 1 .. Q : Allowed(s, q[k])
    <2>1. 0 + 1 = 1
        OBVIOUS
    <2>2. QED
        BY <1>1, <2>1 DEF AllowedFrom
<1>5. \A k \in 1 .. P + Q : Allowed(s, r[k])
    BY <1>2, <1>3, <1>4
<1>6. QED
    BY <1>1, <1>2, <1>5 DEF AllowedFrom

(* Nothing that is neither a program nor an erase is held up. *)
LEMMA AllowedOther ==
    ASSUME NEW s, NEW q, \A k \in 1 .. Len(q) : q[k].code \notin {"WRITE", "ERASE"}
    PROVE  AllowedFrom(s, q, 0)
<1>1. \A k \in 1 .. Len(q) : Allowed(s, q[k])
    BY DEF Allowed
<1>2. 0 + 1 = 1
    OBVIOUS
<1>3. QED
    BY <1>1, <1>2 DEF AllowedFrom

(* What a write does overtakes no blocked erase. *)
LEMMA WritesAllowed ==
    ASSUME FtlOK(ftl), sched \in Shape, ~Overtaking,
           NEW e \in Bufs \cup {NoEntry}, NEW ev \in AllowedWrites(e)
    PROVE  AllowedFrom(sched, ev.reqs, 0)
<1>1. EvictedTo(ev.reqs, ev.next)
    <2>1. PICK w \in Ways : ev \in Writes(w, e)
        BY AllowedWritesFact
    <2>2. QED
        BY <2>1, WritesOrder
<1>2. PICK q : q = ev.reqs
    OBVIOUS
<1>3. q \in Seq(Callable)
    BY <1>1, <1>2 DEF EvictedTo
<1>4. \A k \in DOMAIN ev.reqs : ~Overtakes(ev.reqs[k])
    BY DEF AllowedWrites
<1>5. ASSUME NEW k \in 1 .. Len(q) PROVE Allowed(sched, q[k])
    <2>1. PICK r : r = q[k]
        OBVIOUS
    <2>2. k \in DOMAIN q
        BY <1>3, <1>5
    <2>3. ~Overtakes(r)
        BY <1>2, <1>4, <2>1, <2>2
    <2>4. r \in Callable
        BY <1>3, <2>1
    <2>5. sched.permitted \in [Blocks -> Nat]
        BY ShapeOrder
    <2>6. ASSUME r.code = "WRITE" PROVE r.block \in Blocks /\ r.page \in Nat
        <3>1. r # Hold /\ r # Sync
            BY <2>6, SyncCode, HoldCode
        <3>2. ~IsDma(r)
            BY <2>6 DEF IsDma, DmaCodes
        <3>3. QED
            BY <2>4, <3>1, <3>2 DEF Callable, Proper, NandReq, Requests
    <2>7. CASE r.code = "WRITE" /\ sched.eraseFlag[r.block]
        <3>1. ~(r.page >= sched.permitted[r.block])
            BY <2>3, <2>7 DEF Overtakes
        <3>2. sched.permitted[r.block] \in Nat /\ r.page \in Nat
            BY <2>5, <2>6, <2>7
        <3>3. r.page < sched.permitted[r.block]
            BY <3>1, <3>2
        <3>4. QED
            BY <2>1, <2>7, <3>3 DEF Allowed
    <2>8. CASE ~(r.code = "WRITE" /\ sched.eraseFlag[r.block])
        <3>1. r.code = "ERASE" => ~sched.eraseFlag[r.block]
            BY <2>3 DEF Overtakes
        <3>2. QED
            BY <2>1, <2>8, <3>1 DEF Allowed
    <2>9. QED
        BY <2>7, <2>8
<1>6. \A k \in 0 + 1 .. Len(q) : k \in 1 .. Len(q)
    OBVIOUS
<1>7. QED
    BY <1>2, <1>5, <1>6 DEF AllowedFrom

(* And so does what an eviction does. *)
LEMMA EvictionsAllowed ==
    ASSUME FtlOK(ftl), sched \in Shape, ~Overtaking, NEW e \in Bufs, NEW ev \in Evictions(e)
    PROVE  AllowedFrom(sched, ev.reqs, 0)
<1>1. CASE ~ftl.dirty[e]
    <2>1. PICK q : q = <<>>
        OBVIOUS
    <2>2. ev = [reqs |-> q, next |-> ftl]
        BY <1>1, <2>1 DEF Evictions
    <2>3. ev.reqs = q /\ Len(q) = 0 /\ 0 + 1 .. 0 = {}
        BY <2>1, <2>2
    <2>4. QED
        BY <2>3 DEF AllowedFrom
<1>2. CASE ftl.dirty[e]
    <2>1. ev \in AllowedWrites(e) /\ e \in Bufs \cup {NoEntry}
        BY <1>2 DEF Evictions
    <2>2. QED
        BY <2>1, WritesAllowed
<1>3. QED
    BY <1>1, <1>2

(* The dirty bits do not show in the view. *)
LEMMA DirtyView ==
    ASSUME NEW f, FtlBase(f), NEW e, NEW y, NEW g, g = [f EXCEPT !.dirty[e] = y]
    PROVE  View(g) = View(f)
<1>1. g.cycle = f.cycle /\ g.currentPage = f.currentPage
    BY DEF FtlBase
<1>2. QED
    BY <1>1, ViewSame

(* The parts of a transfer. *)
LEMMA DmaParts ==
    ASSUME NEW c \in DmaCodes, NEW e \in Bufs, NEW d, d = Dma(c, e)
    PROVE  d \in Callable /\ d.code \notin {"READ", "WRITE", "ERASE"} /\ d # Sync
<1>1. d.code = c
    BY DEF Dma, Request
<1>2. Sync.code \notin DmaCodes
    BY DEF Sync, Dma, Request, DmaCodes
<1>3. QED
    BY <1>1, <1>2, DmaOK DEF DmaCodes

(* A last request that is no flash operation. *)
LEMMA PlanLast ==
    ASSUME NEW p \in Seq(Callable), NEW F \in [Blocks -> States],
           NEW G \in [Blocks -> States], Plan(p, F, G), NoSync(p),
           NEW r \in Callable, r.code \notin {"WRITE", "ERASE"}, ReadFits(r, G, FALSE)
    PROVE  Plan(p \o <<r>>, F, G)
<1>1. PICK q : q = <<r>>
    OBVIOUS
<1>2. q \in Seq(Callable) /\ Len(q) = 1 /\ q[1] = r /\ \A k \in 1 .. 1 : k = 1
    BY <1>1
<1>3. Follows(r, G, G)
    BY DEF Follows
<1>4. Plan(q, G, G)
    BY <1>1, <1>3, PlanOne
<1>5. Apart(p, q)
    BY <1>2 DEF Apart
<1>6. Plan(p \o q, F, G)
    BY <1>2, <1>4, <1>5, PlanConcat
<1>7. QED
    BY <1>1, <1>6

(* What is no write or erase is allowed at the end. *)
LEMMA AllowedLast ==
    ASSUME NEW s, NEW p \in Seq(Callable), AllowedFrom(s, p, 0),
           NEW r \in Callable, r.code \notin {"WRITE", "ERASE"}
    PROVE  AllowedFrom(s, p \o <<r>>, 0)
<1>1. PICK q : q = <<r>>
    OBVIOUS
<1>2. q \in Seq(Callable) /\ Len(q) = 1 /\ q[1] = r /\ \A k \in 1 .. 1 : k = 1
    BY <1>1
<1>3. AllowedFrom(s, q, 0)
    BY <1>2, AllowedOther
<1>4. AllowedFrom(s, p \o q, 0)
    BY <1>2, <1>3, AllowedConcat
<1>5. QED
    BY <1>1, <1>4

(* Two calls without a wait have none together. *)
LEMMA NoSyncConcat ==
    ASSUME NEW p \in Seq(Callable), NEW q \in Seq(Callable), NoSync(p), NoSync(q),
           NEW r, r = p \o q
    PROVE  r \in Seq(Callable) /\ NoSync(r)
<1>1. PICK P \in Nat, Q \in Nat : P = Len(p) /\ Q = Len(q)
    OBVIOUS
<1>2. /\ r \in Seq(Callable) /\ Len(r) = P + Q
      /\ \A k \in 1 .. P + Q : r[k] = IF k <= P THEN p[k] ELSE q[k - P]
    BY <1>1, ConcatProperties
<1>3. \A k \in 1 .. P + Q : (k <= P => k \in 1 .. P) /\ (~(k <= P) => k - P \in 1 .. Q)
    BY <1>1
<1>4. QED
    BY <1>1, <1>2, <1>3 DEF NoSync
-----------------------------------------------------------------------------

(* A hit keeps the order. *)
LEMMA SliceHitOrder ==
    ASSUME OrderInv, NEW e \in Bufs, NEW c \in DmaCodes, SliceHit(e, c)
    PROVE  Rest(sched', waiting', work', View(ftl'), flash')
<1>1. Idle /\ FtlOK(ftl) /\ FtlBase(ftl)
    BY IdleFacts DEF SliceHit, OrderInv, FtlOK
<1>2. PICK d : d = Dma(c, e)
    OBVIOUS
<1>3. PICK y : y = (ftl.dirty[e] \/ c = "RxDMA")
    OBVIOUS
<1>4. Run(sched, <<Hold, d>>) /\ ftl' = [ftl EXCEPT !.dirty[e] = y] /\ flash' = flash
    BY <1>2, <1>3 DEF SliceHit
<1>5. View(ftl') = View(ftl)
    BY <1>1, <1>4, DirtyView
<1>6. d \in Callable /\ d.code \notin {"READ", "WRITE", "ERASE"} /\ d # Sync /\ Weight(d) = -1
    BY <1>2, DmaParts, DmaOK
<1>7. PICK h, p : h = <<Hold>> /\ p = h \o <<d>>
    OBVIOUS
<1>8. h \in Seq(Callable) /\ Len(h) = 1 /\ h[1] = Hold /\ \A k \in 1 .. 1 : k = 1
    BY <1>7, HoldCode
<1>9. p = <<Hold, d>>
    <2>1. PICK q : q = <<Hold, d>>
        OBVIOUS
    <2>2. q \in Seq(Callable) /\ Len(q) = 2 /\ q[1] = Hold /\ q[2] = d
        BY <1>6, <2>1, HoldCode
    <2>3. p = Append(h, d)
        <3>1. Append(h, d) = h \o <<d>>
            BY <1>6, <1>8, AppendIsConcat
        <3>2. QED
            BY <1>7, <3>1
    <2>4. p \in Seq(Callable) /\ Len(p) = 2 /\ p[1] = Hold /\ p[2] = d
        <3>1. PICK a : a = Append(h, d)
            OBVIOUS
        <3>2. d \in Callable /\ h \in Seq(Callable) /\ Len(h) = 1 /\ h[1] = Hold
            BY <1>6, <1>8
        <3>3. a \in Seq(Callable) /\ Len(a) = 2 /\ a[1] = Hold /\ a[2] = d
            <4>1. a \in Seq(Callable)
                BY <3>1, <3>2
            <4>2. Len(a) = Len(h) + 1 /\ a[Len(h) + 1] = d
                BY <3>1, <3>2, AppendProperties
            <4>3. \A k \in 1 .. Len(h) : a[k] = h[k]
                BY <3>1, <3>2, AppendProperties
            <4>4. 1 \in 1 .. Len(h) /\ Len(h) + 1 = 2
                BY <3>2
            <4>5. QED
                BY <3>2, <4>1, <4>2, <4>3, <4>4
        <3>4. QED
            BY <2>3, <3>1, <3>3
    <2>5. \A k \in 1 .. 2 : k = 1 \/ k = 2
        OBVIOUS
    <2>6. p = q
        BY <2>2, <2>4, <2>5, SeqEqual
    <2>7. QED
        BY <2>1, <2>6
<1>10. Takes(h, 0, 1)
    <2>1. 0 + 1 = 1 /\ 0 \in Nat
        OBVIOUS
    <2>2. QED
        BY <1>7, <2>1, TakesHold
<1>11. Takes(<<d>>, 1, 0)
    <2>1. 0 = 1 + Weight(d) /\ 0 \in Nat /\ 1 \in Nat
        BY <1>6
    <2>2. QED
        BY <1>6, <2>1, TakesOne
<1>12. Takes(p, 0, 0)
    BY <1>7, <1>10, <1>11, TakesConcat
<1>13. PICK F \in [Blocks -> States] : F = View(ftl)
    BY <1>1, ViewStates
<1>14. Plan(h, F, F)
    <2>1. Follows(Hold, F, F) /\ ReadFits(Hold, F, FALSE)
        BY HoldCode DEF Follows, ReadFits
    <2>2. QED
        BY <1>7, <2>1, PlanOne
<1>15. NoSync(h)
    BY <1>8, HoldCode DEF NoSync
<1>16. Plan(p, F, F)
    <2>1. ReadFits(d, F, FALSE)
        BY <1>6 DEF ReadFits
    <2>2. QED
        BY <1>6, <1>7, <1>8, <1>14, <1>15, <2>1, PlanLast
<1>17. AllowedFrom(sched, p, 0)
    <2>1. AllowedFrom(sched, h, 0)
        BY <1>8, HoldCode, AllowedOther
    <2>2. QED
        BY <1>6, <1>7, <1>8, <2>1, AllowedLast
<1>18. Rest(sched', waiting', work', F, flash)
    <2>1. Run(sched, p) /\ Plan(p, View(ftl), F)
        BY <1>4, <1>9, <1>13, <1>16
    <2>2. QED
        BY <1>1, <1>12, <1>17, <2>1, CallOrder
<1>19. QED
    BY <1>4, <1>5, <1>13, <1>18

(* A read into an entry fits the blocks. *)
LEMMA ReadsOrder ==
    ASSUME NEW f, FtlBase(f), NEW e, NEW r \in Reads(f, e)
    PROVE  r.code = "READ" /\ r.block \in Blocks /\ r.cycle = f.cycle[r.block]
           /\ r.page < f.currentPage[r.block]
<1>1. PICK b \in Blocks, p \in Pages : r = Request("READ", e, b, p, f.cycle[b]) /\ p < f.currentPage[b]
    BY DEF Reads
<1>2. QED
    BY <1>1 DEF Request

(* A miss, with the eviction and the fill it needs, keeps the order. *)
LEMMA SliceMissOrder ==
    ASSUME OrderInv, ~Overtaking, NEW e \in Bufs, NEW c \in DmaCodes, SliceMiss(e, c)
    PROVE  Rest(sched', waiting', work', View(ftl'), flash')
<1>1. Idle /\ FtlOK(ftl) /\ FtlBase(ftl) /\ sched \in Shape /\ flash' = flash
    BY IdleFacts, OrderFacts DEF SliceMiss, OrderInv, FtlOK
<1>2. PICK d : d = Dma(c, e)
    OBVIOUS
<1>3. PICK y \in BOOLEAN : y = (c = "RxDMA")
    OBVIOUS
<1>4. PICK ev \in Evictions(e) :
        /\ \E fill \in {<<>>} \cup {<<r>> : r \in Reads(ev.next, e)} :
               Run(sched, <<Hold>> \o ev.reqs \o fill \o <<d>>)
        /\ ftl' = [ev.next EXCEPT !.dirty[e] = y]
    BY <1>2, <1>3 DEF SliceMiss
<1>5. PICK fill \in {<<>>} \cup {<<r>> : r \in Reads(ev.next, e)} :
          Run(sched, <<Hold>> \o ev.reqs \o fill \o <<d>>)
    BY <1>4
<1>6. FtlBase(ev.next) /\ Takes(ev.reqs, 1, 1)
    BY <1>1, EvictionsOK DEF FtlOK
<1>7. PICK h, q : h = <<Hold>> \o ev.reqs /\ q = ev.reqs
    OBVIOUS
<1>8. q \in Seq(Callable) /\ Plan(q, View(ftl), View(ev.next)) /\ NoSync(q)
    BY <1>1, <1>7, EvictionsOrder DEF EvictedTo
<1>9. PICK F \in [Blocks -> States], G \in [Blocks -> States] : F = View(ftl) /\ G = View(ev.next)
    BY <1>1, <1>6, ViewStates
<1>10. h \in Seq(Callable) /\ Plan(h, F, G) /\ NoSync(h)
    BY <1>7, <1>8, <1>9, PlanHold, HoldItems
<1>11. AllowedFrom(sched, h, 0)
    <2>1. AllowedFrom(sched, q, 0)
        BY <1>1, <1>7, EvictionsAllowed
    <2>2. PICK o : o = <<Hold>>
        OBVIOUS
    <2>3. o \in Seq(Callable) /\ Len(o) = 1 /\ o[1] = Hold /\ \A k \in 1 .. 1 : k = 1
        BY <2>2, HoldCode
    <2>4. AllowedFrom(sched, o, 0)
        BY <2>3, HoldCode, AllowedOther
    <2>5. QED
        BY <1>7, <1>8, <2>1, <2>2, <2>3, <2>4, AllowedConcat
<1>12. Takes(<<Hold>>, 0, 1)
    <2>1. 0 + 1 = 1 /\ 0 \in Nat
        OBVIOUS
    <2>2. QED
        BY <2>1, TakesHold
<1>13. Takes(h, 0, 1)
    BY <1>6, <1>7, <1>12, TakesConcat
<1>14. PICK o : o = h \o fill
    OBVIOUS
<1>15. o \in Seq(Callable) /\ Plan(o, F, G) /\ NoSync(o) /\ AllowedFrom(sched, o, 0) /\ Takes(o, 0, 1)
    <2>1. CASE fill = <<>>
        <3>1. o = h
            BY <1>10, <1>14, <2>1
        <3>2. QED
            BY <1>10, <1>11, <1>13, <3>1
    <2>2. ASSUME NEW r \in Reads(ev.next, e), fill = <<r>>
          PROVE  o \in Seq(Callable) /\ Plan(o, F, G) /\ NoSync(o) /\ AllowedFrom(sched, o, 0)
                 /\ Takes(o, 0, 1)
        <3>1. r \in Callable /\ Weight(r) = 0
            BY <1>6, ReadsOK
        <3>2. r.code = "READ" /\ r.block \in Blocks /\ r.cycle = ev.next.cycle[r.block] /\ r # Sync
              /\ r.page < ev.next.currentPage[r.block]
            BY <1>6, ReadsOrder, SyncCode
        <3>3. ReadFits(r, G, FALSE)
            BY <1>9, <3>2, ViewAt, StateParts DEF ReadFits
        <3>4. o = h \o <<r>>
            BY <1>14, <2>2
        <3>5. Plan(o, F, G)
            BY <1>10, <3>1, <3>2, <3>3, <3>4, PlanLast
        <3>6. AllowedFrom(sched, o, 0)
            BY <1>10, <1>11, <3>1, <3>2, <3>4, AllowedLast
        <3>7. o \in Seq(Callable) /\ NoSync(o)
            <4>1. PICK z : z = <<r>>
                OBVIOUS
            <4>2. z \in Seq(Callable) /\ Len(z) = 1 /\ z[1] = r /\ \A k \in 1 .. 1 : k = 1
                BY <3>1, <4>1
            <4>3. NoSync(z)
                BY <3>2, <4>2 DEF NoSync
            <4>4. QED
                BY <1>10, <3>4, <4>1, <4>2, <4>3, NoSyncConcat
        <3>8. Takes(<<r>>, 1, 1)
            <4>1. 1 \in Nat /\ 1 = 1 + Weight(r)
                BY <3>1
            <4>2. QED
                BY <3>1, <4>1, TakesOne
        <3>9. Takes(o, 0, 1)
            BY <1>13, <3>4, <3>8, TakesConcat
        <3>10. QED
            BY <3>5, <3>6, <3>7, <3>9
    <2>3. QED
        BY <2>1, <2>2
<1>16. d \in Callable /\ d.code \notin {"READ", "WRITE", "ERASE"} /\ d # Sync /\ Weight(d) = -1
    BY <1>2, DmaParts, DmaOK
<1>17. PICK p : p = o \o <<d>>
    OBVIOUS
<1>18. Plan(p, F, G)
    <2>1. ReadFits(d, G, FALSE)
        BY <1>16 DEF ReadFits
    <2>2. QED
        BY <1>15, <1>16, <1>17, <2>1, PlanLast
<1>19. AllowedFrom(sched, p, 0)
    BY <1>15, <1>16, <1>17, AllowedLast
<1>20. Takes(p, 0, 0)
    <2>1. 0 = 1 + Weight(d) /\ 0 \in Nat /\ 1 \in Nat
        BY <1>16
    <2>2. Takes(<<d>>, 1, 0)
        BY <1>16, <2>1, TakesOne
    <2>3. QED
        BY <1>15, <1>17, <2>2, TakesConcat
<1>21. Rest(sched', waiting', work', G, flash)
    <2>1. Run(sched, p) /\ Plan(p, View(ftl), G)
        BY <1>5, <1>7, <1>9, <1>14, <1>17, <1>18
    <2>2. QED
        BY <1>1, <1>19, <1>20, <2>1, CallOrder
<1>22. View(ftl') = G
    <2>1. PICK f, g : f = ev.next /\ g = ftl'
        OBVIOUS
    <2>2. FtlBase(f) /\ g = [f EXCEPT !.dirty[e] = y]
        BY <1>4, <1>6, <2>1
    <2>3. View(g) = View(f)
        <3>1. g.cycle = f.cycle /\ g.currentPage = f.currentPage
            BY <2>2 DEF FtlBase
        <3>2. QED
            BY <3>1, ViewSame
    <2>4. QED
        BY <1>9, <2>1, <2>3
<1>23. QED
    BY <1>1, <1>21, <1>22

(* A CXL load, with its possibly stale read, keeps the order. *)
LEMMA CxlLoadOrder ==
    ASSUME OrderInv, ~Overtaking, NEW e \in Bufs, CxlLoad(e)
    PROVE  Rest(sched', waiting', work', View(ftl'), flash')
<1>1. Idle /\ FtlOK(ftl) /\ FtlBase(ftl) /\ sched \in Shape /\ flash' = flash
    BY IdleFacts, OrderFacts DEF CxlLoad, OrderInv, FtlOK
<1>2. PICK ev \in Evictions(e), r \in Reads(ftl, e), y \in BOOLEAN :
        /\ ev.next.cycle[r.block] = ftl.cycle[r.block] \/ Moved(r, ev)
        /\ Run(sched, ev.reqs \o <<r, Sync>>)
        /\ ftl' = [ev.next EXCEPT !.dirty[e] = y]
    BY DEF CxlLoad
<1>3. FtlBase(ev.next) /\ Takes(ev.reqs, 0, 0)
    BY <1>1, EvictionsOK DEF FtlOK
<1>4. PICK q : q = ev.reqs
    OBVIOUS
<1>5. EvictedTo(q, ev.next)
    BY <1>1, <1>4, EvictionsOrder
<1>6. q \in Seq(Callable) /\ Plan(q, View(ftl), View(ev.next)) /\ NoSync(q)
    BY <1>5 DEF EvictedTo
<1>7. PICK F \in [Blocks -> States], G \in [Blocks -> States] : F = View(ftl) /\ G = View(ev.next)
    BY <1>1, <1>3, ViewStates
<1>8. r \in Callable /\ Weight(r) = 0 /\ r.code = "READ" /\ r.block \in Blocks
      /\ r.cycle = ftl.cycle[r.block] /\ r.page < ftl.currentPage[r.block] /\ r.page \in Nat
    <2>1. r \in Requests
        BY <1>1, ReadsOK DEF Callable
    <2>2. QED
        BY <1>1, <2>1, ReadsOK, ReadsOrder DEF Requests
<1>9. ReadFits(r, G, TRUE)
    <2>1. CASE ev.next.cycle[r.block] = ftl.cycle[r.block]
        <3>1. ftl.currentPage[r.block] <= ev.next.currentPage[r.block]
            BY <1>5, <1>8, <2>1 DEF EvictedTo, Ahead
        <3>2. /\ NumPages \in Nat /\ ftl.currentPage[r.block] \in 0 .. NumPages
              /\ ev.next.currentPage[r.block] \in 0 .. NumPages
            BY <1>1, <1>3, <1>8, FtlTypes, ReqSizesAssumption DEF ReqSizesAssumption
        <3>3. r.page < ev.next.currentPage[r.block]
            BY <1>8, <3>1, <3>2
        <3>4. /\ G[r.block].cycle = ev.next.cycle[r.block]
              /\ G[r.block].pages = ev.next.currentPage[r.block]
            BY <1>7, <1>8, ViewAt, StateParts
        <3>5. QED
            BY <1>8, <2>1, <3>3, <3>4 DEF ReadFits
    <2>2. CASE Moved(r, ev)
        <3>1. PICK k \in DOMAIN q : q[k].code = "READ" /\ q[k].block = r.block
            BY <1>4, <2>2 DEF Moved
        <3>2. k \in 1 .. Len(q)
            BY <1>6, <3>1
        <3>3. ev.next.currentPage[r.block] = 0 /\ ev.next.cycle[r.block] # ftl.cycle[r.block]
            BY <1>5, <3>1, <3>2 DEF EvictedTo
        <3>4. G[r.block].pages = 0 /\ G[r.block].cycle # r.cycle
            BY <1>7, <1>8, <3>3, ViewAt, StateParts
        <3>5. QED
            BY <1>8, <3>4 DEF ReadFits
    <2>3. QED
        BY <1>2, <2>1, <2>2
<1>10. PICK l : l = <<r, Sync>>
    OBVIOUS
<1>11. /\ l \in Seq(Callable) /\ Len(l) = 2 /\ l[1] = r /\ l[2] = Sync
       /\ \A k \in 1 .. 2 : k = 1 \/ k = 2
    BY <1>8, <1>10, WeightFact
<1>12. Sync.code \notin {"WRITE", "ERASE"} /\ Weight(Sync) = 0
    BY WeightFact DEF Sync, Dma, Request
<1>13. \A k \in 1 .. Len(l) : l[k].code \notin {"WRITE", "ERASE"} /\ Weight(l[k]) = 0
    BY <1>8, <1>11, <1>12
<1>14. Plan(l, G, G)
    BY <1>8, <1>9, <1>10, PlanLoad
<1>15. Takes(l, 0, 0)
    BY <1>11, <1>13, TakesNothing
<1>16. AllowedFrom(sched, l, 0)
    BY <1>13, AllowedOther
<1>17. AllowedFrom(sched, q, 0)
    BY <1>1, <1>4, EvictionsAllowed
<1>18. PICK p : p = q \o l
    OBVIOUS
<1>19. Apart(q, l)
    BY <1>13 DEF Apart
<1>20. Plan(p, F, G)
    BY <1>6, <1>7, <1>11, <1>14, <1>18, <1>19, PlanConcat
<1>21. AllowedFrom(sched, p, 0)
    BY <1>6, <1>11, <1>16, <1>17, <1>18, AllowedConcat
<1>22. Takes(p, 0, 0)
    BY <1>3, <1>4, <1>15, <1>18, TakesConcat
<1>23. Rest(sched', waiting', work', G, flash)
    <2>1. Run(sched, p) /\ Plan(p, View(ftl), G)
        BY <1>2, <1>4, <1>7, <1>10, <1>18, <1>20
    <2>2. QED
        BY <1>1, <1>21, <1>22, <2>1, CallOrder
<1>24. View(ftl') = G
    <2>1. PICK f, g : f = ev.next /\ g = ftl'
        OBVIOUS
    <2>2. FtlBase(f) /\ g = [f EXCEPT !.dirty[e] = y]
        BY <1>2, <1>3, <2>1
    <2>3. View(g) = View(f)
        <3>1. g.cycle = f.cycle /\ g.currentPage = f.currentPage
            BY <2>2 DEF FtlBase
        <3>2. QED
            BY <3>1, ViewSame
    <2>4. QED
        BY <1>7, <2>1, <2>3
<1>25. QED
    BY <1>1, <1>23, <1>24
(* The wait for all requests, after what a call hands down. *)
LEMMA SyncLast ==
    ASSUME NEW q \in Seq(Callable), NEW F \in [Blocks -> States],
           NEW G \in [Blocks -> States], Plan(q, F, G), NoSync(q),
           AllowedFrom(sched, q, 0), Takes(q, 0, 0), NEW p, p = q \o <<Sync>>
    PROVE  p \in Seq(Callable) /\ Plan(p, F, G) /\ AllowedFrom(sched, p, 0) /\ Takes(p, 0, 0)
<1>1. Sync \in Callable /\ Sync.code \notin {"READ", "WRITE", "ERASE"}
    BY WeightFact DEF Sync, Dma, Request
<1>2. ReadFits(Sync, G, FALSE)
    BY <1>1 DEF ReadFits
<1>3. Plan(p, F, G)
    BY <1>1, <1>2, PlanLast
<1>4. AllowedFrom(sched, p, 0)
    BY <1>1, AllowedLast
<1>5. Takes(p, 0, 0)
    BY TakesSync, TakesConcat
<1>6. QED
    BY <1>3, <1>4, <1>5 DEF Takes

(* Log compaction of a page in an entry keeps the order. *)
LEMMA FlushEntryOrder ==
    ASSUME OrderInv, ~Overtaking, NEW e \in Bufs, FlushEntry(e)
    PROVE  Rest(sched', waiting', work', View(ftl'), flash')
<1>1. Idle /\ FtlOK(ftl) /\ FtlBase(ftl) /\ sched \in Shape /\ flash' = flash
    BY IdleFacts, OrderFacts DEF FlushEntry, OrderInv, FtlOK
<1>2. PICK ev \in Evictions(e) :
        /\ Run(sched, ev.reqs \o <<Sync>>)
        /\ ftl' = [ev.next EXCEPT !.dirty[e] = FALSE]
    BY DEF FlushEntry
<1>3. FtlBase(ev.next) /\ Takes(ev.reqs, 0, 0)
    BY <1>1, EvictionsOK DEF FtlOK
<1>4. PICK q, p : q = ev.reqs /\ p = q \o <<Sync>>
    OBVIOUS
<1>5. q \in Seq(Callable) /\ Plan(q, View(ftl), View(ev.next)) /\ NoSync(q)
    BY <1>1, <1>4, EvictionsOrder DEF EvictedTo
<1>6. PICK F \in [Blocks -> States], G \in [Blocks -> States] : F = View(ftl) /\ G = View(ev.next)
    BY <1>1, <1>3, ViewStates
<1>7. AllowedFrom(sched, q, 0)
    BY <1>1, <1>4, EvictionsAllowed
<1>8. Plan(p, F, G) /\ AllowedFrom(sched, p, 0) /\ Takes(p, 0, 0)
    <2>1. Plan(q, F, G) /\ Takes(q, 0, 0)
        BY <1>3, <1>4, <1>5, <1>6
    <2>2. QED
        BY <1>4, <1>5, <1>7, <2>1, SyncLast
<1>9. Rest(sched', waiting', work', G, flash)
    <2>1. Run(sched, p) /\ Plan(p, View(ftl), G)
        BY <1>2, <1>4, <1>6, <1>8
    <2>2. QED
        BY <1>1, <1>8, <2>1, CallOrder
<1>10. View(ftl') = G
    <2>1. PICK f, g : f = ev.next /\ g = ftl'
        OBVIOUS
    <2>2. FtlBase(f) /\ g = [f EXCEPT !.dirty[e] = FALSE]
        BY <1>2, <1>3, <2>1
    <2>3. View(g) = View(f)
        <3>1. g.cycle = f.cycle /\ g.currentPage = f.currentPage
            BY <2>2 DEF FtlBase
        <3>2. QED
            BY <3>1, ViewSame
    <2>4. QED
        BY <1>6, <2>1, <2>3
<1>11. QED
    BY <1>1, <1>9, <1>10

(* Log compaction of a page in no entry keeps the order, and so does a     *)
(* page write.                                                             *)
LEMMA PageWriteOrder ==
    ASSUME OrderInv, ~Overtaking, PageWrite
    PROVE  Rest(sched', waiting', work', View(ftl'), flash')
<1>1. Idle /\ FtlOK(ftl) /\ FtlBase(ftl) /\ sched \in Shape /\ flash' = flash
    BY IdleFacts, OrderFacts, PageWriteFact DEF OrderInv, FtlOK
<1>2. PICK read \in PageReads, ev \in AllowedWrites(NoEntry) :
          Run(sched, read \o ev.reqs \o <<Sync>>) /\ ftl' = ev.next
    BY PageWriteFact
<1>3. PICK w \in Ways : ev \in Writes(w, NoEntry)
    BY <1>2, AllowedWritesFact
<1>4. NoEntry \in Bufs \cup {NoEntry}
    OBVIOUS
<1>5. FtlBase(ev.next) /\ Takes(ev.reqs, 0, 0)
    <2>1. FtlOK(ev.next) /\ \A n \in Nat : Takes(ev.reqs, n, n)
        BY <1>1, <1>3, <1>4, WritesOK, Zenon
    <2>2. QED
        BY <2>1 DEF FtlOK
<1>6. PICK x : x = ev.reqs
    OBVIOUS
<1>7. x \in Seq(Callable) /\ Plan(x, View(ftl), View(ev.next)) /\ NoSync(x)
    <2>1. EvictedTo(ev.reqs, ev.next)
        BY <1>1, <1>3, <1>4, WritesOrder, Zenon
    <2>2. QED
        BY <1>6, <2>1 DEF EvictedTo
<1>8. PICK F \in [Blocks -> States], G \in [Blocks -> States] : F = View(ftl) /\ G = View(ev.next)
    BY <1>1, <1>5, ViewStates
<1>9. AllowedFrom(sched, x, 0)
    <2>1. AllowedFrom(sched, ev.reqs, 0)
        BY <1>1, <1>4, WritesAllowed, Zenon
    <2>2. QED
        BY <1>6, <2>1
<1>10. PICK y : y = x \o <<Sync>>
    OBVIOUS
<1>11. y \in Seq(Callable) /\ Plan(y, F, G) /\ AllowedFrom(sched, y, 0) /\ Takes(y, 0, 0)
    <2>1. Plan(x, F, G) /\ Takes(x, 0, 0)
        BY <1>5, <1>6, <1>7, <1>8
    <2>2. QED
        BY <1>7, <1>9, <1>10, <2>1, SyncLast
<1>12. PICK p : p = read \o y
    OBVIOUS
<1>13. /\ Plan(p, F, G) /\ AllowedFrom(sched, p, 0) /\ Takes(p, 0, 0)
       /\ p = read \o x \o <<Sync>>
    <2>1. CASE read = <<>>
        <3>1. p = y /\ read \o x = x
            BY <1>7, <1>11, <1>12, <2>1
        <3>2. QED
            BY <1>10, <1>11, <3>1
    <2>2. ASSUME NEW r \in Reads(ftl, NoEntry), read = <<r, Sync>>
          PROVE  /\ Plan(p, F, G) /\ AllowedFrom(sched, p, 0) /\ Takes(p, 0, 0)
                 /\ p = read \o x \o <<Sync>>
        <3>1. r \in Callable /\ Weight(r) = 0
            BY <1>1, ReadsOK
        <3>2. /\ r.code = "READ" /\ r.block \in Blocks /\ r.cycle = ftl.cycle[r.block]
              /\ r.page < ftl.currentPage[r.block]
            BY <1>1, ReadsOrder
        <3>3. ReadFits(r, F, FALSE)
            BY <1>8, <3>2, ViewAt, StateParts DEF ReadFits
        <3>4. Plan(p, F, G)
            BY <1>11, <1>12, <2>2, <3>1, <3>2, <3>3, PlanAfterLoad
        <3>5. /\ read \in Seq(Callable) /\ Len(read) = 2 /\ read[1] = r /\ read[2] = Sync
              /\ \A k \in 1 .. 2 : k = 1 \/ k = 2
            BY <2>2, <3>1, WeightFact
        <3>6. Sync.code \notin {"WRITE", "ERASE"} /\ Weight(Sync) = 0
            BY WeightFact DEF Sync, Dma, Request
        <3>7. \A k \in 1 .. Len(read) :
                  read[k].code \notin {"WRITE", "ERASE"} /\ Weight(read[k]) = 0
            BY <3>1, <3>2, <3>5, <3>6
        <3>8. Takes(read, 0, 0) /\ AllowedFrom(sched, read, 0)
            BY <3>5, <3>7, TakesNothing, AllowedOther
        <3>9. AllowedFrom(sched, p, 0)
            BY <1>11, <1>12, <3>5, <3>8, AllowedConcat
        <3>10. Takes(p, 0, 0)
            BY <1>11, <1>12, <3>8, TakesConcat
        <3>11. p = read \o x \o <<Sync>>
            <4>1. PICK l : l = <<Sync>>
                OBVIOUS
            <4>2. l \in Seq(Callable)
                BY <4>1, WeightFact
            <4>3. (read \o x) \o l = read \o (x \o l)
                BY <1>7, <3>5, <4>2, ConcatAssociative
            <4>4. QED
                BY <1>10, <1>12, <4>1, <4>3
        <3>12. QED
            BY <3>4, <3>9, <3>10, <3>11
    <2>3. QED
        BY <2>1, <2>2, PageReadsFact
<1>14. Rest(sched', waiting', work', G, flash)
    <2>1. Run(sched, p) /\ Plan(p, View(ftl), G)
        BY <1>2, <1>6, <1>8, <1>13
    <2>2. QED
        BY <1>1, <1>13, <2>1, CallOrder
<1>15. QED
    BY <1>1, <1>2, <1>8, <1>14
-----------------------------------------------------------------------------

(* At the start every block is empty, on the flash and for the upper       *)
(* layers.                                                                 *)
LEMMA InitOrder == Init => OrderInv
<1>1. SUFFICES ASSUME Init PROVE OrderInv
    OBVIOUS
<1>2. ReqInv /\ FtlBase(ftl) /\ InOrder(sched, NoTag)
    BY <1>1, InitReqInv, SchedInit, FtlInit DEF FtlOK
<1>3. PICK F : F = View(ftl)
    OBVIOUS
<1>4. F \in [Blocks -> States]
    BY <1>2, <1>3, ViewStates
<1>5. \A b \in Blocks : F[b] = State(0, 0) /\ flash[b] = State(0, 0) /\ State(0, 0) \in States
    <2>1. /\ \A b \in Blocks : ftl.cycle[b] = 0
          /\ \A b \in Blocks : ftl.currentPage[b] = 0
        BY <1>1 DEF Init
    <2>2. \A b \in Blocks : F[b] = State(0, 0)
        BY <1>3, <2>1, ViewAt
    <2>3. \A b \in Blocks : flash[b] = State(0, 0)
        BY <1>1 DEF Init, State
    <2>4. State(0, 0) \in States
        BY DEF State, States
    <2>5. QED
        BY <2>2, <2>3, <2>4
<1>6. flash \in [Blocks -> States]
    <2>1. flash = [b \in Blocks |-> State(0, 0)]
        BY <1>1 DEF Init, State
    <2>2. QED
        BY <1>5, <2>1
<1>7. /\ work = <<>> /\ waiting = NoTag /\ sched.bufQ = {}
      /\ \A w \in Ways : sched.rowQ[w] = <<>> /\ sched.nandQ[w] = <<>>
      /\ \A b \in Blocks : sched.permitted[b] = 0 /\ sched.eraseFlag[b] = FALSE
    BY <1>1 DEF Init
<1>8. Pend(sched) = {}
    <2>1. Range(<<>>) = {}
        BY DEF Range
    <2>2. QED
        BY <1>7, <2>1 DEF Pend
<1>9. PICK go : go = [b \in Blocks |-> 0]
    OBVIOUS
<1>10. PICK none : none = {}
    OBVIOUS
<1>11. Pending(sched.req, sched.permitted, sched.eraseFlag, none, go, F, FALSE)
    <2>1. \A b \in Blocks : F[b].cycle = 0 /\ F[b].pages = 0
        BY <1>5, StateParts
    <2>2. TableLags(sched.permitted, sched.eraseFlag, go, F)
        BY <1>7, <1>9, <2>1 DEF TableLags
    <2>3. /\ Sorts(sched.req, none) /\ WritesDiffer(sched.req, none)
          /\ OneErase(sched.req, none) /\ ErasesLast(sched.req, none)
        BY <1>10 DEF Sorts, WritesDiffer, OneErase, ErasesLast
    <2>4. /\ WritesDue(sched.req, sched.permitted, sched.eraseFlag, none, go, F)
          /\ ErasesDue(sched.req, sched.eraseFlag, none, go)
          /\ ReadsDue(sched.req, sched.eraseFlag, none, go, F, FALSE)
        BY <1>10 DEF WritesDue, ErasesDue, ReadsDue
    <2>5. QED
        BY <2>2, <2>3, <2>4 DEF Pending
<1>12. ASSUME NEW b \in Blocks
       PROVE  Trail(sched.nandQ[WayOf[b]], sched.req, b, flash[b], State(go[b], sched.permitted[b]))
    <2>1. sched.nandQ[WayOf[b]] = <<>> /\ go[b] = 0 /\ sched.permitted[b] = 0
        BY <1>7, <1>9, WayOfFact
    <2>2. PICK x \in States : x = State(0, 0)
        BY <1>5
    <2>3. PICK req : req = sched.req
        OBVIOUS
    <2>4. Trail(<<>>, req, b, x, x)
        BY TrailEmpty
    <2>5. QED
        BY <1>5, <2>1, <2>2, <2>3, <2>4
<1>13. Ordered(sched, none, F, FALSE, flash)
    <2>1. go \in [Blocks -> Int]
        BY <1>9
    <2>2. \A b \in Blocks : F[b].pages = 0 /\ ~sched.eraseFlag[b]
        BY <1>5, <1>7, StateParts
    <2>3. Full(sched.req, sched.permitted, sched.eraseFlag, none, F)
        <3>1. \A p \in Nat : ~(p < 0)
            OBVIOUS
        <3>2. QED
            BY <2>2, <3>1 DEF Full, OpenFull, ShutFull
    <2>4. PICK age : age = [t \in Tags |-> 0]
        OBVIOUS
    <2>5. Awaits(age, sched.req, sched.permitted, sched.eraseFlag, none, F)
        BY <1>10 DEF Awaits, ReadAwaits, WriteAwaits, EraseAwaits
    <2>6. Aged(age, 0, sched.nextBlocking)
        <3>1. \A t \in Tags : sched.nextBlocking[t] = NoTag
            BY <1>1 DEF Init
        <3>2. 0 \in Nat /\ 0 \in 0 .. 0
            OBVIOUS
        <3>3. age \in [Tags -> 0 .. 0]
            BY <2>4, <3>2
        <3>4. QED
            BY <3>1, <3>2, <3>3 DEF Aged, ChainAged
    <2>7. Timely(sched, none, F)
        BY <2>3, <2>5, <2>6 DEF Timely, TimelyBy
    <2>8. QED
        BY <1>11, <1>12, <2>1, <2>7 DEF Ordered, OrderedBy
<1>14. Len(work) = 0 /\ 0 + 1 # 0 /\ 0 + 1 .. 0 = {}
    BY <1>7
<1>15. Ordered(sched, Pend(sched), F, Ends(work, 0) /\ waiting = NoTag, flash)
    <2>1. (Ends(work, 0) /\ waiting = NoTag) = FALSE
        BY <1>14 DEF Ends
    <2>2. Ordered(sched, Pend(sched), F, FALSE, flash)
        BY <1>8, <1>10, <1>13
    <2>3. QED
        BY <2>1, <2>2, Zenon
<1>16. Plan(work, F, F)
    BY <1>4, <1>7, PlanNone
<1>17. WaitOK(sched, waiting, F, Ends(work, 0)) /\ AllowedFrom(sched, work, 0)
    BY <1>7, <1>14 DEF WaitOK, AllowedFrom
<1>18. Linked(sched, waiting)
    <2>1. \A t \in Tags : sched.prevBlocking[t] = NoTag
        BY <1>1 DEF Init
    <2>2. QED
        BY <1>7, <2>1, TagFact DEF Linked
<1>19. Rest(sched, waiting, work, F, flash)
    BY <1>15, <1>16, <1>17, <1>18 DEF Rest
<1>20. QED
    BY <1>2, <1>3, <1>6, <1>19 DEF OrderInv

(* Every step keeps the order. *)
LEMMA NextOrder ==
    ASSUME ~Overtaking, OrderInv, [Next]_vars, ReqInv'
    PROVE  OrderInv'
<1>1. /\ Rest(sched', waiting', work', View(ftl'), flash')
      /\ flash' \in [Blocks -> States]
    <2>1. flash \in [Blocks -> States]
        BY DEF OrderInv
    <2>2. CASE TagFreed
        <3>1. flash' = flash
            BY <2>2 DEF TagFreed
        <3>2. QED
            BY <2>1, <2>2, <3>1, TagFreedOrder
    <2>3. CASE EraseReleased
        <3>1. flash' = flash
            BY <2>3 DEF EraseReleased
        <3>2. QED
            BY <2>1, <2>3, <3>1, EraseReleasedOrder
    <2>4. CASE AllDone
        <3>1. flash' = flash
            BY <2>4 DEF AllDone
        <3>2. QED
            BY <2>1, <2>4, <3>1, AllDoneOrder
    <2>5. ASSUME NEW done, DmaDone(done)
          PROVE  /\ Rest(sched', waiting', work', View(ftl'), flash')
                 /\ flash' \in [Blocks -> States]
        <3>1. flash' = flash
            BY <2>5 DEF DmaDone
        <3>2. QED
            BY <2>1, <2>5, <3>1, DmaDoneOrder
    <2>6. ASSUME NEW w \in Ways, NandDone(w)
          PROVE  /\ Rest(sched', waiting', work', View(ftl'), flash')
                 /\ flash' \in [Blocks -> States]
        BY <2>6, NandDoneOrder
    <2>7. ASSUME NEW e \in Bufs, NEW c \in DmaCodes, SliceHit(e, c)
          PROVE  /\ Rest(sched', waiting', work', View(ftl'), flash')
                 /\ flash' \in [Blocks -> States]
        <3>1. flash' = flash
            BY <2>7 DEF SliceHit
        <3>2. QED
            BY <2>1, <2>7, <3>1, SliceHitOrder
    <2>8. ASSUME NEW e \in Bufs, NEW c \in DmaCodes, SliceMiss(e, c)
          PROVE  /\ Rest(sched', waiting', work', View(ftl'), flash')
                 /\ flash' \in [Blocks -> States]
        <3>1. flash' = flash
            BY <2>8 DEF SliceMiss
        <3>2. QED
            BY <2>1, <2>8, <3>1, SliceMissOrder
    <2>9. ASSUME NEW e \in Bufs, CxlLoad(e)
          PROVE  /\ Rest(sched', waiting', work', View(ftl'), flash')
                 /\ flash' \in [Blocks -> States]
        <3>1. flash' = flash
            BY <2>9 DEF CxlLoad
        <3>2. QED
            BY <2>1, <2>9, <3>1, CxlLoadOrder
    <2>10. ASSUME NEW e \in Bufs, FlushEntry(e)
           PROVE  /\ Rest(sched', waiting', work', View(ftl'), flash')
                  /\ flash' \in [Blocks -> States]
        <3>1. flash' = flash
            BY <2>10 DEF FlushEntry
        <3>2. QED
            BY <2>1, <2>10, <3>1, FlushEntryOrder
    <2>11. CASE PageWrite
        <3>1. flash' = flash
            BY <2>11, PageWriteFact
        <3>2. QED
            BY <2>1, <2>11, <3>1, PageWriteOrder
    <2>12. CASE UNCHANGED vars
        <3>1. /\ sched' = sched /\ waiting' = waiting /\ work' = work
              /\ ftl' = ftl /\ flash' = flash
            BY <2>12 DEF vars
        <3>2. QED
            BY <3>1 DEF OrderInv
    <2>13. QED
        BY <2>2, <2>3, <2>4, <2>5, <2>6, <2>7, <2>8, <2>9, <2>10, <2>11, <2>12 DEF Next
<1>2. QED
    BY <1>1 DEF OrderInv

(* What is at the head of a way fits the block.                            *)
LEMMA OrderHolds == OrderInv => FlashInOrder
<1>1. SUFFICES ASSUME OrderInv, NEW w \in Ways, sched.nandQ[w] # <<>>,
                      NEW r, r = sched.req[Head(sched.nandQ[w])],
                      NEW f, f = flash[r.block]
               PROVE  /\ r.cycle = f.cycle
                      /\ r.code = "READ" => r.page < f.pages
                      /\ r.code # "READ" => r.page = f.pages
    BY DEF FlashInOrder
<1>2. PICK at : Sound(sched, waiting, at, {}) /\ Settled(at)
    BY <1>1, OrderFacts
<1>3. sched \in Shape
    BY <1>2, SoundFacts
<1>4. PICK t : t = Head(sched.nandQ[w])
    OBVIOUS
<1>5. t \in Range(sched.nandQ[w])
    <2>1. sched.nandQ[w] \in Seq(Tags)
        BY <1>3, ShapeOrder
    <2>2. QED
        BY <1>1, <1>4, <2>1 DEF Range
<1>6. t \in OnWay(sched.req, at, "nand", w)
    <2>1. Core(sched, waiting, at)
        BY <1>2, SoundFacts
    <2>2. Range(sched.nandQ[w]) = OnWay(sched.req, at, "nand", w)
        BY <2>1, CoreFacts DEF Lists
    <2>3. QED
        BY <1>5, <2>2
<1>7. t \in Tags /\ at[t] = "nand" /\ WayOf[r.block] = w
    BY <1>1, <1>4, <1>6 DEF OnWay
<1>8. r.block \in Blocks
    BY <1>1, <1>2, <1>4, <1>7, SoundFacts DEF NandReq
<1>9. PICK F : HandedView(F)
    BY <1>1, OrderTurn
<1>10. PICK d : Ordered(sched, Pend(sched), F, d, flash)
    BY <1>9 DEF HandedView, InTurn, Turned
<1>11. PICK P : Ordered(sched, P, F, d, flash)
    BY <1>10
<1>12. Fits(r, flash[r.block])
    BY <1>1, <1>3, <1>7, <1>8, <1>11, HeadFits
<1>13. QED
    BY <1>1, <1>12 DEF Fits

(* A block is programmed and erased in the order in which the requests     *)
(* were handed down, and read where something is programmed: what the      *)
(* dependency tables are for (request_transform.c, CheckRowAddrDep).  This *)
(* holds as long as no request overtakes the blocked erase of its block.   *)
THEOREM FlashInOrderCorrect ==
    ASSUME ~Overtaking
    PROVE  Spec => []FlashInOrder
<1>1. Init => ReqInv /\ OrderInv
    BY InitReqInv, InitOrder
<1>2. OrderInv /\ ReqInv' /\ [Next]_vars => OrderInv'
    BY NextOrder
<1>3. Spec => []OrderInv
    BY <1>1, <1>2, ReqInvariant, PTL DEF Spec
<1>4. QED
    BY <1>3, OrderHolds, PTL
-----------------------------------------------------------------------------

(* A queue with nothing in it leads nowhere. *)
LEMMA TrailStays ==
    ASSUME NEW req, NEW b, NEW x, NEW y, Trail(<<>>, req, b, x, y)
    PROVE  x = y
<1>1. PICK h : TrailBy(h, <<>>, req, b, x, y)
    BY DEF Trail
<1>2. Len(<<>>) = 0 /\ 0 + 1 = 1
    OBVIOUS
<1>3. QED
    BY <1>1, <1>2 DEF TrailBy

(* One of the requests P is the oldest. *)
LEMMA Oldest ==
    ASSUME NEW P, P # {}, P \subseteq Tags, NEW top \in Nat, NEW age \in [Tags -> 0 .. top]
    PROVE  \E t \in P : \A y \in P : ~(age[y] < age[t])
<1>1. PICK A : A = {age[y] : y \in P}
    OBVIOUS
<1>2. A \subseteq Nat /\ A # {}
    BY <1>1
<1>3. PICK R : R = OpToRel(<, Nat)
    OBVIOUS
<1>4. IsWellFoundedOn(R, Nat)
    BY <1>3, NatLessThanWellFounded
<1>5. \A i, j \in Nat : i < j => <<i, j>> \in R
    BY <1>3 DEF OpToRel
<1>6. PICK m \in A : \A a \in A : ~ (<<a, m>> \in R)
    BY <1>2, <1>4, WFMin
<1>7. \A a \in A : ~(a < m)
    BY <1>2, <1>5, <1>6
<1>8. PICK t \in P : age[t] = m
    BY <1>1, <1>6
<1>9. \A y \in P : age[y] \in A
    BY <1>1
<1>10. QED
    BY <1>7, <1>8, <1>9

(* The oldest request that is blocked by the row address table, when its   *)
(* way has nothing else to do, is a read of a block that has been erased.  *)
LEMMA OldestRow ==
    ASSUME NEW s, NEW wt, NEW at, Sound(s, wt, at, {}),
           NEW F, NEW d, NEW fl, NEW go, NEW P, P = Pend(s), OrderedBy(go, s, P, F, d, fl),
           NEW age, NEW top, TimelyBy(age, top, s, P, F),
           NEW t \in Tags, at[t] = "row", \A y \in P : ~(age[y] < age[t]),
           NEW r, r = s.req[t], s.nandQ[WayOf[r.block]] = <<>>
    PROVE  r.code = "READ" /\ r.cycle # fl[r.block].cycle
<1>1. /\ s \in Shape /\ r \in Requests /\ NandReq(r) /\ t \in P
      /\ \A w \in Ways : SeenAt(s, w)
    <2>1. s \in Shape /\ r \in Requests /\ NandReq(r) /\ \A w \in Ways \ {} : SeenAt(s, w)
        BY SoundFacts
    <2>2. t \in P
        BY PendFact
    <2>3. QED
        BY <2>1, <2>2
<1>2. PICK b \in Blocks : b = r.block
    BY <1>1 DEF NandReq
<1>3. PICK w \in Ways : w = WayOf[b]
    BY <1>2, WayOfFact
<1>4. PICK pm, ef, req : pm = s.permitted /\ ef = s.eraseFlag /\ req = s.req
    OBVIOUS
<1>5. pm \in [Blocks -> Nat] /\ r.page \in Nat
    BY <1>1, <1>4, ShapeOrder DEF Requests
<1>6. PICK m \in Nat : m = pm[b]
    BY <1>5
<1>7. ~RowAddrPass(s, t)
    <2>1. Range(s.rowQ[w]) = OnWay(s.req, at, "row", w)
        BY SoundFacts, CoreFacts DEF Lists
    <2>2. t \in Range(s.rowQ[w])
        BY <1>2, <1>3, <2>1 DEF OnWay
    <2>3. QED
        BY <1>1, <1>2, <1>3, <2>2 DEF SeenAt
<1>8. /\ ReadAwaits(age, req, pm, ef, P, F) /\ WriteAwaits(age, req, pm, P)
      /\ EraseAwaits(age, req, pm, P)
    BY <1>4 DEF TimelyBy, Awaits
<1>9. r.code \in {"READ", "WRITE", "ERASE"}
    BY <1>1 DEF NandReq, FlashCodes
<1>10. ASSUME r.code = "WRITE" PROVE FALSE
    <2>1. r.page # m
        BY <1>2, <1>4, <1>6, <1>7, <1>10 DEF RowAddrPass
    <2>2. CASE r.page < m
        BY <1>1, <1>2, <1>4, <1>6, <1>8, <1>10, <2>2 DEF WriteAwaits
    <2>3. CASE m < r.page
        <3>1. m <= m
            OBVIOUS
        <3>2. \E y \in P : Programs(req[y], b, m) /\ age[y] < age[t]
            BY <1>1, <1>2, <1>4, <1>6, <1>8, <1>10, <2>3, <3>1 DEF WriteAwaits
        <3>3. QED
            BY <3>2
    <2>4. QED
        BY <1>5, <2>1, <2>2, <2>3
<1>11. ASSUME r.code = "ERASE" PROVE FALSE
    <2>1. /\ m <= r.page
          /\ \A p \in Nat : m <= p /\ p < r.page =>
                 \E y \in P : Programs(req[y], b, p) /\ age[y] < age[t]
          /\ \A y \in P : Reading(req[y], b) => age[y] < age[t]
        BY <1>1, <1>2, <1>4, <1>6, <1>8, <1>11 DEF EraseAwaits
    <2>2. CASE m < r.page
        <3>1. m <= m
            OBVIOUS
        <3>2. QED
            BY <2>1, <2>2, <3>1
    <2>3. CASE m = r.page
        <3>1. s.blockedReads[b] # 0
            BY <1>2, <1>4, <1>6, <1>7, <1>11, <2>3 DEF RowAddrPass
        <3>2. PICK x : x = ReadsOf(s.req, at, b)
            OBVIOUS
        <3>3. Cardinality(x) # 0
            BY <3>1, <3>2, SoundFacts DEF ReadsCounted
        <3>4. x # {}
            BY <3>3, FS_EmptySet
        <3>5. PICK y \in Tags : /\ at[y] \in {"row", "buf"}
                               /\ s.req[y].code = "READ" /\ s.req[y].block = b
            BY <3>2, <3>4 DEF ReadsOf
        <3>6. y \in P
            BY <3>5, PendFact
        <3>7. QED
            BY <1>4, <2>1, <3>5, <3>6 DEF Reading
    <2>4. QED
        BY <1>5, <2>1, <2>2, <2>3
<1>12. ASSUME r.code = "READ" PROVE r.cycle # fl[b].cycle
    <2>1. m <= r.page
        <3>1. ~(r.page < m)
            BY <1>2, <1>4, <1>6, <1>7, <1>12 DEF RowAddrPass
        <3>2. QED
            BY <1>5, <3>1
    <2>2. ~ef[b] /\ r.cycle # F[b].cycle
        <3>1. SUFFICES ASSUME ef[b] \/ r.cycle = F[b].cycle PROVE FALSE
            OBVIOUS
        <3>2. r.page <= r.page
            BY <1>5
        <3>3. \E y \in P : Programs(req[y], b, r.page) /\ age[y] < age[t]
            BY <1>1, <1>2, <1>4, <1>5, <1>6, <1>8, <1>12, <2>1, <3>1, <3>2 DEF ReadAwaits
        <3>4. QED
            BY <3>3
    <2>3. F[b].cycle = go[b]
        BY <1>4, <2>2 DEF OrderedBy, Pending, TableLags
    <2>4. fl[b] = State(go[b], s.permitted[b])
        <3>1. Trail(s.nandQ[WayOf[b]], s.req, b, fl[b], State(go[b], s.permitted[b]))
            BY DEF OrderedBy
        <3>2. s.nandQ[WayOf[b]] = <<>>
            BY <1>2
        <3>3. QED
            BY <3>1, <3>2, TrailStays
    <2>5. QED
        BY <2>2, <2>3, <2>4, StateParts
<1>13. QED
    BY <1>2, <1>9, <1>10, <1>11, <1>12

(* The read that waits leads to nobody, and a request that is blocked by   *)
(* one of its entry has an older one before it.  When the flash and the    *)
(* DMA engine have nothing to do, that one is blocked itself.              *)
LEMMA OldestNoBuf ==
    ASSUME NEW s, NEW wt, NEW at, Sound(s, wt, at, {}), Settled(at), Linked(s, wt),
           \A w \in Ways : s.nandQ[w] = <<>>, s.dmaQ = <<>>,
           NEW age, NEW top, Aged(age, top, s.nextBlocking),
           NEW t \in Tags, \A y \in Pend(s) : ~(age[y] < age[t])
    PROVE  at[t] # "buf"
<1>1. SUFFICES ASSUME at[t] = "buf" PROVE FALSE
    OBVIOUS
<1>2. t \in s.bufQ
    <2>1. s.bufQ = At(at, "buf")
        BY SoundFacts, CoreFacts
    <2>2. QED
        BY <1>1, <2>1 DEF At
<1>3. PICK z \in Tags : s.prevBlocking[t] = z /\ s.nextBlocking[z] = t
    BY <1>2 DEF Linked
<1>4. NoTag \notin Tags
    BY TagFact
<1>5. age[z] < age[t]
    BY <1>3, <1>4 DEF Aged, ChainAged
<1>6. z \notin Pend(s)
    BY <1>5
<1>7. at[z] \notin {"row", "buf"}
    BY <1>6, PendFact
<1>8. at[z] \notin {"free", "held", "new"}
    BY <1>3, <1>4, SoundFacts DEF Chained, LinksFit, Live
<1>9. at[z] # "loose"
    BY DEF Settled
<1>10. Range(<<>>) = {}
    BY DEF Range
<1>11. at[z] # "dma"
    <2>1. At(at, "dma") = {}
        BY <1>10, SoundFacts, CoreFacts DEF Lists
    <2>2. QED
        BY <2>1 DEF At
<1>12. at[z] # "nand"
    <2>1. SUFFICES ASSUME at[z] = "nand" PROVE FALSE
        OBVIOUS
    <2>2. NandReq(s.req[z])
        BY <2>1, SoundFacts
    <2>3. PICK w \in Ways : w = WayOf[s.req[z].block]
        BY <2>2, WayOfFact DEF NandReq
    <2>4. OnWay(s.req, at, "nand", w) = {}
        BY <1>10, SoundFacts, CoreFacts DEF Lists
    <2>5. QED
        BY <2>1, <2>3, <2>4 DEF OnWay
<1>13. at[z] # "wait"
    <2>1. SUFFICES ASSUME at[z] = "wait" PROVE FALSE
        OBVIOUS
    <2>2. {wt} \ {NoTag} = At(at, "wait")
        BY SoundFacts, CoreFacts
    <2>3. z = wt
        BY <2>1, <2>2 DEF At
    <2>4. s.nextBlocking[z] = NoTag
        BY <2>3 DEF Linked
    <2>5. QED
        BY <1>3, <1>4, <2>4
<1>14. at[z] \in Places
    BY SoundFacts
<1>15. QED
    BY <1>7, <1>8, <1>9, <1>11, <1>12, <1>13, <1>14 DEF Places

(* Without work on the way, the oldest blocked request is a stale read.    *)
LEMMA OrderStuck == OrderInv => NothingStuck
<1>1. SUFFICES ASSUME OrderInv, \A w \in Ways : sched.nandQ[w] = <<>>, sched.dmaQ = <<>>
               PROVE  \/ /\ sched.blocked = 0
                         /\ waiting # NoTag => HasEraseReleased
                      \/ \E t \in InRowQ :
                             /\ sched.req[t].code = "READ"
                             /\ sched.req[t].cycle # flash[sched.req[t].block].cycle
    BY DEF NothingStuck
<1>2. PICK at : Sound(sched, waiting, at, {}) /\ Settled(at)
    BY <1>1, OrderFacts
<1>3. PICK F : HandedView(F)
    BY <1>1, OrderTurn
<1>4. PICK d : Ordered(sched, Pend(sched), F, d, flash)
    BY <1>3 DEF HandedView, InTurn, Turned
<1>5. Linked(sched, waiting) /\ WaitOK(sched, waiting, F, Ends(work, 0))
    BY <1>3 DEF HandedView, InTurn
<1>6. PICK P : P = Pend(sched)
    OBVIOUS
<1>7. PICK go : OrderedBy(go, sched, P, F, d, flash)
    BY <1>4, <1>6 DEF Ordered
<1>8. PICK age, top : TimelyBy(age, top, sched, P, F)
    BY <1>7 DEF OrderedBy, Timely
<1>9. P \subseteq Tags /\ \A y \in P : at[y] \in {"row", "buf"}
    BY <1>2, <1>6, PendFact
<1>10. CASE P # {}
    <2>1. top \in Nat /\ age \in [Tags -> 0 .. top] /\ Aged(age, top, sched.nextBlocking)
        BY <1>8 DEF TimelyBy, Aged
    <2>2. PICK t \in P : \A y \in P : ~(age[y] < age[t])
        BY <1>9, <1>10, <2>1, Oldest
    <2>3. t \in Tags /\ \A y \in Pend(sched) : ~(age[y] < age[t])
        BY <1>6, <1>9, <2>2
    <2>4. at[t] # "buf"
        BY <1>1, <1>2, <1>5, <2>1, <2>3, OldestNoBuf
    <2>5. at[t] = "row"
        BY <1>9, <2>4
    <2>6. PICK r : r = sched.req[t]
        OBVIOUS
    <2>7. PICK w \in Ways : w = WayOf[r.block]
        BY <1>2, <2>3, <2>5, <2>6, SoundFacts, WayOfFact DEF NandReq
    <2>8. r.code = "READ" /\ r.cycle # flash[r.block].cycle
        BY <1>1, <1>2, <1>6, <1>7, <1>8, <2>2, <2>3, <2>5, <2>6, <2>7, OldestRow
    <2>9. t \in InRowQ
        <3>1. Range(sched.rowQ[w]) = OnWay(sched.req, at, "row", w)
            BY <1>2, SoundFacts, CoreFacts DEF Lists
        <3>2. t \in Range(sched.rowQ[w])
            BY <2>3, <2>5, <2>6, <2>7, <3>1 DEF OnWay
        <3>3. QED
            BY <3>2 DEF InRowQ
    <2>10. QED
        BY <2>6, <2>8, <2>9
<1>11. CASE P = {}
    <2>1. sched.blocked = 0
        <3>1. At(at, "row") \cup At(at, "buf") = {}
            BY <1>2, <1>6, <1>11, PendFact DEF At
        <3>2. QED
            BY <1>2, <3>1, SoundFacts, CoreFacts, FS_EmptySet DEF Counted
    <2>2. ASSUME waiting # NoTag PROVE HasEraseReleased
        <3>1. PICK r : r = sched.req[waiting]
            OBVIOUS
        <3>2. r.block \in Blocks
            BY <1>5, <2>2, <3>1 DEF WaitOK, ReadFits
        <3>3. ~sched.eraseFlag[r.block]
            BY <1>8, <1>11, <3>2 DEF TimelyBy, Full, ShutFull
        <3>4. QED
            BY <2>2, <3>1, <3>3 DEF HasEraseReleased
    <2>3. QED
        BY <2>1, <2>2
<1>12. QED
    BY <1>10, <1>11

(* A request that was handed down is not left behind: each blocked one     *)
(* waits for an older one, so the oldest waits for the flash or the DMA    *)
(* engine, or it is the read of a stale load (request_transform.c,         *)
(* ReleaseBlockedByRowAddrDepReq and ReleaseBlockedByBufDepReq).           *)
THEOREM NothingStuckCorrect ==
    ASSUME ~Overtaking
    PROVE  Spec => []NothingStuck
<1>1. Init => ReqInv /\ OrderInv
    BY InitReqInv, InitOrder
<1>2. OrderInv /\ ReqInv' /\ [Next]_vars => OrderInv'
    BY NextOrder
<1>3. Spec => []OrderInv
    BY <1>1, <1>2, ReqInvariant, PTL DEF Spec
<1>4. QED
    BY <1>3, OrderStuck, PTL
=============================================================================
