---------------------------- MODULE AuditsProofs ----------------------------
(***************************************************************************)
(* Theorems about Audits, for any pages, wallets and tables, and any       *)
(* numbers of posts, losses and switches.                                  *)
(*                                                                         *)
(* Nothing protects a taker but the lists of the others.  The invariant    *)
(* follows an audit from the table through the reads, the lists and the    *)
(* selections to the posts: a row that was free when the table was read is *)
(* free still, or was taken by a later write (Fresh).                      *)
(***************************************************************************)
EXTENDS Audits, FiniteSetTheorems, SequenceTheorems, TLAPS

Fresh(r, asOf) == rows[r].topAuditor = None \/ rows[r].takenAt > asOf

(* A list is of the first rows of the table.                               *)
Listed(list, asOf) ==
  /\ Len(list) <= Len(rows) /\ asOf <= writes
  /\ \A r \in DOMAIN list :
       list[r].hash = rows[r].hash /\ (list[r].topAuditor = None => Fresh(r, asOf))

(* A hash was chosen from a list.                                          *)
Chosen(hash, asOf) ==
  /\ asOf <= writes
  /\ hash # None => \E r \in DOMAIN rows : rows[r].hash = hash /\ Fresh(r, asOf)

PageOK(pg) ==
  /\ Listed(pg.auditData, pg.asOf)
  /\ \A read \in pg.reads : Listed(read.auditData, read.asOf)
  /\ Chosen(pg.selected, pg.selectedAsOf)

PostOK(q) ==
  /\ q.kind = "take" => Chosen(q.hash, q.asOf)
  /\ q.kind # "take" => q.hash \in Hashes
  /\ q.kind = "report" => q.url \in ReportUrls
  /\ q.state = "sent" => q.at = 0

PagesOK == \A p \in Pages : PageOK(page[p])

PostsOK == \A i \in DOMAIN posts : PostOK(posts[i])

Handled == {i \in DOMAIN posts : posts[i].at > 0}

(* Each post is handled once, and every row but the first ones was asked   *)
(* for by a post of its own, though some are refused.                      *)
CountsOK ==
  /\ writes = Cardinality(Handled)
  /\ Len(rows) <= Len(Seeds) + Cardinality(Handled \cap Requests)
  /\ Len(Seeds) + Cardinality(Requests) <= MaxRows

ValuesOK ==
  /\ rows \in Seq(Row) /\ writes \in Nat /\ page \in [Pages -> Page]
  /\ switches \in 0 .. MaxSwitches
  /\ posts \in Seq(Post) /\ Len(posts) <= MaxPosts

IInv == ValuesOK /\ PagesOK /\ PostsOK /\ CountsOK
-----------------------------------------------------------------------------
(* What is known of a page, a post, a row and a read.                      *)
LEMMA PageType ==
  ASSUME NEW pg \in Page
  PROVE  /\ pg.currentAccount \in Accounts /\ pg.auditData \in Seq(Row) /\ pg.asOf \in Nat
         /\ pg.selected \in Hashes \cup {None} /\ pg.selectedAsOf \in Nat
         /\ pg.timers \in Nat /\ pg.reads \subseteq Read /\ pg.lost \in BOOLEAN
BY DEF Page

LEMMA PostType ==
  ASSUME NEW q \in Post
  PROVE  /\ q.page \in Pages /\ q.kind \in {"request", "take", "report"}
         /\ q.account \in Accounts /\ q.hash \in Hashes \cup {None}
         /\ q.url \in ReportUrls \cup {None} /\ q.asOf \in Nat
         /\ q.state \in {"sent", "answered", "done"} /\ q.at \in Nat
BY DEF Post

LEMMA RowType ==
  ASSUME rows \in Seq(Row), NEW r \in DOMAIN rows
  PROVE  /\ rows[r] \in Row /\ rows[r].hash \in Hashes
         /\ rows[r].topAuditor \in Accounts \cup {None} /\ rows[r].takenAt \in Nat
<1>1. rows[r] \in Row
  BY ElementOfSeq, LenProperties
<1> QED
  BY <1>1 DEF Row

(* The effect runs or not; the list and what is selected stay.             *)
LEMMA ChangeToType ==
  ASSUME NEW pg \in Page, NEW token \in Token
  PROVE  /\ ChangeTo(pg, token) \in Page
         /\ ChangeTo(pg, token).auditData = pg.auditData /\ ChangeTo(pg, token).asOf = pg.asOf
         /\ ChangeTo(pg, token).selected = pg.selected
         /\ ChangeTo(pg, token).selectedAsOf = pg.selectedAsOf
         /\ ChangeTo(pg, token).reads = pg.reads
<1> DEFINE timers == IF pg.auditsChange = token THEN pg.timers ELSE pg.timers + 1
           changed == [pg EXCEPT !.auditsChange = token, !.timers = timers]
<1>1. timers \in Nat
  BY DEF Page
<1>2. ChangeTo(pg, token) = changed
  BY DEF ChangeTo
<1> HIDE DEF timers
<1>3. /\ changed \in Page /\ changed.auditData = pg.auditData /\ changed.asOf = pg.asOf
      /\ changed.selected = pg.selected /\ changed.selectedAsOf = pg.selectedAsOf
      /\ changed.reads = pg.reads
  BY <1>1 DEF Page
<1> HIDE DEF changed
<1> QED
  BY <1>2, <1>3

(* One page changes, and the table does not.                               *)
LEMMA PageGoes ==
  ASSUME ValuesOK, PagesOK, NEW p \in Pages, NEW pg \in Page, PageOK(pg),
         page' = [page EXCEPT ![p] = pg], UNCHANGED <<rows, writes>>
  PROVE  page' \in [Pages -> Page] /\ PagesOK'
<1>1. page' \in [Pages -> Page] /\ page'[p] = pg /\ \A q \in Pages \ {p} : page'[q] = page[q]
  BY DEF ValuesOK
<1>2. ASSUME NEW q \in Pages PROVE PageOK(page'[q])
  BY <1>1 DEF PagesOK
<1>3. ASSUME NEW q \in Pages PROVE PageOK(page[q])'
  BY <1>2 DEF PageOK, Listed, Chosen, Fresh
<1> QED
  BY <1>1, <1>3 DEF PagesOK

(* Nothing the posts were said to be depends on a page.                    *)
LEMMA PostsStay ==
  ASSUME PostsOK, CountsOK, UNCHANGED <<rows, writes, posts>>
  PROVE  PostsOK' /\ CountsOK'
BY DEF PostsOK, PostOK, Chosen, Fresh, CountsOK, Handled, Requests

LEMMA PageStepKeeps ==
  ASSUME IInv, NEW p \in Pages, NEW pg \in Page, PageOK(pg),
         page' = [page EXCEPT ![p] = pg], UNCHANGED <<rows, writes, posts>>,
         switches' \in 0 .. MaxSwitches
  PROVE  IInv'
<1>1. page' \in [Pages -> Page] /\ PagesOK'
  BY PageGoes DEF IInv
<1>2. PostsOK' /\ CountsOK'
  BY PostsStay DEF IInv
<1> QED
  BY <1>1, <1>2 DEF IInv, ValuesOK
-----------------------------------------------------------------------------
(* The steps of a page.                                                    *)
LEMMA SwitchKeeps ==
  ASSUME IInv, NEW p \in Pages, NEW a \in Range(Wallet[p]), SwitchAccount(p, a)
  PROVE  IInv'
<1> DEFINE moved == [page[p] EXCEPT !.currentAccount = a]
           pg == IF p \in Followers THEN ChangeTo(moved, a) ELSE moved
<1>1. a \in Accounts /\ a \in Token
  BY AuditsAssumption DEF Range, Token
<1>2. page[p] \in Page /\ PageOK(page[p])
  BY DEF IInv, ValuesOK, PagesOK
<1>3. moved \in Page /\ PageOK(moved)
  BY <1>1, <1>2 DEF Page, PageOK
<1>4. page' = [page EXCEPT ![p] = pg]
  BY DEF SwitchAccount
<1>5. switches' \in 0 .. MaxSwitches /\ UNCHANGED <<rows, writes, posts>>
  BY AuditsAssumption DEF IInv, ValuesOK, SwitchAccount
<1> HIDE DEF moved
<1>6. pg \in Page /\ PageOK(pg)
  BY <1>1, <1>3, ChangeToType DEF PageOK
<1> HIDE DEF pg
<1> QED
  BY <1>4, <1>5, <1>6, PageStepKeeps

LEMMA GetDataKeeps ==
  ASSUME IInv, NEW p \in Pages, GetData(p)
  PROVE  IInv'
<1> DEFINE old == page[p]
           read == [asOf |-> writes, auditData |-> rows]
           timers == old.timers - 1
           reads == old.reads \cup {read}
           pg == [old EXCEPT !.timers = timers, !.reads = reads]
<1>1. old \in Page /\ PageOK(old) /\ old.timers > 0
  BY DEF IInv, ValuesOK, PagesOK, GetData
<1>2. read \in Read
  BY DEF IInv, ValuesOK, Read
<1>3. read.asOf = writes /\ read.auditData = rows
  OBVIOUS
<1>4. Listed(read.auditData, read.asOf)
  <2>1. rows \in Seq(Row) /\ writes \in Nat /\ Len(rows) \in Nat
    BY DEF IInv, ValuesOK
  <2>2. \A r \in DOMAIN rows : rows[r].topAuditor = None => Fresh(r, writes)
    BY DEF Fresh
  <2> QED
    BY <1>3, <2>1, <2>2 DEF Listed
<1>5. page' = [page EXCEPT ![p] = pg] /\ UNCHANGED <<rows, writes, posts, switches>>
  BY DEF GetData
<1> HIDE DEF old
<1>t. timers \in Nat /\ reads \subseteq Read
  <2> HIDE DEF read
  <2> QED
    BY <1>1, <1>2, PageType
<1> HIDE DEF timers, read
<1>6. /\ pg \in Page /\ pg.reads = old.reads \cup {read}
      /\ pg.auditData = old.auditData /\ pg.asOf = old.asOf
      /\ pg.selected = old.selected /\ pg.selectedAsOf = old.selectedAsOf
  <2>1. pg.reads = reads
    BY <1>1 DEF Page
  <2> HIDE DEF reads
  <2>2. /\ pg \in Page
        /\ pg.auditData = old.auditData /\ pg.asOf = old.asOf
        /\ pg.selected = old.selected /\ pg.selectedAsOf = old.selectedAsOf
    BY <1>1, <1>t DEF Page
  <2> QED
    BY <2>1, <2>2 DEF reads
<1> HIDE DEF pg
<1>7. PageOK(pg)
  BY <1>1, <1>4, <1>6 DEF PageOK
<1> QED
  BY <1>5, <1>6, <1>7, PageStepKeeps DEF IInv, ValuesOK

LEMMA AnswerKeeps ==
  ASSUME IInv, NEW p \in Pages, NEW read \in page[p].reads,
         SetAuditData(p, read) \/ ReadLost(p, read)
  PROVE  IInv'
<1> DEFINE old == page[p]
           shown == [old EXCEPT !.reads = old.reads \ {read}, !.auditData = read.auditData,
                                !.asOf = read.asOf]
           without == [old EXCEPT !.reads = old.reads \ {read}, !.lost = TRUE]
<1>1. old \in Page /\ PageOK(old) /\ read \in old.reads
  BY DEF IInv, ValuesOK, PagesOK
<1>2. read.asOf \in Nat /\ read.auditData \in Seq(Row) /\ Listed(read.auditData, read.asOf)
  BY <1>1, PageType DEF PageOK, Read
<1>3. /\ page' = [page EXCEPT ![p] = shown] \/ page' = [page EXCEPT ![p] = without]
      /\ UNCHANGED <<rows, writes, posts, switches>>
  BY DEF SetAuditData, ReadLost
<1> HIDE DEF old
<1>4. /\ shown \in Page /\ shown.reads = old.reads \ {read}
      /\ shown.auditData = read.auditData /\ shown.asOf = read.asOf
      /\ shown.selected = old.selected /\ shown.selectedAsOf = old.selectedAsOf
  BY <1>1, <1>2 DEF Page
<1>5. /\ without \in Page /\ without.reads = old.reads \ {read}
      /\ without.auditData = old.auditData /\ without.asOf = old.asOf
      /\ without.selected = old.selected /\ without.selectedAsOf = old.selectedAsOf
  BY <1>1 DEF Page
<1> HIDE DEF shown, without
<1>6. PageOK(shown) /\ PageOK(without)
  BY <1>1, <1>2, <1>4, <1>5 DEF PageOK
<1> QED
  BY <1>3, <1>4, <1>5, <1>6, PageStepKeeps DEF IInv, ValuesOK

LEMMA SelectKeeps ==
  ASSUME IInv, NEW p \in Pages, Select(p) \/ Unselect(p)
  PROVE  IInv'
<1> DEFINE old == page[p]
           Chose(hash, asOf) == [old EXCEPT !.selected = hash, !.selectedAsOf = asOf]
<1>1. old \in Page /\ PageOK(old)
  BY DEF IInv, ValuesOK, PagesOK
<1>2. PICK hash \in Hashes \cup {None}, asOf \in Nat :
        page' = [page EXCEPT ![p] = Chose(hash, asOf)] /\ Chosen(hash, asOf)
  <2>1. CASE Unselect(p)
    <3>1. page' = [page EXCEPT ![p] = Chose(None, 0)]
      BY <2>1 DEF Unselect
    <3>2. Chosen(None, 0)
      BY DEF Chosen, IInv, ValuesOK
    <3> QED
      BY <3>1, <3>2
  <2>2. CASE Select(p)
    <3>1. PICK a \in NonTakenAudits(p) : page' = [page EXCEPT ![p] = Chose(a.hash, old.asOf)]
      BY <2>2 DEF Select
    <3>2. PICK r \in DOMAIN old.auditData : a = old.auditData[r] /\ a.topAuditor = None
      BY DEF NonTakenAudits, Range
    <3>3. old.auditData \in Seq(Row) /\ old.asOf \in Nat
      BY <1>1, PageType
    <3>4. Listed(old.auditData, old.asOf)
      BY <1>1 DEF PageOK
    <3>5. r \in DOMAIN rows /\ a \in Row
      <4>1. rows \in Seq(Row) /\ r \in 1 .. Len(old.auditData) /\ Len(old.auditData) <= Len(rows)
        BY <3>2, <3>3, <3>4 DEF Listed, IInv, ValuesOK
      <4> QED
        BY <3>2, <3>3, <4>1
    <3>6. Chosen(a.hash, old.asOf) /\ a.hash \in Hashes
      BY <3>2, <3>4, <3>5 DEF Listed, Chosen, Row
    <3> QED
      BY <3>1, <3>3, <3>6
  <2> QED
    BY <2>1, <2>2
<1>3. UNCHANGED <<rows, writes, posts, switches>>
  BY DEF Select, Unselect
<1> DEFINE pg == Chose(hash, asOf)
<1> HIDE DEF old
<1>4. /\ pg \in Page /\ pg.reads = old.reads
      /\ pg.auditData = old.auditData /\ pg.asOf = old.asOf
      /\ pg.selected = hash /\ pg.selectedAsOf = asOf
  BY <1>1 DEF Page
<1>5. page' = [page EXCEPT ![p] = pg]
  BY <1>2
<1> HIDE DEF pg, Chose
<1>6. PageOK(pg)
  BY <1>1, <1>2, <1>4 DEF PageOK
<1> QED
  BY <1>3, <1>4, <1>5, <1>6, PageStepKeeps DEF IInv, ValuesOK
-----------------------------------------------------------------------------
(* The posts.                                                              *)
LEMMA PostsFinite ==
  ASSUME ValuesOK
  PROVE  /\ IsFiniteSet(Handled) /\ IsFiniteSet(Requests) /\ IsFiniteSet(Handled \cap Requests)
         /\ Cardinality(Handled) \in Nat /\ Cardinality(Requests) \in Nat
         /\ Cardinality(Handled \cap Requests) \in Nat
         /\ Cardinality(Handled) <= Len(posts)
         /\ Cardinality(Handled \cap Requests) <= Cardinality(Requests)
<1>1. DOMAIN posts = 1 .. Len(posts) /\ Len(posts) \in Nat
  BY DEF ValuesOK
<1>2. IsFiniteSet(1 .. Len(posts)) /\ Cardinality(1 .. Len(posts)) = Len(posts)
  <2>1. IsFiniteSet(1 .. Len(posts))
    BY <1>1, FS_Interval
  <2>2. Cardinality(1 .. Len(posts)) = IF 1 > Len(posts) THEN 0 ELSE Len(posts) - 1 + 1
    BY <1>1, FS_Interval
  <2> QED
    BY <1>1, <2>1, <2>2
<1>3. Handled \subseteq 1 .. Len(posts) /\ Requests \subseteq 1 .. Len(posts)
  BY <1>1 DEF Handled, Requests
<1>4. /\ IsFiniteSet(Handled) /\ Cardinality(Handled) <= Len(posts)
      /\ IsFiniteSet(Requests)
  BY <1>2, <1>3, FS_Subset
<1>5. /\ IsFiniteSet(Handled \cap Requests)
      /\ Cardinality(Handled \cap Requests) <= Cardinality(Requests)
  BY <1>4, FS_Subset
<1> QED
  BY <1>4, <1>5, FS_CardinalityType

LEMMA SentKeeps ==
  ASSUME ValuesOK, PostsOK, CountsOK, NEW p \in Pages,
         NEW kind \in {"request", "take", "report"}, NEW hash \in Hashes \cup {None},
         NEW url \in ReportUrls \cup {None}, Sent(p, kind, hash, url),
         UNCHANGED <<rows, writes>>,
         kind = "take" => Chosen(hash, page[p].selectedAsOf),
         kind # "take" => hash \in Hashes,
         kind = "report" => url \in ReportUrls,
         kind = "request" => Len(Seeds) + Cardinality(Requests) < MaxRows
  PROVE  posts' \in Seq(Post) /\ Len(posts') <= MaxPosts /\ PostsOK' /\ CountsOK'
<1> DEFINE n == Len(posts) + 1
<1>1. PICK q \in Post :
        /\ posts' = Append(posts, q)
        /\ q.kind = kind /\ q.hash = hash /\ q.url = url
        /\ q.asOf = page[p].selectedAsOf /\ q.state = "sent" /\ q.at = 0
  <2> DEFINE new == [page |-> p, kind |-> kind, account |-> page[p].currentAccount,
                     hash |-> hash, url |-> url, asOf |-> page[p].selectedAsOf,
                     state |-> "sent", at |-> 0]
  <2>1. page[p].currentAccount \in Accounts /\ page[p].selectedAsOf \in Nat
    BY PageType DEF ValuesOK
  <2>2. /\ new \in Post /\ new.kind = kind /\ new.hash = hash /\ new.url = url
        /\ new.asOf = page[p].selectedAsOf /\ new.state = "sent" /\ new.at = 0
    BY <2>1 DEF Post
  <2>3. posts' = Append(posts, new)
    BY DEF Sent
  <2> HIDE DEF new
  <2> QED
    BY <2>2, <2>3
<1>2. posts \in Seq(Post) /\ Len(posts) < MaxPosts
  BY DEF ValuesOK, Sent
<1>3. PostOK(q)
  BY <1>1 DEF PostOK
<1>4. /\ posts' \in Seq(Post) /\ Len(posts') = n /\ n \notin DOMAIN posts
      /\ DOMAIN posts' = DOMAIN posts \cup {n}
      /\ posts'[n] = q /\ \A i \in DOMAIN posts : posts'[i] = posts[i]
  BY <1>1, <1>2
<1>5. Len(posts') <= MaxPosts
  BY <1>2, <1>4, AuditsAssumption
<1> HIDE DEF n
<1>6. ASSUME NEW i \in DOMAIN posts' PROVE PostOK(posts[i])'
  <2>1. PostOK(posts'[i])
    BY <1>3, <1>4 DEF PostsOK
  <2> QED
    BY <2>1 DEF PostOK, Chosen, Fresh
<1>7. Handled' = Handled
  BY <1>1, <1>4 DEF Handled
<1>8. Requests' = (IF kind = "request" THEN Requests \cup {n} ELSE Requests) /\ n \notin Requests
  BY <1>1, <1>4 DEF Requests
<1>9. Handled' \cap Requests' = Handled \cap Requests
  <2>1. n \notin Handled
    BY <1>4 DEF Handled
  <2> QED
    BY <1>7, <1>8, <2>1
<1>10. Len(Seeds) + Cardinality(Requests') <= MaxRows
  <2>1. Cardinality(Requests \cup {n}) = Cardinality(Requests) + 1 /\ Cardinality(Requests) \in Nat
    BY <1>8, PostsFinite, FS_AddElement
  <2>2. Len(Seeds) \in Nat /\ MaxRows \in Nat
    BY AuditsAssumption
  <2> QED
    BY <1>8, <2>1, <2>2 DEF CountsOK
<1>11. CountsOK'
  <2>1. Cardinality(Handled') = Cardinality(Handled)
    BY <1>7
  <2>2. Cardinality(Handled' \cap Requests') = Cardinality(Handled \cap Requests)
    BY <1>9
  <2> QED
    BY <1>10, <2>1, <2>2 DEF CountsOK
<1> QED
  BY <1>4, <1>5, <1>6, <1>11 DEF PostsOK

(* The steps of a page that send something.                                *)
LEMMA SendingKeeps ==
  ASSUME IInv, NEW p \in Pages, Take(p) \/ SendReport(p)
  PROVE  IInv'
<1>1. page[p] \in Page /\ PageOK(page[p])
  BY DEF IInv, ValuesOK, PagesOK
<1>2. UNCHANGED <<rows, writes, page, switches>>
  BY DEF Take, SendReport
<1>3. posts' \in Seq(Post) /\ Len(posts') <= MaxPosts /\ PostsOK' /\ CountsOK'
  <2>1. CASE Take(p)
    <3>1. Sent(p, "take", page[p].selected, None)
      BY <2>1 DEF Take
    <3>2. page[p].selected \in Hashes \cup {None} /\ Chosen(page[p].selected, page[p].selectedAsOf)
      BY <1>1, PageType DEF PageOK
    <3> QED
      BY <1>2, <3>1, <3>2, SentKeeps DEF IInv
  <2>2. CASE SendReport(p)
    <3>1. PICK a \in MyAudits(p), url \in ReportUrls : Sent(p, "report", a.hash, url)
      BY <2>2 DEF SendReport
    <3>2. a \in Row
      <4>1. page[p].auditData \in Seq(Row)
        BY <1>1, PageType
      <4>2. PICK r \in DOMAIN page[p].auditData : a = page[p].auditData[r]
        BY DEF MyAudits, Range
      <4> QED
        BY <4>1, <4>2, ElementOfSeq, LenProperties
    <3>3. a.hash \in Hashes
      BY <3>2 DEF Row
    <3> QED
      BY <1>2, <3>1, <3>3, SentKeeps DEF IInv
  <2> QED
    BY <2>1, <2>2
<1>4. PagesOK'
  BY <1>2 DEF IInv, PagesOK, PageOK, Listed, Chosen, Fresh
<1> QED
  BY <1>2, <1>3, <1>4 DEF IInv, ValuesOK

LEMMA RequestKeeps ==
  ASSUME IInv, NEW p \in Pages, NEW hash \in Hashes, Request(p, hash)
  PROVE  IInv'
<1> DEFINE pg == ChangeTo(page[p], hash)
<1>1. page[p] \in Page /\ PageOK(page[p]) /\ hash \in Token
  BY DEF IInv, ValuesOK, PagesOK, Token
<1>2. /\ UNCHANGED <<rows, writes, switches>> /\ page' = [page EXCEPT ![p] = pg]
      /\ Sent(p, "request", hash, None)
      /\ Len(Seeds) + Cardinality(Requests) < MaxRows
  BY DEF Request
<1>3. pg \in Page /\ PageOK(pg)
  BY <1>1, ChangeToType DEF PageOK
<1> HIDE DEF pg
<1>4. page' \in [Pages -> Page] /\ PagesOK'
  BY <1>2, <1>3, PageGoes DEF IInv
<1>5. posts' \in Seq(Post) /\ Len(posts') <= MaxPosts /\ PostsOK' /\ CountsOK'
  BY <1>2, SentKeeps DEF IInv
<1> QED
  BY <1>2, <1>4, <1>5 DEF IInv, ValuesOK
-----------------------------------------------------------------------------
(* What lar does with a post.  A row keeps its place and its hash, and is  *)
(* taken only by a write of its own.                                       *)
RowGoes(r) ==
  /\ rows'[r].hash = rows[r].hash
  /\ \/ rows'[r].topAuditor = rows[r].topAuditor /\ rows'[r].takenAt = rows[r].takenAt
     \/ rows'[r].takenAt = writes + 1

LEMMA HandledRows ==
  ASSUME ValuesOK, PostsOK, NEW i \in DOMAIN posts, Handle(i)
  PROVE  /\ rows' \in Seq(Row)
         /\ Len(rows') \in Len(rows) .. IF posts[i].kind = "request" THEN Len(rows) + 1
                                                                   ELSE Len(rows)
         /\ \A r \in DOMAIN rows : RowGoes(r)
<1> DEFINE q == posts[i]
<1>1. q \in Post /\ PostOK(q)
  BY ElementOfSeq, LenProperties DEF ValuesOK, PostsOK
<1>2. /\ q.kind \in {"request", "take", "report"} /\ q.account \in Accounts
      /\ q.kind # "take" => q.hash \in Hashes
      /\ q.kind = "report" => q.url \in ReportUrls
  BY <1>1, PostType DEF PostOK
<1>3. /\ q.kind = "request" => rows' \in RequestAudit(q)
      /\ q.kind = "take" => rows' = TakeAudit(q)
      /\ q.kind = "report" => rows' = SaveReport(q)
  BY <1>2 DEF Handle
<1> HIDE DEF q
<1>4. rows \in Seq(Row) /\ writes \in Nat /\ Len(rows) \in Nat /\ DOMAIN rows = 1 .. Len(rows)
  BY DEF ValuesOK
<1>5. CASE q.kind = "request"
  <2> DEFINE row == NewRow(q.account, q.hash)
  <2>1. row \in Row /\ (rows' = rows \/ rows' = Append(rows, row))
    BY <1>2, <1>3, <1>5 DEF NewRow, Row, RequestAudit
  <2> HIDE DEF row
  <2>2. /\ rows' \in Seq(Row) /\ Len(rows') \in Len(rows) .. Len(rows) + 1
        /\ \A r \in DOMAIN rows : rows'[r] = rows[r]
    BY <1>4, <2>1
  <2> QED
    BY <1>5, <2>2 DEF RowGoes, q
<1>6. CASE q.kind = "take"
  <2>1. ASSUME NEW r \in DOMAIN rows PROVE rows'[r] \in Row /\ RowGoes(r)
    <3> DEFINE old == rows[r]
               taken == [old EXCEPT !.manualReport = "In progress", !.topAuditor = q.account,
                                    !.takenAt = writes + 1]
    <3>1. old \in Row /\ writes + 1 \in Nat
      BY <1>4, RowType
    <3>2. rows'[r] = IF old.hash # q.hash THEN old ELSE taken
      BY <1>3, <1>6 DEF TakeAudit
    <3> HIDE DEF old
    <3>3. taken \in Row /\ taken.hash = old.hash /\ taken.takenAt = writes + 1
      BY <1>2, <3>1 DEF Row
    <3> HIDE DEF taken
    <3>4. /\ rows'[r] \in Row /\ rows'[r].hash = old.hash
          /\ \/ rows'[r].topAuditor = old.topAuditor /\ rows'[r].takenAt = old.takenAt
             \/ rows'[r].takenAt = writes + 1
      BY <3>1, <3>2, <3>3
    <3> QED
      BY <3>4 DEF RowGoes, old
  <2>2. rows' \in [1 .. Len(rows) -> Row]
    BY <1>3, <1>4, <1>6, <2>1 DEF TakeAudit
  <2>3. rows' \in Seq(Row) /\ Len(rows') = Len(rows)
    BY <1>4, <2>2
  <2> QED
    BY <1>6, <2>1, <2>3 DEF q
<1>7. CASE q.kind = "report"
  <2>1. ASSUME NEW r \in DOMAIN rows PROVE rows'[r] \in Row /\ RowGoes(r)
    <3> DEFINE old == rows[r]
               saved == [old EXCEPT !.manualReport = q.url]
    <3>1. old \in Row
      BY <1>4, RowType
    <3>2. rows'[r] = IF old.hash # q.hash \/ ~CheckAddress(q.url) THEN old ELSE saved
      BY <1>3, <1>7 DEF SaveReport
    <3> HIDE DEF old
    <3>3. /\ saved \in Row /\ saved.hash = old.hash
          /\ saved.topAuditor = old.topAuditor /\ saved.takenAt = old.takenAt
      BY <1>2, <1>7, <3>1 DEF Row
    <3> HIDE DEF saved
    <3>4. /\ rows'[r] \in Row /\ rows'[r].hash = old.hash
          /\ rows'[r].topAuditor = old.topAuditor /\ rows'[r].takenAt = old.takenAt
      BY <3>1, <3>2, <3>3
    <3> QED
      BY <3>4 DEF RowGoes, old
  <2>2. rows' \in [1 .. Len(rows) -> Row]
    BY <1>3, <1>4, <1>7, <2>1 DEF SaveReport
  <2>3. rows' \in Seq(Row) /\ Len(rows') = Len(rows)
    BY <1>4, <2>2
  <2> QED
    BY <1>7, <2>1, <2>3 DEF q
<1> QED
  BY <1>2, <1>5, <1>6, <1>7

(* What was listed and what was chosen stays so, whatever is written.      *)
LEMMA ListsStay ==
  ASSUME ValuesOK, rows' \in Seq(Row), writes' = writes + 1, Len(rows) <= Len(rows'),
         \A r \in DOMAIN rows : RowGoes(r)
  PROVE  /\ \A list \in Seq(Row), asOf \in Nat : Listed(list, asOf) => Listed(list, asOf)'
         /\ \A hash \in Hashes \cup {None}, asOf \in Nat :
              Chosen(hash, asOf) => Chosen(hash, asOf)'
<1>1. /\ rows \in Seq(Row) /\ writes \in Nat /\ Len(rows) \in Nat /\ Len(rows') \in Nat
      /\ DOMAIN rows = 1 .. Len(rows) /\ DOMAIN rows' = 1 .. Len(rows')
  BY DEF ValuesOK
<1>2. DOMAIN rows \subseteq DOMAIN rows'
  BY <1>1
<1>3. ASSUME NEW r \in DOMAIN rows, NEW asOf \in Nat, asOf <= writes, Fresh(r, asOf)
      PROVE  Fresh(r, asOf)'
  <2>1. /\ rows'[r].topAuditor = rows[r].topAuditor /\ rows'[r].takenAt = rows[r].takenAt
        \/ rows'[r].takenAt = writes + 1
    BY DEF RowGoes
  <2> QED
    BY <1>1, <1>3, <2>1 DEF Fresh
<1>4. ASSUME NEW list \in Seq(Row), NEW asOf \in Nat, Listed(list, asOf)
      PROVE  Listed(list, asOf)'
  <2>1. Len(list) \in Nat /\ DOMAIN list = 1 .. Len(list)
      /\ Len(list) <= Len(rows) /\ asOf <= writes
    BY <1>4 DEF Listed
  <2>2. Len(list) <= Len(rows') /\ asOf <= writes'
    BY <1>1, <2>1
  <2>3. ASSUME NEW r \in DOMAIN list
        PROVE  list[r].hash = rows'[r].hash /\ (list[r].topAuditor = None => Fresh(r, asOf)')
    <3>1. r \in DOMAIN rows
      BY <1>1, <2>1
    <3> QED
      BY <1>3, <1>4, <2>1, <3>1 DEF Listed, RowGoes
  <2> QED
    BY <2>2, <2>3 DEF Listed
<1>5. ASSUME NEW hash \in Hashes \cup {None}, NEW asOf \in Nat, Chosen(hash, asOf)
      PROVE  Chosen(hash, asOf)'
  <2>1. asOf <= writes /\ asOf <= writes'
    BY <1>1, <1>5 DEF Chosen
  <2>2. CASE hash = None
    BY <2>1, <2>2 DEF Chosen
  <2>3. CASE hash # None
    <3>1. PICK r \in DOMAIN rows : rows[r].hash = hash /\ Fresh(r, asOf)
      BY <1>5, <2>3 DEF Chosen
    <3>2. r \in DOMAIN rows' /\ rows'[r].hash = hash /\ Fresh(r, asOf)'
      BY <1>2, <1>3, <2>1, <3>1 DEF RowGoes
    <3> QED
      BY <2>1, <3>2 DEF Chosen
  <2> QED
    BY <2>2, <2>3
<1> QED
  BY <1>4, <1>5

LEMMA HandleKeeps ==
  ASSUME IInv, NEW i \in DOMAIN posts, Handle(i)
  PROVE  IInv'
<1> DEFINE q == posts[i]
           e == [q EXCEPT !.state = "answered", !.at = writes + 1]
<1>1. q \in Post /\ PostOK(q) /\ posts \in Seq(Post) /\ writes \in Nat /\ Len(rows) \in Nat
  BY ElementOfSeq, LenProperties DEF IInv, ValuesOK, PostsOK
<1>2. /\ q.state = "sent" /\ posts' = [posts EXCEPT ![i] = e] /\ writes' = writes + 1
      /\ UNCHANGED <<page, switches>>
  BY DEF Handle
<1>3. /\ rows' \in Seq(Row)
      /\ Len(rows') \in Len(rows) .. IF q.kind = "request" THEN Len(rows) + 1 ELSE Len(rows)
      /\ \A r \in DOMAIN rows : RowGoes(r)
  BY HandledRows DEF IInv
<1> HIDE DEF q
<1>4. /\ e \in Post /\ e.kind = q.kind /\ e.hash = q.hash /\ e.url = q.url /\ e.asOf = q.asOf
      /\ e.state = "answered" /\ e.at = writes + 1
  <2> DEFINE at == writes + 1
  <2>1. at \in Nat
    BY <1>1
  <2> HIDE DEF at
  <2>2. e = [q EXCEPT !.state = "answered", !.at = at]
    BY DEF at
  <2>3. /\ e \in Post /\ e.kind = q.kind /\ e.hash = q.hash /\ e.url = q.url /\ e.asOf = q.asOf
        /\ e.state = "answered" /\ e.at = at
    BY <1>1, <2>1, <2>2 DEF Post
  <2> QED
    BY <2>3 DEF at
<1> HIDE DEF e
<1>5. /\ posts' \in Seq(Post) /\ Len(posts') = Len(posts) /\ DOMAIN posts' = DOMAIN posts
      /\ posts'[i] = e /\ \A j \in DOMAIN posts \ {i} : posts'[j] = posts[j]
  BY <1>1, <1>2, <1>4
<1>6. /\ \A list \in Seq(Row), asOf \in Nat : Listed(list, asOf) => Listed(list, asOf)'
      /\ \A hash \in Hashes \cup {None}, asOf \in Nat : Chosen(hash, asOf) => Chosen(hash, asOf)'
  BY <1>1, <1>2, <1>3, ListsStay DEF IInv
<1>7. PagesOK'
  <2>1. ASSUME NEW p \in Pages PROVE PageOK(page[p])'
    <3>1. PICK pg \in Page : pg = page[p] /\ pg = page'[p] /\ PageOK(pg)
      BY <1>2 DEF IInv, ValuesOK, PagesOK
    <3>2. /\ pg.auditData \in Seq(Row) /\ pg.asOf \in Nat /\ pg.selected \in Hashes \cup {None}
          /\ pg.selectedAsOf \in Nat /\ pg.reads \subseteq Read
      BY PageType
    <3>3. Listed(pg.auditData, pg.asOf)' /\ Chosen(pg.selected, pg.selectedAsOf)'
      BY <1>6, <3>1, <3>2 DEF PageOK
    <3>4. ASSUME NEW read \in pg.reads PROVE Listed(read.auditData, read.asOf)'
      <4>1. read.auditData \in Seq(Row) /\ read.asOf \in Nat /\ Listed(read.auditData, read.asOf)
        BY <3>1, <3>2 DEF PageOK, Read
      <4> QED
        BY <1>6, <4>1
    <3>5. PageOK(pg)'
      BY <3>3, <3>4 DEF PageOK
    <3> QED
      BY <3>1, <3>5 DEF PageOK, Listed, Chosen, Fresh
  <2> QED
    BY <2>1 DEF PagesOK
<1>8. ASSUME NEW j \in DOMAIN posts PROVE PostOK(posts[j])'
  <2>1. PICK old \in Post, new \in Post :
          /\ old = posts[j] /\ new = posts'[j] /\ PostOK(old)
          /\ new.kind = old.kind /\ new.hash = old.hash /\ new.url = old.url
          /\ new.asOf = old.asOf /\ (new.state = "sent" => new.at = old.at /\ old.state = "sent")
    <3>1. posts[j] \in Post /\ PostOK(posts[j])
      BY <1>1, ElementOfSeq, LenProperties DEF IInv, PostsOK
    <3>2. CASE j = i
      BY <1>4, <1>5, <3>1, <3>2 DEF q
    <3>3. CASE j # i
      BY <1>5, <3>1, <3>3
    <3> QED
      BY <3>2, <3>3
  <2>2. old.hash \in Hashes \cup {None} /\ old.asOf \in Nat
    BY PostType
  <2>3. Chosen(old.hash, old.asOf) => Chosen(old.hash, old.asOf)'
    BY <1>6, <2>2
  <2>4. PostOK(new)'
    BY <2>1, <2>3 DEF PostOK
  <2> QED
    BY <2>1, <2>4 DEF PostOK, Chosen, Fresh
<1>9. Requests' = Requests /\ Handled' = Handled \cup {i} /\ i \notin Handled
  <2>1. Requests' = Requests
    BY <1>4, <1>5 DEF Requests, q
  <2>2. i \notin Handled
    BY <1>1, <1>2 DEF Handled, PostOK, q
  <2>3. Handled' = Handled \cup {i}
    BY <1>1, <1>4, <1>5 DEF Handled
  <2> QED
    BY <2>1, <2>2, <2>3
<1>10. CountsOK'
  <2>1. Cardinality(Handled \cup {i}) = Cardinality(Handled) + 1
    BY <1>9, PostsFinite, FS_AddElement DEF IInv
  <2>2. CASE q.kind = "request"
    <3>1. (Handled \cup {i}) \cap Requests = (Handled \cap Requests) \cup {i}
      BY <2>2 DEF Requests, q
    <3>2. Cardinality((Handled \cap Requests) \cup {i}) = Cardinality(Handled \cap Requests) + 1
      BY <1>9, PostsFinite, FS_AddElement DEF IInv
    <3>3. Cardinality((Handled \cap Requests)') = Cardinality(Handled \cap Requests) + 1
      BY <1>9, <3>1, <3>2
    <3>4. Len(Seeds) \in Nat /\ Cardinality(Handled \cap Requests) \in Nat
      BY AuditsAssumption, PostsFinite DEF IInv
    <3> QED
      BY <1>2, <1>3, <1>9, <2>1, <2>2, <3>3, <3>4 DEF IInv, CountsOK
  <2>3. CASE q.kind # "request"
    <3>1. (Handled \cup {i}) \cap Requests = Handled \cap Requests
      BY <2>3 DEF Requests, q
    <3>2. Len(rows') = Len(rows)
      BY <1>1, <1>3, <2>3
    <3> QED
      BY <1>2, <1>9, <2>1, <3>1, <3>2 DEF IInv, CountsOK
  <2> QED
    BY <2>2, <2>3
<1>11. Len(posts') <= MaxPosts /\ writes' \in Nat /\ PostsOK'
  BY <1>1, <1>2, <1>5, <1>8 DEF IInv, ValuesOK, PostsOK
<1> QED
  BY <1>2, <1>3, <1>5, <1>7, <1>10, <1>11 DEF IInv, ValuesOK

(* A post is done with: its page goes on, and the table stays.             *)
LEMMA DoneKeeps ==
  ASSUME IInv, NEW i \in DOMAIN posts, NEW pg \in Page, PageOK(pg),
         posts' = [posts EXCEPT ![i].state = "done"],
         page' = [page EXCEPT ![posts[i].page] = pg],
         UNCHANGED <<rows, writes, switches>>
  PROVE  IInv'
<1> DEFINE q == posts[i]
           e == [q EXCEPT !.state = "done"]
<1>1. q \in Post /\ PostOK(q) /\ posts \in Seq(Post) /\ q.page \in Pages
  BY ElementOfSeq, LenProperties, PostType DEF IInv, ValuesOK, PostsOK
<1>2. posts' = [posts EXCEPT ![i] = e]
  OBVIOUS
<1>3. page' \in [Pages -> Page] /\ PagesOK'
  BY <1>1, PageGoes DEF IInv
<1> HIDE DEF q
<1>4. /\ e \in Post /\ e.kind = q.kind /\ e.hash = q.hash /\ e.url = q.url /\ e.asOf = q.asOf
      /\ e.state = "done" /\ e.at = q.at
  BY <1>1 DEF Post
<1> HIDE DEF e
<1>5. /\ posts' \in Seq(Post) /\ Len(posts') = Len(posts) /\ DOMAIN posts' = DOMAIN posts
      /\ posts'[i] = e /\ \A j \in DOMAIN posts \ {i} : posts'[j] = posts[j]
  BY <1>1, <1>2, <1>4
<1>6. PostOK(e)
  BY <1>1, <1>4 DEF PostOK
<1>7. ASSUME NEW j \in DOMAIN posts PROVE PostOK(posts[j])'
  <2>1. PostOK(posts'[j])
    BY <1>5, <1>6 DEF IInv, PostsOK
  <2> QED
    BY <2>1 DEF PostOK, Chosen, Fresh
<1>8. \A j \in DOMAIN posts : posts'[j].kind = posts[j].kind /\ posts'[j].at = posts[j].at
  BY <1>4, <1>5 DEF q
<1>9. Handled' = Handled /\ Requests' = Requests
  BY <1>5, <1>8 DEF Handled, Requests
<1>10. CountsOK'
  BY <1>9 DEF IInv, CountsOK
<1> QED
  BY <1>3, <1>5, <1>7, <1>10 DEF IInv, ValuesOK, PostsOK

LEMMA AnsweredKeeps ==
  ASSUME IInv, NEW i \in DOMAIN posts, Answered(i) \/ PostLost(i)
  PROVE  IInv'
<1> DEFINE q == posts[i]
           old == page[q.page]
<1>1. q \in Post /\ PostOK(q) /\ q.page \in Pages /\ i \in 1 .. Len(posts)
  BY ElementOfSeq, LenProperties, PostType DEF IInv, ValuesOK, PostsOK
<1>2. old \in Page /\ PageOK(old) /\ 0 <= writes
  BY <1>1 DEF IInv, ValuesOK, PagesOK
<1>3. CASE PostLost(i)
  <2> DEFINE pg == [old EXCEPT !.lost = TRUE]
  <2>1. page' = [page EXCEPT ![q.page] = pg]
    BY <1>3 DEF PostLost
  <2> HIDE DEF old
  <2>2. /\ pg \in Page /\ pg.auditData = old.auditData /\ pg.asOf = old.asOf
        /\ pg.selected = old.selected /\ pg.selectedAsOf = old.selectedAsOf
        /\ pg.reads = old.reads
    BY <1>2 DEF Page
  <2> HIDE DEF pg
  <2>3. PageOK(pg)
    BY <1>2, <2>2 DEF PageOK
  <2> QED
    BY <1>3, <2>1, <2>2, <2>3, DoneKeeps DEF PostLost
<1>4. CASE Answered(i)
  <2> DEFINE pg == AfterAnswer(i)
  <2>1. page' = [page EXCEPT ![q.page] = pg]
    BY <1>4 DEF Answered
  <2>2. pg \in Page /\ PageOK(pg)
    <3>1. CASE q.kind = "request"
      BY <1>2, <3>1 DEF AfterAnswer
    <3>2. CASE q.kind = "take"
      <4> DEFINE cleared == [old EXCEPT !.selected = None, !.selectedAsOf = 0]
      <4>1. pg = ChangeTo(cleared, i)
        BY <3>2 DEF AfterAnswer
      <4>2. i \in Token
        BY <1>1, AuditsAssumption DEF IInv, ValuesOK, Token
      <4> HIDE DEF old
      <4>3. /\ cleared \in Page /\ cleared.auditData = old.auditData
            /\ cleared.asOf = old.asOf /\ cleared.reads = old.reads
            /\ cleared.selected = None /\ cleared.selectedAsOf = 0
        BY <1>2 DEF Page
      <4> HIDE DEF cleared, pg
      <4>4. Chosen(None, 0)
        BY <1>2 DEF Chosen
      <4>5. PageOK(cleared)
        BY <1>2, <4>3, <4>4 DEF PageOK
      <4> QED
        BY <4>1, <4>2, <4>3, <4>5, ChangeToType DEF PageOK
    <3>3. CASE q.kind = "report"
      <4>1. pg = ChangeTo(old, q.hash) /\ q.hash \in Token
        BY <1>1, <3>3 DEF AfterAnswer, PostOK, Token
      <4> HIDE DEF pg, old
      <4> QED
        BY <1>2, <4>1, ChangeToType DEF PageOK
    <3> QED
      BY <1>1, <3>1, <3>2, <3>3, PostType
  <2> HIDE DEF pg
  <2> QED
    BY <1>4, <2>1, <2>2, DoneKeeps DEF Answered
<1> QED
  BY <1>3, <1>4
-----------------------------------------------------------------------------
LEMMA Initially == Init => IInv
<1> SUFFICES ASSUME Init PROVE IInv
  OBVIOUS
<1> DEFINE seeds == [n \in 1 .. Len(Seeds) |-> NewRow(Seeds[n].requestor, Seeds[n].hash)]
<1>1. DOMAIN Seeds = 1 .. Len(Seeds) /\ Len(Seeds) \in Nat /\ Len(Seeds) <= MaxRows
  BY AuditsAssumption
<1>2. ASSUME NEW n \in 1 .. Len(Seeds) PROVE NewRow(Seeds[n].requestor, Seeds[n].hash) \in Row
  <2>1. Seeds[n] \in [requestor : Accounts, hash : Hashes]
    BY <1>1, AuditsAssumption, ElementOfSeq
  <2> QED
    BY <2>1 DEF NewRow, Row
<1>3. seeds \in [1 .. Len(Seeds) -> Row]
  BY <1>2
<1>4. rows = seeds
  BY <1>1 DEF Init
<1> HIDE DEF seeds
<1>5. rows \in Seq(Row) /\ Len(rows) = Len(Seeds)
  BY <1>1, <1>3, <1>4
<1>6. ASSUME NEW p \in Pages PROVE page[p] \in Page /\ PageOK(page[p])
  <2> DEFINE first == Head(Wallet[p])
             token == IF p \in Followers THEN first ELSE 0
             timers == IF p \in Followers THEN 2 ELSE 1
             pg == [currentAccount |-> first, auditData |-> << >>, asOf |-> 0, selected |-> None,
                    selectedAsOf |-> 0, auditsChange |-> token, timers |-> timers,
                    reads |-> {}, lost |-> FALSE]
  <2>1. page[p] = pg
    BY DEF Init
  <2>2. first \in Accounts
    BY AuditsAssumption, HeadTailProperties
  <2>3. token \in Token /\ timers \in Nat
    BY <2>2, AuditsAssumption DEF Token
  <2> HIDE DEF first, token, timers
  <2>4. /\ pg \in Page /\ pg.auditData = << >> /\ pg.asOf = 0
        /\ pg.selected = None /\ pg.selectedAsOf = 0 /\ pg.reads = {}
    BY <2>2, <2>3 DEF Page
  <2> HIDE DEF pg
  <2>5. Listed(<< >>, 0) /\ Chosen(None, 0)
    BY <1>1, <1>5 DEF Listed, Chosen, Init
  <2> QED
    BY <2>1, <2>4, <2>5 DEF PageOK
<1>7. page \in [Pages -> Page]
  BY <1>6 DEF Init
<1>8. posts = << >> /\ posts \in Seq(Post) /\ Len(posts) = 0 /\ DOMAIN posts = {}
  BY DEF Init
<1>9. Handled = {} /\ Requests = {} /\ Handled \cap Requests = {} /\ Cardinality({}) = 0
  BY <1>8, FS_EmptySet DEF Handled, Requests
<1>10. CountsOK
  BY <1>1, <1>5, <1>9 DEF CountsOK, Init
<1>11. 0 <= MaxPosts /\ 0 \in 0 .. MaxSwitches
  BY AuditsAssumption
<1> QED
  BY <1>5, <1>6, <1>7, <1>8, <1>10, <1>11 DEF IInv, ValuesOK, PagesOK, PostsOK, Init

LEMMA StepKeeps == IInv /\ [Next]_vars => IInv'
<1> SUFFICES ASSUME IInv, [Next]_vars PROVE IInv'
  OBVIOUS
<1>1. Auditors \subseteq Pages /\ Requestors \cup Homes \subseteq Pages
  BY DEF Pages
<1>2. CASE UNCHANGED vars
  <2>1. PostsOK' /\ CountsOK'
    BY <1>2, PostsStay DEF IInv, vars
  <2>2. PagesOK'
    BY <1>2 DEF IInv, PagesOK, PageOK, Listed, Chosen, Fresh, vars
  <2> QED
    BY <1>2, <2>1, <2>2 DEF IInv, ValuesOK, vars
<1>3. ASSUME NEW p \in Pages,
             \/ GetData(p)
             \/ \E a \in Range(Wallet[p]) : SwitchAccount(p, a)
             \/ \E read \in page[p].reads : SetAuditData(p, read) \/ ReadLost(p, read)
      PROVE  IInv'
  BY <1>3, GetDataKeeps, SwitchKeeps, AnswerKeeps
<1>4. ASSUME NEW p \in Auditors, Select(p) \/ Unselect(p) \/ Take(p) \/ SendReport(p)
      PROVE  IInv'
  BY <1>1, <1>4, SelectKeeps, SendingKeeps
<1>5. ASSUME NEW p \in Requestors \cup Homes, NEW hash \in Hashes, Request(p, hash)
      PROVE  IInv'
  BY <1>1, <1>5, RequestKeeps
<1>6. ASSUME NEW i \in DOMAIN posts, Handle(i) \/ Answered(i) \/ PostLost(i)
      PROVE  IInv'
  BY <1>6, HandleKeeps, AnsweredKeeps
<1> QED
  BY <1>2, <1>3, <1>4, <1>5, <1>6 DEF Next

(* The table, the lists and the posts keep their types, each post is       *)
(* written once, and no row is added that was not asked for.               *)
THEOREM AuditsTypeCorrect == Spec => []TypeOK
<1>1. IInv => TypeOK
  <2> SUFFICES ASSUME IInv PROVE TypeOK
    OBVIOUS
  <2>1. /\ Len(posts) \in Nat /\ Len(posts) <= MaxPosts /\ Len(rows) \in Nat
        /\ writes \in Nat /\ Len(Seeds) \in Nat /\ MaxRows \in Nat /\ MaxPosts \in Nat
    BY AuditsAssumption DEF IInv, ValuesOK
  <2>2. writes <= Len(posts)
    BY PostsFinite DEF IInv, CountsOK
  <2>3. Len(rows) <= MaxRows
    <3>1. /\ Cardinality(Handled \cap Requests) <= Cardinality(Requests)
          /\ Cardinality(Handled \cap Requests) \in Nat /\ Cardinality(Requests) \in Nat
      BY PostsFinite DEF IInv
    <3> QED
      BY <2>1, <3>1 DEF IInv, CountsOK
  <2>4. writes \in 0 .. MaxPosts
    BY <2>1, <2>2
  <2> QED
    BY <2>3, <2>4 DEF TypeOK, IInv, ValuesOK
<1> QED
  BY <1>1, Initially, StepKeeps, PTL DEF Spec

LEMMA DisplacedByTake ==
  ASSUME ValuesOK, NEW i \in DOMAIN posts, Handle(i), NEW r \in DOMAIN rows,
         rows'[r].topAuditor # rows[r].topAuditor
  PROVE  posts[i].kind = "take" /\ rows[r].hash = posts[i].hash
<1> DEFINE q == posts[i]
<1>1. q \in Post
  BY ElementOfSeq, LenProperties DEF ValuesOK
<1>2. q.kind \in {"request", "take", "report"}
  BY <1>1, PostType
<1>3. /\ q.kind = "request" => rows' \in RequestAudit(q)
      /\ q.kind = "take" => rows' = TakeAudit(q)
      /\ q.kind = "report" => rows' = SaveReport(q)
  BY <1>2 DEF Handle
<1> HIDE DEF q
<1>4. rows \in Seq(Row) /\ rows[r] \in Row
  BY RowType DEF ValuesOK
<1>5. CASE q.kind = "request"
  <2> DEFINE row == NewRow(q.account, q.hash)
  <2>1. rows' = rows \/ rows' = Append(rows, row)
    BY <1>3, <1>5 DEF RequestAudit
  <2> HIDE DEF row
  <2>2. rows'[r] = rows[r]
    BY <1>4, <2>1
  <2> QED
    BY <2>2
<1>6. CASE q.kind = "take"
  BY <1>3, <1>6 DEF TakeAudit, q
<1>7. CASE q.kind = "report"
  <2> DEFINE old == rows[r]
             saved == [old EXCEPT !.manualReport = q.url]
  <2>1. rows'[r] = IF old.hash # q.hash \/ ~CheckAddress(q.url) THEN old ELSE saved
    BY <1>3, <1>7 DEF SaveReport
  <2> HIDE DEF old
  <2>2. old \in Row
    BY <1>4 DEF old
  <2>3. saved.topAuditor = old.topAuditor
    BY <2>2 DEF Row
  <2> HIDE DEF saved
  <2>4. rows'[r].topAuditor = old.topAuditor
    BY <2>1, <2>3
  <2> QED
    BY <2>4 DEF old
<1> QED
  BY <1>2, <1>5, <1>6, <1>7

(* Only lar answers a post, and it answers one at a time.                  *)
LEMMA AnsweredByHandle ==
  ASSUME IInv, Next, NEW i \in DOMAIN posts,
         posts[i].state = "sent", posts'[i].state = "answered"
  PROVE  Handle(i)
<1>1. posts \in Seq(Post) /\ posts[i] \in Post
  BY ElementOfSeq, LenProperties DEF IInv, ValuesOK
<1>2. posts'[i] # posts[i]
  OBVIOUS
<1>3. CASE \E j \in DOMAIN posts : Handle(j) \/ Answered(j) \/ PostLost(j)
  <2>1. PICK j \in DOMAIN posts : Handle(j) \/ Answered(j) \/ PostLost(j)
    BY <1>3
  <2> DEFINE answered == [posts[j] EXCEPT !.state = "answered", !.at = writes + 1]
             ended == [posts[j] EXCEPT !.state = "done"]
  <2>2. posts' = [posts EXCEPT ![j] = answered] \/ posts' = [posts EXCEPT ![j] = ended]
    BY <2>1 DEF Handle, Answered, PostLost
  <2>3. posts[j] \in Post
    BY ElementOfSeq, LenProperties DEF IInv, ValuesOK
  <2>4. ended.state = "done"
    BY <2>3 DEF Post
  <2>5. j = i
    <3> HIDE DEF answered, ended
    <3> QED
      BY <1>1, <1>2, <2>2
  <2>6. CASE Handle(j)
    BY <2>5, <2>6
  <2>7. CASE Answered(j) \/ PostLost(j)
    <3>1. posts' = [posts EXCEPT ![j] = ended]
      BY <2>7 DEF Answered, PostLost
    <3> HIDE DEF ended
    <3>2. posts'[i] = ended
      BY <1>1, <2>5, <3>1
    <3> QED
      BY <2>4, <3>2
  <2> QED
    BY <2>1, <2>6, <2>7
<1>4. \/ UNCHANGED posts
      \/ \E q : posts' = Append(posts, q)
      \/ \E j \in DOMAIN posts : Handle(j) \/ Answered(j) \/ PostLost(j)
  BY DEF Next, GetData, SwitchAccount, SetAuditData, ReadLost, Select, Unselect, Take,
         SendReport, Request, Sent
<1>5. ASSUME NEW q, posts' = Append(posts, q) PROVE FALSE
  BY <1>1, <1>2, <1>5
<1> QED
  BY <1>2, <1>3, <1>4, <1>5

(* A taker is displaced only by a take that was chosen from a list read    *)
(* before it took the audit, or that meant another row of the hash: the    *)
(* row a take was chosen for was free when its list was read.              *)
THEOREM DisplacedCorrect == Spec => DisplacedByOlderLists
<1>1. ASSUME IInv, Next, NEW i \in DOMAIN posts, NEW r \in DOMAIN rows, Displaces(i, r)
      PROVE  \/ posts[i].asOf < rows[r].takenAt
             \/ \E s \in DOMAIN rows : s # r /\ rows[s].hash = rows[r].hash
  <2>1. /\ Handle(i) /\ rows[r].topAuditor # None
        /\ rows'[r].topAuditor # rows[r].topAuditor
    BY <1>1, AnsweredByHandle DEF Displaces
  <2>2. posts[i].kind = "take" /\ rows[r].hash = posts[i].hash
    BY <1>1, <2>1, DisplacedByTake DEF IInv
  <2>3. rows[r].hash \in Hashes /\ rows[r].takenAt \in Nat
    BY <1>1, RowType DEF IInv, ValuesOK
  <2>4. posts[i] \in Post /\ PostOK(posts[i])
    BY <1>1, ElementOfSeq, LenProperties DEF IInv, ValuesOK, PostsOK
  <2>5. posts[i].hash # None /\ posts[i].asOf \in Nat
    BY <2>2, <2>3, <2>4, PostType, AuditsAssumption
  <2>6. PICK k \in DOMAIN rows : rows[k].hash = posts[i].hash /\ Fresh(k, posts[i].asOf)
    BY <2>2, <2>4, <2>5 DEF PostOK, Chosen
  <2>7. CASE k = r
    BY <2>1, <2>3, <2>5, <2>6, <2>7 DEF Fresh
  <2> QED
    BY <2>2, <2>6, <2>7
<1>2. ASSUME IInv, [Next]_vars
      PROVE  [\A i \in DOMAIN posts, r \in DOMAIN rows :
                Displaces(i, r) => \/ posts[i].asOf < rows[r].takenAt
                                   \/ \E s \in DOMAIN rows :
                                        s # r /\ rows[s].hash = rows[r].hash]_vars
  BY <1>1, <1>2
<1> QED
  BY <1>2, Initially, StepKeeps, PTL DEF Spec, DisplacedByOlderLists
=============================================================================
