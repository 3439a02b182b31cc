------------------------------- MODULE Audits -------------------------------
(***************************************************************************)
(* The audit table of lar.py and the pages that read and write it: the     *)
(* auditor's page (AuditRequests, ReportButton) takes audits and sends     *)
(* reports, the requestor's pages (Requestor, Home) add audits.            *)
(*                                                                         *)
(* A page holds the answer of its last read.  It reads anew one second     *)
(* after something it knows to have changed; the reads of a page are not   *)
(* ordered among each other, and a lost one is not repeated.               *)
(***************************************************************************)
EXTENDS Naturals, Sequences, FiniteSets, Functions

CONSTANTS
  Accounts,      \* accounts of the users
  Hashes,        \* package hashes
  Auditors,      \* pages that show AuditRequests
  Requestors,    \* pages that show Requestor
  Homes,         \* pages that show Home
  Wallet,        \* the accounts each page can select, in the wallet's order
  ReportUrls,    \* what is typed as a report's url
  Characters,    \* the kinds of characters each of them has
  Seeds,         \* requestor and hash of the rows init_db inserts
  MaxRows,       \* bound: rows of auditStates
  MaxPosts,      \* bound: posts sent by the pages
  MaxLost,       \* bound: pages one of whose messages is lost
  MaxSwitches,   \* bound: how often the account of a page is switched
  MaxEvents      \* bound: posts, losses and switches in all

None == "none"   \* nobody took it; nothing is selected or read

Pages == Auditors \cup Requestors \cup Homes

(* The pages whose list is read anew for another account.                  *)
Followers == Auditors \cup Requestors

ASSUME AuditsAssumption ==
  /\ None \notin Accounts \cup Hashes
  /\ Auditors \cap (Requestors \cup Homes) = {} /\ Requestors \cap Homes = {}
  /\ Wallet \in [Pages -> Seq(Accounts) \ {<< >>}]
  /\ Characters \in [ReportUrls -> SUBSET {"letter", "dot", "slash"}]
  /\ Seeds \in Seq([requestor : Accounts, hash : Hashes]) /\ Len(Seeds) <= MaxRows
  /\ {MaxRows, MaxPosts, MaxLost, MaxSwitches, MaxEvents} \subseteq Nat

VARIABLES
  rows,     \* auditStates
  writes,   \* how many posts lar has handled
  page,     \* the state of each page
  posts,    \* what the pages have posted
  switches  \* how often an account was switched

vars == <<rows, writes, page, posts, switches>>

(* takenAt: the write that set topAuditor, 0 for none.                     *)
Row == [requestor : Accounts, hash : Hashes, manualReport : {"NA", "In progress"} \cup ReportUrls,
        topAuditor : Accounts \cup {None}, takenAt : Nat]

(* Mistake: the values are in the order of another version of the table.   *)
NewRow_Swapped(requestor, hash) ==
  [requestor |-> requestor, hash |-> hash, manualReport |-> None,
   topAuditor |-> "NA", takenAt |-> 0]

(* "NA" in topAuditor is None here.                                        *)
NewRow(requestor, hash) ==
  [requestor |-> requestor, hash |-> hash, manualReport |-> "NA",
   topAuditor |-> None, takenAt |-> 0]

(* A read of the table after "asOf" writes.                                *)
Read == [asOf : Nat, auditData : Seq(Row)]

Token == Accounts \cup Hashes \cup (0 .. MaxPosts)

Page == [currentAccount : Accounts, auditData : Seq(Row), asOf : Nat,
         selected : Hashes \cup {None}, selectedAsOf : Nat, auditsChange : Token,
         timers : Nat, reads : SUBSET Read, lost : BOOLEAN]

Post == [page : Pages, kind : {"request", "take", "report"}, account : Accounts,
         hash : Hashes \cup {None}, url : ReportUrls \cup {None}, asOf : Nat,
         state : {"sent", "answered", "done"}, at : Nat]

(* init_db.  The first account of the wallet is selected; nothing was read *)
(* yet, and each effect of the first render asks for a read.               *)
Init ==
  /\ rows = [n \in DOMAIN Seeds |-> NewRow(Seeds[n].requestor, Seeds[n].hash)]
  /\ writes = 0
  /\ page = [p \in Pages |->
               LET first == Head(Wallet[p])
               IN [currentAccount |-> first, auditData |-> << >>, asOf |-> 0,
                   selected |-> None, selectedAsOf |-> 0,
                   auditsChange |-> IF p \in Followers THEN first ELSE 0,
                   timers |-> IF p \in Followers THEN 2 ELSE 1,
                   reads |-> {}, lost |-> FALSE]]
  /\ posts = << >>
  /\ switches = 0
-----------------------------------------------------------------------------
Losers == Cardinality({p \in Pages : page[p].lost})

MayHappen == Len(posts) + Losers + switches < MaxEvents

(* Mistake: the list is read anew only if nothing is under way.            *)
ChangeTo_Idle(pg, token) ==
  [pg EXCEPT !.auditsChange = token,
             !.timers = IF pg.auditsChange = token \/ pg.reads # {} THEN @ ELSE @ + 1]

(* setAuditsChange: the effect runs if the value is another one.           *)
ChangeTo(pg, token) ==
  [pg EXCEPT !.auditsChange = token,
             !.timers = IF pg.auditsChange = token THEN @ ELSE @ + 1]

SwitchAccount(p, a) ==
  /\ a # page[p].currentAccount
  /\ switches < MaxSwitches /\ MayHappen
  /\ switches' = switches + 1
  /\ LET pg == [page[p] EXCEPT !.currentAccount = a]
     IN page' = [page EXCEPT ![p] = IF p \in Followers THEN ChangeTo(pg, a) ELSE pg]
  /\ UNCHANGED <<rows, writes, posts>>

(* getData, when lar reads the table.                                      *)
GetData(p) ==
  /\ page[p].timers > 0
  /\ page' = [page EXCEPT ![p] =
               [@ EXCEPT !.timers = page[p].timers - 1,
                         !.reads = page[p].reads \cup {[asOf |-> writes, auditData |-> rows]}]]
  /\ UNCHANGED <<rows, writes, posts, switches>>

SetAuditData(p, read) ==
  /\ page' = [page EXCEPT ![p] = [@ EXCEPT !.reads = page[p].reads \ {read},
                                           !.auditData = read.auditData,
                                           !.asOf = read.asOf]]
  /\ UNCHANGED <<rows, writes, posts, switches>>

MayLose == Losers < MaxLost /\ MayHappen

ReadLost(p, read) ==
  /\ MayLose
  /\ page' = [page EXCEPT ![p] = [@ EXCEPT !.reads = page[p].reads \ {read}, !.lost = TRUE]]
  /\ UNCHANGED <<rows, writes, posts, switches>>
-----------------------------------------------------------------------------
(* Mistake: the audits somebody else took are offered too.                 *)
NonTakenAudits_Others(p) ==
  {a \in Range(page[p].auditData) : a.topAuditor # page[p].currentAccount}

NonTakenAudits(p) == {a \in Range(page[p].auditData) : a.topAuditor = None}

MyAudits(p) == {a \in Range(page[p].auditData) : a.topAuditor = page[p].currentAccount}

Select(p) ==
  /\ \E a \in NonTakenAudits(p) :
       page' = [page EXCEPT ![p] = [@ EXCEPT !.selected = a.hash, !.selectedAsOf = page[p].asOf]]
  /\ UNCHANGED <<rows, writes, posts, switches>>

Unselect(p) ==
  /\ page' = [page EXCEPT ![p] = [@ EXCEPT !.selected = None, !.selectedAsOf = 0]]
  /\ UNCHANGED <<rows, writes, posts, switches>>

Sent(p, kind, hash, url) ==
  /\ Len(posts) < MaxPosts /\ MayHappen
  /\ posts' = Append(posts, [page |-> p, kind |-> kind, account |-> page[p].currentAccount,
                             hash |-> hash, url |-> url, asOf |-> page[p].selectedAsOf,
                             state |-> "sent", at |-> 0])

(* The button needs no selection, and the account signs for itself.        *)
Take(p) ==
  /\ Sent(p, "take", page[p].selected, None)
  /\ UNCHANGED <<rows, writes, page, switches>>

IsValidUrl(url) == "dot" \in Characters[url]

SendReport(p) ==
  /\ \E a \in MyAudits(p), url \in ReportUrls :
       IsValidUrl(url) /\ Sent(p, "report", a.hash, url)
  /\ UNCHANGED <<rows, writes, page, switches>>

Requests == {i \in DOMAIN posts : posts[i].kind = "request"}

(* The callback of a request that was included: the row is posted and the  *)
(* list told to change at the same time.                                   *)
Request(p, hash) ==
  /\ Len(Seeds) + Cardinality(Requests) < MaxRows
  /\ Sent(p, "request", hash, None)
  /\ page' = [page EXCEPT ![p] = ChangeTo(@, hash)]
  /\ UNCHANGED <<rows, writes, switches>>
-----------------------------------------------------------------------------
CheckAddress(text) == Characters[text] \subseteq {"letter"}

(* Each handler is one statement on the table: every row of the hash.  The *)
(* one of challenge_audit is left out: nothing here reads what it writes,  *)
(* the column "challenger".                                                *)
TakeAudit(q) ==
  [r \in DOMAIN rows |->
     IF rows[r].hash # q.hash THEN rows[r]
     ELSE [rows[r] EXCEPT !.manualReport = "In progress", !.topAuditor = q.account,
                          !.takenAt = writes + 1]]

SaveReport(q) ==
  [r \in DOMAIN rows |->
     IF rows[r].hash # q.hash \/ ~CheckAddress(q.url) THEN rows[r]
     ELSE [rows[r] EXCEPT !.manualReport = q.url]]

(* check_text may refuse the url of a request: not all that the form takes *)
(* for one, such as a percent sign, is on its whitelist.                   *)
RequestAudit(q) == {rows, Append(rows, NewRow(q.account, q.hash))}

Handle(i) ==
  LET q == posts[i] IN
  /\ q.state = "sent"
  /\ \/ q.kind = "request" /\ rows' \in RequestAudit(q)
     \/ q.kind = "take" /\ rows' = TakeAudit(q)
     \/ q.kind = "report" /\ rows' = SaveReport(q)
  /\ writes' = writes + 1
  /\ posts' = [posts EXCEPT ![i] = [@ EXCEPT !.state = "answered", !.at = writes + 1]]
  /\ UNCHANGED <<page, switches>>

(* sendData of AuditRequests and of ReportButton; that of a request has no *)
(* resCallback.                                                            *)
AfterAnswer(i) ==
  LET q == posts[i] pg == page[q.page] IN
  CASE q.kind = "request" -> pg
    [] q.kind = "take" -> ChangeTo([pg EXCEPT !.selected = None, !.selectedAsOf = 0], i)
    [] q.kind = "report" -> ChangeTo(pg, q.hash)

Answered(i) ==
  /\ posts[i].state = "answered"
  /\ posts' = [posts EXCEPT ![i].state = "done"]
  /\ page' = [page EXCEPT ![posts[i].page] = AfterAnswer(i)]
  /\ UNCHANGED <<rows, writes, switches>>

(* The post or its answer is lost: a message, and nothing else happens.    *)
PostLost(i) ==
  /\ MayLose
  /\ posts[i].state # "done"
  /\ posts' = [posts EXCEPT ![i].state = "done"]
  /\ page' = [page EXCEPT ![posts[i].page].lost = TRUE]
  /\ UNCHANGED <<rows, writes, switches>>
-----------------------------------------------------------------------------
Next ==
  \/ \E p \in Pages : \/ GetData(p)
                      \/ \E a \in Range(Wallet[p]) : SwitchAccount(p, a)
                      \/ \E read \in page[p].reads : SetAuditData(p, read) \/ ReadLost(p, read)
  \/ \E p \in Auditors : Select(p) \/ Unselect(p) \/ Take(p) \/ SendReport(p)
  \/ \E p \in Requestors \cup Homes, hash \in Hashes : Request(p, hash)
  \/ \E i \in DOMAIN posts : Handle(i) \/ Answered(i) \/ PostLost(i)

(* Timers run, and what was sent is handled and answered unless it is lost. *)
Fairness ==
  /\ \A p \in Pages : WF_vars(GetData(p))
  /\ \A p \in Pages : WF_vars(\E read \in page[p].reads : SetAuditData(p, read))
  /\ \A i \in 1 .. MaxPosts :
       WF_vars(i \in DOMAIN posts /\ (Handle(i) \/ Answered(i)))

Spec == Init /\ [][Next]_vars

FairSpec == Spec /\ Fairness
-----------------------------------------------------------------------------
TypeOK ==
  /\ rows \in Seq(Row) /\ Len(rows) <= MaxRows
  /\ writes \in 0 .. MaxPosts
  /\ page \in [Pages -> Page]
  /\ switches \in 0 .. MaxSwitches
  /\ posts \in Seq(Post) /\ Len(posts) <= MaxPosts

Displaces(i, r) ==
  /\ posts[i].state = "sent" /\ posts'[i].state = "answered"
  /\ rows[r].topAuditor \notin {None, rows'[r].topAuditor}

(* take_audit overwrites whoever took the audit.  What protects a taker is *)
(* only that the others' lists leave the audit out: it is displaced, other *)
(* than by itself, only by a take chosen from a list read before it took   *)
(* the audit, or by one that meant another row of the same hash.           *)
DisplacedByOlderLists ==
  [][\A i \in DOMAIN posts, r \in DOMAIN rows :
       Displaces(i, r) => \/ posts[i].asOf < rows[r].takenAt
                          \/ \E s \in DOMAIN rows : s # r /\ rows[s].hash = rows[r].hash]_vars

TakesOf(p) == {i \in DOMAIN posts : posts[i].page = p /\ posts[i].kind = "take"}

(* AuditRequests: whoever takes audits gets to see a list that is older    *)
(* than none of the takes, whatever reads were under way, unless an answer *)
(* was lost.                                                               *)
TakesAreShown ==
  \A p \in Auditors :
    (\E i \in TakesOf(p) : posts[i].state = "sent")
      ~> (\/ page[p].lost
          \/ \A i \in TakesOf(p) : posts[i].at > 0 /\ page[p].asOf >= posts[i].at)

(* exotools/README.md: send_report is called when an auditor sends in the  *)
(* final report.  A report whose url the form accepts is saved.            *)
ReportsAreSaved ==
  \A i \in 1 .. MaxPosts :
    (i \in DOMAIN posts /\ posts[i].kind = "report" /\ posts[i].state = "sent")
      ~> (i \in DOMAIN posts
            /\ \/ page[posts[i].page].lost
               \/ \E r \in DOMAIN rows : /\ rows[r].hash = posts[i].hash
                                          /\ rows[r].manualReport = posts[i].url)
=============================================================================
