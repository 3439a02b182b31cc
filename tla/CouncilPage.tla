----------------------------- MODULE CouncilPage -----------------------------
(***************************************************************************)
(* The council's page: CouncilPage, Challenges, ViewChallenge and          *)
(* CreateProposal.  A member picks a challenge off the list, of which the  *)
(* page keeps a copy, chooses an action, and proposes it to the council,   *)
(* always with threshold 1.  The form is reset from the callback of the    *)
(* transaction, when the proposal is in a block.                           *)
(*                                                                         *)
(* Challenges are told of by subscriptions, here with the value of the     *)
(* moment the callback runs; the audits they are looked for in are read    *)
(* once.  The members of the council are those of genesis.                 *)
(***************************************************************************)
EXTENDS Naturals, Sequences

CONSTANTS
  Accounts,
  Council,        \* the members of the council
  Challenges,
  Audits,
  AuditOf,        \* the audit a challenge belongs to
  MaxProposals,   \* bound
  MaxPicks,       \* bound: switches of the account
  MaxVerdicts     \* bound: challenges raised, and verdicts of others

None == "none"

VARIABLES
  verdicts,         \* the challenges on the chain
  currentAccount,
  details,          \* the members the page was told of
  pages,            \* how often the list was put up: which of its instances there is
  reading,          \* the audits that have challenges are being read
  auditHashes,      \* the audits found
  challengesState,  \* the challenges listed
  challenge,        \* the copy of the challenge that is shown
  formState,        \* the action selected, and the challenge the form names
  unsub,            \* the proposal whose subscription CreateProposal can end; 0 if none
  proposals,        \* proposals made
  picks, changes

chain == <<verdicts, changes>>
list == <<pages, reading, auditHashes, challengesState>>
form == <<challenge, formState, unsub>>
vars == <<chain, list, form, currentAccount, details, proposals, picks>>

Decided == {"Accepted", "Rejected", "Removed"}

States == Decided \cup {"absent", "Pending"}

NoChallenge == [of |-> None, state |-> "absent"]

Initial == [proposal |-> None, of |-> None]

(* "shown" is the challenge that was on the page when it was proposed.     *)
Proposal == [proposal : Decided, of : Challenges \cup {None}, shown : Challenges,
             signer : Council, page : Nat, live : BOOLEAN, state : {"sent", "done", "failed"}]

IsCouncil(a, members) == a \in members

Init ==
  /\ verdicts \in [Challenges -> {"absent", "Pending"}]
  /\ currentAccount \in Accounts /\ details = {}
  /\ pages = 0 /\ reading = FALSE /\ auditHashes = {}
  /\ challengesState = [c \in Challenges |-> "absent"]
  /\ challenge = NoChallenge /\ formState = Initial /\ unsub = 0
  /\ proposals = << >> /\ picks = 0 /\ changes = 0
-----------------------------------------------------------------------------
(* The list and what is selected in it are gone when the account is not a  *)
(* member's, and start over when it is again; a switch between members     *)
(* only reads the audits anew.                                             *)
Shows(a, members) ==
  LET was == IsCouncil(currentAccount, details)
      is  == IsCouncil(a, members)
  IN  IF was /\ is THEN /\ reading' = TRUE
                        /\ UNCHANGED <<pages, auditHashes, challengesState, form>>
      ELSE /\ pages' = IF is THEN pages + 1 ELSE pages
           /\ reading' = is /\ auditHashes' = {}
           /\ challengesState' = [c \in Challenges |-> "absent"]
           /\ challenge' = NoChallenge /\ formState' = Initial /\ unsub' = 0

SetDetails ==
  /\ details # Council
  /\ details' = Council
  /\ Shows(currentAccount, Council)
  /\ UNCHANGED <<chain, currentAccount, proposals, picks>>

SwitchAccount(a) ==
  /\ a # currentAccount /\ picks < MaxPicks
  /\ picks' = picks + 1
  /\ currentAccount' = a
  /\ Shows(a, details)
  /\ UNCHANGED <<chain, details, proposals>>

SetAuditHashes ==
  /\ reading
  /\ reading' = FALSE
  /\ auditHashes' = {AuditOf[c] : c \in {d \in Challenges : verdicts[d] # "absent"}}
  /\ UNCHANGED <<chain, pages, challengesState, form, currentAccount, details, proposals,
                 picks>>

SetChallengesState(c) ==
  /\ AuditOf[c] \in auditHashes /\ verdicts[c] # "absent"
  /\ challengesState[c] # verdicts[c]
  /\ challengesState' = [challengesState EXCEPT ![c] = verdicts[c]]
  /\ UNCHANGED <<chain, pages, reading, auditHashes, form, currentAccount, details,
                 proposals, picks>>
-----------------------------------------------------------------------------
(* Mistake: the form goes on naming the challenge of before.               *)
FormFor_Before(c) == IF formState.of = None THEN [Initial EXCEPT !.of = c] ELSE formState

FormFor(c) == [Initial EXCEPT !.of = c]

(* CreateProposal is there for a copy that is pending.                     *)
FormShown == challenge.state = "Pending"

(* When the form goes, its subscription cannot be ended any more.          *)
HandleClick(c) ==
  /\ challengesState[c] # "absent"
  /\ challenge' = [of |-> c, state |-> challengesState[c]]
  /\ formState' = FormFor(c)
  /\ unsub' = IF challengesState[c] = "Pending" THEN unsub ELSE 0
  /\ UNCHANGED <<chain, list, currentAccount, details, proposals, picks>>

HandleChange(p) ==
  /\ FormShown /\ formState.proposal # p
  /\ formState' = [formState EXCEPT !.proposal = p]
  /\ UNCHANGED <<chain, list, challenge, unsub, currentAccount, details, proposals, picks>>

(* The button takes no look at the challenge the form names.               *)
MayPropose == FormShown /\ formState.proposal # None /\ currentAccount \in details

(* The proposal of before is not heard of again.                           *)
Unheard ==
  [i \in DOMAIN proposals |->
     IF i = unsub THEN [proposals[i] EXCEPT !.live = FALSE] ELSE proposals[i]]

(* onClick, with the signer's answer.                                      *)
Propose ==
  /\ MayPropose
  /\ Len(proposals) < MaxProposals
  /\ proposals' = Append(Unheard,
       [proposal |-> formState.proposal, of |-> formState.of, shown |-> challenge.of,
        signer |-> currentAccount, page |-> pages, live |-> TRUE, state |-> "sent"])
  /\ unsub' = Len(proposals')
  /\ UNCHANGED <<chain, list, challenge, formState, currentAccount, details, picks>>
-----------------------------------------------------------------------------
(* A proposal with threshold 1 is executed at once, with one vote of as    *)
(* many as there are members; a verdict takes more than half of them.      *)
Passes == \A a, b \in Council : a = b

(* The proposal is in a block, of this chain or of the one before, without *)
(* error whatever came of its verdict: close_challenge fails when a side   *)
(* of the challenge is no approved auditor, and the challenge stays as it  *)
(* is.  The callback resets the form, of the page it was made on.          *)
InBlock(i) ==
  LET p == proposals[i] IN
  /\ p.state # "failed"
  /\ proposals' = [proposals EXCEPT ![i] = [@ EXCEPT !.state = "done"]]
  /\ \/ p.of # None /\ Passes /\ verdicts' = [verdicts EXCEPT ![p.of] = p.proposal]
     \/ UNCHANGED verdicts
  /\ formState' = IF p.live /\ p.page = pages THEN Initial ELSE formState
  /\ UNCHANGED <<changes, list, challenge, unsub, currentAccount, details, picks>>

(* txErrHandler: the proposal was not signed, or not taken.                *)
Failed(i) ==
  /\ proposals[i].state = "sent"
  /\ proposals' = [proposals EXCEPT ![i] = [@ EXCEPT !.state = "failed", !.live = FALSE]]
  /\ unsub' = IF unsub = i THEN 0 ELSE unsub
  /\ UNCHANGED <<chain, list, challenge, formState, currentAccount, details, picks>>

(* challenge_report, and verdicts proposed elsewhere.                      *)
OthersChange(c) ==
  /\ changes < MaxVerdicts
  /\ changes' = changes + 1
  /\ verdicts' = [verdicts EXCEPT ![c] = IF verdicts[c] = "absent" THEN "Pending" ELSE "Accepted"]
  /\ UNCHANGED <<list, form, currentAccount, details, proposals, picks>>

Next ==
  \/ SetDetails \/ SetAuditHashes \/ Propose
  \/ \E a \in Accounts : SwitchAccount(a)
  \/ \E c \in Challenges : SetChallengesState(c) \/ HandleClick(c) \/ OthersChange(c)
  \/ \E p \in Decided : HandleChange(p)
  \/ \E i \in DOMAIN proposals : InBlock(i) \/ Failed(i)

Spec == Init /\ [][Next]_vars
-----------------------------------------------------------------------------
TypeOK ==
  /\ verdicts \in [Challenges -> States]
  /\ currentAccount \in Accounts /\ details \in {{}, Council}
  /\ pages \in Nat /\ reading \in BOOLEAN /\ auditHashes \subseteq Audits
  /\ challengesState \in [Challenges -> States]
  /\ challenge \in [of : Challenges \cup {None}, state : States]
  /\ formState \in [proposal : Decided \cup {None}, of : Challenges \cup {None}]
  /\ challenge.of # None => currentAccount \in details
  /\ proposals \in Seq(Proposal) /\ Len(proposals) <= MaxProposals
  /\ unsub \in 0 .. Len(proposals)
  /\ picks \in 0 .. MaxPicks /\ changes \in 0 .. MaxVerdicts

(* CreateProposal: however challenges are picked while proposals are under *)
(* way, what is proposed is a verdict on the challenge shown; or on none,  *)
(* but only once a proposal of the same page is in a block.                *)
ProposalsAreOfShown ==
  \A i \in DOMAIN proposals :
    \/ proposals[i].of = proposals[i].shown
    \/ proposals[i].of = None /\ \E j \in 1 .. i - 1 :
         proposals[j].state = "done" /\ proposals[j].page = proposals[i].page
=============================================================================
