----------------------------- MODULE ExoPallet ------------------------------
(***************************************************************************)
(* exo-pallet/src/lib.rs, composed with the audit pallet it plays its      *)
(* challenges through: requested reviews, the reports auditors send on     *)
(* them, the challenges other auditors raise against a report, and the     *)
(* committee's verdicts, each of which moves score between the challenger  *)
(* and the author of the report.                                           *)
(*                                                                         *)
(* The two pallets share the register of auditors (through the Game trait) *)
(* and the balances of every account, its reserved part included.          *)
(*                                                                         *)
(* What the vulnerabilities, the urls and the changes a challenge proposes *)
(* say is never read by the pallet: a list of vulnerabilities is an opaque *)
(* value, urls and proposed changes are left out.                          *)
(***************************************************************************)
EXTENDS AuditPallet

CONSTANTS
  Hashes,                  \* hashes of the reviewed packages
  Bounties,                \* bounties requestors offer
  MinScores,               \* minimum scores requestors ask for
  VulnerabilityLists,
  NoReview,                \* no entry in Reviews
  NoVulnerabilities,       \* no entry in Vulnerabilities
  MaxReportsPerReview,     \* 10 in the code
  MaxChallengesPerReport   \* 10 in the code

(* Identifiers are positions, counted from 0.                              *)
ReportId    == 0 .. MaxReportsPerReview - 1
ChallengeId == 0 .. MaxChallengesPerReport - 1

Review == [requestor : Accounts, minAuditorScore : MinScores, bounty : Bounties]

Report == [auditor : Accounts, kind : {"Invalid", "Success"}]

ChallengeState == {"Removed", "Pending", "Accepted", "Rejected"}

Challenge == [auditor : Accounts, state : ChallengeState]

ASSUME ExoAssumption ==
  /\ IsFiniteSet(Hashes)
  /\ Bounties \subseteq Nat
  /\ MinScores \subseteq Score
  /\ NoReview \notin Review
  /\ NoVulnerabilities \notin VulnerabilityLists
  /\ MaxReportsPerReview \in Nat \ {0}
  /\ MaxChallengesPerReport \in Nat \ {0}

VARIABLES
  reviews,          \* storage Reviews
  reports,          \* storage Reports
  vulnerabilities,  \* storage Vulnerabilities
  challenges        \* storage Challenges

exoVars == <<reviews, reports, vulnerabilities, challenges>>

vars == <<auditVars, exoVars>>

ExoInit ==
  /\ reviews = [h \in Hashes |-> NoReview]
  /\ reports = [h \in Hashes |-> << >>]
  /\ vulnerabilities = [h \in Hashes |-> [r \in ReportId |-> NoVulnerabilities]]
  /\ challenges = [h \in Hashes |-> [r \in ReportId |-> << >>]]
-----------------------------------------------------------------------------
(* What the calls read.                                                    *)

IsRequested(hash) == reviews[hash] # NoReview

(* audit_review                                                            *)
MayAudit(auditor, hash) ==
  /\ IsRequested(hash)
  /\ HasEnoughRank(auditor, reviews[hash].minAuditorScore)

HasReported(auditor, hash) ==
  \E i \in DOMAIN reports[hash] : reports[hash][i].auditor = auditor

(* Mistake: the bound of the vector is not checked.                        *)
MayReport_Unbounded(auditor, hash) ==
  /\ MayAudit(auditor, hash)
  /\ ~HasReported(auditor, hash)

(* new_report_id, and the bound of the vector the report is appended to    *)
MayReport(auditor, hash) ==
  /\ MayAudit(auditor, hash)
  /\ ~HasReported(auditor, hash)
  /\ Len(reports[hash]) < MaxReportsPerReview

(* Mistake: the length is read as it is after the append.                  *)
NewReportId_AfterAppend(hash) == Len(reports[hash]) + 1

NewReportId(hash) == Len(reports[hash])

ReportExists(hash, reportId) == reportId + 1 \in DOMAIN reports[hash]

(* report_auditor                                                          *)
ReportAuditor(hash, reportId) == reports[hash][reportId + 1].auditor

(* Mistake: only a pending challenge stands in the way of another.         *)
HasChallenged_Pending(auditor, hash, reportId) ==
  \E i \in DOMAIN challenges[hash][reportId] :
    challenges[hash][reportId][i] = [auditor |-> auditor, state |-> "Pending"]

HasChallenged(auditor, hash, reportId) ==
  \E i \in DOMAIN challenges[hash][reportId] :
    challenges[hash][reportId][i].auditor = auditor

(* Mistake: CannotChallengeSelf is not checked.                            *)
MayChallenge_Self(auditor, hash, reportId) ==
  /\ MayAudit(auditor, hash)
  /\ ReportExists(hash, reportId)
  /\ ~HasChallenged(auditor, hash, reportId)
  /\ Len(challenges[hash][reportId]) < MaxChallengesPerReport

(* new_challenge_id                                                        *)
MayChallenge(auditor, hash, reportId) ==
  /\ MayAudit(auditor, hash)
  /\ ReportExists(hash, reportId)
  /\ ReportAuditor(hash, reportId) # auditor
  /\ ~HasChallenged(auditor, hash, reportId)
  /\ Len(challenges[hash][reportId]) < MaxChallengesPerReport
-----------------------------------------------------------------------------
(* Mistake: a review can be requested again under the same hash.           *)
RequestReview_Again(requestor, hash, bounty, minAuditorScore) ==
  /\ CanReserve(balances, requestor, bounty)
  /\ balances' = Reserve(balances, requestor, bounty)
  /\ reviews' = [reviews EXCEPT ![hash] =
                   [requestor |-> requestor,
                    minAuditorScore |-> minAuditorScore,
                    bounty |-> bounty]]
  /\ UNCHANGED <<auditorMap, gamesPlayed, reports, vulnerabilities, challenges>>

(* request_review                                                          *)
RequestReview(requestor, hash, bounty, minAuditorScore) ==
  /\ ~IsRequested(hash)
  /\ CanReserve(balances, requestor, bounty)
  /\ balances' = Reserve(balances, requestor, bounty)
  /\ reviews' = [reviews EXCEPT ![hash] =
                   [requestor |-> requestor,
                    minAuditorScore |-> minAuditorScore,
                    bounty |-> bounty]]
  /\ UNCHANGED <<auditorMap, gamesPlayed, reports, vulnerabilities, challenges>>

AppendReport(auditor, hash, kind) ==
  reports' = [reports EXCEPT ![hash] = Append(@, [auditor |-> auditor, kind |-> kind])]

(* review_invalid                                                          *)
ReviewInvalid(auditor, hash) ==
  /\ MayReport(auditor, hash)
  /\ AppendReport(auditor, hash, "Invalid")
  /\ UNCHANGED <<auditVars, reviews, vulnerabilities, challenges>>

(* review_report                                                           *)
ReviewReport(auditor, hash, list) ==
  /\ MayReport(auditor, hash)
  /\ AppendReport(auditor, hash, "Success")
  /\ vulnerabilities' = [vulnerabilities EXCEPT ![hash][NewReportId(hash)] = list]
  /\ UNCHANGED <<auditVars, reviews, challenges>>

(* challenge_report                                                        *)
ChallengeReport(auditor, hash, reportId) ==
  /\ MayChallenge(auditor, hash, reportId)
  /\ challenges' = [challenges EXCEPT ![hash][reportId] =
                      Append(@, [auditor |-> auditor, state |-> "Pending"])]
  /\ UNCHANGED <<auditVars, reviews, reports, vulnerabilities>>

(* Mistake: a closed challenge is dropped, with those after it.            *)
CloseChallenge_Dropped(hash, reportId, challengeId, state, winner) ==
  /\ ReportExists(hash, reportId)
  /\ challengeId + 1 \in DOMAIN challenges[hash][reportId]
  /\ challenges' = [challenges EXCEPT ![hash][reportId] = SubSeq(@, 1, challengeId)]
  /\ ApplyResult(challenges[hash][reportId][challengeId + 1].auditor,
                 ReportAuditor(hash, reportId), winner)
  /\ UNCHANGED <<balances, reviews, reports, vulnerabilities>>

(* close_challenge: the state is overwritten whatever it was, and the      *)
(* result is played between the challenger and the author of the report.   *)
(* When the result cannot be applied nothing changes.                      *)
CloseChallenge(hash, reportId, challengeId, state, winner) ==
  /\ ReportExists(hash, reportId)
  /\ challengeId + 1 \in DOMAIN challenges[hash][reportId]
  /\ challenges' =
       [challenges EXCEPT ![hash][reportId][challengeId + 1].state = state]
  /\ ApplyResult(challenges[hash][reportId][challengeId + 1].auditor,
                 ReportAuditor(hash, reportId), winner)
  /\ UNCHANGED <<balances, reviews, reports, vulnerabilities>>

(* Mistake: the challenger wins a challenge that is rejected.              *)
RejectChallenge_Swapped(hash, reportId, challengeId) ==
  CloseChallenge(hash, reportId, challengeId, "Rejected", "Player0")

(* approve_challenge, reject_challenge and remove_challenge, called by the *)
(* committee or by root.                                                   *)
ApproveChallenge(hash, reportId, challengeId) ==
  CloseChallenge(hash, reportId, challengeId, "Accepted", "Player0")

RejectChallenge(hash, reportId, challengeId) ==
  CloseChallenge(hash, reportId, challengeId, "Rejected", "Player1")

RemoveChallenge(hash, reportId, challengeId) ==
  CloseChallenge(hash, reportId, challengeId, "Removed", "Draw")

Verdict(hash, reportId, challengeId) ==
  \/ ApproveChallenge(hash, reportId, challengeId)
  \/ RejectChallenge(hash, reportId, challengeId)
  \/ RemoveChallenge(hash, reportId, challengeId)
-----------------------------------------------------------------------------
ExoNext ==
  \/ \E a \in Accounts, h \in Hashes, bounty \in Bounties, score \in MinScores :
       RequestReview(a, h, bounty, score)
  \/ \E a \in Accounts, h \in Hashes : ReviewInvalid(a, h)
  \/ \E a \in Accounts, h \in Hashes, list \in VulnerabilityLists :
       ReviewReport(a, h, list)
  \/ \E a \in Accounts, h \in Hashes, r \in ReportId : ChallengeReport(a, h, r)
  \/ \E h \in Hashes, r \in ReportId, c \in ChallengeId : Verdict(h, r, c)

Init == AuditInit /\ ExoInit

Next == (AuditNext /\ UNCHANGED exoVars) \/ ExoNext

Spec == Init /\ [][Next]_vars
-----------------------------------------------------------------------------
ExoTypeOK ==
  /\ reviews \in [Hashes -> Review \cup {NoReview}]
  /\ reports \in [Hashes -> Seq(Report)]
  /\ \A h \in Hashes : Len(reports[h]) <= MaxReportsPerReview
  /\ vulnerabilities \in
       [Hashes -> [ReportId -> VulnerabilityLists \cup {NoVulnerabilities}]]
  /\ challenges \in [Hashes -> [ReportId -> Seq(Challenge)]]
  /\ \A h \in Hashes, r \in ReportId :
       Len(challenges[h][r]) <= MaxChallengesPerReport

TypeOK == AuditTypeOK /\ ExoTypeOK

(* review_report and review_invalid: the vulnerabilities of a report are   *)
(* filed under that very report, the report is one that succeeded, and no  *)
(* other report has any; an auditor has one report per review, and only    *)
(* requested packages have reports.                                        *)
VulnerabilitiesMatchReports ==
  \A h \in Hashes :
    /\ reports[h] # << >> => IsRequested(h)
    /\ \A i, j \in DOMAIN reports[h] :
         reports[h][i].auditor = reports[h][j].auditor => i = j
    /\ \A r \in ReportId :
         vulnerabilities[h][r] # NoVulnerabilities
           <=> ReportExists(h, r) /\ reports[h][r + 1].kind = "Success"

(* challenge_report: the challenges of a report are of different auditors, *)
(* none of them its author, and belong to a report that exists.  So the    *)
(* result of a verdict is always played between two different accounts,    *)
(* whatever cancellations and new registrations happened in between.       *)
ChallengersAreOthers ==
  \A h \in Hashes, r \in ReportId :
    LET raised == challenges[h][r] IN
    /\ raised # << >> => ReportExists(h, r)
    /\ \A i \in DOMAIN raised : raised[i].auditor # ReportAuditor(h, r)
    /\ \A i, j \in DOMAIN raised : raised[i].auditor = raised[j].auditor => i = j

(* What was put on record stays: no call replaces a review, drops or       *)
(* reorders a report or a challenge, changes who sent it, takes its        *)
(* vulnerabilities back or makes a closed challenge pending again.         *)
RecordIsPermanent ==
  [][\A h \in Hashes :
       /\ IsRequested(h) => reviews'[h] = reviews[h]
       /\ Len(reports[h]) <= Len(reports'[h])
       /\ \A i \in DOMAIN reports[h] : reports'[h][i] = reports[h][i]
       /\ \A r \in ReportId :
            /\ vulnerabilities[h][r] # NoVulnerabilities =>
                 vulnerabilities'[h][r] = vulnerabilities[h][r]
            /\ Len(challenges[h][r]) <= Len(challenges'[h][r])
            /\ \A i \in DOMAIN challenges[h][r] :
                 LET before == challenges[h][r][i]
                     after  == challenges'[h][r][i]
                 IN /\ after.auditor = before.auditor
                    /\ before.state # "Pending" => after.state # "Pending"
    ]_vars

(* close_challenge: a verdict moves score between the challenger and the   *)
(* author of the report and creates none; accepting never costs the        *)
(* challenger and rejecting never costs the author.                        *)
VerdictsConserveScore ==
  [][gamesPlayed' # gamesPlayed /\ NoScoreAtTheEdge =>
       \A h \in Hashes, r \in ReportId, c \in ChallengeId :
         Verdict(h, r, c) =>
           LET challenger == challenges[h][r][c + 1].auditor
               author     == ReportAuditor(h, r)
               verdict    == challenges'[h][r][c + 1].state
           IN /\ TotalScore' = TotalScore
              /\ verdict = "Accepted" =>
                   auditorMap'[author].score <= auditorMap[author].score
              /\ verdict = "Rejected" =>
                   auditorMap'[challenger].score <= auditorMap[challenger].score
    ]_vars

(* What the calls promised to keep reserved for an account: its stake, and *)
(* the bounties of the reviews it requested.                               *)
StakeOf(a) ==
  IF IsSignedUp(a) /\ ~HasGenesisEntry(a) THEN MinAuditorStake ELSE 0

RequestsOf(a) == {h \in Hashes : IsRequested(h) /\ reviews[h].requestor = a}

BountiesOf(hashes) == SumFunction([h \in hashes |-> reviews[h].bounty])

(* sign_up, cancel_account and request_review draw on one reserved balance *)
(* per account.  Whoever is not a genesis auditor has exactly its stake    *)
(* and its bounties there, neither call eating what the other reserved,    *)
(* but for bounties below the existential deposit: an account that forfeits*)
(* its stake may be reaped with them.                                      *)
ReservedIsOwed ==
  \A a \in Accounts \ GenesisAuditors :
    \E reaped \in SUBSET {h \in RequestsOf(a) : reviews[h].bounty < ExistentialDeposit} :
      balances[a].reserved = StakeOf(a) + BountiesOf(RequestsOf(a) \ reaped)

(* exo-pallet, Event::ChallengeRemoved: "Another challenge was accepted by *)
(* the committee for a report, so this one was removed".  Of the           *)
(* challenges of one report at most one is accepted.                       *)
OneAcceptedPerReport ==
  \A h \in Hashes, r \in ReportId :
    \A i, j \in DOMAIN challenges[h][r] :
      /\ challenges[h][r][i].state = "Accepted"
      /\ challenges[h][r][j].state = "Accepted"
      => i = j
-----------------------------------------------------------------------------
(* The record without ids.                                                 *)
Requested == {h \in Hashes : IsRequested(h)}

ReportOf(h, i) ==
  [package |-> h, author |-> reports[h][i].auditor, found |-> vulnerabilities[h][i - 1]]

Filed == UNION {{ReportOf(h, i) : i \in DOMAIN reports[h]} : h \in Hashes}

ClaimOf(h, r, i) ==
  [package |-> h, author |-> ReportAuditor(h, r),
   by |-> challenges[h][r][i].auditor, state |-> challenges[h][r][i].state]

Claims ==
  UNION {{ClaimOf(at[1], at[2], i) : i \in DOMAIN challenges[at[1]][at[2]]} :
           at \in Hashes \X ReportId}

Dock == INSTANCE Docket WITH
          Findings  <- VulnerabilityLists \cup {NoVulnerabilities},
          auditors  <- Auditors,
          requested <- Requested,
          filed     <- Filed,
          claims    <- Claims

(* The two pallets implement the abstract docket: what the calls find by   *)
(* ids, positions in vectors that grow, is the one report of an author and *)
(* the one challenge of a challenger, and a call changes that one alone.   *)
DocketKept == Dock!Spec
=============================================================================
