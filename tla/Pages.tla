-------------------------------- MODULE Pages --------------------------------
(***************************************************************************)
(* The parts of the pages that share nothing but the account selected and  *)
(* the button that sends: App's Routes put up one page at a time, and none *)
(* of these parts calls another.  One of them is in use; what it shares by *)
(* name with another (a subscription, a reading) is its own meanwhile, and *)
(* the rest of the state is Unused.                                        *)
(***************************************************************************)
EXTENDS Naturals, FiniteSets

CONSTANTS
  Accounts, Ranked, Candidates,             \* see Applicants
  Council, Challenges, Audits, AuditOf,     \* see CouncilPage
  Reports, Lists,                           \* see ChallengeForm
  MaxPresses, MaxEdits, MaxReads, MaxChanges, MaxProposals, MaxPicks,
  MaxVerdicts, MaxRows, MaxSubmits          \* bounds, see each of them

Unused == "none"

ASSUME PagesAssumption ==
  /\ Ranked \cup Council \subseteq Accounts
  /\ AuditOf \in [Challenges -> Audits]
  /\ Unused \notin Accounts \cup Candidates \cup Challenges
  /\ Lists \subseteq {"remove", "add", "patch"}
  /\ {MaxPresses, MaxEdits, MaxReads, MaxChanges, MaxProposals, MaxPicks,
      MaxVerdicts, MaxRows, MaxSubmits} \subseteq Nat

VARIABLES
  part,                                     \* the part in use
  currentAccount, unsub, live, reading, changes,
  type, input, sudoKey, presses, status, overlap, edits,
  register, readings, asked, callbacks, applicants, dropdownValue, approving,
  verdicts, details, pages, auditHashes, challengesState, challenge, formState,
  proposals, picks,
  report, open, data, renders, render, submissions

ofButton == <<type, input, sudoKey, presses, status, overlap, edits>>
ofApplicants == <<register, readings, asked, callbacks, applicants, dropdownValue, approving>>
ofCouncil == <<verdicts, details, pages, auditHashes, challengesState, challenge, formState,
               proposals, picks>>
ofForm == <<report, open, data, renders, render, submissions>>
vars == <<part, currentAccount, unsub, live, reading, changes, ofButton, ofApplicants,
          ofCouncil, ofForm>>

Button    == INSTANCE TxButton
Approvals == INSTANCE Applicants
Proposals == INSTANCE CouncilPage
Form      == INSTANCE ChallengeForm
-----------------------------------------------------------------------------
ButtonUnused ==
  /\ type = Unused /\ input = Unused /\ sudoKey = Unused /\ presses = Unused
  /\ status = Unused /\ overlap = Unused /\ edits = Unused

ApplicantsUnused ==
  /\ register = Unused /\ readings = Unused /\ asked = Unused /\ callbacks = Unused
  /\ applicants = Unused /\ dropdownValue = Unused /\ approving = Unused

CouncilUnused ==
  /\ verdicts = Unused /\ details = Unused /\ pages = Unused /\ auditHashes = Unused
  /\ challengesState = Unused /\ challenge = Unused /\ formState = Unused
  /\ proposals = Unused /\ picks = Unused

FormUnused ==
  /\ report = Unused /\ open = Unused /\ data = Unused /\ renders = Unused
  /\ render = Unused /\ submissions = Unused

Init ==
  \/ /\ part = "button" /\ Button!Init
     /\ reading = Unused /\ changes = Unused
     /\ ApplicantsUnused /\ CouncilUnused /\ FormUnused
  \/ /\ part = "approvals" /\ Approvals!Init
     /\ unsub = Unused
     /\ ButtonUnused /\ CouncilUnused /\ FormUnused
  \/ /\ part = "proposals" /\ Proposals!Init
     /\ live = Unused
     /\ ButtonUnused /\ ApplicantsUnused /\ FormUnused
  \/ /\ part = "form" /\ Form!Init
     /\ currentAccount = Unused /\ live = Unused /\ reading = Unused /\ changes = Unused
     /\ ButtonUnused /\ ApplicantsUnused /\ CouncilUnused

Next ==
  \/ /\ part = "button" /\ Button!Next
     /\ UNCHANGED <<part, reading, changes, ofApplicants, ofCouncil, ofForm>>
  \/ /\ part = "approvals" /\ Approvals!Next
     /\ UNCHANGED <<part, unsub, ofButton, ofCouncil, ofForm>>
  \/ /\ part = "proposals" /\ Proposals!Next
     /\ UNCHANGED <<part, live, ofButton, ofApplicants, ofForm>>
  \/ /\ part = "form" /\ Form!Next
     /\ UNCHANGED <<part, currentAccount, live, reading, changes, type, input, sudoKey,
                    presses, status, overlap, edits, ofApplicants, ofCouncil>>

Spec == Init /\ [][Next]_vars
-----------------------------------------------------------------------------
(* The types of the part in use.                                           *)
TypeOK ==
  \/ part = "button" /\ Button!TypeOK
  \/ part = "approvals" /\ Approvals!TypeOK
  \/ part = "proposals" /\ Proposals!TypeOK
  \/ part = "form" /\ Form!TypeOK

(* TxButton: setStatus tells of the latest press, and never again of one   *)
(* before it, unless presses overlapped or the call is sudo's.             *)
StatusIsLatest == part = "button" => Button!StatusIsLatest

(* TxButton: no call goes out without the text that was there when the     *)
(* button was pressed, for all that is changed while it is signed.         *)
CallsAreAsPressed == part = "button" => Button!CallsAreAsPressed

(* ApproveAuditor: who waits for the account's approval is on its list,    *)
(* and who has it is not, through switches, approvals and cancellations.   *)
ApplicantsWait == part = "approvals" => Approvals!ApplicantsWait

(* CreateProposal: what is proposed is a verdict on the challenge shown,   *)
(* however they are picked while proposals are under way; or on none, but  *)
(* only once a proposal of the same page is in a block.                    *)
ProposalsAreOfShown == part = "proposals" => Proposals!ProposalsAreOfShown

(* ChallengeReportButton: a form that is not open is clear, however it was *)
(* closed; only a render whose arrays were set before may bring back what  *)
(* was typed into them meanwhile.                                          *)
ClosedIsClear == part = "form" => Form!ClosedIsClear

(* useFormValidation: a challenge that was sent says something in every    *)
(* row, and nothing that is not accepted.                                  *)
SentRowsAreValid == part = "form" => Form!SentRowsAreValid
=============================================================================
