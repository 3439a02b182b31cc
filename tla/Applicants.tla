----------------------------- MODULE Applicants -----------------------------
(***************************************************************************)
(* ApproveAuditor: the applicants an auditor may still approve.  The rows  *)
(* of lar's auditors are read once for every account, each row subscribes  *)
(* to its entry of auditorMap, and the callbacks of one reading share a    *)
(* list, signedUps, which they put on the page.  A subscription tells in   *)
(* order, and nothing is known of the order among them.  The approval      *)
(* itself is a TxButton's, here in two steps: it is sent, and it is in a   *)
(* block.                                                                  *)
(***************************************************************************)
EXTENDS Naturals, Sequences

CONSTANTS
  Accounts,      \* accounts of the wallet
  Ranked,        \* those whose score lets them approve
  Candidates,    \* auditors that have a row
  MaxReads,      \* bound: readings, one for each switch of the account
  MaxChanges     \* bound: changes of the register

None == "none"

VARIABLES
  register,       \* the entries of the candidates in auditorMap
  currentAccount,
  readings,       \* the runs of getData: their account and their signedUps
  reading,        \* readings whose answer is not there yet
  asked,          \* subscriptions, of a reading to a candidate, not there yet
  live,           \* subscriptions that tell of changes
  callbacks,      \* what each of them has to tell
  applicants,     \* what the page offers
  dropdownValue,
  approving,      \* approvals sent and not in a block
  changes

vars == <<register, currentAccount, readings, reading, asked, live, callbacks,
          applicants, dropdownValue, approving, changes>>

Entry == [standing : {"none", "pending", "scored"}, approvedBy : SUBSET Accounts]

NoEntry == [standing |-> "none", approvedBy |-> {}]

NewEntry == [standing |-> "pending", approvedBy |-> {}]

Init ==
  /\ register \in [Candidates -> {NoEntry, NewEntry}]
  /\ currentAccount \in Accounts
  /\ readings = <<[account |-> currentAccount, signedUps |-> {}]>>
  /\ reading = {1} /\ asked = {} /\ live = {}
  /\ callbacks = [s \in {} |-> << >>]
  /\ applicants = {} /\ dropdownValue = None /\ approving = {} /\ changes = 0

Current == Len(readings)

(* The cleanup ends the subscriptions that are there by then.              *)
Unsubscribed == {s \in live : s[1] = Current}

(* The effect of the account.                                              *)
SwitchAccount(a) ==
  /\ a # currentAccount /\ Len(readings) < MaxReads
  /\ currentAccount' = a
  /\ readings' = Append(readings, [account |-> a, signedUps |-> {}])
  /\ reading' = reading \cup {Len(readings) + 1}
  /\ live' = live \ Unsubscribed
  /\ callbacks' = [s \in live \ Unsubscribed |-> callbacks[s]]
  /\ dropdownValue' = None
  /\ UNCHANGED <<register, asked, applicants, approving, changes>>

Answered(r) ==
  /\ reading' = reading \ {r}
  /\ asked' = asked \cup ({r} \X Candidates)
  /\ UNCHANGED <<register, currentAccount, readings, live, callbacks, applicants,
                 dropdownValue, approving, changes>>

ReadLost(r) ==
  /\ reading' = reading \ {r}
  /\ UNCHANGED <<register, currentAccount, readings, asked, live, callbacks, applicants,
                 dropdownValue, approving, changes>>

Subscribed(s) ==
  /\ asked' = asked \ {s}
  /\ live' = live \cup {s}
  /\ callbacks' = [t \in live \cup {s} |-> IF t = s THEN <<register[s[2]]>> ELSE callbacks[t]]
  /\ UNCHANGED <<register, currentAccount, readings, reading, applicants, dropdownValue,
                 approving, changes>>
-----------------------------------------------------------------------------
(* Mistake: who has a score is passed over, approved by the account or not. *)
PassedOver_Scored(result, a) == result.standing # "pending"

(* No entry, or a score that is there without the account's approval.      *)
PassedOver(result, a) ==
  \/ result.standing = "none"
  \/ result.standing = "scored" /\ a \notin result.approvedBy

Listed(list, x, result, a) ==
  IF a \in result.approvedBy THEN list \ {x} ELSE list \cup {x}

(* The callback of a subscription, with the list and the account of its    *)
(* reading.                                                                *)
SetApplicants(s) ==
  /\ callbacks[s] # << >>
  /\ callbacks' = [callbacks EXCEPT ![s] = Tail(callbacks[s])]
  /\ LET result == Head(callbacks[s])
         r == s[1]
         list == Listed(readings[r].signedUps, s[2], result, readings[r].account)
     IN  IF PassedOver(result, readings[r].account)
         THEN UNCHANGED <<readings, applicants>>
         ELSE /\ readings' = [readings EXCEPT ![r] = [@ EXCEPT !.signedUps = list]]
              /\ applicants' = list
  /\ UNCHANGED <<register, currentAccount, reading, asked, live, dropdownValue, approving,
                 changes>>

Select(x) ==
  /\ dropdownValue # x
  /\ dropdownValue' = x
  /\ UNCHANGED <<register, currentAccount, readings, reading, asked, live, callbacks,
                 applicants, approving, changes>>

IsAllowed == currentAccount \in Ranked

(* TxButton sends the call and then clears what is selected.               *)
Approve ==
  /\ IsAllowed /\ dropdownValue # None
  /\ approving' = approving \cup {<<currentAccount, dropdownValue>>}
  /\ dropdownValue' = None
  /\ UNCHANGED <<register, currentAccount, readings, reading, asked, live, callbacks,
                 applicants, changes>>
-----------------------------------------------------------------------------
(* The entry of a candidate changes, and its subscriptions are told.       *)
Becomes(x, entry) ==
  /\ changes < MaxChanges
  /\ changes' = changes + 1
  /\ register' = [register EXCEPT ![x] = entry]
  /\ callbacks' = [s \in live |-> IF s[2] = x THEN Append(callbacks[s], entry) ELSE callbacks[s]]
  /\ UNCHANGED <<currentAccount, readings, reading, asked, live, applicants, dropdownValue>>

(* A candidate signs up or cancels; others approve, perhaps as the third.  *)
OthersChange(x) ==
  /\ \/ register[x].standing = "none" /\ Becomes(x, NewEntry)
     \/ register[x].standing # "none" /\ Becomes(x, NoEntry)
     \/ register[x].standing = "pending" /\ Becomes(x, [register[x] EXCEPT !.standing = "scored"])
  /\ UNCHANGED approving

(* approve_auditor, which refuses a second approval of the same account    *)
(* and of one that has a score.                                            *)
Approved(a, x) ==
  /\ register[x].standing = "pending" /\ a \notin register[x].approvedBy
  /\ \E standing \in {"pending", "scored"} :
       Becomes(x, [standing |-> standing, approvedBy |-> register[x].approvedBy \cup {a}])
  /\ approving' = approving \ {<<a, x>>}

Refused(a, x) ==
  /\ approving' = approving \ {<<a, x>>}
  /\ UNCHANGED <<register, currentAccount, readings, reading, asked, live, callbacks,
                 applicants, dropdownValue, changes>>

Next ==
  \/ \E a \in Accounts : SwitchAccount(a)
  \/ \E r \in reading : Answered(r) \/ ReadLost(r)
  \/ \E s \in asked : Subscribed(s)
  \/ \E s \in live : SetApplicants(s)
  \/ Approve
  \/ \E x \in applicants : Select(x)
  \/ \E x \in Candidates : OthersChange(x)
  \/ \E p \in approving : Approved(p[1], p[2]) \/ Refused(p[1], p[2])

Spec == Init /\ [][Next]_vars
-----------------------------------------------------------------------------
TypeOK ==
  /\ register \in [Candidates -> Entry]
  /\ \A x \in Candidates : register[x].standing = "none" => register[x] = NoEntry
  /\ currentAccount \in Accounts
  /\ readings \in Seq([account : Accounts, signedUps : SUBSET Candidates])
  /\ readings[Current].account = currentAccount
  /\ reading \subseteq DOMAIN readings
  /\ asked \cup live \subseteq (DOMAIN readings) \X Candidates
  /\ callbacks \in [live -> Seq(Entry)]
  /\ applicants \subseteq Candidates /\ dropdownValue \in Candidates \cup {None}
  /\ approving \subseteq Ranked \X Candidates
  /\ changes \in 0 .. MaxChanges

(* All the current account's subscriptions are there and have told what    *)
(* they had to, and none of another account's is left.                     *)
Settled ==
  /\ live = {Current} \X Candidates /\ \A s \in live : callbacks[s] = << >>
  /\ asked = {} /\ reading = {}

(* ApproveAuditor: through switches of the account, approvals and          *)
(* cancellations, who waits for the account's approval is on its list, and *)
(* who has it is not.                                                      *)
ApplicantsWait ==
  Settled =>
    \A x \in Candidates :
      IF currentAccount \in register[x].approvedBy THEN x \notin applicants
      ELSE register[x].standing = "pending" => x \in applicants
=============================================================================
