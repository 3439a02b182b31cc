---------------------------- MODULE AuditorsPage ----------------------------
(***************************************************************************)
(* The auditors' page: AuditorsPage, AuditorProfile, AuditorForm, Signup   *)
(* and CancelAccount.  The page shows two things about the current         *)
(* account: what the chain's register says, by a subscription, and its row *)
(* in lar's table, by reads.  Both are asynchronous and the account may be *)
(* switched at any time, while the forms keep what they were opened with.  *)
(*                                                                         *)
(* A subscription can be ended once it is there; the callbacks that were   *)
(* due by then still run, in order.  Submissions are those of TxAndPost,   *)
(* here with inclusion, post and save as one step.                         *)
(***************************************************************************)
EXTENDS Naturals, Sequences

CONSTANTS
  Accounts,      \* accounts of the wallet
  MaxSwitches,   \* bound: how often the account is switched
  MaxChanges,    \* bound: how often others change the register
  MaxTxs         \* bound: submissions from the page

None == "none"

Closed == "closed"     \* a form that is not shown

ASSUME PageAssumption ==
  /\ Accounts \cap {None, Closed} = {}
  /\ {MaxSwitches, MaxChanges, MaxTxs} \subseteq Nat

(* What auditorMap has for an account: nothing, no score yet, or a score.  *)
Standing == {"unknown", "waiting", "approved"}

VARIABLES
  register,        \* auditorMap on the chain
  rows,            \* the accounts the auditors table has a row of
  currentAccount,
  sub,             \* the subscription of the last effect: account, and if it is there
  leaving,         \* subscriptions cleaned up before they were there, so not ended
  leaked,          \* the same, there by now
  callbacks,       \* what subscriptions have to tell the page
  onChainDetails,  \* what the page was told last: an account and its standing
  reads,           \* reads of the row of an account, waiting or under way
  auditorData,     \* the row answered last
  signup,          \* the account the sign-up form was opened with
  editing,         \* the account whose row the profile form was opened with
  txs,             \* submissions
  switches, changes

chain == <<register, rows, txs, changes>>
view == <<sub, leaving, leaked, callbacks, onChainDetails>>
forms == <<signup, editing>>
vars == <<chain, view, forms, currentAccount, reads, auditorData, switches>>

Details == [of : Accounts \cup {None}, standing : Standing]

(* What a submission signs for, and the row it posts when it is included.  *)
Tx == [method : {"signUp", "updateProfile", "cancelAccount"}, signer : Accounts,
       row : Accounts \cup {None}, state : {"sent", "done"}]

ViewOf(details) ==
  CASE details.standing = "unknown" -> "signup"
    [] details.standing = "waiting" -> "waiting for approvals"
    [] details.standing = "approved" -> "tabs"

(* The page is there before AccountSelector has chosen an account: it asks *)
(* for the row of none, and its first render shows the sign-up form.       *)
Init ==
  /\ register \in [Accounts -> Standing]
  /\ rows \in SUBSET Accounts
  /\ currentAccount = None
  /\ sub = [of |-> None, there |-> FALSE]
  /\ leaving = {} /\ leaked = {} /\ callbacks = << >>
  /\ onChainDetails = [of |-> None, standing |-> "unknown"]
  /\ reads = {None} /\ auditorData = None
  /\ signup = None /\ editing = Closed
  /\ txs = << >> /\ switches = 0 /\ changes = 0
-----------------------------------------------------------------------------
(* Mistake: the effect does not depend on the account.                     *)
Resubscribed_Once(a) ==
  IF sub.of = None THEN [of |-> a, there |-> FALSE] ELSE sub

(* The effect of the account: the subscription of before is ended if there *)
(* is a function to end it with, and a new one is asked for.               *)
Resubscribed(a) == [of |-> a, there |-> FALSE]

NotEnded == IF sub.there \/ sub.of = None THEN {} ELSE {sub.of}

(* AccountSelector: the first account, or the one the user picks.          *)
SwitchAccount(a) ==
  /\ a # currentAccount
  /\ switches < MaxSwitches
  /\ switches' = switches + 1
  /\ currentAccount' = a
  /\ sub' = Resubscribed(a)
  /\ leaving' = leaving \cup NotEnded
  /\ reads' = reads \cup {a}
  /\ editing' = Closed
  /\ UNCHANGED <<chain, leaked, callbacks, onChainDetails, auditorData, signup>>

Told(a) == Append(callbacks, [of |-> a, standing |-> register[a]])

Subscribed ==
  /\ sub.of # None /\ ~sub.there
  /\ sub' = [sub EXCEPT !.there = TRUE]
  /\ callbacks' = Told(sub.of)
  /\ UNCHANGED <<chain, leaving, leaked, onChainDetails, forms, currentAccount, reads,
                 auditorData, switches>>

Leaks(a) ==
  /\ leaving' = leaving \ {a}
  /\ leaked' = leaked \cup {a}
  /\ callbacks' = Told(a)
  /\ UNCHANGED <<chain, sub, onChainDetails, forms, currentAccount, reads,
                 auditorData, switches>>

(* Mistake: the sign-up form stays until the account is switched.          *)
FormsFor_Kept(details) ==
  /\ signup' = IF signup = Closed THEN currentAccount ELSE signup
  /\ UNCHANGED editing

(* The details decide which of the two forms there can be; one that is not *)
(* shown any more is gone with what it held.                               *)
FormsFor(details) ==
  IF ViewOf(details) = "signup"
  THEN /\ signup' = IF signup = Closed THEN currentAccount ELSE signup
       /\ editing' = Closed
  ELSE /\ signup' = Closed
       /\ UNCHANGED editing

(* setOnChainDetails, and a second later a read for the account of then.   *)
Deliver ==
  /\ callbacks # << >>
  /\ onChainDetails' = Head(callbacks)
  /\ callbacks' = Tail(callbacks)
  /\ FormsFor(Head(callbacks))
  /\ reads' = IF {Head(callbacks).standing, onChainDetails.standing} = {"unknown"}
              THEN reads ELSE reads \cup {currentAccount}
  /\ UNCHANGED <<chain, sub, leaving, leaked, currentAccount, auditorData, switches>>

(* getData: data[0], undefined if the account has no row.                  *)
SetAuditorData(a) ==
  /\ auditorData' = IF a \in rows THEN a ELSE None
  /\ reads' = reads \ {a}
  /\ UNCHANGED <<chain, view, forms, currentAccount, switches>>

ReadLost(a) ==
  /\ reads' = reads \ {a}
  /\ UNCHANGED <<chain, view, forms, currentAccount, auditorData, switches>>
-----------------------------------------------------------------------------
Own == IF auditorData = None THEN currentAccount ELSE auditorData

OpenEditing ==
  /\ ViewOf(onChainDetails) # "signup" /\ editing = Closed
  /\ editing' = Own
  /\ UNCHANGED <<chain, view, signup, currentAccount, reads, auditorData, switches>>

CloseEditing ==
  /\ editing # Closed
  /\ editing' = Closed
  /\ UNCHANGED <<chain, view, signup, currentAccount, reads, auditorData, switches>>

Submit(method, row) ==
  /\ currentAccount # None
  /\ Len(txs) < MaxTxs
  /\ txs' = Append(txs, [method |-> method, signer |-> currentAccount, row |-> row,
                         state |-> "sent"])
  /\ UNCHANGED <<register, rows, changes, view, forms, currentAccount, reads,
                 auditorData, switches>>

(* Mistake: the form is not checked against the account that signs.        *)
MaySign_Any(address) == address # Closed

MaySign(address) == address # Closed /\ address = currentAccount

SignUp == MaySign(signup) /\ Submit("signUp", signup)

UpdateProfile == MaySign(editing) /\ Submit("updateProfile", editing)

(* CancelAccount posts the row it was given, made blank but for the address. *)
CancelAccount ==
  /\ ViewOf(onChainDetails) # "signup"
  /\ Submit("cancelAccount", auditorData)
-----------------------------------------------------------------------------
(* Mistake: the entry is queried once, not subscribed to.                  *)
Tells_Once(a) == a \in leaked

(* Every live subscription of the account is told, once.                   *)
Tells(a) == (sub.there /\ sub.of = a) \/ a \in leaked

Changed(a, standing) ==
  /\ register' = [register EXCEPT ![a] = standing]
  /\ callbacks' = IF Tells(a) THEN Append(callbacks, [of |-> a, standing |-> standing])
                              ELSE callbacks

(* Approvals, games and what the account does elsewhere.                   *)
OthersChange(a) ==
  /\ changes < MaxChanges
  /\ changes' = changes + 1
  /\ \E s \in Standing \ {register[a]} : Changed(a, s)
  /\ UNCHANGED <<rows, txs, sub, leaving, leaked, onChainDetails, forms, currentAccount,
                 reads, auditorData, switches>>

AfterCall(tx) ==
  CASE tx.method = "signUp" -> "waiting"
    [] tx.method = "updateProfile" -> register[tx.signer]
    [] tx.method = "cancelAccount" -> "unknown"

CallSucceeds(tx) == (tx.method = "signUp") = (register[tx.signer] = "unknown")

(* The call is in a block without error: the row is posted and saved if    *)
(* there is an address in it, unless the post is lost or refused, and      *)
(* finishEvent closes the profile form.                                    *)
Included(i) ==
  LET tx == txs[i] IN
  /\ tx.state = "sent" /\ CallSucceeds(tx)
  /\ txs' = [txs EXCEPT ![i].state = "done"]
  /\ Changed(tx.signer, AfterCall(tx))
  /\ rows' \in {rows, rows \cup ({tx.row} \cap Accounts)}
  /\ editing' = IF tx.method = "updateProfile" THEN Closed ELSE editing
  /\ UNCHANGED <<changes, sub, leaving, leaked, onChainDetails, signup, currentAccount,
                 reads, auditorData, switches>>

(* The call is not signed, or fails in its block, or never gets into one.  *)
Refused(i) ==
  /\ txs[i].state = "sent"
  /\ txs' = [txs EXCEPT ![i].state = "done"]
  /\ UNCHANGED <<register, rows, changes, view, forms, currentAccount, reads,
                 auditorData, switches>>

Next ==
  \/ \E a \in Accounts : SwitchAccount(a) \/ OthersChange(a)
  \/ Subscribed \/ Deliver \/ OpenEditing \/ CloseEditing
  \/ \E a \in leaving : Leaks(a)
  \/ \E a \in reads : SetAuditorData(a) \/ ReadLost(a)
  \/ SignUp \/ UpdateProfile \/ CancelAccount
  \/ \E i \in DOMAIN txs : Included(i) \/ Refused(i)

(* The node answers a subscription and the browser runs its timers.        *)
Fairness == WF_vars(Subscribed) /\ WF_vars(Deliver)

Spec == Init /\ [][Next]_vars

FairSpec == Spec /\ Fairness
-----------------------------------------------------------------------------
TypeOK ==
  /\ register \in [Accounts -> Standing]
  /\ rows \subseteq Accounts
  /\ currentAccount \in Accounts \cup {None}
  /\ sub \in [of : Accounts \cup {None}, there : BOOLEAN]
  /\ leaving \subseteq Accounts /\ leaked \subseteq Accounts
  /\ callbacks \in Seq(Details) /\ onChainDetails \in Details
  /\ reads \subseteq Accounts \cup {None} /\ auditorData \in Accounts \cup {None}
  /\ signup \in Accounts \cup {None, Closed} /\ editing \in Accounts \cup {None, Closed}
  /\ (signup = Closed) = (ViewOf(onChainDetails) # "signup")
  /\ txs \in Seq(Tx) /\ Len(txs) <= MaxTxs
  /\ switches \in 0 .. MaxSwitches /\ changes \in 0 .. MaxChanges

(* AuditorsPage: once its subscription is there and told all it had to     *)
(* tell, the page shows what the register says of the current account,     *)
(* through all switches, unless a subscription could not be ended.         *)
PageAgreesWithChain ==
  (sub.there /\ callbacks = << >> /\ leaving \cup leaked = {})
    => onChainDetails = [of |-> currentAccount, standing |-> register[currentAccount]]

(* AuditorForm: a profile is posted for the account that signed the call,  *)
(* whatever account the form was opened with and whoever's row came in.    *)
ProfilesAreOwn ==
  \A i \in DOMAIN txs : txs[i].method # "cancelAccount" => txs[i].row = txs[i].signer

Agrees ==
  /\ currentAccount # None
  /\ onChainDetails = [of |-> currentAccount, standing |-> register[currentAccount]]

(* After the last switch and the last change the page gets to show what    *)
(* the register says of the current account, in whatever order the         *)
(* answers came, unless a subscription could not be ended.                 *)
StandingIsShown ==
  currentAccount # None ~> Agrees \/ leaving \cup leaked # {}
=============================================================================
