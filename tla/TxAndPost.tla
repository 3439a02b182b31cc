----------------------------- MODULE TxAndPost ------------------------------
(***************************************************************************)
(* hooks/useTxAndPost.js of the front end, as RequestAudit.js uses it: a   *)
(* form is submitted as an extrinsic, and when the node reports it in a    *)
(* block what was submitted is posted to the database of lar.              *)
(*                                                                         *)
(* The hook remembers one function that ends a subscription, the one whose *)
(* signAndSend resolved last, and calls it at the next submission.  Every  *)
(* status the node reports is handed to the callback of its submission by  *)
(* a timer of its own; ending the subscription stops further reports, not  *)
(* the timers already set.                                                 *)
(*                                                                         *)
(* The other users of the hook (AuditorForm, CancelAccount,                *)
(* ChallengeReportButton) differ in what they submit and in finishEvent.   *)
(***************************************************************************)
EXTENDS Naturals, Sequences

CONSTANTS
  Inputs,          \* filled in forms that pass validation
  Blank,           \* the form as it is at first and after finishEvent
  MaxSubmissions,  \* bound: how often the form is submitted
  MaxForks         \* bound: how often a block is taken back

ASSUME TxAssumption ==
  /\ Blank \notin Inputs
  /\ MaxSubmissions \in Nat
  /\ MaxForks \in Nat

(* Where a submission is; the last four are final.                         *)
Phase == {"signing", "pool", "applied", "failed",
          "rejected", "dropped", "finalized", "finalizedFailed"}

(* "Applied" and "Failed" are InBlock without and with a dispatchError.    *)
Status == {"Ready", "Applied", "Failed", "Retracted", "Finalized", "Dropped"}

VARIABLES
  form,       \* formState
  txs,        \* the submissions so far
  unsub,      \* number of the submission the unsub state ends, 0 for none
  inFlight,   \* posts sent and not answered
  rows,       \* posts the database has saved
  forks       \* how many blocks were taken back

vars == <<form, txs, unsub, inFlight, rows, forks>>

(* input: what onClick built the call and the post from; reports: what the *)
(* node told the subscription; seen: how many the callback was called with.*)
Submission == [input : Inputs, phase : Phase, watched : BOOLEAN,
               reports : Seq(Status), seen : Nat]

Ids == DOMAIN txs

(* A post, named by the call of the callback that sent it.                 *)
Post == [tx : 1 .. MaxSubmissions, call : Nat, data : Inputs]

Init ==
  /\ form = Blank
  /\ txs = << >>
  /\ unsub = 0
  /\ inFlight = {}
  /\ rows = {}
  /\ forks = 0
-----------------------------------------------------------------------------
(* What the node does to submission i, reported if it is still watched.    *)
Reported(tx, phase, status) ==
  [tx EXCEPT !.phase = phase,
             !.reports = IF tx.watched THEN Append(@, status) ELSE @]

Moves(i, from, to, status) ==
  /\ txs[i].phase = from
  /\ txs' = [txs EXCEPT ![i] = Reported(@, to, status)]
  /\ UNCHANGED <<form, unsub, inFlight, rows>>

Include(i) ==
  /\ Moves(i, "pool", "applied", "Applied") \/ Moves(i, "pool", "failed", "Failed")
  /\ UNCHANGED forks

Retract(i) ==
  /\ forks < MaxForks
  /\ Moves(i, "applied", "pool", "Retracted") \/ Moves(i, "failed", "pool", "Retracted")
  /\ forks' = forks + 1

Finalize(i) ==
  /\ \/ Moves(i, "applied", "finalized", "Finalized")
     \/ Moves(i, "failed", "finalizedFailed", "Finalized")
  /\ UNCHANGED forks

Drop(i) ==
  /\ Moves(i, "pool", "dropped", "Dropped")
  /\ UNCHANGED forks
-----------------------------------------------------------------------------
(* onChange                                                                *)
Edit(input) ==
  /\ form' = input
  /\ UNCHANGED <<txs, unsub, inFlight, rows, forks>>

(* txAndPost ends the subscription the hook remembers ...                  *)
Unsubscribed(i) ==
  [j \in Ids |-> IF j = i THEN [txs[j] EXCEPT !.watched = FALSE] ELSE txs[j]]

(* ... and signedTx asks for a signature.  The button is disabled while    *)
(* the form does not validate.                                             *)
Submit ==
  /\ form \in Inputs
  /\ Len(txs) < MaxSubmissions
  /\ txs' = Append(Unsubscribed(unsub),
                   [input |-> form, phase |-> "signing", watched |-> FALSE,
                    reports |-> << >>, seen |-> 0])
  /\ unsub' = 0
  /\ UNCHANGED <<form, inFlight, rows, forks>>

(* signAndSend resolves with the first report of the node.                 *)
Sign(i) ==
  /\ txs[i].phase = "signing"
  /\ txs' = [txs EXCEPT ![i] = Reported([@ EXCEPT !.watched = TRUE], "pool", "Ready")]
  /\ unsub' = i
  /\ UNCHANGED <<form, inFlight, rows, forks>>

(* The user or the node refuses: txErrHandler returns nothing, and nothing *)
(* is what setUnsub stores, whatever it held.                              *)
Refuse(i) ==
  /\ txs[i].phase = "signing"
  /\ txs' = [txs EXCEPT ![i].phase = "rejected"]
  /\ unsub' = 0
  /\ UNCHANGED <<form, inFlight, rows, forks>>
-----------------------------------------------------------------------------
NextReport(i) == txs[i].reports[txs[i].seen + 1]

(* Mistake: dispatchError is not looked at.                                *)
CallsForPost_AnyOutcome(i) == NextReport(i) \in {"Applied", "Failed"}

(* Mistake: only the first call of the callback is looked at.              *)
CallsForPost_First(i) == NextReport(i) = "Applied" /\ txs[i].seen = 0

CallsForPost(i) == NextReport(i) = "Applied"

(* Mistake: postData is built when it is sent.                             *)
PostOf_Form(i) == [tx |-> i, call |-> txs[i].seen + 1, data |-> form]

(* postData is the one onClick built.                                      *)
PostOf(i) == [tx |-> i, call |-> txs[i].seen + 1, data |-> txs[i].input]

(* The callback of signAndSend: sendData is not awaited, and finishEvent   *)
(* clears the form whatever was typed since.                               *)
Callback(i) ==
  /\ txs[i].seen < Len(txs[i].reports)
  /\ txs' = [txs EXCEPT ![i].seen = @ + 1]
  /\ \/ /\ CallsForPost(i)
        /\ inFlight' = inFlight \cup {PostOf(i)}
        /\ form' = Blank
     \/ /\ ~CallsForPost(i)
        /\ UNCHANGED <<inFlight, form>>
  /\ UNCHANGED <<unsub, rows, forks>>

(* sendData: lar saves the post, or it is lost on the way or refused.      *)
(* Either way nobody tries again.                                          *)
Save(p) ==
  /\ inFlight' = inFlight \ {p}
  /\ rows' = rows \cup {p}
  /\ UNCHANGED <<form, txs, unsub, forks>>

Lose(p) ==
  /\ inFlight' = inFlight \ {p}
  /\ UNCHANGED <<form, txs, unsub, rows, forks>>

(* The page is loaded anew: nothing of the hook survives but what the node *)
(* and lar have.                                                           *)
Reload ==
  /\ txs # << >>
  /\ form' = Blank
  /\ txs' = [i \in Ids |->
               [txs[i] EXCEPT !.watched = FALSE,
                              !.reports = SubSeq(@, 1, txs[i].seen),
                              !.phase = IF @ = "signing" THEN "rejected" ELSE @]]
  /\ unsub' = 0
  /\ UNCHANGED <<inFlight, rows, forks>>
-----------------------------------------------------------------------------
Chain(i) == Include(i) \/ Retract(i) \/ Finalize(i) \/ Drop(i)

Next ==
  \/ \E input \in Inputs : Edit(input)
  \/ Submit
  \/ Reload
  \/ \E i \in Ids : Chain(i) \/ Sign(i) \/ Refuse(i) \/ Callback(i)
  \/ \E p \in inFlight : Save(p) \/ Lose(p)

(* The node goes on producing and finalizing blocks, and the browser runs  *)
(* the timers it has set.  Nobody has to submit, sign or reload, and lar   *)
(* need not answer.                                                        *)
Fairness ==
  \A i \in 1 .. MaxSubmissions :
    /\ WF_vars(i \in Ids /\ Include(i))
    /\ WF_vars(i \in Ids /\ Finalize(i))
    /\ WF_vars(i \in Ids /\ Callback(i))

Spec == Init /\ [][Next]_vars

FairSpec == Spec /\ Fairness
-----------------------------------------------------------------------------
SubmissionOK(tx) ==
  /\ tx \in Submission
  /\ tx.seen <= Len(tx.reports)
  /\ tx.phase = "signing" => Len(tx.reports) = 0

TypeOK ==
  /\ form \in Inputs \cup {Blank}
  /\ txs \in Seq(Submission) /\ Len(txs) <= MaxSubmissions
  /\ \A i \in Ids : SubmissionOK(txs[i])
  /\ unsub \in 0 .. Len(txs)
  /\ inFlight \subseteq Post
  /\ rows \subseteq Post
  /\ forks \in 0 .. MaxForks

(* sendData and the callback of signedTx: whatever is on its way to the    *)
(* database or in it was sent because the node had reported that very      *)
(* submission in a block without an error, and once for each such report,  *)
(* and says what was submitted.  Edits of the form while the call waits,   *)
(* later submissions and forks make no other post.                         *)
PostFollowsInclusion(p) ==
  /\ p.tx \in Ids
  /\ p.call \in 1 .. txs[p.tx].seen
  /\ txs[p.tx].reports[p.call] = "Applied"
  /\ p.data = txs[p.tx].input

PostsFollowInclusion == \A p \in inFlight \cup rows : PostFollowsInclusion(p)

Sent(i) == \E p \in inFlight \cup rows : p.tx = i

(* The hook loses track of no submission by itself.  One that the node has *)
(* is posted in the end, unless the call fails or is dropped, or a later   *)
(* submission of the same form or a reload ended its subscription.         *)
SubmissionsArePosted ==
  \A i \in 1 .. MaxSubmissions :
    (i \in Ids /\ txs[i].phase = "pool" /\ txs[i].watched)
      ~> /\ i \in Ids
         /\ \/ Sent(i)
            \/ txs[i].phase \in {"dropped", "finalizedFailed"}
            \/ ~txs[i].watched
=============================================================================
