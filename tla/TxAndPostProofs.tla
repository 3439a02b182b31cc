-------------------------- MODULE TxAndPostProofs ---------------------------
(***************************************************************************)
(* Theorems about TxAndPost, for any number of submissions, forks and      *)
(* forms.                                                                  *)
(***************************************************************************)
EXTENDS TxAndPost, SequenceTheorems, TLAPS

-----------------------------------------------------------------------------
(* Every step that changes one submission in place keeps their number.     *)
LEMMA OneChanged ==
  ASSUME TypeOK, NEW i \in Ids, NEW tx, SubmissionOK(tx), txs' = [txs EXCEPT ![i] = tx]
  PROVE  /\ txs' \in Seq(Submission)
         /\ Len(txs') = Len(txs)
         /\ Ids' = Ids
         /\ txs'[i] = tx
         /\ \A j \in Ids \ {i} : txs'[j] = txs[j]
         /\ \A j \in Ids : SubmissionOK(txs'[j])
<1>1. txs \in Seq(Submission) /\ \A j \in Ids : SubmissionOK(txs[j])
  BY DEF TypeOK
<1>2. tx \in Submission
  BY DEF SubmissionOK
<1>3. txs' \in Seq(Submission) /\ Len(txs') = Len(txs)
  BY <1>1, <1>2, ExceptSeq DEF Ids
<1>4. Ids' = Ids
  BY <1>1 DEF Ids
<1>5. txs'[i] = tx /\ \A j \in Ids \ {i} : txs'[j] = txs[j]
  BY <1>1 DEF Ids
<1> QED
  BY <1>1, <1>3, <1>4, <1>5

(* What has been seen of a submission stays, with what it submitted.       *)
Keeps(tx, old) ==
  /\ tx.input = old.input
  /\ old.seen <= tx.seen
  /\ \A n \in 1 .. old.seen : tx.reports[n] = old.reports[n]

LEMMA KeepsItself ==
  ASSUME NEW tx, SubmissionOK(tx)
  PROVE  Keeps(tx, tx)
BY DEF Keeps, SubmissionOK, Submission

LEMMA PostKept ==
  ASSUME TypeOK, NEW p, PostFollowsInclusion(p),
         \A i \in Ids : i \in Ids' /\ SubmissionOK(txs'[i]) /\ Keeps(txs'[i], txs[i])
  PROVE  PostFollowsInclusion(p)'
<1>1. /\ p.tx \in Ids
      /\ p.call \in 1 .. txs[p.tx].seen
      /\ txs[p.tx].reports[p.call] = "Applied"
      /\ p.data = txs[p.tx].input
  BY DEF PostFollowsInclusion
<1>2. txs[p.tx].seen \in Nat /\ txs'[p.tx].seen \in Nat
  BY <1>1 DEF TypeOK, SubmissionOK, Submission
<1>3. Keeps(txs'[p.tx], txs[p.tx]) /\ p.tx \in Ids'
  BY <1>1
<1> QED
  BY <1>1, <1>2, <1>3 DEF Keeps, PostFollowsInclusion

LEMMA PostsKept ==
  ASSUME TypeOK, PostsFollowInclusion,
         \A i \in Ids : i \in Ids' /\ SubmissionOK(txs'[i]) /\ Keeps(txs'[i], txs[i]),
         inFlight' \cup rows' \subseteq inFlight \cup rows
  PROVE  PostsFollowInclusion'
<1>1. \A p \in inFlight \cup rows : PostFollowsInclusion(p)'
  BY PostKept DEF PostsFollowInclusion
<1> QED
  BY <1>1 DEF PostsFollowInclusion

LEMMA ReportedKeeps ==
  ASSUME NEW tx, SubmissionOK(tx), NEW phase \in Phase \ {"signing"}, NEW status \in Status
  PROVE  SubmissionOK(Reported(tx, phase, status)) /\ Keeps(Reported(tx, phase, status), tx)
<1> DEFINE new == Reported(tx, phase, status)
<1>1. tx.reports \in Seq(Status) /\ tx.seen \in Nat /\ tx.seen <= Len(tx.reports)
  BY DEF SubmissionOK, Submission
<1>2. CASE tx.watched
  <2>1. new = [tx EXCEPT !.phase = phase, !.reports = Append(tx.reports, status)]
    BY <1>2 DEF Reported
  <2>2. /\ Append(tx.reports, status) \in Seq(Status)
        /\ Len(Append(tx.reports, status)) = Len(tx.reports) + 1
        /\ \A n \in 1 .. Len(tx.reports) : Append(tx.reports, status)[n] = tx.reports[n]
    BY <1>1, AppendProperties
  <2>3. new \in Submission /\ new.reports = Append(tx.reports, status)
                            /\ new.seen = tx.seen /\ new.input = tx.input
    BY <2>1, <2>2 DEF SubmissionOK, Submission
  <2>4. new.phase # "signing"
    BY <2>1 DEF SubmissionOK, Submission
  <2> QED
    BY <1>1, <2>2, <2>3, <2>4 DEF SubmissionOK, Keeps
<1>3. CASE ~tx.watched
  <2>1. new = [tx EXCEPT !.phase = phase, !.reports = tx.reports]
    BY <1>3 DEF Reported
  <2>2. new \in Submission /\ new.reports = tx.reports
                            /\ new.seen = tx.seen /\ new.input = tx.input
    BY <2>1 DEF SubmissionOK, Submission
  <2>3. new.phase # "signing"
    BY <2>1 DEF SubmissionOK, Submission
  <2> QED
    BY <1>1, <2>2, <2>3 DEF SubmissionOK, Keeps
<1> QED
  BY <1>2, <1>3
-----------------------------------------------------------------------------
IInv == TypeOK /\ PostsFollowInclusion

(* A step that changes one submission and sends no post.                   *)
LEMMA OneKept ==
  ASSUME IInv, NEW i \in Ids, NEW tx, SubmissionOK(tx), Keeps(tx, txs[i]),
         txs' = [txs EXCEPT ![i] = tx],
         form' \in Inputs \cup {Blank}, unsub' \in 0 .. Len(txs), forks' \in 0 .. MaxForks,
         inFlight' = inFlight, rows' = rows
  PROVE  IInv'
<1>1. /\ txs' \in Seq(Submission)
      /\ Len(txs') = Len(txs)
      /\ Ids' = Ids
      /\ txs'[i] = tx
      /\ \A j \in Ids \ {i} : txs'[j] = txs[j]
      /\ \A j \in Ids : SubmissionOK(txs'[j])
  BY OneChanged DEF IInv
<1>2. \A j \in Ids : SubmissionOK(txs[j]) /\ Keeps(txs[j], txs[j])
  BY KeepsItself DEF IInv, TypeOK
<1>3. TypeOK'
  BY <1>1 DEF IInv, TypeOK, SubmissionOK
<1>4. PostsFollowInclusion'
  BY <1>1, <1>2, PostsKept DEF IInv
<1> QED
  BY <1>3, <1>4 DEF IInv

LEMMA ChainKeeps ==
  ASSUME IInv, NEW i \in Ids, Chain(i)
  PROVE  IInv'
<1>1. form \in Inputs \cup {Blank} /\ unsub \in 0 .. Len(txs)
      /\ forks \in 0 .. MaxForks /\ SubmissionOK(txs[i])
  BY DEF IInv, TypeOK
<1>2. /\ \E to \in Phase \ {"signing"}, status \in Status :
           txs' = [txs EXCEPT ![i] = Reported(txs[i], to, status)]
      /\ UNCHANGED <<form, unsub, inFlight, rows>>
  BY DEF Chain, Include, Retract, Finalize, Drop, Moves, Phase, Status
<1>3. forks' \in 0 .. MaxForks
  BY <1>1, TxAssumption DEF Chain, Include, Retract, Finalize, Drop
<1>4. PICK to \in Phase \ {"signing"}, status \in Status :
        txs' = [txs EXCEPT ![i] = Reported(txs[i], to, status)]
  BY <1>2
<1>5. SubmissionOK(Reported(txs[i], to, status)) /\ Keeps(Reported(txs[i], to, status), txs[i])
  BY <1>1, ReportedKeeps
<1> QED
  BY <1>1, <1>2, <1>3, <1>4, <1>5, OneKept

LEMMA SignKeeps ==
  ASSUME IInv, NEW i \in Ids, Sign(i)
  PROVE  IInv'
<1> DEFINE tx == [txs[i] EXCEPT !.watched = TRUE]
<1>1. txs \in Seq(Submission) /\ SubmissionOK(txs[i])
  BY DEF IInv, TypeOK
<1>2. txs' = [txs EXCEPT ![i] = Reported(tx, "pool", "Ready")]
  BY DEF Sign
<1>3. SubmissionOK(tx) /\ Keeps(tx, txs[i])
  BY <1>1, KeepsItself DEF SubmissionOK, Submission, Keeps
<1> HIDE DEF tx
<1>4. SubmissionOK(Reported(tx, "pool", "Ready")) /\ Keeps(Reported(tx, "pool", "Ready"), tx)
  BY <1>3, ReportedKeeps DEF Phase, Status
<1>5. Keeps(Reported(tx, "pool", "Ready"), txs[i])
  BY <1>1, <1>3, <1>4 DEF Keeps, SubmissionOK, Submission
<1>6. unsub' \in 0 .. Len(txs)
  BY <1>1 DEF Sign, Ids
<1> QED
  BY <1>2, <1>4, <1>5, <1>6, OneKept DEF IInv, TypeOK, Sign

LEMMA RefuseKeeps ==
  ASSUME IInv, NEW i \in Ids, Refuse(i)
  PROVE  IInv'
<1> DEFINE tx == [txs[i] EXCEPT !.phase = "rejected"]
<1>1. SubmissionOK(txs[i])
  BY DEF IInv, TypeOK
<1>2. txs' = [txs EXCEPT ![i] = tx]
  BY DEF Refuse
<1>3. tx \in Submission /\ tx.reports = txs[i].reports /\ tx.seen = txs[i].seen
      /\ tx.input = txs[i].input /\ tx.phase = "rejected"
  BY <1>1 DEF SubmissionOK, Submission, Phase
<1> HIDE DEF tx
<1>4. SubmissionOK(tx) /\ Keeps(tx, txs[i])
  BY <1>1, <1>3 DEF SubmissionOK, Keeps, Submission
<1>5. unsub' \in 0 .. Len(txs)
  BY DEF IInv, TypeOK, Refuse
<1> QED
  BY <1>2, <1>4, <1>5, OneKept DEF IInv, TypeOK, Refuse

LEMMA SubmitKeeps ==
  ASSUME IInv, Submit
  PROVE  IInv'
<1> DEFINE tx == [input |-> form, phase |-> "signing", watched |-> FALSE,
                  reports |-> << >>, seen |-> 0]
           old == Unsubscribed(unsub)
<1>1. txs \in Seq(Submission) /\ \A j \in Ids : SubmissionOK(txs[j])
  BY DEF IInv, TypeOK
<1>2. SubmissionOK(tx)
  BY DEF Submit, SubmissionOK, Submission, Phase
<1>3. \A j \in Ids : old[j] = [txs[j] EXCEPT !.watched = FALSE] \/ old[j] = txs[j]
  BY DEF Unsubscribed
<1>4. \A j \in Ids : SubmissionOK(old[j]) /\ Keeps(old[j], txs[j])
  <2> TAKE j \in Ids
  <2>1. SubmissionOK(txs[j]) /\ Keeps(txs[j], txs[j])
    BY <1>1, KeepsItself
  <2>2. CASE old[j] = txs[j]
    BY <2>1, <2>2
  <2>3. CASE old[j] = [txs[j] EXCEPT !.watched = FALSE]
    <3>1. old[j] \in Submission /\ old[j].reports = txs[j].reports /\ old[j].seen = txs[j].seen
          /\ old[j].input = txs[j].input /\ old[j].phase = txs[j].phase
      BY <2>1, <2>3 DEF SubmissionOK, Submission
    <3> QED
      BY <2>1, <3>1 DEF SubmissionOK, Keeps
  <2> QED
    BY <1>3, <2>2, <2>3
<1>5. old \in Seq(Submission) /\ Len(old) = Len(txs)
  <2>1. \A j \in 1 .. Len(txs) : old[j] \in Submission
    BY <1>1, <1>4 DEF SubmissionOK, Ids
  <2>2. old = [j \in 1 .. Len(txs) |-> old[j]]
    BY <1>1 DEF Unsubscribed, Ids
  <2>3. Len(txs) \in Nat
    BY <1>1
  <2> HIDE DEF old
  <2> QED
    BY <2>1, <2>2, <2>3, IsASeq
<1>6. txs' = Append(old, tx) /\ Len(txs) < MaxSubmissions /\ UNCHANGED <<inFlight, rows>>
  BY DEF Submit
<1>7. tx \in Submission
  BY <1>2 DEF SubmissionOK
<1> HIDE DEF tx, old
<1>8. /\ txs' \in Seq(Submission)
      /\ Len(txs') = Len(txs) + 1
      /\ \A j \in 1 .. Len(txs) : txs'[j] = old[j]
      /\ txs'[Len(txs) + 1] = tx
  BY <1>5, <1>6, <1>7, AppendProperties
<1>9. Ids = 1 .. Len(txs) /\ Ids' = 1 .. (Len(txs) + 1) /\ Len(txs) \in Nat
  BY <1>1, <1>8 DEF Ids
<1>10. \A j \in Ids' : SubmissionOK(txs'[j])
  BY <1>2, <1>4, <1>8, <1>9
<1>11. TypeOK'
  <2>1. form' \in Inputs \cup {Blank} /\ unsub' = 0 /\ forks' \in 0 .. MaxForks
        /\ inFlight' \subseteq Post /\ rows' \subseteq Post
    BY DEF IInv, TypeOK, Submit
  <2>2. Len(txs') <= MaxSubmissions /\ 0 \in 0 .. Len(txs')
    BY <1>6, <1>8, <1>9, TxAssumption
  <2> QED
    BY <1>8, <1>10, <2>1, <2>2 DEF TypeOK, SubmissionOK
<1>12. PostsFollowInclusion'
  <2>1. \A j \in Ids : j \in Ids' /\ SubmissionOK(txs'[j]) /\ Keeps(txs'[j], txs[j])
    BY <1>4, <1>8, <1>9
  <2> QED
    BY <1>6, <2>1, PostsKept DEF IInv
<1> QED
  BY <1>11, <1>12 DEF IInv

LEMMA ReloadKeeps ==
  ASSUME IInv, Reload
  PROVE  IInv'
<1>1. txs \in Seq(Submission) /\ \A j \in Ids : SubmissionOK(txs[j])
  BY DEF IInv, TypeOK
<1> DEFINE tx(j) == [txs[j] EXCEPT !.watched = FALSE,
                                   !.reports = SubSeq(@, 1, txs[j].seen),
                                   !.phase = IF @ = "signing" THEN "rejected" ELSE @]
<1>2. txs' = [j \in Ids |-> tx(j)]
  BY DEF Reload
<1>3. ASSUME NEW j \in Ids
      PROVE  SubmissionOK(tx(j)) /\ Keeps(tx(j), txs[j])
  <2> DEFINE some == SubSeq(txs[j].reports, 1, txs[j].seen)
             phase == IF txs[j].phase = "signing" THEN "rejected" ELSE txs[j].phase
  <2>1. /\ txs[j] \in Submission /\ txs[j].reports \in Seq(Status)
        /\ txs[j].seen \in Nat /\ txs[j].seen <= Len(txs[j].reports)
        /\ txs[j].phase \in Phase
    BY <1>1 DEF SubmissionOK, Submission
  <2>2. tx(j) = [txs[j] EXCEPT !.watched = FALSE, !.reports = some, !.phase = phase]
    OBVIOUS
  <2>4. /\ some \in Seq(Status) /\ Len(some) = txs[j].seen
        /\ \A n \in 1 .. txs[j].seen : some[n] = txs[j].reports[n]
    <3>1. Len(txs[j].reports) \in Nat
      BY <2>1
    <3>2. \A n \in 1 .. txs[j].seen : txs[j].reports[n] \in Status
      BY <2>1, <3>1, ElementOfSeq
    <3>3. some = [n \in 1 .. txs[j].seen |-> txs[j].reports[n]]
      BY <2>1
    <3> HIDE DEF some
    <3> QED
      BY <2>1, <3>2, <3>3, IsASeq
  <2>5. phase \in Phase /\ phase # "signing"
    BY <2>1 DEF Phase
  <2> HIDE DEF some, phase
  <2>6. /\ tx(j) \in Submission /\ tx(j).reports = some /\ tx(j).seen = txs[j].seen
        /\ tx(j).input = txs[j].input /\ tx(j).phase # "signing"
    <3> HIDE DEF tx
    <3> QED
      BY <2>1, <2>2, <2>4, <2>5 DEF Submission
  <2> HIDE DEF tx
  <2> QED
    BY <2>1, <2>4, <2>6 DEF SubmissionOK, Keeps
<1> HIDE DEF tx
<1>4. Ids = 1 .. Len(txs) /\ Len(txs) \in Nat
  BY <1>1 DEF Ids
<1>5. txs' \in Seq(Submission) /\ Len(txs') = Len(txs) /\ Ids' = Ids
  <2>1. \A j \in 1 .. Len(txs) : tx(j) \in Submission
    BY <1>3, <1>4 DEF SubmissionOK
  <2>2. txs' \in Seq(Submission) /\ Len(txs') = Len(txs)
    BY <1>2, <1>4, <2>1, IsASeq
  <2> QED
    BY <1>2, <2>2 DEF Ids
<1>6. \A j \in Ids : SubmissionOK(txs'[j]) /\ Keeps(txs'[j], txs[j])
  BY <1>2, <1>3
<1>7. TypeOK'
  <2>1. form' \in Inputs \cup {Blank} /\ unsub' = 0 /\ forks' \in 0 .. MaxForks
        /\ inFlight' \subseteq Post /\ rows' \subseteq Post /\ Len(txs) <= MaxSubmissions
    BY DEF IInv, TypeOK, Reload
  <2>2. 0 \in 0 .. Len(txs')
    BY <1>4, <1>5
  <2> QED
    BY <1>5, <1>6, <2>1, <2>2 DEF TypeOK, SubmissionOK
<1>8. PostsFollowInclusion'
  BY <1>5, <1>6, PostsKept DEF IInv, Reload
<1> QED
  BY <1>7, <1>8 DEF IInv

LEMMA CallbackKeeps ==
  ASSUME IInv, NEW i \in Ids, Callback(i)
  PROVE  IInv'
<1> DEFINE tx == [txs[i] EXCEPT !.seen = txs[i].seen + 1]
<1>1. txs \in Seq(Submission) /\ SubmissionOK(txs[i]) /\ txs[i].seen < Len(txs[i].reports)
  BY DEF IInv, TypeOK, Callback
<1>2. txs' = [txs EXCEPT ![i] = tx]
  BY DEF Callback
<1>3. txs[i].seen \in Nat /\ Len(txs[i].reports) \in Nat
  BY <1>1 DEF SubmissionOK, Submission
<1>4. /\ tx \in Submission /\ tx.reports = txs[i].reports /\ tx.seen = txs[i].seen + 1
      /\ tx.input = txs[i].input /\ tx.phase = txs[i].phase
  BY <1>1, <1>3 DEF SubmissionOK, Submission
<1> HIDE DEF tx
<1>5. txs[i].phase # "signing"
  BY <1>1, <1>3 DEF SubmissionOK
<1>6. SubmissionOK(tx) /\ Keeps(tx, txs[i])
  BY <1>1, <1>3, <1>4, <1>5 DEF SubmissionOK, Keeps
<1>7. \A j \in Ids : SubmissionOK(txs[j]) /\ Keeps(txs[j], txs[j])
  BY KeepsItself DEF IInv, TypeOK
<1>8. /\ txs' \in Seq(Submission)
      /\ Len(txs') = Len(txs)
      /\ Ids' = Ids
      /\ txs'[i] = tx
      /\ \A j \in Ids : SubmissionOK(txs'[j]) /\ Keeps(txs'[j], txs[j])
  BY <1>2, <1>6, <1>7, OneChanged DEF IInv
<1>9. ASSUME CallsForPost(i), NEW p, p = PostOf(i)
      PROVE  p \in Post /\ PostFollowsInclusion(p)'
  <2>1. i \in 1 .. MaxSubmissions
    BY <1>1, TxAssumption DEF Ids, IInv, TypeOK
  <2>2. txs[i].input \in Inputs
    BY <1>1 DEF SubmissionOK, Submission
  <2>3. p = [tx |-> i, call |-> txs[i].seen + 1, data |-> txs[i].input]
    BY <1>9 DEF PostOf
  <2>4. p \in Post
    BY <1>3, <2>1, <2>2, <2>3 DEF Post
  <2>5. /\ p.tx = i /\ p.call \in 1 .. tx.seen
        /\ tx.reports[p.call] = "Applied" /\ p.data = tx.input
    BY <1>3, <1>4, <1>9, <2>3 DEF CallsForPost, NextReport
  <2>6. PostFollowsInclusion(p)'
    BY <1>8, <2>5 DEF PostFollowsInclusion
  <2> QED
    BY <2>4, <2>6
<1>10. TypeOK'
  <2>1. inFlight' \subseteq Post /\ form' \in Inputs \cup {Blank}
    BY <1>9 DEF IInv, TypeOK, Callback
  <2>2. unsub' \in 0 .. Len(txs) /\ rows' \subseteq Post /\ forks' \in 0 .. MaxForks
        /\ Len(txs) <= MaxSubmissions
    BY DEF IInv, TypeOK, Callback
  <2> QED
    BY <1>8, <2>1, <2>2 DEF TypeOK
<1>11. PostsFollowInclusion'
  <2>1. \A p \in inFlight \cup rows : PostFollowsInclusion(p)'
    BY <1>8, PostKept DEF IInv, PostsFollowInclusion
  <2>2. \/ inFlight' \cup rows' \subseteq inFlight \cup rows
        \/ CallsForPost(i) /\ inFlight' \cup rows' = inFlight \cup rows \cup {PostOf(i)}
    BY DEF Callback
  <2>3. CallsForPost(i) => \A p \in {PostOf(i)} : PostFollowsInclusion(p)'
    BY <1>9
  <2> QED
    BY <2>1, <2>2, <2>3 DEF PostsFollowInclusion
<1> QED
  BY <1>10, <1>11 DEF IInv

LEMMA InductiveStep ==
  IInv /\ [Next]_vars => IInv'
<1> SUFFICES ASSUME IInv, [Next]_vars
             PROVE  IInv'
  OBVIOUS
<1>1. ASSUME NEW input \in Inputs, Edit(input)
      PROVE  IInv'
  BY <1>1 DEF IInv, TypeOK, PostsFollowInclusion, PostFollowsInclusion, Edit, Ids
<1>2. ASSUME NEW p \in inFlight, Save(p) \/ Lose(p)
      PROVE  IInv'
  BY <1>2 DEF IInv, TypeOK, PostsFollowInclusion, PostFollowsInclusion, Save, Lose, Ids
<1>3. CASE UNCHANGED vars
  BY <1>3 DEF IInv, TypeOK, PostsFollowInclusion, PostFollowsInclusion, vars, Ids
<1> QED
  BY <1>1, <1>2, <1>3, SubmitKeeps, ReloadKeeps, ChainKeeps, SignKeeps, RefuseKeeps,
     CallbackKeeps DEF Next

LEMMA InvariantHolds == Spec => []IInv
<1>1. Init => IInv
  BY TxAssumption DEF Init, IInv, TypeOK, PostsFollowInclusion, Ids
<1> QED
  BY <1>1, InductiveStep, PTL DEF Spec

(* The types of the hook's state, and of what is sent to the database.     *)
THEOREM TypeCorrect == Spec => []TypeOK
<1>1. IInv => TypeOK
  BY DEF IInv
<1> QED
  BY <1>1, InvariantHolds, PTL

(* signedTx and sendData: every post was made of what its submission       *)
(* carried, once for each report that it is in a block without error, with *)
(* any number of submissions, forks, edits and reloads in between.         *)
THEOREM PostsCorrect == Spec => []PostsFollowInclusion
<1>1. IInv => PostsFollowInclusion
  BY DEF IInv
<1> QED
  BY <1>1, InvariantHolds, PTL
=============================================================================
