------------------------- MODULE AuditorsPageProofs -------------------------
(***************************************************************************)
(* Theorems about AuditorsPage, for any wallet, any number of switches and *)
(* of changes of the register.                                             *)
(***************************************************************************)
EXTENDS AuditorsPage, SequenceTheorems, TLAPS

(* What the page will show when all that is due has been told.             *)
Latest == IF callbacks = << >> THEN onChainDetails ELSE callbacks[Len(callbacks)]

(* The subscription is the current account's, and what is due last is what *)
(* the register says.                                                      *)
SubIsCurrent == sub.of = currentAccount /\ sub \in [of : Accounts \cup {None}, there : BOOLEAN]

LatestAgrees ==
  (sub.there /\ leaving \cup leaked = {})
    => Latest = [of |-> sub.of, standing |-> register[sub.of]]

IInv ==
  /\ callbacks \in Seq(Details)
  /\ register \in [Accounts -> Standing]
  /\ sub.there => sub.of # None
  /\ SubIsCurrent
  /\ LatestAgrees
-----------------------------------------------------------------------------
LEMMA ChangedType ==
  ASSUME TypeOK, NEW a \in Accounts, NEW s \in Standing, Changed(a, s)
  PROVE  callbacks' \in Seq(Details) /\ register' \in [Accounts -> Standing]
<1>1. [of |-> a, standing |-> s] \in Details
  BY DEF Details
<1> QED
  BY <1>1 DEF TypeOK, Changed

LEMMA TypeHolds == TypeOK /\ [Next]_vars => TypeOK'
<1> SUFFICES ASSUME TypeOK, [Next]_vars
             PROVE  TypeOK'
  OBVIOUS
<1> USE PageAssumption
<1>1. ASSUME NEW a \in Accounts, SwitchAccount(a)
      PROVE  TypeOK'
  <2>1. switches' \in 0 .. MaxSwitches
    BY <1>1 DEF TypeOK, SwitchAccount
  <2>2. NotEnded \subseteq Accounts
    BY DEF TypeOK, NotEnded
  <2>3. sub' \in [of : Accounts \cup {None}, there : BOOLEAN]
    BY <1>1 DEF SwitchAccount, Resubscribed
  <2> QED
    BY <1>1, <2>1, <2>2, <2>3 DEF TypeOK, SwitchAccount, ViewOf, chain
<1>2. ASSUME NEW a \in Accounts, OthersChange(a)
      PROVE  TypeOK'
  <2>1. PICK s \in Standing : Changed(a, s)
    BY <1>2 DEF OthersChange
  <2>2. callbacks' \in Seq(Details) /\ register' \in [Accounts -> Standing]
    BY <2>1, ChangedType
  <2>3. changes' \in 0 .. MaxChanges
    BY <1>2 DEF TypeOK, OthersChange
  <2> QED
    BY <1>2, <2>2, <2>3 DEF TypeOK, OthersChange, ViewOf, forms
<1>3. CASE Subscribed
  <2>1. [of |-> sub.of, standing |-> register[sub.of]] \in Details
    BY <1>3 DEF TypeOK, Subscribed, Details
  <2>2. callbacks' \in Seq(Details)
    BY <1>3, <2>1 DEF TypeOK, Subscribed, Told
  <2> QED
    BY <1>3, <2>2 DEF TypeOK, Subscribed, ViewOf, chain, forms
<1>4. CASE Deliver
  <2>1. Head(callbacks) \in Details /\ Tail(callbacks) \in Seq(Details)
    BY <1>4, HeadTailProperties DEF TypeOK, Deliver
  <2>2. reads' \subseteq Accounts \cup {None}
    BY <1>4 DEF TypeOK, Deliver
  <2>3. /\ currentAccount # Closed /\ currentAccount \in Accounts \cup {None, Closed}
        /\ onChainDetails' = Head(callbacks) /\ FormsFor(Head(callbacks))
        /\ signup \in Accounts \cup {None, Closed} /\ editing \in Accounts \cup {None, Closed}
    BY <1>4 DEF TypeOK, Deliver, None, Closed
  <2>4. ViewOf(onChainDetails') = ViewOf(Head(callbacks))
    BY <2>3
  <2>5. CASE ViewOf(Head(callbacks)) = "signup"
    <3>1. signup' # Closed /\ signup' \in Accounts \cup {None, Closed}
          /\ editing' \in Accounts \cup {None, Closed}
      BY <2>3, <2>5 DEF FormsFor
    <3> QED
      BY <1>4, <2>1, <2>2, <2>4, <2>5, <3>1 DEF TypeOK, Deliver, chain
  <2>6. CASE ViewOf(Head(callbacks)) # "signup"
    <3>1. signup' = Closed /\ editing' = editing
      BY <2>3, <2>6 DEF FormsFor
    <3> QED
      BY <1>4, <2>1, <2>2, <2>3, <2>4, <2>6, <3>1 DEF TypeOK, Deliver, chain
  <2> QED
    BY <2>5, <2>6
<1>5. CASE OpenEditing \/ CloseEditing
  BY <1>5 DEF TypeOK, OpenEditing, CloseEditing, Own, ViewOf, chain, view
<1>6. ASSUME NEW a \in leaving, Leaks(a)
      PROVE  TypeOK'
  <2>1. [of |-> a, standing |-> register[a]] \in Details
    BY DEF TypeOK, Details
  <2>2. callbacks' \in Seq(Details)
    BY <1>6, <2>1 DEF TypeOK, Leaks, Told
  <2> QED
    BY <1>6, <2>2 DEF TypeOK, Leaks, ViewOf, chain, forms
<1>7. ASSUME NEW a \in reads, SetAuditorData(a) \/ ReadLost(a)
      PROVE  TypeOK'
  BY <1>7 DEF TypeOK, SetAuditorData, ReadLost, ViewOf, chain, view, forms
<1>8. ASSUME NEW m \in {"signUp", "updateProfile", "cancelAccount"},
             NEW r \in Accounts \cup {None}, Submit(m, r)
      PROVE  TypeOK'
  <2>1. [method |-> m, signer |-> currentAccount, row |-> r, state |-> "sent"] \in Tx
    BY <1>8 DEF TypeOK, Submit, Tx
  <2>2. txs' \in Seq(Tx) /\ Len(txs') = Len(txs) + 1 /\ Len(txs) < MaxTxs /\ Len(txs) \in Nat
    BY <1>8, <2>1, AppendProperties DEF TypeOK, Submit
  <2>3. Len(txs') <= MaxTxs
    BY <2>2
  <2> QED
    BY <1>8, <2>2, <2>3 DEF TypeOK, Submit, ViewOf, view, forms
<1>9. CASE SignUp
  BY <1>8, <1>9 DEF SignUp, MaySign, TypeOK
<1>10. CASE UpdateProfile
  BY <1>8, <1>10 DEF UpdateProfile, MaySign, TypeOK
<1>11. CASE CancelAccount
  BY <1>8, <1>11 DEF CancelAccount, TypeOK
<1>12. ASSUME NEW i \in DOMAIN txs, Included(i) \/ Refused(i)
       PROVE  TypeOK'
  <2>1. txs \in Seq(Tx) /\ txs[i] \in Tx /\ i \in 1 .. Len(txs)
    BY DEF TypeOK
  <2>2. [txs[i] EXCEPT !.state = "done"] \in Tx
    BY <2>1 DEF Tx
  <2>3. txs' = [txs EXCEPT ![i] = [txs[i] EXCEPT !.state = "done"]]
    BY <1>12 DEF Included, Refused
  <2>4. txs' \in Seq(Tx) /\ Len(txs') = Len(txs)
    BY <2>1, <2>2, <2>3, ExceptSeq
  <2>5. CASE Refused(i)
    BY <2>4, <2>5 DEF TypeOK, Refused, ViewOf, view, forms
  <2>6. CASE Included(i)
    <3>1. txs[i].signer \in Accounts /\ AfterCall(txs[i]) \in Standing
      BY <2>1 DEF Tx, AfterCall, TypeOK, Standing
    <3>2. Changed(txs[i].signer, AfterCall(txs[i]))
      BY <2>6 DEF Included
    <3>3. callbacks' \in Seq(Details) /\ register' \in [Accounts -> Standing]
      BY <3>1, <3>2, ChangedType
    <3> QED
      BY <2>4, <2>6, <3>3 DEF TypeOK, Included, ViewOf
  <2> QED
    BY <1>12, <2>5, <2>6
<1>13. CASE UNCHANGED vars
  BY <1>13 DEF TypeOK, vars, chain, view, forms, ViewOf
<1> QED
  BY <1>1, <1>2, <1>3, <1>4, <1>5, <1>6, <1>7, <1>9, <1>10, <1>11, <1>12, <1>13 DEF Next
-----------------------------------------------------------------------------
LEMMA AppendedIsLatest ==
  ASSUME callbacks \in Seq(Details), NEW d \in Details, callbacks' = Append(callbacks, d)
  PROVE  callbacks' \in Seq(Details) /\ Latest' = d
<1>1. /\ callbacks' \in Seq(Details) /\ Len(callbacks') = Len(callbacks) + 1
      /\ callbacks'[Len(callbacks) + 1] = d
  BY AppendProperties
<1>2. callbacks' # << >>
  BY <1>1, EmptySeq
<1> QED
  BY <1>1, <1>2 DEF Latest

LEMMA SwitchKeeps ==
  ASSUME IInv, NEW a \in Accounts, SwitchAccount(a)
  PROVE  IInv'
BY DEF IInv, SwitchAccount, Resubscribed, SubIsCurrent, LatestAgrees, chain

LEMMA SubscribedKeeps ==
  ASSUME IInv, Subscribed
  PROVE  IInv'
<1>1. sub' = [sub EXCEPT !.there = TRUE] /\ sub.of \in Accounts
  BY DEF IInv, Subscribed, SubIsCurrent
<1>2. sub'.of = sub.of /\ sub'.there /\ sub' \in [of : Accounts \cup {None}, there : BOOLEAN]
  BY <1>1 DEF IInv, SubIsCurrent
<1>3. [of |-> sub.of, standing |-> register[sub.of]] \in Details
  BY <1>1 DEF IInv, Details
<1>4. callbacks' \in Seq(Details) /\ Latest' = [of |-> sub.of, standing |-> register[sub.of]]
  BY <1>3, AppendedIsLatest DEF IInv, Subscribed, Told
<1>5. UNCHANGED <<register, currentAccount>>
  BY DEF Subscribed, chain
<1>6. sub.of # None
  BY DEF Subscribed
<1> QED
  BY <1>2, <1>4, <1>5, <1>6 DEF IInv, SubIsCurrent, LatestAgrees

LEMMA LeaksKeeps ==
  ASSUME IInv, NEW a \in leaving, Leaks(a), leaving \subseteq Accounts
  PROVE  IInv'
<1>1. [of |-> a, standing |-> register[a]] \in Details
  BY DEF IInv, Details
<1>2. callbacks' \in Seq(Details)
  BY <1>1, AppendedIsLatest DEF IInv, Leaks, Told
<1> QED
  BY <1>2 DEF IInv, Leaks, SubIsCurrent, LatestAgrees, chain

LEMMA DeliverKeeps ==
  ASSUME IInv, Deliver
  PROVE  IInv'
<1>1. callbacks \in Seq(Details) /\ callbacks # << >>
  BY DEF IInv, Deliver
<1>2. /\ callbacks' = Tail(callbacks) /\ onChainDetails' = Head(callbacks)
      /\ UNCHANGED <<register, sub, leaving, leaked, currentAccount>>
  BY DEF Deliver, chain
<1>3. /\ Tail(callbacks) \in Seq(Details)
      /\ Len(Tail(callbacks)) = Len(callbacks) - 1
      /\ \A n \in 1 .. Len(Tail(callbacks)) : Tail(callbacks)[n] = callbacks[n + 1]
      /\ Len(callbacks) \in Nat /\ Len(callbacks) >= 1
      /\ Head(callbacks) = callbacks[1]
  BY <1>1, HeadTailProperties, LenProperties, EmptySeq
<1>4. Latest' = Latest
  <2>1. CASE Tail(callbacks) = << >>
    <3>1. Len(callbacks) = 1
      BY <1>3, <2>1
    <3> QED
      BY <1>1, <1>2, <1>3, <2>1, <3>1 DEF Latest
  <2>2. CASE Tail(callbacks) # << >>
    <3>1. Len(Tail(callbacks)) # 0
      BY <1>3, <2>2, EmptySeq
    <3>2. Tail(callbacks)[Len(Tail(callbacks))] = callbacks[Len(callbacks)]
      BY <1>3, <3>1
    <3> QED
      BY <1>1, <1>2, <2>2, <3>2 DEF Latest
  <2> QED
    BY <2>1, <2>2
<1> QED
  BY <1>2, <1>3, <1>4 DEF IInv, SubIsCurrent, LatestAgrees

(* A change of the register is told last, if it is the current account's.  *)
LEMMA ChangeKeeps ==
  ASSUME IInv, NEW a \in Accounts, NEW s \in Standing, Changed(a, s),
         UNCHANGED <<sub, leaving, leaked, onChainDetails, currentAccount>>
  PROVE  IInv'
<1>1. register' = [register EXCEPT ![a] = s] /\ register' \in [Accounts -> Standing]
  BY DEF IInv, Changed
<1>2. [of |-> a, standing |-> s] \in Details
  BY DEF Details
<1>3. CASE Tells(a)
  <2>1. callbacks' \in Seq(Details) /\ Latest' = [of |-> a, standing |-> s]
    BY <1>2, <1>3, AppendedIsLatest DEF IInv, Changed
  <2>2. LatestAgrees'
    BY <1>1, <1>3, <2>1 DEF IInv, LatestAgrees, Tells
  <2> QED
    BY <1>1, <2>1, <2>2 DEF IInv, SubIsCurrent
<1>4. CASE ~Tells(a)
  <2>1. callbacks' = callbacks /\ Latest' = Latest
    BY <1>4 DEF Changed, Latest
  <2>2. sub.there => sub.of # a
    BY <1>4 DEF Tells
  <2>3. LatestAgrees'
    BY <1>1, <2>1, <2>2 DEF IInv, LatestAgrees, SubIsCurrent
  <2> QED
    BY <1>1, <2>1, <2>3 DEF IInv, SubIsCurrent
<1> QED
  BY <1>3, <1>4

LEMMA AgreementHolds == TypeOK /\ IInv /\ [Next]_vars => IInv'
<1> SUFFICES ASSUME TypeOK, IInv, [Next]_vars
             PROVE  IInv'
  OBVIOUS
<1>1. ASSUME NEW a \in Accounts, OthersChange(a)
      PROVE  IInv'
  <2>1. PICK s \in Standing : Changed(a, s)
    BY <1>1 DEF OthersChange
  <2> QED
    BY <1>1, <2>1, ChangeKeeps DEF OthersChange
<1>2. ASSUME NEW i \in DOMAIN txs, Included(i)
      PROVE  IInv'
  <2>1. txs[i] \in Tx
    BY DEF TypeOK
  <2>2. txs[i].signer \in Accounts /\ AfterCall(txs[i]) \in Standing
    BY <2>1 DEF Tx, AfterCall, TypeOK, Standing
  <2>3. Changed(txs[i].signer, AfterCall(txs[i]))
    BY <1>2 DEF Included
  <2> QED
    BY <1>2, <2>2, <2>3, ChangeKeeps DEF Included
<1>3. UNCHANGED <<register, currentAccount, view>> => IInv'
  BY DEF IInv, SubIsCurrent, LatestAgrees, Latest, view
<1>4. ASSUME NEW i \in DOMAIN txs, Refused(i)
      PROVE  IInv'
  BY <1>3, <1>4 DEF Refused
<1>5. ASSUME NEW a \in reads, SetAuditorData(a) \/ ReadLost(a)
      PROVE  IInv'
  BY <1>3, <1>5 DEF SetAuditorData, ReadLost, chain
<1>6. CASE OpenEditing \/ CloseEditing \/ SignUp \/ UpdateProfile \/ CancelAccount
  BY <1>3, <1>6 DEF OpenEditing, CloseEditing, SignUp, UpdateProfile, CancelAccount, Submit, chain
<1>7. CASE UNCHANGED vars
  BY <1>3, <1>7 DEF vars, chain
<1>8. leaving \subseteq Accounts
  BY DEF TypeOK
<1> QED
  BY <1>1, <1>2, <1>4, <1>5, <1>6, <1>7, <1>8, SwitchKeeps, SubscribedKeeps, LeaksKeeps,
     DeliverKeeps DEF Next

LEMMA InitHolds == Init => TypeOK /\ IInv
<1> SUFFICES ASSUME Init
             PROVE  TypeOK /\ IInv
  OBVIOUS
<1>1. 0 \in 0 .. MaxSwitches /\ 0 \in 0 .. MaxChanges /\ 0 <= MaxTxs
  BY PageAssumption
<1>2. callbacks \in Seq(Details) /\ txs \in Seq(Tx) /\ Len(txs) = 0
  BY DEF Init
<1>3. onChainDetails \in Details /\ ViewOf(onChainDetails) = "signup"
  BY DEF Init, Details, Standing, ViewOf
<1>4. sub.of = None /\ sub.there = FALSE /\ sub \in [of : Accounts \cup {None}, there : BOOLEAN]
  BY DEF Init
<1>5. signup = None /\ signup # Closed
  BY DEF Init, None, Closed
<1>6. TypeOK
  BY <1>1, <1>2, <1>3, <1>4, <1>5 DEF Init, TypeOK
<1>7. IInv
  BY <1>2, <1>4 DEF Init, IInv, SubIsCurrent, LatestAgrees
<1> QED
  BY <1>6, <1>7

(* The state of the page keeps its types, and of the two forms there can   *)
(* be only the one that fits what the page was told.                       *)
THEOREM TypeCorrect == Spec => []TypeOK
BY InitHolds, TypeHolds, PTL DEF Spec

(* The page agrees with the register whenever nothing is due, through any  *)
(* number of switches and changes, as long as it ended its subscriptions.  *)
THEOREM AgreementCorrect == Spec => []PageAgreesWithChain
<1>1. TypeOK /\ IInv => PageAgreesWithChain
  BY DEF IInv, SubIsCurrent, LatestAgrees, Latest, PageAgreesWithChain
<1> QED
  BY <1>1, InitHolds, TypeHolds, AgreementHolds, PTL DEF Spec

LEMMA SubmittedKeeps ==
  ASSUME TypeOK, ProfilesAreOwn, NEW m, NEW row, Submit(m, row),
         m # "cancelAccount" => row = currentAccount
  PROVE  ProfilesAreOwn'
<1> DEFINE tx == [method |-> m, signer |-> currentAccount, row |-> row, state |-> "sent"]
<1>1. txs \in Seq(Tx) /\ txs' = Append(txs, tx)
  BY DEF TypeOK, Submit
<1>2. tx.method # "cancelAccount" => tx.row = tx.signer
  OBVIOUS
<1> HIDE DEF tx
<1>3. /\ DOMAIN txs' = DOMAIN txs \cup {Len(txs) + 1}
      /\ \A i \in DOMAIN txs : txs'[i] = txs[i]
      /\ txs'[Len(txs) + 1] = tx
  BY <1>1
<1> QED
  BY <1>2, <1>3 DEF ProfilesAreOwn

(* A form posts a profile for the account that signs the call, whatever    *)
(* account it was opened with and however often that was switched.         *)
THEOREM ProfilesCorrect == Spec => []ProfilesAreOwn
<1>1. Init => ProfilesAreOwn
  BY DEF Init, ProfilesAreOwn
<1>2. TypeOK /\ ProfilesAreOwn /\ [Next]_vars => ProfilesAreOwn'
  <2> SUFFICES ASSUME TypeOK, ProfilesAreOwn, [Next]_vars PROVE ProfilesAreOwn'
    OBVIOUS
  <2>1. UNCHANGED txs => ProfilesAreOwn'
    BY DEF ProfilesAreOwn
  <2>2. CASE SignUp
    BY <2>2, SubmittedKeeps DEF SignUp, MaySign
  <2>3. CASE UpdateProfile
    BY <2>3, SubmittedKeeps DEF UpdateProfile, MaySign
  <2>4. CASE CancelAccount
    BY <2>4, SubmittedKeeps DEF CancelAccount
  <2>5. ASSUME NEW i \in DOMAIN txs, Included(i) \/ Refused(i) PROVE ProfilesAreOwn'
    <3>1. txs[i] \in Tx /\ txs \in Seq(Tx)
      BY DEF TypeOK
    <3>2. txs' = [txs EXCEPT ![i] = [txs[i] EXCEPT !.state = "done"]]
      BY <2>5 DEF Included, Refused
    <3>3. /\ DOMAIN txs' = DOMAIN txs
          /\ \A j \in DOMAIN txs : /\ txs'[j].method = txs[j].method
                                   /\ txs'[j].row = txs[j].row
                                   /\ txs'[j].signer = txs[j].signer
      BY <3>1, <3>2 DEF Tx
    <3> QED
      BY <3>3 DEF ProfilesAreOwn
  <2>6. ASSUME NEW a \in Accounts, SwitchAccount(a) \/ OthersChange(a) PROVE ProfilesAreOwn'
    BY <2>1, <2>6 DEF SwitchAccount, OthersChange, chain
  <2>7. CASE Subscribed \/ Deliver \/ OpenEditing \/ CloseEditing \/ UNCHANGED vars
    BY <2>1, <2>7 DEF Subscribed, Deliver, OpenEditing, CloseEditing, chain, vars
  <2>8. ASSUME NEW a \in leaving, Leaks(a) PROVE ProfilesAreOwn'
    BY <2>1, <2>8 DEF Leaks, chain
  <2>9. ASSUME NEW a \in reads, SetAuditorData(a) \/ ReadLost(a) PROVE ProfilesAreOwn'
    BY <2>1, <2>9 DEF SetAuditorData, ReadLost, chain
  <2> QED
    BY <2>2, <2>3, <2>4, <2>5, <2>6, <2>7, <2>8, <2>9 DEF Next
<1> QED
  BY <1>1, <1>2, InitHolds, TypeHolds, PTL DEF Spec
=============================================================================
