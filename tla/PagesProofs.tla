---------------------------- MODULE PagesProofs -----------------------------
(***************************************************************************)
(* Theorems about the parts of the pages, each with an invariant of its    *)
(* own, for any accounts, candidates, challenges, reports and bounds.      *)
(***************************************************************************)
EXTENDS Pages, SequenceTheorems, TLAPS

LEMMA ItemChanged ==
  ASSUME NEW S, NEW s \in Seq(S), NEW i \in DOMAIN s, NEW e \in S, NEW t, t = [s EXCEPT ![i] = e]
  PROVE  /\ t \in Seq(S) /\ Len(t) = Len(s) /\ DOMAIN t = DOMAIN s /\ t[i] = e
         /\ \A j \in DOMAIN s \ {i} : t[j] = s[j]
OBVIOUS

-----------------------------------------------------------------------------
(* TxButton.  A press carries what was there, from the moment the call is  *)
(* built.                                                                  *)
PressOK(q) ==
  /\ q.input \in {" ", "text"}
  /\ \/ q.step = "signer"
     \/ q.step = "send" /\ type \notin Button!Signed
     \/ type = "CONSTANT"
     \/ q.input = "text" => q.param = "text"

(* As long as presses do not overlap, only the last one is under way, and  *)
(* there is no subscription but its own, which the button can end.         *)
OneAtATime ==
  /\ \A p \in DOMAIN presses : presses[p].step # "sent" => p = Len(presses)
  /\ live \subseteq {Len(presses)} \cap {unsub}
  /\ status = Len(presses)

ButtonInv ==
  /\ Button!TypeOK
  /\ \A p \in DOMAIN presses : PressOK(presses[p])
  /\ overlap \/ type \in Button!Sudo \/ OneAtATime

LEMMA ButtonInit == Button!Init => ButtonInv
<1> SUFFICES ASSUME Button!Init PROVE ButtonInv
  OBVIOUS
<1>1. presses = << >> /\ presses \in Seq(Button!Press) /\ Len(presses) = 0 /\ DOMAIN presses = {}
  BY DEF Button!Init
<1>2. MaxPresses \in Nat /\ MaxEdits \in Nat
  BY PagesAssumption
<1>3. Button!TypeOK
  <2>1. /\ type \in Button!Types /\ sudoKey \in Accounts \cup {Button!None}
        /\ input \in Button!Inputs /\ currentAccount \in Accounts \cup {Button!None}
    BY DEF Button!Init, Button!Inputs
  <2>2. unsub = 0 /\ live = {} /\ status = 0 /\ edits = 0
    BY DEF Button!Init
  <2>3. overlap \in BOOLEAN
    BY DEF Button!Init
  <2> QED
    BY <1>1, <1>2, <2>1, <2>2, <2>3 DEF Button!TypeOK
<1> QED
  BY <1>1, <1>3 DEF Button!Init, ButtonInv, OneAtATime

(* A press goes on to its next step.                                       *)
LEMMA PressGoes ==
  ASSUME ButtonInv, NEW p \in DOMAIN presses, NEW step \in {"send", "sent"},
         NEW param \in Button!Inputs,
         presses' = [presses EXCEPT ![p] = [@ EXCEPT !.step = step, !.param = param]]
  PROVE  /\ presses' \in Seq(Button!Press) /\ Len(presses') = Len(presses)
         /\ DOMAIN presses' = DOMAIN presses
         /\ \A q \in DOMAIN presses \ {p} : presses'[q] = presses[q]
         /\ presses'[p].step = step /\ presses'[p].param = param
         /\ presses'[p].input = presses[p].input
<1> DEFINE old == presses[p]
           new == [old EXCEPT !.step = step, !.param = param]
<1>1. presses \in Seq(Button!Press) /\ old \in Button!Press
  BY ElementOfSeq, LenProperties DEF ButtonInv, Button!TypeOK
<1>2. presses' = [presses EXCEPT ![p] = new]
  OBVIOUS
<1> HIDE DEF old
<1>3. new \in Button!Press /\ new.step = step /\ new.param = param /\ new.input = old.input
  BY <1>1 DEF Button!Press
<1> HIDE DEF new
<1>4. /\ presses' \in Seq(Button!Press) /\ Len(presses') = Len(presses)
      /\ DOMAIN presses' = DOMAIN presses /\ presses'[p] = new
      /\ \A q \in DOMAIN presses \ {p} : presses'[q] = presses[q]
  BY <1>1, <1>2, <1>3
<1> QED
  BY <1>3, <1>4 DEF old

(* What is built of the input of a press says what the input says.         *)
LEMMA ParamSaysInput ==
  ASSUME ButtonInv, NEW p \in DOMAIN presses
  PROVE  /\ presses[p] \in Button!Press /\ PressOK(presses[p])
         /\ Button!Transformed(Button!InputOf(p)) \in Button!Inputs
         /\ presses[p].input = "text" => Button!Transformed(Button!InputOf(p)) = "text"
         /\ Button!SentParam(p) \in Button!Inputs
         /\ presses[p].step = "send" /\ presses[p].input = "text" /\ type # "CONSTANT"
              => Button!SentParam(p) = "text"
<1>1. presses[p] \in Button!Press /\ PressOK(presses[p])
  BY ElementOfSeq, LenProperties DEF ButtonInv, Button!TypeOK
<1>2. presses[p].input \in Button!Inputs /\ presses[p].param \in Button!Inputs
  BY <1>1 DEF Button!Press
<1> QED
  BY <1>1, <1>2 DEF Button!Transformed, Button!InputOf, Button!SentParam, Button!Inputs, PressOK

LEMMA ButtonStep ==
  ASSUME ButtonInv, Button!Next
  PROVE  ButtonInv'
<1>0. /\ presses \in Seq(Button!Press) /\ Len(presses) \in Nat /\ DOMAIN presses = 1 .. Len(presses)
      /\ MaxPresses \in Nat /\ MaxEdits \in Nat
  <2>1. MaxPresses \in Nat /\ MaxEdits \in Nat
    BY PagesAssumption
  <2> QED
    BY <2>1 DEF ButtonInv, Button!TypeOK
<1>1. CASE Button!Edit
  <2>1. /\ UNCHANGED <<type, sudoKey, unsub, presses, live, status, overlap>>
        /\ edits' \in 0 .. MaxEdits /\ input' \in Button!Inputs
        /\ currentAccount' \in Accounts \cup {Button!None}
    BY <1>0, <1>1 DEF Button!Edit, Button!fixed, ButtonInv, Button!TypeOK
  <2> QED
    BY <2>1 DEF ButtonInv, Button!TypeOK, PressOK, OneAtATime
<1>2. CASE Button!Transaction
  <2> DEFINE step == IF type = "CONSTANT" THEN "sent"
                     ELSE IF type \in Button!Signed THEN "signer" ELSE "send"
             new == [step |-> step, input |-> input, account |-> currentAccount,
                     param |-> "null"]
  <2>1. /\ presses' = Append(presses, new) /\ Len(presses) < MaxPresses
        /\ live' = live \ Button!Ended /\ unsub' = 0 /\ status' = Len(presses')
        /\ overlap' = (overlap \/ Button!UnderWay) /\ UNCHANGED <<type, sudoKey, input, edits>>
        /\ UNCHANGED currentAccount
    BY <1>2 DEF Button!Transaction, Button!AfterEnding, Button!fixed
  <2>2. new \in Button!Press /\ PressOK(new)
    BY <1>2 DEF Button!Press, PressOK, Button!Transaction, Button!Enabled, Button!AllParamsFilled,
                ButtonInv, Button!TypeOK, Button!Inputs
  <2> HIDE DEF new
  <2>3. /\ presses' \in Seq(Button!Press) /\ Len(presses') = Len(presses) + 1
        /\ DOMAIN presses' = DOMAIN presses \cup {Len(presses')}
        /\ \A p \in DOMAIN presses : presses'[p] = presses[p]
        /\ presses'[Len(presses')] = new
    BY <1>0, <2>1, <2>2
  <2>4. Button!TypeOK'
    BY <1>0, <2>1, <2>3 DEF ButtonInv, Button!TypeOK
  <2>5. ASSUME NEW p \in DOMAIN presses' PROVE PressOK(presses'[p])
    BY <2>2, <2>3 DEF ButtonInv
  <2>6. ASSUME ~overlap', type \notin Button!Sudo PROVE OneAtATime'
    <3>1. ~overlap /\ OneAtATime /\ \A p \in DOMAIN presses : presses[p].step = "sent"
      BY <2>1, <2>6 DEF ButtonInv, Button!UnderWay, Button!TypeOK
    <3>2. live' = {}
      BY <2>1, <3>1 DEF OneAtATime, Button!Ended, ButtonInv, Button!TypeOK
    <3> QED
      BY <2>1, <2>3, <3>1, <3>2 DEF OneAtATime
  <2> QED
    BY <2>1, <2>4, <2>5, <2>6 DEF ButtonInv, PressOK
<1>3. ASSUME NEW p \in DOMAIN presses, Button!GotSigner(p)
      PROVE  ButtonInv'
  <2> DEFINE param == Button!Transformed(Button!InputOf(p))
  <2>1. /\ presses' = [presses EXCEPT ![p] = [@ EXCEPT !.step = "send", !.param = param]]
        /\ presses[p].step = "signer"
        /\ UNCHANGED <<type, sudoKey, input, currentAccount, unsub, live, status, overlap, edits>>
    BY <1>3 DEF Button!GotSigner, Button!fixed
  <2>2. param \in Button!Inputs /\ (presses[p].input = "text" => param = "text")
    BY ParamSaysInput
  <2> HIDE DEF param
  <2>3. /\ presses' \in Seq(Button!Press) /\ Len(presses') = Len(presses)
        /\ DOMAIN presses' = DOMAIN presses
        /\ \A q \in DOMAIN presses \ {p} : presses'[q] = presses[q]
        /\ presses'[p].step = "send" /\ presses'[p].param = param
        /\ presses'[p].input = presses[p].input
    BY <2>1, <2>2, PressGoes
  <2>4. Button!TypeOK'
    BY <2>1, <2>3 DEF ButtonInv, Button!TypeOK
  <2>5. ASSUME NEW q \in DOMAIN presses PROVE PressOK(presses'[q])
    BY <2>2, <2>3 DEF ButtonInv, PressOK
  <2>6. ASSUME OneAtATime PROVE OneAtATime'
    BY <2>1, <2>3, <2>6 DEF OneAtATime
  <2> QED
    BY <2>1, <2>3, <2>4, <2>5, <2>6 DEF ButtonInv, PressOK
<1>4. ASSUME NEW p \in DOMAIN presses, Button!Subscribed(p) \/ Button!Failed(p)
      PROVE  ButtonInv'
  <2> DEFINE param == Button!SentParam(p)
  <2>1. /\ presses' = [presses EXCEPT ![p] = [@ EXCEPT !.step = "sent", !.param = param]]
        /\ presses[p].step = "send"
        /\ UNCHANGED <<type, sudoKey, input, currentAccount, overlap, edits>>
        /\ \/ /\ live' = live \cup {p} /\ UNCHANGED status
              /\ unsub' = IF type \in Button!Sudo THEN 0 ELSE p
           \/ UNCHANGED <<live, unsub, status>>
           \/ UNCHANGED live /\ unsub' = 0 /\ status' = p
    BY <1>4 DEF Button!Subscribed, Button!Failed, Button!fixed
  <2>2. /\ param \in Button!Inputs
        /\ presses[p].input = "text" /\ type # "CONSTANT" => param = "text"
    BY <2>1, ParamSaysInput
  <2> HIDE DEF param
  <2>3. /\ presses' \in Seq(Button!Press) /\ Len(presses') = Len(presses)
        /\ DOMAIN presses' = DOMAIN presses
        /\ \A q \in DOMAIN presses \ {p} : presses'[q] = presses[q]
        /\ presses'[p].step = "sent" /\ presses'[p].param = param
        /\ presses'[p].input = presses[p].input
    BY <2>1, <2>2, PressGoes
  <2>4. Button!TypeOK'
    BY <1>0, <2>1, <2>3 DEF ButtonInv, Button!TypeOK
  <2>5. ASSUME NEW q \in DOMAIN presses PROVE PressOK(presses'[q])
    BY <2>2, <2>3 DEF ButtonInv, PressOK
  <2>6. ASSUME OneAtATime, type \notin Button!Sudo PROVE OneAtATime'
    <3>1. p = Len(presses) /\ p \notin live
      BY <2>1, <2>6 DEF OneAtATime, ButtonInv, Button!TypeOK
    <3>2. live = {}
      BY <2>6, <3>1 DEF OneAtATime
    <3> QED
      BY <2>1, <2>3, <2>6, <3>1, <3>2 DEF OneAtATime
  <2> QED
    BY <2>1, <2>3, <2>4, <2>5, <2>6 DEF ButtonInv, PressOK
<1>5. ASSUME NEW p \in DOMAIN presses, Button!SetStatusState(p)
      PROVE  ButtonInv'
  <2>1. /\ p \in live /\ status' = p
        /\ UNCHANGED <<type, sudoKey, input, currentAccount, unsub, presses, live, overlap, edits>>
    BY <1>5 DEF Button!SetStatusState, Button!fixed
  <2>2. Button!TypeOK'
    BY <1>0, <2>1 DEF ButtonInv, Button!TypeOK
  <2> QED
    BY <2>1, <2>2 DEF ButtonInv, PressOK, OneAtATime
<1> QED
  BY <1>1, <1>2, <1>3, <1>4, <1>5 DEF Button!Next
-----------------------------------------------------------------------------
(* ChallengeForm.  The arrays of a render have nothing in them and are in  *)
(* no list until they are set.                                             *)
BlankRows(k) == \A l \in Lists : renders[k].rows[l] = Form!EmptyRow

NeverSet(k) ==
  /\ BlankRows(k)
  /\ \A l \in Lists : \A i \in DOMAIN data[l] : data[l][i].of # k

(* What a closed form has are arrays that were just set: for the first     *)
(* time with nothing in them.                                              *)
SetByClosing ==
  \E k \in 0 .. Len(renders) :
    /\ data = [l \in Lists |-> <<Form!InitialRow(k)>>]
    /\ k # 0 => BlankRows(k) \/ renders[k].set = "again"

FormInv ==
  /\ Form!TypeOK
  /\ \A k \in DOMAIN renders : renders[k].set = "never" => NeverSet(k)
  /\ open \/ SetByClosing
  /\ Form!SentRowsAreValid

(* The items of a list, of the renders there are.                          *)
ItemsOK(list, n) == list \in Seq(Form!Item) /\ \A i \in DOMAIN list : list[i].of \in 0 .. n

LEMMA RowTypes ==
  /\ Form!EmptyRow \in Form!Row /\ Form!NewRender \in Form!Render
  /\ Form!NewRender.set = "never" /\ \A l \in Lists : Form!NewRender.rows[l] = Form!EmptyRow
  /\ \A k \in Nat : Form!InitialRow(k) \in Form!Item /\ Form!InitialRow(k).of = k
  /\ \A row \in Form!Row : Form!Own(row) \in Form!Item /\ Form!Own(row).of = 0
  /\ Form!InitialRow(0) = Form!Own(Form!EmptyRow)
BY DEF Form!EmptyRow, Form!Row, Form!NewRender, Form!Render, Form!InitialRow, Form!Item, Form!Own

LEMMA ContentType ==
  ASSUME Form!TypeOK, NEW l \in Lists, NEW i \in DOMAIN data[l]
  PROVE  /\ data[l][i] \in Form!Item /\ data[l][i].of \in 0 .. Len(renders)
         /\ Form!Content(l, data[l][i]) \in Form!Row
<1>1. data[l] \in Seq(Form!Item) /\ renders \in Seq(Form!Render)
  BY DEF Form!TypeOK
<1>2. data[l][i] \in Form!Item /\ data[l][i].of \in 0 .. Len(renders)
  <2>1. data[l][i] \in Form!Item
    BY <1>1, ElementOfSeq, LenProperties
  <2>2. data[l][i].of \in 0 .. Len(renders)
    BY DEF Form!TypeOK
  <2> QED
    BY <2>1, <2>2
<1>3. \A k \in DOMAIN renders : renders[k] \in Form!Render
  BY <1>1, ElementOfSeq, LenProperties
<1>4. CASE data[l][i].of = 0
  BY <1>2, <1>4 DEF Form!Content, Form!Item
<1>5. CASE data[l][i].of # 0
  <2>1. data[l][i].of \in DOMAIN renders
    BY <1>1, <1>2, <1>5, LenProperties
  <2>2. renders[data[l][i].of].rows \in [Lists -> Form!Row]
    BY <1>3, <2>1 DEF Form!Render
  <2> QED
    BY <1>2, <1>5, <2>2 DEF Form!Content
<1> QED
  BY <1>2, <1>4, <1>5

(* The items of a list are others, of renders that were set.               *)
LEMMA ItemsGo ==
  ASSUME FormInv, NEW l \in Lists, NEW list, ItemsOK(list, Len(renders)),
         \A i \in DOMAIN list : list[i].of = 0 \/ \E j \in DOMAIN data[l] : data[l][j].of = list[i].of,
         data' = [data EXCEPT ![l] = list], open' = TRUE, render' = 0,
         UNCHANGED <<report, renders, unsub, submissions>>
  PROVE  FormInv'
<1>1. /\ data' \in [Lists -> Seq(Form!Item)] /\ data'[l] = list
      /\ \A m \in Lists \ {l} : data'[m] = data[m]
  BY DEF FormInv, Form!TypeOK, ItemsOK
<1>2. \A m \in Lists : \A i \in DOMAIN data'[m] : data'[m][i].of \in 0 .. Len(renders)
  BY <1>1 DEF FormInv, Form!TypeOK, ItemsOK
<1>3. Form!TypeOK'
  BY <1>1, <1>2 DEF FormInv, Form!TypeOK
<1>4. ASSUME NEW k \in DOMAIN renders', renders'[k].set = "never" PROVE NeverSet(k)'
  <2>1. NeverSet(k) /\ k # 0
    BY <1>4, LenProperties DEF FormInv, Form!TypeOK
  <2>2. ASSUME NEW m \in Lists, NEW i \in DOMAIN data'[m] PROVE data'[m][i].of # k
    BY <1>1, <2>1 DEF NeverSet
  <2> QED
    BY <2>1, <2>2 DEF NeverSet, BlankRows
<1> QED
  BY <1>3, <1>4 DEF FormInv, Form!SentRowsAreValid

LEMMA Removed ==
  ASSUME NEW n \in Nat, NEW list, ItemsOK(list, n), NEW i \in DOMAIN list
  PROVE  /\ ItemsOK(Form!RemoveAt(list, i), n)
         /\ \A j \in DOMAIN Form!RemoveAt(list, i) :
              \E k \in DOMAIN list : Form!RemoveAt(list, i)[j] = list[k]
<1> DEFINE len == Len(list)
           below == SubSeq(list, 1, i - 1)
           above == SubSeq(list, i + 1, len)
           rest == Form!RemoveAt(list, i)
<1>1. list \in Seq(Form!Item) /\ len \in Nat /\ i \in 1 .. len /\ DOMAIN list = 1 .. len
  BY DEF ItemsOK
<1>2. rest = below \o above
  BY DEF Form!RemoveAt
<1>3. /\ below \in Seq(Form!Item) /\ Len(below) = i - 1
      /\ \A j \in 1 .. i - 1 : below[j] = list[j]
  BY <1>1
<1>4. /\ above \in Seq(Form!Item) /\ Len(above) = len - i
      /\ \A j \in 1 .. len - i : above[j] = list[i + j]
  BY <1>1
<1> HIDE DEF len, below, above, rest
<1>5. rest \in Seq(Form!Item) /\ DOMAIN rest = 1 .. len - 1
  <2>1. /\ rest \in Seq(Form!Item) /\ Len(rest) = Len(below) + Len(above)
        /\ DOMAIN rest = 1 .. Len(rest)
    <3>1. below \in Seq(Form!Item) /\ above \in Seq(Form!Item)
      BY <1>3, <1>4
    <3> QED
      BY <1>2, <3>1, ConcatProperties
  <2>2. Len(rest) = len - 1
    BY <1>1, <1>3, <1>4, <2>1
  <2> QED
    BY <2>1, <2>2
<1>6. ASSUME NEW j \in DOMAIN rest PROVE \E k \in DOMAIN list : rest[j] = list[k]
  <2>1. CASE j <= i - 1
    <3>1. rest[j] = below[j] /\ j \in 1 .. i - 1 /\ j \in 1 .. len
      BY <1>1, <1>2, <1>3, <1>4, <1>5, <1>6, <2>1
    <3> QED
      BY <1>1, <1>3, <3>1
  <2>2. CASE j > i - 1
    <3> DEFINE k == j - (i - 1)
    <3>1. k \in 1 .. len - i /\ i + k \in 1 .. len
      BY <1>1, <1>5, <2>2
    <3>2. rest[j] = above[k]
      BY <1>1, <1>2, <1>3, <1>4, <1>5, <2>2
    <3> QED
      BY <1>1, <1>4, <3>1, <3>2
  <2> QED
    BY <1>1, <1>5, <2>1, <2>2
<1> QED
  BY <1>5, <1>6 DEF ItemsOK, rest

(* A render's closeClear sets its arrays: blank ones if they never were.   *)
LEMMA CloseClearSets ==
  ASSUME FormInv, NEW k \in 0 .. Len(renders), Form!CloseClear(k)
  PROVE  /\ open' = FALSE /\ render' = 0 /\ SetByClosing'
         /\ renders' \in Seq(Form!Render) /\ Len(renders') = Len(renders)
         /\ data' \in [Lists -> Seq(Form!Item)]
         /\ \A l \in Lists : \A i \in DOMAIN data'[l] : data'[l][i].of \in 0 .. Len(renders)
         /\ \A j \in DOMAIN renders' : renders'[j].set = "never" => NeverSet(j)'
<1> DEFINE item == Form!InitialRow(k)
           lists == [l \in Lists |-> <<item>>]
<1>1. renders \in Seq(Form!Render) /\ Len(renders) \in Nat /\ k \in Nat
  BY DEF FormInv, Form!TypeOK
<1>2. /\ open' = FALSE /\ render' = 0 /\ data' = lists
      /\ renders' = IF k = 0 THEN renders ELSE Form!SetAgain(k)
  BY DEF Form!CloseClear, Form!AfterClear
<1>3. item \in Form!Item /\ item.of = k
  BY <1>1, RowTypes
<1> HIDE DEF item
<1>4. \A l \in Lists : /\ lists[l] \in Seq(Form!Item) /\ lists[l] = <<item>>
                       /\ \A i \in DOMAIN lists[l] : lists[l][i].of = k
  BY <1>3
<1>5. lists \in [Lists -> Seq(Form!Item)]
  BY <1>4
<1>6. /\ renders' \in Seq(Form!Render) /\ Len(renders') = Len(renders)
      /\ DOMAIN renders' = DOMAIN renders /\ DOMAIN renders = 1 .. Len(renders)
      /\ \A j \in DOMAIN renders \ {k} : renders'[j] = renders[j]
      /\ k # 0 => /\ renders'[k].rows = renders[k].rows
                  /\ renders'[k].set = IF renders[k].set = "never" THEN "once" ELSE "again"
  <2>1. CASE k = 0
    BY <1>1, <1>2, <2>1
  <2>2. CASE k # 0
    <3> DEFINE old == renders[k]
               new == [old EXCEPT !.set = IF old.set = "never" THEN "once" ELSE "again"]
    <3>1. renders' = [renders EXCEPT ![k] = new]
      BY <1>2, <2>2 DEF Form!SetAgain
    <3>2. k \in DOMAIN renders /\ old \in Form!Render
      BY <1>1, <2>2, ElementOfSeq, LenProperties
    <3> HIDE DEF old
    <3>3. /\ new \in Form!Render /\ new.rows = old.rows
          /\ new.set = IF old.set = "never" THEN "once" ELSE "again"
      BY <3>2 DEF Form!Render
    <3> HIDE DEF new
    <3>4. /\ renders' \in Seq(Form!Render) /\ Len(renders') = Len(renders)
          /\ DOMAIN renders' = DOMAIN renders /\ renders'[k] = new
          /\ \A j \in DOMAIN renders \ {k} : renders'[j] = renders[j]
      BY <1>1, <3>1, <3>2, <3>3, ItemChanged
    <3> QED
      BY <1>1, <3>3, <3>4 DEF old
  <2> QED
    BY <2>1, <2>2
<1>7. SetByClosing'
  <2>1. k # 0 => BlankRows(k)' \/ renders'[k].set = "again"
    <3>1. CASE k # 0 /\ renders[k].set = "never"
      <4>1. BlankRows(k)
        BY <1>6, <3>1 DEF FormInv, NeverSet
      <4> QED
        BY <1>6, <3>1, <4>1 DEF BlankRows
    <3> QED
      BY <1>6, <3>1
  <2>2. data' = lists /\ k \in 0 .. Len(renders')
    BY <1>2, <1>6
  <2> QED
    BY <2>1, <2>2 DEF SetByClosing, item
<1>8. ASSUME NEW j \in DOMAIN renders', renders'[j].set = "never" PROVE NeverSet(j)'
  <2>1. j # k
    BY <1>1, <1>6, <1>8
  <2>2. BlankRows(j)
    BY <1>6, <1>8, <2>1 DEF FormInv, NeverSet
  <2>3. BlankRows(j)'
    BY <1>6, <2>1, <2>2 DEF BlankRows
  <2>4. \A l \in Lists : \A i \in DOMAIN data'[l] : data'[l][i].of # j
    BY <1>2, <1>4, <2>1
  <2> QED
    BY <2>3, <2>4 DEF NeverSet
<1> HIDE DEF lists
<1> QED
  BY <1>2, <1>4, <1>5, <1>6, <1>7, <1>8

LEMMA ChangeKeeps ==
  ASSUME FormInv, NEW l \in Lists, NEW i \in DOMAIN data[l], NEW row \in Form!Row,
         Form!HandleChange(l, i, row)
  PROVE  FormInv'
<1> DEFINE k == data[l][i].of
<1>1. /\ open /\ render' = 0 /\ UNCHANGED <<report, open, unsub, submissions>>
      /\ data' = IF k # 0 THEN data
                 ELSE [data EXCEPT ![l] = [data[l] EXCEPT ![i] = Form!Own(row)]]
      /\ renders' = IF k = 0 THEN renders ELSE [renders EXCEPT ![k] =
                      [renders[k] EXCEPT !.rows = [renders[k].rows EXCEPT ![l] = row]]]
  BY DEF Form!HandleChange
<1>2. /\ renders \in Seq(Form!Render) /\ data[l] \in Seq(Form!Item) /\ k \in 0 .. Len(renders)
      /\ Len(renders) \in Nat /\ data[l][i] \in Form!Item
  BY ContentType DEF FormInv, Form!TypeOK
<1>3. CASE k = 0
  <2> DEFINE item == Form!Own(row)
             list == [data[l] EXCEPT ![i] = item]
  <2>1. item \in Form!Item /\ item.of = 0
    BY RowTypes
  <2>2. data' = [data EXCEPT ![l] = list] /\ open' = TRUE /\ UNCHANGED renders
    BY <1>1, <1>3 DEF FormInv, Form!TypeOK
  <2> HIDE DEF item
  <2>3. /\ list \in Seq(Form!Item) /\ DOMAIN list = DOMAIN data[l] /\ list[i] = item
        /\ \A j \in DOMAIN data[l] \ {i} : list[j] = data[l][j]
    BY <1>2, <2>1, ItemChanged
  <2> HIDE DEF list
  <2>4. ItemsOK(list, Len(renders))
    <3>1. \A j \in DOMAIN data[l] : data[l][j].of \in 0 .. Len(renders)
      BY DEF FormInv, Form!TypeOK
    <3>2. 0 \in 0 .. Len(renders)
      BY <1>2
    <3> QED
      BY <2>1, <2>3, <3>1, <3>2 DEF ItemsOK
  <2>5. \A j \in DOMAIN list :
          list[j].of = 0 \/ \E m \in DOMAIN data[l] : data[l][m].of = list[j].of
    BY <2>1, <2>3
  <2> QED
    BY <1>1, <2>2, <2>4, <2>5, ItemsGo
<1>4. CASE k # 0
  <2> DEFINE old == renders[k]
             rows == [old.rows EXCEPT ![l] = row]
             new == [old EXCEPT !.rows = rows]
  <2>1. UNCHANGED data /\ renders' = [renders EXCEPT ![k] = new]
    BY <1>1, <1>4
  <2>2. k \in DOMAIN renders /\ old \in Form!Render
    BY <1>2, <1>4, ElementOfSeq, LenProperties
  <2>3. renders[k].set # "never"
    BY <2>2 DEF FormInv, NeverSet
  <2> HIDE DEF old
  <2>4. rows \in [Lists -> Form!Row]
    BY <2>2 DEF Form!Render
  <2> HIDE DEF rows
  <2>5. new \in Form!Render /\ new.set = old.set
    BY <2>2, <2>4 DEF Form!Render
  <2> HIDE DEF new, k
  <2>6. /\ renders' \in Seq(Form!Render) /\ Len(renders') = Len(renders)
        /\ DOMAIN renders' = DOMAIN renders /\ renders'[k] = new
        /\ \A j \in DOMAIN renders \ {k} : renders'[j] = renders[j]
    BY <1>2, <2>1, <2>2, <2>5, ItemChanged
  <2>7. Form!TypeOK'
    BY <1>1, <1>2, <2>1, <2>6 DEF FormInv, Form!TypeOK
  <2>8. ASSUME NEW j \in DOMAIN renders', renders'[j].set = "never" PROVE NeverSet(j)'
    <3>1. j # k /\ NeverSet(j)
      BY <2>3, <2>5, <2>6, <2>8 DEF FormInv, old
    <3> QED
      BY <2>1, <2>6, <2>8, <3>1 DEF NeverSet, BlankRows
  <2> QED
    BY <1>1, <2>7, <2>8 DEF FormInv, Form!SentRowsAreValid
<1> QED
  BY <1>3, <1>4

(* A submission goes on, with the form as it is, in this render or in      *)
(* another; or it closes the form.                                         *)
LEMMA SubmissionGoes ==
  ASSUME FormInv, NEW i \in DOMAIN submissions, NEW new \in Form!Submission,
         new.params = submissions[i].params, new.render = submissions[i].render,
         submissions' = [submissions EXCEPT ![i] = new],
         UNCHANGED report, unsub' \in {unsub, 0, i},
         \/ UNCHANGED <<open, data, renders>> /\ render' \in {render, 0}
         \/ Form!CloseClear(new.render)
  PROVE  FormInv'
<1>1. submissions \in Seq(Form!Submission)
  BY DEF FormInv, Form!TypeOK
<1>2. /\ submissions' \in Seq(Form!Submission) /\ DOMAIN submissions' = DOMAIN submissions
      /\ submissions'[i] = new /\ Len(submissions') = Len(submissions)
      /\ \A j \in DOMAIN submissions \ {i} : submissions'[j] = submissions[j]
  BY <1>1, ItemChanged
<1>3. \A j \in DOMAIN submissions : /\ submissions'[j].params = submissions[j].params
                                    /\ submissions'[j].render = submissions[j].render
  BY <1>2
<1>4. Form!SentRowsAreValid'
  BY <1>2, <1>3 DEF FormInv, Form!SentRowsAreValid
<1>5. unsub' \in 0 .. Len(submissions')
  BY <1>1, <1>2, LenProperties DEF FormInv, Form!TypeOK
<1>6. CASE UNCHANGED <<open, data, renders>> /\ render' \in {render, 0}
  <2>1. Form!TypeOK'
    BY <1>2, <1>3, <1>5, <1>6 DEF FormInv, Form!TypeOK
  <2> QED
    BY <1>4, <1>6, <2>1 DEF FormInv, NeverSet, BlankRows, SetByClosing
<1>7. CASE Form!CloseClear(new.render)
  <2>1. /\ renders \in Seq(Form!Render) /\ new.render \in DOMAIN renders
        /\ new.render \in 0 .. Len(renders)
    BY LenProperties DEF FormInv, Form!TypeOK
  <2>2. /\ open' = FALSE /\ render' = 0 /\ SetByClosing'
        /\ renders' \in Seq(Form!Render) /\ Len(renders') = Len(renders)
        /\ data' \in [Lists -> Seq(Form!Item)]
        /\ \A l \in Lists : \A j \in DOMAIN data'[l] : data'[l][j].of \in 0 .. Len(renders)
        /\ \A j \in DOMAIN renders' : renders'[j].set = "never" => NeverSet(j)'
    BY <1>7, <2>1, CloseClearSets
  <2>3. DOMAIN renders' = DOMAIN renders /\ 0 \in 0 .. Len(renders')
    BY <2>1, <2>2, LenProperties
  <2>4. Form!TypeOK'
    BY <1>2, <1>3, <1>5, <2>2, <2>3 DEF FormInv, Form!TypeOK
  <2> QED
    BY <1>4, <2>2, <2>4 DEF FormInv
<1> QED
  BY <1>6, <1>7

LEMMA ParamsAreValid ==
  ASSUME FormInv, ~Form!Disabled, NEW l \in Lists
  PROVE  Form!Params[l] \in SUBSET Form!Row /\ Form!Params[l] \subseteq {"valid"}
<1>1. \A i \in DOMAIN data[l] : /\ Form!Content(l, data[l][i]) \in Form!Row
                                /\ Form!Content(l, data[l][i]) # "invalid"
  BY ContentType DEF FormInv, Form!Disabled, Form!HasErrors
<1>2. Form!Params[l] = {Form!Content(l, data[l][i]) : i \in DOMAIN data[l]} \ {Form!EmptyRow}
  BY DEF Form!Params, Form!Shown, Form!Range
<1> QED
  BY <1>1, <1>2 DEF Form!Row, Form!EmptyRow

LEMMA SubmitKeeps ==
  ASSUME FormInv, Form!Submit
  PROVE  FormInv'
<1> DEFINE k == IF render = 0 THEN Len(renders) + 1 ELSE render
           sent == [report |-> report, params |-> Form!Params, render |-> k, state |-> "signing"]
           old == Form!Unheard
           fresh == Form!NewRender
<1>1. /\ open /\ ~Form!Disabled /\ submissions' = Append(old, sent)
      /\ renders' = IF render = 0 THEN Append(renders, fresh) ELSE renders
      /\ render' \in {k, 0} /\ unsub' = 0 /\ UNCHANGED <<report, open, data>>
  BY DEF Form!Submit
<1>2. /\ renders \in Seq(Form!Render) /\ Len(renders) \in Nat /\ render \in 0 .. Len(renders)
      /\ submissions \in Seq(Form!Submission) /\ Len(submissions) \in Nat
      /\ DOMAIN renders = 1 .. Len(renders)
  BY DEF FormInv, Form!TypeOK
<1>3. fresh \in Form!Render /\ fresh.set = "never" /\ \A l \in Lists : fresh.rows[l] = Form!EmptyRow
  BY RowTypes
<1> HIDE DEF fresh
<1>4. /\ renders' \in Seq(Form!Render) /\ DOMAIN renders' = 1 .. Len(renders')
      /\ Len(renders') \in Nat /\ Len(renders) <= Len(renders') /\ k \in 1 .. Len(renders')
      /\ \A j \in DOMAIN renders' :
           \/ j \in DOMAIN renders /\ renders'[j] = renders[j]
           \/ j = Len(renders) + 1 /\ renders'[j] = fresh
      /\ \A j \in DOMAIN renders : j \in DOMAIN renders' /\ renders'[j] = renders[j]
  BY <1>1, <1>2, <1>3
<1>5. k \in Nat
  BY <1>2
<1>6. /\ sent \in Form!Submission /\ sent.render = k
      /\ \A l \in Lists : sent.params[l] \subseteq {"valid"}
  <2>1. Form!Params \in [Lists -> SUBSET Form!Row]
    <3>1. Form!Params = [l \in Lists |-> Form!Params[l]]
      BY DEF Form!Params
    <3> QED
      BY <1>1, <3>1, ParamsAreValid
  <2>2. report \in Reports
    BY DEF FormInv, Form!TypeOK
  <2> DEFINE params == Form!Params
  <2>3. \A l \in Lists : params[l] \subseteq {"valid"}
    BY <1>1, ParamsAreValid
  <2> HIDE DEF params, k
  <2>4. [report |-> report, params |-> params, render |-> k, state |-> "signing"] \in Form!Submission
    BY <1>5, <2>1, <2>2 DEF Form!Submission, params
  <2> QED
    BY <2>3, <2>4 DEF params
<1> HIDE DEF sent, k
<1>7. ASSUME NEW i \in DOMAIN submissions
      PROVE  /\ old[i] \in Form!Submission /\ old[i].params = submissions[i].params
             /\ old[i].render = submissions[i].render
  <2> DEFINE was == submissions[i]
             ended == [was EXCEPT !.state = "ended"]
  <2>1. old[i] = IF i = unsub THEN ended ELSE was
    BY DEF Form!Unheard
  <2>2. was \in Form!Submission
    BY <1>2, ElementOfSeq, LenProperties
  <2> HIDE DEF was
  <2>3. ended \in Form!Submission /\ ended.params = was.params /\ ended.render = was.render
    BY <2>2 DEF Form!Submission
  <2> HIDE DEF ended, old
  <2>4. old[i] \in Form!Submission /\ old[i].params = was.params /\ old[i].render = was.render
    BY <2>1, <2>2, <2>3
  <2> QED
    BY <2>4 DEF was
<1>8. old \in Seq(Form!Submission) /\ Len(old) = Len(submissions) /\ DOMAIN old = DOMAIN submissions
  <2>1. old \in [1 .. Len(submissions) -> Form!Submission]
    BY <1>2, <1>7 DEF Form!Unheard
  <2> HIDE DEF old
  <2> QED
    BY <1>2, <2>1
<1> HIDE DEF old
<1>9. /\ submissions' \in Seq(Form!Submission) /\ Len(submissions') \in Nat
      /\ \A i \in DOMAIN submissions' :
           \/ submissions'[i] = sent
           \/ i \in DOMAIN submissions /\ submissions'[i] = old[i]
  BY <1>1, <1>6, <1>8
<1>10. ASSUME NEW i \in DOMAIN submissions'
       PROVE  /\ submissions'[i].render \in DOMAIN renders'
              /\ \A l \in Lists : submissions'[i].params[l] \subseteq {"valid"}
  <2>1. CASE submissions'[i] = sent
    BY <1>4, <1>6, <2>1
  <2>2. CASE i \in DOMAIN submissions /\ submissions'[i] = old[i]
    <3>1. /\ submissions[i].render \in DOMAIN renders
          /\ \A l \in Lists : submissions[i].params[l] \subseteq {"valid"}
      BY <2>2 DEF FormInv, Form!TypeOK, Form!SentRowsAreValid
    <3> QED
      BY <1>4, <1>7, <2>2, <3>1
  <2> QED
    BY <1>9, <2>1, <2>2
<1>11. Form!TypeOK'
  <2>1. render' \in 0 .. Len(renders')
    BY <1>1, <1>4
  <2>2. \A l \in Lists : \A i \in DOMAIN data[l] : data[l][i].of \in 0 .. Len(renders')
    BY <1>2, <1>4 DEF FormInv, Form!TypeOK
  <2>3. unsub' \in 0 .. Len(submissions')
    BY <1>1, <1>9
  <2> QED
    BY <1>1, <1>4, <1>9, <1>10, <2>1, <2>2, <2>3 DEF FormInv, Form!TypeOK
<1>12. ASSUME NEW j \in DOMAIN renders', renders'[j].set = "never" PROVE NeverSet(j)'
  <2>1. CASE j \in DOMAIN renders /\ renders'[j] = renders[j]
    <3>1. NeverSet(j)
      BY <1>12, <2>1 DEF FormInv
    <3> QED
      BY <1>1, <2>1, <3>1 DEF NeverSet, BlankRows
  <2>2. CASE j = Len(renders) + 1 /\ renders'[j] = fresh
    <3>1. BlankRows(j)'
      BY <1>3, <2>2 DEF BlankRows
    <3>2. \A l \in Lists : \A i \in DOMAIN data[l] : data[l][i].of # j
      BY <1>2, <2>2 DEF FormInv, Form!TypeOK
    <3> QED
      BY <1>1, <3>1, <3>2 DEF NeverSet
  <2> QED
    BY <1>4, <2>1, <2>2
<1> QED
  BY <1>1, <1>10, <1>11, <1>12 DEF FormInv, Form!SentRowsAreValid

LEMMA FormStep ==
  ASSUME FormInv, Form!Next
  PROVE  FormInv'
<1>1. ASSUME NEW r \in Reports, Form!SelectAudit(r) PROVE FormInv'
  BY <1>1 DEF Form!SelectAudit, FormInv, Form!TypeOK, NeverSet, BlankRows, SetByClosing,
              Form!SentRowsAreValid
<1>2. CASE Form!Open
  BY <1>2 DEF Form!Open, FormInv, Form!TypeOK, NeverSet, BlankRows, Form!SentRowsAreValid
<1>3. CASE Form!Rerender
  <2>1. Form!TypeOK'
    BY <1>3 DEF Form!Rerender, FormInv, Form!TypeOK
  <2> QED
    BY <1>3, <2>1 DEF Form!Rerender, FormInv, NeverSet, BlankRows, SetByClosing,
                      Form!SentRowsAreValid
<1>4. CASE Form!Cancel
  <2>1. Form!CloseClear(render) /\ UNCHANGED <<report, unsub, submissions>>
        /\ render \in 0 .. Len(renders)
    BY <1>4 DEF Form!Cancel, FormInv, Form!TypeOK
  <2>2. /\ open' = FALSE /\ render' = 0 /\ SetByClosing'
        /\ renders' \in Seq(Form!Render) /\ Len(renders') = Len(renders)
        /\ data' \in [Lists -> Seq(Form!Item)]
        /\ \A l \in Lists : \A j \in DOMAIN data'[l] : data'[l][j].of \in 0 .. Len(renders)
        /\ \A j \in DOMAIN renders' : renders'[j].set = "never" => NeverSet(j)'
    BY <2>1, CloseClearSets
  <2>3. DOMAIN renders' = DOMAIN renders /\ 0 \in 0 .. Len(renders')
    BY <2>2, LenProperties DEF FormInv, Form!TypeOK
  <2>4. Form!TypeOK'
    BY <2>1, <2>2, <2>3 DEF FormInv, Form!TypeOK
  <2> QED
    BY <2>1, <2>2, <2>4 DEF FormInv, Form!SentRowsAreValid
<1>5. CASE Form!Submit
  BY <1>5, SubmitKeeps
<1>6. ASSUME NEW l \in Lists, Form!HandleClick(l) PROVE FormInv'
  <2> DEFINE item == Form!Own(Form!EmptyRow)
             rows == data[l]
             list == Append(rows, item)
  <2>1. item \in Form!Item /\ item.of = 0 /\ rows \in Seq(Form!Item)
    BY RowTypes DEF FormInv, Form!TypeOK
  <2>2. /\ data' = [data EXCEPT ![l] = list] /\ open' = TRUE /\ render' = 0
        /\ UNCHANGED <<report, renders, unsub, submissions>>
    BY <1>6 DEF Form!HandleClick, FormInv, Form!TypeOK
  <2>3. \A i \in DOMAIN rows : rows[i].of \in 0 .. Len(renders)
    BY DEF FormInv, Form!TypeOK
  <2> HIDE DEF item, rows
  <2>4. /\ list \in Seq(Form!Item)
        /\ \A i \in DOMAIN list : list[i] = item \/ (i \in DOMAIN rows /\ list[i] = rows[i])
    BY <2>1
  <2> HIDE DEF list
  <2>5. 0 \in 0 .. Len(renders)
    BY LenProperties DEF FormInv, Form!TypeOK
  <2>6. ItemsOK(list, Len(renders))
    BY <2>1, <2>3, <2>4, <2>5 DEF ItemsOK
  <2>7. \A i \in DOMAIN list :
          list[i].of = 0 \/ \E j \in DOMAIN data[l] : data[l][j].of = list[i].of
    BY <2>1, <2>4 DEF rows
  <2> QED
    BY <2>2, <2>6, <2>7, ItemsGo
<1>7. ASSUME NEW l \in Lists, NEW i \in DOMAIN data[l], Form!HandleDelete(l, i) PROVE FormInv'
  <2> DEFINE list == Form!RemoveAt(data[l], i)
  <2>1. ItemsOK(data[l], Len(renders)) /\ Len(renders) \in Nat
    BY DEF FormInv, Form!TypeOK, ItemsOK
  <2>2. /\ ItemsOK(list, Len(renders))
        /\ \A j \in DOMAIN list : \E k \in DOMAIN data[l] : list[j] = data[l][k]
    BY <2>1, Removed
  <2>3. /\ data' = [data EXCEPT ![l] = list] /\ open' = TRUE /\ render' = 0
        /\ UNCHANGED <<report, renders, unsub, submissions>>
    BY <1>7 DEF Form!HandleDelete, FormInv, Form!TypeOK
  <2> HIDE DEF list
  <2>4. \A j \in DOMAIN list :
          list[j].of = 0 \/ \E k \in DOMAIN data[l] : data[l][k].of = list[j].of
    BY <2>2
  <2>5. ItemsOK(list, Len(renders))
    BY <2>2
  <2> QED
    BY <2>3, <2>4, <2>5, ItemsGo
<1>8. ASSUME NEW i \in DOMAIN submissions,
             \/ Form!Signed(i) \/ Form!Refused(i) \/ Form!Finish(i)
             \/ Form!InBlockWithError(i) \/ Form!Retracted(i) \/ Form!Ended(i)
      PROVE  FormInv'
  <2> DEFINE old == submissions[i]
  <2>1. old \in Form!Submission
    <3>1. submissions \in Seq(Form!Submission)
      BY DEF FormInv, Form!TypeOK
    <3> QED
      BY <3>1, ElementOfSeq, LenProperties
  <2>2. PICK next \in {"sent", "inBlock", "ended"} :
          /\ submissions' = [submissions EXCEPT ![i] = [old EXCEPT !.state = next]]
          /\ UNCHANGED report /\ unsub' \in {unsub, 0, i}
          /\ \/ UNCHANGED <<open, data, renders>> /\ render' \in {render, 0}
             \/ Form!CloseClear(old.render)
    BY <1>8 DEF Form!Signed, Form!Refused, Form!Finish, Form!InBlockWithError,
                Form!Retracted, Form!Ended, Form!Becomes, Form!state
  <2> DEFINE new == [old EXCEPT !.state = next]
  <2> HIDE DEF old
  <2>3. new \in Form!Submission /\ new.params = old.params /\ new.render = old.render
    BY <2>1 DEF Form!Submission
  <2>4. /\ submissions' = [submissions EXCEPT ![i] = new]
        /\ \/ UNCHANGED <<open, data, renders>> /\ render' \in {render, 0}
           \/ Form!CloseClear(new.render)
    BY <2>2, <2>3
  <2> HIDE DEF new
  <2> QED
    BY <2>2, <2>3, <2>4, SubmissionGoes DEF old
<1> QED
  BY <1>1, <1>2, <1>3, <1>4, <1>5, <1>6, <1>7, <1>8, ChangeKeeps DEF Form!Next

LEMMA FormInit == Form!Init => FormInv
<1> SUFFICES ASSUME Form!Init PROVE FormInv
  OBVIOUS
<1> DEFINE item == Form!InitialRow(0)
<1>1. /\ report \in Reports /\ open = FALSE /\ renders = << >> /\ render = 0 /\ unsub = 0
      /\ submissions = << >> /\ Len(renders) = 0
  BY DEF Form!Init
<1>2. data = [l \in Lists |-> <<item>>]
  BY RowTypes DEF Form!Init, Form!Cleared
<1>3. item \in Form!Item /\ item.of = 0
  BY RowTypes
<1>4. SetByClosing
  BY <1>1, <1>2 DEF SetByClosing
<1> HIDE DEF item
<1>5. /\ data \in [Lists -> Seq(Form!Item)]
      /\ \A l \in Lists : \A i \in DOMAIN data[l] : data[l][i].of = 0
  BY <1>2, <1>3
<1>6. Form!TypeOK
  <2>1. /\ renders \in Seq(Form!Render) /\ submissions \in Seq(Form!Submission)
        /\ DOMAIN submissions = {} /\ Len(submissions) = 0
    BY <1>1
  <2>2. 0 \in 0 .. Len(renders) /\ 0 \in 0 .. Len(submissions)
    BY <1>1, <2>1
  <2> QED
    BY <1>1, <1>5, <2>1, <2>2 DEF Form!TypeOK
<1> QED
  BY <1>1, <1>4, <1>6 DEF FormInv, Form!SentRowsAreValid
-----------------------------------------------------------------------------
(* CouncilPage.  The form names the challenge that is shown, until the     *)
(* callback of a proposal of this page resets it.                          *)
DoneHere == \E j \in DOMAIN proposals : proposals[j].state = "done" /\ proposals[j].page = pages

FormOfShown ==
  /\ formState.of = challenge.of \/ (formState.of = Proposals!None /\ DoneHere)
  /\ challenge.state = "Pending" => challenge.of \in Challenges

ListOK ==
  /\ pages \in Nat /\ reading \in BOOLEAN /\ auditHashes \subseteq Audits
  /\ challengesState \in [Challenges -> Proposals!States]
  /\ \/ currentAccount \in details
     \/ /\ ~reading /\ auditHashes = {}
        /\ \A c \in Challenges : challengesState[c] = "absent"

FormOK ==
  /\ challenge \in [of : Challenges \cup {Proposals!None}, state : Proposals!States]
  /\ formState \in [proposal : Proposals!Decided \cup {Proposals!None},
                    of : Challenges \cup {Proposals!None}]
  /\ FormOfShown
  /\ challenge.of # Proposals!None => currentAccount \in details
  /\ unsub \in 0 .. Len(proposals)

RestOK ==
  /\ currentAccount \in Accounts /\ details \in {{}, Council}
  /\ picks \in 0 .. MaxPicks /\ changes \in 0 .. MaxVerdicts

ProposalsOK ==
  /\ verdicts \in [Challenges -> Proposals!States]
  /\ proposals \in Seq(Proposals!Proposal) /\ Len(proposals) <= MaxProposals
  /\ Proposals!ProposalsAreOfShown

CouncilInv == ListOK /\ FormOK /\ RestOK /\ ProposalsOK

LEMMA Beginnings ==
  /\ Proposals!Initial \in [proposal : Proposals!Decided \cup {Proposals!None},
                            of : Challenges \cup {Proposals!None}]
  /\ Proposals!Initial.of = Proposals!None
  /\ Proposals!NoChallenge \in [of : Challenges \cup {Proposals!None}, state : Proposals!States]
  /\ Proposals!NoChallenge.of = Proposals!None /\ Proposals!NoChallenge.state = "absent"
  /\ [c \in Challenges |-> "absent"] \in [Challenges -> Proposals!States]
BY DEF Proposals!Initial, Proposals!NoChallenge, Proposals!States

LEMMA CouncilInit == Proposals!Init => CouncilInv
<1> SUFFICES ASSUME Proposals!Init PROVE CouncilInv
  OBVIOUS
<1>1. proposals = << >> /\ proposals \in Seq(Proposals!Proposal) /\ Len(proposals) = 0
      /\ DOMAIN proposals = {} /\ unsub = 0 /\ picks = 0 /\ changes = 0 /\ pages = 0
  BY DEF Proposals!Init
<1>2. /\ MaxPicks \in Nat /\ MaxVerdicts \in Nat /\ MaxProposals \in Nat
  BY PagesAssumption
<1>3. /\ reading \in BOOLEAN /\ auditHashes \subseteq Audits
      /\ challengesState \in [Challenges -> Proposals!States]
      /\ ~reading /\ auditHashes = {} /\ \A c \in Challenges : challengesState[c] = "absent"
  BY Beginnings DEF Proposals!Init
<1>4. FormOK
  <2>1. challenge = Proposals!NoChallenge /\ formState = Proposals!Initial
    BY DEF Proposals!Init
  <2>2. FormOfShown
    BY <2>1, Beginnings DEF FormOfShown
  <2> QED
    BY <1>1, <2>1, <2>2, Beginnings DEF FormOK
<1>5. verdicts \in [Challenges -> Proposals!States]
  BY DEF Proposals!Init, Proposals!States
<1>6. RestOK
  BY <1>1, <1>2 DEF RestOK, Proposals!Init
<1>7. ProposalsOK
  BY <1>1, <1>2, <1>5 DEF ProposalsOK, Proposals!ProposalsAreOfShown
<1> QED
  BY <1>1, <1>3, <1>4, <1>6, <1>7 DEF CouncilInv, ListOK

(* The list is put up, taken down or kept.                                 *)
LEMMA ShowsKeeps ==
  ASSUME ListOK, FormOK, NEW a, NEW members, Proposals!Shows(a, members),
         currentAccount' = a, details' = members, UNCHANGED proposals
  PROVE  ListOK' /\ FormOK'
<1> DEFINE was == Proposals!IsCouncil(currentAccount, details)
           is  == Proposals!IsCouncil(a, members)
<1>1. CASE was /\ is
  <2>1. reading' = TRUE /\ UNCHANGED <<pages, auditHashes, challengesState>>
        /\ UNCHANGED <<challenge, formState, unsub>> /\ currentAccount' \in details'
    BY <1>1 DEF Proposals!Shows, Proposals!IsCouncil, Proposals!form
  <2>2. ListOK'
    BY <2>1 DEF ListOK
  <2>3. FormOK'
    BY <2>1 DEF FormOK, FormOfShown, DoneHere
  <2> QED
    BY <2>2, <2>3
<1>2. CASE ~(was /\ is)
  <2>1. /\ pages' = IF is THEN pages + 1 ELSE pages
        /\ reading' = is /\ auditHashes' = {}
        /\ challengesState' = [c \in Challenges |-> "absent"]
        /\ challenge' = Proposals!NoChallenge /\ formState' = Proposals!Initial /\ unsub' = 0
    BY <1>2 DEF Proposals!Shows
  <2>2. reading' \in BOOLEAN
    BY <2>1 DEF Proposals!IsCouncil
  <2>3. pages' \in Nat
    BY <2>1 DEF ListOK
  <2>4. ListOK'
    <3>1. is => currentAccount' \in details'
      BY DEF Proposals!IsCouncil
    <3>2. ~is => ~reading'
      BY <2>1
    <3> QED
      BY <2>1, <2>2, <2>3, <3>1, <3>2, Beginnings DEF ListOK
  <2>5. Len(proposals) = Len(proposals') /\ 0 \in 0 .. Len(proposals)
    BY DEF FormOK
  <2>6. FormOfShown'
    BY <2>1, Beginnings DEF FormOfShown
  <2>7. FormOK'
    BY <2>1, <2>5, <2>6, Beginnings DEF FormOK
  <2> QED
    BY <2>4, <2>7
<1> QED
  BY <1>1, <1>2

LEMMA ProposalType ==
  ASSUME ProposalsOK, NEW i \in DOMAIN proposals
  PROVE  /\ proposals[i] \in Proposals!Proposal
         /\ proposals[i].proposal \in Proposals!Decided
         /\ proposals[i].of \in Challenges \cup {Proposals!None}
<1>1. proposals \in Seq(Proposals!Proposal)
  BY DEF ProposalsOK
<1>2. proposals[i] \in Proposals!Proposal
  BY <1>1, ElementOfSeq, LenProperties
<1> QED
  BY <1>2 DEF Proposals!Proposal

(* What proposals say of the challenge and of the page does not change,    *)
(* and those that are in a block stay so.                                  *)
Follow ==
  \A j \in DOMAIN proposals :
    /\ j \in DOMAIN proposals'
    /\ proposals'[j].of = proposals[j].of /\ proposals'[j].shown = proposals[j].shown
    /\ proposals'[j].page = proposals[j].page
    /\ proposals[j].state = "done" => proposals'[j].state = "done"

LEMMA ProposalGoes ==
  ASSUME ProposalsOK, NEW i \in DOMAIN proposals, NEW new \in Proposals!Proposal,
         new.of = proposals[i].of, new.shown = proposals[i].shown,
         new.page = proposals[i].page, proposals[i].state = "done" => new.state = "done",
         proposals' = [proposals EXCEPT ![i] = new],
         verdicts' \in [Challenges -> Proposals!States]
  PROVE  ProposalsOK' /\ Len(proposals') = Len(proposals) /\ Follow /\ proposals'[i] = new
<1>1. proposals \in Seq(Proposals!Proposal)
  BY DEF ProposalsOK
<1>2. /\ proposals' \in Seq(Proposals!Proposal) /\ Len(proposals') = Len(proposals)
      /\ DOMAIN proposals' = DOMAIN proposals /\ proposals'[i] = new
      /\ \A j \in DOMAIN proposals \ {i} : proposals'[j] = proposals[j]
  BY <1>1, ItemChanged
<1>3. Follow
  BY <1>2 DEF Follow
<1>4. Proposals!ProposalsAreOfShown'
  <2> SUFFICES ASSUME NEW k \in DOMAIN proposals
               PROVE  \/ proposals'[k].of = proposals'[k].shown
                      \/ proposals'[k].of = Proposals!None /\ \E j \in 1 .. k - 1 :
                           proposals'[j].state = "done" /\ proposals'[j].page = proposals'[k].page
    BY <1>2 DEF Proposals!ProposalsAreOfShown
  <2>1. /\ proposals'[k].of = proposals[k].of /\ proposals'[k].shown = proposals[k].shown
        /\ proposals'[k].page = proposals[k].page
    BY <1>3 DEF Follow
  <2>2. CASE proposals[k].of = proposals[k].shown
    BY <2>1, <2>2
  <2>3. ASSUME proposals[k].of = Proposals!None, NEW j \in 1 .. k - 1,
               proposals[j].state = "done", proposals[j].page = proposals[k].page
        PROVE  proposals'[j].state = "done" /\ proposals'[j].page = proposals'[k].page
    <3>1. j \in DOMAIN proposals
      BY <1>1
    <3> QED
      BY <1>3, <2>1, <2>3, <3>1 DEF Follow
  <2> QED
    BY <2>1, <2>2, <2>3 DEF ProposalsOK, Proposals!ProposalsAreOfShown
<1> QED
  BY <1>2, <1>3, <1>4 DEF ProposalsOK

(* A proposal of this page that is in a block stays the form's excuse.     *)
LEMMA FormFollows ==
  ASSUME FormOfShown, Follow, UNCHANGED <<pages, challenge>>,
         formState'.of = formState.of
  PROVE  FormOfShown'
<1>1. DoneHere => DoneHere'
  BY DEF DoneHere, Follow
<1> QED
  BY <1>1 DEF FormOfShown

LEMMA ProposeKeeps ==
  ASSUME CouncilInv, Proposals!Propose
  PROVE  CouncilInv'
<1> DEFINE new == [proposal |-> formState.proposal, of |-> formState.of, shown |-> challenge.of,
                   signer |-> currentAccount, page |-> pages, live |-> TRUE, state |-> "sent"]
           old == Proposals!Unheard
<1>1. /\ proposals' = Append(old, new) /\ unsub' = Len(proposals') /\ Len(proposals) < MaxProposals
      /\ UNCHANGED <<verdicts, changes, pages, reading, auditHashes, challengesState>>
      /\ UNCHANGED <<challenge, formState, currentAccount, details, picks>>
  BY DEF Proposals!Propose, Proposals!chain, Proposals!list
<1>2. /\ challenge.state = "Pending" /\ formState.proposal # Proposals!None
      /\ currentAccount \in details
  BY DEF Proposals!Propose, Proposals!MayPropose, Proposals!FormShown
<1>3. /\ new \in Proposals!Proposal /\ new.page = pages /\ new.of = formState.of
      /\ new.shown = challenge.of
  <2>1. /\ formState.proposal \in Proposals!Decided
        /\ formState.of \in Challenges \cup {Proposals!None} /\ challenge.of \in Challenges
    BY <1>2 DEF CouncilInv, FormOK, FormOfShown
  <2>2. currentAccount \in Council /\ pages \in Nat
    BY <1>2 DEF CouncilInv, RestOK, ListOK
  <2> QED
    BY <2>1, <2>2 DEF Proposals!Proposal
<1>4. ASSUME NEW i \in DOMAIN proposals
      PROVE  /\ old[i] \in Proposals!Proposal /\ old[i].of = proposals[i].of
             /\ old[i].shown = proposals[i].shown /\ old[i].state = proposals[i].state
             /\ old[i].page = proposals[i].page
  <2> DEFINE was == proposals[i]
             silent == [was EXCEPT !.live = FALSE]
  <2>1. old[i] = IF i = unsub THEN silent ELSE was
    BY DEF Proposals!Unheard
  <2>2. was \in Proposals!Proposal
    BY ProposalType DEF CouncilInv
  <2> HIDE DEF was
  <2>3. /\ silent \in Proposals!Proposal /\ silent.of = was.of /\ silent.shown = was.shown
        /\ silent.state = was.state /\ silent.page = was.page
    BY <2>2 DEF Proposals!Proposal
  <2> HIDE DEF silent, old
  <2>4. /\ old[i] \in Proposals!Proposal /\ old[i].of = was.of
        /\ old[i].shown = was.shown /\ old[i].state = was.state /\ old[i].page = was.page
    BY <2>1, <2>2, <2>3
  <2> QED
    BY <2>4 DEF was
<1>5. proposals \in Seq(Proposals!Proposal) /\ Len(proposals) \in Nat
  BY DEF CouncilInv, ProposalsOK
<1>6. old \in Seq(Proposals!Proposal) /\ Len(old) = Len(proposals) /\ DOMAIN old = DOMAIN proposals
  <2>1. old \in [1 .. Len(proposals) -> Proposals!Proposal]
    BY <1>4, <1>5 DEF Proposals!Unheard
  <2> HIDE DEF old
  <2> QED
    BY <1>5, <2>1
<1> HIDE DEF new, old
<1>7. /\ proposals' \in Seq(Proposals!Proposal) /\ Len(proposals') = Len(proposals) + 1
      /\ proposals'[Len(proposals')] = new
      /\ DOMAIN proposals = 1 .. Len(proposals) /\ DOMAIN proposals' = 1 .. Len(proposals')
      /\ \A i \in DOMAIN proposals : proposals'[i] = old[i]
  BY <1>1, <1>3, <1>5, <1>6
<1>8. Follow
  BY <1>4, <1>5, <1>7 DEF Follow
<1>9. Proposals!ProposalsAreOfShown'
  <2> SUFFICES ASSUME NEW k \in DOMAIN proposals'
               PROVE  \/ proposals'[k].of = proposals'[k].shown
                      \/ proposals'[k].of = Proposals!None /\ \E j \in 1 .. k - 1 :
                           proposals'[j].state = "done" /\ proposals'[j].page = proposals'[k].page
    BY DEF Proposals!ProposalsAreOfShown
  <2>1. CASE k \in DOMAIN proposals
    <3>1. /\ proposals'[k].of = proposals[k].of /\ proposals'[k].shown = proposals[k].shown
          /\ proposals'[k].page = proposals[k].page
      BY <1>8, <2>1 DEF Follow
    <3>2. ASSUME NEW j \in 1 .. k - 1,
                 proposals[j].state = "done", proposals[j].page = proposals[k].page
          PROVE  proposals'[j].state = "done" /\ proposals'[j].page = proposals'[k].page
      <4>1. j \in DOMAIN proposals
        BY <1>5, <1>7, <2>1
      <4> QED
        BY <1>8, <3>1, <3>2, <4>1 DEF Follow
    <3> QED
      BY <2>1, <3>1, <3>2 DEF CouncilInv, ProposalsOK, Proposals!ProposalsAreOfShown
  <2>2. CASE k \notin DOMAIN proposals
    <3>1. k = Len(proposals') /\ proposals'[k] = new /\ k - 1 = Len(proposals)
      BY <1>5, <1>7, <2>2
    <3>2. CASE formState.of = challenge.of
      BY <1>3, <3>1, <3>2
    <3>3. CASE formState.of = Proposals!None /\ DoneHere
      <4>1. PICK j \in DOMAIN proposals :
              proposals[j].state = "done" /\ proposals[j].page = pages
        BY <3>3 DEF DoneHere
      <4>2. j \in 1 .. k - 1 /\ proposals'[j].state = "done" /\ proposals'[j].page = pages
        BY <1>7, <1>8, <3>1, <4>1 DEF Follow
      <4> QED
        BY <1>3, <3>1, <3>3, <4>2
    <3> QED
      BY <3>2, <3>3 DEF CouncilInv, FormOK, FormOfShown
  <2> QED
    BY <2>1, <2>2
<1>10. ProposalsOK'
  <2>1. Len(proposals') <= MaxProposals
    <3>1. MaxProposals \in Nat
      BY PagesAssumption
    <3> QED
      BY <1>1, <1>5, <1>7, <3>1
  <2> QED
    BY <1>1, <1>7, <1>9, <2>1 DEF CouncilInv, ProposalsOK
<1>11. FormOK'
  <2>1. FormOfShown'
    BY <1>1, <1>8, FormFollows DEF CouncilInv, FormOK
  <2> QED
    BY <1>1, <1>5, <1>7, <2>1 DEF CouncilInv, FormOK
<1> QED
  BY <1>1, <1>10, <1>11 DEF CouncilInv, ListOK, RestOK

LEMMA CouncilStep ==
  ASSUME CouncilInv, Proposals!Next
  PROVE  CouncilInv'
<1>0. MaxPicks \in Nat /\ MaxVerdicts \in Nat
  BY PagesAssumption
<1>1. CASE Proposals!SetDetails
  <2>1. /\ Proposals!Shows(currentAccount, Council) /\ details' = Council
        /\ UNCHANGED <<verdicts, changes, currentAccount, proposals, picks>>
    BY <1>1 DEF Proposals!SetDetails, Proposals!chain
  <2>2. ListOK' /\ FormOK'
    BY <2>1, ShowsKeeps DEF CouncilInv
  <2> QED
    BY <2>1, <2>2 DEF CouncilInv, RestOK, ProposalsOK, Proposals!ProposalsAreOfShown
<1>2. ASSUME NEW a \in Accounts, Proposals!SwitchAccount(a)
      PROVE  CouncilInv'
  <2>1. /\ Proposals!Shows(a, details) /\ currentAccount' = a /\ picks < MaxPicks
        /\ picks' = picks + 1 /\ UNCHANGED <<verdicts, changes, details, proposals>>
    BY <1>2 DEF Proposals!SwitchAccount, Proposals!chain
  <2>2. ListOK' /\ FormOK'
    BY <2>1, ShowsKeeps DEF CouncilInv
  <2>3. RestOK'
    BY <1>0, <2>1 DEF CouncilInv, RestOK
  <2> QED
    BY <2>1, <2>2, <2>3 DEF CouncilInv, ProposalsOK, Proposals!ProposalsAreOfShown
<1>3. CASE Proposals!SetAuditHashes
  <2>1. /\ reading /\ reading' = FALSE
        /\ auditHashes' = {AuditOf[c] : c \in {d \in Challenges : verdicts[d] # "absent"}}
        /\ UNCHANGED <<verdicts, changes, pages, challengesState, challenge, formState, unsub>>
        /\ UNCHANGED <<currentAccount, details, proposals, picks>>
    BY <1>3 DEF Proposals!SetAuditHashes, Proposals!chain, Proposals!form
  <2>2. auditHashes' \subseteq Audits
    BY <2>1, PagesAssumption
  <2>3. currentAccount \in details
    BY <2>1 DEF CouncilInv, ListOK
  <2>4. ListOK'
    BY <2>1, <2>2, <2>3 DEF CouncilInv, ListOK
  <2> QED
    BY <2>1, <2>4 DEF CouncilInv, FormOK, FormOfShown, DoneHere, RestOK, ProposalsOK,
         Proposals!ProposalsAreOfShown
<1>4. CASE Proposals!Propose
  BY <1>4, ProposeKeeps
<1>5. ASSUME NEW c \in Challenges, Proposals!SetChallengesState(c)
      PROVE  CouncilInv'
  <2>1. /\ AuditOf[c] \in auditHashes
        /\ challengesState' = [challengesState EXCEPT ![c] = verdicts[c]]
        /\ UNCHANGED <<verdicts, changes, pages, reading, auditHashes>>
        /\ UNCHANGED <<challenge, formState, unsub, currentAccount, details, proposals, picks>>
    BY <1>5 DEF Proposals!SetChallengesState, Proposals!chain, Proposals!form
  <2>2. currentAccount \in details
    BY <2>1 DEF CouncilInv, ListOK
  <2>3. challengesState' \in [Challenges -> Proposals!States]
    BY <2>1 DEF CouncilInv, ListOK, ProposalsOK
  <2>4. ListOK'
    BY <2>1, <2>2, <2>3 DEF CouncilInv, ListOK
  <2> QED
    BY <2>1, <2>4 DEF CouncilInv, FormOK, FormOfShown, DoneHere, RestOK, ProposalsOK,
         Proposals!ProposalsAreOfShown
<1>6. ASSUME NEW c \in Challenges, Proposals!HandleClick(c)
      PROVE  CouncilInv'
  <2> DEFINE named == Proposals!FormFor(c)
  <2>1. /\ challengesState[c] # "absent"
        /\ challenge' = [of |-> c, state |-> challengesState[c]] /\ formState' = named
        /\ unsub' = IF challengesState[c] = "Pending" THEN unsub ELSE 0
        /\ UNCHANGED <<verdicts, changes, pages, reading, auditHashes, challengesState>>
        /\ UNCHANGED <<currentAccount, details, proposals, picks>>
    BY <1>6 DEF Proposals!HandleClick, Proposals!chain, Proposals!list
  <2>2. currentAccount \in details /\ challengesState[c] \in Proposals!States
    BY <2>1 DEF CouncilInv, ListOK
  <2>3. /\ named \in [proposal : Proposals!Decided \cup {Proposals!None},
                      of : Challenges \cup {Proposals!None}]
        /\ named.of = c
    BY DEF Proposals!FormFor, Proposals!Initial
  <2> HIDE DEF named
  <2>4. unsub' \in 0 .. Len(proposals')
    BY <2>1 DEF CouncilInv, FormOK
  <2>5. FormOK'
    <3>1. challenge'.of = c /\ formState'.of = c
      BY <2>1, <2>3
    <3>2. FormOfShown'
      BY <3>1 DEF FormOfShown
    <3> QED
      BY <2>1, <2>2, <2>3, <2>4, <3>2 DEF FormOK
  <2> QED
    BY <2>1, <2>5 DEF CouncilInv, ListOK, RestOK, ProposalsOK,
         Proposals!ProposalsAreOfShown
<1>7. ASSUME NEW p \in Proposals!Decided, Proposals!HandleChange(p)
      PROVE  CouncilInv'
  <2> DEFINE was == formState
             chosen == [was EXCEPT !.proposal = p]
  <2>1. /\ formState' = chosen
        /\ UNCHANGED <<verdicts, changes, pages, reading, auditHashes, challengesState>>
        /\ UNCHANGED <<challenge, unsub, currentAccount, details, proposals, picks>>
    BY <1>7 DEF Proposals!HandleChange, Proposals!chain, Proposals!list
  <2>2. was \in [proposal : Proposals!Decided \cup {Proposals!None},
                 of : Challenges \cup {Proposals!None}]
    BY DEF CouncilInv, FormOK
  <2> HIDE DEF was
  <2>3. /\ chosen \in [proposal : Proposals!Decided \cup {Proposals!None},
                       of : Challenges \cup {Proposals!None}]
        /\ chosen.of = was.of
    BY <2>2
  <2> HIDE DEF chosen
  <2>4. FormOK'
    BY <2>1, <2>3 DEF CouncilInv, FormOK, FormOfShown, DoneHere, was
  <2> QED
    BY <2>1, <2>4 DEF CouncilInv, ListOK, RestOK, ProposalsOK,
         Proposals!ProposalsAreOfShown
<1>8. ASSUME NEW c \in Challenges, Proposals!OthersChange(c)
      PROVE  CouncilInv'
  <2> DEFINE told == IF verdicts[c] = "absent" THEN "Pending" ELSE "Accepted"
  <2>1. /\ changes < MaxVerdicts /\ changes' = changes + 1
        /\ verdicts' = [verdicts EXCEPT ![c] = told]
        /\ UNCHANGED <<pages, reading, auditHashes, challengesState, challenge, formState, unsub>>
        /\ UNCHANGED <<currentAccount, details, proposals, picks>>
    BY <1>8 DEF Proposals!OthersChange, Proposals!list, Proposals!form
  <2>2. told \in Proposals!States
    BY DEF Proposals!States, Proposals!Decided
  <2> HIDE DEF told
  <2>3. verdicts' \in [Challenges -> Proposals!States]
    BY <2>1, <2>2 DEF CouncilInv, ProposalsOK
  <2>4. ProposalsOK'
    BY <2>1, <2>3 DEF CouncilInv, ProposalsOK, Proposals!ProposalsAreOfShown
  <2>5. RestOK'
    BY <1>0, <2>1 DEF CouncilInv, RestOK
  <2> QED
    BY <2>1, <2>4, <2>5 DEF CouncilInv, ListOK, FormOK, FormOfShown, DoneHere
<1>9. ASSUME NEW i \in DOMAIN proposals, Proposals!InBlock(i)
      PROVE  CouncilInv'
  <2> DEFINE p == proposals[i]
             new == [p EXCEPT !.state = "done"]
  <2>1. /\ proposals' = [proposals EXCEPT ![i] = new]
        /\ \/ p.of # Proposals!None /\ verdicts' = [verdicts EXCEPT ![p.of] = p.proposal]
           \/ UNCHANGED verdicts
        /\ formState' = IF p.live /\ p.page = pages THEN Proposals!Initial ELSE formState
        /\ UNCHANGED <<changes, pages, reading, auditHashes, challengesState, challenge, unsub>>
        /\ UNCHANGED <<currentAccount, details, picks>>
    BY <1>9 DEF Proposals!InBlock, Proposals!list
  <2>2. /\ p \in Proposals!Proposal /\ p.proposal \in Proposals!Decided
        /\ p.of \in Challenges \cup {Proposals!None}
    BY ProposalType DEF CouncilInv
  <2> HIDE DEF p
  <2>3. /\ new \in Proposals!Proposal /\ new.of = p.of /\ new.shown = p.shown
        /\ new.page = p.page /\ new.state = "done"
    BY <2>2 DEF Proposals!Proposal
  <2> HIDE DEF new
  <2>4. verdicts' \in [Challenges -> Proposals!States]
    <3>1. p.proposal \in Proposals!States
      BY <2>2 DEF Proposals!States
    <3> QED
      BY <2>1, <2>2, <3>1 DEF CouncilInv, ProposalsOK
  <2>5. ProposalsOK' /\ Len(proposals') = Len(proposals) /\ Follow /\ proposals'[i] = new
    BY <2>1, <2>3, <2>4, ProposalGoes DEF CouncilInv, p
  <2>6. FormOfShown'
    <3>1. CASE p.live /\ p.page = pages
      <4>1. formState' = Proposals!Initial
        BY <2>1, <3>1
      <4>2. DoneHere'
        BY <2>1, <2>3, <2>5, <3>1 DEF DoneHere, Follow
      <4> QED
        BY <2>1, <4>1, <4>2, Beginnings DEF CouncilInv, FormOK, FormOfShown
    <3>2. CASE ~(p.live /\ p.page = pages)
      BY <2>1, <2>5, <3>2, FormFollows DEF CouncilInv, FormOK
    <3> QED
      BY <3>1, <3>2
  <2>7. FormOK'
    BY <2>1, <2>5, <2>6, Beginnings DEF CouncilInv, FormOK
  <2> QED
    BY <2>1, <2>5, <2>7 DEF CouncilInv, ListOK, RestOK
<1>10. ASSUME NEW i \in DOMAIN proposals, Proposals!Failed(i)
       PROVE  CouncilInv'
  <2> DEFINE p == proposals[i]
             new == [p EXCEPT !.state = "failed", !.live = FALSE]
  <2>1. /\ proposals' = [proposals EXCEPT ![i] = new]
        /\ unsub' = IF unsub = i THEN 0 ELSE unsub
        /\ UNCHANGED <<verdicts, changes, pages, reading, auditHashes, challengesState>>
        /\ UNCHANGED <<challenge, formState, currentAccount, details, picks>>
        /\ p.state = "sent"
    BY <1>10 DEF Proposals!Failed, Proposals!chain, Proposals!list
  <2>2. p \in Proposals!Proposal
    BY ProposalType DEF CouncilInv
  <2> HIDE DEF p
  <2>3. /\ new \in Proposals!Proposal /\ new.of = p.of /\ new.shown = p.shown
        /\ new.page = p.page /\ new.state = "failed"
    BY <2>2 DEF Proposals!Proposal
  <2> HIDE DEF new
  <2>4. verdicts' \in [Challenges -> Proposals!States]
    BY <2>1 DEF CouncilInv, ProposalsOK
  <2>5. ProposalsOK' /\ Len(proposals') = Len(proposals) /\ Follow
    BY <2>1, <2>3, <2>4, ProposalGoes DEF CouncilInv, p
  <2>6. FormOK'
    <3>1. FormOfShown'
      BY <2>1, <2>5, FormFollows DEF CouncilInv, FormOK
    <3> QED
      BY <2>1, <2>5, <3>1 DEF CouncilInv, FormOK
  <2> QED
    BY <2>1, <2>5, <2>6 DEF CouncilInv, ListOK, RestOK
<1> QED
  BY <1>1, <1>2, <1>3, <1>4, <1>5, <1>6, <1>7, <1>8, <1>9, <1>10 DEF Proposals!Next
-----------------------------------------------------------------------------
(* Applicants.  Who is told last is told the entry of the register.        *)
LastTold ==
  \A s \in live : callbacks[s] # << >> => callbacks[s][Len(callbacks[s])] = register[s[2]]

(* No subscription of an account before was left behind.                   *)
NoneLeft == \A s \in live : s[1] = Approvals!Current

(* What the list of the current reading says of a candidate, when it has   *)
(* heard of it; and if it says anything, it is the list on the page.       *)
Heard(x) ==
  LET list == readings[Approvals!Current].signedUps
  IN  /\ currentAccount \in register[x].approvedBy => x \notin list /\ applicants = list
      /\ register[x].standing = "pending" /\ currentAccount \notin register[x].approvedBy
           => x \in list /\ applicants = list

AllHeard ==
  \A x \in Candidates :
    <<Approvals!Current, x>> \in live /\ callbacks[<<Approvals!Current, x>>] = << >> => Heard(x)

ApprovalsInv ==
  /\ Approvals!TypeOK /\ Len(readings) # 0
  /\ LastTold
  /\ NoneLeft => AllHeard

Reading == [account : Accounts, signedUps : SUBSET Candidates]

LEMMA EntriesType ==
  /\ Approvals!NoEntry \in Approvals!Entry /\ Approvals!NewEntry \in Approvals!Entry
  /\ Approvals!NoEntry.standing = "none" /\ Approvals!NoEntry.approvedBy = {}
  /\ Approvals!NewEntry.standing = "pending"
BY DEF Approvals!NoEntry, Approvals!NewEntry, Approvals!Entry

LEMMA ApprovalsInit == Approvals!Init => ApprovalsInv
<1> SUFFICES ASSUME Approvals!Init PROVE ApprovalsInv
  OBVIOUS
<1> DEFINE first == [account |-> currentAccount, signedUps |-> {}]
<1>1. first \in Reading /\ first.account = currentAccount
  BY DEF Approvals!Init, Reading
<1>2. readings = <<first>>
  BY DEF Approvals!Init
<1> HIDE DEF first
<1>3. /\ readings \in Seq(Reading) /\ Len(readings) = 1 /\ DOMAIN readings = {1}
      /\ readings[1].account = currentAccount
  BY <1>1, <1>2
<1>4. 0 \in 0 .. MaxChanges
  <2>1. MaxChanges \in Nat
    BY PagesAssumption
  <2> QED
    BY <2>1
<1>5. /\ register \in [Candidates -> Approvals!Entry]
      /\ \A x \in Candidates :
           register[x].standing = "none" => register[x] = Approvals!NoEntry
  BY EntriesType DEF Approvals!Init
<1>6. /\ currentAccount \in Accounts /\ reading = {1} /\ asked = {} /\ live = {}
      /\ callbacks = [s \in {} |-> << >>] /\ applicants = {} /\ dropdownValue = Approvals!None
      /\ approving = {} /\ changes = 0
  BY DEF Approvals!Init
<1>7. Approvals!TypeOK
  BY <1>3, <1>4, <1>5, <1>6 DEF Approvals!TypeOK, Approvals!Current, Reading
<1> QED
  BY <1>3, <1>6, <1>7 DEF ApprovalsInv, LastTold, AllHeard

(* The subscriptions are the same, and so is what they told.               *)
LEMMA NothingTold ==
  ASSUME ApprovalsInv, Approvals!TypeOK',
         UNCHANGED <<register, currentAccount, readings, live, callbacks, applicants>>
  PROVE  ApprovalsInv'
BY DEF ApprovalsInv, LastTold, NoneLeft, AllHeard, Heard, Approvals!Current

LEMMA SwitchStep ==
  ASSUME ApprovalsInv, NEW a \in Accounts, Approvals!SwitchAccount(a)
  PROVE  ApprovalsInv'
<1> DEFINE next == [account |-> a, signedUps |-> {}]
           n == Len(readings) + 1
<1>1. /\ currentAccount' = a /\ readings' = Append(readings, next)
      /\ reading' = reading \cup {n} /\ live' = live \ Approvals!Unsubscribed
      /\ callbacks' = [s \in live \ Approvals!Unsubscribed |-> callbacks[s]]
      /\ dropdownValue' = Approvals!None
      /\ UNCHANGED <<register, asked, applicants, approving, changes>>
  BY DEF Approvals!SwitchAccount
<1>2. next \in Reading /\ next.account = a /\ readings \in Seq(Reading) /\ Len(readings) \in Nat
  BY DEF Reading, ApprovalsInv, Approvals!TypeOK
<1> HIDE DEF next
<1>3. /\ readings' \in Seq(Reading) /\ Len(readings') = n /\ readings'[n].account = a
      /\ DOMAIN readings' = DOMAIN readings \cup {n} /\ n \notin DOMAIN readings
  BY <1>1, <1>2
<1> HIDE DEF n
<1>4. /\ callbacks' \in [live' -> Seq(Approvals!Entry)]
      /\ \A s \in live' : callbacks'[s] = callbacks[s]
  BY <1>1 DEF ApprovalsInv, Approvals!TypeOK
<1>5. asked' \cup live' \subseteq (DOMAIN readings') \X Candidates
  BY <1>1, <1>3 DEF ApprovalsInv, Approvals!TypeOK
<1>6. Approvals!TypeOK'
  BY <1>1, <1>3, <1>4, <1>5 DEF ApprovalsInv, Approvals!TypeOK, Approvals!Current, Reading
<1>7. LastTold'
  BY <1>1, <1>4 DEF ApprovalsInv, LastTold
<1>8. \A x \in Candidates : <<n, x>> \notin live'
  BY <1>1, <1>3 DEF ApprovalsInv, Approvals!TypeOK
<1>9. AllHeard'
  BY <1>3, <1>8 DEF AllHeard, Approvals!Current
<1>10. Len(readings') # 0
  BY <1>2, <1>3 DEF n
<1> QED
  BY <1>6, <1>7, <1>9, <1>10 DEF ApprovalsInv

LEMMA SubscribedStep ==
  ASSUME ApprovalsInv, NEW s \in asked, Approvals!Subscribed(s)
  PROVE  ApprovalsInv'
<1> DEFINE entry == register[s[2]]
<1>1. /\ asked' = asked \ {s} /\ live' = live \cup {s}
      /\ callbacks' = [t \in live \cup {s} |-> IF t = s THEN <<entry>> ELSE callbacks[t]]
      /\ UNCHANGED <<register, currentAccount, readings, reading, applicants, dropdownValue>>
      /\ UNCHANGED <<approving, changes>>
  BY DEF Approvals!Subscribed
<1>2. s \in (DOMAIN readings) \X Candidates /\ entry \in Approvals!Entry
  BY DEF ApprovalsInv, Approvals!TypeOK
<1> HIDE DEF entry
<1>3. /\ <<entry>> \in Seq(Approvals!Entry) /\ <<entry>> # << >>
      /\ <<entry>>[Len(<<entry>>)] = entry
  BY <1>2
<1> DEFINE told == <<entry>>
<1> HIDE DEF told
<1>4. /\ callbacks' \in [live' -> Seq(Approvals!Entry)] /\ callbacks'[s] = told
      /\ \A t \in live' : t # s => t \in live /\ callbacks'[t] = callbacks[t]
  BY <1>1, <1>3 DEF ApprovalsInv, Approvals!TypeOK, told
<1>5. asked' \cup live' \subseteq (DOMAIN readings') \X Candidates
  BY <1>1, <1>2 DEF ApprovalsInv, Approvals!TypeOK
<1>6. Approvals!TypeOK'
  BY <1>1, <1>4, <1>5 DEF ApprovalsInv, Approvals!TypeOK, Approvals!Current
<1>7. LastTold'
  <2>1. told[Len(told)] = register'[s[2]] /\ told # << >>
    BY <1>1, <1>3 DEF told, entry
  <2> QED
    BY <1>1, <1>4, <2>1 DEF ApprovalsInv, LastTold
<1>8. ASSUME NoneLeft' PROVE AllHeard'
  <2>1. NoneLeft /\ AllHeard
    BY <1>1, <1>8 DEF NoneLeft, Approvals!Current, ApprovalsInv
  <2>2. told # << >>
    BY <1>3 DEF told
  <2> QED
    BY <1>1, <1>4, <2>1, <2>2 DEF AllHeard, Heard, Approvals!Current
<1> QED
  BY <1>1, <1>6, <1>7, <1>8 DEF ApprovalsInv

(* The register changes, and every subscription to the candidate is told.  *)
LEMMA BecomesStep ==
  ASSUME ApprovalsInv, NEW x \in Candidates, NEW entry \in Approvals!Entry,
         Approvals!Becomes(x, entry), approving' \subseteq approving,
         entry.standing = "none" => entry = Approvals!NoEntry
  PROVE  ApprovalsInv'
<1>1. /\ changes < MaxChanges /\ changes' = changes + 1
      /\ register' = [register EXCEPT ![x] = entry]
      /\ callbacks' = [s \in live |-> IF s[2] = x THEN Append(callbacks[s], entry)
                                      ELSE callbacks[s]]
      /\ UNCHANGED <<currentAccount, readings, reading, asked, live, applicants, dropdownValue>>
  BY DEF Approvals!Becomes
<1>2. /\ register' \in [Candidates -> Approvals!Entry] /\ register'[x] = entry
      /\ \A y \in Candidates \ {x} : register'[y] = register[y]
  BY <1>1 DEF ApprovalsInv, Approvals!TypeOK
<1>3. ASSUME NEW s \in live
      PROVE  /\ callbacks'[s] \in Seq(Approvals!Entry)
             /\ s[2] = x => callbacks'[s] # << >> /\ callbacks'[s][Len(callbacks'[s])] = entry
             /\ s[2] # x => callbacks'[s] = callbacks[s]
             /\ s[2] \in Candidates
  <2> DEFINE q == callbacks[s]
             added == Append(q, entry)
  <2>1. q \in Seq(Approvals!Entry) /\ s[2] \in Candidates
    BY DEF ApprovalsInv, Approvals!TypeOK
  <2> HIDE DEF q
  <2>2. added \in Seq(Approvals!Entry) /\ added # << >> /\ added[Len(added)] = entry
    <3>1. Len(q) \in Nat /\ Len(added) = Len(q) + 1 /\ added[Len(q) + 1] = entry
      BY <2>1, AppendProperties
    <3>2. added \in Seq(Approvals!Entry) /\ Len(added) # 0
      BY <2>1, <3>1, AppendProperties
    <3> QED
      BY <3>1, <3>2
  <2>3. callbacks'[s] = IF s[2] = x THEN added ELSE q
    BY <1>1 DEF q
  <2> HIDE DEF added
  <2> QED
    BY <2>1, <2>2, <2>3 DEF q
<1>4. callbacks' \in [live' -> Seq(Approvals!Entry)]
  BY <1>1, <1>3
<1>5. changes' \in 0 .. MaxChanges
  <2>1. MaxChanges \in Nat
    BY PagesAssumption
  <2> QED
    BY <1>1, <2>1 DEF ApprovalsInv, Approvals!TypeOK
<1>6. Approvals!TypeOK'
  BY <1>1, <1>2, <1>4, <1>5 DEF ApprovalsInv, Approvals!TypeOK, Approvals!Current
<1>7. LastTold'
  BY <1>1, <1>2, <1>3 DEF ApprovalsInv, LastTold
<1>8. ASSUME NoneLeft' PROVE AllHeard'
  <2>1. AllHeard
    BY <1>1, <1>8 DEF NoneLeft, Approvals!Current, ApprovalsInv
  <2>2. ASSUME NEW y \in Candidates, NEW s \in live, s = <<Approvals!Current, y>>,
               callbacks'[s] = << >>
        PROVE  y # x /\ register'[y] = register[y] /\ callbacks[s] = << >>
    BY <1>2, <1>3, <2>2
  <2> QED
    BY <1>1, <2>1, <2>2 DEF AllHeard, Heard, Approvals!Current
<1> QED
  BY <1>1, <1>6, <1>7, <1>8 DEF ApprovalsInv

(* A reading goes on with another list, and stays the account's.           *)
WithList(rs, r, list) == [rs EXCEPT ![r] = [@ EXCEPT !.signedUps = list]]

LEMMA ReadingGoes ==
  ASSUME NEW rs \in Seq(Reading), NEW r \in DOMAIN rs, NEW list \in SUBSET Candidates
  PROVE  /\ WithList(rs, r, list) \in Seq(Reading) /\ Len(WithList(rs, r, list)) = Len(rs)
         /\ DOMAIN WithList(rs, r, list) = DOMAIN rs
         /\ WithList(rs, r, list)[r].signedUps = list
         /\ \A t \in DOMAIN rs : WithList(rs, r, list)[t].account = rs[t].account
<1> DEFINE old == rs[r]
           new == [old EXCEPT !.signedUps = list]
           next == WithList(rs, r, list)
<1>1. old \in Reading /\ next = [rs EXCEPT ![r] = new]
  BY ElementOfSeq, LenProperties DEF WithList
<1> HIDE DEF old, next
<1>2. new \in Reading /\ new.signedUps = list /\ new.account = old.account
  BY <1>1 DEF Reading
<1> HIDE DEF new
<1>3. /\ next \in Seq(Reading) /\ Len(next) = Len(rs) /\ DOMAIN next = DOMAIN rs /\ next[r] = new
      /\ \A t \in DOMAIN rs \ {r} : next[t] = rs[t]
  BY <1>1, <1>2, ItemChanged
<1> QED
  BY <1>2, <1>3 DEF old, next

(* What is told is not told again, and the last of it is told last.        *)
LEMMA TailTold ==
  ASSUME NEW S, NEW q \in Seq(S), q # << >>
  PROVE  /\ Head(q) \in S /\ Tail(q) \in Seq(S)
         /\ Tail(q) # << >> => Tail(q)[Len(Tail(q))] = q[Len(q)]
         /\ Tail(q) = << >> => Head(q) = q[Len(q)]
<1> DEFINE tail == Tail(q)
<1>1. Len(q) \in Nat /\ tail \in Seq(S) /\ Len(tail) = Len(q) - 1
      /\ \A i \in 1 .. Len(tail) : tail[i] = q[i + 1]
  BY HeadTailProperties
<1>2. Head(q) = q[1] /\ Head(q) \in S
  BY HeadTailProperties
<1> HIDE DEF tail
<1>3. ASSUME tail # << >> PROVE tail[Len(tail)] = q[Len(q)]
  <2>1. Len(tail) \in Nat /\ Len(tail) # 0
    BY <1>1, <1>3, EmptySeq, LenProperties
  <2>2. Len(tail) \in 1 .. Len(tail) /\ Len(tail) + 1 = Len(q)
    BY <1>1, <2>1
  <2> QED
    BY <1>1, <2>2
<1>4. ASSUME tail = << >> PROVE Head(q) = q[Len(q)]
  <2>1. Len(tail) = 0
    BY <1>1, <1>4, EmptySeq
  <2>2. Len(q) = 1
    BY <1>1, <2>1
  <2> QED
    BY <1>2, <2>2
<1> QED
  BY <1>1, <1>2, <1>3, <1>4 DEF tail

(* A callback tells of its candidate.  When it is the last one that the    *)
(* subscription of the account has, it tells the entry of the register.    *)
LEMMA SetApplicantsStep ==
  ASSUME ApprovalsInv, NEW s \in live, Approvals!SetApplicants(s)
  PROVE  ApprovalsInv'
<1> DEFINE result == Head(callbacks[s])
           rest == Tail(callbacks[s])
           r == s[1]
           account == readings[r].account
           list == Approvals!Listed(readings[r].signedUps, s[2], result, account)
<1>1. /\ callbacks[s] # << >> /\ callbacks' = [callbacks EXCEPT ![s] = rest]
      /\ IF Approvals!PassedOver(result, account) THEN UNCHANGED <<readings, applicants>>
         ELSE /\ readings' = [readings EXCEPT ![r] = [@ EXCEPT !.signedUps = list]]
              /\ applicants' = list
      /\ UNCHANGED <<register, currentAccount, reading, asked, live, dropdownValue, approving>>
      /\ UNCHANGED changes
  BY DEF Approvals!SetApplicants
<1>2. /\ callbacks[s] \in Seq(Approvals!Entry) /\ r \in DOMAIN readings /\ s[2] \in Candidates
      /\ s = <<r, s[2]>> /\ readings \in Seq(Reading) /\ readings[r] \in Reading
  <2>1. /\ callbacks[s] \in Seq(Approvals!Entry) /\ s \in (DOMAIN readings) \X Candidates
        /\ readings \in Seq(Reading)
    BY DEF ApprovalsInv, Approvals!TypeOK, Reading
  <2> QED
    BY <2>1, ElementOfSeq, LenProperties
<1>3. /\ result \in Approvals!Entry /\ rest \in Seq(Approvals!Entry)
      /\ rest # << >> => rest[Len(rest)] = callbacks[s][Len(callbacks[s])]
      /\ rest = << >> => result = callbacks[s][Len(callbacks[s])]
  BY <1>1, <1>2, TailTold
<1>4. list \subseteq Candidates
  BY <1>2 DEF Approvals!Listed, Reading
<1> HIDE DEF list
<1>5. /\ readings' \in Seq(Reading) /\ Len(readings') = Len(readings)
      /\ DOMAIN readings' = DOMAIN readings
      /\ \A t \in DOMAIN readings : readings'[t].account = readings[t].account
      /\ ~Approvals!PassedOver(result, account)
           => readings'[r].signedUps = list /\ applicants' = list
  <2>1. CASE Approvals!PassedOver(result, account)
    BY <1>1, <1>2, <2>1
  <2>2. CASE ~Approvals!PassedOver(result, account)
    <3>1. readings' = WithList(readings, r, list) /\ applicants' = list
      BY <1>1, <2>2 DEF WithList
    <3>2. /\ readings' \in Seq(Reading) /\ Len(readings') = Len(readings)
          /\ DOMAIN readings' = DOMAIN readings /\ readings'[r].signedUps = list
          /\ \A t \in DOMAIN readings : readings'[t].account = readings[t].account
      BY <1>2, <1>4, <3>1, ReadingGoes
    <3> QED
      BY <3>1, <3>2
  <2> QED
    BY <2>1, <2>2
<1>6. /\ callbacks' \in [live' -> Seq(Approvals!Entry)] /\ callbacks'[s] = rest
      /\ \A t \in live \ {s} : callbacks'[t] = callbacks[t]
  <2>1. callbacks \in [live -> Seq(Approvals!Entry)]
    BY DEF ApprovalsInv, Approvals!TypeOK
  <2> HIDE DEF rest
  <2> QED
    BY <1>1, <1>3, <2>1
<1>7. Approvals!TypeOK'
  <2>1. readings'[Len(readings')].account = currentAccount'
    <3>1. Len(readings) \in DOMAIN readings
      BY <1>2, LenProperties DEF ApprovalsInv
    <3> QED
      BY <1>1, <1>5, <3>1 DEF ApprovalsInv, Approvals!TypeOK, Approvals!Current
  <2>2. applicants' \subseteq Candidates
    BY <1>1, <1>4 DEF ApprovalsInv, Approvals!TypeOK
  <2> QED
    BY <1>1, <1>5, <1>6, <2>1, <2>2 DEF ApprovalsInv, Approvals!TypeOK, Approvals!Current, Reading
<1>8. LastTold'
  <2> HIDE DEF rest
  <2>1. ASSUME NEW t \in live, callbacks'[t] # << >>
        PROVE  callbacks'[t][Len(callbacks'[t])] = register[t[2]]
    <3>1. CASE t = s
      BY <1>1, <1>3, <1>6, <2>1, <3>1 DEF ApprovalsInv, LastTold
    <3>2. CASE t # s
      BY <1>6, <2>1, <3>2 DEF ApprovalsInv, LastTold
    <3> QED
      BY <3>1, <3>2
  <2> QED
    BY <1>1, <2>1 DEF LastTold
<1>9. ASSUME NoneLeft' PROVE AllHeard'
  <2>1. NoneLeft /\ AllHeard /\ r = Approvals!Current /\ account = currentAccount
    BY <1>1, <1>5, <1>9 DEF NoneLeft, Approvals!Current, ApprovalsInv, Approvals!TypeOK
  <2> DEFINE now == readings[r].signedUps
             a == currentAccount
  <2>2. list = Approvals!Listed(now, s[2], result, a)
    BY <2>1 DEF list
  <2>3. \/ readings'[r].signedUps = now /\ applicants' = applicants
        \/ readings'[r].signedUps = list /\ applicants' = list
    BY <1>1, <1>5
  <2>4. ASSUME NEW x \in Candidates, <<Approvals!Current, x>> \in live,
               callbacks'[<<Approvals!Current, x>>] = << >>
        PROVE  Heard(x)'
    <3> DEFINE then == readings'[r].signedUps
    <3>0. Approvals!Current' = r
      BY <1>5, <2>1 DEF Approvals!Current
    <3> SUFFICES /\ a \in register[x].approvedBy => x \notin then /\ applicants' = then
                 /\ register[x].standing = "pending" /\ a \notin register[x].approvedBy
                      => x \in then /\ applicants' = then
      BY <1>1, <3>0 DEF Heard
    <3>1. CASE s[2] = x
      <4>1. s = <<Approvals!Current, x>>
        BY <1>2, <2>1, <3>1
      <4>2. result = register[x]
        BY <1>1, <1>3, <1>6, <2>4, <3>1, <4>1 DEF ApprovalsInv, LastTold
      <4>3. register[x].standing = "none" => register[x].approvedBy = {}
        BY EntriesType DEF ApprovalsInv, Approvals!TypeOK
      <4>4. CASE Approvals!PassedOver(result, account)
        BY <2>1, <4>2, <4>3, <4>4 DEF Approvals!PassedOver
      <4>5. CASE ~Approvals!PassedOver(result, account)
        <5>1. then = list /\ applicants' = list
          BY <1>5, <4>5
        <5>2. list = IF a \in register[x].approvedBy THEN now \ {x} ELSE now \cup {x}
          BY <2>2, <3>1, <4>2 DEF Approvals!Listed
        <5> QED
          BY <5>1, <5>2
      <4> QED
        BY <4>4, <4>5
    <3>2. CASE s[2] # x
      <4>1. callbacks[<<Approvals!Current, x>>] = << >>
        <5>1. <<Approvals!Current, x>> # s
          BY <1>2, <3>2
        <5> QED
          BY <1>6, <2>4, <5>1
      <4>2. Heard(x)
        BY <2>1, <2>4, <4>1 DEF AllHeard
      <4>3. /\ a \in register[x].approvedBy => x \notin now /\ applicants = now
            /\ register[x].standing = "pending" /\ a \notin register[x].approvedBy
                 => x \in now /\ applicants = now
        BY <2>1, <4>2 DEF Heard
      <4>4. x \in list <=> x \in now
        BY <2>2, <3>2 DEF Approvals!Listed
      <4> QED
        BY <2>3, <4>3, <4>4
    <3> QED
      BY <3>1, <3>2
  <2> QED
    BY <1>1, <1>5, <2>4 DEF AllHeard, Approvals!Current
<1>10. Len(readings') # 0
  BY <1>5 DEF ApprovalsInv
<1> QED
  BY <1>7, <1>8, <1>9, <1>10 DEF ApprovalsInv

LEMMA ApprovalsStep ==
  ASSUME ApprovalsInv, Approvals!Next
  PROVE  ApprovalsInv'
<1>1. ASSUME NEW r \in reading, Approvals!Answered(r) \/ Approvals!ReadLost(r)
      PROVE  ApprovalsInv'
  <2>1. /\ reading' = reading \ {r} /\ (asked' = asked \cup ({r} \X Candidates) \/ asked' = asked)
        /\ UNCHANGED <<register, currentAccount, readings, live, callbacks, applicants>>
        /\ UNCHANGED <<dropdownValue, approving, changes>>
    BY <1>1 DEF Approvals!Answered, Approvals!ReadLost
  <2>2. r \in DOMAIN readings
    BY DEF ApprovalsInv, Approvals!TypeOK
  <2>3. Approvals!TypeOK'
    BY <2>1, <2>2 DEF ApprovalsInv, Approvals!TypeOK, Approvals!Current
  <2> QED
    BY <2>1, <2>3, NothingTold
<1>2. CASE Approvals!Approve
  <2>1. /\ currentAccount \in Ranked /\ dropdownValue # Approvals!None
        /\ approving' = approving \cup {<<currentAccount, dropdownValue>>}
        /\ dropdownValue' = Approvals!None
        /\ UNCHANGED <<register, currentAccount, readings, live, callbacks, applicants>>
        /\ UNCHANGED <<reading, asked, changes>>
    BY <1>2 DEF Approvals!Approve, Approvals!IsAllowed
  <2>2. approving' \subseteq Ranked \X Candidates
    BY <2>1 DEF ApprovalsInv, Approvals!TypeOK
  <2>3. Approvals!TypeOK'
    BY <2>1, <2>2 DEF ApprovalsInv, Approvals!TypeOK, Approvals!Current
  <2> QED
    BY <2>1, <2>3, NothingTold
<1>3. ASSUME NEW x \in applicants, Approvals!Select(x)
      PROVE  ApprovalsInv'
  <2>1. /\ dropdownValue' = x
        /\ UNCHANGED <<register, currentAccount, readings, live, callbacks, applicants>>
        /\ UNCHANGED <<reading, asked, approving, changes>>
    BY <1>3 DEF Approvals!Select
  <2>2. Approvals!TypeOK'
    BY <2>1 DEF ApprovalsInv, Approvals!TypeOK, Approvals!Current
  <2> QED
    BY <2>1, <2>2, NothingTold
<1>4. ASSUME NEW x \in Candidates, Approvals!OthersChange(x)
      PROVE  ApprovalsInv'
  <2> DEFINE old == register[x]
             scored == [old EXCEPT !.standing = "scored"]
  <2>1. old \in Approvals!Entry
    BY DEF ApprovalsInv, Approvals!TypeOK
  <2>2. approving' = approving
        /\ \E entry \in {Approvals!NoEntry, Approvals!NewEntry, scored} :
             Approvals!Becomes(x, entry)
    BY <1>4 DEF Approvals!OthersChange
  <2> HIDE DEF old
  <2>3. scored \in Approvals!Entry /\ scored.standing = "scored"
    BY <2>1 DEF Approvals!Entry
  <2> HIDE DEF scored
  <2>4. PICK entry \in {Approvals!NoEntry, Approvals!NewEntry, scored} :
          Approvals!Becomes(x, entry)
    BY <2>2
  <2>5. entry \in Approvals!Entry /\ (entry.standing = "none" => entry = Approvals!NoEntry)
    BY <2>3, EntriesType
  <2> QED
    BY <2>2, <2>4, <2>5, BecomesStep
<1>5. ASSUME NEW p \in approving, Approvals!Approved(p[1], p[2])
      PROVE  ApprovalsInv'
  <2> DEFINE x == p[2]
             all == register[x].approvedBy \cup {p[1]}
  <2>1. p[1] \in Accounts /\ x \in Candidates
    BY PagesAssumption DEF ApprovalsInv, Approvals!TypeOK
  <2>2. all \subseteq Accounts
    BY <2>1 DEF ApprovalsInv, Approvals!TypeOK, Approvals!Entry
  <2>3. approving' \subseteq approving
        /\ \E standing \in {"pending", "scored"} :
             Approvals!Becomes(x, [standing |-> standing, approvedBy |-> all])
    BY <1>5 DEF Approvals!Approved
  <2> HIDE DEF all, x
  <2>4. PICK standing \in {"pending", "scored"} :
          Approvals!Becomes(x, [standing |-> standing, approvedBy |-> all])
    BY <2>3
  <2> DEFINE entry == [standing |-> standing, approvedBy |-> all]
  <2>5. entry \in Approvals!Entry /\ entry.standing # "none" /\ Approvals!Becomes(x, entry)
    BY <2>2, <2>4 DEF Approvals!Entry
  <2> HIDE DEF entry
  <2> QED
    BY <2>1, <2>3, <2>5, BecomesStep
<1>6. ASSUME NEW p \in approving, Approvals!Refused(p[1], p[2])
      PROVE  ApprovalsInv'
  <2>1. /\ approving' \subseteq approving
        /\ UNCHANGED <<register, currentAccount, readings, live, callbacks, applicants>>
        /\ UNCHANGED <<reading, asked, dropdownValue, changes>>
    BY <1>6 DEF Approvals!Refused
  <2>2. Approvals!TypeOK'
    BY <2>1 DEF ApprovalsInv, Approvals!TypeOK, Approvals!Current
  <2> QED
    BY <2>1, <2>2, NothingTold
<1> QED
  BY <1>1, <1>2, <1>3, <1>4, <1>5, <1>6, SwitchStep, SubscribedStep, SetApplicantsStep
     DEF Approvals!Next
-----------------------------------------------------------------------------
(* The pages.  Each part keeps its own invariant, and is not disturbed by  *)
(* another.                                                                *)
IInv ==
  \/ part = "button" /\ ButtonInv
  \/ part = "approvals" /\ ApprovalsInv
  \/ part = "proposals" /\ CouncilInv
  \/ part = "form" /\ FormInv

LEMMA Initially == Init => IInv
BY ButtonInit, ApprovalsInit, CouncilInit, FormInit DEF Init, IInv

LEMMA StepKeeps == IInv /\ [Next]_vars => IInv'
<1> SUFFICES ASSUME IInv, [Next]_vars PROVE IInv'
  OBVIOUS
<1>1. CASE Next
  BY <1>1, ButtonStep, ApprovalsStep, CouncilStep, FormStep DEF Next, IInv
<1>2. CASE UNCHANGED vars
  <2>1. /\ UNCHANGED <<part, currentAccount, unsub, live, reading, changes>>
        /\ UNCHANGED <<type, input, sudoKey, presses, status, overlap, edits>>
        /\ UNCHANGED <<register, readings, asked, callbacks, applicants, dropdownValue, approving>>
        /\ UNCHANGED <<verdicts, details, pages, auditHashes, challengesState, challenge>>
        /\ UNCHANGED <<formState, proposals, picks, report, open, data, renders, render>>
        /\ UNCHANGED submissions
    BY <1>2 DEF vars, ofButton, ofApplicants, ofCouncil, ofForm
  <2>2. ButtonInv => ButtonInv'
    BY <2>1 DEF ButtonInv, Button!TypeOK, PressOK, OneAtATime
  <2>3. ApprovalsInv => ApprovalsInv'
    BY <2>1 DEF ApprovalsInv, Approvals!TypeOK, Approvals!Current, LastTold, NoneLeft,
                AllHeard, Heard
  <2>4. CouncilInv => CouncilInv'
    BY <2>1 DEF CouncilInv, ListOK, FormOK, FormOfShown, DoneHere, RestOK, ProposalsOK,
                Proposals!ProposalsAreOfShown
  <2>5. FormInv => FormInv'
    BY <2>1 DEF FormInv, Form!TypeOK, NeverSet, BlankRows, SetByClosing, Form!SentRowsAreValid
  <2> QED
    BY <2>1, <2>2, <2>3, <2>4, <2>5 DEF IInv
<1> QED
  BY <1>1, <1>2

LEMMA InvHolds == Spec => []IInv
BY Initially, StepKeeps, PTL DEF Spec

LEMMA PartsAreOne ==
  ASSUME IInv
  PROVE  /\ part = "button" => ButtonInv
         /\ part = "approvals" => ApprovalsInv
         /\ part = "proposals" => CouncilInv
         /\ part = "form" => FormInv
BY DEF IInv

LEMMA CouncilTypes == CouncilInv => Proposals!TypeOK
BY DEF CouncilInv, ListOK, FormOK, RestOK, ProposalsOK, Proposals!TypeOK

(* TypeOK: whichever part is in use, its state is of its types.            *)
THEOREM PagesTypeCorrect == Spec => []TypeOK
<1>1. IInv => TypeOK
  BY CouncilTypes DEF IInv, TypeOK, ButtonInv, ApprovalsInv, FormInv
<1> QED
  BY <1>1, InvHolds, PTL

(* TxButton tells of the latest press: what another press had to tell was  *)
(* ended with its subscription, unless they overlapped or it was sudo's.   *)
THEOREM StatusCorrect == Spec => []StatusIsLatest
<1>1. IInv => StatusIsLatest
  BY PartsAreOne DEF StatusIsLatest, Button!StatusIsLatest, ButtonInv, OneAtATime
<1> QED
  BY <1>1, InvHolds, PTL

(* TxButton sends the text that was there when it was pressed, whatever is *)
(* edited and however presses overlap while it awaits the signer.          *)
THEOREM CallsCorrect == Spec => []CallsAreAsPressed
<1>1. IInv => CallsAreAsPressed
  <2>1. ButtonInv => Button!CallsAreAsPressed
    BY DEF ButtonInv, PressOK, Button!CallsAreAsPressed
  <2> QED
    BY <2>1, PartsAreOne DEF CallsAreAsPressed
<1> QED
  BY <1>1, InvHolds, PTL

(* ApproveAuditor lists who waits for the account and nobody it approved,  *)
(* once every subscription has told what it had to, in whatever order.     *)
THEOREM ApplicantsCorrect == Spec => []ApplicantsWait
<1>1. ASSUME ApprovalsInv PROVE Approvals!ApplicantsWait
  <2>1. ASSUME Approvals!Settled, NEW x \in Candidates PROVE Heard(x)
    <3>1. /\ live = {Approvals!Current} \X Candidates
          /\ \A s \in live : callbacks[s] = << >>
      BY <2>1 DEF Approvals!Settled
    <3>2. NoneLeft
      BY <3>1 DEF NoneLeft
    <3>3. AllHeard
      BY <1>1, <3>2 DEF ApprovalsInv
    <3> QED
      BY <3>1, <3>3 DEF AllHeard
  <2> QED
    BY <2>1 DEF Approvals!ApplicantsWait, Heard
<1>2. IInv => ApplicantsWait
  BY <1>1, PartsAreOne DEF ApplicantsWait
<1> QED
  BY <1>2, InvHolds, PTL

(* CreateProposal names the challenge that was on the page, whichever were *)
(* picked before it; or none, once an earlier proposal of this page reset  *)
(* the form.                                                               *)
THEOREM ProposalsCorrect == Spec => []ProposalsAreOfShown
<1>1. IInv => ProposalsAreOfShown
  BY PartsAreOne DEF ProposalsAreOfShown, CouncilInv, ProposalsOK
<1> QED
  BY <1>1, InvHolds, PTL

(* ChallengeReportButton: a form that is not open is clear, also when it   *)
(* was closed by a submission made before it was last opened, unless the   *)
(* arrays of that submission's render had been set before.                 *)
THEOREM ClearCorrect == Spec => []ClosedIsClear
<1>1. ASSUME FormInv, ~open PROVE Form!ClosedIsClear
  <2>1. PICK k \in 0 .. Len(renders) :
          /\ data = [l \in Lists |-> <<Form!InitialRow(k)>>]
          /\ k # 0 => BlankRows(k) \/ renders[k].set = "again"
    BY <1>1 DEF FormInv, SetByClosing
  <2>2. CASE k # 0 /\ renders[k].set = "again"
    <3>1. k \in DOMAIN renders
      BY <1>1, <2>2, LenProperties DEF FormInv, Form!TypeOK
    <3> QED
      BY <2>1, <2>2, <3>1 DEF Form!ClosedIsClear
  <2>3. CASE k = 0 \/ BlankRows(k)
    <3> DEFINE item == Form!InitialRow(k)
    <3>1. ASSUME NEW l \in Lists PROVE Form!Shown[l] = <<Form!EmptyRow>>
      <4>1. Form!Content(l, item) = Form!EmptyRow
        BY <2>3 DEF Form!Content, Form!InitialRow, BlankRows
      <4> HIDE DEF item
      <4>2. data[l] = <<item>>
        BY <2>1 DEF item
      <4>3. Form!Shown[l] = [i \in DOMAIN data[l] |-> Form!Content(l, data[l][i])]
        BY DEF Form!Shown
      <4> DEFINE row == Form!EmptyRow
      <4> HIDE DEF row
      <4>4. Form!Shown[l] = [i \in {1} |-> row]
        BY <4>1, <4>2, <4>3 DEF row
      <4> QED
        BY <4>4 DEF row
    <3> QED
      BY <3>1 DEF Form!ClosedIsClear
  <2> QED
    BY <2>1, <2>2, <2>3
<1>2. IInv => ClosedIsClear
  BY <1>1, PartsAreOne DEF ClosedIsClear, Form!ClosedIsClear
<1> QED
  BY <1>2, InvHolds, PTL

(* useFormValidation: every row that was sent says something, and nothing  *)
(* that is not accepted, for any number of rows and submissions.           *)
THEOREM RowsCorrect == Spec => []SentRowsAreValid
<1>1. IInv => SentRowsAreValid
  BY PartsAreOne DEF SentRowsAreValid, FormInv
<1> QED
  BY <1>1, InvHolds, PTL
=============================================================================
