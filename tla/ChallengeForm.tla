---------------------------- MODULE ChallengeForm ----------------------------
(***************************************************************************)
(* The form that challenges a report: ChallengeReportButton with the three *)
(* lists of ChallengeReportInputs, checked by useFormValidation, and what  *)
(* useTxAndPost calls of it.  A button stands at a place of the list of    *)
(* reports: when another audit is selected, the same button is there for   *)
(* its report.  The form is closed by the user, or by a submission that is *)
(* in a block, whenever that is and however often.                         *)
(*                                                                         *)
(* Every render makes arrays to begin with, of one row each, and closing   *)
(* sets those of the render whose closeClear is called.  A change writes   *)
(* into the row itself, whichever arrays it is in.  A render's closeClear  *)
(* is called after the next render only if something was submitted from    *)
(* it: "renders" are those.                                                *)
(*                                                                         *)
(* A row is told by what its fields come to: nothing in any of them,       *)
(* something that is accepted, or something that is not.  The tool of a    *)
(* row of "add" is one of its fields (the Dropdown it is picked from may   *)
(* show another one: it is not told).                                      *)
(***************************************************************************)
EXTENDS Naturals, Sequences, SequencesExt

CONSTANTS
  Reports,       \* reports the button may be for
  Lists,         \* the lists of rows that are filled, of the form's three
  MaxRows,       \* bound: rows of a list
  MaxSubmits     \* bound

VARIABLES
  report,         \* the report the button is for
  open,
  data,           \* the rows of the three lists
  renders,        \* the renders something was submitted from
  render,         \* which of them is the present one; 0 if none
  unsub,          \* the submission the hook can unsubscribe from; 0 if none
  submissions     \* what was signed, from which render, and how far it is

state == <<report, open, data, renders, render>>
vars == <<state, unsub, submissions>>

EmptyRow == ""

Row == {EmptyRow, "valid", "invalid"}

(* A row of a list is one of its own, or the one of a render's array.      *)
Item == [of : Nat, row : Row]

Own(row) == [of |-> 0, row |-> row]

InitialRow(k) == [of |-> k, row |-> EmptyRow]

Cleared == [l \in Lists |-> <<Own(EmptyRow)>>]

(* removeInitial, addInitial and patchInitial of a render: what is in      *)
(* their rows by now, and how often closeClear set them, up to "again".    *)
Render == [rows : [Lists -> Row], set : {"never", "once", "again"}]

NewRender == [rows |-> [l \in Lists |-> EmptyRow], set |-> "never"]

Content(l, item) == IF item.of = 0 THEN item.row ELSE renders[item.of].rows[l]

Shown == [l \in Lists |-> [i \in DOMAIN data[l] |-> Content(l, data[l][i])]]

Submission == [report : Reports, params : [Lists -> SUBSET Row], render : Nat,
               state : {"signing", "sent", "inBlock", "ended"}]

Init ==
  /\ report \in Reports
  /\ open = FALSE
  /\ data = Cleared
  /\ renders = << >> /\ render = 0
  /\ unsub = 0
  /\ submissions = << >>
-----------------------------------------------------------------------------
(* Another audit is selected, which an open Modal is in the way of.        *)
SelectAudit(r) ==
  /\ ~open /\ r # report
  /\ report' = r
  /\ UNCHANGED <<open, data, renders, render, unsub, submissions>>

Open ==
  /\ ~open
  /\ open' = TRUE
  /\ UNCHANGED <<report, data, renders, render, unsub, submissions>>

(* The page renders the button anew, of which there is much cause.         *)
Rerender ==
  /\ render # 0
  /\ render' = 0
  /\ UNCHANGED <<report, open, data, renders, unsub, submissions>>

(* Mistake: the arrays are made once, for all renders.                     *)
AfterClear_Hoisted(k) ==
  [l \in Lists |-> <<InitialRow(IF renders = << >> THEN 0 ELSE 1)>>]

AfterClear(k) == [l \in Lists |-> <<InitialRow(k)>>]

SetAgain(k) ==
  [renders EXCEPT ![k] = [renders[k] EXCEPT
     !.set = IF renders[k].set = "never" THEN "once" ELSE "again"]]

(* closeClear of a render; nothing else has the arrays of one from which   *)
(* nothing was submitted (0).                                              *)
CloseClear(k) ==
  /\ open' = FALSE /\ render' = 0
  /\ data' = AfterClear(k)
  /\ renders' = IF k = 0 THEN renders ELSE SetAgain(k)

Cancel ==
  /\ open
  /\ CloseClear(render)
  /\ UNCHANGED <<report, unsub, submissions>>

HandleClick(l) ==
  /\ open /\ Len(data[l]) < MaxRows
  /\ data' = [data EXCEPT ![l] = Append(data[l], Own(EmptyRow))]
  /\ render' = 0
  /\ UNCHANGED <<report, open, renders, unsub, submissions>>

(* onchangeVal[i][name] = value: the row is written to where it is.        *)
HandleChange(l, i, row) ==
  LET k == data[l][i].of IN
  /\ open /\ Content(l, data[l][i]) # row
  /\ data' = IF k # 0 THEN data
             ELSE [data EXCEPT ![l] = [data[l] EXCEPT ![i] = Own(row)]]
  /\ renders' = IF k = 0 THEN renders ELSE [renders EXCEPT ![k] =
                  [renders[k] EXCEPT !.rows = [renders[k].rows EXCEPT ![l] = row]]]
  /\ render' = 0
  /\ UNCHANGED <<report, open, unsub, submissions>>

(* The rows that are left move up.                                         *)
HandleDelete(l, i) ==
  /\ open
  /\ data' = [data EXCEPT ![l] = RemoveAt(data[l], i)]
  /\ render' = 0
  /\ UNCHANGED <<report, open, renders, unsub, submissions>>
-----------------------------------------------------------------------------
(* validate, over all the rows' fields: each gets a key of its own.        *)
HasErrors(l) == \E i \in DOMAIN data[l] : Content(l, data[l][i]) = "invalid"

Disabled == \E l \in Lists : HasErrors(l)

(* removeParam, addParam and patchParam: rows with nothing in them are     *)
(* left out (and which of the others comes first makes no difference).     *)
Params == [l \in Lists |-> Range(Shown[l]) \ {EmptyRow}]

(* The submission of before is not heard of again.                         *)
Unheard ==
  [i \in DOMAIN submissions |->
     IF i = unsub THEN [submissions[i] EXCEPT !.state = "ended"] ELSE submissions[i]]

(* The button of the form; it stays open until the challenge is in a       *)
(* block.  Only an unsubscription renders it anew.                         *)
Submit ==
  LET k == IF render = 0 THEN Len(renders) + 1 ELSE render IN
  /\ open /\ ~Disabled
  /\ Len(submissions) < MaxSubmits
  /\ submissions' = Append(Unheard,
       [report |-> report, params |-> Params, render |-> k, state |-> "signing"])
  /\ renders' = IF render = 0 THEN Append(renders, NewRender) ELSE renders
  /\ render' = IF unsub = 0 THEN k ELSE 0
  /\ unsub' = 0
  /\ UNCHANGED <<report, open, data>>

Becomes(i, new) == submissions' = [submissions EXCEPT ![i] = [@ EXCEPT !.state = new]]

(* The signer answers: the hook has the unsubscription, or sets none, by   *)
(* which it renders unless there was none.                                 *)
Signed(i) ==
  /\ submissions[i].state = "signing"
  /\ Becomes(i, "sent")
  /\ unsub' = i /\ render' = 0
  /\ UNCHANGED <<report, open, data, renders>>

Refused(i) ==
  /\ submissions[i].state = "signing"
  /\ Becomes(i, "ended")
  /\ unsub' = 0 /\ render' \in {render, 0}
  /\ UNCHANGED <<report, open, data, renders>>

(* finishEvent, at every block without error.                              *)
Finish(i) ==
  /\ submissions[i].state = "sent"
  /\ Becomes(i, "inBlock")
  /\ CloseClear(submissions[i].render)
  /\ UNCHANGED <<report, unsub>>

(* The challenge fails in its block; or the block is not the chain's any   *)
(* more, and the challenge will be in another; or it is dropped, or final. *)
InBlockWithError(i) ==
  /\ submissions[i].state = "sent"
  /\ Becomes(i, "inBlock")
  /\ UNCHANGED <<state, unsub>>

Retracted(i) ==
  /\ submissions[i].state = "inBlock"
  /\ Becomes(i, "sent")
  /\ UNCHANGED <<state, unsub>>

Ended(i) ==
  /\ submissions[i].state \in {"sent", "inBlock"}
  /\ Becomes(i, "ended")
  /\ UNCHANGED <<state, unsub>>

Next ==
  \/ \E r \in Reports : SelectAudit(r)
  \/ Open \/ Rerender \/ Cancel \/ Submit
  \/ \E l \in Lists :
       \/ HandleClick(l)
       \/ \E i \in DOMAIN data[l] :
            HandleDelete(l, i) \/ \E row \in Row : HandleChange(l, i, row)
  \/ \E i \in DOMAIN submissions :
       \/ Signed(i) \/ Refused(i) \/ Finish(i)
       \/ InBlockWithError(i) \/ Retracted(i) \/ Ended(i)

Spec == Init /\ [][Next]_vars
-----------------------------------------------------------------------------
TypeOK ==
  /\ report \in Reports /\ open \in BOOLEAN
  /\ renders \in Seq(Render) /\ render \in 0 .. Len(renders) /\ (render # 0 => open)
  /\ data \in [Lists -> Seq(Item)]
  /\ \A l \in Lists : \A i \in DOMAIN data[l] : data[l][i].of \in 0 .. Len(renders)
  /\ unsub \in 0 .. Len(submissions)
  /\ submissions \in Seq(Submission)
  /\ \A i \in DOMAIN submissions : submissions[i].render \in DOMAIN renders

(* ChallengeReportButton: a form that is not open is clear, however it was *)
(* closed and whatever was typed since the submission that closed it; only *)
(* the arrays of a render that were set before may bring back what was     *)
(* typed into them meanwhile.                                              *)
ClosedIsClear ==
  ~open => \A l \in Lists :
    \/ Shown[l] = <<EmptyRow>>
    \/ \E k \in DOMAIN renders :
         renders[k].set = "again" /\ data = [m \in Lists |-> <<InitialRow(k)>>]

(* useFormValidation and ChallengeReportButton: whatever rows were added,  *)
(* changed and deleted, a challenge that was sent says something in every  *)
(* row, and nothing that is not accepted.                                  *)
SentRowsAreValid ==
  \A i \in DOMAIN submissions, l \in Lists :
    submissions[i].params[l] \subseteq {"valid"}
=============================================================================
