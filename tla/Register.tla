------------------------------ MODULE Register ------------------------------
(***************************************************************************)
(* What the audit pallet promises about who is an auditor, without its     *)
(* storage, its money and its scores: founders are auditors from the start,*)
(* everybody else comes in as a candidate and becomes an auditor when a    *)
(* third auditor approves of it, and anybody may leave.                    *)
(*                                                                         *)
(* AuditPallet, alone and composed with the exo pallet, implements this    *)
(* specification (RegisterKept).                                           *)
(***************************************************************************)
CONSTANTS Accounts, Founders

VARIABLES
  standing,    \* what each account is
  approvers    \* the set of auditors that have approved of it

registerVars == <<standing, approvers>>

Init ==
  /\ standing = [a \in Accounts |-> IF a \in Founders THEN "auditor" ELSE "absent"]
  /\ approvers = [a \in Accounts |-> {}]

Enter(a) ==
  /\ standing[a] = "absent"
  /\ standing' = [standing EXCEPT ![a] = "candidate"]
  /\ UNCHANGED approvers

Leave(a) ==
  /\ standing[a] # "absent"
  /\ standing' = [standing EXCEPT ![a] = "absent"]
  /\ approvers' = [approvers EXCEPT ![a] = {}]

HasTwoApprovers(a) == \E x, y \in approvers[a] : x # y

Approve(by, a) ==
  /\ standing[by] = "auditor"
  /\ standing[a] = "candidate"
  /\ by \notin approvers[a]
  /\ approvers' = [approvers EXCEPT ![a] = @ \cup {by}]
  /\ standing' = [standing EXCEPT ![a] = IF HasTwoApprovers(a) THEN "auditor" ELSE @]

Next == \E a \in Accounts :
          \/ Enter(a)
          \/ Leave(a)
          \/ \E by \in Accounts : Approve(by, a)

Spec == Init /\ [][Next]_registerVars
=============================================================================
