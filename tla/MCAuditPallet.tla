--------------------------- MODULE MCAuditPallet ----------------------------
(* AuditPallet for TLC: the constants of the runtime, a genesis with three *)
(* auditors that may approve and one that may not, and one new user.       *)
EXTENDS AuditPallet, TLC

CONSTANTS g1, g2, g3, low, user

MCAccounts == {g1, g2, g3, low, user}

MCGenesisScore ==
  g1 :> 2000 @@ g2 :> 2000 @@ g3 :> 2000 @@ low :> 1000

(* One has nothing until it is sent the existential deposit; a forfeited   *)
(* stake leaves less than that of it, of the approvers' balances, and of   *)
(* what the user has left after it sent some.                              *)
MCGenesisBalance ==
  [a \in MCAccounts |-> CASE a = low -> 0 [] a = user -> 1060 [] OTHER -> 560]

(* The genesis approvers start alike and are told apart by nothing else.   *)
MCSymmetry == Permutations({g1, g2, g3})

(* The scores the unit tests of elo_comp.rs expect, lines 38-54, and the   *)
(* pallet's test of a game between equals.                                 *)
ASSUME EloRankTests ==
  /\ WinnerNewScore(1200, 1400) = 1224 /\ LooserNewScore(1200, 1400) = 1376
  /\ WinnerNewScore(1400, 1200) = 1408 /\ LooserNewScore(1400, 1200) = 1192
  /\ WinnerNewScore(1802, 1186) = 1803 /\ LooserNewScore(1802, 1186) = 1185
  /\ WinnerNewScore(2000, 2000) = 2016 /\ LooserNewScore(2000, 2000) = 1984
=============================================================================
