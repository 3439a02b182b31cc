---------------------------- MODULE MCExoPallet -----------------------------
(* ExoPallet for TLC: one or two packages under review, few auditors.      *)
EXTENDS ExoPallet, TLC

CONSTANTS g1, g2, g3, low, user

(* Reports and challenges: three auditors of the genesis configuration,    *)
(* two at the initial score and one far above it.  One can pay for a       *)
(* review or, after cancelling, for signing up again (but then finds       *)
(* nobody to approve it).                                                  *)
MCChallengeAccounts == {g1, g2, g3}

MCChallengeGenesisScore == g1 :> 1000 @@ g2 :> 1000 @@ g3 :> 1400

MCChallengeGenesisBalance == g1 :> 150 @@ g2 :> 0 @@ g3 :> 0

(* Bounties and stakes: three auditors who may approve, one to play        *)
(* against, and a user who requests reviews, signs up and cancels.         *)
MCBountyAccounts == {g1, g2, g3, low, user}

MCBountyGenesisScore ==
  g1 :> 2000 @@ g2 :> 2000 @@ g3 :> 2000 @@ low :> 1000

MCBountyGenesisBalance ==
  g1 :> 0 @@ g2 :> 0 @@ g3 :> 0 @@ low :> 0 @@ user :> 500

(* The genesis approvers start alike and are told apart by nothing else.   *)
MCSymmetry == Permutations({g1, g2, g3})

=============================================================================
