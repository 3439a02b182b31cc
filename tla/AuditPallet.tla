---------------------------- MODULE AuditPallet -----------------------------
(***************************************************************************)
(* audit-pallet/src/lib.rs: the register of auditors.                      *)
(*                                                                         *)
(* A user signs up with a stake, becomes an auditor by the approvals of    *)
(* three auditors of high enough score, plays challenges (games) that move *)
(* score between two auditors, and may cancel the account.                 *)
(*                                                                         *)
(* One action is one extrinsic of the pallet that returns Ok.  The calls   *)
(* are transactional: one that returns an error leaves the storage as it   *)
(* was, which is a stuttering step.                                        *)
(***************************************************************************)
EXTENDS Currency, Elo, Sequences

CONSTANTS
  Accounts,
  GenesisScore,          \* scores of the auditors of the genesis configuration
  GenesisBalance,        \* what each account holds free at genesis
  Profiles,              \* profile hashes
  NotSignedUp,           \* the account has no entry in AuditorMap
  NoScore,               \* score: None
  MinAuditorStake,
  InitialAuditorScore,
  MinimalApproverScore,
  TransferAmounts,       \* amounts users send each other
  MaxGames               \* bound: how many game results are submitted

GenesisAuditors == DOMAIN GenesisScore

AuditorData == [score : Score \cup {NoScore},
                profileHash : Profiles,
                approvedBy : Seq(Accounts)]

ApprovalsNeeded == 3

Winner == {"Player0", "Player1", "Draw"}

ASSUME AuditAssumption ==
  /\ IsFiniteSet(Accounts)
  /\ MinAuditorStake \in Nat
  /\ InitialAuditorScore \in Score
  /\ MinimalApproverScore \in Score
  /\ MaxGames \in Nat
  /\ TransferAmounts \subseteq Nat
  /\ Profiles # {}
  /\ NoScore \notin Int
  /\ NotSignedUp \notin AuditorData
  /\ GenesisAuditors \subseteq Accounts
  /\ GenesisScore \in [GenesisAuditors -> Score]
  /\ GenesisBalance \in [Accounts -> Nat]

VARIABLES
  auditorMap,    \* storage AuditorMap
  balances,      \* the balances pallet's account data
  gamesPlayed    \* number of GameResult events deposited so far

auditVars == <<auditorMap, balances, gamesPlayed>>
-----------------------------------------------------------------------------
(* What a call reads of the register.                                      *)

IsSignedUp(a) == auditorMap[a] # NotSignedUp

IsPending(a) == IsSignedUp(a) /\ auditorMap[a].score = NoScore

IsAuditor(a) == IsSignedUp(a) /\ auditorMap[a].score # NoScore

HasEnoughRank(a, score) == IsAuditor(a) /\ auditorMap[a].score >= score

(* Mistake: only the latest approval is compared.                          *)
HasApprovalOf_OnlyLatest(a, sender) ==
  LET approvals == auditorMap[a].approvedBy
  IN approvals # << >> /\ approvals[Len(approvals)] = sender

HasApprovalOf(a, sender) ==
  \E i \in DOMAIN auditorMap[a].approvedBy : auditorMap[a].approvedBy[i] = sender

NewAuditor(profile) ==
  [score |-> NoScore, profileHash |-> profile, approvedBy |-> << >>]

GenesisEntry(a, profile) ==
  [score |-> GenesisScore[a], profileHash |-> profile, approvedBy |-> << >>]

(* The chain specification registers the genesis auditors with a score and *)
(* without any reserved stake.                                             *)
AuditInit ==
  /\ \E profile \in Profiles :
       auditorMap = [a \in Accounts |->
                       IF a \in GenesisAuditors THEN GenesisEntry(a, profile)
                                                ELSE NotSignedUp]
  /\ balances = [a \in Accounts |-> [free |-> GenesisBalance[a], reserved |-> 0]]
  /\ gamesPlayed = 0
-----------------------------------------------------------------------------
(* Mistake: the error of the reserve call is dropped.                      *)
SignUp_ReserveUnchecked(sender, profile) ==
  /\ ~IsSignedUp(sender)
  /\ balances' = Reserve(balances, sender, MinAuditorStake)
  /\ auditorMap' = [auditorMap EXCEPT ![sender] = NewAuditor(profile)]
  /\ UNCHANGED gamesPlayed

(* Mistake: the stake is only required, not reserved.                      *)
SignUp_NoReserve(sender, profile) ==
  /\ ~IsSignedUp(sender)
  /\ CanReserve(balances, sender, MinAuditorStake)
  /\ auditorMap' = [auditorMap EXCEPT ![sender] = NewAuditor(profile)]
  /\ UNCHANGED <<balances, gamesPlayed>>

(* sign_up                                                                 *)
SignUp(sender, profile) ==
  /\ ~IsSignedUp(sender)
  /\ CanReserve(balances, sender, MinAuditorStake)
  /\ balances' = Reserve(balances, sender, MinAuditorStake)
  /\ auditorMap' = [auditorMap EXCEPT ![sender] = NewAuditor(profile)]
  /\ UNCHANGED gamesPlayed

(* Mistake: the entry is built anew from the new profile.                  *)
WithProfile_Anew(data, profile) == NewAuditor(profile)

(* update_profile                                                          *)
WithProfile(data, profile) == [data EXCEPT !.profileHash = profile]

UpdateProfile(sender, profile) ==
  /\ IsSignedUp(sender)
  /\ auditorMap' = [auditorMap EXCEPT ![sender] = WithProfile(@, profile)]
  /\ UNCHANGED <<balances, gamesPlayed>>

(* Mistake: the initial score itself forfeits.                             *)
ForfeitsStake_AtInitial(a) ==
  IsAuditor(a) /\ auditorMap[a].score <= InitialAuditorScore

(* cancel_account: the stake is unreserved, and then burnt again from the  *)
(* free balance when the auditor stands below the initial score.           *)
ForfeitsStake(a) == IsAuditor(a) /\ auditorMap[a].score < InitialAuditorScore

CancelAccount(sender) ==
  LET refunded == Unreserve(balances, sender, MinAuditorStake) IN
  /\ IsSignedUp(sender)
  /\ \/ /\ ~ForfeitsStake(sender)
        /\ balances' = refunded
     \/ /\ ForfeitsStake(sender)
        /\ CanWithdraw(refunded, sender, MinAuditorStake)
        /\ balances' = Withdraw(refunded, sender, MinAuditorStake)
  /\ auditorMap' = [auditorMap EXCEPT ![sender] = NotSignedUp]
  /\ UNCHANGED gamesPlayed

(* approve_auditor: the third approval gives the initial score.            *)
ScoreAfterApproval(approvals) ==
  IF approvals = ApprovalsNeeded THEN InitialAuditorScore ELSE NoScore

WithApproval(data, sender) ==
  [data EXCEPT !.approvedBy = Append(@, sender),
               !.score = ScoreAfterApproval(Len(data.approvedBy) + 1)]

(* Mistake: the candidate may have its score already.                      *)
MayApprove_Scored(sender, candidate) ==
  /\ HasEnoughRank(sender, MinimalApproverScore)
  /\ IsSignedUp(candidate)
  /\ ~HasApprovalOf(candidate, sender)

MayApprove(sender, candidate) ==
  /\ HasEnoughRank(sender, MinimalApproverScore)
  /\ IsPending(candidate)
  /\ ~HasApprovalOf(candidate, sender)

ApproveAuditor(sender, candidate) ==
  /\ MayApprove(sender, candidate)
  /\ Len(auditorMap[candidate].approvedBy) < ApprovalsNeeded  \* try_push
  /\ auditorMap' = [auditorMap EXCEPT ![candidate] = WithApproval(@, sender)]
  /\ UNCHANGED <<balances, gamesPlayed>>
-----------------------------------------------------------------------------
(* apply_result: the update both game_result and the closing of a          *)
(* challenge make.  A draw needs two approved players too, and then        *)
(* changes no score.                                                       *)
CanApplyResult(player0, player1, winner) ==
  /\ IsAuditor(player0)
  /\ IsAuditor(player1)
  /\ winner # "Draw" =>
       EloDefined(auditorMap[player0].score, auditorMap[player1].score)

(* Mistake: the second entry is not written back.                          *)
WithScores_OnlyFirst(score0, score1, player0, player1) ==
  [auditorMap EXCEPT ![player0].score = score0]

(* The entry of player0 is written first and that of player1 second, so    *)
(* that of player1 stays when they are the same account.                   *)
WithScores(score0, score1, player0, player1) ==
  [auditorMap EXCEPT ![player0].score = score0, ![player1].score = score1]

ResultApplied(player0, player1, winner) ==
  LET score0 == auditorMap[player0].score
      score1 == auditorMap[player1].score
  IN CASE winner = "Player0" ->
            WithScores(WinnerNewScore(score0, score1),
                       LooserNewScore(score0, score1), player0, player1)
       [] winner = "Player1" ->
            WithScores(LooserNewScore(score1, score0),
                       WinnerNewScore(score1, score0), player0, player1)
       [] OTHER -> auditorMap

ApplyResult(player0, player1, winner) ==
  /\ gamesPlayed < MaxGames
  /\ CanApplyResult(player0, player1, winner)
  /\ auditorMap' = ResultApplied(player0, player1, winner)
  /\ gamesPlayed' = gamesPlayed + 1

(* game_result: root only, that is the sudo key of the runtime.            *)
GameResult(player0, player1, winner) ==
  /\ ApplyResult(player0, player1, winner)
  /\ UNCHANGED balances

(* Users also move their free balance with no call of these pallets.       *)
Transfer(from, to, v) ==
  /\ CanTransfer(balances, from, to, v)
  /\ balances' = Transferred(balances, from, to, v)
  /\ UNCHANGED <<auditorMap, gamesPlayed>>
-----------------------------------------------------------------------------
AuditNext ==
  \/ \E a \in Accounts, profile \in Profiles : SignUp(a, profile)
  \/ \E a \in Accounts, profile \in Profiles : UpdateProfile(a, profile)
  \/ \E a \in Accounts : CancelAccount(a)
  \/ \E sender, candidate \in Accounts : ApproveAuditor(sender, candidate)
  \/ \E p0, p1 \in Accounts, winner \in Winner : GameResult(p0, p1, winner)
  \/ \E from, to \in Accounts, v \in TransferAmounts : Transfer(from, to, v)

AuditSpec == AuditInit /\ [][AuditNext]_auditVars
-----------------------------------------------------------------------------
AuditTypeOK ==
  /\ auditorMap \in [Accounts -> AuditorData \cup {NotSignedUp}]
  /\ balances \in [Accounts -> Balance]
  /\ gamesPlayed \in 0 .. MaxGames

(* A genesis auditor that has kept its entry: the one way to be an auditor *)
(* without approvals and without a stake.                                  *)
HasGenesisEntry(a) ==
  a \in GenesisAuditors /\ IsAuditor(a) /\ auditorMap[a].approvedBy = << >>

(* approve_auditor, sign_up and cancel_account together: whoever has a     *)
(* score got it from three different auditors, none of them itself, and    *)
(* whoever has none still lacks an approval.  No order of approvals, games,*)
(* cancellations and new registrations may break the count, and the        *)
(* StorageOverflow error of approve_auditor is unreachable.                *)
ApprovedByThreeOthers ==
  \A a \in Accounts : IsSignedUp(a) =>
    LET approvals == auditorMap[a].approvedBy IN
    /\ \A i, j \in DOMAIN approvals : approvals[i] = approvals[j] => i = j
    /\ \A i \in DOMAIN approvals : approvals[i] # a
    /\ IsPending(a) => Len(approvals) < ApprovalsNeeded
    /\ IsAuditor(a) => Len(approvals) = ApprovalsNeeded \/ HasGenesisEntry(a)

(* sign_up's reserve outlives everything that happens to the account until *)
(* cancel_account: whoever is signed up, and not by the genesis            *)
(* configuration, has at least the stake reserved.                         *)
StakeHeld ==
  \A a \in Accounts :
    IsSignedUp(a) /\ ~HasGenesisEntry(a) => balances[a].reserved >= MinAuditorStake

StandsBelowInitial(a) ==
  IsAuditor(a) /\ auditorMap[a].score \in 0 .. InitialAuditorScore - 1

(* Only cancel_account takes value out of circulation, only from an        *)
(* auditor below the initial score, and at least the stake of it; such an  *)
(* auditor never leaves for free.  No call creates value.                  *)
OnlyForfeitsBurn ==
  [][/\ Issuance(balances') <= Issuance(balances)
     /\ \A a \in Accounts :
          IsSignedUp(a) /\ ~IsSignedUp(a)' =>
            IF StandsBelowInitial(a)
              THEN Issuance(balances') <= Issuance(balances) - MinAuditorStake
              ELSE Total(balances'[a]) = Total(balances[a])
     /\ Issuance(balances') # Issuance(balances) =>
          \E a \in Accounts : StandsBelowInitial(a) /\ ~IsSignedUp(a)'
    ]_auditVars

(* While an account stays signed up its standing only grows: an auditor is *)
(* not demoted to a pending one and no approval is lost or reordered, by   *)
(* update_profile or any other call.                                       *)
StandingSurvives ==
  [][\A a \in Accounts :
       IsSignedUp(a) /\ IsSignedUp(a)' =>
         LET before == auditorMap[a]
             after  == auditorMap'[a]
         IN /\ before.score # NoScore => after.score # NoScore
            /\ Len(before.approvedBy) <= Len(after.approvedBy)
            /\ \A i \in DOMAIN before.approvedBy :
                 after.approvedBy[i] = before.approvedBy[i]
    ]_auditVars

Auditors == {a \in Accounts : IsAuditor(a)}

TotalScore ==
  SumFunction([a \in Accounts |-> IF IsAuditor(a) THEN auditorMap[a].score ELSE 0])

(* No score is near enough to an end of its range for a game to wrap it.   *)
NoScoreAtTheEdge ==
  \A a \in Auditors : auditorMap[a].score \in K .. ScoreModulus - 1 - K

(* apply_result moves score between two different players: whatever their  *)
(* scores and whoever won, all scores together sum to the same, the winner *)
(* does not lose any and nobody but the two players is touched.  (A root   *)
(* result of an account against itself, which the pallet accepts, does not *)
(* conserve: the entry of player1 overwrites that of player0.)             *)
GamesConserveScore ==
  [][gamesPlayed' # gamesPlayed /\ NoScoreAtTheEdge =>
       \A p0, p1 \in Accounts, winner \in Winner :
       p0 # p1 /\ ApplyResult(p0, p1, winner) =>
          /\ TotalScore' = TotalScore
          /\ winner = "Player0" => auditorMap'[p0].score >= auditorMap[p0].score
          /\ winner = "Player1" => auditorMap'[p1].score >= auditorMap[p1].score
          /\ \A a \in Accounts \ {p0, p1} : auditorMap'[a] = auditorMap[a]
    ]_auditVars
-----------------------------------------------------------------------------
(* The register without its storage.                                       *)
StandingOf(a) == CASE ~IsSignedUp(a) -> "absent"
                   [] IsPending(a)   -> "candidate"
                   [] OTHER          -> "auditor"

ApproversOf(a) ==
  IF IsSignedUp(a)
    THEN {auditorMap[a].approvedBy[i] : i \in DOMAIN auditorMap[a].approvedBy}
    ELSE {}

Standing  == [a \in Accounts |-> StandingOf(a)]
Approvers == [a \in Accounts |-> ApproversOf(a)]

Reg == INSTANCE Register WITH
         Founders  <- GenesisAuditors,
         standing  <- Standing,
         approvers <- Approvers

(* The pallet implements the abstract register: every call that changes    *)
(* who is an auditor, or who approved of whom, is one account entering,    *)
(* one leaving, or one auditor approving of one candidate, with the third  *)
(* approval making the auditor.  Games, money and profiles change none of  *)
(* it, though they write the same storage entries.                         *)
RegisterKept == Reg!Spec
=============================================================================
