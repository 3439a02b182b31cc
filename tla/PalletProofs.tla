---------------------------- MODULE PalletProofs ----------------------------
(***************************************************************************)
(* Theorems about AuditPallet, for every set of accounts, every genesis    *)
(* configuration and every value of the stake, the scores and the bounds;  *)
(* then about ExoPallet, which is composed with it; then that both of them *)
(* implement the abstract Register, and ExoPallet the abstract Docket.     *)
(***************************************************************************)
EXTENDS ExoPallet, Sums, SequenceTheorems

-----------------------------------------------------------------------------
(* elo_comp.rs: the rounded share of the K points a result moves is never  *)
(* negative and never more than K.                                         *)
LEMMA ExpectedShareRange ==
  ASSUME NEW d \in Int
  PROVE  ExpectedShare(d) \in 0 .. K
<1> DEFINE Passed == {i \in 1 .. K : d <= Threshold[i]}
<1>1. IsFiniteSet(1 .. K) /\ Cardinality(1 .. K) = K
  <2>1. 1 \in Int /\ K \in Int /\ ~(1 > K) /\ K - 1 + 1 = K
    BY DEF K
  <2> QED
    BY <2>1, FS_Interval, Zenon
<1>2. Passed \in SUBSET (1 .. K)
  OBVIOUS
<1>3. IsFiniteSet(Passed) /\ Cardinality(Passed) <= Cardinality(1 .. K)
  BY <1>1, <1>2, FS_Subset
<1>4. Cardinality(Passed) \in Nat
  BY <1>3, FS_CardinalityType
<1> QED
  BY <1>1, <1>3, <1>4 DEF ExpectedShare, K

(* to_num: whatever the computed score, what is stored is a score.         *)
LEMMA ToScoreType ==
  ASSUME NEW x \in Int
  PROVE  ToScore(x) \in Score
BY EloAssumption DEF ToScore, Score

(* EloRank::calculate returns two scores.                                  *)
LEMMA NewScoresType ==
  ASSUME NEW winner \in Score, NEW looser \in Score
  PROVE  /\ WinnerNewScore(winner, looser) \in Score
         /\ LooserNewScore(winner, looser) \in Score
<1>1. winner \in Int /\ looser \in Int /\ looser - winner \in Int /\ winner - looser \in Int
  BY EloAssumption DEF Score
<1>2. ExpectedShare(looser - winner) \in Int /\ ExpectedShare(winner - looser) \in Int
  BY <1>1, ExpectedShareRange DEF K
<1>3. /\ winner + (K - ExpectedShare(looser - winner)) \in Int
      /\ looser - ExpectedShare(winner - looser) \in Int
  BY <1>1, <1>2 DEF K
<1> QED
  BY <1>3, ToScoreType DEF WinnerNewScore, LooserNewScore
-----------------------------------------------------------------------------
(* The ledger operations keep every balance non-negative: reserve,         *)
(* withdraw and a transfer because of their guards, unreserve always.      *)
LEMMA ReserveType ==
  ASSUME NEW ledger \in [Accounts -> Balance], NEW a \in Accounts, NEW v \in Nat,
         CanReserve(ledger, a, v)
  PROVE  Reserve(ledger, a, v) \in [Accounts -> Balance]
BY DEF CanReserve, Reserve, Balance

LEMMA UnreserveType ==
  ASSUME NEW ledger \in [Accounts -> Balance], NEW a \in Accounts, NEW v \in Nat
  PROVE  Unreserve(ledger, a, v) \in [Accounts -> Balance]
BY DEF Unreserve, Released, Balance

LEMMA WithdrawType ==
  ASSUME NEW ledger \in [Accounts -> Balance], NEW a \in Accounts, NEW v \in Nat,
         CanWithdraw(ledger, a, v)
  PROVE  Withdraw(ledger, a, v) \in [Accounts -> Balance]
BY DEF CanWithdraw, Withdraw, Reap, Balance

LEMMA TransferType ==
  ASSUME NEW ledger \in [Accounts -> Balance], NEW from \in Accounts,
         NEW to \in Accounts, NEW v \in Nat, CanTransfer(ledger, from, to, v)
  PROVE  Transferred(ledger, from, to, v) \in [Accounts -> Balance]
BY ExistentialDepositAssumption DEF CanTransfer, Transferred, Balance

(* apply_result leaves a register of auditors: only scores change, and to  *)
(* scores.                                                                 *)
LEMMA ResultAppliedType ==
  ASSUME AuditTypeOK, NEW p0 \in Accounts, NEW p1 \in Accounts, NEW winner \in Winner,
         CanApplyResult(p0, p1, winner)
  PROVE  ResultApplied(p0, p1, winner) \in [Accounts -> AuditorData \cup {NotSignedUp}]
<1> DEFINE s0 == auditorMap[p0].score
           s1 == auditorMap[p1].score
<1>1. /\ auditorMap[p0] \in AuditorData /\ s0 \in Score
      /\ auditorMap[p1] \in AuditorData /\ s1 \in Score
  BY DEF AuditTypeOK, CanApplyResult, IsAuditor, IsSignedUp, AuditorData
<1>2. \A x, y \in Score :
        WithScores(x, y, p0, p1) \in [Accounts -> AuditorData \cup {NotSignedUp}]
  BY <1>1 DEF WithScores, AuditTypeOK, AuditorData
<1>3. /\ WinnerNewScore(s0, s1) \in Score /\ LooserNewScore(s0, s1) \in Score
      /\ WinnerNewScore(s1, s0) \in Score /\ LooserNewScore(s1, s0) \in Score
  BY <1>1, NewScoresType
<1> QED
  BY <1>2, <1>3 DEF ResultApplied, Winner, AuditTypeOK
-----------------------------------------------------------------------------
(* What a genesis configuration registers is well typed.                   *)
LEMMA AuditInitType == AuditInit => AuditTypeOK
<1> SUFFICES ASSUME AuditInit PROVE AuditTypeOK
  OBVIOUS
<1>1. \A a \in GenesisAuditors, profile \in Profiles :
        GenesisEntry(a, profile) \in AuditorData
  BY AuditAssumption DEF GenesisEntry, AuditorData
<1>2. auditorMap \in [Accounts -> AuditorData \cup {NotSignedUp}]
  BY <1>1 DEF AuditInit
<1>3. balances \in [Accounts -> Balance]
  BY AuditAssumption DEF AuditInit, Balance
<1> QED
  BY <1>2, <1>3, AuditAssumption DEF AuditInit, AuditTypeOK

(* Every call leaves the register and the ledger well typed.               *)
LEMMA AuditStepType == AuditTypeOK /\ [AuditNext]_auditVars => AuditTypeOK'
<1> SUFFICES ASSUME AuditTypeOK, [AuditNext]_auditVars PROVE AuditTypeOK'
  OBVIOUS
<1> USE AuditAssumption
<1>1. ASSUME NEW a \in Accounts, NEW profile \in Profiles, SignUp(a, profile)
      PROVE  AuditTypeOK'
  <2>1. NewAuditor(profile) \in AuditorData
    BY DEF NewAuditor, AuditorData
  <2>2. balances' \in [Accounts -> Balance]
    BY <1>1, ReserveType DEF SignUp, AuditTypeOK
  <2> QED
    BY <1>1, <2>1, <2>2 DEF SignUp, AuditTypeOK
<1>2. ASSUME NEW a \in Accounts, NEW profile \in Profiles, UpdateProfile(a, profile)
      PROVE  AuditTypeOK'
  <2>1. WithProfile(auditorMap[a], profile) \in AuditorData
    BY <1>2 DEF UpdateProfile, WithProfile, IsSignedUp, AuditTypeOK, AuditorData
  <2> QED
    BY <1>2, <2>1 DEF UpdateProfile, AuditTypeOK
<1>3. ASSUME NEW a \in Accounts, CancelAccount(a)
      PROVE  AuditTypeOK'
  <2>1. Unreserve(balances, a, MinAuditorStake) \in [Accounts -> Balance]
    BY UnreserveType DEF AuditTypeOK
  <2>2. balances' \in [Accounts -> Balance]
    BY <1>3, <2>1, WithdrawType DEF CancelAccount
  <2> QED
    BY <1>3, <2>2 DEF CancelAccount, AuditTypeOK
<1>4. ASSUME NEW sender \in Accounts, NEW candidate \in Accounts,
             ApproveAuditor(sender, candidate)
      PROVE  AuditTypeOK'
  <2>1. auditorMap[candidate] \in AuditorData
    BY <1>4 DEF ApproveAuditor, MayApprove, IsPending, IsSignedUp, AuditTypeOK
  <2>2. ScoreAfterApproval(Len(auditorMap[candidate].approvedBy) + 1) \in Score \cup {NoScore}
    BY DEF ScoreAfterApproval
  <2>3. Append(auditorMap[candidate].approvedBy, sender) \in Seq(Accounts)
    BY <2>1 DEF AuditorData
  <2>4. WithApproval(auditorMap[candidate], sender) \in AuditorData
    BY <2>1, <2>2, <2>3 DEF WithApproval, AuditorData
  <2> QED
    BY <1>4, <2>4 DEF ApproveAuditor, AuditTypeOK
<1>5. ASSUME NEW p0 \in Accounts, NEW p1 \in Accounts, NEW winner \in Winner,
             GameResult(p0, p1, winner)
      PROVE  AuditTypeOK'
  <2>1. auditorMap' \in [Accounts -> AuditorData \cup {NotSignedUp}]
    BY <1>5, ResultAppliedType DEF GameResult, ApplyResult
  <2> QED
    BY <1>5, <2>1 DEF GameResult, ApplyResult, AuditTypeOK
<1>6. ASSUME NEW from \in Accounts, NEW to \in Accounts, NEW v \in TransferAmounts,
             Transfer(from, to, v)
      PROVE  AuditTypeOK'
  BY <1>6, TransferType DEF Transfer, AuditTypeOK
<1>7. CASE UNCHANGED auditVars
  BY <1>7 DEF auditVars, AuditTypeOK
<1> QED
  BY <1>1, <1>2, <1>3, <1>4, <1>5, <1>6, <1>7 DEF AuditNext

(* Type correctness of the register of auditors: scores stay in the range  *)
(* of u32 and no balance goes below zero.                                  *)
THEOREM AuditTypeCorrect == AuditSpec => []AuditTypeOK
BY AuditInitType, AuditStepType, PTL DEF AuditSpec
-----------------------------------------------------------------------------
(* apply_result touches nothing of an entry but the score of an auditor,   *)
(* which stays a score: who is signed up, pending or an auditor, and by    *)
(* whose approvals, is the same after it.                                  *)
LEMMA ResultKeepsStanding ==
  ASSUME AuditTypeOK, AuditTypeOK', NEW p0 \in Accounts, NEW p1 \in Accounts,
         NEW winner \in Winner, ApplyResult(p0, p1, winner), NEW a \in Accounts
  PROVE  /\ IsSignedUp(a)' <=> IsSignedUp(a)
         /\ IsPending(a)' <=> IsPending(a)
         /\ IsSignedUp(a) => auditorMap'[a].approvedBy = auditorMap[a].approvedBy
<1> DEFINE s0 == auditorMap[p0].score
           s1 == auditorMap[p1].score
<1>1. /\ auditorMap[p0] \in AuditorData /\ s0 \in Score
      /\ auditorMap[p1] \in AuditorData /\ s1 \in Score
  BY DEF AuditTypeOK, ApplyResult, CanApplyResult, IsAuditor, IsSignedUp, AuditorData
<1>2. \E x, y \in Score : auditorMap' = WithScores(x, y, p0, p1) \/ auditorMap' = auditorMap
  <2>1. /\ WinnerNewScore(s0, s1) \in Score /\ LooserNewScore(s0, s1) \in Score
        /\ WinnerNewScore(s1, s0) \in Score /\ LooserNewScore(s1, s0) \in Score
    BY <1>1, NewScoresType
  <2> QED
    BY <1>1, <2>1 DEF ApplyResult, ResultApplied, Winner
<1>3. PICK x \in Score, y \in Score :
        auditorMap' = WithScores(x, y, p0, p1) \/ auditorMap' = auditorMap
  BY <1>2
<1>4. x # NoScore /\ y # NoScore /\ s0 # NoScore /\ s1 # NoScore
  BY <1>1, AuditAssumption DEF Score
<1>5. CASE auditorMap' = auditorMap
  BY <1>5 DEF IsSignedUp, IsPending
<1>6. CASE auditorMap' = WithScores(x, y, p0, p1)
  <2>1. CASE a # p0 /\ a # p1
    BY <1>6, <2>1 DEF WithScores, IsSignedUp, IsPending, AuditTypeOK
  <2>2. CASE a = p0 \/ a = p1
    <3>1. auditorMap'[a] = [auditorMap[a] EXCEPT !.score = IF a = p1 THEN y ELSE x]
      BY <1>1, <1>6, <2>2 DEF WithScores, AuditTypeOK, AuditorData
    <3>2. /\ auditorMap[a] \in AuditorData
          /\ auditorMap'[a] \in AuditorData
          /\ auditorMap[a].score # NoScore
          /\ auditorMap'[a].score # NoScore
          /\ auditorMap'[a].approvedBy = auditorMap[a].approvedBy
      BY <1>1, <1>3, <1>4, <2>2, <3>1 DEF AuditorData
    <3> QED
      BY <3>2, AuditAssumption DEF IsSignedUp, IsPending
  <2> QED
    BY <2>1, <2>2
<1> QED
  BY <1>3, <1>5, <1>6
-----------------------------------------------------------------------------
(* The invariant of one account that ApprovedByThreeOthers makes of all.   *)
StandingOK(a) ==
  IsSignedUp(a) =>
    LET approvals == auditorMap[a].approvedBy IN
    /\ \A i, j \in DOMAIN approvals : approvals[i] = approvals[j] => i = j
    /\ \A i \in DOMAIN approvals : approvals[i] # a
    /\ IsPending(a) => Len(approvals) < ApprovalsNeeded
    /\ IsAuditor(a) => Len(approvals) = ApprovalsNeeded \/ HasGenesisEntry(a)

(* A step that keeps an account's approvals and status keeps its standing. *)
LEMMA StandingKept ==
  ASSUME NEW a \in Accounts, StandingOK(a),
         IsSignedUp(a)' <=> IsSignedUp(a),
         IsPending(a)' <=> IsPending(a),
         IsSignedUp(a) => auditorMap'[a].approvedBy = auditorMap[a].approvedBy
  PROVE  StandingOK(a)'
BY DEF StandingOK, IsAuditor, IsPending, IsSignedUp, HasGenesisEntry

(* The same for a step that does not touch the account's entry at all.     *)
LEMMA StandingOfOthers ==
  ASSUME NEW a \in Accounts, StandingOK(a), auditorMap'[a] = auditorMap[a]
  PROVE  StandingOK(a)'
BY DEF StandingOK, IsAuditor, IsPending, IsSignedUp, HasGenesisEntry

(* approve_auditor: the approver is an auditor, so it is not the pending   *)
(* candidate, and it is not among those who approved already; with the     *)
(* third approval, and not before, the candidate gets its score.           *)
LEMMA ApprovalKeepsStanding ==
  ASSUME AuditTypeOK, NEW sender \in Accounts, NEW candidate \in Accounts,
         StandingOK(candidate), ApproveAuditor(sender, candidate)
  PROVE  StandingOK(candidate)'
<1> DEFINE old == auditorMap[candidate].approvedBy
           new == auditorMap'[candidate].approvedBy
<1>1. sender # candidate
  BY DEF ApproveAuditor, MayApprove, HasEnoughRank, IsAuditor, IsPending
<1>2. /\ auditorMap[candidate] \in AuditorData
      /\ IsSignedUp(candidate) /\ IsPending(candidate)
      /\ \A i \in DOMAIN old : old[i] # sender
  BY DEF ApproveAuditor, MayApprove, HasApprovalOf, IsPending, IsSignedUp, AuditTypeOK
<1>3. old \in Seq(Accounts) /\ Len(old) \in Nat /\ Len(old) < 3
  BY <1>2 DEF AuditorData, StandingOK, ApprovalsNeeded
<1>4. /\ new = Append(old, sender)
      /\ auditorMap'[candidate].score = ScoreAfterApproval(Len(old) + 1)
  BY <1>2 DEF ApproveAuditor, WithApproval, AuditTypeOK, AuditorData
<1>5. /\ DOMAIN old = 1 .. Len(old)
      /\ DOMAIN new = 1 .. Len(old) + 1
      /\ Len(new) = Len(old) + 1
      /\ \A i \in 1 .. Len(old) : new[i] = old[i]
      /\ new[Len(old) + 1] = sender
  BY <1>3, <1>4
<1>6. /\ \A i, j \in DOMAIN old : old[i] = old[j] => i = j
      /\ \A i \in DOMAIN old : old[i] # candidate
  BY <1>2 DEF StandingOK
<1> HIDE DEF old, new
<1>7. ASSUME NEW i \in DOMAIN new, NEW j \in DOMAIN new, new[i] = new[j]
      PROVE  i = j
  <2>1. CASE i \in 1 .. Len(old) /\ j \in 1 .. Len(old)
    BY <1>5, <1>6, <1>7, <2>1
  <2>2. CASE i = Len(old) + 1 \/ j = Len(old) + 1
    <3>1. new[i] = sender /\ new[j] = sender
      BY <1>5, <1>7, <2>2
    <3>2. ~(i \in 1 .. Len(old)) /\ ~(j \in 1 .. Len(old))
      BY <1>2, <1>5, <3>1
    <3> QED
      BY <1>3, <1>5, <3>2
  <2> QED
    BY <1>3, <1>5, <2>1, <2>2
<1>8. \A i \in DOMAIN new : new[i] # candidate
  BY <1>1, <1>3, <1>5, <1>6
<1>9. InitialAuditorScore # NoScore
  BY AuditAssumption, EloAssumption DEF Score
<1>10. /\ IsPending(candidate)' => Len(new) < 3
       /\ IsAuditor(candidate)' => Len(new) = 3
  BY <1>3, <1>4, <1>5, <1>9 DEF new, ScoreAfterApproval, ApprovalsNeeded, IsPending, IsAuditor
<1> QED
  BY <1>7, <1>8, <1>10 DEF StandingOK, ApprovalsNeeded, new

(* Every account's standing survives every call on the register.           *)
LEMMA AuditStepStanding ==
  AuditTypeOK /\ AuditTypeOK' /\ ApprovedByThreeOthers /\ [AuditNext]_auditVars
    => ApprovedByThreeOthers'
<1> SUFFICES ASSUME AuditTypeOK, AuditTypeOK', \A a \in Accounts : StandingOK(a),
                    [AuditNext]_auditVars,
                    NEW x \in Accounts
             PROVE  StandingOK(x)'
  BY DEF ApprovedByThreeOthers, StandingOK
<1>0. StandingOK(x)
  OBVIOUS
<1>1. ASSUME NEW a \in Accounts, NEW profile \in Profiles, SignUp(a, profile)
      PROVE  StandingOK(x)'
  <2>1. CASE x = a
    <3>1. auditorMap'[x] = NewAuditor(profile)
      BY <1>1, <2>1 DEF SignUp, AuditTypeOK
    <3>2. auditorMap'[x].score = NoScore /\ auditorMap'[x].approvedBy = << >>
      BY <3>1 DEF NewAuditor
    <3> QED
      BY <3>2 DEF StandingOK, IsAuditor, IsPending, ApprovalsNeeded
  <2>2. CASE x # a
    BY <1>0, <1>1, <2>2, StandingOfOthers DEF SignUp, AuditTypeOK
  <2> QED
    BY <2>1, <2>2
<1>2. ASSUME NEW a \in Accounts, NEW profile \in Profiles, UpdateProfile(a, profile)
      PROVE  StandingOK(x)'
  <2>1. CASE x = a
    <3>1. auditorMap[x] \in AuditorData /\ auditorMap'[x] = WithProfile(auditorMap[x], profile)
      BY <1>2, <2>1 DEF UpdateProfile, IsSignedUp, AuditTypeOK
    <3>2. /\ auditorMap'[x] \in AuditorData
          /\ auditorMap'[x].score = auditorMap[x].score
          /\ auditorMap'[x].approvedBy = auditorMap[x].approvedBy
      BY <3>1 DEF WithProfile, AuditorData
    <3>3. IsSignedUp(x) /\ IsSignedUp(x)'
      BY <1>2, <2>1, <3>2, AuditAssumption DEF UpdateProfile, IsSignedUp
    <3> QED
      BY <1>0, <3>2, <3>3, StandingKept DEF IsPending
  <2>2. CASE x # a
    BY <1>0, <1>2, <2>2, StandingOfOthers DEF UpdateProfile, AuditTypeOK
  <2> QED
    BY <2>1, <2>2
<1>3. ASSUME NEW a \in Accounts, CancelAccount(a)
      PROVE  StandingOK(x)'
  <2>1. CASE x = a
    BY <1>3, <2>1 DEF CancelAccount, AuditTypeOK, StandingOK, IsSignedUp
  <2>2. CASE x # a
    BY <1>0, <1>3, <2>2, StandingOfOthers DEF CancelAccount, AuditTypeOK
  <2> QED
    BY <2>1, <2>2
<1>4. ASSUME NEW sender \in Accounts, NEW candidate \in Accounts,
             ApproveAuditor(sender, candidate)
      PROVE  StandingOK(x)'
  <2>1. CASE x = candidate
    BY <1>4, <1>0, <2>1, ApprovalKeepsStanding
  <2>2. CASE x # candidate
    BY <1>0, <1>4, <2>2, StandingOfOthers DEF ApproveAuditor, AuditTypeOK
  <2> QED
    BY <2>1, <2>2
<1>5. ASSUME NEW p0 \in Accounts, NEW p1 \in Accounts, NEW winner \in Winner,
             GameResult(p0, p1, winner)
      PROVE  StandingOK(x)'
  BY <1>0, <1>5, ResultKeepsStanding, StandingKept DEF GameResult
<1>6. ASSUME NEW from \in Accounts, NEW to \in Accounts, NEW v \in TransferAmounts,
             Transfer(from, to, v)
      PROVE  StandingOK(x)'
  BY <1>0, <1>6, StandingOfOthers DEF Transfer
<1>7. CASE UNCHANGED auditVars
  BY <1>0, <1>7, StandingOfOthers DEF auditVars
<1> QED
  BY <1>1, <1>2, <1>3, <1>4, <1>5, <1>6, <1>7 DEF AuditNext

(* At genesis the only entries are those of the configuration.             *)
LEMMA AuditInitStanding == AuditInit => ApprovedByThreeOthers
<1> SUFFICES ASSUME AuditInit, NEW a \in Accounts, IsSignedUp(a)
             PROVE  StandingOK(a)
  BY DEF ApprovedByThreeOthers, StandingOK
<1>1. /\ a \in GenesisAuditors
      /\ auditorMap[a].approvedBy = << >>
      /\ auditorMap[a].score = GenesisScore[a]
  BY DEF AuditInit, IsSignedUp, GenesisEntry
<1>2. GenesisScore[a] # NoScore
  BY <1>1, AuditAssumption, EloAssumption DEF Score
<1> QED
  BY <1>1, <1>2 DEF StandingOK, IsPending, IsAuditor, HasGenesisEntry

(* Whoever has a score and no genesis entry was approved by three          *)
(* different accounts other than itself, and whoever is pending lacks an   *)
(* approval, after any sequence of calls by any number of accounts.        *)
THEOREM ApprovalsCorrect == AuditSpec => []ApprovedByThreeOthers
<1>1. AuditInit => AuditTypeOK /\ ApprovedByThreeOthers
  BY AuditInitType, AuditInitStanding
<1>2. AuditTypeOK /\ ApprovedByThreeOthers /\ [AuditNext]_auditVars
        => (AuditTypeOK /\ ApprovedByThreeOthers)'
  BY AuditStepType, AuditStepStanding
<1> QED
  BY <1>1, <1>2, PTL DEF AuditSpec
-----------------------------------------------------------------------------
(* The invariant of one account that StakeHeld makes of all.               *)
StakeOK(a) ==
  IsSignedUp(a) /\ ~HasGenesisEntry(a) => balances[a].reserved >= MinAuditorStake

(* A step that keeps an account's standing and takes nothing of what it    *)
(* has reserved keeps its stake.                                           *)
LEMMA StakeKept ==
  ASSUME NEW a \in Accounts, AuditTypeOK, AuditTypeOK', StakeOK(a),
         IsSignedUp(a)' <=> IsSignedUp(a),
         HasGenesisEntry(a) => HasGenesisEntry(a)',
         balances'[a].reserved >= balances[a].reserved
  PROVE  StakeOK(a)'
<1>1. balances[a].reserved \in Nat /\ balances'[a].reserved \in Nat
  BY DEF AuditTypeOK, Balance
<1> QED
  BY <1>1, AuditAssumption DEF StakeOK

(* No call on the register takes the reserved stake of an account that     *)
(* stays signed up: what cancel_account unreserves and burns is its        *)
(* sender's, whose entry it removes.                                       *)
LEMMA AuditStepStake ==
  AuditTypeOK /\ AuditTypeOK' /\ StakeHeld /\ [AuditNext]_auditVars => StakeHeld'
<1> SUFFICES ASSUME AuditTypeOK, AuditTypeOK', [AuditNext]_auditVars,
                    \A a \in Accounts : StakeOK(a),
                    NEW x \in Accounts
             PROVE  StakeOK(x)'
  BY DEF StakeHeld, StakeOK
<1> USE AuditAssumption
<1>0. /\ StakeOK(x)
      /\ balances[x] \in Balance /\ balances'[x] \in Balance
      /\ balances[x].reserved \in Nat /\ balances'[x].reserved \in Nat
  BY DEF AuditTypeOK, Balance
<1>e. ASSUME auditorMap'[x] = auditorMap[x], balances'[x].reserved >= balances[x].reserved
      PROVE  StakeOK(x)'
  BY <1>0, <1>e, StakeKept DEF IsSignedUp, HasGenesisEntry, IsAuditor
<1>1. ASSUME NEW a \in Accounts, NEW profile \in Profiles, SignUp(a, profile)
      PROVE  StakeOK(x)'
  <2>1. CASE x = a
    <3>1. balances'[x].reserved = balances[x].reserved + MinAuditorStake
      BY <1>1, <2>1 DEF SignUp, Reserve, AuditTypeOK
    <3> QED
      BY <1>0, <3>1 DEF StakeOK
  <2>2. CASE x # a
    <3>1. auditorMap'[x] = auditorMap[x] /\ balances'[x] = balances[x]
      BY <1>1, <2>2 DEF SignUp, Reserve, AuditTypeOK
    <3> QED
      BY <1>0, <1>e, <3>1
  <2> QED
    BY <2>1, <2>2
<1>2. ASSUME NEW a \in Accounts, NEW profile \in Profiles, UpdateProfile(a, profile)
      PROVE  StakeOK(x)'
  <2>1. CASE x = a
    <3>1. auditorMap[x] \in AuditorData /\ auditorMap'[x] = WithProfile(auditorMap[x], profile)
      BY <1>2, <2>1 DEF UpdateProfile, IsSignedUp, AuditTypeOK
    <3>2. /\ auditorMap'[x] \in AuditorData
          /\ auditorMap'[x].score = auditorMap[x].score
          /\ auditorMap'[x].approvedBy = auditorMap[x].approvedBy
      BY <3>1 DEF WithProfile, AuditorData
    <3>3. IsSignedUp(x) /\ IsSignedUp(x)' /\ balances'[x].reserved >= balances[x].reserved
      BY <1>0, <1>2, <2>1, <3>2 DEF UpdateProfile, IsSignedUp
    <3> QED
      BY <1>0, <3>2, <3>3, StakeKept DEF HasGenesisEntry, IsAuditor
  <2>2. CASE x # a
    BY <1>0, <1>2, <1>e, <2>2 DEF UpdateProfile, AuditTypeOK
  <2> QED
    BY <2>1, <2>2
<1>3. ASSUME NEW a \in Accounts, CancelAccount(a)
      PROVE  StakeOK(x)'
  <2>1. CASE x = a
    BY <1>3, <2>1 DEF CancelAccount, AuditTypeOK, StakeOK, IsSignedUp
  <2>2. CASE x # a
    <3>1. auditorMap'[x] = auditorMap[x] /\ balances'[x] = balances[x]
      BY <1>3, <2>2 DEF CancelAccount, Unreserve, Withdraw, AuditTypeOK
    <3> QED
      BY <1>0, <1>e, <3>1
  <2> QED
    BY <2>1, <2>2
<1>4. ASSUME NEW sender \in Accounts, NEW candidate \in Accounts,
             ApproveAuditor(sender, candidate)
      PROVE  StakeOK(x)'
  <2>1. CASE x = candidate
    <3>1. IsSignedUp(x) /\ ~HasGenesisEntry(x)
      BY <1>4, <2>1 DEF ApproveAuditor, MayApprove, IsPending, HasGenesisEntry, IsAuditor
    <3> QED
      BY <1>0, <1>4, <3>1 DEF ApproveAuditor, StakeOK
  <2>2. CASE x # candidate
    BY <1>0, <1>4, <1>e, <2>2 DEF ApproveAuditor, AuditTypeOK
  <2> QED
    BY <2>1, <2>2
<1>5. ASSUME NEW p0 \in Accounts, NEW p1 \in Accounts, NEW winner \in Winner,
             GameResult(p0, p1, winner)
      PROVE  StakeOK(x)'
  <2>1. /\ IsSignedUp(x)' <=> IsSignedUp(x)
        /\ IsPending(x)' <=> IsPending(x)
        /\ IsSignedUp(x) => auditorMap'[x].approvedBy = auditorMap[x].approvedBy
    BY <1>5, ResultKeepsStanding DEF GameResult
  <2>2. HasGenesisEntry(x) => HasGenesisEntry(x)'
    BY <2>1 DEF HasGenesisEntry, IsAuditor, IsPending
  <2> QED
    BY <1>0, <1>5, <2>1, <2>2, StakeKept DEF GameResult
<1>6. ASSUME NEW from \in Accounts, NEW to \in Accounts, NEW v \in TransferAmounts,
             Transfer(from, to, v)
      PROVE  StakeOK(x)'
  <2>1. balances'[x].reserved = balances[x].reserved
    BY <1>0, <1>6 DEF Transfer, Transferred, AuditTypeOK, Balance
  <2> QED
    BY <1>0, <1>6, <1>e, <2>1 DEF Transfer
<1>7. CASE UNCHANGED auditVars
  BY <1>0, <1>7, <1>e DEF auditVars
<1> QED
  BY <1>1, <1>2, <1>3, <1>4, <1>5, <1>6, <1>7 DEF AuditNext

(* At genesis every entry is one of the configuration.                     *)
LEMMA AuditInitStake == AuditInit => StakeHeld
<1> SUFFICES ASSUME AuditInit, NEW a \in Accounts, IsSignedUp(a)
             PROVE  HasGenesisEntry(a)
  BY DEF StakeHeld
<1>1. /\ a \in GenesisAuditors
      /\ auditorMap[a].approvedBy = << >>
      /\ auditorMap[a].score = GenesisScore[a]
  BY DEF AuditInit, IsSignedUp, GenesisEntry
<1>2. GenesisScore[a] # NoScore
  BY <1>1, AuditAssumption, EloAssumption DEF Score
<1> QED
  BY <1>1, <1>2 DEF IsAuditor, HasGenesisEntry

(* Whoever signed up has the stake reserved for as long as it is signed up;*)
(* only the entries of the genesis configuration have none.                *)
THEOREM StakeCorrect == AuditSpec => []StakeHeld
<1>1. AuditInit => AuditTypeOK /\ StakeHeld
  BY AuditInitType, AuditInitStake
<1>2. AuditTypeOK /\ StakeHeld /\ [AuditNext]_auditVars => (AuditTypeOK /\ StakeHeld)'
  BY AuditStepType, AuditStepStake
<1> QED
  BY <1>1, <1>2, PTL DEF AuditSpec
-----------------------------------------------------------------------------
(* The standing of one account, as StandingSurvives has it of all.         *)
StandingGrows(a) ==
  IsSignedUp(a) /\ IsSignedUp(a)' =>
    LET before == auditorMap[a]
        after  == auditorMap'[a]
    IN /\ before.score # NoScore => after.score # NoScore
       /\ Len(before.approvedBy) <= Len(after.approvedBy)
       /\ \A i \in DOMAIN before.approvedBy :
            after.approvedBy[i] = before.approvedBy[i]

(* A step that leaves an account its approvals and its status.             *)
LEMMA StandingGrowsKept ==
  ASSUME AuditTypeOK, NEW a \in Accounts,
         IsPending(a)' <=> IsPending(a),
         IsSignedUp(a) => auditorMap'[a].approvedBy = auditorMap[a].approvedBy
  PROVE  StandingGrows(a)
<1> SUFFICES ASSUME IsSignedUp(a), IsSignedUp(a)'
             PROVE  /\ auditorMap[a].score # NoScore => auditorMap'[a].score # NoScore
                    /\ Len(auditorMap[a].approvedBy) <= Len(auditorMap'[a].approvedBy)
                    /\ \A i \in DOMAIN auditorMap[a].approvedBy :
                         auditorMap'[a].approvedBy[i] = auditorMap[a].approvedBy[i]
  BY DEF StandingGrows
<1>1. auditorMap[a] \in AuditorData
  BY DEF AuditTypeOK, IsSignedUp
<1>2. Len(auditorMap[a].approvedBy) \in Nat
  BY <1>1 DEF AuditorData
<1> QED
  BY <1>2 DEF IsPending

(* Every call lets the standing of every account grow, or removes it.      *)
LEMMA StepGrowsStanding ==
  ASSUME AuditTypeOK, AuditTypeOK', [AuditNext]_auditVars, NEW x \in Accounts
  PROVE  StandingGrows(x)
<1>e. ASSUME auditorMap'[x] = auditorMap[x] PROVE StandingGrows(x)
  BY <1>e, StandingGrowsKept DEF IsPending, IsSignedUp
<1>1. ASSUME NEW a \in Accounts, NEW profile \in Profiles, SignUp(a, profile)
      PROVE  StandingGrows(x)
  <2>1. CASE x = a
    BY <1>1, <2>1 DEF SignUp, StandingGrows
  <2>2. CASE x # a
    BY <1>1, <1>e, <2>2 DEF SignUp, AuditTypeOK
  <2> QED
    BY <2>1, <2>2
<1>2. ASSUME NEW a \in Accounts, NEW profile \in Profiles, UpdateProfile(a, profile)
      PROVE  StandingGrows(x)
  <2>1. CASE x = a
    <3>1. /\ auditorMap[x] \in AuditorData
          /\ auditorMap'[x] = WithProfile(auditorMap[x], profile)
      BY <1>2, <2>1 DEF UpdateProfile, IsSignedUp, AuditTypeOK
    <3>2. /\ auditorMap'[x] \in AuditorData
          /\ auditorMap'[x].score = auditorMap[x].score
          /\ auditorMap'[x].approvedBy = auditorMap[x].approvedBy
      BY <3>1 DEF WithProfile, AuditorData
    <3>3. IsPending(x)' <=> IsPending(x)
      BY <3>1, <3>2, AuditAssumption DEF IsPending, IsSignedUp
    <3> QED
      BY <3>2, <3>3, StandingGrowsKept
  <2>2. CASE x # a
    BY <1>2, <1>e, <2>2 DEF UpdateProfile, AuditTypeOK
  <2> QED
    BY <2>1, <2>2
<1>3. ASSUME NEW a \in Accounts, CancelAccount(a)
      PROVE  StandingGrows(x)
  <2>1. CASE x = a
    BY <1>3, <2>1 DEF CancelAccount, StandingGrows, IsSignedUp, AuditTypeOK
  <2>2. CASE x # a
    BY <1>3, <1>e, <2>2 DEF CancelAccount, AuditTypeOK
  <2> QED
    BY <2>1, <2>2
<1>4. ASSUME NEW sender \in Accounts, NEW candidate \in Accounts,
             ApproveAuditor(sender, candidate)
      PROVE  StandingGrows(x)
  <2>1. CASE x = candidate
    <3> DEFINE old == auditorMap[x].approvedBy
               new == auditorMap'[x].approvedBy
    <3>1. auditorMap[x] \in AuditorData /\ auditorMap[x].score = NoScore
      BY <1>4, <2>1 DEF ApproveAuditor, MayApprove, IsPending, IsSignedUp, AuditTypeOK
    <3>2. old \in Seq(Accounts) /\ new = Append(old, sender)
      BY <1>4, <2>1, <3>1 DEF ApproveAuditor, WithApproval, AuditTypeOK, AuditorData
    <3> HIDE DEF old, new
    <3>3. Len(old) <= Len(new) /\ \A i \in DOMAIN old : new[i] = old[i]
      BY <3>2
    <3> QED
      BY <3>1, <3>3 DEF StandingGrows, old, new
  <2>2. CASE x # candidate
    BY <1>4, <1>e, <2>2 DEF ApproveAuditor, AuditTypeOK
  <2> QED
    BY <2>1, <2>2
<1>5. ASSUME NEW p0 \in Accounts, NEW p1 \in Accounts, NEW winner \in Winner,
             GameResult(p0, p1, winner)
      PROVE  StandingGrows(x)
  <2>1. ApplyResult(p0, p1, winner)
    BY <1>5 DEF GameResult
  <2> QED
    BY <2>1, ResultKeepsStanding, StandingGrowsKept
<1>6. ASSUME NEW from \in Accounts, NEW to \in Accounts, NEW v \in TransferAmounts,
             Transfer(from, to, v)
      PROVE  StandingGrows(x)
  BY <1>6, <1>e DEF Transfer
<1>7. CASE UNCHANGED auditVars
  BY <1>7, <1>e DEF auditVars
<1> QED
  BY <1>1, <1>2, <1>3, <1>4, <1>5, <1>6, <1>7 DEF AuditNext

(* No call demotes an auditor to a candidate or loses, reorders or replaces*)
(* an approval of an account that stays signed up.                         *)
THEOREM StandingCorrect == AuditSpec => StandingSurvives
<1>1. AuditTypeOK /\ AuditTypeOK' /\ [AuditNext]_auditVars
        => \A a \in Accounts : StandingGrows(a)
  BY StepGrowsStanding
<1>2. (\A a \in Accounts : StandingGrows(a)) =>
        \A a \in Accounts :
          IsSignedUp(a) /\ IsSignedUp(a)' =>
            LET before == auditorMap[a]
                after  == auditorMap'[a]
            IN /\ before.score # NoScore => after.score # NoScore
               /\ Len(before.approvedBy) <= Len(after.approvedBy)
               /\ \A i \in DOMAIN before.approvedBy :
                    after.approvedBy[i] = before.approvedBy[i]
  BY DEF StandingGrows
<1> QED
  BY <1>1, <1>2, AuditTypeCorrect, PTL DEF AuditSpec, StandingSurvives
-----------------------------------------------------------------------------
(* What all accounts hold together moves as one account does that changes  *)
(* alone.                                                                  *)
LEMMA IssuanceOneChanged ==
  ASSUME NEW before \in [Accounts -> Balance], NEW after \in [Accounts -> Balance],
         NEW a \in Accounts, \A x \in Accounts \ {a} : after[x] = before[x]
  PROVE  /\ Issuance(before) \in Int
         /\ Issuance(after) = Issuance(before) - Total(before[a]) + Total(after[a])
<1> DEFINE f == [x \in Accounts |-> Total(before[x])]
           g == [x \in Accounts |-> Total(after[x])]
<1>1. f \in [Accounts -> Int] /\ g \in [Accounts -> Int]
  BY DEF Total, Balance
<1>2. Issuance(before) = SumFunction(f) /\ Issuance(after) = SumFunction(g)
  BY DEF Issuance
<1>3. /\ f[a] = Total(before[a]) /\ g[a] = Total(after[a])
      /\ \A x \in Accounts \ {a} : g[x] = f[x]
  OBVIOUS
<1> HIDE DEF f, g
<1>4. SumFunction(f) \in Int /\ SumFunction(g) = SumFunction(f) - f[a] + g[a]
  BY <1>1, <1>3, AuditAssumption, SumType, SumOneChanged
<1> QED
  BY <1>2, <1>3, <1>4, Zenon

LEMMA IssuanceTwoChanged ==
  ASSUME NEW before \in [Accounts -> Balance], NEW after \in [Accounts -> Balance],
         NEW a \in Accounts, NEW b \in Accounts, a # b,
         \A x \in Accounts \ {a, b} : after[x] = before[x],
         Total(after[a]) + Total(after[b]) = Total(before[a]) + Total(before[b])
  PROVE  Issuance(after) = Issuance(before)
<1> DEFINE f == [x \in Accounts |-> Total(before[x])]
           g == [x \in Accounts |-> Total(after[x])]
<1>1. f \in [Accounts -> Int] /\ g \in [Accounts -> Int]
  BY DEF Total, Balance
<1>2. Issuance(before) = SumFunction(f) /\ Issuance(after) = SumFunction(g)
  BY DEF Issuance
<1>3. /\ g[a] + g[b] = f[a] + f[b]
      /\ \A x \in Accounts \ {a, b} : g[x] = f[x]
  OBVIOUS
<1> HIDE DEF f, g
<1>4. SumFunction(g) = SumFunction(f)
  BY <1>1, <1>3, AuditAssumption, SumBalanced
<1> QED
  BY <1>2, <1>4, Zenon

(* reserve and unreserve move between the two parts of a balance.          *)
LEMMA ReserveTotal ==
  ASSUME NEW ledger \in [Accounts -> Balance], NEW a \in Accounts, NEW v \in Nat
  PROVE  /\ Total(Reserve(ledger, a, v)[a]) = Total(ledger[a])
         /\ Total(Unreserve(ledger, a, v)[a]) = Total(ledger[a])
         /\ \A x \in Accounts \ {a} : /\ Reserve(ledger, a, v)[x] = ledger[x]
                                      /\ Unreserve(ledger, a, v)[x] = ledger[x]
<1>1. ledger[a].free \in Nat /\ ledger[a].reserved \in Nat
  BY DEF Balance
<1>2. Released(ledger[a], v) \in Nat
  BY <1>1 DEF Released
<1> QED
  BY <1>1, <1>2 DEF Reserve, Unreserve, Total

(* withdraw takes at least the amount out of the account: the account that *)
(* is left with less than the existential deposit loses the rest as well.  *)
LEMMA WithdrawTotal ==
  ASSUME NEW ledger \in [Accounts -> Balance], NEW a \in Accounts, NEW v \in Nat,
         CanWithdraw(ledger, a, v)
  PROVE  /\ Total(Withdraw(ledger, a, v)[a]) <= Total(ledger[a]) - v
         /\ \A x \in Accounts \ {a} : Withdraw(ledger, a, v)[x] = ledger[x]
<1> DEFINE left == [free |-> ledger[a].free - v, reserved |-> ledger[a].reserved]
<1>1. ledger[a].free \in Nat /\ ledger[a].reserved \in Nat /\ ledger[a].free >= v
  BY DEF Balance, CanWithdraw
<1>2. Total(left) = Total(ledger[a]) - v /\ Total(left) \in Nat
  BY <1>1 DEF Total
<1>3. Withdraw(ledger, a, v)[a] = Reap(left)
  BY DEF Withdraw
<1> HIDE DEF left
<1>4. Total(Reap(left)) <= Total(left)
  BY <1>2 DEF Reap, Total
<1> QED
  BY <1>2, <1>3, <1>4 DEF Withdraw

(* cancel_account: nothing is burnt but the forfeited stake and, with it,  *)
(* what is left of an account below the existential deposit.               *)
LEMMA CancelBurns ==
  ASSUME AuditTypeOK, AuditTypeOK', NEW a \in Accounts, CancelAccount(a)
  PROVE  /\ Issuance(balances) \in Int
         /\ Issuance(balances') \in Int
         /\ Issuance(balances') = Issuance(balances) - Total(balances[a]) + Total(balances'[a])
         /\ IF StandsBelowInitial(a)
              THEN Total(balances'[a]) <= Total(balances[a]) - MinAuditorStake
              ELSE Total(balances'[a]) = Total(balances[a])
<1> DEFINE refunded == Unreserve(balances, a, MinAuditorStake)
<1> USE AuditAssumption
<1>1. /\ balances \in [Accounts -> Balance] /\ balances' \in [Accounts -> Balance]
      /\ refunded \in [Accounts -> Balance]
  BY UnreserveType DEF AuditTypeOK
<1>2. /\ Total(refunded[a]) = Total(balances[a])
      /\ \A x \in Accounts \ {a} : refunded[x] = balances[x]
  BY <1>1, ReserveTotal
<1>3. StandsBelowInitial(a) <=> ForfeitsStake(a)
  <2>1. IsAuditor(a) => auditorMap[a].score \in Score
    BY DEF IsAuditor, IsSignedUp, AuditTypeOK, AuditorData
  <2>2. \A s \in Score : s < InitialAuditorScore <=> s \in 0 .. InitialAuditorScore - 1
    BY EloAssumption DEF Score
  <2> QED
    BY <2>1, <2>2, Zenon DEF StandsBelowInitial, ForfeitsStake
<1>4. /\ \A x \in Accounts \ {a} : balances'[x] = balances[x]
      /\ IF StandsBelowInitial(a)
           THEN Total(balances'[a]) <= Total(balances[a]) - MinAuditorStake
           ELSE Total(balances'[a]) = Total(balances[a])
  <2>1. CASE ~ForfeitsStake(a)
    <3>1. balances' = refunded
      BY <2>1 DEF CancelAccount
    <3> HIDE DEF refunded
    <3> QED
      BY <1>2, <1>3, <2>1, <3>1
  <2>2. CASE ForfeitsStake(a)
    <3>1. /\ CanWithdraw(refunded, a, MinAuditorStake)
          /\ balances' = Withdraw(refunded, a, MinAuditorStake)
      BY <2>2 DEF CancelAccount
    <3> HIDE DEF refunded
    <3>2. /\ Total(balances'[a]) <= Total(refunded[a]) - MinAuditorStake
          /\ \A x \in Accounts \ {a} : balances'[x] = refunded[x]
      BY <1>1, <3>1, WithdrawTotal
    <3> QED
      BY <1>2, <1>3, <2>2, <3>2
  <2> QED
    BY <2>1, <2>2
<1> QED
  BY <1>1, <1>4, IssuanceOneChanged

(* What OnlyForfeitsBurn says of a step.                                   *)
BurnsOnlyForfeits ==
  /\ Issuance(balances') <= Issuance(balances)
  /\ \A a \in Accounts :
       IsSignedUp(a) /\ ~IsSignedUp(a)' =>
         IF StandsBelowInitial(a)
           THEN Issuance(balances') <= Issuance(balances) - MinAuditorStake
           ELSE Total(balances'[a]) = Total(balances[a])
  /\ Issuance(balances') # Issuance(balances) =>
       \E a \in Accounts : StandsBelowInitial(a) /\ ~IsSignedUp(a)'

(* A step that burns nothing and removes nobody.                           *)
LEMMA NothingBurnt ==
  ASSUME AuditTypeOK, Issuance(balances') = Issuance(balances),
         \A a \in Accounts : IsSignedUp(a) => IsSignedUp(a)'
  PROVE  BurnsOnlyForfeits
<1>1. Issuance(balances) \in Int
  <2> DEFINE f == [x \in Accounts |-> Total(balances[x])]
  <2>1. f \in [Accounts -> Int] /\ Issuance(balances) = SumFunction(f)
    BY DEF AuditTypeOK, Total, Balance, Issuance
  <2> HIDE DEF f
  <2> QED
    BY <2>1, AuditAssumption, SumType
<1> QED
  BY <1>1 DEF BurnsOnlyForfeits

LEMMA StepBurns ==
  ASSUME AuditTypeOK, AuditTypeOK', [AuditNext]_auditVars
  PROVE  BurnsOnlyForfeits
<1> USE AuditAssumption
<1>0. balances \in [Accounts -> Balance] /\ balances' \in [Accounts -> Balance]
  BY DEF AuditTypeOK
<1>1. ASSUME NEW a \in Accounts, NEW profile \in Profiles, SignUp(a, profile)
      PROVE  BurnsOnlyForfeits
  <2>1. balances' = Reserve(balances, a, MinAuditorStake)
    BY <1>1 DEF SignUp
  <2>2. /\ Total(balances'[a]) = Total(balances[a])
        /\ \A x \in Accounts \ {a} : balances'[x] = balances[x]
    BY <1>0, <2>1, ReserveTotal
  <2>3. /\ Issuance(balances) \in Int
        /\ Issuance(balances') = Issuance(balances) - Total(balances[a]) + Total(balances'[a])
    BY <1>0, <2>2, IssuanceOneChanged
  <2>4. Total(balances[a]) \in Int
    BY <1>0 DEF Total, Balance
  <2>5. Issuance(balances') = Issuance(balances)
    BY <2>2, <2>3, <2>4
  <2>6. \A x \in Accounts : IsSignedUp(x) => IsSignedUp(x)'
    BY <1>1 DEF SignUp, IsSignedUp, AuditTypeOK
  <2> QED
    BY <2>5, <2>6, NothingBurnt
<1>2. ASSUME NEW a \in Accounts, NEW profile \in Profiles, UpdateProfile(a, profile)
      PROVE  BurnsOnlyForfeits
  <2>1. auditorMap[a] \in AuditorData
    BY <1>2 DEF UpdateProfile, IsSignedUp, AuditTypeOK
  <2>2. WithProfile(auditorMap[a], profile) \in AuditorData
    BY <2>1 DEF WithProfile, AuditorData
  <2>3. \A x \in Accounts : IsSignedUp(x) => IsSignedUp(x)'
    BY <1>2, <2>2 DEF UpdateProfile, IsSignedUp, AuditTypeOK
  <2> QED
    BY <1>2, <2>3, NothingBurnt DEF UpdateProfile
<1>3. ASSUME NEW a \in Accounts, CancelAccount(a)
      PROVE  BurnsOnlyForfeits
  <2>1. /\ Issuance(balances) \in Int /\ Issuance(balances') \in Int
        /\ Issuance(balances') = Issuance(balances) - Total(balances[a]) + Total(balances'[a])
        /\ IF StandsBelowInitial(a)
             THEN Total(balances'[a]) <= Total(balances[a]) - MinAuditorStake
             ELSE Total(balances'[a]) = Total(balances[a])
    BY <1>3, CancelBurns
  <2>2. Total(balances[a]) \in Int /\ Total(balances'[a]) \in Int
    BY <1>0 DEF Total, Balance
  <2>3. /\ Issuance(balances') <= Issuance(balances)
        /\ StandsBelowInitial(a) => Issuance(balances') <= Issuance(balances) - MinAuditorStake
        /\ ~StandsBelowInitial(a) => Issuance(balances') = Issuance(balances)
    BY <2>1, <2>2
  <2>4. \A x \in Accounts : IsSignedUp(x) /\ ~IsSignedUp(x)' => x = a
    BY <1>3 DEF CancelAccount, IsSignedUp, AuditTypeOK
  <2>5. ~IsSignedUp(a)'
    BY <1>3 DEF CancelAccount, IsSignedUp, AuditTypeOK
  <2> QED
    BY <2>1, <2>3, <2>4, <2>5, Zenon DEF BurnsOnlyForfeits
<1>4. ASSUME NEW sender \in Accounts, NEW candidate \in Accounts,
             ApproveAuditor(sender, candidate)
      PROVE  BurnsOnlyForfeits
  <2>1. auditorMap'[candidate] # NotSignedUp
    <3>1. auditorMap[candidate] \in AuditorData
      BY <1>4 DEF ApproveAuditor, MayApprove, IsPending, IsSignedUp, AuditTypeOK
    <3>2. /\ ScoreAfterApproval(Len(auditorMap[candidate].approvedBy) + 1) \in Score \cup {NoScore}
          /\ Append(auditorMap[candidate].approvedBy, sender) \in Seq(Accounts)
      BY <3>1 DEF ScoreAfterApproval, AuditorData
    <3>3. WithApproval(auditorMap[candidate], sender) \in AuditorData
      BY <3>1, <3>2 DEF WithApproval, AuditorData
    <3> QED
      BY <1>4, <3>3 DEF ApproveAuditor, AuditTypeOK
  <2>2. \A x \in Accounts : IsSignedUp(x) => IsSignedUp(x)'
    BY <1>4, <2>1 DEF ApproveAuditor, IsSignedUp, AuditTypeOK
  <2> QED
    BY <1>4, <2>2, NothingBurnt DEF ApproveAuditor
<1>5. ASSUME NEW p0 \in Accounts, NEW p1 \in Accounts, NEW winner \in Winner,
             GameResult(p0, p1, winner)
      PROVE  BurnsOnlyForfeits
  <2>1. ApplyResult(p0, p1, winner) /\ UNCHANGED balances
    BY <1>5 DEF GameResult
  <2>2. \A x \in Accounts : IsSignedUp(x) => IsSignedUp(x)'
    BY <2>1, ResultKeepsStanding
  <2> QED
    BY <2>1, <2>2, NothingBurnt
<1>6. ASSUME NEW from \in Accounts, NEW to \in Accounts, NEW v \in TransferAmounts,
             Transfer(from, to, v)
      PROVE  BurnsOnlyForfeits
  <2>1. /\ from # to
        /\ balances' = Transferred(balances, from, to, v)
        /\ UNCHANGED auditorMap
    BY <1>6 DEF Transfer, CanTransfer
  <2>i. v \in Int
    OBVIOUS
  <2>2. /\ balances[from].free \in Nat /\ balances[from].reserved \in Nat
        /\ balances[to].free \in Nat /\ balances[to].reserved \in Nat
    BY <1>0 DEF Balance
  <2>3. /\ balances'[from].free = balances[from].free - v
        /\ balances'[from].reserved = balances[from].reserved
        /\ balances'[to].free = balances[to].free + v
        /\ balances'[to].reserved = balances[to].reserved
        /\ \A x \in Accounts \ {from, to} : balances'[x] = balances[x]
    BY <1>0, <2>1 DEF Transferred, Balance
  <2>4. Total(balances'[from]) + Total(balances'[to]) = Total(balances[from]) + Total(balances[to])
    BY <2>i, <2>2, <2>3 DEF Total
  <2>5. Issuance(balances') = Issuance(balances)
    BY <1>0, <2>1, <2>3, <2>4, IssuanceTwoChanged
  <2> QED
    BY <2>1, <2>5, NothingBurnt DEF IsSignedUp
<1>7. CASE UNCHANGED auditVars
  BY <1>7, NothingBurnt DEF auditVars, IsSignedUp
<1> QED
  BY <1>1, <1>2, <1>3, <1>4, <1>5, <1>6, <1>7 DEF AuditNext

(* Value leaves circulation only by the cancellation of an auditor below   *)
(* the initial score, which burns at least its stake; no other call burns  *)
(* or creates any, for any genesis, stake and deposit.                     *)
THEOREM BurnsCorrect == AuditSpec => OnlyForfeitsBurn
<1>1. AuditTypeOK /\ AuditTypeOK' /\ [AuditNext]_auditVars => BurnsOnlyForfeits
  BY StepBurns
<1> QED
  BY <1>1, AuditTypeCorrect, PTL DEF AuditSpec, OnlyForfeitsBurn, BurnsOnlyForfeits
-----------------------------------------------------------------------------
(* The table of thresholds read from its end is the table read from its    *)
(* start, negated and one less: a player expects of the K points what its  *)
(* opponent does not.                                                      *)
LEMMA ThresholdSymmetry ==
  ASSUME NEW i \in 1 .. K
  PROVE  /\ 33 - i \in 1 .. K
         /\ Threshold[i] \in Int
         /\ Threshold[33 - i] = -Threshold[i] - 1
BY DEF Threshold, K

LEMMA SharesAddUp ==
  ASSUME NEW d \in Int
  PROVE  ExpectedShare(d) + ExpectedShare(-d) = K
<1> DEFINE P == {i \in 1 .. K : d <= Threshold[i]}
           Q == {i \in 1 .. K : -d <= Threshold[i]}
           f == [i \in Q |-> 33 - i]
<1>1. IsFiniteSet(1 .. K) /\ Cardinality(1 .. K) = K
  <2>1. 1 \in Int /\ K \in Int /\ ~(1 > K) /\ K - 1 + 1 = K
    BY DEF K
  <2> QED
    BY <2>1, FS_Interval, Zenon
<1>2. P \in SUBSET (1 .. K) /\ Q \in SUBSET (1 .. K)
  OBVIOUS
<1>3. IsFiniteSet(P) /\ IsFiniteSet(Q)
  BY <1>1, <1>2, FS_Subset
<1>4. \A i \in 1 .. K : i \in Q <=> 33 - i \notin P
  <2> SUFFICES ASSUME NEW i \in 1 .. K
               PROVE  -d <= Threshold[i] <=> ~(d <= Threshold[33 - i])
    BY ThresholdSymmetry
  <2>1. Threshold[i] \in Int /\ Threshold[33 - i] = -Threshold[i] - 1
    BY ThresholdSymmetry
  <2> QED
    BY <2>1
<1>5. \A i \in 1 .. K : 33 - i \in 1 .. K /\ 33 - (33 - i) = i
  BY DEF K
<1>6. f \in Bijection(Q, (1 .. K) \ P)
  <2> HIDE DEF P, Q
  <2>1. f \in [Q -> (1 .. K) \ P]
    BY <1>2, <1>4, <1>5
  <2>2. \A i, j \in Q : f[i] = f[j] => i = j
    <3>1. \A i \in Q : 33 - f[i] = i
      BY <1>2, <1>5
    <3> QED
      BY <3>1, Zenon
  <2>3. \A j \in (1 .. K) \ P : \E i \in Q : f[i] = j
    <3> SUFFICES ASSUME NEW j \in (1 .. K) \ P PROVE 33 - j \in Q /\ f[33 - j] = j
      OBVIOUS
    <3>1. 33 - j \in 1 .. K /\ 33 - (33 - j) = j
      BY <1>5
    <3> QED
      BY <1>4, <3>1
  <2> HIDE DEF f
  <2> QED
    BY <2>1, <2>2, <2>3 DEF Bijection, Injection, Surjection, IsInjective
<1>7. Cardinality(Q) = Cardinality((1 .. K) \ P)
  <2>1. ExistsBijection(Q, (1 .. K) \ P)
    BY <1>6 DEF ExistsBijection
  <2> HIDE DEF P, Q
  <2> QED
    BY <1>3, <2>1, FS_Bijection
<1>8. Cardinality((1 .. K) \ P) = K - Cardinality(P)
  <2>1. (1 .. K) \cap P = P
    BY <1>2
  <2> HIDE DEF P
  <2>2. Cardinality((1 .. K) \ P) = Cardinality(1 .. K) - Cardinality((1 .. K) \cap P)
    BY <1>1, FS_Difference, Zenon
  <2> QED
    BY <1>1, <2>1, <2>2, Zenon
<1>9. Cardinality(P) \in Nat
  BY <1>3, FS_CardinalityType
<1> QED
  BY <1>7, <1>8, <1>9 DEF ExpectedShare, K

(* EloRank::calculate, away from the ends of the range: what the looser    *)
(* pays is what the winner gains, though the two are rounded separately.   *)
LEMMA GainIsLoss ==
  ASSUME NEW winner \in K .. ScoreModulus - 1 - K, NEW looser \in K .. ScoreModulus - 1 - K
  PROVE  \E gain \in 0 .. K : /\ WinnerNewScore(winner, looser) = winner + gain
                             /\ LooserNewScore(winner, looser) = looser - gain
<1> DEFINE d == looser - winner
           gain == ExpectedShare(winner - looser)
<1>1. winner \in Int /\ looser \in Int /\ ScoreModulus \in Nat
  BY EloAssumption DEF K
<1>2. d \in Int /\ winner - looser \in Int /\ -d = winner - looser
  BY <1>1
<1>3. gain \in 0 .. K
  BY <1>2, ExpectedShareRange
<1>4. ExpectedShare(d) + gain = K
  <2>1. ExpectedShare(d) + ExpectedShare(-d) = K
    BY <1>2, SharesAddUp
  <2> QED
    BY <1>2, <2>1, Zenon
<1>5. ExpectedShare(d) \in 0 .. K
  BY <1>2, ExpectedShareRange
<1> HIDE DEF gain, d
<1>6. K - ExpectedShare(d) = gain
  BY <1>3, <1>4, <1>5 DEF K
<1>7. winner + gain \in 0 .. ScoreModulus - 1 /\ looser - gain \in 0 .. ScoreModulus - 1
  BY <1>1, <1>3 DEF K
<1>8. \A x \in 0 .. ScoreModulus - 1 : ToScore(x) = x
  BY EloAssumption DEF ToScore
<1> QED
  BY <1>3, <1>6, <1>7, <1>8, Zenon DEF WinnerNewScore, LooserNewScore, gain, d

(* Two values of one per account, whose sum is what it was.                *)
LEMMA AccountSums ==
  ASSUME NEW a \in Accounts, NEW b \in Accounts, a # b
  PROVE  \A f, g \in [Accounts -> Int] :
           (/\ \A z \in Accounts \ {a, b} : g[z] = f[z]
            /\ g[a] + g[b] = f[a] + f[b])
             => SumFunction(g) = SumFunction(f)
<1> SUFFICES ASSUME NEW f \in [Accounts -> Int], NEW g \in [Accounts -> Int],
                    \A z \in Accounts \ {a, b} : g[z] = f[z],
                    g[a] + g[b] = f[a] + f[b]
             PROVE  SumFunction(g) = SumFunction(f)
  OBVIOUS
<1> QED
  BY AuditAssumption, SumBalanced

(* Writing two new scores that add up to the two old ones.                 *)
LEMMA ScoresWritten ==
  ASSUME AuditTypeOK, NEW p0 \in Accounts, NEW p1 \in Accounts, p0 # p1,
         IsAuditor(p0), IsAuditor(p1), NEW x \in Score, NEW y \in Score,
         auditorMap' = WithScores(x, y, p0, p1),
         x + y = auditorMap[p0].score + auditorMap[p1].score
  PROVE  /\ TotalScore' = TotalScore
         /\ auditorMap'[p0].score = x
         /\ auditorMap'[p1].score = y
         /\ \A a \in Accounts \ {p0, p1} : auditorMap'[a] = auditorMap[a]
<1> DEFINE f == [a \in Accounts |-> IF IsAuditor(a) THEN auditorMap[a].score ELSE 0]
           g == [a \in Accounts |-> IF IsAuditor(a)' THEN auditorMap'[a].score ELSE 0]
<1>1. /\ auditorMap[p0] \in AuditorData /\ auditorMap[p0].score \in Score
      /\ auditorMap[p1] \in AuditorData /\ auditorMap[p1].score \in Score
  BY DEF AuditTypeOK, IsAuditor, IsSignedUp, AuditorData
<1>2. /\ auditorMap'[p0] = [auditorMap[p0] EXCEPT !.score = x]
      /\ auditorMap'[p1] = [auditorMap[p1] EXCEPT !.score = y]
      /\ \A a \in Accounts \ {p0, p1} : auditorMap'[a] = auditorMap[a]
  BY <1>1 DEF WithScores, AuditTypeOK
<1>3. /\ auditorMap'[p0] \in AuditorData /\ auditorMap'[p0].score = x
      /\ auditorMap'[p1] \in AuditorData /\ auditorMap'[p1].score = y
  BY <1>1, <1>2 DEF AuditorData
<1>4. x # NoScore /\ y # NoScore
  BY AuditAssumption DEF Score
<1>5. IsAuditor(p0)' /\ IsAuditor(p1)'
  BY <1>3, <1>4, AuditAssumption DEF IsAuditor, IsSignedUp
<1>6. \A a \in Accounts \ {p0, p1} : IsAuditor(a)' <=> IsAuditor(a)
  BY <1>2 DEF IsAuditor, IsSignedUp
<1>7. \A a \in Accounts : IsAuditor(a) => auditorMap[a].score \in Int
  <2>1. \A s \in Score : s \in Int
    BY EloAssumption DEF Score
  <2> QED
    BY <2>1 DEF AuditTypeOK, IsAuditor, IsSignedUp, AuditorData
<1>8. x \in Int /\ y \in Int
  BY EloAssumption DEF Score
<1>9. f \in [Accounts -> Int]
  BY <1>7
<1>10. /\ f[p0] = auditorMap[p0].score /\ f[p1] = auditorMap[p1].score
       /\ g[p0] = x /\ g[p1] = y
  BY <1>3, <1>5
<1>11. \A a \in Accounts \ {p0, p1} : g[a] = f[a]
  BY <1>2, <1>6
<1>12. g \in [Accounts -> Int]
  <2>1. \A a \in Accounts : g[a] \in Int
    <3> SUFFICES ASSUME NEW a \in Accounts PROVE g[a] \in Int
      OBVIOUS
    <3> HIDE DEF f, g
    <3>1. CASE a \in {p0, p1}
      BY <1>8, <1>10, <3>1
    <3>2. CASE a \notin {p0, p1}
      BY <1>9, <1>11, <3>2
    <3> QED
      BY <3>1, <3>2
  <2> QED
    BY <2>1
<1>13. TotalScore = SumFunction(f) /\ TotalScore' = SumFunction(g)
  BY Zenon DEF TotalScore
<1>14. g[p0] + g[p1] = f[p0] + f[p1]
  BY <1>10
<1> HIDE DEF f, g
<1>15. p0 # p1
  OBVIOUS
<1>16. SumFunction(g) = SumFunction(f)
  <2>1. \A F, G \in [Accounts -> Int] :
          (/\ \A z \in Accounts \ {p0, p1} : G[z] = F[z]
           /\ G[p0] + G[p1] = F[p0] + F[p1])
            => SumFunction(G) = SumFunction(F)
    BY <1>15, AccountSums
  <2>2. (/\ \A z \in Accounts \ {p0, p1} : g[z] = f[z]
         /\ g[p0] + g[p1] = f[p0] + f[p1])
            => SumFunction(g) = SumFunction(f)
    BY <1>9, <1>12, <2>1, Zenon
  <2> QED
    BY <1>11, <1>14, <2>2, Zenon
<1> QED
  BY <1>2, <1>3, <1>13, <1>16, Zenon

(* apply_result between two different auditors whose scores are not at an  *)
(* end of the range: nothing is lost, the winner does not lose and the     *)
(* looser does not gain.                                                   *)
LEMMA ResultConserves ==
  ASSUME AuditTypeOK, NoScoreAtTheEdge, NEW p0 \in Accounts, NEW p1 \in Accounts,
         NEW winner \in Winner, p0 # p1, ApplyResult(p0, p1, winner)
  PROVE  /\ TotalScore' = TotalScore
         /\ winner = "Player0" => /\ auditorMap'[p0].score >= auditorMap[p0].score
                                  /\ auditorMap'[p1].score <= auditorMap[p1].score
         /\ winner = "Player1" => /\ auditorMap'[p1].score >= auditorMap[p1].score
                                  /\ auditorMap'[p0].score <= auditorMap[p0].score
         /\ \A a \in Accounts \ {p0, p1} : auditorMap'[a] = auditorMap[a]
<1> DEFINE s0 == auditorMap[p0].score
           s1 == auditorMap[p1].score
           Inner == K .. ScoreModulus - 1 - K
<1>1. IsAuditor(p0) /\ IsAuditor(p1) /\ auditorMap' = ResultApplied(p0, p1, winner)
  BY DEF ApplyResult, CanApplyResult
<1>2. s0 \in Inner /\ s1 \in Inner
  BY <1>1 DEF NoScoreAtTheEdge, Auditors
<1>3. s0 \in Score /\ s1 \in Score /\ s0 \in Int /\ s1 \in Int
  BY <1>2, EloAssumption DEF Score, K
<1>4. CASE winner = "Player0"
  <2>1. PICK gain \in 0 .. K : /\ WinnerNewScore(s0, s1) = s0 + gain
                              /\ LooserNewScore(s0, s1) = s1 - gain
    BY <1>2, GainIsLoss
  <2> DEFINE x == WinnerNewScore(s0, s1)
             y == LooserNewScore(s0, s1)
  <2>2. x \in Score /\ y \in Score
    BY <1>3, NewScoresType
  <2>3. auditorMap' = WithScores(x, y, p0, p1)
    BY <1>1, <1>4 DEF ResultApplied
  <2>4. x + y = s0 + s1 /\ x >= s0 /\ y <= s1
    BY <1>3, <2>1 DEF K
  <2> HIDE DEF x, y
  <2>5. /\ TotalScore' = TotalScore
        /\ auditorMap'[p0].score = x
        /\ auditorMap'[p1].score = y
        /\ \A a \in Accounts \ {p0, p1} : auditorMap'[a] = auditorMap[a]
    BY <1>1, <2>2, <2>3, <2>4, ScoresWritten
  <2> QED
    BY <1>4, <2>4, <2>5, Zenon
<1>5. CASE winner = "Player1"
  <2>1. PICK gain \in 0 .. K : /\ WinnerNewScore(s1, s0) = s1 + gain
                              /\ LooserNewScore(s1, s0) = s0 - gain
    BY <1>2, GainIsLoss
  <2> DEFINE x == LooserNewScore(s1, s0)
             y == WinnerNewScore(s1, s0)
  <2>2. x \in Score /\ y \in Score
    BY <1>3, NewScoresType
  <2>3. auditorMap' = WithScores(x, y, p0, p1)
    BY <1>1, <1>5 DEF ResultApplied
  <2>4. x + y = s0 + s1 /\ y >= s1 /\ x <= s0
    BY <1>3, <2>1 DEF K
  <2> HIDE DEF x, y
  <2>5. /\ TotalScore' = TotalScore
        /\ auditorMap'[p0].score = x
        /\ auditorMap'[p1].score = y
        /\ \A a \in Accounts \ {p0, p1} : auditorMap'[a] = auditorMap[a]
    BY <1>1, <2>2, <2>3, <2>4, ScoresWritten
  <2> QED
    BY <1>5, <2>4, <2>5, Zenon
<1>6. CASE winner = "Draw"
  <2>1. auditorMap' = auditorMap
    BY <1>1, <1>6 DEF ResultApplied
  <2>2. TotalScore' = TotalScore
    BY <2>1 DEF TotalScore, IsAuditor, IsSignedUp
  <2> QED
    BY <1>6, <2>1, <2>2
<1> QED
  BY <1>4, <1>5, <1>6 DEF Winner

(* What GamesConserveScore says of a game.                                 *)
ConservesScore ==
  \A p0, p1 \in Accounts, winner \in Winner :
    p0 # p1 /\ ApplyResult(p0, p1, winner) =>
      /\ TotalScore' = TotalScore
      /\ winner = "Player0" => auditorMap'[p0].score >= auditorMap[p0].score
      /\ winner = "Player1" => auditorMap'[p1].score >= auditorMap[p1].score
      /\ \A a \in Accounts \ {p0, p1} : auditorMap'[a] = auditorMap[a]

LEMMA GameConserves == AuditTypeOK /\ NoScoreAtTheEdge => ConservesScore
<1> SUFFICES ASSUME AuditTypeOK, NoScoreAtTheEdge, NEW p0 \in Accounts, NEW p1 \in Accounts,
                    NEW winner \in Winner, p0 # p1, ApplyResult(p0, p1, winner)
             PROVE  /\ TotalScore' = TotalScore
                    /\ winner = "Player0" => auditorMap'[p0].score >= auditorMap[p0].score
                    /\ winner = "Player1" => auditorMap'[p1].score >= auditorMap[p1].score
                    /\ \A a \in Accounts \ {p0, p1} : auditorMap'[a] = auditorMap[a]
  BY Zenon DEF ConservesScore
<1> QED
  BY ResultConserves, Zenon

(* Games move score and create none, for any scores in the range in which  *)
(* none of them wraps.                                                     *)
THEOREM GamesCorrect == AuditSpec => GamesConserveScore
<1>1. AuditTypeOK =>
        [gamesPlayed' # gamesPlayed /\ NoScoreAtTheEdge => ConservesScore]_auditVars
  BY GameConserves, Zenon
<1> QED
  BY <1>1, AuditTypeCorrect, PTL DEF AuditSpec, GamesConserveScore, ConservesScore

-----------------------------------------------------------------------------
(* ExoPallet.  request_review reserves like sign_up does, and no other     *)
(* call of the exo pallet touches the ledger.                              *)
LEMMA RequestReviewLedger ==
  ASSUME AuditTypeOK, NEW a \in Accounts, NEW h \in Hashes, NEW bounty \in Bounties,
         NEW score \in MinScores, RequestReview(a, h, bounty, score)
  PROVE  /\ AuditTypeOK'
         /\ UNCHANGED auditorMap
         /\ \A x \in Accounts : balances'[x].reserved >= balances[x].reserved
<1>1. bounty \in Nat
  BY ExoAssumption
<1>2. balances' \in [Accounts -> Balance]
  BY <1>1, ReserveType DEF RequestReview, AuditTypeOK
<1>3. \A x \in Accounts : balances'[x].reserved >= balances[x].reserved
  BY <1>1 DEF RequestReview, Reserve, AuditTypeOK, Balance
<1> QED
  BY <1>2, <1>3 DEF RequestReview, AuditTypeOK

(* A verdict plays one game on the register and leaves the ledger alone.   *)
LEMMA VerdictIsGame ==
  ASSUME TypeOK, NEW h \in Hashes, NEW r \in ReportId, NEW c \in ChallengeId,
         Verdict(h, r, c)
  PROVE  \E p0, p1 \in Accounts, winner \in Winner : GameResult(p0, p1, winner)
<1>1. PICK state \in ChallengeState, winner \in Winner :
        CloseChallenge(h, r, c, state, winner)
  BY DEF Verdict, ApproveChallenge, RejectChallenge, RemoveChallenge,
         ChallengeState, Winner
<1>2. challenges[h][r][c + 1].auditor \in Accounts
  <2>1. challenges[h][r] \in Seq(Challenge) /\ c + 1 \in DOMAIN challenges[h][r]
    BY <1>1 DEF CloseChallenge, TypeOK, ExoTypeOK
  <2>2. challenges[h][r][c + 1] \in Challenge
    BY <2>1, ElementOfSeq, LenProperties
  <2> QED
    BY <2>2 DEF Challenge
<1>3. ReportAuditor(h, r) \in Accounts
  <2>1. reports[h] \in Seq(Report) /\ r + 1 \in DOMAIN reports[h]
    BY <1>1 DEF CloseChallenge, ReportExists, TypeOK, ExoTypeOK
  <2>2. reports[h][r + 1] \in Report
    BY <2>1, ElementOfSeq, LenProperties
  <2> QED
    BY <2>2 DEF ReportAuditor, Report
<1> QED
  BY <1>1, <1>2, <1>3 DEF CloseChallenge, GameResult

(* Every call of the exo pallet keeps the register and the ledger well     *)
(* typed.                                                                  *)
LEMMA ExoStepAuditType == TypeOK /\ [Next]_vars => AuditTypeOK'
<1> SUFFICES ASSUME TypeOK, [Next]_vars PROVE AuditTypeOK'
  OBVIOUS
<1>0. AuditTypeOK
  BY DEF TypeOK
<1>1. CASE AuditNext \/ UNCHANGED vars
  BY <1>0, <1>1, AuditStepType DEF vars
<1>2. CASE ExoNext
  <2>1. ASSUME NEW a \in Accounts, NEW h \in Hashes, NEW bounty \in Bounties,
               NEW score \in MinScores, RequestReview(a, h, bounty, score)
        PROVE  AuditTypeOK'
    BY <1>0, <2>1, RequestReviewLedger
  <2>2. ASSUME NEW h \in Hashes, NEW r \in ReportId, NEW c \in ChallengeId,
               Verdict(h, r, c)
        PROVE  AuditTypeOK'
    <3>1. AuditNext
      BY <2>2, VerdictIsGame DEF AuditNext
    <3> QED
      BY <1>0, <3>1, AuditStepType
  <2>3. CASE UNCHANGED auditVars
    BY <1>0, <2>3, AuditStepType
  <2> QED
    BY <1>2, <2>1, <2>2, <2>3 DEF ExoNext, ReviewInvalid, ReviewReport, ChallengeReport
<1> QED
  BY <1>1, <1>2 DEF Next
-----------------------------------------------------------------------------
(* A report is filed under the next free id: the vector stays within its   *)
(* bound, what was in it stays where it was, and the author had none.      *)
LEMMA ReportAppended ==
  ASSUME ExoTypeOK, NEW a \in Accounts, NEW h \in Hashes,
         NEW kind \in {"Invalid", "Success"}, MayReport(a, h), AppendReport(a, h, kind)
  PROVE  /\ reports' \in [Hashes -> Seq(Report)]
         /\ \A g \in Hashes : Len(reports'[g]) <= MaxReportsPerReview
         /\ NewReportId(h) \in ReportId
         /\ \A g \in Hashes \ {h} : reports'[g] = reports[g]
         /\ DOMAIN reports[h] = 1 .. NewReportId(h)
         /\ DOMAIN reports'[h] = 1 .. NewReportId(h) + 1
         /\ \A i \in DOMAIN reports[h] : reports'[h][i] = reports[h][i]
         /\ reports'[h][NewReportId(h) + 1] = [auditor |-> a, kind |-> kind]
         /\ \A i \in DOMAIN reports[h] : reports[h][i].auditor # a
<1> DEFINE new == [auditor |-> a, kind |-> kind]
<1> USE ExoAssumption
<1>1. new \in Report
  BY DEF Report
<1>2. /\ reports[h] \in Seq(Report)
      /\ Len(reports[h]) \in Nat
      /\ Len(reports[h]) < MaxReportsPerReview
      /\ DOMAIN reports[h] = 1 .. Len(reports[h])
  BY DEF ExoTypeOK, MayReport
<1>3. /\ reports'[h] = Append(reports[h], new)
      /\ \A g \in Hashes \ {h} : reports'[g] = reports[g]
  BY DEF ExoTypeOK, AppendReport
<1> HIDE DEF new
<1>4. /\ reports'[h] \in Seq(Report)
      /\ Len(reports'[h]) = Len(reports[h]) + 1
      /\ DOMAIN reports'[h] = 1 .. Len(reports[h]) + 1
      /\ \A i \in 1 .. Len(reports[h]) : reports'[h][i] = reports[h][i]
      /\ reports'[h][Len(reports[h]) + 1] = new
  BY <1>1, <1>2, <1>3
<1>5. reports' \in [Hashes -> Seq(Report)]
  BY <1>1, <1>2 DEF ExoTypeOK, AppendReport, new
<1>6. ASSUME NEW g \in Hashes PROVE Len(reports'[g]) <= MaxReportsPerReview
  <2>1. CASE g = h
    BY <1>2, <1>4, <2>1
  <2>2. CASE g # h
    BY <1>3, <2>2 DEF ExoTypeOK
  <2> QED
    BY <2>1, <2>2
<1>7. NewReportId(h) \in ReportId
  BY <1>2 DEF NewReportId, ReportId
<1> QED
  BY <1>2, <1>3, <1>4, <1>5, <1>6, <1>7 DEF NewReportId, MayReport, HasReported, new

(* A challenge is appended within the bound and leaves the others alone.   *)
LEMMA ChallengeAppended ==
  ASSUME ExoTypeOK, NEW a \in Accounts, NEW h \in Hashes, NEW r \in ReportId,
         ChallengeReport(a, h, r)
  PROVE  LET n == Len(challenges[h][r]) IN
         /\ n \in Nat
         /\ challenges' \in [Hashes -> [ReportId -> Seq(Challenge)]]
         /\ \A g \in Hashes, q \in ReportId :
              /\ Len(challenges'[g][q]) <= MaxChallengesPerReport
              /\ <<g, q>> # <<h, r>> => challenges'[g][q] = challenges[g][q]
         /\ DOMAIN challenges[h][r] = 1 .. n
         /\ DOMAIN challenges'[h][r] = 1 .. n + 1
         /\ \A i \in 1 .. n : challenges'[h][r][i] = challenges[h][r][i]
         /\ challenges'[h][r][n + 1].auditor = a
<1> DEFINE old == challenges[h][r]
           new == [auditor |-> a, state |-> "Pending"]
<1> USE ExoAssumption
<1>1. new \in Challenge
  BY DEF Challenge, ChallengeState
<1>2. /\ old \in Seq(Challenge)
      /\ Len(old) \in Nat
      /\ Len(old) < MaxChallengesPerReport
      /\ DOMAIN old = 1 .. Len(old)
  BY DEF ExoTypeOK, ChallengeReport, MayChallenge
<1>3. /\ challenges'[h][r] = Append(old, new)
      /\ \A g \in Hashes, q \in ReportId :
           <<g, q>> # <<h, r>> => challenges'[g][q] = challenges[g][q]
      /\ challenges' \in [Hashes -> [ReportId -> Seq(Challenge)]]
  <2>1. challenges' = [challenges EXCEPT ![h][r] = Append(old, new)]
    BY DEF ChallengeReport
  <2>2. Append(old, new) \in Seq(Challenge)
    BY <1>1, <1>2
  <2> HIDE DEF old, new
  <2> QED
    BY <2>1, <2>2 DEF ExoTypeOK
<1>4. new.auditor = a
  OBVIOUS
<1> HIDE DEF old, new
<1>5. /\ Len(challenges'[h][r]) = Len(old) + 1
      /\ DOMAIN challenges'[h][r] = 1 .. Len(old) + 1
      /\ \A i \in 1 .. Len(old) : challenges'[h][r][i] = old[i]
      /\ challenges'[h][r][Len(old) + 1] = new
  BY <1>1, <1>2, <1>3
<1>6. ASSUME NEW g \in Hashes, NEW q \in ReportId
      PROVE  Len(challenges'[g][q]) <= MaxChallengesPerReport
  <2>1. CASE g = h /\ q = r
    BY <1>2, <1>5, <2>1
  <2>2. CASE <<g, q>> # <<h, r>>
    BY <1>3, <2>2 DEF ExoTypeOK
  <2> QED
    BY <2>1, <2>2
<1> QED
  BY <1>2, <1>3, <1>4, <1>5, <1>6 DEF old

(* A verdict overwrites the state of one challenge: as many challenges are *)
(* there as before, each of the same auditor, and none becomes pending.    *)
LEMMA ChallengeClosed ==
  ASSUME TypeOK, NEW h \in Hashes, NEW r \in ReportId, NEW c \in ChallengeId,
         Verdict(h, r, c)
  PROVE  /\ challenges' \in [Hashes -> [ReportId -> Seq(Challenge)]]
         /\ \A g \in Hashes, q \in ReportId :
              /\ Len(challenges'[g][q]) = Len(challenges[g][q])
              /\ DOMAIN challenges'[g][q] = DOMAIN challenges[g][q]
              /\ \A i \in DOMAIN challenges[g][q] :
                   /\ challenges'[g][q][i].auditor = challenges[g][q][i].auditor
                   /\ \/ challenges'[g][q][i].state = challenges[g][q][i].state
                      \/ challenges'[g][q][i].state # "Pending"
<1> DEFINE old == challenges[h][r]
<1>1. PICK state \in ChallengeState \ {"Pending"}, winner \in Winner :
        CloseChallenge(h, r, c, state, winner)
  BY DEF Verdict, ApproveChallenge, RejectChallenge, RemoveChallenge,
         ChallengeState, Winner
<1> DEFINE new == [old EXCEPT ![c + 1].state = state]
<1>2. old \in Seq(Challenge) /\ c + 1 \in DOMAIN old
  BY <1>1 DEF CloseChallenge, TypeOK, ExoTypeOK
<1>3. /\ Len(old) \in Nat
      /\ DOMAIN old = 1 .. Len(old)
      /\ \A i \in 1 .. Len(old) : old[i] \in Challenge
  BY <1>2, ElementOfSeq, LenProperties
<1>4. challenges' = [challenges EXCEPT ![h][r] = new]
  BY <1>1, <1>2 DEF CloseChallenge, TypeOK, ExoTypeOK
<1>5. /\ DOMAIN new = 1 .. Len(old)
      /\ \A i \in 1 .. Len(old) :
           /\ new[i] \in Challenge /\ new[i].auditor = old[i].auditor
           /\ new[i].state = old[i].state \/ new[i].state # "Pending"
  BY <1>2, <1>3 DEF Challenge, ChallengeState
<1>6. new \in Seq(Challenge) /\ Len(new) = Len(old)
  <2>1. new \in [1 .. Len(old) -> Challenge]
    BY <1>3, <1>5
  <2> HIDE DEF new
  <2> QED
    BY <1>3, <2>1
<1> HIDE DEF old, new
<1>7. /\ challenges' \in [Hashes -> [ReportId -> Seq(Challenge)]]
      /\ challenges'[h][r] = new
      /\ \A g \in Hashes, q \in ReportId :
           <<g, q>> # <<h, r>> => challenges'[g][q] = challenges[g][q]
  BY <1>4, <1>6 DEF TypeOK, ExoTypeOK
<1> QED
  BY <1>3, <1>5, <1>6, <1>7 DEF old
-----------------------------------------------------------------------------
(* Every call of either pallet leaves the four storages well typed.        *)
LEMMA ExoStepType == TypeOK /\ [Next]_vars => ExoTypeOK'
<1> SUFFICES ASSUME TypeOK, [Next]_vars PROVE ExoTypeOK'
  OBVIOUS
<1> USE ExoAssumption
<1>0. ExoTypeOK
  BY DEF TypeOK
<1>1. CASE UNCHANGED exoVars
  BY <1>0, <1>1 DEF ExoTypeOK, exoVars
<1>2. ASSUME NEW a \in Accounts, NEW h \in Hashes, NEW bounty \in Bounties,
             NEW score \in MinScores, RequestReview(a, h, bounty, score)
      PROVE  ExoTypeOK'
  <2>1. [requestor |-> a, minAuditorScore |-> score, bounty |-> bounty] \in Review
    BY DEF Review
  <2>2. reviews' \in [Hashes -> Review \cup {NoReview}]
    BY <1>0, <1>2, <2>1 DEF RequestReview, ExoTypeOK
  <2> QED
    BY <1>0, <1>2, <2>2 DEF RequestReview, ExoTypeOK
<1>3. ASSUME NEW a \in Accounts, NEW h \in Hashes, ReviewInvalid(a, h)
      PROVE  ExoTypeOK'
  <2>1. /\ reports' \in [Hashes -> Seq(Report)]
        /\ \A g \in Hashes : Len(reports'[g]) <= MaxReportsPerReview
    BY <1>0, <1>3, ReportAppended DEF ReviewInvalid
  <2> QED
    BY <1>0, <1>3, <2>1 DEF ReviewInvalid, ExoTypeOK
<1>4. ASSUME NEW a \in Accounts, NEW h \in Hashes, NEW list \in VulnerabilityLists,
             ReviewReport(a, h, list)
      PROVE  ExoTypeOK'
  <2>1. /\ reports' \in [Hashes -> Seq(Report)]
        /\ \A g \in Hashes : Len(reports'[g]) <= MaxReportsPerReview
        /\ NewReportId(h) \in ReportId
    BY <1>0, <1>4, ReportAppended DEF ReviewReport
  <2>2. vulnerabilities' \in
          [Hashes -> [ReportId -> VulnerabilityLists \cup {NoVulnerabilities}]]
    BY <1>0, <1>4, <2>1 DEF ReviewReport, ExoTypeOK
  <2> QED
    BY <1>0, <1>4, <2>1, <2>2 DEF ReviewReport, ExoTypeOK
<1>5. ASSUME NEW a \in Accounts, NEW h \in Hashes, NEW r \in ReportId,
             ChallengeReport(a, h, r)
      PROVE  ExoTypeOK'
  <2>1. /\ challenges' \in [Hashes -> [ReportId -> Seq(Challenge)]]
        /\ \A g \in Hashes, q \in ReportId :
             Len(challenges'[g][q]) <= MaxChallengesPerReport
    BY <1>0, <1>5, ChallengeAppended
  <2> QED
    BY <1>0, <1>5, <2>1 DEF ChallengeReport, ExoTypeOK
<1>6. ASSUME NEW h \in Hashes, NEW r \in ReportId, NEW c \in ChallengeId, Verdict(h, r, c)
      PROVE  ExoTypeOK'
  <2>1. /\ challenges' \in [Hashes -> [ReportId -> Seq(Challenge)]]
        /\ \A g \in Hashes, q \in ReportId : Len(challenges'[g][q]) = Len(challenges[g][q])
    BY <1>6, ChallengeClosed
  <2>2. UNCHANGED <<reviews, reports, vulnerabilities>>
    BY <1>6 DEF Verdict, ApproveChallenge, RejectChallenge, RemoveChallenge, CloseChallenge
  <2> QED
    BY <1>0, <2>1, <2>2 DEF ExoTypeOK
<1> QED
  BY <1>1, <1>2, <1>3, <1>4, <1>5, <1>6 DEF Next, ExoNext, vars

(* Type correctness of the two pallets together: the vectors of reports    *)
(* and challenges within their bounds, scores within u32, and no balance   *)
(* below zero though two pallets reserve from it.                          *)
THEOREM TypeCorrect == Spec => []TypeOK
<1>1. Init => TypeOK
  <2>1. ASSUME ExoInit PROVE ExoTypeOK
    BY <2>1, ExoAssumption DEF ExoInit, ExoTypeOK
  <2> QED
    BY <2>1, AuditInitType DEF Init, TypeOK
<1>2. TypeOK /\ [Next]_vars => TypeOK'
  BY ExoStepAuditType, ExoStepType DEF TypeOK
<1> QED
  BY <1>1, <1>2, PTL DEF Spec
-----------------------------------------------------------------------------
(* What the audit pallet guarantees of each account survives every call of *)
(* the exo pallet too: it plays games and reserves, and does nothing else  *)
(* to the register or the ledger.                                          *)
LEMMA ExoStepStanding ==
  TypeOK /\ TypeOK' /\ ApprovedByThreeOthers /\ StakeHeld /\ [Next]_vars
    => (ApprovedByThreeOthers /\ StakeHeld)'
<1> SUFFICES ASSUME TypeOK, TypeOK', ApprovedByThreeOthers, StakeHeld, [Next]_vars
             PROVE  (ApprovedByThreeOthers /\ StakeHeld)'
  OBVIOUS
<1>0. AuditTypeOK /\ AuditTypeOK'
  BY DEF TypeOK
<1>1. CASE [AuditNext]_auditVars
  BY <1>0, <1>1, AuditStepStanding, AuditStepStake
<1>2. ASSUME NEW a \in Accounts, NEW h \in Hashes, NEW bounty \in Bounties,
             NEW score \in MinScores, RequestReview(a, h, bounty, score)
      PROVE  (ApprovedByThreeOthers /\ StakeHeld)'
  <2>1. /\ UNCHANGED auditorMap
        /\ \A x \in Accounts : balances'[x].reserved >= balances[x].reserved
    BY <1>0, <1>2, RequestReviewLedger
  <2>2. ApprovedByThreeOthers'
    BY <2>1 DEF ApprovedByThreeOthers, IsSignedUp, IsPending, IsAuditor, HasGenesisEntry
  <2>3. ASSUME NEW x \in Accounts PROVE StakeOK(x)'
    <3>1. StakeOK(x)
      BY DEF StakeHeld, StakeOK
    <3> QED
      BY <1>0, <2>1, <3>1, StakeKept DEF IsSignedUp, IsAuditor, HasGenesisEntry
  <2> QED
    BY <2>2, <2>3 DEF StakeHeld, StakeOK
<1>3. ASSUME NEW h \in Hashes, NEW r \in ReportId, NEW c \in ChallengeId, Verdict(h, r, c)
      PROVE  AuditNext
  BY <1>3, VerdictIsGame DEF AuditNext
<1> QED
  BY <1>1, <1>2, <1>3 DEF Next, ExoNext, vars, ReviewInvalid, ReviewReport, ChallengeReport

(* In the composed system too, whoever has a score and no genesis entry    *)
(* was approved by three others, and whoever signed up has its stake       *)
(* reserved: no review, challenge or verdict takes either away.            *)
THEOREM RegisterCorrect == Spec => [](ApprovedByThreeOthers /\ StakeHeld)
<1>1. Init => ApprovedByThreeOthers /\ StakeHeld
  BY AuditInitStanding, AuditInitStake DEF Init
<1>2. TypeOK /\ TypeOK' /\ ApprovedByThreeOthers /\ StakeHeld /\ [Next]_vars
        => (ApprovedByThreeOthers /\ StakeHeld)'
  BY ExoStepStanding
<1> QED
  BY <1>1, <1>2, TypeCorrect, PTL DEF Spec
-----------------------------------------------------------------------------
(* A new report changes neither the author nor the challenges of a report  *)
(* that is there.                                                          *)
LEMMA ReportKeepsChallengers ==
  ASSUME TypeOK, ChallengersAreOthers, NEW a \in Accounts, NEW h \in Hashes,
         NEW kind \in {"Invalid", "Success"}, MayReport(a, h), AppendReport(a, h, kind),
         UNCHANGED challenges
  PROVE  ChallengersAreOthers'
<1>0. /\ NewReportId(h) \in Nat
      /\ DOMAIN reports[h] = 1 .. NewReportId(h)
      /\ DOMAIN reports'[h] = 1 .. NewReportId(h) + 1
      /\ \A i \in DOMAIN reports[h] : reports'[h][i] = reports[h][i]
      /\ \A g \in Hashes \ {h} : reports'[g] = reports[g]
  <2>1. ExoTypeOK
    BY DEF TypeOK
  <2>2. NewReportId(h) \in Nat
    BY <2>1 DEF ExoTypeOK, NewReportId
  <2>3. /\ DOMAIN reports[h] = 1 .. NewReportId(h)
        /\ DOMAIN reports'[h] = 1 .. NewReportId(h) + 1
        /\ \A i \in DOMAIN reports[h] : reports'[h][i] = reports[h][i]
    BY <2>1, ReportAppended
  <2>4. \A g \in Hashes \ {h} : reports'[g] = reports[g]
    BY <2>1 DEF ExoTypeOK, AppendReport
  <2> QED
    BY <2>2, <2>3, <2>4
<1>1. ASSUME NEW g \in Hashes, NEW r \in ReportId, ReportExists(g, r)
      PROVE  ReportExists(g, r)' /\ ReportAuditor(g, r)' = ReportAuditor(g, r)
  <2>1. CASE g = h
    <3>1. r + 1 \in 1 .. NewReportId(h)
      BY <1>0, <1>1, <2>1 DEF ReportExists
    <3>2. r + 1 \in 1 .. NewReportId(h) + 1
      BY <1>0, <3>1
    <3> QED
      BY <1>0, <2>1, <3>1, <3>2 DEF ReportExists, ReportAuditor
  <2>2. CASE g # h
    BY <1>0, <1>1, <2>2 DEF ReportExists, ReportAuditor
  <2> QED
    BY <2>1, <2>2
<1>2. ASSUME NEW g \in Hashes, NEW r \in ReportId, NEW i \in DOMAIN challenges[g][r]
      PROVE  ReportExists(g, r)
  <2>1. challenges[g][r] # << >>
    OBVIOUS
  <2> QED
    BY <2>1 DEF ChallengersAreOthers
<1> QED
  BY <1>1, <1>2 DEF ChallengersAreOthers

(* The same for a new challenge: MayChallenge asked for a report of somebody    *)
(* else, and for no earlier challenge of the same auditor.                 *)
LEMMA ChallengeKeepsChallengers ==
  ASSUME TypeOK, ChallengersAreOthers, NEW a \in Accounts, NEW h \in Hashes,
         NEW r \in ReportId, ChallengeReport(a, h, r)
  PROVE  ChallengersAreOthers'
<1> DEFINE n == Len(challenges[h][r])
<1>1. UNCHANGED reports
  BY DEF ChallengeReport
<1>2. /\ ReportExists(h, r)
      /\ ReportAuditor(h, r) # a
      /\ \A i \in DOMAIN challenges[h][r] : challenges[h][r][i].auditor # a
  BY DEF ChallengeReport, MayChallenge, HasChallenged
<1>3. /\ n \in Nat
      /\ DOMAIN challenges[h][r] = 1 .. n
      /\ DOMAIN challenges'[h][r] = 1 .. n + 1
      /\ \A i \in 1 .. n : challenges'[h][r][i] = challenges[h][r][i]
      /\ challenges'[h][r][n + 1].auditor = a
      /\ \A g \in Hashes, q \in ReportId :
           <<g, q>> # <<h, r>> => challenges'[g][q] = challenges[g][q]
  BY ChallengeAppended DEF TypeOK
<1> HIDE DEF n
<1>4. /\ \A i \in 1 .. n : challenges[h][r][i].auditor # ReportAuditor(h, r)
      /\ \A i, j \in 1 .. n :
           challenges[h][r][i].auditor = challenges[h][r][j].auditor => i = j
  BY <1>3 DEF ChallengersAreOthers
<1>5. /\ \A i \in 1 .. n + 1 : challenges'[h][r][i].auditor # ReportAuditor(h, r)
      /\ \A i, j \in 1 .. n + 1 :
           challenges'[h][r][i].auditor = challenges'[h][r][j].auditor => i = j
  <2>1. \A i \in 1 .. n + 1 : i \in 1 .. n \/ i = n + 1
    BY <1>3
  <2> QED
    BY <1>2, <1>3, <1>4, <2>1
<1>6. ASSUME NEW g \in Hashes, NEW q \in ReportId
      PROVE  LET raised == challenges'[g][q] IN
             /\ raised # << >> => ReportExists(g, q)
             /\ \A i \in DOMAIN raised : raised[i].auditor # ReportAuditor(g, q)
             /\ \A i, j \in DOMAIN raised : raised[i].auditor = raised[j].auditor => i = j
  <2>1. CASE g = h /\ q = r
    BY <1>2, <1>3, <1>5, <2>1
  <2>2. CASE <<g, q>> # <<h, r>>
    <3>1. challenges'[g][q] = challenges[g][q]
      BY <1>3, <2>2
    <3> QED
      BY <3>1 DEF ChallengersAreOthers
  <2> QED
    BY <2>1, <2>2
<1> QED
  BY <1>1, <1>6 DEF ChallengersAreOthers, ReportExists, ReportAuditor

LEMMA StepKeepsChallengers ==
  TypeOK /\ ChallengersAreOthers /\ [Next]_vars => ChallengersAreOthers'
<1> SUFFICES ASSUME TypeOK, ChallengersAreOthers, [Next]_vars
             PROVE  ChallengersAreOthers'
  OBVIOUS
<1>1. CASE UNCHANGED <<reports, challenges>>
  BY <1>1 DEF ChallengersAreOthers, ReportExists, ReportAuditor
<1>2. ASSUME NEW a \in Accounts, NEW h \in Hashes, ReviewInvalid(a, h)
      PROVE  ChallengersAreOthers'
  BY <1>2, ReportKeepsChallengers DEF ReviewInvalid
<1>3. ASSUME NEW a \in Accounts, NEW h \in Hashes, NEW list \in VulnerabilityLists,
             ReviewReport(a, h, list)
      PROVE  ChallengersAreOthers'
  BY <1>3, ReportKeepsChallengers DEF ReviewReport
<1>4. ASSUME NEW a \in Accounts, NEW h \in Hashes, NEW r \in ReportId,
             ChallengeReport(a, h, r)
      PROVE  ChallengersAreOthers'
  BY <1>4, ChallengeKeepsChallengers
<1>5. ASSUME NEW h \in Hashes, NEW r \in ReportId, NEW c \in ChallengeId, Verdict(h, r, c)
      PROVE  ChallengersAreOthers'
  <2>1. \A g \in Hashes, q \in ReportId :
          /\ DOMAIN challenges'[g][q] = DOMAIN challenges[g][q]
          /\ \A i \in DOMAIN challenges[g][q] :
               challenges'[g][q][i].auditor = challenges[g][q][i].auditor
    BY <1>5, ChallengeClosed
  <2>2. \A g \in Hashes, q \in ReportId :
          challenges'[g][q] # << >> => challenges[g][q] # << >>
    <3>1. ASSUME NEW g \in Hashes, NEW q \in ReportId, challenges[g][q] = << >>
          PROVE  challenges'[g][q] = << >>
      <4>1. Len(challenges'[g][q]) = 0 /\ challenges'[g][q] \in Seq(Challenge)
        BY <1>5, <3>1, ChallengeClosed
      <4> QED
        BY <4>1, EmptySeq
    <3> QED
      BY <3>1
  <2>3. UNCHANGED reports
    BY <1>5 DEF Verdict, ApproveChallenge, RejectChallenge, RemoveChallenge, CloseChallenge
  <2> QED
    BY <2>1, <2>2, <2>3 DEF ChallengersAreOthers, ReportExists, ReportAuditor
<1> QED
  BY <1>1, <1>2, <1>3, <1>4, <1>5 DEF Next, ExoNext, vars, exoVars, RequestReview

(* Every verdict is played between two different accounts: the challenger  *)
(* of a report is never its author, and nobody challenges a report twice,  *)
(* for any number of reports, challenges, games and registrations.         *)
THEOREM ChallengersCorrect == Spec => []ChallengersAreOthers
<1>1. Init => ChallengersAreOthers
  BY DEF Init, ExoInit, ChallengersAreOthers
<1> QED
  BY <1>1, StepKeepsChallengers, TypeCorrect, PTL DEF Spec
-----------------------------------------------------------------------------
(* VulnerabilitiesMatchReports for one package.                            *)
MatchesReports(h) ==
  /\ reports[h] # << >> => IsRequested(h)
  /\ \A i, j \in DOMAIN reports[h] :
       reports[h][i].auditor = reports[h][j].auditor => i = j
  /\ \A r \in ReportId :
       vulnerabilities[h][r] # NoVulnerabilities
         <=> ReportExists(h, r) /\ reports[h][r + 1].kind = "Success"

(* A package no call touches keeps matching; a request may be added.       *)
LEMMA UntouchedMatches ==
  ASSUME NEW h \in Hashes, MatchesReports(h), reports'[h] = reports[h],
         vulnerabilities'[h] = vulnerabilities[h], IsRequested(h) => IsRequested(h)'
  PROVE  MatchesReports(h)'
BY DEF MatchesReports, ReportExists

(* The report appended is the only one of its author; it is filed under    *)
(* the id its vulnerabilities are, when it has any.                        *)
LEMMA AppendedMatches ==
  ASSUME TypeOK, NEW a \in Accounts, NEW h \in Hashes, MatchesReports(h),
         NEW kind \in {"Invalid", "Success"}, MayReport(a, h), AppendReport(a, h, kind),
         UNCHANGED reviews,
         \A r \in ReportId \ {NewReportId(h)} :
           vulnerabilities'[h][r] = vulnerabilities[h][r],
         vulnerabilities'[h][NewReportId(h)] # NoVulnerabilities <=> kind = "Success"
  PROVE  MatchesReports(h)'
<1> DEFINE n == NewReportId(h)
<1>1. ExoTypeOK
  BY DEF TypeOK
<1>2. n \in Nat
  BY <1>1 DEF ExoTypeOK, NewReportId
<1>3. /\ n \in ReportId
      /\ DOMAIN reports[h] = 1 .. n
      /\ DOMAIN reports'[h] = 1 .. n + 1
      /\ \A i \in DOMAIN reports[h] : reports'[h][i] = reports[h][i]
      /\ reports'[h][n + 1] = [auditor |-> a, kind |-> kind]
      /\ \A i \in DOMAIN reports[h] : reports[h][i].auditor # a
  <2>1. n \in ReportId /\ DOMAIN reports[h] = 1 .. n /\ DOMAIN reports'[h] = 1 .. n + 1
    BY <1>1, ReportAppended
  <2>2. \A i \in DOMAIN reports[h] : reports'[h][i] = reports[h][i]
    BY <1>1, ReportAppended
  <2>3. reports'[h][n + 1] = [auditor |-> a, kind |-> kind]
    BY <1>1, ReportAppended
  <2>4. \A i \in DOMAIN reports[h] : reports[h][i].auditor # a
    BY DEF MayReport, HasReported
  <2> QED
    BY <2>1, <2>2, <2>3, <2>4
<1>4. IsRequested(h)'
  BY DEF MayReport, MayAudit, IsRequested
<1>5. /\ \A r \in ReportId \ {n} : vulnerabilities'[h][r] = vulnerabilities[h][r]
      /\ vulnerabilities'[h][n] # NoVulnerabilities <=> kind = "Success"
  OBVIOUS
<1> HIDE DEF n
<1>6. ASSUME NEW i \in 1 .. n + 1, NEW j \in 1 .. n + 1,
             reports'[h][i].auditor = reports'[h][j].auditor
      PROVE  i = j
  <2>1. i \in 1 .. n \/ i = n + 1
    BY <1>2
  <2>2. j \in 1 .. n \/ j = n + 1
    BY <1>2
  <2> QED
    BY <1>3, <1>6, <2>1, <2>2 DEF MatchesReports
<1>7. ASSUME NEW r \in ReportId
      PROVE  vulnerabilities'[h][r] # NoVulnerabilities
               <=> r + 1 \in DOMAIN reports'[h] /\ reports'[h][r + 1].kind = "Success"
  <2>1. r \in Nat
    BY ExoAssumption DEF ReportId
  <2>2. CASE r = n
    BY <1>2, <1>3, <1>5, <2>2
  <2>3. CASE r # n
    <3>1. r + 1 \in 1 .. n + 1 <=> r + 1 \in 1 .. n
      BY <1>2, <2>1, <2>3
    <3> QED
      BY <1>3, <1>5, <2>3, <3>1 DEF MatchesReports, ReportExists
  <2> QED
    BY <2>2, <2>3
<1> QED
  BY <1>3, <1>4, <1>6, <1>7 DEF MatchesReports, ReportExists

LEMMA StepMatches ==
  ASSUME TypeOK, [Next]_vars, \A h \in Hashes : MatchesReports(h)
  PROVE  \A h \in Hashes : MatchesReports(h)'
<1> SUFFICES ASSUME NEW g \in Hashes PROVE MatchesReports(g)'
  OBVIOUS
<1>0. MatchesReports(g) /\ ExoTypeOK
  BY DEF TypeOK
<1>1. CASE UNCHANGED <<reviews, reports, vulnerabilities>>
  BY <1>0, <1>1, UntouchedMatches DEF IsRequested
<1>2. ASSUME NEW a \in Accounts, NEW h \in Hashes, NEW bounty \in Bounties,
             NEW score \in MinScores, RequestReview(a, h, bounty, score)
      PROVE  MatchesReports(g)'
  <2> DEFINE review == [requestor |-> a, minAuditorScore |-> score, bounty |-> bounty]
  <2>1. review # NoReview
    <3>1. review \in Review
      BY DEF Review
    <3> QED
      BY <3>1, ExoAssumption
  <2>2. reviews' = [reviews EXCEPT ![h] = review] /\ UNCHANGED <<reports, vulnerabilities>>
    BY <1>2 DEF RequestReview
  <2> HIDE DEF review
  <2>3. IsRequested(g) => IsRequested(g)'
    BY <1>0, <2>1, <2>2 DEF IsRequested, ExoTypeOK
  <2> QED
    BY <1>0, <2>2, <2>3, UntouchedMatches
<1>3. ASSUME NEW a \in Accounts, NEW h \in Hashes, ReviewInvalid(a, h)
      PROVE  MatchesReports(g)'
  <2>1. CASE g # h
    <3>1. reports'[g] = reports[g]
      BY <1>0, <1>3, <2>1 DEF ReviewInvalid, AppendReport, ExoTypeOK
    <3> QED
      BY <1>0, <1>3, <3>1, UntouchedMatches DEF ReviewInvalid, IsRequested
  <2>2. CASE g = h
    <3>1. vulnerabilities[h][NewReportId(h)] = NoVulnerabilities
      <4>1. NewReportId(h) \in ReportId /\ DOMAIN reports[h] = 1 .. NewReportId(h)
        BY <1>0, <1>3, ReportAppended DEF ReviewInvalid
      <4>2. ~ReportExists(h, NewReportId(h))
        BY <4>1, ExoAssumption DEF ReportExists, ReportId
      <4> QED
        BY <1>0, <2>2, <4>1, <4>2 DEF MatchesReports
    <3> QED
      BY <1>0, <1>3, <2>2, <3>1, AppendedMatches DEF ReviewInvalid
  <2> QED
    BY <2>1, <2>2
<1>4. ASSUME NEW a \in Accounts, NEW h \in Hashes, NEW list \in VulnerabilityLists,
             ReviewReport(a, h, list)
      PROVE  MatchesReports(g)'
  <2>1. CASE g # h
    <3>1. reports'[g] = reports[g] /\ vulnerabilities'[g] = vulnerabilities[g]
      BY <1>0, <1>4, <2>1 DEF ReviewReport, AppendReport, ExoTypeOK
    <3> QED
      BY <1>0, <1>4, <3>1, UntouchedMatches DEF ReviewReport, IsRequested
  <2>2. CASE g = h
    <3>1. NewReportId(h) \in ReportId
      BY <1>0, <1>4, ReportAppended DEF ReviewReport
    <3>2. /\ \A r \in ReportId \ {NewReportId(h)} :
               vulnerabilities'[h][r] = vulnerabilities[h][r]
          /\ vulnerabilities'[h][NewReportId(h)] # NoVulnerabilities
      BY <1>0, <1>4, <3>1, ExoAssumption DEF ReviewReport, ExoTypeOK
    <3> QED
      BY <1>0, <1>4, <2>2, <3>2, AppendedMatches DEF ReviewReport
  <2> QED
    BY <2>1, <2>2
<1>5. ASSUME NEW h \in Hashes, NEW r \in ReportId, NEW c \in ChallengeId, Verdict(h, r, c)
      PROVE  UNCHANGED <<reviews, reports, vulnerabilities>>
  BY <1>5 DEF Verdict, ApproveChallenge, RejectChallenge, RemoveChallenge, CloseChallenge
<1> QED
  BY <1>1, <1>2, <1>3, <1>4, <1>5 DEF Next, ExoNext, vars, exoVars, ChallengeReport

(* Vulnerabilities are filed under a report that succeeded, and every such *)
(* report has its own; an auditor reports once on a review, and only on a  *)
(* requested one.                                                          *)
THEOREM VulnerabilitiesCorrect == Spec => []VulnerabilitiesMatchReports
<1> DEFINE Matched == \A h \in Hashes : MatchesReports(h)
<1>1. Init => Matched
  BY ExoAssumption DEF Init, ExoInit, MatchesReports, ReportExists
<1>2. TypeOK /\ Matched /\ [Next]_vars => Matched'
  BY StepMatches
<1>3. Matched => VulnerabilitiesMatchReports
  BY DEF MatchesReports, VulnerabilitiesMatchReports
<1> HIDE DEF Matched
<1> QED
  BY <1>1, <1>2, <1>3, TypeCorrect, PTL DEF Spec
-----------------------------------------------------------------------------
(* A verdict plays the challenger against the author, two different        *)
(* accounts, with the winner the new state of the challenge stands for.    *)
LEMMA VerdictConserves ==
  ASSUME TypeOK, ChallengersAreOthers, NoScoreAtTheEdge,
         NEW h \in Hashes, NEW r \in ReportId, NEW c \in ChallengeId, Verdict(h, r, c)
  PROVE  LET challenger == challenges[h][r][c + 1].auditor
             author     == ReportAuditor(h, r)
             verdict    == challenges'[h][r][c + 1].state
         IN /\ TotalScore' = TotalScore
            /\ verdict = "Accepted" =>
                 auditorMap'[author].score <= auditorMap[author].score
            /\ verdict = "Rejected" =>
                 auditorMap'[challenger].score <= auditorMap[challenger].score
<1> DEFINE old        == challenges[h][r]
           challenger == old[c + 1].auditor
           author     == ReportAuditor(h, r)
<1>1. PICK state \in ChallengeState, winner \in Winner :
        /\ CloseChallenge(h, r, c, state, winner)
        /\ state = "Accepted" => winner = "Player0"
        /\ state = "Rejected" => winner = "Player1"
  BY DEF Verdict, ApproveChallenge, RejectChallenge, RemoveChallenge,
         ChallengeState, Winner
<1>2. /\ old \in Seq(Challenge) /\ c + 1 \in DOMAIN old
      /\ reports[h] \in Seq(Report) /\ r + 1 \in DOMAIN reports[h]
  BY <1>1 DEF CloseChallenge, ReportExists, TypeOK, ExoTypeOK
<1>3. old[c + 1] \in Challenge /\ reports[h][r + 1] \in Report
  BY <1>2, ElementOfSeq, LenProperties
<1>4. challenger \in Accounts /\ author \in Accounts
  BY <1>3 DEF Challenge, Report, ReportAuditor
<1>5. challenger # author
  BY <1>2 DEF ChallengersAreOthers
<1>6. challenges'[h][r][c + 1].state = state
  <2>1. challenges' = [challenges EXCEPT ![h][r] = [old EXCEPT ![c + 1].state = state]]
    BY <1>1, <1>2 DEF CloseChallenge, TypeOK, ExoTypeOK
  <2>2. challenges'[h][r] = [old EXCEPT ![c + 1].state = state]
    BY <2>1 DEF TypeOK, ExoTypeOK
  <2>3. challenges'[h][r][c + 1] = [old[c + 1] EXCEPT !.state = state]
    BY <1>2, <2>2
  <2> QED
    BY <1>3, <2>3 DEF Challenge
<1>7. ApplyResult(challenger, author, winner) /\ AuditTypeOK
  BY <1>1 DEF CloseChallenge, TypeOK
<1> HIDE DEF challenger, author
<1>8. /\ TotalScore' = TotalScore
      /\ winner = "Player0" => auditorMap'[author].score <= auditorMap[author].score
      /\ winner = "Player1" => auditorMap'[challenger].score <= auditorMap[challenger].score
  BY <1>4, <1>5, <1>7, ResultConserves, Zenon
<1> QED
  BY <1>1, <1>6, <1>8, Zenon DEF challenger, author

(* A verdict on a challenge moves score between the two accounts it is     *)
(* about, creates none, and never pays the side it goes against, for any   *)
(* scores in the range in which none of them wraps.                        *)
THEOREM VerdictsCorrect == Spec => VerdictsConserveScore
<1> DEFINE Conserves ==
      \A h \in Hashes, r \in ReportId, c \in ChallengeId :
        Verdict(h, r, c) =>
          LET challenger == challenges[h][r][c + 1].auditor
              author     == ReportAuditor(h, r)
              verdict    == challenges'[h][r][c + 1].state
          IN /\ TotalScore' = TotalScore
             /\ verdict = "Accepted" =>
                  auditorMap'[author].score <= auditorMap[author].score
             /\ verdict = "Rejected" =>
                  auditorMap'[challenger].score <= auditorMap[challenger].score
<1>1. TypeOK /\ ChallengersAreOthers /\ NoScoreAtTheEdge => Conserves
  BY VerdictConserves, Zenon
<1>2. TypeOK /\ ChallengersAreOthers =>
        [gamesPlayed' # gamesPlayed /\ NoScoreAtTheEdge => Conserves]_vars
  BY <1>1, Zenon
<1> QED
  BY <1>2, TypeCorrect, ChallengersCorrect, PTL DEF Spec, VerdictsConserveScore
-----------------------------------------------------------------------------
(* What RecordIsPermanent says of one package.                             *)
KeepsRecord(h) ==
  /\ IsRequested(h) => reviews'[h] = reviews[h]
  /\ Len(reports[h]) <= Len(reports'[h])
  /\ \A i \in DOMAIN reports[h] : reports'[h][i] = reports[h][i]
  /\ \A r \in ReportId :
       /\ vulnerabilities[h][r] # NoVulnerabilities =>
            vulnerabilities'[h][r] = vulnerabilities[h][r]
       /\ Len(challenges[h][r]) <= Len(challenges'[h][r])
       /\ \A i \in DOMAIN challenges[h][r] :
            LET before == challenges[h][r][i]
                after  == challenges'[h][r][i]
            IN /\ after.auditor = before.auditor
               /\ before.state # "Pending" => after.state # "Pending"

(* No call takes back or changes anything on record: a review is requested *)
(* under a free hash, a report and a challenge are appended, vulnerabilities*)
(* are filed under an id that has none yet (VulnerabilitiesMatchReports),  *)
(* and a verdict writes no other state than a closed one.                  *)
LEMMA StepKeepsRecord ==
  ASSUME TypeOK, TypeOK', VulnerabilitiesMatchReports, [Next]_vars, NEW g \in Hashes
  PROVE  KeepsRecord(g)
<1>0. /\ ExoTypeOK
      /\ Len(reports[g]) \in Nat
      /\ \A r \in ReportId : Len(challenges[g][r]) \in Nat
  BY DEF TypeOK, ExoTypeOK
<1>1. CASE UNCHANGED exoVars
  BY <1>0, <1>1 DEF KeepsRecord, exoVars
<1>2. ASSUME NEW a \in Accounts, NEW h \in Hashes, NEW bounty \in Bounties,
             NEW score \in MinScores, RequestReview(a, h, bounty, score)
      PROVE  KeepsRecord(g)
  <2>1. IsRequested(g) => reviews'[g] = reviews[g]
    BY <1>0, <1>2 DEF RequestReview, ExoTypeOK
  <2> QED
    BY <1>0, <1>2, <2>1 DEF KeepsRecord, RequestReview
<1>3. ASSUME NEW a \in Accounts, NEW h \in Hashes, NEW kind \in {"Invalid", "Success"},
             MayReport(a, h), AppendReport(a, h, kind)
      PROVE  /\ Len(reports[g]) <= Len(reports'[g])
             /\ \A i \in DOMAIN reports[g] : reports'[g][i] = reports[g][i]
  <2>1. CASE g = h
    <3>1. /\ DOMAIN reports[h] = 1 .. NewReportId(h)
          /\ DOMAIN reports'[h] = 1 .. NewReportId(h) + 1
          /\ \A i \in DOMAIN reports[h] : reports'[h][i] = reports[h][i]
      BY <1>0, <1>3, ReportAppended
    <3>2. reports'[h] = Append(reports[h], [auditor |-> a, kind |-> kind])
      BY <1>0, <1>3 DEF AppendReport, ExoTypeOK
    <3>3. Len(reports'[h]) = Len(reports[h]) + 1
      BY <1>0, <3>2 DEF ExoTypeOK
    <3> QED
      BY <1>0, <2>1, <3>1, <3>3
  <2>2. CASE g # h
    <3>1. reports'[g] = reports[g]
      BY <1>0, <1>3, <2>2 DEF AppendReport, ExoTypeOK
    <3> QED
      BY <1>0, <3>1
  <2> QED
    BY <2>1, <2>2
<1>4. ASSUME NEW a \in Accounts, NEW h \in Hashes, ReviewInvalid(a, h)
      PROVE  KeepsRecord(g)
  <2>1. /\ Len(reports[g]) <= Len(reports'[g])
        /\ \A i \in DOMAIN reports[g] : reports'[g][i] = reports[g][i]
    BY <1>3, <1>4 DEF ReviewInvalid
  <2> QED
    BY <1>0, <1>4, <2>1 DEF KeepsRecord, ReviewInvalid
<1>5. ASSUME NEW a \in Accounts, NEW h \in Hashes, NEW list \in VulnerabilityLists,
             ReviewReport(a, h, list)
      PROVE  KeepsRecord(g)
  <2>1. /\ Len(reports[g]) <= Len(reports'[g])
        /\ \A i \in DOMAIN reports[g] : reports'[g][i] = reports[g][i]
    BY <1>3, <1>5 DEF ReviewReport
  <2>2. NewReportId(h) \in ReportId /\ DOMAIN reports[h] = 1 .. NewReportId(h)
    BY <1>0, <1>5, ReportAppended DEF ReviewReport
  <2>3. vulnerabilities[h][NewReportId(h)] = NoVulnerabilities
    <3>1. ~ReportExists(h, NewReportId(h))
      BY <2>2, ExoAssumption DEF ReportExists, ReportId
    <3> QED
      BY <2>2, <3>1 DEF VulnerabilitiesMatchReports
  <2>4. \A r \in ReportId :
          vulnerabilities[g][r] # NoVulnerabilities =>
            vulnerabilities'[g][r] = vulnerabilities[g][r]
    BY <1>0, <1>5, <2>2, <2>3 DEF ReviewReport, ExoTypeOK
  <2> QED
    BY <1>0, <1>5, <2>1, <2>4 DEF KeepsRecord, ReviewReport
<1>6. ASSUME NEW a \in Accounts, NEW h \in Hashes, NEW r \in ReportId,
             ChallengeReport(a, h, r)
      PROVE  KeepsRecord(g)
  <2>1. ASSUME NEW q \in ReportId
        PROVE  /\ Len(challenges[g][q]) <= Len(challenges'[g][q])
               /\ \A i \in DOMAIN challenges[g][q] :
                    challenges'[g][q][i] = challenges[g][q][i]
    <3>1. /\ DOMAIN challenges[h][r] = 1 .. Len(challenges[h][r])
          /\ \A i \in 1 .. Len(challenges[h][r]) :
               challenges'[h][r][i] = challenges[h][r][i]
          /\ <<g, q>> # <<h, r>> => challenges'[g][q] = challenges[g][q]
      BY <1>0, <1>6, ChallengeAppended
    <3>2. CASE <<g, q>> # <<h, r>>
      BY <1>0, <3>1, <3>2
    <3>3. CASE g = h /\ q = r
      <4>1. challenges[h][r] \in Seq(Challenge)
        BY <1>0 DEF ExoTypeOK
      <4>2. challenges'[h][r] = Append(challenges[h][r], [auditor |-> a, state |-> "Pending"])
        BY <1>0, <1>6 DEF ChallengeReport, ExoTypeOK
      <4>3. Len(challenges'[h][r]) = Len(challenges[h][r]) + 1
        BY <4>1, <4>2
      <4>4. Len(challenges[h][r]) <= Len(challenges'[h][r])
        BY <1>0, <4>3
      <4>5. \A i \in DOMAIN challenges[h][r] :
              challenges'[h][r][i] = challenges[h][r][i]
        BY <3>1, Zenon
      <4> QED
        BY <3>3, <4>4, <4>5, Zenon
    <3> QED
      BY <3>2, <3>3
  <2>2. UNCHANGED <<reviews, reports, vulnerabilities>>
    BY <1>6 DEF ChallengeReport
  <2> QED
    BY <1>0, <2>1, <2>2 DEF KeepsRecord
<1>7. ASSUME NEW h \in Hashes, NEW r \in ReportId, NEW c \in ChallengeId, Verdict(h, r, c)
      PROVE  KeepsRecord(g)
  <2>1. \A q \in ReportId :
          /\ Len(challenges'[g][q]) = Len(challenges[g][q])
          /\ \A i \in DOMAIN challenges[g][q] :
               /\ challenges'[g][q][i].auditor = challenges[g][q][i].auditor
               /\ \/ challenges'[g][q][i].state = challenges[g][q][i].state
                  \/ challenges'[g][q][i].state # "Pending"
    BY <1>7, ChallengeClosed
  <2>2. UNCHANGED <<reviews, reports, vulnerabilities>>
    BY <1>7 DEF Verdict, ApproveChallenge, RejectChallenge, RemoveChallenge, CloseChallenge
  <2> QED
    BY <1>0, <2>1, <2>2 DEF KeepsRecord
<1> QED
  BY <1>1, <1>2, <1>4, <1>5, <1>6, <1>7 DEF Next, ExoNext, vars

(* The record only grows: whatever the order of calls, what a call put on  *)
(* it is there, unchanged and in its place, in every later state.          *)
THEOREM RecordCorrect == Spec => RecordIsPermanent
<1>1. TypeOK /\ TypeOK' /\ VulnerabilitiesMatchReports /\ [Next]_vars
        => \A h \in Hashes : KeepsRecord(h)
  BY StepKeepsRecord
<1> QED
  BY <1>1, TypeCorrect, VulnerabilitiesCorrect, PTL DEF Spec, RecordIsPermanent, KeepsRecord
-----------------------------------------------------------------------------
(* What ReservedIsOwed says of one account.                                *)
Owed(a, reaped) ==
  balances[a].reserved = StakeOf(a) + BountiesOf(RequestsOf(a) \ reaped)

Reapable(a) == {h \in RequestsOf(a) : reviews[h].bounty < ExistentialDeposit}

ReservedOwed(a) == \E reaped \in SUBSET Reapable(a) : Owed(a, reaped)

(* The bounties of an account's requests are natural numbers, and none is  *)
(* more than all of them.                                                  *)
LEMMA BountiesNat ==
  ASSUME ExoTypeOK, NEW a \in Accounts, NEW hashes \in SUBSET RequestsOf(a)
  PROVE  /\ BountiesOf(hashes) \in Nat
         /\ \A h \in hashes : reviews[h].bounty <= BountiesOf(hashes)
<1> DEFINE f == [h \in hashes |-> reviews[h].bounty]
<1>1. f \in [hashes -> Nat]
  BY ExoAssumption DEF RequestsOf, IsRequested, ExoTypeOK, Review
<1>2. IsFiniteSet(hashes)
  <2>1. hashes \subseteq Hashes
    BY DEF RequestsOf
  <2> QED
    BY <2>1, ExoAssumption, FS_Subset
<1>3. SumFunction(f) \in Nat /\ \A h \in hashes : f[h] <= SumFunction(f)
  BY <1>1, <1>2, SumNat
<1>4. \A h \in hashes : f[h] = reviews[h].bounty
  OBVIOUS
<1> HIDE DEF f
<1>5. \A h \in hashes : reviews[h].bounty <= SumFunction(f)
  BY <1>3, <1>4
<1> QED
  BY <1>3, <1>5, Zenon DEF BountiesOf, f

(* A request is open for as long as the chain runs, with its bounty, so    *)
(* what is owed for it stays the same.                                     *)
LEMMA BountiesKept ==
  ASSUME NEW hashes, \A h \in hashes : reviews'[h] = reviews[h]
  PROVE  SumFunction([h \in hashes |-> reviews'[h].bounty]) = BountiesOf(hashes)
<1>1. [h \in hashes |-> reviews'[h].bounty] = [h \in hashes |-> reviews[h].bounty]
  OBVIOUS
<1> QED
  BY <1>1, Zenon DEF BountiesOf

(* What is reserved changes by what the stake owed changes by.             *)
LEMMA OwedMoved ==
  ASSUME ExoTypeOK, NEW x \in Accounts, NEW reaped \in SUBSET Reapable(x), Owed(x, reaped),
         RequestsOf(x)' = RequestsOf(x),
         \A h \in RequestsOf(x) : reviews'[h] = reviews[h],
         StakeOf(x) \in Int, NEW d \in Int, StakeOf(x)' = StakeOf(x) + d,
         balances'[x].reserved = balances[x].reserved + d
  PROVE  ReservedOwed(x)'
<1> DEFINE kept == RequestsOf(x) \ reaped
<1>1. reaped \in SUBSET Reapable(x)'
  BY DEF Reapable
<1>2. BountiesOf(kept)' = BountiesOf(kept) /\ BountiesOf(kept) \in Int
  <2>1. \A h \in kept : reviews'[h] = reviews[h]
    OBVIOUS
  <2>2. kept \in SUBSET RequestsOf(x) /\ kept' = kept
    OBVIOUS
  <2>3. BountiesOf(kept) \in Nat
    BY <2>2, BountiesNat
  <2> HIDE DEF kept
  <2>4. SumFunction([h \in kept |-> reviews'[h].bounty]) = BountiesOf(kept)
    BY <2>1, BountiesKept
  <2>5. BountiesOf(kept)' = SumFunction([h \in kept |-> reviews'[h].bounty])
    BY <2>2, Zenon DEF BountiesOf
  <2> QED
    BY <2>3, <2>4, <2>5
<1>3. balances[x].reserved = StakeOf(x) + BountiesOf(kept)
  BY DEF Owed
<1>4. kept' = (RequestsOf(x) \ reaped)'
  OBVIOUS
<1> HIDE DEF kept
<1>5. balances'[x].reserved = StakeOf(x)' + BountiesOf(kept)'
  BY <1>2, <1>3
<1>6. Owed(x, reaped)'
  BY <1>5 DEF Owed, kept
<1> QED
  BY <1>1, <1>6 DEF ReservedOwed

(* An account that is reaped holds nothing: then each of its bounties was  *)
(* below the existential deposit, for their sum was.                       *)
LEMMA OwedReaped ==
  ASSUME NEW x \in Accounts, UNCHANGED reviews, StakeOf(x)' = 0,
         balances'[x].reserved = 0,
         \A h \in RequestsOf(x) : reviews[h].bounty < ExistentialDeposit
  PROVE  ReservedOwed(x)'
<1> DEFINE all == RequestsOf(x)
<1>1. all \in SUBSET Reapable(x)'
  BY DEF Reapable, RequestsOf, IsRequested
<1>2. (RequestsOf(x) \ all)' = {}
  BY DEF RequestsOf, IsRequested
<1>3. BountiesOf(RequestsOf(x) \ all)' = 0
  <2> DEFINE f == [h \in {} |-> reviews'[h].bounty]
  <2>1. f \in [{} -> Int]
    OBVIOUS
  <2>2. BountiesOf(RequestsOf(x) \ all)' = SumFunction(f)
    BY <1>2, Zenon DEF BountiesOf
  <2> HIDE DEF f
  <2> QED
    BY <2>1, <2>2, SumEmpty
<1>4. PICK reaped : reaped = all /\ reaped = all'
  BY DEF RequestsOf, IsRequested
<1>5. balances'[x].reserved = StakeOf(x)' + BountiesOf(RequestsOf(x) \ reaped)'
  BY <1>3, <1>4
<1> QED
  BY <1>1, <1>4, <1>5 DEF ReservedOwed, Owed

(* cancel_account frees the whole stake, and no bounty; only the auditor   *)
(* that forfeits it can be reaped.                                         *)
LEMMA CancelOwed ==
  ASSUME TypeOK, NEW x \in Accounts, x \notin GenesisAuditors, CancelAccount(x),
         UNCHANGED reviews, ReservedOwed(x)
  PROVE  ReservedOwed(x)'
<1>1. PICK reaped \in SUBSET Reapable(x) : Owed(x, reaped)
  BY DEF ReservedOwed
<1> DEFINE kept == RequestsOf(x) \ reaped
           owed == BountiesOf(kept)
           free == balances[x].free
<1>2. /\ owed \in Nat
      /\ \A h \in kept : reviews[h].bounty <= owed
  <2>1. kept \in SUBSET RequestsOf(x)
    OBVIOUS
  <2> HIDE DEF kept
  <2> QED
    BY <2>1, BountiesNat DEF TypeOK
<1>3. /\ StakeOf(x) = MinAuditorStake /\ StakeOf(x)' = 0
      /\ MinAuditorStake \in Nat
  BY AuditAssumption
     DEF StakeOf, HasGenesisEntry, CancelAccount, IsSignedUp, TypeOK, AuditTypeOK
<1>4. balances[x] \in Balance /\ balances[x].reserved = MinAuditorStake + owed
  BY <1>1, <1>3 DEF Owed, TypeOK, AuditTypeOK
<1>5. free \in Nat
  BY <1>4 DEF Balance
<1>6. RequestsOf(x)' = RequestsOf(x)
  BY DEF RequestsOf, IsRequested
<1> HIDE DEF owed, free
<1>7. Released(balances[x], MinAuditorStake) = MinAuditorStake
  BY <1>2, <1>3, <1>4 DEF Released
<1>8. Unreserve(balances, x, MinAuditorStake)[x]
        = [free |-> free + MinAuditorStake, reserved |-> owed]
  <2>1. Unreserve(balances, x, MinAuditorStake)[x]
          = [free     |-> free + Released(balances[x], MinAuditorStake),
             reserved |-> balances[x].reserved - Released(balances[x], MinAuditorStake)]
    BY <1>4 DEF Unreserve, TypeOK, AuditTypeOK, free
  <2>2. balances[x].reserved - MinAuditorStake = owed
    BY <1>2, <1>3, <1>4
  <2> QED
    BY <1>7, <2>1, <2>2, Zenon
<1> DEFINE refunded == Unreserve(balances, x, MinAuditorStake)
<1>9. x \in DOMAIN refunded
  BY DEF Unreserve, TypeOK, AuditTypeOK
<1>10. \/ balances' = refunded
       \/ balances' = Withdraw(refunded, x, MinAuditorStake)
  BY DEF CancelAccount
<1> HIDE DEF refunded
<1>11. refunded[x] = [free |-> free + MinAuditorStake, reserved |-> owed]
  BY <1>8 DEF refunded
<1>12. CASE balances'[x].reserved = owed
  <2>1. balances'[x].reserved = balances[x].reserved + (-MinAuditorStake)
    BY <1>2, <1>3, <1>4, <1>12
  <2>2. StakeOf(x)' = StakeOf(x) + (-MinAuditorStake) /\ StakeOf(x) \in Int
    BY <1>3
  <2>3. -MinAuditorStake \in Int
    BY <1>3
  <2>4. \A h \in RequestsOf(x) : reviews'[h] = reviews[h]
    OBVIOUS
  <2>5. ExoTypeOK
    BY DEF TypeOK
  <2> QED
    BY <1>1, <1>6, <2>1, <2>2, <2>3, <2>4, <2>5, OwedMoved, Zenon
<1>13. CASE balances'[x].reserved = 0 /\ owed < ExistentialDeposit
  <2>1. ASSUME NEW h \in RequestsOf(x)
        PROVE  reviews[h].bounty < ExistentialDeposit
    <3>1. CASE h \in reaped
      BY <1>1, <3>1 DEF Reapable
    <3>2. CASE h \in kept
      <4>1. reviews[h].bounty <= owed
        BY <1>2, <3>2
      <4>2. reviews[h].bounty \in Nat
        BY ExoAssumption DEF RequestsOf, IsRequested, TypeOK, ExoTypeOK, Review
      <4> QED
        BY <1>2, <1>13, <4>1, <4>2, ExistentialDepositAssumption
    <3> QED
      BY <3>1, <3>2
  <2> QED
    BY <1>3, <1>13, <2>1, OwedReaped
<1>14. CASE balances' = refunded
  BY <1>11, <1>12, <1>14
<1>15. CASE balances' = Withdraw(refunded, x, MinAuditorStake)
  <2> DEFINE left == [free |-> refunded[x].free - MinAuditorStake,
                      reserved |-> refunded[x].reserved]
  <2>1. balances'[x] = Reap(left)
    BY <1>9, <1>15 DEF Withdraw
  <2>2. left.reserved = owed /\ left.free \in Nat
    BY <1>3, <1>5, <1>11
  <2> HIDE DEF left
  <2>3. CASE Total(left) < ExistentialDeposit
    <3>1. owed < ExistentialDeposit
      BY <1>2, <2>2, <2>3, ExistentialDepositAssumption DEF Total
    <3>2. balances'[x].reserved = 0
      BY <2>1, <2>3 DEF Reap
    <3> QED
      BY <1>13, <3>1, <3>2
  <2>4. CASE ~(Total(left) < ExistentialDeposit)
    <3>1. balances'[x].reserved = owed
      BY <2>1, <2>2, <2>4 DEF Reap
    <3> QED
      BY <1>12, <3>1
  <2> QED
    BY <2>3, <2>4
<1> QED
  BY <1>10, <1>14, <1>15

(* request_review reserves the bounty on top of what is reserved, for one  *)
(* request more of the requestor.                                          *)
LEMMA RequestOwed ==
  ASSUME TypeOK, TypeOK', NEW x \in Accounts, NEW h \in Hashes, NEW bounty \in Bounties,
         NEW score \in MinScores, RequestReview(x, h, bounty, score), ReservedOwed(x)
  PROVE  ReservedOwed(x)'
<1>1. PICK reaped \in SUBSET Reapable(x) : Owed(x, reaped)
  BY DEF ReservedOwed
<1> DEFINE review == [requestor |-> x, minAuditorScore |-> score, bounty |-> bounty]
           kept   == RequestsOf(x) \ reaped
           f      == [g \in kept |-> reviews'[g].bounty]
           f2     == [g \in kept \cup {h} |-> reviews'[g].bounty]
<1>2. bounty \in Nat
  BY ExoAssumption
<1>3. review # NoReview
  BY ExoAssumption DEF Review
<1>4. /\ reviews'[h] = review
      /\ \A g \in Hashes \ {h} : reviews'[g] = reviews[g]
      /\ ~IsRequested(h)
      /\ UNCHANGED auditorMap
  BY DEF RequestReview, TypeOK, ExoTypeOK
<1>5. RequestsOf(x)' = RequestsOf(x) \cup {h} /\ h \notin RequestsOf(x)
  BY <1>3, <1>4 DEF RequestsOf, IsRequested
<1>6. h \notin kept /\ h \notin reaped /\ IsFiniteSet(kept)
  <2>1. kept \subseteq Hashes
    BY DEF RequestsOf
  <2>2. IsFiniteSet(kept)
    BY <2>1, ExoAssumption, FS_Subset
  <2> QED
    BY <1>1, <1>5, <2>2 DEF Reapable
<1>7. \A g \in kept : reviews'[g] = reviews[g]
  BY <1>4, <1>6 DEF RequestsOf
<1>8. f \in [kept -> Int] /\ f2 \in [kept \cup {h} -> Int] /\ f2[h] = bounty
  <2>1. \A g \in kept \cup {h} : reviews'[g].bounty \in Int
    <3> HIDE DEF f, f2, review
    <3>1. ASSUME NEW g \in RequestsOf(x)' PROVE reviews'[g].bounty \in Int
      <4>1. g \in Hashes /\ reviews'[g] # NoReview
        BY DEF RequestsOf, IsRequested
      <4>2. reviews'[g] \in Review
        BY <4>1 DEF TypeOK, ExoTypeOK
      <4>3. reviews'[g].bounty \in Bounties
        <5> DEFINE entry == reviews'[g]
        <5>1. entry \in Review
          BY <4>2
        <5> HIDE DEF entry
        <5>2. entry.bounty \in Bounties
          BY <5>1 DEF Review
        <5> QED
          BY <5>2, Zenon DEF entry
      <4>4. \A b \in Bounties : b \in Int
        BY ExoAssumption
      <4> QED
        BY <4>3, <4>4, Zenon
    <3> QED
      BY <1>5, <3>1
  <2> QED
    BY <1>4, <2>1
<1>9. SumFunction(f2) = SumFunction(f) + f2[h]
  <2>1. \A g \in kept : f2[g] = f[g]
    OBVIOUS
  <2> HIDE DEF f, f2, kept
  <2> QED
    BY <1>6, <1>8, <2>1, SumOneMore
<1>10. SumFunction(f) = BountiesOf(kept)
  <2> HIDE DEF kept
  <2> QED
    BY <1>7, BountiesKept
<1>11. BountiesOf(kept) \in Nat
  <2>1. kept \in SUBSET RequestsOf(x)
    OBVIOUS
  <2> HIDE DEF kept
  <2> QED
    BY <2>1, BountiesNat DEF TypeOK
<1>12. BountiesOf(RequestsOf(x) \ reaped)' = SumFunction(f2)
  <2>1. (RequestsOf(x) \ reaped)' = kept \cup {h}
    BY <1>5, <1>6
  <2> QED
    BY <2>1, Zenon DEF BountiesOf
<1>13. balances[x].reserved = StakeOf(x) + BountiesOf(kept)
  BY <1>1 DEF Owed
<1>14. StakeOf(x)' = StakeOf(x) /\ StakeOf(x) \in Int
  BY <1>4, AuditAssumption DEF StakeOf, HasGenesisEntry, IsSignedUp, IsAuditor
<1>15. balances'[x].reserved = balances[x].reserved + bounty
  BY DEF RequestReview, Reserve, TypeOK, AuditTypeOK
<1>16. reaped \in SUBSET Reapable(x)'
  BY <1>1, <1>4, <1>5, <1>6 DEF Reapable, RequestsOf
<1> HIDE DEF f, f2, kept
<1>17. balances'[x].reserved = StakeOf(x)' + SumFunction(f2)
  BY <1>2, <1>8, <1>9, <1>10, <1>11, <1>13, <1>14, <1>15
<1>18. Owed(x, reaped)'
  BY <1>12, <1>17 DEF Owed
<1> QED
  BY <1>16, <1>18 DEF ReservedOwed

LEMMA StepOwed ==
  ASSUME TypeOK, TypeOK', NEW x \in Accounts, x \notin GenesisAuditors,
         ReservedOwed(x), [Next]_vars
  PROVE  ReservedOwed(x)'
<1>t. /\ ExoTypeOK /\ AuditTypeOK
      /\ balances[x].reserved \in Nat
      /\ MinAuditorStake \in Int
      /\ StakeOf(x) = IF IsSignedUp(x) THEN MinAuditorStake ELSE 0
      /\ StakeOf(x)' = IF IsSignedUp(x)' THEN MinAuditorStake ELSE 0
      /\ StakeOf(x) \in Int
  BY AuditAssumption DEF TypeOK, AuditTypeOK, Balance, StakeOf, HasGenesisEntry
<1>0. PICK reaped \in SUBSET Reapable(x) : Owed(x, reaped)
  BY DEF ReservedOwed
<1>k. ASSUME RequestsOf(x)' = RequestsOf(x),
             \A h \in RequestsOf(x) : reviews'[h] = reviews[h],
             IsSignedUp(x)' <=> IsSignedUp(x),
             balances'[x].reserved = balances[x].reserved
      PROVE  ReservedOwed(x)'
  <2>1. /\ StakeOf(x)' = StakeOf(x) + 0
        /\ balances'[x].reserved = balances[x].reserved + 0
        /\ 0 \in Int
    BY <1>t, <1>k
  <2> QED
    BY <1>t, <1>0, <1>k, <2>1, OwedMoved, Zenon
<1>u. ASSUME UNCHANGED reviews, IsSignedUp(x)' <=> IsSignedUp(x),
             balances'[x].reserved = balances[x].reserved
      PROVE  ReservedOwed(x)'
  <2>1. RequestsOf(x)' = RequestsOf(x) /\ \A h \in RequestsOf(x) : reviews'[h] = reviews[h]
    BY <1>u DEF RequestsOf, IsRequested
  <2> QED
    BY <1>k, <1>u, <2>1
<1>g. ASSUME NEW p0 \in Accounts, NEW p1 \in Accounts, NEW winner \in Winner,
             GameResult(p0, p1, winner), UNCHANGED reviews
      PROVE  ReservedOwed(x)'
  <2>1. AuditTypeOK /\ AuditTypeOK' /\ ApplyResult(p0, p1, winner)
    BY <1>t, <1>g DEF GameResult, TypeOK
  <2>2. IsSignedUp(x)' <=> IsSignedUp(x)
    BY <2>1, ResultKeepsStanding
  <2> QED
    BY <1>g, <1>u, <2>2 DEF GameResult
<1>1. ASSUME NEW a \in Accounts, NEW profile \in Profiles, SignUp(a, profile),
             UNCHANGED reviews
      PROVE  ReservedOwed(x)'
  <2>1. CASE x = a
    <3>1. NewAuditor(profile) \in AuditorData
      BY DEF NewAuditor, AuditorData
    <3>2. IsSignedUp(x)' /\ ~IsSignedUp(x)
      BY <1>t, <1>1, <2>1, <3>1, AuditAssumption DEF SignUp, IsSignedUp, AuditTypeOK
    <3>3. balances'[x].reserved = balances[x].reserved + MinAuditorStake
      BY <1>t, <1>1, <2>1 DEF SignUp, Reserve, AuditTypeOK
    <3>4. StakeOf(x)' = StakeOf(x) + MinAuditorStake
      BY <1>t, <3>2
    <3>5. RequestsOf(x)' = RequestsOf(x) /\ \A h \in RequestsOf(x) : reviews'[h] = reviews[h]
      BY <1>1 DEF RequestsOf, IsRequested
    <3> QED
      BY <1>t, <1>0, <3>3, <3>4, <3>5, OwedMoved, Zenon
  <2>2. CASE x # a
    <3>1. auditorMap'[x] = auditorMap[x] /\ balances'[x] = balances[x]
      BY <1>t, <1>1, <2>2 DEF SignUp, Reserve, AuditTypeOK
    <3> QED
      BY <1>1, <1>u, <3>1 DEF IsSignedUp
  <2> QED
    BY <2>1, <2>2
<1>2. ASSUME NEW a \in Accounts, NEW profile \in Profiles, UpdateProfile(a, profile),
             UNCHANGED reviews
      PROVE  ReservedOwed(x)'
  <2>1. CASE x = a
    <3>1. auditorMap[x] \in AuditorData /\ auditorMap'[x] = WithProfile(auditorMap[x], profile)
      BY <1>t, <1>2, <2>1 DEF UpdateProfile, IsSignedUp, AuditTypeOK
    <3>2. auditorMap'[x] \in AuditorData
      BY <3>1 DEF WithProfile, AuditorData
    <3>3. IsSignedUp(x)' /\ IsSignedUp(x)
      BY <1>2, <2>1, <3>2, AuditAssumption DEF UpdateProfile, IsSignedUp
    <3> QED
      BY <1>2, <1>u, <3>3 DEF UpdateProfile
  <2>2. CASE x # a
    BY <1>t, <1>2, <1>u, <2>2 DEF UpdateProfile, AuditTypeOK, IsSignedUp
  <2> QED
    BY <2>1, <2>2
<1>3. ASSUME NEW a \in Accounts, CancelAccount(a), UNCHANGED reviews
      PROVE  ReservedOwed(x)'
  <2>1. CASE x = a
    BY <1>3, <2>1, CancelOwed
  <2>2. CASE x # a
    <3>1. auditorMap'[x] = auditorMap[x] /\ balances'[x] = balances[x]
      BY <1>t, <1>3, <2>2 DEF CancelAccount, Unreserve, Withdraw, AuditTypeOK
    <3> QED
      BY <1>3, <1>u, <3>1 DEF IsSignedUp
  <2> QED
    BY <2>1, <2>2
<1>4. ASSUME NEW sender \in Accounts, NEW candidate \in Accounts,
             ApproveAuditor(sender, candidate), UNCHANGED reviews
      PROVE  ReservedOwed(x)'
  <2>1. CASE x = candidate
    <3>1. auditorMap[x] \in AuditorData
      BY <1>t, <1>4, <2>1 DEF ApproveAuditor, MayApprove, IsPending, IsSignedUp, AuditTypeOK
    <3>2. /\ ScoreAfterApproval(Len(auditorMap[x].approvedBy) + 1) \in Score \cup {NoScore}
          /\ Append(auditorMap[x].approvedBy, sender) \in Seq(Accounts)
      BY <3>1, AuditAssumption DEF ScoreAfterApproval, AuditorData
    <3>3. WithApproval(auditorMap[x], sender) \in AuditorData
      BY <3>1, <3>2 DEF WithApproval, AuditorData
    <3>4. IsSignedUp(x)' /\ IsSignedUp(x)
      BY <1>t, <1>4, <2>1, <3>3, AuditAssumption
         DEF ApproveAuditor, MayApprove, IsPending, IsSignedUp, AuditTypeOK
    <3> QED
      BY <1>4, <1>u, <3>4 DEF ApproveAuditor
  <2>2. CASE x # candidate
    BY <1>t, <1>4, <1>u, <2>2 DEF ApproveAuditor, AuditTypeOK, IsSignedUp
  <2> QED
    BY <2>1, <2>2
<1>5. ASSUME NEW from \in Accounts, NEW to \in Accounts, NEW v \in TransferAmounts,
             Transfer(from, to, v), UNCHANGED reviews
      PROVE  ReservedOwed(x)'
  <2>1. balances'[x].reserved = balances[x].reserved
    BY <1>t, <1>5 DEF Transfer, Transferred, AuditTypeOK, Balance
  <2> QED
    BY <1>5, <1>u, <2>1 DEF Transfer, IsSignedUp
<1>6. ASSUME NEW a \in Accounts, NEW h \in Hashes, NEW bounty \in Bounties,
             NEW score \in MinScores, RequestReview(a, h, bounty, score)
      PROVE  ReservedOwed(x)'
  <2>1. CASE x = a
    BY <1>6, <2>1, RequestOwed
  <2>2. CASE x # a
    <3>1. balances'[x] = balances[x] /\ UNCHANGED auditorMap
      BY <1>t, <1>6, <2>2 DEF RequestReview, Reserve, AuditTypeOK
    <3>2. RequestsOf(x)' = RequestsOf(x) /\ \A g \in RequestsOf(x) : reviews'[g] = reviews[g]
      <4> DEFINE review == [requestor |-> a, minAuditorScore |-> score, bounty |-> bounty]
      <4>1. reviews' = [reviews EXCEPT ![h] = review] /\ reviews[h] = NoReview
        BY <1>6 DEF RequestReview, IsRequested
      <4>2. review.requestor # x
        BY <2>2
      <4> HIDE DEF review
      <4>3. /\ reviews'[h] = review
            /\ \A g \in Hashes \ {h} : reviews'[g] = reviews[g]
        BY <1>t, <4>1 DEF ExoTypeOK
      <4> QED
        BY <4>1, <4>2, <4>3 DEF RequestsOf, IsRequested
    <3> QED
      BY <1>k, <3>1, <3>2 DEF IsSignedUp
  <2> QED
    BY <2>1, <2>2
<1>7. ASSUME NEW h \in Hashes, NEW r \in ReportId, NEW c \in ChallengeId, Verdict(h, r, c)
      PROVE  ReservedOwed(x)'
  <2>1. UNCHANGED reviews
    BY <1>7 DEF Verdict, ApproveChallenge, RejectChallenge, RemoveChallenge, CloseChallenge
  <2> QED
    BY <1>7, <1>g, <2>1, VerdictIsGame
<1>8. CASE UNCHANGED <<auditVars, reviews>>
  BY <1>u, <1>8 DEF auditVars, IsSignedUp
<1> QED
  BY <1>g, <1>1, <1>2, <1>3, <1>4, <1>5, <1>6, <1>7, <1>8
     DEF Next, AuditNext, ExoNext, vars, exoVars, ReviewInvalid, ReviewReport, ChallengeReport

(* Stake and bounties share one reserved balance, and no order of calls    *)
(* makes one eat the other: whatever the amounts, what is reserved for an  *)
(* account is its stake and all its bounties, but for bounties below the   *)
(* existential deposit.                                                    *)
THEOREM ReservedCorrect == Spec => []ReservedIsOwed
<1> DEFINE AllOwed == \A a \in Accounts \ GenesisAuditors : ReservedOwed(a)
<1>1. Init => AllOwed
  <2> SUFFICES ASSUME Init, NEW a \in Accounts, a \notin GenesisAuditors
               PROVE  ReservedOwed(a)
    OBVIOUS
  <2>1. StakeOf(a) = 0 /\ balances[a].reserved = 0 /\ RequestsOf(a) = {}
    BY DEF Init, AuditInit, ExoInit, StakeOf, IsSignedUp, RequestsOf, IsRequested
  <2>2. BountiesOf(RequestsOf(a) \ {}) = 0
    <3> DEFINE f == [h \in {} |-> reviews[h].bounty]
    <3>1. f \in [{} -> Int] /\ RequestsOf(a) \ {} = {}
      BY <2>1
    <3>2. BountiesOf(RequestsOf(a) \ {}) = SumFunction(f)
      BY <3>1, Zenon DEF BountiesOf
    <3> HIDE DEF f
    <3> QED
      BY <3>1, <3>2, SumEmpty
  <2>3. Owed(a, {})
    BY <2>1, <2>2 DEF Owed
  <2> QED
    BY <2>3 DEF ReservedOwed
<1>2. TypeOK /\ TypeOK' /\ AllOwed /\ [Next]_vars => AllOwed'
  <2> SUFFICES ASSUME TypeOK, TypeOK', AllOwed, [Next]_vars,
                      NEW a \in Accounts, a \notin GenesisAuditors
               PROVE  ReservedOwed(a)'
    BY DEF GenesisAuditors
  <2> QED
    BY StepOwed
<1>3. AllOwed => ReservedIsOwed
  BY DEF ReservedIsOwed, ReservedOwed, Owed, Reapable
<1> HIDE DEF AllOwed
<1> QED
  BY <1>1, <1>2, <1>3, TypeCorrect, PTL DEF Spec
-----------------------------------------------------------------------------
(* The action properties of the register hold of the composed system: a    *)
(* verdict is one more game, and a request for a review keeps what every   *)
(* account holds.                                                          *)
LEMMA ExoStepRegister ==
  ASSUME TypeOK, TypeOK', [Next]_vars
  PROVE  BurnsOnlyForfeits /\ \A a \in Accounts : StandingGrows(a)
<1>0. AuditTypeOK /\ AuditTypeOK'
  BY DEF TypeOK
<1>1. CASE [AuditNext]_auditVars
  BY <1>0, <1>1, StepBurns, StepGrowsStanding
<1>2. ASSUME NEW a \in Accounts, NEW h \in Hashes, NEW bounty \in Bounties,
             NEW score \in MinScores, RequestReview(a, h, bounty, score)
      PROVE  BurnsOnlyForfeits /\ \A x \in Accounts : StandingGrows(x)
  <2>0. /\ balances \in [Accounts -> Balance] /\ balances' \in [Accounts -> Balance]
        /\ bounty \in Nat
    BY <1>0, ExoAssumption DEF AuditTypeOK
  <2>1. balances' = Reserve(balances, a, bounty) /\ UNCHANGED auditorMap
    BY <1>2 DEF RequestReview
  <2>2. /\ Total(balances'[a]) = Total(balances[a])
        /\ \A x \in Accounts \ {a} : balances'[x] = balances[x]
    BY <2>0, <2>1, ReserveTotal
  <2>3. /\ Issuance(balances) \in Int
        /\ Issuance(balances') = Issuance(balances) - Total(balances[a]) + Total(balances'[a])
    BY <2>0, <2>2, IssuanceOneChanged
  <2>4. Total(balances[a]) \in Int
    BY <2>0 DEF Total, Balance
  <2>5. Issuance(balances') = Issuance(balances)
    BY <2>2, <2>3, <2>4
  <2>6. \A x \in Accounts : IsSignedUp(x) => IsSignedUp(x)'
    BY <2>1 DEF IsSignedUp
  <2>7. BurnsOnlyForfeits
    BY <1>0, <2>5, <2>6, NothingBurnt
  <2>8. ASSUME NEW x \in Accounts PROVE StandingGrows(x)
    <3>1. (IsPending(x)' <=> IsPending(x)) /\ auditorMap'[x].approvedBy = auditorMap[x].approvedBy
      BY <2>1 DEF IsPending, IsSignedUp
    <3> QED
      BY <1>0, <3>1, StandingGrowsKept
  <2> QED
    BY <2>7, <2>8
<1>3. ASSUME NEW h \in Hashes, NEW r \in ReportId, NEW c \in ChallengeId, Verdict(h, r, c)
      PROVE  AuditNext
  BY <1>3, VerdictIsGame DEF AuditNext
<1> QED
  BY <1>1, <1>2, <1>3
     DEF Next, ExoNext, vars, ReviewInvalid, ReviewReport, ChallengeReport

(* No request, report, challenge or verdict demotes an auditor or loses an *)
(* approval, burns or creates value, or creates or loses score.            *)
THEOREM RegisterStepsCorrect ==
  Spec => StandingSurvives /\ OnlyForfeitsBurn /\ GamesConserveScore
<1>1. TypeOK /\ TypeOK' /\ [Next]_vars => BurnsOnlyForfeits /\ \A a \in Accounts : StandingGrows(a)
  BY ExoStepRegister
<1>2. TypeOK =>
        [gamesPlayed' # gamesPlayed /\ NoScoreAtTheEdge => ConservesScore]_auditVars
  BY GameConserves, Zenon DEF TypeOK
<1>3. Spec => StandingSurvives
  BY <1>1, TypeCorrect, PTL DEF Spec, StandingSurvives, StandingGrows
<1>4. Spec => OnlyForfeitsBurn
  BY <1>1, TypeCorrect, PTL DEF Spec, OnlyForfeitsBurn, BurnsOnlyForfeits
<1>5. Spec => GamesConserveScore
  BY <1>2, TypeCorrect, PTL DEF Spec, GamesConserveScore, ConservesScore
<1> QED
  BY <1>3, <1>4, <1>5
-----------------------------------------------------------------------------
(* Register.  Of fewer than three different approvals, two are needed for  *)
(* two different approvers.                                                *)
LEMMA TwoApprovers ==
  ASSUME NEW S, NEW s \in Seq(S), Len(s) < 3,
         \A i, j \in DOMAIN s : s[i] = s[j] => i = j
  PROVE  (\E x, y \in {s[i] : i \in DOMAIN s} : x # y) <=> Len(s) = 2
<1>1. Len(s) \in Nat /\ DOMAIN s = 1 .. Len(s)
  OBVIOUS
<1>2. CASE Len(s) = 0
  BY <1>1, <1>2
<1>3. CASE Len(s) = 1
  BY <1>1, <1>3
<1>4. CASE Len(s) = 2
  <2>1. DOMAIN s = {1, 2}
    BY <1>1, <1>4
  <2>2. s[2] # s[1]
    BY <2>1
  <2> QED
    BY <1>4, <2>1, <2>2
<1>5. Len(s) = 0 \/ Len(s) = 1 \/ Len(s) = 2
  <2>1. \A n \in Nat : n < 3 => n = 0 \/ n = 1 \/ n = 2
    OBVIOUS
  <2> QED
    BY <1>1, <2>1, Zenon
<1> QED
  BY <1>2, <1>3, <1>4, <1>5

(* What the register shows of an account depends on these three facts of   *)
(* its entry alone.                                                        *)
LEMMA SameEntry ==
  ASSUME NEW a \in Accounts,
         IsSignedUp(a)' <=> IsSignedUp(a),
         IsPending(a)' <=> IsPending(a),
         IsSignedUp(a) => auditorMap'[a].approvedBy = auditorMap[a].approvedBy
  PROVE  StandingOf(a)' = StandingOf(a) /\ ApproversOf(a)' = ApproversOf(a)
<1>1. StandingOf(a)' = StandingOf(a)
  BY Zenon DEF StandingOf
<1>2. ApproversOf(a)' = ApproversOf(a)
  BY DEF ApproversOf
<1> QED
  BY <1>1, <1>2

LEMMA SameRegister ==
  ASSUME \A a \in Accounts : StandingOf(a)' = StandingOf(a) /\ ApproversOf(a)' = ApproversOf(a)
  PROVE  UNCHANGED Reg!registerVars
BY DEF Reg!registerVars, Standing, Approvers

(* At genesis the auditors of the configuration are the founders.          *)
LEMMA InitRegister == AuditInit => Reg!Init
<1> SUFFICES ASSUME AuditInit PROVE Reg!Init
  OBVIOUS
<1>1. ASSUME NEW a \in Accounts
      PROVE  /\ StandingOf(a) = IF a \in GenesisAuditors THEN "auditor" ELSE "absent"
             /\ ApproversOf(a) = {}
  <2>1. PICK profile \in Profiles :
          auditorMap[a] = IF a \in GenesisAuditors THEN GenesisEntry(a, profile)
                                                   ELSE NotSignedUp
    BY DEF AuditInit
  <2>2. CASE a \in GenesisAuditors
    <3>1. /\ auditorMap[a].approvedBy = << >>
          /\ auditorMap[a].score = GenesisScore[a]
          /\ auditorMap[a] \in AuditorData
      BY <2>1, <2>2, AuditAssumption DEF GenesisEntry, AuditorData
    <3>2. IsSignedUp(a) /\ ~IsPending(a)
      BY <2>2, <3>1, AuditAssumption, EloAssumption DEF Score, IsSignedUp, IsPending
    <3>3. ApproversOf(a) = {}
      BY <3>1 DEF ApproversOf
    <3> QED
      BY <2>2, <3>2, <3>3 DEF StandingOf
  <2>3. CASE a \notin GenesisAuditors
    BY <2>1, <2>3 DEF StandingOf, ApproversOf, IsSignedUp, IsPending
  <2> QED
    BY <2>2, <2>3
<1> QED
  BY <1>1 DEF Reg!Init, Standing, Approvers

(* An entry that one call changes, with all others left as they are.       *)
LEMMA OthersKept ==
  ASSUME NEW a \in Accounts, auditorMap'[a] = auditorMap[a]
  PROVE  StandingOf(a)' = StandingOf(a) /\ ApproversOf(a)' = ApproversOf(a)
BY SameEntry DEF IsSignedUp, IsPending

LEMMA SignUpEnters ==
  ASSUME AuditTypeOK, NEW a \in Accounts, NEW profile \in Profiles, SignUp(a, profile)
  PROVE  Reg!Enter(a)
<1>1. NewAuditor(profile) \in AuditorData
  BY DEF NewAuditor, AuditorData
<1>2. auditorMap'[a] = NewAuditor(profile) /\ auditorMap[a] = NotSignedUp
  BY DEF SignUp, AuditTypeOK, IsSignedUp
<1>3. /\ StandingOf(a) = "absent" /\ StandingOf(a)' = "candidate"
      /\ ApproversOf(a) = {} /\ ApproversOf(a)' = {}
  BY <1>1, <1>2, AuditAssumption DEF StandingOf, ApproversOf, IsSignedUp, IsPending, NewAuditor
<1>4. ASSUME NEW x \in Accounts, x # a
      PROVE  StandingOf(x)' = StandingOf(x) /\ ApproversOf(x)' = ApproversOf(x)
  BY <1>4, OthersKept DEF SignUp, AuditTypeOK
<1> QED
  BY <1>3, <1>4 DEF Reg!Enter, Standing, Approvers

LEMMA CancelLeaves ==
  ASSUME AuditTypeOK, NEW a \in Accounts, CancelAccount(a)
  PROVE  Reg!Leave(a)
<1>1. auditorMap'[a] = NotSignedUp /\ IsSignedUp(a)
  BY DEF CancelAccount, AuditTypeOK
<1>2. StandingOf(a) # "absent" /\ StandingOf(a)' = "absent" /\ ApproversOf(a)' = {}
  BY <1>1 DEF IsPending, StandingOf, ApproversOf, IsSignedUp
<1>3. ASSUME NEW x \in Accounts, x # a
      PROVE  StandingOf(x)' = StandingOf(x) /\ ApproversOf(x)' = ApproversOf(x)
  BY <1>3, OthersKept DEF CancelAccount, AuditTypeOK
<1> QED
  BY <1>2, <1>3 DEF Reg!Leave, Standing, Approvers

(* approve_auditor adds one approver, and makes an auditor of the          *)
(* candidate when there were two before.                                   *)
LEMMA ApprovalApproves ==
  ASSUME AuditTypeOK, ApprovedByThreeOthers, NEW by \in Accounts, NEW a \in Accounts,
         ApproveAuditor(by, a)
  PROVE  Reg!Approve(by, a)
<1> DEFINE old == auditorMap[a].approvedBy
           new == auditorMap'[a].approvedBy
<1>1. /\ IsAuditor(by) /\ IsPending(a) /\ IsSignedUp(a) /\ by # a
      /\ \A i \in DOMAIN old : old[i] # by
  BY DEF ApproveAuditor, MayApprove, HasEnoughRank, HasApprovalOf, IsAuditor, IsPending
<1>2. auditorMap[a] \in AuditorData /\ auditorMap'[a] = WithApproval(auditorMap[a], by)
  BY <1>1 DEF ApproveAuditor, AuditTypeOK, IsSignedUp
<1>3. old \in Seq(Accounts) /\ Len(old) \in Nat /\ Len(old) < 3
  BY <1>1, <1>2 DEF ApprovedByThreeOthers, AuditorData, ApprovalsNeeded
<1>4. /\ new = Append(old, by)
      /\ auditorMap'[a].score = ScoreAfterApproval(Len(old) + 1)
      /\ auditorMap'[a] \in AuditorData
  <2>1. ScoreAfterApproval(Len(old) + 1) \in Score \cup {NoScore}
    BY AuditAssumption DEF ScoreAfterApproval
  <2>2. Append(old, by) \in Seq(Accounts)
    BY <1>3
  <2> QED
    BY <1>2, <2>1, <2>2 DEF WithApproval, AuditorData
<1>5. IsSignedUp(a)'
  BY <1>4, AuditAssumption DEF IsSignedUp
<1>6. ApproversOf(a)' = ApproversOf(a) \cup {by} /\ by \notin ApproversOf(a)
  <2>1. /\ DOMAIN old = 1 .. Len(old)
        /\ DOMAIN new = 1 .. Len(old) + 1
        /\ \A i \in 1 .. Len(old) : new[i] = old[i]
        /\ new[Len(old) + 1] = by
    BY <1>3, <1>4
  <2> HIDE DEF old, new
  <2>2. {new[i] : i \in DOMAIN new} = {old[i] : i \in DOMAIN old} \cup {by}
    BY <1>3, <2>1
  <2>3. /\ ApproversOf(a)' = {new[i] : i \in DOMAIN new}
        /\ ApproversOf(a) = {old[i] : i \in DOMAIN old}
    BY <1>1, <1>5 DEF ApproversOf, old, new
  <2> QED
    BY <1>1, <2>2, <2>3
<1>7. (\E x, y \in ApproversOf(a) : x # y) <=> Len(old) = 2
  <2>1. ApproversOf(a) = {old[i] : i \in DOMAIN old}
    BY <1>1 DEF ApproversOf
  <2>2. \A i, j \in DOMAIN old : old[i] = old[j] => i = j
    BY <1>1 DEF ApprovedByThreeOthers
  <2> HIDE DEF old, new
  <2>3. (\E x, y \in {old[i] : i \in DOMAIN old} : x # y) <=> Len(old) = 2
    BY <1>3, <2>2, TwoApprovers, Zenon
  <2> QED
    BY <2>1, <2>3, Zenon
<1>8. IsPending(a)' <=> Len(old) # 2
  <2>1. InitialAuditorScore # NoScore
    BY AuditAssumption, EloAssumption DEF Score
  <2> HIDE DEF old, new
  <2>2. Len(old) + 1 = 3 <=> Len(old) = 2
    <3>1. \A n \in Nat : n + 1 = 3 <=> n = 2
      OBVIOUS
    <3> QED
      BY <1>3, <3>1, Zenon
  <2>3. auditorMap'[a].score = NoScore <=> Len(old) # 2
    BY <1>4, <2>1, <2>2 DEF ScoreAfterApproval, ApprovalsNeeded
  <2> QED
    BY <1>5, <2>3, Zenon DEF IsPending
<1>9. /\ StandingOf(by) = "auditor" /\ StandingOf(a) = "candidate"
      /\ StandingOf(a)' = IF Len(old) = 2 THEN "auditor" ELSE "candidate"
  BY <1>1, <1>5, <1>8 DEF StandingOf, IsAuditor, IsPending
<1>10. ASSUME NEW x \in Accounts, x # a
       PROVE  StandingOf(x)' = StandingOf(x) /\ ApproversOf(x)' = ApproversOf(x)
  BY <1>10, OthersKept DEF ApproveAuditor, AuditTypeOK
<1>11. Approvers' = [Approvers EXCEPT ![a] = @ \cup {by}]
  BY <1>6, <1>10 DEF Approvers
<1>12. /\ Standing[by] = "auditor" /\ Standing[a] = "candidate"
       /\ by \notin Approvers[a]
       /\ Reg!HasTwoApprovers(a) <=> Len(old) = 2
  BY <1>6, <1>7, <1>9 DEF Standing, Approvers, Reg!HasTwoApprovers
<1> HIDE DEF old, new
<1>13. Standing' = [Standing EXCEPT ![a] = IF Reg!HasTwoApprovers(a) THEN "auditor" ELSE @]
  BY <1>9, <1>10, <1>12 DEF Standing
<1> QED
  BY <1>11, <1>12, <1>13 DEF Reg!Approve

(* Every call on the register is one step of the abstract one, or none.    *)
LEMMA StepRegister ==
  AuditTypeOK /\ AuditTypeOK' /\ ApprovedByThreeOthers /\ [AuditNext]_auditVars
    => [Reg!Next]_Reg!registerVars
<1> SUFFICES ASSUME AuditTypeOK, AuditTypeOK', ApprovedByThreeOthers, [AuditNext]_auditVars
             PROVE  Reg!Next \/ UNCHANGED Reg!registerVars
  BY DEF Reg!registerVars
<1>1. ASSUME NEW a \in Accounts, NEW profile \in Profiles, SignUp(a, profile)
      PROVE  Reg!Next
  BY <1>1, SignUpEnters DEF Reg!Next
<1>2. ASSUME NEW a \in Accounts, NEW profile \in Profiles, UpdateProfile(a, profile)
      PROVE  UNCHANGED Reg!registerVars
  <2>1. ASSUME NEW x \in Accounts
        PROVE  StandingOf(x)' = StandingOf(x) /\ ApproversOf(x)' = ApproversOf(x)
    <3>1. CASE x = a
      <4>1. /\ auditorMap[x] \in AuditorData
            /\ auditorMap'[x] = WithProfile(auditorMap[x], profile)
        BY <1>2, <3>1 DEF UpdateProfile, IsSignedUp, AuditTypeOK
      <4>2. /\ auditorMap'[x] \in AuditorData
            /\ auditorMap'[x].score = auditorMap[x].score
            /\ auditorMap'[x].approvedBy = auditorMap[x].approvedBy
        BY <4>1 DEF WithProfile, AuditorData
      <4>3. (IsSignedUp(x)' <=> IsSignedUp(x)) /\ (IsPending(x)' <=> IsPending(x))
        BY <4>1, <4>2, AuditAssumption DEF IsSignedUp, IsPending
      <4> QED
        BY <4>2, <4>3, SameEntry
    <3>2. CASE x # a
      BY <1>2, <3>2, OthersKept DEF UpdateProfile, AuditTypeOK
    <3> QED
      BY <3>1, <3>2
  <2> QED
    BY <2>1, SameRegister
<1>3. ASSUME NEW a \in Accounts, CancelAccount(a)
      PROVE  Reg!Next
  BY <1>3, CancelLeaves DEF Reg!Next
<1>4. ASSUME NEW sender \in Accounts, NEW candidate \in Accounts,
             ApproveAuditor(sender, candidate)
      PROVE  Reg!Next
  BY <1>4, ApprovalApproves DEF Reg!Next
<1>5. ASSUME NEW p0 \in Accounts, NEW p1 \in Accounts, NEW winner \in Winner,
             GameResult(p0, p1, winner)
      PROVE  UNCHANGED Reg!registerVars
  <2>1. ASSUME NEW x \in Accounts
        PROVE  StandingOf(x)' = StandingOf(x) /\ ApproversOf(x)' = ApproversOf(x)
    <3>1. ApplyResult(p0, p1, winner)
      BY <1>5 DEF GameResult
    <3>2. /\ IsSignedUp(x)' <=> IsSignedUp(x)
          /\ IsPending(x)' <=> IsPending(x)
          /\ IsSignedUp(x) => auditorMap'[x].approvedBy = auditorMap[x].approvedBy
      BY <3>1, ResultKeepsStanding
    <3> QED
      BY <3>2, SameEntry
  <2> QED
    BY <2>1, SameRegister
<1>6. CASE UNCHANGED auditorMap
  <2>1. ASSUME NEW x \in Accounts
        PROVE  StandingOf(x)' = StandingOf(x) /\ ApproversOf(x)' = ApproversOf(x)
    BY <1>6, OthersKept
  <2> QED
    BY <2>1, SameRegister
<1> QED
  BY <1>1, <1>2, <1>3, <1>4, <1>5, <1>6 DEF AuditNext, Transfer, auditVars

(* The audit pallet implements the abstract register: whatever the genesis *)
(* configuration and the calls, an account comes in as a candidate, and is *)
(* an auditor by three different auditors or by the configuration.         *)
THEOREM AuditKeepsRegister == AuditSpec => RegisterKept
<1>1. AuditInit => Reg!Init
  BY InitRegister
<1>2. AuditTypeOK /\ AuditTypeOK' /\ ApprovedByThreeOthers /\ [AuditNext]_auditVars
        => [Reg!Next]_Reg!registerVars
  BY StepRegister
<1> QED
  BY <1>1, <1>2, AuditTypeCorrect, ApprovalsCorrect, PTL DEF AuditSpec, RegisterKept, Reg!Spec

(* A step of the two pallets together, seen by the register.               *)
LEMMA ComposedStepRegister ==
  TypeOK /\ TypeOK' /\ ApprovedByThreeOthers /\ [Next]_vars => [Reg!Next]_Reg!registerVars
<1> SUFFICES ASSUME TypeOK, TypeOK', ApprovedByThreeOthers, [Next]_vars
             PROVE  [Reg!Next]_Reg!registerVars
  OBVIOUS
<1>0. AuditTypeOK /\ AuditTypeOK'
  BY DEF TypeOK
<1>1. CASE [AuditNext]_auditVars
  BY <1>0, <1>1, StepRegister
<1>2. ASSUME NEW a \in Accounts, NEW h \in Hashes, NEW bounty \in Bounties,
             NEW score \in MinScores, RequestReview(a, h, bounty, score)
      PROVE  UNCHANGED Reg!registerVars
  <2>1. UNCHANGED auditorMap
    BY <1>2 DEF RequestReview
  <2>2. ASSUME NEW x \in Accounts
        PROVE  StandingOf(x)' = StandingOf(x) /\ ApproversOf(x)' = ApproversOf(x)
    BY <2>1, OthersKept
  <2> QED
    BY <2>2, SameRegister
<1>3. ASSUME NEW h \in Hashes, NEW r \in ReportId, NEW c \in ChallengeId, Verdict(h, r, c)
      PROVE  AuditNext
  BY <1>3, VerdictIsGame DEF AuditNext
<1>4. ASSUME UNCHANGED Reg!registerVars PROVE [Reg!Next]_Reg!registerVars
  BY <1>4
<1> QED
  BY <1>1, <1>2, <1>3, <1>4 DEF Next, ExoNext, vars, ReviewInvalid, ReviewReport, ChallengeReport

(* The composed system implements the same abstract register: reviews,     *)
(* reports, challenges and verdicts make nobody an auditor and unmake none.*)
THEOREM RegisterImplemented == Spec => RegisterKept
<1>1. Init => Reg!Init
  BY InitRegister DEF Init
<1>2. TypeOK /\ TypeOK' /\ ApprovedByThreeOthers /\ [Next]_vars
        => [Reg!Next]_Reg!registerVars
  BY ComposedStepRegister
<1> QED
  BY <1>1, <1>2, TypeCorrect, RegisterCorrect, PTL DEF Spec, RegisterKept, Reg!Spec
-----------------------------------------------------------------------------
(* Docket.  What is on the docket, and what is there after a step.         *)
LEMMA InFiled ==
  /\ \A x : x \in Filed <=> \E h \in Hashes : \E i \in DOMAIN reports[h] : x = ReportOf(h, i)
  /\ \A x : x \in Filed' <=> \E h \in Hashes : \E i \in DOMAIN reports'[h] : x = ReportOf(h, i)'
<1>1. \A x : x \in Filed <=> \E h \in Hashes : \E i \in DOMAIN reports[h] : x = ReportOf(h, i)
  BY DEF Filed
<1>2. \A x : x \in Filed' <=> \E h \in Hashes : \E i \in DOMAIN reports'[h] : x = ReportOf(h, i)'
  BY DEF Filed
<1> QED
  BY <1>1, <1>2

(* A challenge on record is one of a report by its id and position.        *)
IsClaim(x, h, r, i) == i \in DOMAIN challenges[h][r] /\ x = ClaimOf(h, r, i)

LEMMA InClaims ==
  /\ \A x : x \in Claims <=> \E h \in Hashes, r \in ReportId : \E i : IsClaim(x, h, r, i)
  /\ \A x : x \in Claims' <=> \E h \in Hashes, r \in ReportId : \E i : IsClaim(x, h, r, i)'
<1>1. ASSUME NEW x
      PROVE  x \in Claims <=> \E h \in Hashes, r \in ReportId : \E i : IsClaim(x, h, r, i)
  <2>1. ASSUME x \in Claims
        PROVE  \E h \in Hashes, r \in ReportId : \E i : IsClaim(x, h, r, i)
    <3>1. PICK at \in Hashes \X ReportId :
            x \in {ClaimOf(at[1], at[2], i) : i \in DOMAIN challenges[at[1]][at[2]]}
      BY <2>1 DEF Claims
    <3>2. at[1] \in Hashes /\ at[2] \in ReportId
      OBVIOUS
    <3> QED
      BY <3>1, <3>2 DEF IsClaim
  <2>2. ASSUME NEW h \in Hashes, NEW r \in ReportId, NEW i, IsClaim(x, h, r, i)
        PROVE  x \in Claims
    <3> DEFINE at == <<h, r>>
    <3>1. at \in Hashes \X ReportId /\ at[1] = h /\ at[2] = r
      OBVIOUS
    <3> HIDE DEF at
    <3>2. x \in {ClaimOf(at[1], at[2], j) : j \in DOMAIN challenges[at[1]][at[2]]}
      BY <2>2, <3>1 DEF IsClaim
    <3> QED
      BY <3>1, <3>2 DEF Claims
  <2> QED
    BY <2>1, <2>2
<1>2. ASSUME NEW x
      PROVE  x \in Claims' <=> \E h \in Hashes, r \in ReportId : \E i : IsClaim(x, h, r, i)'
  <2>1. ASSUME x \in Claims'
        PROVE  \E h \in Hashes, r \in ReportId : \E i : IsClaim(x, h, r, i)'
    <3>1. PICK at \in Hashes \X ReportId :
            x \in {ClaimOf(at[1], at[2], i)' : i \in DOMAIN challenges'[at[1]][at[2]]}
      BY <2>1 DEF Claims
    <3>2. at[1] \in Hashes /\ at[2] \in ReportId
      OBVIOUS
    <3> QED
      BY <3>1, <3>2 DEF IsClaim
  <2>2. ASSUME NEW h \in Hashes, NEW r \in ReportId, NEW i, IsClaim(x, h, r, i)'
        PROVE  x \in Claims'
    <3> DEFINE at == <<h, r>>
    <3>1. at \in Hashes \X ReportId /\ at[1] = h /\ at[2] = r
      OBVIOUS
    <3> HIDE DEF at
    <3>2. x \in {ClaimOf(at[1], at[2], j)' : j \in DOMAIN challenges'[at[1]][at[2]]}
      BY <2>2, <3>1 DEF IsClaim
    <3> QED
      BY <3>1, <3>2 DEF Claims
  <2> QED
    BY <2>1, <2>2
<1> QED
  BY <1>1, <1>2

(* A package, an author and a challenger name one challenge: by position.  *)
LEMMA ClaimKeyed ==
  ASSUME TypeOK, ChallengersAreOthers, VulnerabilitiesMatchReports,
         NEW h \in Hashes, NEW r \in ReportId, NEW q \in ReportId, NEW i, NEW j,
         i \in DOMAIN challenges[h][r], j \in DOMAIN challenges[h][q],
         ReportAuditor(h, r) = ReportAuditor(h, q),
         challenges[h][r][i].auditor = challenges[h][q][j].auditor
  PROVE  r = q /\ i = j
<1>1. challenges[h][r] # << >> /\ challenges[h][q] # << >>
  OBVIOUS
<1>2. r + 1 \in DOMAIN reports[h] /\ q + 1 \in DOMAIN reports[h]
  BY <1>1 DEF ChallengersAreOthers, ReportExists
<1>3. r + 1 = q + 1
  BY <1>2 DEF VulnerabilitiesMatchReports, ReportAuditor
<1>4. r = q
  BY <1>3, ExoAssumption DEF ReportId
<1> QED
  BY <1>4 DEF ChallengersAreOthers

(* The challenges stay on the docket as long as their reports keep their   *)
(* authors.                                                                *)
LEMMA SameClaims ==
  ASSUME ChallengersAreOthers, UNCHANGED challenges,
         \A h \in Hashes, r \in ReportId :
           ReportExists(h, r) => ReportAuditor(h, r)' = ReportAuditor(h, r)
  PROVE  Claims' = Claims
<1>1. ASSUME NEW x, NEW h \in Hashes, NEW r \in ReportId, NEW i
      PROVE  IsClaim(x, h, r, i)' <=> IsClaim(x, h, r, i)
  <2>1. CASE i \in DOMAIN challenges[h][r]
    <3>1. challenges[h][r] # << >>
      BY <2>1
    <3>2. ReportAuditor(h, r)' = ReportAuditor(h, r)
      BY <3>1 DEF ChallengersAreOthers
    <3> QED
      BY <3>2 DEF IsClaim, ClaimOf
  <2>2. CASE i \notin DOMAIN challenges[h][r]
    BY <2>2 DEF IsClaim
  <2> QED
    BY <2>1, <2>2
<1>2. \A x : x \in Claims' <=> x \in Claims
  BY <1>1, InClaims, Zenon
<1> QED
  BY <1>2

LEMMA SameFiled ==
  ASSUME UNCHANGED <<reports, vulnerabilities>>
  PROVE  Filed' = Filed
BY DEF Filed, ReportOf

-----------------------------------------------------------------------------
(* request_review puts a package on the docket that was not there.         *)
LEMMA RequestOnDocket ==
  ASSUME TypeOK, ChallengersAreOthers,
         NEW a \in Accounts, NEW h \in Hashes, NEW bounty \in Bounties,
         NEW score \in MinScores, RequestReview(a, h, bounty, score)
  PROVE  Dock!Request(h)
<1> DEFINE review == [requestor |-> a, minAuditorScore |-> score, bounty |-> bounty]
<1>1. review # NoReview
  <2>1. review \in Review
    BY DEF Review
  <2> QED
    BY <2>1, ExoAssumption
<1>2. /\ reviews' = [reviews EXCEPT ![h] = review]
      /\ UNCHANGED <<auditorMap, reports, vulnerabilities, challenges>>
      /\ ~IsRequested(h)
  BY DEF RequestReview
<1> HIDE DEF review
<1>3. Requested' = Requested \cup {h}
  <2>1. \A g \in Hashes : IsRequested(g)' <=> IsRequested(g) \/ g = h
    BY <1>1, <1>2 DEF IsRequested, TypeOK, ExoTypeOK
  <2> QED
    BY <2>1 DEF Requested
<1>4. Filed' = Filed /\ Claims' = Claims
  BY <1>2, SameFiled, SameClaims DEF ReportAuditor
<1>5. Auditors' = Auditors
  BY <1>2 DEF Auditors, IsAuditor, IsSignedUp
<1>6. h \notin Requested
  BY <1>2 DEF Requested
<1> QED
  BY <1>3, <1>4, <1>5, <1>6 DEF Dock!Request

(* review_report and review_invalid file the one report of an auditor.     *)
LEMMA ReportOnDocket ==
  ASSUME TypeOK, TypeOK', ChallengersAreOthers,
         NEW a \in Accounts, NEW h \in Hashes, NEW kind \in {"Invalid", "Success"},
         MayReport(a, h), AppendReport(a, h, kind),
         UNCHANGED <<auditVars, reviews, challenges>>,
         \A g \in Hashes, r \in ReportId :
           <<g, r>> # <<h, NewReportId(h)>> => vulnerabilities'[g][r] = vulnerabilities[g][r]
  PROVE  \E found \in VulnerabilityLists \cup {NoVulnerabilities} : Dock!File(h, a, found)
<1>1. PICK n \in Nat : n = NewReportId(h)
  BY DEF NewReportId, TypeOK, ExoTypeOK
<1> DEFINE found == vulnerabilities'[h][n]
           filed == [package |-> h, author |-> a, found |-> found]
<1>2. ExoTypeOK
  BY DEF TypeOK
<1>3. /\ n \in ReportId
      /\ DOMAIN reports[h] = 1 .. n
      /\ DOMAIN reports'[h] = 1 .. n + 1
  BY <1>2, <1>1, ReportAppended
<1>4. /\ reports'[h][n + 1].auditor = a
      /\ \A i \in 1 .. n : reports'[h][i] = reports[h][i] /\ reports[h][i].auditor # a
      /\ \A g \in Hashes \ {h} : reports'[g] = reports[g]
  <2>1. reports'[h][n + 1] = [auditor |-> a, kind |-> kind]
    BY <1>2, <1>1, ReportAppended
  <2>2. \A i \in DOMAIN reports[h] : reports'[h][i] = reports[h][i]
    BY <1>2, ReportAppended
  <2>3. \A i \in DOMAIN reports[h] : reports[h][i].auditor # a
    BY DEF MayReport, HasReported
  <2>4. \A g \in Hashes \ {h} : reports'[g] = reports[g]
    BY <1>2 DEF ExoTypeOK, AppendReport
  <2> QED
    BY <1>3, <2>1, <2>2, <2>3, <2>4
<1>5. n \in Nat /\ ReportId \subseteq Nat
  BY <1>3, ExoAssumption DEF ReportId
<1>6. \A g \in Hashes, r \in ReportId :
        <<g, r>> # <<h, n>> => vulnerabilities'[g][r] = vulnerabilities[g][r]
  BY <1>1
<1>7. found \in VulnerabilityLists \cup {NoVulnerabilities}
  BY <1>3 DEF TypeOK, ExoTypeOK
<1>8. \A i \in 1 .. n : i - 1 \in ReportId /\ i - 1 # n
  BY <1>3, ExoAssumption DEF ReportId
<1>9. ASSUME NEW g \in Hashes, NEW i \in DOMAIN reports[g]
      PROVE  i \in DOMAIN reports'[g] /\ ReportOf(g, i)' = ReportOf(g, i)
  <2>1. CASE g = h
    <3>1. i \in 1 .. n /\ i \in 1 .. n + 1
      BY <1>3, <1>5, <2>1
    <3>2. reports'[h][i] = reports[h][i]
      BY <1>4, <3>1
    <3>3. vulnerabilities'[h][i - 1] = vulnerabilities[h][i - 1]
      BY <1>6, <1>8, <3>1
    <3> QED
      BY <1>3, <2>1, <3>1, <3>2, <3>3 DEF ReportOf
  <2>2. CASE g # h
    <3>1. reports'[g] = reports[g]
      BY <1>4, <2>2
    <3>2. i - 1 \in ReportId
      BY <1>2, ExoAssumption DEF ExoTypeOK, ReportId
    <3>3. vulnerabilities'[g][i - 1] = vulnerabilities[g][i - 1]
      BY <1>6, <2>2, <3>2
    <3> QED
      BY <3>1, <3>3 DEF ReportOf
  <2> QED
    BY <2>1, <2>2
<1>10. ReportOf(h, n + 1)' = filed
  <2>1. n + 1 - 1 = n
    BY <1>5
  <2> QED
    BY <1>4, <2>1 DEF ReportOf
<1>11. Filed' = Filed \cup {filed}
  <2> HIDE DEF filed
  <2>1. ASSUME NEW x \in Filed' PROVE x \in Filed \cup {filed}
    <3>1. PICK g \in Hashes : \E i \in DOMAIN reports'[g] : x = ReportOf(g, i)'
      BY InFiled
    <3>2. PICK i \in DOMAIN reports'[g] : x = ReportOf(g, i)'
      BY <3>1
    <3>3. CASE g = h /\ i = n + 1
      BY <1>10, <3>2, <3>3
    <3>4. CASE ~(g = h /\ i = n + 1)
      <4>1. i \in DOMAIN reports[g]
        <5>1. CASE g # h
          BY <1>4, <5>1
        <5>2. CASE g = h
          <6>1. i \in 1 .. n + 1 /\ i # n + 1
            BY <1>3, <3>4, <5>2
          <6>2. i \in 1 .. n
            BY <1>5, <6>1
          <6> QED
            BY <1>3, <5>2, <6>2
        <5> QED
          BY <5>1, <5>2
      <4> QED
        BY <1>9, <3>2, <4>1, InFiled
    <3> QED
      BY <3>3, <3>4
  <2>2. ASSUME NEW x \in Filed PROVE x \in Filed'
    <3>1. PICK g \in Hashes : \E i \in DOMAIN reports[g] : x = ReportOf(g, i)
      BY InFiled
    <3>2. PICK i \in DOMAIN reports[g] : x = ReportOf(g, i)
      BY <3>1
    <3> QED
      BY <1>9, <3>2, InFiled
  <2>3. filed \in Filed'
    <3>1. n + 1 \in DOMAIN reports'[h]
      BY <1>3, <1>5
    <3> QED
      BY <1>10, <3>1, InFiled
  <2> QED
    BY <2>1, <2>2, <2>3
<1>12. ~\E x \in Filed : x.package = h /\ x.author = a
  <2> SUFFICES ASSUME NEW x \in Filed, x.package = h, x.author = a PROVE FALSE
    OBVIOUS
  <2>1. PICK g \in Hashes : \E i \in DOMAIN reports[g] : x = ReportOf(g, i)
    BY InFiled
  <2>2. PICK i \in DOMAIN reports[g] : x = ReportOf(g, i)
    BY <2>1
  <2>3. g = h /\ reports[h][i].auditor = a
    BY <2>2 DEF ReportOf
  <2> QED
    BY <1>3, <1>4, <2>3
<1>13. Claims' = Claims
  <2>1. ASSUME NEW g \in Hashes, NEW r \in ReportId, ReportExists(g, r)
        PROVE  ReportAuditor(g, r)' = ReportAuditor(g, r)
    <3>1. r + 1 \in DOMAIN reports[g]
      BY <2>1 DEF ReportExists
    <3>2. reports'[g][r + 1] = reports[g][r + 1]
      BY <1>3, <1>4, <3>1
    <3> QED
      BY <3>2 DEF ReportAuditor
  <2> QED
    BY <2>1, SameClaims
<1>14. Auditors' = Auditors /\ Requested' = Requested
  BY DEF auditVars, Auditors, IsAuditor, IsSignedUp, Requested, IsRequested
<1> QED
  BY <1>7, <1>11, <1>12, <1>13, <1>14 DEF Dock!File

(* An author has one report on a package: its id follows from the author.  *)
LEMMA ReportKeyed ==
  ASSUME VulnerabilitiesMatchReports, NEW h \in Hashes, NEW r \in ReportId, NEW q \in ReportId,
         ReportExists(h, r), ReportExists(h, q), ReportAuditor(h, r) = ReportAuditor(h, q)
  PROVE  r = q
<1>1. r + 1 = q + 1
  BY DEF VulnerabilitiesMatchReports, ReportAuditor, ReportExists
<1> QED
  BY <1>1, ExoAssumption DEF ReportId

(* challenge_report adds the one challenge of an auditor to a report of    *)
(* somebody else.                                                          *)
LEMMA ChallengeOnDocket ==
  ASSUME TypeOK, ChallengersAreOthers, VulnerabilitiesMatchReports,
         NEW a \in Accounts, NEW h \in Hashes, NEW r \in ReportId, ChallengeReport(a, h, r)
  PROVE  \E x \in Filed : Dock!Claim(x.package, x.author, a)
<1>0. PICK author, new, raised :
        /\ author = ReportAuditor(h, r)
        /\ raised = [auditor |-> a, state |-> "Pending"]
        /\ new = [package |-> h, author |-> author, by |-> a, state |-> "Pending"]
  OBVIOUS
<1>1. UNCHANGED <<auditVars, reviews, reports, vulnerabilities>>
  BY DEF ChallengeReport
<1>2. /\ ReportExists(h, r)
      /\ author # a
      /\ \A i \in DOMAIN challenges[h][r] : challenges[h][r][i].auditor # a
  BY <1>0 DEF ChallengeReport, MayChallenge, HasChallenged
<1>3. PICK n \in Nat : n = Len(challenges[h][r])
  BY DEF TypeOK, ExoTypeOK
<1>4. /\ DOMAIN challenges[h][r] = 1 .. n
      /\ DOMAIN challenges'[h][r] = 1 .. n + 1
      /\ \A i \in 1 .. n : challenges'[h][r][i] = challenges[h][r][i]
      /\ \A g \in Hashes, q \in ReportId :
           <<g, q>> # <<h, r>> => challenges'[g][q] = challenges[g][q]
  BY <1>3, ChallengeAppended DEF TypeOK
<1>5. challenges'[h][r][n + 1] = raised
  <2>1. challenges' = [challenges EXCEPT ![h][r] = Append(@, raised)]
    BY <1>0 DEF ChallengeReport
  <2>2. challenges'[h][r] = Append(challenges[h][r], raised)
    BY <2>1 DEF TypeOK, ExoTypeOK
  <2>3. challenges[h][r] \in Seq(Challenge)
    BY DEF TypeOK, ExoTypeOK
  <2> QED
    BY <1>3, <2>2, <2>3
<1>6. \A g \in Hashes, q \in ReportId : ReportAuditor(g, q)' = ReportAuditor(g, q)
  BY <1>1 DEF ReportAuditor
<1>7. IsClaim(new, h, r, n + 1)'
  BY <1>0, <1>3, <1>4, <1>5, <1>6 DEF IsClaim, ClaimOf
<1>8. ASSUME NEW x, NEW g \in Hashes, NEW q \in ReportId, NEW i, IsClaim(x, g, q, i)
      PROVE  IsClaim(x, g, q, i)'
  <2>1. CASE g = h /\ q = r
    <3>1. i \in 1 .. n /\ i \in 1 .. n + 1
      BY <1>3, <1>4, <1>8, <2>1 DEF IsClaim
    <3> QED
      BY <1>4, <1>6, <1>8, <2>1, <3>1 DEF IsClaim, ClaimOf
  <2>2. CASE <<g, q>> # <<h, r>>
    BY <1>4, <1>6, <1>8, <2>2 DEF IsClaim, ClaimOf
  <2> QED
    BY <2>1, <2>2
<1>9. ASSUME NEW x, NEW g \in Hashes, NEW q \in ReportId, NEW i, IsClaim(x, g, q, i)'
      PROVE  IsClaim(x, g, q, i) \/ x = new
  <2>1. CASE g = h /\ q = r
    <3>1. i \in 1 .. n + 1
      BY <1>4, <1>9, <2>1 DEF IsClaim
    <3>2. CASE i = n + 1
      BY <1>7, <1>9, <2>1, <3>2 DEF IsClaim
    <3>3. CASE i # n + 1
      <4>1. i \in 1 .. n
        BY <1>3, <3>1, <3>3
      <4> QED
        BY <1>4, <1>6, <1>9, <2>1, <4>1 DEF IsClaim, ClaimOf
    <3> QED
      BY <3>2, <3>3
  <2>2. CASE <<g, q>> # <<h, r>>
    BY <1>4, <1>6, <1>9, <2>2 DEF IsClaim, ClaimOf
  <2> QED
    BY <2>1, <2>2
<1>10. Claims' = Claims \cup {new}
  <2>1. \A x : x \in Claims' <=> x \in Claims \/ x = new
    <3>1. new \in Claims'
      BY <1>7, InClaims
    <3>2. ASSUME NEW x \in Claims PROVE x \in Claims'
      BY <1>8, InClaims, Zenon
    <3>3. ASSUME NEW x \in Claims' PROVE x \in Claims \/ x = new
      BY <1>9, InClaims, Zenon
    <3> QED
      BY <3>1, <3>2, <3>3
  <2> QED
    BY <2>1
<1>11. ~\E x \in Claims : x.package = h /\ x.author = author /\ x.by = a
  <2> SUFFICES ASSUME NEW x \in Claims, x.package = h, x.author = author, x.by = a
               PROVE  FALSE
    OBVIOUS
  <2>1. PICK g \in Hashes, q \in ReportId : \E i : IsClaim(x, g, q, i)
    BY InClaims
  <2>2. PICK i : IsClaim(x, g, q, i)
    BY <2>1
  <2>3. /\ i \in DOMAIN challenges[g][q]
        /\ g = h /\ ReportAuditor(g, q) = author /\ challenges[g][q][i].auditor = a
    BY <2>2 DEF IsClaim, ClaimOf
  <2>4. ReportExists(h, q)
    <3>1. challenges[h][q] # << >>
      BY <2>3
    <3> QED
      BY <3>1 DEF ChallengersAreOthers
  <2>5. q = r
    BY <1>0, <1>2, <2>3, <2>4, ReportKeyed
  <2> QED
    BY <1>2, <2>3, <2>5
<1>12. ReportOf(h, r + 1) \in Filed
  BY <1>2, InFiled DEF ReportExists
<1>13. ReportOf(h, r + 1).package = h /\ ReportOf(h, r + 1).author = author
  BY <1>0 DEF ReportOf, ReportAuditor
<1>14. Auditors' = Auditors /\ Requested' = Requested /\ Filed' = Filed
  BY <1>1, SameFiled DEF auditVars, Auditors, IsAuditor, IsSignedUp, Requested, IsRequested
<1>15. Dock!Claim(h, author, a)
  BY <1>0, <1>2, <1>10, <1>11, <1>14 DEF Dock!Claim
<1> QED
  BY <1>12, <1>13, <1>15
-----------------------------------------------------------------------------
(* close_challenge, exactly: it changes the state of one challenge.        *)
LEMMA ChallengeDecided ==
  ASSUME TypeOK, NEW h \in Hashes, NEW r \in ReportId, NEW c \in ChallengeId,
         NEW state \in ChallengeState, NEW winner \in Winner,
         CloseChallenge(h, r, c, state, winner)
  PROVE  /\ challenges'[h][r][c + 1].auditor = challenges[h][r][c + 1].auditor
         /\ challenges'[h][r][c + 1].state = state
         /\ \A g \in Hashes, q \in ReportId :
              /\ DOMAIN challenges'[g][q] = DOMAIN challenges[g][q]
              /\ \A i \in DOMAIN challenges[g][q] :
                   <<g, q, i>> # <<h, r, c + 1>> => challenges'[g][q][i] = challenges[g][q][i]
<1> DEFINE old == challenges[h][r]
           new == [old EXCEPT ![c + 1].state = state]
<1>1. old \in Seq(Challenge) /\ c + 1 \in DOMAIN old
  BY DEF CloseChallenge, TypeOK, ExoTypeOK
<1>2. old[c + 1] \in Challenge
  BY <1>1, ElementOfSeq, LenProperties
<1>3. challenges' = [challenges EXCEPT ![h][r] = new]
  BY <1>1 DEF CloseChallenge, TypeOK, ExoTypeOK
<1>4. /\ DOMAIN new = DOMAIN old
      /\ new[c + 1].auditor = old[c + 1].auditor /\ new[c + 1].state = state
      /\ \A i \in DOMAIN old : i # c + 1 => new[i] = old[i]
  BY <1>1, <1>2 DEF Challenge
<1> HIDE DEF old, new
<1>5. /\ challenges'[h][r] = new
      /\ \A g \in Hashes, q \in ReportId :
           <<g, q>> # <<h, r>> => challenges'[g][q] = challenges[g][q]
  BY <1>3 DEF TypeOK, ExoTypeOK
<1>6. ASSUME NEW g \in Hashes, NEW q \in ReportId
      PROVE  /\ DOMAIN challenges'[g][q] = DOMAIN challenges[g][q]
             /\ \A i \in DOMAIN challenges[g][q] :
                  <<g, q, i>> # <<h, r, c + 1>> => challenges'[g][q][i] = challenges[g][q][i]
  <2>1. CASE g = h /\ q = r
    BY <1>4, <1>5, <2>1 DEF old
  <2>2. CASE <<g, q>> # <<h, r>>
    BY <1>5, <2>2
  <2> QED
    BY <2>1, <2>2
<1> QED
  BY <1>4, <1>5, <1>6 DEF old

(* approve_challenge, reject_challenge and remove_challenge decide one     *)
(* challenge whose two sides are both auditors, and no other.              *)
LEMMA VerdictOnDocket ==
  ASSUME TypeOK, TypeOK', ChallengersAreOthers, VulnerabilitiesMatchReports,
         NEW h \in Hashes, NEW r \in ReportId, NEW c \in ChallengeId, Verdict(h, r, c)
  PROVE  \E x \in Claims, state \in {"Accepted", "Rejected", "Removed"} : Dock!Decide(x, state)
<1>1. PICK state \in {"Accepted", "Rejected", "Removed"}, winner \in Winner :
        CloseChallenge(h, r, c, state, winner)
  BY DEF Verdict, ApproveChallenge, RejectChallenge, RemoveChallenge, Winner
<1> DEFINE at  == c + 1
           x   == ClaimOf(h, r, at)
<1>2. PICK new : new = [x EXCEPT !.state = state]
  OBVIOUS
<1>3. UNCHANGED <<reviews, reports, vulnerabilities>>
  BY <1>1 DEF CloseChallenge
<1>4. /\ ReportExists(h, r) /\ at \in DOMAIN challenges[h][r]
      /\ IsAuditor(challenges[h][r][at].auditor) /\ IsAuditor(ReportAuditor(h, r))
  BY <1>1 DEF CloseChallenge, ApplyResult, CanApplyResult
<1>5. /\ challenges'[h][r][at].auditor = challenges[h][r][at].auditor
      /\ challenges'[h][r][at].state = state
      /\ \A g \in Hashes, q \in ReportId :
           /\ DOMAIN challenges'[g][q] = DOMAIN challenges[g][q]
           /\ \A i \in DOMAIN challenges[g][q] :
                <<g, q, i>> # <<h, r, at>> => challenges'[g][q][i] = challenges[g][q][i]
  BY <1>1, ChallengeDecided DEF ChallengeState
<1>6. \A g \in Hashes, q \in ReportId : ReportAuditor(g, q)' = ReportAuditor(g, q)
  BY <1>3 DEF ReportAuditor
<1> HIDE DEF at
<1>7. IsClaim(x, h, r, at)
  BY <1>4 DEF IsClaim
<1>8. new = [package |-> h, author |-> ReportAuditor(h, r),
             by |-> challenges[h][r][at].auditor, state |-> state]
  BY <1>2 DEF ClaimOf
<1> HIDE DEF x
<1>9. ASSUME NEW y, NEW g \in Hashes, NEW q \in ReportId, NEW i
      PROVE  /\ <<g, q, i>> # <<h, r, at>> => (IsClaim(y, g, q, i)' <=> IsClaim(y, g, q, i))
             /\ IsClaim(y, h, r, at)' <=> y = new
  <2>1. ASSUME <<g, q, i>> # <<h, r, at>>
        PROVE  IsClaim(y, g, q, i)' <=> IsClaim(y, g, q, i)
    BY <1>5, <1>6, <2>1 DEF IsClaim, ClaimOf
  <2>2. IsClaim(y, h, r, at)' <=> y = new
    BY <1>4, <1>5, <1>6, <1>8 DEF IsClaim, ClaimOf, at
  <2> QED
    BY <2>1, <2>2
<1>10. ASSUME NEW g \in Hashes, NEW q \in ReportId, NEW i, IsClaim(x, g, q, i)
      PROVE  g = h /\ q = r /\ i = at
  <2>1. /\ i \in DOMAIN challenges[g][q]
        /\ g = h /\ ReportAuditor(g, q) = ReportAuditor(h, r)
        /\ challenges[g][q][i].auditor = challenges[h][r][at].auditor
    BY <1>10 DEF IsClaim, ClaimOf, x
  <2> QED
    BY <1>4, <2>1, ClaimKeyed
<1>11. Claims' = (Claims \ {x}) \cup {new}
  <2>1. ASSUME NEW y \in Claims' PROVE y \in (Claims \ {x}) \cup {new}
    <3>1. PICK g \in Hashes, q \in ReportId : \E i : IsClaim(y, g, q, i)'
      BY InClaims
    <3>2. PICK i : IsClaim(y, g, q, i)'
      BY <3>1
    <3>3. CASE <<g, q, i>> = <<h, r, at>>
      BY <1>9, <3>2, <3>3
    <3>4. CASE <<g, q, i>> # <<h, r, at>>
      <4>1. IsClaim(y, g, q, i)
        BY <1>9, <3>2, <3>4
      <4>2. y \in Claims
        BY <4>1, InClaims
      <4>3. y # x
        BY <1>10, <3>4, <4>1
      <4> QED
        BY <4>2, <4>3
    <3> QED
      BY <3>3, <3>4
  <2>2. ASSUME NEW y \in Claims, y # x PROVE y \in Claims'
    <3>1. PICK g \in Hashes, q \in ReportId : \E i : IsClaim(y, g, q, i)
      BY InClaims
    <3>2. PICK i : IsClaim(y, g, q, i)
      BY <3>1
    <3>3. <<g, q, i>> # <<h, r, at>>
      BY <2>2, <3>2 DEF IsClaim, x
    <3>4. IsClaim(y, g, q, i)'
      BY <1>9, <3>2, <3>3
    <3> QED
      BY <3>4, InClaims
  <2>3. new \in Claims'
    <3>1. IsClaim(new, h, r, at)'
      BY <1>9
    <3> QED
      BY <3>1, InClaims
  <2> QED
    BY <2>1, <2>2, <2>3
<1>12. x \in Claims
  BY <1>7, InClaims
<1>13. PICK p0, p1 \in Accounts :
         /\ p0 = challenges[h][r][at].auditor /\ p1 = ReportAuditor(h, r)
         /\ ApplyResult(p0, p1, winner)
  <2>1. challenges[h][r][at].auditor \in Accounts
    <3>1. challenges[h][r] \in Seq(Challenge) /\ at \in DOMAIN challenges[h][r]
      BY <1>4 DEF TypeOK, ExoTypeOK
    <3>2. challenges[h][r][at] \in Challenge
      BY <3>1, ElementOfSeq, LenProperties
    <3> QED
      BY <3>2 DEF Challenge
  <2>2. ReportAuditor(h, r) \in Accounts
    <3>1. reports[h] \in Seq(Report) /\ r + 1 \in DOMAIN reports[h]
      BY <1>4 DEF ReportExists, TypeOK, ExoTypeOK
    <3>2. reports[h][r + 1] \in Report
      BY <3>1, ElementOfSeq, LenProperties
    <3> QED
      BY <3>2 DEF ReportAuditor, Report
  <2> QED
    BY <1>1, <2>1, <2>2 DEF CloseChallenge, at
<1>14. {x.author, x.by} \subseteq Auditors
  BY <1>4, <1>13 DEF x, ClaimOf, Auditors
<1>15. Auditors' = Auditors
  <2>1. ASSUME NEW a \in Accounts
        PROVE  (IsSignedUp(a)' <=> IsSignedUp(a)) /\ (IsPending(a)' <=> IsPending(a))
    BY <1>13, ResultKeepsStanding DEF TypeOK
  <2>2. \A a \in Accounts : IsAuditor(a)' <=> IsAuditor(a)
    BY <2>1 DEF IsAuditor, IsPending
  <2> QED
    BY <2>2 DEF Auditors
<1>16. Requested' = Requested /\ Filed' = Filed
  BY <1>3, SameFiled DEF Requested, IsRequested
<1> QED
  BY <1>2, <1>11, <1>12, <1>14, <1>15, <1>16 DEF Dock!Decide

-----------------------------------------------------------------------------
(* A step of the two pallets, seen on the docket.                          *)
LEMMA StepDocket ==
  TypeOK /\ TypeOK' /\ ChallengersAreOthers /\ VulnerabilitiesMatchReports /\ [Next]_vars
    => [Dock!Next]_Dock!docketVars
<1> SUFFICES ASSUME TypeOK, TypeOK', ChallengersAreOthers, VulnerabilitiesMatchReports,
                    [Next]_vars
             PROVE  [Dock!Next]_Dock!docketVars
  OBVIOUS
<1>1. CASE UNCHANGED exoVars
  <2>1. Requested' = Requested /\ Filed' = Filed
    BY <1>1, SameFiled DEF exoVars, Requested, IsRequested
  <2>2. Claims' = Claims
    BY <1>1, SameClaims DEF exoVars, ReportAuditor
  <2> QED
    BY <2>1, <2>2 DEF Dock!docketVars
<1>2. ASSUME NEW a \in Accounts, NEW h \in Hashes, NEW bounty \in Bounties,
             NEW score \in MinScores, RequestReview(a, h, bounty, score)
      PROVE  Dock!Next
  BY <1>2, RequestOnDocket DEF Dock!Next
<1>3. ASSUME NEW a \in Accounts, NEW h \in Hashes, MayReport(a, h),
             \E found \in VulnerabilityLists \cup {NoVulnerabilities} : Dock!File(h, a, found)
      PROVE  Dock!Next
  <2>1. h \in Requested /\ a \in Auditors
    BY <1>3 DEF MayReport, MayAudit, HasEnoughRank, Requested, Auditors
  <2> QED
    BY <1>3, <2>1 DEF Dock!Next
<1>4. ASSUME NEW a \in Accounts, NEW h \in Hashes, ReviewInvalid(a, h)
      PROVE  Dock!Next
  <2>1. \E found \in VulnerabilityLists \cup {NoVulnerabilities} : Dock!File(h, a, found)
    BY <1>4, ReportOnDocket DEF ReviewInvalid
  <2> QED
    BY <1>3, <1>4, <2>1 DEF ReviewInvalid
<1>5. ASSUME NEW a \in Accounts, NEW h \in Hashes, NEW list \in VulnerabilityLists,
             ReviewReport(a, h, list)
      PROVE  Dock!Next
  <2>1. \A g \in Hashes, r \in ReportId :
          <<g, r>> # <<h, NewReportId(h)>> => vulnerabilities'[g][r] = vulnerabilities[g][r]
    BY <1>5 DEF ReviewReport, TypeOK, ExoTypeOK
  <2>2. \E found \in VulnerabilityLists \cup {NoVulnerabilities} : Dock!File(h, a, found)
    BY <1>5, <2>1, ReportOnDocket DEF ReviewReport
  <2> QED
    BY <1>3, <1>5, <2>2 DEF ReviewReport
<1>6. ASSUME NEW a \in Accounts, NEW h \in Hashes, NEW r \in ReportId,
             ChallengeReport(a, h, r)
      PROVE  Dock!Next
  <2>1. a \in Auditors
    BY <1>6 DEF ChallengeReport, MayChallenge, MayAudit, HasEnoughRank, Auditors
  <2>2. \E x \in Filed : Dock!Claim(x.package, x.author, a)
    BY <1>6, ChallengeOnDocket
  <2> QED
    BY <2>1, <2>2 DEF Dock!Next
<1>7. ASSUME NEW h \in Hashes, NEW r \in ReportId, NEW c \in ChallengeId, Verdict(h, r, c)
      PROVE  Dock!Next
  BY <1>7, VerdictOnDocket DEF Dock!Next
<1> QED
  BY <1>1, <1>2, <1>4, <1>5, <1>6, <1>7 DEF Next, ExoNext, vars

(* The exo pallet implements the abstract docket: for any number of        *)
(* packages, reports and challenges, the ids and vectors of the code find  *)
(* the one report of an author and the one challenge of a challenger, and  *)
(* every call changes that one and nothing else on record.                 *)
THEOREM DocketImplemented == Spec => DocketKept
<1>1. Init => Dock!Init
  <2>1. ASSUME Init PROVE Requested = {} /\ Filed = {} /\ Claims = {}
    BY <2>1 DEF Init, ExoInit, Requested, IsRequested, Filed, Claims
  <2> QED
    BY <2>1 DEF Dock!Init
<1>2. TypeOK /\ TypeOK' /\ ChallengersAreOthers /\ VulnerabilitiesMatchReports /\ [Next]_vars
        => [Dock!Next]_Dock!docketVars
  BY StepDocket
<1> QED
  BY <1>1, <1>2, TypeCorrect, ChallengersCorrect, VulnerabilitiesCorrect, PTL
     DEF Spec, DocketKept, Dock!Spec
=============================================================================
