-------------------------------- MODULE Elo ---------------------------------
(***************************************************************************)
(* audit-pallet/src/elo_comp.rs: the score update of a won challenge, with *)
(* k = 32.                                                                 *)
(*                                                                         *)
(* The code computes in the fixed point type I33F31 and rounds.  Rounding  *)
(* 32 / (1 + 10^(d/400)) for an integer difference d is counting how many  *)
(* of 32 thresholds d does not pass: the k-th is the last integer d at     *)
(* which that quotient is at least k - 1/2, that is                        *)
(*      d <= 400 * log10((65 - 2k) / (2k - 1)).                            *)
(* No threshold before rounding down is closer than 0.1 to an integer, far *)
(* more than the error of the fixed point computation.                     *)
(***************************************************************************)
EXTENDS Integers, FiniteSets

CONSTANTS
  ScoreModulus,  \* 2^32 in the code: scores are u32
  EloMaxGap      \* the largest score gap for which 10^(gap/400) fits I33F31

ASSUME EloAssumption ==
  /\ ScoreModulus \in Nat \ {0}
  /\ EloMaxGap \in Nat

Score == 0 .. ScoreModulus - 1

K == 32

Threshold ==
  << 719, 523, 428, 364, 314, 273, 237, 205, 176, 149, 124, 100, 77, 54, 32, 10,
     -11, -33, -55, -78, -101, -125, -150, -177, -206, -238, -274, -315, -365,
     -429, -524, -720 >>

(* K times the expected result of a player whose opponent is d points      *)
(* above it, rounded.                                                      *)
ExpectedShare(d) == Cardinality({i \in 1 .. K : d <= Threshold[i]})

(* pow returns an error when the gap is too large for the fixed point type *)
EloDefined(winner, looser) ==
  /\ winner - looser <= EloMaxGap
  /\ looser - winner <= EloMaxGap

(* to_num: a release build (the runtime's) wraps what does not fit u32     *)
ToScore(x) == x % ScoreModulus

WinnerNewScore(winner, looser) ==
  ToScore(winner + (K - ExpectedShare(looser - winner)))

LooserNewScore(winner, looser) ==
  ToScore(looser - ExpectedShare(winner - looser))
=============================================================================
