---------------------------- MODULE MCTxAndPost -----------------------------
(* TxAndPost for TLC: two ways to fill in the form, two submissions and one *)
(* fork, so that a submission is included twice while another is signed.   *)
EXTENDS TxAndPost
=============================================================================
