------------------------------ MODULE MCExoSysd ------------------------------
(* ExoSysd for TLC: three requests, two of them with the same url, two for *)
(* the same package.                                                       *)
EXTENDS ExoSysd, TLC

CONSTANTS h1, h2, u1, u2

MCNameOf == [u \in Urls |-> u]

Event(n, u, h) == [name |-> n, url |-> u, hash |-> h]

MCEvents ==
  {Event("ExecutionRequest", u1, h1), Event("ExecutionRequest", u1, h2),
   Event("ExecutionRequest", u2, h2), Event("ReviewRequest", u1, h1)}

(* What the exo pallet of this runtime deposits.                           *)
MCRuntimeEvents == {Event("ReviewRequest", u1, h1)}
=============================================================================
