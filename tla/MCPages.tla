------------------------------ MODULE MCPages ------------------------------
(* Pages for TLC: one member in the council, two challenges of two audits. *)
EXTENDS Pages, TLC

CONSTANTS c1, c2, h1, h2

MCAuditOf == [c \in {c1, c2} |-> IF c = c1 THEN h1 ELSE h2]

MCSymmetry == Permutations(Candidates) \cup Permutations(Reports)
=============================================================================
