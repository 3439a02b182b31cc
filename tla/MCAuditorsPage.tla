--------------------------- MODULE MCAuditorsPage ---------------------------
(* AuditorsPage for TLC.                                                   *)
EXTENDS AuditorsPage
=============================================================================
