------------------------------ MODULE MCAudits ------------------------------
(* Audits for TLC: a proper url has a dot, which a word does not have.     *)
EXTENDS Audits, TLC

CONSTANTS a1, a2, h1, p1

MCReportUrls == {"url", "word"}

MCSeeds == <<[requestor |-> a1, hash |-> h1]>>

MCCharacters == [u \in MCReportUrls |-> IF u = "url" THEN {"letter", "dot", "slash"}
                                                    ELSE {"letter"}]

(* One auditor's page with two accounts, the others have one.              *)
MCWallet == [p \in Pages |-> IF p = p1 THEN <<a1, a2>> ELSE <<a1>>]
=============================================================================
