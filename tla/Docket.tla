------------------------------- MODULE Docket -------------------------------
(***************************************************************************)
(* What the exo pallet promises about its record, without ids, bounds,     *)
(* bounties and scores: a package comes under review once, an auditor      *)
(* reports on it once, any other auditor challenges that report once, and  *)
(* a verdict is on one challenge and leaves the others as they are.        *)
(*                                                                         *)
(* A report is known by its package and author, a challenge by these and   *)
(* its challenger: what the code looks up by ids it may as well look up by *)
(* who sent it.  Who is an auditor is for the register to say, and changes *)
(* at any time.                                                            *)
(*                                                                         *)
(* ExoPallet implements this specification (DocketKept).                   *)
(***************************************************************************)
CONSTANTS Hashes, Findings

VARIABLES
  auditors,    \* who is an auditor
  requested,   \* packages under review
  filed,       \* reports: the package, the author and what was found
  claims       \* challenges: the package, the author, who challenged and the state

docketVars == <<requested, filed, claims>>

Init == requested = {} /\ filed = {} /\ claims = {}

(* Auditors come and go; the docket does not change.                       *)
RegisterChanges == UNCHANGED docketVars

Request(h) ==
  /\ h \notin requested
  /\ requested' = requested \cup {h}
  /\ UNCHANGED <<auditors, filed, claims>>

File(h, a, found) ==
  /\ ~\E x \in filed : x.package = h /\ x.author = a
  /\ filed' = filed \cup {[package |-> h, author |-> a, found |-> found]}
  /\ UNCHANGED <<auditors, requested, claims>>

Claim(h, a, c) ==
  /\ a # c
  /\ ~\E x \in claims : x.package = h /\ x.author = a /\ x.by = c
  /\ claims' = claims \cup {[package |-> h, author |-> a, by |-> c, state |-> "Pending"]}
  /\ UNCHANGED <<auditors, requested, filed>>

(* A verdict may be given again.  Both sides must still be auditors.       *)
Decide(x, state) ==
  /\ {x.author, x.by} \subseteq auditors
  /\ claims' = (claims \ {x}) \cup {[x EXCEPT !.state = state]}
  /\ UNCHANGED <<auditors, requested, filed>>

Next ==
  \/ RegisterChanges
  \/ \E h \in Hashes : Request(h)
  \/ \E h \in requested, a \in auditors, found \in Findings : File(h, a, found)
  \/ \E x \in filed, c \in auditors : Claim(x.package, x.author, c)
  \/ \E x \in claims, state \in {"Accepted", "Rejected", "Removed"} : Decide(x, state)

Spec == Init /\ [][Next]_docketVars
=============================================================================
