------------------------------ MODULE TxButton ------------------------------
(***************************************************************************)
(* substrate-lib's TxButton: one button that sends a transaction, or a     *)
(* query, and tells of what comes back through setStatus, by which every   *)
(* press has a subscription.  A press awaits the signer and the node; the  *)
(* inputs, the account and the button itself may change meanwhile, and it  *)
(* may be pressed again.                                                   *)
(***************************************************************************)
EXTENDS Naturals, Sequences

CONSTANTS
  Accounts,
  MaxPresses,    \* bound
  MaxEdits       \* bound: changes of the input and of the account

None == "none"

(* "CONSTANT" reads a constant and subscribes to nothing.                  *)
Sudo == {"SUDO-TX", "UNCHECKED-SUDO-TX"}
Signed == Sudo \cup {"SIGNED-TX"}
Types == Signed \cup {"UNSIGNED-TX", "QUERY", "RPC", "CONSTANT"}

(* An input: missing, empty, all blanks, or some text.                     *)
Inputs == {"null", "", " ", "text"}

VARIABLES
  type,            \* the button's type
  input,           \* the one parameter's input
  currentAccount,
  sudoKey,         \* the account sudo is for, once it is loaded
  unsub,           \* the press whose subscription the button can end; 0 if none
  presses,         \* the presses, in order
  live,            \* presses whose subscription tells of changes
  status,          \* the press that setStatus was called for last
  overlap,         \* a press was made while one was under way
  edits

fixed == <<type, sudoKey>>
vars == <<fixed, input, currentAccount, unsub, presses, live, status, overlap, edits>>

Press == [step : {"signer", "send", "sent"}, input : Inputs,
          account : Accounts \cup {None}, param : Inputs]

Init ==
  /\ type \in Types
  /\ input = "null" /\ currentAccount \in Accounts \cup {None}
  /\ sudoKey \in Accounts \cup {None}
  /\ unsub = 0 /\ presses = << >> /\ live = {} /\ status = 0
  /\ overlap = FALSE /\ edits = 0
-----------------------------------------------------------------------------
Edit ==
  /\ edits < MaxEdits
  /\ edits' = edits + 1
  /\ \/ input' \in Inputs /\ UNCHANGED currentAccount
     \/ currentAccount' \in Accounts /\ UNCHANGED input
  /\ UNCHANGED <<fixed, unsub, presses, live, status, overlap>>

AllParamsFilled == input \notin {"null", ""}

IsSudoer == sudoKey # None /\ currentAccount = sudoKey

Enabled ==
  /\ AllParamsFilled
  /\ type \in Signed => currentAccount # None
  /\ type \in Sudo => IsSudoer

(* transformParams: a string is trimmed, and an empty one is sent as null, *)
(* or not at all by an rpc, here no different.  sudoUncheckedWeight's call *)
(* gets the input as it is.                                                *)
Transformed(i) ==
  IF type = "UNCHECKED-SUDO-TX" \/ i = "text" THEN i ELSE "null"

(* Mistake: the subscription of before is not ended.                       *)
Ended_Kept == {}

Ended == {unsub} \cap DOMAIN presses

(* Mistake: a subscription that was ended is kept.                         *)
AfterEnding_Kept == unsub

AfterEnding == 0

UnderWay == \E p \in DOMAIN presses : presses[p].step # "sent"

(* transaction, up to its first await.                                     *)
Transaction ==
  /\ Enabled /\ Len(presses) < MaxPresses
  /\ presses' = Append(presses,
       [step |-> IF type = "CONSTANT" THEN "sent"
                 ELSE IF type \in Signed THEN "signer" ELSE "send",
        input |-> input, account |-> currentAccount, param |-> "null"])
  /\ live' = live \ Ended
  /\ unsub' = AfterEnding
  /\ status' = Len(presses')
  /\ overlap' = (overlap \/ UnderWay)
  /\ UNCHANGED <<fixed, input, currentAccount, edits>>

(* Mistake: the call is built with the inputs of now.                      *)
InputOf_Now(p) == input

(* The input of the render the button was pressed in.                      *)
InputOf(p) == presses[p].input

(* getFromAcct has the signer: the call is built and goes to be signed.    *)
GotSigner(p) ==
  /\ presses[p].step = "signer"
  /\ presses' = [presses EXCEPT ![p] = [@ EXCEPT !.step = "send",
                                                !.param = Transformed(InputOf(p))]]
  /\ UNCHANGED <<fixed, input, currentAccount, unsub, live, status, overlap, edits>>

SentParam(p) == IF type \in Signed THEN presses[p].param ELSE Transformed(InputOf(p))

(* The subscription is there.  sudoTx and uncheckedSudoTx keep the promise *)
(* of its end, which is no function, so nothing ends it.                   *)
Subscribed(p) ==
  /\ presses[p].step = "send"
  /\ presses' = [presses EXCEPT ![p] = [@ EXCEPT !.step = "sent", !.param = SentParam(p)]]
  /\ live' = live \cup {p}
  /\ unsub' = IF type \in Sudo THEN 0 ELSE p
  /\ UNCHANGED <<fixed, input, currentAccount, status, overlap, edits>>

(* txErrHandler tells of the failure; there is nothing to end.  A query    *)
(* that fails is not caught and tells of nothing.                          *)
Failed(p) ==
  /\ presses[p].step = "send"
  /\ presses' = [presses EXCEPT ![p] = [@ EXCEPT !.step = "sent", !.param = SentParam(p)]]
  /\ IF type \in {"QUERY", "RPC"} THEN UNCHANGED <<unsub, status>>
     ELSE /\ unsub' = 0
          /\ status' = p
  /\ UNCHANGED <<fixed, input, currentAccount, live, overlap, edits>>

(* txResHandler or queryResHandler.                                        *)
SetStatusState(p) ==
  /\ p \in live
  /\ status' = p
  /\ UNCHANGED <<fixed, input, currentAccount, unsub, presses, live, overlap, edits>>

Next ==
  \/ Edit \/ Transaction
  \/ \E p \in DOMAIN presses :
       GotSigner(p) \/ Subscribed(p) \/ Failed(p) \/ SetStatusState(p)

Spec == Init /\ [][Next]_vars
-----------------------------------------------------------------------------
TypeOK ==
  /\ type \in Types /\ sudoKey \in Accounts \cup {None}
  /\ input \in Inputs /\ currentAccount \in Accounts \cup {None}
  /\ presses \in Seq(Press) /\ Len(presses) <= MaxPresses
  /\ live \subseteq {p \in DOMAIN presses : presses[p].step = "sent"}
  /\ unsub \in {0} \cup live
  /\ status \in 0 .. Len(presses)
  /\ overlap \in BOOLEAN /\ edits \in 0 .. MaxEdits

(* TxButton: setStatus tells of the latest press, and never again of one   *)
(* before it, unless presses overlapped or the call is sudo's, where the   *)
(* subscription is a promise and cannot be ended.                          *)
StatusIsLatest ==
  type \notin Sudo /\ ~overlap => status = Len(presses)

(* TxButton: what is sent is what the user saw when he pressed, for all he *)
(* changes while he signs: no call goes out without the text that was      *)
(* there.                                                                  *)
CallsAreAsPressed ==
  \A p \in DOMAIN presses :
    presses[p].step = "sent" /\ type # "CONSTANT" =>
      /\ presses[p].input \in {" ", "text"}
      /\ presses[p].input = "text" => presses[p].param = "text"
=============================================================================
