----------------------------- MODULE Connection -----------------------------
(***************************************************************************)
(* The state all pages share, SubstrateContext, with App, which shows a    *)
(* page only when it is complete, AccountSelector and BalanceAnnotation:   *)
(* the connection to the node, the accounts, the one selected, and its     *)
(* balance.  A connection may fail or drop at any time; WsProvider opens   *)
(* it again by itself.  Each dispatch is rendered at once, so the page is  *)
(* taken down and put up again at every reconnection.                      *)
(***************************************************************************)
EXTENDS Naturals, Sequences

CONSTANTS
  Accounts,      \* accounts of the wallet
  Amounts,       \* balances an account may have
  MaxFailures,   \* bound: attempts to connect that fail, and drops
  MaxPicks,      \* bound: accounts the user picks
  MaxTransfers   \* bound: changes of a balance

None == "none"

ASSUME ConnectionAssumption ==
  /\ None \notin Accounts \cup Amounts
  /\ {MaxFailures, MaxPicks, MaxTransfers} \subseteq Nat

VARIABLES
  link,            \* the websocket: "opening", "up" or "down"
  ready,           \* the api's isReady is resolved
  apiState,
  keyringState,
  loading,         \* what asyncLoadAccounts awaits: "none", "extension" or "chain"
  loads,           \* how often accounts were loaded
  currentAccount,
  chosen,          \* what the user chose: the account picked last, or the initial one
  crashed,         \* App failed to render
  free,            \* balances on the chain
  sub,             \* the balance subscription: its account, and if it is there
  leaving,         \* subscriptions cleaned up before they were there, so not ended
  leaked,          \* the same, there by now
  callbacks,       \* balances to be told
  accountBalance,
  failures, picks, transfers

connection == <<link, ready, failures>>
accounts == <<currentAccount, chosen, picks>>
keyring == <<keyringState, loading, loads>>
balance == <<sub, leaving, leaked, callbacks, accountBalance>>
chain == <<free, transfers>>
vars == <<connection, apiState, keyring, accounts, crashed, chain, balance>>

(* connect runs in the first render and has dispatched CONNECT_INIT.       *)
Init ==
  /\ link = "opening" /\ ready = FALSE /\ apiState = "CONNECT_INIT"
  /\ keyringState = "null" /\ loading = "none" /\ loads = 0
  /\ currentAccount = None /\ chosen = None /\ crashed = FALSE
  /\ free \in [Accounts -> Amounts]
  /\ sub = [of |-> None, there |-> FALSE]
  /\ leaving = {} /\ leaked = {} /\ callbacks = << >> /\ accountBalance = None
  /\ failures = 0 /\ picks = 0 /\ transfers = 0

(* What App renders.                                                       *)
ViewOf(api, keys) ==
  CASE api = "ERROR" -> "waiting for connection"
    [] api \notin {"ERROR", "READY"} -> "connecting"
    [] api = "READY" /\ keys # "READY" -> "loading accounts"
    [] api = "READY" /\ keys = "READY" -> "page"

View == ViewOf(apiState, keyringState)

(* BalanceAnnotation starts over with a page, and is gone with it: what it *)
(* subscribed to finds no component to tell.                               *)
Rendered(api, keys) ==
  LET shown == ViewOf(api, keys) = "page" IN
  IF shown = (View = "page") THEN UNCHANGED balance
  ELSE /\ sub' = [of |-> IF shown THEN currentAccount ELSE None, there |-> FALSE]
       /\ leaving' = {} /\ leaked' = {} /\ callbacks' = << >> /\ accountBalance' = None
-----------------------------------------------------------------------------
(* The listener of "connected"; also at every reconnection.                *)
Connected ==
  /\ ~crashed /\ link # "up"
  /\ link' = "up"
  /\ apiState' = "CONNECTING"
  /\ Rendered("CONNECTING", keyringState)
  /\ UNCHANGED <<ready, failures, keyring, accounts, crashed, chain>>

(* Mistake: only the listener of "ready", which comes once.                *)
MaySucceed_Ready == ~ready

(* isReady.then follows a reconnection too, "ready" does not.              *)
MaySucceed == TRUE

ConnectSuccess ==
  /\ ~crashed /\ link = "up" /\ apiState = "CONNECTING" /\ MaySucceed
  /\ ready' = TRUE
  /\ apiState' = "READY"
  /\ Rendered("READY", keyringState)
  /\ UNCHANGED <<link, failures, keyring, accounts, crashed, chain>>

Fails ==
  /\ ~crashed /\ failures < MaxFailures
  /\ failures' = failures + 1
  /\ link' = "down"

(* The socket cannot be opened: CONNECT_ERROR.                             *)
ConnectError ==
  /\ link # "up" /\ Fails
  /\ apiState' = "ERROR"
  /\ Rendered("ERROR", keyringState)
  /\ UNCHANGED <<ready, keyring, accounts, crashed, chain>>

(* A drop before the api is ready is an error of the api, that has no      *)
(* socket to name: App's message throws.  Later nothing listens to a drop, *)
(* but the requests under way fail.  (isReady.then of a reconnection is    *)
(* run before anything else can happen.)                                   *)
Disconnected ==
  /\ link = "up" /\ Fails
  /\ ready => apiState # "CONNECTING"
  /\ crashed' = ~ready
  /\ keyringState' = IF loading = "chain" THEN "ERROR" ELSE keyringState
  /\ loading' = IF loading = "chain" THEN "none" ELSE loading
  /\ UNCHANGED <<ready, apiState, loads, accounts, chain, balance>>
-----------------------------------------------------------------------------
(* Mistake: accounts are loaded whenever the connection is ready.          *)
MayLoad_Ready == apiState = "READY" /\ loading = "none" /\ keyringState # "READY"

(* keyringLoadAll is never reset.                                          *)
MayLoad == apiState = "READY" /\ keyringState = "null" /\ loads = 0

LoadKeyring ==
  /\ ~crashed /\ MayLoad
  /\ loads' = loads + 1
  /\ keyringState' = "LOADING"
  /\ loading' = "extension"
  /\ UNCHANGED <<connection, apiState, accounts, crashed, chain, balance>>

(* web3Enable and web3Accounts are there; the chain's type is asked for,   *)
(* which fails at once without a connection: KEYRING_ERROR.                *)
ExtensionAnswers ==
  /\ ~crashed /\ loading = "extension"
  /\ loading' = IF link = "up" THEN "chain" ELSE "none"
  /\ keyringState' = IF link = "up" THEN keyringState ELSE "ERROR"
  /\ UNCHANGED <<connection, apiState, loads, accounts, crashed, chain, balance>>

SetKeyring ==
  /\ ~crashed /\ loading = "chain" /\ link = "up"
  /\ loading' = "none"
  /\ keyringState' = "READY"
  /\ Rendered(apiState, "READY")
  /\ UNCHANGED <<connection, apiState, loads, accounts, crashed, chain>>
-----------------------------------------------------------------------------
(* Mistake: the effect does not depend on the account.                     *)
Resubscribes_Once(a) == currentAccount = None /\ a # None

Resubscribes(a) == a # currentAccount

(* The effect of the account in BalanceAnnotation: the last subscription   *)
(* is ended if there is a function to end it with.                         *)
Selected(a) ==
  /\ currentAccount' = a
  /\ IF ~Resubscribes(a) THEN UNCHANGED balance
     ELSE /\ sub' = [of |-> a, there |-> FALSE]
          /\ leaving' = leaving \cup (IF sub.there \/ sub.of = None THEN {} ELSE {sub.of})
          /\ UNCHANGED <<leaked, callbacks, accountBalance>>

(* Mistake: a new page starts with the initial account.                    *)
NeedsAccount_NewPage == currentAccount = None \/ (sub.of = currentAccount /\ ~sub.there)

NeedsAccount == currentAccount = None

(* AccountSelector's effect, at every render of a page.                    *)
InitialAccount(a) ==
  /\ ~crashed /\ View = "page" /\ NeedsAccount
  /\ Selected(a)
  /\ chosen' = IF chosen = None THEN a ELSE chosen
  /\ UNCHANGED <<connection, apiState, keyring, picks, crashed, chain>>

PickAccount(a) ==
  /\ ~crashed /\ View = "page" /\ picks < MaxPicks
  /\ picks' = picks + 1
  /\ Selected(a)
  /\ chosen' = a
  /\ UNCHANGED <<connection, apiState, keyring, crashed, chain>>
-----------------------------------------------------------------------------
Subscribed ==
  /\ ~crashed /\ link = "up" /\ sub.of # None /\ ~sub.there
  /\ sub' = [sub EXCEPT !.there = TRUE]
  /\ callbacks' = Append(callbacks, free[sub.of])
  /\ UNCHANGED <<connection, apiState, keyring, accounts, crashed, chain, leaving, leaked,
                 accountBalance>>

Leaks(a) ==
  /\ ~crashed /\ link = "up"
  /\ leaving' = leaving \ {a}
  /\ leaked' = leaked \cup {a}
  /\ callbacks' = Append(callbacks, free[a])
  /\ UNCHANGED <<connection, apiState, keyring, accounts, crashed, chain, sub, accountBalance>>

SetAccountBalance ==
  /\ ~crashed /\ callbacks # << >>
  /\ accountBalance' = Head(callbacks)
  /\ callbacks' = Tail(callbacks)
  /\ UNCHANGED <<connection, apiState, keyring, accounts, crashed, chain, sub, leaving, leaked>>

Tells(a) == link = "up" /\ ((sub.there /\ sub.of = a) \/ a \in leaked)

Transfer(a) ==
  /\ transfers < MaxTransfers
  /\ transfers' = transfers + 1
  /\ \E b \in Amounts \ {free[a]} :
       /\ free' = [free EXCEPT ![a] = b]
       /\ callbacks' = IF Tells(a) THEN Append(callbacks, b) ELSE callbacks
  /\ UNCHANGED <<connection, apiState, keyring, accounts, crashed, sub, leaving, leaked,
                 accountBalance>>

Next ==
  \/ Connected \/ ConnectSuccess \/ ConnectError \/ Disconnected
  \/ LoadKeyring \/ ExtensionAnswers \/ SetKeyring
  \/ \E a \in Accounts : InitialAccount(a) \/ PickAccount(a) \/ Transfer(a)
  \/ Subscribed \/ SetAccountBalance
  \/ \E a \in leaving : Leaks(a)

(* WsProvider tries again until it is connected, the node answers, the     *)
(* user reviews the extension's authorization, and effects are run.        *)
Fairness ==
  /\ WF_vars(Connected) /\ WF_vars(ConnectSuccess)
  /\ WF_vars(LoadKeyring) /\ WF_vars(ExtensionAnswers) /\ WF_vars(SetKeyring)
  /\ WF_vars(Subscribed) /\ WF_vars(SetAccountBalance)
  /\ WF_vars(\E a \in Accounts : InitialAccount(a))

Spec == Init /\ [][Next]_vars

FairSpec == Spec /\ Fairness
-----------------------------------------------------------------------------
(* The types of the state; accounts are loaded once at most, a second      *)
(* Keyring.loadAll would throw; and only a page has a subscription.        *)
TypeOK ==
  /\ link \in {"opening", "up", "down"} /\ ready \in BOOLEAN /\ crashed \in BOOLEAN
  /\ apiState \in {"CONNECT_INIT", "CONNECTING", "READY", "ERROR"}
  /\ keyringState \in {"null", "LOADING", "READY", "ERROR"}
  /\ loading \in {"none", "extension", "chain"} /\ loads \in 0 .. 1
  /\ currentAccount \in Accounts \cup {None} /\ chosen \in Accounts \cup {None}
  /\ free \in [Accounts -> Amounts]
  /\ sub \in [of : Accounts \cup {None}, there : BOOLEAN]
  /\ leaving \subseteq Accounts /\ leaked \subseteq Accounts
  /\ callbacks \in Seq(Amounts) /\ accountBalance \in Amounts \cup {None}
  /\ sub.of # None => View = "page"
  /\ failures \in 0 .. MaxFailures /\ picks \in 0 .. MaxPicks
  /\ transfers \in 0 .. MaxTransfers

(* AccountSelector: the account all pages use is the one the user picked   *)
(* last, through all reconnections and the new pages they bring.           *)
SelectionIsKept == currentAccount = chosen

(* BalanceAnnotation: what is shown is the balance of the current account, *)
(* once its subscription is there and has told all it had to, and if the   *)
(* page left none behind it could not end.                                 *)
BalanceAgrees ==
  (~crashed /\ link = "up" /\ sub.there /\ callbacks = << >> /\ leaving \cup leaked = {})
    => sub.of = currentAccount /\ accountBalance = free[currentAccount]

(* SubstrateContext: whatever the connection goes through, there is a page *)
(* again, with the balance of its account, unless the accounts could not   *)
(* be loaded or the page could not be rendered.                            *)
PageComesBack ==
  []<>(crashed \/ keyringState = "ERROR" \/ (View = "page" /\ accountBalance # None))
=============================================================================
