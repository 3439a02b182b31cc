-------------------------- MODULE ConnectionProofs --------------------------
(***************************************************************************)
(* Theorems about Connection, for any wallet, any balances and any number  *)
(* of failures, picks and transfers.                                       *)
(***************************************************************************)
EXTENDS Connection, SequenceTheorems, TLAPS

(* What is shown when all that is due has been told.                       *)
Latest == IF callbacks = << >> THEN accountBalance ELSE callbacks[Len(callbacks)]

ValuesOK ==
  /\ callbacks \in Seq(Amounts)
  /\ free \in [Accounts -> Amounts]
  /\ currentAccount \in Accounts \cup {None}
  /\ sub \in [of : Accounts \cup {None}, there : BOOLEAN]
  /\ leaving \subseteq Accounts

(* A page has a subscription for the account selected, and nothing else    *)
(* has one.                                                                *)
SubFollows ==
  /\ sub.of = IF View = "page" THEN currentAccount ELSE None
  /\ sub.there => sub.of # None

(* While the connection is up, what is due last is the balance there is.   *)
LatestAgrees ==
  (link = "up" /\ sub.there /\ leaving \cup leaked = {}) => Latest = free[sub.of]

LoadingIsShown == loading # "none" => keyringState = "LOADING"

IInv == ValuesOK /\ SelectionIsKept /\ SubFollows /\ LatestAgrees
-----------------------------------------------------------------------------
LEMMA AppendedIsLatest ==
  ASSUME callbacks \in Seq(Amounts), NEW b \in Amounts, callbacks' = Append(callbacks, b)
  PROVE  callbacks' \in Seq(Amounts) /\ Latest' = b
<1>1. /\ callbacks' \in Seq(Amounts) /\ Len(callbacks') = Len(callbacks) + 1
      /\ callbacks'[Len(callbacks) + 1] = b
  BY AppendProperties
<1>2. callbacks' # << >>
  BY <1>1, EmptySeq
<1>3. QED
  BY <1>1, <1>2 DEF Latest

(* A page is shown when the connection and the accounts are ready.         *)
LEMMA PageShown ==
  /\ View = "page" <=> apiState = "READY" /\ keyringState = "READY"
  /\ (View = "page")' <=> (apiState = "READY" /\ keyringState = "READY")'
BY DEF View, ViewOf

(* A page that comes or goes starts over with no balance and nothing due;  *)
(* while it stays, so does what it is told, if the connection is not new.  *)
LEMMA RenderedKeeps ==
  ASSUME IInv, Rendered(apiState', keyringState'),
         UNCHANGED <<free, currentAccount, chosen>>,
         link' = "up" /\ View' = "page" => link = "up"
  PROVE  IInv'
<1>1. View' = ViewOf(apiState', keyringState')
  BY DEF View
<1>2. CASE (View' = "page") = (View = "page")
  <2>1. UNCHANGED balance
    BY <1>1, <1>2 DEF Rendered
  <2>2. ValuesOK' /\ SelectionIsKept' /\ SubFollows'
    BY <1>2, <2>1 DEF IInv, ValuesOK, SelectionIsKept, SubFollows, balance
  <2>3. LatestAgrees'
    BY <1>2, <2>1 DEF IInv, ValuesOK, SubFollows, LatestAgrees, Latest, balance
  <2>4. QED
    BY <2>2, <2>3 DEF IInv
<1>3. CASE (View' = "page") # (View = "page")
  <2>1. /\ sub' = [of |-> IF View' = "page" THEN currentAccount ELSE None, there |-> FALSE]
        /\ leaving' = {} /\ callbacks' = << >>
    BY <1>1, <1>3 DEF Rendered
  <2>2. QED
    BY <2>1 DEF IInv, ValuesOK, SelectionIsKept, SubFollows, LatestAgrees
<1>4. QED
  BY <1>2, <1>3

(* The account chosen becomes the current one, and what it is subscribed   *)
(* to is not there yet.                                                    *)
LEMMA SelectedKeeps ==
  ASSUME IInv, NEW a \in Accounts, View = "page", Selected(a), chosen' = a,
         UNCHANGED <<link, apiState, keyringState, free>>
  PROVE  IInv'
<1>1. View' = "page" /\ sub.of = currentAccount
  BY DEF View, IInv, SubFollows
<1>2. CASE a = currentAccount
  <2>1. UNCHANGED balance /\ currentAccount' = currentAccount
    BY <1>2 DEF Selected, Resubscribes
  <2>2. QED
    BY <1>1, <1>2, <2>1
       DEF IInv, ValuesOK, SelectionIsKept, SubFollows, LatestAgrees, Latest, balance
<1>3. CASE a # currentAccount
  <2>1. /\ currentAccount' = a /\ sub' = [of |-> a, there |-> FALSE]
        /\ leaving' \subseteq leaving \cup ({sub.of} \ {None})
        /\ callbacks' = callbacks
    BY <1>3 DEF Selected, Resubscribes
  <2>2. leaving' \subseteq Accounts
    BY <2>1 DEF IInv, ValuesOK
  <2>3. QED
    BY <1>1, <2>1, <2>2 DEF IInv, ValuesOK, SelectionIsKept, SubFollows, LatestAgrees
<1>4. QED
  BY <1>2, <1>3

(* What a subscription that is there is told first is the balance.         *)
LEMMA SubscribedKeeps ==
  ASSUME IInv, Subscribed
  PROVE  IInv'
<1>1. /\ sub \in [of : Accounts \cup {None}, there : BOOLEAN] /\ sub.of \in Accounts
      /\ sub' = [sub EXCEPT !.there = TRUE]
      /\ UNCHANGED <<link, apiState, keyringState, currentAccount, chosen, free, leaving>>
  BY DEF IInv, ValuesOK, Subscribed, connection, keyring, accounts, chain
<1>2. sub' \in [of : Accounts \cup {None}, there : BOOLEAN] /\ sub'.of = sub.of
  BY <1>1
<1>3. callbacks' \in Seq(Amounts) /\ Latest' = free[sub.of]
  BY <1>1, AppendedIsLatest DEF IInv, ValuesOK, Subscribed
<1>4. View' = View /\ sub.of # None
  BY <1>1 DEF View, Subscribed
<1>5. QED
  BY <1>1, <1>2, <1>3, <1>4 DEF IInv, ValuesOK, SelectionIsKept, SubFollows, LatestAgrees

LEMMA LeaksKeeps ==
  ASSUME IInv, NEW a \in leaving, Leaks(a)
  PROVE  IInv'
<1>1. a \in leaked' /\ leaving' \subseteq Accounts
      /\ UNCHANGED <<link, apiState, keyringState, currentAccount, chosen, free, sub>>
  BY DEF IInv, ValuesOK, Leaks, connection, keyring, accounts, chain
<1>2. free[a] \in Amounts
  BY DEF IInv, ValuesOK
<1>3. callbacks' \in Seq(Amounts)
  BY <1>2, AppendedIsLatest DEF IInv, ValuesOK, Leaks
<1>4. View' = View
  BY <1>1 DEF View
<1>5. QED
  BY <1>1, <1>3, <1>4 DEF IInv, ValuesOK, SelectionIsKept, SubFollows, LatestAgrees

(* What comes last stays so when what comes first is taken from the front. *)
LEMMA LastOfRest ==
  ASSUME NEW S, NEW s \in Seq(S), NEW t \in Seq(S), s # << >>,
         Len(t) = Len(s) - 1, \A i \in 1 .. Len(t) : t[i] = s[i + 1]
  PROVE  s[Len(s)] = IF t = << >> THEN s[1] ELSE t[Len(t)]
<1>1. Len(s) \in Nat \ {0} /\ Len(t) \in Nat
  BY EmptySeq
<1>2. CASE t = << >>
  <2>1. Len(t) = 0
    BY <1>2
  <2>2. Len(s) = 1
    BY <1>1, <2>1
  <2>3. QED
    BY <1>2, <2>2
<1>3. CASE t # << >>
  <2>1. Len(t) \in 1 .. Len(t) /\ Len(t) + 1 = Len(s)
    BY <1>1, <1>3, EmptySeq
  <2>2. QED
    BY <1>3, <2>1
<1>4. QED
  BY <1>2, <1>3

LEMMA LastOfTail ==
  ASSUME NEW S, NEW s \in Seq(S), s # << >>
  PROVE  /\ Tail(s) \in Seq(S)
         /\ s[Len(s)] = IF Tail(s) = << >> THEN Head(s) ELSE Tail(s)[Len(Tail(s))]
<1>1. Tail(s) \in Seq(S)
  BY HeadTailProperties
<1>2. Head(s) = s[1]
  OBVIOUS
<1>3. s[Len(s)] = IF Tail(s) = << >> THEN s[1] ELSE Tail(s)[Len(Tail(s))]
  BY <1>1, HeadTailProperties, LastOfRest, Zenon
<1>4. QED
  BY <1>1, <1>2, <1>3

LEMMA BalanceKeeps ==
  ASSUME IInv, SetAccountBalance
  PROVE  IInv'
<1>1. callbacks \in Seq(Amounts) /\ callbacks # << >>
  BY DEF IInv, ValuesOK, SetAccountBalance
<1>2. /\ callbacks' = Tail(callbacks) /\ accountBalance' = Head(callbacks)
      /\ UNCHANGED <<link, apiState, keyringState, currentAccount, chosen, free, sub,
                     leaving, leaked>>
  BY DEF SetAccountBalance, connection, keyring, accounts, chain
<1>3. callbacks' \in Seq(Amounts) /\ Latest' = Latest
  BY <1>1, <1>2, LastOfTail DEF Latest
<1>4. View' = View
  BY <1>2 DEF View
<1>5. QED
  BY <1>2, <1>3, <1>4 DEF IInv, ValuesOK, SelectionIsKept, SubFollows, LatestAgrees

(* A change is told last, if it is the subscribed account's and there is a *)
(* connection; without one, nothing is claimed until there is a new page.  *)
LEMMA TransferKeeps ==
  ASSUME IInv, NEW a \in Accounts, Transfer(a)
  PROVE  IInv'
<1>1. PICK b \in Amounts :
        /\ free' = [free EXCEPT ![a] = b]
        /\ callbacks' = IF Tells(a) THEN Append(callbacks, b) ELSE callbacks
  BY DEF Transfer
<1>2. UNCHANGED <<link, apiState, keyringState, currentAccount, chosen, sub, leaving, leaked,
                  accountBalance>>
  BY DEF Transfer, connection, keyring, accounts
<1>3. View' = View /\ free' \in [Accounts -> Amounts] /\ free'[a] = b
  BY <1>1, <1>2 DEF View, IInv, ValuesOK
<1>4. CASE Tells(a)
  <2>1. callbacks' \in Seq(Amounts) /\ Latest' = b
    BY <1>1, <1>4, AppendedIsLatest DEF IInv, ValuesOK
  <2>2. LatestAgrees'
    BY <1>2, <1>3, <1>4, <2>1 DEF LatestAgrees, Tells
  <2>3. QED
    BY <1>2, <1>3, <2>1, <2>2 DEF IInv, ValuesOK, SelectionIsKept, SubFollows
<1>5. CASE ~Tells(a)
  <2>1. callbacks' = callbacks /\ Latest' = Latest
    BY <1>1, <1>2, <1>5 DEF Latest
  <2>2. link = "up" /\ sub.there => sub.of \in Accounts /\ free'[sub.of] = free[sub.of]
    BY <1>1, <1>5 DEF Tells, IInv, ValuesOK, SubFollows
  <2>3. LatestAgrees'
    BY <1>2, <2>1, <2>2 DEF IInv, LatestAgrees
  <2>4. QED
    BY <1>2, <1>3, <2>1, <2>3 DEF IInv, ValuesOK, SelectionIsKept, SubFollows
<1>6. QED
  BY <1>4, <1>5
-----------------------------------------------------------------------------
LEMMA Initially == Init => LoadingIsShown /\ IInv
<1>1. SUFFICES ASSUME Init PROVE LoadingIsShown /\ IInv
  OBVIOUS
<1>2. callbacks \in Seq(Amounts) /\ View = "connecting"
  BY <1>1 DEF Init, View, ViewOf
<1>3. QED
  BY <1>1, <1>2 DEF Init, IInv, ValuesOK, SelectionIsKept, SubFollows, LatestAgrees, LoadingIsShown

LEMMA LoadingKeeps == LoadingIsShown /\ [Next]_vars => LoadingIsShown'
<1>1. SUFFICES ASSUME LoadingIsShown, [Next]_vars PROVE LoadingIsShown'
  OBVIOUS
<1>2. CASE LoadKeyring \/ ExtensionAnswers \/ SetKeyring \/ Disconnected
  BY <1>1, <1>2 DEF LoadingIsShown, LoadKeyring, ExtensionAnswers, SetKeyring, Disconnected
<1>3. UNCHANGED keyring => LoadingIsShown'
  BY <1>1 DEF LoadingIsShown, keyring
<1>4. CASE Connected \/ ConnectSuccess \/ ConnectError \/ UNCHANGED vars
  BY <1>3, <1>4 DEF Connected, ConnectSuccess, ConnectError, vars
<1>5. ASSUME NEW a \in Accounts, InitialAccount(a) \/ PickAccount(a) \/ Transfer(a)
      PROVE  LoadingIsShown'
  BY <1>3, <1>5 DEF InitialAccount, PickAccount, Transfer
<1>6. CASE Subscribed \/ SetAccountBalance \/ \E a \in leaving : Leaks(a)
  BY <1>3, <1>6 DEF Subscribed, SetAccountBalance, Leaks
<1>7. QED
  BY <1>1, <1>2, <1>4, <1>5, <1>6 DEF Next

(* The steps of the wallet's accounts that end, or do not begin, loading   *)
(* leave the page where it is.                                             *)
LEMMA StepKeeps == LoadingIsShown /\ IInv /\ [Next]_vars => IInv'
<1>1. SUFFICES ASSUME LoadingIsShown, IInv, [Next]_vars PROVE IInv'
  OBVIOUS
<1>2. CASE Connected
  <2>1. apiState' = "CONNECTING" /\ keyringState' = keyringState
    BY <1>2 DEF Connected, keyring
  <2>2. View' # "page"
    BY <2>1 DEF View, ViewOf
  <2>3. QED
    BY <1>1, <1>2, <2>1, <2>2, RenderedKeeps DEF Connected, accounts, chain
<1>3. CASE ConnectSuccess
  BY <1>1, <1>3, RenderedKeeps DEF ConnectSuccess, accounts, chain, keyring
<1>4. CASE ConnectError
  BY <1>1, <1>4, RenderedKeeps DEF ConnectError, Fails, accounts, chain, keyring
<1>5. CASE SetKeyring
  BY <1>1, <1>5, RenderedKeeps DEF SetKeyring, accounts, chain, connection
<1>6. CASE Disconnected \/ LoadKeyring \/ ExtensionAnswers \/ UNCHANGED vars
  <2>1. /\ UNCHANGED <<currentAccount, chosen, free, balance>>
        /\ link' = "up" => link = "up"
    BY <1>6 DEF Disconnected, Fails, LoadKeyring, ExtensionAnswers, vars, connection, accounts,
                chain
  <2>2. apiState' = apiState /\ (keyringState' = "READY" <=> keyringState = "READY")
    BY <1>1, <1>6 DEF LoadingIsShown, Disconnected, LoadKeyring, MayLoad, ExtensionAnswers, vars,
                      keyring
  <2>3. (View' = "page") = (View = "page")
    BY <2>2, PageShown
  <2>4. QED
    BY <1>1, <2>1, <2>3
       DEF IInv, ValuesOK, SelectionIsKept, SubFollows, LatestAgrees, Latest, balance
<1>7. ASSUME NEW a \in Accounts, InitialAccount(a)
      PROVE  IInv'
  BY <1>1, <1>7, SelectedKeeps
     DEF InitialAccount, NeedsAccount, IInv, SelectionIsKept, connection, keyring, chain
<1>8. ASSUME NEW a \in Accounts, PickAccount(a)
      PROVE  IInv'
  BY <1>1, <1>8, SelectedKeeps DEF PickAccount, connection, keyring, chain
<1>9. QED
  BY <1>1, <1>2, <1>3, <1>4, <1>5, <1>6, <1>7, <1>8, TransferKeeps, SubscribedKeeps,
     BalanceKeeps, LeaksKeeps DEF Next

(* The account every page uses is the one the user picked last, or the     *)
(* initial one, through any number of reconnections.                       *)
THEOREM SelectionCorrect == Spec => []SelectionIsKept
<1>1. IInv => SelectionIsKept
  BY DEF IInv
<1>2. QED
  BY <1>1, Initially, LoadingKeeps, StepKeeps, PTL DEF Spec

(* The balance shown is the current account's when nothing is due, through *)
(* any number of reconnections, picks and transfers.                       *)
THEOREM BalanceCorrect == Spec => []BalanceAgrees
<1>1. IInv => BalanceAgrees
  BY DEF IInv, SubFollows, LatestAgrees, Latest, BalanceAgrees
<1>2. QED
  BY <1>1, Initially, LoadingKeeps, StepKeeps, PTL DEF Spec
-----------------------------------------------------------------------------
(* What the invariant above does not need of the types.                    *)
OtherTypes ==
  /\ link \in {"opening", "up", "down"} /\ ready \in BOOLEAN /\ crashed \in BOOLEAN
  /\ apiState \in {"CONNECT_INIT", "CONNECTING", "READY", "ERROR"}
  /\ keyringState \in {"null", "LOADING", "READY", "ERROR"}
  /\ loading \in {"none", "extension", "chain"} /\ loads \in 0 .. 1
  /\ leaked \subseteq Accounts /\ accountBalance \in Amounts \cup {None}
  /\ failures \in 0 .. MaxFailures /\ picks \in 0 .. MaxPicks
  /\ transfers \in 0 .. MaxTransfers

LEMMA TypesStep == IInv /\ OtherTypes /\ [Next]_vars => OtherTypes'
<1> SUFFICES ASSUME IInv, OtherTypes, [Next]_vars PROVE OtherTypes'
  OBVIOUS
<1>0. /\ failures \in Nat /\ picks \in Nat /\ transfers \in Nat
      /\ {MaxFailures, MaxPicks, MaxTransfers} \subseteq Nat
  BY ConnectionAssumption DEF OtherTypes
<1>1. ASSUME Rendered(apiState', keyringState')
      PROVE  leaked' \subseteq Accounts /\ accountBalance' \in Amounts \cup {None}
  BY <1>1 DEF Rendered, balance, OtherTypes
<1>2. CASE Connected \/ ConnectSuccess \/ SetKeyring
  <2>1. Rendered(apiState', keyringState')
    BY <1>2 DEF Connected, ConnectSuccess, SetKeyring, keyring
  <2> QED
    BY <1>1, <1>2, <2>1
       DEF OtherTypes, Connected, ConnectSuccess, SetKeyring, connection, keyring, accounts, chain
<1>3. CASE ConnectError
  <2>1. Rendered(apiState', keyringState')
    BY <1>3 DEF ConnectError, keyring
  <2> QED
    BY <1>0, <1>1, <1>3, <2>1 DEF OtherTypes, ConnectError, Fails, keyring, accounts, chain
<1>4. CASE Disconnected
  BY <1>0, <1>4 DEF OtherTypes, Disconnected, Fails, accounts, chain, balance
<1>5. CASE LoadKeyring \/ ExtensionAnswers
  BY <1>5 DEF OtherTypes, LoadKeyring, MayLoad, ExtensionAnswers, connection, accounts, chain,
              balance
<1>6. ASSUME NEW a \in Accounts, InitialAccount(a) \/ PickAccount(a)
      PROVE  OtherTypes'
  <2>1. UNCHANGED <<leaked, accountBalance>>
    BY <1>6 DEF InitialAccount, PickAccount, Selected, balance
  <2>2. UNCHANGED <<connection, apiState, keyring, crashed, chain>> /\ picks' \in 0 .. MaxPicks
    BY <1>0, <1>6 DEF InitialAccount, PickAccount, OtherTypes
  <2> QED
    BY <2>1, <2>2 DEF OtherTypes, connection, keyring, chain
<1>7. ASSUME NEW a \in Accounts, Transfer(a)
      PROVE  OtherTypes'
  BY <1>0, <1>7 DEF OtherTypes, Transfer, connection, keyring, accounts
<1>8. CASE SetAccountBalance
  <2>1. Head(callbacks) \in Amounts
    BY <1>8, HeadTailProperties DEF IInv, ValuesOK, SetAccountBalance
  <2> QED
    BY <1>8, <2>1 DEF OtherTypes, SetAccountBalance, connection, keyring, accounts, chain
<1>9. CASE Subscribed
  BY <1>9 DEF OtherTypes, Subscribed, connection, keyring, accounts, chain
<1>10. ASSUME NEW a \in leaving, Leaks(a)
       PROVE  OtherTypes'
  BY <1>10 DEF IInv, ValuesOK, OtherTypes, Leaks, connection, keyring, accounts, chain
<1>11. CASE UNCHANGED vars
  BY <1>11 DEF OtherTypes, vars, connection, keyring, accounts, chain, balance
<1> QED
  BY <1>2, <1>3, <1>4, <1>5, <1>6, <1>7, <1>8, <1>9, <1>10, <1>11 DEF Next

(* Accounts are loaded once at most, however often the connection is lost  *)
(* and comes back, and only a page has a subscription.                     *)
THEOREM ConnectionTypeCorrect == Spec => []TypeOK
<1>1. Init => OtherTypes
  <2>1. 0 \in 0 .. MaxFailures /\ 0 \in 0 .. MaxPicks /\ 0 \in 0 .. MaxTransfers
    BY ConnectionAssumption
  <2>2. Init => ready \in BOOLEAN /\ crashed \in BOOLEAN
    BY Zenon DEF Init
  <2>3. Init => /\ leaked \subseteq Accounts /\ loads \in 0 .. 1
                /\ accountBalance \in Amounts \cup {None}
    BY DEF Init
  <2>4. Init => /\ link = "opening" /\ apiState = "CONNECT_INIT" /\ keyringState = "null"
                /\ loading = "none" /\ failures = 0 /\ picks = 0 /\ transfers = 0
    BY Zenon DEF Init
  <2> QED
    BY <2>1, <2>2, <2>3, <2>4 DEF OtherTypes
<1>2. IInv /\ OtherTypes => TypeOK
  BY DEF IInv, ValuesOK, SelectionIsKept, SubFollows, OtherTypes, TypeOK
<1> QED
  BY <1>1, <1>2, Initially, LoadingKeeps, StepKeeps, TypesStep, PTL DEF Spec
=============================================================================
