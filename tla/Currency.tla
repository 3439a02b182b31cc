------------------------------ MODULE Currency ------------------------------
(***************************************************************************)
(* The balances pallet as the QDAO pallets use it, through the             *)
(* ReservableCurrency interface: `T::Currency::reserve', `unreserve' and   *)
(* `withdraw'.  The pallet itself is a library of the runtime, so every    *)
(* operator here is external: it is modelled from how audit-pallet and     *)
(* exo-pallet call it.                                                     *)
(*                                                                         *)
(* A ledger is a function from accounts to what each holds, split into a   *)
(* free and a reserved part.  There is ONE reserved part per account: the  *)
(* auditor stake and the bounties of an account share it.                  *)
(***************************************************************************)
EXTENDS Integers, Functions

CONSTANT ExistentialDeposit  \* an account whose total falls below it is reaped

ASSUME ExistentialDepositAssumption == ExistentialDeposit \in Nat

Balance == [free : Nat, reserved : Nat]

Total(b) == b.free + b.reserved

(* The sum of what every account of a ledger holds.                        *)
Issuance(ledger) == SumFunction([a \in DOMAIN ledger |-> Total(ledger[a])])

(* reserve: fails with InsufficientBalance unless the free part covers v.  *)
CanReserve(ledger, a, v) == ledger[a].free >= v

Reserve(ledger, a, v) ==
  [ledger EXCEPT ![a] = [free |-> @.free - v, reserved |-> @.reserved + v]]

(* unreserve never fails: it frees as much of v as is reserved.            *)
Released(b, v) == IF b.reserved < v THEN b.reserved ELSE v

Unreserve(ledger, a, v) ==
  [ledger EXCEPT ![a] = [free     |-> @.free + Released(@, v),
                         reserved |-> @.reserved - Released(@, v)]]

(* An account left with less than the existential deposit is removed with  *)
(* everything it holds, the reserved part included.                        *)
Reap(b) ==
  IF Total(b) < ExistentialDeposit THEN [free |-> 0, reserved |-> 0] ELSE b

(* withdraw(.., AllowDeath): the amount leaves the ledger (the imbalance   *)
(* the call returns is dropped, that is burnt) and the account may die.    *)
CanWithdraw(ledger, a, v) == ledger[a].free >= v

Withdraw(ledger, a, v) ==
  [ledger EXCEPT ![a] = Reap([free |-> @.free - v, reserved |-> @.reserved])]

(* A transfer between two users that keeps both alive: what the users do   *)
(* with their free balance between two calls of the QDAO pallets.          *)
CanTransfer(ledger, from, to, v) ==
  /\ from # to
  /\ ledger[from].free >= v + ExistentialDeposit
  /\ Total(ledger[to]) + v >= ExistentialDeposit

Transferred(ledger, from, to, v) ==
  [ledger EXCEPT ![from].free = @ - v, ![to].free = @ + v]
=============================================================================
