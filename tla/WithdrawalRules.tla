-------------------------- MODULE WithdrawalRules --------------------------
(***************************************************************************)
(* The withdrawal request: its statuses, the transitions an admin and an   *)
(* investor may ask for, and the sums a wallet balance is made of          *)
(* (backend/lumen_wallet.py).                                              *)
(*                                                                         *)
(* A request identifier stands for the investor who files it and for the   *)
(* amount asked, so that filing a request is choosing an unused            *)
(* identifier.  Money is counted in an integer unit: the code rounds every *)
(* amount to two decimals before it compares or stores it.                 *)
(***************************************************************************)
EXTENDS Integers, FiniteSets, Functions

CONSTANTS
  Investors,       \* investor ids
  Requests,        \* withdrawal request ids
  OwnerOf,         \* the investor of each request
  AmountOf,        \* the amount_uah of each request
  MinWithdrawal,   \* MIN_WITHDRAWAL_UAH
  Slack,           \* the 0.01 by which a request may exceed the balance
  Prices,          \* gross_uah of purchases on the secondary market
  MarketSlack      \* the 0.5 by which a purchase may exceed the balance

ASSUME RequestsAssumption ==
  /\ IsFiniteSet(Requests)          \* ids of 12 hex digits
  /\ OwnerOf \in [Requests -> Investors]
  /\ AmountOf \in [Requests -> Nat \ {0}]
  /\ MinWithdrawal \in Nat
  /\ Slack \in Nat
  /\ Prices \subseteq Nat
  /\ MarketSlack \in Nat

NoRequest == "none"            \* the request has not been filed

Statuses == {"requested", "under_review", "approved", "processing",
             "paid", "rejected", "cancelled"}

(* Mutant: the reserve is released when the treasury starts to pay.        *)
ReservedUntilProcessing == {"requested", "under_review", "approved"}

Reserved == {"requested", "under_review", "approved", "processing"}

Terminal == {"paid", "rejected", "cancelled"}

(* Mutant: a reviewed request may be paid without approval.                *)
AdminTransitionsUnapproved ==
  [s \in Statuses |->
     CASE s = "requested"    -> {"under_review", "approved", "rejected"}
       [] s = "under_review" -> {"approved", "paid", "rejected"}
       [] s = "approved"     -> {"processing", "paid", "rejected"}
       [] s = "processing"   -> {"paid", "rejected"}
       [] s \in Terminal     -> {}]

(* Mutant: marking a paid request as paid again is let through.            *)
AdminTransitionsRepay ==
  [s \in Statuses |->
     CASE s = "requested"    -> {"under_review", "approved", "rejected"}
       [] s = "under_review" -> {"approved", "rejected"}
       [] s = "approved"     -> {"processing", "paid", "rejected"}
       [] s = "processing"   -> {"paid", "rejected"}
       [] s = "paid"         -> {"paid"}
       [] s \in {"rejected", "cancelled"} -> {}]

(* The statuses an admin may move a request to; empty for a terminal one.  *)
AdminTransitions ==
  [s \in Statuses |->
     CASE s = "requested"    -> {"under_review", "approved", "rejected"}
       [] s = "under_review" -> {"approved", "rejected"}
       [] s = "approved"     -> {"processing", "paid", "rejected"}
       [] s = "processing"   -> {"paid", "rejected"}
       [] s \in Terminal     -> {}]

InvestorCancellable == {"requested", "under_review"}

(* Total amount, over a set of requests, each counted count[r] times.      *)
Total(S, count) ==
  SumFunctionOnSet([r \in Requests |-> count[r] * AmountOf[r]], S)

RequestsOf(i) == {r \in Requests : OwnerOf[r] = i}

(* The amounts requests hold back: pending_balance.                        *)
Pending(i, status) ==
  Total({r \in RequestsOf(i) : status[r] \in Reserved}, [r \in Requests |-> 1])
=============================================================================
