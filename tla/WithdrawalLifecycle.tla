------------------------ MODULE WithdrawalLifecycle ------------------------
(***************************************************************************)
(* What lumen_wallet.py promises of withdrawals, every operation taken as  *)
(* one indivisible step: a request reserves money that is there, an admin  *)
(* or its investor moves it along the documented lifecycle, and its amount *)
(* leaves the settled balance exactly when it becomes paid.  The settled   *)
(* balance also pays for purchases on the secondary market, and nothing    *)
(* sets the reserve apart from those.                                      *)
(*                                                                         *)
(* LumenWallet has the same operations split at their database calls.      *)
(***************************************************************************)
EXTENDS WithdrawalRules

CONSTANT MaxIncome    \* bound on the credits of one investor

VARIABLES
  status,    \* status of each request, or NoRequest
  income,    \* credits of each investor: payouts and market sales
  spent      \* debits of each investor for purchases on the market

vars == <<status, income, spent>>

Paid(i) ==
  Total(RequestsOf(i), [r \in Requests |-> IF status[r] = "paid" THEN 1 ELSE 0])

Settled(i) == income[i] - spent[i] - Paid(i)

Available(i) == Settled(i) - Pending(i, status)

Init ==
  /\ status = [r \in Requests |-> NoRequest]
  /\ income = [i \in Investors |-> 0]
  /\ spent  = [i \in Investors |-> 0]

Credit(i, amount) ==
  /\ income[i] + amount <= MaxIncome
  /\ income' = [income EXCEPT ![i] = @ + amount]
  /\ UNCHANGED <<status, spent>>

Spend(i, price) ==
  /\ price <= Settled(i) + MarketSlack
  /\ spent' = [spent EXCEPT ![i] = @ + price]
  /\ UNCHANGED <<status, income>>

Request(r) ==
  /\ status[r] = NoRequest
  /\ AmountOf[r] >= MinWithdrawal
  /\ AmountOf[r] <= Available(OwnerOf[r]) + Slack
  /\ status' = [status EXCEPT ![r] = "requested"]
  /\ UNCHANGED <<income, spent>>

Cancel(r) ==
  /\ status[r] \in InvestorCancellable
  /\ status' = [status EXCEPT ![r] = "cancelled"]
  /\ UNCHANGED <<income, spent>>

Decide(r, target) ==
  /\ status[r] # NoRequest
  /\ target \in AdminTransitions[status[r]]
  /\ status' = [status EXCEPT ![r] = target]
  /\ UNCHANGED <<income, spent>>

Next ==
  \/ \E i \in Investors, amount \in 1..MaxIncome : Credit(i, amount)
  \/ \E i \in Investors, price \in Prices : Spend(i, price)
  \/ \E r \in Requests : Request(r) \/ Cancel(r)
  \/ \E r \in Requests, target \in Statuses : Decide(r, target)

Spec == Init /\ [][Next]_vars
=============================================================================
