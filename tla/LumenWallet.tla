---------------------------- MODULE LumenWallet ----------------------------
(***************************************************************************)
(* Wallets and withdrawals as backend/lumen_wallet.py runs them.           *)
(*                                                                         *)
(* Every HTTP request is served by a coroutine that gives up the event     *)
(* loop at each MongoDB call.  A handler is such a coroutine; one action   *)
(* below is the code between two calls, and includes the call it ends in.  *)
(* MongoDB gives no more than the atomicity of one call: no handler takes  *)
(* a lock and no update is conditional on the status that was read.        *)
(*                                                                         *)
(* The ledger (lumen_ledger_entries) is kept by its sums.  income[i] adds  *)
(* up the credits of investor i, which payouts and sales on the secondary  *)
(* market write; spent[i] the debits of its purchases there, which are     *)
(* checked against the settled balance of the wallet, reserve included;    *)
(* debits[r] is the number of debits withdrawal request r has caused.  The *)
(* reasons refund and adjustment are known to the wallet, but no code of   *)
(* the backend writes such an entry.                                       *)
(***************************************************************************)
EXTENDS WithdrawalRules

CONSTANTS
  Handlers,        \* coroutines serving HTTP requests
  None,            \* no request, status or investor
  Credits,         \* amounts the payout engine may credit
  MaxIncome,       \* bound on the credits of one investor
  MaxSpent,        \* bound on the purchases of an investor after which it
                   \* buys no more
  MaxAborts,       \* bound on handlers that die at an await
  MaxDebits        \* bound on the debits of a request after which paid may
                   \* be asked again

ASSUME HandlersAssumption ==
  /\ None \notin Requests \cup Investors \cup Statuses
  /\ Credits \subseteq Nat
  /\ MaxIncome \in Nat
  /\ MaxSpent \in Nat
  /\ MaxAborts \in Nat
  /\ MaxDebits \in Nat

VARIABLES
  status,      \* lumen_withdrawal_requests.status, NoRequest before filing
  history,     \* statuses pushed on lumen_withdrawal_requests.history
  debits,      \* ledger entries (debit, reason withdrawal) of each request
  refs,        \* fields of those entries that name the request
  income,      \* credits of each investor: payouts and market sales
  spent,       \* debits of each investor for purchases on the market
  wallet,      \* lumen_wallets: the materialized balances
  pc,          \* the call each handler waits for
  req,         \* the request a handler works on
  target,      \* the status an admin handler writes
  who,         \* the investor whose wallet a handler recomputes
  seen,        \* balances a handler has read
  aborts       \* handlers that died so far

store == <<status, history, debits, refs, income, spent, wallet>>
local == <<pc, req, target, who, seen>>
vars  == <<store, local, aborts>>

Steps == {"idle", "create_pending", "create_insert", "cancel_write",
          "admin_debit", "admin_link", "admin_write", "purchase_debit",
          "rc_ledger", "rc_pending", "rc_write"}

Zero == [settled |-> 0, pending |-> 0]

(* settled_balance as the ledger has it.                                   *)
LedgerSettled(i) == income[i] - spent[i] - Total(RequestsOf(i), debits)

Init ==
  /\ status  = [r \in Requests |-> NoRequest]
  /\ history = [r \in Requests |-> {}]
  /\ debits  = [r \in Requests |-> 0]
  /\ refs    = [r \in Requests |-> {}]
  /\ income  = [i \in Investors |-> 0]
  /\ spent   = [i \in Investors |-> 0]
  /\ wallet  = [i \in Investors |-> Zero]
  /\ pc      = [h \in Handlers |-> "idle"]
  /\ req     = [h \in Handlers |-> None]
  /\ target  = [h \in Handlers |-> None]
  /\ who     = [h \in Handlers |-> None]
  /\ seen    = [h \in Handlers |-> Zero]
  /\ aborts  = 0

-----------------------------------------------------------------------------
(* Control of one handler.                                                 *)

Goto(h, from, to) ==
  /\ pc[h] = from
  /\ pc' = [pc EXCEPT ![h] = to]

(* The handler answers, or dies; what it had read is gone.                 *)
Finish(h) ==
  /\ pc'     = [pc EXCEPT ![h] = "idle"]
  /\ req'    = [req EXCEPT ![h] = None]
  /\ target' = [target EXCEPT ![h] = None]
  /\ who'    = [who EXCEPT ![h] = None]
  /\ seen'   = [seen EXCEPT ![h] = Zero]

(* $set of the status and $push on the history, by id alone.               *)
WriteStatus(r, s) ==
  /\ status'  = [status EXCEPT ![r] = s]
  /\ history' = [history EXCEPT ![r] = @ \cup {s}]

-----------------------------------------------------------------------------
(* create_withdrawal: the balance is read in two queries, compared, and    *)
(* the request inserted.                                                   *)

CreateReadLedger(h, r) ==
  /\ Goto(h, "idle", "create_pending")
  /\ status[r] = NoRequest
  /\ \A g \in Handlers : req[g] # r          \* the id is a fresh uuid
  /\ AmountOf[r] >= MinWithdrawal
  /\ req'  = [req EXCEPT ![h] = r]
  /\ who'  = [who EXCEPT ![h] = OwnerOf[r]]
  /\ seen' = [seen EXCEPT ![h].settled = LedgerSettled(OwnerOf[r])]
  /\ UNCHANGED <<store, target, aborts>>

(* Mutant: the amount is compared with the settled balance.                *)
CreateReadPendingIgnored(h) ==
  /\ pc[h] = "create_pending"
  /\ \/ /\ AmountOf[req[h]] <= seen[h].settled + Slack
        /\ Goto(h, "create_pending", "create_insert")
        /\ UNCHANGED <<req, target, who, seen>>
     \/ /\ AmountOf[req[h]] > seen[h].settled + Slack
        /\ Finish(h)
  /\ UNCHANGED <<store, aborts>>

CreateReadPending(h) ==
  /\ pc[h] = "create_pending"
  /\ LET available == seen[h].settled - Pending(who[h], status)
     IN  \/ /\ AmountOf[req[h]] <= available + Slack
            /\ Goto(h, "create_pending", "create_insert")
            /\ UNCHANGED <<req, target, who, seen>>
         \/ /\ AmountOf[req[h]] > available + Slack
            /\ Finish(h)
  /\ UNCHANGED <<store, aborts>>

CreateInsert(h) ==
  /\ Goto(h, "create_insert", "rc_ledger")
  /\ WriteStatus(req[h], "requested")
  /\ req' = [req EXCEPT ![h] = None]
  /\ UNCHANGED <<debits, refs, income, spent, wallet>>
  /\ UNCHANGED <<target, who, seen, aborts>>

-----------------------------------------------------------------------------
(* cancel_withdrawal: the status is read and checked, then overwritten.    *)

(* Mutant: the status is not checked before cancelling.                    *)
CancelReadUnchecked(h, r) ==
  /\ Goto(h, "idle", "cancel_write")
  /\ status[r] # NoRequest
  /\ req' = [req EXCEPT ![h] = r]
  /\ who' = [who EXCEPT ![h] = OwnerOf[r]]
  /\ UNCHANGED <<store, target, seen, aborts>>

CancelRead(h, r) ==
  /\ Goto(h, "idle", "cancel_write")
  /\ status[r] \in InvestorCancellable
  /\ req' = [req EXCEPT ![h] = r]
  /\ who' = [who EXCEPT ![h] = OwnerOf[r]]
  /\ UNCHANGED <<store, target, seen, aborts>>

(* Mutant: the wallet is not recomputed after a cancellation.              *)
CancelWriteOnly(h) ==
  /\ pc[h] = "cancel_write"
  /\ WriteStatus(req[h], "cancelled")
  /\ Finish(h)
  /\ UNCHANGED <<debits, refs, income, spent, wallet, aborts>>

CancelWrite(h) ==
  /\ Goto(h, "cancel_write", "rc_ledger")
  /\ WriteStatus(req[h], "cancelled")
  /\ req' = [req EXCEPT ![h] = None]
  /\ UNCHANGED <<debits, refs, income, spent, wallet>>
  /\ UNCHANGED <<target, who, seen, aborts>>

-----------------------------------------------------------------------------
(* admin_set_status: the status is read and the transition checked; for    *)
(* paid the ledger is debited and the entry tied to the request; then the  *)
(* status is overwritten.                                                  *)

(* Mutant: the ledger is debited only when the treasury was processing.    *)
AdminReadSomeDebit(h, r, s) ==
  /\ status[r] # NoRequest
  /\ s \in AdminTransitions[status[r]]
  /\ s = "paid" => debits[r] <= MaxDebits
  /\ Goto(h, "idle", IF s = "paid" /\ status[r] = "processing"
                     THEN "admin_debit" ELSE "admin_write")
  /\ req'    = [req EXCEPT ![h] = r]
  /\ target' = [target EXCEPT ![h] = s]
  /\ who'    = [who EXCEPT ![h] = OwnerOf[r]]
  /\ UNCHANGED <<store, seen, aborts>>

AdminRead(h, r, s) ==
  /\ status[r] # NoRequest
  /\ s \in AdminTransitions[status[r]]
  /\ s = "paid" => debits[r] <= MaxDebits
  /\ Goto(h, "idle", IF s = "paid" THEN "admin_debit" ELSE "admin_write")
  /\ req'    = [req EXCEPT ![h] = r]
  /\ target' = [target EXCEPT ![h] = s]
  /\ who'    = [who EXCEPT ![h] = OwnerOf[r]]
  /\ UNCHANGED <<store, seen, aborts>>

(* Mutant: the ledger entry is written with the other direction.           *)
AdminDebitAsCredit(h) ==
  /\ Goto(h, "admin_debit", "admin_link")
  /\ debits' = [debits EXCEPT ![req[h]] = @ - 1]
  /\ UNCHANGED <<status, history, refs, income, spent, wallet>>
  /\ UNCHANGED <<req, target, who, seen, aborts>>

AdminDebit(h) ==
  /\ Goto(h, "admin_debit", "admin_link")
  /\ debits' = [debits EXCEPT ![req[h]] = @ + 1]
  /\ UNCHANGED <<status, history, refs, income, spent, wallet>>
  /\ UNCHANGED <<req, target, who, seen, aborts>>

AdminLink(h) ==
  /\ Goto(h, "admin_link", "admin_write")
  /\ refs' = [refs EXCEPT ![req[h]] = @ \cup {"withdrawal_request_id"}]
  /\ UNCHANGED <<status, history, debits, income, spent, wallet>>
  /\ UNCHANGED <<req, target, who, seen, aborts>>

AdminWrite(h) ==
  /\ Goto(h, "admin_write", "rc_ledger")
  /\ WriteStatus(req[h], target[h])
  /\ req'    = [req EXCEPT ![h] = None]
  /\ target' = [target EXCEPT ![h] = None]
  /\ UNCHANGED <<debits, refs, income, spent, wallet>>
  /\ UNCHANGED <<who, seen, aborts>>

-----------------------------------------------------------------------------
(* recompute_wallet: two queries, then the projection is upserted.  It     *)
(* ends every operation above, and is all that get_wallet does.            *)

GetWallet(h, i) ==
  /\ Goto(h, "idle", "rc_ledger")
  /\ who' = [who EXCEPT ![h] = i]
  /\ UNCHANGED <<store, req, target, seen, aborts>>

RecomputeReadLedger(h) ==
  /\ Goto(h, "rc_ledger", "rc_pending")
  /\ seen' = [seen EXCEPT ![h].settled = LedgerSettled(who[h])]
  /\ UNCHANGED <<store, req, target, who, aborts>>

RecomputeReadPending(h) ==
  /\ Goto(h, "rc_pending", "rc_write")
  /\ seen' = [seen EXCEPT ![h].pending = Pending(who[h], status)]
  /\ UNCHANGED <<store, req, target, who, aborts>>

RecomputeWrite(h) ==
  /\ pc[h] = "rc_write"
  /\ wallet' = [wallet EXCEPT ![who[h]] = seen[h]]
  /\ Finish(h)
  /\ UNCHANGED <<status, history, debits, refs, income, spent, aborts>>

-----------------------------------------------------------------------------
(* Another engine appends a credit to the ledger and recomputes: a payout, *)
(* or the seller's side of a trade.                                        *)

CreditPayout(h, i, amount) ==
  /\ Goto(h, "idle", "rc_ledger")
  /\ income[i] + amount <= MaxIncome
  /\ income' = [income EXCEPT ![i] = @ + amount]
  /\ who' = [who EXCEPT ![h] = i]
  /\ UNCHANGED <<status, history, debits, refs, spent, wallet>>
  /\ UNCHANGED <<req, target, seen, aborts>>

(* The buyer's side of _settle_trade: the price is compared with the       *)
(* materialized settled balance, which the reserve is part of, the ledger  *)
(* is debited and the wallet recomputed.  SecondaryMarket has the rest.    *)

PurchaseRead(h, i) ==
  /\ Goto(h, "idle", "purchase_debit")
  /\ spent[i] < MaxSpent
  /\ who'  = [who EXCEPT ![h] = i]
  /\ seen' = [seen EXCEPT ![h].settled = wallet[i].settled]
  /\ UNCHANGED <<store, req, target, aborts>>

PurchaseDebit(h, price) ==
  /\ price <= seen[h].settled + MarketSlack
  /\ Goto(h, "purchase_debit", "rc_ledger")
  /\ spent' = [spent EXCEPT ![who[h]] = @ + price]
  /\ UNCHANGED <<status, history, debits, refs, income, wallet>>
  /\ UNCHANGED <<req, target, who, seen, aborts>>

(* The trade fails: 402, the buyer cannot pay.                             *)
PurchaseRefused(h, price) ==
  /\ pc[h] = "purchase_debit"
  /\ price > seen[h].settled + MarketSlack
  /\ Finish(h)
  /\ UNCHANGED <<store, aborts>>

(* A database call fails, or the server restarts: the handler is lost and  *)
(* what it has written stays.                                              *)
Abort(h) ==
  /\ pc[h] # "idle"
  /\ aborts < MaxAborts
  /\ aborts' = aborts + 1
  /\ Finish(h)
  /\ UNCHANGED store

-----------------------------------------------------------------------------

Serve(h) ==
  \/ CreateReadPending(h) \/ CreateInsert(h)
  \/ CancelWrite(h)
  \/ AdminDebit(h) \/ AdminLink(h) \/ AdminWrite(h)
  \/ \E price \in Prices : PurchaseDebit(h, price) \/ PurchaseRefused(h, price)
  \/ RecomputeReadLedger(h) \/ RecomputeReadPending(h) \/ RecomputeWrite(h)

Arrive(h) ==
  \/ \E r \in Requests : CreateReadLedger(h, r) \/ CancelRead(h, r)
  \/ \E r \in Requests, s \in Statuses : AdminRead(h, r, s)
  \/ \E i \in Investors : GetWallet(h, i) \/ PurchaseRead(h, i)
  \/ \E i \in Investors, amount \in Credits : CreditPayout(h, i, amount)

Next == \E h \in Handlers : Arrive(h) \/ Serve(h) \/ Abort(h)

Spec == Init /\ [][Next]_vars

-----------------------------------------------------------------------------

TypeOK ==
  /\ status  \in [Requests -> Statuses \cup {NoRequest}]
  /\ history \in [Requests -> SUBSET Statuses]
  /\ debits  \in [Requests -> Nat]
  /\ income  \in [Investors -> Nat]
  /\ spent   \in [Investors -> Nat]
  /\ refs    \in [Requests -> SUBSET {"withdrawal_request_id"}]
  /\ pc      \in [Handlers -> Steps]
  /\ req     \in [Handlers -> Requests \cup {None}]
  /\ target  \in [Handlers -> Statuses \cup {None}]
  /\ who     \in [Handlers -> Investors \cup {None}]
  /\ aborts  \in Nat

(* What a handler knows of its request while it waits: what the two        *)
(* properties below need to be inductive.  The status a request shows, and *)
(* the one an admin handler is about to write, were preceded by approval;  *)
(* a handler about to write paid has debited.                              *)
AfterApproval == {"processing", "paid"}

ApprovalKnown ==
  /\ \A r \in Requests :
       status[r] \in {"approved"} \cup AfterApproval => "approved" \in history[r]
  /\ \A h \in Handlers :
       target[h] \in AfterApproval /\ req[h] # None
         => "approved" \in history[req[h]]

DebitKnown ==
  \A h \in Handlers :
    /\ pc[h] \in {"admin_link", "admin_write"} /\ target[h] = "paid"
         => debits[req[h]] > 0
    /\ pc[h] = "admin_write" /\ target[h] = "paid" => refs[req[h]] # {}

(* A handler at a step that works on a request has one; the debit is       *)
(* reached only on the way to paid.                                        *)
HandlersOK ==
  \A h \in Handlers :
    /\ pc[h] \in {"create_pending", "create_insert", "cancel_write",
                  "admin_debit", "admin_link", "admin_write"}
         => req[h] \in Requests
    /\ pc[h] \in {"admin_debit", "admin_link"} => target[h] = "paid"
    /\ pc[h] \in {"idle", "create_pending", "create_insert", "cancel_write",
                  "purchase_debit"}
         => target[h] = None
    /\ pc[h] = "admin_write" => target[h] \in Statuses
    /\ pc[h] \in Steps \ {"idle"} => who[h] \in Investors
    /\ pc[h] \in {"rc_ledger", "rc_pending", "rc_write"} => target[h] = None

Idle == \A h \in Handlers : pc[h] = "idle"

(* A request that is paid has been debited, and its debit names it: the    *)
(* debit of admin_set_status comes before the status, so no interleaving   *)
(* and no lost handler shows a payment the ledger does not have.           *)
PaidIsDebited ==
  \A r \in Requests : status[r] = "paid" => debits[r] > 0 /\ refs[r] # {}

(* Money leaves only for a request an admin had approved: whatever handlers *)
(* overlap, the history (append only) of a debited request shows approved. *)
DebitWasApproved ==
  \A r \in Requests : debits[r] > 0 => "approved" \in history[r]

(* The inductive invariant of the two properties above.                    *)
IInv ==
  /\ TypeOK
  /\ HandlersOK
  /\ ApprovalKnown
  /\ DebitKnown
  /\ PaidIsDebited
  /\ DebitWasApproved

(* Terminal, and no handler that read it earlier still has it in hand.     *)
Closed(r) == status[r] \in Terminal /\ \A h \in Handlers : req[h] # r

(* A closed request stays closed with its status: the checks of            *)
(* cancel_withdrawal and admin_set_status let no later handler near it, so *)
(* only handlers that overlap the closing one can reopen a request.        *)
TerminalIsFinal ==
  [][\A r \in Requests :
        Closed(r) => Closed(r)' /\ status'[r] = status[r]]_vars

(* The ledger holds one debit for each paid request and none for the       *)
(* others: I5 of lumen_consistency.py, and "`paid` creates exactly ONE     *)
(* ledger debit" of tests/test_sprint7_wallet.py.                          *)
OneDebitPerPayment ==
  Idle => \A r \in Requests : debits[r] = IF status[r] = "paid" THEN 1 ELSE 0

(* What the ledger of an investor has beyond the requests that still wait  *)
(* for their debit.                                                        *)
Free(i) ==
  LedgerSettled(i)
    - Total({r \in RequestsOf(i) : status[r] \in Reserved /\ debits[r] = 0},
            [r \in Requests |-> 1])

(* Withdrawals promise and pay no more than there is: create_withdrawal,   *)
(* the two cancellations, the payment and the recompute never take an      *)
(* investor further below what its waiting requests need, beyond the       *)
(* tolerance create_withdrawal compares with.  Only a purchase on the      *)
(* market does: it is checked against a balance the reserve is part of.    *)
OnlyPurchasesUncover ==
  [][\A i \in Investors :
        Free(i)' < Free(i) /\ Free(i)' < -Slack => spent'[i] > spent[i]]_vars

(* "no negative wallets (settled_balance >= 0)": I6 of                     *)
(* lumen_consistency.py, which reads the materialized wallet.              *)
NoNegativeWallet == \A i \in Investors : wallet[i].settled >= 0

(* At rest the materialized wallet is what the ledger and the requests     *)
(* say: I3 of lumen_consistency.py, for both balances it stores.           *)
WalletIsLedger ==
  Idle => \A i \in Investors :
            wallet[i] = [settled |-> LedgerSettled(i),
                         pending |-> Pending(i, status)]

(* Handlers that do not overlap and do not fail give the lifecycle of      *)
(* WithdrawalLifecycle: each request is one indivisible step.              *)
Lifecycle == INSTANCE WithdrawalLifecycle

ImplementsLifecycle == Lifecycle!Spec
=============================================================================
