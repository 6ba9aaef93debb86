-------------------------- MODULE PrimaryOffering --------------------------
(***************************************************************************)
(* How an investor gets a share of an asset: an intent is approved into an *)
(* investment with a contract (backend/lumen_investment_core.py,           *)
(* lumen_contracts.py), KYC and signature open a payment request           *)
(* (lumen_kyc.py, lumen_payments.py), and a confirmed payment makes the    *)
(* investment active and updates ownership, asset and round.               *)
(*                                                                         *)
(* A handler is a coroutine that gives up the event loop at each database  *)
(* call; one action is the code up to and including one call.  There is    *)
(* one asset with one round, open throughout.  An investment has at most   *)
(* one contract, so the contract goes by the identifier of the investment. *)
(***************************************************************************)
EXTENDS Integers, Sequences, FiniteSets, Functions

CONSTANTS
  Investors,    \* investor ids
  Intents,      \* lumen_investor_intents ids
  Deals,        \* lumen_investments ids
  Payments,     \* lumen_payment_requests ids
  Handlers,     \* coroutines serving HTTP requests
  None,         \* no intent, investment, payment request, investor, status
  InvestorOf,   \* the investor of each intent
  AmountOf,     \* the amount of each intent
  MaxCredits,   \* bound on the credits of a payment request after which
                \* it may be confirmed again
  MaxFailures   \* bound on handlers lost and on restarts

ASSUME OfferingAssumption ==
  /\ IsFiniteSet(Deals) /\ IsFiniteSet(Payments)     \* ids of 12 hex digits
  /\ InvestorOf \in [Intents -> Investors]
  /\ AmountOf \in [Intents -> Nat \ {0}]
  /\ MaxCredits \in Nat
  /\ MaxFailures \in Nat
  /\ None \notin Investors \cup Intents \cup Deals \cup Payments

VARIABLES
  intent,      \* status of each intent
  kyc,         \* lumen_investor_profiles.kyc_status
  approved,    \* investors whose KYC an admin has approved at some time
  deal,        \* lumen_investments.status
  intentOf,    \* the intent_id of each investment
  linked,      \* investments whose contract_id is set
  contract,    \* lumen_contracts.status, by investment
  signatures,  \* contracts with a row in lumen_signatures
  payment,     \* lumen_payment_requests.status
  paysFor,     \* the investment_id of each payment request
  history,     \* statuses pushed on the history of each payment request
  credits,     \* investment_funding entries of each payment request
  rows,        \* lumen_ownerships: units of the rows of each investor
  raised,      \* raised_amount of the asset
  round,       \* raised_amount of the round
  pc,          \* the call each handler waits for
  who, at, pay,   \* the investor, investment and request it works on
  arg,         \* the intent it decides, or the status it will write
  flag,        \* whether KYC was approved, or a row existed, when read
  todo,        \* the investments of a cursor it has yet to visit
  sum,         \* the sum it has read
  failures     \* handlers lost and restarts so far

people == <<intent, kyc, approved>>
deals  == <<deal, intentOf, linked, contract, signatures>>
money  == <<payment, paysFor, history, credits>>
sums   == <<rows, raised, round>>
store  == <<people, deals, money, sums>>
local  == <<pc, who, at, pay, arg, flag, todo, sum>>
vars   == <<store, local, failures>>

KycStatuses == {"not_started", "draft", "submitted", "under_review",
                "approved", "rejected"}
ContractStatuses == {"absent", "sent", "viewed", "signed", "cancelled"}
DealStatuses == {"absent", "kyc_pending", "contract_pending",
                 "awaiting_payment", "active", "cancelled"}
PaymentStatuses == {"awaiting_payment", "paid", "under_review",
                    "confirmed", "rejected"}

Signable == {"sent", "viewed"}          \* of the statuses a contract is given
Pending == {"kyc_pending", "contract_pending"}

(* The KYC statuses from which an investor edits or submits the profile    *)
(* and an admin decides.  A complete profile is one that has been edited,  *)
(* so submission is not offered from not_started.                          *)
KycFrom == [draft     |-> {"not_started", "rejected"},
            submitted |-> {"draft", "rejected"},
            approved  |-> {"submitted", "under_review"},
            rejected  |-> {"submitted", "under_review"}]

(* Mutant: a request may be confirmed before the investor has paid.        *)
PaymentFromAnyOpen ==
  [paid         |-> {"awaiting_payment", "under_review", "rejected"},
   under_review |-> {"paid", "under_review"},
   rejected     |-> {"paid", "under_review"},
   confirmed    |-> {"awaiting_payment", "paid", "under_review"}]

(* Mutant: the confirmed status is not excluded.                           *)
PaymentFromReconfirm ==
  [paid         |-> {"awaiting_payment", "under_review", "rejected"},
   under_review |-> {"paid", "under_review"},
   rejected     |-> {"paid", "under_review"},
   confirmed    |-> {"paid", "under_review", "confirmed"}]

(* The statuses from which an investor submits a payment, an admin asks    *)
(* for clarification and rejects, and an admin or a bank match confirms.   *)
PaymentFrom ==
  [paid         |-> {"awaiting_payment", "under_review", "rejected"},
   under_review |-> {"paid", "under_review"},
   rejected     |-> {"paid", "under_review"},
   confirmed    |-> {"paid", "under_review"}]

DealsOf(i) ==
  {d \in Deals : deal[d] # "absent" /\ InvestorOf[intentOf[d]] = i}

AmountOfDeal(d) == AmountOf[intentOf[d]]

(* The sum of the active investments in S, which every engine recomputes.  *)
Active(S) ==
  SumFunctionOnSet([d \in Deals |-> AmountOfDeal(d)],
                   {d \in S : deal[d] = "active"})

Init ==
  /\ intent     = [n \in Intents |-> "absent"]
  /\ kyc        = [i \in Investors |-> "not_started"]
  /\ approved   = {}
  /\ deal       = [d \in Deals |-> "absent"]
  /\ intentOf   = [d \in Deals |-> None]
  /\ linked     = {}
  /\ contract   = [d \in Deals |-> "absent"]
  /\ signatures = {}
  /\ payment    = [p \in Payments |-> "absent"]
  /\ paysFor    = [p \in Payments |-> None]
  /\ history    = [p \in Payments |-> {}]
  /\ credits    = [p \in Payments |-> 0]
  /\ rows       = [i \in Investors |-> <<>>]
  /\ raised     = 0
  /\ round      = 0
  /\ pc   = [h \in Handlers |-> "idle"]
  /\ who  = [h \in Handlers |-> None]
  /\ at   = [h \in Handlers |-> None]
  /\ pay  = [h \in Handlers |-> None]
  /\ arg  = [h \in Handlers |-> None]
  /\ flag = [h \in Handlers |-> FALSE]
  /\ todo = [h \in Handlers |-> {}]
  /\ sum  = [h \in Handlers |-> 0]
  /\ failures = 0

-----------------------------------------------------------------------------
(* Control of one handler.                                                 *)

Goto(h, from, to) ==
  /\ pc[h] = from
  /\ pc' = [pc EXCEPT ![h] = to]

Forget(h) ==
  /\ who'  = [who EXCEPT ![h] = None]
  /\ at'   = [at EXCEPT ![h] = None]
  /\ pay'  = [pay EXCEPT ![h] = None]
  /\ arg'  = [arg EXCEPT ![h] = None]
  /\ flag' = [flag EXCEPT ![h] = FALSE]
  /\ todo' = [todo EXCEPT ![h] = {}]
  /\ sum'  = [sum EXCEPT ![h] = 0]

(* The handler answers, or dies; what it had read is gone.                 *)
Finish(h) == pc' = [pc EXCEPT ![h] = "idle"] /\ Forget(h)

SetDeal(d, s) == deal' = [deal EXCEPT ![d] = s]

-----------------------------------------------------------------------------
(* Intents.  approve_intent reads the intent and the KYC status, inserts   *)
(* the investment and its contract, links them and closes the intent.      *)

FileIntent(n) ==
  /\ intent[n] = "absent"
  /\ intent' = [intent EXCEPT ![n] = "submitted"]
  /\ UNCHANGED <<kyc, approved, deals, money, sums, local, failures>>

(* Mutant: the status of the intent is not checked.                        *)
ApproveReadUnchecked(h, n, d) ==
  /\ Goto(h, "idle", "approve_kyc")
  /\ intent[n] # "absent"
  /\ deal[d] = "absent" /\ \A g \in Handlers : at[g] # d
  /\ who' = [who EXCEPT ![h] = InvestorOf[n]]
  /\ at'  = [at EXCEPT ![h] = d]
  /\ arg' = [arg EXCEPT ![h] = n]
  /\ UNCHANGED <<store, pay, flag, todo, sum, failures>>

ApproveRead(h, n, d) ==
  /\ Goto(h, "idle", "approve_kyc")
  /\ intent[n] = "submitted"
  /\ deal[d] = "absent" /\ \A g \in Handlers : at[g] # d     \* a fresh uuid
  /\ who' = [who EXCEPT ![h] = InvestorOf[n]]
  /\ at'  = [at EXCEPT ![h] = d]
  /\ arg' = [arg EXCEPT ![h] = n]
  /\ UNCHANGED <<store, pay, flag, todo, sum, failures>>

ApproveReadKyc(h) ==
  /\ Goto(h, "approve_kyc", "approve_insert")
  /\ flag' = [flag EXCEPT ![h] = (kyc[who[h]] = "approved")]
  /\ UNCHANGED <<store, who, at, pay, arg, todo, sum, failures>>

(* Mutant: every investment starts at the contract gate.                   *)
ApproveInsertUngated(h) ==
  /\ Goto(h, "approve_insert", "approve_contract")
  /\ SetDeal(at[h], "contract_pending")
  /\ intentOf' = [intentOf EXCEPT ![at[h]] = arg[h]]
  /\ UNCHANGED <<people, linked, contract, signatures, money, sums>>
  /\ UNCHANGED <<who, at, pay, arg, flag, todo, sum, failures>>

ApproveInsert(h) ==
  /\ Goto(h, "approve_insert", "approve_contract")
  /\ SetDeal(at[h], IF flag[h] THEN "contract_pending" ELSE "kyc_pending")
  /\ intentOf' = [intentOf EXCEPT ![at[h]] = arg[h]]
  /\ UNCHANGED <<people, linked, contract, signatures, money, sums>>
  /\ UNCHANGED <<who, at, pay, arg, flag, todo, sum, failures>>

ApproveContract(h) ==
  /\ Goto(h, "approve_contract", "approve_link")
  /\ contract' = [contract EXCEPT ![at[h]] = "sent"]
  /\ UNCHANGED <<people, deal, intentOf, linked, signatures, money, sums>>
  /\ UNCHANGED <<who, at, pay, arg, flag, todo, sum, failures>>

ApproveLink(h) ==
  /\ Goto(h, "approve_link", "approve_close")
  /\ linked' = linked \cup {at[h]}
  /\ UNCHANGED <<people, deal, intentOf, contract, signatures, money, sums>>
  /\ UNCHANGED <<who, at, pay, arg, flag, todo, sum, failures>>

ApproveClose(h) ==
  /\ pc[h] = "approve_close"
  /\ intent' = [intent EXCEPT ![arg[h]] = "converted"]
  /\ Finish(h)
  /\ UNCHANGED <<kyc, approved, deals, money, sums, failures>>

RejectRead(h, n) ==
  /\ Goto(h, "idle", "reject_write")
  /\ intent[n] = "submitted"
  /\ arg' = [arg EXCEPT ![h] = n]
  /\ UNCHANGED <<store, who, at, pay, flag, todo, sum, failures>>

RejectWrite(h) ==
  /\ pc[h] = "reject_write"
  /\ intent' = [intent EXCEPT ![arg[h]] = "rejected"]
  /\ Finish(h)
  /\ UNCHANGED <<kyc, approved, deals, money, sums, failures>>

-----------------------------------------------------------------------------
(* KYC: the investor edits and submits the profile, an admin decides; the  *)
(* status is read and checked, then overwritten.  Approval goes on to the  *)
(* gates.                                                                  *)

KycRead(h, i, s) ==
  /\ Goto(h, "idle", "kyc_write")
  /\ kyc[i] \in KycFrom[s]
  /\ who' = [who EXCEPT ![h] = i]
  /\ arg' = [arg EXCEPT ![h] = s]
  /\ UNCHANGED <<store, at, pay, flag, todo, sum, failures>>

KycWrite(h) ==
  /\ pc[h] = "kyc_write"
  /\ kyc' = [kyc EXCEPT ![who[h]] = arg[h]]
  /\ IF arg[h] = "approved"
     THEN /\ approved' = approved \cup {who[h]}
          /\ Goto(h, "kyc_write", "move_kyc")
          /\ arg' = [arg EXCEPT ![h] = None]
          /\ UNCHANGED <<who, at, pay, flag, todo, sum>>
     ELSE /\ Finish(h)
          /\ UNCHANGED approved
  /\ UNCHANGED <<intent, deals, money, sums, failures>>

-----------------------------------------------------------------------------
(* Contracts: viewing and signing by the investor, cancelling by an admin. *)

ViewRead(h, d) ==
  /\ Goto(h, "idle", "view_write")
  /\ contract[d] = "sent"
  /\ at' = [at EXCEPT ![h] = d]
  /\ UNCHANGED <<store, who, pay, arg, flag, todo, sum, failures>>

ViewWrite(h) ==
  /\ pc[h] = "view_write"
  /\ contract' = [contract EXCEPT ![at[h]] = "viewed"]
  /\ Finish(h)
  /\ UNCHANGED <<people, deal, intentOf, linked, signatures, money, sums>>
  /\ UNCHANGED failures

SignRead(h, d) ==
  /\ Goto(h, "idle", "sign_insert")
  /\ contract[d] \in Signable
  /\ at'  = [at EXCEPT ![h] = d]
  /\ who' = [who EXCEPT ![h] = InvestorOf[intentOf[d]]]
  /\ UNCHANGED <<store, pay, arg, flag, todo, sum, failures>>

SignInsert(h) ==
  /\ Goto(h, "sign_insert", "sign_write")
  /\ signatures' = signatures \cup {at[h]}
  /\ UNCHANGED <<people, deal, intentOf, linked, contract, money, sums>>
  /\ UNCHANGED <<who, at, pay, arg, flag, todo, sum, failures>>

SignWrite(h) ==
  /\ Goto(h, "sign_write", "move_kyc")
  /\ contract' = [contract EXCEPT ![at[h]] = "signed"]
  /\ at' = [at EXCEPT ![h] = None]
  /\ UNCHANGED <<people, deal, intentOf, linked, signatures, money, sums>>
  /\ UNCHANGED <<who, pay, arg, flag, todo, sum, failures>>

CancelRead(h, d) ==
  /\ Goto(h, "idle", "cancel_write")
  /\ contract[d] \in Signable
  /\ at' = [at EXCEPT ![h] = d]
  /\ UNCHANGED <<store, who, pay, arg, flag, todo, sum, failures>>

CancelWrite(h) ==
  /\ Goto(h, "cancel_write", "cancel_read_deal")
  /\ contract' = [contract EXCEPT ![at[h]] = "cancelled"]
  /\ UNCHANGED <<people, deal, intentOf, linked, signatures, money, sums>>
  /\ UNCHANGED <<who, at, pay, arg, flag, todo, sum, failures>>

CancelReadDeal(h) ==
  /\ pc[h] = "cancel_read_deal"
  /\ IF deal[at[h]] \in Pending
     THEN /\ Goto(h, "cancel_read_deal", "cancel_deal")
          /\ UNCHANGED <<who, at, pay, arg, flag, todo, sum>>
     ELSE Finish(h)
  /\ UNCHANGED <<store, failures>>

CancelDeal(h) ==
  /\ pc[h] = "cancel_deal"
  /\ SetDeal(at[h], "cancelled")
  /\ Finish(h)
  /\ UNCHANGED <<people, intentOf, linked, contract, signatures, money, sums>>
  /\ UNCHANGED failures

-----------------------------------------------------------------------------
(* The gates, run after KYC approval and after signature.  The first pass  *)
(* (activate_ready_investments) moves kyc_pending investments to           *)
(* contract_pending; the second (open_payment_requests_for_investor) opens *)
(* a payment request for each pending one whose contract is signed.  Each  *)
(* reads KYC, then walks over what a cursor found.                         *)

(* The handler turns to the rest of the cursor, or to what comes after it. *)
Visit(h, rest, step, after) ==
  /\ todo' = [todo EXCEPT ![h] = rest]
  /\ pc'   = [pc EXCEPT ![h] = IF rest = {} THEN after ELSE step]

(* Likewise at the end of the second pass, where the handler is done.      *)
VisitOrFinish(h, rest) ==
  IF rest = {}
  THEN Finish(h)
  ELSE /\ todo' = [todo EXCEPT ![h] = rest]
       /\ pc'   = [pc EXCEPT ![h] = "open_contract"]
       /\ at'   = [at EXCEPT ![h] = None]
       /\ pay'  = [pay EXCEPT ![h] = None]
       /\ UNCHANGED <<who, arg, flag, sum>>

MoveReadKyc(h) ==
  /\ Goto(h, "move_kyc",
          IF kyc[who[h]] = "approved" THEN "move_find" ELSE "open_kyc")
  /\ UNCHANGED <<store, who, at, pay, arg, flag, todo, sum, failures>>

MoveFind(h) ==
  /\ pc[h] = "move_find"
  /\ Visit(h, {d \in DealsOf(who[h]) : deal[d] = "kyc_pending"},
           "move_write", "open_kyc")
  /\ UNCHANGED <<store, who, at, pay, arg, flag, sum, failures>>

MoveWrite(h, d) ==
  /\ pc[h] = "move_write"
  /\ d \in todo[h]
  /\ SetDeal(d, "contract_pending")
  /\ Visit(h, todo[h] \ {d}, "move_write", "open_kyc")
  /\ UNCHANGED <<people, intentOf, linked, contract, signatures, money, sums>>
  /\ UNCHANGED <<who, at, pay, arg, flag, sum, failures>>

OpenReadKyc(h) ==
  /\ pc[h] = "open_kyc"
  /\ IF kyc[who[h]] = "approved"
     THEN /\ Goto(h, "open_kyc", "open_find")
          /\ UNCHANGED <<who, at, pay, arg, flag, todo, sum>>
     ELSE Finish(h)
  /\ UNCHANGED <<store, failures>>

(* Mutant: only investments past the first gate are looked at.             *)
OpenFindKycPending(h) ==
  /\ pc[h] = "open_find"
  /\ VisitOrFinish(h, {d \in DealsOf(who[h]) :
                         deal[d] = "kyc_pending" /\ d \in linked})
  /\ UNCHANGED <<store, failures>>

(* An investment without contract_id counts as not signed.                 *)
OpenFind(h) ==
  /\ pc[h] = "open_find"
  /\ VisitOrFinish(h, {d \in DealsOf(who[h]) :
                         deal[d] \in Pending /\ d \in linked})
  /\ UNCHANGED <<store, failures>>

(* Mutant: an existing contract is taken for a signed one.                 *)
OpenReadContractUnsigned(h, d) ==
  /\ pc[h] = "open_contract"
  /\ d \in todo[h]
  /\ Goto(h, "open_contract", "open_existing")
  /\ at' = [at EXCEPT ![h] = d]
  /\ UNCHANGED <<store, who, pay, arg, flag, todo, sum, failures>>

OpenReadContract(h, d) ==
  /\ pc[h] = "open_contract"
  /\ d \in todo[h]
  /\ IF contract[d] = "signed"
     THEN /\ Goto(h, "open_contract", "open_existing")
          /\ at' = [at EXCEPT ![h] = d]
          /\ UNCHANGED <<who, pay, arg, flag, todo, sum>>
     ELSE VisitOrFinish(h, todo[h] \ {d})
  /\ UNCHANGED <<store, failures>>

OpenRequests(d) ==
  {p \in Payments : paysFor[p] = d
                      /\ payment[p] \notin {"confirmed", "rejected"}}

OpenReadExisting(h) ==
  /\ pc[h] = "open_existing"
  /\ IF OpenRequests(at[h]) = {}
     THEN /\ Goto(h, "open_existing", "open_insert")
          /\ UNCHANGED <<who, at, pay, arg, flag, todo, sum>>
     ELSE VisitOrFinish(h, todo[h] \ {at[h]})
  /\ UNCHANGED <<store, failures>>

OpenInsert(h, p) ==
  /\ Goto(h, "open_insert", "open_move")
  /\ payment[p] = "absent"
  /\ payment' = [payment EXCEPT ![p] = "awaiting_payment"]
  /\ paysFor' = [paysFor EXCEPT ![p] = at[h]]
  /\ history' = [history EXCEPT ![p] = {"awaiting_payment"}]
  /\ UNCHANGED <<people, deals, credits, sums>>
  /\ UNCHANGED <<who, at, pay, arg, flag, todo, sum, failures>>

OpenMove(h) ==
  /\ pc[h] = "open_move"
  /\ SetDeal(at[h], "awaiting_payment")
  /\ VisitOrFinish(h, todo[h] \ {at[h]})
  /\ UNCHANGED <<people, intentOf, linked, contract, signatures, money, sums>>
  /\ UNCHANGED failures

-----------------------------------------------------------------------------
(* Payment requests: the status is read and checked, then overwritten; a   *)
(* confirmation goes on to credit the ledger, activate the investment and  *)
(* recompute ownership, asset and round.                                   *)

PaymentRead(h, p, s) ==
  /\ Goto(h, "idle", "payment_write")
  /\ payment[p] \in PaymentFrom[s]
  /\ s = "confirmed" => credits[p] <= MaxCredits
  /\ pay' = [pay EXCEPT ![h] = p]
  /\ at'  = [at EXCEPT ![h] = paysFor[p]]
  /\ who' = [who EXCEPT ![h] = InvestorOf[intentOf[paysFor[p]]]]
  /\ arg' = [arg EXCEPT ![h] = s]
  /\ UNCHANGED <<store, flag, todo, sum, failures>>

(* The requests a bank transaction may be matched with: by the automatic   *)
(* match, by an admin who forces one, and by the mock settlement.          *)
Matchable == {"awaiting_payment", "paid", "under_review"}

(* A match confirms in the name of its caller ("auto-recon" when there is  *)
(* no admin), through the same check of the status: a request the investor *)
(* has not submitted is matched and then refused, which changes nothing.   *)
MatchRead(h, p) ==
  /\ payment[p] \in Matchable
  /\ PaymentRead(h, p, "confirmed")

PaymentWrite(h) ==
  /\ pc[h] = "payment_write"
  /\ payment' = [payment EXCEPT ![pay[h]] = arg[h]]
  /\ history' = [history EXCEPT ![pay[h]] = @ \cup {arg[h]}]
  /\ IF arg[h] = "confirmed"
     THEN /\ Goto(h, "payment_write", "confirm_credit")
          /\ arg' = [arg EXCEPT ![h] = None]
          /\ UNCHANGED <<who, at, pay, flag, todo, sum>>
     ELSE Finish(h)
  /\ UNCHANGED <<people, deals, paysFor, credits, sums, failures>>

(* Mutant: the investment is activated without an entry in the ledger.     *)
ConfirmCreditSkipped(h) ==
  /\ Goto(h, "confirm_credit", "confirm_activate")
  /\ UNCHANGED <<store, who, at, pay, arg, flag, todo, sum, failures>>

(* Mutant: the ledger entry is written with the other direction.           *)
ConfirmCreditAsDebit(h) ==
  /\ Goto(h, "confirm_credit", "confirm_activate")
  /\ credits' = [credits EXCEPT ![pay[h]] = @ - 1]
  /\ UNCHANGED <<people, deals, payment, paysFor, history, sums>>
  /\ UNCHANGED <<who, at, pay, arg, flag, todo, sum, failures>>

ConfirmCredit(h) ==
  /\ Goto(h, "confirm_credit", "confirm_activate")
  /\ credits' = [credits EXCEPT ![pay[h]] = @ + 1]
  /\ UNCHANGED <<people, deals, payment, paysFor, history, sums>>
  /\ UNCHANGED <<who, at, pay, arg, flag, todo, sum, failures>>

ConfirmActivate(h) ==
  /\ Goto(h, "confirm_activate", "owner_sum")
  /\ SetDeal(at[h], "active")
  /\ UNCHANGED <<people, intentOf, linked, contract, signatures, money, sums>>
  /\ UNCHANGED <<who, at, pay, arg, flag, todo, sum, failures>>

(* Mutant: only the investment just paid is counted.                       *)
OwnerSumOne(h) ==
  /\ Goto(h, "owner_sum", "owner_find")
  /\ sum' = [sum EXCEPT ![h] = AmountOfDeal(at[h])]
  /\ UNCHANGED <<store, who, at, pay, arg, flag, todo, failures>>

(* _upsert_ownership.                                                      *)
OwnerSum(h) ==
  /\ Goto(h, "owner_sum", "owner_find")
  /\ sum' = [sum EXCEPT ![h] = Active(DealsOf(who[h]))]
  /\ UNCHANGED <<store, who, at, pay, arg, flag, todo, failures>>

OwnerFind(h) ==
  /\ Goto(h, "owner_find", "owner_write")
  /\ flag' = [flag EXCEPT ![h] = (rows[who[h]] # <<>>)]
  /\ UNCHANGED <<store, who, at, pay, arg, todo, sum, failures>>

(* The row found is the first one inserted.                                *)
OwnerWrite(h) ==
  /\ Goto(h, "owner_write", "asset_sum")
  /\ rows' = [rows EXCEPT ![who[h]] =
                IF flag[h] THEN [@ EXCEPT ![1] = sum[h]] ELSE Append(@, sum[h])]
  /\ UNCHANGED <<people, deals, money, raised, round>>
  /\ UNCHANGED <<who, at, pay, arg, flag, todo, sum, failures>>

(* Mutant: the asset is left for the next recompute.                       *)
AssetSumSkipped(h) ==
  /\ Goto(h, "asset_sum", "round_sum")
  /\ UNCHANGED <<store, who, at, pay, arg, flag, todo, sum, failures>>

(* _recompute_asset_funding.                                               *)
AssetSum(h) ==
  /\ Goto(h, "asset_sum", "asset_write")
  /\ sum' = [sum EXCEPT ![h] = Active(Deals)]
  /\ UNCHANGED <<store, who, at, pay, arg, flag, todo, failures>>

AssetWrite(h) ==
  /\ Goto(h, "asset_write", "round_sum")
  /\ raised' = sum[h]
  /\ UNCHANGED <<people, deals, money, rows, round>>
  /\ UNCHANGED <<who, at, pay, arg, flag, todo, sum, failures>>

(* _update_round_progress.                                                 *)
RoundSum(h) ==
  /\ Goto(h, "round_sum", "round_write")
  /\ sum' = [sum EXCEPT ![h] = Active(Deals)]
  /\ UNCHANGED <<store, who, at, pay, arg, flag, todo, failures>>

RoundWrite(h) ==
  /\ pc[h] = "round_write"
  /\ round' = sum[h]
  /\ Finish(h)
  /\ UNCHANGED <<people, deals, money, rows, raised, failures>>

-----------------------------------------------------------------------------
(* Failures.                                                               *)

(* A database call fails: the handler is lost, what it has written stays.  *)
Abort(h) ==
  /\ pc[h] # "idle"
  /\ failures < MaxFailures
  /\ failures' = failures + 1
  /\ Finish(h)
  /\ UNCHANGED store

(* What _upsert_ownership leaves of the rows of each investor when no row  *)
(* existed: one row for those with active investments.                     *)
RebuiltRows ==
  [i \in Investors |-> IF \E d \in DealsOf(i) : deal[d] = "active"
                       THEN <<Active(DealsOf(i))>> ELSE <<>>]

(* The server restarts: every handler is lost, and before it serves again  *)
(* an investment without a contract is given one, the ownership registry   *)
(* is rebuilt if it is empty, and the asset is recomputed.  A contract     *)
(* that exists is left unlinked.                                           *)
Restart ==
  /\ failures < MaxFailures
  /\ failures' = failures + 1
  /\ LET bare == {d \in Deals : deal[d] # "absent" /\ contract[d] = "absent"}
     IN  /\ contract' = [d \in Deals |-> IF d \in bare THEN "sent" ELSE contract[d]]
         /\ linked' = linked \cup bare
  /\ rows' = IF \A i \in Investors : rows[i] = <<>> THEN RebuiltRows ELSE rows
  /\ raised' = Active(Deals)
  /\ pc'   = [h \in Handlers |-> "idle"]
  /\ who'  = [h \in Handlers |-> None]
  /\ at'   = [h \in Handlers |-> None]
  /\ pay'  = [h \in Handlers |-> None]
  /\ arg'  = [h \in Handlers |-> None]
  /\ flag' = [h \in Handlers |-> FALSE]
  /\ todo' = [h \in Handlers |-> {}]
  /\ sum'  = [h \in Handlers |-> 0]
  /\ UNCHANGED <<people, deal, intentOf, signatures, money, round>>

-----------------------------------------------------------------------------

Gates(h) ==
  \/ MoveReadKyc(h) \/ MoveFind(h) \/ \E d \in Deals : MoveWrite(h, d)
  \/ OpenReadKyc(h) \/ OpenFind(h) \/ \E d \in Deals : OpenReadContract(h, d)
  \/ OpenReadExisting(h) \/ OpenMove(h)
  \/ \E p \in Payments : OpenInsert(h, p)

Confirm(h) ==
  \/ ConfirmCredit(h) \/ ConfirmActivate(h)
  \/ OwnerSum(h) \/ OwnerFind(h) \/ OwnerWrite(h)
  \/ AssetSum(h) \/ AssetWrite(h) \/ RoundSum(h) \/ RoundWrite(h)

Serve(h) ==
  \/ ApproveReadKyc(h) \/ ApproveInsert(h) \/ ApproveContract(h)
  \/ ApproveLink(h) \/ ApproveClose(h) \/ RejectWrite(h)
  \/ KycWrite(h) \/ ViewWrite(h)
  \/ SignInsert(h) \/ SignWrite(h)
  \/ CancelWrite(h) \/ CancelReadDeal(h) \/ CancelDeal(h)
  \/ PaymentWrite(h)
  \/ Gates(h) \/ Confirm(h)

Arrive(h) ==
  \/ \E n \in Intents : RejectRead(h, n)
  \/ \E n \in Intents, d \in Deals : ApproveRead(h, n, d)
  \/ \E i \in Investors, s \in DOMAIN KycFrom : KycRead(h, i, s)
  \/ \E d \in Deals : ViewRead(h, d) \/ SignRead(h, d) \/ CancelRead(h, d)
  \/ \E p \in Payments, s \in DOMAIN PaymentFrom : PaymentRead(h, p, s)
  \/ \E p \in Payments : MatchRead(h, p)

Next ==
  \/ \E n \in Intents : FileIntent(n)
  \/ \E h \in Handlers : Arrive(h) \/ Serve(h) \/ Abort(h)
  \/ Restart

(* The event loop resumes every coroutine whose database call has come     *)
(* back; nothing obliges investors and admins to send requests.            *)
Fairness == \A h \in Handlers : WF_vars(Serve(h))

Spec == Init /\ [][Next]_vars /\ Fairness

-----------------------------------------------------------------------------

Steps == {"idle", "approve_kyc", "approve_insert", "approve_contract",
          "approve_link", "approve_close", "reject_write", "kyc_write",
          "view_write", "sign_insert", "sign_write", "cancel_write",
          "cancel_read_deal", "cancel_deal", "move_kyc", "move_find",
          "move_write", "open_kyc", "open_find", "open_contract",
          "open_existing", "open_insert", "open_move", "payment_write",
          "confirm_credit", "confirm_activate", "owner_sum", "owner_find",
          "owner_write", "asset_sum", "asset_write", "round_sum", "round_write"}

DocumentTypes ==
  /\ intent     \in [Intents -> {"absent", "submitted", "converted", "rejected"}]
  /\ kyc        \in [Investors -> KycStatuses]
  /\ approved   \in SUBSET Investors
  /\ deal       \in [Deals -> DealStatuses]
  /\ intentOf   \in [Deals -> Intents \cup {None}]
  /\ linked     \in SUBSET Deals
  /\ contract   \in [Deals -> ContractStatuses]
  /\ signatures \in SUBSET Deals
  /\ payment    \in [Payments -> PaymentStatuses \cup {"absent"}]
  /\ paysFor    \in [Payments -> Deals \cup {None}]
  /\ history    \in [Payments -> SUBSET PaymentStatuses]
  /\ credits    \in [Payments -> Nat]

HandlerTypes ==
  /\ pc   \in [Handlers -> Steps]
  /\ who  \in [Handlers -> Investors \cup {None}]
  /\ at   \in [Handlers -> Deals \cup {None}]
  /\ pay  \in [Handlers -> Payments \cup {None}]
  /\ arg  \in [Handlers -> Intents \cup KycStatuses \cup PaymentStatuses \cup {None}]
  /\ flag \in [Handlers -> BOOLEAN]
  /\ todo \in [Handlers -> SUBSET Deals]

TypeOK == DocumentTypes /\ HandlerTypes

Idle == \A h \in Handlers : pc[h] = "idle"

Funding(d) == SumFunctionOnSet(credits, {p \in Payments : paysFor[p] = d})

(* An active investment was paid for: the ledger credit of                 *)
(* confirm_payment_request comes before the activation, so no interleaving *)
(* and no lost handler gives a share without an entry.                     *)
ActiveIsFunded ==
  \A d \in Deals : deal[d] = "active" =>
    \E p \in Payments : paysFor[p] = d /\ credits[p] > 0

(* Money is booked only for a payment that its investor had submitted and  *)
(* that was then confirmed, by an admin or by a bank match, as its         *)
(* append-only history shows: the match of a bank transaction alone, with  *)
(* a request still awaiting payment, books nothing (the check of           *)
(* confirm_payment_request refuses it).                                    *)
PaymentWasSubmitted ==
  \A p \in Payments :
    credits[p] > 0 => {"paid", "confirmed"} \subseteq history[p]

(* No investment awaits payment, and no payment is asked, before both      *)
(* gates were passed: its contract carries a signature and its investor's  *)
(* KYC has been approved, however the handlers overlap.                    *)
PassedGates(d) ==
  d \in signatures /\ InvestorOf[intentOf[d]] \in approved

GatesWerePassed ==
  /\ \A d \in Deals :
       deal[d] \in {"awaiting_payment", "active"} => PassedGates(d)
  /\ \A p \in Payments : paysFor[p] # None => PassedGates(paysFor[p])

(* At rest the ledger has one funding entry for each active investment,    *)
(* and none for the others.                                                *)
FundedOnce ==
  Idle => \A d \in Deals :
            Funding(d) = IF deal[d] = "active" THEN 1 ELSE 0

(* At rest each investor has at most one ownership row, with the units of  *)
(* its active investments: "idempotent and self-healing" _upsert_ownership.*)
OwnershipIsActive ==
  Idle => \A i \in Investors :
            rows[i] = IF Active(DealsOf(i)) = 0 THEN <<>>
                      ELSE <<Active(DealsOf(i))>>

(* At rest asset.raised_amount and round.raised_amount are the sum of the  *)
(* active investments: I2 of lumen_consistency.py.                         *)
RaisedIsActive == Idle => raised = Active(Deals) /\ round = Active(Deals)

(* At rest a converted intent has become one investment, any other none.   *)
OneDealPerIntent ==
  Idle => \A n \in Intents :
            Cardinality({d \in Deals : intentOf[d] = n})
              = IF intent[n] = "converted" THEN 1 ELSE 0

(* An investment whose contract was cancelled is not active: "it can never *)
(* activate", says admin_cancel_contract.                                  *)
CancelledNeverActive ==
  \A d \in Deals : contract[d] = "cancelled" => deal[d] # "active"

(* Once KYC is approved and the contract signed, a payment request is      *)
(* opened: whichever of the two hooks comes last sees both.                *)
BothGates(d) ==
  /\ deal[d] \in Pending
  /\ contract[d] = "signed"
  /\ kyc[InvestorOf[intentOf[d]]] = "approved"

GatesOpenPayment ==
  \A d \in Deals : BothGates(d) ~> OpenRequests(d) # {} /\ ~BothGates(d)

(* Handlers that do not overlap and do not fail keep the promises of       *)
(* OfferingGates.                                                          *)
Promise == INSTANCE OfferingGates WITH
  investor <- [d \in Deals |-> IF deal[d] = "absent" THEN None
                               ELSE InvestorOf[intentOf[d]]],
  stage    <- deal,
  funded   <- [d \in Deals |-> Funding(d)]

ImplementsGates == Promise!Spec
=============================================================================
