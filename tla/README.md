# Verification of LUMEN

TLA+ specifications of LUMEN, a platform on which investors buy shares of real
estate: TLC checks them on small instances, TLAPS proves what matters most for
instances of any size. The code is Python (`src/backend`, FastAPI over MongoDB)
with a React frontend (`src/frontend`).

## 1. The system

### 1.1 What the repository holds

`src/backend/server.py` assembles two products. LUMEN is the `lumen_*.py` files.
The rest is the older product it grew out of (EVA-X, outsourcing of software
work: assignments, reviews, escrow, developer payouts, an event-sourced money
service). With `LUMEN_ONLY` set, `server.py` drops the older product's startup
handlers, hence its workers and schedulers (lines 207-262), and the older routes
that LUMEN's shadow (lines 28679-28720). LUMEN is the product the repository is
about, so it comes first here.

### 1.2 Components of LUMEN

| component | state it keeps | operations that change it | what makes it correct |
|---|---|---|---|
| primary offering (`lumen_investment_core.py`) | intents, investments, ownerships, raised sums of assets and rounds | file, approve, reject an intent; recompute ownership, asset, round | one investment per intent; sums equal the active investments |
| contracts (`lumen_contracts.py`) | contract status, signatures | generate, view, sign, cancel | signed once both parties mean it; a cancelled contract leads nowhere |
| KYC (`lumen_kyc.py`) | status of the investor's profile | edit, submit, approve, reject | no money from an investor who was never verified |
| payments (`lumen_payments.py`) | payment requests, ledger entries | open, submit, clarify, reject, confirm | funded once; active only if funded |
| wallets (`lumen_wallet.py`) | withdrawal requests, ledger debits, materialized wallet | create, cancel, decide, recompute | one debit per payment; nothing promised or paid that is not there; wallet equal to the ledger |
| secondary market (`lumen_secondary.py`) | listings, bids, trades, share transfers, ledger entries, ownership rows | list, unlist, bid, accept, reject, buy, settle | a settled trade moved its money and its shares exactly once; nothing sold twice |
| payouts (`lumen_payouts.py`) | plans, batches, records | generate, approve, credit, cancel a batch | each record credited once |
| unit registry (`lumen_unit_registry.py`) | units and cap-table events | recompute, record | units add up to the total (largest remainder) |
| audit (`lumen_consistency.py`) | none | reads and reports I1 - I13 | |
| two-factor (`two_factor.py`) | per account: enabled, secret, pending secret, recovery codes, trusted devices | set up, verify, cancel, disable, regenerate, revoke | nobody is locked out of an account |
| runtime client (`frontend/src/runtime-client`) | the de-duplication map, the token, the capability manifest; per call its attempt | request, prime, time out, retry, recover a session | nothing executed twice, every call ends |
| sign-in (`App.js`, the sign-in pages) | user, route, boot and sign-in requests of a tab; the session of its cookie | sign in, second step, reset, sign out, reload, redirect | the user shown is the user served |
| notices (`NotificationBell.js`, `socket.js`, the toasts) | badge, panel, requests on their way; socket; toasts | poll, open, mark read, connect | the badge follows the server |
| operator's and investor's cabinets (`frontend/src/pages/admin`, `.../investor`) | per page: filter, list, drawer, busy flags, requests on their way | filter, refresh, open, close, press a button | what is offered is accepted, what is shown is current, nothing stays disabled |
| reconciliation, lifecycle, statements, marketplace pages, rate limit | their own documents | | see PROJECT.json, `components` |

How they interact. There are no messages and no queues between components: they
call each other's functions and share MongoDB collections. The ledger
(`lumen_ledger_entries`) is append-only and shared by payments, payouts, wallets
and the secondary market; wallets, ownership rows, `raised_amount` and
`filled_units_uah` are *projections* of it and of other collections, recomputed
or incremented by whoever changed the source. Signing a contract and approving
KYC each call the two *hooks* `activate_ready_investments` and
`open_payment_requests_for_investor`, since either gate may be the last.
Confirming a payment calls the ownership, asset and round engines. Settling a
trade recomputes two wallets, and a purchase is checked against the settled balance,
of which the reserve of a withdrawal is part. The matching of bank transactions and the
webhook of the mock bank confirm payments through the same function as an admin.

The browser talks to the server by requests, and by nothing else that decides
anything: the socket only shows whether it is connected. The server keeps the
session of the cookie and the status of every document; a tab keeps copies of
them, the user of the last answer that named one and the lists and documents of
the last answers that brought some. The parts of the browser that are modelled
share no state with each other.

### 1.3 What is hard

Every request is served by a coroutine, and every database call is an `await`
at which other coroutines run. No handler takes a lock, uses a transaction, or
makes an update conditional on what it read: the pattern everywhere is *read
the document, check its status, then `update_one` by id alone*. MongoDB gives
atomicity of one call. So the hard behaviours are

- interleavings of two handlers between the check and the write,
- projections written from sums read some calls earlier,
- a handler that dies half way (an exception of the driver, a restart): nothing
  resumes it, except two backfills run at startup,
- the order of the writes, which decides what a half-done operation has left,
- the two gates of an investment, which may be passed in either order,
- in the browser, requests that are never cancelled: a page is left, a filter
  changed, another row opened, while an answer is on its way, and answers
  overtake each other,
- attempts that were given up and may have been executed, retries of them, and
  sessions that expire under several calls at once,
- several tabs of one person at work on one account.

`PROJECT.json` lists these as `hazards`, each at its line, with the properties
that cover it.

## 2. Modules

| module | models | lines of code it stands for |
|---|---|---|
| `WithdrawalRules` | constants, statuses and transitions of withdrawals, shared by the next two | `lumen_wallet.py` 66-99 |
| `LumenWallet` | withdrawals, ledger, wallet projection, and purchases as far as a wallet has them, call by call | `lumen_wallet.py` 146-387, `lumen_secondary.py` 188-224 |
| `WithdrawalLifecycle` | abstract: each withdrawal operation is one step | |
| `SecondaryMarket` | listings, bids, trades and their settlement, call by call | `lumen_secondary.py` 97-671 |
| `PrimaryOffering` | intents, investments, contracts, KYC, payment requests, ownership, call by call | `lumen_investment_core.py`, `lumen_contracts.py`, `lumen_kyc.py`, `lumen_payments.py` |
| `OfferingGates` | abstract: an investment passes its gates one by one | |
| `RuntimeClient` | the HTTP client: its chain of middleware around one fetch, the server as far as a call can tell | `runtime-client/` `core`, `middleware`, `adapters` |
| `SessionClient` | signing in and out in one tab | `App.js`, `UnifiedAuthPage.js`, `AdminLoginPage.js`, `TwoFactorChallengePage.js`, `ForgotPasswordModal.js` |
| `TwoFactorClient` | enrolling and managing the second factor in several tabs, with the handlers of the account | `TwoFactorSetupPage.js`, `TwoFactorSetupModal.js`, `TwoFactorRecoveryPage.js`, `backend/two_factor.py` |
| `NoticesClient` | the bell, the badge of the socket, the toasts | `NotificationBell.js`, `socket.js`, `useRealtime.js`, `Toast.js`, `ToastBridgeMount.js` |
| `Client` | composes the four: one part runs in a behaviour | |
| `CabinetHandlers` | for every operation of a page, the statuses its handler accepts and writes | the `lumen_*.py` routers |
| `PageShape` | the record a page of a cabinet is described by | |
| `AdminPages`, `InvestorPages` | every page as such a record | `pages/admin`, `pages/investor` |
| `Cabinet` | one page in a tab against the server | |
| `FiniteSums` | lemmas: what `SumFunctionOnSet` returns for a finite set of indices | |
| `LumenWallet_proof`, `SecondaryMarket_proof`, `PrimaryOffering_proof`, `RuntimeClient_proof`, `SessionClient_proof`, `Cabinet_proof` | theorems of the module each is named after | |
| `Client_proof` | theorems of `TwoFactorClient` and of the composition `Client` | |
| `MCLumenWallet`, `MCSecondaryMarket`, `MCPrimaryOffering`, `MCClient`, `MCCabinet` | instances for TLC | |

### 2.1 How server code becomes actions

The three detailed modules of the server share one scheme. `Handlers` is a set of coroutines.
`pc[h]` names the database call handler `h` waits for, and one action is the code
from one call up to and including the next; reads that no decision depends on are
merged with their neighbours. What a handler keeps in Python locals between two
calls is in variables indexed by handler (`req`, `seen`, `arg`, `todo` ...).
`Goto(h, from, to)` moves on; `Finish(h)` answers the request and forgets the
locals. `Arrive` collects the first steps of requests, `Serve` (and `Settle`,
`Gates`, `Confirm`) the further steps. `Abort(h)` is a database call that raises,
or a server that stops: the handler's writes stay, the rest never happens.

With one handler requests are served one after another; with two they overlap
at every await. What the code promises holds, in general, with one; the
`_serial` runs check that. What holds although handlers overlap and die is
checked by the `_concurrent` runs and proved. This split is the main result:
which promises rest on requests not overlapping, and which do not.

### 2.2 LumenWallet

`status`, `history`: the withdrawal requests; `debits[r]` counts ledger debits
caused by `r`, `refs[r]` the fields of the entry that name the request (it is
appended first and linked by a second call); `income` the credits an investor got from
payouts and market sales, `spent` the debits of its purchases on the market; `wallet`
the projection. The wallet also knows the reasons `refund` and `adjustment`, which no
code writes. Filing reads ledger, then pending requests, then inserts; an admin's
decision to pay appends the debit, links it, then writes the status; a purchase reads
the settled balance and then appends its debit (the shares are `SecondaryMarket`'s);
every operation ends with a recompute of two reads and a write. The purchase is what
makes the reserve one of name only: `OnlyPurchasesUncover` says that nothing else takes
a ledger below what the waiting requests need, `NoNegativeWallet` shows where it leads.

### 2.3 SecondaryMarket

One asset. `booked[t]` counts the ledger entries of trade `t` by reason,
`transfers[t]` its share transfers. Owned shares (`Owned`) and ledger balances
(`LedgerSettled`) are computed from them as the code computes them, while `row`,
`wallet` and `listing[l].filled` are the stored projections. `_settle_trade` is
16 actions in the order of its calls; a failed wallet recompute is caught and
logged by the code (`RecomputeFails`), any other failure is `Abort`.

Simplifications: the two transfer queries of `compute_ownership_uah` are one
read, as are the batches of one cursor; every investor has an ownership row at
first; money is integral and the fee is rounded to the nearest unit (the code
rounds to kopecks); the demo seed is left out.

### 2.4 PrimaryOffering

`deal[d]` is the status of an investment, `contract[d]` that of its contract (the
code makes at most one per investment), `linked` the investments whose
`contract_id` is set, `signatures` the contracts with a signature row. `payment`,
`paysFor`, `history`, `credits` are the payment requests and their ledger
entries. `rows[i]` is the sequence of ownership rows of an investor, for two
confirmations may both find none and insert. `approved` remembers who was ever
approved and is read only by properties.

`KycRead(h, i, s)`/`KycWrite(h)` stand for the four operations that read the KYC
status and later overwrite it with `s` (edit, submit, approve, reject): the
statuses from which each is let through are in `KycFrom`. `PaymentRead`/
`PaymentWrite` do the same for the four operations on a payment request
(`PaymentFrom`). Approval and confirmation go on to further calls; the others end.
A confirmation is an admin's or that of a bank match, by an admin, by the matching
itself or by the mock bank's webhook (`MatchRead`): they all call
`confirm_payment_request`, whose check of the status refuses a request that is still
awaiting payment. Recomputing the match candidates changes nothing here.

Simplifications: one asset with one round, open throughout; a KYC profile counts
as complete once it was edited; the mirror `users.kyc_status`, read only for users
without a profile, is left out; statuses that no code writes (`expired`,
`generated`, `draft` contracts, `cancelled` payments ...) do not occur; payment
proofs are left out, so a payment may be submitted whenever its status allows.
`Restart` is the startup code as one step, because no request is served before it
ends: it gives a contract to an investment that has none
(`_sprint4_bootstrap`; one that has a contract is not linked to it), rebuilds the
ownership rows if there are none at all (`RebuiltRows`) and recomputes the asset
(`backfill_historical_payments`). The parts of those backfills that deal
with documents older than the payment layer never apply to documents this model
creates: an active investment always has a payment request and a contract here.

### 2.5 The browser

JavaScript gives the thread up only at an `await`, so an action is the code from
one answer, timer or click to the next request. A request is *sent*, then *served*
(an atomic step of the server, except in `TwoFactorClient`, whose handlers read the
account in one step and write it in another), then *answered*; between the three
anything else may happen, and an answer finds the page as it is by then.

- `RuntimeClient`. `at[c]` is where call `c` waits in the chain (token, promise of
  another call, wire, backoff, recovery), `inflight` the entry of the
  de-duplication map, `late[c]` an attempt the client gave up and the server may
  still execute, `applied[c]` how often the server has executed the call.
  `Finished` is the retry loop, `Settle` the end of the chain with the followers of
  a shared promise. All the calls that may share a promise ask for one URL, the
  only case in which they meet.
- `SessionClient`. `session` is the server's, `user`, `loading` and `boot` are the
  `AuthProvider`'s, `job` is the sign-in request of the tab, `dialog` the reset of a
  password. `Render` are the effects that redirect. `stray` remembers that somebody
  signed in over another session, which the application does not guard against and
  the property excepts. There are three roles: `client`, `admin`, and `developer` for
  those no route allows, who are redirected in a circle.
- `TwoFactorClient`. `account` is the user document, `tab[t]` what a tab shows, with
  the state the closed dialog keeps, `cancelling` the clean-ups on their way,
  `scanned` what is in the person's authenticator.
  A write that was served may lose its answer (`AnswerLost`).
- `NoticesClient`. `badge` and `panel` are the component's state; `poll`, `fetch`,
  `marks` and `readAll` the requests on their way, each with the answer it was given.
- `Cabinet`. The thirty-odd pages of the two cabinets are variations of one: a list
  under a filter, a drawer, card or form, and buttons. `PageShape` names the
  variations, `AdminPages` and `InvestorPages` say which a page has, with one
  record `Act(request, statuses it is offered on, place, busy flag, steps that
  follow)` for each button. A *chain* is one run of an asynchronous function of a
  page: it waits for an answer, changes the screen by the steps of its next stage,
  and sends the next request, with the filter that was selected when it started. A
  chain whose drawer is gone can free nothing of it (`Drop`). `CabinetHandlers` gives
  the server's half: an operation that finds another status is refused and changes
  nothing. Matching a bank transaction may be refused for a reason that is not in its
  own document, the status of the payment (`DeniedElsewhere`).

Simplifications of `Cabinet`: a list is loaded whole (searching and paging are left
out); a lost request is one the server never executes (`RuntimeClient` has those it
executes late); `loading` is set by every reload, and `solid` says whether the list
stays usable meanwhile; a page with several lists is modelled by the one its buttons
act on; one document stands for a whole set where a button acts on all (marking all
read, reconciling); the texts of notes and templates are left out.

## 3. Abstract specifications

`WithdrawalLifecycle` has one step per withdrawal operation: a request is filed
only if the available balance covers it, moves along the documented lifecycle, and
leaves the balance when it is paid; a purchase is checked against the settled balance
and not the available one, as in the code. `OfferingGates` has one step per gate of an
investment: reserve, pass KYC, await payment, fund, activate, cancel, each with
the condition that must hold *at that moment*. The detailed modules instantiate
them with a refinement mapping and check `ImplementsLifecycle` and
`ImplementsGates` with one handler. With two handlers neither refinement holds:
a status may be overwritten after its condition has gone. Both refinements are
also proved (section 5).

## 4. Runs

| run | instance | shows |
|---|---|---|
| `wallet_serial` | 2 investors, 3 requests, 1 handler | one debit per payment, only purchases on the market take a ledger below its reserve, the wallet is the ledger at rest, refinement of `WithdrawalLifecycle` |
| `wallet_concurrent` | 1 request, 2 handlers, 2 lost handlers | paid implies debited and linked; only approved requests are debited; a terminal request nobody holds stays closed |
| `wallet_double_debit` | 1 request, 2 handlers | violation: two admins paying one request debit twice |
| `wallet_reserve_spent` | 1 request, 1 handler | violation: a purchase spends what a withdrawal has reserved, and paying the withdrawal makes the wallet negative |
| `market_serial` | 2 listings, a bid, 3 trades, 3 investors, 1 handler | no overselling, fills, rows and wallets agree with trades, transfers and ledger; nobody spends or lists what it does not have; a bid is traded once; closed listings stay closed |
| `market_concurrent` | 1 listing, a bid, 2 trades, 2 handlers, 1 failure | I11, I12, and a half-done settlement gave nothing away |
| `market_oversold` | 1 listing, 2 trades, 2 handlers | violation: a listing sold twice |
| `offering_serial` | 2 investors, 3 intents, 2 investments, 2 payment requests, 1 handler | one investment per intent, one funding entry per active investment, ownership, asset and round agree, gates passed in any order open the payment, refinement of `OfferingGates` |
| `offering_concurrent` | 1 intent, 2 handlers, 1 failure or restart | active implies funded, funded implies submitted and then confirmed, by an admin or a bank match, asked for payment implies signed and verified |
| `offering_cancelled` | 1 intent, 2 handlers | violation: a contract cancelled while it is signed belongs to an investment that becomes active |
| `client` | 2 calls with 1 retry; 3 people: a client, an administrator with a second factor, a person whose role no route allows; 2 tabs, 2 secrets; 1 notification, 2 polls | a change without an idempotency key is executed once; a shared promise is that of a call on its way; the user shown is the one signed in; an enabled second factor is in the authenticator; calls end; the badge comes back to the count |
| `cabinet` | every page, 2 documents, 2 chains, 3 events of which 1 upset | buttons held until the reload are not refused, the list and a drawer that was read are current at rest, nothing is left disabled or loading |

Bounds, and why they are enough.

- Handlers. Every race here is between the check of one handler and the write of
  another, or between two recomputes: two handlers show each of them.
- Identifiers. Two requests, trades or investments of one investor are needed for
  a sum to be wrong in part, and a second investor for one to be charged for
  another; the serial instances have both. The concurrent ones have one contended
  document, the shape of every race found.
- Amounts differ where a sum has several terms, so that a sum tells which terms it
  has. The market's fee of 20 percent rounds to 0 for one unit and to 1 for two,
  so both branches of the fee run. The comparisons' tolerance (`Slack`) is below
  the unit, hence 0.
- `MaxAborts`, `MaxFailures` bound lost handlers and restarts: a single one leaves
  every half-done operation; the wallet runs allow two so that what a lost handler
  left is lost upon again.
- `MaxDebits`, `MaxCredits` stop an operation from being *started* once its
  document has been debited or credited more than that often. At 1, two
  overlapping operations are still both started, and one may follow a
  first that was lost after its ledger entry.
- `MaxIncome` and `Credits` bound what payouts and sales bring into a wallet; `Prices`
  are those of purchases, and an investor who has spent `MaxSpent` or more starts no
  further one. One purchase is enough to spend a reserve.
- `market_concurrent` declares handlers and trade ids symmetric, `cabinet` its
  documents, which are alike at first; both check invariants only.
- `client`. A second call is enough to share a promise and to overtake, a second
  attempt to be executed twice. Two people tell the user of the tab from the user of
  the cookie, and the third has a role without a home; two tabs one enrolment from the other. A tab has one sign-in request
  at a time (its buttons are disabled), and does not leave the page that waits for
  the reset of a password; `Errors` bounds the polls that fail and `Clicks` the clicks
  on one notification. The recovery codes are one value: which of the ten is used up
  no property tells apart. Each behaviour runs one of the parts, which share no state.
- `cabinet`. `Chains`, `Events` and `Upsets` bound what runs at once, the clicks, and
  what goes wrong: a request lost, or a document changed by somebody else. The races
  found (a filter left, a drawer reopened, a decision overtaken by a reload) need two
  chains and two clicks, and an upset in the middle of them.

What the properties of `cabinet` except. `calm` says that so far nothing was lost,
refused, overtaken by another answer or changed by others: with such luck the code
promises nothing about what is shown. `HeldButtonsAreAccepted` speaks of the
`Careful` pages, those whose buttons share one flag that is given back with the
reload: AdminKyc, AdminIntents, AdminContracts, InvestorContracts and the like. On the
others a refusal does happen (section 6). `ShownIsFresh` speaks of drawers that were
read, not of those that show a row of the list.

Deadlock. It is checked in the wallet, market and client runs. `cabinet` stops when its
events are used up and says `CHECK_DEADLOCK FALSE`. The offering really may
stop, when every identifier is used, every intent is decided, every contract
cancelled or signed and every payment confirmed, so its configurations say
`CHECK_DEADLOCK FALSE`.

Fairness. `PrimaryOffering` assumes weak fairness of `Serve(h)`, the further steps
of a handler that has been started: the event loop resumes every coroutine whose
database call has come back. Nothing is assumed of users and admins. It is used by
`GatesOpenPayment` in `offering_serial`: once the contract is signed and KYC is
approved a payment request comes to be open, whichever came last.

`Client` assumes weak fairness of what the browser does by itself: of the storage
that yields the token and the promises and backoff timers of a call (`Prime`,
`Proceed`), of the timer of an attempt (`TimeOut`), of the interval that polls and the
answer to a poll (`PollRuns`). Of the server and the network the HTTP client assumes
nothing, the arrival of a body (`BodyRead`) included: `CallsSettle` holds although they
never answer, with the one exception it names (`AwaitsBody`), a call whose body, or that
of the call whose promise it shares, has not ended, for which the code has no timer.
Nothing is assumed of the user.

One request at a time. The properties of the `_serial` runs are about handlers that do
not overlap; with two handlers most of them are false, and a run shows that of
`OneDebitPerPayment` and `NotOversold`. A property listed under a hazard of `PROJECT.json`
that needs overlapping handlers has a note there if it is checked serially only.

Each property has a mutant in `PROJECT.json`: a plausible mistake in one mapped
definition that makes TLC find it violated. The mutated definitions stand before
the originals in the modules, marked `Mutant`.

## 5. What is proved

For every value of the constants, that is for any number of investors, documents,
handlers and failures:

| module | theorem | establishes |
|---|---|---|
| `FiniteSums` | (lemmas) | a sum over a finite set is an integer, splits off an element, changes by what one term changes, does not depend on terms that agree |
| `LumenWallet_proof` | `TypeCorrect`, `PaidIsDebitedAlways`, `DebitWasApprovedAlways`, `TerminalIsFinalAlways` | the properties of `wallet_concurrent` |
| `SecondaryMarket_proof` | `TypeCorrect`, `TransferMatchesTradeAlways` (I11), `TradeConservedAlways` (I12), `NothingForNothingAlways` | the properties of `market_concurrent` |
| `LumenWallet_proof` | `OneDebitPerPaymentAlways`, `ImplementsLifecycleAlways` | with one handler and none lost: one debit per payment, and the refinement of `WithdrawalLifecycle` |
| `LumenWallet_proof` | `OnlyPurchasesUncoverAlways`, `BalanceInvariant`, `WalletIsLedgerAlways` | with one handler and none lost: no operation on withdrawals takes a ledger below what the waiting requests need, only a purchase on the market does; and at rest the wallet is the ledger and the reserve |
| `SecondaryMarket_proof` | `BidTradedOnceAlways`, `ClosedListingStaysAlways` | with one handler and none lost: a bid is traded once, a closed listing stays closed |
| `SecondaryMarket_proof` | `BalanceInvariant`, `NotOversoldAlways`, `FillIsSoldAlways`, `ListedIsOwnedAlways`, `RowsAreOwnedAlways`, `WalletsAreLedgerAlways`, `CashCoversAlways` | with one handler and none lost: the sums of `market_serial`, for any prices, fee and tolerance (`CashCoversAlways`: a fee of at most 100 percent) |
| `PrimaryOffering_proof` | `TypeCorrect`, `ActiveIsFundedAlways`, `PaymentWasSubmittedAlways`, `GatesWerePassedAlways` | those of `offering_concurrent` |
| `PrimaryOffering_proof` | `OneDealPerIntentAlways` | with one handler and none lost: a converted intent is one investment, any other none |
| `PrimaryOffering_proof` | `SumInvariant`, `FundedOnceAlways`, `OwnershipIsActiveAlways`, `RaisedIsActiveAlways`, `ImplementsGatesAlways` | with one handler and none lost: one ledger credit per active investment, ownership rows and raised amounts are the sums of the active investments, and the refinement of `OfferingGates` |
| `RuntimeClient_proof` | `RuntimeTypeCorrect`, `AppliedOnceAlways`, `InflightIsLiveAlways` | safety of the HTTP client, for any calls, configurations and number of retries |
| `SessionClient_proof` | `ShownIsSignedInAlways` | the user shown is the user of the cookie |
| `Client_proof` | `EnabledSecretIsScannedAlways` | an enabled second factor is in the authenticator, for any number of tabs |
| `Client_proof` | `ClientImplementsParts`, `ClientInvariants` | a behaviour of `Client` is one of each of its parts, so their theorems are theorems of the run's specification |
| `Cabinet_proof` | `NothingLeftBusyAlways`, `ShownIsFreshAlways`, `HeldButtonsAreAcceptedAlways` | the properties of `cabinet`, on every page, for any number of documents, functions at once, clicks and upsets |

Assumptions: only the named ones on the constants (`RequestsAssumption`,
`HandlersAssumption`, `MarketAssumption`, `OfferingAssumption`, `RuntimeAssumption`,
`SessionAssumption`, `TwoFactorAssumption`, `NoticesAssumption`, `CabinetAssumption`):
amounts are
natural numbers, `None` and its like are none of the identifiers, each document has its
owner, and the sets a sum runs over (requests; listings and trades; investments and
payment requests) are finite, which says that the database holds finitely many
documents: what a sum over infinitely many of them is, nobody has defined. The
number of investors, handlers, tabs and calls is not restricted. The serial theorems have the hypothesis `OneHandler`
(two handlers are one, and none may be lost). TLC evaluates the assumptions in the runs. One theorem has a further hypothesis: `CashCoversAlways` takes
`FeePct <= 100`. The fee is a number from the environment that nothing checks
(`lumen_secondary.py` 62), and with a fee above the price the seller's credit is
negative, so a seller without money would go below zero.

The arguments.

- *Wallet.* `PaidIsDebited` says a status and `DebitWasApproved` a ledger entry
  imply something earlier. Neither is inductive, because an admin handler writes
  what it decided three calls before. `IInv` adds that a handler about to write
  `paid` has debited (`DebitKnown`), that a handler bound for `processing` or
  `paid` read a status that approval precedes (`ApprovalKnown`), and which locals
  a handler has at which step (`HandlersOK`). All of it is about histories and
  counters that only grow, so other handlers cannot falsify it.
- *Settlement.* A trade is worked on by one handler, the one that inserted it
  (`Exclusive`): there is no operation that resumes a settlement. Hence what is
  booked and transferred for the trade is a function of the step that handler has
  reached (`Progress`), and nothing is booked for a trade not inserted
  (`Untouched`). I11, I12 and `NothingForNothing` follow from the order of the
  calls. That the arguments survive failures is immediate: `Abort` drops the
  handler and leaves the trade pending. The types (`MarketTypes`) are not quite
  plain: units of an acceptance are natural numbers only because an open listing never
  shows more filled than it offers, which holds even of a listing sold twice.
- *Settlement and offering, one request at a time.* `ListingKnown`, `BidKnown` and
  `IntentKnown` say that the status a handler has read is still that of its document;
  this is what overlapping handlers break. From it, a traded bid is closed or about to be
  marked (`BidsClosed`), so it is not taken up again (`TradedOnce`); and an intent is
  submitted until its investment exists, converted or about to be from then on
  (`IntentDeals`).
- *Sums.* `SumFunctionOnSet` of the community modules is a fold over a recursive
  function, and an induction over the elements of a set is out of reach as a rule,
  for it takes a theorem with an operator as parameter. `FiniteSums` proves each fact by
  a smallest counterexample instead: the strict subsets of a finite set are well
  founded, so among the subsets for which a fact fails one is minimal, and taking an
  element out of it gives a contradiction.
- *Market, one request at a time.* A settlement writes its projections one by one
  after the ledger and the transfer, so between two of its calls they disagree with
  the sums by what it has still to write; nobody else is at work. `FillFits` says by
  how much a fill is behind, `RowFits` and `WalletFits` which rows and wallets may be
  stale and that what the handler read before a write is still the sum, `CashFits`
  that a buyer about to be debited has the money, `ListedFits` that what is listed
  and not yet sold is owned. The latter is where the tolerances of the code add up:
  each sale may exceed what remained by half a hryvnia; neither the fill nor the shares
  are capped, only what counts as still listed never falls below nothing, so an owner may
  end with one tolerance less for each of its sales. `ListedIsOwned` therefore allows one for the listing and one for
  each sale; with the single tolerance of the check it is false as soon as `Slack` is
  positive, which the instance of `market_serial`, with `Slack` 0, could not show.
- *Offering.* The invariant states what a handler knows between two calls
  (`DealKnown`, `InvestorKnown`, `PaymentKnown`) in terms nobody can falsify:
  signatures, approvals, histories and ledger entries only grow, an inserted
  investment keeps its intent, a request keeps its investment. A status that was
  read is not among them: the proof never uses that it still holds, which is why
  the theorems survive overlapping handlers and the refinement does not.
- *Offering, one request at a time.* `SumInv` adds what a confirmation has still to
  write: an investment has a request at most once (`RequestFits`) and its credit exactly
  when it is active or about to be (`FundingIs`); an ownership row and the raised
  amounts lag behind only between the activation and their write (`RowsFit`,
  `RaisedFits`), and what was summed for the write is still the sum. Each write of a
  document is then one step of `OfferingGates`, because the condition that was read
  still holds (`ReadHolds`); this is where the proof needs that requests do not overlap.
- *Wallet, one request at a time.* What a handler has checked still holds when it
  writes (`ChecksHold`), because nobody else writes meanwhile; the debits fit the
  statuses and the step the handler has reached (`DebitsFit`), and which locals are
  set is a matter of the step (`Shapes`). A create, a cancellation or a decision maps
  to one step of the lifecycle, at the write of the status for most and at the debit
  for `paid`; the calls before and after stutter. The balances of the two levels are
  sums over the same set of the same values, so for the refinement they need only be
  compared. What an
  investor has free has to be computed: it is its credits less its purchases and what
  its requests have committed, reserved and paid alike (`FreeFits`), so the debit and
  the status of a payment cancel out, a new request takes what the check before
  compared with the ledger, and only a purchase takes more. A step that moves the
  balances of an investor is followed by the recompute of its wallet, which has read the
  sums as they still are (`WalletFits`).
- *HTTP client.* The server can execute a call as often as attempts of it were sent
  and not refused; `Budget` says that a change without a key has been executed, or is
  on the wire, or is late, but only one of them, since neither the retry loop nor the
  recovery repeats what may have been executed: a retry needs a key, a recovery a 401.
  `Live` says which calls hold the entry of the map and which wait for it.
- *Session.* Two requests write the cookie's session and the tab's user. That the
  two agree at rest rests on who may be on the way: a sign-in started by nobody leaves
  nobody's session behind until it answers (`SignsInAlone`), and the answer of the
  mount is still the cookie's user when it comes (`BootIsCurrent`).
- *Second factor.* A code that is on its way was computed from a secret the person
  had scanned, and the secret a verification read and will write is the one its code
  was checked against (`CodesAreScanned`): that the pending secret may be another by
  then no longer matters. This is what the mutant that writes the pending secret of
  the moment loses.
- *Cabinet.* What the proof needs of a page is stated once (`PageFits`): a button that
  holds a flag comes to a step that gives it back, one that changes a document comes to
  a reload or writes its answer in the row, on a careful page every status it is offered
  on is one its handler accepts. Each of the pages is shown to fit (`PagesFit`);
  from then on the proof is about any page that does, not about sixty-eight cases. The
  invariants say that whatever is amiss on the screen has a chain under way that will
  put it right. For a flag or a mark that is a chain that gives it back (`FlagsInv`),
  also when a request fails. For an outdated row or drawer it is a load, a chain that
  comes to one, or the answer to a button that is out and still what the server has
  (`FreshInv`); a chain that is answered either puts things right or is one stage nearer
  (`FollowsMends`), and the server makes a row untrue only for the chain it answers
  (`ExecutedMends`). On the careful pages that chain holds the flag (`HeldInv`), so a
  button enabled meanwhile is offered on what the server has. The exception are reads
  that change a status, of a contract that is marked viewed: the row shows it only when
  the answer is there (`Marking`), and its buttons accept both (`MarksFit`).
- *Composition.* A step of one part leaves the variables of the others alone, so it
  is a step of that part's specification and a stutter of the others'.

Each step lemma has one step per action. Every invariant and every safety action
property the runs check is a theorem, and so are both refinements. Model-checked only:
liveness (`GatesOpenPayment`, `CallsSettle`, `BadgeCatchesUp`), which
with ENABLED is out of the prover's reach. Each needs fairness of steps that are not
always enabled. The four violations of section 6 are counterexamples and stay with TLC.

## 6. Findings

Four statements of the repository's code and tests that the code does not
keep, each with a run and the lines (`findings` in `PROJECT.json`). A withdrawal
may be debited twice, a listing oversold, a cancelled contract's investment
activated, all by two overlapping handlers; these disappear with updates conditional on
the status that was read. The fourth needs no overlap: a purchase on the secondary
market is checked against the settled balance, so it may spend what a withdrawal has
reserved, and since paying the withdrawal checks no balance, the wallet becomes negative,
which I6 of `lumen_consistency.py` says it never is.

Two disagreements met on the way that no run shows:

- `lumen_bank_reconciliation.py` 49-51 and `lumen_banking.py` 19-22 say that a matched
  transfer confirms the payment, and the matching offers requests that are still awaiting
  payment. `confirm_payment_request` refuses those (`lumen_payments.py` 337).
  `attempt_match` logs the refusal and leaves the transaction unmatched (248-250);
  `admin_force_match` passes it on. `MatchRead` has the refusal.
- A person whose role is neither `client` nor `admin` is redirected for ever between two
  pages (`App.js` 162-168). The model has such a person, and no property says that
  redirects end.

What the models of the browser showed, of which no comment or test says otherwise, so
that it is recorded here and in the exceptions of section 4 and is no finding:

- The drawer of a certificate shows the row and then what it read; opened during a
  reconciliation it goes on showing as active a certificate that was voided
  (`AdminCertificates.js` 70).
- The drawer of a payment copies it once; of two payments clicked quickly the second
  answer leaves the first on the screen (`InvestorPayments.js` 203). The timer that
  closes it after a submission closes whichever is open by then (247).
- Decisions on a payment are enabled again before the reload they ask for has come
  (`AdminPayments.js` 181), and in a list whose busy flag names one row pressing in a
  second row enables the first (`AdminBankTransactions.js` 54): the second request is
  refused. A checkout is offered on a rejected payment, which the server refuses
  (`InvestorPayments.js` 302, `lumen_banking.py` 278).
- The administrator's sign-in page refuses a client after the server has opened the
  session (`AdminLoginPage.js` 57): the tab shows nobody, the cookie is the client's.
- A page left while the second factor is being set up leaves a pending secret
  (`TwoFactorSetupPage.js` 36). It is harmless: nobody can verify it.

## 7. Plan

Done: withdrawals, settlement and offering with their abstract specifications and
theorems, the refinements and the sums of the serial runs included; the browser: HTTP
client, sign-in, second factor, notices, both cabinets, with theorems for the safety of
all but the notices, whose one property is liveness. What remains, most important first:

1. `Payouts` (`lumen_payouts.py`): generation of a batch against the ownership rows,
   and its credit record by record. Hazards: two overlapping `credit_batch`, a crash
   between the ledger entry and the record's status followed by a retry, cancellation
   during credit, shares sold between generation and credit.
2. `InvestorCash`: composition of wallet, market and payouts over one ledger. So far
   `LumenWallet` has the ledger entry of a purchase and `SecondaryMarket` its shares,
   each without the other.
3. `UnitRegistry`: largest remainder against a reference definition; the units add
   up to the total; recompute overlapping a settlement.
4. Ownership lifecycle; payment proofs, one of which may be deleted while its payment is
   submitted (`lumen_payments.py` 872); one-time codes.
5. The older product: `payouts_v2` (leases, reaper, retries, provider events) and
   the money service (append with an idempotency key, projections, replay).

## 8. Not modelled

Components with status `not_modelled` in `PROJECT.json`, with the reason. In short: the
older product, which `LUMEN_ONLY` does not serve; read-only reports, statements,
exports and the audit; the unit registry and the ownership lifecycle; the landing page,
the dictionary, themes and widgets, which keep no state another part reads;
`RealtimeBridge.js`, which no page mounts. Within the modelled components:
notifications and audit records (they decide nothing), wording, seeds of demo data,
file storage, telemetry and the stored copy of the capability manifest, the content of
forms, client-side search, and, on the server, authentication (each operation is taken
by the user entitled to it; `SessionClient` and `TwoFactorClient` have it in the browser).
