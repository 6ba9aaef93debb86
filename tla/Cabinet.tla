------------------------------- MODULE Cabinet -------------------------------
(***************************************************************************)
(* One page of the cabinet in a browser tab against the server.  A chain   *)
(* is one run of an asynchronous function of the page: it sends a request, *)
(* waits, changes what is shown, sends the next.  Chains interleave: a     *)
(* filter chosen, a row opened or a button pressed while a request is out  *)
(* starts another chain, and the answers come back in any order.  A chain  *)
(* keeps the filter that was selected when it was started.                 *)
(***************************************************************************)
EXTENDS AdminPages, InvestorPages, Naturals

CONSTANTS Docs,     \* the documents of the page
          NoDoc,    \* shown by a closed drawer
          Chains,   \* bound: asynchronous functions running at once
          Events,   \* bound: clicks of the user and upsets together
          Upsets    \* bound: requests lost and documents changed by others

ASSUME CabinetAssumption ==
    /\ Chains \subseteq Nat /\ 1 \in Chains
    /\ Docs \cap {NoDoc, "drawer", "page"} = {}

\* The pages the routes open.
Pages ==
    [plans |-> PlansTab, batches |-> BatchesTab, export |-> PayoutExportPage,
     kyc |-> KycQueue, contracts |-> ContractsRegistry, templates |-> TemplatesManager,
     certificates |-> CertificatesPage, registry |-> RegistryOverview, intents |-> IntentsPage,
     questions |-> QuestionsPage, bank |-> BankTransactionsPage,
     accounts |-> FundingAccountsPage, payments |-> PaymentsPage,
     withdrawals |-> WithdrawalsPage, sop |-> SopPage, asset |-> AssetEditor,
     health |-> SystemHealthPage, legal |-> LegalSettingsPage, media |-> MediaTab,
     team |-> TeamTab, risks |-> RisksTab, updates |-> UpdatesTab, reports |-> ReportsTab,
     docs |-> DocsTab, qa |-> QaTab, spv |-> SpvTab, intel |-> IntelTab,
     community |-> CommunityTab, secondary |-> SecondaryMarketPage,
     intelligence |-> FundIntelligencePage, audit |-> AuditLogPage,
     operations |-> OperationsPage, ledger |-> LedgerPage, dashboard |-> DashboardPage,
     assets |-> AssetsPage, investors |-> InvestorsPage, reporting |-> ReportsPage,
     rounds |-> RoundsPage, documents |-> DocumentsPage, settings |-> SettingsPage,
     myPayments |-> MyPaymentsPage, myWallet |-> MyWalletPage, myContracts |-> MyContractsPage,
     myCertificates |-> MyCertificatesPage, myUnits |-> MyUnitsPage, myProfile |-> MyProfilePage,
     preferences |-> NotificationPreferences, browse |-> BrowseTab, holdings |-> HoldingsTab,
     listings |-> ListingsTab, bids |-> BidsTab, trades |-> TradesTab, assetPage |-> AssetPage,
     assetQa |-> AssetQaTab, economics |-> Economics, assetIntel |-> AssetIntelligence,
     badges |-> AssetScoreBadges, assetCommunity |-> AssetCommunity,
     myNotifications |-> MyNotificationsPage, opportunities |-> OpportunitiesPage,
     portfolio |-> PortfolioPage, myDocuments |-> MyDocumentsPage,
     myDashboard |-> MyDashboardPage, income |-> IncomePage, journey |-> JourneyPage,
     analytics |-> AnalyticsPage, publicAsset |-> PublicAssetPage,
     verify |-> CertificateVerifyPage]

VARIABLES page,     \* the page that is open
          docs,     \* server: the status of every document
          filter,   \* the filter selected
          screen,   \* what is shown: list, card, and the flags
          chains,   \* the chains
          clicks, upsets,
          calm      \* nothing was lost, refused, overtaken or changed by others

cabinetVars == <<page, docs, filter, screen, chains, clicks, upsets, calm>>

P == Pages[page]
Closed == [doc |-> NoDoc, status |-> "none"]
Idle == [kind |-> "idle"]
Running == {k \in Chains : chains[k] # Idle}

\* A chain that waits for the answer to a request (or, "timer", for a delay):
\* the document it is about, the busy flag it holds, the steps that remain.
Waiting(kind, op, d, hold, filt, then) ==
    [kind |-> kind, op |-> op, doc |-> d, hold |-> hold, filter |-> filt, then |-> then,
     state |-> "sent", got |-> docs]

Through(statuses, filt) == [d \in Docs |-> IF statuses[d] \in filt THEN statuses[d] ELSE "none"]

CabinetInit ==
    /\ page \in DOMAIN Pages
    /\ \E s \in P.states : docs = [d \in Docs |-> s]
    /\ filter = P.first
    /\ screen = [list |-> [d \in Docs |-> "none"], card |-> Closed, busy |-> {},
                 loading |-> TRUE, reading |-> FALSE]
    /\ chains = [k \in Chains |->
                   IF k = 1 THEN Waiting("list", "none", NoDoc, "none", filter, P.mount) ELSE Idle]
    /\ clicks = 0 /\ upsets = 0 /\ calm = TRUE

------------------------------------------------------------------------------
(* What the user does. *)

Covered == P.layer = "overlay" /\ screen.card # Closed
ListUsable == ~Covered /\ (P.solid \/ ~screen.loading)
CardUsable == P.layer = "panel" /\ ~P.keeps => ~screen.reading

Click ==
    /\ clicks + upsets < Events
    /\ clicks' = clicks + 1
    /\ UNCHANGED <<page, docs, upsets, calm>>

MayUpset == upsets < Upsets /\ clicks + upsets < Events

Start(c) ==
    \E k \in Chains \ Running :
        /\ \A j \in Chains \ Running : k <= j
        /\ chains' = [chains EXCEPT ![k] = c]

\* The drawer goes away, and with it its busy flag; a request it sent keeps
\* running but can change nothing of it any more.
Drop(all) ==
    [k \in Chains |->
       IF all[k] # Idle /\ all[k].hold = "drawer" THEN [all[k] EXCEPT !.hold = "none"] ELSE all[k]]
Shut(s) == [s EXCEPT !.card = Closed, !.busy = @ \ {"drawer"}]

ChooseFilter(f) ==
    /\ ~Covered /\ f # filter
    /\ Click
    /\ filter' = f
    /\ Start(Waiting("list", "none", NoDoc, "none", f, << >>))
    /\ screen' = [screen EXCEPT !.loading = TRUE, !.card = IF P.clears THEN Closed ELSE @]

Refresh ==
    /\ ~Covered
    /\ P.refresh # "none"
    /\ P.refresh # "free" => ~screen.loading
    /\ P.refresh = "idle" => "page" \notin screen.busy
    /\ Click
    /\ Start(Waiting("list", "none", NoDoc, "none", filter, << >>))
    /\ screen' = [screen EXCEPT !.loading = TRUE]
    /\ UNCHANGED filter

Open(d) ==
    /\ ListUsable /\ screen.list[d] # "none"
    /\ P.row # "none"
    /\ P.once => ~screen.reading
    /\ Click
    /\ screen' = [screen EXCEPT
                    !.card = IF P.row = "fetch" THEN @ ELSE [doc |-> d, status |-> screen.list[d]],
                    !.reading = P.row # "row"]
    /\ IF P.row = "row"
       THEN UNCHANGED chains
       ELSE Start(Waiting("detail", "none", d, "none", filter, << >>))
    /\ UNCHANGED filter

Close ==
    /\ P.layer \in {"overlay", "form"} /\ screen.card # Closed
    /\ screen' = Shut(screen)
    /\ chains' = Drop(chains)
    /\ UNCHANGED <<page, docs, filter, clicks, upsets, calm>>

\* Mutant: the two functions of a card keep a busy flag each.
FlagOfItsOwn(a, d) ==
    CASE a.held = "row" -> d
      [] a.held \in {"own", "page"} -> a.op
      [] OTHER -> a.held

Flag(a, d) ==
    CASE a.held = "row" -> d
      [] a.held = "own" -> a.op
      [] OTHER -> a.held

Offered(a, d) ==
    /\ \/ a.at = "row" /\ ListUsable /\ screen.list[d] \in a.on
       \/ a.at = "drawer" /\ CardUsable /\ screen.card.doc = d /\ screen.card.status \in a.on
       \/ a.at = "form" /\ ~Covered /\ docs[d] = "absent"
    /\ Flag(a, d) \notin screen.busy

\* The busy flag of the rows holds one row: pressing in another replaces it.
Press(a, d) ==
    /\ Offered(a, d)
    /\ Click
    /\ Start(Waiting("op", a.op, d, Flag(a, d), filter, a.then))
    /\ screen' = [screen EXCEPT !.busy =
                    IF a.held = "none" THEN @
                    ELSE IF a.held = "row" THEN (@ \ Docs) \cup {d} ELSE @ \cup {Flag(a, d)}]
    /\ UNCHANGED filter

------------------------------------------------------------------------------
(* The server. *)

ServeRead(k) ==
    LET c == chains[k]
        marked == c.kind = "detail" /\ P.marks /\ docs[c.doc] \in {"generated", "sent"}
        missing == c.kind # "list" /\ docs[c.doc] \in {"absent", "gone"}
    IN /\ docs' = IF marked THEN [docs EXCEPT ![c.doc] = "viewed"] ELSE docs
       /\ chains' = [chains EXCEPT ![k].state = IF missing THEN "refused" ELSE "done",
                                   ![k].got = docs']

ServeOp(k) ==
    LET c == chains[k]
        moves == {m \in Handlers : m[1] = c.op /\ m[2] = docs[c.doc] /\ m[3] \in P.states}
    IN \/ /\ moves = {} \/ c.op \in DeniedElsewhere
          /\ chains' = [chains EXCEPT ![k].state = "refused"]
          /\ UNCHANGED docs
       \/ \E m \in moves :
              /\ docs' = [docs EXCEPT ![c.doc] = m[3]]
              /\ chains' = [chains EXCEPT ![k].state = "done", ![k].got = docs']

Serve(k) ==
    /\ k \in Running /\ chains[k].kind # "timer" /\ chains[k].state = "sent"
    /\ IF chains[k].kind = "op" THEN ServeOp(k) ELSE ServeRead(k)
    /\ UNCHANGED <<page, filter, screen, clicks, upsets, calm>>

------------------------------------------------------------------------------
(* The answers. *)

Freed(s, hold) == [s EXCEPT !.busy = IF hold \in Docs THEN @ \ Docs ELSE @ \ {hold}]

Patched(s, c) ==
    IF P.layer = "none"
    THEN [s EXCEPT !.list[c.doc] = c.got[c.doc]]
    ELSE [s EXCEPT !.card = [doc |-> c.doc, status |-> c.got[c.doc]]]

\* What the steps of a stage do to the screen, and the request among them.
Stepped(s, c, stage) ==
    LET s1 == IF "patch" \in stage THEN Patched(s, c) ELSE s
        s2 == IF "leave" \in stage THEN [s1 EXCEPT !.list[c.doc] = "none"] ELSE s1
        s3 == IF "free" \in stage THEN Freed(s2, c.hold) ELSE s2
        s4 == IF "close" \in stage THEN Shut(s3) ELSE s3
    IN [s4 EXCEPT !.loading = @ \/ "load" \in stage,
                  !.reading = @ \/ stage \cap {"detail", "first"} # {}]

KindOf == [load |-> "list", detail |-> "detail", reread |-> "reread", wait |-> "timer",
           first |-> "detail"]

\* The document a page opens by itself after its first load.
ToOpen(s) ==
    LET signable == {d \in Docs : s.list[d] \in Signable} IN
    IF signable # {} THEN signable ELSE {d \in Docs : s.list[d] # "none"}

\* Chain k goes on with its next stage, s being what is shown.
GoOn(k, s) ==
    LET c == chains[k]
        stage == Head(c.then)
        sends == stage \cap DOMAIN KindOf
        others == IF c.then # << >> /\ "close" \in stage THEN Drop(chains) ELSE chains
        next(d, kind) == Waiting(kind, c.op, d, others[k].hold, c.filter, Tail(c.then))
        opens == IF "first" \in stage THEN ToOpen(s) ELSE {c.doc}
    IN IF c.then = << >>
       THEN screen' = s /\ chains' = [chains EXCEPT ![k] = Idle]
       ELSE IF sends = {} \/ opens = {}
       THEN /\ screen' = [Stepped(s, c, stage) EXCEPT !.reading = s.reading]
            /\ chains' = [others EXCEPT ![k] = Idle]
       ELSE \E d \in opens, r \in sends :
              /\ screen' = Stepped(s, c, stage)
              /\ chains' = [others EXCEPT ![k] = next(d, KindOf[r])]

\* A document read is shown, except where an open drawer keeps its own.
ShowDetail(c) ==
    LET s == [screen EXCEPT !.reading = FALSE]
        seen == IF P.marks /\ s.list[c.doc] \in {"generated", "sent"}
                THEN [s EXCEPT !.list[c.doc] = "viewed"] ELSE s
    IN IF P.sticky /\ s.card # Closed THEN s ELSE Patched(seen, c)

ShowReread(c) ==
    IF c.hold = "drawer" /\ screen.card # Closed
    THEN [screen EXCEPT !.card.status = c.got[screen.card.doc]]
    ELSE screen

ShowList(c) ==
    IF P.guarded /\ c.filter # filter THEN screen
    ELSE [screen EXCEPT !.list = Through(c.got, c.filter), !.loading = FALSE]

Shown(c) ==
    CASE c.kind = "list" -> ShowList(c)
      [] c.kind = "detail" -> ShowDetail(c)
      [] c.kind = "reread" -> ShowReread(c)
      [] OTHER -> screen

\* The answer was true when it was given and no longer is, or it is that of
\* a filter that was left.
Overtaken(c) ==
    CASE c.kind = "list" -> c.got # docs \/ c.filter # filter
      [] c.kind = "timer" -> FALSE
      [] OTHER -> c.got[c.doc] # docs[c.doc]

Answer(k) ==
    /\ k \in Running
    /\ chains[k].state = "done" \/ chains[k].kind = "timer"
    /\ GoOn(k, Shown(chains[k]))
    /\ calm' = (calm /\ ~Overtaken(chains[k]))
    /\ UNCHANGED <<page, docs, filter, clicks, upsets>>

\* A request refused or lost.  The function of a button stops, and gives its
\* busy flag back; a read shows an error, and what follows it goes on.
\* Mutant: the busy flag is given back by a good answer only.
FailedHolding(k) ==
    IF chains[k].kind = "op"
    THEN UNCHANGED screen /\ chains' = [chains EXCEPT ![k] = Idle]
    ELSE GoOn(k, [screen EXCEPT !.loading = FALSE, !.reading = FALSE])

Failed(k) ==
    LET c == chains[k]
        blank == P.blanks /\ ~(P.guarded /\ c.filter # filter)
        none == [d \in Docs |-> "none"]
    IN CASE c.kind = "op" -> /\ screen' = Freed(screen, c.hold)
                             /\ chains' = [chains EXCEPT ![k] = Idle]
         [] c.kind = "list" ->
              GoOn(k, [screen EXCEPT !.list = IF blank THEN none ELSE @,
                                     !.loading = @ /\ P.guarded /\ c.filter # filter])
         [] c.kind = "detail" -> GoOn(k, [screen EXCEPT !.reading = FALSE])
         [] OTHER -> GoOn(k, screen)

Refused(k) ==
    /\ k \in Running /\ chains[k].state = "refused"
    /\ Failed(k)
    /\ calm' = FALSE
    /\ UNCHANGED <<page, docs, filter, clicks, upsets>>

\* The connection fails, or fifteen seconds pass; the server may have
\* answered and may not.
Lose(k) ==
    /\ k \in Running /\ chains[k].kind # "timer" /\ MayUpset
    /\ upsets' = upsets + 1
    /\ Failed(k)
    /\ calm' = FALSE
    /\ UNCHANGED <<page, docs, filter, clicks>>

\* Somebody else's request.
Foreign(d) ==
    /\ MayUpset
    /\ upsets' = upsets + 1
    /\ \E m \in Handlers :
          /\ m[2] = docs[d] /\ m[3] # m[2] /\ m[3] \in P.states
          /\ docs' = [docs EXCEPT ![d] = m[3]]
    /\ calm' = FALSE
    /\ UNCHANGED <<page, filter, screen, chains, clicks>>

CabinetNext ==
    \/ \E f \in P.filters : ChooseFilter(f)
    \/ Refresh
    \/ \E d \in Docs : Open(d)
    \/ Close
    \/ \E a \in P.acts, d \in Docs : Press(a, d)
    \/ \E k \in Chains : Serve(k)
    \/ \E k \in Chains : Answer(k)
    \/ \E k \in Chains : Refused(k)
    \/ \E k \in Chains : Lose(k)
    \/ \E d \in Docs : Foreign(d)

CabinetSpec == CabinetInit /\ [][CabinetNext]_cabinetVars
------------------------------------------------------------------------------
(* Properties. *)

\* The pages whose buttons share one busy flag that is given back with the
\* reload, or with the document the answer carries, and whose drawer is never
\* filled from a row.
Careful ==
    /\ \A a \in P.acts : a.held = "page" /\ a.then # LoadAndFree
    /\ P.row \in {"none", "fetch"}

\* On those pages the server refuses no button: whatever is opened, closed and
\* filtered meanwhile, a button is enabled only while what it is offered on is
\* what the server has, unless an answer was lost or overtaken or somebody else
\* changed the document (AdminKyc approve and reject, AdminContracts cancel,
\* AdminIntents, InvestorContracts sign).
HeldButtonsAreAccepted ==
    Careful /\ calm => \A k \in Running : chains[k].kind = "op" => chains[k].state # "refused"

\* When no request is out, the list shows what the server has under the filter
\* that is selected, and a drawer filled by a read the status of its document:
\* the reload after every button leaves nothing of what was shown before it.
ShownIsFresh ==
    calm /\ Running = {} =>
      /\ screen.list = Through(docs, filter)
      /\ P.row = "fetch" /\ screen.card # Closed =>
            screen.card.status = docs[screen.card.doc]

\* When no request is out, no button is disabled and nothing is shown as
\* loading: every way out of every function gives back the flags it took,
\* whatever was lost, refused or closed meanwhile.
NothingLeftBusy ==
    Running = {} => screen.busy = {} /\ ~screen.loading /\ ~screen.reading
=============================================================================
