----------------------------- MODULE AdminPages -----------------------------
(***************************************************************************)
(* The pages of the operator's cabinet, src/frontend/src/pages/admin: what *)
(* each lists, which filters it offers, on which statuses it offers which  *)
(* button, and what it refreshes after the request of a button succeeded.  *)
(***************************************************************************)
EXTENDS PageShape

------------------------------------------------------------------------------
(* Payouts: the tab of the plans and the tab of the batches. *)

PlanForm == {Act("plan.create", {"absent"}, "form", "own", LoadAndFree)}

PlanPreview ==
    {Act("plan.preview", {"active", "paused", "ended"}, "row", "none", << >>)}

PlansTab ==
    [AnyPage EXCEPT
        !.states = {"absent", "active", "paused", "ended"},
        !.filters = {{"active", "paused", "ended"}}, !.first = {"active", "paused", "ended"},
        !.acts = {Act("plan.generate", {"active"}, "row", "none", LoadOnly),
                  Act("plan.pause", {"active"}, "row", "none", LoadOnly),
                  Act("plan.resume", {"paused"}, "row", "none", LoadOnly)}
                 \cup PlanPreview \cup PlanForm]

\* The busy flag of the drawer is cleared by a failure only: after a good
\* answer the drawer goes away.
BatchDrawer ==
    {Act("batch.approve", {"generated"}, "drawer", "drawer", <<{"load"}, {"close"}>>),
     Act("batch.credit", {"approved"}, "drawer", "drawer", <<{"load"}, {"close"}>>),
     Act("batch.cancel", {"generated", "approved"}, "drawer", "drawer", <<{"load"}, {"close"}>>)}

BatchesTab ==
    LET all == {"generated", "approved", "credited", "cancelled"} IN
    [AnyPage EXCEPT !.states = all, !.filters = AllOr(all, all), !.first = all,
                    !.row = "fetch", !.layer = "overlay", !.acts = BatchDrawer]

PayoutExportPage ==
    LET all == {"approved", "credited"} IN
    [AnyPage EXCEPT
        !.states = all \cup {"generated", "cancelled"}, !.filters = {all}, !.first = all,
        !.refresh = "free",
        !.acts = {Act("batch.export", all, "row", "row", LoadThenFree)}]

------------------------------------------------------------------------------
(* KYC: the queue, and the card of an investor beside it. *)

\* Mutant: the card is not read again after a decision.
KycCardUnread ==
    {Act(op, KycActionable, "drawer", "page", LoadThenFree) : op \in {"kyc.approve", "kyc.reject"}}

KycCard ==
    {Act(op, KycActionable, "drawer", "page", RereadLoadFree) :
        op \in {"kyc.approve", "kyc.reject"}}

KycQueue ==
    LET shown == {"submitted", "under_review", "approved", "rejected", "draft"} IN
    [AnyPage EXCEPT
        !.states = shown, !.filters = AllOr(KycActionable, shown), !.first = KycActionable,
        !.row = "fetch", !.layer = "panel", !.clears = TRUE, !.acts = KycCard]

------------------------------------------------------------------------------
(* Contracts: the registry, and the templates. *)

ContractCard ==
    {Act("contract.cancel", Cancellable, "drawer", "page", RereadLoadFree)}

ContractsRegistry ==
    LET all == Cancellable \cup {"signed", "cancelled"} IN
    [AnyPage EXCEPT
        !.states = all, !.filters = AllOr(all, all \ {"draft", "generated"}), !.first = all,
        !.row = "fetch", !.layer = "panel", !.clears = TRUE, !.acts = ContractCard]

\* Saving shows the saved template, whatever was picked meanwhile.
TemplateForm ==
    {Act("edit", Present, "drawer", "page", <<{"patch", "load"}, {"free"}>>),
     Act("create", {"absent"}, "form", "page", <<{"patch", "load"}, {"free"}>>)}

TemplatesManager ==
    [ContentPage(TemplateForm) EXCEPT !.row = "row", !.layer = "form", !.solid = FALSE]

------------------------------------------------------------------------------
(* Certificates and the unit registry. *)

CertificateDrawer ==
    {Act(op, {"active"}, "drawer", "page", CloseLoadFree) :
        op \in {"certificate.void", "certificate.reissue"}}

CertificatesPage ==
    LET all == {"active", "replaced", "voided"} IN
    [AnyPage EXCEPT
        !.states = all, !.filters = AllOr(all, all), !.first = all,
        !.row = "both", !.layer = "overlay",
        !.acts = {Act("certificate.reconcile", all, "row", "page", LoadThenFree)}
                 \cup CertificateDrawer]

RegistryAsset ==
    {Act("touch", Present, "drawer", "page", JustFree),
     Act("edit", Present, "drawer", "page", RereadLoadFree)}

RegistryOverview ==
    [EditorPage(RegistryAsset) EXCEPT
        !.row = "fetch", !.layer = "overlay", !.once = TRUE, !.refresh = "held"]

------------------------------------------------------------------------------
(* Intents, questions, bank transactions: buttons in the rows. *)

IntentRow ==
    {Act(op, {"submitted", "under_review"}, "row", "page", LoadThenFree) :
        op \in {"intent.approve", "intent.reject"}}

IntentsPage ==
    LET all == {"submitted", "under_review", "converted", "rejected"} IN
    [AnyPage EXCEPT
        !.states = all,
        !.filters = AllOr(all, {"submitted", "converted", "rejected"}), !.first = {"submitted"},
        !.acts = IntentRow]

QuestionRow ==
    {Act("question.answer", {"pending"}, "row", "row", LoadThenFree),
     Act("question.hide", {"pending", "answered"}, "row", "none", LoadOnly),
     Act("question.restore", {"hidden"}, "row", "none", LoadOnly)}

QuestionsPage ==
    LET all == {"pending", "answered", "hidden"} IN
    [AnyPage EXCEPT !.states = all, !.filters = AllOr(all, all), !.first = {"pending"},
                    !.acts = QuestionRow]

BankRow ==
    {Act(op, {"unmatched"}, "row", "row", LoadThenFree) :
        op \in {"bank.match", "bank.reject", "bank.rematch"}}

BankForms == {Act("bank.manual", {"absent"}, "form", "row", LoadThenFree)}

BankTransactionsPage ==
    LET all == {"unmatched", "matched", "reconciled", "rejected"} IN
    [AnyPage EXCEPT !.states = all \cup {"absent"}, !.filters = AllOr(all, all), !.first = all,
                    !.refresh = "free", !.acts = BankRow \cup BankForms]

------------------------------------------------------------------------------
(* Funding accounts. *)

AccountDrawer ==
    {Act("account.edit", {"active", "archived"}, "drawer", "drawer", <<{"close", "load"}>>),
     Act("account.create", {"absent"}, "form", "own", CloseLoadFree)}

FundingAccountsPage ==
    LET all == {"active", "archived"} IN
    [AnyPage EXCEPT
        !.states = all \cup {"absent"}, !.filters = {all}, !.first = all,
        !.row = "row", !.layer = "overlay",
        !.acts = {Act("account.remove", {"active"}, "row", "none", LoadOnly)}
                 \cup AccountDrawer]

------------------------------------------------------------------------------
\* Payments and withdrawals: a queue and a drawer.  The drawer does not wait
\* for the reload it asks for: its buttons are enabled again at once.

PaymentDrawer ==
    {Act(op, AdminActionable, "drawer", "drawer", <<{"load", "free"}, {"close"}>>) :
        op \in {"payment.confirm", "payment.reject", "payment.clarification"}}

PaymentsPage ==
    LET all == {"awaiting_payment", "paid", "under_review", "confirmed", "rejected"} IN
    [AnyPage EXCEPT !.states = all, !.filters = AllOr(all, all), !.first = {"paid"},
                    !.row = "fetch", !.layer = "overlay", !.acts = PaymentDrawer]

AllowedOn(op) ==
    CASE op = "withdrawal.review" -> {"requested"}
      [] op = "withdrawal.approve" -> {"requested", "under_review"}
      [] op = "withdrawal.processing" -> {"approved"}
      [] op = "withdrawal.paid" -> {"approved", "processing"}
      [] op = "withdrawal.reject" -> {"requested", "under_review", "approved", "processing"}

WithdrawalDrawer ==
    {Act(op, AllowedOn(op), "drawer", "drawer", <<{"load", "free"}, {"close"}>>) :
        op \in {"withdrawal.review", "withdrawal.approve", "withdrawal.processing",
                "withdrawal.paid", "withdrawal.reject"}}

WithdrawalsPage ==
    LET all == {"requested", "under_review", "approved", "processing", "paid", "rejected"} IN
    [AnyPage EXCEPT !.states = all, !.filters = AllOr(all, all), !.first = all,
                    !.row = "fetch", !.layer = "overlay", !.acts = WithdrawalDrawer]

------------------------------------------------------------------------------
(* Procedures, the asset editor, settings and backups. *)

SopEdits ==
    {Act("edit", Present, "drawer", "page", <<{"patch", "load", "free"}>>),
     Act("reset", Present, "drawer", "none", <<{"patch", "load"}>>)}

\* The first procedure is opened by the page itself.
SopPage ==
    [EditorPage(SopEdits) EXCEPT
        !.row = "fetch", !.layer = "panel", !.keeps = TRUE, !.refresh = "held",
        !.mount = <<{"first"}>>]

AssetEditor ==
    [ContentPage({Act("edit", Present, "row", "page", PatchAndFree),
                  Act("create", {"absent"}, "form", "page", LoadAndFree),
                  Act("remove", Present, "row", "none", <<{"leave"}>>)}) EXCEPT !.solid = FALSE]

BackupsCard ==
    {Act("create", {"absent"}, "form", "row", LoadThenFree),
     Act("remove", {"old"}, "row", "row", LoadThenFree)}

SystemHealthPage == [ContentPage(BackupsCard) EXCEPT !.refresh = "free"]

LegalForm == {Act("edit", Present, "row", "page", PatchAndFree)}

LegalSettingsPage == [EditorPage(LegalForm) EXCEPT !.refresh = "idle"]

------------------------------------------------------------------------------
(* The content of an asset, one page per tab. *)

MediaTab == EditorPage({Act("edit", Present, "row", "page", PatchAndFree)})
TeamTab == EditorPage({Act("edit", Present, "row", "page", PatchAndFree)})
RisksTab == EditorPage({Act("edit", Present, "row", "page", PatchAndFree)})

\* The form holds a copy of the update picked for editing; removing the
\* update leaves the form on it.
UpdatesTab ==
    [ContentPage({Act("edit", Present, "drawer", "page", CloseLoadFree),
                  Act("create", {"absent"}, "form", "page", LoadThenFree),
                  Act("remove", Present, "row", "none", LoadOnly)}) EXCEPT
        !.row = "row", !.layer = "form"]

ReportsTab ==
    LET all == {"published", "hidden"} IN
    [AnyPage EXCEPT
        !.states = all \cup {"absent", "gone"}, !.filters = {all}, !.first = all, !.solid = TRUE,
        !.acts = {Act("report.create", {"absent"}, "form", "page", LoadThenFree),
                  Act("report.hide", {"published"}, "row", "none", LoadOnly),
                  Act("report.publish", {"hidden"}, "row", "none", LoadOnly),
                  Act("report.remove", all, "row", "none", LoadOnly)}]

DocsTab ==
    ContentPage({Act("create", {"absent"}, "form", "page", LoadThenFree),
                 Act("remove", Present, "row", "none", LoadOnly)})

QaTab ==
    LET all == {"pending", "answered", "hidden"} IN
    [AnyPage EXCEPT !.states = all, !.filters = {all}, !.first = all, !.solid = TRUE,
                    !.acts = QuestionRow]

SpvTab ==
    [ContentPage({Act("edit", Present, "row", "page", PatchAndFree),
                  Act("create", {"absent"}, "form", "page", PatchAndFree)}) EXCEPT
        !.states = {"absent", "old", "new"}, !.solid = FALSE]

IntelSave == {Act("edit", Present, "row", "page", LoadAndFree)}

IntelTab ==
    [ContentPage({Act("create", {"absent"}, "form", "none", LoadOnly),
                  Act("remove", Present, "row", "none", LoadOnly)} \cup IntelSave) EXCEPT
        !.blanks = TRUE]

CommunityPost ==
    {Act("edit", {"old"}, "row", "none", LoadOnly),
     Act("touch", Present, "row", "none", LoadOnly),
     Act("remove", Present, "row", "none", LoadOnly)}

CommunityTab ==
    [ContentPage({Act("create", {"absent"}, "form", "page", LoadAndFree)} \cup CommunityPost)
        EXCEPT !.blanks = TRUE]

------------------------------------------------------------------------------
(* Pages that only show. *)

SecondaryMarketPage == [AnyPage EXCEPT !.refresh = "free"]
FundIntelligencePage == [AnyPage EXCEPT !.solid = TRUE]
AuditLogPage ==
    [AnyPage EXCEPT !.states = Present, !.filters = AllOr(Present, Present), !.first = Present,
                    !.refresh = "free"]
OperationsPage == [AnyPage EXCEPT !.solid = TRUE, !.refresh = "held"]
LedgerPage ==
    LET all == {"credit", "debit"} IN
    [AnyPage EXCEPT !.states = all, !.filters = AllOr(all, all), !.first = all]
DashboardPage == [AnyPage EXCEPT !.blanks = TRUE]
AssetsPage == [AnyPage EXCEPT !.blanks = TRUE]
InvestorsPage == [AnyPage EXCEPT !.blanks = TRUE]
ReportsPage == [AnyPage EXCEPT !.blanks = TRUE]
RoundsPage == [AnyPage EXCEPT !.blanks = TRUE]
DocumentsPage == [AnyPage EXCEPT !.blanks = TRUE]
SettingsPage == [AnyPage EXCEPT !.blanks = TRUE]
=============================================================================
