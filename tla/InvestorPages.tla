---------------------------- MODULE InvestorPages ----------------------------
(***************************************************************************)
(* The pages of the investor's cabinet, src/frontend/src/pages/investor,   *)
(* the community and the intelligence of an asset (components/lumen) and   *)
(* the two public pages: what each lists, on which statuses it offers      *)
(* which button, and what it refreshes after the request succeeded.        *)
(***************************************************************************)
EXTENDS PageShape

------------------------------------------------------------------------------
(* Payments: the list, the drawer, and the card of the acquirers in it. *)

PaymentStatuses == {"awaiting_payment", "paid", "under_review", "confirmed", "rejected"}

\* Submitting reads the payment again, enables the buttons, and closes the
\* drawer 0.8 s later.
PaymentUpload ==
    {Act(op, Submittable, "drawer", "drawer", <<{"reread"}, {"free"}>>) :
        op \in {"payment.proof", "payment.unproof"}}

PaymentSubmit ==
    {Act("payment.submit", Submittable, "drawer", "drawer",
         <<{"reread"}, {"free", "wait"}, {"close", "load"}>>)}

AcquiringPanel == {Act("payment.checkout", Submittable, "drawer", "own", JustFree)}

MyPaymentsPage ==
    [AnyPage EXCEPT
        !.states = PaymentStatuses, !.filters = AllOr(PaymentStatuses, PaymentStatuses),
        !.first = PaymentStatuses, !.row = "fetch", !.layer = "overlay", !.sticky = TRUE,
        !.acts = PaymentUpload \cup PaymentSubmit \cup AcquiringPanel]

------------------------------------------------------------------------------
(* Wallet, contracts, certificates, units, profile. *)

WithdrawalForm == {Act("withdrawal.create", {"absent"}, "form", "own", LoadAndFree)}

MyWalletPage ==
    LET all == {"requested", "under_review", "approved", "processing", "paid", "rejected",
                "cancelled"} IN
    [AnyPage EXCEPT
        !.states = all \cup {"absent"}, !.filters = {all}, !.first = all, !.solid = TRUE,
        !.acts = {Act("withdrawal.cancel", {"requested", "under_review"}, "row", "none", LoadOnly)}
                 \cup WithdrawalForm]

ContractSign == {Act("contract.sign", Signable, "drawer", "page", LoadRereadFree)}

\* The page opens the first contract to sign by itself, else the first.
MyContractsPage ==
    LET all == {"generated", "sent", "viewed", "signed", "cancelled"} IN
    [AnyPage EXCEPT
        !.states = all, !.filters = {all}, !.first = all, !.row = "fetch", !.layer = "panel",
        !.solid = TRUE, !.blanks = TRUE, !.marks = TRUE, !.mount = <<{"first"}>>,
        !.acts = ContractSign]

MyCertificatesPage ==
    LET all == {"active", "replaced", "voided"} IN
    [AnyPage EXCEPT !.states = all, !.filters = {all}, !.first = all, !.refresh = "held",
                    !.row = "row", !.layer = "overlay"]

MyUnitsPage ==
    [AnyPage EXCEPT !.row = "row", !.layer = "overlay", !.refresh = "held"]

\* The questionnaire: every button has a busy flag of its own.
ProfileForm ==
    {Act("kyc.save", KycEditable, "row", "own", LoadThenFree),
     Act("kyc.submit", KycEditable \cup {"expired"}, "row", "own", LoadThenFree)}

ProfileDocuments ==
    {Act("kyc.upload", KycEditable, "row", "own", LoadThenFree),
     Act("kyc.remove", KycEditable, "row", "none", LoadOnly)}

MyProfilePage ==
    LET all == KycEditable \cup KycActionable \cup {"approved", "expired"} IN
    [AnyPage EXCEPT !.states = all, !.filters = {all}, !.first = all, !.solid = TRUE,
                    !.acts = ProfileForm \cup ProfileDocuments]

PreferencesMatrix == {Act("edit", Present, "row", "page", PatchAndFree)}

NotificationPreferences ==
    EditorPage({Act("reset", Present, "row", "page", PatchAndFree)} \cup PreferencesMatrix)

------------------------------------------------------------------------------
(* The secondary market. *)

BrowseTab ==
    LET open == {"active", "partially_filled"} IN
    [AnyPage EXCEPT
        !.states = open \cup {"filled", "cancelled"}, !.filters = {open}, !.first = open,
        !.row = "row", !.layer = "overlay",
        !.acts = {Act(op, open, "drawer", "row", CloseLoadFree) :
                    op \in {"listing.buy", "listing.offer"}}]

HoldingsTab ==
    [AnyPage EXCEPT
        !.row = "row", !.layer = "overlay",
        !.acts = {Act("listing.create", {"old"}, "drawer", "page", CloseLoadFree)}]

ListingsTab ==
    LET all == {"draft", "active", "partially_filled", "filled", "cancelled"} IN
    [AnyPage EXCEPT
        !.states = all, !.filters = {all}, !.first = all,
        !.acts = {Act("listing.cancel", {"active", "partially_filled", "draft"}, "row", "row",
                      LoadThenFree)}]

BidsTab ==
    LET all == {"active", "accepted", "cancelled"} IN
    [AnyPage EXCEPT
        !.states = all, !.filters = {all}, !.first = all,
        !.acts = {Act("bid.cancel", {"active"}, "row", "row", LoadThenFree)}]

TradesTab == AnyPage

------------------------------------------------------------------------------
(* An asset: its documents are loaded when it is opened, and an answer for *)
(* an asset that was left is ignored.                                      *)

AssetPage ==
    [AnyPage EXCEPT
        !.states = {"open"}, !.filters = {{"open"}}, !.first = {"open"}, !.guarded = TRUE,
        !.blanks = TRUE, !.acts = {Act("asset.intent", {"open"}, "row", "own", JustFree)}]

AssetQaTab ==
    LET all == {"pending", "answered"} IN
    [AnyPage EXCEPT
        !.states = all \cup {"absent", "hidden"}, !.filters = {all}, !.first = all,
        !.solid = TRUE,
        !.acts = {Act("question.ask", {"absent"}, "form", "own", LoadAndFree)}]

\* The "filter" is the amount: with one the figures are those of a ticket.
\* A new amount waits a quarter of a second, and its answer drops the older.
Economics ==
    [AnyPage EXCEPT
        !.states = {"ticket", "noticket"}, !.filters = One({"ticket", "noticket"}),
        !.first = {"noticket"}, !.guarded = TRUE, !.blanks = TRUE, !.solid = TRUE]

AssetIntelligence == [AnyPage EXCEPT !.guarded = TRUE, !.blanks = TRUE]
AssetScoreBadges == [AnyPage EXCEPT !.guarded = TRUE]

\* A reaction shows the post of its answer; a comment reads the post, and
\* then the whole community.
PostCard ==
    {Act("edit", Present, "row", "none", <<{"patch"}>>),
     Act("touch", Present, "row", "none", <<{"detail"}, {"load"}>>)}
PollCard == {Act("edit", Present, "row", "none", <<{"patch", "load"}>>)}
Mood == {Act("touch", Present, "row", "none", <<{"patch"}>>)}
Composer == {Act("create", {"absent"}, "form", "page", LoadAndFree)}

AssetCommunity ==
    [ContentPage(PostCard \cup PollCard \cup Mood \cup Composer) EXCEPT !.blanks = TRUE]

------------------------------------------------------------------------------
(* Pages that only show, or nearly. *)

MyNotificationsPage ==
    [AnyPage EXCEPT
        !.states = {"unread", "read"}, !.filters = {{"unread", "read"}},
        !.first = {"unread", "read"}, !.blanks = TRUE,
        !.acts = {Act("notifications.readAll", {"unread"}, "row", "none", <<{"patch"}>>)}]

OpportunitiesPage ==
    [AnyPage EXCEPT !.states = {"open"}, !.filters = {{"open"}}, !.first = {"open"},
                    !.blanks = TRUE]
PortfolioPage == [AnyPage EXCEPT !.blanks = TRUE]
MyDocumentsPage == [AnyPage EXCEPT !.blanks = TRUE]
MyDashboardPage == [AnyPage EXCEPT !.blanks = TRUE, !.guarded = TRUE]
IncomePage == [AnyPage EXCEPT !.solid = TRUE]
JourneyPage == [AnyPage EXCEPT !.refresh = "held"]
AnalyticsPage == [AnyPage EXCEPT !.solid = TRUE]
PublicAssetPage == [AnyPage EXCEPT !.guarded = TRUE]

\* A certificate looked up by its code, which is the "filter": a code entered
\* while another is looked up is looked up as well, and the later answer shown.
CertificateVerifyPage ==
    LET all == {"active", "replaced", "voided"} IN
    [AnyPage EXCEPT !.states = all, !.filters = One(all), !.first = {"active"}]
=============================================================================
