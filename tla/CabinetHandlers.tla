--------------------------- MODULE CabinetHandlers ---------------------------
(***************************************************************************)
(* What the server does with the requests of the cabinet pages: for every  *)
(* operation the triples <<operation, status found, status written>> its   *)
(* handler accepts.  A request that finds another status is answered 409   *)
(* (404 when the document is gone) and changes nothing.  Documents whose   *)
(* content, and not status, is edited are "old" until an edit makes them   *)
(* "new".  A request in DeniedElsewhere may be refused on any status.      *)
(***************************************************************************)

\* Every status in S becomes one of those in T.
Moves(op, S, T) == {op} \X S \X T
\* The document keeps its status: the request writes other fields.
Keeps(op, S) == {<<op, s, s>> : s \in S}

PlanHandlers ==
    Moves("plan.create", {"absent"}, {"active"})
    \cup Moves("plan.pause", {"active", "paused", "ended"}, {"paused"})
    \cup Moves("plan.resume", {"active", "paused", "ended"}, {"active"})
    \cup Keeps("plan.generate", {"active", "paused"})
    \cup Keeps("plan.preview", {"active", "paused", "ended"})

BatchHandlers ==
    Moves("batch.approve", {"generated"}, {"approved"})
    \cup Moves("batch.credit", {"approved"}, {"credited"})
    \cup Moves("batch.cancel", {"generated", "approved"}, {"cancelled"})
    \cup Keeps("batch.export", {"generated", "approved", "credited", "cancelled"})

KycActionable == {"submitted", "under_review"}
KycEditable == {"not_started", "draft", "rejected"}

KycHandlers ==
    Moves("kyc.approve", KycActionable, {"approved"})
    \cup Moves("kyc.reject", KycActionable, {"rejected"})
    \cup Moves("kyc.save", KycEditable, {"draft"})
    \cup Keeps("kyc.save", {"approved", "expired"})
    \cup Keeps("kyc.upload", KycEditable)
    \cup Keeps("kyc.remove", KycEditable)
    \cup Moves("kyc.submit", KycEditable \cup {"expired"}, {"submitted"})

Signable == {"generated", "sent", "viewed"}
Cancellable == {"draft", "generated", "sent", "viewed", "expired"}

ContractHandlers ==
    Moves("contract.cancel", Cancellable, {"cancelled"})
    \cup Moves("contract.sign", Signable, {"signed"})

\* Reissuing does not look at the status; without units it only voids.  The
\* reconciliation does either to a certificate the register contradicts.
CertificateHandlers ==
    Moves("certificate.void", {"active", "issued"}, {"voided"})
    \cup Moves("certificate.reissue", {"active", "issued", "replaced", "voided"},
               {"replaced", "voided"})
    \cup Keeps("certificate.reconcile", {"active", "issued", "replaced", "voided"})
    \cup Moves("certificate.reconcile", {"active", "issued"}, {"replaced", "voided"})

IntentHandlers ==
    Moves("intent.approve", {"submitted", "under_review"}, {"converted"})
    \cup Moves("intent.reject", {"submitted", "under_review"}, {"rejected"})

AdminActionable == {"paid", "under_review"}
Submittable == {"awaiting_payment", "under_review", "rejected"}

PaymentHandlers ==
    Moves("payment.confirm", AdminActionable, {"confirmed"})
    \cup Moves("payment.reject", AdminActionable, {"rejected"})
    \cup Moves("payment.clarification", AdminActionable, {"under_review"})
    \cup Keeps("payment.proof", Submittable)
    \cup Keeps("payment.unproof", Submittable)
    \cup Moves("payment.submit", Submittable, {"paid"})
    \cup Keeps("payment.checkout", {"awaiting_payment", "paid", "under_review"})

AccountHandlers ==
    Moves("account.create", {"absent"}, {"active"})
    \cup Keeps("account.edit", {"active", "archived"})
    \cup Moves("account.remove", {"active", "archived"}, {"archived"})

WithdrawalHandlers ==
    Moves("withdrawal.create", {"absent"}, {"requested"})
    \cup Moves("withdrawal.cancel", {"requested", "under_review"}, {"cancelled"})
    \cup Moves("withdrawal.review", {"requested"}, {"under_review"})
    \cup Moves("withdrawal.approve", {"requested", "under_review"}, {"approved"})
    \cup Moves("withdrawal.processing", {"approved"}, {"processing"})
    \cup Moves("withdrawal.paid", {"approved", "processing"}, {"paid"})
    \cup Moves("withdrawal.reject", {"requested", "under_review", "approved", "processing"},
               {"rejected"})

\* A rematch that finds no payment, or one that may not be confirmed, changes a
\* rejected transaction only (the exception is logged and dropped).
BankHandlers ==
    Moves("bank.manual", {"absent"}, {"unmatched", "reconciled"})
    \cup Moves("bank.match", {"unmatched", "matched"}, {"reconciled"})
    \cup Moves("bank.reject", {"unmatched", "matched"}, {"rejected"})
    \cup Moves("bank.rematch", {"unmatched", "matched", "rejected"}, {"reconciled"})
    \cup Moves("bank.rematch", {"rejected"}, {"unmatched"})
    \cup Keeps("bank.rematch", {"unmatched", "matched", "reconciled"})

\* A match forced by an admin confirms the payment request he names: one its
\* investor has not submitted answers 409 through the route, and the
\* transaction keeps its status.
DeniedElsewhere == {"bank.match"}

\* Hiding and answering do not look at the status; a question restored is
\* answered when it has an answer and pending otherwise.
QuestionHandlers ==
    Moves("question.ask", {"absent"}, {"pending"})
    \cup Moves("question.answer", {"pending", "answered", "hidden"}, {"answered"})
    \cup Moves("question.hide", {"pending", "answered", "hidden"}, {"hidden"})
    \cup Moves("question.restore", {"pending", "answered", "hidden"}, {"pending", "answered"})

ListingHandlers ==
    Keeps("listing.create", {"old"})
    \cup Moves("listing.cancel", {"draft", "active", "partially_filled"}, {"cancelled"})
    \cup Moves("listing.buy", {"active", "partially_filled"}, {"partially_filled", "filled"})
    \cup Keeps("listing.offer", {"active", "partially_filled"})
    \cup Moves("bid.cancel", {"active"}, {"cancelled"})

\* Documents with content only: created, edited, removed.
ContentHandlers ==
    Moves("create", {"absent"}, {"old"})
    \cup Moves("edit", {"old", "new"}, {"new"})
    \cup Moves("reset", {"old", "new"}, {"old"})
    \cup Moves("remove", {"old", "new"}, {"gone"})
    \cup Keeps("touch", {"old", "new"})
    \cup Moves("report.create", {"absent"}, {"published"})
    \cup Moves("report.publish", {"published", "hidden"}, {"published"})
    \cup Moves("report.hide", {"published", "hidden"}, {"hidden"})
    \cup Moves("report.remove", {"published", "hidden"}, {"gone"})
    \cup Keeps("asset.intent", {"open"})
    \cup Moves("notifications.readAll", {"unread", "read"}, {"read"})

Handlers ==
    PlanHandlers \cup BatchHandlers \cup KycHandlers \cup ContractHandlers \cup CertificateHandlers
    \cup IntentHandlers \cup PaymentHandlers \cup AccountHandlers \cup WithdrawalHandlers
    \cup BankHandlers \cup QuestionHandlers \cup ListingHandlers \cup ContentHandlers
=============================================================================
