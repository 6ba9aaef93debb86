------------------------- MODULE LumenWallet_proof -------------------------
(***************************************************************************)
(* Invariants of LumenWallet for any number of requests, investors and     *)
(* handlers, and for any number of handlers lost at an await.              *)
(*                                                                         *)
(* PaidIsDebited and DebitWasApproved are not inductive: a handler that is *)
(* about to write paid must have debited, and it must have been let        *)
(* through by a status that approval precedes.  IInv adds what handlers    *)
(* hold (HandlersOK) and know (ApprovalKnown, DebitKnown).  Each lemma     *)
(* below shows that every action preserves one part of it.                 *)
(***************************************************************************)
EXTENDS LumenWallet, FiniteSums

USE RequestsAssumption, HandlersAssumption

(* Processing and paid are reached only from approved and processing.      *)
LEMMA ApprovalPrecedes ==
  ASSUME NEW s \in Statuses, NEW t \in AdminTransitions[s], t \in AfterApproval
  PROVE  s \in {"approved"} \cup AfterApproval
BY DEF AdminTransitions, AfterApproval, Statuses, Terminal

(* The initial state satisfies the inductive invariant.                    *)
LEMMA InitIInv == Init => IInv
BY DEF Init, IInv, TypeOK, HandlersOK, ApprovalKnown, DebitKnown,
       AfterApproval, PaidIsDebited, DebitWasApproved, NoRequest, Statuses,
       Steps

(* Every step keeps the variables in their types.                          *)
LEMMA StepTypeOK ==
  TypeOK /\ HandlersOK /\ [Next]_vars
    => TypeOK'
<1> SUFFICES ASSUME TypeOK, HandlersOK, [Next]_vars
             PROVE  TypeOK'
  OBVIOUS
<1> USE DEF TypeOK, HandlersOK, Steps
<1>1. ASSUME NEW h \in Handlers, NEW r \in Requests,
              CreateReadLedger(h, r)
       PROVE  TypeOK'
  BY <1>1 DEF CreateReadLedger, Goto, store, local
<1>2. ASSUME NEW h \in Handlers,
              CreateReadPending(h)
       PROVE  TypeOK'
  BY <1>2 DEF CreateReadPending, Goto, Finish, store, local
<1>3. ASSUME NEW h \in Handlers,
              CreateInsert(h)
       PROVE  TypeOK'
  BY <1>3 DEF CreateInsert, Goto, WriteStatus, Statuses, store, local
<1>4. ASSUME NEW h \in Handlers, NEW r \in Requests,
              CancelRead(h, r)
       PROVE  TypeOK'
  BY <1>4 DEF CancelRead, Goto, InvestorCancellable, store, local
<1>5. ASSUME NEW h \in Handlers,
              CancelWrite(h)
       PROVE  TypeOK'
  BY <1>5 DEF CancelWrite, Goto, WriteStatus, Statuses, store, local
<1>6. ASSUME NEW h \in Handlers, NEW r \in Requests, NEW s \in Statuses,
              AdminRead(h, r, s)
       PROVE  TypeOK'
  BY <1>6 DEF AdminRead, Goto, store, local
<1>7. ASSUME NEW h \in Handlers,
              AdminDebit(h)
       PROVE  TypeOK'
  BY <1>7 DEF AdminDebit, Goto, store, local
<1>8. ASSUME NEW h \in Handlers,
              AdminLink(h)
       PROVE  TypeOK'
  BY <1>8 DEF AdminLink, Goto, Statuses, store, local
<1>9. ASSUME NEW h \in Handlers,
              AdminWrite(h)
       PROVE  TypeOK'
  BY <1>9 DEF AdminWrite, Goto, WriteStatus, store, local
<1>10. ASSUME NEW h \in Handlers, NEW i \in Investors,
              GetWallet(h, i)
       PROVE  TypeOK'
  BY <1>10 DEF GetWallet, Goto, store, local
<1>11. ASSUME NEW h \in Handlers,
              RecomputeReadLedger(h)
       PROVE  TypeOK'
  BY <1>11 DEF RecomputeReadLedger, Goto, store, local
<1>12. ASSUME NEW h \in Handlers,
              RecomputeReadPending(h)
       PROVE  TypeOK'
  BY <1>12 DEF RecomputeReadPending, Goto, store, local
<1>13. ASSUME NEW h \in Handlers,
              RecomputeWrite(h)
       PROVE  TypeOK'
  BY <1>13 DEF RecomputeWrite, Finish, store, local
<1>14. ASSUME NEW h \in Handlers, NEW i \in Investors, NEW amount \in Credits,
              CreditPayout(h, i, amount)
       PROVE  TypeOK'
  BY <1>14 DEF CreditPayout, Goto, store, local
<1>15. ASSUME NEW h \in Handlers, NEW i \in Investors,
              PurchaseRead(h, i)
       PROVE  TypeOK'
  BY <1>15 DEF PurchaseRead, Goto, store, local
<1>16. ASSUME NEW h \in Handlers, NEW price \in Prices,
              PurchaseDebit(h, price)
       PROVE  TypeOK'
  BY <1>16 DEF PurchaseDebit, Goto, store, local
<1>17. ASSUME NEW h \in Handlers, NEW price \in Prices,
              PurchaseRefused(h, price)
       PROVE  TypeOK'
  BY <1>17 DEF PurchaseRefused, Finish, store, local
<1>18. ASSUME NEW h \in Handlers,
              Abort(h)
       PROVE  TypeOK'
  BY <1>18 DEF Abort, Finish, store, local
<1>19. CASE UNCHANGED vars
  BY <1>19 DEF vars, store, local
<1>20. QED
  BY <1>1, <1>2, <1>3, <1>4, <1>5, <1>6, <1>7, <1>8, <1>9, <1>10, <1>11,
     <1>12, <1>13, <1>14, <1>15, <1>16, <1>17, <1>18, <1>19
     DEF Next, Arrive, Serve

(* Every step keeps handlers at steps that fit what they hold.             *)
LEMMA StepHandlersOK ==
  TypeOK /\ HandlersOK /\ [Next]_vars
    => HandlersOK'
<1> SUFFICES ASSUME TypeOK, HandlersOK, [Next]_vars
             PROVE  HandlersOK'
  OBVIOUS
<1> USE DEF TypeOK, HandlersOK, Steps
<1>1. ASSUME NEW h \in Handlers, NEW r \in Requests,
              CreateReadLedger(h, r)
       PROVE  HandlersOK'
  BY <1>1 DEF CreateReadLedger, Goto, store, local
<1>2. ASSUME NEW h \in Handlers,
              CreateReadPending(h)
       PROVE  HandlersOK'
  BY <1>2 DEF CreateReadPending, Goto, Finish, store, local
<1>3. ASSUME NEW h \in Handlers,
              CreateInsert(h)
       PROVE  HandlersOK'
  BY <1>3 DEF CreateInsert, Goto, WriteStatus, Statuses, store, local
<1>4. ASSUME NEW h \in Handlers, NEW r \in Requests,
              CancelRead(h, r)
       PROVE  HandlersOK'
  BY <1>4 DEF CancelRead, Goto, InvestorCancellable, store, local
<1>5. ASSUME NEW h \in Handlers,
              CancelWrite(h)
       PROVE  HandlersOK'
  BY <1>5 DEF CancelWrite, Goto, WriteStatus, Statuses, store, local
<1>6. ASSUME NEW h \in Handlers, NEW r \in Requests, NEW s \in Statuses,
              AdminRead(h, r, s)
       PROVE  HandlersOK'
  BY <1>6 DEF AdminRead, Goto, store, local
<1>7. ASSUME NEW h \in Handlers,
              AdminDebit(h)
       PROVE  HandlersOK'
  BY <1>7 DEF AdminDebit, Goto, store, local
<1>8. ASSUME NEW h \in Handlers,
              AdminLink(h)
       PROVE  HandlersOK'
  BY <1>8 DEF AdminLink, Goto, Statuses, store, local
<1>9. ASSUME NEW h \in Handlers,
              AdminWrite(h)
       PROVE  HandlersOK'
  BY <1>9 DEF AdminWrite, Goto, WriteStatus, store, local
<1>10. ASSUME NEW h \in Handlers, NEW i \in Investors,
              GetWallet(h, i)
       PROVE  HandlersOK'
  BY <1>10 DEF GetWallet, Goto, store, local
<1>11. ASSUME NEW h \in Handlers,
              RecomputeReadLedger(h)
       PROVE  HandlersOK'
  BY <1>11 DEF RecomputeReadLedger, Goto, store, local
<1>12. ASSUME NEW h \in Handlers,
              RecomputeReadPending(h)
       PROVE  HandlersOK'
  BY <1>12 DEF RecomputeReadPending, Goto, store, local
<1>13. ASSUME NEW h \in Handlers,
              RecomputeWrite(h)
       PROVE  HandlersOK'
  BY <1>13 DEF RecomputeWrite, Finish, store, local
<1>14. ASSUME NEW h \in Handlers, NEW i \in Investors, NEW amount \in Credits,
              CreditPayout(h, i, amount)
       PROVE  HandlersOK'
  BY <1>14 DEF CreditPayout, Goto, store, local
<1>15. ASSUME NEW h \in Handlers, NEW i \in Investors,
              PurchaseRead(h, i)
       PROVE  HandlersOK'
  BY <1>15 DEF PurchaseRead, Goto, store, local
<1>16. ASSUME NEW h \in Handlers, NEW price \in Prices,
              PurchaseDebit(h, price)
       PROVE  HandlersOK'
  BY <1>16 DEF PurchaseDebit, Goto, store, local
<1>17. ASSUME NEW h \in Handlers, NEW price \in Prices,
              PurchaseRefused(h, price)
       PROVE  HandlersOK'
  BY <1>17 DEF PurchaseRefused, Finish, store, local
<1>18. ASSUME NEW h \in Handlers,
              Abort(h)
       PROVE  HandlersOK'
  BY <1>18 DEF Abort, Finish, store, local
<1>19. CASE UNCHANGED vars
  BY <1>19 DEF vars, store, local
<1>20. QED
  BY <1>1, <1>2, <1>3, <1>4, <1>5, <1>6, <1>7, <1>8, <1>9, <1>10, <1>11,
     <1>12, <1>13, <1>14, <1>15, <1>16, <1>17, <1>18, <1>19
     DEF Next, Arrive, Serve

(* Every step keeps approval in the history of what is or will be paid.    *)
LEMMA StepApprovalKnown ==
  TypeOK /\ HandlersOK /\ ApprovalKnown /\ [Next]_vars
    => ApprovalKnown'
<1> SUFFICES ASSUME TypeOK, HandlersOK, ApprovalKnown, [Next]_vars
             PROVE  ApprovalKnown'
  OBVIOUS
<1> USE DEF TypeOK, HandlersOK, Steps, Statuses, ApprovalKnown,
           AfterApproval
<1>1. ASSUME NEW h \in Handlers, NEW r \in Requests,
              CreateReadLedger(h, r)
       PROVE  ApprovalKnown'
  BY <1>1 DEF CreateReadLedger, Goto, store, local
<1>2. ASSUME NEW h \in Handlers,
              CreateReadPending(h)
       PROVE  ApprovalKnown'
  BY <1>2 DEF CreateReadPending, Goto, Finish, store, local
<1>3. ASSUME NEW h \in Handlers,
              CreateInsert(h)
       PROVE  ApprovalKnown'
  BY <1>3 DEF CreateInsert, Goto, WriteStatus, Statuses, store, local
<1>4. ASSUME NEW h \in Handlers, NEW r \in Requests,
              CancelRead(h, r)
       PROVE  ApprovalKnown'
  BY <1>4 DEF CancelRead, Goto, InvestorCancellable, store, local
<1>5. ASSUME NEW h \in Handlers,
              CancelWrite(h)
       PROVE  ApprovalKnown'
  BY <1>5 DEF CancelWrite, Goto, WriteStatus, Statuses, store, local
<1>6. ASSUME NEW h \in Handlers, NEW r \in Requests, NEW s \in Statuses,
              AdminRead(h, r, s)
       PROVE  ApprovalKnown'
  <2>1. s \in AfterApproval => status[r] \in {"approved"} \cup AfterApproval
    BY <1>6, ApprovalPrecedes DEF AdminRead, NoRequest
  <2>2. s \in AfterApproval => "approved" \in history[r]
    BY <2>1, <1>6 DEF AdminRead
  <2>3. QED
    BY <2>2, <1>6 DEF AdminRead, Goto, store, local
<1>7. ASSUME NEW h \in Handlers,
              AdminDebit(h)
       PROVE  ApprovalKnown'
  BY <1>7 DEF AdminDebit, Goto, store, local
<1>8. ASSUME NEW h \in Handlers,
              AdminLink(h)
       PROVE  ApprovalKnown'
  BY <1>8 DEF AdminLink, Goto, Statuses, store, local
<1>9. ASSUME NEW h \in Handlers,
              AdminWrite(h)
       PROVE  ApprovalKnown'
  BY <1>9 DEF AdminWrite, Goto, WriteStatus, store, local
<1>10. ASSUME NEW h \in Handlers, NEW i \in Investors,
              GetWallet(h, i)
       PROVE  ApprovalKnown'
  BY <1>10 DEF GetWallet, Goto, store, local
<1>11. ASSUME NEW h \in Handlers,
              RecomputeReadLedger(h)
       PROVE  ApprovalKnown'
  BY <1>11 DEF RecomputeReadLedger, Goto, store, local
<1>12. ASSUME NEW h \in Handlers,
              RecomputeReadPending(h)
       PROVE  ApprovalKnown'
  BY <1>12 DEF RecomputeReadPending, Goto, store, local
<1>13. ASSUME NEW h \in Handlers,
              RecomputeWrite(h)
       PROVE  ApprovalKnown'
  BY <1>13 DEF RecomputeWrite, Finish, store, local
<1>14. ASSUME NEW h \in Handlers, NEW i \in Investors, NEW amount \in Credits,
              CreditPayout(h, i, amount)
       PROVE  ApprovalKnown'
  BY <1>14 DEF CreditPayout, Goto, store, local
<1>15. ASSUME NEW h \in Handlers, NEW i \in Investors,
              PurchaseRead(h, i)
       PROVE  ApprovalKnown'
  BY <1>15 DEF PurchaseRead, Goto, store, local
<1>16. ASSUME NEW h \in Handlers, NEW price \in Prices,
              PurchaseDebit(h, price)
       PROVE  ApprovalKnown'
  BY <1>16 DEF PurchaseDebit, Goto, store, local
<1>17. ASSUME NEW h \in Handlers, NEW price \in Prices,
              PurchaseRefused(h, price)
       PROVE  ApprovalKnown'
  BY <1>17 DEF PurchaseRefused, Finish, store, local
<1>18. ASSUME NEW h \in Handlers,
              Abort(h)
       PROVE  ApprovalKnown'
  BY <1>18 DEF Abort, Finish, store, local
<1>19. CASE UNCHANGED vars
  BY <1>19 DEF vars, store, local
<1>20. QED
  BY <1>1, <1>2, <1>3, <1>4, <1>5, <1>6, <1>7, <1>8, <1>9, <1>10, <1>11,
     <1>12, <1>13, <1>14, <1>15, <1>16, <1>17, <1>18, <1>19
     DEF Next, Arrive, Serve

(* Every step keeps the debit before the status paid.                      *)
LEMMA StepDebitKnown ==
  TypeOK /\ HandlersOK /\ DebitKnown /\ PaidIsDebited /\ [Next]_vars
    => (DebitKnown /\ PaidIsDebited)'
<1> SUFFICES ASSUME TypeOK, HandlersOK, DebitKnown, PaidIsDebited, [Next]_vars
             PROVE  (DebitKnown /\ PaidIsDebited)'
  OBVIOUS
<1> USE DEF TypeOK, HandlersOK, Steps, DebitKnown, PaidIsDebited
<1>1. ASSUME NEW h \in Handlers, NEW r \in Requests,
              CreateReadLedger(h, r)
       PROVE  (DebitKnown /\ PaidIsDebited)'
  BY <1>1 DEF CreateReadLedger, Goto, store, local
<1>2. ASSUME NEW h \in Handlers,
              CreateReadPending(h)
       PROVE  (DebitKnown /\ PaidIsDebited)'
  BY <1>2 DEF CreateReadPending, Goto, Finish, store, local
<1>3. ASSUME NEW h \in Handlers,
              CreateInsert(h)
       PROVE  (DebitKnown /\ PaidIsDebited)'
  BY <1>3 DEF CreateInsert, Goto, WriteStatus, Statuses, store, local
<1>4. ASSUME NEW h \in Handlers, NEW r \in Requests,
              CancelRead(h, r)
       PROVE  (DebitKnown /\ PaidIsDebited)'
  BY <1>4 DEF CancelRead, Goto, InvestorCancellable, store, local
<1>5. ASSUME NEW h \in Handlers,
              CancelWrite(h)
       PROVE  (DebitKnown /\ PaidIsDebited)'
  BY <1>5 DEF CancelWrite, Goto, WriteStatus, Statuses, store, local
<1>6. ASSUME NEW h \in Handlers, NEW r \in Requests, NEW s \in Statuses,
              AdminRead(h, r, s)
       PROVE  (DebitKnown /\ PaidIsDebited)'
  BY <1>6 DEF AdminRead, Goto, store, local
<1>7. ASSUME NEW h \in Handlers,
              AdminDebit(h)
       PROVE  (DebitKnown /\ PaidIsDebited)'
  BY <1>7 DEF AdminDebit, Goto, store, local
<1>8. ASSUME NEW h \in Handlers,
              AdminLink(h)
       PROVE  (DebitKnown /\ PaidIsDebited)'
  BY <1>8 DEF AdminLink, Goto, Statuses, store, local
<1>9. ASSUME NEW h \in Handlers,
              AdminWrite(h)
       PROVE  (DebitKnown /\ PaidIsDebited)'
  BY <1>9 DEF AdminWrite, Goto, WriteStatus, store, local
<1>10. ASSUME NEW h \in Handlers, NEW i \in Investors,
              GetWallet(h, i)
       PROVE  (DebitKnown /\ PaidIsDebited)'
  BY <1>10 DEF GetWallet, Goto, store, local
<1>11. ASSUME NEW h \in Handlers,
              RecomputeReadLedger(h)
       PROVE  (DebitKnown /\ PaidIsDebited)'
  BY <1>11 DEF RecomputeReadLedger, Goto, store, local
<1>12. ASSUME NEW h \in Handlers,
              RecomputeReadPending(h)
       PROVE  (DebitKnown /\ PaidIsDebited)'
  BY <1>12 DEF RecomputeReadPending, Goto, store, local
<1>13. ASSUME NEW h \in Handlers,
              RecomputeWrite(h)
       PROVE  (DebitKnown /\ PaidIsDebited)'
  BY <1>13 DEF RecomputeWrite, Finish, store, local
<1>14. ASSUME NEW h \in Handlers, NEW i \in Investors, NEW amount \in Credits,
              CreditPayout(h, i, amount)
       PROVE  (DebitKnown /\ PaidIsDebited)'
  BY <1>14 DEF CreditPayout, Goto, store, local
<1>15. ASSUME NEW h \in Handlers, NEW i \in Investors,
              PurchaseRead(h, i)
       PROVE  (DebitKnown /\ PaidIsDebited)'
  BY <1>15 DEF PurchaseRead, Goto, store, local
<1>16. ASSUME NEW h \in Handlers, NEW price \in Prices,
              PurchaseDebit(h, price)
       PROVE  (DebitKnown /\ PaidIsDebited)'
  BY <1>16 DEF PurchaseDebit, Goto, store, local
<1>17. ASSUME NEW h \in Handlers, NEW price \in Prices,
              PurchaseRefused(h, price)
       PROVE  (DebitKnown /\ PaidIsDebited)'
  BY <1>17 DEF PurchaseRefused, Finish, store, local
<1>18. ASSUME NEW h \in Handlers,
              Abort(h)
       PROVE  (DebitKnown /\ PaidIsDebited)'
  BY <1>18 DEF Abort, Finish, store, local
<1>19. CASE UNCHANGED vars
  BY <1>19 DEF vars, store, local
<1>20. QED
  BY <1>1, <1>2, <1>3, <1>4, <1>5, <1>6, <1>7, <1>8, <1>9, <1>10, <1>11,
     <1>12, <1>13, <1>14, <1>15, <1>16, <1>17, <1>18, <1>19
     DEF Next, Arrive, Serve

(* Every step keeps approval before the debit.                             *)
LEMMA StepDebitWasApproved ==
  TypeOK /\ HandlersOK /\ ApprovalKnown /\ DebitWasApproved /\ [Next]_vars
    => DebitWasApproved'
<1> SUFFICES ASSUME TypeOK, HandlersOK, ApprovalKnown, DebitWasApproved, [Next]_vars
             PROVE  DebitWasApproved'
  OBVIOUS
<1> USE DEF TypeOK, HandlersOK, Steps, Statuses, ApprovalKnown, AfterApproval,
           DebitWasApproved
<1>1. ASSUME NEW h \in Handlers, NEW r \in Requests,
              CreateReadLedger(h, r)
       PROVE  DebitWasApproved'
  BY <1>1 DEF CreateReadLedger, Goto, store, local
<1>2. ASSUME NEW h \in Handlers,
              CreateReadPending(h)
       PROVE  DebitWasApproved'
  BY <1>2 DEF CreateReadPending, Goto, Finish, store, local
<1>3. ASSUME NEW h \in Handlers,
              CreateInsert(h)
       PROVE  DebitWasApproved'
  BY <1>3 DEF CreateInsert, Goto, WriteStatus, Statuses, store, local
<1>4. ASSUME NEW h \in Handlers, NEW r \in Requests,
              CancelRead(h, r)
       PROVE  DebitWasApproved'
  BY <1>4 DEF CancelRead, Goto, InvestorCancellable, store, local
<1>5. ASSUME NEW h \in Handlers,
              CancelWrite(h)
       PROVE  DebitWasApproved'
  BY <1>5 DEF CancelWrite, Goto, WriteStatus, Statuses, store, local
<1>6. ASSUME NEW h \in Handlers, NEW r \in Requests, NEW s \in Statuses,
              AdminRead(h, r, s)
       PROVE  DebitWasApproved'
  BY <1>6 DEF AdminRead, Goto, store, local
<1>7. ASSUME NEW h \in Handlers,
              AdminDebit(h)
       PROVE  DebitWasApproved'
  BY <1>7 DEF AdminDebit, Goto, store, local
<1>8. ASSUME NEW h \in Handlers,
              AdminLink(h)
       PROVE  DebitWasApproved'
  BY <1>8 DEF AdminLink, Goto, Statuses, store, local
<1>9. ASSUME NEW h \in Handlers,
              AdminWrite(h)
       PROVE  DebitWasApproved'
  BY <1>9 DEF AdminWrite, Goto, WriteStatus, store, local
<1>10. ASSUME NEW h \in Handlers, NEW i \in Investors,
              GetWallet(h, i)
       PROVE  DebitWasApproved'
  BY <1>10 DEF GetWallet, Goto, store, local
<1>11. ASSUME NEW h \in Handlers,
              RecomputeReadLedger(h)
       PROVE  DebitWasApproved'
  BY <1>11 DEF RecomputeReadLedger, Goto, store, local
<1>12. ASSUME NEW h \in Handlers,
              RecomputeReadPending(h)
       PROVE  DebitWasApproved'
  BY <1>12 DEF RecomputeReadPending, Goto, store, local
<1>13. ASSUME NEW h \in Handlers,
              RecomputeWrite(h)
       PROVE  DebitWasApproved'
  BY <1>13 DEF RecomputeWrite, Finish, store, local
<1>14. ASSUME NEW h \in Handlers, NEW i \in Investors, NEW amount \in Credits,
              CreditPayout(h, i, amount)
       PROVE  DebitWasApproved'
  BY <1>14 DEF CreditPayout, Goto, store, local
<1>15. ASSUME NEW h \in Handlers, NEW i \in Investors,
              PurchaseRead(h, i)
       PROVE  DebitWasApproved'
  BY <1>15 DEF PurchaseRead, Goto, store, local
<1>16. ASSUME NEW h \in Handlers, NEW price \in Prices,
              PurchaseDebit(h, price)
       PROVE  DebitWasApproved'
  BY <1>16 DEF PurchaseDebit, Goto, store, local
<1>17. ASSUME NEW h \in Handlers, NEW price \in Prices,
              PurchaseRefused(h, price)
       PROVE  DebitWasApproved'
  BY <1>17 DEF PurchaseRefused, Finish, store, local
<1>18. ASSUME NEW h \in Handlers,
              Abort(h)
       PROVE  DebitWasApproved'
  BY <1>18 DEF Abort, Finish, store, local
<1>19. CASE UNCHANGED vars
  BY <1>19 DEF vars, store, local
<1>20. QED
  BY <1>1, <1>2, <1>3, <1>4, <1>5, <1>6, <1>7, <1>8, <1>9, <1>10, <1>11,
     <1>12, <1>13, <1>14, <1>15, <1>16, <1>17, <1>18, <1>19
     DEF Next, Arrive, Serve

(* IInv is an invariant of the specification.                              *)
THEOREM InductiveInvariant == Spec => []IInv
<1>1. IInv /\ [Next]_vars => IInv'
  BY StepTypeOK, StepHandlersOK, StepApprovalKnown, StepDebitKnown,
     StepDebitWasApproved DEF IInv
<1>2. QED
  BY InitIInv, <1>1, PTL DEF Spec

(* Statuses, histories, debits and the handlers' locals keep their types   *)
(* (create_withdrawal, cancel_withdrawal, admin_set_status).               *)
THEOREM TypeCorrect == Spec => []TypeOK
<1>1. IInv => TypeOK
  BY DEF IInv
<1>2. QED
  BY InductiveInvariant, <1>1, PTL

(* admin_set_status never shows a request as paid without its debit, and   *)
(* without the debit naming it, however handlers interleave or die.        *)
THEOREM PaidIsDebitedAlways == Spec => []PaidIsDebited
<1>1. IInv => PaidIsDebited
  BY DEF IInv
<1>2. QED
  BY InductiveInvariant, <1>1, PTL

(* No interleaving of handlers debits a wallet for a request no admin had  *)
(* approved.                                                               *)
THEOREM DebitWasApprovedAlways == Spec => []DebitWasApproved
<1>1. IInv => DebitWasApproved
  BY DEF IInv
<1>2. QED
  BY InductiveInvariant, <1>1, PTL

(* Every step leaves a closed request closed.                              *)
LEMMA StepClosed ==
  TypeOK /\ HandlersOK /\ [Next]_vars
    => \A q \in Requests : Closed(q) => Closed(q)' /\ status'[q] = status[q]
<1> SUFFICES ASSUME TypeOK, HandlersOK, [Next]_vars,
                    NEW q \in Requests, Closed(q)
             PROVE  Closed(q)' /\ status'[q] = status[q]
  OBVIOUS
<1> USE DEF TypeOK, HandlersOK, Steps, Closed, Terminal, InvestorCancellable,
           Statuses,
           NoRequest
<1>1. ASSUME NEW h \in Handlers, NEW r \in Requests,
              CreateReadLedger(h, r)
       PROVE  Closed(q)' /\ status'[q] = status[q]
  BY <1>1 DEF CreateReadLedger, Goto, store, local
<1>2. ASSUME NEW h \in Handlers,
              CreateReadPending(h)
       PROVE  Closed(q)' /\ status'[q] = status[q]
  BY <1>2 DEF CreateReadPending, Goto, Finish, store, local
<1>3. ASSUME NEW h \in Handlers,
              CreateInsert(h)
       PROVE  Closed(q)' /\ status'[q] = status[q]
  BY <1>3 DEF CreateInsert, Goto, WriteStatus, Statuses, store, local
<1>4. ASSUME NEW h \in Handlers, NEW r \in Requests,
              CancelRead(h, r)
       PROVE  Closed(q)' /\ status'[q] = status[q]
  BY <1>4 DEF CancelRead, Goto, InvestorCancellable, store, local
<1>5. ASSUME NEW h \in Handlers,
              CancelWrite(h)
       PROVE  Closed(q)' /\ status'[q] = status[q]
  BY <1>5 DEF CancelWrite, Goto, WriteStatus, Statuses, store, local
<1>6. ASSUME NEW h \in Handlers, NEW r \in Requests, NEW s \in Statuses,
              AdminRead(h, r, s)
       PROVE  Closed(q)' /\ status'[q] = status[q]
  <2>1. AdminTransitions[status[q]] = {}
    BY DEF AdminTransitions
  <2>2. QED
    BY <2>1, <1>6 DEF AdminRead, Goto, store, local
<1>7. ASSUME NEW h \in Handlers,
              AdminDebit(h)
       PROVE  Closed(q)' /\ status'[q] = status[q]
  BY <1>7 DEF AdminDebit, Goto, store, local
<1>8. ASSUME NEW h \in Handlers,
              AdminLink(h)
       PROVE  Closed(q)' /\ status'[q] = status[q]
  BY <1>8 DEF AdminLink, Goto, Statuses, store, local
<1>9. ASSUME NEW h \in Handlers,
              AdminWrite(h)
       PROVE  Closed(q)' /\ status'[q] = status[q]
  BY <1>9 DEF AdminWrite, Goto, WriteStatus, store, local
<1>10. ASSUME NEW h \in Handlers, NEW i \in Investors,
              GetWallet(h, i)
       PROVE  Closed(q)' /\ status'[q] = status[q]
  BY <1>10 DEF GetWallet, Goto, store, local
<1>11. ASSUME NEW h \in Handlers,
              RecomputeReadLedger(h)
       PROVE  Closed(q)' /\ status'[q] = status[q]
  BY <1>11 DEF RecomputeReadLedger, Goto, store, local
<1>12. ASSUME NEW h \in Handlers,
              RecomputeReadPending(h)
       PROVE  Closed(q)' /\ status'[q] = status[q]
  BY <1>12 DEF RecomputeReadPending, Goto, store, local
<1>13. ASSUME NEW h \in Handlers,
              RecomputeWrite(h)
       PROVE  Closed(q)' /\ status'[q] = status[q]
  BY <1>13 DEF RecomputeWrite, Finish, store, local
<1>14. ASSUME NEW h \in Handlers, NEW i \in Investors, NEW amount \in Credits,
              CreditPayout(h, i, amount)
       PROVE  Closed(q)' /\ status'[q] = status[q]
  BY <1>14 DEF CreditPayout, Goto, store, local
<1>15. ASSUME NEW h \in Handlers, NEW i \in Investors,
              PurchaseRead(h, i)
       PROVE  Closed(q)' /\ status'[q] = status[q]
  BY <1>15 DEF PurchaseRead, Goto, store, local
<1>16. ASSUME NEW h \in Handlers, NEW price \in Prices,
              PurchaseDebit(h, price)
       PROVE  Closed(q)' /\ status'[q] = status[q]
  BY <1>16 DEF PurchaseDebit, Goto, store, local
<1>17. ASSUME NEW h \in Handlers, NEW price \in Prices,
              PurchaseRefused(h, price)
       PROVE  Closed(q)' /\ status'[q] = status[q]
  BY <1>17 DEF PurchaseRefused, Finish, store, local
<1>18. ASSUME NEW h \in Handlers,
              Abort(h)
       PROVE  Closed(q)' /\ status'[q] = status[q]
  BY <1>18 DEF Abort, Finish, store, local
<1>19. CASE UNCHANGED vars
  BY <1>19 DEF vars, store, local
<1>20. QED
  BY <1>1, <1>2, <1>3, <1>4, <1>5, <1>6, <1>7, <1>8, <1>9, <1>10, <1>11,
     <1>12, <1>13, <1>14, <1>15, <1>16, <1>17, <1>18, <1>19
     DEF Next, Arrive, Serve

(* Only handlers that overlap the one closing a request can reopen it.     *)
THEOREM TerminalIsFinalAlways == Spec => TerminalIsFinal
<1>1. IInv /\ [Next]_vars =>
        [\A r \in Requests :
            Closed(r) => Closed(r)' /\ status'[r] = status[r]]_vars
  BY StepClosed DEF IInv
<1>2. QED
  BY InductiveInvariant, <1>1, PTL DEF Spec, TerminalIsFinal
---------------------------------------------------------------------------
(***************************************************************************)
(* What LumenWallet promises when requests are served one after another    *)
(* and none is lost: every promise below is broken by two overlapping      *)
(* handlers (run wallet_double_debit), so they are stated under OneHandler.*)
(* The number of investors and requests, the amounts and the order of the  *)
(* operations are arbitrary.                                               *)
(***************************************************************************)

OneHandler ==
  /\ \A g, h \in Handlers : g = h
  /\ MaxAborts = 0

(* The balances as functions of the investor.                              *)
LedgerOf  == [i \in Investors |-> LedgerSettled(i)]
PendingOf == [i \in Investors |-> Pending(i, status)]

(* The record of balances a handler holds.                                 *)
Shapes ==
  seen = [h \in Handlers |->
            [settled |-> seen[h].settled, pending |-> seen[h].pending]]

(* A debit is in the ledger exactly for the paid requests, and for the one *)
(* that is about to become paid.                                           *)
HasDebited(r) ==
  \E h \in Handlers :
    pc[h] \in {"admin_link", "admin_write"} /\ target[h] = "paid" /\ req[h] = r

DebitsFit ==
  \A r \in Requests :
    debits[r] = IF status[r] = "paid" \/ HasDebited(r) THEN 1 ELSE 0

(* What a handler has checked still holds when it writes.                  *)
ChecksHold ==
  \A h \in Handlers :
    /\ pc[h] \in {"create_pending", "create_insert", "cancel_write",
                  "admin_debit", "admin_link", "admin_write"}
         => who[h] = OwnerOf[req[h]]
    /\ pc[h] \in {"create_pending", "create_insert"} =>
         status[req[h]] = NoRequest /\ AmountOf[req[h]] >= MinWithdrawal
    /\ pc[h] = "create_pending" => seen[h].settled = LedgerOf[who[h]]
    /\ pc[h] = "create_insert" =>
         AmountOf[req[h]] <= (LedgerOf[who[h]] - PendingOf[who[h]]) + Slack
    /\ pc[h] = "cancel_write" => status[req[h]] \in InvestorCancellable
    /\ pc[h] \in {"admin_debit", "admin_link", "admin_write"} =>
         status[req[h]] \in Statuses /\ target[h] \in AdminTransitions[status[req[h]]]

SerialInv == IInv /\ Shapes /\ DebitsFit /\ ChecksHold
---------------------------------------------------------------------------
(* The balances.  Sums are compared, never computed.                       *)

(* The ledger of an investor changes with its income, its purchases and    *)
(* with debits only.                                                       *)
LEMMA LedgerSame ==
  ASSUME UNCHANGED <<income, spent, debits>> PROVE LedgerOf' = LedgerOf
<1>1. \A i \in Investors : LedgerSettled(i)' = LedgerSettled(i)
  BY DEF LedgerSettled
<1> QED
  BY <1>1 DEF LedgerOf

(* What is pending changes with the statuses only.                         *)
LEMMA PendingSame ==
  ASSUME UNCHANGED status PROVE PendingOf' = PendingOf
<1>1. \A i \in Investors : Pending(i, status)' = Pending(i, status)
  BY DEF Pending
<1> QED
  BY <1>1 DEF PendingOf

---------------------------------------------------------------------------
(* The inductive invariant.                                                *)

(* A step is one of the only handler, and no handler is lost.              *)
LEMMA SerialNext ==
  ASSUME OneHandler, TypeOK, [Next]_vars
  PROVE  \/ UNCHANGED vars
         \/ \E h \in Handlers : Arrive(h) \/ Serve(h)
BY DEF OneHandler, Next, Abort, TypeOK

(* Nothing has been filed, and nobody is at work.                          *)
LEMMA InitSerialInv == Init => SerialInv
BY InitIInv DEF Init, SerialInv, Shapes, Zero, DebitsFit, HasDebited,
   ChecksHold, NoRequest

(* The investor of a request is one.                                       *)
LEMMA OwnerIsInvestor == \A r \in Requests : OwnerOf[r] \in Investors
OBVIOUS

(* A handler about to write a request has one that is not paid.            *)
LEMMA NotYetPaid ==
  ASSUME SerialInv, NEW h \in Handlers,
         pc[h] \in {"create_insert", "cancel_write",
                    "admin_debit", "admin_link", "admin_write"}
  PROVE  req[h] \in Requests /\ status[req[h]] # "paid"
<1>1. req[h] \in Requests
  BY DEF SerialInv, IInv, HandlersOK
<1>2. \A s \in Statuses : AdminTransitions[s] # {} => s # "paid"
  BY DEF AdminTransitions, Statuses, Terminal
<1> QED
  BY <1>1, <1>2 DEF SerialInv, ChecksHold, NoRequest, InvestorCancellable

(* A step keeps the shape of what a handler has seen.                      *)
LEMMA StepShapes ==
  ASSUME OneHandler, SerialInv, [Next]_vars
  PROVE  Shapes'
<1>0. UNCHANGED vars \/ \E h \in Handlers : Arrive(h) \/ Serve(h)
  BY SerialNext DEF SerialInv, IInv
<1> USE DEF SerialInv, Shapes, IInv, TypeOK
<1>1. ASSUME NEW h \in Handlers, NEW r \in Requests, CreateReadLedger(h, r)
       PROVE  Shapes'
  BY <1>1 DEF CreateReadLedger, Goto, store
<1>2. ASSUME NEW h \in Handlers, CreateReadPending(h)
       PROVE  Shapes'
  <2>1. seen' = seen \/ seen' = [seen EXCEPT ![h] = Zero]
    BY <1>2 DEF CreateReadPending, Finish
  <2> QED
    BY <2>1 DEF Zero
<1>3. ASSUME NEW h \in Handlers, CreateInsert(h)
       PROVE  Shapes'
  BY <1>3 DEF CreateInsert, Goto, WriteStatus
<1>4. ASSUME NEW h \in Handlers, NEW r \in Requests, CancelRead(h, r)
       PROVE  Shapes'
  BY <1>4 DEF CancelRead, Goto, store
<1>5. ASSUME NEW h \in Handlers, CancelWrite(h)
       PROVE  Shapes'
  BY <1>5 DEF CancelWrite, Goto, WriteStatus
<1>6. ASSUME NEW h \in Handlers, NEW r \in Requests, NEW s \in Statuses, AdminRead(h, r, s)
       PROVE  Shapes'
  BY <1>6 DEF AdminRead, Goto, store
<1>7. ASSUME NEW h \in Handlers, AdminDebit(h)
       PROVE  Shapes'
  BY <1>7 DEF AdminDebit, Goto
<1>8. ASSUME NEW h \in Handlers, AdminLink(h)
       PROVE  Shapes'
  BY <1>8 DEF AdminLink, Goto
<1>9. ASSUME NEW h \in Handlers, AdminWrite(h)
       PROVE  Shapes'
  BY <1>9 DEF AdminWrite, Goto, WriteStatus
<1>10. ASSUME NEW h \in Handlers, NEW i \in Investors, GetWallet(h, i)
       PROVE  Shapes'
  BY <1>10 DEF GetWallet, Goto, store
<1>11. ASSUME NEW h \in Handlers, RecomputeReadLedger(h)
       PROVE  Shapes'
  BY <1>11 DEF RecomputeReadLedger, Goto, store
<1>12. ASSUME NEW h \in Handlers, RecomputeReadPending(h)
       PROVE  Shapes'
  BY <1>12 DEF RecomputeReadPending, Goto, store
<1>13. ASSUME NEW h \in Handlers, RecomputeWrite(h)
       PROVE  Shapes'
  BY <1>13 DEF RecomputeWrite, Finish, Zero
<1>14. ASSUME NEW h \in Handlers, NEW i \in Investors, NEW amount \in Credits, CreditPayout(h, i, amount)
       PROVE  Shapes'
  BY <1>14 DEF CreditPayout, Goto
<1>15. ASSUME NEW h \in Handlers, NEW i \in Investors, PurchaseRead(h, i)
       PROVE  Shapes'
  BY <1>15 DEF PurchaseRead, Goto, store
<1>16. ASSUME NEW h \in Handlers, NEW price \in Prices, PurchaseDebit(h, price)
       PROVE  Shapes'
  BY <1>16 DEF PurchaseDebit, Goto
<1>17. ASSUME NEW h \in Handlers, NEW price \in Prices, PurchaseRefused(h, price)
       PROVE  Shapes'
  BY <1>17 DEF PurchaseRefused, Finish, store, Zero
<1>18. CASE UNCHANGED vars
  BY <1>18 DEF vars, store, local
<1> HIDE DEF SerialInv, Shapes, IInv, TypeOK
<1> QED
  BY <1>0, <1>1, <1>2, <1>3, <1>4, <1>5, <1>6, <1>7, <1>8, <1>9, <1>10,
     <1>11, <1>12, <1>13, <1>14, <1>15, <1>16, <1>17, <1>18
  DEF Arrive, Serve

(* A step keeps the debits what the statuses and the handler say.          *)
LEMMA StepDebitsFit ==
  ASSUME OneHandler, SerialInv, [Next]_vars
  PROVE  DebitsFit'
<1>0. UNCHANGED vars \/ \E h \in Handlers : Arrive(h) \/ Serve(h)
  BY SerialNext DEF SerialInv, IInv
<1> USE DEF SerialInv, DebitsFit, HasDebited, IInv, TypeOK, HandlersOK,
    Steps, OneHandler
<1>1. ASSUME NEW h \in Handlers, NEW r \in Requests, CreateReadLedger(h, r)
       PROVE  DebitsFit'
  BY <1>1 DEF CreateReadLedger, Goto, store
<1>2. ASSUME NEW h \in Handlers, CreateReadPending(h)
       PROVE  DebitsFit'
  BY <1>2 DEF CreateReadPending, Goto, Finish, store
<1>3. ASSUME NEW h \in Handlers, CreateInsert(h)
       PROVE  DebitsFit'
  <2>1. req[h] \in Requests /\ status[req[h]] # "paid"
    BY <1>3, NotYetPaid DEF CreateInsert, Goto
  <2> QED
    BY <1>3, <2>1 DEF CreateInsert, Goto, WriteStatus
<1>4. ASSUME NEW h \in Handlers, NEW r \in Requests, CancelRead(h, r)
       PROVE  DebitsFit'
  BY <1>4 DEF CancelRead, Goto, store
<1>5. ASSUME NEW h \in Handlers, CancelWrite(h)
       PROVE  DebitsFit'
  <2>1. req[h] \in Requests /\ status[req[h]] # "paid"
    BY <1>5, NotYetPaid DEF CancelWrite, Goto
  <2> QED
    BY <1>5, <2>1 DEF CancelWrite, Goto, WriteStatus
<1>6. ASSUME NEW h \in Handlers, NEW r \in Requests, NEW s \in Statuses, AdminRead(h, r, s)
       PROVE  DebitsFit'
  BY <1>6 DEF AdminRead, Goto, store
<1>7. ASSUME NEW h \in Handlers, AdminDebit(h)
       PROVE  DebitsFit'
  <2>1. req[h] \in Requests /\ status[req[h]] # "paid"
    BY <1>7, NotYetPaid DEF AdminDebit, Goto
  <2> QED
    BY <1>7, <2>1 DEF AdminDebit, Goto
<1>8. ASSUME NEW h \in Handlers, AdminLink(h)
       PROVE  DebitsFit'
  BY <1>8 DEF AdminLink, Goto
<1>9. ASSUME NEW h \in Handlers, AdminWrite(h)
       PROVE  DebitsFit'
  <2>1. req[h] \in Requests /\ status[req[h]] # "paid"
    BY <1>9, NotYetPaid DEF AdminWrite, Goto
  <2> QED
    BY <1>9, <2>1 DEF AdminWrite, Goto, WriteStatus
<1>10. ASSUME NEW h \in Handlers, NEW i \in Investors, GetWallet(h, i)
       PROVE  DebitsFit'
  BY <1>10 DEF GetWallet, Goto, store
<1>11. ASSUME NEW h \in Handlers, RecomputeReadLedger(h)
       PROVE  DebitsFit'
  BY <1>11 DEF RecomputeReadLedger, Goto, store
<1>12. ASSUME NEW h \in Handlers, RecomputeReadPending(h)
       PROVE  DebitsFit'
  BY <1>12 DEF RecomputeReadPending, Goto, store
<1>13. ASSUME NEW h \in Handlers, RecomputeWrite(h)
       PROVE  DebitsFit'
  BY <1>13 DEF RecomputeWrite, Finish
<1>14. ASSUME NEW h \in Handlers, NEW i \in Investors, NEW amount \in Credits, CreditPayout(h, i, amount)
       PROVE  DebitsFit'
  BY <1>14 DEF CreditPayout, Goto
<1>15. ASSUME NEW h \in Handlers, NEW i \in Investors, PurchaseRead(h, i)
       PROVE  DebitsFit'
  BY <1>15 DEF PurchaseRead, Goto, store
<1>16. ASSUME NEW h \in Handlers, NEW price \in Prices, PurchaseDebit(h, price)
       PROVE  DebitsFit'
  BY <1>16 DEF PurchaseDebit, Goto
<1>17. ASSUME NEW h \in Handlers, NEW price \in Prices, PurchaseRefused(h, price)
       PROVE  DebitsFit'
  BY <1>17 DEF PurchaseRefused, Finish, store
<1>18. CASE UNCHANGED vars
  BY <1>18 DEF vars, store, local
<1> HIDE DEF SerialInv, DebitsFit, HasDebited, IInv, TypeOK, HandlersOK,
    Steps, OneHandler
<1> QED
  BY <1>0, <1>1, <1>2, <1>3, <1>4, <1>5, <1>6, <1>7, <1>8, <1>9, <1>10,
     <1>11, <1>12, <1>13, <1>14, <1>15, <1>16, <1>17, <1>18
  DEF Arrive, Serve

(* What the handler has checked is not changed under it.                   *)
LEMMA StepChecksHold ==
  ASSUME OneHandler, SerialInv, [Next]_vars
  PROVE  ChecksHold'
<1>0. UNCHANGED vars \/ \E h \in Handlers : Arrive(h) \/ Serve(h)
  BY SerialNext DEF SerialInv, IInv
<1> USE DEF SerialInv, Shapes, ChecksHold, IInv, TypeOK, HandlersOK, Steps,
    OneHandler
<1>1. ASSUME NEW h \in Handlers, NEW r \in Requests, CreateReadLedger(h, r)
       PROVE  ChecksHold'
  <2>1. LedgerOf' = LedgerOf
    BY <1>1, LedgerSame DEF CreateReadLedger, Goto, store
  <2>2. LedgerSettled(OwnerOf[r]) = LedgerOf[OwnerOf[r]]
    BY OwnerIsInvestor DEF LedgerOf
  <2> QED
    BY <1>1, <2>1, <2>2 DEF CreateReadLedger, Goto, store
<1>2. ASSUME NEW h \in Handlers, CreateReadPending(h)
       PROVE  ChecksHold'
  <2>1. LedgerOf' = LedgerOf /\ PendingOf' = PendingOf
    BY <1>2, LedgerSame, PendingSame DEF CreateReadPending, Goto, Finish,
       store
  <2>2. who[h] \in Investors => Pending(who[h], status) = PendingOf[who[h]]
    BY DEF PendingOf
  <2> QED
    BY <1>2, <2>1, <2>2 DEF CreateReadPending, Goto, Finish, store
<1>3. ASSUME NEW h \in Handlers, CreateInsert(h)
       PROVE  ChecksHold'
  BY <1>3 DEF CreateInsert, Goto, WriteStatus, InvestorCancellable, Statuses
<1>4. ASSUME NEW h \in Handlers, NEW r \in Requests, CancelRead(h, r)
       PROVE  ChecksHold'
  <2>1. LedgerOf' = LedgerOf /\ PendingOf' = PendingOf
    BY <1>4, LedgerSame, PendingSame DEF CancelRead, Goto, store
  <2> QED
    BY <1>4, <2>1 DEF CancelRead, Goto, store
<1>5. ASSUME NEW h \in Handlers, CancelWrite(h)
       PROVE  ChecksHold'
  BY <1>5 DEF CancelWrite, Goto, WriteStatus, InvestorCancellable, Statuses
<1>6. ASSUME NEW h \in Handlers, NEW r \in Requests, NEW s \in Statuses, AdminRead(h, r, s)
       PROVE  ChecksHold'
  <2>1. LedgerOf' = LedgerOf /\ PendingOf' = PendingOf
    BY <1>6, LedgerSame, PendingSame DEF AdminRead, Goto, store
  <2> QED
    BY <1>6, <2>1 DEF AdminRead, Goto, store
<1>7. ASSUME NEW h \in Handlers, AdminDebit(h)
       PROVE  ChecksHold'
  BY <1>7 DEF AdminDebit, Goto, InvestorCancellable, Statuses
<1>8. ASSUME NEW h \in Handlers, AdminLink(h)
       PROVE  ChecksHold'
  <2>1. LedgerOf' = LedgerOf /\ PendingOf' = PendingOf
    BY <1>8, LedgerSame, PendingSame DEF AdminLink, Goto
  <2> QED
    BY <1>8, <2>1 DEF AdminLink, Goto
<1>9. ASSUME NEW h \in Handlers, AdminWrite(h)
       PROVE  ChecksHold'
  BY <1>9 DEF AdminWrite, Goto, WriteStatus
<1>10. ASSUME NEW h \in Handlers, NEW i \in Investors, GetWallet(h, i)
       PROVE  ChecksHold'
  <2>1. LedgerOf' = LedgerOf /\ PendingOf' = PendingOf
    BY <1>10, LedgerSame, PendingSame DEF GetWallet, Goto, store
  <2> QED
    BY <1>10, <2>1 DEF GetWallet, Goto, store
<1>11. ASSUME NEW h \in Handlers, RecomputeReadLedger(h)
       PROVE  ChecksHold'
  <2>1. LedgerOf' = LedgerOf /\ PendingOf' = PendingOf
    BY <1>11, LedgerSame, PendingSame DEF RecomputeReadLedger, Goto, store
  <2> QED
    BY <1>11, <2>1 DEF RecomputeReadLedger, Goto, store
<1>12. ASSUME NEW h \in Handlers, RecomputeReadPending(h)
       PROVE  ChecksHold'
  <2>1. LedgerOf' = LedgerOf /\ PendingOf' = PendingOf
    BY <1>12, LedgerSame, PendingSame DEF RecomputeReadPending, Goto, store
  <2> QED
    BY <1>12, <2>1 DEF RecomputeReadPending, Goto, store
<1>13. ASSUME NEW h \in Handlers, RecomputeWrite(h)
       PROVE  ChecksHold'
  <2>1. LedgerOf' = LedgerOf /\ PendingOf' = PendingOf
    BY <1>13, LedgerSame, PendingSame DEF RecomputeWrite, Finish
  <2> QED
    BY <1>13, <2>1 DEF RecomputeWrite, Finish
<1>14. ASSUME NEW h \in Handlers, NEW i \in Investors, NEW amount \in Credits, CreditPayout(h, i, amount)
       PROVE  ChecksHold'
  BY <1>14 DEF CreditPayout, Goto, InvestorCancellable, Statuses
<1>15. ASSUME NEW h \in Handlers, NEW i \in Investors, PurchaseRead(h, i)
       PROVE  ChecksHold'
  <2>1. LedgerOf' = LedgerOf /\ PendingOf' = PendingOf
    BY <1>15, LedgerSame, PendingSame DEF PurchaseRead, Goto, store
  <2> QED
    BY <1>15, <2>1 DEF PurchaseRead, Goto, store
<1>16. ASSUME NEW h \in Handlers, NEW price \in Prices, PurchaseDebit(h, price)
       PROVE  ChecksHold'
  BY <1>16 DEF PurchaseDebit, Goto, InvestorCancellable, Statuses
<1>17. ASSUME NEW h \in Handlers, NEW price \in Prices, PurchaseRefused(h, price)
       PROVE  ChecksHold'
  <2>1. LedgerOf' = LedgerOf /\ PendingOf' = PendingOf
    BY <1>17, LedgerSame, PendingSame DEF PurchaseRefused, Finish, store
  <2> QED
    BY <1>17, <2>1 DEF PurchaseRefused, Finish, store
<1>18. CASE UNCHANGED vars
  <2>1. LedgerOf' = LedgerOf /\ PendingOf' = PendingOf
    BY <1>18, LedgerSame, PendingSame DEF vars, store, local
  <2> QED
    BY <1>18, <2>1 DEF vars, store, local
<1> HIDE DEF SerialInv, Shapes, ChecksHold, IInv, TypeOK, HandlersOK, Steps,
    OneHandler
<1> QED
  BY <1>0, <1>1, <1>2, <1>3, <1>4, <1>5, <1>6, <1>7, <1>8, <1>9, <1>10,
     <1>11, <1>12, <1>13, <1>14, <1>15, <1>16, <1>17, <1>18
  DEF Arrive, Serve

(* Every step keeps the whole invariant.                                   *)
LEMMA StepSerialInv ==
  ASSUME OneHandler, SerialInv, [Next]_vars
  PROVE  SerialInv'
<1>1. IInv'
  BY StepTypeOK, StepHandlersOK, StepApprovalKnown, StepDebitKnown,
     StepDebitWasApproved DEF SerialInv, IInv
<1> QED
  BY <1>1, StepShapes, StepDebitsFit, StepChecksHold DEF SerialInv

(* The invariant of every serial behaviour.                                *)
THEOREM SerialInvariant ==
  ASSUME OneHandler
  PROVE  Spec => []SerialInv
<1>1. SerialInv /\ [Next]_vars => SerialInv'
  BY StepSerialInv
<1> QED
  BY InitSerialInv, <1>1, PTL DEF Spec

(* Nobody holds a debit at rest.                                           *)
LEMMA AtRestDebitsFit == SerialInv => OneDebitPerPayment
BY DEF SerialInv, DebitsFit, HasDebited, OneDebitPerPayment, Idle

(* The ledger holds one debit for each paid request and none for the       *)
(* others, when admin_set_status is never overlapped and never cut short.  *)
THEOREM OneDebitPerPaymentAlways ==
  ASSUME OneHandler
  PROVE  Spec => []OneDebitPerPayment
BY SerialInvariant, AtRestDebitsFit, PTL
---------------------------------------------------------------------------
(* The balances.  A request takes its amount out of what its investor may  *)
(* ask for as long as it is reserved or paid, whether the reserve or the   *)
(* ledger holds the amount; so the debit of a payment and the status that  *)
(* releases its reserve need not be one step.                              *)

Holds == {"paid"} \cup Reserved

Committed ==
  [r \in Requests |-> IF status[r] \in Holds THEN AmountOf[r] ELSE 0]

CommittedOf ==
  [i \in Investors |-> SumFunctionOnSet(Committed, RequestsOf(i))]

(* A handler has moved the balances of investor i, or is reading them, and *)
(* has not written the wallet.                                             *)
Recomputing(i) ==
  \E h \in Handlers :
    /\ who[h] = i
    /\ pc[h] \in {"admin_link", "admin_write", "rc_ledger", "rc_pending", "rc_write"}

WalletFits ==
  /\ DOMAIN wallet = Investors
  /\ \A i \in Investors :
       \/ wallet[i] = [settled |-> LedgerOf[i], pending |-> PendingOf[i]]
       \/ Recomputing(i)
  /\ \A h \in Handlers :
       /\ pc[h] \in {"purchase_debit", "rc_pending", "rc_write"}
            => seen[h].settled = LedgerOf[who[h]]
       /\ pc[h] = "rc_write" => seen[h].pending = PendingOf[who[h]]

BalanceInv == SerialInv /\ WalletFits

(* The requests of an investor are finitely many, their amounts natural.   *)
LEMMA FewRequests ==
  \A i : RequestsOf(i) \subseteq Requests /\ IsFiniteSet(RequestsOf(i))
BY FS_Subset DEF RequestsOf

(* A request whose debit is written but not its status is still reserved.  *)
LEMMA DebitedIsReserved ==
  ASSUME SerialInv, NEW r \in Requests, HasDebited(r)
  PROVE  status[r] \in Reserved
BY DEF HasDebited, SerialInv, ChecksHold, AdminTransitions, Statuses,
   Terminal, Reserved

(* Whatever the handler at work has written, what an investor has free is  *)
(* its credits less its purchases and what its requests have committed.    *)
FreeFits ==
  \A i \in Investors : Free(i) = (income[i] - spent[i]) - CommittedOf[i]

LEMMA FreeIsUncommitted == SerialInv => FreeFits
<1> SUFFICES ASSUME SerialInv, NEW i \in Investors
             PROVE  Free(i) = (income[i] - spent[i]) - CommittedOf[i]
  BY DEF FreeFits
<1> DEFINE R == RequestsOf(i)
           D == [r \in Requests |-> debits[r] * AmountOf[r]]
           P == [r \in Requests |-> [x \in Requests |-> 1][r] * AmountOf[r]]
           G == [r \in Requests |->
                  IF status[r] \in Reserved /\ debits[r] = 0 THEN AmountOf[r] ELSE 0]
           T == {r \in R : status[r] \in Reserved /\ debits[r] = 0}
<1>1. IsFiniteSet(R) /\ R \subseteq Requests
  BY FewRequests
<1>2. \A r \in Requests : AmountOf[r] \in Nat /\ P[r] = AmountOf[r]
  OBVIOUS
<1>3. ASSUME NEW r \in Requests
      PROVE  /\ D[r] \in Int /\ G[r] \in Int
             /\ Committed[r] = D[r] + G[r]
  <2>1. debits[r] = IF status[r] = "paid" \/ HasDebited(r) THEN 1 ELSE 0
    BY DEF SerialInv, DebitsFit
  <2>2. HasDebited(r) => status[r] \in Reserved
    BY DebitedIsReserved
  <2>3. D[r] = IF debits[r] = 1 THEN AmountOf[r] ELSE 0
    BY <1>2, <2>1
  <2>4. status[r] = "paid" => status[r] \notin Reserved
    BY DEF Reserved
  <2> QED
    BY <1>2, <2>1, <2>2, <2>3, <2>4 DEF Committed, Holds
<1>5. SumFunctionOnSet(Committed, R) = SumFunctionOnSet(D, R) + SumFunctionOnSet(G, R)
  <2> HIDE DEF R, D, G
  <2> QED
    BY <1>1, <1>3, SumPlus
<1>6. SumFunctionOnSet(P, T) = SumFunctionOnSet(G, R)
  <2>1. /\ T \in SUBSET R
        /\ \A r \in T : P[r] \in Int /\ G[r] = P[r]
        /\ \A r \in R \ T : G[r] = 0
    BY <1>1, <1>2
  <2> HIDE DEF R, P, G, T
  <2> QED
    BY <1>1, <2>1, SumPadded
<1>7. LedgerSettled(i) = (income[i] - spent[i]) - SumFunctionOnSet(D, R)
  BY DEF LedgerSettled, Total
<1>8. Free(i) = LedgerSettled(i) - SumFunctionOnSet(P, T)
  BY DEF Free, Total
<1>9. CommittedOf[i] = SumFunctionOnSet(Committed, R)
  BY DEF CommittedOf
<1>10. /\ SumFunctionOnSet(D, R) \in Int
       /\ SumFunctionOnSet(G, R) \in Int
       /\ income[i] \in Int /\ spent[i] \in Int
  BY <1>1, <1>3, SumInt DEF SerialInv, IInv, TypeOK
<1> HIDE DEF R, D, P, G, T
<1> QED
  BY <1>5, <1>6, <1>7, <1>8, <1>9, <1>10

(* While no debit is in hand, what create_withdrawal calls available is    *)
(* what the investor has free.                                             *)
LEMMA AvailableIsFree ==
  ASSUME SerialInv, \A r \in Requests : ~HasDebited(r), NEW i \in Investors
  PROVE  LedgerOf[i] - PendingOf[i] = Free(i)
<1>1. {r \in RequestsOf(i) : status[r] \in Reserved}
        = {r \in RequestsOf(i) : status[r] \in Reserved /\ debits[r] = 0}
  <2>1. \A r \in Requests : status[r] \in Reserved => debits[r] = 0
    BY DEF SerialInv, DebitsFit, Reserved
  <2> QED
    BY <2>1, FewRequests
<1> QED
  BY <1>1 DEF LedgerOf, PendingOf, Pending, Free

(* What is committed is a number.                                          *)
LEMMA CommittedType ==
  /\ \A r \in Requests : Committed[r] \in Nat
  /\ \A i \in Investors : CommittedOf[i] \in Nat
<1>1. \A r \in Requests : Committed[r] \in Nat
  BY DEF Committed
<1>2. ASSUME NEW i \in Investors PROVE CommittedOf[i] \in Nat
  BY <1>1, FewRequests, SumNat DEF CommittedOf
<1> QED
  BY <1>1, <1>2

(* Releasing requests commits no investor to more.                         *)
LEMMA CommittedShrinks ==
  ASSUME \A r \in Requests : status'[r] \in Holds => status[r] \in Holds
  PROVE  \A i \in Investors : CommittedOf'[i] \in Nat /\ CommittedOf'[i] <= CommittedOf[i]
<1>1. \A r \in Requests : /\ Committed[r] \in Nat /\ Committed'[r] \in Nat
                          /\ Committed'[r] <= Committed[r]
  BY DEF Committed
<1>2. ASSUME NEW i \in Investors
      PROVE  CommittedOf'[i] \in Nat /\ CommittedOf'[i] <= CommittedOf[i]
  <2>1. IsFiniteSet(RequestsOf(i)) /\ RequestsOf(i) \subseteq Requests
    BY FewRequests
  <2>2. /\ SumFunctionOnSet(Committed', RequestsOf(i))
             <= SumFunctionOnSet(Committed, RequestsOf(i))
        /\ SumFunctionOnSet(Committed', RequestsOf(i)) \in Nat
    BY <1>1, <2>1, SumMonotone, SumNat
  <2> QED
    BY <2>2 DEF CommittedOf, RequestsOf
<1> QED
  BY <1>2

(* Filing a request commits its investor to its amount, and nobody else.   *)
LEMMA CommittedGrows ==
  ASSUME TypeOK, NEW r \in Requests, status[r] = NoRequest,
         status' = [status EXCEPT ![r] = "requested"]
  PROVE  \A i \in Investors :
           CommittedOf'[i] = CommittedOf[i]
                               + IF i = OwnerOf[r] THEN AmountOf[r] ELSE 0
<1>1. \A x \in Requests : Committed[x] \in Int /\ Committed'[x] \in Int
  BY DEF Committed
<1>2. \A x \in Requests \ {r} : Committed'[x] = Committed[x]
  BY DEF Committed, TypeOK
<1>3. Committed[r] = 0 /\ Committed'[r] = AmountOf[r]
  BY DEF Committed, TypeOK, Holds, Reserved, NoRequest
<1>4. ASSUME NEW i \in Investors
      PROVE  CommittedOf'[i] = CommittedOf[i]
                                 + IF i = OwnerOf[r] THEN AmountOf[r] ELSE 0
  <2>1. IsFiniteSet(RequestsOf(i)) /\ RequestsOf(i) \subseteq Requests
    BY FewRequests
  <2>2. /\ CommittedOf[i] = SumFunctionOnSet(Committed, RequestsOf(i))
        /\ CommittedOf'[i] = SumFunctionOnSet(Committed', RequestsOf(i))
    BY DEF CommittedOf, RequestsOf
  <2>3. SumFunctionOnSet(Committed, RequestsOf(i)) \in Int
    BY <1>1, <2>1, SumInt
  <2>4. CASE i = OwnerOf[r]
    <3>1. r \in RequestsOf(i)
      BY <2>4 DEF RequestsOf
    <3>2. SumFunctionOnSet(Committed', RequestsOf(i))
            = (SumFunctionOnSet(Committed, RequestsOf(i)) - Committed[r]) + Committed'[r]
      BY <1>1, <1>2, <2>1, <3>1, SumChange
    <3> QED
      BY <1>3, <2>2, <2>3, <2>4, <3>2
  <2>5. CASE i # OwnerOf[r]
    <3>1. r \notin RequestsOf(i)
      BY <2>5 DEF RequestsOf
    <3>2. SumFunctionOnSet(Committed', RequestsOf(i))
            = SumFunctionOnSet(Committed, RequestsOf(i))
      BY <1>2, <2>1, <3>1, SumAgree
    <3> QED
      BY <2>2, <2>3, <2>5, <3>2
  <2> QED
    BY <2>4, <2>5
<1> QED
  BY <1>4

(* What the investors have free falls by a purchase, or by a request that  *)
(* fits into it.                                                           *)
LEMMA StepFree ==
  ASSUME OneHandler, SerialInv, FreeFits, FreeFits', [Next]_vars, NEW i \in Investors,
         Free(i)' < Free(i), Free(i)' < -Slack
  PROVE  spent'[i] > spent[i]
<1>0. UNCHANGED vars \/ \E h \in Handlers : Arrive(h) \/ Serve(h)
  BY SerialNext DEF SerialInv, IInv
<1>1. Free(i) = (income[i] - spent[i]) - CommittedOf[i]
  BY DEF FreeFits
<1>2. Free(i)' = (income'[i] - spent'[i]) - CommittedOf'[i]
  BY DEF FreeFits
<1>3. /\ CommittedOf[i] \in Nat /\ income[i] \in Nat /\ spent[i] \in Nat
      /\ income'[i] \in Nat /\ spent'[i] \in Nat
      /\ status \in [Requests -> Statuses \cup {NoRequest}]
      /\ income \in [Investors -> Nat] /\ spent \in [Investors -> Nat]
      /\ Slack \in Nat
  <2>1. TypeOK /\ TypeOK'
    BY StepTypeOK DEF SerialInv, IInv
  <2> QED
    BY <2>1, CommittedType DEF TypeOK
<1>4. ASSUME \A r \in Requests : status'[r] \in Holds => status[r] \in Holds,
             income'[i] >= income[i], spent' = spent
      PROVE  FALSE
  <2>1. CommittedOf'[i] \in Nat /\ CommittedOf'[i] <= CommittedOf[i]
    BY <1>4, CommittedShrinks
  <2> QED
    BY <1>1, <1>2, <1>3, <1>4, <2>1
<1>5. ASSUME NEW h \in Handlers, CreateInsert(h)
      PROVE  FALSE
  <2>1. /\ req[h] \in Requests /\ pc[h] = "create_insert"
        /\ status[req[h]] = NoRequest /\ who[h] = OwnerOf[req[h]]
        /\ AmountOf[req[h]] <= (LedgerOf[who[h]] - PendingOf[who[h]]) + Slack
    BY <1>5 DEF CreateInsert, Goto, SerialInv, IInv, HandlersOK, ChecksHold
  <2>2. \A r \in Requests : ~HasDebited(r)
    BY <2>1 DEF HasDebited, OneHandler
  <2>3. who[h] \in Investors
    BY <2>1, OwnerIsInvestor
  <2>4. AmountOf[req[h]] <= Free(who[h]) + Slack
    BY <2>1, <2>2, <2>3, AvailableIsFree
  <2>5. CommittedOf'[i] = CommittedOf[i]
             + IF i = OwnerOf[req[h]] THEN AmountOf[req[h]] ELSE 0
    BY <1>5, <2>1, CommittedGrows DEF CreateInsert, WriteStatus, SerialInv, IInv
  <2>6. income' = income /\ spent' = spent
    BY <1>5 DEF CreateInsert
  <2>7. AmountOf[req[h]] \in Nat
    BY <2>1
  <2> QED
    BY <1>1, <1>2, <1>3, <2>1, <2>4, <2>5, <2>6, <2>7
<1>6. ASSUME NEW h \in Handlers, CancelWrite(h)
      PROVE  FALSE
  <2>1. \A r \in Requests : status'[r] \in Holds => status[r] \in Holds
    BY <1>3, <1>6 DEF CancelWrite, WriteStatus, Holds, Reserved
  <2> QED
    BY <1>3, <1>4, <1>6, <2>1 DEF CancelWrite
<1>7. ASSUME NEW h \in Handlers, AdminWrite(h)
      PROVE  FALSE
  <2>1. /\ req[h] \in Requests
        /\ status[req[h]] \in Statuses
        /\ target[h] \in AdminTransitions[status[req[h]]]
    BY <1>7 DEF AdminWrite, Goto, SerialInv, IInv, HandlersOK, ChecksHold
  <2>2. status[req[h]] \in Holds
    BY <2>1 DEF AdminTransitions, Statuses, Terminal, Holds, Reserved
  <2>3. \A r \in Requests : status'[r] \in Holds => status[r] \in Holds
    BY <1>3, <1>7, <2>2 DEF AdminWrite, WriteStatus
  <2> QED
    BY <1>3, <1>4, <1>7, <2>3 DEF AdminWrite
<1>8. ASSUME NEW h \in Handlers, NEW j \in Investors, NEW amount \in Credits,
             CreditPayout(h, j, amount)
      PROVE  FALSE
  <2>1. amount \in Nat
    OBVIOUS
  <2> QED
    BY <1>3, <1>4, <1>8, <2>1 DEF CreditPayout
<1>9. ASSUME NEW h \in Handlers, NEW price \in Prices, PurchaseDebit(h, price)
      PROVE  spent'[i] > spent[i]
  <2>1. /\ status' = status /\ income' = income
        /\ spent' = [spent EXCEPT ![who[h]] = @ + price] /\ price \in Nat
    BY <1>9 DEF PurchaseDebit
  <2>2. CommittedOf'[i] \in Nat /\ CommittedOf'[i] <= CommittedOf[i]
    BY <2>1, CommittedShrinks
  <2>3. spent'[i] # spent[i]
    BY <1>1, <1>2, <1>3, <2>1, <2>2
  <2> QED
    BY <1>3, <2>1, <2>3
<1>10. ASSUME NEW h \in Handlers,
             \/ \E r \in Requests : CreateReadLedger(h, r) \/ CancelRead(h, r)
             \/ \E r \in Requests, s \in Statuses : AdminRead(h, r, s)
             \/ \E j \in Investors : GetWallet(h, j) \/ PurchaseRead(h, j)
             \/ \E price \in Prices : PurchaseRefused(h, price)
             \/ CreateReadPending(h) \/ AdminDebit(h) \/ AdminLink(h)
             \/ RecomputeReadLedger(h) \/ RecomputeReadPending(h)
             \/ RecomputeWrite(h)
      PROVE  FALSE
  <2>1. UNCHANGED <<status, income, spent>>
    BY <1>10 DEF CreateReadLedger, CancelRead, AdminRead, GetWallet,
       CreateReadPending, AdminDebit, AdminLink, RecomputeReadLedger,
       RecomputeReadPending, RecomputeWrite, PurchaseRead, PurchaseRefused,
       store
  <2> QED
    BY <1>3, <1>4, <2>1
<1>11. CASE UNCHANGED vars
  <2>1. UNCHANGED <<status, income, spent>>
    BY <1>11 DEF vars, store
  <2> QED
    BY <1>3, <1>4, <2>1
<1> QED
  BY <1>0, <1>5, <1>6, <1>7, <1>8, <1>9, <1>10, <1>11 DEF Arrive, Serve

(* create_withdrawal never promises, and admin_set_status never pays, what *)
(* is not there: only a purchase on the market takes the ledger of an      *)
(* investor below what its waiting requests need.                          *)
THEOREM OnlyPurchasesUncoverAlways ==
  ASSUME OneHandler
  PROVE  Spec => OnlyPurchasesUncover
<1>1. SerialInv /\ FreeFits /\ FreeFits' /\ [Next]_vars =>
        [\A i \in Investors :
           Free(i)' < Free(i) /\ Free(i)' < -Slack => spent'[i] > spent[i]]_vars
  BY StepFree
<1> QED
  BY SerialInvariant, FreeIsUncommitted, <1>1, PTL DEF Spec, OnlyPurchasesUncover

(* A change of one request is seen in the balances of its investor only.   *)
LEMMA OthersSame ==
  ASSUME TypeOK, NEW r \in Requests, NEW i \in Investors, i # OwnerOf[r],
         \A x \in Requests \ {r} : debits'[x] = debits[x] /\ status'[x] = status[x],
         income'[i] = income[i], spent'[i] = spent[i]
  PROVE  LedgerOf'[i] = LedgerOf[i] /\ PendingOf'[i] = PendingOf[i]
<1>1. RequestsOf(i) \subseteq Requests \ {r} /\ IsFiniteSet(RequestsOf(i))
  BY FewRequests DEF RequestsOf
<1>2. Total(RequestsOf(i), debits') = Total(RequestsOf(i), debits)
  <2> DEFINE D == [x \in Requests |-> debits[x] * AmountOf[x]]
             E == [x \in Requests |-> debits'[x] * AmountOf[x]]
  <2>1. \A x \in RequestsOf(i) : D[x] = E[x]
    BY <1>1
  <2> HIDE DEF D, E
  <2>2. SumFunctionOnSet(D, RequestsOf(i)) = SumFunctionOnSet(E, RequestsOf(i))
    BY <1>1, <2>1, SumAgree
  <2> QED
    BY <2>2 DEF Total, D, E
<1>3. LedgerOf'[i] = LedgerOf[i]
  BY <1>2 DEF LedgerOf, LedgerSettled, RequestsOf, Total
<1>4. {x \in RequestsOf(i) : status'[x] \in Reserved}
        = {x \in RequestsOf(i) : status[x] \in Reserved}
  BY <1>1
<1>5. PendingOf'[i] = PendingOf[i]
  BY <1>4 DEF PendingOf, Pending, RequestsOf, Total
<1> QED
  BY <1>3, <1>5

(* A step that moves the balances of an investor is followed by a          *)
(* recompute of its wallet, which reads both balances before it writes.    *)
LEMMA StepWalletFits ==
  ASSUME OneHandler, SerialInv, WalletFits, [Next]_vars
  PROVE  WalletFits'
<1>0. UNCHANGED vars \/ \E h \in Handlers : Arrive(h) \/ Serve(h)
  BY SerialNext DEF SerialInv, IInv
<1> USE DEF OneHandler, SerialInv, Shapes, IInv, TypeOK, HandlersOK, Steps,
    Zero, Recomputing
<1>1. ASSUME NEW h \in Handlers, NEW r \in Requests, CreateReadLedger(h, r)
      PROVE  WalletFits'
  <2>1. LedgerOf' = LedgerOf /\ PendingOf' = PendingOf
    BY <1>1, LedgerSame, PendingSame DEF CreateReadLedger, Goto, store
  <2> QED
    BY <1>1, <2>1 DEF CreateReadLedger, Goto, store, WalletFits
<1>2. ASSUME NEW h \in Handlers, CreateReadPending(h)
      PROVE  WalletFits'
  <2>1. LedgerOf' = LedgerOf /\ PendingOf' = PendingOf
    BY <1>2, LedgerSame, PendingSame DEF CreateReadPending, store
  <2> QED
    BY <1>2, <2>1 DEF CreateReadPending, Goto, Finish, store, WalletFits
<1>3. ASSUME NEW h \in Handlers, NEW r \in Requests, who[h] = OwnerOf[r],
             wallet' = wallet, who' = who,
             \A x \in Requests \ {r} : debits'[x] = debits[x] /\ status'[x] = status[x],
             income' = income, spent' = spent,
             pc' = [pc EXCEPT ![h] = "admin_link"] \/ pc' = [pc EXCEPT ![h] = "rc_ledger"]
      PROVE  WalletFits'
  <2>1. \A i \in Investors : i # who[h] =>
          LedgerOf'[i] = LedgerOf[i] /\ PendingOf'[i] = PendingOf[i]
    BY <1>3, OthersSame
  <2> QED
    BY <1>3, <2>1 DEF WalletFits
<1>4. ASSUME NEW h \in Handlers, CreateInsert(h) \/ CancelWrite(h) \/ AdminWrite(h)
      PROVE  WalletFits'
  <2>1. req[h] \in Requests /\ who[h] = OwnerOf[req[h]]
    BY <1>4 DEF CreateInsert, CancelWrite, AdminWrite, Goto, ChecksHold
  <2>2. /\ wallet' = wallet /\ who' = who /\ debits' = debits
        /\ income' = income /\ spent' = spent
        /\ pc' = [pc EXCEPT ![h] = "rc_ledger"]
        /\ \A x \in Requests \ {req[h]} : status'[x] = status[x]
    BY <1>4 DEF CreateInsert, CancelWrite, AdminWrite, Goto, WriteStatus
  <2> HIDE DEF SerialInv, Shapes, IInv, TypeOK, HandlersOK, Recomputing
  <2> QED
    BY <1>3, <2>1, <2>2
<1>5. ASSUME NEW h \in Handlers, AdminDebit(h)
      PROVE  WalletFits'
  <2>1. req[h] \in Requests /\ who[h] = OwnerOf[req[h]]
    BY <1>5 DEF AdminDebit, Goto, ChecksHold
  <2>2. /\ wallet' = wallet /\ who' = who /\ status' = status
        /\ income' = income /\ spent' = spent
        /\ pc' = [pc EXCEPT ![h] = "admin_link"]
        /\ \A x \in Requests \ {req[h]} : debits'[x] = debits[x]
    BY <1>5 DEF AdminDebit, Goto
  <2> HIDE DEF SerialInv, Shapes, IInv, TypeOK, HandlersOK, Recomputing
  <2> QED
    BY <1>3, <2>1, <2>2
<1>6. ASSUME NEW h \in Handlers, NEW r \in Requests, CancelRead(h, r)
      PROVE  WalletFits'
  <2>1. LedgerOf' = LedgerOf /\ PendingOf' = PendingOf
    BY <1>6, LedgerSame, PendingSame DEF CancelRead, store
  <2> QED
    BY <1>6, <2>1 DEF CancelRead, Goto, store, WalletFits
<1>7. ASSUME NEW h \in Handlers, NEW r \in Requests, NEW s \in Statuses, AdminRead(h, r, s)
      PROVE  WalletFits'
  <2>1. LedgerOf' = LedgerOf /\ PendingOf' = PendingOf
    BY <1>7, LedgerSame, PendingSame DEF AdminRead, store
  <2> QED
    BY <1>7, <2>1 DEF AdminRead, Goto, store, WalletFits
<1>8. ASSUME NEW h \in Handlers, AdminLink(h)
      PROVE  WalletFits'
  <2>1. LedgerOf' = LedgerOf /\ PendingOf' = PendingOf
    BY <1>8, LedgerSame, PendingSame DEF AdminLink
  <2> QED
    BY <1>8, <2>1 DEF AdminLink, Goto, WalletFits
<1>9. ASSUME NEW h \in Handlers, NEW i \in Investors, GetWallet(h, i)
      PROVE  WalletFits'
  <2>1. LedgerOf' = LedgerOf /\ PendingOf' = PendingOf
    BY <1>9, LedgerSame, PendingSame DEF GetWallet, store
  <2> QED
    BY <1>9, <2>1 DEF GetWallet, Goto, store, WalletFits
<1>10. ASSUME NEW h \in Handlers, RecomputeReadLedger(h)
       PROVE  WalletFits'
  <2>1. LedgerOf' = LedgerOf /\ PendingOf' = PendingOf
    BY <1>10, LedgerSame, PendingSame DEF RecomputeReadLedger, store
  <2>2. who[h] \in Investors /\ LedgerSettled(who[h]) = LedgerOf[who[h]]
    BY <1>10 DEF RecomputeReadLedger, Goto, LedgerOf
  <2> QED
    BY <1>10, <2>1, <2>2 DEF RecomputeReadLedger, Goto, store, WalletFits
<1>11. ASSUME NEW h \in Handlers, RecomputeReadPending(h)
       PROVE  WalletFits'
  <2>1. LedgerOf' = LedgerOf /\ PendingOf' = PendingOf
    BY <1>11, LedgerSame, PendingSame DEF RecomputeReadPending, store
  <2>2. who[h] \in Investors /\ Pending(who[h], status) = PendingOf[who[h]]
    BY <1>11 DEF RecomputeReadPending, Goto, PendingOf
  <2> QED
    BY <1>11, <2>1, <2>2 DEF RecomputeReadPending, Goto, store, WalletFits
<1>12. ASSUME NEW h \in Handlers, RecomputeWrite(h)
       PROVE  WalletFits'
  <2>1. LedgerOf' = LedgerOf /\ PendingOf' = PendingOf
    BY <1>12, LedgerSame, PendingSame DEF RecomputeWrite
  <2>2. /\ who[h] \in Investors
        /\ seen[h] = [settled |-> LedgerOf[who[h]], pending |-> PendingOf[who[h]]]
    BY <1>12 DEF RecomputeWrite, WalletFits
  <2>3. \A i \in Investors : i # who[h] => wallet'[i] = wallet[i]
    BY <1>12 DEF RecomputeWrite
  <2>4. wallet'[who[h]] = [settled |-> LedgerOf[who[h]], pending |-> PendingOf[who[h]]]
    <3>1. wallet'[who[h]] = seen[h]
      BY <1>12, <2>2 DEF RecomputeWrite, WalletFits
    <3> QED
      BY <2>2, <3>1
  <2>5. \A i \in Investors : i # who[h] => ~Recomputing(i)
    BY <1>12
  <2> QED
    BY <1>12, <2>1, <2>3, <2>4, <2>5 DEF RecomputeWrite, Finish, WalletFits
<1>13. ASSUME NEW h \in Handlers, NEW i \in Investors, NEW amount \in Credits,
              CreditPayout(h, i, amount)
       PROVE  WalletFits'
  <2>1. /\ wallet' = wallet /\ debits' = debits /\ status' = status
        /\ who' = [who EXCEPT ![h] = i] /\ pc[h] = "idle"
        /\ pc' = [pc EXCEPT ![h] = "rc_ledger"]
        /\ \A j \in Investors : j # i => income'[j] = income[j]
        /\ spent' = spent
    BY <1>13 DEF CreditPayout, Goto
  <2>2. \A j \in Investors : j # i => LedgerOf'[j] = LedgerOf[j]
    BY <2>1 DEF LedgerOf, LedgerSettled
  <2>3. PendingOf' = PendingOf
    BY <2>1, PendingSame
  <2>4. Recomputing(i)'
    BY <2>1
  <2>5. \A j \in Investors : j # i => ~Recomputing(j)
    BY <2>1
  <2>6. \A j \in Investors : j # i =>
          wallet[j] = [settled |-> LedgerOf[j], pending |-> PendingOf[j]]
    BY <2>5 DEF WalletFits
  <2>7. \A g \in Handlers : pc'[g] = "rc_ledger"
    BY <2>1
  <2> HIDE DEF OneHandler, SerialInv, Shapes, IInv, TypeOK, HandlersOK, Recomputing
  <2> QED
    BY <2>1, <2>2, <2>3, <2>4, <2>6, <2>7 DEF WalletFits
<1>14. ASSUME NEW h \in Handlers, NEW i \in Investors, PurchaseRead(h, i)
       PROVE  WalletFits'
  <2>1. LedgerOf' = LedgerOf /\ PendingOf' = PendingOf
    BY <1>14, LedgerSame, PendingSame DEF PurchaseRead, store
  <2>2. wallet[i] = [settled |-> LedgerOf[i], pending |-> PendingOf[i]]
    BY <1>14 DEF PurchaseRead, Goto, WalletFits
  <2> QED
    BY <1>14, <2>1, <2>2 DEF PurchaseRead, Goto, store, WalletFits
<1>15. ASSUME NEW h \in Handlers, NEW price \in Prices, PurchaseDebit(h, price)
       PROVE  WalletFits'
  <2>1. /\ wallet' = wallet /\ debits' = debits /\ status' = status
        /\ income' = income /\ who' = who /\ who[h] \in Investors
        /\ pc[h] = "purchase_debit" /\ pc' = [pc EXCEPT ![h] = "rc_ledger"]
        /\ \A j \in Investors : j # who[h] => spent'[j] = spent[j]
    BY <1>15 DEF PurchaseDebit, Goto
  <2>2. \A j \in Investors : j # who[h] => LedgerOf'[j] = LedgerOf[j]
    BY <2>1 DEF LedgerOf, LedgerSettled
  <2>3. PendingOf' = PendingOf
    BY <2>1, PendingSame
  <2>4. Recomputing(who[h])'
    BY <2>1
  <2>5. \A j \in Investors : ~Recomputing(j)
    BY <2>1
  <2>6. \A j \in Investors :
          wallet[j] = [settled |-> LedgerOf[j], pending |-> PendingOf[j]]
    BY <2>5 DEF WalletFits
  <2>7. \A g \in Handlers : pc'[g] = "rc_ledger"
    BY <2>1
  <2> HIDE DEF OneHandler, SerialInv, Shapes, IInv, TypeOK, HandlersOK, Recomputing
  <2> QED
    BY <2>1, <2>2, <2>3, <2>4, <2>6, <2>7 DEF WalletFits
<1>16. ASSUME NEW h \in Handlers, NEW price \in Prices, PurchaseRefused(h, price)
       PROVE  WalletFits'
  <2>1. LedgerOf' = LedgerOf /\ PendingOf' = PendingOf
    BY <1>16, LedgerSame, PendingSame DEF PurchaseRefused, store
  <2> QED
    BY <1>16, <2>1 DEF PurchaseRefused, Finish, store, WalletFits
<1>17. CASE UNCHANGED vars
  <2>1. LedgerOf' = LedgerOf /\ PendingOf' = PendingOf
    BY <1>17, LedgerSame, PendingSame DEF vars, store
  <2> QED
    BY <1>17, <2>1 DEF vars, store, local, WalletFits
<1> HIDE DEF OneHandler, SerialInv, Shapes, IInv, TypeOK, HandlersOK, Steps,
    Zero, Recomputing
<1> QED
  BY <1>0, <1>1, <1>2, <1>4, <1>5, <1>6, <1>7, <1>8, <1>9, <1>10, <1>11,
     <1>12, <1>13, <1>14, <1>15, <1>16, <1>17 DEF Arrive, Serve

(* Nothing has been credited or filed.                                     *)
LEMMA InitBalances == Init => WalletFits
<1> SUFFICES ASSUME Init PROVE WalletFits
  OBVIOUS
<1>1. ASSUME NEW i \in Investors
      PROVE  LedgerOf[i] = 0 /\ PendingOf[i] = 0
  <2> DEFINE D == [r \in Requests |-> debits[r] * AmountOf[r]]
             P == [r \in Requests |-> [x \in Requests |-> 1][r] * AmountOf[r]]
  <2>1. IsFiniteSet(RequestsOf(i)) /\ RequestsOf(i) \subseteq Requests
    BY FewRequests
  <2>2. \A r \in RequestsOf(i) : D[r] = 0
    BY <2>1 DEF Init
  <2>3. {r \in RequestsOf(i) : status[r] \in Reserved} = {}
    BY <2>1 DEF Init, Reserved, NoRequest
  <2> HIDE DEF D, P
  <2>4. SumFunctionOnSet(D, RequestsOf(i)) = 0
    BY <2>1, <2>2, SumZero
  <2>5. SumFunctionOnSet(P, {}) = 0
    BY SumEmpty
  <2>6. income[i] = 0 /\ spent[i] = 0
    BY DEF Init
  <2>7. LedgerOf[i] = (income[i] - spent[i]) - SumFunctionOnSet(D, RequestsOf(i))
    BY DEF LedgerOf, LedgerSettled, Total, D
  <2>8. PendingOf[i] = SumFunctionOnSet(P, {})
    BY <2>3 DEF PendingOf, Pending, Total, P
  <2> QED
    BY <2>4, <2>5, <2>6, <2>7, <2>8
<1> QED
  BY <1>1 DEF Init, WalletFits, Zero

(* The balances of every serial behaviour.                                 *)
THEOREM BalanceInvariant ==
  ASSUME OneHandler
  PROVE  Spec => []BalanceInv
<1>1. BalanceInv /\ [Next]_vars => BalanceInv'
  BY StepSerialInv, StepWalletFits DEF BalanceInv
<1>2. Init => BalanceInv
  BY InitSerialInv, InitBalances DEF BalanceInv
<1> QED
  BY <1>1, <1>2, PTL DEF Spec

(* At rest no wallet awaits its recompute.                                 *)
LEMMA AtRestBalances == BalanceInv => WalletIsLedger
BY DEF BalanceInv, WalletFits, Recomputing, Idle, WalletIsLedger, LedgerOf,
   PendingOf

(* At rest lumen_wallets shows what the ledger and the requests add up to. *)
THEOREM WalletIsLedgerAlways ==
  ASSUME OneHandler
  PROVE  Spec => []WalletIsLedger
BY BalanceInvariant, AtRestBalances, PTL
---------------------------------------------------------------------------
(* The refinement of WithdrawalLifecycle.                                  *)

(* Both modules add up the same way.                                       *)
LEMMA SameTotal ==
  \A S, count : Lifecycle!Total(S, count) = Total(S, count)
BY DEF Total, Lifecycle!Total, SumFunctionOnSet, Lifecycle!SumFunctionOnSet,
       FoldFunctionOnSet, Lifecycle!FoldFunctionOnSet,
       MapThenFoldSet, Lifecycle!MapThenFoldSet

(* Both modules mean the same by statuses, transitions and the reserve.    *)
LEMMA SameRules ==
  /\ Lifecycle!NoRequest = NoRequest
  /\ Lifecycle!Statuses = Statuses
  /\ Lifecycle!InvestorCancellable = InvestorCancellable
  /\ Lifecycle!AdminTransitions = AdminTransitions
  /\ \A i : Lifecycle!RequestsOf(i) = RequestsOf(i)
  /\ \A i : Lifecycle!Pending(i, status) = Pending(i, status)
<1>1. \A i : Lifecycle!Pending(i, status) = Pending(i, status)
  BY SameTotal DEF Pending, Lifecycle!Pending, RequestsOf,
     Lifecycle!RequestsOf, Reserved, Lifecycle!Reserved
<1> QED
  BY <1>1 DEF NoRequest, Lifecycle!NoRequest, Statuses, Lifecycle!Statuses,
     InvestorCancellable, Lifecycle!InvestorCancellable, AdminTransitions,
     Lifecycle!AdminTransitions, Terminal, Lifecycle!Terminal, RequestsOf,
     Lifecycle!RequestsOf

(* With no debit in hand the ledger is the settled balance of the          *)
(* lifecycle: one debit for each paid request.                             *)
LEMMA SettledIsLedger ==
  ASSUME SerialInv, \A r \in Requests : ~HasDebited(r)
  PROVE  \A i : LedgerSettled(i) = Lifecycle!Settled(i)
<1>1. debits = [r \in Requests |-> IF status[r] = "paid" THEN 1 ELSE 0]
  BY DEF SerialInv, DebitsFit, IInv, TypeOK
<1>2. ASSUME NEW i
      PROVE  Lifecycle!Settled(i) = income[i] - spent[i] - Total(RequestsOf(i),
                [r \in Requests |-> IF status[r] = "paid" THEN 1 ELSE 0])
  BY SameTotal, SameRules DEF Lifecycle!Settled, Lifecycle!Paid
<1> QED
  BY <1>1, <1>2 DEF LedgerSettled

(* Nothing has been filed.                                                 *)
LEMMA InitLifecycle == Init => Lifecycle!Init
BY SameRules DEF Init, Lifecycle!Init

(* Each step of the handler is one of the lifecycle, or none.              *)
LEMMA StepLifecycle ==
  ASSUME OneHandler, BalanceInv, [Next]_vars
  PROVE  [Lifecycle!Next]_<<status, income, spent>>
<1> SerialInv /\ WalletFits
  BY DEF BalanceInv
<1>0. UNCHANGED vars \/ \E h \in Handlers : Arrive(h) \/ Serve(h)
  BY SerialNext DEF SerialInv, IInv
<1>1. ASSUME NEW h \in Handlers, CreateInsert(h)
      PROVE  Lifecycle!Request(req[h])
  <2>1. req[h] \in Requests /\ pc[h] = "create_insert"
    BY <1>1 DEF CreateInsert, Goto, SerialInv, IInv, HandlersOK
  <2>2. \A r \in Requests : ~HasDebited(r)
    BY <2>1 DEF HasDebited, OneHandler
  <2>3. who[h] = OwnerOf[req[h]] /\ who[h] \in Investors
    BY <2>1, OwnerIsInvestor DEF SerialInv, ChecksHold
  <2>4. Lifecycle!Available(OwnerOf[req[h]])
          = LedgerOf[who[h]] - PendingOf[who[h]]
    BY <2>2, <2>3, SettledIsLedger, SameRules
       DEF Lifecycle!Available, LedgerOf, PendingOf
  <2>5. /\ status[req[h]] = NoRequest
        /\ AmountOf[req[h]] >= MinWithdrawal
        /\ AmountOf[req[h]] <= Lifecycle!Available(OwnerOf[req[h]]) + Slack
    BY <2>1, <2>4 DEF SerialInv, ChecksHold
  <2> QED
    BY <1>1, <2>5, SameRules DEF CreateInsert, WriteStatus, Lifecycle!Request
<1>2. ASSUME NEW h \in Handlers, CancelWrite(h)
      PROVE  Lifecycle!Cancel(req[h])
  BY <1>2, SameRules DEF CancelWrite, Goto, WriteStatus, Lifecycle!Cancel,
     SerialInv, ChecksHold
<1>3. ASSUME NEW h \in Handlers, AdminWrite(h)
      PROVE  Lifecycle!Decide(req[h], target[h])
  BY <1>3, SameRules DEF AdminWrite, Goto, WriteStatus, Lifecycle!Decide,
     SerialInv, ChecksHold, NoRequest, Statuses
<1>4. ASSUME NEW h \in Handlers, NEW i \in Investors, NEW amount \in Credits,
             CreditPayout(h, i, amount)
      PROVE  \/ UNCHANGED <<status, income, spent>>
             \/ amount \in 1..MaxIncome /\ Lifecycle!Credit(i, amount)
  <2>1. income[i] \in Nat /\ amount \in Nat /\ income \in [Investors -> Nat]
    BY DEF SerialInv, IInv, TypeOK
  <2>2. CASE amount = 0
    BY <1>4, <2>1, <2>2 DEF CreditPayout
  <2>3. CASE amount # 0
    BY <1>4, <2>1, <2>3 DEF CreditPayout, Lifecycle!Credit
  <2> QED
    BY <2>2, <2>3
<1>5. ASSUME NEW h \in Handlers,
             \/ \E r \in Requests : CreateReadLedger(h, r) \/ CancelRead(h, r)
             \/ \E r \in Requests, s \in Statuses : AdminRead(h, r, s)
             \/ \E i \in Investors : GetWallet(h, i) \/ PurchaseRead(h, i)
             \/ \E price \in Prices : PurchaseRefused(h, price)
             \/ CreateReadPending(h) \/ AdminDebit(h) \/ AdminLink(h)
             \/ RecomputeReadLedger(h) \/ RecomputeReadPending(h)
             \/ RecomputeWrite(h)
      PROVE  UNCHANGED <<status, income, spent>>
  BY <1>5 DEF CreateReadLedger, CancelRead, AdminRead, GetWallet,
     CreateReadPending, AdminDebit, AdminLink, RecomputeReadLedger,
     RecomputeReadPending, RecomputeWrite, PurchaseRead, PurchaseRefused,
     store
<1>6. CASE UNCHANGED vars
  BY <1>6 DEF vars, store
<1>7. ASSUME NEW h \in Handlers, CreateInsert(h) \/ CancelWrite(h)
      PROVE  Lifecycle!Next
  <2>1. req[h] \in Requests
    BY <1>7 DEF CreateInsert, CancelWrite, Goto, SerialInv, IInv, HandlersOK
  <2> QED
    BY <1>1, <1>2, <1>7, <2>1 DEF Lifecycle!Next
<1>8. ASSUME NEW h \in Handlers, AdminWrite(h)
      PROVE  Lifecycle!Next
  <2>1. req[h] \in Requests /\ target[h] \in Statuses
    BY <1>8 DEF AdminWrite, Goto, SerialInv, IInv, HandlersOK
  <2> QED
    BY <1>3, <1>8, <2>1, SameRules DEF Lifecycle!Next
<1>9. ASSUME NEW h \in Handlers, NEW i \in Investors, NEW amount \in Credits,
             CreditPayout(h, i, amount)
      PROVE  [Lifecycle!Next]_<<status, income, spent>>
  BY <1>4, <1>9 DEF Lifecycle!Next
<1>10. ASSUME NEW h \in Handlers, NEW price \in Prices, PurchaseDebit(h, price)
      PROVE  Lifecycle!Next
  <2>1. pc[h] = "purchase_debit" /\ who[h] \in Investors
    BY <1>10 DEF PurchaseDebit, Goto, SerialInv, IInv, HandlersOK, Steps
  <2>2. \A r \in Requests : ~HasDebited(r)
    BY <2>1 DEF HasDebited, OneHandler
  <2>3. seen[h].settled = Lifecycle!Settled(who[h])
    BY <2>1, <2>2, SettledIsLedger DEF WalletFits, LedgerOf
  <2>4. Lifecycle!Spend(who[h], price)
    BY <1>10, <2>3 DEF PurchaseDebit, Lifecycle!Spend
  <2> QED
    BY <2>1, <2>4 DEF Lifecycle!Next
<1> QED
  BY <1>0, <1>5, <1>6, <1>7, <1>8, <1>9, <1>10 DEF Arrive, Serve

(* Handlers that do not overlap and do not fail give each withdrawal the   *)
(* lifecycle of indivisible steps, the check of the balance included.      *)
THEOREM ImplementsLifecycleAlways ==
  ASSUME OneHandler
  PROVE  Spec => ImplementsLifecycle
<1>1. BalanceInv /\ [Next]_vars => [Lifecycle!Next]_(Lifecycle!vars)
  BY StepLifecycle DEF Lifecycle!vars
<1> QED
  BY BalanceInvariant, InitLifecycle, <1>1, PTL
     DEF Spec, ImplementsLifecycle, Lifecycle!Spec
=============================================================================
