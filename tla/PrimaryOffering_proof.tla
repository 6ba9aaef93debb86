----------------------- MODULE PrimaryOffering_proof -----------------------
(***************************************************************************)
(* No active investment without a ledger entry, no entry without a payment *)
(* its investor submitted, no payment asked before both gates were passed: *)
(* for any number of investors, intents, handlers and failures.            *)
(*                                                                         *)
(* None of the three is inductive, for handlers write what they decided    *)
(* some calls earlier.  The invariant adds what a handler knows at each    *)
(* step of the documents it works on (DealKnown, InvestorKnown,            *)
(* PaymentKnown), in terms that other handlers cannot falsify: signatures, *)
(* approvals, histories and ledger entries only grow, an investment once   *)
(* inserted keeps its intent, a request keeps its investment.              *)
(*                                                                         *)
(* Under OneHandler, at the end, are those that hold only while requests   *)
(* do not overlap and no handler is lost: an intent becomes one investment,*)
(* an investment has one ledger credit, an ownership row and the raised    *)
(* total of an asset are the sums of its active investments, and every     *)
(* step is one of OfferingGates or none.                                   *)
(***************************************************************************)
EXTENDS PrimaryOffering, FiniteSums

USE OfferingAssumption

(* Steps at which a handler has reserved an identifier for an investment,  *)
(* works on an existing investment, and works on one of its requests.      *)
Reserving == {"approve_kyc", "approve_insert"}
Paying    == {"payment_write", "confirm_credit", "confirm_activate"}
Opening   == {"open_existing", "open_insert", "open_move"}
OnDeal    == Paying \cup Opening \cup
             {"approve_contract", "approve_link", "approve_close",
              "view_write", "sign_insert", "sign_write",
              "cancel_write", "cancel_read_deal", "cancel_deal"}

(* Steps at which a handler visits what a cursor found, and steps past the *)
(* second reading of KYC.                                                  *)
Walking  == Opening \cup {"move_write", "open_contract"}
Verified == Opening \cup {"open_find", "open_contract"}

Exists(d) == d \in Deals /\ deal[d] # "absent"

(* What documents say of each other, and statuses of the past.             *)
StoreOK ==
  /\ \A d \in Deals :
       /\ deal[d] # "absent" => intentOf[d] \in Intents
       /\ contract[d] # "absent" => deal[d] # "absent"
       /\ contract[d] = "signed" => d \in signatures
  /\ \A i \in Investors : kyc[i] = "approved" => i \in approved
  /\ \A p \in Payments :
       /\ payment[p] = "absent" => paysFor[p] = None /\ credits[p] = 0
       /\ payment[p] # "absent" => Exists(paysFor[p])
       /\ payment[p] \in {"paid", "under_review"} => "paid" \in history[p]

(* What a handler knows of the investment it works on: one it reserved is  *)
(* absent and its own, any other exists.                                   *)
DealKnown ==
  \A h \in Handlers :
    /\ pc[h] \in Reserving =>
         /\ at[h] \in Deals /\ deal[at[h]] = "absent"
         /\ \A g \in Handlers : at[g] = at[h] => g = h
    /\ pc[h] \in Reserving \cup {"approve_contract", "approve_link",
                                 "approve_close", "reject_write"}
         => arg[h] \in Intents
    /\ pc[h] \in OnDeal => Exists(at[h])
    /\ pc[h] = "sign_write" => at[h] \in signatures

(* What it knows of the investor, and of the investments a cursor found.   *)
InvestorKnown ==
  \A h \in Handlers :
    /\ pc[h] \in Steps \ ({"idle", "reject_write", "view_write",
                           "cancel_write", "cancel_read_deal", "cancel_deal"})
         => who[h] \in Investors
    /\ pc[h] = "kyc_write" => arg[h] \in KycStatuses
    /\ pc[h] \in Verified => who[h] \in approved
    /\ pc[h] \in Walking =>
         \A d \in todo[h] : Exists(d) /\ InvestorOf[intentOf[d]] = who[h]
    /\ pc[h] \in Opening => at[h] \in todo[h] \cap signatures

(* What it knows of the payment request.                                   *)
PaymentKnown ==
  \A h \in Handlers :
    /\ pc[h] \in Paying => pay[h] \in Payments /\ paysFor[pay[h]] = at[h]
    /\ pc[h] = "payment_write" =>
         /\ arg[h] \in DOMAIN PaymentFrom
         /\ arg[h] # "paid" => "paid" \in history[pay[h]]
    /\ pc[h] \in {"confirm_credit", "confirm_activate"}
         => {"paid", "confirmed"} \subseteq history[pay[h]]
    /\ pc[h] = "confirm_activate" => credits[pay[h]] > 0

(* The inductive invariant.                                                *)
IInv ==
  /\ TypeOK /\ StoreOK
  /\ DealKnown /\ InvestorKnown /\ PaymentKnown
  /\ ActiveIsFunded /\ PaymentWasSubmitted /\ GatesWerePassed

(* The initial state satisfies the inductive invariant.                    *)
LEMMA InitIInv == Init => IInv
<1> SUFFICES ASSUME Init PROVE IInv
  OBVIOUS
<1> USE DEF Init
<1>1. TypeOK
  BY DEF TypeOK, DocumentTypes, HandlerTypes, KycStatuses, DealStatuses, ContractStatuses, Steps
<1>2. StoreOK
  BY DEF StoreOK, Exists
<1>3. DealKnown /\ InvestorKnown /\ PaymentKnown
  BY DEF DealKnown, InvestorKnown, PaymentKnown, Reserving, Paying, Opening,
         OnDeal, Walking, Verified
<1>4. ActiveIsFunded /\ PaymentWasSubmitted /\ GatesWerePassed
  BY DEF ActiveIsFunded, PaymentWasSubmitted, GatesWerePassed
<1>5. QED
  BY <1>1, <1>2, <1>3, <1>4 DEF IInv

(* A handler that finishes, or turns to the rest of its cursor, keeps its   *)
(* locals in their types.                                                  *)
LEMMA FinishTypes ==
  ASSUME HandlerTypes, NEW h \in Handlers, Finish(h)
  PROVE  HandlerTypes'
BY DEF HandlerTypes, Finish, Forget, Steps

LEMMA VisitTypes ==
  ASSUME HandlerTypes, NEW h \in Handlers, NEW rest \in SUBSET Deals,
         VisitOrFinish(h, rest)
  PROVE  HandlerTypes'
<1>1. CASE rest = {}
  BY <1>1, FinishTypes DEF VisitOrFinish
<1>2. CASE rest # {}
  BY <1>2 DEF VisitOrFinish, HandlerTypes, Steps
<1>3. QED
  BY <1>1, <1>2

(* A request that is submitted or decided exists.                          *)
LEMMA PaymentFromPresent ==
  \A s \in DOMAIN PaymentFrom :
    "absent" \notin PaymentFrom[s] /\ s \in PaymentStatuses
BY DEF PaymentFrom, PaymentStatuses

(* A bank match of a request is one of its confirmations.                  *)
LEMMA MatchConfirms ==
  \A h \in Handlers, p \in Payments :
    MatchRead(h, p) => \E s \in DOMAIN PaymentFrom : PaymentRead(h, p, s)
BY DEF MatchRead, PaymentFrom

(* Every step keeps the variables in their types.                          *)
LEMMA StepTypeOK ==
  TypeOK /\ StoreOK /\ DealKnown /\ InvestorKnown /\ PaymentKnown /\
     [Next]_vars
    => TypeOK'
<1> SUFFICES ASSUME TypeOK, StoreOK, DealKnown, InvestorKnown, PaymentKnown,
                    [Next]_vars
             PROVE  TypeOK'
  OBVIOUS
<1> USE DEF TypeOK, DocumentTypes, HandlerTypes
<1>1. ASSUME NEW n \in Intents,
              FileIntent(n)
       PROVE  TypeOK'
  BY <1>1 DEF FileIntent, Steps, store, people, deals, money, sums, local
<1>2. ASSUME NEW h \in Handlers, NEW n \in Intents,
              RejectRead(h, n)
       PROVE  TypeOK'
  BY <1>2 DEF RejectRead, Goto, Steps, store, people, deals, money, sums,
         local
<1>3. ASSUME NEW h \in Handlers, NEW n \in Intents, NEW d \in Deals,
              ApproveRead(h, n, d)
       PROVE  TypeOK'
  BY <1>3 DEF ApproveRead, Goto, Steps, store, people, deals, money, sums,
         local
<1>4. ASSUME NEW h \in Handlers, NEW i \in Investors,
              NEW s \in DOMAIN KycFrom,
              KycRead(h, i, s)
       PROVE  TypeOK'
  BY <1>4 DEF KycRead, Goto, KycFrom, KycStatuses, Steps, store, people,
         deals, money, sums, local
<1>5. ASSUME NEW h \in Handlers, NEW d \in Deals,
              ViewRead(h, d)
       PROVE  TypeOK'
  BY <1>5 DEF ViewRead, Goto, Steps, store, people, deals, money, sums,
         local
<1>6. ASSUME NEW h \in Handlers, NEW d \in Deals,
              SignRead(h, d)
       PROVE  TypeOK'
  BY <1>6 DEF SignRead, Goto, StoreOK, Exists, Signable, Steps, store,
         people, deals, money, sums, local
<1>7. ASSUME NEW h \in Handlers, NEW d \in Deals,
              CancelRead(h, d)
       PROVE  TypeOK'
  BY <1>7 DEF CancelRead, Goto, Steps, store, people, deals, money, sums,
         local
<1>8. ASSUME NEW h \in Handlers, NEW p \in Payments,
              NEW s \in DOMAIN PaymentFrom,
              PaymentRead(h, p, s)
       PROVE  TypeOK'
  <2>1. payment[p] # "absent"
    BY <1>8, PaymentFromPresent DEF PaymentRead
  <2>2. paysFor[p] \in Deals /\ InvestorOf[intentOf[paysFor[p]]] \in Investors
    BY <2>1 DEF StoreOK, Exists
  <2>3. s \in PaymentStatuses
    BY PaymentFromPresent
  <2>4. QED
    BY <1>8, <2>2, <2>3 DEF PaymentRead, Goto, Steps, store, people, deals,
           money, sums, local
<1>9. ASSUME NEW h \in Handlers,
              ApproveReadKyc(h)
       PROVE  TypeOK'
  BY <1>9 DEF ApproveReadKyc, Goto, Steps, store, people, deals, money,
         sums, local
<1>10. ASSUME NEW h \in Handlers,
              ApproveInsert(h)
       PROVE  TypeOK'
  BY <1>10 DEF ApproveInsert, Goto, SetDeal, DealKnown, Reserving,
         DealStatuses, Steps, store, people, deals, money, sums, local
<1>11. ASSUME NEW h \in Handlers,
              ApproveContract(h)
       PROVE  TypeOK'
  BY <1>11 DEF ApproveContract, Goto, ContractStatuses, Steps, store,
         people, deals, money, sums, local
<1>12. ASSUME NEW h \in Handlers,
              ApproveLink(h)
       PROVE  TypeOK'
  BY <1>12 DEF ApproveLink, Goto, DealKnown, OnDeal, Exists, Steps, store,
         people, deals, money, sums, local
<1>13. ASSUME NEW h \in Handlers,
              ApproveClose(h)
       PROVE  TypeOK'
  BY <1>13 DEF ApproveClose, Finish, Forget, Steps, store, people, deals,
         money, sums, local
<1>14. ASSUME NEW h \in Handlers,
              RejectWrite(h)
       PROVE  TypeOK'
  BY <1>14 DEF RejectWrite, Finish, Forget, Steps, store, people, deals,
         money, sums, local
<1>15. ASSUME NEW h \in Handlers,
              KycWrite(h)
       PROVE  TypeOK'
  <2>1. HandlerTypes'
    <3>1. CASE Finish(h)
      BY <3>1, FinishTypes
    <3>2. CASE ~(Finish(h))
      <4>1. /\ pc' = [pc EXCEPT ![h] = "move_kyc"]
            /\ arg' = [arg EXCEPT ![h] = None]
            /\ UNCHANGED <<who, at, pay, flag, todo, sum>>
        BY <1>15, <3>2 DEF KycWrite, Goto
      <4>2. QED
        BY <4>1 DEF Steps
    <3>3. QED
      BY <3>1, <3>2
  <2>2. DocumentTypes'
    BY <1>15 DEF KycWrite, store, people, deals, money, sums, local,
           InvestorKnown, Steps
  <2>3. QED
    BY <2>1, <2>2
<1>16. ASSUME NEW h \in Handlers,
              ViewWrite(h)
       PROVE  TypeOK'
  BY <1>16 DEF ViewWrite, Finish, Forget, ContractStatuses, Steps, store,
         people, deals, money, sums, local
<1>17. ASSUME NEW h \in Handlers,
              SignInsert(h)
       PROVE  TypeOK'
  BY <1>17 DEF SignInsert, Goto, DealKnown, OnDeal, Exists, Steps, store,
         people, deals, money, sums, local
<1>18. ASSUME NEW h \in Handlers,
              SignWrite(h)
       PROVE  TypeOK'
  BY <1>18 DEF SignWrite, Goto, ContractStatuses, Steps, store, people,
         deals, money, sums, local
<1>19. ASSUME NEW h \in Handlers,
              CancelWrite(h)
       PROVE  TypeOK'
  BY <1>19 DEF CancelWrite, Goto, ContractStatuses, Steps, store, people,
         deals, money, sums, local
<1>20. ASSUME NEW h \in Handlers,
              CancelReadDeal(h)
       PROVE  TypeOK'
  <2>1. HandlerTypes'
    <3>1. CASE Finish(h)
      BY <3>1, FinishTypes
    <3>2. CASE ~(Finish(h))
      BY <1>20, <3>2 DEF CancelReadDeal, Goto, Steps
    <3>3. QED
      BY <3>1, <3>2
  <2>2. DocumentTypes'
    BY <1>20 DEF CancelReadDeal, store, people, deals, money, sums, local
  <2>3. QED
    BY <2>1, <2>2
<1>21. ASSUME NEW h \in Handlers,
              CancelDeal(h)
       PROVE  TypeOK'
  BY <1>21 DEF CancelDeal, SetDeal, Finish, Forget, DealStatuses, Steps,
         store, people, deals, money, sums, local
<1>22. ASSUME NEW h \in Handlers,
              PaymentWrite(h)
       PROVE  TypeOK'
  <2>1. HandlerTypes'
    <3>1. CASE Finish(h)
      BY <3>1, FinishTypes
    <3>2. CASE ~(Finish(h))
      BY <1>22, <3>2 DEF PaymentWrite, Goto, Steps
    <3>3. QED
      BY <3>1, <3>2
  <2>2. DocumentTypes'
    BY <1>22 DEF PaymentWrite, store, people, deals, money, sums, local,
           PaymentKnown, Paying, PaymentFrom, PaymentStatuses
  <2>3. QED
    BY <2>1, <2>2
<1>23. ASSUME NEW h \in Handlers,
              MoveReadKyc(h)
       PROVE  TypeOK'
  BY <1>23 DEF MoveReadKyc, Goto, Steps, store, people, deals, money, sums,
         local
<1>24. ASSUME NEW h \in Handlers,
              MoveFind(h)
       PROVE  TypeOK'
  BY <1>24 DEF MoveFind, Visit, DealsOf, Steps, store, people, deals, money,
         sums, local
<1>25. ASSUME NEW h \in Handlers, NEW d \in Deals,
              MoveWrite(h, d)
       PROVE  TypeOK'
  BY <1>25 DEF MoveWrite, Visit, SetDeal, DealStatuses, Steps, store,
         people, deals, money, sums, local
<1>26. ASSUME NEW h \in Handlers,
              OpenReadKyc(h)
       PROVE  TypeOK'
  <2>1. HandlerTypes'
    <3>1. CASE Finish(h)
      BY <3>1, FinishTypes
    <3>2. CASE ~(Finish(h))
      BY <1>26, <3>2 DEF OpenReadKyc, Goto, Steps
    <3>3. QED
      BY <3>1, <3>2
  <2>2. DocumentTypes'
    BY <1>26 DEF OpenReadKyc, store, people, deals, money, sums, local
  <2>3. QED
    BY <2>1, <2>2
<1>27. ASSUME NEW h \in Handlers,
              OpenFind(h)
       PROVE  TypeOK'
  <2>1. HandlerTypes'
    BY <1>27, VisitTypes DEF OpenFind, DealsOf
  <2>2. DocumentTypes'
    BY <1>27 DEF OpenFind, store, people, deals, money, sums, local
  <2>3. QED
    BY <2>1, <2>2
<1>28. ASSUME NEW h \in Handlers, NEW d \in Deals,
              OpenReadContract(h, d)
       PROVE  TypeOK'
  <2>1. HandlerTypes'
    <3>1. CASE VisitOrFinish(h, todo[h] \ {d})
      BY <3>1, VisitTypes
    <3>2. CASE ~(VisitOrFinish(h, todo[h] \ {d}))
      BY <1>28, <3>2 DEF OpenReadContract, Goto, Steps
    <3>3. QED
      BY <3>1, <3>2
  <2>2. DocumentTypes'
    BY <1>28 DEF OpenReadContract, store, people, deals, money, sums, local
  <2>3. QED
    BY <2>1, <2>2
<1>29. ASSUME NEW h \in Handlers,
              OpenReadExisting(h)
       PROVE  TypeOK'
  <2>1. HandlerTypes'
    <3>1. CASE VisitOrFinish(h, todo[h] \ {at[h]})
      BY <3>1, VisitTypes
    <3>2. CASE ~(VisitOrFinish(h, todo[h] \ {at[h]}))
      BY <1>29, <3>2 DEF OpenReadExisting, Goto, Steps
    <3>3. QED
      BY <3>1, <3>2
  <2>2. DocumentTypes'
    BY <1>29 DEF OpenReadExisting, store, people, deals, money, sums, local
  <2>3. QED
    BY <2>1, <2>2
<1>30. ASSUME NEW h \in Handlers, NEW p \in Payments,
              OpenInsert(h, p)
       PROVE  TypeOK'
  BY <1>30 DEF OpenInsert, Goto, DealKnown, OnDeal, Opening, Exists,
         PaymentStatuses, Steps, store, people, deals, money, sums, local
<1>31. ASSUME NEW h \in Handlers,
              OpenMove(h)
       PROVE  TypeOK'
  <2>1. HandlerTypes'
    BY <1>31, VisitTypes DEF OpenMove, DealsOf
  <2>2. DocumentTypes'
    BY <1>31 DEF OpenMove, SetDeal, DealStatuses, store, people, deals, money,
           sums, local
  <2>3. QED
    BY <2>1, <2>2
<1>32. ASSUME NEW h \in Handlers,
              ConfirmCredit(h)
       PROVE  TypeOK'
  BY <1>32 DEF ConfirmCredit, Goto, PaymentKnown, Paying, Steps, store,
         people, deals, money, sums, local
<1>33. ASSUME NEW h \in Handlers,
              ConfirmActivate(h)
       PROVE  TypeOK'
  BY <1>33 DEF ConfirmActivate, Goto, SetDeal, DealStatuses, Steps, store,
         people, deals, money, sums, local
<1>34. ASSUME NEW h \in Handlers,
              OwnerSum(h)
       PROVE  TypeOK'
  BY <1>34 DEF OwnerSum, Goto, Steps, store, people, deals, money, sums,
         local
<1>35. ASSUME NEW h \in Handlers,
              OwnerFind(h)
       PROVE  TypeOK'
  BY <1>35 DEF OwnerFind, Goto, Steps, store, people, deals, money, sums,
         local
<1>36. ASSUME NEW h \in Handlers,
              OwnerWrite(h)
       PROVE  TypeOK'
  BY <1>36 DEF OwnerWrite, Goto, Steps, store, people, deals, money, sums,
         local
<1>37. ASSUME NEW h \in Handlers,
              AssetSum(h)
       PROVE  TypeOK'
  BY <1>37 DEF AssetSum, Goto, Steps, store, people, deals, money, sums,
         local
<1>38. ASSUME NEW h \in Handlers,
              AssetWrite(h)
       PROVE  TypeOK'
  BY <1>38 DEF AssetWrite, Goto, Steps, store, people, deals, money, sums,
         local
<1>39. ASSUME NEW h \in Handlers,
              RoundSum(h)
       PROVE  TypeOK'
  BY <1>39 DEF RoundSum, Goto, Steps, store, people, deals, money, sums,
         local
<1>40. ASSUME NEW h \in Handlers,
              RoundWrite(h)
       PROVE  TypeOK'
  BY <1>40 DEF RoundWrite, Finish, Forget, Steps, store, people, deals,
         money, sums, local
<1>41. ASSUME NEW h \in Handlers,
              Abort(h)
       PROVE  TypeOK'
  BY <1>41 DEF Abort, Finish, Forget, Steps, store, people, deals, money,
         sums, local
<1>42. CASE Restart
  <2>1. DocumentTypes'
    BY <1>42 DEF Restart, ContractStatuses, people, money
  <2>2. HandlerTypes'
    BY <1>42 DEF Restart, Steps
  <2>3. QED
    BY <2>1, <2>2
<1>43. CASE UNCHANGED vars
  BY <1>43 DEF vars, store, people, deals, money, sums, local
<1>44. QED
  BY <1>1, <1>2, <1>3, <1>4, <1>5, <1>6, <1>7, <1>8, <1>9, <1>10, <1>11,
     <1>12, <1>13, <1>14, <1>15, <1>16, <1>17, <1>18, <1>19, <1>20, <1>21,
     <1>22, <1>23, <1>24, <1>25, <1>26, <1>27, <1>28, <1>29, <1>30, <1>31,
     <1>32, <1>33, <1>34, <1>35, <1>36, <1>37, <1>38, <1>39, <1>40, <1>41,
     <1>42, <1>43, MatchConfirms
     DEF Next, Arrive, Serve, Gates, Confirm

(* Every step keeps what documents say of each other.                      *)
LEMMA StepStoreOK ==
  TypeOK /\ StoreOK /\ DealKnown /\ InvestorKnown /\ PaymentKnown /\
     [Next]_vars
    => StoreOK'
<1> SUFFICES ASSUME TypeOK, StoreOK, DealKnown, InvestorKnown, PaymentKnown,
                    [Next]_vars
             PROVE  StoreOK'
  OBVIOUS
<1> USE DEF TypeOK, DocumentTypes, HandlerTypes, StoreOK, DealKnown,
            InvestorKnown, PaymentKnown, Reserving, Paying, Opening, OnDeal,
            Walking, Verified, Exists, PaymentFrom, KycStatuses
<1>1. ASSUME NEW n \in Intents,
              FileIntent(n)
       PROVE  StoreOK'
  BY <1>1 DEF FileIntent, store, people, deals, money, sums, local
<1>2. ASSUME NEW h \in Handlers, NEW n \in Intents,
              RejectRead(h, n)
       PROVE  StoreOK'
  BY <1>2 DEF RejectRead, Goto, store, people, deals, money, sums, local
<1>3. ASSUME NEW h \in Handlers, NEW n \in Intents, NEW d \in Deals,
              ApproveRead(h, n, d)
       PROVE  StoreOK'
  BY <1>3 DEF ApproveRead, Goto, store, people, deals, money, sums, local
<1>4. ASSUME NEW h \in Handlers, NEW i \in Investors,
              NEW s \in DOMAIN KycFrom,
              KycRead(h, i, s)
       PROVE  StoreOK'
  BY <1>4 DEF KycRead, Goto, KycFrom, store, people, deals, money, sums,
         local
<1>5. ASSUME NEW h \in Handlers, NEW d \in Deals,
              ViewRead(h, d)
       PROVE  StoreOK'
  BY <1>5 DEF ViewRead, Goto, Signable, store, people, deals, money, sums,
         local
<1>6. ASSUME NEW h \in Handlers, NEW d \in Deals,
              SignRead(h, d)
       PROVE  StoreOK'
  BY <1>6 DEF SignRead, Goto, Signable, store, people, deals, money, sums,
         local
<1>7. ASSUME NEW h \in Handlers, NEW d \in Deals,
              CancelRead(h, d)
       PROVE  StoreOK'
  BY <1>7 DEF CancelRead, Goto, Signable, store, people, deals, money, sums,
         local
<1>8. ASSUME NEW h \in Handlers, NEW p \in Payments,
              NEW s \in DOMAIN PaymentFrom,
              PaymentRead(h, p, s)
       PROVE  StoreOK'
  BY <1>8 DEF PaymentRead, Goto, PaymentFrom, store, people, deals, money,
         sums, local
<1>9. ASSUME NEW h \in Handlers,
              ApproveReadKyc(h)
       PROVE  StoreOK'
  BY <1>9 DEF ApproveReadKyc, Goto, store, people, deals, money, sums, local
<1>10. ASSUME NEW h \in Handlers,
              ApproveInsert(h)
       PROVE  StoreOK'
  BY <1>10 DEF ApproveInsert, Goto, SetDeal, store, people, deals, money,
         sums, local
<1>11. ASSUME NEW h \in Handlers,
              ApproveContract(h)
       PROVE  StoreOK'
  BY <1>11 DEF ApproveContract, Goto, store, people, deals, money, sums,
         local
<1>12. ASSUME NEW h \in Handlers,
              ApproveLink(h)
       PROVE  StoreOK'
  BY <1>12 DEF ApproveLink, Goto, store, people, deals, money, sums, local
<1>13. ASSUME NEW h \in Handlers,
              ApproveClose(h)
       PROVE  StoreOK'
  BY <1>13 DEF ApproveClose, Finish, Forget, store, people, deals, money,
         sums, local
<1>14. ASSUME NEW h \in Handlers,
              RejectWrite(h)
       PROVE  StoreOK'
  BY <1>14 DEF RejectWrite, Finish, Forget, store, people, deals, money,
         sums, local
<1>15. ASSUME NEW h \in Handlers,
              KycWrite(h)
       PROVE  StoreOK'
  BY <1>15 DEF KycWrite, Goto, Finish, Forget, store, people, deals, money,
         sums, local
<1>16. ASSUME NEW h \in Handlers,
              ViewWrite(h)
       PROVE  StoreOK'
  BY <1>16 DEF ViewWrite, Finish, Forget, store, people, deals, money, sums,
         local
<1>17. ASSUME NEW h \in Handlers,
              SignInsert(h)
       PROVE  StoreOK'
  BY <1>17 DEF SignInsert, Goto, store, people, deals, money, sums, local
<1>18. ASSUME NEW h \in Handlers,
              SignWrite(h)
       PROVE  StoreOK'
  BY <1>18 DEF SignWrite, Goto, store, people, deals, money, sums, local
<1>19. ASSUME NEW h \in Handlers,
              CancelWrite(h)
       PROVE  StoreOK'
  BY <1>19 DEF CancelWrite, Goto, store, people, deals, money, sums, local
<1>20. ASSUME NEW h \in Handlers,
              CancelReadDeal(h)
       PROVE  StoreOK'
  BY <1>20 DEF CancelReadDeal, Goto, Finish, Forget, Pending, store, people,
         deals, money, sums, local
<1>21. ASSUME NEW h \in Handlers,
              CancelDeal(h)
       PROVE  StoreOK'
  BY <1>21 DEF CancelDeal, SetDeal, Finish, Forget, store, people, deals,
         money, sums, local
<1>22. ASSUME NEW h \in Handlers,
              PaymentWrite(h)
       PROVE  StoreOK'
  BY <1>22 DEF PaymentWrite, Goto, Finish, Forget, store, people, deals,
         money, sums, local
<1>23. ASSUME NEW h \in Handlers,
              MoveReadKyc(h)
       PROVE  StoreOK'
  BY <1>23 DEF MoveReadKyc, Goto, store, people, deals, money, sums, local
<1>24. ASSUME NEW h \in Handlers,
              MoveFind(h)
       PROVE  StoreOK'
  BY <1>24 DEF MoveFind, Visit, DealsOf, store, people, deals, money, sums,
         local
<1>25. ASSUME NEW h \in Handlers, NEW d \in Deals,
              MoveWrite(h, d)
       PROVE  StoreOK'
  BY <1>25 DEF MoveWrite, Visit, SetDeal, store, people, deals, money, sums,
         local
<1>26. ASSUME NEW h \in Handlers,
              OpenReadKyc(h)
       PROVE  StoreOK'
  BY <1>26 DEF OpenReadKyc, Goto, Finish, Forget, store, people, deals,
         money, sums, local
<1>27. ASSUME NEW h \in Handlers,
              OpenFind(h)
       PROVE  StoreOK'
  BY <1>27 DEF OpenFind, VisitOrFinish, Finish, Forget, DealsOf, store,
         people, deals, money, sums, local
<1>28. ASSUME NEW h \in Handlers, NEW d \in Deals,
              OpenReadContract(h, d)
       PROVE  StoreOK'
  BY <1>28 DEF OpenReadContract, Goto, VisitOrFinish, Finish, Forget, store,
         people, deals, money, sums, local
<1>29. ASSUME NEW h \in Handlers,
              OpenReadExisting(h)
       PROVE  StoreOK'
  BY <1>29 DEF OpenReadExisting, Goto, VisitOrFinish, Finish, Forget, store,
         people, deals, money, sums, local
<1>30. ASSUME NEW h \in Handlers, NEW p \in Payments,
              OpenInsert(h, p)
       PROVE  StoreOK'
  BY <1>30 DEF OpenInsert, Goto, store, people, deals, money, sums, local
<1>31. ASSUME NEW h \in Handlers,
              OpenMove(h)
       PROVE  StoreOK'
  BY <1>31 DEF OpenMove, SetDeal, VisitOrFinish, Finish, Forget, store,
         people, deals, money, sums, local
<1>32. ASSUME NEW h \in Handlers,
              ConfirmCredit(h)
       PROVE  StoreOK'
  BY <1>32 DEF ConfirmCredit, Goto, store, people, deals, money, sums, local
<1>33. ASSUME NEW h \in Handlers,
              ConfirmActivate(h)
       PROVE  StoreOK'
  BY <1>33 DEF ConfirmActivate, Goto, SetDeal, store, people, deals, money,
         sums, local
<1>34. ASSUME NEW h \in Handlers,
              OwnerSum(h)
       PROVE  StoreOK'
  BY <1>34 DEF OwnerSum, Goto, store, people, deals, money, sums, local
<1>35. ASSUME NEW h \in Handlers,
              OwnerFind(h)
       PROVE  StoreOK'
  BY <1>35 DEF OwnerFind, Goto, store, people, deals, money, sums, local
<1>36. ASSUME NEW h \in Handlers,
              OwnerWrite(h)
       PROVE  StoreOK'
  BY <1>36 DEF OwnerWrite, Goto, store, people, deals, money, sums, local
<1>37. ASSUME NEW h \in Handlers,
              AssetSum(h)
       PROVE  StoreOK'
  BY <1>37 DEF AssetSum, Goto, store, people, deals, money, sums, local
<1>38. ASSUME NEW h \in Handlers,
              AssetWrite(h)
       PROVE  StoreOK'
  BY <1>38 DEF AssetWrite, Goto, store, people, deals, money, sums, local
<1>39. ASSUME NEW h \in Handlers,
              RoundSum(h)
       PROVE  StoreOK'
  BY <1>39 DEF RoundSum, Goto, store, people, deals, money, sums, local
<1>40. ASSUME NEW h \in Handlers,
              RoundWrite(h)
       PROVE  StoreOK'
  BY <1>40 DEF RoundWrite, Finish, Forget, store, people, deals, money,
         sums, local
<1>41. ASSUME NEW h \in Handlers,
              Abort(h)
       PROVE  StoreOK'
  BY <1>41 DEF Abort, Finish, Forget, store, people, deals, money, sums,
         local
<1>42. CASE Restart
  BY <1>42 DEF Restart, store, people, deals, money, sums, local
<1>43. CASE UNCHANGED vars
  BY <1>43 DEF vars, store, people, deals, money, sums, local
<1>44. QED
  BY <1>1, <1>2, <1>3, <1>4, <1>5, <1>6, <1>7, <1>8, <1>9, <1>10, <1>11,
     <1>12, <1>13, <1>14, <1>15, <1>16, <1>17, <1>18, <1>19, <1>20, <1>21,
     <1>22, <1>23, <1>24, <1>25, <1>26, <1>27, <1>28, <1>29, <1>30, <1>31,
     <1>32, <1>33, <1>34, <1>35, <1>36, <1>37, <1>38, <1>39, <1>40, <1>41,
     <1>42, <1>43, MatchConfirms
     DEF Next, Arrive, Serve, Gates, Confirm

(* A handler that finishes, or turns to the rest of its cursor, leaves the *)
(* others what they know, provided the step reserves nothing for them.     *)
LEMMA FinishDealKnown ==
  ASSUME HandlerTypes, DealKnown, NEW h \in Handlers, Finish(h),
         UNCHANGED signatures,
         \A g \in Handlers \ {h} : pc[g] \in Reserving =>
                                     deal'[at[g]] = deal[at[g]],
         \A d \in Deals : deal[d] # "absent" => deal'[d] # "absent"
  PROVE  DealKnown'
<1>1. /\ pc'[h] = "idle" /\ at'[h] = None
      /\ \A g \in Handlers \ {h} :
           pc'[g] = pc[g] /\ at'[g] = at[g] /\ arg'[g] = arg[g]
  BY DEF Finish, Forget, HandlerTypes
<1>2. QED
  BY <1>1, OfferingAssumption
     DEF DealKnown, Reserving, OnDeal, Paying, Opening, Exists

LEMMA VisitDealKnown ==
  ASSUME HandlerTypes, DealKnown, NEW h \in Handlers,
         NEW rest \in SUBSET Deals, VisitOrFinish(h, rest),
         UNCHANGED signatures,
         \A g \in Handlers \ {h} : pc[g] \in Reserving =>
                                     deal'[at[g]] = deal[at[g]],
         \A d \in Deals : deal[d] # "absent" => deal'[d] # "absent"
  PROVE  DealKnown'
<1>1. CASE rest = {}
  BY <1>1, FinishDealKnown DEF VisitOrFinish
<1>2. CASE rest # {}
  <2>1. /\ pc'[h] = "open_contract" /\ at'[h] = None
        /\ \A g \in Handlers \ {h} :
             pc'[g] = pc[g] /\ at'[g] = at[g] /\ arg'[g] = arg[g]
    BY <1>2 DEF VisitOrFinish, HandlerTypes
  <2>2. QED
    BY <2>1, OfferingAssumption
       DEF DealKnown, Reserving, OnDeal, Paying, Opening, Exists
<1>3. QED
  BY <1>1, <1>2

(* Every step keeps what handlers know of investments.                     *)
LEMMA StepDealKnown ==
  TypeOK /\ StoreOK /\ DealKnown /\ InvestorKnown /\ PaymentKnown /\
     [Next]_vars
    => DealKnown'
<1> SUFFICES ASSUME TypeOK, StoreOK, DealKnown, InvestorKnown, PaymentKnown,
                    [Next]_vars
             PROVE  DealKnown'
  OBVIOUS
<1> USE DEF TypeOK, DocumentTypes, HandlerTypes, Steps, StoreOK, DealKnown,
            InvestorKnown, PaymentKnown, Reserving, Paying, Opening, OnDeal,
            Walking, Verified, Exists
<1>1. ASSUME NEW n \in Intents,
              FileIntent(n)
       PROVE  DealKnown'
  BY <1>1 DEF FileIntent, store, people, deals, money, sums, local
<1>2. ASSUME NEW h \in Handlers, NEW n \in Intents,
              RejectRead(h, n)
       PROVE  DealKnown'
  BY <1>2 DEF RejectRead, Goto, store, people, deals, money, sums, local
<1>3. ASSUME NEW h \in Handlers, NEW n \in Intents, NEW d \in Deals,
              ApproveRead(h, n, d)
       PROVE  DealKnown'
  BY <1>3 DEF ApproveRead, Goto, store, people, deals, money, sums, local
<1>4. ASSUME NEW h \in Handlers, NEW i \in Investors,
              NEW s \in DOMAIN KycFrom,
              KycRead(h, i, s)
       PROVE  DealKnown'
  BY <1>4 DEF KycRead, Goto, KycFrom, store, people, deals, money, sums,
         local
<1>5. ASSUME NEW h \in Handlers, NEW d \in Deals,
              ViewRead(h, d)
       PROVE  DealKnown'
  BY <1>5 DEF ViewRead, Goto, Signable, store, people, deals, money, sums,
         local
<1>6. ASSUME NEW h \in Handlers, NEW d \in Deals,
              SignRead(h, d)
       PROVE  DealKnown'
  BY <1>6 DEF SignRead, Goto, Signable, store, people, deals, money, sums,
         local
<1>7. ASSUME NEW h \in Handlers, NEW d \in Deals,
              CancelRead(h, d)
       PROVE  DealKnown'
  BY <1>7 DEF CancelRead, Goto, Signable, store, people, deals, money, sums,
         local
<1>8. ASSUME NEW h \in Handlers, NEW p \in Payments,
              NEW s \in DOMAIN PaymentFrom,
              PaymentRead(h, p, s)
       PROVE  DealKnown'
  <2>1. Exists(paysFor[p])
    BY <1>8, PaymentFromPresent DEF PaymentRead
  <2>2. QED
    BY <1>8, <2>1 DEF PaymentRead, Goto, store, people, deals, money, sums,
           local
<1>9. ASSUME NEW h \in Handlers,
              ApproveReadKyc(h)
       PROVE  DealKnown'
  BY <1>9 DEF ApproveReadKyc, Goto, store, people, deals, money, sums, local
<1>10. ASSUME NEW h \in Handlers,
              ApproveInsert(h)
       PROVE  DealKnown'
  BY <1>10 DEF ApproveInsert, Goto, SetDeal, store, people, deals, money,
         sums, local
<1>11. ASSUME NEW h \in Handlers,
              ApproveContract(h)
       PROVE  DealKnown'
  BY <1>11 DEF ApproveContract, Goto, store, people, deals, money, sums,
         local
<1>12. ASSUME NEW h \in Handlers,
              ApproveLink(h)
       PROVE  DealKnown'
  BY <1>12 DEF ApproveLink, Goto, store, people, deals, money, sums, local
<1>13. ASSUME NEW h \in Handlers,
              ApproveClose(h)
       PROVE  DealKnown'
  BY <1>13 DEF ApproveClose, Finish, Forget, store, people, deals, money,
         sums, local
<1>14. ASSUME NEW h \in Handlers,
              RejectWrite(h)
       PROVE  DealKnown'
  BY <1>14 DEF RejectWrite, Finish, Forget, store, people, deals, money,
         sums, local
<1>15. ASSUME NEW h \in Handlers,
              KycWrite(h)
       PROVE  DealKnown'
  BY <1>15 DEF KycWrite, Goto, Finish, Forget, store, people, deals, money,
         sums, local
<1>16. ASSUME NEW h \in Handlers,
              ViewWrite(h)
       PROVE  DealKnown'
  BY <1>16 DEF ViewWrite, Finish, Forget, store, people, deals, money, sums,
         local
<1>17. ASSUME NEW h \in Handlers,
              SignInsert(h)
       PROVE  DealKnown'
  BY <1>17 DEF SignInsert, Goto, store, people, deals, money, sums, local
<1>18. ASSUME NEW h \in Handlers,
              SignWrite(h)
       PROVE  DealKnown'
  BY <1>18 DEF SignWrite, Goto, store, people, deals, money, sums, local
<1>19. ASSUME NEW h \in Handlers,
              CancelWrite(h)
       PROVE  DealKnown'
  BY <1>19 DEF CancelWrite, Goto, store, people, deals, money, sums, local
<1>20. ASSUME NEW h \in Handlers,
              CancelReadDeal(h)
       PROVE  DealKnown'
  BY <1>20 DEF CancelReadDeal, Goto, Finish, Forget, Pending, store, people,
         deals, money, sums, local
<1>21. ASSUME NEW h \in Handlers,
              CancelDeal(h)
       PROVE  DealKnown'
  BY <1>21 DEF CancelDeal, SetDeal, Finish, Forget, store, people, deals,
         money, sums, local
<1>22. ASSUME NEW h \in Handlers,
              PaymentWrite(h)
       PROVE  DealKnown'
  BY <1>22 DEF PaymentWrite, Goto, Finish, Forget, store, people, deals,
         money, sums, local
<1>23. ASSUME NEW h \in Handlers,
              MoveReadKyc(h)
       PROVE  DealKnown'
  BY <1>23 DEF MoveReadKyc, Goto, store, people, deals, money, sums, local
<1>24. ASSUME NEW h \in Handlers,
              MoveFind(h)
       PROVE  DealKnown'
  BY <1>24 DEF MoveFind, Visit, DealsOf, store, people, deals, money, sums,
         local
<1>25. ASSUME NEW h \in Handlers, NEW d \in Deals,
              MoveWrite(h, d)
       PROVE  DealKnown'
  BY <1>25 DEF MoveWrite, Visit, SetDeal, store, people, deals, money, sums,
         local
<1>26. ASSUME NEW h \in Handlers,
              OpenReadKyc(h)
       PROVE  DealKnown'
  BY <1>26 DEF OpenReadKyc, Goto, Finish, Forget, store, people, deals,
         money, sums, local
<1>27. ASSUME NEW h \in Handlers,
              OpenFind(h)
       PROVE  DealKnown'
  BY <1>27, VisitDealKnown
     DEF OpenFind, DealsOf, store, deals
<1>28. ASSUME NEW h \in Handlers, NEW d \in Deals,
              OpenReadContract(h, d)
       PROVE  DealKnown'
  <2>1. CASE contract[d] = "signed"
    BY <1>28, <2>1 DEF OpenReadContract, Goto, store, people, deals, money,
           sums, local
  <2>2. CASE contract[d] # "signed"
    BY <1>28, <2>2, VisitDealKnown DEF OpenReadContract, store, deals
  <2>3. QED
    BY <2>1, <2>2
<1>29. ASSUME NEW h \in Handlers,
              OpenReadExisting(h)
       PROVE  DealKnown'
  <2>1. CASE OpenRequests(at[h]) = {}
    BY <1>29, <2>1 DEF OpenReadExisting, Goto, store, people, deals, money,
           sums, local
  <2>2. CASE OpenRequests(at[h]) # {}
    BY <1>29, <2>2, VisitDealKnown DEF OpenReadExisting, store, deals
  <2>3. QED
    BY <2>1, <2>2
<1>30. ASSUME NEW h \in Handlers, NEW p \in Payments,
              OpenInsert(h, p)
       PROVE  DealKnown'
  BY <1>30 DEF OpenInsert, Goto, store, people, deals, money, sums, local
<1>31. ASSUME NEW h \in Handlers,
              OpenMove(h)
       PROVE  DealKnown'
  <2>1. Exists(at[h]) /\ deal' = [deal EXCEPT ![at[h]] = "awaiting_payment"]
    BY <1>31 DEF OpenMove, SetDeal
  <2>2. \A g \in Handlers : pc[g] \in Reserving =>
                              deal'[at[g]] = deal[at[g]]
    BY <2>1
  <2>3. QED
    BY <1>31, <2>1, <2>2, VisitDealKnown DEF OpenMove, deals
<1>32. ASSUME NEW h \in Handlers,
              ConfirmCredit(h)
       PROVE  DealKnown'
  BY <1>32 DEF ConfirmCredit, Goto, store, people, deals, money, sums, local
<1>33. ASSUME NEW h \in Handlers,
              ConfirmActivate(h)
       PROVE  DealKnown'
  BY <1>33 DEF ConfirmActivate, Goto, SetDeal, store, people, deals, money,
         sums, local
<1>34. ASSUME NEW h \in Handlers,
              OwnerSum(h)
       PROVE  DealKnown'
  BY <1>34 DEF OwnerSum, Goto, store, people, deals, money, sums, local
<1>35. ASSUME NEW h \in Handlers,
              OwnerFind(h)
       PROVE  DealKnown'
  BY <1>35 DEF OwnerFind, Goto, store, people, deals, money, sums, local
<1>36. ASSUME NEW h \in Handlers,
              OwnerWrite(h)
       PROVE  DealKnown'
  BY <1>36 DEF OwnerWrite, Goto, store, people, deals, money, sums, local
<1>37. ASSUME NEW h \in Handlers,
              AssetSum(h)
       PROVE  DealKnown'
  BY <1>37 DEF AssetSum, Goto, store, people, deals, money, sums, local
<1>38. ASSUME NEW h \in Handlers,
              AssetWrite(h)
       PROVE  DealKnown'
  BY <1>38 DEF AssetWrite, Goto, store, people, deals, money, sums, local
<1>39. ASSUME NEW h \in Handlers,
              RoundSum(h)
       PROVE  DealKnown'
  BY <1>39 DEF RoundSum, Goto, store, people, deals, money, sums, local
<1>40. ASSUME NEW h \in Handlers,
              RoundWrite(h)
       PROVE  DealKnown'
  BY <1>40 DEF RoundWrite, Finish, Forget, store, people, deals, money,
         sums, local
<1>41. ASSUME NEW h \in Handlers,
              Abort(h)
       PROVE  DealKnown'
  BY <1>41 DEF Abort, Finish, Forget, store, people, deals, money, sums,
         local
<1>42. CASE Restart
  BY <1>42 DEF Restart, store, people, deals, money, sums, local
<1>43. CASE UNCHANGED vars
  BY <1>43 DEF vars, store, people, deals, money, sums, local
<1>44. QED
  BY <1>1, <1>2, <1>3, <1>4, <1>5, <1>6, <1>7, <1>8, <1>9, <1>10, <1>11,
     <1>12, <1>13, <1>14, <1>15, <1>16, <1>17, <1>18, <1>19, <1>20, <1>21,
     <1>22, <1>23, <1>24, <1>25, <1>26, <1>27, <1>28, <1>29, <1>30, <1>31,
     <1>32, <1>33, <1>34, <1>35, <1>36, <1>37, <1>38, <1>39, <1>40, <1>41,
     <1>42, <1>43, MatchConfirms
     DEF Next, Arrive, Serve, Gates, Confirm

(* Every step keeps what handlers know of investors.                       *)
LEMMA StepInvestorKnown ==
  TypeOK /\ StoreOK /\ DealKnown /\ InvestorKnown /\ [Next]_vars
    => InvestorKnown'
<1> SUFFICES ASSUME TypeOK, StoreOK, DealKnown, InvestorKnown, [Next]_vars
             PROVE  InvestorKnown'
  OBVIOUS
<1> USE DEF TypeOK, DocumentTypes, HandlerTypes, Steps, StoreOK, DealKnown,
            InvestorKnown, Reserving, Paying, Opening, OnDeal, Walking,
            Verified, Exists, KycStatuses
<1>1. ASSUME NEW n \in Intents,
              FileIntent(n)
       PROVE  InvestorKnown'
  BY <1>1 DEF FileIntent, store, people, deals, money, sums, local
<1>2. ASSUME NEW h \in Handlers, NEW n \in Intents,
              RejectRead(h, n)
       PROVE  InvestorKnown'
  BY <1>2 DEF RejectRead, Goto, store, people, deals, money, sums, local
<1>3. ASSUME NEW h \in Handlers, NEW n \in Intents, NEW d \in Deals,
              ApproveRead(h, n, d)
       PROVE  InvestorKnown'
  BY <1>3 DEF ApproveRead, Goto, store, people, deals, money, sums, local
<1>4. ASSUME NEW h \in Handlers, NEW i \in Investors,
              NEW s \in DOMAIN KycFrom,
              KycRead(h, i, s)
       PROVE  InvestorKnown'
  BY <1>4 DEF KycRead, Goto, KycFrom, store, people, deals, money, sums,
         local
<1>5. ASSUME NEW h \in Handlers, NEW d \in Deals,
              ViewRead(h, d)
       PROVE  InvestorKnown'
  BY <1>5 DEF ViewRead, Goto, Signable, store, people, deals, money, sums,
         local
<1>6. ASSUME NEW h \in Handlers, NEW d \in Deals,
              SignRead(h, d)
       PROVE  InvestorKnown'
  BY <1>6 DEF SignRead, Goto, Signable, store, people, deals, money, sums,
         local
<1>7. ASSUME NEW h \in Handlers, NEW d \in Deals,
              CancelRead(h, d)
       PROVE  InvestorKnown'
  BY <1>7 DEF CancelRead, Goto, Signable, store, people, deals, money, sums,
         local
<1>8. ASSUME NEW h \in Handlers, NEW p \in Payments,
              NEW s \in DOMAIN PaymentFrom,
              PaymentRead(h, p, s)
       PROVE  InvestorKnown'
  BY <1>8 DEF PaymentRead, Goto, PaymentFrom, store, people, deals, money,
         sums, local
<1>9. ASSUME NEW h \in Handlers,
              ApproveReadKyc(h)
       PROVE  InvestorKnown'
  BY <1>9 DEF ApproveReadKyc, Goto, store, people, deals, money, sums, local
<1>10. ASSUME NEW h \in Handlers,
              ApproveInsert(h)
       PROVE  InvestorKnown'
  BY <1>10 DEF ApproveInsert, Goto, SetDeal, store, people, deals, money,
         sums, local
<1>11. ASSUME NEW h \in Handlers,
              ApproveContract(h)
       PROVE  InvestorKnown'
  BY <1>11 DEF ApproveContract, Goto, store, people, deals, money, sums,
         local
<1>12. ASSUME NEW h \in Handlers,
              ApproveLink(h)
       PROVE  InvestorKnown'
  BY <1>12 DEF ApproveLink, Goto, store, people, deals, money, sums, local
<1>13. ASSUME NEW h \in Handlers,
              ApproveClose(h)
       PROVE  InvestorKnown'
  BY <1>13 DEF ApproveClose, Finish, Forget, store, people, deals, money,
         sums, local
<1>14. ASSUME NEW h \in Handlers,
              RejectWrite(h)
       PROVE  InvestorKnown'
  BY <1>14 DEF RejectWrite, Finish, Forget, store, people, deals, money,
         sums, local
<1>15. ASSUME NEW h \in Handlers,
              KycWrite(h)
       PROVE  InvestorKnown'
  BY <1>15 DEF KycWrite, Goto, Finish, Forget, store, people, deals, money,
         sums, local
<1>16. ASSUME NEW h \in Handlers,
              ViewWrite(h)
       PROVE  InvestorKnown'
  BY <1>16 DEF ViewWrite, Finish, Forget, store, people, deals, money, sums,
         local
<1>17. ASSUME NEW h \in Handlers,
              SignInsert(h)
       PROVE  InvestorKnown'
  BY <1>17 DEF SignInsert, Goto, store, people, deals, money, sums, local
<1>18. ASSUME NEW h \in Handlers,
              SignWrite(h)
       PROVE  InvestorKnown'
  BY <1>18 DEF SignWrite, Goto, store, people, deals, money, sums, local
<1>19. ASSUME NEW h \in Handlers,
              CancelWrite(h)
       PROVE  InvestorKnown'
  BY <1>19 DEF CancelWrite, Goto, store, people, deals, money, sums, local
<1>20. ASSUME NEW h \in Handlers,
              CancelReadDeal(h)
       PROVE  InvestorKnown'
  BY <1>20 DEF CancelReadDeal, Goto, Finish, Forget, Pending, store, people,
         deals, money, sums, local
<1>21. ASSUME NEW h \in Handlers,
              CancelDeal(h)
       PROVE  InvestorKnown'
  BY <1>21 DEF CancelDeal, SetDeal, Finish, Forget, store, people, deals,
         money, sums, local
<1>22. ASSUME NEW h \in Handlers,
              PaymentWrite(h)
       PROVE  InvestorKnown'
  BY <1>22 DEF PaymentWrite, Goto, Finish, Forget, store, people, deals,
         money, sums, local
<1>23. ASSUME NEW h \in Handlers,
              MoveReadKyc(h)
       PROVE  InvestorKnown'
  BY <1>23 DEF MoveReadKyc, Goto, store, people, deals, money, sums, local
<1>24. ASSUME NEW h \in Handlers,
              MoveFind(h)
       PROVE  InvestorKnown'
  BY <1>24 DEF MoveFind, Visit, DealsOf, store, people, deals, money, sums,
         local
<1>25. ASSUME NEW h \in Handlers, NEW d \in Deals,
              MoveWrite(h, d)
       PROVE  InvestorKnown'
  BY <1>25 DEF MoveWrite, Visit, SetDeal, store, people, deals, money, sums,
         local
<1>26. ASSUME NEW h \in Handlers,
              OpenReadKyc(h)
       PROVE  InvestorKnown'
  BY <1>26 DEF OpenReadKyc, Goto, Finish, Forget, store, people, deals,
         money, sums, local
<1>27. ASSUME NEW h \in Handlers,
              OpenFind(h)
       PROVE  InvestorKnown'
  BY <1>27 DEF OpenFind, VisitOrFinish, Finish, Forget, DealsOf, store,
         people, deals, money, sums, local
<1>28. ASSUME NEW h \in Handlers, NEW d \in Deals,
              OpenReadContract(h, d)
       PROVE  InvestorKnown'
  BY <1>28 DEF OpenReadContract, Goto, VisitOrFinish, Finish, Forget, store,
         people, deals, money, sums, local
<1>29. ASSUME NEW h \in Handlers,
              OpenReadExisting(h)
       PROVE  InvestorKnown'
  BY <1>29 DEF OpenReadExisting, Goto, VisitOrFinish, Finish, Forget, store,
         people, deals, money, sums, local
<1>30. ASSUME NEW h \in Handlers, NEW p \in Payments,
              OpenInsert(h, p)
       PROVE  InvestorKnown'
  BY <1>30 DEF OpenInsert, Goto, store, people, deals, money, sums, local
<1>31. ASSUME NEW h \in Handlers,
              OpenMove(h)
       PROVE  InvestorKnown'
  BY <1>31 DEF OpenMove, SetDeal, VisitOrFinish, Finish, Forget, store,
         people, deals, money, sums, local
<1>32. ASSUME NEW h \in Handlers,
              ConfirmCredit(h)
       PROVE  InvestorKnown'
  BY <1>32 DEF ConfirmCredit, Goto, store, people, deals, money, sums, local
<1>33. ASSUME NEW h \in Handlers,
              ConfirmActivate(h)
       PROVE  InvestorKnown'
  BY <1>33 DEF ConfirmActivate, Goto, SetDeal, store, people, deals, money,
         sums, local
<1>34. ASSUME NEW h \in Handlers,
              OwnerSum(h)
       PROVE  InvestorKnown'
  BY <1>34 DEF OwnerSum, Goto, store, people, deals, money, sums, local
<1>35. ASSUME NEW h \in Handlers,
              OwnerFind(h)
       PROVE  InvestorKnown'
  BY <1>35 DEF OwnerFind, Goto, store, people, deals, money, sums, local
<1>36. ASSUME NEW h \in Handlers,
              OwnerWrite(h)
       PROVE  InvestorKnown'
  BY <1>36 DEF OwnerWrite, Goto, store, people, deals, money, sums, local
<1>37. ASSUME NEW h \in Handlers,
              AssetSum(h)
       PROVE  InvestorKnown'
  BY <1>37 DEF AssetSum, Goto, store, people, deals, money, sums, local
<1>38. ASSUME NEW h \in Handlers,
              AssetWrite(h)
       PROVE  InvestorKnown'
  BY <1>38 DEF AssetWrite, Goto, store, people, deals, money, sums, local
<1>39. ASSUME NEW h \in Handlers,
              RoundSum(h)
       PROVE  InvestorKnown'
  BY <1>39 DEF RoundSum, Goto, store, people, deals, money, sums, local
<1>40. ASSUME NEW h \in Handlers,
              RoundWrite(h)
       PROVE  InvestorKnown'
  BY <1>40 DEF RoundWrite, Finish, Forget, store, people, deals, money,
         sums, local
<1>41. ASSUME NEW h \in Handlers,
              Abort(h)
       PROVE  InvestorKnown'
  BY <1>41 DEF Abort, Finish, Forget, store, people, deals, money, sums,
         local
<1>42. CASE Restart
  BY <1>42 DEF Restart, store, people, deals, money, sums, local
<1>43. CASE UNCHANGED vars
  BY <1>43 DEF vars, store, people, deals, money, sums, local
<1> HIDE DEF TypeOK, DocumentTypes, HandlerTypes, Steps, StoreOK, DealKnown,
             InvestorKnown, Reserving, Paying, Opening, OnDeal, Walking,
             Verified, Exists, KycStatuses
<1>44. QED
  BY <1>1, <1>2, <1>3, <1>4, <1>5, <1>6, <1>7, <1>8, <1>9, <1>10, <1>11,
     <1>12, <1>13, <1>14, <1>15, <1>16, <1>17, <1>18, <1>19, <1>20, <1>21,
     <1>22, <1>23, <1>24, <1>25, <1>26, <1>27, <1>28, <1>29, <1>30, <1>31,
     <1>32, <1>33, <1>34, <1>35, <1>36, <1>37, <1>38, <1>39, <1>40, <1>41,
     <1>42, <1>43, MatchConfirms
     DEF Next, Arrive, Serve, Gates, Confirm

(* Every step keeps what handlers know of payment requests.                *)
LEMMA StepPaymentKnown ==
  TypeOK /\ StoreOK /\ DealKnown /\ PaymentKnown /\ [Next]_vars
    => PaymentKnown'
<1> SUFFICES ASSUME TypeOK, StoreOK, DealKnown, PaymentKnown, [Next]_vars
             PROVE  PaymentKnown'
  OBVIOUS
<1> USE DEF TypeOK, DocumentTypes, HandlerTypes, StoreOK, DealKnown,
            PaymentKnown, Reserving, Paying, Opening, OnDeal, Walking,
            Verified, Exists, PaymentFrom
<1>1. ASSUME NEW n \in Intents,
              FileIntent(n)
       PROVE  PaymentKnown'
  BY <1>1 DEF FileIntent, store, people, deals, money, sums, local
<1>2. ASSUME NEW h \in Handlers, NEW n \in Intents,
              RejectRead(h, n)
       PROVE  PaymentKnown'
  BY <1>2 DEF RejectRead, Goto, store, people, deals, money, sums, local
<1>3. ASSUME NEW h \in Handlers, NEW n \in Intents, NEW d \in Deals,
              ApproveRead(h, n, d)
       PROVE  PaymentKnown'
  BY <1>3 DEF ApproveRead, Goto, store, people, deals, money, sums, local
<1>4. ASSUME NEW h \in Handlers, NEW i \in Investors,
              NEW s \in DOMAIN KycFrom,
              KycRead(h, i, s)
       PROVE  PaymentKnown'
  BY <1>4 DEF KycRead, Goto, KycFrom, store, people, deals, money, sums,
         local
<1>5. ASSUME NEW h \in Handlers, NEW d \in Deals,
              ViewRead(h, d)
       PROVE  PaymentKnown'
  BY <1>5 DEF ViewRead, Goto, Signable, store, people, deals, money, sums,
         local
<1>6. ASSUME NEW h \in Handlers, NEW d \in Deals,
              SignRead(h, d)
       PROVE  PaymentKnown'
  BY <1>6 DEF SignRead, Goto, Signable, store, people, deals, money, sums,
         local
<1>7. ASSUME NEW h \in Handlers, NEW d \in Deals,
              CancelRead(h, d)
       PROVE  PaymentKnown'
  BY <1>7 DEF CancelRead, Goto, Signable, store, people, deals, money, sums,
         local
<1>8. ASSUME NEW h \in Handlers, NEW p \in Payments,
              NEW s \in DOMAIN PaymentFrom,
              PaymentRead(h, p, s)
       PROVE  PaymentKnown'
  BY <1>8 DEF PaymentRead, Goto, PaymentFrom, store, people, deals, money,
         sums, local
<1>9. ASSUME NEW h \in Handlers,
              ApproveReadKyc(h)
       PROVE  PaymentKnown'
  BY <1>9 DEF ApproveReadKyc, Goto, store, people, deals, money, sums, local
<1>10. ASSUME NEW h \in Handlers,
              ApproveInsert(h)
       PROVE  PaymentKnown'
  BY <1>10 DEF ApproveInsert, Goto, SetDeal, store, people, deals, money,
         sums, local
<1>11. ASSUME NEW h \in Handlers,
              ApproveContract(h)
       PROVE  PaymentKnown'
  BY <1>11 DEF ApproveContract, Goto, store, people, deals, money, sums,
         local
<1>12. ASSUME NEW h \in Handlers,
              ApproveLink(h)
       PROVE  PaymentKnown'
  BY <1>12 DEF ApproveLink, Goto, store, people, deals, money, sums, local
<1>13. ASSUME NEW h \in Handlers,
              ApproveClose(h)
       PROVE  PaymentKnown'
  BY <1>13 DEF ApproveClose, Finish, Forget, store, people, deals, money,
         sums, local
<1>14. ASSUME NEW h \in Handlers,
              RejectWrite(h)
       PROVE  PaymentKnown'
  BY <1>14 DEF RejectWrite, Finish, Forget, store, people, deals, money,
         sums, local
<1>15. ASSUME NEW h \in Handlers,
              KycWrite(h)
       PROVE  PaymentKnown'
  BY <1>15 DEF KycWrite, Goto, Finish, Forget, store, people, deals, money,
         sums, local
<1>16. ASSUME NEW h \in Handlers,
              ViewWrite(h)
       PROVE  PaymentKnown'
  BY <1>16 DEF ViewWrite, Finish, Forget, store, people, deals, money, sums,
         local
<1>17. ASSUME NEW h \in Handlers,
              SignInsert(h)
       PROVE  PaymentKnown'
  BY <1>17 DEF SignInsert, Goto, store, people, deals, money, sums, local
<1>18. ASSUME NEW h \in Handlers,
              SignWrite(h)
       PROVE  PaymentKnown'
  BY <1>18 DEF SignWrite, Goto, store, people, deals, money, sums, local
<1>19. ASSUME NEW h \in Handlers,
              CancelWrite(h)
       PROVE  PaymentKnown'
  BY <1>19 DEF CancelWrite, Goto, store, people, deals, money, sums, local
<1>20. ASSUME NEW h \in Handlers,
              CancelReadDeal(h)
       PROVE  PaymentKnown'
  BY <1>20 DEF CancelReadDeal, Goto, Finish, Forget, Pending, store, people,
         deals, money, sums, local
<1>21. ASSUME NEW h \in Handlers,
              CancelDeal(h)
       PROVE  PaymentKnown'
  BY <1>21 DEF CancelDeal, SetDeal, Finish, Forget, store, people, deals,
         money, sums, local
<1>22. ASSUME NEW h \in Handlers,
              PaymentWrite(h)
       PROVE  PaymentKnown'
  BY <1>22 DEF PaymentWrite, Goto, Finish, Forget, store, people, deals,
         money, sums, local
<1>23. ASSUME NEW h \in Handlers,
              MoveReadKyc(h)
       PROVE  PaymentKnown'
  BY <1>23 DEF MoveReadKyc, Goto, store, people, deals, money, sums, local
<1>24. ASSUME NEW h \in Handlers,
              MoveFind(h)
       PROVE  PaymentKnown'
  BY <1>24 DEF MoveFind, Visit, DealsOf, store, people, deals, money, sums,
         local
<1>25. ASSUME NEW h \in Handlers, NEW d \in Deals,
              MoveWrite(h, d)
       PROVE  PaymentKnown'
  BY <1>25 DEF MoveWrite, Visit, SetDeal, store, people, deals, money, sums,
         local
<1>26. ASSUME NEW h \in Handlers,
              OpenReadKyc(h)
       PROVE  PaymentKnown'
  BY <1>26 DEF OpenReadKyc, Goto, Finish, Forget, store, people, deals,
         money, sums, local
<1>27. ASSUME NEW h \in Handlers,
              OpenFind(h)
       PROVE  PaymentKnown'
  BY <1>27 DEF OpenFind, VisitOrFinish, Finish, Forget, DealsOf, store,
         people, deals, money, sums, local
<1>28. ASSUME NEW h \in Handlers, NEW d \in Deals,
              OpenReadContract(h, d)
       PROVE  PaymentKnown'
  BY <1>28 DEF OpenReadContract, Goto, VisitOrFinish, Finish, Forget, store,
         people, deals, money, sums, local
<1>29. ASSUME NEW h \in Handlers,
              OpenReadExisting(h)
       PROVE  PaymentKnown'
  BY <1>29 DEF OpenReadExisting, Goto, VisitOrFinish, Finish, Forget, store,
         people, deals, money, sums, local
<1>30. ASSUME NEW h \in Handlers, NEW p \in Payments,
              OpenInsert(h, p)
       PROVE  PaymentKnown'
  BY <1>30 DEF OpenInsert, Goto, store, people, deals, money, sums, local
<1>31. ASSUME NEW h \in Handlers,
              OpenMove(h)
       PROVE  PaymentKnown'
  BY <1>31 DEF OpenMove, SetDeal, VisitOrFinish, Finish, Forget, store,
         people, deals, money, sums, local
<1>32. ASSUME NEW h \in Handlers,
              ConfirmCredit(h)
       PROVE  PaymentKnown'
  BY <1>32 DEF ConfirmCredit, Goto, store, people, deals, money, sums, local
<1>33. ASSUME NEW h \in Handlers,
              ConfirmActivate(h)
       PROVE  PaymentKnown'
  BY <1>33 DEF ConfirmActivate, Goto, SetDeal, store, people, deals, money,
         sums, local
<1>34. ASSUME NEW h \in Handlers,
              OwnerSum(h)
       PROVE  PaymentKnown'
  BY <1>34 DEF OwnerSum, Goto, store, people, deals, money, sums, local
<1>35. ASSUME NEW h \in Handlers,
              OwnerFind(h)
       PROVE  PaymentKnown'
  BY <1>35 DEF OwnerFind, Goto, store, people, deals, money, sums, local
<1>36. ASSUME NEW h \in Handlers,
              OwnerWrite(h)
       PROVE  PaymentKnown'
  BY <1>36 DEF OwnerWrite, Goto, store, people, deals, money, sums, local
<1>37. ASSUME NEW h \in Handlers,
              AssetSum(h)
       PROVE  PaymentKnown'
  BY <1>37 DEF AssetSum, Goto, store, people, deals, money, sums, local
<1>38. ASSUME NEW h \in Handlers,
              AssetWrite(h)
       PROVE  PaymentKnown'
  BY <1>38 DEF AssetWrite, Goto, store, people, deals, money, sums, local
<1>39. ASSUME NEW h \in Handlers,
              RoundSum(h)
       PROVE  PaymentKnown'
  BY <1>39 DEF RoundSum, Goto, store, people, deals, money, sums, local
<1>40. ASSUME NEW h \in Handlers,
              RoundWrite(h)
       PROVE  PaymentKnown'
  BY <1>40 DEF RoundWrite, Finish, Forget, store, people, deals, money,
         sums, local
<1>41. ASSUME NEW h \in Handlers,
              Abort(h)
       PROVE  PaymentKnown'
  BY <1>41 DEF Abort, Finish, Forget, store, people, deals, money, sums,
         local
<1>42. CASE Restart
  BY <1>42 DEF Restart, store, people, deals, money, sums, local
<1>43. CASE UNCHANGED vars
  BY <1>43 DEF vars, store, people, deals, money, sums, local
<1>44. QED
  BY <1>1, <1>2, <1>3, <1>4, <1>5, <1>6, <1>7, <1>8, <1>9, <1>10, <1>11,
     <1>12, <1>13, <1>14, <1>15, <1>16, <1>17, <1>18, <1>19, <1>20, <1>21,
     <1>22, <1>23, <1>24, <1>25, <1>26, <1>27, <1>28, <1>29, <1>30, <1>31,
     <1>32, <1>33, <1>34, <1>35, <1>36, <1>37, <1>38, <1>39, <1>40, <1>41,
     <1>42, <1>43, MatchConfirms
     DEF Next, Arrive, Serve, Gates, Confirm

(* Every step keeps active investments funded by submitted payments.       *)
LEMMA StepFunded ==
  TypeOK /\ StoreOK /\ DealKnown /\ PaymentKnown /\ ActiveIsFunded /\
     PaymentWasSubmitted /\ [Next]_vars
    => (ActiveIsFunded /\ PaymentWasSubmitted)'
<1> SUFFICES ASSUME TypeOK, StoreOK, DealKnown, PaymentKnown,
                    ActiveIsFunded, PaymentWasSubmitted, [Next]_vars
             PROVE  (ActiveIsFunded /\ PaymentWasSubmitted)'
  OBVIOUS
<1> USE DEF TypeOK, DocumentTypes, HandlerTypes, StoreOK, DealKnown,
            PaymentKnown, ActiveIsFunded, PaymentWasSubmitted, Reserving,
            Paying, Opening, OnDeal, Walking, Verified, Exists
<1>1. ASSUME NEW n \in Intents,
              FileIntent(n)
       PROVE  (ActiveIsFunded /\ PaymentWasSubmitted)'
  BY <1>1 DEF FileIntent, store, people, deals, money, sums, local
<1>2. ASSUME NEW h \in Handlers, NEW n \in Intents,
              RejectRead(h, n)
       PROVE  (ActiveIsFunded /\ PaymentWasSubmitted)'
  BY <1>2 DEF RejectRead, Goto, store, people, deals, money, sums, local
<1>3. ASSUME NEW h \in Handlers, NEW n \in Intents, NEW d \in Deals,
              ApproveRead(h, n, d)
       PROVE  (ActiveIsFunded /\ PaymentWasSubmitted)'
  BY <1>3 DEF ApproveRead, Goto, store, people, deals, money, sums, local
<1>4. ASSUME NEW h \in Handlers, NEW i \in Investors,
              NEW s \in DOMAIN KycFrom,
              KycRead(h, i, s)
       PROVE  (ActiveIsFunded /\ PaymentWasSubmitted)'
  BY <1>4 DEF KycRead, Goto, KycFrom, store, people, deals, money, sums,
         local
<1>5. ASSUME NEW h \in Handlers, NEW d \in Deals,
              ViewRead(h, d)
       PROVE  (ActiveIsFunded /\ PaymentWasSubmitted)'
  BY <1>5 DEF ViewRead, Goto, Signable, store, people, deals, money, sums,
         local
<1>6. ASSUME NEW h \in Handlers, NEW d \in Deals,
              SignRead(h, d)
       PROVE  (ActiveIsFunded /\ PaymentWasSubmitted)'
  BY <1>6 DEF SignRead, Goto, Signable, store, people, deals, money, sums,
         local
<1>7. ASSUME NEW h \in Handlers, NEW d \in Deals,
              CancelRead(h, d)
       PROVE  (ActiveIsFunded /\ PaymentWasSubmitted)'
  BY <1>7 DEF CancelRead, Goto, Signable, store, people, deals, money, sums,
         local
<1>8. ASSUME NEW h \in Handlers, NEW p \in Payments,
              NEW s \in DOMAIN PaymentFrom,
              PaymentRead(h, p, s)
       PROVE  (ActiveIsFunded /\ PaymentWasSubmitted)'
  BY <1>8 DEF PaymentRead, Goto, PaymentFrom, store, people, deals, money,
         sums, local
<1>9. ASSUME NEW h \in Handlers,
              ApproveReadKyc(h)
       PROVE  (ActiveIsFunded /\ PaymentWasSubmitted)'
  BY <1>9 DEF ApproveReadKyc, Goto, store, people, deals, money, sums, local
<1>10. ASSUME NEW h \in Handlers,
              ApproveInsert(h)
       PROVE  (ActiveIsFunded /\ PaymentWasSubmitted)'
  BY <1>10 DEF ApproveInsert, Goto, SetDeal, store, people, deals, money,
         sums, local
<1>11. ASSUME NEW h \in Handlers,
              ApproveContract(h)
       PROVE  (ActiveIsFunded /\ PaymentWasSubmitted)'
  BY <1>11 DEF ApproveContract, Goto, store, people, deals, money, sums,
         local
<1>12. ASSUME NEW h \in Handlers,
              ApproveLink(h)
       PROVE  (ActiveIsFunded /\ PaymentWasSubmitted)'
  BY <1>12 DEF ApproveLink, Goto, store, people, deals, money, sums, local
<1>13. ASSUME NEW h \in Handlers,
              ApproveClose(h)
       PROVE  (ActiveIsFunded /\ PaymentWasSubmitted)'
  BY <1>13 DEF ApproveClose, Finish, Forget, store, people, deals, money,
         sums, local
<1>14. ASSUME NEW h \in Handlers,
              RejectWrite(h)
       PROVE  (ActiveIsFunded /\ PaymentWasSubmitted)'
  BY <1>14 DEF RejectWrite, Finish, Forget, store, people, deals, money,
         sums, local
<1>15. ASSUME NEW h \in Handlers,
              KycWrite(h)
       PROVE  (ActiveIsFunded /\ PaymentWasSubmitted)'
  BY <1>15 DEF KycWrite, Goto, Finish, Forget, store, people, deals, money,
         sums, local
<1>16. ASSUME NEW h \in Handlers,
              ViewWrite(h)
       PROVE  (ActiveIsFunded /\ PaymentWasSubmitted)'
  BY <1>16 DEF ViewWrite, Finish, Forget, store, people, deals, money, sums,
         local
<1>17. ASSUME NEW h \in Handlers,
              SignInsert(h)
       PROVE  (ActiveIsFunded /\ PaymentWasSubmitted)'
  BY <1>17 DEF SignInsert, Goto, store, people, deals, money, sums, local
<1>18. ASSUME NEW h \in Handlers,
              SignWrite(h)
       PROVE  (ActiveIsFunded /\ PaymentWasSubmitted)'
  BY <1>18 DEF SignWrite, Goto, store, people, deals, money, sums, local
<1>19. ASSUME NEW h \in Handlers,
              CancelWrite(h)
       PROVE  (ActiveIsFunded /\ PaymentWasSubmitted)'
  BY <1>19 DEF CancelWrite, Goto, store, people, deals, money, sums, local
<1>20. ASSUME NEW h \in Handlers,
              CancelReadDeal(h)
       PROVE  (ActiveIsFunded /\ PaymentWasSubmitted)'
  BY <1>20 DEF CancelReadDeal, Goto, Finish, Forget, Pending, store, people,
         deals, money, sums, local
<1>21. ASSUME NEW h \in Handlers,
              CancelDeal(h)
       PROVE  (ActiveIsFunded /\ PaymentWasSubmitted)'
  BY <1>21 DEF CancelDeal, SetDeal, Finish, Forget, store, people, deals,
         money, sums, local
<1>22. ASSUME NEW h \in Handlers,
              PaymentWrite(h)
       PROVE  (ActiveIsFunded /\ PaymentWasSubmitted)'
  BY <1>22 DEF PaymentWrite, Goto, Finish, Forget, store, people, deals,
         money, sums, local
<1>23. ASSUME NEW h \in Handlers,
              MoveReadKyc(h)
       PROVE  (ActiveIsFunded /\ PaymentWasSubmitted)'
  BY <1>23 DEF MoveReadKyc, Goto, store, people, deals, money, sums, local
<1>24. ASSUME NEW h \in Handlers,
              MoveFind(h)
       PROVE  (ActiveIsFunded /\ PaymentWasSubmitted)'
  BY <1>24 DEF MoveFind, Visit, DealsOf, store, people, deals, money, sums,
         local
<1>25. ASSUME NEW h \in Handlers, NEW d \in Deals,
              MoveWrite(h, d)
       PROVE  (ActiveIsFunded /\ PaymentWasSubmitted)'
  BY <1>25 DEF MoveWrite, Visit, SetDeal, store, people, deals, money, sums,
         local
<1>26. ASSUME NEW h \in Handlers,
              OpenReadKyc(h)
       PROVE  (ActiveIsFunded /\ PaymentWasSubmitted)'
  BY <1>26 DEF OpenReadKyc, Goto, Finish, Forget, store, people, deals,
         money, sums, local
<1>27. ASSUME NEW h \in Handlers,
              OpenFind(h)
       PROVE  (ActiveIsFunded /\ PaymentWasSubmitted)'
  BY <1>27 DEF OpenFind, VisitOrFinish, Finish, Forget, DealsOf, store,
         people, deals, money, sums, local
<1>28. ASSUME NEW h \in Handlers, NEW d \in Deals,
              OpenReadContract(h, d)
       PROVE  (ActiveIsFunded /\ PaymentWasSubmitted)'
  BY <1>28 DEF OpenReadContract, Goto, VisitOrFinish, Finish, Forget, store,
         people, deals, money, sums, local
<1>29. ASSUME NEW h \in Handlers,
              OpenReadExisting(h)
       PROVE  (ActiveIsFunded /\ PaymentWasSubmitted)'
  BY <1>29 DEF OpenReadExisting, Goto, VisitOrFinish, Finish, Forget, store,
         people, deals, money, sums, local
<1>30. ASSUME NEW h \in Handlers, NEW p \in Payments,
              OpenInsert(h, p)
       PROVE  (ActiveIsFunded /\ PaymentWasSubmitted)'
  BY <1>30 DEF OpenInsert, Goto, store, people, deals, money, sums, local
<1>31. ASSUME NEW h \in Handlers,
              OpenMove(h)
       PROVE  (ActiveIsFunded /\ PaymentWasSubmitted)'
  BY <1>31 DEF OpenMove, SetDeal, VisitOrFinish, Finish, Forget, store,
         people, deals, money, sums, local
<1>32. ASSUME NEW h \in Handlers,
              ConfirmCredit(h)
       PROVE  (ActiveIsFunded /\ PaymentWasSubmitted)'
  BY <1>32 DEF ConfirmCredit, Goto, store, people, deals, money, sums, local
<1>33. ASSUME NEW h \in Handlers,
              ConfirmActivate(h)
       PROVE  (ActiveIsFunded /\ PaymentWasSubmitted)'
  BY <1>33 DEF ConfirmActivate, Goto, SetDeal, store, people, deals, money,
         sums, local
<1>34. ASSUME NEW h \in Handlers,
              OwnerSum(h)
       PROVE  (ActiveIsFunded /\ PaymentWasSubmitted)'
  BY <1>34 DEF OwnerSum, Goto, store, people, deals, money, sums, local
<1>35. ASSUME NEW h \in Handlers,
              OwnerFind(h)
       PROVE  (ActiveIsFunded /\ PaymentWasSubmitted)'
  BY <1>35 DEF OwnerFind, Goto, store, people, deals, money, sums, local
<1>36. ASSUME NEW h \in Handlers,
              OwnerWrite(h)
       PROVE  (ActiveIsFunded /\ PaymentWasSubmitted)'
  BY <1>36 DEF OwnerWrite, Goto, store, people, deals, money, sums, local
<1>37. ASSUME NEW h \in Handlers,
              AssetSum(h)
       PROVE  (ActiveIsFunded /\ PaymentWasSubmitted)'
  BY <1>37 DEF AssetSum, Goto, store, people, deals, money, sums, local
<1>38. ASSUME NEW h \in Handlers,
              AssetWrite(h)
       PROVE  (ActiveIsFunded /\ PaymentWasSubmitted)'
  BY <1>38 DEF AssetWrite, Goto, store, people, deals, money, sums, local
<1>39. ASSUME NEW h \in Handlers,
              RoundSum(h)
       PROVE  (ActiveIsFunded /\ PaymentWasSubmitted)'
  BY <1>39 DEF RoundSum, Goto, store, people, deals, money, sums, local
<1>40. ASSUME NEW h \in Handlers,
              RoundWrite(h)
       PROVE  (ActiveIsFunded /\ PaymentWasSubmitted)'
  BY <1>40 DEF RoundWrite, Finish, Forget, store, people, deals, money,
         sums, local
<1>41. ASSUME NEW h \in Handlers,
              Abort(h)
       PROVE  (ActiveIsFunded /\ PaymentWasSubmitted)'
  BY <1>41 DEF Abort, Finish, Forget, store, people, deals, money, sums,
         local
<1>42. CASE Restart
  BY <1>42 DEF Restart, store, people, deals, money, sums, local
<1>43. CASE UNCHANGED vars
  BY <1>43 DEF vars, store, people, deals, money, sums, local
<1>44. QED
  BY <1>1, <1>2, <1>3, <1>4, <1>5, <1>6, <1>7, <1>8, <1>9, <1>10, <1>11,
     <1>12, <1>13, <1>14, <1>15, <1>16, <1>17, <1>18, <1>19, <1>20, <1>21,
     <1>22, <1>23, <1>24, <1>25, <1>26, <1>27, <1>28, <1>29, <1>30, <1>31,
     <1>32, <1>33, <1>34, <1>35, <1>36, <1>37, <1>38, <1>39, <1>40, <1>41,
     <1>42, <1>43, MatchConfirms
     DEF Next, Arrive, Serve, Gates, Confirm

(* Every step keeps the gates before the payment.                          *)
LEMMA StepGates ==
  TypeOK /\ StoreOK /\ DealKnown /\ InvestorKnown /\ PaymentKnown /\
     GatesWerePassed /\ [Next]_vars
    => GatesWerePassed'
<1> SUFFICES ASSUME TypeOK, StoreOK, DealKnown, InvestorKnown, PaymentKnown,
                    GatesWerePassed, [Next]_vars
             PROVE  GatesWerePassed'
  OBVIOUS
<1> USE DEF TypeOK, DocumentTypes, HandlerTypes, StoreOK, DealKnown,
            InvestorKnown, PaymentKnown, GatesWerePassed, PassedGates,
            Reserving, Paying, Opening, OnDeal, Walking, Verified, Exists
<1>1. ASSUME NEW n \in Intents,
              FileIntent(n)
       PROVE  GatesWerePassed'
  BY <1>1 DEF FileIntent, store, people, deals, money, sums, local
<1>2. ASSUME NEW h \in Handlers, NEW n \in Intents,
              RejectRead(h, n)
       PROVE  GatesWerePassed'
  BY <1>2 DEF RejectRead, Goto, store, people, deals, money, sums, local
<1>3. ASSUME NEW h \in Handlers, NEW n \in Intents, NEW d \in Deals,
              ApproveRead(h, n, d)
       PROVE  GatesWerePassed'
  BY <1>3 DEF ApproveRead, Goto, store, people, deals, money, sums, local
<1>4. ASSUME NEW h \in Handlers, NEW i \in Investors,
              NEW s \in DOMAIN KycFrom,
              KycRead(h, i, s)
       PROVE  GatesWerePassed'
  BY <1>4 DEF KycRead, Goto, KycFrom, store, people, deals, money, sums,
         local
<1>5. ASSUME NEW h \in Handlers, NEW d \in Deals,
              ViewRead(h, d)
       PROVE  GatesWerePassed'
  BY <1>5 DEF ViewRead, Goto, Signable, store, people, deals, money, sums,
         local
<1>6. ASSUME NEW h \in Handlers, NEW d \in Deals,
              SignRead(h, d)
       PROVE  GatesWerePassed'
  BY <1>6 DEF SignRead, Goto, Signable, store, people, deals, money, sums,
         local
<1>7. ASSUME NEW h \in Handlers, NEW d \in Deals,
              CancelRead(h, d)
       PROVE  GatesWerePassed'
  BY <1>7 DEF CancelRead, Goto, Signable, store, people, deals, money, sums,
         local
<1>8. ASSUME NEW h \in Handlers, NEW p \in Payments,
              NEW s \in DOMAIN PaymentFrom,
              PaymentRead(h, p, s)
       PROVE  GatesWerePassed'
  BY <1>8 DEF PaymentRead, Goto, PaymentFrom, store, people, deals, money,
         sums, local
<1>9. ASSUME NEW h \in Handlers,
              ApproveReadKyc(h)
       PROVE  GatesWerePassed'
  BY <1>9 DEF ApproveReadKyc, Goto, store, people, deals, money, sums, local
<1>10. ASSUME NEW h \in Handlers,
              ApproveInsert(h)
       PROVE  GatesWerePassed'
  BY <1>10 DEF ApproveInsert, Goto, SetDeal, store, people, deals, money,
         sums, local
<1>11. ASSUME NEW h \in Handlers,
              ApproveContract(h)
       PROVE  GatesWerePassed'
  BY <1>11 DEF ApproveContract, Goto, store, people, deals, money, sums,
         local
<1>12. ASSUME NEW h \in Handlers,
              ApproveLink(h)
       PROVE  GatesWerePassed'
  BY <1>12 DEF ApproveLink, Goto, store, people, deals, money, sums, local
<1>13. ASSUME NEW h \in Handlers,
              ApproveClose(h)
       PROVE  GatesWerePassed'
  BY <1>13 DEF ApproveClose, Finish, Forget, store, people, deals, money,
         sums, local
<1>14. ASSUME NEW h \in Handlers,
              RejectWrite(h)
       PROVE  GatesWerePassed'
  BY <1>14 DEF RejectWrite, Finish, Forget, store, people, deals, money,
         sums, local
<1>15. ASSUME NEW h \in Handlers,
              KycWrite(h)
       PROVE  GatesWerePassed'
  BY <1>15 DEF KycWrite, Goto, Finish, Forget, store, people, deals, money,
         sums, local
<1>16. ASSUME NEW h \in Handlers,
              ViewWrite(h)
       PROVE  GatesWerePassed'
  BY <1>16 DEF ViewWrite, Finish, Forget, store, people, deals, money, sums,
         local
<1>17. ASSUME NEW h \in Handlers,
              SignInsert(h)
       PROVE  GatesWerePassed'
  BY <1>17 DEF SignInsert, Goto, store, people, deals, money, sums, local
<1>18. ASSUME NEW h \in Handlers,
              SignWrite(h)
       PROVE  GatesWerePassed'
  BY <1>18 DEF SignWrite, Goto, store, people, deals, money, sums, local
<1>19. ASSUME NEW h \in Handlers,
              CancelWrite(h)
       PROVE  GatesWerePassed'
  BY <1>19 DEF CancelWrite, Goto, store, people, deals, money, sums, local
<1>20. ASSUME NEW h \in Handlers,
              CancelReadDeal(h)
       PROVE  GatesWerePassed'
  BY <1>20 DEF CancelReadDeal, Goto, Finish, Forget, Pending, store, people,
         deals, money, sums, local
<1>21. ASSUME NEW h \in Handlers,
              CancelDeal(h)
       PROVE  GatesWerePassed'
  BY <1>21 DEF CancelDeal, SetDeal, Finish, Forget, store, people, deals,
         money, sums, local
<1>22. ASSUME NEW h \in Handlers,
              PaymentWrite(h)
       PROVE  GatesWerePassed'
  BY <1>22 DEF PaymentWrite, Goto, Finish, Forget, store, people, deals,
         money, sums, local
<1>23. ASSUME NEW h \in Handlers,
              MoveReadKyc(h)
       PROVE  GatesWerePassed'
  BY <1>23 DEF MoveReadKyc, Goto, store, people, deals, money, sums, local
<1>24. ASSUME NEW h \in Handlers,
              MoveFind(h)
       PROVE  GatesWerePassed'
  BY <1>24 DEF MoveFind, Visit, DealsOf, store, people, deals, money, sums,
         local
<1>25. ASSUME NEW h \in Handlers, NEW d \in Deals,
              MoveWrite(h, d)
       PROVE  GatesWerePassed'
  BY <1>25 DEF MoveWrite, Visit, SetDeal, store, people, deals, money, sums,
         local
<1>26. ASSUME NEW h \in Handlers,
              OpenReadKyc(h)
       PROVE  GatesWerePassed'
  BY <1>26 DEF OpenReadKyc, Goto, Finish, Forget, store, people, deals,
         money, sums, local
<1>27. ASSUME NEW h \in Handlers,
              OpenFind(h)
       PROVE  GatesWerePassed'
  BY <1>27 DEF OpenFind, VisitOrFinish, Finish, Forget, DealsOf, store,
         people, deals, money, sums, local
<1>28. ASSUME NEW h \in Handlers, NEW d \in Deals,
              OpenReadContract(h, d)
       PROVE  GatesWerePassed'
  BY <1>28 DEF OpenReadContract, Goto, VisitOrFinish, Finish, Forget, store,
         people, deals, money, sums, local
<1>29. ASSUME NEW h \in Handlers,
              OpenReadExisting(h)
       PROVE  GatesWerePassed'
  BY <1>29 DEF OpenReadExisting, Goto, VisitOrFinish, Finish, Forget, store,
         people, deals, money, sums, local
<1>30. ASSUME NEW h \in Handlers, NEW p \in Payments,
              OpenInsert(h, p)
       PROVE  GatesWerePassed'
  BY <1>30 DEF OpenInsert, Goto, store, people, deals, money, sums, local
<1>31. ASSUME NEW h \in Handlers,
              OpenMove(h)
       PROVE  GatesWerePassed'
  BY <1>31 DEF OpenMove, SetDeal, VisitOrFinish, Finish, Forget, store,
         people, deals, money, sums, local
<1>32. ASSUME NEW h \in Handlers,
              ConfirmCredit(h)
       PROVE  GatesWerePassed'
  BY <1>32 DEF ConfirmCredit, Goto, store, people, deals, money, sums, local
<1>33. ASSUME NEW h \in Handlers,
              ConfirmActivate(h)
       PROVE  GatesWerePassed'
  BY <1>33 DEF ConfirmActivate, Goto, SetDeal, store, people, deals, money,
         sums, local
<1>34. ASSUME NEW h \in Handlers,
              OwnerSum(h)
       PROVE  GatesWerePassed'
  BY <1>34 DEF OwnerSum, Goto, store, people, deals, money, sums, local
<1>35. ASSUME NEW h \in Handlers,
              OwnerFind(h)
       PROVE  GatesWerePassed'
  BY <1>35 DEF OwnerFind, Goto, store, people, deals, money, sums, local
<1>36. ASSUME NEW h \in Handlers,
              OwnerWrite(h)
       PROVE  GatesWerePassed'
  BY <1>36 DEF OwnerWrite, Goto, store, people, deals, money, sums, local
<1>37. ASSUME NEW h \in Handlers,
              AssetSum(h)
       PROVE  GatesWerePassed'
  BY <1>37 DEF AssetSum, Goto, store, people, deals, money, sums, local
<1>38. ASSUME NEW h \in Handlers,
              AssetWrite(h)
       PROVE  GatesWerePassed'
  BY <1>38 DEF AssetWrite, Goto, store, people, deals, money, sums, local
<1>39. ASSUME NEW h \in Handlers,
              RoundSum(h)
       PROVE  GatesWerePassed'
  BY <1>39 DEF RoundSum, Goto, store, people, deals, money, sums, local
<1>40. ASSUME NEW h \in Handlers,
              RoundWrite(h)
       PROVE  GatesWerePassed'
  BY <1>40 DEF RoundWrite, Finish, Forget, store, people, deals, money,
         sums, local
<1>41. ASSUME NEW h \in Handlers,
              Abort(h)
       PROVE  GatesWerePassed'
  BY <1>41 DEF Abort, Finish, Forget, store, people, deals, money, sums,
         local
<1>42. CASE Restart
  BY <1>42 DEF Restart, store, people, deals, money, sums, local
<1>43. CASE UNCHANGED vars
  BY <1>43 DEF vars, store, people, deals, money, sums, local
<1>44. QED
  BY <1>1, <1>2, <1>3, <1>4, <1>5, <1>6, <1>7, <1>8, <1>9, <1>10, <1>11,
     <1>12, <1>13, <1>14, <1>15, <1>16, <1>17, <1>18, <1>19, <1>20, <1>21,
     <1>22, <1>23, <1>24, <1>25, <1>26, <1>27, <1>28, <1>29, <1>30, <1>31,
     <1>32, <1>33, <1>34, <1>35, <1>36, <1>37, <1>38, <1>39, <1>40, <1>41,
     <1>42, <1>43, MatchConfirms
     DEF Next, Arrive, Serve, Gates, Confirm

(* IInv is an invariant of the specification.                              *)
THEOREM InductiveInvariant == Spec => []IInv
<1>1. IInv /\ [Next]_vars => IInv'
  BY StepTypeOK, StepStoreOK, StepDealKnown, StepInvestorKnown,
     StepPaymentKnown, StepFunded, StepGates DEF IInv
<1>2. QED
  BY InitIInv, <1>1, PTL DEF Spec

(* Statuses, histories, ledger entries and the handlers' locals keep their *)
(* types (approve_intent, sign_contract, approve_kyc,                      *)
(* confirm_payment_request).                                               *)
THEOREM TypeCorrect == Spec => []TypeOK
<1>1. IInv => TypeOK
  BY DEF IInv
<1>2. QED
  BY InductiveInvariant, <1>1, PTL

(* An active investment has a ledger entry: confirm_payment_request writes *)
(* it first, for whatever handlers overlap or die.                         *)
THEOREM ActiveIsFundedAlways == Spec => []ActiveIsFunded
<1>1. IInv => ActiveIsFunded
  BY DEF IInv
<1>2. QED
  BY InductiveInvariant, <1>1, PTL

(* A ledger entry is for a payment that was submitted and then confirmed,  *)
(* whatever admins, bank matches and the investor do at the same time: no  *)
(* match books a request still awaiting payment.                           *)
THEOREM PaymentWasSubmittedAlways == Spec => []PaymentWasSubmitted
<1>1. IInv => PaymentWasSubmitted
  BY DEF IInv
<1>2. QED
  BY InductiveInvariant, <1>1, PTL

(* Payment is asked, and an investment activated, only after signature and *)
(* KYC approval (open_payment_requests_for_investor and its two hooks).    *)
THEOREM GatesWerePassedAlways == Spec => []GatesWerePassed
<1>1. IInv => GatesWerePassed
  BY DEF IInv
<1>2. QED
  BY InductiveInvariant, <1>1, PTL
-----------------------------------------------------------------------------
(* What holds when requests are served one after another and none is lost. *)
OneHandler ==
  /\ \A g, h \in Handlers : g = h
  /\ MaxFailures = 0

(* Steps at which a handler has inserted the investment of its intent, and *)
(* steps at which it decides an intent.                                    *)
Linking   == {"approve_contract", "approve_link", "approve_close"}
Approving == Linking \cup {"approve_kyc", "approve_insert", "reject_write"}

(* Intents and investments, on both sides of the approval that is served.  *)
IntentDeals ==
  /\ \A d \in Deals : intentOf[d] \in Intents => deal[d] # "absent"
  /\ \A d, e \in Deals :
       intentOf[d] \in Intents /\ intentOf[d] = intentOf[e] => d = e
  /\ \A n \in Intents :
       intent[n] = "converted" => \E d \in Deals : intentOf[d] = n
  /\ \A d \in Deals : intentOf[d] \in Intents =>
       \/ intent[intentOf[d]] = "converted"
       \/ \E h \in Handlers : pc[h] \in Linking /\ arg[h] = intentOf[d]

IntentKnown ==
  \A h \in Handlers :
    /\ pc[h] \in Approving => intent[arg[h]] = "submitted"
    /\ pc[h] \in Linking => \E d \in Deals : intentOf[d] = arg[h]

NoneLost == failures = 0

(* The inductive invariant of serial behaviours.                           *)
SerialInv == IInv /\ IntentDeals /\ IntentKnown /\ NoneLost

(* No intent is filed and no investment made at first.                     *)
LEMMA InitSerialInv == Init => SerialInv
<1> SUFFICES ASSUME Init PROVE SerialInv
  OBVIOUS
<1>1. IntentDeals /\ IntentKnown /\ NoneLost
  BY DEF Init, IntentDeals, IntentKnown, Approving, Linking, NoneLost
<1>2. QED
  BY <1>1, InitIInv DEF SerialInv

(* The steps that decide an intent; any other step neither starts nor ends *)
(* a decision, and keeps intents and what investments were made of.        *)
Decides(h) ==
  \/ \E n \in Intents : RejectRead(h, n)
  \/ \E n \in Intents, d \in Deals : ApproveRead(h, n, d)
  \/ ApproveReadKyc(h) \/ ApproveInsert(h) \/ ApproveContract(h)
  \/ ApproveLink(h) \/ ApproveClose(h) \/ RejectWrite(h)

Elsewhere(h) ==
  /\ UNCHANGED <<intent, intentOf, failures>>
  /\ \A d \in Deals : deal[d] # "absent" => deal'[d] # "absent"
  /\ pc[h] \notin Approving /\ pc'[h] \notin Approving

Calm ==
  \/ UNCHANGED <<intent, intentOf, deal, pc, arg, failures>>
  \/ \E n \in Intents : FileIntent(n)
  \/ \E h \in Handlers : Decides(h) \/ Elsewhere(h)

(* Nothing else happens when no handler is lost.                           *)
LEMMA StepCalm ==
  ASSUME OneHandler, TypeOK, NoneLost, [Next]_vars
  PROVE  Calm
<1> USE DEF TypeOK, HandlerTypes, DocumentTypes, Calm
<1>1. ASSUME NEW n \in Intents,
              FileIntent(n)
       PROVE  Calm
  BY <1>1
<1>2. ASSUME NEW h \in Handlers, NEW n \in Intents,
              RejectRead(h, n)
       PROVE  Calm
  BY <1>2 DEF Decides
<1>3. ASSUME NEW h \in Handlers, NEW n \in Intents, NEW d \in Deals,
              ApproveRead(h, n, d)
       PROVE  Calm
  BY <1>3 DEF Decides
<1>4. ASSUME NEW h \in Handlers, NEW i \in Investors,
              NEW s \in DOMAIN KycFrom,
              KycRead(h, i, s)
       PROVE  Calm
  <2>1. Elsewhere(h)
    BY <1>4 DEF Elsewhere, KycRead, Goto, Approving, Linking, store, people,
       deals
  <2>2. QED
    BY <2>1
<1>5. ASSUME NEW h \in Handlers, NEW d \in Deals,
              ViewRead(h, d)
       PROVE  Calm
  <2>1. Elsewhere(h)
    BY <1>5 DEF Elsewhere, ViewRead, Goto, Approving, Linking, store,
       people, deals
  <2>2. QED
    BY <2>1
<1>6. ASSUME NEW h \in Handlers, NEW d \in Deals,
              SignRead(h, d)
       PROVE  Calm
  <2>1. Elsewhere(h)
    BY <1>6 DEF Elsewhere, SignRead, Goto, Approving, Linking, store,
       people, deals
  <2>2. QED
    BY <2>1
<1>7. ASSUME NEW h \in Handlers, NEW d \in Deals,
              CancelRead(h, d)
       PROVE  Calm
  <2>1. Elsewhere(h)
    BY <1>7 DEF Elsewhere, CancelRead, Goto, Approving, Linking, store,
       people, deals
  <2>2. QED
    BY <2>1
<1>8. ASSUME NEW h \in Handlers, NEW p \in Payments,
              NEW s \in DOMAIN PaymentFrom,
              PaymentRead(h, p, s)
       PROVE  Calm
  <2>1. Elsewhere(h)
    BY <1>8 DEF Elsewhere, PaymentRead, Goto, Approving, Linking, store,
       people, deals
  <2>2. QED
    BY <2>1
<1>9. ASSUME NEW h \in Handlers,
              ApproveReadKyc(h)
       PROVE  Calm
  BY <1>9 DEF Decides
<1>10. ASSUME NEW h \in Handlers,
              ApproveInsert(h)
       PROVE  Calm
  BY <1>10 DEF Decides
<1>11. ASSUME NEW h \in Handlers,
              ApproveContract(h)
       PROVE  Calm
  BY <1>11 DEF Decides
<1>12. ASSUME NEW h \in Handlers,
              ApproveLink(h)
       PROVE  Calm
  BY <1>12 DEF Decides
<1>13. ASSUME NEW h \in Handlers,
              ApproveClose(h)
       PROVE  Calm
  BY <1>13 DEF Decides
<1>14. ASSUME NEW h \in Handlers,
              RejectWrite(h)
       PROVE  Calm
  BY <1>14 DEF Decides
<1>15. ASSUME NEW h \in Handlers,
              KycWrite(h)
       PROVE  Calm
  <2>1. Elsewhere(h)
    BY <1>15 DEF Elsewhere, KycWrite, Goto, Finish, Approving, Linking,
       store, people, deals
  <2>2. QED
    BY <2>1
<1>16. ASSUME NEW h \in Handlers,
              ViewWrite(h)
       PROVE  Calm
  <2>1. Elsewhere(h)
    BY <1>16 DEF Elsewhere, ViewWrite, Finish, Approving, Linking, store,
       people, deals
  <2>2. QED
    BY <2>1
<1>17. ASSUME NEW h \in Handlers,
              SignInsert(h)
       PROVE  Calm
  <2>1. Elsewhere(h)
    BY <1>17 DEF Elsewhere, SignInsert, Goto, Approving, Linking, store,
       people, deals
  <2>2. QED
    BY <2>1
<1>18. ASSUME NEW h \in Handlers,
              SignWrite(h)
       PROVE  Calm
  <2>1. Elsewhere(h)
    BY <1>18 DEF Elsewhere, SignWrite, Goto, Approving, Linking, store,
       people, deals
  <2>2. QED
    BY <2>1
<1>19. ASSUME NEW h \in Handlers,
              CancelWrite(h)
       PROVE  Calm
  <2>1. Elsewhere(h)
    BY <1>19 DEF Elsewhere, CancelWrite, Goto, Approving, Linking, store,
       people, deals
  <2>2. QED
    BY <2>1
<1>20. ASSUME NEW h \in Handlers,
              CancelReadDeal(h)
       PROVE  Calm
  <2>1. Elsewhere(h)
    BY <1>20 DEF Elsewhere, CancelReadDeal, Goto, Finish, Approving,
       Linking, store, people, deals
  <2>2. QED
    BY <2>1
<1>21. ASSUME NEW h \in Handlers,
              CancelDeal(h)
       PROVE  Calm
  <2>1. Elsewhere(h)
    BY <1>21 DEF Elsewhere, CancelDeal, Finish, SetDeal, Approving, Linking,
       store, people, deals
  <2>2. QED
    BY <2>1
<1>22. ASSUME NEW h \in Handlers,
              PaymentWrite(h)
       PROVE  Calm
  <2>1. Elsewhere(h)
    BY <1>22 DEF Elsewhere, PaymentWrite, Goto, Finish, Approving, Linking,
       store, people, deals
  <2>2. QED
    BY <2>1
<1>23. ASSUME NEW h \in Handlers,
              MoveReadKyc(h)
       PROVE  Calm
  <2>1. Elsewhere(h)
    BY <1>23 DEF Elsewhere, MoveReadKyc, Goto, Approving, Linking, store,
       people, deals
  <2>2. QED
    BY <2>1
<1>24. ASSUME NEW h \in Handlers,
              MoveFind(h)
       PROVE  Calm
  <2>1. Elsewhere(h)
    BY <1>24 DEF Elsewhere, MoveFind, Visit, Approving, Linking, store,
       people, deals
  <2>2. QED
    BY <2>1
<1>25. ASSUME NEW h \in Handlers, NEW d \in Deals,
              MoveWrite(h, d)
       PROVE  Calm
  <2>1. Elsewhere(h)
    BY <1>25 DEF Elsewhere, MoveWrite, Visit, SetDeal, Approving, Linking,
       store, people, deals
  <2>2. QED
    BY <2>1
<1>26. ASSUME NEW h \in Handlers,
              OpenReadKyc(h)
       PROVE  Calm
  <2>1. Elsewhere(h)
    BY <1>26 DEF Elsewhere, OpenReadKyc, Goto, Finish, Approving, Linking,
       store, people, deals
  <2>2. QED
    BY <2>1
<1>27. ASSUME NEW h \in Handlers,
              OpenFind(h)
       PROVE  Calm
  <2>1. Elsewhere(h)
    BY <1>27 DEF Elsewhere, OpenFind, VisitOrFinish, Finish, Approving,
       Linking, store, people, deals
  <2>2. QED
    BY <2>1
<1>28. ASSUME NEW h \in Handlers, NEW d \in Deals,
              OpenReadContract(h, d)
       PROVE  Calm
  <2>1. Elsewhere(h)
    BY <1>28 DEF Elsewhere, OpenReadContract, Goto, VisitOrFinish, Finish,
       Approving, Linking, store, people, deals
  <2>2. QED
    BY <2>1
<1>29. ASSUME NEW h \in Handlers,
              OpenReadExisting(h)
       PROVE  Calm
  <2>1. Elsewhere(h)
    BY <1>29 DEF Elsewhere, OpenReadExisting, Goto, VisitOrFinish, Finish,
       Approving, Linking, store, people, deals
  <2>2. QED
    BY <2>1
<1>30. ASSUME NEW h \in Handlers, NEW p \in Payments,
              OpenInsert(h, p)
       PROVE  Calm
  <2>1. Elsewhere(h)
    BY <1>30 DEF Elsewhere, OpenInsert, Goto, Approving, Linking, store,
       people, deals
  <2>2. QED
    BY <2>1
<1>31. ASSUME NEW h \in Handlers,
              OpenMove(h)
       PROVE  Calm
  <2>1. Elsewhere(h)
    BY <1>31 DEF Elsewhere, OpenMove, VisitOrFinish, Finish, SetDeal,
       Approving, Linking, store, people, deals
  <2>2. QED
    BY <2>1
<1>32. ASSUME NEW h \in Handlers,
              ConfirmCredit(h)
       PROVE  Calm
  <2>1. Elsewhere(h)
    BY <1>32 DEF Elsewhere, ConfirmCredit, Goto, Approving, Linking, store,
       people, deals
  <2>2. QED
    BY <2>1
<1>33. ASSUME NEW h \in Handlers,
              ConfirmActivate(h)
       PROVE  Calm
  <2>1. Elsewhere(h)
    BY <1>33 DEF Elsewhere, ConfirmActivate, Goto, SetDeal, Approving,
       Linking, store, people, deals
  <2>2. QED
    BY <2>1
<1>34. ASSUME NEW h \in Handlers,
              OwnerSum(h)
       PROVE  Calm
  <2>1. Elsewhere(h)
    BY <1>34 DEF Elsewhere, OwnerSum, Goto, Approving, Linking, store,
       people, deals
  <2>2. QED
    BY <2>1
<1>35. ASSUME NEW h \in Handlers,
              OwnerFind(h)
       PROVE  Calm
  <2>1. Elsewhere(h)
    BY <1>35 DEF Elsewhere, OwnerFind, Goto, Approving, Linking, store,
       people, deals
  <2>2. QED
    BY <2>1
<1>36. ASSUME NEW h \in Handlers,
              OwnerWrite(h)
       PROVE  Calm
  <2>1. Elsewhere(h)
    BY <1>36 DEF Elsewhere, OwnerWrite, Goto, Approving, Linking, store,
       people, deals
  <2>2. QED
    BY <2>1
<1>37. ASSUME NEW h \in Handlers,
              AssetSum(h)
       PROVE  Calm
  <2>1. Elsewhere(h)
    BY <1>37 DEF Elsewhere, AssetSum, Goto, Approving, Linking, store,
       people, deals
  <2>2. QED
    BY <2>1
<1>38. ASSUME NEW h \in Handlers,
              AssetWrite(h)
       PROVE  Calm
  <2>1. Elsewhere(h)
    BY <1>38 DEF Elsewhere, AssetWrite, Goto, Approving, Linking, store,
       people, deals
  <2>2. QED
    BY <2>1
<1>39. ASSUME NEW h \in Handlers,
              RoundSum(h)
       PROVE  Calm
  <2>1. Elsewhere(h)
    BY <1>39 DEF Elsewhere, RoundSum, Goto, Approving, Linking, store,
       people, deals
  <2>2. QED
    BY <2>1
<1>40. ASSUME NEW h \in Handlers,
              RoundWrite(h)
       PROVE  Calm
  <2>1. Elsewhere(h)
    BY <1>40 DEF Elsewhere, RoundWrite, Finish, Approving, Linking, store,
       people, deals
  <2>2. QED
    BY <2>1
<1>41. ASSUME NEW h \in Handlers,
              Abort(h)
       PROVE  Calm
  BY <1>41 DEF OneHandler, NoneLost, Abort
<1>42. CASE Restart
  BY <1>42 DEF OneHandler, NoneLost, Restart
<1>43. CASE UNCHANGED vars
  BY <1>43 DEF vars, store, people, deals, local
<1> HIDE DEF TypeOK, HandlerTypes, DocumentTypes, Calm
<1>44. QED
  BY <1>1, <1>2, <1>3, <1>4, <1>5, <1>6, <1>7, <1>8, <1>9, <1>10, <1>11,
     <1>12, <1>13, <1>14, <1>15, <1>16, <1>17, <1>18, <1>19, <1>20, <1>21,
     <1>22, <1>23, <1>24, <1>25, <1>26, <1>27, <1>28, <1>29, <1>30, <1>31,
     <1>32, <1>33, <1>34, <1>35, <1>36, <1>37, <1>38, <1>39, <1>40, <1>41,
     <1>42, <1>43, MatchConfirms
     DEF Next, Arrive, Serve, Gates, Confirm

(* One handler at a time, intents and investments keep to each other.      *)
LEMMA StepIntents ==
  ASSUME OneHandler, SerialInv, [Next]_vars
  PROVE  IntentDeals' /\ IntentKnown' /\ NoneLost'
<1> USE DEF SerialInv, IntentDeals, IntentKnown, NoneLost, Approving, Linking,
            OneHandler
<1>0. /\ TypeOK /\ DocumentTypes /\ HandlerTypes /\ DealKnown
      /\ Calm
  BY StepCalm DEF IInv, TypeOK
<1> USE DEF DocumentTypes, HandlerTypes
<1>1. ASSUME NEW n \in Intents, FileIntent(n)
      PROVE  IntentDeals' /\ IntentKnown' /\ NoneLost'
  BY <1>0, <1>1 DEF FileIntent, deals, local
<1>2. ASSUME NEW h \in Handlers, NEW n \in Intents, RejectRead(h, n)
      PROVE  IntentDeals' /\ IntentKnown' /\ NoneLost'
  BY <1>0, <1>2 DEF RejectRead, Goto, store, people, deals
<1>3. ASSUME NEW h \in Handlers, NEW n \in Intents, NEW d \in Deals,
             ApproveRead(h, n, d)
      PROVE  IntentDeals' /\ IntentKnown' /\ NoneLost'
  BY <1>0, <1>3 DEF ApproveRead, Goto, store, people, deals
<1>4. ASSUME NEW h \in Handlers, ApproveReadKyc(h)
      PROVE  IntentDeals' /\ IntentKnown' /\ NoneLost'
  BY <1>0, <1>4 DEF ApproveReadKyc, Goto, store, people, deals
<1>5. ASSUME NEW h \in Handlers, ApproveInsert(h)
      PROVE  IntentDeals' /\ IntentKnown' /\ NoneLost'
  <2>1. /\ pc[h] = "approve_insert" /\ pc' = [pc EXCEPT ![h] = "approve_contract"]
        /\ at[h] \in Deals /\ arg[h] \in Intents /\ intent[arg[h]] = "submitted"
        /\ deal[at[h]] = "absent"
    BY <1>0, <1>5 DEF ApproveInsert, Goto, DealKnown, Reserving
  <2>2. /\ intentOf' = [intentOf EXCEPT ![at[h]] = arg[h]]
        /\ UNCHANGED <<intent, arg, failures>>
        /\ \E s : s # "absent" /\ deal' = [deal EXCEPT ![at[h]] = s]
    BY <1>5 DEF ApproveInsert, SetDeal, people
  <2>3. \A d \in Deals : intentOf[d] \in Intents =>
          d # at[h] /\ intent[intentOf[d]] = "converted"
    BY <2>1
  <2>4. \A d \in Deals : d # at[h] => intentOf'[d] = intentOf[d]
    BY <1>0, <2>2
  <2>5. intentOf'[at[h]] = arg[h]
    BY <1>0, <2>1, <2>2
  <2>6. pc'[h] = "approve_contract"
    BY <1>0, <2>1
  <2>7. IntentDeals'
    <3>1. \A d \in Deals : intentOf'[d] \in Intents => deal'[d] # "absent"
      BY <1>0, <2>2, <2>3, <2>4
    <3>2. \A d, e \in Deals :
            intentOf'[d] \in Intents /\ intentOf'[d] = intentOf'[e] => d = e
      BY <2>1, <2>3, <2>4, <2>5
    <3>3. \A n \in Intents :
            intent'[n] = "converted" => \E d \in Deals : intentOf'[d] = n
      BY <2>2, <2>3, <2>4
    <3>4. \A d \in Deals : intentOf'[d] \in Intents =>
            \/ intent'[intentOf'[d]] = "converted"
            \/ \E g \in Handlers : pc'[g] \in Linking /\ arg'[g] = intentOf'[d]
      BY <2>2, <2>3, <2>4, <2>5, <2>6
    <3>5. QED
      BY <3>1, <3>2, <3>3, <3>4
  <2>8. IntentKnown' /\ NoneLost'
    BY <2>1, <2>2, <2>5, <2>6
  <2>9. QED
    BY <2>7, <2>8
<1>6. ASSUME NEW h \in Handlers, ApproveContract(h)
      PROVE  IntentDeals' /\ IntentKnown' /\ NoneLost'
  BY <1>0, <1>6 DEF ApproveContract, Goto, people
<1>7. ASSUME NEW h \in Handlers, ApproveLink(h)
      PROVE  IntentDeals' /\ IntentKnown' /\ NoneLost'
  BY <1>0, <1>7 DEF ApproveLink, Goto, people
<1>8. ASSUME NEW h \in Handlers, ApproveClose(h)
      PROVE  IntentDeals' /\ IntentKnown' /\ NoneLost'
  <2>1. /\ pc[h] = "approve_close" /\ pc'[h] = "idle"
        /\ arg[h] \in Intents /\ \E d \in Deals : intentOf[d] = arg[h]
        /\ intent' = [intent EXCEPT ![arg[h]] = "converted"]
        /\ UNCHANGED <<intentOf, deal, failures>>
    BY <1>0, <1>8 DEF ApproveClose, Finish, Forget, DealKnown, deals
  <2>2. /\ intent'[arg[h]] = "converted"
        /\ \A n \in Intents : n # arg[h] => intent'[n] = intent[n]
    BY <1>0, <2>1
  <2>3. QED
    BY <2>1, <2>2
<1>9. ASSUME NEW h \in Handlers, RejectWrite(h)
      PROVE  IntentDeals' /\ IntentKnown' /\ NoneLost'
  <2>1. /\ pc[h] = "reject_write" /\ pc'[h] = "idle"
        /\ arg[h] \in Intents /\ intent[arg[h]] = "submitted"
        /\ intent' = [intent EXCEPT ![arg[h]] = "rejected"]
        /\ UNCHANGED <<intentOf, deal, failures>>
    BY <1>0, <1>9 DEF RejectWrite, Finish, Forget, DealKnown, deals
  <2>2. /\ intent'[arg[h]] = "rejected"
        /\ \A n \in Intents : n # arg[h] => intent'[n] = intent[n]
    BY <1>0, <2>1
  <2>3. \A d \in Deals : intentOf[d] \in Intents =>
          intentOf[d] # arg[h] /\ intent[intentOf[d]] = "converted"
    BY <2>1
  <2>4. QED
    BY <2>1, <2>2, <2>3
<1>10. ASSUME NEW h \in Handlers, Elsewhere(h)
       PROVE  IntentDeals' /\ IntentKnown' /\ NoneLost'
  BY <1>10 DEF Elsewhere
<1>11. ASSUME UNCHANGED <<intent, intentOf, deal, pc, arg, failures>>
       PROVE  IntentDeals' /\ IntentKnown' /\ NoneLost'
  BY <1>11
<1> HIDE DEF SerialInv, IntentDeals, IntentKnown, NoneLost, Approving,
             Linking, OneHandler, DocumentTypes, HandlerTypes
<1>12. QED
  BY <1>0, <1>1, <1>2, <1>3, <1>4, <1>5, <1>6, <1>7, <1>8, <1>9, <1>10, <1>11
     DEF Calm, Decides

LEMMA StepSerialInv ==
  OneHandler /\ SerialInv /\ [Next]_vars => SerialInv'
<1>1. IInv /\ [Next]_vars => IInv'
  BY StepTypeOK, StepStoreOK, StepDealKnown, StepInvestorKnown,
     StepPaymentKnown, StepFunded, StepGates DEF IInv
<1>2. QED
  BY <1>1, StepIntents DEF SerialInv

(* The invariant of every serial behaviour.                                *)
THEOREM SerialInvariant ==
  ASSUME OneHandler
  PROVE  Spec => []SerialInv
BY InitSerialInv, StepSerialInv, PTL DEF Spec

(* At rest a converted intent has become exactly one investment and any    *)
(* other none, when no request overlaps approve_intent and none is lost.   *)
THEOREM OneDealPerIntentAlways ==
  ASSUME OneHandler
  PROVE  Spec => []OneDealPerIntent
<1>1. ASSUME SerialInv, Idle, NEW n \in Intents
      PROVE  Cardinality({d \in Deals : intentOf[d] = n})
               = IF intent[n] = "converted" THEN 1 ELSE 0
  <2> DEFINE S == {d \in Deals : intentOf[d] = n}
  <2>1. \A d, e \in S : d = e
    <3>1. \A d \in S : d \in Deals /\ intentOf[d] = n
      OBVIOUS
    <3>2. QED
      BY <1>1, <3>1 DEF SerialInv, IntentDeals
  <2>2. CASE intent[n] = "converted"
    <3>1. PICK d \in Deals : intentOf[d] = n
      BY <1>1, <2>2 DEF SerialInv, IntentDeals
    <3>2. S = {d}
      BY <2>1, <3>1
    <3>3. Cardinality(S) = 1
      BY <3>2, FS_Singleton
    <3>4. QED
      BY <2>2, <3>3
  <2>3. CASE intent[n] # "converted"
    <3>1. S = {}
      BY <1>1, <2>3 DEF SerialInv, IntentDeals, Idle, Linking
    <3>2. Cardinality(S) = 0
      BY <3>1, FS_EmptySet
    <3>3. QED
      BY <2>3, <3>2
  <2>4. QED
    BY <2>2, <2>3
<1>2. SerialInv => OneDealPerIntent
  BY <1>1 DEF OneDealPerIntent
<1>3. QED
  BY SerialInvariant, <1>2, PTL

-----------------------------------------------------------------------------
(* Sums and gates.  With one handler at a time, what a handler has read of *)
(* a document still holds when it acts on it.                              *)
Gated      == Opening \cup {"move_find", "move_write", "open_find", "open_contract"}
Confirming == {"confirm_credit", "confirm_activate"}
Owning     == {"owner_sum", "owner_find", "owner_write"}
Raising    == Owning \cup {"asset_sum", "asset_write"}
Summing    == Raising \cup {"round_sum", "round_write"}

Held(h) ==
  /\ pc[h] \in Reserving => who[h] = InvestorOf[arg[h]]
  /\ pc[h] = "approve_insert" => (flag[h] <=> kyc[who[h]] = "approved")
  /\ pc[h] = "approve_contract" => contract[at[h]] = "absent"
  /\ pc[h] = "kyc_write" =>
       arg[h] \in DOMAIN KycFrom /\ kyc[who[h]] \in KycFrom[arg[h]]
  /\ pc[h] = "view_write" => contract[at[h]] = "sent"
  /\ pc[h] \in {"sign_insert", "sign_write", "cancel_write"}
       => contract[at[h]] \in Signable
  /\ pc[h] \in {"cancel_read_deal", "cancel_deal"} => contract[at[h]] = "cancelled"
  /\ pc[h] = "cancel_deal" => deal[at[h]] \in Pending
  /\ pc[h] \in Gated => kyc[who[h]] = "approved"
  /\ pc[h] = "move_write" => \A d \in todo[h] : deal[d] = "kyc_pending"
  /\ pc[h] \in Opening \cup {"open_contract"} =>
       \A d \in todo[h] : deal[d] \in Pending
  /\ pc[h] \in Opening => contract[at[h]] = "signed"
  /\ pc[h] \in Paying \cup Owning =>
       at[h] \in Deals /\ who[h] = InvestorOf[intentOf[at[h]]]
  /\ pc[h] = "payment_write" => payment[pay[h]] \in PaymentFrom[arg[h]]
  /\ pc[h] \in Confirming =>
       deal[at[h]] = "awaiting_payment" /\ payment[pay[h]] = "confirmed"
  /\ pc[h] \in Owning => deal[at[h]] = "active"

ReadHolds == \A h \in Handlers : Held(h)

(* An investment has one payment request, once it is past the gates; the   *)
(* request is credited once, and is confirmed when the investment is       *)
(* active.                                                                 *)
Settled == {"awaiting_payment", "active"}

RequestFits ==
  /\ \A p, q \in Payments :
       paysFor[p] \in Deals /\ paysFor[p] = paysFor[q] => p = q
  /\ \A p \in Payments : paysFor[p] \in Deals =>
       /\ \/ deal[paysFor[p]] \in Settled
          \/ \E h \in Handlers : pc[h] = "open_move" /\ at[h] = paysFor[p]
       /\ deal[paysFor[p]] = "active" => payment[p] = "confirmed"
       /\ credits[p] = IF \/ deal[paysFor[p]] = "active"
                          \/ \E h \in Handlers :
                               pc[h] = "confirm_activate" /\ pay[h] = p
                       THEN 1 ELSE 0

(* Ownership rows: one at most, stale from the activation to its writing.  *)
ActiveOf  == [i \in Investors |-> Active(DealsOf(i))]
ActiveAll == Active(Deals)

RowFor(n) == IF n = 0 THEN <<>> ELSE <<n>>

RowsFit ==
  /\ rows = [i \in Investors |-> rows[i]] /\ sum = [h \in Handlers |-> sum[h]]
  /\ \A h \in Handlers :
       /\ pc[h] \in {"owner_find", "owner_write"} => sum[h] = ActiveOf[who[h]]
       /\ pc[h] = "owner_write" => (flag[h] <=> rows[who[h]] # <<>>)
  /\ \A i \in Investors :
       \/ rows[i] = RowFor(ActiveOf[i])
       \/ /\ \E h \in Handlers : pc[h] \in Owning /\ who[h] = i
          /\ rows[i] = <<>> \/ \E n \in Nat : rows[i] = <<n>>

(* The asset and the round, stale from the activation to their writing.    *)
RaisedFits ==
  /\ raised = ActiveAll \/ \E h \in Handlers : pc[h] \in Raising
  /\ round = ActiveAll \/ \E h \in Handlers : pc[h] \in Summing
  /\ \A h \in Handlers :
       pc[h] \in {"asset_write", "round_write"} => sum[h] = ActiveAll

(* The inductive invariant of the sums and gates.                          *)
SumInv == SerialInv /\ ReadHolds /\ RequestFits /\ RowsFit /\ RaisedFits

(* Nothing is written between a reading and the write that relies on it.    *)
LEMMA StepReadHolds ==
  ASSUME OneHandler, SerialInv, ReadHolds, RequestFits, [Next]_vars
  PROVE  ReadHolds'
<1>0. /\ TypeOK /\ DocumentTypes /\ HandlerTypes /\ StoreOK
      /\ DealKnown /\ InvestorKnown /\ PaymentKnown /\ NoneLost
      /\ \A g, h \in Handlers : g = h
      /\ \A h \in Handlers : Held(h)
  BY DEF SerialInv, IInv, TypeOK, OneHandler, ReadHolds
<1> USE DEF DocumentTypes, HandlerTypes, StoreOK, DealKnown, InvestorKnown,
            PaymentKnown, Held, Exists, Reserving, Paying, Opening, OnDeal,
            Walking, Gated, Confirming, Owning
<1>1. ASSUME NEW n \in Intents, FileIntent(n)
      PROVE  \A h \in Handlers : Held(h)'
  BY <1>0, <1>1 DEF FileIntent, deals, money, sums, local
<1>2. ASSUME NEW h \in Handlers, NEW n \in Intents, RejectRead(h, n)
      PROVE  Held(h)'
  BY <1>0, <1>2 DEF RejectRead, Goto, store, people, deals, money, sums
<1>3. ASSUME NEW h \in Handlers, NEW n \in Intents, NEW d \in Deals,
             ApproveRead(h, n, d)
      PROVE  Held(h)'
  BY <1>0, <1>3 DEF ApproveRead, Goto, store, people, deals, money, sums
<1>4. ASSUME NEW h \in Handlers, NEW i \in Investors, NEW s \in
             DOMAIN KycFrom, KycRead(h, i, s)
      PROVE  Held(h)'
  BY <1>0, <1>4 DEF KycRead, Goto, store, people, deals, money, sums
<1>5. ASSUME NEW h \in Handlers, NEW d \in Deals, ViewRead(h, d)
      PROVE  Held(h)'
  BY <1>0, <1>5 DEF ViewRead, Goto, store, people, deals, money, sums
<1>6. ASSUME NEW h \in Handlers, NEW d \in Deals, SignRead(h, d)
      PROVE  Held(h)'
  BY <1>0, <1>6 DEF SignRead, Goto, store, people, deals, money, sums
<1>7. ASSUME NEW h \in Handlers, NEW d \in Deals, CancelRead(h, d)
      PROVE  Held(h)'
  BY <1>0, <1>7 DEF CancelRead, Goto, store, people, deals, money, sums
<1>8. ASSUME NEW h \in Handlers, NEW p \in Payments, NEW s \in
             DOMAIN PaymentFrom, PaymentRead(h, p, s)
      PROVE  Held(h)'
  BY <1>0, <1>8, PaymentFromPresent DEF PaymentRead, Goto, store, people, deals,
     money, sums
<1>9. ASSUME NEW h \in Handlers, ApproveReadKyc(h)
      PROVE  Held(h)'
  <2>1. /\ pc[h] = "approve_kyc" /\ pc'[h] = "approve_insert"
        /\ UNCHANGED <<kyc, who, arg>>
    BY <1>0, <1>9 DEF ApproveReadKyc, Goto, store, people
  <2>2. flag' = [flag EXCEPT ![h] = (kyc[who[h]] = "approved")]
    BY <1>9 DEF ApproveReadKyc
  <2>3. flag'[h] <=> kyc[who[h]] = "approved"
    <3>1. flag \in [Handlers -> BOOLEAN]
      BY <1>0
    <3>2. QED
      BY <2>2, <3>1, Zenon
  <2>4. QED
    BY <1>0, <2>1, <2>3
<1>10. ASSUME NEW h \in Handlers, ApproveInsert(h)
       PROVE  Held(h)'
  BY <1>0, <1>10 DEF ApproveInsert, Goto, SetDeal, people, money, sums
<1>11. ASSUME NEW h \in Handlers, ApproveContract(h)
       PROVE  Held(h)'
  BY <1>0, <1>11 DEF ApproveContract, Goto, people, money, sums
<1>12. ASSUME NEW h \in Handlers, ApproveLink(h)
       PROVE  Held(h)'
  BY <1>0, <1>12 DEF ApproveLink, Goto, people, money, sums
<1>13. ASSUME NEW h \in Handlers, ApproveClose(h)
       PROVE  Held(h)'
  BY <1>0, <1>13 DEF ApproveClose, Finish, Forget, deals, money, sums
<1>14. ASSUME NEW h \in Handlers, RejectWrite(h)
       PROVE  Held(h)'
  BY <1>0, <1>14 DEF RejectWrite, Finish, Forget, deals, money, sums
<1>15. ASSUME NEW h \in Handlers, KycWrite(h)
       PROVE  Held(h)'
  BY <1>0, <1>15 DEF KycWrite, Goto, Finish, Forget, deals, money, sums
<1>16. ASSUME NEW h \in Handlers, ViewWrite(h)
       PROVE  Held(h)'
  BY <1>0, <1>16 DEF ViewWrite, Finish, Forget, people, money, sums
<1>17. ASSUME NEW h \in Handlers, SignInsert(h)
       PROVE  Held(h)'
  BY <1>0, <1>17 DEF SignInsert, Goto, people, money, sums
<1>18. ASSUME NEW h \in Handlers, SignWrite(h)
       PROVE  Held(h)'
  BY <1>0, <1>18 DEF SignWrite, Goto, people, money, sums
<1>19. ASSUME NEW h \in Handlers, CancelWrite(h)
       PROVE  Held(h)'
  BY <1>0, <1>19 DEF CancelWrite, Goto, people, money, sums
<1>20. ASSUME NEW h \in Handlers, CancelReadDeal(h)
       PROVE  Held(h)'
  BY <1>0, <1>20 DEF CancelReadDeal, Goto, Finish, Forget, store, people,
     deals, money, sums
<1>21. ASSUME NEW h \in Handlers, CancelDeal(h)
       PROVE  Held(h)'
  BY <1>0, <1>21 DEF CancelDeal, SetDeal, Finish, Forget, people, money,
     sums
<1>22. ASSUME NEW h \in Handlers, PaymentWrite(h)
       PROVE  Held(h)'
  <2>1. /\ pc[h] = "payment_write" /\ UNCHANGED <<deals, paysFor>>
        /\ pay[h] \in Payments /\ paysFor[pay[h]] = at[h] /\ at[h] \in Deals
        /\ payment[pay[h]] \in PaymentFrom[arg[h]]
    BY <1>0, <1>22 DEF PaymentWrite, Goto, Finish, Forget
  <2>2. CASE arg[h] = "confirmed"
    <3>1. /\ pc'[h] = "confirm_credit" /\ UNCHANGED <<who, at>>
      BY <1>0, <1>22, <2>2 DEF PaymentWrite, Goto
    <3>2. payment[pay[h]] # "confirmed" /\ pc[h] # "open_move"
      BY <2>1, <2>2 DEF PaymentFrom
    <3>3. deal[at[h]] = "awaiting_payment"
      BY <1>0, <2>1, <3>2 DEF RequestFits, Settled
    <3>4. payment'[pay[h]] = "confirmed" /\ pay' = pay
      BY <1>0, <1>22, <2>1, <2>2 DEF PaymentWrite
    <3>5. QED
      BY <1>0, <2>1, <3>1, <3>3, <3>4 DEF deals
  <2>3. CASE arg[h] # "confirmed"
    <3>1. pc'[h] = "idle"
      BY <1>0, <1>22, <2>3 DEF PaymentWrite, Finish
    <3>2. QED
      BY <3>1
  <2>4. QED
    BY <2>2, <2>3
<1>23. ASSUME NEW h \in Handlers, MoveReadKyc(h)
       PROVE  Held(h)'
  BY <1>0, <1>23 DEF MoveReadKyc, Goto, store, people, deals, money, sums
<1>24. ASSUME NEW h \in Handlers, MoveFind(h)
       PROVE  Held(h)'
  BY <1>0, <1>24 DEF MoveFind, Visit, DealsOf, store, people, deals, money,
     sums
<1>25. ASSUME NEW h \in Handlers, NEW d \in Deals, MoveWrite(h, d)
       PROVE  Held(h)'
  BY <1>0, <1>25 DEF MoveWrite, Visit, SetDeal, people, money, sums
<1>26. ASSUME NEW h \in Handlers, OpenReadKyc(h)
       PROVE  Held(h)'
  BY <1>0, <1>26 DEF OpenReadKyc, Goto, Finish, Forget, store, people,
     deals, money, sums
<1>27. ASSUME NEW h \in Handlers, OpenFind(h)
       PROVE  Held(h)'
  BY <1>0, <1>27 DEF OpenFind, VisitOrFinish, DealsOf, Finish, Forget,
     store, people, deals, money, sums
<1>28. ASSUME NEW h \in Handlers, NEW d \in Deals, OpenReadContract(h, d)
       PROVE  Held(h)'
  BY <1>0, <1>28 DEF OpenReadContract, Goto, VisitOrFinish, Finish, Forget,
     store, people, deals, money, sums
<1>29. ASSUME NEW h \in Handlers, OpenReadExisting(h)
       PROVE  Held(h)'
  BY <1>0, <1>29 DEF OpenReadExisting, Goto, VisitOrFinish, Finish, Forget,
     store, people, deals, money, sums
<1>30. ASSUME NEW h \in Handlers, NEW p \in Payments, OpenInsert(h, p)
       PROVE  Held(h)'
  BY <1>0, <1>30 DEF OpenInsert, Goto, people, deals, sums
<1>31. ASSUME NEW h \in Handlers, OpenMove(h)
       PROVE  Held(h)'
  BY <1>0, <1>31 DEF OpenMove, VisitOrFinish, SetDeal, Finish, Forget,
     people, money, sums
<1>32. ASSUME NEW h \in Handlers, ConfirmCredit(h)
       PROVE  Held(h)'
  BY <1>0, <1>32 DEF ConfirmCredit, Goto, people, deals, sums
<1>33. ASSUME NEW h \in Handlers, ConfirmActivate(h)
       PROVE  Held(h)'
  BY <1>0, <1>33 DEF ConfirmActivate, Goto, SetDeal, people, money, sums
<1>34. ASSUME NEW h \in Handlers, OwnerSum(h)
       PROVE  Held(h)'
  BY <1>0, <1>34 DEF OwnerSum, Goto, DealsOf, store, people, deals, money,
     sums
<1>35. ASSUME NEW h \in Handlers, OwnerFind(h)
       PROVE  Held(h)'
  BY <1>0, <1>35 DEF OwnerFind, Goto, store, people, deals, money, sums
<1>36. ASSUME NEW h \in Handlers, OwnerWrite(h)
       PROVE  Held(h)'
  BY <1>0, <1>36 DEF OwnerWrite, Goto, people, deals, money
<1>37. ASSUME NEW h \in Handlers, AssetSum(h)
       PROVE  Held(h)'
  BY <1>0, <1>37 DEF AssetSum, Goto, store, people, deals, money, sums
<1>38. ASSUME NEW h \in Handlers, AssetWrite(h)
       PROVE  Held(h)'
  BY <1>0, <1>38 DEF AssetWrite, Goto, people, deals, money
<1>39. ASSUME NEW h \in Handlers, RoundSum(h)
       PROVE  Held(h)'
  BY <1>0, <1>39 DEF RoundSum, Goto, store, people, deals, money, sums
<1>40. ASSUME NEW h \in Handlers, RoundWrite(h)
       PROVE  Held(h)'
  BY <1>0, <1>40 DEF RoundWrite, Finish, Forget, people, deals, money
<1>41. ASSUME NEW h \in Handlers, Abort(h)
       PROVE  Held(h)'
  BY <1>0, <1>41 DEF Abort, OneHandler, NoneLost
<1>42. CASE Restart
  BY <1>0, <1>42 DEF Restart, OneHandler, NoneLost
<1>43. CASE UNCHANGED vars
  BY <1>0, <1>43 DEF vars, store, people, deals, money, sums, local, ReadHolds
<1> HIDE DEF DocumentTypes, HandlerTypes, StoreOK, DealKnown, InvestorKnown,
             PaymentKnown, Held, Exists, Reserving, Paying, Opening, OnDeal,
             Walking, Gated, Confirming, Owning
<1> QED
  BY <1>0, <1>1, <1>2, <1>3, <1>4, <1>5, <1>6, <1>7, <1>8, <1>9, <1>10,
     <1>11, <1>12, <1>13, <1>14, <1>15, <1>16, <1>17, <1>18, <1>19, <1>20,
     <1>21, <1>22, <1>23, <1>24, <1>25, <1>26, <1>27, <1>28, <1>29, <1>30,
     <1>31, <1>32, <1>33, <1>34, <1>35, <1>36, <1>37, <1>38, <1>39, <1>40,
     <1>41, <1>42, <1>43, MatchConfirms
     DEF Next, Arrive, Serve, Gates, Confirm, ReadHolds

(* An investment that asks for payment has passed the gates for good, and  *)
(* an active one is not confirmed again.                                   *)
LEMMA StepRequestFits ==
  ASSUME OneHandler, SerialInv, ReadHolds, RequestFits, [Next]_vars
  PROVE  RequestFits'
<1>0. /\ TypeOK /\ DocumentTypes /\ HandlerTypes /\ StoreOK
      /\ DealKnown /\ InvestorKnown /\ PaymentKnown /\ NoneLost
      /\ \A g, h \in Handlers : g = h
      /\ \A h \in Handlers : Held(h)
  BY DEF SerialInv, IInv, TypeOK, OneHandler, ReadHolds
<1>a. ASSUME NEW h \in Handlers, UNCHANGED <<paysFor, payment, credits>>,
             pc[h] \notin {"open_move", "confirm_activate"},
             pc'[h] \notin {"open_move", "confirm_activate"},
             \A d \in Deals : deal[d] \in Settled => deal'[d] = deal[d]
      PROVE  RequestFits'
  BY <1>0, <1>a DEF RequestFits, Settled
<1>1. ASSUME NEW n \in Intents, FileIntent(n)
      PROVE  RequestFits'
  BY <1>1 DEF FileIntent, RequestFits, deals, money, local
<1>2. ASSUME NEW h \in Handlers, NEW n \in Intents, RejectRead(h, n)
      PROVE  RequestFits'
  BY <1>0, <1>a, <1>2 DEF RejectRead, Goto, store, deals, money,
     HandlerTypes
<1>3. ASSUME NEW h \in Handlers, NEW n \in Intents, NEW d \in Deals,
             ApproveRead(h, n, d)
      PROVE  RequestFits'
  BY <1>0, <1>a, <1>3 DEF ApproveRead, Goto, store, deals, money,
     HandlerTypes
<1>4. ASSUME NEW h \in Handlers, NEW i \in Investors, NEW s \in
             DOMAIN KycFrom, KycRead(h, i, s)
      PROVE  RequestFits'
  BY <1>0, <1>a, <1>4 DEF KycRead, Goto, store, deals, money, HandlerTypes
<1>5. ASSUME NEW h \in Handlers, NEW d \in Deals, ViewRead(h, d)
      PROVE  RequestFits'
  BY <1>0, <1>a, <1>5 DEF ViewRead, Goto, store, deals, money, HandlerTypes
<1>6. ASSUME NEW h \in Handlers, NEW d \in Deals, SignRead(h, d)
      PROVE  RequestFits'
  BY <1>0, <1>a, <1>6 DEF SignRead, Goto, store, deals, money, HandlerTypes
<1>7. ASSUME NEW h \in Handlers, NEW d \in Deals, CancelRead(h, d)
      PROVE  RequestFits'
  BY <1>0, <1>a, <1>7 DEF CancelRead, Goto, store, deals, money,
     HandlerTypes
<1>8. ASSUME NEW h \in Handlers, NEW p \in Payments, NEW s \in
             DOMAIN PaymentFrom, PaymentRead(h, p, s)
      PROVE  RequestFits'
  BY <1>0, <1>a, <1>8 DEF PaymentRead, Goto, store, deals, money,
     HandlerTypes
<1>9. ASSUME NEW h \in Handlers, ApproveReadKyc(h)
      PROVE  RequestFits'
  BY <1>0, <1>a, <1>9 DEF ApproveReadKyc, Goto, store, deals, money,
     HandlerTypes
<1>10. ASSUME NEW h \in Handlers, ApproveInsert(h)
       PROVE  RequestFits'
  BY <1>0, <1>a, <1>10 DEF ApproveInsert, Goto, SetDeal, money,
     HandlerTypes, DocumentTypes, DealKnown, Reserving, Settled
<1>11. ASSUME NEW h \in Handlers, ApproveContract(h)
       PROVE  RequestFits'
  BY <1>0, <1>a, <1>11 DEF ApproveContract, Goto, money, HandlerTypes
<1>12. ASSUME NEW h \in Handlers, ApproveLink(h)
       PROVE  RequestFits'
  BY <1>0, <1>a, <1>12 DEF ApproveLink, Goto, money, HandlerTypes
<1>13. ASSUME NEW h \in Handlers, ApproveClose(h)
       PROVE  RequestFits'
  BY <1>0, <1>a, <1>13 DEF ApproveClose, Finish, deals, money, HandlerTypes
<1>14. ASSUME NEW h \in Handlers, RejectWrite(h)
       PROVE  RequestFits'
  BY <1>0, <1>a, <1>14 DEF RejectWrite, Finish, deals, money, HandlerTypes
<1>15. ASSUME NEW h \in Handlers, KycWrite(h)
       PROVE  RequestFits'
  BY <1>0, <1>a, <1>15 DEF KycWrite, Goto, Finish, deals, money,
     HandlerTypes
<1>16. ASSUME NEW h \in Handlers, ViewWrite(h)
       PROVE  RequestFits'
  BY <1>0, <1>a, <1>16 DEF ViewWrite, Finish, money, HandlerTypes
<1>17. ASSUME NEW h \in Handlers, SignInsert(h)
       PROVE  RequestFits'
  BY <1>0, <1>a, <1>17 DEF SignInsert, Goto, money, HandlerTypes
<1>18. ASSUME NEW h \in Handlers, SignWrite(h)
       PROVE  RequestFits'
  BY <1>0, <1>a, <1>18 DEF SignWrite, Goto, money, HandlerTypes
<1>19. ASSUME NEW h \in Handlers, CancelWrite(h)
       PROVE  RequestFits'
  BY <1>0, <1>a, <1>19 DEF CancelWrite, Goto, money, HandlerTypes
<1>20. ASSUME NEW h \in Handlers, CancelReadDeal(h)
       PROVE  RequestFits'
  BY <1>0, <1>a, <1>20 DEF CancelReadDeal, Goto, Finish, store, deals,
     money, HandlerTypes
<1>21. ASSUME NEW h \in Handlers, CancelDeal(h)
       PROVE  RequestFits'
  BY <1>0, <1>a, <1>21 DEF CancelDeal, SetDeal, Finish, money,
     HandlerTypes, DocumentTypes, Held, Pending, DealKnown, OnDeal, Exists,
     Settled
<1>22. ASSUME NEW h \in Handlers, PaymentWrite(h)
       PROVE  RequestFits'
  <2>1. /\ pc[h] = "payment_write" /\ pay[h] \in Payments
        /\ payment[pay[h]] # "confirmed"
    BY <1>0, <1>22 DEF PaymentWrite, Held, PaymentFrom, PaymentKnown, Paying
  <2>2. /\ UNCHANGED <<paysFor, credits, deal>> /\ pc'[h] \in {"confirm_credit", "idle"}
        /\ payment' = [payment EXCEPT ![pay[h]] = arg[h]]
    BY <1>0, <1>22 DEF PaymentWrite, Goto, Finish, deals, HandlerTypes
  <2>3. \A p \in Payments : payment[p] = "confirmed" => payment'[p] = "confirmed"
    BY <1>0, <2>1, <2>2 DEF DocumentTypes
  <2>4. QED
    BY <1>0, <2>1, <2>2, <2>3 DEF RequestFits
<1>23. ASSUME NEW h \in Handlers, MoveReadKyc(h)
       PROVE  RequestFits'
  BY <1>0, <1>a, <1>23 DEF MoveReadKyc, Goto, store, deals, money,
     HandlerTypes
<1>24. ASSUME NEW h \in Handlers, MoveFind(h)
       PROVE  RequestFits'
  BY <1>0, <1>a, <1>24 DEF MoveFind, Visit, store, deals, money,
     HandlerTypes
<1>25. ASSUME NEW h \in Handlers, NEW d \in Deals, MoveWrite(h, d)
       PROVE  RequestFits'
  BY <1>0, <1>a, <1>25 DEF MoveWrite, Visit, SetDeal, money, HandlerTypes,
     DocumentTypes, Held, Settled
<1>26. ASSUME NEW h \in Handlers, OpenReadKyc(h)
       PROVE  RequestFits'
  BY <1>0, <1>a, <1>26 DEF OpenReadKyc, Goto, Finish, store, deals, money,
     HandlerTypes
<1>27. ASSUME NEW h \in Handlers, OpenFind(h)
       PROVE  RequestFits'
  BY <1>0, <1>a, <1>27 DEF OpenFind, VisitOrFinish, Finish, store, deals,
     money, HandlerTypes
<1>28. ASSUME NEW h \in Handlers, NEW d \in Deals, OpenReadContract(h, d)
       PROVE  RequestFits'
  BY <1>0, <1>a, <1>28 DEF OpenReadContract, Goto, VisitOrFinish, Finish,
     store, deals, money, HandlerTypes
<1>29. ASSUME NEW h \in Handlers, OpenReadExisting(h)
       PROVE  RequestFits'
  BY <1>0, <1>a, <1>29 DEF OpenReadExisting, Goto, VisitOrFinish, Finish,
     store, deals, money, HandlerTypes
<1>30. ASSUME NEW h \in Handlers, NEW p \in Payments, OpenInsert(h, p)
       PROVE  RequestFits'
  <2>1. /\ pc[h] = "open_insert" /\ pc'[h] = "open_move" /\ UNCHANGED <<deal, credits, at>>
        /\ at[h] \in Deals /\ deal[at[h]] \in Pending
    BY <1>0, <1>30 DEF OpenInsert, Goto, Held, InvestorKnown, DealKnown, Opening,
       OnDeal, Exists, HandlerTypes, deals
  <2>2. \A q \in Payments : paysFor[q] # at[h]
    BY <1>0, <2>1 DEF RequestFits, Settled, Pending
  <2>3. /\ paysFor'[p] = at[h] /\ payment'[p] = "awaiting_payment" /\ credits[p] = 0
        /\ \A q \in Payments \ {p} : paysFor'[q] = paysFor[q] /\ payment'[q] = payment[q]
    BY <1>0, <1>30 DEF OpenInsert, StoreOK, DocumentTypes
  <2>4. QED
    BY <1>0, <2>1, <2>2, <2>3 DEF RequestFits, Settled, Pending
<1>31. ASSUME NEW h \in Handlers, OpenMove(h)
       PROVE  RequestFits'
  <2>1. /\ pc[h] = "open_move" /\ pc'[h] \in {"idle", "open_contract"}
        /\ at[h] \in Deals /\ deal[at[h]] \in Pending
    BY <1>0, <1>31 DEF OpenMove, VisitOrFinish, Finish, Held, InvestorKnown,
       DealKnown, Opening, OnDeal, Exists, HandlerTypes
  <2>2. /\ UNCHANGED <<paysFor, payment, credits>>
        /\ deal' = [deal EXCEPT ![at[h]] = "awaiting_payment"]
    BY <1>31 DEF OpenMove, SetDeal, money
  <2>3. /\ deal'[at[h]] = "awaiting_payment"
        /\ \A d \in Deals \ {at[h]} : deal'[d] = deal[d]
    BY <1>0, <2>1, <2>2 DEF DocumentTypes
  <2>4. QED
    BY <1>0, <2>1, <2>2, <2>3 DEF RequestFits, Settled, Pending
<1>32. ASSUME NEW h \in Handlers, ConfirmCredit(h)
       PROVE  RequestFits'
  <2>1. /\ pc[h] = "confirm_credit" /\ pc'[h] = "confirm_activate"
        /\ pay[h] \in Payments /\ paysFor[pay[h]] = at[h] /\ at[h] \in Deals
        /\ deal[at[h]] = "awaiting_payment"
    BY <1>0, <1>32 DEF ConfirmCredit, Goto, Held, PaymentKnown, Paying,
       Confirming, HandlerTypes
  <2>2. /\ UNCHANGED <<paysFor, payment, deal, pay>>
        /\ credits' = [credits EXCEPT ![pay[h]] = @ + 1]
    BY <1>32 DEF ConfirmCredit, deals
  <2>3. credits[pay[h]] = 0
    BY <1>0, <2>1 DEF RequestFits
  <2>4. /\ credits'[pay[h]] = 1
        /\ \A p \in Payments \ {pay[h]} : credits'[p] = credits[p]
    BY <1>0, <2>1, <2>2, <2>3 DEF DocumentTypes
  <2>5. QED
    BY <1>0, <2>1, <2>2, <2>4 DEF RequestFits
<1>33. ASSUME NEW h \in Handlers, ConfirmActivate(h)
       PROVE  RequestFits'
  <2>1. /\ pc[h] = "confirm_activate" /\ pc'[h] = "owner_sum"
        /\ pay[h] \in Payments /\ paysFor[pay[h]] = at[h] /\ at[h] \in Deals
        /\ payment[pay[h]] = "confirmed"
    BY <1>0, <1>33 DEF ConfirmActivate, Goto, Held, PaymentKnown, Paying,
       Confirming, HandlerTypes
  <2>2. /\ UNCHANGED <<paysFor, payment, credits>>
        /\ deal' = [deal EXCEPT ![at[h]] = "active"]
    BY <1>33 DEF ConfirmActivate, SetDeal, money
  <2>3. /\ deal'[at[h]] = "active"
        /\ \A d \in Deals \ {at[h]} : deal'[d] = deal[d]
    BY <1>0, <2>1, <2>2 DEF DocumentTypes
  <2>4. \A p \in Payments : paysFor[p] = at[h] => p = pay[h]
    BY <2>1 DEF RequestFits
  <2>5. QED
    BY <1>0, <2>1, <2>2, <2>3, <2>4 DEF RequestFits, Settled
<1>34. ASSUME NEW h \in Handlers, OwnerSum(h)
       PROVE  RequestFits'
  BY <1>0, <1>a, <1>34 DEF OwnerSum, Goto, store, deals, money,
     HandlerTypes
<1>35. ASSUME NEW h \in Handlers, OwnerFind(h)
       PROVE  RequestFits'
  BY <1>0, <1>a, <1>35 DEF OwnerFind, Goto, store, deals, money,
     HandlerTypes
<1>36. ASSUME NEW h \in Handlers, OwnerWrite(h)
       PROVE  RequestFits'
  BY <1>0, <1>a, <1>36 DEF OwnerWrite, Goto, deals, money, HandlerTypes
<1>37. ASSUME NEW h \in Handlers, AssetSum(h)
       PROVE  RequestFits'
  BY <1>0, <1>a, <1>37 DEF AssetSum, Goto, store, deals, money,
     HandlerTypes
<1>38. ASSUME NEW h \in Handlers, AssetWrite(h)
       PROVE  RequestFits'
  BY <1>0, <1>a, <1>38 DEF AssetWrite, Goto, deals, money, HandlerTypes
<1>39. ASSUME NEW h \in Handlers, RoundSum(h)
       PROVE  RequestFits'
  BY <1>0, <1>a, <1>39 DEF RoundSum, Goto, store, deals, money,
     HandlerTypes
<1>40. ASSUME NEW h \in Handlers, RoundWrite(h)
       PROVE  RequestFits'
  BY <1>0, <1>a, <1>40 DEF RoundWrite, Finish, deals, money, HandlerTypes
<1>41. ASSUME NEW h \in Handlers, Abort(h)
       PROVE  RequestFits'
  BY <1>0, <1>41 DEF Abort, OneHandler, NoneLost
<1>42. CASE Restart
  BY <1>0, <1>42 DEF Restart, OneHandler, NoneLost
<1>43. CASE UNCHANGED vars
  BY <1>43 DEF vars, store, deals, money, local, RequestFits
<1> QED
  BY <1>1, <1>2, <1>3, <1>4, <1>5, <1>6, <1>7, <1>8, <1>9, <1>10, <1>11,
     <1>12, <1>13, <1>14, <1>15, <1>16, <1>17, <1>18, <1>19, <1>20, <1>21,
     <1>22, <1>23, <1>24, <1>25, <1>26, <1>27, <1>28, <1>29, <1>30, <1>31,
     <1>32, <1>33, <1>34, <1>35, <1>36, <1>37, <1>38, <1>39, <1>40, <1>41,
     <1>42, <1>43, MatchConfirms
     DEF Next, Arrive, Serve, Gates, Confirm

(* A request is the only one of its investment, so its credits are the     *)
(* funding of the investment.                                              *)
LEMMA FundingIs ==
  ASSUME IInv, RequestFits, NEW d \in Deals
  PROVE  Funding(d) = IF \/ deal[d] = "active"
                         \/ \E h \in Handlers : pc[h] = "confirm_activate" /\ at[h] = d
                      THEN 1 ELSE 0
<1>1. \A h \in Handlers : pc[h] = "confirm_activate" =>
        pay[h] \in Payments /\ paysFor[pay[h]] = at[h]
  BY DEF IInv, PaymentKnown, Paying
<1>2. CASE \E p \in Payments : paysFor[p] = d
  <2>1. PICK p \in Payments : paysFor[p] = d
    BY <1>2
  <2>2. \A q \in Payments : paysFor[q] = d => q = p
    BY <2>1 DEF RequestFits
  <2>3. {q \in Payments : paysFor[q] = d} = {p}
    BY <2>1, <2>2
  <2>4. credits[p] \in Int
    BY DEF IInv, TypeOK, DocumentTypes
  <2>5. Funding(d) = credits[p]
    BY <2>3, <2>4, SumSingle DEF Funding
  <2>6. (\E h \in Handlers : pc[h] = "confirm_activate" /\ pay[h] = p)
          <=> \E h \in Handlers : pc[h] = "confirm_activate" /\ at[h] = d
    BY <1>1, <2>1, <2>2
  <2>7. QED
    BY <2>1, <2>5, <2>6 DEF RequestFits
<1>3. CASE ~ \E p \in Payments : paysFor[p] = d
  <2>1. {q \in Payments : paysFor[q] = d} = {}
    BY <1>3
  <2>2. Funding(d) = 0
    BY <2>1, SumEmpty DEF Funding
  <2>3. deal[d] # "active"
    BY <1>3 DEF IInv, ActiveIsFunded
  <2>4. QED
    BY <1>1, <1>3, <2>2, <2>3
<1> QED
  BY <1>2, <1>3

(* An investor's active investments are worth something.                   *)
LEMMA ActiveTypes ==
  ASSUME IInv
  PROVE  /\ \A i \in Investors : ActiveOf[i] \in Nat
         /\ \A d \in Deals : deal[d] = "active" => ActiveOf[InvestorOf[intentOf[d]]] # 0
         /\ \A d \in Deals : deal[d] = "active" => InvestorOf[intentOf[d]] \in Investors
<1> DEFINE F == [d \in Deals |-> AmountOfDeal(d)]
           Live(i) == {d \in DealsOf(i) : deal[d] = "active"}
<1>1. \A d \in Deals : deal[d] = "active" => intentOf[d] \in Intents
  BY DEF IInv, StoreOK
<1>2. \A d \in Deals : deal[d] = "active" => F[d] \in Nat \ {0}
  BY <1>1 DEF AmountOfDeal
<1>3. ASSUME NEW i \in Investors
      PROVE  Live(i) \in SUBSET Deals /\ IsFiniteSet(Live(i))
               /\ \A d \in Live(i) : F[d] \in Nat \ {0}
  <2>1. Live(i) \in SUBSET Deals
    BY DEF DealsOf
  <2>2. QED
    BY <1>2, <2>1, FS_Subset
<1>4. \A i \in Investors : ActiveOf[i] = SumFunctionOnSet(F, Live(i))
  BY DEF ActiveOf, Active
<1> HIDE DEF F
<1>5. ASSUME NEW i \in Investors
      PROVE  ActiveOf[i] \in Nat
  <2>1. IsFiniteSet(Live(i)) /\ \A d \in Live(i) : F[d] \in Nat
    BY <1>3
  <2> HIDE DEF Live
  <2>2. QED
    BY <1>4, <2>1, SumNat
<1>6. ASSUME NEW d \in Deals, deal[d] = "active"
      PROVE  ActiveOf[InvestorOf[intentOf[d]]] # 0
               /\ InvestorOf[intentOf[d]] \in Investors
  <2>1. PICK i \in Investors : i = InvestorOf[intentOf[d]]
    BY <1>1, <1>6
  <2>2. d \in Live(i)
    BY <1>6, <2>1 DEF DealsOf
  <2>3. F[d] <= SumFunctionOnSet(F, Live(i)) /\ F[d] \in Nat \ {0}
    BY <1>3, <2>2, SumCovers
  <2>4. QED
    BY <1>4, <1>5, <2>1, <2>3
<1> QED
  BY <1>5, <1>6

(* Sums change only with the investments that are active.                  *)
SameActive ==
  \A d \in Deals :
    /\ deal'[d] = "active" <=> deal[d] = "active"
    /\ deal[d] = "active" => intentOf'[d] = intentOf[d]

LEMMA SameSums ==
  ASSUME SameActive
  PROVE  ActiveOf' = ActiveOf /\ ActiveAll' = ActiveAll
<1> DEFINE F == [d \in Deals |-> AmountOfDeal(d)]
           G == [d \in Deals |-> AmountOf[intentOf'[d]]]
           Live(i) == {d \in DealsOf(i) : deal[d] = "active"}
<1>1. \A d \in Deals : deal[d] = "active" => F[d] = G[d]
  BY DEF SameActive, AmountOfDeal
<1>2. ASSUME NEW S \in SUBSET Deals, \A d \in S : deal[d] = "active"
      PROVE  SumFunctionOnSet(G, S) = SumFunctionOnSet(F, S)
  <2>1. IsFiniteSet(S) /\ \A d \in S : F[d] = G[d]
    BY <1>1, <1>2, FS_Subset
  <2> HIDE DEF F, G
  <2>2. QED
    BY <2>1, SumAgree
<1>3. ASSUME NEW i \in Investors
      PROVE  Active(DealsOf(i))' = Active(DealsOf(i))
  <2>1. {d \in DealsOf(i) : deal[d] = "active"}' = Live(i)
    BY DEF SameActive, DealsOf
  <2>2. Live(i) \in SUBSET Deals /\ \A d \in Live(i) : deal[d] = "active"
    BY DEF DealsOf
  <2>3. Active(DealsOf(i))' = SumFunctionOnSet(G, Live(i))
    BY <2>1 DEF Active, AmountOfDeal
  <2>4. Active(DealsOf(i)) = SumFunctionOnSet(F, Live(i))
    BY DEF Active
  <2> HIDE DEF F, G, Live
  <2>5. QED
    BY <1>2, <2>2, <2>3, <2>4
<1>4. ActiveAll' = ActiveAll
  <2> DEFINE A == {d \in Deals : deal[d] = "active"}
  <2>1. {d \in Deals : deal'[d] = "active"} = A
    BY DEF SameActive
  <2>2. ActiveAll' = SumFunctionOnSet(G, A)
    BY <2>1 DEF ActiveAll, Active, AmountOfDeal
  <2>3. ActiveAll = SumFunctionOnSet(F, A)
    BY DEF ActiveAll, Active
  <2>4. A \in SUBSET Deals /\ \A d \in A : deal[d] = "active"
    OBVIOUS
  <2> HIDE DEF F, G, A
  <2>5. QED
    BY <1>2, <2>2, <2>3, <2>4
<1> QED
  BY <1>3, <1>4 DEF ActiveOf

(* Steps that neither change nor recompute the sums.                       *)
Quiet(h) ==
  /\ UNCHANGED <<rows, raised, round>> /\ SameActive
  /\ pc[h] \notin Summing /\ pc'[h] \notin Summing
  /\ sum' = sum \/ sum' = [sum EXCEPT ![h] = 0]

Recomputes(h) ==
  \/ ConfirmActivate(h) \/ OwnerSum(h) \/ OwnerFind(h) \/ OwnerWrite(h)
  \/ AssetSum(h) \/ AssetWrite(h) \/ RoundSum(h) \/ RoundWrite(h)

Summed ==
  \/ UNCHANGED <<deal, intentOf, sums, pc, who, flag, sum>>
  \/ \E h \in Handlers : Quiet(h) \/ Recomputes(h)

(* Every serial step is one of these.                                      *)
LEMMA StepSummed ==
  ASSUME OneHandler, SerialInv, ReadHolds, [Next]_vars
  PROVE  Summed
<1>0. /\ DocumentTypes /\ HandlerTypes /\ DealKnown /\ InvestorKnown /\ NoneLost
      /\ \A h \in Handlers : Held(h)
  BY DEF SerialInv, IInv, TypeOK, ReadHolds
<1>1. ASSUME NEW n \in Intents, FileIntent(n)
      PROVE  Summed
  BY <1>1 DEF FileIntent, Summed, deals, money, local
<1>2. ASSUME NEW h \in Handlers, NEW n \in Intents, RejectRead(h, n)
      PROVE  Summed
  <2>1. Quiet(h)
    BY <1>0, <1>2 DEF RejectRead, Goto, store, deals, sums, Quiet,
       SameActive, HandlerTypes, Summing, Raising, Owning
  <2>2. QED
    BY <2>1 DEF Summed
<1>3. ASSUME NEW h \in Handlers, NEW n \in Intents, NEW d \in Deals,
             ApproveRead(h, n, d)
      PROVE  Summed
  <2>1. Quiet(h)
    BY <1>0, <1>3 DEF ApproveRead, Goto, store, deals, sums, Quiet,
       SameActive, HandlerTypes, Summing, Raising, Owning
  <2>2. QED
    BY <2>1 DEF Summed
<1>4. ASSUME NEW h \in Handlers, NEW i \in Investors, NEW s \in
             DOMAIN KycFrom, KycRead(h, i, s)
      PROVE  Summed
  <2>1. Quiet(h)
    BY <1>0, <1>4 DEF KycRead, Goto, store, deals, sums, Quiet,
       SameActive, HandlerTypes, Summing, Raising, Owning
  <2>2. QED
    BY <2>1 DEF Summed
<1>5. ASSUME NEW h \in Handlers, NEW d \in Deals, ViewRead(h, d)
      PROVE  Summed
  <2>1. Quiet(h)
    BY <1>0, <1>5 DEF ViewRead, Goto, store, deals, sums, Quiet,
       SameActive, HandlerTypes, Summing, Raising, Owning
  <2>2. QED
    BY <2>1 DEF Summed
<1>6. ASSUME NEW h \in Handlers, NEW d \in Deals, SignRead(h, d)
      PROVE  Summed
  <2>1. Quiet(h)
    BY <1>0, <1>6 DEF SignRead, Goto, store, deals, sums, Quiet,
       SameActive, HandlerTypes, Summing, Raising, Owning
  <2>2. QED
    BY <2>1 DEF Summed
<1>7. ASSUME NEW h \in Handlers, NEW d \in Deals, CancelRead(h, d)
      PROVE  Summed
  <2>1. Quiet(h)
    BY <1>0, <1>7 DEF CancelRead, Goto, store, deals, sums, Quiet,
       SameActive, HandlerTypes, Summing, Raising, Owning
  <2>2. QED
    BY <2>1 DEF Summed
<1>8. ASSUME NEW h \in Handlers, NEW p \in Payments, NEW s \in
             DOMAIN PaymentFrom, PaymentRead(h, p, s)
      PROVE  Summed
  <2>1. Quiet(h)
    BY <1>0, <1>8 DEF PaymentRead, Goto, store, deals, sums, Quiet,
       SameActive, HandlerTypes, Summing, Raising, Owning
  <2>2. QED
    BY <2>1 DEF Summed
<1>9. ASSUME NEW h \in Handlers, ApproveReadKyc(h)
      PROVE  Summed
  <2>1. Quiet(h)
    BY <1>0, <1>9 DEF ApproveReadKyc, Goto, store, deals, sums, Quiet,
       SameActive, HandlerTypes, Summing, Raising, Owning
  <2>2. QED
    BY <2>1 DEF Summed
<1>10. ASSUME NEW h \in Handlers, ApproveInsert(h)
       PROVE  Summed
  <2>1. Quiet(h)
    BY <1>0, <1>10 DEF ApproveInsert, Goto, SetDeal, sums, Quiet,
       SameActive, HandlerTypes, Summing, Raising, Owning, DocumentTypes,
       DealKnown, Reserving
  <2>2. QED
    BY <2>1 DEF Summed
<1>11. ASSUME NEW h \in Handlers, ApproveContract(h)
       PROVE  Summed
  <2>1. Quiet(h)
    BY <1>0, <1>11 DEF ApproveContract, Goto, sums, Quiet, SameActive,
       HandlerTypes, Summing, Raising, Owning
  <2>2. QED
    BY <2>1 DEF Summed
<1>12. ASSUME NEW h \in Handlers, ApproveLink(h)
       PROVE  Summed
  <2>1. Quiet(h)
    BY <1>0, <1>12 DEF ApproveLink, Goto, sums, Quiet, SameActive,
       HandlerTypes, Summing, Raising, Owning
  <2>2. QED
    BY <2>1 DEF Summed
<1>13. ASSUME NEW h \in Handlers, ApproveClose(h)
       PROVE  Summed
  <2>1. Quiet(h)
    BY <1>0, <1>13 DEF ApproveClose, Finish, Forget, deals, sums, Quiet,
       SameActive, HandlerTypes, Summing, Raising, Owning
  <2>2. QED
    BY <2>1 DEF Summed
<1>14. ASSUME NEW h \in Handlers, RejectWrite(h)
       PROVE  Summed
  <2>1. Quiet(h)
    BY <1>0, <1>14 DEF RejectWrite, Finish, Forget, deals, sums, Quiet,
       SameActive, HandlerTypes, Summing, Raising, Owning
  <2>2. QED
    BY <2>1 DEF Summed
<1>15. ASSUME NEW h \in Handlers, KycWrite(h)
       PROVE  Summed
  <2>1. Quiet(h)
    BY <1>0, <1>15 DEF KycWrite, Goto, Finish, Forget, deals, sums,
       Quiet, SameActive, HandlerTypes, Summing, Raising, Owning
  <2>2. QED
    BY <2>1 DEF Summed
<1>16. ASSUME NEW h \in Handlers, ViewWrite(h)
       PROVE  Summed
  <2>1. Quiet(h)
    BY <1>0, <1>16 DEF ViewWrite, Finish, Forget, sums, Quiet,
       SameActive, HandlerTypes, Summing, Raising, Owning
  <2>2. QED
    BY <2>1 DEF Summed
<1>17. ASSUME NEW h \in Handlers, SignInsert(h)
       PROVE  Summed
  <2>1. Quiet(h)
    BY <1>0, <1>17 DEF SignInsert, Goto, sums, Quiet, SameActive,
       HandlerTypes, Summing, Raising, Owning
  <2>2. QED
    BY <2>1 DEF Summed
<1>18. ASSUME NEW h \in Handlers, SignWrite(h)
       PROVE  Summed
  <2>1. Quiet(h)
    BY <1>0, <1>18 DEF SignWrite, Goto, sums, Quiet, SameActive,
       HandlerTypes, Summing, Raising, Owning
  <2>2. QED
    BY <2>1 DEF Summed
<1>19. ASSUME NEW h \in Handlers, CancelWrite(h)
       PROVE  Summed
  <2>1. Quiet(h)
    BY <1>0, <1>19 DEF CancelWrite, Goto, sums, Quiet, SameActive,
       HandlerTypes, Summing, Raising, Owning
  <2>2. QED
    BY <2>1 DEF Summed
<1>20. ASSUME NEW h \in Handlers, CancelReadDeal(h)
       PROVE  Summed
  <2>1. Quiet(h)
    BY <1>0, <1>20 DEF CancelReadDeal, Goto, Finish, Forget, store,
       deals, sums, Quiet, SameActive, HandlerTypes, Summing, Raising,
       Owning
  <2>2. QED
    BY <2>1 DEF Summed
<1>21. ASSUME NEW h \in Handlers, CancelDeal(h)
       PROVE  Summed
  <2>1. Quiet(h)
    BY <1>0, <1>21 DEF CancelDeal, SetDeal, Finish, Forget, sums, Quiet,
       SameActive, HandlerTypes, Summing, Raising, Owning, DocumentTypes,
       Held, Pending, DealKnown, OnDeal, Exists
  <2>2. QED
    BY <2>1 DEF Summed
<1>22. ASSUME NEW h \in Handlers, PaymentWrite(h)
       PROVE  Summed
  <2>1. Quiet(h)
    BY <1>0, <1>22 DEF PaymentWrite, Goto, Finish, Forget, deals, sums,
       Quiet, SameActive, HandlerTypes, Summing, Raising, Owning
  <2>2. QED
    BY <2>1 DEF Summed
<1>23. ASSUME NEW h \in Handlers, MoveReadKyc(h)
       PROVE  Summed
  <2>1. Quiet(h)
    BY <1>0, <1>23 DEF MoveReadKyc, Goto, store, deals, sums, Quiet,
       SameActive, HandlerTypes, Summing, Raising, Owning
  <2>2. QED
    BY <2>1 DEF Summed
<1>24. ASSUME NEW h \in Handlers, MoveFind(h)
       PROVE  Summed
  <2>1. Quiet(h)
    BY <1>0, <1>24 DEF MoveFind, Visit, store, deals, sums, Quiet,
       SameActive, HandlerTypes, Summing, Raising, Owning
  <2>2. QED
    BY <2>1 DEF Summed
<1>25. ASSUME NEW h \in Handlers, NEW d \in Deals, MoveWrite(h, d)
       PROVE  Summed
  <2>1. Quiet(h)
    BY <1>0, <1>25 DEF MoveWrite, Visit, SetDeal, sums, Quiet,
       SameActive, HandlerTypes, Summing, Raising, Owning, DocumentTypes,
       Held
  <2>2. QED
    BY <2>1 DEF Summed
<1>26. ASSUME NEW h \in Handlers, OpenReadKyc(h)
       PROVE  Summed
  <2>1. Quiet(h)
    BY <1>0, <1>26 DEF OpenReadKyc, Goto, Finish, Forget, store, deals,
       sums, Quiet, SameActive, HandlerTypes, Summing, Raising, Owning
  <2>2. QED
    BY <2>1 DEF Summed
<1>27. ASSUME NEW h \in Handlers, OpenFind(h)
       PROVE  Summed
  <2>1. Quiet(h)
    BY <1>0, <1>27 DEF OpenFind, VisitOrFinish, Finish, Forget, store,
       deals, sums, Quiet, SameActive, HandlerTypes, Summing, Raising,
       Owning
  <2>2. QED
    BY <2>1 DEF Summed
<1>28. ASSUME NEW h \in Handlers, NEW d \in Deals, OpenReadContract(h, d)
       PROVE  Summed
  <2>1. Quiet(h)
    BY <1>0, <1>28 DEF OpenReadContract, Goto, VisitOrFinish, Finish,
       Forget, store, deals, sums, Quiet, SameActive, HandlerTypes,
       Summing, Raising, Owning
  <2>2. QED
    BY <2>1 DEF Summed
<1>29. ASSUME NEW h \in Handlers, OpenReadExisting(h)
       PROVE  Summed
  <2>1. Quiet(h)
    BY <1>0, <1>29 DEF OpenReadExisting, Goto, VisitOrFinish, Finish,
       Forget, store, deals, sums, Quiet, SameActive, HandlerTypes,
       Summing, Raising, Owning
  <2>2. QED
    BY <2>1 DEF Summed
<1>30. ASSUME NEW h \in Handlers, NEW p \in Payments, OpenInsert(h, p)
       PROVE  Summed
  <2>1. Quiet(h)
    BY <1>0, <1>30 DEF OpenInsert, Goto, deals, sums, Quiet, SameActive,
       HandlerTypes, Summing, Raising, Owning
  <2>2. QED
    BY <2>1 DEF Summed
<1>31. ASSUME NEW h \in Handlers, OpenMove(h)
       PROVE  Summed
  <2>1. at[h] \in Deals /\ deal[at[h]] \in Pending
    BY <1>0, <1>31 DEF OpenMove, Held, InvestorKnown, DealKnown, Opening, OnDeal,
       Exists, HandlerTypes
  <2>2. SameActive
    <3>1. deal' = [deal EXCEPT ![at[h]] = "awaiting_payment"] /\ intentOf' = intentOf
      BY <1>31 DEF OpenMove, SetDeal
    <3>2. QED
      BY <1>0, <2>1, <3>1 DEF SameActive, Pending, DocumentTypes
  <2>3. Quiet(h)
    BY <1>0, <1>31, <2>2 DEF OpenMove, VisitOrFinish, Finish, Forget, sums, Quiet,
       HandlerTypes, Summing, Raising, Owning
  <2>4. QED
    BY <2>3 DEF Summed
<1>32. ASSUME NEW h \in Handlers, ConfirmCredit(h)
       PROVE  Summed
  <2>1. Quiet(h)
    BY <1>0, <1>32 DEF ConfirmCredit, Goto, deals, sums, Quiet,
       SameActive, HandlerTypes, Summing, Raising, Owning
  <2>2. QED
    BY <2>1 DEF Summed
<1>33. ASSUME NEW h \in Handlers, ConfirmActivate(h)
       PROVE  Summed
  BY <1>33 DEF Summed, Recomputes
<1>34. ASSUME NEW h \in Handlers, OwnerSum(h)
       PROVE  Summed
  BY <1>34 DEF Summed, Recomputes
<1>35. ASSUME NEW h \in Handlers, OwnerFind(h)
       PROVE  Summed
  BY <1>35 DEF Summed, Recomputes
<1>36. ASSUME NEW h \in Handlers, OwnerWrite(h)
       PROVE  Summed
  BY <1>36 DEF Summed, Recomputes
<1>37. ASSUME NEW h \in Handlers, AssetSum(h)
       PROVE  Summed
  BY <1>37 DEF Summed, Recomputes
<1>38. ASSUME NEW h \in Handlers, AssetWrite(h)
       PROVE  Summed
  BY <1>38 DEF Summed, Recomputes
<1>39. ASSUME NEW h \in Handlers, RoundSum(h)
       PROVE  Summed
  BY <1>39 DEF Summed, Recomputes
<1>40. ASSUME NEW h \in Handlers, RoundWrite(h)
       PROVE  Summed
  BY <1>40 DEF Summed, Recomputes
<1>41. ASSUME NEW h \in Handlers, Abort(h)
       PROVE  Summed
  BY <1>0, <1>41 DEF Abort, OneHandler, NoneLost
<1>42. CASE Restart
  BY <1>0, <1>42 DEF Restart, OneHandler, NoneLost
<1>43. CASE UNCHANGED vars
  BY <1>43 DEF vars, store, deals, sums, local, Summed
<1> QED
  BY <1>1, <1>2, <1>3, <1>4, <1>5, <1>6, <1>7, <1>8, <1>9, <1>10, <1>11,
     <1>12, <1>13, <1>14, <1>15, <1>16, <1>17, <1>18, <1>19, <1>20, <1>21,
     <1>22, <1>23, <1>24, <1>25, <1>26, <1>27, <1>28, <1>29, <1>30, <1>31,
     <1>32, <1>33, <1>34, <1>35, <1>36, <1>37, <1>38, <1>39, <1>40, <1>41,
     <1>42, <1>43, MatchConfirms
     DEF Next, Arrive, Serve, Gates, Confirm

(* At rest, and until an investment becomes active again, each investor    *)
(* has at most one row, with the sum of its active investments.            *)
LEMMA StepRowsFit ==
  ASSUME OneHandler, SerialInv, SerialInv', ReadHolds, RowsFit, [Next]_vars
  PROVE  RowsFit'
<1>0. /\ Summed /\ IInv /\ IInv' /\ DocumentTypes /\ HandlerTypes
      /\ \A g, h \in Handlers : g = h
  BY StepSummed DEF SerialInv, IInv, TypeOK, OneHandler
<1>1. \A i \in Investors :
        rows[i] = <<>> \/ \E n \in Nat : rows[i] = <<n>>
  BY <1>0, ActiveTypes DEF RowsFit, RowFor
<1>2. ASSUME NEW h \in Handlers, SameActive, rows' = rows,
             sum' = sum \/ \E x : sum' = [sum EXCEPT ![h] = x],
             pc[h] \notin Owning, pc'[h] \notin Owning
      PROVE  RowsFit'
  <2>1. ActiveOf' = ActiveOf
    BY <1>2, SameSums
  <2>2. sum' = [g \in Handlers |-> sum'[g]]
    BY <1>2 DEF RowsFit
  <2>3. \A i \in Investors : rows'[i] = RowFor(ActiveOf'[i])
    BY <1>0, <1>2, <2>1 DEF RowsFit
  <2>4. QED
    BY <1>0, <1>2, <2>2, <2>3 DEF RowsFit, Owning
<1>3. ASSUME NEW h \in Handlers, SameActive, rows' = rows, UNCHANGED who,
             pc[h] \in Owning, pc'[h] \in Owning,
             sum' = [g \in Handlers |-> sum'[g]],
             pc'[h] \in {"owner_find", "owner_write"} => sum'[h] = ActiveOf[who[h]],
             pc'[h] = "owner_write" => (flag'[h] <=> rows[who[h]] # <<>>)
      PROVE  RowsFit'
  <2>1. ActiveOf' = ActiveOf
    BY <1>3, SameSums
  <2>2. \A i \in Investors :
          \/ rows'[i] = RowFor(ActiveOf'[i])
          \/ /\ \E g \in Handlers : pc'[g] \in Owning /\ who'[g] = i
             /\ rows'[i] = <<>> \/ \E n \in Nat : rows'[i] = <<n>>
    BY <1>0, <1>1, <1>3, <2>1 DEF RowsFit
  <2>3. QED
    BY <1>0, <1>3, <2>1, <2>2 DEF RowsFit
<1>4. ASSUME NEW h \in Handlers, Quiet(h)
      PROVE  RowsFit'
  BY <1>2, <1>4 DEF Quiet, Summing, Raising
<1>5. ASSUME UNCHANGED <<deal, intentOf, sums, pc, who, flag, sum>>
      PROVE  RowsFit'
  <2>1. ActiveOf' = ActiveOf
    BY <1>5, SameSums DEF SameActive
  <2>2. QED
    BY <1>5, <2>1 DEF RowsFit, sums
<1>6. ASSUME NEW h \in Handlers, ConfirmActivate(h)
      PROVE  RowsFit'
  <2>1. /\ pc[h] = "confirm_activate" /\ pc'[h] = "owner_sum" /\ at[h] \in Deals
        /\ who[h] = InvestorOf[intentOf[at[h]]] /\ deal' = [deal EXCEPT ![at[h]] = "active"]
        /\ UNCHANGED <<intentOf, rows, who, sum>>
    BY <1>0, <1>6 DEF ConfirmActivate, Goto, SetDeal, ReadHolds, Held, Paying,
       HandlerTypes, sums
  <2>2. \A d \in Deals \ {at[h]} : deal'[d] = deal[d]
    BY <1>0, <2>1 DEF DocumentTypes
  <2>3. ASSUME NEW i \in Investors, i # who[h]
        PROVE  ActiveOf'[i] = ActiveOf[i]
    <3> DEFINE F == [d \in Deals |-> AmountOfDeal(d)]
    <3>1. {d \in DealsOf(i) : deal[d] = "active"}'
            = {d \in DealsOf(i) : deal[d] = "active"}
      BY <2>1, <2>2, <2>3 DEF DealsOf
    <3>2. F' = F
      BY <2>1 DEF AmountOfDeal
    <3>3. Active(DealsOf(i))' = SumFunctionOnSet(F', {d \in DealsOf(i) : deal[d] = "active"}')
      BY DEF Active
    <3>4. Active(DealsOf(i)) = SumFunctionOnSet(F, {d \in DealsOf(i) : deal[d] = "active"})
      BY DEF Active
    <3> HIDE DEF F
    <3>5. QED
      BY <3>1, <3>2, <3>3, <3>4 DEF ActiveOf
  <2>4. \A i \in Investors : rows'[i] = RowFor(ActiveOf[i])
    BY <1>0, <2>1 DEF RowsFit, Owning
  <2>5. QED
    BY <1>0, <1>1, <2>1, <2>3, <2>4 DEF RowsFit, Owning
<1>7. ASSUME NEW h \in Handlers, OwnerSum(h)
      PROVE  RowsFit'
  <2>1. /\ pc[h] = "owner_sum" /\ pc'[h] = "owner_find"
        /\ UNCHANGED <<deal, intentOf, rows, who>>
        /\ sum' = [sum EXCEPT ![h] = Active(DealsOf(who[h]))]
    BY <1>0, <1>7 DEF OwnerSum, Goto, HandlerTypes, store, deals, sums
  <2>2. who[h] \in Investors
    BY <1>0, <2>1 DEF IInv, InvestorKnown, Steps
  <2>3. sum'[h] = ActiveOf[who[h]] /\ sum' = [g \in Handlers |-> sum'[g]]
    BY <2>1, <2>2 DEF RowsFit, ActiveOf
  <2>4. QED
    BY <1>3, <2>1, <2>3 DEF Owning, SameActive
<1>8. ASSUME NEW h \in Handlers, OwnerFind(h)
      PROVE  RowsFit'
  <2>1. /\ pc[h] = "owner_find" /\ pc'[h] = "owner_write"
        /\ UNCHANGED <<deal, intentOf, rows, who, sum>>
    BY <1>0, <1>8 DEF OwnerFind, Goto, HandlerTypes, store, deals, sums
  <2>2. flag'[h] <=> rows[who[h]] # <<>>
    <3>1. flag' = [flag EXCEPT ![h] = (rows[who[h]] # <<>>)]
      BY <1>8 DEF OwnerFind
    <3>2. flag \in [Handlers -> BOOLEAN]
      BY <1>0 DEF HandlerTypes
    <3>3. QED
      BY <3>1, <3>2, Zenon
  <2>3. sum' = [g \in Handlers |-> sum'[g]] /\ sum'[h] = ActiveOf[who[h]]
    BY <2>1 DEF RowsFit
  <2>4. QED
    BY <1>3, <2>1, <2>2, <2>3 DEF Owning, SameActive
<1>9. ASSUME NEW h \in Handlers, OwnerWrite(h)
      PROVE  RowsFit'
  <2>1. /\ pc[h] = "owner_write" /\ pc'[h] = "asset_sum"
        /\ UNCHANGED <<deal, intentOf, who, sum>>
        /\ rows' = [rows EXCEPT ![who[h]] = IF flag[h] THEN [@ EXCEPT ![1] = sum[h]]
                                             ELSE Append(@, sum[h])]
    BY <1>0, <1>9 DEF OwnerWrite, Goto, HandlerTypes, deals
  <2>2. /\ who[h] = InvestorOf[intentOf[at[h]]] /\ at[h] \in Deals
        /\ deal[at[h]] = "active"
    BY <2>1 DEF ReadHolds, Held, Owning
  <2>3. PICK i \in Investors : i = who[h] /\ ActiveOf[i] \in Nat \ {0}
    BY <1>0, <2>2, ActiveTypes
  <2>4. sum[h] = ActiveOf[i] /\ (flag[h] <=> rows[i] # <<>>)
    BY <2>1, <2>3 DEF RowsFit
  <2>5. rows'[i] = <<ActiveOf[i]>>
    <3>1. rows'[i] = IF flag[h] THEN [rows[i] EXCEPT ![1] = ActiveOf[i]]
                     ELSE Append(rows[i], ActiveOf[i])
      BY <2>1, <2>3, <2>4 DEF RowsFit
    <3>2. CASE rows[i] = <<>>
      BY <2>3, <2>4, <3>1, <3>2
    <3>3. CASE \E n \in Nat : rows[i] = <<n>>
      <4>1. PICK n \in Nat : rows[i] = <<n>>
        BY <3>3
      <4>2. rows'[i] = [<<n>> EXCEPT ![1] = ActiveOf[i]]
        BY <2>4, <3>1, <4>1
      <4>3. QED
        BY <2>3, <4>2
    <3>4. QED
      BY <1>1, <3>2, <3>3
  <2>6. /\ \A j \in Investors \ {i} : rows'[j] = rows[j]
        /\ rows' = [j \in Investors |-> rows'[j]]
    BY <2>1, <2>3 DEF RowsFit
  <2>7. ActiveOf' = ActiveOf
    BY <2>1, SameSums DEF SameActive
  <2>8. ASSUME NEW j \in Investors
        PROVE  rows'[j] = RowFor(ActiveOf'[j])
    <3>1. CASE j = i
      BY <2>3, <2>5, <2>7, <3>1 DEF RowFor
    <3>2. CASE j # i
      <4>1. rows[j] = RowFor(ActiveOf[j])
        BY <1>0, <2>3, <3>2 DEF RowsFit
      <4>2. QED
        BY <2>6, <2>7, <3>2, <4>1
    <3>3. QED
      BY <3>1, <3>2
  <2>9. sum' = [g \in Handlers |-> sum'[g]]
    BY <2>1 DEF RowsFit
  <2>10. pc'[h] \notin {"owner_find", "owner_write"}
    BY <2>1
  <2>11. QED
    BY <1>0, <2>6, <2>8, <2>9, <2>10 DEF RowsFit
<1>10. ASSUME NEW h \in Handlers, AssetSum(h)
       PROVE  RowsFit'
  BY <1>0, <1>2, <1>10 DEF AssetSum, Goto, store, deals, sums,
     HandlerTypes, Owning, SameActive
<1>11. ASSUME NEW h \in Handlers, AssetWrite(h)
       PROVE  RowsFit'
  BY <1>0, <1>2, <1>11 DEF AssetWrite, Goto, deals, HandlerTypes, Owning,
     SameActive
<1>12. ASSUME NEW h \in Handlers, RoundSum(h)
       PROVE  RowsFit'
  BY <1>0, <1>2, <1>12 DEF RoundSum, Goto, store, deals, sums,
     HandlerTypes, Owning, SameActive
<1>13. ASSUME NEW h \in Handlers, RoundWrite(h)
       PROVE  RowsFit'
  BY <1>0, <1>2, <1>13 DEF RoundWrite, Finish, Forget, deals, HandlerTypes,
     Owning, SameActive
<1> QED
  BY <1>0, <1>4, <1>5, <1>6, <1>7, <1>8, <1>9, <1>10, <1>11, <1>12, <1>13
  DEF Summed, Recomputes

(* The asset and the round are right until an investment becomes active,   *)
(* and again when they have been recomputed.                               *)
LEMMA StepRaisedFits ==
  ASSUME OneHandler, SerialInv, ReadHolds, RowsFit, RaisedFits, [Next]_vars
  PROVE  RaisedFits'
<1>0. /\ Summed /\ HandlerTypes /\ \A g, h \in Handlers : g = h
      /\ sum = [h \in Handlers |-> sum[h]]
  BY StepSummed DEF SerialInv, IInv, TypeOK, OneHandler, RowsFit
<1>1. ASSUME NEW h \in Handlers, Quiet(h)
      PROVE  RaisedFits'
  <2>1. ActiveAll' = ActiveAll
    BY <1>1, SameSums DEF Quiet
  <2>2. QED
    BY <1>0, <1>1, <2>1 DEF Quiet, RaisedFits, Summing, Raising, Owning
<1>2. ASSUME UNCHANGED <<deal, intentOf, sums, pc, who, flag, sum>>
      PROVE  RaisedFits'
  <2>1. ActiveAll' = ActiveAll
    BY <1>2, SameSums DEF SameActive
  <2>2. QED
    BY <1>2, <2>1 DEF RaisedFits, sums
<1>3. ASSUME NEW h \in Handlers, pc'[h] \in Owning \cup {"asset_sum"}
      PROVE  RaisedFits'
  BY <1>0, <1>3 DEF RaisedFits, Summing, Raising, Owning
<1>4. ASSUME NEW h \in Handlers, ConfirmActivate(h)
      PROVE  RaisedFits'
  BY <1>0, <1>3, <1>4 DEF ConfirmActivate, Goto, HandlerTypes, Owning
<1>5. ASSUME NEW h \in Handlers, OwnerSum(h)
      PROVE  RaisedFits'
  BY <1>0, <1>3, <1>5 DEF OwnerSum, Goto, HandlerTypes, Owning
<1>6. ASSUME NEW h \in Handlers, OwnerFind(h)
      PROVE  RaisedFits'
  BY <1>0, <1>3, <1>6 DEF OwnerFind, Goto, HandlerTypes, Owning
<1>7. ASSUME NEW h \in Handlers, OwnerWrite(h)
      PROVE  RaisedFits'
  BY <1>0, <1>3, <1>7 DEF OwnerWrite, Goto, HandlerTypes, Owning
<1>8. ASSUME NEW h \in Handlers, AssetSum(h)
      PROVE  RaisedFits'
  <2>1. ActiveAll' = ActiveAll
    BY <1>8, SameSums DEF AssetSum, SameActive, store, deals
  <2>2. QED
    BY <1>0, <1>8, <2>1 DEF AssetSum, Goto, store, sums, HandlerTypes,
       RaisedFits, ActiveAll, Summing, Raising, Owning
<1>9. ASSUME NEW h \in Handlers, AssetWrite(h)
      PROVE  RaisedFits'
  <2>1. ActiveAll' = ActiveAll
    BY <1>9, SameSums DEF AssetWrite, SameActive, deals
  <2>2. QED
    BY <1>0, <1>9, <2>1 DEF AssetWrite, Goto, HandlerTypes, RaisedFits,
       ActiveAll, Summing, Raising, Owning
<1>10. ASSUME NEW h \in Handlers, RoundSum(h)
      PROVE  RaisedFits'
  <2>1. ActiveAll' = ActiveAll
    BY <1>10, SameSums DEF RoundSum, SameActive, store, deals
  <2>2. QED
    BY <1>0, <1>10, <2>1 DEF RoundSum, Goto, store, sums, HandlerTypes,
       RaisedFits, ActiveAll, Summing, Raising, Owning
<1>11. ASSUME NEW h \in Handlers, RoundWrite(h)
      PROVE  RaisedFits'
  <2>1. ActiveAll' = ActiveAll
    BY <1>11, SameSums DEF RoundWrite, SameActive, deals
  <2>2. QED
    BY <1>0, <1>11, <2>1 DEF RoundWrite, Finish, Forget, HandlerTypes,
       RaisedFits, ActiveAll, Summing, Raising, Owning
<1> QED
  BY <1>0, <1>1, <1>2, <1>4, <1>5, <1>6, <1>7, <1>8, <1>9, <1>10, <1>11
  DEF Summed, Recomputes

(* At the start nothing is active and nothing is owned.                    *)
LEMMA InitSums ==
  Init => ReadHolds /\ RequestFits /\ RowsFit /\ RaisedFits
<1> SUFFICES ASSUME Init
             PROVE  ReadHolds /\ RequestFits /\ RowsFit /\ RaisedFits
  OBVIOUS
<1>1. ReadHolds
  BY DEF Init, ReadHolds, Held, Reserving, Gated, Opening, Paying, Confirming,
         Owning
<1>2. RequestFits
  BY DEF Init, RequestFits
<1>3. \A S \in SUBSET Deals : Active(S) = 0
  <2>1. ASSUME NEW S \in SUBSET Deals
        PROVE  {d \in S : deal[d] = "active"} = {}
    BY <2>1 DEF Init
  <2>2. QED
    BY <2>1, SumEmpty DEF Active
<1>4. RowsFit
  <2>1. \A i \in Investors : ActiveOf[i] = 0
    <3>1. \A i \in Investors : DealsOf(i) \in SUBSET Deals
      BY DEF DealsOf
    <3>2. QED
      BY <1>3, <3>1 DEF ActiveOf
  <2>2. QED
    BY <2>1 DEF Init, RowsFit, RowFor
<1>5. RaisedFits
  <2>1. ActiveAll = 0
    BY <1>3 DEF ActiveAll
  <2>2. QED
    BY <2>1 DEF Init, RaisedFits
<1> QED
  BY <1>1, <1>2, <1>4, <1>5

LEMMA StepSumInv ==
  ASSUME OneHandler, SumInv, [Next]_vars
  PROVE  SumInv'
<1>1. SerialInv'
  BY StepSerialInv DEF SumInv
<1>2. ReadHolds' /\ RequestFits'
  BY StepReadHolds, StepRequestFits DEF SumInv
<1>3. RowsFit' /\ RaisedFits'
  BY <1>1, StepRowsFit, StepRaisedFits DEF SumInv
<1> QED
  BY <1>1, <1>2, <1>3 DEF SumInv

(* The invariant of the sums and gates.                                    *)
THEOREM SumInvariant ==
  ASSUME OneHandler
  PROVE  Spec => []SumInv
<1>1. Init => SumInv
  BY InitSerialInv, InitSums DEF SumInv
<1>2. SumInv /\ [Next]_vars => SumInv'
  BY StepSumInv
<1>3. QED
  BY <1>1, <1>2, PTL DEF Spec

(* At rest the ledger has one funding entry for each active investment,    *)
(* and none for the others.                                                *)
THEOREM FundedOnceAlways ==
  ASSUME OneHandler
  PROVE  Spec => []FundedOnce
<1>1. ASSUME SumInv, Idle, NEW d \in Deals
      PROVE  Funding(d) = IF deal[d] = "active" THEN 1 ELSE 0
  <2>1. IInv /\ RequestFits /\ \A h \in Handlers : pc[h] # "confirm_activate"
    BY <1>1 DEF SumInv, SerialInv, Idle
  <2>2. QED
    BY <2>1, FundingIs
<1>2. SumInv => FundedOnce
  BY <1>1 DEF FundedOnce
<1>3. QED
  BY SumInvariant, <1>2, PTL

(* At rest each investor has at most one ownership row, with the units of  *)
(* its active investments.                                                 *)
THEOREM OwnershipIsActiveAlways ==
  ASSUME OneHandler
  PROVE  Spec => []OwnershipIsActive
<1>1. SumInv => OwnershipIsActive
  BY DEF SumInv, RowsFit, RowFor, ActiveOf, OwnershipIsActive, Idle, Owning
<1>2. QED
  BY SumInvariant, <1>1, PTL

(* I2 of lumen_consistency.py: at rest the raised amounts of the asset and *)
(* of the round are the sum of the active investments.                     *)
THEOREM RaisedIsActiveAlways ==
  ASSUME OneHandler
  PROVE  Spec => []RaisedIsActive
<1>1. SumInv => RaisedIsActive
  BY DEF SumInv, RaisedFits, ActiveAll, RaisedIsActive, Idle, Summing, Raising,
         Owning
<1>2. QED
  BY SumInvariant, <1>1, PTL
-----------------------------------------------------------------------------
(* The promises of OfferingGates.  Its investor and funded are these.      *)
Holder == [d \in Deals |-> IF deal[d] = "absent" THEN None
                           ELSE InvestorOf[intentOf[d]]]
Funded == [d \in Deals |-> Funding(d)]

PaidFor(d) ==
  \/ deal[d] = "active"
  \/ \E h \in Handlers : pc[h] = "confirm_activate" /\ at[h] = d

LEMMA FundedIs ==
  IInv /\ RequestFits
    => Funded = [d \in Deals |-> IF PaidFor(d) THEN 1 ELSE 0]
BY FundingIs DEF Funded, PaidFor

(* Nothing is reserved.                                                    *)
LEMMA InitGates == Init => Promise!Init
<1> SUFFICES ASSUME Init PROVE Promise!Init
  OBVIOUS
<1>1. Holder = [d \in Deals |-> None]
  BY DEF Init, Holder
<1>2. \A d \in Deals : ~PaidFor(d)
  BY DEF Init, PaidFor
<1>3. Funded = [d \in Deals |-> 0]
  BY <1>2, InitIInv, InitSums, FundedIs
<1> QED
  BY <1>1, <1>3 DEF Init, Promise!Init, Holder, Funded

(* Each step of the handler is one of OfferingGates, or none.              *)
LEMMA StepGatesKept ==
  ASSUME OneHandler, SumInv, [Next]_vars
  PROVE  [Promise!Next]_<<kyc, Holder, contract, deal, Funded>>
<1> DEFINE Vars == <<kyc, Holder, contract, deal, Funded>>
<1>0. /\ TypeOK /\ DocumentTypes /\ HandlerTypes /\ StoreOK
      /\ DealKnown /\ InvestorKnown /\ PaymentKnown /\ NoneLost
      /\ \A g, h \in Handlers : g = h
      /\ \A h \in Handlers : Held(h)
  BY DEF SumInv, SerialInv, IInv, TypeOK, OneHandler, ReadHolds
<1>a. /\ Funded = [d \in Deals |-> IF PaidFor(d) THEN 1 ELSE 0]
      /\ Funded' = [d \in Deals |-> IF PaidFor(d)' THEN 1 ELSE 0]
  <2>1. (IInv /\ RequestFits
          => Funded = [d \in Deals |-> IF PaidFor(d) THEN 1 ELSE 0])'
    BY FundedIs, PTL
  <2>2. SumInv'
    BY StepSumInv
  <2>3. QED
    BY <2>1, <2>2, FundedIs DEF SumInv, SerialInv
<1>b. ASSUME UNCHANGED <<kyc, deal, intentOf, contract, credits, paysFor>>
      PROVE  [Promise!Next]_Vars
  BY <1>b DEF Holder, Funded, Funding
<1>c. ASSUME \A d \in Deals : PaidFor(d)' <=> PaidFor(d)
      PROVE  Funded' = Funded
  BY <1>a, <1>c
<1>d. ASSUME intentOf' = intentOf,
             \A d \in Deals : deal'[d] = "absent" <=> deal[d] = "absent"
      PROVE  Holder' = Holder
  BY <1>d DEF Holder
<1>1. ASSUME NEW n \in Intents, FileIntent(n)
      PROVE  [Promise!Next]_Vars
  BY <1>b, <1>1 DEF FileIntent, deals, money
<1>2. ASSUME NEW h \in Handlers, NEW n \in Intents, RejectRead(h, n)
      PROVE  [Promise!Next]_Vars
  BY <1>b, <1>2 DEF RejectRead, store, people, deals, money
<1>3. ASSUME NEW h \in Handlers, NEW n \in Intents, NEW d \in Deals,
             ApproveRead(h, n, d)
      PROVE  [Promise!Next]_Vars
  BY <1>b, <1>3 DEF ApproveRead, store, people, deals, money
<1>4. ASSUME NEW h \in Handlers, NEW i \in Investors, NEW s \in
             DOMAIN KycFrom, KycRead(h, i, s)
      PROVE  [Promise!Next]_Vars
  BY <1>b, <1>4 DEF KycRead, store, people, deals, money
<1>5. ASSUME NEW h \in Handlers, NEW d \in Deals, ViewRead(h, d)
      PROVE  [Promise!Next]_Vars
  BY <1>b, <1>5 DEF ViewRead, store, people, deals, money
<1>6. ASSUME NEW h \in Handlers, NEW d \in Deals, SignRead(h, d)
      PROVE  [Promise!Next]_Vars
  BY <1>b, <1>6 DEF SignRead, store, people, deals, money
<1>7. ASSUME NEW h \in Handlers, NEW d \in Deals, CancelRead(h, d)
      PROVE  [Promise!Next]_Vars
  BY <1>b, <1>7 DEF CancelRead, store, people, deals, money
<1>8. ASSUME NEW h \in Handlers, NEW p \in Payments, NEW s \in
             DOMAIN PaymentFrom, PaymentRead(h, p, s)
      PROVE  [Promise!Next]_Vars
  BY <1>b, <1>8 DEF PaymentRead, store, people, deals, money
<1>9. ASSUME NEW h \in Handlers, ApproveReadKyc(h)
      PROVE  [Promise!Next]_Vars
  BY <1>b, <1>9 DEF ApproveReadKyc, store, people, deals, money
<1>10. ASSUME NEW h \in Handlers, ApproveInsert(h)
       PROVE  [Promise!Next]_Vars
  <2>1. /\ pc[h] = "approve_insert" /\ at[h] \in Deals /\ deal[at[h]] = "absent"
        /\ arg[h] \in Intents /\ who[h] = InvestorOf[arg[h]]
        /\ flag[h] <=> kyc[who[h]] = "approved"
        /\ pc'[h] = "approve_contract"
    BY <1>0, <1>10 DEF ApproveInsert, Goto, DealKnown, Reserving, Held, HandlerTypes
  <2>2. /\ deal' = [deal EXCEPT ![at[h]] = IF flag[h] THEN "contract_pending"
                                           ELSE "kyc_pending"]
        /\ intentOf' = [intentOf EXCEPT ![at[h]] = arg[h]]
        /\ UNCHANGED <<kyc, contract, at>>
    BY <1>10 DEF ApproveInsert, SetDeal, people
  <2>3. /\ intentOf'[at[h]] = arg[h] /\ deal'[at[h]] \in Pending
        /\ \A d \in Deals \ {at[h]} : deal'[d] = deal[d] /\ intentOf'[d] = intentOf[d]
    BY <1>0, <2>1, <2>2 DEF DocumentTypes, Pending
  <2>4. Funded' = Funded
    BY <1>0, <1>c, <2>1, <2>3 DEF PaidFor, Pending
  <2>5. Holder' = [Holder EXCEPT ![at[h]] = who[h]]
    <3>1. Holder'[at[h]] = who[h]
      BY <2>1, <2>3 DEF Holder, Pending
    <3>2. \A d \in Deals \ {at[h]} : Holder'[d] = Holder[d]
      BY <2>3 DEF Holder
    <3>3. /\ Holder' = [d \in Deals |-> Holder'[d]]
          /\ Holder = [d \in Deals |-> Holder[d]]
      BY DEF Holder
    <3>4. QED
      BY <2>1, <3>1, <3>2, <3>3
  <2>6. Promise!Reserve(at[h], who[h])
    BY <2>1, <2>2, <2>4, <2>5 DEF Promise!Reserve, Holder, Funded
  <2>7. PICK d \in Deals : d = at[h]
    BY <2>1
  <2>8. PICK i \in Investors : i = who[h]
    BY <2>1
  <2>9. Promise!Reserve(d, i)
    BY <2>6, <2>7, <2>8 DEF Promise!Reserve
  <2>10. QED
    BY <2>9, Zenon DEF Promise!Next
<1>11. ASSUME NEW h \in Handlers, ApproveContract(h)
       PROVE  [Promise!Next]_Vars
  <2>1. /\ pc[h] = "approve_contract" /\ at[h] \in Deals /\ deal[at[h]] # "absent"
        /\ contract[at[h]] \in {"absent"}
    BY <1>0, <1>11 DEF ApproveContract, Goto, DealKnown, OnDeal, Exists, Held, Signable
  <2>2. /\ UNCHANGED <<kyc, deal, intentOf, credits, paysFor>>
        /\ contract' = [contract EXCEPT ![at[h]] = "sent"]
    BY <1>11 DEF ApproveContract, people, money
  <2>3. Holder' = Holder /\ Funded' = Funded
    BY <2>2 DEF Holder, Funded, Funding
  <2>4. Promise!Contract(at[h], "sent")
    BY <2>1, <2>2, <2>3 DEF Promise!Contract, Holder, Funded
  <2>5. QED
    BY <2>1, <2>4 DEF Promise!Next
<1>12. ASSUME NEW h \in Handlers, ApproveLink(h)
       PROVE  [Promise!Next]_Vars
  BY <1>b, <1>12 DEF ApproveLink, people, money
<1>13. ASSUME NEW h \in Handlers, ApproveClose(h)
       PROVE  [Promise!Next]_Vars
  BY <1>b, <1>13 DEF ApproveClose, deals, money
<1>14. ASSUME NEW h \in Handlers, RejectWrite(h)
       PROVE  [Promise!Next]_Vars
  BY <1>b, <1>14 DEF RejectWrite, deals, money
<1>15. ASSUME NEW h \in Handlers, KycWrite(h)
       PROVE  [Promise!Next]_Vars
  <2>1. /\ who[h] \in Investors /\ arg[h] \in {"draft", "submitted", "approved", "rejected"}
        /\ kyc[who[h]] # "approved"
    BY <1>0, <1>15 DEF KycWrite, InvestorKnown, Steps, Held, KycFrom
  <2>2. /\ UNCHANGED <<contract, deal, intentOf, credits, paysFor>>
        /\ kyc' = [kyc EXCEPT ![who[h]] = arg[h]]
    BY <1>15 DEF KycWrite, deals, money
  <2>3. Holder' = Holder /\ Funded' = Funded
    BY <2>2 DEF Holder, Funded, Funding
  <2>4. Promise!ReviewKyc(who[h])
    BY <2>1, <2>2, <2>3 DEF Promise!ReviewKyc, Holder, Funded
  <2>5. QED
    BY <2>1, <2>4 DEF Promise!Next
<1>16. ASSUME NEW h \in Handlers, ViewWrite(h)
       PROVE  [Promise!Next]_Vars
  <2>1. /\ pc[h] = "view_write" /\ at[h] \in Deals /\ deal[at[h]] # "absent"
        /\ contract[at[h]] \in {"sent", "viewed"}
    BY <1>0, <1>16 DEF ViewWrite, Goto, DealKnown, OnDeal, Exists, Held, Signable
  <2>2. /\ UNCHANGED <<kyc, deal, intentOf, credits, paysFor>>
        /\ contract' = [contract EXCEPT ![at[h]] = "viewed"]
    BY <1>16 DEF ViewWrite, people, money
  <2>3. Holder' = Holder /\ Funded' = Funded
    BY <2>2 DEF Holder, Funded, Funding
  <2>4. Promise!Contract(at[h], "viewed")
    BY <2>1, <2>2, <2>3 DEF Promise!Contract, Holder, Funded
  <2>5. QED
    BY <2>1, <2>4 DEF Promise!Next
<1>17. ASSUME NEW h \in Handlers, SignInsert(h)
       PROVE  [Promise!Next]_Vars
  BY <1>b, <1>17 DEF SignInsert, people, money
<1>18. ASSUME NEW h \in Handlers, SignWrite(h)
       PROVE  [Promise!Next]_Vars
  <2>1. /\ pc[h] = "sign_write" /\ at[h] \in Deals /\ deal[at[h]] # "absent"
        /\ contract[at[h]] \in {"sent", "viewed"}
    BY <1>0, <1>18 DEF SignWrite, Goto, DealKnown, OnDeal, Exists, Held, Signable
  <2>2. /\ UNCHANGED <<kyc, deal, intentOf, credits, paysFor>>
        /\ contract' = [contract EXCEPT ![at[h]] = "signed"]
    BY <1>18 DEF SignWrite, people, money
  <2>3. Holder' = Holder /\ Funded' = Funded
    BY <2>2 DEF Holder, Funded, Funding
  <2>4. Promise!Contract(at[h], "signed")
    BY <2>1, <2>2, <2>3 DEF Promise!Contract, Holder, Funded
  <2>5. QED
    BY <2>1, <2>4 DEF Promise!Next
<1>19. ASSUME NEW h \in Handlers, CancelWrite(h)
       PROVE  [Promise!Next]_Vars
  <2>1. /\ pc[h] = "cancel_write" /\ at[h] \in Deals /\ deal[at[h]] # "absent"
        /\ contract[at[h]] \in {"sent", "viewed"}
    BY <1>0, <1>19 DEF CancelWrite, Goto, DealKnown, OnDeal, Exists, Held, Signable
  <2>2. /\ UNCHANGED <<kyc, deal, intentOf, credits, paysFor>>
        /\ contract' = [contract EXCEPT ![at[h]] = "cancelled"]
    BY <1>19 DEF CancelWrite, people, money
  <2>3. Holder' = Holder /\ Funded' = Funded
    BY <2>2 DEF Holder, Funded, Funding
  <2>4. Promise!Contract(at[h], "cancelled")
    BY <2>1, <2>2, <2>3 DEF Promise!Contract, Holder, Funded
  <2>5. QED
    BY <2>1, <2>4 DEF Promise!Next
<1>20. ASSUME NEW h \in Handlers, CancelReadDeal(h)
       PROVE  [Promise!Next]_Vars
  BY <1>b, <1>20 DEF CancelReadDeal, store, people, deals, money
<1>21. ASSUME NEW h \in Handlers, CancelDeal(h)
       PROVE  [Promise!Next]_Vars
  <2>1. /\ at[h] \in Deals /\ intentOf' = intentOf /\ UNCHANGED <<kyc, contract>>
        /\ deal[at[h]] \in Pending /\ contract[at[h]] = "cancelled"
        /\ pc[h] = "cancel_deal" /\ pc'[h] = "idle"
    BY <1>0, <1>21 DEF CancelDeal, Finish, DealKnown, OnDeal, Exists, Held, people, HandlerTypes
  <2>2. deal' = [deal EXCEPT ![at[h]] = "cancelled"]
    BY <1>21 DEF CancelDeal, SetDeal
  <2>3. /\ deal'[at[h]] = "cancelled"
        /\ \A e \in Deals \ {at[h]} : deal'[e] = deal[e]
    BY <1>0, <2>1, <2>2 DEF DocumentTypes
  <2>4. Holder' = Holder
    BY <1>d, <2>1, <2>3 DEF Pending
  <2>5. Funded' = Funded
    BY <1>0, <1>c, <2>1, <2>3 DEF PaidFor, Pending
  <2>6. Promise!CancelDeal(at[h])
    BY <2>1, <2>2, <2>4, <2>5
    DEF Promise!CancelDeal, Promise!Waiting, Pending, Holder, Funded
  <2>7. QED
    BY <2>1, <2>6 DEF Promise!Next
<1>22. ASSUME NEW h \in Handlers, PaymentWrite(h)
       PROVE  [Promise!Next]_Vars
  BY <1>b, <1>22 DEF PaymentWrite, people, deals
<1>23. ASSUME NEW h \in Handlers, MoveReadKyc(h)
       PROVE  [Promise!Next]_Vars
  BY <1>b, <1>23 DEF MoveReadKyc, store, people, deals, money
<1>24. ASSUME NEW h \in Handlers, MoveFind(h)
       PROVE  [Promise!Next]_Vars
  BY <1>b, <1>24 DEF MoveFind, store, people, deals, money
<1>25. ASSUME NEW h \in Handlers, NEW d \in Deals, MoveWrite(h, d)
       PROVE  [Promise!Next]_Vars
  <2>1. /\ d \in Deals /\ intentOf' = intentOf /\ UNCHANGED <<kyc, contract>>
        /\ deal[d] = "kyc_pending" /\ kyc[InvestorOf[intentOf[d]]] = "approved"
        /\ pc[h] = "move_write" /\ pc'[h] \in {"move_write", "open_kyc"}
    BY <1>0, <1>25 DEF MoveWrite, Visit, InvestorKnown, Walking, Held, Gated, people, HandlerTypes
  <2>2. deal' = [deal EXCEPT ![d] = "contract_pending"]
    BY <1>25 DEF MoveWrite, SetDeal
  <2>3. /\ deal'[d] = "contract_pending"
        /\ \A e \in Deals \ {d} : deal'[e] = deal[e]
    BY <1>0, <2>1, <2>2 DEF DocumentTypes
  <2>4. Holder' = Holder
    BY <1>d, <2>1, <2>3 DEF Pending
  <2>5. Funded' = Funded
    BY <1>0, <1>c, <2>1, <2>3 DEF PaidFor, Pending
  <2>6. Promise!PassKyc(d)
    <3>1. kyc[Holder[d]] = "approved"
      BY <2>1 DEF Holder
    <3>2. QED
      BY <2>1, <2>2, <2>4, <2>5, <3>1
      DEF Promise!PassKyc, Promise!Verified, Holder, Funded
  <2>7. QED
    BY <2>1, <2>6 DEF Promise!Next
<1>26. ASSUME NEW h \in Handlers, OpenReadKyc(h)
       PROVE  [Promise!Next]_Vars
  BY <1>b, <1>26 DEF OpenReadKyc, store, people, deals, money
<1>27. ASSUME NEW h \in Handlers, OpenFind(h)
       PROVE  [Promise!Next]_Vars
  BY <1>b, <1>27 DEF OpenFind, store, people, deals, money
<1>28. ASSUME NEW h \in Handlers, NEW d \in Deals, OpenReadContract(h, d)
       PROVE  [Promise!Next]_Vars
  BY <1>b, <1>28 DEF OpenReadContract, store, people, deals, money
<1>29. ASSUME NEW h \in Handlers, OpenReadExisting(h)
       PROVE  [Promise!Next]_Vars
  BY <1>b, <1>29 DEF OpenReadExisting, store, people, deals, money
<1>30. ASSUME NEW h \in Handlers, NEW p \in Payments, OpenInsert(h, p)
       PROVE  [Promise!Next]_Vars
  <2>1. /\ UNCHANGED <<kyc, contract, deal, intentOf, at>>
        /\ pc[h] = "open_insert" /\ pc'[h] = "open_move"
    BY <1>0, <1>30 DEF OpenInsert, Goto, people, deals, HandlerTypes
  <2>2. Funded' = Funded
    BY <1>0, <1>c, <2>1 DEF PaidFor
  <2>3. Holder' = Holder
    BY <1>d, <2>1
  <2>4. QED
    BY <2>1, <2>2, <2>3
<1>31. ASSUME NEW h \in Handlers, OpenMove(h)
       PROVE  [Promise!Next]_Vars
  <2>1. /\ at[h] \in Deals /\ intentOf' = intentOf /\ UNCHANGED <<kyc, contract>>
        /\ deal[at[h]] \in Pending /\ kyc[InvestorOf[intentOf[at[h]]]] = "approved"
        /\ contract[at[h]] = "signed"
        /\ pc[h] = "open_move" /\ pc'[h] \in {"idle", "open_contract"}
    BY <1>0, <1>31 DEF OpenMove, VisitOrFinish, Finish, InvestorKnown, DealKnown, OnDeal, Exists, Walking, Opening, Held, Gated, people, HandlerTypes
  <2>2. deal' = [deal EXCEPT ![at[h]] = "awaiting_payment"]
    BY <1>31 DEF OpenMove, SetDeal
  <2>3. /\ deal'[at[h]] = "awaiting_payment"
        /\ \A e \in Deals \ {at[h]} : deal'[e] = deal[e]
    BY <1>0, <2>1, <2>2 DEF DocumentTypes
  <2>4. Holder' = Holder
    BY <1>d, <2>1, <2>3 DEF Pending
  <2>5. Funded' = Funded
    BY <1>0, <1>c, <2>1, <2>3 DEF PaidFor, Pending
  <2>6. Promise!AwaitPayment(at[h])
    <3>1. kyc[Holder[at[h]]] = "approved"
      BY <2>1 DEF Holder, Pending
    <3>2. QED
      BY <2>1, <2>2, <2>4, <2>5, <3>1
      DEF Promise!AwaitPayment, Promise!Verified, Promise!Waiting, Pending, Holder, Funded
  <2>7. QED
    BY <2>1, <2>6 DEF Promise!Next
<1>32. ASSUME NEW h \in Handlers, ConfirmCredit(h)
       PROVE  [Promise!Next]_Vars
  <2>1. /\ UNCHANGED <<kyc, contract, deal, intentOf, at>>
        /\ pc[h] = "confirm_credit" /\ pc'[h] = "confirm_activate"
        /\ at[h] \in Deals /\ deal[at[h]] = "awaiting_payment"
    BY <1>0, <1>32 DEF ConfirmCredit, Goto, people, deals, HandlerTypes, Held,
       Paying, Confirming
  <2>2. /\ ~PaidFor(at[h]) /\ PaidFor(at[h])'
        /\ \A d \in Deals \ {at[h]} : PaidFor(d)' <=> PaidFor(d)
    BY <1>0, <2>1 DEF PaidFor
  <2>3. Funded[at[h]] = 0 /\ Funded' = [Funded EXCEPT ![at[h]] = 1]
    BY <1>a, <2>1, <2>2
  <2>4. Holder' = Holder
    BY <1>d, <2>1
  <2>5. Promise!Fund(at[h])
    BY <2>1, <2>3, <2>4 DEF Promise!Fund, Holder, Funded
  <2>6. QED
    BY <2>1, <2>5 DEF Promise!Next
<1>33. ASSUME NEW h \in Handlers, ConfirmActivate(h)
       PROVE  [Promise!Next]_Vars
  <2>1. /\ UNCHANGED <<kyc, contract, intentOf, at>>
        /\ pc[h] = "confirm_activate" /\ pc'[h] = "owner_sum"
        /\ at[h] \in Deals /\ deal[at[h]] = "awaiting_payment"
        /\ deal' = [deal EXCEPT ![at[h]] = "active"]
    BY <1>0, <1>33 DEF ConfirmActivate, Goto, SetDeal, people, HandlerTypes, Held,
       Paying, Confirming
  <2>2. /\ deal'[at[h]] = "active"
        /\ \A d \in Deals \ {at[h]} : deal'[d] = deal[d]
    BY <1>0, <2>1 DEF DocumentTypes
  <2>3. PaidFor(at[h]) /\ \A d \in Deals : PaidFor(d)' <=> PaidFor(d)
    BY <1>0, <2>1, <2>2 DEF PaidFor
  <2>4. Funded[at[h]] = 1 /\ Funded' = Funded
    BY <1>a, <1>c, <2>1, <2>3
  <2>5. Holder' = Holder
    BY <1>d, <2>1, <2>2
  <2>6. Promise!Activate(at[h])
    BY <2>1, <2>4, <2>5 DEF Promise!Activate, Holder, Funded
  <2>7. QED
    BY <2>1, <2>6 DEF Promise!Next
<1>34. ASSUME NEW h \in Handlers, OwnerSum(h)
       PROVE  [Promise!Next]_Vars
  BY <1>b, <1>34 DEF OwnerSum, store, people, deals, money
<1>35. ASSUME NEW h \in Handlers, OwnerFind(h)
       PROVE  [Promise!Next]_Vars
  BY <1>b, <1>35 DEF OwnerFind, store, people, deals, money
<1>36. ASSUME NEW h \in Handlers, OwnerWrite(h)
       PROVE  [Promise!Next]_Vars
  BY <1>b, <1>36 DEF OwnerWrite, people, deals, money
<1>37. ASSUME NEW h \in Handlers, AssetSum(h)
       PROVE  [Promise!Next]_Vars
  BY <1>b, <1>37 DEF AssetSum, store, people, deals, money
<1>38. ASSUME NEW h \in Handlers, AssetWrite(h)
       PROVE  [Promise!Next]_Vars
  BY <1>b, <1>38 DEF AssetWrite, people, deals, money
<1>39. ASSUME NEW h \in Handlers, RoundSum(h)
       PROVE  [Promise!Next]_Vars
  BY <1>b, <1>39 DEF RoundSum, store, people, deals, money
<1>40. ASSUME NEW h \in Handlers, RoundWrite(h)
       PROVE  [Promise!Next]_Vars
  BY <1>b, <1>40 DEF RoundWrite, people, deals, money
<1>41. ASSUME NEW h \in Handlers, Abort(h)
       PROVE  [Promise!Next]_Vars
  BY <1>0, <1>41 DEF Abort, OneHandler, NoneLost
<1>42. CASE Restart
  BY <1>0, <1>42 DEF Restart, OneHandler, NoneLost
<1>43. CASE UNCHANGED vars
  BY <1>b, <1>43 DEF vars, store, people, deals, money
<1> QED
  BY <1>1, <1>2, <1>3, <1>4, <1>5, <1>6, <1>7, <1>8, <1>9, <1>10, <1>11,
     <1>12, <1>13, <1>14, <1>15, <1>16, <1>17, <1>18, <1>19, <1>20, <1>21,
     <1>22, <1>23, <1>24, <1>25, <1>26, <1>27, <1>28, <1>29, <1>30, <1>31,
     <1>32, <1>33, <1>34, <1>35, <1>36, <1>37, <1>38, <1>39, <1>40, <1>41,
     <1>42, <1>43, MatchConfirms
     DEF Next, Arrive, Serve, Gates, Confirm

(* Handlers that do not overlap and are not lost keep the promises of      *)
(* OfferingGates: each gate is passed only while its condition holds, and  *)
(* an investment is funded once before it becomes active.                  *)
THEOREM ImplementsGatesAlways ==
  ASSUME OneHandler
  PROVE  Spec => ImplementsGates
<1>1. SumInv /\ [Next]_vars => [Promise!Next]_(Promise!vars)
  BY StepGatesKept DEF Promise!vars, Holder, Funded
<1>2. QED
  BY SumInvariant, InitGates, <1>1, PTL DEF Spec, ImplementsGates, Promise!Spec
=============================================================================
