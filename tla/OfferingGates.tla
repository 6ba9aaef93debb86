--------------------------- MODULE OfferingGates ---------------------------
(***************************************************************************)
(* What the primary offering promises of an investment: it waits for KYC   *)
(* and for the signature, then for the payment, each gate being passed     *)
(* only while its condition holds; it becomes active when its one payment  *)
(* is in the ledger, and is cancelled only with its contract.              *)
(*                                                                         *)
(* PrimaryOffering has the same steps as database calls of handlers.       *)
(***************************************************************************)
EXTENDS Naturals

CONSTANTS Investors, Deals, None

VARIABLES
  kyc,        \* KYC status of each investor
  investor,   \* the investor of each investment, None before it is reserved
  contract,   \* status of the contract of each investment
  stage,      \* status of each investment
  funded      \* ledger credits of each investment

vars == <<kyc, investor, contract, stage, funded>>

Verified(d) == kyc[investor[d]] = "approved"
Waiting(d)  == stage[d] \in {"kyc_pending", "contract_pending"}

Init ==
  /\ kyc      = [i \in Investors |-> "not_started"]
  /\ investor = [d \in Deals |-> None]
  /\ contract = [d \in Deals |-> "absent"]
  /\ stage    = [d \in Deals |-> "absent"]
  /\ funded   = [d \in Deals |-> 0]

(* KYC moves in any way until it is approved, and then no more.            *)
ReviewKyc(i) ==
  /\ kyc[i] # "approved"
  /\ \E s \in {"draft", "submitted", "approved", "rejected"} :
        kyc' = [kyc EXCEPT ![i] = s]
  /\ UNCHANGED <<investor, contract, stage, funded>>

Reserve(d, i) ==
  /\ stage[d] = "absent"
  /\ investor' = [investor EXCEPT ![d] = i]
  /\ stage' = [stage EXCEPT ![d] =
                 IF kyc[i] = "approved" THEN "contract_pending" ELSE "kyc_pending"]
  /\ UNCHANGED <<kyc, contract, funded>>

(* A contract is sent once, and is signed or cancelled for good.           *)
Contract(d, s) ==
  /\ stage[d] # "absent"
  /\ contract[d] = "absent" <=> s = "sent"
  /\ contract[d] \notin {"signed", "cancelled"}
  /\ contract' = [contract EXCEPT ![d] = s]
  /\ UNCHANGED <<kyc, investor, stage, funded>>

PassKyc(d) ==
  /\ stage[d] = "kyc_pending" /\ Verified(d)
  /\ stage' = [stage EXCEPT ![d] = "contract_pending"]
  /\ UNCHANGED <<kyc, investor, contract, funded>>

AwaitPayment(d) ==
  /\ Waiting(d) /\ Verified(d) /\ contract[d] = "signed"
  /\ stage' = [stage EXCEPT ![d] = "awaiting_payment"]
  /\ UNCHANGED <<kyc, investor, contract, funded>>

Fund(d) ==
  /\ stage[d] = "awaiting_payment" /\ funded[d] = 0
  /\ funded' = [funded EXCEPT ![d] = 1]
  /\ UNCHANGED <<kyc, investor, contract, stage>>

Activate(d) ==
  /\ stage[d] = "awaiting_payment" /\ funded[d] = 1
  /\ stage' = [stage EXCEPT ![d] = "active"]
  /\ UNCHANGED <<kyc, investor, contract, funded>>

CancelDeal(d) ==
  /\ Waiting(d) /\ contract[d] = "cancelled"
  /\ stage' = [stage EXCEPT ![d] = "cancelled"]
  /\ UNCHANGED <<kyc, investor, contract, funded>>

Next ==
  \/ \E i \in Investors : ReviewKyc(i)
  \/ \E d \in Deals, i \in Investors : Reserve(d, i)
  \/ \E d \in Deals, s \in {"sent", "viewed", "signed", "cancelled"} : Contract(d, s)
  \/ \E d \in Deals : \/ PassKyc(d) \/ AwaitPayment(d) \/ Fund(d)
                      \/ Activate(d) \/ CancelDeal(d)

Spec == Init /\ [][Next]_vars
=============================================================================
