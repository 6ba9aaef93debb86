--------------------------- MODULE MCLumenWallet ---------------------------
(***************************************************************************)
(* Instances of LumenWallet for TLC.  Amounts are in thousands of hryvnias *)
(* (the minimum withdrawal is one), so the tolerance of one kopeck is      *)
(* below the unit and Slack is zero.                                       *)
(***************************************************************************)
EXTENDS LumenWallet, TLC

CONSTANTS i1, i2, r1, r2, r3, h1, h2

(* One investor, two requests of different amounts.                        *)
MCOwnerOne == [r \in {r1, r2} |-> i1]
MCAmountOne == (r1 :> 1) @@ (r2 :> 2)

(* Two investors; the first has two requests.                              *)
MCOwnerTwo == (r1 :> i1) @@ (r2 :> i1) @@ (r3 :> i2)
MCAmountTwo == (r1 :> 2) @@ (r2 :> 1) @@ (r3 :> 1)

(* A single request.                                                       *)
MCOwnerSingle == [r \in {r1} |-> i1]
MCAmountSingle == [r \in {r1} |-> 1]
=============================================================================
