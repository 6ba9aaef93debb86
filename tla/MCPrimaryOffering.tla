------------------------- MODULE MCPrimaryOffering -------------------------
(***************************************************************************)
(* Instances of PrimaryOffering for TLC.  Amounts are in units of the      *)
(* smallest ticket; the amounts differ so that a sum tells which           *)
(* investments it counts.                                                  *)
(***************************************************************************)
EXTENDS PrimaryOffering, TLC

CONSTANTS i1, i2, n1, n2, n3, d1, d2, p1, p2, h1, h2

(* Two investors; the first has two intents.                               *)
MCInvestorThree == (n1 :> i1) @@ (n2 :> i1) @@ (n3 :> i2)

MCAmountThree == (n1 :> 1) @@ (n2 :> 2) @@ (n3 :> 4)

(* A single intent.                                                        *)
MCInvestorSingle == [n \in {n1} |-> i1]
MCAmountSingle == [n \in {n1} |-> 1]
=============================================================================
