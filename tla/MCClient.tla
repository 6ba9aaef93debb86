----------------------------- MODULE MCClient -----------------------------
(***************************************************************************)
(* Instance of Client: two calls with one retry, a client, an              *)
(* administrator with a second factor and a person whose role no route     *)
(* allows, two tabs of one person, one notification and two polls that     *)
(* overtake each other.                                                    *)
(***************************************************************************)
EXTENDS Client, TLC

CONSTANTS c1, c2, u1, u2, u3, t1, t2, n1, p1, p2

MCConfigs ==
  {[method |-> "GET",  keyed |-> FALSE, tagged |-> FALSE, noDedup |-> FALSE],
   [method |-> "GET",  keyed |-> FALSE, tagged |-> TRUE,  noDedup |-> FALSE],
   [method |-> "POST", keyed |-> FALSE, tagged |-> FALSE, noDedup |-> FALSE],
   [method |-> "POST", keyed |-> TRUE,  tagged |-> TRUE,  noDedup |-> FALSE]}

MCRoleOf == u1 :> "client" @@ u2 :> "admin" @@ u3 :> "developer"

MCOpens == t1 :> {"setup", "manage"} @@ t2 :> {"modal"}

MCFailures == {[class |-> "expired", url |-> "a"], [class |-> "server", url |-> "a"]}
=============================================================================
