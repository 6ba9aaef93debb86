------------------------------- MODULE Client -------------------------------
(***************************************************************************)
(* The parts of the applications that run in the browser (or on the        *)
(* phone) and share no state with each other: the HTTP client, signing in, *)
(* the second factor, the bell, the socket and the toasts.  In a behaviour *)
(* one of them runs and the others rest.                                   *)
(***************************************************************************)
EXTENDS RuntimeClient, SessionClient, TwoFactorClient, NoticesClient

VARIABLE part   \* the part that runs

clientVars == <<runtimeVars, sessionVars, twoFactorVars, noticesVars, part>>

ClientInit ==
  /\ part \in {"runtime", "session", "twoFactor", "bell", "socket", "toasts"}
  /\ RuntimeInit /\ (part # "runtime" => adapter = "web" /\ manifest = "open")
  /\ SessionInit /\ (part # "session" => page = "landing" /\ session = Nobody)
  /\ TwoFactorInit
  /\ NoticesInit

RuntimeStep ==
  /\ part = "runtime" /\ RuntimeNext
  /\ UNCHANGED <<sessionVars, twoFactorVars, noticesVars, part>>

SessionStep ==
  /\ part = "session" /\ SessionNext
  /\ UNCHANGED <<runtimeVars, twoFactorVars, noticesVars, part>>

TwoFactorStep ==
  /\ part = "twoFactor" /\ TwoFactorNext
  /\ UNCHANGED <<runtimeVars, sessionVars, noticesVars, part>>

NoticesStep ==
  /\ \/ part = "bell" /\ BellNext /\ UNCHANGED <<linkVars, toastVars>>
     \/ part = "socket" /\ LinkNext /\ UNCHANGED <<bellVars, toastVars>>
     \/ part = "toasts" /\ ToastNext /\ UNCHANGED <<bellVars, linkVars>>
  /\ UNCHANGED <<runtimeVars, sessionVars, twoFactorVars, part>>

ClientNext == RuntimeStep \/ SessionStep \/ TwoFactorStep \/ NoticesStep

(* The fairness of each part; what it asks for is not enabled in the       *)
(* others.                                                                 *)
ClientFairness ==
  /\ RuntimeFairness
  /\ \A p \in Polls :
       WF_clientVars(/\ part = "bell" /\ PollRuns(p)
                     /\ UNCHANGED <<runtimeVars, sessionVars, twoFactorVars,
                                    linkVars, toastVars, part>>)

ClientSpec == ClientInit /\ [][ClientNext]_clientVars /\ ClientFairness
=============================================================================
