-------------------------- MODULE TwoFactorClient --------------------------
(***************************************************************************)
(* Turning the second factor on and off: the wizard that enrols an         *)
(* authenticator (a page, TwoFactorSetupPage, and a dialog,                *)
(* TwoFactorSetupModal), the page that manages it (TwoFactorRecoveryPage)  *)
(* and the handlers of the account they call (backend/two_factor.py).      *)
(*                                                                         *)
(* One person works in several tabs.  The server reads the account, checks *)
(* it and writes it back in two steps; a tab that is left neither gives up *)
(* its request nor hears its answer.  Bounds of the model: a tab has one   *)
(* request of the wizard on its way and opens nothing until it is answered.*)
(***************************************************************************)
EXTENDS FiniteSets

CONSTANTS
  Tabs,
  Opens,       \* what each tab may open: "setup", "modal", "manage"
  Secrets,     \* TOTP secrets that can be minted
  Devices,     \* trusted devices
  None         \* no secret, no codes

(* Ten recovery codes; which ten no property tells apart (a code that is   *)
(* no longer good is one of the requests that fail).                       *)
Codes == "codes"

ASSUME TwoFactorAssumption ==
  /\ None \notin Secrets /\ Codes \notin Secrets
  /\ Opens \in [Tabs -> SUBSET {"setup", "modal", "manage"}]

VARIABLES
  account,     \* the user document: enabled, secret, pending, codes, devices
  minted,      \* secrets the server has generated
  scanned,     \* secrets in the authenticator of the person
  tab,         \* what each tab shows
  call,        \* the request of each tab, None when there is none
  cancelling   \* tabs whose POST /setup/cancel the server has not served

twoFactorVars == <<account, minted, scanned, tab, call, cancelling>>

Wizard == {"setup", "modal"}

NoAccountFactor == [enabled |-> FALSE, secret |-> None, pending |-> None,
                    codes |-> None, devices |-> Devices]

(* A tab away from these pages.  The dialog stays mounted when it is       *)
(* closed: it keeps what it showed until it is opened again.               *)
AwayTab == [at |-> "away", step |-> "intro", shown |-> None, codes |-> None,
            on |-> FALSE, userOn |-> FALSE, devices |-> {}]

TwoFactorInit ==
  /\ account = NoAccountFactor
  /\ minted = {}
  /\ scanned = {}
  /\ tab = [t \in Tabs |-> AwayTab]
  /\ call = [t \in Tabs |-> None]
  /\ cancelling = {}

(* A request leaves tab t with a code (None: it needs none).               *)
Sent(t, op, code) ==
  [op |-> op, code |-> code, got |-> None, stage |-> "sent", from |-> tab[t].at]

Post(t, op, code) ==
  /\ call[t] = None
  /\ call' = [call EXCEPT ![t] = Sent(t, op, code)]

FirstLoad(t) == [Sent(t, "load", None) EXCEPT !.from = "manage"]

At(t, op, stage) == call[t] # None /\ call[t].op = op /\ call[t].stage = stage

(* The effect both wizards clean up with: the pending secret is dropped    *)
(* when they go before they showed recovery codes.                         *)
Abandoned(t) == tab[t].shown # None /\ tab[t].codes = None

CancelIf(t, b) == cancelling' = IF b THEN cancelling \cup {t} ELSE cancelling

---------------------------------------------------------------------------
(* The tabs.                                                               *)

(* The setup page; a user who is known to have the second factor is sent   *)
(* on to manage it.                                                        *)
OpenSetup(t) ==
  /\ "setup" \in Opens[t]
  /\ tab[t].at = "away" \/ (tab[t].at = "manage" /\ ~tab[t].on)
  /\ call[t] = None
  /\ ~tab[t].userOn
  /\ tab' = [tab EXCEPT ![t] = [AwayTab EXCEPT !.at = "setup"]]
  /\ UNCHANGED <<account, minted, scanned, call, cancelling>>

(* The dialog: the reset on opening cleans up after what it still holds.   *)
OpenModal(t) ==
  /\ "modal" \in Opens[t]
  /\ tab[t].at = "away"
  /\ call[t] = None
  /\ CancelIf(t, Abandoned(t))
  /\ tab' = [tab EXCEPT ![t] = [AwayTab EXCEPT !.at = "modal", !.userOn = tab[t].userOn]]
  /\ UNCHANGED <<account, minted, scanned, call>>

(* The tab is loaded anew: checkAuth of App.js learns whether the second   *)
(* factor is on.                                                           *)
Reopen(t) ==
  /\ tab[t].at = "away"
  /\ call[t] = None
  /\ tab' = [tab EXCEPT ![t] = [AwayTab EXCEPT !.userOn = account.enabled]]
  /\ UNCHANGED <<account, minted, scanned, call, cancelling>>

(* begin.                                                                  *)
Begin(t) ==
  /\ tab[t].at \in Wizard
  /\ tab[t].step = "intro"
  /\ Post(t, "setup", None)
  /\ UNCHANGED <<account, minted, scanned, tab, cancelling>>

(* The QR code or the secret is taken over into the authenticator.         *)
Scan(t) ==
  /\ tab[t].at \in Wizard
  /\ tab[t].step = "scan"
  /\ scanned' = scanned \cup {tab[t].shown}
  /\ UNCHANGED <<account, minted, tab, call, cancelling>>

(* verify: a code is typed that the authenticator computes.                *)
VerifyCode(t, s) ==
  /\ tab[t].at \in Wizard
  /\ tab[t].step = "scan"
  /\ s \in scanned
  /\ Post(t, "verify", s)
  /\ UNCHANGED <<account, minted, scanned, tab, cancelling>>

(* The wizard is left from any step: back, Cancel, the cross.              *)
LeaveWizard(t) ==
  /\ tab[t].at \in Wizard
  /\ CancelIf(t, Abandoned(t))
  /\ tab' = [tab EXCEPT ![t] =
       IF @.at = "modal" THEN [@ EXCEPT !.at = "away"]
                         ELSE [AwayTab EXCEPT !.userOn = tab[t].userOn]]
  /\ UNCHANGED <<account, minted, scanned, call>>

(* finish: the page goes on to the management, the dialog closes.          *)
Finish(t) ==
  /\ tab[t].at \in Wizard
  /\ tab[t].step = "recovery"
  /\ IF tab[t].at = "setup"
     THEN /\ tab' = [tab EXCEPT ![t] = [AwayTab EXCEPT !.at = "manage",
                                                     !.userOn = tab[t].userOn]]
          /\ call' = [call EXCEPT ![t] = FirstLoad(t)]
     ELSE /\ tab' = [tab EXCEPT ![t].at = "away"]
          /\ call' = call
  /\ UNCHANGED <<account, minted, scanned, cancelling>>

(* TwoFactorRecoveryPage: it loads on its first render.                    *)
OpenManage(t) ==
  /\ "manage" \in Opens[t]
  /\ tab[t].at = "away"
  /\ call[t] = None
  /\ tab' = [tab EXCEPT ![t] = [AwayTab EXCEPT !.at = "manage", !.userOn = tab[t].userOn]]
  /\ call' = [call EXCEPT ![t] = FirstLoad(t)]
  /\ UNCHANGED <<account, minted, scanned, cancelling>>

LeaveManage(t) ==
  /\ tab[t].at = "manage"
  /\ tab' = [tab EXCEPT ![t] = [AwayTab EXCEPT !.userOn = tab[t].userOn]]
  /\ UNCHANGED <<account, minted, scanned, call, cancelling>>

(* disable takes a code of the authenticator or a recovery code,           *)
(* regenerate a code of the authenticator; new codes must be acknowledged  *)
(* before anything else.                                                   *)
Disable(t, c) ==
  /\ tab[t].at = "manage" /\ tab[t].on /\ tab[t].codes = None
  /\ c \in scanned \cup {Codes}
  /\ Post(t, "disable", c)
  /\ UNCHANGED <<account, minted, scanned, tab, cancelling>>

Regenerate(t, s) ==
  /\ tab[t].at = "manage" /\ tab[t].on /\ tab[t].codes = None
  /\ s \in scanned
  /\ Post(t, "regenerate", s)
  /\ UNCHANGED <<account, minted, scanned, tab, cancelling>>

DismissFresh(t) ==
  /\ tab[t].at = "manage"
  /\ tab[t].codes # None
  /\ tab' = [tab EXCEPT ![t].codes = None]
  /\ UNCHANGED <<account, minted, scanned, call, cancelling>>

(* revoke a device the page shows, or all of them.                         *)
Revoke(t, d) ==
  /\ tab[t].at = "manage" /\ tab[t].on /\ tab[t].codes = None
  /\ tab[t].devices # {} /\ (d = None \/ d \in tab[t].devices)
  /\ Post(t, "revoke", d)
  /\ UNCHANGED <<account, minted, scanned, tab, cancelling>>

---------------------------------------------------------------------------
(* The handlers of the account.  The step that ends a handler also brings  *)
(* its answer to the tab, unless the tab has left by then (the dialog      *)
(* hears it even when it is closed): between the two only the tab itself   *)
(* could act, and it may leave before.                                     *)

Heard(t) == tab[t].at = call[t].from \/ call[t].from = "modal"

Ended(t) == call' = [call EXCEPT ![t] = None]

Then(t, op) ==
  call' = [call EXCEPT ![t] = [Sent(t, op, None) EXCEPT !.from = call[t].from]]

(* A handler has written and its answer is lost: the tab shows an error.   *)
AnswerLost(t) == Ended(t) /\ UNCHANGED tab

Reading(t, got) == call' = [call EXCEPT ![t].stage = "read", ![t].got = got]

(* setup: refused when the factor is on; else a new pending secret.        *)
SetupRead(t) ==
  /\ At(t, "setup", "sent")
  /\ IF account.enabled THEN Ended(t) ELSE Reading(t, None)
  /\ UNCHANGED <<account, minted, scanned, tab, cancelling>>

SetupWrite(t, s) ==
  /\ At(t, "setup", "read")
  /\ s \in Secrets \ minted
  /\ minted' = minted \cup {s}
  /\ account' = [account EXCEPT !.pending = s]
  /\ \/ /\ tab' = IF Heard(t) THEN [tab EXCEPT ![t].shown = s, ![t].step = "scan"] ELSE tab
        /\ Ended(t)
     \/ AnswerLost(t)
  /\ UNCHANGED <<scanned, cancelling>>

(* setup_verify reads the pending secret and checks the code against it ...*)
SetupVerifyRead(t) ==
  /\ At(t, "verify", "sent")
  /\ IF account.pending # None /\ ~account.enabled /\ call[t].code = account.pending
     THEN Reading(t, account.pending)
     ELSE Ended(t)
  /\ UNCHANGED <<account, minted, scanned, tab, cancelling>>

(* Mutant: the secret is promoted that is pending when it writes.          *)
SetupVerifyWritePending(t) ==
  /\ At(t, "verify", "read")
  /\ account' = [account EXCEPT !.enabled = TRUE, !.secret = account.pending,
                                !.pending = None, !.codes = Codes]
  /\ tab' = IF Heard(t) THEN [tab EXCEPT ![t].codes = Codes, ![t].step = "recovery"] ELSE tab
  /\ Ended(t)
  /\ UNCHANGED <<minted, scanned, cancelling>>

(* ... and writes what it has read, whatever the account is by then.       *)
SetupVerifyWrite(t) ==
  /\ At(t, "verify", "read")
  /\ account' = [account EXCEPT !.enabled = TRUE, !.secret = call[t].got,
                                !.pending = None, !.codes = Codes]
  /\ \/ /\ tab' = IF Heard(t) THEN [tab EXCEPT ![t].codes = Codes, ![t].step = "recovery"]
                             ELSE tab
        /\ Ended(t)
     \/ AnswerLost(t)
  /\ UNCHANGED <<minted, scanned, cancelling>>

SetupCancel(t) ==
  /\ t \in cancelling
  /\ account' = [account EXCEPT !.pending = None]
  /\ cancelling' = cancelling \ {t}
  /\ UNCHANGED <<minted, scanned, tab, call>>

(* disable checks the code against the active secret and codes, regenerate *)
(* against the secret; disable of what is off is answered well.            *)
CodeRead(t) ==
  /\ At(t, "disable", "sent") \/ At(t, "regenerate", "sent")
  /\ LET c == call[t].code
         disable == call[t].op = "disable"
         right == c = account.secret \/ (disable /\ c = account.codes)
     IN  IF account.enabled /\ right THEN Reading(t, None)
         ELSE IF disable /\ ~account.enabled THEN Then(t, "checkAuth")
         ELSE Ended(t)
  /\ UNCHANGED <<account, minted, scanned, tab, cancelling>>

(* The page asks who is signed in, then loads.                             *)
DisableWrite(t) ==
  /\ At(t, "disable", "read")
  /\ account' = [account EXCEPT !.enabled = FALSE, !.secret = None, !.codes = None]
  /\ \/ Then(t, "checkAuth") /\ UNCHANGED tab
     \/ AnswerLost(t)
  /\ UNCHANGED <<minted, scanned, cancelling>>

RegenerateWrite(t) ==
  /\ At(t, "regenerate", "read")
  /\ account' = [account EXCEPT !.codes = Codes]
  /\ \/ /\ tab' = IF Heard(t) THEN [tab EXCEPT ![t].codes = Codes] ELSE tab
        /\ Then(t, "load")
     \/ AnswerLost(t)
  /\ UNCHANGED <<minted, scanned, cancelling>>

(* A device that is no longer there is answered with 404: no load, like an *)
(* answer that is lost.                                                    *)
RevokeServed(t) ==
  /\ At(t, "revoke", "sent")
  /\ LET d == call[t].code
     IN  /\ account' = [account EXCEPT !.devices = IF d = None THEN {} ELSE @ \ {d}]
         /\ \/ (d = None \/ d \in account.devices) /\ Then(t, "load") /\ UNCHANGED tab
            \/ AnswerLost(t)
  /\ UNCHANGED <<minted, scanned, cancelling>>

(* /auth/me: an answer that fails leaves no user.                          *)
CheckAuthServed(t, ok) ==
  /\ At(t, "checkAuth", "sent")
  /\ tab' = [tab EXCEPT ![t].userOn = ok /\ account.enabled]
  /\ Then(t, "load")
  /\ UNCHANGED <<account, minted, scanned, cancelling>>

(* load: its two GETs (in one step: nothing relates them); a failure is    *)
(* shown as a factor that is off.                                          *)
LoadServed(t, ok) ==
  /\ At(t, "load", "sent")
  /\ tab' = IF Heard(t)
            THEN [tab EXCEPT ![t].on = (ok /\ account.enabled) \/ tab[t].userOn,
                             ![t].devices = IF ok THEN account.devices ELSE {}]
            ELSE tab
  /\ Ended(t)
  /\ UNCHANGED <<account, minted, scanned, cancelling>>

(* A request that changes something is lost on its way, or the server      *)
(* stops before it writes: the tab shows an error.  (The answers lost      *)
(* after the write are in the actions that write.)                         *)
Lost(t) ==
  /\ call[t] # None
  /\ call[t].op \notin {"load", "checkAuth"}
  /\ Ended(t)
  /\ UNCHANGED <<account, minted, scanned, tab, cancelling>>

---------------------------------------------------------------------------
TwoFactorNext ==
  \E t \in Tabs :
    \/ Reopen(t) \/ OpenSetup(t) \/ OpenModal(t) \/ Begin(t) \/ Scan(t)
    \/ LeaveWizard(t) \/ Finish(t)
    \/ OpenManage(t) \/ LeaveManage(t) \/ DismissFresh(t)
    \/ \E s \in Secrets : VerifyCode(t, s) \/ Disable(t, s) \/ Regenerate(t, s)
    \/ Disable(t, Codes)
    \/ \E d \in Devices \cup {None} : Revoke(t, d)
    \/ SetupRead(t) \/ SetupVerifyRead(t) \/ SetupCancel(t) \/ CodeRead(t)
    \/ \E s \in Secrets : SetupWrite(t, s)
    \/ SetupVerifyWrite(t) \/ RegenerateWrite(t) \/ DisableWrite(t)
    \/ RevokeServed(t) \/ Lost(t)
    \/ \E ok \in BOOLEAN : CheckAuthServed(t, ok) \/ LoadServed(t, ok)

TwoFactorSpec == TwoFactorInit /\ [][TwoFactorNext]_twoFactorVars

---------------------------------------------------------------------------
(* Properties.                                                             *)

(* Nobody is locked out: a second factor that is on is one whose secret is *)
(* in the authenticator of the person, whichever tabs began an enrolment,  *)
(* overwrote or cancelled the other's pending secret, or were left.        *)
EnabledSecretIsScanned ==
  account.enabled => account.secret \in scanned
=============================================================================
