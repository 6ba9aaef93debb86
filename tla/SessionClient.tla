--------------------------- MODULE SessionClient ---------------------------
(***************************************************************************)
(* Signing in and out in one tab of the web application: the AuthProvider  *)
(* and the routes of App.js, the two sign-in pages, the page that asks for *)
(* the second factor and the dialog that resets a password.                *)
(*                                                                         *)
(* The server keeps a session per cookie; the tab keeps the user of the    *)
(* last answer that named one.  The two are changed by different requests, *)
(* and nothing cancels a request when its page is left.                    *)
(***************************************************************************)
EXTENDS Naturals, FiniteSets

CONSTANTS
  Users,         \* people who sign in from this tab
  Nobody,        \* no user
  RoleOf,        \* users.role
  SecondFactor   \* users with two_factor_enabled

ASSUME SessionAssumption ==
  /\ Nobody \notin Users
  /\ "done" \notin Users \cup {Nobody}
  /\ RoleOf \in [Users -> STRING]
  /\ SecondFactor \subseteq Users

VARIABLES
  page,       \* the route of the tab
  user,       \* AuthProvider: user
  loading,    \* AuthProvider: loading
  boot,       \* GET /auth/me of the mount: the user of its cookie, or "done"
  job,        \* the sign-in request of the tab
  session,    \* the user of the cookie, at the server
  challenge,  \* the challenge of the second step: user, state, way back
  dialog,     \* ForgotPasswordModal: its step, and the request it waits for
  stray       \* someone signed in while someone was signed in

sessionVars == <<page, user, loading, boot, job, session, challenge, dialog,
                 stray>>

Someone == Users \cup {Nobody}

Public     == {"landing", "auth", "adminLogin", "challenge"}
Protected  == {"investor", "admin", "account"}

(* allowedRoles of the three groups of protected routes; the account pages *)
(* have none.                                                              *)
Allowed(p, r) ==
  \/ p = "account"
  \/ p = "investor" /\ r \in {"client", "investor", "admin"}
  \/ p = "admin" /\ r = "admin"

(* dashboardRoutes: where a user is sent whose role a page does not allow. *)
DashboardOf(r) == IF r = "admin" THEN "admin" ELSE "investor"

SignInOf(p) == IF p = "admin" THEN "adminLogin" ELSE "auth"

Free == [kind |-> "free", who |-> Nobody, to |-> "landing"]

AtRest == job = Free /\ boot = "done"

Closed == [step |-> "closed", waits |-> "no", who |-> Nobody]

NoChallenge == [who |-> Nobody, state |-> "none", from |-> "investor"]

SessionInit ==
  /\ page \in Public \cup Protected
  /\ user = Nobody
  /\ loading = TRUE
  /\ session \in Someone
  /\ boot = session
  /\ job = Free
  /\ challenge = NoChallenge
  /\ dialog = Closed
  /\ stray = FALSE

---------------------------------------------------------------------------
(* AuthProvider.                                                           *)

(* checkAuth of the mount is answered with the user of the cookie it was   *)
(* sent with, or fails: then there is no user.                             *)
BootAnswer(v) ==
  /\ boot # "done"
  /\ v \in {boot, Nobody}
  /\ user' = v
  /\ loading' = FALSE
  /\ boot' = "done"
  /\ UNCHANGED <<page, job, session, challenge, dialog, stray>>

(* The tab is loaded anew: what the server and the history entry keep (the *)
(* cookie, the state of the challenge page) survives.  A verification      *)
(* given up may have used the challenge.                                   *)
Reload ==
  /\ boot = "done" /\ dialog.waits = "no"
  /\ user' = Nobody
  /\ loading' = TRUE
  /\ boot' = session
  /\ job' = Free
  /\ dialog' = Closed
  /\ \/ challenge' = challenge
     \/ job.kind = "verify" /\ challenge' = [challenge EXCEPT !.state = "dead"]
  /\ UNCHANGED <<page, session, stray>>

(* The tab moves to page p; its requests go on.                            *)
Goto(p) ==
  /\ page' = p
  /\ challenge' = NoChallenge
  /\ dialog' = Closed

(* A link is followed.                                                     *)
Visit(p) ==
  /\ p \in {"landing", "auth", "adminLogin"} \cup Protected
  /\ page # p
  /\ dialog.waits = "no"
  /\ Goto(p)
  /\ UNCHANGED <<user, loading, boot, job, session, stray>>

(* ProtectedRoute: without a user to the sign-in page, with a role that is *)
(* not allowed to the user's own dashboard.  A role no route allows is     *)
(* sent to the dashboard of the investors, which refuses it again.         *)
Redirected ==
  /\ page \in Protected
  /\ ~loading
  /\ user \in Users => ~Allowed(page, RoleOf[user])

Redirect ==
  /\ Redirected
  /\ page' = IF user = Nobody THEN SignInOf(page) ELSE DashboardOf(RoleOf[user])
  /\ UNCHANGED <<user, loading, boot, job, session, challenge, dialog, stray>>

(* logout: an error is ignored, then there is no user; the layout goes to  *)
(* the landing page.                                                       *)
LogoutStart ==
  /\ page \in Protected /\ ~loading /\ ~Redirected
  /\ job = Free
  /\ job' = [kind |-> "logout", who |-> user, to |-> "landing"]
  /\ UNCHANGED <<page, user, loading, boot, session, challenge, dialog, stray>>

(* Mutant: the user stays.                                                 *)
LogoutAnswerOnly ==
  /\ job.kind = "logout"
  /\ \/ session' = Nobody
     \/ session' = session
  /\ Goto("landing")
  /\ job' = Free
  /\ UNCHANGED <<user, loading, boot, stray>>

LogoutAnswer ==
  /\ job.kind = "logout"
  /\ \/ session' = Nobody
     \/ session' = session
  /\ user' = Nobody
  /\ Goto("landing")
  /\ job' = Free
  /\ UNCHANGED <<loading, boot, stray>>

---------------------------------------------------------------------------
(* The sign-in pages.                                                      *)

(* A request that signs u in leaves the tab, to continue at page p.  The   *)
(* submit button is disabled until it is answered.                         *)
Start(kind, u, p) ==
  /\ job = Free /\ dialog.waits = "no"
  /\ job' = [kind |-> kind, who |-> u, to |-> p]
  /\ stray' = (stray \/ user # Nobody \/ session # Nobody \/ boot \in Users)
  /\ UNCHANGED <<page, user, loading, boot, session, challenge, dialog>>

(* UnifiedAuthPage.submit: an account is made first in register mode.      *)
Submit(u) ==
  /\ page = "auth"
  /\ dialog.step = "closed"
  /\ \E kind \in {"register", "login"} : Start(kind, u, "investor")

(* A demo chip and the Google button: a session is opened, then checkAuth  *)
(* asks whose it is.                                                       *)
QuickLogin(u) ==
  /\ page = "auth"
  /\ dialog.step = "closed"
  /\ Start("quick", u, DashboardOf(RoleOf[u]))

GoogleLogin(u) ==
  /\ page = "auth"
  /\ dialog.step = "closed"
  /\ RoleOf[u] = "client"
  /\ Start("google", u, "investor")

(* AdminLoginPage.handleSubmit and handleDemoAccess.                       *)
AdminSubmit(u) ==
  /\ page = "adminLogin"
  /\ dialog.step = "closed"
  /\ Start("adminLogin", u, "admin")

AdminDemo(u) ==
  /\ page = "adminLogin"
  /\ dialog.step = "closed"
  /\ RoleOf[u] = "admin"
  /\ Start("demo", u, "admin")

(* The request fails: the page says so.                                    *)
Refused ==
  /\ job.kind \in {"register", "login", "quick", "google", "adminLogin",
                   "demo", "verify"}
  /\ job' = Free
  /\ UNCHANGED <<page, user, loading, boot, session, challenge, dialog, stray>>

(* The tab is signed in as the user of the answer, and goes to p.          *)
Enter(u, p) ==
  /\ user' = u
  /\ Goto(p)
  /\ job' = Free

(* /auth/register opens a session; then the form logs in.                  *)
Registered ==
  /\ job.kind = "register"
  /\ session' = job.who
  /\ job' = [job EXCEPT !.kind = "login"]
  /\ UNCHANGED <<page, user, loading, boot, challenge, dialog, stray>>

(* /auth/login answers with the user, whose session it has opened ...      *)
LoggedIn ==
  /\ job.kind = "login"
  /\ session' = job.who
  /\ Enter(job.who, "investor")
  /\ UNCHANGED <<loading, boot, stray>>

(* ... or, unless the device is trusted, with a challenge.                 *)
Challenged ==
  /\ job.kind \in {"login", "adminLogin"}
  /\ job.who \in SecondFactor
  /\ challenge' = [who |-> job.who, state |-> "live", from |-> job.to]
  /\ page' = "challenge"
  /\ job' = Free
  /\ dialog' = Closed
  /\ UNCHANGED <<user, loading, boot, session, stray>>

(* AdminLoginPage refuses who is no admin after the server has opened the  *)
(* session.                                                                *)
AdminLoggedIn ==
  /\ job.kind = "adminLogin"
  /\ session' = job.who
  /\ IF RoleOf[job.who] = "admin"
     THEN Enter(job.who, "admin")
     ELSE job' = Free /\ UNCHANGED <<page, user, dialog, challenge>>
  /\ UNCHANGED <<loading, boot, stray>>

DemoLoggedIn ==
  /\ job.kind = "demo"
  /\ session' = job.who
  /\ Enter(job.who, "admin")
  /\ UNCHANGED <<loading, boot, stray>>

(* The session is open; checkAuth is asked.                                *)
QuickOpened ==
  /\ job.kind \in {"quick", "google"}
  /\ session' = job.who
  /\ job' = [job EXCEPT !.kind = "check"]
  /\ UNCHANGED <<page, user, loading, boot, challenge, dialog, stray>>

(* checkAuth does not throw: the page goes on whatever it found.           *)
QuickChecked ==
  /\ job.kind = "check"
  /\ \E v \in {session, Nobody} : Enter(v, job.to)
  /\ loading' = FALSE
  /\ UNCHANGED <<boot, session, stray>>

---------------------------------------------------------------------------
(* TwoFactorChallengePage.                                                 *)

(* Without a challenge the page sends its visitor to sign in.              *)
ChallengeKick ==
  /\ page = "challenge"
  /\ challenge.state = "none"
  /\ page' = SignInOf(challenge.from)
  /\ UNCHANGED <<user, loading, boot, job, session, challenge, dialog, stray>>

(* submit; a reloaded page runs its clock anew and may ask again.          *)
Verify ==
  /\ page = "challenge"
  /\ challenge.state # "none"
  /\ Start("verify", challenge.who, challenge.from)

(* /auth/2fa/verify takes the code once.                                   *)
Verified ==
  /\ job.kind = "verify"
  /\ challenge.state = "live"
  /\ session' = job.who
  /\ Enter(job.who, job.to)
  /\ UNCHANGED <<loading, boot, stray>>

(* The five minutes of the challenge, and of the clock of the page, end.   *)
ChallengeExpires ==
  /\ challenge.state = "live"
  /\ challenge' = [challenge EXCEPT !.state = "dead"]
  /\ UNCHANGED <<page, user, loading, boot, job, session, dialog, stray>>

(* restart: back to the page the challenge came from.                      *)
Restart ==
  /\ page = "challenge"
  /\ challenge.state # "none"
  /\ Goto(SignInOf(challenge.from))
  /\ UNCHANGED <<user, loading, boot, job, session, stray>>

---------------------------------------------------------------------------
(* ForgotPasswordModal, opened by either sign-in page; nobody signs in or  *)
(* leaves the page while it waits for an answer (a bound of the model).    *)

OpenDialog ==
  /\ page \in {"auth", "adminLogin"} /\ AtRest
  /\ dialog.step = "closed"
  /\ dialog' = [dialog EXCEPT !.step = "email"]
  /\ UNCHANGED <<page, user, loading, boot, job, session, challenge, stray>>

(* The dialog is closed, or goes back to change the address; a request it  *)
(* waits for is not given up.                                              *)
LeaveStep(s) ==
  /\ dialog.step # "closed"
  /\ s = "closed" \/ (s = "email" /\ dialog.step = "code")
  /\ dialog' = [dialog EXCEPT !.step = s]
  /\ UNCHANGED <<page, user, loading, boot, job, session, challenge, stray>>

RequestCode(u) ==
  /\ dialog.step \in {"email", "code"} /\ dialog.waits = "no"
  /\ dialog' = [dialog EXCEPT !.waits = "request", !.who = u]
  /\ UNCHANGED <<page, user, loading, boot, job, session, challenge, stray>>

SubmitReset ==
  /\ dialog.step = "code" /\ dialog.waits = "no"
  /\ dialog' = [dialog EXCEPT !.waits = "reset"]
  /\ UNCHANGED <<page, user, loading, boot, job, session, challenge, stray>>

(* An answer moves the dialog to the next step, whatever step it shows by  *)
(* then; a reset has deleted the sessions of the user at the server.       *)
DialogAnswer(ok) ==
  /\ dialog.waits # "no"
  /\ LET reset == ok /\ dialog.waits = "reset"
         next == IF reset THEN "done" ELSE "code"
     IN  /\ dialog' = [dialog EXCEPT !.waits = "no", !.who = IF reset THEN Nobody ELSE @,
                         !.step = IF ok /\ @ # "closed" THEN next ELSE @]
         /\ session' = IF reset /\ session = dialog.who THEN Nobody ELSE session
         /\ stray' = (stray \/ (reset /\ session = dialog.who))
  /\ UNCHANGED <<page, user, loading, boot, job, challenge>>

---------------------------------------------------------------------------
Answer ==
  \/ \E v \in Someone : BootAnswer(v)
  \/ LogoutAnswer
  \/ Refused
  \/ Registered
  \/ LoggedIn
  \/ Challenged
  \/ AdminLoggedIn
  \/ DemoLoggedIn
  \/ QuickOpened
  \/ QuickChecked
  \/ Verified

(* Effects of a render.                                                    *)
Render == Redirect \/ ChallengeKick

SessionNext ==
  \/ Answer
  \/ Render
  \/ Reload
  \/ \E p \in Public \cup Protected : Visit(p)
  \/ LogoutStart
  \/ \E u \in Users :
       \/ Submit(u)
       \/ QuickLogin(u)
       \/ GoogleLogin(u)
       \/ AdminSubmit(u)
       \/ AdminDemo(u)
       \/ RequestCode(u)
  \/ Verify
  \/ ChallengeExpires
  \/ Restart
  \/ OpenDialog
  \/ \E s \in {"closed", "email"} : LeaveStep(s)
  \/ SubmitReset
  \/ \E ok \in BOOLEAN : DialogAnswer(ok)

SessionSpec == SessionInit /\ [][SessionNext]_sessionVars

---------------------------------------------------------------------------
(* Properties.                                                             *)

(* As long as nobody signs in over another session (or resets the password *)
(* of the session in use), the user the tab shows, once no request is on   *)
(* its way, is the user the server knows its cookie by: what the cabinet   *)
(* does is done in the name it shows.                                      *)
ShownIsSignedIn ==
  AtRest /\ ~stray /\ user # Nobody => user = session
=============================================================================
