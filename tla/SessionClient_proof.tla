------------------------ MODULE SessionClient_proof ------------------------
(***************************************************************************)
(* What SessionClient promises of the user a tab shows, for any people,    *)
(* roles and second factors.                                               *)
(*                                                                         *)
(* ShownIsSignedIn speaks of a tab at rest and is not inductive.  As long  *)
(* as nobody signs in over another session, a request that signs in leaves *)
(* a tab that shows nobody (SignsInAlone), and while checkAuth of the      *)
(* mount knows a user nothing else is on its way that could change the     *)
(* session (BootIsCurrent).                                                *)
(***************************************************************************)
EXTENDS SessionClient, TLAPS

SignIns == {"register", "login", "quick", "google", "adminLogin", "demo",
            "verify", "check"}

SessionTypeOK ==
  /\ user \in Someone
  /\ session \in Someone
  /\ boot \in Someone \cup {"done"}
  /\ job \in [kind : SignIns \cup {"free", "logout"}, who : Someone,
              to : Public \cup Protected]
  /\ challenge \in [who : Someone, state : {"none", "live", "dead"},
                    from : Public \cup Protected]
  /\ stray \in BOOLEAN

ShownIsSession == ~stray /\ user # Nobody => user = session

SignsInAlone == ~stray /\ job.kind \in SignIns => user = Nobody

BootIsCurrent ==
  ~stray /\ boot \in Users => boot = session /\ loading = TRUE /\ job = Free

SessionIInv ==
  /\ SessionTypeOK
  /\ ShownIsSession
  /\ SignsInAlone
  /\ BootIsCurrent
---------------------------------------------------------------------------
(* Before the first answer the tab shows nobody.                           *)
LEMMA SessionInitIInv == SessionInit => SessionIInv
<1> SUFFICES ASSUME SessionInit PROVE SessionIInv
  OBVIOUS
<1>1. SessionTypeOK
  BY DEF SessionInit, SessionTypeOK, Someone, Free, NoChallenge, Public,
     Protected
<1>2. job.kind = "free"
  BY DEF SessionInit, Free
<1>3. SignsInAlone
  BY <1>2 DEF SignsInAlone, SignIns
<1>4. ShownIsSession
  BY DEF SessionInit, ShownIsSession
<1>5. BootIsCurrent
  BY DEF SessionInit, BootIsCurrent
<1> QED
  BY <1>1, <1>3, <1>4, <1>5 DEF SessionIInv

(* A step keeps the types.                                                 *)
LEMMA SessionTypeStep ==
  SessionIInv /\ [SessionNext]_sessionVars => SessionTypeOK'
<1> SUFFICES ASSUME SessionIInv, [SessionNext]_sessionVars
             PROVE  SessionTypeOK'
  OBVIOUS
<1> USE SessionAssumption DEF SessionIInv, SessionTypeOK, SignIns, Someone,
    Public, Protected
<1>1. ASSUME NEW v \in Someone, BootAnswer(v) PROVE SessionTypeOK'
  BY <1>1 DEF BootAnswer
<1>2. ASSUME LogoutAnswer PROVE SessionTypeOK'
  BY <1>2 DEF LogoutAnswer, Goto, Free, NoChallenge, Closed
<1>3. ASSUME Refused PROVE SessionTypeOK'
  BY <1>3 DEF Refused, Free
<1>4. ASSUME Registered PROVE SessionTypeOK'
  BY <1>4 DEF Registered
<1>5. ASSUME LoggedIn PROVE SessionTypeOK'
  BY <1>5 DEF LoggedIn, Enter, Goto, Free, NoChallenge
<1>6. ASSUME Challenged PROVE SessionTypeOK'
  BY <1>6 DEF Challenged, Free
<1>7. ASSUME AdminLoggedIn PROVE SessionTypeOK'
  BY <1>7 DEF AdminLoggedIn, Enter, Goto, Free, NoChallenge
<1>8. ASSUME DemoLoggedIn PROVE SessionTypeOK'
  BY <1>8 DEF DemoLoggedIn, Enter, Goto, Free, NoChallenge
<1>9. ASSUME QuickOpened PROVE SessionTypeOK'
  BY <1>9 DEF QuickOpened
<1>10. ASSUME QuickChecked PROVE SessionTypeOK'
  BY <1>10 DEF QuickChecked, Enter, Goto, Free, NoChallenge
<1>11. ASSUME Verified PROVE SessionTypeOK'
  BY <1>11 DEF Verified, Enter, Goto, Free, NoChallenge
<1>12. ASSUME Redirect PROVE SessionTypeOK'
  BY <1>12 DEF Redirect
<1>13. ASSUME ChallengeKick PROVE SessionTypeOK'
  BY <1>13 DEF ChallengeKick
<1>14. ASSUME Reload PROVE SessionTypeOK'
  BY <1>14 DEF Reload, Free
<1>15. ASSUME NEW p \in Public \cup Protected, Visit(p) PROVE SessionTypeOK'
  BY <1>15 DEF Visit, Goto, NoChallenge
<1>16. ASSUME LogoutStart PROVE SessionTypeOK'
  BY <1>16 DEF LogoutStart
<1>17. ASSUME NEW u \in Users, Submit(u) PROVE SessionTypeOK'
  BY <1>17 DEF Submit, Start
<1>18. ASSUME NEW u \in Users, QuickLogin(u) PROVE SessionTypeOK'
  BY <1>18 DEF QuickLogin, Start, DashboardOf
<1>19. ASSUME NEW u \in Users, GoogleLogin(u) PROVE SessionTypeOK'
  BY <1>19 DEF GoogleLogin, Start
<1>20. ASSUME NEW u \in Users, AdminSubmit(u) PROVE SessionTypeOK'
  BY <1>20 DEF AdminSubmit, Start
<1>21. ASSUME NEW u \in Users, AdminDemo(u) PROVE SessionTypeOK'
  BY <1>21 DEF AdminDemo, Start
<1>22. ASSUME NEW u \in Users, RequestCode(u) PROVE SessionTypeOK'
  BY <1>22 DEF RequestCode
<1>23. ASSUME Verify PROVE SessionTypeOK'
  BY <1>23 DEF Verify, Start
<1>24. ASSUME ChallengeExpires PROVE SessionTypeOK'
  BY <1>24 DEF ChallengeExpires
<1>25. ASSUME Restart PROVE SessionTypeOK'
  BY <1>25 DEF Restart, Goto, NoChallenge
<1>26. ASSUME OpenDialog PROVE SessionTypeOK'
  BY <1>26 DEF OpenDialog
<1>27. ASSUME NEW s \in {"closed", "email"}, LeaveStep(s) PROVE SessionTypeOK'
  BY <1>27 DEF LeaveStep
<1>28. ASSUME SubmitReset PROVE SessionTypeOK'
  BY <1>28 DEF SubmitReset
<1>29. ASSUME NEW ok \in BOOLEAN, DialogAnswer(ok) PROVE SessionTypeOK'
  BY <1>29 DEF DialogAnswer
<1>30. CASE UNCHANGED sessionVars
  BY <1>30 DEF sessionVars
<1> HIDE SessionAssumption DEF SessionIInv, SessionTypeOK, SignIns, Someone,
    Public, Protected
<1> QED
  BY <1>1, <1>2, <1>3, <1>4, <1>5, <1>6, <1>7, <1>8, <1>9, <1>10, <1>11,
     <1>12, <1>13, <1>14, <1>15, <1>16, <1>17, <1>18, <1>19, <1>20, <1>21,
     <1>22, <1>23, <1>24, <1>25, <1>26, <1>27, <1>28, <1>29, <1>30 DEF
     SessionNext, Answer, Render

(* A step keeps the shown user the one of the session.                     *)
LEMMA ShownStep ==
  SessionIInv /\ [SessionNext]_sessionVars => ShownIsSession'
<1> SUFFICES ASSUME SessionIInv, [SessionNext]_sessionVars
             PROVE  ShownIsSession'
  OBVIOUS
<1> USE SessionAssumption DEF SessionIInv, SessionTypeOK, ShownIsSession,
    SignsInAlone, BootIsCurrent, SignIns, Someone, Free
<1>1. ASSUME NEW v \in Someone, BootAnswer(v) PROVE ShownIsSession'
  BY <1>1 DEF BootAnswer
<1>2. ASSUME LogoutAnswer PROVE ShownIsSession'
  BY <1>2 DEF LogoutAnswer, Goto, Free, NoChallenge, Closed
<1>3. ASSUME Refused PROVE ShownIsSession'
  BY <1>3 DEF Refused, Free
<1>4. ASSUME Registered PROVE ShownIsSession'
  BY <1>4 DEF Registered
<1>5. ASSUME LoggedIn PROVE ShownIsSession'
  BY <1>5 DEF LoggedIn, Enter, Goto, Free, NoChallenge
<1>6. ASSUME Challenged PROVE ShownIsSession'
  BY <1>6 DEF Challenged, Free
<1>7. ASSUME AdminLoggedIn PROVE ShownIsSession'
  BY <1>7 DEF AdminLoggedIn, Enter, Goto, Free, NoChallenge
<1>8. ASSUME DemoLoggedIn PROVE ShownIsSession'
  BY <1>8 DEF DemoLoggedIn, Enter, Goto, Free, NoChallenge
<1>9. ASSUME QuickOpened PROVE ShownIsSession'
  BY <1>9 DEF QuickOpened
<1>10. ASSUME QuickChecked PROVE ShownIsSession'
  BY <1>10 DEF QuickChecked, Enter, Goto, Free, NoChallenge
<1>11. ASSUME Verified PROVE ShownIsSession'
  BY <1>11 DEF Verified, Enter, Goto, Free, NoChallenge
<1>12. ASSUME Redirect PROVE ShownIsSession'
  BY <1>12 DEF Redirect
<1>13. ASSUME ChallengeKick PROVE ShownIsSession'
  BY <1>13 DEF ChallengeKick
<1>14. ASSUME Reload PROVE ShownIsSession'
  BY <1>14 DEF Reload, Free
<1>15. ASSUME NEW p \in Public \cup Protected, Visit(p) PROVE ShownIsSession'
  BY <1>15 DEF Visit, Goto, NoChallenge
<1>16. ASSUME LogoutStart PROVE ShownIsSession'
  BY <1>16 DEF LogoutStart
<1>17. ASSUME NEW u \in Users, Submit(u) PROVE ShownIsSession'
  BY <1>17 DEF Submit, Start
<1>18. ASSUME NEW u \in Users, QuickLogin(u) PROVE ShownIsSession'
  BY <1>18 DEF QuickLogin, Start, DashboardOf
<1>19. ASSUME NEW u \in Users, GoogleLogin(u) PROVE ShownIsSession'
  BY <1>19 DEF GoogleLogin, Start
<1>20. ASSUME NEW u \in Users, AdminSubmit(u) PROVE ShownIsSession'
  BY <1>20 DEF AdminSubmit, Start
<1>21. ASSUME NEW u \in Users, AdminDemo(u) PROVE ShownIsSession'
  BY <1>21 DEF AdminDemo, Start
<1>22. ASSUME NEW u \in Users, RequestCode(u) PROVE ShownIsSession'
  BY <1>22 DEF RequestCode
<1>23. ASSUME Verify PROVE ShownIsSession'
  BY <1>23 DEF Verify, Start
<1>24. ASSUME ChallengeExpires PROVE ShownIsSession'
  BY <1>24 DEF ChallengeExpires
<1>25. ASSUME Restart PROVE ShownIsSession'
  BY <1>25 DEF Restart, Goto, NoChallenge
<1>26. ASSUME OpenDialog PROVE ShownIsSession'
  BY <1>26 DEF OpenDialog
<1>27. ASSUME NEW s \in {"closed", "email"}, LeaveStep(s)
       PROVE  ShownIsSession'
  BY <1>27 DEF LeaveStep
<1>28. ASSUME SubmitReset PROVE ShownIsSession'
  BY <1>28 DEF SubmitReset
<1>29. ASSUME NEW ok \in BOOLEAN, DialogAnswer(ok) PROVE ShownIsSession'
  BY <1>29 DEF DialogAnswer
<1>30. CASE UNCHANGED sessionVars
  BY <1>30 DEF sessionVars
<1> HIDE SessionAssumption DEF SessionIInv, SessionTypeOK, ShownIsSession,
    SignsInAlone, BootIsCurrent, SignIns, Someone, Free
<1> QED
  BY <1>1, <1>2, <1>3, <1>4, <1>5, <1>6, <1>7, <1>8, <1>9, <1>10, <1>11,
     <1>12, <1>13, <1>14, <1>15, <1>16, <1>17, <1>18, <1>19, <1>20, <1>21,
     <1>22, <1>23, <1>24, <1>25, <1>26, <1>27, <1>28, <1>29, <1>30 DEF
     SessionNext, Answer, Render

(* A step lets nobody sign in beside somebody.                             *)
LEMMA SignsInStep ==
  SessionIInv /\ [SessionNext]_sessionVars => SignsInAlone'
<1> SUFFICES ASSUME SessionIInv, [SessionNext]_sessionVars PROVE SignsInAlone'
  OBVIOUS
<1> USE SessionAssumption DEF SessionIInv, SessionTypeOK, ShownIsSession,
    SignsInAlone, BootIsCurrent, SignIns, Someone, Free
<1>1. ASSUME NEW v \in Someone, BootAnswer(v) PROVE SignsInAlone'
  BY <1>1 DEF BootAnswer
<1>2. ASSUME LogoutAnswer PROVE SignsInAlone'
  BY <1>2 DEF LogoutAnswer, Goto, Free, NoChallenge, Closed
<1>3. ASSUME Refused PROVE SignsInAlone'
  BY <1>3 DEF Refused, Free
<1>4. ASSUME Registered PROVE SignsInAlone'
  BY <1>4 DEF Registered
<1>5. ASSUME LoggedIn PROVE SignsInAlone'
  BY <1>5 DEF LoggedIn, Enter, Goto, Free, NoChallenge
<1>6. ASSUME Challenged PROVE SignsInAlone'
  BY <1>6 DEF Challenged, Free
<1>7. ASSUME AdminLoggedIn PROVE SignsInAlone'
  BY <1>7 DEF AdminLoggedIn, Enter, Goto, Free, NoChallenge
<1>8. ASSUME DemoLoggedIn PROVE SignsInAlone'
  BY <1>8 DEF DemoLoggedIn, Enter, Goto, Free, NoChallenge
<1>9. ASSUME QuickOpened PROVE SignsInAlone'
  BY <1>9 DEF QuickOpened
<1>10. ASSUME QuickChecked PROVE SignsInAlone'
  BY <1>10 DEF QuickChecked, Enter, Goto, Free, NoChallenge
<1>11. ASSUME Verified PROVE SignsInAlone'
  BY <1>11 DEF Verified, Enter, Goto, Free, NoChallenge
<1>12. ASSUME Redirect PROVE SignsInAlone'
  BY <1>12 DEF Redirect
<1>13. ASSUME ChallengeKick PROVE SignsInAlone'
  BY <1>13 DEF ChallengeKick
<1>14. ASSUME Reload PROVE SignsInAlone'
  BY <1>14 DEF Reload, Free
<1>15. ASSUME NEW p \in Public \cup Protected, Visit(p) PROVE SignsInAlone'
  BY <1>15 DEF Visit, Goto, NoChallenge
<1>16. ASSUME LogoutStart PROVE SignsInAlone'
  BY <1>16 DEF LogoutStart
<1>17. ASSUME NEW u \in Users, Submit(u) PROVE SignsInAlone'
  BY <1>17 DEF Submit, Start
<1>18. ASSUME NEW u \in Users, QuickLogin(u) PROVE SignsInAlone'
  BY <1>18 DEF QuickLogin, Start, DashboardOf
<1>19. ASSUME NEW u \in Users, GoogleLogin(u) PROVE SignsInAlone'
  BY <1>19 DEF GoogleLogin, Start
<1>20. ASSUME NEW u \in Users, AdminSubmit(u) PROVE SignsInAlone'
  BY <1>20 DEF AdminSubmit, Start
<1>21. ASSUME NEW u \in Users, AdminDemo(u) PROVE SignsInAlone'
  BY <1>21 DEF AdminDemo, Start
<1>22. ASSUME NEW u \in Users, RequestCode(u) PROVE SignsInAlone'
  BY <1>22 DEF RequestCode
<1>23. ASSUME Verify PROVE SignsInAlone'
  BY <1>23 DEF Verify, Start
<1>24. ASSUME ChallengeExpires PROVE SignsInAlone'
  BY <1>24 DEF ChallengeExpires
<1>25. ASSUME Restart PROVE SignsInAlone'
  BY <1>25 DEF Restart, Goto, NoChallenge
<1>26. ASSUME OpenDialog PROVE SignsInAlone'
  BY <1>26 DEF OpenDialog
<1>27. ASSUME NEW s \in {"closed", "email"}, LeaveStep(s) PROVE SignsInAlone'
  BY <1>27 DEF LeaveStep
<1>28. ASSUME SubmitReset PROVE SignsInAlone'
  BY <1>28 DEF SubmitReset
<1>29. ASSUME NEW ok \in BOOLEAN, DialogAnswer(ok) PROVE SignsInAlone'
  BY <1>29 DEF DialogAnswer
<1>30. CASE UNCHANGED sessionVars
  BY <1>30 DEF sessionVars
<1> HIDE SessionAssumption DEF SessionIInv, SessionTypeOK, ShownIsSession,
    SignsInAlone, BootIsCurrent, SignIns, Someone, Free
<1> QED
  BY <1>1, <1>2, <1>3, <1>4, <1>5, <1>6, <1>7, <1>8, <1>9, <1>10, <1>11,
     <1>12, <1>13, <1>14, <1>15, <1>16, <1>17, <1>18, <1>19, <1>20, <1>21,
     <1>22, <1>23, <1>24, <1>25, <1>26, <1>27, <1>28, <1>29, <1>30 DEF
     SessionNext, Answer, Render

(* A step keeps what the mount asked for current.                          *)
LEMMA BootStep ==
  SessionIInv /\ [SessionNext]_sessionVars => BootIsCurrent'
<1> SUFFICES ASSUME SessionIInv, [SessionNext]_sessionVars
             PROVE  BootIsCurrent'
  OBVIOUS
<1> USE SessionAssumption DEF SessionIInv, SessionTypeOK, ShownIsSession,
    SignsInAlone, BootIsCurrent, SignIns, Someone, Free
<1>1. ASSUME NEW v \in Someone, BootAnswer(v) PROVE BootIsCurrent'
  BY <1>1 DEF BootAnswer
<1>2. ASSUME LogoutAnswer PROVE BootIsCurrent'
  BY <1>2 DEF LogoutAnswer, Goto, Free, NoChallenge, Closed
<1>3. ASSUME Refused PROVE BootIsCurrent'
  BY <1>3 DEF Refused, Free
<1>4. ASSUME Registered PROVE BootIsCurrent'
  BY <1>4 DEF Registered
<1>5. ASSUME LoggedIn PROVE BootIsCurrent'
  BY <1>5 DEF LoggedIn, Enter, Goto, Free, NoChallenge
<1>6. ASSUME Challenged PROVE BootIsCurrent'
  BY <1>6 DEF Challenged, Free
<1>7. ASSUME AdminLoggedIn PROVE BootIsCurrent'
  BY <1>7 DEF AdminLoggedIn, Enter, Goto, Free, NoChallenge
<1>8. ASSUME DemoLoggedIn PROVE BootIsCurrent'
  BY <1>8 DEF DemoLoggedIn, Enter, Goto, Free, NoChallenge
<1>9. ASSUME QuickOpened PROVE BootIsCurrent'
  BY <1>9 DEF QuickOpened
<1>10. ASSUME QuickChecked PROVE BootIsCurrent'
  BY <1>10 DEF QuickChecked, Enter, Goto, Free, NoChallenge
<1>11. ASSUME Verified PROVE BootIsCurrent'
  BY <1>11 DEF Verified, Enter, Goto, Free, NoChallenge
<1>12. ASSUME Redirect PROVE BootIsCurrent'
  BY <1>12 DEF Redirect
<1>13. ASSUME ChallengeKick PROVE BootIsCurrent'
  BY <1>13 DEF ChallengeKick
<1>14. ASSUME Reload PROVE BootIsCurrent'
  BY <1>14 DEF Reload, Free
<1>15. ASSUME NEW p \in Public \cup Protected, Visit(p) PROVE BootIsCurrent'
  BY <1>15 DEF Visit, Goto, NoChallenge
<1>16. ASSUME LogoutStart PROVE BootIsCurrent'
  BY <1>16 DEF LogoutStart
<1>17. ASSUME NEW u \in Users, Submit(u) PROVE BootIsCurrent'
  BY <1>17 DEF Submit, Start
<1>18. ASSUME NEW u \in Users, QuickLogin(u) PROVE BootIsCurrent'
  BY <1>18 DEF QuickLogin, Start, DashboardOf
<1>19. ASSUME NEW u \in Users, GoogleLogin(u) PROVE BootIsCurrent'
  BY <1>19 DEF GoogleLogin, Start
<1>20. ASSUME NEW u \in Users, AdminSubmit(u) PROVE BootIsCurrent'
  BY <1>20 DEF AdminSubmit, Start
<1>21. ASSUME NEW u \in Users, AdminDemo(u) PROVE BootIsCurrent'
  BY <1>21 DEF AdminDemo, Start
<1>22. ASSUME NEW u \in Users, RequestCode(u) PROVE BootIsCurrent'
  BY <1>22 DEF RequestCode
<1>23. ASSUME Verify PROVE BootIsCurrent'
  BY <1>23 DEF Verify, Start
<1>24. ASSUME ChallengeExpires PROVE BootIsCurrent'
  BY <1>24 DEF ChallengeExpires
<1>25. ASSUME Restart PROVE BootIsCurrent'
  BY <1>25 DEF Restart, Goto, NoChallenge
<1>26. ASSUME OpenDialog PROVE BootIsCurrent'
  BY <1>26 DEF OpenDialog
<1>27. ASSUME NEW s \in {"closed", "email"}, LeaveStep(s) PROVE BootIsCurrent'
  BY <1>27 DEF LeaveStep
<1>28. ASSUME SubmitReset PROVE BootIsCurrent'
  BY <1>28 DEF SubmitReset
<1>29. ASSUME NEW ok \in BOOLEAN, DialogAnswer(ok) PROVE BootIsCurrent'
  BY <1>29 DEF DialogAnswer
<1>30. CASE UNCHANGED sessionVars
  BY <1>30 DEF sessionVars
<1> HIDE SessionAssumption DEF SessionIInv, SessionTypeOK, ShownIsSession,
    SignsInAlone, BootIsCurrent, SignIns, Someone, Free
<1> QED
  BY <1>1, <1>2, <1>3, <1>4, <1>5, <1>6, <1>7, <1>8, <1>9, <1>10, <1>11,
     <1>12, <1>13, <1>14, <1>15, <1>16, <1>17, <1>18, <1>19, <1>20, <1>21,
     <1>22, <1>23, <1>24, <1>25, <1>26, <1>27, <1>28, <1>29, <1>30 DEF
     SessionNext, Answer, Render

---------------------------------------------------------------------------
(* The invariant of every behaviour.                                       *)
LEMMA SessionInvariance == SessionSpec => []SessionIInv
<1>1. SessionIInv /\ [SessionNext]_sessionVars => SessionIInv'
  BY SessionTypeStep, ShownStep, SignsInStep, BootStep DEF SessionIInv
<1> QED
  BY SessionInitIInv, <1>1, PTL DEF SessionSpec

(* The user a tab at rest shows is the one the server knows its cookie by, *)
(* unless somebody signed in over another session: checkAuth, the sign-in  *)
(* pages, the second step and logout all end with the two in agreement.    *)
THEOREM ShownIsSignedInAlways == SessionSpec => []ShownIsSignedIn
<1>1. SessionIInv => ShownIsSignedIn
  BY DEF SessionIInv, ShownIsSession, ShownIsSignedIn
<1> QED
  BY SessionInvariance, <1>1, PTL
=============================================================================
