---------------------------- MODULE Client_proof ----------------------------
(***************************************************************************)
(* What TwoFactorClient promises of the secret of the account, for any     *)
(* tabs, whatever each may open, and any number of secrets; and the parts  *)
(* of Client side by side: a step of one is a stutter of the others, so    *)
(* each keeps in the composition what is proved of it alone.               *)
(*                                                                         *)
(* EnabledSecretIsScanned needs to know why a code was accepted: a person  *)
(* types codes of her authenticator only, so the code on its way to        *)
(* setup_verify, and the secret the handler read because the code fitted,  *)
(* are in it (CodesAreScanned); the authenticator forgets nothing.         *)
(***************************************************************************)
EXTENDS Client, RuntimeClient_proof, SessionClient_proof


CallShapes ==
  /\ call = [t \in Tabs |-> call[t]]
  /\ \A t \in Tabs : call[t] # None =>
       call[t] = [op |-> call[t].op, code |-> call[t].code, got |-> call[t].got,
                  stage |-> call[t].stage, from |-> call[t].from]

AccountShape ==
  account = [enabled |-> account.enabled, secret |-> account.secret,
             pending |-> account.pending, codes |-> account.codes,
             devices |-> account.devices]

CodesAreScanned ==
  \A t \in Tabs :
    /\ At(t, "verify", "sent") => call[t].code \in scanned
    /\ At(t, "verify", "read") => call[t].got \in scanned

TwoFactorIInv ==
  /\ CallShapes
  /\ AccountShape
  /\ CodesAreScanned
  /\ EnabledSecretIsScanned
---------------------------------------------------------------------------
(* Nobody has a second factor, and nothing is on its way.                  *)
LEMMA TwoFactorInitIInv == TwoFactorInit => TwoFactorIInv
BY DEF TwoFactorInit, TwoFactorIInv, CallShapes, AccountShape,
   NoAccountFactor,
   CodesAreScanned, At, EnabledSecretIsScanned

(* A step keeps the shape of the requests.                                 *)
LEMMA CallStep ==
  TwoFactorIInv /\ [TwoFactorNext]_twoFactorVars => CallShapes'
<1> SUFFICES ASSUME TwoFactorIInv, [TwoFactorNext]_twoFactorVars
             PROVE  CallShapes'
  OBVIOUS
<1> USE TwoFactorAssumption DEF TwoFactorIInv, CallShapes
<1>1. ASSUME NEW t \in Tabs, Reopen(t)
      PROVE  CallShapes'
  BY <1>1 DEF Reopen, AwayTab
<1>2. ASSUME NEW t \in Tabs, OpenSetup(t)
      PROVE  CallShapes'
  BY <1>2 DEF OpenSetup, AwayTab
<1>3. ASSUME NEW t \in Tabs, OpenModal(t)
      PROVE  CallShapes'
  BY <1>3 DEF OpenModal, AwayTab
<1>4. ASSUME NEW t \in Tabs, Begin(t)
      PROVE  CallShapes'
  BY <1>4 DEF Begin, Post, Sent
<1>5. ASSUME NEW t \in Tabs, Scan(t)
      PROVE  CallShapes'
  BY <1>5 DEF Scan
<1>6. ASSUME NEW t \in Tabs, LeaveWizard(t)
      PROVE  CallShapes'
  BY <1>6 DEF LeaveWizard, AwayTab, CancelIf
<1>7. ASSUME NEW t \in Tabs, Finish(t)
      PROVE  CallShapes'
  BY <1>7 DEF Finish, AwayTab, FirstLoad, Sent
<1>8. ASSUME NEW t \in Tabs, OpenManage(t)
      PROVE  CallShapes'
  BY <1>8 DEF OpenManage, AwayTab, FirstLoad, Sent
<1>9. ASSUME NEW t \in Tabs, LeaveManage(t)
      PROVE  CallShapes'
  BY <1>9 DEF LeaveManage, AwayTab
<1>10. ASSUME NEW t \in Tabs, DismissFresh(t)
      PROVE  CallShapes'
  BY <1>10 DEF DismissFresh
<1>11. ASSUME NEW t \in Tabs, NEW s \in Secrets, VerifyCode(t, s)
      PROVE  CallShapes'
  BY <1>11 DEF VerifyCode, Post, Sent
<1>12. ASSUME NEW t \in Tabs, NEW c \in Secrets \cup {Codes}, Disable(t, c)
      PROVE  CallShapes'
  BY <1>12 DEF Disable, Post, Sent
<1>13. ASSUME NEW t \in Tabs, NEW s \in Secrets, Regenerate(t, s)
      PROVE  CallShapes'
  BY <1>13 DEF Regenerate, Post, Sent
<1>14. ASSUME NEW t \in Tabs, NEW d \in Devices \cup {None}, Revoke(t, d)
      PROVE  CallShapes'
  BY <1>14 DEF Revoke, Post, Sent
<1>15. ASSUME NEW t \in Tabs, SetupRead(t)
      PROVE  CallShapes'
  BY <1>15 DEF SetupRead, At, Ended, Reading
<1>16. ASSUME NEW t \in Tabs, SetupVerifyRead(t)
      PROVE  CallShapes'
  BY <1>16 DEF SetupVerifyRead, At, Ended, Reading
<1>17. ASSUME NEW t \in Tabs, SetupCancel(t)
      PROVE  CallShapes'
  BY <1>17 DEF SetupCancel
<1>18. ASSUME NEW t \in Tabs, CodeRead(t)
      PROVE  CallShapes'
  BY <1>18 DEF CodeRead, At, Ended, Then, Sent, Reading
<1>19. ASSUME NEW t \in Tabs, NEW s \in Secrets, SetupWrite(t, s)
      PROVE  CallShapes'
  BY <1>19 DEF SetupWrite, AnswerLost, At, Ended
<1>20. ASSUME NEW t \in Tabs, SetupVerifyWrite(t)
      PROVE  CallShapes'
  BY <1>20 DEF SetupVerifyWrite, AnswerLost, At, Ended
<1>21. ASSUME NEW t \in Tabs, RegenerateWrite(t)
      PROVE  CallShapes'
  BY <1>21 DEF RegenerateWrite, AnswerLost, At, Then, Sent, Ended
<1>22. ASSUME NEW t \in Tabs, DisableWrite(t)
      PROVE  CallShapes'
  BY <1>22 DEF DisableWrite, AnswerLost, At, Then, Sent, Ended
<1>23. ASSUME NEW t \in Tabs, RevokeServed(t)
      PROVE  CallShapes'
  BY <1>23 DEF RevokeServed, AnswerLost, At, Then, Sent, Ended
<1>24. ASSUME NEW t \in Tabs, Lost(t)
      PROVE  CallShapes'
  BY <1>24 DEF Lost, Ended
<1>25. ASSUME NEW t \in Tabs, NEW ok \in BOOLEAN, CheckAuthServed(t, ok)
      PROVE  CallShapes'
  BY <1>25 DEF CheckAuthServed, At, Then, Sent
<1>26. ASSUME NEW t \in Tabs, NEW ok \in BOOLEAN, LoadServed(t, ok)
      PROVE  CallShapes'
  BY <1>26 DEF LoadServed, At, Ended
<1>27. CASE UNCHANGED twoFactorVars
  BY <1>27 DEF twoFactorVars
<1> HIDE TwoFactorAssumption DEF TwoFactorIInv, CallShapes
<1> QED
  BY <1>1, <1>2, <1>3, <1>4, <1>5, <1>6, <1>7, <1>8, <1>9, <1>10, <1>11,
     <1>12, <1>13, <1>14, <1>15, <1>16, <1>17, <1>18, <1>19, <1>20, <1>21,
     <1>22, <1>23, <1>24, <1>25, <1>26, <1>27 DEF TwoFactorNext

(* A step keeps the shape of the account.                                  *)
LEMMA AccountStep ==
  TwoFactorIInv /\ [TwoFactorNext]_twoFactorVars => AccountShape'
<1> SUFFICES ASSUME TwoFactorIInv, [TwoFactorNext]_twoFactorVars
             PROVE  AccountShape'
  OBVIOUS
<1> USE TwoFactorAssumption DEF TwoFactorIInv, AccountShape
<1>1. ASSUME NEW t \in Tabs, Reopen(t)
      PROVE  AccountShape'
  BY <1>1 DEF Reopen, AwayTab
<1>2. ASSUME NEW t \in Tabs, OpenSetup(t)
      PROVE  AccountShape'
  BY <1>2 DEF OpenSetup, AwayTab
<1>3. ASSUME NEW t \in Tabs, OpenModal(t)
      PROVE  AccountShape'
  BY <1>3 DEF OpenModal, AwayTab
<1>4. ASSUME NEW t \in Tabs, Begin(t)
      PROVE  AccountShape'
  BY <1>4 DEF Begin, Post, Sent
<1>5. ASSUME NEW t \in Tabs, Scan(t)
      PROVE  AccountShape'
  BY <1>5 DEF Scan
<1>6. ASSUME NEW t \in Tabs, LeaveWizard(t)
      PROVE  AccountShape'
  BY <1>6 DEF LeaveWizard, AwayTab, CancelIf
<1>7. ASSUME NEW t \in Tabs, Finish(t)
      PROVE  AccountShape'
  BY <1>7 DEF Finish, AwayTab, FirstLoad, Sent
<1>8. ASSUME NEW t \in Tabs, OpenManage(t)
      PROVE  AccountShape'
  BY <1>8 DEF OpenManage, AwayTab, FirstLoad, Sent
<1>9. ASSUME NEW t \in Tabs, LeaveManage(t)
      PROVE  AccountShape'
  BY <1>9 DEF LeaveManage, AwayTab
<1>10. ASSUME NEW t \in Tabs, DismissFresh(t)
      PROVE  AccountShape'
  BY <1>10 DEF DismissFresh
<1>11. ASSUME NEW t \in Tabs, NEW s \in Secrets, VerifyCode(t, s)
      PROVE  AccountShape'
  BY <1>11 DEF VerifyCode, Post, Sent
<1>12. ASSUME NEW t \in Tabs, NEW c \in Secrets \cup {Codes}, Disable(t, c)
      PROVE  AccountShape'
  BY <1>12 DEF Disable, Post, Sent
<1>13. ASSUME NEW t \in Tabs, NEW s \in Secrets, Regenerate(t, s)
      PROVE  AccountShape'
  BY <1>13 DEF Regenerate, Post, Sent
<1>14. ASSUME NEW t \in Tabs, NEW d \in Devices \cup {None}, Revoke(t, d)
      PROVE  AccountShape'
  BY <1>14 DEF Revoke, Post, Sent
<1>15. ASSUME NEW t \in Tabs, SetupRead(t)
      PROVE  AccountShape'
  BY <1>15 DEF SetupRead, At, Ended, Reading
<1>16. ASSUME NEW t \in Tabs, SetupVerifyRead(t)
      PROVE  AccountShape'
  BY <1>16 DEF SetupVerifyRead, At, Ended, Reading
<1>17. ASSUME NEW t \in Tabs, SetupCancel(t)
      PROVE  AccountShape'
  BY <1>17 DEF SetupCancel
<1>18. ASSUME NEW t \in Tabs, CodeRead(t)
      PROVE  AccountShape'
  BY <1>18 DEF CodeRead, At, Ended, Then, Sent, Reading
<1>19. ASSUME NEW t \in Tabs, NEW s \in Secrets, SetupWrite(t, s)
      PROVE  AccountShape'
  BY <1>19 DEF SetupWrite, AnswerLost, At, Ended
<1>20. ASSUME NEW t \in Tabs, SetupVerifyWrite(t)
      PROVE  AccountShape'
  BY <1>20 DEF SetupVerifyWrite, AnswerLost, At, Ended
<1>21. ASSUME NEW t \in Tabs, RegenerateWrite(t)
      PROVE  AccountShape'
  BY <1>21 DEF RegenerateWrite, AnswerLost, At, Then, Sent, Ended
<1>22. ASSUME NEW t \in Tabs, DisableWrite(t)
      PROVE  AccountShape'
  BY <1>22 DEF DisableWrite, AnswerLost, At, Then, Sent, Ended
<1>23. ASSUME NEW t \in Tabs, RevokeServed(t)
      PROVE  AccountShape'
  BY <1>23 DEF RevokeServed, AnswerLost, At, Then, Sent, Ended
<1>24. ASSUME NEW t \in Tabs, Lost(t)
      PROVE  AccountShape'
  BY <1>24 DEF Lost, Ended
<1>25. ASSUME NEW t \in Tabs, NEW ok \in BOOLEAN, CheckAuthServed(t, ok)
      PROVE  AccountShape'
  BY <1>25 DEF CheckAuthServed, At, Then, Sent
<1>26. ASSUME NEW t \in Tabs, NEW ok \in BOOLEAN, LoadServed(t, ok)
      PROVE  AccountShape'
  BY <1>26 DEF LoadServed, At, Ended
<1>27. CASE UNCHANGED twoFactorVars
  BY <1>27 DEF twoFactorVars
<1> HIDE TwoFactorAssumption DEF TwoFactorIInv, AccountShape
<1> QED
  BY <1>1, <1>2, <1>3, <1>4, <1>5, <1>6, <1>7, <1>8, <1>9, <1>10, <1>11,
     <1>12, <1>13, <1>14, <1>15, <1>16, <1>17, <1>18, <1>19, <1>20, <1>21,
     <1>22, <1>23, <1>24, <1>25, <1>26, <1>27 DEF TwoFactorNext

(* Whatever reaches setup_verify comes from the authenticator.             *)
LEMMA CodesStep ==
  TwoFactorIInv /\ [TwoFactorNext]_twoFactorVars => CodesAreScanned'
<1> SUFFICES ASSUME TwoFactorIInv, [TwoFactorNext]_twoFactorVars
             PROVE  CodesAreScanned'
  OBVIOUS
<1> USE TwoFactorAssumption DEF TwoFactorIInv, CallShapes, CodesAreScanned, At
<1>1. ASSUME NEW t \in Tabs, Reopen(t)
      PROVE  CodesAreScanned'
  BY <1>1 DEF Reopen, AwayTab
<1>2. ASSUME NEW t \in Tabs, OpenSetup(t)
      PROVE  CodesAreScanned'
  BY <1>2 DEF OpenSetup, AwayTab
<1>3. ASSUME NEW t \in Tabs, OpenModal(t)
      PROVE  CodesAreScanned'
  BY <1>3 DEF OpenModal, AwayTab
<1>4. ASSUME NEW t \in Tabs, Begin(t)
      PROVE  CodesAreScanned'
  BY <1>4 DEF Begin, Post, Sent
<1>5. ASSUME NEW t \in Tabs, Scan(t)
      PROVE  CodesAreScanned'
  BY <1>5 DEF Scan
<1>6. ASSUME NEW t \in Tabs, LeaveWizard(t)
      PROVE  CodesAreScanned'
  BY <1>6 DEF LeaveWizard, AwayTab, CancelIf
<1>7. ASSUME NEW t \in Tabs, Finish(t)
      PROVE  CodesAreScanned'
  BY <1>7 DEF Finish, AwayTab, FirstLoad, Sent
<1>8. ASSUME NEW t \in Tabs, OpenManage(t)
      PROVE  CodesAreScanned'
  BY <1>8 DEF OpenManage, AwayTab, FirstLoad, Sent
<1>9. ASSUME NEW t \in Tabs, LeaveManage(t)
      PROVE  CodesAreScanned'
  BY <1>9 DEF LeaveManage, AwayTab
<1>10. ASSUME NEW t \in Tabs, DismissFresh(t)
      PROVE  CodesAreScanned'
  BY <1>10 DEF DismissFresh
<1>11. ASSUME NEW t \in Tabs, NEW s \in Secrets, VerifyCode(t, s)
      PROVE  CodesAreScanned'
  BY <1>11 DEF VerifyCode, Post, Sent
<1>12. ASSUME NEW t \in Tabs, NEW c \in Secrets \cup {Codes}, Disable(t, c)
      PROVE  CodesAreScanned'
  BY <1>12 DEF Disable, Post, Sent
<1>13. ASSUME NEW t \in Tabs, NEW s \in Secrets, Regenerate(t, s)
      PROVE  CodesAreScanned'
  BY <1>13 DEF Regenerate, Post, Sent
<1>14. ASSUME NEW t \in Tabs, NEW d \in Devices \cup {None}, Revoke(t, d)
      PROVE  CodesAreScanned'
  BY <1>14 DEF Revoke, Post, Sent
<1>15. ASSUME NEW t \in Tabs, SetupRead(t)
      PROVE  CodesAreScanned'
  BY <1>15 DEF SetupRead, At, Ended, Reading
<1>16. ASSUME NEW t \in Tabs, SetupVerifyRead(t)
      PROVE  CodesAreScanned'
  <2>1. call[t] # None /\ call[t].code \in scanned /\ scanned' = scanned
    BY <1>16 DEF SetupVerifyRead
  <2>2. CASE account.pending # None /\ ~account.enabled
             /\ call[t].code = account.pending
    <3>1. call' = [call EXCEPT ![t] = [call[t] EXCEPT !.stage = "read",
                                                      !.got = account.pending]]
      BY <1>16, <2>2 DEF SetupVerifyRead, Reading
    <3>2. account.pending \in scanned
      BY <2>1, <2>2
    <3>3. call'[t].got = account.pending /\ call'[t].stage = "read"
      <4>1. call'[t] = [call[t] EXCEPT !.stage = "read", !.got = account.pending]
        BY <3>1
      <4>2. "got" \in DOMAIN call[t] /\ "stage" \in DOMAIN call[t]
        BY <2>1
      <4> QED
        BY ONLY <4>1, <4>2, SMT
    <3>4. \A d \in Tabs \ {t} : call'[d] = call[d]
      BY <3>1
    <3> SUFFICES ASSUME NEW d \in Tabs
                 PROVE  /\ At(d, "verify", "sent")' => call'[d].code \in scanned
                        /\ At(d, "verify", "read")' => call'[d].got \in scanned
      BY <2>1
    <3>5. CASE d = t
      BY <3>2, <3>3, <3>5
    <3>6. CASE d # t
      BY <3>4, <3>6
    <3> QED
      BY <3>5, <3>6
  <2>3. CASE ~(account.pending # None /\ ~account.enabled
               /\ call[t].code = account.pending)
    BY <1>16, <2>1, <2>3 DEF SetupVerifyRead, Ended
  <2> QED
    BY <2>2, <2>3
<1>17. ASSUME NEW t \in Tabs, SetupCancel(t)
      PROVE  CodesAreScanned'
  BY <1>17 DEF SetupCancel
<1>18. ASSUME NEW t \in Tabs, CodeRead(t)
      PROVE  CodesAreScanned'
  BY <1>18 DEF CodeRead, At, Ended, Then, Sent, Reading
<1>19. ASSUME NEW t \in Tabs, NEW s \in Secrets, SetupWrite(t, s)
      PROVE  CodesAreScanned'
  BY <1>19 DEF SetupWrite, AnswerLost, At, Ended
<1>20. ASSUME NEW t \in Tabs, SetupVerifyWrite(t)
      PROVE  CodesAreScanned'
  BY <1>20 DEF SetupVerifyWrite, AnswerLost, At, Ended
<1>21. ASSUME NEW t \in Tabs, RegenerateWrite(t)
      PROVE  CodesAreScanned'
  BY <1>21 DEF RegenerateWrite, AnswerLost, At, Then, Sent, Ended
<1>22. ASSUME NEW t \in Tabs, DisableWrite(t)
      PROVE  CodesAreScanned'
  BY <1>22 DEF DisableWrite, AnswerLost, At, Then, Sent, Ended
<1>23. ASSUME NEW t \in Tabs, RevokeServed(t)
      PROVE  CodesAreScanned'
  BY <1>23 DEF RevokeServed, AnswerLost, At, Then, Sent, Ended
<1>24. ASSUME NEW t \in Tabs, Lost(t)
      PROVE  CodesAreScanned'
  BY <1>24 DEF Lost, Ended
<1>25. ASSUME NEW t \in Tabs, NEW ok \in BOOLEAN, CheckAuthServed(t, ok)
      PROVE  CodesAreScanned'
  BY <1>25 DEF CheckAuthServed, At, Then, Sent
<1>26. ASSUME NEW t \in Tabs, NEW ok \in BOOLEAN, LoadServed(t, ok)
      PROVE  CodesAreScanned'
  BY <1>26 DEF LoadServed, At, Ended
<1>27. CASE UNCHANGED twoFactorVars
  BY <1>27 DEF twoFactorVars
<1> HIDE TwoFactorAssumption DEF TwoFactorIInv, CallShapes, CodesAreScanned,
    At
<1> QED
  BY <1>1, <1>2, <1>3, <1>4, <1>5, <1>6, <1>7, <1>8, <1>9, <1>10, <1>11,
     <1>12, <1>13, <1>14, <1>15, <1>16, <1>17, <1>18, <1>19, <1>20, <1>21,
     <1>22, <1>23, <1>24, <1>25, <1>26, <1>27 DEF TwoFactorNext

(* Only a secret that was scanned becomes that of the account.             *)
LEMMA EnabledStep ==
  TwoFactorIInv /\ [TwoFactorNext]_twoFactorVars => EnabledSecretIsScanned'
<1> SUFFICES ASSUME TwoFactorIInv, [TwoFactorNext]_twoFactorVars
             PROVE  EnabledSecretIsScanned'
  OBVIOUS
<1> USE TwoFactorAssumption DEF TwoFactorIInv, AccountShape,
    CodesAreScanned, EnabledSecretIsScanned, At
<1>1. ASSUME NEW t \in Tabs, Reopen(t)
      PROVE  EnabledSecretIsScanned'
  BY <1>1 DEF Reopen, AwayTab
<1>2. ASSUME NEW t \in Tabs, OpenSetup(t)
      PROVE  EnabledSecretIsScanned'
  BY <1>2 DEF OpenSetup, AwayTab
<1>3. ASSUME NEW t \in Tabs, OpenModal(t)
      PROVE  EnabledSecretIsScanned'
  BY <1>3 DEF OpenModal, AwayTab
<1>4. ASSUME NEW t \in Tabs, Begin(t)
      PROVE  EnabledSecretIsScanned'
  BY <1>4 DEF Begin, Post, Sent
<1>5. ASSUME NEW t \in Tabs, Scan(t)
      PROVE  EnabledSecretIsScanned'
  BY <1>5 DEF Scan
<1>6. ASSUME NEW t \in Tabs, LeaveWizard(t)
      PROVE  EnabledSecretIsScanned'
  BY <1>6 DEF LeaveWizard, AwayTab, CancelIf
<1>7. ASSUME NEW t \in Tabs, Finish(t)
      PROVE  EnabledSecretIsScanned'
  BY <1>7 DEF Finish, AwayTab, FirstLoad, Sent
<1>8. ASSUME NEW t \in Tabs, OpenManage(t)
      PROVE  EnabledSecretIsScanned'
  BY <1>8 DEF OpenManage, AwayTab, FirstLoad, Sent
<1>9. ASSUME NEW t \in Tabs, LeaveManage(t)
      PROVE  EnabledSecretIsScanned'
  BY <1>9 DEF LeaveManage, AwayTab
<1>10. ASSUME NEW t \in Tabs, DismissFresh(t)
      PROVE  EnabledSecretIsScanned'
  BY <1>10 DEF DismissFresh
<1>11. ASSUME NEW t \in Tabs, NEW s \in Secrets, VerifyCode(t, s)
      PROVE  EnabledSecretIsScanned'
  BY <1>11 DEF VerifyCode, Post, Sent
<1>12. ASSUME NEW t \in Tabs, NEW c \in Secrets \cup {Codes}, Disable(t, c)
      PROVE  EnabledSecretIsScanned'
  BY <1>12 DEF Disable, Post, Sent
<1>13. ASSUME NEW t \in Tabs, NEW s \in Secrets, Regenerate(t, s)
      PROVE  EnabledSecretIsScanned'
  BY <1>13 DEF Regenerate, Post, Sent
<1>14. ASSUME NEW t \in Tabs, NEW d \in Devices \cup {None}, Revoke(t, d)
      PROVE  EnabledSecretIsScanned'
  BY <1>14 DEF Revoke, Post, Sent
<1>15. ASSUME NEW t \in Tabs, SetupRead(t)
      PROVE  EnabledSecretIsScanned'
  BY <1>15 DEF SetupRead, At, Ended, Reading
<1>16. ASSUME NEW t \in Tabs, SetupVerifyRead(t)
      PROVE  EnabledSecretIsScanned'
  BY <1>16 DEF SetupVerifyRead, At, Ended, Reading
<1>17. ASSUME NEW t \in Tabs, SetupCancel(t)
      PROVE  EnabledSecretIsScanned'
  BY <1>17 DEF SetupCancel
<1>18. ASSUME NEW t \in Tabs, CodeRead(t)
      PROVE  EnabledSecretIsScanned'
  BY <1>18 DEF CodeRead, At, Ended, Then, Sent, Reading
<1>19. ASSUME NEW t \in Tabs, NEW s \in Secrets, SetupWrite(t, s)
      PROVE  EnabledSecretIsScanned'
  BY <1>19 DEF SetupWrite, AnswerLost, At, Ended
<1>20. ASSUME NEW t \in Tabs, SetupVerifyWrite(t)
      PROVE  EnabledSecretIsScanned'
  BY <1>20 DEF SetupVerifyWrite, AnswerLost, At, Ended
<1>21. ASSUME NEW t \in Tabs, RegenerateWrite(t)
      PROVE  EnabledSecretIsScanned'
  BY <1>21 DEF RegenerateWrite, AnswerLost, At, Then, Sent, Ended
<1>22. ASSUME NEW t \in Tabs, DisableWrite(t)
      PROVE  EnabledSecretIsScanned'
  BY <1>22 DEF DisableWrite, AnswerLost, At, Then, Sent, Ended
<1>23. ASSUME NEW t \in Tabs, RevokeServed(t)
      PROVE  EnabledSecretIsScanned'
  BY <1>23 DEF RevokeServed, AnswerLost, At, Then, Sent, Ended
<1>24. ASSUME NEW t \in Tabs, Lost(t)
      PROVE  EnabledSecretIsScanned'
  BY <1>24 DEF Lost, Ended
<1>25. ASSUME NEW t \in Tabs, NEW ok \in BOOLEAN, CheckAuthServed(t, ok)
      PROVE  EnabledSecretIsScanned'
  BY <1>25 DEF CheckAuthServed, At, Then, Sent
<1>26. ASSUME NEW t \in Tabs, NEW ok \in BOOLEAN, LoadServed(t, ok)
      PROVE  EnabledSecretIsScanned'
  BY <1>26 DEF LoadServed, At, Ended
<1>27. CASE UNCHANGED twoFactorVars
  BY <1>27 DEF twoFactorVars
<1> HIDE TwoFactorAssumption DEF TwoFactorIInv, AccountShape,
    CodesAreScanned, EnabledSecretIsScanned, At
<1> QED
  BY <1>1, <1>2, <1>3, <1>4, <1>5, <1>6, <1>7, <1>8, <1>9, <1>10, <1>11,
     <1>12, <1>13, <1>14, <1>15, <1>16, <1>17, <1>18, <1>19, <1>20, <1>21,
     <1>22, <1>23, <1>24, <1>25, <1>26, <1>27 DEF TwoFactorNext

---------------------------------------------------------------------------
(* The invariant of every behaviour.                                       *)
LEMMA TwoFactorInvariance == TwoFactorSpec => []TwoFactorIInv
<1>1. TwoFactorIInv /\ [TwoFactorNext]_twoFactorVars => TwoFactorIInv'
  BY CallStep, AccountStep, CodesStep, EnabledStep DEF TwoFactorIInv
<1> QED
  BY TwoFactorInitIInv, <1>1, PTL DEF TwoFactorSpec

(* However many tabs enrol, cancel or disable at once, a second factor     *)
(* that is on is one its person can answer: setup_verify promotes the      *)
(* secret it checked, not the one that is pending when it writes.          *)
THEOREM EnabledSecretIsScannedAlways ==
  TwoFactorSpec => []EnabledSecretIsScanned
<1>1. TwoFactorIInv => EnabledSecretIsScanned
  BY DEF TwoFactorIInv
<1> QED
  BY TwoFactorInvariance, <1>1, PTL
-----------------------------------------------------------------------------
(* A step of the composition is a step of the HTTP client or leaves it     *)
(* alone; the same for signing in and for the second factor.               *)
LEMMA StepProjects ==
  ASSUME [ClientNext]_clientVars
  PROVE  /\ [RuntimeNext]_runtimeVars
         /\ [SessionNext]_sessionVars
         /\ [TwoFactorNext]_twoFactorVars
<1>1. CASE RuntimeStep
  BY <1>1 DEF RuntimeStep
<1>2. CASE SessionStep
  BY <1>2 DEF SessionStep
<1>3. CASE TwoFactorStep
  BY <1>3 DEF TwoFactorStep
<1>4. CASE NoticesStep
  BY <1>4 DEF NoticesStep
<1>5. CASE UNCHANGED clientVars
  BY <1>5 DEF clientVars
<1> QED
  BY <1>1, <1>2, <1>3, <1>4, <1>5 DEF ClientNext

(* Client implements the specification of each part.                       *)
THEOREM ClientImplementsParts ==
  ClientSpec => RuntimeSpec /\ SessionSpec /\ TwoFactorSpec
<1>1. ClientInit => RuntimeInit /\ SessionInit /\ TwoFactorInit
  BY DEF ClientInit
<1>2. [ClientNext]_clientVars => /\ [RuntimeNext]_runtimeVars
                                 /\ [SessionNext]_sessionVars
                                 /\ [TwoFactorNext]_twoFactorVars
  BY StepProjects
<1> QED
  BY <1>1, <1>2, PTL DEF ClientSpec, RuntimeSpec, SessionSpec, TwoFactorSpec

(* What runtime/client, AuthProvider and the second factor promise, in the *)
(* composition that is model-checked.                                      *)
THEOREM ClientInvariants ==
  ClientSpec => [](/\ AppliedOnce
                   /\ InflightIsLive
                   /\ ShownIsSignedIn
                   /\ EnabledSecretIsScanned)
BY ClientImplementsParts, AppliedOnceAlways, InflightIsLiveAlways,
   ShownIsSignedInAlways, EnabledSecretIsScannedAlways, PTL
=============================================================================
