------------------------- MODULE RuntimeClient_proof -------------------------
(***************************************************************************)
(* What RuntimeClient promises of its calls, for any number of calls, any  *)
(* configurations and any number of retries.                               *)
(***************************************************************************)
EXTENDS RuntimeClient, TLAPS

(* A call that neither the retry loop nor dedup may touch.                 *)
Single(c) == conf[c].method = "POST" /\ ~conf[c].keyed

(* How often the server has executed a call, or still may execute an       *)
(* attempt the client gave up.                                             *)
Executions(c) == applied[c] + (IF late[c] THEN 1 ELSE 0)

(* Before a call is sent, and while it waits for a recovered session,      *)
(* nothing of it can have been executed; an attempt given up ends it.      *)
Budget ==
  \A c \in Calls :
    /\ at[c] \in {"idle", "prime"} => applied[c] = 0 /\ ~late[c]
    /\ Single(c) =>
         /\ at[c] \notin {"follow", "backoff"}
         /\ at[c] \in {"sent", "recover"} => applied[c] = 0
         /\ at[c] # "done" => ~late[c]
         /\ at[c] = "body" /\ out[c] = "unauthorized" => applied[c] = 0
         /\ Executions(c) <= 1

(* The dedup map, and who waits for its entry.                             *)
Live ==
  /\ inflight # NoCall => at[inflight] \in OnWire \cup {"backoff"}
  /\ \A c \in Calls : at[c] = "follow" => leader[c] = inflight /\ inflight # NoCall

RuntimeIInv == RuntimeTypeOK /\ Budget /\ Live
---------------------------------------------------------------------------
(* Types.                                                                  *)

(* The end of an attempt leaves the variables it touches well typed.       *)
LEMMA FinishedTypes ==
  ASSUME RuntimeTypeOK, NEW c \in Calls, NEW o \in Outcomes, Finished(c, o)
  PROVE  /\ at' \in [Calls -> Places]
         /\ out' \in [Calls -> Outcomes]
         /\ tries' \in [Calls -> Nat]
         /\ inflight' \in Calls \cup {NoCall}
<1>1. CASE Settle(c, o)
  <2>1. AfterChain(o) \in Places
    BY DEF AfterChain, Places
  <2>2. "done" \in Places
    BY DEF Places
  <2>3. at' \in [Calls -> Places]
    BY <1>1, <2>1, <2>2 DEF Settle, RuntimeTypeOK
  <2> QED
    BY <1>1, <2>3 DEF Settle, RuntimeTypeOK
<1>2. CASE ~Settle(c, o)
  BY <1>2 DEF Finished, RuntimeTypeOK, Places
<1> QED
  BY <1>1, <1>2

(* A step keeps the types.                                                 *)
LEMMA TypeStep ==
  RuntimeTypeOK /\ [RuntimeNext]_runtimeVars => RuntimeTypeOK'
<1> SUFFICES ASSUME RuntimeTypeOK, [RuntimeNext]_runtimeVars
             PROVE  RuntimeTypeOK'
  OBVIOUS
<1>1. ASSUME NEW c \in Calls, NEW cf \in Configs, Issue(c, cf)
      PROVE  RuntimeTypeOK'
  BY <1>1, RuntimeAssumption DEF Issue, EnterChain, RuntimeTypeOK, Places,
     Outcomes
<1>2. ASSUME NEW c \in Calls, GoOn(c) PROVE RuntimeTypeOK'
  BY <1>2 DEF GoOn, EnterChain, RuntimeTypeOK, Places, Outcomes
<1>3. ASSUME NEW c \in Calls, BodyRead(c) PROVE RuntimeTypeOK'
  <2>1. out[c] \in Outcomes
    BY DEF RuntimeTypeOK
  <2> QED
    BY <1>3, <2>1, FinishedTypes DEF BodyRead, RuntimeTypeOK
<1>4. ASSUME NEW c \in Calls, Resend(c) PROVE RuntimeTypeOK'
  BY <1>4 DEF Resend, RuntimeTypeOK, Places, Outcomes
<1>5. ASSUME NEW c \in Calls, Recover(c) PROVE RuntimeTypeOK'
  BY <1>5 DEF Recover, RuntimeTypeOK, Places, Outcomes
<1>6. ASSUME NEW c \in Calls, GiveIn(c) PROVE RuntimeTypeOK'
  BY <1>6 DEF GiveIn, RuntimeTypeOK, Places, Outcomes
<1>7. ASSUME NEW c \in Calls, Apply(c) PROVE RuntimeTypeOK'
  BY <1>7 DEF Apply, RuntimeTypeOK, Places, Outcomes
<1>8. ASSUME NEW c \in Calls, NEW o \in Outcomes, Refuse(c, o)
      PROVE  RuntimeTypeOK'
  BY <1>8 DEF Refuse, RuntimeTypeOK, Places, Outcomes
<1>9. ASSUME NEW c \in Calls, NEW o \in Outcomes, GiveUp(c, o)
      PROVE  RuntimeTypeOK'
  <2>1. late' \in [Calls -> BOOLEAN]
    BY <1>9 DEF GiveUp, RuntimeTypeOK
  <2> QED
    BY <1>9, <2>1, FinishedTypes DEF GiveUp, RuntimeTypeOK
<1>10. ASSUME NEW c \in Calls, ApplyLate(c) PROVE RuntimeTypeOK'
  BY <1>10 DEF ApplyLate, RuntimeTypeOK, Places, Outcomes
<1>11. ASSUME NEW c \in Calls, DropLate(c) PROVE RuntimeTypeOK'
  BY <1>11 DEF DropLate, RuntimeTypeOK, Places, Outcomes
<1>12. ASSUME NEW c \in Calls, Headers(c) PROVE RuntimeTypeOK'
  BY <1>12 DEF Headers, RuntimeTypeOK, Places, Outcomes
<1>13. ASSUME NEW c \in Calls, BodyLost(c) PROVE RuntimeTypeOK'
  <2>1. "failed" \in Outcomes
    BY DEF Outcomes
  <2> QED
    BY <1>13, <2>1, FinishedTypes DEF BodyLost, RuntimeTypeOK
<1>14. ASSUME Prime PROVE RuntimeTypeOK'
  BY <1>14 DEF Prime, RuntimeTypeOK, Places, Outcomes
<1>15. ASSUME NEW m \in {"open", "closed"}, Refresh(m) PROVE RuntimeTypeOK'
  BY <1>15 DEF Refresh, RuntimeTypeOK, Places, Outcomes
<1>16. CASE UNCHANGED runtimeVars
  BY <1>16 DEF runtimeVars, RuntimeTypeOK
<1> QED
  BY <1>1, <1>2, <1>3, <1>4, <1>5, <1>6, <1>7, <1>8, <1>9, <1>10, <1>11,
     <1>12, <1>13, <1>14, <1>15, <1>16 DEF RuntimeNext, Proceed
---------------------------------------------------------------------------
(* The end of an attempt.                                                  *)

(* Where the end of an attempt leaves the call, and the others: only those *)
(* that follow it move, and only a 401 leads to the recovery.              *)
LEMMA FinishedPlaces ==
  ASSUME RuntimeIInv, NEW c \in Calls, NEW o \in Outcomes, Finished(c, o), at[c] \in OnWire
  PROVE  /\ at'[c] \in {"done", "recover", "backoff"}
         /\ at'[c] = "recover" => o = "unauthorized"
         /\ at'[c] = "backoff" => MayRetry(c)
         /\ \A d \in Calls \ {c} :
              \/ at[d] = "follow" /\ at'[d] \in {"done", "recover"}
              \/ at'[d] = at[d] /\ out'[d] = out[d]
<1> USE DEF RuntimeIInv, RuntimeTypeOK
<1>1. CASE Settle(c, o)
  <2>1. AfterChain(o) \in {"done", "recover"} /\ (AfterChain(o) = "recover" => o = "unauthorized")
    BY DEF AfterChain
  <2> QED
    BY <1>1, <2>1 DEF Settle, FollowersOf
<1>2. CASE ~Settle(c, o)
  BY <1>2 DEF Finished
<1> QED
  BY <1>1, <1>2

(* The end of an attempt takes the entry of the dedup map away with        *)
(* everybody who waits for it, or leaves both.                             *)
LEMMA FinishedLive ==
  ASSUME RuntimeIInv, NEW c \in Calls, NEW o \in Outcomes, Finished(c, o), at[c] \in OnWire,
         leader' = leader
  PROVE  Live'
<1> USE DEF RuntimeIInv, RuntimeTypeOK
<1>1. CASE Settle(c, o)
  <2>1. AfterChain(o) \in {"done", "recover"}
    BY DEF AfterChain
  <2>2. at'[c] \in {"done", "recover"}
    BY <1>1, <2>1 DEF Settle
  <2>3. \A d \in Calls : at'[d] = "follow" => at[d] = "follow" /\ leader[d] # c
    BY <1>1, <2>1, <2>2 DEF Settle, FollowersOf
  <2>4. inflight' # NoCall => inflight' = inflight /\ inflight # c
    BY <1>1, RuntimeAssumption DEF Settle
  <2>5. inflight' # NoCall => at'[inflight] = at[inflight]
    BY <1>1, <2>4 DEF Settle, FollowersOf, Live, OnWire
  <2>6. \A d \in Calls : at'[d] = "follow" => inflight' = inflight
    BY <1>1, <2>3 DEF Settle, Live
  <2> QED
    BY <2>3, <2>4, <2>5, <2>6 DEF Live
<1>2. CASE ~Settle(c, o)
  BY <1>2 DEF Finished, Live, OnWire
<1> QED
  BY <1>1, <1>2

---------------------------------------------------------------------------
(* The inductive invariant.                                                *)

(* It holds when the client is made.                                       *)
LEMMA InitIInv == RuntimeInit => RuntimeIInv
<1> SUFFICES ASSUME RuntimeInit PROVE RuntimeIInv
  OBVIOUS
<1>1. RuntimeTypeOK
  BY DEF RuntimeInit, RuntimeTypeOK, AllConfigs, NoConfig, Places, Outcomes
<1>2. Budget
  BY DEF RuntimeInit, Budget, Single, NoConfig
<1>3. Live
  BY DEF RuntimeInit, Live
<1> QED
  BY <1>1, <1>2, <1>3 DEF RuntimeIInv

(* No step lets the server execute a single call a second time.            *)
LEMMA BudgetStep ==
  RuntimeIInv /\ [RuntimeNext]_runtimeVars => Budget'
<1> SUFFICES ASSUME RuntimeIInv, [RuntimeNext]_runtimeVars PROVE Budget'
  OBVIOUS
<1>a. RuntimeTypeOK /\ Budget
  BY DEF RuntimeIInv
<1> USE <1>a
<1>1. ASSUME NEW c \in Calls, NEW cf \in Configs, Issue(c, cf) PROVE Budget'
  <2>1. at[c] = "idle" /\ applied[c] = 0 /\ ~late[c]
    BY <1>1 DEF Issue, Budget
  <2>2. conf' = [conf EXCEPT ![c] = cf] /\ applied' = applied /\ late' = late
    BY <1>1 DEF Issue
  <2>3. \A d \in Calls \ {c} : at'[d] = at[d] /\ out'[d] = out[d] /\ conf'[d] = conf[d]
    BY <1>1, <2>2 DEF Issue, EnterChain, RuntimeTypeOK
  <2>4. at'[c] = "follow" => HasKey(cf)
    BY <1>1 DEF Issue, EnterChain, RuntimeTypeOK
  <2>5. at'[c] \in {"prime", "sent", "follow", "done"}
    BY <1>1 DEF Issue, EnterChain, RuntimeTypeOK
  <2> QED
    BY <2>1, <2>2, <2>3, <2>4, <2>5
    DEF Budget, Single, Executions, HasKey, RuntimeTypeOK
<1>2. ASSUME NEW c \in Calls, GoOn(c) PROVE Budget'
  <2>1. at[c] = "prime" /\ applied[c] = 0 /\ ~late[c]
    BY <1>2 DEF GoOn, Budget
  <2>2. UNCHANGED <<conf, applied, late>>
    BY <1>2 DEF GoOn
  <2>3. \A d \in Calls \ {c} : at'[d] = at[d] /\ out'[d] = out[d]
    BY <1>2 DEF GoOn, EnterChain, RuntimeTypeOK
  <2>4. at'[c] = "follow" => HasKey(conf[c])
    BY <1>2 DEF GoOn, EnterChain, RuntimeTypeOK
  <2>5. at'[c] \in {"sent", "follow", "done"}
    BY <1>2 DEF GoOn, EnterChain, RuntimeTypeOK
  <2> QED
    BY <2>1, <2>2, <2>3, <2>4, <2>5
    DEF Budget, Single, Executions, HasKey, RuntimeTypeOK
<1>3. ASSUME NEW c \in Calls, BodyRead(c) PROVE Budget'
  <2>1. at[c] = "body" /\ Finished(c, out[c]) /\ UNCHANGED <<conf, applied, late>>
    BY <1>3 DEF BodyRead
  <2>2. out[c] \in Outcomes /\ at[c] \in OnWire
    BY <2>1 DEF RuntimeTypeOK, OnWire
  <2> QED
    BY <2>1, <2>2, FinishedPlaces
    DEF Budget, Single, Executions, MayRetry, IsIdempotent, RuntimeTypeOK
<1>4. ASSUME NEW c \in Calls, Resend(c) PROVE Budget'
  BY <1>4 DEF Resend, Budget, Single, Executions, IsIdempotent, RuntimeTypeOK
<1>5. ASSUME NEW c \in Calls, Recover(c) PROVE Budget'
  <2>1. at[c] = "recover" /\ UNCHANGED <<conf, applied, late>>
    BY <1>5 DEF Recover
  <2>2. at'[c] \in {"done", "sent"}
    BY <1>5 DEF Recover, RuntimeTypeOK
  <2>3. \A d \in Calls \ {c} : at'[d] = at[d] /\ out'[d] = out[d]
    BY <1>5 DEF Recover, RuntimeTypeOK
  <2> QED
    BY <2>1, <2>2, <2>3 DEF Budget, Single, Executions, RuntimeTypeOK
<1>6. ASSUME NEW c \in Calls, GiveIn(c) PROVE Budget'
  BY <1>6 DEF GiveIn, Budget, Single, Executions, IsIdempotent, RuntimeTypeOK
<1>7. ASSUME NEW c \in Calls, Apply(c) PROVE Budget'
  BY <1>7 DEF Apply, Budget, Single, Executions, IsIdempotent, RuntimeTypeOK
<1>8. ASSUME NEW c \in Calls, NEW o \in Outcomes, Refuse(c, o) PROVE Budget'
  BY <1>8 DEF Refuse, Budget, Single, Executions, IsIdempotent, RuntimeTypeOK
<1>9. ASSUME NEW c \in Calls, NEW o \in Outcomes, GiveUp(c, o) PROVE Budget'
  <2>1. at[c] \in {"sent", "served"} /\ Finished(c, o) /\ UNCHANGED <<conf, applied>>
    BY <1>9 DEF GiveUp
  <2>2. at[c] \in OnWire /\ o # "unauthorized"
    BY <1>9, <2>1 DEF GiveUp, OnWire
  <2>3. at'[c] \in {"done", "backoff"} /\ (at'[c] = "backoff" => MayRetry(c))
    BY <2>1, <2>2, FinishedPlaces
  <2>4. \A d \in Calls \ {c} :
           \/ at[d] = "follow" /\ at'[d] \in {"done", "recover"}
           \/ at'[d] = at[d] /\ out'[d] = out[d]
    BY <2>1, <2>2, FinishedPlaces
  <2>5. \A d \in Calls \ {c} : late'[d] = late[d]
    BY <1>9 DEF GiveUp, RuntimeTypeOK
  <2>6. late'[c] <=> late[c] \/ (at[c] = "sent" /\ ~IsIdempotent(c))
    BY <1>9 DEF GiveUp, RuntimeTypeOK
  <2> QED
    BY <2>1, <2>3, <2>4, <2>5, <2>6
    DEF Budget, Single, Executions, MayRetry, IsIdempotent, RuntimeTypeOK
<1>10. ASSUME NEW c \in Calls, ApplyLate(c) PROVE Budget'
  BY <1>10 DEF ApplyLate, Budget, Single, Executions, IsIdempotent,
     RuntimeTypeOK
<1>11. ASSUME NEW c \in Calls, DropLate(c) PROVE Budget'
  BY <1>11 DEF DropLate, Budget, Single, Executions, IsIdempotent,
     RuntimeTypeOK
<1>12. ASSUME NEW c \in Calls, Headers(c) PROVE Budget'
  BY <1>12 DEF Headers, Budget, Single, Executions, IsIdempotent,
     RuntimeTypeOK
<1>13. ASSUME NEW c \in Calls, BodyLost(c) PROVE Budget'
  <2>1. at[c] = "body" /\ Finished(c, "failed") /\ UNCHANGED <<conf, applied, late>>
    BY <1>13 DEF BodyLost
  <2>2. "failed" \in Outcomes /\ at[c] \in OnWire
    BY <2>1 DEF Outcomes, OnWire
  <2> QED
    BY <2>1, <2>2, FinishedPlaces
    DEF Budget, Single, Executions, MayRetry, IsIdempotent, RuntimeTypeOK
<1>14. ASSUME Prime PROVE Budget'
  BY <1>14 DEF Prime, Budget, Single, Executions, IsIdempotent, RuntimeTypeOK
<1>15. ASSUME NEW m \in {"open", "closed"}, Refresh(m) PROVE Budget'
  BY <1>15 DEF Refresh, Budget, Single, Executions, IsIdempotent,
     RuntimeTypeOK
<1>16. CASE UNCHANGED runtimeVars
  BY <1>16 DEF runtimeVars, Budget, Single, Executions
<1> QED
  BY <1>1, <1>2, <1>3, <1>4, <1>5, <1>6, <1>7, <1>8, <1>9, <1>10, <1>11,
     <1>12, <1>13, <1>14, <1>15, <1>16 DEF RuntimeNext, Proceed

(* No step leaves an entry of the dedup map behind its call.               *)
LEMMA LiveStep ==
  RuntimeIInv /\ [RuntimeNext]_runtimeVars => Live'
<1> SUFFICES ASSUME RuntimeIInv, [RuntimeNext]_runtimeVars PROVE Live'
  OBVIOUS
<1>a. RuntimeTypeOK /\ Live
  BY DEF RuntimeIInv
<1> USE <1>a, RuntimeAssumption
<1>1. ASSUME NEW c \in Calls, NEW cf \in Configs, Issue(c, cf) PROVE Live'
  BY <1>1 DEF Issue, EnterChain, Live, OnWire, RuntimeTypeOK
<1>2. ASSUME NEW c \in Calls, GoOn(c) PROVE Live'
  BY <1>2 DEF GoOn, EnterChain, Live, OnWire, RuntimeTypeOK
<1>3. ASSUME NEW c \in Calls, BodyRead(c) PROVE Live'
  <2>1. out[c] \in Outcomes /\ at[c] \in OnWire
    BY <1>3 DEF BodyRead, RuntimeTypeOK, OnWire
  <2> QED
    BY <1>3, <2>1, FinishedLive DEF BodyRead
<1>4. ASSUME NEW c \in Calls, Resend(c) PROVE Live'
  BY <1>4 DEF Resend, Live, OnWire, RuntimeTypeOK
<1>5. ASSUME NEW c \in Calls, Recover(c) PROVE Live'
  BY <1>5 DEF Recover, Live, OnWire, RuntimeTypeOK
<1>6. ASSUME NEW c \in Calls, GiveIn(c) PROVE Live'
  BY <1>6 DEF GiveIn, Live, OnWire, RuntimeTypeOK
<1>7. ASSUME NEW c \in Calls, Apply(c) PROVE Live'
  BY <1>7 DEF Apply, Live, OnWire, RuntimeTypeOK
<1>8. ASSUME NEW c \in Calls, NEW o \in Outcomes, Refuse(c, o) PROVE Live'
  BY <1>8 DEF Refuse, Live, OnWire, RuntimeTypeOK
<1>9. ASSUME NEW c \in Calls, NEW o \in Outcomes, GiveUp(c, o) PROVE Live'
  <2>1. at[c] \in OnWire
    BY <1>9 DEF GiveUp, OnWire
  <2> QED
    BY <1>9, <2>1, FinishedLive DEF GiveUp
<1>10. ASSUME NEW c \in Calls, ApplyLate(c) PROVE Live'
  BY <1>10 DEF ApplyLate, Live, OnWire, RuntimeTypeOK
<1>11. ASSUME NEW c \in Calls, DropLate(c) PROVE Live'
  BY <1>11 DEF DropLate, Live, OnWire, RuntimeTypeOK
<1>12. ASSUME NEW c \in Calls, Headers(c) PROVE Live'
  BY <1>12 DEF Headers, Live, OnWire, RuntimeTypeOK
<1>13. ASSUME NEW c \in Calls, BodyLost(c) PROVE Live'
  <2>1. "failed" \in Outcomes /\ at[c] \in OnWire
    BY <1>13 DEF BodyLost, Outcomes, OnWire
  <2> QED
    BY <1>13, <2>1, FinishedLive DEF BodyLost
<1>14. ASSUME Prime PROVE Live'
  BY <1>14 DEF Prime, Live, OnWire, RuntimeTypeOK
<1>15. ASSUME NEW m \in {"open", "closed"}, Refresh(m) PROVE Live'
  BY <1>15 DEF Refresh, Live, OnWire, RuntimeTypeOK
<1>16. CASE UNCHANGED runtimeVars
  BY <1>16 DEF runtimeVars, Live
<1> QED
  BY <1>1, <1>2, <1>3, <1>4, <1>5, <1>6, <1>7, <1>8, <1>9, <1>10, <1>11,
     <1>12, <1>13, <1>14, <1>15, <1>16 DEF RuntimeNext, Proceed

(* The invariant holds always.                                             *)
LEMMA Invariance == RuntimeSpec => []RuntimeIInv
<1>1. RuntimeIInv /\ [RuntimeNext]_runtimeVars => RuntimeIInv'
  BY TypeStep, BudgetStep, LiveStep DEF RuntimeIInv
<1> QED
  BY <1>1, InitIInv, PTL DEF RuntimeSpec

---------------------------------------------------------------------------
(* The theorems.                                                           *)

(* The variables of the HTTP client keep their types, whatever the server  *)
(* and the network do (core/transport.ts, middleware/*.ts).                *)
THEOREM RuntimeTypeCorrect == RuntimeSpec => []RuntimeTypeOK
<1>1. RuntimeIInv => RuntimeTypeOK
  BY DEF RuntimeIInv
<1> QED
  BY <1>1, Invariance, PTL

(* A call that changes data and carries no idempotency key is executed at  *)
(* most once, for any number of calls and retries: neither retry.ts nor    *)
(* auth-expired.ts repeats an attempt the server can have executed.        *)
THEOREM AppliedOnceAlways == RuntimeSpec => []AppliedOnce
<1>1. RuntimeIInv => AppliedOnce
  BY DEF RuntimeIInv, RuntimeTypeOK, Budget, Single, Executions, AppliedOnce
<1> QED
  BY <1>1, Invariance, PTL

(* The entry of dedup.ts is always a call still on its way, and whoever    *)
(* was given a promise was given that of the entry.                        *)
THEOREM InflightIsLiveAlways == RuntimeSpec => []InflightIsLive
<1>1. RuntimeIInv => InflightIsLive
  BY DEF RuntimeIInv, Live, InflightIsLive
<1> QED
  BY <1>1, Invariance, PTL
=============================================================================
