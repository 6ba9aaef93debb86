--------------------------- MODULE RuntimeClient ---------------------------
(***************************************************************************)
(* The HTTP client of the web and mobile applications                      *)
(* (frontend/src/runtime-client, the same files as                         *)
(* packages/runtime-client/src): one chain of middleware around fetch.     *)
(*                                                                         *)
(* A call runs without giving up the JavaScript thread from its start (or, *)
(* on the phone, from the first read of the stored token) to the fetch, so *)
(* dedup, the capability gate and the send are one step.  All the calls    *)
(* that may be deduplicated ask for the same URL, the only case in which   *)
(* they meet: the map of dedup.ts has one entry here.                      *)
(***************************************************************************)
EXTENDS Naturals, FiniteSets

CONSTANTS
  Calls,       \* calls of runtime.request
  NoCall,      \* the empty entry of the dedup map
  Configs,     \* RequestConfig: [method, keyed, tagged, noDedup]
  Retries      \* defaultRetries of runtime/index.ts

AllConfigs == [method : {"GET", "POST"}, keyed : BOOLEAN,
               tagged : BOOLEAN, noDedup : BOOLEAN]

ASSUME RuntimeAssumption ==
  /\ NoCall \notin Calls
  /\ Configs \subseteq AllConfigs
  /\ Retries \in Nat

VARIABLES
  adapter,     \* "web" (cookies) or "expo" (bearer token, onAuthExpired)
  primed,      \* the token of the adapter has been read from storage
  conf,        \* the configuration of each call
  at,          \* where each call waits
  tries,       \* ctx.attempt of the retry loop
  again,       \* what next() still runs once auth-expired has recovered:
               \* "no" (it has not), "chain" (the gate, retry, transport),
               \* "transport"
  leader,      \* the call whose promise a deduplicated call was given
  out,         \* the outcome of a call, or of its attempt
  inflight,    \* the dedup map
  late,        \* the server may still receive an attempt given up
  applied,     \* times the server has executed each call that changes data
  manifest     \* "closed" when the known manifest says that the capability
               \* is not live; "open" too while no manifest is known

runtimeVars == <<adapter, primed, conf, at, tries, again, leader, out,
                 inflight, late, applied, manifest>>

(* Where a call can be; "sent" the server has not received it, "served" it *)
(* has executed it, "body" the headers are here and the body is read.      *)
Places == {"idle", "prime", "follow", "sent", "served", "body", "backoff",
           "recover", "done"}
OnWire == {"sent", "served", "body"}

(* "retryable": ApiError.retryable, said by the server of 429 and 5xx and  *)
(* by clientError of a lost connection and a timeout.  "failed": any other *)
(* error, among them an abort and a body that cannot be read.              *)
Outcomes == {"none", "ok", "unauthorized", "failed", "retryable", "offline"}

NoConfig == [method |-> "GET", keyed |-> FALSE, tagged |-> FALSE,
             noDedup |-> FALSE]

IsIdempotent(c) == conf[c].method = "GET"

(* keyFor: only idempotent calls that did not opt out have a key.          *)
HasKey(cf) == cf.method = "GET" /\ ~cf.noDedup

(* Mutant: every call is repeated.                                         *)
MayRetryAll(c) == TRUE

(* The retry loop repeats idempotent calls and calls with an explicit key. *)
MayRetry(c) == IsIdempotent(c) \/ conf[c].keyed

(* capability-gate.ts: a tagged call is refused when the known manifest    *)
(* says the capability is not live; without a manifest it passes.          *)
Gated(cf) == cf.tagged /\ manifest = "closed"

(* The calls given the promise of c.                                       *)
FollowersOf(c) == {d \in Calls : at[d] = "follow" /\ leader[d] = c}

RuntimeInit ==
  /\ adapter \in {"web", "expo"}
  /\ primed = (adapter = "web")
  /\ conf = [c \in Calls |-> NoConfig]
  /\ at = [c \in Calls |-> "idle"]
  /\ tries = [c \in Calls |-> 0]
  /\ again = [c \in Calls |-> "no"]
  /\ leader = [c \in Calls |-> NoCall]
  /\ out = [c \in Calls |-> "none"]
  /\ inflight = NoCall
  /\ late = [c \in Calls |-> FALSE]
  /\ applied = [c \in Calls |-> 0]
  /\ manifest \in {"open", "closed"}

---------------------------------------------------------------------------
(* The chain of buildClient below auth-expired: dedup gives the call the   *)
(* promise of the one in flight, or it goes through the gate to fetch.     *)
EnterChain(c, cf) ==
  IF HasKey(cf) /\ inflight # NoCall
  THEN /\ at' = [at EXCEPT ![c] = "follow"]
       /\ leader' = [leader EXCEPT ![c] = inflight]
       /\ UNCHANGED <<out, inflight>>
  ELSE /\ IF Gated(cf)
          THEN /\ at' = [at EXCEPT ![c] = "done"]
               /\ out' = [out EXCEPT ![c] = "offline"]
               /\ inflight' = inflight
          ELSE /\ at' = [at EXCEPT ![c] = "sent"]
               /\ inflight' = IF HasKey(cf) THEN c ELSE inflight
               /\ out' = out
       /\ leader' = leader

(* runtime.request: a call is made; until the token is read it waits in    *)
(* token-prime.ts.                                                         *)
Issue(c, cf) ==
  /\ at[c] = "idle"
  /\ conf' = [conf EXCEPT ![c] = cf]
  /\ \/ primed /\ EnterChain(c, cf)
     \/ ~primed /\ at' = [at EXCEPT ![c] = "prime"]
                /\ UNCHANGED <<leader, out, inflight>>
  /\ UNCHANGED <<adapter, primed, tries, again, late, applied, manifest>>

(* startInitialPrime of the Expo adapter resolves.                         *)
Prime ==
  /\ ~primed
  /\ primed' = TRUE
  /\ UNCHANGED <<adapter, conf, at, tries, again, leader, out, inflight, late,
                 applied, manifest>>

(* A call that waited for the token goes on.                               *)
GoOn(c) ==
  /\ at[c] = "prime"
  /\ primed
  /\ EnterChain(c, conf[c])
  /\ UNCHANGED <<adapter, primed, conf, tries, again, late, applied, manifest>>

---------------------------------------------------------------------------
(* The server, and the network.                                            *)

(* The server executes the attempt c waits for.                            *)
Apply(c) ==
  /\ at[c] = "sent"
  /\ at' = [at EXCEPT ![c] = "served"]
  /\ applied' = [applied EXCEPT ![c] = IF IsIdempotent(c) THEN @ ELSE @ + 1]
  /\ UNCHANGED <<adapter, primed, conf, tries, again, leader, out, inflight,
                 late, manifest>>

(* It answers 401, 429 or 503, or another 4xx, without executing it, and   *)
(* the headers arrive (or the client gives up before they do: GiveUp).     *)
Refuse(c, o) ==
  /\ at[c] = "sent"
  /\ o \in {"unauthorized", "retryable", "failed"}
  /\ at' = [at EXCEPT ![c] = "body"]
  /\ out' = [out EXCEPT ![c] = o]
  /\ UNCHANGED <<adapter, primed, conf, tries, again, leader, inflight, late,
                 applied, manifest>>

(* An attempt the client gave up reaches the server, or never does.        *)
ApplyLate(c) ==
  /\ late[c]
  /\ late' = [late EXCEPT ![c] = FALSE]
  /\ applied' = [applied EXCEPT ![c] = @ + 1]
  /\ UNCHANGED <<adapter, primed, conf, at, tries, again, leader, out,
                 inflight, manifest>>

DropLate(c) ==
  /\ late[c]
  /\ late' = [late EXCEPT ![c] = FALSE]
  /\ UNCHANGED <<adapter, primed, conf, at, tries, again, leader, out,
                 inflight, applied, manifest>>

(* The headers arrive: the timer of composeSignal is cleared.  An executed *)
(* call is answered with its result or, by a proxy, with a 5xx.            *)
Headers(c) ==
  /\ at[c] = "served"
  /\ at' = [at EXCEPT ![c] = "body"]
  /\ \E o \in {"ok", "retryable"} : out' = [out EXCEPT ![c] = o]
  /\ UNCHANGED <<adapter, primed, conf, tries, again, leader, inflight, late,
                 applied, manifest>>

---------------------------------------------------------------------------
(* auth-expired.ts: only the Expo adapter has the hook.                    *)
AfterChain(o) ==
  IF o = "unauthorized" /\ adapter = "expo" THEN "recover" ELSE "done"

(* Mutant: the entry of the dedup map is not deleted.                      *)
SettleKeeping(c, o) ==
  /\ at' = [d \in Calls |->
              IF d = c THEN IF again[c] = "no" THEN AfterChain(o) ELSE "done"
              ELSE IF d \in FollowersOf(c) THEN AfterChain(o) ELSE at[d]]
  /\ out' = [d \in Calls |->
              IF d = c \/ d \in FollowersOf(c) THEN o ELSE out[d]]
  /\ inflight' = inflight
  /\ tries' = [tries EXCEPT ![c] = 0]

(* The promise of the chain settles with o: the entry of dedup.ts is       *)
(* deleted, and whoever was given the promise goes on with o.  A call that *)
(* has recovered once does not recover again.                              *)
Settle(c, o) ==
  /\ at' = [d \in Calls |->
              IF d = c THEN IF again[c] = "no" THEN AfterChain(o) ELSE "done"
              ELSE IF d \in FollowersOf(c) THEN AfterChain(o) ELSE at[d]]
  /\ out' = [d \in Calls |->
              IF d = c \/ d \in FollowersOf(c) THEN o ELSE out[d]]
  /\ inflight' = IF inflight = c THEN NoCall ELSE inflight
  /\ tries' = [tries EXCEPT ![c] = 0]

(* An attempt ends with o: the retry loop sleeps before another one, or    *)
(* the chain settles.                                                      *)
Finished(c, o) ==
  IF o = "retryable" /\ MayRetry(c) /\ again[c] # "transport" /\ tries[c] < Retries
  THEN /\ at' = [at EXCEPT ![c] = "backoff"]
       /\ out' = [out EXCEPT ![c] = o]
       /\ tries' = [tries EXCEPT ![c] = @ + 1]
       /\ UNCHANGED inflight
  ELSE Settle(c, o)

(* transport.ts has read the body of the answer.                           *)
BodyRead(c) ==
  /\ at[c] = "body"
  /\ Finished(c, out[c])
  /\ UNCHANGED <<adapter, primed, conf, again, leader, late, applied, manifest>>

(* The connection breaks while the body is read: the error of              *)
(* resp.text() is no ApiError, so nothing retries it.                      *)
BodyLost(c) ==
  /\ at[c] = "body"
  /\ Finished(c, "failed")
  /\ UNCHANGED <<adapter, primed, conf, again, leader, late, applied, manifest>>

(* Mutant: the timer runs for the first attempt only.                      *)
GiveUpFirst(c, o) ==
  /\ at[c] \in {"sent", "served"}
  /\ tries[c] = 0
  /\ o \in {"retryable", "failed"}
  /\ late' = [late EXCEPT ![c] = @ \/ (at[c] = "sent" /\ ~IsIdempotent(c))]
  /\ Finished(c, o)
  /\ UNCHANGED <<adapter, primed, conf, again, leader, applied, manifest>>

(* The timer fires, the connection fails or the caller aborts before the   *)
(* headers; the server may already have, or still get, the attempt (of a   *)
(* call that changes nothing it does not matter).                          *)
GiveUp(c, o) ==
  /\ at[c] \in {"sent", "served"}
  /\ o \in {"retryable", "failed"}
  /\ late' = [late EXCEPT ![c] = @ \/ (at[c] = "sent" /\ ~IsIdempotent(c))]
  /\ Finished(c, o)
  /\ UNCHANGED <<adapter, primed, conf, again, leader, applied, manifest>>

(* The backoff is over: fetch is called again.                             *)
Resend(c) ==
  /\ at[c] = "backoff"
  /\ at' = [at EXCEPT ![c] = "sent"]
  /\ out' = [out EXCEPT ![c] = "none"]
  /\ UNCHANGED <<adapter, primed, conf, tries, again, leader, inflight, late,
                 applied, manifest>>

(* onAuthExpired answers TRUE and next() is called again.  The chain of a  *)
(* call that went down it is used up: the transport is called at once.  A  *)
(* call that was given another's promise stopped at dedup: it goes on      *)
(* from there, through the gate and with retries.                          *)
Recover(c) ==
  /\ at[c] = "recover"
  /\ LET followed == leader[c] # NoCall
         stop == followed /\ Gated(conf[c])
     IN  /\ at' = [at EXCEPT ![c] = IF stop THEN "done" ELSE "sent"]
         /\ out' = [out EXCEPT ![c] = IF stop THEN "offline" ELSE "none"]
         /\ again' = [again EXCEPT ![c] =
                      IF followed THEN "chain" ELSE "transport"]
         /\ leader' = [leader EXCEPT ![c] = NoCall]
  /\ UNCHANGED <<adapter, primed, conf, tries, inflight, late, applied,
                 manifest>>

(* The hook answers FALSE, the default (the stored token is removed).      *)
GiveIn(c) ==
  /\ at[c] = "recover"
  /\ at' = [at EXCEPT ![c] = "done"]
  /\ UNCHANGED <<adapter, primed, conf, tries, again, leader, out, inflight,
                 late, applied, manifest>>

(* capabilityStore.refresh: a manifest arrives, whatever it says.          *)
Refresh(m) ==
  /\ m \in {"open", "closed"}
  /\ manifest # m
  /\ manifest' = m
  /\ UNCHANGED <<adapter, primed, conf, at, tries, again, leader, out,
                 inflight, late, applied>>

---------------------------------------------------------------------------
(* What the client does on its own once a call is made.                    *)
Proceed(c) ==
  \/ GoOn(c)
  \/ Resend(c)
  \/ Recover(c)
  \/ GiveIn(c)

RuntimeNext ==
  \/ \E c \in Calls :
       \/ \E cf \in Configs : Issue(c, cf)
       \/ Proceed(c)
       \/ Apply(c)
       \/ \E o \in Outcomes : Refuse(c, o) \/ GiveUp(c, o)
       \/ ApplyLate(c)
       \/ DropLate(c)
       \/ Headers(c)
       \/ BodyRead(c)
       \/ BodyLost(c)
  \/ Prime
  \/ \E m \in {"open", "closed"} : Refresh(m)

(* Timers and resolved promises run; nothing is assumed of the server and  *)
(* of the network: no header has to come, and no body has to end.          *)
TimeOut(c) == GiveUp(c, "retryable")

RuntimeFairness ==
  /\ WF_runtimeVars(Prime)
  /\ \A c \in Calls : WF_runtimeVars(Proceed(c)) /\ WF_runtimeVars(TimeOut(c))

RuntimeSpec == RuntimeInit /\ [][RuntimeNext]_runtimeVars

---------------------------------------------------------------------------
(* Properties.                                                             *)

RuntimeTypeOK ==
  /\ adapter \in {"web", "expo"}
  /\ primed \in BOOLEAN
  /\ conf \in [Calls -> AllConfigs]
  /\ at \in [Calls -> Places]
  /\ tries \in [Calls -> Nat]
  /\ again \in [Calls -> {"no", "chain", "transport"}]
  /\ leader \in [Calls -> Calls \cup {NoCall}]
  /\ out \in [Calls -> Outcomes]
  /\ inflight \in Calls \cup {NoCall}
  /\ late \in [Calls -> BOOLEAN]
  /\ applied \in [Calls -> Nat]
  /\ manifest \in {"open", "closed"}

(* A call that changes data and carries no idempotency key is executed at  *)
(* most once, whatever times out, fails on the way or is sent again after  *)
(* a recovered session: neither the retry loop nor auth-expired may repeat *)
(* an attempt the server can have executed.                                *)
AppliedOnce ==
  \A c \in Calls :
    conf[c].method = "POST" /\ ~conf[c].keyed => applied[c] <= 1

(* The entry of the dedup map is a call that is still on its way, and the  *)
(* promise a deduplicated call waits for is that of a call still on its    *)
(* way: nobody waits for a promise that has settled, and no later call is  *)
(* given the answer of a past one.                                         *)
InflightIsLive ==
  /\ inflight # NoCall => at[inflight] \in OnWire \cup {"backoff"}
  /\ \A c \in Calls : at[c] = "follow" => leader[c] = inflight

(* A call waits for a body: its own, or that of the call whose promise it  *)
(* was given.                                                              *)
AwaitsBody(c) ==
  at[c] = "body" \/ (at[c] = "follow" /\ at[leader[c]] = "body")

(* Every call ends, whatever the server and the network do: the timer, the *)
(* bound on retries and the single recovery leave no call waiting for      *)
(* ever, and nobody waits for a promise that never settles.  The one wait  *)
(* without a timer is excepted, the body of an answer whose headers are    *)
(* here: that of the call itself or, while it waits for the promise of     *)
(* another, that of the other.                                             *)
CallsSettle ==
  \A c \in Calls :
    at[c] \notin {"idle", "done"} ~> at[c] = "done" \/ AwaitsBody(c)
=============================================================================
