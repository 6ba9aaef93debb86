--------------------------- MODULE NoticesClient ---------------------------
(***************************************************************************)
(* What tells a signed-in person that something happened: the bell of      *)
(* NotificationBell.js (polled; the server's notifications are read and    *)
(* marked by requests that overtake each other), the badge of the socket's *)
(* state (lib/socket.js, useRealtime.js) and the toasts a failed request   *)
(* raises (ToastBridgeMount.js, Toast.js).                                 *)
(***************************************************************************)
EXTENDS Naturals, FiniteSets

CONSTANTS
  Notes,       \* notifications that can arrive
  Polls,       \* polls of the badge that can be on their way at once
  Errors,      \* polls that fail
  Attempts,    \* reconnectionAttempts of the socket
  Failures     \* failures of a request: [class, url]

FailureClasses == {"expired", "network", "server", "rejected", "render"}

ASSUME NoticesAssumption ==
  /\ Attempts \in Nat \ {0}
  /\ Errors \in Nat
  /\ \A f \in Failures : f.class \in FailureClasses

VARIABLES
  unread,      \* at the server: notifications not read
  arrived,     \* at the server: all notifications
  badge,       \* unreadCount
  panel,       \* the list of the panel: open, shown, unread as it shows them
  poll,        \* each poll of the count: not sent, "sent", or its answer is here
  fetch,       \* GET /notifications, likewise
  marks,       \* POST .../read on their way: [note, served, n]
  readAll,     \* POST /read-all: "no", "sent", "served"
  errors,      \* polls that have failed
  link,        \* the socket: "connecting", "up", "down", "closed"
  failedTries, \* attempts to reconnect that failed
  status,      \* useConnectionStatus
  toasts,      \* toasts on the screen for each failure
  throttled    \* failures toasted less than TOAST_THROTTLE_MS ago

bellVars == <<unread, arrived, badge, panel, poll, fetch, marks, readAll, errors>>
linkVars == <<link, failedTries, status>>
toastVars == <<toasts, throttled>>
noticesVars == <<bellVars, linkVars, toastVars>>

Clicks == 1..2   \* clicks on one notification before the first is answered

NoPoll  == [is |-> "no", count |-> 0]
NoFetch == [is |-> "no", all |-> {}, unread |-> {}]

NoticesInit ==
  /\ unread = {} /\ arrived = {}
  /\ badge = 0
  /\ panel = [open |-> FALSE, shown |-> {}, unread |-> {}]
  /\ poll = [p \in Polls |-> NoPoll]
  /\ fetch = NoFetch
  /\ marks = {}
  /\ readAll = "no"
  /\ errors = 0
  /\ link = "connecting" /\ failedTries = 0 /\ status = "connecting"
  /\ toasts = [f \in Failures |-> 0]
  /\ throttled = {}

---------------------------------------------------------------------------
(* The bell.                                                               *)

(* The server adds a notification.                                         *)
Arrives(n) ==
  /\ n \notin arrived
  /\ arrived' = arrived \cup {n}
  /\ unread' = unread \cup {n}
  /\ UNCHANGED <<badge, panel, poll, fetch, marks, readAll, errors>>

(* fetchUnreadCount, at once and every 15 seconds; nothing waits for the   *)
(* answer of the poll before.                                              *)
PollSend(p) ==
  /\ poll[p].is = "no"
  /\ poll' = [poll EXCEPT ![p].is = "sent"]
  /\ UNCHANGED <<unread, arrived, badge, panel, fetch, marks, readAll, errors>>

PollServed(p) ==
  /\ poll[p].is = "sent"
  /\ poll' = [poll EXCEPT ![p] = [is |-> "here", count |-> Cardinality(unread)]]
  /\ UNCHANGED <<unread, arrived, badge, panel, fetch, marks, readAll, errors>>

(* Mutant: a count of 0 is taken for a missing one.                        *)
PollAnswerNotNull(p) ==
  /\ poll[p].is = "here"
  /\ badge' = IF poll[p].count = 0 THEN badge ELSE poll[p].count
  /\ poll' = [poll EXCEPT ![p] = NoPoll]
  /\ UNCHANGED <<unread, arrived, panel, fetch, marks, readAll, errors>>

PollAnswer(p) ==
  /\ poll[p].is = "here"
  /\ badge' = poll[p].count
  /\ poll' = [poll EXCEPT ![p] = NoPoll]
  /\ UNCHANGED <<unread, arrived, panel, fetch, marks, readAll, errors>>

(* An error is ignored; Errors bounds how often that happens.              *)
PollFails(p) ==
  /\ poll[p].is # "no"
  /\ errors < Errors
  /\ errors' = errors + 1
  /\ poll' = [poll EXCEPT ![p] = NoPoll]
  /\ UNCHANGED <<unread, arrived, badge, panel, fetch, marks, readAll>>

(* The panel opens and fetches the list; a click outside closes it.        *)
OpenPanel ==
  /\ ~panel.open
  /\ fetch.is = "no"
  /\ panel' = [panel EXCEPT !.open = TRUE]
  /\ fetch' = [fetch EXCEPT !.is = "sent"]
  /\ UNCHANGED <<unread, arrived, badge, poll, marks, readAll, errors>>

ClosePanel ==
  /\ panel.open
  /\ panel' = [panel EXCEPT !.open = FALSE]
  /\ UNCHANGED <<unread, arrived, badge, poll, fetch, marks, readAll, errors>>

FetchServed ==
  /\ fetch.is = "sent"
  /\ fetch' = [is |-> "here", all |-> arrived, unread |-> unread]
  /\ UNCHANGED <<unread, arrived, badge, panel, poll, marks, readAll, errors>>

(* The list arrives, or the error is ignored.                              *)
FetchAnswer ==
  /\ fetch.is = "here"
  /\ panel' = [panel EXCEPT !.shown = fetch.all, !.unread = fetch.unread]
  /\ fetch' = NoFetch
  /\ UNCHANGED <<unread, arrived, badge, poll, marks, readAll, errors>>

FetchFails ==
  /\ fetch.is # "no"
  /\ fetch' = NoFetch
  /\ UNCHANGED <<unread, arrived, badge, panel, poll, marks, readAll, errors>>

(* markRead: a notification shown as unread is clicked; it is shown so     *)
(* until the answer, and the spinner of a fetch hides the list.            *)
Mark(n, i) ==
  /\ panel.open /\ fetch.is = "no"
  /\ n \in panel.unread
  /\ \A m \in marks : m.note = n => m.n # i
  /\ marks' = marks \cup {[note |-> n, served |-> FALSE, n |-> i]}
  /\ UNCHANGED <<unread, arrived, badge, panel, poll, fetch, readAll, errors>>

MarkServed(m) ==
  /\ ~m.served
  /\ unread' = unread \ {m.note}
  /\ marks' = (marks \ {m}) \cup {[m EXCEPT !.served = TRUE]}
  /\ UNCHANGED <<arrived, badge, panel, poll, fetch, readAll, errors>>

(* Each answer takes one off the badge.                                    *)
MarkAnswer(m) ==
  /\ m.served
  /\ panel' = [panel EXCEPT !.unread = @ \ {m.note}]
  /\ badge' = IF badge = 0 THEN 0 ELSE badge - 1
  /\ marks' = marks \ {m}
  /\ UNCHANGED <<unread, arrived, poll, fetch, readAll, errors>>

MarkFails(m) ==
  /\ marks' = marks \ {m}
  /\ UNCHANGED <<unread, arrived, badge, panel, poll, fetch, readAll, errors>>

(* markAllRead, offered while the badge is not 0.                          *)
ReadAll ==
  /\ panel.open /\ badge > 0 /\ readAll = "no"
  /\ readAll' = "sent"
  /\ UNCHANGED <<unread, arrived, badge, panel, poll, fetch, marks, errors>>

ReadAllServed ==
  /\ readAll = "sent"
  /\ unread' = {}
  /\ readAll' = "served"
  /\ UNCHANGED <<arrived, badge, panel, poll, fetch, marks, errors>>

ReadAllAnswer ==
  /\ readAll = "served"
  /\ panel' = [panel EXCEPT !.unread = {}]
  /\ badge' = 0
  /\ readAll' = "no"
  /\ UNCHANGED <<unread, arrived, poll, fetch, marks, errors>>

ReadAllFails ==
  /\ readAll # "no"
  /\ readAll' = "no"
  /\ UNCHANGED <<unread, arrived, badge, panel, poll, fetch, marks, errors>>

BellNext ==
  \/ \E n \in Notes : Arrives(n) \/ \E i \in Clicks : Mark(n, i)
  \/ \E p \in Polls : PollSend(p) \/ PollServed(p) \/ PollAnswer(p) \/ PollFails(p)
  \/ OpenPanel \/ ClosePanel \/ FetchServed \/ FetchAnswer \/ FetchFails
  \/ \E m \in marks : MarkServed(m) \/ MarkAnswer(m) \/ MarkFails(m)
  \/ ReadAll \/ ReadAllServed \/ ReadAllAnswer \/ ReadAllFails

---------------------------------------------------------------------------
(* The socket, and the badge that shows its state.                         *)

SocketUp ==
  /\ link = "connecting"
  /\ link' = "up" /\ status' = "connected" /\ failedTries' = 0

(* connect_error; after the last attempt the socket stays closed.          *)
SocketError ==
  /\ link = "connecting"
  /\ failedTries' = failedTries + 1
  /\ link' = IF failedTries + 1 > Attempts THEN "closed" ELSE "down"
  /\ status' = "disconnected"

(* The connection breaks; one the server ends is not opened again.         *)
SocketDown ==
  /\ link = "up"
  /\ link' \in {"down", "closed"}
  /\ status' = "disconnected"
  /\ failedTries' = 0

(* reconnect_attempt.                                                      *)
SocketRetry ==
  /\ link = "down"
  /\ link' = "connecting" /\ status' = "connecting"
  /\ UNCHANGED failedTries

(* Another layout is shown: the badge is mounted anew.                     *)
BadgeMount ==
  /\ status' = IF link = "up" THEN "connected" ELSE "connecting"
  /\ UNCHANGED <<link, failedTries>>

LinkNext == SocketUp \/ SocketError \/ SocketDown \/ SocketRetry \/ BadgeMount

---------------------------------------------------------------------------
(* Toasts.  An expired session is left to the sign-in; the same failure is *)
(* toasted once in four seconds, and a toast lasts five: two of one        *)
(* failure can be on the screen.                                           *)
RequestFails(f) ==
  /\ f.class # "expired"
  /\ f \notin throttled
  /\ toasts[f] < 2
  /\ toasts' = [toasts EXCEPT ![f] = @ + 1]
  /\ throttled' = throttled \cup {f}

ThrottleEnds(f) ==
  /\ f \in throttled
  /\ throttled' = throttled \ {f}
  /\ UNCHANGED toasts

(* The toast is closed, or its five seconds are over.                      *)
ToastGoes(f) ==
  /\ toasts[f] > 0
  /\ toasts' = [toasts EXCEPT ![f] = @ - 1]
  /\ UNCHANGED throttled

ToastNext == \E f \in Failures : RequestFails(f) \/ ThrottleEnds(f) \/ ToastGoes(f)

(* The interval of the poll fires again and again, the server answers.     *)
PollRuns(p) == PollSend(p) \/ PollServed(p) \/ PollAnswer(p)

---------------------------------------------------------------------------
(* Properties.                                                             *)

(* The badge comes back to the server's count again and again: whatever    *)
(* late polls, double clicks and stale lists did to it, the next poll      *)
(* that is answered repairs it.                                            *)
BadgeCatchesUp == []<>(badge = Cardinality(unread))
=============================================================================
