---------------------------- MODULE WorkerStates ----------------------------
(***************************************************************************)
(* The pure parts of the market data worker: the transition table of       *)
(* worker_state.py, the watchdog that grades the feed, and what the claims *)
(* of a Dhan token say about it.                                           *)
(***************************************************************************)
EXTENDS Integers

States == {"STOPPED", "STARTING", "AUTHENTICATING", "CONNECTING", "SUBSCRIBING", "RUNNING",
           "DEGRADED", "RECONNECTING", "AUTH_FAILED", "TOKEN_EXPIRED", "STOPPING", "FAILED"}

\* _TRANSITIONS, by event: the states it is legal in and where it leads.
Transitions ==
  [START_REQUESTED     |-> [s \in {"STOPPED", "AUTH_FAILED", "FAILED"} |-> "STARTING"],
   AUTH_SUCCEEDED      |-> [s \in {"STARTING", "AUTHENTICATING", "TOKEN_EXPIRED"} |-> "CONNECTING"],
   AUTH_FAILED_EVENT   |-> [s \in {"STARTING", "AUTHENTICATING", "TOKEN_EXPIRED"} |-> "AUTH_FAILED"],
   CONNECTED           |-> [s \in {"CONNECTING"} |-> "SUBSCRIBING"],
   SUBSCRIBED          |-> [s \in {"SUBSCRIBING"} |-> "RUNNING"],
   HEARTBEAT_OK        |-> [s \in {"RUNNING", "DEGRADED"} |-> "RUNNING"],
   HEARTBEAT_TIMEOUT   |-> [s \in {"RUNNING"} |-> "DEGRADED"],
   CONNECTION_LOST     |-> [s \in {"CONNECTING", "SUBSCRIBING", "RUNNING", "DEGRADED"} |-> "RECONNECTING"],
   TOKEN_EXPIRED_EVENT |-> [s \in {"RUNNING", "DEGRADED"} |-> "TOKEN_EXPIRED"],
   RECONNECT_SUCCEEDED |-> [s \in {"RECONNECTING"} |-> "SUBSCRIBING"],
   RECONNECT_EXHAUSTED |-> [s \in {"RECONNECTING"} |-> "FAILED"],
   STOP_REQUESTED      |-> [s \in {"RUNNING", "DEGRADED", "RECONNECTING", "TOKEN_EXPIRED",
                                   "AUTH_FAILED", "FAILED"} |->
                              IF s \in {"AUTH_FAILED", "FAILED"} THEN "STOPPED" ELSE "STOPPING"],
   STOPPED_CLEANLY     |-> [s \in {"STOPPING"} |-> "STOPPED"]]

\* apply_event: an event that is not legal in a state leaves it as it is.
ApplyEvent(s, e) == IF s \in DOMAIN Transitions[e] THEN Transitions[e][s] ELSE s

\* The states of a run on one connection: it begins with the four start-up events, and ends
\* because it is told to stop or because the connection is lost.
Started == ApplyEvent(ApplyEvent("STOPPED", "START_REQUESTED"), "AUTH_SUCCEEDED")
Subscribed == ApplyEvent(ApplyEvent(Started, "CONNECTED"), "SUBSCRIBED")
CleanStop == ApplyEvent(ApplyEvent(Subscribed, "STOP_REQUESTED"), "STOPPED_CLEANLY")
LostConnection == ApplyEvent(Subscribed, "CONNECTION_LOST")

\* _UNRECOVERABLE_STATES of the reconnect supervisor.
Unrecoverable == {"AUTH_FAILED", "TOKEN_EXPIRED", "FAILED"}

-----------------------------------------------------------------------------
Absent  == -1
Garbled == -2
TokenStates == {"UNCONFIGURED", "MALFORMED", "EXPIRED", "EXPIRING_SOON", "VALID"}

\* evaluate_dhan_token_lifecycle.  A token is absent, not a JWT with an expiry, or has a
\* number of hours left (EXPIRING_SOON_THRESHOLD is one).
EvaluateToken(token) ==
  IF token = Absent THEN "UNCONFIGURED"
  ELSE IF token = Garbled THEN "MALFORMED"
  ELSE IF token <= 0 THEN "EXPIRED"
  ELSE IF token <= 1 THEN "EXPIRING_SOON"
  ELSE "VALID"

\* How old the last packet or bar is: never, within its limit, or beyond it.
Ages == {"never", "fresh", "stale"}

BadWatchdog(token, state, packet, bar) ==
  IF token \notin {"VALID", "EXPIRING_SOON"} \/ state = "FAILED" THEN "FAILED"
  ELSE IF packet = "never" THEN "DISCONNECTED"
  ELSE IF packet = "stale" THEN "STALE"
  ELSE IF bar # "fresh" THEN "DEGRADED"
  ELSE "HEALTHY"

\* evaluate_market_data_watchdog.
Watchdog(token, state, packet, bar) ==
  IF token \notin {"VALID", "EXPIRING_SOON"} \/ state = "FAILED" THEN "FAILED"
  ELSE IF state \in {"STOPPED", "RECONNECTING", "STOPPING", "AUTH_FAILED", "TOKEN_EXPIRED"}
    THEN "DISCONNECTED"
  ELSE IF packet = "never" THEN "DISCONNECTED"
  ELSE IF packet = "stale" THEN "STALE"
  ELSE IF bar # "fresh" THEN "DEGRADED"
  ELSE "HEALTHY"
=============================================================================
