---------------------------- MODULE PeerReconnect -----------------------------
(***************************************************************************)
(* How the page keeps its place at the PeerJS server: the reconnection of  *)
(* front/src/contexts/PeerProvider.tsx and the toast that tells of it.     *)
(*                                                                         *)
(* PeerJS itself is external.  A lost server is an "error" of type network *)
(* followed by "disconnected"; a connect() made while disconnected is an   *)
(* "error" of type disconnected; any other error counts as fatal here, and *)
(* most of them make PeerJS disconnect at once.  destroy() disconnects     *)
(* first if need be.  Only a destroyed client would give a new generation, *)
(* and one is destroyed only when the page has given up: that branch of    *)
(* the handler is never taken and is left out.  Once it has given up, the  *)
(* clean-up comes before the next event from the network: React runs it    *)
(* within a frame.                                                         *)
(*                                                                         *)
(* A definition marked "a slip" is the next one with a mistake in it.  No  *)
(* other definition uses it: put in its place, it shows what a property    *)
(* catches.                                                                *)
(***************************************************************************)
EXTENDS Toasts

CONSTANTS
  MaxAttempts,   \* MAX_RECONNECT_ATTEMPTS
  MaxLosses,     \* bound: times the server is lost
  MaxCalls       \* bound: connect() calls made while disconnected

ASSUME ReconnectAssumption ==
  /\ MaxAttempts \in Nat \ {0} /\ MaxLosses \in Nat /\ MaxCalls \in Nat
  /\ "reconnect" \in ToastId

VARIABLES
  client,   \* see Fresh
  reached,  \* the PeerJS server answers
  losses,
  tries,    \* reconnect() calls since the last open (history)
  calls,    \* connect() calls while disconnected since the last open (history)
  fatal     \* an error of another type has come (history)

reconnectVars == <<tray, client, reached, losses, tries, calls, fatal>>

\* state of the PeerJS client, whether it has had an id, reconnectingRef,
\* reconnectAttemptsRef, reconnectTimeoutRef, isPeerDisconnected.
Fresh ==
  [state |-> "connecting", known |-> FALSE, reconnecting |-> FALSE, attempts |-> 0,
   timer |-> FALSE, gone |-> FALSE]

ReconnectInit ==
  /\ tray = NoToasts
  /\ client = Fresh
  /\ reached \in BOOLEAN
  /\ losses = 0
  /\ tries = 0
  /\ calls = 0
  /\ fatal = FALSE

\* "Reconnexion..." is shown at the first sign of a loss.
Noticed(t) == IF client.reconnecting THEN t ELSE Info(t, "reconnect")

\* scheduleReconnect, n times.
ScheduledTimeless(c, n) ==   \* a slip: an attempt that was cleared is not set again
  [c EXCEPT !.reconnecting = TRUE, !.attempts = @ + n, !.timer = ~@,
            !.gone = @ \/ c.attempts + n > MaxAttempts]
Scheduled(c, n) ==
  [c EXCEPT !.reconnecting = TRUE, !.attempts = @ + n,
            !.timer = @ \/ c.attempts < MaxAttempts,
            !.gone = @ \/ c.attempts + n > MaxAttempts]
ToldScheduled(c, n, t) ==
  IF c.attempts + n > MaxAttempts THEN Dismissed(Noticed(t), "reconnect") ELSE Noticed(t)

\* The "disconnected" event that leaves the client in a state.
Disconnected(c, state) ==
  /\ client' = Scheduled([c EXCEPT !.state = state, !.known = TRUE], 1)
  /\ tray' = ToldScheduled(c, 1, tray)

-----------------------------------------------------------------------------
\* "open".
OpenSilently ==   \* a slip: the toast is not dismissed
  /\ client.state = "connecting" /\ reached /\ ~client.gone
  /\ client' = [client EXCEPT !.state = "open", !.known = TRUE, !.reconnecting = FALSE,
                              !.attempts = IF client.reconnecting THEN 0 ELSE @]
  /\ tries' = 0
  /\ calls' = 0
  /\ UNCHANGED <<tray, reached, losses, fatal>>
Open ==
  /\ client.state = "connecting" /\ reached /\ ~client.gone
  /\ client' = [client EXCEPT !.state = "open", !.known = TRUE, !.reconnecting = FALSE,
                              !.attempts = IF client.reconnecting THEN 0 ELSE @]
  /\ tray' = IF client.reconnecting THEN Dismissed(tray, "reconnect") ELSE tray
  /\ tries' = 0
  /\ calls' = 0
  /\ UNCHANGED <<reached, losses, fatal>>

\* "error" of type network, then "disconnected".
Lost ==
  /\ client.state \in {"connecting", "open"} /\ ~reached /\ ~client.gone
  /\ Disconnected(client, "offline")
  /\ UNCHANGED <<reached, losses, tries, calls, fatal>>

\* The timer: attemptPeerReconnect.
Attempt ==
  /\ client.timer
  /\ client' = [client EXCEPT !.timer = FALSE,
                              !.state = IF @ = "offline" THEN "connecting" ELSE @]
  /\ tries' = IF client.state = "offline" THEN tries + 1 ELSE tries
  /\ UNCHANGED <<tray, reached, losses, calls, fatal>>

\* The list changes while the client is disconnected: the connect effect calls connect()
\* for each of n peers, and each call is an "error" of type disconnected.
ConnectOffline(n) ==
  /\ client.state = "offline" /\ ~client.gone
  /\ calls + n <= MaxCalls
  /\ calls' = calls + n
  /\ client' = Scheduled(client, n)
  /\ tray' = ToldScheduled(client, n, tray)
  /\ UNCHANGED <<reached, losses, tries, fatal>>

\* "error" of another type.  One that aborts the connection is followed by
\* "disconnected"; the client destroys itself if it never had an id.
FatalError(aborts) ==
  /\ client.state \in {"connecting", "open"} /\ ~client.gone
  /\ LET c == [client EXCEPT !.gone = TRUE]
     IN  IF aborts
         THEN Disconnected(c, IF client.known THEN "offline" ELSE "destroyed")
         ELSE client' = c /\ UNCHANGED tray
  /\ fatal' = TRUE
  /\ UNCHANGED <<reached, losses, tries, calls>>

\* The clean-up once isPeerDisconnected is set: the timer is cleared and the client
\* destroyed, which disconnects it first.
CleanUp ==
  /\ client.gone /\ client.state # "destroyed"
  /\ LET c == [client EXCEPT !.timer = FALSE, !.state = "destroyed"]
     IN  IF client.state = "offline" THEN client' = c /\ UNCHANGED tray
         ELSE Disconnected(c, "destroyed")
  /\ UNCHANGED <<reached, losses, tries, calls, fatal>>

ServerChanges ==
  /\ reached => losses < MaxLosses
  /\ losses' = IF reached THEN losses + 1 ELSE losses
  /\ reached' = ~reached
  /\ UNCHANGED <<tray, client, tries, calls, fatal>>
ReconnectToasts == ToastStep /\ UNCHANGED <<client, reached, losses, tries, calls, fatal>>

ReconnectNext ==
  \/ Open \/ Lost \/ Attempt \/ CleanUp
  \/ \E n \in 1..MaxCalls : ConnectOffline(n)
  \/ \E aborts \in BOOLEAN : FatalError(aborts)
  \/ ServerChanges
  \/ ReconnectToasts

ReconnectSpec == ReconnectInit /\ [][ReconnectNext]_reconnectVars

\* A client that is connecting opens or is lost, and timers fire.
ReconnectFairness ==
  /\ WF_reconnectVars(Open)
  /\ WF_reconnectVars(Lost)
  /\ WF_reconnectVars(Attempt)
  /\ WF_reconnectVars(CleanUp)
ReconnectFairSpec == ReconnectSpec /\ ReconnectFairness

-----------------------------------------------------------------------------
(* Properties *)

Client ==
  [state : {"connecting", "open", "offline", "destroyed"}, known : BOOLEAN,
   reconnecting : BOOLEAN, attempts : Nat, timer : BOOLEAN, gone : BOOLEAN]

\* The types of the state.
ReconnectTypeOK ==
  /\ tray \in Tray /\ client \in Client
  /\ reached \in BOOLEAN
  /\ losses \in 0..MaxLosses /\ tries \in Nat /\ calls \in 0..MaxCalls
  /\ fatal \in BOOLEAN

\* A disconnected client has an attempt coming, or the page has given up.
AttemptComing == client.state = "offline" => client.timer \/ client.gone

\* The page gives up after MaxAttempts attempts to reconnect in a row, or earlier when
\* connect() calls were counted for attempts (scheduleReconnect, called by two events)
\* or the error was fatal.
GaveUpExplained == client.gone => fatal \/ tries + calls >= MaxAttempts

\* While the page reconnects its toast stands, unless it was added during an exit
\* animation or the user closed it.
ReconnectShown ==
  client.reconnecting /\ ~client.gone =>
    Stands("reconnect") \/ "reconnect" \in tray.doomed \/ tray.clicks > 0

\* The toast stands only while the page reconnects.  After a fatal error it may stay
\* for ever: "disconnected" follows, and nothing dismisses what it shows.
ToastMeansTrying == Stands("reconnect") => fatal \/ (client.reconnecting /\ ~client.gone)

\* What holds at every moment of a reconnection: it is going on or given up for a
\* reason, and the user sees which.
ReconnectSafe ==
  AttemptComing /\ GaveUpExplained /\ ReconnectShown /\ ToastMeansTrying

\* A loss ends: the client opens again or the page gives up, and the toast goes.
Settles ==
  client.reconnecting ~>
    (client.gone \/ (client.state = "open" /\ "reconnect" \notin tray.wanted))
=============================================================================
