----------------------------- MODULE LoadingGate ------------------------------
(***************************************************************************)
(* What hides the page: the gate that waits for a peer id                  *)
(* (front/src/contexts/ConnectionProvider.tsx, LoadingPage) and the        *)
(* overlay shown while a room is joined (front/src/app/page.tsx with       *)
(* front/src/hooks/useMinimumDuration.ts).                                 *)
(*                                                                         *)
(* PeerProvider and SocketProvider stand above the gate: they work while   *)
(* the page below it is not there yet.  An effect runs when a dependency   *)
(* differs from its last run, and its clean-up comes first.                *)
(***************************************************************************)
EXTENDS Naturals

CONSTANT MaxTurns   \* bound: times the peer id comes and goes

ASSUME TurnsAssumption == MaxTurns \in Nat

VARIABLES
  peerId,      \* PeerJS has given an id
  isJoining,   \* of SocketProvider
  gate,        \* ConnectionProvider
  overlay,     \* useMinimumDuration(isJoining, MINIMUM_JOINING_DISPLAY)
  turns

gateVars == <<peerId, isJoining, gate, overlay, turns>>

(***************************************************************************)
(* gate:    known = peerId as the effects last saw it; slow and due are the *)
(*          15 s timer and the minimum-time timer                           *)
(* overlay: mounted with the page; active as the effect last saw it;       *)
(*          began = startTimeRef is set; release is the timer              *)
(***************************************************************************)
GateInit ==
  /\ peerId = FALSE
  /\ isJoining = FALSE
  /\ gate = [isReady |-> FALSE, hasTimedOut |-> FALSE, known |-> FALSE,
             slow |-> TRUE, due |-> FALSE]
  /\ overlay = [mounted |-> FALSE, held |-> FALSE, active |-> FALSE, began |-> FALSE,
                release |-> FALSE]
  /\ turns = 0

PeerIdChanges ==
  /\ turns < MaxTurns
  /\ turns' = turns + 1
  /\ peerId' = ~peerId
  /\ UNCHANGED <<isJoining, gate, overlay>>

\* Both effects of the gate: with an id the minimum time runs, without one the 15 s.
GateEffect ==
  /\ gate.known # peerId
  /\ gate' = IF peerId THEN [gate EXCEPT !.known = TRUE, !.hasTimedOut = FALSE,
                                         !.due = TRUE, !.slow = FALSE]
             ELSE [gate EXCEPT !.known = FALSE, !.slow = TRUE, !.due = FALSE]
  /\ UNCHANGED <<peerId, isJoining, overlay, turns>>
ReadyTimer ==
  /\ gate.due
  /\ gate' = [gate EXCEPT !.due = FALSE, !.isReady = TRUE]
  /\ UNCHANGED <<peerId, isJoining, overlay, turns>>
SlowTimer ==
  /\ gate.slow
  /\ gate' = [gate EXCEPT !.slow = FALSE, !.hasTimedOut = TRUE]
  /\ UNCHANGED <<peerId, isJoining, overlay, turns>>

\* The page is mounted, with the overlay as isJoining says.
PageMounts ==
  /\ gate.isReady /\ ~overlay.mounted
  /\ overlay' = [mounted |-> TRUE, held |-> isJoining, active |-> isJoining,
                 began |-> isJoining, release |-> FALSE]
  /\ UNCHANGED <<peerId, isJoining, gate, turns>>
\* The effect of useMinimumDuration.
OverlayEffectIdle ==   \* a slip: the release is not timed
  /\ overlay.mounted /\ overlay.active # isJoining
  /\ overlay' =
       IF isJoining THEN [overlay EXCEPT !.active = TRUE, !.held = TRUE, !.began = TRUE,
                                         !.release = FALSE]
       ELSE [overlay EXCEPT !.active = FALSE, !.held = @ /\ overlay.began]
  /\ UNCHANGED <<peerId, isJoining, gate, turns>>
OverlayEffect ==
  /\ overlay.mounted /\ overlay.active # isJoining
  /\ overlay' =
       IF isJoining THEN [overlay EXCEPT !.active = TRUE, !.held = TRUE, !.began = TRUE,
                                         !.release = FALSE]
       ELSE IF ~overlay.began THEN [overlay EXCEPT !.active = FALSE, !.held = FALSE]
       ELSE [overlay EXCEPT !.active = FALSE, !.release = TRUE]
  /\ UNCHANGED <<peerId, isJoining, gate, turns>>
ReleaseTimer ==
  /\ overlay.release
  /\ overlay' = [overlay EXCEPT !.release = FALSE, !.held = FALSE, !.began = FALSE]
  /\ UNCHANGED <<peerId, isJoining, gate, turns>>

GateEffects ==
  GateEffect \/ ReadyTimer \/ SlowTimer \/ PageMounts \/ OverlayEffect \/ ReleaseTimer

=============================================================================
