-------------------------------- MODULE Toasts --------------------------------
(***************************************************************************)
(* The notifications of the page: front/src/library/toastService.tsx and   *)
(* front/src/contexts/ToastContext.tsx.                                    *)
(*                                                                         *)
(* A toast is added, updated and removed by its id through an event bus;   *)
(* the provider keeps the list and the timers.  A removed toast stays in   *)
(* the list for its exit animation, and one that is added meanwhile under  *)
(* the same id is taken for a duplicate.                                   *)
(*                                                                         *)
(* The operators take the tray and return it, so that a component that     *)
(* notifies several times in one callback composes them.  The module has   *)
(* no specification of its own: SendPanel and PeerReconnect extend it.     *)
(* Every id here is added without auto-close or is used once, as all ids   *)
(* of the program are, so no auto-close timer replaces another.  Progress  *)
(* toasts are in Inbox.                                                    *)
(***************************************************************************)
EXTENDS Naturals, FiniteSets

CONSTANTS
  ToastId,    \* the ids in use
  MaxClicks   \* bound: toasts the user closes

ASSUME ToastAssumption == MaxClicks \in Nat

VARIABLE
  tray   \* the provider's state, and two sets no guard reads

(***************************************************************************)
(* shown     the toasts in the list        exiting   those with isExiting   *)
(* closing   ids in autoCloseTimers        leaving   exit timers, by id     *)
(* wanted    ids notified and not since removed, by the program, a timer or *)
(*           the user; doomed: those added while an exit timer was running  *)
(***************************************************************************)
NoToasts ==
  [shown |-> {}, exiting |-> {}, closing |-> {}, leaving |-> [id \in ToastId |-> 0],
   wanted |-> {}, doomed |-> {}, clicks |-> 0]

Tray ==
  [shown : SUBSET ToastId, exiting : SUBSET ToastId, closing : SUBSET ToastId,
   leaving : [ToastId -> Nat], wanted : SUBSET ToastId, doomed : SUBSET ToastId,
   clicks : Nat]

\* addToast.
Added(t, id, autoClose) ==
  [t EXCEPT !.shown = @ \cup {id},
            !.closing = IF autoClose THEN @ \cup {id} ELSE @,
            !.wanted = @ \cup {id},
            !.doomed = IF t.leaving[id] > 0 THEN @ \cup {id} ELSE @]

\* removeToast.
Removed(t, id) ==
  [t EXCEPT !.closing = @ \ {id},
            !.exiting = @ \cup ({id} \cap t.shown),
            !.leaving[id] = @ + 1,
            !.wanted = @ \ {id},
            !.doomed = @ \ {id}]

\* notify.info(..., false, id), notify.success, notify.dismiss.
Info(t, id) == Added(t, id, FALSE)
Message(t, id) == Added(t, id, TRUE)
Dismissed(t, id) == Removed(t, id)

\* The end of the exit animation: setToasts(filter).
Exited(t, id) ==
  [t EXCEPT !.leaving[id] = @ - 1,
            !.shown = @ \ {id}, !.exiting = @ \ {id}]

Exit(id) == tray.leaving[id] > 0 /\ tray' = Exited(tray, id)
AutoClose(id) == id \in tray.closing /\ tray' = Removed(tray, id)
\* The close button.
Click(id) ==
  /\ id \in tray.shown
  /\ tray.clicks < MaxClicks
  /\ tray' = [Removed(tray, id) EXCEPT !.clicks = @ + 1]

Timeouts(id) == Exit(id) \/ AutoClose(id)
ToastStep == \E id \in ToastId : Timeouts(id) \/ Click(id)

-----------------------------------------------------------------------------
\* A toast that stands in the list and is not on its way out.
Stands(id) == id \in tray.shown \ tray.exiting

\* What is wanted stands there, unless it was added during an exit animation.
WantedStand == \A id \in tray.wanted : Stands(id) \/ id \in tray.doomed
\* What stands there is wanted.
StandingWanted == \A id \in tray.shown : Stands(id) => id \in tray.wanted
=============================================================================
