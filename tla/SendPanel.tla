------------------------------ MODULE SendPanel -------------------------------
(***************************************************************************)
(* The panel a user sends files from:                                      *)
(* front/src/components/Forms/FileTransfer/FileTransfer.tsx with its two   *)
(* drop zones and the drag store, and the toasts it shows.                 *)
(*                                                                         *)
(* sendFileToTargets is reduced to its outcome: FileTransfer models it.    *)
(* React runs an effect when one of its dependencies differs from its last *)
(* run; other callbacks may come before that.  The panel is mounted again, *)
(* with fresh state, when the room changes; what the old one still had     *)
(* running goes on without it.  Timers fire at any time.                   *)
(*                                                                         *)
(* A definition marked "a slip" is the next one with a mistake in it.  No  *)
(* other definition uses it: put in its place, it shows what a property    *)
(* catches.                                                                *)
(***************************************************************************)
EXTENDS Toasts, Sequences, SequencesExt

CONSTANTS
  Peer,        \* the other browsers
  Selections,  \* the file names of a selection, in the order of the list: a name is a
               \* base and the counters it carries, all of them numbers
  MaxPicks,    \* bound: selections
  MaxSends,    \* MAX_TRANSFER_RETRIES
  MaxLinks,    \* bound: connections opened and closed, changes of isActive
  MaxMounts    \* bound: panels mounted after the first

ASSUME PanelAssumption ==
  /\ MaxPicks \in Nat /\ MaxSends \in Nat \ {0} /\ MaxLinks \in Nat /\ MaxMounts \in Nat
  /\ Selections \subseteq Seq(Seq(Nat)) \ {<<>>}
  /\ {"waiting", "zipping", "sent", "sent again"} \subseteq ToastId

VARIABLES
  panel,     \* the panel's state and refs
  picks,     \* the files picked so far; a file is its number
  archive,   \* the names in the last zip file
  active,    \* the isActive prop: the room is joined and somebody is listed
  dragging,  \* isDragFileActive
  open,      \* the peers whose connection is open
  sending,   \* a listed peer has isSending
  seen,      \* the dependencies each effect has last run for
  orphans,   \* zips of panels that are gone, whose toast was shown
  links, mounts,
  wins, told,  \* successful calls, and announcements of one (history)
  stale        \* connections were gone when a selection relied on them (history)

panelHistory == <<wins, told, stale>>
panelWorld == <<active, open, sending, links, mounts>>
panelVars == <<tray, panel, picks, archive, dragging, seen, orphans, panelWorld,
               panelHistory>>

NoFile == 0
(***************************************************************************)
(* pending, awaiting, processing, zipping, inTransfer   React state         *)
(* sendInProgress, retryCount, succeeded, started       refs                *)
(* timer        waitingTimeoutRef is set                                    *)
(* zipToast     the 300 ms before the zipping toast, or that it was shown   *)
(* zipReady     hasReadyConnection, as the running selection's closure has it *)
(* completing   the timer of the transfer effect is running                 *)
(* calling      this panel's sendFileToTargets runs                         *)
(***************************************************************************)
Mounted ==
  [pending |-> NoFile, awaiting |-> FALSE, processing |-> FALSE, zipping |-> FALSE,
   inTransfer |-> FALSE, sendInProgress |-> FALSE, retryCount |-> 0,
   succeeded |-> FALSE, started |-> FALSE, timer |-> FALSE, zipToast |-> "no",
   zipReady |-> FALSE, completing |-> FALSE, calling |-> FALSE]

hasReadyConnection == open # {}
Rendered == [pending |-> panel.pending, ready |-> hasReadyConnection,
             inTransfer |-> panel.inTransfer, sending |-> sending, active |-> active]
isTransferLocked ==
  panel.inTransfer \/ panel.awaiting \/ panel.pending # NoFile \/ panel.processing
    \/ panel.zipping

PanelInit ==
  /\ tray = NoToasts
  /\ panel = Mounted
  /\ picks = 0
  /\ archive = <<>>
  /\ active = FALSE
  /\ dragging = FALSE
  /\ open = {}
  /\ sending = FALSE
  /\ seen = Rendered
  /\ orphans = 0
  /\ links = 0
  /\ mounts = 0
  /\ wins = 0
  /\ told = 0
  /\ stale = FALSE

-----------------------------------------------------------------------------
(* Choosing files *)

\* The name a file gets in the archive: its own, or with the first counter that
\* makes it new.
WithCounter(name, n) == IF n = 0 THEN name ELSE Append(name, n)
FirstFreeOnce(used, name) ==   \* a slip: the counter is tried once
  WithCounter(name, IF name \in used THEN 1 ELSE 0)
FirstFree(used, name) ==
  LET Free(n) == WithCounter(name, n) \notin used
      n == CHOOSE m \in 0..Cardinality(used) : Free(m) /\ \A k \in 0..m - 1 : ~Free(k)
  IN  WithCounter(name, n)
createZipFromFiles(names) ==
  LET zip[n \in 0..Len(names)] ==
        IF n = 0 THEN <<>>
        ELSE Append(zip[n - 1], FirstFree(ToSet(zip[n - 1]), names[n]))
  IN  zip[Len(names)]

\* resetTransferState.
Reset(p) ==
  [p EXCEPT !.pending = NoFile, !.awaiting = FALSE, !.processing = FALSE,
            !.zipping = FALSE, !.sendInProgress = FALSE, !.retryCount = 0,
            !.started = FALSE, !.timer = FALSE]
ResetToasts(t) == Dismissed(Dismissed(t, "waiting"), "zipping")

\* The rest of handleFileSelection, with the readiness its closure has.
Take(p, t, ready) ==
  LET taken == [p EXCEPT !.retryCount = 0, !.pending = picks', !.zipping = FALSE,
                         !.zipToast = "no"]
  IN  /\ panel' = IF ready THEN taken
                  ELSE [taken EXCEPT !.awaiting = TRUE, !.timer = TRUE]
      /\ tray' = IF ready THEN t ELSE Info(t, "waiting")
      /\ stale' = (stale \/ (ready /\ ~hasReadyConnection))

\* handleFileSelection, called by the picker or by a drop on either zone.
Select(names) ==
  /\ ~isTransferLocked
  /\ picks < MaxPicks
  /\ picks' = picks + 1
  /\ \/ /\ Len(names) = 1
        /\ Take(panel, tray, seen.ready)
        /\ UNCHANGED archive
     \/ /\ Len(names) > 1
        /\ panel' = [panel EXCEPT !.zipping = TRUE, !.zipToast = "timer",
                                  !.zipReady = seen.ready]
        /\ archive' = createZipFromFiles(names)
        /\ UNCHANGED <<tray, stale>>
  /\ UNCHANGED <<seen, orphans, panelWorld, wins, told>>

Pick(names) == Select(names) /\ UNCHANGED dragging   \* the input is there when inactive
Drop(names) == dragging /\ active /\ Select(names) /\ dragging' = FALSE

ZipToast ==
  /\ panel.zipping /\ panel.zipToast = "timer"
  /\ panel' = [panel EXCEPT !.zipToast = "shown"]
  /\ tray' = Info(tray, "zipping")
  /\ UNCHANGED <<picks, archive, dragging, seen, orphans, panelWorld, panelHistory>>

ZipDone ==
  /\ panel.zipping
  /\ UNCHANGED picks
  /\ Take(panel, IF panel.zipToast = "shown" THEN Dismissed(tray, "zipping") ELSE tray,
          panel.zipReady)
  /\ UNCHANGED <<archive, dragging, seen, orphans, panelWorld, wins, told>>

ZipFails ==
  /\ panel.zipping
  /\ panel' = [panel EXCEPT !.zipping = FALSE, !.zipToast = "no"]
  /\ tray' = Dismissed(tray, "zipping")
  /\ UNCHANGED <<picks, archive, dragging, seen, orphans, panelWorld, panelHistory>>

-----------------------------------------------------------------------------
(* Sending *)

\* The send effect: pendingFile or hasReadyConnection has changed.
SendDue == <<panel.pending, hasReadyConnection>> # <<seen.pending, seen.ready>>
SeenSend == [seen EXCEPT !.pending = panel.pending, !.ready = hasReadyConnection]
Idle == panel.pending = NoFile \/ ~hasReadyConnection \/ panel.sendInProgress
SendEffect ==
  /\ SendDue
  /\ seen' = SeenSend
  /\ IF Idle THEN UNCHANGED <<panel, tray, sending>>
     ELSE /\ panel' = [panel EXCEPT !.sendInProgress = TRUE, !.awaiting = FALSE,
                                    !.timer = FALSE, !.processing = TRUE,
                                    !.succeeded = FALSE, !.calling = TRUE]
          /\ tray' = Dismissed(tray, "waiting")
          /\ sending' = TRUE
  /\ UNCHANGED <<picks, archive, dragging, orphans, active, open, links, mounts, wins, told,
                 stale>>

CallSucceeds ==
  /\ panel.calling
  /\ panel' = [Reset(panel) EXCEPT !.succeeded = TRUE, !.calling = FALSE]
  /\ tray' = ResetToasts(tray)
  /\ wins' = wins + 1
  /\ UNCHANGED <<picks, archive, dragging, seen, orphans, panelWorld, told, stale>>

CallFailsForgetting ==   \* a slip: no waiting timer for the retry
  /\ panel.calling
  /\ LET tries == panel.retryCount + 1
         p == [panel EXCEPT !.calling = FALSE, !.succeeded = FALSE]
     IN  \/ /\ tries >= MaxSends
            /\ panel' = Reset(p)
            /\ tray' = ResetToasts(tray)
         \/ /\ tries < MaxSends
            /\ panel' = [p EXCEPT !.retryCount = tries, !.sendInProgress = FALSE,
                                  !.processing = FALSE, !.awaiting = TRUE]
            /\ tray' = Info(tray, "waiting")
  /\ UNCHANGED <<picks, archive, dragging, seen, orphans, panelWorld, panelHistory>>
CallFails ==
  /\ panel.calling
  /\ LET tries == panel.retryCount + 1
         p == [panel EXCEPT !.calling = FALSE, !.succeeded = FALSE]
     IN  \/ /\ tries >= MaxSends
            /\ panel' = Reset(p)
            /\ tray' = ResetToasts(tray)
         \/ /\ tries < MaxSends
            /\ panel' = [p EXCEPT !.retryCount = tries, !.sendInProgress = FALSE,
                                  !.processing = FALSE, !.awaiting = TRUE, !.timer = TRUE]
            /\ tray' = Info(tray, "waiting")
  /\ UNCHANGED <<picks, archive, dragging, seen, orphans, panelWorld, panelHistory>>

CallThrows ==
  /\ panel.calling
  /\ panel' = [Reset(panel) EXCEPT !.calling = FALSE]
  /\ tray' = ResetToasts(tray)
  /\ UNCHANGED <<picks, archive, dragging, seen, orphans, panelWorld, panelHistory>>

\* The 60 s have passed without a send.
WaitTimeout ==
  /\ panel.timer
  /\ panel' = Reset(panel)
  /\ tray' = ResetToasts(tray)
  /\ UNCHANGED <<picks, archive, dragging, seen, orphans, panelWorld, wins, told, stale>>

\* The transfer effect: isInTransfer or anySending has changed.  Its clean-up clears
\* its timer; the transfer is shown for 3 s if its start is still known.
TransferDue == <<panel.inTransfer, sending>> # <<seen.inTransfer, seen.sending>>
\* Each announcement is a toast with an id of its own.
Announced(t) == Message(t, IF told = 0 THEN "sent" ELSE "sent again")
CompleteTransfer(p) ==
  /\ panel' = [p EXCEPT !.inTransfer = FALSE, !.started = FALSE, !.succeeded = FALSE,
                        !.completing = FALSE]
  /\ IF p.succeeded THEN told' = told + 1 /\ tray' = Announced(tray)
     ELSE UNCHANGED <<told, tray>>
TransferEffect ==
  /\ TransferDue
  /\ seen' = [seen EXCEPT !.inTransfer = panel.inTransfer, !.sending = sending]
  /\ LET cleared == [panel EXCEPT !.completing = FALSE]
     IN  \/ /\ sending
            /\ panel' = IF panel.inTransfer THEN cleared
                        ELSE [cleared EXCEPT !.inTransfer = TRUE, !.started = TRUE]
            /\ UNCHANGED <<told, tray>>
         \/ /\ ~sending /\ ~panel.inTransfer
            /\ panel' = cleared
            /\ UNCHANGED <<told, tray>>
         \/ /\ ~sending /\ panel.inTransfer /\ panel.started
            /\ panel' = [cleared EXCEPT !.completing = TRUE]
            /\ UNCHANGED <<told, tray>>
         \/ /\ ~sending /\ panel.inTransfer
            /\ CompleteTransfer(cleared)
  /\ UNCHANGED <<picks, archive, dragging, orphans, panelWorld, wins, stale>>
CompletionTimer ==
  /\ panel.completing
  /\ CompleteTransfer(panel)
  /\ UNCHANGED <<picks, archive, dragging, seen, orphans, panelWorld, wins, stale>>

-----------------------------------------------------------------------------
(* Dragging, mounting and the world around *)

DragEnter ==
  /\ active /\ seen.active /\ ~dragging
  /\ dragging' = TRUE
  /\ UNCHANGED <<tray, panel, picks, archive, seen, orphans, panelWorld, panelHistory>>
\* dragleave out of the window, or a drop outside the zones or on a locked one.
DragEnds ==
  /\ dragging
  /\ dragging' = FALSE
  /\ UNCHANGED <<tray, panel, picks, archive, seen, orphans, panelWorld, panelHistory>>
DragEffect ==
  /\ seen.active # active
  /\ seen' = [seen EXCEPT !.active = active]
  /\ dragging' = (dragging /\ active)
  /\ UNCHANGED <<tray, panel, picks, archive, orphans, panelWorld, panelHistory>>

\* The panel's key changes with the room, or the panel goes while PeerJS is given up:
\* the clean-up dismisses its toasts and clears its timer.
RemountQuietly ==   \* a slip: the clean-up does not dismiss the toasts
  /\ mounts < MaxMounts
  /\ mounts' = mounts + 1
  /\ panel' = Mounted
  /\ tray' = tray
  /\ dragging' = (dragging /\ active)
  /\ seen' = [Rendered EXCEPT !.pending = NoFile, !.inTransfer = FALSE, !.sending = FALSE]
  /\ orphans' = orphans + (IF panel.zipToast = "shown" THEN 1 ELSE 0)
  /\ UNCHANGED <<picks, archive, active, open, sending, links, wins, told, stale>>
Remount ==
  /\ mounts < MaxMounts
  /\ mounts' = mounts + 1
  /\ panel' = Mounted
  /\ tray' = ResetToasts(tray)
  /\ dragging' = (dragging /\ active)
  /\ seen' = [Rendered EXCEPT !.pending = NoFile, !.inTransfer = FALSE, !.sending = FALSE]
  /\ orphans' = orphans + (IF panel.zipToast = "shown" THEN 1 ELSE 0)
  /\ UNCHANGED <<picks, archive, active, open, sending, links, wins, told, stale>>

\* A zip of a panel that is gone: isMountedRef stops what would follow, not the
\* dismissal before it.  A call of such a panel changes nothing here any more.
OrphanZipEnds ==
  /\ orphans > 0
  /\ orphans' = orphans - 1
  /\ tray' = Dismissed(tray, "zipping")
  /\ UNCHANGED <<panel, picks, archive, dragging, seen, panelWorld, panelHistory>>

\* The peer list.
Opens(p) ==
  /\ p \notin open
  /\ links < MaxLinks
  /\ links' = links + 1
  /\ open' = open \cup {p}
  /\ UNCHANGED <<tray, panel, picks, archive, dragging, seen, orphans, active, sending,
                 mounts, wins, told, stale>>
Closes(p) ==
  /\ p \in open
  /\ links < MaxLinks
  /\ links' = links + 1
  /\ open' = open \ {p}
  /\ stale' = (stale \/ (/\ open' = {} /\ panel.pending # NoFile
                         /\ ~panel.sendInProgress /\ ~panel.timer))
  /\ UNCHANGED <<tray, panel, picks, archive, dragging, seen, orphans, active, sending,
                 mounts, wins, told>>
SendingEnds ==
  /\ sending
  /\ sending' = FALSE
  /\ UNCHANGED <<tray, panel, picks, archive, dragging, seen, orphans, active, open, links,
                 mounts, panelHistory>>
\* isActive: a room is joined and somebody is listed.
Activates ==
  /\ links < MaxLinks
  /\ links' = links + 1
  /\ active' = ~active
  /\ UNCHANGED <<tray, panel, picks, archive, dragging, seen, orphans, open, sending, mounts,
                 panelHistory>>
PanelToasts ==
  /\ ToastStep
  /\ UNCHANGED <<panel, picks, archive, dragging, seen, orphans, panelWorld, panelHistory>>

PanelNext ==
  \/ \E names \in Selections : Pick(names) \/ Drop(names)
  \/ ZipToast \/ ZipDone \/ ZipFails
  \/ SendEffect \/ CallSucceeds \/ CallFails \/ CallThrows \/ WaitTimeout
  \/ TransferEffect \/ CompletionTimer
  \/ DragEnter \/ DragEnds \/ DragEffect
  \/ Remount \/ OrphanZipEnds
  \/ \E p \in Peer : Opens(p) \/ Closes(p)
  \/ SendingEnds \/ Activates
  \/ PanelToasts

\* The effects run, timers fire, and a call and a zip end.
PanelFairness ==
  /\ WF_panelVars(SendEffect)
  /\ WF_panelVars(TransferEffect)
  /\ WF_panelVars(CompletionTimer)
  /\ WF_panelVars(WaitTimeout)
  /\ WF_panelVars(CallSucceeds \/ CallFails \/ CallThrows)
  /\ WF_panelVars(ZipDone \/ ZipFails)

PanelSpec == PanelInit /\ [][PanelNext]_panelVars
PanelFairSpec == PanelSpec /\ PanelFairness

-----------------------------------------------------------------------------
(* Properties *)

Flag == BOOLEAN
Panel ==
  [pending : 0..MaxPicks, awaiting : Flag, processing : Flag, zipping : Flag,
   inTransfer : Flag, sendInProgress : Flag, retryCount : 0..MaxSends - 1,
   succeeded : Flag, started : Flag, timer : Flag,
   zipToast : {"no", "timer", "shown"}, zipReady : Flag, completing : Flag,
   calling : Flag]
\* The types of the panel's state.
PanelTypeOK ==
  /\ tray \in Tray
  /\ panel \in Panel
  /\ picks \in 0..MaxPicks
  /\ active \in Flag /\ dragging \in Flag /\ sending \in Flag
  /\ open \subseteq Peer
  /\ seen \in [pending : 0..MaxPicks, ready : Flag, inTransfer : Flag, sending : Flag,
               active : Flag]
  /\ orphans \in 0..MaxMounts
  /\ links \in 0..MaxLinks /\ mounts \in 0..MaxMounts
  /\ wins \in Nat /\ told \in Nat
  /\ stale \in Flag

\* A picked file is looked after: it is being sent, the send effect is due, or the
\* waiting timer runs; else the panel stays locked.  The only way out of this is a
\* selection that relied on a connection that is gone (handleFileSelection:191).
PendingAttended ==
  panel.pending # NoFile =>
    panel.sendInProgress \/ SendDue \/ panel.timer \/ stale

\* The waiting timer, which resets the panel, never runs beside a call, and it runs
\* for a file only.
TimerOnlyWaits == panel.timer => ~panel.calling /\ panel.pending # NoFile

\* While the panel waits for a connection its toast stands, unless it was added during
\* an exit animation or the user closed it; and it does not outlive the waiting.
WaitingToast ==
  /\ panel.awaiting =>
       Stands("waiting") \/ "waiting" \in tray.doomed \/ tray.clicks > 0
  /\ Stands("waiting") => panel.awaiting

\* "File transfer completed successfully" is announced for successful calls only,
\* never twice for one.
AnnouncedOnce == told <= wins

\* Every selected file is in the archive, under a name of its own.
ArchiveComplete ==
  /\ Cardinality(ToSet(archive)) = Len(archive)
  /\ panel.zipping => Len(archive) > 1

\* The drop overlay, which covers the page, does not stay when the panel is inactive.
OverlayLeaves == dragging /\ ~active => seen.active

\* The panel never gets stuck: its state is what the code can make of it, the picked
\* file is looked after, the timer that resets it takes nothing away from a call, and
\* the overlay lets the user at it.
PanelNeverStuck == PanelTypeOK /\ PendingAttended /\ TimerOnlyWaits /\ OverlayLeaves

\* Its toasts say what is the case: nothing stands that should have gone, and what
\* should stand does unless an exit animation or the user takes it; "waiting" stands
\* while it waits; and a success is announced once for each successful call.
ToastsTell == WantedStand /\ StandingWanted /\ WaitingToast /\ AnnouncedOnce

\* The panel unlocks: a file is sent or given up, if no "sending" stays for ever and no
\* selection relied on a connection that was gone.
LockEnds ==
  <>[](~sending) => (isTransferLocked ~> (~isTransferLocked \/ stale))
=============================================================================
