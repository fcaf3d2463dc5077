------------------------------ MODULE UploadBar -------------------------------
(***************************************************************************)
(* The progress toast of a file that is sent: sendFileToTargets and its    *)
(* transfers in front/src/services/peerService.ts, as far as the toast     *)
(* sees them, with front/src/library/toastService.tsx and updateToast of   *)
(* front/src/contexts/ToastContext.tsx.                                    *)
(*                                                                         *)
(* One toast tells of all targets.  Each call has a toast and a map of its *)
(* own, so one call is enough.  A percentage is counted in chunks.         *)
(*                                                                         *)
(* A definition marked "a slip" is the next one with a mistake in it.  No  *)
(* other definition uses it: put in its place, it shows what a property    *)
(* catches.                                                                *)
(***************************************************************************)
EXTENDS Naturals, FiniteSetsExt, Functions

CONSTANTS
  Target,      \* the other peers
  TotalChunks  \* of the file

ASSUME UploadAssumption == TotalChunks \in Nat \ {0} /\ IsFiniteSet(Target)

VARIABLES
  stage,         \* stage[t]: how far sendFileToPeer is for t
  chunks,        \* chunks[t]: the chunks t has been sent
  transfers,     \* activeSendTransfers: the targets whose transfer is not cancelled
  peerProgress,  \* peerProgress[t]: the last report of t, for those that reported
  toast          \* the toast and the progress it shows

uploadVars == <<stage, chunks, transfers, peerProgress, toast>>

UploadInit ==
  /\ stage = [t \in Target |-> "none"]
  /\ chunks = [t \in Target |-> 0]
  /\ transfers = {}
  /\ peerProgress = [t \in {} |-> 0]
  /\ toast = [state |-> "none", progress |-> 0]

sendingFile == [state |-> "shown", progress |-> 0]
\* A toast that is not there any more is not updated.
updateToast(t) == toast' = IF toast.state = "shown" THEN t ELSE toast

\* The call of sendFileToTargets, for the targets with an open connection.
Begin(to) ==
  /\ toast.state = "none" /\ to # {}
  /\ toast' = sendingFile
  /\ stage' = [t \in Target |-> IF t \in to THEN "start" ELSE "none"]
  /\ transfers' = to
  /\ UNCHANGED <<chunks, peerProgress>>

Stage(t, new) == stage' = [stage EXCEPT ![t] = new]
StartAcked(t) ==
  /\ stage[t] = "start"
  /\ Stage(t, "chunk")
  /\ UNCHANGED <<chunks, transfers, peerProgress, toast>>
\* No start-ack, the connection is found closed, or the file cannot be read.
Breaks(t) ==
  /\ stage[t] \in {"start", "chunk"}
  /\ Stage(t, "failed")
  /\ transfers' = transfers \ {t}
  /\ UNCHANGED <<chunks, peerProgress, toast>>
\* A transfer that waits for its start-ack ends at once; one that sends goes on until
\* it looks again.
Cancels(t) ==
  /\ t \in transfers
  /\ transfers' = transfers \ {t}
  /\ Stage(t, IF stage[t] = "start" THEN "failed" ELSE stage[t])
  /\ UNCHANGED <<chunks, peerProgress, toast>>

\* reportProgress: the toast shows the smallest of the reports so far.
ReportedLast(t, n) ==   \* a slip: the toast shows the report itself
  /\ peerProgress' = [s \in DOMAIN peerProgress \cup {t} |->
                        IF s = t THEN n ELSE peerProgress[s]]
  /\ updateToast([toast EXCEPT !.progress = n])
Reported(t, n) ==
  /\ peerProgress' = [s \in DOMAIN peerProgress \cup {t} |->
                        IF s = t THEN n ELSE peerProgress[s]]
  /\ updateToast([toast EXCEPT !.progress = Min(Range(peerProgress'))])

\* A chunk has been read and is sent, and the loop goes round.
SendsChunk(t) ==
  /\ stage[t] = "chunk"
  /\ chunks' = [chunks EXCEPT ![t] = @ + 1]
  /\ IF t \in transfers THEN Reported(t, chunks'[t]) ELSE UNCHANGED <<peerProgress, toast>>
  /\ \/ /\ chunks'[t] = TotalChunks
        /\ Stage(t, "sent")
        /\ transfers' = transfers \ {t}
     \/ /\ chunks'[t] < TotalChunks
        /\ Stage(t, IF t \in transfers THEN "chunk" ELSE "failed")
        /\ UNCHANGED transfers

\* Every transfer has ended: the toast is dismissed, now or when it has been seen long
\* enough, if one succeeded; else it says so for 5 s.
CallReturns ==
  /\ toast.state = "shown"
  /\ \A t \in Target : stage[t] \in {"none", "sent", "failed"}
  /\ toast' = IF \E t \in Target : stage[t] = "sent" THEN [toast EXCEPT !.state = "closing"]
              ELSE [state |-> "failed", progress |-> 0]
  /\ UNCHANGED <<stage, chunks, transfers, peerProgress>>
ToastGoes ==
  /\ toast.state \in {"closing", "failed"}
  /\ toast' = [toast EXCEPT !.state = "gone"]
  /\ UNCHANGED <<stage, chunks, transfers, peerProgress>>
\* The close button: the transfers go on without the toast.
Closed ==
  /\ toast.state = "shown"
  /\ toast' = [toast EXCEPT !.state = "gone"]
  /\ UNCHANGED <<stage, chunks, transfers, peerProgress>>

UploadNext ==
  \/ \E to \in SUBSET Target : Begin(to)
  \/ \E t \in Target : StartAcked(t) \/ Breaks(t) \/ Cancels(t) \/ SendsChunk(t)
  \/ CallReturns \/ ToastGoes \/ Closed

UploadSpec == UploadInit /\ [][UploadNext]_uploadVars

-----------------------------------------------------------------------------
\* It goes back only when a target reports for the first time, or everything failed.
GoesBackForNew ==
  [][toast'.progress < toast.progress =>
       toast'.state = "failed" \/ DOMAIN peerProgress' # DOMAIN peerProgress]_uploadVars
=============================================================================
