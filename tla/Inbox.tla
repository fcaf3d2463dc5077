-------------------------------- MODULE Inbox ---------------------------------
(***************************************************************************)
(* What a browser receives and shows: the receiving half of                *)
(* front/src/services/peerService.ts with its progress toasts, the chat    *)
(* (front/src/stores/useChatStore.ts, front/src/components/Forms/Chat),    *)
(* the received files of FileTransfer.tsx, and the joins of                *)
(* SocketProvider.tsx that empty them, behind the loading gate.            *)
(*                                                                         *)
(* One remote peer sends.  Its chunks are left out: FileTransfer has them. *)
(* A received file is handed to the callback the send panel has set, which *)
(* turns it into an object URL, a toast and a chat entry.  The panel       *)
(* exists once the gate is open, and is another one under every room code. *)
(*                                                                         *)
(* React flushes the effects of a render together, some time after the     *)
(* state has changed: PlaceEffects is that flush.                           *)
(*                                                                         *)
(* A definition marked "a slip" is the next one with a mistake in it.  No  *)
(* other definition uses it: put in its place, it shows what a property    *)
(* catches.                                                                *)
(***************************************************************************)
EXTENDS LoadingGate, Sequences, FiniteSets

CONSTANTS
  Place,       \* room codes
  MaxItems,    \* bound: files the remote peer starts to send, and messages
  MaxMoves     \* bound: codes the user chooses, and lost sockets

ASSUME InboxAssumption ==
  /\ MaxItems \in Nat /\ MaxMoves \in Nat
  /\ Place # {} /\ 0 \notin Place

VARIABLES
  code,    \* the store's code, under which the panel is mounted
  seenCode,    \* what the effects have last run for: the code and whether peer.id was there
  lastCode,    \* lastJoinPayloadRef's code, or 0
  joinTimer,   \* the 50 ms before join-room run
  asked,       \* rooms whose join-success may still come
  announced,   \* announcedRoomRef, or 0
  moves,
  present,     \* the remote peer is a target peer
  stray,       \* it is not, and a connection of it is open all the same (PeerLinks)
  begun,       \* files started so far; a file is its number
  receivingFile,  \* of the remote peer, or 0
  bar,         \* bar[f]: the progress toast of file f
  blob,        \* blob[f]: the object URL of file f
  messages, unreadCount, isChatOpen, texts,
  acked, handed,  \* files acknowledged to the sender, given to the panel (history)
  early,       \* files complete before there was a panel (history)
  adrift,      \* files whose place another file-start has taken (history)
  keptChat     \* the panel has changed and the join effect found nothing to do (history)

place == <<code, seenCode, lastCode, joinTimer, asked, announced, moves>>
link == <<present, stray>>
received == <<begun, receivingFile, bar>>
chat == <<messages, unreadCount, isChatOpen>>
files == <<acked, handed, early>>
inboxVars == <<gateVars, place, link, received, blob, chat, texts, files, adrift,
               keptChat>>

File == 1..MaxItems
\* unseen is no field of a message: the chat was closed when it came, and since.
Entry == [from : {"me", "them", "system"}, file : 0..MaxItems, unseen : BOOLEAN]

InboxInit ==
  /\ GateInit
  /\ code \in Place
  /\ seenCode = [code |-> code, peer |-> FALSE]
  /\ lastCode = 0 /\ joinTimer = FALSE
  /\ asked = {} /\ announced = 0
  /\ moves = 0
  /\ present = FALSE /\ stray = FALSE
  /\ begun = 0 /\ receivingFile = 0
  /\ bar = [f \in File |-> "none"]
  /\ blob = [f \in File |-> "none"]
  /\ messages = <<>> /\ unreadCount = 0 /\ isChatOpen = FALSE
  /\ texts = 0
  /\ acked = {} /\ handed = {} /\ early = {}
  /\ adrift = {}
  /\ keptChat = FALSE

-----------------------------------------------------------------------------
(* The chat *)

\* The panel sets its callback when it is mounted, with the page.
panelUp == overlay.mounted

\* addMessage.
addMessage(from, file) ==
  LET isUnread == from = "them" /\ ~isChatOpen
  IN  /\ messages' = Append(messages, [from |-> from, file |-> file, unseen |-> isUnread])
      /\ unreadCount' = unreadCount + (IF isUnread THEN 1 ELSE 0)
      /\ UNCHANGED isChatOpen

\* The buttons of Chat.
setChatOpen(is) ==
  /\ panelUp
  /\ isChatOpen # is
  /\ isChatOpen' = is
  /\ unreadCount' = IF is THEN 0 ELSE unreadCount
  /\ messages' = [i \in DOMAIN messages |->
                    [messages[i] EXCEPT !.unseen = @ /\ ~is]]
  /\ UNCHANGED <<gateVars, place, link, received, blob, texts, files, adrift, keptChat>>

\* handleSendMessage: the message is shown as sent, to whomever it has gone.
SendMessage ==
  /\ panelUp /\ isChatOpen /\ present
  /\ begun + texts < MaxItems
  /\ texts' = texts + 1
  /\ addMessage("me", 0)
  /\ UNCHANGED <<gateVars, place, link, received, blob, files, adrift, keptChat>>

-----------------------------------------------------------------------------
(* handleIncomingData *)

\* addTargetPeer.  A listed peer may have a second connection; which one is left over
\* is told when the peer leaves the list (Delist).
Present == present' = TRUE /\ stray' = FALSE

\* Whatever comes in over a connection lists its sender first.
Reached ==
  /\ present \/ stray
  /\ Present

TakeMessage ==
  /\ Reached
  /\ begun + texts < MaxItems
  /\ texts' = texts + 1
  /\ addMessage("them", 0)
  /\ UNCHANGED <<gateVars, place, received, blob, files, adrift, keptChat>>

\* file-start: the toast is shown, and receivingFile is the new file's.
TakeFileStartUnlisted ==   \* a slip: updatePeer does not find the sender
  /\ present \/ stray
  /\ begun + texts < MaxItems
  /\ begun' = begun + 1
  /\ bar' = [bar EXCEPT ![begun'] = "shown"]
  /\ receivingFile' = IF present THEN begun' ELSE receivingFile
  /\ adrift' = adrift \cup ({receivingFile} \ {0})
  /\ UNCHANGED <<gateVars, place, link, blob, chat, texts, files, keptChat>>
TakeFileStart ==
  /\ Reached
  /\ begun + texts < MaxItems
  /\ begun' = begun + 1
  /\ bar' = [bar EXCEPT ![begun'] = "shown"]
  /\ receivingFile' = begun'
  /\ adrift' = adrift \cup ({receivingFile} \ {0})
  /\ UNCHANGED <<gateVars, place, blob, chat, texts, files, keptChat>>

\* The callback of the panel, if there is one.
OnFileReceived(f) ==
  IF panelUp
  THEN /\ blob' = [blob EXCEPT ![f] = "live"]
       /\ handed' = handed \cup {f}
       /\ addMessage("them", f)
       /\ UNCHANGED early
  ELSE /\ early' = early \cup {f}
       /\ UNCHANGED <<blob, handed, chat>>

\* dismissToast closes a toast when it has been seen long enough; updateToastFailed
\* lets it stay 5 s as failed.
Ended(how) == IF receivingFile = 0 THEN bar ELSE [bar EXCEPT ![receivingFile] = how]
Closing == Ended("closing")
Failing == Ended("failed")

TakeFileEndAckFirst ==   \* a slip: the acknowledgement is sent before the check
  /\ receivingFile # 0
  /\ acked' = acked \cup {receivingFile}
  /\ \/ OnFileReceived(receivingFile)
     \/ UNCHANGED <<blob, handed, early, chat>>
  /\ bar' = Closing
  /\ receivingFile' = 0
  /\ UNCHANGED <<gateVars, place, link, begun, texts, adrift, keptChat>>
\* file-end, with every chunk or with one missing.
TakeFileEnd ==
  /\ receivingFile # 0
  /\ \/ /\ OnFileReceived(receivingFile)
        /\ acked' = acked \cup {receivingFile}
     \/ UNCHANGED <<blob, files, chat>>
  /\ bar' = Closing
  /\ receivingFile' = 0
  /\ UNCHANGED <<gateVars, place, link, begun, texts, adrift, keptChat>>

\* The message of older versions, a whole file at once: no toast, no receivingFile.
TakeLegacyFile ==
  /\ Reached
  /\ begun + texts < MaxItems
  /\ begun' = begun + 1
  /\ OnFileReceived(begun')
  /\ acked' = acked \cup {begun'}
  /\ UNCHANGED <<gateVars, place, receivingFile, bar, texts, adrift, keptChat>>

\* The inactivity timer; a lost socket, when the connections are detached.
ReceiveTimeout ==
  /\ receivingFile # 0
  /\ bar' = Failing
  /\ receivingFile' = 0
  /\ UNCHANGED <<gateVars, place, link, begun, blob, chat, texts, files, adrift,
                 keptChat>>
BarGoes(f) ==
  /\ bar[f] \in {"closing", "failed"}
  /\ bar' = [bar EXCEPT ![f] = "gone"]
  /\ UNCHANGED <<gateVars, place, link, begun, receivingFile, blob, chat, texts, files,
                 adrift, keptChat>>

\* The remote peer is listed, also by an acknowledgement that comes in, or leaves: its
\* transfers are cancelled, and a second connection may be left over.
PeerListed ==
  /\ ~present /\ (peerId \/ stray)
  /\ Present
  /\ UNCHANGED <<gateVars, place, received, blob, chat, texts, files, adrift, keptChat>>
Delist ==
  /\ present' = FALSE
  /\ stray' \in IF present THEN BOOLEAN ELSE {stray}
  /\ bar' = Failing
  /\ receivingFile' = 0
PeerGone ==
  /\ present
  /\ Delist
  /\ UNCHANGED <<gateVars, place, begun, blob, chat, texts, files, adrift, keptChat>>

-----------------------------------------------------------------------------
(* The room and the panel *)

ChooseRoom(r) ==
  /\ panelUp
  /\ r # code
  /\ moves < MaxMoves
  /\ moves' = moves + 1
  /\ code' = r
  /\ UNCHANGED <<gateVars, seenCode, lastCode, joinTimer, asked, announced, link,
                 received, blob, chat, texts, files, adrift, keptChat>>

\* The clean-up of the panel revokes the URLs it has made.
Revoked == [f \in File |-> IF blob[f] = "live" THEN "revoked" ELSE blob[f]]

\* The join effect empties the list and the chat when the code is another one.
EmptyRoomTalking ==   \* a slip: the chat keeps its messages
  /\ Delist
  /\ announced' = 0
  /\ isJoining' = TRUE
  /\ joinTimer' = TRUE
  /\ UNCHANGED <<chat, begun>>
EmptyRoom ==
  /\ Delist
  /\ messages' = <<>>
  /\ unreadCount' = 0
  /\ announced' = 0
  /\ isJoining' = TRUE
  /\ joinTimer' = TRUE
  /\ UNCHANGED <<isChatOpen, begun>>
PlaceEffects ==
  /\ seenCode # [code |-> code, peer |-> peerId]
  /\ seenCode' = [code |-> code, peer |-> peerId]
  /\ blob' = IF seenCode.code # code THEN Revoked ELSE blob
  /\ \/ /\ peerId /\ lastCode # code
        /\ EmptyRoom
        /\ UNCHANGED keptChat
     \/ /\ ~(peerId /\ lastCode # code)
        /\ joinTimer' = FALSE
        /\ keptChat' = (keptChat \/ (seenCode.code # code /\ lastCode = code))
        /\ UNCHANGED <<isJoining, announced, link, received, chat>>
  /\ UNCHANGED <<peerId, gate, overlay, turns, code, lastCode, asked, moves, texts,
                 files, adrift>>

JoinTimer ==
  /\ joinTimer
  /\ joinTimer' = FALSE
  /\ lastCode' = seenCode.code
  /\ asked' = asked \cup {seenCode.code}
  /\ UNCHANGED <<gateVars, code, seenCode, announced, moves, link, received, blob,
                 chat, texts, files, adrift, keptChat>>

\* onJoinSuccess: the answer's code becomes the page's.
JoinSuccess(r) ==
  /\ r \in asked
  /\ asked' = asked \ {r}
  /\ isJoining' = FALSE
  /\ code' = r
  /\ announced' = r
  /\ IF announced # r THEN addMessage("system", 0) ELSE UNCHANGED chat
  /\ \/ /\ Present
        /\ UNCHANGED <<receivingFile, bar>>
     \/ Delist
  /\ UNCHANGED <<peerId, gate, overlay, turns, seenCode, lastCode, joinTimer, moves,
                 begun, blob, texts, files, adrift, keptChat>>

\* The socket is lost and comes back: connections are detached, the join is replayed.
Reconnects ==
  /\ moves < MaxMoves
  /\ moves' = moves + 1
  /\ bar' = Failing
  /\ receivingFile' = 0
  /\ asked' = {lastCode} \ {0}
  /\ isJoining' = (isJoining \/ lastCode # 0)
  /\ UNCHANGED <<peerId, gate, overlay, turns, code, seenCode, lastCode, joinTimer, announced,
                 link, begun, blob, chat, texts, files, adrift, keptChat>>

OutsideGate == UNCHANGED <<place, link, received, blob, chat, texts, files, adrift,
                           keptChat>>
InboxNext ==
  \/ (PeerIdChanges \/ GateEffects) /\ OutsideGate
  \/ \E is \in BOOLEAN : setChatOpen(is)
  \/ SendMessage \/ TakeMessage
  \/ TakeFileStart \/ TakeFileEnd \/ TakeLegacyFile \/ ReceiveTimeout
  \/ \E f \in File : BarGoes(f)
  \/ PeerListed \/ PeerGone
  \/ PlaceEffects \/ JoinTimer \/ Reconnects
  \/ \E r \in Place : ChooseRoom(r) \/ JoinSuccess(r)

InboxSpec == InboxInit /\ [][InboxNext]_inboxVars

\* React runs effects and timers fire; the remote peer and the server owe nothing.
InboxFairness ==
  /\ WF_inboxVars(GateEffect /\ OutsideGate)
  /\ WF_inboxVars(ReadyTimer /\ OutsideGate)
  /\ WF_inboxVars(PageMounts /\ OutsideGate)
  /\ WF_inboxVars(OverlayEffect /\ OutsideGate)
  /\ WF_inboxVars(ReleaseTimer /\ OutsideGate)
  /\ WF_inboxVars(ReceiveTimeout)
  /\ \A f \in File : WF_inboxVars(BarGoes(f))
InboxFairSpec == InboxSpec /\ InboxFairness

-----------------------------------------------------------------------------
(* Properties *)

\* The types of the state.
InboxTypeOK ==
  /\ code \in Place /\ lastCode \in Place \cup {0} /\ announced \in Place \cup {0}
  /\ seenCode \in [code : Place, peer : BOOLEAN]
  /\ asked \subseteq Place
  /\ joinTimer \in BOOLEAN /\ present \in BOOLEAN /\ stray \in BOOLEAN
  /\ begun \in 0..MaxItems /\ receivingFile \in 0..begun
  /\ bar \in [File -> {"none", "shown", "closing", "failed", "gone"}]
  /\ blob \in [File -> {"none", "live", "revoked"}]
  /\ messages \in Seq(Entry)
  /\ unreadCount \in Nat /\ isChatOpen \in BOOLEAN
  /\ acked \subseteq File /\ handed \subseteq File /\ early \subseteq File
  /\ adrift \subseteq File /\ keptChat \in BOOLEAN

\* An acknowledged file has been given to the panel, unless there was no panel yet: the
\* sender announces "File transfer completed successfully" for such a one as well.
AckedKept == acked \subseteq handed \cup early

\* A progress toast that stands is the one of the file being received, unless another
\* file-start came meanwhile and took its place (peerService.ts:345).
BarsExplained ==
  \A f \in File : bar[f] = "shown" => f = receivingFile \/ f \in adrift

\* A file in the chat can be downloaded: the chat is emptied when the panel that has
\* made its URL goes.  It is not when the code returns to the one that was joined last,
\* and not before PeerJS has an id again.
AttachmentsLive ==
  \A i \in DOMAIN messages :
    messages[i].file # 0 =>
      \/ blob[messages[i].file] = "live"
      \/ keptChat
      \/ ~seenCode.peer /\ lastCode # seenCode.code

\* The unread badge counts what came in since the chat was last open.
UnreadExact ==
  unreadCount = Cardinality({i \in DOMAIN messages : messages[i].unseen})

\* Both sides are told what is the case: the sender that a file was taken, the receiver
\* which file is coming in.
BothTold == InboxTypeOK /\ AckedKept /\ BarsExplained

\* The chat has what it shows: its files can be downloaded, and its badge counts.
ChatSound == AttachmentsLive /\ UnreadExact

\* Every progress toast goes in the end, unless another file-start took its file's place.
BarsEnd == \A f \in File : bar[f] = "shown" ~> (bar[f] = "gone" \/ f \in adrift)

\* The page is uncovered when PeerJS keeps an id and no join is under way.
PageShows == <>[](peerId /\ ~isJoining) => <>[](gate.isReady /\ ~overlay.held)
=============================================================================
