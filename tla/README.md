# Verification of drop-to.me

DropToMe lets browsers exchange files and chat messages directly. A NestJS
server only introduces them to each other: a Socket.IO gateway keeps, in Redis,
who is in which room, and a PeerJS server relays the WebRTC handshake. This
directory holds TLA+ specifications of the program, the TLC configurations that
check them on small instances, and proofs that TLAPS checks for every instance.

## 1. Inventory

| Part | State | Operations | Module |
|---|---|---|---|
| **Room registry** `back/src/signal/signal.gateway.ts`, `back/src/redis/redis.service.ts` | a Redis hash per room (socket id -> peer id, TTL 1 h), the Socket.IO adapter's rooms, `socket.data.roomId` | join-room, leave-room, disconnect, cleanDeadPeers | RoomRegistry |
| **Signalling client** `front/src/contexts/SocketProvider.tsx`, `stores/useRoomStore.ts`, `listeners/*` | room code, the last join payload, joined/joining flags | ask for a room (leave-room, 50 ms, join-room), replay the join on connect, take the three events | RoomSession |
| **Room code** `components/Room/*` | the URL, the room store, the dialog | URL to store, store to URL, enter a code, leave | RoomSession, Labels |
| **Peer list** `front/src/stores/usePeersStore.ts` | one entry per peer: connection, isSending, isReceiving, receivingFile | add, remove, clear, detach, update | FileTransfer, PeerLinks |
| **PeerJS client** `front/src/contexts/PeerProvider.tsx` | the Peer, the reconnect counter and timer, connections | connect to listed peers, connection listeners, reconnect, give up | PeerLinks, PeerReconnect |
| **File and message transfer** `front/src/services/peerService.ts` | activeSendTransfers, pendingStartAcks, pendingAcks; receivingFile in the list; progress toasts | sendFileToTargets, sendMessageToTargets, handleIncomingData, cancellations, two clean-up intervals | FileTransfer, Delivery, UploadBar, Inbox |
| **Send panel** `front/src/components/Forms/FileTransfer/*` | pending file, sendInProgressRef, retry counter, waiting timer, archive, drop overlay | select, zip, send, retry, give up, unmount | SendPanel |
| **Chat** `stores/useChatStore.ts`, `components/Forms/Chat/*` | messages, unread counter, open or not | add, open, read, empty | Inbox |
| **Toasts** `contexts/ToastContext.tsx`, `library/toastService.tsx` | toasts, their exit and auto-close timers | add, update, remove | Toasts |
| **Loading gate** `contexts/ConnectionProvider.tsx`, `hooks/useMinimumDuration.ts` | two timers and an overlay | ready, timed out, covered | LoadingGate |
| **Statistics** `back/src/stats/*`, `front/src/stores/useStatsStore.ts`, `services/statService.ts`, `components/Statistic/*` | tables; the displayed totals | save a row, count, broadcast, fetch | StatsFeed |
| **Address** `back/src/app.controller.ts`, `utils/ip.utils.ts`, `services/roomService.ts`, `stores/useUserStore.ts` | the address the page shows | look up, take it from join-success | Address, Labels |
| **Spotlight** `components/ui/MagicBento.tsx` | a light over the cards, its tweens | effect, clean-up, move, out | Spotlight |
| **Conversions** `utils/file.utils.ts`, `services/statService.ts`, `room.utils.ts`, `ip.utils.ts` | none | codes, addresses, names, sizes | Labels |
| PeerJS server, database wiring, other presentation | none another part reads | | not modelled |

How the parts interact. The gateway answers a join with the ids of the room and
announces arrivals and departures; the signalling client turns these into list
entries; the connect effect of the PeerJS client opens a connection for each
entry without one; transfers run over the connections in the list and write their
progress back into it; the panel watches the list (a ready connection, anything
sending) and calls the transfers; toasts and chat show what happens.

What is hard in this program, and what would be correct:

- *Registry.* Node runs one callback at a time, but every handler awaits Redis
  between its steps, so handlers of different sockets, and the join, leave and
  disconnect handlers of one socket, interleave. Two browsers in a room must
  find each other, nobody must stay listed after leaving, and the disconnect of
  an old socket must not remove a peer that has come back under a new one.
  Faults: a rejected command, an expired hash, a restarted server.
- *Transfers.* A transfer is a coroutine that waits for an acknowledgement, for
  the channel to drain and for the file; meanwhile its peer is removed, its
  connection is closed or replaced, its room is left. No complete file may lack
  a chunk, none may arrive twice because of a retry, the panel must not be
  locked by a transfer that never ends, and what is shown as "sending" must be
  going on.
- *Signalling client.* Answers of a room that has been left, reconnects inside
  the pause between leave and join, and the two writers of the room code.
- *PeerJS client.* Both sides connect to each other, connections open late and
  out of order, closes of replaced connections arrive late, the reconnect counter
  is driven by two events.
- *Panel, inbox, chat, toasts.* Closures that remember a past render, timers that
  outlive what they were set for, components that are mounted anew while their
  callbacks still run, an id that is reused during an exit animation.
- *Statistics.* A row is saved and counted in several queries that the database
  answers in any order.

`PROJECT.json` lists each hazard at its line with the properties that cover it.

## 2. Modules

    RoomRegistry            the gateway and Redis
      MCRoomRegistry        instances for TLC
      RoomRegistryProofs    every step keeps the types and the handlers' shape
        RoomRegistryTheorems  stages, discovery, the entries of departed sockets
          RoomRegistryViews the queue of commands, complete, sound and exact lists
    Delivery                what sending a file promises (abstract)
    FileTransfer            sending files and messages; implements Delivery
      MCFileTransfer        instances for TLC
      FileTransferProofs    bookkeeping, files handed over once
        FileTransferTheorems  the refinement of Delivery, whole files
    RoomSession             one browser's way into a room
      MCRoomSession         instances for TLC
      RoomSessionProofs     page, URL and server at rest
    Toasts                  the tray of notifications, as operators
      SendPanel             choosing, zipping, sending, retrying
      PeerReconnect         keeping the place at the PeerJS server
    LoadingGate             what covers the page
      Inbox                 receiving, chat and attachments
    PeerLinks               who connects to whom
    StatsFeed               the counters, server and page
    Address                 the address the page shows
    UploadBar               the sender's progress toast
    Spotlight               the light over the cards
    Labels                  conversions, over bounded inputs
    PeerProofs              theorems of PeerLinks and PeerReconnect
    PageProofs              theorems of SendPanel, Inbox, StatsFeed, Spotlight, Address,
                            UploadBar, Labels
    MCBrowser               all parts of a page side by side
      MCBrowserLive         the same with the session, under fairness

A definition marked "a slip" is the following one with a plausible mistake. No
other definition uses it. Put in place of the real one, it makes the property
named in `PROJECT.json` fail, which shows that the property depends on the code.

Variables marked "history" are read by no guard. Most of them name what went
wrong so far, so that a property can say that *nothing else* goes wrong.

### 2.1 RoomRegistry

One step is one Redis command and everything the handler does until the next
command. `pc[h]` is the command handler `h` waits for; a handler is a socket, one of
`join`, `leave`, `disconnect`, and a lane: a message that arrives while one of its kind
is still being handled for the socket starts another handler beside it, in the first
free lane (`MaxLanes` of them). `loc[h]` holds its local variables. The
removals that `cleanDeadPeers` starts together run side by side in `rm[h][d]`.

| Module | Code |
|---|---|
| `JoinRoom`, `HExists`, `HSet`, `Expire`, `HGetAll`, `Announce` | handleJoinRoom with addPeer, getClients, cleanDeadPeers |
| `LeaveRoom`, `HGet`, `HDel`, `HLen`, `Del`, `AfterRemovals`, `Check` | handleLeaveRoom with getClient, removeClient, isPeerStillInRoom |
| `Disconnect` and the same steps | handleDisconnect |
| `Fail` | a rejected command, executed or not, and the catch block |
| `RoomExpires`, `Restart` | the TTL; a server that dies and comes back |
| `redis`, `adapter`, `dataRoom` | the hashes, Socket.IO's rooms, socket.data.roomId |
| `view[s]`, `want`, `joined`, `self` | what the browser behind `s` lists and asked for |

Abstractions, by name:

- **Pipelined.** ioredis sends all commands over one connection and Redis answers
  in order. With `Pipelined = TRUE` `pipe` is that queue. With `FALSE` commands
  run in any order: more behaviours than the code has, used to see which
  properties need the order. `CompleteViews` and `SoundViews` do need it: TLC
  finds both violated without it, and they are proved with it. `MutualDiscovery` and `StaysListed` do not,
  and are proved for both.
- **Serial.** The browser pauses 50 ms between leave-room and join-room.
  `Serial = TRUE` takes this pause to be longer than a handler, so that of a join-room
  and a leave-room the first is done when the second comes; with `FALSE` they overlap. It says nothing of
  two join-rooms, or of two leave-rooms: the gateway takes them whenever they come.
- **view.** A socket delivers events in the order they were emitted, and what a
  browser does with its list has no effect on the registry, so the list is
  updated when the event is emitted.
- **IpRoom.** The room named by a hashed address is a constant of the socket.
- A socket is used once; a reconnect is another socket with the same peer id.
- `RoomExpires` does not hit a room a join has just renewed.
- Payload validation and logging are left out; the statistics calls are in StatsFeed.

**excused.** Some events spoil a socket's registration for good. The history
variable `excused` collects the sockets they hit, no guard reads it, and each
property about registrations speaks about the others. They are exactly: a DEL
that destroys live entries, an expired hash, a rejected command, a socket closed
while its own join has not stored the entry yet (in the unordered mode: is
running), a join-room while the socket has a room it has not left, a join and a leave
of one socket that overlap (`Serial = FALSE`), and two leaves that do. So the
properties say: *nothing else* goes wrong, and what goes wrong stays with the sockets
it hit. The two violation runs show that two of these events really happen and what
they do. An overlap of leave and join needs a leave-room that takes longer than the
50 ms: its last assignment then clears the room the join has recorded.

The join without a leave does not need a slow server. The client emits leave-room while
it is disconnected, so that it goes out first on the next connection; the connect
handler then replays the join of the old room (SocketProvider.tsx:104), and the pending
timer asks for the new one (239). `handleJoinRoom` does not ask whether the socket is in
a room already: it is then in two rooms of the adapter and in two hashes, possibly with
both handlers running at once, while `data.roomId` names one. Its disconnect clears that
one only. The members of the other room keep listing its peer, and the entry stays
until the next join there finds it dead.

### 2.2 FileTransfer

One browser sends, each target receives. A step is one callback: a browser runs
its callbacks one at a time, and a resolved promise continues before the next
callback starts. A transfer `<<t, k>>` is the sendFileToPeer of the k-th call of
sendFileToTargets for target `t`. One panel makes one call at a time
(`sendInProgressRef`). But the panel is mounted anew under every room code
(page.tsx:46): `Remount` puts a panel without a file in the place of the one that sends,
`before` counts the calls made until then, and they go on beside the calls of the new
panel unless something cancels them, which nothing does while PeerJS has no id
(SocketProvider.tsx:213). `robbed` (history) holds the transfers whose key in
activeSendTransfers another transfer's end has taken away: the key is the peer's.

| Module | Code |
|---|---|
| `Offered`, `Start` | the panel's send effect; sendFileToTargets up to the first wait |
| `Remount` | the panel of another room code |
| `StartTimeout` | START_ACK_TIMEOUT_MS, the retry loop, giving up (`pc = "stranded"`) |
| `Proceed`, `Chunk`, `ReadError` | the chunk loop with shouldStopTransfer, file-end, the catch block |
| `RecvS`, `Settle`, `AckTimeout` | file-start-ack and ack; the clean-up of pendingAcks |
| `SendMessage` | sendMessageToTargets with message ids that may coincide |
| `Cancel`, `OrAll`, `EndActive` | cancelTransfersForPeer, cancelAllSendTransfers, the delete at the end of a transfer |
| `OpenS`, `CloseS`, `OpenR`, `CloseR` | the listeners of a connection at both ends |
| `AddS`, `RemoveS`, `JoinSuccessS`, `LeaveS`, `DetachS`, `DetachR` | what the signalling client does to the list |
| `RecvR`, `TakeStart`, `TakeChunk`, `TakeEnd`, `TakeUnknown`, `ReceiveTimeout` | handleIncomingData and the inactivity timeout |

A connection is a pair of FIFO channels whose ends open and close on their own
(WebRTC and PeerJS are external). An end that closes loses what it has not
received; a replaced connection stays open beside the new one, as in the code.
Chunks are numbers, so "the whole file" is "all indices". Timers fire at any
time. Left out: the target's own sending (the same code in the other direction). Progress
and toasts are in UploadBar (sender) and Inbox (receiver), with the older format that
sends a file in one message.

`Delivery` is what the transfers promise, without connections, messages or
acknowledgements: files are offered one after another, the last one again while
nobody has got it and at most `MaxTries` times, each offer ends, possibly after the
next file was offered, and a target is
handed a file at most once, after an offer to it has succeeded. `FileTransfer` implements it:
`Promise == INSTANCE Delivery WITH ...` computes the outcome of a file from its
last call and adds up the copies over all calls, and `ImplementsDelivery ==
Promise!Spec` is checked.

### 2.3 RoomSession

One browser. The user, the React effects, the socket, the 50 ms timer and PeerJS
take turns; the effects see a change of the store, the URL or the peer id only
when the components render again (`rendered` holds what they have last run for).
The server is RoomRegistry's gateway reduced to one socket: a leave-room is done
when it is taken, a join-room is answered some time later, in any order.

| Module | Code |
|---|---|
| `roomCode`, `url`, `nav` | the room store, searchParams, the router.replace under way |
| `OpenModal`, `CloseModal`, `Submit`, `LeaveButton`, `ModalEffect` | RoomControls, JoinRoomModal, LeaveRoomButton: the user acts on what was rendered |
| `UrlToStore`, `StoreToUrl`, `JoinEffect`, `ListenerEffect`, `Render` | the effects of RoomUrlSync and SocketProvider |
| `Ask`, `TimerFires` | leave-room, and 50 ms later join-room with the id of that moment |
| `Connect`, `Disconnect` | the flushed buffer and the replayed join; the server forgets the socket |
| `TakeAnswer` | onJoinSuccess, if the listeners are set |
| `PeerOpens`, `PeerLost` | PeerJS gives and takes the id, with the same Peer or a new one |
| `Serve`, `Answer` | the gateway |

The URL is changed by the program only: the application has one page and no links.
Codes are values here; what a typed text becomes as a code is in Labels.

**upsets.** The history variable `upsets` names what went wrong so far: a
join-success for another room than the store's (`late`), or for another one than
was asked for last (`stray`), a join replayed while another one waits for its timer
(`replayed`), a lagging URL that put a code back (`undone`), an early return of the join effect after its leave-room (`skipped`), a
join without a peer id (`nameless`), an answer without listeners (`deaf`), a dialog
that stayed over the page (`covered`). No guard reads it. The properties say that *nothing else* goes wrong. What the upsets
do: a late answer puts the old room back over the user's choice; after it the
join effect may take the room for joined while leave-room is on its way
(`skipped`: shown as joined, in no room); a leave is undone when the
router.replace of the join before arrives after it.

### 2.4 The parts of a page

Each of these is small, has its own specification, and assumes nothing of the
others but what stands in its header.

| Module | State | Steps and code |
|---|---|---|
| **Toasts** | `tray`: toasts, exit animations, timers | `Added`, `Removed`, `Info`, `Dismissed` are addToast, removeToast and notify; an id that is added during its own exit animation is taken for a duplicate and goes with it (`doomed`) |
| **SendPanel** | `panel`: the component's state and refs; `seen`: the dependencies its effects last ran for | selection with names made unique, the archive, the send effect, the outcomes of a call, the 60 s timer, the transfer effect with its 3 s, the drop overlay, `Remount` when the room changes; `stale`: a selection relied on a connection that had gone |
| **LoadingGate** | `gate`, `overlay` | GateEffect and its two timers; the overlay that is held for a minimum time |
| **Inbox** | the file being received, its toast, object URLs, chat, place | file-start, file-end, the one-message format, texts, all of which list their sender first; the timeout, removal and detaching of the sender; the panel that is mounted under every code and revokes its URLs; the join that empties the chat |
| **PeerReconnect** | `client`: state of the Peer, counter, timer, given up | `Open`, `Lost`, `Attempt`, calls of connect() while disconnected, fatal errors, giving up, `CleanUp` |
| **PeerLinks** | two browsers, what the server tells each, entries, both ends of each connection | joining and leaving, the three events, the connect effect, an end that opens or closes; `mishaps`: failed, late, stale, lagging |
| **StatsFeed** | rows, running handlers, the page's socket and numbers | a handler saves and counts query by query; refused rows, rejected queries; get-stat with its 10 s timeout; the socket breaks |
| **Address** | the lookup, networks, answers to joins | the lookup begins, ends, fails; join-success tells the address |
| **UploadBar** | stage and chunks of each target, `peerProgress`, the toast | file-start accepted or not, chunks, cancellations, reports |
| **Spotlight** | spotlights, tweens with the time they have left, glow | effect and clean-up, moves, out, renders; gsap is external |
| **Labels** | one sample input | getRoomId, extractIp, getTruncatedFileName, formatSize, formatFileSize over every input of a bounded kind |

`MCBrowser` puts these specifications side by side: each behaviour is a behaviour
of one part (`part`), and the others stay as they began. This says nothing about
their interplay, which is in the modules themselves (SendPanel with Toasts, Inbox
with LoadingGate, PeerLinks with the list and the signals); it lets one run check
all of them without multiplying their states. `MCBrowserLive` adds RoomSession and
the fairness of each part.

## 3. Runs

All runs stop exploring only at the bounds named in the configuration;
`registry_scenarios` also has a CONSTRAINT, `EitherScenario`, that keeps the states
of its two scenarios and prunes the others (it checks invariants only). Deadlock
checking is off because the bounded system may stop: every socket is used up,
every call has been made.

| Run | Instance | Asks |
|---|---|---|
| `registry_reconnect` | 3 sockets (one browser twice), one room, fair | joins are answered, departures are told |
| `registry_scenarios` | two scenarios: the reconnect with one fault, and two browsers changing rooms, one of them also without leaving the old one (2 rooms, 3 joins, 2 lanes, 3 handlers at once) | the lists are complete and sound, Redis is exact, the inductive invariant |
| `registry_unordered` | 3 sockets, no order, overlapping handlers, a reload under a new id | what holds without any assumption |
| `transfer_retry` | 1 target, 2 connections, 2 calls that may overlap, files of 2 chunks, 2 start attempts, 1 upset | whole files, no file twice; who takes a running transfer's key or flag |
| `transfer_pair` | 2 targets (symmetric), 1 message, 1 call, 2 upsets | what "sending" means with several peers |
| `transfer_live` | 1 target, 2 connections, one of them open, 2 calls that may overlap, 1 upset | everything ends; the transfers implement Delivery |
| `session_agree` | 1 code, 2 choices, 1 lost connection to each server | page, URL and server agree at rest; no dialog is left over the room |
| `browser` | the parts side by side (bounds below) | 13 invariants and an action property |
| `browser_live` | the parts and the session, smaller, fair | the panel unlocks, toasts go, the page is uncovered, reconnection, statistics and session come to rest |

Expected violations, each a statement of the repository:

- `registry_del_race`: the README says Redis maps the sockets of a room to peers
  (README.md:73). A leaving socket's HLEN answers 0, a joining socket stores its
  entry, DEL removes it: a browser that was told join-success is not there.
- `registry_cut_join`: the gateway's test says a disconnect broadcasts peer-left
  when the peer has no other socket (signal.gateway.spec.ts:49). A socket that
  closes while its join waits for Redis has no entry yet; its join announces it
  afterwards, and nobody withdraws it.
- `session_to_and_fro`: the README says a user joins a room (README.md:20). With
  two joins in flight whose answers are late, each answer changes the room in the
  store, each change asks for another join, and the browser goes to and fro for
  ever. This takes answers slower than the 50 ms pause, not a fault.

Bounds and why they are enough. A defect of the registry takes a socket that
leaves, one that arrives and one that watches: three sockets; the reconnect makes
two of them one browser. `MaxBusy` (2 handlers at once, 3 in the other scenario)
covers all three kinds of handler on one socket against one of another. Two lanes are
what two joins of one socket at once take. In the scenario of changing rooms only the
socket of the first browser may be spoilt, so that the other browser shows what happens
to a bystander; the other runs have one join for each socket, and one lane. A second
fault only combines the effects of two. For the transfers, two calls and two
connections are what overtaking and retrying take, two chunks make a file that can
be cut in the middle, and two targets make ids coincide. `MaxUpsets` bounds closed
connections and changes of the list (2 in `transfer_pair`, 1 in the others).
Two calls are also what an overlap takes: one of the old panel, one of the new. Targets
and connections are interchangeable (`Alike`); in `transfer_live`, where a symmetry would
be unsound, `ConnectedSpec` begins after the first connection has opened at the sender's
end, before which nothing can be sent. `transfer_pair` has one call; that
SendingExplained holds with more of them is proved. For the
session, a room before, a room asked for and one disturbance of each kind;
`MaxJoins = 2` joins on their way at once, because late answers and the lagging
URL can multiply them without end. A timer waits when there are as many, so no
join is lost to it.

In `browser`: one selection before and one after a remount or retry, two calls
(MAX_TRANSFER_RETRIES has the same branches with two as with more), three changes
of a connection or of isActive; two received items, two codes and one move; three
losses and three attempts of the reconnection with two connect() calls, so that
attempts are counted early and late; two requests, one break of the socket; two
connections and four rooms joined by the two browsers, because the case "stale"
takes a browser that leaves and comes back while an older connection is still
opening; two cards; two targets and three chunks; two networks; texts of up to four characters
around a code of three; sizes around every change of unit and of digits. The two
browsers, the other peers of the panel and the reconnection, and the two codes are
interchangeable: `Alike` is the symmetry set of the first two, and the page begins
with the first code.
`browser_live` has the same kinds of event with smaller numbers.

Fairness. `RoomRegistry!FairSpec` has weak fairness of *some* Redis step: the
connection keeps answering. With the queue this answers every command.
`FileTransfer!FairSpec` has weak fairness of each timer, of reading the file, and
of taking a message from a channel whose end stays open: setTimeout, setInterval,
Blob.arrayBuffer and a live data channel. `RoomSession!FairSpec` has weak fairness
of rendering, of a navigation, of the timer, of messages and answers, and of
reconnecting to either server, which Socket.IO and PeerProvider do by themselves
(PeerProvider gives up after its last attempt; PeerReconnect has that). In
`MCBrowserLive`: React runs effects that are due, timers fire, a call of
sendFileToTargets ends (`SendReturns` of FileTransfer), an archive is made or
fails, the database answers, a socket that stays up delivers, PeerJS tells of a lost
server and opens or fails an attempt. Nothing requires a connection to open or to
stay open, a peer to answer or a user to act.

## 4. What the runs show

Registry:

- Any two members find each other, in at least one direction at every moment, in
  both once the handlers are done and Redis keeps its order. One direction is
  enough for a connection.
- A member's list loses a peer only when the peer is gone; it keeps a departed
  peer only after one of the events behind `excused`. A restarted server's stale
  entries disappear with the next join.
- A browser that is in two rooms of the server at once harms nobody's registration but
  its own: whatever its handlers do at the same time, the others' lists and entries are
  exact but for its own peer id and entry.

Transfers:

- `activeSendTransfers` holds a peer only while the last transfer to it runs and the peer
  is listed, so the cancelAllSendTransfers in onPeerLeft never finds anything to cancel.
- After a change of the room code while PeerJS has no id, a transfer of the old panel may
  run beside one of the new panel to the same peer. They share a key and a flag: when the
  old one ends it takes the key, and the new one stops at its next look as if it had been
  cancelled, though isSending still stands; an old one that finds its connection closed
  cancels both. No file arrives twice or in part through it.
- The branch "Missing chunks" of handleIncomingData is not reached by these
  senders: a file-end that matches receivingFile always finds every chunk.
- A reported success is not a delivery. DeliveredOrLost names the reasons: a
  closed end, a detach, the inactivity timeout, and the file-start of the next
  call overtaking the rest of this file on a newer connection.
- isSending stays set after a transfer that gave up (no start-ack, or a read
  error), which keeps the panel in its sending state, and it can fall early
  because a message was acknowledged.
- The progress toast goes back only when a target reports for the first time.

Session and links:

- At rest the page, the URL and the server agree unless one of the named upsets
  happened; even then the URL has the code of the store. A lost connection, or
  a changed peer id, outside the pause between leave and join never puts them out
  of step.
- The dialog closes when a join begins, so it stays when none does: a code whose
  join is under way already, or PeerJS without an id.
- Two browsers of a room that are at rest list each other unless a connection
  failed or was late, stale or lagging. A stale one, made before a browser left and
  came back, may open last, take the place of the newer one, and go with the late
  word that the browser had left: then they are in one room and do not list each
  other, and nothing tries again.
- A connection that opens after a room was left lists a peer of that room, since
  leaving closes those of the list only (`late`). Nothing else does.

Page:

- A picked file is always being sent, due, or under the 60 s timer, except after a
  selection that relied on a connection which went while the archive was made
  (`stale`): the panel then stays locked.
- An ack goes out for a file that arrived before the panel had mounted; a
  file-start that takes another one's place leaves its toast to nobody (`adrift`), and
  nothing else does, for a sender that is not listed is listed before its data is
  looked at;
  chat entries keep dead links when the code returns to the one joined last
  (`keptChat`), or while PeerJS has no id.
- The reconnection gives up early when connect() calls were counted for attempts,
  and after a fatal error its toast may stay for good, because "disconnected" follows.
- The displayed statistics are what the database has, unless the last news of a
  field came out of order, was lost or never sent (`off`); they never show more.
- The spotlight stays lit beside dark cards, or the reverse, only when a shorter
  tween was overtaken by a longer one or the cards were mounted anew.
- Two spellings of one code lead to one room, and a host to one room, unless a
  proxy wrote its IPv4 address as an IPv6 one; two ways of showing sizes agree
  below a terabyte.
- The address shown is that of the network, unless the first lookup ended after
  a join-success.

## 5. Proofs

The theorems hold for all values of the constants that satisfy the modules' named
ASSUMEs, and for every number of steps. TLC checks the same formulas on the
instances above wherever `PROJECT.json` names a property.

| Module | Theorem | Statement |
|---|---|---|
| RoomRegistryTheorems | `Typing`, `Stages` | `Spec => []TypeOK`, `Spec => []Inv` |
| | `Discovery`, `Staying` | `Spec => []MutualDiscovery`, `Spec => StaysListed` |
| | `Exactness` | `Spec => []ExactRegistry` |
| RoomRegistryViews | `Completeness` | `Pipelined /\ Spec => []CompleteViews` |
| | `Soundness` | `Pipelined /\ Spec => []SoundViews` |
| | `ListsAreTheRoom` | `Pipelined /\ Spec => []ListsExact` |
| FileTransferProofs | `TransferTyping` | `Spec => []TypeOK` |
| | `TransferActive`, `TransferListed` | `Spec => []ActiveExact`, `Spec => []ListedOpen` |
| | `TransferSending`, `TransferShown` | `Spec => []SendingExplained`, `Spec => ShownWhileSent` |
| | `TransferOnce` | `Spec => []DeliveredOnce` |
| FileTransferTheorems | `TransferDelivers` | `Spec => ImplementsDelivery`, that is `Promise!Spec` |
| | `TransferWhole` | `Spec => []EndsWhole` |
| RoomSessionProofs | `SessionPage`, `SessionRoom` | `Spec => []PageAgrees`, `Spec => []RoomAgrees` |
| | `SessionDialog` | `Spec => []DialogSound` |
| PeerProofs | `LinksTyping`, `LinksEntryOpen` | `LinksSpec => []LinksTypeOK`, `LinksSpec => []EntryOpen` |
| | `LinksApart`, `LinksTogether` | `LinksSpec => []ApartUnlisted`, `LinksSpec => []TogetherLinked` |
| | `ReconnectTyping`, `ReconnectSafety` | `ReconnectSpec => []ReconnectTypeOK`, `... => []ReconnectSafe` |
| PageProofs | `PanelRuns`, `PanelTells`, `PanelArchives` | `PanelSpec => []PanelNeverStuck`, `[]ToastsTell`, `[]ArchiveComplete` |
| | `InboxTells`, `InboxChat` | `InboxSpec => []BothTold`, `[]ChatSound` |
| | `StatsTyping`, `StatsNeverAhead`, `StatsRest` | `StatsSpec => []StatsTypeOK`, `[]NeverAhead`, `[]RestExact` |
| | `LightTells` | `SpotlightSpec => []LightFollows` |
| | `AddressStays` | `AddressSpec => []AddressExact` |
| | `BarAdvances` | `UploadSpec => GoesBackForNew` |
| | `ConversionsAgree` | `LabelsSpec => []LabelsAgree` |

**Registry.** For both values of `Pipelined` and `Serial` and with all faults.
MutualDiscovery is not inductive: it says nothing about a socket that is about to
be told join-success. `Inv` adds where every socket that nothing spoilt stands. It
is *outside* (no entry, no adapter room), *joining* (in the adapter's room of its
request, its entry present exactly after HSET), a *member* (entry and adapter room
are those of its request) or *leaving*. `RemovalsOK` says cleanDeadPeers only
removes entries of closed sockets, `HandlersOK` and `ConnectedOK` give the shape
of the handlers. From the stages follows the step that matters (`JoinedMember`):
when s is told join-success, every other member's socket is in the adapter's room,
and either its entry was read by the HGETALL of s, or it will itself announce, or
has announced, to a room s is already in.

No stage has two handlers of a kind. `LanesOK` says that a second lane is used by spoilt
sockets only: a join-room that finds another one running finds a room that was not left,
and a leave-room that finds another one spoils its socket too. So a handler of an
unspoilt socket is `J(s)`, `L(s)` or `D(s)` (`StepAlone`), and those of spoilt sockets,
any number at once and in any lane, are shown to touch nothing of the others.

ExactRegistry is about a moment of rest and says nothing on the way to it. What is
needed is what becomes of the entry of a closed socket (`Gone`): one of its own
handlers will still remove it (`Going`), or no member's join has been past it
(`Swept`). A join that looks at it removes it, because its socket is not in the
adapter's room. At rest nothing is going, so an entry of a departed socket would
have been swept by the join of any member.

CompleteViews assumes that Redis runs the commands in the order they were issued;
without it the property is false, and Discovery is what is left. The queue then
holds exactly the commands that handlers wait for, once each (`Queued`), and every
step takes its command from the head and puts new ones at the end: that is
`Advances(done)`, proved once per step and used instead of the steps. A list is
incomplete when a join-success was computed from an older HGETALL than a
peer-joined that was sent before it. So look at a join of s that awaits the removals
of cleanDeadPeers and has not seen the entry of t (`Misses`). Then t joined later,
and `Behind` says that what t waits for stands in the queue after every removal s
waits for: t needs EXPIRE and HGETALL after HSET while s needs HDEL and HLEN, so s
is told first and t announces itself to it. HLEN cannot lead to a DEL there,
since the entry of t is in the hash. What is proved is more than the property: the
lists are complete at every moment, not only when no handler runs.

SoundViews is the opposite question: why may a list still show a peer? `HeardOK`
answers it at every moment, also for the list a join is about to send while it awaits
the removals (`Heard`). Each peer in it is backed (`Backed`) by a spoilt socket whose
browser may present it, by an open socket that asked for the same room, or by a leave
or disconnect handler that has yet to look whether to tell peer-left (`Departs`) and
ends after the join of whoever lists the peer (`Outlives`). The last is a race of two
handlers through the queue: the one has so many commands to go (`Left`), the other so
many (`After`), and where they are equal the order in the queue decides. HLEN and DEL
count as one because the DEL of a join that is still in the room does not happen. A
handler that looks has one command left and it is the head of the queue, so no join it
outlives is under way (`LookIsLast`): whoever lists the peer has been told join-success,
is in the room and hears peer-left, unless another entry of the peer is there, which is
backed in turn (`EntryBacked`). Two more facts carry it. `LeaveOK`: the handler that is
to remove an entry reads it before any other handler's HDEL takes it, or another one of
the same socket has read it. `ClosedJoin`: a join that goes on after its socket has
closed announces its peer before the disconnect handler looks, except for one that
ends with a DEL, and that DEL spoils every entry of the room.

The two together, with the fact that a member never lists itself (`NotSelf`), say what
the registry is for (`ListsExact`): when no handler runs, the list of a member is the ids
of the other members of its room, but for the ids of spoilt sockets. It is the ground
on which RoomSession and PeerLinks reduce the server to one that tells a browser who
is in its room.

**Transfers.** `TransferInv` is the inductive invariant. `Fits`: only a message or
its answer is about another target than its channel's. `Begun`: a transfer that runs
has a connection, and those of later calls have not begun. `Held`: isSending that
stands without a key in activeSendTransfers is owed, by a stranded transfer or by an
entry of pendingAcks; this is what carries SendingExplained over the end of another
call's transfer. For DeliveredOnce: the file-end of a transfer is
on the channels at most once, and only after its success and before its delivery
(`Ends`, `Handed`); and a file is offered again only by the panel that offered it, when
none of its transfers succeeded or still runs (`Files`), however many transfers of
earlier panels do.

The refinement is proved step by step. The mapping takes the outcome of a file from
its last call and adds up the copies over all calls. A step that starts a call is an
offer; a step that ends transfers, alone or many at once (leaving the room), of one
file or of several (calls that overlap), is an end; a file-end that is taken is a
hand-over; all others stutter. A transfer that runs is the last of its file to its
target (`StandsLast`), so its end shows in the outcome. Copies add up
because a call's copies change in one place at a time, and are at most one per target
because of DeliveredOnce.

EndsWhole follows each chunk (`FlowInv`). A connection keeps the order of what it
carries, but what it carries of a transfer may begin anywhere, since the target may
have given the file up and taken another file-start of it. A chunk that was sent is on
the channel, or has been taken by the target that expects the file (`Has`); a
file-start still on the channel has all chunks behind it, because none is sent before
a file-start is acknowledged and no file-start after that; and a connection that
drops something drops the file-end too.

**Session.** At rest the server's state is the outcome of the last request; on the way
the last one under way decides (`Served`). The page leaves before it asks for another
room and the socket keeps their order, so a join-room is taken in no room (`Ordered`);
whoever says "joining" has a join-room, an answer or a timer coming (`Underway`).
RoomAgrees used to excuse any late answer and every replayed join: an answer for
another room than the store's may be harmless, and a replay next to an unsent join is
harmful only while the timer waits. The attempt to prove it showed where the line
is, and `stray` and `replayed` now say so.

**Links.** ApartUnlisted and TogetherLinked are about rest. On the way there: of
browsers that are apart each has taken the other out of its list, or the last word on
its way to it will make it do so (`Leaving`); of browsers that are together each lists
the other or has the word that makes it do so coming (`Coming`), the entries of an
older meeting go with a goodbye (`Former`), and no such goodbye takes a connection made
since (`Recent`).

**Reconnection.** `Counting` ties the counter to the attempts made and the
connect() calls counted, so that giving up has one of two reasons; `Exits` says that
a toast which is added during an exit animation goes with it, and that nothing else
closes it.

**Panel.** `Whereabouts` says where the picked file is between two effects: in a call,
due by a dependency its effects have not seen, or under the timer. `TraySound` ties
each toast to what wants it. ArchiveComplete is about a recursive function (`zip`) and
is proved by the least number of files for which it would fail; a free name exists
because more counters are tried than names are taken (`FreeName`). Names are sequences
of numbers there: all that the archive does with a name is to put a counter into it,
so that different counters make different names.

**Inbox.** A file that was acknowledged is followed from the callback to the panel's
URL, a progress toast from its file-start on, and `UnreadExact` counts the unseen
messages one by one.

**Statistics.** NeverAhead needs the numbers on their way (`CountsThere`): what a
handler has read and what the socket carries was counted, and rows are only added.
RestExact needs what will still be told (`NewsComes`): a field that is not yet exact has
a handler that will count it again, or a message that is the last of its field.

**Spotlight.** The opacity is decided by the tween that ends last (`LastWord`).

**Address.** In `AddressInv` the answers on their way are of the current network, and
once none is left the address shown is that network's, whether or not the lookup
is over; only a lookup that ends later can undo this.

**Upload bar.** By `UploadInv` the toast that stands shows no more than any target has
reported, and a target's next report is larger than its last. The new least of the
reports is some target's (`MinIs`), so with the same targets it cannot be below the
toast.

**Conversions.** For codes and texts of any length and all sizes. An upper-cased text is
a flattened sequence, a recursive function again; `FlattenIs` says what is in it, by the
least length for which it would fail. A valid code has no character that an upper case or
a trim changes, so the server's conversion leaves it as it is. A shown size is rounded to
a step that depends on it; more is never shown as less because a whole 10, 100 or 1000
units is a multiple of every step (`StepUp`).

**What the proofs corrected.** Besides RoomAgrees: SoundViews used to say less than it
meant for a peer id that a spoilt socket shares with another one, and now names the
sockets that may have left the id behind. Everything else held as it was stated.

Every safety invariant and action property that a run checks is proved.
Out of the prover's reach: the liveness properties JoinAnswered, DepartureTold,
SendReturns, SendingEnds, DeliveredOrLost, LockEnds, BarsEnd, PageShows, Settles,
FeedRests and RestsUnlessLate, which rest on fairness.

## 6. No abstract registry

The transfers implement Delivery. The registry has no such specification beside it: one
with the members of a room and the lists as its state would say in its guards what
MutualDiscovery (who enters finds everybody, or is found), StaysListed (no list drops a
member) and ListsExact (at rest a list is the room) say directly. These three theorems
are its contract.

## 7. Not modelled

- The PeerJS server is the library's, started and logged. Database wiring,
  configuration and `main.ts` wire libraries.
- Presentation: of MagicBento the particles, the tilt, the magnetism and the click
  ripple are switched off by GlowingGrid, the only user. Dock, GlowingEffect,
  Sparkles, icons and layout keep no state another part reads.
- Code that nothing calls: connectToPeer, isPeerOpen and destroyPeerInstance of
  peerService, useLoadingDelay, generateRoomCode and normalizeRoomCode, the
  backend's user.service and room.service, the notify functions of signal.service.
- The hash of an address is a function; that two addresses do not collide is
  assumed.
- What the spoilt sockets themselves go through. The model has the events behind
  `excused`, overlapping handlers of one socket among them, and handleLeaveRoom's late
  `data.roomId = undefined` (signal.gateway.ts:110); but the properties of the registry
  say of these sockets only that they harm nobody else. RoomRegistry leaves it to the
  client when it asks for a room; RoomSession has the client that asks.
