----------------------------- MODULE RoomSession -----------------------------
(***************************************************************************)
(* One browser's way into a room: front/src/contexts/SocketProvider.tsx    *)
(* with the room store, the room code in the URL                           *)
(* (front/src/components/Room/RoomUrlSync.tsx) and the buttons that change *)
(* the code.                                                               *)
(*                                                                         *)
(* A change of the store or of the URL is seen by the React effects when   *)
(* the components render again; events of the socket, timers and the user  *)
(* come in between.  The server is the gateway reduced to one socket: a    *)
(* leave-room is done when the next message is taken, a join-room is       *)
(* answered some time after it was taken.                                  *)
(*                                                                         *)
(* A definition marked "a slip" is the next one with a mistake in it.  No  *)
(* other definition uses it: put in its place, it shows what a property    *)
(* catches.                                                                *)
(***************************************************************************)
EXTENDS Naturals, Sequences, FiniteSetsExt

CONSTANTS
  Code,        \* room codes
  Lan,         \* the room without a code, named by the address
  None,        \* null
  MaxChoices,  \* bound: rooms the user asks for
  MaxDrops,    \* bound: lost connections to the server
  MaxBounces,  \* bound: lost connections to the PeerJS server
  MaxJoins     \* bound: join-rooms of this socket that are on their way or being answered

ASSUME CodeAssumption ==
  /\ Lan \notin Code /\ None \notin Code \cup {Lan}
  /\ None \notin [peer : Nat, room : Code \cup {Lan}]
ASSUME BoundAssumption == /\ MaxChoices \in Nat /\ MaxDrops \in Nat /\ MaxBounces \in Nat
                          /\ MaxJoins \in Nat \ {0}

VARIABLES
  roomCode,   \* the room store
  url,        \* searchParams
  nav,        \* where the last router.replace leads, or None when it has arrived
  gen,        \* the peer ids given so far; the current one is number gen
  pid,        \* peer.id: gen, or 0 for null
  modal,      \* isJoinOpen of RoomControls: the dialog a code is entered in
  rendered,   \* the values the effects have last run for (peer: the Peer object)
  lastJoin,   \* lastJoinPayloadRef
  timer,      \* the payload of the join that waits 50 ms, or None
  listening,  \* the socket has the listeners of the current Peer
  connected,  \* the socket
  buffered,   \* a leave-room waits in the socket's send buffer
  joined,     \* isRoomJoined
  joining,    \* isJoining
  listed,     \* the room whose peers fill the list, or None
  toServer, toClient,
  rooms,      \* the rooms the server has this socket in
  dataRoom,   \* socket.data.roomId
  answering,  \* of each room, the join-rooms the server is working on
  left,       \* the last request was leave-room (history: no guard reads it)
  upsets,     \* what went wrong so far (history: no guard reads it)
  choices, drops, bounces

page == <<roomCode, url, nav, gen, pid, modal, rendered>>
session == <<lastJoin, timer, joined, joining, listed, listening>>
socket == <<connected, buffered, toServer, toClient>>
server == <<rooms, dataRoom, answering>>
counters == <<choices, drops, bounces>>
history == <<left, upsets>>
vars == <<page, session, socket, server, counters, history>>

-----------------------------------------------------------------------------
Room == Code \cup {Lan}
Payload == [peer : Nat, room : Room]   \* peer 0: null
Now == [room |-> roomCode, url |-> url, pid |-> pid, peer |-> gen]
NoJoins == [r \in Room |-> 0]
Leave == [type |-> "leave-room", peer |-> 0, room |-> None]
Join(p) == [type |-> "join-room", peer |-> p.peer, room |-> p.room]

\* What can put the page and the server out of step:
Upset == {"late",      \* a join-success for another room than the store's
          "stray",     \* or for another one than was asked for last
          "replayed",  \* a join replayed while another one waits for its timer
          "undone",    \* an URL that lagged behind put a code back into the store
          "skipped",   \* the join effect returned early after a leave-room
          "nameless",  \* a join without a peer id
          "deaf",      \* a join-success without listeners
          "covered"}   \* a code entered behind the overlay of a join: harmless there
When(upset, bad) == IF bad THEN {upset} ELSE {}
Note(upset, bad) == upsets' = upsets \cup When(upset, bad)

Init ==
  /\ url \in Room
  /\ roomCode = url
  /\ nav = None
  /\ gen = 0
  /\ pid = 0
  /\ modal = FALSE
  /\ rendered = [room |-> roomCode, url |-> url, pid |-> 0, peer |-> 0]
  /\ lastJoin = None
  /\ timer = None
  /\ listening = FALSE
  /\ connected = FALSE
  /\ buffered = FALSE
  /\ joined = FALSE
  /\ joining = FALSE
  /\ listed = None
  /\ toServer = <<>>
  /\ toClient = <<>>
  /\ rooms = {}
  /\ dataRoom = None
  /\ answering = NoJoins
  /\ left = FALSE
  /\ upsets = {}
  /\ choices = 0
  /\ drops = 0
  /\ bounces = 0

\* The user sees what was rendered last, and nothing before PeerJS has given an id.
\* The overlay of a join only covers the page: the keyboard still reaches it.
Sees == rendered.room = roomCode /\ rendered.url = url /\ gen # 0
Chosen(r) ==
  /\ choices < MaxChoices
  /\ choices' = choices + 1
  /\ roomCode' = r
  /\ UNCHANGED <<url, nav, gen, pid, modal, rendered, session, socket, server, drops, bounces,
                 left>>

\* The dialog is opened while there is no code, and closed again by the user.
OpenModal ==
  /\ Sees /\ roomCode = Lan /\ ~modal
  /\ choices < MaxChoices
  /\ modal' = TRUE
  /\ UNCHANGED <<roomCode, url, nav, gen, pid, rendered, session, socket, server, counters,
                 history>>
CloseModal ==
  /\ modal
  /\ modal' = FALSE
  /\ UNCHANGED <<roomCode, url, nav, gen, pid, rendered, session, socket, server, counters,
                 history>>
\* A valid code is entered; the dialog stays until a room is joined.
Submit(r) ==
  Sees /\ modal /\ r \notin {Lan, roomCode} /\ Chosen(r) /\ Note("covered", joining)
\* The button, which is there while a room with a code is shown as joined.
LeaveButton ==
  Sees /\ ~modal /\ joined /\ roomCode # Lan /\ Chosen(Lan) /\ UNCHANGED upsets

\* PeerJS: an id is given; after a reconnect it is the same one, after a new Peer
\* another one, and the list was emptied.
PeerOpens(new) ==
  /\ pid = 0
  /\ gen = 0 => new
  /\ gen' = IF new THEN gen + 1 ELSE gen
  /\ pid' = gen'
  /\ listed' = IF new THEN None ELSE listed
  /\ UNCHANGED <<roomCode, url, nav, modal, rendered, lastJoin, timer, joined, joining, listening,
                 socket, server, counters, history>>

PeerLost ==
  /\ pid # 0
  /\ bounces < MaxBounces
  /\ bounces' = bounces + 1
  /\ pid' = 0
  /\ UNCHANGED <<roomCode, url, nav, gen, modal, rendered, session, socket, server, choices,
                 drops, history>>

\* router.replace has taken effect.
UrlLands ==
  /\ nav # None
  /\ url' = nav
  /\ nav' = None
  /\ UNCHANGED <<roomCode, gen, pid, modal, rendered, session, socket, server, counters, history>>

-----------------------------------------------------------------------------
(* The effects *)

\* URL -> store, only when the URL has changed and the store has no code.
UrlToStoreEager ==   \* a slip: after every change, whatever the store has
  roomCode' = IF url # rendered.url \/ roomCode # rendered.room THEN url ELSE roomCode
UrlToStore ==
  roomCode' = IF url # rendered.url /\ url # Lan /\ roomCode = Lan THEN url ELSE roomCode

\* Store -> URL.
StoreToUrlKeeping ==   \* a slip: nothing is done when there is no code
  nav' = IF (url # rendered.url \/ roomCode # rendered.room) /\ roomCode \notin {url, Lan}
         THEN roomCode ELSE nav
StoreToUrl ==
  nav' = IF (url # rendered.url \/ roomCode # rendered.room) /\ roomCode # url
         THEN roomCode ELSE nav

\* The last join was for this code and this peer id.
JoinedAlready == lastJoin = [peer |-> pid, room |-> roomCode]

\* The room is asked for: leave the one before, ask for the new one 50 ms later.
AskStaying ==   \* a slip: no leave-room
  /\ joined' = FALSE
  /\ joining' = TRUE
  /\ listed' = None
  /\ timer' = [peer |-> pid, room |-> roomCode]
  /\ UNCHANGED <<toServer, buffered>>
Ask ==
  /\ joined' = FALSE
  /\ joining' = TRUE
  /\ listed' = None
  /\ timer' = [peer |-> pid, room |-> roomCode]
  /\ toServer' = IF connected THEN Append(toServer, Leave) ELSE toServer
  /\ buffered' = (buffered \/ ~connected)

\* The join effect runs when the code or the peer id has changed; its clean-up
\* clears the timer first.
Unchanged == <<roomCode, pid>> = <<rendered.room, rendered.pid>>
\* RoomControls closes the dialog when isJoining has become true.
ModalEffectNever == UNCHANGED modal   \* a slip: nothing closes it
ModalEffect == modal' = (modal /\ (joining \/ ~joining'))
JoinEffect ==
  \/ /\ Unchanged
     /\ UNCHANGED <<timer, joined, joining, listed, toServer, buffered, left>>
  \/ /\ ~Unchanged
     /\ pid = 0 \/ JoinedAlready
     /\ timer' = None
     /\ UNCHANGED <<joined, joining, listed, toServer, buffered, left>>
  \/ /\ ~Unchanged
     /\ pid # 0 /\ ~JoinedAlready
     /\ Ask
     /\ left' = TRUE

\* The listeners belong to a Peer object; none are set for one without an id.
ListenerEffect == listening' = IF rendered.peer # gen THEN pid # 0 ELSE listening

Render ==
  /\ rendered # Now
  /\ rendered' = Now
  /\ UrlToStore
  /\ StoreToUrl
  /\ JoinEffect
  /\ ModalEffect
  /\ ListenerEffect
  /\ upsets' = upsets \cup When("undone", roomCode' # roomCode)
                     \cup When("skipped", ~Unchanged /\ pid # 0 /\ JoinedAlready /\ left)
  /\ UNCHANGED <<url, gen, pid, lastJoin, connected, toClient, server, counters>>

-----------------------------------------------------------------------------
(* Timer and socket *)

\* The join-rooms of this socket that are on their way or being answered.
Joins ==
  Len(SelectSeq(toServer, LAMBDA m : m.type = "join-room"))
  + MapThenSumSet(LAMBDA r : answering[r], Room) + Len(toClient)

\* 50 ms after leave-room.  The id is read now: a Peer that has lost its connection
\* has none.  Without a connection the join is left to Connect.
TimerFires ==
  /\ timer # None
  /\ Joins < MaxJoins
  /\ timer' = None
  /\ lastJoin' = [timer EXCEPT !.peer = IF pid = @ THEN pid ELSE 0]
  /\ toServer' = IF connected THEN Append(toServer, Join(lastJoin')) ELSE toServer
  /\ left' = FALSE
  /\ Note("nameless", pid # timer.peer)
  /\ UNCHANGED <<page, joined, joining, listed, listening, connected, buffered, toClient,
                 server, counters>>

\* What the socket sends when it connects: its buffer, then the replayed join.
Greeting ==
  (IF buffered THEN <<Leave>> ELSE <<>>) \o
  (IF lastJoin = None THEN <<>> ELSE <<Join(lastJoin)>>)

Connect ==
  /\ ~connected
  /\ connected' = TRUE
  /\ toServer' = Greeting
  /\ buffered' = FALSE
  /\ joining' = (joining \/ lastJoin # None)
  /\ ModalEffect
  /\ left' = (left /\ lastJoin = None)
  /\ Note("replayed", lastJoin # None /\ timer # None)
  /\ UNCHANGED <<roomCode, url, nav, gen, pid, rendered, lastJoin, timer, joined, listed,
                 listening, toClient, server, counters>>

\* The connection is lost; the server forgets the socket.
Disconnect ==
  /\ connected
  /\ drops < MaxDrops
  /\ drops' = drops + 1
  /\ connected' = FALSE
  /\ joined' = FALSE
  /\ toServer' = <<>>
  /\ toClient' = <<>>
  /\ rooms' = {}
  /\ dataRoom' = None
  /\ answering' = NoJoins
  /\ UNCHANGED <<page, lastJoin, timer, joining, listed, listening, buffered, choices, bounces, history>>

\* The join that waits for its timer, or the one that was sent last.
AskedLast == IF timer = None THEN lastJoin ELSE timer

\* join-success: the answer's room becomes the store's, its peers the list.
TakeAnswer ==
  /\ toClient # <<>>
  /\ toClient' = Tail(toClient)
  /\ \/ /\ listening
        /\ joined' = TRUE
        /\ joining' = FALSE
        /\ roomCode' = Head(toClient)
        /\ listed' = Head(toClient)
        /\ upsets' = upsets \cup When("late", Head(toClient) # roomCode)
                           \cup When("stray", Head(toClient) # AskedLast.room)
     \/ /\ ~listening
        /\ Note("deaf", TRUE)
        /\ UNCHANGED <<joined, joining, roomCode, listed>>
  /\ UNCHANGED <<url, nav, gen, pid, modal, rendered, lastJoin, timer, listening, connected,
                 buffered, toServer, server, counters, left>>

-----------------------------------------------------------------------------
(* The server *)

LeaveRoom ==
  /\ rooms' = rooms \ {dataRoom}
  /\ dataRoom' = None

\* A join without an id is refused and not answered.
Serve ==
  /\ toServer # <<>>
  /\ toServer' = Tail(toServer)
  /\ LET m == Head(toServer) IN
     \/ /\ m.type = "join-room" /\ m.peer # 0
        /\ rooms' = rooms \cup {m.room}
        /\ dataRoom' = m.room
        /\ answering' = [answering EXCEPT ![m.room] = @ + 1]
     \/ /\ m.type = "join-room" /\ m.peer = 0
        /\ UNCHANGED server
     \/ /\ m.type = "leave-room"
        /\ LeaveRoom
        /\ UNCHANGED answering
  /\ UNCHANGED <<page, session, connected, buffered, toClient, counters, history>>

Answer(r) ==
  /\ answering[r] > 0
  /\ answering' = [answering EXCEPT ![r] = @ - 1]
  /\ toClient' = Append(toClient, r)
  /\ UNCHANGED <<page, session, connected, buffered, toServer, rooms, dataRoom, counters, history>>

-----------------------------------------------------------------------------
Next ==
  \/ OpenModal \/ CloseModal \/ LeaveButton
  \/ \E r \in Code : Submit(r)
  \/ \E new \in BOOLEAN : PeerOpens(new)
  \/ PeerLost
  \/ UrlLands
  \/ Render
  \/ TimerFires
  \/ Connect
  \/ Disconnect
  \/ TakeAnswer
  \/ Serve
  \/ \E r \in Room : Answer(r)

Spec == Init /\ [][Next]_vars

\* The page renders, timers fire, messages arrive and are answered, and what is lost
\* comes back: Socket.IO and PeerProvider reconnect.
FairSpec ==
  /\ Spec
  /\ WF_vars(Render) /\ WF_vars(UrlLands) /\ WF_vars(TimerFires)
  /\ WF_vars(Connect) /\ WF_vars(TakeAnswer) /\ WF_vars(Serve)
  /\ \A r \in Room : WF_vars(Answer(r))
  /\ WF_vars(\E new \in BOOLEAN : PeerOpens(new))

-----------------------------------------------------------------------------
(* Properties *)

\* Every variable has its type.
TypeOK ==
  /\ roomCode \in Room /\ url \in Room /\ nav \in Room \cup {None}
  /\ gen \in Nat /\ pid \in {0, gen}
  /\ rendered \in [room : Room, url : Room, pid : 0..gen, peer : 0..gen]
  /\ lastJoin \in Payload \cup {None} /\ timer \in Payload \cup {None}
  /\ {modal, connected, buffered, joined, joining, listening, left} \subseteq BOOLEAN
  /\ listed \in Room \cup {None} /\ upsets \subseteq Upset
  /\ \A i \in DOMAIN toServer :
       toServer[i] \in {Leave} \cup {Join(p) : p \in [peer : 0..gen, room : Room]}
  /\ toClient \in Seq(Room)
  /\ rooms \subseteq Room /\ dataRoom \in rooms \cup {None} /\ answering \in [Room -> Nat]
  /\ choices \in 0..MaxChoices /\ drops \in 0..MaxDrops /\ bounces \in 0..MaxBounces

\* Nothing is on its way: no message, timer, navigation or render.
Quiet ==
  /\ connected /\ pid # 0
  /\ rendered = Now /\ timer = None /\ nav = None
  /\ toServer = <<>> /\ toClient = <<>> /\ answering = NoJoins

\* When nothing is on its way, the URL has the code of the store, and the browser is
\* shown as joined unless its join was never made or its answer not heard.
PageAgrees ==
  Quiet =>
    /\ url = roomCode
    /\ joined = ~joining
    /\ upsets \cap {"skipped", "nameless", "deaf"} = {} => joined

\* When nothing is on its way, the list is that of the page's room, and the server has
\* the browser in that room and in no other, unless an answer came for another room than
\* was asked for last, or a join was skipped, refused, not heard or replayed next to
\* another one.  That the room was not the store's when its answer came is no excuse.
RoomAgrees ==
  Quiet /\ upsets \subseteq {"late", "undone", "covered"} =>
    listed = roomCode /\ rooms = {roomCode}

\* The dialog does not stay over a room that was entered, unless isJoining had no cause
\* to become true: a join was under way already, its answer was late, or PeerJS had lost
\* its id.
ModalCloses == Quiet /\ modal /\ upsets = {} => roomCode = Lan \/ bounces > 0

\* The state is what the code can make of it, and no dialog is left over the page.
DialogSound == TypeOK /\ ModalCloses

\* Once the socket has connected the session comes to rest, unless an answer was late.
RestsUnlessLate == <>connected => <>[]Quiet \/ <>("late" \in upsets)

-----------------------------------------------------------------------------
(* What the README says and the code does not keep *)

\* README: the user joins a room, and does not go to and fro between two: the effects
\* and late answers stop chasing each other.
ComesToRest == <>[]Quiet

=============================================================================
