-------------------------- MODULE RoomSessionProofs ---------------------------
(***************************************************************************)
(* What holds of RoomSession for every set of room codes and every bound:  *)
(* the URL, the room the page is in, the one the server has it in and the  *)
(* list it shows agree once nothing is on its way.                         *)
(*                                                                         *)
(* Between two moments of rest the requests on their way decide. The last  *)
(* of them, or the state the server has reached when there is none, is     *)
(* what the page asked for last (Served): it leaves a room before it asks  *)
(* for another, so the server takes a join-room only when the socket is in *)
(* no room (Ordered), and its answers come in that order. A page that says *)
(* it is joining has a join-room, an answer or a timer coming to it        *)
(* (Underway), and after a pause the timer asks for what was rendered last *)
(* (AskedFor).                                                             *)
(***************************************************************************)
EXTENDS RoomSession, SequenceTheorems, TLAPS

ToServer == {Leave} \cup {Join(p) : p \in Payload}
IsJoin(m) == m.type = "join-room"

\* The types; and a timer waits for what was rendered last.
SessionTypes ==
  /\ roomCode \in Room /\ url \in Room /\ nav \in Room \cup {None}
  /\ gen \in Nat /\ pid \in {0, gen}
  /\ rendered \in [room : Room, url : Room, pid : 0..gen, peer : 0..gen]
  /\ lastJoin # None => lastJoin \in Payload /\ lastJoin.peer <= gen
  /\ timer # None => /\ timer = [peer |-> rendered.pid, room |-> rendered.room]
                     /\ rendered.pid # 0
  /\ modal \in BOOLEAN /\ connected \in BOOLEAN /\ buffered \in BOOLEAN
  /\ joined \in BOOLEAN /\ joining \in BOOLEAN /\ listening \in BOOLEAN /\ left \in BOOLEAN
  /\ listed \in Room \cup {None} /\ upsets \subseteq Upset
  /\ toServer \in Seq(ToServer) /\ \A i \in DOMAIN toServer : toServer[i].peer <= gen
  /\ toClient \in Seq(Room)
  /\ rooms \subseteq Room /\ dataRoom \in rooms \cup {None} /\ answering \in [Room -> Nat]
  /\ choices \in 0..MaxChoices /\ drops \in 0..MaxDrops /\ bounces \in 0..MaxBounces

\* The URL has, or is on its way to, the code that was rendered last, once its own last
\* value was rendered too.
UrlFollows ==
  /\ nav # None => rendered.url = url /\ nav # url
  /\ rendered.url = url => url = rendered.room \/ nav = rendered.room

\* Without a connection there is nothing between page and server.
Offline ==
  ~connected =>
    /\ ~joined /\ toServer = <<>> /\ toClient = <<>> /\ answering = NoJoins
    /\ rooms = {} /\ dataRoom = None

\* Before the first join-room nothing is answered; but from the first render with an id
\* on, the page says that it is joining.
NeverAsked ==
  lastJoin = None =>
    /\ ~joined /\ toClient = <<>> /\ answering = NoJoins
    /\ \A i \in DOMAIN toServer : ~IsJoin(toServer[i])
    /\ joining => left /\ (timer # None \/ rendered.pid = 0)
    /\ rendered.pid # 0 => joining

\* It says one of the two once it has asked, and never both.
OneOfTwo ==
  /\ joined => ~joining
  /\ (timer # None \/ lastJoin # None) /\ (connected \/ lastJoin = None) => joining \/ joined

\* A join-room, or its answer, is on its way.
Flying ==
  \/ \E i \in DOMAIN toServer : IsJoin(toServer[i]) /\ toServer[i].peer # 0
  \/ \E r \in Room : answering[r] > 0
  \/ toClient # <<>>

\* What makes a join go unanswered did not happen.
AllHeard == upsets \cap {"skipped", "nameless", "deaf"} = {}
\* A page that says it is joining waits for an answer, or will ask again.
Underway ==
  AllHeard =>
    /\ connected /\ joining => Flying \/ (left /\ (timer # None \/ rendered.pid = 0))
    /\ \A i \in DOMAIN toServer : IsJoin(toServer[i]) => toServer[i].peer # 0
    /\ lastJoin # None => lastJoin.peer # 0

\* What was rendered last was asked for last.
AskedFor ==
  "nameless" \notin upsets /\ rendered.pid # 0 /\ timer = None =>
    lastJoin = [peer |-> rendered.pid, room |-> rendered.room]

\* Nothing that RoomAgrees excuses has happened.
Straight == upsets \subseteq {"late", "undone", "covered"}

\* A leave-room was the last thing sent only while its join waits, or no id is rendered.
LeftWaits ==
  Straight => /\ left => timer # None \/ rendered.pid = 0
              /\ timer # None => left

\* A join-room is taken when the socket is in no room; and the last request the server
\* takes decides.
Ordered(queue, room) ==
  \A i \in DOMAIN queue : IsJoin(queue[i]) =>
    IF i = 1 THEN room = None ELSE queue[i - 1] = Leave
EndsLeft(queue, room) ==
  IF queue = <<>> THEN room = None ELSE queue[Len(queue)] = Leave
EndsJoined(queue, room, join) ==
  IF queue = <<>> THEN room = join.room ELSE queue[Len(queue)] = Join(join)
Served ==
  Straight =>
    /\ rooms = {dataRoom} \ {None}
    /\ Ordered(toServer, dataRoom)
    /\ connected /\ left => EndsLeft(toServer, dataRoom)
    /\ connected /\ ~left /\ lastJoin # None => EndsJoined(toServer, dataRoom, lastJoin)

\* A list is that of the room asked for last, unless that was given up; it is empty
\* only when the page has a new Peer, for which it will ask again.
ListIs ==
  Straight /\ joined =>
    /\ listed # None /\ (~left \/ timer # None) => listed = AskedLast.room
    /\ listed = None => (timer # None => timer.peer # gen) /\ lastJoin.peer # gen

\* While the PeerJS server was never lost, a code in an open dialog is not rendered yet.
DialogWaits ==
  upsets = {} /\ bounces = 0 =>
    /\ gen # 0 => pid = gen
    /\ rendered.pid = 0 => lastJoin = None
    /\ modal => gen # 0
    /\ modal /\ roomCode # Lan => ~joining /\ rendered.room = Lan

SessionInv ==
  /\ SessionTypes /\ UrlFollows /\ Offline /\ NeverAsked /\ OneOfTwo /\ Underway /\ AskedFor
  /\ LeftWaits /\ Served /\ ListIs /\ DialogWaits

-----------------------------------------------------------------------------
(* Messages and queues *)

LEMMA Names ==
  /\ Lan \in Room /\ Code \subseteq Room /\ None \notin Room /\ None \notin Payload
BY CodeAssumption DEF CodeAssumption, Room, Payload

LEMMA MessageIs ==
  /\ Leave \in ToServer /\ ~IsJoin(Leave) /\ Leave.peer = 0
  /\ \A p \in Payload : /\ Join(p) \in ToServer /\ IsJoin(Join(p)) /\ Join(p) # Leave
                        /\ Join(p).peer = p.peer /\ Join(p).room = p.room
  /\ \A m \in ToServer : m = Leave \/ \E p \in Payload : m = Join(p)
BY DEF ToServer, Leave, Join, IsJoin, Payload

\* A request behind the others.
LEMMA AppendIs ==
  ASSUME NEW q \in Seq(ToServer), NEW m \in ToServer, NEW new, new = Append(q, m)
  PROVE  /\ new \in Seq(ToServer) /\ new # <<>> /\ Len(new) = Len(q) + 1
         /\ new[Len(new)] = m
         /\ DOMAIN new = 1..Len(new) /\ DOMAIN q = 1..Len(q) /\ Len(q) \in Nat
         /\ \A i \in DOMAIN q : new[i] = q[i]
BY AppendProperties

\* The first one is taken.
LEMMA TailIs ==
  ASSUME NEW S, NEW q \in Seq(S), q # <<>>, NEW new, new = Tail(q)
  PROVE  /\ new \in Seq(S) /\ Head(q) = q[1] /\ q[1] \in S
         /\ Len(q) \in Nat \ {0} /\ Len(new) = Len(q) - 1 /\ Len(new) \in Nat
         /\ DOMAIN q = 1..Len(q) /\ DOMAIN new = 1..Len(new)
         /\ \A i \in DOMAIN new : i + 1 \in DOMAIN q /\ new[i] = q[i + 1]
         /\ new = <<>> <=> Len(q) = 1
<1>1. /\ new \in Seq(S) /\ Len(new) = Len(q) - 1
      /\ \A i \in 1..Len(new) : new[i] = q[i + 1]
  BY HeadTailProperties
<1>2. Len(q) \in Nat \ {0} /\ DOMAIN q = 1..Len(q) /\ DOMAIN new = 1..Len(new)
  BY <1>1, EmptySeq
<1>3. Head(q) = q[1] /\ q[1] \in S  BY <1>2
<1>4. new = <<>> <=> Len(new) = 0  BY <1>1, EmptySeq
<1> QED  BY <1>1, <1>2, <1>3, <1>4

LEMMA AppendLeave ==
  ASSUME NEW q \in Seq(ToServer), NEW room, Ordered(q, room), NEW new, new = Append(q, Leave)
  PROVE  Ordered(new, room) /\ EndsLeft(new, room)
BY AppendIs, MessageIs DEF Ordered, EndsLeft

LEMMA AppendJoin ==
  ASSUME NEW q \in Seq(ToServer), NEW room, Ordered(q, room), EndsLeft(q, room),
         NEW p \in Payload, NEW new, new = Append(q, Join(p))
  PROVE  Ordered(new, room) /\ EndsJoined(new, room, p)
<1>1. /\ new # <<>> /\ Len(new) = Len(q) + 1 /\ new[Len(new)] = Join(p)
      /\ DOMAIN new = 1..Len(new) /\ DOMAIN q = 1..Len(q) /\ Len(q) \in Nat
      /\ \A i \in DOMAIN q : new[i] = q[i]
  BY AppendIs, MessageIs
<1>2. q = <<>> <=> Len(q) = 0  BY EmptySeq
<1>3. ASSUME NEW i \in DOMAIN new, IsJoin(new[i])
      PROVE  IF i = 1 THEN room = None ELSE new[i - 1] = Leave
  <2>1. CASE i \in DOMAIN q
    <3>1. new[i] = q[i]  BY <1>1, <2>1
    <3>2. CASE i = 1  BY <1>3, <2>1, <3>1, <3>2 DEF Ordered
    <3>3. CASE i # 1
      <4>1. i - 1 \in DOMAIN q  BY <1>1, <2>1, <3>3
      <4>2. q[i - 1] = Leave  BY <1>3, <2>1, <3>1, <3>3 DEF Ordered
      <4> QED  BY <1>1, <3>3, <4>1, <4>2
    <3> QED  BY <3>2, <3>3
  <2>2. CASE i \notin DOMAIN q
    <3>1. i = Len(q) + 1  BY <1>1, <2>2
    <3>2. CASE q = <<>>  BY <1>2, <3>1, <3>2 DEF EndsLeft
    <3>3. CASE q # <<>>
      <4>1. Len(q) \in DOMAIN q /\ i # 1 /\ i - 1 = Len(q)  BY <1>1, <1>2, <3>1, <3>3
      <4> QED  BY <1>1, <3>3, <4>1 DEF EndsLeft
    <3> QED  BY <3>2, <3>3
  <2> QED  BY <2>1, <2>2
<1>4. Ordered(new, room)  BY <1>3 DEF Ordered
<1> QED  BY <1>1, <1>4 DEF EndsJoined

\* The server takes a request: the room is none after a leave-room, and that of the join.
LEMMA TailOrdered ==
  ASSUME NEW q \in Seq(ToServer), q # <<>>, NEW room, Ordered(q, room),
         NEW new, new = Tail(q), NEW then,
         Head(q) = Leave => then = None
  PROVE  /\ Ordered(new, then)
         /\ IsJoin(Head(q)) => room = None
         /\ EndsLeft(q, room) => EndsLeft(new, then)
         /\ \A join \in Payload :
              EndsJoined(q, room, join) /\ (IsJoin(Head(q)) => then = Head(q).room)
                => EndsJoined(new, then, join)
<1>1. /\ Head(q) = q[1] /\ q[1] \in ToServer
      /\ Len(q) \in Nat \ {0} /\ Len(new) = Len(q) - 1 /\ Len(new) \in Nat
      /\ DOMAIN q = 1..Len(q) /\ DOMAIN new = 1..Len(new)
      /\ \A i \in DOMAIN new : i + 1 \in DOMAIN q /\ new[i] = q[i + 1]
      /\ new = <<>> <=> Len(q) = 1
  BY TailIs
<1>2. ASSUME NEW i \in DOMAIN new, IsJoin(new[i])
      PROVE  IF i = 1 THEN then = None ELSE new[i - 1] = Leave
  <2>1. i \in Nat \ {0} /\ i + 1 \in DOMAIN q /\ IsJoin(q[i + 1])  BY <1>1, <1>2
  <2>2. q[i] = Leave  BY <2>1 DEF Ordered
  <2>3. CASE i = 1  BY <1>1, <2>2, <2>3
  <2>4. CASE i # 1
    <3>1. i - 1 \in DOMAIN new  BY <1>1, <2>1, <2>4
    <3> QED  BY <1>1, <2>1, <2>2, <2>4, <3>1
  <2> QED  BY <2>3, <2>4
<1>3. Ordered(new, then)  BY <1>2 DEF Ordered
<1>4. IsJoin(Head(q)) => room = None  BY <1>1 DEF Ordered
<1>5. CASE Len(q) = 1
  <2>1. new = <<>> /\ q[Len(q)] = Head(q)  BY <1>1, <1>5
  <2>2. ASSUME NEW join \in Payload, EndsJoined(q, room, join),
               IsJoin(Head(q)) => then = Head(q).room
        PROVE  EndsJoined(new, then, join)
    BY <2>1, <2>2, MessageIs DEF EndsJoined
  <2>3. EndsLeft(q, room) => EndsLeft(new, then)  BY <2>1 DEF EndsLeft
  <2> QED  BY <1>3, <1>4, <2>2, <2>3
<1>6. CASE Len(q) # 1
  <2>1. new # <<>> /\ Len(new) \in DOMAIN new /\ new[Len(new)] = q[Len(q)]  BY <1>1, <1>6
  <2> QED  BY <1>3, <1>4, <2>1 DEF EndsJoined, EndsLeft
<1> QED  BY <1>5, <1>6

\* The buffered leave-room comes first, the replayed join last.
LEMMA GreetingIs ==
  ASSUME SessionTypes
  PROVE  /\ Greeting \in Seq(ToServer)
         /\ \A i \in DOMAIN Greeting : /\ Greeting[i].peer <= gen
                                       /\ IsJoin(Greeting[i]) => lastJoin # None /\ Greeting[i] = Join(lastJoin)
         /\ Ordered(Greeting, None)
         /\ lastJoin = None => EndsLeft(Greeting, None)
         /\ lastJoin # None => /\ \E i \in DOMAIN Greeting : Greeting[i] = Join(lastJoin)
                               /\ \A room : EndsJoined(Greeting, room, lastJoin)
<1>1. CASE lastJoin = None
  <2>1. Greeting = <<>> \/ Greeting = <<Leave>>  BY <1>1 DEF Greeting
  <2>2. CASE Greeting = <<>>  BY <1>1, <2>2 DEF Ordered, EndsLeft
  <2>3. CASE Greeting = <<Leave>>
    BY <1>1, <2>3, MessageIs DEF Ordered, EndsLeft, SessionTypes
  <2> QED  BY <2>1, <2>2, <2>3
<1>2. CASE lastJoin # None
  <2>1. /\ lastJoin \in Payload /\ lastJoin.peer <= gen
        /\ Join(lastJoin) \in ToServer /\ Join(lastJoin).peer <= gen /\ gen \in Nat
    BY <1>2, MessageIs DEF SessionTypes
  <2>2. Greeting = <<Join(lastJoin)>> \/ Greeting = <<Leave, Join(lastJoin)>>
    <3> DEFINE join == Join(lastJoin)
    <3>1. Greeting = (IF buffered THEN <<Leave>> ELSE <<>>) \o <<join>>  BY <1>2 DEF Greeting
    <3>2. join \in ToServer /\ Leave \in ToServer  BY <2>1, MessageIs
    <3> HIDE DEF join
    <3>3. <<>> \o <<join>> = <<join>>  BY <3>2, ConcatEmptySeq
    <3>4. <<Leave>> \o <<join>> = <<Leave, join>>
      <4> DEFINE one == <<Leave>>  other == <<join>>  both == one \o other
      <4>1. /\ one \in Seq(ToServer) /\ Len(one) = 1 /\ one[1] = Leave
            /\ other \in Seq(ToServer) /\ Len(other) = 1 /\ other[1] = join
        BY <3>2
      <4> HIDE DEF one, other
      <4>2. /\ both \in Seq(ToServer) /\ Len(both) = 2
            /\ both[1] = Leave /\ both[2] = join
        BY <4>1, ConcatProperties
      <4>3. /\ <<Leave, join>> \in Seq(ToServer) /\ Len(<<Leave, join>>) = 2
            /\ <<Leave, join>>[1] = Leave /\ <<Leave, join>>[2] = join
        BY <3>2
      <4> HIDE DEF both
      <4>4. both = <<Leave, join>>  BY <4>2, <4>3, SeqEqual
      <4> QED  BY <4>4 DEF both, one, other
    <3> QED  BY <3>1, <3>3, <3>4 DEF join
  <2>3. CASE Greeting = <<Join(lastJoin)>>
    BY <1>2, <2>1, <2>3 DEF Ordered, EndsJoined
  <2>4. CASE Greeting = <<Leave, Join(lastJoin)>>
    <3> DEFINE join == Join(lastJoin)
    <3>1. /\ join \in ToServer /\ join.peer <= gen
          /\ Leave \in ToServer /\ Leave.peer <= gen /\ ~IsJoin(Leave)
      BY <2>1, MessageIs
    <3>2. Greeting = <<Leave, join>>  BY <2>4
    <3> HIDE DEF join
    <3>3. /\ Greeting \in Seq(ToServer) /\ DOMAIN Greeting = {1, 2} /\ Len(Greeting) = 2
          /\ Greeting[1] = Leave /\ Greeting[2] = join /\ Greeting # <<>>
      BY <3>1, <3>2
    <3>4. Ordered(Greeting, None)  BY <3>1, <3>3 DEF Ordered
    <3>5. \A room : EndsJoined(Greeting, room, lastJoin)  BY <3>3 DEF EndsJoined, join
    <3> QED  BY <1>2, <3>1, <3>3, <3>4, <3>5 DEF join
  <2> QED  BY <2>2, <2>3, <2>4
<1> QED  BY <1>1, <1>2

-----------------------------------------------------------------------------
(* The initial states, and the parts of the invariant one by one *)

LEMMA SessionInitInv == Init => SessionInv
<1> SUFFICES ASSUME Init PROVE SessionInv  OBVIOUS
<1> USE DEF Init
<1>0. rendered.room = roomCode /\ rendered.url = url /\ rendered.pid = 0  OBVIOUS
<1>1. SessionTypes
  <2>1. 0 \in 0..MaxChoices /\ 0 \in 0..MaxDrops /\ 0 \in 0..MaxBounces
    BY BoundAssumption DEF BoundAssumption
  <2>2. NoJoins \in [Room -> Nat]  BY DEF NoJoins
  <2>3. toServer \in Seq(ToServer) /\ DOMAIN toServer = {} /\ toClient \in Seq(Room)  OBVIOUS
  <2>4. rendered \in [room : Room, url : Room, pid : 0..gen, peer : 0..gen]  OBVIOUS
  <2>5. \A i \in DOMAIN toServer : toServer[i].peer <= gen  BY <2>3
  <2>6. upsets \subseteq Upset /\ rooms \subseteq Room /\ dataRoom \in rooms \cup {None}
        /\ answering \in [Room -> Nat]
    BY <2>2
  <2> QED  BY <2>1, <2>3, <2>4, <2>5, <2>6 DEF SessionTypes
<1>2. UrlFollows  BY <1>0 DEF UrlFollows
<1>3. Offline  BY DEF Offline
<1>4. NeverAsked  BY <1>0 DEF NeverAsked
<1>5. OneOfTwo  BY DEF OneOfTwo
<1>6. Underway  BY DEF Underway
<1>7. AskedFor  BY <1>0 DEF AskedFor
<1>8. LeftWaits  BY DEF LeftWaits
<1>9. Served  BY DEF Served, Ordered
<1>10. ListIs  BY DEF ListIs
<1>11. DialogWaits  BY DEF DialogWaits
<1> QED  BY <1>1, <1>2, <1>3, <1>4, <1>5, <1>6, <1>7, <1>8, <1>9, <1>10, <1>11 DEF SessionInv

\* What the requests may be grows with the ids that were given.
LEMMA RequestsStay ==
  ASSUME SessionTypes, gen' \in Nat, gen <= gen', toServer' = toServer
  PROVE  toServer' \in Seq(ToServer) /\ \A i \in DOMAIN toServer' : toServer'[i].peer <= gen'
<1>1. \A i \in DOMAIN toServer : toServer[i].peer \in Nat
  <2>1. \A i \in DOMAIN toServer : toServer[i] \in ToServer  BY DEF SessionTypes
  <2>2. \A m \in ToServer : m.peer \in Nat  BY DEF ToServer, Leave, Join, Payload
  <2> QED  BY <2>1, <2>2
<1> QED  BY <1>1 DEF SessionTypes

\* One more request.
LEMMA RequestsGrow ==
  ASSUME SessionTypes, NEW m \in ToServer, m.peer <= gen, toServer' = Append(toServer, m)
  PROVE  toServer' \in Seq(ToServer) /\ \A i \in DOMAIN toServer' : toServer'[i].peer <= gen
<1>1. toServer \in Seq(ToServer) /\ \A i \in DOMAIN toServer : toServer[i].peer <= gen
  BY DEF SessionTypes
<1>2. /\ toServer' \in Seq(ToServer) /\ Len(toServer') = Len(toServer) + 1
      /\ toServer'[Len(toServer')] = m
      /\ DOMAIN toServer' = 1..Len(toServer') /\ DOMAIN toServer = 1..Len(toServer)
      /\ Len(toServer) \in Nat
      /\ \A i \in DOMAIN toServer : toServer'[i] = toServer[i]
  BY <1>1, AppendIs
<1>3. \A i \in DOMAIN toServer' : i \in DOMAIN toServer \/ i = Len(toServer')  BY <1>2
<1> QED  BY <1>1, <1>2, <1>3

LEMMA TypesStep ==
  ASSUME SessionInv, [Next]_vars
  PROVE  SessionTypes'
<1> USE DEF page, session, socket, server, counters, history
<1>0. SessionTypes  BY DEF SessionInv
<1>1. CASE OpenModal \/ CloseModal
  <2>1. modal' \in BOOLEAN  BY <1>1 DEF OpenModal, CloseModal
  <2>2. /\ UNCHANGED <<roomCode, url, nav, gen, pid, rendered>>
        /\ UNCHANGED <<session, socket, server, counters, history>>
    BY <1>1 DEF OpenModal, CloseModal
  <2> QED  BY <1>0, <2>1, <2>2 DEF SessionTypes
<1>2. ASSUME NEW r \in Room, Chosen(r), upsets' = upsets \/ Note("covered", joining) PROVE SessionTypes'
  <2>1. upsets' \subseteq Upset
    <3>1. upsets \subseteq Upset /\ "covered" \in Upset  BY <1>0 DEF SessionTypes, Upset
    <3>2. upsets' = upsets \/ upsets' = upsets \cup {} \/ upsets' = upsets \cup {"covered"}
      BY <1>2 DEF Note, When
    <3> QED  BY <3>1, <3>2
  <2>2. choices' \in 0..MaxChoices
    <3>1. choices \in 0..MaxChoices  BY <1>0 DEF SessionTypes
    <3> QED  BY <1>2, <3>1, BoundAssumption DEF Chosen, BoundAssumption
  <2> QED  BY <1>0, <1>2, <2>1, <2>2 DEF Chosen, SessionTypes
<1>3. ASSUME NEW new \in BOOLEAN, PeerOpens(new) PROVE SessionTypes'
  <2>1. gen' \in Nat /\ gen <= gen'
    <3>1. gen \in Nat  BY <1>0 DEF SessionTypes
    <3>2. gen' = gen \/ gen' = gen + 1  BY <1>3 DEF PeerOpens
    <3> QED  BY <3>1, <3>2
  <2>2. toServer' \in Seq(ToServer) /\ \A i \in DOMAIN toServer' : toServer'[i].peer <= gen'
    BY <1>0, <1>3, <2>1, RequestsStay DEF PeerOpens
  <2>3. rendered' \in [room : Room, url : Room, pid : 0..gen', peer : 0..gen']
    BY <1>0, <1>3, <2>1 DEF PeerOpens, SessionTypes
  <2>4. lastJoin' # None => lastJoin' \in Payload /\ lastJoin'.peer <= gen'
    BY <1>0, <1>3, <2>1 DEF PeerOpens, SessionTypes, Payload
  <2>5. listed' \in Room \cup {None} /\ pid' \in {0, gen'}
    BY <1>0, <1>3 DEF PeerOpens, SessionTypes
  <2> QED  BY <1>0, <1>3, <2>1, <2>2, <2>3, <2>4, <2>5 DEF PeerOpens, SessionTypes
<1>4. CASE PeerLost
  <2>1. bounces \in 0..MaxBounces  BY <1>0 DEF SessionTypes
  <2>2. bounces' \in 0..MaxBounces  BY <1>4, <2>1, BoundAssumption DEF PeerLost, BoundAssumption
  <2> QED  BY <1>0, <1>4, <2>2 DEF PeerLost, SessionTypes
<1>5. CASE UrlLands
  BY <1>0, <1>5 DEF UrlLands, SessionTypes
<1>6. CASE Render
  <2>1. /\ rendered' = Now /\ UNCHANGED <<url, gen, pid, lastJoin, connected, toClient, server, counters>>
    BY <1>6 DEF Render
  <2>2. rendered' \in [room : Room, url : Room, pid : 0..gen', peer : 0..gen']
    BY <1>0, <2>1 DEF Now, SessionTypes
  <2>3. roomCode' \in Room /\ nav' \in Room \cup {None}
    BY <1>0, <1>6 DEF Render, UrlToStore, StoreToUrl, SessionTypes
  <2>4. modal' \in BOOLEAN /\ listening' \in BOOLEAN
    BY <1>0, <1>6 DEF Render, ModalEffect, ListenerEffect, SessionTypes
  <2>5. upsets' \subseteq Upset
    BY <1>0, <1>6 DEF Render, When, Upset, SessionTypes
  <2>6. /\ timer' # None => /\ timer' = [peer |-> rendered'.pid, room |-> rendered'.room]
                            /\ rendered'.pid # 0
        /\ joined' \in BOOLEAN /\ joining' \in BOOLEAN /\ left' \in BOOLEAN
        /\ listed' \in Room \cup {None} /\ buffered' \in BOOLEAN
        /\ toServer' \in Seq(ToServer) /\ \A i \in DOMAIN toServer' : toServer'[i].peer <= gen
    <3>0. rendered'.pid = pid /\ rendered'.room = roomCode  BY <2>1 DEF Now
    <3>1. CASE Unchanged
      <4>1. UNCHANGED <<timer, joined, joining, listed, toServer, buffered, left>>
        BY <1>6, <3>1 DEF Render, JoinEffect
      <4>2. pid = rendered.pid /\ roomCode = rendered.room  BY <3>1 DEF Unchanged
      <4> QED  BY <1>0, <3>0, <4>1, <4>2 DEF SessionTypes
    <3>2. CASE ~Unchanged /\ (pid = 0 \/ JoinedAlready)
      <4>1. timer' = None /\ UNCHANGED <<joined, joining, listed, toServer, buffered, left>>
        BY <1>6, <3>2 DEF Render, JoinEffect
      <4> QED  BY <1>0, <4>1 DEF SessionTypes
    <3>3. CASE ~Unchanged /\ pid # 0 /\ ~JoinedAlready
      <4>1. Ask /\ left' = TRUE  BY <1>6, <3>3 DEF Render, JoinEffect
      <4>2. /\ joined' = FALSE /\ joining' = TRUE /\ listed' = None
            /\ timer' = [peer |-> pid, room |-> roomCode]
            /\ buffered' = (buffered \/ ~connected)
            /\ toServer' = IF connected THEN Append(toServer, Leave) ELSE toServer
        BY <4>1 DEF Ask
      <4>3. toServer' \in Seq(ToServer) /\ \A i \in DOMAIN toServer' : toServer'[i].peer <= gen
        <5>1. gen \in Nat /\ Leave \in ToServer /\ Leave.peer <= gen
          BY <1>0, MessageIs DEF SessionTypes
        <5>2. CASE connected  BY <1>0, <4>2, <5>1, <5>2, RequestsGrow
        <5>3. CASE ~connected  BY <1>0, <4>2, <5>3 DEF SessionTypes
        <5> QED  BY <5>2, <5>3
      <4>4. buffered' \in BOOLEAN  BY <4>2
      <4> QED  BY <3>0, <3>3, <4>1, <4>2, <4>3, <4>4
    <3> QED  BY <3>1, <3>2, <3>3
  <2> QED  BY <1>0, <2>1, <2>2, <2>3, <2>4, <2>5, <2>6 DEF SessionTypes
<1>7. CASE TimerFires
  <2>1. /\ timer # None /\ timer' = None
        /\ lastJoin' = [timer EXCEPT !.peer = IF pid = timer.peer THEN pid ELSE 0]
        /\ toServer' = IF connected THEN Append(toServer, Join(lastJoin')) ELSE toServer
        /\ left' = FALSE
    BY <1>7 DEF TimerFires
  <2>2. timer = [peer |-> rendered.pid, room |-> rendered.room] /\ rendered.pid \in 0..gen
        /\ rendered.room \in Room /\ gen \in Nat
    BY <1>0, <2>1 DEF SessionTypes
  <2>3. lastJoin' \in Payload /\ lastJoin'.peer <= gen
    <3>1. lastJoin' = [peer |-> IF pid = timer.peer THEN pid ELSE 0, room |-> rendered.room]
      BY <2>1, <2>2
    <3> QED  BY <2>2, <3>1 DEF Payload
  <2>4. toServer' \in Seq(ToServer) /\ \A i \in DOMAIN toServer' : toServer'[i].peer <= gen
    <3>1. Join(lastJoin') \in ToServer /\ Join(lastJoin').peer <= gen  BY <2>3, MessageIs
    <3>2. CASE connected  BY <1>0, <2>1, <3>1, <3>2, RequestsGrow
    <3>3. CASE ~connected  BY <1>0, <2>1, <3>3 DEF SessionTypes
    <3> QED  BY <3>2, <3>3
  <2>5. upsets' \subseteq Upset  BY <1>0, <1>7 DEF TimerFires, Note, When, Upset, SessionTypes
  <2> QED  BY <1>0, <1>7, <2>1, <2>3, <2>4, <2>5 DEF TimerFires, SessionTypes
<1>8. CASE Connect
  <2>1. toServer' = Greeting  BY <1>8 DEF Connect
  <2>2. toServer' \in Seq(ToServer) /\ \A i \in DOMAIN toServer' : toServer'[i].peer <= gen
    BY <1>0, <2>1, GreetingIs
  <2>3. upsets' \subseteq Upset  BY <1>0, <1>8 DEF Connect, Note, When, Upset, SessionTypes
  <2>4. joining' \in BOOLEAN /\ modal' \in BOOLEAN /\ left' \in BOOLEAN
    BY <1>0, <1>8 DEF Connect, ModalEffect, SessionTypes
  <2> QED  BY <1>0, <1>8, <2>2, <2>3, <2>4 DEF Connect, SessionTypes
<1>9. CASE Disconnect
  <2>1. toServer' \in Seq(ToServer) /\ DOMAIN toServer' = {} /\ toClient' \in Seq(Room)
    BY <1>9 DEF Disconnect
  <2>2. NoJoins \in [Room -> Nat]  BY DEF NoJoins
  <2>3. drops' \in 0..MaxDrops
    <3>1. drops \in 0..MaxDrops  BY <1>0 DEF SessionTypes
    <3> QED  BY <1>9, <3>1, BoundAssumption DEF Disconnect, BoundAssumption
  <2> QED  BY <1>0, <1>9, <2>1, <2>2, <2>3 DEF Disconnect, SessionTypes
<1>10. CASE TakeAnswer
  <2>1. toClient \in Seq(Room) /\ toClient # <<>> /\ toClient' = Tail(toClient)
    BY <1>0, <1>10 DEF TakeAnswer, SessionTypes
  <2>2. toClient' \in Seq(Room) /\ Head(toClient) \in Room  BY <2>1, TailIs
  <2>3. upsets' \subseteq Upset  BY <1>0, <1>10 DEF TakeAnswer, Note, When, Upset, SessionTypes
  <2>4. roomCode' \in Room /\ listed' \in Room \cup {None} /\ joined' \in BOOLEAN /\ joining' \in BOOLEAN
    BY <1>0, <1>10, <2>2 DEF TakeAnswer, SessionTypes
  <2> QED  BY <1>0, <1>10, <2>2, <2>3, <2>4 DEF TakeAnswer, SessionTypes
<1>11. CASE Serve
  <2>1. toServer \in Seq(ToServer) /\ toServer # <<>> /\ toServer' = Tail(toServer)
    BY <1>0, <1>11 DEF Serve, SessionTypes
  <2>2. /\ toServer' \in Seq(ToServer) /\ Head(toServer) \in ToServer
        /\ \A i \in DOMAIN toServer' : toServer'[i].peer <= gen
    <3>1. /\ toServer' \in Seq(ToServer) /\ Head(toServer) \in ToServer
          /\ \A i \in DOMAIN toServer' : i + 1 \in DOMAIN toServer /\ toServer'[i] = toServer[i + 1]
      BY <2>1, TailIs
    <3>2. \A i \in DOMAIN toServer : toServer[i].peer <= gen  BY <1>0 DEF SessionTypes
    <3> QED  BY <3>1, <3>2
  <2>3. rooms' \subseteq Room /\ dataRoom' \in rooms' \cup {None} /\ answering' \in [Room -> Nat]
    <3>1. CASE Head(toServer).type = "leave-room"
      BY <1>0, <1>11, <3>1 DEF Serve, LeaveRoom, SessionTypes
    <3>2. CASE Head(toServer).type = "join-room"
      <4>1. Head(toServer).room \in Room
        BY <2>2, <3>2, MessageIs DEF IsJoin, Payload
      <4> DEFINE m == Head(toServer)
      <4>2. \/ /\ rooms' = rooms \cup {m.room} /\ dataRoom' = m.room
               /\ answering' = [answering EXCEPT ![m.room] = @ + 1]
            \/ UNCHANGED server
        BY <1>11, <3>2 DEF Serve
      <4>3. rooms \subseteq Room /\ dataRoom \in rooms \cup {None} /\ answering \in [Room -> Nat]
        BY <1>0 DEF SessionTypes
      <4> QED  BY <4>1, <4>2, <4>3
    <3> QED  BY <1>11, <3>1, <3>2 DEF Serve
  <2>4. UNCHANGED <<roomCode, url, nav, gen, pid, modal, rendered, lastJoin, timer, joined,
                   joining, listed, listening, connected, buffered, choices, drops,
                   bounces, left, upsets>>
    BY <1>11 DEF Serve
  <2>5. UNCHANGED toClient  BY <1>11 DEF Serve
  <2> QED  BY SMTT(60), <1>0, <2>2, <2>3, <2>4, <2>5 DEF SessionTypes
<1>12. ASSUME NEW r \in Room, Answer(r) PROVE SessionTypes'
  <2>1. toClient' \in Seq(Room)  BY <1>0, <1>12 DEF Answer, SessionTypes
  <2>2. answering' \in [Room -> Nat]
    <3>1. answering \in [Room -> Nat]  BY <1>0 DEF SessionTypes
    <3>2. answering[r] > 0 /\ answering' = [answering EXCEPT ![r] = @ - 1]  BY <1>12 DEF Answer
    <3> QED  BY <3>1, <3>2
  <2>3. UNCHANGED <<roomCode, url, nav, gen, pid, modal, rendered, lastJoin, timer, joined,
                   joining, listed, listening, connected, buffered, choices, drops,
                   bounces, left, upsets>>
    BY <1>12 DEF Answer
  <2>4. UNCHANGED <<toServer, rooms, dataRoom>>  BY <1>12 DEF Answer
  <2> QED  BY SMTT(60), <1>0, <2>1, <2>2, <2>3, <2>4 DEF SessionTypes
<1>13. CASE UNCHANGED vars  BY <1>0, <1>13 DEF vars, SessionTypes
<1>14. CASE LeaveButton  BY <1>2, <1>14, Names DEF LeaveButton
<1>15. ASSUME NEW r \in Code, Submit(r) PROVE SessionTypes'
  BY <1>2, <1>15, Names DEF Submit
<1> QED
  BY <1>1, <1>3, <1>4, <1>5, <1>6, <1>7, <1>8, <1>9, <1>10, <1>11, <1>12, <1>13, <1>14, <1>15
     DEF Next

-----------------------------------------------------------------------------
(* What the actions do that the parts have in common *)

\* A payload is one.
LEMMA PayloadNow ==
  ASSUME SessionTypes
  PROVE  [peer |-> pid, room |-> roomCode] \in Payload /\ [peer |-> pid, room |-> roomCode] # None
BY Names DEF SessionTypes, Payload

\* The values rendered, and the three ways of the join effect.
LEMMA RenderIs ==
  ASSUME Render
  PROVE  /\ rendered'.room = roomCode /\ rendered'.url = url /\ rendered'.pid = pid
         /\ UNCHANGED <<url, gen, pid, lastJoin, connected, toClient, rooms, dataRoom, answering,
                        choices, drops, bounces>>
         /\ \/ /\ rendered.pid = pid /\ rendered.room = roomCode
               /\ UNCHANGED <<timer, joined, joining, listed, toServer, buffered, left>>
            \/ /\ pid = 0 \/ JoinedAlready
               /\ ~(rendered.pid = pid /\ rendered.room = roomCode)
               /\ pid # 0 /\ left => "skipped" \in upsets'
               /\ timer' = None
               /\ UNCHANGED <<joined, joining, listed, toServer, buffered, left>>
            \/ /\ pid # 0
               /\ joined' = FALSE /\ joining' = TRUE /\ listed' = None /\ left' = TRUE
               /\ timer' = [peer |-> pid, room |-> roomCode]
               /\ toServer' = IF connected THEN Append(toServer, Leave) ELSE toServer
<1>1. /\ rendered' = Now /\ JoinEffect
      /\ UNCHANGED <<url, gen, pid, lastJoin, connected, toClient, server, counters>>
      /\ upsets' = upsets \cup When("undone", roomCode' # roomCode)
                          \cup When("skipped", ~Unchanged /\ pid # 0 /\ JoinedAlready /\ left)
  BY DEF Render
<1>2. rendered'.room = roomCode /\ rendered'.url = url /\ rendered'.pid = pid
  BY <1>1 DEF Now
<1>3. CASE Unchanged
  BY <1>1, <1>2, <1>3 DEF JoinEffect, Unchanged, server, counters
<1>4. CASE ~Unchanged /\ (pid = 0 \/ JoinedAlready)
  <2>1. ~(rendered.pid = pid /\ rendered.room = roomCode)  BY <1>4 DEF Unchanged
  <2>2. ASSUME pid # 0, left PROVE "skipped" \in upsets'  BY <1>1, <1>4, <2>2 DEF When
  <2>3. timer' = None /\ UNCHANGED <<joined, joining, listed, toServer, buffered, left>>
    BY <1>1, <1>4 DEF JoinEffect
  <2> QED  BY <1>1, <1>2, <1>4, <2>1, <2>2, <2>3 DEF server, counters
<1>5. CASE ~Unchanged /\ pid # 0 /\ ~JoinedAlready
  <2>1. Ask /\ left' = TRUE  BY <1>1, <1>5 DEF JoinEffect
  <2> QED  BY <1>1, <1>2, <1>5, <2>1 DEF Ask, server, counters
<1> QED  BY <1>3, <1>4, <1>5

\* The join that the timer sends, with the id it was made for or none.
LEMMA TimerIs ==
  ASSUME SessionTypes, TimerFires
  PROVE  /\ timer # None /\ timer \in Payload /\ timer' = None /\ left' = FALSE
         /\ timer = [peer |-> rendered.pid, room |-> rendered.room] /\ rendered.pid # 0
         /\ lastJoin' \in Payload /\ lastJoin' # None /\ lastJoin'.room = timer.room
         /\ lastJoin' = timer \/ "nameless" \in upsets'
         /\ toServer' = IF connected THEN Append(toServer, Join(lastJoin')) ELSE toServer
         /\ UNCHANGED <<roomCode, url, nav, gen, pid, modal, rendered, joined, joining, listed,
                        connected, toClient, rooms, dataRoom, answering, choices, drops, bounces>>
<1>1. /\ timer # None /\ timer' = None /\ left' = FALSE
      /\ lastJoin' = [timer EXCEPT !.peer = IF pid = timer.peer THEN pid ELSE 0]
      /\ toServer' = IF connected THEN Append(toServer, Join(lastJoin')) ELSE toServer
      /\ upsets' = upsets \cup When("nameless", pid # timer.peer)
      /\ UNCHANGED <<page, joined, joining, listed, listening, connected, buffered, toClient,
                     server, counters>>
  BY DEF TimerFires, Note
<1>2. /\ timer = [peer |-> rendered.pid, room |-> rendered.room] /\ rendered.pid # 0
      /\ rendered.pid \in 0..gen /\ rendered.room \in Room /\ gen \in Nat
  BY <1>1 DEF SessionTypes
<1>3. lastJoin' = [peer |-> IF pid = timer.peer THEN pid ELSE 0, room |-> rendered.room]
  BY <1>1, <1>2
<1>4. lastJoin' \in Payload /\ lastJoin'.room = timer.room /\ timer \in Payload
  BY <1>2, <1>3 DEF Payload
<1>5. lastJoin' = timer \/ "nameless" \in upsets'
  <2>1. CASE pid = timer.peer  BY <1>2, <1>3, <2>1
  <2>2. CASE pid # timer.peer  BY <1>1, <2>2 DEF When
  <2> QED  BY <2>1, <2>2
<1> QED  BY <1>1, <1>2, <1>4, <1>5, Names DEF page, server, counters

\* What has gone wrong stays so.
LEMMA UpsetsGrow ==
  ASSUME [Next]_vars
  PROVE  upsets \subseteq upsets'
<1> USE DEF history, Note
<1>1. CASE OpenModal \/ CloseModal \/ LeaveButton \/ PeerLost \/ UrlLands \/ Render
  BY <1>1 DEF OpenModal, CloseModal, LeaveButton, PeerLost, UrlLands, Render
<1>2. CASE TimerFires \/ Connect \/ Disconnect \/ TakeAnswer \/ Serve
  BY <1>2 DEF TimerFires, Connect, Disconnect, TakeAnswer, Serve
<1>3. ASSUME NEW r \in Code, Submit(r) PROVE upsets \subseteq upsets'  BY <1>3 DEF Submit
<1>4. ASSUME NEW new \in BOOLEAN, PeerOpens(new) PROVE upsets \subseteq upsets'
  BY <1>4 DEF PeerOpens
<1>5. ASSUME NEW r \in Room, Answer(r) PROVE upsets \subseteq upsets'  BY <1>5 DEF Answer
<1>6. CASE UNCHANGED vars  BY <1>6 DEF vars
<1> QED  BY <1>1, <1>2, <1>3, <1>4, <1>5, <1>6 DEF Next

-----------------------------------------------------------------------------
(* One step for each part *)

LEMMA UrlStep ==
  ASSUME SessionInv, [Next]_vars
  PROVE  UrlFollows'
<1> USE DEF page, session, socket, server, counters, history
<1>0. UrlFollows  BY DEF SessionInv
<1>1. CASE Render
  <2>1. nav' = IF (url # rendered.url \/ roomCode # rendered.room) /\ roomCode # url
               THEN roomCode ELSE nav
    BY <1>1 DEF Render, StoreToUrl
  <2>2. rendered'.room = roomCode /\ rendered'.url = url /\ url' = url  BY <1>1, RenderIs
  <2> QED  BY <1>0, <2>1, <2>2 DEF UrlFollows
<1>2. CASE UrlLands  BY <1>0, <1>2 DEF UrlLands, UrlFollows
<1>3. CASE UNCHANGED <<url, nav, rendered>>  BY <1>0, <1>3 DEF UrlFollows
<1>4. CASE OpenModal \/ CloseModal \/ LeaveButton \/ PeerLost
  BY <1>3, <1>4 DEF OpenModal, CloseModal, LeaveButton, Chosen, PeerLost
<1>5. CASE TimerFires \/ Connect \/ Disconnect \/ TakeAnswer \/ Serve
  BY <1>3, <1>5 DEF TimerFires, Connect, Disconnect, TakeAnswer, Serve
<1>6. ASSUME NEW r \in Code, Submit(r) PROVE UrlFollows'  BY <1>3, <1>6 DEF Submit, Chosen
<1>7. ASSUME NEW new \in BOOLEAN, PeerOpens(new) PROVE UrlFollows'
  BY <1>3, <1>7 DEF PeerOpens
<1>8. ASSUME NEW r \in Room, Answer(r) PROVE UrlFollows'  BY <1>3, <1>8 DEF Answer
<1>9. CASE UNCHANGED vars  BY <1>3, <1>9 DEF vars
<1> QED  BY <1>1, <1>2, <1>4, <1>5, <1>6, <1>7, <1>8, <1>9 DEF Next

LEMMA OfflineStep ==
  ASSUME SessionInv, [Next]_vars
  PROVE  Offline'
<1> USE DEF page, session, socket, server, counters, history
<1>0. Offline  BY DEF SessionInv
<1>1. CASE Render
  <2>1. /\ UNCHANGED <<connected, toClient, rooms, dataRoom, answering>>
        /\ joined' = joined \/ joined' = FALSE
        /\ toServer' = toServer \/ connected
    BY <1>1, RenderIs
  <2> QED  BY <1>0, <2>1 DEF Offline, NoJoins
<1>2. CASE TimerFires
  <2>1. /\ UNCHANGED <<connected, joined, toClient, rooms, dataRoom, answering>>
        /\ toServer' = toServer \/ connected
    BY <1>2 DEF TimerFires
  <2> QED  BY <1>0, <2>1 DEF Offline, NoJoins
<1>3. CASE Connect  BY <1>3 DEF Connect, Offline
<1>4. CASE Disconnect  BY <1>4 DEF Disconnect, Offline, NoJoins
<1>5. CASE UNCHANGED <<connected, joined, toServer, toClient, rooms, dataRoom, answering>>
  BY <1>0, <1>5 DEF Offline, NoJoins
<1>6. CASE OpenModal \/ CloseModal \/ LeaveButton \/ PeerLost \/ UrlLands
  BY <1>5, <1>6 DEF OpenModal, CloseModal, LeaveButton, Chosen, PeerLost, UrlLands
<1>7. CASE TakeAnswer \/ Serve
  <2>1. connected /\ connected' = connected  BY <1>0, <1>7 DEF TakeAnswer, Serve, Offline
  <2> QED  BY <2>1 DEF Offline
<1>8. ASSUME NEW r \in Code, Submit(r) PROVE Offline'  BY <1>5, <1>8 DEF Submit, Chosen
<1>9. ASSUME NEW new \in BOOLEAN, PeerOpens(new) PROVE Offline'
  BY <1>5, <1>9 DEF PeerOpens
<1>10. ASSUME NEW r \in Room, Answer(r) PROVE Offline'
  <2>1. answering[r] > 0 /\ connected' = connected  BY <1>10 DEF Answer
  <2>2. connected  BY <1>0, <2>1 DEF Offline, NoJoins
  <2> QED  BY <2>1, <2>2 DEF Offline
<1>11. CASE UNCHANGED vars  BY <1>5, <1>11 DEF vars
<1> QED  BY <1>1, <1>2, <1>3, <1>4, <1>6, <1>7, <1>8, <1>9, <1>10, <1>11 DEF Next

LEMMA OneStep ==
  ASSUME SessionInv, [Next]_vars
  PROVE  OneOfTwo'
<1> USE DEF page, session, socket, server, counters, history
<1>0. /\ OneOfTwo /\ SessionTypes
      /\ ~connected => ~joined
      /\ lastJoin = None => ~joined
  BY DEF SessionInv, Offline, NeverAsked
<1>1. CASE Render
  <2>1. UNCHANGED <<connected, lastJoin>>  BY <1>1, RenderIs
  <2>2. \/ UNCHANGED <<joined, joining>> /\ (timer' = timer \/ timer' = None)
        \/ joined' = FALSE /\ joining' = TRUE
    BY <1>1, RenderIs
  <2> QED  BY <1>0, <2>1, <2>2 DEF OneOfTwo
<1>2. CASE TimerFires
  <2>1. timer # None /\ lastJoin' # None /\ UNCHANGED <<connected, joined, joining>>
    BY <1>0, <1>2, TimerIs
  <2> QED  BY <1>0, <2>1 DEF OneOfTwo
<1>3. CASE Connect
  <2>1. /\ ~connected /\ UNCHANGED <<joined, timer, lastJoin>>
        /\ joining' = (joining \/ lastJoin # None)
    BY <1>3 DEF Connect
  <2> QED  BY <1>0, <2>1 DEF OneOfTwo
<1>4. CASE Disconnect
  <2>1. joined' = FALSE /\ connected' = FALSE /\ UNCHANGED <<joining, timer, lastJoin>>
    BY <1>4 DEF Disconnect
  <2> QED  BY <1>0, <2>1 DEF OneOfTwo
<1>5. CASE UNCHANGED <<connected, joined, joining, timer, lastJoin>>
  BY <1>0, <1>5 DEF OneOfTwo
<1>6. CASE TakeAnswer
  <2>1. /\ UNCHANGED <<connected, timer, lastJoin>>
        /\ UNCHANGED <<joined, joining>> \/ (joined' = TRUE /\ joining' = FALSE)
    BY <1>6 DEF TakeAnswer
  <2> QED  BY <1>0, <2>1 DEF OneOfTwo
<1>7. CASE OpenModal \/ CloseModal \/ LeaveButton \/ PeerLost \/ UrlLands \/ Serve
  BY <1>5, <1>7 DEF OpenModal, CloseModal, LeaveButton, Chosen, PeerLost, UrlLands, Serve
<1>8. ASSUME NEW r \in Code, Submit(r) PROVE OneOfTwo'  BY <1>5, <1>8 DEF Submit, Chosen
<1>9. ASSUME NEW new \in BOOLEAN, PeerOpens(new) PROVE OneOfTwo'
  BY <1>5, <1>9 DEF PeerOpens
<1>10. ASSUME NEW r \in Room, Answer(r) PROVE OneOfTwo'  BY <1>5, <1>10 DEF Answer
<1>11. CASE UNCHANGED vars  BY <1>5, <1>11 DEF vars
<1> QED  BY <1>1, <1>2, <1>3, <1>4, <1>6, <1>7, <1>8, <1>9, <1>10, <1>11 DEF Next

LEMMA AskedStep ==
  ASSUME SessionInv, [Next]_vars
  PROVE  AskedFor'
<1> USE DEF page, session, socket, server, counters, history
<1>0. AskedFor /\ SessionTypes  BY DEF SessionInv
<1>u. upsets \subseteq upsets'  BY UpsetsGrow
<1>1. CASE Render
  <2>1. rendered'.pid = pid /\ rendered'.room = roomCode /\ lastJoin' = lastJoin
    BY <1>1, RenderIs
  <2>2. \/ rendered.pid = pid /\ rendered.room = roomCode /\ timer' = timer
        \/ pid = 0 \/ JoinedAlready
        \/ timer' # None
    BY <1>0, <1>1, RenderIs, PayloadNow
  <2> QED  BY <1>0, <1>u, <2>1, <2>2 DEF AskedFor, JoinedAlready
<1>2. CASE TimerFires
  <2>1. /\ timer = [peer |-> rendered.pid, room |-> rendered.room]
        /\ lastJoin' = timer \/ "nameless" \in upsets'
        /\ rendered' = rendered
    BY <1>0, <1>2, TimerIs
  <2> QED  BY <2>1 DEF AskedFor
<1>3. CASE UNCHANGED <<rendered, timer, lastJoin>>
  BY <1>0, <1>u, <1>3 DEF AskedFor
<1>4. CASE OpenModal \/ CloseModal \/ LeaveButton \/ PeerLost \/ UrlLands
  BY <1>3, <1>4 DEF OpenModal, CloseModal, LeaveButton, Chosen, PeerLost, UrlLands
<1>5. CASE Connect \/ Disconnect \/ TakeAnswer \/ Serve
  BY <1>3, <1>5 DEF Connect, Disconnect, TakeAnswer, Serve
<1>6. ASSUME NEW r \in Code, Submit(r) PROVE AskedFor'  BY <1>3, <1>6 DEF Submit, Chosen
<1>7. ASSUME NEW new \in BOOLEAN, PeerOpens(new) PROVE AskedFor'
  BY <1>3, <1>7 DEF PeerOpens
<1>8. ASSUME NEW r \in Room, Answer(r) PROVE AskedFor'  BY <1>3, <1>8 DEF Answer
<1>9. CASE UNCHANGED vars  BY <1>3, <1>9 DEF vars
<1> QED  BY <1>1, <1>2, <1>4, <1>5, <1>6, <1>7, <1>8, <1>9 DEF Next

LEMMA LeftStep ==
  ASSUME SessionInv, [Next]_vars
  PROVE  LeftWaits'
<1> USE DEF page, session, socket, server, counters, history
<1>0. LeftWaits /\ SessionTypes  BY DEF SessionInv
<1>u. Straight' => Straight  BY UpsetsGrow DEF Straight
<1>1. CASE Render
  <2>1. rendered'.pid = pid  BY <1>1, RenderIs
  <2>2. \/ rendered.pid = pid /\ timer' = timer /\ left' = left
        \/ timer' = None /\ left' = left /\ (pid # 0 /\ left => "skipped" \in upsets')
        \/ timer' # None /\ left' = TRUE
    BY <1>0, <1>1, RenderIs, PayloadNow
  <2>3. "skipped" \in upsets' => ~Straight'  BY DEF Straight
  <2> QED  BY <1>0, <1>u, <2>1, <2>2, <2>3 DEF LeftWaits
<1>2. CASE TimerFires
  <2>1. timer' = None /\ left' = FALSE  BY <1>0, <1>2, TimerIs
  <2> QED  BY <2>1 DEF LeftWaits
<1>3. CASE Connect
  <2>1. /\ left' = (left /\ lastJoin = None) /\ UNCHANGED <<timer, rendered>>
        /\ upsets' = upsets \cup When("replayed", lastJoin # None /\ timer # None)
    BY <1>3 DEF Connect, Note
  <2>2. ASSUME Straight' PROVE lastJoin = None \/ timer = None
    <3>1. "replayed" \notin upsets'  BY <2>2 DEF Straight
    <3> QED  BY <2>1, <3>1 DEF When
  <2> QED  BY <1>0, <1>u, <2>1, <2>2 DEF LeftWaits
<1>4. CASE UNCHANGED <<rendered, timer, left>>
  BY <1>0, <1>u, <1>4 DEF LeftWaits
<1>5. CASE OpenModal \/ CloseModal \/ LeaveButton \/ PeerLost \/ UrlLands
  BY <1>4, <1>5 DEF OpenModal, CloseModal, LeaveButton, Chosen, PeerLost, UrlLands
<1>6. CASE Disconnect \/ TakeAnswer \/ Serve
  BY <1>4, <1>6 DEF Disconnect, TakeAnswer, Serve
<1>7. ASSUME NEW r \in Code, Submit(r) PROVE LeftWaits'  BY <1>4, <1>7 DEF Submit, Chosen
<1>8. ASSUME NEW new \in BOOLEAN, PeerOpens(new) PROVE LeftWaits'
  BY <1>4, <1>8 DEF PeerOpens
<1>9. ASSUME NEW r \in Room, Answer(r) PROVE LeftWaits'  BY <1>4, <1>9 DEF Answer
<1>10. CASE UNCHANGED vars  BY <1>4, <1>10 DEF vars
<1> QED  BY <1>1, <1>2, <1>3, <1>5, <1>6, <1>7, <1>8, <1>9, <1>10 DEF Next

\* The server takes the first request.
LEMMA ServeIs ==
  ASSUME SessionTypes, Serve
  PROVE  /\ toServer \in Seq(ToServer) /\ toServer # <<>> /\ toServer' = Tail(toServer)
         /\ UNCHANGED <<roomCode, url, nav, gen, pid, modal, rendered, lastJoin, timer, joined,
                        joining, listed, connected, toClient, left, upsets, bounces>>
         /\ \/ /\ Head(toServer) = Leave
               /\ rooms' = rooms \ {dataRoom} /\ dataRoom' = None /\ answering' = answering
            \/ /\ IsJoin(Head(toServer)) /\ Head(toServer) \in ToServer
               /\ Head(toServer).room \in Room
               /\ IF Head(toServer).peer # 0
                  THEN /\ rooms' = rooms \cup {Head(toServer).room}
                       /\ dataRoom' = Head(toServer).room
                       /\ answering' = [answering EXCEPT ![Head(toServer).room] = @ + 1]
                  ELSE UNCHANGED <<rooms, dataRoom, answering>>
<1>1. toServer \in Seq(ToServer) /\ toServer # <<>> /\ toServer' = Tail(toServer)
  BY DEF Serve, SessionTypes
<1>2. UNCHANGED <<roomCode, url, nav, gen, pid, modal, rendered, lastJoin, timer, joined,
                  joining, listed, connected, toClient, left, upsets, bounces>>
  BY DEF Serve, page, session, counters, history
<1> DEFINE m == Head(toServer)
<1>3. m \in ToServer  BY <1>1, TailIs
<1>4. CASE m = Leave
  <2>1. m.type # "join-room"  BY <1>4, MessageIs DEF IsJoin
  <2>2. LeaveRoom /\ UNCHANGED answering  BY <2>1 DEF Serve
  <2> QED  BY <1>1, <1>2, <1>4, <2>2 DEF LeaveRoom
<1>5. CASE m # Leave
  <2>1. PICK p \in Payload : m = Join(p)  BY <1>3, <1>5, MessageIs
  <2>2. IsJoin(m) /\ m.room \in Room  BY <2>1, MessageIs DEF Payload
  <2>3. m.type = "join-room" /\ m.type # "leave-room"  BY <2>2 DEF IsJoin
  <2>4. IF m.peer # 0
        THEN /\ rooms' = rooms \cup {m.room} /\ dataRoom' = m.room
             /\ answering' = [answering EXCEPT ![m.room] = @ + 1]
        ELSE UNCHANGED server
    BY <2>3 DEF Serve
  <2> QED  BY <1>1, <1>2, <1>3, <2>2, <2>4 DEF server
<1> QED  BY <1>4, <1>5

\* The requests behind one more leave-room are the old ones.
LEMMA LeaveBehind ==
  ASSUME SessionTypes, toServer' = IF connected THEN Append(toServer, Leave) ELSE toServer
  PROVE  \A i \in DOMAIN toServer' :
           ~IsJoin(toServer'[i]) \/ (i \in DOMAIN toServer /\ toServer'[i] = toServer[i])
<1>1. CASE connected
  <2>1. /\ toServer'[Len(toServer')] = Leave /\ Len(toServer') = Len(toServer) + 1
        /\ DOMAIN toServer' = 1..Len(toServer') /\ DOMAIN toServer = 1..Len(toServer)
        /\ Len(toServer) \in Nat
        /\ \A i \in DOMAIN toServer : toServer'[i] = toServer[i]
    <3>1. toServer \in Seq(ToServer) /\ Leave \in ToServer  BY MessageIs DEF SessionTypes
    <3>2. toServer' = Append(toServer, Leave)  BY <1>1
    <3> QED  BY <3>1, <3>2, AppendIs
  <2>2. \A i \in DOMAIN toServer' : i \in DOMAIN toServer \/ i = Len(toServer')  BY <2>1
  <2>3. ~IsJoin(toServer'[Len(toServer')])  BY <2>1, MessageIs
  <2> TAKE i \in DOMAIN toServer'
  <2>4. CASE i = Len(toServer')  BY <2>3, <2>4
  <2>5. CASE i \in DOMAIN toServer  BY <2>1, <2>5
  <2> QED  BY <2>2, <2>4, <2>5
<1>2. CASE ~connected  BY <1>2
<1> QED  BY <1>1, <1>2

LEMMA NeverStep ==
  ASSUME SessionInv, [Next]_vars
  PROVE  NeverAsked'
<1> USE DEF page, session, socket, server, counters, history
<1>0. NeverAsked /\ SessionTypes  BY DEF SessionInv
<1>1. CASE Render
  <2>1. /\ rendered'.pid = pid /\ UNCHANGED <<lastJoin, toClient, answering>>
    BY <1>1, RenderIs
  <2> SUFFICES ASSUME lastJoin = None PROVE NeverAsked'  BY <2>1 DEF NeverAsked
  <2>2. ~JoinedAlready  BY PayloadNow, <1>0 DEF JoinedAlready
  <2>3. \/ /\ rendered.pid = pid
           /\ UNCHANGED <<timer, joined, joining, toServer, left>>
        \/ /\ pid = 0
           /\ UNCHANGED <<joined, joining, toServer, left>>
        \/ /\ joined' = FALSE /\ joining' = TRUE /\ left' = TRUE /\ timer' # None
           /\ toServer' = IF connected THEN Append(toServer, Leave) ELSE toServer
    BY <1>0, <1>1, <2>2, RenderIs, PayloadNow
  <2>4. \A i \in DOMAIN toServer' : ~IsJoin(toServer'[i])
    BY <1>0, <2>3, LeaveBehind DEF NeverAsked
  <2>5. ~joined' /\ toClient' = <<>> /\ answering' = NoJoins
    BY <1>0, <2>1, <2>3 DEF NeverAsked
  <2>6. /\ joining' => left' /\ (timer' # None \/ rendered'.pid = 0)
        /\ rendered'.pid # 0 => joining'
    BY <1>0, <2>1, <2>3 DEF NeverAsked
  <2> QED  BY <2>4, <2>5, <2>6 DEF NeverAsked, NoJoins
<1>2. CASE TimerFires
  <2>1. lastJoin' # None  BY <1>0, <1>2, TimerIs
  <2> QED  BY <2>1 DEF NeverAsked
<1>3. CASE Connect
  <2>1. /\ toServer' = Greeting /\ UNCHANGED <<lastJoin, joined, toClient, answering, timer, rendered>>
        /\ joining' = (joining \/ lastJoin # None) /\ left' = (left /\ lastJoin = None)
    BY <1>3 DEF Connect
  <2>2. lastJoin = None => \A i \in DOMAIN toServer' : ~IsJoin(toServer'[i])
    BY <1>0, <2>1, GreetingIs
  <2> QED  BY <1>0, <2>1, <2>2 DEF NeverAsked, NoJoins
<1>4. CASE Disconnect
  <2>1. /\ joined' = FALSE /\ toServer' = <<>> /\ toClient' = <<>> /\ answering' = NoJoins
        /\ UNCHANGED <<lastJoin, joining, timer, rendered, left>>
    BY <1>4 DEF Disconnect
  <2> QED  BY <1>0, <2>1 DEF NeverAsked, NoJoins
<1>5. CASE UNCHANGED <<lastJoin, joined, joining, toServer, toClient, answering, timer, rendered, left>>
  BY <1>0, <1>5 DEF NeverAsked, NoJoins
<1>6. CASE OpenModal \/ CloseModal \/ LeaveButton \/ PeerLost \/ UrlLands
  BY <1>5, <1>6 DEF OpenModal, CloseModal, LeaveButton, Chosen, PeerLost, UrlLands
<1>7. CASE TakeAnswer
  <2>1. toClient # <<>> /\ lastJoin' = lastJoin  BY <1>7 DEF TakeAnswer
  <2> QED  BY <1>0, <2>1 DEF NeverAsked
<1>8. CASE Serve
  <2>1. /\ toServer' = Tail(toServer) /\ toServer \in Seq(ToServer) /\ toServer # <<>>
        /\ UNCHANGED <<lastJoin, joined, joining, toClient, timer, rendered, left>>
        /\ answering' = answering \/ IsJoin(Head(toServer))
    BY <1>0, <1>8, ServeIs
  <2>2. /\ 1 \in DOMAIN toServer /\ Head(toServer) = toServer[1]
        /\ \A i \in DOMAIN toServer' : i + 1 \in DOMAIN toServer /\ toServer'[i] = toServer[i + 1]
    BY <2>1, TailIs
  <2> QED  BY <1>0, <2>1, <2>2 DEF NeverAsked, NoJoins
<1>9. ASSUME NEW r \in Code, Submit(r) PROVE NeverAsked'  BY <1>5, <1>9 DEF Submit, Chosen
<1>10. ASSUME NEW new \in BOOLEAN, PeerOpens(new) PROVE NeverAsked'
  BY <1>5, <1>10 DEF PeerOpens
<1>11. ASSUME NEW r \in Room, Answer(r) PROVE NeverAsked'
  <2>1. answering[r] > 0 /\ lastJoin' = lastJoin  BY <1>11 DEF Answer
  <2> QED  BY <1>0, <2>1 DEF NeverAsked, NoJoins
<1>12. CASE UNCHANGED vars  BY <1>5, <1>12 DEF vars
<1> QED  BY <1>1, <1>2, <1>3, <1>4, <1>6, <1>7, <1>8, <1>9, <1>10, <1>11, <1>12 DEF Next

LEMMA UnderwayStep ==
  ASSUME SessionInv, [Next]_vars
  PROVE  Underway'
<1> USE DEF page, session, socket, server, counters, history
<1>0. /\ Underway /\ SessionTypes /\ Offline /\ NeverAsked
  BY DEF SessionInv
<1>u. AllHeard' => AllHeard  BY UpsetsGrow DEF AllHeard
<1> SUFFICES ASSUME AllHeard' PROVE Underway'  BY DEF Underway
<1>a. /\ connected /\ joining => Flying \/ (left /\ (timer # None \/ rendered.pid = 0))
      /\ \A i \in DOMAIN toServer : IsJoin(toServer[i]) => toServer[i].peer # 0
      /\ lastJoin # None => lastJoin.peer # 0
  BY <1>0, <1>u DEF Underway
<1>n. "skipped" \notin upsets' /\ "nameless" \notin upsets' /\ "deaf" \notin upsets'
  BY DEF AllHeard
<1>1. CASE Render
  <2>1. /\ rendered'.pid = pid /\ UNCHANGED <<connected, lastJoin, toClient, answering>>
    BY <1>1, RenderIs
  <2>2. \/ /\ rendered.pid = pid
           /\ UNCHANGED <<timer, joining, toServer, left>>
        \/ /\ pid # 0 => ~left
           /\ UNCHANGED <<joining, toServer, left>>
        \/ /\ left' = TRUE /\ timer' # None
           /\ toServer' = IF connected THEN Append(toServer, Leave) ELSE toServer
    BY <1>0, <1>1, <1>n, RenderIs, PayloadNow
  <2>3. \A i \in DOMAIN toServer' : IsJoin(toServer'[i]) => toServer'[i].peer # 0
    BY <1>0, <1>a, <2>2, LeaveBehind
  <2>4. ASSUME connected', joining'
        PROVE  Flying' \/ (left' /\ (timer' # None \/ rendered'.pid = 0))
    BY <1>a, <2>1, <2>2, <2>4 DEF Flying
  <2> QED  BY <1>a, <2>1, <2>3, <2>4 DEF Underway
<1>2. CASE TimerFires
  <2>1. /\ timer \in Payload /\ timer.peer # 0 /\ lastJoin' = timer
        /\ toServer' = IF connected THEN Append(toServer, Join(timer)) ELSE toServer
        /\ UNCHANGED <<connected, toClient, answering>>
    BY <1>0, <1>2, <1>n, TimerIs
  <2>2. CASE connected
    <3> DEFINE m == Join(timer)
    <3>1. m \in ToServer /\ IsJoin(m) /\ m.peer # 0  BY <2>1, MessageIs
    <3> HIDE DEF m
    <3>2. toServer' = Append(toServer, m) /\ toServer \in Seq(ToServer)
      BY <1>0, <2>1, <2>2 DEF m, SessionTypes
    <3>3. /\ toServer'[Len(toServer')] = m /\ Len(toServer') = Len(toServer) + 1
          /\ DOMAIN toServer' = 1..Len(toServer') /\ DOMAIN toServer = 1..Len(toServer)
          /\ Len(toServer) \in Nat
          /\ \A i \in DOMAIN toServer : toServer'[i] = toServer[i]
      BY <3>1, <3>2, AppendIs
    <3>4. \A i \in DOMAIN toServer' : i \in DOMAIN toServer \/ i = Len(toServer')  BY <3>3
    <3>5. Flying'
      <4>1. Len(toServer') \in DOMAIN toServer'  BY <3>3
      <4> QED  BY <3>1, <3>3, <4>1 DEF Flying
    <3>6. \A i \in DOMAIN toServer' : IsJoin(toServer'[i]) => toServer'[i].peer # 0
      BY <1>a, <3>1, <3>3, <3>4
    <3> QED  BY <2>1, <3>5, <3>6 DEF Underway
  <2>3. CASE ~connected  BY <1>a, <2>1, <2>3 DEF Underway
  <2> QED  BY <2>2, <2>3
<1>3. CASE Connect
  <2>1. /\ toServer' = Greeting /\ UNCHANGED <<lastJoin, toClient, answering, timer, rendered>>
        /\ joining' = (joining \/ lastJoin # None) /\ left' = (left /\ lastJoin = None)
    BY <1>3 DEF Connect
  <2>2. \A i \in DOMAIN toServer' : IsJoin(toServer'[i]) => toServer'[i].peer # 0
    <3>1. \A i \in DOMAIN toServer' :
            IsJoin(toServer'[i]) => lastJoin # None /\ toServer'[i] = Join(lastJoin)
      BY <1>0, <2>1, GreetingIs
    <3>2. lastJoin # None => Join(lastJoin).peer # 0
      BY <1>0, <1>a, MessageIs DEF SessionTypes
    <3> QED  BY <3>1, <3>2
  <2>3. ASSUME joining' PROVE Flying' \/ (left' /\ (timer' # None \/ rendered'.pid = 0))
    <3>1. CASE lastJoin = None  BY <1>0, <2>1, <2>3, <3>1 DEF NeverAsked
    <3>2. CASE lastJoin # None
      <4>1. PICK i \in DOMAIN toServer' : toServer'[i] = Join(lastJoin)
        BY <1>0, <2>1, <3>2, GreetingIs
      <4>2. IsJoin(Join(lastJoin)) /\ Join(lastJoin).peer # 0
        BY <1>0, <1>a, <3>2, MessageIs DEF SessionTypes
      <4> QED  BY <4>1, <4>2 DEF Flying
    <3> QED  BY <3>1, <3>2
  <2> QED  BY <1>a, <2>1, <2>2, <2>3 DEF Underway
<1>4. CASE Disconnect
  <2>1. connected' = FALSE /\ toServer' = <<>> /\ lastJoin' = lastJoin  BY <1>4 DEF Disconnect
  <2> QED  BY <1>a, <2>1 DEF Underway
<1>5. CASE UNCHANGED <<connected, lastJoin, joining, toServer, toClient, answering, timer, rendered, left>>
  BY <1>a, <1>5 DEF Underway, Flying
<1>6. CASE OpenModal \/ CloseModal \/ LeaveButton \/ PeerLost \/ UrlLands
  BY <1>5, <1>6 DEF OpenModal, CloseModal, LeaveButton, Chosen, PeerLost, UrlLands
<1>7. CASE TakeAnswer
  <2>1. /\ UNCHANGED <<toServer, lastJoin>>
        /\ joining' = FALSE \/ "deaf" \in upsets'
    BY <1>7 DEF TakeAnswer, Note, When
  <2> QED  BY <1>a, <1>n, <2>1 DEF Underway
<1>8. CASE Serve
  <2>1. /\ toServer' = Tail(toServer) /\ toServer \in Seq(ToServer) /\ toServer # <<>>
        /\ UNCHANGED <<connected, lastJoin, joining, toClient, timer, rendered, left>>
    BY <1>0, <1>8, ServeIs
  <2>2. /\ 1 \in DOMAIN toServer /\ Head(toServer) = toServer[1]
        /\ DOMAIN toServer = 1..Len(toServer) /\ DOMAIN toServer' = 1..Len(toServer')
        /\ Len(toServer) \in Nat \ {0} /\ Len(toServer') = Len(toServer) - 1
        /\ \A i \in DOMAIN toServer' : i + 1 \in DOMAIN toServer /\ toServer'[i] = toServer[i + 1]
    BY <2>1, TailIs
  <2>3. answering \in [Room -> Nat]  BY <1>0 DEF SessionTypes
  <2>4. Flying => Flying'
    <3>1. ASSUME NEW i \in DOMAIN toServer, IsJoin(toServer[i]), toServer[i].peer # 0
          PROVE  Flying'
      <4>1. CASE i = 1
        <5>1. /\ Head(toServer).room \in Room
              /\ answering' = [answering EXCEPT ![Head(toServer).room] = @ + 1]
          BY <1>0, <1>8, <2>2, <3>1, <4>1, ServeIs, MessageIs
        <5>2. answering'[Head(toServer).room] > 0  BY <2>3, <5>1
        <5> QED  BY <5>1, <5>2 DEF Flying
      <4>2. CASE i # 1
        <5>1. i - 1 \in DOMAIN toServer' /\ toServer'[i - 1] = toServer[i]  BY <2>2, <4>2
        <5> QED  BY <3>1, <5>1 DEF Flying
      <4> QED  BY <4>1, <4>2
    <3>2. ASSUME NEW r \in Room, answering[r] > 0 PROVE Flying'
      <4>1. \/ answering' = answering
            \/ \E q \in Room : answering' = [answering EXCEPT ![q] = @ + 1]
        BY <1>0, <1>8, ServeIs
      <4>2. answering'[r] > 0  BY <2>3, <3>2, <4>1
      <4> QED  BY <4>2 DEF Flying
    <3>3. toClient # <<>> => Flying'  BY <2>1 DEF Flying
    <3> QED  BY <3>1, <3>2, <3>3 DEF Flying
  <2> QED  BY <1>a, <2>1, <2>2, <2>4 DEF Underway
<1>9. ASSUME NEW r \in Code, Submit(r) PROVE Underway'  BY <1>5, <1>9 DEF Submit, Chosen
<1>10. ASSUME NEW new \in BOOLEAN, PeerOpens(new) PROVE Underway'
  BY <1>5, <1>10 DEF PeerOpens
<1>11. ASSUME NEW r \in Room, Answer(r) PROVE Underway'
  <2>1. /\ toClient' = Append(toClient, r) /\ UNCHANGED <<toServer, lastJoin>>
        /\ toClient \in Seq(Room)
    BY <1>0, <1>11 DEF Answer, SessionTypes
  <2>2. toClient' # <<>>  BY <2>1, AppendProperties, EmptySeq
  <2> QED  BY <1>a, <2>1, <2>2 DEF Underway, Flying
<1>12. CASE UNCHANGED vars  BY <1>5, <1>12 DEF vars
<1> QED  BY <1>1, <1>2, <1>3, <1>4, <1>6, <1>7, <1>8, <1>9, <1>10, <1>11, <1>12 DEF Next

LEMMA ServedStep ==
  ASSUME SessionInv, [Next]_vars
  PROVE  Served'
<1> USE DEF page, session, socket, server, counters, history
<1>0. Served /\ SessionTypes /\ Offline /\ LeftWaits  BY DEF SessionInv
<1>u. Straight' => Straight  BY UpsetsGrow DEF Straight
<1> SUFFICES ASSUME Straight' PROVE Served'  BY DEF Served
<1>a. /\ rooms = {dataRoom} \ {None}
      /\ Ordered(toServer, dataRoom)
      /\ connected /\ left => EndsLeft(toServer, dataRoom)
      /\ connected /\ ~left /\ lastJoin # None => EndsJoined(toServer, dataRoom, lastJoin)
      /\ timer # None => left
  BY <1>0, <1>u DEF Served, LeftWaits
<1>q. toServer \in Seq(ToServer)  BY <1>0 DEF SessionTypes
<1>1. CASE Render
  <2>1. /\ UNCHANGED <<connected, lastJoin, rooms, dataRoom>>
        /\ \/ UNCHANGED <<toServer, left>>
           \/ left' = TRUE /\ toServer' = IF connected THEN Append(toServer, Leave) ELSE toServer
    BY <1>1, RenderIs
  <2>2. CASE UNCHANGED <<toServer, left>>
    BY <1>a, <2>1, <2>2 DEF Served, Ordered, EndsLeft, EndsJoined, Leave, Join
  <2>3. CASE left' = TRUE /\ connected /\ toServer' = Append(toServer, Leave)
    <3>1. Ordered(toServer', dataRoom) /\ EndsLeft(toServer', dataRoom)
      BY <1>a, <1>q, <2>3, AppendLeave
    <3> QED  BY <1>a, <2>1, <2>3, <3>1 DEF Served, Ordered, EndsLeft, Leave
  <2>4. CASE left' = TRUE /\ ~connected /\ toServer' = toServer
    BY <1>a, <2>1, <2>4 DEF Served, Ordered, Leave
  <2> QED  BY <2>1, <2>2, <2>3, <2>4
<1>2. CASE TimerFires
  <2>1. /\ timer # None /\ left' = FALSE /\ lastJoin' \in Payload
        /\ toServer' = IF connected THEN Append(toServer, Join(lastJoin')) ELSE toServer
        /\ UNCHANGED <<connected, rooms, dataRoom>>
    BY <1>0, <1>2, TimerIs
  <2>2. CASE connected
    <3>1. Ordered(toServer', dataRoom) /\ EndsJoined(toServer', dataRoom, lastJoin')
      BY <1>a, <1>q, <2>1, <2>2, AppendJoin
    <3> QED  BY <1>a, <2>1, <2>2, <3>1 DEF Served, Ordered, EndsJoined, Leave, Join
  <2>3. CASE ~connected  BY <1>a, <2>1, <2>3 DEF Served, Ordered, Leave
  <2> QED  BY <2>2, <2>3
<1>3. CASE Connect
  <2>1. /\ ~connected /\ toServer' = Greeting /\ UNCHANGED <<lastJoin, rooms, dataRoom>>
        /\ left' = (left /\ lastJoin = None)
    BY <1>3 DEF Connect
  <2>2. rooms = {} /\ dataRoom = None  BY <1>0, <2>1 DEF Offline
  <2>3. /\ Ordered(Greeting, None)
        /\ lastJoin = None => EndsLeft(Greeting, None)
        /\ lastJoin # None => EndsJoined(Greeting, None, lastJoin)
    BY <1>0, GreetingIs
  <2>4. Ordered(toServer', dataRoom')  BY <2>1, <2>2, <2>3
  <2>5. connected' /\ left' => EndsLeft(toServer', dataRoom')  BY <2>1, <2>2, <2>3
  <2>6. lastJoin' # None => EndsJoined(toServer', dataRoom', lastJoin')
    BY <2>1, <2>2, <2>3
  <2> QED  BY <2>1, <2>2, <2>4, <2>5, <2>6 DEF Served, Ordered, EndsLeft, EndsJoined, Leave, Join
<1>4. CASE Disconnect
  <2>1. connected' = FALSE /\ toServer' = <<>> /\ rooms' = {} /\ dataRoom' = None
    BY <1>4 DEF Disconnect
  <2> QED  BY <2>1 DEF Served, Ordered
<1>5. CASE UNCHANGED <<connected, lastJoin, toServer, rooms, dataRoom, left>>
  BY <1>a, <1>5 DEF Served, Ordered, EndsLeft, EndsJoined, Leave, Join
<1>6. CASE OpenModal \/ CloseModal \/ LeaveButton \/ PeerLost \/ UrlLands \/ TakeAnswer
  BY <1>5, <1>6
     DEF OpenModal, CloseModal, LeaveButton, Chosen, PeerLost, UrlLands, TakeAnswer
<1>7. CASE Serve
  <2> DEFINE m == Head(toServer)
  <2>1. /\ toServer # <<>> /\ toServer' = Tail(toServer)
        /\ UNCHANGED <<connected, lastJoin, left>>
    BY <1>0, <1>7, ServeIs
  <2>2. ASSUME m = Leave PROVE Served'
    <3>1. rooms' = rooms \ {dataRoom} /\ dataRoom' = None
      BY <1>0, <1>7, <2>2, ServeIs, MessageIs
    <3>2. ~IsJoin(m)  BY <2>2, MessageIs
    <3>3. /\ Ordered(toServer', None)
          /\ EndsLeft(toServer, dataRoom) => EndsLeft(toServer', None)
          /\ \A join \in Payload :
               EndsJoined(toServer, dataRoom, join) => EndsJoined(toServer', None, join)
      BY <1>a, <1>q, <2>1, <3>2, TailOrdered
    <3>4. lastJoin # None => lastJoin \in Payload  BY <1>0 DEF SessionTypes
    <3>5. rooms' = {dataRoom'} \ {None}  BY <1>a, <3>1
    <3> HIDE DEF m
    <3> QED
      BY <1>a, <2>1, <3>1, <3>3, <3>4, <3>5
         DEF Served, Ordered, EndsLeft, EndsJoined, Leave, Join
  <2>3. ASSUME IsJoin(m), m \in ToServer, m.peer # 0 PROVE Served'
    <3>1. rooms' = rooms \cup {m.room} /\ dataRoom' = m.room /\ m.room \in Room
      BY <1>0, <1>7, <2>3, ServeIs, MessageIs
    <3>2. m # Leave  BY <2>3, MessageIs
    <3>3. /\ Ordered(toServer', dataRoom') /\ dataRoom = None
          /\ EndsLeft(toServer, dataRoom) => EndsLeft(toServer', dataRoom')
          /\ \A join \in Payload :
               EndsJoined(toServer, dataRoom, join) => EndsJoined(toServer', dataRoom', join)
      BY <1>a, <1>q, <2>1, <2>3, <3>1, <3>2, TailOrdered
    <3>4. lastJoin # None => lastJoin \in Payload  BY <1>0 DEF SessionTypes
    <3>5. rooms' = {dataRoom'} \ {None}  BY <1>a, <3>1, <3>3, Names
    <3> HIDE DEF m
    <3> QED
      BY <1>a, <2>1, <3>3, <3>4, <3>5
         DEF Served, Ordered, EndsLeft, EndsJoined, Leave, Join
  <2>4. IsJoin(m) => m.peer # 0
    <3>1. AllHeard  BY <1>u DEF Straight, AllHeard
    <3>2. 1 \in DOMAIN toServer /\ m = toServer[1]  BY <1>q, <2>1, TailIs
    <3> QED  BY <3>1, <3>2 DEF SessionInv, Underway
  <2> QED  BY <1>0, <1>7, <2>2, <2>3, <2>4, ServeIs
<1>8. ASSUME NEW r \in Code, Submit(r) PROVE Served'  BY <1>5, <1>8 DEF Submit, Chosen
<1>9. ASSUME NEW new \in BOOLEAN, PeerOpens(new) PROVE Served'
  BY <1>5, <1>9 DEF PeerOpens
<1>10. ASSUME NEW r \in Room, Answer(r) PROVE Served'  BY <1>5, <1>10 DEF Answer
<1>11. CASE UNCHANGED vars  BY <1>5, <1>11 DEF vars
<1> QED  BY <1>1, <1>2, <1>3, <1>4, <1>6, <1>7, <1>8, <1>9, <1>10, <1>11 DEF Next

LEMMA ListStep ==
  ASSUME SessionInv, [Next]_vars
  PROVE  ListIs'
<1> USE DEF page, session, socket, server, counters, history
<1>0. /\ ListIs /\ SessionTypes /\ LeftWaits
      /\ ~connected => ~joined
      /\ lastJoin = None => ~joined
  BY DEF SessionInv, Offline, NeverAsked
<1>u. Straight' => Straight  BY UpsetsGrow DEF Straight
<1> SUFFICES ASSUME Straight', joined' PROVE ListIs'  BY DEF ListIs
<1>a. joined => /\ listed # None /\ (~left \/ timer # None) => listed = AskedLast.room
                /\ listed = None => (timer # None => timer.peer # gen) /\ lastJoin.peer # gen
  BY <1>0, <1>u DEF ListIs
<1>l. timer # None => left  BY <1>0, <1>u DEF LeftWaits
<1>1. CASE Render
  <2>1. UNCHANGED <<gen, lastJoin>>  BY <1>1, RenderIs
  <2>2. /\ UNCHANGED <<joined, listed, left>>
        /\ timer' = timer \/ timer' = None
    BY <1>1, RenderIs
  <2>3. CASE timer' = timer  BY <1>a, <2>1, <2>2, <2>3 DEF ListIs, AskedLast
  <2>4. CASE timer' = None  BY <1>a, <1>l, <2>1, <2>2, <2>4 DEF ListIs, AskedLast
  <2> QED  BY <2>2, <2>3, <2>4
<1>2. CASE TimerFires
  <2>1. /\ timer # None /\ timer' = None /\ lastJoin' = timer
        /\ UNCHANGED <<gen, joined, listed>>
    BY <1>0, <1>2, TimerIs DEF Straight
  <2> QED  BY <1>a, <2>1 DEF ListIs, AskedLast
<1>3. CASE Connect \/ Disconnect
  <2>1. joined' = FALSE  BY <1>0, <1>3 DEF Connect, Disconnect
  <2> QED  BY <2>1
<1>4. CASE UNCHANGED <<joined, listed, left, timer, lastJoin, gen>>
  BY <1>a, <1>4 DEF ListIs, AskedLast
<1>5. CASE TakeAnswer
  <2>1. UNCHANGED <<left, timer, lastJoin, gen>>  BY <1>5 DEF TakeAnswer
  <2>2. /\ listed' = Head(toClient)
        /\ upsets' = upsets \cup When("late", Head(toClient) # roomCode)
                            \cup When("stray", Head(toClient) # AskedLast.room)
    <3>1. "deaf" \notin upsets'  BY DEF Straight
    <3>2. ~(upsets' = upsets \cup When("deaf", TRUE))  BY <3>1 DEF When
    <3> QED  BY <1>5, <3>2 DEF TakeAnswer, Note
  <2>3. "stray" \notin upsets'  BY DEF Straight
  <2>4. Head(toClient) = AskedLast.room  BY <2>2, <2>3 DEF When
  <2>5. Head(toClient) \in Room
    BY <1>0, <1>5, TailIs DEF TakeAnswer, SessionTypes
  <2>6. listed' # None  BY <2>2, <2>5, Names
  <2> QED  BY <2>1, <2>2, <2>4, <2>6 DEF ListIs, AskedLast
<1>6. ASSUME NEW new \in BOOLEAN, PeerOpens(new) PROVE ListIs'
  <2>1. /\ gen' = (IF new THEN gen + 1 ELSE gen) /\ listed' = IF new THEN None ELSE listed
        /\ UNCHANGED <<joined, left, timer, lastJoin>>
    BY <1>6 DEF PeerOpens
  <2>2. CASE ~new  BY <1>4, <2>1, <2>2
  <2>3. CASE new
    <3>1. gen' = gen + 1 /\ listed' = None /\ gen \in Nat  BY <1>0, <2>1, <2>3 DEF SessionTypes
    <3>2. lastJoin # None  BY <1>0, <2>1
    <3>3. lastJoin \in Payload /\ lastJoin.peer <= gen  BY <1>0, <3>2 DEF SessionTypes
    <3>4. timer # None => timer.peer \in 0..gen
      <4>1. rendered.pid \in 0..gen  BY <1>0 DEF SessionTypes
      <4>2. timer # None => timer = [peer |-> rendered.pid, room |-> rendered.room]
        BY <1>0 DEF SessionTypes
      <4> QED  BY <4>1, <4>2
    <3>5. lastJoin.peer # gen'  BY <3>1, <3>3 DEF Payload
    <3>6. timer # None => timer.peer # gen'  BY <3>1, <3>4
    <3> QED  BY <2>1, <3>1, <3>5, <3>6 DEF ListIs
  <2> QED  BY <2>2, <2>3
<1>7. CASE OpenModal \/ CloseModal \/ LeaveButton \/ PeerLost \/ UrlLands \/ Serve
  BY <1>4, <1>7 DEF OpenModal, CloseModal, LeaveButton, Chosen, PeerLost, UrlLands, Serve
<1>8. ASSUME NEW r \in Code, Submit(r) PROVE ListIs'  BY <1>4, <1>8 DEF Submit, Chosen
<1>9. ASSUME NEW r \in Room, Answer(r) PROVE ListIs'  BY <1>4, <1>9 DEF Answer
<1>10. CASE UNCHANGED vars  BY <1>4, <1>10 DEF vars
<1> QED  BY <1>1, <1>2, <1>3, <1>5, <1>6, <1>7, <1>8, <1>9, <1>10 DEF Next

LEMMA DialogStep ==
  ASSUME SessionInv, [Next]_vars
  PROVE  DialogWaits'
<1> USE DEF page, session, socket, server, counters, history
<1>0. DialogWaits /\ SessionTypes /\ AskedFor /\ LeftWaits  BY DEF SessionInv
<1>b. bounces' = bounces \/ bounces' # 0
  <2>1. bounces \in Nat  BY <1>0 DEF SessionTypes
  <2>2. CASE PeerLost  BY <2>1, <2>2 DEF PeerLost
  <2>3. CASE OpenModal \/ CloseModal \/ LeaveButton \/ UrlLands \/ Render \/ TimerFires
    BY <2>3 DEF OpenModal, CloseModal, LeaveButton, Chosen, UrlLands, Render, TimerFires
  <2>4. CASE Connect \/ Disconnect \/ TakeAnswer \/ Serve
    BY <2>4 DEF Connect, Disconnect, TakeAnswer, Serve
  <2>5. ASSUME NEW r \in Code, Submit(r) PROVE bounces' = bounces  BY <2>5 DEF Submit, Chosen
  <2>6. ASSUME NEW new \in BOOLEAN, PeerOpens(new) PROVE bounces' = bounces
    BY <2>6 DEF PeerOpens
  <2>7. ASSUME NEW r \in Room, Answer(r) PROVE bounces' = bounces  BY <2>7 DEF Answer
  <2>8. CASE UNCHANGED vars  BY <2>8 DEF vars
  <2> QED  BY <2>2, <2>3, <2>4, <2>5, <2>6, <2>7, <2>8 DEF Next
<1> SUFFICES ASSUME upsets' = {}, bounces' = 0 PROVE DialogWaits'  BY DEF DialogWaits
<1>a. /\ upsets = {} /\ bounces = 0
      /\ gen # 0 => pid = gen
      /\ rendered.pid = 0 => lastJoin = None
      /\ modal => gen # 0
      /\ modal /\ roomCode # Lan => ~joining /\ rendered.room = Lan
  <2>1. upsets = {}  BY UpsetsGrow
  <2> QED  BY <1>0, <1>b, <2>1 DEF DialogWaits
<1>1. CASE Render
  <2>1. /\ rendered'.pid = pid /\ rendered'.room = roomCode
        /\ UNCHANGED <<gen, pid, lastJoin>>
    BY <1>1, RenderIs
  <2>2. roomCode' = roomCode  BY <1>1 DEF Render, When
  <2>3. modal' = (modal /\ (joining \/ ~joining'))  BY <1>1 DEF Render, ModalEffect
  <2>4. ASSUME modal', roomCode # Lan PROVE FALSE
    <3>1. modal /\ pid # 0 /\ ~joining /\ rendered.room = Lan  BY <1>a, <2>3, <2>4
    <3>2. JoinedAlready /\ ~left
      BY <1>1, <1>a, <2>3, <2>4, <3>1, RenderIs
    <3>3. lastJoin = [peer |-> pid, room |-> roomCode]  BY <3>2 DEF JoinedAlready
    <3>4. rendered.pid # 0  BY <1>0, <1>a, <3>3, PayloadNow
    <3>5. timer = None  BY <1>0, <1>a, <3>2 DEF LeftWaits, Straight
    <3>6. lastJoin.room = rendered.room  BY <1>0, <1>a, <3>4, <3>5 DEF AskedFor
    <3>7. lastJoin.room = roomCode  BY <3>3
    <3> QED  BY <2>4, <3>1, <3>6, <3>7
  <2>5. rendered'.pid = 0 => lastJoin' = None
    <3>1. rendered.pid \in 0..gen /\ gen \in Nat  BY <1>0 DEF SessionTypes
    <3> QED  BY <1>a, <2>1, <3>1
  <2>6. modal' => modal  BY <2>3
  <2>7. /\ gen' # 0 => pid' = gen'
        /\ modal' => gen' # 0
    BY <1>a, <2>1, <2>6
  <2>8. ~(modal' /\ roomCode' # Lan)  BY <2>2, <2>4
  <2> QED  BY <2>5, <2>7, <2>8 DEF DialogWaits
<1>2. CASE TimerFires
  <2>1. /\ rendered.pid # 0
        /\ UNCHANGED <<roomCode, gen, pid, modal, rendered, joining>>
    BY <1>0, <1>2, TimerIs
  <2> QED  BY <1>a, <2>1 DEF DialogWaits
<1>3. CASE Connect
  <2>1. /\ joining' = (joining \/ lastJoin # None)
        /\ modal' = (modal /\ (joining \/ ~joining'))
        /\ UNCHANGED <<roomCode, gen, pid, rendered, lastJoin>>
    BY <1>3 DEF Connect, ModalEffect
  <2> QED  BY <1>a, <2>1 DEF DialogWaits
<1>4. CASE OpenModal \/ CloseModal
  <2>1. /\ UNCHANGED <<roomCode, gen, pid, rendered, lastJoin, joining>>
        /\ modal' = FALSE \/ (roomCode = Lan /\ gen # 0)
    BY <1>4 DEF OpenModal, CloseModal, Sees
  <2> QED  BY <1>a, <2>1 DEF DialogWaits
<1>5. CASE LeaveButton
  <2>1. UNCHANGED <<gen, pid, modal, rendered, lastJoin, joining>> /\ roomCode' = Lan
    BY <1>5 DEF LeaveButton, Chosen
  <2> QED  BY <1>a, <2>1 DEF DialogWaits
<1>6. ASSUME NEW r \in Code, Submit(r) PROVE DialogWaits'
  <2>1. /\ UNCHANGED <<gen, pid, modal, rendered, lastJoin, joining>>
        /\ rendered.room = roomCode /\ modal
        /\ upsets' = upsets \cup When("covered", joining)
    BY <1>6 DEF Submit, Chosen, Note, Sees
  <2>2. ~joining  BY <2>1 DEF When
  <2>3. rendered.room = Lan  BY <1>a, <2>1
  <2> QED  BY <1>a, <2>1, <2>2, <2>3 DEF DialogWaits
<1>7. ASSUME NEW new \in BOOLEAN, PeerOpens(new) PROVE DialogWaits'
  <2>1. /\ pid = 0 /\ (gen = 0 => new)
        /\ gen' = (IF new THEN gen + 1 ELSE gen) /\ pid' = gen'
        /\ UNCHANGED <<roomCode, modal, rendered, lastJoin, joining>>
    BY <1>7 DEF PeerOpens
  <2>2. gen = 0 /\ ~modal  BY <1>a, <2>1
  <2> QED  BY <1>a, <2>1, <2>2 DEF DialogWaits
<1>8. CASE PeerLost
  <2>1. bounces \in Nat /\ bounces' = bounces + 1  BY <1>0, <1>8 DEF PeerLost, SessionTypes
  <2> QED  BY <1>a, <2>1
<1>9. CASE UNCHANGED <<roomCode, gen, pid, modal, rendered, lastJoin, joining>>
  BY <1>a, <1>9 DEF DialogWaits
<1>10. CASE TakeAnswer
  <2>1. UNCHANGED <<gen, pid, modal, rendered, lastJoin>>  BY <1>10 DEF TakeAnswer
  <2>2. UNCHANGED <<roomCode, joining>> \/ (roomCode' = roomCode /\ joining' = FALSE)
    BY <1>10 DEF TakeAnswer, When
  <2> QED  BY <1>a, <2>1, <2>2 DEF DialogWaits
<1>11. CASE UrlLands \/ Disconnect \/ Serve
  BY <1>9, <1>11 DEF UrlLands, Disconnect, Serve
<1>12. ASSUME NEW r \in Room, Answer(r) PROVE DialogWaits'  BY <1>9, <1>12 DEF Answer
<1>13. CASE UNCHANGED vars  BY <1>9, <1>13 DEF vars
<1> QED
  BY <1>1, <1>2, <1>3, <1>4, <1>5, <1>6, <1>7, <1>8, <1>10, <1>11, <1>12, <1>13 DEF Next

LEMMA SessionInvHolds == Spec => []SessionInv
<1>1. SessionInv /\ [Next]_vars => SessionInv'
  <2> SUFFICES ASSUME SessionInv, [Next]_vars PROVE SessionInv'  OBVIOUS
  <2>1. SessionTypes' /\ UrlFollows' /\ Offline'  BY TypesStep, UrlStep, OfflineStep
  <2>2. NeverAsked' /\ OneOfTwo' /\ Underway'  BY NeverStep, OneStep, UnderwayStep
  <2>3. AskedFor' /\ LeftWaits' /\ Served'  BY AskedStep, LeftStep, ServedStep
  <2>4. ListIs' /\ DialogWaits'  BY ListStep, DialogStep
  <2> QED  BY <2>1, <2>2, <2>3, <2>4 DEF SessionInv
<1> QED  BY <1>1, SessionInitInv, PTL DEF Spec

-----------------------------------------------------------------------------
(* The properties *)

\* What is known when nothing is on its way.
LEMMA AtRest ==
  ASSUME SessionInv, Quiet
  PROVE  /\ connected /\ pid # 0 /\ pid = gen /\ timer = None /\ nav = None
         /\ rendered.room = roomCode /\ rendered.url = url /\ rendered.pid = pid
         /\ toServer = <<>> /\ ~Flying
<1>1. /\ connected /\ pid # 0 /\ timer = None /\ nav = None /\ rendered = Now
      /\ toServer = <<>> /\ toClient = <<>> /\ answering = NoJoins
  BY DEF Quiet
<1>2. pid = gen  BY <1>1 DEF SessionInv, SessionTypes
<1>3. rendered.room = roomCode /\ rendered.url = url /\ rendered.pid = pid  BY <1>1 DEF Now
<1>4. ~Flying  BY <1>1 DEF Flying, NoJoins
<1> QED  BY <1>1, <1>2, <1>3, <1>4

\* At rest the URL has the room's code, and the page says that it has joined or is
\* joining; it has joined, unless the join was not made or its answer not heard.
THEOREM SessionPage == Spec => []PageAgrees
<1>1. SessionInv => PageAgrees
  <2> SUFFICES ASSUME SessionInv, Quiet
               PROVE  /\ url = roomCode
                      /\ joined = ~joining
                      /\ upsets \cap {"skipped", "nameless", "deaf"} = {} => joined
    BY DEF PageAgrees
  <2>1. url = roomCode
    <3>1. nav # roomCode  BY AtRest, Names DEF SessionInv, SessionTypes
    <3> QED  BY <3>1, AtRest DEF SessionInv, UrlFollows
  <2>2. joined <=> ~joining  BY AtRest DEF SessionInv, OneOfTwo, NeverAsked
  <2>3. joined \in BOOLEAN /\ joining \in BOOLEAN  BY DEF SessionInv, SessionTypes
  <2>4. joined = ~joining  BY <2>2, <2>3
  <2>5. AllHeard => ~joining  BY AtRest DEF SessionInv, Underway
  <2> QED  BY <2>1, <2>2, <2>4, <2>5 DEF AllHeard
<1> QED  BY <1>1, SessionInvHolds, PTL

\* At rest the list and the server's rooms are those of the page's room, unless an
\* answer strayed or a join was skipped, refused, not heard or replayed next to another.
THEOREM SessionRoom == Spec => []RoomAgrees
<1>1. SessionInv => RoomAgrees
  <2> SUFFICES ASSUME SessionInv, Quiet, Straight
               PROVE  listed = roomCode /\ rooms = {roomCode}
    BY DEF RoomAgrees, Straight
  <2>1. lastJoin = [peer |-> pid, room |-> roomCode] /\ lastJoin # None
    BY AtRest, PayloadNow DEF SessionInv, AskedFor, Straight
  <2>2. lastJoin.room = roomCode /\ lastJoin.peer = gen  BY <2>1, AtRest
  <2>3. ~left  BY AtRest DEF SessionInv, LeftWaits
  <2>4. joined
    <3>1. AllHeard  BY DEF Straight, AllHeard
    <3>2. ~joining  BY <2>3, <3>1, AtRest DEF SessionInv, Underway
    <3> QED  BY <2>1, <3>2, AtRest DEF SessionInv, OneOfTwo
  <2>5. listed = roomCode
    <3>1. listed # None  BY <2>2, <2>4 DEF SessionInv, ListIs
    <3> QED  BY <2>2, <2>3, <2>4, <3>1, AtRest DEF SessionInv, ListIs, AskedLast
  <2>6. rooms = {roomCode}
    <3>1. dataRoom = roomCode
      BY <2>1, <2>2, <2>3, AtRest DEF SessionInv, Served, EndsJoined
    <3>2. roomCode # None  BY Names DEF SessionInv, SessionTypes
    <3> QED  BY <3>1, <3>2 DEF SessionInv, Served
  <2> QED  BY <2>5, <2>6
<1> QED  BY <1>1, SessionInvHolds, PTL

\* The state has its types, and no dialog is left over a room that was entered.
THEOREM SessionDialog == Spec => []DialogSound
<1>1. SessionInv => ModalCloses
  <2> SUFFICES ASSUME SessionInv, Quiet, modal, upsets = {}, ~(bounces > 0)
               PROVE  roomCode = Lan
    BY DEF ModalCloses
  <2>1. bounces = 0
    <3>1. bounces \in Nat  BY DEF SessionInv, SessionTypes
    <3> QED  BY <3>1
  <2> QED  BY <2>1, AtRest DEF SessionInv, DialogWaits
<1>2. SessionInv => TypeOK
  <2> SUFFICES ASSUME SessionTypes PROVE TypeOK  BY DEF SessionInv
  <2>1. \A i \in DOMAIN toServer :
          toServer[i] \in {Leave} \cup {Join(p) : p \in [peer : 0..gen, room : Room]}
    <3> SUFFICES ASSUME NEW i \in DOMAIN toServer, toServer[i] # Leave
                 PROVE  \E p \in [peer : 0..gen, room : Room] : toServer[i] = Join(p)
      OBVIOUS
    <3>1. toServer[i] \in ToServer /\ toServer[i].peer <= gen /\ gen \in Nat
      BY DEF SessionTypes
    <3>2. PICK p \in Payload : toServer[i] = Join(p)  BY <3>1, MessageIs
    <3>3. p.peer <= gen  BY <3>1, <3>2, MessageIs
    <3>4. p \in [peer : 0..gen, room : Room]  BY <3>1, <3>3 DEF Payload
    <3> QED  BY <3>2, <3>4
  <2>2. timer \in Payload \cup {None}
    <3>1. CASE timer # None
      <4>1. /\ timer = [peer |-> rendered.pid, room |-> rendered.room]
            /\ rendered.pid \in Nat /\ rendered.room \in Room
        BY <3>1 DEF SessionTypes
      <4> QED  BY <4>1 DEF Payload
    <3> QED  BY <3>1
  <2>3. {modal, connected, buffered, joined, joining, listening, left} \subseteq BOOLEAN
    BY DEF SessionTypes
  <2>4. lastJoin \in Payload \cup {None}  BY DEF SessionTypes
  <2> QED  BY <2>1, <2>2, <2>3, <2>4 DEF SessionTypes, TypeOK
<1> QED  BY <1>1, <1>2, SessionInvHolds, PTL DEF DialogSound
=============================================================================
