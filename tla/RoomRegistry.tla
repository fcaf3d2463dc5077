---------------------------- MODULE RoomRegistry ----------------------------
(***************************************************************************)
(* The signalling server's room registry: the socket.io handlers of        *)
(* back/src/signal/signal.gateway.ts over the Redis hash that              *)
(* back/src/redis/redis.service.ts keeps per room (socket id -> peer id).  *)
(*                                                                         *)
(* Node runs one callback at a time, so a handler is atomic between two    *)
(* awaits of a Redis command.  One step of this module executes one        *)
(* command and runs the handler up to the next one; handlers of different  *)
(* sockets, and those of one socket, two of one kind too, interleave       *)
(* between those steps.  The in-memory adapter of socket.io (join, leave,  *)
(* fetchSockets) answers in the same turn of the event loop.               *)
(*                                                                         *)
(* Clients read the events a socket delivers in the order they were        *)
(* emitted, and nothing they do here depends on when they read them, so    *)
(* view[s] is what the client of s lists once it has read everything       *)
(* emitted to it so far.                                                   *)
(*                                                                         *)
(* A definition marked "a slip" is the next one with a mistake in it.  No  *)
(* other definition uses it: put in its place, it shows what a property    *)
(* catches.                                                                *)
(***************************************************************************)
EXTENDS Naturals, Sequences, FiniteSets, SequencesExt

CONSTANTS
  Socket,     \* socket.io connections, each used once; a reconnect is a new one
  Room,       \* room ids: "room:CODE" or the hash of an address
  Peer,       \* PeerJS ids
  None,       \* undefined / null
  IpRoom,     \* IpRoom[s]: the room named by the hashed address of s
  Ids,        \* Ids[s]: the peer ids the browser behind s may present
  Pipelined,  \* TRUE: Redis runs commands in the order they were issued
  Serial,     \* TRUE: a join-room finds the leave-room before it done, and a
              \* leave-room the join-room before it
  MaxJoins,   \* bound: join-room messages per socket
  MaxLanes,   \* bound: handlers of one kind in flight at once for a socket
  MaxBusy,    \* bound: handlers in flight at once
  MaxFaults,  \* bound: faults in a behaviour
  Faults      \* which faults may happen

ASSUME SocketAssumption == IsFiniteSet(Socket)
ASSUME NoneAssumption == None \notin Room \cup Peer
ASSUME RoomAssumption == IpRoom \in [Socket -> Room]
ASSUME IdsAssumption == Ids \in [Socket -> SUBSET Peer]
ASSUME ModeAssumption == Pipelined \in BOOLEAN /\ Serial \in BOOLEAN
ASSUME BoundAssumption == MaxJoins \in Nat /\ MaxBusy \in Nat /\ MaxFaults \in Nat
ASSUME LaneAssumption == MaxLanes \in Nat \ {0}
ASSUME FaultsAssumption == Faults \subseteq {"fail", "expire", "restart"}

VARIABLES
  redis,     \* redis[r][s]: the peer id stored under s in the hash of room r
  adapter,   \* adapter[s]: the socket.io rooms s is in
  dataRoom,  \* dataRoom[s]: socket.data.roomId
  conn,      \* conn[s]: "new", "up" or "down"
  pc,        \* pc[h]: the Redis command handler h waits for, or "idle"
  loc,       \* loc[h]: the handler's locals
  rm,        \* rm[h][d]: the command a removeClient(_, d) of h waits for
  pipe,      \* commands issued and not yet executed, oldest first
  self,      \* self[s]: the peer id in the last join-room of s
  want,      \* want[s]: the room the client of s asked for last and has not left
  joined,    \* joined[s]: the client of s has been told join-success for it
  view,      \* view[s]: the target peers the client of s lists
  joins,     \* joins[s]: join-room messages sent on s
  faults,    \* faults so far
  excused    \* sockets whose registration a named event has spoilt: it joined without
             \* leaving, its requests overlapped, it closed before its entry was stored,
             \* a command of it was rejected, its entry was lost with the hash (a history
             \* variable: no guard reads it)

vars == <<redis, adapter, dataRoom, conn, pc, loc, rm, pipe, self, want, joined,
          view, joins, faults, excused>>

-----------------------------------------------------------------------------
(* Handlers and their commands.                                            *)

\* A message whose kind is still being handled for its socket starts another handler
\* beside it, in a lane of its own; a socket closes once.  One alone runs in lane 1.
Handler ==
  (Socket \X {"join", "leave"} \X (1..MaxLanes)) \cup (Socket \X {"disconnect"} \X {1})
J(s) == <<s, "join", 1>>
L(s) == <<s, "leave", 1>>
D(s) == <<s, "disconnect", 1>>

\* The command <<h, d>> is the one h waits for about the entry of socket d;
\* the commands of the handler's own line are those about its own socket.
Command == Handler \X Socket
Own(h) == <<h, h[1]>>

PcOf == {"idle", "hexists", "hset", "expire", "hgetall", "hget", "remove", "check"}
RmOf == {"none", "hdel", "hlen", "del"}

NoLocals == [room |-> None, peer |-> None, seen |-> {}]
Locals == [room : Room \cup {None}, peer : Peer \cup {None}, seen : SUBSET Peer]
NoRemoval == [d \in Socket |-> "none"]
NoEntry == [s \in Socket |-> None]

Busy(h) == pc[h] # "idle" \/ rm[h] # NoRemoval
MayStart == Cardinality({h \in Handler : Busy(h)}) < MaxBusy
Running(s, kind) == \E h \in Handler : h[1] = s /\ h[2] = kind /\ Busy(h)
\* The first lane that is free.
First(h) == ~Busy(h) /\ \A lane \in 1..MaxLanes : lane < h[3] => Busy(<<h[1], h[2], lane>>)
Entries(r) == {s \in Socket : redis[r][s] # None}
\* isPeerStillInRoom asks for the peers that HGETALL returns.
AlwaysGone(r) == {}   \* a slip: peer-left without looking
PeersIn(r) == {redis[r][s] : s \in Entries(r)}
\* cleanDeadPeers: entries whose socket is not in the adapter's room.
NoneDead(r) == {}   \* a slip: no entry is dead
AllDead(r) == Entries(r)   \* a slip: fetchSockets asked in another room
Dead(r) == {d \in Entries(r) : r \notin adapter[d]}
\* The room handleDisconnect works on, with the address room as a fallback.
ClosingRoom(s) == IF dataRoom[s] = None THEN IpRoom[s] ELSE dataRoom[s]

\* HSET (HDEL with None) and DEL on the hash of a room, and the next command of a
\* removal.
Put(r, s, p) == [redis EXCEPT ![r][s] = p]
Cleared(r) == [redis EXCEPT ![r] = NoEntry]
Removing(h, d, cmd) == [rm EXCEPT ![h][d] = cmd]

\* ioredis sends commands over one connection and Redis answers in order.
Turn(c) == Pipelined => Len(pipe) > 0 /\ Head(pipe) = c
Issue(c) == pipe' = IF Pipelined THEN Append(pipe, c) ELSE pipe
Reissue(next) == pipe' = IF Pipelined THEN Tail(pipe) \o next ELSE pipe

\* peer-joined and peer-left, emitted to every socket of a room; a client
\* ignores its own id in peer-joined.
ToldJoined(r, p) ==
  [m \in Socket |-> IF r \in adapter[m] /\ self[m] # p THEN view[m] \cup {p} ELSE view[m]]
LeftUnheard(r, p) == view   \* a slip: peer-left goes to the wrong room
LeftClearsAll(r, p) ==   \* a slip: peer-left drops every peer
  [m \in Socket |-> IF r \in adapter[m] THEN {} ELSE view[m]]
ToldLeft(r, p) ==
  [m \in Socket |-> IF r \in adapter[m] THEN view[m] \ {p} ELSE view[m]]

-----------------------------------------------------------------------------
Init ==
  /\ redis = [r \in Room |-> NoEntry]
  /\ adapter = [s \in Socket |-> {}]
  /\ dataRoom = [s \in Socket |-> None]
  /\ conn = [s \in Socket |-> "new"]
  /\ pc = [h \in Handler |-> "idle"]
  /\ loc = [h \in Handler |-> NoLocals]
  /\ rm = [h \in Handler |-> NoRemoval]
  /\ pipe = <<>>
  /\ self = [s \in Socket |-> None]
  /\ want = [s \in Socket |-> None]
  /\ joined = [s \in Socket |-> FALSE]
  /\ view = [s \in Socket |-> {}]
  /\ joins = [s \in Socket |-> 0]
  /\ faults = 0
  /\ excused = {}

(* handleConnection only touches the statistics.                           *)
Connect(s) ==
  /\ conn[s] = "new"
  /\ conn' = [conn EXCEPT ![s] = "up"]
  /\ UNCHANGED <<redis, adapter, dataRoom, pc, loc, rm, pipe, self, want, joined,
                 view, joins, faults, excused>>

(***************************************************************************)
(* join-room arrives.  The handler records the room, joins the adapter's   *)
(* room and issues HEXISTS.  Nothing asks whether the socket is in another *)
(* room already, and a client does send two in a row: a leave-room emitted *)
(* while it is disconnected goes out first, the connect handler then asks  *)
(* for the old room again, and the pending timer for the new one.  The     *)
(* socket is in both rooms from then on, and data.roomId names the last.   *)
(***************************************************************************)
JoinRoom(h, r, p) ==
  LET s == h[1] IN
  /\ h[2] = "join" /\ conn[s] = "up" /\ First(h)
  /\ joins[s] < MaxJoins /\ MayStart
  /\ Serial => ~Running(s, "leave")
  /\ joins' = [joins EXCEPT ![s] = @ + 1]
  /\ self' = [self EXCEPT ![s] = p]
  /\ want' = [want EXCEPT ![s] = r]
  /\ joined' = [joined EXCEPT ![s] = FALSE]
  /\ dataRoom' = [dataRoom EXCEPT ![s] = r]
  /\ adapter' = [adapter EXCEPT ![s] = @ \cup {r}]
  /\ pc' = [pc EXCEPT ![h] = "hexists"]
  /\ loc' = [loc EXCEPT ![h] = [room |-> r, peer |-> p, seen |-> {}]]
  /\ Issue(Own(h))
  /\ excused' = IF want[s] # None \/ Running(s, "leave") THEN excused \cup {s} ELSE excused
  /\ UNCHANGED <<redis, conn, rm, view, faults>>

(* addPeer: an entry that is already there is kept as it is.               *)
HExists(h) ==
  LET s == h[1] IN
  /\ pc[h] = "hexists"
  /\ Turn(Own(h))
  /\ pc' = [pc EXCEPT ![h] = IF redis[loc[h].room][s] = None THEN "hset" ELSE "hgetall"]
  /\ Reissue(<<Own(h)>>)
  /\ UNCHANGED <<redis, adapter, dataRoom, conn, loc, rm, self, want, joined, view,
                 joins, faults, excused>>

HSet(h) ==
  LET s == h[1] IN
  /\ pc[h] = "hset"
  /\ Turn(Own(h))
  /\ redis' = Put(loc[h].room, s, loc[h].peer)
  /\ pc' = [pc EXCEPT ![h] = "expire"]
  /\ Reissue(<<Own(h)>>)
  /\ UNCHANGED <<adapter, dataRoom, conn, loc, rm, self, want, joined, view, joins,
                 faults, excused>>

Expire(h) ==
  /\ pc[h] = "expire"
  /\ Turn(Own(h))
  /\ pc' = [pc EXCEPT ![h] = "hgetall"]
  /\ Reissue(<<Own(h)>>)
  /\ UNCHANGED <<redis, adapter, dataRoom, conn, loc, rm, self, want, joined, view,
                 joins, faults, excused>>

\* The end of handleJoinRoom: peer-joined to the room, then join-success to the
\* socket, whose client keeps exactly the peers listed in it.
AnnounceToTheLonely(h, seen) ==   \* a slip: join-success only without peers
  LET s == h[1]
      r == loc[h].room
      told == conn[s] = "up" /\ seen = {}
  IN
  /\ view' = [ToldJoined(r, loc[h].peer) EXCEPT ![s] = IF told THEN seen \ {self[s]} ELSE @]
  /\ joined' = [joined EXCEPT ![s] = @ \/ (told /\ want[s] = r)]
  /\ pc' = [pc EXCEPT ![h] = "idle"]
  /\ loc' = [loc EXCEPT ![h] = NoLocals]
Announce(h, seen) ==
  LET s == h[1]
      r == loc[h].room
      p == loc[h].peer
      told == conn[s] = "up"
  IN
  /\ view' = [ToldJoined(r, p) EXCEPT ![s] = IF told THEN seen \ {self[s]} ELSE @]
  /\ joined' = [joined EXCEPT ![s] = @ \/ (told /\ want[s] = r)]
  /\ pc' = [pc EXCEPT ![h] = "idle"]
  /\ loc' = [loc EXCEPT ![h] = NoLocals]

(***************************************************************************)
(* HGETALL and cleanDeadPeers: entries of sockets that are in the          *)
(* adapter's room give the active peers, the others are removed together.  *)
(***************************************************************************)
HGetAll(h) ==
  LET r == loc[h].room
      dead == Dead(r)
      seen == {redis[r][d] : d \in Entries(r) \ dead} \ {loc[h].peer}
  IN
  /\ pc[h] = "hgetall"
  /\ Turn(Own(h))
  /\ IF dead = {}
       THEN /\ Announce(h, seen)
            /\ Reissue(<<>>)
            /\ UNCHANGED rm
       ELSE /\ pc' = [pc EXCEPT ![h] = "remove"]
            /\ loc' = [loc EXCEPT ![h].seen = seen]
            /\ rm' = [rm EXCEPT ![h] = [d \in Socket |-> IF d \in dead THEN "hdel" ELSE "none"]]
            /\ \E order \in SetToSeqs(dead) :
                 Reissue([i \in 1..Len(order) |-> <<h, order[i]>>])
            /\ UNCHANGED <<view, joined>>
  /\ UNCHANGED <<redis, adapter, dataRoom, conn, self, want, joins, faults, excused>>

(***************************************************************************)
(* leave-room arrives; the client has already dropped its target peers.    *)
(* Without a recorded room the handler returns at once.                    *)
(***************************************************************************)
LeaveRoom(h) ==
  LET s == h[1] IN
  /\ h[2] = "leave" /\ conn[s] = "up" /\ First(h)
  /\ MayStart
  /\ Serial => ~Running(s, "join")
  /\ want' = [want EXCEPT ![s] = None]
  /\ joined' = [joined EXCEPT ![s] = FALSE]
  /\ view' = [view EXCEPT ![s] = {}]
  /\ IF dataRoom[s] = None
       THEN UNCHANGED <<pc, loc, pipe>>
       ELSE /\ pc' = [pc EXCEPT ![h] = "hget"]
            /\ loc' = [loc EXCEPT ![h] = [room |-> dataRoom[s], peer |-> None, seen |-> {}]]
            /\ Issue(Own(h))
  /\ excused' = IF Running(s, "join") \/ (Running(s, "leave") /\ dataRoom[s] # None)
                THEN excused \cup {s} ELSE excused
  /\ UNCHANGED <<redis, adapter, dataRoom, conn, rm, self, joins, faults>>

(***************************************************************************)
(* The socket closes: socket.io takes it out of its rooms, then            *)
(* handleDisconnect runs, falling back to the address room.                *)
(***************************************************************************)
Disconnect(s) ==
  LET h == D(s)
      r == ClosingRoom(s)
  IN
  /\ conn[s] = "up" /\ MayStart
  /\ conn' = [conn EXCEPT ![s] = "down"]
  /\ adapter' = [adapter EXCEPT ![s] = {}]
  /\ want' = [want EXCEPT ![s] = None]
  /\ joined' = [joined EXCEPT ![s] = FALSE]
  /\ view' = [view EXCEPT ![s] = {}]
  /\ pc' = [pc EXCEPT ![h] = "hget"]
  /\ loc' = [loc EXCEPT ![h] = [room |-> r, peer |-> None, seen |-> {}]]
  /\ Issue(Own(h))
  /\ excused' = IF Running(s, "join") /\ (Pipelined => redis[r][s] = None)
              THEN excused \cup {s} ELSE excused
  /\ UNCHANGED <<redis, dataRoom, rm, self, joins, faults>>

(* getClient, in handleLeaveRoom and handleDisconnect.                     *)
HGet(h) ==
  LET s == h[1] IN
  /\ pc[h] = "hget"
  /\ Turn(Own(h))
  /\ loc' = [loc EXCEPT ![h].peer = redis[loc[h].room][s]]
  /\ pc' = [pc EXCEPT ![h] = "remove"]
  /\ rm' = Removing(h, s, "hdel")
  /\ Reissue(<<Own(h)>>)
  /\ UNCHANGED <<redis, adapter, dataRoom, conn, self, want, joined, view, joins,
                 faults, excused>>

-----------------------------------------------------------------------------
(* removeClient: HDEL, HLEN, and DEL when HLEN answered 0.                 *)

HDel(h, d) ==
  /\ rm[h][d] = "hdel"
  /\ Turn(<<h, d>>)
  /\ redis' = Put(loc[h].room, d, None)
  /\ rm' = Removing(h, d, "hlen")
  /\ Reissue(<<<<h, d>>>>)
  /\ UNCHANGED <<adapter, dataRoom, conn, pc, loc, self, want, joined, view, joins,
                 faults, excused>>

\* What follows the awaited removals: the rest of handleJoinRoom, the
\* bookkeeping of handleLeaveRoom, or the check for another socket of the peer.
AfterRemovals(h) ==
  LET s == h[1]
      r == loc[h].room
      told == loc[h].peer # None
      next == [pc EXCEPT ![h] = IF told THEN "check" ELSE "idle"]
      kept == [loc EXCEPT ![h] = IF told THEN @ ELSE NoLocals]
  IN
  \/ /\ h[2] = "join"
     /\ Announce(h, loc[h].seen)
     /\ Reissue(<<>>)
     /\ UNCHANGED <<adapter, dataRoom>>
  \/ /\ h[2] = "leave"
     /\ adapter' = [adapter EXCEPT ![s] = @ \ {r}]
     /\ dataRoom' = [dataRoom EXCEPT ![s] = None]
     /\ pc' = next
     /\ loc' = kept
     /\ Reissue(IF told THEN <<Own(h)>> ELSE <<>>)
     /\ UNCHANGED <<view, joined>>
  \/ /\ h[2] = "disconnect"
     /\ pc' = next
     /\ loc' = kept
     /\ Reissue(IF told THEN <<Own(h)>> ELSE <<>>)
     /\ UNCHANGED <<adapter, dataRoom, view, joined>>

\* A removal of h has run its last command.
Removed(h, d) ==
  LET left == [rm[h] EXCEPT ![d] = "none"] IN
  /\ rm' = [rm EXCEPT ![h] = left]
  /\ IF left = NoRemoval /\ pc[h] = "remove"
       THEN AfterRemovals(h)
       ELSE /\ Reissue(<<>>)
            /\ loc' = [loc EXCEPT ![h] =
                         IF left = NoRemoval /\ pc[h] = "idle" THEN NoLocals ELSE @]
            /\ UNCHANGED <<adapter, dataRoom, pc, view, joined>>

HLen(h, d) ==
  /\ rm[h][d] = "hlen"
  /\ Turn(<<h, d>>)
  /\ IF Entries(loc[h].room) = {}
       THEN /\ rm' = Removing(h, d, "del")
            /\ Reissue(<<<<h, d>>>>)
            /\ UNCHANGED <<adapter, dataRoom, pc, loc, view, joined>>
       ELSE Removed(h, d)
  /\ UNCHANGED <<redis, conn, self, want, joins, faults, excused>>

Del(h, d) ==
  /\ rm[h][d] = "del"
  /\ Turn(<<h, d>>)
  /\ redis' = Cleared(loc[h].room)
  /\ excused' = excused \cup Entries(loc[h].room)
  /\ Removed(h, d)
  /\ UNCHANGED <<conn, self, want, joins, faults>>

(* isPeerStillInRoom, and peer-left when no other socket has the peer.     *)
Check(h) ==
  LET r == loc[h].room
      p == loc[h].peer
  IN
  /\ pc[h] = "check"
  /\ Turn(Own(h))
  /\ view' = IF p \in PeersIn(r) THEN view ELSE ToldLeft(r, p)
  /\ pc' = [pc EXCEPT ![h] = "idle"]
  /\ loc' = [loc EXCEPT ![h] = NoLocals]
  /\ Reissue(<<>>)
  /\ UNCHANGED <<redis, adapter, dataRoom, conn, rm, self, want, joined, joins,
                 faults, excused>>

-----------------------------------------------------------------------------
(* Faults.                                                                 *)

\* A Redis command is rejected, with or without having been executed on the
\* hash; the handler logs the error and ends.  The other removals that
\* cleanDeadPeers started go on.
Fail(h, d) ==
  LET r == loc[h].room
      own == d = h[1] /\ pc[h] \notin {"idle", "remove"}
      removal == rm[h][d] # "none"
      left == [rm[h] EXCEPT ![d] = "none"]
  IN
  /\ "fail" \in Faults /\ faults < MaxFaults
  /\ own \/ removal
  /\ Turn(<<h, d>>)
  /\ faults' = faults + 1
  /\ \/ UNCHANGED redis
     \/ /\ own /\ pc[h] = "hset"
        /\ redis' = Put(r, d, loc[h].peer)
     \/ /\ removal /\ rm[h][d] = "hdel"
        /\ redis' = Put(r, d, None)
     \/ /\ removal /\ rm[h][d] = "del"
        /\ redis' = Cleared(r)
  /\ pc' = [pc EXCEPT ![h] = "idle"]
  /\ rm' = [rm EXCEPT ![h] = left]
  /\ loc' = [loc EXCEPT ![h] = IF left = NoRemoval THEN NoLocals ELSE @]
  /\ Reissue(<<>>)
  /\ excused' = excused \cup {h[1], d} \cup (IF rm[h][d] = "del" THEN Entries(r) ELSE {})
  /\ UNCHANGED <<adapter, dataRoom, conn, self, want, joined, view, joins>>

(* EXPIRE runs out, ROOM_TTL_SECONDS after the last addPeer of the room:    *)
(* not within the few milliseconds of a join that has just renewed it.     *)
RoomExpires(r) ==
  /\ "expire" \in Faults /\ faults < MaxFaults
  /\ Entries(r) # {}
  /\ \A h \in Handler :
       h[2] = "join" /\ loc[h].room = r => pc[h] \in {"hexists", "hset", "expire"}
  /\ faults' = faults + 1
  /\ redis' = Cleared(r)
  /\ excused' = excused \cup Entries(r)
  /\ UNCHANGED <<adapter, dataRoom, conn, pc, loc, rm, pipe, self, want, joined,
                 view, joins>>

(* The server process dies and comes back: no handler runs to its end and  *)
(* the hashes survive it.                                                  *)
Restart ==
  /\ "restart" \in Faults /\ faults < MaxFaults
  /\ faults' = faults + 1
  /\ conn' = [s \in Socket |-> IF conn[s] = "up" THEN "down" ELSE conn[s]]
  /\ adapter' = [s \in Socket |-> {}]
  /\ dataRoom' = [s \in Socket |-> None]
  /\ pc' = [h \in Handler |-> "idle"]
  /\ loc' = [h \in Handler |-> NoLocals]
  /\ rm' = [h \in Handler |-> NoRemoval]
  /\ pipe' = <<>>
  /\ want' = [s \in Socket |-> None]
  /\ joined' = [s \in Socket |-> FALSE]
  /\ view' = [s \in Socket |-> {}]
  /\ UNCHANGED <<redis, self, joins, excused>>

-----------------------------------------------------------------------------
JoinStep(h) == HExists(h) \/ HSet(h) \/ Expire(h) \/ HGetAll(h)
RemoveStep(h, d) == HDel(h, d) \/ HLen(h, d) \/ Del(h, d)

Next ==
  \/ \E s \in Socket : Connect(s)
  \/ \E h \in Handler, r \in Room : \E p \in Ids[h[1]] : JoinRoom(h, r, p)
  \/ \E h \in Handler : LeaveRoom(h)
  \/ \E s \in Socket : Disconnect(s)
  \/ \E h \in Handler : JoinStep(h)
  \/ \E h \in Handler : HGet(h)
  \/ \E h \in Handler, d \in Socket : RemoveStep(h, d)
  \/ \E h \in Handler : Check(h)
  \/ \E h \in Handler, d \in Socket : Fail(h, d)
  \/ \E r \in Room : RoomExpires(r)
  \/ Restart

Spec == Init /\ [][Next]_vars

\* Redis keeps answering: a command that was issued is executed in the end.
RedisStep ==
  \/ \E h \in Handler : JoinStep(h)
  \/ \E h \in Handler : HGet(h) \/ Check(h)
  \/ \E h \in Handler, d \in Socket : RemoveStep(h, d)

FairSpec == Spec /\ WF_vars(RedisStep)

-----------------------------------------------------------------------------
(* Properties.                                                             *)

\* Every variable has its type (the signatures of the gateway and the service),
\* a running handler knows its room, and a running join its peer.
TypeOK ==
  /\ redis \in [Room -> [Socket -> Peer \cup {None}]]
  /\ adapter \in [Socket -> SUBSET Room]
  /\ dataRoom \in [Socket -> Room \cup {None}]
  /\ conn \in [Socket -> {"new", "up", "down"}]
  /\ pc \in [Handler -> PcOf]
  /\ loc \in [Handler -> Locals]
  /\ rm \in [Handler -> [Socket -> RmOf]]
  /\ pipe \in Seq(Command)
  /\ self \in [Socket -> Peer \cup {None}]
  /\ want \in [Socket -> Room \cup {None}]
  /\ joined \in [Socket -> BOOLEAN]
  /\ view \in [Socket -> SUBSET Peer]
  /\ joins \in [Socket -> Nat]
  /\ faults \in Nat
  /\ excused \subseteq Socket
  /\ \A h \in Handler : Busy(h) => loc[h].room \in Room
  /\ \A h \in Handler : h[2] = "join" /\ pc[h] # "idle" => loc[h].peer \in Peer

Quiet == \A h \in Handler : ~Busy(h)
Together(s, t) == joined[s] /\ joined[t] /\ want[s] = want[t] /\ self[s] # self[t]

\* Of two clients that have both been told they are in a room, at least one
\* lists the other, at every moment and whatever order Redis runs the commands
\* in: handleJoinRoom enters the adapter's room before it broadcasts
\* peer-joined, and the later broadcast reaches the earlier member.  One
\* direction is enough for a WebRTC connection.
MutualDiscovery ==
  \A s, t \in Socket \ excused :
    Together(s, t) => self[t] \in view[s] \/ self[s] \in view[t]

\* When no handler is running, members of a room list each other in both
\* directions: no join-success computed from an older HGETALL has erased a
\* peer whose peer-joined overtook it.
CompleteViews ==
  Quiet => \A s, t \in Socket \ excused : Together(s, t) => self[t] \in view[s]

\* When no handler is running, a peer listed by a member is the peer of a member of
\* its room, or a peer of a socket whose registration one of the events behind "excused"
\* spoilt: these are the only ways a departed peer stays in a browser's list.  A member
\* that is spoilt itself may be told of another room: a rejected leave-room keeps its
\* socket in the room it left.
SoundViews ==
  Quiet => \A s \in Socket \ excused : joined[s] =>
    \A p \in view[s] :
      \E t \in Socket :
        \/ t \in excused /\ p \in Ids[t]
        \/ joined[t] /\ want[t] = want[s] /\ self[t] = p

\* When no handler is running, the hash of a room somebody is in holds exactly
\* the members, but for the entries of spoilt sockets (one that joined another room
\* without leaving this one keeps its entry here): those a crashed server left behind
\* are gone once a client has joined the room.
ExactRegistry ==
  Quiet => \A s \in Socket : joined[s] =>
    \A d \in Socket \ excused :
      redis[want[s]][d] = IF joined[d] /\ want[d] = want[s] THEN self[d] ELSE None

\* A member never loses a peer from its list while that peer is a member of the
\* room under some socket: the disconnect of an old socket stays silent once the
\* same peer has rejoined under a new one.
StaysListed ==
  [][\A s, t \in Socket \ excused' :
       Together(s, t) /\ joined'[s] /\ joined'[t] /\ self[t] \in view[s]
         => self[t] \in view'[s]]_vars

\* A join-room is answered with join-success, unless the client moves on, its
\* socket closes or one of its commands is rejected.
JoinAnswered ==
  \A s \in Socket, r \in Room :
    (conn[s] = "up" /\ want[s] = r) ~> (joined[s] \/ want[s] # r \/ s \in excused)

\* A member that lists the peer of a closed socket drops it in the end, unless
\* the peer is back under another socket or the registration was spoilt.
DepartureTold ==
  \A s, t \in Socket :
    (joined[s] /\ conn[t] = "down" /\ self[t] \in view[s]) ~>
      \/ ~joined[s] \/ self[t] \notin view[s] \/ t \in excused
      \/ \E n \in Socket : self[n] = self[t] /\ (n \in excused \/ (joined[n] /\ want[n] = want[s]))

-----------------------------------------------------------------------------
(* What the repository says and the code does not keep.                    *)

\* README: Redis maps each socket of a room to its peer id.
MembersRegistered ==
  \A s \in Socket : joined[s] => redis[want[s]][s] = self[s]

\* signal.gateway.spec.ts: peer-left is broadcast when a socket closes and its
\* peer has no other socket in the room, so no member keeps listing it.
DepartedUnlisted ==
  Quiet => \A s \in Socket : joined[s] =>
    \A p \in view[s] : \E t \in Socket : self[t] = p /\ conn[t] = "up"

-----------------------------------------------------------------------------
(***************************************************************************)
(* The inductive invariant behind MutualDiscovery and StaysListed: where a *)
(* socket that nothing spoilt stands, handler by handler.                  *)
(***************************************************************************)

\* Every handler stays on its own line, and waits for removals only where it
\* awaits them; one that was cut short may have left some behind.
HandlersOK ==
  \A h \in Handler :
    /\ pc[h] \in IF h[2] = "join"
                   THEN {"idle", "hexists", "hset", "expire", "hgetall", "remove"}
                   ELSE {"idle", "hget", "remove", "check"}
    /\ pc[h] # "remove" /\ (pc[h] = "idle" => h[1] \notin excused) => rm[h] = NoRemoval
    /\ h[2] # "join" => \A d \in Socket \ {h[1]} : rm[h][d] = "none"

\* A second handler of a kind runs only for a socket whose registration is spoilt.
LanesOK == \A h \in Handler : h[3] # 1 /\ h[1] \notin excused => ~Busy(h)

\* A socket that has not connected has done nothing; a disconnect handler runs
\* for a closed socket.
ConnectedOK ==
  \A s \in Socket :
    /\ conn[s] = "new" => /\ \A r \in Room : redis[r][s] = None
                          /\ \A h \in Handler : h[1] = s => ~Busy(h)
                          /\ ~joined[s] /\ want[s] = None
                          /\ adapter[s] = {} /\ dataRoom[s] = None
    /\ conn[s] = "down" => adapter[s] = {} /\ ~joined[s]
    /\ Busy(D(s)) => conn[s] = "down"

\* The stages of an open socket: outside, joining, a member, leaving.
Outside(s) ==
  /\ ~Busy(J(s)) /\ want[s] = None /\ ~joined[s] /\ dataRoom[s] = None
  /\ Busy(L(s)) => pc[L(s)] = "check"
  /\ adapter[s] = {}
  /\ \A r \in Room : redis[r][s] = None
Joining(s) ==
  /\ pc[J(s)] # "idle" /\ ~Busy(L(s)) /\ ~joined[s]
  /\ want[s] = loc[J(s)].room /\ self[s] = loc[J(s)].peer /\ dataRoom[s] = want[s]
  /\ self[s] \in Peer /\ adapter[s] = {want[s]}
  /\ \A r \in Room : redis[r][s] =
       IF r = want[s] /\ pc[J(s)] \in {"expire", "hgetall", "remove"} THEN self[s] ELSE None
Member(s) ==
  /\ ~Busy(J(s)) /\ ~Busy(L(s)) /\ joined[s]
  /\ want[s] \in Room /\ self[s] \in Peer /\ dataRoom[s] = want[s]
  /\ adapter[s] = {want[s]}
  /\ \A r \in Room : redis[r][s] = IF r = want[s] THEN self[s] ELSE None
Leaving(s) ==
  /\ ~Busy(J(s)) /\ want[s] = None /\ ~joined[s]
  /\ pc[L(s)] \in {"hget", "remove"}
  /\ adapter[s] = {loc[L(s)].room}
  /\ \A r \in Room :
       redis[r][s] # None => r = loc[L(s)].room /\ rm[L(s)][s] \in {"none", "hdel"}
  /\ pc[L(s)] = "remove" => rm[L(s)][s] # "none"

Stage(s) == Outside(s) \/ Joining(s) \/ Member(s) \/ Leaving(s)
StagesOK == \A s \in Socket \ excused : conn[s] = "up" => Stage(s)

\* cleanDeadPeers only ever removes the entries of closed sockets.
RemovalsOK ==
  \A h \in Handler : h[2] = "join" =>
    \A d \in Socket \ excused : rm[h][d] # "none" => conn[d] = "down"

Inv == HandlersOK /\ LanesOK /\ ConnectedOK /\ StagesOK /\ RemovalsOK /\ MutualDiscovery
=============================================================================
