------------------------ MODULE RoomRegistryTheorems ------------------------
(***************************************************************************)
(* The inductive invariant of RoomRegistry and what follows from it, for   *)
(* every set of sockets, rooms and peers, whatever order Redis runs the    *)
(* commands in; then what the hash of a room holds at rest.                *)
(***************************************************************************)
EXTENDS RoomRegistryProofs

-----------------------------------------------------------------------------
(* Stages.                                                                 *)

\* A step that leaves a socket and its join and leave handlers alone.
LEMMA StageFrame ==
  ASSUME NEW s \in Socket, Stage(s), 
         adapter'[s] = adapter[s], dataRoom'[s] = dataRoom[s], self'[s] = self[s],
         want'[s] = want[s], joined'[s] = joined[s],
         \A r \in Room : redis'[r][s] = redis[r][s],
         \A h \in {J(s), L(s)} : pc'[h] = pc[h] /\ rm'[h] = rm[h] /\ loc'[h] = loc[h]
  PROVE  Stage(s)'
<1>1. Busy(J(s))' = Busy(J(s)) /\ Busy(L(s))' = Busy(L(s))
  BY DEF Busy
<1>2. CASE Outside(s)
  BY <1>1, <1>2 DEF Stage, Outside
<1>3. CASE Joining(s)
  BY <1>1, <1>3 DEF Stage, Joining
<1>4. CASE Member(s)
  BY <1>1, <1>4 DEF Stage, Member
<1>5. CASE Leaving(s)
  BY <1>1, <1>5 DEF Stage, Leaving
<1> QED
  BY <1>2, <1>3, <1>4, <1>5 DEF Stage

\* Where a join or a leave in flight, or the client's wish, puts a socket.
LEMMA StageOf ==
  ASSUME TypeOK, HandlersOK, NEW s \in Socket \ excused, Stage(s)
  PROVE  /\ Busy(J(s)) => Joining(s)
         /\ pc[L(s)] \in {"hget", "remove"} => Leaving(s)
         /\ rm[L(s)] # NoRemoval => Leaving(s) /\ pc[L(s)] = "remove"
         /\ ~Busy(J(s)) /\ want[s] # None => Member(s)
         /\ ~Busy(L(s)) /\ want[s] = None => Outside(s)
         /\ joined[s] => Member(s)
<1>1. J(s) \in Handler /\ L(s) \in Handler
  BY HandlerType
<1>2. L(s)[1] = s /\ L(s)[2] = "leave"
  BY Lines
<1>3. /\ pc[L(s)] \in {"idle", "hget", "remove", "check"}
      /\ pc[L(s)] # "remove" => rm[L(s)] = NoRemoval
  BY <1>1, <1>2 DEF HandlersOK
<1>4. Busy(J(s)) => loc[J(s)].room \in Room
  BY <1>1 DEF TypeOK
<1>5. None \notin Room
  BY NoneAssumption
<1> QED
  BY <1>3, <1>4, <1>5 DEF Stage, Outside, Joining, Member, Leaving, Busy

\* A message of an unspoilt socket is handled in lane 1, with nothing beside it.
LEMMA FirstLane ==
  ASSUME NEW h \in Handler, First(h), ~Busy(<<h[1], h[2], 1>>)
  PROVE  h[3] = 1
<1>1. h[3] \in 1..MaxLanes /\ 1 \in 1..MaxLanes /\ MaxLanes \in Nat
  BY LaneAssumption DEF Handler
<1>2. ~(1 < h[3])
  BY <1>1 DEF First
<1> QED
  BY <1>1, <1>2

LEMMA Running1 ==
  ASSUME NEW s \in Socket
  PROVE  /\ Busy(J(s)) => Running(s, "join")
         /\ Busy(L(s)) => Running(s, "leave")
BY HandlerType, Lines DEF Running

LEMMA StepAlone ==
  ASSUME LanesOK, NEW h \in Handler, h[1] \notin excused, Busy(h)
  PROVE  /\ h[3] = 1
         /\ h[2] = "join" => h = J(h[1])
         /\ h[2] = "leave" => h = L(h[1])
         /\ h = J(h[1]) \/ h = L(h[1]) \/ h = D(h[1])
<1>1. h[3] = 1
  BY DEF LanesOK
<1> QED
  BY <1>1, Lines

LEMMA JoinAlone ==
  ASSUME TypeOK, HandlersOK, StagesOK, NEW h \in Handler, NEW r, NEW p, JoinRoom(h, r, p),
         h[1] \notin excused'
  PROVE  /\ h = J(h[1]) /\ h[1] \in Socket \ excused /\ conn[h[1]] = "up"
         /\ Outside(h[1]) /\ ~Busy(J(h[1])) /\ ~Busy(L(h[1])) /\ want[h[1]] = None
<1> DEFINE s == h[1]
<1>1. /\ s \in Socket /\ s \notin excused /\ conn[s] = "up" /\ want[s] = None
      /\ ~Running(s, "leave") /\ h[2] = "join" /\ First(h)
  BY HandlerType DEF JoinRoom
<1>2. ~Busy(L(s)) /\ Stage(s)
  BY <1>1, Running1 DEF StagesOK
<1>3. Outside(s)
  BY <1>1, <1>2, StageOf
<1>4. ~Busy(<<h[1], h[2], 1>>)
  BY <1>1, <1>3 DEF Outside, J
<1>5. h[3] = 1
  BY <1>1, <1>4, FirstLane
<1> QED
  BY <1>1, <1>2, <1>3, <1>5, Lines DEF Outside

\* A leave-room that starts a handler finds a member; another one finds nothing to do.
LEMMA LeaveAlone ==
  ASSUME TypeOK, HandlersOK, StagesOK, NEW h \in Handler, LeaveRoom(h), h[1] \notin excused'
  PROVE  /\ h[1] \in Socket \ excused /\ conn[h[1]] = "up" /\ ~Busy(J(h[1]))
         /\ dataRoom[h[1]] # None => h = L(h[1]) /\ Member(h[1])
         /\ dataRoom[h[1]] = None => /\ Outside(h[1]) \/ Leaving(h[1])
                                     /\ UNCHANGED <<pc, loc, pipe>>
<1> DEFINE s == h[1]
<1>1. /\ s \in Socket /\ s \notin excused /\ conn[s] = "up"
      /\ ~Running(s, "join") /\ (dataRoom[s] # None => ~Running(s, "leave"))
      /\ h[2] = "leave" /\ First(h)
      /\ dataRoom[s] = None => UNCHANGED <<pc, loc, pipe>>
  BY HandlerType DEF LeaveRoom
<1>2. Stage(s) /\ ~Busy(J(s)) /\ (dataRoom[s] # None => ~Busy(L(s)))
  BY <1>1, Running1 DEF StagesOK
<1>3. CASE dataRoom[s] = None
  BY <1>1, <1>2, <1>3, NoneAssumption DEF Stage, Outside, Joining, Member, Leaving, Busy
<1>4. CASE dataRoom[s] # None
  <2>1. Member(s)
    BY <1>2, <1>4 DEF Stage, Outside, Joining, Leaving, Busy
  <2>2. ~Busy(<<h[1], h[2], 1>>)
    BY <1>1, <1>2, <1>4 DEF L
  <2>3. h[3] = 1
    BY <1>1, <2>2, FirstLane
  <2> QED
    BY <1>1, <1>2, <1>4, <2>1, <2>3, Lines
<1> QED
  BY <1>3, <1>4

\* The end of a join makes a member.
LEMMA JoinedMember ==
  ASSUME TypeOK, HandlersOK, NEW s \in Socket, Joining(s), conn[s] = "up",
         pc[J(s)] \in {"hgetall", "remove"},
         NEW seen, Announce(J(s), seen), rm'[J(s)] = NoRemoval, rm'[L(s)] = rm[L(s)],
         \A r \in Room : redis'[r][s] = redis[r][s],
         UNCHANGED <<adapter, dataRoom, self, want>>
  PROVE  Member(s)'
<1>1. J(s) \in Handler /\ L(s) \in Handler /\ J(s) # L(s) /\ J(s)[1] = s
  BY HandlerType, Lines
<1>2. pc \in [Handler -> PcOf] /\ joined \in [Socket -> BOOLEAN]
  BY DEF TypeOK
<1>3. pc'[J(s)] = "idle" /\ pc'[L(s)] = pc[L(s)] /\ joined'[s]
  BY <1>1, <1>2 DEF Announce, Joining
<1>4. want[s] \in Room
  BY <1>1 DEF Joining, TypeOK, Busy
<1> QED
  BY <1>1, <1>3, <1>4 DEF Joining, Member, Busy

LEMMA StagesNext ==
  TypeOK /\ HandlersOK /\ LanesOK /\ ConnectedOK /\ StagesOK /\ RemovalsOK /\ [Next]_vars
    => StagesOK'
<1> SUFFICES ASSUME TypeOK, HandlersOK, LanesOK, ConnectedOK, StagesOK, RemovalsOK, [Next]_vars,
                    NEW s \in Socket, s \notin excused', conn'[s] = "up"
             PROVE  Stage(s)'
  BY DEF StagesOK
<1>t. /\ rm \in [Handler -> [Socket -> RmOf]] /\ pc \in [Handler -> PcOf]
      /\ redis \in [Room -> [Socket -> Peer \cup {None}]] /\ adapter \in [Socket -> SUBSET Room]
      /\ conn \in [Socket -> {"new", "up", "down"}] /\ want \in [Socket -> Room \cup {None}]
      /\ joined \in [Socket -> BOOLEAN] /\ loc \in [Handler -> Locals]
      /\ dataRoom \in [Socket -> Room \cup {None}] /\ self \in [Socket -> Peer \cup {None}]
  BY DEF TypeOK
<1>h. /\ J(s) \in Handler /\ L(s) \in Handler /\ D(s) \in Handler
      /\ J(s) # L(s)
  BY HandlerType, Lines
<1>u. s \notin excused /\ conn[s] = "up" => Stage(s)
  BY DEF StagesOK
<1>d. conn[s] = "up" => pc[D(s)] = "idle" /\ rm[D(s)] = NoRemoval
  BY <1>h DEF ConnectedOK, Busy
<1>1. ASSUME NEW x \in Socket, Connect(x) PROVE Stage(s)'
  <2>1. CASE x = s
    <3>1. UNCHANGED <<redis, adapter, dataRoom, pc, rm, want, joined>> /\ conn[s] = "new"
      BY <1>1, <2>1 DEF Connect
    <3>2. ~Busy(J(s)) /\ ~Busy(L(s))
      BY <1>h, <3>1, Lines DEF ConnectedOK
    <3> QED
      BY <3>1, <3>2 DEF ConnectedOK, Stage, Outside, Busy
  <2>2. CASE x # s
    <3>1. s \notin excused /\ conn[s] = "up"
      BY <1>1, <1>t, <2>2 DEF Connect
    <3> QED
      BY <1>1, <1>u, <3>1, StageFrame DEF Connect
  <2> QED
    BY <2>1, <2>2
<1>2. ASSUME NEW k \in Handler, NEW r \in Room, NEW p \in Ids[k[1]], JoinRoom(k, r, p)
      PROVE  Stage(s)'
  <2>1. s \notin excused /\ conn[s] = "up" /\ Stage(s) /\ UNCHANGED <<redis, rm>>
    BY <1>2, <1>u DEF JoinRoom
  <2>2. CASE k[1] = s
    <3>1. k = J(s) /\ Outside(s) /\ ~Busy(J(s)) /\ ~Busy(L(s)) /\ p \in Peer
      BY <1>2, <2>2, JoinAlone, IdsAssumption
    <3>2. JoinRoom(J(s), r, p)
      BY <1>2, <3>1
    <3>3. /\ pc'[J(s)] = "hexists" /\ pc'[L(s)] = pc[L(s)]
          /\ loc'[J(s)].room = r /\ loc'[J(s)].peer = p
          /\ self'[s] = p /\ want'[s] = r /\ dataRoom'[s] = r /\ adapter'[s] = adapter[s] \cup {r}
          /\ ~joined'[s]
      BY <3>2, <1>h, <1>t, Lines DEF JoinRoom
    <3>4. Joining(s)'
      BY <2>1, <3>1, <3>3 DEF Outside, Joining, Busy
    <3> QED
      BY <3>4 DEF Stage
  <2>3. CASE k[1] # s
    <3>1. k # J(s) /\ k # L(s) /\ k[1] \in Socket
      BY <2>3, Lines, HandlerType
    <3>2. /\ adapter'[s] = adapter[s] /\ dataRoom'[s] = dataRoom[s] /\ self'[s] = self[s]
          /\ want'[s] = want[s] /\ joined'[s] = joined[s]
          /\ pc'[J(s)] = pc[J(s)] /\ pc'[L(s)] = pc[L(s)]
          /\ loc'[J(s)] = loc[J(s)] /\ loc'[L(s)] = loc[L(s)]
      BY <1>2, <1>h, <1>t, <2>3, <3>1 DEF JoinRoom
    <3> QED
      BY <2>1, <3>2, StageFrame
  <2> QED
    BY <2>2, <2>3
<1>3. ASSUME NEW k \in Handler, LeaveRoom(k) PROVE Stage(s)'
  <2>1. /\ s \notin excused /\ conn[s] = "up" /\ Stage(s)
        /\ UNCHANGED <<redis, rm, adapter, dataRoom, self>>
    BY <1>3, <1>u DEF LeaveRoom
  <2>2. CASE k[1] = s /\ dataRoom[s] # None
    <3>1. k = L(s) /\ Member(s)
      BY <1>3, <2>2, LeaveAlone
    <3>2. LeaveRoom(L(s))
      BY <1>3, <3>1
    <3>4. /\ pc'[L(s)] = "hget" /\ pc'[J(s)] = pc[J(s)]
          /\ loc'[L(s)].room = dataRoom[s]
          /\ want'[s] = None /\ joined'[s] = FALSE
      BY <3>2, <1>h, <1>t, <2>2, Lines DEF LeaveRoom
    <3>5. rm[L(s)][s] = "none"
      BY <3>1 DEF Member, Busy, NoRemoval
    <3>6. Leaving(s)'
      BY <2>1, <3>1, <3>4, <3>5 DEF Member, Leaving, Busy
    <3> QED
      BY <3>6 DEF Stage
  <2>4. CASE k[1] = s /\ dataRoom[s] = None
    <3>1. (Outside(s) \/ Leaving(s)) /\ UNCHANGED <<pc, loc>>
      BY <1>3, <2>4, LeaveAlone
    <3>2. want'[s] = want[s] /\ joined'[s] = joined[s]
      BY <1>3, <1>t, <2>4, <3>1 DEF LeaveRoom, Outside, Leaving
    <3> QED
      BY <2>1, <3>1, <3>2, StageFrame
  <2>3. CASE k[1] # s
    <3>1. k # J(s) /\ k # L(s) /\ k[1] \in Socket
      BY <2>3, Lines, HandlerType
    <3>2. /\ want'[s] = want[s] /\ joined'[s] = joined[s]
          /\ pc'[J(s)] = pc[J(s)] /\ pc'[L(s)] = pc[L(s)]
          /\ loc'[J(s)] = loc[J(s)] /\ loc'[L(s)] = loc[L(s)]
      BY <1>3, <1>h, <1>t, <2>3, <3>1 DEF LeaveRoom
    <3> QED
      BY <2>1, <3>2, StageFrame
  <2> QED
    BY <2>2, <2>3, <2>4
<1>4. ASSUME NEW x \in Socket, Disconnect(x) PROVE Stage(s)'
  <2>1. x # s
    BY <1>4, <1>t DEF Disconnect
  <2>2. s \notin excused /\ conn[s] = "up" /\ Stage(s) /\ UNCHANGED <<redis, dataRoom, rm, self>>
    BY <1>4, <1>t, <1>u, <2>1 DEF Disconnect
  <2>3. D(x) # J(s) /\ D(x) # L(s)
    BY Lines
  <2>4. /\ want'[s] = want[s] /\ joined'[s] = joined[s] /\ adapter'[s] = adapter[s]
        /\ pc'[J(s)] = pc[J(s)] /\ pc'[L(s)] = pc[L(s)]
        /\ loc'[J(s)] = loc[J(s)] /\ loc'[L(s)] = loc[L(s)]
    BY <1>4, <1>h, <1>t, <2>1, <2>3 DEF Disconnect
  <2> QED
    BY <2>2, <2>4, StageFrame
<1>5. ASSUME NEW k \in Handler, k[2] = "join", HExists(k) \/ HSet(k) \/ Expire(k)
      PROVE  Stage(s)'
  <2>1. /\ s \notin excused /\ conn[s] = "up" /\ Stage(s)
        /\ UNCHANGED <<adapter, dataRoom, loc, rm, self, want, joined>>
        /\ k[1] \in Socket /\ pc[k] # "idle"
    BY <1>5, <1>u, HandlerType DEF HExists, HSet, Expire
  <2>2. loc[k].peer \in Peer \cup {None}
    BY <1>t, <2>1 DEF Locals
  <2>3. CASE k[1] = s
    <3>0. k = J(s) /\ J(s)[1] = s /\ Busy(J(s))
      BY <1>5, <2>1, <2>3, StepAlone, Lines DEF Busy
    <3>1. Joining(s)
      BY <2>1, <3>0, StageOf
    <3>2. pc'[L(s)] = pc[L(s)]
      BY <1>5, <1>h, <1>t, <3>0 DEF HExists, HSet, Expire
    <3>3. CASE HExists(J(s))
      <4>1. pc'[J(s)] = "hset" /\ redis' = redis /\ pc[J(s)] = "hexists"
        BY <1>h, <1>t, <3>0, <3>1, <3>3 DEF HExists, Joining, TypeOK, Busy
      <4> QED
        BY <2>1, <3>1, <3>2, <4>1 DEF Joining, Stage, Busy
    <3>4. CASE HSet(J(s))
      <4>1. /\ pc'[J(s)] = "expire" /\ pc[J(s)] = "hset"
            /\ redis' = Put(loc[J(s)].room, s, loc[J(s)].peer)
        BY <1>h, <1>t, <3>0, <3>4 DEF HSet
      <4>2. \A r \in Room : redis'[r][s] = IF r = want[s] THEN self[s] ELSE None
        BY <1>t, <2>2, <3>0, <3>1, <4>1, PutType DEF Joining
      <4> QED
        BY <2>1, <3>1, <3>2, <4>1, <4>2 DEF Joining, Stage, Busy
    <3>5. CASE Expire(J(s))
      <4>1. pc'[J(s)] = "hgetall" /\ pc[J(s)] = "expire" /\ redis' = redis
        BY <1>h, <1>t, <3>0, <3>5 DEF Expire
      <4> QED
        BY <2>1, <3>1, <3>2, <4>1 DEF Joining, Stage, Busy
    <3> QED
      BY <1>5, <3>0, <3>3, <3>4, <3>5
  <2>4. CASE k[1] # s
    <3>1. k # J(s) /\ k # L(s)
      BY <2>4, Lines
    <3>2. pc'[J(s)] = pc[J(s)] /\ pc'[L(s)] = pc[L(s)]
      BY <1>5, <1>h, <1>t, <2>1, <3>1 DEF HExists, HSet, Expire
    <3>3. \A r \in Room : redis'[r][s] = redis[r][s]
      BY <1>5, <1>t, <2>1, <2>2, <2>4, PutType DEF HExists, HSet, Expire
    <3> QED
      BY <2>1, <3>2, <3>3, StageFrame
  <2> QED
    BY <2>3, <2>4
<1>6. ASSUME NEW k \in Handler, k[2] = "join", HGetAll(k) PROVE Stage(s)'
  <2>1. /\ s \notin excused /\ conn[s] = "up" /\ Stage(s)
        /\ UNCHANGED <<redis, adapter, dataRoom, conn, self, want>>
        /\ k[1] \in Socket /\ pc[k] = "hgetall"
    BY <1>6, <1>u, HandlerType DEF HGetAll
  <2>2. \/ /\ rm' = rm
           /\ \E seen : Announce(k, seen)
        \/ /\ UNCHANGED joined
           /\ pc' = [pc EXCEPT ![k] = "remove"]
           /\ \E seen : loc' = [loc EXCEPT ![k].seen = seen]
           /\ \E started : rm' = [rm EXCEPT ![k] = started]
    BY <1>6 DEF HGetAll
  <2>3. CASE k[1] = s
    <3>0. k = J(s) /\ J(s)[1] = s /\ Busy(J(s))
      BY <1>6, <2>1, <2>3, StepAlone, Lines DEF Busy
    <3>1. Joining(s)
      BY <2>1, <3>0, StageOf
    <3>2. CASE /\ rm' = rm
               /\ \E seen : Announce(J(s), seen)
      <4>1. rm[J(s)] = NoRemoval
        BY <1>h, <2>1, <3>0 DEF HandlersOK
      <4> QED
        BY <2>1, <3>0, <3>1, <3>2, <4>1, JoinedMember DEF Stage
    <3>3. CASE /\ UNCHANGED joined
               /\ pc' = [pc EXCEPT ![J(s)] = "remove"]
               /\ \E seen : loc' = [loc EXCEPT ![J(s)].seen = seen]
               /\ \E started : rm' = [rm EXCEPT ![J(s)] = started]
      <4>1. pc'[J(s)] = "remove" /\ pc'[L(s)] = pc[L(s)] /\ rm'[L(s)] = rm[L(s)]
        BY <1>h, <1>t, <3>3
      <4>2. loc'[J(s)].room = loc[J(s)].room /\ loc'[J(s)].peer = loc[J(s)].peer
        BY <1>h, <1>t, <3>3 DEF Locals
      <4> QED
        BY <2>1, <3>0, <3>1, <3>3, <4>1, <4>2 DEF Joining, Stage, Busy
    <3>4. \/ /\ rm' = rm
             /\ \E seen : Announce(J(s), seen)
          \/ /\ UNCHANGED joined
             /\ pc' = [pc EXCEPT ![J(s)] = "remove"]
             /\ \E seen : loc' = [loc EXCEPT ![J(s)].seen = seen]
             /\ \E started : rm' = [rm EXCEPT ![J(s)] = started]
      BY <2>2, <3>0
    <3> QED
      BY <3>2, <3>3, <3>4
  <2>4. CASE k[1] # s
    <3>1. k # J(s) /\ k # L(s)
      BY <2>4, Lines
    <3>2. \A h \in {J(s), L(s)} : pc'[h] = pc[h] /\ rm'[h] = rm[h] /\ loc'[h] = loc[h]
      <4>1. CASE rm' = rm /\ \E seen : Announce(k, seen)
        BY <1>h, <1>t, <3>1, <4>1 DEF Announce
      <4>2. CASE /\ pc' = [pc EXCEPT ![k] = "remove"]
                 /\ \E seen : loc' = [loc EXCEPT ![k].seen = seen]
                 /\ \E started : rm' = [rm EXCEPT ![k] = started]
        BY <1>h, <1>t, <3>1, <4>2
      <4> QED
        BY <2>2, <4>1, <4>2
    <3>3. joined'[s] = joined[s]
      BY <1>t, <2>2, <2>4 DEF Announce
    <3> QED
      BY <2>1, <3>2, <3>3, StageFrame
  <2> QED
    BY <2>3, <2>4
<1>7. ASSUME NEW h \in Handler, HGet(h) PROVE Stage(s)'
  <2>1. /\ s \notin excused /\ conn[s] = "up" /\ Stage(s)
        /\ UNCHANGED <<redis, adapter, dataRoom, self, want, joined>>
        /\ pc[h] = "hget" /\ pc' = [pc EXCEPT ![h] = "remove"]
        /\ rm' = Removing(h, h[1], "hdel")
        /\ loc' = [loc EXCEPT ![h].peer = redis[loc[h].room][h[1]]]
    BY <1>7, <1>u DEF HGet
  <2>2. h[1] \in Socket /\ "hdel" \in RmOf
    BY HandlerType DEF RmOf
  <2>3. rm'[h][h[1]] = "hdel" /\ \A g \in Handler \ {h} : rm'[g] = rm[g]
    BY <1>t, <2>1, <2>2, RemovingType
  <2>4. h # J(s)
    BY <1>h, <2>1, Lines DEF HandlersOK
  <2>5. CASE h = L(s)
    <3>1. Leaving(s)
      BY <2>1, <2>5, StageOf
    <3>2. pc'[L(s)] = "remove" /\ pc'[J(s)] = pc[J(s)] /\ rm'[J(s)] = rm[J(s)]
      BY <1>h, <1>t, <2>1, <2>3, <2>4, <2>5
    <3>3. loc'[L(s)].room = loc[L(s)].room
      BY <1>h, <1>t, <2>1, <2>5 DEF Locals
    <3>4. rm'[L(s)][s] = "hdel"
      BY <2>3, <2>5, Lines
    <3> QED
      BY <2>1, <3>1, <3>2, <3>3, <3>4 DEF Leaving, Stage, Busy
  <2>6. CASE h # L(s)
    <3>1. \A g \in {J(s), L(s)} : pc'[g] = pc[g] /\ rm'[g] = rm[g] /\ loc'[g] = loc[g]
      BY <1>h, <1>t, <2>1, <2>3, <2>4, <2>6
    <3> QED
      BY <2>1, <3>1, StageFrame
  <2> QED
    BY <2>5, <2>6
<1>8. ASSUME NEW h \in Handler, NEW d \in Socket, HDel(h, d) \/ HLen(h, d) \/ Del(h, d)
      PROVE  Stage(s)'
  <2>1. /\ s \notin excused /\ conn[s] = "up" /\ Stage(s)
        /\ UNCHANGED <<conn, self, want>> /\ rm[h][d] # "none"
    BY <1>8, <1>u DEF HDel, HLen, Del
  <2>2. rm[h] # NoRemoval
    BY <2>1 DEF NoRemoval
  <2>3. h # D(s) /\ (h[1] = s => h = J(s) \/ h = L(s))
    BY <1>d, <2>1, <2>2, StepAlone DEF Busy
  \* What becomes of the entries of s: only its own leave handler removes them.
  <2>4. CASE h # L(s)
    <3>1. \A r \in Room : redis'[r][s] = redis[r][s]
      <4>1. CASE HDel(h, d)
        <5>1. d # s
          <6>1. h[2] # "join" => d = h[1]
            BY <2>1 DEF HandlersOK
          <6>2. h[2] = "join" => rm[h][s] = "none"
            BY <2>1 DEF RemovalsOK
          <6> QED
            BY <2>1, <2>3, <2>4, <6>1, <6>2, Lines
        <5> QED
          BY <1>t, <4>1, <5>1, PutType DEF HDel
      <4>2. CASE HLen(h, d)
        BY <4>2 DEF HLen
      <4>3. CASE Del(h, d)
        BY <1>t, <4>3, ClearedType DEF Del, Entries
      <4> QED
        BY <1>8, <4>1, <4>2, <4>3
    <3>2. CASE \E e \in RmOf : rm' = Removing(h, d, e)
               /\ UNCHANGED <<adapter, dataRoom, pc, loc, joined>>
      <4>1. \A g \in Handler \ {h} : rm'[g] = rm[g]
        BY <1>t, <3>2, RemovingType
      <4>2. CASE h = J(s)
        <5>1. Joining(s)
          BY <2>1, <2>2, <4>2, StageOf DEF Busy
        <5> QED
          BY <1>h, <2>1, <3>1, <3>2, <4>1, <4>2, <5>1 DEF Joining, Stage, Busy
      <4>3. CASE h # J(s)
        BY <1>h, <2>1, <2>4, <3>1, <3>2, <4>1, <4>3, StageFrame
      <4> QED
        BY <4>2, <4>3
    <3>3. CASE Removed(h, d)
      <4>1. /\ \A g \in Handler \ {h} : rm'[g] = rm[g] /\ pc'[g] = pc[g] /\ loc'[g] = loc[g]
            /\ \/ /\ UNCHANGED <<adapter, dataRoom, pc, view, joined>>
                  /\ loc'[h] = loc[h] \/ pc[h] = "idle"
               \/ rm'[h] = NoRemoval /\ pc[h] = "remove" /\ AfterRemovals(h)
        BY <2>1, <3>3, RemovedEffect
      <4>2. CASE h = J(s)
        <5>1. Joining(s) /\ pc[J(s)] = "remove"
          BY <1>h, <2>1, <2>2, <4>2, StageOf, Lines DEF Busy, HandlersOK
        <5>2. CASE AfterRemovals(h) /\ rm'[h] = NoRemoval
          <6>1. /\ \E seen : Announce(J(s), seen)
                /\ UNCHANGED <<adapter, dataRoom>>
            BY <4>2, <5>2, Lines DEF AfterRemovals
          <6> QED
            BY <1>h, <2>1, <3>1, <4>1, <4>2, <5>1, <5>2, <6>1, JoinedMember DEF Stage
        <5>3. CASE UNCHANGED <<adapter, dataRoom, pc, view, joined>> /\ loc'[h] = loc[h]
          BY <1>h, <2>1, <3>1, <4>1, <4>2, <5>1, <5>3 DEF Joining, Stage, Busy
        <5> QED
          BY <4>1, <4>2, <5>1, <5>2, <5>3
      <4>3. CASE h # J(s)
        <5>1. h[1] # s
          BY <2>3, <2>4, <4>3
        <5>2. adapter'[s] = adapter[s] /\ dataRoom'[s] = dataRoom[s] /\ joined'[s] = joined[s]
          BY <4>1, <5>1, AfterEffect
        <5> QED
          BY <1>h, <2>1, <2>4, <3>1, <4>1, <4>3, <5>2, StageFrame
      <4> QED
        BY <4>2, <4>3
    <3> QED
      BY <1>8, <3>2, <3>3 DEF HDel, HLen, Del, RmOf
  <2>5. CASE h = L(s)
    <3>1. Leaving(s) /\ pc[L(s)] = "remove"
      BY <2>1, <2>2, <2>5, StageOf
    <3>2. d = s /\ L(s)[1] = s
      BY <2>1, <2>5, Lines DEF HandlersOK
    <3>3. CASE HDel(h, s)
      <4>1. /\ redis' = Put(loc[L(s)].room, s, None) /\ rm' = Removing(L(s), s, "hlen")
            /\ UNCHANGED <<adapter, dataRoom, pc, loc, joined>>
        BY <2>5, <3>3 DEF HDel
      <4>2. \A r \in Room : redis'[r][s] = None
        BY <1>t, <3>1, <4>1, PutType DEF Leaving
      <4>3. rm'[L(s)][s] = "hlen" /\ rm'[J(s)] = rm[J(s)]
        BY <1>h, <1>t, <4>1, RemovingType DEF RmOf
      <4> QED
        BY <2>1, <3>1, <4>1, <4>2, <4>3 DEF Leaving, Stage, Busy
    <3>4. CASE /\ HLen(h, s) /\ rm' = Removing(h, s, "del")
               /\ UNCHANGED <<adapter, dataRoom, pc, loc, joined>>
      <4>1. rm'[L(s)][s] = "del" /\ rm'[J(s)] = rm[J(s)]
        BY <1>h, <1>t, <2>5, <3>4, RemovingType DEF RmOf
      <4>2. redis' = redis /\ rm[L(s)][s] = "hlen"
        BY <2>5, <3>4 DEF HLen
      <4> QED
        BY <2>1, <3>1, <3>4, <4>1, <4>2 DEF Leaving, Stage, Busy
    <3>5. CASE (HLen(h, s) \/ Del(h, s)) /\ Removed(h, s)
      <4>1. \A r \in Room : redis'[r][s] = None
        <5>1. \A r \in Room : redis[r][s] = None
          BY <2>5, <3>1, <3>5 DEF HLen, Del, Leaving
        <5> QED
          BY <1>t, <3>5, <5>1, ClearedType DEF HLen, Del
      <4>2. rm'[L(s)] = NoRemoval
        <5>1. rm'[L(s)] \in [Socket -> RmOf]
          BY <1>h, <1>t, <2>1, <2>5, <3>2, <3>5, RemovedType DEF HLen, Del
        <5>2. rm'[L(s)][s] = "none" /\ \A e \in Socket \ {s} : rm'[L(s)][e] = "none"
          <6>1. Removed(L(s), s) /\ rm[L(s)][s] # "none"
            BY <2>1, <2>5, <3>2, <3>5
          <6>2. rm'[L(s)][s] = "none" /\ \A e \in Socket \ {s} : rm'[L(s)][e] = rm[L(s)][e]
            BY <1>h, <6>1, RemovedEffect
          <6>3. \A e \in Socket \ {s} : rm[L(s)][e] = "none"
            BY <1>h, Lines DEF HandlersOK
          <6> QED
            BY <6>2, <6>3
        <5> QED
          BY <5>1, <5>2 DEF NoRemoval
      <4>3. AfterRemovals(L(s)) /\ rm'[J(s)] = rm[J(s)] /\ pc'[J(s)] = pc[J(s)]
        BY <1>h, <2>1, <2>5, <3>1, <3>2, <3>5, <4>2, RemovedEffect
      <4>4. /\ adapter'[s] = {} /\ joined'[s] = joined[s] /\ dataRoom'[s] = None
            /\ pc'[L(s)] \in {"idle", "check"}
        <5>1. /\ adapter' = [adapter EXCEPT ![s] = adapter[s] \ {loc[L(s)].room}]
              /\ dataRoom' = [dataRoom EXCEPT ![s] = None] /\ joined' = joined
              /\ pc' = [pc EXCEPT ![L(s)] = IF loc[L(s)].peer # None THEN "check" ELSE "idle"]
          BY <3>2, <4>3, Lines DEF AfterRemovals
        <5>2. adapter'[s] = adapter[s] \ {loc[L(s)].room} /\ adapter[s] = {loc[L(s)].room}
          BY <1>t, <3>1, <5>1 DEF Leaving
        <5> QED
          BY <1>h, <1>t, <5>1, <5>2
      <4> QED
        BY <2>1, <3>1, <4>1, <4>2, <4>3, <4>4 DEF Leaving, Outside, Stage, Busy
    <3> QED
      BY <1>8, <3>2, <3>3, <3>4, <3>5 DEF HLen, Del
  <2> QED
    BY <2>4, <2>5
<1>9. ASSUME NEW h \in Handler, Check(h) PROVE Stage(s)'
  <2>1. /\ s \notin excused /\ conn[s] = "up" /\ Stage(s)
        /\ UNCHANGED <<redis, adapter, dataRoom, rm, self, want, joined>>
        /\ pc[h] = "check" /\ pc' = [pc EXCEPT ![h] = "idle"]
        /\ loc' = [loc EXCEPT ![h] = NoLocals]
    BY <1>9, <1>u DEF Check
  <2>2. h # J(s)
    BY <1>h, <2>1, Lines DEF HandlersOK
  <2>3. CASE h = L(s)
    <3>1. Outside(s) /\ pc'[L(s)] = "idle" /\ pc'[J(s)] = pc[J(s)] /\ rm[L(s)] = NoRemoval
      BY <1>h, <1>t, <2>1, <2>2, <2>3
         DEF Stage, Outside, Joining, Member, Leaving, Busy, HandlersOK
    <3> QED
      BY <2>1, <3>1 DEF Outside, Stage, Busy
  <2>4. CASE h # L(s)
    <3>1. \A g \in {J(s), L(s)} : pc'[g] = pc[g] /\ loc'[g] = loc[g]
      BY <1>h, <1>t, <2>1, <2>2, <2>4
    <3> QED
      BY <2>1, <3>1, StageFrame
  <2> QED
    BY <2>3, <2>4
<1>10. ASSUME NEW h \in Handler, NEW d \in Socket, Fail(h, d) PROVE Stage(s)'
  <2>1. /\ s \notin excused /\ conn[s] = "up" /\ Stage(s)
        /\ UNCHANGED <<adapter, dataRoom, conn, self, want, joined>>
        /\ h[1] # s /\ d # s
    BY <1>10, <1>u DEF Fail
  <2>2. /\ pc' = [pc EXCEPT ![h] = "idle"]
        /\ \E left : rm' = [rm EXCEPT ![h] = left]
        /\ \E l : loc' = [loc EXCEPT ![h] = l]
    BY <1>10 DEF Fail
  <2>3. h # J(s) /\ h # L(s)
    BY <2>1, Lines
  <2>4. \A g \in {J(s), L(s)} : pc'[g] = pc[g] /\ rm'[g] = rm[g] /\ loc'[g] = loc[g]
    BY <1>h, <1>t, <2>2, <2>3
  <2>5. \A r \in Room : redis'[r][s] = redis[r][s]
    <3>1. \/ redis' = redis
          \/ redis' = Put(loc[h].room, d, loc[h].peer)
          \/ redis' = Put(loc[h].room, d, None)
          \/ redis' = Cleared(loc[h].room) /\ s \notin Entries(loc[h].room)
      BY <1>10 DEF Fail
    <3>2. loc[h].peer \in Peer \cup {None}
      BY <1>t DEF Locals
    <3> QED
      BY <1>t, <2>1, <3>1, <3>2, PutType, ClearedType DEF Entries
  <2> QED
    BY <2>1, <2>4, <2>5, StageFrame
<1>11. ASSUME NEW q \in Room, RoomExpires(q) PROVE Stage(s)'
  <2>1. s \notin excused /\ conn[s] = "up" /\ Stage(s) /\ s \notin Entries(q)
    BY <1>11, <1>u DEF RoomExpires
  <2>2. \A r \in Room : redis'[r][s] = redis[r][s]
    BY <1>11, <1>t, <2>1, ClearedType DEF RoomExpires, Entries
  <2> QED
    BY <1>11, <2>1, <2>2, StageFrame DEF RoomExpires
<1>12. ASSUME Restart PROVE Stage(s)'
  BY <1>12, <1>t DEF Restart
<1>13. CASE UNCHANGED vars
  BY <1>13, <1>u, StageFrame DEF vars
<1> QED
  BY <1>1, <1>2, <1>3, <1>4, <1>5, <1>6, <1>7, <1>8, <1>9, <1>10, <1>11, <1>12, <1>13,
     JoinLine DEF Next, JoinStep, RemoveStep

-----------------------------------------------------------------------------
(* Lanes.                                                                  *)

\* No step but the arrival of a message starts a handler.
LEMMA OnlyMessagesStart ==
  ASSUME TypeOK, HandlersOK, [Next]_vars, NEW g \in Handler, ~Busy(g), Busy(g)'
  PROVE  \/ \E r \in Room : \E p \in Ids[g[1]] : JoinRoom(g, r, p)
         \/ LeaveRoom(g) /\ dataRoom[g[1]] # None
         \/ g = D(g[1]) /\ Disconnect(g[1])
<1> DEFINE Started == \/ \E r \in Room : \E p \in Ids[g[1]] : JoinRoom(g, r, p)
                      \/ LeaveRoom(g) /\ dataRoom[g[1]] # None
                      \/ g = D(g[1]) /\ Disconnect(g[1])
<1>t. /\ rm \in [Handler -> [Socket -> RmOf]] /\ pc \in [Handler -> PcOf]
  BY DEF TypeOK
<1>g. pc[g] = "idle" /\ rm[g] = NoRemoval
  BY DEF Busy
<1>f. pc'[g] = pc[g] => rm'[g] # rm[g]
  BY DEF Busy
<1>1. ASSUME NEW h \in Handler, NEW r \in Room, NEW p \in Ids[h[1]], JoinRoom(h, r, p)
      PROVE  Started
  <2>1. h = g
    BY <1>1, <1>f, <1>t DEF JoinRoom
  <2> QED
    BY <1>1, <2>1
<1>2. ASSUME NEW h \in Handler, LeaveRoom(h)  PROVE Started
  <2>1. h = g /\ dataRoom[g[1]] # None
    BY <1>2, <1>f, <1>t DEF LeaveRoom
  <2> QED
    BY <1>2, <2>1
<1>3. ASSUME NEW s \in Socket, Disconnect(s)  PROVE Started
  <2>1. g = D(s)
    BY <1>3, <1>f, <1>t DEF Disconnect
  <2> QED
    BY <1>3, <2>1, Lines
<1>4. ASSUME NEW h \in Handler, \/ HExists(h) \/ HSet(h) \/ Expire(h) \/ HGetAll(h)
                                \/ HGet(h) \/ Check(h)
      PROVE  FALSE
  <2>1. pc[h] # "idle"
    BY <1>4 DEF HExists, HSet, Expire, HGetAll, HGet, Check
  <2>2. h # g
    BY <1>g, <2>1
  <2>3. HGet(h) => rm'[g] = rm[g]
    <3>1. h[1] \in Socket /\ "hdel" \in RmOf
      BY HandlerType DEF RmOf
    <3> QED
      BY <1>t, <2>2, <3>1, RemovingType DEF HGet
  <2> QED
    BY <1>4, <1>f, <1>t, <2>2, <2>3 DEF HExists, HSet, Expire, HGetAll, HGet, Check, Announce
<1>5. ASSUME NEW h \in Handler, NEW d \in Socket, HDel(h, d) \/ HLen(h, d) \/ Del(h, d)
      PROVE  FALSE
  <2>1. rm[h][d] # "none" /\ h # g
    BY <1>5, <1>g DEF HDel, HLen, Del, NoRemoval
  <2>2. CASE Removed(h, d)
    BY <1>f, <2>1, <2>2, RemovedEffect
  <2>3. CASE pc' = pc /\ \E e \in RmOf : rm' = Removing(h, d, e)
    BY <1>f, <1>t, <2>1, <2>3, RemovingType
  <2> QED
    BY <1>5, <2>2, <2>3 DEF HDel, HLen, Del, RmOf
<1>6. ASSUME NEW h \in Handler, NEW d \in Socket, Fail(h, d)  PROVE FALSE
  <2> DEFINE left == [rm[h] EXCEPT ![d] = "none"]
  <2>1. pc' = [pc EXCEPT ![h] = "idle"] /\ rm' = [rm EXCEPT ![h] = left]
    BY <1>6 DEF Fail
  <2>2. rm[h] = NoRemoval => left = NoRemoval
    BY DEF NoRemoval
  <2> HIDE DEF left
  <2> QED
    BY <1>f, <1>g, <1>t, <2>1, <2>2
<1>7. ~Restart
  BY DEF Restart, Busy
<1>8. ~(pc' = pc /\ rm' = rm)
  BY <1>f
<1> QED
  BY <1>1, <1>2, <1>3, <1>4, <1>5, <1>6, <1>7, <1>8
     DEF Next, vars, Connect, JoinStep, RemoveStep, RoomExpires

LEMMA ExcusedGrows == [Next]_vars => excused \subseteq excused'
BY DEF Next, vars, Connect, JoinRoom, LeaveRoom, Disconnect, JoinStep, HExists, HSet, Expire,
       HGetAll, HGet, RemoveStep, HDel, HLen, Del, Check, Fail, RoomExpires, Restart

LEMMA LanesNext == TypeOK /\ HandlersOK /\ LanesOK /\ StagesOK /\ [Next]_vars => LanesOK'
<1> SUFFICES ASSUME TypeOK, HandlersOK, LanesOK, StagesOK, [Next]_vars,
                    NEW g \in Handler, g[3] # 1, g[1] \notin excused', Busy(g)'
             PROVE  FALSE
  BY DEF LanesOK
<1>1. ~Busy(g)
  BY ExcusedGrows DEF LanesOK
<1>2. \A s \in Socket : g # J(s) /\ g # L(s) /\ g # D(s)
  BY DEF J, L, D
<1>3. g[1] \in Socket
  BY HandlerType
<1> QED
  BY <1>1, <1>2, <1>3, OnlyMessagesStart, JoinAlone, LeaveAlone

-----------------------------------------------------------------------------
(* Removals.                                                               *)

\* A removal is started for the handler that waits for it, and none by a step
\* of another removal.
LEMMA GetRemovals ==
  ASSUME TypeOK, NEW h \in Handler, HGet(h)
  PROVE  \A g \in Handler \ {h} : rm'[g] = rm[g]
<1>1. h[1] \in Socket /\ "hdel" \in RmOf /\ rm' = Removing(h, h[1], "hdel")
  BY HandlerType DEF HGet, RmOf
<1>2. rm \in [Handler -> [Socket -> RmOf]]
  BY DEF TypeOK
<1> QED
  BY <1>1, <1>2, RemovingType

LEMMA RemoveRemovals ==
  ASSUME TypeOK, NEW h \in Handler, NEW c \in Socket, HDel(h, c) \/ HLen(h, c) \/ Del(h, c)
  PROVE  \A g \in Handler, d \in Socket : rm'[g][d] # "none" => rm[g][d] # "none"
<1>1. rm[h][c] # "none" /\ rm \in [Handler -> [Socket -> RmOf]]
  BY DEF HDel, HLen, Del, TypeOK
<1>2. CASE Removed(h, c)
  BY <1>1, <1>2, RemovedEffect
<1>3. ASSUME NEW e \in RmOf, rm' = Removing(h, c, e)
      PROVE  \A g \in Handler, d \in Socket : rm'[g][d] # "none" => rm[g][d] # "none"
  <2> DEFINE next == Removing(h, c, e)
  <2>1. \A d \in Socket \ {c} : next[h][d] = rm[h][d]
    BY <1>1, RemovingType
  <2>2. \A g \in Handler \ {h} : next[g] = rm[g]
    BY <1>1, RemovingType
  <2> HIDE DEF next
  <2>3. rm' = next
    BY <1>3 DEF next
  <2> QED
    BY <1>1, <2>1, <2>2, <2>3
<1> QED
  BY <1>2, <1>3 DEF HDel, HLen, Del, RmOf

LEMMA RemovalsNext ==
  TypeOK /\ HandlersOK /\ ConnectedOK /\ StagesOK /\ RemovalsOK /\ [Next]_vars => RemovalsOK'
<1> SUFFICES ASSUME TypeOK, HandlersOK, ConnectedOK, StagesOK, RemovalsOK, [Next]_vars,
                    NEW g \in Handler, g[2] = "join", NEW d \in Socket, d \notin excused'
             PROVE  rm'[g][d] # "none" => conn'[d] = "down"
  BY DEF RemovalsOK
<1>s. SUFFICES ASSUME rm'[g][d] # "none" PROVE conn'[d] = "down"
  OBVIOUS
<1>t. /\ rm \in [Handler -> [Socket -> RmOf]] /\ conn \in [Socket -> {"new", "up", "down"}]
  BY DEF TypeOK
<1>e. excused \subseteq excused'
  BY ExcusedGrows
<1>c. conn[d] = "down" => conn'[d] = "down"
  <2>1. \/ conn' = conn
        \/ \E x \in Socket : Connect(x) \/ Disconnect(x)
        \/ Restart
    BY DEF Next, vars, JoinRoom, LeaveRoom, JoinStep, HExists, HSet, Expire, HGetAll, HGet,
           RemoveStep, HDel, HLen, Del, Check, Fail, RoomExpires
  <2>2. Restart => \A x \in Socket : conn'[x] = IF conn[x] = "up" THEN "down" ELSE conn[x]
    BY DEF Restart
  <2>3. ASSUME NEW x \in Socket, Connect(x) \/ Disconnect(x)
        PROVE  x # d \/ conn[d] # "down"
    BY <2>3 DEF Connect, Disconnect
  <2>4. ASSUME NEW x \in Socket, Connect(x) \/ Disconnect(x), x # d
        PROVE  conn'[d] = conn[d]
    BY <1>t, <2>4 DEF Connect, Disconnect
  <2> QED
    BY <2>1, <2>2, <2>3, <2>4
<1>o. rm[g][d] # "none" => conn'[d] = "down"
  BY <1>c, <1>e DEF RemovalsOK
<1>1. ASSUME NEW x \in Handler, HGetAll(x) PROVE conn'[d] = "down"
  <2> DEFINE dead == Dead(loc[x].room)
  <2>1. \/ rm' = rm
        \/ rm' = [rm EXCEPT ![x] = [c \in Socket |-> IF c \in dead THEN "hdel" ELSE "none"]]
    BY <1>1 DEF HGetAll
  <2>2. rm[g][d] = "none" => d \in dead
    BY <1>s, <1>t, <2>1
  <2>3. CASE d \in dead
    <3> DEFINE r == loc[x].room
    <3>1. pc[x] = "hgetall"
      BY <1>1 DEF HGetAll
    <3>2. r \in Room /\ redis[r][d] # None /\ r \notin adapter[d]
      BY <2>3, <3>1 DEF Dead, Entries, TypeOK, Busy
    <3> HIDE DEF r
    <3>3. conn[d] # "new"
      BY <3>2 DEF ConnectedOK
    <3>4. ~Stage(d)
      BY <3>2 DEF Stage, Outside, Joining, Member, Leaving
    <3>5. conn[d] # "up"
      BY <1>e, <3>4 DEF StagesOK
    <3> QED
      BY <1>c, <1>t, <3>3, <3>5
  <2> QED
    BY <1>o, <2>2, <2>3
<1>2. ASSUME NEW h \in Handler, HGet(h) PROVE conn'[d] = "down"
  <2>1. h # g
    BY <1>2 DEF HGet, HandlersOK
  <2> QED
    BY <1>2, <1>s, <1>o, <2>1, GetRemovals
<1>3. ASSUME NEW h \in Handler, NEW c \in Socket, HDel(h, c) \/ HLen(h, c) \/ Del(h, c)
      PROVE  conn'[d] = "down"
  BY <1>3, <1>s, <1>o, RemoveRemovals
<1>4. ASSUME NEW h \in Handler, NEW c \in Socket, Fail(h, c) PROVE conn'[d] = "down"
  <2> DEFINE left == [rm[h] EXCEPT ![c] = "none"]
  <2>1. rm' = [rm EXCEPT ![h] = left]
    BY <1>4 DEF Fail
  <2>2. \A e \in Socket : left[e] # "none" => rm[h][e] # "none"
    BY <1>t
  <2> HIDE DEF left
  <2>3. rm[g][d] # "none"
    BY <1>s, <1>t, <2>1, <2>2
  <2> QED
    BY <1>o, <2>3
<1>5. Restart => rm'[g][d] = "none"
  BY DEF Restart, NoRemoval
<1>6. CASE rm' = rm
  BY <1>s, <1>o, <1>6
<1> QED
  BY <1>s, <1>1, <1>2, <1>3, <1>4, <1>5, <1>6
     DEF Next, vars, Connect, JoinRoom, LeaveRoom, Disconnect, JoinStep, HExists, HSet, Expire,
         RemoveStep, Check, RoomExpires

-----------------------------------------------------------------------------
(* Views.                                                                  *)

LEMMA JoinedIsMember ==
  ASSUME TypeOK, HandlersOK, ConnectedOK, StagesOK, NEW s \in Socket \ excused, joined[s]
  PROVE  conn[s] = "up" /\ Member(s)
<1>1. conn[s] = "up"
  BY DEF ConnectedOK, TypeOK
<1> QED
  BY <1>1, StageOf DEF StagesOK

\* The end of a join adds to the lists of the others.
LEMMA AnnounceView ==
  ASSUME TypeOK, NEW h \in Handler, NEW seen, Announce(h, seen), NEW s \in Socket, s # h[1]
  PROVE  /\ view[s] \subseteq view'[s]
         /\ loc[h].room \in adapter[s] /\ self[s] # loc[h].peer => loc[h].peer \in view'[s]
BY DEF Announce, ToldJoined, TypeOK

\* A member keeps every other member it lists.
LEMMA StaysListedNext ==
  ASSUME TypeOK, HandlersOK, LanesOK, ConnectedOK, StagesOK, [Next]_vars,
         NEW s \in Socket \ excused, NEW t \in Socket \ excused,
         Together(s, t), joined'[s], joined'[t], self[t] \in view[s]
  PROVE  self[t] \in view'[s]
<1>1. Member(s) /\ Member(t) /\ want[s] = want[t]
  BY JoinedIsMember DEF Together
<1>2. view \in [Socket -> SUBSET Peer] /\ pc \in [Handler -> PcOf]
  BY DEF TypeOK
<1>3. ASSUME NEW x, joined' = [joined EXCEPT ![x] = FALSE], view' = [view EXCEPT ![x] = {}]
      PROVE  self[t] \in view'[s]
  <2>1. joined' = [joined EXCEPT ![x] = FALSE] /\ view' = [view EXCEPT ![x] = {}]
    BY <1>3
  <2>2. x # s
    BY <2>1 DEF TypeOK
  <2> QED
    BY <1>2, <2>1, <2>2
<1>4. ASSUME NEW h \in Handler, h[2] = "join", NEW seen, Announce(h, seen), Busy(h)
      PROVE  self[t] \in view'[s]
  <2>1. h[1] # s
    BY <1>1, <1>4, StepAlone DEF Member
  <2> QED
    BY <1>4, <2>1, AnnounceView
<1>5. ASSUME NEW h \in Handler, h[2] = "join", HGetAll(h) PROVE self[t] \in view'[s]
  BY <1>4, <1>5 DEF HGetAll, Busy
<1>6. ASSUME NEW h \in Handler, NEW d \in Socket, HDel(h, d) \/ HLen(h, d) \/ Del(h, d)
      PROVE  self[t] \in view'[s]
  <2>1. rm[h][d] # "none"
    BY <1>6 DEF HDel, HLen, Del
  <2>2. view' = view \/ AfterRemovals(h)
    BY <1>6, <2>1, RemovedEffect DEF HDel, HLen, Del
  <2>3. Busy(h)
    BY <2>1 DEF Busy, NoRemoval
  <2>4. AfterRemovals(h) =>
          view' = view \/ \E seen \in SUBSET Peer : Announce(h, seen) /\ h[2] = "join"
    BY HandlerType DEF AfterRemovals, TypeOK, Locals
  <2> QED
    BY <1>4, <2>2, <2>3, <2>4
<1>7. ASSUME NEW h \in Handler, Check(h) PROVE self[t] \in view'[s]
  <2> DEFINE r == loc[h].room
             p == loc[h].peer
  <2>1. r \in Room
    BY <1>7 DEF Check, TypeOK, Busy
  <2>2. view' = IF p \in PeersIn(r) THEN view ELSE ToldLeft(r, p)
    BY <1>7 DEF Check
  <2>3. r = want[t] => self[t] \in PeersIn(r)
    BY <1>1, <2>1, NoneAssumption DEF Member, PeersIn, Entries
  <2>4. r \in adapter[s] => r = want[t]
    BY <1>1 DEF Member
  <2> HIDE DEF r, p
  <2>5. r \notin adapter[s] => ToldLeft(r, p)[s] = view[s]
    BY DEF ToldLeft
  <2>6. p # self[t] => self[t] \in ToldLeft(r, p)[s]
    BY DEF ToldLeft
  <2> QED
    BY <2>2, <2>3, <2>4, <2>5, <2>6
<1>8. Restart => joined'[s] = FALSE
  BY DEF Restart
<1>9. CASE view' = view
  BY <1>9
<1> QED
  BY <1>3, <1>5, <1>6, <1>7, <1>8, <1>9, JoinLine
     DEF Next, vars, Connect, JoinRoom, LeaveRoom, Disconnect, JoinStep, HExists, HSet, Expire, HGet, RemoveStep,
         Fail, RoomExpires

\* A socket that becomes a member is told of, or tells, every earlier member.
LEMMA BecomesMember ==
  ASSUME TypeOK, HandlersOK, LanesOK, ConnectedOK, StagesOK, [Next]_vars,
         NEW s \in Socket \ excused', ~joined[s], joined'[s]
  PROVE  /\ \A t \in Socket \ {s} : joined'[t] = joined[t]
         /\ UNCHANGED <<self, want>>
         /\ \A t \in Socket \ excused' :
              joined[t] /\ want[t] = want[s] /\ self[t] # self[s] => self[s] \in view'[t]
<1>1. joined \in [Socket -> BOOLEAN] /\ conn \in [Socket -> {"new", "up", "down"}]
  BY DEF TypeOK
<1>2. ASSUME NEW h \in Handler, h[2] = "join", NEW seen, Announce(h, seen), Busy(h),
             UNCHANGED <<self, want>>, excused \subseteq excused'
      PROVE  /\ \A t \in Socket \ {s} : joined'[t] = joined[t]
             /\ UNCHANGED <<self, want>>
             /\ \A t \in Socket \ excused' :
                  joined[t] /\ want[t] = want[s] /\ self[t] # self[s] => self[s] \in view'[t]
  <2>1. h[1] = s /\ conn[s] = "up" /\ \A t \in Socket \ {s} : joined'[t] = joined[t]
    BY <1>1, <1>2 DEF Announce
  <2>2. h = J(s) /\ Joining(s)
    BY <1>2, <2>1, StepAlone, StageOf DEF StagesOK
  <2>3. ASSUME NEW t \in Socket \ excused', joined[t], want[t] = want[s], self[t] # self[s]
        PROVE  self[s] \in view'[t]
    <3>1. Member(t) /\ t # s
      BY <1>2, <2>3, JoinedIsMember
    <3> QED
      BY <1>2, <2>1, <2>2, <2>3, <3>1, AnnounceView DEF Joining, Member
  <2> QED
    BY <1>2, <2>1, <2>3
<1>3. ASSUME NEW h \in Handler, HGetAll(h)
      PROVE  /\ UNCHANGED joined \/ \E seen : Announce(h, seen)
             /\ Busy(h) /\ UNCHANGED <<self, want, excused>>
  BY <1>3 DEF HGetAll, Busy
<1>4. ASSUME NEW h \in Handler, NEW d \in Socket, HDel(h, d) \/ HLen(h, d) \/ Del(h, d)
      PROVE  /\ Busy(h) /\ (UNCHANGED joined \/ (h[2] = "join" /\ \E seen : Announce(h, seen)))
             /\ UNCHANGED <<self, want>> /\ excused \subseteq excused'
  <2>1. rm[h][d] # "none" /\ UNCHANGED <<self, want>> /\ excused \subseteq excused'
    BY <1>4 DEF HDel, HLen, Del
  <2>2. joined' = joined \/ AfterRemovals(h)
    BY <1>4, <2>1, RemovedEffect DEF HDel, HLen, Del
  <2>3. Busy(h)
    BY <2>1 DEF Busy, NoRemoval
  <2>4. AfterRemovals(h) =>
          joined' = joined \/ (h[2] = "join" /\ \E seen : Announce(h, seen))
    BY HandlerType DEF AfterRemovals
  <2> QED
    BY <2>1, <2>2, <2>3, <2>4
<1>5. ASSUME NEW x, joined' = [joined EXCEPT ![x] = FALSE] PROVE FALSE
  BY <1>1, <1>5
<1>6. ~Restart
  BY DEF Restart
<1>7. joined' # joined
  OBVIOUS
<1> QED
  BY <1>2, <1>3, <1>4, <1>5, <1>6, <1>7, JoinLine
     DEF Next, vars, Connect, JoinRoom, LeaveRoom, Disconnect, JoinStep, HExists, HSet, Expire, HGet, RemoveStep, Check,
         Fail, RoomExpires

\* A member stays in its room under its peer id.
LEMMA StaysMember ==
  ASSUME TypeOK, HandlersOK, LanesOK, ConnectedOK, StagesOK, [Next]_vars,
         NEW s \in Socket \ excused, joined[s], joined'[s]
  PROVE  self'[s] = self[s] /\ want'[s] = want[s]
<1>2. ASSUME NEW h \in Handler, NEW r \in Room, NEW p \in Ids[h[1]], JoinRoom(h, r, p)
      PROVE  self'[s] = self[s] /\ want'[s] = want[s]
  BY <1>2, HandlerType DEF JoinRoom, TypeOK
<1>3. ASSUME NEW x \in Socket, joined' = [joined EXCEPT ![x] = FALSE],
             want' = [want EXCEPT ![x] = None], self' = self
      PROVE  self'[s] = self[s] /\ want'[s] = want[s]
  BY <1>3 DEF TypeOK
<1>4. ~Restart
  BY DEF Restart
<1> QED
  BY <1>2, <1>3, <1>4, HandlerType
     DEF Next, vars, Connect, LeaveRoom, Disconnect, JoinStep, HExists, HSet, Expire, HGetAll, HGet, RemoveStep,
         HDel, HLen, Del, Check, Fail, RoomExpires

LEMMA DiscoveryNext ==
  TypeOK /\ Inv /\ [Next]_vars => MutualDiscovery'
<1> SUFFICES ASSUME TypeOK, Inv, [Next]_vars,
                    NEW s \in Socket \ excused', NEW t \in Socket \ excused', Together(s, t)'
             PROVE  self'[t] \in view'[s] \/ self'[s] \in view'[t]
  BY DEF MutualDiscovery
<1>1. s \notin excused /\ t \notin excused
  BY ExcusedGrows
<1>2. joined'[s] /\ joined'[t] /\ want'[s] = want'[t] /\ self'[s] # self'[t]
  BY DEF Together
<1>3. CASE ~joined[s]
  <2>1. joined[t] /\ UNCHANGED <<self, want>>
    BY <1>2, <1>3, BecomesMember DEF Inv
  <2> QED
    BY <1>2, <1>3, <2>1, BecomesMember DEF Inv
<1>4. CASE ~joined[t]
  <2>1. joined[s] /\ UNCHANGED <<self, want>>
    BY <1>2, <1>4, BecomesMember DEF Inv
  <2> QED
    BY <1>2, <1>4, <2>1, BecomesMember DEF Inv
<1>5. CASE joined[s] /\ joined[t]
  <2>1. /\ self'[s] = self[s] /\ want'[s] = want[s] /\ self'[t] = self[t]
        /\ want'[t] = want[t]
    BY <1>1, <1>2, <1>5, StaysMember DEF Inv
  <2>2. Together(s, t) /\ Together(t, s)
    BY <1>2, <1>5, <2>1 DEF Together
  <2>3. self[t] \in view[s] \/ self[s] \in view[t]
    BY <1>1, <2>2 DEF Inv, MutualDiscovery
  <2> QED
    BY <1>1, <1>2, <2>1, <2>2, <2>3, StaysListedNext DEF Inv
<1> QED
  BY <1>3, <1>4, <1>5

-----------------------------------------------------------------------------
(* The theorems.                                                           *)

LEMMA InvInit == Init => Inv
<1> SUFFICES ASSUME Init PROVE Inv
  OBVIOUS
<1>1. \A h \in Handler : pc[h] = "idle" /\ rm[h] = NoRemoval /\ ~Busy(h)
  BY DEF Init, Busy
<1>2. HandlersOK
  BY <1>1 DEF HandlersOK, NoRemoval
<1>7. LanesOK
  BY <1>1 DEF LanesOK
<1>3. ConnectedOK
  BY <1>1, HandlerType DEF Init, ConnectedOK, NoEntry
<1>4. StagesOK
  BY DEF Init, StagesOK
<1>5. RemovalsOK
  BY <1>1, HandlerType DEF RemovalsOK, NoRemoval
<1>6. MutualDiscovery
  BY DEF Init, MutualDiscovery, Together
<1> QED
  BY <1>2, <1>3, <1>4, <1>5, <1>6, <1>7 DEF Inv

LEMMA InvNext == TypeOK /\ Inv /\ [Next]_vars => TypeOK' /\ Inv'
BY TypeNext, HandlersNext, LanesNext, ConnectedNext, StagesNext, RemovalsNext, DiscoveryNext
   DEF Inv

LEMMA Invariance == Spec => [](TypeOK /\ Inv)
<1>1. Init => TypeOK /\ Inv
  BY TypeInit, InvInit
<1>2. (TypeOK /\ Inv) /\ [Next]_vars => (TypeOK /\ Inv)'
  BY InvNext
<1> QED
  BY <1>1, <1>2, PTL DEF Spec

\* The types of the gateway's and the service's variables, in every behaviour.
THEOREM Typing == Spec => []TypeOK
BY Invariance, PTL

\* Where every unspoilt socket stands, handler by handler; MutualDiscovery is
\* one part of it.
THEOREM Stages == Spec => []Inv
BY Invariance, PTL

\* Of two clients that have both been told they are in a room, one lists the
\* other: for every set of sockets, rooms and peers, every number of handlers
\* in flight, every order of Redis's answers and every fault.
THEOREM Discovery == Spec => []MutualDiscovery
<1>1. Inv => MutualDiscovery
  BY DEF Inv
<1> QED
  BY <1>1, Invariance, PTL

\* A member never loses from its list a peer that is still a member, whatever
\* other socket of that peer closes meanwhile.
THEOREM Staying == Spec => StaysListed
<1>1. TypeOK /\ Inv /\ [Next]_vars =>
        [\A s, t \in Socket \ excused' :
           Together(s, t) /\ joined'[s] /\ joined'[t] /\ self[t] \in view[s]
             => self[t] \in view'[s]]_vars
  BY StaysListedNext, ExcusedGrows DEF Inv
<1> QED
  BY <1>1, Invariance, PTL DEF Spec, StaysListed

-----------------------------------------------------------------------------
(***************************************************************************)
(* ExactRegistry, for every set of sockets, rooms and peers, every order   *)
(* of Redis's answers and every fault: what becomes of the entries of      *)
(* sockets that have closed, or were cut off by a restart of the server.   *)
(***************************************************************************)

\* A handler of the closed socket d will still remove its entry in room r.
Going(d, r) ==
  \E h \in {L(d), D(d)} : loc[h].room = r /\ (pc[h] = "hget" \/ rm[h][d] = "hdel")
\* The client of s has been told it is in room r.
Told(s, r) == joined[s] /\ want[s] = r
\* The join h of room r has looked at the entry of d and is done with it.
Swept(h, d, r) == h[2] = "join" /\ loc[h].room = r /\ pc[h] = "remove" /\ rm[h][d] # "hdel"
\* A closed socket adds no entry; one it left goes, or no join of a member has seen it.
Gone(d) ==
  /\ pc[J(d)] \notin {"hexists", "hset"}
  /\ \A r \in Room :
       redis[r][d] # None => \/ Going(d, r)
                             \/ /\ \A s \in Socket : ~Told(s, r)
                                /\ \A h \in Handler : ~Swept(h, d, r)

DepartedOK == \A d \in Socket \ excused : conn[d] = "down" => Gone(d)
WantsOK == \A s \in Socket : joined[s] => want[s] \in Room
ExactInv == DepartedOK /\ WantsOK

-----------------------------------------------------------------------------
(* What a step does to the entries of a closed socket.                     *)

\* Its join handler does not come back to HEXISTS or HSET, and adds no entry.
LEMMA DepartedEntry ==
  ASSUME TypeOK, HandlersOK, LanesOK, [Next]_vars, NEW d \in Socket, d \notin excused',
         d \notin excused, conn[d] = "down", pc[J(d)] \notin {"hexists", "hset"}
  PROVE  /\ pc'[J(d)] \notin {"hexists", "hset"}
         /\ \A r \in Room : redis'[r][d] \in {redis[r][d], None}
<1> DEFINE Same == /\ pc'[J(d)] \notin {"hexists", "hset"}
                   /\ \A r \in Room : redis'[r][d] \in {redis[r][d], None}
<1>t. /\ redis \in [Room -> [Socket -> Peer \cup {None}]] /\ pc \in [Handler -> PcOf]
      /\ loc \in [Handler -> Locals]
  BY DEF TypeOK
<1>h. J(d) \in Handler
  BY HandlerType
<1>1. ASSUME NEW x \in Handler, NEW r \in Room, NEW p \in Ids[x[1]], JoinRoom(x, r, p)
      PROVE  Same
  <2>1. x[1] # d  BY <1>1 DEF JoinRoom
  <2>2. x # J(d)  BY <2>1, Lines
  <2> QED  BY <1>1, <1>t, <1>h, <2>2 DEF JoinRoom
<1>2. ASSUME NEW x \in Handler, LeaveRoom(x)  PROVE Same
  <2>1. x # J(d)  BY <1>2, Lines DEF LeaveRoom
  <2> QED  BY <1>2, <1>t, <1>h, <2>1 DEF LeaveRoom
<1>11. ASSUME NEW x \in Socket, Disconnect(x)  PROVE Same
  <2>1. D(x) # J(d)  BY Lines
  <2> QED  BY <1>11, <1>t, <1>h, <2>1 DEF Disconnect
<1>3. ASSUME NEW x \in Handler, HExists(x) \/ HSet(x) \/ Expire(x)  PROVE Same
  <2>1. x[1] \in Socket /\ loc[x].peer \in Peer \cup {None} /\ Busy(x)
    BY <1>3, <1>t, HandlerType DEF Locals, HExists, HSet, Expire, Busy
  <2>2. CASE x[1] = d
    <3>1. x[2] = "join"  BY <1>3, JoinLine DEF JoinStep
    <3>2. x = J(d)  BY <2>1, <2>2, <3>1, StepAlone
    <3> QED  BY <1>3, <1>t, <1>h, <3>2, Lines DEF HExists, HSet, Expire
  <2>3. CASE x[1] # d
    <3>1. x # J(d)  BY <2>3, Lines
    <3> QED  BY <1>3, <1>t, <1>h, <2>1, <2>3, <3>1, PutType DEF HExists, HSet, Expire
  <2> QED  BY <2>2, <2>3
<1>4. ASSUME NEW x \in Handler, HGetAll(x)  PROVE Same
  BY <1>4, <1>t, <1>h DEF HGetAll, Announce
<1>5. ASSUME NEW h \in Handler, HGet(h) \/ Check(h)  PROVE Same
  BY <1>5, <1>t, <1>h DEF HGet, Check
<1>6. ASSUME NEW h \in Handler, NEW c \in Socket, HDel(h, c) \/ HLen(h, c) \/ Del(h, c)
      PROVE  Same
  <2>1. rm[h][c] # "none"  BY <1>6 DEF HDel, HLen, Del
  <2>2. \A r \in Room : redis'[r][d] \in {redis[r][d], None}
    BY <1>6, <1>t, PutType, ClearedType DEF HDel, HLen, Del
  <2>3. pc' = pc \/ Removed(h, c)  BY <1>6 DEF HDel, HLen, Del
  <2>4. ASSUME AfterRemovals(h)  PROVE pc'[J(d)] \in {pc[J(d)], "idle", "check"}
    BY <2>4, <1>t, <1>h DEF AfterRemovals, Announce
  <2>5. Removed(h, c) => pc' = pc \/ AfterRemovals(h)
    BY <2>1, RemovedEffect
  <2> QED  BY <2>2, <2>3, <2>4, <2>5
<1>7. ASSUME NEW h \in Handler, NEW c \in Socket, Fail(h, c)  PROVE Same
  <2>1. c # d  BY <1>7 DEF Fail
  <2>2. loc[h].peer \in Peer \cup {None}  BY <1>t DEF Locals
  <2>3. \A r \in Room : redis'[r][d] \in {redis[r][d], None}
    BY <1>7, <1>t, <2>1, <2>2, PutType, ClearedType DEF Fail
  <2> QED  BY <1>7, <1>t, <1>h, <2>3 DEF Fail
<1>8. ASSUME NEW r \in Room, RoomExpires(r)  PROVE Same
  BY <1>8, <1>t, ClearedType DEF RoomExpires
<1>9. Restart => Same
  BY <1>h DEF Restart
<1>10. ASSUME NEW x \in Socket, Connect(x)  PROVE Same
  BY <1>10 DEF Connect
<1> QED
  BY <1>1, <1>2, <1>3, <1>4, <1>5, <1>6, <1>7, <1>8, <1>9, <1>10, <1>11
     DEF Next, JoinStep, RemoveStep, vars

\* A handler that will remove the entry still will, or has.
LEMMA GoingNext ==
  ASSUME TypeOK, HandlersOK, [Next]_vars, NEW d \in Socket, d \notin excused', d \notin excused,
         conn[d] = "down", NEW r \in Room, Going(d, r), ~Restart
  PROVE  redis'[r][d] = None \/ Going(d, r)'
<1>t. /\ redis \in [Room -> [Socket -> Peer \cup {None}]] /\ pc \in [Handler -> PcOf]
      /\ rm \in [Handler -> [Socket -> RmOf]] /\ loc \in [Handler -> Locals]
  BY DEF TypeOK
<1>1. PICK h \in {L(d), D(d)} : loc[h].room = r /\ (pc[h] = "hget" \/ rm[h][d] = "hdel")
  BY DEF Going
<1>2. h \in Handler /\ h[1] = d /\ h[2] # "join" /\ \A x \in Handler : x[2] = "join" => h # x
  BY HandlerType, Lines
<1>3. pc[h] \in {"hget", "remove"}
  <2>1. rm[h][d] = "hdel" => rm[h] # NoRemoval  BY DEF NoRemoval
  <2> QED  BY <1>1, <1>2, <2>1 DEF HandlersOK
<1>f. pc'[h] = pc[h] /\ rm'[h] = rm[h] /\ loc'[h] = loc[h] => Going(d, r)'
  BY <1>1 DEF Going
<1>4. ASSUME NEW x \in Handler, NEW q \in Room, NEW p \in Ids[x[1]], JoinRoom(x, q, p)
      PROVE  Going(d, r)'
  <2>1. h # x  BY <1>4, <1>2 DEF JoinRoom
  <2> QED  BY <1>4, <1>f, <1>t, <1>2, <2>1 DEF JoinRoom
<1>5. ASSUME NEW x \in Handler, LeaveRoom(x)  PROVE Going(d, r)'
  <2>1. x # h  BY <1>5, <1>2 DEF LeaveRoom
  <2> QED  BY <1>5, <1>f, <1>t, <1>2, <2>1 DEF LeaveRoom
<1>14. ASSUME NEW x \in Socket, Disconnect(x)  PROVE Going(d, r)'
  <2>1. x # d  BY <1>14 DEF Disconnect
  <2>2. D(x) # h  BY <1>2, <2>1, Lines
  <2> QED  BY <1>14, <1>f, <1>t, <1>2, <2>2 DEF Disconnect
<1>6. ASSUME NEW x \in Handler, HExists(x) \/ HSet(x) \/ Expire(x)  PROVE Going(d, r)'
  <2>1. x # h  BY <1>6, <1>2, JoinLine DEF JoinStep
  <2> QED  BY <1>6, <1>f, <1>t, <1>2, <2>1 DEF HExists, HSet, Expire
<1>7. ASSUME NEW x \in Handler, HGetAll(x)  PROVE Going(d, r)'
  <2>1. x # h  BY <1>7, <1>2, JoinLine DEF JoinStep
  <2>2. \/ rm' = rm /\ \E seen : Announce(x, seen)
        \/ /\ pc' = [pc EXCEPT ![x] = "remove"]
           /\ \E seen : loc' = [loc EXCEPT ![x].seen = seen]
           /\ \E started : rm' = [rm EXCEPT ![x] = started]
    BY <1>7 DEF HGetAll
  <2> QED  BY <1>f, <1>t, <1>2, <2>1, <2>2 DEF Announce
<1>8. ASSUME NEW g \in Handler, HGet(g)  PROVE Going(d, r)'
  <2>1. /\ pc' = [pc EXCEPT ![g] = "remove"] /\ rm' = Removing(g, g[1], "hdel")
        /\ loc' = [loc EXCEPT ![g].peer = redis[loc[g].room][g[1]]]
    BY <1>8 DEF HGet
  <2>2. g[1] \in Socket /\ "hdel" \in RmOf  BY HandlerType DEF RmOf
  <2>3. CASE g = h
    <3>1. rm'[h][d] = "hdel"  BY <1>t, <1>2, <2>1, <2>2, <2>3, RemovingType
    <3>2. loc'[h].room = r  BY <1>t, <1>1, <1>2, <2>1, <2>3 DEF Locals
    <3> QED  BY <3>1, <3>2 DEF Going
  <2>4. CASE g # h
    BY <1>f, <1>t, <1>2, <2>1, <2>2, <2>4, RemovingType
  <2> QED  BY <2>3, <2>4
<1>9. ASSUME NEW g \in Handler, NEW c \in Socket, HDel(g, c)
      PROVE  redis'[r][d] = None \/ Going(d, r)'
  <2>1. /\ rm' = Removing(g, c, "hlen") /\ UNCHANGED <<pc, loc>>
        /\ redis' = Put(loc[g].room, c, None) /\ rm[g][c] # "none"
    BY <1>9 DEF HDel
  <2>2. "hlen" \in RmOf  BY DEF RmOf
  <2>3. CASE g = h
    <3>1. c = d  BY <1>2, <2>1, <2>3, Lines DEF HandlersOK
    <3> QED  BY <1>t, <1>1, <2>1, <2>3, <3>1, PutType
  <2>4. CASE g # h
    BY <1>f, <1>t, <1>2, <2>1, <2>2, <2>4, RemovingType
  <2> QED  BY <2>3, <2>4
<1>10. ASSUME NEW g \in Handler, NEW c \in Socket, HLen(g, c) \/ Del(g, c)
       PROVE  Going(d, r)'
  <2>1. rm[g][c] \in {"hlen", "del"}  BY <1>10 DEF HLen, Del
  <2>2. g # h
    <3>1. ASSUME g = h  PROVE FALSE
      <4>1. c = d  BY <1>2, <2>1, <3>1, Lines DEF HandlersOK
      <4>2. pc[h] = "hget"  BY <1>1, <2>1, <3>1, <4>1
      <4>3. rm[h] = NoRemoval  BY <1>2, <4>2 DEF HandlersOK
      <4> QED  BY <2>1, <3>1, <4>3 DEF NoRemoval
    <3> QED  BY <3>1
  <2>3. \/ Removed(g, c)
        \/ UNCHANGED <<pc, loc>> /\ rm' = Removing(g, c, "del")
    BY <1>10 DEF HLen, Del
  <2>4. CASE Removed(g, c)
    BY <1>f, <1>2, <2>1, <2>2, <2>4, RemovedEffect
  <2>5. CASE UNCHANGED <<pc, loc>> /\ rm' = Removing(g, c, "del")
    <3>1. "del" \in RmOf  BY DEF RmOf
    <3> QED  BY <1>f, <1>t, <1>2, <2>2, <2>5, <3>1, RemovingType
  <2> QED  BY <2>3, <2>4, <2>5
<1>11. ASSUME NEW g \in Handler, Check(g)  PROVE Going(d, r)'
  <2>1. g # h  BY <1>3, <1>11 DEF Check
  <2> QED  BY <1>f, <1>t, <1>2, <1>11, <2>1 DEF Check
<1>12. ASSUME NEW g \in Handler, NEW c \in Socket, Fail(g, c)  PROVE Going(d, r)'
  <2>1. g # h  BY <1>2, <1>12 DEF Fail
  <2>2. /\ pc' = [pc EXCEPT ![g] = "idle"]
        /\ \E left : rm' = [rm EXCEPT ![g] = left]
        /\ \E new : loc' = [loc EXCEPT ![g] = new]
    BY <1>12 DEF Fail
  <2> QED  BY <1>f, <1>t, <1>2, <2>1, <2>2
<1>13. ASSUME UNCHANGED <<pc, rm, loc>>  PROVE Going(d, r)'
  BY <1>13, <1>f
<1> QED
  BY <1>4, <1>5, <1>6, <1>7, <1>8, <1>9, <1>10, <1>11, <1>12, <1>13, <1>14
     DEF Next, JoinStep, RemoveStep, Connect, RoomExpires, vars

\* No join gets past an entry of a closed socket without removing it.
LEMMA SweptNext ==
  ASSUME TypeOK, HandlersOK, [Next]_vars, NEW d \in Socket, adapter[d] = {},
         NEW r \in Room, redis[r][d] # None, redis'[r][d] # None,
         NEW k \in Handler, Swept(k, d, r)'
  PROVE  Swept(k, d, r)
<1>t. /\ redis \in [Room -> [Socket -> Peer \cup {None}]] /\ pc \in [Handler -> PcOf]
      /\ rm \in [Handler -> [Socket -> RmOf]] /\ loc \in [Handler -> Locals]
  BY DEF TypeOK
<1>k. k[2] = "join" /\ pc[k] \notin {"hget", "check"}
  BY DEF Swept, HandlersOK
<1>f. ASSUME \/ loc'[k] = loc[k] /\ pc'[k] = pc[k] /\ rm'[k] = rm[k]
             \/ pc'[k] # "remove"
      PROVE  Swept(k, d, r)
  BY <1>f DEF Swept
<1>1. ASSUME NEW x \in Handler, NEW q \in Room, NEW p \in Ids[x[1]], JoinRoom(x, q, p)
      PROVE  Swept(k, d, r)
  BY <1>1, <1>f, <1>t DEF JoinRoom
<1>2. ASSUME NEW x \in Handler, LeaveRoom(x)  PROVE Swept(k, d, r)
  <2>1. x # k  BY <1>2, <1>k DEF LeaveRoom
  <2> QED  BY <1>2, <1>f, <1>t, <2>1 DEF LeaveRoom
<1>12. ASSUME NEW x \in Socket, Disconnect(x)  PROVE Swept(k, d, r)
  <2>1. D(x) # k  BY <1>k, Lines
  <2> QED  BY <1>12, <1>f, <1>t, <2>1 DEF Disconnect
<1>3. ASSUME NEW x \in Handler, HExists(x) \/ HSet(x) \/ Expire(x)  PROVE Swept(k, d, r)
  <2>1. UNCHANGED <<loc, rm>>  BY <1>3 DEF HExists, HSet, Expire
  <2>2. pc'[k] = pc[k] \/ pc'[k] # "remove"
    BY <1>3, <1>t DEF HExists, HSet, Expire
  <2> QED  BY <1>f, <2>1, <2>2
<1>4. ASSUME NEW x \in Handler, HGetAll(x)  PROVE Swept(k, d, r)
  <2> DEFINE dead == Dead(loc[x].room)
             started == [c \in Socket |-> IF c \in dead THEN "hdel" ELSE "none"]
  <2>1. \/ rm' = rm /\ \E seen : Announce(x, seen)
        \/ /\ pc' = [pc EXCEPT ![x] = "remove"] /\ rm' = [rm EXCEPT ![x] = started]
           /\ \E seen : loc' = [loc EXCEPT ![x].seen = seen]
    BY <1>4 DEF HGetAll
  <2>2. CASE x = k
    <3>1. CASE \E seen : Announce(x, seen)
      BY <1>f, <1>t, <2>2, <3>1 DEF Announce
    <3>2. CASE /\ rm' = [rm EXCEPT ![x] = started]
               /\ \E seen : loc' = [loc EXCEPT ![x].seen = seen]
      <4>1. loc'[k].room = loc[k].room
        BY <1>t, <2>2, <3>2 DEF Locals
      <4>2. rm'[k][d] = started[d]  BY <1>t, <2>2, <3>2
      <4>3. loc[k].room = r => d \in dead
        BY <2>2 DEF Dead, Entries
      <4>4. loc'[k].room = r => rm'[k][d] = "hdel"
        BY <4>1, <4>2, <4>3
      <4> HIDE DEF started
      <4> QED  BY <4>4 DEF Swept
    <3> QED  BY <2>1, <3>1, <3>2
  <2>3. CASE x # k
    <3> HIDE DEF started
    <3> QED  BY <1>f, <1>t, <2>1, <2>3 DEF Announce
  <2> QED  BY <2>2, <2>3
<1>5. ASSUME NEW h \in Handler, HGet(h)  PROVE Swept(k, d, r)
  <2>1. h # k  BY <1>5, <1>k DEF HGet
  <2>2. pc' = [pc EXCEPT ![h] = "remove"] /\ \E p : loc' = [loc EXCEPT ![h].peer = p]
    BY <1>5 DEF HGet
  <2> QED  BY <1>5, <1>f, <1>t, <2>1, <2>2, GetRemovals
<1>6. ASSUME NEW h \in Handler, Check(h)  PROVE Swept(k, d, r)
  BY <1>6, <1>f, <1>t DEF Check
<1>7. ASSUME NEW h \in Handler, NEW c \in Socket, HDel(h, c)  PROVE Swept(k, d, r)
  <2>1. /\ rm' = Removing(h, c, "hlen") /\ UNCHANGED <<pc, loc>>
        /\ redis' = Put(loc[h].room, c, None) /\ "hlen" \in RmOf
    BY <1>7 DEF HDel, RmOf
  <2>2. CASE h = k /\ c = d
    <3>1. loc[k].room = r => redis'[r][d] = None
      BY <1>t, <2>1, <2>2, PutType
    <3> QED  BY <2>1, <3>1 DEF Swept
  <2>3. CASE h = k /\ c # d
    <3>1. \A e \in Socket \ {c} : rm'[h][e] = rm[h][e]
      BY <1>t, <2>1, RemovingType
    <3> QED  BY <2>1, <2>3, <3>1 DEF Swept
  <2>4. CASE h # k
    <3>1. rm'[k] = rm[k]
      BY <1>t, <2>1, <2>4, RemovingType
    <3> QED  BY <2>1, <3>1 DEF Swept
  <2> QED  BY <2>2, <2>3, <2>4
<1>8. ASSUME NEW h \in Handler, NEW c \in Socket, HLen(h, c) \/ Del(h, c)
      PROVE  Swept(k, d, r)
  <2>1. rm[h][c] \in {"hlen", "del"}  BY <1>8 DEF HLen, Del
  <2>2. \/ Removed(h, c)
        \/ UNCHANGED <<pc, loc>> /\ rm' = Removing(h, c, "del")
    BY <1>8 DEF HLen, Del
  <2>3. CASE UNCHANGED <<pc, loc>> /\ rm' = Removing(h, c, "del")
    <3>1. "del" \in RmOf /\ rm' = Removing(h, c, "del")  BY <2>3 DEF RmOf
    <3>2. \A e \in Socket \ {c} : rm'[h][e] = rm[h][e]
      BY <1>t, <3>1, RemovingType
    <3>3. \A g \in Handler \ {h} : rm'[g] = rm[g]
      BY <1>t, <3>1, RemovingType
    <3>4. rm'[k][d] = rm[k][d] \/ (h = k /\ c = d)
      BY <3>2, <3>3
    <3>5. rm'[k][d] # "hdel" => rm[k][d] # "hdel"
      BY <2>1, <3>4
    <3> QED  BY <2>3, <3>5 DEF Swept
  <2>4. CASE Removed(h, c) /\ h # k
    BY <1>f, <2>1, <2>4, RemovedEffect
  <2>5. CASE Removed(h, c) /\ h = k
    <3>1. rm'[h][c] = "none" /\ \A e \in Socket \ {c} : rm'[h][e] = rm[h][e]
      BY <2>1, <2>5, RemovedEffect
    <3>2. rm'[k][d] # "hdel" => rm[k][d] # "hdel"
      BY <2>1, <2>5, <3>1
    <3>3. CASE pc' = pc /\ (loc'[h] = loc[h] \/ pc[h] = "idle")
      BY <2>5, <3>2, <3>3 DEF Swept
    <3>4. CASE AfterRemovals(h)
      BY <1>f, <1>k, <1>t, <2>5, <3>4 DEF AfterRemovals, Announce
    <3> QED  BY <2>1, <2>5, <3>3, <3>4, RemovedEffect
  <2> QED  BY <2>2, <2>3, <2>4, <2>5
<1>9. ASSUME NEW h \in Handler, NEW c \in Socket, Fail(h, c)  PROVE Swept(k, d, r)
  <2>1. /\ pc' = [pc EXCEPT ![h] = "idle"]
        /\ \E left : rm' = [rm EXCEPT ![h] = left]
        /\ \E new : loc' = [loc EXCEPT ![h] = new]
    BY <1>9 DEF Fail
  <2> QED  BY <1>f, <1>t, <2>1
<1>10. ~Restart
  BY DEF Restart, Swept
<1>11. ASSUME UNCHANGED <<pc, rm, loc>>  PROVE Swept(k, d, r)
  BY <1>f, <1>11
<1> QED
  BY <1>1, <1>2, <1>3, <1>4, <1>5, <1>6, <1>7, <1>8, <1>9, <1>10, <1>11, <1>12
     DEF Next, JoinStep, RemoveStep, Connect, RoomExpires, vars

\* Nobody is told of a room that holds an entry of a closed socket his join has not
\* done with.
LEMMA ToldNext ==
  ASSUME TypeOK, HandlersOK, [Next]_vars, NEW d \in Socket, adapter[d] = {},
         NEW r \in Room, redis[r][d] # None, NEW s \in Socket, Told(s, r)'
  PROVE  Told(s, r) \/ \E h \in Handler : Swept(h, d, r)
<1>t. /\ pc \in [Handler -> PcOf] /\ rm \in [Handler -> [Socket -> RmOf]]
      /\ joined \in [Socket -> BOOLEAN] /\ want \in [Socket -> Room \cup {None}]
  BY DEF TypeOK
<1>f. ASSUME joined'[s] => joined[s], joined'[s] => want'[s] = want[s]  PROVE Told(s, r)
  BY <1>f DEF Told
<1>1. ASSUME NEW x \in Handler, NEW q \in Room, NEW p \in Ids[x[1]], JoinRoom(x, q, p)
      PROVE  Told(s, r)
  BY <1>1, <1>f, <1>t, HandlerType DEF JoinRoom
<1>2. ASSUME NEW x \in Handler, LeaveRoom(x)  PROVE Told(s, r)
  BY <1>2, <1>f, <1>t, HandlerType DEF LeaveRoom
<1>3. ASSUME NEW x \in Socket, Disconnect(x)  PROVE Told(s, r)
  BY <1>3, <1>f, <1>t DEF Disconnect
<1>4. ASSUME NEW x \in Handler, HGetAll(x)  PROVE Told(s, r)
  <2>1. want' = want /\ (UNCHANGED joined
                         \/ (Dead(loc[x].room) = {} /\ \E seen : Announce(x, seen)))
    BY <1>4 DEF HGetAll
  <2>2. CASE Dead(loc[x].room) = {} /\ \E seen : Announce(x, seen)
    <3>1. loc[x].room # r
      BY <2>2 DEF Dead, Entries
    <3>2. joined'[s] = joined[s] \/ joined[s] \/ (x[1] = s /\ want[s] = loc[x].room)
      BY <1>t, <2>2 DEF Announce
    <3> QED  BY <2>1, <3>1, <3>2 DEF Told
  <2> QED  BY <1>f, <2>1, <2>2
<1>5. ASSUME NEW h \in Handler, NEW c \in Socket, HLen(h, c) \/ Del(h, c)
      PROVE  Told(s, r) \/ Swept(h, d, r)
  <2>1. /\ rm[h][c] \in {"hlen", "del"} /\ want' = want
        /\ UNCHANGED joined \/ Removed(h, c)
    BY <1>5 DEF HLen, Del
  <2>2. CASE Removed(h, c)
    <3>1. \/ UNCHANGED joined
          \/ rm'[h] = NoRemoval /\ pc[h] = "remove" /\ AfterRemovals(h)
      BY <2>1, <2>2, RemovedEffect
    <3>2. CASE rm'[h] = NoRemoval /\ pc[h] = "remove" /\ AfterRemovals(h)
      <4>1. UNCHANGED joined \/ (h[2] = "join" /\ Announce(h, loc[h].seen))
        BY <3>2 DEF AfterRemovals
      <4>2. CASE h[2] = "join" /\ Announce(h, loc[h].seen)
        <5>1. joined'[s] = joined[s] \/ joined[s] \/ (h[1] = s /\ want[s] = loc[h].room)
          BY <1>t, <4>2 DEF Announce
        <5>2. rm'[h][d] = "none" /\ \A e \in Socket \ {c} : rm'[h][e] = rm[h][e]
          BY <2>1, <2>2, <3>2, RemovedEffect DEF NoRemoval
        <5>3. rm[h][d] # "hdel"
          BY <2>1, <5>2
        <5>4. loc[h].room = r => Swept(h, d, r)
          BY <3>2, <4>2, <5>3 DEF Swept
        <5> QED  BY <2>1, <5>1, <5>4 DEF Told
      <4> QED  BY <1>f, <2>1, <4>1, <4>2
    <3> QED  BY <1>f, <2>1, <3>1, <3>2
  <2> QED  BY <1>f, <2>1, <2>2
<1>6. ~Restart
  BY DEF Restart, Told
<1>7. ASSUME UNCHANGED <<joined, want>>  PROVE Told(s, r)
  BY <1>f, <1>7
<1> QED
  BY <1>1, <1>2, <1>3, <1>4, <1>5, <1>6, <1>7
     DEF Next, Connect, JoinStep, HExists, HSet, Expire, HGet, RemoveStep, HDel, Check, Fail,
         RoomExpires, vars


\* A socket that closes leaves no entry its handlers will not remove.
LEMMA Departing ==
  ASSUME TypeOK, Inv, NEW d \in Socket, d \notin excused', Disconnect(d)
  PROVE  Gone(d)'
<1> DEFINE r0 == ClosingRoom(d)
<1>t. pc \in [Handler -> PcOf] /\ loc \in [Handler -> Locals]
  BY DEF TypeOK
<1>h. J(d) \in Handler /\ L(d) \in Handler /\ D(d) \in Handler
      /\ J(d) # D(d) /\ L(d) # D(d)
  BY HandlerType, Lines
<1>1. /\ conn[d] = "up" /\ d \notin excused /\ UNCHANGED <<redis, rm>>
      /\ pc' = [pc EXCEPT ![D(d)] = "hget"]
      /\ loc' = [loc EXCEPT ![D(d)] = [room |-> r0, peer |-> None, seen |-> {}]]
      /\ ~(Busy(J(d)) /\ (Pipelined => redis[r0][d] = None))
  BY Running1 DEF Disconnect
<1> HIDE DEF r0
<1>2. /\ pc'[D(d)] = "hget" /\ loc'[D(d)].room = r0
      /\ pc'[J(d)] = pc[J(d)] /\ pc'[L(d)] = pc[L(d)] /\ loc'[L(d)] = loc[L(d)]
  BY <1>t, <1>h, <1>1
<1>3. ASSUME NEW r \in Room, r = r0  PROVE Going(d, r)'
  BY <1>2, <1>3 DEF Going
<1>4. Stage(d)
  BY <1>1 DEF Inv, StagesOK
<1>5. dataRoom[d] # None => r0 = dataRoom[d]
  BY DEF r0, ClosingRoom
<1>6. ~Busy(J(d)) => pc'[J(d)] = "idle"
  BY <1>2 DEF Busy
<1>7. ASSUME Joining(d)  PROVE Gone(d)'
  <2>1. Busy(J(d))  BY <1>7 DEF Joining, Busy
  <2>2. want[d] \in Room /\ r0 = want[d]
    BY <1>5, <1>7, <1>h, <2>1, NoneAssumption DEF Joining, TypeOK
  <2>3. redis[r0][d] # None  BY <1>1, <2>1
  <2>4. pc[J(d)] \in {"expire", "hgetall", "remove"}
    BY <1>7, <2>2, <2>3 DEF Joining
  <2>5. \A r \in Room : redis[r][d] # None => r = r0
    BY <1>7, <2>2 DEF Joining
  <2> QED  BY <1>1, <1>2, <1>3, <2>4, <2>5 DEF Gone
<1>8. ASSUME Member(d)  PROVE Gone(d)'
  <2>1. r0 = want[d]  BY <1>5, <1>8, NoneAssumption DEF Member
  <2>2. \A r \in Room : redis[r][d] # None => r = r0
    BY <1>8, <2>1 DEF Member
  <2>3. ~Busy(J(d))  BY <1>8 DEF Member
  <2> QED  BY <1>1, <1>3, <1>6, <2>2, <2>3 DEF Gone
<1>9. ASSUME Leaving(d)  PROVE Gone(d)'
  <2>1. ~Busy(J(d))  BY <1>9 DEF Leaving
  <2>2. ASSUME NEW r \in Room, redis[r][d] # None  PROVE Going(d, r)'
    <3>1. r = loc[L(d)].room /\ (pc[L(d)] = "hget" \/ rm[L(d)][d] = "hdel")
      BY <1>9, <2>2 DEF Leaving
    <3> QED  BY <1>1, <1>2, <3>1 DEF Going
  <2> QED  BY <1>1, <1>6, <2>1, <2>2 DEF Gone
<1>10. ASSUME Outside(d)  PROVE Gone(d)'
  BY <1>1, <1>6, <1>10 DEF Outside, Gone
<1> QED  BY <1>4, <1>7, <1>8, <1>9, <1>10 DEF Stage

\* A socket closes by itself or with the server.
LEMMA Closes ==
  ASSUME TypeOK, [Next]_vars, NEW d \in Socket, conn[d] # "down", conn'[d] = "down", ~Restart
  PROVE  Disconnect(d)
<1>1. conn \in [Socket -> {"new", "up", "down"}]
  BY DEF TypeOK
<1>2. ASSUME NEW x \in Socket, Connect(x)  PROVE FALSE
  BY <1>1, <1>2 DEF Connect
<1>3. ASSUME NEW x \in Socket, Disconnect(x)  PROVE Disconnect(d)
  <2>1. x = d  BY <1>1, <1>3 DEF Disconnect
  <2> QED  BY <1>3, <2>1
<1> QED
  BY <1>2, <1>3
     DEF Next, JoinRoom, LeaveRoom, JoinStep, HExists, HSet, Expire, HGetAll, HGet,
         RemoveStep, HDel, HLen, Del, Check, Fail, RoomExpires, vars

\* After a restart no join has seen anything and no handler runs.
LEMMA Restarted ==
  ASSUME TypeOK, Restart, NEW d \in Socket
  PROVE  Gone(d)'
<1>1. J(d) \in Handler
  BY HandlerType
<1>2. /\ \A h \in Handler : pc'[h] = "idle"
      /\ \A s \in Socket : ~joined'[s]
  BY DEF Restart
<1> QED  BY <1>1, <1>2 DEF Gone, Swept, Told

\* A member's room is a room.
LEMMA WantsNext == TypeOK /\ HandlersOK /\ WantsOK /\ [Next]_vars => WantsOK'
<1> SUFFICES ASSUME TypeOK, HandlersOK, WantsOK, [Next]_vars, NEW s \in Socket, joined'[s]
             PROVE  want'[s] \in Room
  BY DEF WantsOK
<1>t. /\ joined \in [Socket -> BOOLEAN] /\ want \in [Socket -> Room \cup {None}]
      /\ pc \in [Handler -> PcOf]
      /\ \A h \in Handler : Busy(h) => loc[h].room \in Room
  BY DEF TypeOK
<1>1. ASSUME joined'[s] = joined[s], want'[s] = want[s]  PROVE want'[s] \in Room
  BY <1>1 DEF WantsOK
<1>2. ASSUME NEW x \in Handler, NEW r \in Room, NEW p \in Ids[x[1]], JoinRoom(x, r, p)
      PROVE  want'[s] \in Room
  BY <1>1, <1>2, <1>t, HandlerType DEF JoinRoom
<1>3. ASSUME NEW x \in Handler, LeaveRoom(x)  PROVE want'[s] \in Room
  BY <1>1, <1>3, <1>t, HandlerType DEF LeaveRoom
<1>9. ASSUME NEW x \in Socket, Disconnect(x)  PROVE want'[s] \in Room
  BY <1>1, <1>9, <1>t DEF Disconnect
<1>4. ASSUME NEW x \in Handler, NEW seen, Announce(x, seen), pc[x] # "idle", want' = want
      PROVE  want'[s] \in Room
  <2>1. loc[x].room \in Room
    BY <1>4, <1>t DEF Busy
  <2>2. joined'[s] = joined[s] \/ (x[1] = s /\ want[s] = loc[x].room) \/ joined[s]
    BY <1>4, <1>t DEF Announce
  <2> QED  BY <1>4, <2>1, <2>2 DEF WantsOK
<1>5. ASSUME NEW x \in Handler, HGetAll(x)  PROVE want'[s] \in Room
  <2>1. want' = want /\ pc[x] # "idle" /\ (UNCHANGED joined \/ \E seen : Announce(x, seen))
    BY <1>5 DEF HGetAll
  <2> QED  BY <1>1, <1>4, <2>1
<1>6. ASSUME NEW h \in Handler, NEW c \in Socket, HLen(h, c) \/ Del(h, c)
      PROVE  want'[s] \in Room
  <2>1. want' = want /\ rm[h][c] # "none" /\ (UNCHANGED joined \/ Removed(h, c))
    BY <1>6 DEF HLen, Del
  <2>2. CASE Removed(h, c)
    <3>1. UNCHANGED joined \/ (pc[h] = "remove" /\ AfterRemovals(h))
      BY <2>1, <2>2, RemovedEffect
    <3>2. ASSUME pc[h] = "remove", AfterRemovals(h)
          PROVE  UNCHANGED joined \/ \E seen : Announce(h, seen)
      BY <3>2 DEF AfterRemovals
    <3> QED  BY <1>1, <1>4, <2>1, <3>1, <3>2
  <2> QED  BY <1>1, <2>1, <2>2
<1>7. ~Restart
  BY DEF Restart
<1>8. ASSUME UNCHANGED <<joined, want>>  PROVE want'[s] \in Room
  BY <1>1, <1>8
<1> QED
  BY <1>2, <1>3, <1>5, <1>6, <1>7, <1>8, <1>9
     DEF Next, Connect, JoinStep, HExists, HSet, Expire, HGet, RemoveStep, HDel, Check, Fail,
         RoomExpires, vars

LEMMA DepartedNext == TypeOK /\ Inv /\ ExactInv /\ [Next]_vars => DepartedOK'
<1> SUFFICES ASSUME TypeOK, Inv, ExactInv, [Next]_vars,
                    NEW d \in Socket, d \notin excused', conn'[d] = "down"
             PROVE  Gone(d)'
  BY DEF DepartedOK
<1>1. CASE Restart
  BY <1>1, Restarted
<1>2. CASE ~Restart /\ conn[d] # "down"
  BY <1>2, Closes, Departing
<1>3. CASE ~Restart /\ conn[d] = "down"
  <2>1. d \notin excused /\ HandlersOK /\ LanesOK /\ adapter[d] = {}
    BY <1>3, ExcusedGrows DEF Inv, ConnectedOK, ExactInv
  <2>2. Gone(d)
    BY <1>3, <2>1 DEF ExactInv, DepartedOK
  <2>3. pc[J(d)] \notin {"hexists", "hset"}
    BY <2>2 DEF Gone
  <2>4. /\ pc'[J(d)] \notin {"hexists", "hset"}
        /\ \A r \in Room : redis'[r][d] \in {redis[r][d], None}
    BY <1>3, <2>1, <2>3, DepartedEntry
  <2>5. ASSUME NEW r \in Room, redis'[r][d] # None
        PROVE  \/ Going(d, r)'
               \/ /\ \A s \in Socket : ~Told(s, r)'
                  /\ \A h \in Handler : ~Swept(h, d, r)'
    <3>1. redis[r][d] # None
      BY <2>4, <2>5
    <3>2. CASE Going(d, r)
      BY <1>3, <2>1, <2>5, <3>2, GoingNext
    <3>3. CASE (\A s \in Socket : ~Told(s, r)) /\ \A h \in Handler : ~Swept(h, d, r)
      BY <2>1, <2>5, <3>1, <3>3, SweptNext, ToldNext
    <3> QED  BY <2>2, <3>1, <3>2, <3>3 DEF Gone
  <2> QED  BY <2>4, <2>5 DEF Gone
<1> QED  BY <1>1, <1>2, <1>3

LEMMA ExactInit == Init => ExactInv
BY DEF Init, ExactInv, DepartedOK, WantsOK

LEMMA ExactInvariance == Spec => [](TypeOK /\ Inv /\ ExactInv)
<1>1. Inv => HandlersOK
  BY DEF Inv
<1>2. TypeOK /\ Inv /\ ExactInv /\ [Next]_vars => ExactInv'
  BY <1>1, WantsNext, DepartedNext DEF ExactInv
<1> QED
  BY <1>2, ExactInit, Invariance, PTL DEF Spec

-----------------------------------------------------------------------------
\* When nothing runs, an entry stands where its socket does.
LEMMA QuietExact == TypeOK /\ Inv /\ ExactInv => ExactRegistry
<1> SUFFICES ASSUME TypeOK, Inv, ExactInv, Quiet, NEW s \in Socket, joined[s],
                    NEW d \in Socket, d \notin excused
             PROVE  redis[want[s]][d] = IF joined[d] /\ want[d] = want[s] THEN self[d] ELSE None
  BY DEF ExactRegistry
<1>1. want[s] \in Room
  BY DEF ExactInv, WantsOK
<1>2. ~Busy(J(d)) /\ ~Busy(L(d)) /\ ~Busy(D(d))
  BY HandlerType DEF Quiet
<1>3. conn[d] \in {"new", "up", "down"}
  BY DEF TypeOK
<1>4. CASE conn[d] = "new"
  BY <1>1, <1>4 DEF Inv, ConnectedOK
<1>5. CASE conn[d] = "up"
  <2>1. ~Joining(d) /\ ~Leaving(d)
    BY <1>2 DEF Joining, Leaving, Busy
  <2>2. Outside(d) \/ Member(d)
    BY <1>5, <2>1 DEF Inv, StagesOK, Stage
  <2> QED  BY <1>1, <2>2 DEF Outside, Member
<1>6. CASE conn[d] = "down"
  <2>1. ~joined[d]
    BY <1>6 DEF Inv, ConnectedOK
  <2>2. ~Going(d, want[s])
    BY <1>2 DEF Going, Busy, NoRemoval
  <2>3. Told(s, want[s])
    BY DEF Told
  <2>4. Gone(d)
    BY <1>6 DEF ExactInv, DepartedOK
  <2> QED  BY <1>1, <2>1, <2>2, <2>3, <2>4 DEF Gone
<1> QED  BY <1>3, <1>4, <1>5, <1>6

\* When no handler runs, the hash of a room somebody is in holds the members
\* and nothing else: the entries of closed sockets, those a restart of the server
\* left behind included, are gone once a client has joined the room.
THEOREM Exactness == Spec => []ExactRegistry
BY QuietExact, ExactInvariance, PTL
=============================================================================
