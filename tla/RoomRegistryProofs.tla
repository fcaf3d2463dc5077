------------------------- MODULE RoomRegistryProofs -------------------------
(* Proofs about RoomRegistry, for every set of sockets, rooms and peers and *)
(* whatever order Redis runs the commands in.                              *)
EXTENDS RoomRegistry, FiniteSetTheorems, SequenceTheorems, TLAPS

-----------------------------------------------------------------------------
(* Handlers and the pipeline.                                              *)

LEMMA HandlerType ==
  /\ \A s \in Socket : J(s) \in Handler /\ L(s) \in Handler /\ D(s) \in Handler
  /\ \A h \in Handler : h[2] = "join" \/ h[2] = "leave" \/ h[2] = "disconnect"
  /\ \A h \in Handler : h[1] \in Socket /\ Own(h) \in Command
  /\ \A h \in Handler, d \in Socket : <<h, d>> \in Command
BY LaneAssumption DEF J, L, D, Handler, Own, Command

\* The removals of cleanDeadPeers are issued as a sequence of commands.
LEMMA OrderType ==
  ASSUME NEW h \in Handler, NEW dead \in SUBSET Socket, NEW order \in SetToSeqs(dead)
  PROVE  [i \in 1..Len(order) |-> <<h, order[i]>>] \in Seq(Command)
<1>1. IsFiniteSet(dead) /\ Cardinality(dead) \in Nat
  BY SocketAssumption, FS_Subset, FS_CardinalityType
<1>2. order \in [1..Cardinality(dead) -> dead]
  BY <1>1, SMT DEF SetToSeqs
<1>3. Len(order) = Cardinality(dead) /\ DOMAIN order = 1..Cardinality(dead)
  BY <1>1, <1>2
<1>4. \A i \in 1..Len(order) : <<h, order[i]>> \in Command
  BY <1>2, <1>3 DEF Command
<1> QED
  BY <1>1, <1>3, <1>4

LEMMA IssueType ==
  ASSUME pipe \in Seq(Command), NEW c \in Command, Issue(c)
  PROVE  pipe' \in Seq(Command)
BY AppendProperties DEF Issue

LEMMA ReissueType ==
  ASSUME pipe \in Seq(Command), NEW c \in Command, Turn(c),
         NEW next \in Seq(Command), Reissue(next)
  PROVE  pipe' \in Seq(Command)
<1>1. CASE Pipelined
  <2>1. pipe # <<>>
    BY <1>1 DEF Turn
  <2>2. Tail(pipe) \in Seq(Command)
    BY <2>1, HeadTailProperties
  <2> QED
    BY <1>1, <2>2, ConcatProperties DEF Reissue
<1>2. CASE ~Pipelined
  BY <1>2 DEF Reissue
<1> QED
  BY <1>1, <1>2

LEMMA NextCommands ==
  /\ <<>> \in Seq(Command)
  /\ \A c \in Command : <<c>> \in Seq(Command)
OBVIOUS

-----------------------------------------------------------------------------
(* Types.                                                                  *)

LEMMA TypeInit == Init => TypeOK
<1> SUFFICES ASSUME Init PROVE TypeOK
  OBVIOUS
<1>1. NoLocals \in Locals
  BY DEF NoLocals, Locals
<1>2. NoRemoval \in [Socket -> RmOf]
  BY DEF NoRemoval, RmOf
<1>3. "idle" \in PcOf
  BY DEF PcOf
<1> QED
  BY <1>1, <1>2, <1>3, NextCommands, HandlerType DEF Init, TypeOK, NoEntry, Busy

(* Updates of the variables that are functions of two arguments, or of     *)
(* records, written out.                                                   *)

LEMMA PutType ==
  ASSUME redis \in [Room -> [Socket -> Peer \cup {None}]],
         NEW r, NEW d, NEW e \in Peer \cup {None}
  PROVE  /\ Put(r, d, e) \in [Room -> [Socket -> Peer \cup {None}]]
         /\ \A q \in Room, s \in Socket :
              Put(r, d, e)[q][s] = IF q = r /\ s = d THEN e ELSE redis[q][s]
<1> DEFINE row == [redis[r] EXCEPT ![d] = e]
<1>1. Put(r, d, e) = [redis EXCEPT ![r] = row]
  BY DEF Put
<1>2. r \in Room => row \in [Socket -> Peer \cup {None}]
  OBVIOUS
<1>3. r \in Room => \A s \in Socket : row[s] = IF s = d THEN e ELSE redis[r][s]
  OBVIOUS
<1> HIDE DEF row
<1> QED
  BY <1>1, <1>2, <1>3

LEMMA ClearedType ==
  ASSUME redis \in [Room -> [Socket -> Peer \cup {None}]], NEW r
  PROVE  /\ Cleared(r) \in [Room -> [Socket -> Peer \cup {None}]]
         /\ \A q \in Room, s \in Socket :
              Cleared(r)[q][s] = IF q = r THEN None ELSE redis[q][s]
<1>1. NoEntry \in [Socket -> Peer \cup {None}] /\ \A s \in Socket : NoEntry[s] = None
  BY DEF NoEntry
<1> QED
  BY <1>1 DEF Cleared

LEMMA RemovingType ==
  ASSUME rm \in [Handler -> [Socket -> RmOf]], NEW h \in Handler, NEW d \in Socket,
         NEW e \in RmOf
  PROVE  /\ Removing(h, d, e) \in [Handler -> [Socket -> RmOf]]
         /\ Removing(h, d, e)[h][d] = e
         /\ \A s \in Socket \ {d} : Removing(h, d, e)[h][s] = rm[h][s]
         /\ \A g \in Handler \ {h} : Removing(h, d, e)[g] = rm[g]
<1> DEFINE row == [rm[h] EXCEPT ![d] = e]
<1>1. Removing(h, d, e) = [rm EXCEPT ![h] = row]
  BY DEF Removing
<1>2. /\ row \in [Socket -> RmOf] /\ row[d] = e
      /\ \A s \in Socket \ {d} : row[s] = rm[h][s]
  OBVIOUS
<1> HIDE DEF row
<1> QED
  BY <1>1, <1>2

LEMMA LocalsUpdate ==
  ASSUME NEW l \in Locals, NEW p \in Peer \cup {None}, NEW seen \in SUBSET Peer
  PROVE  /\ [l EXCEPT !.peer = p] \in Locals
         /\ [l EXCEPT !.peer = p].room = l.room /\ [l EXCEPT !.peer = p].peer = p
         /\ [l EXCEPT !.seen = seen] \in Locals
         /\ [l EXCEPT !.seen = seen].room = l.room
         /\ [l EXCEPT !.seen = seen].peer = l.peer
BY DEF Locals

\* What the handlers write about themselves.
LEMMA LocalTypes ==
  /\ NoLocals \in Locals /\ NoRemoval \in [Socket -> RmOf]
  /\ "idle" \in PcOf /\ "none" \in RmOf
  /\ \A r \in Room \cup {None}, p \in Peer \cup {None}, seen \in SUBSET Peer :
       [room |-> r, peer |-> p, seen |-> seen] \in Locals
BY DEF NoLocals, Locals, NoRemoval, PcOf, RmOf

\* The end of a join keeps the types of what it writes.
LEMMA AnnounceType ==
  ASSUME TypeOK, NEW h \in Handler, NEW seen \in SUBSET Peer, Announce(h, seen),
         h[2] = "join", pc[h] # "idle"
  PROVE  /\ view' \in [Socket -> SUBSET Peer]
         /\ joined' \in [Socket -> BOOLEAN]
         /\ pc' \in [Handler -> PcOf] /\ pc'[h] = "idle"
         /\ loc' \in [Handler -> Locals]
         /\ \A g \in Handler \ {h} : pc'[g] = pc[g] /\ loc'[g] = loc[g]
<1>1. h[1] \in Socket
  BY HandlerType
<1>2. ToldJoined(loc[h].room, loc[h].peer) \in [Socket -> SUBSET Peer]
  BY DEF TypeOK, ToldJoined
<1> QED
  BY <1>1, <1>2, LocalTypes DEF Announce, TypeOK

\* So does the end of the awaited removals, whichever handler waited.
LEMMA AfterRemovalsType ==
  ASSUME TypeOK, NEW h \in Handler, NEW c \in Command, Turn(c), AfterRemovals(h),
         pc[h] = "remove"
  PROVE  /\ view' \in [Socket -> SUBSET Peer]
         /\ joined' \in [Socket -> BOOLEAN]
         /\ adapter' \in [Socket -> SUBSET Room]
         /\ dataRoom' \in [Socket -> Room \cup {None}]
         /\ pc' \in [Handler -> PcOf]
         /\ loc' \in [Handler -> Locals]
         /\ pipe' \in Seq(Command)
         /\ \A g \in Handler \ {h} : pc'[g] = pc[g] /\ loc'[g] = loc[g]
         /\ pc'[h] = "idle" \/ (loc'[h] = loc[h] /\ h[2] # "join")
<1> DEFINE s == h[1]
           next == IF loc[h].peer # None THEN <<Own(h)>> ELSE <<>>
<1>1. s \in Socket /\ next \in Seq(Command) /\ pipe \in Seq(Command)
  BY HandlerType, NextCommands DEF TypeOK
<1>2. "check" \in PcOf
  BY DEF PcOf
<1>3. CASE /\ h[2] = "join" /\ Announce(h, loc[h].seen) /\ Reissue(<<>>)
           /\ UNCHANGED <<adapter, dataRoom>>
  <2>1. loc[h].seen \in SUBSET Peer
    BY DEF TypeOK, Locals
  <2>2. pipe' \in Seq(Command)
    BY <1>1, <1>3, NextCommands, ReissueType
  <2> QED
    BY <1>1, <1>3, <2>1, <2>2, AnnounceType DEF TypeOK
<1>4. CASE h[2] = "leave" \/ h[2] = "disconnect"
  <2>1. /\ Reissue(next) /\ UNCHANGED <<view, joined>>
        /\ pc' = [pc EXCEPT ![h] = IF loc[h].peer # None THEN "check" ELSE "idle"]
        /\ loc' = [loc EXCEPT ![h] = IF loc[h].peer # None THEN @ ELSE NoLocals]
        /\ \/ UNCHANGED <<adapter, dataRoom>>
           \/ /\ adapter' = [adapter EXCEPT ![s] = adapter[s] \ {loc[h].room}]
              /\ dataRoom' = [dataRoom EXCEPT ![s] = None]
    BY <1>4 DEF AfterRemovals
  <2>2. pipe' \in Seq(Command)
    BY <1>1, <2>1, ReissueType
  <2>3. h[2] # "join"
    BY <1>4
  <2>4. /\ adapter' \in [Socket -> SUBSET Room]
        /\ dataRoom' \in [Socket -> Room \cup {None}]
    <3>1. adapter \in [Socket -> SUBSET Room] /\ dataRoom \in [Socket -> Room \cup {None}]
      BY DEF TypeOK
    <3>2. adapter[s] \ {loc[h].room} \in SUBSET Room
      BY <1>1, <3>1
    <3> HIDE DEF s
    <3> QED
      BY <2>1, <3>1, <3>2
  <2>5. /\ pc' \in [Handler -> PcOf]
        /\ \A g \in Handler \ {h} : pc'[g] = pc[g]
        /\ pc'[h] = IF loc[h].peer # None THEN "check" ELSE "idle"
    BY <1>2, <2>1, LocalTypes DEF TypeOK
  <2>6. /\ loc' \in [Handler -> Locals]
        /\ \A g \in Handler \ {h} : loc'[g] = loc[g]
        /\ loc'[h] = IF loc[h].peer # None THEN loc[h] ELSE NoLocals
    BY <2>1, LocalTypes DEF TypeOK
  <2>7. view' \in [Socket -> SUBSET Peer] /\ joined' \in [Socket -> BOOLEAN]
    BY <2>1 DEF TypeOK
  <2> QED
    BY <2>2, <2>3, <2>4, <2>5, <2>6, <2>7
<1> QED
  BY <1>3, <1>4 DEF AfterRemovals

LEMMA RemovedType ==
  ASSUME TypeOK, NEW h \in Handler, NEW d \in Socket, Turn(<<h, d>>), Removed(h, d),
         rm[h][d] # "none"
  PROVE  /\ view' \in [Socket -> SUBSET Peer]
         /\ joined' \in [Socket -> BOOLEAN]
         /\ adapter' \in [Socket -> SUBSET Room]
         /\ dataRoom' \in [Socket -> Room \cup {None}]
         /\ pc' \in [Handler -> PcOf]
         /\ loc' \in [Handler -> Locals]
         /\ rm' \in [Handler -> [Socket -> RmOf]]
         /\ pipe' \in Seq(Command)
         /\ \A g \in Handler : (pc'[g] # "idle" \/ rm'[g] # NoRemoval) =>
              (pc[g] # "idle" \/ rm[g] # NoRemoval) /\ loc'[g].room = loc[g].room
         /\ \A g \in Handler : g[2] = "join" /\ pc'[g] # "idle" =>
              pc[g] # "idle" /\ loc'[g].peer = loc[g].peer
<1> DEFINE left == [rm[h] EXCEPT ![d] = "none"]
<1>1. left \in [Socket -> RmOf] /\ rm' = [rm EXCEPT ![h] = left]
  BY LocalTypes DEF TypeOK, Removed
<1>2. rm' \in [Handler -> [Socket -> RmOf]] /\ rm'[h] = left
      /\ \A g \in Handler \ {h} : rm'[g] = rm[g]
  BY <1>1 DEF TypeOK
<1>3. rm[h] # NoRemoval
  BY DEF NoRemoval
<1>4. <<h, d>> \in Command
  BY HandlerType
<1>5. CASE left = NoRemoval /\ pc[h] = "remove"
  <2>1. AfterRemovals(h)
    BY <1>5 DEF Removed
  <2>2. /\ view' \in [Socket -> SUBSET Peer]
        /\ joined' \in [Socket -> BOOLEAN]
        /\ adapter' \in [Socket -> SUBSET Room]
        /\ dataRoom' \in [Socket -> Room \cup {None}]
        /\ pc' \in [Handler -> PcOf]
        /\ loc' \in [Handler -> Locals]
        /\ pipe' \in Seq(Command)
        /\ \A g \in Handler \ {h} : pc'[g] = pc[g] /\ loc'[g] = loc[g]
        /\ pc'[h] = "idle" \/ (loc'[h] = loc[h] /\ h[2] # "join")
    BY <1>4, <1>5, <2>1, AfterRemovalsType
  <2> QED
    BY <1>2, <1>3, <1>4, <1>5, <2>2
<1>6. CASE ~(left = NoRemoval /\ pc[h] = "remove")
  <2>1. /\ Reissue(<<>>) /\ UNCHANGED <<adapter, dataRoom, pc, view, joined>>
        /\ loc' = [loc EXCEPT ![h] =
                     IF left = NoRemoval /\ pc[h] = "idle" THEN NoLocals ELSE @]
    BY <1>6 DEF Removed
  <2>2. pipe' \in Seq(Command)
    BY <1>4, <2>1, NextCommands, ReissueType DEF TypeOK
  <2> QED
    BY <1>2, <1>3, <1>4, <1>6, <2>1, <2>2, LocalTypes DEF TypeOK
<1> QED
  BY <1>5, <1>6

\* Only a join-room handler waits for the commands of addPeer and getClients.
LEMMA JoinLine ==
  ASSUME HandlersOK, NEW h \in Handler, JoinStep(h)
  PROVE  h[2] = "join"
BY DEF HandlersOK, JoinStep, HExists, HSet, Expire, HGetAll

\* Every step keeps the types.
LEMMA TypeNext == TypeOK /\ HandlersOK /\ [Next]_vars => TypeOK'
<1> SUFFICES ASSUME TypeOK, HandlersOK, [Next]_vars PROVE TypeOK'
  OBVIOUS
<1> USE HandlerType, LocalTypes, NextCommands
<1>0. /\ redis \in [Room -> [Socket -> Peer \cup {None}]]
      /\ rm \in [Handler -> [Socket -> RmOf]]
      /\ loc \in [Handler -> Locals]
      /\ pc \in [Handler -> PcOf]
  BY DEF TypeOK
<1>1. ASSUME NEW s \in Socket, Connect(s) PROVE TypeOK'
  BY <1>1 DEF Connect, TypeOK, Busy
<1>2. ASSUME NEW h \in Handler, NEW r \in Room, NEW p \in Ids[h[1]], JoinRoom(h, r, p)
      PROVE  TypeOK'
  <2>1. p \in Peer
    BY IdsAssumption
  <2>2. pipe' \in Seq(Command)
    BY <1>2, IssueType DEF JoinRoom, TypeOK
  <2>3. "hexists" \in PcOf /\ [room |-> r, peer |-> p, seen |-> {}] \in Locals
    BY <2>1 DEF PcOf, Locals
  <2>4. pc' \in [Handler -> PcOf] /\ loc' \in [Handler -> Locals]
        /\ loc'[h].room = r /\ loc'[h].peer = p
        /\ \A g \in Handler \ {h} : pc'[g] = pc[g] /\ loc'[g] = loc[g]
    BY <1>2, <2>3 DEF JoinRoom, TypeOK
  <2> QED
    BY <1>2, <2>1, <2>2, <2>4 DEF JoinRoom, TypeOK, Busy
<1>3. ASSUME NEW h \in Handler, LeaveRoom(h) PROVE TypeOK'
  <2>1. pipe' \in Seq(Command)
    BY <1>3, IssueType DEF LeaveRoom, TypeOK
  <2> DEFINE s == h[1]
  <2>2. "hget" \in PcOf
    BY DEF PcOf
  <2>3. dataRoom[s] # None =>
          dataRoom[s] \in Room /\ [room |-> dataRoom[s], peer |-> None, seen |-> {}] \in Locals
    BY DEF TypeOK, Locals
  <2>4. /\ pc' \in [Handler -> PcOf] /\ loc' \in [Handler -> Locals]
        /\ \A g \in Handler \ {h} : pc'[g] = pc[g] /\ loc'[g] = loc[g]
        /\ Busy(h)' => loc'[h].room \in Room
    <3>1. CASE dataRoom[s] = None
      BY <1>3, <3>1 DEF LeaveRoom, TypeOK, Busy
    <3>2. CASE dataRoom[s] # None
      <4> DEFINE l == [room |-> dataRoom[s], peer |-> None, seen |-> {}]
      <4>1. pc' = [pc EXCEPT ![h] = "hget"] /\ loc' = [loc EXCEPT ![h] = l]
        BY <1>3, <3>2 DEF LeaveRoom
      <4>2. l \in Locals /\ l.room \in Room
        BY <2>3, <3>2
      <4> HIDE DEF l
      <4> QED
        BY <1>0, <2>2, <4>1, <4>2
    <3> QED
      BY <3>1, <3>2
  <2>5. h[2] # "join"
    BY <1>3 DEF LeaveRoom
  <2> QED
    BY <1>3, <2>1, <2>4, <2>5 DEF LeaveRoom, TypeOK, Busy
<1>4. ASSUME NEW s \in Socket, Disconnect(s) PROVE TypeOK'
  <2> DEFINE r == ClosingRoom(s)
  <2>1. pipe' \in Seq(Command)
    BY <1>4, IssueType DEF Disconnect, TypeOK
  <2>2. "hget" \in PcOf
    BY DEF PcOf
  <2>3. r \in Room /\ [room |-> r, peer |-> None, seen |-> {}] \in Locals
    BY RoomAssumption DEF TypeOK, Locals, ClosingRoom
  <2>4. /\ pc' \in [Handler -> PcOf] /\ loc' \in [Handler -> Locals]
        /\ \A h \in Handler \ {D(s)} : pc'[h] = pc[h] /\ loc'[h] = loc[h]
        /\ loc'[D(s)].room \in Room
    BY <1>4, <2>2, <2>3 DEF Disconnect, TypeOK
  <2>5. D(s)[2] # "join"
    BY DEF D
  <2> QED
    BY <1>4, <2>1, <2>4, <2>5 DEF Disconnect, TypeOK, Busy
<1>5. ASSUME NEW h \in Handler, h[2] = "join", HExists(h) \/ HSet(h) \/ Expire(h)
      PROVE  TypeOK'
  <2>1. pipe' \in Seq(Command)
    BY <1>5, ReissueType DEF HExists, HSet, Expire, TypeOK
  <2>2. {"hset", "expire", "hgetall"} \subseteq PcOf
    BY DEF PcOf
  <2>3. pc' \in [Handler -> PcOf] /\ pc[h] # "idle"
        /\ \A g \in Handler \ {h} : pc'[g] = pc[g]
    <3>1. pc[h] # "idle" /\ \E c \in PcOf : pc' = [pc EXCEPT ![h] = c]
      BY <1>5, <2>2 DEF HExists, HSet, Expire
    <3> QED
      BY <1>0, <3>1
  <2>4. redis' \in [Room -> [Socket -> Peer \cup {None}]]
    <3>1. loc[h].peer \in Peer
      BY <1>5, <2>3 DEF TypeOK
    <3>2. redis' = redis \/ redis' = Put(loc[h].room, h[1], loc[h].peer)
      BY <1>5 DEF HExists, HSet, Expire
    <3> QED
      BY <1>0, <3>1, <3>2, PutType
  <2>5. UNCHANGED <<adapter, dataRoom, conn, loc, rm, self, want, joined, view, joins,
                    faults, excused>>
    BY <1>5 DEF HExists, HSet, Expire
  <2>6. \A g \in Handler : pc'[g] # "idle" => pc[g] # "idle"
    BY <2>3
  <2> QED
    BY <2>1, <2>3, <2>4, <2>5, <2>6 DEF TypeOK, Busy
<1>6. ASSUME NEW h \in Handler, h[2] = "join", HGetAll(h) PROVE TypeOK'
  <2> DEFINE r == loc[h].room
             dead == Dead(r)
             seen == {redis[r][d] : d \in Entries(r) \ dead} \ {loc[h].peer}
  <2>1. h \in Handler /\ pc[h] = "hgetall" /\ Turn(Own(h)) /\ r \in Room
    BY <1>6 DEF HGetAll, TypeOK, Busy
  <2>2. dead \in SUBSET Socket /\ seen \in SUBSET Peer
    BY <2>1 DEF Dead, Entries, TypeOK
  <2>3. UNCHANGED <<redis, adapter, dataRoom, conn, self, want, joins, faults, excused>>
    BY <1>6 DEF HGetAll
  <2>4. CASE dead = {}
    <3>1. Announce(h, seen) /\ Reissue(<<>>) /\ UNCHANGED rm
      BY <1>6, <2>4 DEF HGetAll
    <3>2. pipe' \in Seq(Command)
      BY <2>1, <3>1, ReissueType DEF TypeOK
    <3> HIDE DEF seen
    <3>3. /\ view' \in [Socket -> SUBSET Peer] /\ joined' \in [Socket -> BOOLEAN]
          /\ pc' \in [Handler -> PcOf] /\ pc'[h] = "idle" /\ loc' \in [Handler -> Locals]
          /\ \A g \in Handler \ {h} : pc'[g] = pc[g] /\ loc'[g] = loc[g]
      BY <1>6, <2>1, <2>2, <3>1, AnnounceType
    <3>4. \A g \in Handler : Busy(g)' => loc'[g].room \in Room
      <4> SUFFICES ASSUME NEW g \in Handler, Busy(g)' PROVE loc'[g].room \in Room
        OBVIOUS
      <4>1. CASE g # h
        BY <4>1, <3>1, <3>3 DEF Busy, TypeOK
      <4>2. CASE g = h
        BY <4>2, <2>1, <3>1, <3>3 DEF Busy, HandlersOK
      <4> QED
        BY <4>1, <4>2
    <3> QED
      BY <2>3, <3>1, <3>2, <3>3, <3>4 DEF TypeOK
  <2>5. CASE dead # {}
    <3> DEFINE started == [d \in Socket |-> IF d \in dead THEN "hdel" ELSE "none"]
    <3>1. /\ pc' = [pc EXCEPT ![h] = "remove"]
          /\ loc' = [loc EXCEPT ![h].seen = seen]
          /\ rm' = [rm EXCEPT ![h] = started]
          /\ UNCHANGED <<view, joined>>
      BY <1>6, <2>5 DEF HGetAll
    <3>2. PICK order \in SetToSeqs(dead) :
            Reissue([i \in 1..Len(order) |-> <<h, order[i]>>])
      BY <1>6, <2>5 DEF HGetAll
    <3>3. pipe' \in Seq(Command)
      <4>1. [i \in 1..Len(order) |-> <<h, order[i]>>] \in Seq(Command)
        BY <2>1, <2>2, OrderType
      <4> QED
        BY <2>1, <3>2, <4>1, ReissueType DEF TypeOK
    <3>4. "remove" \in PcOf /\ started \in [Socket -> RmOf]
      BY DEF PcOf, RmOf
    <3>5. /\ loc' \in [Handler -> Locals]
          /\ \A g \in Handler : loc'[g].room = loc[g].room /\ loc'[g].peer = loc[g].peer
      <4> DEFINE l == [loc[h] EXCEPT !.seen = seen]
      <4>1. loc' = [loc EXCEPT ![h] = l]
        BY <3>1
      <4> HIDE DEF seen
      <4>2. l \in Locals /\ l.room = loc[h].room /\ l.peer = loc[h].peer
        BY <1>0, <2>1, <2>2, LocalsUpdate
      <4> HIDE DEF l
      <4> QED
        BY <1>0, <2>1, <4>1, <4>2
    <3>6. pc' \in [Handler -> PcOf] /\ \A g \in Handler \ {h} : pc'[g] = pc[g]
      BY <2>1, <3>1, <3>4 DEF TypeOK
    <3>7. rm' \in [Handler -> [Socket -> RmOf]] /\ \A g \in Handler \ {h} : rm'[g] = rm[g]
      BY <2>1, <3>1, <3>4 DEF TypeOK
    <3>8. \A g \in Handler : Busy(g)' => loc'[g].room \in Room
      BY <2>1, <3>5, <3>6, <3>7 DEF Busy, TypeOK
    <3>9. \A g \in Handler : g[2] = "join" /\ pc'[g] # "idle" => loc'[g].peer \in Peer
      BY <2>1, <3>5, <3>6 DEF TypeOK
    <3> QED
      BY <2>3, <3>1, <3>3, <3>5, <3>6, <3>7, <3>8, <3>9 DEF TypeOK
  <2> QED
    BY <2>4, <2>5
<1>7. ASSUME NEW h \in Handler, HGet(h) PROVE TypeOK'
  <2> DEFINE s == h[1]
  <2>1. s \in Socket /\ loc[h].room \in Room
    BY <1>7 DEF HGet, TypeOK, Busy
  <2>2. pipe' \in Seq(Command)
    BY <1>7, ReissueType DEF HGet, TypeOK
  <2>3. redis[loc[h].room][s] \in Peer \cup {None} /\ "remove" \in PcOf /\ "hdel" \in RmOf
    BY <2>1 DEF TypeOK, PcOf, RmOf
  <2>4. /\ pc' = [pc EXCEPT ![h] = "remove"] /\ pc[h] = "hget"
        /\ loc' = [loc EXCEPT ![h].peer = redis[loc[h].room][s]]
        /\ rm' = Removing(h, s, "hdel")
        /\ UNCHANGED <<redis, adapter, dataRoom, conn, self, want, joined, view, joins,
                       faults, excused>>
    BY <1>7 DEF HGet
  <2>5. /\ loc' \in [Handler -> Locals]
        /\ \A g \in Handler : loc'[g].room = loc[g].room
        /\ \A g \in Handler \ {h} : loc'[g] = loc[g]
    <3> DEFINE p == redis[loc[h].room][s]
               l == [loc[h] EXCEPT !.peer = p]
    <3>1. loc' = [loc EXCEPT ![h] = l]
      BY <2>4
    <3>2. p \in Peer \cup {None}
      BY <2>3
    <3> HIDE DEF p
    <3>3. l \in Locals /\ l.room = loc[h].room
      BY <1>0, <3>2, LocalsUpdate
    <3> HIDE DEF l
    <3> QED
      BY <1>0, <3>1, <3>3
  <2>6. pc' \in [Handler -> PcOf] /\ \A g \in Handler \ {h} : pc'[g] = pc[g]
    BY <2>3, <2>4 DEF TypeOK
  <2>7. rm' \in [Handler -> [Socket -> RmOf]] /\ \A g \in Handler \ {h} : rm'[g] = rm[g]
    <3>1. rm' = Removing(h, s, "hdel")
      BY <2>4
    <3>2. s \in Socket /\ "hdel" \in RmOf
      BY <2>1, <2>3
    <3>3. Removing(h, s, "hdel") \in [Handler -> [Socket -> RmOf]]
          /\ \A g \in Handler \ {h} : Removing(h, s, "hdel")[g] = rm[g]
      <4> HIDE HandlerType, LocalTypes, NextCommands
      <4>1. rm \in [Handler -> [Socket -> RmOf]]
        BY <1>0
      <4> QED
        BY <3>2, <4>1, RemovingType
    <3> QED
      BY <3>1, <3>3
  <2>8. /\ \A g \in Handler : Busy(g)' => loc'[g].room \in Room
        /\ \A g \in Handler : g[2] = "join" /\ pc'[g] # "idle" => loc'[g].peer \in Peer
    <3>1. pc[h] = "hget"
      BY <2>4
    <3>2. h[2] # "join"
      BY <3>1 DEF HandlersOK
    <3> QED
      BY <2>1, <2>5, <2>6, <2>7, <3>1, <3>2 DEF TypeOK, Busy
  <2> QED
    BY <2>2, <2>4, <2>5, <2>6, <2>7, <2>8 DEF TypeOK
<1>8. ASSUME NEW h \in Handler, NEW d \in Socket, HDel(h, d) PROVE TypeOK'
  <2>1. pipe' \in Seq(Command)
    BY <1>8, ReissueType DEF HDel, TypeOK
  <2>2. rm' \in [Handler -> [Socket -> RmOf]] /\ rm[h] # NoRemoval
        /\ \A g \in Handler \ {h} : rm'[g] = rm[g]
    BY <1>0, <1>8, RemovingType DEF HDel, RmOf, NoRemoval
  <2>3. redis' \in [Room -> [Socket -> Peer \cup {None}]]
    BY <1>0, <1>8, PutType DEF HDel
  <2> QED
    BY <1>8, <2>1, <2>2, <2>3 DEF HDel, TypeOK, Busy
<1>9. ASSUME NEW h \in Handler, NEW d \in Socket, HLen(h, d) \/ Del(h, d) PROVE TypeOK'
  <2>1. rm[h][d] # "none" /\ Turn(<<h, d>>) /\ <<h, d>> \in Command
        /\ UNCHANGED <<conn, self, want, joins, faults>>
    BY <1>9 DEF HLen, Del
  <2>2. redis' \in [Room -> [Socket -> Peer \cup {None}]] /\ excused' \subseteq Socket
    <3>1. \/ UNCHANGED <<redis, excused>>
          \/ /\ redis' = Cleared(loc[h].room)
             /\ excused' = excused \cup Entries(loc[h].room)
      BY <1>9 DEF HLen, Del
    <3>2. Entries(loc[h].room) \subseteq Socket /\ excused \subseteq Socket
      BY DEF Entries, TypeOK
    <3> QED
      BY <1>0, <3>1, <3>2, ClearedType
  <2>3. CASE Removed(h, d)
    <3>1. \A g \in Handler : Busy(g)' => Busy(g) /\ loc'[g].room = loc[g].room
      BY <2>1, <2>3, RemovedType DEF Busy, NoRemoval
    <3> QED
      BY <2>1, <2>2, <2>3, <3>1, RemovedType DEF TypeOK
  <2>4. CASE /\ rm' = Removing(h, d, "del") /\ Reissue(<<<<h, d>>>>)
             /\ UNCHANGED <<adapter, dataRoom, pc, loc, view, joined>>
    <3>1. pipe' \in Seq(Command)
      BY <2>1, <2>4, ReissueType DEF TypeOK
    <3>2. rm' \in [Handler -> [Socket -> RmOf]] /\ rm[h] # NoRemoval
          /\ \A g \in Handler \ {h} : rm'[g] = rm[g]
      BY <1>0, <2>1, <2>4, RemovingType DEF RmOf, NoRemoval
    <3> QED
      BY <2>1, <2>2, <2>4, <3>1, <3>2 DEF TypeOK, Busy
  <2> QED
    BY <1>9, <2>3, <2>4 DEF HLen, Del
<1>10. ASSUME NEW h \in Handler, Check(h) PROVE TypeOK'
  <2>1. pipe' \in Seq(Command)
    BY <1>10, ReissueType DEF Check, TypeOK
  <2>2. view' \in [Socket -> SUBSET Peer]
    BY <1>10 DEF Check, TypeOK, ToldLeft
  <2>3. /\ pc' \in [Handler -> PcOf] /\ loc' \in [Handler -> Locals]
        /\ pc[h] # "idle" /\ pc'[h] = "idle"
        /\ \A g \in Handler \ {h} : pc'[g] = pc[g] /\ loc'[g] = loc[g]
    BY <1>10 DEF Check, TypeOK
  <2>4. rm' = rm /\ rm[h] = NoRemoval
    BY <1>10 DEF Check, HandlersOK
  <2> QED
    BY <1>10, <2>1, <2>2, <2>3, <2>4 DEF Check, TypeOK, Busy
<1>11. ASSUME NEW h \in Handler, NEW d \in Socket, Fail(h, d) PROVE TypeOK'
  <2> DEFINE left == [rm[h] EXCEPT ![d] = "none"]
  <2>1. /\ Turn(<<h, d>>) /\ <<h, d>> \in Command /\ Reissue(<<>>)
        /\ pc' = [pc EXCEPT ![h] = "idle"]
        /\ rm' = [rm EXCEPT ![h] = left]
        /\ loc' = [loc EXCEPT ![h] = IF left = NoRemoval THEN NoLocals ELSE @]
        /\ faults' = faults + 1
        /\ UNCHANGED <<adapter, dataRoom, conn, self, want, joined, view, joins>>
    BY <1>11 DEF Fail
  <2>2. pipe' \in Seq(Command)
    BY <2>1, ReissueType DEF TypeOK
  <2>3. redis' \in [Room -> [Socket -> Peer \cup {None}]]
    <3>1. \/ UNCHANGED redis
          \/ redis' = Put(loc[h].room, d, loc[h].peer)
          \/ redis' = Put(loc[h].room, d, None)
          \/ redis' = Cleared(loc[h].room)
      BY <1>11 DEF Fail
    <3>2. loc[h].peer \in Peer \cup {None}
      BY DEF TypeOK, Locals
    <3> QED
      BY <1>0, <3>1, <3>2, PutType, ClearedType
  <2>4. excused' \subseteq Socket
    BY <1>11 DEF Fail, TypeOK, Entries
  <2>5. left \in [Socket -> RmOf]
    BY DEF TypeOK
  <2>6. /\ rm' \in [Handler -> [Socket -> RmOf]] /\ rm'[h] = left
        /\ \A g \in Handler \ {h} : rm'[g] = rm[g]
    BY <2>1, <2>5 DEF TypeOK
  <2>7. /\ pc' \in [Handler -> PcOf] /\ pc'[h] = "idle"
        /\ \A g \in Handler \ {h} : pc'[g] = pc[g]
    BY <2>1 DEF TypeOK
  <2>8. /\ loc' \in [Handler -> Locals]
        /\ loc'[h] = IF left = NoRemoval THEN NoLocals ELSE loc[h]
        /\ \A g \in Handler \ {h} : loc'[g] = loc[g]
    BY <2>1 DEF TypeOK
  <2>9. loc[h].room \in Room
    <3>1. pc[h] # "idle" \/ rm[h][d] # "none"
      BY <1>11 DEF Fail
    <3> QED
      BY <3>1 DEF TypeOK, Busy, NoRemoval
  <2>10. /\ \A g \in Handler : Busy(g)' => loc'[g].room \in Room
         /\ \A g \in Handler : g[2] = "join" /\ pc'[g] # "idle" => loc'[g].peer \in Peer
    BY <2>6, <2>7, <2>8, <2>9 DEF TypeOK, Busy
  <2> QED
    BY <2>1, <2>2, <2>3, <2>4, <2>6, <2>7, <2>8, <2>10 DEF TypeOK
<1>12. ASSUME NEW r \in Room, RoomExpires(r) PROVE TypeOK'
  <2>1. redis' \in [Room -> [Socket -> Peer \cup {None}]]
    BY <1>0, <1>12, ClearedType DEF RoomExpires
  <2> QED
    BY <1>12, <2>1 DEF RoomExpires, TypeOK, Busy, Entries
<1>13. ASSUME Restart PROVE TypeOK'
  BY <1>13 DEF Restart, TypeOK, Busy
<1>14. CASE UNCHANGED vars
  BY <1>14 DEF vars, TypeOK, Busy
<1> QED
  BY <1>1, <1>2, <1>3, <1>4, <1>5, <1>6, <1>7, <1>8, <1>9, <1>10, <1>11, <1>12, <1>13, <1>14,
     JoinLine DEF Next, JoinStep, RemoveStep

-----------------------------------------------------------------------------
(* Handlers.                                                               *)

\* What a removal's last command changes for the handler that waited for it.
LEMMA RemovedEffect ==
  ASSUME TypeOK, NEW h \in Handler, NEW d \in Socket, Removed(h, d), rm[h][d] # "none"
  PROVE  /\ rm'[h][d] = "none"
         /\ \A e \in Socket \ {d} : rm'[h][e] = rm[h][e]
         /\ \A g \in Handler \ {h} : rm'[g] = rm[g] /\ pc'[g] = pc[g] /\ loc'[g] = loc[g]
         /\ \/ /\ UNCHANGED <<adapter, dataRoom, pc, view, joined>>
               /\ loc'[h] = loc[h] \/ pc[h] = "idle"
               /\ pc[h] # "remove" \/ rm'[h] # NoRemoval
            \/ rm'[h] = NoRemoval /\ pc[h] = "remove" /\ AfterRemovals(h)
<1> DEFINE left == [rm[h] EXCEPT ![d] = "none"]
<1>1. rm \in [Handler -> [Socket -> RmOf]] /\ loc \in [Handler -> Locals]
      /\ pc \in [Handler -> PcOf]
  BY DEF TypeOK
<1>2. left \in [Socket -> RmOf] /\ left[d] = "none" /\ \A e \in Socket \ {d} : left[e] = rm[h][e]
  BY <1>1, LocalTypes
<1>3. rm' = [rm EXCEPT ![h] = left]
  BY DEF Removed
<1>4. rm'[h] = left /\ \A g \in Handler \ {h} : rm'[g] = rm[g]
  BY <1>1, <1>2, <1>3
<1>5. CASE left = NoRemoval /\ pc[h] = "remove"
  <2>1. AfterRemovals(h)
    BY <1>5 DEF Removed
  <2>2. \A g \in Handler \ {h} : pc'[g] = pc[g] /\ loc'[g] = loc[g]
    BY <1>1, <2>1 DEF AfterRemovals, Announce
  <2> QED
    BY <1>2, <1>4, <1>5, <2>1, <2>2
<1>6. CASE ~(left = NoRemoval /\ pc[h] = "remove")
  <2>1. /\ UNCHANGED <<adapter, dataRoom, pc, view, joined>>
        /\ loc' = [loc EXCEPT ![h] =
                     IF left = NoRemoval /\ pc[h] = "idle" THEN NoLocals ELSE @]
    BY <1>6 DEF Removed
  <2>2. /\ loc'[h] = loc[h] \/ pc[h] = "idle"
        /\ \A g \in Handler \ {h} : loc'[g] = loc[g]
    BY <1>1, <2>1
  <2> QED
    BY <1>2, <1>4, <1>6, <2>1, <2>2
<1> QED
  BY <1>5, <1>6

\* The lines of the handlers.
LEMMA Lines ==
  /\ \A s \in Socket : J(s)[1] = s /\ L(s)[1] = s /\ D(s)[1] = s
  /\ \A s \in Socket : J(s)[2] = "join" /\ L(s)[2] = "leave" /\ D(s)[2] = "disconnect"
  /\ \A h \in Handler : h[3] = 1 => h = J(h[1]) \/ h = L(h[1]) \/ h = D(h[1])
  /\ \A h \in Handler : h[2] = "disconnect" => h = D(h[1])
  /\ \A h \in Handler : h[3] = 1 /\ h[2] = "join" => h = J(h[1])
  /\ \A h \in Handler : h[3] = 1 /\ h[2] = "leave" => h = L(h[1])
  /\ \A s, t \in Socket : J(s) # L(t) /\ J(s) # D(t) /\ L(s) # D(t)
  /\ \A s, t \in Socket : s # t => J(s) # J(t) /\ L(s) # L(t) /\ D(s) # D(t)
BY DEF J, L, D, Handler

LEMMA HandlersNext == TypeOK /\ HandlersOK /\ ConnectedOK /\ [Next]_vars => HandlersOK'
<1> SUFFICES ASSUME TypeOK, HandlersOK, ConnectedOK, [Next]_vars PROVE HandlersOK'
  OBVIOUS
<1> DEFINE Line(h) == IF h[2] = "join"
                        THEN {"idle", "hexists", "hset", "expire", "hgetall", "remove"}
                        ELSE {"idle", "hget", "remove", "check"}
           OK(h) == /\ pc[h] \in Line(h)
                    /\ pc[h] # "remove" /\ (pc[h] = "idle" => h[1] \notin excused)
                         => rm[h] = NoRemoval
                    /\ h[2] # "join" => \A d \in Socket \ {h[1]} : rm[h][d] = "none"
<1>0. \A h \in Handler : OK(h)
  BY DEF HandlersOK
<1>t. /\ rm \in [Handler -> [Socket -> RmOf]]
      /\ loc \in [Handler -> Locals]
      /\ pc \in [Handler -> PcOf]
  BY DEF TypeOK
<1>s. SUFFICES ASSUME NEW g \in Handler PROVE OK(g)'
  BY DEF HandlersOK
<1>f. ASSUME pc'[g] = pc[g], rm'[g] = rm[g], excused \subseteq excused' PROVE OK(g)'
  BY <1>0, <1>f
<1>1. ASSUME NEW s \in Socket, Connect(s) PROVE OK(g)'
  BY <1>1, <1>f DEF Connect
<1>2. ASSUME NEW h \in Handler, NEW r \in Room, NEW p \in Ids[h[1]], JoinRoom(h, r, p)
      PROVE  OK(g)'
  <2>1. h[2] = "join" /\ ~Busy(h) /\ pc' = [pc EXCEPT ![h] = "hexists"]
        /\ rm' = rm /\ excused \subseteq excused'
    BY <1>2 DEF JoinRoom, First
  <2>2. CASE g = h
    BY <1>0, <1>t, <2>1, <2>2 DEF Busy
  <2>3. CASE g # h
    BY <1>t, <1>f, <2>1, <2>3
  <2> QED
    BY <2>2, <2>3
<1>3. ASSUME NEW h \in Handler, LeaveRoom(h) PROVE OK(g)'
  <2>1. h[2] = "leave" /\ ~Busy(h) /\ rm' = rm /\ excused \subseteq excused'
        /\ (pc' = pc \/ pc' = [pc EXCEPT ![h] = "hget"])
    BY <1>3 DEF LeaveRoom, First
  <2>2. CASE g = h /\ pc' # pc
    BY <1>0, <1>t, <2>1, <2>2 DEF Busy
  <2>3. CASE g # h \/ pc' = pc
    BY <1>t, <1>f, <2>1, <2>3
  <2> QED
    BY <2>2, <2>3
<1>4. ASSUME NEW s \in Socket, Disconnect(s) PROVE OK(g)'
  <2>1. D(s) \in Handler /\ rm' = rm /\ excused \subseteq excused'
        /\ pc' = [pc EXCEPT ![D(s)] = "hget"] /\ conn[s] = "up"
    BY <1>4, HandlerType DEF Disconnect
  <2>2. ~Busy(D(s))
    BY <2>1 DEF ConnectedOK
  <2>3. CASE g = D(s)
    BY <1>0, <1>t, <2>1, <2>2, <2>3, Lines DEF Busy
  <2>4. CASE g # D(s)
    BY <1>t, <1>f, <2>1, <2>4
  <2> QED
    BY <2>3, <2>4
<1>5. ASSUME NEW h \in Handler, h[2] = "join", HExists(h) \/ HSet(h) \/ Expire(h) 
      PROVE  OK(g)'
  <2>1. /\ h[2] = "join" /\ rm' = rm /\ excused' = excused
        /\ pc[h] \in {"hexists", "hset", "expire"}
        /\ \E c \in {"hset", "expire", "hgetall"} : pc' = [pc EXCEPT ![h] = c]
    BY <1>5 DEF HExists, HSet, Expire
  <2>2. CASE g = h
    BY <1>0, <1>t, <2>1, <2>2
  <2>3. CASE g # h
    BY <1>t, <1>f, <2>1, <2>3
  <2> QED
    BY <2>2, <2>3
<1>6. ASSUME NEW h \in Handler, h[2] = "join", HGetAll(h) PROVE OK(g)'
  <2>1. h[2] = "join" /\ pc[h] = "hgetall" /\ excused' = excused
    BY <1>6 DEF HGetAll
  <2>2. \/ rm' = rm /\ pc' = [pc EXCEPT ![h] = "idle"]
        \/ /\ pc' = [pc EXCEPT ![h] = "remove"]
           /\ \E started : rm' = [rm EXCEPT ![h] = started]
    BY <1>6 DEF HGetAll, Announce
  <2>3. CASE g = h
    BY <1>0, <1>t, <2>1, <2>2, <2>3
  <2>4. CASE g # h
    BY <1>t, <1>f, <2>1, <2>2, <2>4
  <2> QED
    BY <2>3, <2>4
<1>7. ASSUME NEW h \in Handler, HGet(h) PROVE OK(g)'
  <2>1. /\ pc[h] = "hget" /\ pc' = [pc EXCEPT ![h] = "remove"] /\ excused' = excused
        /\ rm' = Removing(h, h[1], "hdel")
    BY <1>7 DEF HGet
  <2>2. h[1] \in Socket /\ "hdel" \in RmOf
    BY HandlerType DEF RmOf
  <2>3. CASE g = h
    <3>1. rm[h] = NoRemoval /\ h[2] # "join" /\ pc'[h] = "remove"
      BY <1>0, <1>t, <2>1
    <3>2. \A d \in Socket \ {h[1]} : rm'[h][d] = "none"
      <4>1. \A d \in Socket \ {h[1]} : Removing(h, h[1], "hdel")[h][d] = rm[h][d]
        BY <1>t, <2>2, RemovingType
      <4> QED
        BY <2>1, <3>1, <4>1 DEF NoRemoval
    <3> QED
      BY <2>3, <3>1, <3>2
  <2>4. CASE g # h
    <3>1. pc'[g] = pc[g]
      BY <1>t, <2>1, <2>4
    <3>2. rm'[g] = rm[g]
      BY <1>t, <2>1, <2>2, <2>4, RemovingType
    <3> QED
      BY <1>f, <2>1, <3>1, <3>2
  <2> QED
    BY <2>3, <2>4
<1>8. ASSUME NEW h \in Handler, NEW d \in Socket, rm[h][d] # "none",
             NEW e \in RmOf \ {"none"}, rm' = Removing(h, d, e), pc' = pc,
             excused \subseteq excused'
      PROVE  OK(g)'
  <2>1. CASE g = h
    <3>1. rm[h] # NoRemoval
      BY <1>8 DEF NoRemoval
    <3>2. \A c \in Socket : rm'[h][c] # "none" => rm[h][c] # "none"
      <4>1. \A c \in Socket \ {d} : Removing(h, d, e)[h][c] = rm[h][c]
        BY <1>t, <1>8, RemovingType
      <4> QED
        BY <1>8, <4>1
    <3> QED
      BY <1>0, <1>8, <2>1, <3>1, <3>2
  <2>2. CASE g # h
    <3>1. rm'[g] = rm[g]
      BY <1>t, <1>8, <2>2, RemovingType
    <3> QED
      BY <1>f, <1>8, <3>1
  <2> QED
    BY <2>1, <2>2
<1>9. ASSUME NEW h \in Handler, NEW d \in Socket, rm[h][d] # "none", Removed(h, d),
             excused \subseteq excused'
      PROVE  OK(g)'
  <2>1. /\ rm'[h][d] = "none"
        /\ \A e \in Socket \ {d} : rm'[h][e] = rm[h][e]
        /\ \A k \in Handler \ {h} : rm'[k] = rm[k] /\ pc'[k] = pc[k]
        /\ \/ pc' = pc
           \/ rm'[h] = NoRemoval /\ pc[h] = "remove" /\ AfterRemovals(h)
    BY <1>9, RemovedEffect
  <2>2. CASE g # h
    BY <1>f, <1>9, <2>1, <2>2
  <2>3. CASE g = h /\ pc' = pc
    <3>1. rm[h] # NoRemoval
      BY <1>9 DEF NoRemoval
    <3> QED
      BY <1>0, <1>9, <2>1, <2>3, <3>1
  <2>4. CASE g = h /\ rm'[h] = NoRemoval /\ pc[h] = "remove" /\ AfterRemovals(h)
    <3>1. pc'[h] = "idle" \/ (h[2] # "join" /\ pc'[h] = "check")
      BY <1>t, <2>4, Lines, HandlerType DEF AfterRemovals, Announce
    <3> QED
      BY <2>4, <3>1 DEF NoRemoval
  <2> QED
    BY <2>1, <2>2, <2>3, <2>4
<1>10. ASSUME NEW h \in Handler, NEW d \in Socket, HDel(h, d) \/ HLen(h, d) \/ Del(h, d)
       PROVE  OK(g)'
  <2>1. rm[h][d] # "none" /\ excused \subseteq excused'
    BY <1>10 DEF HDel, HLen, Del
  <2>2. \/ Removed(h, d)
        \/ pc' = pc /\ \E e \in RmOf \ {"none"} : rm' = Removing(h, d, e)
    BY <1>10 DEF HDel, HLen, Del, RmOf
  <2> QED
    BY <1>8, <1>9, <2>1, <2>2
<1>11. ASSUME NEW h \in Handler, Check(h) PROVE OK(g)'
  <2>1. pc[h] = "check" /\ pc' = [pc EXCEPT ![h] = "idle"] /\ rm' = rm /\ excused' = excused
    BY <1>11 DEF Check
  <2>2. CASE g = h
    BY <1>0, <1>t, <2>1, <2>2
  <2>3. CASE g # h
    BY <1>t, <1>f, <2>1, <2>3
  <2> QED
    BY <2>2, <2>3
<1>12. ASSUME NEW h \in Handler, NEW d \in Socket, Fail(h, d) PROVE OK(g)'
  <2> DEFINE left == [rm[h] EXCEPT ![d] = "none"]
  <2>1. /\ pc' = [pc EXCEPT ![h] = "idle"] /\ rm' = [rm EXCEPT ![h] = left]
        /\ excused \subseteq excused' /\ h[1] \in excused'
    BY <1>12 DEF Fail
  <2>2. CASE g = h
    <3>1. pc'[h] = "idle" /\ rm'[h] = left
      BY <1>t, <2>1
    <3>2. \A e \in Socket : left[e] # "none" => rm[h][e] # "none"
      BY <1>t
    <3> HIDE DEF left
    <3> QED
      BY <1>0, <2>1, <2>2, <3>1, <3>2
  <2>3. CASE g # h
    BY <1>t, <1>f, <2>1, <2>3
  <2> QED
    BY <2>2, <2>3
<1>13. ASSUME NEW r \in Room, RoomExpires(r) PROVE OK(g)'
  BY <1>13, <1>f DEF RoomExpires
<1>14. ASSUME Restart PROVE OK(g)'
  BY <1>14 DEF Restart, NoRemoval
<1>15. CASE UNCHANGED vars
  BY <1>15, <1>f DEF vars
<1> QED
  BY <1>1, <1>2, <1>3, <1>4, <1>5, <1>6, <1>7, <1>10, <1>11, <1>12, <1>13, <1>14, <1>15,
     JoinLine DEF Next, JoinStep, RemoveStep

-----------------------------------------------------------------------------
(* Sockets.                                                                *)

\* What the end of a removal does outside the handler's own variables.
LEMMA AfterEffect ==
  ASSUME TypeOK, NEW h \in Handler, AfterRemovals(h)
  PROVE  /\ \A s \in Socket \ {h[1]} : adapter'[s] = adapter[s] /\ dataRoom'[s] = dataRoom[s]
                                       /\ joined'[s] = joined[s]
         /\ \A s \in Socket : adapter'[s] \subseteq adapter[s]
                               /\ dataRoom'[s] \in {dataRoom[s], None}
         /\ \A s \in Socket : joined'[s] => joined[s] \/ (s = h[1] /\ conn[s] = "up")
<1>1. h[1] \in Socket
  BY HandlerType
<1>2. /\ adapter \in [Socket -> SUBSET Room] /\ dataRoom \in [Socket -> Room \cup {None}]
      /\ joined \in [Socket -> BOOLEAN]
  BY DEF TypeOK
<1>3. CASE /\ h[2] = "join" /\ Announce(h, loc[h].seen)
           /\ UNCHANGED <<adapter, dataRoom>>
  <2>1. /\ \A s \in Socket \ {h[1]} : joined'[s] = joined[s]
        /\ joined'[h[1]] => joined[h[1]] \/ conn[h[1]] = "up"
    BY <1>1, <1>2, <1>3 DEF Announce
  <2> QED
    BY <1>2, <1>3, <2>1
<1>4. CASE /\ adapter' = [adapter EXCEPT ![h[1]] = @ \ {loc[h].room}]
           /\ dataRoom' = [dataRoom EXCEPT ![h[1]] = None]
           /\ UNCHANGED <<view, joined>>
  BY <1>1, <1>2, <1>4
<1>5. CASE UNCHANGED <<adapter, dataRoom, view, joined>>
  BY <1>2, <1>5
<1> QED
  BY <1>3, <1>4, <1>5 DEF AfterRemovals

LEMMA ConnectedNext ==
  TypeOK /\ HandlersOK /\ ConnectedOK /\ [Next]_vars => ConnectedOK'
<1> SUFFICES ASSUME TypeOK, HandlersOK, ConnectedOK, [Next]_vars PROVE ConnectedOK'
  OBVIOUS
<1> DEFINE OK(s) ==
      /\ conn[s] = "new" => /\ \A r \in Room : redis[r][s] = None
                            /\ \A h \in Handler : h[1] = s => ~Busy(h)
                            /\ ~joined[s] /\ want[s] = None
                            /\ adapter[s] = {} /\ dataRoom[s] = None
      /\ conn[s] = "down" => adapter[s] = {} /\ ~joined[s]
      /\ Busy(D(s)) => conn[s] = "down"
<1>0. \A s \in Socket : OK(s)
  BY DEF ConnectedOK
<1>t. /\ rm \in [Handler -> [Socket -> RmOf]] /\ pc \in [Handler -> PcOf]
      /\ redis \in [Room -> [Socket -> Peer \cup {None}]] /\ adapter \in [Socket -> SUBSET Room]
      /\ conn \in [Socket -> {"new", "up", "down"}] /\ want \in [Socket -> Room \cup {None}]
      /\ joined \in [Socket -> BOOLEAN] /\ loc \in [Handler -> Locals]
      /\ dataRoom \in [Socket -> Room \cup {None}]
  BY DEF TypeOK
<1>s. SUFFICES ASSUME NEW s \in Socket PROVE OK(s)'
  BY DEF ConnectedOK
<1>h. D(s) \in Handler /\ D(s)[1] = s
  BY HandlerType, Lines
\* A step that only moves handlers on, empties entries and leaves rooms.
<1>f. ASSUME conn'[s] = conn[s], want'[s] = want[s], adapter'[s] \subseteq adapter[s],
             joined'[s] => joined[s] \/ conn[s] = "up",
             dataRoom'[s] \in {dataRoom[s], None},
             \A r \in Room : redis'[r][s] \in {redis[r][s], None},
             \A h \in Handler : h[1] = s /\ Busy(h)' => Busy(h)
      PROVE  OK(s)'
  BY <1>0, <1>f, <1>t, <1>h
<1>1. ASSUME NEW x \in Socket, Connect(x) PROVE OK(s)'
  BY <1>1, <1>0, <1>t DEF Connect, Busy
<1>2. ASSUME NEW k \in Handler, NEW r \in Room, NEW p \in Ids[k[1]], JoinRoom(k, r, p)
      PROVE  OK(s)'
  <2>1. /\ k[1] \in Socket /\ conn[k[1]] = "up" /\ k[2] = "join"
        /\ UNCHANGED <<conn, redis, rm>>
        /\ \A x \in Socket \ {k[1]} : want'[x] = want[x] /\ adapter'[x] = adapter[x]
             /\ joined'[x] = joined[x] /\ dataRoom'[x] = dataRoom[x]
        /\ \A g \in Handler \ {k} : pc'[g] = pc[g]
    BY <1>2, <1>t, HandlerType DEF JoinRoom
  <2>2. D(s) # k
    BY <2>1, Lines
  <2>3. CASE k[1] = s
    BY <1>0, <1>h, <2>1, <2>2, <2>3 DEF Busy
  <2>4. CASE k[1] # s
    BY <1>f, <2>1, <2>4 DEF Busy
  <2> QED
    BY <2>3, <2>4
<1>3. ASSUME NEW k \in Handler, LeaveRoom(k) PROVE OK(s)'
  <2>1. /\ k[1] \in Socket /\ conn[k[1]] = "up" /\ k[2] = "leave"
        /\ UNCHANGED <<conn, redis, rm, adapter, dataRoom>>
        /\ \A x \in Socket \ {k[1]} : want'[x] = want[x] /\ joined'[x] = joined[x]
        /\ \A g \in Handler \ {k} : pc'[g] = pc[g]
    BY <1>3, <1>t, HandlerType DEF LeaveRoom
  <2>2. D(s) # k
    BY <2>1, Lines
  <2>3. CASE k[1] = s
    BY <1>0, <1>h, <2>1, <2>2, <2>3 DEF Busy
  <2>4. CASE k[1] # s
    BY <1>f, <2>1, <2>4 DEF Busy
  <2> QED
    BY <2>3, <2>4
<1>4. ASSUME NEW x \in Socket, Disconnect(x) PROVE OK(s)'
  <2>1. CASE x = s
    BY <1>4, <1>t, <2>1 DEF Disconnect
  <2>2. CASE x # s
    <3>1. /\ conn'[s] = conn[s] /\ want'[s] = want[s] /\ adapter'[s] = adapter[s]
          /\ joined'[s] = joined[s] /\ redis' = redis /\ rm' = rm /\ dataRoom' = dataRoom
      BY <1>4, <1>t, <2>2 DEF Disconnect
    <3>2. \A h \in Handler : h[1] = s => pc'[h] = pc[h]
      BY <1>4, <1>t, <2>2, Lines, HandlerType DEF Disconnect
    <3> QED
      BY <1>f, <3>1, <3>2 DEF Busy
  <2> QED
    BY <2>1, <2>2
<1>5. ASSUME NEW k \in Handler, k[2] = "join", HExists(k) \/ HSet(k) \/ Expire(k)
      PROVE  OK(s)'
  <2>1. /\ k[1] \in Socket /\ pc[k] # "idle"
        /\ UNCHANGED <<conn, want, adapter, dataRoom, joined, rm>>
        /\ \E c \in PcOf : pc' = [pc EXCEPT ![k] = c]
        /\ redis' = redis \/ redis' = Put(loc[k].room, k[1], loc[k].peer)
    BY <1>5, HandlerType DEF HExists, HSet, Expire, PcOf
  <2>2. \A h \in Handler : Busy(h)' => Busy(h)
    BY <1>t, <2>1 DEF Busy
  <2>3. loc[k].peer \in Peer \cup {None}
    BY <1>t, <2>1 DEF Locals
  <2>4. CASE k[1] = s
    <3>1. conn[s] # "new"
      BY <1>0, <2>1, <2>4 DEF Busy
    <3> QED
      BY <1>0, <1>h, <2>1, <2>2, <3>1
  <2>5. CASE k[1] # s
    <3>1. \A r \in Room : redis'[r][s] = redis[r][s]
      BY <1>t, <2>1, <2>3, <2>5, PutType
    <3> QED
      BY <1>f, <2>1, <2>2, <3>1
  <2> QED
    BY <2>4, <2>5
<1>6. ASSUME NEW k \in Handler, k[2] = "join", HGetAll(k) PROVE OK(s)'
  <2>1. pc[k] = "hgetall" /\ UNCHANGED <<conn, want, adapter, dataRoom, redis>>
    BY <1>6 DEF HGetAll
  <2>2. \/ rm' = rm /\ pc' = [pc EXCEPT ![k] = "idle"]
        \/ /\ pc' = [pc EXCEPT ![k] = "remove"]
           /\ \E started : rm' = [rm EXCEPT ![k] = started]
    BY <1>6 DEF HGetAll, Announce
  <2>3. \A h \in Handler : Busy(h)' => Busy(h)
    BY <1>t, <2>1, <2>2 DEF Busy
  <2>4. joined'[s] => joined[s] \/ conn[s] = "up"
    BY <1>6, <1>t, HandlerType DEF HGetAll, Announce
  <2> QED
    BY <1>f, <2>1, <2>3, <2>4
<1>7. ASSUME NEW h \in Handler, HGet(h) PROVE OK(s)'
  <2>1. /\ pc[h] # "idle" /\ pc' = [pc EXCEPT ![h] = "remove"]
        /\ rm' = Removing(h, h[1], "hdel")
        /\ UNCHANGED <<conn, want, adapter, dataRoom, redis, joined>>
    BY <1>7 DEF HGet
  <2>2. h[1] \in Socket /\ "hdel" \in RmOf
    BY HandlerType DEF RmOf
  <2>3. \A g \in Handler \ {h} : rm'[g] = rm[g]
    BY <1>t, <2>1, <2>2, RemovingType
  <2>4. \A g \in Handler : Busy(g)' => Busy(g)
    BY <1>t, <1>h, <2>1, <2>3 DEF Busy
  <2> QED
    BY <1>f, <2>1, <2>4
<1>8. ASSUME NEW h \in Handler, NEW d \in Socket, HDel(h, d) \/ HLen(h, d) \/ Del(h, d)
      PROVE  OK(s)'
  <2>1. rm[h][d] # "none" /\ UNCHANGED <<conn, want>>
    BY <1>8 DEF HDel, HLen, Del
  <2>2. \A r \in Room : redis'[r][s] \in {redis[r][s], None}
    BY <1>8, <1>t, PutType, ClearedType DEF HDel, HLen, Del
  <2>3. rm[h] # NoRemoval
    BY <2>1 DEF NoRemoval
  <2>4. \/ Removed(h, d)
        \/ /\ UNCHANGED <<adapter, dataRoom, joined, pc>>
           /\ \E e \in RmOf : rm' = Removing(h, d, e)
    BY <1>8 DEF HDel, HLen, Del, RmOf
  <2>5. CASE Removed(h, d)
    <3>1. /\ \A g \in Handler \ {h} : rm'[g] = rm[g] /\ pc'[g] = pc[g]
          /\ UNCHANGED <<adapter, dataRoom, joined>> \/ AfterRemovals(h)
      BY <2>1, <2>5, RemovedEffect
    <3>2. dataRoom'[s] \in {dataRoom[s], None}
          /\ adapter'[s] \subseteq adapter[s] /\ (joined'[s] => joined[s] \/ conn[s] = "up")
      BY <1>t, <3>1, AfterEffect
    <3>3. \A g \in Handler : Busy(g)' => Busy(g)
      BY <1>h, <2>3, <3>1 DEF Busy
    <3> QED
      BY <1>f, <2>1, <2>2, <3>2, <3>3
  <2>6. CASE /\ UNCHANGED <<adapter, dataRoom, joined, pc>>
             /\ \E e \in RmOf : rm' = Removing(h, d, e)
    <3>1. \A g \in Handler \ {h} : rm'[g] = rm[g]
      BY <1>t, <2>6, RemovingType
    <3>2. \A g \in Handler : Busy(g)' => Busy(g)
      BY <1>h, <2>3, <2>6, <3>1 DEF Busy
    <3> QED
      BY <1>f, <2>1, <2>2, <2>6, <3>2
  <2> QED
    BY <2>4, <2>5, <2>6
<1>9. ASSUME NEW h \in Handler, Check(h) PROVE OK(s)'
  <2>1. /\ pc' = [pc EXCEPT ![h] = "idle"]
        /\ UNCHANGED <<conn, want, adapter, dataRoom, redis, joined, rm>>
    BY <1>9 DEF Check
  <2>2. \A g \in Handler : Busy(g)' => Busy(g)
    BY <1>t, <1>h, <2>1 DEF Busy
  <2> QED
    BY <1>f, <2>1, <2>2
<1>10. ASSUME NEW h \in Handler, NEW d \in Socket, Fail(h, d) PROVE OK(s)'
  <2> DEFINE left == [rm[h] EXCEPT ![d] = "none"]
  <2>1. /\ pc' = [pc EXCEPT ![h] = "idle"] /\ rm' = [rm EXCEPT ![h] = left]
        /\ UNCHANGED <<conn, want, adapter, dataRoom, joined>>
    BY <1>10 DEF Fail
  <2>2. rm[h] = NoRemoval => left = NoRemoval
    BY DEF NoRemoval
  <2> HIDE DEF left
  <2>3. \A g \in Handler : Busy(g)' => Busy(g)
    BY <1>t, <1>h, <2>1, <2>2 DEF Busy
  <2>4. CASE /\ d = h[1] /\ pc[h] = "hset" /\ redis' = Put(loc[h].room, d, loc[h].peer)
    <3>1. h[1] = d /\ Busy(h)
      BY <2>4 DEF Busy
    <3>2. loc[h].peer \in Peer \cup {None}
      BY <1>t DEF Locals
    <3>3. CASE d = s
      <4>1. conn[s] # "new"
        BY <1>0, <3>1, <3>3
      <4> QED
        BY <1>0, <1>h, <2>1, <2>3, <4>1
    <3>4. CASE d # s
      <4>1. \A r \in Room : redis'[r][s] = redis[r][s]
        BY <1>t, <2>4, <3>2, <3>4, PutType
      <4> QED
        BY <1>f, <2>1, <2>3, <4>1
    <3> QED
      BY <3>3, <3>4
  <2>5. CASE \/ redis' = redis \/ redis' = Put(loc[h].room, d, None)
             \/ redis' = Cleared(loc[h].room)
    <3>1. \A r \in Room : redis'[r][s] \in {redis[r][s], None}
      BY <1>t, <2>5, PutType, ClearedType
    <3> QED
      BY <1>f, <2>1, <2>3, <3>1
  <2> QED
    BY <1>10, <2>4, <2>5 DEF Fail
<1>11. ASSUME NEW r \in Room, RoomExpires(r) PROVE OK(s)'
  <2>1. \A q \in Room : redis'[q][s] \in {redis[q][s], None}
    BY <1>11, <1>t, ClearedType DEF RoomExpires
  <2> QED
    BY <1>11, <1>f, <2>1 DEF RoomExpires, Busy
<1>12. ASSUME Restart PROVE OK(s)'
  BY <1>12, <1>0, <1>h, <1>t DEF Restart, Busy
<1>13. CASE UNCHANGED vars
  BY <1>13, <1>0 DEF vars, Busy
<1> QED
  BY <1>1, <1>2, <1>3, <1>4, <1>5, <1>6, <1>7, <1>8, <1>9, <1>10, <1>11, <1>12, <1>13,
     JoinLine DEF Next, JoinStep, RemoveStep
=============================================================================
