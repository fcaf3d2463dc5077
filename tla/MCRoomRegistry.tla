--------------------------- MODULE MCRoomRegistry ---------------------------
(* Finite instances of RoomRegistry.                                       *)
EXTENDS RoomRegistry

CONSTANTS s1, s2, s3, p1, p2, p3, lan, code

\* Three browsers.
OnePeerEach == s1 :> {p1} @@ s2 :> {p2} @@ s3 :> {p3}
\* Two browsers.
TwoBrowsers == s1 :> {p1} @@ s2 :> {p2}
\* s1 and s2 are the connections of one browser before and after a reconnect.
Reconnect == s1 :> {p1} @@ s2 :> {p1} @@ s3 :> {p2}
\* The same, or a reload: the tab behind s2 may have a new peer id.
ReconnectOrReload == s1 :> {p1} @@ s2 :> {p1, p3} @@ s3 :> {p2}
\* Every browser behind one address: the default room is lan.
OneAddress == [s \in Socket |-> lan]

\* Two scenarios, each too large for the other's bounds.  s1 is a browser; s2 is its
\* next connection, or the other browser of the switch; s3 is the other browser beside
\* the reconnect.
IdsOfBoth == s1 :> {p1} @@ s2 :> {p1, p2} @@ s3 :> {p2}

\* A browser that reconnects while one fault happens: one join each, to one room.
ReconnectWithFault ==
  /\ \A s \in Socket : want[s] # code /\ joins[s] <= 1
  /\ Cardinality({h \in Handler : Busy(h)}) <= 2
  /\ self[s2] # p2
  /\ \A h \in Handler : Busy(h) => h[3] = 1

\* Two browsers that change rooms, without a fault.  That of s1 may ask for a second
\* room without leaving the first, one request after the other or both at once; its
\* leave-rooms do not overlap one another.  The registration of s2 is not spoilt.
Switch ==
  /\ conn[s3] = "new"
  /\ self[s2] # p1
  /\ faults = 0
  /\ ~Busy(<<s1, "leave", 2>>)
  /\ joins[s2] <= 1 /\ s2 \notin excused

EitherScenario == ReconnectWithFault \/ Switch
=============================================================================
