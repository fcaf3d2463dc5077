------------------------------- MODULE Address --------------------------------
(***************************************************************************)
(* The address the page shows to somebody who is alone: the lookup of      *)
(* front/src/contexts/SocketProvider.tsx over HTTP                         *)
(* (front/src/services/roomService.ts, back/src/app.controller.ts), and    *)
(* the address every join-success carries.                                 *)
(*                                                                         *)
(* Both end in one setIp, and the last one stays.  The browser may change  *)
(* its network: the socket breaks, comes back from another address, and    *)
(* the last join is replayed.  A lookup that is under way then is answered *)
(* for the old network, or fails.                                          *)
(*                                                                         *)
(* A definition marked "a slip" is the next one with a mistake in it.  No  *)
(* other definition uses it: put in its place, it shows what a property    *)
(* catches.                                                                *)
(***************************************************************************)
EXTENDS Naturals, Sequences

CONSTANT MaxNetworks   \* bound: networks the browser is in

ASSUME AddressAssumption == MaxNetworks \in Nat \ {0}

VARIABLES
  network,  \* the one the browser is in; its number stands for its address
  ip,       \* of useUserStore
  lookup,   \* the lookup: "due", "asked", "answered" for a network, or "over"
  online,   \* the socket is connected
  replays,  \* a join was sent: it is sent again when the socket comes back
  answers,  \* join-success on its way, by the address the server saw
  outdone   \* the lookup ended after a join-success of this network (history)

addressVars == <<network, ip, lookup, online, replays, answers, outdone>>

NoIp == 0
Unknown == MaxNetworks + 1   \* "unknown"

AddressInit ==
  /\ network = 1
  /\ ip = NoIp
  /\ lookup = [step |-> "due", seen |-> NoIp]
  /\ online = FALSE
  /\ replays = FALSE
  /\ answers = <<>>
  /\ outdone = FALSE

\* loadIp runs while there is no address yet.
LookUp ==
  /\ lookup.step = "due"
  /\ lookup' = [lookup EXCEPT !.step = IF ip = NoIp THEN "asked" ELSE "over"]
  /\ UNCHANGED <<network, ip, online, replays, answers, outdone>>
\* getClientIp.
getClientIp ==
  /\ lookup.step = "asked"
  /\ lookup' = [step |-> "answered", seen |-> network]
  /\ UNCHANGED <<network, ip, online, replays, answers, outdone>>
\* fetchUserIp returns or throws.
LookUpEnds ==
  /\ lookup.step \in {"asked", "answered"}
  /\ \/ lookup.step = "answered" /\ ip' = lookup.seen
     \/ ip' = Unknown
  /\ lookup' = [lookup EXCEPT !.step = "over"]
  /\ outdone' = (ip = network /\ ip' # network)
  /\ UNCHANGED <<network, online, replays, answers>>

SocketOpens ==
  /\ ~online
  /\ online' = TRUE
  /\ answers' = IF replays THEN Append(answers, network) ELSE answers
  /\ UNCHANGED <<network, ip, lookup, replays, outdone>>
\* The join effect; without a connection handleConnect sends the join.
JoinsRoom ==
  /\ ~replays
  /\ replays' = TRUE
  /\ answers' = IF online THEN Append(answers, network) ELSE answers
  /\ UNCHANGED <<network, ip, lookup, online, outdone>>
\* onJoinSuccess.
ToldIpOnce ==   \* a slip: an address that is known is kept
  /\ answers # <<>>
  /\ answers' = Tail(answers)
  /\ ip' = IF ip = NoIp THEN Head(answers) ELSE ip
  /\ outdone' = FALSE
  /\ UNCHANGED <<network, lookup, online, replays>>
ToldIp ==
  /\ answers # <<>>
  /\ answers' = Tail(answers)
  /\ ip' = Head(answers)
  /\ outdone' = FALSE
  /\ UNCHANGED <<network, lookup, online, replays>>

NetworkChanges ==
  /\ network < MaxNetworks
  /\ network' = network + 1
  /\ online' = FALSE
  /\ answers' = <<>>
  /\ outdone' = FALSE
  /\ UNCHANGED <<ip, lookup, replays>>

AddressNext ==
  LookUp \/ getClientIp \/ LookUpEnds \/ SocketOpens \/ JoinsRoom \/ ToldIp \/ NetworkChanges

AddressSpec == AddressInit /\ [][AddressNext]_addressVars

-----------------------------------------------------------------------------
\* Once a room is joined and nothing is on its way the page shows the address of the
\* network it is in, unless the lookup ended after the join-success of this network and
\* put an older address, or "unknown", in its place (SocketProvider.tsx:79).
AddressExact ==
  online /\ replays /\ answers = <<>> /\ lookup.step = "over" => ip = network \/ outdone
=============================================================================
