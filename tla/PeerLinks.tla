------------------------------ MODULE PeerLinks -------------------------------
(***************************************************************************)
(* Who connects to whom: the connect effect and the connection listeners   *)
(* of front/src/contexts/PeerProvider.tsx, the list of                     *)
(* front/src/stores/usePeersStore.ts, and what SocketProvider.tsx does to  *)
(* it when a room is joined or left.                                       *)
(*                                                                         *)
(* Two browsers move between two rooms.  The server is reduced to what it  *)
(* tells them, in order: RoomRegistry has what may happen to that.  Both   *)
(* browsers connect when they see each other, so a pair may have two       *)
(* connections and more; each end opens and closes in its own time, but    *)
(* none opens when the other has closed already.                           *)
(*                                                                         *)
(* A definition marked "a slip" is the next one with a mistake in it.  No  *)
(* other definition uses it: put in its place, it shows what a property    *)
(* catches.                                                                *)
(***************************************************************************)
EXTENDS Naturals, Sequences

CONSTANTS
  Browser,    \* two of them
  MaxConns,   \* bound: connections made
  MaxVisits   \* bound: rooms joined, by both

ASSUME LinksAssumption ==
  /\ \E p, q \in Browser : p # q /\ Browser = {p, q}
  /\ MaxConns \in Nat /\ MaxVisits \in Nat

VARIABLES
  at,       \* at[b]: the room the server has b in, or 0
  visits,   \* rooms joined so far
  signals,  \* signals[b]: what the server has told b of the other one, in order
  entry,    \* entry[b]: the other one in the list of b: its connection, 0 or Absent
  due,      \* due[b]: the list of b has changed since its connect effect ran
  made,     \* connections made so far; a connection is its number
  end,      \* end[b][c]: b's end of connection c
  before,   \* those made before somebody last changed rooms (history)
  mishaps   \* what went wrong so far (history: no guard reads it)

linkVars == <<at, visits, signals, entry, due, made, end, before, mishaps>>

Conn == 1..MaxConns
Absent == MaxConns + 1
Other(b) == CHOOSE o \in Browser : o # b

\* What can go wrong:
Mishap == {"failed",   \* a connection broke or never opened: there is no other try
           "late",     \* one opened when the browsers were in different rooms
           "stale",    \* one opened that was made before one of them changed rooms
           "lagging"}  \* one opened while a word of the other's absence was on its way

\* What the server tells, in the answer to join-room and when the other one moves.
Signal == {"join-success-both", "join-success-alone", "peer-joined", "peer-left"}
EndState == {"none", "pending", "open", "closed"}

Together == \E r \in {1, 2} : \A b \in Browser : at[b] = r

LinksInit ==
  /\ at = [b \in Browser |-> 0]
  /\ visits = 0
  /\ signals = [b \in Browser |-> <<>>]
  /\ entry = [b \in Browser |-> Absent]
  /\ due = [b \in Browser |-> FALSE]
  /\ made = 0
  /\ end = [b \in Browser |-> [c \in Conn |-> "none"]]
  /\ before = 0
  /\ mishaps = {}

\* Any change of the list makes the connect effect due.
Listed(b, new) ==
  /\ entry' = [entry EXCEPT ![b] = new]
  /\ due' = [due EXCEPT ![b] = @ \/ new # entry[b]]

\* removeTargetPeer and clearTargetPeers close the entry's connection if it is open.
Unlist(b) ==
  /\ Listed(b, Absent)
  /\ end' = IF entry[b] \in Conn /\ end[b][entry[b]] = "open"
            THEN [end EXCEPT ![b][entry[b]] = "closed"] ELSE end

\* addTargetPeer without a connection.
AddInPlace(b) ==   \* a slip: the list is changed in place, so no effect is due
  entry' = [entry EXCEPT ![b] = IF @ = Absent THEN 0 ELSE @] /\ UNCHANGED <<due, end>>
Add(b) == Listed(b, IF entry[b] = Absent THEN 0 ELSE entry[b]) /\ UNCHANGED end

\* The join effect of b: the list is emptied, leave-room and join-room are sent.
EnterRoom(b, r) ==
  /\ at[b] # r /\ r <= visits + 1   \* the first room joined is room 1
  /\ visits < MaxVisits
  /\ visits' = visits + 1
  /\ at' = [at EXCEPT ![b] = r]
  /\ LET o == Other(b)
         told == CASE at[o] = r -> <<"peer-joined">>
                   [] at[o] = at[b] /\ at[o] # 0 -> <<"peer-left">>
                   [] OTHER -> <<>>
     IN  signals' = [signals EXCEPT ![b] = Append(@, IF at[o] = r THEN "join-success-both"
                                                     ELSE "join-success-alone"),
                                    ![o] = @ \o told]
  /\ Unlist(b)
  /\ before' = made
  /\ UNCHANGED <<made, mishaps>>

GoodbyeAlone == {"join-success-alone"}   \* a slip: peer-left is no goodbye
Goodbye == {"join-success-alone", "peer-left"}
\* onJoinSuccess, onPeerJoined and onPeerLeft.
TakeSignal(b) ==
  /\ signals[b] # <<>>
  /\ signals' = [signals EXCEPT ![b] = Tail(@)]
  /\ IF Head(signals[b]) \in Goodbye THEN Unlist(b) ELSE Add(b)
  /\ UNCHANGED <<at, visits, made, before, mishaps>>

-----------------------------------------------------------------------------
(* Connections *)

\* The connect effect: an entry without a connection gets one, also while one is opening.
ConnectEffect(b) ==
  /\ due[b]
  /\ due' = [due EXCEPT ![b] = FALSE]
  /\ IF entry[b] = 0
     THEN /\ made < MaxConns
          /\ made' = made + 1
          /\ end' = [e \in Browser |-> [end[e] EXCEPT ![made'] = "pending"]]
     ELSE UNCHANGED <<made, end>>
  /\ UNCHANGED <<at, visits, signals, entry, before, mishaps>>
\* The list is another one for a reason of its own: the progress of some transfer.
Touch(b) ==
  /\ entry[b] = 0 /\ ~due[b] /\ made < MaxConns
  /\ due' = [due EXCEPT ![b] = TRUE]
  /\ UNCHANGED <<at, visits, signals, entry, made, end, before, mishaps>>

\* "open": the connection becomes the entry's, and the peer is listed if it was not.
EndOpens(b, c) ==
  /\ end[b][c] = "pending" /\ end[Other(b)][c] # "closed"
  /\ end' = [end EXCEPT ![b][c] = "open"]
  /\ Listed(b, c)
  /\ mishaps' = mishaps \cup (IF Together THEN {} ELSE {"late"})
                     \cup (IF c <= before THEN {"stale"} ELSE {})
                     \cup (IF \E i \in DOMAIN signals[b] : signals[b][i] \in Goodbye
                           THEN {"lagging"} ELSE {})
  /\ UNCHANGED <<at, visits, signals, made, before>>

Failure(b, c) == IF end[Other(b)][c] = "closed" THEN {} ELSE {"failed"}
\* "close": the other end has closed, or the connection breaks; the entry goes if it
\* holds this connection, whether or not the peer is still in the room.
EndCloses(b, c) ==
  /\ end[b][c] = "open"
  /\ end' = [end EXCEPT ![b][c] = "closed"]
  /\ Listed(b, IF entry[b] = c THEN Absent ELSE entry[b])
  /\ mishaps' = mishaps \cup Failure(b, c)
  /\ UNCHANGED <<at, visits, signals, made, before>>

\* A connection never opens at one end: nothing is done, and there is no other try.
NeverOpens(b, c) ==
  /\ end[b][c] = "pending"
  /\ end' = [end EXCEPT ![b][c] = "closed"]
  /\ mishaps' = mishaps \cup Failure(b, c)
  /\ UNCHANGED <<at, visits, signals, entry, due, made, before>>

LinksNext ==
  \E b \in Browser :
    \/ \E r \in {1, 2} : EnterRoom(b, r)
    \/ TakeSignal(b)
    \/ ConnectEffect(b) \/ Touch(b)
    \/ \E c \in Conn : EndOpens(b, c) \/ EndCloses(b, c) \/ NeverOpens(b, c)

LinksSpec == LinksInit /\ [][LinksNext]_linkVars

-----------------------------------------------------------------------------
(* Properties *)

\* The types of the state.
LinksTypeOK ==
  /\ at \in [Browser -> 0..2] /\ visits \in 0..MaxVisits
  /\ signals \in [Browser -> Seq(Signal)]
  /\ entry \in [Browser -> 0..Absent] /\ due \in [Browser -> BOOLEAN]
  /\ made \in 0..MaxConns /\ before \in 0..MaxConns
  /\ end \in [Browser -> [Conn -> EndState]]
  /\ mishaps \subseteq Mishap

\* An entry holds a connection whose own end is open.
EntryOpen == \A b \in Browser : entry[b] \in Conn => end[b][entry[b]] = "open"

LinksRest ==
  \A b \in Browser :
    /\ signals[b] = <<>> /\ ~due[b]
    /\ \A c \in Conn :
         /\ end[b][c] # "pending"
         /\ end[b][c] = "open" => end[Other(b)][c] = "open"

\* At rest, two browsers in one room list each other with a connection that is open at
\* both ends, if nothing went wrong.  Without "stale" it is false: a connection made before
\* a browser left and came back may open last, take the place of the newer one, and go
\* with the late word that the browser had left.
TogetherLinked ==
  LinksRest /\ Together /\ mishaps = {} =>
    \A b \in Browser : entry[b] \in Conn

\* At rest, browsers in different rooms do not list each other, unless a connection
\* opened late: "Close stale WebRTC connections to avoid ghost peers after room switch"
\* (SocketProvider.tsx:225) closes those of the list, and not one that is still opening.
ApartUnlisted ==
  LinksRest /\ ~Together => \A b \in Browser : entry[b] = Absent \/ "late" \in mishaps
=============================================================================
