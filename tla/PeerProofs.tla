------------------------------ MODULE PeerProofs ------------------------------
(***************************************************************************)
(* What holds of PeerLinks and of PeerReconnect, for all values of their   *)
(* constants.                                                              *)
(***************************************************************************)
EXTENDS PeerLinks, PeerReconnect, SequenceTheorems, TLAPS

-----------------------------------------------------------------------------
(***************************************************************************)
(* The peer lists, for every number of connections and of rooms joined.    *)
(* That browsers which are apart end up without each other in their lists  *)
(* is about a moment of rest; what holds all the way there (Leaving) is    *)
(* that each has taken the other out of its list or the last word on its   *)
(* way to it will make it do so.                                           *)
(*                                                                         *)
(* Of browsers that are together, each lists the other or has the word     *)
(* that makes it do so on its way (Coming); the entries of an older        *)
(* meeting will go with a goodbye (Former), and none of these goodbyes     *)
(* will take a connection made since (Recent).                              *)
(***************************************************************************)

Unmade == \A b \in Browser : \A c \in Conn : c > made => end[b][c] = "none"

Leaving ==
  "late" \notin mishaps /\ ~Together =>
    \A b \in Browser :
      IF signals[b] = <<>> THEN entry[b] = Absent
                           ELSE signals[b][Len(signals[b])] \in Goodbye

LinksInv == LinksTypeOK /\ Unmade /\ EntryOpen /\ Leaving

-----------------------------------------------------------------------------
(* Browsers, and what is on its way to them *)

\* There are two browsers.
LEMMA OtherOne ==
  ASSUME NEW b \in Browser
  PROVE  /\ Other(b) \in Browser /\ Other(b) # b
         /\ \A e \in Browser : e = b \/ e = Other(b)
<1>1. PICK p \in Browser, q \in Browser : p # q /\ Browser = {p, q}
  BY LinksAssumption DEF LinksAssumption
<1>2. \E o \in Browser : o # b  BY <1>1
<1>3. Other(b) \in Browser /\ Other(b) # b  BY <1>2 DEF Other
<1> QED  BY <1>1, <1>3

LEMMA AppendLast ==
  ASSUME NEW s \in Seq(Signal), NEW w \in Signal
  PROVE  LET t == Append(s, w)
         IN  t \in Seq(Signal) /\ t # <<>> /\ t[Len(t)] = w
  OBVIOUS

\* What is taken is the last word, or the last word stays.
LEMMA TailLast ==
  ASSUME NEW s \in Seq(Signal), s # <<>>
  PROVE  /\ Tail(s) \in Seq(Signal) /\ Head(s) \in Signal
         /\ Tail(s) = <<>> => Head(s) = s[Len(s)]
         /\ Tail(s) # <<>> => Tail(s)[Len(Tail(s))] = s[Len(s)]
<1>1. /\ Head(s) \in Signal /\ Tail(s) \in Seq(Signal) /\ Len(Tail(s)) = Len(s) - 1
      /\ \A i \in 1..Len(Tail(s)) : Tail(s)[i] = s[i + 1]
  BY HeadTailProperties
<1>2. Len(s) \in Nat \ {0}  BY EmptySeq
<1>3. Tail(s) # <<>> => Len(Tail(s)) \in Nat \ {0}  BY <1>1, EmptySeq
<1>4. Tail(s) = <<>> => Len(s) = 1
  <2>1. Len(<<>>) = 0  BY EmptySeq
  <2> QED  BY <1>1, <1>2, <2>1
<1>5. Head(s) = s[1]  OBVIOUS
<1> QED  BY <1>1, <1>2, <1>3, <1>4, <1>5

-----------------------------------------------------------------------------
(* Typing *)

LEMMA LinksInitOK == LinksInit => LinksInv
<1> SUFFICES ASSUME LinksInit  PROVE LinksInv
  OBVIOUS
<1> USE LinksAssumption DEF LinksAssumption, LinksInit
<1>1. LinksTypeOK
  BY EmptySeq DEF LinksTypeOK, Absent, Conn, EndState
<1>2. Unmade  BY DEF Unmade
<1>3. EntryOpen  BY DEF EntryOpen, Conn, Absent
<1>4. Leaving  BY DEF Leaving
<1> QED  BY <1>1, <1>2, <1>3, <1>4 DEF LinksInv

\* A list and a connection's end are changed in one place.
LEMMA ListedType ==
  ASSUME LinksTypeOK, NEW b \in Browser, NEW new \in 0..Absent, Listed(b, new)
  PROVE  /\ entry' \in [Browser -> 0..Absent] /\ due' \in [Browser -> BOOLEAN]
         /\ entry'[b] = new /\ \A e \in Browser : e # b => entry'[e] = entry[e]
  BY DEF LinksTypeOK, Listed

Becomes(b, c, new) == end' = [end EXCEPT ![b][c] = new]

LEMMA EndType ==
  ASSUME LinksTypeOK, NEW b \in Browser, NEW c \in Conn, NEW new \in EndState,
         Becomes(b, c, new)
  PROVE  /\ end' \in [Browser -> [Conn -> EndState]]
         /\ end'[b][c] = new
         /\ \A e \in Browser : \A d \in Conn : e # b \/ d # c => end'[e][d] = end[e][d]
<1>1. end \in [Browser -> [Conn -> EndState]]  BY DEF LinksTypeOK
<1>2. \A e \in Browser : end'[e] = IF e = b THEN [end[b] EXCEPT ![c] = new] ELSE end[e]
  BY <1>1 DEF Becomes
<1>3. \A e \in Browser : end'[e] \in [Conn -> EndState]  BY <1>1, <1>2
<1> QED  BY <1>1, <1>2, <1>3 DEF Becomes

\* An unlisted entry takes its open connection with it.
LEMMA UnlistType ==
  ASSUME LinksTypeOK, EntryOpen, NEW b \in Browser, Unlist(b)
  PROVE  /\ entry' \in [Browser -> 0..Absent] /\ due' \in [Browser -> BOOLEAN]
         /\ entry'[b] = Absent /\ \A e \in Browser : e # b => entry'[e] = entry[e]
         /\ end' \in [Browser -> [Conn -> EndState]]
         /\ \A e \in Browser : \A d \in Conn : e # b => end'[e][d] = end[e][d]
         /\ \A e \in Browser : \A d \in Conn : end[e][d] = "none" => end'[e][d] = "none"
<1>1. Absent \in 0..Absent  BY LinksAssumption DEF LinksAssumption, Absent
<1>2. Listed(b, Absent)  BY DEF Unlist
<1>3. CASE entry[b] \in Conn
  <2>1. end[b][entry[b]] = "open"  BY <1>3 DEF EntryOpen
  <2>2. end' = [end EXCEPT ![b][entry[b]] = "closed"]  BY <1>3, <2>1 DEF Unlist
  <2>3. "closed" \in EndState  BY DEF EndState
  <2> PICK c \in Conn : c = entry[b]  BY <1>3
  <2>4. /\ end' \in [Browser -> [Conn -> EndState]]
        /\ end'[b][c] = "closed"
        /\ \A e \in Browser : \A d \in Conn :
             e # b \/ d # c => end'[e][d] = end[e][d]
    <3>1. Becomes(b, c, "closed")  BY <2>2 DEF Becomes
    <3> QED  BY <2>3, <3>1, EndType
  <2>5. \A e \in Browser : \A d \in Conn : end[e][d] = "none" => end'[e][d] = "none"
    BY <2>1, <2>4
  <2> QED  BY <1>1, <1>2, <2>4, <2>5, ListedType
<1>4. CASE entry[b] \notin Conn
  <2>1. end' = end  BY <1>4 DEF Unlist
  <2> QED  BY <1>1, <1>2, <2>1, ListedType DEF LinksTypeOK
<1> QED  BY <1>3, <1>4

-----------------------------------------------------------------------------
(* Every step keeps the invariant *)

LEMMA ApartSame ==
  ASSUME Leaving, "late" \notin mishaps' => "late" \notin mishaps, at' = at,
         ~Together => \A b \in Browser :
           /\ signals'[b] = signals[b]
           /\ entry'[b] = entry[b] \/ entry'[b] = Absent
  PROVE  Leaving'
BY DEF Leaving, Together

LEMMA EnterRoomOK ==
  ASSUME LinksInv, NEW b \in Browser, NEW r \in {1, 2}, EnterRoom(b, r)
  PROVE  LinksInv'
<1> DEFINE o == Other(b)
           told == CASE at[o] = r -> <<"peer-joined">>
                     [] at[o] = at[b] /\ at[o] # 0 -> <<"peer-left">>
                     [] OTHER -> <<>>
           word == IF at[o] = r THEN "join-success-both" ELSE "join-success-alone"
<1> USE DEF LinksInv
<1>1. o \in Browser /\ o # b /\ \A e \in Browser : e = b \/ e = o  BY OtherOne
<1>2. /\ visits' = visits + 1 /\ visits < MaxVisits /\ at' = [at EXCEPT ![b] = r]
      /\ signals' = [signals EXCEPT ![b] = Append(@, word), ![o] = @ \o told]
      /\ Unlist(b) /\ before' = made /\ made' = made /\ mishaps' = mishaps
  BY DEF EnterRoom
<1>3. word \in Signal /\ told \in Seq(Signal)
  <2>1. "peer-joined" \in Signal /\ "peer-left" \in Signal /\ word \in Signal
    BY DEF Signal
  <2>2. <<"peer-joined">> \in Seq(Signal) /\ <<"peer-left">> \in Seq(Signal)
        /\ <<>> \in Seq(Signal)
    BY <2>1
  <2>3. told \in {<<"peer-joined">>, <<"peer-left">>, <<>>}  OBVIOUS
  <2> QED  BY <2>1, <2>2, <2>3
<1>4. at \in [Browser -> 0..2] /\ signals \in [Browser -> Seq(Signal)]
      /\ made \in 0..MaxConns /\ before \in 0..MaxConns /\ mishaps \subseteq Mishap
      /\ visits \in 0..MaxVisits
  BY DEF LinksTypeOK
<1> HIDE DEF o, word, told
<1>5. /\ at' \in [Browser -> 0..2] /\ at'[b] = r /\ at'[o] = at[o]
      /\ visits' \in 0..MaxVisits
  BY <1>1, <1>2, <1>4, LinksAssumption DEF LinksAssumption
<1>6. /\ signals'[b] = Append(signals[b], word) /\ signals'[o] = signals[o] \o told
      /\ signals' = [e \in Browser |-> signals'[e]]
  BY <1>1, <1>2, <1>4
<1>7. /\ signals'[b] \in Seq(Signal) /\ signals'[b] # <<>>
      /\ signals'[b][Len(signals'[b])] = word
  BY <1>3, <1>4, <1>6, AppendLast
<1>8. signals'[o] \in Seq(Signal)
  BY <1>1, <1>3, <1>4, <1>6, ConcatProperties
<1>9. signals' \in [Browser -> Seq(Signal)]  BY <1>1, <1>6, <1>7, <1>8
<1>10. LinksTypeOK'
  BY <1>2, <1>4, <1>5, <1>9, UnlistType DEF LinksTypeOK
<1>11. Unmade' /\ EntryOpen'
  <2>1. Unmade'  BY <1>2, UnlistType DEF Unmade
  <2>2. \A e \in Browser : entry'[e] \in Conn => e # b
    BY <1>2, UnlistType, LinksAssumption DEF Absent, Conn, LinksAssumption
  <2>3. EntryOpen'  BY <1>2, <2>2, UnlistType DEF EntryOpen
  <2> QED  BY <2>1, <2>3
<1>12. Leaving'
  <2> SUFFICES ASSUME "late" \notin mishaps, ~Together'
               PROVE  /\ word \in Goodbye
                      /\ IF signals'[o] = <<>> THEN entry'[o] = Absent
                         ELSE signals'[o][Len(signals'[o])] \in Goodbye
    BY <1>1, <1>2, <1>7 DEF Leaving
  <2>1. at[o] # r
    BY <1>1, <1>5 DEF Together
  <2>2. word \in Goodbye  BY <2>1 DEF word, Goodbye
  <2>3. CASE at[o] = at[b] /\ at[o] # 0
    <3>1. told = <<"peer-left">>  BY <2>1, <2>3 DEF told
    <3>2. signals'[o] = Append(signals[o], "peer-left")
      BY <1>1, <1>4, <1>6, <3>1
    <3>3. "peer-left" \in Signal /\ "peer-left" \in Goodbye  BY DEF Signal, Goodbye
    <3>4. signals'[o] # <<>> /\ signals'[o][Len(signals'[o])] = "peer-left"
      BY <1>1, <1>4, <3>2, <3>3, AppendLast
    <3> QED  BY <2>2, <3>3, <3>4
  <2>4. CASE ~(at[o] = at[b] /\ at[o] # 0)
    <3>1. told = <<>>  BY <2>1, <2>4 DEF told
    <3>2. signals'[o] = signals[o]
      BY <1>1, <1>4, <1>6, <3>1, ConcatEmptySeq
    <3>3. ~Together  BY <1>1, <2>4 DEF Together
    <3>4. entry'[o] = entry[o]  BY <1>1, <1>2, UnlistType
    <3> QED  BY <1>1, <2>2, <3>2, <3>3, <3>4 DEF Leaving
  <2> QED  BY <2>3, <2>4
<1> QED  BY <1>10, <1>11, <1>12

LEMMA TakeSignalOK ==
  ASSUME LinksInv, NEW b \in Browser, TakeSignal(b)
  PROVE  LinksInv'
<1> USE DEF LinksInv
<1> DEFINE word == Head(signals[b])
           rest == Tail(signals[b])
<1>1. /\ signals[b] # <<>> /\ signals' = [signals EXCEPT ![b] = rest]
      /\ at' = at /\ visits' = visits /\ made' = made /\ before' = before
      /\ mishaps' = mishaps
      /\ IF word \in Goodbye THEN Unlist(b) ELSE Add(b)
  BY DEF TakeSignal
<1>2. /\ signals \in [Browser -> Seq(Signal)] /\ signals[b] \in Seq(Signal)
      /\ entry \in [Browser -> 0..Absent]
  BY DEF LinksTypeOK
<1>3. /\ rest \in Seq(Signal)
      /\ rest = <<>> => word = signals[b][Len(signals[b])]
      /\ rest # <<>> => rest[Len(rest)] = signals[b][Len(signals[b])]
  BY <1>1, <1>2, TailLast
<1> HIDE DEF word, rest
<1>4. signals' \in [Browser -> Seq(Signal)] /\ signals'[b] = rest
      /\ \A e \in Browser : e # b => signals'[e] = signals[e]
  BY <1>1, <1>2, <1>3
<1>5. /\ entry' \in [Browser -> 0..Absent] /\ due' \in [Browser -> BOOLEAN]
      /\ \A e \in Browser : e # b => entry'[e] = entry[e]
      /\ end' \in [Browser -> [Conn -> EndState]]
      /\ entry'[b] \in Conn => entry'[b] = entry[b] /\ end' = end
      /\ \A e \in Browser : \A d \in Conn : e # b => end'[e][d] = end[e][d]
      /\ \A e \in Browser : \A d \in Conn : end[e][d] = "none" => end'[e][d] = "none"
      /\ word \in Goodbye => entry'[b] = Absent
  <2>1. CASE word \in Goodbye
    <3>1. Absent \notin Conn  BY LinksAssumption DEF LinksAssumption, Absent, Conn
    <3> QED  BY <1>1, <2>1, <3>1, UnlistType
  <2>2. CASE word \notin Goodbye
    <3>1. end' = end /\ Listed(b, IF entry[b] = Absent THEN 0 ELSE entry[b])
      BY <1>1, <2>2 DEF Add
    <3>2. 0 \in 0..Absent /\ 0 \notin Conn
      BY LinksAssumption DEF LinksAssumption, Absent, Conn
    <3>3. (IF entry[b] = Absent THEN 0 ELSE entry[b]) \in 0..Absent
      BY <1>2, <3>2
    <3>4. end \in [Browser -> [Conn -> EndState]]  BY DEF LinksTypeOK
    <3> QED  BY <2>2, <3>1, <3>2, <3>3, <3>4, ListedType
  <2> QED  BY <2>1, <2>2
<1>6. LinksTypeOK'  BY <1>1, <1>4, <1>5 DEF LinksTypeOK
<1>7. Unmade'  BY <1>1, <1>5 DEF Unmade
<1>8. EntryOpen'  BY <1>5 DEF EntryOpen
<1>9. Leaving'
  <2> SUFFICES ASSUME "late" \notin mishaps, ~Together, NEW e \in Browser
               PROVE  IF signals'[e] = <<>> THEN entry'[e] = Absent
                      ELSE signals'[e][Len(signals'[e])] \in Goodbye
    BY <1>1 DEF Leaving, Together
  <2>1. IF signals[e] = <<>> THEN entry[e] = Absent
        ELSE signals[e][Len(signals[e])] \in Goodbye
    BY DEF Leaving
  <2>2. CASE e # b  BY <1>4, <1>5, <2>1, <2>2
  <2>3. CASE e = b
    <3>1. signals[b][Len(signals[b])] \in Goodbye  BY <1>1, <2>1, <2>3
    <3> QED  BY <1>3, <1>4, <1>5, <2>3, <3>1
  <2> QED  BY <2>2, <2>3
<1> QED  BY <1>6, <1>7, <1>8, <1>9

\* What the connect effect and Touch leave alone.
LEMMA ConnectEffectOK ==
  ASSUME LinksInv, NEW b \in Browser, ConnectEffect(b)
  PROVE  LinksInv'
<1> USE DEF LinksInv
<1>1. /\ at' = at /\ visits' = visits /\ signals' = signals /\ entry' = entry
      /\ before' = before /\ mishaps' = mishaps /\ due' = [due EXCEPT ![b] = FALSE]
  BY DEF ConnectEffect
<1>2. CASE entry[b] # 0
  <2>1. made' = made /\ end' = end  BY <1>2 DEF ConnectEffect
  <2>2. LinksTypeOK'  BY <1>1, <2>1 DEF LinksTypeOK
  <2>3. Unmade' /\ EntryOpen'  BY <1>1, <2>1 DEF Unmade, EntryOpen
  <2>4. Leaving'  BY <1>1 DEF Leaving, Together
  <2> QED  BY <2>2, <2>3, <2>4
<1>3. CASE entry[b] = 0
  <2>1. /\ made < MaxConns /\ made' = made + 1
        /\ end' = [e \in Browser |-> [end[e] EXCEPT ![made + 1] = "pending"]]
    BY <1>3 DEF ConnectEffect
  <2>2. made \in 0..MaxConns /\ end \in [Browser -> [Conn -> EndState]]
    BY DEF LinksTypeOK
  <2>3. made + 1 \in Conn /\ made' \in 0..MaxConns
    BY <2>1, <2>2, LinksAssumption DEF Conn, LinksAssumption
  <2>4. \A e \in Browser : \A c \in Conn :
          end'[e][c] = IF c = made + 1 THEN "pending" ELSE end[e][c]
    BY <2>1, <2>2, <2>3
  <2>5. end' \in [Browser -> [Conn -> EndState]]
    <3>1. \A e \in Browser : [end[e] EXCEPT ![made + 1] = "pending"] \in [Conn -> EndState]
      BY <2>2, <2>3 DEF EndState
    <3> QED  BY <2>1, <3>1
  <2>6. LinksTypeOK'  BY <1>1, <2>3, <2>5 DEF LinksTypeOK
  <2>7. Unmade'  BY <2>1, <2>2, <2>3, <2>4 DEF Unmade, Conn
  <2>8. \A e \in Browser : end[e][made + 1] = "none"
    BY <2>2, <2>3 DEF Unmade
  <2>9. EntryOpen'  BY <1>1, <2>4, <2>8 DEF EntryOpen
  <2>10. Leaving'  BY <1>1 DEF Leaving, Together
  <2> QED  BY <2>6, <2>7, <2>9, <2>10
<1> QED  BY <1>2, <1>3

LEMMA TouchOK ==
  ASSUME LinksInv, NEW b \in Browser, Touch(b)
  PROVE  LinksInv'
<1> USE DEF LinksInv, Touch
<1>1. LinksTypeOK'  BY DEF LinksTypeOK
<1>2. Unmade' /\ EntryOpen' /\ Leaving'  BY DEF Unmade, EntryOpen, Leaving, Together
<1> QED  BY <1>1, <1>2

-----------------------------------------------------------------------------
(* Connections *)

\* An end that is pending or open changes, and its browser's list with it or not at all.
LEMMA EndOK ==
  ASSUME LinksInv, NEW b \in Browser, NEW c \in Conn, end[b][c] # "none",
         NEW new \in EndState, NEW to \in 0..Absent,
         Becomes(b, c, new), Listed(b, to),
         to \in Conn => (IF to = c THEN new = "open" ELSE to = entry[b]),
         ~Together /\ "late" \notin mishaps' => to \in {entry[b], Absent},
         mishaps \subseteq mishaps', mishaps' \subseteq Mishap,
         UNCHANGED <<at, visits, signals, made, before>>
  PROVE  LinksInv'
<1> USE DEF LinksInv
<1>1. /\ entry' \in [Browser -> 0..Absent] /\ due' \in [Browser -> BOOLEAN]
      /\ entry'[b] = to /\ \A e \in Browser : e # b => entry'[e] = entry[e]
  BY ListedType
<1>2. /\ end' \in [Browser -> [Conn -> EndState]] /\ end'[b][c] = new
      /\ \A e \in Browser : \A d \in Conn : e # b \/ d # c => end'[e][d] = end[e][d]
  BY EndType
<1>3. LinksTypeOK'  BY <1>1, <1>2 DEF LinksTypeOK
<1>4. Unmade'  BY <1>2 DEF Unmade
<1>5. EntryOpen'  BY <1>1, <1>2 DEF EntryOpen
<1>6. Leaving'  BY <1>1 DEF Leaving, Together
<1> QED  BY <1>3, <1>4, <1>5, <1>6

LEMMA EndOpensOK ==
  ASSUME LinksInv, NEW b \in Browser, NEW c \in Conn, EndOpens(b, c)
  PROVE  LinksInv'
<1>1. /\ end[b][c] # "none" /\ Becomes(b, c, "open") /\ Listed(b, c)
      /\ UNCHANGED <<at, visits, signals, made, before>>
      /\ mishaps \subseteq mishaps' /\ (~Together => "late" \in mishaps')
  BY DEF EndOpens, Becomes
<1>2. mishaps' \subseteq Mishap
  BY DEF EndOpens, LinksInv, LinksTypeOK, Mishap
<1>3. "open" \in EndState /\ c \in 0..Absent
  BY LinksAssumption DEF EndState, Conn, Absent, LinksAssumption
<1> QED  BY <1>1, <1>2, <1>3, EndOK

LEMMA EndClosesOK ==
  ASSUME LinksInv, NEW b \in Browser, NEW c \in Conn, EndCloses(b, c)
  PROVE  LinksInv'
<1> DEFINE to == IF entry[b] = c THEN Absent ELSE entry[b]
<1>1. /\ end[b][c] # "none" /\ Becomes(b, c, "closed") /\ Listed(b, to)
      /\ UNCHANGED <<at, visits, signals, made, before>>
      /\ mishaps \subseteq mishaps'
  BY DEF EndCloses, Becomes
<1>2. mishaps' \subseteq Mishap
  BY DEF EndCloses, Failure, LinksInv, LinksTypeOK, Mishap
<1>3. "closed" \in EndState /\ to \in {entry[b], Absent}  BY DEF EndState
<1>4. to \in 0..Absent /\ (to \in Conn => to # c /\ to = entry[b])
  <2>1. entry[b] \in 0..Absent /\ Absent \in 0..Absent /\ Absent \notin Conn
    BY LinksAssumption DEF LinksInv, LinksTypeOK, Absent, Conn, LinksAssumption
  <2> QED  BY <2>1
<1> HIDE DEF to
<1> QED  BY <1>1, <1>2, <1>3, <1>4, EndOK

LEMMA NeverOpensOK ==
  ASSUME LinksInv, NEW b \in Browser, NEW c \in Conn, NeverOpens(b, c)
  PROVE  LinksInv'
<1>1. /\ end[b][c] = "pending" /\ Becomes(b, c, "closed")
      /\ UNCHANGED <<at, visits, signals, entry, due, made, before>>
      /\ mishaps \subseteq mishaps'
  BY DEF NeverOpens, Becomes
<1>2. mishaps' \subseteq Mishap
  BY DEF NeverOpens, Failure, LinksInv, LinksTypeOK, Mishap
<1>3. "closed" \in EndState  BY DEF EndState
<1>4. Listed(b, entry[b])
  BY <1>1 DEF Listed, LinksInv, LinksTypeOK
<1>5. entry[b] \in 0..Absent /\ (entry[b] \in Conn => entry[b] # c)
  BY <1>1 DEF LinksInv, LinksTypeOK, EntryOpen
<1> QED  BY <1>1, <1>2, <1>3, <1>4, <1>5, EndOK

LEMMA LinksNextOK == LinksInv /\ [LinksNext]_linkVars => LinksInv'
<1> SUFFICES ASSUME LinksInv, [LinksNext]_linkVars  PROVE LinksInv'
  OBVIOUS
<1>1. CASE UNCHANGED linkVars
  <2> USE <1>1 DEF linkVars, LinksInv
  <2>1. LinksTypeOK'  BY DEF LinksTypeOK
  <2>2. Unmade' /\ EntryOpen' /\ Leaving'  BY DEF Unmade, EntryOpen, Leaving, Together
  <2> QED  BY <2>1, <2>2
<1>2. ASSUME NEW b \in Browser, NEW r \in {1, 2}, EnterRoom(b, r)  PROVE LinksInv'
  BY <1>2, EnterRoomOK
<1>3. ASSUME NEW b \in Browser, TakeSignal(b)  PROVE LinksInv'
  BY <1>3, TakeSignalOK
<1>4. ASSUME NEW b \in Browser, ConnectEffect(b)  PROVE LinksInv'
  BY <1>4, ConnectEffectOK
<1>5. ASSUME NEW b \in Browser, Touch(b)  PROVE LinksInv'
  BY <1>5, TouchOK
<1>6. ASSUME NEW b \in Browser, NEW c \in Conn, EndOpens(b, c)  PROVE LinksInv'
  BY <1>6, EndOpensOK
<1>7. ASSUME NEW b \in Browser, NEW c \in Conn, EndCloses(b, c)  PROVE LinksInv'
  BY <1>7, EndClosesOK
<1>8. ASSUME NEW b \in Browser, NEW c \in Conn, NeverOpens(b, c)  PROVE LinksInv'
  BY <1>8, NeverOpensOK
<1> QED  BY <1>1, <1>2, <1>3, <1>4, <1>5, <1>6, <1>7, <1>8 DEF LinksNext

-----------------------------------------------------------------------------
(* Browsers that are together *)

Parting(b) == \E i \in DOMAIN signals[b] : signals[b][i] \in Goodbye

\* A connection made since the last move is not closed at either end, and where it is open
\* no goodbye is on its way.
Recent ==
  \A b \in Browser : \A c \in Conn :
    c > before => end[b][c] # "closed" /\ (end[b][c] = "open" => ~Parting(b))

\* An older one in a list will go with a goodbye.
Former == \A b \in Browser : entry[b] \in Conn /\ entry[b] <= before => Parting(b)

\* An entry without a connection will go with a goodbye, or get the connection being made.
Trying ==
  \A b \in Browser :
    entry[b] = 0 /\ ~due[b] =>
      Parting(b) \/ \E c \in Conn : c > before /\ end[b][c] = "pending"

\* Of browsers that are together, each lists the other or will after the last word to it.
Coming ==
  Together =>
    \A b \in Browser :
      IF signals[b] = <<>> THEN entry[b] # Absent
                           ELSE signals[b][Len(signals[b])] \notin Goodbye

Meeting == before <= made /\ (mishaps = {} => Recent /\ Former /\ Trying /\ Coming)

\* A goodbye appended, or taken.
LEMMA AppendParting ==
  ASSUME NEW s \in Seq(Signal), NEW w \in Signal
  PROVE  (\E i \in DOMAIN Append(s, w) : Append(s, w)[i] \in Goodbye)
           <=> w \in Goodbye \/ \E i \in DOMAIN s : s[i] \in Goodbye
<1>1. /\ DOMAIN Append(s, w) = 1..(Len(s) + 1) /\ DOMAIN s = 1..Len(s) /\ Len(s) \in Nat
      /\ \A i \in 1..Len(s) : Append(s, w)[i] = s[i]
      /\ Append(s, w)[Len(s) + 1] = w
  BY AppendProperties
<1>2. ASSUME NEW i \in DOMAIN Append(s, w), Append(s, w)[i] \in Goodbye
      PROVE  w \in Goodbye \/ \E j \in DOMAIN s : s[j] \in Goodbye
  <2>1. i \in 1..Len(s) \/ i = Len(s) + 1  BY <1>1
  <2> QED  BY <1>1, <1>2, <2>1
<1>3. ASSUME NEW i \in DOMAIN s, s[i] \in Goodbye
      PROVE  \E j \in DOMAIN Append(s, w) : Append(s, w)[j] \in Goodbye
  <2>1. i \in DOMAIN Append(s, w) /\ Append(s, w)[i] = s[i]  BY <1>1
  <2> QED  BY <1>3, <2>1
<1>4. w \in Goodbye => \E j \in DOMAIN Append(s, w) : Append(s, w)[j] \in Goodbye
  BY <1>1
<1> QED  BY <1>2, <1>3, <1>4

LEMMA TailParting ==
  ASSUME NEW s \in Seq(Signal), s # <<>>
  PROVE  (\E i \in DOMAIN s : s[i] \in Goodbye)
           <=> Head(s) \in Goodbye \/ \E i \in DOMAIN Tail(s) : Tail(s)[i] \in Goodbye
<1>1. /\ Tail(s) \in Seq(Signal) /\ Len(Tail(s)) = Len(s) - 1 /\ Len(s) \in Nat
      /\ DOMAIN s = 1..Len(s) /\ DOMAIN Tail(s) = 1..Len(Tail(s))
      /\ \A i \in 1..Len(Tail(s)) : Tail(s)[i] = s[i + 1]
  BY HeadTailProperties
<1>2. Head(s) = s[1] /\ 1 \in DOMAIN s  BY <1>1, EmptySeq
<1>3. ASSUME NEW i \in DOMAIN s, s[i] \in Goodbye, i # 1
      PROVE  \E j \in DOMAIN Tail(s) : Tail(s)[j] \in Goodbye
  <2>1. i - 1 \in DOMAIN Tail(s) /\ Tail(s)[i - 1] = s[i]  BY <1>1, <1>3
  <2> QED  BY <1>3, <2>1
<1>4. ASSUME NEW j \in DOMAIN Tail(s), Tail(s)[j] \in Goodbye
      PROVE  \E i \in DOMAIN s : s[i] \in Goodbye
  <2>1. j + 1 \in DOMAIN s /\ Tail(s)[j] = s[j + 1]  BY <1>1
  <2> QED  BY <1>4, <2>1
<1> QED  BY <1>2, <1>3, <1>4

LEMMA MeetingInit == LinksInit => Meeting
<1> SUFFICES ASSUME LinksInit  PROVE Meeting
  OBVIOUS
<1> USE LinksAssumption DEF LinksAssumption, LinksInit
<1>1. Recent  BY DEF Recent
<1>2. Former /\ Trying  BY DEF Former, Trying, Absent, Conn
<1>3. Coming
  <2> PICK b \in Browser : TRUE  OBVIOUS
  <2> QED  BY DEF Coming, Together
<1> QED  BY <1>1, <1>2, <1>3 DEF Meeting

\* Browsers that are apart say goodbye to their entries.
LEMMA ApartParting ==
  ASSUME LinksInv, mishaps = {}, ~Together, NEW b \in Browser, entry[b] # Absent
  PROVE  Parting(b)
<1>1. signals[b] # <<>> /\ signals[b][Len(signals[b])] \in Goodbye
  BY DEF LinksInv, Leaving
<1>2. Len(signals[b]) \in DOMAIN signals[b]
  BY <1>1, EmptySeq DEF LinksInv, LinksTypeOK
<1> QED  BY <1>1, <1>2 DEF Parting

LEMMA EnterRoomMeets ==
  ASSUME LinksInv, LinksInv', Meeting, NEW b \in Browser, NEW r \in {1, 2}, EnterRoom(b, r)
  PROVE  Meeting'
<1> DEFINE o == Other(b)
           told == CASE at[o] = r -> <<"peer-joined">>
                     [] at[o] = at[b] /\ at[o] # 0 -> <<"peer-left">>
                     [] OTHER -> <<>>
           word == IF at[o] = r THEN "join-success-both" ELSE "join-success-alone"
<1> USE DEF LinksInv
<1>1. o \in Browser /\ o # b /\ \A e \in Browser : e = b \/ e = o  BY OtherOne
<1>2. /\ at' = [at EXCEPT ![b] = r] /\ at[b] # r
      /\ signals' = [signals EXCEPT ![b] = Append(@, word), ![o] = @ \o told]
      /\ Unlist(b) /\ before' = made /\ made' = made /\ mishaps' = mishaps
  BY DEF EnterRoom
<1>3. at \in [Browser -> 0..2] /\ signals \in [Browser -> Seq(Signal)]
      /\ made \in 0..MaxConns
  BY DEF LinksTypeOK
<1>4. word \in Signal
  BY DEF Signal
<1> HIDE DEF o
<1>5. \/ at[o] = r /\ told = <<"peer-joined">> /\ word \notin Goodbye
      \/ at[o] # r /\ at[o] = at[b] /\ at[o] # 0 /\ told = <<"peer-left">>
      \/ at[o] # r /\ ~(at[o] = at[b] /\ at[o] # 0) /\ told = <<>>
  <2>1. CASE at[o] = r
    <3>1. told = <<"peer-joined">> /\ word = "join-success-both"  BY <1>2, <2>1
    <3> QED  BY <2>1, <3>1 DEF Goodbye
  <2>2. CASE at[o] # r /\ at[o] = at[b] /\ at[o] # 0
    <3>1. told = <<"peer-left">>  BY <2>2
    <3> QED  BY <2>2, <3>1
  <2>3. CASE at[o] # r /\ ~(at[o] = at[b] /\ at[o] # 0)
    <3>1. told = <<>>  BY <2>3
    <3> QED  BY <2>3, <3>1
  <2> QED  BY <2>1, <2>2, <2>3
<1> HIDE DEF told, word
<1>6. /\ at'[b] = r /\ at'[o] = at[o]
      /\ signals'[b] = Append(signals[b], word) /\ signals'[o] = signals[o] \o told
      /\ signals[b] \in Seq(Signal) /\ signals[o] \in Seq(Signal)
  BY <1>1, <1>2, <1>3
<1>7. /\ entry'[b] = Absent /\ entry'[o] = entry[o]
  BY <1>1, <1>2, UnlistType
<1>8. /\ "peer-joined" \in Signal \ Goodbye
      /\ "peer-left" \in Signal \cap Goodbye
  BY DEF Signal, Goodbye
<1> SUFFICES ASSUME mishaps = {}  PROVE Recent' /\ Former' /\ Trying' /\ Coming'
  BY <1>2, <1>3 DEF Meeting
<1>9. Recent'  BY <1>2 DEF Unmade, Recent
<1>10. entry'[o] = Absent \/ Parting(o)'
  <2>1. CASE at[o] = at[b] /\ at[o] # 0
    <3>1. told = <<"peer-left">>  BY <1>2, <1>5, <2>1
    <3>2. signals'[o] = Append(signals[o], "peer-left")  BY <1>6, <3>1
    <3> QED  BY <1>6, <1>8, <3>2, AppendParting DEF Parting
  <2>2. CASE ~(at[o] = at[b] /\ at[o] # 0)
    <3>1. ~Together  BY <1>1, <2>2 DEF Together
    <3>2. entry[o] = Absent \/ Parting(o)  BY <1>1, <3>1, ApartParting
    <3>3. Parting(o) => Parting(o)'
      <4>1. CASE told = <<>>
        <5>1. signals'[o] = signals[o]  BY <1>6, <4>1, ConcatEmptySeq
        <5> QED  BY <5>1 DEF Parting
      <4>2. CASE told = <<"peer-joined">>
        <5>1. signals'[o] = Append(signals[o], "peer-joined")  BY <1>6, <4>2
        <5> QED  BY <1>6, <1>8, <5>1, AppendParting DEF Parting
      <4> QED  BY <1>5, <2>2, <4>1, <4>2
    <3> QED  BY <1>7, <3>2, <3>3
  <2> QED  BY <2>1, <2>2
<1>11. Absent # 0 /\ Absent \notin Conn
  BY LinksAssumption DEF LinksAssumption, Absent, Conn
<1>12. Former' /\ Trying'  BY <1>1, <1>7, <1>10, <1>11 DEF Former, Trying
<1>13. Coming'
  <2> SUFFICES ASSUME Together', NEW e \in Browser
               PROVE  signals'[e] # <<>> /\ signals'[e][Len(signals'[e])] \notin Goodbye
    BY DEF Coming
  <2>1. at[o] = r /\ told = <<"peer-joined">> /\ word \notin Goodbye
    BY <1>1, <1>5, <1>6 DEF Together
  <2>2. signals'[o] = Append(signals[o], "peer-joined")  BY <1>6, <2>1
  <2>3. CASE e = b  BY <1>4, <1>6, <2>1, <2>3, AppendLast
  <2>4. CASE e = o  BY <1>6, <1>8, <2>2, <2>4, AppendLast
  <2> QED  BY <1>1, <2>3, <2>4
<1> QED  BY <1>9, <1>12, <1>13

LEMMA TakeSignalMeets ==
  ASSUME LinksInv, LinksInv', Meeting, NEW b \in Browser, TakeSignal(b)
  PROVE  Meeting'
<1> USE DEF LinksInv
<1> DEFINE word == Head(signals[b])
           rest == Tail(signals[b])
<1>1. /\ signals[b] # <<>> /\ signals' = [signals EXCEPT ![b] = rest]
      /\ at' = at /\ made' = made /\ before' = before /\ mishaps' = mishaps
      /\ IF word \in Goodbye THEN Unlist(b) ELSE Add(b)
  BY DEF TakeSignal
<1>2. /\ signals \in [Browser -> Seq(Signal)] /\ signals[b] \in Seq(Signal)
      /\ due \in [Browser -> BOOLEAN] /\ entry \in [Browser -> 0..Absent]
  BY DEF LinksTypeOK
<1>3. /\ rest = <<>> => word = signals[b][Len(signals[b])]
      /\ rest # <<>> => rest[Len(rest)] = signals[b][Len(signals[b])]
  BY <1>1, <1>2, TailLast
<1>4. signals'[b] = rest /\ \A e \in Browser : e # b => signals'[e] = signals[e]
  BY <1>1, <1>2
<1>5. /\ Parting(b) <=> word \in Goodbye \/ Parting(b)'
      /\ \A e \in Browser : e # b => (Parting(e)' <=> Parting(e))
  <2>1. Parting(b) <=> word \in Goodbye \/ Parting(b)'
    BY <1>1, <1>2, <1>4, TailParting DEF Parting
  <2>2. \A e \in Browser : e # b => (Parting(e)' <=> Parting(e))
    BY <1>4 DEF Parting
  <2> QED  BY <2>1, <2>2
<1>6. Absent # 0 /\ Absent \notin Conn
  BY LinksAssumption DEF LinksAssumption, Absent, Conn
<1> HIDE DEF word, rest
<1>7. /\ \A e \in Browser : e # b => entry'[e] = entry[e] /\ due'[e] = due[e]
      /\ word \in Goodbye => entry'[b] = Absent
      /\ word \notin Goodbye =>
           /\ entry'[b] = IF entry[b] = Absent THEN 0 ELSE entry[b]
           /\ due'[b] = (due[b] \/ entry[b] = Absent)
  <2>1. CASE word \in Goodbye
    BY <1>1, <1>2, <2>1 DEF Unlist, Listed
  <2>2. CASE word \notin Goodbye
    <3>1. Listed(b, IF entry[b] = Absent THEN 0 ELSE entry[b])  BY <1>1, <2>2 DEF Add
    <3> QED  BY <1>2, <1>6, <2>2, <3>1 DEF Listed
  <2> QED  BY <2>1, <2>2
<1> SUFFICES ASSUME mishaps = {}  PROVE Recent' /\ Former' /\ Trying' /\ Coming'
  BY <1>1 DEF Meeting
<1>8. Recent /\ Former /\ Trying /\ Coming  BY DEF Meeting
\* What is made since the last move is not open where a goodbye is taken.
<1>9. \A e \in Browser : \A c \in Conn :
        \/ end'[e][c] = end[e][c]
        \/ end[e][c] = "open" /\ e = b /\ c = entry[b] /\ word \in Goodbye
  <2>1. CASE end' = end  BY <2>1
  <2>2. CASE end' # end
    <3>1. word \in Goodbye /\ Unlist(b)  BY <1>1, <2>2 DEF Add
    <3>2. /\ entry[b] \in Conn /\ end[b][entry[b]] = "open"
          /\ end' = [end EXCEPT ![b][entry[b]] = "closed"]
      BY <2>2, <3>1 DEF Unlist
    <3>3. end \in [Browser -> [Conn -> EndState]]  BY DEF LinksTypeOK
    <3> QED  BY <3>1, <3>2, <3>3
  <2> QED  BY <2>1, <2>2
<1>10. Recent'
  <2> SUFFICES ASSUME NEW e \in Browser, NEW c \in Conn, c > before
               PROVE  end'[e][c] # "closed" /\ (end'[e][c] = "open" => ~Parting(e)')
    BY <1>1 DEF Recent
  <2>1. end[e][c] # "closed" /\ (end[e][c] = "open" => ~Parting(e))  BY <1>8 DEF Recent
  <2>2. end'[e][c] = end[e][c]  BY <1>5, <1>9, <2>1
  <2> QED  BY <1>5, <2>1, <2>2
<1>11. Former'
  BY <1>1, <1>5, <1>6, <1>7, <1>8 DEF Former, Conn
<1>12. Trying'
  <2> SUFFICES ASSUME NEW e \in Browser, entry'[e] = 0, ~due'[e]
               PROVE  Parting(e)' \/ \E c \in Conn : c > before /\ end'[e][c] = "pending"
    BY <1>1 DEF Trying
  <2>1. entry[e] = 0 /\ ~due[e] /\ (e = b => word \notin Goodbye)  BY <1>6, <1>7
  <2>2. Parting(e) \/ \E c \in Conn : c > before /\ end[e][c] = "pending"
    BY <1>8, <2>1 DEF Trying
  <2> QED  BY <1>5, <1>9, <2>1, <2>2
<1>13. Coming'
  <2> SUFFICES ASSUME Together, NEW e \in Browser
               PROVE  IF signals'[e] = <<>> THEN entry'[e] # Absent
                      ELSE signals'[e][Len(signals'[e])] \notin Goodbye
    BY <1>1 DEF Coming, Together
  <2>1. IF signals[e] = <<>> THEN entry[e] # Absent
        ELSE signals[e][Len(signals[e])] \notin Goodbye
    BY <1>8 DEF Coming
  <2>2. CASE e # b  BY <1>4, <1>7, <2>1, <2>2
  <2>3. CASE e = b
    <3>1. signals[b][Len(signals[b])] \notin Goodbye  BY <1>1, <2>1, <2>3
    <3> QED  BY <1>3, <1>4, <1>6, <1>7, <2>3, <3>1
  <2> QED  BY <2>2, <2>3
<1> QED  BY <1>10, <1>11, <1>12, <1>13

LEMMA ConnectEffectMeets ==
  ASSUME LinksInv, LinksInv', Meeting, NEW b \in Browser, ConnectEffect(b)
  PROVE  Meeting'
<1> USE DEF LinksInv
<1>1. /\ at' = at /\ signals' = signals /\ entry' = entry
      /\ before' = before /\ mishaps' = mishaps /\ due' = [due EXCEPT ![b] = FALSE]
  BY DEF ConnectEffect
<1>2. /\ made \in 0..MaxConns /\ before \in 0..MaxConns
      /\ end \in [Browser -> [Conn -> EndState]] /\ due \in [Browser -> BOOLEAN]
  BY DEF LinksTypeOK
<1>3. \A e \in Browser : Parting(e)' <=> Parting(e)  BY <1>1 DEF Parting
<1>4. entry[b] = 0 =>
        /\ made' = made + 1 /\ made + 1 \in Conn
        /\ \A e \in Browser : \A c \in Conn :
             end'[e][c] = IF c = made + 1 THEN "pending" ELSE end[e][c]
  <2> SUFFICES ASSUME entry[b] = 0
               PROVE  /\ made' = made + 1 /\ made + 1 \in Conn
                      /\ \A e \in Browser : \A c \in Conn :
                           end'[e][c] = IF c = made + 1 THEN "pending" ELSE end[e][c]
    OBVIOUS
  <2>1. /\ made < MaxConns /\ made' = made + 1
        /\ end' = [e \in Browser |-> [end[e] EXCEPT ![made + 1] = "pending"]]
    BY DEF ConnectEffect
  <2>2. made + 1 \in Conn  BY <1>2, <2>1, LinksAssumption DEF Conn, LinksAssumption
  <2> QED  BY <1>2, <2>1, <2>2
<1>5. entry[b] # 0 => made' = made /\ end' = end  BY DEF ConnectEffect
<1>6. before <= made  BY DEF Meeting
<1>7. before' <= made'  BY <1>1, <1>2, <1>4, <1>5, <1>6
<1> SUFFICES ASSUME mishaps = {}  PROVE Recent' /\ Former' /\ Trying' /\ Coming'
  BY <1>1, <1>7 DEF Meeting
<1>8. Recent /\ Former /\ Trying /\ Coming  BY DEF Meeting
<1>9. Recent'  BY <1>1, <1>3, <1>4, <1>5, <1>8 DEF Recent
<1>10. Former'  BY <1>1, <1>3, <1>8 DEF Former
<1>11. Trying'
  <2> SUFFICES ASSUME NEW e \in Browser, entry[e] = 0, ~due'[e]
               PROVE  Parting(e) \/ \E c \in Conn : c > before /\ end'[e][c] = "pending"
    BY <1>1, <1>3 DEF Trying
  <2>1. CASE entry[b] = 0
    <3>1. made + 1 > before /\ made + 1 \in Conn /\ end'[e][made + 1] = "pending"
      BY <1>2, <1>4, <1>6, <2>1
    <3> QED  BY <3>1
  <2>2. CASE entry[b] # 0
    <3>1. ~due[e] /\ end' = end  BY <1>1, <1>2, <1>5, <2>2
    <3> QED  BY <1>8, <3>1 DEF Trying
  <2> QED  BY <2>1, <2>2
<1>12. Coming'  BY <1>1, <1>8 DEF Coming, Together
<1> QED  BY <1>9, <1>10, <1>11, <1>12

LEMMA TouchMeets ==
  ASSUME LinksInv, Meeting, NEW b \in Browser, Touch(b)
  PROVE  Meeting'
<1>1. \A e \in Browser : due[e] => due'[e]
  BY DEF Touch, LinksInv, LinksTypeOK
<1>2. /\ at' = at /\ signals' = signals /\ entry' = entry /\ before' = before
      /\ mishaps' = mishaps /\ made' = made /\ end' = end
  BY DEF Touch
<1>3. \A e \in Browser : Parting(e)' <=> Parting(e)  BY <1>2 DEF Parting
<1>4. (Recent => Recent') /\ (Former => Former') /\ (Coming => Coming')
  BY <1>2, <1>3 DEF Recent, Former, Coming, Together
<1>5. Trying => Trying'  BY <1>1, <1>2, <1>3 DEF Trying
<1>6. before <= made => before' <= made'  BY <1>2
<1>7. mishaps' = {} => mishaps = {}  BY <1>2
<1> QED  BY <1>4, <1>5, <1>6, <1>7 DEF Meeting

\* "open": only a connection made since the last move, and no goodbye on its way.
LEMMA EndOpensMeets ==
  ASSUME LinksInv, LinksInv', Meeting, NEW b \in Browser, NEW c \in Conn, EndOpens(b, c)
  PROVE  Meeting'
<1> USE DEF LinksInv
<1>1. /\ Becomes(b, c, "open") /\ Listed(b, c)
      /\ at' = at /\ signals' = signals /\ made' = made /\ before' = before
      /\ mishaps \subseteq mishaps'
      /\ mishaps' = {} => Together /\ c > before /\ ~Parting(b)
  <2>1. c \in Nat /\ before \in Nat
    BY LinksAssumption DEF LinksTypeOK, Conn, LinksAssumption
  <2> QED  BY <2>1 DEF EndOpens, Becomes, Parting
<1>2. "open" \in EndState /\ c \in 0..Absent /\ c # 0 /\ c # Absent /\ c \in Nat
  BY LinksAssumption DEF EndState, Conn, Absent, LinksAssumption
<1>3. /\ end'[b][c] = "open"
      /\ \A e \in Browser : \A d \in Conn : e # b \/ d # c => end'[e][d] = end[e][d]
  BY <1>1, <1>2, EndType
<1>4. /\ entry'[b] = c /\ \A e \in Browser : e # b => entry'[e] = entry[e] /\ due'[e] = due[e]
  BY <1>1 DEF Listed, LinksTypeOK
<1>5. \A e \in Browser : Parting(e)' <=> Parting(e)  BY <1>1 DEF Parting
<1> SUFFICES ASSUME mishaps' = {}  PROVE Recent' /\ Former' /\ Trying' /\ Coming'
  BY <1>1 DEF Meeting
<1>6. Recent /\ Former /\ Trying /\ Coming /\ Together /\ c > before /\ ~Parting(b)
  BY <1>1 DEF Meeting
<1>7. Recent'  BY <1>1, <1>3, <1>5, <1>6 DEF Recent
<1>8. Former'
  <2>1. before \in Nat  BY LinksAssumption DEF LinksTypeOK, LinksAssumption
  <2> QED  BY <1>1, <1>2, <1>4, <1>5, <1>6, <2>1 DEF Former
<1>9. Trying'  BY <1>1, <1>2, <1>3, <1>4, <1>5, <1>6 DEF Trying
<1>10. Coming'  BY <1>1, <1>2, <1>4, <1>6 DEF Coming, Together
<1> QED  BY <1>7, <1>8, <1>9, <1>10

\* An end closes without a mishap only after the other, so the connection is an old one.
LEMMA EndShutMeets ==
  ASSUME LinksInv, LinksInv', Meeting, NEW b \in Browser, NEW c \in Conn,
         end[b][c] \in {"open", "pending"}, Becomes(b, c, "closed"),
         mishaps' = mishaps \cup Failure(b, c),
         Listed(b, IF entry[b] = c THEN Absent ELSE entry[b]),
         UNCHANGED <<at, visits, signals, made, before>>
  PROVE  Meeting'
<1> USE DEF LinksInv
<1>1. "closed" \in EndState /\ Absent # 0 /\ Absent \notin Conn /\ c \in Nat
  BY LinksAssumption DEF EndState, Conn, Absent, LinksAssumption
<1>2. before \in Nat /\ entry \in [Browser -> 0..Absent] /\ due \in [Browser -> BOOLEAN]
  BY LinksAssumption DEF LinksTypeOK, LinksAssumption
<1>3. /\ end'[b][c] = "closed"
      /\ \A e \in Browser : \A d \in Conn : e # b \/ d # c => end'[e][d] = end[e][d]
  BY <1>1, EndType
<1>4. /\ entry'[b] = IF entry[b] = c THEN Absent ELSE entry[b]
      /\ entry[b] # c => due'[b] = due[b]
      /\ \A e \in Browser : e # b => entry'[e] = entry[e] /\ due'[e] = due[e]
  BY <1>2 DEF Listed
<1>5. \A e \in Browser : Parting(e)' <=> Parting(e)  BY DEF Parting
<1>6. mishaps \subseteq mishaps'  OBVIOUS
<1> SUFFICES ASSUME mishaps' = {}  PROVE Recent' /\ Former' /\ Trying' /\ Coming'
  BY DEF Meeting
<1>7. Recent /\ Former /\ Trying /\ Coming  BY <1>6 DEF Meeting
<1>8. ~(c > before)
  <2>1. end[Other(b)][c] = "closed" /\ Other(b) \in Browser  BY OtherOne DEF Failure
  <2> QED  BY <1>7, <2>1 DEF Recent
<1>9. Recent'  BY <1>3, <1>5, <1>7, <1>8 DEF Recent
<1>10. Former'  BY <1>1, <1>4, <1>5, <1>7 DEF Former
<1>11. Trying'
  <2> SUFFICES ASSUME NEW e \in Browser, entry'[e] = 0, ~due'[e]
               PROVE  Parting(e) \/ \E d \in Conn : d > before /\ end'[e][d] = "pending"
    BY <1>5 DEF Trying
  <2>1. entry[e] = 0 /\ ~due[e]  BY <1>1, <1>4
  <2> QED  BY <1>3, <1>7, <1>8, <2>1 DEF Trying
<1>12. Coming'
  <2> SUFFICES ASSUME Together, NEW e \in Browser
               PROVE  IF signals[e] = <<>> THEN entry'[e] # Absent
                      ELSE signals[e][Len(signals[e])] \notin Goodbye
    BY DEF Coming, Together
  <2>1. IF signals[e] = <<>> THEN entry[e] # Absent
        ELSE signals[e][Len(signals[e])] \notin Goodbye
    BY <1>7 DEF Coming
  <2>2. CASE e # b \/ entry[b] # c  BY <1>4, <2>1, <2>2
  <2>3. CASE e = b /\ entry[b] = c
    <3>1. Parting(b)  BY <1>2, <1>7, <1>8, <2>3, <1>1 DEF Former
    <3>2. signals[b] # <<>>
      <4>1. DOMAIN <<>> = {}  BY EmptySeq
      <4> QED  BY <3>1, <4>1 DEF Parting
    <3> QED  BY <2>1, <2>3, <3>2
  <2> QED  BY <2>2, <2>3
<1> QED  BY <1>9, <1>10, <1>11, <1>12

LEMMA MeetingNext == LinksInv /\ LinksInv' /\ Meeting /\ [LinksNext]_linkVars => Meeting'
<1> SUFFICES ASSUME LinksInv, LinksInv', Meeting, [LinksNext]_linkVars  PROVE Meeting'
  OBVIOUS
<1>1. CASE UNCHANGED linkVars
  <2>1. \A e \in Browser : Parting(e)' <=> Parting(e)  BY <1>1 DEF Parting, linkVars
  <2> QED  BY <1>1, <2>1 DEF linkVars, Meeting, Recent, Former, Trying, Coming, Together
<1>2. ASSUME NEW b \in Browser, NEW r \in {1, 2}, EnterRoom(b, r)  PROVE Meeting'
  BY <1>2, EnterRoomMeets
<1>3. ASSUME NEW b \in Browser, TakeSignal(b)  PROVE Meeting'
  BY <1>3, TakeSignalMeets
<1>4. ASSUME NEW b \in Browser, ConnectEffect(b)  PROVE Meeting'
  BY <1>4, ConnectEffectMeets
<1>5. ASSUME NEW b \in Browser, Touch(b)  PROVE Meeting'
  BY <1>5, TouchMeets
<1>6. ASSUME NEW b \in Browser, NEW c \in Conn, EndOpens(b, c)  PROVE Meeting'
  BY <1>6, EndOpensMeets
<1>7. ASSUME NEW b \in Browser, NEW c \in Conn, EndCloses(b, c)  PROVE Meeting'
  BY <1>7, EndShutMeets DEF EndCloses, Becomes
<1>8. ASSUME NEW b \in Browser, NEW c \in Conn, NeverOpens(b, c)  PROVE Meeting'
  <2>1. /\ end[b][c] = "pending" /\ Becomes(b, c, "closed")
        /\ mishaps' = mishaps \cup Failure(b, c)
        /\ UNCHANGED <<at, visits, signals, entry, due, made, before>>
    BY <1>8 DEF NeverOpens, Becomes
  <2>2. entry[b] # c
    BY <2>1 DEF LinksInv, EntryOpen
  <2>3. Listed(b, IF entry[b] = c THEN Absent ELSE entry[b])
    BY <2>1, <2>2 DEF Listed, LinksInv, LinksTypeOK
  <2> QED  BY <2>1, <2>3, EndShutMeets
<1> QED  BY <1>1, <1>2, <1>3, <1>4, <1>5, <1>6, <1>7, <1>8 DEF LinksNext

-----------------------------------------------------------------------------
(* Theorems *)

LEMMA LinksAlways == LinksSpec => []LinksInv
BY LinksInitOK, LinksNextOK, PTL DEF LinksSpec

\* The state has its types, whatever opens, closes and is told in which order.
THEOREM LinksTyping == LinksSpec => []LinksTypeOK
BY LinksAlways, PTL DEF LinksInv

\* An entry of usePeersStore with a connection has one whose own end is open: what
\* PeerProvider stores on "open" it takes back on "close", and never another's.
THEOREM LinksEntryOpen == LinksSpec => []EntryOpen
BY LinksAlways, PTL DEF LinksInv

\* Browsers in different rooms, everything told and every connection at rest, do not list
\* each other, unless a connection opened when they were apart already.
THEOREM LinksApart == LinksSpec => []ApartUnlisted
<1>1. LinksInv => ApartUnlisted
  BY DEF LinksInv, Leaving, ApartUnlisted, LinksRest
<1> QED  BY <1>1, LinksAlways, PTL

\* Browsers in one room, everything told and every connection at rest, list each other with
\* a connection, unless one broke, or one opened late: apart, made before the last move, or
\* with a goodbye on its way.
THEOREM LinksTogether == LinksSpec => []TogetherLinked
<1>1. LinksSpec => []Meeting
  BY MeetingInit, MeetingNext, LinksAlways, PTL DEF LinksSpec
<1>2. LinksInv /\ Meeting => TogetherLinked
  <2> SUFFICES ASSUME LinksInv, Meeting, LinksRest, Together, mishaps = {}, NEW b \in Browser
               PROVE  entry[b] \in Conn
    BY DEF TogetherLinked
  <2>1. signals[b] = <<>> /\ ~due[b] /\ \A c \in Conn : end[b][c] # "pending"
    BY DEF LinksRest
  <2>2. ~Parting(b)
    <3>1. DOMAIN <<>> = {}  BY EmptySeq
    <3> QED  BY <2>1, <3>1 DEF Parting
  <2>3. entry[b] # Absent  BY <2>1 DEF Meeting, Coming
  <2>4. entry[b] # 0  BY <2>1, <2>2 DEF Meeting, Trying
  <2>5. entry[b] \in 0..Absent  BY DEF LinksInv, LinksTypeOK
  <2> QED  BY <2>3, <2>4, <2>5, LinksAssumption DEF Absent, Conn, LinksAssumption
<1> QED  BY <1>1, <1>2, LinksAlways, PTL

-----------------------------------------------------------------------------
(***************************************************************************)
(* What holds of PeerReconnect for every MAX_RECONNECT_ATTEMPTS and every  *)
(* set of toasts: the types, that an attempt is coming while the client is *)
(* disconnected, that giving up has one of three reasons, and what the     *)
(* toast "Reconnexion..." says.                                            *)
(*                                                                         *)
(* The count of the attempts is compared with the reconnect() and          *)
(* connect() calls since the client was open: it runs ahead of them by one *)
(* at most, while the client is disconnected (Counting).  The toast needs  *)
(* its exit timers: one that runs while the toast stands will take it away *)
(* (Exits).                                                                *)
(***************************************************************************)

In(t) == "reconnect" \in t.shown \ t.exiting

Counting ==
  /\ ~client.reconnecting => client.attempts = 0
  /\ ~client.gone =>
       client.attempts <= tries + calls + (IF client.state = "offline" THEN 1 ELSE 0)
  /\ client.gone /\ ~fatal => client.attempts > MaxAttempts

\* Of a tray in which nothing closes by itself.
Sound(t) ==
  /\ t.closing = {}
  /\ "reconnect" \in t.exiting => t.leaving["reconnect"] > 0
  /\ In(t) /\ t.leaving["reconnect"] > 0 => "reconnect" \in t.doomed
Exits == Sound(tray)

ReconnectInv ==
  /\ ReconnectTypeOK /\ AttemptComing /\ Counting /\ GaveUpExplained
  /\ Exits /\ ReconnectShown /\ ToastMeansTrying

-----------------------------------------------------------------------------
(* The tray *)

\* A toast that is added is in the list, and leaves if an exit timer was running.
LEMMA InfoIs ==
  ASSUME NEW t \in Tray, Sound(t), NEW new, new = Info(t, "reconnect")
  PROVE  /\ new \in Tray /\ Sound(new) /\ new.clicks = t.clicks
         /\ In(new) \/ "reconnect" \in new.doomed
<1> USE ReconnectAssumption DEF ReconnectAssumption
<1>1. /\ new.shown = t.shown \cup {"reconnect"} /\ new.exiting = t.exiting
      /\ new.closing = t.closing /\ new.leaving = t.leaving /\ new.clicks = t.clicks
      /\ new.doomed = IF t.leaving["reconnect"] > 0 THEN t.doomed \cup {"reconnect"} ELSE t.doomed
  BY DEF Info, Added, Tray
<1>2. new \in Tray  BY DEF Info, Added, Tray
<1> QED  BY <1>1, <1>2 DEF Sound, In

\* A toast that is removed does not stand any more; the others are as they were.
LEMMA RemovedIs ==
  ASSUME NEW t \in Tray, Sound(t), NEW id \in ToastId,
         NEW new, new = Removed(t, id)
  PROVE  /\ new \in Tray /\ Sound(new) /\ new.clicks = t.clicks
         /\ In(new) => In(t) /\ id # "reconnect"
         /\ id # "reconnect" => (In(t) => In(new))
                                /\ ("reconnect" \in t.doomed => "reconnect" \in new.doomed)
<1> USE ReconnectAssumption DEF ReconnectAssumption
<1>1. /\ new.shown = t.shown /\ new.exiting = t.exiting \cup ({id} \cap t.shown)
      /\ new.closing = t.closing \ {id} /\ new.clicks = t.clicks
      /\ new.leaving = [t.leaving EXCEPT ![id] = @ + 1] /\ new.doomed = t.doomed \ {id}
  BY DEF Removed, Tray
<1>2. t.leaving \in [ToastId -> Nat]  BY DEF Tray
<1>3. new.leaving \in [ToastId -> Nat]  BY <1>1, <1>2
<1>4. new \in Tray  BY <1>3 DEF Removed, Tray
<1> QED  BY <1>1, <1>2, <1>4 DEF Sound, In

\* An exit animation ends: the toast is gone, whether it stood or not.
LEMMA ExitedIs ==
  ASSUME NEW t \in Tray, Sound(t), NEW id \in ToastId, t.leaving[id] > 0,
         NEW new, new = Exited(t, id)
  PROVE  /\ new \in Tray /\ Sound(new) /\ new.clicks = t.clicks
         /\ In(new) => In(t)
         /\ In(t) => In(new) \/ "reconnect" \in new.doomed
         /\ new.doomed = t.doomed
<1> USE ReconnectAssumption DEF ReconnectAssumption
<1>1. /\ new.shown = t.shown \ {id} /\ new.exiting = t.exiting \ {id}
      /\ new.closing = t.closing /\ new.clicks = t.clicks
      /\ new.leaving = [t.leaving EXCEPT ![id] = @ - 1] /\ new.doomed = t.doomed
  BY DEF Exited, Tray
<1>2. t.leaving \in [ToastId -> Nat]  BY DEF Tray
<1>3. new.leaving \in [ToastId -> Nat]  BY <1>1, <1>2
<1>4. new \in Tray  BY <1>3 DEF Exited, Tray
<1> QED  BY <1>1, <1>2, <1>4 DEF Sound, In

-----------------------------------------------------------------------------
(* The client *)

\* What scheduleReconnect leaves behind, and what it tells.
LEMMA ScheduledIs ==
  ASSUME NEW c \in Client, NEW n \in Nat \ {0}, NEW d, d = Scheduled(c, n)
  PROVE  /\ d \in Client /\ d.reconnecting /\ d.attempts = c.attempts + n
         /\ d.state = c.state /\ (c.gone => d.gone)
         /\ d.timer \/ d.gone
         /\ d.gone => c.gone \/ d.attempts > MaxAttempts
         /\ d.attempts > MaxAttempts => d.gone
<1> USE ReconnectAssumption DEF ReconnectAssumption
<1> DEFINE timer == c.timer \/ c.attempts < MaxAttempts
           gone == c.gone \/ c.attempts + n > MaxAttempts
<1>1. timer \in BOOLEAN /\ gone \in BOOLEAN  BY DEF Client
<1>2. d = [c EXCEPT !.reconnecting = TRUE, !.attempts = c.attempts + n,
                    !.timer = timer, !.gone = gone]
  BY DEF Scheduled
<1>3. c.attempts \in Nat  BY DEF Client
<1>4. (timer <=> (c.timer \/ c.attempts < MaxAttempts))
      /\ (gone <=> (c.gone \/ c.attempts + n > MaxAttempts))
  OBVIOUS
<1> HIDE DEF timer, gone
<1>5. /\ d.reconnecting = TRUE /\ d.attempts = c.attempts + n /\ d.state = c.state
      /\ d.timer = timer /\ d.gone = gone
  BY <1>2 DEF Client
<1>6. c.attempts + n \in Nat  BY <1>3
<1>7. d \in Client
  <2> DEFINE attempts == c.attempts + n
  <2>1. d = [c EXCEPT !.reconnecting = TRUE, !.attempts = attempts,
                      !.timer = timer, !.gone = gone] /\ attempts \in Nat
    BY <1>2, <1>6
  <2> HIDE DEF attempts
  <2> QED  BY <1>1, <2>1 DEF Client
<1> QED  BY <1>3, <1>4, <1>5, <1>7

LEMMA ToldIs ==
  ASSUME NEW c \in Client, NEW n \in Nat \ {0}, Sound(tray), tray \in Tray, c.reconnecting = client.reconnecting,
         NEW t, t = ToldScheduled(c, n, tray), client \in Client
  PROVE  /\ t \in Tray /\ Sound(t) /\ t.clicks = tray.clicks
         /\ c.attempts + n > MaxAttempts => ~In(t)
         /\ c.attempts + n <= MaxAttempts =>
              IF client.reconnecting THEN t = tray ELSE In(t) \/ "reconnect" \in t.doomed
<1> USE ReconnectAssumption DEF ReconnectAssumption
<1> DEFINE noticed == Noticed(tray)
<1>1. /\ noticed \in Tray /\ Sound(noticed) /\ noticed.clicks = tray.clicks
      /\ IF client.reconnecting THEN noticed = tray
         ELSE In(noticed) \/ "reconnect" \in noticed.doomed
  BY InfoIs DEF Noticed
<1>2. c.attempts + n \in Nat  BY DEF Client
<1>3. CASE c.attempts + n > MaxAttempts
  <2>1. t = Removed(noticed, "reconnect")  BY <1>3 DEF ToldScheduled, Dismissed
  <2> HIDE DEF noticed
  <2> QED  BY <1>1, <1>2, <1>3, <2>1, RemovedIs
<1>4. CASE c.attempts + n <= MaxAttempts
  <2>1. t = noticed  BY <1>2, <1>4 DEF ToldScheduled
  <2> HIDE DEF noticed
  <2> QED  BY <1>1, <1>2, <1>4, <2>1
<1> QED  BY <1>2, <1>3, <1>4

-----------------------------------------------------------------------------
LEMMA ReconnectInitInv == ReconnectInit => ReconnectInv
<1> SUFFICES ASSUME ReconnectInit PROVE ReconnectInv  OBVIOUS
<1> USE ReconnectAssumption DEF ReconnectInit, Fresh, NoToasts, ReconnectAssumption
<1>1. tray \in Tray  BY DEF Tray
<1>2. client \in Client  BY DEF Client
<1>3. ReconnectTypeOK
  <2>1. losses \in 0..MaxLosses /\ tries \in Nat /\ calls \in 0..MaxCalls  OBVIOUS
  <2>2. reached \in BOOLEAN /\ fatal \in BOOLEAN  OBVIOUS
  <2> QED  BY <1>1, <1>2, <2>1, <2>2 DEF ReconnectTypeOK
<1>4. AttemptComing  BY DEF AttemptComing
<1>5. Counting  BY DEF Counting
<1>6. GaveUpExplained  BY DEF GaveUpExplained
<1>7. Exits /\ ReconnectShown /\ ToastMeansTrying
  BY DEF Exits, Sound, In, ReconnectShown, ToastMeansTrying, Stands
<1> QED  BY <1>3, <1>4, <1>5, <1>6, <1>7 DEF ReconnectInv

\* A "disconnected" event, of a client whose page has perhaps just given up.
LEMMA DisconnectedIs ==
  ASSUME ReconnectInv, NEW c \in Client, NEW state \in {"offline", "destroyed"},
         c.reconnecting = client.reconnecting, c.attempts = client.attempts,
         Disconnected(c, state)
  PROVE  /\ client' \in Client /\ client'.state = state /\ client'.reconnecting
         /\ client'.attempts = client.attempts + 1
         /\ (c.gone => client'.gone) /\ (client'.timer \/ client'.gone)
         /\ client'.gone => c.gone \/ client'.attempts > MaxAttempts
         /\ client'.attempts > MaxAttempts => client'.gone
         /\ tray' \in Tray /\ Sound(tray') /\ tray'.clicks = tray.clicks
         /\ client'.attempts > MaxAttempts => ~In(tray')
         /\ client'.attempts <= MaxAttempts =>
              IF client.reconnecting THEN tray' = tray
              ELSE In(tray') \/ "reconnect" \in tray'.doomed
<1> DEFINE d == [c EXCEPT !.state = state, !.known = TRUE]
<1>1. /\ d \in Client /\ d.reconnecting = c.reconnecting /\ d.attempts = c.attempts
      /\ d.gone = c.gone /\ d.state = state
  BY DEF Client
<1>2. client' = Scheduled(d, 1) /\ tray' = ToldScheduled(c, 1, tray)  BY DEF Disconnected
<1> HIDE DEF d
<1>3. 1 \in Nat \ {0}  OBVIOUS
<1>4. /\ client' \in Client /\ client'.reconnecting /\ client'.attempts = d.attempts + 1
      /\ client'.state = d.state /\ (d.gone => client'.gone)
      /\ client'.timer \/ client'.gone
      /\ client'.gone => d.gone \/ client'.attempts > MaxAttempts
      /\ client'.attempts > MaxAttempts => client'.gone
  BY <1>1, <1>2, <1>3, ScheduledIs
<1>5. Sound(tray) /\ tray \in Tray /\ client \in Client
  BY DEF ReconnectInv, ReconnectTypeOK, Exits
<1>6. /\ tray' \in Tray /\ Sound(tray') /\ tray'.clicks = tray.clicks
      /\ c.attempts + 1 > MaxAttempts => ~In(tray')
      /\ c.attempts + 1 <= MaxAttempts =>
           IF client.reconnecting THEN tray' = tray
           ELSE In(tray') \/ "reconnect" \in tray'.doomed
  BY <1>2, <1>3, <1>5, ToldIs
<1> QED  BY <1>1, <1>4, <1>6

-----------------------------------------------------------------------------
\* One step for each action.
LEMMA ReconnectStepInv == ReconnectInv /\ [ReconnectNext]_reconnectVars => ReconnectInv'
<1> SUFFICES ASSUME ReconnectInv, [ReconnectNext]_reconnectVars PROVE ReconnectInv'  OBVIOUS
<1> USE ReconnectAssumption DEF ReconnectAssumption
<1>a. /\ tray \in Tray /\ Sound(tray) /\ client \in Client
      /\ tries \in Nat /\ calls \in Nat /\ client.attempts \in Nat
  BY DEF ReconnectInv, ReconnectTypeOK, Exits, Client
<1>1. CASE Open
  <2>1. client.state = "connecting" /\ ~client.gone /\ tries' = 0 /\ calls' = 0
        /\ UNCHANGED <<reached, losses, fatal>>
    BY <1>1 DEF Open
  <2>2. /\ client' \in Client /\ client'.state = "open" /\ client'.reconnecting = FALSE
        /\ client'.attempts = 0 /\ client'.gone = FALSE
    <3>1. client.reconnecting = FALSE => client.attempts = 0
      BY DEF ReconnectInv, Counting
    <3> DEFINE attempts == IF client.reconnecting THEN 0 ELSE client.attempts
    <3>2. client' = [client EXCEPT !.state = "open", !.known = TRUE,
                                   !.reconnecting = FALSE, !.attempts = attempts]
      BY <1>1 DEF Open
    <3>3. attempts = 0  BY <1>a, <3>1 DEF Client
    <3> HIDE DEF attempts
    <3> QED  BY <1>a, <2>1, <3>2, <3>3 DEF Client
  <2>3. /\ tray' \in Tray /\ Sound(tray')
        /\ In(tray') => fatal
    <3>1. CASE client.reconnecting
      <4>1. tray' = Removed(tray, "reconnect")  BY <1>1, <3>1 DEF Open, Dismissed
      <4> QED  BY <1>a, <4>1, RemovedIs
    <3>2. CASE ~client.reconnecting
      <4>1. tray' = tray  BY <1>1, <3>2 DEF Open
      <4>2. In(tray) => fatal  BY <3>2 DEF ReconnectInv, ToastMeansTrying, Stands, In
      <4> QED  BY <1>a, <4>1, <4>2
    <3> QED  BY <3>1, <3>2
  <2>4. ReconnectTypeOK'  BY <2>1, <2>2, <2>3 DEF ReconnectInv, ReconnectTypeOK
  <2>5. AttemptComing' /\ Counting' /\ GaveUpExplained'
    BY <2>1, <2>2 DEF AttemptComing, Counting, GaveUpExplained
  <2>6. Exits' /\ ReconnectShown' /\ ToastMeansTrying'
    BY <2>1, <2>2, <2>3 DEF Exits, ReconnectShown, ToastMeansTrying, Stands, In
  <2> QED  BY <2>4, <2>5, <2>6 DEF ReconnectInv
<1>2. CASE Lost
  <2>1. /\ client.state \in {"connecting", "open"} /\ ~client.gone
        /\ Disconnected(client, "offline")
        /\ UNCHANGED <<reached, losses, tries, calls, fatal>>
    BY <1>2 DEF Lost
  <2>2. /\ client' \in Client /\ client'.state = "offline" /\ client'.reconnecting
        /\ client'.attempts = client.attempts + 1
        /\ client'.timer \/ client'.gone
        /\ client'.gone => client'.attempts > MaxAttempts
        /\ client'.attempts > MaxAttempts => client'.gone
        /\ tray' \in Tray /\ Sound(tray') /\ tray'.clicks = tray.clicks
        /\ client'.attempts > MaxAttempts => ~In(tray')
        /\ client'.attempts <= MaxAttempts =>
             IF client.reconnecting THEN tray' = tray
             ELSE In(tray') \/ "reconnect" \in tray'.doomed
    BY <1>a, <2>1, DisconnectedIs
  <2>3. client.attempts <= tries + calls
    BY <1>a, <2>1 DEF ReconnectInv, Counting
  <2>4. ReconnectTypeOK'  BY <2>1, <2>2 DEF ReconnectInv, ReconnectTypeOK
  <2>5. AttemptComing' /\ Counting' /\ GaveUpExplained'
    BY <1>a, <2>1, <2>2, <2>3 DEF AttemptComing, Counting, GaveUpExplained
  <2>6. Exits'  BY <2>2 DEF Exits
  <2>7. ReconnectShown'
    BY <1>a, <2>1, <2>2 DEF ReconnectInv, ReconnectShown, Stands, In
  <2>8. ToastMeansTrying'
    BY <1>a, <2>1, <2>2 DEF ReconnectInv, ToastMeansTrying, Stands, In
  <2> QED  BY <2>4, <2>5, <2>6, <2>7, <2>8 DEF ReconnectInv
<1>3. CASE Attempt
  <2>1. /\ client.timer /\ UNCHANGED <<tray, reached, losses, calls, fatal>>
        /\ tries' = IF client.state = "offline" THEN tries + 1 ELSE tries
    BY <1>3 DEF Attempt
  <2>2. /\ client' \in Client /\ client'.state # "offline"
        /\ client'.reconnecting = client.reconnecting /\ client'.gone = client.gone
        /\ client'.attempts = client.attempts
    BY <1>a, <1>3 DEF Attempt, Client
  <2>3. ReconnectTypeOK'
    BY <1>a, <2>1, <2>2 DEF ReconnectInv, ReconnectTypeOK
  <2>4. tries <= tries'  BY <1>a, <2>1
  <2>5. AttemptComing'  BY <2>2 DEF AttemptComing
  <2>6. Counting'  BY <1>a, <2>1, <2>2 DEF ReconnectInv, Counting
  <2>7. GaveUpExplained'
    BY <1>a, <2>1, <2>2 DEF ReconnectInv, GaveUpExplained
  <2>8. Exits' /\ ReconnectShown' /\ ToastMeansTrying'
    BY <2>1, <2>2 DEF ReconnectInv, Exits, Sound, In, ReconnectShown, ToastMeansTrying, Stands
  <2> QED  BY <2>3, <2>5, <2>6, <2>7, <2>8 DEF ReconnectInv
<1>4. ASSUME NEW n \in 1..MaxCalls, ConnectOffline(n) PROVE ReconnectInv'
  <2>1. /\ client.state = "offline" /\ ~client.gone
        /\ calls' = calls + n /\ calls' <= MaxCalls
        /\ client' = Scheduled(client, n) /\ tray' = ToldScheduled(client, n, tray)
        /\ UNCHANGED <<reached, losses, tries, fatal>>
    BY <1>4 DEF ConnectOffline
  <2>2. n \in Nat \ {0} /\ calls' \in 0..MaxCalls  BY <1>a, <2>1
  <2>3. /\ client' \in Client /\ client'.state = "offline" /\ client'.reconnecting
        /\ client'.attempts = client.attempts + n
        /\ client'.timer \/ client'.gone
        /\ client'.gone => client'.attempts > MaxAttempts
        /\ client'.attempts > MaxAttempts => client'.gone
    BY <1>a, <2>1, <2>2, ScheduledIs
  <2>4. /\ tray' \in Tray /\ Sound(tray') /\ tray'.clicks = tray.clicks
        /\ client'.attempts > MaxAttempts => ~In(tray')
        /\ client'.attempts <= MaxAttempts =>
             IF client.reconnecting THEN tray' = tray
             ELSE In(tray') \/ "reconnect" \in tray'.doomed
    BY <1>a, <2>1, <2>2, <2>3, ToldIs
  <2>5. client.attempts <= tries + calls + 1
    BY <1>a, <2>1 DEF ReconnectInv, Counting
  <2>6. ReconnectTypeOK'  BY <2>1, <2>2, <2>3, <2>4 DEF ReconnectInv, ReconnectTypeOK
  <2>7. AttemptComing' /\ Counting' /\ GaveUpExplained'
    BY <1>a, <2>1, <2>2, <2>3, <2>5 DEF AttemptComing, Counting, GaveUpExplained
  <2>8. Exits'  BY <2>4 DEF Exits
  <2>9. ReconnectShown'
    BY <1>a, <2>1, <2>2, <2>3, <2>4 DEF ReconnectInv, ReconnectShown, Stands, In
  <2>10. ToastMeansTrying'
    BY <1>a, <2>1, <2>2, <2>3, <2>4 DEF ReconnectInv, ToastMeansTrying, Stands, In
  <2> QED  BY <2>6, <2>7, <2>8, <2>9, <2>10 DEF ReconnectInv
<1>5. ASSUME NEW aborts \in BOOLEAN, FatalError(aborts) PROVE ReconnectInv'
  <2> DEFINE c == [client EXCEPT !.gone = TRUE]
             state == IF client.known THEN "offline" ELSE "destroyed"
  <2>1. fatal' = TRUE /\ UNCHANGED <<reached, losses, tries, calls>>
    BY <1>5 DEF FatalError
  <2>2. IF aborts THEN Disconnected(c, state) ELSE client' = c /\ UNCHANGED tray
    BY <1>5 DEF FatalError
  <2>3. /\ c \in Client /\ c.gone = TRUE /\ c.attempts = client.attempts
        /\ c.reconnecting = client.reconnecting
    BY <1>a DEF Client
  <2>4. state \in {"offline", "destroyed"}  OBVIOUS
  <2> HIDE DEF c, state
  <2>5. /\ client' \in Client /\ client'.gone = TRUE
        /\ client'.reconnecting = FALSE => client'.attempts = 0
        /\ tray' \in Tray /\ Sound(tray')
    <3>1. CASE aborts
      <4>1. /\ client' \in Client /\ client'.reconnecting /\ client'.gone
            /\ tray' \in Tray /\ Sound(tray')
        BY <2>2, <2>3, <2>4, <3>1, DisconnectedIs
      <4>2. client'.gone \in BOOLEAN  BY <4>1 DEF Client
      <4> QED  BY <4>1, <4>2
    <3>2. CASE ~aborts
      <4>1. client' = c /\ tray' = tray  BY <2>2, <3>2
      <4>2. ~client.reconnecting => client.attempts = 0  BY DEF ReconnectInv, Counting
      <4> QED  BY <1>a, <2>3, <4>1, <4>2
    <3> QED  BY <3>1, <3>2
  <2>6. ReconnectTypeOK'  BY <2>1, <2>5 DEF ReconnectInv, ReconnectTypeOK
  <2>7. AttemptComing' /\ GaveUpExplained'
    BY <2>1, <2>5 DEF AttemptComing, GaveUpExplained
  <2>8. Counting'
    <3>1. client'.reconnecting \in BOOLEAN  BY <2>5 DEF Client
    <3> QED  BY <2>1, <2>5, <3>1 DEF Counting
  <2>9. Exits' /\ ReconnectShown' /\ ToastMeansTrying'
    BY <2>1, <2>5 DEF Exits, ReconnectShown, ToastMeansTrying
  <2> QED  BY <2>6, <2>7, <2>8, <2>9 DEF ReconnectInv
<1>6. CASE CleanUp
  <2> DEFINE c == [client EXCEPT !.timer = FALSE, !.state = "destroyed"]
  <2>1. /\ client.gone /\ UNCHANGED <<reached, losses, tries, calls, fatal>>
        /\ IF client.state = "offline" THEN client' = c /\ UNCHANGED tray
           ELSE Disconnected(c, "destroyed")
    BY <1>6 DEF CleanUp
  <2>2. /\ c \in Client /\ c.gone = client.gone /\ c.attempts = client.attempts
        /\ c.reconnecting = client.reconnecting /\ c.state = "destroyed"
    BY <1>a DEF Client
  <2> HIDE DEF c
  <2>3. ~client.reconnecting => client.attempts = 0
    BY DEF ReconnectInv, Counting
  <2>4. ~fatal => client.attempts > MaxAttempts  BY <2>1 DEF ReconnectInv, Counting
  <2>5. In(tray) => fatal  BY <2>1 DEF ReconnectInv, ToastMeansTrying, Stands, In
  <2>6. /\ client' \in Client /\ client'.gone /\ client'.state = "destroyed"
        /\ ~client'.reconnecting => client'.attempts = 0
        /\ ~fatal => client'.attempts > MaxAttempts
        /\ tray' \in Tray /\ Sound(tray') /\ (In(tray') => fatal)
    <3>1. CASE client.state = "offline"
      <4>1. client' = c /\ tray' = tray  BY <2>1, <3>1
      <4> QED  BY <1>a, <2>1, <2>2, <2>3, <2>4, <2>5, <4>1
    <3>2. CASE client.state # "offline"
      <4>1. Disconnected(c, "destroyed")  BY <2>1, <3>2
      <4>2. "destroyed" \in {"offline", "destroyed"}  OBVIOUS
      <4>3. /\ client' \in Client /\ client'.state = "destroyed" /\ client'.reconnecting
            /\ client'.attempts = client.attempts + 1 /\ client'.gone
            /\ tray' \in Tray /\ Sound(tray')
            /\ client'.attempts > MaxAttempts => ~In(tray')
        BY <2>1, <2>2, <4>1, <4>2, DisconnectedIs
      <4> QED  BY <1>a, <2>4, <4>3
    <3> QED  BY <3>1, <3>2
  <2>7. ReconnectTypeOK'  BY <2>1, <2>6 DEF ReconnectInv, ReconnectTypeOK
  <2>8. AttemptComing' /\ GaveUpExplained'
    BY <2>1, <2>6 DEF ReconnectInv, AttemptComing, GaveUpExplained
  <2>9. Counting'  BY <2>1, <2>6 DEF Counting
  <2>10. Exits' /\ ReconnectShown' /\ ToastMeansTrying'
    BY <2>1, <2>6 DEF Exits, ReconnectShown, ToastMeansTrying, Stands, In
  <2> QED  BY <2>7, <2>8, <2>9, <2>10 DEF ReconnectInv
<1>7. CASE ServerChanges
  <2>1. UNCHANGED <<tray, client, tries, calls, fatal>>  BY <1>7 DEF ServerChanges
  <2>2. losses' \in 0..MaxLosses /\ reached' \in BOOLEAN
    BY <1>7 DEF ServerChanges, ReconnectInv, ReconnectTypeOK
  <2>3. ReconnectTypeOK'  BY <2>1, <2>2 DEF ReconnectInv, ReconnectTypeOK
  <2>4. AttemptComing' /\ Counting' /\ GaveUpExplained'
    BY <2>1 DEF ReconnectInv, AttemptComing, Counting, GaveUpExplained
  <2>5. Exits' /\ ReconnectShown' /\ ToastMeansTrying'
    BY <2>1 DEF ReconnectInv, Exits, Sound, In, ReconnectShown, ToastMeansTrying, Stands
  <2> QED  BY <2>3, <2>4, <2>5 DEF ReconnectInv
<1>8. CASE ReconnectToasts
  <2>1. UNCHANGED <<client, reached, losses, tries, calls, fatal>>
    BY <1>8 DEF ReconnectToasts
  <2>2. PICK id \in ToastId : Exit(id) \/ AutoClose(id) \/ Click(id)
    BY <1>8 DEF ReconnectToasts, ToastStep, Timeouts
  <2>3. /\ tray' \in Tray /\ Sound(tray') /\ (In(tray') => In(tray))
        /\ \/ In(tray) => In(tray') \/ "reconnect" \in tray'.doomed
           \/ tray'.clicks > 0
        /\ tray.clicks > 0 => tray'.clicks > 0
        /\ \/ "reconnect" \in tray.doomed => "reconnect" \in tray'.doomed
           \/ tray'.clicks > 0
    <3>1. CASE Exit(id)
      <4>1. tray.leaving[id] > 0 /\ tray' = Exited(tray, id)  BY <3>1 DEF Exit
      <4> QED  BY <1>a, <4>1, ExitedIs
    <3>2. CASE AutoClose(id)  BY <1>a, <3>2 DEF AutoClose, Sound
    <3>3. CASE Click(id)
      <4> DEFINE new == Removed(tray, id)
      <4>1. tray' = [new EXCEPT !.clicks = new.clicks + 1]  BY <3>3 DEF Click
      <4>2. new \in Tray /\ Sound(new) /\ (In(new) => In(tray))  BY <1>a, RemovedIs
      <4> HIDE DEF new
      <4>3. new.clicks \in Nat  BY <4>2 DEF Tray
      <4>4. /\ tray' \in Tray /\ tray'.clicks > 0
            /\ tray'.shown = new.shown /\ tray'.exiting = new.exiting
            /\ tray'.closing = new.closing /\ tray'.leaving = new.leaving
            /\ tray'.doomed = new.doomed
        BY <4>1, <4>2, <4>3 DEF Tray
      <4> QED  BY <4>2, <4>4 DEF Sound, In
    <3> QED  BY <2>2, <3>1, <3>2, <3>3
  <2>4. ReconnectTypeOK'  BY <2>1, <2>3 DEF ReconnectInv, ReconnectTypeOK
  <2>5. AttemptComing' /\ Counting' /\ GaveUpExplained'
    BY <2>1 DEF ReconnectInv, AttemptComing, Counting, GaveUpExplained
  <2>6. Exits'  BY <2>3 DEF Exits
  <2>7. ReconnectShown'  BY <2>1, <2>3 DEF ReconnectInv, ReconnectShown, Stands, In
  <2>8. ToastMeansTrying'  BY <2>1, <2>3 DEF ReconnectInv, ToastMeansTrying, Stands, In
  <2> QED  BY <2>4, <2>5, <2>6, <2>7, <2>8 DEF ReconnectInv
<1>9. CASE UNCHANGED reconnectVars
  <2>1. ReconnectTypeOK'  BY <1>9 DEF reconnectVars, ReconnectInv, ReconnectTypeOK
  <2>2. AttemptComing' /\ Counting' /\ GaveUpExplained'
    BY <1>9 DEF reconnectVars, ReconnectInv, AttemptComing, Counting, GaveUpExplained
  <2>3. Exits' /\ ReconnectShown' /\ ToastMeansTrying'
    BY <1>9 DEF reconnectVars, ReconnectInv, Exits, Sound, In, ReconnectShown,
                ToastMeansTrying, Stands
  <2> QED  BY <2>1, <2>2, <2>3 DEF ReconnectInv
<1> QED
  BY <1>1, <1>2, <1>3, <1>4, <1>5, <1>6, <1>7, <1>8, <1>9 DEF ReconnectNext

LEMMA ReconnectInvHolds == ReconnectSpec => []ReconnectInv
BY ReconnectInitInv, ReconnectStepInv, PTL DEF ReconnectSpec

\* The state keeps its types.
THEOREM ReconnectTyping == ReconnectSpec => []ReconnectTypeOK
<1>1. ReconnectInv => ReconnectTypeOK  BY DEF ReconnectInv
<1> QED  BY <1>1, ReconnectInvHolds, PTL

\* No order of errors, connect() calls and timers leaves the client waiting for nothing:
\* an attempt is coming or the page has given up, it gives up after a fatal error or
\* after as many attempts and counted connect() calls as scheduleReconnect allows, and
\* the toast "Reconnexion..." stands exactly meanwhile, but for the user, an exit
\* animation and a fatal error.
THEOREM ReconnectSafety == ReconnectSpec => []ReconnectSafe
<1>1. ReconnectInv => ReconnectSafe  BY DEF ReconnectInv, ReconnectSafe
<1> QED  BY <1>1, ReconnectInvHolds, PTL
=============================================================================
