---------------------------- MODULE FileTransfer ----------------------------
(***************************************************************************)
(* Sending files and messages over WebRTC connections:                     *)
(* front/src/services/peerService.ts with the connection listeners of      *)
(* front/src/contexts/PeerProvider.tsx, the peer list of                   *)
(* front/src/stores/usePeersStore.ts and the caller in                     *)
(* front/src/components/Forms/FileTransfer/FileTransfer.tsx.               *)
(*                                                                         *)
(* One browser sends, each target receives; the other direction is the     *)
(* same code.  A browser runs one callback at a time and settled promises  *)
(* continue before the next callback, so a step is one callback: a message *)
(* arrives, a timer fires, a connection opens or closes, a chunk has been  *)
(* read from the file, the user or the signalling server asks for          *)
(* something.                                                              *)
(*                                                                         *)
(* Each connection is a pair of FIFO channels.  Its two ends open and      *)
(* close on their own; an end that closes loses what it has not received.  *)
(*                                                                         *)
(* A definition marked "a slip" is the next one with a mistake in it.  No  *)
(* other definition uses it: put in its place, it shows what a property    *)
(* catches.                                                                *)
(***************************************************************************)
EXTENDS Integers, Sequences, FiniteSetsExt

CONSTANTS
  Target,      \* the other peers
  Conn,        \* DataConnections between the sender and one target
  Message,     \* chat messages, each sent at most once
  None,        \* a peer that is not listed, or undefined
  Bare,        \* a listed peer whose connection is null
  Sizes,       \* how many chunks a file may have
  MaxAttempts, \* START_ACK_MAX_ATTEMPTS
  MaxRetries,  \* MAX_TRANSFER_RETRIES
  MaxRounds,   \* bound: calls of sendFileToTargets that find a connection
  MaxUpsets    \* bound: closed connections and changes of the list

ASSUME ConnAssumption == None \notin Conn /\ Bare \notin Conn /\ None # Bare
ASSUME MessageAssumption == Message \cap Nat = {}
ASSUME SizesAssumption == Sizes \subseteq Nat
ASSUME BoundAssumption ==
  /\ MaxAttempts \in Nat \ {0}
  /\ MaxRetries \in Nat \ {0}
  /\ MaxRounds \in Nat
  /\ MaxUpsets \in Nat

VARIABLES
  rounds,    \* the calls of sendFileToTargets: which file, how many chunks
  before,    \* how many of them panels have made that are gone
  pc,        \* pc[x]: where the sendFileToPeer of transfer x stands
  on,        \* on[x]: the connection it uses
  next,      \* next[x]: the chunk it reads next
  tries,     \* tries[x]: the file-starts it has sent
  active,    \* the keys of activeSendTransfers
  sending,   \* sending[t]: isSending of t in the sender's list
  entry,     \* entry[t]: the connection of t in the sender's list
  pending,   \* the keys of pendingAcks
  said,      \* the messages sent so far
  sEnd,      \* sEnd[l]: the sender's end of link l: "new", "open" or "closed"
  rEnd,      \* rEnd[l]: the target's end
  toR, toS,  \* toR[l], toS[l]: what is in flight to the target, to the sender
  rEntry,    \* rEntry[t]: the sender's connection in the list of t, or None
  receiving, \* receiving[t]: receivingFile of the sender in the list of t
  delivered, \* delivered[x]: how often t was handed the file of transfer x
  upsets,    \* connections closed and lists changed so far
  lost,      \* transfers of which something was dropped on the way (history: no guard
             \* reads it)
  robbed     \* transfers whose key another one's end has taken away (history)

transfer == <<rounds, before, on, next, tries, pc>>
list == <<active, sending, entry, pending, said>>
links == <<sEnd, rEnd>>
wires == <<toR, toS>>
receiver == <<rEntry, receiving, delivered>>
vars == <<transfer, list, links, wires, receiver, upsets, lost, robbed>>

-----------------------------------------------------------------------------
Round == 1..MaxRounds
Transfer == Target \X Round
Link == Target \X Conn
Chunks(x) == rounds[x[2]].chunks
Running(x) == pc[x] \in {"start", "chunk"}
Upset == upsets < MaxUpsets /\ upsets' = upsets + 1
Nothing == [round |-> 0, got |-> {}]
At(x) == <<x[1], on[x]>>

\* An acknowledgement's id is the transfer of a file, or a message with the
\* target pendingAcks holds for it: id[1] is the holder in both cases.
AckId == Target \X (Round \cup Message)

Note(type, id) == [type |-> type, id |-> id, chunk |-> 0]
FirstChunk(x, i) == [type |-> "file-chunk", id |-> x, chunk |-> 0]
  \* a slip: chunkIndex is not counted
FileChunk(x, i) == [type |-> "file-chunk", id |-> x, chunk |-> i]

\* connection.send on an end that is not open sends nothing; what reaches an end
\* that has closed is dropped.
Arrives(l) == sEnd[l] = "open" /\ rEnd[l] # "closed"
Answers(l) == rEnd[l] = "open" /\ sEnd[l] # "closed"
SendS(l, notes) == toR' = IF Arrives(l) THEN [toR EXCEPT ![l] = @ \o notes] ELSE toR
Dropped(l, x) == IF Arrives(l) THEN {} ELSE {x}
\* The transfers a queue carries a part of.
Carried(queue) ==
  {queue[i].id : i \in {j \in 1..Len(queue) : queue[j].type # "message"}}
\* The transfer t loses when its receivingFile is cleared.
Unfinished(t) == IF receiving[t] = Nothing THEN {} ELSE {<<t, receiving[t].round>>}

-----------------------------------------------------------------------------
(* The sender's transfers *)

\* cancelTransfersForPeer for the targets in ts: a sendFileToPeer that waits for its
\* start-ack returns false at once, one that reads a chunk goes on until it looks.
Cancelled(ts) ==
  [x \in Transfer |-> IF x[1] \in ts /\ pc[x] = "start" THEN "cut" ELSE pc[x]]
CancelQuietly(ts) ==   \* a slip: isSending is not reset
  active' = active \ ts /\ pc' = Cancelled(ts) /\ UNCHANGED sending
Cancel(ts) ==
  /\ active' = active \ ts
  /\ pc' = Cancelled(ts)
  /\ sending' = [t \in Target |-> sending[t] /\ t \notin ts]

Ready == {t \in Target : entry[t] \in Conn}
Fresh == Len(rounds) + 1
Tries(f) == Cardinality({k \in 1..Len(rounds) : rounds[k].file = f})
OfferedAgain ==   \* a slip: the last file again, whatever its call reported
  [file : {Fresh}, chunks : Sizes] \cup
  {r \in {rounds[k] : k \in {Len(rounds)} \ {0}} : Tries(r.file) < MaxRetries}
\* The panel offers a new file, or its last one again if that call reported failure.
Offered ==
  [file : {Fresh}, chunks : Sizes] \cup
  {r \in {rounds[k] : k \in {Len(rounds)} \ {before}} :
     /\ \A t \in Target : pc[<<t, Len(rounds)>>] # "ok"
     /\ Tries(r.file) < MaxRetries}

\* sendFileToTargets with at least one connected peer: every sendFileToPeer sends
\* its first file-start.  A panel makes one call at a time (sendInProgressRef); the
\* calls of a panel that is gone may still run.
Start(f) ==
  /\ \A x \in Transfer : Running(x) => x[2] <= before
  /\ Fresh \in Round
  /\ Ready # {}
  /\ rounds' = Append(rounds, f)
  /\ pc' = [x \in Transfer |-> IF x \in Ready \X {Fresh} THEN "start" ELSE pc[x]]
  /\ on' = [x \in Transfer |-> IF x \in Ready \X {Fresh} THEN entry[x[1]] ELSE on[x]]
  /\ tries' = [x \in Transfer |-> IF x \in Ready \X {Fresh} THEN 1 ELSE tries[x]]
  /\ active' = active \cup Ready
  /\ sending' = [t \in Target |-> sending[t] \/ t \in Ready]
  /\ toR' = [l \in Link |->
       IF l[1] \in Ready /\ entry[l[1]] = l[2] /\ Arrives(l)
       THEN Append(toR[l], Note("file-start", <<l[1], Fresh>>)) ELSE toR[l]]
  /\ UNCHANGED <<before, next, entry, pending, said, links, toS, receiver, lost, robbed,
                 upsets>>

\* Another room code: a panel without a file takes the place of this one.  What this one
\* has called goes on, unless its transfers are cancelled; where nothing does, or no call
\* is still to come (a bound), the new panel is as good as this one.
Remount ==
  /\ \E x \in Transfer : Running(x) /\ x[2] > before
  /\ Fresh \in Round
  /\ before' = Len(rounds)
  /\ UNCHANGED <<rounds, on, next, tries, pc, list, links, wires, receiver, upsets, lost,
                 robbed>>

\* activeSendTransfers.delete at the end of transfer x: the key is its peer's, and may
\* be another transfer's by now.
EndActiveKeeping(x) ==   \* a slip: the key stays
  UNCHANGED <<active, robbed>>
EndActive(x) ==
  /\ active' = active \ {x[1]}
  /\ robbed' = robbed \cup
       {y \in Transfer \ {x} : y[1] = x[1] /\ x[1] \in active /\ Running(y)}

ExpiredIfListed(x) == pc[x] = "start" /\ entry[x[1]] = on[x]
  \* a slip: no timer once another connection is listed
Expired(x) == pc[x] = "start"
Again(x) == x[1] \in active /\ tries[x] < MaxAttempts /\ sEnd[At(x)] = "open"

\* START_ACK_TIMEOUT_MS passes without a start-ack.
StartTimeout(x) ==
  /\ Expired(x)
  /\ \/ /\ Again(x)
        /\ tries' = [tries EXCEPT ![x] = @ + 1]
        /\ SendS(At(x), <<Note("file-start", x)>>)
        /\ UNCHANGED <<pc, active, robbed>>
     \/ /\ ~Again(x)
        /\ pc' = [pc EXCEPT ![x] = IF x[1] \in active THEN "stranded" ELSE "cut"]
        /\ EndActive(x)
        /\ UNCHANGED <<tries, toR>>
  /\ UNCHANGED <<rounds, before, on, next, sending, entry, pending, said, links, toS,
                 receiver, lost, upsets>>

\* sendFileToPeer up to its next await, n chunks sent, the last of them in notes.
\* shouldStopTransfer: a cancelled one only ends; one whose connection is not open
\* cancels whatever is sent to the peer.
Proceed(x, notes, n) ==
  LET t == x[1] l == At(x) IN
  /\ next' = [next EXCEPT ![x] = n]
  /\ \/ /\ n = Chunks(x)
        /\ SendS(l, Append(notes, Note("file-end", x)))
        /\ pc' = [pc EXCEPT ![x] = "ok"]
        /\ EndActive(x)
        /\ pending' = pending \cup {x}
        /\ lost' = lost \cup Dropped(l, x)
        /\ UNCHANGED sending
     \/ /\ n < Chunks(x)
        /\ SendS(l, notes)
        /\ lost' = lost \cup IF notes = <<>> THEN {} ELSE Dropped(l, x)
        /\ UNCHANGED <<pending, robbed>>
        /\ \/ /\ t \in active /\ sEnd[l] = "open"
              /\ pc' = [pc EXCEPT ![x] = "chunk"]
              /\ UNCHANGED <<active, sending>>
           \/ /\ t \notin active
              /\ pc' = [pc EXCEPT ![x] = "cut"]
              /\ UNCHANGED <<active, sending>>
           \/ /\ t \in active /\ sEnd[l] # "open"
              /\ pc' = [Cancelled({t}) EXCEPT ![x] = "cut"]
              /\ active' = active \ {t}
              /\ sending' = [sending EXCEPT ![t] = FALSE]

\* sendFileChunk has read the chunk from the file: it is sent without looking
\* whether the transfer still goes on.
Chunk(x) ==
  /\ pc[x] = "chunk"
  /\ Proceed(x, <<FileChunk(x, next[x])>>, next[x] + 1)
  /\ UNCHANGED <<rounds, before, on, tries, entry, said, links, toS, receiver, upsets>>

\* The file cannot be read any more: isSending stays as it is.
ReadError(x) ==
  /\ pc[x] = "chunk"
  /\ pc' = [pc EXCEPT ![x] = "stranded"]
  /\ EndActive(x)
  /\ UNCHANGED <<rounds, before, on, next, tries, sending, entry, pending, said, links,
                 wires, receiver, lost, upsets>>

\* An entry of pendingAcks is settled, if it is still there.
SettleQuietly(id) == pending' = pending \ {id} /\ UNCHANGED sending
  \* a slip: isSending is not reset
SettleLoudly(id) ==   \* a slip: isSending is reset whether or not the entry is there
  /\ pending' = pending \ {id}
  /\ sending' = [t \in Target |-> sending[t] /\ t # id[1]]
Settle(id) ==
  /\ pending' = pending \ {id}
  /\ sending' = [t \in Target |-> sending[t] /\ ~(id \in pending /\ t = id[1])]

\* The sender takes a message off link l: an acknowledgement.  The peer is listed
\* with this connection, whatever it was listed with before.
RecvS(l) ==
  LET t == l[1] m == Head(toS[l]) IN
  /\ toS[l] # <<>>
  /\ sEnd[l] = "open"
  /\ toS' = [toS EXCEPT ![l] = Tail(@)]
  /\ entry' = [entry EXCEPT ![t] = l[2]]
  /\ \/ /\ m.type = "file-start-ack"
        /\ \/ pc[m.id] = "start" /\ Proceed(m.id, <<>>, 0)
           \/ /\ pc[m.id] # "start"
              /\ UNCHANGED <<pc, next, active, sending, pending, toR, lost, robbed>>
     \/ /\ m.type = "ack"
        /\ Settle(m.id)
        /\ UNCHANGED <<pc, next, active, toR, lost, robbed>>
  /\ UNCHANGED <<rounds, before, on, tries, said, links, receiver, upsets>>

\* PENDING_ACK_TIMEOUT_MS after it was set, the cleanup interval gives up an entry.
AckTimeout(id) ==
  /\ id \in pending
  /\ Settle(id)
  /\ UNCHANGED <<transfer, active, entry, said, links, wires, receiver, lost, robbed,
                 upsets>>

\* sendMessageToTargets: ids made in one millisecond are equal, and pendingAcks
\* then holds the last target for all of them; key[t] is the holder of t's id.
SendMessage(m, key) ==
  /\ m \notin said
  /\ Ready # {}
  /\ \A t \in Ready : key[t] \in Ready /\ key[key[t]] = key[t]
  /\ \A t \in Target \ Ready : key[t] = t
  /\ said' = said \cup {m}
  /\ pending' = pending \cup {<<key[t], m>> : t \in Ready}
  /\ toR' = [l \in Link |->
       IF l[1] \in Ready /\ entry[l[1]] = l[2] /\ Arrives(l)
       THEN Append(toR[l], Note("message", <<key[l[1]], m>>)) ELSE toR[l]]
  /\ UNCHANGED <<transfer, active, sending, entry, links, toS, receiver, lost, robbed,
                 upsets>>

-----------------------------------------------------------------------------
(* The sender's list of peers *)

OpenS(l) ==
  /\ sEnd[l] = "new"
  /\ sEnd' = [sEnd EXCEPT ![l] = "open"]
  /\ entry' = [entry EXCEPT ![l[1]] = l[2]]
  /\ UNCHANGED <<transfer, active, sending, pending, said, rEnd, wires, receiver, lost,
                 robbed, upsets>>

Unlisted(l) == [entry EXCEPT ![l[1]] = None]

\* The close and error listeners: a connection that is no longer the listed one
\* takes nothing with it.
CloseS(l) ==
  LET t == l[1] IN
  /\ sEnd[l] = "open"
  /\ sEnd' = [sEnd EXCEPT ![l] = "closed"]
  /\ toS' = [toS EXCEPT ![l] = <<>>]
  /\ \/ /\ entry[t] = l[2]
        /\ entry' = Unlisted(l)
        /\ Cancel({t})
     \/ /\ entry[t] # l[2]
        /\ UNCHANGED <<entry, pc, active, sending>>
  /\ Upset
  /\ UNCHANGED <<rounds, before, on, next, tries, pending, said, rEnd, toR, receiver,
                 lost, robbed>>

\* peer-joined.
AddS(t) ==
  /\ entry[t] = None
  /\ entry' = [entry EXCEPT ![t] = Bare]
  /\ UNCHANGED <<transfer, active, sending, pending, said, links, wires, receiver, lost,
                 robbed, upsets>>

\* The targets in gone leave the list, those in come are listed, and what is sent to
\* those in cancelled is cancelled.
Relist(gone, come, cancelled) ==
  LET listed == {<<t, entry[t]>> : t \in {s \in gone : entry[s] \in Conn}} IN
  /\ entry' = [t \in Target |-> IF t \in gone THEN None
                               ELSE IF t \in come /\ entry[t] = None THEN Bare
                               ELSE entry[t]]
  /\ sEnd' = [l \in Link |-> IF l \in listed THEN "closed" ELSE sEnd[l]]
  /\ toS' = [l \in Link |-> IF l \in listed THEN <<>> ELSE toS[l]]
  /\ active' = active \ cancelled
  /\ pc' = Cancelled(cancelled)
  /\ sending' = [t \in Target |-> sending[t] /\ t \notin gone \cup cancelled]
  /\ Upset
  /\ UNCHANGED <<rounds, before, on, next, tries, pending, said, rEnd, toR, receiver, lost,
                 robbed>>

\* cancelAllSendTransfers, once those to ts are cancelled: it does nothing when
\* activeSendTransfers is empty.
OrAll(ts) == IF active \subseteq ts THEN ts ELSE Target

\* peer-left.
RemoveS(t) ==
  /\ entry[t] # None
  /\ Relist({t}, {},
            IF \A s \in Target \ {t} : entry[s] = None THEN OrAll({t}) ELSE {t})

\* join-success: the list becomes the peers it names.
JoinSuccessS(wanted) ==
  Relist(Target \ wanted, wanted, {t \in Target \ wanted : entry[t] # None})

\* Another room is asked for: the connections of the list are closed, which cancels what
\* is sent over them, then the list is cleared, then cancelAllSendTransfers.
LeaveS == Relist(Target, {}, OrAll(Ready))

\* The signalling socket or the PeerJS server was lost: open connections are
\* forgotten, not closed, and transfers over them go on.
DetachS ==
  /\ entry' = [t \in Target |-> IF entry[t] = None THEN None ELSE Bare]
  /\ sending' = [t \in Target |-> FALSE]
  /\ Upset
  /\ UNCHANGED <<transfer, active, pending, said, links, wires, receiver, lost, robbed>>

-----------------------------------------------------------------------------
(* The targets *)

\* A target no longer expects the rest of a file.
ForgetChunks(t) ==   \* a slip: receivingFile stays, without its chunks
  /\ receiving' = [receiving EXCEPT ![t].got = {}]
  /\ lost' = lost \cup Unfinished(t)
Forget(t) ==
  /\ receiving' = [receiving EXCEPT ![t] = Nothing]
  /\ lost' = lost \cup Unfinished(t)

OpenR(l) ==
  /\ rEnd[l] = "new"
  /\ rEnd' = [rEnd EXCEPT ![l] = "open"]
  /\ rEntry' = [rEntry EXCEPT ![l[1]] = l[2]]
  /\ UNCHANGED <<transfer, list, sEnd, wires, receiving, delivered, lost, robbed, upsets>>

CloseR(l) ==
  LET t == l[1] current == rEntry[l[1]] = l[2] IN
  /\ rEnd[l] = "open"
  /\ rEnd' = [rEnd EXCEPT ![l] = "closed"]
  /\ toR' = [toR EXCEPT ![l] = <<>>]
  /\ rEntry' = [rEntry EXCEPT ![t] = IF current THEN None ELSE @]
  /\ receiving' = [receiving EXCEPT ![t] = IF current THEN Nothing ELSE @]
  /\ lost' = lost \cup Carried(toR[l]) \cup IF current THEN Unfinished(t) ELSE {}
  /\ Upset
  /\ UNCHANGED <<transfer, list, sEnd, toS, delivered, robbed>>

\* detachConnections on the target's side.
DetachR(t) ==
  /\ rEntry[t] # None
  /\ rEntry' = [rEntry EXCEPT ![t] = None]
  /\ Forget(t)
  /\ Upset
  /\ UNCHANGED <<transfer, list, links, wires, delivered, robbed>>

\* RECEIVE_INACTIVITY_TIMEOUT_MS without a chunk.
ReceiveTimeout(t) ==
  /\ receiving[t] # Nothing
  /\ Forget(t)
  /\ UNCHANGED <<transfer, list, links, wires, rEntry, delivered, upsets, robbed>>

Reply(l, note) ==
  toS' = IF Answers(l) THEN [toS EXCEPT ![l] = Append(@, note)] ELSE toS

\* A file-start: the same file again is only acknowledged again, another file
\* takes the place of the one being received.
TakeStart(l, x) ==
  LET t == l[1] IN
  /\ \/ receiving[t].round = x[2] /\ UNCHANGED <<receiving, lost>>
     \/ /\ receiving[t].round # x[2]
        /\ receiving' = [receiving EXCEPT ![t] = [round |-> x[2], got |-> {}]]
        /\ lost' = lost \cup Unfinished(t)
  /\ Reply(l, Note("file-start-ack", x))
  /\ UNCHANGED delivered

\* A chunk or file-end of a file that is not being received is ignored.
TakeUnknown(l, x) ==
  /\ receiving[l[1]].round # x[2]
  /\ UNCHANGED <<toS, receiving, delivered, lost>>

TakeChunk(l, x, i) ==
  /\ receiving[l[1]].round = x[2]
  /\ receiving' = [receiving EXCEPT ![l[1]].got = @ \cup {i}]
  /\ UNCHANGED <<toS, delivered, lost>>

TakeEnd(l, x) ==
  LET t == l[1] IN
  /\ receiving[t].round = x[2]
  /\ receiving' = [receiving EXCEPT ![t] = Nothing]
  /\ IF Cardinality(receiving[t].got) = Chunks(x)
     THEN delivered' = [delivered EXCEPT ![x] = @ + 1] /\ Reply(l, Note("ack", x))
     ELSE UNCHANGED <<delivered, toS>>
  /\ UNCHANGED lost

\* The target takes a message off link l.
RecvR(l) ==
  LET m == Head(toR[l]) IN
  /\ toR[l] # <<>>
  /\ rEnd[l] = "open"
  /\ toR' = [toR EXCEPT ![l] = Tail(@)]
  /\ rEntry' = [rEntry EXCEPT ![l[1]] = l[2]]
  /\ \/ m.type = "file-start" /\ TakeStart(l, m.id)
     \/ m.type \in {"file-chunk", "file-end"} /\ TakeUnknown(l, m.id)
     \/ m.type = "file-chunk" /\ TakeChunk(l, m.id, m.chunk)
     \/ m.type = "file-end" /\ TakeEnd(l, m.id)
     \/ /\ m.type = "message"
        /\ Reply(l, Note("ack", m.id))
        /\ UNCHANGED <<receiving, delivered, lost>>
  /\ UNCHANGED <<transfer, list, links, upsets, robbed>>

-----------------------------------------------------------------------------
\* Nothing has been sent.
Quiet ==
  /\ rounds = <<>>
  /\ before = 0
  /\ pc = [x \in Transfer |-> "idle"]
  /\ on = [x \in Transfer |-> None]
  /\ next = [x \in Transfer |-> 0]
  /\ tries = [x \in Transfer |-> 0]
  /\ active = {}
  /\ sending = [t \in Target |-> FALSE]
  /\ pending = {}
  /\ said = {}
  /\ rEnd = [l \in Link |-> "new"]
  /\ toR = [l \in Link |-> <<>>]
  /\ toS = [l \in Link |-> <<>>]
  /\ rEntry = [t \in Target |-> None]
  /\ receiving = [t \in Target |-> Nothing]
  /\ delivered = [x \in Transfer |-> 0]
  /\ upsets = 0
  /\ lost = {}
  /\ robbed = {}
Init ==
  /\ Quiet
  /\ entry = [t \in Target |-> None]
  /\ sEnd = [l \in Link |-> "new"]

Next ==
  \/ \E f \in Offered : Start(f)
  \/ Remount
  \/ \E x \in Transfer : StartTimeout(x)
  \/ \E x \in Transfer : Chunk(x)
  \/ \E x \in Transfer : ReadError(x)
  \/ \E l \in Link : RecvS(l)
  \/ \E id \in AckId : AckTimeout(id)
  \/ \E m \in Message, key \in [Target -> Target] : SendMessage(m, key)
  \/ \E l \in Link : OpenS(l)
  \/ \E l \in Link : CloseS(l)
  \/ \E t \in Target : AddS(t)
  \/ \E t \in Target : RemoveS(t)
  \/ \E wanted \in SUBSET Target : JoinSuccessS(wanted)
  \/ LeaveS
  \/ DetachS
  \/ \E l \in Link : OpenR(l)
  \/ \E l \in Link : CloseR(l)
  \/ \E t \in Target : DetachR(t)
  \/ \E t \in Target : ReceiveTimeout(t)
  \/ \E l \in Link : RecvR(l)

Spec == Init /\ [][Next]_vars

\* Timers fire, files are read, and an end that stays open takes what was sent.
Fairness ==
  /\ \A x \in Transfer : WF_vars(StartTimeout(x)) /\ WF_vars(Chunk(x))
  /\ \A t \in Target : WF_vars(ReceiveTimeout(t))
  /\ \A l \in Link : WF_vars(RecvS(l)) /\ WF_vars(RecvR(l))
  /\ \A id \in AckId : WF_vars(AckTimeout(id))
FairSpec == Spec /\ Fairness

-----------------------------------------------------------------------------
(* Properties *)

MessageType == {"file-start", "file-chunk", "file-end", "message", "file-start-ack", "ack"}
Wire == [type : MessageType, id : AckId, chunk : Nat]

\* Every variable has the type the code gives it.
TypeOK ==
  /\ rounds \in Seq([file : Round, chunks : Sizes]) /\ Len(rounds) <= MaxRounds
  /\ before \in 0..Len(rounds)
  /\ pc \in [Transfer -> {"idle", "start", "chunk", "cut", "stranded", "ok"}]
  /\ on \in [Transfer -> Conn \cup {None}]
  /\ next \in [Transfer -> Nat]
  /\ tries \in [Transfer -> 0..MaxAttempts]
  /\ active \subseteq Target
  /\ sending \in [Target -> BOOLEAN]
  /\ entry \in [Target -> Conn \cup {None, Bare}]
  /\ pending \subseteq AckId
  /\ said \subseteq Message
  /\ sEnd \in [Link -> {"new", "open", "closed"}]
  /\ rEnd \in [Link -> {"new", "open", "closed"}]
  /\ toR \in [Link -> Seq(Wire)]
  /\ toS \in [Link -> Seq(Wire)]
  /\ rEntry \in [Target -> Conn \cup {None}]
  /\ receiving \in [Target -> [round : 0..MaxRounds, got : SUBSET Nat]]
  /\ delivered \in [Transfer -> Nat]
  /\ upsets \in 0..MaxUpsets
  /\ lost \subseteq Transfer /\ robbed \subseteq Transfer

\* The last call that sends to t.
LastTo(t) == {x \in {t} \X Round : /\ pc[x] # "idle"
                                  /\ \A k \in Round : k > x[2] => pc[<<t, k>>] = "idle"}

\* activeSendTransfers has a peer's key only while the transfer started last to it runs
\* and the peer is listed, so peer-left of the last peer has nothing left to cancel; and
\* a transfer that waits for its start-ack is held, so that it can be cancelled, unless
\* another transfer to the peer, one of a panel that is gone, has ended and taken the key.
ActiveExact ==
  /\ \A t \in active : entry[t] # None /\ \E x \in LastTo(t) : Running(x)
  /\ \A x \in Transfer : pc[x] = "start" => x[1] \in active \/ x \in robbed

\* A listed connection is open, so a call never waits in waitForConnectionOpen.
ListedOpen == \A l \in Link : entry[l[1]] = l[2] => sEnd[l] = "open"

\* isSending is shown only while a transfer to the peer runs or pendingAcks holds an
\* entry whose answer or timeout resets it, unless a transfer gave up without a
\* start-ack or on a read error: those leave it set.
SendingExplained ==
  \A t \in Target : sending[t] =>
    \/ \E k \in Round : pc[<<t, k>>] \in {"start", "chunk", "stranded"}
    \/ \E id \in pending : id[1] = t

\* While a transfer to a peer runs, isSending falls only when an entry of pendingAcks
\* of that peer is settled (a message's, or one of another file), when the peer leaves
\* the list or loses its connection, or when another transfer to it finds its own
\* connection closed and cancels them both.
ShownWhileSent ==
  [][\A x \in Transfer :
       LET t == x[1] IN
       /\ Running(x) /\ Running(x)'
       /\ sending[t] /\ ~sending'[t]
       => \/ \E id \in pending \ pending' : id[1] = t
          \/ entry'[t] \in {None, Bare}
          \/ \E y \in Transfer : /\ y[1] = t /\ sEnd[At(y)] # "open"
                                 /\ Running(y) /\ pc'[y] = "cut"]_vars

\* When a file-end of the file being received is taken, no chunk is missing.
EndsWhole ==
  \A l \in Link :
    LET m == Head(toR[l]) IN
    toR[l] # <<>> /\ m.type = "file-end" /\ receiving[l[1]].round = m.id[2] =>
      receiving[l[1]].got = 0..(Chunks(m.id) - 1)

\* A target is handed a file at most once, whatever was retried, and only by a
\* transfer the sender counts as a success.
DeliveredOnce ==
  \A x, y \in Transfer :
    /\ delivered[x] <= 1
    /\ delivered[x] = 1 => pc[x] = "ok"
    /\ /\ delivered[x] = 1 /\ delivered[y] = 1
       /\ x[1] = y[1] /\ rounds[x[2]].file = rounds[y[2]].file
       => x = y

\* A call of sendFileToTargets returns: every transfer ends.
SendReturns == \A x \in Transfer : Running(x) ~> ~Running(x)

\* isSending is reset in the end, unless a transfer was stranded.
SendingEnds ==
  \A t \in Target : sending[t] ~> ~sending[t] \/ \E k \in Round : pc[<<t, k>>] = "stranded"

\* A file reported as sent reaches the target, unless an end closed before all of it
\* had arrived, or the target gave it up: another file-start took its place, its
\* connections were detached, or no chunk came in time.
DeliveredOrLost ==
  \A x \in Transfer : pc[x] = "ok" ~> delivered[x] = 1 \/ x \in lost

-----------------------------------------------------------------------------
(* What all this implements *)

\* The calls that offered file f to t, and how the last of them went.
CallsOf(f, t) == {k \in 1..Len(rounds) : rounds[k].file = f /\ pc[<<t, k>>] # "idle"}
Standing(stand) ==
  CASE stand \in {"start", "chunk"} -> "going"
    [] stand = "ok" -> "sent"
    [] OTHER -> "failed"
OutcomeOf(f, t) ==
  IF CallsOf(f, t) = {} THEN "none" ELSE Standing(pc[<<t, Max(CallsOf(f, t))>>])
Outcomes == [f \in Round |-> [t \in Target |-> OutcomeOf(f, t)]]

\* The file offered last, and how often it has been.
LastFile == IF rounds = <<>> THEN 0 ELSE rounds[Len(rounds)].file
CallsMade == IF rounds = <<>> THEN 0 ELSE Tries(LastFile)

\* The copies of f that t was handed, by call.
CopiesOf(f, t) == UNION {{k} \X (1..delivered[<<t, k>>]) : k \in CallsOf(f, t)}
Copies == [f \in Round |-> [t \in Target |-> Cardinality(CopiesOf(f, t))]]

Promise ==
  INSTANCE Delivery WITH
    MaxFiles <- MaxRounds,
    MaxTries <- MaxRetries,
    last <- LastFile,
    calls <- CallsMade,
    outcome <- Outcomes,
    copies <- Copies

\* Seen file by file, the transfers keep the promise of Delivery: no step of theirs does
\* anything else to a file than to offer it, end it or hand it over, and a file is
\* handed to a target once, over all calls and connections it was sent with.
ImplementsDelivery == Promise!Spec
=============================================================================
