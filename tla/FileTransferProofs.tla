-------------------------- MODULE FileTransferProofs --------------------------
(***************************************************************************)
(* What holds of FileTransfer for every set of targets, connections and    *)
(* messages, all sizes of files, and any number of calls, attempts and     *)
(* upsets: the types, what the sender's list and activeSendTransfers say,  *)
(* when isSending is shown, and that a target is handed a file once.       *)
(*                                                                         *)
(* Once: a file-end of a transfer is sent when the transfer succeeds, so   *)
(* there is one at most on all connections, and none when the target has   *)
(* the file (Ends); and a file is offered again only by the panel that     *)
(* offered it, when none of its transfers has succeeded or runs (Files).   *)
(***************************************************************************)
EXTENDS FileTransfer, SequenceTheorems, TLAPS

Call == [file : Round, chunks : Sizes]

\* Only a message, and the answer to one, may be about another target.
Fit(l, other) == {w \in Wire : w.type # other => w.id \in Transfer /\ w.id[1] = l[1]}
Fits ==
  /\ \A l \in Link : toR[l] \in Seq(Fit(l, "message")) /\ toS[l] \in Seq(Fit(l, "ack"))
  /\ \A t \in Target : receiving[t] = Nothing \/ receiving[t].round \in Round

\* A transfer runs over a connection; those of later calls have not begun.
Begun ==
  \A x \in Transfer :
    /\ Running(x) => on[x] \in Conn
    /\ x[2] > Len(rounds) => pc[x] = "idle"

\* Where isSending is shown of a peer that nothing is sent to, a transfer has left it set
\* or an entry of pendingAcks is to reset it.
Owed(t) == (\E k \in Round : pc[<<t, k>>] = "stranded") \/ \E id \in pending : id[1] = t
Held == \A t \in Target : sending[t] /\ t \notin active => Owed(t)

\* The places of x's file-end in a queue.
EndsIn(q, x) == {i \in 1..Len(q) : q[i].type = "file-end" /\ q[i].id = x}
Ends ==
  \A x \in Transfer, l \in Link : \A i \in EndsIn(toR[l], x) :
    /\ pc[x] = "ok" /\ delivered[x] = 0
    /\ \A m \in Link : \A j \in EndsIn(toR[m], x) : l = m /\ i = j
Handed == \A x \in Transfer : delivered[x] \in {0, 1} /\ (delivered[x] = 1 => pc[x] = "ok")

\* A file that was offered again is its panel's, and has no transfer but of the last call
\* that may succeed.
Files ==
  \A k \in 1..Len(rounds) :
    /\ rounds[k].file <= k
    /\ \A j \in 1..Len(rounds) : j < k /\ rounds[j].file = rounds[k].file =>
         /\ j <= before => k <= before
         /\ \A t \in Target : ~Running(<<t, j>>) /\ pc[<<t, j>>] # "ok"

SenderInv == Begun /\ ListedOpen /\ ActiveExact /\ Held
OnceInv == Ends /\ Handed /\ Files
TransferInv == TypeOK /\ Fits /\ SenderInv /\ OnceInv

-----------------------------------------------------------------------------
(* Queues *)

LEMMA NoteFits ==
  ASSUME NEW l \in Link, NEW type \in MessageType, NEW id \in AckId, NEW i \in Nat,
         NEW other, type = other \/ (id \in Transfer /\ id[1] = l[1])
  PROVE  [type |-> type, id |-> id, chunk |-> i] \in Fit(l, other)
BY DEF Fit, Wire

LEMMA TransferIsId == Transfer \subseteq AckId
BY DEF Transfer, AckId

LEMMA FitIsWire ==
  ASSUME NEW l \in Link, NEW other, NEW q \in Seq(Fit(l, other))
  PROVE  q \in Seq(Wire)
<1>1. Fit(l, other) \subseteq Wire  BY DEF Fit
<1> QED  BY <1>1, SeqMonotonic

LEMMA QueueAppend ==
  ASSUME NEW S, NEW q \in Seq(S), NEW w \in S
  PROVE  /\ q \o <<w>> = Append(q, w) /\ Append(q, w) \in Seq(S)
         /\ Len(Append(q, w)) = Len(q) + 1 /\ Len(q) \in Nat
         /\ \A i \in 1..Len(q) : Append(q, w)[i] = q[i]
         /\ Append(q, w)[Len(q) + 1] = w
OBVIOUS

LEMMA AppendEnds ==
  ASSUME NEW q \in Seq(Wire), NEW w \in Wire, NEW x
  PROVE  EndsIn(Append(q, w), x) =
           EndsIn(q, x) \cup (IF w.type = "file-end" /\ w.id = x THEN {Len(q) + 1} ELSE {})
<1> DEFINE r == Append(q, w)
<1>1. /\ Len(r) = Len(q) + 1 /\ Len(q) \in Nat /\ r[Len(q) + 1] = w
      /\ \A i \in 1..Len(q) : r[i] = q[i]
  BY QueueAppend
<1> HIDE DEF r
<1>2. 1..Len(r) = 1..Len(q) \cup {Len(q) + 1}  BY <1>1
<1>3. EndsIn(r, x) =
        EndsIn(q, x) \cup (IF w.type = "file-end" /\ w.id = x THEN {Len(q) + 1} ELSE {})
  BY <1>1, <1>2 DEF EndsIn
<1> QED  BY <1>3 DEF r

LEMMA TailEnds ==
  ASSUME NEW q \in Seq(Wire), q # <<>>, NEW x
  PROVE  /\ \A i \in EndsIn(Tail(q), x) : i + 1 \in EndsIn(q, x) /\ i # 0
         /\ Head(q).type = "file-end" /\ Head(q).id = x => 1 \in EndsIn(q, x)
<1>1. /\ Head(q) = q[1] /\ Len(Tail(q)) = Len(q) - 1
      /\ \A i \in 1..Len(Tail(q)) : Tail(q)[i] = q[i + 1]
  BY HeadTailProperties
<1>2. Len(q) \in Nat \ {0}  BY EmptySeq
<1> QED  BY <1>1, <1>2 DEF EndsIn

LEMMA EmptyEnds == \A x : EndsIn(<<>>, x) = {}
BY EmptySeq DEF EndsIn

-----------------------------------------------------------------------------
(* The beginning *)

LEMMA TransferInitOK == Init => TransferInv
<1> SUFFICES ASSUME Init  PROVE TransferInv
  OBVIOUS
<1> USE DEF Init, Quiet
<1>1. TypeOK
  <2>1. rounds \in Seq([file : Round, chunks : Sizes]) /\ Len(rounds) <= MaxRounds
         /\ before \in 0..Len(rounds)
    BY EmptySeq, BoundAssumption DEF BoundAssumption
  <2>2. toR \in [Link -> Seq(Wire)] /\ toS \in [Link -> Seq(Wire)]
    BY EmptySeq
  <2>3. receiving \in [Target -> [round : 0..MaxRounds, got : SUBSET Nat]]
    BY BoundAssumption DEF Nothing, BoundAssumption
  <2> QED  BY <2>1, <2>2, <2>3, BoundAssumption DEF TypeOK, BoundAssumption
<1>2. Fits  BY EmptySeq DEF Fits
<1>3. Begun /\ ActiveExact /\ Held
  BY DEF Begun, ActiveExact, Held, Running
<1>4. ListedOpen
  BY ConnAssumption DEF ListedOpen, Link, ConnAssumption
<1>5. Ends  BY EmptyEnds DEF Ends
<1>6. Handed /\ Files
  <2>1. Len(rounds) = 0  BY EmptySeq
  <2> QED  BY <2>1 DEF Handed, Files
<1> QED  BY <1>1, <1>2, <1>3, <1>4, <1>5, <1>6 DEF TransferInv, SenderInv, OnceInv

-----------------------------------------------------------------------------
(* What a step may leave alone *)

\* The transfers of a target that runs still are its last ones.
LEMMA SenderStep ==
  ASSUME TypeOK, SenderInv, UNCHANGED <<rounds, on>>, ListedOpen', active' \subseteq active,
         robbed \subseteq robbed',
         \A x \in Transfer :
           /\ pc'[x] = "idle" <=> pc[x] = "idle"
           /\ pc[x] = "stranded" => pc'[x] = "stranded"
           /\ Running(x)' => Running(x)
           /\ pc'[x] = "start" =>
                pc[x] = "start" /\ (x[1] \in active => x[1] \in active' \/ x \in robbed'),
         \A t \in active' :
           entry'[t] # None /\ \A x \in Transfer : x[1] = t /\ Running(x) => Running(x)',
         \A t \in Target : sending'[t] /\ t \notin active' =>
           \/ Owed(t)'
           \/ /\ sending[t] /\ t \notin active
              /\ \A id \in pending : id[1] = t => id \in pending'
  PROVE  SenderInv'
<1> USE DEF SenderInv
<1>1. Begun'  BY DEF Begun
<1>2. ActiveExact'
  <2>1. ASSUME NEW t \in active'  PROVE \E x \in LastTo(t)' : Running(x)'
    <3>1. PICK x \in LastTo(t) : Running(x)  BY <2>1 DEF ActiveExact
    <3>2. x \in Transfer /\ x[1] = t /\ t \in Target
      BY <2>1, <3>1 DEF LastTo, Transfer, TypeOK
    <3>3. \A k \in Round : <<t, k>> \in Transfer  BY <3>2 DEF Transfer
    <3>4. x \in LastTo(t)'  BY <3>1, <3>2, <3>3 DEF LastTo
    <3> QED  BY <2>1, <3>1, <3>2, <3>4
  <2>2. ASSUME NEW x \in Transfer, pc'[x] = "start"
        PROVE  x[1] \in active' \/ x \in robbed'
    BY <2>2 DEF ActiveExact
  <2> QED  BY <2>1, <2>2 DEF ActiveExact
<1>3. Held'
  <2> SUFFICES ASSUME NEW t \in Target, sending'[t], t \notin active'  PROVE Owed(t)'
    BY DEF Held
  <2>1. CASE sending[t] /\ t \notin active /\ \A id \in pending : id[1] = t => id \in pending'
    <3>1. \A k \in Round : <<t, k>> \in Transfer  BY DEF Transfer
    <3> QED  BY <2>1, <3>1 DEF Held, Owed
  <2> QED  BY <2>1
<1> QED  BY <1>1, <1>2, <1>3

LEMMA SenderSame ==
  ASSUME SenderInv, UNCHANGED <<rounds, pc, on, active, sending, entry, pending, sEnd, robbed>>
  PROVE  SenderInv'
BY DEF SenderInv, Begun, Running, ListedOpen, ActiveExact, LastTo, Held, Owed

LEMMA FitsSame ==
  ASSUME Fits, UNCHANGED <<wires, receiving>>
  PROVE  Fits'
BY DEF Fits, wires

LEMMA CallIsTransfer ==
  ASSUME TypeOK
  PROVE  /\ Len(rounds) \in Nat /\ Len(rounds) <= MaxRounds
         /\ \A t \in Target : \A j \in 1..Len(rounds) : j \in Round /\ <<t, j>> \in Transfer
         /\ \A j \in 1..Len(rounds) : rounds[j] \in Call
<1>1. rounds \in Seq(Call) /\ Len(rounds) <= MaxRounds  BY DEF TypeOK, Call
<1>2. Len(rounds) \in Nat /\ \A j \in 1..Len(rounds) : rounds[j] \in Call
  BY <1>1, LenProperties, ElementOfSeq
<1> QED  BY <1>1, <1>2, BoundAssumption DEF Round, Transfer, BoundAssumption

LEMMA ChunksIs ==
  ASSUME TypeOK, NEW x \in Transfer, x[2] <= Len(rounds)
  PROVE  Chunks(x) \in Nat
<1>1. x[2] \in 1..Len(rounds)  BY CallIsTransfer DEF Transfer, Round
<1> QED  BY <1>1, CallIsTransfer, SizesAssumption DEF Chunks, Call, SizesAssumption

\* No step makes a file-end but the one that ends a transfer.
LEMMA EndsSame ==
  ASSUME Ends, UNCHANGED delivered,
         \A x \in Transfer : pc'[x] = "ok" <=> pc[x] = "ok",
         \A l \in Link : \A x \in Transfer : EndsIn(toR'[l], x) \subseteq EndsIn(toR[l], x)
  PROVE  Ends'
<1> SUFFICES ASSUME NEW x \in Transfer, NEW l \in Link, NEW i \in EndsIn(toR'[l], x)
             PROVE  /\ pc'[x] = "ok" /\ delivered'[x] = 0
                    /\ \A m \in Link : \A j \in EndsIn(toR'[m], x) : l = m /\ i = j
  BY DEF Ends, EndsIn
<1>1. i \in EndsIn(toR[l], x)  OBVIOUS
<1> QED  BY <1>1 DEF Ends

LEMMA FilesSame ==
  ASSUME TypeOK, Files, UNCHANGED <<rounds, before>>,
         \A x \in Transfer : (pc'[x] = "ok" => pc[x] = "ok" \/ Running(x))
                             /\ (Running(x)' => Running(x))
  PROVE  Files'
<1>1. \A t \in Target : \A j \in 1..Len(rounds) : <<t, j>> \in Transfer  BY CallIsTransfer
<1> QED  BY <1>1 DEF Files

LEMMA OnceSame ==
  ASSUME TypeOK, OnceInv, UNCHANGED <<rounds, before, delivered>>,
         \A x \in Transfer : (pc'[x] = "ok" <=> pc[x] = "ok") /\ (Running(x)' => Running(x)),
         \A l \in Link : \A x \in Transfer : EndsIn(toR'[l], x) \subseteq EndsIn(toR[l], x)
  PROVE  OnceInv'
<1>1. Ends'  BY EndsSame DEF OnceInv
<1>2. Handed'  BY DEF OnceInv, Handed
<1>3. Files'  BY FilesSame DEF OnceInv
<1> QED  BY <1>1, <1>2, <1>3 DEF OnceInv

-----------------------------------------------------------------------------
(* The sender's list of peers *)

Stand == {"idle", "start", "chunk", "cut", "stranded", "ok"}

\* A target that stays among the active ones is listed, with an open end or none.
Relisted(ts) ==
  /\ entry' \in [Target -> Conn \cup {None, Bare}]
  /\ \A t \in active \ ts : entry'[t] # None
  /\ ListedOpen'

\* What is sent to the targets in ts is cancelled; isSending may fall elsewhere too.
Cancels(ts) ==
  /\ active' = active \ ts /\ pc' = Cancelled(ts)
  /\ sending' \in [Target -> BOOLEAN]
  /\ \A t \in Target : sending'[t] => sending[t] /\ t \notin ts

LEMMA CancelCancels ==
  ASSUME TypeOK, NEW ts, Cancel(ts)
  PROVE  Cancels(ts)
BY DEF Cancel, Cancels, TypeOK

LEMMA CancelIs ==
  ASSUME TypeOK, NEW ts \in SUBSET Target, Cancels(ts)
  PROVE  /\ active' = active \ ts /\ active' \subseteq Target
         /\ pc' \in [Transfer -> Stand] /\ sending' \in [Target -> BOOLEAN]
         /\ \A x \in Transfer :
              pc'[x] = IF x[1] \in ts /\ pc[x] = "start" THEN "cut" ELSE pc[x]
         /\ \A x \in Transfer : (pc'[x] = "ok" <=> pc[x] = "ok") /\ (Running(x)' => Running(x))
         /\ \A t \in Target : sending'[t] => sending[t] /\ t \notin ts
BY DEF Cancels, Cancelled, TypeOK, Stand, Running

LEMMA CancelSender ==
  ASSUME TypeOK, SenderInv, NEW ts \in SUBSET Target, Cancels(ts), Relisted(ts),
         UNCHANGED <<rounds, on, pending, robbed>>
  PROVE  SenderInv'
<1>1. /\ active' = active \ ts
      /\ \A x \in Transfer :
           pc'[x] = IF x[1] \in ts /\ pc[x] = "start" THEN "cut" ELSE pc[x]
      /\ \A t \in Target : sending'[t] => sending[t] /\ t \notin ts
  BY CancelIs
<1>2. \A x \in Transfer : x[1] \notin ts => pc'[x] = pc[x]  BY <1>1
<1>3. \A t \in active' :
        entry'[t] # None /\ \A x \in Transfer : x[1] = t /\ Running(x) => Running(x)'
  BY <1>1, <1>2 DEF Relisted, Running
<1>4. \A x \in Transfer :
        /\ pc'[x] = "idle" <=> pc[x] = "idle"
        /\ pc[x] = "stranded" => pc'[x] = "stranded"
        /\ Running(x)' => Running(x)
        /\ pc'[x] = "start" => pc[x] = "start" /\ (x[1] \in active => x[1] \in active')
  BY <1>1 DEF Running
<1>5. \A t \in Target : sending'[t] /\ t \notin active' =>
        sending[t] /\ t \notin active /\ pending' = pending
  BY <1>1
<1>6. ListedOpen' /\ active' \subseteq active /\ robbed' = robbed  BY <1>1 DEF Relisted
<1> QED  BY <1>3, <1>4, <1>5, <1>6, SenderStep

LEMMA NothingCancelled ==
  ASSUME TypeOK, UNCHANGED <<pc, active, sending>>
  PROVE  Cancels({})
BY DEF TypeOK, Cancels, Cancelled

\* Of what the sender's list decides nothing about.
LEMMA ListOnce ==
  ASSUME TransferInv, UNCHANGED <<rounds, before, toR, delivered>>,
         \A x \in Transfer : (pc'[x] = "ok" <=> pc[x] = "ok") /\ (Running(x)' => Running(x))
  PROVE  OnceInv'
BY OnceSame DEF TransferInv

LEMMA OpenSOK ==
  ASSUME TransferInv, NEW l \in Link, OpenS(l)
  PROVE  TransferInv'
<1> USE DEF OpenS, transfer, wires, receiver, TransferInv
<1>1. l[1] \in Target /\ l[2] \in Conn /\ l = <<l[1], l[2]>>  BY DEF Link
<1>2. TypeOK'  BY <1>1 DEF TypeOK
<1>3. Relisted({})
  <2>1. \A t \in Target : entry'[t] = IF t = l[1] THEN l[2] ELSE entry[t]
    BY <1>1 DEF TypeOK
  <2>2. \A m \in Link : m[1] \in Target /\ m[2] \in Conn /\ m = <<m[1], m[2]>>
    BY DEF Link
  <2>3. \A m \in Link : sEnd'[m] = IF m = l THEN "open" ELSE sEnd[m]
    BY DEF TypeOK
  <2>4. ListedOpen'  BY <1>1, <2>1, <2>2, <2>3 DEF SenderInv, ListedOpen
  <2>5. \A t \in active : entry'[t] # None
    BY <1>1, <2>1, ConnAssumption DEF SenderInv, ActiveExact, ConnAssumption, TypeOK
  <2> QED  BY <1>1, <1>2, <2>4, <2>5 DEF Relisted, TypeOK
<1>4. SenderInv'  BY <1>3, NothingCancelled, CancelSender
<1>5. OnceInv' /\ Fits'  BY ListOnce, FitsSame DEF Running
<1> QED  BY <1>2, <1>4, <1>5

LEMMA CloseSOK ==
  ASSUME TransferInv, NEW l \in Link, CloseS(l)
  PROVE  TransferInv'
<1> DEFINE t == l[1]
<1> USE DEF TransferInv
<1>1. /\ t \in Target /\ l[2] \in Conn
      /\ \A m \in Link : m = l <=> m[1] = t /\ m[2] = l[2]
  BY DEF Link
<1>2. /\ sEnd' = [sEnd EXCEPT ![l] = "closed"] /\ toS' = [toS EXCEPT ![l] = <<>>]
      /\ upsets < MaxUpsets /\ upsets' = upsets + 1
      /\ UNCHANGED <<rounds, before, on, next, tries, pending, said, rEnd, toR, receiver,
                     lost, robbed>>
      /\ \/ entry[t] = l[2] /\ entry' = [entry EXCEPT ![t] = None] /\ Cancel({t})
         \/ entry[t] # l[2] /\ UNCHANGED <<entry, pc, active, sending>>
  BY DEF CloseS, Upset, Unlisted
<1>3. PICK ts \in SUBSET Target :
        /\ Cancels(ts) /\ \A s \in active \ ts : s # t \/ entry'[s] = entry[s]
        /\ \/ ts = {t} /\ entry[t] = l[2] /\ entry' = [entry EXCEPT ![t] = None]
           \/ ts = {} /\ entry[t] # l[2] /\ entry' = entry
  <2>1. CASE entry[t] = l[2]  BY <1>1, <1>2, <2>1, CancelCancels
  <2>2. CASE entry[t] # l[2]  BY <1>1, <1>2, <2>2, NothingCancelled
  <2> QED  BY <2>1, <2>2
<1>4. entry \in [Target -> Conn \cup {None, Bare}] /\ sEnd \in [Link -> {"new", "open", "closed"}]
      /\ toS \in [Link -> Seq(Wire)] /\ upsets \in 0..MaxUpsets
  BY DEF TypeOK
<1>5. entry' \in [Target -> Conn \cup {None, Bare}]
      /\ sEnd' \in [Link -> {"new", "open", "closed"}]
      /\ toS' \in [Link -> Seq(Wire)] /\ upsets' \in 0..MaxUpsets
  <2>1. toS' \in [Link -> Seq(Wire)]  BY <1>2, <1>4, EmptySeq
  <2>2. upsets' \in 0..MaxUpsets  BY <1>2, <1>4, BoundAssumption DEF BoundAssumption
  <2>3. entry' \in [Target -> Conn \cup {None, Bare}]  BY <1>1, <1>3, <1>4
  <2> QED  BY <1>2, <1>4, <2>1, <2>2, <2>3
<1>6. TypeOK'
  BY <1>2, <1>3, <1>5, CancelIs DEF TypeOK, Stand, receiver
<1>7. Relisted(ts)
  <2>1. \A m \in Link : sEnd'[m] = IF m = l THEN "closed" ELSE sEnd[m]  BY <1>2, <1>4
  <2>2. \A s \in Target : entry'[s] = IF s = t /\ entry[t] = l[2] THEN None ELSE entry[s]
    BY <1>1, <1>3, <1>4
  <2>3. \A m \in Link : m[1] \in Target /\ m[2] \in Conn  BY DEF Link
  <2>4. ListedOpen'
    BY <1>1, <2>1, <2>2, <2>3, ConnAssumption DEF ListedOpen, SenderInv, ConnAssumption
  <2>5. \A s \in active \ ts : entry'[s] # None
    BY <1>3, <2>2 DEF SenderInv, ActiveExact, TypeOK
  <2> QED  BY <1>5, <2>4, <2>5 DEF Relisted
<1>8. SenderInv'  BY <1>2, <1>3, <1>7, CancelSender
<1>9. OnceInv'  BY <1>2, <1>3, CancelIs, ListOnce DEF receiver
<1>10. Fits'  BY <1>2, <1>4, EmptySeq DEF Fits, receiver
<1> QED  BY <1>6, <1>8, <1>9, <1>10

LEMMA AddSOK ==
  ASSUME TransferInv, NEW t \in Target, AddS(t)
  PROVE  TransferInv'
<1> USE DEF AddS, transfer, links, wires, receiver, TransferInv
<1>1. TypeOK'  BY DEF TypeOK
<1>2. Relisted({})
  <2>1. \A s \in Target : entry'[s] = IF s = t THEN Bare ELSE entry[s]
    BY DEF TypeOK
  <2>2. ListedOpen'
    BY <2>1, ConnAssumption DEF SenderInv, ListedOpen, Link, ConnAssumption
  <2>3. \A s \in active : entry'[s] # None
    BY <2>1, ConnAssumption DEF SenderInv, ActiveExact, ConnAssumption, TypeOK
  <2> QED  BY <1>1, <2>2, <2>3 DEF Relisted, TypeOK
<1>3. SenderInv'  BY <1>2, NothingCancelled, CancelSender
<1>4. OnceInv' /\ Fits'  BY ListOnce, FitsSame DEF Running
<1> QED  BY <1>1, <1>3, <1>4

\* Who is active and leaves the list is cancelled.
LEMMA RelistOK ==
  ASSUME TransferInv, NEW gone \in SUBSET Target, NEW come \in SUBSET Target,
         NEW ts \in SUBSET Target, Relist(gone, come, ts),
         \A t \in active \ ts : t \notin gone
  PROVE  TransferInv'
<1> DEFINE listed == {<<t, entry[t]>> : t \in {s \in gone : entry[s] \in Conn}}
<1> USE DEF TransferInv
<1>1. /\ entry' = [t \in Target |-> IF t \in gone THEN None
                                   ELSE IF t \in come /\ entry[t] = None THEN Bare
                                   ELSE entry[t]]
      /\ sEnd' = [l \in Link |-> IF l \in listed THEN "closed" ELSE sEnd[l]]
      /\ toS' = [l \in Link |-> IF l \in listed THEN <<>> ELSE toS[l]]
      /\ Cancels(ts) /\ upsets < MaxUpsets /\ upsets' = upsets + 1
      /\ UNCHANGED <<rounds, before, on, next, tries, pending, said, rEnd, toR, receiver,
                     lost, robbed>>
  BY DEF Relist, Upset, Cancels, TypeOK
<1>2. \A l \in Link : l \in listed => l[1] \in gone /\ entry[l[1]] = l[2]
  BY DEF Link
<1> HIDE DEF listed
<1>3. TypeOK'
  <2>1. toS' \in [Link -> Seq(Wire)]  BY <1>1, EmptySeq DEF TypeOK
  <2>2. upsets' \in 0..MaxUpsets  BY <1>1, BoundAssumption DEF TypeOK, BoundAssumption
  <2>3. entry' \in [Target -> Conn \cup {None, Bare}]
        /\ sEnd' \in [Link -> {"new", "open", "closed"}]
    BY <1>1 DEF TypeOK
  <2> QED  BY <1>1, <2>1, <2>2, <2>3, CancelIs DEF TypeOK, Stand, receiver
<1>4. Relisted(ts)
  <2>1. ListedOpen'
    <3> SUFFICES ASSUME NEW l \in Link, entry'[l[1]] = l[2]  PROVE sEnd'[l] = "open"
      BY DEF ListedOpen
    <3>1. l[1] \in Target /\ l[2] \in Conn  BY DEF Link
    <3>2. l[1] \notin gone /\ entry[l[1]] = l[2]
      BY <1>1, <3>1, ConnAssumption DEF ConnAssumption
    <3> QED  BY <1>1, <1>2, <3>2 DEF SenderInv, ListedOpen
  <2>2. \A t \in active \ ts : entry'[t] # None
    BY <1>1, ConnAssumption DEF SenderInv, ActiveExact, TypeOK, ConnAssumption
  <2> QED  BY <1>3, <2>1, <2>2 DEF Relisted, TypeOK
<1>5. SenderInv'  BY <1>1, <1>4, CancelSender
<1>6. OnceInv'  BY <1>1, CancelIs, ListOnce DEF receiver
<1>7. Fits'  BY <1>1, EmptySeq DEF Fits, receiver
<1> QED  BY <1>3, <1>5, <1>6, <1>7

LEMMA OrAllIs ==
  ASSUME TypeOK, NEW ts \in SUBSET Target
  PROVE  OrAll(ts) \in SUBSET Target /\ ts \subseteq OrAll(ts) /\ active \subseteq OrAll(ts)
BY DEF OrAll, TypeOK

LEMMA RemoveSOK ==
  ASSUME TransferInv, NEW t \in Target, RemoveS(t)
  PROVE  TransferInv'
<1> DEFINE ts == IF \A s \in Target \ {t} : entry[s] = None THEN OrAll({t}) ELSE {t}
<1>1. Relist({t}, {}, ts)  BY DEF RemoveS
<1>2. ts \in SUBSET Target /\ t \in ts  BY OrAllIs DEF TransferInv
<1> HIDE DEF ts
<1> QED  BY <1>1, <1>2, RelistOK

LEMMA JoinSuccessSOK ==
  ASSUME TransferInv, NEW wanted \in SUBSET Target, JoinSuccessS(wanted)
  PROVE  TransferInv'
<1> DEFINE gone == Target \ wanted
           ts == {t \in gone : entry[t] # None}
<1>1. gone \in SUBSET Target /\ ts \in SUBSET Target /\ Relist(gone, wanted, ts)
  BY DEF JoinSuccessS
<1>2. \A t \in active \ ts : t \notin gone
  BY DEF TransferInv, SenderInv, ActiveExact
<1> HIDE DEF gone, ts
<1> QED  BY <1>1, <1>2, RelistOK

LEMMA LeaveSOK ==
  ASSUME TransferInv, LeaveS
  PROVE  TransferInv'
<1> DEFINE ts == OrAll(Ready)
<1>1. Relist(Target, {}, ts)  BY DEF LeaveS
<1>2. ts \in SUBSET Target /\ active \subseteq ts  BY OrAllIs DEF Ready, TransferInv
<1> HIDE DEF ts
<1> QED  BY <1>1, <1>2, RelistOK

LEMMA DetachSOK ==
  ASSUME TransferInv, DetachS
  PROVE  TransferInv'
<1> USE DEF DetachS, Upset, transfer, links, wires, receiver, TransferInv
<1>1. TypeOK'
  <2>1. upsets' \in 0..MaxUpsets  BY BoundAssumption DEF TypeOK, BoundAssumption
  <2> QED  BY <2>1 DEF TypeOK
<1>2. \A t \in Target : /\ entry'[t] \notin Conn /\ ~sending'[t]
                        /\ entry[t] # None => entry'[t] # None
  BY ConnAssumption DEF ConnAssumption
<1>3. Relisted({})
  <2>1. ListedOpen'  BY <1>2 DEF ListedOpen, Link
  <2>2. \A t \in active : entry'[t] # None  BY <1>2 DEF SenderInv, ActiveExact, TypeOK
  <2> QED  BY <1>1, <2>1, <2>2 DEF Relisted, TypeOK
<1>4. Cancels({})  BY <1>1, <1>2 DEF Cancels, Cancelled, TypeOK
<1>5. SenderInv'  BY <1>3, <1>4, CancelSender
<1>6. OnceInv' /\ Fits'  BY ListOnce, FitsSame DEF Running
<1> QED  BY <1>1, <1>5, <1>6

-----------------------------------------------------------------------------
(* The targets *)

\* What is given up is a transfer to this target.
LEMMA ForgetIs ==
  ASSUME TypeOK, Fits, NEW t \in Target
  PROVE  /\ Unfinished(t) \subseteq Transfer
         /\ Nothing \in [round : 0..MaxRounds, got : SUBSET Nat]
<1>1. receiving[t] # Nothing => <<t, receiving[t].round>> \in Transfer
  BY DEF Fits, Transfer
<1> QED  BY <1>1, BoundAssumption DEF Unfinished, Nothing, BoundAssumption

LEMMA OpenROK ==
  ASSUME TransferInv, NEW l \in Link, OpenR(l)
  PROVE  TransferInv'
<1> USE DEF OpenR, transfer, list, wires, TransferInv
<1>1. TypeOK'
  <2>1. l[1] \in Target /\ l[2] \in Conn  BY DEF Link
  <2> QED  BY <2>1 DEF TypeOK
<1>2. SenderInv' /\ OnceInv' /\ Fits'  BY SenderSame, OnceSame, FitsSame DEF Running
<1> QED  BY <1>1, <1>2

LEMMA CarriedFits ==
  ASSUME NEW l \in Link, NEW q \in Seq(Fit(l, "message"))
  PROVE  Carried(q) \subseteq Transfer
<1>1. \A i \in 1..Len(q) : q[i] \in Fit(l, "message")  BY ElementOfSeq
<1> QED  BY <1>1 DEF Carried, Fit

LEMMA DetachROK ==
  ASSUME TransferInv, NEW t \in Target, DetachR(t)
  PROVE  TransferInv'
<1> USE DEF TransferInv
<1>1. /\ rEntry' = [rEntry EXCEPT ![t] = None] /\ upsets < MaxUpsets /\ upsets' = upsets + 1
      /\ receiving' = [receiving EXCEPT ![t] = Nothing]
      /\ lost' = lost \cup Unfinished(t)
      /\ UNCHANGED <<transfer, list, links, wires, delivered, robbed>>
  BY DEF DetachR, Forget, Upset
<1>2. TypeOK'
  <2>1. upsets' \in 0..MaxUpsets  BY <1>1, BoundAssumption DEF TypeOK, BoundAssumption
  <2>2. lost' \subseteq Transfer  BY <1>1, ForgetIs DEF TypeOK
  <2>3. receiving' \in [Target -> [round : 0..MaxRounds, got : SUBSET Nat]]
    BY <1>1, ForgetIs DEF TypeOK
  <2> QED  BY <1>1, <2>1, <2>2, <2>3 DEF TypeOK, transfer, list, links, wires
<1>3. Fits'  BY <1>1 DEF Fits, TypeOK, wires
<1>4. SenderInv' /\ OnceInv'
  BY <1>1, SenderSame, OnceSame DEF transfer, list, links, wires, Running
<1> QED  BY <1>2, <1>3, <1>4

LEMMA ReceiveTimeoutOK ==
  ASSUME TransferInv, NEW t \in Target, ReceiveTimeout(t)
  PROVE  TransferInv'
<1> USE DEF TransferInv
<1>1. /\ receiving' = [receiving EXCEPT ![t] = Nothing]
      /\ lost' = lost \cup Unfinished(t)
      /\ UNCHANGED <<transfer, list, links, wires, rEntry, delivered, upsets, robbed>>
  BY DEF ReceiveTimeout, Forget
<1>2. TypeOK'
  <2>1. lost' \subseteq Transfer  BY <1>1, ForgetIs DEF TypeOK
  <2>2. receiving' \in [Target -> [round : 0..MaxRounds, got : SUBSET Nat]]
    BY <1>1, ForgetIs DEF TypeOK
  <2> QED  BY <1>1, <2>1, <2>2 DEF TypeOK, transfer, list, links, wires
<1>3. Fits'  BY <1>1 DEF Fits, TypeOK, wires
<1>4. SenderInv' /\ OnceInv'
  BY <1>1, SenderSame, OnceSame DEF transfer, list, links, wires, Running
<1> QED  BY <1>2, <1>3, <1>4

\* A queue that loses its first message, or all of them, has no new file-end.
LEMMA CloseROK ==
  ASSUME TransferInv, NEW l \in Link, CloseR(l)
  PROVE  TransferInv'
<1> DEFINE t == l[1]
           current == rEntry[l[1]] = l[2]
           more == IF current THEN Unfinished(t) ELSE {}
<1> USE DEF TransferInv
<1>1. /\ rEnd' = [rEnd EXCEPT ![l] = "closed"] /\ toR' = [toR EXCEPT ![l] = <<>>]
      /\ rEntry' = [rEntry EXCEPT ![t] = IF current THEN None ELSE @]
      /\ receiving' = [receiving EXCEPT ![t] = IF current THEN Nothing ELSE @]
      /\ lost' = lost \cup Carried(toR[l]) \cup more
      /\ upsets < MaxUpsets /\ upsets' = upsets + 1
      /\ UNCHANGED <<transfer, list, sEnd, toS, delivered, robbed>>
  BY DEF CloseR, Upset
<1>2. t \in Target /\ more \subseteq Transfer /\ l[2] \in Conn
      /\ Nothing \in [round : 0..MaxRounds, got : SUBSET Nat]
  BY ForgetIs DEF Link
<1> HIDE DEF current, more
<1>3. TypeOK'
  <2>1. upsets' \in 0..MaxUpsets  BY <1>1, BoundAssumption DEF TypeOK, BoundAssumption
  <2>2. lost' \subseteq Transfer
    <3>1. Carried(toR[l]) \subseteq Transfer  BY CarriedFits DEF Fits
    <3> QED  BY <1>1, <1>2, <3>1 DEF TypeOK
  <2>3. receiving' \in [Target -> [round : 0..MaxRounds, got : SUBSET Nat]]
    BY <1>1, <1>2 DEF TypeOK
  <2>4. toR' \in [Link -> Seq(Wire)]  BY <1>1, EmptySeq DEF TypeOK
  <2>5. rEntry' \in [Target -> Conn \cup {None}]  BY <1>1, <1>2 DEF TypeOK
  <2> QED  BY <1>1, <2>1, <2>2, <2>3, <2>4, <2>5 DEF TypeOK, transfer, list
<1>4. Fits'
  <2>1. \A m \in Link : toR'[m] \in Seq(Fit(m, "message"))
    BY <1>1, EmptySeq DEF Fits, TypeOK
  <2>2. \A s \in Target : receiving'[s] = Nothing \/ receiving'[s].round \in Round
    BY <1>1 DEF Fits, TypeOK
  <2> QED  BY <1>1, <2>1, <2>2 DEF Fits
<1>5. SenderInv'  BY <1>1, SenderSame DEF transfer, list
<1>6. OnceInv'
  <2>1. \A m \in Link : \A x \in Transfer : EndsIn(toR'[m], x) \subseteq EndsIn(toR[m], x)
    BY <1>1, EmptyEnds DEF TypeOK
  <2> QED  BY <1>1, <2>1, OnceSame DEF transfer, Running
<1> QED  BY <1>3, <1>4, <1>5, <1>6

\* The target takes the first message of a link.
Taken(l) == toR[l] # <<>> /\ toR' = [toR EXCEPT ![l] = Tail(@)]

LEMMA TakenIs ==
  ASSUME TypeOK, Fits, NEW l \in Link, Taken(l)
  PROVE  /\ toR[l] \in Seq(Wire) /\ toR[l] # <<>> /\ Head(toR[l]) \in Fit(l, "message")
         /\ toR' \in [Link -> Seq(Wire)]
         /\ \A m \in Link : toR'[m] \in Seq(Fit(m, "message"))
         /\ toR'[l] = Tail(toR[l]) /\ \A m \in Link : m # l => toR'[m] = toR[m]
<1>1. toR \in [Link -> Seq(Wire)] /\ toR[l] # <<>>
  BY DEF TypeOK, Taken
<1>2. Tail(toR[l]) \in Seq(Wire)  BY <1>1, HeadTailProperties
<1>3. Head(toR[l]) \in Fit(l, "message") /\ Tail(toR[l]) \in Seq(Fit(l, "message"))
  BY <1>1, HeadTailProperties DEF Fits
<1> QED  BY <1>1, <1>2, <1>3 DEF Taken, Fits

\* Its file-end, if it is one, was the only one of its transfer.
LEMMA TakenOnce ==
  ASSUME TypeOK, Fits, OnceInv, NEW l \in Link, Taken(l), UNCHANGED <<rounds, before, pc>>,
         \A x \in Transfer :
           \/ delivered'[x] = delivered[x]
           \/ /\ delivered'[x] = delivered[x] + 1
              /\ Head(toR[l]).type = "file-end" /\ Head(toR[l]).id = x
  PROVE  OnceInv'
<1> USE DEF OnceInv
<1>1. /\ toR[l] \in Seq(Wire) /\ toR[l] # <<>> /\ toR'[l] = Tail(toR[l])
      /\ \A m \in Link : m # l => toR'[m] = toR[m]
  BY TakenIs
<1>2. \A x \in Transfer, m \in Link : \A i \in EndsIn(toR'[m], x) :
        /\ i \in Nat /\ i # 0
        /\ (IF m = l THEN i + 1 ELSE i) \in EndsIn(toR[m], x)
  <2> SUFFICES ASSUME NEW x \in Transfer, NEW m \in Link, NEW i \in EndsIn(toR'[m], x)
               PROVE  /\ i \in Nat /\ i # 0
                      /\ (IF m = l THEN i + 1 ELSE i) \in EndsIn(toR[m], x)
    OBVIOUS
  <2>1. i \in Nat /\ i # 0  BY DEF EndsIn
  <2> QED  BY <1>1, <2>1, TailEnds
<1>3. \A x \in Transfer :
        Head(toR[l]).type = "file-end" /\ Head(toR[l]).id = x => 1 \in EndsIn(toR[l], x)
  BY <1>1, TailEnds
<1>4. Ends'
  <2> SUFFICES ASSUME NEW x \in Transfer, NEW m \in Link, NEW i \in EndsIn(toR'[m], x)
               PROVE  /\ pc[x] = "ok" /\ delivered'[x] = 0
                      /\ \A n \in Link : \A j \in EndsIn(toR'[n], x) : m = n /\ i = j
    BY DEF Ends, EndsIn
  <2> DEFINE place == IF m = l THEN i + 1 ELSE i
  <2>1. i \in Nat /\ i # 0 /\ place \in EndsIn(toR[m], x)  BY <1>2
  <2>2. pc[x] = "ok" /\ delivered[x] = 0  BY <2>1 DEF Ends
  <2>3. 1 \notin EndsIn(toR[l], x)
    <3> SUFFICES ASSUME 1 \in EndsIn(toR[l], x)  PROVE FALSE
      OBVIOUS
    <3>1. m = l /\ place = 1  BY <2>1 DEF Ends
    <3> QED  BY <2>1, <3>1
  <2>4. delivered'[x] = 0  BY <1>3, <2>2, <2>3
  <2>5. ASSUME NEW n \in Link, NEW j \in EndsIn(toR'[n], x)  PROVE m = n /\ i = j
    <3>1. j \in Nat /\ (IF n = l THEN j + 1 ELSE j) \in EndsIn(toR[n], x)  BY <1>2
    <3>2. m = n /\ place = (IF n = l THEN j + 1 ELSE j)  BY <2>1, <3>1 DEF Ends
    <3> QED  BY <2>1, <3>1, <3>2
  <2> QED  BY <2>2, <2>4, <2>5
<1>5. Handed'
  <2> SUFFICES ASSUME NEW x \in Transfer
               PROVE  delivered'[x] \in {0, 1} /\ (delivered'[x] = 1 => pc[x] = "ok")
    BY DEF Handed
  <2>1. CASE delivered'[x] = delivered[x]  BY <2>1 DEF Handed
  <2>2. CASE 1 \in EndsIn(toR[l], x) /\ delivered'[x] = delivered[x] + 1
    BY <2>2 DEF Ends
  <2> QED  BY <1>3, <2>1, <2>2
<1>6. Files'  BY FilesSame DEF Running
<1> QED  BY <1>4, <1>5, <1>6

LEMMA ReplyIs ==
  ASSUME TypeOK, Fits, NEW l \in Link, NEW w \in Fit(l, "ack"), Reply(l, w)
  PROVE  /\ toS' \in [Link -> Seq(Wire)]
         /\ \A m \in Link : toS'[m] \in Seq(Fit(m, "ack"))
<1>1. w \in Wire  BY DEF Fit
<1>2. Append(toS[l], w) \in Seq(Wire) /\ Append(toS[l], w) \in Seq(Fit(l, "ack"))
  BY <1>1, QueueAppend DEF TypeOK, Fits
<1> QED  BY <1>2 DEF Reply, TypeOK, Fits

LEMMA RecvROK ==
  ASSUME TransferInv, NEW l \in Link, RecvR(l)
  PROVE  TransferInv'
<1> DEFINE m == Head(toR[l])
           t == l[1]
           x == m.id
<1> USE DEF TransferInv
<1>1. /\ Taken(l) /\ rEntry' = [rEntry EXCEPT ![t] = l[2]]
      /\ UNCHANGED <<transfer, list, links, upsets, robbed>>
      /\ \/ m.type = "file-start" /\ TakeStart(l, x)
         \/ m.type \in {"file-chunk", "file-end"} /\ TakeUnknown(l, x)
         \/ m.type = "file-chunk" /\ TakeChunk(l, x, m.chunk)
         \/ m.type = "file-end" /\ TakeEnd(l, x)
         \/ /\ m.type = "message"
            /\ Reply(l, Note("ack", x))
            /\ UNCHANGED <<receiving, delivered, lost>>
  BY DEF RecvR, Taken
<1>2. /\ m \in Fit(l, "message") /\ toR' \in [Link -> Seq(Wire)]
      /\ \A k \in Link : toR'[k] \in Seq(Fit(k, "message"))
  BY <1>1, TakenIs
<1>3. /\ t \in Target /\ l[2] \in Conn /\ x \in AckId /\ m.chunk \in Nat
      /\ m.type # "message" => x \in Transfer /\ x[1] = t /\ x[2] \in Round
  BY <1>2 DEF Link, Fit, Wire, Transfer
<1>4. /\ Note("ack", x) \in Fit(l, "ack")
      /\ m.type # "message" => Note("file-start-ack", x) \in Fit(l, "ack")
  BY <1>3 DEF Note, Fit, Wire, MessageType
<1> HIDE DEF m, x
<1> DEFINE Got == receiving' \in [Target -> [round : 0..MaxRounds, got : SUBSET Nat]]
           Expecting == \A s \in Target : receiving'[s] = Nothing \/ receiving'[s].round \in Round
           Answered == /\ toS' \in [Link -> Seq(Wire)]
                       /\ \A k \in Link : toS'[k] \in Seq(Fit(k, "ack"))
           Counted == \A y \in Transfer :
             \/ delivered'[y] = delivered[y]
             \/ delivered'[y] = delivered[y] + 1 /\ m.type = "file-end" /\ m.id = y
           Kept == delivered' \in [Transfer -> Nat] /\ lost' \subseteq Transfer
<1>5. Got /\ Expecting /\ Answered /\ Counted /\ Kept
  <2>1. /\ receiving \in [Target -> [round : 0..MaxRounds, got : SUBSET Nat]]
        /\ \A s \in Target : receiving[s] = Nothing \/ receiving[s].round \in Round
        /\ toS \in [Link -> Seq(Wire)] /\ \A k \in Link : toS[k] \in Seq(Fit(k, "ack"))
        /\ delivered \in [Transfer -> Nat] /\ lost \subseteq Transfer
        /\ Unfinished(t) \subseteq Transfer
        /\ Nothing \in [round : 0..MaxRounds, got : SUBSET Nat]
    BY <1>3, ForgetIs DEF TypeOK, Fits
  <2>2. CASE m.type = "file-start" /\ TakeStart(l, x)
    <3>1. Answered  BY <1>4, <2>2, ReplyIs DEF TakeStart
    <3>2. delivered' = delivered  BY <2>2 DEF TakeStart
    <3>3. /\ lost' = lost \/ lost' = lost \cup Unfinished(t)
          /\ receiving' = receiving
             \/ receiving' = [receiving EXCEPT ![t] = [round |-> x[2], got |-> {}]]
      BY <2>2 DEF TakeStart
    <3>4. [round |-> x[2], got |-> {}] \in [round : 0..MaxRounds, got : SUBSET Nat]
          /\ [round |-> x[2], got |-> {}].round \in Round
      BY <1>3, <2>2, BoundAssumption DEF Round, BoundAssumption
    <3> QED  BY <2>1, <3>1, <3>2, <3>3, <3>4
  <2>3. CASE TakeUnknown(l, x)
    BY <2>1, <2>3 DEF TakeUnknown
  <2>4. CASE m.type = "file-chunk" /\ TakeChunk(l, x, m.chunk)
    <3>1. receiving[t].round = x[2]
          /\ receiving' = [receiving EXCEPT ![t].got = @ \cup {m.chunk}]
          /\ UNCHANGED <<toS, delivered, lost>>
      BY <2>4 DEF TakeChunk
    <3> DEFINE got == receiving[t].got \cup {m.chunk}
    <3>2. got \in SUBSET Nat  BY <1>3, <2>1
    <3>3. receiving' = [receiving EXCEPT ![t] = [receiving[t] EXCEPT !.got = got]]
      BY <3>1
    <3> HIDE DEF got
    <3>4. [receiving[t] EXCEPT !.got = got] \in [round : 0..MaxRounds, got : SUBSET Nat]
          /\ [receiving[t] EXCEPT !.got = got].round = receiving[t].round
      BY <1>3, <2>1, <3>2
    <3>5. receiving[t].round \in Round  BY <1>3, <2>4, <3>1
    <3>6. Got /\ Expecting
      BY <1>3, <2>1, <3>3, <3>4, <3>5
    <3> QED  BY <2>1, <3>1, <3>6
  <2>5. CASE m.type = "file-end" /\ TakeEnd(l, x)
    <3>1. /\ receiving' = [receiving EXCEPT ![t] = Nothing] /\ lost' = lost
          /\ \/ delivered' = [delivered EXCEPT ![x] = @ + 1] /\ Reply(l, Note("ack", x))
             \/ UNCHANGED <<delivered, toS>>
      BY <2>5 DEF TakeEnd
    <3>2. Answered  BY <1>4, <2>1, <3>1, ReplyIs
    <3>3. Got /\ Expecting  BY <2>1, <3>1
    <3>4. /\ delivered' \in [Transfer -> Nat]
          /\ \A y \in Transfer :
               delivered'[y] = delivered[y] \/ (delivered'[y] = delivered[y] + 1 /\ y = x)
      <4>1. delivered \in [Transfer -> Nat]  BY DEF TypeOK
      <4>2. CASE delivered' = [delivered EXCEPT ![x] = @ + 1]
        <5>1. x \in Transfer /\ delivered[x] + 1 \in Nat  BY <1>3, <2>5, <4>1
        <5> QED  BY <4>1, <4>2, <5>1
      <4>3. CASE delivered' = delivered  BY <4>1, <4>3
      <4> QED  BY <3>1, <4>2, <4>3
    <3>5. Counted /\ Kept  BY <2>1, <2>5, <3>1, <3>4 DEF x
    <3> QED  BY <3>2, <3>3, <3>5
  <2>6. CASE m.type = "message" /\ Reply(l, Note("ack", x))
             /\ UNCHANGED <<receiving, delivered, lost>>
    BY <1>4, <2>1, <2>6, ReplyIs
  <2> QED  BY <1>1, <2>2, <2>3, <2>4, <2>5, <2>6
<1>6. TypeOK'
  <2>1. rEntry' \in [Target -> Conn \cup {None}]  BY <1>1, <1>3 DEF TypeOK
  <2> QED  BY <1>1, <1>2, <1>5, <2>1 DEF TypeOK, transfer, list, links
<1>7. Fits'  BY <1>2, <1>5 DEF Fits
<1>8. SenderInv'  BY <1>1, SenderSame DEF transfer, list, links
<1>9. OnceInv'  BY <1>1, <1>5, TakenOnce DEF transfer, m
<1> QED  BY <1>6, <1>7, <1>8, <1>9

-----------------------------------------------------------------------------
(* The transfers *)

LEMMA RunningIs ==
  ASSUME TypeOK, Begun, NEW x \in Transfer, Running(x)
  PROVE  /\ x[1] \in Target /\ x[2] \in Round /\ x = <<x[1], x[2]>>
         /\ x[2] <= Len(rounds) /\ Chunks(x) \in Nat
         /\ At(x) \in Link /\ At(x)[1] = x[1]
         /\ pc[x] \notin {"idle", "ok", "stranded"}
<1>1. x[1] \in Target /\ x[2] \in Round /\ x = <<x[1], x[2]>>  BY DEF Transfer
<1>2. on[x] \in Conn /\ ~(x[2] > Len(rounds)) /\ pc[x] \notin {"idle", "ok", "stranded"}
  BY DEF Begun, Running
<1>3. x[2] <= Len(rounds)  BY <1>1, <1>2, CallIsTransfer DEF Round
<1> QED  BY <1>1, <1>2, <1>3, ChunksIs DEF At, Link

\* What the end of x takes the key of is another transfer to the same target.
LEMMA EndActiveIs ==
  ASSUME TypeOK, NEW x \in Transfer, EndActive(x)
  PROVE  /\ active' = active \ {x[1]} /\ active' \subseteq Target
         /\ robbed \subseteq robbed' /\ robbed' \subseteq Transfer
         /\ \A y \in Transfer :
              y # x /\ Running(y) /\ y[1] \in active => y[1] \in active' \/ y \in robbed'
BY DEF EndActive, TypeOK

\* A transfer that gives up leaves isSending as it is.
LEMMA GiveUpOK ==
  ASSUME TransferInv, NEW x \in Transfer, Running(x), NEW end_ \in {"cut", "stranded"},
         x[1] \in active => end_ = "stranded", pc' = [pc EXCEPT ![x] = end_], EndActive(x),
         UNCHANGED <<rounds, before, on, next, tries, sending, entry, pending, said, links,
                     wires, receiver, lost, upsets>>
  PROVE  TransferInv'
<1> USE DEF TransferInv, SenderInv
<1>1. /\ x[1] \in Target /\ x[2] \in Round /\ x = <<x[1], x[2]>>
      /\ pc[x] \notin {"idle", "ok", "stranded"}
  BY RunningIs
<1>2. /\ active' = active \ {x[1]} /\ active' \subseteq Target
      /\ robbed \subseteq robbed' /\ robbed' \subseteq Transfer
      /\ \A y \in Transfer :
           y # x /\ Running(y) /\ y[1] \in active => y[1] \in active' \/ y \in robbed'
  BY EndActiveIs
<1>3. TypeOK'  BY <1>2 DEF TypeOK, links, wires, receiver
<1>4. \A y \in Transfer : pc'[y] = IF y = x THEN end_ ELSE pc[y]  BY DEF TypeOK
<1>5. \A y \in Transfer : (pc'[y] = "ok" <=> pc[y] = "ok") /\ (Running(y)' => Running(y))
  BY <1>1, <1>4 DEF Running
<1>6. SenderInv'
  <2>1. ListedOpen' /\ active' \subseteq active  BY <1>2 DEF ListedOpen, links
  <2>2. \A y \in Transfer :
          /\ pc'[y] = "idle" <=> pc[y] = "idle"
          /\ pc[y] = "stranded" => pc'[y] = "stranded"
          /\ Running(y)' => Running(y)
          /\ pc'[y] = "start" =>
               pc[y] = "start" /\ (y[1] \in active => y[1] \in active' \/ y \in robbed')
    BY <1>1, <1>2, <1>4 DEF Running
  <2>3. \A t \in active' :
          entry'[t] # None /\ \A y \in Transfer : y[1] = t /\ Running(y) => Running(y)'
    BY <1>2, <1>4 DEF ActiveExact, Running
  <2>4. ASSUME NEW t \in Target, sending'[t], t \notin active'
        PROVE  Owed(t)' \/ (sending[t] /\ t \notin active /\ pending' = pending)
    <3>1. CASE t \notin active  BY <2>4, <3>1
    <3>2. CASE t \in active
      <4>1. pc'[<<t, x[2]>>] = "stranded"  BY <1>1, <1>2, <1>4, <2>4, <3>2
      <4> QED  BY <1>1, <4>1 DEF Owed
    <3> QED  BY <3>1, <3>2
  <2> HIDE DEF TransferInv, SenderInv
  <2> QED  BY <1>2, <2>1, <2>2, <2>3, <2>4, SenderStep DEF TransferInv
<1>7. OnceInv'  BY <1>5, OnceSame DEF wires, receiver
<1>8. Fits'  BY FitsSame DEF receiver
<1> QED  BY <1>3, <1>6, <1>7, <1>8

LEMMA ReadErrorOK ==
  ASSUME TransferInv, NEW x \in Transfer, ReadError(x)
  PROVE  TransferInv'
<1>1. Running(x)  BY DEF ReadError, Running
<1> QED  BY <1>1, GiveUpOK DEF ReadError

\* A message that is sent ends up at the end of the queue, or nowhere.
LEMMA SendIs ==
  ASSUME TypeOK, Fits, NEW l \in Link, NEW w \in Fit(l, "message"), SendS(l, <<w>>)
  PROVE  /\ toR' \in [Link -> Seq(Wire)]
         /\ \A m \in Link : toR'[m] \in Seq(Fit(m, "message"))
         /\ w.type # "file-end" =>
              \A m \in Link : \A x \in Transfer : EndsIn(toR'[m], x) \subseteq EndsIn(toR[m], x)
<1>1. w \in Wire /\ toR[l] \in Seq(Wire) /\ toR[l] \in Seq(Fit(l, "message"))
  BY DEF Fit, TypeOK, Fits
<1>2. toR' = IF Arrives(l) THEN [toR EXCEPT ![l] = Append(toR[l], w)] ELSE toR
  <2>1. toR[l] \o <<w>> = Append(toR[l], w)  BY <1>1, QueueAppend
  <2> QED  BY <2>1 DEF SendS
<1>3. /\ Append(toR[l], w) \in Seq(Wire)
      /\ Append(toR[l], w) \in Seq(Fit(l, "message"))
  BY <1>1, QueueAppend
<1>4. w.type # "file-end" => \A x \in Transfer : EndsIn(Append(toR[l], w), x) = EndsIn(toR[l], x)
  <2> DEFINE r == Append(toR[l], w)
  <2>1. \A x \in Transfer : EndsIn(r, x) = EndsIn(toR[l], x) \cup
          (IF w.type = "file-end" /\ w.id = x THEN {Len(toR[l]) + 1} ELSE {})
    BY <1>1, AppendEnds
  <2> HIDE DEF r
  <2>2. w.type # "file-end" => \A x \in Transfer : EndsIn(r, x) = EndsIn(toR[l], x)
    BY <2>1
  <2> QED  BY <2>2 DEF r
<1>5. \A m \in Link : toR'[m] = toR[m] \/ (m = l /\ toR'[m] = Append(toR[l], w))
  BY <1>2 DEF TypeOK
<1>6. toR' \in [Link -> Seq(Wire)]  BY <1>2, <1>3 DEF TypeOK
<1> QED  BY <1>3, <1>4, <1>5, <1>6 DEF Fits

LEMMA StartTimeoutOK ==
  ASSUME TransferInv, NEW x \in Transfer, StartTimeout(x)
  PROVE  TransferInv'
<1> DEFINE w == Note("file-start", x)
<1> USE DEF TransferInv
<1>1. /\ pc[x] = "start" /\ Running(x)
      /\ UNCHANGED <<rounds, before, on, next, sending, entry, pending, said, links, toS,
                     receiver, lost, upsets>>
  BY DEF StartTimeout, Expired, Running
<1>2. x[1] \in Target /\ At(x) \in Link /\ At(x)[1] = x[1]
  BY <1>1, RunningIs DEF SenderInv
<1>3. CASE Again(x)
  <2>1. /\ tries' = [tries EXCEPT ![x] = @ + 1] /\ SendS(At(x), <<w>>)
        /\ UNCHANGED <<pc, active, robbed>>
    BY <1>3 DEF StartTimeout
  <2>2. w \in Fit(At(x), "message") /\ w.type # "file-end"
    BY <1>2, TransferIsId DEF Note, Fit, Wire, MessageType
  <2> HIDE DEF w
  <2>3. /\ toR' \in [Link -> Seq(Wire)]
        /\ \A m \in Link : toR'[m] \in Seq(Fit(m, "message"))
        /\ \A m \in Link : \A y \in Transfer : EndsIn(toR'[m], y) \subseteq EndsIn(toR[m], y)
    BY <1>2, <2>1, <2>2, SendIs
  <2>4. tries' \in [Transfer -> 0..MaxAttempts]
    BY <1>3, <2>1, BoundAssumption DEF Again, TypeOK, BoundAssumption
  <2>5. TypeOK'  BY <1>1, <2>1, <2>3, <2>4 DEF TypeOK, links, receiver
  <2>6. SenderInv'  BY <1>1, <2>1, SenderSame DEF links
  <2>7. OnceInv'  BY <1>1, <2>1, <2>3, OnceSame DEF receiver, Running
  <2>8. Fits'  BY <1>1, <2>3 DEF Fits, receiver
  <2> QED  BY <2>5, <2>6, <2>7, <2>8
<1>4. CASE ~Again(x)
  <2> DEFINE end_ == IF x[1] \in active THEN "stranded" ELSE "cut"
  <2>1. /\ pc' = [pc EXCEPT ![x] = end_] /\ EndActive(x)
        /\ UNCHANGED <<tries, toR>>
    BY <1>4 DEF StartTimeout
  <2>2. end_ \in {"cut", "stranded"} /\ (x[1] \in active => end_ = "stranded")
    OBVIOUS
  <2> HIDE DEF end_
  <2> QED  BY <1>1, <2>1, <2>2, GiveUpOK DEF wires
<1> QED  BY <1>3, <1>4

\* What sendFileToPeer sends before its next await: a chunk or nothing, and the file-end
\* with the last chunk.
Sends(l, notes, x, n) ==
  SendS(l, IF n = Chunks(x) THEN Append(notes, Note("file-end", x)) ELSE notes)
ChunkOrNone(notes, x) ==
  notes = <<>> \/ \E i \in Nat : notes = <<FileChunk(x, i)>>

\* Link l has one more file-end of x at most, and no other link has.
OneEndMore(l, x) ==
  \E p : \A m \in Link : \A i \in EndsIn(toR'[m], x) :
    i \in EndsIn(toR[m], x) \/ (m = l /\ i = p)

LEMMA SendsIs ==
  ASSUME TypeOK, Fits, NEW l \in Link, NEW x \in Transfer, x[1] = l[1],
         NEW notes, ChunkOrNone(notes, x), NEW n, Sends(l, notes, x, n)
  PROVE  /\ toR' \in [Link -> Seq(Wire)]
         /\ \A m \in Link : toR'[m] \in Seq(Fit(m, "message"))
         /\ \A m \in Link : \A y \in Transfer :
              y # x \/ n # Chunks(x) => EndsIn(toR'[m], y) \subseteq EndsIn(toR[m], y)
         /\ OneEndMore(l, x)
<1> DEFINE last == n = Chunks(x)
           F == Fit(l, "message")
           q == toR[l]
           end_ == Note("file-end", x)
<1>1. q \in Seq(Wire) /\ q \in Seq(F)  BY DEF TypeOK, Fits
<1>2. end_ \in F /\ end_ \in Wire /\ end_.type = "file-end" /\ end_.id = x
  BY TransferIsId DEF Note, Fit, Wire, MessageType
<1> HIDE DEF end_, q, F
<1>3. PICK c \in Seq(Wire) :
        /\ c \in Seq(F) /\ c = q \o notes
        /\ \A y : EndsIn(c, y) = EndsIn(q, y)
        /\ q \o Append(notes, end_) = Append(c, end_)
  <2>1. CASE notes = <<>>
    <3>1. q \o notes = q  BY <1>1, <2>1, ConcatEmptySeq
    <3>2. q \o Append(notes, end_) = Append(q, end_)  BY <1>1, <1>2, <2>1
    <3> QED  BY <1>1, <3>1, <3>2
  <2>2. CASE notes # <<>>
    <3>1. PICK i \in Nat : notes = <<FileChunk(x, i)>>  BY <2>2 DEF ChunkOrNone
    <3> DEFINE w == FileChunk(x, i)
    <3>2. w \in F /\ w \in Wire /\ w.type # "file-end"
      BY TransferIsId DEF FileChunk, F, Fit, Wire, MessageType
    <3> HIDE DEF w
    <3>3. notes = <<w>>  BY <3>1 DEF w
    <3>4. q \o notes = Append(q, w) /\ Append(q, w) \in Seq(Wire) /\ Append(q, w) \in Seq(F)
      BY <1>1, <3>2, <3>3, QueueAppend
    <3>5. \A y : EndsIn(Append(q, w), y) = EndsIn(q, y) \cup
            (IF w.type = "file-end" /\ w.id = y THEN {Len(q) + 1} ELSE {})
      BY <1>1, <3>2, AppendEnds
    <3>6. q \o Append(notes, end_) = Append(Append(q, w), end_)
      BY <1>1, <1>2, <3>2, <3>3
    <3> DEFINE r == Append(q, w)
    <3>7. /\ r \in Seq(Wire) /\ r \in Seq(F) /\ r = q \o notes
          /\ q \o Append(notes, end_) = Append(r, end_)
          /\ \A y : EndsIn(r, y) = EndsIn(q, y) \cup
               (IF w.type = "file-end" /\ w.id = y THEN {Len(q) + 1} ELSE {})
      BY <3>4, <3>5, <3>6
    <3> HIDE DEF r
    <3> QED  BY <3>2, <3>7
  <2> QED  BY <2>1, <2>2
<1>4. PICK r \in Seq(Wire), p \in Nat :
        /\ r \in Seq(F)
        /\ toR' = IF Arrives(l) THEN [toR EXCEPT ![l] = r] ELSE toR
        /\ \A y : EndsIn(r, y) = EndsIn(q, y) \cup (IF last /\ y = x THEN {p} ELSE {})
  <2>1. CASE last
    <3>1. toR' = IF Arrives(l) THEN [toR EXCEPT ![l] = q \o Append(notes, end_)] ELSE toR
      BY <2>1 DEF Sends, SendS, end_, q
    <3> DEFINE r == Append(c, end_)
    <3>2. /\ r \in Seq(Wire) /\ r \in Seq(F) /\ Len(c) + 1 \in Nat
      BY <1>2, <1>3, QueueAppend
    <3>3. \A y : EndsIn(r, y) = EndsIn(c, y) \cup
            (IF end_.type = "file-end" /\ end_.id = y THEN {Len(c) + 1} ELSE {})
      BY <1>2, <1>3, AppendEnds
    <3>4. toR' = IF Arrives(l) THEN [toR EXCEPT ![l] = r] ELSE toR
      BY <1>3, <3>1
    <3> HIDE DEF r
    <3> DEFINE p == Len(c) + 1
    <3>5. \A y : EndsIn(r, y) = EndsIn(q, y) \cup (IF last /\ y = x THEN {p} ELSE {})
      <4> SUFFICES ASSUME NEW y
                   PROVE  EndsIn(r, y) = EndsIn(q, y) \cup (IF last /\ y = x THEN {p} ELSE {})
        OBVIOUS
      <4>1. EndsIn(c, y) = EndsIn(q, y)  BY <1>3
      <4> QED  BY <1>2, <2>1, <3>3, <4>1
    <3> HIDE DEF p
    <3>6. p \in Nat  BY <3>2 DEF p
    <3> QED  BY <3>2, <3>4, <3>5, <3>6
  <2>2. CASE ~last
    <3>1. toR' = IF Arrives(l) THEN [toR EXCEPT ![l] = c] ELSE toR
      BY <1>3, <2>2 DEF Sends, SendS, q
    <3> QED  BY <1>3, <2>2, <3>1
  <2> QED  BY <2>1, <2>2
<1>5. toR' \in [Link -> Seq(Wire)]  BY <1>4 DEF TypeOK
<1>6. \A m \in Link : toR'[m] = toR[m] \/ (m = l /\ toR'[m] = r)
  BY <1>4 DEF TypeOK
<1>7. \A m \in Link : toR'[m] \in Seq(Fit(m, "message"))
  BY <1>4, <1>6 DEF Fits, F
<1> QED  BY <1>4, <1>5, <1>6, <1>7 DEF q, OneEndMore

LEMMA ProceedOK ==
  ASSUME TransferInv, NEW x \in Transfer, Running(x), NEW n \in Nat, NEW notes,
         ChunkOrNone(notes, x), Proceed(x, notes, n),
         Relisted({}), UNCHANGED <<rounds, before, on, delivered>>
  PROVE  /\ next' \in [Transfer -> Nat] /\ pc' \in [Transfer -> Stand]
         /\ active' \subseteq Target /\ sending' \in [Target -> BOOLEAN]
         /\ pending' \subseteq AckId /\ lost' \subseteq Transfer /\ robbed' \subseteq Transfer
         /\ toR' \in [Link -> Seq(Wire)]
         /\ \A m \in Link : toR'[m] \in Seq(Fit(m, "message"))
         /\ SenderInv' /\ OnceInv'
<1> DEFINE t == x[1]
           l == At(x)
           last == n = Chunks(x)
           closed == ~last /\ t \in active /\ sEnd[l] # "open"
           end_ == IF last THEN "ok"
                   ELSE IF t \in active /\ sEnd[l] = "open" THEN "chunk" ELSE "cut"
<1> USE DEF TransferInv, SenderInv, OnceInv
<1>1. /\ t \in Target /\ x[2] \in Round /\ x = <<t, x[2]>>
      /\ x[2] <= Len(rounds) /\ Chunks(x) \in Nat /\ l \in Link /\ l[1] = t
      /\ pc[x] \notin {"idle", "ok", "stranded"}
  BY RunningIs
<1>2. last \in BOOLEAN /\ closed \in BOOLEAN /\ end_ \in {"ok", "chunk", "cut"}
  OBVIOUS
<1>3. /\ next' = [next EXCEPT ![x] = n]
      /\ Sends(l, notes, x, n)
      /\ pc' = [pc EXCEPT ![x] = end_] \/ (closed /\ pc' = [Cancelled({t}) EXCEPT ![x] = end_])
      /\ IF last THEN EndActive(x)
         ELSE robbed' = robbed /\ active' = IF closed THEN active \ {t} ELSE active
      /\ pending' = IF last THEN pending \cup {x} ELSE pending
      /\ sending' = IF closed THEN [sending EXCEPT ![t] = FALSE] ELSE sending
      /\ \E some \in SUBSET {x} : lost' = lost \cup some
  <2>1. CASE last
    <3>1. ~(n < Chunks(x))  BY <1>1, <2>1
    <3>2. /\ next' = [next EXCEPT ![x] = n]
          /\ SendS(l, Append(notes, Note("file-end", x)))
          /\ pc' = [pc EXCEPT ![x] = "ok"] /\ EndActive(x)
          /\ pending' = pending \cup {x} /\ sending' = sending
          /\ lost' = lost \cup Dropped(l, x)
      BY <2>1, <3>1 DEF Proceed
    <3>3. Dropped(l, x) \in SUBSET {x}  BY DEF Dropped
    <3>4. Sends(l, notes, x, n)  BY <2>1, <3>2 DEF Sends
    <3> QED  BY <2>1, <3>2, <3>3, <3>4
  <2>2. CASE ~last
    <3>1. /\ next' = [next EXCEPT ![x] = n]
          /\ SendS(l, notes) /\ pending' = pending /\ robbed' = robbed
          /\ lost' = lost \cup (IF notes = <<>> THEN {} ELSE Dropped(l, x))
          /\ \/ /\ t \in active /\ sEnd[l] = "open"
                /\ pc' = [pc EXCEPT ![x] = "chunk"] /\ UNCHANGED <<active, sending>>
             \/ /\ t \notin active
                /\ pc' = [pc EXCEPT ![x] = "cut"] /\ UNCHANGED <<active, sending>>
             \/ /\ t \in active /\ sEnd[l] # "open"
                /\ pc' = [Cancelled({t}) EXCEPT ![x] = "cut"]
                /\ active' = active \ {t} /\ sending' = [sending EXCEPT ![t] = FALSE]
      BY <2>2 DEF Proceed
    <3>2. (IF notes = <<>> THEN {} ELSE Dropped(l, x)) \in SUBSET {x}  BY DEF Dropped
    <3>3. Sends(l, notes, x, n)  BY <2>2, <3>1 DEF Sends
    <3> QED  BY <2>2, <3>1, <3>2, <3>3
  <2> QED  BY <2>1, <2>2
<1> HIDE DEF l, last, closed, end_
<1>4. /\ toR' \in [Link -> Seq(Wire)]
      /\ \A m \in Link : toR'[m] \in Seq(Fit(m, "message"))
      /\ \A m \in Link : \A y \in Transfer :
           y # x \/ ~last => EndsIn(toR'[m], y) \subseteq EndsIn(toR[m], y)
      /\ OneEndMore(l, x)
  <2>1. x[1] = l[1] /\ Sends(l, notes, x, n)  BY <1>1, <1>3
  <2> HIDE DEF TransferInv, SenderInv, OnceInv
  <2>2. TypeOK /\ Fits  BY DEF TransferInv
  <2> QED  BY <1>1, <2>1, <2>2, SendsIs DEF last
<1>5. /\ active' = IF last \/ closed THEN active \ {t} ELSE active
      /\ active' \subseteq Target /\ robbed \subseteq robbed' /\ robbed' \subseteq Transfer
      /\ \A y \in Transfer : y # x /\ Running(y) /\ y[1] \in active =>
                               y[1] \in active' \/ y \in robbed' \/ (closed /\ y[1] = t)
  <2>1. CASE last
    <3>1. EndActive(x)  BY <1>3, <2>1
    <3> QED  BY <2>1, <3>1, EndActiveIs
  <2>2. CASE ~last  BY <1>3, <2>2 DEF TypeOK
  <2> QED  BY <2>1, <2>2
<1>6. /\ pc' \in [Transfer -> Stand]
      /\ \A y \in Transfer :
           pc'[y] = IF y = x THEN end_
                    ELSE IF closed /\ y[1] = t /\ pc[y] = "start" THEN "cut" ELSE pc[y]
  <2>1. pc \in [Transfer -> Stand] /\ Cancelled({t}) \in [Transfer -> Stand]
        /\ \A y \in Transfer : Cancelled({t})[y] =
             IF y[1] = t /\ pc[y] = "start" THEN "cut" ELSE pc[y]
    BY DEF TypeOK, Stand, Cancelled
  <2> DEFINE C == Cancelled({t})
  <2> HIDE DEF C
  <2>2. end_ \in Stand  BY <1>2 DEF Stand
  <2>3. CASE closed /\ pc' = [C EXCEPT ![x] = end_]  BY <2>1, <2>2, <2>3 DEF C
  <2>4. CASE ~closed /\ pc' = [pc EXCEPT ![x] = end_]  BY <2>1, <2>2, <2>4
  <2>5. closed \in BOOLEAN /\ (closed => pc' = [C EXCEPT ![x] = end_])
    <3>1. CASE closed
      <4>1. Proceed(x, notes, n) /\ t \in active /\ sEnd[l] # "open" /\ n # Chunks(x)
        BY <3>1 DEF closed, last
      <4>2. pc' = [Cancelled({t}) EXCEPT ![x] = "cut"]
        BY <4>1 DEF Proceed, l
      <4>3. end_ = "cut"  BY <4>1 DEF end_, last
      <4> QED  BY <3>1, <4>2, <4>3 DEF C
    <3> QED  BY <1>2, <3>1
  <2> QED  BY <1>3, <2>3, <2>4, <2>5
<1>7. /\ next' \in [Transfer -> Nat] /\ sending' \in [Target -> BOOLEAN]
      /\ pending' \subseteq AckId /\ lost' \subseteq Transfer
  <2>1. pending' \subseteq AckId  BY <1>3, TransferIsId DEF TypeOK
  <2> QED  BY <1>3, <2>1 DEF TypeOK
<1>8. \A y \in Transfer : (pc'[y] = "ok" => pc[y] = "ok" \/ y = x) /\ (pc[y] = "ok" => pc'[y] = "ok")
                          /\ (Running(y)' => Running(y))
  BY <1>1, <1>6 DEF Running
<1>9. SenderInv'
  <2>1. ListedOpen' /\ active' \subseteq active  BY <1>5 DEF Relisted
  <2>2. \A y \in Transfer :
          /\ pc'[y] = "idle" <=> pc[y] = "idle"
          /\ pc[y] = "stranded" => pc'[y] = "stranded"
          /\ Running(y)' => Running(y)
          /\ pc'[y] = "start" =>
               pc[y] = "start" /\ (y[1] \in active => y[1] \in active' \/ y \in robbed')
    BY <1>1, <1>2, <1>5, <1>6, <1>8 DEF Running
  <2>3. ASSUME NEW s \in active'
        PROVE  entry'[s] # None /\ \A y \in Transfer : y[1] = s /\ Running(y) => Running(y)'
    <3>1. s \in active /\ entry'[s] # None  BY <1>5, <2>3 DEF Relisted
    <3>2. CASE s # t  BY <1>6, <3>1, <3>2 DEF Running
    <3>3. CASE s = t
      <4>1. ~last /\ ~closed  BY <1>2, <1>5, <2>3, <3>3
      <4>2. end_ = "chunk"  BY <3>1, <3>3, <4>1 DEF end_, closed
      <4> QED  BY <1>6, <3>1, <4>1, <4>2 DEF Running
    <3> QED  BY <3>2, <3>3
  <2>4. ASSUME NEW s \in Target, sending'[s], s \notin active'
        PROVE  \/ Owed(s)'
               \/ sending[s] /\ s \notin active /\ pending \subseteq pending'
    <3>1. sending[s] /\ ~(closed /\ s = t)  BY <1>3, <2>4 DEF TypeOK
    <3>2. pending \subseteq pending'  BY <1>3
    <3>3. CASE s \notin active  BY <3>1, <3>2, <3>3
    <3>4. CASE s \in active
      <4>1. s = t /\ last  BY <1>2, <1>5, <2>4, <3>1, <3>4
      <4>2. x \in pending' /\ x[1] = s  BY <1>3, <4>1
      <4> QED  BY <4>2 DEF Owed
    <3> QED  BY <3>3, <3>4
  <2>5. TypeOK /\ SenderInv  OBVIOUS
  <2> HIDE DEF TransferInv, SenderInv, OnceInv
  <2> QED  BY <1>5, <2>1, <2>2, <2>3, <2>4, <2>5, SenderStep
<1>10. \A m \in Link : EndsIn(toR[m], x) = {}
  BY <1>1 DEF Ends
<1>11. delivered[x] = 0  BY <1>1 DEF Handed
<1>12. Ends'
  <2> SUFFICES ASSUME NEW y \in Transfer, NEW k \in Link, NEW i \in EndsIn(toR'[k], y)
               PROVE  /\ pc'[y] = "ok" /\ delivered[y] = 0
                      /\ \A m \in Link : \A j \in EndsIn(toR'[m], y) : k = m /\ i = j
    BY DEF Ends, EndsIn
  <2>1. CASE y # x
    <3>1. \A m \in Link : EndsIn(toR'[m], y) \subseteq EndsIn(toR[m], y)  BY <1>4, <2>1
    <3> QED  BY <1>8, <3>1 DEF Ends
  <2>2. CASE y = x
    <3>1. last  BY <1>4, <1>10, <2>2
    <3>2. PICK p : \A m \in Link : \A j \in EndsIn(toR'[m], x) :
                     j \in EndsIn(toR[m], x) \/ (m = l /\ j = p)
      BY <1>4 DEF OneEndMore
    <3>3. pc'[x] = "ok"  BY <1>6, <3>1 DEF end_
    <3>4. \A m \in Link : \A j \in EndsIn(toR'[m], x) : m = l /\ j = p
      BY <1>10, <3>2
    <3> QED  BY <1>11, <2>2, <3>3, <3>4
  <2> QED  BY <2>1, <2>2
<1>13. Handed'  BY <1>8 DEF Handed
<1>14. Files'  BY <1>8, FilesSame
<1> QED  BY <1>4, <1>5, <1>6, <1>7, <1>9, <1>12, <1>13, <1>14

LEMMA SameList ==
  ASSUME TransferInv, UNCHANGED <<entry, sEnd>>
  PROVE  Relisted({})
BY DEF TransferInv, TypeOK, SenderInv, ListedOpen, ActiveExact, Relisted

LEMMA ChunkOK ==
  ASSUME TransferInv, NEW x \in Transfer, Chunk(x)
  PROVE  TransferInv'
<1> DEFINE notes == <<FileChunk(x, next[x])>>
           n == next[x] + 1
<1>1. /\ Running(x) /\ Proceed(x, notes, n)
      /\ UNCHANGED <<rounds, before, on, tries, entry, said, links, toS, receiver, upsets>>
  BY DEF Chunk, Running
<1>2. next[x] \in Nat  BY DEF TransferInv, TypeOK
<1>3. ChunkOrNone(notes, x) /\ n \in Nat  BY <1>2 DEF ChunkOrNone
<1> HIDE DEF notes, n
<1>4. Relisted({}) /\ delivered' = delivered  BY <1>1, SameList DEF links, receiver
<1>5. /\ next' \in [Transfer -> Nat] /\ pc' \in [Transfer -> Stand]
      /\ active' \subseteq Target /\ sending' \in [Target -> BOOLEAN]
      /\ pending' \subseteq AckId /\ lost' \subseteq Transfer /\ robbed' \subseteq Transfer
      /\ toR' \in [Link -> Seq(Wire)]
      /\ \A m \in Link : toR'[m] \in Seq(Fit(m, "message"))
      /\ SenderInv' /\ OnceInv'
  BY <1>1, <1>3, <1>4, ProceedOK
<1>6. TypeOK'
  BY <1>1, <1>5 DEF TransferInv, TypeOK, Stand, links, receiver
<1>7. Fits'  BY <1>1, <1>5 DEF TransferInv, Fits, receiver
<1> QED  BY <1>5, <1>6, <1>7 DEF TransferInv

\* An answer settles an entry, or does not find it.
LEMMA SettleOK ==
  ASSUME TypeOK, SenderInv, NEW id \in AckId, Settle(id), Relisted({}),
         UNCHANGED <<rounds, on, pc, active, robbed>>
  PROVE  /\ pending' \subseteq AckId /\ sending' \in [Target -> BOOLEAN]
         /\ SenderInv'
<1> USE DEF SenderInv
<1>1. pending' = pending \ {id}
      /\ sending' = [t \in Target |-> sending[t] /\ ~(id \in pending /\ t = id[1])]
  BY DEF Settle
<1>2. \A t \in Target : sending'[t] => sending[t] /\ ~(id \in pending /\ t = id[1])
  BY <1>1
<1>3. pending' \subseteq AckId /\ sending' \in [Target -> BOOLEAN]
  BY <1>1 DEF TypeOK
<1>4. \A t \in active' : entry'[t] # None  BY DEF Relisted
<1>5. \A t \in Target : sending'[t] =>
        sending[t] /\ \A other \in pending : other[1] = t => other \in pending'
  BY <1>1, <1>2
<1>6. ListedOpen'  BY DEF Relisted
<1>7. SenderInv'  BY <1>4, <1>5, <1>6, SenderStep DEF Running, ActiveExact
<1> QED  BY <1>3, <1>7

LEMMA AckTimeoutOK ==
  ASSUME TransferInv, NEW id \in AckId, AckTimeout(id)
  PROVE  TransferInv'
<1> USE DEF TransferInv
<1>1. /\ Settle(id)
      /\ UNCHANGED <<transfer, active, entry, said, links, wires, receiver, lost, robbed,
                     upsets>>
  BY DEF AckTimeout
<1>2. Relisted({})  BY <1>1, SameList DEF links
<1>3. pending' \subseteq AckId /\ sending' \in [Target -> BOOLEAN] /\ SenderInv'
  BY <1>1, <1>2, SettleOK DEF transfer
<1>4. TypeOK'  BY <1>1, <1>3 DEF TypeOK, transfer, links, wires, receiver
<1>5. OnceInv'  BY <1>1, OnceSame DEF transfer, wires, receiver, Running
<1>6. Fits'  BY <1>1, FitsSame DEF receiver
<1> QED  BY <1>3, <1>4, <1>5, <1>6

LEMMA RecvSOK ==
  ASSUME TransferInv, NEW l \in Link, RecvS(l)
  PROVE  TransferInv'
<1> DEFINE t == l[1]
           m == Head(toS[l])
           id == m.id
<1> USE DEF TransferInv
<1>1. /\ toS[l] # <<>> /\ sEnd[l] = "open"
      /\ toS' = [toS EXCEPT ![l] = Tail(@)]
      /\ entry' = [entry EXCEPT ![t] = l[2]]
      /\ \/ /\ m.type = "file-start-ack"
            /\ \/ pc[id] = "start" /\ Proceed(id, <<>>, 0)
               \/ /\ pc[id] # "start"
                  /\ UNCHANGED <<pc, next, active, sending, pending, toR, lost, robbed>>
         \/ m.type = "ack" /\ Settle(id) /\ UNCHANGED <<pc, next, active, toR, lost, robbed>>
      /\ UNCHANGED <<rounds, before, on, tries, said, links, receiver, upsets>>
  BY DEF RecvS
<1>2. /\ t \in Target /\ l[2] \in Conn /\ l = <<t, l[2]>>
      /\ \A k \in Link : k[1] \in Target /\ k[2] \in Conn /\ k = <<k[1], k[2]>>
  BY DEF Link
<1>3. /\ m \in Fit(l, "ack") /\ toS' \in [Link -> Seq(Wire)]
      /\ \A k \in Link : toS'[k] \in Seq(Fit(k, "ack"))
  <2>1. toS \in [Link -> Seq(Wire)] /\ toS[l] \in Seq(Fit(l, "ack"))
    BY DEF TypeOK, Fits
  <2>2. /\ Head(toS[l]) \in Fit(l, "ack") /\ Tail(toS[l]) \in Seq(Fit(l, "ack"))
        /\ Tail(toS[l]) \in Seq(Wire)
    BY <1>1, <2>1, HeadTailProperties
  <2> QED  BY <1>1, <2>1, <2>2 DEF Fits
<1>4. /\ id \in AckId
      /\ m.type = "file-start-ack" => id \in Transfer /\ id[1] = t
  BY <1>3 DEF Fit, Wire
<1> HIDE DEF m, id
<1>5. Relisted({})
  <2>1. \A s \in Target : entry'[s] = IF s = t THEN l[2] ELSE entry[s]
    BY <1>1, <1>2 DEF TypeOK
  <2>2. sEnd' = sEnd /\ entry' \in [Target -> Conn \cup {None, Bare}]
    BY <1>1, <1>2 DEF TypeOK, links
  <2>3. ListedOpen'  BY <1>1, <1>2, <2>1, <2>2 DEF SenderInv, ListedOpen
  <2>4. \A s \in active : entry'[s] # None
    BY <1>2, <2>1, ConnAssumption DEF SenderInv, ActiveExact, ConnAssumption, TypeOK
  <2> QED  BY <2>2, <2>3, <2>4 DEF Relisted
<1>6. /\ next' \in [Transfer -> Nat] /\ pc' \in [Transfer -> Stand]
      /\ active' \subseteq Target /\ sending' \in [Target -> BOOLEAN]
      /\ pending' \subseteq AckId /\ lost' \subseteq Transfer /\ robbed' \subseteq Transfer
      /\ toR' \in [Link -> Seq(Wire)]
      /\ \A k \in Link : toR'[k] \in Seq(Fit(k, "message"))
      /\ SenderInv' /\ OnceInv'
  <2>1. CASE m.type = "file-start-ack" /\ pc[id] = "start" /\ Proceed(id, <<>>, 0)
    <3>1. id \in Transfer /\ Running(id)  BY <1>4, <2>1 DEF Running
    <3>2. ChunkOrNone(<<>>, id) /\ 0 \in Nat  BY DEF ChunkOrNone
    <3>3. delivered' = delivered  BY <1>1 DEF receiver
    <3> QED  BY <1>1, <1>5, <2>1, <3>1, <3>2, <3>3, ProceedOK
  <2>2. CASE UNCHANGED <<pc, next, active, sending, pending, toR, lost, robbed>>
    <3>1. SenderInv'  BY <1>1, <1>5, <2>2, NothingCancelled, CancelSender
    <3>2. OnceInv'  BY <1>1, <2>2, OnceSame DEF receiver, Running
    <3> QED  BY <2>2, <3>1, <3>2 DEF TypeOK, Stand, Fits
  <2>3. CASE Settle(id) /\ UNCHANGED <<pc, next, active, toR, lost, robbed>>
    <3>1. pending' \subseteq AckId /\ sending' \in [Target -> BOOLEAN] /\ SenderInv'
      BY <1>1, <1>4, <1>5, <2>3, SettleOK
    <3>2. OnceInv'  BY <1>1, <2>3, OnceSame DEF receiver, Running
    <3>3. next' = next  BY <2>3
    <3> QED  BY <2>3, <3>1, <3>2, <3>3 DEF TypeOK, Stand, Fits
  <2> QED  BY <1>1, <2>1, <2>2, <2>3
<1>7. TypeOK'
  BY <1>1, <1>3, <1>5, <1>6 DEF TypeOK, Relisted, Stand, links, receiver
<1>8. Fits'  BY <1>1, <1>3, <1>6 DEF Fits, receiver
<1> QED  BY <1>6, <1>7, <1>8

\* Several links get one message each, none of them a file-end.
LEMMA BroadcastIs ==
  ASSUME TypeOK, Fits, NEW to \in SUBSET Link, NEW w, \A l \in to : w[l] \in Fit(l, "message"),
         \A l \in to : w[l].type # "file-end",
         toR' = [l \in Link |-> IF l \in to THEN Append(toR[l], w[l]) ELSE toR[l]]
  PROVE  /\ toR' \in [Link -> Seq(Wire)]
         /\ \A l \in Link : toR'[l] \in Seq(Fit(l, "message"))
         /\ \A l \in Link : \A x \in Transfer : EndsIn(toR'[l], x) \subseteq EndsIn(toR[l], x)
<1> SUFFICES ASSUME NEW l \in Link
             PROVE  /\ toR'[l] \in Seq(Wire) /\ toR'[l] \in Seq(Fit(l, "message"))
                    /\ \A x \in Transfer : EndsIn(toR'[l], x) \subseteq EndsIn(toR[l], x)
  OBVIOUS
<1>1. toR[l] \in Seq(Wire) /\ toR[l] \in Seq(Fit(l, "message"))  BY DEF TypeOK, Fits
<1>2. CASE l \notin to  BY <1>1, <1>2
<1>3. CASE l \in to
  <2> DEFINE v == w[l]
             r == Append(toR[l], v)
  <2>1. v \in Fit(l, "message") /\ v \in Wire /\ v.type # "file-end"  BY <1>3 DEF Fit
  <2>2. r \in Seq(Wire) /\ r \in Seq(Fit(l, "message"))  BY <1>1, <2>1, QueueAppend
  <2>3. \A x : EndsIn(r, x) = EndsIn(toR[l], x) \cup
          (IF v.type = "file-end" /\ v.id = x THEN {Len(toR[l]) + 1} ELSE {})
    BY <1>1, <2>1, AppendEnds
  <2>4. toR'[l] = r  BY <1>3
  <2> HIDE DEF r, v
  <2> QED  BY <2>1, <2>2, <2>3, <2>4
<1> QED  BY <1>2, <1>3

LEMMA SendMessageOK ==
  ASSUME TransferInv, NEW m \in Message, NEW key \in [Target -> Target], SendMessage(m, key)
  PROVE  TransferInv'
<1> DEFINE to == {l \in Link : l[1] \in Ready /\ entry[l[1]] = l[2] /\ Arrives(l)}
           w == [l \in Link |-> Note("message", <<key[l[1]], m>>)]
<1> USE DEF TransferInv
<1>1. /\ said' = said \cup {m} /\ pending' = pending \cup {<<key[t], m>> : t \in Ready}
      /\ UNCHANGED <<transfer, active, sending, entry, links, toS, receiver, lost, robbed,
                     upsets>>
  BY DEF SendMessage
<1>2. toR' = [l \in Link |-> IF l \in to THEN Append(toR[l], w[l]) ELSE toR[l]]
  BY DEF SendMessage
<1>3. \A l \in Link : l[1] \in Target  BY DEF Link
<1>4. \A l \in to : w[l] \in Fit(l, "message") /\ w[l].type # "file-end"
  BY <1>3 DEF Note, Fit, Wire, AckId, MessageType
<1>5. to \in SUBSET Link  OBVIOUS
<1> HIDE DEF to, w
<1>6. /\ toR' \in [Link -> Seq(Wire)]
      /\ \A l \in Link : toR'[l] \in Seq(Fit(l, "message"))
      /\ \A l \in Link : \A x \in Transfer : EndsIn(toR'[l], x) \subseteq EndsIn(toR[l], x)
  BY <1>2, <1>4, <1>5, BroadcastIs
<1>7. pending' \subseteq AckId /\ pending \subseteq pending'
  BY <1>1 DEF Ready, AckId, TypeOK
<1>8. TypeOK'  BY <1>1, <1>6, <1>7 DEF TypeOK, transfer, links, receiver
<1>9. SenderInv'
  <2>1. Begun' /\ ListedOpen'
    BY <1>1 DEF SenderInv, Begun, Running, ListedOpen, transfer, links
  <2>2. ActiveExact'  BY <1>1 DEF SenderInv, ActiveExact, LastTo, Running, transfer
  <2>3. Held'  BY <1>1, <1>7 DEF SenderInv, Held, Owed, transfer
  <2> QED  BY <2>1, <2>2, <2>3 DEF SenderInv
<1>10. OnceInv'  BY <1>1, <1>6, OnceSame DEF transfer, receiver, Running
<1>11. Fits'  BY <1>1, <1>6 DEF Fits, receiver
<1> QED  BY <1>8, <1>9, <1>10, <1>11

\* What is offered is a new file, or this panel's last one, of which no transfer has
\* succeeded or runs.
LEMMA OfferedIs ==
  ASSUME TransferInv, NEW f \in Offered, Fresh \in Round,
         \A x \in Transfer : Running(x) => x[2] <= before
  PROVE  /\ f \in Call /\ f.file <= Fresh /\ Len(rounds) \in Nat
         /\ \A j \in 1..Len(rounds) : rounds[j].file = f.file =>
              /\ ~(j <= before)
              /\ \A t \in Target : ~Running(<<t, j>>) /\ pc[<<t, j>>] # "ok"
<1> USE DEF TransferInv, OnceInv
<1>1. /\ Len(rounds) \in Nat /\ before \in 0..Len(rounds)
      /\ \A j \in 1..Len(rounds) : rounds[j] \in Call /\ rounds[j].file <= j
      /\ \A t \in Target : \A j \in 1..Len(rounds) : <<t, j>> \in Transfer
  BY CallIsTransfer DEF Files, TypeOK
<1>2. \A j \in 1..Len(rounds) : rounds[j].file \in Nat  BY <1>1 DEF Call, Round
<1>3. CASE f \in [file : {Fresh}, chunks : Sizes]
  <2>1. f.file = Fresh /\ f \in Call  BY <1>3 DEF Call
  <2> QED  BY <1>1, <1>2, <2>1 DEF Fresh
<1>4. CASE f \notin [file : {Fresh}, chunks : Sizes]
  <2>1. /\ Len(rounds) # before /\ f = rounds[Len(rounds)]
        /\ \A t \in Target : pc[<<t, Len(rounds)>>] # "ok"
    BY <1>4 DEF Offered
  <2>2. Len(rounds) \in 1..Len(rounds) /\ ~(Len(rounds) <= before)  BY <1>1, <2>1
  <2>3. f \in Call /\ f.file <= Fresh  BY <1>1, <1>2, <2>1, <2>2 DEF Fresh
  <2>4. ASSUME NEW j \in 1..Len(rounds), rounds[j].file = f.file
        PROVE  ~(j <= before) /\ \A t \in Target : ~Running(<<t, j>>) /\ pc[<<t, j>>] # "ok"
    <3>1. ~(j <= before)
      <4>1. CASE j = Len(rounds)  BY <2>2, <4>1
      <4>2. CASE j # Len(rounds)  BY <1>1, <2>1, <2>2, <2>4, <4>2 DEF Files
      <4> QED  BY <4>1, <4>2
    <3>2. \A t \in Target : ~Running(<<t, j>>)  BY <1>1, <3>1
    <3>3. CASE j = Len(rounds)  BY <2>1, <3>1, <3>2, <3>3
    <3>4. CASE j # Len(rounds)  BY <1>1, <2>1, <2>2, <2>4, <3>1, <3>4 DEF Files
    <3> QED  BY <3>3, <3>4
  <2> QED  BY <1>1, <2>3, <2>4
<1> QED  BY <1>3, <1>4

LEMMA StartOK ==
  ASSUME TransferInv, NEW f \in Offered, Start(f)
  PROVE  TransferInv'
<1> DEFINE to == {l \in Link : l[1] \in Ready /\ entry[l[1]] = l[2] /\ Arrives(l)}
           w == [l \in Link |-> Note("file-start", <<l[1], Fresh>>)]
           began == Ready \X {Fresh}
<1> USE DEF TransferInv
<1>1. /\ \A x \in Transfer : Running(x) => x[2] <= before
      /\ Fresh \in Round
      /\ rounds' = Append(rounds, f)
      /\ pc' = [x \in Transfer |-> IF x \in began THEN "start" ELSE pc[x]]
      /\ on' = [x \in Transfer |-> IF x \in began THEN entry[x[1]] ELSE on[x]]
      /\ tries' = [x \in Transfer |-> IF x \in began THEN 1 ELSE tries[x]]
      /\ active' = active \cup Ready
      /\ sending' = [t \in Target |-> sending[t] \/ t \in Ready]
      /\ UNCHANGED <<before, next, entry, pending, said, links, toS, receiver, lost, robbed,
                     upsets>>
  BY DEF Start
<1>2. toR' = [l \in Link |-> IF l \in to THEN Append(toR[l], w[l]) ELSE toR[l]]
  BY DEF Start
<1>3. \A l \in Link : l[1] \in Target  BY DEF Link
<1>4. \A l \in to : w[l] \in Fit(l, "message") /\ w[l].type # "file-end"
  BY <1>1, <1>3 DEF Note, Fit, Wire, AckId, MessageType, Transfer
<1>5. to \in SUBSET Link  OBVIOUS
<1> HIDE DEF to, w
<1>6. /\ toR' \in [Link -> Seq(Wire)]
      /\ \A l \in Link : toR'[l] \in Seq(Fit(l, "message"))
      /\ \A l \in Link : \A x \in Transfer : EndsIn(toR'[l], x) \subseteq EndsIn(toR[l], x)
  BY <1>2, <1>4, <1>5, BroadcastIs
<1>7. /\ f \in Call /\ f.file <= Fresh /\ Len(rounds) \in Nat
      /\ \A j \in 1..Len(rounds) : rounds[j].file = f.file =>
           /\ ~(j <= before)
           /\ \A t \in Target : ~Running(<<t, j>>) /\ pc[<<t, j>>] # "ok"
      /\ before \in 0..Len(rounds)
  BY <1>1, OfferedIs DEF TypeOK
<1>8. /\ rounds' \in Seq(Call) /\ Len(rounds') = Fresh /\ Len(rounds)' = Fresh
      /\ rounds'[Fresh] = f /\ \A j \in 1..Len(rounds) : rounds'[j] = rounds[j]
      /\ rounds' # <<>> /\ Fresh <= MaxRounds
  <2>1. rounds \in Seq(Call)  BY DEF TypeOK, Call
  <2>2. Append(rounds, f) # <<>>
    <3>1. Len(Append(rounds, f)) = Len(rounds) + 1  BY <1>7, <2>1, QueueAppend
    <3>2. Len(<<>>) = 0  BY EmptySeq
    <3>3. Len(Append(rounds, f)) # 0  BY <1>7, <3>1
    <3> QED  BY <3>2, <3>3, Zenon
  <2> QED  BY <1>1, <1>7, <2>1, <2>2, QueueAppend, BoundAssumption
       DEF Fresh, Round, BoundAssumption
<1>9. Ready \subseteq Target /\ \A t \in Ready : entry[t] \in Conn
  BY DEF Ready
<1>10. began \subseteq Transfer /\ \A x \in Transfer : x \in began => pc[x] = "idle"
  <2>1. began \subseteq Transfer /\ \A x \in began : x[2] = Fresh
    BY <1>1, <1>9 DEF Transfer
  <2> QED  BY <1>7, <2>1 DEF SenderInv, Begun, Fresh
<1>11. TypeOK'
  <2>1. rounds' \in Seq([file : Round, chunks : Sizes]) /\ Len(rounds') <= MaxRounds
        /\ before' \in 0..Len(rounds')
    BY <1>1, <1>7, <1>8 DEF Call, Fresh
  <2>2. pc' \in [Transfer -> {"idle", "start", "chunk", "cut", "stranded", "ok"}]
    BY <1>1 DEF TypeOK
  <2>3. on' \in [Transfer -> Conn \cup {None}] /\ tries' \in [Transfer -> 0..MaxAttempts]
    BY <1>1, <1>9, BoundAssumption DEF TypeOK, BoundAssumption
  <2>4. active' \subseteq Target /\ sending' \in [Target -> BOOLEAN]
    BY <1>1, <1>9 DEF TypeOK
  <2> QED  BY <1>1, <1>6, <2>1, <2>2, <2>3, <2>4 DEF TypeOK, links, receiver
<1>12. \A x \in Transfer : /\ pc'[x] = IF x \in began THEN "start" ELSE pc[x]
                           /\ x \in began <=> x[1] \in Ready /\ x[2] = Fresh
  BY <1>1 DEF Transfer
<1>13. \A t \in Target : t \in Ready => <<t, Fresh>> \in Transfer /\ <<t, Fresh>> \in began
  BY <1>1 DEF Transfer
<1>14. SenderInv'
  <2> USE DEF SenderInv
  <2>1. Begun'
    <3> SUFFICES ASSUME NEW x \in Transfer
                 PROVE  /\ Running(x)' => on'[x] \in Conn
                        /\ x[2] > Fresh => pc'[x] = "idle"
      BY <1>8 DEF Begun
    <3>1. x[1] \in Target /\ x[2] \in Nat  BY DEF Transfer, Round
    <3>2. CASE x \in began
      <4>1. on'[x] = entry[x[1]] /\ x[1] \in Ready /\ x[2] = Fresh  BY <1>1, <1>12, <3>2
      <4>2. Fresh \in Nat  BY <3>1, <4>1
      <4> QED  BY <1>9, <4>1, <4>2
    <3>3. CASE x \notin began
      <4>1. pc'[x] = pc[x] /\ on'[x] = on[x]  BY <1>1, <1>12, <3>3
      <4>2. x[2] > Fresh => x[2] > Len(rounds)  BY <1>7, <3>1 DEF Fresh
      <4> QED  BY <4>1, <4>2 DEF Running, Begun
    <3> QED  BY <3>2, <3>3
  <2>2. ListedOpen'  BY <1>1 DEF ListedOpen, links
  <2>3. ActiveExact'
    <3>1. ASSUME NEW t \in active'  PROVE entry'[t] # None /\ \E x \in LastTo(t)' : Running(x)'
      <4>1. CASE t \in Ready
        <5>1. t \in Target /\ entry'[t] # None
          BY <1>1, <1>9, <4>1, ConnAssumption DEF ConnAssumption
        <5>2. <<t, Fresh>> \in Transfer /\ pc'[<<t, Fresh>>] = "start"
          BY <1>12, <1>13, <4>1, <5>1
        <5>3. ASSUME NEW k \in Round, k > Fresh  PROVE pc'[<<t, k>>] = "idle"
          <6>1. <<t, k>> \in Transfer /\ k > Len(rounds) /\ k # Fresh
            BY <1>7, <5>1, <5>3 DEF Transfer, Round, Fresh
          <6>2. <<t, k>> \notin began  BY <1>12, <6>1
          <6> QED  BY <1>12, <6>1, <6>2 DEF Begun
        <5>4. <<t, Fresh>> \in LastTo(t)'  BY <1>1, <5>2, <5>3 DEF LastTo
        <5> QED  BY <5>1, <5>2, <5>4 DEF Running
      <4>2. CASE t \notin Ready
        <5>1. t \in active /\ t \in Target  BY <1>1, <3>1, <4>2 DEF TypeOK
        <5>2. \A k \in Round : pc'[<<t, k>>] = pc[<<t, k>>]
          BY <1>12, <4>2, <5>1 DEF Transfer
        <5>3. PICK x \in LastTo(t) : Running(x)  BY <5>1 DEF ActiveExact
        <5>4. x \in LastTo(t)' /\ Running(x)'
          BY <5>2, <5>3 DEF LastTo, Running
        <5> QED  BY <1>1, <5>1, <5>4 DEF ActiveExact
      <4> QED  BY <4>1, <4>2
    <3>2. ASSUME NEW x \in Transfer, pc'[x] = "start"  PROVE x[1] \in active' \/ x \in robbed'
      BY <1>1, <1>12, <3>2 DEF ActiveExact
    <3> QED  BY <3>1, <3>2 DEF ActiveExact
  <2>4. Held'
    <3> SUFFICES ASSUME NEW t \in Target, sending'[t], t \notin active'  PROVE Owed(t)'
      BY DEF Held
    <3>1. t \notin Ready /\ sending[t] /\ t \notin active  BY <1>1
    <3>2. \A k \in Round : pc'[<<t, k>>] = pc[<<t, k>>]  BY <1>12, <3>1 DEF Transfer
    <3> QED  BY <1>1, <3>1, <3>2 DEF Held, Owed
  <2> QED  BY <2>1, <2>2, <2>3, <2>4
<1>15. OnceInv'
  <2> USE DEF OnceInv
  <2>1. \A x \in Transfer : pc'[x] = "ok" <=> pc[x] = "ok"  BY <1>10, <1>12
  <2>2. delivered' = delivered  BY <1>1 DEF receiver
  <2>3. Ends'  BY <1>6, <2>1, <2>2, EndsSame
  <2>4. Handed'  BY <2>1, <2>2 DEF Handed
  <2>5. Files'
    <3> SUFFICES ASSUME NEW k \in 1..Fresh
                 PROVE  /\ rounds'[k].file <= k
                        /\ \A j \in 1..Fresh : j < k /\ rounds'[j].file = rounds'[k].file =>
                             /\ j <= before => k <= before
                             /\ \A t \in Target : ~Running(<<t, j>>)' /\ pc'[<<t, j>>] # "ok"
      BY <1>1, <1>8 DEF Files
    <3>1. \A j \in 1..Fresh : j < k => j \in 1..Len(rounds)  BY <1>7 DEF Fresh
    <3>2. ASSUME NEW j \in 1..Len(rounds), NEW t \in Target
          PROVE  pc'[<<t, j>>] = pc[<<t, j>>]
      <4>1. <<t, j>> \in Transfer /\ j # Fresh  BY <1>7, CallIsTransfer DEF Fresh
      <4>2. <<t, j>> \notin began  BY <1>12, <4>1
      <4> QED  BY <1>12, <4>1, <4>2
    <3>3. CASE k = Fresh  BY <1>7, <1>8, <3>1, <3>2, <3>3 DEF Running
    <3>4. CASE k # Fresh
      <4>1. k \in 1..Len(rounds)  BY <1>7, <3>4 DEF Fresh
      <4> QED  BY <1>8, <3>1, <3>2, <4>1 DEF Files, Running
    <3> QED  BY <3>3, <3>4
  <2> QED  BY <2>3, <2>4, <2>5
<1>16. Fits'  BY <1>1, <1>6 DEF Fits, receiver
<1> QED  BY <1>11, <1>14, <1>15, <1>16

LEMMA RemountOK ==
  ASSUME TransferInv, Remount
  PROVE  TransferInv'
<1> USE DEF TransferInv
<1>1. /\ before' = Len(rounds)
      /\ UNCHANGED <<rounds, on, next, tries, pc, list, links, wires, receiver, upsets, lost,
                     robbed>>
  BY DEF Remount
<1>2. Len(rounds) \in Nat  BY CallIsTransfer
<1>3. TypeOK'  BY <1>1, <1>2 DEF TypeOK, list, links, wires, receiver
<1>4. SenderInv'  BY <1>1, SenderSame DEF list, links
<1>5. Fits'  BY <1>1, FitsSame DEF receiver
<1>6. OnceInv'
  <2>1. Ends' /\ Handed'
    BY <1>1, EndsSame DEF OnceInv, Handed, wires, receiver
  <2>2. Files'  BY <1>1, <1>2 DEF OnceInv, Files, Running
  <2> QED  BY <2>1, <2>2 DEF OnceInv
<1> QED  BY <1>3, <1>4, <1>5, <1>6

-----------------------------------------------------------------------------
(* Every step keeps the invariant *)

LEMMA TransferNextOK == TransferInv /\ [Next]_vars => TransferInv'
<1> SUFFICES ASSUME TransferInv, [Next]_vars  PROVE TransferInv'
  OBVIOUS
<1>1. ASSUME NEW f \in Offered, Start(f)  PROVE TransferInv'
  BY <1>1, StartOK
<1>2. ASSUME NEW x \in Transfer, StartTimeout(x)  PROVE TransferInv'
  BY <1>2, StartTimeoutOK
<1>3. ASSUME NEW x \in Transfer, Chunk(x)  PROVE TransferInv'
  BY <1>3, ChunkOK
<1>4. ASSUME NEW x \in Transfer, ReadError(x)  PROVE TransferInv'
  BY <1>4, ReadErrorOK
<1>5. ASSUME NEW l \in Link, RecvS(l)  PROVE TransferInv'
  BY <1>5, RecvSOK
<1>6. ASSUME NEW id \in AckId, AckTimeout(id)  PROVE TransferInv'
  BY <1>6, AckTimeoutOK
<1>7. ASSUME NEW m \in Message, NEW key \in [Target -> Target], SendMessage(m, key)
      PROVE  TransferInv'
  BY <1>7, SendMessageOK
<1>8. ASSUME NEW l \in Link, OpenS(l)  PROVE TransferInv'
  BY <1>8, OpenSOK
<1>9. ASSUME NEW l \in Link, CloseS(l)  PROVE TransferInv'
  BY <1>9, CloseSOK
<1>10. ASSUME NEW t \in Target, AddS(t)  PROVE TransferInv'
  BY <1>10, AddSOK
<1>11. ASSUME NEW t \in Target, RemoveS(t)  PROVE TransferInv'
  BY <1>11, RemoveSOK
<1>12. ASSUME NEW wanted \in SUBSET Target, JoinSuccessS(wanted)  PROVE TransferInv'
  BY <1>12, JoinSuccessSOK
<1>13. CASE LeaveS  BY <1>13, LeaveSOK
<1>14. CASE DetachS  BY <1>14, DetachSOK
<1>15. ASSUME NEW l \in Link, OpenR(l)  PROVE TransferInv'
  BY <1>15, OpenROK
<1>16. ASSUME NEW l \in Link, CloseR(l)  PROVE TransferInv'
  BY <1>16, CloseROK
<1>17. ASSUME NEW t \in Target, DetachR(t)  PROVE TransferInv'
  BY <1>17, DetachROK
<1>18. ASSUME NEW t \in Target, ReceiveTimeout(t)  PROVE TransferInv'
  BY <1>18, ReceiveTimeoutOK
<1>19. ASSUME NEW l \in Link, RecvR(l)  PROVE TransferInv'
  BY <1>19, RecvROK
<1>20. CASE UNCHANGED vars
  <2> USE <1>20 DEF vars, transfer, list, links, wires, receiver, TransferInv
  <2>1. TypeOK'  BY DEF TypeOK
  <2>2. SenderInv' /\ OnceInv' /\ Fits'  BY SenderSame, OnceSame, FitsSame DEF Running
  <2> QED  BY <2>1, <2>2
<1>21. CASE Remount  BY <1>21, RemountOK
<1> QED
  BY <1>1, <1>2, <1>3, <1>4, <1>5, <1>6, <1>7, <1>8, <1>9, <1>10, <1>11, <1>12, <1>13,
     <1>14, <1>15, <1>16, <1>17, <1>18, <1>19, <1>20, <1>21 DEF Next

LEMMA TransferAlways == Spec => []TransferInv
BY TransferInitOK, TransferNextOK, PTL DEF Spec

-----------------------------------------------------------------------------
(* Theorems *)

\* The state has its types, whatever is lost, repeated, closed and listed anew.
THEOREM TransferTyping == Spec => []TypeOK
BY TransferAlways, PTL DEF TransferInv

\* A peer's key in activeSendTransfers is that of a peer that is listed and to which the
\* transfer started last runs; a transfer that waits for its start-ack is held there,
\* unless the end of another one to the peer, of a panel that is gone, took the key.
THEOREM TransferActive == Spec => []ActiveExact
BY TransferAlways, PTL DEF TransferInv, SenderInv

\* A listed connection is open: a call never waits in waitForConnectionOpen.
THEOREM TransferListed == Spec => []ListedOpen
BY TransferAlways, PTL DEF TransferInv, SenderInv

\* isSending has a transfer or an entry of pendingAcks to explain it, in however many
\* calls that overlap.
THEOREM TransferSending == Spec => []SendingExplained
<1>1. TransferInv => SendingExplained
  <2> SUFFICES ASSUME TransferInv, NEW t \in Target, sending[t]
               PROVE  \/ \E k \in Round : pc[<<t, k>>] \in {"start", "chunk", "stranded"}
                      \/ \E id \in pending : id[1] = t
    BY DEF SendingExplained
  <2> USE DEF TransferInv, SenderInv
  <2>1. CASE t \in active
    <3>1. PICK x \in {t} \X Round : Running(x)  BY <2>1 DEF ActiveExact, LastTo
    <3> QED  BY <3>1 DEF Running
  <2>2. CASE t \notin active  BY <2>2 DEF Held, Owed
  <2> QED  BY <2>1, <2>2
<1> QED  BY <1>1, TransferAlways, PTL

\* A target is handed a file at most once, by a transfer that counts as a success, over
\* all calls that offered the file.
THEOREM TransferOnce == Spec => []DeliveredOnce
<1>1. TransferInv => DeliveredOnce
  <2> SUFFICES ASSUME TransferInv, NEW x \in Transfer, NEW y \in Transfer
               PROVE  /\ delivered[x] <= 1 /\ (delivered[x] = 1 => pc[x] = "ok")
                      /\ /\ delivered[x] = 1 /\ delivered[y] = 1 /\ x[1] = y[1]
                         /\ rounds[x[2]].file = rounds[y[2]].file
                         => x = y
    BY DEF DeliveredOnce
  <2> USE DEF TransferInv, OnceInv
  <2>1. delivered[x] <= 1 /\ (delivered[x] = 1 => pc[x] = "ok")  BY DEF Handed
  <2>2. ASSUME delivered[x] = 1, delivered[y] = 1, x[1] = y[1],
               rounds[x[2]].file = rounds[y[2]].file
        PROVE  x = y
    <3>1. pc[x] = "ok" /\ pc[y] = "ok"  BY <2>2 DEF Handed
    <3>2. /\ x = <<x[1], x[2]>> /\ y = <<y[1], y[2]>> /\ x[1] \in Target
          /\ x[2] \in Round /\ y[2] \in Round
      BY DEF Transfer
    <3>3. x[2] \in 1..Len(rounds) /\ y[2] \in 1..Len(rounds)
      <4>1. ~(x[2] > Len(rounds)) /\ ~(y[2] > Len(rounds))
        BY <3>1 DEF SenderInv, Begun
      <4> QED  BY <3>2, <4>1, CallIsTransfer DEF Round
    <3>4. ~(x[2] < y[2]) /\ ~(y[2] < x[2])  BY <2>2, <3>1, <3>2, <3>3 DEF Files
    <3> QED  BY <2>2, <3>2, <3>4 DEF Round
  <2> QED  BY <2>1, <2>2
<1> QED  BY <1>1, TransferAlways, PTL

\* While a transfer to a peer runs, isSending falls only with an answer or timeout that
\* settles an entry of the peer, when the peer is unlisted or loses its connection, or
\* when another transfer to it finds its own connection closed and cancels them both.
THEOREM TransferShown == Spec => ShownWhileSent
<1> DEFINE A == \A x \in Transfer :
             LET t == x[1] IN
             /\ Running(x) /\ Running(x)'
             /\ sending[t] /\ ~sending'[t]
             => \/ \E id \in pending \ pending' : id[1] = t
                \/ entry'[t] \in {None, Bare}
                \/ \E y \in Transfer : /\ y[1] = t /\ sEnd[At(y)] # "open"
                                       /\ Running(y) /\ pc'[y] = "cut"
<1>1. TransferInv /\ [Next]_vars => [A]_vars
  <2> SUFFICES ASSUME TransferInv, Next, NEW x \in Transfer,
                      Running(x), Running(x)', sending[x[1]], ~sending'[x[1]],
                      entry'[x[1]] \notin {None, Bare},
                      \A y \in Transfer : ~(/\ y[1] = x[1] /\ sEnd[At(y)] # "open"
                                            /\ Running(y) /\ pc'[y] = "cut"),
                      \A id \in pending \ pending' : id[1] # x[1]
               PROVE  FALSE
    OBVIOUS
  <2> DEFINE t == x[1]
  <2> USE DEF TransferInv
  <2>1. TypeOK /\ Begun /\ t \in Target  BY DEF SenderInv, Transfer
  <2>2. ASSUME NEW id \in AckId, Settle(id)  PROVE FALSE
    BY <2>1, <2>2 DEF Settle
  <2>3. ASSUME NEW y \in Transfer, Running(y), NEW notes, NEW n, Proceed(y, notes, n)
        PROVE  FALSE
    <3>1. /\ sEnd[At(y)] # "open" /\ sending' = [sending EXCEPT ![y[1]] = FALSE]
          /\ pc' = [Cancelled({y[1]}) EXCEPT ![y] = "cut"]
      BY <2>1, <2>3 DEF Proceed
    <3>2. y[1] = t  BY <2>1, <3>1 DEF TypeOK
    <3>3. pc'[y] = "cut"  BY <3>1 DEF Cancelled
    <3> QED  BY <2>3, <3>1, <3>2, <3>3
  <2>4. ASSUME NEW gone \in SUBSET Target, NEW come \in SUBSET Target,
               NEW ts \in SUBSET Target, Relist(gone, come, ts),
               t \in ts => t \in gone \/ (entry[t] = None /\ t \notin come)
        PROVE  FALSE
    <3>1. t \in gone \cup ts  BY <2>1, <2>4 DEF Relist
    <3>2. entry'[t] = None  BY <2>1, <2>4, <3>1 DEF Relist
    <3> QED  BY <3>2
  <2>5. ASSUME NEW f \in Offered, Start(f)  PROVE FALSE
    BY <2>1, <2>5 DEF Start
  <2>6. ASSUME NEW y \in Transfer, Chunk(y)  PROVE FALSE
    BY <2>3, <2>6 DEF Chunk, Running
  <2>7. ASSUME NEW l \in Link, RecvS(l)  PROVE FALSE
    <3>1. CASE Settle(Head(toS[l]).id)
      BY <2>1, <3>1 DEF Settle
    <3>2. CASE /\ Head(toS[l]).type = "file-start-ack" /\ pc[Head(toS[l]).id] = "start"
               /\ Proceed(Head(toS[l]).id, <<>>, 0) /\ toS[l] # <<>>
      <4>1. toS[l] \in Seq(Fit(l, "ack"))  BY DEF Fits
      <4>2. Head(toS[l]) \in Fit(l, "ack")  BY <3>2, <4>1, HeadTailProperties
      <4>3. Head(toS[l]).id \in Transfer  BY <3>2, <4>2 DEF Fit
      <4> QED  BY <2>3, <3>2, <4>3 DEF Running
    <3> QED  BY <2>7, <3>1, <3>2 DEF RecvS
  <2>8. ASSUME NEW l \in Link, CloseS(l)  PROVE FALSE
    <3>1. l[1] \in Target  BY DEF Link
    <3>2. entry' = [entry EXCEPT ![l[1]] = None] /\ Cancel({l[1]})
      BY <2>8 DEF CloseS, Unlisted
    <3>3. t = l[1]  BY <2>1, <3>2 DEF Cancel
    <3> QED  BY <2>1, <3>1, <3>2, <3>3 DEF TypeOK
  <2>9. ASSUME NEW s \in Target, RemoveS(s)  PROVE FALSE
    <3> DEFINE ts == IF \A r \in Target \ {s} : entry[r] = None THEN OrAll({s}) ELSE {s}
    <3>1. Relist({s}, {}, ts) /\ (t \in ts => t = s \/ entry[t] = None)
      BY <2>1, <2>9 DEF RemoveS
    <3>2. ts \in SUBSET Target  BY <2>1, OrAllIs
    <3> HIDE DEF ts
    <3> QED  BY <2>4, <3>1, <3>2
  <2>10. ASSUME NEW wanted \in SUBSET Target, JoinSuccessS(wanted)  PROVE FALSE
    BY <2>4, <2>10 DEF JoinSuccessS
  <2>11. CASE LeaveS
    <3>1. Relist(Target, {}, OrAll(Ready)) /\ OrAll(Ready) \in SUBSET Target
      BY <2>1, <2>11, OrAllIs DEF LeaveS, Ready
    <3> QED  BY <2>1, <2>4, <3>1
  <2>12. CASE DetachS
    <3>1. entry'[t] \in {None, Bare}  BY <2>1, <2>12 DEF DetachS
    <3> QED  BY <3>1
  <2>13. ASSUME NEW id \in AckId, AckTimeout(id)  PROVE FALSE
    BY <2>2, <2>13 DEF AckTimeout
  <2>14. UNCHANGED sending => FALSE  OBVIOUS
  <2>15. ~(\E y \in Transfer : StartTimeout(y))
    BY <2>14 DEF StartTimeout
  <2>16. ~(\E y \in Transfer : ReadError(y))
    BY <2>14 DEF ReadError
  <2>17. ~(\E s \in Target : AddS(s)) /\ ~(\E l \in Link : OpenS(l)) /\ ~Remount
    BY <2>14 DEF AddS, OpenS, Remount, list
  <2>18. /\ ~(\E s \in Target : DetachR(s)) /\ ~(\E s \in Target : ReceiveTimeout(s))
         /\ ~(\E l \in Link : OpenR(l)) /\ ~(\E l \in Link : CloseR(l))
         /\ ~(\E l \in Link : RecvR(l))
    BY <2>14 DEF DetachR, ReceiveTimeout, OpenR, CloseR, RecvR, list
  <2>19. ~(\E m \in Message, key \in [Target -> Target] : SendMessage(m, key))
    BY <2>14 DEF SendMessage
  <2>20. /\ ~(\E f \in Offered : Start(f)) /\ ~(\E y \in Transfer : Chunk(y))
         /\ ~(\E l \in Link : RecvS(l)) /\ ~(\E l \in Link : CloseS(l))
    BY <2>5, <2>6, <2>7, <2>8
  <2>21. /\ ~(\E s \in Target : RemoveS(s)) /\ ~LeaveS /\ ~DetachS
         /\ ~(\E wanted \in SUBSET Target : JoinSuccessS(wanted))
         /\ ~(\E id \in AckId : AckTimeout(id))
    BY <2>9, <2>10, <2>11, <2>12, <2>13
  <2>22. Next  OBVIOUS
  <2> HIDE DEF TransferInv
  <2> QED
    BY ONLY <2>15, <2>16, <2>17, <2>18, <2>19, <2>20, <2>21, <2>22 DEF Next
<1> QED  BY <1>1, TransferAlways, PTL DEF Spec, ShownWhileSent
=============================================================================
