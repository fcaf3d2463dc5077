------------------------- MODULE FileTransferTheorems -------------------------
(***************************************************************************)
(* FileTransfer, for all values of the constants: that it implements       *)
(* Delivery, and that no chunk is missing when a file-end is taken.        *)
(***************************************************************************)
EXTENDS FileTransferProofs, FiniteSetTheorems, WellFoundedInduction

-----------------------------------------------------------------------------
(***************************************************************************)
(* FileTransfer implements Delivery, for all values of the constants.      *)
(*                                                                         *)
(* A step that starts a call offers a file; a step that ends transfers     *)
(* ends them all with the same outcome, each as the last of its file to    *)
(* its target; taking a file-end hands a file over; every other step       *)
(* changes nothing that Delivery sees.                                     *)
(***************************************************************************)

-----------------------------------------------------------------------------
(* The greatest of a set of numbers *)

LEMMA LeastNatural ==
  ASSUME NEW S \in SUBSET Nat, S # {}
  PROVE  \E x \in S : \A y \in S : x <= y
<1> DEFINE R == {ss \in Nat \X Nat : ss[1] < ss[2]}
<1>1. IsWellFoundedOn(R, Nat)
  BY NatLessThanWellFounded DEF OpToRel
<1>2. \A x, y \in Nat : y < x => <<y, x>> \in R
  OBVIOUS
<1> HIDE DEF R
<1>3. PICK x \in S : \A y \in S : <<y, x>> \notin R
  BY <1>1, WFMin
<1>4. ASSUME NEW y \in S  PROVE x <= y
  <2>1. x \in Nat /\ y \in Nat  OBVIOUS
  <2>2. ~(y < x)  BY <1>2, <1>3, <2>1
  <2> QED  BY <2>1, <2>2
<1> QED  BY <1>4

LEMMA GreatestNatural ==
  ASSUME NEW n \in Nat, NEW S \in SUBSET (0..n), S # {}
  PROVE  Max(S) \in S /\ \A y \in S : y <= Max(S)
<1> DEFINE D == {n - x : x \in S}
<1>1. \A x \in S : x \in Nat /\ x <= n
  OBVIOUS
<1>2. D \in SUBSET Nat /\ D # {}
  <2>1. \A x \in S : n - x \in Nat  BY <1>1
  <2>2. PICK x \in S : TRUE  OBVIOUS
  <2>3. n - x \in D  OBVIOUS
  <2> QED  BY <2>1, <2>3
<1>3. PICK x \in S : \A y \in S : n - x <= n - y
  <2>1. PICK d \in D : \A e \in D : d <= e
    <3> HIDE DEF D
    <3> QED  BY <1>2, LeastNatural
  <2> QED  BY <2>1
<1>4. \E z \in S : \A y \in S : z >= y
  BY <1>1, <1>3
<1> QED  BY <1>1, <1>4 DEF Max

-----------------------------------------------------------------------------
(* What Delivery sees of a state *)

LEMMA CallsAre ==
  ASSUME TransferInv, NEW f, NEW t \in Target
  PROVE  /\ Len(rounds) \in Nat
         /\ CallsOf(f, t) \subseteq 1..Len(rounds)
         /\ \A k \in CallsOf(f, t) : <<t, k>> \in Transfer
         /\ CallsOf(f, t) # {} =>
              Max(CallsOf(f, t)) \in CallsOf(f, t)
              /\ \A k \in CallsOf(f, t) : k <= Max(CallsOf(f, t))
<1>1. Len(rounds) \in Nat /\ CallsOf(f, t) \subseteq 1..Len(rounds)
      /\ \A k \in CallsOf(f, t) : <<t, k>> \in Transfer
  BY CallIsTransfer DEF CallsOf, TransferInv
<1>2. CallsOf(f, t) \in SUBSET (0..Len(rounds))
  BY <1>1
<1> QED  BY <1>1, <1>2, GreatestNatural

\* The last call offered the last file.
LEMMA LastIs ==
  ASSUME TransferInv, rounds # <<>>
  PROVE  /\ Len(rounds) \in 1..Len(rounds) /\ Len(rounds) \in Round
         /\ LastFile \in Round /\ LastFile <= Len(rounds)
         /\ LastFile = rounds[Len(rounds)].file
<1>1. Len(rounds) \in Nat \ {0}
  BY EmptySeq DEF TypeOK, TransferInv
<1>2. Len(rounds) \in 1..Len(rounds)
  BY <1>1
<1>3. rounds[Len(rounds)] \in Call /\ Len(rounds) <= MaxRounds
  BY <1>2, CallIsTransfer DEF TransferInv
<1>4. rounds[Len(rounds)].file <= Len(rounds)
  BY <1>2 DEF TransferInv, OnceInv, Files
<1> QED  BY <1>1, <1>2, <1>3, <1>4, BoundAssumption DEF LastFile, Call, Round, BoundAssumption

\* A transfer that runs, or succeeded, is of the last call that offered its file.
LEMMA StandsLast ==
  ASSUME TransferInv, NEW x \in Transfer, pc[x] \in {"start", "chunk", "ok"}
  PROVE  /\ x[1] \in Target /\ x[2] \in 1..Len(rounds) /\ x = <<x[1], x[2]>>
         /\ rounds[x[2]].file \in Round
         /\ x[2] \in CallsOf(rounds[x[2]].file, x[1])
         /\ Max(CallsOf(rounds[x[2]].file, x[1])) = x[2]
         /\ OutcomeOf(rounds[x[2]].file, x[1]) = Standing(pc[x])
<1> DEFINE f == rounds[x[2]].file
           calls == CallsOf(f, x[1])
<1> USE DEF TransferInv
<1>1. x[1] \in Target /\ x[2] \in Round /\ x = <<x[1], x[2]>>
  BY DEF Transfer
<1>2. x[2] \in 1..Len(rounds)
  <2>1. ~(x[2] > Len(rounds))  BY DEF SenderInv, Begun
  <2> QED  BY <1>1, <2>1, CallIsTransfer DEF Round
<1>3. x[2] \in calls
  BY <1>1, <1>2 DEF CallsOf
<1>4. f \in Round
  BY <1>2, CallIsTransfer DEF Call
<1>5. ASSUME NEW k \in calls  PROVE k <= x[2]
  <2>1. k \in 1..Len(rounds) /\ rounds[k].file = f
    BY DEF CallsOf
  <2>2. ~(x[2] < k)
    BY <1>1, <1>2, <2>1 DEF OnceInv, Files, Running
  <2> QED  BY <1>2, <2>1, <2>2
<1>6. Max(calls) = x[2]
  <2>1. Max(calls) \in calls /\ x[2] <= Max(calls)
    BY <1>1, <1>3, CallsAre
  <2>2. Max(calls) <= x[2]  BY <1>5, <2>1
  <2>3. Max(calls) \in Nat /\ x[2] \in Nat
    BY <1>1, <1>2, <2>1, CallsAre
  <2> QED  BY <2>1, <2>2, <2>3
<1>7. OutcomeOf(f, x[1]) = Standing(pc[x])
  BY <1>1, <1>3, <1>6 DEF OutcomeOf
<1> QED  BY <1>1, <1>2, <1>3, <1>4, <1>6, <1>7

-----------------------------------------------------------------------------
(* Steps without a new call *)

\* The transfers in gone end with the outcome how.
Concludes(gone, how) ==
  /\ UNCHANGED rounds
  /\ \A x \in Transfer :
       \/ pc'[x] = pc[x] /\ x \notin gone
       \/ pc[x] = "start" /\ pc'[x] = "chunk" /\ x \notin gone
       \/ x \in gone /\ Running(x) /\ pc'[x] # "idle" /\ Standing(pc'[x]) = how

\* The files they were of, each with its target.
Sent(gone) == {<<rounds[x[2]].file, x[1]>> : x \in gone}

LEMMA ConcludesCalls ==
  ASSUME TransferInv, NEW gone \in SUBSET Transfer, NEW how, Concludes(gone, how)
  PROVE  /\ LastFile' = LastFile /\ CallsMade' = CallsMade
         /\ \A f \in Round, t \in Target : CallsOf(f, t)' = CallsOf(f, t)
<1>1. rounds' = rounds  BY DEF Concludes
<1>2. LastFile' = LastFile /\ CallsMade' = CallsMade
  BY <1>1 DEF LastFile, CallsMade, Tries
<1>3. ASSUME NEW f \in Round, NEW t \in Target  PROVE CallsOf(f, t)' = CallsOf(f, t)
  <2>1. \A k \in 1..Len(rounds) : <<t, k>> \in Transfer
    BY CallIsTransfer DEF TransferInv
  <2>2. \A k \in 1..Len(rounds) : pc'[<<t, k>>] # "idle" <=> pc[<<t, k>>] # "idle"
    BY <2>1 DEF Concludes, Running
  <2> QED  BY <1>1, <2>2 DEF CallsOf
<1> QED  BY <1>2, <1>3

\* A transfer that ends is the last one of its file to its target.
LEMMA GoneIs ==
  ASSUME TransferInv, NEW gone \in SUBSET Transfer, NEW how, Concludes(gone, how),
         NEW x \in gone
  PROVE  /\ x[1] \in Target /\ rounds[x[2]].file \in Round /\ x = <<x[1], x[2]>>
         /\ x[2] \in CallsOf(rounds[x[2]].file, x[1])
         /\ Max(CallsOf(rounds[x[2]].file, x[1])) = x[2]
         /\ OutcomeOf(rounds[x[2]].file, x[1]) = "going"
         /\ Standing(pc'[x]) = how
<1>1. Running(x) /\ x \in Transfer /\ Standing(pc'[x]) = how
  BY DEF Concludes
<1> QED  BY <1>1, StandsLast DEF Running, Standing

LEMMA ConcludesOutcomes ==
  ASSUME TransferInv, NEW gone \in SUBSET Transfer, NEW how, Concludes(gone, how),
         NEW f \in Round, NEW t \in Target
  PROVE  OutcomeOf(f, t)' = IF <<f, t>> \in Sent(gone) THEN how ELSE OutcomeOf(f, t)
<1> DEFINE k == Max(CallsOf(f, t))
<1>1. CallsOf(f, t)' = CallsOf(f, t)
  BY ConcludesCalls
<1>2. CASE <<f, t>> \in Sent(gone)
  <2>1. PICK x \in gone : f = rounds[x[2]].file /\ t = x[1]  BY <1>2 DEF Sent
  <2>2. CallsOf(f, t) # {} /\ k = x[2] /\ Standing(pc'[<<t, x[2]>>]) = how
    BY <2>1, GoneIs
  <2> QED  BY <1>1, <1>2, <2>2 DEF OutcomeOf
<1>3. CASE <<f, t>> \notin Sent(gone)
  <2>1. CASE CallsOf(f, t) = {}  BY <1>1, <1>3, <2>1 DEF OutcomeOf
  <2>2. CASE CallsOf(f, t) # {}
    <3>1. k \in CallsOf(f, t) /\ <<t, k>> \in Transfer /\ rounds[k].file = f
      BY <2>2, CallsAre DEF CallsOf
    <3>2. OutcomeOf(f, t) = Standing(pc[<<t, k>>]) /\ OutcomeOf(f, t)' = Standing(pc'[<<t, k>>])
      BY <1>1, <2>2 DEF OutcomeOf
    <3> HIDE DEF k
    <3>3. <<t, k>> \notin gone  BY <1>3, <3>1 DEF Sent
    <3>4. \/ pc'[<<t, k>>] = pc[<<t, k>>]
          \/ pc[<<t, k>>] = "start" /\ pc'[<<t, k>>] = "chunk"
      BY <3>1, <3>3 DEF Concludes
    <3> QED  BY <1>3, <3>2, <3>4 DEF Standing
  <2> QED  BY <2>1, <2>2
<1> QED  BY <1>2, <1>3

\* Such a step is one of Delivery's, or none that Delivery sees.
LEMMA ConcludesPromise ==
  ASSUME TransferInv, NEW gone \in SUBSET Transfer, NEW how \in {"sent", "failed"},
         Concludes(gone, how), UNCHANGED delivered,
         how = "sent" => \E x \in Transfer : gone = {x}
  PROVE  [Promise!Next]_(Promise!promise)
<1>1. /\ LastFile' = LastFile /\ CallsMade' = CallsMade
      /\ \A f \in Round, t \in Target : CallsOf(f, t)' = CallsOf(f, t)
  BY ConcludesCalls
<1>2. Copies' = Copies
  BY <1>1 DEF Copies, CopiesOf
<1>3. \A f \in Round, t \in Target :
        OutcomeOf(f, t)' = IF <<f, t>> \in Sent(gone) THEN how ELSE OutcomeOf(f, t)
  BY ConcludesOutcomes
<1>4. Sent(gone) \in SUBSET (Round \X Target)
      /\ \A c \in Sent(gone) : Outcomes[c[1]][c[2]] = "going"
  BY GoneIs DEF Sent, Outcomes
<1>5. CASE gone = {}
  <2>1. Outcomes' = Outcomes  BY <1>3, <1>5 DEF Outcomes, Sent
  <2> QED  BY <1>1, <1>2, <2>1 DEF Promise!promise
<1>6. CASE gone # {} /\ how = "failed"
  <2>1. Sent(gone) # {}  BY <1>6 DEF Sent
  <2>2. Outcomes' = [f \in Round |-> [t \in Target |->
          IF <<f, t>> \in Sent(gone) THEN "failed" ELSE Outcomes[f][t]]]
    BY <1>3, <1>6 DEF Outcomes
  <2>3. Promise!Fail(Sent(gone))
    BY <1>1, <1>2, <1>4, <2>1, <2>2 DEF Promise!Fail, Promise!File, Round
  <2> QED  BY <1>4, <2>3 DEF Promise!Next, Promise!File, Round
<1>7. CASE gone # {} /\ how = "sent"
  <2>1. PICK x \in Transfer : gone = {x}  BY <1>7
  <2>2. PICK f \in Round, t \in Target : f = rounds[x[2]].file /\ t = x[1]
    BY <2>1, GoneIs
  <2>3. Sent(gone) = {<<f, t>>}  BY <2>1, <2>2 DEF Sent
  <2>4. Outcomes' = [Outcomes EXCEPT ![f][t] = "sent"]
    BY <1>3, <1>7, <2>3 DEF Outcomes
  <2>5. Outcomes[f][t] = "going"  BY <1>4, <2>3
  <2>6. Promise!Succeed(f, t)
    BY <1>1, <1>2, <2>4, <2>5 DEF Promise!Succeed
  <2> QED  BY <2>6 DEF Promise!Next, Promise!File, Round
<1> QED  BY <1>5, <1>6, <1>7

-----------------------------------------------------------------------------
(* A new call *)

LEMMA StartSees ==
  ASSUME TransferInv, NEW f \in Offered, Start(f)
  PROVE  /\ Len(rounds) \in Nat /\ Fresh \in Round /\ Len(rounds') = Fresh
         /\ rounds' # <<>> /\ rounds'[Fresh] = f /\ f.file \in Round /\ LastFile' = f.file
         /\ \A k \in 1..Len(rounds) : rounds'[k] = rounds[k]
         /\ \A x \in Transfer :
              IF x[1] \in Ready /\ x[2] = Fresh
              THEN pc[x] = "idle" /\ pc'[x] = "start" ELSE pc'[x] = pc[x]
<1> USE DEF TransferInv
<1>1. /\ Fresh \in Round
      /\ rounds' = Append(rounds, f)
      /\ pc' = [x \in Transfer |-> IF x \in Ready \X {Fresh} THEN "start" ELSE pc[x]]
  BY DEF Start
<1>2. f \in Call /\ Len(rounds) \in Nat /\ rounds \in Seq(Call)
  <2>1. \A x \in Transfer : Running(x) => x[2] <= before  BY DEF Start
  <2> QED  BY <1>1, <2>1, OfferedIs DEF TypeOK, Call
<1>3. /\ Len(rounds') = Fresh /\ rounds'[Fresh] = f
      /\ \A k \in 1..Len(rounds) : rounds'[k] = rounds[k]
  BY <1>1, <1>2, QueueAppend DEF Fresh
<1>4. rounds' # <<>>
  <2>1. Len(<<>>) = 0 /\ Len(rounds') # 0  BY <1>2, <1>3, EmptySeq DEF Fresh
  <2> QED  BY <2>1, Zenon
<1>5. LastFile' = f.file  BY <1>3, <1>4 DEF LastFile
<1>6. \A x \in Transfer : x \in Ready \X {Fresh} <=> x[1] \in Ready /\ x[2] = Fresh
  BY DEF Transfer
<1>7. \A x \in Transfer : x[2] = Fresh => pc[x] = "idle"
  BY <1>2 DEF SenderInv, Begun, Fresh
<1> QED  BY <1>1, <1>2, <1>3, <1>4, <1>5, <1>6, <1>7 DEF Call

LEMMA StartCalls ==
  ASSUME TransferInv, NEW f \in Offered, Start(f), NEW g \in Round, NEW t \in Target
  PROVE  CallsOf(g, t)' =
           CallsOf(g, t) \cup (IF g = f.file /\ t \in Ready THEN {Fresh} ELSE {})
<1> SUFFICES ASSUME NEW k
             PROVE  k \in CallsOf(g, t)' <=>
                      \/ k \in CallsOf(g, t)
                      \/ g = f.file /\ t \in Ready /\ k = Fresh
  OBVIOUS
<1> USE DEF TransferInv
<1>1. /\ Len(rounds) \in Nat /\ Fresh \in Round /\ Len(rounds') = Fresh /\ rounds'[Fresh] = f
      /\ \A j \in 1..Len(rounds) : rounds'[j] = rounds[j]
      /\ \A x \in Transfer :
           IF x[1] \in Ready /\ x[2] = Fresh
           THEN pc[x] = "idle" /\ pc'[x] = "start" ELSE pc'[x] = pc[x]
  BY StartSees
<1>2. k \in 1..Fresh <=> k \in 1..Len(rounds) \/ k = Fresh
  BY <1>1 DEF Fresh
<1>3. CASE k \in 1..Len(rounds)
  <2>1. <<t, k>> \in Transfer /\ k # Fresh  BY <1>1, <1>3, CallIsTransfer DEF Fresh
  <2> QED  BY <1>1, <1>2, <1>3, <2>1 DEF CallsOf
<1>4. CASE k = Fresh
  <2>1. <<t, k>> \in Transfer /\ k \notin 1..Len(rounds)
    BY <1>1, <1>4 DEF Transfer, Fresh
  <2>2. pc[<<t, k>>] = "idle"
    <3>1. k > Len(rounds)  BY <1>1, <1>4 DEF Fresh
    <3> QED  BY <2>1, <3>1 DEF SenderInv, Begun
  <2> QED  BY <1>1, <1>2, <1>4, <2>1, <2>2 DEF CallsOf
<1>5. CASE k \notin 1..Len(rounds) /\ k # Fresh
  BY <1>1, <1>2, <1>5 DEF CallsOf
<1> QED  BY <1>3, <1>4, <1>5

LEMMA StartOutcomes ==
  ASSUME TransferInv, NEW f \in Offered, Start(f), NEW g \in Round, NEW t \in Target
  PROVE  OutcomeOf(g, t)' = IF g = f.file /\ t \in Ready THEN "going" ELSE OutcomeOf(g, t)
<1>1. CASE g = f.file /\ t \in Ready
  <2>1. pc'[<<t, Fresh>>] = "start" /\ <<t, Fresh>> \in Transfer
    <3>1. <<t, Fresh>> \in Transfer  BY StartSees DEF Transfer
    <3> QED  BY <1>1, <3>1, StartSees
  <2>2. CallsOf(g, t)' = CallsOf(g, t) \cup {Fresh}  BY <1>1, StartCalls
  <2>3. \A k \in CallsOf(g, t)' : k <= Fresh /\ k \in Nat
    BY <2>2, StartSees, CallsAre DEF Fresh
  <2>4. Max(CallsOf(g, t)') = Fresh
    <3> DEFINE S == CallsOf(g, t)'
    <3>1. S \in SUBSET (0..Fresh) /\ Fresh \in S /\ Fresh \in Nat
      BY <2>2, <2>3, StartSees DEF Round
    <3> HIDE DEF S
    <3>2. Max(S) \in S /\ Fresh <= Max(S)  BY <3>1, GreatestNatural
    <3>3. \A k \in S : k <= Fresh /\ k \in Nat  BY <3>1
    <3>4. Max(S) <= Fresh /\ Max(S) \in Nat  BY ONLY <3>2, <3>3, Zenon
    <3>5. Max(S) = Fresh  BY ONLY <3>1, <3>2, <3>4
    <3> QED  BY <3>5 DEF S
  <2>5. OutcomeOf(g, t)' = Standing(pc'[<<t, Fresh>>])
    BY <2>2, <2>4 DEF OutcomeOf
  <2> QED  BY <1>1, <2>1, <2>5 DEF Standing
<1>2. CASE ~(g = f.file /\ t \in Ready)
  <2>1. CallsOf(g, t)' = CallsOf(g, t)  BY <1>2, StartCalls
  <2>2. CASE CallsOf(g, t) = {}  BY <1>2, <2>1, <2>2 DEF OutcomeOf
  <2>3. CASE CallsOf(g, t) # {}
    <3> DEFINE k == Max(CallsOf(g, t))
    <3>1. k \in 1..Len(rounds) /\ <<t, k>> \in Transfer
      BY <2>3, CallsAre
    <3>2. k # Fresh  BY <3>1, CallsAre DEF Fresh
    <3>3. pc'[<<t, k>>] = pc[<<t, k>>]  BY <3>1, <3>2, StartSees
    <3> QED  BY <1>2, <2>1, <2>3, <3>3 DEF OutcomeOf
  <2> QED  BY <2>2, <2>3
<1> QED  BY <1>1, <1>2

\* A call that begins has handed nothing over.
LEMMA StartCopies ==
  ASSUME TransferInv, NEW f \in Offered, Start(f)
  PROVE  Copies' = Copies
<1> USE DEF TransferInv
<1> SUFFICES ASSUME NEW g \in Round, NEW t \in Target
             PROVE  CopiesOf(g, t)' = CopiesOf(g, t)
  BY DEF Copies
<1>1. delivered' = delivered  BY DEF Start, receiver
<1>2. CallsOf(g, t)' = CallsOf(g, t) \cup (IF g = f.file /\ t \in Ready THEN {Fresh} ELSE {})
  BY StartCalls
<1>3. g = f.file /\ t \in Ready => {Fresh} \X (1..delivered[<<t, Fresh>>]) = {}
  <2> SUFFICES ASSUME t \in Ready  PROVE 1..delivered[<<t, Fresh>>] = {}
    OBVIOUS
  <2>1. <<t, Fresh>> \in Transfer  BY StartSees DEF Transfer
  <2>2. pc[<<t, Fresh>>] = "idle"  BY <2>1, StartSees
  <2>3. delivered[<<t, Fresh>>] = 0  BY <2>1, <2>2 DEF OnceInv, Handed
  <2> QED  BY <2>3
<1> QED  BY <1>1, <1>2, <1>3 DEF CopiesOf

LEMMA StartTries ==
  ASSUME TransferInv, NEW f \in Offered, Start(f)
  PROVE  CallsMade' = Tries(f.file) + 1 /\ Tries(f.file) \in Nat
<1> DEFINE S == {k \in 1..Len(rounds) : rounds[k].file = f.file}
           T == {k \in 1..Len(rounds') : rounds'[k].file = f.file}
<1>1. /\ Len(rounds) \in Nat /\ Len(rounds') = Fresh /\ rounds'[Fresh] = f
      /\ \A k \in 1..Len(rounds) : rounds'[k] = rounds[k]
      /\ rounds' # <<>> /\ LastFile' = f.file
  BY StartSees
<1>2. 1..Fresh = (1..Len(rounds)) \cup {Fresh} /\ Fresh \notin 1..Len(rounds)
  BY <1>1 DEF Fresh
<1>3. T = S \cup {Fresh} /\ Fresh \notin S
  BY <1>1, <1>2
<1>4. IsFiniteSet(S)
  <2>1. IsFiniteSet(1..Len(rounds))  BY <1>1, FS_Interval
  <2> QED  BY <2>1, FS_Subset
<1>5. CallsMade' = Cardinality(T)
  BY <1>1 DEF CallsMade, Tries
<1>6. Tries(f.file) = Cardinality(S)
  BY DEF Tries
<1> HIDE DEF S, T
<1>7. Cardinality(S \cup {Fresh}) = Cardinality(S) + 1 /\ Cardinality(S) \in Nat
  BY <1>3, <1>4, FS_AddElement, FS_CardinalityType
<1> QED  BY <1>3, <1>5, <1>6, <1>7

LEMMA StartPromise ==
  ASSUME TransferInv, NEW f \in Offered, Start(f)
  PROVE  Promise!Next
<1> USE DEF TransferInv
<1>1. /\ Len(rounds) \in Nat /\ f.file \in Round /\ LastFile' = f.file
  BY StartSees
<1>2. /\ Ready # {} /\ Ready \in SUBSET Target
      /\ \A x \in Transfer : Running(x) => x[2] <= before
  BY DEF Start, Ready
<1>3. Outcomes' = [Outcomes EXCEPT ![f.file] =
        [t \in Target |-> IF t \in Ready THEN "going" ELSE Outcomes[f.file][t]]]
  BY <1>1, StartOutcomes DEF Outcomes
<1>4. Promise!Offered(f.file, Ready)
  BY <1>2, <1>3, StartCopies DEF Promise!Offered
<1>5. /\ CallsMade' = Tries(f.file) + 1 /\ Tries(f.file) \in Nat
      /\ \A j \in 1..Len(rounds) : rounds[j].file = f.file =>
           \A t \in Target : ~Running(<<t, j>>) /\ pc[<<t, j>>] # "ok"
  <2>1. Fresh \in Round  BY StartSees
  <2> QED  BY <1>2, <2>1, StartTries, OfferedIs
<1>6. CASE f \in [file : {Fresh}, chunks : Sizes]
  <2>1. f.file = Fresh  BY <1>6
  <2>2. LastFile < Fresh /\ LastFile \in Nat
    BY <1>1, LastIs DEF LastFile, Fresh, Round
  <2>3. Tries(Fresh) = 0
    <3>1. \A k \in 1..Len(rounds) : rounds[k].file \in Nat /\ rounds[k].file <= k
      BY CallIsTransfer DEF Call, Round, OnceInv, Files
    <3>2. {k \in 1..Len(rounds) : rounds[k].file = Fresh} = {}
      BY <1>1, <3>1 DEF Fresh
    <3> QED  BY <3>2, FS_EmptySet DEF Tries
  <2>4. Promise!OfferNew(Fresh, Ready)
    <3>1. CallsMade' = 1  BY <1>5, <2>1, <2>3
    <3> QED  BY <1>1, <1>4, <2>1, <2>2, <3>1 DEF Promise!OfferNew, Round
  <2> QED  BY <1>1, <1>2, <2>1, <2>4 DEF Promise!Next, Promise!File, Round
<1>7. CASE f \notin [file : {Fresh}, chunks : Sizes]
  <2>1. Len(rounds) # 0 /\ f = rounds[Len(rounds)] /\ Tries(f.file) < MaxRetries
    <3>1. Len(rounds) # before  BY <1>7 DEF Offered
    <3>2. Len(rounds) # 0  BY <1>1, <3>1 DEF TypeOK
    <3> QED  BY <1>7, <3>2 DEF Offered
  <2>2. rounds # <<>>
    <3>1. Len(<<>>) = 0  BY EmptySeq
    <3> QED  BY <2>1, <3>1, Zenon
  <2>3. LastFile = f.file /\ CallsMade = Tries(f.file)
    BY <2>1, <2>2, LastIs DEF CallsMade
  <2>4. ASSUME NEW t \in Target  PROVE OutcomeOf(f.file, t) \notin {"going", "sent"}
    <3>1. CASE CallsOf(f.file, t) = {}  BY <3>1 DEF OutcomeOf
    <3>2. CASE CallsOf(f.file, t) # {}
      <4> DEFINE k == Max(CallsOf(f.file, t))
      <4>1. k \in 1..Len(rounds) /\ rounds[k].file = f.file
        BY <3>2, CallsAre DEF CallsOf
      <4>2. ~Running(<<t, k>>) /\ pc[<<t, k>>] # "ok"  BY <1>5, <4>1
      <4> QED  BY <3>2, <4>2 DEF OutcomeOf, Standing, Running
    <3> QED  BY <3>1, <3>2
  <2>5. Promise!OfferAgain(Ready)
    <3>1. \A t \in Target : Outcomes[LastFile][t] \notin {"going", "sent"}
      BY <1>1, <2>3, <2>4 DEF Outcomes
    <3> QED  BY <1>1, <1>4, <1>5, <2>1, <2>3, <3>1 DEF Promise!OfferAgain, Round
  <2> QED  BY <1>1, <1>2, <2>3, <2>5 DEF Promise!Next, Promise!File, Round
<1> QED  BY <1>6, <1>7

-----------------------------------------------------------------------------
(* The sender's other steps *)

LEMMA KeepsPromise ==
  ASSUME TransferInv, UNCHANGED <<rounds, pc, delivered>>
  PROVE  [Promise!Next]_(Promise!promise)
<1>1. Concludes({}, "failed")  BY DEF Concludes
<1> QED  BY <1>1, ConcludesPromise, Zenon

LEMMA CancelPromise ==
  ASSUME TransferInv, NEW ts \in SUBSET Target, Cancels(ts), UNCHANGED <<rounds, delivered>>
  PROVE  [Promise!Next]_(Promise!promise)
<1> DEFINE gone == {x \in Transfer : x[1] \in ts /\ pc[x] = "start"}
<1>1. \A x \in Transfer : pc'[x] = IF x[1] \in ts /\ pc[x] = "start" THEN "cut" ELSE pc[x]
  BY CancelIs DEF TransferInv
<1>2. Standing("cut") = "failed"  BY DEF Standing
<1>3. Concludes(gone, "failed")
  BY <1>1, <1>2 DEF Concludes, Running
<1> HIDE DEF gone
<1>4. gone \in SUBSET Transfer  BY DEF gone
<1> QED  BY <1>3, <1>4, ConcludesPromise

\* Transfer x, which ran, comes to stand at end_; one that is cut may take with it others
\* that wait for their start-acks.
Moves(x, end_) ==
  /\ pc'[x] = end_
  /\ \A y \in Transfer \ {x} :
       pc'[y] = pc[y] \/ (end_ = "cut" /\ pc[y] = "start" /\ pc'[y] = "cut")

LEMMA MovesPromise ==
  ASSUME TransferInv, NEW x \in Transfer, Running(x),
         NEW end_ \in {"chunk", "cut", "stranded", "ok"}, Moves(x, end_),
         UNCHANGED <<rounds, delivered>>
  PROVE  [Promise!Next]_(Promise!promise)
<1>1. CASE end_ = "chunk"
  <2>1. Concludes({}, "failed")
    BY <1>1 DEF Moves, Concludes, Running
  <2> QED  BY <2>1, ConcludesPromise, Zenon
<1>2. CASE end_ = "ok"
  <2>1. Concludes({x}, "sent")
    BY <1>2 DEF Moves, Concludes, Standing
  <2> QED  BY <2>1, ConcludesPromise
<1>3. CASE end_ \in {"cut", "stranded"}
  <2> DEFINE gone == {x} \cup {y \in Transfer : pc[y] = "start" /\ pc'[y] = "cut"}
  <2>1. /\ Standing(end_) = "failed" /\ end_ # "idle"
        /\ Standing("cut") = "failed"
    BY <1>3 DEF Standing
  <2>2. Concludes(gone, "failed")
    BY <2>1 DEF Moves, Concludes, Running
  <2> HIDE DEF gone
  <2>3. gone \in SUBSET Transfer  BY DEF gone
  <2> QED  BY <2>2, <2>3, ConcludesPromise
<1> QED  BY <1>1, <1>2, <1>3

LEMMA ProceedMoves ==
  ASSUME TypeOK, NEW x \in Transfer, NEW notes, NEW n, Proceed(x, notes, n)
  PROVE  \E end_ \in {"ok", "chunk", "cut"} :
           /\ Moves(x, end_) /\ next' = [next EXCEPT ![x] = n]
           /\ \/ /\ n = Chunks(x) /\ end_ = "ok"
                 /\ SendS(At(x), Append(notes, Note("file-end", x)))
              \/ n < Chunks(x) /\ end_ # "ok" /\ SendS(At(x), notes)
<1> USE DEF TypeOK
<1>1. CASE pc' = [Cancelled({x[1]}) EXCEPT ![x] = "cut"]
  <2>1. Moves(x, "cut")  BY <1>1 DEF Moves, Cancelled
  <2> QED  BY <1>1, <2>1 DEF Proceed
<1>2. ASSUME NEW end_ \in {"ok", "chunk", "cut"}, pc' = [pc EXCEPT ![x] = end_]
      PROVE  Moves(x, end_)
  BY <1>2 DEF Moves
<1> QED  BY <1>1, <1>2 DEF Proceed

LEMMA ProceedPromise ==
  ASSUME TransferInv, NEW x \in Transfer, Running(x), NEW notes, NEW n,
         Proceed(x, notes, n), UNCHANGED <<rounds, delivered>>
  PROVE  [Promise!Next]_(Promise!promise)
<1>1. PICK end_ \in {"ok", "chunk", "cut"} : Moves(x, end_)
  BY ProceedMoves DEF TransferInv
<1> QED  BY <1>1, MovesPromise

LEMMA RecvSPromise ==
  ASSUME TransferInv, NEW l \in Link, RecvS(l)
  PROVE  [Promise!Next]_(Promise!promise)
<1> DEFINE id == Head(toS[l]).id
<1> USE DEF TransferInv
<1>1. UNCHANGED <<rounds, delivered>>  BY DEF RecvS, receiver
<1>2. CASE pc' = pc  BY <1>1, <1>2, KeepsPromise
<1>3. CASE Head(toS[l]).type = "file-start-ack" /\ pc[id] = "start" /\ Proceed(id, <<>>, 0)
  <2>1. toS[l] \in Seq(Fit(l, "ack")) /\ toS[l] # <<>>  BY DEF RecvS, Fits
  <2>2. Head(toS[l]) \in Fit(l, "ack")  BY <2>1, HeadTailProperties
  <2>3. id \in Transfer /\ Running(id)  BY <1>3, <2>2 DEF Fit, Wire, Running
  <2> QED  BY <1>1, <1>3, <2>3, ProceedPromise
<1> QED  BY <1>2, <1>3 DEF RecvS

-----------------------------------------------------------------------------
(* Handing over *)

LEMMA HandPromise ==
  ASSUME TransferInv, NEW x \in Transfer, UNCHANGED <<rounds, pc>>, pc[x] = "ok",
         delivered[x] = 0, delivered' = [delivered EXCEPT ![x] = 1]
  PROVE  Promise!Next
<1> USE DEF TransferInv
<1>1. PICK f \in Round, t \in Target :
        /\ f = rounds[x[2]].file /\ t = x[1]
        /\ x[2] \in 1..Len(rounds) /\ x = <<t, x[2]>>
        /\ x[2] \in CallsOf(f, t) /\ OutcomeOf(f, t) = "sent"
  BY StandsLast DEF Standing
<1>2. UNCHANGED <<LastFile, CallsMade, Outcomes>>
      /\ \A g \in Round, s \in Target : CallsOf(g, s)' = CallsOf(g, s)
  BY DEF LastFile, CallsMade, Tries, Outcomes, OutcomeOf, CallsOf
<1>3. \A y \in Transfer : delivered'[y] = IF y = x THEN 1 ELSE delivered[y]
  BY DEF TypeOK
<1>4. ASSUME NEW k \in CallsOf(f, t), k # x[2]  PROVE delivered[<<t, k>>] = 0
  <2>1. k \in 1..Len(rounds) /\ rounds[k].file = f /\ <<t, k>> \in Transfer
    BY <1>1, CallsAre DEF CallsOf
  <2>2. pc[<<t, k>>] # "ok"
    <3>1. ~(k < x[2] /\ pc[<<t, k>>] = "ok")  BY <1>1, <2>1 DEF OnceInv, Files
    <3>2. ~(x[2] < k)  BY <1>1, <2>1 DEF OnceInv, Files
    <3> QED  BY <1>1, <1>4, <2>1, <3>1, <3>2
  <2> QED  BY <2>1, <2>2 DEF OnceInv, Handed
<1>5. CopiesOf(f, t) = {}
  <2>1. x \in Transfer /\ x[2] \in CallsOf(f, t) /\ delivered[<<t, x[2]>>] = 0
    BY <1>1
  <2>2. \A k \in CallsOf(f, t) : delivered[<<t, k>>] = 0
    BY <1>4, <2>1
  <2>3. 1..0 = {}  OBVIOUS
  <2>4. \A k \in CallsOf(f, t) : {k} \X (1..delivered[<<t, k>>]) = {}
    BY <2>2, <2>3
  <2> QED  BY <2>4 DEF CopiesOf
<1>6. CopiesOf(f, t)' = {<<x[2], 1>>}
  <2>1. ASSUME NEW k \in CallsOf(f, t), NEW c
        PROVE  c \in {k} \X (1..delivered'[<<t, k>>]) <=> k = x[2] /\ c = <<x[2], 1>>
    <3>1. <<t, k>> \in Transfer  BY <1>1, CallsAre
    <3>2. delivered'[<<t, k>>] = IF k = x[2] THEN 1 ELSE 0  BY <1>1, <1>3, <1>4, <3>1
    <3>3. CASE k = x[2]
      <4>1. 1..delivered'[<<t, k>>] = {1}  BY <3>2, <3>3
      <4> QED  BY <3>3, <4>1
    <3>4. CASE k # x[2]
      <4>1. 1..delivered'[<<t, k>>] = {}  BY <3>2, <3>4
      <4> QED  BY <3>4, <4>1
    <3> QED  BY <3>3, <3>4
  <2>2. CopiesOf(f, t)' = UNION {{k} \X (1..delivered'[<<t, k>>]) : k \in CallsOf(f, t)}
    <3>1. CallsOf(f, t)' = CallsOf(f, t)  BY <1>2
    <3>2. CopiesOf(f, t)' = UNION {{k} \X (1..delivered'[<<t, k>>]) : k \in CallsOf(f, t)'}
      BY Zenon DEF CopiesOf
    <3> QED  BY <3>1, <3>2, Zenon
  <2>3. \A c : c \in CopiesOf(f, t)' <=>
          \E k \in CallsOf(f, t) : c \in {k} \X (1..delivered'[<<t, k>>])
    BY <2>2
  <2>4. x[2] \in CallsOf(f, t)  BY <1>1
  <2>5. ASSUME NEW c  PROVE c \in CopiesOf(f, t)' <=> c = <<x[2], 1>>
    <3>1. ASSUME c \in CopiesOf(f, t)'  PROVE c = <<x[2], 1>>
      <4>1. PICK k \in CallsOf(f, t) : c \in {k} \X (1..delivered'[<<t, k>>])
        BY <2>3, <3>1
      <4> QED  BY <2>1, <4>1
    <3>2. ASSUME c = <<x[2], 1>>  PROVE c \in CopiesOf(f, t)'
      <4>1. c \in {x[2]} \X (1..delivered'[<<t, x[2]>>])  BY <2>1, <2>4, <3>2
      <4> QED  BY <2>3, <2>4, <4>1
    <3> QED  BY <3>1, <3>2
  <2> QED  BY <2>5
<1>7. ASSUME NEW g \in Round, NEW s \in Target, ~(g = f /\ s = t)
      PROVE  CopiesOf(g, s)' = CopiesOf(g, s)
  <2>1. ASSUME NEW k \in CallsOf(g, s)  PROVE delivered'[<<s, k>>] = delivered[<<s, k>>]
    <3>1. <<s, k>> \in Transfer /\ rounds[k].file = g  BY CallsAre DEF CallsOf
    <3>2. <<s, k>> # x  BY <1>1, <1>7, <3>1
    <3> QED  BY <1>3, <3>1, <3>2
  <2> QED  BY <1>2, <2>1 DEF CopiesOf
<1>8. Copies' = [Copies EXCEPT ![f][t] = 1] /\ Copies[f][t] = 0
  <2>1. Cardinality({<<x[2], 1>>}) = 1  BY FS_Singleton
  <2>2. Cardinality({}) = 0  BY FS_EmptySet
  <2>3. Cardinality(CopiesOf(f, t)) = 0 /\ Cardinality(CopiesOf(f, t)') = 1
    BY <1>5, <1>6, <2>1, <2>2
  <2>4. \A g \in Round, s \in Target :
          Cardinality(CopiesOf(g, s)') =
            IF g = f /\ s = t THEN 1 ELSE Cardinality(CopiesOf(g, s))
    BY <1>7, <2>3
  <2>5. Copies' = [g \in Round |-> [s \in Target |->
          IF g = f /\ s = t THEN 1 ELSE Cardinality(CopiesOf(g, s))]]
    BY <2>4 DEF Copies
  <2> QED  BY <2>3, <2>5 DEF Copies
<1>9. Promise!Hand(f, t)
  BY <1>1, <1>2, <1>8 DEF Promise!Hand, Outcomes
<1> QED  BY <1>1, <1>9 DEF Promise!Next, Promise!File, Round

LEMMA RecvRPromise ==
  ASSUME TransferInv, NEW l \in Link, RecvR(l)
  PROVE  [Promise!Next]_(Promise!promise)
<1> DEFINE m == Head(toR[l])
           x == m.id
<1> USE DEF TransferInv
<1>1. UNCHANGED <<rounds, pc>> /\ Taken(l)  BY DEF RecvR, Taken, transfer
<1>2. CASE delivered' = delivered  BY <1>1, <1>2, KeepsPromise
<1>3. CASE m.type = "file-end" /\ delivered' = [delivered EXCEPT ![x] = @ + 1]
  <2>1. toR[l] \in Seq(Wire) /\ toR[l] # <<>> /\ m \in Fit(l, "message")
    BY <1>1, TakenIs
  <2>2. x \in Transfer  BY <1>3, <2>1 DEF Fit
  <2>3. 1 \in EndsIn(toR[l], x)  BY <1>3, <2>1, TailEnds
  <2>4. pc[x] = "ok" /\ delivered[x] = 0  BY <2>2, <2>3 DEF OnceInv, Ends
  <2> HIDE DEF x
  <2>5. delivered' = [delivered EXCEPT ![x] = 1]  BY <1>3, <2>2, <2>4 DEF TypeOK
  <2> QED  BY <1>1, <2>2, <2>4, <2>5, HandPromise
<1> QED
  BY <1>2, <1>3 DEF RecvR, TakeStart, TakeUnknown, TakeChunk, TakeEnd

-----------------------------------------------------------------------------
(* The refinement *)

LEMMA InitPromise == Init => Promise!Init
<1> SUFFICES ASSUME Init  PROVE Promise!Init
  OBVIOUS
<1>1. rounds = <<>> /\ Len(rounds) = 0  BY EmptySeq DEF Init, Quiet
<1>2. LastFile = 0 /\ CallsMade = 0  BY <1>1 DEF LastFile, CallsMade
<1>3. \A f \in Round, t \in Target : CallsOf(f, t) = {}
  <2>1. 1..0 = {}  OBVIOUS
  <2> QED  BY <1>1, <2>1 DEF CallsOf
<1>4. \A f \in Round, t \in Target : OutcomeOf(f, t) = "none" /\ CopiesOf(f, t) = {}
  BY <1>3 DEF OutcomeOf, CopiesOf
<1>5. \A f \in Round, t \in Target : Cardinality(CopiesOf(f, t)) = 0
  BY <1>4, FS_EmptySet
<1> QED
  BY <1>2, <1>4, <1>5 DEF Promise!Init, Promise!File, Round, Outcomes, Copies

LEMMA NextPromise == TransferInv /\ [Next]_vars => [Promise!Next]_(Promise!promise)
<1> DEFINE Kept == [Promise!Next]_(Promise!promise)
<1> SUFFICES ASSUME TransferInv, [Next]_vars  PROVE Kept
  OBVIOUS
<1>1. ASSUME NEW f \in Offered, Start(f)  PROVE Kept
  BY <1>1, StartPromise
<1>2. ASSUME NEW x \in Transfer, StartTimeout(x)  PROVE Kept
  <2>1. Running(x) /\ UNCHANGED <<rounds, delivered>>
    BY <1>2 DEF StartTimeout, Expired, receiver, Running
  <2>2. CASE pc' = pc  BY <2>1, <2>2, KeepsPromise
  <2>3. ASSUME NEW end_ \in {"cut", "stranded"}, pc' = [pc EXCEPT ![x] = end_]  PROVE Kept
    <3>1. Moves(x, end_)  BY <2>3 DEF Moves, TransferInv, TypeOK
    <3> QED  BY <2>1, <3>1, MovesPromise
  <2> QED  BY <1>2, <2>2, <2>3 DEF StartTimeout
<1>3. ASSUME NEW x \in Transfer, Chunk(x)  PROVE Kept
  BY <1>3, ProceedPromise DEF Chunk, receiver, Running
<1>4. ASSUME NEW x \in Transfer, ReadError(x)  PROVE Kept
  <2>1. Moves(x, "stranded")  BY <1>4 DEF ReadError, Moves, TransferInv, TypeOK
  <2> QED  BY <1>4, <2>1, MovesPromise DEF ReadError, receiver, Running
<1>5. ASSUME NEW l \in Link, RecvS(l)  PROVE Kept
  BY <1>5, RecvSPromise
<1>6. ASSUME NEW id \in AckId, AckTimeout(id)  PROVE Kept
  BY <1>6, KeepsPromise DEF AckTimeout, transfer, receiver
<1>7. ASSUME NEW m \in Message, NEW key \in [Target -> Target], SendMessage(m, key)
      PROVE  Kept
  BY <1>7, KeepsPromise DEF SendMessage, transfer, receiver
<1>8. ASSUME NEW l \in Link, OpenS(l)  PROVE Kept
  BY <1>8, KeepsPromise DEF OpenS, transfer, receiver
<1>9. ASSUME NEW l \in Link, CloseS(l)  PROVE Kept
  <2>1. UNCHANGED <<rounds, delivered>> /\ l[1] \in Target
    BY <1>9 DEF CloseS, receiver, Link
  <2>2. CASE Cancel({l[1]})
    BY <2>1, <2>2, CancelCancels, CancelPromise DEF TransferInv
  <2>3. CASE pc' = pc  BY <2>1, <2>3, KeepsPromise
  <2> QED  BY <1>9, <2>2, <2>3 DEF CloseS
<1>10. ASSUME NEW t \in Target, AddS(t)  PROVE Kept
  BY <1>10, KeepsPromise DEF AddS, transfer, receiver
<1>11. ASSUME NEW gone, NEW come, NEW ts \in SUBSET Target, Relist(gone, come, ts)
       PROVE  Kept
  <2>1. Cancels(ts)  BY <1>11 DEF Relist, Cancels, TransferInv, TypeOK
  <2> QED  BY <1>11, <2>1, CancelPromise DEF Relist, receiver
<1>12. ASSUME NEW t \in Target, RemoveS(t)  PROVE Kept
  BY <1>11, <1>12, OrAllIs DEF RemoveS, TransferInv
<1>13. ASSUME NEW wanted \in SUBSET Target, JoinSuccessS(wanted)  PROVE Kept
  BY <1>11, <1>13 DEF JoinSuccessS
<1>14. CASE LeaveS
  BY <1>11, <1>14, OrAllIs DEF LeaveS, Ready, TransferInv
<1>15. CASE DetachS
  BY <1>15, KeepsPromise DEF DetachS, transfer, receiver
<1>16. ASSUME NEW l \in Link, OpenR(l) \/ CloseR(l)  PROVE Kept
  BY <1>16, KeepsPromise DEF OpenR, CloseR, transfer
<1>17. ASSUME NEW t \in Target, DetachR(t) \/ ReceiveTimeout(t)  PROVE Kept
  BY <1>17, KeepsPromise DEF DetachR, ReceiveTimeout, transfer
<1>18. ASSUME NEW l \in Link, RecvR(l)  PROVE Kept
  BY <1>18, RecvRPromise
<1>19. CASE UNCHANGED vars
  BY <1>19, KeepsPromise DEF vars, transfer, receiver
<1>20. CASE Remount
  BY <1>20, KeepsPromise DEF Remount, receiver
<1> HIDE DEF Kept
<1> QED
  BY <1>1, <1>2, <1>3, <1>4, <1>5, <1>6, <1>7, <1>8, <1>9, <1>10, <1>12, <1>13,
     <1>14, <1>15, <1>16, <1>17, <1>18, <1>19, <1>20 DEF Next

\* Seen file by file, the transfers do nothing that Delivery does not allow: the outcome of
\* a call is settled once, a file is offered again only when all its transfers have failed,
\* MaxRetries times in all, and each target gets one copy, after its success.
THEOREM TransferDelivers == Spec => ImplementsDelivery
BY TransferAlways, InitPromise, NextPromise, PTL DEF Spec, ImplementsDelivery, Promise!Spec

-----------------------------------------------------------------------------
(***************************************************************************)
(* When a file-end of the file being received is taken, no chunk of it is  *)
(* missing (EndsWhole), for all values of the constants: whatever was      *)
(* repeated, dropped, given up and begun again before.                     *)
(*                                                                         *)
(* A connection keeps the order of what it carries, but what it carries of *)
(* a transfer may begin anywhere, as the target may have given up the file *)
(* and taken another file-start of it since.  The argument follows each    *)
(* chunk: one that was sent is in the queue or has been taken by the       *)
(* target that expects the file (Has); a file-start that is still in the   *)
(* queue has all chunks behind it, as none is sent before a file-start is  *)
(* acknowledged and no file-start after; and once a connection drops       *)
(* something, it drops the file-end too.                                   *)
(***************************************************************************)

Part == {"file-start", "file-chunk", "file-end"}

\* What a queue holds of transfer x, and that a file-start comes before the rest of it,
\* a file-end after.
Parts(q, x) == {w \in {q[i] : i \in 1..Len(q)} : w.type \in Part /\ w.id = x}
Before(v, w) == v.type # "file-end" /\ (w.type = "file-start" => v.type = "file-start")
Orderly(q, x) ==
  \A i, j \in 1..Len(q) :
    i < j /\ q[i].type \in Part /\ q[i].id = x /\ q[j].type \in Part /\ q[j].id = x =>
      Before(q[i], q[j])

HasChunk(q, x, i) == \E w \in Parts(q, x) : w.type = "file-chunk" /\ w.chunk = i
HasStart(q, x) == \E w \in Parts(q, x) : w.type = "file-start"
HasEnd(q, x) == \E w \in Parts(q, x) : w.type = "file-end"

\* Chunk i of x, sent on link l, has not been missed: by the reception of x that goes on,
\* nor by one that a file-start in the queue begins.
Has(x, l, i) ==
  /\ receiving[x[1]].round = x[2] => i \in receiving[x[1]].got \/ HasChunk(toR[l], x, i)
  /\ HasStart(toR[l], x) => HasChunk(toR[l], x, i)

Orders == \A l \in Link, x \in Transfer : Orderly(toR[l], x)
OneLink ==
  \A l, m \in Link, x \in Transfer : Parts(toR[l], x) # {} /\ Parts(toR[m], x) # {} => l = m
Sane ==
  \A l \in Link, x \in Transfer : \A w \in Parts(toR[l], x) :
    /\ x[2] <= Len(rounds)
    /\ Running(x) => l = At(x)
    /\ w.type # "file-start" => pc[x] # "start"
    /\ w.type = "file-chunk" => w.chunk \in 0..(Chunks(x) - 1)
Began ==
  \A x \in Transfer :
    /\ Running(x) => sEnd[At(x)] # "new"
    /\ pc[x] = "chunk" => next[x] < Chunks(x)
Got ==
  \A t \in Target : receiving[t] # Nothing =>
    /\ receiving[t].round <= Len(rounds)
    /\ receiving[t].got \subseteq 0..(Chunks(<<t, receiving[t].round>>) - 1)
Flows ==
  \A x \in Transfer : pc[x] = "chunk" /\ Arrives(At(x)) =>
    \A i \in 0..(next[x] - 1) : Has(x, At(x), i)
Whole ==
  \A x \in Transfer, l \in Link : HasEnd(toR[l], x) =>
    \A i \in 0..(Chunks(x) - 1) : Has(x, l, i)

FlowInv == Orders /\ OneLink /\ Sane /\ Began /\ Got /\ Flows /\ Whole

-----------------------------------------------------------------------------
(* Queues *)

LEMMA PartsAppend ==
  ASSUME NEW q \in Seq(Wire), NEW w \in Wire, NEW x
  PROVE  /\ Parts(Append(q, w), x) =
              Parts(q, x) \cup (IF w.type \in Part /\ w.id = x THEN {w} ELSE {})
         /\ /\ Orderly(q, x)
            /\ w.type \in Part /\ w.id = x => \A v \in Parts(q, x) : Before(v, w)
            => Orderly(Append(q, w), x)
<1> DEFINE r == Append(q, w)
<1>1. /\ Len(r) = Len(q) + 1 /\ Len(q) \in Nat /\ r[Len(q) + 1] = w
      /\ \A i \in 1..Len(q) : r[i] = q[i]
  BY QueueAppend
<1> HIDE DEF r
<1>2. 1..Len(r) = 1..Len(q) \cup {Len(q) + 1}  BY <1>1
<1>3. {r[i] : i \in 1..Len(r)} = {q[i] : i \in 1..Len(q)} \cup {w}
  BY <1>1, <1>2
<1>4. Parts(r, x) = Parts(q, x) \cup (IF w.type \in Part /\ w.id = x THEN {w} ELSE {})
  BY <1>3 DEF Parts
<1>5. ASSUME Orderly(q, x),
             w.type \in Part /\ w.id = x => \A v \in Parts(q, x) : Before(v, w)
      PROVE  Orderly(r, x)
  <2> SUFFICES ASSUME NEW i \in 1..Len(r), NEW j \in 1..Len(r), i < j,
                      r[i].type \in Part, r[i].id = x, r[j].type \in Part, r[j].id = x
               PROVE  Before(r[i], r[j])
    BY DEF Orderly
  <2>1. i \in 1..Len(q) /\ r[i] = q[i]  BY <1>1
  <2>2. q[i] \in Parts(q, x)  BY <2>1 DEF Parts
  <2>3. CASE j = Len(q) + 1  BY <1>1, <1>5, <2>1, <2>2, <2>3
  <2>4. CASE j # Len(q) + 1
    <3>1. j \in 1..Len(q) /\ r[j] = q[j]  BY <1>1, <2>4
    <3> QED  BY <1>5, <2>1, <3>1 DEF Orderly
  <2> QED  BY <2>3, <2>4
<1> QED  BY <1>4, <1>5 DEF r

LEMMA PartsTail ==
  ASSUME NEW q \in Seq(Wire), q # <<>>, NEW x
  PROVE  /\ Parts(q, x) = Parts(Tail(q), x) \cup
              (IF Head(q).type \in Part /\ Head(q).id = x THEN {Head(q)} ELSE {})
         /\ Orderly(q, x) =>
              /\ Orderly(Tail(q), x)
              /\ Head(q).type \in Part /\ Head(q).id = x =>
                   \A v \in Parts(Tail(q), x) : Before(Head(q), v)
<1> DEFINE r == Tail(q)
           h == Head(q)
<1>1. /\ h = q[1] /\ Len(r) = Len(q) - 1 /\ Len(q) \in Nat \ {0}
      /\ \A i \in 1..Len(r) : r[i] = q[i + 1]
  BY HeadTailProperties, EmptySeq
<1> HIDE DEF r, h
<1>2. {q[i] : i \in 1..Len(q)} = {r[i] : i \in 1..Len(r)} \cup {h}
  <2>1. ASSUME NEW i \in 1..Len(q)  PROVE q[i] = h \/ \E j \in 1..Len(r) : q[i] = r[j]
    <3>1. CASE i = 1  BY <1>1, <3>1
    <3>2. CASE i # 1
      <4>1. i - 1 \in 1..Len(r) /\ r[i - 1] = q[i]  BY <1>1, <3>2
      <4> QED  BY <4>1
    <3> QED  BY <3>1, <3>2
  <2>2. ASSUME NEW j \in 1..Len(r)  PROVE \E i \in 1..Len(q) : q[i] = r[j]
    <3>1. j + 1 \in 1..Len(q) /\ q[j + 1] = r[j]  BY <1>1
    <3> QED  BY <3>1
  <2>3. \E i \in 1..Len(q) : q[i] = h
    <3>1. 1 \in 1..Len(q)  BY <1>1
    <3> QED  BY <1>1, <3>1
  <2> DEFINE Q == {q[i] : i \in 1..Len(q)}
             R == {r[i] : i \in 1..Len(r)}
  <2>4. ASSUME NEW w  PROVE w \in Q <=> w \in R \/ w = h
    BY <2>1, <2>2, <2>3
  <2> HIDE DEF Q, R
  <2>5. Q = R \cup {h}  BY <2>4
  <2> QED  BY <2>5 DEF Q, R
<1>3. Parts(q, x) = Parts(r, x) \cup (IF h.type \in Part /\ h.id = x THEN {h} ELSE {})
  BY <1>2 DEF Parts
<1>4. ASSUME Orderly(q, x)  PROVE Orderly(r, x)
  <2> SUFFICES ASSUME NEW i \in 1..Len(r), NEW j \in 1..Len(r), i < j,
                      r[i].type \in Part, r[i].id = x, r[j].type \in Part, r[j].id = x
               PROVE  Before(r[i], r[j])
    BY DEF Orderly
  <2>1. i + 1 \in 1..Len(q) /\ j + 1 \in 1..Len(q) /\ i + 1 < j + 1
        /\ q[i + 1] = r[i] /\ q[j + 1] = r[j]
    BY <1>1
  <2> QED  BY <1>4, <2>1 DEF Orderly
<1>5. ASSUME Orderly(q, x), h.type \in Part, h.id = x, NEW v \in Parts(r, x)
      PROVE  Before(h, v)
  <2>1. PICK j \in 1..Len(r) : v = r[j]  BY DEF Parts
  <2>2. /\ 1 \in 1..Len(q) /\ j + 1 \in 1..Len(q) /\ 1 < j + 1
        /\ q[1] = h /\ q[j + 1] = v
    BY <1>1, <2>1
  <2>3. v.type \in Part /\ v.id = x  BY DEF Parts
  <2> QED  BY <1>5, <2>2, <2>3 DEF Orderly
<1> QED  BY <1>3, <1>4, <1>5 DEF r, h

LEMMA PartsNone == \A x : Parts(<<>>, x) = {} /\ Orderly(<<>>, x)
BY EmptySeq DEF Parts, Orderly

-----------------------------------------------------------------------------
(* Steps that send no part of a file *)

\* What a step leaves on link l: the same parts, or nothing, once and for all.
Left(l) ==
  \/ \A x \in Transfer : /\ Parts(toR'[l], x) = Parts(toR[l], x)
                         /\ Orderly(toR[l], x) => Orderly(toR'[l], x)
  \/ toR'[l] = <<>> /\ ~Arrives(l)'
Closes(l) == sEnd[l] # "new" => sEnd'[l] # "new" /\ (Arrives(l)' => Arrives(l))

LEMMA LeftSame ==
  ASSUME UNCHANGED toR
  PROVE  \A l \in Link : Left(l)
BY DEF Left

LEMMA FlowQuiet ==
  ASSUME FlowInv, UNCHANGED <<rounds, on, next>>,
         \A x \in Transfer : pc'[x] = pc[x] \/ (Running(x) /\ pc'[x] \in {"cut", "stranded"}),
         \A t \in Target : receiving'[t] = receiving[t] \/ receiving'[t] = Nothing,
         \A l \in Link : Left(l) /\ Closes(l),
         \A x \in Transfer : Running(x) => At(x) \in Link
  PROVE  FlowInv'
<1> USE DEF FlowInv
<1>1. \A l \in Link, x \in Transfer :
        \/ Parts(toR'[l], x) = Parts(toR[l], x)
        \/ Parts(toR'[l], x) = {} /\ ~Arrives(l)'
  BY PartsNone DEF Left
<1>2. \A x \in Transfer :
        /\ At(x)' = At(x) /\ Chunks(x)' = Chunks(x)
        /\ pc'[x] \in {"start", "chunk"} => pc'[x] = pc[x]
        /\ x[1] \in Target /\ x[2] # 0
  BY DEF At, Chunks, Transfer, Round
<1>3. \A l \in Link, x \in Transfer : \A i :
        Has(x, l, i) /\ Parts(toR'[l], x) = Parts(toR[l], x) => Has(x, l, i)'
  BY <1>2 DEF Has, HasChunk, HasStart, Nothing
<1>4. Orders'
  BY PartsNone DEF Orders, Left
<1>5. OneLink' /\ Sane'
  <2>1. OneLink'  BY <1>1 DEF OneLink
  <2>2. ASSUME NEW l \in Link, NEW x \in Transfer, NEW w \in Parts(toR'[l], x)
        PROVE  /\ x[2] <= Len(rounds')
               /\ Running(x)' => l = At(x)'
               /\ w.type # "file-start" => pc'[x] # "start"
               /\ w.type = "file-chunk" => w.chunk \in 0..(Chunks(x)' - 1)
    <3>1. w \in Parts(toR[l], x)  BY <1>1
    <3> QED  BY <1>2, <3>1 DEF Sane, Running
  <2> QED  BY <2>1, <2>2 DEF Sane
<1>6. Began' /\ Got'
  <2>1. Began'  BY <1>2 DEF Began, Running, Closes
  <2>2. Got'  BY DEF Got, Chunks, Nothing
  <2> QED  BY <2>1, <2>2
<1>7. Flows'
  <2> SUFFICES ASSUME NEW x \in Transfer, pc'[x] = "chunk", Arrives(At(x))',
                      NEW i \in 0..(next[x] - 1)
               PROVE  Has(x, At(x), i)'
    BY <1>2 DEF Flows
  <2>1. pc[x] = "chunk" /\ At(x) \in Link  BY <1>2 DEF Running
  <2>2. PICK l \in Link : l = At(x) /\ l = At(x)'  BY <1>2, <2>1
  <2>3. sEnd[l] # "new" /\ Arrives(l)'
    BY <1>2, <2>1, <2>2 DEF Began, Running, Arrives
  <2>4. Arrives(l)  BY <2>3 DEF Closes
  <2>5. Has(x, l, i)  BY <2>1, <2>2, <2>4 DEF Flows
  <2>6. Has(x, l, i)'  BY <1>1, <1>3, <2>3, <2>5
  <2> QED  BY <2>2, <2>6
<1>8. Whole'
  <2> SUFFICES ASSUME NEW x \in Transfer, NEW l \in Link, HasEnd(toR'[l], x),
                      NEW i \in 0..(Chunks(x) - 1)
               PROVE  Has(x, l, i)'
    BY <1>2 DEF Whole
  <2>1. Parts(toR'[l], x) = Parts(toR[l], x)  BY <1>1 DEF HasEnd
  <2>2. Has(x, l, i)  BY <2>1 DEF Whole, HasEnd
  <2> QED  BY <1>3, <2>1, <2>2
<1> QED  BY <1>4, <1>5, <1>6, <1>7, <1>8

-----------------------------------------------------------------------------
(* The target takes a message *)

\* What taking message m does to what its target expects: the rest of what it expected,
\* with the chunk, or a file of which it has nothing yet.
Expects(m) ==
  \A x \in Transfer : receiving'[x[1]].round = x[2] =>
    \/ /\ receiving[x[1]].round = x[2]
       /\ receiving[x[1]].got \subseteq receiving'[x[1]].got
       /\ m.type = "file-chunk" /\ m.id = x => m.chunk \in receiving'[x[1]].got
    \/ m.type = "file-start" /\ m.id = x

LEMMA FlowTaken ==
  ASSUME TransferInv, FlowInv, NEW l \in Link, Taken(l),
         UNCHANGED <<rounds, on, next, pc, links>>, Expects(Head(toR[l])), Got'
  PROVE  FlowInv'
<1> DEFINE m == Head(toR[l])
<1> USE DEF FlowInv
<1>1. /\ toR[l] \in Seq(Wire) /\ toR[l] # <<>> /\ toR'[l] = Tail(toR[l])
      /\ \A k \in Link : k # l => toR'[k] = toR[k]
  BY TakenIs DEF TransferInv
<1>2. \A x \in Transfer :
        /\ Parts(toR[l], x) = Parts(toR'[l], x) \cup
             (IF m.type \in Part /\ m.id = x THEN {m} ELSE {})
        /\ Orderly(toR'[l], x)
        /\ m.type \in Part /\ m.id = x => \A v \in Parts(toR'[l], x) : Before(m, v)
  BY <1>1, PartsTail DEF Orders
<1> HIDE DEF m
<1>3. \A k \in Link, x \in Transfer : Parts(toR'[k], x) \subseteq Parts(toR[k], x)
  BY <1>1, <1>2
<1>4. \A x \in Transfer : At(x)' = At(x) /\ Chunks(x)' = Chunks(x)
  BY DEF At, Chunks
<1>5. Orders'  BY <1>1, <1>2 DEF Orders
<1>6. OneLink'
  <2>1. \A k \in Link, x \in Transfer : Parts(toR'[k], x) # {} => Parts(toR[k], x) # {}
    BY <1>3
  <2> QED  BY <2>1 DEF OneLink
<1>7. Sane'
  <2> SUFFICES ASSUME NEW k \in Link, NEW x \in Transfer, NEW w \in Parts(toR'[k], x)
               PROVE  /\ x[2] <= Len(rounds')
                      /\ Running(x)' => k = At(x)'
                      /\ w.type # "file-start" => pc'[x] # "start"
                      /\ w.type = "file-chunk" => w.chunk \in 0..(Chunks(x)' - 1)
    BY DEF Sane
  <2>1. w \in Parts(toR[k], x)  BY <1>3
  <2> QED  BY <1>4, <2>1 DEF Sane, Running
<1>8. Began'  BY <1>4 DEF Began, Running, links
<1>9. ASSUME NEW x \in Transfer, NEW k \in Link, NEW i, Has(x, k, i),
             m.type \in Part /\ m.id = x => k = l
      PROVE  Has(x, k, i)'
  <2>1. CASE m.type \in Part /\ m.id = x
    <3>1. /\ k = l /\ m \in Parts(toR[k], x) /\ Parts(toR[k], x) = Parts(toR'[k], x) \cup {m}
          /\ \A v \in Parts(toR'[k], x) : Before(m, v)
      BY <1>2, <1>9, <2>1
    <3>2. HasStart(toR'[k], x) => m.type = "file-start" /\ HasStart(toR[k], x)
      BY <3>1 DEF HasStart, Before
    <3>3. HasChunk(toR[k], x, i) =>
            HasChunk(toR'[k], x, i) \/ (m.type = "file-chunk" /\ m.chunk = i)
      BY <3>1 DEF HasChunk
    <3>4. m.type = "file-start" => HasChunk(toR'[k], x, i)
      BY <3>1, <3>3, <1>9 DEF Has, HasStart
    <3>5. receiving'[x[1]].round = x[2] => i \in receiving'[x[1]].got \/ HasChunk(toR'[k], x, i)
      BY <2>1, <3>3, <3>4, <1>9 DEF Has, Expects, m
    <3> QED  BY <3>2, <3>4, <3>5 DEF Has
  <2>2. CASE ~(m.type \in Part /\ m.id = x)
    <3>1. Parts(toR'[k], x) = Parts(toR[k], x)  BY <1>1, <1>2, <2>2
    <3>2. receiving'[x[1]].round = x[2] =>
            receiving[x[1]].round = x[2] /\ receiving[x[1]].got \subseteq receiving'[x[1]].got
      BY <2>2 DEF Expects, m, Part
    <3> QED  BY <3>1, <3>2, <1>9 DEF Has, HasChunk, HasStart
  <2> QED  BY <2>1, <2>2
<1>10. Flows'
  <2> SUFFICES ASSUME NEW x \in Transfer, pc[x] = "chunk", Arrives(At(x)),
                      NEW i \in 0..(next[x] - 1)
               PROVE  Has(x, At(x), i)'
    BY <1>4 DEF Flows, Arrives, links
  <2>1. PICK k \in Link : k = At(x) /\ k = At(x)'
    <3>1. At(x) \in Link
      <4>1. Running(x)  BY DEF Running
      <4> QED  BY <4>1, RunningIs DEF TransferInv, SenderInv
    <3> QED  BY <1>4, <3>1
  <2>2. Has(x, k, i)  BY <2>1 DEF Flows
  <2>3. m.type \in Part /\ m.id = x => k = l
    <3>1. m.type \in Part /\ m.id = x => m \in Parts(toR[l], x)  BY <1>2
    <3> QED  BY <2>1, <3>1 DEF Sane, Running
  <2>4. Has(x, k, i)'  BY <1>9, <2>2, <2>3
  <2> QED  BY <2>1, <2>4
<1>11. Whole'
  <2> SUFFICES ASSUME NEW x \in Transfer, NEW k \in Link, HasEnd(toR'[k], x),
                      NEW i \in 0..(Chunks(x) - 1)
               PROVE  Has(x, k, i)'
    BY <1>4 DEF Whole
  <2>1. HasEnd(toR[k], x)  BY <1>3 DEF HasEnd
  <2>2. Has(x, k, i)  BY <2>1 DEF Whole
  <2>3. m.type \in Part /\ m.id = x => k = l
    <3>1. m.type \in Part /\ m.id = x => m \in Parts(toR[l], x)  BY <1>2
    <3> QED  BY <2>1, <3>1 DEF OneLink, HasEnd
  <2> QED  BY <1>9, <2>2, <2>3
<1> QED  BY <1>5, <1>6, <1>7, <1>8, <1>10, <1>11

LEMMA FlowRecvR ==
  ASSUME TransferInv, FlowInv, NEW l \in Link, RecvR(l)
  PROVE  FlowInv'
<1> DEFINE m == Head(toR[l])
           t == l[1]
           x == m.id
<1> USE DEF TransferInv
<1>1. /\ Taken(l) /\ UNCHANGED <<rounds, on, next, pc, links>>
      /\ \/ m.type = "file-start" /\ TakeStart(l, x)
         \/ m.type \in {"file-chunk", "file-end"} /\ TakeUnknown(l, x)
         \/ m.type = "file-chunk" /\ TakeChunk(l, x, m.chunk)
         \/ m.type = "file-end" /\ TakeEnd(l, x)
         \/ m.type = "message" /\ UNCHANGED receiving
  BY DEF RecvR, Taken, transfer
<1>2. /\ m \in Fit(l, "message") /\ toR[l] \in Seq(Wire) /\ toR[l] # <<>>
      /\ t \in Target
  BY <1>1, TakenIs DEF Link
<1>3. /\ m.type # "message" => x \in Transfer /\ x[1] = t /\ x = <<t, x[2]>> /\ x[2] \in Round
      /\ m.chunk \in Nat
  BY <1>2 DEF Fit, Wire, Transfer
<1>4. m.type \in Part => m \in Parts(toR[l], x)
  BY <1>2, PartsTail
<1>5. m.type \in Part => x[2] <= Len(rounds)
      /\ (m.type = "file-chunk" => m.chunk \in 0..(Chunks(x) - 1))
  BY <1>3, <1>4 DEF FlowInv, Sane, Part
<1>6. /\ receiving \in [Target -> [round : 0..MaxRounds, got : SUBSET Nat]]
      /\ \A s \in Target : Chunks(s)' = Chunks(s)
      /\ \A y \in Transfer : y[1] \in Target /\ y[2] # 0 /\ y = <<y[1], y[2]>>
  BY <1>1 DEF TypeOK, Chunks, Transfer, Round
<1> HIDE DEF m, x, t
<1>7. Expects(m) /\ Got'
  <2>1. CASE UNCHANGED receiving /\ (m.type # "file-chunk" \/ receiving[t].round # x[2])
    <3>1. Got'  BY <1>1, <2>1 DEF FlowInv, Got, Chunks
    <3>2. Expects(m)  BY <1>3, <2>1 DEF Expects, x
    <3> QED  BY <3>1, <3>2
  <2>2. CASE m.type = "file-start" /\ receiving' = [receiving EXCEPT ![t] = [round |-> x[2], got |-> {}]]
    <3>1. \A s \in Target : receiving'[s] =
            IF s = t THEN [round |-> x[2], got |-> {}] ELSE receiving[s]
      BY <1>2, <1>6, <2>2
    <3>2. Got'  BY <1>1, <1>5, <2>2, <3>1 DEF FlowInv, Got, Chunks, Part
    <3>3. Expects(m)  BY <1>3, <1>6, <2>2, <3>1 DEF Expects, x
    <3> QED  BY <3>2, <3>3
  <2>3. CASE m.type = "file-chunk" /\ TakeChunk(l, x, m.chunk)
    <3>1. /\ receiving[t].round = x[2]
          /\ receiving' = [receiving EXCEPT ![t].got = @ \cup {m.chunk}]
      BY <2>3 DEF TakeChunk, t
    <3>2. \A s \in Target :
            /\ receiving'[s].round = receiving[s].round
            /\ receiving'[s].got = IF s = t THEN receiving[s].got \cup {m.chunk} ELSE receiving[s].got
            /\ s # t => receiving'[s] = receiving[s]
      BY <1>2, <1>6, <3>1
    <3>3. receiving[t] # Nothing
      BY <1>3, <2>3, <3>1 DEF Nothing, Round
    <3>4. Got'
      BY <1>1, <1>3, <1>5, <2>3, <3>1, <3>2, <3>3 DEF FlowInv, Got, Chunks, Part
    <3>5. Expects(m)  BY <1>3, <1>6, <2>3, <3>2 DEF Expects, x
    <3> QED  BY <3>4, <3>5
  <2>4. CASE m.type = "file-end" /\ receiving' = [receiving EXCEPT ![t] = Nothing]
    <3>1. \A s \in Target : receiving'[s] = IF s = t THEN Nothing ELSE receiving[s]
      BY <1>2, <1>6, <2>4
    <3>2. Got'  BY <1>1, <3>1 DEF FlowInv, Got, Chunks
    <3>3. Expects(m)  BY <1>6, <2>4, <3>1 DEF Expects, Nothing
    <3> QED  BY <3>2, <3>3
  <2> QED  BY <1>1, <2>1, <2>2, <2>3, <2>4 DEF TakeStart, TakeUnknown, TakeEnd, t
<1> QED  BY <1>1, <1>7, FlowTaken DEF m

-----------------------------------------------------------------------------
(* The sender sends a part *)

\* Parts of transfer x are sent: they arrive or are dropped.
Adds(x, parts) ==
  /\ \A l \in Link, y \in Transfer :
       Parts(toR'[l], y) =
         Parts(toR[l], y) \cup (IF y = x /\ l = At(x) /\ Arrives(l) THEN parts ELSE {})
  /\ Orders'

LEMMA SendAdds ==
  ASSUME TypeOK, Orders, NEW x \in Transfer, At(x) \in Link,
         NEW w \in Wire, w.type \in Part, w.id = x,
         \A v \in Parts(toR[At(x)], x) : Before(v, w),
         SendS(At(x), <<w>>)
  PROVE  Adds(x, {w})
<1> DEFINE l == At(x)
<1>1. toR \in [Link -> Seq(Wire)]  BY DEF TypeOK
<1>2. toR[l] \o <<w>> = Append(toR[l], w)  BY <1>1, QueueAppend
<1>3. \A k \in Link : toR'[k] = IF k = l /\ Arrives(l) THEN Append(toR[k], w) ELSE toR[k]
  BY <1>1, <1>2 DEF SendS
<1>4. \A y \in Transfer :
        /\ Parts(Append(toR[l], w), y) = Parts(toR[l], y) \cup (IF y = x THEN {w} ELSE {})
        /\ Orderly(Append(toR[l], w), y)
  BY <1>1, PartsAppend DEF Orders
<1> HIDE DEF l
<1>5. Orders'  BY <1>3, <1>4 DEF Orders
<1>6. \A k \in Link, y \in Transfer :
        Parts(toR'[k], y) =
          Parts(toR[k], y) \cup (IF y = x /\ k = l /\ Arrives(k) THEN {w} ELSE {})
  BY <1>3, <1>4
<1> QED  BY <1>5, <1>6 DEF Adds, l

LEMMA SendTwoAdds ==
  ASSUME TypeOK, Orders, NEW x \in Transfer, At(x) \in Link,
         NEW v \in Wire, v.type = "file-chunk", v.id = x,
         NEW w \in Wire, w.type = "file-end", w.id = x,
         \A u \in Parts(toR[At(x)], x) : u.type # "file-end",
         SendS(At(x), Append(<<v>>, w))
  PROVE  Adds(x, {v, w})
<1> DEFINE l == At(x)
           r == Append(toR[l], v)
<1>1. toR \in [Link -> Seq(Wire)]  BY DEF TypeOK
<1>2. r \in Seq(Wire) /\ toR[l] \o Append(<<v>>, w) = Append(r, w)
  <2>0. toR[l] \in Seq(Wire)  BY <1>1
  <2> HIDE DEF l
  <2>1. r \in Seq(Wire) /\ r = toR[l] \o <<v>>  BY <2>0, QueueAppend
  <2>2. toR[l] \o Append(<<v>>, w) = Append(toR[l] \o <<v>>, w)  BY <2>0
  <2> QED  BY <2>1, <2>2
<1>3. \A k \in Link : toR'[k] = IF k = l /\ Arrives(l) THEN Append(r, w) ELSE toR[k]
  BY <1>1, <1>2 DEF SendS
<1>4. \A y \in Transfer :
        /\ Parts(r, y) = Parts(toR[l], y) \cup (IF y = x THEN {v} ELSE {})
        /\ Orderly(r, y)
  BY <1>1, PartsAppend DEF Orders, Before, Part
<1> HIDE DEF l, r
<1>5. \A y \in Transfer : w.type \in Part /\ w.id = y => \A u \in Parts(r, y) : Before(u, w)
  BY <1>4 DEF Before, l
<1>6. \A y \in Transfer :
        /\ Parts(Append(r, w), y) = Parts(r, y) \cup (IF y = x THEN {w} ELSE {})
        /\ Orderly(Append(r, w), y)
  BY <1>2, <1>4, <1>5, PartsAppend DEF Part
<1>7. Orders'  BY <1>3, <1>6 DEF Orders
<1>8. \A k \in Link, y \in Transfer :
        Parts(toR'[k], y) =
          Parts(toR[k], y) \cup (IF y = x /\ k = l /\ Arrives(k) THEN {v, w} ELSE {})
  BY <1>3, <1>4, <1>6
<1> QED  BY <1>7, <1>8 DEF Adds, l

\* A step sends parts of transfer x, leaves x in state end_ and next at n.
GoesOn(x, parts, n, end_) ==
  /\ Running(x) /\ Adds(x, parts) /\ n \in Nat
  /\ end_ \in {"start", "chunk", "cut", "ok"}
  /\ Moves(x, end_) /\ next' = [next EXCEPT ![x] = n]
  /\ UNCHANGED <<rounds, on, links, receiving>>
  /\ \A w \in parts :
       \/ w.type = "file-start" /\ pc[x] = "start" /\ end_ = "start"
       \/ w.type = "file-chunk" /\ w.chunk = next[x] /\ pc[x] = "chunk" /\ end_ # "start"
       \/ w.type = "file-end" /\ end_ = "ok" /\ n = Chunks(x)
  /\ end_ = "start" => pc[x] = "start"
  /\ end_ = "chunk" => n < Chunks(x)
  /\ end_ \in {"chunk", "ok"} =>
       \/ n = 0
       \/ /\ pc[x] = "chunk" /\ n = next[x] + 1
          /\ \E w \in parts : w.type = "file-chunk" /\ w.chunk = next[x]

LEMMA GoesOnFlow ==
  ASSUME TransferInv, FlowInv, NEW x \in Transfer, NEW parts, NEW n, NEW end_,
         GoesOn(x, parts, n, end_)
  PROVE  FlowInv'
<1> SUFFICES
      ASSUME n \in Nat, end_ \in {"start", "chunk", "cut", "ok"},
             Running(x), Adds(x, parts),
             Moves(x, end_), next' = [next EXCEPT ![x] = n],
             UNCHANGED <<rounds, on, links, receiving>>,
             \A w \in parts :
               \/ w.type = "file-start" /\ pc[x] = "start" /\ end_ = "start"
               \/ w.type = "file-chunk" /\ w.chunk = next[x] /\ pc[x] = "chunk" /\ end_ # "start"
               \/ w.type = "file-end" /\ end_ = "ok" /\ n = Chunks(x),
             end_ = "start" => pc[x] = "start",
             end_ = "chunk" => n < Chunks(x),
             end_ \in {"chunk", "ok"} =>
               \/ n = 0
               \/ /\ pc[x] = "chunk" /\ n = next[x] + 1
                  /\ \E w \in parts : w.type = "file-chunk" /\ w.chunk = next[x]
      PROVE  FlowInv'
  BY DEF GoesOn
<1> USE DEF TransferInv, FlowInv
<1>1. PICK l \in Link :
        /\ l = At(x) /\ x[2] <= Len(rounds) /\ x[2] \in Nat
        /\ Len(rounds) \in Nat /\ Chunks(x) \in Nat /\ next[x] \in Nat
  <2>1. At(x) \in Link /\ x[2] \in Round /\ x[2] <= Len(rounds) /\ Chunks(x) \in Nat
    BY RunningIs DEF SenderInv
  <2>2. next[x] \in Nat /\ Len(rounds) \in Nat  BY CallIsTransfer DEF TypeOK
  <2> QED  BY <2>1, <2>2 DEF Round
<1>2. /\ pc'[x] = end_
      /\ \A y \in Transfer : y # x =>
           /\ pc'[y] = pc[y] \/ (Running(y) /\ pc'[y] = "cut")
           /\ next'[y] = next[y]
      /\ next'[x] = n
      /\ \A y \in Transfer : At(y)' = At(y) /\ Chunks(y)' = Chunks(y) /\ y[1] \in Target
      /\ \A k : Arrives(k)' = Arrives(k)
  BY DEF TypeOK, At, Chunks, Transfer, Arrives, links, Moves, Running
<1>3. \A k \in Link, y \in Transfer :
        Parts(toR'[k], y) = Parts(toR[k], y) \cup (IF y = x /\ k = l /\ Arrives(k) THEN parts ELSE {})
  BY <1>1 DEF Adds
<1>4. Running(x) /\ ~HasEnd(toR[l], x)
  <2>1. Running(x)  OBVIOUS
  <2>2. ASSUME HasEnd(toR[l], x)  PROVE pc[x] = "ok"
    <3>1. PICK j \in 1..Len(toR[l]) : toR[l][j].type = "file-end" /\ toR[l][j].id = x
      BY <2>2 DEF HasEnd, Parts
    <3>2. j \in EndsIn(toR[l], x)  BY <3>1 DEF EndsIn
    <3> QED  BY <1>1, <3>2 DEF OnceInv, Ends
  <2> QED  BY <2>1, <2>2 DEF Running
<1>5. \A k \in Link : Parts(toR[k], x) # {} => k = l
  BY <1>1, <1>4 DEF Sane
<1>6. Orders'  BY DEF Adds
<1>7. OneLink'
  <2> SUFFICES ASSUME NEW k \in Link, NEW j \in Link, NEW y \in Transfer,
                      Parts(toR'[k], y) # {}, Parts(toR'[j], y) # {}
               PROVE  k = j
    BY DEF OneLink
  <2>1. CASE y = x  BY <1>3, <1>5, <2>1
  <2>2. CASE y # x  BY <1>3, <2>2 DEF OneLink
  <2> QED  BY <2>1, <2>2
<1>8. Sane'
  <2> SUFFICES ASSUME NEW k \in Link, NEW y \in Transfer, NEW w \in Parts(toR'[k], y)
               PROVE  /\ y[2] <= Len(rounds')
                      /\ Running(y)' => k = At(y)'
                      /\ w.type # "file-start" => pc'[y] # "start"
                      /\ w.type = "file-chunk" => w.chunk \in 0..(Chunks(y)' - 1)
    BY DEF Sane
  <2>1. CASE w \in Parts(toR[k], y)
    <3>1. pc'[y] \in {"start", "chunk"} => Running(y)  BY <1>2, <1>4 DEF Running
    <3>2. w.type # "file-start" => pc'[y] # "start"  BY <1>1, <1>2, <2>1 DEF Sane
    <3> QED  BY <1>2, <2>1, <3>1, <3>2 DEF Sane, Running
  <2>2. CASE y = x /\ k = l /\ w \in parts
    <3>1. w.type = "file-chunk" => w.chunk \in 0..(Chunks(x) - 1)
      BY <1>1, <2>2 DEF Began
    <3> QED  BY <1>1, <1>2, <2>2, <3>1
  <2> QED  BY <1>3, <2>1, <2>2
<1>9. Began'
  <2> SUFFICES ASSUME NEW y \in Transfer
               PROVE  /\ Running(y)' => sEnd'[At(y)'] # "new"
                      /\ pc'[y] = "chunk" => next'[y] < Chunks(y)'
    BY DEF Began
  <2>1. CASE y = x  BY <1>1, <1>2, <1>4, <2>1 DEF Began, links
  <2>2. CASE y # x  BY <1>2, <2>2 DEF Began, Running, links
  <2> QED  BY <2>1, <2>2
<1>10. Got'  BY DEF Got, Chunks
<1>11. ASSUME NEW y \in Transfer, NEW k \in Link, NEW i, Has(y, k, i), y # x \/ pc[x] = "chunk"
       PROVE  Has(y, k, i)'
  <2>1. /\ HasChunk(toR[k], y, i) => HasChunk(toR'[k], y, i)
        /\ HasStart(toR'[k], y) => HasStart(toR[k], y)
    BY <1>3, <1>11 DEF HasChunk, HasStart
  <2> QED  BY <1>11, <2>1 DEF Has
<1>12. ASSUME Arrives(l), pc[x] = "chunk", n = next[x] + 1,
              \E w \in parts : w.type = "file-chunk" /\ w.chunk = next[x],
              NEW i \in 0..(n - 1)
       PROVE  Has(x, l, i)'
  <2>1. CASE i = next[x]
    <3>1. HasChunk(toR'[l], x, i)  BY <1>1, <1>3, <1>12, <2>1 DEF HasChunk
    <3> QED  BY <3>1 DEF Has
  <2>2. CASE i # next[x]
    <3>1. i \in 0..(next[x] - 1)  BY <1>1, <1>12, <2>2
    <3>2. Has(x, l, i)  BY <1>1, <1>12, <3>1 DEF Flows
    <3> QED  BY <1>1, <1>11, <1>12, <3>2
  <2> QED  BY <2>1, <2>2
<1>13. Flows'
  <2> SUFFICES ASSUME NEW y \in Transfer, pc'[y] = "chunk", Arrives(At(y))',
                      NEW i \in 0..(next'[y] - 1)
               PROVE  Has(y, At(y), i)'
    BY DEF Flows
  <2>1. PICK k \in Link : k = At(y) /\ k = At(y)' /\ Arrives(k)
    <3>1. Running(y)  BY <1>2, <1>4 DEF Running
    <3> QED  BY <1>2, <3>1, RunningIs DEF SenderInv
  <2>2. Has(y, k, i)'
    <3>1. CASE y = x
      <4>1. k = l /\ end_ = "chunk" /\ i \in 0..(n - 1)  BY <1>1, <1>2, <2>1, <3>1
      <4>2. n # 0  BY <4>1
      <4> QED  BY <1>12, <2>1, <3>1, <4>1, <4>2
    <3>2. CASE y # x
      <4>1. pc[y] = "chunk" /\ next'[y] = next[y]  BY <1>2, <3>2 DEF Running
      <4>2. Has(y, k, i)  BY <2>1, <4>1 DEF Flows
      <4> QED  BY <1>11, <3>2, <4>2
    <3> QED  BY <3>1, <3>2
  <2> QED  BY <2>1, <2>2
<1>14. Whole'
  <2> SUFFICES ASSUME NEW y \in Transfer, NEW k \in Link, HasEnd(toR'[k], y),
                      NEW i \in 0..(Chunks(y) - 1)
               PROVE  Has(y, k, i)'
    BY <1>2 DEF Whole
  <2>1. CASE y = x
    <3>1. k = l /\ Arrives(l) /\ end_ = "ok" /\ n = Chunks(x)
      <4>1. PICK w \in Parts(toR'[k], x) : w.type = "file-end"  BY <2>1 DEF HasEnd
      <4>2. w \notin Parts(toR[k], x)  BY <1>4, <1>5, <4>1 DEF HasEnd
      <4>3. k = l /\ Arrives(l) /\ w \in parts  BY <1>3, <4>1, <4>2
      <4> QED  BY <1>1, <4>1, <4>3
    <3>2. n # 0 /\ i \in 0..(n - 1)  BY <1>1, <2>1, <3>1
    <3> QED  BY <1>12, <2>1, <3>1, <3>2
  <2>2. CASE y # x
    <3>1. HasEnd(toR[k], y)  BY <1>3, <2>2 DEF HasEnd
    <3> QED  BY <1>11, <2>2, <3>1 DEF Whole
  <2> QED  BY <2>1, <2>2
<1> QED  BY <1>6, <1>7, <1>8, <1>9, <1>10, <1>13, <1>14

LEMMA FlowProceed ==
  ASSUME TransferInv, FlowInv, NEW x \in Transfer, Running(x), NEW notes, NEW n,
         Proceed(x, notes, n), UNCHANGED <<rounds, on, links, receiving>>,
         \/ pc[x] = "start" /\ notes = <<>> /\ n = 0
         \/ pc[x] = "chunk" /\ n = next[x] + 1 /\ notes = <<FileChunk(x, next[x])>>
  PROVE  FlowInv'
<1> USE DEF TransferInv
<1>1. At(x) \in Link /\ Chunks(x) \in Nat /\ pc[x] # "ok"
  BY RunningIs DEF SenderInv
<1>2. PICK l \in Link : l = At(x)
  BY <1>1
<1>3. Chunks(x) \in Nat /\ next[x] \in Nat /\ n \in Nat
  BY <1>1 DEF TypeOK
<1> DEFINE v == FileChunk(x, next[x])
           w == Note("file-end", x)
<1>4. /\ v \in Wire /\ v.type = "file-chunk" /\ v.id = x /\ v.chunk = next[x]
      /\ w \in Wire /\ w.type = "file-end" /\ w.id = x
  BY <1>3, TransferIsId DEF FileChunk, Note, Wire, MessageType
<1>5. \A u \in Parts(toR[l], x) : u.type # "file-end"
  <2> SUFFICES ASSUME NEW u \in Parts(toR[l], x), u.type = "file-end"  PROVE FALSE
    OBVIOUS
  <2>1. PICK j \in 1..Len(toR[l]) : toR[l][j] = u /\ u.id = x  BY DEF Parts
  <2>2. j \in EndsIn(toR[l], x)  BY <2>1 DEF EndsIn
  <2>3. pc[x] = "ok"  BY <2>2 DEF OnceInv, Ends
  <2> QED  BY <1>1, <1>2, <2>3
<1>6. PICK end_ \in {"ok", "chunk", "cut"} :
        /\ Moves(x, end_) /\ next' = [next EXCEPT ![x] = n]
        /\ \/ n = Chunks(x) /\ end_ = "ok" /\ SendS(l, Append(notes, w))
           \/ n < Chunks(x) /\ end_ # "ok" /\ SendS(l, notes)
  BY <1>2, ProceedMoves
<1> HIDE DEF v, w
<1> DEFINE end == IF n = Chunks(x) THEN {w} ELSE {}
           parts == (IF pc[x] = "chunk" THEN {v} ELSE {}) \cup end
<1>7. Orders /\ TypeOK /\ toR \in [Link -> Seq(Wire)]  BY DEF FlowInv, TypeOK
<1>8. Adds(x, parts)
  <2>1. CASE pc[x] = "start" /\ n = Chunks(x)
    <3>1. SendS(l, <<w>>) /\ parts = {w}  BY <1>3, <1>6, <2>1
    <3>2. \A u \in Parts(toR[l], x) : Before(u, w)  BY <1>4, <1>5 DEF Before
    <3> QED  BY <1>2, <1>4, <1>7, <3>1, <3>2, SendAdds DEF Part
  <2>2. CASE pc[x] = "start" /\ n # Chunks(x)
    <3>1. SendS(l, <<>>) /\ parts = {}  BY <1>6, <2>2
    <3>2. toR[l] \o <<>> = toR[l]  BY <1>7, ConcatEmptySeq
    <3>3. toR' = toR  BY <1>7, <3>1, <3>2 DEF SendS
    <3> HIDE DEF parts
    <3> QED  BY <1>7, <3>1, <3>3 DEF Adds, Orders
  <2>3. CASE pc[x] = "chunk" /\ n = Chunks(x)
    <3>1. SendS(l, Append(<<v>>, w)) /\ parts = {v, w}
      BY <1>2, <1>3, <1>6, <2>3 DEF v
    <3> HIDE DEF parts
    <3> QED  BY <1>2, <1>4, <1>5, <1>7, <3>1, SendTwoAdds
  <2>4. CASE pc[x] = "chunk" /\ n # Chunks(x)
    <3>1. SendS(l, <<v>>) /\ parts = {v}  BY <1>2, <1>6, <2>4 DEF v
    <3>2. \A u \in Parts(toR[l], x) : Before(u, v)  BY <1>4, <1>5 DEF Before
    <3> HIDE DEF parts
    <3> QED  BY <1>2, <1>4, <1>7, <3>1, <3>2, SendAdds DEF Part
  <2> QED  BY <2>1, <2>2, <2>3, <2>4
<1>9. \A u \in parts :
        \/ u.type = "file-start" /\ pc[x] = "start" /\ end_ = "start"
        \/ u.type = "file-chunk" /\ u.chunk = next[x] /\ pc[x] = "chunk" /\ end_ # "start"
        \/ u.type = "file-end" /\ end_ = "ok" /\ n = Chunks(x)
  BY <1>2, <1>3, <1>4, <1>6
<1>10. end_ \in {"chunk", "ok"} =>
           \/ n = 0
           \/ /\ pc[x] = "chunk" /\ n = next[x] + 1
              /\ \E u \in parts : u.type = "file-chunk" /\ u.chunk = next[x]
  BY <1>4
<1>11. end_ = "chunk" => n < Chunks(x)
  BY <1>2, <1>6
<1>12. /\ end_ \in {"start", "chunk", "cut", "ok"} /\ end_ # "start" /\ n \in Nat
       /\ Moves(x, end_) /\ next' = [next EXCEPT ![x] = n]
  BY <1>2, <1>3, <1>6
<1> HIDE DEF parts, TransferInv
<1>13. end_ = "start" => pc[x] = "start"  BY <1>12
<1>14. GoesOn(x, parts, n, end_)  BY <1>8, <1>9, <1>10, <1>11, <1>12, <1>13 DEF GoesOn
<1> QED  BY <1>14, GoesOnFlow

LEMMA FlowStartTimeout ==
  ASSUME TransferInv, FlowInv, NEW x \in Transfer, StartTimeout(x), Again(x)
  PROVE  FlowInv'
<1> USE DEF TransferInv
<1>1. /\ pc[x] = "start" /\ Running(x)
      /\ UNCHANGED <<rounds, on, next, pc, links, receiving>>
      /\ SendS(At(x), <<Note("file-start", x)>>)
  BY DEF StartTimeout, Expired, receiver, Running
<1>2. At(x) \in Link /\ next[x] \in Nat
  BY <1>1, RunningIs DEF SenderInv, TypeOK
<1> DEFINE w == Note("file-start", x)
<1>3. w \in Wire /\ w.type = "file-start" /\ w.id = x
  BY TransferIsId DEF Note, Wire, MessageType
<1> HIDE DEF w
<1>4. \A v \in Parts(toR[At(x)], x) : Before(v, w)
  BY <1>1, <1>2, <1>3 DEF FlowInv, Sane, Before
<1>5. Adds(x, {w})
  BY <1>1, <1>2, <1>3, <1>4, SendAdds DEF FlowInv, Part, w
<1>6. Moves(x, "start") /\ next' = [next EXCEPT ![x] = next[x]]
  BY <1>1 DEF TypeOK, Moves
<1>7. GoesOn(x, {w}, next[x], "start")
  BY <1>1, <1>2, <1>3, <1>5, <1>6 DEF GoesOn
<1> HIDE DEF TransferInv
<1> QED  BY <1>7, GoesOnFlow

\* A call of which nothing has been sent yet.
LEMMA FlowStart ==
  ASSUME TransferInv, FlowInv, NEW f \in Offered, Start(f)
  PROVE  FlowInv'
<1> DEFINE to == {l \in Link : l[1] \in Ready /\ entry[l[1]] = l[2] /\ Arrives(l)}
           w == [l \in Link |-> Note("file-start", <<l[1], Fresh>>)]
<1> USE DEF TransferInv, FlowInv
<1>1. /\ Fresh \in Round
      /\ rounds' = Append(rounds, f)
      /\ pc' = [x \in Transfer |-> IF x \in Ready \X {Fresh} THEN "start" ELSE pc[x]]
      /\ on' = [x \in Transfer |-> IF x \in Ready \X {Fresh} THEN entry[x[1]] ELSE on[x]]
      /\ UNCHANGED <<entry, next, links, receiver>>
      /\ toR' = [l \in Link |-> IF l \in to THEN Append(toR[l], w[l]) ELSE toR[l]]
  BY DEF Start
<1>2. f \in Call /\ Len(rounds) \in Nat /\ rounds \in Seq(Call)
  <2>1. \A x \in Transfer : Running(x) => x[2] <= before  BY DEF Start
  <2> QED  BY <1>1, <2>1, OfferedIs DEF TypeOK, Call
<1>3. /\ Len(rounds') = Fresh /\ Fresh = Len(rounds) + 1
      /\ \A k \in 1..Len(rounds) : rounds'[k] = rounds[k]
  BY <1>1, <1>2, QueueAppend DEF Fresh
<1>4. \A x \in Transfer : x[1] \in Target /\ x[2] \in Round /\ x = <<x[1], x[2]>>
                          /\ (x[2] <= Len(rounds) => Chunks(x)' = Chunks(x))
  BY <1>3 DEF Transfer, Chunks, Round
<1>5. \A l \in Link : l[1] \in Target /\ l[2] \in Conn /\ l = <<l[1], l[2]>>
  BY DEF Link
<1>6. \A l \in to : /\ w[l] \in Wire /\ w[l].type = "file-start" /\ w[l].id = <<l[1], Fresh>>
                    /\ <<l[1], Fresh>> \in Transfer /\ l[1] \in Ready
                    /\ l = <<l[1], entry[l[1]]>>
  BY <1>1, <1>5, TransferIsId DEF Note, Wire, MessageType, Transfer, AckId
<1> HIDE DEF to, w
<1>7. \A l \in Link, x \in Transfer :
        /\ Parts(toR'[l], x) =
             Parts(toR[l], x) \cup (IF l \in to /\ x = <<l[1], Fresh>> THEN {w[l]} ELSE {})
        /\ Orderly(toR'[l], x)
        /\ x[2] = Fresh => Parts(toR[l], x) = {}
  <2> SUFFICES ASSUME NEW l \in Link, NEW x \in Transfer
               PROVE  /\ Parts(toR'[l], x) = Parts(toR[l], x) \cup
                           (IF l \in to /\ x = <<l[1], Fresh>> THEN {w[l]} ELSE {})
                      /\ Orderly(toR'[l], x)
                      /\ x[2] = Fresh => Parts(toR[l], x) = {}
    OBVIOUS
  <2>1. x[2] = Fresh => Parts(toR[l], x) = {}
    <3>1. \A v \in Parts(toR[l], x) : x[2] <= Len(rounds)  BY DEF Sane
    <3>2. x[2] = Fresh => ~(x[2] <= Len(rounds))  BY <1>2, <1>3
    <3> QED  BY <3>1, <3>2
  <2>2. toR[l] \in Seq(Wire) /\ Orderly(toR[l], x)  BY DEF TypeOK, Orders
  <2>3. CASE l \in to
    <3>1. toR'[l] = Append(toR[l], w[l])  BY <1>1, <2>3
    <3>2. /\ Parts(Append(toR[l], w[l]), x) = Parts(toR[l], x) \cup
               (IF w[l].type \in Part /\ w[l].id = x THEN {w[l]} ELSE {})
          /\ /\ Orderly(toR[l], x)
             /\ w[l].type \in Part /\ w[l].id = x => \A v \in Parts(toR[l], x) : Before(v, w[l])
             => Orderly(Append(toR[l], w[l]), x)
      BY <1>6, <2>2, <2>3, PartsAppend
    <3>3. w[l].id = x => x[2] = Fresh
      <4>1. w[l].id = <<l[1], Fresh>>  BY <1>6, <2>3
      <4>2. <<l[1], Fresh>>[2] = Fresh  OBVIOUS
      <4> QED  BY <4>1, <4>2, Zenon
    <3> QED  BY <1>6, <2>1, <2>2, <2>3, <3>1, <3>2, <3>3 DEF Part
  <2>4. CASE l \notin to
    <3>1. toR'[l] = toR[l]  BY <1>1, <2>4
    <3> QED  BY <2>1, <2>2, <2>4, <3>1
  <2> QED  BY <2>3, <2>4
<1>8. \A x \in Transfer :
        /\ x[2] = Fresh /\ x[1] \in Ready => pc'[x] = "start"
        /\ ~(x[2] = Fresh /\ x[1] \in Ready) =>
             /\ pc'[x] = pc[x] /\ At(x)' = At(x)
             /\ Running(x)' => Running(x) /\ x[2] <= Len(rounds) /\ At(x) \in Link
  <2> SUFFICES ASSUME NEW x \in Transfer
               PROVE  /\ x[2] = Fresh /\ x[1] \in Ready => pc'[x] = "start"
                      /\ ~(x[2] = Fresh /\ x[1] \in Ready) =>
                           /\ pc'[x] = pc[x] /\ At(x)' = At(x)
                           /\ Running(x)' => Running(x) /\ x[2] <= Len(rounds) /\ At(x) \in Link
    OBVIOUS
  <2>1. x \in Ready \X {Fresh} <=> x[2] = Fresh /\ x[1] \in Ready  BY <1>4
  <2>2. ~(x[2] = Fresh /\ x[1] \in Ready) => pc'[x] = pc[x] /\ At(x)' = At(x)
    BY <1>1, <2>1 DEF At
  <2>3. Running(x) => x[2] <= Len(rounds) /\ At(x) \in Link
    BY RunningIs DEF SenderInv
  <2> QED  BY <1>1, <2>1, <2>2, <2>3 DEF Running
<1>9. \A x \in Transfer : x[2] = Fresh /\ x[1] \in Ready =>
        At(x)' = <<x[1], entry[x[1]]>> /\ At(x)' \in Link
  BY <1>1, <1>4 DEF At, Ready, Link
<1>10. \A l \in Link, x \in Transfer : Parts(toR'[l], x) # {} =>
         \/ x[2] = Fresh /\ x[1] \in Ready /\ l = At(x)'
            /\ \A v \in Parts(toR'[l], x) : v.type = "file-start"
         \/ x[2] # Fresh /\ Parts(toR'[l], x) = Parts(toR[l], x)
  <2> SUFFICES ASSUME NEW l \in Link, NEW x \in Transfer, Parts(toR'[l], x) # {}
               PROVE  \/ x[2] = Fresh /\ x[1] \in Ready /\ l = At(x)'
                         /\ \A v \in Parts(toR'[l], x) : v.type = "file-start"
                      \/ x[2] # Fresh /\ Parts(toR'[l], x) = Parts(toR[l], x)
    OBVIOUS
  <2>1. CASE x[2] = Fresh
    <3>1. l \in to /\ x = <<l[1], Fresh>> /\ Parts(toR'[l], x) = {w[l]}
      BY <1>7, <2>1
    <3>2. x[1] = l[1]  BY <3>1
    <3> QED  BY <1>6, <1>9, <2>1, <3>1, <3>2
  <2>2. CASE x[2] # Fresh
    <3>1. ~(x = <<l[1], Fresh>>)  BY <2>2
    <3> QED  BY <1>7, <2>2, <3>1
  <2> QED  BY <2>1, <2>2
<1>11. Orders'  BY <1>7 DEF Orders
<1>12. OneLink'
  <2> SUFFICES ASSUME NEW k \in Link, NEW j \in Link, NEW x \in Transfer,
                      Parts(toR'[k], x) # {}, Parts(toR'[j], x) # {}
               PROVE  k = j
    BY DEF OneLink
  <2> QED  BY <1>10 DEF OneLink
<1>13. Sane'
  <2> SUFFICES ASSUME NEW k \in Link, NEW x \in Transfer, NEW v \in Parts(toR'[k], x)
               PROVE  /\ x[2] <= Len(rounds')
                      /\ Running(x)' => k = At(x)'
                      /\ v.type # "file-start" => pc'[x] # "start"
                      /\ v.type = "file-chunk" => v.chunk \in 0..(Chunks(x)' - 1)
    BY DEF Sane
  <2>1. CASE x[2] = Fresh
    BY <1>2, <1>3, <1>10, <2>1
  <2>2. CASE x[2] # Fresh
    <3>1. v \in Parts(toR[k], x)  BY <1>10, <2>2
    <3>2. x[2] <= Len(rounds) /\ x[2] \in Nat  BY <1>4, <3>1 DEF Sane, Round
    <3> QED  BY <1>2, <1>3, <1>4, <1>8, <2>2, <3>1, <3>2 DEF Sane
  <2> QED  BY <2>1, <2>2
<1>14. Began'
  <2> SUFFICES ASSUME NEW x \in Transfer
               PROVE  /\ Running(x)' => sEnd'[At(x)'] # "new"
                      /\ pc'[x] = "chunk" => next'[x] < Chunks(x)'
    BY DEF Began
  <2>1. CASE x[2] = Fresh /\ x[1] \in Ready
    <3>1. entry[At(x)'[1]] = At(x)'[2] /\ At(x)' \in Link  BY <1>9, <2>1
    <3>2. sEnd[At(x)'] = "open"  BY <3>1 DEF SenderInv, ListedOpen
    <3> QED  BY <1>1, <1>8, <2>1, <3>2 DEF links
  <2>2. CASE ~(x[2] = Fresh /\ x[1] \in Ready)
    <3>1. pc'[x] = "chunk" => Running(x)'  BY DEF Running
    <3> QED  BY <1>1, <1>4, <1>8, <2>2, <3>1 DEF Began, links
  <2> QED  BY <2>1, <2>2
<1>15. Got'
  <2> SUFFICES ASSUME NEW t \in Target, receiving[t] # Nothing
               PROVE  /\ receiving[t].round <= Len(rounds')
                      /\ receiving[t].got \subseteq 0..(Chunks(<<t, receiving[t].round>>)' - 1)
    BY <1>1 DEF Got, receiver
  <2>1. /\ receiving[t].round <= Len(rounds) /\ receiving[t].round \in Round
        /\ receiving[t].got \subseteq 0..(Chunks(<<t, receiving[t].round>>) - 1)
    BY DEF Got, Fits
  <2>2. <<t, receiving[t].round>> \in Transfer  BY <2>1 DEF Transfer
  <2>3. Chunks(<<t, receiving[t].round>>)' = Chunks(<<t, receiving[t].round>>)
    <3> DEFINE r == receiving[t].round
    <3>1. r \in 1..Len(rounds)  BY <1>2, <2>1 DEF Round
    <3>2. receiving' = receiving  BY <1>1 DEF receiver
    <3> QED  BY <1>3, <3>1, <3>2 DEF Chunks
  <2>4. receiving[t].round <= Len(rounds')
    BY <1>2, <1>3, <2>1 DEF Round
  <2> QED  BY <2>1, <2>3, <2>4
<1>16. Flows'
  <2> SUFFICES ASSUME NEW x \in Transfer, pc'[x] = "chunk", Arrives(At(x))',
                      NEW i \in 0..(next[x] - 1)
               PROVE  Has(x, At(x), i)'
    BY <1>1 DEF Flows
  <2>1. PICK k \in Link : k = At(x) /\ k = At(x)' /\ pc[x] = "chunk" /\ x[2] <= Len(rounds)
    BY <1>8 DEF Running
  <2>2. Arrives(k)  BY <1>1, <2>1 DEF Arrives, links
  <2>3. Has(x, k, i)  BY <2>1, <2>2 DEF Flows
  <2>4. x[2] # Fresh  BY <1>2, <1>3, <1>4, <2>1 DEF Round
  <2>5. Parts(toR'[k], x) = Parts(toR[k], x)
    <3>1. x # <<k[1], Fresh>>  BY <1>4, <2>4
    <3> QED  BY <1>7, <3>1
  <2> QED  BY <1>1, <2>1, <2>3, <2>5 DEF Has, HasChunk, HasStart, receiver
<1>17. Whole'
  <2> SUFFICES ASSUME NEW x \in Transfer, NEW k \in Link, HasEnd(toR'[k], x),
                      NEW i \in 0..(Chunks(x)' - 1)
               PROVE  Has(x, k, i)'
    BY DEF Whole
  <2>1. x[2] # Fresh /\ Parts(toR'[k], x) = Parts(toR[k], x)
    BY <1>10 DEF HasEnd
  <2>2. HasEnd(toR[k], x) /\ x[2] <= Len(rounds)  BY <2>1 DEF HasEnd, Sane
  <2>3. Has(x, k, i)  BY <1>4, <2>2 DEF Whole
  <2> QED  BY <1>1, <2>1, <2>3 DEF Has, HasChunk, HasStart, receiver
<1> QED  BY <1>11, <1>12, <1>13, <1>14, <1>15, <1>16, <1>17

-----------------------------------------------------------------------------
(* Every step *)

LEMMA FlowInit == Init => FlowInv
<1> SUFFICES ASSUME Init  PROVE FlowInv
  OBVIOUS
<1>1. \A l \in Link, x \in Transfer : Parts(toR[l], x) = {} /\ Orderly(toR[l], x)
  BY PartsNone DEF Init, Quiet
<1>2. Orders /\ OneLink /\ Sane /\ Whole
  BY <1>1 DEF Orders, OneLink, Sane, Whole, HasEnd
<1>3. Began /\ Got /\ Flows
  BY DEF Init, Quiet, Began, Got, Flows, Running
<1> QED  BY <1>2, <1>3 DEF FlowInv

LEMMA RunningLink ==
  ASSUME TransferInv
  PROVE  \A x \in Transfer : Running(x) => At(x) \in Link
BY RunningIs DEF TransferInv, SenderInv

\* A step that changes nothing on the way to the target.
LEMMA FlowStill ==
  ASSUME TransferInv, FlowInv, UNCHANGED <<rounds, on, next, pc, toR, receiving>>,
         \A l \in Link : Closes(l)
  PROVE  FlowInv'
<1> QED  BY LeftSame, FlowQuiet, RunningLink

LEMMA SameLinks ==
  ASSUME UNCHANGED links
  PROVE  \A l \in Link : Closes(l)
BY DEF links, Closes, Arrives

LEMMA FlowCancel ==
  ASSUME TransferInv, FlowInv, NEW ts \in SUBSET Target, Cancels(ts),
         UNCHANGED <<rounds, on, next, toR, receiving>>,
         \A l \in Link : Closes(l)
  PROVE  FlowInv'
<1>1. \A x \in Transfer : pc'[x] = IF x[1] \in ts /\ pc[x] = "start" THEN "cut" ELSE pc[x]
  BY CancelIs DEF TransferInv
<1>2. \A x \in Transfer : pc'[x] = pc[x] \/ (Running(x) /\ pc'[x] \in {"cut", "stranded"})
  BY <1>1 DEF Running
<1> QED  BY <1>2, LeftSame, FlowQuiet, RunningLink

LEMMA FlowGivesUp ==
  ASSUME TransferInv, FlowInv, NEW x \in Transfer, Running(x), NEW end_ \in {"cut", "stranded"},
         pc' = [pc EXCEPT ![x] = end_],
         UNCHANGED <<rounds, on, next, toR, receiving, links>>
  PROVE  FlowInv'
<1>1. \A y \in Transfer : pc'[y] = pc[y] \/ (Running(y) /\ pc'[y] \in {"cut", "stranded"})
  BY DEF TransferInv, TypeOK
<1> QED  BY <1>1, LeftSame, SameLinks, FlowQuiet, RunningLink

LEMMA FlowForget ==
  ASSUME TransferInv, FlowInv, NEW t \in Target, Forget(t),
         UNCHANGED <<rounds, on, next, pc, toR, links>>
  PROVE  FlowInv'
<1>1. \A s \in Target : receiving'[s] = receiving[s] \/ receiving'[s] = Nothing
  BY DEF Forget, TransferInv, TypeOK
<1> QED  BY <1>1, LeftSame, SameLinks, FlowQuiet, RunningLink

LEMMA FlowMessage ==
  ASSUME TransferInv, FlowInv, NEW m \in Message, NEW key \in [Target -> Target],
         SendMessage(m, key)
  PROVE  FlowInv'
<1> USE DEF TransferInv
<1>1. UNCHANGED <<rounds, on, next, pc, receiving, links>>
  BY DEF SendMessage, transfer, receiver
<1>2. ASSUME NEW l \in Link  PROVE Left(l)
  <2> DEFINE w == Note("message", <<key[l[1]], m>>)
  <2>1. w \in Wire /\ w.type \notin Part
    BY DEF Note, Wire, AckId, MessageType, Part, Link
  <2> HIDE DEF w
  <2>2. toR[l] \in Seq(Wire)  BY DEF TypeOK
  <2>3. toR'[l] = toR[l] \/ toR'[l] = Append(toR[l], w)
    BY DEF SendMessage, w
  <2>4. ASSUME NEW x
        PROVE  /\ Parts(Append(toR[l], w), x) = Parts(toR[l], x)
               /\ Orderly(toR[l], x) => Orderly(Append(toR[l], w), x)
    <3>1. /\ Parts(Append(toR[l], w), x) =
               Parts(toR[l], x) \cup (IF w.type \in Part /\ w.id = x THEN {w} ELSE {})
          /\ /\ Orderly(toR[l], x)
             /\ w.type \in Part /\ w.id = x => \A v \in Parts(toR[l], x) : Before(v, w)
             => Orderly(Append(toR[l], w), x)
      BY <2>1, <2>2, PartsAppend
    <3> QED  BY <2>1, <3>1
  <2> QED  BY <2>3, <2>4 DEF Left
<1> QED  BY <1>1, <1>2, SameLinks, FlowQuiet, RunningLink

LEMMA FlowCloseR ==
  ASSUME TransferInv, FlowInv, NEW l \in Link, CloseR(l)
  PROVE  FlowInv'
<1> USE DEF TransferInv
<1>1. /\ UNCHANGED <<rounds, on, next, pc, sEnd>>
      /\ rEnd' = [rEnd EXCEPT ![l] = "closed"]
      /\ toR' = [toR EXCEPT ![l] = <<>>]
  BY DEF CloseR, transfer
<1>2. \A s \in Target : receiving'[s] = receiving[s] \/ receiving'[s] = Nothing
  BY DEF CloseR, TypeOK
<1>3. ASSUME NEW k \in Link  PROVE Left(k) /\ Closes(k)
  BY <1>1 DEF Left, Closes, Arrives, TypeOK
<1> QED  BY <1>1, <1>2, <1>3, FlowQuiet, RunningLink

LEMMA FlowRecvS ==
  ASSUME TransferInv, FlowInv, NEW l \in Link, RecvS(l)
  PROVE  FlowInv'
<1> DEFINE id == Head(toS[l]).id
<1> USE DEF TransferInv
<1>1. UNCHANGED <<rounds, on, links, receiving>>
  BY DEF RecvS, receiver
<1>2. CASE UNCHANGED <<pc, next, toR>>  BY <1>1, <1>2, FlowStill, SameLinks
<1>3. CASE Head(toS[l]).type = "file-start-ack" /\ pc[id] = "start" /\ Proceed(id, <<>>, 0)
  <2>1. toS[l] \in Seq(Fit(l, "ack")) /\ toS[l] # <<>>  BY DEF RecvS, Fits
  <2>2. Head(toS[l]) \in Fit(l, "ack")  BY <2>1, HeadTailProperties
  <2>3. id \in Transfer /\ Running(id)  BY <1>3, <2>2 DEF Fit, Wire, Running
  <2> QED  BY <1>1, <1>3, <2>3, FlowProceed
<1> QED  BY <1>2, <1>3 DEF RecvS

LEMMA FlowNext == TransferInv /\ FlowInv /\ [Next]_vars => FlowInv'
<1> SUFFICES ASSUME TransferInv, FlowInv, [Next]_vars  PROVE FlowInv'
  OBVIOUS
<1>1. ASSUME NEW f \in Offered, Start(f)  PROVE FlowInv'
  BY <1>1, FlowStart
<1>2. ASSUME NEW x \in Transfer, StartTimeout(x)  PROVE FlowInv'
  <2>1. Running(x) /\ UNCHANGED <<rounds, on, next, receiving, links>>
    BY <1>2 DEF StartTimeout, Expired, receiver, Running
  <2>2. CASE Again(x)  BY <1>2, <2>2, FlowStartTimeout
  <2>3. CASE ~Again(x)
    <3>1. pc' = [pc EXCEPT ![x] = IF x[1] \in active THEN "stranded" ELSE "cut"]
          /\ UNCHANGED toR
      BY <1>2, <2>3 DEF StartTimeout
    <3> QED  BY <2>1, <3>1, FlowGivesUp
  <2> QED  BY <2>2, <2>3
<1>3. ASSUME NEW x \in Transfer, Chunk(x)  PROVE FlowInv'
  BY <1>3, FlowProceed DEF Chunk, receiver, Running
<1>4. ASSUME NEW x \in Transfer, ReadError(x)  PROVE FlowInv'
  BY <1>4, FlowGivesUp DEF ReadError, receiver, wires, Running
<1>5. ASSUME NEW l \in Link, RecvS(l)  PROVE FlowInv'
  BY <1>5, FlowRecvS
<1>6. ASSUME NEW id \in AckId, AckTimeout(id)  PROVE FlowInv'
  BY <1>6, FlowStill, SameLinks DEF AckTimeout, transfer, receiver, wires
<1>7. ASSUME NEW m \in Message, NEW key \in [Target -> Target], SendMessage(m, key)
      PROVE  FlowInv'
  BY <1>7, FlowMessage
<1>8. ASSUME NEW l \in Link, OpenS(l)  PROVE FlowInv'
  <2>1. \A k \in Link : Closes(k)
    BY <1>8 DEF OpenS, Closes, Arrives, TransferInv, TypeOK
  <2> QED  BY <1>8, <2>1, FlowStill DEF OpenS, transfer, receiver, wires
<1>9. ASSUME NEW l \in Link, CloseS(l)  PROVE FlowInv'
  <2>1. \A k \in Link : Closes(k)
    BY <1>9 DEF CloseS, Closes, Arrives, TransferInv, TypeOK
  <2>2. UNCHANGED <<rounds, on, next, toR, receiving>> /\ l[1] \in Target
    BY <1>9 DEF CloseS, receiver, Link
  <2>3. CASE Cancel({l[1]})
    BY <2>1, <2>2, <2>3, CancelCancels, FlowCancel DEF TransferInv
  <2>4. CASE pc' = pc  BY <2>1, <2>2, <2>4, FlowStill
  <2> QED  BY <1>9, <2>3, <2>4 DEF CloseS
<1>10. ASSUME NEW t \in Target, AddS(t)  PROVE FlowInv'
  BY <1>10, FlowStill, SameLinks DEF AddS, transfer, receiver, wires
<1>11. ASSUME NEW gone, NEW come, NEW ts \in SUBSET Target, Relist(gone, come, ts)
       PROVE  FlowInv'
  <2>1. \A k \in Link : Closes(k)
    BY <1>11 DEF Relist, Closes, Arrives, TransferInv, TypeOK
  <2>2. Cancels(ts)  BY <1>11 DEF Relist, Cancels, TransferInv, TypeOK
  <2> QED  BY <1>11, <2>1, <2>2, FlowCancel DEF Relist, receiver
<1>12. ASSUME NEW t \in Target, RemoveS(t)  PROVE FlowInv'
  BY <1>11, <1>12, OrAllIs DEF RemoveS, TransferInv
<1>13. ASSUME NEW wanted \in SUBSET Target, JoinSuccessS(wanted)  PROVE FlowInv'
  BY <1>11, <1>13 DEF JoinSuccessS
<1>14. CASE LeaveS
  BY <1>11, <1>14, OrAllIs DEF LeaveS, Ready, TransferInv
<1>15. CASE DetachS
  BY <1>15, FlowStill, SameLinks DEF DetachS, transfer, receiver, wires
<1>16. ASSUME NEW l \in Link, OpenR(l)  PROVE FlowInv'
  <2>1. \A k \in Link : Closes(k)
    BY <1>16 DEF OpenR, Closes, Arrives, TransferInv, TypeOK
  <2> QED  BY <1>16, <2>1, FlowStill DEF OpenR, transfer, wires
<1>17. ASSUME NEW l \in Link, CloseR(l)  PROVE FlowInv'
  BY <1>17, FlowCloseR
<1>18. ASSUME NEW t \in Target, DetachR(t) \/ ReceiveTimeout(t)  PROVE FlowInv'
  BY <1>18, FlowForget DEF DetachR, ReceiveTimeout, transfer, wires
<1>19. ASSUME NEW l \in Link, RecvR(l)  PROVE FlowInv'
  BY <1>19, FlowRecvR
<1>20. CASE Remount
  BY <1>20, FlowStill, SameLinks DEF Remount, receiver, links, wires
<1>21. CASE UNCHANGED vars
  BY <1>21, FlowStill, SameLinks DEF vars, transfer, receiver, wires
<1> QED
  BY <1>1, <1>2, <1>3, <1>4, <1>5, <1>6, <1>7, <1>8, <1>9, <1>10, <1>12, <1>13,
     <1>14, <1>15, <1>16, <1>17, <1>18, <1>19, <1>20, <1>21 DEF Next

\* The last part of a file that a target expects comes when it has all the others: the
\* receiver may compare the number of its chunks and assemble the file.
THEOREM TransferWhole == Spec => []EndsWhole
<1>1. TransferInv /\ FlowInv => EndsWhole
  <2> SUFFICES ASSUME TransferInv, FlowInv, NEW l \in Link, toR[l] # <<>>,
                      Head(toR[l]).type = "file-end",
                      receiving[l[1]].round = Head(toR[l]).id[2]
               PROVE  receiving[l[1]].got = 0..(Chunks(Head(toR[l]).id) - 1)
    BY DEF EndsWhole
  <2>1. toR[l] \in Seq(Wire) /\ toR[l] \in Seq(Fit(l, "message"))
    BY DEF TransferInv, TypeOK, Fits
  <2>2. Head(toR[l]) \in Fit(l, "message")  BY <2>1, HeadTailProperties
  <2>3. PICK m \in Wire, x \in Transfer : m = Head(toR[l]) /\ x = m.id /\ x[1] = l[1]
    BY <2>2 DEF Fit
  <2>4. m.type = "file-end" /\ receiving[x[1]].round = x[2] /\ x[1] \in Target
    <3>1. x[1] \in Target  BY DEF Transfer
    <3> QED  BY <2>3, <3>1
  <2>5. Orderly(toR[l], x)  BY DEF FlowInv, Orders
  <2>6. Parts(toR[l], x) = {m}
    <3>1. Parts(toR[l], x) = Parts(Tail(toR[l]), x) \cup {m}
          /\ \A v \in Parts(Tail(toR[l]), x) : Before(m, v)
      BY <2>1, <2>3, <2>4, <2>5, PartsTail DEF Part
    <3> QED  BY <2>4, <3>1 DEF Before
  <2>7. HasEnd(toR[l], x) /\ \A i : ~HasChunk(toR[l], x, i)
    BY <2>4, <2>6 DEF HasEnd, HasChunk
  <2>8. \A i \in 0..(Chunks(x) - 1) : i \in receiving[x[1]].got
    BY <2>4, <2>7 DEF FlowInv, Whole, Has
  <2>9. receiving[x[1]].got \subseteq 0..(Chunks(x) - 1)
    <3>1. receiving[x[1]] # Nothing /\ x = <<x[1], x[2]>>
      BY <2>4 DEF Nothing, Transfer, Round
    <3> QED  BY <2>4, <3>1 DEF FlowInv, Got
  <2> QED  BY <2>3, <2>8, <2>9
<1> QED  BY <1>1, TransferAlways, FlowInit, FlowNext, PTL DEF Spec
=============================================================================
