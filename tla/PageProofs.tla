------------------------------ MODULE PageProofs ------------------------------
(***************************************************************************)
(* What holds of the components of the page: of SendPanel, Inbox,          *)
(* StatsFeed, Spotlight, Address, UploadBar and the conversions of Labels, *)
(* each for all values of its constants. They share no state; the module   *)
(* has a part for each.                                                    *)
(***************************************************************************)
EXTENDS SendPanel, Inbox, StatsFeed, Spotlight, Address, UploadBar, Labels,
  SequenceTheorems, FiniteSetTheorems, TLAPS

-----------------------------------------------------------------------------
(***************************************************************************)
(* The send panel, for every set of peers, names and selections and every  *)
(* bound. The archive has every file of a selection under a name of its    *)
(* own: createZipFromFiles tries more counters than there are names taken, *)
(* so one is free (FreeName). The toasts need TraySound, that a toast      *)
(* which is wanted stands and one that stands is wanted, and ToastSays,    *)
(* that the toast of a zip, a success or a wait is what the panel is       *)
(* doing; that the panel never gets stuck needs Whereabouts, where the     *)
(* picked file is between two effects.                                     *)
(***************************************************************************)

-----------------------------------------------------------------------------
(* The archive *)

\* A set of numbers has a least one.
LEMMA LeastNatural ==
  ASSUME NEW S \in SUBSET Nat, S # {}
  PROVE  \E x \in S : \A y \in S : x <= y
<1> DEFINE R == {ss \in Nat \X Nat : ss[1] < ss[2]}
<1>1. IsWellFoundedOn(R, Nat)
  BY NatLessThanWellFounded DEF OpToRel
<1>2. \A x, y \in Nat : y < x => <<y, x>> \in R
  OBVIOUS
<1> HIDE DEF R
<1>3. PICK x \in S : \A y \in S : <<y, x>> \notin R
  BY <1>1, WFMin
<1>4. ASSUME NEW y \in S  PROVE x <= y
  <2>1. x \in Nat /\ y \in Nat  OBVIOUS
  <2>2. ~(y < x)  BY <1>2, <1>3, <2>1
  <2> QED  BY <2>1, <2>2
<1> QED  BY <1>4

Name == Seq(Nat)

\* Different counters make different names, of the kind names are.
LEMMA CountersDiffer ==
  ASSUME NEW name \in Name
  PROVE  /\ \A n \in Nat : WithCounter(name, n) \in Name
         /\ \A m, n \in Nat : WithCounter(name, m) = WithCounter(name, n) => m = n
<1>1. \A n \in Nat : WithCounter(name, n) \in Name
  BY AppendProperties DEF WithCounter, Name
<1>2. ASSUME NEW m \in Nat, NEW n \in Nat, WithCounter(name, m) = WithCounter(name, n)
      PROVE  m = n
  <2>1. Len(name) \in Nat  BY LenProperties DEF Name
  <2>2. \A k \in Nat : /\ Len(Append(name, k)) = Len(name) + 1
                       /\ Append(name, k)[Len(name) + 1] = k
    BY AppendProperties DEF Name
  <2>3. CASE m = 0 \/ n = 0
    <3>1. SUFFICES ASSUME m # n PROVE FALSE  OBVIOUS
    <3>2. PICK k \in Nat : name = Append(name, k)  BY <1>2, <2>3, <3>1 DEF WithCounter
    <3> QED  BY <2>1, <2>2, <3>2
  <2>4. CASE m # 0 /\ n # 0
    <3>1. Append(name, m) = Append(name, n)  BY <1>2, <2>4 DEF WithCounter
    <3> QED  BY <2>2, <3>1
  <2> QED  BY <2>3, <2>4
<1> QED  BY <1>1, <1>2

\* More counters are tried than there are names, so one of them is free, and a first one.
LEMMA FirstFreeIs ==
  ASSUME NEW used, IsFiniteSet(used), NEW name \in Name
  PROVE  FirstFree(used, name) \in Name \ used
<1> DEFINE c == Cardinality(used)
           free == {m \in 0..c : WithCounter(name, m) \notin used}
<1>1. c \in Nat  BY FS_CardinalityType
<1>2. free # {}
  <2> SUFFICES ASSUME free = {} PROVE FALSE  OBVIOUS
  <2> DEFINE f == [m \in 0..c |-> WithCounter(name, m)]
  <2>1. f \in [0..c -> used]  OBVIOUS
  <2>2. IsFiniteSet(0..c) /\ Cardinality(0..c) = c + 1  BY <1>1, FS_Interval
  <2>3. Cardinality(used) < Cardinality(0..c)  BY <1>1, <2>2
  <2> HIDE DEF c
  <2>4. PICK m, n \in 0..c : m # n /\ f[m] = f[n]
    <3> DEFINE D == 0..c
    <3>1. \E m, n \in D : m # n /\ f[m] = f[n]
      <4>1. f \in [D -> used] /\ IsFiniteSet(D) /\ Cardinality(used) < Cardinality(D)
        BY <2>1, <2>2, <2>3
      <4> HIDE DEF D, f
      <4> QED  BY ONLY IsFiniteSet(used), <4>1, FS_PigeonHole
    <3> QED  BY <3>1
  <2>5. WithCounter(name, m) = WithCounter(name, n)  BY <2>4
  <2> QED  BY <1>1, <2>4, <2>5, CountersDiffer
<1>3. free \in SUBSET Nat  BY <1>1
<1>4. PICK m \in free : \A k \in free : m <= k
  <2> HIDE DEF free
  <2> QED  BY <1>2, <1>3, LeastNatural
<1>5. m \in 0..c /\ WithCounter(name, m) \notin used
      /\ \A k \in 0..m - 1 : WithCounter(name, k) \in used
  <2>1. \A k \in 0..m - 1 : k \in 0..c /\ ~(m <= k)  BY <1>1
  <2> QED  BY <1>4, <2>1
<1>6. PICK n \in 0..c : /\ WithCounter(name, n) \notin used
                        /\ FirstFree(used, name) = WithCounter(name, n)
  BY <1>5 DEF FirstFree
<1> QED  BY <1>1, <1>6, CountersDiffer

\* One more name of its own.
LEMMA OneMoreName ==
  ASSUME NEW zip \in Seq(Name), IsFiniteSet(ToSet(zip)), Cardinality(ToSet(zip)) = Len(zip),
         NEW name \in Name,
         NEW more, more = Append(zip, FirstFree(ToSet(zip), name))
  PROVE  /\ more \in Seq(Name) /\ Len(more) = Len(zip) + 1
         /\ IsFiniteSet(ToSet(more)) /\ Cardinality(ToSet(more)) = Len(more)
<1> DEFINE new == FirstFree(ToSet(zip), name)
<1>1. new \in Name \ ToSet(zip)  BY FirstFreeIs
<1>2. more = Append(zip, new)  OBVIOUS
<1> HIDE DEF new
<1>3. /\ more \in Seq(Name) /\ Len(more) = Len(zip) + 1 /\ Len(zip) \in Nat
      /\ \A i \in 1..Len(zip) : more[i] = zip[i]
      /\ more[Len(zip) + 1] = new
  BY <1>1, <1>2, AppendProperties, LenProperties
<1>4. DOMAIN more = 1..Len(zip) + 1 /\ DOMAIN zip = 1..Len(zip)  BY <1>3, LenProperties
<1>5. ToSet(more) = ToSet(zip) \cup {new}
  <2>1. ASSUME NEW x \in ToSet(more) PROVE x \in ToSet(zip) \cup {new}
    <3>1. PICK i \in 1..Len(zip) + 1 : x = more[i]  BY <1>4 DEF ToSet
    <3>2. i \in 1..Len(zip) \/ i = Len(zip) + 1  BY <1>3
    <3> QED  BY <1>3, <1>4, <3>1, <3>2 DEF ToSet
  <2>2. ASSUME NEW x \in ToSet(zip) PROVE x \in ToSet(more)
    <3>1. PICK i \in 1..Len(zip) : x = zip[i]  BY <1>4 DEF ToSet
    <3>2. i \in 1..Len(zip) + 1 /\ x = more[i]  BY <1>3, <3>1
    <3> QED  BY <1>4, <3>2 DEF ToSet
  <2>3. new \in ToSet(more)
    <3>1. Len(zip) + 1 \in 1..Len(zip) + 1  BY <1>3
    <3> QED  BY <1>3, <1>4, <3>1 DEF ToSet
  <2> QED  BY <2>1, <2>2, <2>3
<1> QED  BY <1>1, <1>3, <1>5, FS_AddElement

\* Every file of a selection is in its archive, under a name of its own: by induction
\* over the files, as the set of lengths for which it fails would have a least one.
LEMMA ZipIs ==
  ASSUME NEW names \in Seq(Name)
  PROVE  LET zip == createZipFromFiles(names) IN
         zip \in Seq(Name) /\ Len(zip) = Len(names) /\ Cardinality(ToSet(zip)) = Len(zip)
<1> DEFINE L == Len(names)
           Good(z, i) == /\ z \in Seq(Name) /\ Len(z) = i
                         /\ IsFiniteSet(ToSet(z)) /\ Cardinality(ToSet(z)) = i
           next(z, i) == Append(z, FirstFree(ToSet(z), names[i]))
           upto(n, g) == /\ g = [i \in 0..n |-> IF i = 0 THEN <<>> ELSE next(g[i - 1], i)]
                         /\ \A i \in 0..n : Good(g[i], i)
           bad == {n \in 0..L : ~\E g : upto(n, g)}
<1>1. L \in Nat /\ DOMAIN names = 1..L /\ \A i \in 1..L : names[i] \in Name
  BY LenProperties, ElementOfSeq
<1> HIDE DEF L
<1>2. ASSUME NEW z, NEW i \in 1..L, Good(z, i - 1) PROVE Good(next(z, i), i)
  <2> DEFINE more == next(z, i)
  <2>1. more \in Seq(Name) /\ Len(more) = Len(z) + 1
        /\ IsFiniteSet(ToSet(more)) /\ Cardinality(ToSet(more)) = Len(more)
    BY <1>1, <1>2, OneMoreName
  <2>2. Len(z) + 1 = i  BY <1>1, <1>2
  <2> QED  BY <2>1, <2>2
<1>3. Good(<<>>, 0)
  <2>1. ToSet(<<>>) = {}  BY DEF ToSet
  <2> QED  BY <2>1, FS_EmptySet, EmptySeq
<1> HIDE DEF Good, next
<1>4. bad = {}
  <2> SUFFICES ASSUME bad # {} PROVE FALSE  OBVIOUS
  <2>1. PICK n \in bad : \A m \in bad : n <= m
    <3>1. bad \in SUBSET Nat  BY <1>1
    <3> HIDE DEF bad
    <3> QED  BY <3>1, LeastNatural
  <2>2. CASE n = 0
    <3> DEFINE h == [i \in 0..0 |-> <<>>]
    <3>1. h = [i \in 0..0 |-> IF i = 0 THEN <<>> ELSE next(h[i - 1], i)]
      <4>1. \A i \in 0..0 : i = 0  OBVIOUS
      <4> QED  BY <4>1
    <3>2. \A i \in 0..0 : i = 0 /\ h[i] = <<>>  OBVIOUS
    <3>3. upto(0, h)  BY <1>3, <3>1, <3>2
    <3> QED  BY <2>1, <2>2, <3>3
  <2>3. CASE n # 0
    <3>1. n \in 1..L /\ n - 1 \in 0..L /\ n - 1 \notin bad
      <4>1. n \in 0..L  OBVIOUS
      <4>2. n - 1 \in 0..L /\ ~(n <= n - 1)  BY <1>1, <2>3, <4>1
      <4> HIDE DEF bad
      <4> QED  BY <1>1, <2>1, <2>3, <4>1, <4>2
    <3>2. PICK g : upto(n - 1, g)  BY <3>1
    <3> DEFINE last == next(g[n - 1], n)
               h == [i \in 0..n |-> IF i = n THEN last ELSE g[i]]
    <3>3. Good(g[n - 1], n - 1)
      <4>1. n - 1 \in 0..n - 1  BY <1>1, <3>1
      <4> QED  BY <3>2, <4>1
    <3>4. Good(last, n)  BY <1>2, <3>1, <3>3
    <3> HIDE DEF last
    <3>5. \A i \in 0..n : Good(h[i], i)
      <4>1. \A i \in 0..n : i # n => i \in 0..n - 1  BY <3>1
      <4> QED  BY <3>2, <3>4, <4>1
    <3>6. ASSUME NEW i \in 0..n PROVE h[i] = IF i = 0 THEN <<>> ELSE next(h[i - 1], i)
      <4>1. CASE i = n
        <5>1. n - 1 \in 0..n /\ n - 1 # n  BY <3>1
        <5>2. h[n - 1] = g[n - 1] /\ h[n] = last  BY <5>1, <3>1
        <5> QED  BY <2>3, <4>1, <5>2 DEF last
      <4>2. CASE i # n
        <5>1. i \in 0..n - 1  BY <3>1, <4>2
        <5>2. g[i] = IF i = 0 THEN <<>> ELSE next(g[i - 1], i)  BY <3>2, <5>1
        <5>3. i # 0 => h[i - 1] = g[i - 1]
          <6>1. i # 0 => i - 1 \in 0..n /\ i - 1 # n  BY <3>1, <5>1
          <6> QED  BY <6>1
        <5> QED  BY <4>2, <5>2, <5>3
      <4> QED  BY <4>1, <4>2
    <3>7. h = [i \in 0..n |-> IF i = 0 THEN <<>> ELSE next(h[i - 1], i)]
      <4> DEFINE f == [i \in 0..n |-> IF i = 0 THEN <<>> ELSE next(h[i - 1], i)]
      <4>1. \A i \in 0..n : h[i] = f[i]
        <5> HIDE DEF h
        <5> QED  BY <3>6
      <4>2. h = [i \in 0..n |-> h[i]] /\ f = [i \in 0..n |-> f[i]]  OBVIOUS
      <4> HIDE DEF h, f
      <4>3. h = f  BY <4>1, <4>2
      <4> QED  BY <4>3 DEF f
    <3> HIDE DEF h
    <3>8. upto(n, h)  BY <3>5, <3>7
    <3> QED  BY <2>1, <3>8
  <2> QED  BY <2>2, <2>3
<1>5. PICK g : upto(L, g)
  <2>1. L \in 0..L  BY <1>1
  <2> QED  BY <1>4, <2>1
<1> DEFINE zip == CHOOSE z : z = [i \in 0..Len(names) |->
                                   IF i = 0 THEN <<>>
                                   ELSE Append(z[i - 1], FirstFree(ToSet(z[i - 1]), names[i]))]
<1>6. createZipFromFiles(names) = zip[Len(names)]
  BY DEF createZipFromFiles
<1>7. zip = [i \in 0..L |-> IF i = 0 THEN <<>> ELSE next(zip[i - 1], i)]
  BY <1>5 DEF L, next
<1>8. \A i \in 0..L : zip[i] = g[i]
  <2> HIDE DEF zip
  <2> DEFINE odd == {i \in 0..L : zip[i] # g[i]}
  <2> SUFFICES ASSUME odd # {} PROVE FALSE  OBVIOUS
  <2>1. PICK n \in odd : \A m \in odd : n <= m
    <3>1. odd \in SUBSET Nat  BY <1>1
    <3> HIDE DEF odd
    <3> QED  BY <3>1, LeastNatural
  <2>2. n \in 0..L /\ zip[n] # g[n]  OBVIOUS
  <2>3. /\ zip[n] = IF n = 0 THEN <<>> ELSE next(zip[n - 1], n)
        /\ g[n] = IF n = 0 THEN <<>> ELSE next(g[n - 1], n)
    BY <1>5, <1>7, <2>2
  <2>4. n # 0  BY <2>2, <2>3
  <2>5. n - 1 \in 0..L /\ ~(n <= n - 1)  BY <1>1, <2>2, <2>4
  <2>6. zip[n - 1] = g[n - 1]
    <3>1. n - 1 \notin odd
      <4> HIDE DEF odd
      <4> QED  BY <2>1, <2>5
    <3> QED  BY <2>5, <3>1
  <2> QED  BY <2>2, <2>3, <2>4, <2>6
<1> HIDE DEF zip
<1>9. Good(zip[L], L)
  <2>1. L \in 0..L  BY <1>1
  <2> QED  BY <1>5, <1>8, <2>1
<1>10. zip[L] = createZipFromFiles(names)  BY <1>6 DEF L
<1> QED  BY <1>9, <1>10 DEF Good, L

-----------------------------------------------------------------------------
(* The tray *)

In(t, id) == id \in t.shown \ t.exiting

\* Of each toast: an exit animation ends; one that stands goes with it; what is wanted
\* stands, and what stands is wanted.
TraySound(t) ==
  /\ t \in Tray
  /\ t.closing \subseteq {"sent", "sent again"}
  /\ \A id \in ToastId :
       /\ id \in t.exiting => t.leaving[id] > 0
       /\ In(t, id) /\ t.leaving[id] > 0 => id \in t.doomed
       /\ id \in t.wanted => In(t, id) \/ id \in t.doomed
       /\ In(t, id) => id \in t.wanted

\* What a change of one toast leaves of the others.
SameBut(t, new, id) ==
  \A o \in ToastId \ {id} :
    (In(new, o) <=> In(t, o)) /\ (o \in new.doomed <=> o \in t.doomed)

LEMMA AddedIs ==
  ASSUME NEW t, TraySound(t), NEW id \in ToastId, NEW auto \in BOOLEAN,
         auto => id \in {"sent", "sent again"}, NEW new, new = Added(t, id, auto)
  PROVE  /\ TraySound(new) /\ new.clicks = t.clicks /\ SameBut(t, new, id)
         /\ In(new, id) \/ id \in new.doomed
<1>1. /\ new.shown = t.shown \cup {id} /\ new.exiting = t.exiting
      /\ new.closing = IF auto THEN t.closing \cup {id} ELSE t.closing
      /\ new.leaving = t.leaving /\ new.clicks = t.clicks /\ new.wanted = t.wanted \cup {id}
      /\ new.doomed = IF t.leaving[id] > 0 THEN t.doomed \cup {id} ELSE t.doomed
  BY DEF Added, TraySound, Tray
<1>2. new \in Tray  BY DEF Added, TraySound, Tray
<1>3. t.leaving \in [ToastId -> Nat]  BY DEF TraySound, Tray
<1> QED  BY <1>1, <1>2, <1>3 DEF TraySound, In, SameBut

LEMMA RemovedIs ==
  ASSUME NEW t, TraySound(t), NEW id \in ToastId, NEW new, new = Removed(t, id)
  PROVE  /\ TraySound(new) /\ new.clicks = t.clicks /\ SameBut(t, new, id)
         /\ ~In(new, id)
<1>1. /\ new.shown = t.shown /\ new.exiting = t.exiting \cup ({id} \cap t.shown)
      /\ new.closing = t.closing \ {id} /\ new.clicks = t.clicks
      /\ new.leaving = [t.leaving EXCEPT ![id] = @ + 1] /\ new.wanted = t.wanted \ {id}
      /\ new.doomed = t.doomed \ {id}
  BY DEF Removed, TraySound, Tray
<1>2. t.leaving \in [ToastId -> Nat]  BY DEF TraySound, Tray
<1>3. new.leaving \in [ToastId -> Nat]  BY <1>1, <1>2
<1>4. new \in Tray  BY <1>3 DEF Removed, TraySound, Tray
<1>5. new.leaving[id] > 0 /\ \A o \in ToastId \ {id} : new.leaving[o] = t.leaving[o]
  BY <1>1, <1>2
<1>6. SameBut(t, new, id) /\ ~In(new, id)  BY <1>1 DEF In, SameBut
<1>7. \A o \in ToastId :
        /\ o \in new.exiting => new.leaving[o] > 0
        /\ In(new, o) /\ new.leaving[o] > 0 => o \in new.doomed
        /\ o \in new.wanted => In(new, o) \/ o \in new.doomed
        /\ In(new, o) => o \in new.wanted
  <2>1. ASSUME NEW o \in ToastId \ {id}
        PROVE  /\ o \in new.exiting => new.leaving[o] > 0
               /\ In(new, o) /\ new.leaving[o] > 0 => o \in new.doomed
               /\ o \in new.wanted => In(new, o) \/ o \in new.doomed
               /\ In(new, o) => o \in new.wanted
    BY <1>1, <1>5, <1>6 DEF TraySound, SameBut
  <2>2. id \notin new.wanted  BY <1>1
  <2> QED  BY <1>5, <1>6, <2>1, <2>2
<1> QED  BY <1>1, <1>4, <1>6, <1>7 DEF TraySound

LEMMA ExitedIs ==
  ASSUME NEW t, TraySound(t), NEW id \in ToastId, t.leaving[id] > 0,
         NEW new, new = Exited(t, id)
  PROVE  /\ TraySound(new) /\ new.clicks = t.clicks /\ SameBut(t, new, id)
         /\ ~In(new, id)
         /\ In(t, id) \/ id \in t.doomed => id \in new.doomed
<1>1. /\ new.shown = t.shown \ {id} /\ new.exiting = t.exiting \ {id}
      /\ new.closing = t.closing /\ new.clicks = t.clicks
      /\ new.leaving = [t.leaving EXCEPT ![id] = @ - 1] /\ new.wanted = t.wanted
      /\ new.doomed = t.doomed
  BY DEF Exited, TraySound, Tray
<1>2. t.leaving \in [ToastId -> Nat]  BY DEF TraySound, Tray
<1>3. new.leaving \in [ToastId -> Nat]  BY <1>1, <1>2
<1>4. new \in Tray  BY <1>3 DEF Exited, TraySound, Tray
<1> QED  BY <1>1, <1>2, <1>4 DEF TraySound, In, SameBut

\* The "waiting" toast stands, or why not.
Waited(t) == In(t, "waiting") \/ "waiting" \in t.doomed \/ t.clicks > 0

\* Each toast of the panel, by its id.
LEMMA Ids == /\ "waiting" \in ToastId /\ "zipping" \in ToastId
             /\ "sent" \in ToastId /\ "sent again" \in ToastId
             /\ "waiting" # "zipping" /\ "waiting" # "sent" /\ "waiting" # "sent again"
BY PanelAssumption DEF PanelAssumption

LEMMA WaitingIs ==
  ASSUME NEW t, TraySound(t)
  PROVE  /\ TraySound(Info(t, "waiting")) /\ Waited(Info(t, "waiting"))
         /\ TraySound(Dismissed(t, "waiting")) /\ ~In(Dismissed(t, "waiting"), "waiting")
<1>1. /\ TraySound(Info(t, "waiting"))
      /\ In(Info(t, "waiting"), "waiting") \/ "waiting" \in Info(t, "waiting").doomed
  BY Ids, AddedIs DEF Info
<1>2. TraySound(Dismissed(t, "waiting")) /\ ~In(Dismissed(t, "waiting"), "waiting")
  BY Ids, RemovedIs DEF Dismissed
<1> QED  BY <1>1, <1>2 DEF Waited

LEMMA OthersAre ==
  ASSUME NEW t, TraySound(t), NEW id \in ToastId \ {"waiting"},
         NEW new, \/ new = Info(t, id) \/ new = Dismissed(t, id)
                  \/ new = Message(t, id) /\ id \in {"sent", "sent again"}
  PROVE  /\ TraySound(new)
         /\ Waited(t) => Waited(new)
         /\ In(new, "waiting") <=> In(t, "waiting")
<1>1. TraySound(new) /\ new.clicks = t.clicks /\ SameBut(t, new, id)
  <2>1. CASE new = Dismissed(t, id)  BY <2>1, RemovedIs DEF Dismissed
  <2>2. CASE new = Info(t, id)  BY <2>2, AddedIs DEF Info
  <2>3. CASE new = Message(t, id) /\ id \in {"sent", "sent again"}
    BY <2>3, AddedIs DEF Message
  <2> QED  BY <2>1, <2>2, <2>3
<1> QED  BY <1>1, Ids DEF SameBut, Waited

LEMMA ResetToastsIs ==
  ASSUME NEW t, TraySound(t)
  PROVE  TraySound(ResetToasts(t)) /\ ~In(ResetToasts(t), "waiting")
<1>1. /\ TraySound(Dismissed(t, "waiting")) /\ ~In(Dismissed(t, "waiting"), "waiting")
  BY WaitingIs
<1> QED  BY <1>1, Ids, OthersAre DEF ResetToasts

\* The timers and the user.
LEMMA ToastStepIs ==
  ASSUME TraySound(tray), ToastStep
  PROVE  /\ TraySound(tray')
         /\ Waited(tray) => Waited(tray')
         /\ In(tray', "waiting") => In(tray, "waiting")
<1>1. PICK id \in ToastId : Exit(id) \/ AutoClose(id) \/ Click(id)
  BY DEF ToastStep, Timeouts
<1>2. CASE Exit(id)
  <2>1. /\ TraySound(tray') /\ tray'.clicks = tray.clicks /\ SameBut(tray, tray', id)
        /\ ~In(tray', id) /\ (In(tray, id) \/ id \in tray.doomed => id \in tray'.doomed)
    BY <1>2, ExitedIs DEF Exit
  <2> QED  BY <2>1, Ids DEF Waited, SameBut
<1>3. CASE AutoClose(id)
  <2>1. id \in {"sent", "sent again"}  BY <1>3 DEF AutoClose, TraySound
  <2>2. TraySound(tray') /\ tray'.clicks = tray.clicks /\ SameBut(tray, tray', id)
    BY <1>3, RemovedIs DEF AutoClose
  <2> QED  BY <2>1, <2>2, Ids DEF Waited, SameBut
<1>4. CASE Click(id)
  <2> DEFINE t == Removed(tray, id)
  <2>1. TraySound(t) /\ t.clicks = tray.clicks /\ SameBut(tray, t, id) /\ ~In(t, id)
    BY RemovedIs
  <2> DEFINE n == t.clicks + 1
  <2>2. tray' = [t EXCEPT !.clicks = n] /\ n \in Nat /\ n > 0
    <3>1. tray' = [t EXCEPT !.clicks = n]  BY <1>4 DEF Click
    <3>2. t.clicks \in Nat
      <4> HIDE DEF t
      <4> QED  BY <2>1 DEF TraySound, Tray
    <3> HIDE DEF t
    <3> QED  BY <3>1, <3>2
  <2> HIDE DEF t, n
  <2>3. /\ tray'.shown = t.shown /\ tray'.exiting = t.exiting /\ tray'.closing = t.closing
        /\ tray'.leaving = t.leaving /\ tray'.wanted = t.wanted /\ tray'.doomed = t.doomed
        /\ tray'.clicks = n /\ tray' \in Tray
    BY <2>1, <2>2 DEF TraySound, Tray
  <2>4. TraySound(tray')  BY <2>1, <2>3 DEF TraySound, In
  <2> QED  BY <2>1, <2>2, <2>3, <2>4, Ids DEF Waited, In, SameBut
<1> QED  BY <1>1, <1>2, <1>3, <1>4

-----------------------------------------------------------------------------
(* The invariant *)

ToastSays ==
  /\ panel.awaiting => Waited(tray)
  /\ In(tray, "waiting") => panel.awaiting

\* Where the picked file is: with the zip, in a call, waiting, or due to be sent.
Whereabouts ==
  /\ panel.pending <= picks /\ seen.pending <= picks
  /\ panel.zipping => panel.pending = NoFile /\ seen.pending < picks
  /\ panel.sendInProgress <=> panel.calling
  /\ panel.calling => panel.processing /\ panel.pending # NoFile
  /\ TimerOnlyWaits /\ (panel.awaiting => panel.pending # NoFile)
  /\ panel.pending # NoFile /\ ~panel.calling /\ ~panel.timer /\ ~stale =>
       hasReadyConnection /\ SendDue

\* The counts, and what the drag effect has seen.
Kept ==
  /\ dragging => seen.active
  /\ orphans <= mounts
  /\ AnnouncedOnce /\ (panel.succeeded => told < wins)

PanelInv ==
  /\ PanelTypeOK /\ TraySound(tray) /\ ToastSays /\ Whereabouts /\ Kept
  /\ ArchiveComplete

LEMMA Bounds ==
  /\ 0 \in 0..MaxPicks /\ 0 \in 0..MaxMounts /\ 0 \in 0..MaxLinks
  /\ 0 \in 0..MaxSends - 1 /\ MaxSends \in Nat /\ MaxPicks \in Nat
  /\ MaxLinks \in Nat /\ MaxMounts \in Nat
<1>1. MaxPicks \in Nat /\ MaxSends \in Nat \ {0} /\ MaxLinks \in Nat /\ MaxMounts \in Nat
  BY PanelAssumption, Zenon DEF PanelAssumption
<1> QED  BY <1>1

LEMMA PanelInitInv == PanelInit => PanelInv
<1> SUFFICES ASSUME PanelInit PROVE PanelInv  OBVIOUS
<1> USE DEF PanelInit, Mounted, Rendered, hasReadyConnection, NoFile
<1>1. TraySound(tray) /\ ~In(tray, "waiting")  BY DEF TraySound, Tray, NoToasts, In
<1>2. panel \in Panel
  BY Bounds DEF Panel, Flag
<1>3. PanelTypeOK
  <2>2. seen \in [pending : 0..MaxPicks, ready : Flag, inTransfer : Flag, sending : Flag,
                  active : Flag]
    BY Bounds DEF Flag
  <2> QED  BY <1>1, <1>2, <2>2, Bounds DEF PanelTypeOK, Flag, TraySound
<1>4. ToastSays  BY <1>1 DEF ToastSays
<1>5. Whereabouts  BY DEF Whereabouts, TimerOnlyWaits
<1>6. Kept  BY DEF Kept, AnnouncedOnce
<1>7. ArchiveComplete
  <2>1. ToSet(<<>>) = {}  BY DEF ToSet
  <2> QED  BY <2>1, FS_EmptySet, EmptySeq DEF ArchiveComplete
<1> QED  BY <1>1, <1>3, <1>4, <1>5, <1>6, <1>7 DEF PanelInv

\* resetTransferState.
LEMMA ResetIs ==
  ASSUME NEW p \in Panel, NEW r, r = Reset(p)
  PROVE  /\ r \in Panel /\ r.pending = NoFile /\ ~r.awaiting /\ ~r.processing /\ ~r.zipping
         /\ ~r.sendInProgress /\ ~r.timer
         /\ r.calling = p.calling /\ r.succeeded = p.succeeded
BY Bounds DEF Reset, Panel, NoFile, Flag

\* A panel with no file and nothing under way, whose toasts were dismissed.
Blank(p) == /\ p \in Panel /\ p.pending = NoFile /\ ~p.awaiting /\ ~p.processing /\ ~p.zipping
            /\ ~p.sendInProgress /\ ~p.timer /\ ~p.calling
LEMMA BlankInv ==
  ASSUME PanelInv, Blank(panel'), tray' = ResetToasts(tray),
         UNCHANGED <<picks, archive, dragging, seen, orphans, panelWorld, told, stale>>,
         wins' \in Nat, wins' >= wins, panel'.succeeded => told < wins'
  PROVE  PanelInv'
<1>1. TraySound(tray') /\ ~In(tray', "waiting")  BY ResetToastsIs DEF PanelInv
<1>2. PanelTypeOK'
  BY <1>1 DEF PanelInv, PanelTypeOK, Blank, panelWorld, TraySound, Panel
<1>3. ToastSays'  BY <1>1 DEF ToastSays, Blank
<1>4. Whereabouts'
  BY DEF PanelInv, Whereabouts, TimerOnlyWaits, Blank, NoFile, PanelTypeOK, Panel
<1>5. Kept'
  BY DEF PanelInv, Kept, AnnouncedOnce, Blank, PanelTypeOK, panelWorld
<1>6. ArchiveComplete'  BY DEF PanelInv, ArchiveComplete, Blank
<1> QED  BY <1>1, <1>2, <1>3, <1>4, <1>5, <1>6 DEF PanelInv

\* The panel is as it was, and the waiting toast too: what is left to show.
LEMMA PanelStays ==
  ASSUME PanelInv, UNCHANGED panel, TraySound(tray'),
         Waited(tray) => Waited(tray'), In(tray', "waiting") => In(tray, "waiting"),
         UNCHANGED <<picks, archive, wins, told>>,
         PanelTypeOK', Whereabouts', dragging' => seen'.active, orphans' <= mounts'
  PROVE  PanelInv'
<1>1. ToastSays'  BY DEF PanelInv, ToastSays
<1>2. Kept'  BY DEF PanelInv, Kept, AnnouncedOnce
<1>3. ArchiveComplete'  BY DEF PanelInv, ArchiveComplete
<1> QED  BY <1>1, <1>2, <1>3 DEF PanelInv

-----------------------------------------------------------------------------
(* The steps *)

\* The rest of handleFileSelection, after a pick and after the zip.
LEMMA TakeInv ==
  ASSUME PanelInv, NEW t, TraySound(t), ~In(t, "waiting"), NEW ready \in BOOLEAN,
         Take(panel, t, ready),
         picks' \in 1..MaxPicks, seen.pending < picks',
         ~panel.calling, panel.pending = NoFile,
         dragging' => dragging, dragging' \in BOOLEAN,
         UNCHANGED <<archive, seen, orphans, panelWorld, wins, told>>
  PROVE  PanelInv'
<1> DEFINE taken == [panel EXCEPT !.retryCount = 0, !.pending = picks', !.zipping = FALSE,
                                  !.zipToast = "no"]
<1>1. panel \in Panel /\ stale \in Flag  BY DEF PanelInv, PanelTypeOK
<1>2. picks' \in 0..MaxPicks /\ picks' # NoFile /\ ~panel.awaiting
  BY Bounds DEF PanelInv, Whereabouts, NoFile
<1>3. /\ taken \in Panel /\ taken.pending = picks' /\ ~taken.zipping
      /\ taken.awaiting = panel.awaiting /\ taken.timer = panel.timer
      /\ taken.calling = panel.calling /\ taken.sendInProgress = panel.sendInProgress
      /\ taken.processing = panel.processing /\ taken.succeeded = panel.succeeded
  <2> DEFINE n == picks'
  <2>1. n \in 0..MaxPicks /\ 0 \in 0..MaxSends - 1  BY <1>2, Bounds
  <2> HIDE DEF n
  <2>2. taken = [panel EXCEPT !.retryCount = 0, !.pending = n, !.zipping = FALSE,
                              !.zipToast = "no"]
    BY DEF n
  <2>3. /\ taken \in Panel /\ taken.pending = n /\ ~taken.zipping
        /\ taken.awaiting = panel.awaiting /\ taken.timer = panel.timer
        /\ taken.calling = panel.calling /\ taken.sendInProgress = panel.sendInProgress
        /\ taken.processing = panel.processing /\ taken.succeeded = panel.succeeded
    <3> HIDE DEF taken
    <3> QED  BY <1>1, <2>1, <2>2 DEF Panel, Flag
  <2> QED  BY <2>3 DEF n
<1>4. /\ panel' = IF ready THEN taken ELSE [taken EXCEPT !.awaiting = TRUE, !.timer = TRUE]
      /\ tray' = IF ready THEN t ELSE Info(t, "waiting")
      /\ stale' = (stale \/ (ready /\ ~hasReadyConnection))
  BY DEF Take
<1> HIDE DEF taken
<1>5. /\ panel' \in Panel /\ panel'.pending = picks' /\ ~panel'.zipping
      /\ panel'.calling = panel.calling /\ panel'.sendInProgress = panel.sendInProgress
      /\ panel'.processing = panel.processing /\ panel'.succeeded = panel.succeeded
      /\ IF ready THEN ~panel'.awaiting ELSE panel'.timer /\ panel'.awaiting
  BY <1>2, <1>3, <1>4 DEF Panel, Flag
<1>6. TraySound(tray') /\ IF ready THEN ~In(tray', "waiting") ELSE Waited(tray')
  BY <1>4, WaitingIs
<1>7. PanelTypeOK'
  <2>1. stale' \in Flag  BY <1>1, <1>4 DEF Flag
  <2> QED  BY <1>2, <1>5, <1>6, <2>1 DEF PanelInv, PanelTypeOK, TraySound, panelWorld, Flag
<1>8. ToastSays'  BY <1>5, <1>6 DEF ToastSays
<1>9. Whereabouts'
  <2>1. SendDue'  BY <1>5, Bounds DEF SendDue, PanelInv, PanelTypeOK
  <2>2. TimerOnlyWaits'  BY <1>2, <1>5 DEF TimerOnlyWaits
  <2>3. ~panel'.timer /\ ~stale' => hasReadyConnection'
    BY <1>4, <1>5 DEF panelWorld, hasReadyConnection
  <2> QED
    BY <1>2, <1>5, <2>1, <2>2, <2>3, Bounds DEF PanelInv, Whereabouts, PanelTypeOK
<1>10. Kept'  BY <1>5 DEF PanelInv, Kept, AnnouncedOnce, panelWorld
<1>11. ArchiveComplete'  BY <1>5 DEF PanelInv, ArchiveComplete
<1> QED  BY <1>6, <1>7, <1>8, <1>9, <1>10, <1>11 DEF PanelInv

\* A selection: of one file, which is taken at once, or of several, which are zipped.
LEMMA SelectInv ==
  ASSUME PanelInv, NEW names \in Selections, Select(names),
         dragging' => dragging, dragging' \in BOOLEAN
  PROVE  PanelInv'
<1>1. /\ ~panel.processing /\ ~panel.zipping /\ ~panel.awaiting /\ panel.pending = NoFile
      /\ ~panel.calling /\ ~panel.timer
      /\ picks < MaxPicks /\ picks' = picks + 1
  BY DEF PanelInv, Whereabouts, TimerOnlyWaits, Select, isTransferLocked
<1>2. picks' \in 1..MaxPicks /\ picks' \in 0..MaxPicks /\ picks' > picks /\ seen.pending < picks'
  BY <1>1, Bounds DEF PanelInv, PanelTypeOK, Whereabouts
<1>3. names \in Seq(Name)  BY PanelAssumption DEF PanelAssumption, Name
<1>4. /\ panel \in Panel /\ seen.ready \in BOOLEAN
      /\ UNCHANGED <<seen, orphans, panelWorld, wins, told>>
  BY DEF PanelInv, PanelTypeOK, Select, Flag
<1>5. CASE Take(panel, tray, seen.ready) /\ UNCHANGED archive
  <2>1. TraySound(tray) /\ ~In(tray, "waiting")  BY <1>1 DEF PanelInv, ToastSays
  <2> QED  BY <1>1, <1>2, <1>4, <1>5, <2>1, TakeInv
<1>6. CASE /\ Len(names) > 1
           /\ panel' = [panel EXCEPT !.zipping = TRUE, !.zipToast = "timer",
                                     !.zipReady = seen.ready]
           /\ archive' = createZipFromFiles(names)
           /\ UNCHANGED <<tray, stale>>
  <2>1. /\ panel' \in Panel /\ panel'.zipping /\ panel'.pending = panel.pending
        /\ panel'.awaiting = panel.awaiting /\ panel'.calling = panel.calling
        /\ panel'.sendInProgress = panel.sendInProgress /\ panel'.timer = panel.timer
        /\ panel'.processing = panel.processing /\ panel'.succeeded = panel.succeeded
    BY <1>4, <1>6 DEF Panel, Flag
  <2>2. PanelTypeOK'
    BY <1>2, <1>4, <1>6, <2>1 DEF PanelInv, PanelTypeOK, TraySound, panelWorld, Flag
  <2>3. ToastSays'  BY <1>6, <2>1 DEF PanelInv, ToastSays
  <2>4. Whereabouts'
    BY <1>1, <1>2, <1>4, <2>1 DEF PanelInv, Whereabouts, PanelTypeOK, TimerOnlyWaits, NoFile
  <2>5. Kept'  BY <1>4, <2>1 DEF PanelInv, Kept, AnnouncedOnce, panelWorld
  <2>6. ArchiveComplete'  BY <1>3, <1>6, ZipIs DEF ArchiveComplete
  <2> QED  BY <1>6, <2>2, <2>3, <2>4, <2>5, <2>6 DEF PanelInv
<1> QED  BY <1>5, <1>6 DEF Select

\* A step that leaves the picked file where it is.
SameFile(p, q) ==
  /\ q.pending = p.pending /\ q.awaiting = p.awaiting /\ q.processing = p.processing
  /\ q.sendInProgress = p.sendInProgress /\ q.timer = p.timer /\ q.calling = p.calling
  /\ q.zipping => p.zipping
SameSeen(r, s) == s.pending = r.pending /\ s.ready = r.ready /\ s.active = r.active
Seen == [pending : 0..MaxPicks, ready : Flag, inTransfer : Flag, sending : Flag, active : Flag]
LEMMA FileStays ==
  ASSUME PanelInv, panel' \in Panel, SameFile(panel, panel'),
         TraySound(tray'), Waited(tray) => Waited(tray'),
         In(tray', "waiting") => In(tray, "waiting"),
         seen' \in Seen, SameSeen(seen, seen'),
         told' \in Nat, told' <= wins, panel'.succeeded => told' < wins,
         UNCHANGED <<picks, archive, dragging, orphans, panelWorld, wins, stale>>
  PROVE  PanelInv'
<1>1. PanelTypeOK'  BY DEF PanelInv, PanelTypeOK, TraySound, panelWorld, Seen
<1>2. ToastSays'  BY DEF PanelInv, ToastSays, SameFile
<1>3. Whereabouts'
  BY DEF PanelInv, Whereabouts, TimerOnlyWaits, SendDue, hasReadyConnection, panelWorld,
         SameFile, SameSeen
<1>4. Kept'  BY DEF PanelInv, Kept, AnnouncedOnce, panelWorld, SameSeen
<1>5. ArchiveComplete'  BY DEF PanelInv, ArchiveComplete, SameFile
<1> QED  BY <1>1, <1>2, <1>3, <1>4, <1>5 DEF PanelInv

\* The zipping toast is shown, or goes with the zip.
LEMMA ZipToastInv == ASSUME PanelInv, ZipToast \/ ZipFails PROVE PanelInv'
<1>1. /\ panel \in Panel /\ seen \in Seen /\ told \in Nat /\ told <= wins
      /\ panel.succeeded => told < wins
  BY DEF PanelInv, PanelTypeOK, Seen, Kept, AnnouncedOnce
<1>2. /\ \/ panel' = [panel EXCEPT !.zipToast = "shown"] /\ tray' = Info(tray, "zipping")
         \/ /\ panel' = [panel EXCEPT !.zipping = FALSE, !.zipToast = "no"]
            /\ tray' = Dismissed(tray, "zipping")
      /\ UNCHANGED <<picks, archive, dragging, seen, orphans, panelWorld, panelHistory>>
  BY DEF ZipToast, ZipFails
<1>3. panel' \in Panel /\ SameFile(panel, panel') /\ panel'.succeeded = panel.succeeded
  BY <1>1, <1>2 DEF Panel, Flag, SameFile
<1>4. /\ TraySound(tray') /\ (Waited(tray) => Waited(tray'))
      /\ (In(tray', "waiting") => In(tray, "waiting"))
  BY <1>2, Ids, OthersAre DEF PanelInv
<1> QED  BY <1>1, <1>2, <1>3, <1>4, FileStays DEF panelHistory, SameSeen

LEMMA ZipDoneInv == ASSUME PanelInv, ZipDone PROVE PanelInv'
<1> DEFINE t == IF panel.zipToast = "shown" THEN Dismissed(tray, "zipping") ELSE tray
<1>1. Take(panel, t, panel.zipReady)  BY DEF ZipDone
<1>2. panel.zipReady \in BOOLEAN  BY DEF PanelInv, PanelTypeOK, Panel, Flag
<1>3. /\ panel.pending = NoFile /\ ~panel.calling /\ ~panel.awaiting
      /\ seen.pending < picks /\ picks' = picks
  BY DEF ZipDone, PanelInv, Whereabouts
<1>4. picks' \in 1..MaxPicks  BY <1>3, Bounds DEF PanelInv, PanelTypeOK
<1>5. TraySound(t) /\ ~In(t, "waiting")
  <2>1. TraySound(tray) /\ ~In(tray, "waiting")  BY <1>3 DEF PanelInv, ToastSays
  <2>2. /\ TraySound(Dismissed(tray, "zipping")) /\ ~In(Dismissed(tray, "zipping"), "waiting")
    BY <2>1, Ids, OthersAre
  <2> QED  BY <2>1, <2>2
<1>6. UNCHANGED <<archive, dragging, seen, orphans, panelWorld, wins, told>>  BY DEF ZipDone
<1>7. dragging' \in BOOLEAN  BY <1>6 DEF PanelInv, PanelTypeOK, Flag
<1> HIDE DEF t
<1> QED  BY <1>1, <1>2, <1>3, <1>4, <1>5, <1>6, <1>7, TakeInv

\* The transfer effect and its timer: a success is announced.
LEMMA TransferInv == ASSUME PanelInv, TransferEffect \/ CompletionTimer PROVE PanelInv'
<1>1. /\ panel \in Panel /\ seen \in Seen /\ told \in Nat /\ told <= wins /\ wins \in Nat
      /\ panel.succeeded => told < wins
      /\ sending \in Flag /\ TraySound(tray)
  BY DEF PanelInv, PanelTypeOK, Seen, Kept, AnnouncedOnce
<1>2. UNCHANGED <<picks, archive, dragging, orphans, panelWorld, wins, stale>>
  BY DEF TransferEffect, CompletionTimer
<1>3. seen' \in Seen /\ SameSeen(seen, seen')
  <2>1. seen' = seen \/ seen' = [seen EXCEPT !.inTransfer = panel.inTransfer,
                                             !.sending = sending]
    BY DEF TransferEffect, CompletionTimer
  <2>2. panel.inTransfer \in Flag  BY <1>1 DEF Panel
  <2> QED  BY <1>1, <2>1, <2>2 DEF Seen, SameSeen
<1> DEFINE cleared == [panel EXCEPT !.completing = FALSE]
<1>4. /\ cleared \in Panel /\ SameFile(panel, cleared)
      /\ cleared.succeeded = panel.succeeded
  BY <1>1 DEF Panel, Flag, SameFile
<1>5. \/ /\ panel' \in {cleared, [cleared EXCEPT !.inTransfer = TRUE, !.started = TRUE],
                       [cleared EXCEPT !.completing = TRUE]}
         /\ UNCHANGED <<told, tray>>
      \/ CompleteTransfer(cleared) \/ CompleteTransfer(panel)
  BY DEF TransferEffect, CompletionTimer
<1> HIDE DEF cleared
<1>6. CASE /\ panel' \in {cleared, [cleared EXCEPT !.inTransfer = TRUE, !.started = TRUE],
                          [cleared EXCEPT !.completing = TRUE]}
           /\ UNCHANGED <<told, tray>>
  <2>1. panel' \in Panel /\ SameFile(panel, panel') /\ panel'.succeeded = panel.succeeded
    BY <1>4, <1>6 DEF Panel, Flag, SameFile
  <2> QED  BY <1>1, <1>2, <1>3, <1>6, <2>1, FileStays
<1>7. ASSUME NEW p \in Panel, SameFile(panel, p), p.succeeded = panel.succeeded,
             CompleteTransfer(p)
      PROVE  PanelInv'
  <2>1. panel' = [p EXCEPT !.inTransfer = FALSE, !.started = FALSE, !.succeeded = FALSE,
                           !.completing = FALSE]
    BY <1>7 DEF CompleteTransfer
  <2>2. panel' \in Panel /\ SameFile(panel, panel') /\ ~panel'.succeeded
    BY <1>7, <2>1 DEF Panel, Flag, SameFile
  <2>3. IF p.succeeded THEN told' = told + 1 /\ tray' = Announced(tray)
        ELSE UNCHANGED <<told, tray>>
    BY <1>7 DEF CompleteTransfer
  <2>4. told' \in Nat /\ told' <= wins  BY <1>1, <1>7, <2>3
  <2>5. /\ TraySound(tray') /\ (Waited(tray) => Waited(tray'))
        /\ (In(tray', "waiting") => In(tray, "waiting"))
    <3>1. PICK id \in {"sent", "sent again"} : Announced(tray) = Message(tray, id)
      BY DEF Announced
    <3>2. id \in ToastId \ {"waiting"}  BY Ids
    <3>3. /\ TraySound(Message(tray, id)) /\ (Waited(tray) => Waited(Message(tray, id)))
          /\ (In(Message(tray, id), "waiting") <=> In(tray, "waiting"))
      BY <1>1, <3>2, OthersAre
    <3> QED  BY <1>1, <2>3, <3>1, <3>3
  <2> QED  BY <1>2, <1>3, <2>2, <2>4, <2>5, FileStays
<1>8. CASE CompleteTransfer(cleared)  BY <1>4, <1>7, <1>8
<1>9. CASE CompleteTransfer(panel)
  <2>1. SameFile(panel, panel)  BY DEF SameFile
  <2> QED  BY <1>1, <1>7, <1>9, <2>1
<1> QED  BY <1>5, <1>6, <1>8, <1>9

\* The send effect: a call is started, which clears the timer.
LEMMA SendEffectInv == ASSUME PanelInv, SendEffect PROVE PanelInv'
<1>1. panel \in Panel /\ seen \in Seen /\ TraySound(tray)
  BY DEF PanelInv, PanelTypeOK, Seen
<1>2. /\ seen' = [seen EXCEPT !.pending = panel.pending, !.ready = hasReadyConnection]
      /\ UNCHANGED <<picks, archive, dragging, orphans, active, open, links, mounts, wins,
                     told, stale>>
  BY DEF SendEffect, SeenSend
<1>3. /\ seen' \in Seen /\ seen'.pending = panel.pending /\ seen'.ready = hasReadyConnection
      /\ seen'.active = seen.active
  <2>1. panel.pending \in 0..MaxPicks  BY <1>1 DEF Panel
  <2>2. hasReadyConnection \in Flag  BY DEF hasReadyConnection, Flag
  <2> HIDE DEF hasReadyConnection
  <2> QED  BY <1>1, <1>2, <2>1, <2>2 DEF Seen
<1>4. ArchiveComplete /\ panel.pending <= picks
  BY DEF PanelInv, Whereabouts
<1>5. CASE Idle
  <2>1. UNCHANGED <<panel, tray, sending>>  BY <1>5 DEF SendEffect
  <2>2. PanelTypeOK'  BY <1>2, <1>3, <2>1 DEF PanelInv, PanelTypeOK, Seen
  <2>3. Whereabouts'
    <3>1. panel.pending # NoFile /\ ~panel.calling /\ ~panel.timer => stale
      BY <1>5 DEF Idle, PanelInv, Whereabouts
    <3>2. panel.zipping => seen'.pending < picks
      BY <1>3 DEF PanelInv, Whereabouts, NoFile, PanelTypeOK
    <3> QED
      BY <1>2, <1>3, <1>4, <2>1, <3>1, <3>2 DEF PanelInv, Whereabouts, TimerOnlyWaits
  <2> QED  BY <1>1, <1>2, <1>3, <2>1, <2>2, <2>3, PanelStays DEF PanelInv, Kept
<1>6. CASE ~Idle
  <2>1. /\ panel' = [panel EXCEPT !.sendInProgress = TRUE, !.awaiting = FALSE,
                                  !.timer = FALSE, !.processing = TRUE,
                                  !.succeeded = FALSE, !.calling = TRUE]
        /\ tray' = Dismissed(tray, "waiting")
        /\ sending' = TRUE
    BY <1>6 DEF SendEffect
  <2>2. /\ panel' \in Panel /\ panel'.pending = panel.pending /\ panel'.zipping = panel.zipping
        /\ panel'.sendInProgress /\ ~panel'.awaiting /\ ~panel'.timer /\ panel'.processing
        /\ ~panel'.succeeded /\ panel'.calling
    BY <1>1, <2>1 DEF Panel, Flag
  <2>3. TraySound(tray') /\ ~In(tray', "waiting")  BY <1>1, <2>1, WaitingIs
  <2>4. PanelTypeOK'
    BY <1>2, <1>3, <2>1, <2>2, <2>3 DEF PanelInv, PanelTypeOK, Seen, TraySound, Flag
  <2>5. ToastSays'  BY <2>2, <2>3 DEF ToastSays
  <2>6. Whereabouts'
    BY <1>2, <1>3, <1>4, <1>6, <2>2 DEF Idle, PanelInv, Whereabouts, TimerOnlyWaits
  <2>7. Kept'  BY <1>2, <1>3, <2>2 DEF PanelInv, Kept, AnnouncedOnce
  <2>8. ArchiveComplete'  BY <1>2, <1>4, <2>2 DEF ArchiveComplete
  <2> QED  BY <2>3, <2>4, <2>5, <2>6, <2>7, <2>8 DEF PanelInv
<1> QED  BY <1>5, <1>6

\* A call ends: the file is given up, or waits for the next call.
LEMMA CallInv ==
  ASSUME PanelInv, CallSucceeds \/ CallFails \/ CallThrows \/ WaitTimeout  PROVE PanelInv'
<1>1. /\ panel \in Panel /\ TraySound(tray) /\ told \in Nat /\ wins \in Nat /\ told <= wins
      /\ panel.succeeded => told < wins
  BY DEF PanelInv, PanelTypeOK, Kept, AnnouncedOnce
<1>2. CASE CallSucceeds
  <2> DEFINE r == Reset(panel)
  <2>1. /\ r \in Panel /\ r.pending = NoFile /\ ~r.awaiting /\ ~r.processing /\ ~r.zipping
        /\ ~r.sendInProgress /\ ~r.timer
    BY <1>1, ResetIs
  <2>2. panel' = [r EXCEPT !.succeeded = TRUE, !.calling = FALSE]  BY <1>2 DEF CallSucceeds
  <2> HIDE DEF r
  <2>3. Blank(panel')  BY <2>1, <2>2 DEF Panel, Flag, Blank
  <2>4. wins' = wins + 1 /\ tray' = ResetToasts(tray)
        /\ UNCHANGED <<picks, archive, dragging, seen, orphans, panelWorld, told, stale>>
    BY <1>2 DEF CallSucceeds
  <2> QED  BY <1>1, <2>3, <2>4, BlankInv
<1>3. CASE CallThrows
  <2> DEFINE r == Reset(panel)
  <2>1. /\ r \in Panel /\ r.pending = NoFile /\ ~r.awaiting /\ ~r.processing /\ ~r.zipping
        /\ ~r.sendInProgress /\ ~r.timer /\ r.succeeded = panel.succeeded
    BY <1>1, ResetIs
  <2>2. panel' = [r EXCEPT !.calling = FALSE]  BY <1>3 DEF CallThrows
  <2> HIDE DEF r
  <2>3. Blank(panel') /\ panel'.succeeded = panel.succeeded
    BY <2>1, <2>2 DEF Panel, Flag, Blank
  <2>4. tray' = ResetToasts(tray)
        /\ UNCHANGED <<picks, archive, dragging, seen, orphans, panelWorld, panelHistory>>
    BY <1>3 DEF CallThrows
  <2> QED  BY <1>1, <2>3, <2>4, BlankInv DEF panelHistory
<1>4. CASE WaitTimeout
  <2>1. Blank(panel') /\ panel'.succeeded = panel.succeeded
    BY <1>1, <1>4, ResetIs DEF WaitTimeout, Blank, PanelInv, Whereabouts, TimerOnlyWaits
  <2>2. tray' = ResetToasts(tray)
        /\ UNCHANGED <<picks, archive, dragging, seen, orphans, panelWorld, wins, told, stale>>
    BY <1>4 DEF WaitTimeout
  <2> QED  BY <1>1, <2>1, <2>2, BlankInv
<1>5. CASE CallFails
  <2> DEFINE tries == panel.retryCount + 1
             p == [panel EXCEPT !.calling = FALSE, !.succeeded = FALSE]
  <2>1. /\ p \in Panel /\ p.pending = panel.pending /\ p.zipping = panel.zipping
        /\ ~p.calling /\ ~p.succeeded
    BY <1>1 DEF Panel, Flag
  <2>2. UNCHANGED <<picks, archive, dragging, seen, orphans, panelWorld, panelHistory>>
    BY <1>5 DEF CallFails
  <2>3. \/ panel' = Reset(p) /\ tray' = ResetToasts(tray)
        \/ /\ tries < MaxSends
           /\ panel' = [p EXCEPT !.retryCount = tries, !.sendInProgress = FALSE,
                                 !.processing = FALSE, !.awaiting = TRUE, !.timer = TRUE]
           /\ tray' = Info(tray, "waiting")
    BY <1>5 DEF CallFails
  <2>4. tries \in Nat  BY <1>1, Bounds DEF Panel
  <2>5. panel.pending # NoFile /\ panel.calling  BY <1>5 DEF CallFails, PanelInv, Whereabouts
  <2> HIDE DEF p, tries
  <2>6. CASE panel' = Reset(p) /\ tray' = ResetToasts(tray)
    <3>1. Blank(panel') /\ ~panel'.succeeded  BY <2>1, <2>6, ResetIs DEF Blank
    <3> QED  BY <1>1, <2>2, <2>6, <3>1, BlankInv DEF panelHistory
  <2>7. CASE /\ tries < MaxSends
             /\ panel' = [p EXCEPT !.retryCount = tries, !.sendInProgress = FALSE,
                                   !.processing = FALSE, !.awaiting = TRUE, !.timer = TRUE]
             /\ tray' = Info(tray, "waiting")
    <3>1. tries \in 0..MaxSends - 1  BY <2>4, <2>7, Bounds
    <3>2. /\ panel' \in Panel /\ panel'.pending = panel.pending
          /\ panel'.zipping = panel.zipping /\ ~panel'.sendInProgress /\ ~panel'.calling
          /\ panel'.awaiting /\ panel'.timer /\ ~panel'.succeeded
      BY <2>1, <2>7, <3>1 DEF Panel, Flag
    <3>3. TraySound(tray') /\ Waited(tray')  BY <1>1, <2>7, WaitingIs
    <3>4. PanelTypeOK'
      BY <2>2, <3>2, <3>3 DEF PanelInv, PanelTypeOK, TraySound, panelWorld, panelHistory
    <3>5. ToastSays'  BY <3>2, <3>3 DEF ToastSays
    <3>6. Whereabouts'
      BY <2>2, <2>5, <3>2 DEF PanelInv, Whereabouts, TimerOnlyWaits
    <3>7. Kept'  BY <2>2, <3>2 DEF PanelInv, Kept, AnnouncedOnce, panelWorld, panelHistory
    <3>8. ArchiveComplete'  BY <2>2, <3>2 DEF PanelInv, ArchiveComplete
    <3> QED  BY <3>3, <3>4, <3>5, <3>6, <3>7, <3>8 DEF PanelInv
  <2> QED  BY <2>3, <2>6, <2>7
<1> QED  BY <1>2, <1>3, <1>4, <1>5

\* A new panel, whose predecessor may have a zip that goes on.
LEMMA RemountInv == ASSUME PanelInv, Remount PROVE PanelInv'
<1>1. /\ Blank(panel') /\ ~panel'.succeeded
  BY Bounds DEF Remount, Mounted, Blank, Panel, Flag, NoFile
<1>2. /\ mounts < MaxMounts /\ mounts' = mounts + 1
      /\ orphans' = orphans \/ orphans' = orphans + 1
      /\ dragging' = (dragging /\ active)
      /\ seen' = [Rendered EXCEPT !.pending = NoFile, !.inTransfer = FALSE, !.sending = FALSE]
      /\ tray' = ResetToasts(tray)
      /\ UNCHANGED <<picks, archive, active, open, sending, links, wins, told, stale>>
  <2>1. orphans \in Nat  BY DEF PanelInv, PanelTypeOK
  <2> QED  BY <2>1 DEF Remount
<1>3. seen' \in Seen /\ seen'.pending = NoFile /\ seen'.active = active
  <2>1. active \in Flag  BY DEF PanelInv, PanelTypeOK
  <2> QED  BY <1>2, <2>1, Bounds DEF Rendered, Seen, NoFile, Flag, hasReadyConnection
<1>4. TraySound(tray') /\ ~In(tray', "waiting")  BY <1>2, ResetToastsIs DEF PanelInv
<1>5. PanelTypeOK' /\ Kept'
  <2>1. orphans' \in 0..MaxMounts /\ mounts' \in 0..MaxMounts /\ orphans' <= mounts'
    BY <1>2, Bounds DEF PanelInv, PanelTypeOK, Kept
  <2>2. dragging' \in Flag  BY <1>2 DEF Flag
  <2>3. PanelTypeOK'
    BY <1>1, <1>2, <1>3, <1>4, <2>1, <2>2
       DEF PanelInv, PanelTypeOK, Blank, TraySound, Seen
  <2> QED  BY <1>1, <1>2, <1>3, <2>1, <2>3 DEF PanelInv, Kept, AnnouncedOnce
<1>6. ToastSays'  BY <1>1, <1>4 DEF ToastSays, Blank
<1>7. Whereabouts'
  BY <1>1, <1>2, <1>3 DEF PanelInv, Whereabouts, TimerOnlyWaits, Blank, NoFile, PanelTypeOK
<1>8. ArchiveComplete'  BY <1>1, <1>2 DEF PanelInv, ArchiveComplete, Blank
<1> QED  BY <1>4, <1>5, <1>6, <1>7, <1>8 DEF PanelInv

\* Dragging, the peer list and the toasts.
LEMMA WorldInv ==
  ASSUME PanelInv,
         \/ DragEnter \/ DragEnds \/ DragEffect \/ OrphanZipEnds
         \/ \E p \in Peer : Opens(p) \/ Closes(p)
         \/ SendingEnds \/ Activates \/ PanelToasts
  PROVE  PanelInv'
<1>1. /\ TraySound(tray) /\ seen \in Seen /\ active \in Flag /\ stale \in Flag
      /\ PanelTypeOK /\ Whereabouts /\ Kept
  BY DEF PanelInv, PanelTypeOK, Seen
<1> USE DEF panelWorld, panelHistory, Flag
<1>2. CASE DragEnter \/ DragEnds
  <2>1. PanelTypeOK'  BY <1>1, <1>2 DEF DragEnter, DragEnds, PanelTypeOK
  <2>2. Whereabouts'
    BY <1>1, <1>2 DEF DragEnter, DragEnds, Whereabouts, TimerOnlyWaits, SendDue,
                      hasReadyConnection
  <2> QED  BY <1>1, <1>2, <2>1, <2>2, PanelStays DEF DragEnter, DragEnds, Kept
<1>3. CASE DragEffect
  <2>1. seen' \in Seen /\ seen'.pending = seen.pending /\ seen'.ready = seen.ready
        /\ seen'.active = active
    BY <1>1, <1>3 DEF DragEffect, Seen
  <2>2. PanelTypeOK'  BY <1>1, <1>3, <2>1 DEF DragEffect, PanelTypeOK, Seen
  <2>3. Whereabouts'
    BY <1>1, <1>3, <2>1 DEF DragEffect, Whereabouts, TimerOnlyWaits, SendDue,
                            hasReadyConnection
  <2> QED  BY <1>1, <1>3, <2>1, <2>2, <2>3, PanelStays DEF DragEffect, Kept
<1>4. CASE OrphanZipEnds
  <2>1. /\ TraySound(tray') /\ (Waited(tray) => Waited(tray'))
        /\ (In(tray', "waiting") => In(tray, "waiting"))
    BY <1>1, <1>4, Ids, OthersAre DEF OrphanZipEnds
  <2>2. orphans' \in 0..MaxMounts /\ orphans' <= mounts'
    BY <1>1, <1>4, Bounds DEF OrphanZipEnds, PanelTypeOK, Kept
  <2>3. PanelTypeOK'  BY <1>1, <1>4, <2>1, <2>2 DEF OrphanZipEnds, PanelTypeOK, TraySound
  <2>4. Whereabouts'
    BY <1>1, <1>4 DEF OrphanZipEnds, Whereabouts, TimerOnlyWaits, SendDue, hasReadyConnection
  <2> QED  BY <1>1, <1>4, <2>1, <2>2, <2>3, <2>4, PanelStays DEF OrphanZipEnds, Kept
<1>5. ASSUME NEW p \in Peer, Opens(p) PROVE PanelInv'
  <2>1. PanelTypeOK'
    <3>1. links' \in 0..MaxLinks  BY <1>1, <1>5, Bounds DEF Opens, PanelTypeOK
    <3> QED  BY <1>1, <1>5, <3>1 DEF Opens, PanelTypeOK
  <2>2. Whereabouts'
    <3>1. hasReadyConnection'  BY <1>5 DEF Opens, hasReadyConnection
    <3>2. /\ panel.pending # NoFile /\ ~panel.calling /\ ~panel.timer /\ ~stale => SendDue'
      BY <1>1, <1>5, <3>1 DEF Opens, Whereabouts, SendDue
    <3> QED  BY <1>1, <1>5, <3>1, <3>2 DEF Opens, Whereabouts, TimerOnlyWaits
  <2> QED  BY <1>1, <1>5, <2>1, <2>2, PanelStays DEF Opens, Kept
<1>6. ASSUME NEW p \in Peer, Closes(p) PROVE PanelInv'
  <2>1. PanelTypeOK'
    <3>1. stale' \in BOOLEAN /\ links' \in 0..MaxLinks
      BY <1>1, <1>6, Bounds DEF Closes, PanelTypeOK
    <3> QED  BY <1>1, <1>6, <3>1 DEF Closes, PanelTypeOK
  <2>2. Whereabouts'
    <3>1. CASE open' = {}
      <4>1. panel.pending # NoFile /\ ~panel.calling /\ ~panel.timer => stale'
        BY <1>1, <1>6, <3>1 DEF Closes, Whereabouts
      <4> QED  BY <1>1, <1>6, <4>1 DEF Closes, Whereabouts, TimerOnlyWaits
    <3>2. CASE open' # {}
      <4>1. hasReadyConnection' /\ hasReadyConnection
        BY <1>6, <3>2 DEF Closes, hasReadyConnection
      <4>2. SendDue' <=> SendDue  BY <1>6, <4>1 DEF Closes, SendDue
      <4>3. stale => stale'  BY <1>6 DEF Closes
      <4> QED  BY <1>1, <1>6, <4>1, <4>2, <4>3 DEF Closes, Whereabouts, TimerOnlyWaits
    <3> QED  BY <3>1, <3>2
  <2> QED  BY <1>1, <1>6, <2>1, <2>2, PanelStays DEF Closes, Kept
<1>7. CASE SendingEnds \/ Activates
  <2>1. PanelTypeOK'
    <3>1. links' \in 0..MaxLinks  BY <1>1, <1>7, Bounds DEF SendingEnds, Activates, PanelTypeOK
    <3>2. active' \in BOOLEAN  BY <1>1, <1>7 DEF SendingEnds, Activates
    <3>3. sending' \in BOOLEAN  BY <1>1, <1>7 DEF SendingEnds, Activates, PanelTypeOK
    <3> QED  BY <1>1, <1>7, <3>1, <3>2, <3>3 DEF SendingEnds, Activates, PanelTypeOK
  <2>2. Whereabouts'
    BY <1>1, <1>7 DEF SendingEnds, Activates, Whereabouts, TimerOnlyWaits, SendDue,
                      hasReadyConnection
  <2> QED  BY <1>1, <1>7, <2>1, <2>2, PanelStays DEF SendingEnds, Activates, Kept
<1>8. CASE PanelToasts
  <2>1. /\ TraySound(tray') /\ (Waited(tray) => Waited(tray'))
        /\ (In(tray', "waiting") => In(tray, "waiting"))
    BY <1>1, <1>8, ToastStepIs DEF PanelToasts
  <2>2. PanelTypeOK'  BY <1>1, <1>8, <2>1 DEF PanelToasts, PanelTypeOK, TraySound
  <2>3. Whereabouts'
    BY <1>1, <1>8 DEF PanelToasts, Whereabouts, TimerOnlyWaits, SendDue, hasReadyConnection
  <2> QED  BY <1>1, <1>8, <2>1, <2>2, <2>3, PanelStays DEF PanelToasts, Kept
<1> QED  BY <1>2, <1>3, <1>4, <1>5, <1>6, <1>7, <1>8

LEMMA PanelStepInv == PanelInv /\ [PanelNext]_panelVars => PanelInv'
<1> SUFFICES ASSUME PanelInv, [PanelNext]_panelVars PROVE PanelInv'  OBVIOUS
<1>1. ASSUME NEW names \in Selections, Pick(names) \/ Drop(names) PROVE PanelInv'
  <2>1. dragging \in BOOLEAN  BY DEF PanelInv, PanelTypeOK, Flag
  <2>2. Select(names) /\ (UNCHANGED dragging \/ dragging' = FALSE)
    BY <1>1 DEF Pick, Drop
  <2>3. (dragging' => dragging) /\ dragging' \in BOOLEAN
    <3>1. CASE UNCHANGED dragging  BY <2>1, <3>1
    <3>2. CASE dragging' = FALSE  BY <3>2
    <3> QED  BY <2>2, <3>1, <3>2
  <2> QED  BY ONLY PanelInv, names \in Selections, <2>2, <2>3, SelectInv
<1>2. CASE UNCHANGED panelVars
  <2> USE <1>2 DEF panelVars, panelWorld, panelHistory
  <2>1. PanelTypeOK'  BY DEF PanelInv, PanelTypeOK
  <2>2. Whereabouts'
    BY DEF PanelInv, Whereabouts, TimerOnlyWaits, SendDue, hasReadyConnection
  <2> QED  BY <2>1, <2>2, PanelStays DEF PanelInv, Kept
<1> QED
  BY <1>1, <1>2, ZipToastInv, ZipDoneInv, SendEffectInv, CallInv, TransferInv, RemountInv,
     WorldInv
     DEF PanelNext

LEMMA PanelInvHolds == PanelSpec => []PanelInv
BY PanelInitInv, PanelStepInv, PTL DEF PanelSpec

\* The panel never gets stuck, for every set of peers and selections and every bound: the
\* picked file is in a call, due to be sent, or its timer runs, unless the selection relied
\* on a connection that is gone; the timer takes nothing away from a call; the overlay
\* leaves.
THEOREM PanelRuns == PanelSpec => []PanelNeverStuck
<1>1. PanelInv => PanelNeverStuck
  BY DEF PanelInv, PanelNeverStuck, PendingAttended, OverlayLeaves, Whereabouts, Kept
<1> QED  BY <1>1, PanelInvHolds, PTL

\* The toasts of the panel tell what is the case, whatever timers and clicks come between.
THEOREM PanelTells == PanelSpec => []ToastsTell
<1>1. PanelInv => ToastsTell
  <2> SUFFICES ASSUME PanelInv PROVE ToastsTell  OBVIOUS
  <2>1. WantedStand /\ StandingWanted
    BY DEF PanelInv, TraySound, Tray, WantedStand, StandingWanted, Stands, In
  <2>2. WaitingToast  BY DEF PanelInv, ToastSays, Waited, In, WaitingToast, Stands
  <2> QED  BY <2>1, <2>2 DEF ToastsTell, PanelInv, Kept
<1> QED  BY <1>1, PanelInvHolds, PTL

\* Every file of a selection is in its archive, under a name of its own, whatever the
\* names are.
THEOREM PanelArchives == PanelSpec => []ArchiveComplete
<1>1. PanelInv => ArchiveComplete  BY DEF PanelInv
<1> QED  BY <1>1, PanelInvHolds, PTL

-----------------------------------------------------------------------------
(***************************************************************************)
(* The received files and the chat, for every number of them. A file that  *)
(* was acknowledged is followed from the callback to the panel's URL, and  *)
(* a progress toast from its file-start on; UnreadExact counts the unseen  *)
(* messages one by one. AttachmentsLive becomes inductive once what        *)
(* excuses it is split from what it promises (Excused, AllAttached).       *)
(***************************************************************************)

\* Nothing that is shown is gone, or why it may be: the panel has changed.
Excused == keptChat \/ (~seenCode.peer /\ lastCode # seenCode.code)
Attached(m, urls) == m.file # 0 => urls[m.file] = "live"
AllAttached == \A i \in DOMAIN messages : Attached(messages[i], blob)

\* The 50 ms before join-room run only after the effects have seen an id.
InboxInv ==
  /\ InboxTypeOK /\ AckedKept /\ BarsExplained /\ (Excused \/ AllAttached) /\ UnreadExact
  /\ texts \in Nat /\ peerId \in BOOLEAN /\ (joinTimer => seenCode.peer)

LEMMA AttachmentsAre == AttachmentsLive <=> Excused \/ AllAttached
BY DEF AttachmentsLive, Excused, AllAttached, Attached

\* The bound, and what a file is.
LEMMA Items == MaxItems \in Nat /\ 0 \notin File /\ File \subseteq 0..MaxItems
BY InboxAssumption DEF InboxAssumption, File

LEMMA InboxInitInv == InboxInit => InboxInv
<1> SUFFICES ASSUME InboxInit PROVE InboxInv  OBVIOUS
<1> USE DEF InboxInit
<1>1. InboxTypeOK
  <2>1. 0 \in 0..MaxItems /\ 0 \in 0..0  BY Items
  <2>2. messages \in Seq(Entry)  BY EmptySeq
  <2>3. seenCode \in [code : Place, peer : BOOLEAN]  OBVIOUS
  <2>4. /\ bar \in [File -> {"none", "shown", "closing", "failed", "gone"}]
        /\ blob \in [File -> {"none", "live", "revoked"}]
    OBVIOUS
  <2> QED  BY <2>1, <2>2, <2>3, <2>4 DEF InboxTypeOK
<1>2. AckedKept /\ BarsExplained  BY DEF AckedKept, BarsExplained
<1>3. AllAttached  BY DEF AllAttached
<1>4. UnreadExact
  <2>1. {i \in DOMAIN messages : messages[i].unseen} = {}  OBVIOUS
  <2> QED  BY <2>1, FS_EmptySet DEF UnreadExact
<1>5. texts \in Nat /\ peerId \in BOOLEAN  BY DEF GateInit
<1> QED  BY <1>1, <1>2, <1>3, <1>4, <1>5 DEF InboxInv

-----------------------------------------------------------------------------
(* The chat *)

\* The messages that came in unseen are finitely many.
LEMMA UnseenFinite ==
  ASSUME NEW s \in Seq(Entry)
  PROVE  IsFiniteSet({i \in DOMAIN s : s[i].unseen})
<1>1. DOMAIN s = 1..Len(s) /\ Len(s) \in Nat  BY LenProperties
<1>2. IsFiniteSet(1..Len(s))  BY <1>1, FS_Interval
<1>3. {i \in DOMAIN s : s[i].unseen} \in SUBSET (1..Len(s))  BY <1>1
<1> QED  BY <1>2, <1>3, FS_Subset

\* A message is added, and the badge counts it if it is unseen.
LEMMA AddMessageIs ==
  ASSUME InboxInv, NEW from \in {"me", "them", "system"}, NEW file \in 0..MaxItems,
         addMessage(from, file)
  PROVE  /\ messages' \in Seq(Entry) /\ unreadCount' \in Nat /\ UnreadExact'
         /\ UNCHANGED isChatOpen
         /\ \A i \in DOMAIN messages' :
              \/ messages'[i].file = file
              \/ i \in DOMAIN messages /\ messages'[i] = messages[i]
<1> DEFINE isUnread == from = "them" /\ ~isChatOpen
           m == [from |-> from, file |-> file, unseen |-> isUnread]
           unseen == {i \in DOMAIN messages : messages[i].unseen}
<1>1. /\ messages' = Append(messages, m)
      /\ unreadCount' = unreadCount + (IF isUnread THEN 1 ELSE 0)
      /\ UNCHANGED isChatOpen
  BY DEF addMessage
<1>2. isUnread \in BOOLEAN  OBVIOUS
<1>3. messages \in Seq(Entry) /\ unreadCount \in Nat  BY DEF InboxInv, InboxTypeOK
<1>4. m \in Entry /\ m.file = file /\ (m.unseen <=> isUnread)  BY <1>2 DEF Entry
<1> HIDE DEF m, isUnread
<1>5. /\ messages' \in Seq(Entry) /\ Len(messages') = Len(messages) + 1
      /\ \A i \in 1..Len(messages) : messages'[i] = messages[i]
      /\ messages'[Len(messages) + 1] = m /\ Len(messages) \in Nat
  BY <1>1, <1>3, <1>4, AppendProperties, LenProperties
<1>6. DOMAIN messages = 1..Len(messages) /\ DOMAIN messages' = 1..Len(messages) + 1
  BY <1>3, <1>5, LenProperties
<1>7. \A i \in DOMAIN messages' : i \in DOMAIN messages \/ i = Len(messages) + 1
  BY <1>5, <1>6
<1>8. UnreadExact'
  <2> DEFINE last == Len(messages) + 1
  <2>1. {i \in DOMAIN messages' : messages'[i].unseen}
          = IF isUnread THEN unseen \cup {last} ELSE unseen
    <3>1. ASSUME NEW i
          PROVE  i \in {j \in DOMAIN messages' : messages'[j].unseen} <=>
                 i \in IF isUnread THEN unseen \cup {last} ELSE unseen
      <4>1. CASE i \in DOMAIN messages
        <5>1. i \in DOMAIN messages' /\ messages'[i] = messages[i] /\ i # last
          BY <1>5, <1>6, <4>1
        <5> QED  BY <4>1, <5>1
      <4>2. CASE i = last
        <5>1. i \in DOMAIN messages' /\ messages'[i] = m /\ i \notin DOMAIN messages
          BY <1>5, <1>6, <4>2
        <5> QED  BY <1>4, <4>2, <5>1
      <4>3. CASE i \notin DOMAIN messages /\ i # last
        BY <1>7, <4>3
      <4> QED  BY <4>1, <4>2, <4>3
    <3> QED  BY <3>1
  <2>2. IsFiniteSet(unseen) /\ unreadCount = Cardinality(unseen)
    BY <1>3, UnseenFinite DEF InboxInv, UnreadExact
  <2>3. last \notin unseen
    <3>1. last \notin DOMAIN messages  BY <1>5, <1>6
    <3> QED  BY <3>1
  <2> HIDE DEF unseen
  <2>4. Cardinality(unseen \cup {last}) = Cardinality(unseen) + 1
    BY <2>2, <2>3, FS_AddElement
  <2>5. UnreadExact' <=>
          unreadCount' = Cardinality({i \in DOMAIN messages' : messages'[i].unseen})
    BY DEF UnreadExact
  <2>6. CASE isUnread
    <3>1. unreadCount' = unreadCount + 1  BY <1>1, <2>6
    <3> QED  BY <2>1, <2>2, <2>4, <2>5, <2>6, <3>1
  <2>7. CASE ~isUnread
    <3>1. unreadCount' = unreadCount  BY <1>1, <1>3, <2>7
    <3> QED  BY <2>1, <2>2, <2>5, <2>7, <3>1
  <2> QED  BY <2>6, <2>7
<1> QED  BY <1>1, <1>2, <1>3, <1>4, <1>5, <1>6, <1>7, <1>8

\* The chat is opened or closed: what was unseen is seen, or stays so.
LEMMA SetChatOpenInv ==
  ASSUME InboxInv, NEW is \in BOOLEAN, setChatOpen(is)
  PROVE  InboxInv'
<1>1. messages \in Seq(Entry) /\ unreadCount \in Nat  BY DEF InboxInv, InboxTypeOK
<1>2. DOMAIN messages = 1..Len(messages) /\ Len(messages) \in Nat
      /\ \A i \in DOMAIN messages : messages[i] \in Entry
  BY <1>1, LenProperties, ElementOfSeq
<1>3. /\ messages' = [i \in DOMAIN messages |-> [messages[i] EXCEPT !.unseen = @ /\ ~is]]
      /\ unreadCount' = IF is THEN 0 ELSE unreadCount
      /\ isChatOpen' = is
      /\ UNCHANGED <<gateVars, place, link, received, blob, texts, files, adrift, keptChat>>
  BY DEF setChatOpen
<1>4. \A i \in DOMAIN messages :
        /\ messages'[i] \in Entry /\ messages'[i].file = messages[i].file
        /\ messages'[i].unseen <=> messages[i].unseen /\ ~is
  BY <1>2, <1>3 DEF Entry
<1>5. DOMAIN messages' = DOMAIN messages  BY <1>3
<1>6. messages' \in Seq(Entry)
  <2>1. messages' \in [1..Len(messages) -> Entry]  BY <1>2, <1>3, <1>4
  <2> QED  BY <1>2, <2>1, SeqDef
<1>7. UnreadExact'
  <2>1. {i \in DOMAIN messages' : messages'[i].unseen}
          = IF is THEN {} ELSE {i \in DOMAIN messages : messages[i].unseen}
    BY <1>4, <1>5
  <2> QED  BY <1>3, <2>1, FS_EmptySet DEF UnreadExact, InboxInv
<1>8. InboxTypeOK'
  BY <1>1, <1>3, <1>6
     DEF InboxInv, InboxTypeOK, gateVars, place, link, received, files
<1>9. (Excused \/ AllAttached)'
  BY <1>3, <1>4, <1>5 DEF InboxInv, Excused, AllAttached, Attached, place
<1> QED
  BY <1>3, <1>7, <1>8, <1>9
     DEF InboxInv, AckedKept, BarsExplained, gateVars, place, link, received, files

\* What a step leaves of the chat: it is as it was, or there is one more message, whose
\* file is there.
LEMMA ChatStays ==
  ASSUME InboxInv, UNCHANGED <<seenCode, lastCode, keptChat>>,
         \A f \in File : blob[f] = "live" => blob'[f] = "live",
         \/ UNCHANGED chat
         \/ \E from \in {"me", "them", "system"}, file \in 0..MaxItems :
              addMessage(from, file) /\ (file # 0 => blob'[file] = "live")
  PROVE  /\ messages' \in Seq(Entry) /\ unreadCount' \in Nat /\ isChatOpen' \in BOOLEAN
         /\ UnreadExact' /\ (Excused \/ AllAttached)'
<1>1. \A i \in DOMAIN messages : messages[i].file \in 0..MaxItems
  <2>1. \A i \in DOMAIN messages : messages[i] \in Entry
    BY ElementOfSeq, LenProperties DEF InboxInv, InboxTypeOK
  <2> QED  BY <2>1 DEF Entry
<1>2. \A i \in DOMAIN messages : Attached(messages[i], blob) => Attached(messages[i], blob')
  BY <1>1, Items DEF Attached, File
<1>3. CASE UNCHANGED chat
  BY <1>2, <1>3 DEF chat, InboxInv, InboxTypeOK, UnreadExact, Excused, AllAttached
<1>4. ASSUME NEW from \in {"me", "them", "system"}, NEW file \in 0..MaxItems,
             addMessage(from, file), file # 0 => blob'[file] = "live"
      PROVE  /\ messages' \in Seq(Entry) /\ unreadCount' \in Nat /\ isChatOpen' \in BOOLEAN
             /\ UnreadExact' /\ (Excused \/ AllAttached)'
  <2>1. /\ messages' \in Seq(Entry) /\ unreadCount' \in Nat /\ UnreadExact'
        /\ UNCHANGED isChatOpen
        /\ \A i \in DOMAIN messages' :
             \/ messages'[i].file = file
             \/ i \in DOMAIN messages /\ messages'[i] = messages[i]
    BY <1>4, AddMessageIs
  <2>2. CASE Excused  BY <2>1, <2>2 DEF Excused, InboxInv, InboxTypeOK
  <2>3. CASE AllAttached
    <3>1. AllAttached'  BY <1>2, <1>4, <2>1, <2>3 DEF AllAttached, Attached
    <3> QED  BY <2>1, <3>1 DEF InboxInv, InboxTypeOK
  <2> QED  BY <2>2, <2>3 DEF InboxInv
<1> QED  BY <1>3, <1>4

\* The toast of the file that was being received ends.
LEMMA EndedIs ==
  ASSUME InboxInv, NEW how \in {"closing", "failed"}, bar' = Ended(how),
         receivingFile' = 0, UNCHANGED adrift
  PROVE  /\ bar' \in [File -> {"none", "shown", "closing", "failed", "gone"}]
         /\ BarsExplained'
<1>1. receivingFile \in {0} \cup File
  BY Items DEF InboxInv, InboxTypeOK, File
<1>2. /\ bar \in [File -> {"none", "shown", "closing", "failed", "gone"}]
      /\ \A f \in File : bar[f] = "shown" => f = receivingFile \/ f \in adrift
  BY DEF InboxInv, InboxTypeOK, BarsExplained
<1>3. bar' = IF receivingFile = 0 THEN bar ELSE [bar EXCEPT ![receivingFile] = how]
  BY DEF Ended
<1>4. \A f \in File : bar'[f] = IF f = receivingFile THEN how ELSE bar[f]
  BY <1>1, <1>2, <1>3, Items
<1>5. bar' \in [File -> {"none", "shown", "closing", "failed", "gone"}]
  BY <1>1, <1>2, <1>3
<1> QED  BY <1>2, <1>4, <1>5 DEF BarsExplained

-----------------------------------------------------------------------------
(* The steps *)

LEMMA MessageInv == ASSUME InboxInv, SendMessage \/ TakeMessage PROVE InboxInv'
<1>1. /\ \E from \in {"me", "them", "system"} : addMessage(from, 0)
      /\ texts' = texts + 1
      /\ UNCHANGED <<gateVars, place, received, blob, files, adrift, keptChat>>
      /\ present' \in BOOLEAN /\ stray' \in BOOLEAN
  BY DEF SendMessage, TakeMessage, Reached, Present, link, InboxInv, InboxTypeOK
<1>2. 0 \in 0..MaxItems  BY Items
<1>3. /\ messages' \in Seq(Entry) /\ unreadCount' \in Nat /\ isChatOpen' \in BOOLEAN
      /\ UnreadExact' /\ (Excused \/ AllAttached)'
  BY <1>1, <1>2, ChatStays DEF place
<1>4. InboxTypeOK'
  BY <1>1, <1>3 DEF InboxInv, InboxTypeOK, place, received, files
<1> QED
  BY <1>1, <1>3, <1>4
     DEF InboxInv, AckedKept, BarsExplained, gateVars, place, received, files

LEMMA FileStartInv == ASSUME InboxInv, TakeFileStart PROVE InboxInv'
<1>1. /\ begun \in 0..MaxItems /\ receivingFile \in 0..begun /\ texts \in Nat
      /\ bar \in [File -> {"none", "shown", "closing", "failed", "gone"}]
      /\ adrift \subseteq File
  BY DEF InboxInv, InboxTypeOK
<1>2. /\ begun + texts < MaxItems /\ begun' = begun + 1
      /\ bar' = [bar EXCEPT ![begun'] = "shown"]
      /\ receivingFile' = begun'
      /\ adrift' = adrift \cup ({receivingFile} \ {0})
      /\ UNCHANGED <<gateVars, place, blob, chat, texts, files, keptChat>>
      /\ present' \in BOOLEAN /\ stray' \in BOOLEAN
  BY DEF TakeFileStart, Reached, Present
<1>3. begun' \in File /\ begun' \in 0..MaxItems /\ receivingFile' \in 0..begun'
  BY <1>1, <1>2, Items DEF File
<1>4. {receivingFile} \ {0} \subseteq File  BY <1>1, Items DEF File
<1>5. /\ bar' \in [File -> {"none", "shown", "closing", "failed", "gone"}]
      /\ adrift' \subseteq File
  BY <1>1, <1>2, <1>3, <1>4
<1>6. BarsExplained'
  <2> SUFFICES ASSUME NEW f \in File, bar'[f] = "shown"
               PROVE  f = receivingFile' \/ f \in adrift'
    BY DEF BarsExplained
  <2>1. f = begun' \/ bar[f] = "shown"  BY <1>1, <1>2, <1>3
  <2>2. bar[f] = "shown" => f = receivingFile \/ f \in adrift
    BY DEF InboxInv, BarsExplained
  <2> QED  BY <1>2, <2>1, <2>2, Items
<1>7. /\ messages' \in Seq(Entry) /\ unreadCount' \in Nat /\ isChatOpen' \in BOOLEAN
      /\ UnreadExact' /\ (Excused \/ AllAttached)'
  BY <1>2, ChatStays DEF place
<1>8. InboxTypeOK'
  BY <1>2, <1>3, <1>5, <1>7 DEF InboxInv, InboxTypeOK, place, files
<1> QED
  BY <1>2, <1>6, <1>7, <1>8 DEF InboxInv, AckedKept, gateVars, place, files

\* A file is given to the panel's callback, or was complete too early.
LEMMA OnFileReceivedIs ==
  ASSUME InboxInv, NEW f \in File, OnFileReceived(f),
         UNCHANGED <<seenCode, lastCode, keptChat>>
  PROVE  /\ messages' \in Seq(Entry) /\ unreadCount' \in Nat /\ isChatOpen' \in BOOLEAN
         /\ UnreadExact' /\ (Excused \/ AllAttached)'
         /\ blob' \in [File -> {"none", "live", "revoked"}]
         /\ handed' \subseteq File /\ early' \subseteq File
         /\ handed \cup early \cup {f} \subseteq handed' \cup early'
<1>1. /\ blob \in [File -> {"none", "live", "revoked"}]
      /\ handed \subseteq File /\ early \subseteq File
  BY DEF InboxInv, InboxTypeOK
<1>2. CASE panelUp
  <2>1. /\ blob' = [blob EXCEPT ![f] = "live"] /\ handed' = handed \cup {f}
        /\ addMessage("them", f) /\ UNCHANGED early
    BY <1>2 DEF OnFileReceived
  <2>2. blob'[f] = "live" /\ \A g \in File : blob[g] = "live" => blob'[g] = "live"
    BY <1>1, <2>1
  <2>3. f \in 0..MaxItems  BY Items
  <2>4. /\ messages' \in Seq(Entry) /\ unreadCount' \in Nat /\ isChatOpen' \in BOOLEAN
        /\ UnreadExact' /\ (Excused \/ AllAttached)'
    BY <2>1, <2>2, <2>3, ChatStays
  <2> QED  BY <1>1, <2>1, <2>4
<1>3. CASE ~panelUp
  <2>1. early' = early \cup {f} /\ UNCHANGED <<blob, handed, chat>>
    BY <1>3 DEF OnFileReceived
  <2> QED  BY <1>1, <2>1, ChatStays
<1> QED  BY <1>2, <1>3

LEMMA FileEndInv == ASSUME InboxInv, TakeFileEnd PROVE InboxInv'
<1>1. /\ receivingFile \in File /\ begun \in 0..MaxItems
      /\ acked \subseteq File
  BY Items DEF TakeFileEnd, InboxInv, InboxTypeOK, File
<1>2. /\ bar' = Closing /\ receivingFile' = 0
      /\ UNCHANGED <<gateVars, place, link, begun, texts, adrift, keptChat>>
  BY DEF TakeFileEnd
<1>3. /\ bar' \in [File -> {"none", "shown", "closing", "failed", "gone"}]
      /\ BarsExplained'
  BY <1>2, EndedIs DEF Closing
<1>4. /\ messages' \in Seq(Entry) /\ unreadCount' \in Nat /\ isChatOpen' \in BOOLEAN
      /\ UnreadExact' /\ (Excused \/ AllAttached)'
      /\ blob' \in [File -> {"none", "live", "revoked"}]
      /\ acked' \subseteq File /\ handed' \subseteq File /\ early' \subseteq File
      /\ AckedKept'
  <2>1. CASE OnFileReceived(receivingFile) /\ acked' = acked \cup {receivingFile}
    BY <1>1, <1>2, <2>1, OnFileReceivedIs DEF place, InboxInv, AckedKept
  <2>2. CASE UNCHANGED <<blob, files, chat>>
    BY <1>2, <2>2, ChatStays DEF place, files, InboxInv, InboxTypeOK, AckedKept
  <2> QED  BY <2>1, <2>2 DEF TakeFileEnd
<1>5. receivingFile' \in 0..begun'  BY <1>1, <1>2
<1>6. InboxTypeOK'
  BY <1>2, <1>3, <1>4, <1>5 DEF InboxInv, InboxTypeOK, place, link
<1> QED  BY <1>2, <1>3, <1>4, <1>6 DEF InboxInv, gateVars, place, link

LEMMA LegacyFileInv == ASSUME InboxInv, TakeLegacyFile PROVE InboxInv'
<1>1. /\ begun + texts < MaxItems /\ begun' = begun + 1
      /\ OnFileReceived(begun') /\ acked' = acked \cup {begun'}
      /\ UNCHANGED <<gateVars, place, receivingFile, bar, texts, adrift, keptChat>>
      /\ present' \in BOOLEAN /\ stray' \in BOOLEAN
  BY DEF TakeLegacyFile, Reached, Present
<1>2. begun' \in File /\ begun' \in 0..MaxItems /\ receivingFile' \in 0..begun'
  BY <1>1, Items DEF InboxInv, InboxTypeOK, File
<1>3. /\ messages' \in Seq(Entry) /\ unreadCount' \in Nat /\ isChatOpen' \in BOOLEAN
      /\ UnreadExact' /\ (Excused \/ AllAttached)'
      /\ blob' \in [File -> {"none", "live", "revoked"}]
      /\ handed' \subseteq File /\ early' \subseteq File
      /\ handed \cup early \cup {begun'} \subseteq handed' \cup early'
  <2> DEFINE f == begun'
  <2>1. f \in File /\ OnFileReceived(f) /\ UNCHANGED <<seenCode, lastCode, keptChat>>
    BY <1>1, <1>2 DEF place
  <2> HIDE DEF f
  <2>2. /\ messages' \in Seq(Entry) /\ unreadCount' \in Nat /\ isChatOpen' \in BOOLEAN
        /\ UnreadExact' /\ (Excused \/ AllAttached)'
        /\ blob' \in [File -> {"none", "live", "revoked"}]
        /\ handed' \subseteq File /\ early' \subseteq File
        /\ handed \cup early \cup {f} \subseteq handed' \cup early'
    BY <2>1, OnFileReceivedIs
  <2> QED  BY <2>2 DEF f
<1>4. acked' \subseteq File /\ AckedKept'
  BY <1>1, <1>2, <1>3 DEF InboxInv, InboxTypeOK, AckedKept
<1>5. InboxTypeOK'
  BY <1>1, <1>2, <1>3, <1>4 DEF InboxInv, InboxTypeOK, place
<1> QED
  BY <1>1, <1>3, <1>4, <1>5 DEF InboxInv, BarsExplained, gateVars, place

\* The receiving ends, or a toast goes, or a connection is listed: the chat stays.
LEMMA BarInv ==
  ASSUME InboxInv,
         ReceiveTimeout \/ PeerListed \/ PeerGone \/ Reconnects \/ \E f \in File : BarGoes(f)
  PROVE  InboxInv'
<1>1. /\ UNCHANGED <<peerId, blob, chat, texts, files, adrift, keptChat, seenCode, code,
                     lastCode, joinTimer, announced, begun>>
  BY DEF ReceiveTimeout, PeerListed, PeerGone, Reconnects, BarGoes, gateVars, place, link,
         received
<1>2. /\ messages' \in Seq(Entry) /\ unreadCount' \in Nat /\ isChatOpen' \in BOOLEAN
      /\ UnreadExact' /\ (Excused \/ AllAttached)'
  BY <1>1, ChatStays
<1>3. /\ bar' \in [File -> {"none", "shown", "closing", "failed", "gone"}]
      /\ BarsExplained' /\ receivingFile' \in 0..begun'
  <2>1. CASE bar' = Failing /\ receivingFile' = 0
    <3>1. 0 \in 0..begun  BY DEF InboxInv, InboxTypeOK
    <3> QED  BY <1>1, <2>1, <3>1, EndedIs DEF Failing
  <2>2. CASE UNCHANGED <<bar, receivingFile>>
    BY <1>1, <2>2 DEF InboxInv, InboxTypeOK, BarsExplained
  <2>3. ASSUME NEW f \in File, BarGoes(f)
        PROVE  /\ bar' \in [File -> {"none", "shown", "closing", "failed", "gone"}]
               /\ BarsExplained' /\ receivingFile' \in 0..begun'
    BY <1>1, <2>3 DEF BarGoes, InboxInv, InboxTypeOK, BarsExplained
  <2> QED
    BY <2>1, <2>2, <2>3 DEF ReceiveTimeout, PeerListed, PeerGone, Delist, Reconnects, received
<1>4. asked' \subseteq Place /\ present' \in BOOLEAN /\ stray' \in BOOLEAN
  BY DEF ReceiveTimeout, PeerListed, Present, PeerGone, Delist, Reconnects, BarGoes, place,
         link, InboxInv, InboxTypeOK
<1>5. InboxTypeOK'
  BY <1>1, <1>2, <1>3, <1>4 DEF InboxInv, InboxTypeOK, files
<1> QED
  BY <1>1, <1>2, <1>3, <1>5 DEF InboxInv, AckedKept, files

\* The room.
LEMMA DelistIs ==
  ASSUME InboxInv, Delist, UNCHANGED <<begun, adrift>>
  PROVE  /\ bar' \in [File -> {"none", "shown", "closing", "failed", "gone"}]
         /\ BarsExplained' /\ receivingFile' \in 0..begun'
         /\ present' \in BOOLEAN /\ stray' \in BOOLEAN
<1>1. 0 \in 0..begun /\ stray \in BOOLEAN  BY DEF InboxInv, InboxTypeOK
<1>2. bar' = Failing /\ receivingFile' = 0  BY DEF Delist
<1>3. present' = FALSE /\ stray' \in BOOLEAN  BY <1>1 DEF Delist
<1> QED  BY <1>1, <1>2, <1>3, EndedIs DEF Failing

\* The flush of the effects: an emptied room has an empty chat; a panel that is another
\* one has revoked its URLs.
LEMMA PlaceEffectsInv == ASSUME InboxInv, PlaceEffects PROVE InboxInv'
<1>1. /\ InboxTypeOK /\ peerId \in BOOLEAN /\ code \in Place
      /\ seenCode \in [code : Place, peer : BOOLEAN]
      /\ blob \in [File -> {"none", "live", "revoked"}]
  BY DEF InboxInv, InboxTypeOK
<1>2. /\ seenCode' = [code |-> code, peer |-> peerId]
      /\ blob' = IF seenCode.code # code THEN Revoked ELSE blob
      /\ UNCHANGED <<peerId, gate, overlay, turns, code, lastCode, asked, moves, texts,
                     files, adrift>>
  BY DEF PlaceEffects
<1>3. blob' \in [File -> {"none", "live", "revoked"}]
  BY <1>1, <1>2 DEF Revoked
<1>4. seenCode' \in [code : Place, peer : BOOLEAN]  BY <1>1, <1>2
<1>5. CASE /\ peerId /\ lastCode # code
           /\ EmptyRoom
           /\ UNCHANGED keptChat
  <2>1. /\ bar' \in [File -> {"none", "shown", "closing", "failed", "gone"}]
        /\ BarsExplained' /\ receivingFile' \in 0..begun'
        /\ present' \in BOOLEAN /\ stray' \in BOOLEAN
    BY <1>2, <1>5, DelistIs DEF EmptyRoom
  <2>2. /\ messages' = <<>> /\ unreadCount' = 0 /\ announced' = 0 /\ joinTimer' = TRUE
        /\ UNCHANGED <<isChatOpen, begun>>
    BY <1>5 DEF EmptyRoom
  <2>3. messages' \in Seq(Entry) /\ AllAttached'  BY <2>2, EmptySeq DEF AllAttached
  <2>4. UnreadExact'
    <3>1. {i \in DOMAIN messages' : messages'[i].unseen} = {}  BY <2>2
    <3> QED  BY <2>2, <3>1, FS_EmptySet DEF UnreadExact
  <2>5. InboxTypeOK'
    BY <1>1, <1>2, <1>3, <1>4, <1>5, <2>1, <2>2, <2>3 DEF InboxTypeOK, files
  <2>6. seenCode'.peer  BY <1>2, <1>5
  <2> QED
    BY <1>2, <1>5, <2>1, <2>3, <2>4, <2>5, <2>6 DEF InboxInv, AckedKept, files
<1>6. CASE /\ ~(peerId /\ lastCode # code)
           /\ joinTimer' = FALSE
           /\ keptChat' = (keptChat \/ (seenCode.code # code /\ lastCode = code))
           /\ UNCHANGED <<isJoining, announced, link, received, chat>>
  <2>1. keptChat' \in BOOLEAN  BY <1>1, <1>6 DEF InboxTypeOK
  <2>2. (Excused \/ AllAttached)'
    <3>1. CASE seenCode.code = code
      <4>1. blob' = blob  BY <1>2, <3>1
      <4>2. Excused => Excused'
        <5>1. keptChat => keptChat'  BY <1>6
        <5>2. CASE ~seenCode.peer /\ lastCode # seenCode.code
          <6>1. ~peerId  BY <1>6, <3>1, <5>2
          <6> QED  BY <1>1, <1>2, <3>1, <5>2, <6>1 DEF Excused
        <5> QED  BY <5>1, <5>2 DEF Excused
      <4>3. AllAttached => AllAttached'
        BY <1>6, <4>1 DEF AllAttached, Attached, chat
      <4> QED  BY <4>2, <4>3 DEF InboxInv
    <3>2. CASE seenCode.code # code
      <4>1. CASE lastCode = code  BY <1>6, <3>2, <4>1 DEF Excused
      <4>2. CASE lastCode # code
        <5>1. ~peerId  BY <1>6, <4>2
        <5>2. ~seenCode'.peer /\ lastCode' # seenCode'.code  BY <1>2, <4>2, <5>1
        <5> QED  BY <5>2 DEF Excused
      <4> QED  BY <4>1, <4>2
    <3> QED  BY <3>1, <3>2
  <2>3. InboxTypeOK'
    BY <1>1, <1>2, <1>3, <1>4, <1>6, <2>1 DEF InboxTypeOK, files, link, received, chat
  <2>4. UnreadExact'  BY <1>6 DEF InboxInv, UnreadExact, chat
  <2>5. BarsExplained' /\ AckedKept'
    BY <1>2, <1>6 DEF InboxInv, BarsExplained, AckedKept, received, files
  <2> QED  BY <1>2, <1>6, <2>2, <2>3, <2>4, <2>5 DEF InboxInv
<1> QED  BY <1>5, <1>6 DEF PlaceEffects

LEMMA RoomInv ==
  ASSUME InboxInv, JoinTimer \/ \E r \in Place : ChooseRoom(r)  PROVE InboxInv'
<1>1. CASE JoinTimer
  <2>1. /\ joinTimer /\ joinTimer' = FALSE /\ lastCode' = seenCode.code
        /\ asked' = asked \cup {seenCode.code}
        /\ UNCHANGED <<gateVars, code, seenCode, announced, moves, link, received, blob,
                       chat, texts, files, adrift, keptChat>>
    BY <1>1 DEF JoinTimer
  <2>2. InboxTypeOK'
    BY <2>1 DEF InboxInv, InboxTypeOK, link, received, chat, files
  <2>3. (Excused \/ AllAttached)'
    BY <2>1 DEF InboxInv, Excused, AllAttached, Attached, chat
  <2> QED
    BY <2>1, <2>2, <2>3 DEF InboxInv, AckedKept, BarsExplained, UnreadExact, gateVars,
                            received, chat, files
<1>2. ASSUME NEW r \in Place, ChooseRoom(r) PROVE InboxInv'
  <2>1. /\ code' = r
        /\ UNCHANGED <<gateVars, seenCode, lastCode, joinTimer, asked, announced, link,
                       received, blob, chat, texts, files, adrift, keptChat>>
    BY <1>2 DEF ChooseRoom
  <2>2. InboxTypeOK'
    BY <2>1 DEF InboxInv, InboxTypeOK, link, received, chat, files
  <2> QED
    BY <2>1, <2>2 DEF InboxInv, AckedKept, BarsExplained, UnreadExact, Excused, AllAttached,
                      Attached, gateVars, received, chat, files
<1> QED  BY <1>1, <1>2

LEMMA JoinSuccessInv ==
  ASSUME InboxInv, NEW r \in Place, JoinSuccess(r)  PROVE InboxInv'
<1>1. /\ asked' = asked \ {r} /\ code' = r /\ announced' = r
      /\ UNCHANGED <<peerId, gate, overlay, turns, seenCode, lastCode, joinTimer, moves,
                     begun, blob, texts, files, adrift, keptChat>>
      /\ IF announced # r THEN addMessage("system", 0) ELSE UNCHANGED chat
  BY DEF JoinSuccess
<1>2. 0 \in 0..MaxItems  BY Items
<1>3. /\ messages' \in Seq(Entry) /\ unreadCount' \in Nat /\ isChatOpen' \in BOOLEAN
      /\ UnreadExact' /\ (Excused \/ AllAttached)'
  <2>1. UNCHANGED chat
        \/ \E from \in {"me", "them", "system"}, file \in 0..MaxItems :
             addMessage(from, file) /\ (file # 0 => blob'[file] = "live")
    BY <1>1, <1>2
  <2> QED  BY <1>1, <2>1, ChatStays
<1>4. /\ bar' \in [File -> {"none", "shown", "closing", "failed", "gone"}]
      /\ BarsExplained' /\ receivingFile' \in 0..begun'
      /\ present' \in BOOLEAN /\ stray' \in BOOLEAN
  <2>1. CASE Delist  BY <1>1, <2>1, DelistIs
  <2>2. CASE Present /\ UNCHANGED <<receivingFile, bar>>
    BY <1>1, <2>2 DEF Present, InboxInv, InboxTypeOK, BarsExplained
  <2> QED  BY <2>1, <2>2 DEF JoinSuccess
<1>5. InboxTypeOK'
  BY <1>1, <1>3, <1>4 DEF InboxInv, InboxTypeOK, files
<1> QED  BY <1>1, <1>3, <1>4, <1>5 DEF InboxInv, AckedKept, files

LEMMA InboxStepInv == InboxInv /\ [InboxNext]_inboxVars => InboxInv'
<1> SUFFICES ASSUME InboxInv, [InboxNext]_inboxVars PROVE InboxInv'  OBVIOUS
<1>1. ASSUME peerId' \in BOOLEAN, OutsideGate PROVE InboxInv'
  BY <1>1 DEF OutsideGate, InboxInv, InboxTypeOK, AckedKept, BarsExplained, UnreadExact,
              Excused, AllAttached, Attached, place, link, received, chat, files
<1>2. CASE (PeerIdChanges \/ GateEffects) /\ OutsideGate
  <2>1. peerId' \in BOOLEAN
    <3>1. peerId \in BOOLEAN  BY DEF InboxInv
    <3>2. CASE PeerIdChanges  BY <3>1, <3>2 DEF PeerIdChanges
    <3>3. CASE GateEffects
      <4>1. UNCHANGED peerId
        BY <3>3 DEF GateEffects, GateEffect, ReadyTimer, SlowTimer, PageMounts, OverlayEffect,
                    ReleaseTimer
      <4> QED  BY <3>1, <4>1
    <3> QED  BY <1>2, <3>2, <3>3
  <2> QED  BY <1>1, <1>2, <2>1
<1>3. CASE UNCHANGED inboxVars
  BY <1>1, <1>3 DEF inboxVars, gateVars, OutsideGate, InboxInv
<1> QED
  BY <1>2, <1>3, SetChatOpenInv, MessageInv, FileStartInv, FileEndInv, LegacyFileInv, BarInv,
     PlaceEffectsInv, RoomInv, JoinSuccessInv
     DEF InboxNext

LEMMA InboxInvHolds == InboxSpec => []InboxInv
BY InboxInitInv, InboxStepInv, PTL DEF InboxSpec

\* A file the sender is told was taken has been given to the panel, or there was none yet;
\* and a progress toast that stands is explained: for every number of files and rooms.
THEOREM InboxTells == InboxSpec => []BothTold
<1>1. InboxInv => BothTold  BY DEF InboxInv, BothTold
<1> QED  BY <1>1, InboxInvHolds, PTL

\* The files in the chat can be downloaded, and its badge counts, whatever moves between
\* rooms, lost ids and effects come between.
THEOREM InboxChat == InboxSpec => []ChatSound
<1>1. InboxInv => ChatSound  BY AttachmentsAre DEF InboxInv, ChatSound
<1> QED  BY <1>1, InboxInvHolds, PTL

-----------------------------------------------------------------------------
(***************************************************************************)
(* The statistics, for every set of kinds and every bound. Rows are only   *)
(* added, so whatever was counted, at any time and in any order, is no     *)
(* more than what there is now: the numbers a handler has read, those on   *)
(* their way to the page, and those it shows (CountsThere). And what the   *)
(* page does not show yet, unless its news came out of order or was lost,  *)
(* will be told by a handler that has still to read it or by a message     *)
(* that is the last of its field (NewsComes).                              *)
(***************************************************************************)

\* What was counted is there.
Counted(got) == \A f \in DOMAIN got : got[f] <= rows[f]

\* NeverAhead is not inductive: the page shows what it is sent.
CountsThere ==
  /\ \A i \in DOMAIN requests : Counted(requests[i].got)
  /\ Counted(fetch.got)
  /\ \A i \in DOMAIN feed : Counted(feed[i].got)

StatsInv == StatsTypeOK /\ NeverAhead /\ CountsThere

-----------------------------------------------------------------------------
\* A count that is read now is there, and so are those read before (WithRow).
LEMMA WithRowCounted ==
  ASSUME NEW got \in Counts, NEW f \in Field, rows \in [Field -> Nat], Counted(got)
  PROVE  WithRow(got, f) \in Counts /\ Counted(WithRow(got, f))
<1>1. PICK fields \in SUBSET Field : got \in [fields -> Nat]  BY DEF Counts
<1>2. WithRow(got, f) \in [fields \cup {f} -> Nat]  BY <1>1 DEF WithRow
<1>3. fields \cup {f} \in SUBSET Field  OBVIOUS
<1>4. WithRow(got, f) \in Counts  BY <1>2, <1>3 DEF Counts
<1>5. Counted(WithRow(got, f))  BY <1>1 DEF WithRow, Counted
<1> QED  BY <1>4, <1>5

\* What was counted stays there when rows are added.
LEMMA CountedStays ==
  ASSUME rows \in [Field -> Nat], rows' \in [Field -> Nat],
         \A f \in Field : rows[f] <= rows'[f],
         NEW got \in Counts, Counted(got)
  PROVE  \A f \in DOMAIN got : got[f] <= rows'[f]
<1>1. PICK fields \in SUBSET Field : got \in [fields -> Nat]  BY DEF Counts
<1> QED  BY <1>1 DEF Counted

\* A field of nothing read: counted at once.
LEMMA UnreadCounted == Unread \in Counts /\ Counted(Unread)
<1>1. Unread \in [{} -> Nat]  BY DEF Unread
<1>2. Unread \in Counts  BY <1>1, {} \in SUBSET Field DEF Counts
<1> QED  BY <1>2 DEF Unread, Counted

-----------------------------------------------------------------------------
LEMMA StatsInitInv == StatsInit => StatsInv
<1> SUFFICES ASSUME StatsInit PROVE StatsInv  OBVIOUS
<1> USE DEF StatsInit
<1>1. StatsTypeOK
  <2>1. Zero \in [Field -> Nat]  BY DEF Zero
  <2>2. 0 \in 0..MaxBreaks  BY StatsAssumption DEF StatsAssumption
  <2>3. fetch \in Asking  BY UnreadCounted DEF Asking
  <2>4. requests \in Seq(Request) /\ feed \in Seq(News)  BY EmptySeq
  <2>5. up \in BOOLEAN /\ listens \in BOOLEAN  OBVIOUS
  <2>6. off \subseteq Field  OBVIOUS
  <2> QED  BY <2>1, <2>2, <2>3, <2>4, <2>5, <2>6 DEF StatsTypeOK
<1>2. NeverAhead  BY DEF NeverAhead, Zero
<1>3. CountsThere  BY UnreadCounted DEF CountsThere
<1> QED  BY <1>1, <1>2, <1>3 DEF StatsInv

\* All the counts there are.
LEMMA AllCounts ==
  ASSUME StatsInv
  PROVE  /\ \A j \in DOMAIN requests : requests[j].got \in Counts /\ Counted(requests[j].got)
         /\ fetch.got \in Counts /\ Counted(fetch.got)
         /\ \A j \in DOMAIN feed : feed[j].got \in Counts /\ Counted(feed[j].got)
<1>1. /\ \A j \in DOMAIN requests : requests[j] \in Request
      /\ \A j \in DOMAIN feed : feed[j] \in News
      /\ fetch \in Asking
  BY DEF StatsInv, StatsTypeOK
<1>2. /\ \A r \in Request : r.got \in Counts
      /\ \A m \in News : m.got \in Counts
      /\ \A f \in Asking : f.got \in Counts
  BY DEF Request, News, Asking
<1> QED  BY <1>1, <1>2 DEF StatsInv, CountsThere

\* A request is put in the place of an old one: the types, and what is counted, stay.
LEMMA RequestReplaced ==
  ASSUME StatsTypeOK, NEW i \in DOMAIN requests, NEW r \in Request,
         requests' = [requests EXCEPT ![i] = r]
  PROVE  /\ requests' \in Seq(Request) /\ DOMAIN requests' = DOMAIN requests
         /\ \A j \in DOMAIN requests : requests'[j] = IF j = i THEN r ELSE requests[j]
BY ExceptSeq DEF StatsTypeOK

\* One step for each action: the types are of the records it changes, and only Save,
\* Read, FetchRead and TakeStat have a say in the counts.
LEMMA StatsStepInv == StatsInv /\ [StatsNext]_statsVars => StatsInv'
<1> SUFFICES ASSUME StatsInv, [StatsNext]_statsVars PROVE StatsInv'  OBVIOUS
<1> USE DEF StatsInv
<1>1. ASSUME NEW kind \in Kind, AddStat(kind) PROVE StatsInv'
  <2> DEFINE r == [kind |-> kind, step |-> "save", got |-> Unread]
  <2>1. r \in Request /\ Counted(r.got)  BY UnreadCounted DEF Request
  <2>2. requests' = Append(requests, r)  BY <1>1 DEF AddStat, Started
  <2>3. requests' \in Seq(Request)  BY <2>1, <2>2 DEF StatsTypeOK
  <2>4. \A i \in DOMAIN requests' : Counted(requests'[i].got)
    BY <2>1, <2>2 DEF StatsTypeOK, CountsThere
  <2>5. StatsTypeOK'  BY <1>1, <2>3 DEF AddStat, StatsTypeOK
  <2>6. CountsThere'  BY <1>1, <2>4 DEF AddStat, CountsThere, Counted
  <2> QED  BY <1>1, <2>5, <2>6 DEF AddStat, NeverAhead
<1>2. ASSUME NEW i \in DOMAIN requests, Save(i) PROVE StatsInv'
  <2> DEFINE more(f) == IF f \in FieldsOf(requests[i].kind) THEN 1 ELSE 0
  <2>1. rows' \in [Field -> Nat] /\ \A f \in Field : rows[f] <= rows'[f]
    <3>1. rows \in [Field -> Nat]  BY DEF StatsTypeOK
    <3>2. rows' = [f \in Field |-> rows[f] + more(f)] \/ UNCHANGED rows  BY <1>2 DEF Save
    <3>3. \A f \in Field : more(f) \in Nat  OBVIOUS
    <3> HIDE DEF more
    <3> QED  BY <3>1, <3>2, <3>3
  <2>2. PICK step \in {"read", "done"} :
          requests' = [requests EXCEPT ![i] = [requests[i] EXCEPT !.step = step]]
    BY <1>2 DEF Save
  <2>3. requests[i] \in Request  BY DEF StatsTypeOK
  <2>4. /\ [requests[i] EXCEPT !.step = step] \in Request
        /\ [requests[i] EXCEPT !.step = step].got = requests[i].got
    BY <2>3 DEF Request
  <2>5. /\ requests' \in Seq(Request) /\ DOMAIN requests' = DOMAIN requests
        /\ \A j \in DOMAIN requests : requests'[j].got = requests[j].got
    BY <2>2, <2>4, RequestReplaced
  <2>6. StatsTypeOK'  BY <1>2, <2>1, <2>5 DEF Save, StatsTypeOK
  <2>7. NeverAhead'  BY <1>2, <2>1 DEF Save, StatsTypeOK, NeverAhead
  <2>8. CountsThere'
    <3>1. ASSUME NEW got \in Counts, Counted(got) PROVE \A f \in DOMAIN got : got[f] <= rows'[f]
      BY <2>1, <3>1, CountedStays DEF StatsTypeOK
    <3>2. UNCHANGED <<fetch, feed>>  BY <1>2 DEF Save
    <3> QED  BY <2>5, <3>1, <3>2, AllCounts DEF CountsThere, Counted
  <2> QED  BY <2>6, <2>7, <2>8
<1>3. ASSUME NEW i \in DOMAIN requests, Read(i) PROVE StatsInv'
  <2>1. PICK f \in FieldsOf(requests[i].kind) :
          requests' = [requests EXCEPT ![i].got = WithRow(requests[i].got, f)]
    BY <1>3 DEF Read
  <2>2. requests[i] \in Request /\ Counted(requests[i].got)
    BY DEF StatsTypeOK, CountsThere
  <2>3. f \in Field  BY <2>2, StatsAssumption DEF FieldsOf, Field, Request, StatsAssumption
  <2> DEFINE got == WithRow(requests[i].got, f)
             r == [requests[i] EXCEPT !.got = got]
  <2>4. got \in Counts /\ Counted(got)
    BY <2>2, <2>3, WithRowCounted DEF StatsTypeOK, Request
  <2>5. r \in Request /\ r.got = got  BY <2>2, <2>4 DEF Request
  <2>6. requests' = [requests EXCEPT ![i] = r]  BY <2>1
  <2>7. /\ requests' \in Seq(Request) /\ DOMAIN requests' = DOMAIN requests
        /\ \A j \in DOMAIN requests : requests'[j] = IF j = i THEN r ELSE requests[j]
    BY <2>5, <2>6, RequestReplaced
  <2> HIDE DEF got, r
  <2>8. StatsTypeOK'  BY <1>3, <2>7 DEF Read, StatsTypeOK
  <2>9. CountsThere'  BY <1>3, <2>4, <2>5, <2>7 DEF Read, CountsThere, Counted
  <2> QED  BY <1>3, <2>8, <2>9 DEF Read, NeverAhead
<1>4. ASSUME NEW i \in DOMAIN requests, ReadFails(i) PROVE StatsInv'
  <2>1. requests[i] \in Request  BY DEF StatsTypeOK
  <2> DEFINE r == [requests[i] EXCEPT !.step = "done"]
  <2>2. r \in Request /\ r.got = requests[i].got  BY <2>1 DEF Request
  <2>3. requests' = [requests EXCEPT ![i] = r]  BY <1>4 DEF ReadFails
  <2>4. /\ requests' \in Seq(Request) /\ DOMAIN requests' = DOMAIN requests
        /\ \A j \in DOMAIN requests : requests'[j].got = requests[j].got
    BY <2>2, <2>3, RequestReplaced
  <2>5. off' \subseteq Field
    BY <1>4, <2>1, StatsAssumption
       DEF ReadFails, StatsTypeOK, FieldsOf, Field, Request, StatsAssumption
  <2>6. StatsTypeOK'  BY <1>4, <2>4, <2>5 DEF ReadFails, StatsTypeOK
  <2>7. CountsThere'  BY <1>4, <2>4 DEF ReadFails, CountsThere, Counted
  <2> QED  BY <1>4, <2>6, <2>7 DEF ReadFails, NeverAhead
<1>5. ASSUME NEW i \in DOMAIN requests, Emit(i) PROVE StatsInv'
  <2>1. requests[i] \in Request  BY DEF StatsTypeOK
  <2> DEFINE r == [requests[i] EXCEPT !.step = "done"]
             news == [type |-> "update-stat", got |-> requests[i].got]
  <2>2. r \in Request /\ r.got = requests[i].got  BY <2>1 DEF Request
  <2>3. requests' = [requests EXCEPT ![i] = r]  BY <1>5 DEF Emit
  <2>4. /\ requests' \in Seq(Request) /\ DOMAIN requests' = DOMAIN requests
        /\ \A j \in DOMAIN requests : requests'[j].got = requests[j].got
    BY <2>2, <2>3, RequestReplaced
  <2>5. news \in News /\ Counted(news.got)  BY AllCounts DEF News
  <2>6. feed' = Append(feed, news) \/ UNCHANGED feed  BY <1>5 DEF Emit
  <2> HIDE DEF r, news
  <2>7. feed' \in Seq(News) /\ \A j \in DOMAIN feed' : Counted(feed'[j].got)
    <3>1. feed \in Seq(News) /\ \A j \in DOMAIN feed : Counted(feed[j].got)
      BY DEF StatsTypeOK, CountsThere
    <3>2. CASE feed' = Append(feed, news)  BY <2>5, <3>1, <3>2
    <3>3. CASE UNCHANGED feed  BY <3>1, <3>3
    <3> QED  BY <2>6, <3>2, <3>3
  <2>8. off' \subseteq Field
    <3>1. Newer(requests[i].got) \subseteq Field
      <4>1. PICK fields \in SUBSET Field : requests[i].got \in [fields -> Nat]
        BY AllCounts DEF Counts
      <4> QED  BY <4>1 DEF Newer
    <3>2. off \subseteq Field  BY DEF StatsTypeOK
    <3> QED  BY <1>5, <3>1, <3>2 DEF Emit
  <2>9. StatsTypeOK'  BY <1>5, <2>4, <2>7, <2>8 DEF Emit, StatsTypeOK
  <2>10. CountsThere'  BY <1>5, <2>4, <2>7 DEF Emit, CountsThere, Counted
  <2> QED  BY <1>5, <2>9, <2>10 DEF Emit, NeverAhead
<1>6. ASSUME NEW f \in Field, FetchRead(f) PROVE StatsInv'
  <2> DEFINE got == WithRow(fetch.got, f)
  <2>1. got \in Counts /\ Counted(got)
    BY AllCounts, WithRowCounted DEF StatsTypeOK
  <2>2. fetch' = [fetch EXCEPT !.got = got]  BY <1>6 DEF FetchRead
  <2> HIDE DEF got
  <2>3. fetch' \in Asking /\ fetch'.got = got  BY <2>1, <2>2 DEF StatsTypeOK, Asking
  <2>4. StatsTypeOK'  BY <1>6, <2>3 DEF FetchRead, StatsTypeOK
  <2>5. CountsThere'  BY <1>6, <2>1, <2>3 DEF FetchRead, CountsThere, Counted
  <2> QED  BY <1>6, <2>4, <2>5 DEF FetchRead, NeverAhead
<1>7. CASE FetchAnswer
  <2>1. PICK got \in {Unread} \cup ({fetch.got} \cap [Field -> Nat]) :
          feed' = Append(feed, [type |-> "get-stat", got |-> got])
    BY <1>7 DEF FetchAnswer
  <2> DEFINE news == [type |-> "get-stat", got |-> got]
  <2>2. news \in News /\ Counted(news.got)  BY AllCounts, UnreadCounted DEF News
  <2>3. feed' = Append(feed, news)  BY <2>1
  <2> HIDE DEF news
  <2>4. feed' \in Seq(News) /\ \A j \in DOMAIN feed' : Counted(feed'[j].got)
    BY <2>2, <2>3 DEF StatsTypeOK, CountsThere
  <2>5. fetch' \in Asking /\ fetch'.got = fetch.got
    BY <1>7 DEF FetchAnswer, StatsTypeOK, Asking
  <2>6. StatsTypeOK'  BY <1>7, <2>4, <2>5 DEF FetchAnswer, StatsTypeOK
  <2>7. CountsThere'  BY <1>7, <2>4, <2>5 DEF FetchAnswer, CountsThere, Counted
  <2> QED  BY <1>7, <2>6, <2>7 DEF FetchAnswer, NeverAhead
<1>8. CASE Listen
  <2>1. StatsTypeOK'  BY <1>8 DEF Listen, StatsTypeOK
  <2>2. CountsThere'  BY <1>8 DEF Listen, CountsThere, Counted
  <2> QED  BY <1>8, <2>1, <2>2 DEF Listen, NeverAhead
<1>9. CASE Fetch \/ FetchTimeout
  <2>1. fetch' \in Asking /\ fetch'.got = fetch.got
    BY <1>9 DEF Fetch, FetchTimeout, StatsTypeOK, Asking
  <2>2. StatsTypeOK'  BY <1>9, <2>1 DEF Fetch, FetchTimeout, StatsTypeOK
  <2>3. CountsThere'  BY <1>9, <2>1 DEF Fetch, FetchTimeout, CountsThere, Counted
  <2> QED  BY <1>9, <2>2, <2>3 DEF Fetch, FetchTimeout, NeverAhead
<1>10. CASE TakeStat
  <2> DEFINE news == Head(feed).got
  <2>1. feed \in Seq(News) /\ feed # <<>> /\ feed' = Tail(feed)
    BY <1>10 DEF TakeStat, StatsTypeOK
  <2>2. news \in Counts /\ Counted(news)
    <3>1. 1 \in DOMAIN feed /\ Head(feed) = feed[1]  BY <2>1
    <3> QED  BY <3>1, AllCounts
  <2>3. feed' \in Seq(News) /\ \A j \in DOMAIN feed' : Counted(feed'[j].got)
    <3>1. /\ Tail(feed) \in Seq(News) /\ Len(Tail(feed)) = Len(feed) - 1
          /\ \A j \in 1..Len(Tail(feed)) : Tail(feed)[j] = feed[j + 1]
      BY <2>1, HeadTailProperties
    <3>2. \A j \in DOMAIN Tail(feed) : j + 1 \in DOMAIN feed  BY <2>1, <3>1
    <3> QED  BY <2>1, <3>1, <3>2 DEF CountsThere
  <2>4. PICK fields \in SUBSET Field : news \in [fields -> Nat]  BY <2>2 DEF Counts
  <2>5. fetch' \in Asking /\ fetch'.got = fetch.got
    BY <1>10 DEF TakeStat, StatsTypeOK, Asking
  <2>6. statistics' = Shown(news) \/ UNCHANGED statistics  BY <1>10 DEF TakeStat
  <2>7. off' \subseteq Field
    <3>1. Older(news) \subseteq Field /\ Newer(news) \subseteq Field
      BY <2>4 DEF Older, Newer
    <3>2. off \subseteq Field  BY DEF StatsTypeOK
    <3> QED  BY <1>10, <3>1, <3>2 DEF TakeStat
  <2>8. UNCHANGED <<rows, requests, up, listens, breaks>>  BY <1>10 DEF TakeStat
  <2> HIDE DEF news
  <2>9. statistics' \in [Field -> Nat] /\ NeverAhead'
    BY <2>2, <2>4, <2>6, <2>8 DEF Shown, Counted, StatsTypeOK, NeverAhead
  <2>10. StatsTypeOK'  BY <2>3, <2>5, <2>7, <2>8, <2>9 DEF StatsTypeOK
  <2>11. CountsThere'  BY <2>3, <2>5, <2>8 DEF CountsThere, Counted
  <2> QED  BY <2>9, <2>10, <2>11
<1>11. CASE SocketBreaks
  <2>1. off' \subseteq Field
    <3>1. \A i \in DOMAIN feed : Newer(feed[i].got) \subseteq Field
      <4> SUFFICES ASSUME NEW i \in DOMAIN feed PROVE Newer(feed[i].got) \subseteq Field
        OBVIOUS
      <4>1. PICK fields \in SUBSET Field : feed[i].got \in [fields -> Nat]
        BY AllCounts DEF Counts
      <4> QED  BY <4>1 DEF Newer
    <3>2. off \subseteq Field  BY DEF StatsTypeOK
    <3> QED  BY <1>11, <3>1, <3>2 DEF SocketBreaks
  <2>2. fetch' \in Asking /\ fetch'.got = fetch.got
    BY <1>11 DEF SocketBreaks, StatsTypeOK, Asking
  <2>3. feed' \in Seq(News) /\ DOMAIN feed' = {}  BY <1>11 DEF SocketBreaks
  <2>4. breaks' \in 0..MaxBreaks
    BY <1>11, StatsAssumption DEF SocketBreaks, StatsTypeOK, StatsAssumption
  <2>5. StatsTypeOK'  BY <1>11, <2>1, <2>2, <2>3, <2>4 DEF SocketBreaks, StatsTypeOK
  <2>6. CountsThere'  BY <1>11, <2>2, <2>3 DEF SocketBreaks, CountsThere, Counted
  <2> QED  BY <1>11, <2>5, <2>6 DEF SocketBreaks, NeverAhead
<1>12. CASE SocketReturns
  <2> DEFINE r == [kind |-> "users", step |-> "save", got |-> Unread]
  <2>1. r \in Request /\ Counted(r.got)
    BY UnreadCounted, StatsAssumption DEF Request, StatsAssumption
  <2>2. requests' = Append(requests, r)  BY <1>12 DEF SocketReturns, Started
  <2>3. requests' \in Seq(Request)  BY <2>1, <2>2 DEF StatsTypeOK
  <2>4. \A i \in DOMAIN requests' : Counted(requests'[i].got)
    BY <2>1, <2>2 DEF StatsTypeOK, CountsThere
  <2>5. StatsTypeOK'  BY <1>12, <2>3 DEF SocketReturns, StatsTypeOK
  <2>6. CountsThere'  BY <1>12, <2>4 DEF SocketReturns, CountsThere, Counted
  <2> QED  BY <1>12, <2>5, <2>6 DEF SocketReturns, NeverAhead
<1>13. CASE UNCHANGED statsVars
  <2>1. StatsTypeOK'  BY <1>13 DEF statsVars, StatsTypeOK
  <2>2. CountsThere'  BY <1>13 DEF statsVars, CountsThere, Counted
  <2> QED  BY <1>13, <2>1, <2>2 DEF statsVars, NeverAhead
<1> QED
  BY <1>1, <1>2, <1>3, <1>4, <1>5, <1>6, <1>7, <1>8, <1>9, <1>10, <1>11, <1>12, <1>13
     DEF StatsNext

LEMMA StatsInvHolds == StatsSpec => []StatsInv
BY StatsInitInv, StatsStepInv, PTL DEF StatsSpec

\* The state keeps its types.
THEOREM StatsTyping == StatsSpec => []StatsTypeOK
<1>1. StatsInv => StatsTypeOK  BY DEF StatsInv
<1> QED  BY <1>1, StatsInvHolds, PTL

\* The page never shows more than the database has, however queries, answers and
\* broken sockets come between.
THEOREM StatsNeverAhead == StatsSpec => []NeverAhead
<1>1. StatsInv => NeverAhead  BY DEF StatsInv
<1> QED  BY <1>1, StatsInvHolds, PTL

-----------------------------------------------------------------------------
(* What the page shows at rest *)

\* A handler will tell the number of rows there are now, or an update-stat on its way does.
Telling(i, f) ==
  /\ requests[i].step = "read" /\ f \in FieldsOf(requests[i].kind)
  /\ f \in DOMAIN requests[i].got => requests[i].got[f] = rows[f]
Told(k, f) ==
  feed[k].type = "update-stat" /\ f \in DOMAIN feed[k].got /\ feed[k].got[f] = rows[f]

\* RestExact is not inductive: what is not shown yet must be on its way, and read after
\* the row was saved.
NewsComes ==
  /\ \A i \in DOMAIN requests : requests[i].step = "save" => DOMAIN requests[i].got = {}
  /\ \A f \in Field \ off :
       \/ statistics[f] = rows[f]
       \/ \E i \in DOMAIN requests : Telling(i, f)
       \/ \E k \in DOMAIN feed : Told(k, f)

LEMMA NewsInit == StatsInit => NewsComes
<1> SUFFICES ASSUME StatsInit PROVE NewsComes  OBVIOUS
<1>1. DOMAIN requests = {}  BY DEF StatsInit
<1>2. \A f \in Field : statistics[f] = rows[f]  BY DEF StatsInit
<1> QED  BY <1>1, <1>2 DEF NewsComes

\* Nothing changes but a request, and that one still tells what it told.
LEMMA NewsOfRequest ==
  ASSUME StatsInv, NewsComes, UNCHANGED <<rows, feed, statistics>>, NEW i \in DOMAIN requests,
         NEW r, requests' = [requests EXCEPT ![i] = r],
         r.step = "save" => DOMAIN r.got = {},
         \A f \in Field : Telling(i, f) => f \in off' \/ Telling(i, f)',
         off \subseteq off'
  PROVE  NewsComes'
<1>1. /\ DOMAIN requests' = DOMAIN requests
      /\ \A j \in DOMAIN requests : requests'[j] = IF j = i THEN r ELSE requests[j]
  BY DEF StatsInv, StatsTypeOK
<1>2. \A j \in DOMAIN requests' : requests'[j].step = "save" => DOMAIN requests'[j].got = {}
  BY <1>1 DEF NewsComes
<1>3. ASSUME NEW f \in Field \ off'
      PROVE  \/ statistics'[f] = rows'[f]
             \/ \E j \in DOMAIN requests' : Telling(j, f)'
             \/ \E k \in DOMAIN feed' : Told(k, f)'
  <2>1. CASE statistics[f] = rows[f]  BY <2>1
  <2>2. ASSUME NEW j \in DOMAIN requests, Telling(j, f) PROVE Telling(j, f)'
    <3>1. CASE j = i  BY <1>3, <2>2, <3>1
    <3>2. CASE j # i
      <4>1. requests'[j] = requests[j]  BY <1>1, <3>2
      <4> QED  BY <2>2, <4>1 DEF Telling
    <3> QED  BY <3>1, <3>2
  <2>3. ASSUME NEW k \in DOMAIN feed, Told(k, f) PROVE Told(k, f)'  BY <2>3 DEF Told
  <2> QED  BY <1>1, <1>3, <2>1, <2>2, <2>3 DEF NewsComes
<1> QED  BY <1>2, <1>3 DEF NewsComes

\* A new request tells nothing, and leaves the others as they are.
LEMMA NewsOfMore ==
  ASSUME StatsInv, NewsComes, UNCHANGED <<rows, feed, statistics, off>>,
         NEW kind, requests' = Started(kind)
  PROVE  NewsComes'
<1> DEFINE r == [kind |-> kind, step |-> "save", got |-> Unread]
<1>1. requests' = Append(requests, r) /\ r.step = "save" /\ DOMAIN r.got = {}
  BY DEF Started, Unread
<1>2. requests \in Seq(Request)  BY DEF StatsInv, StatsTypeOK
<1> HIDE DEF r
<1>3. /\ DOMAIN requests \subseteq DOMAIN requests'
      /\ \A j \in DOMAIN requests' : requests'[j] = r \/ (j \in DOMAIN requests /\ requests'[j] = requests[j])
      /\ \A j \in DOMAIN requests : requests'[j] = requests[j]
  BY <1>1, <1>2
<1>4. ASSUME NEW f, NEW j \in DOMAIN requests, Telling(j, f)
      PROVE  Telling(j, f)' /\ j \in DOMAIN requests'
  BY <1>3, <1>4 DEF Telling
<1>5. ASSUME NEW f, NEW k \in DOMAIN feed, Told(k, f) PROVE Told(k, f)'  BY <1>5 DEF Told
<1>6. \A j \in DOMAIN requests' : requests'[j].step = "save" => DOMAIN requests'[j].got = {}
  BY <1>1, <1>3 DEF NewsComes
<1>7. ASSUME NEW f \in Field \ off'
      PROVE  \/ statistics'[f] = rows'[f]
             \/ \E j \in DOMAIN requests' : Telling(j, f)'
             \/ \E k \in DOMAIN feed' : Told(k, f)'
  BY <1>4, <1>5, <1>7 DEF NewsComes
<1> QED  BY <1>6, <1>7 DEF NewsComes

\* One more message is on its way: those before it stay.
LEMMA NewsOfFeed ==
  ASSUME StatsInv, NEW m, m \in News, feed' = Append(feed, m), UNCHANGED rows, NEW f
  PROVE  /\ \A k \in DOMAIN feed : Told(k, f) => k \in DOMAIN feed' /\ Told(k, f)'
         /\ m.type = "update-stat" /\ f \in DOMAIN m.got /\ m.got[f] = rows[f] =>
              \E k \in DOMAIN feed' : Told(k, f)'
<1>1. feed \in Seq(News)  BY DEF StatsInv, StatsTypeOK
<1>2. /\ \A k \in DOMAIN feed : k \in DOMAIN feed' /\ feed'[k] = feed[k]
      /\ Len(feed') \in DOMAIN feed' /\ feed'[Len(feed')] = m
  BY <1>1
<1>3. ASSUME NEW k \in DOMAIN feed, Told(k, f) PROVE k \in DOMAIN feed' /\ Told(k, f)'
  BY <1>2, <1>3 DEF Told
<1>4. ASSUME m.type = "update-stat", f \in DOMAIN m.got, m.got[f] = rows[f]
      PROVE  \E k \in DOMAIN feed' : Told(k, f)'
  BY <1>2, <1>4 DEF Told
<1> QED  BY <1>3, <1>4

LEMMA NewsStep == StatsInv /\ NewsComes /\ [StatsNext]_statsVars => NewsComes'
<1> SUFFICES ASSUME StatsInv, NewsComes, [StatsNext]_statsVars PROVE NewsComes'  OBVIOUS
<1>a. /\ \A i \in DOMAIN requests : requests[i] \in Request
      /\ requests \in Seq(Request) /\ feed \in Seq(News)
      /\ rows \in [Field -> Nat] /\ statistics \in [Field -> Nat] /\ off \subseteq Field
      /\ \A f \in Field : statistics[f] <= rows[f]
  BY DEF StatsInv, StatsTypeOK, NeverAhead
<1>1. ASSUME NEW kind \in Kind, AddStat(kind) PROVE NewsComes'
  BY <1>1, NewsOfMore DEF AddStat
<1>2. CASE SocketReturns  BY <1>2, NewsOfMore DEF SocketReturns
<1>3. ASSUME NEW i \in DOMAIN requests, Save(i) PROVE NewsComes'
  <2>1. /\ requests[i].step = "save" /\ UNCHANGED <<feed, statistics, off>>
        /\ DOMAIN requests[i].got = {}
    BY <1>3 DEF Save, NewsComes
  <2>2. ASSUME requests' = [requests EXCEPT ![i].step = "done"], UNCHANGED rows PROVE NewsComes'
    <3> DEFINE r == [requests[i] EXCEPT !.step = "done"]
    <3>1. requests' = [requests EXCEPT ![i] = r] /\ r.step = "done"  BY <1>a, <2>2 DEF Request
    <3>2. \A f \in Field : ~Telling(i, f)  BY <2>1 DEF Telling
    <3> HIDE DEF r
    <3> QED  BY <2>1, <2>2, <3>1, <3>2, NewsOfRequest
  <2>3. ASSUME rows' = [f \in Field |-> rows[f] + (IF f \in FieldsOf(requests[i].kind) THEN 1 ELSE 0)],
               requests' = [requests EXCEPT ![i].step = "read"]
        PROVE  NewsComes'
    <3>1. /\ DOMAIN requests' = DOMAIN requests
          /\ \A j \in DOMAIN requests : j # i => requests'[j] = requests[j]
          /\ requests'[i].step = "read" /\ requests'[i].got = requests[i].got
          /\ requests'[i].kind = requests[i].kind
      BY <1>a, <2>3 DEF Request
    <3>2. \A j \in DOMAIN requests' : requests'[j].step = "save" => DOMAIN requests'[j].got = {}
      BY <3>1 DEF NewsComes
    <3>3. ASSUME NEW f \in Field \ off'
          PROVE  \/ statistics'[f] = rows'[f]
                 \/ \E j \in DOMAIN requests' : Telling(j, f)'
                 \/ \E k \in DOMAIN feed' : Told(k, f)'
      <4>1. CASE f \in FieldsOf(requests[i].kind)
        <5>1. Telling(i, f)'  BY <2>1, <3>1, <4>1 DEF Telling
        <5> QED  BY <3>1, <5>1
      <4>2. CASE f \notin FieldsOf(requests[i].kind)
        <5>1. rows'[f] = rows[f]  BY <1>a, <2>3, <4>2
        <5>2. ASSUME NEW j \in DOMAIN requests, Telling(j, f) PROVE Telling(j, f)'
          <6>1. j # i  BY <2>1, <5>2 DEF Telling
          <6>2. requests'[j] = requests[j]  BY <3>1, <6>1
          <6> QED  BY <5>1, <5>2, <6>2 DEF Telling
        <5>3. ASSUME NEW k \in DOMAIN feed, Told(k, f) PROVE Told(k, f)'
          BY <2>1, <5>1, <5>3 DEF Told
        <5> QED  BY <2>1, <3>1, <3>3, <5>1, <5>2, <5>3 DEF NewsComes
      <4> QED  BY <4>1, <4>2
    <3> QED  BY <3>2, <3>3 DEF NewsComes
  <2> QED  BY <1>3, <2>2, <2>3 DEF Save
<1>4. ASSUME NEW i \in DOMAIN requests, Read(i) PROVE NewsComes'
  <2>1. PICK g \in FieldsOf(requests[i].kind) :
          requests' = [requests EXCEPT ![i].got = WithRow(requests[i].got, g)]
    BY <1>4 DEF Read
  <2> DEFINE got == WithRow(requests[i].got, g)
             r == [requests[i] EXCEPT !.got = got]
  <2>2. UNCHANGED <<rows, feed, statistics, off>> /\ requests[i].step = "read"
    BY <1>4 DEF Read
  <2>3. got[g] = rows[g] /\ \A f \in DOMAIN got : f = g \/ (f \in DOMAIN requests[i].got /\ got[f] = requests[i].got[f])
    BY DEF WithRow
  <2> HIDE DEF got
  <2>4. /\ requests' = [requests EXCEPT ![i] = r]
        /\ r.step = "read" /\ r.got = got /\ r.kind = requests[i].kind
    BY <1>a, <2>1, <2>2 DEF Request, got
  <2> HIDE DEF r
  <2>5. requests'[i] = r  BY <1>a, <2>4
  <2>6. \A f \in Field : Telling(i, f) => Telling(i, f)'
    BY <2>2, <2>3, <2>4, <2>5 DEF Telling
  <2> QED  BY <2>2, <2>4, <2>6, NewsOfRequest
<1>5. ASSUME NEW i \in DOMAIN requests, ReadFails(i) PROVE NewsComes'
  <2> DEFINE r == [requests[i] EXCEPT !.step = "done"]
  <2>1. /\ UNCHANGED <<rows, feed, statistics>> /\ off' = off \cup FieldsOf(requests[i].kind)
        /\ requests' = [requests EXCEPT ![i] = r]
    BY <1>5 DEF ReadFails
  <2>2. r.step = "done"  BY <1>a DEF Request
  <2>3. \A f \in Field : Telling(i, f) => f \in off'  BY <2>1 DEF Telling
  <2> HIDE DEF r
  <2> QED  BY <2>1, <2>2, <2>3, NewsOfRequest
<1>6. ASSUME NEW i \in DOMAIN requests, Emit(i) PROVE NewsComes'
  <2> DEFINE r == [requests[i] EXCEPT !.step = "done"]
  <2>1. /\ UNCHANGED <<rows, statistics>> /\ requests' = [requests EXCEPT ![i] = r]
        /\ DOMAIN requests[i].got = FieldsOf(requests[i].kind)
    BY <1>6 DEF Emit
  <2>2. r.step = "done"  BY <1>a DEF Request
  <2> HIDE DEF r
  <2>3. CASE ~up
    <3>1. UNCHANGED feed /\ off' = off \cup Newer(requests[i].got)  BY <1>6, <2>3 DEF Emit
    <3>2. /\ DOMAIN requests' = DOMAIN requests
          /\ \A j \in DOMAIN requests : requests'[j] = IF j = i THEN r ELSE requests[j]
      BY <1>a, <2>1
    <3>3. \A j \in DOMAIN requests' : requests'[j].step = "save" => DOMAIN requests'[j].got = {}
      BY <2>2, <3>2 DEF NewsComes
    <3>4. ASSUME NEW f \in Field \ off'
          PROVE  \/ statistics'[f] = rows'[f]
                 \/ \E j \in DOMAIN requests' : Telling(j, f)'
                 \/ \E k \in DOMAIN feed' : Told(k, f)'
      <4>1. ASSUME Telling(i, f) PROVE statistics[f] = rows[f]
        <5>1. f \in DOMAIN requests[i].got /\ requests[i].got[f] = rows[f]
          BY <2>1, <4>1 DEF Telling
        <5>2. ~(requests[i].got[f] > statistics[f])  BY <3>1, <3>4, <5>1 DEF Newer
        <5>3. rows[f] \in Nat /\ statistics[f] \in Nat /\ statistics[f] <= rows[f]
          BY <1>a, <3>4
        <5> QED  BY <5>1, <5>2, <5>3
      <4>2. ASSUME NEW j \in DOMAIN requests, j # i, Telling(j, f) PROVE Telling(j, f)'
        BY <2>1, <3>2, <4>2 DEF Telling
      <4>3. ASSUME NEW k \in DOMAIN feed, Told(k, f) PROVE Told(k, f)'
        BY <2>1, <3>1, <4>3 DEF Told
      <4> QED  BY <2>1, <3>1, <3>2, <3>4, <4>1, <4>2, <4>3 DEF NewsComes
    <3> QED  BY <3>3, <3>4 DEF NewsComes
  <2>4. CASE up
    <3> DEFINE m == [type |-> "update-stat", got |-> requests[i].got]
    <3>1. UNCHANGED off /\ feed' = Append(feed, m)  BY <1>6, <2>4 DEF Emit
    <3>2. m \in News /\ m.type = "update-stat" /\ m.got = requests[i].got  BY AllCounts DEF News
    <3> HIDE DEF m
    <3>3. /\ DOMAIN requests' = DOMAIN requests
          /\ \A j \in DOMAIN requests : requests'[j] = IF j = i THEN r ELSE requests[j]
      BY <1>a, <2>1
    <3>4. \A j \in DOMAIN requests' : requests'[j].step = "save" => DOMAIN requests'[j].got = {}
      BY <2>2, <3>3 DEF NewsComes
    <3>5. ASSUME NEW f \in Field \ off'
          PROVE  \/ statistics'[f] = rows'[f]
                 \/ \E j \in DOMAIN requests' : Telling(j, f)'
                 \/ \E k \in DOMAIN feed' : Told(k, f)'
      <4>0. /\ \A k \in DOMAIN feed : Told(k, f) => k \in DOMAIN feed' /\ Told(k, f)'
            /\ f \in DOMAIN m.got /\ m.got[f] = rows[f] => \E k \in DOMAIN feed' : Told(k, f)'
        BY <2>1, <3>1, <3>2, NewsOfFeed
      <4>1. ASSUME Telling(i, f) PROVE \E k \in DOMAIN feed' : Told(k, f)'
        BY <2>1, <3>2, <4>0, <4>1 DEF Telling
      <4>2. ASSUME NEW j \in DOMAIN requests, j # i, Telling(j, f) PROVE Telling(j, f)'
        BY <2>1, <3>3, <4>2 DEF Telling
      <4> QED  BY <2>1, <3>1, <3>3, <3>5, <4>0, <4>1, <4>2 DEF NewsComes
    <3> QED  BY <3>4, <3>5 DEF NewsComes
  <2> QED  BY <2>3, <2>4
<1>7. CASE UNCHANGED <<rows, requests, feed, statistics, off>>
  <2>1. ASSUME NEW f, NEW i, Telling(i, f) PROVE Telling(i, f)'  BY <1>7, <2>1 DEF Telling
  <2>2. ASSUME NEW f, NEW k, Told(k, f) PROVE Told(k, f)'  BY <1>7, <2>2 DEF Told
  <2>3. ASSUME NEW f \in Field \ off'
        PROVE  \/ statistics'[f] = rows'[f]
               \/ \E j \in DOMAIN requests' : Telling(j, f)'
               \/ \E k \in DOMAIN feed' : Told(k, f)'
    BY <1>7, <2>1, <2>2, <2>3 DEF NewsComes
  <2>4. \A j \in DOMAIN requests' : requests'[j].step = "save" => DOMAIN requests'[j].got = {}
    BY <1>7 DEF NewsComes
  <2> QED  BY <2>3, <2>4 DEF NewsComes
<1>8. ASSUME NEW f \in Field, FetchRead(f) PROVE NewsComes'  BY <1>7, <1>8 DEF FetchRead
<1>9. CASE Listen \/ Fetch  BY <1>7, <1>9 DEF Listen, Fetch
<1>10. CASE FetchAnswer
  <2>1. PICK got \in {Unread} \cup ({fetch.got} \cap [Field -> Nat]) :
          feed' = Append(feed, [type |-> "get-stat", got |-> got])
    BY <1>10 DEF FetchAnswer
  <2> DEFINE m == [type |-> "get-stat", got |-> got]
  <2>2. m \in News  BY AllCounts, UnreadCounted DEF News
  <2>3. feed' = Append(feed, m) /\ UNCHANGED <<rows, requests, statistics, off>>
    BY <1>10, <2>1 DEF FetchAnswer
  <2> HIDE DEF m
  <2>4. ASSUME NEW f, NEW i, Telling(i, f) PROVE Telling(i, f)'  BY <2>3, <2>4 DEF Telling
  <2>5. ASSUME NEW f \in Field \ off'
        PROVE  \/ statistics'[f] = rows'[f]
               \/ \E j \in DOMAIN requests' : Telling(j, f)'
               \/ \E k \in DOMAIN feed' : Told(k, f)'
    <3>1. \A k \in DOMAIN feed : Told(k, f) => k \in DOMAIN feed' /\ Told(k, f)'
      BY <2>2, <2>3, NewsOfFeed
    <3> QED  BY <2>3, <2>4, <2>5, <3>1 DEF NewsComes
  <2>6. \A j \in DOMAIN requests' : requests'[j].step = "save" => DOMAIN requests'[j].got = {}
    BY <2>3 DEF NewsComes
  <2> QED  BY <2>5, <2>6 DEF NewsComes
<1>11. CASE FetchTimeout
  <2>1. off' = Field /\ requests' = requests  BY <1>11 DEF FetchTimeout
  <2> QED  BY <2>1 DEF NewsComes
<1>12. CASE TakeStat
  <2> DEFINE news == Head(feed).got
  <2>1. /\ feed # <<>> /\ feed' = Tail(feed) /\ UNCHANGED <<rows, requests>>
        /\ Head(feed) = feed[1] /\ 1 \in DOMAIN feed
    BY <1>a, <1>12 DEF TakeStat
  <2>2. PICK fields \in SUBSET Field : news \in [fields -> Nat]
    BY <2>1, AllCounts DEF Counts
  <2>3. \A f \in fields : news[f] <= rows[f]
    <3>1. Counted(news)  BY <2>1, AllCounts
    <3> QED  BY <2>2, <3>1 DEF Counted
  <2>4. \A j \in DOMAIN requests' : requests'[j].step = "save" => DOMAIN requests'[j].got = {}
    BY <2>1 DEF NewsComes
  <2>5. ASSUME NEW f, NEW k \in DOMAIN feed, Told(k, f), k # 1
        PROVE  \E l \in DOMAIN feed' : Told(l, f)'
    <3>1. /\ Tail(feed) \in Seq(News) /\ Len(Tail(feed)) = Len(feed) - 1
          /\ \A j \in 1..Len(Tail(feed)) : Tail(feed)[j] = feed[j + 1]
      BY <1>a, <2>1, HeadTailProperties
    <3>2. k - 1 \in DOMAIN feed' /\ feed'[k - 1] = feed[k]  BY <1>a, <2>1, <2>5, <3>1
    <3>3. Told(k - 1, f)'  BY <2>1, <2>5, <3>2 DEF Told
    <3> QED  BY <3>2, <3>3
  <2>6. ASSUME NEW f, NEW i, Telling(i, f) PROVE Telling(i, f)'  BY <2>1, <2>6 DEF Telling
  <2>7. ASSUME NEW f \in Field \ off'
        PROVE  \/ statistics'[f] = rows'[f]
               \/ \E j \in DOMAIN requests' : Telling(j, f)'
               \/ \E k \in DOMAIN feed' : Told(k, f)'
    <3>0. rows[f] \in Nat /\ statistics[f] \in Nat /\ statistics[f] <= rows[f]  BY <1>a, <2>7
    <3>1. CASE Heard(Head(feed))
      <4>1. statistics' = Shown(news) /\ off' = (off \ Current(news)) \cup Older(news)
        BY <1>12, <3>1 DEF TakeStat, Heard
      <4>2. statistics'[f] = IF f \in fields THEN news[f] ELSE statistics[f]
        BY <2>2, <2>7, <4>1 DEF Shown
      <4>3. CASE f \in fields /\ news[f] = rows[f]  BY <2>1, <4>2, <4>3
      <4>4. CASE f \notin fields
        <5>1. f \notin off  BY <2>2, <2>7, <4>1, <4>4 DEF Current
        <5>2. ~Told(1, f)  BY <2>1, <2>2, <4>4 DEF Told
        <5> QED  BY <2>1, <2>5, <2>6, <2>7, <4>2, <4>4, <5>1, <5>2 DEF NewsComes
      <4>5. CASE f \in fields /\ news[f] # rows[f]
        <5>1. f \notin off /\ ~(news[f] < statistics[f])
          BY <2>2, <2>7, <4>1, <4>5 DEF Current, Older
        <5>2. news[f] \in Nat /\ news[f] <= rows[f]  BY <2>2, <2>3, <4>5
        <5>3. statistics[f] # rows[f]  BY <3>0, <4>5, <5>1, <5>2
        <5>4. ~Told(1, f)  BY <2>1, <4>5 DEF Told
        <5> QED  BY <2>1, <2>5, <2>6, <2>7, <5>1, <5>3, <5>4 DEF NewsComes
      <4> QED  BY <4>3, <4>4, <4>5
    <3>2. CASE Head(feed).type = "get-stat" /\ ~Heard(Head(feed))
      <4>1. UNCHANGED statistics /\ (off' = Field \/ off' = off)
        BY <1>12, <3>2 DEF TakeStat
      <4>2. f \notin off  BY <2>7, <4>1
      <4>3. ~Told(1, f)  BY <2>1, <3>2 DEF Told
      <4> QED  BY <2>1, <2>5, <2>6, <2>7, <4>1, <4>2, <4>3 DEF NewsComes
    <3>3. CASE Head(feed).type = "update-stat" /\ ~Heard(Head(feed))
      <4>1. UNCHANGED statistics /\ off' = off \cup Newer(news)
        BY <1>12, <3>3 DEF TakeStat
      <4>2. f \notin off /\ f \notin Newer(news)  BY <2>7, <4>1
      <4>3. Told(1, f) => statistics[f] = rows[f]
        <5> SUFFICES ASSUME Told(1, f) PROVE statistics[f] = rows[f]  OBVIOUS
        <5>1. f \in DOMAIN news /\ news[f] = rows[f]  BY <2>1 DEF Told
        <5>2. ~(news[f] > statistics[f])  BY <4>2, <5>1 DEF Newer
        <5> QED  BY <3>0, <5>1, <5>2
      <4> QED  BY <2>1, <2>5, <2>6, <2>7, <4>1, <4>2, <4>3 DEF NewsComes
    <3> QED  BY <1>12, <3>1, <3>2, <3>3 DEF TakeStat
  <2> QED  BY <2>4, <2>7 DEF NewsComes
<1>13. CASE SocketBreaks
  <2>1. /\ feed' = <<>> /\ UNCHANGED <<rows, requests, statistics>>
        /\ off' = off \cup UNION {Newer(feed[i].got) : i \in DOMAIN feed}
    BY <1>13 DEF SocketBreaks
  <2>2. ASSUME NEW f \in Field \ off', NEW k \in DOMAIN feed, Told(k, f)
        PROVE  statistics[f] = rows[f]
    <3>1. f \in DOMAIN feed[k].got /\ feed[k].got[f] = rows[f]  BY <2>2 DEF Told
    <3>2. f \notin Newer(feed[k].got)  BY <2>1, <2>2
    <3>3. ~(feed[k].got[f] > statistics[f])  BY <3>1, <3>2 DEF Newer
    <3>4. rows[f] \in Nat /\ statistics[f] \in Nat /\ statistics[f] <= rows[f]  BY <1>a, <2>2
    <3> QED  BY <3>1, <3>3, <3>4
  <2>3. ASSUME NEW f, NEW i, Telling(i, f) PROVE Telling(i, f)'  BY <2>1, <2>3 DEF Telling
  <2>4. ASSUME NEW f \in Field \ off'
        PROVE  \/ statistics'[f] = rows'[f]
               \/ \E j \in DOMAIN requests' : Telling(j, f)'
               \/ \E k \in DOMAIN feed' : Told(k, f)'
    BY <2>1, <2>2, <2>3, <2>4 DEF NewsComes
  <2>5. \A j \in DOMAIN requests' : requests'[j].step = "save" => DOMAIN requests'[j].got = {}
    BY <2>1 DEF NewsComes
  <2> QED  BY <2>4, <2>5 DEF NewsComes
<1>14. CASE UNCHANGED statsVars  BY <1>7, <1>14 DEF statsVars
<1> QED
  BY <1>1, <1>2, <1>3, <1>4, <1>5, <1>6, <1>8, <1>9, <1>10, <1>11, <1>12, <1>13, <1>14
     DEF StatsNext

\* When nothing is on its way the page shows what the database has, but for the fields
\* whose last news came out of order, was lost or was never sent.
THEOREM StatsRest == StatsSpec => []RestExact
<1>1. StatsInv /\ NewsComes => RestExact
  <2> SUFFICES ASSUME StatsInv, NewsComes, Resting, NEW f \in Field \ off
               PROVE  statistics[f] = rows[f]
    BY DEF RestExact
  <2>1. feed = <<>> /\ \A i \in DOMAIN requests : requests[i].step = "done"  BY DEF Resting
  <2>2. \A i \in DOMAIN requests : ~Telling(i, f)  BY <2>1 DEF Telling
  <2>3. DOMAIN feed = {}  BY <2>1
  <2> QED  BY <2>2, <2>3 DEF NewsComes
<1>2. StatsInv /\ NewsComes /\ [StatsNext]_statsVars => (StatsInv /\ NewsComes)'
  BY StatsStepInv, NewsStep
<1> QED  BY <1>1, <1>2, StatsInitInv, NewsInit, PTL DEF StatsSpec

-----------------------------------------------------------------------------
(***************************************************************************)
(* The spotlight of the cards, for every set of cards. What the opacity    *)
(* will be is decided by the tween that ends last (LastWord): the one that *)
(* fades the spotlight takes five tenths and outlasts those that made it   *)
(* brighter, which take two.                                               *)
(***************************************************************************)

\* Where the opacity is, or will be when the last tween has ended.
LastWord(level) ==
  IF Still THEN opacity = level
  ELSE \E t \in DOMAIN tweens : tweens[t] = level /\ \A u \in DOMAIN tweens : u <= t

\* The types; and a tween that makes the spotlight brighter takes two tenths at most.
LightTypes ==
  /\ handling \in BOOLEAN /\ inside \in BOOLEAN
  /\ effects \in Nat /\ glow \in [Card -> Level] /\ opacity \in Level
  /\ DOMAIN tweens \subseteq 1..5
  /\ \A t \in DOMAIN tweens : tweens[t] \in Level /\ (tweens[t] > 0 => t <= 2)

LightInv ==
  /\ LightTypes
  /\ OneSpotlight
  /\ ~inside => glow = Dark /\ LastWord(0)
  /\ apart = {} => LastWord(Max({glow[c] : c \in Card}))

-----------------------------------------------------------------------------
\* The brightest of the cards.
LEMMA BrightestIs ==
  ASSUME NEW near \in [Card -> Level]
  PROVE  Max({near[c] : c \in Card}) \in Level
<1> DEFINE S == {near[c] : c \in Card}
<1>1. S \subseteq {0, 1, 2} /\ S # {}  BY SpotlightAssumption DEF SpotlightAssumption, Level
<1> HIDE DEF S
<1>2. \E x \in S : \A y \in S : x >= y
  <2>1. CASE 2 \in S  BY <1>1, <2>1
  <2>2. CASE 2 \notin S /\ 1 \in S  BY <1>1, <2>2
  <2>3. CASE 2 \notin S /\ 1 \notin S
    <3>1. \A x \in S : x = 0  BY <1>1, <2>3
    <3>2. PICK x \in S : x = 0  BY <1>1, <3>1
    <3> QED  BY <3>1, <3>2
  <2> QED  BY <2>1, <2>2, <2>3
<1>3. Max(S) \in S  BY <1>2 DEF Max
<1> QED  BY <1>1, <1>3 DEF S, Level

\* With no card lit it is dark.
LEMMA DarkGlow == Dark \in [Card -> Level]
BY DEF Dark, Level
LEMMA DarkestIs == Max({Dark[c] : c \in Card}) = 0
<1>1. {Dark[c] : c \in Card} = {0}  BY SpotlightAssumption DEF SpotlightAssumption, Dark
<1>2. Max({0}) = 0  BY DEF Max
<1> QED  BY <1>1, <1>2

\* Nothing moves: the opacity has the last word.
LEMMA StillIs ==
  ASSUME tweens' = NoTween, opacity' = 0
  PROVE  LastWord(0)' /\ DOMAIN tweens' = {}
BY DEF NoTween, LastWord, Still

\* A tween that no other outlasts has the last word.
LEMMA TweenLast ==
  ASSUME LightTypes, NEW to \in Level, NEW time \in 1..5, Tween(to, time),
         to > 0 => time <= 2
  PROVE  /\ DOMAIN tweens' \subseteq 1..5
         /\ \A t \in DOMAIN tweens' : tweens'[t] \in Level /\ (tweens'[t] > 0 => t <= 2)
         /\ ~Overtaken(time) => LastWord(to)'
<1>1. /\ DOMAIN tweens' = DOMAIN tweens \cup {time}
      /\ \A t \in DOMAIN tweens' : tweens'[t] = IF t = time THEN to ELSE tweens[t]
  BY DEF Tween
<1>2. DOMAIN tweens' \subseteq 1..5  BY <1>1 DEF LightTypes
<1>3. \A t \in DOMAIN tweens' : tweens'[t] \in Level /\ (tweens'[t] > 0 => t <= 2)
  BY <1>1 DEF LightTypes
<1>4. ASSUME ~Overtaken(time) PROVE LastWord(to)'
  <2>1. \A u \in DOMAIN tweens' : u <= time  BY <1>1, <1>2, <1>4 DEF Overtaken, LightTypes
  <2>2. tweens'[time] = to /\ time \in DOMAIN tweens'  BY <1>1
  <2> QED  BY <2>1, <2>2 DEF LastWord, Still
<1> QED  BY <1>2, <1>3, <1>4

\* The one that fades the spotlight outlasts all that made it brighter; a longer one
\* fades it too.
LEMMA FadeLast ==
  ASSUME LightTypes, Tween(0, 3)
  PROVE  LastWord(0)'
<1>1. CASE ~Overtaken(3)  BY <1>1, TweenLast DEF Level
<1>2. CASE Overtaken(3)
  <2>1. /\ DOMAIN tweens' = DOMAIN tweens \cup {3}
        /\ \A t \in DOMAIN tweens' : tweens'[t] = IF t = 3 THEN 0 ELSE tweens[t]
    BY DEF Tween
  <2>2. \A t \in DOMAIN tweens' : t \in 1..5 /\ (t > 2 => tweens'[t] = 0)
    BY <2>1 DEF LightTypes, Level
  <2>3. PICK t \in DOMAIN tweens' : t > 3  BY <1>2, <2>1 DEF Overtaken
  <2>4. PICK m \in DOMAIN tweens' : m > 3 /\ \A u \in DOMAIN tweens' : u <= m
    <3>1. CASE 5 \in DOMAIN tweens'  BY <2>2, <3>1
    <3>2. CASE 5 \notin DOMAIN tweens'
      <4>1. \A u \in DOMAIN tweens' : u <= 4  BY <2>2, <3>2
      <4> QED  BY <2>2, <2>3, <4>1
    <3> QED  BY <3>1, <3>2
  <2> QED  BY <2>2, <2>4 DEF LastWord, Still
<1> QED  BY <1>1, <1>2

\* Time passes, and the last word stays.
LEMMA TickKeeps ==
  ASSUME LightTypes, Tick, NEW level \in Level, LastWord(level)
  PROVE  LastWord(level)'
<1>1. /\ DOMAIN tweens' = {t - 1 : t \in DOMAIN tweens \ {1}}
      /\ \A t \in DOMAIN tweens' : tweens'[t] = tweens[t + 1]
  BY DEF Tick
<1>2. PICK t \in DOMAIN tweens : tweens[t] = level /\ \A u \in DOMAIN tweens : u <= t
  BY DEF Tick, LastWord
<1>3. \A u \in DOMAIN tweens : u \in 1..5  BY DEF LightTypes
<1>4. CASE t = 1
  <2>1. DOMAIN tweens = {1}  BY <1>2, <1>3, <1>4
  <2>2. Still'  BY <1>1, <2>1 DEF Still
  <2>3. opacity' = level  BY <1>2, <1>4 DEF Tick
  <2> QED  BY <2>2, <2>3 DEF LastWord
<1>5. CASE t # 1
  <2>1. t - 1 \in DOMAIN tweens' /\ tweens'[t - 1] = level  BY <1>1, <1>2, <1>3, <1>5
  <2>2. \A u \in DOMAIN tweens' : u <= t - 1  BY <1>1, <1>2, <1>3
  <2> QED  BY <2>1, <2>2 DEF LastWord, Still
<1> QED  BY <1>4, <1>5

-----------------------------------------------------------------------------
LEMMA LightInitInv == SpotlightInit => LightInv
<1> SUFFICES ASSUME SpotlightInit PROVE LightInv  OBVIOUS
<1>1. DOMAIN tweens = {}  BY DEF SpotlightInit, NoTween
<1>2. LastWord(0)  BY <1>1 DEF SpotlightInit, LastWord, Still
<1>3. LightTypes
  <2>1. glow \in [Card -> Level]  BY DarkGlow DEF SpotlightInit
  <2>2. opacity \in Level  BY DEF SpotlightInit, Level
  <2> QED  BY <1>1, <2>1, <2>2 DEF SpotlightInit, LightTypes
<1>4. OneSpotlight  BY DEF SpotlightInit, OneSpotlight
<1> QED  BY <1>2, <1>3, <1>4, DarkestIs DEF SpotlightInit, LightInv

\* One step for each action.
LEMMA LightStepInv == LightInv /\ [SpotlightNext]_spotlightVars => LightInv'
<1> SUFFICES ASSUME LightInv, [SpotlightNext]_spotlightVars PROVE LightInv'  OBVIOUS
<1> USE DEF LightInv
<1>1. CASE SpotlightEffect
  <2>1. LastWord(0)' /\ DOMAIN tweens' = {}  BY <1>1, StillIs DEF SpotlightEffect
  <2>2. LightTypes'  BY <1>1, <2>1 DEF SpotlightEffect, LightTypes, Level
  <2>3. OneSpotlight'  BY <1>1 DEF SpotlightEffect, OneSpotlight, CleanUpSpot
  <2>4. ~inside' => glow' = Dark  BY <1>1 DEF SpotlightEffect
  <2>5. apart' # {}  BY <1>1 DEF SpotlightEffect
  <2> QED  BY <2>1, <2>2, <2>3, <2>4, <2>5 DEF Dark
<1>2. CASE Unmount
  <2>1. LastWord(0)' /\ DOMAIN tweens' = {}  BY <1>2, StillIs DEF Unmount
  <2>2. glow' = Dark  BY <1>2 DEF Unmount
  <2>3. LightTypes'
    <3>1. glow' \in [Card -> Level]  BY <2>2, DarkGlow
    <3>2. opacity' \in Level  BY <1>2 DEF Unmount, Level
    <3> QED  BY <1>2, <2>1, <3>1, <3>2 DEF Unmount, LightTypes
  <2>4. OneSpotlight'  BY <1>2 DEF Unmount, OneSpotlight, CleanUpSpot
  <2>5. Max({glow'[c] : c \in Card}) = 0  BY <2>2, DarkestIs
  <2> QED  BY <2>1, <2>2, <2>3, <2>4, <2>5 DEF Dark
<1>3. CASE RenderGrid
  <2>1. glow' = Dark  BY <1>3 DEF RenderGrid
  <2>2. LightTypes'  BY <1>3, <2>1, DarkGlow DEF RenderGrid, LightTypes
  <2>3. OneSpotlight'  BY <1>3 DEF RenderGrid, OneSpotlight
  <2>4. LastWord(0)' <=> LastWord(0)  BY <1>3 DEF RenderGrid, LastWord, Still
  <2>5. apart' # {} /\ inside' = inside  BY <1>3 DEF RenderGrid
  <2> QED  BY <2>1, <2>2, <2>3, <2>4, <2>5 DEF Dark
<1>4. ASSUME NEW near \in [Card -> Level], MouseMove(near) PROVE LightInv'
  <2> DEFINE level == Max({near[c] : c \in Card})
  <2>1. level \in Level  BY BrightestIs
  <2>2. /\ glow' = near /\ inside' = TRUE
        /\ Tween(level, FadeTime(level))
        /\ apart' = IF Overtaken(FadeTime(level)) THEN {"overtaken"} ELSE {}
    BY <1>4 DEF MouseMove
  <2>3. Max({glow'[c] : c \in Card}) = level  BY <2>2
  <2> HIDE DEF level
  <2>4. FadeTime(level) \in 1..5 /\ (level > 0 => FadeTime(level) <= 2)
    BY <2>1 DEF FadeTime, Level
  <2>5. /\ DOMAIN tweens' \subseteq 1..5
        /\ \A t \in DOMAIN tweens' : tweens'[t] \in Level /\ (tweens'[t] > 0 => t <= 2)
        /\ ~Overtaken(FadeTime(level)) => LastWord(level)'
    BY <2>1, <2>2, <2>4, TweenLast
  <2>6. LightTypes'  BY <1>4, <2>2, <2>5 DEF MouseMove, LightTypes
  <2>7. OneSpotlight'  BY <1>4 DEF MouseMove, OneSpotlight
  <2>8. apart' = {} => LastWord(level)'  BY <2>2, <2>5
  <2> QED  BY <2>2, <2>3, <2>6, <2>7, <2>8
<1>5. CASE MouseOut
  <2>1. glow' = Dark /\ Tween(0, 3)  BY <1>5 DEF MouseOut
  <2>2. LastWord(0)'  BY <2>1, FadeLast
  <2>3. /\ DOMAIN tweens' \subseteq 1..5
        /\ \A t \in DOMAIN tweens' : tweens'[t] \in Level /\ (tweens'[t] > 0 => t <= 2)
    BY <2>1, TweenLast DEF Level
  <2>4. LightTypes'  BY <1>5, <2>1, <2>3, DarkGlow DEF MouseOut, LightTypes
  <2>5. OneSpotlight'  BY <1>5 DEF MouseOut, OneSpotlight
  <2>6. Max({glow'[c] : c \in Card}) = 0  BY <2>1, DarkestIs
  <2> QED  BY <2>1, <2>2, <2>4, <2>5, <2>6 DEF Dark
<1>6. CASE Tick
  <2>1. UNCHANGED <<spots, handling, effects, glow, inside, apart>>  BY <1>6 DEF Tick
  <2>2. LightTypes'
    <3>1. /\ DOMAIN tweens' = {t - 1 : t \in DOMAIN tweens \ {1}}
          /\ \A t \in DOMAIN tweens' : tweens'[t] = tweens[t + 1]
      BY <1>6 DEF Tick
    <3>2. DOMAIN tweens' \subseteq 1..5  BY <3>1 DEF LightTypes
    <3>3. \A t \in DOMAIN tweens' : tweens'[t] \in Level /\ (tweens'[t] > 0 => t <= 2)
      BY <3>1 DEF LightTypes
    <3>4. opacity' \in Level  BY <1>6 DEF Tick, LightTypes
    <3> QED  BY <2>1, <3>2, <3>3, <3>4 DEF LightTypes
  <2>3. OneSpotlight'  BY <2>1 DEF OneSpotlight
  <2>4. ~inside' => glow' = Dark /\ LastWord(0)'
    BY <1>6, <2>1, TickKeeps DEF Level, Dark
  <2>5. ASSUME apart' = {} PROVE LastWord(Max({glow[c] : c \in Card}))'
    <3> DEFINE level == Max({glow[c] : c \in Card})
    <3>1. level \in Level  BY BrightestIs DEF LightTypes
    <3>2. LastWord(level)  BY <2>1, <2>5
    <3>3. Max({glow'[c] : c \in Card}) = level  BY <2>1
    <3> QED  BY <1>6, <3>1, <3>2, <3>3, TickKeeps
  <2> QED  BY <2>2, <2>3, <2>4, <2>5
<1>7. CASE UNCHANGED spotlightVars
  <2>1. UNCHANGED <<spots, handling, effects, tweens, opacity, glow, inside, apart>>
    BY <1>7 DEF spotlightVars
  <2>2. LightTypes' /\ OneSpotlight'  BY <2>1 DEF LightTypes, OneSpotlight
  <2>3. ~inside' => glow' = Dark /\ LastWord(0)'  BY <2>1 DEF LastWord, Still, Dark
  <2>4. ASSUME apart' = {} PROVE LastWord(Max({glow[c] : c \in Card}))'
    <3> DEFINE level == Max({glow[c] : c \in Card})
    <3>1. LastWord(level)  BY <2>1, <2>4
    <3>2. Max({glow'[c] : c \in Card}) = level  BY <2>1
    <3> HIDE DEF level
    <3> QED  BY <2>1, <3>1, <3>2 DEF LastWord, Still
  <2> QED  BY <2>2, <2>3, <2>4 DEF Dark
<1> QED  BY <1>1, <1>2, <1>3, <1>4, <1>5, <1>6, <1>7 DEF SpotlightNext

\* Out of the section it goes dark; and unless a shorter tween came after a longer one it
\* is as bright as the brightest card when it comes to rest.
THEOREM LightTells == SpotlightSpec => []LightFollows
<1>1. LightInv => LightFollows
  BY DEF LightInv, LightFollows, DarkOutside, GlowTogether, LastWord
<1> QED  BY <1>1, LightInitInv, LightStepInv, PTL DEF SpotlightSpec

-----------------------------------------------------------------------------
(***************************************************************************)
(* The hashed address, for any number of networks.                         *)
(***************************************************************************)

\* The answers on their way are of this network, the lookup is outdone only once it is
\* over, and the address is exact whether or not the lookup is over.
AddressInv ==
  /\ network \in Nat /\ answers \in Seq(Nat)
  /\ \A i \in 1..Len(answers) : answers[i] = network
  /\ outdone => lookup.step = "over"
  /\ online /\ replays /\ answers = <<>> => ip = network \/ outdone

\* One more answer, of this network.
LEMMA OneMoreAnswer ==
  ASSUME AddressInv
  PROVE  LET more == Append(answers, network) IN
         more \in Seq(Nat) /\ more # <<>> /\ \A i \in 1..Len(more) : more[i] = network
<1>1. Len(Append(answers, network)) = Len(answers) + 1 /\ Len(answers) \in Nat
      /\ Append(answers, network) \in Seq(Nat) /\ Append(answers, network) # <<>>
  BY AppendProperties, LenProperties DEF AddressInv
<1>2. \A i \in 1..(Len(answers) + 1) : Append(answers, network)[i] = network
  BY <1>1, AppendProperties DEF AddressInv
<1> QED  BY <1>1, <1>2

\* One answer less.
LEMMA OneAnswerLess ==
  ASSUME AddressInv, answers # <<>>
  PROVE  /\ Head(answers) = network /\ Tail(answers) \in Seq(Nat)
         /\ \A i \in 1..Len(Tail(answers)) : Tail(answers)[i] = network
<1>1. Len(answers) \in Nat \ {0}  BY EmptySeq, LenProperties DEF AddressInv
<1>2. Head(answers) = network  BY <1>1, HeadTailProperties DEF AddressInv
<1>3. /\ Tail(answers) \in Seq(Nat) /\ Len(Tail(answers)) = Len(answers) - 1
      /\ \A i \in 1..Len(Tail(answers)) : Tail(answers)[i] = answers[i + 1]
  BY <1>1, HeadTailProperties DEF AddressInv
<1>4. \A i \in 1..Len(Tail(answers)) : i + 1 \in 1..Len(answers)  BY <1>1, <1>3
<1> QED  BY <1>2, <1>3, <1>4 DEF AddressInv

LEMMA AddressStep == AddressInv /\ [AddressNext]_addressVars => AddressInv'
<1> SUFFICES ASSUME AddressInv, [AddressNext]_addressVars  PROVE AddressInv'
  OBVIOUS
<1>1. CASE LookUp
  BY <1>1 DEF LookUp, AddressInv
<1>2. CASE getClientIp
  BY <1>2 DEF getClientIp, AddressInv
<1>3. CASE LookUpEnds
  <2>1. ~outdone /\ lookup'.step = "over"  BY <1>3 DEF LookUpEnds, AddressInv
  <2> QED  BY <1>3, <2>1 DEF LookUpEnds, AddressInv
<1>4. CASE SocketOpens
  BY <1>4, OneMoreAnswer DEF SocketOpens, AddressInv
<1>5. CASE JoinsRoom
  BY <1>5, OneMoreAnswer DEF JoinsRoom, AddressInv
<1>6. CASE ToldIp
  BY <1>6, OneAnswerLess DEF ToldIp, AddressInv
<1>7. CASE NetworkChanges
  BY <1>7, EmptySeq DEF NetworkChanges, AddressInv
<1>8. CASE UNCHANGED addressVars
  BY <1>8 DEF addressVars, AddressInv
<1> QED
  BY <1>1, <1>2, <1>3, <1>4, <1>5, <1>6, <1>7, <1>8 DEF AddressNext

\* With a room joined and nothing on its way, the page shows the address of its network,
\* unless the one lookup ended late and put an older address or "unknown" in its place.
THEOREM AddressStays == AddressSpec => []AddressExact
<1>1. AddressInit => AddressInv
  BY EmptySeq DEF AddressInit, AddressInv
<1>2. AddressInv => AddressExact
  BY DEF AddressInv, AddressExact
<1> QED  BY <1>1, <1>2, AddressStep, PTL DEF AddressSpec

-----------------------------------------------------------------------------
(***************************************************************************)
(* The progress toast of a file that is sent, for every set of targets and *)
(* every number of chunks. A target reports more chunks each time, and the *)
(* toast that stands shows no more than any target has reported.           *)
(***************************************************************************)

UploadInv ==
  /\ chunks \in [Target -> Nat]
  /\ DOMAIN peerProgress \subseteq Target
  /\ \A t \in DOMAIN peerProgress : peerProgress[t] \in Nat /\ peerProgress[t] <= chunks[t]
  /\ toast \in [state : {"none", "shown", "closing", "failed", "gone"}, progress : Nat]
  /\ toast.state = "none" => toast.progress = 0
  /\ toast.state = "shown" => \A t \in DOMAIN peerProgress : toast.progress <= peerProgress[t]

LEMMA MinIs ==
  ASSUME NEW S \in SUBSET Nat, S # {}
  PROVE  Min(S) \in S /\ \A x \in S : Min(S) <= x
<1>1. \E x \in S : \A y \in S : x <= y  BY LeastNatural
<1> QED  BY <1>1 DEF Min

\* What a report makes of the reports and of the toast.
LEMMA ReportIs ==
  ASSUME UploadInv, NEW t \in Target, Reported(t, chunks[t] + 1)
  PROVE  /\ DOMAIN peerProgress' = DOMAIN peerProgress \cup {t}
         /\ \A s \in DOMAIN peerProgress' :
              /\ peerProgress'[s] = IF s = t THEN chunks[t] + 1 ELSE peerProgress[s]
              /\ peerProgress'[s] \in Nat
         /\ \A s \in DOMAIN peerProgress : peerProgress[s] <= peerProgress'[s]
         /\ toast.state = "shown" =>
              /\ toast' = [toast EXCEPT !.progress = toast'.progress]
              /\ toast'.progress \in Nat /\ \E s \in DOMAIN peerProgress' : toast'.progress = peerProgress'[s]
              /\ \A s \in DOMAIN peerProgress' : toast'.progress <= peerProgress'[s]
         /\ toast.state # "shown" => toast' = toast
<1>1. /\ DOMAIN peerProgress' = DOMAIN peerProgress \cup {t}
      /\ \A s \in DOMAIN peerProgress' :
           peerProgress'[s] = IF s = t THEN chunks[t] + 1 ELSE peerProgress[s]
  BY DEF Reported
<1>2. /\ chunks[t] \in Nat
      /\ \A s \in DOMAIN peerProgress : peerProgress[s] \in Nat /\ peerProgress[s] <= chunks[s]
      /\ toast \in [state : {"none", "shown", "closing", "failed", "gone"}, progress : Nat]
  BY DEF UploadInv
<1>3. \A s \in DOMAIN peerProgress' : peerProgress'[s] \in Nat
  BY <1>1, <1>2
<1>4. ASSUME NEW s \in DOMAIN peerProgress  PROVE peerProgress[s] <= peerProgress'[s]
  <2>1. peerProgress[s] \in Nat /\ peerProgress[s] <= chunks[s]  BY <1>2
  <2>2. peerProgress'[s] = IF s = t THEN chunks[t] + 1 ELSE peerProgress[s]  BY <1>1
  <2> QED  BY <1>2, <2>1, <2>2
<1> DEFINE least == Min(Range(peerProgress'))
<1>5. least \in Range(peerProgress') /\ \A x \in Range(peerProgress') : least <= x
  <2>1. Range(peerProgress') \in SUBSET Nat  BY <1>3 DEF Range
  <2>2. peerProgress'[t] \in Range(peerProgress')  BY <1>1 DEF Range
  <2> QED  BY <2>1, <2>2, MinIs
<1>6. toast' = IF toast.state = "shown" THEN [toast EXCEPT !.progress = least] ELSE toast
  BY DEF Reported, updateToast
<1> HIDE DEF least
<1>7. ASSUME toast.state = "shown"
      PROVE  /\ toast' = [toast EXCEPT !.progress = toast'.progress] /\ toast'.progress = least
  BY <1>2, <1>6, <1>7
<1>8. least \in Nat /\ (\E s \in DOMAIN peerProgress' : least = peerProgress'[s])
      /\ \A s \in DOMAIN peerProgress' : least <= peerProgress'[s]
  BY <1>3, <1>5 DEF Range
<1> QED  BY <1>1, <1>3, <1>4, <1>6, <1>7, <1>8

LEMMA UploadInitInv == UploadInit => UploadInv
BY DEF UploadInit, UploadInv

LEMMA UploadStepInv == UploadInv /\ [UploadNext]_uploadVars => UploadInv'
<1> SUFFICES ASSUME UploadInv, [UploadNext]_uploadVars PROVE UploadInv'  OBVIOUS
<1>t. /\ chunks \in [Target -> Nat] /\ DOMAIN peerProgress \subseteq Target
      /\ \A t \in DOMAIN peerProgress : peerProgress[t] \in Nat /\ peerProgress[t] <= chunks[t]
      /\ toast \in [state : {"none", "shown", "closing", "failed", "gone"}, progress : Nat]
  BY DEF UploadInv
<1>1. ASSUME chunks' = chunks, peerProgress' = peerProgress,
             toast' \in [state : {"closing", "failed", "gone"}, progress : Nat]
      PROVE  UploadInv'
  BY <1>1, <1>t DEF UploadInv
<1>2. ASSUME chunks' = chunks, peerProgress' = peerProgress, toast' = toast
      PROVE  UploadInv'
  BY <1>2 DEF UploadInv
<1>3. ASSUME NEW to \in SUBSET Target, Begin(to)  PROVE UploadInv'
  BY <1>3, <1>t DEF Begin, sendingFile, UploadInv
<1>4. ASSUME NEW t \in Target, SendsChunk(t)  PROVE UploadInv'
  <2>1. chunks' = [chunks EXCEPT ![t] = @ + 1]  BY <1>4 DEF SendsChunk
  <2>2. chunks' \in [Target -> Nat] /\ chunks'[t] = chunks[t] + 1
        /\ \A s \in Target : chunks[s] <= chunks'[s]
    BY <1>t, <2>1
  <2>3. CASE UNCHANGED <<peerProgress, toast>>
    <3>1. ASSUME NEW s \in DOMAIN peerProgress  PROVE peerProgress[s] <= chunks'[s]
      <4>1. peerProgress[s] \in Nat /\ chunks[s] \in Nat /\ chunks'[s] \in Nat
            /\ peerProgress[s] <= chunks[s] /\ chunks[s] <= chunks'[s]
        BY <1>t, <2>2
      <4> QED  BY <4>1
    <3> QED  BY <2>2, <2>3, <3>1 DEF UploadInv
  <2>4. CASE Reported(t, chunks'[t])
    <3>1. Reported(t, chunks[t] + 1)  BY <2>2, <2>4
    <3>2. /\ DOMAIN peerProgress' = DOMAIN peerProgress \cup {t}
          /\ \A s \in DOMAIN peerProgress' :
               /\ peerProgress'[s] = IF s = t THEN chunks[t] + 1 ELSE peerProgress[s]
               /\ peerProgress'[s] \in Nat
          /\ toast.state = "shown" =>
               /\ toast' = [toast EXCEPT !.progress = toast'.progress]
               /\ toast'.progress \in Nat
               /\ \A s \in DOMAIN peerProgress' : toast'.progress <= peerProgress'[s]
          /\ toast.state # "shown" => toast' = toast
      BY <3>1, ReportIs
    <3>3. ASSUME NEW s \in DOMAIN peerProgress'  PROVE peerProgress'[s] <= chunks'[s]
      <4>1. CASE s = t  BY <1>t, <2>2, <3>2, <4>1
      <4>2. CASE s # t
        <5>1. s \in DOMAIN peerProgress /\ s \in Target  BY <1>t, <3>2, <4>2
        <5>2. peerProgress'[s] = peerProgress[s] /\ chunks'[s] = chunks[s]
          BY <1>t, <2>1, <3>2, <4>2, <5>1
        <5> QED  BY <1>t, <5>1, <5>2
      <4> QED  BY <4>1, <4>2
    <3>4. /\ toast' \in [state : {"none", "shown", "closing", "failed", "gone"}, progress : Nat]
          /\ toast'.state = toast.state
      <4>1. CASE toast.state = "shown"
        <5> DEFINE n == toast'.progress
        <5>1. toast' = [toast EXCEPT !.progress = n] /\ n \in Nat  BY <3>2, <4>1
        <5> HIDE DEF n
        <5> QED  BY <1>t, <5>1
      <4> QED  BY <1>t, <3>2, <4>1
    <3>5. DOMAIN peerProgress' \subseteq Target  BY <1>t, <3>2
    <3>6. toast'.state = "none" => toast'.progress = 0  BY <3>2, <3>4 DEF UploadInv
    <3> QED  BY <2>2, <3>2, <3>3, <3>4, <3>5, <3>6 DEF UploadInv
  <2> QED  BY <1>4, <2>3, <2>4 DEF SendsChunk
<1>5. ASSUME NEW t \in Target, StartAcked(t) \/ Breaks(t) \/ Cancels(t)  PROVE UploadInv'
  BY <1>2, <1>5 DEF StartAcked, Breaks, Cancels
<1>6. CASE CallReturns \/ ToastGoes \/ Closed
  <2>1. toast' \in [state : {"closing", "failed", "gone"}, progress : Nat]
    BY <1>6, <1>t DEF CallReturns, ToastGoes, Closed
  <2> QED  BY <1>1, <1>6, <2>1 DEF CallReturns, ToastGoes, Closed
<1> QED  BY <1>2, <1>3, <1>4, <1>5, <1>6 DEF UploadNext, uploadVars

\* The toast goes back only when a target reports for the first time, or when everything
\* failed: it shows the least of the reports, and a target's next report is larger.
THEOREM BarAdvances == UploadSpec => GoesBackForNew
<1> DEFINE Back == toast'.progress < toast.progress =>
                     toast'.state = "failed" \/ DOMAIN peerProgress' # DOMAIN peerProgress
<1>1. UploadInv /\ [UploadNext]_uploadVars => [Back]_uploadVars
  <2> SUFFICES ASSUME UploadInv, UploadNext, toast'.progress < toast.progress,
                      toast'.state # "failed", DOMAIN peerProgress' = DOMAIN peerProgress
               PROVE  FALSE
    OBVIOUS
  <2>t. /\ toast \in [state : {"none", "shown", "closing", "failed", "gone"}, progress : Nat]
        /\ \A t \in DOMAIN peerProgress : peerProgress[t] \in Nat
    BY DEF UploadInv
  <2>1. toast'.progress # toast.progress  BY <2>t
  <2>2. \A to \in SUBSET Target : ~Begin(to)
    BY <2>1 DEF Begin, sendingFile, UploadInv
  <2>3. ~CallReturns /\ ~ToastGoes /\ ~Closed
    BY <2>1, <2>t DEF CallReturns, ToastGoes, Closed
  <2>4. \A t \in Target : ~StartAcked(t) /\ ~Breaks(t) /\ ~Cancels(t)
    BY <2>1 DEF StartAcked, Breaks, Cancels
  <2>5. ASSUME NEW t \in Target, SendsChunk(t)  PROVE FALSE
    <3>1. Reported(t, chunks[t] + 1)
      <4>1. chunks'[t] = chunks[t] + 1  BY <2>5 DEF SendsChunk, UploadInv
      <4> QED  BY <2>1, <2>5, <4>1 DEF SendsChunk
    <3>2. toast.state = "shown"  BY <2>1, <3>1, ReportIs
    <3>3. PICK s \in DOMAIN peerProgress : toast'.progress = peerProgress'[s]
      BY <3>1, <3>2, ReportIs
    <3>4. /\ toast.progress <= peerProgress[s] /\ peerProgress[s] <= peerProgress'[s]
          /\ peerProgress'[s] \in Nat /\ peerProgress[s] \in Nat /\ toast.progress \in Nat
      BY <2>t, <3>1, <3>2, ReportIs DEF UploadInv
    <3> QED  BY <3>3, <3>4
  <2> QED  BY <2>2, <2>3, <2>4, <2>5 DEF UploadNext
<1> QED  BY <1>1, UploadInitInv, UploadStepInv, PTL DEF UploadSpec, GoesBackForNew
-----------------------------------------------------------------------------
(***************************************************************************)
(* The conversions, for every length of a code and of a text and for all   *)
(* sizes. An upper-cased text is a flattened sequence, which is a          *)
(* recursive function: FlattenIs says what is in it, by the least length   *)
(* for which it would fail. A valid code has none of the characters that   *)
(* an upper case or a trim changes. A shown size is rounded to a step of   *)
(* hundredths that depends on it; more is never shown as less because a    *)
(* whole 10, 100 or 1000 is a multiple of every step (StepUp).             *)
(***************************************************************************)
-----------------------------------------------------------------------------
(* Room codes *)

LEMMA TextIs == ASSUME NEW C, NEW t \in Texts(C) PROVE t \in Seq(C) /\ Len(t) <= MaxText
<1>1. PICK n \in 0..MaxText : t \in [1..n -> C]  BY DEF Texts
<1>2. MaxText \in Nat  BY LabelAssumption DEF LabelAssumption
<1>3. n \in Nat /\ n <= MaxText  BY <1>2
<1> QED  BY <1>1, <1>3

\* A flattened sequence has the elements of its parts; and one of parts with a single
\* element has these. The set of lengths for which it fails would have a least one.
LEMMA FlattenIs ==
  ASSUME NEW S, NEW ss \in Seq(Seq(S)), ss # <<>>
  PROVE  LET z == FlattenSeq(ss) IN
         /\ z \in Seq(S)
         /\ \A x : x \in ToSet(z) <=> \E j \in 1..Len(ss) : x \in ToSet(ss[j])
         /\ (\A j \in 1..Len(ss) : Len(ss[j]) = 1) =>
              Len(z) = Len(ss) /\ \A j \in 1..Len(ss) : z[j] = ss[j][1]
<1> DEFINE L == Len(ss)
           Good(z, i) ==
             /\ z \in Seq(S)
             /\ \A x : x \in ToSet(z) <=> \E j \in 1..i : x \in ToSet(ss[j])
             /\ (\A j \in 1..L : Len(ss[j]) = 1) => Len(z) = i /\ \A j \in 1..i : z[j] = ss[j][1]
           upto(n, g) == /\ g = [i \in 1..n |-> IF i = 1 THEN ss[i] ELSE g[i - 1] \o ss[i]]
                         /\ \A i \in 1..n : Good(g[i], i)
           bad == {n \in 1..L : ~\E g : upto(n, g)}
<1>1. L \in Nat \ {0} /\ \A i \in 1..L : ss[i] \in Seq(S)
  BY LenProperties, ElementOfSeq, EmptySeq
<1> HIDE DEF L
<1>2. Good(ss[1], 1)
  <2>1. ss[1] \in Seq(S)  BY <1>1
  <2>2. 1..1 = {1}  OBVIOUS
  <2>3. (\A j \in 1..L : Len(ss[j]) = 1) => Len(ss[1]) = 1  BY <1>1
  <2> QED  BY <2>1, <2>2, <2>3
<1>3. ASSUME NEW z, NEW i \in 2..L, Good(z, i - 1) PROVE Good(z \o ss[i], i)
  <2> DEFINE y == ss[i]
  <2>1. z \in Seq(S) /\ y \in Seq(S)  BY <1>1, <1>3
  <2>2. /\ z \o y \in Seq(S) /\ Len(z \o y) = Len(z) + Len(y)
        /\ Len(z) \in Nat /\ Len(y) \in Nat /\ i \in Nat /\ i >= 2
        /\ \A k \in 1..Len(z) + Len(y) : (z \o y)[k] = IF k <= Len(z) THEN z[k] ELSE y[k - Len(z)]
    BY <1>1, <2>1, ConcatProperties, LenProperties
  <2>3. ASSUME NEW x PROVE x \in ToSet(z \o y) <=> x \in ToSet(z) \/ x \in ToSet(y)
    <3>1. \A s \in Seq(S) : x \in ToSet(s) <=> \E k \in 1..Len(s) : s[k] = x
      BY LenProperties DEF ToSet
    <3>2. ASSUME x \in ToSet(z \o y) PROVE x \in ToSet(z) \/ x \in ToSet(y)
      <4>1. PICK k \in 1..Len(z) + Len(y) : (z \o y)[k] = x  BY <2>2, <3>1, <3>2
      <4>2. CASE k <= Len(z)
        <5>1. k \in 1..Len(z) /\ z[k] = x  BY <2>2, <4>1, <4>2
        <5> QED  BY <2>1, <3>1, <5>1
      <4>3. CASE ~(k <= Len(z))
        <5>1. k - Len(z) \in 1..Len(y) /\ y[k - Len(z)] = x  BY <2>2, <4>1, <4>3
        <5> QED  BY <2>1, <3>1, <5>1
      <4> QED  BY <4>2, <4>3
    <3>3. ASSUME x \in ToSet(z) PROVE x \in ToSet(z \o y)
      <4>1. PICK k \in 1..Len(z) : z[k] = x  BY <2>1, <3>1, <3>3
      <4>2. k \in 1..Len(z) + Len(y) /\ (z \o y)[k] = x  BY <2>2, <4>1
      <4> QED  BY <2>2, <3>1, <4>2
    <3>4. ASSUME x \in ToSet(y) PROVE x \in ToSet(z \o y)
      <4>1. PICK k \in 1..Len(y) : y[k] = x  BY <2>1, <3>1, <3>4
      <4>2. /\ k + Len(z) \in 1..Len(z) + Len(y) /\ ~(k + Len(z) <= Len(z))
            /\ k + Len(z) - Len(z) = k
        BY <2>2, <4>1
      <4>3. (z \o y)[k + Len(z)] = x  BY <2>2, <4>1, <4>2
      <4> QED  BY <2>2, <3>1, <4>2, <4>3
    <3> QED  BY <3>2, <3>3, <3>4
  <2>4. \A j : j \in 1..i <=> j \in 1..i - 1 \/ j = i  BY <2>2
  <2>5. \A x : x \in ToSet(z \o y) <=> \E j \in 1..i : x \in ToSet(ss[j])
    BY <1>3, <2>3, <2>4
  <2>6. ASSUME \A j \in 1..L : Len(ss[j]) = 1
        PROVE  Len(z \o y) = i /\ \A j \in 1..i : (z \o y)[j] = ss[j][1]
    <3>1. Len(z) = i - 1 /\ \A j \in 1..i - 1 : z[j] = ss[j][1]  BY <1>3, <2>6
    <3>2. Len(y) = 1  BY <1>1, <2>2, <2>6
    <3>3. Len(z) + Len(y) = i  BY <2>2, <3>1, <3>2
    <3>4. ASSUME NEW j \in 1..i PROVE (z \o y)[j] = ss[j][1]
      <4>1. (z \o y)[j] = IF j <= Len(z) THEN z[j] ELSE y[j - Len(z)]  BY <2>2, <3>3
      <4>2. CASE j <= Len(z)
        <5>1. j \in 1..i - 1  BY <2>2, <3>1, <4>2
        <5> QED  BY <3>1, <4>1, <4>2, <5>1
      <4>3. CASE ~(j <= Len(z))
        <5>1. j = i /\ j - Len(z) = 1  BY <2>2, <3>1, <4>3
        <5> QED  BY <4>1, <4>3, <5>1
      <4> QED  BY <4>2, <4>3
    <3> QED  BY <2>2, <3>3, <3>4
  <2> QED  BY <2>2, <2>5, <2>6
<1> HIDE DEF Good
<1>4. bad = {}
  <2> SUFFICES ASSUME bad # {} PROVE FALSE  OBVIOUS
  <2>1. PICK n \in bad : \A m \in bad : n <= m
    <3>1. 1..L \subseteq Nat  BY <1>1
    <3>2. bad \in SUBSET Nat  BY <3>1
    <3> HIDE DEF bad
    <3> QED  BY <3>2, LeastNatural
  <2>2. CASE n = 1
    <3> DEFINE h == [i \in 1..1 |-> ss[1]]
    <3>1. h = [i \in 1..1 |-> IF i = 1 THEN ss[i] ELSE h[i - 1] \o ss[i]]
      <4>1. \A i \in 1..1 : i = 1  OBVIOUS
      <4> QED  BY <4>1
    <3>2. \A i \in 1..1 : i = 1 /\ h[i] = ss[1]  OBVIOUS
    <3>3. upto(1, h)  BY <1>2, <3>1, <3>2
    <3> QED  BY <2>1, <2>2, <3>3
  <2>3. CASE n # 1
    <3>1. n \in 2..L /\ n - 1 \in 1..L /\ n - 1 \notin bad
      <4>1. n \in 1..L  OBVIOUS
      <4>2. n - 1 \in 1..L /\ ~(n <= n - 1)  BY <1>1, <2>3, <4>1
      <4> HIDE DEF bad
      <4> QED  BY <1>1, <2>1, <2>3, <4>1, <4>2
    <3>2. PICK g : upto(n - 1, g)  BY <3>1
    <3> DEFINE last == g[n - 1] \o ss[n]
               h == [i \in 1..n |-> IF i = n THEN last ELSE g[i]]
    <3>3. Good(g[n - 1], n - 1)
      <4>1. n - 1 \in 1..n - 1  BY <1>1, <3>1
      <4> QED  BY <3>2, <4>1
    <3>4. Good(last, n)  BY <1>3, <3>1, <3>3
    <3> HIDE DEF last
    <3>5. \A i \in 1..n : Good(h[i], i)
      <4>1. \A i \in 1..n : i # n => i \in 1..n - 1  BY <3>1
      <4> QED  BY <3>2, <3>4, <4>1
    <3>6. ASSUME NEW i \in 1..n PROVE h[i] = IF i = 1 THEN ss[i] ELSE h[i - 1] \o ss[i]
      <4>1. CASE i = n
        <5>1. n - 1 \in 1..n /\ n - 1 # n  BY <3>1
        <5>2. h[n - 1] = g[n - 1] /\ h[n] = last  BY <5>1, <3>1
        <5> QED  BY <2>3, <4>1, <5>2 DEF last
      <4>2. CASE i # n
        <5>1. i \in 1..n - 1  BY <3>1, <4>2
        <5>2. g[i] = IF i = 1 THEN ss[i] ELSE g[i - 1] \o ss[i]  BY <3>2, <5>1
        <5>3. i # 1 => h[i - 1] = g[i - 1]
          <6>1. i # 1 => i - 1 \in 1..n /\ i - 1 # n  BY <3>1, <5>1
          <6> QED  BY <6>1
        <5> QED  BY <4>2, <5>2, <5>3
      <4> QED  BY <4>1, <4>2
    <3>7. h = [i \in 1..n |-> IF i = 1 THEN ss[i] ELSE h[i - 1] \o ss[i]]
      <4> DEFINE f == [i \in 1..n |-> IF i = 1 THEN ss[i] ELSE h[i - 1] \o ss[i]]
      <4>1. \A i \in 1..n : h[i] = f[i]
        <5> HIDE DEF h
        <5> QED  BY <3>6
      <4>2. h = [i \in 1..n |-> h[i]] /\ f = [i \in 1..n |-> f[i]]  OBVIOUS
      <4> HIDE DEF h, f
      <4>3. h = f  BY <4>1, <4>2
      <4> QED  BY <4>3 DEF f
    <3> HIDE DEF h
    <3>8. upto(n, h)  BY <3>5, <3>7
    <3> QED  BY <2>1, <3>8
  <2> QED  BY <2>2, <2>3
<1>5. PICK g : upto(L, g)
  <2>1. L \in 1..L  BY <1>1
  <2> QED  BY <1>4, <2>1
<1> DEFINE flat == CHOOSE f : f = [i \in 1..Len(ss) |->
                                     IF i = 1 THEN ss[i] ELSE f[i - 1] \o ss[i]]
<1>6. FlattenSeq(ss) = flat[Len(ss)]
  BY <1>1 DEF FlattenSeq, L
<1>7. flat = [i \in 1..L |-> IF i = 1 THEN ss[i] ELSE flat[i - 1] \o ss[i]]
  BY <1>5 DEF L
<1>8. \A i \in 1..L : flat[i] = g[i]
  <2> HIDE DEF flat
  <2> DEFINE odd == {i \in 1..L : flat[i] # g[i]}
  <2> SUFFICES ASSUME odd # {} PROVE FALSE  OBVIOUS
  <2>1. PICK n \in odd : \A m \in odd : n <= m
    <3>1. odd \in SUBSET Nat  BY <1>1
    <3> HIDE DEF odd
    <3> QED  BY <3>1, LeastNatural
  <2>2. n \in 1..L /\ flat[n] # g[n]  OBVIOUS
  <2>3. /\ flat[n] = IF n = 1 THEN ss[n] ELSE flat[n - 1] \o ss[n]
        /\ g[n] = IF n = 1 THEN ss[n] ELSE g[n - 1] \o ss[n]
    BY <1>5, <1>7, <2>2
  <2>4. n # 1  BY <2>2, <2>3
  <2>5. n - 1 \in 1..L /\ ~(n <= n - 1)  BY <1>1, <2>2, <2>4
  <2>6. flat[n - 1] = g[n - 1]
    <3>1. n - 1 \notin odd
      <4> HIDE DEF odd
      <4> QED  BY <2>1, <2>5
    <3> QED  BY <2>5, <3>1
  <2> QED  BY <2>2, <2>3, <2>4, <2>6
<1> HIDE DEF flat
<1>9. Good(FlattenSeq(ss), L)
  <2>1. L \in 1..L  BY <1>1
  <2>2. flat[L] = g[L] /\ Good(g[L], L)  BY <1>5, <1>8, <2>1
  <2> QED  BY <1>6, <2>2 DEF L
<1> QED  BY <1>9 DEF Good, L

\* The characters of a text, and how many an upper-cased one has.
LEMMA UpperIs ==
  ASSUME NEW text \in Seq(Typed)
  PROVE  LET upper == toUpperCase(text) IN
         /\ upper \in Seq({"A", "S", "2", "O", " "})
         /\ \A x : x \in ToSet(upper) <=> \E i \in 1..Len(text) : x \in ToSet(ToUpper(text[i]))
         /\ text = <<>> => upper = <<>>
         /\ (\A i \in 1..Len(text) : ToUpper(text[i]) = <<text[i]>>) => upper = text
<1> DEFINE C == {"A", "S", "2", "O", " "}
           ss == [i \in DOMAIN text |-> ToUpper(text[i])]
<1>1. Len(text) \in Nat /\ DOMAIN text = 1..Len(text)  BY LenProperties
<1>2. \A i \in 1..Len(text) : text[i] \in Typed  BY ElementOfSeq
<1>3. ASSUME NEW c \in Typed PROVE ToUpper(c) \in Seq(C)
  <2>1. <<"A">> \in Seq(C) /\ <<"S", "S">> \in Seq(C)  OBVIOUS
  <2>2. c \in {"A", "S", "2", "a", "sharp", "O", " "}  BY DEF Typed, RoomCodeChars
  <2>3. CASE c = "a"  BY <2>1, <2>3 DEF ToUpper
  <2>4. CASE c = "sharp"  BY <2>1, <2>4 DEF ToUpper
  <2>5. CASE c # "a" /\ c # "sharp"
    <3>1. ToUpper(c) = <<c>> /\ c \in C  BY <2>2, <2>5 DEF ToUpper
    <3> HIDE DEF C
    <3>2. <<c>> \in Seq(C)  BY <3>1
    <3> QED  BY <3>1, <3>2
  <2> QED  BY <2>3, <2>4, <2>5
<1> HIDE DEF C
<1>4. ss \in Seq(Seq(C)) /\ Len(ss) = Len(text) /\ \A i \in 1..Len(text) : ss[i] = ToUpper(text[i])
  <2>1. \A i \in 1..Len(text) : ToUpper(text[i]) \in Seq(C)  BY <1>2, <1>3
  <2>2. ss = [i \in 1..Len(text) |-> ToUpper(text[i])]  BY <1>1
  <2> QED  BY <1>1, <2>1, <2>2
<1>5. toUpperCase(text) = FlattenSeq(ss)  BY DEF toUpperCase
<1> HIDE DEF ss
<1>6. CASE text = <<>>
  <2>1. Len(ss) = 0  BY <1>4, <1>6
  <2>2. ss = <<>>  BY <1>4, <2>1, EmptySeq
  <2>3. FlattenSeq(ss) = <<>>  BY <2>1, <2>2 DEF FlattenSeq
  <2>4. ToSet(<<>>) = {} /\ <<>> \in Seq(C) /\ Len(text) = 0  BY <1>6 DEF ToSet
  <2> QED  BY <1>5, <1>6, <2>3, <2>4 DEF C
<1>7. CASE text # <<>>
  <2>1. ss # <<>>
    <3>1. Len(text) # 0  BY <1>7, EmptySeq
    <3> QED  BY <1>4, <3>1
  <2>2. /\ FlattenSeq(ss) \in Seq(C)
        /\ \A x : x \in ToSet(FlattenSeq(ss)) <=> \E j \in 1..Len(ss) : x \in ToSet(ss[j])
        /\ (\A j \in 1..Len(ss) : Len(ss[j]) = 1) =>
             /\ Len(FlattenSeq(ss)) = Len(ss)
             /\ \A j \in 1..Len(ss) : FlattenSeq(ss)[j] = ss[j][1]
    BY <1>4, <2>1, FlattenIs
  <2>3. ASSUME \A i \in 1..Len(text) : ToUpper(text[i]) = <<text[i]>>
        PROVE  FlattenSeq(ss) = text
    <3>1. \A j \in 1..Len(ss) : Len(ss[j]) = 1 /\ ss[j][1] = text[j]  BY <1>4, <2>3
    <3>2. /\ Len(FlattenSeq(ss)) = Len(text)
          /\ \A j \in 1..Len(text) : FlattenSeq(ss)[j] = text[j]
      BY <1>4, <2>2, <3>1
    <3> DEFINE flat == FlattenSeq(ss)
    <3>3. flat \in Seq(C)  BY <2>2
    <3> HIDE DEF flat
    <3>4. flat = [i \in 1..Len(flat) |-> flat[i]] /\ text = [i \in 1..Len(text) |-> text[i]]
      BY <3>3
    <3>5. Len(flat) = Len(text) /\ \A j \in 1..Len(text) : flat[j] = text[j]
      BY <3>2 DEF flat
    <3>6. flat = text  BY <3>4, <3>5
    <3> QED  BY <3>6 DEF flat
  <2>4. \A x : x \in ToSet(FlattenSeq(ss)) <=> \E i \in 1..Len(text) : x \in ToSet(ToUpper(text[i]))
    BY <1>4, <2>2
  <2> QED  BY <1>5, <1>7, <2>2, <2>3, <2>4 DEF C
<1> QED  BY <1>6, <1>7

\* A text without a blank is not trimmed, and a trimmed text is a text.
LEMMA TrimIs ==
  ASSUME NEW C, NEW text \in Seq(C)
  PROVE  /\ trim(text) \in Seq(C)
         /\ (\A i \in 1..Len(text) : text[i] # " ") => trim(text) = text
<1> DEFINE inked == {i \in DOMAIN text : text[i] # " "}
           first == CHOOSE i \in inked : \A k \in inked : i <= k
           last == CHOOSE j \in inked : \A k \in inked : k <= j
<1>1. Len(text) \in Nat /\ DOMAIN text = 1..Len(text) /\ \A i \in 1..Len(text) : text[i] \in C
  BY LenProperties, ElementOfSeq
<1>2. text # <<>> => 1 \in 1..Len(text)  BY EmptySeq
<1>3. CASE inked = {}
  <2>1. trim(text) = <<>>  BY <1>3 DEF trim
  <2>2. (\A i \in 1..Len(text) : text[i] # " ") => text = <<>>
    <3> SUFFICES ASSUME \A i \in 1..Len(text) : text[i] # " ", text # <<>> PROVE FALSE
      OBVIOUS
    <3>2. 1 \in 1..Len(text)  BY <1>2
    <3>3. 1 \in inked  BY <1>1, <3>2
    <3> QED  BY <1>3, <3>3
  <2> QED  BY <2>1, <2>2, EmptySeq
<1>4. CASE inked # {}
  <2>1. inked \subseteq 1..Len(text) /\ inked \in SUBSET Nat
    <3>1. inked \subseteq 1..Len(text)  BY <1>1
    <3>2. 1..Len(text) \subseteq Nat  BY <1>1
    <3> QED  BY <3>1, <3>2
  <2>2. trim(text) = SubSeq(text, first, last)  BY <1>4 DEF trim
  <2>3. first \in inked /\ \A k \in inked : first <= k
    <3> HIDE DEF inked
    <3>1. \E x \in inked : \A y \in inked : x <= y  BY <1>4, <2>1, LeastNatural
    <3> QED  BY <3>1
  <2>4. last \in inked /\ \A k \in inked : k <= last
    <3> HIDE DEF inked
    <3> DEFINE K == {Len(text) - i : i \in inked}
    <3>1. K \in SUBSET Nat /\ K # {}
      <4>1. \A i \in inked : Len(text) - i \in Nat
        <5>1. \A i \in 1..Len(text) : Len(text) - i \in Nat  BY <1>1
        <5> QED  BY <2>1, <5>1
      <4> QED  BY <1>4, <4>1
    <3>2. PICK k \in K : \A j \in K : k <= j  BY <3>1, LeastNatural
    <3>3. PICK x \in inked : k = Len(text) - x  OBVIOUS
    <3>4. \A y \in inked : Len(text) - x <= Len(text) - y  BY <3>2, <3>3
    <3>5. \A y \in inked : y <= x  BY <1>1, <2>1, <3>4
    <3> QED  BY <3>5
  <2>5. first \in 1..Len(text) /\ last \in 1..Len(text)  BY <2>1, <2>3, <2>4
  <2>6. ASSUME \A i \in 1..Len(text) : text[i] # " " PROVE first = 1 /\ last = Len(text)
    <3>0. 1 \in 1..Len(text) /\ Len(text) \in 1..Len(text)
      <4> HIDE DEF first, last
      <4> QED  BY <1>1, <2>5
    <3>1. 1 \in inked /\ Len(text) \in inked  BY <1>1, <2>6, <3>0
    <3>2. first <= 1 /\ Len(text) <= last
      <4> HIDE DEF inked, first, last
      <4> QED  BY <2>3, <2>4, <3>1
    <3> DEFINE n == Len(text)
    <3>3. n \in Nat /\ first \in 1..n /\ last \in 1..n /\ first <= 1 /\ n <= last
      BY <1>1, <2>5, <3>2
    <3> HIDE DEF first, last, n
    <3>4. first = 1 /\ last = n  BY <3>3
    <3> QED  BY <3>4 DEF n
  <2> HIDE DEF first, last
  <2>7. SubSeq(text, first, last) \in Seq(C)
    <3>1. \A i \in first..last : text[i] \in C  BY <1>1, <2>5
    <3> QED  BY <2>5, <3>1, SubSeqProperties
  <2>8. SubSeq(text, 1, Len(text)) = text  BY <1>1
  <2> QED  BY <2>2, <2>6, <2>7, <2>8
<1> QED  BY <1>3, <1>4

LEMMA CodesHold == LabelsInit => CodesMeet
<1> SUFFICES ASSUME LabelsInit, sample.kind = "code", Entered(sample.text) # NoCode
             PROVE  LET entered == Entered(sample.text) IN
                    /\ Len(entered) = CodeLength /\ ToSet(entered) \subseteq RoomCodeChars
                    /\ AnsweredCode(entered) = entered
                    /\ getRoomId(sample.text, "h1") = getRoomId(entered, "h2")
  BY DEF CodesMeet
<1> DEFINE text == sample.text
           inner == trim(text)
           entered == toUpperCase(inner)
<1>1. text \in Seq(Typed)
  <2>1. text \in Texts(Typed)  BY DEF LabelsInit
  <2> QED  BY <2>1, TextIs
<1>2. Entered(text) = entered /\ validateRoomCode(entered) /\ entered # <<>>  BY DEF Entered, NoCode
<1> HIDE DEF text
<1>3. inner \in Seq(Typed)  BY <1>1, TrimIs
<1> HIDE DEF inner
<1>4. entered \in Seq({"A", "S", "2", "O", " "}) /\ inner # <<>>  BY <1>2, <1>3, UpperIs
<1> HIDE DEF entered
<1>5. entered \in Seq(Typed)
  <2>1. {"A", "S", "2", "O", " "} \subseteq Typed  BY DEF Typed, RoomCodeChars
  <2> QED  BY <1>4, <2>1, SeqMonotonic
<1>6. /\ Len(entered) = CodeLength
      /\ \A c : c \in ToSet(toUpperCase(entered)) => c \in RoomCodeChars
  BY <1>2 DEF validateRoomCode
<1>7. ASSUME NEW i \in 1..Len(entered)
      PROVE  ToUpper(entered[i]) = <<entered[i]>> /\ entered[i] \in RoomCodeChars /\ entered[i] # " "
  <2>1. entered[i] \in {"A", "S", "2", "O", " "}  BY <1>4, ElementOfSeq
  <2>2. ToUpper(entered[i]) = <<entered[i]>>  BY <2>1 DEF ToUpper
  <2>3. entered[i] \in ToSet(ToUpper(entered[i]))
    <3>1. \A x : x \in ToSet(<<x>>)  BY DEF ToSet
    <3> QED  BY <2>2, <3>1
  <2>4. entered[i] \in ToSet(toUpperCase(entered))  BY <1>5, <2>3, UpperIs
  <2>5. entered[i] \in RoomCodeChars  BY <1>6, <2>4
  <2> QED  BY <2>2, <2>5 DEF RoomCodeChars
<1>8. trim(entered) = entered  BY <1>5, <1>7, TrimIs
<1>9. toUpperCase(entered) = entered  BY <1>5, <1>7, UpperIs
<1>10. ToSet(entered) \subseteq RoomCodeChars
  <2>1. DOMAIN entered = 1..Len(entered)  BY <1>5, LenProperties
  <2> QED  BY <1>7, <2>1 DEF ToSet
<1>11. AnsweredCode(entered) = entered  BY <1>8, <1>9 DEF AnsweredCode
<1>12. getRoomId(text, "h1") = <<"room", entered>>
  BY <1>4 DEF getRoomId, inner, entered
<1>13. getRoomId(entered, "h2") = <<"room", entered>>  BY <1>2, <1>8, <1>9 DEF getRoomId
<1> QED  BY <1>2, <1>6, <1>10, <1>11, <1>12, <1>13 DEF text

-----------------------------------------------------------------------------
(* Addresses *)

LEMMA HomesHold == LabelsInit => HomesMeet
<1> SUFFICES ASSUME LabelsInit, sample.kind = "request" PROVE HomesMeet  BY DEF HomesMeet
<1>1. sample.request \in HttpRequest  BY DEF LabelsInit
<1>2. \A addr : getRoomId(NoCode, addr) = <<"home", addr>>
  <2>1. trim(NoCode) = <<>>  BY DEF trim, NoCode
  <2> QED  BY <2>1 DEF getRoomId
<1>3. ASSUME NEW r \in HttpRequest
      PROVE  extractIp(r) = IF r.mapped /\ r.hops > 0 THEN <<"::ffff:", r.host>> ELSE <<r.host>>
  <2>1. r.mapped \in BOOLEAN /\ r.host \in {"h1", "h2"} /\ r.hops \in 0..2  BY DEF HttpRequest
  <2>2. r.hops > 0 => Forwarded(r)[1] = Written(r)  BY <2>1 DEF Forwarded
  <2>3. Written(r)[1] = "::ffff:" <=> r.mapped  BY <2>1 DEF Written
  <2>4. r.mapped => Tail(Written(r)) = <<r.host>>
    <3> DEFINE w == <<"::ffff:", r.host>>
    <3>1. w \in Seq({"::ffff:", "h1", "h2"})  BY <2>1
    <3>2. Tail(w) = <<r.host>>  OBVIOUS
    <3> QED  BY <3>2 DEF Written
  <2> QED  BY <2>1, <2>2, <2>3, <2>4 DEF extractIp, Written
<1>4. \A r \in HttpRequest : r.host \in {"h1", "h2"} /\ r.mapped \in BOOLEAN  BY DEF HttpRequest
<1>5. ASSUME NEW x, NEW y
      PROVE  /\ <<x>> = <<y>> <=> x = y
             /\ <<"::ffff:", x>> = <<"::ffff:", y>> <=> x = y
             /\ <<x>> # <<"::ffff:", y>>
  OBVIOUS
<1>6. ASSUME NEW q \in HttpRequest, NEW r \in HttpRequest
      PROVE  getRoomId(NoCode, extractIp(q)) = getRoomId(NoCode, extractIp(r))
               <=> /\ q.host = r.host
                   /\ (q.mapped /\ q.hops > 0) = (r.mapped /\ r.hops > 0)
  <2>1. getRoomId(NoCode, extractIp(q)) = getRoomId(NoCode, extractIp(r))
          <=> extractIp(q) = extractIp(r)
    BY <1>2
  <2> QED  BY <1>3, <1>4, <1>5, <2>1
<1> QED  BY <1>1, <1>6 DEF HomesMeet

-----------------------------------------------------------------------------
(* File names *)

LEMMA LastDotIs ==
  ASSUME NEW C, NEW name \in Seq(C)
  PROVE  LastDot(name) \in 0..Len(name)
<1> DEFINE I == {i \in 1..Len(name) : name[i] = "."}
<1>1. LastDot(name) = IF I # {} THEN Max(I) ELSE 0  BY DEF LastDot, SelectLastInSeq
<1>2. CASE I = {}  BY <1>1, <1>2
<1>3. CASE I # {}
  <2>1. \E x \in I : \A y \in I : x >= y
    <3> DEFINE K == {Len(name) - i : i \in I}
    <3>1. K \in SUBSET Nat /\ K # {}  BY <1>3
    <3>2. PICK k \in K : \A j \in K : k <= j  BY <3>1, LeastNatural
    <3>3. PICK x \in I : k = Len(name) - x  OBVIOUS
    <3>4. \A y \in I : Len(name) - x <= Len(name) - y  BY <3>2, <3>3
    <3>5. \A y \in I : x >= y  BY <3>4
    <3> QED  BY <3>5
  <2>2. Max(I) \in I  BY <2>1 DEF Max
  <2> QED  BY <1>1, <1>3, <2>2
<1> QED  BY <1>2, <1>3

\* What a text ends with is a suffix of it.
LEMMA EndIsSuffix ==
  ASSUME NEW C, NEW u \in Seq(C), NEW v \in Seq(C)
  PROVE  IsSuffix(v, u \o v)
<1> DEFINE w == u \o v
<1>1. /\ Len(u) \in Nat /\ Len(v) \in Nat /\ Len(w) = Len(u) + Len(v)
      /\ \A i \in 1..Len(w) : w[i] = IF i <= Len(u) THEN u[i] ELSE v[i - Len(u)]
  BY ConcatProperties, LenProperties
<1> HIDE DEF w
<1>2. /\ Len(Reverse(v)) = Len(v) /\ Len(Reverse(w)) = Len(w)
      /\ \A i \in 1..Len(v) : Reverse(v)[i] = v[Len(v) - i + 1]
      /\ \A i \in 1..Len(w) : Reverse(w)[i] = w[Len(w) - i + 1]
  BY <1>1 DEF Reverse
<1>3. ASSUME NEW i \in 1..Len(v) PROVE Reverse(v)[i] = Reverse(w)[i]
  <2>1. i \in 1..Len(w) /\ Len(w) - i + 1 \in 1..Len(w) /\ ~(Len(w) - i + 1 <= Len(u))
    BY <1>1
  <2>2. Len(w) - i + 1 - Len(u) = Len(v) - i + 1  BY <1>1
  <2>3. Reverse(v)[i] = v[Len(v) - i + 1]  BY <1>2
  <2>4. Reverse(w)[i] = w[Len(w) - i + 1]  BY <1>2, <2>1
  <2>5. w[Len(w) - i + 1] = v[Len(w) - i + 1 - Len(u)]  BY <1>1, <2>1
  <2> QED  BY <2>2, <2>3, <2>4, <2>5
<1>4. SubSeq(Reverse(v), 1, Len(v)) = SubSeq(Reverse(w), 1, Len(v))
  <2>1. /\ SubSeq(Reverse(v), 1, Len(v)) = [i \in 1..Len(v) |-> Reverse(v)[i]]
        /\ SubSeq(Reverse(w), 1, Len(v)) = [i \in 1..Len(v) |-> Reverse(w)[i]]
    BY <1>1
  <2> QED  BY <1>3, <2>1
<1> QED  BY <1>1, <1>2, <1>4 DEF IsSuffix, IsPrefix, w

LEMMA NamesHold == LabelsInit => NameFits
<1> SUFFICES ASSUME LabelsInit, sample.kind = "name" PROVE NameFits  BY DEF NameFits
<1> DEFINE C == {"x", ".", "..."}
           name == sample.text
           limit == sample.limit
           ext == Extension(name)
           base == BaseName(name)
           dot == LastDot(name)
<1>1. name \in Texts({"x", "."}) /\ limit \in 1..MaxText  BY DEF LabelsInit
<1>2. name \in Seq({"x", "."}) /\ limit \in Nat \ {0} /\ Len(name) \in Nat
  <2>1. name \in Seq({"x", "."})  BY <1>1, TextIs
  <2>2. MaxText \in Nat  BY LabelAssumption DEF LabelAssumption
  <2>3. limit \in Nat \ {0}  BY <1>1, <2>2
  <2> QED  BY <2>1, <2>3, LenProperties
<1>3. dot \in 0..Len(name)  BY <1>2, LastDotIs
<1> HIDE DEF name, limit, dot
<1>4. name \in Seq(C)  BY <1>2, SeqMonotonic
<1>5. /\ ext \in Seq(C) /\ base \in Seq(C)
      /\ Len(ext) \in Nat /\ Len(base) \in Nat /\ Len(ext) + Len(base) = Len(name)
  <2>1. CASE dot = 0  BY <1>2, <1>4, <2>1 DEF Extension, BaseName, dot
  <2>2. CASE dot # 0
    <3>1. ext = SubSeq(name, dot, Len(name)) /\ base = SubSeq(name, 1, dot - 1)
      BY <2>2 DEF Extension, BaseName, dot
    <3>2. dot \in 1..Len(name)  BY <1>2, <1>3, <2>2
    <3>3. ext \in Seq(C) /\ Len(ext) = Len(name) - dot + 1
      BY <1>2, <1>4, <3>1, <3>2, SubSeqProperties
    <3>4. base \in Seq(C) /\ Len(base) = dot - 1
      BY <1>2, <1>4, <3>1, <3>2, SubSeqProperties
    <3> QED  BY <1>2, <3>2, <3>3, <3>4
  <2> QED  BY <2>1, <2>2
<1> HIDE DEF ext, base, C
<1>6. ASSUME Len(name) > limit, limit - Len(ext) > 0
      PROVE  LET t == Truncated(name, limit - Len(ext)) IN
             Len(t) = limit /\ IsSuffix(ext, t)
  <2> DEFINE n == limit - Len(ext) - 1
             front == SubSeq(base, 1, n)
             dots == <<"...">>
  <2>1. n \in Nat /\ n <= Len(base) /\ n + 1 + Len(ext) = limit  BY <1>2, <1>5, <1>6
  <2> HIDE DEF n
  <2>2. front \in Seq(C) /\ Len(front) = n
    <3>1. \A i \in 1..n : base[i] \in C  BY <1>5, <2>1, ElementOfSeq
    <3> QED  BY <1>5, <2>1, <3>1, SubSeqProperties
  <2> HIDE DEF front
  <2>3. dots \in Seq(C) /\ Len(dots) = 1  BY DEF C
  <2> HIDE DEF dots
  <2>4. front \o dots \in Seq(C) /\ Len(front \o dots) = n + 1
    <3>1. front \o dots \in Seq(C) /\ Len(front \o dots) = Len(front) + Len(dots)
      BY <2>2, <2>3, ConcatProperties
    <3> QED  BY <2>2, <2>3, <3>1
  <2> DEFINE short == front \o dots
  <2> HIDE DEF short
  <2>5. /\ Len(short \o ext) = n + 1 + Len(ext)
        /\ IsSuffix(ext, short \o ext)
    <3>1. short \in Seq(C) /\ Len(short) = n + 1  BY <2>4 DEF short
    <3>2. Len(short \o ext) = Len(short) + Len(ext)  BY <1>5, <3>1, ConcatProperties
    <3>3. IsSuffix(ext, short \o ext)  BY <1>5, <3>1, EndIsSuffix
    <3> QED  BY <3>1, <3>2, <3>3
  <2>6. Truncated(name, limit - Len(ext)) = short \o ext
    BY DEF Truncated, short, front, dots, n, ext, base
  <2> QED  BY <2>1, <2>5, <2>6
<1>7. getTruncatedFileName(name, limit) =
        IF Len(name) <= limit \/ limit - Len(ext) <= 0 THEN name
        ELSE Truncated(name, limit - Len(ext))
  BY DEF getTruncatedFileName, ext
<1>8. CASE Len(name) <= limit \/ limit - Len(ext) <= 0
  <2>1. getTruncatedFileName(name, limit) = name  BY <1>7, <1>8
  <2>2. Len(name) <= limit \/ Len(ext) >= limit  BY <1>2, <1>5, <1>8
  <2> QED  BY <2>1, <2>2 DEF NameFits, name, limit, ext
<1>9. CASE ~(Len(name) <= limit \/ limit - Len(ext) <= 0)
  <2>1. Len(name) > limit /\ limit - Len(ext) > 0  BY <1>2, <1>5, <1>9
  <2>2. /\ Len(getTruncatedFileName(name, limit)) = limit
        /\ IsSuffix(ext, getTruncatedFileName(name, limit))
    BY <1>6, <1>7, <1>9, <2>1
  <2>3. limit <= limit  BY <1>2
  <2> QED  BY <2>1, <2>2, <2>3 DEF NameFits, name, limit, ext
<1> QED  BY <1>8, <1>9

-----------------------------------------------------------------------------
(* Sizes *)

LEMMA QuotientIs ==
  ASSUME NEW x \in Nat, NEW n \in Nat \ {0}
  PROVE  x \div n \in Nat /\ n * (x \div n) <= x /\ x < n * (x \div n) + n
OBVIOUS

LEMMA QuotientGrows ==
  ASSUME NEW x \in Nat, NEW y \in Nat, x <= y, NEW n \in Nat \ {0}
  PROVE  x \div n <= y \div n
<1> DEFINE p == x \div n
           q == y \div n
<1>1. n * p <= x /\ y < n * q + n /\ p \in Nat /\ q \in Nat  BY QuotientIs
<1> HIDE DEF p, q
<1>2. SUFFICES ASSUME q + 1 <= p PROVE FALSE  BY <1>1 DEF p, q
<1>3. n * (q + 1) <= n * p /\ n * (q + 1) = n * q + n  BY <1>1, <1>2
<1> QED  BY <1>1, <1>3

\* A rounded amount is off by half a step at most.
LEMMA RoundedIs ==
  ASSUME NEW a \in Nat, NEW per \in Nat \ {0}, NEW step \in Nat \ {0}
  PROVE  LET v == Rounded(a, per, step) IN
         /\ v \in Nat
         /\ 2 * (v * per - 100 * a) <= step * per /\ 2 * (100 * a - v * per) <= step * per
<1> DEFINE d == step * per
           q == (200 * a + d) \div (2 * d)
<1>1. d \in Nat \ {0}  OBVIOUS
<1>2. 2 * step * per = 2 * d  OBVIOUS
<1>3. Rounded(a, per, step) = q * step  BY <1>2 DEF Rounded
<1>4. q \in Nat /\ 2 * d * q <= 200 * a + d /\ 200 * a + d < 2 * d * q + 2 * d
  <2>1. 200 * a + d \in Nat /\ 2 * d \in Nat \ {0}  BY <1>1
  <2> QED  BY <2>1, QuotientIs
<1> HIDE DEF q
<1>5. q * step \in Nat /\ q * step * per = d * q  BY <1>4
<1>6. 2 * d * q = 2 * (d * q)  BY <1>1, <1>4
<1> DEFINE r == d * q
<1>7. r \in Nat  BY <1>1, <1>4
<1> HIDE DEF d, r
<1>8. 2 * (r - 100 * a) <= d /\ 2 * (100 * a - r) <= d
  BY <1>1, <1>4, <1>6, <1>7 DEF r
<1> QED  BY <1>3, <1>5, <1>8 DEF d, r

LEMMA RoundedGrows ==
  ASSUME NEW a \in Nat, NEW b \in Nat, a <= b, NEW per \in Nat \ {0}, NEW step \in Nat \ {0}
  PROVE  Rounded(a, per, step) <= Rounded(b, per, step)
<1> DEFINE d == step * per
           p == (200 * a + d) \div (2 * step * per)
           q == (200 * b + d) \div (2 * step * per)
<1>1. d \in Nat /\ 2 * step * per \in Nat \ {0}  OBVIOUS
<1>2. p <= q /\ p \in Nat /\ q \in Nat
  <2>1. /\ 200 * a + d \in Nat /\ 200 * b + d \in Nat
        /\ 200 * a + d <= 200 * b + d
    BY <1>1
  <2> HIDE DEF d
  <2> QED  BY <1>1, <2>1, QuotientGrows, QuotientIs
<1>3. Rounded(a, per, step) = p * step /\ Rounded(b, per, step) = q * step  BY DEF Rounded
<1> HIDE DEF p, q
<1> QED  BY <1>2, <1>3

\* What needs no rounding is not rounded.
LEMMA RoundedExact ==
  ASSUME NEW k \in Nat, NEW m \in Nat, NEW per \in Nat \ {0}, NEW step \in Nat \ {0},
         100 * k = m * step
  PROVE  Rounded(k * per, per, step) = 100 * k
<1> DEFINE d == step * per
           q == (200 * (k * per) + d) \div (2 * d)
<1>1. d \in Nat \ {0}  OBVIOUS
<1>2. 200 * (k * per) + d = 2 * (m * d) + d
  <2>1. 200 * (k * per) = 2 * ((100 * k) * per)  OBVIOUS
  <2>2. (100 * k) * per = m * d  OBVIOUS
  <2> QED  BY <1>1, <2>1, <2>2
<1>3. 2 * step * per = 2 * d  OBVIOUS
<1>4. Rounded(k * per, per, step) = q * step  BY <1>3 DEF Rounded
<1> HIDE DEF d
<1>5. q \in Nat /\ 2 * d * q <= 2 * (m * d) + d /\ 2 * (m * d) + d < 2 * d * q + 2 * d
  <2>1. 2 * (m * d) + d \in Nat /\ 2 * d \in Nat \ {0}  BY <1>1
  <2> QED  BY <1>2, <2>1, QuotientIs
<1> HIDE DEF q
<1>6. q = m
  <2>1. ASSUME q + 1 <= m PROVE FALSE
    <3>1. d * (q + 1) <= d * m /\ d * (q + 1) = d * q + d  BY <1>1, <1>5, <2>1
    <3>2. d * q \in Nat /\ d * m \in Nat /\ m * d = d * m /\ 2 * d * q = 2 * (d * q)
      BY <1>1, <1>5
    <3> QED  BY <1>1, <1>5, <3>1, <3>2
  <2>2. ASSUME m + 1 <= q PROVE FALSE
    <3>1. d * (m + 1) <= d * q /\ d * (m + 1) = d * m + d  BY <1>1, <1>5, <2>2
    <3>2. d * q \in Nat /\ d * m \in Nat /\ m * d = d * m /\ 2 * d * q = 2 * (d * q)
      BY <1>1, <1>5
    <3> QED  BY <1>1, <1>5, <3>1, <3>2
  <2> QED  BY <1>5, <2>1, <2>2
<1> QED  BY <1>4, <1>6

Steps == {1, 10, 100, 1000}

\* A larger amount that is rounded to another step is not shown as less: 10, 100 and
\* 1000 units are a multiple of every step.
LEMMA StepUp ==
  ASSUME NEW a \in Nat, NEW b \in Nat, NEW per \in Nat \ {0},
         NEW s \in Steps, NEW t \in Steps, NEW k \in {10, 100, 1000},
         a <= k * per, k * per <= b
  PROVE  Rounded(a, per, s) <= Rounded(b, per, t)
<1>1. \A u \in Steps : u \in Nat \ {0} /\ \E m \in Nat : 100 * k = m * u
  <2> SUFFICES ASSUME NEW u \in Steps PROVE u \in Nat \ {0} /\ \E m \in Nat : 100 * k = m * u
    OBVIOUS
  <2>1. /\ 100 * 10 = 1000 * 1 /\ 100 * 10 = 100 * 10 /\ 100 * 10 = 10 * 100
        /\ 100 * 10 = 1 * 1000 /\ 100 * 100 = 10000 * 1 /\ 100 * 100 = 1000 * 10
        /\ 100 * 100 = 100 * 100 /\ 100 * 100 = 10 * 1000 /\ 100 * 1000 = 100000 * 1
        /\ 100 * 1000 = 10000 * 10 /\ 100 * 1000 = 1000 * 100 /\ 100 * 1000 = 100 * 1000
    OBVIOUS
  <2> QED  BY <2>1 DEF Steps
<1>2. k \in Nat /\ k * per \in Nat  OBVIOUS
<1>3. Rounded(k * per, per, s) = 100 * k /\ Rounded(k * per, per, t) = 100 * k
  <2>1. ASSUME NEW x \in Nat, NEW u \in Nat \ {0}, NEW m \in Nat, 100 * x = m * u
        PROVE  Rounded(x * per, per, u) = 100 * x
    BY <2>1, RoundedExact
  <2>2. s \in Nat \ {0} /\ \E m \in Nat : 100 * k = m * s  BY <1>1
  <2>3. t \in Nat \ {0} /\ \E m \in Nat : 100 * k = m * t  BY <1>1
  <2>4. Rounded(k * per, per, s) = 100 * k  BY <1>2, <2>1, <2>2
  <2>5. Rounded(k * per, per, t) = 100 * k  BY <1>2, <2>1, <2>3
  <2> QED  BY <2>4, <2>5
<1>4. Rounded(a, per, s) <= 100 * k
  BY <1>1, <1>2, <1>3, RoundedGrows
<1>5. 100 * k <= Rounded(b, per, t)
  <2>1. Rounded(k * per, per, t) <= Rounded(b, per, t)  BY <1>1, <1>2, RoundedGrows
  <2> QED  BY <1>3, <2>1
<1>6. Rounded(a, per, s) \in Nat /\ Rounded(b, per, t) \in Nat
  <2>1. s \in Nat \ {0} /\ t \in Nat \ {0}  BY <1>1
  <2>2. Rounded(a, per, s) \in Nat  BY <2>1, RoundedIs
  <2>3. Rounded(b, per, t) \in Nat  BY <2>1, RoundedIs
  <2> QED  BY <2>2, <2>3
<1> QED  BY <1>2, <1>4, <1>5, <1>6

\* The unit of a size, and what it is divided by for it.
LEMMA UnitIs ==
  ASSUME NEW a \in Nat, NEW p \in 0..3, NEW last \in {3, 4}
  PROVE  /\ UnitOf(a, p, last) \in p..last
         /\ Per(a, p, last) \in {1, 1024, 1024 * 1024}
         /\ Per(a, p, last) > 1 => Per(a, p, last) <= a
<1>1. UnitOf(a, p, last) - p \in 0..2 /\ UnitOf(a, p, last) \in p..last
  BY DEF UnitOf
<1>2. /\ UnitOf(a, p, last) = p + 2 => a >= 1024 * 1024
      /\ UnitOf(a, p, last) = p + 1 => a >= 1024
  BY DEF UnitOf
<1>3. /\ UnitOf(a, p, last) = p + 2 => Per(a, p, last) = 1024 * 1024
      /\ UnitOf(a, p, last) = p + 1 => Per(a, p, last) = 1024
      /\ UnitOf(a, p, last) = p => Per(a, p, last) = 1
  BY DEF Per, PowersOf1024
<1>4. UnitOf(a, p, last) \in {p, p + 1, p + 2}  BY <1>1
<1> QED  BY <1>1, <1>2, <1>3, <1>4

LEMMA UnitGrows ==
  ASSUME NEW a \in Nat, NEW b \in Nat, a <= b, NEW p \in 0..3
  PROVE  /\ UnitOf(a, p, 4) <= UnitOf(b, p, 4)
         /\ UnitOf(a, p, 4) = UnitOf(b, p, 4) => Per(a, p, 4) = Per(b, p, 4)
BY DEF UnitOf, Per

\* Below a terabyte both lists of units give one unit.
LEMMA OneUnit ==
  ASSUME NEW a \in Nat, NEW p \in 0..3, UnitOf(a, p, 4) < 4
  PROVE  UnitOf(a, p, 3) = UnitOf(a, p, 4) /\ Per(a, p, 3) = Per(a, p, 4)
<1>1. UnitOf(a, p, 3) = UnitOf(a, p, 4)  BY DEF UnitOf
<1> QED  BY <1>1 DEF Per

StepOf(whole) == IF whole >= 1000 THEN 1000 ELSE IF whole >= 100 THEN 100
                 ELSE IF whole >= 10 THEN 10 ELSE 1
LastStepOf(whole) == IF whole <= 99 THEN 10 ELSE 100

\* The value of a size is rounded to a step that its number of whole units gives.
LEMMA ValueIs ==
  ASSUME NEW a \in Nat, NEW p \in 0..3
  PROVE  LET per == Per(a, p, 4) IN
         /\ formatSize(a, p).unit = UnitOf(a, p, 4)
         /\ formatSize(a, p).unit < 4 =>
              formatSize(a, p).value = Rounded(a, per, StepOf(a \div per))
         /\ ~(formatSize(a, p).unit < 4) =>
              formatSize(a, p).value = Rounded(a, per, LastStepOf(a \div per))
BY DEF formatSize, Digits3, StepOf, LastStepOf

LEMMA CloseEnough ==
  ASSUME NEW a \in Nat, NEW p \in 0..3, NEW s \in {-1, 1}
  PROVE  LET shown == formatSize(a, p)
             error == shown.value * Per(a, p, 4) - 100 * a
         IN  s * error * 2 <= (IF shown.unit < 4 THEN 1 ELSE 10) * a
<1> DEFINE per == Per(a, p, 4)
           whole == a \div per
           step == IF UnitOf(a, p, 4) < 4 THEN StepOf(whole) ELSE LastStepOf(whole)
           v == Rounded(a, per, step)
<1>1. per \in Nat \ {0} /\ (per > 1 => per <= a) /\ UnitOf(a, p, 4) \in 0..4
  BY UnitIs
<1>2. formatSize(a, p).value = v /\ formatSize(a, p).unit = UnitOf(a, p, 4)
  BY ValueIs
<1> HIDE DEF per
<1>3. whole \in Nat /\ per * whole <= a  BY <1>1, QuotientIs
<1> HIDE DEF whole
<1>4. step \in Steps /\ step \in Nat \ {0}  BY <1>3 DEF StepOf, LastStepOf, Steps
<1>5. /\ v \in Nat
      /\ 2 * (v * per - 100 * a) <= step * per /\ 2 * (100 * a - v * per) <= step * per
  BY <1>1, <1>4, RoundedIs
<1>6. CASE UnitOf(a, p, 4) < 4 /\ step = 1 /\ per = 1
  <2>1. 2 * (v - 100 * a) <= 1 /\ 2 * (100 * a - v) <= 1  BY <1>5, <1>6
  <2>2. v = 100 * a  BY <1>5, <2>1
  <2> HIDE DEF v, step
  <2>3. s * 0 * 2 = 0 /\ v * per - 100 * a = 0  BY <1>6, <2>2
  <2> QED  BY <1>2, <1>6, <2>3 DEF per
<1>7. CASE UnitOf(a, p, 4) < 4 /\ ~(step = 1 /\ per = 1)
  <2>1. step * per <= a
    <3>1. CASE step = 1  BY <1>1, <1>7, <3>1
    <3>2. CASE step # 1
      <4>1. step <= whole  BY <1>3, <1>7, <3>2 DEF StepOf
      <4>2. per * step <= per * whole  BY <1>1, <1>3, <1>4, <4>1
      <4> QED  BY <1>1, <1>3, <1>4, <4>2
    <3> QED  BY <3>1, <3>2
  <2> HIDE DEF v, step
  <2> DEFINE error == v * per - 100 * a
  <2>2. error \in Int /\ 2 * error <= a /\ 2 * (0 - error) <= a  BY <1>1, <1>4, <1>5, <2>1
  <2> HIDE DEF error
  <2>3. s * error * 2 <= 1 * a  BY <2>2
  <2> QED  BY <1>2, <1>7, <2>3 DEF error, per
<1>8. CASE ~(UnitOf(a, p, 4) < 4)
  <2>1. step * per <= 10 * a
    <3>1. CASE step = 10
      <4>1. per <= a
        <5>1. per # 1
          <6>1. UnitOf(a, p, 4) = 4 /\ p # 4  BY <1>1, <1>8
          <6> QED  BY <6>1 DEF per, Per, PowersOf1024, UnitOf
        <5> QED  BY <1>1, <5>1
      <4> QED  BY <1>1, <3>1, <4>1
    <3>2. CASE step # 10
      <4>1. step = 100 /\ 100 <= whole  BY <1>3, <1>8, <3>2 DEF LastStepOf
      <4>2. per * 100 <= per * whole  BY <1>1, <1>3, <4>1
      <4> QED  BY <1>1, <1>3, <4>1, <4>2
    <3> QED  BY <3>1, <3>2
  <2> HIDE DEF v, step
  <2> DEFINE error == v * per - 100 * a
  <2>2. error \in Int /\ 2 * error <= 10 * a /\ 2 * (0 - error) <= 10 * a
    BY <1>1, <1>4, <1>5, <2>1
  <2> HIDE DEF error
  <2>3. s * error * 2 <= 10 * a  BY <2>2
  <2> QED  BY <1>2, <1>8, <2>3 DEF error, per
<1> QED  BY <1>6, <1>7, <1>8

LEMMA ValueGrows ==
  ASSUME NEW a \in Nat, NEW b \in Nat, a <= b, NEW p \in 0..3,
         UnitOf(a, p, 4) = UnitOf(b, p, 4)
  PROVE  formatSize(a, p).value <= formatSize(b, p).value
<1> DEFINE per == Per(a, p, 4)
           v == a \div per
           w == b \div per
           unit == UnitOf(a, p, 4)
           s == IF unit < 4 THEN StepOf(v) ELSE LastStepOf(v)
           t == IF unit < 4 THEN StepOf(w) ELSE LastStepOf(w)
<1>1. per \in Nat \ {0} /\ unit \in 0..4 /\ Per(b, p, 4) = per  BY UnitIs, UnitGrows
<1>2. formatSize(a, p).value = Rounded(a, per, s)  BY ValueIs
<1>3. formatSize(b, p).value = Rounded(b, per, t)  BY <1>1, ValueIs
<1> HIDE DEF per, unit
<1>4. v \in Nat /\ w \in Nat /\ v <= w /\ a < per * v + per /\ per * w <= b
  BY <1>1, QuotientIs, QuotientGrows
<1> HIDE DEF v, w
<1>5. s \in Steps /\ t \in Steps  BY <1>4 DEF StepOf, LastStepOf, Steps
<1>6. CASE s = t
  <2>1. s \in Nat \ {0}  BY <1>5 DEF Steps
  <2> QED  BY <1>1, <1>2, <1>3, <1>6, <2>1, RoundedGrows
<1>7. CASE s # t
  <2>1. \E k \in {10, 100, 1000} : v < k /\ k <= w
    BY <1>1, <1>4, <1>7 DEF StepOf, LastStepOf
  <2>2. PICK k \in {10, 100, 1000} : v < k /\ k <= w  BY <2>1
  <2>3. a <= k * per
    <3>1. per * (v + 1) <= per * k /\ per * (v + 1) = per * v + per  BY <1>1, <1>4, <2>2
    <3>2. k * per = per * k /\ per * k \in Nat /\ per * v \in Nat  BY <1>1, <1>4
    <3> QED  BY <1>1, <1>4, <3>1, <3>2
  <2>4. k * per <= b
    <3>1. per * k <= per * w  BY <1>1, <1>4, <2>2
    <3> QED  BY <1>1, <1>4, <3>1
  <2> HIDE DEF s, t
  <2> QED  BY <1>1, <1>2, <1>3, <1>5, <2>3, <2>4, StepUp
<1> QED  BY <1>6, <1>7

LEMMA SizesHold == LabelsInit => SizesAgree
<1> SUFFICES ASSUME LabelsInit, sample.kind = "size" PROVE SizesAgree  BY DEF SizesAgree
<1> DEFINE amt == sample.amount
           p == sample.power
<1>1. amt \in Amounts /\ p \in 0..3  BY DEF LabelsInit
<1>2. \A a \in Amounts : a \in Nat
  <2> DEFINE most == 4 * 1024 * 1024
  <2>1. Amounts \subseteq 0..4 * 1024 * 1024  BY LabelAssumption, Zenon DEF LabelAssumption
  <2>2. most \in Nat  OBVIOUS
  <2>3. Amounts \subseteq 0..most  BY <2>1, Zenon
  <2> HIDE DEF most
  <2> QED  BY <2>2, <2>3
<1> HIDE DEF amt, p
<1>3. formatSize(amt, p).unit < 4 => formatSize(amt, p) = formatFileSize(amt, p)
  <2>1. amt \in Nat  BY <1>1, <1>2
  <2> SUFFICES ASSUME UnitOf(amt, p, 4) < 4 PROVE formatSize(amt, p) = formatFileSize(amt, p)
    BY DEF formatSize
  <2>2. UnitOf(amt, p, 3) = UnitOf(amt, p, 4) /\ Per(amt, p, 3) = Per(amt, p, 4)
    BY <1>1, <2>1, OneUnit
  <2> QED  BY <2>2 DEF formatSize, formatFileSize
<1>4. \A s \in {-1, 1} :
        s * (formatSize(amt, p).value * Per(amt, p, 4) - 100 * amt) * 2
          <= (IF formatSize(amt, p).unit < 4 THEN 1 ELSE 10) * amt
  BY <1>1, <1>2, CloseEnough
<1>5. ASSUME NEW a \in Amounts, a > amt
      PROVE  \/ formatSize(a, p).unit > formatSize(amt, p).unit
             \/ /\ formatSize(a, p).unit = formatSize(amt, p).unit
                /\ formatSize(a, p).value >= formatSize(amt, p).value
  <2>1. a \in Nat /\ amt \in Nat /\ amt <= a  BY <1>1, <1>2, <1>5
  <2>2. formatSize(a, p).unit = UnitOf(a, p, 4) /\ formatSize(amt, p).unit = UnitOf(amt, p, 4)
    BY DEF formatSize
  <2>3. UnitOf(amt, p, 4) \in 0..4 /\ UnitOf(a, p, 4) \in 0..4  BY <1>1, <2>1, UnitIs
  <2>4. UnitOf(amt, p, 4) <= UnitOf(a, p, 4)  BY <1>1, <2>1, UnitGrows
  <2>5. UnitOf(amt, p, 4) = UnitOf(a, p, 4) => formatSize(amt, p).value <= formatSize(a, p).value
    BY <1>1, <2>1, ValueGrows
  <2> QED  BY <2>2, <2>3, <2>4, <2>5
<1> QED  BY <1>3, <1>4, <1>5 DEF SizesAgree, amt, p

\* What people see and type means one thing on both ends, for every length of a code and of
\* a text and for all sizes: codes, addresses, file names and amounts.
THEOREM ConversionsAgree == LabelsSpec => []LabelsAgree
<1>1. LabelsInit => LabelsAgree
  BY CodesHold, HomesHold, NamesHold, SizesHold DEF LabelsAgree
<1>2. LabelsAgree /\ [UNCHANGED sample]_sample => LabelsAgree'
  BY DEF LabelsAgree, CodesMeet, HomesMeet, NameFits, SizesAgree
<1> QED  BY <1>1, <1>2, PTL DEF LabelsSpec
=============================================================================
