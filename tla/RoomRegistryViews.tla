-------------------------- MODULE RoomRegistryViews ---------------------------
(***************************************************************************)
(* CompleteViews and SoundViews, and that a list at rest is the room, for  *)
(* every set of sockets, rooms and peers and every fault, where Redis runs *)
(* the commands in the order they were issued (Pipelined).                 *)
(***************************************************************************)
EXTENDS RoomRegistryTheorems

-----------------------------------------------------------------------------
(* The queue of commands                                                   *)

Among(q, c) == \E i \in DOMAIN q : q[i] = c
Prior(q, a, b) == \E i, j \in DOMAIN q : i < j /\ q[i] = a /\ q[j] = b
Once(q) == \A i, j \in DOMAIN q : q[i] = q[j] => i = j

\* What is appended comes after what is there.
LEMMA ConcatOrder ==
  ASSUME NEW q \in Seq(Command), NEW next \in Seq(Command)
  PROVE  /\ \A c : Among(q \o next, c) <=> Among(q, c) \/ Among(next, c)
         /\ \A a, b : Prior(q, a, b) \/ (Among(q, a) /\ Among(next, b))
              => Prior(q \o next, a, b)
         /\ Once(q) /\ Once(next) /\ (\A c : ~(Among(q, c) /\ Among(next, c)))
              => Once(q \o next)
<1> DEFINE m == Len(q)
           n == Len(next)
           all == q \o next
<1>1. /\ m \in Nat /\ n \in Nat /\ DOMAIN q = 1..m /\ DOMAIN next = 1..n
      /\ DOMAIN all = 1..(m + n)
      /\ \A i \in 1..(m + n) : all[i] = IF i <= m THEN q[i] ELSE next[i - m]
  <2>1. /\ all \in Seq(Command) /\ Len(all) = m + n
        /\ \A i \in 1..(m + n) : all[i] = IF i <= m THEN q[i] ELSE next[i - m]
    BY ConcatProperties
  <2>2. DOMAIN all = 1..Len(all)  BY <2>1
  <2> QED  BY <2>1, <2>2
<1>2. \A i \in 1..m : i \in 1..(m + n) /\ all[i] = q[i]
  BY <1>1
<1>3. \A i \in 1..n : m + i \in 1..(m + n) /\ all[m + i] = next[i]
  <2> TAKE i \in 1..n
  <2>1. m + i \in 1..(m + n) /\ ~(m + i <= m) /\ (m + i) - m = i  BY <1>1
  <2> QED  BY <1>1, <2>1
<1>4. \A i \in 1..(m + n) : i \in 1..m \/ (i - m \in 1..n /\ i = m + (i - m))
  BY <1>1
<1> HIDE DEF all, m, n
<1>5. \A c : Among(all, c) <=> Among(q, c) \/ Among(next, c)
  <2> TAKE c
  <2>1. ASSUME Among(all, c)  PROVE Among(q, c) \/ Among(next, c)
    <3>1. PICK i \in 1..(m + n) : all[i] = c  BY <1>1, <2>1 DEF Among
    <3>2. CASE i \in 1..m  BY <1>1, <1>2, <3>1, <3>2 DEF Among
    <3>3. CASE i - m \in 1..n /\ i = m + (i - m)
      <4>1. next[i - m] = c  BY <1>3, <3>1, <3>3
      <4> QED  BY <1>1, <3>3, <4>1 DEF Among
    <3> QED  BY <1>4, <3>2, <3>3
  <2>2. Among(q, c) => Among(all, c)  BY <1>1, <1>2 DEF Among
  <2>3. Among(next, c) => Among(all, c)  BY <1>1, <1>3 DEF Among
  <2> QED  BY <2>1, <2>2, <2>3
<1>6. \A a, b : Prior(q, a, b) \/ (Among(q, a) /\ Among(next, b)) => Prior(all, a, b)
  <2> TAKE a, b
  <2>1. Prior(q, a, b) => Prior(all, a, b)  BY <1>1, <1>2 DEF Prior
  <2>2. ASSUME NEW i \in 1..m, q[i] = a, NEW j \in 1..n, next[j] = b  PROVE Prior(all, a, b)
    <3>1. i < m + j  BY <1>1
    <3> QED  BY <1>1, <1>2, <1>3, <2>2, <3>1 DEF Prior
  <2> QED  BY <1>1, <2>1, <2>2 DEF Among
<1>7. ASSUME Once(q), Once(next), \A c : ~(Among(q, c) /\ Among(next, c))  PROVE Once(all)
  <2> SUFFICES ASSUME NEW i \in 1..(m + n), NEW j \in 1..(m + n), all[i] = all[j]
               PROVE  i = j
    BY <1>1 DEF Once
  <2>1. CASE i \in 1..m /\ j \in 1..m
    BY <1>1, <1>2, <1>7, <2>1 DEF Once
  <2>2. CASE i - m \in 1..n /\ i = m + (i - m) /\ j - m \in 1..n /\ j = m + (j - m)
    <3>1. next[i - m] = next[j - m]  BY <1>3, <2>2
    <3>2. i - m = j - m  BY <1>1, <1>7, <2>2, <3>1 DEF Once
    <3> QED  BY <2>2, <3>2
  <2>3. CASE i \in 1..m /\ j - m \in 1..n /\ j = m + (j - m)
    <3>1. q[i] = all[j] /\ next[j - m] = all[j]  BY <1>2, <1>3, <2>3
    <3>2. Among(q, all[j]) /\ Among(next, all[j])  BY <1>1, <2>3, <3>1 DEF Among
    <3> QED  BY <1>7, <3>2
  <2>4. CASE j \in 1..m /\ i - m \in 1..n /\ i = m + (i - m)
    <3>1. q[j] = all[i] /\ next[i - m] = all[i]  BY <1>2, <1>3, <2>4
    <3>2. Among(q, all[i]) /\ Among(next, all[i])  BY <1>1, <2>4, <3>1 DEF Among
    <3> QED  BY <1>7, <3>2
  <2> QED  BY <1>4, <2>1, <2>2, <2>3, <2>4
<1> QED  BY <1>5, <1>6, <1>7 DEF all

\* What is taken was before everything else.
LEMMA TailOrder ==
  ASSUME NEW q \in Seq(Command), q # <<>>, Once(q)
  PROVE  /\ Tail(q) \in Seq(Command) /\ Once(Tail(q)) /\ Among(q, Head(q))
         /\ \A c : Among(Tail(q), c) <=> Among(q, c) /\ c # Head(q)
         /\ \A a, b : Prior(q, a, b) => b # Head(q) /\ (a # Head(q) => Prior(Tail(q), a, b))
<1> DEFINE m == Len(q)
           rest == Tail(q)
<1>1. /\ rest \in Seq(Command) /\ Len(rest) = m - 1 /\ m \in Nat /\ m >= 1
      /\ DOMAIN q = 1..m /\ DOMAIN rest = 1..(m - 1)
      /\ \A i \in 1..(m - 1) : rest[i] = q[i + 1]
      /\ Head(q) = q[1]
  <2>1. rest \in Seq(Command) /\ Len(rest) = m - 1 /\ \A i \in 1..Len(rest) : rest[i] = q[i + 1]
    BY HeadTailProperties
  <2>2. m \in Nat /\ m # 0 /\ DOMAIN q = 1..m  BY EmptySeq
  <2>3. DOMAIN rest = 1..Len(rest)  BY <2>1
  <2> QED  BY <2>1, <2>2, <2>3
<1>2. \A i \in 1..m : i = 1 \/ (i - 1 \in 1..(m - 1) /\ rest[i - 1] = q[i])
  <2> TAKE i \in 1..m
  <2>1. i = 1 \/ (i - 1 \in 1..(m - 1) /\ (i - 1) + 1 = i)  BY <1>1
  <2> QED  BY <1>1, <2>1
<1>3. \A i \in 1..(m - 1) : i + 1 \in 1..m /\ i + 1 # 1 /\ rest[i] = q[i + 1]
  BY <1>1
<1> HIDE DEF rest, m
<1>4. Once(rest)
  <2> SUFFICES ASSUME NEW i \in 1..(m - 1), NEW j \in 1..(m - 1), rest[i] = rest[j]  PROVE i = j
    BY <1>1 DEF Once
  <2>1. i + 1 \in DOMAIN q /\ j + 1 \in DOMAIN q /\ q[i + 1] = q[j + 1]
    BY <1>1, <1>3
  <2>2. i + 1 = j + 1
    <3>1. \A x, y \in DOMAIN q : q[x] = q[y] => x = y  BY DEF Once
    <3> QED  BY <2>1, <3>1
  <2>3. i \in Int /\ j \in Int  BY <1>1
  <2> QED  BY <2>2, <2>3
<1>5. \A c : Among(rest, c) <=> Among(q, c) /\ c # Head(q)
  <2> TAKE c
  <2>1. ASSUME NEW i \in 1..(m - 1), rest[i] = c  PROVE Among(q, c) /\ c # Head(q)
    <3>1. q[i + 1] = c /\ i + 1 \in 1..m /\ 1 \in 1..m /\ i + 1 # 1  BY <1>1, <1>3, <2>1
    <3> QED  BY <1>1, <3>1 DEF Among, Once
  <2>2. ASSUME NEW i \in 1..m, q[i] = c, c # Head(q)  PROVE Among(rest, c)
    <3>1. i # 1  BY <1>1, <2>2
    <3> QED  BY <1>1, <1>2, <2>2, <3>1 DEF Among
  <2> QED  BY <1>1, <2>1, <2>2 DEF Among
<1>6. \A a, b : Prior(q, a, b) => b # Head(q) /\ (a # Head(q) => Prior(rest, a, b))
  <2> SUFFICES ASSUME NEW a, NEW b, NEW i \in 1..m, NEW j \in 1..m, i < j, q[i] = a, q[j] = b
               PROVE  b # Head(q) /\ (a # Head(q) => Prior(rest, a, b))
    BY <1>1 DEF Prior
  <2>1. j # 1 /\ 1 \in 1..m  BY <1>1
  <2>2. b # Head(q)  BY <1>1, <2>1 DEF Once
  <2>3. ASSUME a # Head(q)  PROVE Prior(rest, a, b)
    <3>1. i # 1  BY <1>1, <2>3
    <3>2. i - 1 \in 1..(m - 1) /\ j - 1 \in 1..(m - 1) /\ i - 1 < j - 1
          /\ rest[i - 1] = a /\ rest[j - 1] = b
      <4>1. i - 1 < j - 1  OBVIOUS
      <4> QED  BY <1>2, <2>1, <3>1, <4>1
    <3> QED  BY <1>1, <3>2 DEF Prior
  <2> QED  BY <2>2, <2>3
<1>7. Among(q, Head(q))  BY <1>1 DEF Among
<1> QED  BY <1>1, <1>4, <1>5, <1>6, <1>7 DEF rest

-----------------------------------------------------------------------------
(* The commands that handlers wait for are those in the queue.             *)

Outstanding(c) ==
  \/ c[2] = c[1][1] /\ pc[c[1]] \notin {"idle", "remove"}
  \/ rm[c[1]][c[2]] # "none"
Queued == Once(pipe) /\ \A c \in Command : Outstanding(c) <=> Among(pipe, c)
Before(a, b) == Prior(pipe, a, b)

\* A step executes the commands in done, one or none: those that stay keep their order,
\* and new ones come behind them.
Advances(done) ==
  /\ Queued'
  /\ \A a, b \in Command : Before(a, b) => b \notin done
  /\ \A a, b \in Command : Before(a, b) /\ a \notin done => Before(a, b)'
  /\ \A a, b \in Command :
       Outstanding(a) /\ a \notin done /\ (~Outstanding(b) \/ b \in done) /\ Outstanding(b)'
         => Before(a, b)'

\* The first command is executed, and its handler issues the next ones.
LEMMA ServesAdvances ==
  ASSUME Pipelined, pipe \in Seq(Command), Queued, NEW c \in Command, Turn(c),
         NEW next \in Seq(Command), Once(next), Reissue(next),
         \A e \in Command : Outstanding(e)' <=> (Outstanding(e) /\ e # c) \/ Among(next, e),
         \A e \in Command : Among(next, e) => e = c \/ ~Outstanding(e)
  PROVE  Advances({c})
<1> DEFINE rest == Tail(pipe)
<1>1. pipe # <<>> /\ Head(pipe) = c  BY DEF Turn
<1>2. Once(pipe) /\ \A e \in Command : Outstanding(e) <=> Among(pipe, e)  BY DEF Queued
<1>3. pipe' = rest \o next  BY DEF Reissue
<1>4. /\ rest \in Seq(Command) /\ Once(rest)
      /\ \A e : Among(rest, e) <=> Among(pipe, e) /\ e # c
      /\ \A a, b : Prior(pipe, a, b) => b # c /\ (a # c => Prior(rest, a, b))
  BY <1>1, <1>2, TailOrder
<1> HIDE DEF rest
<1>5. \A e : ~(Among(rest, e) /\ Among(next, e))
  <2> SUFFICES ASSUME NEW e, Among(rest, e), Among(next, e)  PROVE FALSE  OBVIOUS
  <2>1. PICK i \in DOMAIN next : next[i] = e  BY DEF Among
  <2>2. e \in Command  BY <2>1, ElementOfSeq
  <2>3. Among(pipe, e) /\ e # c  BY <1>4
  <2> QED  BY <1>2, <2>2, <2>3
<1>6. /\ \A e : Among(pipe', e) <=> Among(rest, e) \/ Among(next, e)
      /\ \A a, b : Prior(rest, a, b) \/ (Among(rest, a) /\ Among(next, b)) => Prior(pipe', a, b)
      /\ Once(pipe')
  BY <1>3, <1>4, <1>5, ConcatOrder
<1>7. Queued'
  <2>1. \A e \in Command : Outstanding(e)' <=> Among(pipe', e)
    BY <1>2, <1>4, <1>6
  <2> QED  BY <1>6, <2>1 DEF Queued, Once, Among
<1>8. \A a, b \in Command : Before(a, b) => b \notin {c}  BY <1>4 DEF Before
<1>9. \A a, b \in Command : Before(a, b) /\ a \notin {c} => Before(a, b)'
  <2>1. \A a, b : Before(a, b)' <=> Prior(pipe', a, b)  BY DEF Before, Prior
  <2> QED  BY <1>4, <1>6, <2>1 DEF Before
<1>10. \A a, b \in Command :
         Outstanding(a) /\ a \notin {c} /\ (~Outstanding(b) \/ b \in {c}) /\ Outstanding(b)'
           => Before(a, b)'
  <2>1. \A a, b : Before(a, b)' <=> Prior(pipe', a, b)  BY DEF Before, Prior
  <2> QED  BY <1>2, <1>4, <1>6, <2>1
<1> QED  BY <1>7, <1>8, <1>9, <1>10 DEF Advances

\* An idle handler issues its first command.
LEMMA IssuesAdvances ==
  ASSUME Pipelined, pipe \in Seq(Command), Queued, NEW c \in Command, ~Outstanding(c), Issue(c),
         \A e \in Command : Outstanding(e)' <=> Outstanding(e) \/ e = c
  PROVE  Advances({})
<1>1. Once(pipe) /\ \A e \in Command : Outstanding(e) <=> Among(pipe, e)  BY DEF Queued
<1>2. pipe' = pipe \o <<c>>
  <2>1. pipe' = Append(pipe, c)  BY DEF Issue
  <2> QED  BY <2>1, AppendIsConcat
<1>3. <<c>> \in Seq(Command) /\ Once(<<c>>) /\ \A e : Among(<<c>>, e) <=> e = c
  BY DEF Once, Among
<1>4. /\ \A e : Among(pipe', e) <=> Among(pipe, e) \/ e = c
      /\ \A a, b : Prior(pipe, a, b) \/ (Among(pipe, a) /\ b = c) => Prior(pipe', a, b)
      /\ Once(pipe')
  <2>1. \A e : ~(Among(pipe, e) /\ Among(<<c>>, e))  BY <1>1, <1>3
  <2> QED  BY <1>1, <1>2, <1>3, <2>1, ConcatOrder
<1>5. Queued'
  <2>1. \A e \in Command : Outstanding(e)' <=> Among(pipe', e)  BY <1>1, <1>4
  <2> QED  BY <1>4, <2>1 DEF Queued, Once, Among
<1>6. \A a, b : Before(a, b)' <=> Prior(pipe', a, b)  BY DEF Before, Prior
<1>7. \A a, b \in Command : Before(a, b) => Before(a, b)'  BY <1>4, <1>6 DEF Before
<1>8. \A a, b \in Command :
        Outstanding(a) /\ ~Outstanding(b) /\ Outstanding(b)' => Before(a, b)'
  BY <1>1, <1>4, <1>6
<1> QED  BY <1>5, <1>7, <1>8 DEF Advances

\* Nothing is issued and nothing executed.
LEMMA StaysAdvances ==
  ASSUME Queued, pipe' = pipe, \A e \in Command : Outstanding(e)' <=> Outstanding(e)
  PROVE  Advances({})
<1>1. Queued'  BY DEF Queued, Once, Among
<1>2. \A a, b : Before(a, b)' <=> Before(a, b)  BY DEF Before, Prior
<1> QED  BY <1>1, <1>2 DEF Advances

LEMMA CommandIs ==
  /\ \A c \in Command : c[1] \in Handler /\ c[2] \in Socket /\ c = <<c[1], c[2]>>
  /\ \A h \in Handler : Own(h) \in Command /\ Own(h)[1] = h /\ Own(h)[2] = h[1]
  /\ \A h \in Handler, d \in Socket : <<h, d>> \in Command /\ <<h, d>>[1] = h /\ <<h, d>>[2] = d
BY HandlerType DEF Command, Own

LEMMA NextOf ==
  /\ <<>> \in Seq(Command) /\ Once(<<>>) /\ \A e : ~Among(<<>>, e)
  /\ \A c \in Command : <<c>> \in Seq(Command) /\ Once(<<c>>) /\ \A e : Among(<<c>>, e) <=> e = c
BY DEF Once, Among

\* A handler that waits on its own line has no removals.
LEMMA OwnLine ==
  ASSUME HandlersOK, NEW h \in Handler, pc[h] \notin {"idle", "remove"}
  PROVE  rm[h] = NoRemoval
BY DEF HandlersOK

\* A step that moves only h.
LEMMA OthersWait ==
  ASSUME NEW h \in Handler, \A g \in Handler \ {h} : pc'[g] = pc[g] /\ rm'[g] = rm[g]
  PROVE  \A e \in Command : e[1] # h => (Outstanding(e)' <=> Outstanding(e))
BY CommandIs DEF Outstanding

\* A request is taken: its handler was idle.
LEMMA StartAdvances ==
  ASSUME Pipelined, TypeOK, Queued, NEW h \in Handler, ~Busy(h), Issue(Own(h)), rm' = rm,
         NEW step \in PcOf \ {"idle", "remove"}, pc' = [pc EXCEPT ![h] = step]
  PROVE  Advances({})
<1>1. pipe \in Seq(Command) /\ pc \in [Handler -> PcOf]  BY DEF TypeOK
<1>2. pc[h] = "idle" /\ rm[h] = NoRemoval  BY DEF Busy
<1>3. \A g \in Handler \ {h} : pc'[g] = pc[g] /\ rm'[g] = rm[g]  BY <1>1
<1>4. pc'[h] = step /\ rm'[h] = NoRemoval  BY <1>1, <1>2
<1>5. ~Outstanding(Own(h))  BY <1>2, CommandIs, HandlerType DEF Outstanding, NoRemoval
<1>6. \A e \in Command : Outstanding(e)' <=> Outstanding(e) \/ e = Own(h)
  <2> TAKE e \in Command
  <2>1. CASE e[1] # h  BY <1>3, <2>1, OthersWait, CommandIs
  <2>2. CASE e[1] = h
    <3>1. rm'[h][e[2]] = "none"  BY <1>4, CommandIs DEF NoRemoval
    <3>2. Outstanding(e)' <=> e[2] = h[1]  BY <1>4, <2>2, <3>1 DEF Outstanding
    <3>3. ~Outstanding(e)  BY <1>2, <2>2, CommandIs DEF Outstanding, NoRemoval
    <3>4. e = Own(h) <=> e[2] = h[1]  BY <2>2, CommandIs DEF Own
    <3> QED  BY <3>2, <3>3, <3>4
  <2> QED  BY <2>1, <2>2
<1> QED  BY <1>1, <1>5, <1>6, CommandIs, IssuesAdvances

\* A handler goes on along its own line.
LEMMA LineAdvances ==
  ASSUME Pipelined, TypeOK, HandlersOK, Queued, NEW h \in Handler, pc[h] \notin {"idle", "remove"},
         Turn(Own(h)), Reissue(<<Own(h)>>), rm' = rm,
         NEW step \in PcOf \ {"idle", "remove"}, pc' = [pc EXCEPT ![h] = step]
  PROVE  Advances({Own(h)})
<1>1. pipe \in Seq(Command) /\ pc \in [Handler -> PcOf]  BY DEF TypeOK
<1>2. \A e \in Command : Outstanding(e)' <=> Outstanding(e)
  <2> TAKE e \in Command
  <2>1. \A g \in Handler \ {h} : pc'[g] = pc[g] /\ rm'[g] = rm[g]  BY <1>1
  <2>2. pc'[h] = step  BY <1>1
  <2>3. CASE e[1] = h  BY <2>2, <2>3 DEF Outstanding
  <2> QED  BY <2>1, <2>3, OthersWait
<1>3. Outstanding(Own(h))  BY CommandIs DEF Outstanding
<1>4. Own(h) \in Command  BY CommandIs
<1> QED  BY <1>1, <1>2, <1>3, <1>4, NextOf, ServesAdvances

\* A handler ends its line, or waits for removals.
LEMMA RestAdvances ==
  ASSUME Pipelined, TypeOK, HandlersOK, Queued, NEW h \in Handler, pc[h] \notin {"idle", "remove"},
         Turn(Own(h)), NEW next \in Seq(Command), Once(next), Reissue(next),
         pc'[h] \in {"idle", "remove"},
         \A g \in Handler \ {h} : pc'[g] = pc[g] /\ rm'[g] = rm[g],
         \A e : Among(next, e) => e \in Command /\ e[1] = h,
         \A d \in Socket : rm'[h][d] # "none" <=> Among(next, <<h, d>>)
  PROVE  Advances({Own(h)})
<1>1. pipe \in Seq(Command)  BY DEF TypeOK
<1>2. rm[h] = NoRemoval  BY OwnLine
<1>3. \A e \in Command : e[1] = h => (Outstanding(e) <=> e = Own(h))
  <2> TAKE e \in Command
  <2>1. rm[h][e[2]] = "none"  BY <1>2, CommandIs DEF NoRemoval
  <2> QED  BY <2>1, CommandIs DEF Outstanding, Own
<1>4. \A e \in Command : e[1] = h => (Outstanding(e)' <=> Among(next, e))
  <2> TAKE e \in Command
  <2>1. e = <<e[1], e[2]>> /\ e[2] \in Socket  BY CommandIs
  <2> QED  BY <2>1 DEF Outstanding
<1>5. \A e \in Command :
        /\ Outstanding(e)' <=> (Outstanding(e) /\ e # Own(h)) \/ Among(next, e)
        /\ Among(next, e) => e = Own(h) \/ ~Outstanding(e)
  <2> TAKE e \in Command
  <2>1. CASE e[1] = h  BY <1>3, <1>4, <2>1
  <2>2. CASE e[1] # h
    <3>1. e # Own(h) /\ ~Among(next, e)  BY <2>2, CommandIs
    <3> QED  BY <2>2, <3>1, OthersWait
  <2> QED  BY <2>1, <2>2
<1>6. Own(h) \in Command  BY CommandIs
<1> QED  BY <1>1, <1>5, <1>6, ServesAdvances

\* cleanDeadPeers issues one command for each dead entry.
LEMMA OrderOf ==
  ASSUME NEW h \in Handler, NEW dead \in SUBSET Socket, NEW order \in SetToSeqs(dead)
  PROVE  LET next == [i \in 1..Len(order) |-> <<h, order[i]>>] IN
         /\ next \in Seq(Command) /\ Once(next)
         /\ \A e : Among(next, e) => e \in Command /\ e[1] = h
         /\ \A d \in Socket : Among(next, <<h, d>>) <=> d \in dead
<1> DEFINE n == Cardinality(dead)
           next == [i \in 1..Len(order) |-> <<h, order[i]>>]
<1>1. IsFiniteSet(dead) /\ n \in Nat
  BY SocketAssumption, FS_Subset, FS_CardinalityType
<1>2. order \in [1..n -> dead] /\ \A i, j \in 1..n : i # j => order[i] # order[j]
  BY SMT DEF SetToSeqs
<1>3. Len(order) = n /\ DOMAIN order = 1..n  BY <1>1, <1>2
<1>4. \A d \in dead : \E i \in 1..n : order[i] = d
  <2>1. order \in Injection(1..n, dead)  BY <1>2 DEF Injection, IsInjective
  <2>2. Cardinality(1..n) = n  BY <1>1, FS_Interval
  <2>3. order \in Surjection(1..n, dead)  BY <1>1, <2>1, <2>2, FS_Injection
  <2> QED  BY <2>3 DEF Surjection
<1>5. next \in Seq(Command)  BY OrderType
<1>6. DOMAIN next = 1..n /\ \A i \in 1..n : next[i] = <<h, order[i]>> /\ order[i] \in dead
  BY <1>2, <1>3
<1> HIDE DEF next, n
<1>7. Once(next)  BY <1>2, <1>6 DEF Once
<1>8. \A e : Among(next, e) => e \in Command /\ e[1] = h
  BY <1>6, CommandIs DEF Among
<1>9. \A d \in Socket : Among(next, <<h, d>>) <=> d \in dead
  BY <1>4, <1>6 DEF Among
<1> QED  BY <1>5, <1>7, <1>8, <1>9 DEF next

\* HDEL is followed by HLEN, an HLEN of 0 by DEL.
LEMMA RemovingAdvances ==
  ASSUME Pipelined, TypeOK, HandlersOK, Queued, NEW h \in Handler, NEW d \in Socket,
         rm[h][d] # "none", Turn(<<h, d>>), Reissue(<<<<h, d>>>>), pc' = pc,
         NEW cmd \in RmOf \ {"none"}, rm' = Removing(h, d, cmd)
  PROVE  Advances({<<h, d>>})
<1> DEFINE c == <<h, d>>
<1>1. pipe \in Seq(Command) /\ rm \in [Handler -> [Socket -> RmOf]]  BY DEF TypeOK
<1>2. /\ rm'[h][d] = cmd /\ \A s \in Socket \ {d} : rm'[h][s] = rm[h][s]
      /\ \A g \in Handler \ {h} : rm'[g] = rm[g]
  BY <1>1, RemovingType
<1>3. c \in Command /\ c[1] = h /\ c[2] = d  BY CommandIs
<1> HIDE DEF c
<1>4. \A e \in Command : Outstanding(e)' <=> Outstanding(e)
  <2> TAKE e \in Command
  <2>1. CASE e[1] = h /\ e[2] = d  BY <1>2, <2>1 DEF Outstanding
  <2>2. CASE e[1] = h /\ e[2] # d  BY <1>2, <2>2, CommandIs DEF Outstanding
  <2>3. CASE e[1] # h  BY <1>2, <2>3, CommandIs DEF Outstanding
  <2> QED  BY <2>1, <2>2, <2>3
<1>5. Outstanding(c)  BY <1>3 DEF Outstanding
<1>6. Turn(c) /\ Reissue(<<c>>)  BY DEF c
<1>7. Advances({c})  BY <1>1, <1>3, <1>4, <1>5, <1>6, NextOf, ServesAdvances
<1> QED  BY <1>7 DEF c

\* The last command of a removal: the handler goes on when it was the last it awaited.
LEMMA RemovedAdvances ==
  ASSUME Pipelined, TypeOK, HandlersOK, Queued, NEW h \in Handler, NEW d \in Socket,
         rm[h][d] # "none", Turn(<<h, d>>), Removed(h, d)
  PROVE  Advances({<<h, d>>})
<1> DEFINE c == <<h, d>>
           left == [rm[h] EXCEPT ![d] = "none"]
<1>1. /\ pipe \in Seq(Command) /\ rm \in [Handler -> [Socket -> RmOf]]
      /\ pc \in [Handler -> PcOf]
  BY DEF TypeOK
<1>2. /\ rm'[h][d] = "none" /\ \A e \in Socket \ {d} : rm'[h][e] = rm[h][e]
      /\ \A g \in Handler \ {h} : rm'[g] = rm[g] /\ pc'[g] = pc[g]
  BY RemovedEffect
<1>3. c \in Command /\ c[1] = h /\ c[2] = d /\ Turn(c)  BY CommandIs
<1>l. rm'[h] = left  BY <1>1 DEF Removed
<1>4. pc[h] \in {"idle", "remove"}
  <2>1. rm[h] # NoRemoval  BY DEF NoRemoval
  <2> QED  BY <2>1, OwnLine
<1> HIDE DEF c
<1>5. \A e \in Command : e[1] = h => (Outstanding(e) <=> rm[h][e[2]] # "none")
  BY <1>4 DEF Outstanding
<1>6. ASSUME ~(left = NoRemoval /\ pc[h] = "remove")  PROVE Advances({c})
  <2>1. pc' = pc /\ Reissue(<<>>)  BY <1>6 DEF Removed
  <2>2. \A e \in Command : Outstanding(e)' <=> Outstanding(e) /\ e # c
    <3> TAKE e \in Command
    <3>1. CASE e[1] # h  BY <1>2, <1>3, <3>1, OthersWait
    <3>2. CASE e[1] = h
      <4>1. e = c <=> e[2] = d  BY <3>2, CommandIs DEF c
      <4>2. Outstanding(e)' <=> rm'[h][e[2]] # "none"
        BY <1>4, <2>1, <3>2 DEF Outstanding
      <4> QED  BY <1>2, <1>5, <3>2, <4>1, <4>2, CommandIs
    <3> QED  BY <3>1, <3>2
  <2> QED  BY <1>1, <1>3, <2>1, <2>2, NextOf, ServesAdvances
<1>7. ASSUME left = NoRemoval, pc[h] = "remove"  PROVE Advances({c})
  <2>1. AfterRemovals(h)  BY <1>7 DEF Removed
  <2>2. rm'[h] = NoRemoval  BY <1>l, <1>7
  <2>3. \A e \in Command : e[1] = h => (Outstanding(e) <=> e = c)
    <3> TAKE e \in Command
    <3>1. e[1] = h => (e = c <=> e[2] = d)  BY CommandIs DEF c
    <3>2. e[2] # d => rm[h][e[2]] = "none"
      <4>1. e[2] \in Socket  BY CommandIs
      <4>2. e[2] # d => rm'[h][e[2]] = rm[h][e[2]] /\ rm'[h][e[2]] = "none"
        BY <1>2, <2>2, <4>1 DEF NoRemoval
      <4> QED  BY <4>2
    <3> QED  BY <1>5, <3>1, <3>2
  <2>4. \/ pc'[h] = "idle" /\ Reissue(<<>>)
        \/ pc'[h] = "check" /\ Reissue(<<Own(h)>>)
    <3>1. CASE Announce(h, loc[h].seen) /\ Reissue(<<>>)
      BY <1>1, <3>1 DEF Announce
    <3>2. CASE /\ pc' = [pc EXCEPT ![h] = IF loc[h].peer # None THEN "check" ELSE "idle"]
               /\ Reissue(IF loc[h].peer # None THEN <<Own(h)>> ELSE <<>>)
      BY <1>1, <3>2
    <3> QED  BY <2>1, <3>1, <3>2 DEF AfterRemovals
  <2>5. \A e \in Command : e[1] = h =>
          (Outstanding(e)' <=> pc'[h] = "check" /\ e = Own(h))
    <3> TAKE e \in Command
    <3>1. rm'[h][e[2]] = "none"  BY <2>2, CommandIs DEF NoRemoval
    <3>2. e[1] = h => (e = Own(h) <=> e[2] = h[1])  BY CommandIs DEF Own
    <3> QED  BY <2>4, <3>1, <3>2 DEF Outstanding
  <2>6. \A e \in Command : e[1] # h => (Outstanding(e)' <=> Outstanding(e)) /\ e # c /\ e # Own(h)
    BY <1>2, <1>3, CommandIs, OthersWait
  <2>7. Own(h) \in Command /\ Own(h)[1] = h  BY CommandIs
  <2>8. CASE pc'[h] = "idle" /\ Reissue(<<>>)
    <3>1. \A e \in Command : Outstanding(e)' <=> Outstanding(e) /\ e # c
      BY <2>3, <2>5, <2>6, <2>8
    <3> QED  BY <1>1, <1>3, <2>8, <3>1, NextOf, ServesAdvances
  <2>9. CASE pc'[h] = "check" /\ Reissue(<<Own(h)>>)
    <3>1. \A e \in Command : Outstanding(e)' <=> (Outstanding(e) /\ e # c) \/ e = Own(h)
      BY <2>3, <2>5, <2>6, <2>9, <2>7
    <3>2. Own(h) = c \/ ~Outstanding(Own(h))  BY <2>3, <2>7
    <3> QED  BY <1>1, <1>3, <2>7, <2>9, <3>1, <3>2, NextOf, ServesAdvances
  <2> QED  BY <2>4, <2>8, <2>9
<1>8. Advances({c})  BY <1>6, <1>7
<1> QED  BY <1>8 DEF c

\* A rejected command is answered too, and its handler ends.
LEMMA FailAdvances ==
  ASSUME Pipelined, TypeOK, HandlersOK, Queued, NEW h \in Handler, NEW d \in Socket, Fail(h, d)
  PROVE  Advances({<<h, d>>})
<1> DEFINE c == <<h, d>>
           left == [rm[h] EXCEPT ![d] = "none"]
<1>1. /\ pipe \in Seq(Command) /\ rm \in [Handler -> [Socket -> RmOf]]
      /\ pc \in [Handler -> PcOf]
  BY DEF TypeOK
<1>2. /\ pc' = [pc EXCEPT ![h] = "idle"] /\ rm' = [rm EXCEPT ![h] = left]
      /\ Turn(c) /\ Reissue(<<>>)
      /\ (d = h[1] /\ pc[h] \notin {"idle", "remove"}) \/ rm[h][d] # "none"
  BY DEF Fail
<1>3. c \in Command /\ c[1] = h /\ c[2] = d  BY CommandIs
<1>4. /\ \A g \in Handler \ {h} : rm'[g] = rm[g] /\ pc'[g] = pc[g]
      /\ pc'[h] = "idle" /\ rm'[h][d] = "none"
      /\ \A e \in Socket \ {d} : rm'[h][e] = rm[h][e]
  <2>1. rm[h] \in [Socket -> RmOf] /\ rm'[h] = left /\ pc'[h] = "idle"  BY <1>1, <1>2
  <2>2. left[d] = "none" /\ \A e \in Socket \ {d} : left[e] = rm[h][e]  BY <2>1
  <2>3. \A g \in Handler \ {h} : rm'[g] = rm[g] /\ pc'[g] = pc[g]  BY <1>1, <1>2
  <2> QED  BY <2>1, <2>2, <2>3
<1>5. pc[h] \notin {"idle", "remove"} => d = h[1] /\ rm[h] = NoRemoval
  <2>1. pc[h] \notin {"idle", "remove"} => rm[h] = NoRemoval  BY OwnLine
  <2> QED  BY <1>2, <2>1 DEF NoRemoval
<1> HIDE DEF c, left
<1>6. \A e \in Command : Outstanding(e)' <=> Outstanding(e) /\ e # c
  <2> TAKE e \in Command
  <2>1. CASE e[1] # h  BY <1>3, <1>4, <2>1, OthersWait
  <2>2. CASE e[1] = h
    <3>1. e = c <=> e[2] = d  BY <2>2, CommandIs DEF c
    <3>2. Outstanding(e)' <=> e[2] # d /\ rm[h][e[2]] # "none"
      BY <1>4, <2>2, CommandIs DEF Outstanding
    <3>3. e[2] # d /\ Outstanding(e) => rm[h][e[2]] # "none"
      BY <1>5, <2>2 DEF Outstanding
    <3> QED  BY <2>2, <3>1, <3>2, <3>3 DEF Outstanding
  <2> QED  BY <2>1, <2>2
<1>7. Advances({c})  BY <1>1, <1>2, <1>3, <1>6, NextOf, ServesAdvances
<1> QED  BY <1>7 DEF c

\* HGETALL: the join ends, or removals are issued.
LEMMA HGetAllAdvances ==
  ASSUME Pipelined, TypeOK, HandlersOK, Queued, NEW h \in Handler, HGetAll(h)
  PROVE  Advances({Own(h)})
<1> DEFINE dead == Dead(loc[h].room)
<1>1. pc[h] = "hgetall" /\ Turn(Own(h)) /\ rm[h] = NoRemoval
  BY OwnLine DEF HGetAll
<1>2. /\ pc \in [Handler -> PcOf] /\ rm \in [Handler -> [Socket -> RmOf]]
      /\ dead \in SUBSET Socket
  BY DEF TypeOK, Dead, Entries
<1>3. CASE dead = {}
  <2>1. Reissue(<<>>) /\ rm' = rm /\ pc' = [pc EXCEPT ![h] = "idle"]
    BY <1>3 DEF HGetAll, Announce
  <2>2. \A d \in Socket : rm'[h][d] # "none" <=> Among(<<>>, <<h, d>>)
    BY <1>1, <2>1, NextOf DEF NoRemoval
  <2>3. pc'[h] = "idle" /\ \A g \in Handler \ {h} : pc'[g] = pc[g] /\ rm'[g] = rm[g]
    BY <1>1, <1>2, <2>1
  <2> QED  BY <1>1, <2>1, <2>2, <2>3, NextOf, RestAdvances
<1>4. CASE dead # {}
  <2>1. /\ pc' = [pc EXCEPT ![h] = "remove"]
        /\ rm' = [rm EXCEPT ![h] = [d \in Socket |-> IF d \in dead THEN "hdel" ELSE "none"]]
    BY <1>4 DEF HGetAll
  <2>2. PICK order \in SetToSeqs(dead) : Reissue([i \in 1..Len(order) |-> <<h, order[i]>>])
    BY <1>4 DEF HGetAll
  <2> DEFINE next == [i \in 1..Len(order) |-> <<h, order[i]>>]
  <2>3. /\ next \in Seq(Command) /\ Once(next)
        /\ \A e : Among(next, e) => e \in Command /\ e[1] = h
        /\ \A d \in Socket : Among(next, <<h, d>>) <=> d \in dead
    BY <1>1, <1>2, OrderOf
  <2>4. \A d \in Socket : rm'[h][d] # "none" <=> d \in dead
    BY <1>1, <1>2, <2>1
  <2>5. pc'[h] = "remove" /\ \A g \in Handler \ {h} : pc'[g] = pc[g] /\ rm'[g] = rm[g]
    BY <1>1, <1>2, <2>1
  <2>6. Reissue(next)  BY <2>2
  <2>7. \A d \in Socket : rm'[h][d] # "none" <=> Among(next, <<h, d>>)  BY <2>3, <2>4
  <2> HIDE DEF next
  <2> QED  BY <1>1, <2>3, <2>5, <2>6, <2>7, RestAdvances
<1> QED  BY <1>3, <1>4

\* getClient is followed by the removal of the socket's own entry.
LEMMA HGetAdvances ==
  ASSUME Pipelined, TypeOK, HandlersOK, Queued, NEW h \in Handler, HGet(h)
  PROVE  Advances({Own(h)})
<1>1. pc[h] = "hget" /\ Turn(Own(h)) /\ Reissue(<<Own(h)>>) /\ rm[h] = NoRemoval
  BY OwnLine DEF HGet
<1>2. /\ pc \in [Handler -> PcOf] /\ rm \in [Handler -> [Socket -> RmOf]] /\ h[1] \in Socket
      /\ Own(h) \in Command
  BY HandlerType DEF TypeOK
<1>3. pc' = [pc EXCEPT ![h] = "remove"] /\ rm' = Removing(h, h[1], "hdel")  BY DEF HGet
<1>4. /\ rm'[h][h[1]] = "hdel" /\ \A s \in Socket \ {h[1]} : rm'[h][s] = rm[h][s]
      /\ \A g \in Handler \ {h} : rm'[g] = rm[g]
  BY <1>2, <1>3, RemovingType DEF RmOf
<1>5. pc'[h] = "remove" /\ \A g \in Handler \ {h} : pc'[g] = pc[g]  BY <1>2, <1>3
<1>6. \A d \in Socket : rm'[h][d] # "none" <=> Among(<<Own(h)>>, <<h, d>>)
  <2> TAKE d \in Socket
  <2>1. Among(<<Own(h)>>, <<h, d>>) <=> d = h[1]  BY <1>2, NextOf DEF Own
  <2>2. d # h[1] => rm'[h][d] = "none"  BY <1>1, <1>4 DEF NoRemoval
  <2> QED  BY <1>4, <2>1, <2>2
<1>7. \A e : Among(<<Own(h)>>, e) => e \in Command /\ e[1] = h  BY <1>2, CommandIs, NextOf
<1> QED  BY <1>1, <1>2, <1>4, <1>5, <1>6, <1>7, NextOf, RestAdvances

LEMMA CheckAdvances ==
  ASSUME Pipelined, TypeOK, HandlersOK, Queued, NEW h \in Handler, Check(h)
  PROVE  Advances({Own(h)})
<1>1. /\ pc[h] = "check" /\ Turn(Own(h)) /\ Reissue(<<>>) /\ rm[h] = NoRemoval /\ rm' = rm
      /\ pc' = [pc EXCEPT ![h] = "idle"]
  BY OwnLine DEF Check
<1>2. pc \in [Handler -> PcOf]  BY DEF TypeOK
<1>3. pc'[h] = "idle" /\ \A g \in Handler \ {h} : pc'[g] = pc[g] /\ rm'[g] = rm[g]
  BY <1>1, <1>2
<1>4. \A d \in Socket : rm'[h][d] # "none" <=> Among(<<>>, <<h, d>>)
  BY <1>1, NextOf DEF NoRemoval
<1> QED  BY <1>1, <1>3, <1>4, NextOf, RestAdvances

LEMMA RemoveAdvances ==
  ASSUME Pipelined, TypeOK, HandlersOK, Queued, NEW h \in Handler, NEW d \in Socket,
         RemoveStep(h, d)
  PROVE  Advances({<<h, d>>})
<1>1. CASE HDel(h, d)
  <2>1. /\ rm[h][d] # "none" /\ Turn(<<h, d>>) /\ Reissue(<<<<h, d>>>>) /\ pc' = pc
        /\ rm' = Removing(h, d, "hlen")
    BY <1>1 DEF HDel
  <2> QED  BY <2>1, RemovingAdvances DEF RmOf
<1>2. CASE HLen(h, d)
  <2>1. rm[h][d] # "none" /\ Turn(<<h, d>>)  BY <1>2 DEF HLen
  <2>2. CASE Removed(h, d)  BY <2>1, <2>2, RemovedAdvances
  <2>3. CASE /\ rm' = Removing(h, d, "del") /\ Reissue(<<<<h, d>>>>) /\ pc' = pc
    BY <2>1, <2>3, RemovingAdvances DEF RmOf
  <2> QED  BY <1>2, <2>2, <2>3 DEF HLen
<1>3. CASE Del(h, d)
  <2>1. rm[h][d] # "none" /\ Turn(<<h, d>>) /\ Removed(h, d)  BY <1>3 DEF Del
  <2> QED  BY <2>1, RemovedAdvances
<1> QED  BY <1>1, <1>2, <1>3 DEF RemoveStep

LEMMA JoinLineAdvances ==
  ASSUME Pipelined, TypeOK, HandlersOK, Queued, NEW h \in Handler,
         HExists(h) \/ HSet(h) \/ Expire(h)
  PROVE  Advances({Own(h)})
<1>1. /\ pc[h] \notin {"idle", "remove"}
      /\ Turn(Own(h)) /\ Reissue(<<Own(h)>>) /\ rm' = rm
  BY DEF HExists, HSet, Expire
<1>2. \E step \in PcOf \ {"idle", "remove"} : pc' = [pc EXCEPT ![h] = step]
  <2>1. {"hset", "hgetall", "expire"} \subseteq PcOf \ {"idle", "remove"}  BY DEF PcOf
  <2>2. CASE HExists(h)
    <3>1. CASE redis[loc[h].room][h[1]] = None
      <4>1. pc' = [pc EXCEPT ![h] = "hset"]  BY <2>2, <3>1 DEF HExists
      <4> QED  BY <2>1, <4>1
    <3>2. CASE redis[loc[h].room][h[1]] # None
      <4>1. pc' = [pc EXCEPT ![h] = "hgetall"]  BY <2>2, <3>2 DEF HExists
      <4> QED  BY <2>1, <4>1
    <3> QED  BY <3>1, <3>2
  <2>3. CASE HSet(h)
    <3>1. pc' = [pc EXCEPT ![h] = "expire"]  BY <2>3 DEF HSet
    <3> QED  BY <2>1, <3>1
  <2>4. CASE Expire(h)
    <3>1. pc' = [pc EXCEPT ![h] = "hgetall"]  BY <2>4 DEF Expire
    <3> QED  BY <2>1, <3>1
  <2> QED  BY <2>2, <2>3, <2>4
<1>3. PICK step \in PcOf \ {"idle", "remove"} : pc' = [pc EXCEPT ![h] = step]  BY <1>2
<1> QED  BY <1>1, <1>3, LineAdvances

LEMMA RequestAdvances ==
  ASSUME Pipelined, TypeOK, HandlersOK, ConnectedOK, Queued, NEW h \in Handler,
         \/ \E r \in Room : \E p \in Ids[h[1]] : JoinRoom(h, r, p)
         \/ LeaveRoom(h)
         \/ h = D(h[1]) /\ Disconnect(h[1])
  PROVE  Advances({})
<1>1. h[1] \in Socket /\ {"hexists", "hget"} \subseteq PcOf \ {"idle", "remove"}
  BY HandlerType DEF PcOf
<1>2. CASE \E r \in Room : \E p \in Ids[h[1]] : JoinRoom(h, r, p)
  <2>1. /\ ~Busy(h) /\ Issue(Own(h)) /\ rm' = rm
        /\ pc' = [pc EXCEPT ![h] = "hexists"]
    BY <1>2 DEF JoinRoom, First
  <2> QED  BY <1>1, <2>1, StartAdvances
<1>3. CASE LeaveRoom(h)
  <2>1. CASE dataRoom[h[1]] = None
    <3>1. pipe' = pipe /\ pc' = pc /\ rm' = rm  BY <1>3, <2>1 DEF LeaveRoom
    <3> QED  BY <3>1, StaysAdvances DEF Outstanding
  <2>2. CASE dataRoom[h[1]] # None
    <3>1. /\ ~Busy(h) /\ Issue(Own(h)) /\ rm' = rm
          /\ pc' = [pc EXCEPT ![h] = "hget"]
      BY <1>3, <2>2 DEF LeaveRoom, First
    <3> QED  BY <1>1, <3>1, StartAdvances
  <2> QED  BY <2>1, <2>2
<1>4. CASE h = D(h[1]) /\ Disconnect(h[1])
  <2>1. /\ conn[h[1]] = "up" /\ Issue(Own(h)) /\ rm' = rm
        /\ pc' = [pc EXCEPT ![h] = "hget"]
    BY <1>4 DEF Disconnect
  <2>2. ~Busy(h)  BY <1>1, <1>4, <2>1 DEF ConnectedOK
  <2> QED  BY <1>1, <2>1, <2>2, StartAdvances
<1> QED  BY <1>2, <1>3, <1>4

LEMMA SilentAdvances ==
  ASSUME Queued,
         (\E s \in Socket : Connect(s)) \/ (\E r \in Room : RoomExpires(r)) \/ UNCHANGED vars
  PROVE  Advances({})
<1>1. pipe' = pipe /\ pc' = pc /\ rm' = rm  BY DEF Connect, RoomExpires, vars
<1> QED  BY <1>1, StaysAdvances DEF Outstanding

\* The queue, whatever the step.
LEMMA QueuedInit == Init => Queued
<1> SUFFICES ASSUME Init PROVE Queued  OBVIOUS
<1>1. \A c \in Command : ~Outstanding(c)
  BY CommandIs DEF Init, Outstanding, NoRemoval
<1> QED  BY <1>1, NextOf DEF Init, Queued

LEMMA QueuedNext ==
  ASSUME Pipelined, TypeOK, HandlersOK, ConnectedOK, Queued, [Next]_vars
  PROVE  Queued'
<1>1. CASE Restart
  <2>1. pipe' = <<>> /\ \A c \in Command : ~Outstanding(c)'
    BY <1>1, CommandIs DEF Restart, Outstanding, NoRemoval
  <2>2. Once(pipe') /\ \A c : ~Among(pipe', c)  BY <2>1, NextOf
  <2> QED  BY <2>1, <2>2 DEF Queued, Once, Among
<1>2. CASE ~Restart
  <2>1. \E done : Advances(done)
    <3>1. CASE \E h \in Handler, r \in Room : \E p \in Ids[h[1]] : JoinRoom(h, r, p)
      BY <3>1, RequestAdvances
    <3>2. CASE \E h \in Handler : LeaveRoom(h)
      BY <3>2, RequestAdvances
    <3>9. CASE \E s \in Socket : Disconnect(s)
      BY <3>9, RequestAdvances, HandlerType, Lines
    <3>3. CASE \E h \in Handler : JoinStep(h)
      BY <3>3, JoinLineAdvances, HGetAllAdvances DEF JoinStep
    <3>4. CASE \E h \in Handler : HGet(h)  BY <3>4, HGetAdvances
    <3>5. CASE \E h \in Handler, d \in Socket : RemoveStep(h, d)  BY <3>5, RemoveAdvances
    <3>6. CASE \E h \in Handler : Check(h)  BY <3>6, CheckAdvances
    <3>7. CASE \E h \in Handler, d \in Socket : Fail(h, d)  BY <3>7, FailAdvances
    <3>8. CASE \/ \E s \in Socket : Connect(s)
               \/ \E r \in Room : RoomExpires(r)
               \/ UNCHANGED vars
      BY <3>8, SilentAdvances
    <3> QED
      BY <1>2, <3>1, <3>2, <3>3, <3>4, <3>5, <3>6, <3>7, <3>8, <3>9 DEF Next
  <2> QED  BY <2>1 DEF Advances
<1> QED  BY <1>1, <1>2

-----------------------------------------------------------------------------
(* What a step moves.                                                      *)

Moves(h) ==
  \/ JoinStep(h) \/ \E r \in Room : \E p \in Ids[h[1]] : JoinRoom(h, r, p)
  \/ LeaveRoom(h)
  \/ h = D(h[1]) /\ Disconnect(h[1])
  \/ HGet(h) \/ Check(h)
  \/ \E d \in Socket : RemoveStep(h, d) \/ Fail(h, d)
Silent == (\E s \in Socket : Connect(s)) \/ (\E r \in Room : RoomExpires(r)) \/ UNCHANGED vars

LEMMA MoverIs ==
  ASSUME [Next]_vars
  PROVE  Restart \/ Silent \/ \E h \in Handler : Moves(h)
<1>1. CASE \E h \in Handler : \/ JoinStep(h) \/ LeaveRoom(h)
                              \/ \E r \in Room : \E p \in Ids[h[1]] : JoinRoom(h, r, p)
  BY <1>1 DEF Moves
<1>3. CASE \E s \in Socket : Disconnect(s)
  <2>1. PICK s \in Socket : Disconnect(s)  BY <1>3
  <2>2. D(s) \in Handler /\ D(s)[1] = s  BY HandlerType, Lines
  <2> QED  BY <2>1, <2>2 DEF Moves
<1>4. CASE \E h \in Handler : HGet(h) \/ Check(h) \/ \E d \in Socket : RemoveStep(h, d) \/ Fail(h, d)
  BY <1>4 DEF Moves
<1> QED  BY <1>1, <1>3, <1>4 DEF Next, Silent

LEMMA OthersRest ==
  ASSUME TypeOK, NEW h \in Handler, Moves(h), NEW g \in Handler \ {h}
  PROVE  pc'[g] = pc[g] /\ loc'[g] = loc[g] /\ rm'[g] = rm[g]
<1>1. /\ pc \in [Handler -> PcOf] /\ loc \in [Handler -> Locals]
      /\ rm \in [Handler -> [Socket -> RmOf]] /\ h[1] \in Socket
  BY HandlerType DEF TypeOK
<1>2. CASE JoinStep(h) \/ \E r \in Room : \E p \in Ids[h[1]] : JoinRoom(h, r, p)
  <2>1. CASE HExists(h) \/ HSet(h) \/ Expire(h)
    BY <1>1, <1>2, <2>1 DEF HExists, HSet, Expire
  <2>2. CASE HGetAll(h)
    <3>1. CASE Dead(loc[h].room) = {}
      BY <1>1, <1>2, <2>2, <3>1 DEF HGetAll, Announce
    <3>2. CASE Dead(loc[h].room) # {}
      <4>1. /\ pc' = [pc EXCEPT ![h] = "remove"]
            /\ \E seen : loc' = [loc EXCEPT ![h].seen = seen]
            /\ \E row : rm' = [rm EXCEPT ![h] = row]
        BY <1>2, <2>2, <3>2 DEF HGetAll
      <4> QED  BY <1>1, <4>1
    <3> QED  BY <3>1, <3>2
  <2>3. CASE \E r \in Room : \E p \in Ids[h[1]] : JoinRoom(h, r, p)
    BY <1>1, <1>2, <2>3 DEF JoinRoom
  <2> QED  BY <1>2, <2>1, <2>2, <2>3 DEF JoinStep
<1>3. CASE LeaveRoom(h)
  BY <1>1, <1>3 DEF LeaveRoom
<1>4. CASE h = D(h[1]) /\ Disconnect(h[1])
  BY <1>1, <1>4 DEF Disconnect
<1>5. CASE HGet(h)
  <2>1. pc'[g] = pc[g] /\ loc'[g] = loc[g]  BY <1>1, <1>5 DEF HGet
  <2> QED  BY <1>5, <2>1, GetRemovals
<1>6. CASE Check(h)
  BY <1>1, <1>6 DEF Check
<1>7. ASSUME NEW d \in Socket, RemoveStep(h, d)
      PROVE  pc'[g] = pc[g] /\ loc'[g] = loc[g] /\ rm'[g] = rm[g]
  <2>1. CASE HDel(h, d)
    <3>1. rm' = Removing(h, d, "hlen") /\ pc' = pc /\ loc' = loc  BY <2>1 DEF HDel
    <3> QED  BY <1>1, <3>1, RemovingType DEF RmOf
  <2>2. CASE HLen(h, d)
    <3>1. rm[h][d] # "none"  BY <2>2 DEF HLen
    <3>2. CASE Removed(h, d)  BY <3>1, <3>2, RemovedEffect
    <3>3. CASE rm' = Removing(h, d, "del") /\ pc' = pc /\ loc' = loc
      BY <1>1, <3>3, RemovingType DEF RmOf
    <3> QED  BY <2>2, <3>2, <3>3 DEF HLen
  <2>3. CASE Del(h, d)
    <3>1. rm[h][d] # "none" /\ Removed(h, d)  BY <2>3 DEF Del
    <3> QED  BY <3>1, RemovedEffect
  <2> QED  BY <1>7, <2>1, <2>2, <2>3 DEF RemoveStep
<1>8. ASSUME NEW d \in Socket, Fail(h, d)
      PROVE  pc'[g] = pc[g] /\ loc'[g] = loc[g] /\ rm'[g] = rm[g]
  <2>1. /\ pc' = [pc EXCEPT ![h] = "idle"]
        /\ \E row : rm' = [rm EXCEPT ![h] = row]
        /\ \E l : loc' = [loc EXCEPT ![h] = l]
    BY <1>1, <1>8 DEF Fail
  <2> QED  BY <1>1, <2>1
<1> QED  BY <1>2, <1>3, <1>4, <1>5, <1>6, <1>7, <1>8 DEF Moves

\* The commands executed are those of the handler that moves.
LEMMA MovesAdvances ==
  ASSUME Pipelined, TypeOK, HandlersOK, ConnectedOK, Queued, NEW h \in Handler, Moves(h)
  PROVE  \E done \in SUBSET ({h} \X Socket) : Advances(done)
<1>1. h[1] \in Socket /\ {Own(h)} \in SUBSET ({h} \X Socket) /\ {} \in SUBSET ({h} \X Socket)
      /\ \A d \in Socket : {<<h, d>>} \in SUBSET ({h} \X Socket)
  BY HandlerType DEF Own
<1>2. CASE JoinStep(h) \/ \E r \in Room : \E p \in Ids[h[1]] : JoinRoom(h, r, p)
  <2>1. CASE HExists(h) \/ HSet(h) \/ Expire(h)
    BY <1>1, <1>2, <2>1, JoinLineAdvances
  <2>2. CASE HGetAll(h)  BY <1>1, <1>2, <2>2, HGetAllAdvances
  <2>3. CASE \E r \in Room : \E p \in Ids[h[1]] : JoinRoom(h, r, p)
    BY <1>1, <2>3, RequestAdvances
  <2> QED  BY <1>2, <2>1, <2>2, <2>3 DEF JoinStep
<1>3. CASE LeaveRoom(h) \/ (h = D(h[1]) /\ Disconnect(h[1]))  BY <1>1, <1>3, RequestAdvances
<1>4. CASE HGet(h)  BY <1>1, <1>4, HGetAdvances
<1>5. CASE Check(h)  BY <1>1, <1>5, CheckAdvances
<1>6. CASE \E d \in Socket : RemoveStep(h, d)  BY <1>1, <1>6, RemoveAdvances
<1>7. CASE \E d \in Socket : Fail(h, d)  BY <1>1, <1>7, FailAdvances
<1> QED  BY <1>2, <1>3, <1>4, <1>5, <1>6, <1>7 DEF Moves

\* A removal's step, as its handler sees it.
LEMMA RemoveStepIs ==
  ASSUME TypeOK, NEW h \in Handler, NEW d \in Socket, RemoveStep(h, d)
  PROVE  /\ rm[h][d] # "none" /\ rm'[h][d] # "hdel"
         /\ \A e \in Socket \ {d} : rm'[h][e] = rm[h][e]
         /\ rm'[h][d] # "none" => \/ rm[h][d] = "hdel" /\ rm'[h][d] = "hlen"
                                  \/ /\ rm[h][d] = "hlen" /\ rm'[h][d] = "del"
                                     /\ Entries(loc[h].room) = {}
         /\ \/ pc'[h] = pc[h] /\ (pc[h] # "remove" \/ rm'[h] # NoRemoval)
               /\ (loc'[h] = loc[h] \/ pc[h] = "idle")
            \/ pc[h] = "remove" /\ rm'[h] = NoRemoval /\ AfterRemovals(h)
<1>1. /\ rm \in [Handler -> [Socket -> RmOf]] /\ pc \in [Handler -> PcOf]
  BY DEF TypeOK
<1>2. CASE HDel(h, d)
  <2>1. rm' = Removing(h, d, "hlen") /\ pc' = pc /\ loc' = loc /\ rm[h][d] = "hdel"
    BY <1>2 DEF HDel
  <2>2. rm'[h][d] = "hlen" /\ \A e \in Socket \ {d} : rm'[h][e] = rm[h][e]
    BY <1>1, <2>1, RemovingType DEF RmOf
  <2> QED  BY <2>1, <2>2 DEF NoRemoval
<1>3. CASE HLen(h, d)
  <2>1. rm[h][d] = "hlen"  BY <1>3 DEF HLen
  <2>2. CASE Removed(h, d)
    <3>1. rm'[h][d] = "none" /\ \A e \in Socket \ {d} : rm'[h][e] = rm[h][e]
      BY <2>1, <2>2, RemovedEffect
    <3>2. \/ /\ UNCHANGED pc
             /\ loc'[h] = loc[h] \/ pc[h] = "idle"
             /\ pc[h] # "remove" \/ rm'[h] # NoRemoval
          \/ rm'[h] = NoRemoval /\ pc[h] = "remove" /\ AfterRemovals(h)
      BY <2>1, <2>2, RemovedEffect
    <3> QED  BY <2>1, <3>1, <3>2
  <2>3. CASE /\ Entries(loc[h].room) = {} /\ rm' = Removing(h, d, "del")
             /\ pc' = pc /\ loc' = loc
    <3>1. rm'[h][d] = "del" /\ \A e \in Socket \ {d} : rm'[h][e] = rm[h][e]
      BY <1>1, <2>3, RemovingType DEF RmOf
    <3> QED  BY <2>1, <2>3, <3>1 DEF NoRemoval
  <2> QED  BY <1>3, <2>2, <2>3 DEF HLen
<1>4. CASE Del(h, d)
  <2>1. rm[h][d] = "del" /\ Removed(h, d)  BY <1>4 DEF Del
  <2>2. rm'[h][d] = "none" /\ \A e \in Socket \ {d} : rm'[h][e] = rm[h][e]
    BY <2>1, RemovedEffect
  <2>3. \/ /\ UNCHANGED pc
           /\ loc'[h] = loc[h] \/ pc[h] = "idle"
           /\ pc[h] # "remove" \/ rm'[h] # NoRemoval
        \/ rm'[h] = NoRemoval /\ pc[h] = "remove" /\ AfterRemovals(h)
    BY <2>1, RemovedEffect
  <2> QED  BY <2>1, <2>2, <2>3
<1> QED  BY <1>2, <1>3, <1>4 DEF RemoveStep

\* What ends when its removals have ended waits no more.
LEMMA AfterIs ==
  ASSUME TypeOK, NEW h \in Handler, AfterRemovals(h)
  PROVE  pc'[h] \in {"idle", "check"} /\ (h[2] = "join" => pc'[h] = "idle")
<1>1. pc \in [Handler -> PcOf] /\ h[1] \in Socket  BY HandlerType DEF TypeOK
<1>2. CASE Announce(h, loc[h].seen)
  BY <1>1, <1>2 DEF Announce
<1>3. CASE /\ h[2] = "leave" \/ h[2] = "disconnect"
           /\ pc' = [pc EXCEPT ![h] = IF loc[h].peer # None THEN "check" ELSE "idle"]
  BY <1>1, <1>3, Lines
<1> QED  BY <1>2, <1>3 DEF AfterRemovals

-----------------------------------------------------------------------------
\* A handler that awaits removals has some left.
Waiting == \A h \in Handler : pc[h] = "remove" => rm[h] # NoRemoval

LEMMA WaitingInit == Init => Waiting
BY DEF Init, Waiting

LEMMA WaitingNext ==
  ASSUME TypeOK, HandlersOK, Waiting, [Next]_vars
  PROVE  Waiting'
<1> SUFFICES ASSUME NEW h \in Handler, pc'[h] = "remove"
             PROVE  rm'[h] # NoRemoval
  BY DEF Waiting
<1>1. /\ rm \in [Handler -> [Socket -> RmOf]] /\ pc \in [Handler -> PcOf]
      /\ h[1] \in Socket
  BY HandlerType DEF TypeOK
<1>2. CASE Restart  BY <1>2 DEF Restart
<1>3. CASE pc'[h] = pc[h] /\ rm'[h] = rm[h]  BY <1>3 DEF Waiting
<1>4. CASE Silent
  BY <1>3, <1>4 DEF Silent, Connect, RoomExpires, vars
<1>5. ASSUME NEW g \in Handler \ {h}, Moves(g)  PROVE rm'[h] # NoRemoval
  BY <1>3, <1>5, OthersRest
<1>6. CASE Moves(h)
  <2>1. CASE JoinStep(h)
    <3>1. CASE HExists(h) \/ HSet(h) \/ Expire(h)
      <4>1. pc'[h] # "remove"
        BY <1>1, <2>1, <3>1 DEF HExists, HSet, Expire
      <4> QED  BY <4>1
    <3>2. CASE HGetAll(h)
      <4>1. CASE Dead(loc[h].room) = {}
        <5>1. pc'[h] = "idle"  BY <1>1, <2>1, <3>2, <4>1 DEF HGetAll, Announce
        <5> QED  BY <5>1
      <4>2. CASE Dead(loc[h].room) # {}
        <5>1. rm'[h] = [d \in Socket |-> IF d \in Dead(loc[h].room) THEN "hdel" ELSE "none"]
          BY <1>1, <2>1, <3>2, <4>2 DEF HGetAll
        <5>2. PICK d \in Socket : d \in Dead(loc[h].room)  BY <4>2 DEF Dead, Entries
        <5> QED  BY <5>1, <5>2 DEF NoRemoval
      <4> QED  BY <4>1, <4>2
    <3> QED  BY <2>1, <3>1, <3>2 DEF JoinStep
  <2>2. CASE \E r \in Room : \E p \in Ids[h[1]] : JoinRoom(h, r, p)
    <3>1. pc'[h] = "hexists"  BY <1>1, <2>2 DEF JoinRoom
    <3> QED  BY <3>1
  <2>3. CASE LeaveRoom(h)
    <3>1. pc' = pc \/ pc' = [pc EXCEPT ![h] = "hget"]  BY <2>3 DEF LeaveRoom
    <3>2. pc'[h] = pc[h] /\ rm'[h] = rm[h]  BY <1>1, <2>3, <3>1 DEF LeaveRoom
    <3> QED  BY <1>3, <3>2
  <2>4. CASE h = D(h[1]) /\ Disconnect(h[1])
    <3>1. pc'[h] = "hget"  BY <1>1, <2>4 DEF Disconnect
    <3> QED  BY <3>1
  <2>5. CASE HGet(h)
    <3>1. rm' = Removing(h, h[1], "hdel")  BY <2>5 DEF HGet
    <3>2. rm'[h][h[1]] = "hdel"  BY <1>1, <3>1, RemovingType DEF RmOf
    <3> QED  BY <1>1, <3>2 DEF NoRemoval
  <2>6. CASE Check(h)
    <3>1. pc'[h] = "idle"  BY <1>1, <2>6 DEF Check
    <3> QED  BY <3>1
  <2>7. ASSUME NEW d \in Socket, RemoveStep(h, d)  PROVE rm'[h] # NoRemoval
    BY <2>7, RemoveStepIs, AfterIs
  <2>8. ASSUME NEW d \in Socket, Fail(h, d)  PROVE rm'[h] # NoRemoval
    <3>1. pc'[h] = "idle"  BY <1>1, <2>8 DEF Fail
    <3> QED  BY <3>1
  <2> QED  BY <1>6, <2>1, <2>2, <2>3, <2>4, <2>5, <2>6, <2>7, <2>8 DEF Moves
<1> QED  BY <1>2, <1>4, <1>5, <1>6, MoverIs

-----------------------------------------------------------------------------
(* What a join sees.                                                       *)

\* What may happen to a join handler.
LEMMA JoinMoves ==
  ASSUME TypeOK, HandlersOK, [Next]_vars, NEW s \in Socket, ~Restart
  PROVE  \/ pc'[J(s)] = pc[J(s)] /\ loc'[J(s)] = loc[J(s)] /\ rm'[J(s)] = rm[J(s)]
         \/ (\E r \in Room : \E p \in Ids[s] : JoinRoom(J(s), r, p)) \/ JoinStep(J(s))
         \/ \E d \in Socket : RemoveStep(J(s), d) \/ Fail(J(s), d)
<1>1. J(s) \in Handler /\ J(s)[1] = s /\ J(s) # L(s) /\ J(s) # D(s)  BY HandlerType, Lines
<1>2. pc[J(s)] \notin {"hget", "check"} /\ ~LeaveRoom(J(s))
  BY <1>1, Lines DEF HandlersOK, LeaveRoom
<1>3. CASE Silent  BY <1>3 DEF Silent, Connect, RoomExpires, vars
<1>4. CASE \E h \in Handler \ {J(s)} : Moves(h)  BY <1>1, <1>4, OthersRest
<1>5. CASE Moves(J(s))  BY <1>1, <1>2, <1>5 DEF Moves, HGet, Check
<1> QED  BY <1>1, <1>3, <1>4, <1>5, MoverIs

\* A socket that is open was open, or opens now.
LEMMA WasOpen ==
  ASSUME TypeOK, [Next]_vars, NEW s \in Socket, conn'[s] = "up"
  PROVE  conn[s] \in {"new", "up"}
<1>1. conn \in [Socket -> {"new", "up", "down"}]  BY DEF TypeOK
<1>2. CASE conn' = conn  BY <1>1, <1>2
<1>3. CASE \E t \in Socket : Connect(t) \/ Disconnect(t)
  BY <1>1, <1>3 DEF Connect, Disconnect
<1>4. CASE Restart  BY <1>1, <1>4 DEF Restart
<1> QED  BY <1>2, <1>3, <1>4
  DEF Next, vars, JoinRoom, LeaveRoom, JoinStep, HExists, HSet, Expire, HGetAll, HGet,
      RemoveStep, HDel, HLen, Del, Check, Fail, RoomExpires

\* A join that runs on: the socket stands where it stood.
LEMMA JoiningOn ==
  ASSUME TypeOK, Inv, [Next]_vars, NEW t \in Socket \ excused', conn'[t] = "up",
         pc[J(t)] # "idle", pc'[J(t)] # "idle"
  PROVE  /\ t \notin excused /\ conn[t] = "up" /\ Joining(t) /\ Joining(t)' /\ ~Restart
         /\ want'[t] = want[t] /\ self'[t] = self[t]
<1>1. /\ J(t) \in Handler /\ Busy(J(t)) /\ Busy(J(t))' /\ HandlersOK /\ LanesOK /\ ConnectedOK /\ StagesOK
      /\ StagesOK' /\ HandlersOK' /\ TypeOK'
  <2>1. HandlersOK /\ LanesOK /\ ConnectedOK /\ StagesOK  BY DEF Inv
  <2>2. StagesOK' /\ HandlersOK' /\ TypeOK'  BY InvNext DEF Inv
  <2>3. Busy(J(t)) /\ Busy(J(t))'  BY DEF Busy
  <2> QED  BY <2>1, <2>2, <2>3, HandlerType
<1>2. t \notin excused /\ conn[t] = "up"
  <2>1. t \notin excused  BY ExcusedGrows
  <2>2. conn[t] # "new"  BY <1>1, Lines DEF ConnectedOK
  <2> QED  BY <2>1, <2>2, WasOpen
<1>3. Joining(t)
  <2>1. Stage(t)  BY <1>1, <1>2 DEF StagesOK
  <2> QED  BY <1>1, <1>2, <2>1, StageOf
<1>4. Joining(t)'
  <2>1. Stage(t)'  BY <1>1 DEF StagesOK
  <2>2. ~Outside(t)' /\ ~Member(t)' /\ ~Leaving(t)'  BY <1>1 DEF Outside, Member, Leaving
  <2> QED  BY <2>1, <2>2 DEF Stage
<1>5. ~Restart  BY <1>1 DEF Restart
<1>6. loc'[J(t)].room = loc[J(t)].room /\ loc'[J(t)].peer = loc[J(t)].peer
  <2>1. loc[J(t)] \in Locals /\ loc \in [Handler -> Locals] /\ pc \in [Handler -> PcOf]
    BY <1>1 DEF TypeOK
  <2>2. CASE \E r \in Room : \E p \in Ids[t] : JoinRoom(J(t), r, p)
    BY <1>1, <2>2 DEF JoinRoom, First
  <2>3. CASE HExists(J(t)) \/ HSet(J(t)) \/ Expire(J(t))
    BY <2>3 DEF HExists, HSet, Expire
  <2>4. CASE HGetAll(J(t))
    <3>1. Dead(loc[J(t)].room) # {}
      <4>1. Dead(loc[J(t)].room) = {} => pc' = [pc EXCEPT ![J(t)] = "idle"]
        BY <2>4 DEF HGetAll, Announce
      <4> QED  BY <1>1, <2>1, <4>1
    <3>2. \E seen : loc' = [loc EXCEPT ![J(t)].seen = seen]  BY <2>4, <3>1 DEF HGetAll
    <3> QED  BY <1>1, <2>1, <3>2 DEF Locals
  <2>5. CASE \E d \in Socket : RemoveStep(J(t), d)
    <3>1. J(t)[2] = "join"  BY Lines
    <3> QED  BY <1>1, <2>5, <3>1, RemoveStepIs, AfterIs
  <2>6. CASE \E d \in Socket : Fail(J(t), d)
    <3>1. pc' = [pc EXCEPT ![J(t)] = "idle"]  BY <2>6 DEF Fail
    <3> QED  BY <1>1, <2>1, <3>1
  <2> QED  BY <1>1, <1>5, <2>2, <2>3, <2>4, <2>5, <2>6, JoinMoves DEF JoinStep
<1>7. want'[t] = want[t] /\ self'[t] = self[t]  BY <1>3, <1>4, <1>6 DEF Joining
<1> QED  BY <1>2, <1>3, <1>4, <1>5, <1>7

\* How a client comes to be told join-success: by a join of its own.
Ends(h) ==
  /\ h[2] = "join"
  /\ \/ HGetAll(h) /\ Announce(h, {redis[loc[h].room][d] : d \in Entries(loc[h].room)}
                                    \ {loc[h].peer})
        /\ Dead(loc[h].room) = {}
     \/ pc[h] = "remove" /\ Announce(h, loc[h].seen)

LEMMA Joins ==
  ASSUME TypeOK, HandlersOK, [Next]_vars, NEW t \in Socket, ~joined[t], joined'[t]
  PROVE  /\ ~Restart
         /\ \E h \in Handler : h[1] = t /\ loc[h].room = want[t] /\ Ends(h)
<1>1. joined \in [Socket -> BOOLEAN] /\ \A h \in Handler : h[1] \in Socket
  BY HandlerType DEF TypeOK
<1>2. ~Restart  BY DEF Restart
<1>3. \A h \in Handler : \A seen : Announce(h, seen) => h[1] = t /\ loc[h].room = want[t]
  BY <1>1 DEF Announce
<1>4. CASE \E h \in Handler : HGetAll(h)
  <2>1. PICK h \in Handler : HGetAll(h)  BY <1>4
  <2>2. Dead(loc[h].room) = {}
    <3>1. Dead(loc[h].room) # {} => joined' = joined  BY <2>1 DEF HGetAll
    <3> QED  BY <3>1
  <2> DEFINE r == loc[h].room
  <2>3. Announce(h, {redis[r][d] : d \in Entries(r) \ Dead(r)} \ {loc[h].peer})
    BY <2>1, <2>2 DEF HGetAll
  <2>4. h[1] = t /\ loc[h].room = want[t]  BY <1>3, <2>3
  <2>5. Entries(r) \ Dead(r) = Entries(r)  BY <2>2
  <2>6. h[2] = "join"  BY <2>1, JoinLine DEF JoinStep
  <2> QED  BY <1>2, <2>1, <2>2, <2>3, <2>4, <2>5, <2>6 DEF Ends
<1>6. CASE \E h \in Handler, d \in Socket : RemoveStep(h, d)
  <2>1. PICK h \in Handler, d \in Socket : RemoveStep(h, d)  BY <1>6
  <2>2. joined' = joined \/ (AfterRemovals(h) /\ pc[h] = "remove")
    BY <2>1 DEF RemoveStep, HDel, HLen, Del, Removed
  <2>3. AfterRemovals(h) /\ pc[h] = "remove"  BY <2>2
  <2>4. h[2] = "join" /\ Announce(h, loc[h].seen)  BY <2>3 DEF AfterRemovals
  <2> QED  BY <1>2, <1>3, <2>3, <2>4 DEF Ends
<1>7. CASE \A s \in Socket : joined'[s] => joined[s]  BY <1>7
<1>8. \/ \E h \in Handler : HGetAll(h)
      \/ \E h \in Handler, d \in Socket : RemoveStep(h, d)
      \/ \A s \in Socket : joined'[s] => joined[s]
  BY <1>1, <1>2 DEF Next, vars, Connect, JoinRoom, LeaveRoom, Disconnect, JoinStep, HExists, HSet,
     Expire, HGet, Check, Fail, RoomExpires
<1> QED  BY <1>4, <1>6, <1>7, <1>8

\* A socket that nothing spoilt runs one join.
LEMMA JoinsAlone ==
  ASSUME TypeOK, HandlersOK, LanesOK, [Next]_vars, NEW t \in Socket \ excused,
         ~joined[t], joined'[t]
  PROVE  ~Restart /\ loc[J(t)].room = want[t] /\ Ends(J(t))
<1>1. PICK h \in Handler : h[1] = t /\ loc[h].room = want[t] /\ Ends(h)  BY Joins
<1>2. Busy(h)  BY <1>1 DEF Ends, HGetAll, Busy
<1>3. h = J(t)  BY <1>1, <1>2, StepAlone DEF Ends
<1> QED  BY <1>1, <1>3, Joins

\* The join of s, which awaits removals, has not seen the entry of t.
Misses(s, t) ==
  /\ conn[s] = "up" /\ conn[t] = "up" /\ pc[J(s)] = "remove"
  /\ want[t] = want[s] /\ self[t] # self[s] /\ self[t] \notin loc[J(s)].seen
\* The join of t ends after it: t adds its entry after that, and each command it then waits
\* for is behind those the join of s waits for.
Behind(s, t) ==
  /\ ~joined[t] /\ pc[J(t)] # "remove"
  /\ pc[J(t)] = "expire" =>
       \A d \in Socket : rm[J(s)][d] = "hdel" => Before(<<J(s), d>>, Own(J(t)))
  /\ pc[J(t)] = "hgetall" =>
       \A d \in Socket : /\ rm[J(s)][d] # "hdel"
                         /\ rm[J(s)][d] # "none" => Before(<<J(s), d>>, Own(J(t)))
SeenOK == \A s, t \in Socket \ excused : Misses(s, t) => Behind(s, t)

\* Of two joins in one room, one has added its entry when the other asks for them.
LEMMA Asked ==
  ASSUME TypeOK, Inv, [Next]_vars, NEW s \in Socket \ excused', NEW t \in Socket \ excused',
         Misses(s, t)', pc[J(s)] # "remove"
  PROVE  /\ HGetAll(J(s)) /\ ~joined[t] /\ pc[J(t)] \notin {"expire", "hgetall", "remove"}
         /\ joined'[t] = joined[t] /\ pc'[J(t)] = pc[J(t)]
<1>1. /\ J(s) \in Handler /\ J(t) \in Handler /\ J(s)[1] = s /\ pc \in [Handler -> PcOf]
      /\ loc \in [Handler -> Locals] /\ rm \in [Handler -> [Socket -> RmOf]]
      /\ HandlersOK /\ LanesOK /\ ConnectedOK /\ StagesOK
  BY HandlerType, Lines DEF TypeOK, Inv
<1>2. pc'[J(s)] = "remove" /\ conn'[s] = "up" /\ ~Restart
  BY <1>1 DEF Misses, Restart
<1>3. HGetAll(J(s))
  <2>1. CASE \E r \in Room : \E p \in Ids[s] : JoinRoom(J(s), r, p)
    BY <1>1, <1>2, <2>1 DEF JoinRoom
  <2>2. CASE HExists(J(s)) \/ HSet(J(s)) \/ Expire(J(s))
    BY <1>1, <1>2, <2>2 DEF HExists, HSet, Expire
  <2>3. CASE \E d \in Socket : RemoveStep(J(s), d)
    BY <1>1, <1>2, <2>3, RemoveStepIs, AfterIs
  <2>4. CASE \E d \in Socket : Fail(J(s), d)
    BY <1>1, <1>2, <2>4 DEF Fail
  <2> QED  BY <1>1, <1>2, <2>1, <2>2, <2>3, <2>4, JoinMoves DEF JoinStep
<1> DEFINE r == loc[J(s)].room
<1>4. Dead(r) # {}
  <2>1. Dead(r) = {} => pc' = [pc EXCEPT ![J(s)] = "idle"]  BY <1>3 DEF HGetAll, Announce
  <2> QED  BY <1>1, <1>2, <2>1
<1>5. loc' = [loc EXCEPT ![J(s)].seen = {redis[r][d] : d \in Entries(r) \ Dead(r)} \ {loc[J(s)].peer}]
      /\ pc' = [pc EXCEPT ![J(s)] = "remove"]
      /\ UNCHANGED <<redis, adapter, conn, self, want, joined, excused>>
  BY <1>3, <1>4 DEF HGetAll
<1>6. loc'[J(s)].seen = {redis[r][d] : d \in Entries(r) \ Dead(r)} \ {loc[J(s)].peer}
  BY <1>1, <1>5 DEF Locals
<1>7. pc[J(s)] = "hgetall" /\ s \notin excused /\ conn[s] = "up" /\ Joining(s)
  <2>1. pc[J(s)] = "hgetall"  BY <1>3 DEF HGetAll
  <2> QED  BY <1>2, <2>1, JoiningOn
<1>8. t # s /\ t \notin excused /\ conn[t] = "up" /\ Stage(t)
      /\ want[t] = want[s] /\ self[t] # self[s] /\ self[t] \notin loc'[J(s)].seen
  <2>1. /\ want[t] = want[s] /\ self[t] # self[s] /\ self[t] \notin loc'[J(s)].seen /\ conn[t] = "up"
    BY <1>5 DEF Misses
  <2>2. t \notin excused  BY <1>5
  <2> QED  BY <1>1, <2>1, <2>2 DEF StagesOK
<1>9. want[s] = r /\ self[s] = loc[J(s)].peer /\ r \in Room
  <2>1. want[s] \in Room
    BY <1>1, <1>7 DEF Joining, TypeOK, Busy
  <2> QED  BY <1>7, <2>1 DEF Joining
<1>10. ~(redis[r][t] = self[t] /\ self[t] \in Peer /\ r \in adapter[t])
  <2> SUFFICES ASSUME redis[r][t] = self[t], self[t] \in Peer, r \in adapter[t]  PROVE FALSE
    OBVIOUS
  <2>1. t \in Entries(r) \ Dead(r)  BY NoneAssumption DEF Entries, Dead
  <2> QED  BY <1>6, <1>8, <1>9, <2>1
<1>11. ~joined[t]
  <2> SUFFICES ASSUME joined[t]  PROVE FALSE  OBVIOUS
  <2>1. Member(t)  BY <1>1, <1>8, JoinedIsMember
  <2> QED  BY <1>8, <1>9, <1>10, <2>1 DEF Member
<1>12. pc[J(t)] \notin {"expire", "hgetall", "remove"}
  <2> SUFFICES ASSUME pc[J(t)] \in {"expire", "hgetall", "remove"}  PROVE FALSE  OBVIOUS
  <2>1. Joining(t)  BY <1>1, <1>8, StageOf DEF Busy
  <2> QED  BY <1>8, <1>9, <1>10, <2>1 DEF Joining
<1>13. joined'[t] = joined[t] /\ pc'[J(t)] = pc[J(t)]
  <2>1. J(t) # J(s)  BY <1>8, Lines
  <2> QED  BY <1>1, <1>5, <2>1
<1> QED  BY <1>3, <1>11, <1>12, <1>13

\* While s awaits its removals, whoever it misses stays behind it.
LEMMA BehindNext ==
  ASSUME Pipelined, TypeOK, Inv, Queued, Waiting, [Next]_vars,
         NEW s \in Socket \ excused', NEW t \in Socket \ excused',
         Misses(s, t)', pc[J(s)] = "remove", Misses(s, t) => Behind(s, t)
  PROVE  Behind(s, t)'
<1>1. /\ J(s) \in Handler /\ J(t) \in Handler /\ J(s)[1] = s /\ J(t)[1] = t
      /\ pc \in [Handler -> PcOf] /\ rm \in [Handler -> [Socket -> RmOf]]
      /\ joined \in [Socket -> BOOLEAN]
      /\ HandlersOK /\ LanesOK /\ ConnectedOK /\ StagesOK
      /\ Own(J(t)) \in Command /\ \A d \in Socket : <<J(s), d>> \in Command
  BY HandlerType, Lines DEF TypeOK, Inv
<1>2. /\ TypeOK' /\ Inv' /\ HandlersOK' /\ ConnectedOK' /\ StagesOK'
  BY InvNext DEF Inv
<1>3. /\ pc'[J(s)] = "remove" /\ conn'[s] = "up" /\ conn'[t] = "up" /\ want'[t] = want'[s]
      /\ self'[t] # self'[s] /\ self'[t] \notin loc'[J(s)].seen
  BY DEF Misses
<1>4. /\ s \notin excused /\ conn[s] = "up" /\ Joining(s) /\ Joining(s)' /\ ~Restart
      /\ want'[s] = want[s] /\ self'[s] = self[s]
  BY <1>1, <1>3, JoiningOn
<1>5. loc'[J(s)] = loc[J(s)] /\ (Moves(J(s)) => \E d \in Socket : RemoveStep(J(s), d))
  <2>0. ~HGet(J(s)) /\ ~Check(J(s)) /\ ~LeaveRoom(J(s))
    BY <1>1, Lines DEF HGet, Check, LeaveRoom
  <2>1. CASE (\E r \in Room : \E p \in Ids[s] : JoinRoom(J(s), r, p)) \/ JoinStep(J(s))
    BY <1>3, <2>1 DEF JoinRoom, First, JoinStep, HExists, HSet, Expire, HGetAll, Busy
  <2>2. CASE \E d \in Socket : RemoveStep(J(s), d)
    BY <1>1, <1>3, <2>2, RemoveStepIs, AfterIs
  <2>3. CASE \E d \in Socket : Fail(J(s), d)
    BY <1>1, <1>3, <2>3 DEF Fail
  <2>4. \/ loc'[J(s)] = loc[J(s)]
        \/ (\E r \in Room : \E p \in Ids[s] : JoinRoom(J(s), r, p)) \/ JoinStep(J(s))
        \/ \E d \in Socket : RemoveStep(J(s), d) \/ Fail(J(s), d)
    BY <1>1, <1>4, JoinMoves
  <2>5. Moves(J(s)) => \/ (\E r \in Room : \E p \in Ids[s] : JoinRoom(J(s), r, p)) \/ JoinStep(J(s))
                       \/ \E d \in Socket : RemoveStep(J(s), d) \/ Fail(J(s), d)
    BY <1>1, <2>0, Lines DEF Moves
  <2> QED  BY <2>1, <2>2, <2>3, <2>4, <2>5
<1>6. s # t  BY <1>3
<1>7. J(s) # J(t) /\ t \notin excused /\ excused \subseteq excused'
  BY <1>6, ExcusedGrows, Lines
<1>8. PICK d \in Socket : rm[J(s)][d] # "none"
  <2>1. rm[J(s)] # NoRemoval /\ rm[J(s)] \in [Socket -> RmOf]  BY <1>1 DEF Waiting
  <2> QED  BY <2>1 DEF NoRemoval
\* If t was missed when its join was about to ask, its command cannot be the next one.
<1>9. ASSUME want[t] = want[s], self[t] # self[s], self[t] \notin loc[J(s)].seen, conn[t] = "up",
             pc[J(t)] = "hgetall", Advances({Own(J(t))})
      PROVE  FALSE
  <2>1. Misses(s, t)  BY <1>3, <1>4, <1>9 DEF Misses
  <2>2. Before(<<J(s), d>>, Own(J(t)))  BY <1>8, <1>9, <2>1 DEF Behind
  <2> QED  BY <1>1, <1>9, <2>2 DEF Advances
<1>10. ~joined'[t]
  <2> SUFFICES ASSUME joined'[t]  PROVE FALSE  OBVIOUS
  <2>1. CASE joined[t]
    <3>1. self'[t] = self[t] /\ want'[t] = want[t]  BY <1>1, <1>7, <2>1, StaysMember
    <3>2. conn[t] = "up"  BY <1>1, <1>7, <2>1, JoinedIsMember
    <3>3. Misses(s, t)  BY <1>3, <1>4, <1>5, <3>1, <3>2 DEF Misses
    <3> QED  BY <2>1, <3>3 DEF Behind
  <2>2. CASE ~joined[t]
    <3>1. self' = self /\ want' = want  BY <1>1, <2>2, BecomesMember
    <3>2. pc[J(t)] = "remove" \/ HGetAll(J(t))  BY <1>1, <1>7, <2>2, JoinsAlone DEF Ends
    <3>3. pc[J(t)] # "idle"  BY <3>2 DEF HGetAll
    <3>4. conn[t] = "up"
      <4>1. conn[t] # "new"  BY <1>1, <3>3 DEF ConnectedOK, Busy
      <4> QED  BY <1>3, <4>1, WasOpen
    <3>5. Misses(s, t)  BY <1>3, <1>4, <1>5, <3>1, <3>4 DEF Misses
    <3>6. HGetAll(J(t))  BY <3>2, <3>5 DEF Behind
    <3>7. Advances({Own(J(t))})  BY <1>1, <3>6, HGetAllAdvances
    <3>8. pc[J(t)] = "hgetall"  BY <3>6 DEF HGetAll
    <3> QED  BY <1>9, <3>5, <3>7, <3>8 DEF Misses
  <2> QED  BY <2>1, <2>2
\* The join of t runs on: then it was missed before.
<1>11. ASSUME pc[J(t)] # "idle", pc'[J(t)] # "idle"
       PROVE  /\ Misses(s, t) /\ Behind(s, t) /\ Joining(t)
  <2>1. /\ conn[t] = "up" /\ Joining(t) /\ want'[t] = want[t] /\ self'[t] = self[t]
    BY <1>3, <1>11, JoiningOn
  <2>2. Misses(s, t)  BY <1>3, <1>4, <1>5, <2>1 DEF Misses
  <2> QED  BY <2>1, <2>2
<1>12. CASE pc'[J(t)] \notin {"expire", "hgetall", "remove"}
  BY <1>10, <1>12 DEF Behind
<1>13. CASE pc'[J(t)] = pc[J(t)] /\ pc[J(t)] \in {"expire", "hgetall", "remove"}
  <2>1. Misses(s, t) /\ Behind(s, t) /\ Joining(t)  BY <1>11, <1>13
  <2>2. pc[J(t)] # "remove" /\ pc'[J(t)] # "remove"  BY <1>13, <2>1 DEF Behind
  <2>3. ~Restart /\ rm[J(t)] = NoRemoval  BY <1>1, <1>4, <1>13, <2>2, OwnLine
  <2>4. \/ rm'[J(s)] = rm[J(s)]
           /\ \E done : Advances(done) /\ \A c \in Socket : <<J(s), c>> \notin done
        \/ \E c \in Socket : RemoveStep(J(s), c)
    <3>1. CASE Silent
      <4>1. Advances({})  BY <3>1, SilentAdvances DEF Silent
      <4>2. rm' = rm  BY <3>1 DEF Silent, Connect, RoomExpires, vars
      <4> QED  BY <4>1, <4>2
    <3>2. ~Moves(J(t))
      <4> SUFFICES ASSUME Moves(J(t))  PROVE FALSE  OBVIOUS
      <4>1. CASE HExists(J(t)) \/ HSet(J(t)) \/ Expire(J(t)) \/ HGetAll(J(t))
        <5>1. HExists(J(t)) => pc[J(t)] = "hexists"  BY DEF HExists
        <5>2. HSet(J(t)) => pc[J(t)] = "hset"  BY DEF HSet
        <5>3. Expire(J(t)) => pc[J(t)] = "expire" /\ pc'[J(t)] = "hgetall"  BY <1>1 DEF Expire
        <5>4. HGetAll(J(t)) => pc[J(t)] = "hgetall" /\ pc'[J(t)] # "hgetall"
          <6>1. HGetAll(J(t)) => \/ pc' = [pc EXCEPT ![J(t)] = "remove"]
                              \/ pc' = [pc EXCEPT ![J(t)] = "idle"]
            BY DEF HGetAll, Announce
          <6> QED  BY <1>1, <6>1 DEF HGetAll
        <5> QED  BY <1>13, <4>1, <5>1, <5>2, <5>3, <5>4
      <4>2. CASE \E r \in Room : \E p \in Ids[t] : JoinRoom(J(t), r, p)
        BY <1>13, <4>2 DEF JoinRoom, First, Busy
      <4>3. CASE HGet(J(t)) \/ Check(J(t)) \/ LeaveRoom(J(t))
        BY <1>13, <4>3, Lines DEF HGet, Check, LeaveRoom
      <4>4. CASE \E c \in Socket : RemoveStep(J(t), c)
        <5>1. PICK c \in Socket : RemoveStep(J(t), c)  BY <4>4
        <5>2. rm[J(t)][c] # "none"  BY <1>1, <5>1, RemoveStepIs
        <5> QED  BY <2>3, <5>2 DEF NoRemoval
      <4>5. CASE \E c \in Socket : Fail(J(t), c)
        BY <1>1, <1>13, <4>5 DEF Fail
      <4> QED  BY <1>1, <4>1, <4>2, <4>3, <4>4, <4>5, Lines DEF Moves, JoinStep
    <3>3. CASE \E h \in Handler : Moves(h)
      <4>1. PICK h \in Handler : Moves(h)  BY <3>3
      <4>2. CASE h = J(s)  BY <1>1, <1>5, <4>1, <4>2
      <4>3. CASE h # J(s)
        <5>1. rm'[J(s)] = rm[J(s)]  BY <1>1, <4>1, <4>3, OthersRest
        <5>2. PICK done \in SUBSET ({h} \X Socket) : Advances(done)
          BY <1>1, <4>1, MovesAdvances
        <5>3. \A c \in Socket : <<J(s), c>> \notin done  BY <1>1, <4>3, <5>2
        <5> QED  BY <5>1, <5>2, <5>3
      <4> QED  BY <4>2, <4>3
    <3> QED  BY <2>3, <3>1, <3>3, MoverIs
  <2>5. CASE rm'[J(s)] = rm[J(s)]
             /\ \E done : Advances(done) /\ \A c \in Socket : <<J(s), c>> \notin done
    <3>1. PICK done : Advances(done) /\ \A c \in Socket : <<J(s), c>> \notin done  BY <2>5
    <3>2. \A c \in Socket : Before(<<J(s), c>>, Own(J(t))) => Before(<<J(s), c>>, Own(J(t)))'
      BY <1>1, <3>1 DEF Advances
    <3>3. \A c \in Socket : rm'[J(s)][c] = rm[J(s)][c]  BY <2>5
    <3> QED  BY <1>10, <1>13, <2>1, <2>2, <3>2, <3>3 DEF Behind
  <2>6. ASSUME NEW c \in Socket, RemoveStep(J(s), c)  PROVE Behind(s, t)'
    <3>1. /\ rm[J(s)][c] # "none" /\ rm'[J(s)][c] # "hdel"
          /\ \A e \in Socket \ {c} : rm'[J(s)][e] = rm[J(s)][e]
          /\ rm'[J(s)][c] # "none" /\ rm[J(s)][c] # "hdel" => Entries(loc[J(s)].room) = {}
      <4>1. J(s) \in Handler /\ TypeOK  BY <1>1
      <4>2. /\ rm[J(s)][c] # "none" /\ rm'[J(s)][c] # "hdel"
            /\ \A e \in Socket \ {c} : rm'[J(s)][e] = rm[J(s)][e]
        BY <2>6, <4>1, RemoveStepIs
      <4>3. rm'[J(s)][c] # "none" => \/ rm[J(s)][c] = "hdel"
                                     \/ Entries(loc[J(s)].room) = {}
        BY <2>6, <4>1, RemoveStepIs
      <4> QED  BY <4>2, <4>3
    <3>2. Advances({<<J(s), c>>})  BY <1>1, <2>6, RemoveAdvances
    <3>3. \A e \in Socket \ {c} :
            Before(<<J(s), e>>, Own(J(t))) => Before(<<J(s), e>>, Own(J(t)))'
      BY <1>1, <3>2 DEF Advances
    <3>4. pc[J(t)] = "hgetall" => Entries(loc[J(s)].room) # {}
      <4>1. loc[J(s)].room = want[t]  BY <1>4, <2>1 DEF Joining, Misses
      <4>2. pc[J(t)] = "hgetall" => redis[want[t]][t] = self[t] /\ self[t] \in Peer
        <5>1. want[t] \in Room
          <6>1. Busy(J(t))  BY <1>13 DEF Busy
          <6> QED  BY <1>1, <2>1, <6>1 DEF Joining, TypeOK
        <5> QED  BY <2>1, <5>1 DEF Joining
      <4> QED  BY <4>1, <4>2, NoneAssumption DEF Entries
    <3> QED  BY <1>10, <1>13, <2>1, <2>2, <3>1, <3>3, <3>4 DEF Behind
  <2> QED  BY <2>4, <2>5, <2>6
\* The join of t takes a step: its next command is behind all those that are there.
<1>14. CASE pc'[J(t)] # pc[J(t)] /\ pc'[J(t)] \in {"expire", "hgetall", "remove"}
  <2>1. \/ (\E r \in Room : \E p \in Ids[t] : JoinRoom(J(t), r, p)) \/ JoinStep(J(t))
        \/ \E c \in Socket : RemoveStep(J(t), c) \/ Fail(J(t), c)
    BY <1>1, <1>4, <1>14, JoinMoves
  <2>2. JoinStep(J(t))
    <3>1. ASSUME NEW r \in Room, NEW p \in Ids[t], JoinRoom(J(t), r, p)  PROVE FALSE
      <4>1. pc'[J(t)] = "hexists"  BY <1>1, <3>1 DEF JoinRoom
      <4> QED  BY <1>14, <4>1
    <3>2. ASSUME NEW c \in Socket, RemoveStep(J(t), c)  PROVE FALSE
      BY <1>1, <1>14, <3>2, RemoveStepIs, AfterIs
    <3>3. ASSUME NEW c \in Socket, Fail(J(t), c)  PROVE FALSE
      BY <1>1, <1>14, <3>3 DEF Fail
    <3> QED  BY <2>1, <3>1, <3>2, <3>3
  <2>3. pc[J(t)] # "idle" /\ pc'[J(t)] # "idle"
    BY <1>14, <2>2 DEF JoinStep, HExists, HSet, Expire, HGetAll
  <2>4. Misses(s, t) /\ Behind(s, t) /\ Joining(t)  BY <1>11, <2>3
  <2>5. rm'[J(s)] = rm[J(s)] /\ \A c \in Socket : Outstanding(<<J(s), c>>)'
                                  => Outstanding(<<J(s), c>>) /\ <<J(s), c>> # Own(J(t))
    <3>1. Moves(J(t))  BY <1>1, <2>2 DEF Moves
    <3>2. rm'[J(s)] = rm[J(s)]  BY <1>1, <1>7, <3>1, OthersRest
    <3> QED  BY <1>3, <1>7, <3>2 DEF Outstanding, Own, Misses
  <2>6. \A c \in Socket : rm'[J(s)][c] # "none" => Outstanding(<<J(s), c>>)
    BY <2>5 DEF Outstanding
  <2>7. ASSUME Advances({Own(J(t))}), pc'[J(t)] \notin {"idle", "remove"},
               NEW c \in Socket, rm'[J(s)][c] # "none"
        PROVE  Before(<<J(s), c>>, Own(J(t)))'
    <3>1. Outstanding(Own(J(t)))'  BY <1>1, <2>7 DEF Outstanding, Own
    <3>2. Outstanding(<<J(s), c>>) /\ <<J(s), c>> \notin {Own(J(t))}
      BY <1>7, <2>6, <2>7 DEF Own
    <3> QED  BY <1>1, <2>7, <3>1, <3>2 DEF Advances
  <2>8. CASE HExists(J(t)) \/ HSet(J(t)) \/ Expire(J(t))
    <3>1. Advances({Own(J(t))})  BY <1>1, <2>8, JoinLineAdvances
    <3>2. CASE HExists(J(t))
      <4>1. redis[loc[J(t)].room][t] = None
        <5>1. pc[J(t)] = "hexists"  BY <3>2 DEF HExists
        <5>2. Busy(J(t))  BY <5>1 DEF Busy
        <5> QED  BY <1>1, <2>4, <5>1, <5>2 DEF Joining, TypeOK
      <4>2. pc'[J(t)] = "hset"  BY <1>1, <3>2, <4>1 DEF HExists
      <4> QED  BY <1>14, <4>2
    <3>3. CASE HSet(J(t))
      <4>1. pc'[J(t)] = "expire"  BY <1>1, <3>3 DEF HSet
      <4>2. \A c \in Socket : rm'[J(s)][c] = "hdel" => Before(<<J(s), c>>, Own(J(t)))'
        BY <2>7, <3>1, <4>1
      <4> QED  BY <1>10, <4>1, <4>2 DEF Behind
    <3>4. CASE Expire(J(t))
      <4>1. pc'[J(t)] = "hgetall" /\ pc[J(t)] = "expire"  BY <1>1, <3>4 DEF Expire
      <4>2. \A c \in Socket : rm'[J(s)][c] # "none" => Before(<<J(s), c>>, Own(J(t)))'
        BY <2>7, <3>1, <4>1
      <4>3. ASSUME NEW c \in Socket, rm'[J(s)][c] = "hdel"  PROVE FALSE
        <5>1. rm[J(s)][c] = "hdel"  BY <2>5, <4>3
        <5>2. Before(<<J(s), c>>, Own(J(t)))  BY <2>4, <4>1, <5>1 DEF Behind
        <5> QED  BY <1>1, <3>1, <5>2 DEF Advances
      <4> QED  BY <1>10, <4>1, <4>2, <4>3 DEF Behind
    <3> QED  BY <2>8, <3>2, <3>3, <3>4
  <2>9. CASE HGetAll(J(t))
    <3>1. Advances({Own(J(t))})  BY <1>1, <2>9, HGetAllAdvances
    <3>2. pc[J(t)] = "hgetall"  BY <2>9 DEF HGetAll
    <3> QED  BY <1>9, <2>4, <3>1, <3>2 DEF Misses
  <2> QED  BY <2>2, <2>8, <2>9 DEF JoinStep
<1> QED  BY <1>12, <1>13, <1>14

LEMMA SeenNext ==
  ASSUME Pipelined, TypeOK, Inv, Queued, Waiting, SeenOK, [Next]_vars
  PROVE  SeenOK'
<1> SUFFICES ASSUME NEW s \in Socket \ excused', NEW t \in Socket \ excused', Misses(s, t)'
             PROVE  Behind(s, t)'
  BY DEF SeenOK
<1>1. CASE pc[J(s)] # "remove"
  <2>1. /\ HGetAll(J(s)) /\ ~joined[t] /\ pc[J(t)] \notin {"expire", "hgetall", "remove"}
        /\ joined'[t] = joined[t] /\ pc'[J(t)] = pc[J(t)]
    BY <1>1, Asked
  <2> QED  BY <2>1 DEF Behind
<1>2. CASE pc[J(s)] = "remove"
  <2>1. s \notin excused /\ t \notin excused  BY ExcusedGrows
  <2>2. Misses(s, t) => Behind(s, t)  BY <2>1 DEF SeenOK
  <2> QED  BY <1>2, <2>2, BehindNext
<1> QED  BY <1>1, <1>2

-----------------------------------------------------------------------------
(* Members list each other, in both directions and at every moment.        *)

Listing == \A s, t \in Socket \ excused : Together(s, t) => self[t] \in view[s]

\* What the join-success of s brings: the peers of all members.
LEMMA JoinSeesMembers ==
  ASSUME TypeOK, Inv, SeenOK, [Next]_vars, NEW s \in Socket \ excused', NEW t \in Socket \ excused',
         ~joined[s], joined'[s], joined[t], want[s] = want[t], self[t] # self[s]
  PROVE  self[t] \in view'[s]
<1>1. /\ TypeOK /\ HandlersOK /\ LanesOK /\ ConnectedOK /\ StagesOK /\ s \notin excused /\ t \notin excused
  BY ExcusedGrows DEF Inv
<1>2. /\ joined \in [Socket -> BOOLEAN] /\ view \in [Socket -> SUBSET Peer]
      /\ pc \in [Handler -> PcOf] /\ J(s) \in Handler
  BY HandlerType DEF TypeOK
<1>3. conn[t] = "up" /\ Member(t)  BY <1>1, JoinedIsMember
<1>4. ASSUME NEW seen, Announce(J(s), seen)
      PROVE  conn[s] = "up" /\ view'[s] = seen \ {self[s]}
  <2>1. conn[s] = "up"  BY <1>2, <1>4 DEF Announce
  <2>2. view' = [ToldJoined(loc[J(s)].room, loc[J(s)].peer) EXCEPT ![s] = seen \ {self[s]}]
    BY <1>4, <2>1 DEF Announce
  <2> QED  BY <2>1, <2>2 DEF ToldJoined
<1> DEFINE r == loc[J(s)].room
<1>5. /\ r = want[s]
      /\ \/ HGetAll(J(s)) /\ Announce(J(s), {redis[r][d] : d \in Entries(r)} \ {loc[J(s)].peer})
         \/ pc[J(s)] = "remove" /\ Announce(J(s), loc[J(s)].seen)
  BY <1>1, JoinsAlone DEF Ends
<1>6. CASE HGetAll(J(s)) /\ Announce(J(s), {redis[r][d] : d \in Entries(r)} \ {loc[J(s)].peer})
  <2>1. conn[s] = "up" /\ view'[s] = ({redis[r][d] : d \in Entries(r)} \ {loc[J(s)].peer}) \ {self[s]}
    BY <1>4, <1>6
  <2>2. pc[J(s)] = "hgetall"  BY <1>6 DEF HGetAll
  <2>3. Joining(s)
    <3>1. Busy(J(s)) /\ Stage(s)  BY <1>1, <2>1, <2>2 DEF Busy, StagesOK
    <3> QED  BY <1>1, <3>1, StageOf
  <2>4. self[s] = loc[J(s)].peer  BY <2>3 DEF Joining
  <2>5. redis[r][t] = self[t] /\ self[t] # None
    BY <1>3, <1>5, NoneAssumption DEF Member
  <2>6. t \in Entries(r)  BY <2>5 DEF Entries
  <2> QED  BY <2>1, <2>4, <2>5, <2>6
<1>7. CASE pc[J(s)] = "remove" /\ Announce(J(s), loc[J(s)].seen)
  <2>1. conn[s] = "up" /\ view'[s] = loc[J(s)].seen \ {self[s]}  BY <1>4, <1>7
  <2>2. self[t] \in loc[J(s)].seen
    <3>1. Misses(s, t) => Behind(s, t)  BY <1>1 DEF SeenOK
    <3> QED  BY <1>3, <1>7, <2>1, <3>1 DEF Misses, Behind
  <2> QED  BY <2>1, <2>2
<1> QED  BY <1>5, <1>6, <1>7

LEMMA ListingNext ==
  ASSUME TypeOK, Inv, SeenOK, Listing, [Next]_vars
  PROVE  Listing'
<1> SUFFICES ASSUME NEW s \in Socket \ excused', NEW t \in Socket \ excused', Together(s, t)'
             PROVE  self'[t] \in view'[s]
  BY DEF Listing
<1>1. /\ TypeOK /\ HandlersOK /\ LanesOK /\ ConnectedOK /\ StagesOK /\ s \notin excused /\ t \notin excused
      /\ joined \in [Socket -> BOOLEAN]
  BY ExcusedGrows DEF Inv, TypeOK
<1>2. joined'[s] /\ joined'[t] /\ want'[s] = want'[t] /\ self'[s] # self'[t] /\ s # t
  BY DEF Together
<1>3. CASE joined[s] /\ joined[t]
  <2>1. /\ self'[s] = self[s] /\ want'[s] = want[s] /\ self'[t] = self[t] /\ want'[t] = want[t]
    BY <1>1, <1>2, <1>3, StaysMember
  <2>2. Together(s, t)  BY <1>2, <1>3, <2>1 DEF Together
  <2>3. self[t] \in view[s]  BY <1>1, <2>2 DEF Listing
  <2> QED  BY <1>1, <1>2, <2>1, <2>2, <2>3, StaysListedNext
<1>4. CASE joined[s] /\ ~joined[t]
  <2>1. /\ self' = self /\ want' = want
        /\ \A m \in Socket \ excused' :
              joined[m] /\ want[m] = want[t] /\ self[m] # self[t] => self[t] \in view'[m]
    BY <1>1, <1>2, <1>4, BecomesMember
  <2> QED  BY <1>2, <1>4, <2>1
<1>5. CASE ~joined[s]
  <2>1. /\ self' = self /\ want' = want /\ \A m \in Socket \ {s} : joined'[m] = joined[m]
    BY <1>1, <1>2, <1>5, BecomesMember
  <2>2. joined[t]  BY <1>2, <2>1
  <2> QED  BY <1>2, <1>5, <2>1, <2>2, JoinSeesMembers
<1> QED  BY <1>1, <1>3, <1>4, <1>5

\* The inductive invariant of CompleteViews, where the commands keep their order.
ViewsInv == TypeOK /\ Inv /\ Queued /\ Waiting /\ SeenOK /\ Listing

LEMMA ViewsInvariance == Pipelined /\ Spec => []ViewsInv
<1>1. Init => ViewsInv
  <2> SUFFICES ASSUME Init PROVE ViewsInv  OBVIOUS
  <2>1. TypeOK /\ Inv /\ Queued /\ Waiting
    BY TypeInit, InvInit, QueuedInit, WaitingInit
  <2>2. SeenOK  BY HandlerType DEF Init, SeenOK, Misses
  <2>3. Listing  BY DEF Init, Listing, Together
  <2> QED  BY <2>1, <2>2, <2>3 DEF ViewsInv
<1>2. Pipelined /\ ViewsInv /\ [Next]_vars => ViewsInv'
  <2> SUFFICES ASSUME Pipelined, ViewsInv, [Next]_vars PROVE ViewsInv'  OBVIOUS
  <2>1. TypeOK /\ Inv /\ HandlersOK /\ ConnectedOK /\ Queued /\ Waiting /\ SeenOK /\ Listing
    BY DEF ViewsInv, Inv
  <2>2. TypeOK' /\ Inv'  BY <2>1, InvNext
  <2>3. Queued'  BY <2>1, QueuedNext
  <2>4. Waiting'  BY <2>1, WaitingNext
  <2>5. SeenOK'  BY <2>1, SeenNext
  <2>6. Listing'  BY <2>1, ListingNext
  <2> QED  BY <2>2, <2>3, <2>4, <2>5, <2>6 DEF ViewsInv
<1>3. Pipelined <=> Pipelined'  OBVIOUS
<1> QED  BY <1>1, <1>2, <1>3, PTL DEF Spec

\* Where Redis runs the commands in the order they were issued, no join-success computed
\* from an older HGETALL erases a member whose peer-joined overtook it: when no handler
\* runs, and in fact at every moment, members of a room list each other in both
\* directions, whatever leaves, closes, fails, expires or restarts around them.
THEOREM Completeness == Pipelined /\ Spec => []CompleteViews
<1>1. ViewsInv => CompleteViews
  BY DEF ViewsInv, Listing, CompleteViews
<1> QED  BY <1>1, ViewsInvariance, PTL

-----------------------------------------------------------------------------
(* Peer ids                                                                *)

\* A socket presents its browser's ids only, and Redis and its handlers have no other for it.
Presented ==
  /\ \A s \in Socket : self[s] \in Ids[s] \cup {None}
  /\ \A r \in Room, s \in Socket : redis[r][s] \in Ids[s] \cup {None}
  /\ \A h \in Handler : loc[h].peer \in Ids[h[1]] \cup {None}

LEMMA PresentedInit == Init => Presented
BY HandlerType DEF Init, Presented, NoEntry, NoLocals

LEMMA PresentedNext ==
  ASSUME TypeOK, HandlersOK, Presented, [Next]_vars
  PROVE  Presented'
<1>t. /\ redis \in [Room -> [Socket -> Peer \cup {None}]] /\ loc \in [Handler -> Locals]
      /\ self \in [Socket -> Peer \cup {None}] /\ rm \in [Handler -> [Socket -> RmOf]]
      /\ \A s \in Socket : J(s) \in Handler /\ J(s)[1] = s
      /\ \A h \in Handler : h[1] \in Socket
  BY HandlerType, Lines DEF TypeOK
<1>p. /\ \A s \in Socket : self[s] \in Ids[s] \cup {None}
      /\ \A r \in Room, s \in Socket : redis[r][s] \in Ids[s] \cup {None}
      /\ \A h \in Handler : loc[h].peer \in Ids[h[1]] \cup {None}
  BY DEF Presented
<1>f. ASSUME self' = self, redis' = redis,
             \A h \in Handler : loc'[h].peer \in {loc[h].peer, None}
      PROVE  Presented'
  BY <1>f, <1>p DEF Presented
<1>1. ASSUME NEW g \in Handler, NEW r \in Room, NEW p \in Ids[g[1]], JoinRoom(g, r, p)
      PROVE  Presented'
  <2>1. \A x \in Socket : self'[x] = IF x = g[1] THEN p ELSE self[x]
    BY <1>1, <1>t DEF JoinRoom
  <2>2. \A h \in Handler : loc'[h].peer = IF h = g THEN p ELSE loc[h].peer
    BY <1>1, <1>t DEF JoinRoom
  <2>3. redis' = redis  BY <1>1 DEF JoinRoom
  <2>4. \A x \in Socket : self'[x] \in Ids[x] \cup {None}  BY <1>p, <2>1
  <2>5. \A h \in Handler : loc'[h].peer \in Ids[h[1]] \cup {None}
    <3> TAKE h \in Handler
    <3>1. loc[h].peer \in Ids[h[1]] \cup {None}  BY <1>p
    <3> QED  BY <2>2, <3>1
  <2> QED  BY <1>p, <2>3, <2>4, <2>5 DEF Presented
<1>2. ASSUME (\E g \in Handler : LeaveRoom(g)) \/ \E s \in Socket : Disconnect(s)
      PROVE  Presented'
  <2>1. self' = self /\ redis' = redis  BY <1>2 DEF LeaveRoom, Disconnect
  <2>2. \A h \in Handler : loc'[h].peer \in {loc[h].peer, None}
    BY <1>2, <1>t DEF LeaveRoom, Disconnect
  <2> QED  BY <1>f, <2>1, <2>2
<1>3. ASSUME NEW g \in Handler, HExists(g) \/ Expire(g)  PROVE Presented'
  BY <1>3, <1>f DEF HExists, Expire
<1>4. ASSUME NEW g \in Handler, HSet(g)  PROVE Presented'
  <2>1. loc' = loc /\ self' = self /\ redis' = Put(loc[g].room, g[1], loc[g].peer)
    BY <1>4 DEF HSet
  <2>2. loc[g].peer \in Peer \cup {None} /\ loc[g].peer \in Ids[g[1]] \cup {None}
    BY <1>t, <1>p DEF Locals
  <2>3. ASSUME NEW r \in Room, NEW x \in Socket  PROVE redis'[r][x] \in Ids[x] \cup {None}
    <3>1. redis'[r][x] = redis[r][x] \/ (x = g[1] /\ redis'[r][x] = loc[g].peer)
      BY <1>t, <2>1 DEF Put
    <3> QED  BY <1>p, <2>2, <3>1
  <2> QED  BY <1>p, <2>1, <2>3 DEF Presented
<1>a. ASSUME NEW g \in Handler, NEW seen, Announce(g, seen), self' = self, redis' = redis
      PROVE  Presented'
  <2>1. \A h \in Handler : loc'[h].peer \in {loc[h].peer, None}
    BY <1>a, <1>t DEF Announce, NoLocals
  <2> QED  BY <1>a, <1>f, <2>1
<1>5. ASSUME NEW g \in Handler, HGetAll(g)  PROVE Presented'
  <2>1. self' = self /\ redis' = redis  BY <1>5 DEF HGetAll
  <2>2. (\E seen : Announce(g, seen)) \/ \E seen : loc' = [loc EXCEPT ![g].seen = seen]
    BY <1>5 DEF HGetAll
  <2>3. ASSUME NEW seen, loc' = [loc EXCEPT ![g].seen = seen]
        PROVE  \A h \in Handler : loc'[h].peer = loc[h].peer
    BY <1>t, <2>3 DEF Locals
  <2> QED  BY <1>a, <1>f, <2>1, <2>2, <2>3
<1>6. ASSUME NEW g \in Handler, HGet(g)  PROVE Presented'
  <2>1. self' = self /\ redis' = redis /\ g[1] \in Socket
        /\ loc' = [loc EXCEPT ![g].peer = redis[loc[g].room][g[1]]] /\ pc[g] = "hget"
    BY <1>6, <1>t DEF HGet
  <2>2. loc[g].room \in Room  BY <2>1 DEF TypeOK, Busy
  <2>3. \A h \in Handler : loc'[h].peer = IF h = g THEN redis[loc[g].room][g[1]] ELSE loc[h].peer
    BY <1>t, <2>1 DEF Locals
  <2> QED  BY <1>p, <2>1, <2>2, <2>3 DEF Presented
<1>7. ASSUME NEW g \in Handler, Check(g)  PROVE Presented'
  <2>1. self' = self /\ redis' = redis /\ loc' = [loc EXCEPT ![g] = NoLocals]
    BY <1>7 DEF Check
  <2> QED  BY <1>f, <1>t, <2>1 DEF NoLocals
<1>8. ASSUME NEW g \in Handler, NEW d \in Socket, HDel(g, d)  PROVE Presented'
  <2>1. loc' = loc /\ self' = self /\ redis' = Put(loc[g].room, d, None)  BY <1>8 DEF HDel
  <2>2. \A r \in Room, x \in Socket : redis'[r][x] \in {redis[r][x], None}
    BY <1>t, <2>1 DEF Put
  <2> QED  BY <1>p, <2>1, <2>2 DEF Presented
<1>r. ASSUME NEW g \in Handler, NEW d \in Socket, Removed(g, d)
      PROVE  \A h \in Handler : loc'[h].peer \in {loc[h].peer, None}
  <2>1. CASE ~AfterRemovals(g)
    <3>1. \E l : loc' = [loc EXCEPT ![g] = l] /\ l \in {loc[g], NoLocals}
      BY <1>r, <2>1 DEF Removed
    <3> QED  BY <1>t, <3>1 DEF NoLocals
  <2>2. CASE AfterRemovals(g)
    <3>1. CASE \E seen : Announce(g, seen)
      BY <1>t, <3>1 DEF Announce, NoLocals
    <3>2. CASE \E l : loc' = [loc EXCEPT ![g] = l] /\ l \in {loc[g], NoLocals}
      BY <1>t, <3>2 DEF NoLocals
    <3> QED  BY <2>2, <3>1, <3>2 DEF AfterRemovals
  <2> QED  BY <2>1, <2>2
<1>9. ASSUME NEW g \in Handler, NEW d \in Socket, HLen(g, d) \/ Del(g, d)  PROVE Presented'
  <2>1. self' = self /\ (loc' = loc \/ Removed(g, d))  BY <1>9 DEF HLen, Del
  <2>2. \A r \in Room, x \in Socket : redis'[r][x] \in {redis[r][x], None}
    <3>1. redis' = redis \/ redis' = Cleared(loc[g].room)  BY <1>9 DEF HLen, Del
    <3> QED  BY <1>t, <3>1, ClearedType
  <2> QED  BY <1>p, <1>r, <2>1, <2>2 DEF Presented
<1>10. ASSUME NEW g \in Handler, NEW d \in Socket, Fail(g, d)  PROVE Presented'
  <2>1. self' = self /\ \A h \in Handler : loc'[h].peer \in {loc[h].peer, None}
    <3>1. self' = self /\ \E l : loc' = [loc EXCEPT ![g] = l] /\ l \in {loc[g], NoLocals}
      BY <1>10 DEF Fail
    <3> QED  BY <1>t, <3>1 DEF NoLocals
  <2>2. \A r \in Room, x \in Socket :
          redis'[r][x] \in {redis[r][x], None} \/ (x = g[1] /\ redis'[r][x] = loc[g].peer)
    <3>1. CASE redis' = redis  BY <3>1
    <3>2. CASE redis' = Put(loc[g].room, d, None) \/ redis' = Cleared(loc[g].room)
      BY <1>t, <3>2, PutType, ClearedType
    <3>3. CASE d = g[1] /\ redis' = Put(loc[g].room, d, loc[g].peer)
      BY <1>t, <3>3 DEF Put
    <3> QED  BY <1>10, <3>1, <3>2, <3>3 DEF Fail
  <2> QED  BY <1>p, <2>1, <2>2 DEF Presented
<1>11. ASSUME NEW r \in Room, RoomExpires(r)  PROVE Presented'
  <2>1. self' = self /\ loc' = loc /\ redis' = Cleared(r)  BY <1>11 DEF RoomExpires
  <2>2. \A q \in Room, x \in Socket : redis'[q][x] \in {redis[q][x], None}
    BY <1>t, <2>1, ClearedType
  <2> QED  BY <1>p, <2>1, <2>2 DEF Presented
<1>12. Restart => Presented'
  BY <1>p DEF Restart, Presented, NoLocals
<1>13. ASSUME NEW s \in Socket, Connect(s)  PROVE Presented'
  BY <1>13, <1>f DEF Connect
<1>14. UNCHANGED vars => Presented'
  BY <1>f DEF vars
<1> QED
  BY <1>1, <1>2, <1>3, <1>4, <1>5, <1>6, <1>7, <1>8, <1>9, <1>10, <1>11, <1>12, <1>13, <1>14
     DEF Next, JoinStep, RemoveStep

-----------------------------------------------------------------------------
(* Departures.                                                             *)

\* The commands that a join has left when c is its next one, and a leave or disconnect
\* handler h; HLEN and DEL, which may or may not follow it, count as one.
After(c) ==
  IF rm[c[1]][c[2]] = "hdel" THEN 2
  ELSE IF rm[c[1]][c[2]] # "none" THEN 1
  ELSE IF pc[c[1]] = "hgetall" THEN 3
  ELSE IF pc[c[1]] = "expire" THEN 4 ELSE 5
Left(h) ==
  IF pc[h] = "hget" THEN 4
  ELSE IF rm[h][h[1]] = "hdel" THEN 3
  ELSE IF pc[h] = "remove" THEN 2 ELSE 1
\* The join that waits for c ends before h does.
Outlives(h, c) == After(c) < Left(h) \/ (After(c) = Left(h) /\ Before(c, Own(h)))

\* No HDEL of another handler takes the entry h has asked for.
Ahead(h) ==
  \A g \in Handler \ {h} :
    rm[g][h[1]] = "hdel" /\ loc[g].room = loc[h].room => Before(Own(h), <<g, h[1]>>)
\* h is about to look whether p is still in room r.
Departs(h, p, r) ==
  /\ loc[h].room = r
  /\ \/ pc[h] = "hget" /\ redis[r][h[1]] = p /\ Ahead(h)
     \/ pc[h] \in {"remove", "check"} /\ loc[h].peer = p

\* A command of a join and a handler that outlives it, over one step.
LEMMA OutlivesNext ==
  ASSUME NEW done, Advances(done), NEW c \in Command, NEW h \in Handler,
         Outlives(h, c), Outstanding(c),
         After(c)' < After(c) \/ (After(c)' = After(c) /\ c \notin done),
         \/ Left(h)' = Left(h) /\ Own(h) \notin done
         \/ Left(h)' >= Left(h) - 1 /\ Own(h) \in done /\ c \notin done /\ Outstanding(Own(h))'
  PROVE  Outlives(h, c)'
<1>1. /\ After(c) \in Nat /\ After(c)' \in Nat /\ Left(h) \in Nat /\ Left(h)' \in Nat
  BY DEF After, Left
<1>2. Own(h) \in Command  BY HandlerType
<1>3. Before(c, Own(h)) => Own(h) \notin done /\ (c \notin done => Before(c, Own(h))')
  BY <1>2 DEF Advances
<1>4. Outlives(h, c)' <=> After(c)' < Left(h)' \/ (After(c)' = Left(h)' /\ Before(c, Own(h))')
  BY DEF Outlives, Own
<1>5. CASE Left(h)' = Left(h) /\ Own(h) \notin done
  <2> HIDE DEF After, Left
  <2> QED  BY <1>1, <1>3, <1>4, <1>5 DEF Outlives
<1>6. CASE /\ Left(h)' >= Left(h) - 1 /\ Own(h) \in done /\ c \notin done
           /\ Outstanding(Own(h))'
  <2>1. Before(c, Own(h))'  BY <1>2, <1>6 DEF Advances
  <2>2. After(c) < Left(h)  BY <1>3, <1>6 DEF Outlives
  <2>3. After(c)' <= After(c)  BY <1>1
  <2> QED  BY <1>1, <1>4, <1>6, <2>1, <2>2, <2>3
<1> QED  BY <1>5, <1>6

\* A leave or disconnect handler that will look has a command in the queue.
LEMMA LeaverWaits ==
  ASSUME TypeOK, HandlersOK, Waiting, NEW t \in Socket, NEW h \in {L(t), D(t)},
         pc[h] \in {"hget", "remove", "check"}
  PROVE  /\ h \in Handler /\ h[1] = t /\ h[2] # "join" /\ Busy(h) /\ Outstanding(Own(h))
         /\ pc[h] = "remove" => rm[h][t] # "none"
<1>1. h \in Handler /\ h[1] = t /\ h[2] # "join" /\ Busy(h)
  BY HandlerType, Lines DEF Busy
<1>2. ASSUME pc[h] = "remove"  PROVE rm[h][t] # "none"
  <2>1. rm[h] # NoRemoval /\ rm[h] \in [Socket -> RmOf]  BY <1>1, <1>2 DEF Waiting, TypeOK
  <2>2. \E d \in Socket : rm[h][d] # "none"  BY <2>1 DEF NoRemoval
  <2> QED  BY <1>1, <2>2 DEF HandlersOK
<1> QED  BY <1>1, <1>2 DEF Outstanding, Own

\* Its next step.
LEMMA LeaverMoves ==
  ASSUME TypeOK, HandlersOK, ConnectedOK, NEW t \in Socket \ excused',
         NEW h \in {L(t), D(t)}, Busy(h), Moves(h)
  PROVE  HGet(h) \/ Check(h) \/ RemoveStep(h, t)
<1>1. h \in Handler /\ h[1] = t /\ h[2] # "join" /\ h # J(t)
  BY HandlerType, Lines
<1>2. /\ ~LeaveRoom(h) /\ ~JoinStep(h)
      /\ ~\E r \in Room : \E p \in Ids[h[1]] : JoinRoom(h, r, p)
  BY <1>1, JoinLine DEF LeaveRoom, JoinRoom, First
<1>3. ~(h = D(h[1]) /\ Disconnect(h[1]))
  BY <1>1 DEF Disconnect, ConnectedOK
<1>4. \A d \in Socket : ~Fail(h, d)  BY <1>1 DEF Fail
<1>5. ASSUME NEW d \in Socket, RemoveStep(h, d)  PROVE d = t
  <2>1. rm[h][d] # "none"  BY <1>1, <1>5, RemoveStepIs
  <2> QED  BY <1>1, <2>1 DEF HandlersOK
<1> QED  BY <1>1, <1>2, <1>3, <1>4, <1>5 DEF Moves

\* Only its own join writes the entry of a socket that nothing spoils, and only HDEL takes it.
LEMMA EntryChanges ==
  ASSUME TypeOK, HandlersOK, LanesOK, [Next]_vars, NEW t \in Socket \ excused', NEW r \in Room,
         redis'[r][t] # redis[r][t]
  PROVE  HSet(J(t)) \/ \E g \in Handler : HDel(g, t) /\ loc[g].room = r
<1>t. /\ redis \in [Room -> [Socket -> Peer \cup {None}]] /\ loc \in [Handler -> Locals]
      /\ \A h \in Handler : loc[h].peer \in Peer \cup {None}
  BY DEF TypeOK, Locals
<1>c. ASSUME NEW q, redis' = Cleared(q), Entries(q) \subseteq excused'  PROVE FALSE
  <2>1. redis'[r][t] = IF r = q THEN None ELSE redis[r][t]  BY <1>t, <1>c, ClearedType
  <2>2. r = q /\ t \in Entries(q)  BY <2>1 DEF Entries
  <2> QED  BY <1>c, <2>2
<1>1. ASSUME NEW h \in Handler, HSet(h)  PROVE HSet(J(t))
  <2>1. h[1] \in Socket /\ redis' = Put(loc[h].room, h[1], loc[h].peer) /\ Busy(h)
    BY <1>1, HandlerType DEF HSet, Busy
  <2>2. h[1] = t /\ t \notin excused  BY <1>t, <2>1, PutType, ExcusedGrows
  <2>3. h[2] = "join"  BY <1>1, JoinLine DEF JoinStep
  <2> QED  BY <1>1, <2>1, <2>2, <2>3, StepAlone
<1>2. ASSUME NEW g \in Handler, NEW d \in Socket, HDel(g, d)
      PROVE  HDel(g, t) /\ loc[g].room = r
  <2>1. redis' = Put(loc[g].room, d, None)  BY <1>2 DEF HDel
  <2>2. d = t /\ loc[g].room = r  BY <1>t, <2>1, PutType
  <2> QED  BY <1>2, <2>2
<1>3. ASSUME NEW g \in Handler, NEW d \in Socket, Fail(g, d)  PROVE FALSE
  <2>1. d # t /\ (rm[g][d] = "del" => Entries(loc[g].room) \subseteq excused')
    BY <1>3 DEF Fail
  <2>2. \/ redis' = redis \/ redis' = Put(loc[g].room, d, loc[g].peer)
        \/ redis' = Put(loc[g].room, d, None)
        \/ rm[g][d] = "del" /\ redis' = Cleared(loc[g].room)
    BY <1>3 DEF Fail
  <2>3. redis' # Put(loc[g].room, d, loc[g].peer) /\ redis' # Put(loc[g].room, d, None)
    BY <1>t, <2>1, PutType
  <2> QED  BY <1>c, <2>1, <2>2, <2>3
<1>4. \A g \in Handler, d \in Socket : ~Del(g, d)
  BY <1>c DEF Del
<1>5. \A q \in Room : ~RoomExpires(q)
  BY <1>c DEF RoomExpires
<1>6. redis' # redis  OBVIOUS
<1> QED
  BY <1>1, <1>2, <1>3, <1>4, <1>5, <1>6
     DEF Next, Connect, JoinRoom, LeaveRoom, Disconnect, JoinStep, HExists, Expire, HGetAll,
         HGet, RemoveStep, HLen, Check, Restart, vars

\* HDEL is issued after HGET or HGETALL only.
LEMMA NewRemoval ==
  ASSUME TypeOK, HandlersOK, ConnectedOK, NEW g \in Handler, Moves(g), NEW d \in Socket,
         rm'[g][d] = "hdel", loc'[g].room \in Room,
         ~(rm[g][d] = "hdel" /\ loc[g].room = loc'[g].room)
  PROVE  HGet(g) \/ HGetAll(g)
<1>t. /\ rm \in [Handler -> [Socket -> RmOf]] /\ loc \in [Handler -> Locals]
      /\ g[1] \in Socket /\ NoLocals.room \notin Room
  BY HandlerType, NoneAssumption DEF TypeOK, NoLocals
<1>1. ASSUME ~Busy(g), rm' = rm  PROVE FALSE
  BY <1>1 DEF Busy, NoRemoval
<1>2. ASSUME pc[g] \notin {"idle", "remove"}, rm' = rm  PROVE FALSE
  <2>1. rm[g] = NoRemoval  BY <1>2, OwnLine
  <2> QED  BY <1>2, <2>1 DEF NoRemoval
<1>3. ~(\E r \in Room : \E p \in Ids[g[1]] : JoinRoom(g, r, p))
  BY <1>1 DEF JoinRoom, First
<1>4. ~LeaveRoom(g)
  BY <1>1 DEF LeaveRoom, First
<1>5. ~(g = D(g[1]) /\ Disconnect(g[1]))
  <2>1. conn[g[1]] = "up" => ~Busy(D(g[1]))  BY <1>t DEF ConnectedOK
  <2> QED  BY <1>1, <2>1 DEF Disconnect
<1>6. ~(HExists(g) \/ HSet(g) \/ Expire(g))
  BY <1>2 DEF HExists, HSet, Expire
<1>7. ~Check(g)
  BY <1>2 DEF Check
<1>8. ASSUME NEW e \in Socket, RemoveStep(g, e)  PROVE FALSE
  <2>1. e # d /\ rm[g][d] = "hdel"
    <3>1. rm'[g][e] # "hdel" /\ \A x \in Socket \ {e} : rm'[g][x] = rm[g][x]
      BY <1>8, RemoveStepIs
    <3> QED  BY <3>1
  <2>2. rm'[g] # NoRemoval  BY DEF NoRemoval
  <2>3. ASSUME Removed(g, e)  PROVE loc'[g] = loc[g]
    <3>1. rm' = [rm EXCEPT ![g] = [rm[g] EXCEPT ![e] = "none"]]  BY <2>3 DEF Removed
    <3>2. [rm[g] EXCEPT ![e] = "none"] # NoRemoval  BY <1>t, <2>2, <3>1
    <3>3. loc' = [loc EXCEPT ![g] = loc[g]]  BY <2>3, <3>2 DEF Removed
    <3> QED  BY <1>t, <3>3
  <2>4. loc'[g] = loc[g]
    BY <1>8, <2>3 DEF RemoveStep, HDel, HLen, Del
  <2> QED  BY <2>1, <2>4
<1>9. ASSUME NEW e \in Socket, Fail(g, e)  PROVE FALSE
  <2> DEFINE left == [rm[g] EXCEPT ![e] = "none"]
  <2>1. rm' = [rm EXCEPT ![g] = left]
        /\ loc' = [loc EXCEPT ![g] = IF left = NoRemoval THEN NoLocals ELSE @]
    BY <1>9 DEF Fail
  <2>2. rm'[g] = left /\ left[d] = "hdel"  BY <1>t, <2>1
  <2>3. left # NoRemoval  BY <2>2 DEF NoRemoval
  <2>4. rm[g][d] = "hdel"
    <3>1. rm[g] \in [Socket -> RmOf]  BY <1>t
    <3> QED  BY <2>2, <3>1
  <2>5. loc'[g] = loc[g]
    <3> HIDE DEF left
    <3>1. loc' = [loc EXCEPT ![g] = loc[g]]  BY <2>1, <2>3
    <3> QED  BY <1>t, <3>1
  <2> QED  BY <2>4, <2>5
<1> QED  BY <1>3, <1>4, <1>5, <1>6, <1>7, <1>8, <1>9 DEF Moves, JoinStep

\* A step of others, and the commands it executes.
LEMMA OthersStep ==
  ASSUME Pipelined, TypeOK, HandlersOK, ConnectedOK, Queued, [Next]_vars, ~Restart,
         NEW h \in Handler, ~Moves(h)
  PROVE  /\ pc'[h] = pc[h] /\ loc'[h] = loc[h] /\ rm'[h] = rm[h]
         /\ \E done \in SUBSET Command : Advances(done) /\ \A d \in Socket : <<h, d>> \notin done
<1>1. CASE Silent
  <2>1. Advances({})  BY <1>1, SilentAdvances DEF Silent
  <2> QED  BY <1>1, <2>1 DEF Silent, Connect, RoomExpires, vars
<1>2. ASSUME NEW g \in Handler, Moves(g)
      PROVE  /\ pc'[h] = pc[h] /\ loc'[h] = loc[h] /\ rm'[h] = rm[h]
             /\ \E done \in SUBSET Command :
                  Advances(done) /\ \A d \in Socket : <<h, d>> \notin done
  <2>1. g # h  BY <1>2
  <2>2. PICK done \in SUBSET ({g} \X Socket) : Advances(done)  BY <1>2, MovesAdvances
  <2>3. done \in SUBSET Command /\ \A d \in Socket : <<h, d>> \notin done
    BY <2>1, <2>2 DEF Command
  <2> QED  BY <1>2, <2>1, <2>2, <2>3, OthersRest
<1> QED  BY <1>1, <1>2, MoverIs

LEMMA AheadNext ==
  ASSUME Pipelined, TypeOK, HandlersOK, ConnectedOK, Queued, [Next]_vars, ~Restart,
         NEW h \in Handler, pc[h] = "hget", ~Moves(h), Ahead(h)
  PROVE  Ahead(h)'
<1>h. h[1] \in Socket /\ Own(h) = <<h, h[1]>> /\ Own(h) \in Command /\ Outstanding(Own(h))
  BY HandlerType DEF Own, Outstanding
<1>r. loc[h].room \in Room  BY DEF TypeOK, Busy
<1>1. pc'[h] = pc[h] /\ loc'[h] = loc[h] /\ rm'[h] = rm[h]
  BY OthersStep
<1> SUFFICES ASSUME NEW g \in Handler \ {h}, rm'[g][h[1]] = "hdel", loc'[g].room = loc[h].room
             PROVE  Before(Own(h), <<g, h[1]>>)'
  BY <1>1 DEF Ahead, Own
<1> DEFINE c == <<g, h[1]>>
<1>c. c \in Command /\ c[1] = g /\ c[2] = h[1]  BY <1>h, CommandIs
<1>2. CASE rm[g][h[1]] = "hdel" /\ loc[g].room = loc[h].room
  <2>1. Before(Own(h), c)  BY <1>2 DEF Ahead
  <2>2. PICK done \in SUBSET Command : Advances(done) /\ \A d \in Socket : <<h, d>> \notin done
    BY OthersStep
  <2>3. Own(h) \notin done  BY <1>h, <2>2
  <2> HIDE DEF c
  <2>4. Before(Own(h), c)'  BY <1>c, <1>h, <2>1, <2>2, <2>3 DEF Advances
  <2> QED  BY <2>4 DEF c
<1>3. CASE ~(rm[g][h[1]] = "hdel" /\ loc[g].room = loc[h].room)
  <2>1. Moves(g)
    <3>1. ~Moves(g) => loc'[g] = loc[g] /\ rm'[g] = rm[g]  BY OthersStep
    <3> QED  BY <1>3, <3>1
  <2>2. HGet(g) \/ HGetAll(g)
    BY <1>h, <1>r, <1>3, <2>1, NewRemoval
  <2>3. Advances({Own(g)}) /\ pc[g] \in {"hget", "hgetall"}
    <3>1. HGet(g) => Advances({Own(g)}) /\ pc[g] = "hget"  BY HGetAdvances DEF HGet
    <3>2. HGetAll(g) => Advances({Own(g)}) /\ pc[g] = "hgetall"  BY HGetAllAdvances DEF HGetAll
    <3> QED  BY <2>2, <3>1, <3>2
  <2>4. rm[g] = NoRemoval  BY <2>3, OwnLine
  <2>5. ~Outstanding(c) \/ c \in {Own(g)}
    BY <1>h, <1>c, <2>4 DEF Outstanding, NoRemoval, Own
  <2>6. Outstanding(c)'  BY <1>c DEF Outstanding
  <2>7. Own(h) \notin {Own(g)}  BY <1>h DEF Own
  <2> HIDE DEF c
  <2>8. Before(Own(h), c)'  BY <1>h, <1>c, <2>3, <2>5, <2>6, <2>7 DEF Advances
  <2> QED  BY <2>8 DEF c
<1> QED  BY <1>2, <1>3

\* While a handler of a socket is about to ask for its entry, its joins do not write it.
LEMMA NoLateHSet ==
  ASSUME TypeOK, Inv, ExactInv, NEW t \in Socket \ excused, NEW h \in {L(t), D(t)}, Busy(h)
  PROVE  ~HSet(J(t))
<1> SUFFICES ASSUME HSet(J(t)) PROVE FALSE  OBVIOUS
<1>1. pc[J(t)] = "hset" /\ Busy(J(t))  BY DEF HSet, Busy
<1>2. conn[t] \in {"new", "up", "down"}  BY DEF TypeOK
<1>3. CASE conn[t] = "up"
  <2>1. Joining(t)  BY <1>1, <1>3, StageOf DEF Inv, StagesOK
  <2> QED  BY <1>3, <2>1 DEF Joining, Inv, ConnectedOK
<1>4. CASE conn[t] = "down"
  BY <1>1, <1>4 DEF ExactInv, DepartedOK, Gone
<1>5. CASE conn[t] = "new"
  BY <1>1, <1>5, Lines, HandlerType DEF Inv, ConnectedOK
<1> QED  BY <1>2, <1>3, <1>4, <1>5

\* A departure goes on to the look, whatever the others do.
LEMMA DepartsOn ==
  ASSUME Pipelined, TypeOK, Inv, ExactInv, Queued, [Next]_vars, ~Restart,
         NEW t \in Socket \ excused', NEW h \in {L(t), D(t)}, NEW p \in Peer, NEW r \in Room,
         Departs(h, p, r), ~Moves(h)
  PROVE  Departs(h, p, r)'
<1>1. /\ HandlersOK /\ LanesOK /\ ConnectedOK /\ h \in Handler /\ h[1] = t /\ t \notin excused /\ Busy(h)
  BY HandlerType, Lines, ExcusedGrows DEF Inv, Departs, Busy
<1>2. pc'[h] = pc[h] /\ loc'[h] = loc[h] /\ rm'[h] = rm[h]  BY <1>1, OthersStep
<1>3. CASE pc[h] = "hget" /\ redis[r][t] = p /\ Ahead(h)
  <2>1. Ahead(h)'  BY <1>1, <1>3, AheadNext
  <2>2. redis'[r][t] = redis[r][t]
    <3> SUFFICES ASSUME redis'[r][t] # redis[r][t] PROVE FALSE  OBVIOUS
    <3>1. ~HSet(J(t))  BY <1>1, NoLateHSet
    <3>2. PICK g \in Handler : HDel(g, t) /\ loc[g].room = r  BY <1>1, <3>1, EntryChanges
    <3>3. g # h  BY <1>1, <3>2 DEF Moves, RemoveStep
    <3>4. rm[g][t] = "hdel"  BY <3>2 DEF HDel
    <3>5. Before(Own(h), <<g, t>>)  BY <1>1, <1>3, <3>2, <3>3, <3>4 DEF Ahead, Departs
    <3>6. Advances({<<g, t>>})  BY <1>1, <3>2, RemoveAdvances DEF RemoveStep
    <3>7. Own(h) \in Command /\ <<g, t>> \in Command  BY <1>1, HandlerType
    <3> QED  BY <3>5, <3>6, <3>7 DEF Advances
  <2> QED  BY <1>1, <1>2, <1>3, <2>1, <2>2 DEF Departs
<1>4. CASE pc[h] \in {"remove", "check"} /\ loc[h].peer = p
  BY <1>2, <1>4 DEF Departs
<1> QED  BY <1>1, <1>3, <1>4 DEF Departs

\* Nor does its own step end it, before it looks.
LEMMA DepartsMoves ==
  ASSUME Pipelined, TypeOK, Inv, Queued, Waiting, [Next]_vars, NEW t \in Socket \ excused',
         NEW h \in {L(t), D(t)}, NEW p \in Peer, NEW r \in Room, Departs(h, p, r),
         Moves(h), ~Check(h)
  PROVE  /\ Departs(h, p, r)' /\ Left(h)' >= Left(h) - 1
         /\ Advances({Own(h)}) /\ Outstanding(Own(h))'
<1>1. /\ HandlersOK /\ LanesOK /\ ConnectedOK /\ loc[h].room = r /\ pc[h] \in {"hget", "remove", "check"}
  BY DEF Inv, Departs
<1>2. /\ h \in Handler /\ h[1] = t /\ Busy(h) /\ Own(h) = <<h, t>>
      /\ pc[h] = "remove" => rm[h][t] # "none"
  BY <1>1, LeaverWaits DEF Own
<1>t. /\ pc \in [Handler -> PcOf] /\ loc \in [Handler -> Locals]
      /\ rm \in [Handler -> [Socket -> RmOf]]
  BY DEF TypeOK
<1>3. CASE HGet(h)
  <2>1. pc[h] = "hget" /\ redis[r][t] = p /\ Advances({Own(h)})
    BY <1>1, <1>2, <1>3, HGetAdvances DEF HGet, Departs
  <2>2. /\ pc' = [pc EXCEPT ![h] = "remove"] /\ rm' = Removing(h, t, "hdel")
        /\ loc' = [loc EXCEPT ![h].peer = p]
    BY <1>1, <1>2, <1>3, <2>1 DEF HGet
  <2>3. pc'[h] = "remove" /\ rm'[h][t] = "hdel"
    BY <1>t, <1>2, <2>2, RemovingType DEF RmOf
  <2>4. loc'[h].peer = p /\ loc'[h].room = loc[h].room  BY <1>t, <1>2, <2>2 DEF Locals
  <2>5. Outstanding(Own(h))'  BY <1>2, <2>3 DEF Outstanding, Own
  <2> QED  BY <1>1, <1>2, <2>1, <2>3, <2>4, <2>5 DEF Departs, Left
<1>4. CASE RemoveStep(h, t)
  <2>1. rm[h][t] # "none" /\ Advances({Own(h)})
    BY <1>1, <1>2, <1>4, RemoveStepIs, RemoveAdvances
  <2>2. pc[h] = "remove" /\ loc[h].peer = p
    <3>1. rm[h] # NoRemoval  BY <1>2, <2>1 DEF NoRemoval
    <3> QED  BY <1>1, <1>2, <3>1, OwnLine DEF Departs
  <2>3. CASE AfterRemovals(h)
    <3>1. h[2] \in {"leave", "disconnect"}  BY Lines
    <3>2. /\ pc' = [pc EXCEPT ![h] = "check"] /\ loc' = [loc EXCEPT ![h] = loc[h]]
      BY <1>2, <2>2, <2>3, <3>1, NoneAssumption DEF AfterRemovals
    <3>3. pc'[h] = "check" /\ loc'[h] = loc[h]  BY <1>t, <1>2, <3>2
    <3>5. rm[h][t] # "hdel"
      <4>1. CASE HDel(h, t)
        <5>1. pc' = pc  BY <4>1 DEF HDel
        <5> QED  BY <2>2, <3>3, <5>1
      <4>2. CASE HLen(h, t) \/ Del(h, t)  BY <4>2 DEF HLen, Del
      <4> QED  BY <1>4, <4>1, <4>2 DEF RemoveStep
    <3>6. Left(h) = 2 /\ Left(h)' >= 1  BY <1>2, <2>2, <3>5 DEF Left
    <3>7. Outstanding(Own(h))'  BY <1>2, <3>3 DEF Outstanding, Own
    <3> QED  BY <1>1, <2>1, <2>2, <3>3, <3>6, <3>7 DEF Departs
  <2>4. CASE pc'[h] = pc[h] /\ loc'[h] = loc[h]
    <3>1. Left(h) \in 2..3 /\ Left(h)' \in 2..3  BY <1>2, <2>2, <2>4 DEF Left
    <3>2. rm'[h][t] # "none"
      <4>1. ~AfterRemovals(h)
        <5>1. AfterRemovals(h) => pc'[h] # "remove"  BY <1>2, AfterIs
        <5> QED  BY <2>2, <2>4, <5>1
      <4>2. rm'[h] # NoRemoval  BY <1>2, <1>4, <2>2, <4>1, RemoveStepIs
      <4>3. \A e \in Socket \ {t} : rm'[h][e] = rm[h][e]  BY <1>2, <1>4, RemoveStepIs
      <4>4. \A e \in Socket \ {t} : rm'[h][e] = "none"
        <5>1. h[2] # "join"  BY <1>2, Lines
        <5> QED  BY <1>1, <1>2, <4>3, <5>1 DEF HandlersOK
      <4>5. rm'[h] \in [Socket -> RmOf]
        <5>1. TypeOK'  BY InvNext
        <5> QED  BY <1>2, <5>1 DEF TypeOK
      <4> QED  BY <4>2, <4>4, <4>5 DEF NoRemoval
    <3>3. Outstanding(Own(h))'  BY <1>2, <3>2 DEF Outstanding, Own
    <3> QED  BY <1>1, <2>1, <2>2, <2>4, <3>1, <3>3 DEF Departs
  <2> QED  BY <1>2, <1>4, <2>2, <2>3, <2>4, RemoveStepIs
<1>5. HGet(h) \/ Check(h) \/ RemoveStep(h, t)  BY <1>1, <1>2, LeaverMoves
<1> QED  BY <1>3, <1>4, <1>5

\* A removal that a join of a socket nothing spoils still waits for was not executed.
LEMMA RemovalStays ==
  ASSUME Pipelined, TypeOK, HandlersOK, ConnectedOK, Queued,
         NEW n \in Socket \ excused', Moves(J(n)), NEW d \in Socket,
         rm[J(n)][d] # "none", rm'[J(n)][d] = rm[J(n)][d]
  PROVE  \E e \in Socket \ {d} : Advances({<<J(n), e>>})
<1>1. J(n) \in Handler /\ J(n)[1] = n /\ J(n)[2] = "join"  BY HandlerType, Lines
<1>2. pc[J(n)] \in {"idle", "remove"}
  <2>1. rm[J(n)] # NoRemoval  BY DEF NoRemoval
  <2> QED  BY <1>1, <2>1, OwnLine
<1>3. Busy(J(n))  BY DEF Busy, NoRemoval
<1>4. PICK e \in Socket : RemoveStep(J(n), e) \/ Fail(J(n), e)
  BY <1>1, <1>2, <1>3, Lines
     DEF Moves, JoinStep, HExists, HSet, Expire, HGetAll, JoinRoom, First, LeaveRoom, HGet, Check
<1>5. ~Fail(J(n), e)  BY <1>1 DEF Fail
<1>6. RemoveStep(J(n), e) /\ Advances({<<J(n), e>>})  BY <1>1, <1>4, <1>5, RemoveAdvances
<1>7. e # d
  <2>1. rm[J(n)][e] # "none" /\ rm'[J(n)][e] # rm[J(n)][e]  BY <1>1, <1>6, RemoveStepIs
  <2> QED  BY <2>1
<1> QED  BY <1>6, <1>7

\* A departure and the joins that end before it, over one step.
LEMMA LeaverNext ==
  ASSUME Pipelined, TypeOK, Inv, ExactInv, Queued, Waiting, [Next]_vars, ~Restart,
         NEW t \in Socket \ excused', NEW h \in {L(t), D(t)}, NEW p \in Peer, NEW r \in Room,
         Departs(h, p, r), ~Check(h),
         NEW n \in Socket \ excused', NEW d \in Socket,
         Outstanding(<<J(n), d>>), Outlives(h, <<J(n), d>>),
         \/ After(<<J(n), d>>)' < After(<<J(n), d>>)
         \/ ~Moves(J(n))
         \/ rm[J(n)][d] # "none" /\ rm'[J(n)][d] = rm[J(n)][d]
  PROVE  Outlives(h, <<J(n), d>>)'
<1> DEFINE c == <<J(n), d>>
<1>1. /\ HandlersOK /\ LanesOK /\ ConnectedOK /\ h \in Handler /\ J(n) \in Handler /\ h # J(n)
      /\ c \in Command /\ c[1] = J(n) /\ c[2] = d /\ Own(h)[1] = h /\ Own(h) \in Command
  BY HandlerType, Lines, CommandIs DEF Inv
<1>2. \/ After(c)' < After(c)
      \/ After(c)' = After(c) /\ ~Moves(J(n))
      \/ After(c)' = After(c) /\ rm[J(n)][d] # "none" /\ rm'[J(n)][d] = rm[J(n)][d]
  <2>1. ~Moves(J(n)) => pc'[J(n)] = pc[J(n)] /\ rm'[J(n)] = rm[J(n)]  BY <1>1, OthersStep
  <2> QED  BY <1>1, <2>1 DEF After
<1> HIDE DEF c
<1>3. ASSUME Moves(h)  PROVE Outlives(h, c)'
  <2>1. Left(h)' >= Left(h) - 1 /\ Advances({Own(h)}) /\ Outstanding(Own(h))'
    BY <1>3, DepartsMoves
  <2>2. c \notin {Own(h)}  BY <1>1
  <2>3. Outstanding(c) /\ Outlives(h, c)  BY DEF c
  <2> QED  BY <1>1, <1>2, <2>1, <2>2, <2>3, OutlivesNext
<1>4. ASSUME ~Moves(h)  PROVE Outlives(h, c)'
  <2>1. Left(h)' = Left(h)
    <3>1. pc'[h] = pc[h] /\ rm'[h] = rm[h]  BY <1>1, <1>4, OthersStep
    <3> QED  BY <3>1 DEF Left
  <2>2. \E done : /\ Advances(done) /\ Own(h) \notin done
                  /\ After(c)' < After(c) \/ (After(c)' = After(c) /\ c \notin done)
    <3>1. CASE Silent
      <4>1. Advances({})  BY <3>1, SilentAdvances DEF Silent
      <4> QED  BY <1>2, <4>1
    <3>2. CASE \E g \in Handler : Moves(g) /\ g # J(n)
      <4>1. PICK g \in Handler : Moves(g) /\ g # J(n)  BY <3>2
      <4>2. PICK done \in SUBSET ({g} \X Socket) : Advances(done)  BY <1>1, <4>1, MovesAdvances
      <4>3. g # h  BY <1>4, <4>1
      <4>4. c \notin done /\ Own(h) \notin done  BY <1>1, <4>1, <4>2, <4>3
      <4> QED  BY <1>2, <4>2, <4>4
    <3>3. CASE Moves(J(n))
      <4>1. CASE After(c)' < After(c)
        <5>1. PICK done \in SUBSET ({J(n)} \X Socket) : Advances(done)
          BY <1>1, <3>3, MovesAdvances
        <5>2. Own(h) \notin done  BY <1>1, <5>1
        <5> QED  BY <4>1, <5>1, <5>2
      <4>2. CASE After(c)' = After(c) /\ rm[J(n)][d] # "none" /\ rm'[J(n)][d] = rm[J(n)][d]
        <5>1. PICK e \in Socket \ {d} : Advances({<<J(n), e>>})
          BY <1>1, <3>3, <4>2, RemovalStays
        <5>2. c \notin {<<J(n), e>>} /\ Own(h) \notin {<<J(n), e>>}  BY <1>1
        <5> QED  BY <4>2, <5>1, <5>2
      <4> QED  BY <1>2, <3>3, <4>1, <4>2
    <3> QED  BY <3>1, <3>2, <3>3, MoverIs
  <2>3. Outstanding(c) /\ Outlives(h, c)  BY DEF c
  <2> QED  BY <1>1, <2>1, <2>2, <2>3, OutlivesNext
<1>5. Outlives(h, c)'  BY <1>3, <1>4
<1> QED  BY <1>5 DEF c

LEMMA DepartsNext ==
  ASSUME Pipelined, TypeOK, Inv, ExactInv, Queued, Waiting, [Next]_vars, ~Restart,
         NEW t \in Socket \ excused', NEW h \in {L(t), D(t)}, NEW p \in Peer, NEW r \in Room,
         Departs(h, p, r), ~Check(h)
  PROVE  Departs(h, p, r)'
BY DepartsOn, DepartsMoves

-----------------------------------------------------------------------------
(* The entries of those who leave.                                         *)

\* The handler that is to remove an entry asks for it before another one does, unless that
\* one has asked already; then it knows the peer.
LeaveOK ==
  \A d \in Socket \ excused : \A h \in {L(d), D(d)} :
    loc[h].room \in Room /\ redis[loc[h].room][d] # None =>
      /\ pc[h] = "hget" =>
           Ahead(h) \/ \E g \in {L(d), D(d)} : loc[g].room = loc[h].room /\ rm[g][d] = "hdel"
      /\ rm[h][d] = "hdel" => loc[h].peer = redis[loc[h].room][d]

\* The entry of an open socket is removed by its leave handler only.
LEMMA OpenEntry ==
  ASSUME TypeOK, Inv, NEW t \in Socket \ excused, conn[t] = "up"
  PROVE  /\ ~Busy(D(t))
         /\ \A g \in Handler \ {L(t)} : rm[g][t] = "none"
         /\ ~Busy(L(t)) => \A g \in Handler : rm[g][t] = "none"
<1>1. ~Busy(D(t))  BY DEF Inv, ConnectedOK
<1>2. ASSUME NEW g \in Handler, g # L(t)  PROVE rm[g][t] = "none"
  <2>1. CASE g[2] = "join"  BY <2>1 DEF Inv, RemovalsOK
  <2>2. CASE g[2] # "join" /\ g[1] # t  BY <2>2 DEF Inv, HandlersOK
  <2>3. CASE g[2] # "join" /\ g[1] = t
    <3>1. Busy(g) => g = L(t) \/ g = D(t)  BY <2>3, StepAlone, Lines DEF Inv
    <3> QED  BY <1>1, <1>2, <3>1 DEF Busy, NoRemoval
  <2> QED  BY <2>1, <2>2, <2>3
<1>3. ~Busy(L(t)) => rm[L(t)][t] = "none"  BY DEF Busy, NoRemoval
<1> QED  BY <1>1, <1>2, <1>3

\* A request that starts a leave or disconnect handler.
LEMMA LeaverStarts ==
  ASSUME TypeOK, Inv, NEW t \in Socket \ excused', NEW h \in {L(t), D(t)},
         Moves(h), ~Busy(h)
  PROVE  /\ rm' = rm /\ redis' = redis
         /\ (h = L(t) /\ LeaveRoom(L(t))) \/ (h = D(t) /\ Disconnect(t))
<1>1. h \in Handler /\ h[1] = t /\ h # J(t) /\ L(t) # D(t)  BY HandlerType, Lines
<1>2. pc[h] = "idle" /\ rm[h] = NoRemoval  BY DEF Busy
<1>3. \A d \in Socket : ~RemoveStep(h, d)
  <2> SUFFICES ASSUME NEW d \in Socket, RemoveStep(h, d) PROVE FALSE  OBVIOUS
  <2>1. rm[h][d] # "none"  BY <1>1, RemoveStepIs
  <2> QED  BY <1>2, <2>1 DEF NoRemoval
<1>4. \A d \in Socket : ~Fail(h, d)  BY <1>2 DEF Fail, NoRemoval
<1>5. ~HGet(h) /\ ~Check(h)  BY <1>2 DEF HGet, Check
<1>6. (h = L(t) /\ LeaveRoom(L(t))) \/ (h = D(t) /\ Disconnect(t))
  <2>1. /\ h[2] # "join" /\ (h[2] = "leave" => h = L(t))  BY Lines
  <2>2. ~JoinStep(h)  BY <1>2 DEF JoinStep, HExists, HSet, Expire, HGetAll
  <2>3. ~\E r \in Room : \E p \in Ids[h[1]] : JoinRoom(h, r, p)  BY <2>1 DEF JoinRoom
  <2>4. LeaveRoom(h) => h[2] = "leave"  BY DEF LeaveRoom
  <2> QED  BY <1>1, <1>3, <1>4, <1>5, <2>1, <2>2, <2>3, <2>4 DEF Moves
<1> QED  BY <1>6 DEF LeaveRoom, Disconnect

\* Where nobody else is about to remove the entry, the handler that starts is ahead.
LEMMA StartsAhead ==
  ASSUME TypeOK, NEW h \in Handler, rm' = rm,
         \A g \in Handler \ {h} : rm[g][h[1]] # "hdel"
  PROVE  Ahead(h)'
BY DEF Ahead

LEMMA LeaveNext ==
  ASSUME Pipelined, TypeOK, Inv, ExactInv, Queued, Waiting, LeaveOK, [Next]_vars
  PROVE  LeaveOK'
<1> SUFFICES ASSUME NEW d \in Socket \ excused', NEW h \in {L(d), D(d)},
                    loc'[h].room \in Room, redis'[loc'[h].room][d] # None
             PROVE  /\ pc'[h] = "hget" =>
                         \/ Ahead(h)'
                         \/ \E g \in {L(d), D(d)} : loc'[g].room = loc'[h].room /\ rm'[g][d] = "hdel"
                    /\ rm'[h][d] = "hdel" => loc'[h].peer = redis'[loc'[h].room][d]
  BY DEF LeaveOK
<1>1. /\ HandlersOK /\ LanesOK /\ ConnectedOK /\ h \in Handler /\ h[1] = d /\ d \notin excused
      /\ L(d) \in Handler /\ D(d) \in Handler /\ L(d)[1] = d /\ D(d)[1] = d
      /\ h # J(d) /\ L(d) # D(d)
  BY HandlerType, Lines, ExcusedGrows DEF Inv
<1>t. /\ pc \in [Handler -> PcOf] /\ loc \in [Handler -> Locals]
      /\ rm \in [Handler -> [Socket -> RmOf]]
      /\ redis \in [Room -> [Socket -> Peer \cup {None}]]
  BY DEF TypeOK
<1>2. ~Restart  BY <1>1, NoneAssumption DEF Restart, NoLocals
\* An HDEL leaves nothing to remove.
<1>e. ASSUME NEW g \in Handler, HDel(g, d), loc[g].room = loc'[h].room  PROVE FALSE
  <2>1. redis' = Put(loc'[h].room, d, None)  BY <1>e DEF HDel
  <2> QED  BY <1>t, <2>1, PutType
<1>3. ASSUME ~Moves(h), pc'[h] = "hget" \/ rm'[h][d] = "hdel"
      PROVE  /\ pc'[h] = "hget" =>
                  \/ Ahead(h)'
                  \/ \E g \in {L(d), D(d)} : loc'[g].room = loc'[h].room /\ rm'[g][d] = "hdel"
             /\ rm'[h][d] = "hdel" => loc'[h].peer = redis'[loc'[h].room][d]
  <2>1. pc'[h] = pc[h] /\ loc'[h] = loc[h] /\ rm'[h] = rm[h]
    BY <1>1, <1>2, <1>3, OthersStep
  <2>2. Busy(h)  BY <1>3, <2>1 DEF Busy, NoRemoval
  <2>3. redis'[loc[h].room][d] = redis[loc[h].room][d]
    <3>1. ~HSet(J(d))  BY <1>1, <2>2, NoLateHSet
    <3> QED  BY <1>1, <1>e, <2>1, <3>1, EntryChanges
  <2>4. /\ pc[h] = "hget" =>
             Ahead(h) \/ \E g \in {L(d), D(d)} : loc[g].room = loc[h].room /\ rm[g][d] = "hdel"
        /\ rm[h][d] = "hdel" => loc[h].peer = redis[loc[h].room][d]
    BY <1>1, <2>1, <2>3 DEF LeaveOK
  <2>5. ASSUME pc[h] = "hget", Ahead(h)  PROVE Ahead(h)'
    BY <1>1, <1>2, <1>3, <2>5, AheadNext
  <2>6. ASSUME NEW g \in {L(d), D(d)}, loc[g].room = loc[h].room, rm[g][d] = "hdel"
        PROVE  loc'[g].room = loc'[h].room /\ rm'[g][d] = "hdel"
    <3>1. g \in Handler /\ g[1] = d  BY <1>1
    <3>2. CASE ~Moves(g)
      <4>1. loc'[g] = loc[g] /\ rm'[g] = rm[g]  BY <1>1, <1>2, <3>1, <3>2, OthersStep
      <4> QED  BY <2>1, <2>6, <4>1
    <3>3. CASE Moves(g)
      <4>1. Busy(g) /\ rm[g] # NoRemoval  BY <2>6 DEF Busy, NoRemoval
      <4>2. HGet(g) \/ Check(g) \/ RemoveStep(g, d)  BY <1>1, <3>3, <4>1, LeaverMoves
      <4>3. ~HGet(g) /\ ~Check(g)
        <5>1. pc[g] \in {"idle", "remove"}  BY <1>1, <3>1, <4>1, OwnLine
        <5> QED  BY <5>1 DEF HGet, Check
      <4>4. HDel(g, d)  BY <2>6, <4>2, <4>3 DEF RemoveStep, HLen, Del
      <4> QED  BY <1>e, <2>1, <2>6, <3>1, <4>4
    <3> QED  BY <3>2, <3>3
  <2> QED  BY <2>1, <2>3, <2>4, <2>5, <2>6
<1>4. ASSUME Moves(h), Busy(h)
      PROVE  pc'[h] # "hget" /\ (rm'[h][d] = "hdel" => loc'[h].peer = redis'[loc'[h].room][d])
  <2>1. HGet(h) \/ Check(h) \/ RemoveStep(h, d)  BY <1>1, <1>4, LeaverMoves
  <2>2. CASE HGet(h)
    <3>1. pc'[h] = "remove" /\ redis' = redis  BY <1>1, <1>t, <2>2 DEF HGet
    <3>2. loc' = [loc EXCEPT ![h].peer = redis[loc[h].room][d]]  BY <1>1, <2>2 DEF HGet
    <3>3. loc'[h].peer = redis[loc[h].room][d] /\ loc'[h].room = loc[h].room
      BY <1>1, <1>t, <3>2 DEF Locals
    <3> QED  BY <3>1, <3>3
  <2>3. CASE Check(h)
    <3>1. rm[h] = NoRemoval /\ rm' = rm /\ pc'[h] = "idle"
      BY <1>1, <1>t, <2>3, OwnLine DEF Check
    <3> QED  BY <3>1 DEF NoRemoval
  <2>4. CASE RemoveStep(h, d)
    <3>1. rm[h][d] # "none" /\ rm'[h][d] # "hdel"  BY <1>1, <2>4, RemoveStepIs
    <3>2. pc[h] # "hget"
      <4>1. rm[h] # NoRemoval  BY <3>1 DEF NoRemoval
      <4> QED  BY <1>1, <4>1, OwnLine
    <3>3. pc'[h] = pc[h] \/ AfterRemovals(h)  BY <1>1, <2>4, RemoveStepIs
    <3>4. AfterRemovals(h) => pc'[h] # "hget"  BY <1>1, AfterIs
    <3> QED  BY <3>1, <3>2, <3>3, <3>4
  <2> QED  BY <2>1, <2>2, <2>3, <2>4
<1>5. ASSUME Moves(h), ~Busy(h), pc'[h] = "hget"
      PROVE  \/ Ahead(h)'
             \/ \E g \in {L(d), D(d)} : loc'[g].room = loc'[h].room /\ rm'[g][d] = "hdel"
  <2>1. /\ rm' = rm /\ redis' = redis
        /\ (h = L(d) /\ LeaveRoom(L(d))) \/ (h = D(d) /\ Disconnect(d))
    BY <1>1, <1>5, LeaverStarts
  <2>2. conn[d] = "up"  BY <2>1, Lines DEF LeaveRoom, Disconnect
  <2>3. CASE rm[L(d)][d] # "hdel"
    <3>1. \A g \in Handler : rm[g][d] # "hdel"  BY <1>1, <2>2, <2>3, OpenEntry
    <3> QED  BY <1>1, <2>1, <3>1, StartsAhead
  <2>4. CASE rm[L(d)][d] = "hdel"
    <3>1. h = D(d) /\ rm[L(d)] # NoRemoval  BY <1>5, <2>4 DEF Busy, NoRemoval
    <3>2. Leaving(d)  BY <1>1, <2>2, <3>1, StageOf DEF Inv, StagesOK
    <3>3. loc'[h].room = loc[L(d)].room  BY <2>1, <3>2 DEF Leaving
    <3>4. loc'[L(d)] = loc[L(d)]  BY <1>1, <1>5, <3>1, OthersRest
    <3> QED  BY <2>1, <2>4, <3>3, <3>4
  <2> QED  BY <2>3, <2>4
<1>6. ASSUME Moves(h), ~Busy(h)  PROVE rm'[h][d] # "hdel"
  BY <1>1, <1>6, LeaverStarts DEF Busy, NoRemoval
<1> QED  BY <1>3, <1>4, <1>5, <1>6

\* A join of a socket that nothing spoilt, and a command it waits for.
LEMMA JoinWaits ==
  ASSUME TypeOK, HandlersOK, NEW n \in Socket \ excused, NEW d \in Socket,
         Outstanding(<<J(n), d>>)
  PROVE  /\ J(n) \in Handler /\ J(n)[1] = n /\ J(n)[2] = "join" /\ <<J(n), d>> \in Command
         /\ pc[J(n)] # "idle" /\ Busy(J(n))
         /\ loc[J(n)].room \in Room /\ loc[J(n)].peer \in Peer
         /\ rm[J(n)][d] # "none" => pc[J(n)] = "remove"
         /\ rm[J(n)][d] = "none" => d = n /\ pc[J(n)] # "remove"
<1>1. /\ J(n) \in Handler /\ J(n)[1] = n /\ J(n)[2] = "join" /\ <<J(n), d>> \in Command
      /\ <<J(n), d>>[1] = J(n) /\ <<J(n), d>>[2] = d
  BY HandlerType, Lines, CommandIs
<1>2. (d = n /\ pc[J(n)] \notin {"idle", "remove"}) \/ rm[J(n)][d] # "none"
  BY <1>1 DEF Outstanding
<1>3. ASSUME rm[J(n)][d] # "none"  PROVE pc[J(n)] = "remove"
  <2>1. rm[J(n)] # NoRemoval  BY <1>3 DEF NoRemoval
  <2> QED  BY <1>1, <2>1 DEF HandlersOK
<1>4. ASSUME rm[J(n)][d] = "none"  PROVE d = n /\ pc[J(n)] # "remove"
  BY <1>2, <1>4
<1>5. pc[J(n)] # "idle"  BY <1>2, <1>3
<1> QED  BY <1>1, <1>3, <1>4, <1>5 DEF TypeOK, Busy

\* A handler that looks outlives no command any more.
LEMMA LookIsLast ==
  ASSUME Pipelined, TypeOK, HandlersOK, Queued, NEW h \in Handler, Check(h),
         NEW c \in Command, Outlives(h, c)
  PROVE  FALSE
<1>1. pc[h] = "check" /\ h[1] \in Socket /\ Own(h) \in Command  BY HandlerType DEF Check
<1>2. rm[h] = NoRemoval  BY <1>1, OwnLine
<1>3. Left(h) = 1  BY <1>1, <1>2 DEF Left, NoRemoval
<1>4. After(c) \in 1..5  BY DEF After
<1>5. Before(c, Own(h))  BY <1>3, <1>4 DEF Outlives
<1>6. Advances({Own(h)})  BY CheckAdvances
<1> QED  BY <1>1, <1>5, <1>6 DEF Advances

\* The join of a closed socket ends before its disconnect handler looks, but for a last DEL.
ClosedJoin ==
  \A n \in Socket \ excused : conn[n] = "down" =>
    \A d \in Socket : Outstanding(<<J(n), d>>) /\ rm[J(n)][d] # "del" =>
      /\ Departs(D(n), loc[J(n)].peer, loc[J(n)].room)
      /\ Outlives(D(n), <<J(n), d>>)

\* A socket closes in the middle of its join.
LEMMA JoinCloses ==
  ASSUME Pipelined, TypeOK, Inv, Queued, NEW n \in Socket \ excused', Disconnect(n),
         [Next]_vars, NEW d \in Socket, Outstanding(<<J(n), d>>)'
  PROVE  /\ Departs(D(n), loc[J(n)].peer, loc[J(n)].room)'
         /\ Outlives(D(n), <<J(n), d>>)'
<1> DEFINE c == <<J(n), d>>
<1>1. /\ HandlersOK /\ LanesOK /\ ConnectedOK /\ D(n) \in Handler /\ J(n) \in Handler /\ D(n) # J(n)
      /\ D(n)[1] = n /\ c \in Command /\ c[1] = J(n) /\ c[2] = d /\ Own(D(n)) \in Command
      /\ Own(D(n))[1] = D(n) /\ Own(D(n))[2] = n /\ n \notin excused
  BY HandlerType, Lines, CommandIs, ExcusedGrows DEF Inv
<1>t. pc \in [Handler -> PcOf] /\ loc \in [Handler -> Locals]  BY DEF TypeOK
<1>2. /\ conn[n] = "up" /\ rm' = rm /\ redis' = redis
      /\ pc' = [pc EXCEPT ![D(n)] = "hget"]
      /\ loc' = [loc EXCEPT ![D(n)] = [room |-> ClosingRoom(n), peer |-> None, seen |-> {}]]
      /\ Busy(J(n)) => redis[ClosingRoom(n)][n] # None
  BY <1>1, Running1 DEF Disconnect
<1>3. /\ pc'[J(n)] = pc[J(n)] /\ loc'[J(n)] = loc[J(n)] /\ pc'[D(n)] = "hget"
      /\ loc'[D(n)].room = ClosingRoom(n)
  BY <1>1, <1>t, <1>2
<1>4. Outstanding(c)  BY <1>1, <1>2, <1>3 DEF Outstanding
<1>5. Busy(J(n)) /\ (rm[J(n)][d] = "none" => d = n /\ pc[J(n)] # "remove")
  BY <1>1, <1>4, JoinWaits
<1>6. Joining(n) /\ ~Busy(L(n))
  BY <1>1, <1>2, <1>5, StageOf DEF Inv, StagesOK, Joining
<1>7. loc[J(n)].room \in Room /\ ClosingRoom(n) = loc[J(n)].room
  <2>1. loc[J(n)].room \in Room  BY <1>1, <1>5 DEF TypeOK
  <2> QED  BY <1>6, <2>1, NoneAssumption DEF Joining, ClosingRoom
<1>8. /\ pc[J(n)] \in {"expire", "hgetall", "remove"}
      /\ redis[loc[J(n)].room][n] = loc[J(n)].peer
  <2>1. redis[loc[J(n)].room][n] # None  BY <1>2, <1>5, <1>7
  <2> QED  BY <1>6, <1>7, <2>1 DEF Joining
<1>9. Ahead(D(n))'
  <2>1. \A g \in Handler : rm[g][n] # "hdel"  BY <1>1, <1>2, <1>6, OpenEntry
  <2> QED  BY <1>1, <1>2, <2>1, StartsAhead
<1>10. Departs(D(n), loc[J(n)].peer, loc[J(n)].room)'
  BY <1>1, <1>2, <1>3, <1>7, <1>8, <1>9 DEF Departs
<1>11. Left(D(n))' = 4  BY <1>3 DEF Left
<1>12. /\ After(c)' \in 1..4
       /\ After(c)' = 4 => c = Own(J(n))
  <2>1. pc'[c[1]] = pc[J(n)] /\ rm'[c[1]][c[2]] = rm[J(n)][d]
    BY <1>1, <1>2, <1>3
  <2>3. d = n => c = Own(J(n))
    BY Lines DEF Own
  <2>2. After(c)' = IF rm[J(n)][d] = "hdel" THEN 2
                    ELSE IF rm[J(n)][d] # "none" THEN 1
                    ELSE IF pc[J(n)] = "hgetall" THEN 3
                    ELSE IF pc[J(n)] = "expire" THEN 4 ELSE 5
    BY <2>1 DEF After
  <2> HIDE DEF c
  <2> QED  BY <1>5, <1>8, <2>2, <2>3
<1>13. Before(c, Own(D(n)))'
  <2>1. Advances({})  BY <1>1, RequestAdvances
  <2>2. ~Outstanding(Own(D(n)))
    <3>1. ~Busy(D(n))  BY <1>1, <1>2, OpenEntry
    <3> QED  BY <1>1, <3>1 DEF Busy, Outstanding, NoRemoval
  <2>3. Outstanding(Own(D(n)))'  BY <1>1, <1>3 DEF Outstanding, Own
  <2> HIDE DEF c
  <2> QED  BY <1>1, <1>4, <2>1, <2>2, <2>3 DEF Advances
<1>14. Outlives(D(n), c)'
  <2> HIDE DEF c
  <2>1. Outlives(D(n), c)' <=>
          After(c)' < Left(D(n))' \/ (After(c)' = Left(D(n))' /\ Before(c, Own(D(n)))')
    BY DEF Outlives, Own
  <2> QED  BY <1>11, <1>12, <1>13, <2>1
<1> QED  BY <1>10, <1>14

LEMMA ClosedJoinNext ==
  ASSUME Pipelined, TypeOK, Inv, ExactInv, Queued, Waiting, ClosedJoin, [Next]_vars
  PROVE  ClosedJoin'
<1> SUFFICES ASSUME NEW n \in Socket \ excused', conn'[n] = "down", NEW d \in Socket,
                    Outstanding(<<J(n), d>>)', rm'[J(n)][d] # "del"
             PROVE  /\ Departs(D(n), loc[J(n)].peer, loc[J(n)].room)'
                    /\ Outlives(D(n), <<J(n), d>>)'
  BY DEF ClosedJoin
<1> DEFINE c == <<J(n), d>>
<1>1. /\ HandlersOK /\ LanesOK /\ ConnectedOK /\ D(n) \in Handler /\ J(n) \in Handler /\ D(n) # J(n)
      /\ D(n)[1] = n /\ J(n)[1] = n /\ c \in Command /\ c[1] = J(n) /\ c[2] = d
      /\ n \notin excused /\ D(n) \in {L(n), D(n)}
  BY HandlerType, Lines, CommandIs, ExcusedGrows DEF Inv
<1>t. /\ pc \in [Handler -> PcOf] /\ loc \in [Handler -> Locals]
      /\ rm \in [Handler -> [Socket -> RmOf]]
  BY DEF TypeOK
<1>2. ~Restart
  <2>1. Restart => pc'[J(n)] = "idle" /\ rm'[J(n)] = NoRemoval  BY <1>1 DEF Restart
  <2> QED  BY <1>1, <2>1 DEF Outstanding, NoRemoval
<1>3. CASE conn[n] # "down"
  <2>1. Disconnect(n)  BY <1>2, <1>3, Closes
  <2> QED  BY <2>1, JoinCloses
<1>4. CASE conn[n] = "down"
  \* Where the command before it is c0 and does not grow, the departure goes on.
  <2>a. ASSUME NEW d0 \in Socket, Outstanding(<<J(n), d0>>), rm[J(n)][d0] # "del"
        PROVE  /\ loc[J(n)].room \in Room /\ loc[J(n)].peer \in Peer
               /\ Departs(D(n), loc[J(n)].peer, loc[J(n)].room)
               /\ Departs(D(n), loc[J(n)].peer, loc[J(n)].room)'
                    \/ loc'[J(n)].room # loc[J(n)].room \/ loc'[J(n)].peer # loc[J(n)].peer
               /\ Outlives(D(n), <<J(n), d0>>) /\ ~Check(D(n))
    <3>1. /\ Departs(D(n), loc[J(n)].peer, loc[J(n)].room)
          /\ Outlives(D(n), <<J(n), d0>>)
      BY <1>1, <1>4, <2>a DEF ClosedJoin
    <3>2. /\ loc[J(n)].room \in Room /\ loc[J(n)].peer \in Peer /\ <<J(n), d0>> \in Command
      BY <1>1, <2>a, JoinWaits
    <3>3. ~Check(D(n))  BY <1>1, <3>1, <3>2, LookIsLast
    <3>4. ASSUME NEW p \in Peer, NEW r \in Room, Departs(D(n), p, r)
          PROVE  Departs(D(n), p, r)'
      BY <1>1, <1>2, <3>3, <3>4, DepartsNext
    <3>5. Departs(D(n), loc[J(n)].peer, loc[J(n)].room)'
            \/ loc'[J(n)].room # loc[J(n)].room \/ loc'[J(n)].peer # loc[J(n)].peer
      <4> SUFFICES ASSUME loc'[J(n)].room = loc[J(n)].room, loc'[J(n)].peer = loc[J(n)].peer
                   PROVE  Departs(D(n), loc[J(n)].peer, loc[J(n)].room)'
        OBVIOUS
      <4> DEFINE p == loc[J(n)].peer
      <4> DEFINE r == loc[J(n)].room
      <4>1. \E q \in Peer, m \in Room :
              q = p /\ m = r /\ (Departs(D(n), q, m))'
        BY <3>1, <3>2, <3>4
      <4> QED  BY <4>1 DEF Departs
    <3> QED  BY <3>1, <3>2, <3>3, <3>5
  <2>b. ASSUME Outstanding(c), rm[J(n)][d] # "del",
               loc'[J(n)].room = loc[J(n)].room, loc'[J(n)].peer = loc[J(n)].peer,
               \/ After(c)' < After(c)
               \/ ~Moves(J(n))
               \/ rm[J(n)][d] # "none" /\ rm'[J(n)][d] = rm[J(n)][d]
        PROVE  /\ Departs(D(n), loc[J(n)].peer, loc[J(n)].room)' /\ Outlives(D(n), c)'
    <3>1. /\ loc[J(n)].room \in Room /\ loc[J(n)].peer \in Peer
          /\ Departs(D(n), loc[J(n)].peer, loc[J(n)].room)
          /\ Departs(D(n), loc[J(n)].peer, loc[J(n)].room)'
          /\ Outlives(D(n), c) /\ ~Check(D(n))
      BY <2>a, <2>b
    <3>2. Outlives(D(n), c)'  BY <1>1, <1>2, <2>b, <3>1, LeaverNext
    <3> QED  BY <3>1, <3>2
  <2>1. CASE ~Moves(J(n))
    <3>1. pc'[J(n)] = pc[J(n)] /\ loc'[J(n)] = loc[J(n)] /\ rm'[J(n)] = rm[J(n)]
      BY <1>1, <1>2, <2>1, OthersStep
    <3>2. Outstanding(c)  BY <1>1, <3>1 DEF Outstanding
    <3> QED  BY <2>1, <2>b, <3>1, <3>2
  <2>2. CASE Expire(J(n))
    <3>1. pc[J(n)] = "expire" /\ rm' = rm /\ loc' = loc /\ pc'[J(n)] = "hgetall"
      BY <1>1, <1>t, <2>2 DEF Expire
    <3>2. rm[J(n)] = NoRemoval  BY <1>1, <3>1, OwnLine
    <3>3. Outstanding(c) /\ After(c) = 4 /\ After(c)' = 3
      BY <1>1, <3>1, <3>2 DEF Outstanding, After, NoRemoval
    <3> QED  BY <2>b, <3>1, <3>2, <3>3 DEF NoRemoval
  <2>3. CASE HGetAll(J(n))
    <3>1. pc[J(n)] = "hgetall"  BY <2>3 DEF HGetAll
    <3>2. rm[J(n)] = NoRemoval  BY <1>1, <3>1, OwnLine
    <3>3. Dead(loc[J(n)].room) # {}
      <4>1. Dead(loc[J(n)].room) = {} => pc' = [pc EXCEPT ![J(n)] = "idle"] /\ rm' = rm
        BY <2>3 DEF HGetAll, Announce
      <4> QED  BY <1>1, <1>t, <3>2, <4>1 DEF Outstanding, NoRemoval
    <3>4. /\ pc'[J(n)] = "remove" /\ loc'[J(n)].room = loc[J(n)].room
          /\ loc'[J(n)].peer = loc[J(n)].peer /\ rm'[J(n)][d] \in {"hdel", "none"}
      <4>1. /\ pc' = [pc EXCEPT ![J(n)] = "remove"]
            /\ \E seen : loc' = [loc EXCEPT ![J(n)].seen = seen]
            /\ rm' = [rm EXCEPT ![J(n)] = [e \in Socket |->
                        IF e \in Dead(loc[J(n)].room) THEN "hdel" ELSE "none"]]
        BY <2>3, <3>3 DEF HGetAll
      <4> QED  BY <1>1, <1>t, <4>1 DEF Locals
    <3>5. After(c)' = 2  BY <1>1, <3>4 DEF Outstanding, After
    <3>6. /\ Outstanding(<<J(n), n>>) /\ rm[J(n)][n] # "del" /\ After(<<J(n), n>>) = 3
      BY <1>1, <3>1, <3>2 DEF Outstanding, After, NoRemoval
    <3>7. /\ Departs(D(n), loc[J(n)].peer, loc[J(n)].room)'
          /\ Outlives(D(n), <<J(n), n>>)
      BY <2>a, <3>4, <3>6
    <3>8. Left(D(n)) \in 3..4
      <4>1. Left(D(n)) \in 1..4  BY DEF Left
      <4> QED  BY <3>6, <3>7, <4>1 DEF Outlives
    <3>9. Left(D(n))' = Left(D(n))
      <4>1. Moves(J(n))  BY <1>1, <2>3 DEF Moves, JoinStep
      <4>2. pc'[D(n)] = pc[D(n)] /\ rm'[D(n)] = rm[D(n)]  BY <1>1, <4>1, OthersRest
      <4> QED  BY <4>2 DEF Left
    <3>10. Outlives(D(n), c)'
      <4> HIDE DEF c
      <4>1. After(c)' < Left(D(n))'  BY <3>5, <3>8, <3>9
      <4> QED  BY <4>1 DEF Outlives
    <3> QED  BY <3>7, <3>10
  <2>4. ASSUME NEW e \in Socket, RemoveStep(J(n), e)
        PROVE  /\ Departs(D(n), loc[J(n)].peer, loc[J(n)].room)' /\ Outlives(D(n), c)'
    <3>1. pc[J(n)] = "remove" /\ Outstanding(<<J(n), e>>)
      <4>1. rm[J(n)][e] # "none"  BY <1>1, <2>4, RemoveStepIs
      <4>2. Outstanding(<<J(n), e>>)  BY <1>1, <4>1 DEF Outstanding
      <4> QED  BY <1>1, <4>1, <4>2, JoinWaits
    <3>2. ~AfterRemovals(J(n)) \/ rm'[J(n)] # NoRemoval
      <4>1. AfterRemovals(J(n)) => pc'[J(n)] = "idle"  BY <1>1, Lines, AfterIs
      <4> QED  BY <1>1, <4>1 DEF Outstanding, NoRemoval
    <3>3. pc'[J(n)] = pc[J(n)] /\ loc'[J(n)] = loc[J(n)]
      BY <1>1, <2>4, <3>1, <3>2, RemoveStepIs
    <3>4. rm'[J(n)][d] # "none"  BY <1>1, <3>1, <3>3 DEF Outstanding
    <3>5. CASE d # e
      <4>1. rm'[J(n)][d] = rm[J(n)][d]  BY <1>1, <2>4, <3>5, RemoveStepIs
      <4>2. Outstanding(c)  BY <1>1, <3>4, <4>1 DEF Outstanding
      <4> QED  BY <2>b, <3>3, <3>4, <4>1, <4>2
    <3>6. CASE d = e
      <4>1. rm[J(n)][d] = "hdel" /\ rm'[J(n)][d] = "hlen"
        BY <1>1, <2>4, <3>4, <3>6, RemoveStepIs
      <4>2. Outstanding(c) /\ After(c) = 2 /\ After(c)' = 1
        BY <1>1, <4>1 DEF Outstanding, After
      <4> QED  BY <2>b, <3>3, <4>1, <4>2
    <3> QED  BY <3>5, <3>6
  <2>5. \A e \in Socket : ~Fail(J(n), e)  BY <1>1 DEF Fail
  <2>6. \A r \in Room : \A p \in Ids[n] : ~JoinRoom(J(n), r, p)  BY <1>4, Lines DEF JoinRoom
  <2>7. ~HExists(J(n)) /\ ~HSet(J(n))
    <3>1. Gone(n)  BY <1>1, <1>4 DEF ExactInv, DepartedOK
    <3> QED  BY <3>1 DEF Gone, HExists, HSet
  <2>8. ~HGet(J(n)) /\ ~Check(J(n)) /\ ~LeaveRoom(J(n))
    <3>1. pc[J(n)] \notin {"hget", "check"}  BY <1>1, Lines DEF HandlersOK
    <3> QED  BY <3>1, Lines DEF HGet, Check, LeaveRoom
  <2>9. CASE Moves(J(n))
    <3>1. Expire(J(n)) \/ HGetAll(J(n)) \/ \E e \in Socket : RemoveStep(J(n), e)
      BY <1>1, <2>5, <2>6, <2>7, <2>8, <2>9, Lines DEF Moves, JoinStep
    <3> QED  BY <2>2, <2>3, <2>4, <3>1
  <2> QED  BY <2>1, <2>9
<1> QED  BY <1>3, <1>4

-----------------------------------------------------------------------------
(* What a member has heard.                                                *)

\* What the client of m lists, or will list when its join has awaited the removals.
Heard(m) ==
  IF joined[m] THEN view[m] ELSE IF pc[J(m)] = "remove" THEN loc[J(m)].seen ELSE {}
\* A handler of t is to tell the room of m that p has left, when the join of m has ended.
Leaver(m, t, p) ==
  \E h \in {L(t), D(t)} :
    /\ Departs(h, p, want[m])
    /\ \A d \in Socket : rm[J(m)][d] # "none" => Outlives(h, <<J(m), d>>)
\* The reason why m may list p: a spoilt socket, one in the room, one about to leave it.
Backed(m, t, p) ==
  IF t \in excused THEN p \in Ids[t]
  ELSE (conn[t] = "up" /\ self[t] = p /\ want[t] = want[m]) \/ Leaver(m, t, p)
HeardOK ==
  \A m \in Socket \ excused : conn[m] = "up" =>
    \A p \in Heard(m) : \E t \in Socket : Backed(m, t, p)

\* So is every peer whose entry HGETALL returns to a join of the room, or that is there
\* when it has ended.
EntriesBacked ==
  \A m \in Socket \ excused, t \in Socket, p \in Peer :
    want[m] \in Room /\ redis[want[m]][t] = p /\ (want[m] \in adapter[t] \/ joined[m])
      => Backed(m, t, p)

LEMMA EntryBacked == TypeOK /\ Inv /\ ExactInv /\ Presented /\ LeaveOK => EntriesBacked
<1> SUFFICES ASSUME TypeOK, Inv, ExactInv, Presented, LeaveOK,
                    NEW m \in Socket \ excused, NEW t \in Socket, NEW p \in Peer,
                    want[m] \in Room, redis[want[m]][t] = p, want[m] \in adapter[t] \/ joined[m]
             PROVE  Backed(m, t, p)
  BY DEF EntriesBacked
<1>1. p # None  BY NoneAssumption
<1>2. /\ HandlersOK /\ LanesOK /\ ConnectedOK /\ StagesOK /\ L(t) \in Handler /\ D(t) \in Handler
      /\ L(t)[1] = t /\ D(t)[1] = t /\ L(t) # D(t)
  BY HandlerType, Lines DEF Inv
<1>3. CASE t \in excused
  <2>1. p \in Ids[t]  BY <1>1 DEF Presented
  <2> QED  BY <1>3, <2>1 DEF Backed
<1>4. ASSUME t \notin excused, conn[t] = "up"  PROVE Backed(m, t, p)
  <2>1. Stage(t)  BY <1>2, <1>4 DEF StagesOK
  <2>2. ~Outside(t)  BY <1>1 DEF Outside
  <2>3. ASSUME Joining(t) \/ Member(t)  PROVE Backed(m, t, p)
    <3>1. want[m] = want[t] /\ p = self[t]  BY <1>1, <2>3 DEF Joining, Member
    <3> QED  BY <1>4, <3>1 DEF Backed
  <2>4. ASSUME Leaving(t)  PROVE Backed(m, t, p)
    <3>1. /\ want[m] = loc[L(t)].room /\ rm[L(t)][t] \in {"none", "hdel"}
          /\ pc[L(t)] \in {"hget", "remove"} /\ (pc[L(t)] = "remove" => rm[L(t)][t] # "none")
      BY <1>1, <2>4 DEF Leaving
    <3>2. /\ pc[L(t)] = "hget" =>
               Ahead(L(t)) \/ \E g \in {L(t), D(t)} : rm[g][t] = "hdel"
          /\ rm[L(t)][t] = "hdel" => loc[L(t)].peer = p
      BY <1>1, <1>4, <3>1 DEF LeaveOK
    <3>3. CASE pc[L(t)] = "hget"
      <4>1. rm[D(t)][t] = "none"  BY <1>2, <1>4, OpenEntry
      <4>2. rm[L(t)] = NoRemoval  BY <1>2, <3>3, OwnLine
      <4>3. Ahead(L(t))  BY <3>2, <3>3, <4>1, <4>2 DEF NoRemoval
      <4>4. Departs(L(t), p, want[m])  BY <1>2, <3>1, <3>3, <4>3 DEF Departs
      <4>5. Left(L(t)) = 4  BY <3>3 DEF Left
      <4>6. \A d \in Socket : rm[J(m)][d] # "none" => Outlives(L(t), <<J(m), d>>)
        BY <4>5 DEF Outlives, After
      <4> QED  BY <1>4, <4>4, <4>6 DEF Backed, Leaver
    <3>4. CASE pc[L(t)] = "remove"
      <4>1. rm[L(t)][t] = "hdel"  BY <3>1, <3>4
      <4>2. Departs(L(t), p, want[m])  BY <3>1, <3>2, <3>4, <4>1 DEF Departs
      <4>3. Left(L(t)) = 3  BY <1>2, <3>4, <4>1 DEF Left
      <4>4. \A d \in Socket : rm[J(m)][d] # "none" => Outlives(L(t), <<J(m), d>>)
        BY <4>3 DEF Outlives, After
      <4> QED  BY <1>4, <4>2, <4>4 DEF Backed, Leaver
    <3> QED  BY <3>1, <3>3, <3>4
  <2> QED  BY <2>1, <2>2, <2>3, <2>4 DEF Stage
<1>5. ASSUME t \notin excused, conn[t] = "down"  PROVE Backed(m, t, p)
  <2>1. joined[m]  BY <1>2, <1>5 DEF ConnectedOK
  <2>2. Told(m, want[m])  BY <2>1 DEF Told
  <2>3. Going(t, want[m])  BY <1>1, <1>5, <2>2 DEF ExactInv, DepartedOK, Gone
  <2>4. \A d \in Socket : rm[J(m)][d] = "none"
    <3>1. ~Busy(J(m))  BY <1>2, <2>1, JoinedIsMember DEF Member
    <3> QED  BY <3>1 DEF Busy, NoRemoval
  <2>5. ASSUME NEW h \in {L(t), D(t)}, loc[h].room = want[m], rm[h][t] = "hdel"
        PROVE  Departs(h, p, want[m])
    <3>1. rm[h] # NoRemoval /\ h[1] = t /\ h \in Handler  BY <1>2, <2>5 DEF NoRemoval
    <3>2. pc[h] = "remove"  BY <1>2, <1>5, <3>1 DEF HandlersOK
    <3>3. loc[h].peer = p  BY <1>1, <1>5, <2>5 DEF LeaveOK
    <3> QED  BY <2>5, <3>2, <3>3 DEF Departs
  <2>6. ASSUME NEW h \in {L(t), D(t)}, loc[h].room = want[m], pc[h] = "hget"
        PROVE  Departs(h, p, want[m]) \/ \E g \in {L(t), D(t)} : Departs(g, p, want[m])
    <3>1. h[1] = t  BY <1>2
    <3>2. Ahead(h) \/ \E g \in {L(t), D(t)} : loc[g].room = want[m] /\ rm[g][t] = "hdel"
      BY <1>1, <1>5, <2>6 DEF LeaveOK
    <3>3. Ahead(h) => Departs(h, p, want[m])  BY <2>6, <3>1 DEF Departs
    <3> QED  BY <2>5, <3>2, <3>3
  <2>7. \E h \in {L(t), D(t)} : Departs(h, p, want[m])
    BY <2>3, <2>5, <2>6 DEF Going
  <2> QED  BY <1>5, <2>4, <2>7 DEF Backed, Leaver
<1>6. conn[t] \in {"up", "down"}
  <2>1. conn[t] \in {"new", "up", "down"}  BY DEF TypeOK
  <2> QED  BY <1>1, <1>2, <2>1 DEF ConnectedOK
<1> QED  BY <1>3, <1>4, <1>5, <1>6

\* Where a member hears of a peer: it has heard of it, HGETALL returns it, or it is told.
LEMMA HeardComes ==
  ASSUME TypeOK, Inv, ExactInv, [Next]_vars, NEW m \in Socket \ excused', conn'[m] = "up",
         NEW p \in Heard(m)'
  PROVE  /\ p \in Peer /\ ~Restart /\ m \notin excused /\ conn[m] = "up"
         /\ want'[m] = want[m] /\ want[m] \in Room
         /\ \/ p \in Heard(m)
            \/ HGetAll(J(m)) /\ \E d \in Socket : redis[want[m]][d] = p /\ want[m] \in adapter[d]
            \/ joined[m] /\ joined'[m] /\ p \notin view[m] /\ p \in view'[m]
<1>1. /\ HandlersOK /\ LanesOK /\ ConnectedOK /\ StagesOK /\ m \notin excused /\ ~Restart
      /\ J(m) \in Handler /\ J(m)[1] = m /\ J(m)[2] = "join" /\ TypeOK' /\ Inv'
      /\ HandlersOK' /\ ConnectedOK' /\ StagesOK'
  <2>1. HandlersOK /\ LanesOK /\ ConnectedOK /\ StagesOK  BY DEF Inv
  <2>2. TypeOK' /\ Inv'  BY InvNext
  <2>3. HandlersOK' /\ ConnectedOK' /\ StagesOK'  BY <2>2 DEF Inv
  <2>4. ~Restart  BY DEF Restart
  <2> QED  BY <2>1, <2>2, <2>3, <2>4, HandlerType, Lines, ExcusedGrows
<1>t. /\ pc \in [Handler -> PcOf] /\ loc \in [Handler -> Locals] /\ joined \in [Socket -> BOOLEAN]
      /\ view \in [Socket -> SUBSET Peer]
      /\ redis \in [Room -> [Socket -> Peer \cup {None}]]
  BY <1>1 DEF TypeOK
<1>2. p \in Peer
  <2>1. view'[m] \subseteq Peer /\ loc'[J(m)].seen \subseteq Peer
    BY <1>1 DEF TypeOK, Locals
  <2> QED  BY <2>1 DEF Heard
\* What HGETALL leaves of the entries of a room.
<1>g. ASSUME HGetAll(J(m)), want[m] = loc[J(m)].room, want[m] \in Room,
             p \in {redis[want[m]][d] : d \in Entries(want[m]) \ Dead(want[m])}
      PROVE  HGetAll(J(m)) /\ \E d \in Socket : redis[want[m]][d] = p /\ want[m] \in adapter[d]
  BY <1>g DEF Entries, Dead
<1>3. CASE joined'[m]
  <2>1. CASE joined[m]
    <3>1. want'[m] = want[m]  BY <1>1, <1>3, <2>1, StaysMember
    <3>2. conn[m] = "up" /\ want[m] \in Room  BY <1>1, <2>1, JoinedIsMember DEF Member
    <3>3. p \in view'[m]  BY <1>3 DEF Heard
    <3>4. p \in view[m] => p \in Heard(m)  BY <2>1 DEF Heard
    <3> QED  BY <1>1, <1>2, <1>3, <2>1, <3>1, <3>2, <3>3, <3>4
  <2>2. CASE ~joined[m]
    <3>1. want'[m] = want[m]  BY <1>1, <1>3, <2>2, BecomesMember
    <3>2. want[m] \in Room
      <4>1. WantsOK'  BY <1>1, WantsNext DEF ExactInv
      <4> QED  BY <1>3, <3>1, <4>1 DEF WantsOK
    <3>3. /\ loc[J(m)].room = want[m]
          /\ \/ HGetAll(J(m)) /\ Announce(J(m), {redis[loc[J(m)].room][d] : d \in Entries(loc[J(m)].room)}
                                            \ {loc[J(m)].peer})
                /\ Dead(loc[J(m)].room) = {}
             \/ pc[J(m)] = "remove" /\ Announce(J(m), loc[J(m)].seen)
      BY <1>1, <1>3, <2>2, JoinsAlone DEF Ends
    <3>4. \A seen : Announce(J(m), seen) => p \in seen
      <4>1. p \in view'[m]  BY <1>3 DEF Heard
      <4>2. \A seen : Announce(J(m), seen) =>
              view'[m] = IF conn[m] = "up" THEN seen \ {self[m]} ELSE ToldJoined(loc[J(m)].room, loc[J(m)].peer)[m]
        BY <1>1, <1>t DEF Announce, ToldJoined
      <4>3. \A seen : Announce(J(m), seen) => conn[m] = "up"
        BY <1>1, <1>t, <1>3, <2>2 DEF Announce
      <4> QED  BY <4>1, <4>2, <4>3
    <3>5. conn[m] = "up"  BY <1>1, <1>t, <1>3, <2>2, <3>3 DEF Announce
    <3>6. CASE HGetAll(J(m)) /\ Announce(J(m), {redis[loc[J(m)].room][d] : d \in Entries(loc[J(m)].room)}
                                            \ {loc[J(m)].peer})
                /\ Dead(loc[J(m)].room) = {}
      <4>1. p \in {redis[want[m]][d] : d \in Entries(want[m]) \ Dead(want[m])}
        BY <3>3, <3>4, <3>6
      <4> QED  BY <1>1, <1>2, <1>g, <3>1, <3>2, <3>3, <3>5, <3>6, <4>1
    <3>7. CASE pc[J(m)] = "remove" /\ Announce(J(m), loc[J(m)].seen)
      <4>1. p \in Heard(m)  BY <2>2, <3>4, <3>7 DEF Heard
      <4> QED  BY <1>1, <1>2, <3>1, <3>2, <3>5, <4>1
    <3> QED  BY <3>3, <3>6, <3>7
  <2> QED  BY <2>1, <2>2
<1>4. CASE ~joined'[m]
  <2>1. pc'[J(m)] = "remove" /\ p \in loc'[J(m)].seen  BY <1>4 DEF Heard
  <2>2. pc[J(m)] # "idle"
    <3>1. ASSUME pc[J(m)] = "idle"  PROVE FALSE
      <4>1. \A r \in Room : \A q \in Ids[m] : ~JoinRoom(J(m), r, q)
        BY <1>1, <1>t, <2>1 DEF JoinRoom
      <4>2. ~JoinStep(J(m))  BY <3>1 DEF JoinStep, HExists, HSet, Expire, HGetAll
      <4>3. ASSUME NEW d \in Socket, RemoveStep(J(m), d)  PROVE FALSE
        <5>1. pc'[J(m)] = pc[J(m)] \/ pc[J(m)] = "remove"  BY <1>1, <4>3, RemoveStepIs
        <5> QED  BY <2>1, <3>1, <5>1
      <4>4. \A d \in Socket : ~Fail(J(m), d)  BY <1>1 DEF Fail
      <4> QED  BY <1>1, <2>1, <3>1, <4>1, <4>2, <4>3, <4>4, JoinMoves
    <3> QED  BY <3>1
  <2>3. conn[m] = "up" /\ Joining(m) /\ want'[m] = want[m]
    BY <1>1, <2>1, <2>2, JoiningOn
  <2>4. want[m] = loc[J(m)].room /\ want[m] \in Room
    BY <1>1, <2>2, <2>3 DEF Joining, TypeOK, Busy
  <2>5. CASE HGetAll(J(m))
    <3> DEFINE r == loc[J(m)].room
    <3>1. Dead(r) # {}
      <4>1. Dead(r) = {} => pc' = [pc EXCEPT ![J(m)] = "idle"]  BY <2>5 DEF HGetAll, Announce
      <4> QED  BY <1>1, <1>t, <2>1, <4>1
    <3>2. loc' = [loc EXCEPT ![J(m)].seen =
                    {redis[r][d] : d \in Entries(r) \ Dead(r)} \ {loc[J(m)].peer}]
      BY <2>5, <3>1 DEF HGetAll
    <3>3. p \in {redis[r][d] : d \in Entries(r) \ Dead(r)}
      <4> DEFINE seen == {redis[r][d] : d \in Entries(r) \ Dead(r)} \ {loc[J(m)].peer}
      <4> HIDE DEF seen
      <4>1. loc' = [loc EXCEPT ![J(m)].seen = seen]  BY <3>2 DEF seen
      <4>2. loc'[J(m)].seen = seen  BY <1>1, <1>t, <4>1 DEF Locals
      <4> QED  BY <2>1, <4>2 DEF seen
    <3> QED  BY <1>1, <1>2, <1>g, <2>3, <2>4, <2>5, <3>3
  <2>6. CASE ~HGetAll(J(m))
    <3>1. pc[J(m)] = "remove" /\ loc'[J(m)] = loc[J(m)]
      <4>1. \A r \in Room : \A q \in Ids[m] : ~JoinRoom(J(m), r, q)
        BY <2>2 DEF JoinRoom, First, Busy
      <4>2. ~HExists(J(m)) /\ ~HSet(J(m)) /\ ~Expire(J(m))
        BY <1>1, <1>t, <2>1 DEF HExists, HSet, Expire
      <4>3. ASSUME NEW d \in Socket, RemoveStep(J(m), d)
            PROVE  pc[J(m)] = "remove" /\ loc'[J(m)] = loc[J(m)]
        <5>1. ~AfterRemovals(J(m))  BY <1>1, <2>1, AfterIs
        <5> QED  BY <1>1, <2>1, <2>2, <4>3, <5>1, RemoveStepIs
      <4>4. \A d \in Socket : ~Fail(J(m), d)  BY <1>1 DEF Fail
      <4> QED  BY <1>1, <2>1, <2>6, <4>1, <4>2, <4>3, <4>4, JoinMoves DEF JoinStep
    <3>2. ~joined[m]  BY <2>3 DEF Joining
    <3>3. p \in Heard(m)  BY <2>1, <3>1, <3>2 DEF Heard
    <3> QED  BY <1>1, <1>2, <2>3, <2>4, <3>3
  <2> QED  BY <2>5, <2>6
<1> QED  BY <1>3, <1>4

\* An open socket that asked for a room stays as it is until it leaves or closes, or is
\* spoilt by asking for another.
SetsOff(t) == (\E h \in Handler : h[1] = t /\ LeaveRoom(h)) \/ Disconnect(t)
LEMMA UpStays ==
  ASSUME TypeOK, HandlersOK, StagesOK, [Next]_vars, ~Restart, NEW t \in Socket \ excused',
         conn[t] = "up", want[t] # None
  PROVE  \/ conn'[t] = "up" /\ self'[t] = self[t] /\ want'[t] = want[t]
         \/ SetsOff(t)
<1>t. /\ conn \in [Socket -> {"new", "up", "down"}] /\ self \in [Socket -> Peer \cup {None}]
      /\ want \in [Socket -> Room \cup {None}] /\ \A h \in Handler : h[1] \in Socket
  BY HandlerType DEF TypeOK
<1>1. CASE conn' = conn /\ self' = self /\ want' = want
  BY <1>1
<1>2. CASE \/ \E s \in Socket : Connect(s) \/ Disconnect(s)
           \/ \E h \in Handler : LeaveRoom(h)
  BY <1>t, <1>2 DEF Connect, LeaveRoom, Disconnect, SetsOff
<1>3. ASSUME NEW h \in Handler, NEW r \in Room, NEW p \in Ids[h[1]], JoinRoom(h, r, p)
      PROVE  conn'[t] = "up" /\ self'[t] = self[t] /\ want'[t] = want[t]
  <2>1. h[1] # t  BY <1>3, JoinAlone
  <2> QED  BY <1>t, <1>3, <2>1 DEF JoinRoom
<1> QED
  BY <1>1, <1>2, <1>3
     DEF Next, vars, JoinStep, HExists, HSet, Expire, HGetAll, HGet, RemoveStep, HDel, HLen,
         Del, Check, Fail, RoomExpires

\* One that nothing spoils then is on its way out with its own entry.
LEMMA MemberLeaves ==
  ASSUME Pipelined, TypeOK, Inv, NEW t \in Socket \ excused', [Next]_vars,
         conn[t] = "up", NEW p \in Peer, p = self[t], NEW r \in Room, r = want[t],
         SetsOff(t)
  PROVE  \E h \in {L(t), D(t)} : Departs(h, p, r)' /\ Left(h)' = 4
<1>1. /\ HandlersOK /\ LanesOK /\ StagesOK /\ t \notin excused /\ L(t) \in Handler /\ D(t) \in Handler
      /\ L(t)[1] = t /\ D(t)[1] = t
  BY HandlerType, Lines, ExcusedGrows DEF Inv
<1>t. pc \in [Handler -> PcOf] /\ loc \in [Handler -> Locals]  BY DEF TypeOK
<1>2. Joining(t) \/ Member(t)
  <2>1. Stage(t)  BY <1>1 DEF StagesOK
  <2>2. want[t] # None  BY NoneAssumption
  <2> QED  BY <2>1, <2>2 DEF Stage, Outside, Leaving
<1>3. /\ dataRoom[t] = want[t] /\ want[t] # None /\ ~Busy(L(t)) /\ self[t] # None
      /\ redis[want[t]][t] \in {self[t], None} /\ (Member(t) => redis[want[t]][t] = self[t])
      /\ Member(t) \/ Busy(J(t))
  BY <1>2, NoneAssumption DEF Joining, Member, Busy
<1>4. rm' = rm /\ redis' = redis
  BY DEF SetsOff, LeaveRoom, Disconnect
<1>5. \A h \in {L(t), D(t)} : Ahead(h)'
  <2>1. \A g \in Handler : rm[g][t] # "hdel"  BY <1>1, <1>3, OpenEntry
  <2> QED  BY <1>1, <1>4, <2>1, StartsAhead
<1>6. CASE \E h \in Handler : h[1] = t /\ LeaveRoom(h)
  <2>0. LeaveRoom(L(t)) /\ ~Busy(J(t))  BY <1>1, <1>3, <1>6, LeaveAlone
  <2>1. /\ pc' = [pc EXCEPT ![L(t)] = "hget"]
        /\ loc' = [loc EXCEPT ![L(t)] = [room |-> dataRoom[t], peer |-> None, seen |-> {}]]
        /\ ~Busy(J(t))
    BY <1>1, <1>3, <2>0 DEF LeaveRoom
  <2>2. pc'[L(t)] = "hget" /\ loc'[L(t)].room = want[t]  BY <1>1, <1>t, <1>3, <2>1
  <2>3. redis[want[t]][t] = self[t]  BY <1>3, <2>1
  <2>4. Departs(L(t), p, r)'  BY <1>1, <1>4, <1>5, <2>2, <2>3 DEF Departs
  <2>5. Left(L(t))' = 4  BY <2>2 DEF Left
  <2> QED  BY <2>4, <2>5
<1>7. CASE Disconnect(t)
  <2>1. /\ pc' = [pc EXCEPT ![D(t)] = "hget"]
        /\ loc' = [loc EXCEPT ![D(t)] = [room |-> want[t], peer |-> None, seen |-> {}]]
        /\ Busy(J(t)) => redis[want[t]][t] # None
    <3>1. ClosingRoom(t) = want[t]  BY <1>3 DEF ClosingRoom
    <3> QED  BY <1>7, <3>1, Running1 DEF Disconnect
  <2>2. pc'[D(t)] = "hget" /\ loc'[D(t)].room = want[t]  BY <1>1, <1>t, <2>1
  <2>3. redis[want[t]][t] = self[t]  BY <1>3, <2>1
  <2>4. Departs(D(t), p, r)'  BY <1>1, <1>4, <1>5, <2>2, <2>3 DEF Departs
  <2>5. Left(D(t))' = 4  BY <2>2 DEF Left
  <2> QED  BY <2>4, <2>5
<1> QED  BY <1>6, <1>7 DEF SetsOff

\* What backs a peer that a member has heard of goes on, or another entry of the peer does.
LEMMA BackedStays ==
  ASSUME Pipelined, TypeOK, Inv, ExactInv, Queued, Waiting, Presented, [Next]_vars, ~Restart,
         TypeOK', EntriesBacked', NEW m \in Socket \ excused', conn[m] = "up", conn'[m] = "up",
         NEW r \in Room, want[m] = r, want'[m] = r, NEW p \in Peer, p \in Heard(m), p \in Heard(m)',
         NEW t \in Socket, Backed(m, t, p)
  PROVE  \E x \in Socket : Backed(m, x, p)'
<1>1. /\ HandlersOK /\ LanesOK /\ ConnectedOK /\ StagesOK /\ m \notin excused /\ excused \subseteq excused'
      /\ L(t) \in Handler /\ D(t) \in Handler /\ L(t)[1] = t /\ D(t)[1] = t
      /\ J(m) \in Handler /\ J(m)[1] = m /\ J(m)[2] = "join" /\ p # None
  BY HandlerType, Lines, ExcusedGrows, NoneAssumption DEF Inv
<1>2. CASE t \in excused
  BY <1>1, <1>2 DEF Backed
<1>3. ASSUME t \notin excused, t \in excused'  PROVE \E x \in Socket : Backed(m, x, p)'
  <2>1. CASE self[t] = p
    <3>1. p \in Ids[t]  BY <1>1, <2>1 DEF Presented
    <3> QED  BY <1>3, <3>1 DEF Backed
  <2>2. ASSUME NEW h \in {L(t), D(t)}, Departs(h, p, r)  PROVE p \in Ids[t]
    <3>1. h \in Handler /\ h[1] = t  BY <1>1
    <3>2. loc[h].peer = p \/ redis[r][t] = p  BY <2>2, <3>1 DEF Departs
    <3> QED  BY <1>1, <3>1, <3>2 DEF Presented
  <2> QED  BY <1>3, <2>1, <2>2 DEF Backed, Leaver
\* The removals that the join of m awaits.
<1>r. ASSUME NEW d \in Socket, rm'[J(m)][d] # "none"
      PROVE  /\ rm[J(m)][d] # "none" /\ After(<<J(m), d>>)' <= 2
             /\ \/ After(<<J(m), d>>)' < After(<<J(m), d>>)
                \/ ~Moves(J(m))
                \/ rm'[J(m)][d] = rm[J(m)][d]
  <2>1. <<J(m), d>>[1] = J(m) /\ <<J(m), d>>[2] = d  OBVIOUS
  <2>2. After(<<J(m), d>>)' \in 1..2  BY <1>r, <2>1 DEF After
  <2>3. CASE ~Moves(J(m))
    <3>1. rm'[J(m)] = rm[J(m)]  BY <1>1, <2>3, OthersStep
    <3> QED  BY <1>r, <2>2, <2>3, <3>1
  <2>4. CASE Moves(J(m))
    <3>1. pc[J(m)] = "remove" /\ Joining(m)
      <4>1. CASE joined[m]
        <5>1. ~Busy(J(m)) /\ want[m] # None
          BY <1>1, <4>1, JoinedIsMember, NoneAssumption DEF Member
        <5>2. /\ \A q \in Room : \A i \in Ids[m] : ~JoinRoom(J(m), q, i)
              /\ ~LeaveRoom(J(m))
          BY <1>1, <5>1, JoinAlone DEF LeaveRoom
        <5>3. ~JoinStep(J(m)) /\ ~HGet(J(m)) /\ ~Check(J(m))
          BY <5>1 DEF Busy, JoinStep, HExists, HSet, Expire, HGetAll, HGet, Check
        <5>4. \A e \in Socket : ~Fail(J(m), e)  BY <1>1 DEF Fail
        <5>5. \A e \in Socket : ~RemoveStep(J(m), e)
          <6> SUFFICES ASSUME NEW e \in Socket, RemoveStep(J(m), e) PROVE FALSE  OBVIOUS
          <6>1. rm[J(m)][e] # "none"  BY <1>1, RemoveStepIs
          <6> QED  BY <5>1, <6>1 DEF Busy, NoRemoval
        <5> QED  BY <1>1, <2>4, <5>2, <5>3, <5>4, <5>5, Lines DEF Moves
      <4>2. CASE ~joined[m]
        <5>1. pc[J(m)] = "remove"  BY <4>2 DEF Heard
        <5>2. Busy(J(m))  BY <5>1 DEF Busy
        <5>3. Joining(m)  BY <1>1, <5>2, StageOf DEF StagesOK
        <5> QED  BY <5>1, <5>3
      <4> QED  BY <4>1, <4>2
    <3>2. PICK e \in Socket : RemoveStep(J(m), e)
      <4>1. /\ \A q \in Room : \A i \in Ids[m] : ~JoinRoom(J(m), q, i)
            /\ ~LeaveRoom(J(m))
        BY <1>1, <3>1 DEF JoinRoom, First, LeaveRoom, Busy
      <4>2. ~JoinStep(J(m)) /\ ~HGet(J(m)) /\ ~Check(J(m))
        BY <3>1 DEF JoinStep, HExists, HSet, Expire, HGetAll, HGet, Check
      <4>3. \A e \in Socket : ~Fail(J(m), e)  BY <1>1 DEF Fail
      <4> QED  BY <1>1, <2>4, <4>1, <4>2, <4>3, Lines DEF Moves
    <3>3. CASE d # e
      <4>1. rm'[J(m)][d] = rm[J(m)][d]  BY <1>1, <3>2, <3>3, RemoveStepIs
      <4> QED  BY <1>r, <2>2, <4>1
    <3>4. CASE d = e
      <4>1. Entries(loc[J(m)].room) # {}
        BY <1>1, <3>1, NoneAssumption DEF Joining, Entries
      <4>2. rm[J(m)][d] = "hdel" /\ rm'[J(m)][d] = "hlen"
        BY <1>1, <1>r, <3>2, <3>4, <4>1, RemoveStepIs
      <4>3. After(<<J(m), d>>) = 2 /\ After(<<J(m), d>>)' = 1  BY <2>1, <4>2 DEF After
      <4> QED  BY <4>2, <4>3
    <3> QED  BY <3>3, <3>4
  <2> QED  BY <2>3, <2>4
<1>l. ASSUME t \notin excused', NEW h \in {L(t), D(t)}, Departs(h, p, r)',
             \A d \in Socket : rm'[J(m)][d] # "none" => Outlives(h, <<J(m), d>>)'
      PROVE  Backed(m, t, p)'
  BY <1>l DEF Backed, Leaver
<1>4. ASSUME t \notin excused', conn[t] = "up", self[t] = p, want[t] = r
      PROVE  Backed(m, t, p)'
  <2>1. CASE conn'[t] = "up" /\ self'[t] = self[t] /\ want'[t] = want[t]
    BY <1>4, <2>1 DEF Backed
  <2>2. CASE SetsOff(t)
    <3>1. PICK h \in {L(t), D(t)} : Departs(h, p, r)' /\ Left(h)' = 4
      BY <1>4, <2>2, MemberLeaves
    <3>2. ASSUME NEW d \in Socket, rm'[J(m)][d] # "none"
          PROVE  Outlives(h, <<J(m), d>>)'
      <4>1. After(<<J(m), d>>)' \in 1..2  BY <3>2, <1>r DEF After
      <4>2. After(<<J(m), d>>)' < Left(h)'  BY <3>1, <4>1
      <4> QED  BY <4>2 DEF Outlives
    <3> QED  BY <1>4, <1>l, <3>1, <3>2
  <2> QED  BY <1>1, <1>4, <2>1, <2>2, UpStays, NoneAssumption
<1>5. ASSUME t \notin excused', NEW h \in {L(t), D(t)}, Departs(h, p, r),
             \A d \in Socket : rm[J(m)][d] # "none" => Outlives(h, <<J(m), d>>)
      PROVE  \E x \in Socket : Backed(m, x, p)'
  <2>1. h \in Handler /\ h[1] = t /\ t \notin excused  BY <1>1, <1>5
  <2>2. CASE ~Check(h)
    <3>1. Departs(h, p, r)'  BY <1>5, <2>2, DepartsNext
    <3>2. ASSUME NEW d \in Socket, rm'[J(m)][d] # "none"
          PROVE  Outlives(h, <<J(m), d>>)'
      <4>1. /\ rm[J(m)][d] # "none"
            /\ \/ After(<<J(m), d>>)' < After(<<J(m), d>>)
               \/ ~Moves(J(m))
               \/ rm'[J(m)][d] = rm[J(m)][d]
        BY <1>r, <3>2
      <4>2. Outlives(h, <<J(m), d>>) /\ Outstanding(<<J(m), d>>)
        BY <1>5, <4>1 DEF Outstanding
      <4> QED  BY <1>5, <2>2, <4>1, <4>2, LeaverNext
    <3> QED  BY <1>5, <1>l, <3>1, <3>2
  <2>3. CASE Check(h)
    <3>1. \A d \in Socket : rm[J(m)][d] = "none"
      <4> SUFFICES ASSUME NEW d \in Socket, rm[J(m)][d] # "none" PROVE FALSE  OBVIOUS
      <4>1. <<J(m), d>> \in Command  BY <1>1, CommandIs
      <4> QED  BY <1>1, <1>5, <2>1, <2>3, <4>1, LookIsLast
    <3>2. joined[m]
      <4>1. rm[J(m)] = NoRemoval
        <5>1. rm[J(m)] \in [Socket -> RmOf]  BY <1>1 DEF TypeOK
        <5> QED  BY <3>1, <5>1 DEF NoRemoval
      <4>2. pc[J(m)] # "remove"  BY <1>1, <4>1 DEF Waiting
      <4> QED  BY <4>2 DEF Heard
    <3>3. Member(m) /\ r \in adapter[m]
      BY <1>1, <3>2, JoinedIsMember DEF Member
    <3>4. /\ joined' = joined /\ redis' = redis /\ loc[h].room = r /\ loc[h].peer = p
          /\ view' = IF p \in PeersIn(r) THEN view ELSE ToldLeft(r, p)
      BY <1>5, <2>3 DEF Check, Departs
    <3>5. p \in view'[m]  BY <3>2, <3>4 DEF Heard
    <3>6. p \in PeersIn(r)
      <4>1. p \notin ToldLeft(r, p)[m]  BY <3>3 DEF ToldLeft
      <4> QED  BY <3>4, <3>5, <4>1
    <3>7. PICK x \in Socket : redis[r][x] = p  BY <3>6 DEF PeersIn, Entries
    <3>8. Backed(m, x, p)'  BY <3>2, <3>4, <3>7 DEF EntriesBacked
    <3> QED  BY <3>8
  <2> QED  BY <2>2, <2>3
<1> QED  BY <1>2, <1>3, <1>4, <1>5 DEF Backed, Leaver

\* A member is told of the peer of a join that ends in its room.
LEMMA ToldBy ==
  ASSUME TypeOK, Inv, [Next]_vars, NEW m \in Socket \ excused, joined[m], joined'[m],
         NEW p \in Peer, p \notin view[m], p \in view'[m]
  PROVE  \E h \in Handler :
           /\ h[2] = "join" /\ loc[h].peer = p /\ loc[h].room = want[m]
           /\ conn' = conn /\ self' = self /\ want' = want
           /\ pc[h] # "idle" /\ Moves(h)
           /\ \/ pc[h] = "hgetall"
              \/ \E e \in Socket : /\ rm[h][e] # "none"
                                   /\ rm[h][e] = "del" => Entries(want[m]) \subseteq excused'
<1>1. /\ HandlersOK /\ LanesOK /\ Member(m) /\ view \in [Socket -> SUBSET Peer]
      /\ \A h \in Handler : h[1] \in Socket
  BY HandlerType, JoinedIsMember DEF Inv, TypeOK
<1>b. ASSUME NEW h \in Handler, h[2] = "join", pc[h] # "idle"  PROVE h[1] # m
  BY <1>1, <1>b, StepAlone DEF Member, Busy
<1>2. ASSUME NEW h \in Handler, NEW seen, Announce(h, seen), h[1] # m
      PROVE  loc[h].peer = p /\ loc[h].room = want[m]
  <2>1. view'[m] = ToldJoined(loc[h].room, loc[h].peer)[m]
    BY <1>1, <1>2 DEF Announce, ToldJoined
  <2>2. p = loc[h].peer /\ loc[h].room \in adapter[m]  BY <2>1 DEF ToldJoined
  <2> QED  BY <1>1, <2>2 DEF Member
<1>3. ASSUME NEW h \in Handler, HGetAll(h)
      PROVE  /\ h[2] = "join" /\ loc[h].peer = p /\ loc[h].room = want[m]
             /\ conn' = conn /\ self' = self /\ want' = want
             /\ pc[h] # "idle" /\ Moves(h) /\ pc[h] = "hgetall"
  <2>1. pc[h] = "hgetall" /\ (view' = view \/ \E seen : Announce(h, seen))
        /\ conn' = conn /\ self' = self /\ want' = want
    BY <1>3 DEF HGetAll
  <2>2. h[2] = "join"  BY <1>1, <1>3, JoinLine DEF JoinStep
  <2>3. PICK seen : Announce(h, seen)  BY <2>1
  <2>4. Moves(h)  BY <1>3 DEF Moves, JoinStep
  <2> QED  BY <1>b, <1>2, <2>1, <2>2, <2>3, <2>4
<1>4. ASSUME NEW h \in Handler, NEW e \in Socket, RemoveStep(h, e)
      PROVE  /\ h[2] = "join" /\ loc[h].peer = p /\ loc[h].room = want[m]
             /\ conn' = conn /\ self' = self /\ want' = want
             /\ pc[h] # "idle" /\ Moves(h)
             /\ rm[h][e] # "none"
             /\ rm[h][e] = "del" => Entries(want[m]) \subseteq excused'
  <2>1. /\ view' = view \/ (AfterRemovals(h) /\ pc[h] = "remove")
        /\ conn' = conn /\ self' = self /\ want' = want
    BY <1>4 DEF RemoveStep, HDel, HLen, Del, Removed
  <2>2. AfterRemovals(h) /\ pc[h] = "remove"  BY <2>1
  <2>3. h[2] = "join" /\ Announce(h, loc[h].seen)
    <3>1. view' # view  OBVIOUS
    <3> QED  BY <2>2, <3>1 DEF AfterRemovals
  <2>4. loc[h].peer = p /\ loc[h].room = want[m]  BY <1>b, <1>2, <2>2, <2>3
  <2>5. rm[h][e] # "none"  BY <1>4, RemoveStepIs
  <2>6. rm[h][e] = "del" => Entries(want[m]) \subseteq excused'
    BY <1>4, <2>4 DEF RemoveStep, HDel, HLen, Del
  <2>7. Moves(h)  BY <1>4 DEF Moves
  <2> QED  BY <2>1, <2>2, <2>3, <2>4, <2>5, <2>6, <2>7
<1>5. ASSUME NEW h \in Handler, Check(h)  PROVE FALSE
  <2>1. view' = view \/ view' = ToldLeft(loc[h].room, loc[h].peer)  BY <1>5 DEF Check
  <2> QED  BY <2>1 DEF ToldLeft
<1>6. ASSUME NEW s \in Socket, Disconnect(s) \/ \E h \in Handler : h[1] = s /\ LeaveRoom(h)
      PROVE  FALSE
  <2>1. view' = [view EXCEPT ![s] = {}]  BY <1>6 DEF LeaveRoom, Disconnect
  <2> QED  BY <1>1, <2>1
<1>7. ~Restart  BY DEF Restart
<1>8. view' # view  OBVIOUS
<1>9. \/ \E h \in Handler : HGetAll(h)
      \/ \E h \in Handler, e \in Socket : RemoveStep(h, e)
  BY <1>1, <1>5, <1>6, <1>7, <1>8
     DEF Next, vars, Connect, JoinRoom, JoinStep, HExists, HSet, Expire, HGet, Fail, RoomExpires
<1> QED  BY <1>3, <1>4, <1>9

\* What is told of a join is backed: by the socket that joined, or by its disconnect handler.
LEMMA ToldBacked ==
  ASSUME Pipelined, TypeOK, Inv, ExactInv, Queued, Waiting, Presented, ClosedJoin,
         [Next]_vars, ~Restart, TypeOK', Inv', NEW m \in Socket \ excused',
         joined[m], joined'[m], NEW r \in Room, want[m] = r, want'[m] = r,
         NEW p \in Peer, p \notin view[m], p \in view'[m]
  PROVE  \E x \in Socket : Backed(m, x, p)'
<1>1. /\ HandlersOK /\ LanesOK /\ ConnectedOK /\ StagesOK /\ m \notin excused /\ excused \subseteq excused'
      /\ HandlersOK' /\ ConnectedOK' /\ StagesOK' /\ p # None
  BY ExcusedGrows, NoneAssumption DEF Inv
<1>h. PICK h \in Handler :
        /\ h[2] = "join" /\ loc[h].peer = p /\ loc[h].room = r
        /\ conn' = conn /\ self' = self /\ want' = want
        /\ pc[h] # "idle" /\ Moves(h)
        /\ \/ pc[h] = "hgetall"
           \/ \E e \in Socket : /\ rm[h][e] # "none"
                                /\ rm[h][e] = "del" => Entries(r) \subseteq excused'
  BY <1>1, ToldBy
<1>4. CASE h[1] \in excused'
  <2>1. h[1] \in Socket /\ p \in Ids[h[1]]  BY <1>1, <1>h, HandlerType DEF Presented
  <2> QED  BY <1>4, <2>1 DEF Backed
<1> SUFFICES ASSUME h[1] \notin excused'
             PROVE  \E x \in Socket : Backed(m, x, p)'
  BY <1>4
<1>j. PICK x \in Socket : x \notin excused' /\ h = J(x)
  BY <1>1, <1>h, StepAlone, HandlerType DEF Busy
<1>2. /\ loc[J(x)].peer = p /\ loc[J(x)].room = r
      /\ conn' = conn /\ self' = self /\ want' = want
      /\ pc[J(x)] # "idle" /\ Moves(J(x))
      /\ \/ pc[J(x)] = "hgetall"
         \/ \E e \in Socket : /\ rm[J(x)][e] # "none"
                              /\ rm[J(x)][e] = "del" => Entries(r) \subseteq excused'
  BY <1>h, <1>j
<1>3. /\ J(x) \in Handler /\ J(x)[1] = x /\ D(x) \in Handler /\ D(x) # J(x)
      /\ D(x) \in {L(x), D(x)}
  BY <1>j, HandlerType, Lines
<1>5. ASSUME x \notin excused', conn[x] = "up"  PROVE Backed(m, x, p)'
  <2>1. x \notin excused /\ Busy(J(x))  BY <1>1, <1>2, <1>5 DEF Busy
  <2>2. Joining(x)  BY <1>1, <1>5, <2>1, StageOf DEF StagesOK
  <2> QED  BY <1>2, <1>5, <2>2 DEF Joining, Backed
<1>6. ASSUME x \notin excused', conn[x] = "down"  PROVE Backed(m, x, p)'
  <2>1. \E e \in Socket : Outstanding(<<J(x), e>>) /\ rm[J(x)][e] # "del"
    <3>1. CASE pc[J(x)] = "hgetall"
      <4>1. rm[J(x)] = NoRemoval  BY <1>1, <1>3, <3>1, OwnLine
      <4>2. Outstanding(<<J(x), x>>) /\ rm[J(x)][x] # "del"
        BY <1>3, <3>1, <4>1 DEF Outstanding, NoRemoval
      <4> QED  BY <4>2
    <3>2. ASSUME NEW e \in Socket, rm[J(x)][e] # "none",
                 rm[J(x)][e] = "del" => Entries(r) \subseteq excused'
          PROVE  Outstanding(<<J(x), e>>) /\ rm[J(x)][e] # "del"
      <4>1. Member(m)  BY <1>1, JoinedIsMember
      <4>2. m \in Entries(r)  BY <4>1, NoneAssumption DEF Member, Entries
      <4> QED  BY <3>2, <4>2 DEF Outstanding
    <3> QED  BY <1>2, <3>1, <3>2
  <2>2. Departs(D(x), p, r)  BY <1>1, <1>2, <1>6, <2>1 DEF ClosedJoin
  <2>3. ~Check(D(x))
    <3>1. pc'[D(x)] = pc[D(x)]  BY <1>2, <1>3, OthersRest
    <3>2. Check(D(x)) => pc[D(x)] = "check" /\ pc' = [pc EXCEPT ![D(x)] = "idle"]
      BY DEF Check
    <3>3. pc \in [Handler -> PcOf]  BY DEF TypeOK
    <3> QED  BY <1>3, <3>1, <3>2, <3>3
  <2>4. Departs(D(x), p, r)'  BY <1>3, <1>6, <2>2, <2>3, DepartsNext
  <2>5. \A d \in Socket : rm'[J(m)][d] = "none"
    <3>1. rm'[J(m)] = rm[J(m)]
      <4>1. m # x
        <5>1. ~Busy(J(m))  BY <1>1, JoinedIsMember DEF Member
        <5> QED  BY <1>2, <5>1 DEF Busy
      <4>2. J(m) \in Handler /\ J(m) # J(x)  BY <4>1, HandlerType, Lines
      <4> QED  BY <1>2, <1>3, <4>2, OthersRest
    <3>2. ~Busy(J(m))  BY <1>1, JoinedIsMember DEF Member
    <3> QED  BY <3>1, <3>2 DEF Busy, NoRemoval
  <2> QED  BY <1>3, <1>6, <2>4, <2>5 DEF Backed, Leaver
<1>7. conn[x] \in {"up", "down"}
  <2>1. conn[x] \in {"new", "up", "down"}  BY <1>j DEF TypeOK
  <2>2. Busy(J(x))  BY <1>2 DEF Busy
  <2> QED  BY <1>1, <1>3, <1>j, <2>1, <2>2 DEF ConnectedOK
<1> QED  BY <1>j, <1>5, <1>6, <1>7

LEMMA HeardNext ==
  ASSUME Pipelined, TypeOK, Inv, ExactInv, Queued, Waiting, Presented, ClosedJoin, HeardOK,
         [Next]_vars, TypeOK', Inv', EntriesBacked'
  PROVE  HeardOK'
<1> SUFFICES ASSUME NEW m \in Socket \ excused', conn'[m] = "up", NEW p \in Heard(m)'
             PROVE  \E t \in Socket : Backed(m, t, p)'
  BY DEF HeardOK
<1>1. /\ p \in Peer /\ ~Restart /\ m \notin excused /\ conn[m] = "up"
      /\ want'[m] = want[m] /\ want[m] \in Room
      /\ \/ p \in Heard(m)
         \/ HGetAll(J(m)) /\ \E d \in Socket : redis[want[m]][d] = p /\ want[m] \in adapter[d]
         \/ joined[m] /\ joined'[m] /\ p \notin view[m] /\ p \in view'[m]
  BY HeardComes
<1>2. CASE p \in Heard(m)
  <2>1. PICK t \in Socket : Backed(m, t, p)  BY <1>1, <1>2 DEF HeardOK
  <2> QED  BY <1>1, <1>2, <2>1, BackedStays
<1>3. ASSUME HGetAll(J(m)), NEW d \in Socket, redis[want[m]][d] = p, want[m] \in adapter[d]
      PROVE  Backed(m, d, p)'
  <2>1. redis' = redis /\ adapter' = adapter  BY <1>3 DEF HGetAll
  <2> QED  BY <1>1, <1>3, <2>1 DEF EntriesBacked
<1>4. CASE joined[m] /\ joined'[m] /\ p \notin view[m] /\ p \in view'[m]
  BY <1>1, <1>4, ToldBacked
<1> QED  BY <1>1, <1>2, <1>3, <1>4

\* The inductive invariant of SoundViews.
SoundInv == ViewsInv /\ ExactInv /\ Presented /\ LeaveOK /\ ClosedJoin /\ HeardOK

LEMMA SoundInit == Init => SoundInv
<1> SUFFICES ASSUME Init PROVE SoundInv  OBVIOUS
<1>1. TypeOK /\ Inv /\ Queued /\ Waiting /\ ExactInv /\ Presented
  BY TypeInit, InvInit, QueuedInit, WaitingInit, ExactInit, PresentedInit
<1>2. SeenOK  BY HandlerType DEF Init, SeenOK, Misses
<1>3. Listing  BY DEF Init, Listing, Together
<1>4. LeaveOK
  BY HandlerType, NoneAssumption DEF Init, LeaveOK, NoLocals
<1>5. ClosedJoin  BY DEF Init, ClosedJoin
<1>6. HeardOK  BY DEF Init, HeardOK
<1> QED  BY <1>1, <1>2, <1>3, <1>4, <1>5, <1>6 DEF SoundInv, ViewsInv

LEMMA SoundNext ==
  ASSUME Pipelined, SoundInv, [Next]_vars,
         (TypeOK /\ Inv /\ ExactInv /\ Presented /\ LeaveOK)' => EntriesBacked'
  PROVE  SoundInv'
<1>1. /\ TypeOK /\ Inv /\ HandlersOK /\ ConnectedOK /\ Queued /\ Waiting /\ SeenOK /\ Listing
      /\ ExactInv /\ Presented /\ LeaveOK /\ ClosedJoin /\ HeardOK
  BY DEF SoundInv, ViewsInv, Inv
<1>2. TypeOK' /\ Inv'  BY <1>1, InvNext
<1>3. Queued'  BY <1>1, QueuedNext
<1>4. Waiting' /\ SeenOK' /\ Listing'  BY <1>1, WaitingNext, SeenNext, ListingNext
<1>5. ExactInv'
  <2>1. WantsOK'  BY <1>1, WantsNext DEF ExactInv
  <2>2. DepartedOK'  BY <1>1, DepartedNext
  <2> QED  BY <2>1, <2>2 DEF ExactInv
<1>6. Presented'  BY <1>1, PresentedNext
<1>7. LeaveOK'  BY <1>1, LeaveNext
<1>8. ClosedJoin'  BY <1>1, ClosedJoinNext
<1>9. HeardOK'  BY <1>1, <1>2, <1>5, <1>6, <1>7, HeardNext
<1> QED  BY <1>2, <1>3, <1>4, <1>5, <1>6, <1>7, <1>8, <1>9 DEF SoundInv, ViewsInv

LEMMA SoundInvariance == Pipelined /\ Spec => []SoundInv
<1>1. Pipelined /\ SoundInv /\ [Next]_vars => SoundInv'
  <2>1. (TypeOK /\ Inv /\ ExactInv /\ Presented /\ LeaveOK)' => EntriesBacked'
    BY EntryBacked, PTL
  <2> QED  BY <2>1, SoundNext
<1>2. Pipelined <=> Pipelined'  OBVIOUS
<1> QED  BY <1>1, <1>2, SoundInit, PTL DEF Spec

LEMMA QuietSound == SoundInv => SoundViews
<1> SUFFICES ASSUME SoundInv, Quiet, NEW s \in Socket \ excused, joined[s], NEW p \in view[s]
             PROVE  \E t \in Socket :
                      \/ t \in excused /\ p \in Ids[t]
                      \/ joined[t] /\ want[t] = want[s] /\ self[t] = p
  BY DEF SoundViews
<1>1. /\ TypeOK /\ HandlersOK /\ LanesOK /\ ConnectedOK /\ StagesOK /\ HeardOK
      /\ \A t \in Socket : L(t) \in Handler /\ D(t) \in Handler /\ J(t) \in Handler
  BY HandlerType DEF SoundInv, ViewsInv, Inv
<1>2. conn[s] = "up" /\ Member(s)  BY <1>1, JoinedIsMember
<1>3. PICK t \in Socket : Backed(s, t, p)  BY <1>1, <1>2 DEF HeardOK, Heard
<1>4. ~Leaver(s, t, p)
  BY <1>1 DEF Leaver, Departs, Quiet, Busy
<1>5. CASE t \in excused  BY <1>3, <1>5 DEF Backed
<1>6. CASE t \notin excused
  <2>1. conn[t] = "up" /\ self[t] = p /\ want[t] = want[s]  BY <1>3, <1>4, <1>6 DEF Backed
  <2>2. want[t] # None  BY <1>2, <2>1, NoneAssumption DEF Member
  <2>3. Member(t)
    <3>1. ~Busy(J(t))  BY <1>1 DEF Quiet
    <3> QED  BY <1>1, <1>6, <2>1, <2>2, <3>1, StageOf DEF StagesOK
  <2> QED  BY <2>1, <2>3 DEF Member
<1> QED  BY <1>5, <1>6

\* Where Redis runs the commands in the order they were issued, a member that no named event
\* spoilt lists only peers that are there, once no handler runs: every peer it has been told
\* of is that of a spoilt socket, of a member, or of a socket whose leave or disconnect
\* handler has yet to look for it, after the join that is to list it.
THEOREM Soundness == Pipelined /\ Spec => []SoundViews
BY SoundInvariance, QuietSound, PTL

-----------------------------------------------------------------------------
(* The lists of a room at rest                                             *)

\* A socket asks for a room under an id of its browser, and a member never lists itself.
NotSelf ==
  \A s \in Socket :
    /\ want[s] # None => self[s] \in Ids[s]
    /\ joined[s] => want[s] # None /\ self[s] \notin view[s]

\* The ids that a spoilt socket's browser has.
Spoilt == UNION {Ids[t] : t \in excused}
\* When no handler runs, the list of a member is the ids of the others of its room, but
\* for the ids of spoilt sockets: what handleJoinRoom, handleLeaveRoom, handleDisconnect
\* and the client's three listeners are there for.
ListsExact ==
  Quiet => \A s \in Socket \ excused : joined[s] =>
    view[s] \ Spoilt = {self[t] : t \in {u \in Socket : Together(s, u)}} \ Spoilt

LEMMA AnnounceSelf ==
  ASSUME TypeOK, NotSelf, NEW h \in Handler, NEW seen, Announce(h, seen), pc[h] # "idle",
         UNCHANGED <<self, want>>
  PROVE  NotSelf'
<1>1. /\ view \in [Socket -> SUBSET Peer] /\ joined \in [Socket -> BOOLEAN]
      /\ loc[h].room \in Room /\ UNCHANGED <<self, want>>
  BY HandlerType DEF TypeOK, Busy
<1> SUFFICES ASSUME NEW s \in Socket, joined'[s]
             PROVE  want[s] # None /\ self[s] \notin view'[s]
  BY <1>1 DEF NotSelf
<1>2. joined[s] \/ (s = h[1] /\ conn[h[1]] = "up" /\ want[h[1]] = loc[h].room)
  BY <1>1 DEF Announce
<1>3. want[s] # None  BY <1>1, <1>2, NoneAssumption DEF NotSelf
<1>4. view'[s] = IF s = h[1] /\ conn[h[1]] = "up" THEN seen \ {self[s]}
                 ELSE ToldJoined(loc[h].room, loc[h].peer)[s]
  BY DEF Announce, ToldJoined
<1>5. CASE s = h[1] /\ conn[h[1]] = "up"  BY <1>3, <1>4, <1>5
<1>6. CASE ~(s = h[1] /\ conn[h[1]] = "up")
  <2>1. self[s] \notin view[s]  BY <1>2, <1>6 DEF NotSelf
  <2> QED  BY <1>3, <1>4, <1>6, <2>1 DEF ToldJoined
<1> QED  BY <1>5, <1>6

LEMMA NotSelfNext ==
  ASSUME TypeOK, HandlersOK, NotSelf, [Next]_vars
  PROVE  NotSelf'
<1>1. /\ view \in [Socket -> SUBSET Peer] /\ joined \in [Socket -> BOOLEAN]
      /\ want \in [Socket -> Room \cup {None}] /\ self \in [Socket -> Peer \cup {None}]
  BY DEF TypeOK
<1>2. ASSUME UNCHANGED <<self, want, joined, view>> PROVE NotSelf'
  BY <1>2 DEF NotSelf
<1>3. ASSUME NEW h \in Handler, NEW r \in Room, NEW p \in Ids[h[1]], JoinRoom(h, r, p)
      PROVE  NotSelf'
  <2>1. /\ view' = view /\ joined' = [joined EXCEPT ![h[1]] = FALSE]
        /\ self' = [self EXCEPT ![h[1]] = p] /\ want' = [want EXCEPT ![h[1]] = r]
    BY <1>3 DEF JoinRoom
  <2> QED  BY <1>1, <2>1 DEF NotSelf
<1>4. ASSUME NEW s \in Socket, Disconnect(s) \/ \E h \in Handler : h[1] = s /\ LeaveRoom(h)
      PROVE  NotSelf'
  <2>1. /\ self' = self /\ joined' = [joined EXCEPT ![s] = FALSE]
        /\ want' = [want EXCEPT ![s] = None] /\ view' = [view EXCEPT ![s] = {}]
    BY <1>4 DEF LeaveRoom, Disconnect
  <2> QED  BY <1>1, <2>1 DEF NotSelf
<1>5. ASSUME NEW h \in Handler, HGetAll(h) PROVE NotSelf'
  <2>1. UNCHANGED <<self, want>> /\ pc[h] # "idle"  BY <1>5 DEF HGetAll
  <2>2. UNCHANGED <<view, joined>> \/ \E seen : Announce(h, seen)  BY <1>5 DEF HGetAll
  <2> QED  BY <1>2, <2>1, <2>2, AnnounceSelf
<1>6. ASSUME NEW h \in Handler, NEW d \in Socket, HLen(h, d) \/ Del(h, d) PROVE NotSelf'
  <2>1. UNCHANGED <<self, want>> /\ rm[h][d] # "none"  BY <1>6 DEF HLen, Del
  <2>2. UNCHANGED <<view, joined>> \/ (pc[h] = "remove" /\ AfterRemovals(h))
    BY <1>6, <2>1, RemovedEffect DEF HLen, Del
  <2>3. AfterRemovals(h) =>
          \/ UNCHANGED <<view, joined>>
          \/ \E seen : Announce(h, seen)
    BY DEF AfterRemovals
  <2> QED  BY <1>2, <2>1, <2>2, <2>3, AnnounceSelf
<1>7. ASSUME NEW h \in Handler, Check(h) PROVE NotSelf'
  <2>1. UNCHANGED <<self, want, joined>> /\ \A s \in Socket : view'[s] \subseteq view[s]
    BY <1>7 DEF Check, ToldLeft
  <2> QED  BY <2>1 DEF NotSelf
<1>8. CASE Restart
  BY <1>8 DEF Restart, NotSelf
<1> QED
  BY <1>2, <1>3, <1>4, <1>5, <1>6, <1>7, <1>8, HandlerType
     DEF Next, vars, Connect, JoinStep, HExists, HSet, Expire, HGet, RemoveStep, HDel,
         Fail, RoomExpires

LEMMA NotSelfInvariance == Spec => []NotSelf
<1>1. Init => NotSelf  BY DEF Init, NotSelf
<1>2. TypeOK /\ Inv /\ NotSelf /\ [Next]_vars => NotSelf'  BY NotSelfNext DEF Inv
<1> QED  BY <1>1, <1>2, Invariance, PTL DEF Spec

LEMMA QuietExactLists == SoundInv /\ NotSelf => ListsExact
<1> SUFFICES ASSUME SoundInv, NotSelf, Quiet, NEW s \in Socket \ excused, joined[s]
             PROVE  view[s] \ Spoilt =
                      {self[t] : t \in {u \in Socket : Together(s, u)}} \ Spoilt
  BY DEF ListsExact
<1>1. SoundViews /\ CompleteViews
  BY QuietSound DEF SoundInv, ViewsInv, Listing, CompleteViews
<1>2. ASSUME NEW p \in view[s], p \notin Spoilt
      PROVE  \E t \in Socket : Together(s, t) /\ p = self[t]
  <2>1. \A t \in excused : p \notin Ids[t]  BY <1>2 DEF Spoilt
  <2>2. PICK t \in Socket : joined[t] /\ want[t] = want[s] /\ self[t] = p
    BY <1>1, <2>1 DEF SoundViews
  <2>3. self[s] \notin view[s]  BY DEF NotSelf
  <2> QED  BY <2>2, <2>3 DEF Together
<1>3. ASSUME NEW t \in Socket, Together(s, t), self[t] \notin Spoilt
      PROVE  self[t] \in view[s]
  <2>1. self[t] \in Ids[t]  BY <1>3 DEF Together, NotSelf
  <2>2. t \notin excused  BY <1>3, <2>1 DEF Spoilt
  <2> QED  BY <1>1, <1>3, <2>2 DEF CompleteViews
<1> QED  BY <1>2, <1>3

\* Where Redis runs the commands in the order they were issued, a member's list is the room
\* once no handler runs: whatever joined, left, closed, failed or restarted before, it names
\* every other member and nobody else, itself included, but for the ids of spoilt sockets.
THEOREM ListsAreTheRoom == Pipelined /\ Spec => []ListsExact
BY SoundInvariance, NotSelfInvariance, QuietExactLists, PTL
=============================================================================
