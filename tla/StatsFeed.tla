------------------------------ MODULE StatsFeed -------------------------------
(***************************************************************************)
(* The counters at the foot of the page: back/src/stats/stats.service.ts   *)
(* behind the gateway's handleConnection, add-stat and get-stat, and on    *)
(* the page front/src/services/statService.ts, the update-stat listener    *)
(* and front/src/components/Statistic/Statistics.tsx.                      *)
(*                                                                         *)
(* The server saves a row and counts the rows in queries of their own, and *)
(* the database's pool answers them in any order.  Every file has size 1,  *)
(* so the SUM of the sizes is the number of files when it is read.  One    *)
(* page watches; requests come from everywhere.  Its socket keeps the      *)
(* order of what the server emits, and loses what is on its way when it    *)
(* breaks.                                                                 *)
(*                                                                         *)
(* A definition marked "a slip" is the next one with a mistake in it.  No  *)
(* other definition uses it: put in its place, it shows what a property    *)
(* catches.                                                                *)
(***************************************************************************)
EXTENDS Naturals, Sequences, FiniteSets

CONSTANTS
  Kind,         \* kinds of rows: users, messages, files
  MaxRequests,  \* bound: connections and add-stats
  MaxBreaks     \* bound: times the page's socket breaks

ASSUME StatsAssumption ==
  /\ {"users", "files"} \subseteq Kind /\ "size" \notin Kind
  /\ MaxRequests \in Nat /\ MaxBreaks \in Nat

VARIABLES
  rows,      \* of each table; "size" is the SUM over the files
  requests,  \* the handlers of connections and add-stats, in the order they started
  fetch,     \* get-stat: the page's end, whether the server works on it, what it has read
  up,        \* the page's socket is connected
  listens, \* it has the update-stat listener: PeerJS has given an id
  feed,      \* what the server has emitted to the page
  statistics,  \* of the page's store
  breaks,
  off        \* fields whose latest news the page has missed (history)

statsVars == <<rows, requests, fetch, up, listens, feed, statistics, breaks, off>>

Field == Kind \cup {"size"}
FieldsOf(kind) == IF kind = "files" THEN {"files", "size"} ELSE {kind}
Zero == [f \in Field |-> 0]
Unread == [f \in {} |-> 0]
WithRow(got, f) == [g \in DOMAIN got \cup {f} |-> IF g = f THEN rows[f] ELSE got[g]]

\* The news is older than what is shown, or is what the database has.
Older(news) == {f \in DOMAIN news : news[f] < statistics[f]}
Newer(news) == {f \in DOMAIN news : news[f] > statistics[f]}
Current(news) == {f \in DOMAIN news : news[f] = rows[f]}

StatsInit ==
  /\ rows = Zero
  /\ requests = <<>>
  /\ fetch = [page |-> "no", server |-> FALSE, got |-> Unread]
  /\ up = TRUE
  /\ listens = FALSE
  /\ feed = <<>>
  /\ statistics = Zero
  /\ breaks = 0
  /\ off = {}

-----------------------------------------------------------------------------
(* The server *)

Started(kind) == Append(requests, [kind |-> kind, step |-> "save", got |-> Unread])
AddStat(kind) ==
  /\ Len(requests) < MaxRequests
  /\ requests' = Started(kind)
  /\ UNCHANGED <<rows, fetch, up, listens, feed, statistics, breaks, off>>

\* updateStats: the row is saved, or the database refuses it.
Save(i) ==
  /\ requests[i].step = "save"
  /\ \/ /\ rows' = [f \in Field |-> rows[f] + (IF f \in FieldsOf(requests[i].kind) THEN 1 ELSE 0)]
        /\ requests' = [requests EXCEPT ![i].step = "read"]
     \/ /\ requests' = [requests EXCEPT ![i].step = "done"]
        /\ UNCHANGED rows
  /\ UNCHANGED <<fetch, up, listens, feed, statistics, breaks, off>>

\* The rows are counted, the files before their sizes; or the query is rejected and
\* nobody hears of the row.
Read(i) ==
  /\ requests[i].step = "read"
  /\ \E f \in FieldsOf(requests[i].kind) \ DOMAIN requests[i].got :
       /\ f = "size" => "files" \in DOMAIN requests[i].got
       /\ requests' = [requests EXCEPT ![i].got = WithRow(@, f)]
  /\ UNCHANGED <<rows, fetch, up, listens, feed, statistics, breaks, off>>
ReadFails(i) ==
  /\ requests[i].step = "read"
  /\ requests' = [requests EXCEPT ![i].step = "done"]
  /\ off' = off \cup FieldsOf(requests[i].kind)
  /\ UNCHANGED <<rows, fetch, up, listens, feed, statistics, breaks>>

Emit(i) ==
  /\ requests[i].step = "read"
  /\ DOMAIN requests[i].got = FieldsOf(requests[i].kind)
  /\ requests' = [requests EXCEPT ![i].step = "done"]
  /\ IF up
     THEN feed' = Append(feed, [type |-> "update-stat", got |-> requests[i].got])
          /\ UNCHANGED off
     ELSE off' = off \cup Newer(requests[i].got) /\ UNCHANGED feed
  /\ UNCHANGED <<rows, fetch, up, listens, statistics, breaks>>

\* getStats: four queries at once, in any order.
FetchRead(f) ==
  /\ fetch.server /\ f \notin DOMAIN fetch.got
  /\ fetch' = [fetch EXCEPT !.got = WithRow(@, f)]
  /\ UNCHANGED <<rows, requests, up, listens, feed, statistics, breaks, off>>
\* The acknowledgement carries all of them, or null.
FetchAnswer ==
  /\ fetch.server
  /\ \E got \in {Unread} \cup ({fetch.got} \cap [Field -> Nat]) :
       feed' = Append(feed, [type |-> "get-stat", got |-> got])
  /\ fetch' = [fetch EXCEPT !.server = FALSE]
  /\ UNCHANGED <<rows, requests, up, listens, statistics, breaks, off>>

-----------------------------------------------------------------------------
(* The page *)

\* The listeners of SocketProvider are set when the Peer has an id, and stay: its
\* object does not change.
Listen ==
  /\ ~listens
  /\ listens' = TRUE
  /\ UNCHANGED <<rows, requests, fetch, up, feed, statistics, breaks, off>>

\* The effect of Statistics.
Fetch ==
  /\ up /\ fetch.page = "no"
  /\ fetch' = [fetch EXCEPT !.page = "yes", !.server = TRUE]
  /\ UNCHANGED <<rows, requests, up, listens, feed, statistics, breaks, off>>

FetchTimeoutCleared ==   \* a slip: a broken socket clears the timer
  /\ fetch.page = "yes" /\ (fetch.server \/ feed # <<>>)
  /\ fetch' = [fetch EXCEPT !.page = "failed"]
  /\ off' = Field
  /\ UNCHANGED <<rows, requests, up, listens, feed, statistics, breaks>>
FetchTimeout ==
  /\ fetch.page = "yes"
  /\ fetch' = [fetch EXCEPT !.page = "failed"]
  /\ off' = Field
  /\ UNCHANGED <<rows, requests, up, listens, feed, statistics, breaks>>

ShownAdded(news) ==   \* a slip: the news is added to what is shown
  [f \in Field |-> statistics[f] + IF f \in DOMAIN news THEN news[f] ELSE 0]
Shown(news) == [f \in Field |-> IF f \in DOMAIN news THEN news[f] ELSE statistics[f]]
\* An answer is taken once, and not after the timeout.
Heard(m) ==
  IF m.type = "update-stat" THEN listens ELSE fetch.page = "yes" /\ m.got # Unread
TakeStatOnlyCount ==   \* a slip: the sizes of update-stat are left aside
  /\ feed # <<>>
  /\ feed' = Tail(feed)
  /\ LET news == Head(feed).got
     IN  \/ /\ Heard(Head(feed))
            /\ statistics' = [Shown(news) EXCEPT !["size"] = statistics["size"]]
            /\ off' = (off \ Current(news)) \cup Older(news)
            /\ fetch' = [fetch EXCEPT !.page = IF Head(feed).type = "get-stat" THEN "done" ELSE @]
         \/ /\ Head(feed).type = "get-stat" /\ ~Heard(Head(feed))
            /\ fetch' = [fetch EXCEPT !.page = "failed"]
            /\ off' = IF fetch.page = "yes" THEN Field ELSE off
            /\ UNCHANGED statistics
         \/ /\ Head(feed).type = "update-stat" /\ ~Heard(Head(feed))
            /\ off' = off \cup Newer(news)
            /\ UNCHANGED <<fetch, statistics>>
  /\ UNCHANGED <<rows, requests, up, listens, breaks>>
TakeStat ==
  /\ feed # <<>>
  /\ feed' = Tail(feed)
  /\ LET news == Head(feed).got
     IN  \/ /\ Heard(Head(feed))
            /\ statistics' = Shown(news)
            /\ off' = (off \ Current(news)) \cup Older(news)
            /\ fetch' = [fetch EXCEPT !.page = IF Head(feed).type = "get-stat" THEN "done" ELSE @]
         \/ /\ Head(feed).type = "get-stat" /\ ~Heard(Head(feed))
            /\ fetch' = [fetch EXCEPT !.page = "failed"]
            /\ off' = IF fetch.page = "yes" THEN Field ELSE off
            /\ UNCHANGED statistics
         \/ /\ Head(feed).type = "update-stat" /\ ~Heard(Head(feed))
            /\ off' = off \cup Newer(news)
            /\ UNCHANGED <<fetch, statistics>>
  /\ UNCHANGED <<rows, requests, up, listens, breaks>>

\* What is on its way is lost, an answer to come as well.
SocketBreaks ==
  /\ up /\ breaks < MaxBreaks
  /\ up' = FALSE
  /\ breaks' = breaks + 1
  /\ feed' = <<>>
  /\ off' = off \cup UNION {Newer(feed[i].got) : i \in DOMAIN feed}
  /\ fetch' = [fetch EXCEPT !.server = FALSE]
  /\ UNCHANGED <<rows, listens, requests, statistics>>
\* handleConnection counts the page again.
SocketReturns ==
  /\ ~up /\ Len(requests) < MaxRequests
  /\ up' = TRUE
  /\ requests' = Started("users")
  /\ UNCHANGED <<rows, listens, fetch, feed, statistics, breaks, off>>

StatsNext ==
  \/ \E kind \in Kind : AddStat(kind)
  \/ \E i \in DOMAIN requests : Save(i) \/ Read(i) \/ ReadFails(i) \/ Emit(i)
  \/ \E f \in Field : FetchRead(f)
  \/ Listen \/ Fetch \/ FetchAnswer \/ FetchTimeout
  \/ TakeStat \/ SocketBreaks \/ SocketReturns

StatsSpec == StatsInit /\ [][StatsNext]_statsVars

\* The database answers, timers fire, and a socket delivers.
StatsFairness ==
  /\ \A i \in 1..MaxRequests :
       WF_statsVars(i \in DOMAIN requests /\ (Save(i) \/ Read(i) \/ ReadFails(i) \/ Emit(i)))
  /\ WF_statsVars(Fetch)
  /\ WF_statsVars(FetchTimeout)
  /\ WF_statsVars(TakeStat)
  /\ WF_statsVars(\E f \in Field : FetchRead(f))
  /\ WF_statsVars(FetchAnswer)
StatsFairSpec == StatsSpec /\ StatsFairness

-----------------------------------------------------------------------------
(* Properties *)

\* Some fields, each with a count.
Counts == UNION {[fields -> Nat] : fields \in SUBSET Field}
Request == [kind : Kind, step : {"save", "read", "done"}, got : Counts]
Asking == [page : {"no", "yes", "done", "failed"}, server : BOOLEAN, got : Counts]
News == [type : {"update-stat", "get-stat"}, got : Counts]

\* The types of the state.
StatsTypeOK ==
  /\ rows \in [Field -> Nat] /\ statistics \in [Field -> Nat]
  /\ requests \in Seq(Request) /\ fetch \in Asking /\ feed \in Seq(News)
  /\ up \in BOOLEAN /\ listens \in BOOLEAN /\ breaks \in 0..MaxBreaks
  /\ off \subseteq Field

Resting ==
  /\ up /\ feed = <<>> /\ fetch.page \in {"done", "failed"} /\ ~fetch.server
  /\ \A i \in DOMAIN requests : requests[i].step = "done"

\* When nothing is on its way the page shows what the database has, field by field,
\* unless the last news of it came out of order, was lost with the socket, or was never
\* sent; the next update of the kind then puts it right (stats.service.ts:117).
RestExact == Resting => \A f \in Field \ off : statistics[f] = rows[f]

\* The page never shows more than the database has.
NeverAhead == \A f \in Field : statistics[f] <= rows[f]

\* Once the page has asked, its numbers come to rest if its socket stays up.
FeedRests == <>[]up => (fetch.page = "yes" ~> Resting)
=============================================================================
