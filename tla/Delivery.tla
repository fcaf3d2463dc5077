------------------------------- MODULE Delivery -------------------------------
(***************************************************************************)
(* What sending a file promises, without connections, messages or timers:  *)
(* a file is offered to whoever is connected; to each of them the call     *)
(* ends in a success or a failure; the last file, once every transfer of   *)
(* it has failed, may be offered again, MaxTries times in all; and each    *)
(* target is handed a file at most once, after its success.                *)
(*                                                                         *)
(* FileTransfer implements this: its ImplementsDelivery names the mapping. *)
(***************************************************************************)
EXTENDS Naturals

CONSTANTS
  Target,    \* the other peers
  MaxFiles,  \* bound: files offered
  MaxTries   \* MAX_TRANSFER_RETRIES

VARIABLES
  last,     \* the file offered last, or 0; files are numbered as they come
  calls,    \* the times it has been offered
  outcome,  \* outcome[f][t]: how the last call with file f went for target t
  copies    \* copies[f][t]: how often t was handed file f

promise == <<last, calls, outcome, copies>>

File == 1..MaxFiles

Init ==
  /\ last = 0
  /\ calls = 0
  /\ outcome = [f \in File |-> [t \in Target |-> "none"]]
  /\ copies = [f \in File |-> [t \in Target |-> 0]]

\* File f is offered to the targets in to.
Offered(f, to) ==
  /\ to # {}
  /\ outcome' = [outcome EXCEPT ![f] =
       [t \in Target |-> IF t \in to THEN "going" ELSE outcome[f][t]]]
  /\ UNCHANGED copies

\* A new file; or the last one, which nobody has got.
OfferNew(f, to) ==
  /\ f > last /\ last' = f
  /\ Offered(f, to)
  /\ calls' = 1
OfferAgain(to) ==
  /\ last # 0 /\ calls < MaxTries
  /\ calls' = calls + 1
  /\ \A t \in Target : outcome[last][t] \notin {"going", "sent"}
  /\ Offered(last, to)
  /\ UNCHANGED last

Succeed(f, t) ==
  /\ outcome[f][t] = "going"
  /\ outcome' = [outcome EXCEPT ![f][t] = "sent"]
  /\ UNCHANGED <<last, calls, copies>>
\* One event may end several transfers: another room, or nobody left in it.
Fail(gone) ==
  /\ gone # {}
  /\ \A x \in gone : outcome[x[1]][x[2]] = "going"
  /\ outcome' = [f \in File |-> [t \in Target |->
                   IF <<f, t>> \in gone THEN "failed" ELSE outcome[f][t]]]
  /\ UNCHANGED <<last, calls, copies>>
Hand(f, t) ==
  /\ outcome[f][t] = "sent"
  /\ copies[f][t] = 0
  /\ copies' = [copies EXCEPT ![f][t] = 1]
  /\ UNCHANGED <<last, calls, outcome>>

Next ==
  \/ \E gone \in SUBSET (File \X Target) : Fail(gone)
  \/ \E f \in File :
    \/ \E to \in SUBSET Target : OfferNew(f, to)
    \/ \E t \in Target : Succeed(f, t) \/ Hand(f, t)
    \/ f = last /\ \E to \in SUBSET Target : OfferAgain(to)

Spec == Init /\ [][Next]_promise
=============================================================================
