--------------------------- MODULE MCFileTransfer ---------------------------
(* Small instances of FileTransfer. *)
EXTENDS FileTransfer, TLC

CONSTANT c1

\* Targets, and connections, that are alike.
Alike == Permutations(Target) \cup Permutations(Conn)

\* Nothing can be sent before a connection has opened at the sender's end, and any of
\* them may be called c1: where eventual things are looked at, this one has.
Connected ==
  /\ Quiet
  /\ entry = [t \in Target |-> c1]
  /\ sEnd = [l \in Link |-> IF l[2] = c1 THEN "open" ELSE "new"]
ConnectedSpec == Connected /\ [][Next]_vars /\ Fairness
=============================================================================
