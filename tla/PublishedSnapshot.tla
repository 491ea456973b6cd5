--------------------------- MODULE PublishedSnapshot ---------------------------
(***************************************************************************)
(* What the storage contract promises a reader (internal/snapshot, the     *)
(* Publish and Read comments): at every instant a reader resolves either   *)
(* nothing, because nothing was ever published, or one whole snapshot; it  *)
(* is only ever replaced by one scanned later; and everything a snapshot   *)
(* says of a list is what some scan of that list answered.                 *)
(***************************************************************************)
EXTENDS SnapshotContract

VARIABLES
  served,  \* the snapshot a reader resolves, or None
  scans    \* the scans of each group that have completed

Snapshot == [id : SnapshotID, body : Body]

TypeOK ==
  /\ served \in Snapshot \cup {None}
  /\ scans \in [Groups -> SUBSET ListScan]

Init == served = None /\ scans = [g \in Groups |-> {}]

\* A scan that is only asked for changes nothing a reader sees.
Scan(g) ==
  /\ \E s \in ListScan : scans' = [scans EXCEPT ![g] = @ \cup {s}]
  /\ UNCHANGED served

\* The group that names the snapshot was scanned at the instant that names it.
Named(s) == s.body[s.id.group] # None /\ s.body[s.id.group].at = s.id.at

\* Every list was scanned when the snapshot says it was, answered what the
\* snapshot says, and not after the snapshot's own instant.
Attributed(s) ==
  \A g \in Groups :
    s.body[g] # None => s.body[g] \in scans[g] /\ s.body[g].at <= s.id.at

Newer(s) == served = None \/ s.id.at > served.id.at

Publish ==
  /\ \E s \in Snapshot : Newer(s) /\ Named(s) /\ Attributed(s) /\ served' = s
  /\ UNCHANGED scans

Next == Publish \/ \E g \in Groups : Scan(g)

Spec == Init /\ [][Next]_<<served, scans>>

=============================================================================
