----------------------------- MODULE ReadContract -----------------------------
(***************************************************************************)
(* What the read API and its clients say to each other (internal/api): the *)
(* pointer a request is answered about, the three documents, the answers,  *)
(* and which of them are true of what the pointer named.  No state lives   *)
(* here.                                                                   *)
(***************************************************************************)
EXTENDS Integers

CONSTANTS
  Snapshots,  \* the identities of published snapshots
  ScannedAt,  \* the second each of them was scanned
  Large,      \* those whose raw size is over MaxBodyBytes
  MaxWrites,  \* bound: the publications of a run
  None,       \* nothing
  Broken,     \* a pointer, or bytes, that do not read and validate
  Unread      \* a pointer that has not been looked at

ASSUME ReadAssumption ==
  /\ ScannedAt \in [Snapshots -> Nat]
  /\ Large \subseteq Snapshots
  /\ MaxWrites \in Nat

\* META/LATEST; published stands for PublishedAt, which a republication of the
\* same snapshot rewrites and nothing else does.
Pointer == [id : Snapshots, published : 1 .. MaxWrites]
NoPointer == {None, Broken}

Paths == {"snapshot", "meta", "health"}
Cacheable == {"snapshot", "meta"}

\* A document as it is sent.  Of the three only the snapshot carries the bytes,
\* and only health says when they were published.
Document == [id : Snapshots,
             body : Snapshots \cup {None},
             published : 1 .. MaxWrites \cup {None}]

\* The document a reader is entitled to when the pointer is p.
Whole(path, p) ==
  [id |-> p.id,
   body |-> IF path = "snapshot" THEN p.id ELSE None,
   published |-> IF path = "health" THEN p.published ELSE None]

Codes == {"unavailable", "no_snapshot", "too_large", "chunks_missing", "unreadable"}
Answer == [kind : Codes \cup {"full", "same"}, doc : Document \cup {None}]

Refused(code) == [kind |-> code, doc |-> None]
Full(doc) == [kind |-> "full", doc |-> doc]
Same == [kind |-> "same", doc |-> None]

\* A request, with the snapshots of which "not modified" tells the truth about
\* the copy the client validates.
Request == [path : Paths, held : SUBSET Snapshots]

\* The three sentinels are told apart from each other and from all they stand
\* beside.
ASSUME ReadSentinels ==
  /\ None # Broken /\ None # Unread /\ Broken # Unread
  /\ {None, Broken, Unread} \cap (Snapshots \cup Pointer) = {}
  /\ None \notin 1 .. MaxWrites
  /\ None \notin Codes /\ None \notin Answer /\ None \notin Request

\* The answers that are true when the pointer was found to be p.  Nothing is
\* claimed by "unavailable".
Truthful(want, p, a) ==
  \/ a = Refused("unavailable")
  \/ p = None /\ a = Refused("no_snapshot")
  \/ p \in Pointer /\ p.id \in Large /\ a = Refused("too_large")
  \/ /\ p \in Pointer /\ p.id \notin Large
     /\ \/ a = Refused("chunks_missing") \/ a = Refused("unreadable")
        \/ a = Full(Whole(want.path, p))
        \/ want.path \in Cacheable /\ p.id \in want.held /\ a = Same

=============================================================================
