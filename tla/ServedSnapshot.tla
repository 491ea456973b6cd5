---------------------------- MODULE ServedSnapshot ----------------------------
(***************************************************************************)
(* What the read API promises a request (docs/read-api.md): it is answered *)
(* about the snapshot the latest pointer named at one instant while it was *)
(* being served, whole and verified, or told that its own copy is that     *)
(* snapshot, or refused with a code that claims no more than was seen.     *)
(* Which instance serves it, and what that instance holds, makes no        *)
(* difference.                                                             *)
(***************************************************************************)
EXTENDS ReadContract

CONSTANT Clients  \* the clients, each with one request at a time

VARIABLES
  current,  \* what the latest pointer holds
  wants,    \* the request of each client that is being served, or None
  named,    \* what the pointer was found to be for its last request
  told      \* the answer to its last request, or None

Init ==
  /\ current = None
  /\ wants = [c \in Clients |-> None]
  /\ named = [c \in Clients |-> Unread]
  /\ told = [c \in Clients |-> None]

Move ==
  /\ UNCHANGED <<wants, named, told>>
  /\ current' \in Pointer \cup NoPointer

Ask(c) ==
  /\ wants[c] = None
  /\ UNCHANGED current
  /\ named' = [named EXCEPT ![c] = Unread]
  /\ told' = [told EXCEPT ![c] = None]
  /\ \E r \in Request : wants' = [wants EXCEPT ![c] = r]

\* The instant the answer is about.
Name(c) ==
  /\ wants[c] # None /\ named[c] = Unread
  /\ named' = [named EXCEPT ![c] = current]
  /\ UNCHANGED <<current, wants, told>>

\* What can be said at all: a refusal, that the copy is current, or the document.
Replies(want, p) ==
  {Refused(code) : code \in Codes} \cup {Same}
    \cup {Full(Whole(want.path, q)) : q \in {p} \cap Pointer}

Tell(c) ==
  /\ wants[c] # None
  /\ wants' = [wants EXCEPT ![c] = None]
  /\ UNCHANGED <<current, named>>
  /\ \E a \in Replies(wants[c], named[c]) :
       Truthful(wants[c], named[c], a) /\ told' = [told EXCEPT ![c] = a]

\* A process that was serving requests is gone.
Lose(gone) ==
  /\ \A c \in gone : wants[c] # None
  /\ wants' = [c \in Clients |-> IF c \in gone THEN None ELSE wants[c]]
  /\ UNCHANGED <<current, named, told>>

Next ==
  \/ Move
  \/ \E c \in Clients : Ask(c) \/ Name(c) \/ Tell(c)
  \/ \E gone \in SUBSET Clients : Lose(gone)

Spec == Init /\ [][Next]_<<current, wants, named, told>>

=============================================================================
