--------------------------- MODULE IndexContract ---------------------------
(***************************************************************************)
(* What the search promises of its index, without events, queues, retries  *)
(* or workers: a listing that changed is behind until somebody looks at it *)
(* again, and then the index says what the row says.  SearchSync           *)
(* implements it with one replica.                                         *)
(***************************************************************************)
EXTENDS Naturals

CONSTANTS Listings, None

VARIABLES
    shown,      \* may the listing be found?
    text,       \* what its row says
    doc,        \* what the index says of it; None if nothing
    behind,     \* listings at which another look is still to come
    touched     \* was the owner's account ever suspended, or to be deleted?

index == <<shown, text, doc, behind, touched>>

Wanted(l) == IF shown[l] THEN text[l] ELSE None

Init ==
    /\ shown = [l \in Listings |-> FALSE]
    /\ text = [l \in Listings |-> 0]
    /\ doc = [l \in Listings |-> None]
    /\ behind = {} /\ touched = FALSE

\* A row is made, edited, removed, hidden or shown again.
Write(l) ==
    /\ \E s \in BOOLEAN : shown' = [shown EXCEPT ![l] = s]
    /\ \E t \in {text[l], text[l] + 1} : text' = [text EXCEPT ![l] = t]
    /\ behind' = behind \cup {l}
    /\ UNCHANGED <<doc, touched>>

Move ==
    /\ touched' = TRUE
    /\ UNCHANGED <<shown, text, doc, behind>>

\* Something is done once more, or given up.
Again(S) ==
    /\ behind' = behind \cup S
    /\ UNCHANGED <<shown, text, doc, touched>>

\* The index is brought up to date; a further look may be on its way already.
\* Once the account was touched it may lose a document instead.
Look(l) ==
    /\ l \in behind
    /\ \/ doc' = [doc EXCEPT ![l] = Wanted(l)]
       \/ touched /\ doc' = [doc EXCEPT ![l] = None]
    /\ behind' \in {behind, behind \ {l}}
    /\ UNCHANGED <<shown, text, touched>>

\* It was looked at before it changed: the document is of an earlier text, but
\* never of one before that which the index had, and the listing stays behind.
LookedBefore(l) ==
    /\ l \in behind
    /\ \E t \in 0..text[l] :
        /\ doc[l] # None => doc[l] <= t
        /\ doc' = [doc EXCEPT ![l] = t]
    /\ UNCHANGED <<shown, text, behind, touched>>

Next ==
    \/ Move
    \/ \E l \in Listings : Write(l) \/ Look(l) \/ LookedBefore(l)
    \/ \E S \in SUBSET Listings : Again(S)

Spec == Init /\ [][Next]_index
=============================================================================
