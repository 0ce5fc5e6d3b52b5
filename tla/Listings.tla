------------------------------ MODULE Listings ------------------------------
(***************************************************************************)
(* The listings of one owner: how many may be active, edits that must not  *)
(* lose one another, and the cached copies of details.                     *)
(*                                                                         *)
(* BaseListingService reads a row first and writes it in a transaction     *)
(* later.  A transaction that makes a row public first counts the owner's  *)
(* public rows under an advisory lock that it holds until it ends; whether *)
(* an update does is decided by the row as it was read.  An update may     *)
(* carry the version its author saw; a change of status takes no notice of *)
(* versions.  After the commit the cached copy of the detail is deleted.   *)
(* Readers fill the cache with what they read, for ten minutes.  Sweeps of *)
(* OwnerContentVisibilityService hide and show all rows (SearchSync).      *)
(*                                                                         *)
(* Left out: cached lists, counted views, the outbox (SearchSync), owners  *)
(* that the limit does not apply to or that may not publish.  A deleted    *)
(* row keeps a status that nothing shows.                                  *)
(***************************************************************************)
EXTENDS Naturals, FiniteSets

CONSTANTS
    Items,       \* the owner's rows
    Opened,      \* those that are opened, to be read or edited
    Calls,       \* slots for handlers in flight
    None,        \* no copy; a free lock
    Texts,       \* what an edit changes
    MaxActive,   \* MAX_ACTIVE_LISTINGS_PER_USER
    MaxVersion,  \* bound on the versions from which edits start
    MaxFaults    \* bound on the failures of a behaviour

ASSUME ItemsAssumption == IsFiniteSet(Items) /\ Opened \subseteq Items
ASSUME NoneAssumption == None \notin Calls
ASSUME TextsAssumption == Texts # {}
ASSUME BoundsAssumption == MaxActive \in Nat \ {0} /\ MaxVersion \in Nat /\ MaxFaults \in Nat

VARIABLES
    row,      \* of each listing
    copy,     \* what the cache holds under detail:id
    lock,     \* the transaction with the advisory lock active_ads_cap
    call,     \* of each slot: step, and what it goes by
    counted,  \* public rows that became public by a count
    slipped,  \* copies of a reader that was overtaken, or that nobody will delete
    faults    \* failures so far

vars == <<row, copy, lock, call, counted, slipped, faults>>

Rows  == [status : {"NONE", "ACTIVE", "INACTIVE", "DELETED"}, hidden : BOOLEAN,
          text : Texts, version : Nat]
Idle  == [step |-> "idle"]
First == CHOOSE t \in Texts : TRUE
NoRow == [status |-> "NONE", hidden |-> FALSE, text |-> First, version |-> 0]

\* An edit goes by what its author saw, and carries that version or none.
Pages == [text : Texts, version : Nat]
Edits == [seen : Pages, versioned : BOOLEAN, text : Texts, to : {"KEEP", "ACTIVE", "INACTIVE"}]

CallStates ==
    {Idle}
    \cup [step : {"form"}, l : Items, seen : Pages]
    \cup [step : {"count", "edit"}, l : Items, checked : BOOLEAN, edit : Edits]
    \cup [step : {"countToggle", "toggle"}, l : Items, checked : BOOLEAN,
          to : {"ACTIVE", "INACTIVE"}]
    \cup [step : {"create", "remove", "evict"}, l : Items]
    \cup [step : {"evictAll"}]
    \cup [step : {"fill"}, l : Items, row : Rows]

TypeOK ==
    /\ row \in [Items -> Rows] /\ copy \in [Items -> Rows \cup {None}]
    /\ lock \in Calls \cup {None}
    /\ call \in [Calls -> CallStates]
    /\ counted \subseteq Items /\ slipped \subseteq Items
    /\ faults \in 0..MaxFaults
    /\ lock # None => call[lock].step \in {"create", "edit", "toggle"}

Init ==
    /\ row = [l \in Items |-> NoRow] /\ copy = [l \in Items |-> None]
    /\ lock = None /\ call = [p \in Calls |-> Idle]
    /\ counted = {} /\ slipped = {} /\ faults = 0

-----------------------------------------------------------------------------
Free(p)        == call[p] = Idle
At(p, step, l) == call[p].step = step /\ call[p].l = l
Go(p, state)   == call' = [call EXCEPT ![p] = state]
Evict(p, l)    == Go(p, [step |-> "evict", l |-> l])

There(r)  == r.status \in {"ACTIVE", "INACTIVE"}
Public(r) == r.status = "ACTIVE" /\ ~r.hidden
Page(r)   == [text |-> r.text, version |-> r.version]
Stale(l)  == copy[l] # None /\ copy[l] # row[l]

\* A row is written, having been counted or not.
Write(l, r, checked) ==
    /\ row' = [row EXCEPT ![l] = r]
    /\ counted' = IF ~Public(r) THEN counted \ {l}
                  ELSE IF checked THEN counted \cup {l} ELSE counted

\* Mutant: a lock of the session.
UnlockLater(p) == lock' = lock

\* The transaction ends.
Unlock(p) == lock' = IF lock = p THEN None ELSE lock

-----------------------------------------------------------------------------
(***************************************************************************)
(* ActiveListingsLimitService.assertWithinLimit.                           *)
(***************************************************************************)
\* Mutant: a count without the lock.
CountFree(p, next) ==
    IF Cardinality({l \in Items : Public(row[l])}) < MaxActive
    THEN UNCHANGED lock /\ Go(p, next)
    ELSE UNCHANGED lock /\ Go(p, Idle)

\* Wait for the lock and count; an owner with enough is refused, which ends the
\* transaction.
Count(p, next) ==
    IF Cardinality({l \in Items : Public(row[l])}) < MaxActive
    THEN lock = None /\ lock' = p /\ Go(p, next)
    ELSE lock = None /\ UNCHANGED lock /\ Go(p, Idle)

-----------------------------------------------------------------------------
(***************************************************************************)
(* BaseListingService.                                                     *)
(***************************************************************************)
CreateCount(p, l) ==
    /\ Free(p) /\ row[l] = NoRow
    /\ Count(p, [step |-> "create", l |-> l])
    /\ UNCHANGED <<row, copy, counted, slipped, faults>>

CreateWrite(p, l) ==
    /\ At(p, "create", l)
    /\ Write(l, [status |-> "ACTIVE", hidden |-> FALSE, text |-> First, version |-> 1], TRUE)
    /\ Unlock(p) /\ Go(p, Idle)
    /\ UNCHANGED <<copy, slipped, faults>>

\* The owner opens the page of a listing and starts to edit.
OpenForm(p, l) ==
    /\ Free(p) /\ l \in Opened /\ There(row[l])
    /\ Go(p, [step |-> "form", l |-> l, seen |-> Page(row[l])])
    /\ UNCHANGED <<row, copy, lock, counted, slipped, faults>>

\* update: the row is read again, and a version that is not the row's refused.
\* What is to become public by this reading is counted.
UpdateRead(p, l, e) ==
    /\ At(p, "form", l) /\ call[p].seen = e.seen
    /\ row[l].version < MaxVersion
    /\ LET checked == e.to = "ACTIVE" /\ ~Public(row[l])
       IN  IF ~There(row[l]) \/ (e.versioned /\ row[l].version # e.seen.version)
           THEN Go(p, Idle)
           ELSE Go(p, [step |-> IF checked THEN "count" ELSE "edit", l |-> l,
                       checked |-> checked, edit |-> e])
    /\ UNCHANGED <<row, copy, lock, counted, slipped, faults>>

UpdateCount(p, l) ==
    /\ At(p, "count", l)
    /\ Count(p, [call[p] EXCEPT !.step = "edit"])
    /\ UNCHANGED <<row, copy, counted, slipped, faults>>

Edited(r, e) ==
    [r EXCEPT !.text = e.text, !.version = r.version + 1,
              !.status = IF e.to = "KEEP" THEN r.status ELSE e.to]

\* Mutant: by id alone.
UpdateWriteById(p, l) ==
    /\ At(p, "edit", l)
    /\ IF There(row[l])
       THEN Write(l, Edited(row[l], call[p].edit), call[p].checked) /\ Evict(p, l)
       ELSE UNCHANGED <<row, counted>> /\ Go(p, Idle)
    /\ Unlock(p)
    /\ UNCHANGED <<copy, slipped, faults>>

\* Written if the row is there and, for an edit with a version, still has it.
UpdateWrite(p, l) ==
    /\ At(p, "edit", l)
    /\ LET e == call[p].edit
       IN  IF There(row[l]) /\ (e.versioned => row[l].version = e.seen.version)
           THEN Write(l, Edited(row[l], e), call[p].checked) /\ Evict(p, l)
           ELSE UNCHANGED <<row, counted>> /\ Go(p, Idle)
    /\ Unlock(p)
    /\ UNCHANGED <<copy, slipped, faults>>

ToggleRead(p, l) ==
    /\ Free(p) /\ There(row[l])
    /\ LET on == row[l].status # "ACTIVE"
       IN  Go(p, [step |-> IF on THEN "countToggle" ELSE "toggle", l |-> l, checked |-> on,
                  to |-> IF on THEN "ACTIVE" ELSE "INACTIVE"])
    /\ UNCHANGED <<row, copy, lock, counted, slipped, faults>>

ToggleCount(p, l) ==
    /\ At(p, "countToggle", l)
    /\ Count(p, [call[p] EXCEPT !.step = "toggle"])
    /\ UNCHANGED <<row, copy, counted, slipped, faults>>

\* By id; the version stays.
ToggleWrite(p, l) ==
    /\ At(p, "toggle", l)
    /\ Write(l, IF There(row[l]) THEN [row[l] EXCEPT !.status = call[p].to] ELSE row[l],
             call[p].checked)
    /\ Unlock(p) /\ Evict(p, l)
    /\ UNCHANGED <<copy, slipped, faults>>

RemoveRead(p, l) ==
    /\ Free(p) /\ There(row[l])
    /\ Go(p, [step |-> "remove", l |-> l])
    /\ UNCHANGED <<row, copy, lock, counted, slipped, faults>>

\* Mutant: the cached copy stays.
RemoveWriteUncached(p, l) ==
    /\ At(p, "remove", l)
    /\ IF There(row[l])
       THEN Write(l, [row[l] EXCEPT !.status = "DELETED", !.version = row[l].version + 1], FALSE)
       ELSE UNCHANGED <<row, counted>>
    /\ Go(p, Idle)
    /\ UNCHANGED <<copy, lock, slipped, faults>>

RemoveWrite(p, l) ==
    /\ At(p, "remove", l)
    /\ IF There(row[l])
       THEN Write(l, [row[l] EXCEPT !.status = "DELETED", !.version = row[l].version + 1], FALSE) /\ Evict(p, l)
       ELSE UNCHANGED <<row, counted>> /\ Go(p, Idle)
    /\ UNCHANGED <<copy, lock, slipped, faults>>

\* Whatever was committed, its copy is deleted.
EvictCopy(p, l) ==
    /\ At(p, "evict", l)
    /\ copy' = [copy EXCEPT ![l] = None] /\ slipped' = slipped \ {l}
    /\ Go(p, Idle)
    /\ UNCHANGED <<row, lock, counted, faults>>

-----------------------------------------------------------------------------
(***************************************************************************)
(* Readers: findOne on a miss.                                             *)
(***************************************************************************)
ReadRow(p, l) ==
    /\ Free(p) /\ l \in Opened /\ copy[l] = None /\ There(row[l])
    /\ Go(p, [step |-> "fill", l |-> l, row |-> row[l]])
    /\ UNCHANGED <<row, copy, lock, counted, slipped, faults>>

FillCopy(p, l) ==
    /\ At(p, "fill", l)
    /\ copy' = [copy EXCEPT ![l] = call[p].row]
    /\ slipped' = IF call[p].row = row[l] THEN slipped \ {l} ELSE slipped \cup {l}
    /\ Go(p, Idle)
    /\ UNCHANGED <<row, lock, counted, faults>>

\* Mutant: a copy without a time limit.
CopyExpiresNever(l) ==
    /\ FALSE
    /\ UNCHANGED vars

\* DETAIL_CACHE_TTL.
CopyExpires(l) ==
    /\ copy[l] # None
    /\ copy' = [copy EXCEPT ![l] = None] /\ slipped' = slipped \ {l}
    /\ UNCHANGED <<row, lock, call, counted, faults>>

-----------------------------------------------------------------------------
(***************************************************************************)
(* OwnerContentVisibilityService, and failures.                            *)
(***************************************************************************)
\* All rows are hidden or shown, and nothing is counted; then all copies go.
Sweep(p, hide) ==
    /\ Free(p)
    /\ \E l \in Items : row[l].hidden # hide /\ row[l] # NoRow
    /\ row' = [l \in Items |-> IF row[l] = NoRow THEN NoRow ELSE [row[l] EXCEPT !.hidden = hide]]
    /\ counted' = IF hide THEN {} ELSE counted
    /\ Go(p, [step |-> "evictAll"])
    /\ UNCHANGED <<copy, lock, slipped, faults>>

EvictAll(p) ==
    /\ call[p].step = "evictAll"
    /\ copy' = [l \in Items |-> None] /\ slipped' = {}
    /\ Go(p, Idle)
    /\ UNCHANGED <<row, lock, counted, faults>>

\* Copies that the handler in this slot is about to delete.
Evicting(p, l) == At(p, "evict", l) \/ call[p].step = "evictAll"

\* A transaction that fails rolls back; after the commit the copy is left.
Fail(p) ==
    /\ ~Free(p) /\ faults < MaxFaults
    /\ faults' = faults + 1
    /\ slipped' = slipped \cup {l \in Items : Stale(l) /\ Evicting(p, l)}
    /\ Unlock(p) /\ Go(p, Idle)
    /\ UNCHANGED <<row, copy, counted>>

-----------------------------------------------------------------------------
OwnerNext(p, l) ==
    \/ CreateCount(p, l) \/ CreateWrite(p, l) \/ OpenForm(p, l)
    \/ \E t \in Texts, versioned \in BOOLEAN, to \in {"KEEP", "ACTIVE", "INACTIVE"} :
        /\ At(p, "form", l)
        /\ UpdateRead(p, l, [seen |-> call[p].seen, versioned |-> versioned, text |-> t, to |-> to])
    \/ UpdateCount(p, l) \/ UpdateWrite(p, l)
    \/ ToggleRead(p, l) \/ ToggleCount(p, l) \/ ToggleWrite(p, l)
    \/ RemoveRead(p, l) \/ RemoveWrite(p, l) \/ EvictCopy(p, l)

Next ==
    \/ \E p \in Calls, l \in Items : OwnerNext(p, l) \/ ReadRow(p, l) \/ FillCopy(p, l)
    \/ \E l \in Items : CopyExpires(l)
    \/ \E p \in Calls : Sweep(p, TRUE) \/ Sweep(p, FALSE) \/ EvictAll(p) \/ Fail(p)

Spec == Init /\ [][Next]_vars

\* Redis forgets a copy when its time is over.
FairSpec == Spec /\ \A l \in Items : WF_vars(CopyExpires(l))

-----------------------------------------------------------------------------
\* However many tabs and devices of an owner publish at once, no more rows than the
\* limit are public by a count.
WithinLimit == Cardinality({l \in counted : Public(row[l])}) <= MaxActive

\* A cached detail is that of the row, unless whoever changed the row is about to
\* delete the copy, or failed to, or a reader was overtaken by the change.
CopiesAreCurrent ==
    \A l \in Items : Stale(l) => l \in slipped \/ \E p \in Calls : Evicting(p, l)

\* An edit that carries a version replaces the text its author saw, and no other.
EditsAreNotLost ==
    [][\A p \in Calls, l \in Items :
        At(p, "edit", l) /\ call[p].edit.versioned /\ call'[p].step = "evict" =>
            row[l].text = call[p].edit.seen.text]_vars

\* A copy that is out of date does not stay.
StaleCopiesGo == \A l \in Items : Stale(l) ~> ~Stale(l)
=============================================================================
