--------------------------- MODULE ListingsProofs ---------------------------
(***************************************************************************)
(* Proofs about Listings, for any rows, texts, handlers and limit.         *)
(***************************************************************************)
EXTENDS Listings, TLAPS, FiniteSetTheorems

InTransaction == {"create", "edit", "toggle"}

LockType ==
    /\ lock \in Calls \cup {None}
    /\ lock # None => call[lock].step \in InTransaction

-----------------------------------------------------------------------------
(***************************************************************************)
(* Positions of handlers.                                                  *)
(***************************************************************************)
LEMMA GoType ==
    ASSUME TypeOK, NEW p \in Calls, NEW s \in CallStates, Go(p, s)
    PROVE  /\ call' \in [Calls -> CallStates]
           /\ call'[p] = s /\ \A q \in Calls \ {p} : call'[q] = call[q]
BY DEF TypeOK, Go

LEMMA IdleType == Idle \in CallStates
BY DEF CallStates

LEMMA ItemStates ==
    ASSUME NEW l \in Items
    PROVE  /\ \A s \in {"create", "remove", "evict"} : [step |-> s, l |-> l] \in CallStates
           /\ \A g \in Pages : [step |-> "form", l |-> l, seen |-> g] \in CallStates
           /\ \A r \in Rows : [step |-> "fill", l |-> l, row |-> r] \in CallStates
           /\ \A s \in {"count", "edit"}, c \in BOOLEAN, e \in Edits :
                [step |-> s, l |-> l, checked |-> c, edit |-> e] \in CallStates
           /\ \A s \in {"countToggle", "toggle"}, c \in BOOLEAN, to \in {"ACTIVE", "INACTIVE"} :
                [step |-> s, l |-> l, checked |-> c, to |-> to] \in CallStates
BY DEF CallStates

LEMMA EditState ==
    ASSUME TypeOK, NEW p \in Calls, call[p].step \in {"count", "edit"}
    PROVE  /\ call[p].l \in Items /\ call[p].checked \in BOOLEAN /\ call[p].edit \in Edits
           /\ [call[p] EXCEPT !.step = "edit"] \in CallStates
           /\ [call[p] EXCEPT !.step = "edit"].step = "edit"
           /\ [call[p] EXCEPT !.step = "edit"].l = call[p].l
           /\ [call[p] EXCEPT !.step = "edit"].edit = call[p].edit
<1>1. call[p] \in [step : {"count", "edit"}, l : Items, checked : BOOLEAN, edit : Edits]
    BY DEF TypeOK, CallStates, Idle
<1> QED
    BY <1>1 DEF CallStates

LEMMA ToggleState ==
    ASSUME TypeOK, NEW p \in Calls, call[p].step \in {"countToggle", "toggle"}
    PROVE  /\ call[p].l \in Items /\ call[p].checked \in BOOLEAN
           /\ call[p].to \in {"ACTIVE", "INACTIVE"}
           /\ [call[p] EXCEPT !.step = "toggle"] \in CallStates
           /\ [call[p] EXCEPT !.step = "toggle"].step = "toggle"
           /\ [call[p] EXCEPT !.step = "toggle"].l = call[p].l
<1>1. call[p] \in [step : {"countToggle", "toggle"}, l : Items, checked : BOOLEAN,
                   to : {"ACTIVE", "INACTIVE"}]
    BY DEF TypeOK, CallStates, Idle
<1> QED
    BY <1>1 DEF CallStates

LEMMA FormState ==
    ASSUME TypeOK, NEW p \in Calls
    PROVE  /\ call[p].step = "form" => call[p].l \in Items /\ call[p].seen \in Pages
           /\ call[p].step = "fill" => call[p].l \in Items /\ call[p].row \in Rows
<1>1. call[p] \in CallStates
    BY DEF TypeOK
<1> QED
    BY <1>1 DEF CallStates, Idle

-----------------------------------------------------------------------------
(***************************************************************************)
(* What the steps of a handler change.                                     *)
(***************************************************************************)
\* Steps that read and go on.
Reads(p, l) ==
    \/ OpenForm(p, l) \/ ToggleRead(p, l) \/ RemoveRead(p, l) \/ ReadRow(p, l)
    \/ \E t \in Texts, versioned \in BOOLEAN, to \in {"KEEP", "ACTIVE", "INACTIVE"} :
        /\ At(p, "form", l)
        /\ UpdateRead(p, l, [seen |-> call[p].seen, versioned |-> versioned, text |-> t, to |-> to])

Counts(p, l) == CreateCount(p, l) \/ UpdateCount(p, l) \/ ToggleCount(p, l)

\* Where they go: nowhere that counted without a count.
LEMMA ReadsGo ==
    ASSUME TypeOK, NEW p \in Calls, NEW l \in Items, Reads(p, l)
    PROVE  /\ UNCHANGED <<row, copy, lock, counted, slipped, faults>>
           /\ call[p].step \in {"idle", "form"}
           /\ \E s \in CallStates :
                /\ Go(p, s)
                /\ \/ s = Idle
                   \/ s = [step |-> "form", l |-> l, seen |-> Page(row[l])] /\ There(row[l])
                   \/ /\ s.step \in {"count", "edit"} /\ s.l = l /\ At(p, "form", l)
                      /\ s.edit.seen = call[p].seen /\ (s.step = "edit" => s.checked = FALSE)
                   \/ /\ s.step \in {"countToggle", "toggle"} /\ s.l = l
                      /\ s.step = "toggle" => s.checked = FALSE
                   \/ s.step = "remove"
                   \/ s = [step |-> "fill", l |-> l, row |-> row[l]] /\ There(row[l])
<1>0. row[l] \in Rows /\ Page(row[l]) \in Pages
    BY DEF TypeOK, Rows, Page, Pages
<1>1. CASE OpenForm(p, l)
    <2> DEFINE s == [step |-> "form", l |-> l, seen |-> Page(row[l])]
    <2>1. /\ UNCHANGED <<row, copy, lock, counted, slipped, faults>> /\ Go(p, s)
          /\ call[p] = Idle /\ There(row[l])
        BY <1>1 DEF OpenForm, Free
    <2>2. s \in CallStates
        BY <1>0, ItemStates
    <2> QED
        BY <2>1, <2>2 DEF Idle
<1>2. CASE ToggleRead(p, l)
    <2> DEFINE on == row[l].status # "ACTIVE"
               s  == [step |-> IF on THEN "countToggle" ELSE "toggle", l |-> l, checked |-> on,
                      to |-> IF on THEN "ACTIVE" ELSE "INACTIVE"]
    <2>1. Go(p, s) /\ UNCHANGED <<row, copy, lock, counted, slipped, faults>> /\ call[p] = Idle
        BY <1>2 DEF ToggleRead, Free
    <2>2. s \in CallStates /\ s.step \in {"countToggle", "toggle"} /\ s.l = l
        BY ItemStates
    <2>3. s.step = "toggle" => s.checked = FALSE
        OBVIOUS
    <2> QED
        BY <2>1, <2>2, <2>3 DEF Idle
<1>3. CASE RemoveRead(p, l)
    <2> DEFINE s == [step |-> "remove", l |-> l]
    <2>1. UNCHANGED <<row, copy, lock, counted, slipped, faults>> /\ Go(p, s) /\ call[p] = Idle
        BY <1>3 DEF RemoveRead, Free
    <2>2. s \in CallStates
        BY ItemStates
    <2> QED
        BY <2>1, <2>2 DEF Idle
<1>4. CASE ReadRow(p, l)
    <2> DEFINE s == [step |-> "fill", l |-> l, row |-> row[l]]
    <2>1. /\ UNCHANGED <<row, copy, lock, counted, slipped, faults>> /\ Go(p, s)
          /\ call[p] = Idle /\ There(row[l])
        BY <1>4 DEF ReadRow, Free
    <2>2. s \in CallStates
        BY <1>0, ItemStates
    <2> QED
        BY <2>1, <2>2 DEF Idle
<1>5. ASSUME NEW t \in Texts, NEW v \in BOOLEAN, NEW to \in {"KEEP", "ACTIVE", "INACTIVE"},
             At(p, "form", l),
             UpdateRead(p, l, [seen |-> call[p].seen, versioned |-> v, text |-> t, to |-> to])
      PROVE  /\ UNCHANGED <<row, copy, lock, counted, slipped, faults>>
             /\ \E s \in CallStates :
                  /\ Go(p, s)
                  /\ \/ s = Idle
                     \/ /\ s.step \in {"count", "edit"} /\ s.l = l
                        /\ s.edit.seen = call[p].seen /\ (s.step = "edit" => s.checked = FALSE)
    <2> DEFINE e == [seen |-> call[p].seen, versioned |-> v, text |-> t, to |-> to]
               c == to = "ACTIVE" /\ ~Public(row[l])
               s == [step |-> IF c THEN "count" ELSE "edit", l |-> l, checked |-> c, edit |-> e]
    <2>1. UNCHANGED <<row, copy, lock, counted, slipped, faults>> /\ (Go(p, Idle) \/ Go(p, s))
        BY <1>5 DEF UpdateRead
    <2>2. e \in Edits
        BY <1>5, FormState DEF At, Edits
    <2>3. s \in CallStates
        BY <2>2, ItemStates DEF Public
    <2>4. /\ s.step \in {"count", "edit"} /\ s.l = l /\ s.edit.seen = call[p].seen
          /\ s.step = "edit" => s.checked = FALSE
        OBVIOUS
    <2> HIDE DEF s
    <2> QED
        BY <2>1, <2>3, <2>4, IdleType
<1> QED
    BY <1>1, <1>2, <1>3, <1>4, <1>5 DEF Reads, At

LEMMA CountsGo ==
    ASSUME TypeOK, NEW p \in Calls, NEW l \in Items, Counts(p, l)
    PROVE  /\ UNCHANGED <<row, copy, counted, slipped, faults>>
           /\ call[p].step \in {"idle", "count", "countToggle"} /\ lock = None
           /\ \/ lock' = lock /\ Go(p, Idle)
              \/ /\ lock' = p /\ Cardinality({i \in Items : Public(row[i])}) < MaxActive
                 /\ \E s \in CallStates :
                      /\ Go(p, s) /\ s.l = l
                      /\ \/ s.step = "create" /\ row[l] = NoRow
                         \/ /\ s.step = "edit" /\ call[p].step = "count" /\ call[p].l = l
                            /\ s.edit = call[p].edit
                         \/ s.step = "toggle"
<1>1. CASE CreateCount(p, l)
    <2> DEFINE s == [step |-> "create", l |-> l]
    <2>1. /\ UNCHANGED <<row, copy, counted, slipped, faults>> /\ lock = None
          /\ call[p] = Idle /\ row[l] = NoRow
          /\ \/ lock' = lock /\ Go(p, Idle)
             \/ /\ lock' = p /\ Cardinality({i \in Items : Public(row[i])}) < MaxActive
                /\ Go(p, s)
        BY <1>1 DEF CreateCount, Count, Free
    <2>2. s \in CallStates
        BY ItemStates
    <2> QED
        BY <2>1, <2>2 DEF Idle
<1>2. CASE UpdateCount(p, l)
    <2> DEFINE s == [call[p] EXCEPT !.step = "edit"]
    <2>1. call[p].step = "count" /\ call[p].l = l
        BY <1>2 DEF UpdateCount, At
    <2>2. s \in CallStates /\ s.step = "edit" /\ s.l = l /\ s.edit = call[p].edit
        BY <2>1, EditState
    <2> HIDE DEF s
    <2>3. /\ UNCHANGED <<row, copy, counted, slipped, faults>> /\ lock = None
          /\ \/ lock' = lock /\ Go(p, Idle)
             \/ /\ lock' = p /\ Cardinality({i \in Items : Public(row[i])}) < MaxActive
                /\ Go(p, s)
        BY <1>2 DEF UpdateCount, Count, s
    <2> QED
        BY <2>1, <2>2, <2>3
<1>3. CASE ToggleCount(p, l)
    <2> DEFINE s == [call[p] EXCEPT !.step = "toggle"]
    <2>1. call[p].step = "countToggle" /\ call[p].l = l
        BY <1>3 DEF ToggleCount, At
    <2>2. s \in CallStates /\ s.step = "toggle" /\ s.l = l
        BY <2>1, ToggleState
    <2> HIDE DEF s
    <2>3. /\ UNCHANGED <<row, copy, counted, slipped, faults>> /\ lock = None
          /\ \/ lock' = lock /\ Go(p, Idle)
             \/ /\ lock' = p /\ Cardinality({i \in Items : Public(row[i])}) < MaxActive
                /\ Go(p, s)
        BY <1>3 DEF ToggleCount, Count, s
    <2> QED
        BY <2>1, <2>2, <2>3
<1> QED
    BY <1>1, <1>2, <1>3 DEF Counts

Writes(p, l) ==
    CreateWrite(p, l) \/ UpdateWrite(p, l) \/ ToggleWrite(p, l) \/ RemoveWrite(p, l)

\* A handler that has counted.
Checked(p) ==
    \/ call[p].step = "create"
    \/ call[p].step \in {"edit", "toggle"} /\ call[p].checked = TRUE

Born(r) == r.status # "NONE"

\* A new version, or the same one with the same text.
Follows(r, was) == r.version > was.version \/ Page(r) = Page(was)

LEMMA WritesGo ==
    ASSUME TypeOK, NEW p \in Calls, NEW l \in Items, Writes(p, l)
    PROVE  /\ UNCHANGED <<copy, slipped, faults>>
           /\ call[p].l = l /\ call[p].step \in {"create", "edit", "toggle", "remove"}
           /\ lock' = IF lock = p THEN None ELSE lock
           /\ \/ UNCHANGED <<row, counted>> /\ Go(p, Idle)
              \/ \E r \in Rows, c \in BOOLEAN :
                    /\ Write(l, r, c) /\ (c => Checked(p))
                    /\ \/ call[p].step = "create" /\ Born(r) /\ Go(p, Idle)
                       \/ /\ call[p].step # "create" /\ Evict(p, l)
                          /\ r = row[l] \/ (There(row[l]) /\ Born(r) /\ Follows(r, row[l]))
<1>0. row[l] \in Rows
    BY DEF TypeOK
<1>1. CASE CreateWrite(p, l)
    <2> DEFINE r == [status |-> "ACTIVE", hidden |-> FALSE, text |-> First, version |-> 1]
    <2>1. /\ UNCHANGED <<copy, slipped, faults>> /\ call[p].l = l /\ call[p].step = "create"
          /\ Unlock(p) /\ Go(p, Idle) /\ Write(l, r, TRUE)
        BY <1>1 DEF CreateWrite, At
    <2>2. First \in Texts
        BY <1>0 DEF First, Rows
    <2>3. r \in Rows /\ Born(r)
        BY <2>2 DEF Rows, Born
    <2> HIDE DEF r
    <2> QED
        BY <2>1, <2>3 DEF Unlock, Checked
<1>2. CASE UpdateWrite(p, l)
    <2> DEFINE e == call[p].edit
               r == Edited(row[l], e)
    <2>1. /\ UNCHANGED <<copy, slipped, faults>> /\ call[p].l = l /\ call[p].step = "edit"
          /\ Unlock(p)
          /\ \/ UNCHANGED <<row, counted>> /\ Go(p, Idle)
             \/ There(row[l]) /\ Write(l, r, call[p].checked) /\ Evict(p, l)
        BY <1>2 DEF UpdateWrite, At
    <2>2. e \in Edits /\ call[p].checked \in BOOLEAN
        BY <2>1, EditState
    <2>3. ASSUME There(row[l])
          PROVE  r \in Rows /\ Born(r) /\ r.version > row[l].version
        <3>1. DOMAIN row[l] = {"status", "hidden", "text", "version"}
            BY <1>0 DEF Rows
        <3>2. e.text \in Texts /\ e.to \in {"KEEP", "ACTIVE", "INACTIVE"}
            BY <2>2 DEF Edits
        <3>3. row[l].version \in Nat /\ row[l].hidden \in BOOLEAN /\ row[l].status \in {"ACTIVE", "INACTIVE"}
            BY <1>0, <2>3 DEF Rows, There
        <3> HIDE DEF e
        <3>4. r \in Rows
            <4>1. /\ row[l].version + 1 \in Nat
                  /\ (IF e.to = "KEEP" THEN row[l].status ELSE e.to)
                        \in {"NONE", "ACTIVE", "INACTIVE", "DELETED"}
                BY <3>2, <3>3
            <4> DEFINE n == row[l].version + 1
                       v == IF e.to = "KEEP" THEN row[l].status ELSE e.to
            <4>2. n \in Nat /\ v \in {"NONE", "ACTIVE", "INACTIVE", "DELETED"}
                BY <4>1
            <4>3. r = [row[l] EXCEPT !.text = e.text, !.version = n, !.status = v]
                BY DEF Edited
            <4> HIDE DEF n, v, r
            <4> QED
                BY <1>0, <3>2, <4>2, <4>3 DEF Rows
        <3>5. r.version = row[l].version + 1
            BY <1>0, <3>1 DEF Edited
        <3>6. Born(r)
            BY <1>0, <3>1, <3>2, <3>3 DEF Born, Edited
        <3> HIDE DEF r
        <3> QED
            BY <3>3, <3>4, <3>5, <3>6
    <2> HIDE DEF r, e
    <2> QED
        BY <2>1, <2>2, <2>3 DEF Unlock, Checked, Follows
<1>3. CASE ToggleWrite(p, l)
    <2> DEFINE r == IF There(row[l]) THEN [row[l] EXCEPT !.status = call[p].to] ELSE row[l]
    <2>1. /\ UNCHANGED <<copy, slipped, faults>> /\ call[p].l = l /\ call[p].step = "toggle"
          /\ Unlock(p) /\ Evict(p, l) /\ Write(l, r, call[p].checked)
        BY <1>3 DEF ToggleWrite, At
    <2>2. call[p].to \in {"ACTIVE", "INACTIVE"} /\ call[p].checked \in BOOLEAN
        BY <2>1, ToggleState
    <2>3. /\ r \in Rows
          /\ r = row[l] \/ (There(row[l]) /\ Born(r) /\ Follows(r, row[l]))
        BY <1>0, <2>2 DEF Rows, Born, Follows, Page
    <2> HIDE DEF r
    <2> QED
        BY <2>1, <2>2, <2>3 DEF Unlock, Checked
<1>4. CASE RemoveWrite(p, l)
    <2> DEFINE r == [row[l] EXCEPT !.status = "DELETED", !.version = row[l].version + 1]
    <2>1. /\ UNCHANGED <<copy, lock, slipped, faults>> /\ call[p].l = l /\ call[p].step = "remove"
          /\ \/ UNCHANGED <<row, counted>> /\ Go(p, Idle)
             \/ There(row[l]) /\ Write(l, r, FALSE) /\ Evict(p, l)
        BY <1>4 DEF RemoveWrite, At
    <2>2. r \in Rows /\ Born(r) /\ Follows(r, row[l])
        <3>1. r \in Rows /\ r.version = row[l].version + 1 /\ r.status = "DELETED"
            <4> DEFINE n == row[l].version + 1
            <4>1. n \in Nat
                BY <1>0 DEF Rows
            <4>2. r = [row[l] EXCEPT !.status = "DELETED", !.version = n]
                OBVIOUS
            <4>3. n = row[l].version + 1
                OBVIOUS
            <4> HIDE DEF n, r
            <4> QED
                BY <1>0, <4>1, <4>2, <4>3 DEF Rows
        <3>2. row[l].version \in Nat /\ row[l].hidden \in BOOLEAN /\ row[l].text \in Texts
            BY <1>0 DEF Rows
        <3> HIDE DEF r
        <3> QED
            BY <3>1, <3>2 DEF Born, Follows
    <2>3. lock # p
        BY <2>1, NoneAssumption DEF TypeOK
    <2> HIDE DEF r
    <2> QED
        BY <2>1, <2>2, <2>3
<1> QED
    BY <1>1, <1>2, <1>3, <1>4 DEF Writes

\* Steps about copies, and what ends a handler without a write.
Ends(p) ==
    \/ \E l \in Items : EvictCopy(p, l) \/ FillCopy(p, l)
    \/ EvictAll(p) \/ Fail(p)

LEMMA EndsGo ==
    ASSUME TypeOK, NEW p \in Calls, Ends(p)
    PROVE  /\ UNCHANGED <<row, counted>> /\ Go(p, Idle)
           /\ lock' = IF lock = p THEN None ELSE lock
<1>1. CASE Fail(p)
    BY <1>1 DEF Fail, Unlock
<1>2. CASE EvictAll(p) \/ \E l \in Items : EvictCopy(p, l) \/ FillCopy(p, l)
    <2>1. UNCHANGED <<row, counted, lock>> /\ Go(p, Idle)
        BY <1>2 DEF EvictAll, EvictCopy, FillCopy
    <2>2. lock # p
        BY <1>2, NoneAssumption DEF EvictAll, EvictCopy, FillCopy, At, TypeOK
    <2> QED
        BY <2>1, <2>2
<1> QED
    BY <1>1, <1>2 DEF Ends

LEMMA NextCases ==
    ASSUME [Next]_vars
    PROVE  \/ \E p \in Calls, l \in Items : Reads(p, l) \/ Counts(p, l) \/ Writes(p, l)
           \/ \E p \in Calls : Ends(p) \/ Sweep(p, TRUE) \/ Sweep(p, FALSE)
           \/ \E l \in Items : CopyExpires(l)
           \/ UNCHANGED vars
BY DEF Next, OwnerNext, Reads, Counts, Writes, Ends

-----------------------------------------------------------------------------
(***************************************************************************)
(* Type correctness.                                                       *)
(***************************************************************************)
\* The transaction that has the lock goes on or ends.
LEMMA LockStep ==
    ASSUME TypeOK, NEW p \in Calls, NEW s, Go(p, s),
           \/ lock' = lock /\ lock # p
           \/ lock' = p /\ s.step \in InTransaction
           \/ lock' = IF lock = p THEN None ELSE lock
    PROVE  LockType'
BY NoneAssumption DEF TypeOK, Go, LockType, InTransaction

LEMMA TypeStep ==
    ASSUME TypeOK, [Next]_vars
    PROVE  TypeOK'
<1>1. ASSUME NEW p \in Calls, NEW l \in Items, Reads(p, l)
      PROVE  TypeOK'
    <2>1. /\ UNCHANGED <<row, copy, lock, counted, slipped, faults>> /\ lock # p
          /\ \E s \in CallStates : Go(p, s)
        BY <1>1, ReadsGo, NoneAssumption DEF TypeOK
    <2>2. call' \in [Calls -> CallStates] /\ LockType'
        BY <2>1, GoType, LockStep
    <2> QED
        BY <2>1, <2>2 DEF TypeOK, LockType, InTransaction
<1>2. ASSUME NEW p \in Calls, NEW l \in Items, Counts(p, l)
      PROVE  TypeOK'
    <2>1. /\ UNCHANGED <<row, copy, counted, slipped, faults>> /\ lock # p
          /\ \E s \in CallStates :
                Go(p, s) /\ (lock' = lock \/ (lock' = p /\ s.step \in InTransaction))
        BY <1>2, CountsGo, IdleType, NoneAssumption DEF InTransaction
    <2>2. call' \in [Calls -> CallStates] /\ LockType'
        BY <2>1, GoType, LockStep
    <2> QED
        BY <2>1, <2>2 DEF TypeOK, LockType, InTransaction
<1>3. ASSUME NEW p \in Calls, NEW l \in Items, Writes(p, l)
      PROVE  TypeOK'
    <2>1. /\ UNCHANGED <<copy, slipped, faults>> /\ lock' = IF lock = p THEN None ELSE lock
          /\ \E s \in CallStates : Go(p, s)
          /\ \/ UNCHANGED <<row, counted>>
             \/ \E r \in Rows, c \in BOOLEAN : Write(l, r, c)
        BY <1>3, WritesGo, IdleType, ItemStates DEF Evict
    <2>2. call' \in [Calls -> CallStates] /\ LockType'
        BY <2>1, GoType, LockStep
    <2>3. row' \in [Items -> Rows] /\ counted' \subseteq Items
        BY <2>1 DEF TypeOK, Write
    <2> QED
        BY <2>1, <2>2, <2>3 DEF TypeOK, LockType, InTransaction
<1>4. ASSUME NEW p \in Calls, Ends(p)
      PROVE  TypeOK'
    <2>1. /\ UNCHANGED <<row, counted>> /\ Go(p, Idle)
          /\ lock' = IF lock = p THEN None ELSE lock
        BY <1>4, EndsGo
    <2>2. call' \in [Calls -> CallStates] /\ LockType'
        BY <2>1, GoType, LockStep, IdleType
    <2> DEFINE Rest == /\ copy' \in [Items -> Rows \cup {None}]
                       /\ slipped' \subseteq Items /\ faults' \in 0..MaxFaults
    <2>3. Rest
        <3>1. CASE Fail(p)
            BY <3>1, BoundsAssumption DEF Fail, TypeOK
        <3>2. CASE EvictAll(p)
            BY <3>2 DEF EvictAll, TypeOK
        <3>3. ASSUME NEW l \in Items, EvictCopy(p, l)
              PROVE  Rest
            BY <3>3 DEF EvictCopy, TypeOK
        <3>4. ASSUME NEW l \in Items, FillCopy(p, l)
              PROVE  Rest
            <4>1. call[p].row \in Rows
                BY <3>4, FormState DEF FillCopy, At
            <4> QED
                BY <3>4, <4>1 DEF FillCopy, TypeOK
        <3> QED
            BY <1>4, <3>1, <3>2, <3>3, <3>4 DEF Ends
    <2> QED
        BY <2>1, <2>2, <2>3 DEF TypeOK, LockType, InTransaction
<1>5. ASSUME NEW p \in Calls, NEW hide \in BOOLEAN, Sweep(p, hide)
      PROVE  TypeOK'
    <2>1. [step |-> "evictAll"] \in CallStates
        BY DEF CallStates
    <2>2. /\ UNCHANGED <<copy, lock, slipped, faults>> /\ Go(p, [step |-> "evictAll"])
          /\ lock # p /\ counted' \subseteq Items
        BY <1>5, NoneAssumption DEF Sweep, Free, Idle, TypeOK
    <2>3. call' \in [Calls -> CallStates] /\ LockType'
        BY <2>1, <2>2, GoType, LockStep
    <2>4. row' \in [Items -> Rows]
        <3> SUFFICES ASSUME NEW l \in Items
                     PROVE  (IF row[l] = NoRow THEN NoRow ELSE [row[l] EXCEPT !.hidden = hide]) \in Rows
            BY <1>5 DEF Sweep
        <3> QED
            BY DEF TypeOK, Rows
    <2> QED
        BY <2>2, <2>3, <2>4 DEF TypeOK, LockType, InTransaction
<1>6. ASSUME NEW l \in Items, CopyExpires(l)
      PROVE  TypeOK'
    BY <1>6 DEF CopyExpires, TypeOK
<1>7. CASE UNCHANGED vars
    BY <1>7 DEF vars, TypeOK
<1> QED
    BY <1>1, <1>2, <1>3, <1>4, <1>5, <1>6, <1>7, NextCases

\* Types; the lock is held by a transaction that counted.
THEOREM TypeCorrect == Spec => []TypeOK
<1>1. Init => TypeOK
    BY TextsAssumption, BoundsAssumption DEF Init, TypeOK, CallStates, Rows, NoRow, First
<1>2. TypeOK /\ [Next]_vars => TypeOK'
    BY TypeStep
<1> QED
    BY <1>1, <1>2, PTL DEF Spec

-----------------------------------------------------------------------------
(***************************************************************************)
(* The limit.  Whoever has counted has the lock, and there is room for one *)
(* more until it writes: no one else makes a row public by a count.        *)
(***************************************************************************)
LimitInv ==
    /\ \A l \in counted : Public(row[l])
    /\ Cardinality(counted) <= MaxActive
    /\ \A p \in Calls : Checked(p) => lock = p /\ Cardinality(counted) < MaxActive

\* Nothing counted comes or goes, and nobody new has counted.
LEMMA SameLimit ==
    ASSUME LimitInv, UNCHANGED counted,
           \A l \in counted : Public(row[l])',
           \A q \in Calls : Checked(q)' => Checked(q) /\ lock' = lock
    PROVE  LimitInv'
BY DEF LimitInv

LEMMA OthersCounted ==
    ASSUME TypeOK, NEW p \in Calls, NEW s \in CallStates, Go(p, s)
    PROVE  /\ \A q \in Calls \ {p} : Checked(q)' <=> Checked(q)
           /\ Checked(p)' => \/ s.step = "create"
                             \/ s.step \in {"edit", "toggle"} /\ s.checked = TRUE
BY GoType DEF Checked

LEMMA CountedIsFinite ==
    ASSUME TypeOK
    PROVE  IsFiniteSet(counted) /\ Cardinality(counted) \in Nat
BY ItemsAssumption, FS_Subset, FS_CardinalityType DEF TypeOK

LEMMA LimitWrite ==
    ASSUME TypeOK, LimitInv, NEW p \in Calls, NEW l \in Items, Writes(p, l)
    PROVE  LimitInv'
<1>1. /\ lock' = IF lock = p THEN None ELSE lock
      /\ call[p].l = l /\ \E s \in CallStates : Go(p, s) /\ s.step \in {"idle", "evict"}
      /\ \/ UNCHANGED <<row, counted>>
         \/ \E r \in Rows, c \in BOOLEAN : Write(l, r, c) /\ (c => Checked(p))
    BY WritesGo, IdleType, ItemStates DEF Evict, Idle
<1>2. /\ ~Checked(p)'
      /\ \A q \in Calls \ {p} : Checked(q)' => Checked(q) /\ lock' = lock
    BY <1>1, OthersCounted, NoneAssumption DEF LimitInv
<1>3. CASE UNCHANGED <<row, counted>>
    BY <1>2, <1>3, SameLimit DEF LimitInv
<1>4. ASSUME NEW r \in Rows, NEW c \in BOOLEAN, Write(l, r, c), c => Checked(p)
      PROVE  LimitInv'
    <2>1. \A i \in counted' : Public(row[i])'
        BY <1>4 DEF Write, LimitInv, TypeOK
    <2>2. CASE counted' = counted
        BY <1>2, <2>1, <2>2 DEF LimitInv
    <2>3. CASE counted' = counted \ {l}
        <3>1. Cardinality(counted \ {l}) <= Cardinality(counted)
            BY CountedIsFinite, FS_Subset
        <3>2. Cardinality(counted \ {l}) \in Nat /\ MaxActive \in Nat
            BY CountedIsFinite, FS_Subset, FS_CardinalityType, BoundsAssumption
        <3> QED
            BY <1>2, <2>1, <2>3, <3>1, <3>2, CountedIsFinite DEF LimitInv
    <2>4. CASE c = TRUE /\ counted' = counted \cup {l}
        <3>1. Checked(p) /\ lock = p /\ Cardinality(counted) < MaxActive
            BY <1>4, <2>4 DEF LimitInv
        <3>2. \A q \in Calls : ~Checked(q)'
            BY <1>2, <3>1 DEF LimitInv
        <3>3. Cardinality(counted') <= Cardinality(counted) + 1
            BY <2>4, CountedIsFinite, FS_AddElement
        <3>4. Cardinality(counted') <= MaxActive
            <4>1. Cardinality(counted') \in Nat /\ MaxActive \in Nat
                BY <2>4, CountedIsFinite, FS_AddElement, FS_CardinalityType, BoundsAssumption
            <4> QED
                BY <3>1, <3>3, <4>1, CountedIsFinite
        <3> QED
            BY <2>1, <3>2, <3>4 DEF LimitInv
    <2> QED
        BY <1>4, <2>2, <2>3, <2>4 DEF Write
<1> QED
    BY <1>1, <1>3, <1>4

LEMMA LimitStep ==
    ASSUME TypeOK, LimitInv, [Next]_vars
    PROVE  LimitInv'
<1>1. ASSUME NEW p \in Calls, NEW l \in Items, Reads(p, l)
      PROVE  LimitInv'
    <2>1. UNCHANGED <<row, lock, counted>>
        BY <1>1, ReadsGo
    <2>2. ~Checked(p)'
        <3>1. \E s \in CallStates : /\ Go(p, s) /\ s.step # "create"
                                    /\ s.step \in {"edit", "toggle"} => s.checked = FALSE
            <4> PICK s \in CallStates :
                    /\ Go(p, s)
                    /\ \/ s = Idle
                       \/ s = [step |-> "form", l |-> l, seen |-> Page(row[l])] /\ There(row[l])
                       \/ /\ s.step \in {"count", "edit"} /\ s.l = l /\ At(p, "form", l)
                          /\ s.edit.seen = call[p].seen /\ (s.step = "edit" => s.checked = FALSE)
                       \/ /\ s.step \in {"countToggle", "toggle"} /\ s.l = l
                          /\ s.step = "toggle" => s.checked = FALSE
                       \/ s.step = "remove"
                       \/ s = [step |-> "fill", l |-> l, row |-> row[l]] /\ There(row[l])
                BY <1>1, ReadsGo
            <4>1. s.step # "create" /\ (s.step \in {"edit", "toggle"} => s.checked = FALSE)
                BY DEF Idle
            <4> QED
                BY <4>1
        <3> QED
            BY <3>1, OthersCounted
    <2>3. \A q \in Calls : Checked(q)' => Checked(q)
        BY <1>1, <2>2, ReadsGo, OthersCounted
    <2> QED
        BY <2>1, <2>3, SameLimit DEF LimitInv
<1>2. ASSUME NEW p \in Calls, NEW l \in Items, Counts(p, l)
      PROVE  LimitInv'
    <2>1. UNCHANGED <<row, counted>> /\ lock = None
        BY <1>2, CountsGo
    <2>2. \A q \in Calls : ~Checked(q)
        BY <2>1, NoneAssumption DEF LimitInv
    <2>3. CASE lock' = lock /\ Go(p, Idle)
        <3>1. ~Checked(p)'
            BY <2>3, OthersCounted, IdleType DEF Idle
        <3> QED
            BY <2>1, <2>2, <2>3, <3>1, OthersCounted, IdleType, SameLimit DEF LimitInv
    <2>4. CASE /\ lock' = p /\ Cardinality({i \in Items : Public(row[i])}) < MaxActive
               /\ \E s \in CallStates : Go(p, s)
        <3>1. \A q \in Calls \ {p} : ~Checked(q)'
            BY <2>2, <2>4, OthersCounted
        <3>2. counted \subseteq {i \in Items : Public(row[i])}
            BY DEF LimitInv, TypeOK
        <3>3. Cardinality(counted) <= Cardinality({i \in Items : Public(row[i])})
            BY <3>2, ItemsAssumption, FS_Subset
        <3>4. Cardinality(counted) < MaxActive
            <4>1. /\ Cardinality({i \in Items : Public(row[i])}) \in Nat
                  /\ MaxActive \in Nat
                BY ItemsAssumption, FS_Subset, FS_CardinalityType, BoundsAssumption
            <4> QED
                BY <2>4, <3>3, <4>1, CountedIsFinite
        <3> QED
            BY <2>1, <2>4, <3>1, <3>4 DEF LimitInv
    <2> QED
        BY <1>2, <2>3, <2>4, CountsGo
<1>3. ASSUME NEW p \in Calls, Ends(p)
      PROVE  LimitInv'
    <2>1. /\ UNCHANGED <<row, counted>> /\ Go(p, Idle)
          /\ lock' = IF lock = p THEN None ELSE lock
        BY <1>3, EndsGo
    <2>2. ~Checked(p)'
        BY <2>1, OthersCounted, IdleType DEF Idle
    <2>3. \A q \in Calls \ {p} : Checked(q)' => Checked(q) /\ lock' = lock
        BY <2>1, OthersCounted, IdleType, NoneAssumption DEF LimitInv
    <2> QED
        BY <2>1, <2>2, <2>3, SameLimit DEF LimitInv
<1>4. ASSUME NEW p \in Calls, NEW hide \in BOOLEAN, Sweep(p, hide)
      PROVE  LimitInv'
    <2>1. [step |-> "evictAll"] \in CallStates
        BY DEF CallStates
    <2>2. /\ lock' = lock /\ Go(p, [step |-> "evictAll"])
          /\ counted' = IF hide THEN {} ELSE counted
        BY <1>4 DEF Sweep
    <2>3. \A q \in Calls : Checked(q)' => Checked(q)
        BY <2>1, <2>2, OthersCounted
    <2>4. CASE hide
        <3>1. counted' = {} /\ Cardinality({}) = 0 /\ MaxActive \in Nat /\ MaxActive > 0
            BY <2>2, <2>4, FS_EmptySet, BoundsAssumption
        <3> QED
            BY <2>2, <2>3, <3>1 DEF LimitInv
    <2>5. CASE ~hide
        <3>1. \A l \in counted : Public(row[l])'
            <4> SUFFICES ASSUME NEW l \in counted
                         PROVE  Public(row'[l])
                OBVIOUS
            <4>1. l \in Items /\ Public(row[l]) /\ row[l] \in Rows
                BY DEF LimitInv, TypeOK
            <4>2. row'[l] = [row[l] EXCEPT !.hidden = hide]
                BY <1>4, <4>1 DEF Sweep, Public, NoRow
            <4> QED
                BY <2>5, <4>1, <4>2 DEF Public, Rows
        <3> QED
            BY <2>2, <2>3, <2>5, <3>1, SameLimit
    <2> QED
        BY <2>4, <2>5
<1>5. CASE UNCHANGED vars \/ \E l \in Items : CopyExpires(l)
    <2>1. UNCHANGED <<row, lock, counted, call>>
        BY <1>5 DEF vars, CopyExpires
    <2> QED
        BY <2>1, SameLimit DEF LimitInv, Checked
<1> QED
    BY <1>1, <1>2, <1>3, <1>4, <1>5, LimitWrite, NextCases

\* As many handlers as an owner starts: no more rows than the limit are public by
\* a count.
THEOREM LimitHolds == Spec => []WithinLimit
<1>1. Init => LimitInv
    BY FS_EmptySet, BoundsAssumption DEF Init, LimitInv, Checked, Idle
<1>2. TypeOK /\ LimitInv /\ [Next]_vars => LimitInv'
    BY LimitStep
<1>3. LimitInv => WithinLimit
    <2> SUFFICES ASSUME LimitInv
                 PROVE  WithinLimit
        OBVIOUS
    <2>1. {l \in counted : Public(row[l])} = counted
        BY DEF LimitInv
    <2> QED
        BY <2>1 DEF LimitInv, WithinLimit
<1> QED
    BY <1>1, <1>2, <1>3, TypeCorrect, PTL DEF Spec

-----------------------------------------------------------------------------
(***************************************************************************)
(* Copies.  A row that is being created has no copy and no reader yet.     *)
(***************************************************************************)
BirthInv ==
    /\ \A l \in Items : ~Born(row[l]) => copy[l] = None
    /\ \A p \in Calls : call[p].step = "create" => ~Born(row[call[p].l]) /\ lock = p
    /\ \A p \in Calls :
        call[p].step \in {"form", "count", "edit", "fill"} => Born(row[call[p].l])

\* Rows that are born stay so; only the creation under way brings one forth.
LEMMA WriteBirth ==
    ASSUME TypeOK, BirthInv, NEW p \in Calls, NEW l \in Items, Writes(p, l)
    PROVE  /\ \A i \in Items : Born(row[i]) => Born(row'[i])
           /\ \A i \in Items : ~Born(row[i]) /\ Born(row'[i]) => i = l /\ call[p].step = "create"
           /\ \E s \in CallStates : Go(p, s) /\ s.step \in {"idle", "evict"}
           /\ lock' = IF lock = p THEN None ELSE lock
           /\ copy' = copy
<1>1. CASE UNCHANGED <<row, counted>> /\ Go(p, Idle)
    BY <1>1, WritesGo, IdleType DEF Idle
<1>2. ASSUME NEW r \in Rows, NEW c \in BOOLEAN, Write(l, r, c),
             \/ call[p].step = "create" /\ Born(r) /\ Go(p, Idle)
             \/ /\ call[p].step # "create" /\ Evict(p, l)
                /\ r = row[l] \/ (There(row[l]) /\ Born(r) /\ Follows(r, row[l]))
      PROVE  /\ \A i \in Items : Born(row[i]) => Born(row'[i])
             /\ \A i \in Items : ~Born(row[i]) /\ Born(row'[i]) => i = l /\ call[p].step = "create"
             /\ \E s \in CallStates : Go(p, s) /\ s.step \in {"idle", "evict"}
    <2>1. row' = [row EXCEPT ![l] = r]
        BY <1>2 DEF Write
    <2>2. There(row[l]) => Born(row[l])
        BY DEF There, Born
    <2>3. \E s \in CallStates : Go(p, s) /\ s.step \in {"idle", "evict"}
        BY <1>2, IdleType, ItemStates DEF Evict, Idle
    <2> QED
        BY <1>2, <2>1, <2>2, <2>3 DEF TypeOK
<1> QED
    BY <1>1, <1>2, WritesGo

LEMMA SameBirth ==
    ASSUME BirthInv, NEW p \in Calls,
           \A l \in Items : Born(row'[l]) <=> Born(row[l]),
           \A l \in Items : copy'[l] = copy[l] \/ copy'[l] = None,
           \A q \in Calls \ {p} : call'[q] = call[q] /\ (lock = q => lock' = q),
           \A q \in Calls : call[q].step = "create" \/ call[q].step \in {"form", "count", "edit", "fill"}
                            => call[q].l \in Items,
           call'[p].step = "create" => ~Born(row'[call'[p].l]) /\ lock' = p,
           call'[p].step \in {"form", "count", "edit", "fill"} => Born(row'[call'[p].l])
    PROVE  BirthInv'
BY DEF BirthInv

LEMMA Placed ==
    ASSUME TypeOK
    PROVE  \A q \in Calls :
             call[q].step = "create" \/ call[q].step \in {"form", "count", "edit", "fill"}
                => call[q].l \in Items
BY DEF TypeOK, CallStates, Idle

LEMMA BirthStep ==
    ASSUME TypeOK, BirthInv, [Next]_vars
    PROVE  BirthInv'
<1>0. ~Born(NoRow) /\ \A i \in Items : There(row[i]) => Born(row[i])
    BY DEF Born, NoRow, There
<1>1. ASSUME NEW p \in Calls, NEW l \in Items, Reads(p, l)
      PROVE  BirthInv'
    <2>1. UNCHANGED <<row, copy, lock, counted, slipped, faults>>
        BY <1>1, ReadsGo
    <2> PICK s \in CallStates :
            /\ Go(p, s)
            /\ \/ s = Idle
               \/ s = [step |-> "form", l |-> l, seen |-> Page(row[l])] /\ There(row[l])
               \/ /\ s.step \in {"count", "edit"} /\ s.l = l /\ At(p, "form", l)
                  /\ s.edit.seen = call[p].seen /\ (s.step = "edit" => s.checked = FALSE)
               \/ /\ s.step \in {"countToggle", "toggle"} /\ s.l = l
                  /\ s.step = "toggle" => s.checked = FALSE
               \/ s.step = "remove"
               \/ s = [step |-> "fill", l |-> l, row |-> row[l]] /\ There(row[l])
        BY <1>1, ReadsGo
    <2>2. call'[p] = s /\ \A q \in Calls \ {p} : call'[q] = call[q]
        BY GoType
    <2>3. At(p, "form", l) => Born(row[l])
        BY DEF At, BirthInv
    <2>4. /\ s.step # "create"
          /\ s.step \in {"form", "count", "edit", "fill"} => s.l = l /\ Born(row[l])
        BY <1>0, <2>3 DEF Idle
    <2> QED
        BY <2>1, <2>2, <2>4, SameBirth, Placed
<1>2. ASSUME NEW p \in Calls, NEW l \in Items, Counts(p, l)
      PROVE  BirthInv'
    <2>1. UNCHANGED <<row, copy>> /\ lock = None
        BY <1>2, CountsGo
    <2>2. \A q \in Calls : lock # q
        BY <2>1, NoneAssumption
    <2>3. CASE Go(p, Idle)
        <3>1. call'[p] = Idle /\ \A q \in Calls \ {p} : call'[q] = call[q]
            BY <2>3, GoType, IdleType
        <3> QED
            BY <2>1, <2>2, <3>1, SameBirth, Placed DEF Idle
    <2>4. ASSUME lock' = p, NEW s \in CallStates, Go(p, s), s.l = l,
                 \/ s.step = "create" /\ row[l] = NoRow
                 \/ /\ s.step = "edit" /\ call[p].step = "count" /\ call[p].l = l
                    /\ s.edit = call[p].edit
                 \/ s.step = "toggle"
          PROVE  BirthInv'
        <3>1. call'[p] = s /\ \A q \in Calls \ {p} : call'[q] = call[q]
            BY <2>4, GoType
        <3>2. call[p].step = "count" => Born(row[call[p].l])
            BY DEF BirthInv
        <3>3. s.step = "create" => ~Born(row[l])
            BY <1>0, <2>4
        <3>4. s.step \in {"form", "count", "edit", "fill"} => Born(row[l])
            BY <2>4, <3>2
        <3> QED
            BY <2>1, <2>2, <2>4, <3>1, <3>3, <3>4, SameBirth, Placed
    <2> QED
        BY <1>2, <2>3, <2>4, CountsGo
<1>3. ASSUME NEW p \in Calls, NEW l \in Items, Writes(p, l)
      PROVE  BirthInv'
    <2>1. /\ \A i \in Items : Born(row[i]) => Born(row'[i])
          /\ \A i \in Items : ~Born(row[i]) /\ Born(row'[i]) => call[p].step = "create"
          /\ \E s \in CallStates : Go(p, s) /\ s.step \in {"idle", "evict"}
          /\ lock' = IF lock = p THEN None ELSE lock
          /\ copy' = copy
        BY <1>3, WriteBirth
    <2>2. /\ call'[p].step \in {"idle", "evict"}
          /\ \A q \in Calls \ {p} : call'[q] = call[q] /\ (lock = q => lock' = q)
        BY <2>1, GoType
    <2>3. \A i \in Items : ~Born(row'[i]) => copy'[i] = None
        BY <2>1 DEF BirthInv
    <2>4. ASSUME NEW q \in Calls, call'[q].step = "create"
          PROVE  ~Born(row'[call'[q].l]) /\ lock' = q
        <3>1. q # p /\ call'[q] = call[q] /\ lock = q /\ ~Born(row[call[q].l]) /\ call[q].l \in Items
            BY <2>2, <2>4, Placed DEF BirthInv
        <3>2. call[p].step # "create"
            BY <3>1 DEF BirthInv
        <3> QED
            BY <2>1, <2>2, <3>1, <3>2
    <2>5. ASSUME NEW q \in Calls, call'[q].step \in {"form", "count", "edit", "fill"}
          PROVE  Born(row'[call'[q].l])
        BY <2>1, <2>2, <2>5, Placed DEF BirthInv
    <2> QED
        BY <2>3, <2>4, <2>5 DEF BirthInv
<1>4. ASSUME NEW p \in Calls, Ends(p)
      PROVE  BirthInv'
    <2>1. /\ UNCHANGED row /\ call'[p] = Idle
          /\ \A q \in Calls \ {p} : call'[q] = call[q] /\ (lock = q => lock' = q)
        BY <1>4, EndsGo, GoType, IdleType
    <2>2. ASSUME NEW l \in Items, ~Born(row[l])
          PROVE  copy'[l] = None
        <3>1. copy[l] = None
            BY <2>2 DEF BirthInv
        <3>2. ASSUME NEW i \in Items, FillCopy(p, i)
              PROVE  copy'[l] = None
            <4>1. i # l
                BY <2>2, <3>2 DEF FillCopy, At, BirthInv
            <4> QED
                BY <3>1, <3>2, <4>1 DEF FillCopy, TypeOK
        <3>3. ASSUME NEW i \in Items, EvictCopy(p, i)
              PROVE  copy'[l] = None
            BY <3>1, <3>3 DEF EvictCopy, TypeOK
        <3>4. CASE EvictAll(p) \/ Fail(p)
            BY <3>1, <3>4 DEF EvictAll, Fail
        <3> QED
            BY <1>4, <3>2, <3>3, <3>4 DEF Ends
    <2> QED
        BY <2>1, <2>2 DEF BirthInv, Idle
<1>5. ASSUME NEW p \in Calls, NEW hide \in BOOLEAN, Sweep(p, hide)
      PROVE  BirthInv'
    <2>1. [step |-> "evictAll"] \in CallStates
        BY DEF CallStates
    <2>2. /\ UNCHANGED <<lock, copy>> /\ call'[p] = [step |-> "evictAll"]
          /\ \A q \in Calls \ {p} : call'[q] = call[q]
        BY <1>5, <2>1, GoType DEF Sweep
    <2>3. \A l \in Items : Born(row'[l]) <=> Born(row[l])
        <3> SUFFICES ASSUME NEW l \in Items
                     PROVE  Born(row'[l]) <=> Born(row[l])
            OBVIOUS
        <3>1. row[l] \in Rows /\ row'[l] = IF row[l] = NoRow THEN NoRow ELSE [row[l] EXCEPT !.hidden = hide]
            BY <1>5 DEF Sweep, TypeOK
        <3> QED
            BY <3>1 DEF Born, Rows
    <2> QED
        BY <2>2, <2>3, SameBirth, Placed
<1>6. ASSUME NEW l \in Items, CopyExpires(l)
      PROVE  BirthInv'
    BY <1>6 DEF CopyExpires, BirthInv, TypeOK
<1>7. CASE UNCHANGED vars
    BY <1>7 DEF vars, BirthInv
<1> QED
    BY <1>1, <1>2, <1>3, <1>4, <1>5, <1>6, <1>7, NextCases

\* A handler that deletes nothing may go anywhere.
LEMMA SameCopies ==
    ASSUME TypeOK, CopiesAreCurrent, NEW p \in Calls, NEW s \in CallStates, Go(p, s),
           NEW l \in Items, copy'[l] = copy[l], row'[l] = row[l], ~Evicting(p, l),
           l \in slipped => l \in slipped'
    PROVE  (Stale(l) => l \in slipped \/ \E q \in Calls : Evicting(q, l))'
<1>1. \A q \in Calls \ {p} : Evicting(q, l)' <=> Evicting(q, l)
    BY GoType DEF Evicting, At
<1>2. Stale(l)' <=> Stale(l)
    BY DEF Stale
<1> QED
    BY <1>1, <1>2 DEF CopiesAreCurrent

LEMMA CopiesStep ==
    ASSUME TypeOK, BirthInv, CopiesAreCurrent, [Next]_vars
    PROVE  CopiesAreCurrent'
<1> SUFFICES ASSUME NEW i \in Items
             PROVE  (Stale(i) => i \in slipped \/ \E q \in Calls : Evicting(q, i))'
    BY DEF CopiesAreCurrent
<1> DEFINE Kept == (Stale(i) => i \in slipped \/ \E q \in Calls : Evicting(q, i))'
<1>1. ASSUME NEW p \in Calls, NEW l \in Items, Reads(p, l) \/ Counts(p, l)
      PROVE  Kept
    <2>1. /\ UNCHANGED <<row, copy, slipped>> /\ \E s \in CallStates : Go(p, s)
          /\ call[p].step \in {"idle", "form", "count", "countToggle"}
        BY <1>1, ReadsGo, CountsGo, IdleType
    <2>2. ~Evicting(p, i)
        BY <2>1 DEF Evicting, At
    <2> QED
        BY <2>1, <2>2, SameCopies
<1>2. ASSUME NEW p \in Calls, NEW l \in Items, Writes(p, l)
      PROVE  Kept
    <2>1. /\ UNCHANGED <<copy, slipped>> /\ call[p].l = l
          /\ call[p].step \in {"create", "edit", "toggle", "remove"}
        BY <1>2, WritesGo
    <2>2. ~Evicting(p, i)
        BY <2>1 DEF Evicting, At
    <2>3. CASE UNCHANGED row
        <3>1. \E s \in CallStates : Go(p, s)
            BY <1>2, WriteBirth
        <3> QED
            BY <2>1, <2>2, <2>3, <3>1, SameCopies
    <2>4. ASSUME NEW r \in Rows, NEW c \in BOOLEAN, Write(l, r, c),
                 \/ call[p].step = "create" /\ Born(r) /\ Go(p, Idle)
                 \/ /\ call[p].step # "create" /\ Evict(p, l)
                    /\ r = row[l] \/ (There(row[l]) /\ Born(r) /\ Follows(r, row[l]))
          PROVE  Kept
        <3>1. \E s \in CallStates : Go(p, s)
            BY <1>2, WriteBirth
        <3>2. CASE i # l
            <4>1. row'[i] = row[i]
                BY <2>4, <3>2 DEF Write, TypeOK
            <4> QED
                BY <2>1, <2>2, <3>1, <4>1, SameCopies
        <3>3. CASE i = l /\ call[p].step = "create"
            BY <2>1, <3>3 DEF BirthInv, Stale
        <3>4. CASE i = l /\ Evict(p, l)
            <4>1. call'[p] = [step |-> "evict", l |-> l]
                BY <3>4, GoType, ItemStates DEF Evict
            <4> QED
                BY <3>4, <4>1 DEF Evicting, At
        <3> QED
            BY <2>4, <3>2, <3>3, <3>4
    <2> QED
        BY <1>2, <2>3, <2>4, WritesGo
<1>3. ASSUME NEW p \in Calls, NEW l \in Items, EvictCopy(p, l)
      PROVE  Kept
    <2>1. /\ At(p, "evict", l) /\ row' = row /\ Go(p, Idle)
          /\ copy' = [copy EXCEPT ![l] = None] /\ slipped' = slipped \ {l}
        BY <1>3 DEF EvictCopy
    <2>2. CASE i = l
        BY <2>1, <2>2 DEF Stale, TypeOK
    <2>3. CASE i # l
        <3>1. ~Evicting(p, i) /\ copy'[i] = copy[i]
            BY <2>1, <2>3 DEF Evicting, At, TypeOK
        <3> QED
            BY <2>1, <2>3, <3>1, SameCopies, IdleType
    <2> QED
        BY <2>2, <2>3
<1>4. ASSUME NEW p \in Calls, NEW l \in Items, FillCopy(p, l)
      PROVE  Kept
    <2>1. /\ At(p, "fill", l) /\ row' = row /\ Go(p, Idle)
          /\ copy' = [copy EXCEPT ![l] = call[p].row]
          /\ slipped' = IF call[p].row = row[l] THEN slipped \ {l} ELSE slipped \cup {l}
        BY <1>4 DEF FillCopy
    <2>2. CASE i = l
        BY <2>1, <2>2 DEF Stale, TypeOK
    <2>3. CASE i # l
        <3>1. ~Evicting(p, i) /\ copy'[i] = copy[i]
            BY <2>1, <2>3 DEF Evicting, At, TypeOK
        <3> QED
            BY <2>1, <2>3, <3>1, SameCopies, IdleType
    <2> QED
        BY <2>2, <2>3
<1>5. ASSUME NEW p \in Calls, EvictAll(p)
      PROVE  Kept
    BY <1>5 DEF EvictAll, Stale
<1>6. ASSUME NEW p \in Calls, Fail(p)
      PROVE  Kept
    <2>1. /\ UNCHANGED <<row, copy>> /\ Go(p, Idle)
          /\ slipped' = slipped \cup {l \in Items : Stale(l) /\ Evicting(p, l)}
        BY <1>6 DEF Fail
    <2>2. CASE Evicting(p, i)
        BY <2>1, <2>2 DEF Stale
    <2>3. CASE ~Evicting(p, i)
        BY <2>1, <2>3, SameCopies, IdleType
    <2> QED
        BY <2>2, <2>3
<1>7. ASSUME NEW p \in Calls, NEW hide \in BOOLEAN, Sweep(p, hide)
      PROVE  Kept
    <2>1. [step |-> "evictAll"] \in CallStates
        BY DEF CallStates
    <2>2. call'[p].step = "evictAll"
        BY <1>7, <2>1, GoType DEF Sweep
    <2> QED
        BY <2>2 DEF Evicting
<1>8. ASSUME NEW l \in Items, CopyExpires(l)
      PROVE  Kept
    BY <1>8 DEF CopyExpires, CopiesAreCurrent, Stale, Evicting, At, TypeOK
<1>9. CASE UNCHANGED vars
    BY <1>9 DEF vars, CopiesAreCurrent, Stale, Evicting, At
<1> QED
    BY <1>1, <1>2, <1>3, <1>4, <1>5, <1>6, <1>7, <1>8, <1>9, NextCases DEF Ends

\* A copy that is not the row's is about to be deleted, or was left by one who
\* failed or was overtaken.
THEOREM CopiesAreExplained == Spec => []CopiesAreCurrent
<1>1. Init => BirthInv /\ CopiesAreCurrent
    BY DEF Init, BirthInv, CopiesAreCurrent, Stale, Idle
<1>2. TypeOK /\ BirthInv /\ CopiesAreCurrent /\ [Next]_vars => (BirthInv /\ CopiesAreCurrent)'
    BY BirthStep, CopiesStep
<1> QED
    BY <1>1, <1>2, TypeCorrect, PTL DEF Spec

-----------------------------------------------------------------------------
(***************************************************************************)
(* Versions.  What an author saw is not newer than the row, and of the     *)
(* row's version only if it is the row's text.                             *)
(***************************************************************************)
Seen(s) == IF s.step = "form" THEN s.seen ELSE s.edit.seen

Fits(g, r) == g.version <= r.version /\ (g.version = r.version => g.text = r.text)

Editing(s) == s.step \in {"form", "count", "edit"}

PageInv == \A p \in Calls : Editing(call[p]) => Fits(Seen(call[p]), row[call[p].l])

LEMMA EditingState ==
    ASSUME TypeOK, NEW p \in Calls, Editing(call[p])
    PROVE  call[p].l \in Items /\ Seen(call[p]) \in Pages
BY FormState, EditState DEF Editing, Seen, Edits

\* Rows only move on, and a handler that starts to edit goes by the row.
LEMMA SamePages ==
    ASSUME TypeOK, PageInv, NEW p \in Calls,
           \A q \in Calls \ {p} : call'[q] = call[q],
           Editing(call'[p]) => Fits(Seen(call'[p]), row'[call'[p].l]),
           \A q \in Calls \ {p}, i \in Items :
                Editing(call[q]) /\ call[q].l = i => row'[i] \in Rows /\ Follows(row'[i], row[i])
    PROVE  PageInv'
<1> SUFFICES ASSUME NEW q \in Calls, Editing(call'[q])
             PROVE  Fits(Seen(call'[q]), row'[call'[q].l])
    BY DEF PageInv
<1>1. CASE q = p
    BY <1>1
<1>2. CASE q # p
    <2>1. /\ call'[q] = call[q] /\ call[q].l \in Items /\ Seen(call[q]) \in Pages
          /\ Fits(Seen(call[q]), row[call[q].l])
        BY <1>2, EditingState DEF PageInv
    <2> DEFINE g == Seen(call[q])
               r == row[call[q].l]
               n == row'[call[q].l]
    <2>2. r \in Rows /\ n \in Rows /\ Follows(n, r) /\ Fits(g, r) /\ g \in Pages
        BY <1>2, <2>1 DEF TypeOK
    <2> HIDE DEF g, r, n
    <2>3. Fits(g, n)
        BY <2>2 DEF Fits, Follows, Page, Pages, Rows
    <2> QED
        BY <2>1, <2>3 DEF g, n
<1> QED
    BY <1>1, <1>2

LEMMA PageStep ==
    ASSUME TypeOK, BirthInv, PageInv, [Next]_vars
    PROVE  PageInv'
<1>0. \A i \in Items : row[i] \in Rows /\ Follows(row[i], row[i])
    BY DEF TypeOK, Follows
<1>1. ASSUME NEW p \in Calls, NEW l \in Items, Reads(p, l)
      PROVE  PageInv'
    <2>1. row' = row
        BY <1>1, ReadsGo
    <2> PICK s \in CallStates :
            /\ Go(p, s)
            /\ \/ s = Idle
               \/ s = [step |-> "form", l |-> l, seen |-> Page(row[l])] /\ There(row[l])
               \/ /\ s.step \in {"count", "edit"} /\ s.l = l /\ At(p, "form", l)
                  /\ s.edit.seen = call[p].seen /\ (s.step = "edit" => s.checked = FALSE)
               \/ /\ s.step \in {"countToggle", "toggle"} /\ s.l = l
                  /\ s.step = "toggle" => s.checked = FALSE
               \/ s.step = "remove"
               \/ s = [step |-> "fill", l |-> l, row |-> row[l]] /\ There(row[l])
        BY <1>1, ReadsGo
    <2>2. call'[p] = s /\ \A q \in Calls \ {p} : call'[q] = call[q]
        BY GoType
    <2>3. Editing(s) => Fits(Seen(s), row[s.l])
        <3>1. CASE s = [step |-> "form", l |-> l, seen |-> Page(row[l])]
            BY <1>0, <3>1 DEF Seen, Fits, Page, Rows
        <3>2. CASE /\ s.step \in {"count", "edit"} /\ s.l = l /\ At(p, "form", l)
                   /\ s.edit.seen = call[p].seen
            <4>1. call[p].step = "form" /\ call[p].l = l /\ Fits(call[p].seen, row[l])
                BY <3>2 DEF At, PageInv, Editing, Seen
            <4> QED
                BY <3>2, <4>1 DEF Seen
        <3> QED
            BY <3>1, <3>2 DEF Editing, Idle
    <2> QED
        BY <1>0, <2>1, <2>2, <2>3, SamePages
<1>2. ASSUME NEW p \in Calls, NEW l \in Items, Counts(p, l)
      PROVE  PageInv'
    <2>1. row' = row
        BY <1>2, CountsGo
    <2>2. CASE Go(p, Idle)
        <3>1. call'[p] = Idle /\ \A q \in Calls \ {p} : call'[q] = call[q]
            BY <2>2, GoType, IdleType
        <3> QED
            BY <1>0, <2>1, <3>1, SamePages DEF Editing, Idle
    <2>3. ASSUME NEW s \in CallStates, Go(p, s), s.l = l,
                 \/ s.step = "create" /\ row[l] = NoRow
                 \/ /\ s.step = "edit" /\ call[p].step = "count" /\ call[p].l = l
                    /\ s.edit = call[p].edit
                 \/ s.step = "toggle"
          PROVE  PageInv'
        <3>1. call'[p] = s /\ \A q \in Calls \ {p} : call'[q] = call[q]
            BY <2>3, GoType
        <3>2. Editing(s) => Fits(Seen(s), row[s.l])
            BY <2>3 DEF PageInv, Editing, Seen
        <3> QED
            BY <1>0, <2>1, <3>1, <3>2, SamePages
    <2> QED
        BY <1>2, <2>2, <2>3, CountsGo
<1>3. ASSUME NEW p \in Calls, NEW l \in Items, Writes(p, l)
      PROVE  PageInv'
    <2>1. \E s \in CallStates : Go(p, s) /\ s.step \in {"idle", "evict"}
        BY <1>3, WriteBirth
    <2>2. /\ ~Editing(call'[p])
          /\ \A q \in Calls \ {p} : call'[q] = call[q]
        BY <2>1, GoType DEF Editing
    <2>3. CASE row' = row
        BY <1>0, <2>2, <2>3, SamePages
    <2>4. ASSUME NEW r \in Rows, NEW c \in BOOLEAN, Write(l, r, c),
                 \/ call[p].step = "create"
                 \/ r = row[l] \/ Follows(r, row[l])
          PROVE  PageInv'
        <3>1. ASSUME NEW q \in Calls \ {p}, NEW i \in Items, Editing(call[q]), call[q].l = i
              PROVE  row'[i] \in Rows /\ Follows(row'[i], row[i])
            <4>1. CASE i # l
                BY <1>0, <2>4, <4>1 DEF Write, TypeOK
            <4>2. CASE i = l
                <5>1. call[p].step # "create"
                    <6>1. Born(row[l])
                        BY <3>1, <4>2 DEF BirthInv, Editing
                    <6>2. call[p].l = l
                        BY <1>3, WritesGo
                    <6> QED
                        BY <6>1, <6>2 DEF BirthInv
                <5> QED
                    BY <1>0, <2>4, <4>2, <5>1 DEF Write, TypeOK
            <4> QED
                BY <4>1, <4>2
        <3> QED
            BY <2>2, <3>1, SamePages
    <2> QED
        BY <1>3, <2>3, <2>4, WritesGo
<1>4. ASSUME NEW p \in Calls, Ends(p)
      PROVE  PageInv'
    <2>1. row' = row /\ call'[p] = Idle /\ \A q \in Calls \ {p} : call'[q] = call[q]
        BY <1>4, EndsGo, GoType, IdleType
    <2> QED
        BY <1>0, <2>1, SamePages DEF Editing, Idle
<1>5. ASSUME NEW p \in Calls, NEW hide \in BOOLEAN, Sweep(p, hide)
      PROVE  PageInv'
    <2>1. [step |-> "evictAll"] \in CallStates
        BY DEF CallStates
    <2>2. call'[p] = [step |-> "evictAll"] /\ \A q \in Calls \ {p} : call'[q] = call[q]
        BY <1>5, <2>1, GoType DEF Sweep
    <2>3. \A i \in Items : row'[i] \in Rows /\ Follows(row'[i], row[i])
        <3> SUFFICES ASSUME NEW i \in Items
                     PROVE  row'[i] \in Rows /\ Follows(row'[i], row[i])
            OBVIOUS
        <3>1. row'[i] = IF row[i] = NoRow THEN NoRow ELSE [row[i] EXCEPT !.hidden = hide]
            BY <1>5 DEF Sweep
        <3> QED
            BY <1>0, <3>1 DEF Follows, Page, Rows
    <2> QED
        BY <2>2, <2>3, SamePages DEF Editing
<1>6. CASE UNCHANGED vars \/ \E l \in Items : CopyExpires(l)
    BY <1>6 DEF vars, CopyExpires, PageInv
<1> QED
    BY <1>1, <1>2, <1>3, <1>4, <1>5, <1>6, NextCases

\* A step that commits an edit with a version finds the text its author saw.
LEMMA EditStep ==
    ASSUME TypeOK, PageInv, [Next]_vars, NEW p \in Calls, NEW l \in Items,
           At(p, "edit", l), call[p].edit.versioned, call'[p].step = "evict"
    PROVE  row[l].text = call[p].edit.seen.text
<1>1. /\ call[p].step = "edit" /\ call[p].l = l
      /\ Fits(call[p].edit.seen, row[l])
    BY DEF At, PageInv, Editing, Seen
<1>2. \A q \in Calls \ {p}, s \in CallStates : ~Go(q, s)
    BY <1>1, GoType
<1>3. ~Go(p, Idle)
    BY GoType, IdleType DEF Idle
<1>4. ASSUME NEW q \in Calls, NEW i \in Items, Reads(q, i) \/ Counts(q, i)
      PROVE  FALSE
    <2>1. q # p
        BY <1>1, <1>4, ReadsGo, CountsGo
    <2> QED
        BY <1>2, <1>4, <2>1, ReadsGo, CountsGo, IdleType
<1>5. ASSUME NEW q \in Calls, Ends(q) \/ Sweep(q, TRUE) \/ Sweep(q, FALSE)
      PROVE  FALSE
    <2>1. [step |-> "evictAll"] \in CallStates
        BY DEF CallStates
    <2>2. ~Sweep(p, TRUE) /\ ~Sweep(p, FALSE)
        <3>1. ~Free(p)
            BY <1>1 DEF Free, Idle
        <3> QED
            BY <3>1 DEF Sweep
    <2> QED
        BY <1>2, <1>3, <1>5, <2>1, <2>2, EndsGo, IdleType DEF Sweep
<1>6. ~(UNCHANGED vars) /\ \A i \in Items : ~CopyExpires(i)
    BY <1>1 DEF vars, CopyExpires
<1>7. PICK q \in Calls, i \in Items : Writes(q, i)
    BY <1>4, <1>5, <1>6, NextCases
<1>8. q = p
    <2>1. \E s \in CallStates : Go(q, s)
        BY <1>7, WritesGo, IdleType, ItemStates DEF Evict
    <2> QED
        BY <1>2, <2>1
<1>9. UpdateWrite(p, l)
    BY <1>1, <1>7, <1>8 DEF Writes, CreateWrite, ToggleWrite, RemoveWrite, UpdateWrite, At
<1>10. row[l].version = call[p].edit.seen.version
    BY <1>3, <1>9 DEF UpdateWrite
<1> QED
    BY <1>1, <1>10 DEF Fits

\* An edit with a version never overwrites a text its author did not see.
THEOREM EditsAreKept == Spec => EditsAreNotLost
<1>1. Init => BirthInv /\ PageInv
    BY DEF Init, BirthInv, PageInv, Editing, Idle
<1>2. TypeOK /\ BirthInv /\ PageInv /\ [Next]_vars => (BirthInv /\ PageInv)'
    BY BirthStep, PageStep
<1>3. TypeOK /\ PageInv /\ [Next]_vars =>
        [\A p \in Calls, l \in Items :
            At(p, "edit", l) /\ call[p].edit.versioned /\ call'[p].step = "evict" =>
                row[l].text = call[p].edit.seen.text]_vars
    BY EditStep
<1> QED
    BY <1>1, <1>2, <1>3, TypeCorrect, PTL DEF Spec, EditsAreNotLost
=============================================================================
