------------------------------ MODULE Accounts ------------------------------
(***************************************************************************)
(* The accounts of users: what administrators, the clock, the user and the *)
(* deletion job do to one row of the users table, and what the access gate *)
(* remembers of it.                                                        *)
(*                                                                         *)
(* Administrators suspend, ban, reinstate and change roles, each in a      *)
(* transaction that locks the row of its target and, when that may cost    *)
(* the system its last administrator, an advisory lock under which the     *)
(* others are counted.  The other writers do not lock first: they read,    *)
(* and then write if the row still is as it was (updateMany with a where). *)
(*                                                                         *)
(* The gate lets each request in by a copy of the row that it caches for   *)
(* five minutes.  Whoever changes a row removes the copy after its commit, *)
(* administrators once more two seconds later; a validation under way may  *)
(* put back what it read before.                                           *)
(*                                                                         *)
(* A handler in flight is a call slot; a validation that missed the cache  *)
(* is a fill slot.  A copy is reduced to what it lets the user do.  Left   *)
(* out: tokens and their versions, audit, mails, content (SearchSync hides *)
(* it), moderators, who are users that may suspend and may not leave.      *)
(***************************************************************************)
EXTENDS Naturals, FiniteSets

CONSTANTS
    Users,
    Leavers,    \* those who may ask for the deletion of their account
    Calls,      \* slots for handlers and jobs in flight
    Fills,      \* slots for validations that missed the gate's cache
    None,       \* no copy in the cache, no validation in the slot
    MaxFaults   \* bound on the failures of a behaviour

ASSUME LeaversAssumption == Leavers \subseteq Users
ASSUME NoneAssumption == None \notin {"OUT", "USER", "ADMIN"}
ASSUME MaxFaultsAssumption == MaxFaults \in Nat

VARIABLES
    status,     \* of each account
    role,       \* of each account
    until,      \* suspendedUntil: none, or a time ahead or past
    deletion,   \* deletionScheduledAt: none, or a time ahead or past
    paying,     \* has the user a payment PENDING or PROCESSING?
    gate,       \* the cached copy of each row
    fill,       \* of each fill slot: the user and what was read
    call,       \* of each call slot: step, user, and what it goes by
    lost,       \* users of whom a removal of the copy was lost with a process
    faults      \* failures so far

row  == <<status, role, until, deletion, paying>>
vars == <<status, role, until, deletion, paying, gate, fill, call, lost, faults>>

Times   == {"none", "ahead", "past"}
Copies  == {"OUT", "USER", "ADMIN"}
Ops     == {"suspend", "unsuspend", "ban", "unban", "promote", "demote"}
Idle    == [step |-> "idle"]

CallStates ==
    {Idle}
    \cup [step : {"locked", "counted"}, u : Users, op : Ops]
    \cup [step : {"committed", "timer"}, u : Users, wait : SUBSET Fills]
    \cup [step : {"once", "liftRead", "requestRead", "cancelRead", "jobRead",
                  "jobAbort", "jobChecked", "payRead"}, u : Users]

TypeOK ==
    /\ status \in [Users -> {"ACTIVE", "SUSPENDED", "BANNED", "DELETED"}]
    /\ role \in [Users -> {"USER", "ADMIN"}]
    /\ until \in [Users -> Times] /\ deletion \in [Users -> Times]
    /\ paying \in [Users -> BOOLEAN]
    /\ gate \in [Users -> Copies \cup {None}]
    /\ fill \in [Fills -> [u : Users, copy : Copies] \cup {None}]
    /\ call \in [Calls -> CallStates]
    /\ lost \subseteq Users /\ faults \in 0..MaxFaults
    /\ \A u \in Users : until[u] # "none" <=> status[u] = "SUSPENDED"

\* bootstrap-admin has made the first administrator.
Init ==
    /\ status = [u \in Users |-> "ACTIVE"]
    /\ role \in [Users -> {"USER", "ADMIN"}]
    /\ Cardinality({u \in Users : role[u] = "ADMIN"}) = 1
    /\ \A u \in Leavers : role[u] = "USER"
    /\ until = [u \in Users |-> "none"] /\ deletion = [u \in Users |-> "none"]
    /\ paying = [u \in Users |-> FALSE]
    /\ gate = [u \in Users |-> None] /\ fill = [f \in Fills |-> None]
    /\ call = [p \in Calls |-> Idle]
    /\ lost = {} /\ faults = 0

-----------------------------------------------------------------------------
\* What a copy made now would let the user do, and what the gate lets it do.
Copy(u) == IF status[u] = "ACTIVE" THEN role[u] ELSE "OUT"
Meta(u) == IF gate[u] = None THEN Copy(u) ELSE gate[u]

Free(p)        == call[p] = Idle
At(p, step, u) == call[p].step = step /\ call[p].u = u
Go(p, state)   == call' = [call EXCEPT ![p] = state]
Done(p)        == Go(p, Idle)

\* Mutant: no row lock.
Unlocked(u)  == FALSE
\* The row lock of an administrator's transaction.
Locked(u)    == \E p \in Calls : At(p, "locked", u) \/ At(p, "counted", u)

\* The validations under way for a user.
Validating(u) == {f \in Fills : fill[f] # None /\ fill[f].u = u}

ActiveAdmin(u) == status[u] = "ACTIVE" /\ role[u] = "ADMIN"

-----------------------------------------------------------------------------
(***************************************************************************)
(* suspendUser, unsuspendUser, banUser, unbanUser, changeUserRole.         *)
(***************************************************************************)
\* From which states an operation is not refused (or already done).
MaySuspend(u)   == status[u] \in {"ACTIVE", "SUSPENDED"}
MayUnsuspend(u) == status[u] = "SUSPENDED"
MayBan(u)       == status[u] \in {"ACTIVE", "SUSPENDED"}
MayUnban(u)     == status[u] = "BANNED"
MayChangeRole(u, to) == status[u] \in {"ACTIVE", "SUSPENDED"} /\ role[u] # to

Allowed(op, u) ==
    CASE op = "suspend"   -> MaySuspend(u)
      [] op = "unsuspend" -> MayUnsuspend(u)
      [] op = "ban"       -> MayBan(u)
      [] op = "unban"     -> MayUnban(u)
      [] op = "promote"   -> MayChangeRole(u, "ADMIN")
      [] op = "demote"    -> MayChangeRole(u, "USER")

\* Which of them checkLastAdminProtection guards.
Reduces(op, u) == op \in {"suspend", "ban", "demote"} /\ role[u] = "ADMIN"

\* SELECT ... FOR UPDATE, the row read under it, and the checks.
AdminLock(p, a, u, op) ==
    /\ Free(p) /\ a # u /\ Meta(a) = "ADMIN"
    /\ ~Locked(u) /\ Allowed(op, u)
    /\ Go(p, [step |-> "locked", u |-> u, op |-> op])
    /\ UNCHANGED <<row, gate, fill, lost, faults>>

\* Mutant: the others are counted without the advisory lock.
AdminCountFree(p) ==
    /\ call[p].step = "locked" /\ Reduces(call[p].op, call[p].u)
    /\ IF \E v \in Users \ {call[p].u} : ActiveAdmin(v)
       THEN Go(p, [call[p] EXCEPT !.step = "counted"])
       ELSE Done(p)
    /\ UNCHANGED <<row, gate, fill, lost, faults>>

\* checkLastAdminProtection: pg_advisory_xact_lock, held to the commit, and the
\* count of the other active administrators.
AdminCount(p) ==
    /\ call[p].step = "locked" /\ Reduces(call[p].op, call[p].u)
    /\ \A q \in Calls : call[q].step # "counted"
    /\ IF \E v \in Users \ {call[p].u} : ActiveAdmin(v)
       THEN Go(p, [call[p] EXCEPT !.step = "counted"])
       ELSE Done(p)
    /\ UNCHANGED <<row, gate, fill, lost, faults>>

\* The update and the commit: what the last check let through, by whom the lock
\* is held; validations that are under way may have read the row before.
Holds(p, u, op) ==
    /\ call[p].step \in {"locked", "counted"} /\ call[p].u = u /\ call[p].op = op
    /\ call[p].step = "counted" \/ ~Reduces(op, u)
Commit(p, u) ==
    /\ Go(p, [step |-> "committed", u |-> u, wait |-> Validating(u)])
    /\ UNCHANGED <<deletion, paying, gate, fill, lost, faults>>

Suspend(p, u) ==
    /\ Holds(p, u, "suspend")
    /\ status' = [status EXCEPT ![u] = "SUSPENDED"]
    /\ until' = [until EXCEPT ![u] = "ahead"]
    /\ Commit(p, u) /\ UNCHANGED role

Unsuspend(p, u) ==
    /\ Holds(p, u, "unsuspend")
    /\ status' = [status EXCEPT ![u] = "ACTIVE"]
    /\ until' = [until EXCEPT ![u] = "none"]
    /\ Commit(p, u) /\ UNCHANGED role

\* Mutant: the end of the suspension stays in the row.
BanKeepsUntil(p, u) ==
    /\ Holds(p, u, "ban")
    /\ status' = [status EXCEPT ![u] = "BANNED"]
    /\ Commit(p, u) /\ UNCHANGED <<role, until>>

Ban(p, u) ==
    /\ Holds(p, u, "ban")
    /\ status' = [status EXCEPT ![u] = "BANNED"]
    /\ until' = [until EXCEPT ![u] = "none"]
    /\ Commit(p, u) /\ UNCHANGED role

Unban(p, u) ==
    /\ Holds(p, u, "unban")
    /\ status' = [status EXCEPT ![u] = "ACTIVE"]
    /\ until' = [until EXCEPT ![u] = "none"]
    /\ Commit(p, u) /\ UNCHANGED role

ChangeRole(p, u) ==
    /\ Holds(p, u, "promote") \/ Holds(p, u, "demote")
    /\ role' = [role EXCEPT ![u] = IF call[p].op = "promote" THEN "ADMIN" ELSE "USER"]
    /\ Commit(p, u) /\ UNCHANGED <<status, until>>

\* Mutant: no second removal.
InvalidateOnly(p, u) ==
    /\ At(p, "committed", u)
    /\ gate' = [gate EXCEPT ![u] = None]
    /\ Done(p)
    /\ UNCHANGED <<row, fill, lost, faults>>

\* executePostCommit: the copy is removed,
Invalidate(p, u) ==
    /\ At(p, "committed", u)
    /\ gate' = [gate EXCEPT ![u] = None]
    /\ Go(p, [call[p] EXCEPT !.step = "timer"])
    /\ UNCHANGED <<row, fill, lost, faults>>

\* ... and again two seconds later.  Assumed: a validation that was under way at
\* the commit has finished by then.
InvalidateAgain(p, u) ==
    /\ At(p, "timer", u) /\ call[p].wait = {}
    /\ gate' = [gate EXCEPT ![u] = None]
    /\ Done(p)
    /\ UNCHANGED <<row, fill, lost, faults>>

\* What other writers do after their commit: remove the copy once.
InvalidateOnce(p, u) ==
    /\ At(p, "once", u)
    /\ gate' = [gate EXCEPT ![u] = None]
    /\ Done(p)
    /\ UNCHANGED <<row, fill, lost, faults>>

-----------------------------------------------------------------------------
(***************************************************************************)
(* AccountStatusService: a suspension that is over is lifted at the next   *)
(* sign-in, or by the job that runs every minute.                          *)
(***************************************************************************)
SuspensionPasses(u) ==
    /\ until[u] = "ahead"
    /\ until' = [until EXCEPT ![u] = "past"]
    /\ UNCHANGED <<status, role, deletion, paying, gate, fill, call, lost, faults>>

LiftRead(p, u) ==
    /\ Free(p) /\ status[u] = "SUSPENDED" /\ until[u] = "past"
    /\ Go(p, [step |-> "liftRead", u |-> u])
    /\ UNCHANGED <<row, gate, fill, lost, faults>>

\* Mutant: by id.
LiftWriteById(p, u) ==
    /\ At(p, "liftRead", u) /\ ~Locked(u)
    /\ status' = [status EXCEPT ![u] = "ACTIVE"]
    /\ until' = [until EXCEPT ![u] = "none"]
    /\ Go(p, [step |-> "once", u |-> u])
    /\ UNCHANGED <<role, deletion, paying, gate, fill, lost, faults>>

\* updateMany, if it still is suspended and the time still is past.
LiftWrite(p, u) ==
    /\ At(p, "liftRead", u) /\ ~Locked(u)
    /\ IF status[u] = "SUSPENDED" /\ until[u] = "past"
       THEN /\ status' = [status EXCEPT ![u] = "ACTIVE"]
            /\ until' = [until EXCEPT ![u] = "none"]
            /\ Go(p, [step |-> "once", u |-> u])
       ELSE Done(p) /\ UNCHANGED <<status, until>>
    /\ UNCHANGED <<role, deletion, paying, gate, fill, lost, faults>>

-----------------------------------------------------------------------------
(***************************************************************************)
(* Deletion: asked for and cancelled by the user, carried out by a job.    *)
(***************************************************************************)
\* scheduleAccountDeletion, the checks, read again in its transaction.
RequestRead(p, u) ==
    /\ Free(p) /\ u \in Leavers /\ Meta(u) # "OUT"
    /\ role[u] = "USER" /\ status[u] \notin {"SUSPENDED", "BANNED"} /\ ~paying[u]
    /\ Go(p, [step |-> "requestRead", u |-> u])
    /\ UNCHANGED <<row, gate, fill, lost, faults>>

\* Mutant: the deletion is due at once.
RequestWriteDue(p, u) ==
    /\ At(p, "requestRead", u) /\ ~Locked(u)
    /\ IF deletion[u] = "none"
       THEN /\ deletion' = [deletion EXCEPT ![u] = "past"]
            /\ Go(p, [step |-> "once", u |-> u])
       ELSE Done(p) /\ UNCHANGED deletion
    /\ UNCHANGED <<status, role, until, paying, gate, fill, lost, faults>>

\* ... and the update, if none is scheduled: nothing else is looked at again.
RequestWrite(p, u) ==
    /\ At(p, "requestRead", u) /\ ~Locked(u)
    /\ IF deletion[u] = "none"
       THEN /\ deletion' = [deletion EXCEPT ![u] = "ahead"]
            /\ Go(p, [step |-> "once", u |-> u])
       ELSE Done(p) /\ UNCHANGED deletion
    /\ UNCHANGED <<status, role, until, paying, gate, fill, lost, faults>>

CancelRead(p, u) ==
    /\ Free(p) /\ Meta(u) # "OUT" /\ deletion[u] # "none"
    /\ Go(p, [step |-> "cancelRead", u |-> u])
    /\ UNCHANGED <<row, gate, fill, lost, faults>>

\* cancelAccountDeletion, the update, by id.
CancelWrite(p, u) ==
    /\ At(p, "cancelRead", u) /\ ~Locked(u)
    /\ deletion' = [deletion EXCEPT ![u] = "none"]
    /\ Done(p)
    /\ UNCHANGED <<status, role, until, paying, gate, fill, lost, faults>>

\* Five days pass, which no handler on the account takes.
DeletionFallsDue(u) ==
    /\ deletion[u] = "ahead"
    /\ \A p \in Calls : ~Free(p) => call[p].u # u
    /\ deletion' = [deletion EXCEPT ![u] = "past"]
    /\ UNCHANGED <<status, role, until, paying, gate, fill, call, lost, faults>>

\* runAccountDeletion, a candidate as it was read with its batch.
JobRead(p, u) ==
    /\ Free(p) /\ deletion[u] = "past"
    /\ Go(p, [step |-> IF status[u] = "ACTIVE" /\ role[u] = "USER"
                       THEN "jobRead" ELSE "jobAbort", u |-> u])
    /\ UNCHANGED <<row, gate, fill, lost, faults>>

\* Mutant: a schedule is cleared where there is none.
JobAbortNone(p, u) ==
    /\ At(p, "jobAbort", u) /\ ~Locked(u)
    /\ Done(p)
    /\ UNCHANGED <<row, gate, fill, lost, faults>>

\* 2(a): one that may not be deleted loses its schedule.
JobAbort(p, u) ==
    /\ At(p, "jobAbort", u) /\ ~Locked(u)
    /\ deletion' = [deletion EXCEPT ![u] = "none"]
    /\ Done(p)
    /\ UNCHANGED <<status, role, until, paying, gate, fill, lost, faults>>

\* 2(b), (c): one with an open payment waits for the next run.
JobCheck(p, u) ==
    /\ At(p, "jobRead", u)
    /\ IF paying[u] THEN Done(p) ELSE Go(p, [step |-> "jobChecked", u |-> u])
    /\ UNCHANGED <<row, gate, fill, lost, faults>>

\* 4: the transaction, if the row still is active and the deletion still due.
\* The role is not looked at again.
JobErase(p, u) ==
    /\ At(p, "jobChecked", u) /\ ~Locked(u)
    /\ IF deletion[u] = "past" /\ status[u] = "ACTIVE"
       THEN /\ status' = [status EXCEPT ![u] = "DELETED"]
            /\ until' = [until EXCEPT ![u] = "none"]
            /\ deletion' = [deletion EXCEPT ![u] = "none"]
            /\ Go(p, [step |-> "once", u |-> u])
       ELSE Done(p) /\ UNCHANGED <<status, until, deletion>>
    /\ UNCHANGED <<role, paying, gate, fill, lost, faults>>

\* createFeaturedPayment and createSubscriptionPayment, refused while a deletion
\* is scheduled: the row is read,
PayRead(p, u) ==
    /\ Free(p) /\ u \in Leavers /\ Meta(u) # "OUT" /\ deletion[u] = "none"
    /\ Go(p, [step |-> "payRead", u |-> u])
    /\ UNCHANGED <<row, gate, fill, lost, faults>>

\* ... and, after other checks (fraud, the target, a repeated request) that may end
\* the call, the payment created.  The transaction does not look at the deletion
\* again; the new row's foreign key waits for a lock on the user's.
PayWrite(p, u) ==
    /\ At(p, "payRead", u) /\ ~Locked(u)
    /\ paying' \in {[paying EXCEPT ![u] = TRUE], paying}
    /\ Done(p)
    /\ UNCHANGED <<status, role, until, deletion, gate, fill, lost, faults>>

\* The last open payment is settled or written off: PaymentFlow shows that it will be.
PaymentEnds(u) ==
    /\ paying[u]
    /\ paying' = [paying EXCEPT ![u] = FALSE]
    /\ UNCHANGED <<status, role, until, deletion, gate, fill, call, lost, faults>>

-----------------------------------------------------------------------------
(***************************************************************************)
(* AccessTokenGate.validate.                                               *)
(***************************************************************************)
\* A miss: the row is read,
GateRead(f, u) ==
    /\ fill[f] = None /\ gate[u] = None
    /\ fill' = [fill EXCEPT ![f] = [u |-> u, copy |-> Copy(u)]]
    /\ UNCHANGED <<row, gate, call, lost, faults>>

\* No administrator's timer waits any longer for a validation that has ended.
Ended(f) ==
    call' = [p \in Calls |-> IF call[p].step \in {"committed", "timer"}
                THEN [call[p] EXCEPT !.wait = @ \ {f}] ELSE call[p]]

\* ... and the copy put in the cache, or not, if Redis fails.
GateFill(f) ==
    /\ fill[f] # None
    /\ gate' \in {[gate EXCEPT ![fill[f].u] = fill[f].copy], gate}
    /\ fill' = [fill EXCEPT ![f] = None]
    /\ Ended(f)
    /\ UNCHANGED <<row, lost, faults>>

\* Mutant: a request that is let in renews the copy.
GateExpireOut(u) ==
    /\ gate[u] = "OUT"
    /\ gate' = [gate EXCEPT ![u] = None]
    /\ UNCHANGED <<row, fill, call, lost, faults>>

\* TOKEN_GATE_TTL_SECONDS are over.
GateExpire(u) ==
    /\ gate[u] # None
    /\ gate' = [gate EXCEPT ![u] = None]
    /\ UNCHANGED <<row, fill, call, lost, faults>>

\* A process dies, or an error ends a handler: an open transaction is undone, a
\* removal that was still to come is lost.
Fail(p) ==
    /\ ~Free(p) /\ faults < MaxFaults
    /\ faults' = faults + 1
    /\ lost' = IF call[p].step \in {"committed", "timer", "once"}
               THEN lost \cup {call[p].u} ELSE lost
    /\ Done(p)
    /\ UNCHANGED <<row, gate, fill>>

-----------------------------------------------------------------------------
AdminStep(p, u) ==
    \/ Suspend(p, u) \/ Unsuspend(p, u) \/ Ban(p, u) \/ Unban(p, u) \/ ChangeRole(p, u)
    \/ Invalidate(p, u) \/ InvalidateAgain(p, u) \/ InvalidateOnce(p, u)

UserStep(p, u) ==
    \/ LiftWrite(p, u) \/ RequestWrite(p, u) \/ CancelWrite(p, u)
    \/ JobAbort(p, u) \/ JobCheck(p, u) \/ JobErase(p, u) \/ PayWrite(p, u)

\* What a handler in flight does next.
Continue(p) == AdminCount(p) \/ \E u \in Users : AdminStep(p, u) \/ UserStep(p, u)

CallNext ==
    \E p \in Calls :
        \/ Continue(p) \/ Fail(p)
        \/ \E a, u \in Users, op \in Ops : AdminLock(p, a, u, op)
        \/ \E u \in Users :
            \/ LiftRead(p, u) \/ RequestRead(p, u) \/ CancelRead(p, u)
            \/ JobRead(p, u) \/ PayRead(p, u)

OtherNext ==
    \/ \E u \in Users :
        \/ SuspensionPasses(u) \/ DeletionFallsDue(u)
        \/ PaymentEnds(u) \/ GateExpire(u)
    \/ \E f \in Fills : GateFill(f) \/ \E u \in Users : GateRead(f, u)

Next == CallNext \/ OtherNext

Spec == Init /\ [][Next]_vars

\* What has started goes on, and a row lock is granted in turn.  The jobs run
\* every minute and every quarter of an hour, copies expire, and PaymentFlow
\* shows that payments end.  Nothing is assumed of users and administrators.
Fairness ==
    /\ \A p \in Calls : SF_vars(Continue(p))
    /\ \A f \in Fills : WF_vars(GateFill(f))
    /\ \A u \in Users :
        /\ WF_vars(GateExpire(u)) /\ WF_vars(PaymentEnds(u))
        /\ SF_vars(\E p \in Calls : LiftRead(p, u))
        /\ SF_vars(\E p \in Calls : JobRead(p, u))

FairSpec == Spec /\ Fairness

-----------------------------------------------------------------------------
\* However administrators act on each other at once, one of them stays active,
\* unless the deletion job erases one who was promoted after it had read the
\* row as a user's.
LastAdminRemains ==
    \E u \in Users : role[u] = "ADMIN" /\ status[u] \in {"ACTIVE", "DELETED"}

\* An erased account stays erased: whoever else has it in hand gives way.
ErasedForGood ==
    [][\A u \in Users : status[u] = "DELETED" => status'[u] = "DELETED"]_vars

\* An account is unblocked when its time is over, or by the administrator's
\* operation for the block that it is under: lifting a suspension never lifts
\* the ban that came in between.
Unblocks(u) == IF status[u] = "BANNED" THEN "unban" ELSE "unsuspend"
BlockHolds ==
    [][\A u \in Users :
        status[u] \in {"SUSPENDED", "BANNED"} /\ status'[u] = "ACTIVE" =>
            \/ until[u] = "past"
            \/ \E p \in Calls : At(p, "locked", u) /\ call[p].op = Unblocks(u)]_vars

\* Nobody is erased with a payment open, although neither side looks again: a
\* deletion may be asked for between the check of it and the creation of a payment,
\* and payments are looked at before the transaction that erases, while the deletion
\* is cancelled, a payment opened and a deletion asked for again.
ErasedOwesNothing ==
    [][\A u \in Users :
        status[u] # "DELETED" /\ status'[u] = "DELETED" => ~paying[u]]_vars

\* Once an administrator's timer has fired the gate does not let in, by an old
\* copy, anyone who is suspended or banned, unless a removal was lost.
BlockReachesGate ==
    \A u \in Users :
        status[u] \in {"SUSPENDED", "BANNED"} /\ gate[u] \in {"USER", "ADMIN"} =>
            u \in lost \/ \E p \in Calls : At(p, "committed", u) \/ At(p, "timer", u)

\* Even if it was lost, one who stays banned or is erased is refused in the end.
RefusedInTheEnd ==
    \A u \in Users :
        <>[](status[u] \in {"BANNED", "DELETED"}) => <>[](gate[u] \in {"OUT", None})

\* A deletion that is due is carried out or given up, though payments and faults
\* get in the way, and suspensions, bans and promotions come in between.
DeletionIsDone ==
    \A u \in Users : deletion[u] = "past" ~> deletion[u] # "past"
=============================================================================
