------------------------------ MODULE JobBoard ------------------------------
(***************************************************************************)
(* Job postings, the applications to them, and the daily expiry.           *)
(*                                                                         *)
(* A posting is closed by its owner, expires thirty days after it was      *)
(* made, is removed with its applications by its owner or an               *)
(* administrator, and an administrator may give it any status.  Whoever    *)
(* closes or expires it rejects the pending applications afterwards, in    *)
(* statements of their own.  Handlers read and check first and write       *)
(* later: decisions on applications if nobody decided in between, the      *)
(* others by id.  The expiry runs on every replica, one at a time by a     *)
(* lock in Redis, which a process that dies leaves to its time limit.      *)
(*                                                                         *)
(* A handler in flight is a call slot.  Left out: the fields of a posting, *)
(* its profiles, cached copies, notifications but those of the expiry, and *)
(* the outbox, which SearchSync follows.                                   *)
(***************************************************************************)
EXTENDS Naturals

CONSTANTS
    Jobs,
    Applicants,
    Calls,        \* slots for handlers in flight
    None,         \* the lock is free
    MaxOpenings,  \* bound on how often a posting is made active
    MaxFaults     \* bound on the failures of a behaviour

ASSUME NoneAssumption == None \notin Calls
ASSUME BoundsAssumption == MaxOpenings \in Nat \ {0} /\ MaxFaults \in Nat

VARIABLES
    job,      \* status of each posting
    old,      \* was it made before the cutoff of the expiry?
    app,      \* status of each application
    lock,     \* the call that took cron:jobs:expiry
    call,     \* of each slot: step, and what it goes by
    openings, \* how often a posting was made active, by its owner or an administrator
    notices,  \* how often its owner was told that it expired
    late,     \* applications that came in when the posting was no longer active
    torn,     \* postings ended by someone who did not reject what was pending
    faults    \* failures so far

vars == <<job, old, app, lock, call, openings, notices, late, torn, faults>>

JobStatuses == {"NONE", "ACTIVE", "CLOSED", "EXPIRED", "GONE"}
AppStatuses == {"NONE", "PENDING", "ACCEPTED", "REJECTED", "WITHDRAWN"}
Idle        == [step |-> "idle"]

CallStates ==
    {Idle}
    \cup [step : {"closeRead", "closed", "reject", "removeRead"}, j : Jobs]
    \cup [step : {"applyRead", "withdrawRead"}, j : Jobs, a : Applicants]
    \cup [step : {"decideRead"}, j : Jobs, a : Applicants, to : {"ACCEPTED", "REJECTED"}]
    \cup [step : {"expiry", "toExpire", "expired", "notify", "release"}, jobs : SUBSET Jobs]

TypeOK ==
    /\ job \in [Jobs -> JobStatuses] /\ old \in [Jobs -> BOOLEAN]
    /\ app \in [Jobs -> [Applicants -> AppStatuses]]
    /\ lock \in Calls \cup {None}
    /\ call \in [Calls -> CallStates]
    /\ openings \in [Jobs -> 0..MaxOpenings] /\ notices \in [Jobs -> Nat]
    /\ late \subseteq Jobs \X Applicants /\ torn \subseteq Jobs
    /\ faults \in 0..MaxFaults
    /\ \A j \in Jobs : job[j] = "NONE" => openings[j] = 0
    /\ \A j \in Jobs, a \in Applicants : job[j] \in {"NONE", "GONE"} => app[j][a] = "NONE"

Init ==
    /\ job = [j \in Jobs |-> "NONE"] /\ old = [j \in Jobs |-> FALSE]
    /\ app = [j \in Jobs |-> [a \in Applicants |-> "NONE"]]
    /\ lock = None /\ call = [p \in Calls |-> Idle]
    /\ openings = [j \in Jobs |-> 0] /\ notices = [j \in Jobs |-> 0]
    /\ late = {} /\ torn = {} /\ faults = 0

-----------------------------------------------------------------------------
Free(p)        == call[p] = Idle
At(p, step, j) == call[p].step = step /\ call[p].j = j
Go(p, state)   == call' = [call EXCEPT ![p] = state]
Done(p)        == Go(p, Idle)

Exists(j) == job[j] \in {"ACTIVE", "CLOSED", "EXPIRED"}

\* updateMany, where the posting is one of these and the application PENDING.
RejectPending(js) ==
    app' = [j \in Jobs |-> IF j \notin js THEN app[j] ELSE
              [a \in Applicants |-> IF app[j][a] = "PENDING" THEN "REJECTED" ELSE app[j][a]]]

-----------------------------------------------------------------------------
(***************************************************************************)
(* JobsService: postings.                                                  *)
(***************************************************************************)
Create(j) ==
    /\ job[j] = "NONE"
    /\ job' = [job EXCEPT ![j] = "ACTIVE"]
    /\ openings' = [openings EXCEPT ![j] = @ + 1]
    /\ UNCHANGED <<old, app, lock, call, notices, late, torn, faults>>

\* Thirty days pass.
Age(j) ==
    /\ Exists(j) /\ ~old[j]
    /\ old' = [old EXCEPT ![j] = TRUE]
    /\ UNCHANGED <<job, app, lock, call, openings, notices, late, torn, faults>>

\* update with status CLOSED: JOB_STATUS_TRANSITIONS allow it from ACTIVE only,
CloseRead(p, j) ==
    /\ Free(p) /\ job[j] = "ACTIVE"
    /\ Go(p, [step |-> "closeRead", j |-> j])
    /\ UNCHANGED <<job, old, app, lock, openings, notices, late, torn, faults>>

\* ... and it is written by id.
CloseWrite(p, j) ==
    /\ At(p, "closeRead", j)
    /\ IF Exists(j)
       THEN job' = [job EXCEPT ![j] = "CLOSED"] /\ Go(p, [step |-> "closed", j |-> j])
       ELSE UNCHANGED job /\ Done(p)
    /\ UNCHANGED <<old, app, lock, openings, notices, late, torn, faults>>

\* Mutant: no look at the applications.
CloseFindNone(p, j) ==
    /\ At(p, "closed", j)
    /\ Done(p)
    /\ UNCHANGED <<job, old, app, lock, openings, notices, late, torn, faults>>

\* The pending applications are read and, if there are any, rejected.
CloseFind(p, j) ==
    /\ At(p, "closed", j)
    /\ IF \E a \in Applicants : app[j][a] = "PENDING"
       THEN Go(p, [step |-> "reject", j |-> j]) ELSE Done(p)
    /\ UNCHANGED <<job, old, app, lock, openings, notices, late, torn, faults>>

CloseReject(p, j) ==
    /\ At(p, "reject", j)
    /\ RejectPending({j})
    /\ Done(p)
    /\ UNCHANGED <<job, old, lock, openings, notices, late, torn, faults>>

\* remove and deleteJob: the row is read, and deleted, its applications with it.
RemoveRead(p, j) ==
    /\ Free(p) /\ Exists(j)
    /\ Go(p, [step |-> "removeRead", j |-> j])
    /\ UNCHANGED <<job, old, app, lock, openings, notices, late, torn, faults>>

\* Mutant: the applications stay.
RemoveWriteLoose(p, j) ==
    /\ At(p, "removeRead", j)
    /\ job' = [job EXCEPT ![j] = "GONE"]
    /\ Done(p)
    /\ UNCHANGED <<old, app, lock, openings, notices, late, torn, faults>>

RemoveWrite(p, j) ==
    /\ At(p, "removeRead", j)
    /\ job' = [job EXCEPT ![j] = "GONE"]
    /\ app' = [app EXCEPT ![j] = [a \in Applicants |-> "NONE"]]
    /\ Done(p)
    /\ UNCHANGED <<old, lock, openings, notices, late, torn, faults>>

\* updateJob of AdminJobsService: any status, and nothing else.
AdminUpdate(j, s) ==
    /\ Exists(j)
    /\ s = "ACTIVE" => openings[j] < MaxOpenings
    /\ job' = [job EXCEPT ![j] = s]
    /\ openings' = [openings EXCEPT ![j] = IF s = "ACTIVE" THEN @ + 1 ELSE @]
    /\ torn' = IF s = "ACTIVE" THEN torn \ {j} ELSE torn \cup {j}
    /\ UNCHANGED <<old, app, lock, call, notices, late, faults>>

-----------------------------------------------------------------------------
(***************************************************************************)
(* JobsService: applications.                                              *)
(***************************************************************************)
ApplyRead(p, j, a) ==
    /\ Free(p) /\ job[j] = "ACTIVE"
    /\ Go(p, [step |-> "applyRead", j |-> j, a |-> a])
    /\ UNCHANGED <<job, old, app, lock, openings, notices, late, torn, faults>>

\* The row, unless the posting is gone or there is one already (@@unique).
ApplyWrite(p, j, a) ==
    /\ At(p, "applyRead", j) /\ call[p].a = a
    /\ IF Exists(j) /\ app[j][a] = "NONE"
       THEN /\ app' = [app EXCEPT ![j][a] = "PENDING"]
            /\ late' = IF job[j] = "ACTIVE" THEN late ELSE late \cup {<<j, a>>}
       ELSE UNCHANGED <<app, late>>
    /\ Done(p)
    /\ UNCHANGED <<job, old, lock, openings, notices, torn, faults>>

\* updateApplicationStatus: VALID_TRANSITIONS, on a posting that is active.
DecideRead(p, j, a, to) ==
    /\ Free(p) /\ job[j] = "ACTIVE" /\ app[j][a] = "PENDING"
    /\ Go(p, [step |-> "decideRead", j |-> j, a |-> a, to |-> to])
    /\ UNCHANGED <<job, old, app, lock, openings, notices, late, torn, faults>>

\* Mutant: by id.
DecideWriteById(p, j, a) ==
    /\ At(p, "decideRead", j) /\ call[p].a = a
    /\ app' = IF app[j][a] # "NONE" THEN [app EXCEPT ![j][a] = call[p].to] ELSE app
    /\ Done(p)
    /\ UNCHANGED <<job, old, lock, openings, notices, late, torn, faults>>

\* updateMany, if it still is what was read.
DecideWrite(p, j, a) ==
    /\ At(p, "decideRead", j) /\ call[p].a = a
    /\ app' = IF app[j][a] = "PENDING" THEN [app EXCEPT ![j][a] = call[p].to] ELSE app
    /\ Done(p)
    /\ UNCHANGED <<job, old, lock, openings, notices, late, torn, faults>>

WithdrawRead(p, j, a) ==
    /\ Free(p) /\ app[j][a] = "PENDING"
    /\ Go(p, [step |-> "withdrawRead", j |-> j, a |-> a])
    /\ UNCHANGED <<job, old, app, lock, openings, notices, late, torn, faults>>

\* withdrawApplication writes by id.
WithdrawWrite(p, j, a) ==
    /\ At(p, "withdrawRead", j) /\ call[p].a = a
    /\ app' = IF app[j][a] # "NONE" THEN [app EXCEPT ![j][a] = "WITHDRAWN"] ELSE app
    /\ Done(p)
    /\ UNCHANGED <<job, old, lock, openings, notices, late, torn, faults>>

-----------------------------------------------------------------------------
(***************************************************************************)
(* JobExpiryService.expireOldJobs.                                         *)
(***************************************************************************)
InExpiry(p)  == call[p].step \in {"expiry", "toExpire", "expired", "notify", "release"}
Expiring(p, step) == call[p].step = step

\* Mutant: every replica runs.
ExpireLockFree(p) ==
    /\ Free(p)
    /\ Go(p, [step |-> "expiry", jobs |-> {}])
    /\ UNCHANGED <<job, old, app, lock, openings, notices, late, torn, faults>>

\* setNX; whoever does not get it has nothing to do.
ExpireLock(p) ==
    /\ Free(p) /\ lock = None
    /\ lock' = p
    /\ Go(p, [step |-> "expiry", jobs |-> {}])
    /\ UNCHANGED <<job, old, app, openings, notices, late, torn, faults>>

ExpireRead(p) ==
    /\ Expiring(p, "expiry")
    /\ LET js == {j \in Jobs : job[j] = "ACTIVE" /\ old[j]}
       IN  Go(p, [step |-> IF js = {} THEN "release" ELSE "toExpire", jobs |-> js])
    /\ UNCHANGED <<job, old, app, lock, openings, notices, late, torn, faults>>

\* By id, whatever became of them.
ExpireWrite(p) ==
    /\ Expiring(p, "toExpire")
    /\ job' = [j \in Jobs |-> IF j \in call[p].jobs /\ Exists(j) THEN "EXPIRED" ELSE job[j]]
    /\ Go(p, [call[p] EXCEPT !.step = "expired"])
    /\ UNCHANGED <<old, app, lock, openings, notices, late, torn, faults>>

ExpireReject(p) ==
    /\ Expiring(p, "expired")
    /\ RejectPending(call[p].jobs)
    /\ Go(p, [call[p] EXCEPT !.step = "notify"])
    /\ UNCHANGED <<job, old, lock, openings, notices, late, torn, faults>>

ExpireNotify(p) ==
    /\ Expiring(p, "notify")
    /\ notices' = [j \in Jobs |-> IF j \in call[p].jobs THEN notices[j] + 1 ELSE notices[j]]
    /\ Go(p, [call[p] EXCEPT !.step = "release"])
    /\ UNCHANGED <<job, old, app, lock, openings, late, torn, faults>>

\* finally: the key is deleted.
ExpireRelease(p) ==
    /\ Expiring(p, "release")
    /\ lock' = None
    /\ Done(p)
    /\ UNCHANGED <<job, old, app, openings, notices, late, torn, faults>>

\* Mutant: a lock without a time limit.
LockLapseNever ==
    /\ FALSE
    /\ UNCHANGED vars

\* The lock's five minutes are over.  Assumed: no run takes that long.
LockLapse ==
    /\ lock # None /\ ~InExpiry(lock)
    /\ lock' = None
    /\ UNCHANGED <<job, old, app, call, openings, notices, late, torn, faults>>

-----------------------------------------------------------------------------
\* What a handler that fails here leaves undone.
Undone(p) ==
    CASE call[p].step \in {"closed", "reject"} -> {call[p].j}
      [] call[p].step = "expired" -> call[p].jobs
      [] OTHER -> {}

\* An error ends a handler, the expiry by way of its finally; or its process dies,
\* and the lock stays.
Fail(p) ==
    /\ ~Free(p) /\ faults < MaxFaults
    /\ faults' = faults + 1
    /\ lock' \in {lock, IF InExpiry(p) THEN None ELSE lock}
    /\ torn' = torn \cup Undone(p)
    /\ Done(p)
    /\ UNCHANGED <<job, old, app, openings, notices, late>>

OwnerNext(p) ==
    \E j \in Jobs :
        \/ CloseRead(p, j) \/ CloseWrite(p, j) \/ CloseFind(p, j) \/ CloseReject(p, j)
        \/ RemoveRead(p, j) \/ RemoveWrite(p, j)

ApplicationNext(p) ==
    \E j \in Jobs, a \in Applicants :
        \/ ApplyRead(p, j, a) \/ ApplyWrite(p, j, a)
        \/ \E to \in {"ACCEPTED", "REJECTED"} : DecideRead(p, j, a, to)
        \/ DecideWrite(p, j, a)
        \/ WithdrawRead(p, j, a) \/ WithdrawWrite(p, j, a)

ExpiryStep(p) ==
    \/ ExpireRead(p) \/ ExpireWrite(p) \/ ExpireReject(p) \/ ExpireNotify(p)
    \/ ExpireRelease(p)

Next ==
    \/ \E j \in Jobs : Create(j) \/ Age(j) \/ \E s \in {"ACTIVE", "CLOSED", "EXPIRED"} : AdminUpdate(j, s)
    \/ \E p \in Calls :
        OwnerNext(p) \/ ApplicationNext(p) \/ ExpireLock(p) \/ ExpiryStep(p) \/ Fail(p)
    \/ LockLapse

Spec == Init /\ [][Next]_vars

\* A handler that has started goes on, the expiry starts every day when it finds
\* the lock free and a process to run it, and the lock lapses.
Continue(p) ==
    \/ ExpiryStep(p)
    \/ \E j \in Jobs : CloseWrite(p, j) \/ CloseFind(p, j) \/ CloseReject(p, j) \/ RemoveWrite(p, j)
    \/ \E j \in Jobs, a \in Applicants :
        ApplyWrite(p, j, a) \/ DecideWrite(p, j, a) \/ WithdrawWrite(p, j, a)

FairSpec ==
    /\ Spec
    /\ \A p \in Calls : WF_vars(Continue(p))
    /\ SF_vars(\E p \in Calls : ExpireLock(p))
    /\ WF_vars(LockLapse)

-----------------------------------------------------------------------------
\* Nobody waits for ever for an answer to an application: one that is pending on
\* a posting that has ended is about to be rejected, unless it came in too late,
\* or whoever ended the posting failed, or was an administrator.
Rejecting(p, j) ==
    \/ At(p, "closed", j) \/ At(p, "reject", j)
    \/ Expiring(p, "expired") /\ j \in call[p].jobs

NoLimbo ==
    \A j \in Jobs, a \in Applicants :
        job[j] \in {"CLOSED", "EXPIRED"} /\ app[j][a] = "PENDING" =>
            <<j, a>> \in late \/ j \in torn \/ \E p \in Calls : Rejecting(p, j)

\* An owner is told that a posting expired at most once for each time it was made
\* active, though every replica runs the expiry and any of them may die.
ToldOnce == \A j \in Jobs : notices[j] <= openings[j]

\* Nothing that goes on at the same time takes an acceptance back, but the
\* applicant's own withdrawal, or the removal of the posting.
AcceptedStands ==
    [][\A j \in Jobs, a \in Applicants :
        app[j][a] = "ACCEPTED" /\ app'[j][a] # "ACCEPTED" =>
            \/ job'[j] = "GONE"
            \/ app'[j][a] = "WITHDRAWN" /\ \E p \in Calls : At(p, "withdrawRead", j)]_vars

\* A posting that is over thirty days old does not stay active, whatever fails.
OldOnesExpire == \A j \in Jobs : job[j] = "ACTIVE" /\ old[j] ~> job[j] # "ACTIVE"
=============================================================================
