----------------------------- MODULE SearchSync -----------------------------
(***************************************************************************)
(* How the search index follows the database.                              *)
(*                                                                         *)
(* Every write to a listing records an event in the outbox table in the    *)
(* same transaction.  A relay moves events to a queue once a second, and a *)
(* worker brings the listing's document in the index up to date: a DELETE  *)
(* event removes it, an UPSERT event reads the row again and indexes or    *)
(* removes it.  When the owner's account is suspended, reinstated or about *)
(* to be deleted, a sweep hides or restores the owner's rows, one          *)
(* transaction per vertical, each with an event for the index.             *)
(*                                                                         *)
(* Each replica runs a relay and a worker.  The queue (Bull) is FIFO; a    *)
(* job that threw waits and enters again at the end, a job whose worker    *)
(* died is taken next.  The index (Meilisearch) applies what it is given   *)
(* in the order it arrives; SearchService logs its errors and goes on.     *)
(*                                                                         *)
(* One owner; Listings are the owner's, each in a vertical of its own.     *)
(* What a row and a document say is a number, text, that changes with each *)
(* edit.  Left out: caches, in-process events, the limit on listings.      *)
(***************************************************************************)
EXTENDS Naturals, Sequences, FiniteSets

CONSTANTS
    Listings,       \* rows, one per vertical
    Events,         \* places for outbox events that are not done with
    Replicas,       \* processes with a relay and a worker each
    Sweeps,         \* slots for runs of hideAllForUser and restoreAllForUser
    None,
    Moves,          \* what happens to the account: subset of {"STATUS", "DELETION"}
    MaxText,        \* bound on the edits of a row
    MaxAttempts,    \* attempts to relay an event (5 in the code)
    MaxTries,       \* attempts of a job (3 in the code)
    MaxQueue,       \* the relay waits while this many jobs do
    MaxFaults       \* bound on the failures of a behaviour

ASSUME LimitsAssumption ==
    /\ MaxText \in Nat /\ MaxFaults \in Nat /\ MaxQueue \in Nat \ {0}
    /\ MaxAttempts \in Nat \ {0} /\ MaxTries \in Nat \ {0}
ASSUME EventsAssumption == IsFiniteSet(Events)
ASSUME MovesAssumption == Moves \subseteq {"STATUS", "DELETION"}

\* What the outbox and the queue hold.
Acts  == {"UPSERT", "DELETE"}
Event == [l : Listings, act : Acts, attempts : 0..(MaxAttempts - 1)]
Job   == [l : Listings, act : Acts, tries : 0..(MaxTries - 1)]
Batch == UNION {[S -> Event] : S \in SUBSET Events}

ASSUME NoneAssumption == None \notin Nat \cup Listings \cup Event \cup Job

VARIABLES
    status,     \* of the owner's account
    leaving,    \* is its deletion scheduled?
    moved,      \* history: has either ever changed?
    row,        \* of each listing: none, live, or gone (deletedAt, or deleted)
    hidden,     \* hiddenByOwnerStatus of the row
    text,       \* what the row says
    event,      \* pending events: listing, action, failed attempts; or None
    queue,      \* jobs waiting: listing, action, failed tries
    delayed,    \* how many of each job threw and wait for their next try
    doc,        \* what the index says of a listing; None if nothing
    relay,      \* of each replica: step, and the events it locked, as read
    worker,     \* of each replica: step, job, and the text it read
    sweep,      \* of each slot: step, direction, listing, rest
    lost,       \* listings of which an update was given up (only logged)
    faults      \* failures so far

account == <<status, leaving, moved>>
rows    == <<row, hidden, text>>
jobs    == <<queue, delayed>>
vars    == <<status, leaving, moved, row, hidden, text, event, queue, delayed, doc,
             relay, worker, sweep, lost, faults>>

IdleRelay == [step |-> "idle", batch |-> <<>>]
IdleWork  == [step |-> "idle", job |-> None, seen |-> None]
IdleSweep == [step |-> "idle", hide |-> FALSE, l |-> None, todo |-> {}]

TypeOK ==
    /\ status \in {"ACTIVE", "SUSPENDED"} /\ leaving \in BOOLEAN /\ moved \in BOOLEAN
    /\ row \in [Listings -> {"none", "live", "gone"}]
    /\ hidden \in [Listings -> BOOLEAN]
    /\ text \in [Listings -> 0..MaxText]
    /\ event \in [Events -> Event \cup {None}]
    /\ queue \in Seq(Job) /\ delayed \in [Job -> Nat]
    /\ doc \in [Listings -> 0..MaxText \cup {None}]
    /\ relay \in [Replicas -> [step : {"idle", "locked", "queued", "failed"},
                               batch : Batch]]
    /\ worker \in [Replicas -> [step : {"idle", "got", "check", "index", "drop"},
                                job : Job \cup {None}, seen : 0..MaxText \cup {None}]]
    /\ \A r \in Replicas :
        /\ worker[r].step # "idle" => worker[r].job # None
        /\ worker[r].step \in {"check", "index"} => worker[r].seen # None
    /\ sweep \in [Sweeps -> [step : {"idle", "next", "flip"}, hide : BOOLEAN,
                             l : Listings \cup {None}, todo : SUBSET Listings]]
    /\ \A s \in Sweeps : sweep[s].step = "flip" => sweep[s].l # None
    /\ lost \subseteq Listings /\ faults \in 0..MaxFaults

Init ==
    /\ status = "ACTIVE" /\ leaving = FALSE /\ moved = FALSE
    /\ row = [l \in Listings |-> "none"]
    /\ hidden = [l \in Listings |-> FALSE]
    /\ text = [l \in Listings |-> 0]
    /\ event = [e \in Events |-> None]
    /\ queue = <<>> /\ delayed = [j \in Job |-> 0]
    /\ doc = [l \in Listings |-> None]
    /\ relay = [r \in Replicas |-> IdleRelay]
    /\ worker = [r \in Replicas |-> IdleWork]
    /\ sweep = [s \in Sweeps |-> IdleSweep]
    /\ lost = {} /\ faults = 0

-----------------------------------------------------------------------------
\* May the owner's listings be seen?  What sweeps go by.
OwnerOk  == status = "ACTIVE" /\ ~leaving
Shown(l) == row[l] = "live" /\ ~hidden[l]

\* outboxEvent.create, in the transaction of the write it tells of, in a place
\* no pending event has and no relay goes by.
Record(e, l, act) ==
    /\ event[e] = None /\ \A r \in Replicas : e \notin DOMAIN relay[r].batch
    /\ event' = [event EXCEPT ![e] = [l |-> l, act |-> act, attempts |-> 0]]

Fault == faults < MaxFaults /\ faults' = faults + 1

-----------------------------------------------------------------------------
(***************************************************************************)
(* Writes to a listing by its owner.                                       *)
(***************************************************************************)
Create(l, e) ==
    /\ row[l] = "none"
    /\ row' = [row EXCEPT ![l] = "live"]
    /\ Record(e, l, "UPSERT")
    /\ UNCHANGED <<account, hidden, text, jobs, doc, relay, worker, sweep, lost, faults>>

\* update, and toggleStatus, whose write goes by id and so may come after the
\* row was removed.
Edit(l, e) ==
    /\ row[l] # "none" /\ text[l] < MaxText
    /\ text' = [text EXCEPT ![l] = @ + 1]
    /\ Record(e, l, "UPSERT")
    /\ UNCHANGED <<account, row, hidden, jobs, doc, relay, worker, sweep, lost, faults>>

Remove(l, e) ==
    /\ row[l] = "live"
    /\ row' = [row EXCEPT ![l] = "gone"]
    /\ Record(e, l, "DELETE")
    /\ UNCHANGED <<account, hidden, text, jobs, doc, relay, worker, sweep, lost, faults>>

-----------------------------------------------------------------------------
(***************************************************************************)
(* The owner's account and the sweeps.                                     *)
(***************************************************************************)
\* Suspended or banned, and reinstated by an administrator or by the clock.
SetStatus ==
    /\ "STATUS" \in Moves
    /\ status' = IF status = "ACTIVE" THEN "SUSPENDED" ELSE "ACTIVE"
    /\ moved' = TRUE
    /\ UNCHANGED <<leaving, rows, event, jobs, doc, relay, worker, sweep, lost, faults>>

\* requestAccountDeletion, of an account that was active when it was read and may be
\* suspended by now (the update goes by id), and cancelAccountDeletion.
SetLeaving ==
    /\ "DELETION" \in Moves
    /\ leaving' = ~leaving
    /\ moved' = TRUE
    /\ UNCHANGED <<status, rows, event, jobs, doc, relay, worker, sweep, lost, faults>>

Misplaced(l) == row[l] # "none" /\ hidden[l] = OwnerOk

\* Mutant: the reconciliation has no scan for what is to be hidden.
SweepStartRestore(s) ==
    /\ sweep[s].step = "idle" /\ OwnerOk /\ \E l \in Listings : Misplaced(l)
    /\ sweep' = [sweep EXCEPT ![s] =
            [step |-> "next", hide |-> FALSE, l |-> None, todo |-> Listings]]
    /\ UNCHANGED <<account, rows, event, jobs, doc, relay, worker, lost, faults>>

\* Mutant: ... and none for what is to be restored.
SweepStartHide(s) ==
    /\ sweep[s].step = "idle" /\ ~OwnerOk /\ \E l \in Listings : Misplaced(l)
    /\ sweep' = [sweep EXCEPT ![s] =
            [step |-> "next", hide |-> TRUE, l |-> None, todo |-> Listings]]
    /\ UNCHANGED <<account, rows, event, jobs, doc, relay, worker, lost, faults>>

\* hideAllForUser or restoreAllForUser starts: after the change of status (the
\* listener, requestAccountDeletion, cancelAccountDeletion), or because the
\* reconciliation found a row out of place.
SweepStart(s) ==
    /\ sweep[s].step = "idle" /\ \E l \in Listings : Misplaced(l)
    /\ sweep' = [sweep EXCEPT ![s] =
            [step |-> "next", hide |-> ~OwnerOk, l |-> None, todo |-> Listings]]
    /\ UNCHANGED <<account, rows, event, jobs, doc, relay, worker, lost, faults>>

\* A row that mutateVertical may still change: of the other visibility, and of
\* an owner who is as the sweep wants.
Matches(s, l) ==
    row[l] # "none" /\ hidden[l] # sweep[s].hide /\ sweep[s].hide # OwnerOk

\* What a sweep goes on with after listing l.
Onward(s, l) ==
    LET left == sweep[s].todo \ {l} IN
    IF left = {} THEN IdleSweep
    ELSE [step |-> "next", hide |-> sweep[s].hide, l |-> None, todo |-> left]

\* mutateVertical, the candidates, read again in the transaction.
SweepRead(s, l) ==
    /\ sweep[s].step = "next" /\ l \in sweep[s].todo
    /\ sweep' = [sweep EXCEPT ![s] =
            IF Matches(s, l) THEN [@ EXCEPT !.step = "flip", !.l = l] ELSE Onward(s, l)]
    /\ UNCHANGED <<account, rows, event, jobs, doc, relay, worker, lost, faults>>

\* mutateVertical, the update of those that match still, and an event for each
\* candidate: READ COMMITTED lets the account change in between.
SweepWrite(s, l, e) ==
    /\ sweep[s].step = "flip" /\ sweep[s].l = l
    /\ hidden' = IF Matches(s, l) THEN [hidden EXCEPT ![l] = sweep[s].hide] ELSE hidden
    /\ Record(e, l, IF sweep[s].hide THEN "DELETE" ELSE "UPSERT")
    /\ sweep' = [sweep EXCEPT ![s] = Onward(s, l)]
    /\ UNCHANGED <<account, row, text, jobs, doc, relay, worker, lost, faults>>

\* A vertical fails and is skipped, or the process dies and the sweep with it.
SweepFail(s) ==
    /\ sweep[s].step # "idle" /\ Fault
    /\ \E next \in {IdleSweep, Onward(s, sweep[s].l)} :
            sweep' = [sweep EXCEPT ![s] = next]
    /\ UNCHANGED <<account, rows, event, jobs, doc, relay, worker, lost>>

-----------------------------------------------------------------------------
(***************************************************************************)
(* processOutboxEvents: one transaction around the lock, the enqueueing    *)
(* and the update to COMPLETED; its catch block runs after the rollback.   *)
(***************************************************************************)
Locked(e) ==
    \E r \in Replicas :
        relay[r].step \in {"locked", "queued"} /\ e \in DOMAIN relay[r].batch

\* The pending events that are due, skipping those another relay has locked.
\* New events are due at once, retried ones after a delay.
RelayLock(r) ==
    LET open == {e \in Events : event[e] # None /\ ~Locked(e)} IN
    /\ relay[r].step = "idle" /\ Len(queue) < MaxQueue
    /\ \E S \in (SUBSET open) \ {{}} :
        /\ \A e \in open : event[e].attempts = 0 => e \in S
        /\ relay' = [relay EXCEPT ![r] =
                [step |-> "locked", batch |-> [e \in S |-> event[e]]]]
    /\ UNCHANGED <<account, rows, event, jobs, doc, worker, sweep, lost, faults>>

\* The locking SELECT has no ORDER BY: the jobs of a batch are in any order.
Orders(S) ==
    {q \in [1..Cardinality(S) -> S] : \A e \in S : \E i \in DOMAIN q : q[i] = e}

AsJob(d) == [l |-> d.l, act |-> d.act, tries |-> 0]

RelayEnqueue(r) ==
    /\ relay[r].step = "locked"
    /\ \E q \in Orders(DOMAIN relay[r].batch) :
            queue' = queue \o [i \in DOMAIN q |-> AsJob(relay[r].batch[q[i]])]
    /\ relay' = [relay EXCEPT ![r].step = "queued"]
    /\ UNCHANGED <<account, rows, event, delayed, doc, worker, sweep, lost, faults>>

RelayCommit(r) ==
    /\ relay[r].step = "queued"
    /\ event' = [e \in Events |->
            IF e \in DOMAIN relay[r].batch THEN None ELSE event[e]]
    /\ relay' = [relay EXCEPT ![r] = IdleRelay]
    /\ UNCHANGED <<account, rows, jobs, doc, worker, sweep, lost, faults>>

\* Mutant: the error is caught inside the transaction, which commits.
RelayFailCommits(r) ==
    /\ relay[r].step \in {"locked", "queued"} /\ Fault
    /\ event' = [e \in Events |->
            IF e \in DOMAIN relay[r].batch THEN None ELSE event[e]]
    /\ relay' = [relay EXCEPT ![r] = IdleRelay]
    /\ UNCHANGED <<account, rows, jobs, doc, worker, sweep, lost>>

\* The queue or the database fails, or the transaction takes ten seconds.
RelayFail(r) ==
    /\ relay[r].step \in {"locked", "queued"} /\ Fault
    /\ relay' = [relay EXCEPT ![r].step = "failed"]
    /\ UNCHANGED <<account, rows, event, jobs, doc, worker, sweep, lost>>

\* Mutant: an attempt too many.
RelayBackoffLate(r, e) ==
    LET d    == relay[r].batch[e]
        rest == DOMAIN relay[r].batch \ {e} IN
    /\ relay[r].step = "failed" /\ e \in DOMAIN relay[r].batch /\ ~Locked(e)
    /\ IF d.attempts + 1 > MaxAttempts
       THEN /\ event' = [event EXCEPT ![e] = None]
            /\ lost' = lost \cup {d.l}
       ELSE /\ event' = [event EXCEPT ![e] = [d EXCEPT !.attempts = @ + 1]]
            /\ UNCHANGED lost
    /\ relay' = [relay EXCEPT ![r] =
            IF rest = {} THEN IdleRelay
            ELSE [step |-> "failed", batch |-> [f \in rest |-> relay[r].batch[f]]]]
    /\ UNCHANGED <<account, rows, jobs, doc, worker, sweep, faults>>

\* The catch block, one event: another attempt later, or FAILED.  By id, and
\* from the attempts that were read under the lock.
RelayBackoff(r, e) ==
    LET d    == relay[r].batch[e]
        rest == DOMAIN relay[r].batch \ {e} IN
    /\ relay[r].step = "failed" /\ e \in DOMAIN relay[r].batch /\ ~Locked(e)
    /\ IF d.attempts + 1 >= MaxAttempts
       THEN /\ event' = [event EXCEPT ![e] = None]
            /\ lost' = lost \cup {d.l}
       ELSE /\ event' = [event EXCEPT ![e] = [d EXCEPT !.attempts = @ + 1]]
            /\ UNCHANGED lost
    /\ relay' = [relay EXCEPT ![r] =
            IF rest = {} THEN IdleRelay
            ELSE [step |-> "failed", batch |-> [f \in rest |-> relay[r].batch[f]]]]
    /\ UNCHANGED <<account, rows, jobs, doc, worker, sweep, faults>>

-----------------------------------------------------------------------------
(***************************************************************************)
(* handleSync, one job at a time in each replica.                          *)
(***************************************************************************)
Subject(r) == worker[r].job.l
Become(r, step, seen) ==
    worker' = [worker EXCEPT ![r] = [@ EXCEPT !.step = step, !.seen = seen]]
Rest(r) == worker' = [worker EXCEPT ![r] = IdleWork]

\* The next job: DELETE removes the document without a look at the row.
Take(r) ==
    /\ worker[r].step = "idle" /\ queue # <<>>
    /\ worker' = [worker EXCEPT ![r] =
            [step |-> IF Head(queue).act = "DELETE" THEN "drop" ELSE "got",
             job |-> Head(queue), seen |-> None]]
    /\ queue' = Tail(queue)
    /\ UNCHANGED <<account, rows, event, delayed, doc, relay, sweep, lost, faults>>

\* Mutant: hiddenByOwnerStatus is not looked at.
ReadAnyLive(r) ==
    /\ worker[r].step = "got"
    /\ IF row[Subject(r)] = "live" THEN Become(r, "check", text[Subject(r)])
       ELSE Become(r, "drop", None)
    /\ UNCHANGED <<account, rows, event, jobs, doc, relay, sweep, lost, faults>>

\* UPSERT, the row: one that is gone or hidden is dropped from the index.
Read(r) ==
    /\ worker[r].step = "got"
    /\ IF Shown(Subject(r)) THEN Become(r, "check", text[Subject(r)])
       ELSE Become(r, "drop", None)
    /\ UNCHANGED <<account, rows, event, jobs, doc, relay, sweep, lost, faults>>

\* ensureOwnerActive.
Check(r) ==
    /\ worker[r].step = "check"
    /\ IF status = "ACTIVE" THEN Become(r, "index", worker[r].seen)
       ELSE Become(r, "drop", None)
    /\ UNCHANGED <<account, rows, event, jobs, doc, relay, sweep, lost, faults>>

\* indexDocument and removeDocument.
Index(r) ==
    /\ worker[r].step = "index"
    /\ doc' = [doc EXCEPT ![Subject(r)] = worker[r].seen]
    /\ Rest(r)
    /\ UNCHANGED <<account, rows, event, jobs, relay, sweep, lost, faults>>

Drop(r) ==
    /\ worker[r].step = "drop"
    /\ doc' = [doc EXCEPT ![Subject(r)] = None]
    /\ Rest(r)
    /\ UNCHANGED <<account, rows, event, jobs, relay, sweep, lost, faults>>

\* Mutant: the error is caught, so the queue does not try again.
WorkFailSwallowed(r) ==
    /\ worker[r].step \in {"got", "check"} /\ Fault
    /\ Rest(r)
    /\ UNCHANGED <<account, rows, event, jobs, doc, relay, sweep, lost>>

\* The database fails a read: the job is tried again later, or given up.
WorkFail(r) ==
    /\ worker[r].step \in {"got", "check"} /\ Fault
    /\ IF worker[r].job.tries + 1 < MaxTries
       THEN /\ delayed' = [delayed EXCEPT ![[worker[r].job EXCEPT !.tries = @ + 1]] = @ + 1]
            /\ UNCHANGED lost
       ELSE /\ lost' = lost \cup {Subject(r)}
            /\ UNCHANGED delayed
    /\ Rest(r)
    /\ UNCHANGED <<account, rows, event, queue, doc, relay, sweep>>

\* The index fails: SearchService logs the error, and the job is done.
IndexFail(r) ==
    /\ worker[r].step \in {"index", "drop"} /\ Fault
    /\ lost' = lost \cup {Subject(r)}
    /\ Rest(r)
    /\ UNCHANGED <<account, rows, event, jobs, doc, relay, sweep>>

\* The delay of a job is over.
Promote(j) ==
    /\ delayed[j] > 0
    /\ delayed' = [delayed EXCEPT ![j] = @ - 1] /\ queue' = Append(queue, j)
    /\ UNCHANGED <<account, rows, event, doc, relay, worker, sweep, lost, faults>>

\* A replica dies: its transaction is rolled back, its job is stalled and taken
\* next.
Crash(r) ==
    /\ relay[r].step # "idle" \/ worker[r].step # "idle"
    /\ Fault
    /\ relay' = [relay EXCEPT ![r] = IdleRelay]
    /\ queue' = IF worker[r].step = "idle" THEN queue ELSE <<worker[r].job>> \o queue
    /\ Rest(r)
    /\ UNCHANGED <<account, rows, event, delayed, doc, sweep, lost>>

-----------------------------------------------------------------------------
OwnerNext ==
    \/ \E l \in Listings, e \in Events : Create(l, e) \/ Edit(l, e) \/ Remove(l, e)
    \/ SetStatus \/ SetLeaving

SweepNext ==
    \E s \in Sweeps :
        \/ SweepStart(s) \/ SweepFail(s)
        \/ \E l \in Listings : SweepRead(s, l) \/ \E e \in Events : SweepWrite(s, l, e)

RelayStep(r) ==
    RelayEnqueue(r) \/ RelayCommit(r) \/ \E e \in Events : RelayBackoff(r, e)
WorkStep(r) == Read(r) \/ Check(r) \/ Index(r) \/ Drop(r)

ReplicaNext ==
    \/ \E r \in Replicas :
        \/ RelayLock(r) \/ RelayStep(r) \/ RelayFail(r)
        \/ Take(r) \/ WorkStep(r) \/ WorkFail(r) \/ IndexFail(r) \/ Crash(r)
    \/ \E j \in Job : Promote(j)

Next == OwnerNext \/ SweepNext \/ ReplicaNext

Spec == Init /\ [][Next]_vars

\* The reconciliation runs every five minutes, the relay every second and oldest
\* event first, the queue is first in, first out, and whatever has started goes
\* on.  Nothing is assumed of the owner.
Fairness ==
    /\ WF_vars(\E s \in Sweeps : SweepStart(s))
    /\ \A s \in Sweeps :
        WF_vars(\E l \in Listings :
            SweepRead(s, l) \/ \E e \in Events : SweepWrite(s, l, e))
    /\ \A r \in Replicas : WF_vars(RelayStep(r)) /\ WF_vars(WorkStep(r))
    /\ \A e \in Events :
        SF_vars(\E r \in Replicas : RelayLock(r) /\ e \in DOMAIN relay'[r].batch)
    /\ WF_vars(\E r \in Replicas : Take(r))
    /\ WF_vars(\E j \in Job : Promote(j))

FairSpec == Spec /\ Fairness

-----------------------------------------------------------------------------
\* The document a listing should have.
Wanted(l) == IF Shown(l) THEN text[l] ELSE None

\* Another look at the row is coming: an event not yet enqueued, or a job that
\* waits.
Enqueued(e) ==
    \E r \in Replicas : relay[r].step = "queued" /\ e \in DOMAIN relay[r].batch
Unsent(l)  == \E e \in Events : event[e] # None /\ event[e].l = l /\ ~Enqueued(e)
Waiting(l) ==
    \/ \E i \in DOMAIN queue : queue[i].l = l
    \/ \E j \in Job : delayed[j] > 0 /\ j.l = l
Coming(l)  == Unsent(l) \/ Waiting(l)

\* Or a worker is about to look at it, to drop the document, or to index what
\* the row says.
Holds(r) == worker[r].step \in {"check", "index"}
Settling(l) ==
    \/ Coming(l)
    \/ \E r \in Replicas :
        /\ worker[r].step # "idle" /\ Subject(r) = l
        /\ Holds(r) => worker[r].seen = Wanted(l)

\* The index never keeps a document of a row that was removed or hidden, or an
\* outdated one, once nothing is under way for it and no error was swallowed:
\* whatever order events arrive in, are retried in or are relayed twice in.
ListedIsCurrent ==
    \A l \in Listings :
        doc[l] \in {None, Wanted(l)} \/ Settling(l) \/ l \in lost

\* As long as the owner's account was never touched the index misses nothing
\* either, though retries overtake one another and batches are relayed twice.
NothingMissing ==
    ~moved => \A l \in Listings : doc[l] = Wanted(l) \/ Settling(l) \/ l \in lost

\* Until then no row is hidden, no sweep has anything to do, and all that is
\* under way tells of a row that was made, and of a removal only if it was removed.
AtRest ==
    /\ OwnerOk /\ \A l \in Listings : ~hidden[l]
    /\ \A s \in Sweeps : sweep[s].step = "idle"

Told(d) == row[d.l] # "none" /\ (d.act = "DELETE" => row[d.l] = "gone")

AllTold ==
    /\ \A e \in Events : event[e] # None => Told(event[e])
    /\ \A r \in Replicas : \A e \in DOMAIN relay[r].batch : Told(relay[r].batch[e])
    /\ \A i \in DOMAIN queue : Told(queue[i])
    /\ \A j \in Job : delayed[j] > 0 => Told(j)
    /\ \A r \in Replicas : worker[r].step # "idle" =>
        Told(worker[r].job) /\ (worker[r].step = "drop" => row[Subject(r)] = "gone")

RestInv == ~moved => AtRest /\ AllTold

\* With ListedIsCurrent inductive for one replica: what the worker holds is what
\* the row says, or another look at the row is coming.
HeldIsCurrent ==
    \A r \in Replicas : Holds(r) =>
        \/ worker[r].seen = Wanted(Subject(r))
        \/ Coming(Subject(r)) \/ Subject(r) \in lost

\* Texts only move on: no document is newer than its row, nor, with one replica,
\* newer than what the worker is about to index.
FreshInv ==
    /\ \A l \in Listings : doc[l] # None => doc[l] <= text[l]
    /\ \A r \in Replicas : Holds(r) =>
        /\ worker[r].seen <= text[Subject(r)]
        /\ doc[Subject(r)] # None => doc[Subject(r)] <= worker[r].seen

\* Relays may hold the same event in several batches; all agree on what it tells,
\* and with the outbox.
Agree(d, f) == d.l = f.l /\ d.act = f.act
BatchesAgree ==
    \A r \in Replicas : \A e \in DOMAIN relay[r].batch :
        /\ event[e] # None => Agree(event[e], relay[r].batch[e])
        /\ \A q \in Replicas :
            e \in DOMAIN relay[q].batch => Agree(relay[q].batch[e], relay[r].batch[e])

\* The component implements IndexContract: every change of a row leaves it behind
\* in the index until it is looked at again, and then the index says what the row
\* says, never going back to an earlier text in between, though events are relayed
\* twice and in any order, jobs fail and are tried again, and workers die.
Behind(l) == Settling(l) \/ l \in lost

Promise == INSTANCE IndexContract WITH
    shown   <- [l \in Listings |-> Shown(l)],
    behind  <- {l \in Listings : Behind(l)},
    touched <- moved

FollowsRows == Promise!Spec

\* An update that is on its way stays so until a worker makes it, or an error ends
\* it: with any number of replicas, though one relays what another gave up or has
\* relayed already, and a transaction fails after its jobs are in the queue.
Tells(d, l, act) == d.l = l /\ d.act = act

Carried(l, act) ==
    \/ \E e \in Events : event[e] # None /\ ~Enqueued(e) /\ Tells(event[e], l, act)
    \/ \E i \in DOMAIN queue : Tells(queue[i], l, act)
    \/ \E j \in Job : delayed[j] > 0 /\ Tells(j, l, act)
    \/ \E r \in Replicas : worker[r].step # "idle" /\ Tells(worker[r].job, l, act)

Made(l, act) ==
    \E r \in Replicas : (Index(r) \/ Drop(r)) /\ Tells(worker[r].job, l, act)

UpdatesArrive ==
    [][\A l \in Listings, act \in Acts :
        Carried(l, act) => Carried(l, act)' \/ Made(l, act) \/ l \in lost']_vars

\* An account that stays suspended or scheduled for deletion has its listings
\* taken out of the index, though listeners die and sweeps fail half-way.
BlockedIsUnlisted ==
    <>[]~OwnerOk => <>[](\A l \in Listings : doc[l] = None \/ l \in lost)

\* One that stays reinstated gets every row back.
ReinstatedIsShown ==
    <>[]OwnerOk => <>[](\A l \in Listings : ~hidden[l])
=============================================================================
