---------------------------- MODULE PaymentFlow ----------------------------
(***************************************************************************)
(* A payment from its creation to the activation it buys.                  *)
(*                                                                         *)
(* The buyer's call inserts a PENDING row, opens a checkout session at the *)
(* provider (Thawani) and links the two.  Whether the session was paid is  *)
(* then learnt from three sides that do not know of each other: the verify *)
(* endpoint, webhook jobs of a queue with three attempts, and a daily      *)
(* reconciliation; an hourly cleanup expires rows that never got a         *)
(* session.  All of them run handlePaymentSuccess or markExpired, which    *)
(* read the row, and write it after an await.                              *)
(*                                                                         *)
(* The provider is external: a session, once paid or gone (cancelled or    *)
(* expired there), stays so, and its webhook may come never, once or many  *)
(* times.  Prices, plans, fraud counters and idempotency keys are left     *)
(* out; what is activated is counted, not modelled.                        *)
(***************************************************************************)
EXTENDS Naturals, FiniteSets

CONSTANTS
    Payments,           \* payment rows
    Targets,            \* what one buys: a listing to feature, a subscription
    Users,              \* slots for create and verify calls in flight
    Jobs,               \* webhook deliveries that reach the queue
    Reconciler, Cleaner,\* the two cron jobs
    None,
    Batch,              \* rows one reconciliation takes (100 in the code)
    MaxAttempts,        \* attempts of a webhook job (3 in the code)
    MaxFaults           \* bound on the failures of a behaviour

ASSUME BoundsAssumption ==
    Batch \in Nat \ {0} /\ MaxAttempts \in Nat \ {0} /\ MaxFaults \in Nat
ASSUME NoneAssumption == None \notin Payments \cup Targets
ASSUME CronAssumption ==
    /\ Reconciler # Cleaner
    /\ Reconciler \notin Users \cup Jobs
    /\ Cleaner \notin Users \cup Jobs
    /\ Users \cap Jobs = {}

Crons == {Reconciler, Cleaner}
Slots == Users \cup Jobs \cup Crons

VARIABLES
    status,     \* of the payment row; NONE before it exists
    target,     \* what the row pays for
    linked,     \* does the row have its thawaniSessionId?
    age,        \* of the row, as the crons tell it apart
    session,    \* the checkout session at the provider
    grants,     \* how often the activation of this payment ran
    attempts,   \* attemptsMade of each webhook job
    faults,     \* failures so far
    call        \* what each slot is doing: step, payment, rest of a batch

rows == <<status, target, linked, age, grants>>
vars == <<status, target, linked, age, session, grants, attempts, faults, call>>

Active == {"PENDING", "PROCESSING"}
Steps  == {"idle", "queued", "over", "created", "opened", "paidSeen", "goneSeen",
           "settle", "claim", "grant", "void", "expire", "loop"}
SlotStates == [step : Steps, x : Payments \cup {None}, todo : SUBSET Payments]
Idle   == [step |-> "idle", x |-> None, todo |-> {}]
Over   == [step |-> "over", x |-> None, todo |-> {}]

TypeOK ==
    /\ status \in [Payments -> {"NONE", "PENDING", "PROCESSING", "PAID", "EXPIRED"}]
    /\ target \in [Payments -> Targets \cup {None}]
    /\ linked \in [Payments -> BOOLEAN]
    /\ age \in [Payments -> {"fresh", "hour", "day"}]
    /\ session \in [Payments -> {"none", "unpaid", "paid", "gone"}]
    /\ grants \in [Payments -> Nat]
    /\ attempts \in [Jobs -> 0..MaxAttempts]
    /\ faults \in 0..MaxFaults
    /\ call \in [Slots -> SlotStates]

Init ==
    /\ status = [x \in Payments |-> "NONE"]
    /\ target = [x \in Payments |-> None]
    /\ linked = [x \in Payments |-> FALSE]
    /\ age = [x \in Payments |-> "fresh"]
    /\ session = [x \in Payments |-> "none"]
    /\ grants = [x \in Payments |-> 0]
    /\ attempts = [j \in Jobs |-> 0]
    /\ faults = 0
    /\ call = [p \in Slots |-> Idle]

-----------------------------------------------------------------------------
At(p, step, x) == call[p].step = step /\ call[p].x = x
Go(p, state)   == call' = [call EXCEPT ![p] = state]
Move(p, step)  == call' = [call EXCEPT ![p].step = step]

\* What a slot holds when it is through with its payment: a job is over, a cron
\* goes on with its batch.
Rest(p) ==
    IF p \in Jobs THEN Over
    ELSE IF call[p].todo = {} THEN Idle
    ELSE [step |-> "loop", x |-> None, todo |-> call[p].todo]
Done(p) == Go(p, Rest(p))

\* An exception: a job counts an attempt and is queued again until the attempts
\* are used up, a cron catches it and goes on, a call just ends.
Throw(p) ==
    IF p \in Jobs
    THEN /\ attempts' = [attempts EXCEPT ![p] = @ + 1]
         /\ Go(p, IF attempts[p] + 1 < MaxAttempts
                  THEN [step |-> "queued", x |-> call[p].x, todo |-> {}] ELSE Over)
    ELSE Done(p) /\ UNCHANGED attempts

-----------------------------------------------------------------------------
(***************************************************************************)
(* The buyer's call.                                                       *)
(***************************************************************************)
\* createFeaturedPayment, createSubscriptionPayment: the SERIALIZABLE
\* transaction inserts a row unless the target has an active one (that is
\* reused or refused, and nothing changes).
Create(p, x, t) ==
    /\ p \in Users /\ call[p] = Idle
    /\ status[x] = "NONE"
    /\ \A y \in Payments : target[y] = t => status[y] \notin Active
    /\ status' = [status EXCEPT ![x] = "PENDING"]
    /\ target' = [target EXCEPT ![x] = t]
    /\ Go(p, [step |-> "created", x |-> x, todo |-> {}])
    /\ UNCHANGED <<linked, age, session, grants, attempts, faults>>

\* The provider opens a session for the row.
OpenSession(p, x) ==
    /\ At(p, "created", x)
    /\ session' = [session EXCEPT ![x] = "unpaid"]
    /\ Move(p, "opened")
    /\ UNCHANGED <<rows, attempts, faults>>

\* transitionStatus(PENDING -> PROCESSING): an update by id; the buyer gets
\* the address of the checkout.
Link(p, x) ==
    /\ At(p, "opened", x)
    /\ status' = [status EXCEPT ![x] = "PROCESSING"]
    /\ linked' = [linked EXCEPT ![x] = TRUE]
    /\ Done(p)
    /\ UNCHANGED <<target, age, session, grants, attempts, faults>>

\* At the provider: a buyer who has the address pays, or the session ends.
Pay(x) ==
    /\ session[x] = "unpaid" /\ linked[x]
    /\ session' = [session EXCEPT ![x] = "paid"]
    /\ UNCHANGED <<rows, attempts, faults, call>>

Lapse(x) ==
    /\ session[x] = "unpaid"
    /\ session' = [session EXCEPT ![x] = "gone"]
    /\ UNCHANGED <<rows, attempts, faults, call>>

\* Time: a row becomes an hour, then a day old.  The call that creates it does
\* not take a day (the HTTP client gives up after minutes).
Age(x) ==
    /\ status[x] # "NONE"
    /\ \/ age[x] = "fresh" /\ age' = [age EXCEPT ![x] = "hour"]
       \/ /\ age[x] = "hour"
          /\ \A p \in Users : ~At(p, "created", x) /\ ~At(p, "opened", x)
          /\ age' = [age EXCEPT ![x] = "day"]
    /\ UNCHANGED <<status, target, linked, session, grants, attempts, faults, call>>

-----------------------------------------------------------------------------
(***************************************************************************)
(* Three ways to learn of the outcome, and the cleanup.                    *)
(***************************************************************************)
\* verifyPayment, the session as the provider sees it.
VerifyFetch(p, x) ==
    /\ p \in Users /\ call[p] = Idle
    /\ linked[x] /\ session[x] \in {"paid", "gone"}
    /\ Go(p, [step |-> IF session[x] = "paid" THEN "paidSeen" ELSE "goneSeen",
              x |-> x, todo |-> {}])
    /\ UNCHANGED <<rows, session, attempts, faults>>

\* verifyPayment, the row: nothing to do if it is settled already.
VerifyRead(p, x) ==
    /\ \/ At(p, "paidSeen", x) /\ IF status[x] = "PAID" THEN Done(p) ELSE Move(p, "settle")
       \/ At(p, "goneSeen", x) /\ IF status[x] = "EXPIRED" THEN Done(p) ELSE Move(p, "void")
    /\ UNCHANGED <<rows, session, attempts, faults>>

\* The provider's webhook for a paid session gets into the queue.
Deliver(j, x) ==
    /\ call[j] = Idle /\ session[x] = "paid"
    /\ Go(j, [step |-> "queued", x |-> x, todo |-> {}])
    /\ UNCHANGED <<rows, session, attempts, faults>>

\* handleWebhook: the row is found by its session.
HookRead(j, x) ==
    /\ At(j, "queued", x)
    /\ IF status[x] = "PAID" THEN Done(j) ELSE Move(j, "settle")
    /\ UNCHANGED <<rows, session, attempts, faults>>

\* Mutant: PROCESSING is forgotten in the filter.
ReconcileListPending ==
    LET open == {x \in Payments : status[x] = "PENDING" /\ linked[x]} IN
    /\ call[Reconciler] = Idle /\ open # {}
    /\ Go(Reconciler, [step |-> "loop", x |-> None, todo |-> open])
    /\ UNCHANGED <<rows, session, attempts, faults>>

\* reconcilePayments, the list: up to Batch of the open rows, in no order.
ReconcileList ==
    LET open == {x \in Payments : status[x] \in Active /\ linked[x] /\ age[x] # "fresh"}
        full(S) == S = open \/ Cardinality(S) = Batch IN
    /\ call[Reconciler] = Idle /\ open # {}
    /\ \E S \in SUBSET open :
        /\ Cardinality(S) <= Batch /\ full(S)
        /\ Go(Reconciler, [step |-> "loop", x |-> None, todo |-> S])
    /\ UNCHANGED <<rows, session, attempts, faults>>

\* Mutant: what is not paid by now is dropped.
ReconcileOneLoose(x) ==
    LET left == call[Reconciler].todo \ {x} IN
    /\ call[Reconciler].step = "loop" /\ x \in call[Reconciler].todo
    /\ Go(Reconciler, [step |-> IF session[x] = "paid" THEN "settle" ELSE "void",
                       x |-> x, todo |-> left])
    /\ UNCHANGED <<rows, session, attempts, faults>>

\* reconcilePayments, one payment of the list: ask the provider.
ReconcileOne(x) ==
    LET left == call[Reconciler].todo \ {x} IN
    /\ call[Reconciler].step = "loop" /\ x \in call[Reconciler].todo
    /\ Go(Reconciler,
          CASE session[x] = "paid" -> [step |-> "settle", x |-> x, todo |-> left]
            [] session[x] = "gone" -> [step |-> "void", x |-> x, todo |-> left]
            [] OTHER -> IF left = {} THEN Idle
                        ELSE [step |-> "loop", x |-> None, todo |-> left])
    /\ UNCHANGED <<rows, session, attempts, faults>>

\* Mutant: only rows that have a session are looked at.
CleanupListLinked ==
    LET stale == {x \in Payments : status[x] = "PENDING" /\ age[x] = "day" /\ linked[x]} IN
    /\ call[Cleaner] = Idle /\ stale # {}
    /\ Go(Cleaner, [step |-> "loop", x |-> None, todo |-> stale])
    /\ UNCHANGED <<rows, session, attempts, faults>>

\* cleanupStalePendingPayments, the list ...
CleanupList ==
    LET stale == {x \in Payments : status[x] = "PENDING" /\ age[x] = "day" /\ ~linked[x]} IN
    /\ call[Cleaner] = Idle /\ stale # {}
    /\ Go(Cleaner, [step |-> "loop", x |-> None, todo |-> stale])
    /\ UNCHANGED <<rows, session, attempts, faults>>

\* ... and one payment of it.
CleanupOne(x) ==
    /\ call[Cleaner].step = "loop" /\ x \in call[Cleaner].todo
    /\ Go(Cleaner, [step |-> "void", x |-> x, todo |-> call[Cleaner].todo \ {x}])
    /\ UNCHANGED <<rows, session, attempts, faults>>

-----------------------------------------------------------------------------
(***************************************************************************)
(* handlePaymentSuccess and markExpired, shared by all of them.            *)
(***************************************************************************)
\* handlePaymentSuccess (and reconcilePayment before it), the read: PAID is
\* done, and only PROCESSING may become PAID.
SettleRead(p, x) ==
    /\ At(p, "settle", x)
    /\ CASE status[x] = "PROCESSING" -> Move(p, "claim") /\ UNCHANGED attempts
         [] status[x] = "PAID" -> Done(p) /\ UNCHANGED attempts
         [] OTHER -> Throw(p)
    /\ UNCHANGED <<rows, session, faults>>

\* transitionStatusIfCurrent: an update of the row only if it still has the
\* status that was read; whoever loses is done.
SettleWrite(p, x) ==
    /\ At(p, "claim", x)
    /\ IF status[x] = "PROCESSING"
       THEN status' = [status EXCEPT ![x] = "PAID"] /\ Move(p, "grant")
       ELSE Done(p) /\ UNCHANGED status
    /\ UNCHANGED <<target, linked, age, session, grants, attempts, faults>>

\* activateFeatured or activateSubscription, by the winner.
Grant(p, x) ==
    /\ At(p, "grant", x)
    /\ grants' = [grants EXCEPT ![x] = @ + 1]
    /\ Done(p)
    /\ UNCHANGED <<status, target, linked, age, session, attempts, faults>>

\* markExpired, the read ...
VoidRead(p, x) ==
    /\ At(p, "void", x)
    /\ IF status[x] \in Active THEN Move(p, "expire") ELSE Done(p)
    /\ UNCHANGED <<rows, session, attempts, faults>>

\* Mutant: the row is marked FAILED, which nothing else knows of.
VoidWriteFailed(p, x) ==
    /\ At(p, "expire", x)
    /\ status' = [status EXCEPT ![x] = "FAILED"]
    /\ Done(p)
    /\ UNCHANGED <<target, linked, age, session, grants, attempts, faults>>

\* ... and the write: by id, whatever the status is by now.
VoidWrite(p, x) ==
    /\ At(p, "expire", x)
    /\ status' = [status EXCEPT ![x] = "EXPIRED"]
    /\ Done(p)
    /\ UNCHANGED <<target, linked, age, session, grants, attempts, faults>>

\* An error of the database, the provider or the network, wherever a slot is.
Fail(p) ==
    /\ call[p].step \notin {"idle", "over", "queued", "loop"}
    /\ faults < MaxFaults /\ faults' = faults + 1
    /\ Throw(p)
    /\ UNCHANGED <<rows, session>>

\* The process dies: calls and cron runs are gone, jobs are queued again.
Crash ==
    /\ \E p \in Slots : call[p].step \notin {"idle", "over", "queued"}
    /\ faults < MaxFaults /\ faults' = faults + 1
    /\ call' = [p \in Slots |->
            IF p \in Jobs
            THEN IF call[p].step \in {"idle", "over"} THEN call[p]
                 ELSE [step |-> "queued", x |-> call[p].x, todo |-> {}]
            ELSE Idle]
    /\ UNCHANGED <<rows, session, attempts>>

-----------------------------------------------------------------------------
\* The steps of a slot that is working on payment x.
Work(p, x) ==
    \/ OpenSession(p, x) \/ Link(p, x) \/ VerifyRead(p, x)
    \/ SettleRead(p, x) \/ SettleWrite(p, x) \/ Grant(p, x)
    \/ VoidRead(p, x) \/ VoidWrite(p, x)

Next ==
    \/ \E p \in Users, x \in Payments, t \in Targets : Create(p, x, t)
    \/ \E p \in Users, x \in Payments : VerifyFetch(p, x)
    \/ \E x \in Payments : Pay(x) \/ Lapse(x) \/ Age(x)
    \/ \E j \in Jobs, x \in Payments : Deliver(j, x) \/ HookRead(j, x)
    \/ \E x \in Payments : ReconcileOne(x) \/ CleanupOne(x)
    \/ ReconcileList \/ CleanupList
    \/ \E p \in Slots, x \in Payments : Work(p, x)
    \/ \E p \in Slots : Fail(p)
    \/ Crash

Spec == Init /\ [][Next]_vars

\* The crons fire again and again and a slot that works goes on; rows get
\* older; a checkout session does not stay open at the provider for ever.
\* Nothing is assumed of buyers, webhooks or the queue.
Fairness ==
    /\ WF_vars(ReconcileList) /\ WF_vars(CleanupList)
    /\ WF_vars(\E x \in Payments : ReconcileOne(x))
    /\ WF_vars(\E x \in Payments : CleanupOne(x))
    /\ \A p \in Slots : WF_vars(\E x \in Payments : Work(p, x))
    /\ \A x \in Payments : WF_vars(Age(x)) /\ WF_vars(Lapse(x))

FairSpec == Spec /\ Fairness

-----------------------------------------------------------------------------
\* One target is never paid for twice at a time: it has at most one payment
\* that can still be paid, although creations race and expired ones are replaced.
OneActivePerTarget ==
    \A x, y \in Payments :
        x # y /\ target[x] = target[y] /\ target[x] # None
            => ~(status[x] \in Active /\ status[y] \in Active)

\* A payment activates what it bought at most once, however often webhook,
\* verification and reconciliation report it and are retried.
GrantedOnce == \A x \in Payments : grants[x] <= 1

\* Nothing is activated that the provider was not paid for.
GrantedWasPaid ==
    \A x \in Payments :
        grants[x] > 0 => session[x] = "paid" /\ status[x] = "PAID"

\* Money that arrived is never written off: the row of a paid session is
\* settled or can still be, whatever expires rows at the same time.
PaidNotWrittenOff ==
    \A x \in Payments : session[x] = "paid" => status[x] \in {"PROCESSING", "PAID"}

\* The five statuses as the contract tells them apart.
Outcome(s) ==
    CASE s = "NONE" -> "none" [] s \in Active -> "open"
      [] s = "PAID" -> "paid" [] OTHER -> "void"

Contract == INSTANCE PaymentContract WITH
    state  <- [x \in Payments |-> Outcome(status[x])],
    paid   <- [x \in Payments |-> session[x] = "paid"],
    target <- target,
    grants <- grants

\* Three ways to learn of the money, retries, crons and failures together do
\* what the contract allows and nothing else: no payment is dropped once paid or
\* paid once dropped, settled without money, settled or activated twice, or
\* reopened.
KeepsContract == Contract!Spec

(***************************************************************************)
(* Why they hold: what each row and each slot can rely on.                 *)
(***************************************************************************)
Creating(p, x) == At(p, "created", x) \/ At(p, "opened", x)
Settling(p, x) ==
    \E s \in {"queued", "paidSeen", "settle", "claim", "grant"} : At(p, s, x)
Voiding(p, x)  == At(p, "void", x) \/ At(p, "expire", x)

\* A row follows its session: paid and settled belong together, and a row that
\* can still be paid is open.
RowInv ==
    \A x \in Payments :
        /\ status[x] = "NONE" => ~linked[x] /\ age[x] = "fresh"
        /\ session[x] = "paid" => linked[x] /\ status[x] \in {"PROCESSING", "PAID"}
        /\ session[x] = "unpaid" /\ linked[x] => status[x] = "PROCESSING"
        /\ status[x] = "PAID" => session[x] = "paid"
        /\ grants[x] > 0 => status[x] = "PAID"
        /\ grants[x] <= 1

\* What a slot has read of a payment stays true while it works on it.
Relies(p, x) ==
    /\ Creating(p, x) =>
            p \in Users /\ status[x] = "PENDING" /\ ~linked[x] /\ age[x] # "day"
    /\ Settling(p, x) => session[x] = "paid"
    /\ At(p, "grant", x) => status[x] = "PAID" /\ grants[x] = 0
    /\ At(p, "goneSeen", x) => linked[x] /\ session[x] = "gone"
    /\ Voiding(p, x) => \/ linked[x] /\ session[x] = "gone"
                        \/ ~linked[x] /\ age[x] = "day"

SlotInv == \A p \in Slots, x \in Payments : Relies(p, x)

\* ... and so does what a cron has listed.
BatchInv ==
    /\ \A x \in call[Cleaner].todo : ~linked[x] /\ age[x] = "day"
    /\ \A x \in call[Reconciler].todo : linked[x]

\* A payment is created by one call and activated by one winner.
AloneInv ==
    \A p, q \in Slots, x \in Payments :
        /\ Creating(p, x) /\ Creating(q, x) => p = q
        /\ At(p, "grant", x) /\ At(q, "grant", x) => p = q

\* A job only settles, and has an attempt left while it is not over.
JobInv ==
    \A j \in Jobs :
        /\ call[j].step \in {"idle", "over", "queued", "settle", "claim", "grant"}
        /\ call[j].step # "over" => attempts[j] < MaxAttempts

PaymentInv ==
    TypeOK /\ JobInv /\ RowInv /\ SlotInv /\ BatchInv /\ AloneInv /\ OneActivePerTarget

\* The row of a paid session becomes PAID even if every webhook is lost and
\* nobody verifies.
PaidIsSettled ==
    \A x \in Payments : session[x] = "paid" ~> status[x] = "PAID"

\* A row whose creation broke off does not block its target for ever.
PendingIsResolved ==
    \A x \in Payments : status[x] = "PENDING" ~> status[x] # "PENDING"

\* A payment that is PAID is activated, or someone is about to: the diagram of
\* the payment flow has isPremium follow PROCESSING -> PAID.
PaidIsGranted ==
    \A x \in Payments :
        status[x] = "PAID" => grants[x] = 1 \/ \E p \in Slots : At(p, "grant", x)
=============================================================================
