------------------------- MODULE PaymentFlowProofs -------------------------
(***************************************************************************)
(* Proofs about PaymentFlow, for any payments, targets, callers, webhook   *)
(* deliveries, batch size, attempts and failures.                          *)
(***************************************************************************)
EXTENDS PaymentFlow, TLAPS

-----------------------------------------------------------------------------
(***************************************************************************)
(* How a slot moves.                                                       *)
(***************************************************************************)
\* The other slots are where they were.
Others(p) == \A q \in Slots \ {p} : call'[q] = call[q]

LEMMA SlotType ==
    ASSUME TypeOK, NEW p \in Slots
    PROVE  /\ call[p].step \in Steps
           /\ call[p].x \in Payments \cup {None}
           /\ call[p].todo \in SUBSET Payments
BY DEF TypeOK, SlotStates

LEMMA GoMoves ==
    ASSUME TypeOK, NEW p \in Slots, NEW s \in SlotStates, Go(p, s)
    PROVE  /\ call' \in [Slots -> SlotStates]
           /\ call'[p] = s
           /\ Others(p)
BY DEF TypeOK, Go, Others

LEMMA MoveMoves ==
    ASSUME TypeOK, NEW p \in Slots, NEW s \in Steps, Move(p, s)
    PROVE  /\ call' \in [Slots -> SlotStates]
           /\ call'[p].step = s
           /\ call'[p].x = call[p].x
           /\ call'[p].todo = call[p].todo
           /\ Others(p)
<1>1. call[p] \in SlotStates
    BY DEF TypeOK
<1>2. call' = [call EXCEPT ![p] = [call[p] EXCEPT !.step = s]]
    BY DEF Move
<1>3. [call[p] EXCEPT !.step = s] \in SlotStates
    BY <1>1 DEF SlotStates
<1>4. Go(p, [call[p] EXCEPT !.step = s])
    BY <1>2 DEF Go
<1>5. /\ call' \in [Slots -> SlotStates]
      /\ call'[p] = [call[p] EXCEPT !.step = s]
      /\ Others(p)
    BY <1>3, <1>4, GoMoves
<1> QED
    BY <1>1, <1>5 DEF SlotStates

\* A slot that is done holds no payment, and no more of a batch than before.
LEMMA DoneMoves ==
    ASSUME TypeOK, NEW p \in Slots, Done(p)
    PROVE  /\ call' \in [Slots -> SlotStates]
           /\ call'[p].step \in {"idle", "over", "loop"}
           /\ call'[p].todo \subseteq call[p].todo
           /\ p \in Jobs => call'[p].step = "over"
           /\ Others(p)
<1>1. /\ Rest(p) \in SlotStates
      /\ Rest(p).step \in {"idle", "over", "loop"}
      /\ Rest(p).todo \subseteq call[p].todo
      /\ p \in Jobs => Rest(p).step = "over"
    BY SlotType DEF Rest, Idle, Over, SlotStates, Steps
<1> QED
    BY <1>1, GoMoves DEF Done

\* A failing slot is done, or a job with an attempt left and queued again.
LEMMA ThrowMoves ==
    ASSUME TypeOK, JobInv, NEW p \in Slots, Throw(p),
           call[p].step \notin {"idle", "over"}
    PROVE  /\ call' \in [Slots -> SlotStates]
           /\ attempts' \in [Jobs -> 0..MaxAttempts]
           /\ Others(p)
           /\ \/ /\ call'[p].step \in {"idle", "over", "loop"}
                 /\ call'[p].todo \subseteq call[p].todo
              \/ /\ p \in Jobs
                 /\ call'[p].step = "queued"
                 /\ call'[p].x = call[p].x
                 /\ call'[p].todo = {}
           /\ \A j \in Jobs \ {p} : attempts'[j] = attempts[j]
           /\ p \in Jobs => /\ call'[p].step \in {"over", "queued"}
                            /\ call'[p].step = "queued" => attempts'[p] < MaxAttempts
<1>1. CASE p \in Jobs
    <2>1. /\ attempts \in [Jobs -> 0..MaxAttempts]
          /\ attempts[p] < MaxAttempts
          /\ attempts' = [attempts EXCEPT ![p] = @ + 1]
        BY <1>1 DEF TypeOK, JobInv, Throw
    <2>2. attempts[p] + 1 \in 0..MaxAttempts
        BY <1>1, <2>1, BoundsAssumption
    <2>3. /\ attempts' \in [Jobs -> 0..MaxAttempts]
          /\ attempts'[p] = attempts[p] + 1
          /\ \A j \in Jobs \ {p} : attempts'[j] = attempts[j]
        BY <1>1, <2>1, <2>2
    <2> DEFINE s == IF attempts[p] + 1 < MaxAttempts
                    THEN [step |-> "queued", x |-> call[p].x, todo |-> {}] ELSE Over
    <2>4. s \in SlotStates
        BY SlotType DEF SlotStates, Steps, Over
    <2>5. Go(p, s)
        BY <1>1 DEF Throw
    <2>6. /\ call' \in [Slots -> SlotStates]
          /\ call'[p] = s
          /\ Others(p)
        BY <2>4, <2>5, GoMoves
    <2> QED
        BY <1>1, <2>3, <2>6 DEF Over
<1>2. CASE p \notin Jobs
    BY <1>2, DoneMoves DEF Throw, TypeOK
<1> QED
    BY <1>1, <1>2

-----------------------------------------------------------------------------
(***************************************************************************)
(* Steps that read: rows and sessions stay, a slot learns something.       *)
(***************************************************************************)
\* What a slot may come to hold without a row having changed.
Learns ==
    /\ UNCHANGED <<rows, session>>
    /\ \A p \in Slots, x \in Payments :
        /\ Creating(p, x)' => Creating(p, x)
        /\ At(p, "grant", x)' => At(p, "grant", x)
        /\ Settling(p, x)' => session[x] = "paid"
        /\ At(p, "goneSeen", x)' => linked[x] /\ session[x] = "gone"
        /\ Voiding(p, x)' => \/ linked[x] /\ session[x] = "gone"
                             \/ ~linked[x] /\ age[x] = "day"

LEMMA LearnsKeeps ==
    ASSUME PaymentInv, Learns, TypeOK', JobInv', BatchInv'
    PROVE  PaymentInv'
<1>1. RowInv'
    BY DEF PaymentInv, Learns, rows, RowInv
<1>2. SlotInv'
    BY DEF PaymentInv, Learns, rows, SlotInv, Relies
<1>3. AloneInv'
    BY DEF PaymentInv, Learns, AloneInv
<1>4. OneActivePerTarget'
    BY DEF PaymentInv, Learns, rows, OneActivePerTarget
<1> QED
    BY <1>1, <1>2, <1>3, <1>4 DEF PaymentInv

\* It is enough to look at the slot that moved.
LEMMA OneLearns ==
    ASSUME PaymentInv, UNCHANGED <<rows, session>>, NEW p \in Slots, Others(p),
           \A x \in Payments :
            /\ Creating(p, x)' => Creating(p, x)
            /\ At(p, "grant", x)' => At(p, "grant", x)
            /\ Settling(p, x)' => session[x] = "paid"
            /\ At(p, "goneSeen", x)' => linked[x] /\ session[x] = "gone"
            /\ Voiding(p, x)' => \/ linked[x] /\ session[x] = "gone"
                                 \/ ~linked[x] /\ age[x] = "day"
    PROVE  Learns
<1> SUFFICES ASSUME NEW q \in Slots, NEW x \in Payments
             PROVE  /\ Creating(q, x)' => Creating(q, x)
                    /\ At(q, "grant", x)' => At(q, "grant", x)
                    /\ Settling(q, x)' => session[x] = "paid"
                    /\ At(q, "goneSeen", x)' => linked[x] /\ session[x] = "gone"
                    /\ Voiding(q, x)' => \/ linked[x] /\ session[x] = "gone"
                                         \/ ~linked[x] /\ age[x] = "day"
    BY DEF Learns
<1>1. CASE q = p
    BY <1>1
<1>2. CASE q # p
    <2>1. call'[q] = call[q]
        BY <1>2 DEF Others
    <2>2. \A s \in Steps : At(q, s, x)' <=> At(q, s, x)
        BY <2>1 DEF At
    <2> QED
        BY <2>2 DEF PaymentInv, SlotInv, Relies, Creating, Settling, Voiding, Steps
<1> QED
    BY <1>1, <1>2

LEMMA BatchKeeps ==
    ASSUME BatchInv, UNCHANGED rows, NEW p \in Slots, Others(p),
           call'[p].todo \subseteq call[p].todo
    PROVE  BatchInv'
BY DEF BatchInv, rows, Others, Slots, Crons

LEMMA JobKeeps ==
    ASSUME JobInv, UNCHANGED attempts, NEW p \in Slots, Others(p),
           p \in Jobs =>
            /\ call'[p].step \in {"idle", "over", "queued", "settle", "claim", "grant"}
            /\ call'[p].step # "over" => call[p].step # "over"
    PROVE  JobInv'
BY DEF JobInv, Others, Slots

\* The steps of one slot that keep its payment and change no row.
LEMMA VerifyKeeps ==
    ASSUME PaymentInv, NEW p \in Users, NEW x \in Payments, VerifyFetch(p, x)
    PROVE  PaymentInv'
<1> DEFINE s == [step |-> IF session[x] = "paid" THEN "paidSeen" ELSE "goneSeen",
                 x |-> x, todo |-> {}]
<1>1. p \in Slots /\ p \notin Jobs
    BY CronAssumption DEF Slots
<1>2. s \in SlotStates
    BY DEF SlotStates, Steps
<1>3. /\ call' \in [Slots -> SlotStates]
      /\ call'[p] = s
      /\ Others(p)
    BY <1>1, <1>2, GoMoves DEF VerifyFetch, PaymentInv
<1>4. UNCHANGED <<rows, session, attempts, faults>> /\ linked[x]
      /\ session[x] \in {"paid", "gone"}
    BY DEF VerifyFetch
<1>5. TypeOK'
    BY <1>3, <1>4 DEF TypeOK, rows, PaymentInv
<1>6. Learns
    BY <1>1, <1>3, <1>4, OneLearns DEF Creating, Settling, Voiding, At
<1>7. BatchInv'
    BY <1>1, <1>3, <1>4, BatchKeeps DEF PaymentInv
<1>8. JobInv'
    BY <1>1, <1>3, <1>4, JobKeeps DEF PaymentInv
<1> QED
    BY <1>5, <1>6, <1>7, <1>8, LearnsKeeps

\* A slot that is done relies on nothing any more.
LEMMA DoneKeeps ==
    ASSUME PaymentInv, UNCHANGED <<rows, session, attempts, faults>>,
           NEW p \in Slots, Done(p), p \in Jobs => call[p].step # "idle"
    PROVE  PaymentInv'
<1>1. /\ call' \in [Slots -> SlotStates]
      /\ call'[p].step \in {"idle", "over", "loop"}
      /\ call'[p].todo \subseteq call[p].todo
      /\ p \in Jobs => call'[p].step = "over"
      /\ Others(p)
    BY DoneMoves DEF PaymentInv
<1>2. TypeOK'
    BY <1>1 DEF TypeOK, rows, PaymentInv
<1>3. Learns
    BY <1>1, OneLearns DEF Creating, Settling, Voiding, At
<1>4. BatchInv'
    BY <1>1, BatchKeeps DEF PaymentInv
<1>5. JobInv'
    BY <1>1, JobKeeps DEF PaymentInv
<1> QED
    BY <1>2, <1>3, <1>4, <1>5, LearnsKeeps

\* A slot may go on to settle what is paid and to void what is gone.
LEMMA MoveKeeps ==
    ASSUME PaymentInv, UNCHANGED <<rows, session, attempts, faults>>,
           NEW p \in Slots, NEW x \in Payments, call[p].x = x,
           NEW s \in Steps, Move(p, s), call[p].step # "over",
           \/ s \in {"settle", "claim"} /\ session[x] = "paid"
           \/ /\ s \in {"void", "expire"} /\ p \notin Jobs
              /\ (linked[x] /\ session[x] = "gone") \/ (~linked[x] /\ age[x] = "day")
    PROVE  PaymentInv'
<1>1. /\ call' \in [Slots -> SlotStates]
      /\ call'[p].step = s
      /\ call'[p].x = x
      /\ call'[p].todo = call[p].todo
      /\ Others(p)
    BY MoveMoves DEF PaymentInv
<1>2. TypeOK'
    BY <1>1 DEF TypeOK, rows, PaymentInv
<1>3. Learns
    BY <1>1, OneLearns DEF Creating, Settling, Voiding, At
<1>4. BatchInv'
    BY <1>1, BatchKeeps DEF PaymentInv
<1>5. JobInv'
    BY <1>1, JobKeeps DEF PaymentInv
<1> QED
    BY <1>2, <1>3, <1>4, <1>5, LearnsKeeps

\* A job only settles.
LEMMA JobSteps ==
    ASSUME PaymentInv, NEW p \in Jobs
    PROVE  call[p].step \in {"idle", "over", "queued", "settle", "claim", "grant"}
BY DEF PaymentInv, JobInv

LEMMA VerifyReadKeeps ==
    ASSUME PaymentInv, NEW p \in Slots, NEW x \in Payments, VerifyRead(p, x)
    PROVE  PaymentInv'
<1>1. UNCHANGED <<rows, session, attempts, faults>>
    BY DEF VerifyRead
<1>2. CASE At(p, "paidSeen", x)
    <2>1. session[x] = "paid"
        BY <1>2 DEF PaymentInv, SlotInv, Relies, Settling
    <2>2. Done(p) \/ Move(p, "settle")
        BY <1>2 DEF VerifyRead, At
    <2> QED
        BY <1>1, <1>2, <2>1, <2>2, DoneKeeps, MoveKeeps DEF At, Steps
<1>3. CASE At(p, "goneSeen", x)
    <2>1. linked[x] /\ session[x] = "gone"
        BY <1>3 DEF PaymentInv, SlotInv, Relies
    <2>2. Done(p) \/ Move(p, "void")
        BY <1>3 DEF VerifyRead, At
    <2>3. p \notin Jobs
        BY <1>3, JobSteps DEF At
    <2> QED
        BY <1>1, <1>3, <2>1, <2>2, <2>3, DoneKeeps, MoveKeeps DEF At, Steps
<1> QED
    BY <1>2, <1>3 DEF VerifyRead

LEMMA HookReadKeeps ==
    ASSUME PaymentInv, NEW j \in Jobs, NEW x \in Payments, HookRead(j, x)
    PROVE  PaymentInv'
<1>1. UNCHANGED <<rows, session, attempts, faults>> /\ At(j, "queued", x)
    BY DEF HookRead
<1>2. j \in Slots
    BY DEF Slots
<1>3. session[x] = "paid"
    BY <1>1, <1>2 DEF PaymentInv, SlotInv, Relies, Settling
<1>4. CASE status[x] = "PAID"
    BY <1>1, <1>2, <1>4, DoneKeeps DEF HookRead, At
<1>5. CASE status[x] # "PAID"
    BY <1>1, <1>2, <1>3, <1>5, MoveKeeps DEF HookRead, At, Steps
<1> QED
    BY <1>4, <1>5

LEMMA VoidReadKeeps ==
    ASSUME PaymentInv, NEW p \in Slots, NEW x \in Payments, VoidRead(p, x)
    PROVE  PaymentInv'
<1>1. UNCHANGED <<rows, session, attempts, faults>> /\ At(p, "void", x)
    BY DEF VoidRead
<1>2. (linked[x] /\ session[x] = "gone") \/ (~linked[x] /\ age[x] = "day")
    BY <1>1 DEF PaymentInv, SlotInv, Relies, Voiding
<1>3. p \notin Jobs
    BY <1>1, JobSteps DEF At
<1>4. CASE status[x] \in Active
    BY <1>1, <1>2, <1>3, <1>4, MoveKeeps DEF VoidRead, At, Steps
<1>5. CASE status[x] \notin Active
    BY <1>1, <1>3, <1>5, DoneKeeps DEF VoidRead
<1> QED
    BY <1>4, <1>5

\* An exception ends a slot or queues its job again; the job's session is paid.
LEMMA ThrowKeeps ==
    ASSUME PaymentInv, UNCHANGED <<rows, session>>, faults' \in 0..MaxFaults,
           NEW p \in Slots, Throw(p), call[p].step \notin {"idle", "over"}
    PROVE  PaymentInv'
<1>1. /\ call' \in [Slots -> SlotStates]
      /\ attempts' \in [Jobs -> 0..MaxAttempts]
      /\ Others(p)
      /\ \/ /\ call'[p].step \in {"idle", "over", "loop"}
            /\ call'[p].todo \subseteq call[p].todo
         \/ /\ p \in Jobs
            /\ call'[p].step = "queued"
            /\ call'[p].x = call[p].x
            /\ call'[p].todo = {}
      /\ \A j \in Jobs \ {p} : attempts'[j] = attempts[j]
      /\ p \in Jobs => /\ call'[p].step \in {"over", "queued"}
                       /\ call'[p].step = "queued" => attempts'[p] < MaxAttempts
    BY ThrowMoves DEF PaymentInv
<1>2. TypeOK'
    BY <1>1 DEF TypeOK, rows, PaymentInv
<1>3. Learns
    <2>1. ASSUME NEW x \in Payments, p \in Jobs, call[p].x = x
          PROVE  session[x] = "paid"
        <3>1. At(p, call[p].step, x)
            BY <2>1 DEF At
        <3>2. call[p].step \in {"queued", "settle", "claim", "grant"}
            BY <2>1, JobSteps
        <3>3. Settling(p, x)
            BY <3>1, <3>2 DEF Settling
        <3> QED
            BY <3>3 DEF PaymentInv, SlotInv, Relies
    <2> QED
        BY <1>1, <2>1, OneLearns DEF Creating, Settling, Voiding, At
<1>4. BatchInv'
    BY <1>1, BatchKeeps DEF PaymentInv
<1>5. JobInv'
    <2> SUFFICES ASSUME NEW j \in Jobs
                 PROVE  /\ call'[j].step \in {"idle", "over", "queued", "settle",
                                              "claim", "grant"}
                        /\ call'[j].step # "over" => attempts'[j] < MaxAttempts
        BY DEF JobInv
    <2>1. CASE j = p
        BY <1>1, <2>1
    <2>2. CASE j # p
        BY <1>1, <2>2 DEF PaymentInv, JobInv, Others, Slots
    <2> QED
        BY <2>1, <2>2
<1> QED
    BY <1>2, <1>3, <1>4, <1>5, LearnsKeeps

LEMMA SettleReadKeeps ==
    ASSUME PaymentInv, NEW p \in Slots, NEW x \in Payments, SettleRead(p, x)
    PROVE  PaymentInv'
<1>1. UNCHANGED <<rows, session, faults>> /\ At(p, "settle", x)
    BY DEF SettleRead
<1>2. session[x] = "paid"
    BY <1>1 DEF PaymentInv, SlotInv, Relies, Settling
<1>3. CASE status[x] = "PROCESSING"
    BY <1>1, <1>2, <1>3, MoveKeeps DEF SettleRead, At, Steps
<1>4. CASE status[x] = "PAID"
    BY <1>1, <1>4, DoneKeeps DEF SettleRead, At
<1>5. CASE status[x] \notin {"PROCESSING", "PAID"}
    \* a paid session has no such row
    BY <1>2, <1>5 DEF PaymentInv, RowInv
<1> QED
    BY <1>3, <1>4, <1>5

LEMMA FailKeeps ==
    ASSUME PaymentInv, NEW p \in Slots, Fail(p)
    PROVE  PaymentInv'
<1>1. faults' \in 0..MaxFaults
    BY BoundsAssumption DEF Fail, PaymentInv, TypeOK
<1> QED
    BY <1>1, ThrowKeeps DEF Fail

LEMMA CrashKeeps ==
    ASSUME PaymentInv, Crash
    PROVE  PaymentInv'
<1>1. /\ UNCHANGED <<rows, session, attempts>>
      /\ faults' \in 0..MaxFaults
    BY BoundsAssumption DEF Crash, PaymentInv, TypeOK
<1>2. ASSUME NEW p \in Slots
      PROVE  /\ call'[p] \in SlotStates
             /\ call'[p].step \in {"idle", "over", "queued"}
             /\ call'[p].todo = {} \/ call'[p] = call[p]
             /\ p \in Jobs /\ call'[p].step # "over" => call[p].step # "over"
             /\ call'[p].step = "queued" =>
                    /\ p \in Jobs
                    /\ call[p].step \notin {"idle", "over"}
                    /\ call'[p].x = call[p].x
    <2> DEFINE queued == [step |-> "queued", x |-> call[p].x, todo |-> {}]
    <2>1. /\ call'[p] = IF p \in Jobs
                        THEN IF call[p].step \in {"idle", "over"} THEN call[p]
                             ELSE queued
                        ELSE Idle
          /\ call[p] \in SlotStates
        BY DEF Crash, PaymentInv, TypeOK
    <2>2. CASE p \notin Jobs
        BY <2>1, <2>2 DEF SlotStates, Idle, Steps
    <2>3. CASE p \in Jobs /\ call[p].step \in {"idle", "over"}
        BY <2>1, <2>3
    <2>4. CASE p \in Jobs /\ call[p].step \notin {"idle", "over"}
        BY <2>1, <2>4 DEF SlotStates, Steps
    <2> QED
        BY <2>2, <2>3, <2>4
<1>3. call' \in [Slots -> SlotStates]
    <2>1. call' = [p \in Slots |-> call'[p]]
        BY DEF Crash
    <2> QED
        BY <1>2, <2>1
<1>4. TypeOK'
    BY <1>1, <1>3 DEF TypeOK, rows, PaymentInv
<1>5. Learns
    <2> SUFFICES ASSUME NEW q \in Slots, NEW x \in Payments
                 PROVE  /\ ~Creating(q, x)' /\ ~At(q, "grant", x)'
                        /\ ~At(q, "goneSeen", x)' /\ ~Voiding(q, x)'
                        /\ Settling(q, x)' => session[x] = "paid"
        BY <1>1 DEF Learns
    <2>1. call'[q].step \in {"idle", "over", "queued"}
        BY <1>2
    <2>2. ASSUME Settling(q, x)'
          PROVE  session[x] = "paid"
        <3>1. call'[q].step = "queued" /\ call'[q].x = x
            BY <2>1, <2>2 DEF Settling, At
        <3>2. q \in Jobs /\ call[q].step \notin {"idle", "over"} /\ call[q].x = x
            BY <1>2, <3>1
        <3>3. call[q].step \in {"queued", "settle", "claim", "grant"}
            BY <3>2, JobSteps
        <3>4. Settling(q, x)
            BY <3>2, <3>3 DEF Settling, At
        <3> QED
            BY <3>4 DEF PaymentInv, SlotInv, Relies
    <2> QED
        BY <2>1, <2>2 DEF Creating, Voiding, At
<1>6. BatchInv'
    <2>1. Cleaner \in Slots \ Jobs /\ Reconciler \in Slots \ Jobs
        BY CronAssumption DEF Slots, Crons
    <2> QED
        BY <1>1, <1>2, <2>1 DEF PaymentInv, BatchInv, rows
<1>7. JobInv'
    BY <1>1, <1>2 DEF PaymentInv, JobInv, Slots
<1> QED
    BY <1>4, <1>5, <1>6, <1>7, LearnsKeeps

\* The crons are slots of their own, and no jobs.
LEMMA CronSlots ==
    /\ Reconciler \in Slots /\ Reconciler \notin Jobs
    /\ Cleaner \in Slots /\ Cleaner \notin Jobs
    /\ Reconciler # Cleaner
BY CronAssumption DEF Slots, Crons

LEMMA DeliverKeeps ==
    ASSUME PaymentInv, NEW j \in Jobs, NEW x \in Payments, Deliver(j, x)
    PROVE  PaymentInv'
<1> DEFINE s == [step |-> "queued", x |-> x, todo |-> {}]
<1>1. /\ j \in Slots /\ s \in SlotStates
      /\ call[j].step = "idle" /\ session[x] = "paid"
      /\ UNCHANGED <<rows, session, attempts, faults>>
    BY DEF Slots, SlotStates, Steps, Deliver, Idle
<1>2. /\ call' \in [Slots -> SlotStates]
      /\ call'[j] = s
      /\ Others(j)
    BY <1>1, GoMoves DEF Deliver, PaymentInv
<1>3. TypeOK'
    BY <1>1, <1>2 DEF TypeOK, rows, PaymentInv
<1>4. Learns
    BY <1>1, <1>2, OneLearns DEF Creating, Settling, Voiding, At
<1>5. BatchInv'
    BY <1>1, <1>2, BatchKeeps DEF PaymentInv
<1>6. JobInv'
    BY <1>1, <1>2, JobKeeps DEF PaymentInv
<1> QED
    BY <1>3, <1>4, <1>5, <1>6, LearnsKeeps

\* What a cron may go on with: a legal batch, and a payment that it may settle
\* or void.
LEMMA CronKeeps ==
    ASSUME PaymentInv, UNCHANGED <<rows, session, attempts, faults>>,
           NEW p \in Crons, NEW s \in SlotStates, Go(p, s),
           p = Cleaner => \A x \in s.todo : ~linked[x] /\ age[x] = "day",
           p = Reconciler => \A x \in s.todo : linked[x],
           s.step \in {"idle", "loop", "settle", "void"},
           s.step = "settle" => session[s.x] = "paid",
           s.step = "void" => \/ linked[s.x] /\ session[s.x] = "gone"
                              \/ ~linked[s.x] /\ age[s.x] = "day"
    PROVE  PaymentInv'
<1>1. p \in Slots /\ p \notin Jobs
    BY CronSlots DEF Crons
<1>2. /\ call' \in [Slots -> SlotStates]
      /\ call'[p] = s
      /\ Others(p)
    BY <1>1, GoMoves DEF PaymentInv
<1>3. TypeOK'
    BY <1>2 DEF TypeOK, rows, PaymentInv
<1>4. Learns
    BY <1>1, <1>2, OneLearns DEF Creating, Settling, Voiding, At
<1>5. BatchInv'
    BY <1>2, CronSlots DEF PaymentInv, BatchInv, rows, Others, Crons
<1>6. JobInv'
    BY <1>1, <1>2, JobKeeps DEF PaymentInv
<1> QED
    BY <1>3, <1>4, <1>5, <1>6, LearnsKeeps

LEMMA ReconcileListKeeps ==
    ASSUME PaymentInv, ReconcileList
    PROVE  PaymentInv'
<1>1. PICK S \in SUBSET {x \in Payments :
                status[x] \in Active /\ linked[x] /\ age[x] # "fresh"} :
            Go(Reconciler, [step |-> "loop", x |-> None, todo |-> S])
    BY DEF ReconcileList
<1> DEFINE s == [step |-> "loop", x |-> None, todo |-> S]
<1>2. s \in SlotStates
    BY DEF SlotStates, Steps
<1>3. UNCHANGED <<rows, session, attempts, faults>>
    BY DEF ReconcileList
<1> QED
    BY <1>1, <1>2, <1>3, CronKeeps, CronSlots DEF Crons

LEMMA CleanupListKeeps ==
    ASSUME PaymentInv, CleanupList
    PROVE  PaymentInv'
<1> DEFINE stale == {x \in Payments :
                status[x] = "PENDING" /\ age[x] = "day" /\ ~linked[x]}
           s == [step |-> "loop", x |-> None, todo |-> stale]
<1>1. s \in SlotStates
    BY DEF SlotStates, Steps
<1>2. UNCHANGED <<rows, session, attempts, faults>> /\ Go(Cleaner, s)
    BY DEF CleanupList
<1> QED
    BY <1>1, <1>2, CronKeeps, CronSlots DEF Crons

LEMMA ReconcileOneKeeps ==
    ASSUME PaymentInv, NEW x \in Payments, ReconcileOne(x)
    PROVE  PaymentInv'
<1> DEFINE left == call[Reconciler].todo \ {x}
           at(step) == [step |-> step, x |-> x, todo |-> left]
           on == IF left = {} THEN Idle
                 ELSE [step |-> "loop", x |-> None, todo |-> left]
<1>1. /\ UNCHANGED <<rows, session, attempts, faults>>
      /\ x \in call[Reconciler].todo
    BY DEF ReconcileOne
<1>2. left \in SUBSET Payments
    BY SlotType, CronSlots DEF PaymentInv
<1>3. /\ at("settle") \in SlotStates /\ at("void") \in SlotStates
      /\ on \in SlotStates
    BY <1>2 DEF SlotStates, Steps, Idle
<1>4. linked[x] /\ \A y \in left : linked[y]
    BY <1>1 DEF PaymentInv, BatchInv
<1>5. CASE session[x] = "paid"
    <2>1. Go(Reconciler, at("settle"))
        BY <1>5 DEF ReconcileOne
    <2> QED
        BY <1>1, <1>3, <1>4, <1>5, <2>1, CronKeeps, CronSlots DEF Crons
<1>6. CASE session[x] = "gone"
    <2>1. Go(Reconciler, at("void"))
        BY <1>6 DEF ReconcileOne
    <2> QED
        BY <1>1, <1>3, <1>4, <1>6, <2>1, CronKeeps, CronSlots DEF Crons
<1>7. CASE session[x] \notin {"paid", "gone"}
    <2>1. Go(Reconciler, on)
        BY <1>7 DEF ReconcileOne
    <2>2. on.step \in {"idle", "loop"} /\ on.todo \subseteq left
        BY DEF Idle
    <2> QED
        BY <1>1, <1>3, <1>4, <2>1, <2>2, CronKeeps, CronSlots DEF Crons
<1> QED
    BY <1>5, <1>6, <1>7

LEMMA CleanupOneKeeps ==
    ASSUME PaymentInv, NEW x \in Payments, CleanupOne(x)
    PROVE  PaymentInv'
<1> DEFINE s == [step |-> "void", x |-> x, todo |-> call[Cleaner].todo \ {x}]
<1>1. /\ UNCHANGED <<rows, session, attempts, faults>>
      /\ x \in call[Cleaner].todo
      /\ Go(Cleaner, s)
    BY DEF CleanupOne
<1>2. s \in SlotStates
    BY SlotType, CronSlots DEF PaymentInv, SlotStates, Steps
<1>3. /\ ~linked[x] /\ age[x] = "day"
      /\ \A y \in s.todo : ~linked[y] /\ age[y] = "day"
    BY <1>1 DEF PaymentInv, BatchInv
<1> QED
    BY <1>1, <1>2, <1>3, CronKeeps, CronSlots DEF Crons

-----------------------------------------------------------------------------
(***************************************************************************)
(* Steps that write a row or happen at the provider.                       *)
(***************************************************************************)
\* A slot on another payment, or another slot, is where it was.
LEMMA SameAt ==
    ASSUME NEW q, call'[q] = call[q], NEW y
    PROVE  /\ \A s \in Steps : At(q, s, y)' <=> At(q, s, y)
           /\ Creating(q, y)' <=> Creating(q, y)
           /\ Settling(q, y)' <=> Settling(q, y)
           /\ Voiding(q, y)' <=> Voiding(q, y)
BY DEF At, Creating, Settling, Voiding, Steps

LEMMA CreateKeeps ==
    ASSUME PaymentInv, NEW p \in Users, NEW x \in Payments, NEW t \in Targets,
           Create(p, x, t)
    PROVE  PaymentInv'
<1> DEFINE s == [step |-> "created", x |-> x, todo |-> {}]
<1>1. /\ p \in Slots /\ p \notin Jobs /\ p \notin Crons
      /\ s \in SlotStates
    BY CronAssumption DEF Slots, Crons, SlotStates, Steps
<1>2. /\ call' \in [Slots -> SlotStates]
      /\ call'[p] = s
      /\ Others(p)
    BY <1>1, GoMoves DEF PaymentInv, Create
<1>3. /\ status[x] = "NONE"
      /\ \A y \in Payments : target[y] = t => status[y] \notin Active
      /\ status' = [status EXCEPT ![x] = "PENDING"]
      /\ target' = [target EXCEPT ![x] = t]
      /\ UNCHANGED <<linked, age, session, grants, attempts, faults>>
    BY DEF Create
<1>4. TypeOK'
    BY <1>2, <1>3 DEF TypeOK, PaymentInv
<1>5. JobInv'
    BY <1>1, <1>2, <1>3, JobKeeps DEF PaymentInv
<1>6. RowInv'
    BY <1>3 DEF PaymentInv, TypeOK, RowInv
<1>7. SlotInv'
    <2> SUFFICES ASSUME NEW q \in Slots, NEW y \in Payments
                 PROVE  Relies(q, y)'
        BY DEF SlotInv
    <2>1. CASE q = p
        BY <1>2, <1>3, <2>1
        DEF PaymentInv, TypeOK, RowInv, Relies, Creating, Settling, Voiding, At
    <2>2. CASE q # p
        <3>1. call'[q] = call[q]
            BY <1>2, <2>2 DEF Others
        <3> QED
            BY <1>3, <3>1, SameAt DEF PaymentInv, TypeOK, SlotInv, Relies, Steps
    <2> QED
        BY <2>1, <2>2
<1>8. BatchInv'
    BY <1>1, <1>2, <1>3, CronSlots DEF PaymentInv, BatchInv, Others, Crons
<1>9. AloneInv'
    <2>1. \A q \in Slots : ~Creating(q, x) /\ ~At(q, "grant", x)
        BY <1>3 DEF PaymentInv, SlotInv, Relies
    <2>2. \A q \in Slots \ {p}, y \in Payments :
            /\ Creating(q, y)' <=> Creating(q, y)
            /\ At(q, "grant", y)' <=> At(q, "grant", y)
        BY <1>2, SameAt DEF Others, Steps
    <2>3. \A y \in Payments : ~At(p, "grant", y)' /\ (Creating(p, y)' => y = x)
        BY <1>2 DEF At, Creating
    <2> QED
        BY <2>1, <2>2, <2>3 DEF PaymentInv, AloneInv
<1>10. OneActivePerTarget'
    BY <1>3 DEF PaymentInv, TypeOK, OneActivePerTarget
<1> QED
    BY <1>4, <1>5, <1>6, <1>7, <1>8, <1>9, <1>10 DEF PaymentInv

\* A step after which nobody creates or activates who did not before.
LEMMA AloneKeeps ==
    ASSUME AloneInv,
           \A q \in Slots, y \in Payments :
            /\ Creating(q, y)' => Creating(q, y)
            /\ At(q, "grant", y)' => At(q, "grant", y)
    PROVE  AloneInv'
BY DEF AloneInv

LEMMA OpenSessionKeeps ==
    ASSUME PaymentInv, NEW p \in Slots, NEW x \in Payments, OpenSession(p, x)
    PROVE  PaymentInv'
<1>1. /\ At(p, "created", x)
      /\ session' = [session EXCEPT ![x] = "unpaid"]
      /\ UNCHANGED <<rows, attempts, faults>>
    BY DEF OpenSession
<1>2. /\ call' \in [Slots -> SlotStates]
      /\ call'[p].step = "opened"
      /\ call'[p].x = x
      /\ call'[p].todo = call[p].todo
      /\ Others(p)
    BY <1>1, MoveMoves DEF PaymentInv, OpenSession, Steps, At
<1>3. p \notin Jobs
    BY <1>1, JobSteps DEF At
<1>4. /\ Creating(p, x) /\ ~linked[x] /\ status[x] = "PENDING" /\ age[x] # "day"
      /\ p \in Users
    BY <1>1 DEF PaymentInv, SlotInv, Relies, Creating
<1>5. TypeOK'
    BY <1>1, <1>2 DEF TypeOK, rows, PaymentInv
<1>6. JobInv'
    BY <1>1, <1>2, <1>3, JobKeeps DEF PaymentInv
<1>7. RowInv'
    BY <1>1, <1>4 DEF PaymentInv, TypeOK, RowInv, rows
<1>8. SlotInv'
    <2> SUFFICES ASSUME NEW q \in Slots, NEW y \in Payments
                 PROVE  Relies(q, y)'
        BY DEF SlotInv
    <2>1. CASE q = p
        BY <1>1, <1>2, <1>4, <2>1 DEF rows, Relies, Creating, Settling, Voiding, At
    <2>2. CASE q # p
        <3>1. call'[q] = call[q]
            BY <1>2, <2>2 DEF Others
        <3>2. Relies(q, y) /\ (session[x] = "paid" => linked[x])
            BY DEF PaymentInv, SlotInv, RowInv
        <3> QED
            BY <1>1, <1>4, <3>1, <3>2, SameAt DEF PaymentInv, TypeOK, Relies, Steps, rows
    <2> QED
        BY <2>1, <2>2
<1>9. BatchInv'
    BY <1>1, <1>2, BatchKeeps DEF PaymentInv
<1>10. AloneInv'
    <2>1. \A q \in Slots, y \in Payments :
            /\ Creating(q, y)' => Creating(q, y)
            /\ At(q, "grant", y)' => At(q, "grant", y)
        BY <1>1, <1>2 DEF Creating, At, Others
    <2> QED
        BY <2>1, AloneKeeps DEF PaymentInv
<1>11. OneActivePerTarget'
    BY <1>1 DEF PaymentInv, OneActivePerTarget, rows
<1> QED
    BY <1>5, <1>6, <1>7, <1>8, <1>9, <1>10, <1>11 DEF PaymentInv

LEMMA LinkKeeps ==
    ASSUME PaymentInv, NEW p \in Slots, NEW x \in Payments, Link(p, x)
    PROVE  PaymentInv'
<1>1. /\ At(p, "opened", x)
      /\ status' = [status EXCEPT ![x] = "PROCESSING"]
      /\ linked' = [linked EXCEPT ![x] = TRUE]
      /\ UNCHANGED <<target, age, session, grants, attempts, faults>>
    BY DEF Link
<1>2. /\ call' \in [Slots -> SlotStates]
      /\ call'[p].step \in {"idle", "over", "loop"}
      /\ call'[p].todo \subseteq call[p].todo
      /\ Others(p)
    BY DoneMoves DEF PaymentInv, Link
<1>3. p \notin Jobs
    BY <1>1, JobSteps DEF At
<1>4. /\ Creating(p, x) /\ ~linked[x] /\ status[x] = "PENDING" /\ age[x] # "day"
      /\ p \in Users
    BY <1>1 DEF PaymentInv, SlotInv, Relies, Creating
<1>5. TypeOK'
    BY <1>1, <1>2 DEF TypeOK, PaymentInv
<1>6. JobInv'
    BY <1>1, <1>2, <1>3, JobKeeps DEF PaymentInv
<1>7. RowInv'
    BY <1>1, <1>4 DEF PaymentInv, TypeOK, RowInv
<1>8. SlotInv'
    <2> SUFFICES ASSUME NEW q \in Slots, NEW y \in Payments
                 PROVE  Relies(q, y)'
        BY DEF SlotInv
    <2>1. CASE q = p
        BY <1>2, <2>1 DEF Relies, Creating, Settling, Voiding, At
    <2>2. CASE q # p
        <3>1. call'[q] = call[q]
            BY <1>2, <2>2 DEF Others
        <3>2. ~Creating(q, x)
            BY <1>4, <2>2 DEF PaymentInv, AloneInv
        <3>3. Relies(q, y)
            BY DEF PaymentInv, SlotInv
        <3> QED
            BY <1>1, <1>4, <3>1, <3>2, <3>3, SameAt DEF PaymentInv, TypeOK, Relies, Steps
    <2> QED
        BY <2>1, <2>2
<1>9. BatchInv'
    <2>1. /\ call'[Cleaner].todo \subseteq call[Cleaner].todo
          /\ call'[Reconciler].todo \subseteq call[Reconciler].todo
        BY <1>2, CronSlots DEF Others
    <2>2. call[Cleaner].todo \subseteq Payments /\ call[Reconciler].todo \subseteq Payments
        BY SlotType, CronSlots DEF PaymentInv
    <2> QED
        BY <1>1, <1>4, <2>1, <2>2 DEF PaymentInv, TypeOK, BatchInv
<1>10. AloneInv'
    <2>1. \A q \in Slots, y \in Payments :
            /\ Creating(q, y)' => Creating(q, y)
            /\ At(q, "grant", y)' => At(q, "grant", y)
        BY <1>2 DEF Creating, At, Others
    <2> QED
        BY <2>1, AloneKeeps DEF PaymentInv
<1>11. OneActivePerTarget'
    BY <1>1, <1>4 DEF PaymentInv, TypeOK, OneActivePerTarget, Active
<1> QED
    BY <1>5, <1>6, <1>7, <1>8, <1>9, <1>10, <1>11 DEF PaymentInv

\* Steps outside the program: no slot moves.
LEMMA WorldKeeps ==
    ASSUME PaymentInv, NEW x \in Payments, Pay(x) \/ Lapse(x) \/ Age(x)
    PROVE  PaymentInv'
<1>1. UNCHANGED <<status, target, linked, grants, attempts, faults, call>>
    BY DEF Pay, Lapse, Age, rows
<1>2. TypeOK'
    BY <1>1 DEF PaymentInv, TypeOK, Pay, Lapse, Age, rows
<1>3. JobInv' /\ OneActivePerTarget'
    BY <1>1 DEF PaymentInv, JobInv, OneActivePerTarget
<1>4. AloneInv'
    BY <1>1, AloneKeeps DEF PaymentInv, Creating, At
<1>5. RowInv'
    BY <1>1 DEF PaymentInv, TypeOK, RowInv, Pay, Lapse, Age, rows
<1>6. \A y \in Payments :
        /\ session[y] \in {"paid", "gone"} => session'[y] = session[y]
        /\ age[y] = "day" => age'[y] = "day"
        /\ age'[y] = "day" => age[y] = "day" \/ \A p \in Users : ~Creating(p, y)
    BY DEF PaymentInv, TypeOK, Pay, Lapse, Age, rows, Creating
<1>7. SlotInv'
    <2> SUFFICES ASSUME NEW q \in Slots, NEW y \in Payments
                 PROVE  Relies(q, y)'
        BY DEF SlotInv
    <2>1. call'[q] = call[q] /\ Relies(q, y)
        BY <1>1 DEF PaymentInv, SlotInv
    <2> QED
        BY <1>1, <1>6, <2>1, SameAt DEF Relies, Steps
<1>8. BatchInv'
    <2>1. call[Cleaner].todo \subseteq Payments
        BY SlotType, CronSlots DEF PaymentInv
    <2> QED
        BY <1>1, <1>6, <2>1 DEF PaymentInv, BatchInv
<1> QED
    BY <1>2, <1>3, <1>4, <1>5, <1>7, <1>8 DEF PaymentInv

\* The winner of the update: the row was PROCESSING, so nobody else is at the
\* activation, and nothing was activated before.
LEMMA SettleWriteKeeps ==
    ASSUME PaymentInv, NEW p \in Slots, NEW x \in Payments, SettleWrite(p, x)
    PROVE  PaymentInv'
<1>1. /\ At(p, "claim", x)
      /\ UNCHANGED <<target, linked, age, session, grants, attempts, faults>>
    BY DEF SettleWrite
<1>2. session[x] = "paid" /\ linked[x]
    BY <1>1 DEF PaymentInv, SlotInv, Relies, RowInv, Settling
<1>3. CASE status[x] # "PROCESSING"
    <2>1. Done(p) /\ UNCHANGED <<rows, session, attempts, faults>>
        BY <1>3 DEF SettleWrite, rows
    <2> QED
        BY <1>1, <2>1, DoneKeeps DEF At
<1>4. CASE status[x] = "PROCESSING"
    <2>1. status' = [status EXCEPT ![x] = "PAID"] /\ Move(p, "grant")
        BY <1>4 DEF SettleWrite
    <2>2. /\ call' \in [Slots -> SlotStates]
          /\ call'[p].step = "grant"
          /\ call'[p].x = x
          /\ call'[p].todo = call[p].todo
          /\ Others(p)
        BY <1>1, <2>1, MoveMoves DEF PaymentInv, Steps, At
    <2>3. grants[x] = 0
        BY <1>4 DEF PaymentInv, TypeOK, RowInv
    <2>4. \A q \in Slots : ~Creating(q, x) /\ ~At(q, "grant", x) /\ ~Voiding(q, x)
        BY <1>2, <1>4 DEF PaymentInv, SlotInv, Relies
    <2>5. TypeOK'
        BY <1>1, <2>1, <2>2 DEF TypeOK, PaymentInv
    <2>6. JobInv'
        BY <1>1, <2>2, JobKeeps DEF PaymentInv, At
    <2>7. RowInv'
        BY <1>1, <1>2, <2>1, <2>3 DEF PaymentInv, TypeOK, RowInv
    <2>8. SlotInv'
        <3> SUFFICES ASSUME NEW q \in Slots, NEW y \in Payments
                     PROVE  Relies(q, y)'
            BY DEF SlotInv
        <3>1. CASE q = p
            BY <1>1, <1>2, <2>1, <2>2, <2>3, <3>1
            DEF PaymentInv, TypeOK, Relies, Creating, Settling, Voiding, At
        <3>2. CASE q # p
            <4>1. call'[q] = call[q] /\ Relies(q, y)
                BY <2>2, <3>2 DEF Others, PaymentInv, SlotInv
            <4> QED
                BY <1>1, <2>1, <2>4, <4>1, SameAt DEF PaymentInv, TypeOK, Relies, Steps
        <3> QED
            BY <3>1, <3>2
    <2>9. BatchInv'
        BY <1>1, <2>2, CronSlots DEF PaymentInv, BatchInv, Others
    <2>10. AloneInv'
        <3>1. \A q \in Slots, y \in Payments :
                /\ Creating(q, y)' => Creating(q, y)
                /\ At(q, "grant", y)' => At(q, "grant", y) \/ (q = p /\ y = x)
            BY <2>2 DEF Creating, At, Others
        <3> QED
            BY <2>4, <3>1 DEF PaymentInv, AloneInv
    <2>11. OneActivePerTarget'
        BY <1>1, <2>1 DEF PaymentInv, TypeOK, OneActivePerTarget, Active
    <2> QED
        BY <2>5, <2>6, <2>7, <2>8, <2>9, <2>10, <2>11 DEF PaymentInv
<1> QED
    BY <1>3, <1>4

LEMMA GrantKeeps ==
    ASSUME PaymentInv, NEW p \in Slots, NEW x \in Payments, Grant(p, x)
    PROVE  PaymentInv'
<1>1. /\ At(p, "grant", x)
      /\ grants' = [grants EXCEPT ![x] = @ + 1]
      /\ UNCHANGED <<status, target, linked, age, session, attempts, faults>>
    BY DEF Grant
<1>2. /\ call' \in [Slots -> SlotStates]
      /\ call'[p].step \in {"idle", "over", "loop"}
      /\ call'[p].todo \subseteq call[p].todo
      /\ p \in Jobs => call'[p].step = "over"
      /\ Others(p)
    BY DoneMoves DEF PaymentInv, Grant
<1>3. status[x] = "PAID" /\ grants[x] = 0
    BY <1>1 DEF PaymentInv, SlotInv, Relies
<1>4. TypeOK'
    BY <1>1, <1>2 DEF TypeOK, PaymentInv
<1>5. JobInv'
    BY <1>1, <1>2, JobKeeps DEF PaymentInv
<1>6. RowInv'
    BY <1>1, <1>3 DEF PaymentInv, TypeOK, RowInv
<1>7. SlotInv'
    <2> SUFFICES ASSUME NEW q \in Slots, NEW y \in Payments
                 PROVE  Relies(q, y)'
        BY DEF SlotInv
    <2>1. CASE q = p
        BY <1>2, <2>1 DEF Relies, Creating, Settling, Voiding, At
    <2>2. CASE q # p
        <3>1. call'[q] = call[q] /\ Relies(q, y)
            BY <1>2, <2>2 DEF Others, PaymentInv, SlotInv
        <3>2. ~At(q, "grant", x)
            BY <1>1, <2>2 DEF PaymentInv, AloneInv
        <3> QED
            BY <1>1, <3>1, <3>2, SameAt DEF PaymentInv, TypeOK, Relies, Steps
    <2> QED
        BY <2>1, <2>2
<1>8. BatchInv'
    BY <1>1, <1>2, CronSlots DEF PaymentInv, BatchInv, Others
<1>9. AloneInv'
    <2>1. \A q \in Slots, y \in Payments :
            /\ Creating(q, y)' => Creating(q, y)
            /\ At(q, "grant", y)' => At(q, "grant", y)
        BY <1>2 DEF Creating, At, Others
    <2> QED
        BY <2>1, AloneKeeps DEF PaymentInv
<1>10. OneActivePerTarget'
    BY <1>1 DEF PaymentInv, OneActivePerTarget
<1> QED
    BY <1>4, <1>5, <1>6, <1>7, <1>8, <1>9, <1>10 DEF PaymentInv

\* The write by id is harmless: whoever got here holds a payment whose session
\* is gone or that nobody will ever link, so it is not a paid one.
LEMMA VoidWriteKeeps ==
    ASSUME PaymentInv, NEW p \in Slots, NEW x \in Payments, VoidWrite(p, x)
    PROVE  PaymentInv'
<1>1. /\ At(p, "expire", x)
      /\ status' = [status EXCEPT ![x] = "EXPIRED"]
      /\ UNCHANGED <<target, linked, age, session, grants, attempts, faults>>
    BY DEF VoidWrite
<1>2. /\ call' \in [Slots -> SlotStates]
      /\ call'[p].step \in {"idle", "over", "loop"}
      /\ call'[p].todo \subseteq call[p].todo
      /\ p \in Jobs => call'[p].step = "over"
      /\ Others(p)
    BY DoneMoves DEF PaymentInv, VoidWrite
<1>3. \/ linked[x] /\ session[x] = "gone"
      \/ ~linked[x] /\ age[x] = "day"
    BY <1>1 DEF PaymentInv, SlotInv, Relies, Voiding
<1>4. status[x] # "PAID" /\ session[x] # "paid" /\ ~(session[x] = "unpaid" /\ linked[x])
    BY <1>3 DEF PaymentInv, RowInv
<1>5. TypeOK'
    BY <1>1, <1>2 DEF TypeOK, PaymentInv
<1>6. JobInv'
    BY <1>1, <1>2, JobKeeps DEF PaymentInv
<1>7. RowInv'
    BY <1>1, <1>4 DEF PaymentInv, TypeOK, RowInv
<1>8. SlotInv'
    <2> SUFFICES ASSUME NEW q \in Slots, NEW y \in Payments
                 PROVE  Relies(q, y)'
        BY DEF SlotInv
    <2>1. CASE q = p
        BY <1>2, <2>1 DEF Relies, Creating, Settling, Voiding, At
    <2>2. CASE q # p
        <3>1. call'[q] = call[q] /\ Relies(q, y)
            BY <1>2, <2>2 DEF Others, PaymentInv, SlotInv
        <3>2. ~Creating(q, x) /\ ~At(q, "grant", x)
            BY <1>3, <1>4 DEF PaymentInv, SlotInv, Relies
        <3> QED
            BY <1>1, <3>1, <3>2, SameAt DEF PaymentInv, TypeOK, Relies, Steps
    <2> QED
        BY <2>1, <2>2
<1>9. BatchInv'
    BY <1>1, <1>2, CronSlots DEF PaymentInv, BatchInv, Others
<1>10. AloneInv'
    <2>1. \A q \in Slots, y \in Payments :
            /\ Creating(q, y)' => Creating(q, y)
            /\ At(q, "grant", y)' => At(q, "grant", y)
        BY <1>2 DEF Creating, At, Others
    <2> QED
        BY <2>1, AloneKeeps DEF PaymentInv
<1>11. OneActivePerTarget'
    BY <1>1 DEF PaymentInv, TypeOK, OneActivePerTarget, Active
<1> QED
    BY <1>5, <1>6, <1>7, <1>8, <1>9, <1>10, <1>11 DEF PaymentInv

-----------------------------------------------------------------------------
(***************************************************************************)
(* The theorems.                                                           *)
(***************************************************************************)
LEMMA PaymentStart ==
    ASSUME Init
    PROVE  PaymentInv
<1>1. TypeOK
    BY BoundsAssumption DEF Init, TypeOK, SlotStates, Steps, Idle
<1>2. JobInv
    BY BoundsAssumption DEF Init, JobInv, Slots, Idle
<1>3. RowInv /\ OneActivePerTarget
    BY DEF Init, RowInv, OneActivePerTarget
<1>4. \A p \in Slots : call[p].step = "idle" /\ call[p].todo = {}
    BY DEF Init, Idle
<1>5. SlotInv /\ AloneInv
    BY <1>4 DEF SlotInv, AloneInv, Relies, Creating, Settling, Voiding, At
<1>6. BatchInv
    BY <1>4, CronSlots DEF BatchInv
<1> QED
    BY <1>1, <1>2, <1>3, <1>5, <1>6 DEF PaymentInv

LEMMA PaymentStep ==
    ASSUME PaymentInv, [Next]_vars
    PROVE  PaymentInv'
<1>1. ASSUME NEW p \in Users, NEW x \in Payments, NEW t \in Targets, Create(p, x, t)
      PROVE  PaymentInv'
    BY <1>1, CreateKeeps
<1>2. ASSUME NEW p \in Users, NEW x \in Payments, VerifyFetch(p, x)
      PROVE  PaymentInv'
    BY <1>2, VerifyKeeps
<1>3. ASSUME NEW x \in Payments, Pay(x) \/ Lapse(x) \/ Age(x)
      PROVE  PaymentInv'
    BY <1>3, WorldKeeps
<1>4. ASSUME NEW j \in Jobs, NEW x \in Payments, Deliver(j, x) \/ HookRead(j, x)
      PROVE  PaymentInv'
    BY <1>4, DeliverKeeps, HookReadKeeps
<1>5. ASSUME NEW x \in Payments, ReconcileOne(x) \/ CleanupOne(x)
      PROVE  PaymentInv'
    BY <1>5, ReconcileOneKeeps, CleanupOneKeeps
<1>6. ASSUME ReconcileList \/ CleanupList
      PROVE  PaymentInv'
    BY <1>6, ReconcileListKeeps, CleanupListKeeps
<1>7. ASSUME NEW p \in Slots, NEW x \in Payments, Work(p, x)
      PROVE  PaymentInv'
    BY <1>7, OpenSessionKeeps, LinkKeeps, VerifyReadKeeps, SettleReadKeeps,
       SettleWriteKeeps, GrantKeeps, VoidReadKeeps, VoidWriteKeeps DEF Work
<1>8. ASSUME NEW p \in Slots, Fail(p)
      PROVE  PaymentInv'
    BY <1>8, FailKeeps
<1>9. CASE Crash
    BY <1>9, CrashKeeps
<1>10. CASE UNCHANGED vars
    BY <1>10 DEF vars, PaymentInv, TypeOK, JobInv, RowInv, SlotInv, Relies, BatchInv,
       AloneInv, OneActivePerTarget, Creating, Settling, Voiding, At
<1> QED
    BY <1>1, <1>2, <1>3, <1>4, <1>5, <1>6, <1>7, <1>8, <1>9, <1>10 DEF Next

\* Rows, sessions and slots keep to what they rely on.
THEOREM PaymentInvariant == Spec => []PaymentInv
<1>1. Init => PaymentInv
    BY PaymentStart
<1>2. PaymentInv /\ [Next]_vars => PaymentInv'
    BY PaymentStep
<1> QED
    BY <1>1, <1>2, PTL DEF Spec

\* Every row, slot and counter stays in its type; in particular no webhook job
\* is attempted more than MaxAttempts times.
THEOREM TypeCorrect == Spec => []TypeOK
<1>1. PaymentInv => TypeOK
    BY DEF PaymentInv
<1> QED
    BY <1>1, PaymentInvariant, PTL

\* Two payments for the same target are never open at once.
THEOREM OneActive == Spec => []OneActivePerTarget
<1>1. PaymentInv => OneActivePerTarget
    BY DEF PaymentInv
<1> QED
    BY <1>1, PaymentInvariant, PTL

\* A payment is activated at most once.
THEOREM ActivatedOnce == Spec => []GrantedOnce
<1>1. PaymentInv => GrantedOnce
    BY DEF PaymentInv, RowInv, GrantedOnce
<1> QED
    BY <1>1, PaymentInvariant, PTL

\* What is activated was paid for at the provider and recorded as PAID.
THEOREM ActivatedWasPaid == Spec => []GrantedWasPaid
<1>1. PaymentInv => GrantedWasPaid
    BY DEF PaymentInv, RowInv, GrantedWasPaid
<1> QED
    BY <1>1, PaymentInvariant, PTL

\* The row of a paid session is never expired, although markExpired writes by
\* id what it read before.
THEOREM PaidStaysOpen == Spec => []PaidNotWrittenOff
<1>1. PaymentInv => PaidNotWrittenOff
    BY DEF PaymentInv, RowInv, PaidNotWrittenOff
<1> QED
    BY <1>1, PaymentInvariant, PTL
-----------------------------------------------------------------------------
(***************************************************************************)
(* The contract.                                                           *)
(***************************************************************************)
State == [x \in Payments |-> Outcome(status[x])]
Paid  == [x \in Payments |-> session[x] = "paid"]

\* A step that changes no outcome, no money and no activation is a stutter.
LEMMA QuietStep ==
    ASSUME \A x \in Payments : Outcome(status[x])' = Outcome(status[x]),
           \A x \in Payments : (session[x] = "paid")' = (session[x] = "paid"),
           UNCHANGED <<target, grants>>
    PROVE  UNCHANGED Contract!contract
<1>1. State' = State
    BY DEF State
<1>2. Paid' = Paid
    BY DEF Paid
<1> QED
    BY <1>1, <1>2 DEF Contract!contract, State, Paid

LEMMA QuietRows ==
    ASSUME UNCHANGED rows,
           \A x \in Payments : (session[x] = "paid")' = (session[x] = "paid")
    PROVE  UNCHANGED Contract!contract
<1>1. \A x \in Payments : Outcome(status[x])' = Outcome(status[x])
    BY DEF rows, Outcome
<1> QED
    BY <1>1, QuietStep DEF rows

\* A step that changes the status of one row, as its outcome shows it.
LEMMA OneOutcome ==
    ASSUME PaymentInv, NEW x \in Payments, NEW s,
           status' = [status EXCEPT ![x] = s]
    PROVE  State' = [State EXCEPT ![x] = Outcome(s)]
<1>1. \A y \in Payments : status'[y] = IF y = x THEN s ELSE status[y]
    BY DEF PaymentInv, TypeOK
<1>2. \A y \in Payments :
        Outcome(status[y])' = IF y = x THEN Outcome(s) ELSE Outcome(status[y])
    BY <1>1 DEF Outcome
<1> QED
    BY <1>2 DEF State

LEMMA CreateKept ==
    ASSUME PaymentInv, NEW p \in Users, NEW x \in Payments, NEW t \in Targets,
           Create(p, x, t)
    PROVE  Contract!Next
<1>1. State' = [State EXCEPT ![x] = "open"]
    BY OneOutcome DEF Create, Outcome, Active
<1>2. Paid' = Paid
    BY DEF Create, Paid
<1>3. State[x] = "none"
    BY DEF Create, State, Outcome, Active
<1>4. \A y \in Payments : target[y] = t => State[y] # "open"
    BY DEF Create, State, Outcome
<1>5. target' = [target EXCEPT ![x] = t] /\ grants' = grants
    BY DEF Create
<1>6. Contract!Ask(x, t)
    BY <1>1, <1>2, <1>3, <1>4, <1>5 DEF Contract!Ask, State, Paid
<1> QED
    BY <1>6 DEF Contract!Next

LEMMA PayKept ==
    ASSUME PaymentInv, NEW x \in Payments, Pay(x)
    PROVE  Contract!Next
<1>1. State[x] = "open" /\ ~Paid[x]
    BY DEF Pay, PaymentInv, RowInv, State, Paid, Outcome, Active
<1>2. Paid' = [Paid EXCEPT ![x] = TRUE]
    BY DEF Pay, Paid, PaymentInv, TypeOK
<1>3. State' = State /\ target' = target /\ grants' = grants
    BY DEF Pay, State, rows
<1>4. Contract!Pay(x)
    BY <1>1, <1>2, <1>3 DEF Contract!Pay, State, Paid
<1> QED
    BY <1>4 DEF Contract!Next

LEMMA SettleKept ==
    ASSUME PaymentInv, NEW p \in Slots, NEW x \in Payments, SettleWrite(p, x)
    PROVE  Contract!Next \/ UNCHANGED Contract!contract
<1>1. CASE status[x] = "PROCESSING"
    <2>1. State' = [State EXCEPT ![x] = "paid"]
        BY <1>1, OneOutcome DEF SettleWrite, Outcome, Active
    <2>2. State[x] = "open" /\ Paid[x]
        BY <1>1 DEF SettleWrite, PaymentInv, SlotInv, Relies, Settling, State, Paid,
           Outcome, Active
    <2>3. Paid' = Paid /\ target' = target /\ grants' = grants
        BY DEF SettleWrite, Paid
    <2>4. Contract!Settle(x)
        BY <2>1, <2>2, <2>3 DEF Contract!Settle, State, Paid
    <2> QED
        BY <2>4 DEF Contract!Next
<1>2. CASE status[x] # "PROCESSING"
    BY <1>2, QuietRows DEF SettleWrite, rows
<1> QED
    BY <1>1, <1>2

LEMMA GrantKept ==
    ASSUME PaymentInv, NEW p \in Slots, NEW x \in Payments, Grant(p, x)
    PROVE  Contract!Next
<1>1. status[x] = "PAID" /\ grants[x] = 0
    BY DEF Grant, PaymentInv, SlotInv, Relies
<1>2. grants' = [grants EXCEPT ![x] = 1]
    BY <1>1 DEF Grant, PaymentInv, TypeOK
<1>3. State[x] = "paid"
    BY <1>1 DEF State, Outcome, Active
<1>4. State' = State /\ Paid' = Paid /\ target' = target
    BY DEF Grant, State, Paid
<1>5. Contract!Grant(x)
    BY <1>1, <1>2, <1>3, <1>4 DEF Contract!Grant, State, Paid
<1> QED
    BY <1>5 DEF Contract!Next

\* markExpired drops an open payment that nobody can have paid, or writes what
\* the row says already.
LEMMA VoidKept ==
    ASSUME PaymentInv, NEW p \in Slots, NEW x \in Payments, VoidWrite(p, x)
    PROVE  Contract!Next \/ UNCHANGED Contract!contract
<1>1. \/ linked[x] /\ session[x] = "gone"
      \/ ~linked[x] /\ age[x] = "day"
    BY DEF VoidWrite, PaymentInv, SlotInv, Relies, Voiding
<1>2. session[x] # "paid" /\ status[x] \notin {"PAID", "NONE"}
    BY <1>1 DEF PaymentInv, RowInv
<1>3. State' = [State EXCEPT ![x] = "void"]
    <2>1. Outcome("EXPIRED") = "void"
        BY DEF Outcome, Active
    <2> QED
        BY <2>1, OneOutcome DEF VoidWrite
<1>4. Paid' = Paid /\ target' = target /\ grants' = grants
    BY DEF VoidWrite, Paid
<1>5. CASE status[x] \in Active
    <2>1. State[x] = "open" /\ ~Paid[x]
        BY <1>2, <1>5 DEF State, Paid, Outcome, Active
    <2>2. Contract!Void(x)
        BY <1>3, <1>4, <2>1 DEF Contract!Void, State, Paid
    <2> QED
        BY <2>2 DEF Contract!Next
<1>6. CASE status[x] \notin Active
    <2>1. State[x] = "void"
        BY <1>2, <1>6 DEF State, Outcome
    <2>2. State' = State
        BY <1>3, <2>1 DEF State
    <2> QED
        BY <1>4, <2>2 DEF Contract!contract, State, Paid
<1> QED
    BY <1>5, <1>6

LEMMA WorkKept ==
    ASSUME PaymentInv, NEW p \in Slots, NEW x \in Payments, Work(p, x)
    PROVE  Contract!Next \/ UNCHANGED Contract!contract
<1>1. CASE OpenSession(p, x)
    <2>1. status[x] = "PENDING" /\ ~linked[x]
        BY <1>1 DEF OpenSession, PaymentInv, SlotInv, Relies, Creating
    <2>2. session[x] # "paid"
        BY <2>1 DEF PaymentInv, RowInv
    <2>3. \A y \in Payments : (session[y] = "paid")' = (session[y] = "paid")
        BY <1>1, <2>2 DEF OpenSession, PaymentInv, TypeOK
    <2> QED
        BY <1>1, <2>3, QuietRows DEF OpenSession
<1>2. CASE Link(p, x)
    <2>1. status[x] = "PENDING"
        BY <1>2 DEF Link, PaymentInv, SlotInv, Relies, Creating
    <2>2. \A y \in Payments : Outcome(status[y])' = Outcome(status[y])
        BY <1>2, <2>1 DEF Link, PaymentInv, TypeOK, Outcome, Active
    <2> QED
        BY <1>2, <2>2, QuietStep DEF Link
<1>3. CASE VerifyRead(p, x) \/ SettleRead(p, x) \/ VoidRead(p, x)
    BY <1>3, QuietRows DEF VerifyRead, SettleRead, VoidRead
<1> QED
    BY <1>1, <1>2, <1>3, SettleKept, GrantKept, VoidKept DEF Work

LEMMA StepKept ==
    ASSUME PaymentInv, [Next]_vars
    PROVE  Contract!Next \/ UNCHANGED Contract!contract
<1>1. ASSUME NEW x \in Payments, Lapse(x)
      PROVE  UNCHANGED Contract!contract
    <2>1. \A y \in Payments : (session[y] = "paid")' = (session[y] = "paid")
        BY <1>1 DEF Lapse, PaymentInv, TypeOK
    <2> QED
        BY <1>1, <2>1, QuietRows DEF Lapse
<1>2. ASSUME NEW x \in Payments, Age(x)
      PROVE  UNCHANGED Contract!contract
    <2>1. \A y \in Payments : Outcome(status[y])' = Outcome(status[y])
        BY <1>2 DEF Age, Outcome
    <2> QED
        BY <1>2, <2>1, QuietStep DEF Age
<1>3. ASSUME NEW x \in Payments,
             \/ \E p \in Users : VerifyFetch(p, x)
             \/ \E j \in Jobs : Deliver(j, x) \/ HookRead(j, x)
             \/ ReconcileOne(x) \/ CleanupOne(x)
      PROVE  UNCHANGED Contract!contract
    BY <1>3, QuietRows DEF VerifyFetch, Deliver, HookRead, ReconcileOne, CleanupOne
<1>4. CASE ReconcileList \/ CleanupList
    BY <1>4, QuietRows DEF ReconcileList, CleanupList
<1>5. ASSUME NEW p \in Slots, Fail(p)
      PROVE  UNCHANGED Contract!contract
    BY <1>5, QuietRows DEF Fail
<1>6. CASE Crash
    BY <1>6, QuietRows DEF Crash
<1>7. CASE UNCHANGED vars
    BY <1>7, QuietRows DEF vars, rows
<1> QED
    BY <1>1, <1>2, <1>3, <1>4, <1>5, <1>6, <1>7, CreateKept, PayKept, WorkKept DEF Next

\* The detailed flow implements the contract: buyer, webhooks, crons, retries
\* and failures together only ask, pay, settle, activate once or drop.
THEOREM ImplementsContract == Spec => KeepsContract
<1>1. Init => Contract!Init
    BY DEF Init, Contract!Init, Outcome, Active
<1>2. PaymentInv /\ [Next]_vars => [Contract!Next]_(Contract!contract)
    BY StepKept
<1> QED
    BY <1>1, <1>2, PaymentInvariant, PTL DEF Spec, KeepsContract, Contract!Spec
=============================================================================
