--------------------------- MODULE JobBoardProofs ---------------------------
(***************************************************************************)
(* Proofs about JobBoard, for any postings, applicants and replicas.       *)
(***************************************************************************)
EXTENDS JobBoard, TLAPS

\* A slot that moves to a legal position leaves all slots legal.
LEMMA GoType ==
    ASSUME TypeOK, NEW p \in Calls, NEW s \in CallStates, Go(p, s)
    PROVE  call' \in [Calls -> CallStates]
BY DEF TypeOK, Go

LEMMA DoneType ==
    ASSUME TypeOK, NEW p \in Calls, Done(p)
    PROVE  call' \in [Calls -> CallStates]
<1>1. Idle \in CallStates
    BY DEF CallStates
<1> QED
    BY <1>1, GoType DEF Done

\* Positions in the handlers of owners and applicants, and in the expiry.
LEMMA OwnerStates ==
    ASSUME NEW j \in Jobs, NEW s \in {"closeRead", "closed", "reject", "removeRead"}
    PROVE  [step |-> s, j |-> j] \in CallStates
BY DEF CallStates

LEMMA ApplicationStates ==
    ASSUME NEW j \in Jobs, NEW a \in Applicants, NEW to \in {"ACCEPTED", "REJECTED"}
    PROVE  /\ [step |-> "applyRead", j |-> j, a |-> a] \in CallStates
           /\ [step |-> "withdrawRead", j |-> j, a |-> a] \in CallStates
           /\ [step |-> "decideRead", j |-> j, a |-> a, to |-> to] \in CallStates
BY DEF CallStates

ExpirySteps == {"expiry", "toExpire", "expired", "notify", "release"}

LEMMA ExpiryStates ==
    ASSUME NEW js \in SUBSET Jobs, NEW s \in ExpirySteps
    PROVE  [step |-> s, jobs |-> js] \in CallStates
BY DEF CallStates, ExpirySteps

LEMMA ExpiryState ==
    ASSUME TypeOK, NEW p \in Calls, InExpiry(p)
    PROVE  /\ call[p] \in [step : ExpirySteps, jobs : SUBSET Jobs]
           /\ \A s \in ExpirySteps : /\ [call[p] EXCEPT !.step = s] \in CallStates
                                     /\ [call[p] EXCEPT !.step = s].step = s
                                     /\ [call[p] EXCEPT !.step = s].jobs = call[p].jobs
<1>1. call[p] \in CallStates
    BY DEF TypeOK
<1>2. call[p] \in [step : ExpirySteps, jobs : SUBSET Jobs]
    BY <1>1 DEF CallStates, Idle, InExpiry, ExpirySteps
<1> QED
    BY <1>2 DEF CallStates, ExpirySteps

LEMMA RejectType ==
    ASSUME TypeOK, NEW js \in SUBSET Jobs, RejectPending(js)
    PROVE  /\ app' \in [Jobs -> [Applicants -> AppStatuses]]
           /\ \A j \in Jobs, a \in Applicants :
                /\ app[j][a] = "NONE" => app'[j][a] = "NONE"
                /\ app'[j][a] = "PENDING" => app[j][a] = "PENDING" /\ j \notin js
                /\ app'[j][a] # app[j][a] => app[j][a] = "PENDING"
BY DEF TypeOK, RejectPending, AppStatuses

-----------------------------------------------------------------------------
(***************************************************************************)
(* Type correctness.                                                       *)
(***************************************************************************)
LEMMA OwnerType ==
    ASSUME TypeOK, NEW p \in Calls, OwnerNext(p)
    PROVE  TypeOK'
<1> PICK j \in Jobs :
        \/ CloseRead(p, j) \/ CloseWrite(p, j) \/ CloseFind(p, j) \/ CloseReject(p, j)
        \/ RemoveRead(p, j) \/ RemoveWrite(p, j)
    BY DEF OwnerNext
<1>1. call' \in [Calls -> CallStates]
    BY OwnerStates, GoType, DoneType DEF CloseRead, CloseWrite, CloseFind, CloseReject,
        RemoveRead, RemoveWrite
<1>2. CASE CloseRead(p, j) \/ CloseFind(p, j) \/ RemoveRead(p, j)
    BY <1>1, <1>2 DEF CloseRead, CloseFind, RemoveRead, TypeOK
<1>3. CASE CloseWrite(p, j)
    BY <1>1, <1>3 DEF CloseWrite, TypeOK, JobStatuses, Exists
<1>4. CASE CloseReject(p, j)
    BY <1>1, <1>4, RejectType DEF CloseReject, TypeOK
<1>5. CASE RemoveWrite(p, j)
    BY <1>1, <1>5 DEF RemoveWrite, TypeOK, JobStatuses, AppStatuses
<1> QED
    BY <1>2, <1>3, <1>4, <1>5

LEMMA DecisionState ==
    ASSUME TypeOK, NEW p \in Calls, call[p].step = "decideRead"
    PROVE  call[p].to \in {"ACCEPTED", "REJECTED"}
BY DEF TypeOK, CallStates, Idle

LEMMA ApplicationType ==
    ASSUME TypeOK, NEW p \in Calls, ApplicationNext(p)
    PROVE  TypeOK'
<1> PICK j \in Jobs, a \in Applicants :
        \/ ApplyRead(p, j, a) \/ ApplyWrite(p, j, a)
        \/ \E to \in {"ACCEPTED", "REJECTED"} : DecideRead(p, j, a, to)
        \/ DecideWrite(p, j, a)
        \/ WithdrawRead(p, j, a) \/ WithdrawWrite(p, j, a)
    BY DEF ApplicationNext
<1>1. call' \in [Calls -> CallStates]
    BY ApplicationStates, GoType, DoneType DEF ApplyRead, ApplyWrite, DecideRead,
        DecideWrite, WithdrawRead, WithdrawWrite
<1>2. CASE \/ ApplyRead(p, j, a) \/ WithdrawRead(p, j, a)
           \/ \E to \in {"ACCEPTED", "REJECTED"} : DecideRead(p, j, a, to)
    BY <1>1, <1>2 DEF ApplyRead, WithdrawRead, DecideRead, TypeOK
<1>3. CASE ApplyWrite(p, j, a)
    <2>1. CASE Exists(j) /\ app[j][a] = "NONE"
        <3>1. /\ app' = [app EXCEPT ![j][a] = "PENDING"] /\ "PENDING" \in AppStatuses
              /\ late' \subseteq Jobs \X Applicants /\ job[j] \notin {"NONE", "GONE"}
            BY <1>3, <2>1 DEF ApplyWrite, TypeOK, AppStatuses, Exists
        <3> QED
            BY <1>1, <1>3, <3>1 DEF ApplyWrite, TypeOK
    <2>2. CASE ~(Exists(j) /\ app[j][a] = "NONE")
        BY <1>1, <1>3, <2>2 DEF ApplyWrite, TypeOK
    <2> QED
        BY <2>1, <2>2
<1>4. CASE DecideWrite(p, j, a)
    <2>1. call[p].to \in AppStatuses
        BY <1>4, DecisionState DEF DecideWrite, At, AppStatuses
    <2> QED
        BY <1>1, <1>4, <2>1 DEF DecideWrite, TypeOK
<1>5. CASE WithdrawWrite(p, j, a)
    BY <1>1, <1>5 DEF WithdrawWrite, TypeOK, AppStatuses
<1> QED
    BY <1>2, <1>3, <1>4, <1>5

LEMMA ExpiryType ==
    ASSUME TypeOK, NEW p \in Calls, ExpireLock(p) \/ ExpiryStep(p)
    PROVE  TypeOK'
<1>1. CASE ExpireLock(p)
    <2>1. call' \in [Calls -> CallStates]
        BY <1>1, ExpiryStates, GoType DEF ExpireLock, ExpirySteps
    <2> QED
        BY <1>1, <2>1 DEF ExpireLock, TypeOK
<1>2. CASE ExpireRead(p)
    <2>1. call' \in [Calls -> CallStates]
        BY <1>2, ExpiryStates, GoType DEF ExpireRead, ExpirySteps
    <2> QED
        BY <1>2, <2>1 DEF ExpireRead, TypeOK
<1>3. CASE ExpireWrite(p)
    <2>1. call' \in [Calls -> CallStates]
        BY <1>3, ExpiryState, GoType DEF ExpireWrite, Expiring, InExpiry, ExpirySteps
    <2>2. /\ job' \in [Jobs -> JobStatuses]
          /\ \A j \in Jobs : job'[j] \in {"NONE", "GONE"} => job'[j] = job[j]
        BY <1>3 DEF ExpireWrite, TypeOK, JobStatuses
    <2> QED
        BY <1>3, <2>1, <2>2 DEF ExpireWrite, TypeOK
<1>4. CASE ExpireReject(p)
    <2>1. InExpiry(p)
        BY <1>4 DEF ExpireReject, Expiring, InExpiry
    <2>2. call' \in [Calls -> CallStates]
        BY <1>4, <2>1, ExpiryState, GoType DEF ExpireReject, ExpirySteps
    <2>3. call[p].jobs \in SUBSET Jobs
        BY <2>1, ExpiryState
    <2> QED
        BY <1>4, <2>2, <2>3, RejectType DEF ExpireReject, TypeOK
<1>5. CASE ExpireNotify(p)
    <2>1. call' \in [Calls -> CallStates]
        BY <1>5, ExpiryState, GoType DEF ExpireNotify, Expiring, InExpiry, ExpirySteps
    <2> QED
        BY <1>5, <2>1 DEF ExpireNotify, TypeOK
<1>6. CASE ExpireRelease(p)
    BY <1>6, DoneType DEF ExpireRelease, TypeOK
<1> QED
    BY <1>1, <1>2, <1>3, <1>4, <1>5, <1>6 DEF ExpiryStep

LEMMA UndoneType ==
    ASSUME TypeOK, NEW p \in Calls
    PROVE  Undone(p) \subseteq Jobs
BY DEF TypeOK, Undone, CallStates, Idle

LEMMA FailType ==
    ASSUME TypeOK, NEW p \in Calls, Fail(p)
    PROVE  TypeOK'
<1>1. call' \in [Calls -> CallStates]
    BY DoneType DEF Fail
<1>2. torn' \subseteq Jobs
    BY UndoneType DEF Fail, TypeOK
<1> QED
    BY <1>1, <1>2, BoundsAssumption DEF Fail, TypeOK

LEMMA RestType ==
    ASSUME TypeOK, NEW j \in Jobs,
           Create(j) \/ Age(j) \/ \E s \in {"ACTIVE", "CLOSED", "EXPIRED"} : AdminUpdate(j, s)
    PROVE  TypeOK'
<1>1. CASE Create(j)
    <2>1. openings[j] + 1 \in 0..MaxOpenings
        BY <1>1, BoundsAssumption DEF Create, TypeOK
    <2> QED
        BY <1>1, <2>1 DEF Create, TypeOK, JobStatuses
<1>2. CASE Age(j)
    BY <1>2 DEF Age, TypeOK
<1>3. ASSUME NEW s \in {"ACTIVE", "CLOSED", "EXPIRED"}, AdminUpdate(j, s)
      PROVE  TypeOK'
    <2>1. s = "ACTIVE" => openings[j] + 1 \in 0..MaxOpenings
        BY <1>3, BoundsAssumption DEF AdminUpdate, TypeOK
    <2>2. openings' \in [Jobs -> 0..MaxOpenings]
        BY <1>3, <2>1 DEF AdminUpdate, TypeOK
    <2> QED
        BY <1>3, <2>2 DEF AdminUpdate, TypeOK, JobStatuses, Exists
<1> QED
    BY <1>1, <1>2, <1>3

LEMMA LapseType ==
    ASSUME TypeOK, LockLapse
    PROVE  TypeOK'
BY DEF LockLapse, TypeOK

\* Types of postings, applications and handlers; a posting that is gone has no
\* applications.
THEOREM TypeCorrect == Spec => []TypeOK
<1>1. Init => TypeOK
    BY BoundsAssumption DEF Init, TypeOK, CallStates, JobStatuses, AppStatuses
<1>2. TypeOK /\ [Next]_vars => TypeOK'
    <2> SUFFICES ASSUME TypeOK, [Next]_vars
                 PROVE  TypeOK'
        OBVIOUS
    <2>1. CASE UNCHANGED vars
        BY <2>1 DEF vars, TypeOK
    <2> QED
        BY <2>1, OwnerType, ApplicationType, ExpiryType, FailType, RestType, LapseType DEF Next
<1> QED
    BY <1>1, <1>2, PTL DEF Spec

-----------------------------------------------------------------------------
(***************************************************************************)
(* Nobody waits for ever.  NoLimbo is inductive by itself.                 *)
(***************************************************************************)
Excused(j, a) ==
    <<j, a>> \in late \/ j \in torn \/ \E p \in Calls : Rejecting(p, j)

\* Nothing ends the posting or makes an application pending, and no rejection is
\* given up.
LEMMA QuietLimbo ==
    ASSUME NoLimbo, NEW j \in Jobs, NEW a \in Applicants,
           job'[j] \in {"CLOSED", "EXPIRED"} => job[j] \in {"CLOSED", "EXPIRED"},
           app'[j][a] = "PENDING" => app[j][a] = "PENDING",
           Excused(j, a) => Excused(j, a)'
    PROVE  job'[j] \in {"CLOSED", "EXPIRED"} /\ app'[j][a] = "PENDING" => Excused(j, a)'
BY DEF NoLimbo, Excused

\* A slot that rejects nothing may go anywhere.
LEMMA OthersReject ==
    ASSUME TypeOK, NEW p \in Calls, NEW s, Go(p, s), late \subseteq late', torn \subseteq torn',
           NEW j \in Jobs, ~Rejecting(p, j)
    PROVE  \A a \in Applicants : Excused(j, a) => Excused(j, a)'
BY DEF TypeOK, Go, Excused, Rejecting, At, Expiring

LEMMA OwnerLimbo ==
    ASSUME TypeOK, NoLimbo, NEW p \in Calls, OwnerNext(p)
    PROVE  NoLimbo'
<1> PICK k \in Jobs :
        \/ CloseRead(p, k) \/ CloseWrite(p, k) \/ CloseFind(p, k) \/ CloseReject(p, k)
        \/ RemoveRead(p, k) \/ RemoveWrite(p, k)
    BY DEF OwnerNext
<1> SUFFICES ASSUME NEW j \in Jobs, NEW a \in Applicants,
                    job'[j] \in {"CLOSED", "EXPIRED"}, app'[j][a] = "PENDING"
             PROVE  Excused(j, a)'
    BY DEF NoLimbo, Excused
<1>1. UNCHANGED <<late, torn>>
    BY DEF CloseRead, CloseWrite, CloseFind, CloseReject, RemoveRead, RemoveWrite
<1>2. CASE CloseRead(p, k) \/ RemoveRead(p, k)
    <2>1. ~Rejecting(p, j)
        BY <1>2 DEF CloseRead, RemoveRead, Free, Idle, Rejecting, At, Expiring
    <2>2. Excused(j, a) => Excused(j, a)'
        BY <1>1, <1>2, <2>1, OthersReject DEF CloseRead, RemoveRead
    <2> QED
        BY <1>2, <2>2, QuietLimbo DEF CloseRead, RemoveRead
<1>3. CASE CloseWrite(p, k)
    <2>1. ~Rejecting(p, j)
        BY <1>3 DEF CloseWrite, Rejecting, At, Expiring
    <2>2. Excused(j, a) => Excused(j, a)'
        BY <1>1, <1>3, <2>1, OthersReject DEF CloseWrite, Done
    <2>3. CASE j = k /\ Exists(k)
        <3>1. call'[p] = [step |-> "closed", j |-> j]
            BY <1>3, <2>3 DEF CloseWrite, Go, TypeOK
        <3> QED
            BY <3>1 DEF Excused, Rejecting, At
    <2>4. CASE ~(j = k /\ Exists(k))
        <3>1. job'[j] = job[j] /\ app' = app
            BY <1>3, <2>4 DEF CloseWrite, TypeOK
        <3> QED
            BY <2>2, <3>1, QuietLimbo
    <2> QED
        BY <2>3, <2>4
<1>4. CASE CloseFind(p, k)
    <2>1. UNCHANGED <<job, app>> /\ call[p].step = "closed" /\ call[p].j = k
        BY <1>4 DEF CloseFind, At
    <2>2. CASE j = k
        <3>1. call'[p] = [step |-> "reject", j |-> j]
            BY <1>4, <2>1, <2>2 DEF CloseFind, Go, TypeOK
        <3> QED
            BY <3>1 DEF Excused, Rejecting, At
    <2>3. CASE j # k
        <3>1. ~Rejecting(p, j)
            BY <2>1, <2>3 DEF Rejecting, At, Expiring
        <3>2. Excused(j, a) => Excused(j, a)'
            BY <1>1, <1>4, <3>1, OthersReject DEF CloseFind, Done
        <3> QED
            BY <2>1, <3>2, QuietLimbo
    <2> QED
        BY <2>2, <2>3
<1>5. CASE CloseReject(p, k)
    <2>1. app[j][a] = "PENDING" /\ j # k
        BY <1>5, RejectType DEF CloseReject
    <2>2. ~Rejecting(p, j)
        BY <1>5, <2>1 DEF CloseReject, Rejecting, At, Expiring
    <2>3. Excused(j, a) => Excused(j, a)'
        BY <1>1, <1>5, <2>2, OthersReject DEF CloseReject, Done
    <2> QED
        BY <1>5, <2>1, <2>3, QuietLimbo DEF CloseReject
<1>6. CASE RemoveWrite(p, k)
    <2>1. ~Rejecting(p, j)
        BY <1>6 DEF RemoveWrite, Rejecting, At, Expiring
    <2>2. Excused(j, a) => Excused(j, a)'
        BY <1>1, <1>6, <2>1, OthersReject DEF RemoveWrite, Done
    <2>3. job'[j] = job[j] /\ app'[j] = app[j]
        BY <1>6 DEF RemoveWrite, TypeOK
    <2> QED
        BY <2>2, <2>3, QuietLimbo
<1> QED
    BY <1>2, <1>3, <1>4, <1>5, <1>6

LEMMA ApplicationLimbo ==
    ASSUME TypeOK, NoLimbo, NEW p \in Calls, ApplicationNext(p)
    PROVE  NoLimbo'
<1> PICK k \in Jobs, b \in Applicants :
        \/ ApplyRead(p, k, b) \/ ApplyWrite(p, k, b)
        \/ \E to \in {"ACCEPTED", "REJECTED"} : DecideRead(p, k, b, to)
        \/ DecideWrite(p, k, b)
        \/ WithdrawRead(p, k, b) \/ WithdrawWrite(p, k, b)
    BY DEF ApplicationNext
<1> SUFFICES ASSUME NEW j \in Jobs, NEW a \in Applicants,
                    job'[j] \in {"CLOSED", "EXPIRED"}, app'[j][a] = "PENDING"
             PROVE  Excused(j, a)'
    BY DEF NoLimbo, Excused
<1>1. UNCHANGED <<job, torn>> /\ late \subseteq late'
    BY DEF ApplyRead, ApplyWrite, DecideRead, DecideWrite, WithdrawRead, WithdrawWrite
<1>2. ~Rejecting(p, j)
    BY DEF ApplyRead, ApplyWrite, DecideRead, DecideWrite, WithdrawRead, WithdrawWrite,
        Free, Idle, Rejecting, At, Expiring
<1>3. Excused(j, a) => Excused(j, a)'
    BY <1>1, <1>2, OthersReject DEF ApplyRead, ApplyWrite, DecideRead, DecideWrite,
        WithdrawRead, WithdrawWrite, Done
<1>4. CASE ApplyWrite(p, k, b)
    <2>1. CASE app[j][a] = "PENDING"
        BY <1>1, <1>3, <2>1, QuietLimbo
    <2>2. CASE app[j][a] # "PENDING"
        <3>1. j = k /\ a = b /\ job[k] # "ACTIVE"
            BY <1>1, <1>4, <2>2 DEF ApplyWrite, TypeOK
        <3>2. <<j, a>> \in late'
            BY <1>1, <1>4, <2>2, <3>1 DEF ApplyWrite
        <3> QED
            BY <3>2 DEF Excused
    <2> QED
        BY <2>1, <2>2
<1>5. CASE ~ApplyWrite(p, k, b)
    <2>1. app'[j][a] = "PENDING" => app[j][a] = "PENDING"
        <3>1. CASE DecideWrite(p, k, b)
            <4>1. call[p].to # "PENDING"
                BY <3>1, DecisionState DEF DecideWrite, At
            <4> QED
                BY <3>1, <4>1 DEF DecideWrite, TypeOK
        <3>2. CASE WithdrawWrite(p, k, b)
            BY <3>2 DEF WithdrawWrite, TypeOK
        <3> QED
            BY <1>5, <3>1, <3>2 DEF ApplyRead, DecideRead, WithdrawRead
    <2> QED
        BY <1>1, <1>3, <2>1, QuietLimbo
<1> QED
    BY <1>4, <1>5

LEMMA ExpiryLimbo ==
    ASSUME TypeOK, NoLimbo, NEW p \in Calls, ExpireLock(p) \/ ExpiryStep(p)
    PROVE  NoLimbo'
<1> SUFFICES ASSUME NEW j \in Jobs, NEW a \in Applicants,
                    job'[j] \in {"CLOSED", "EXPIRED"}, app'[j][a] = "PENDING"
             PROVE  Excused(j, a)'
    BY DEF NoLimbo, Excused
<1>1. UNCHANGED <<late, torn>>
    BY DEF ExpiryStep, ExpireLock, ExpireRead, ExpireWrite, ExpireReject, ExpireNotify,
        ExpireRelease
<1>2. CASE ExpireWrite(p)
    <2>1. /\ InExpiry(p) /\ call'[p] = [call[p] EXCEPT !.step = "expired"]
          /\ ~Rejecting(p, j) /\ app' = app
        BY <1>2 DEF ExpireWrite, Go, TypeOK, Expiring, InExpiry, Rejecting, At
    <2>2. Excused(j, a) => Excused(j, a)'
        BY <1>1, <1>2, <2>1, OthersReject DEF ExpireWrite
    <2>3. CASE j \in call[p].jobs
        <3>1. call'[p].step = "expired" /\ call'[p].jobs = call[p].jobs
            BY <2>1, ExpiryState DEF ExpirySteps
        <3> QED
            BY <2>3, <3>1 DEF Excused, Rejecting, Expiring
    <2>4. CASE j \notin call[p].jobs
        <3>1. job'[j] = job[j]
            BY <1>2, <2>4 DEF ExpireWrite
        <3> QED
            BY <2>1, <2>2, <3>1, QuietLimbo
    <2> QED
        BY <2>3, <2>4
<1>3. CASE ExpireReject(p)
    <2>1. InExpiry(p)
        BY <1>3 DEF ExpireReject, Expiring, InExpiry
    <2>2. call[p].jobs \in SUBSET Jobs
        BY <2>1, ExpiryState
    <2>3. app[j][a] = "PENDING" /\ j \notin call[p].jobs
        BY <1>3, <2>2, RejectType DEF ExpireReject
    <2>4. ~Rejecting(p, j)
        BY <1>3, <2>3 DEF ExpireReject, Rejecting, At, Expiring
    <2>5. Excused(j, a) => Excused(j, a)'
        BY <1>1, <1>3, <2>4, OthersReject DEF ExpireReject
    <2> QED
        BY <1>3, <2>3, <2>5, QuietLimbo DEF ExpireReject
<1>4. CASE ExpireLock(p) \/ ExpireRead(p) \/ ExpireNotify(p) \/ ExpireRelease(p)
    <2>1. ~Rejecting(p, j)
        BY <1>4 DEF ExpireLock, ExpireRead, ExpireNotify, ExpireRelease, Free, Idle,
            Rejecting, At, Expiring
    <2>2. Excused(j, a) => Excused(j, a)'
        BY <1>1, <1>4, <2>1, OthersReject DEF ExpireLock, ExpireRead, ExpireNotify,
            ExpireRelease, Done
    <2> QED
        BY <1>4, <2>2, QuietLimbo DEF ExpireLock, ExpireRead, ExpireNotify, ExpireRelease
<1> QED
    BY <1>2, <1>3, <1>4 DEF ExpiryStep

LEMMA FailLimbo ==
    ASSUME TypeOK, NoLimbo, NEW p \in Calls, Fail(p)
    PROVE  NoLimbo'
<1> SUFFICES ASSUME NEW j \in Jobs, NEW a \in Applicants,
                    job'[j] \in {"CLOSED", "EXPIRED"}, app'[j][a] = "PENDING"
             PROVE  Excused(j, a)'
    BY DEF NoLimbo, Excused
<1>1. UNCHANGED <<job, app, late>> /\ torn \subseteq torn' /\ Undone(p) \subseteq torn'
    BY DEF Fail
<1>2. CASE Rejecting(p, j)
    <2>1. j \in Undone(p)
        BY <1>2 DEF Rejecting, Undone, At, Expiring
    <2> QED
        BY <1>1, <2>1 DEF Excused
<1>3. CASE ~Rejecting(p, j)
    <2>1. Excused(j, a) => Excused(j, a)'
        BY <1>1, <1>3, OthersReject DEF Fail, Done
    <2> QED
        BY <1>1, <2>1, QuietLimbo
<1> QED
    BY <1>2, <1>3

LEMMA RestLimbo ==
    ASSUME TypeOK, NoLimbo, NEW k \in Jobs,
           Create(k) \/ Age(k) \/ \E s \in {"ACTIVE", "CLOSED", "EXPIRED"} : AdminUpdate(k, s)
    PROVE  NoLimbo'
<1>1. CASE Create(k) \/ Age(k)
    BY <1>1 DEF Create, Age, NoLimbo, Rejecting, At, Expiring, TypeOK
<1>2. ASSUME NEW s \in {"ACTIVE", "CLOSED", "EXPIRED"}, AdminUpdate(k, s)
      PROVE  NoLimbo'
    BY <1>2 DEF AdminUpdate, NoLimbo, Rejecting, At, Expiring, TypeOK
<1> QED
    BY <1>1, <1>2

LEMMA LapseLimbo ==
    ASSUME NoLimbo, LockLapse \/ UNCHANGED vars
    PROVE  NoLimbo'
BY DEF NoLimbo, LockLapse, vars, Rejecting, At, Expiring

\* A pending application of a posting that has ended is about to be rejected, or
\* came in too late, or the posting was ended by one who failed or does not reject.
THEOREM NobodyWaits == Spec => []NoLimbo
<1>1. Init => NoLimbo
    BY DEF Init, NoLimbo
<1>2. TypeOK /\ NoLimbo /\ [Next]_vars => NoLimbo'
    BY OwnerLimbo, ApplicationLimbo, ExpiryLimbo, FailLimbo, RestLimbo, LapseLimbo DEF Next
<1> QED
    BY <1>1, <1>2, TypeCorrect, PTL DEF Spec

-----------------------------------------------------------------------------
(***************************************************************************)
(* Owners are told once.  One run of the expiry has the lock, and for each *)
(* posting the notice that run is about to send, and the one the posting   *)
(* may still expire to, are among the times it was made active.            *)
(***************************************************************************)
OneRun == \A p \in Calls : InExpiry(p) => lock = p

\* A run that lists the posting, and one that has yet to expire it.
Telling(p, j) == call[p].step \in {"toExpire", "expired", "notify"} /\ j \in call[p].jobs
Held(p, j)    == call[p].step = "toExpire" /\ j \in call[p].jobs
Due(j)        == \E p \in Calls : Telling(p, j)
Live(j)       == job[j] = "ACTIVE" /\ \A p \in Calls : ~Held(p, j)

Tally(j) ==
    /\ notices[j] <= openings[j]
    /\ Due(j) \/ Live(j) => notices[j] < openings[j]
    /\ Due(j) /\ Live(j) => notices[j] + 1 < openings[j]

TallyInv == \A j \in Jobs : Tally(j)

\* What is not about the expiry leaves the lock and the lists alone.
LEMMA CallsOutside ==
    ASSUME TypeOK, NEW p \in Calls, OwnerNext(p) \/ ApplicationNext(p)
    PROVE  /\ UNCHANGED <<lock, openings, notices>> /\ ~InExpiry(p)
           /\ \A j \in Jobs : job'[j] = "ACTIVE" => job[j] = "ACTIVE"
           /\ \E s : Go(p, s) /\ s.step \notin ExpirySteps
<1>1. Idle.step \notin ExpirySteps
    BY DEF Idle, ExpirySteps
<1>2. CASE OwnerNext(p)
    <2> PICK k \in Jobs :
            \/ CloseRead(p, k) \/ CloseWrite(p, k) \/ CloseFind(p, k) \/ CloseReject(p, k)
            \/ RemoveRead(p, k) \/ RemoveWrite(p, k)
        BY <1>2 DEF OwnerNext
    <2>1. UNCHANGED <<lock, openings, notices>> /\ ~InExpiry(p)
        BY DEF CloseRead, CloseWrite, CloseFind, CloseReject, RemoveRead, RemoveWrite,
            Free, Idle, At, InExpiry
    <2>2. \A j \in Jobs : job'[j] = "ACTIVE" => job[j] = "ACTIVE"
        BY DEF CloseRead, CloseWrite, CloseFind, CloseReject, RemoveRead, RemoveWrite, TypeOK
    <2>3. \E s : Go(p, s) /\ s.step \notin ExpirySteps
        BY <1>1 DEF CloseRead, CloseWrite, CloseFind, CloseReject, RemoveRead, RemoveWrite,
            Done, ExpirySteps
    <2> QED
        BY <2>1, <2>2, <2>3
<1>3. CASE ApplicationNext(p)
    <2> PICK k \in Jobs, b \in Applicants :
            \/ ApplyRead(p, k, b) \/ ApplyWrite(p, k, b)
            \/ \E to \in {"ACCEPTED", "REJECTED"} : DecideRead(p, k, b, to)
            \/ DecideWrite(p, k, b)
            \/ WithdrawRead(p, k, b) \/ WithdrawWrite(p, k, b)
        BY <1>3 DEF ApplicationNext
    <2>1. UNCHANGED <<lock, openings, notices, job>> /\ ~InExpiry(p)
        BY DEF ApplyRead, ApplyWrite, DecideRead, DecideWrite, WithdrawRead, WithdrawWrite,
            Free, Idle, At, InExpiry
    <2>2. \E s : Go(p, s) /\ s.step \notin ExpirySteps
        BY <1>1 DEF ApplyRead, ApplyWrite, DecideRead, DecideWrite, WithdrawRead,
            WithdrawWrite, Done, ExpirySteps
    <2> QED
        BY <2>1, <2>2
<1> QED
    BY <1>2, <1>3

LEMMA ExpiryKeepsOneRun ==
    ASSUME TypeOK, OneRun, NEW p \in Calls, ExpireLock(p) \/ ExpiryStep(p)
    PROVE  OneRun'
<1>1. CASE ExpireLock(p)
    BY <1>1, NoneAssumption DEF ExpireLock, Free, Idle, Go, TypeOK, OneRun, InExpiry
<1>2. CASE ExpireRelease(p)
    BY <1>2 DEF ExpireRelease, Done, Go, Idle, TypeOK, OneRun, InExpiry, Expiring
<1>3. CASE ExpireRead(p) \/ ExpireWrite(p) \/ ExpireReject(p) \/ ExpireNotify(p)
    <2>1. InExpiry(p) /\ lock' = lock
        BY <1>3 DEF ExpireRead, ExpireWrite, ExpireReject, ExpireNotify, Expiring, InExpiry
    <2>2. \A q \in Calls \ {p} : call'[q] = call[q]
        BY <1>3 DEF ExpireRead, ExpireWrite, ExpireReject, ExpireNotify, Go, TypeOK
    <2> QED
        BY <2>1, <2>2 DEF OneRun, InExpiry
<1> QED
    BY <1>1, <1>2, <1>3 DEF ExpiryStep

LEMMA OneRunStep ==
    ASSUME TypeOK, OneRun, [Next]_vars
    PROVE  OneRun'
<1>1. ASSUME NEW p \in Calls, OwnerNext(p) \/ ApplicationNext(p)
      PROVE  OneRun'
    <2> PICK s : Go(p, s) /\ s.step \notin ExpirySteps
        BY <1>1, CallsOutside
    <2>1. lock' = lock
        BY <1>1, CallsOutside
    <2> QED
        BY <2>1 DEF Go, TypeOK, OneRun, InExpiry, ExpirySteps
<1>2. ASSUME NEW p \in Calls, Fail(p)
      PROVE  OneRun'
    BY <1>2 DEF Fail, Done, Go, Idle, TypeOK, OneRun, InExpiry
<1>3. ASSUME NEW j \in Jobs,
             Create(j) \/ Age(j) \/ \E s \in {"ACTIVE", "CLOSED", "EXPIRED"} : AdminUpdate(j, s)
      PROVE  OneRun'
    BY <1>3 DEF Create, Age, AdminUpdate, OneRun, InExpiry
<1>4. CASE LockLapse
    BY <1>4 DEF LockLapse, OneRun, InExpiry
<1>5. CASE UNCHANGED vars
    BY <1>5 DEF vars, OneRun, InExpiry
<1> QED
    BY <1>1, <1>2, <1>3, <1>4, <1>5, ExpiryKeepsOneRun DEF Next

\* Nothing is told and nothing comes up to tell.
LEMMA SameTally ==
    ASSUME TypeOK, NEW j \in Jobs, Tally(j), notices'[j] = notices[j], openings'[j] = openings[j],
           Due(j)' => Due(j), Live(j)' => Live(j)
    PROVE  Tally(j)'
BY DEF Tally

\* While a run has the lock, no other lists anything.
LEMMA OnlyRun ==
    ASSUME OneRun, NEW p \in Calls, InExpiry(p)
    PROVE  \A q \in Calls \ {p} : ~InExpiry(q)
BY DEF OneRun

LEMMA CallsTally ==
    ASSUME TypeOK, TallyInv, NEW p \in Calls, OwnerNext(p) \/ ApplicationNext(p)
    PROVE  TallyInv'
<1> SUFFICES ASSUME NEW j \in Jobs
             PROVE  Tally(j)'
    BY DEF TallyInv
<1> PICK s : Go(p, s) /\ s.step \notin ExpirySteps
    BY CallsOutside
<1>1. /\ UNCHANGED <<openings, notices>> /\ ~InExpiry(p)
      /\ job'[j] = "ACTIVE" => job[j] = "ACTIVE"
    BY CallsOutside
<1>2. \A q \in Calls : (Telling(q, j)' <=> Telling(q, j)) /\ (Held(q, j)' <=> Held(q, j))
    BY <1>1 DEF Go, TypeOK, Telling, Held, InExpiry, ExpirySteps
<1>3. Tally(j) /\ (Due(j)' => Due(j)) /\ (Live(j)' => Live(j))
    BY <1>1, <1>2 DEF TallyInv, Due, Live
<1> QED
    BY <1>1, <1>3, SameTally

LEMMA RestTally ==
    ASSUME TypeOK, TallyInv, NEW k \in Jobs,
           Create(k) \/ Age(k) \/ \E s \in {"ACTIVE", "CLOSED", "EXPIRED"} : AdminUpdate(k, s)
    PROVE  TallyInv'
<1> SUFFICES ASSUME NEW j \in Jobs
             PROVE  Tally(j)'
    BY DEF TallyInv
<1>1. UNCHANGED <<call, notices>> /\ Tally(j)
    BY DEF Create, Age, AdminUpdate, TallyInv
<1>2. (Due(j)' <=> Due(j)) /\ (\A q \in Calls : Held(q, j)' <=> Held(q, j))
    BY <1>1 DEF Due, Telling, Held
<1>3. CASE openings'[j] = openings[j] /\ (job'[j] = "ACTIVE" => job[j] = "ACTIVE")
    <2>1. Live(j)' => Live(j)
        BY <1>2, <1>3 DEF Live
    <2> QED
        BY <1>1, <1>2, <1>3, <2>1, SameTally
<1>4. CASE openings'[j] = openings[j] + 1
    <2>1. openings[j] \in Nat /\ notices[j] \in Nat /\ openings'[j] \in Nat
        BY <1>4, BoundsAssumption DEF TypeOK
    <2>2. notices'[j] = notices[j]
        BY <1>1
    <2> QED
        BY <1>1, <1>2, <1>4, <2>1, <2>2 DEF Tally
<1> QED
    BY <1>3, <1>4 DEF Create, Age, AdminUpdate, TypeOK

LEMMA FailTally ==
    ASSUME TypeOK, OneRun, TallyInv, NEW p \in Calls, Fail(p)
    PROVE  TallyInv'
<1> SUFFICES ASSUME NEW j \in Jobs
             PROVE  Tally(j)'
    BY DEF TallyInv
<1>1. /\ UNCHANGED <<job, notices, openings>> /\ Tally(j)
      /\ \A q \in Calls \ {p} : call'[q] = call[q]
      /\ call'[p] = Idle
    BY DEF Fail, Done, Go, TypeOK, TallyInv
<1>2. /\ ~Telling(p, j)' /\ ~Held(p, j)'
      /\ \A q \in Calls \ {p} : (Telling(q, j)' <=> Telling(q, j)) /\ (Held(q, j)' <=> Held(q, j))
    BY <1>1 DEF Telling, Held, Idle
<1>3. Due(j)' => Due(j)
    BY <1>2 DEF Due
<1>4. CASE Held(p, j)
    <2>1. InExpiry(p) /\ Due(j)
        BY <1>4 DEF Held, InExpiry, Due, Telling
    <2>2. ~Due(j)'
        BY <1>2, <2>1, OnlyRun DEF Due, Telling, InExpiry
    <2> QED
        BY <1>1, <2>1, <2>2 DEF Tally
<1>5. CASE ~Held(p, j)
    <2>1. Live(j)' => Live(j)
        BY <1>1, <1>2, <1>5 DEF Live
    <2> QED
        BY <1>1, <1>3, <2>1, SameTally
<1> QED
    BY <1>4, <1>5

LEMMA ExpiryTally ==
    ASSUME TypeOK, OneRun, TallyInv, NEW p \in Calls, ExpireLock(p) \/ ExpiryStep(p)
    PROVE  TallyInv'
<1> SUFFICES ASSUME NEW j \in Jobs
             PROVE  Tally(j)'
    BY DEF TallyInv
<1>1. Tally(j) /\ openings' = openings
    BY DEF TallyInv, ExpiryStep, ExpireLock, ExpireRead, ExpireWrite, ExpireReject,
        ExpireNotify, ExpireRelease
<1>2. \A q \in Calls \ {p} :
        /\ call'[q] = call[q]
        /\ (Telling(q, j)' <=> Telling(q, j)) /\ (Held(q, j)' <=> Held(q, j))
    <2>1. \A q \in Calls \ {p} : call'[q] = call[q]
        BY DEF ExpiryStep, ExpireLock, ExpireRead, ExpireWrite, ExpireReject, ExpireNotify,
            ExpireRelease, Done, Go, TypeOK
    <2> QED
        BY <2>1 DEF Telling, Held
<1>3. CASE ExpireLock(p) \/ ExpireRelease(p)
    <2>1. UNCHANGED <<job, notices>> /\ call'[p].step \in {"expiry", "idle"}
        BY <1>3 DEF ExpireLock, ExpireRelease, Done, Go, Idle, TypeOK
    <2>2. call[p].step \in {"idle", "release"}
        BY <1>3 DEF ExpireLock, ExpireRelease, Free, Idle, Expiring
    <2>3. ~Telling(p, j)' /\ ~Held(p, j)' /\ ~Held(p, j)
        BY <2>1, <2>2 DEF Telling, Held
    <2>4. (Due(j)' => Due(j)) /\ (Live(j)' => Live(j))
        BY <1>2, <2>1, <2>3 DEF Due, Live
    <2> QED
        BY <1>1, <2>1, <2>4, SameTally
<1>4. CASE ExpireRead(p)
    <2> DEFINE js == {i \in Jobs : job[i] = "ACTIVE" /\ old[i]}
    <2>1. /\ call'[p] = [step |-> IF js = {} THEN "release" ELSE "toExpire", jobs |-> js]
          /\ UNCHANGED <<job, notices>> /\ call[p].step = "expiry"
        BY <1>4 DEF ExpireRead, Go, TypeOK, Expiring
    <2>2. ~Held(p, j) /\ InExpiry(p)
        BY <2>1 DEF Held, InExpiry
    <2>3. CASE j \in js
        <3>1. Held(p, j)'
            BY <2>1, <2>3 DEF Held
        <3>2. ~Live(j)'
            BY <3>1 DEF Live
        <3>3. \A q \in Calls : ~Held(q, j)
            BY <2>2, OnlyRun DEF Held, InExpiry
        <3>4. Live(j)
            BY <2>3, <3>3 DEF Live
        <3> QED
            BY <1>1, <2>1, <3>2, <3>4 DEF Tally
    <2>4. CASE j \notin js
        <3>1. ~Telling(p, j)'
            BY <2>1, <2>4 DEF Telling
        <3>2. (Due(j)' => Due(j)) /\ (Live(j)' => Live(j))
            BY <1>2, <2>1, <2>2, <3>1 DEF Due, Live
        <3> QED
            BY <1>1, <2>1, <3>2, SameTally
    <2> QED
        BY <2>3, <2>4
<1>5. CASE ExpireWrite(p)
    <2>1. /\ InExpiry(p) /\ call'[p] = [call[p] EXCEPT !.step = "expired"]
          /\ call[p].step = "toExpire" /\ notices' = notices
          /\ job'[j] = "ACTIVE" => job[j] = "ACTIVE" /\ j \notin call[p].jobs
        BY <1>5 DEF ExpireWrite, Go, TypeOK, Expiring, InExpiry, Exists
    <2>2. call'[p].step = "expired" /\ call'[p].jobs = call[p].jobs
        BY <2>1, ExpiryState DEF ExpirySteps
    <2>3. Due(j)' => Due(j)
        BY <1>2, <2>1, <2>2 DEF Due, Telling
    <2>4. Live(j)' => Live(j)
        BY <1>2, <2>1 DEF Live, Held
    <2> QED
        BY <1>1, <2>1, <2>3, <2>4, SameTally
<1>6. CASE ExpireReject(p)
    <2>1. /\ InExpiry(p) /\ call'[p] = [call[p] EXCEPT !.step = "notify"]
          /\ call[p].step = "expired" /\ UNCHANGED <<job, notices>>
        BY <1>6 DEF ExpireReject, Go, TypeOK, Expiring, InExpiry
    <2>2. call'[p].step = "notify" /\ call'[p].jobs = call[p].jobs
        BY <2>1, ExpiryState DEF ExpirySteps
    <2>3. Due(j)' => Due(j)
        BY <1>2, <2>1, <2>2 DEF Due, Telling
    <2>4. Live(j)' => Live(j)
        BY <1>2, <2>1 DEF Live, Held
    <2> QED
        BY <1>1, <2>1, <2>3, <2>4, SameTally
<1>7. CASE ExpireNotify(p)
    <2>1. /\ InExpiry(p) /\ call'[p] = [call[p] EXCEPT !.step = "release"]
          /\ call[p].step = "notify" /\ job' = job
          /\ notices'[j] = IF j \in call[p].jobs THEN notices[j] + 1 ELSE notices[j]
        BY <1>7 DEF ExpireNotify, Go, TypeOK, Expiring, InExpiry
    <2>2. call'[p].step = "release"
        BY <2>1, ExpiryState DEF ExpirySteps
    <2>3. ~Due(j)'
        BY <2>1, <2>2, <1>2, OnlyRun DEF Due, Telling, InExpiry
    <2>4. Live(j)' => Live(j)
        BY <1>2, <2>1 DEF Live, Held
    <2>5. CASE j \in call[p].jobs
        <3>1. Due(j)
            BY <2>1, <2>5 DEF Due, Telling
        <3>2. notices[j] \in Nat /\ openings[j] \in Nat
            BY BoundsAssumption DEF TypeOK
        <3> QED
            BY <1>1, <2>1, <2>3, <2>4, <2>5, <3>1, <3>2 DEF Tally
    <2>6. CASE j \notin call[p].jobs
        BY <1>1, <2>1, <2>3, <2>4, <2>6, SameTally
    <2> QED
        BY <2>5, <2>6
<1> QED
    BY <1>3, <1>4, <1>5, <1>6, <1>7 DEF ExpiryStep

LEMMA QuietTally ==
    ASSUME TallyInv, LockLapse \/ UNCHANGED vars
    PROVE  TallyInv'
BY DEF TallyInv, Tally, Due, Live, Telling, Held, LockLapse, vars

\* Notices of the expiry, to the owner of a posting, are never more than the times
\* the posting was made active, however many replicas run the expiry and fail.
THEOREM OwnersToldOnce == Spec => []ToldOnce
<1>1. Init => OneRun /\ TallyInv
    BY DEF Init, OneRun, TallyInv, Tally, Due, Live, Telling, InExpiry, Idle
<1>2. TypeOK /\ OneRun /\ TallyInv /\ [Next]_vars => (OneRun /\ TallyInv)'
    BY OneRunStep, CallsTally, RestTally, FailTally, ExpiryTally, QuietTally DEF Next
<1>3. TallyInv => ToldOnce
    BY DEF TallyInv, Tally, ToldOnce
<1> QED
    BY <1>1, <1>2, <1>3, TypeCorrect, PTL DEF Spec

-----------------------------------------------------------------------------
(***************************************************************************)
(* Acceptances stand.                                                      *)
(***************************************************************************)
\* An accepted application changes only with a withdrawal or the removal.
LEMMA AcceptedStep ==
    ASSUME TypeOK, [Next]_vars, NEW j \in Jobs, NEW a \in Applicants,
           app[j][a] = "ACCEPTED", app'[j][a] # "ACCEPTED"
    PROVE  \/ job'[j] = "GONE"
           \/ app'[j][a] = "WITHDRAWN" /\ \E p \in Calls : At(p, "withdrawRead", j)
<1>1. ASSUME NEW p \in Calls, OwnerNext(p)
      PROVE  job'[j] = "GONE"
    <2> PICK k \in Jobs :
            \/ CloseRead(p, k) \/ CloseWrite(p, k) \/ CloseFind(p, k) \/ CloseReject(p, k)
            \/ RemoveRead(p, k) \/ RemoveWrite(p, k)
        BY <1>1 DEF OwnerNext
    <2>1. ~CloseReject(p, k)
        BY RejectType DEF CloseReject
    <2>2. RemoveWrite(p, k)
        BY <2>1 DEF CloseRead, CloseWrite, CloseFind, RemoveRead
    <2> QED
        BY <2>2 DEF RemoveWrite, TypeOK
<1>2. ASSUME NEW p \in Calls, ApplicationNext(p)
      PROVE  app'[j][a] = "WITHDRAWN" /\ At(p, "withdrawRead", j)
    <2> PICK k \in Jobs, b \in Applicants :
            \/ ApplyRead(p, k, b) \/ ApplyWrite(p, k, b)
            \/ \E to \in {"ACCEPTED", "REJECTED"} : DecideRead(p, k, b, to)
            \/ DecideWrite(p, k, b)
            \/ WithdrawRead(p, k, b) \/ WithdrawWrite(p, k, b)
        BY <1>2 DEF ApplicationNext
    <2>1. ~ApplyWrite(p, k, b)
        BY DEF ApplyWrite, TypeOK
    <2>2. ~DecideWrite(p, k, b)
        BY DEF DecideWrite, TypeOK
    <2>3. WithdrawWrite(p, k, b)
        BY <2>1, <2>2 DEF ApplyRead, DecideRead, WithdrawRead
    <2> QED
        BY <2>3 DEF WithdrawWrite, TypeOK
<1>3. ASSUME NEW p \in Calls, ExpireLock(p) \/ ExpiryStep(p)
      PROVE  FALSE
    <2>1. ~ExpireReject(p)
        <3>1. SUFFICES ASSUME ExpireReject(p)
                       PROVE  FALSE
            OBVIOUS
        <3>2. call[p].jobs \in SUBSET Jobs
            BY <3>1, ExpiryState DEF ExpireReject, Expiring, InExpiry
        <3> QED
            BY <3>1, <3>2, RejectType DEF ExpireReject
    <2> QED
        BY <1>3, <2>1 DEF ExpiryStep, ExpireLock, ExpireRead, ExpireWrite, ExpireNotify,
            ExpireRelease
<1>4. ASSUME NEW k \in Jobs,
             Create(k) \/ Age(k) \/ \E s \in {"ACTIVE", "CLOSED", "EXPIRED"} : AdminUpdate(k, s)
      PROVE  FALSE
    BY <1>4 DEF Create, Age, AdminUpdate
<1>5. ~LockLapse /\ ~(UNCHANGED vars) /\ \A p \in Calls : ~Fail(p)
    BY DEF LockLapse, vars, Fail
<1> QED
    BY <1>1, <1>2, <1>3, <1>4, <1>5 DEF Next

\* Rejections, decisions of two tabs, the closing and the expiry of a posting never
\* take an acceptance back.
THEOREM AcceptancesStand == Spec => AcceptedStands
<1>1. TypeOK /\ [Next]_vars =>
        [\A j \in Jobs, a \in Applicants :
            app[j][a] = "ACCEPTED" /\ app'[j][a] # "ACCEPTED" =>
                \/ job'[j] = "GONE"
                \/ app'[j][a] = "WITHDRAWN" /\ \E p \in Calls : At(p, "withdrawRead", j)]_vars
    BY AcceptedStep
<1> QED
    BY <1>1, TypeCorrect, PTL DEF Spec, AcceptedStands
=============================================================================
