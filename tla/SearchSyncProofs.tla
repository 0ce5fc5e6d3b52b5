------------------------- MODULE SearchSyncProofs -------------------------
(***************************************************************************)
(* Proofs about SearchSync, for any listings, places for events, sweeps    *)
(* and bounds.  What the index says of a row is proved for one replica;    *)
(* types, an account at rest and the way of an update for any number.      *)
(***************************************************************************)
EXTENDS SearchSync, TLAPS, SequenceTheorems, FiniteSetTheorems

-----------------------------------------------------------------------------
(***************************************************************************)
(* Sequences of jobs.                                                      *)
(***************************************************************************)
\* Some job of q is about the listing.
About(q, l) == \E i \in DOMAIN q : q[i].l = l

LEMMA AboutConcat ==
    ASSUME NEW p \in Seq(Job), NEW q \in Seq(Job), NEW l
    PROVE  About(p \o q, l) <=> About(p, l) \/ About(q, l)
<1>1. /\ p \o q \in Seq(Job) /\ Len(p \o q) = Len(p) + Len(q)
      /\ \A i \in 1..(Len(p) + Len(q)) :
            (p \o q)[i] = IF i <= Len(p) THEN p[i] ELSE q[i - Len(p)]
    BY ConcatProperties, Zenon
<1>2. /\ DOMAIN p = 1..Len(p) /\ Len(p) \in Nat
      /\ DOMAIN q = 1..Len(q) /\ Len(q) \in Nat
      /\ DOMAIN (p \o q) = 1..(Len(p) + Len(q))
    BY <1>1, LenProperties
<1>3. ASSUME About(p, l) PROVE About(p \o q, l)
    <2>1. PICK i \in DOMAIN p : p[i].l = l
        BY <1>3 DEF About
    <2>2. i \in DOMAIN (p \o q) /\ (p \o q)[i] = p[i]
        BY <1>1, <1>2
    <2> QED
        BY <2>1, <2>2 DEF About
<1>4. ASSUME About(q, l) PROVE About(p \o q, l)
    <2>1. PICK i \in DOMAIN q : q[i].l = l
        BY <1>4 DEF About
    <2>2. (i + Len(p)) \in DOMAIN (p \o q) /\ (p \o q)[i + Len(p)] = q[i]
        BY <1>1, <1>2
    <2> QED
        BY <2>1, <2>2 DEF About
<1>5. ASSUME About(p \o q, l) PROVE About(p, l) \/ About(q, l)
    <2>1. PICK i \in DOMAIN (p \o q) : (p \o q)[i].l = l
        BY <1>5 DEF About
    <2>2. CASE i <= Len(p)
        BY <1>1, <1>2, <2>1, <2>2 DEF About
    <2>3. CASE ~(i <= Len(p))
        <3>1. i - Len(p) \in DOMAIN q /\ (p \o q)[i] = q[i - Len(p)]
            BY <1>1, <1>2, <2>3
        <3> QED
            BY <2>1, <3>1 DEF About
    <2> QED
        BY <2>2, <2>3
<1> QED
    BY <1>3, <1>4, <1>5

LEMMA AboutOne ==
    ASSUME NEW j \in Job, NEW l
    PROVE  <<j>> \in Seq(Job) /\ (About(<<j>>, l) <=> j.l = l)
BY DEF About

LEMMA AboutTail ==
    ASSUME NEW q \in Seq(Job), q # <<>>, NEW l
    PROVE  /\ Head(q) \in Job /\ Tail(q) \in Seq(Job)
           /\ About(q, l) <=> Head(q).l = l \/ About(Tail(q), l)
<1>1. /\ Head(q) \in Job /\ Tail(q) \in Seq(Job) /\ Len(Tail(q)) = Len(q) - 1
      /\ \A i \in 1..Len(Tail(q)) : Tail(q)[i] = q[i + 1]
    BY HeadTailProperties, Zenon
<1>2. /\ DOMAIN q = 1..Len(q) /\ Len(q) \in Nat \ {0} /\ Head(q) = q[1]
      /\ DOMAIN Tail(q) = 1..Len(Tail(q))
    BY <1>1, LenProperties, EmptySeq
<1>3. ASSUME Head(q).l = l \/ About(Tail(q), l) PROVE About(q, l)
    <2>1. CASE Head(q).l = l
        BY <1>2, <2>1 DEF About
    <2>2. CASE About(Tail(q), l)
        <3>1. PICK i \in DOMAIN Tail(q) : Tail(q)[i].l = l
            BY <2>2 DEF About
        <3>2. i + 1 \in DOMAIN q /\ Tail(q)[i] = q[i + 1]
            BY <1>1, <1>2
        <3> QED
            BY <3>1, <3>2 DEF About
    <2> QED
        BY <1>3, <2>1, <2>2
<1>4. ASSUME About(q, l) PROVE Head(q).l = l \/ About(Tail(q), l)
    <2>1. PICK i \in DOMAIN q : q[i].l = l
        BY <1>4 DEF About
    <2>2. CASE i = 1
        BY <1>2, <2>1, <2>2
    <2>3. CASE i # 1
        <3>1. i - 1 \in DOMAIN Tail(q) /\ Tail(q)[i - 1] = q[i]
            BY <1>1, <1>2, <2>3
        <3> QED
            BY <2>1, <3>1 DEF About
    <2> QED
        BY <2>2, <2>3
<1> QED
    BY <1>1, <1>3, <1>4

\* The events of a batch become as many jobs, in some order.
LEMMA OrdersType ==
    ASSUME NEW S \in SUBSET Events, NEW b \in [S -> Event], NEW o \in Orders(S)
    PROVE  LET q == [i \in DOMAIN o |-> AsJob(b[o[i]])] IN
           /\ q \in Seq(Job)
           /\ \A e \in S : About(q, b[e].l)
<1> DEFINE q == [i \in DOMAIN o |-> AsJob(b[o[i]])]
           n == Cardinality(S)
<1>1. n \in Nat
    BY EventsAssumption, FS_Subset, FS_CardinalityType
<1>2. o \in [1..n -> S] /\ \A e \in S : \E i \in DOMAIN o : o[i] = e
    BY DEF Orders
<1>3. DOMAIN o = 1..n
    BY <1>2
<1>4. \A e \in S : AsJob(b[e]) \in Job /\ AsJob(b[e]).l = b[e].l
    BY LimitsAssumption DEF AsJob, Event, Job
<1>5. q \in [1..n -> Job]
    BY <1>2, <1>3, <1>4
<1>6. q \in Seq(Job)
    <2> HIDE DEF q, n
    <2> QED
        BY <1>1, <1>5
<1>7. ASSUME NEW e \in S PROVE About(q, b[e].l)
    <2>1. PICK i \in DOMAIN o : o[i] = e
        BY <1>2
    <2>2. i \in DOMAIN q /\ q[i] = AsJob(b[e])
        BY <2>1
    <2> QED
        BY <1>4, <2>2 DEF About
<1> QED
    BY <1>6, <1>7

-----------------------------------------------------------------------------
(***************************************************************************)
(* What the steps do to the outbox, the queue, the relays and the workers. *)
(***************************************************************************)
LEMMA BatchType ==
    ASSUME NEW b
    PROVE  b \in Batch <=> DOMAIN b \subseteq Events /\ b \in [DOMAIN b -> Event]
BY DEF Batch

LEMMA RecordType ==
    ASSUME TypeOK, NEW e \in Events, NEW l \in Listings, NEW act \in Acts,
           Record(e, l, act)
    PROVE  event' \in [Events -> Event \cup {None}]
BY LimitsAssumption DEF TypeOK, Record, Event

LEMMA RelayType ==
    ASSUME TypeOK, NEW r \in Replicas
    PROVE  /\ DOMAIN relay[r].batch \subseteq Events
           /\ relay[r].batch \in [DOMAIN relay[r].batch -> Event]
           /\ relay[r].step \in {"idle", "locked", "queued", "failed"}
BY BatchType DEF TypeOK

LEMMA NoBatch == <<>> \in Batch /\ DOMAIN <<>> = {}
BY DEF Batch

LEMMA WorkerType ==
    ASSUME TypeOK, NEW r \in Replicas, worker[r].step # "idle"
    PROVE  worker[r].job \in Job /\ Subject(r) \in Listings
BY DEF TypeOK, Subject, Job

-----------------------------------------------------------------------------
(***************************************************************************)
(* Types.                                                                  *)
(***************************************************************************)
LEMMA InitType == Init => TypeOK
<1> SUFFICES ASSUME Init PROVE TypeOK
    OBVIOUS
<1>1. <<>> \in Seq(Job)
    OBVIOUS
<1>2. IdleRelay \in [step : {"idle", "locked", "queued", "failed"}, batch : Batch]
    BY NoBatch DEF IdleRelay
<1>3. relay \in [Replicas -> [step : {"idle", "locked", "queued", "failed"}, batch : Batch]]
    BY <1>2 DEF Init
<1>4. /\ worker \in [Replicas -> [step : {"idle", "got", "check", "index", "drop"},
                                 job : Job \cup {None}, seen : 0..MaxText \cup {None}]]
      /\ \A r \in Replicas : worker[r].step = "idle"
    BY DEF Init, IdleWork
<1>5. /\ sweep \in [Sweeps -> [step : {"idle", "next", "flip"}, hide : BOOLEAN,
                              l : Listings \cup {None}, todo : SUBSET Listings]]
      /\ \A s \in Sweeps : sweep[s].step = "idle"
    BY DEF Init, IdleSweep
<1>6. /\ queue \in Seq(Job) /\ delayed \in [Job -> Nat]
      /\ text \in [Listings -> 0..MaxText] /\ faults \in 0..MaxFaults
    BY <1>1, LimitsAssumption DEF Init
<1> QED
    BY <1>3, <1>4, <1>5, <1>6 DEF Init, TypeOK

LEMMA OwnerType == TypeOK /\ OwnerNext => TypeOK'
<1> SUFFICES ASSUME TypeOK, OwnerNext PROVE TypeOK'
    OBVIOUS
<1>1. ASSUME NEW l \in Listings, NEW e \in Events, Create(l, e) PROVE TypeOK'
    <2>1. event' \in [Events -> Event \cup {None}]
        BY <1>1, RecordType DEF Create, Acts
    <2> QED
        BY <1>1, <2>1 DEF TypeOK, Create, account, jobs
<1>2. ASSUME NEW l \in Listings, NEW e \in Events, Edit(l, e) PROVE TypeOK'
    <2>1. event' \in [Events -> Event \cup {None}]
        BY <1>2, RecordType DEF Edit, Acts
    <2>2. text' \in [Listings -> 0..MaxText]
        BY <1>2, LimitsAssumption DEF TypeOK, Edit
    <2> QED
        BY <1>2, <2>1, <2>2 DEF TypeOK, Edit, account, jobs
<1>3. ASSUME NEW l \in Listings, NEW e \in Events, Remove(l, e) PROVE TypeOK'
    <2>1. event' \in [Events -> Event \cup {None}]
        BY <1>3, RecordType DEF Remove, Acts
    <2> QED
        BY <1>3, <2>1 DEF TypeOK, Remove, account, jobs
<1>4. ASSUME SetStatus PROVE TypeOK'
    BY <1>4 DEF TypeOK, SetStatus, rows, jobs
<1>5. ASSUME SetLeaving PROVE TypeOK'
    BY <1>5 DEF TypeOK, SetLeaving, rows, jobs
<1> QED
    BY <1>1, <1>2, <1>3, <1>4, <1>5 DEF OwnerNext

\* What a sweep goes on with.
SweepStates ==
    [step : {"idle", "next", "flip"}, hide : BOOLEAN, l : Listings \cup {None},
     todo : SUBSET Listings]

LEMMA OnwardType ==
    ASSUME TypeOK, NEW s \in Sweeps, NEW l
    PROVE  Onward(s, l) \in SweepStates /\ Onward(s, l).step # "flip"
BY DEF TypeOK, Onward, IdleSweep, SweepStates

LEMMA SweepType == TypeOK /\ SweepNext => TypeOK'
<1> SUFFICES ASSUME TypeOK, NEW s \in Sweeps,
                    \/ SweepStart(s) \/ SweepFail(s)
                    \/ \E l \in Listings : SweepRead(s, l) \/ \E e \in Events : SweepWrite(s, l, e)
             PROVE  TypeOK'
    BY DEF SweepNext
<1> DEFINE Moved == \E n \in SweepStates :
                        /\ n.step = "flip" => n.l # None
                        /\ sweep' = [sweep EXCEPT ![s] = n]
<1>1. ASSUME Moved
      PROVE  /\ sweep' \in [Sweeps -> SweepStates]
             /\ \A q \in Sweeps : sweep'[q].step = "flip" => sweep'[q].l # None
    BY <1>1 DEF TypeOK, SweepStates
<1>2. CASE SweepStart(s)
    <2>1. Moved
        <3> DEFINE n == [step |-> "next", hide |-> ~OwnerOk, l |-> None, todo |-> Listings]
        <3>1. n \in SweepStates /\ n.step # "flip"
            BY DEF SweepStates, OwnerOk
        <3> QED
            BY <1>2, <3>1 DEF SweepStart
    <2> QED
        BY <1>1, <1>2, <2>1 DEF TypeOK, SweepStart, SweepStates, account, rows, jobs
<1>3. CASE SweepFail(s)
    <2>1. IdleSweep \in SweepStates /\ IdleSweep.step # "flip"
        BY DEF IdleSweep, SweepStates
    <2>2. Moved
        BY <1>3, <2>1, OnwardType DEF SweepFail
    <2>3. faults' \in 0..MaxFaults
        BY <1>3, LimitsAssumption DEF TypeOK, SweepFail, Fault
    <2> QED
        BY <1>1, <1>3, <2>2, <2>3 DEF TypeOK, SweepFail, SweepStates, account, rows, jobs
<1>4. ASSUME NEW l \in Listings, SweepRead(s, l) PROVE TypeOK'
    <2>1. Moved
        <3> DEFINE n == [sweep[s] EXCEPT !.step = "flip", !.l = l]
        <3>1. n \in SweepStates /\ n.l # None
            BY NoneAssumption DEF TypeOK, SweepStates
        <3> QED
            BY <1>4, <3>1, OnwardType DEF SweepRead
    <2> QED
        BY <1>1, <1>4, <2>1 DEF TypeOK, SweepRead, SweepStates, account, rows, jobs
<1>5. ASSUME NEW l \in Listings, NEW e \in Events, SweepWrite(s, l, e) PROVE TypeOK'
    <2>1. Moved
        BY <1>5, OnwardType DEF SweepWrite
    <2>2. event' \in [Events -> Event \cup {None}]
        BY <1>5, RecordType DEF SweepWrite, Acts
    <2>3. hidden' \in [Listings -> BOOLEAN]
        BY <1>5 DEF TypeOK, SweepWrite
    <2> QED
        BY <1>1, <1>5, <2>1, <2>2, <2>3
        DEF TypeOK, SweepWrite, SweepStates, account, jobs
<1> QED
    BY <1>2, <1>3, <1>4, <1>5

RelayStates == [step : {"idle", "locked", "queued", "failed"}, batch : Batch]

\* A relay that moves to another state, the others where they were.
LEMMA RelayMoves ==
    ASSUME TypeOK, NEW r \in Replicas, NEW n \in RelayStates,
           relay' = [relay EXCEPT ![r] = n]
    PROVE  relay' \in [Replicas -> RelayStates]
BY DEF TypeOK, RelayStates

\* One that keeps its batch.
LEMMA RelaySteps ==
    ASSUME TypeOK, NEW r \in Replicas,
           NEW step \in {"idle", "locked", "queued", "failed"},
           relay' = [relay EXCEPT ![r].step = step]
    PROVE  /\ relay' \in [Replicas -> RelayStates]
           /\ relay'[r].step = step /\ relay'[r].batch = relay[r].batch
           /\ \A q \in Replicas \ {r} : relay'[q] = relay[q]
<1> DEFINE n == [relay[r] EXCEPT !.step = step]
<1>1. relay[r] \in RelayStates
    BY DEF TypeOK, RelayStates
<1>2. n \in RelayStates /\ n.step = step /\ n.batch = relay[r].batch
    BY <1>1 DEF RelayStates
<1>3. relay' = [relay EXCEPT ![r] = n]
    OBVIOUS
<1>4. /\ relay'[r] = n
      /\ \A q \in Replicas \ {r} : relay'[q] = relay[q]
    BY <1>3 DEF TypeOK
<1> QED
    BY <1>2, <1>3, <1>4, RelayMoves

LEMMA IdleRelayType == IdleRelay \in RelayStates /\ DOMAIN IdleRelay.batch = {}
BY NoBatch DEF IdleRelay, RelayStates

LEMMA RelayTypes == TypeOK /\ (\E r \in Replicas :
        RelayLock(r) \/ RelayStep(r) \/ RelayFail(r)) => TypeOK'
<1> SUFFICES ASSUME TypeOK, NEW r \in Replicas,
                    RelayLock(r) \/ RelayStep(r) \/ RelayFail(r)
             PROVE  TypeOK'
    OBVIOUS
<1>1. CASE RelayLock(r)
    <2>1. PICK S \in SUBSET Events :
            /\ \A e \in S : event[e] # None
            /\ relay' = [relay EXCEPT ![r] =
                    [step |-> "locked", batch |-> [e \in S |-> event[e]]]]
        BY <1>1 DEF RelayLock
    <2>2. [e \in S |-> event[e]] \in Batch
        BY <2>1, BatchType DEF TypeOK
    <2>3. relay' \in [Replicas -> RelayStates]
        BY <2>1, <2>2, RelayMoves DEF RelayStates
    <2> QED
        BY <1>1, <2>3 DEF TypeOK, RelayLock, RelayStates, account, rows, jobs
<1>2. CASE RelayEnqueue(r)
    <2> DEFINE b == relay[r].batch
    <2>1. b \in [DOMAIN b -> Event] /\ DOMAIN b \in SUBSET Events /\ b \in Batch
        BY RelayType DEF TypeOK
    <2>2. PICK o \in Orders(DOMAIN b) :
            queue' = queue \o [i \in DOMAIN o |-> AsJob(b[o[i]])]
        BY <1>2 DEF RelayEnqueue
    <2>3. [i \in DOMAIN o |-> AsJob(b[o[i]])] \in Seq(Job)
        BY <2>1, OrdersType
    <2>4. queue' \in Seq(Job)
        BY <2>2, <2>3, ConcatProperties DEF TypeOK
    <2>5. relay' \in [Replicas -> RelayStates]
        BY <1>2, RelaySteps DEF RelayEnqueue
    <2> QED
        BY <1>2, <2>4, <2>5 DEF TypeOK, RelayEnqueue, RelayStates, account, rows
<1>3. CASE RelayCommit(r)
    <2>1. event' \in [Events -> Event \cup {None}]
        BY <1>3 DEF TypeOK, RelayCommit
    <2>2. relay' \in [Replicas -> RelayStates]
        BY <1>3, IdleRelayType, RelayMoves DEF RelayCommit
    <2> QED
        BY <1>3, <2>1, <2>2 DEF TypeOK, RelayCommit, RelayStates, account, rows, jobs
<1>4. ASSUME NEW e \in Events, RelayBackoff(r, e) PROVE TypeOK'
    <2> DEFINE b == relay[r].batch
               d == b[e]
               rest == DOMAIN b \ {e}
    <2>1. /\ b \in [DOMAIN b -> Event] /\ DOMAIN b \in SUBSET Events
          /\ e \in DOMAIN b /\ d \in Event
        BY <1>4, RelayType DEF RelayBackoff
    <2>2. [f \in rest |-> b[f]] \in Batch
        BY <2>1, BatchType
    <2>3. [step |-> "failed", batch |-> [f \in rest |-> b[f]]] \in RelayStates
        BY <2>2 DEF RelayStates
    <2>4. relay' \in [Replicas -> RelayStates]
        BY <1>4, <2>3, IdleRelayType, RelayMoves DEF RelayBackoff
    <2>5. d.l \in Listings /\ d.attempts \in 0..(MaxAttempts - 1)
        BY <2>1 DEF Event
    <2>6. CASE d.attempts + 1 >= MaxAttempts
        <3>1. event' = [event EXCEPT ![e] = None] /\ lost' = lost \cup {d.l}
            BY <1>4, <2>6 DEF RelayBackoff
        <3>2. event' \in [Events -> Event \cup {None}] /\ lost' \subseteq Listings
            BY <2>5, <3>1 DEF TypeOK
        <3> QED
            BY <1>4, <2>4, <3>2
            DEF TypeOK, RelayBackoff, RelayStates, account, rows, jobs
    <2>7. CASE ~(d.attempts + 1 >= MaxAttempts)
        <3>1. [d EXCEPT !.attempts = @ + 1] \in Event
            BY <2>1, <2>5, <2>7, LimitsAssumption DEF Event
        <3>2. event' = [event EXCEPT ![e] = [d EXCEPT !.attempts = @ + 1]] /\ lost' = lost
            BY <1>4, <2>7 DEF RelayBackoff
        <3>3. event' \in [Events -> Event \cup {None}]
            BY <3>1, <3>2 DEF TypeOK
        <3> QED
            BY <1>4, <2>4, <3>2, <3>3
            DEF TypeOK, RelayBackoff, RelayStates, account, rows, jobs
    <2> QED
        BY <2>6, <2>7
<1>5. CASE RelayFail(r)
    <2>1. relay' \in [Replicas -> RelayStates]
        BY <1>5, RelaySteps DEF RelayFail
    <2>2. faults' \in 0..MaxFaults
        BY <1>5, LimitsAssumption DEF TypeOK, RelayFail, Fault
    <2> QED
        BY <1>5, <2>1, <2>2 DEF TypeOK, RelayFail, RelayStates, account, rows, jobs
<1> QED
    BY <1>1, <1>2, <1>3, <1>4, <1>5 DEF RelayStep

WorkStates == [step : {"idle", "got", "check", "index", "drop"},
               job : Job \cup {None}, seen : 0..MaxText \cup {None}]

\* A worker's state that TypeOK allows.
Sound(w) ==
    /\ w \in WorkStates
    /\ w.step # "idle" => w.job # None
    /\ w.step \in {"check", "index"} => w.seen # None

LEMMA WorkMoves ==
    ASSUME TypeOK, NEW r \in Replicas, NEW w, Sound(w),
           worker' = [worker EXCEPT ![r] = w]
    PROVE  /\ worker' \in [Replicas -> WorkStates]
           /\ \A q \in Replicas : Sound(worker'[q])
BY DEF TypeOK, WorkStates, Sound

LEMMA BecomeType ==
    ASSUME TypeOK, NEW r \in Replicas, worker[r].step # "idle",
           NEW step \in {"got", "check", "index", "drop"},
           NEW seen \in 0..MaxText \cup {None},
           step \in {"check", "index"} => seen # None,
           Become(r, step, seen)
    PROVE  /\ worker' \in [Replicas -> WorkStates]
           /\ \A q \in Replicas : Sound(worker'[q])
<1> DEFINE w == [worker[r] EXCEPT !.step = step, !.seen = seen]
<1>1. worker[r] \in WorkStates /\ worker[r].job # None
    BY DEF TypeOK, WorkStates
<1>2. /\ w \in WorkStates
      /\ w.step = step /\ w.job = worker[r].job /\ w.seen = seen
    BY <1>1 DEF WorkStates
<1>3. Sound(w) /\ worker' = [worker EXCEPT ![r] = w]
    BY <1>1, <1>2 DEF Sound, Become
<1> QED
    BY <1>3, WorkMoves

LEMMA RestType ==
    ASSUME TypeOK, NEW r \in Replicas, Rest(r)
    PROVE  /\ worker' \in [Replicas -> WorkStates]
           /\ \A q \in Replicas : Sound(worker'[q])
<1>1. Sound(IdleWork)
    BY DEF IdleWork, Sound, WorkStates
<1> QED
    BY <1>1, WorkMoves DEF Rest

LEMMA WorkerTypes == TypeOK /\ (\E r \in Replicas :
        Take(r) \/ WorkStep(r) \/ WorkFail(r) \/ IndexFail(r) \/ Crash(r)) => TypeOK'
<1> SUFFICES ASSUME TypeOK, NEW r \in Replicas,
                    Take(r) \/ WorkStep(r) \/ WorkFail(r) \/ IndexFail(r) \/ Crash(r)
             PROVE  TypeOK'
    OBVIOUS
<1> DEFINE WorkersOK == /\ worker' \in [Replicas -> WorkStates]
                        /\ \A q \in Replicas : Sound(worker'[q])
<1>1. CASE Take(r)
    <2>1. Head(queue) \in Job /\ Tail(queue) \in Seq(Job)
        BY <1>1, AboutTail DEF TypeOK, Take
    <2>2. Sound([step |-> IF Head(queue).act = "DELETE" THEN "drop" ELSE "got",
                 job |-> Head(queue), seen |-> None])
        BY <2>1, NoneAssumption DEF Sound, WorkStates
    <2>3. WorkersOK
        BY <1>1, <2>2, WorkMoves DEF Take
    <2> QED
        BY <1>1, <2>1, <2>3 DEF TypeOK, Take, Sound, WorkStates, account, rows
<1>2. CASE Read(r)
    <2>1. Subject(r) \in Listings /\ text[Subject(r)] \in 0..MaxText
        BY <1>2, WorkerType DEF TypeOK, Read
    <2>2. text[Subject(r)] # None
        BY <2>1, NoneAssumption
    <2>3. WorkersOK
        BY <1>2, <2>1, <2>2, BecomeType DEF Read
    <2> QED
        BY <1>2, <2>3 DEF TypeOK, Read, Sound, WorkStates, account, rows, jobs
<1>3. CASE Check(r)
    <2>1. worker[r].seen \in 0..MaxText /\ worker[r].seen # None
        BY <1>3 DEF TypeOK, Check
    <2>2. WorkersOK
        BY <1>3, <2>1, BecomeType DEF Check
    <2> QED
        BY <1>3, <2>2 DEF TypeOK, Check, Sound, WorkStates, account, rows, jobs
<1>4. CASE Index(r)
    <2>1. WorkersOK
        BY <1>4, RestType DEF Index
    <2>2. doc' \in [Listings -> 0..MaxText \cup {None}]
        BY <1>4, WorkerType DEF TypeOK, Index
    <2> QED
        BY <1>4, <2>1, <2>2 DEF TypeOK, Index, Sound, WorkStates, account, rows, jobs
<1>5. CASE Drop(r)
    <2>1. WorkersOK
        BY <1>5, RestType DEF Drop
    <2>2. doc' \in [Listings -> 0..MaxText \cup {None}]
        BY <1>5 DEF TypeOK, Drop
    <2> QED
        BY <1>5, <2>1, <2>2 DEF TypeOK, Drop, Sound, WorkStates, account, rows, jobs
<1>6. CASE WorkFail(r)
    <2>1. WorkersOK /\ faults' \in 0..MaxFaults
        BY <1>6, RestType, LimitsAssumption DEF TypeOK, WorkFail, Fault
    <2>2. Subject(r) \in Listings /\ worker[r].job \in Job
        BY <1>6, WorkerType DEF WorkFail
    <2>3. lost' \subseteq Listings
        BY <1>6, <2>2 DEF TypeOK, WorkFail
    <2>4. delayed' \in [Job -> Nat]
        <3>1. CASE worker[r].job.tries + 1 < MaxTries
            <4> DEFINE j == [worker[r].job EXCEPT !.tries = @ + 1]
            <4>1. j \in Job
                BY <2>2, <3>1, LimitsAssumption DEF Job
            <4>2. delayed' = [delayed EXCEPT ![j] = @ + 1]
                BY <1>6, <3>1 DEF WorkFail
            <4> HIDE DEF j
            <4> QED
                BY <4>1, <4>2 DEF TypeOK
        <3>2. CASE ~(worker[r].job.tries + 1 < MaxTries)
            BY <1>6, <3>2 DEF TypeOK, WorkFail
        <3> QED
            BY <3>1, <3>2
    <2> QED
        BY <1>6, <2>1, <2>3, <2>4 DEF TypeOK, WorkFail, Sound, WorkStates, account, rows
<1>7. CASE IndexFail(r)
    <2>1. WorkersOK /\ faults' \in 0..MaxFaults
        BY <1>7, RestType, LimitsAssumption DEF TypeOK, IndexFail, Fault
    <2>2. lost' \subseteq Listings
        BY <1>7, WorkerType DEF TypeOK, IndexFail
    <2> QED
        BY <1>7, <2>1, <2>2 DEF TypeOK, IndexFail, Sound, WorkStates, account, rows, jobs
<1>8. CASE Crash(r)
    <2>1. WorkersOK /\ faults' \in 0..MaxFaults
        BY <1>8, RestType, LimitsAssumption DEF TypeOK, Crash, Fault
    <2>2. relay' \in [Replicas -> RelayStates]
        BY <1>8, IdleRelayType, RelayMoves DEF Crash
    <2>3. queue' \in Seq(Job)
        <3>1. CASE worker[r].step = "idle"
            BY <1>8, <3>1 DEF TypeOK, Crash
        <3>2. CASE worker[r].step # "idle"
            <4>1. worker[r].job \in Job
                BY <3>2, WorkerType
            <4>2. <<worker[r].job>> \in Seq(Job)
                BY <4>1, AboutOne
            <4>3. <<worker[r].job>> \o queue \in Seq(Job)
                BY <4>2, ConcatProperties DEF TypeOK
            <4> QED
                BY <1>8, <3>2, <4>3 DEF Crash
        <3> QED
            BY <3>1, <3>2
    <2> QED
        BY <1>8, <2>1, <2>2, <2>3
        DEF TypeOK, Crash, Sound, WorkStates, RelayStates, account, rows
<1> QED
    BY <1>1, <1>2, <1>3, <1>4, <1>5, <1>6, <1>7, <1>8 DEF WorkStep

LEMMA PromoteType ==
    ASSUME TypeOK, NEW j \in Job, Promote(j)
    PROVE  TypeOK'
<1>1. queue' \in Seq(Job)
    BY DEF TypeOK, Promote
<1>2. delayed' \in [Job -> Nat]
    BY DEF TypeOK, Promote
<1> QED
    BY <1>1, <1>2 DEF TypeOK, Promote, account, rows

LEMMA NextType == TypeOK /\ [Next]_vars => TypeOK'
<1>1. ASSUME TypeOK, UNCHANGED vars PROVE TypeOK'
    BY <1>1 DEF TypeOK, vars
<1>2. TypeOK /\ ReplicaNext => TypeOK'
    BY RelayTypes, WorkerTypes, PromoteType DEF ReplicaNext
<1> QED
    BY <1>1, <1>2, OwnerType, SweepType DEF Next

\* Every variable has its type: an event is retried less than MaxAttempts times
\* and a job less than MaxTries, whatever relays and workers do at once.
THEOREM TypeCorrect == Spec => []TypeOK
<1> QED
    BY InitType, NextType, PTL DEF Spec

-----------------------------------------------------------------------------
(***************************************************************************)
(* One replica: its relay and its worker are the only ones.                *)
(***************************************************************************)
OneReplica == \A p, q \in Replicas : p = q

\* What a relay goes by is what the outbox says: nobody else relays.
BatchIsEvent ==
    \A r \in Replicas : \A e \in DOMAIN relay[r].batch : event[e] = relay[r].batch[e]

IndexInv == TypeOK /\ BatchIsEvent /\ ListedIsCurrent /\ HeldIsCurrent

\* A listing whose document is wrong, and nothing is under way to right it.
Astray(l) == doc[l] # Wanted(l) /\ ~Settling(l) /\ l \notin lost

\* What a step may do to the documents: one that goes astray is gone, and it was
\* astray before or has just been dropped.
NoneStray ==
    \A l \in Listings : Astray(l)' =>
        /\ doc'[l] = None
        /\ Astray(l) \/ \E r \in Replicas : Drop(r) /\ Subject(r) = l

\* A step after which no listing is up to date that was not so before.
StayBehind == \A l \in Listings : Behind(l) => Behind(l)'

\* Nothing of the outbox and the queue has moved.
LEMMA StillComing ==
    ASSUME UNCHANGED <<event, queue, delayed, relay>>, NEW l
    PROVE  (Coming(l)' <=> Coming(l)) /\ (BatchIsEvent => BatchIsEvent')
BY DEF Coming, Unsent, Waiting, Enqueued, BatchIsEvent

\* A recorded event makes another look at its listing come, and takes none away.
LEMMA RecordComing ==
    ASSUME TypeOK, BatchIsEvent,
           NEW e \in Events, NEW l \in Listings, NEW act \in Acts, Record(e, l, act),
           UNCHANGED <<queue, delayed, relay>>
    PROVE  /\ \A k \in Listings : Coming(k) \/ k = l => Coming(k)'
           /\ BatchIsEvent'
<1> DEFINE d == [l |-> l, act |-> act, attempts |-> 0]
<1>1. /\ event' = [event EXCEPT ![e] = d] /\ event[e] = None
      /\ \A r \in Replicas : e \notin DOMAIN relay[r].batch
    BY DEF Record
<1>2. d \in Event /\ d.l = l
    BY LimitsAssumption DEF Event
<1>3. d # None
    BY <1>2, NoneAssumption
<1>4. event'[e] = d /\ \A f \in Events \ {e} : event'[f] = event[f]
    BY <1>1 DEF TypeOK
<1> HIDE DEF d
<1>5. ~Enqueued(e)'
    BY <1>1 DEF Enqueued
<1>6. Coming(l)'
    BY <1>2, <1>3, <1>4, <1>5 DEF Coming, Unsent
<1>7. ASSUME NEW k \in Listings, Coming(k) PROVE Coming(k)'
    <2>1. CASE Waiting(k)
        BY <2>1 DEF Coming, Waiting
    <2>2. CASE Unsent(k)
        BY <1>1, <1>4, <2>2 DEF Coming, Unsent, Enqueued
    <2> QED
        BY <1>7, <2>1, <2>2 DEF Coming
<1>8. BatchIsEvent'
    BY <1>1, <1>4, RelayType DEF BatchIsEvent
<1> QED
    BY <1>6, <1>7, <1>8

\* What is so of a step that leaves the index and the workers alone, if every
\* change of a row makes another look at it come.
LEMMA QuietKeeps ==
    ASSUME TypeOK, ListedIsCurrent, HeldIsCurrent,
           UNCHANGED <<doc, worker>>, lost \subseteq lost',
           \A k \in Listings : Coming(k) => Coming(k)' \/ k \in lost',
           \A k \in Listings : Wanted(k)' = Wanted(k) \/ Coming(k)'
    PROVE  NoneStray /\ StayBehind /\ HeldIsCurrent'
<1>1. ASSUME NEW r \in Replicas, worker[r].step # "idle"
      PROVE  Subject(r) \in Listings /\ Subject(r)' = Subject(r)
    BY <1>1, WorkerType DEF Subject
<1>2. \A r \in Replicas : Holds(r)' = Holds(r) /\ (Holds(r) => worker[r].step # "idle")
    BY DEF Holds
<1>3. ASSUME NEW k \in Listings, Astray(k)'
      PROVE  doc'[k] = None /\ Astray(k)
    <2>1. ~Coming(k)' /\ ~Settling(k)' /\ k \notin lost' /\ doc[k] # Wanted(k)'
        BY <1>3 DEF Astray, Settling
    <2>2. Wanted(k)' = Wanted(k) /\ ~Coming(k) /\ k \notin lost
        BY <2>1
    <2>3. ASSUME Settling(k) PROVE FALSE
        <3>1. PICK r \in Replicas :
                /\ worker[r].step # "idle" /\ Subject(r) = k
                /\ Holds(r) => worker[r].seen = Wanted(k)
            BY <2>2, <2>3 DEF Settling
        <3> QED
            BY <1>1, <1>2, <2>1, <2>2, <3>1 DEF Settling
    <2> QED
        BY <2>1, <2>2, <2>3 DEF Astray, ListedIsCurrent
<1>4. HeldIsCurrent'
    BY <1>1, <1>2 DEF HeldIsCurrent
<1>5. ASSUME NEW k \in Listings, Behind(k), ~Coming(k)', k \notin lost'
      PROVE  Settling(k)'
    <2>1. Wanted(k)' = Wanted(k) /\ Settling(k) /\ ~Coming(k)
        BY <1>5 DEF Behind
    <2>2. PICK r \in Replicas :
            /\ worker[r].step # "idle" /\ Subject(r) = k
            /\ Holds(r) => worker[r].seen = Wanted(k)
        BY <2>1 DEF Settling
    <2> QED
        BY <1>1, <1>2, <2>1, <2>2 DEF Settling
<1>6. StayBehind
    BY <1>5 DEF StayBehind, Behind, Settling
<1> QED
    BY <1>3, <1>4, <1>6 DEF NoneStray

LEMMA InitIndex == Init => IndexInv
<1>1. Init => BatchIsEvent
    BY NoBatch DEF Init, BatchIsEvent, IdleRelay
<1>2. Init => ListedIsCurrent
    BY DEF Init, ListedIsCurrent
<1>3. Init => HeldIsCurrent
    BY DEF Init, HeldIsCurrent, Holds, IdleWork
<1> QED
    BY <1>1, <1>2, <1>3, InitType DEF IndexInv

LEMMA OwnerIndex == IndexInv /\ OwnerNext => BatchIsEvent' /\ NoneStray /\ StayBehind /\ HeldIsCurrent'
<1> SUFFICES ASSUME IndexInv, OwnerNext
             PROVE  BatchIsEvent' /\ NoneStray /\ StayBehind /\ HeldIsCurrent'
    OBVIOUS
<1> USE DEF IndexInv
<1>1. ASSUME NEW l \in Listings, NEW e \in Events,
             Create(l, e) \/ Edit(l, e) \/ Remove(l, e)
      PROVE  BatchIsEvent' /\ NoneStray /\ StayBehind /\ HeldIsCurrent'
    <2>1. PICK act \in Acts : Record(e, l, act)
        BY <1>1 DEF Create, Edit, Remove, Acts
    <2>2. /\ UNCHANGED <<queue, delayed, relay, doc, worker, lost>>
          /\ \A k \in Listings \ {l} : Wanted(k)' = Wanted(k)
        BY <1>1 DEF TypeOK, Create, Edit, Remove, jobs, Wanted, Shown
    <2>3. BatchIsEvent' /\ \A k \in Listings : Coming(k) \/ k = l => Coming(k)'
        BY <2>1, <2>2, RecordComing
    <2> QED
        BY <2>2, <2>3, QuietKeeps
<1>2. ASSUME SetStatus \/ SetLeaving
      PROVE  BatchIsEvent' /\ NoneStray /\ StayBehind /\ HeldIsCurrent'
    <2>1. /\ UNCHANGED <<event, queue, delayed, relay, doc, worker, lost>>
          /\ \A k \in Listings : Wanted(k)' = Wanted(k)
        BY <1>2 DEF SetStatus, SetLeaving, jobs, rows, Wanted, Shown
    <2> QED
        BY <2>1, StillComing, QuietKeeps
<1> QED
    BY <1>1, <1>2 DEF OwnerNext

LEMMA SweepIndex == IndexInv /\ SweepNext => BatchIsEvent' /\ NoneStray /\ StayBehind /\ HeldIsCurrent'
<1> SUFFICES ASSUME IndexInv, NEW s \in Sweeps,
                    \/ SweepStart(s) \/ SweepFail(s)
                    \/ \E l \in Listings : SweepRead(s, l) \/ \E e \in Events : SweepWrite(s, l, e)
             PROVE  BatchIsEvent' /\ NoneStray /\ StayBehind /\ HeldIsCurrent'
    BY DEF SweepNext
<1> USE DEF IndexInv
<1>1. ASSUME SweepStart(s) \/ SweepFail(s) \/ \E l \in Listings : SweepRead(s, l)
      PROVE  BatchIsEvent' /\ NoneStray /\ StayBehind /\ HeldIsCurrent'
    <2>1. /\ UNCHANGED <<event, queue, delayed, relay, doc, worker, lost>>
          /\ \A k \in Listings : Wanted(k)' = Wanted(k)
        BY <1>1 DEF SweepStart, SweepFail, SweepRead, jobs, rows, Wanted, Shown
    <2> QED
        BY <2>1, StillComing, QuietKeeps
<1>2. ASSUME NEW l \in Listings, NEW e \in Events, SweepWrite(s, l, e)
      PROVE  BatchIsEvent' /\ NoneStray /\ StayBehind /\ HeldIsCurrent'
    <2>1. PICK act \in Acts : Record(e, l, act)
        BY <1>2 DEF SweepWrite, Acts
    <2>2. /\ UNCHANGED <<queue, delayed, relay, doc, worker, lost>>
          /\ \A k \in Listings \ {l} : Wanted(k)' = Wanted(k)
        BY <1>2 DEF TypeOK, SweepWrite, jobs, Wanted, Shown
    <2>3. BatchIsEvent' /\ \A k \in Listings : Coming(k) \/ k = l => Coming(k)'
        BY <2>1, <2>2, RecordComing
    <2> QED
        BY <2>2, <2>3, QuietKeeps
<1> QED
    BY <1>1, <1>2

LEMMA RelayIndex ==
    ASSUME OneReplica, IndexInv, NEW r \in Replicas,
           RelayLock(r) \/ RelayStep(r) \/ RelayFail(r)
    PROVE  BatchIsEvent' /\ NoneStray /\ StayBehind /\ HeldIsCurrent'
<1> USE DEF IndexInv
<1> DEFINE b == relay[r].batch
           Quiet == /\ UNCHANGED <<doc, worker, row, hidden, text>>
                    /\ lost \subseteq lost'
                    /\ \A k \in Listings : Coming(k) => Coming(k)' \/ k \in lost'
<1>1. ASSUME Quiet PROVE NoneStray /\ StayBehind /\ HeldIsCurrent'
    <2>1. \A k \in Listings : Wanted(k)' = Wanted(k)
        BY <1>1 DEF Wanted, Shown
    <2> QED
        BY <1>1, <2>1, QuietKeeps
<1>2. \A q \in Replicas : q = r
    BY DEF OneReplica
<1>3. /\ b \in [DOMAIN b -> Event] /\ DOMAIN b \in SUBSET Events
      /\ \A e \in DOMAIN b : event[e] = b[e]
    BY RelayType DEF BatchIsEvent
<1>4. CASE RelayLock(r)
    <2>1. PICK S \in SUBSET Events :
            relay' = [relay EXCEPT ![r] = [step |-> "locked", batch |-> [e \in S |-> event[e]]]]
        BY <1>4 DEF RelayLock
    <2>2. /\ relay'[r].step = "locked" /\ relay'[r].batch = [e \in S |-> event[e]]
          /\ event' = event /\ queue' = queue /\ delayed' = delayed
        BY <1>4, <2>1 DEF RelayLock, TypeOK, jobs
    <2>3. \A e \in Events : ~Enqueued(e)'
        BY <1>2, <2>2 DEF Enqueued
    <2>4. \A k \in Listings : Coming(k) => Coming(k)'
        BY <2>2, <2>3 DEF Coming, Unsent, Waiting
    <2>5. BatchIsEvent'
        BY <1>2, <2>2 DEF BatchIsEvent
    <2>6. Quiet
        BY <1>4, <2>4 DEF RelayLock, rows
    <2> QED
        BY <1>1, <2>5, <2>6
<1>5. CASE RelayEnqueue(r)
    <2>1. PICK o \in Orders(DOMAIN b) :
            queue' = queue \o [i \in DOMAIN o |-> AsJob(b[o[i]])]
        BY <1>5 DEF RelayEnqueue
    <2> DEFINE q == [i \in DOMAIN o |-> AsJob(b[o[i]])]
    <2>2. q \in Seq(Job) /\ \A e \in DOMAIN b : About(q, b[e].l)
        BY <1>3, OrdersType
    <2>3. queue \in Seq(Job) /\ queue' = queue \o q
        BY <2>1 DEF TypeOK
    <2> HIDE DEF q
    <2>4. \A l : About(queue', l) <=> About(queue, l) \/ About(q, l)
        BY <2>2, <2>3, AboutConcat
    <2>5. relay'[r].batch = b /\ event' = event /\ delayed' = delayed
        BY <1>5, RelaySteps DEF RelayEnqueue
    <2>6. ASSUME NEW k \in Listings, Coming(k) PROVE Coming(k)'
        <3>1. CASE Waiting(k)
            BY <2>4, <2>5, <3>1 DEF Coming, Waiting, About
        <3>2. CASE Unsent(k)
            <4>1. PICK e \in Events : event[e] # None /\ event[e].l = k /\ ~Enqueued(e)
                BY <3>2 DEF Unsent
            <4>2. CASE e \in DOMAIN b
                <5>1. About(queue', k)
                    BY <1>3, <2>2, <2>4, <4>1, <4>2
                <5> QED
                    BY <5>1 DEF Coming, Waiting, About
            <4>3. CASE e \notin DOMAIN b
                BY <1>2, <2>5, <4>1, <4>3 DEF Coming, Unsent, Enqueued
            <4> QED
                BY <4>2, <4>3
        <3> QED
            BY <2>6, <3>1, <3>2 DEF Coming
    <2>7. BatchIsEvent'
        BY <1>2, <1>3, <2>5 DEF BatchIsEvent
    <2>8. Quiet
        BY <1>5, <2>6 DEF RelayEnqueue, rows
    <2> QED
        BY <1>1, <2>7, <2>8
<1>6. CASE RelayCommit(r)
    <2>1. relay'[r].batch = <<>> /\ relay'[r].step = "idle"
        BY <1>6 DEF RelayCommit, IdleRelay, TypeOK
    <2>2. \A e \in Events : ~Enqueued(e)'
        BY <1>2, <2>1 DEF Enqueued
    <2>3. /\ \A e \in Events : e \in DOMAIN b => Enqueued(e)
          /\ \A e \in Events : e \notin DOMAIN b => event'[e] = event[e]
          /\ queue' = queue /\ delayed' = delayed
        BY <1>6 DEF RelayCommit, Enqueued, jobs
    <2>4. \A k \in Listings : Coming(k) => Coming(k)'
        BY <2>2, <2>3 DEF Coming, Unsent, Waiting
    <2>5. BatchIsEvent'
        BY <1>2, <2>1, NoBatch DEF BatchIsEvent
    <2>6. Quiet
        BY <1>6, <2>4 DEF RelayCommit, rows
    <2> QED
        BY <1>1, <2>5, <2>6
<1>7. ASSUME NEW e \in Events, RelayBackoff(r, e)
      PROVE  BatchIsEvent' /\ NoneStray /\ StayBehind /\ HeldIsCurrent'
    <2> DEFINE d    == b[e]
               rest == DOMAIN b \ {e}
               n    == IF rest = {} THEN IdleRelay
                       ELSE [step |-> "failed", batch |-> [f \in rest |-> b[f]]]
    <2>1. e \in DOMAIN b /\ d \in Event /\ event[e] = d
        BY <1>3, <1>7 DEF RelayBackoff
    <2>2. relay'[r] = n
        BY <1>7 DEF RelayBackoff, TypeOK
    <2>3. /\ n.step # "queued" /\ DOMAIN n.batch = rest
          /\ \A f \in rest : n.batch[f] = b[f]
        BY NoBatch DEF IdleRelay
    <2> HIDE DEF n
    <2>4. \A f \in Events : ~Enqueued(f)'
        BY <1>2, <2>2, <2>3 DEF Enqueued
    <2>5. /\ \A f \in Events \ {e} : event'[f] = event[f]
          /\ queue' = queue /\ delayed' = delayed
        BY <1>7 DEF RelayBackoff, TypeOK, jobs
    <2>6. d.l \in lost' \/ (event'[e] # None /\ event'[e].l = d.l)
        <3>1. CASE d.attempts + 1 >= MaxAttempts
            BY <1>7, <3>1 DEF RelayBackoff
        <3>2. CASE ~(d.attempts + 1 >= MaxAttempts)
            <4> DEFINE v == [d EXCEPT !.attempts = @ + 1]
            <4>1. v \in Event /\ v.l = d.l
                BY <2>1, <3>2, LimitsAssumption DEF Event
            <4>2. event' = [event EXCEPT ![e] = v]
                BY <1>7, <3>2 DEF RelayBackoff
            <4> HIDE DEF v
            <4>3. event'[e] = v
                BY <4>2 DEF TypeOK
            <4> QED
                BY <4>1, <4>3, NoneAssumption
        <3> QED
            BY <3>1, <3>2
    <2>7. \A k \in Listings : Coming(k) => Coming(k)' \/ k \in lost'
        BY <2>1, <2>4, <2>5, <2>6 DEF Coming, Unsent, Waiting
    <2>8. BatchIsEvent'
        BY <1>2, <1>3, <2>2, <2>3, <2>5 DEF BatchIsEvent
    <2>9. Quiet
        BY <1>7, <2>7 DEF RelayBackoff, rows
    <2> QED
        BY <1>1, <2>8, <2>9
<1>8. CASE RelayFail(r)
    <2>1. /\ relay'[r].step = "failed" /\ relay'[r].batch = b
          /\ event' = event /\ queue' = queue /\ delayed' = delayed
        BY <1>8, RelaySteps DEF RelayFail, jobs
    <2>2. \A e \in Events : ~Enqueued(e)'
        BY <1>2, <2>1 DEF Enqueued
    <2>3. \A k \in Listings : Coming(k) => Coming(k)'
        BY <2>1, <2>2 DEF Coming, Unsent, Waiting
    <2>4. BatchIsEvent'
        BY <1>2, <1>3, <2>1 DEF BatchIsEvent
    <2>5. Quiet
        BY <1>8, <2>3 DEF RelayFail, rows
    <2> QED
        BY <1>1, <2>4, <2>5
<1> QED
    BY <1>4, <1>5, <1>6, <1>7, <1>8 DEF RelayStep

LEMMA WorkerIndex ==
    ASSUME OneReplica, IndexInv, NEW r \in Replicas,
           Take(r) \/ WorkStep(r) \/ WorkFail(r) \/ IndexFail(r) \/ Crash(r)
    PROVE  /\ BatchIsEvent' /\ NoneStray /\ HeldIsCurrent'
           /\ StayBehind \/ Index(r) \/ Drop(r)
<1> USE DEF IndexInv
<1> DEFINE w == worker[r]
           SameOutbox == UNCHANGED <<event, queue, delayed, relay>>
           SameRows == UNCHANGED <<row, hidden, text>>
<1>1. \A q \in Replicas : q = r
    BY DEF OneReplica
<1>2. \A k : SameRows => Wanted(k)' = Wanted(k)
    BY DEF Wanted, Shown
<1>3. \A k : SameOutbox => (Coming(k)' <=> Coming(k))
    BY StillComing
<1>4. SameOutbox => BatchIsEvent'
    BY StillComing
<1>5. ASSUME NEW step, NEW seen, Become(r, step, seen)
      PROVE  worker'[r].step = step /\ worker'[r].seen = seen /\ worker'[r].job = w.job
    BY <1>5 DEF Become, TypeOK
<1>6. ASSUME Rest(r) PROVE worker'[r].step = "idle"
    BY <1>6 DEF Rest, IdleWork, TypeOK
<1>0. PICK l : w.step # "idle" => Subject(r) = l /\ l \in Listings
    BY WorkerType
\* A worker that rests has left the index as it should be, or given up, or its
\* job comes back.
<1>7. ASSUME Rest(r), SameRows, lost \subseteq lost',
             \A k \in Listings : Coming(k) => Coming(k)',
             w.step = "idle" => UNCHANGED doc,
             w.step # "idle" =>
                /\ \A k \in Listings \ {l} : doc'[k] = doc[k]
                /\ \/ doc'[l] = Wanted(l) \/ Coming(l)' \/ l \in lost'
                   \/ Drop(r) /\ doc'[l] = None
      PROVE  /\ NoneStray /\ HeldIsCurrent'
             /\ (w.step # "idle" => Coming(l)' \/ l \in lost') => StayBehind
    <2>1. HeldIsCurrent'
        BY <1>1, <1>6, <1>7 DEF HeldIsCurrent, Holds
    <2>2. ASSUME NEW k \in Listings, Astray(k)'
          PROVE  /\ doc'[k] = None
                 /\ Astray(k) \/ \E q \in Replicas : Drop(q) /\ Subject(q) = k
        <3>1. ~Coming(k)' /\ k \notin lost' /\ doc'[k] # Wanted(k)
            BY <1>2, <1>7, <2>2 DEF Astray, Settling
        <3>2. CASE w.step # "idle" /\ k = l
            BY <1>0, <1>7, <3>1, <3>2
        <3>3. CASE ~(w.step # "idle" /\ k = l)
            <4>1. doc'[k] = doc[k]
                BY <1>7, <3>3
            <4>2. ~Settling(k)
                BY <1>1, <1>0, <1>7, <3>1, <3>3 DEF Settling
            <4> QED
                BY <1>7, <3>1, <4>1, <4>2 DEF Astray, ListedIsCurrent
        <3> QED
            BY <3>2, <3>3
    <2>3. ASSUME w.step # "idle" => Coming(l)' \/ l \in lost'
          PROVE  StayBehind
        BY <1>0, <1>1, <1>7, <2>3 DEF StayBehind, Behind, Settling
    <2> QED
        BY <2>1, <2>2, <2>3 DEF NoneStray
\* A worker that goes on settles its listing.
<1>8. ASSUME w.step # "idle", SameOutbox, SameRows, UNCHANGED <<doc, lost>>,
             worker'[r].job = w.job, worker'[r].step \in {"check", "index", "drop"},
             worker'[r].step # "drop" =>
                \/ worker'[r].seen = Wanted(Subject(r))
                \/ Coming(Subject(r)) \/ Subject(r) \in lost
      PROVE  NoneStray /\ StayBehind /\ HeldIsCurrent'
    <2>1. Subject(r)' = Subject(r) /\ Subject(r) \in Listings
        BY <1>8, WorkerType DEF Subject
    <2>2. HeldIsCurrent'
        BY <1>1, <1>2, <1>3, <1>8, <2>1 DEF HeldIsCurrent, Holds
    <2>3. ASSUME NEW k \in Listings, Astray(k)'
          PROVE  doc'[k] = None /\ Astray(k)
        <3>1. ~Settling(k)' /\ ~Coming(k)' /\ k \notin lost /\ doc[k] # Wanted(k)
            BY <1>2, <1>8, <2>3 DEF Astray, Settling
        <3>2. k # Subject(r)
            BY <1>2, <1>3, <1>8, <2>1, <3>1 DEF Settling, Holds
        <3>3. ~Settling(k)
            BY <1>1, <1>3, <1>8, <3>1, <3>2 DEF Settling
        <3> QED
            BY <1>8, <3>1, <3>3 DEF Astray, ListedIsCurrent
    <2>4. ASSUME NEW k \in Listings, Behind(k) PROVE Behind(k)'
        <3>1. CASE k = Subject(r)
            BY <1>2, <1>3, <1>8, <2>1, <3>1 DEF Behind, Settling, Holds
        <3>2. CASE k # Subject(r)
            BY <1>1, <1>3, <1>8, <2>4, <3>2 DEF Behind, Settling
        <3> QED
            BY <3>1, <3>2
    <2> QED
        BY <2>2, <2>3, <2>4 DEF NoneStray, StayBehind
<1>9. CASE Take(r)
    <2>1. /\ worker'[r].job = Head(queue) /\ worker'[r].step \in {"drop", "got"}
          /\ w.step = "idle" /\ queue # <<>> /\ queue' = Tail(queue)
          /\ UNCHANGED <<event, delayed, relay, row, hidden, text, doc, lost>>
        BY <1>9 DEF Take, TypeOK, rows
    <2>2. BatchIsEvent'
        BY <2>1 DEF BatchIsEvent
    <2>3. HeldIsCurrent'
        BY <1>1, <2>1 DEF HeldIsCurrent, Holds
    <2>4. \A k : About(queue, k) => Head(queue).l = k \/ About(queue', k)
        BY <2>1, AboutTail DEF TypeOK
    <2>5. \A k \in Listings : Coming(k) => Coming(k)' \/ k = Head(queue).l
        BY <2>1, <2>4 DEF Coming, Unsent, Waiting, Enqueued, About
    <2>6. Subject(r)' = Head(queue).l
        BY <2>1 DEF Subject
    <2>7. \A k \in Listings : Settling(k) => Coming(k)
        BY <1>1, <2>1 DEF Settling
    <2>8. ASSUME NEW k \in Listings, Settling(k) PROVE Settling(k)'
        BY <2>1, <2>5, <2>6, <2>7, <2>8 DEF Settling, Holds
    <2>9. NoneStray
        BY <1>2, <2>1, <2>8 DEF NoneStray, Astray, ListedIsCurrent
    <2>10. StayBehind
        BY <2>1, <2>8 DEF StayBehind, Behind
    <2> QED
        BY <2>2, <2>3, <2>9, <2>10
<1>10. CASE Read(r)
    <2>1. SameOutbox /\ SameRows /\ UNCHANGED <<doc, lost>>
        BY <1>10 DEF Read, jobs, rows
    <2>2. CASE Shown(Subject(r))
        <3>1. Become(r, "check", text[Subject(r)])
            BY <1>10, <2>2 DEF Read
        <3>2. text[Subject(r)] = Wanted(Subject(r))
            BY <2>2 DEF Wanted
        <3> QED
            BY <1>4, <1>5, <1>8, <1>10, <2>1, <3>1, <3>2 DEF Read
    <2>3. CASE ~Shown(Subject(r))
        <3>1. Become(r, "drop", None)
            BY <1>10, <2>3 DEF Read
        <3> QED
            BY <1>4, <1>5, <1>8, <1>10, <2>1, <3>1 DEF Read
    <2> QED
        BY <2>2, <2>3
<1>11. CASE Check(r)
    <2>1. SameOutbox /\ SameRows /\ UNCHANGED <<doc, lost>>
        BY <1>11 DEF Check, jobs, rows
    <2>2. w.seen = Wanted(Subject(r)) \/ Coming(Subject(r)) \/ Subject(r) \in lost
        BY <1>11 DEF Check, HeldIsCurrent, Holds
    <2>3. \/ Become(r, "index", w.seen) \/ Become(r, "drop", None)
        BY <1>11 DEF Check
    <2> QED
        BY <1>4, <1>5, <1>8, <1>11, <2>1, <2>2, <2>3 DEF Check
<1>12. CASE Index(r)
    <2>1. SameOutbox /\ SameRows /\ UNCHANGED lost /\ Rest(r)
        BY <1>12 DEF Index, jobs, rows
    <2>2. w.seen = Wanted(Subject(r)) \/ Coming(Subject(r)) \/ Subject(r) \in lost
        BY <1>12 DEF Index, HeldIsCurrent, Holds
    <2>3. w.step # "idle" /\ doc' = [doc EXCEPT ![Subject(r)] = w.seen]
        BY <1>12 DEF Index
    <2>4. /\ \A k \in Listings \ {l} : doc'[k] = doc[k]
          /\ doc'[l] = w.seen
        BY <1>0, <2>3 DEF TypeOK
    <2>5. \A k \in Listings : Coming(k) => Coming(k)'
        BY <1>3, <2>1
    <2>6. doc'[l] = Wanted(l) \/ Coming(l)' \/ l \in lost'
        BY <1>0, <2>1, <2>2, <2>3, <2>4, <2>5
    <2> QED
        BY <1>4, <1>7, <1>12, <2>1, <2>3, <2>4, <2>5, <2>6
<1>13. CASE Drop(r)
    <2>1. SameOutbox /\ SameRows /\ UNCHANGED lost /\ Rest(r)
        BY <1>13 DEF Drop, jobs, rows
    <2>2. w.step # "idle" /\ doc' = [doc EXCEPT ![Subject(r)] = None]
        BY <1>13 DEF Drop
    <2>3. /\ \A k \in Listings \ {l} : doc'[k] = doc[k]
          /\ doc'[l] = None
        BY <1>0, <2>2 DEF TypeOK
    <2> QED
        BY <1>3, <1>4, <1>7, <1>13, <2>1, <2>2, <2>3
<1>14. CASE WorkFail(r)
    <2> DEFINE j == [w.job EXCEPT !.tries = @ + 1]
    <2>1. /\ UNCHANGED <<event, queue, relay, row, hidden, text, doc>>
          /\ Rest(r) /\ w.step # "idle" /\ lost \subseteq lost'
        BY <1>14 DEF WorkFail, rows
    <2>2. w.job \in Job /\ w.job.l = l
        BY <1>0, <2>1, WorkerType DEF Subject
    <2>3. CASE w.job.tries + 1 < MaxTries
        <3>1. j \in Job /\ j.l = l
            BY <2>2, <2>3, LimitsAssumption DEF Job
        <3>2. delayed' = [delayed EXCEPT ![j] = @ + 1]
            BY <1>14, <2>3 DEF WorkFail
        <3> HIDE DEF j
        <3>3. /\ delayed'[j] > 0
              /\ \A i \in Job : delayed[i] > 0 => delayed'[i] > 0
            BY <3>1, <3>2 DEF TypeOK
        <3>4. Coming(l)'
            BY <3>1, <3>3 DEF Coming, Waiting
        <3>5. \A k \in Listings : Coming(k) => Coming(k)'
            BY <2>1, <3>3 DEF Coming, Unsent, Waiting, Enqueued
        <3>6. BatchIsEvent'
            BY <2>1 DEF BatchIsEvent
        <3> QED
            BY <1>7, <2>1, <3>4, <3>5, <3>6
    <2>4. CASE ~(w.job.tries + 1 < MaxTries)
        <3>1. SameOutbox /\ l \in lost'
            BY <1>14, <1>0, <2>1, <2>4 DEF WorkFail
        <3> QED
            BY <1>3, <1>4, <1>7, <2>1, <3>1
    <2> QED
        BY <2>3, <2>4
<1>15. CASE IndexFail(r)
    <2>1. /\ SameOutbox /\ SameRows /\ UNCHANGED doc /\ Rest(r) /\ w.step # "idle"
          /\ lost \subseteq lost' /\ l \in lost'
        BY <1>15, <1>0 DEF IndexFail, jobs, rows
    <2> QED
        BY <1>3, <1>4, <1>7, <2>1
<1>16. CASE Crash(r)
    <2>1. /\ UNCHANGED <<event, delayed, row, hidden, text, doc, lost>> /\ Rest(r)
          /\ relay'[r].step = "idle" /\ relay'[r].batch = <<>>
        BY <1>16 DEF Crash, rows, IdleRelay, TypeOK
    <2>2. \A e \in Events : ~Enqueued(e)'
        BY <1>1, <2>1 DEF Enqueued
    <2>3. BatchIsEvent'
        BY <1>1, <2>1, NoBatch DEF BatchIsEvent
    <2>4. /\ \A k : About(queue, k) => About(queue', k)
          /\ w.step # "idle" => About(queue', l)
        <3>1. CASE w.step = "idle"
            BY <1>16, <3>1 DEF Crash
        <3>2. CASE w.step # "idle"
            <4>1. w.job \in Job /\ queue \in Seq(Job) /\ queue' = <<w.job>> \o queue
                BY <1>16, <3>2, WorkerType DEF Crash, TypeOK
            <4>2. \A k : About(queue', k) <=> w.job.l = k \/ About(queue, k)
                BY <4>1, AboutOne, AboutConcat
            <4> QED
                BY <1>0, <3>2, <4>2 DEF Subject
        <3> QED
            BY <3>1, <3>2
    <2>5. \A k \in Listings : Coming(k) => Coming(k)'
        BY <2>1, <2>2, <2>4 DEF Coming, Unsent, Waiting, About
    <2>6. w.step # "idle" => Coming(l)'
        BY <2>4 DEF Coming, Waiting, About
    <2> QED
        BY <1>7, <2>1, <2>3, <2>5, <2>6
<1> QED
    BY <1>9, <1>10, <1>11, <1>12, <1>13, <1>14, <1>15, <1>16 DEF WorkStep

LEMMA PromoteIndex ==
    ASSUME IndexInv, NEW j \in Job, Promote(j)
    PROVE  BatchIsEvent' /\ NoneStray /\ StayBehind /\ HeldIsCurrent'
<1> USE DEF IndexInv
<1>1. /\ UNCHANGED <<event, relay, row, hidden, text, doc, worker, lost>>
      /\ queue \in Seq(Job) /\ queue' = queue \o <<j>>
      /\ delayed' = [delayed EXCEPT ![j] = @ - 1]
    BY DEF Promote, rows, TypeOK
<1>2. \A l : About(queue', l) <=> About(queue, l) \/ j.l = l
    BY <1>1, AboutOne, AboutConcat
<1>3. \A i \in Job \ {j} : delayed'[i] = delayed[i]
    BY <1>1 DEF TypeOK
<1>4. \A k \in Listings : Coming(k) => Coming(k)'
    BY <1>1, <1>2, <1>3 DEF Coming, Unsent, Waiting, Enqueued, About
<1>5. \A k \in Listings : Wanted(k)' = Wanted(k)
    BY <1>1 DEF Wanted, Shown
<1>6. BatchIsEvent'
    BY <1>1 DEF BatchIsEvent
<1> QED
    BY <1>1, <1>4, <1>5, <1>6, QuietKeeps

LEMMA NextStrays ==
    ASSUME OneReplica, IndexInv, [Next]_vars
    PROVE  BatchIsEvent' /\ NoneStray /\ HeldIsCurrent'
<1>1. CASE UNCHANGED vars
    <2>1. /\ UNCHANGED <<event, queue, delayed, relay, doc, worker, lost>>
          /\ \A k \in Listings : Wanted(k)' = Wanted(k)
        BY <1>1 DEF vars, Wanted, Shown
    <2> QED
        BY <2>1, StillComing, QuietKeeps DEF IndexInv
<1>2. CASE ReplicaNext
    BY <1>2, RelayIndex, WorkerIndex, PromoteIndex DEF ReplicaNext
<1> QED
    BY <1>1, <1>2, OwnerIndex, SweepIndex DEF Next

LEMMA NextIndex == OneReplica /\ IndexInv /\ [Next]_vars => IndexInv'
<1> SUFFICES ASSUME OneReplica, IndexInv, [Next]_vars
             PROVE  IndexInv'
    OBVIOUS
<1>1. ListedIsCurrent'
    BY NextStrays DEF NoneStray, Astray, ListedIsCurrent
<1> QED
    BY <1>1, NextStrays, NextType DEF IndexInv

\* With one replica the index never keeps a document of a row that was removed
\* or hidden, or an outdated one, once nothing is under way for it and no error
\* was swallowed.  With two, a worker that has read a row may index it after
\* the other has dropped it.
THEOREM ListedCorrect ==
    ASSUME OneReplica
    PROVE  Spec => []ListedIsCurrent
<1>1. IndexInv => ListedIsCurrent
    BY DEF IndexInv
<1>2. IndexInv /\ [Next]_vars => IndexInv'
    BY NextIndex
<1> QED
    BY <1>1, <1>2, InitIndex, PTL DEF Spec

-----------------------------------------------------------------------------
(***************************************************************************)
(* While the account was never touched: no sweep starts, and what an event *)
(* or a job tells of stays so, since a removed row is never made again.    *)
(* Nothing here depends on the number of replicas.                         *)
(***************************************************************************)
LEMMA RangeTail ==
    ASSUME NEW q \in Seq(Job), q # <<>>
    PROVE  Head(q) \in Range(q) /\ Range(Tail(q)) \subseteq Range(q)
<1>1. /\ Len(Tail(q)) = Len(q) - 1 /\ Tail(q) \in Seq(Job)
      /\ \A i \in 1..Len(Tail(q)) : Tail(q)[i] = q[i + 1]
    BY HeadTailProperties, Zenon
<1>2. /\ DOMAIN q = 1..Len(q) /\ Len(q) \in Nat \ {0} /\ Head(q) = q[1]
      /\ DOMAIN Tail(q) = 1..Len(Tail(q))
    BY <1>1, LenProperties, EmptySeq
<1>3. ASSUME NEW i \in DOMAIN Tail(q) PROVE i + 1 \in DOMAIN q /\ Tail(q)[i] = q[i + 1]
    BY <1>1, <1>2
<1> QED
    BY <1>2, <1>3 DEF Range

LEMMA RangeOne ==
    ASSUME NEW q \in Seq(Job), NEW j \in Job
    PROVE  /\ Range(q \o <<j>>) = Range(q) \cup {j}
           /\ Range(<<j>> \o q) = {j} \cup Range(q)
<1> DEFINE one == <<j>>
<1>1. one \in Seq(Job) /\ Range(one) = {j}
    BY DEF Range
<1> HIDE DEF one
<1>2. Range(q \o one) = Range(q) \cup {j} /\ Range(one \o q) = {j} \cup Range(q)
    BY <1>1, RangeConcatenation
<1> QED
    BY <1>2, Zenon DEF one

\* What was told of a listing is so after the step.
Still(d) == row'[d.l] # "none" /\ (d.act = "DELETE" => row'[d.l] = "gone")

\* It is: only a row that is not there is made, and only a live one is removed.
LEMMA ToldStays ==
    ASSUME TypeOK, [Next]_vars
    PROVE  \A l \in Listings : /\ row[l] # "none" => row'[l] # "none"
                               /\ row[l] = "gone" => row'[l] = "gone"
<1> DEFINE Kept == \A l \in Listings : /\ row[l] # "none" => row'[l] # "none"
                                       /\ row[l] = "gone" => row'[l] = "gone"
<1>1. ASSUME NEW l \in Listings, NEW e \in Events, Create(l, e) PROVE Kept
    BY <1>1 DEF Create, TypeOK
<1>2. ASSUME NEW l \in Listings, NEW e \in Events, Remove(l, e) PROVE Kept
    BY <1>2 DEF Remove, TypeOK
<1>3. ASSUME row' = row PROVE Kept
    BY <1>3
<1>4. ASSUME NEW l \in Listings, NEW e \in Events, Edit(l, e) PROVE row' = row
    BY <1>4 DEF Edit
<1>5. ASSUME SetStatus \/ SetLeaving \/ UNCHANGED vars PROVE row' = row
    BY <1>5 DEF SetStatus, SetLeaving, vars, rows
<1>6. ASSUME SweepNext PROVE row' = row
    BY <1>6 DEF SweepNext, SweepStart, SweepFail, SweepRead, SweepWrite, rows
<1>7. ASSUME ReplicaNext PROVE row' = row
    BY <1>7
    DEF ReplicaNext, RelayLock, RelayStep, RelayEnqueue, RelayCommit, RelayBackoff,
        RelayFail, Take, WorkStep, Read, Check, Index, Drop, WorkFail, IndexFail,
        Crash, Promote, rows
<1> HIDE DEF Kept
<1>8. Kept
    BY <1>1, <1>2, <1>3, <1>4, <1>5, <1>6, <1>7 DEF Next, OwnerNext
<1> QED
    BY <1>8 DEF Kept

LEMMA StillTold ==
    ASSUME TypeOK, AllTold, [Next]_vars
    PROVE  /\ \A e \in Events : event[e] # None => Still(event[e])
           /\ \A r \in Replicas : \A e \in DOMAIN relay[r].batch : Still(relay[r].batch[e])
           /\ \A j \in Range(queue) : Still(j)
           /\ \A j \in Job : delayed[j] > 0 => Still(j)
           /\ \A r \in Replicas : worker[r].step # "idle" =>
                /\ Still(worker[r].job)
                /\ worker[r].step = "drop" => row'[Subject(r)] = "gone"
<1>1. \A d : d.l \in Listings /\ Told(d) => Still(d)
    BY ToldStays DEF Told, Still
<1>2. ASSUME NEW e \in Events, event[e] # None PROVE Still(event[e])
    BY <1>1, <1>2 DEF AllTold, TypeOK, Event
<1>3. ASSUME NEW r \in Replicas, NEW e \in DOMAIN relay[r].batch
      PROVE  Still(relay[r].batch[e])
    <2>1. relay[r].batch[e] \in Event
        BY RelayType
    <2> QED
        BY <1>1, <2>1 DEF AllTold, Event
<1>4. ASSUME NEW j \in Range(queue) PROVE Still(j)
    <2>1. PICK i \in DOMAIN queue : j = queue[i]
        BY DEF Range
    <2>2. queue[i] \in Job
        BY <2>1, ElementOfSeq, LenProperties DEF TypeOK
    <2> QED
        BY <1>1, <2>1, <2>2 DEF AllTold, Job
<1>5. ASSUME NEW j \in Job, delayed[j] > 0 PROVE Still(j)
    BY <1>1, <1>5 DEF AllTold, Job
<1>6. ASSUME NEW r \in Replicas, worker[r].step # "idle"
      PROVE  /\ Still(worker[r].job)
             /\ worker[r].step = "drop" => row'[Subject(r)] = "gone"
    BY <1>1, <1>6, WorkerType, ToldStays DEF AllTold, Subject
<1> QED
    BY <1>2, <1>3, <1>4, <1>5, <1>6

\* AllTold of the next state, part by part.
LEMMA ToldAfter ==
    ASSUME \A e \in Events : event'[e] # None => Still(event'[e]),
           \A r \in Replicas : \A e \in DOMAIN relay'[r].batch : Still(relay'[r].batch[e]),
           \A j \in Range(queue') : Still(j),
           \A j \in Job : delayed'[j] > 0 => Still(j),
           \A r \in Replicas : worker'[r].step # "idle" =>
                /\ Still(worker'[r].job)
                /\ worker'[r].step = "drop" => row'[worker'[r].job.l] = "gone"
    PROVE  AllTold'
BY DEF AllTold, Told, Still, Range, Subject

\* The owner's writes tell of what they did.
LEMMA OwnerTold ==
    ASSUME TypeOK, AllTold, OwnerNext
    PROVE  AllTold'
<1>1. [Next]_vars
    BY DEF Next
<1>2. ASSUME NEW e \in Events, NEW l \in Listings, NEW act \in Acts, Record(e, l, act),
             row'[l] # "none", act = "DELETE" => row'[l] = "gone",
             UNCHANGED <<queue, delayed, relay, worker>>
      PROVE  AllTold'
    <2> DEFINE d == [l |-> l, act |-> act, attempts |-> 0]
    <2>1. Still(d)
        BY <1>2 DEF Still
    <2>2. event'[e] = d /\ \A f \in Events \ {e} : event'[f] = event[f]
        BY <1>2 DEF Record, TypeOK
    <2> HIDE DEF d
    <2>3. \A f \in Events : event'[f] # None => Still(event'[f])
        BY <1>1, <2>1, <2>2, StillTold
    <2> QED
        BY <1>1, <1>2, <2>3, StillTold, ToldAfter DEF Subject
<1>3. ASSUME NEW l \in Listings, NEW e \in Events,
             Create(l, e) \/ Edit(l, e) \/ Remove(l, e)
      PROVE  AllTold'
    <2>1. CASE Create(l, e)
        BY <1>2, <2>1 DEF Create, TypeOK, Acts, jobs
    <2>2. CASE Edit(l, e)
        BY <1>2, <2>2 DEF Edit, Acts, jobs
    <2>3. CASE Remove(l, e)
        BY <1>2, <2>3 DEF Remove, TypeOK, Acts, jobs
    <2> QED
        BY <1>3, <2>1, <2>2, <2>3
<1>4. ASSUME SetStatus \/ SetLeaving
      PROVE  AllTold'
    BY <1>1, <1>4, StillTold, ToldAfter DEF SetStatus, SetLeaving, jobs, Subject
<1> QED
    BY <1>3, <1>4 DEF OwnerNext

\* A relay hands on what it read.
LEMMA RelayTold ==
    ASSUME TypeOK, AllTold, NEW r \in Replicas,
           RelayLock(r) \/ RelayStep(r) \/ RelayFail(r)
    PROVE  AllTold'
<1> DEFINE b == relay[r].batch
<1>0. [Next]_vars
    BY DEF Next, ReplicaNext
<1>1. \A e \in DOMAIN b : Still(b[e])
    BY <1>0, StillTold
<1>2. worker' = worker /\ delayed' = delayed
    BY DEF RelayLock, RelayStep, RelayEnqueue, RelayCommit, RelayBackoff, RelayFail, jobs
<1>3. ASSUME NEW n, relay' = [relay EXCEPT ![r] = n],
             \A e \in DOMAIN n.batch : Still(n.batch[e]),
             \A e \in Events : event'[e] # None => Still(event'[e]),
             \A j \in Range(queue') : Still(j)
      PROVE  AllTold'
    <2>1. relay'[r] = n /\ \A q \in Replicas \ {r} : relay'[q] = relay[q]
        BY <1>3 DEF TypeOK
    <2>2. \A q \in Replicas : \A e \in DOMAIN relay'[q].batch : Still(relay'[q].batch[e])
        BY <1>0, <1>3, <2>1, StillTold
    <2> QED
        BY <1>0, <1>2, <1>3, <2>2, StillTold, ToldAfter DEF Subject
<1>4. CASE RelayLock(r)
    <2>1. PICK S \in SUBSET Events :
            /\ \A e \in S : event[e] # None
            /\ relay' = [relay EXCEPT ![r] = [step |-> "locked", batch |-> [e \in S |-> event[e]]]]
        BY <1>4 DEF RelayLock
    <2> DEFINE n == [step |-> "locked", batch |-> [e \in S |-> event[e]]]
    <2>2. \A e \in DOMAIN n.batch : Still(n.batch[e])
        BY <1>0, <2>1, StillTold
    <2>3. event' = event /\ queue' = queue
        BY <1>4 DEF RelayLock, jobs
    <2> QED
        BY <1>0, <1>3, <2>1, <2>2, <2>3, StillTold
<1>5. CASE RelayEnqueue(r)
    <2> DEFINE n == [relay[r] EXCEPT !.step = "queued"]
    <2>1. PICK o \in Orders(DOMAIN b) :
            queue' = queue \o [i \in DOMAIN o |-> AsJob(b[o[i]])]
        BY <1>5 DEF RelayEnqueue
    <2> DEFINE q == [i \in DOMAIN o |-> AsJob(b[o[i]])]
    <2>2. q \in Seq(Job) /\ queue \in Seq(Job)
        <3>1. b \in [DOMAIN b -> Event] /\ DOMAIN b \in SUBSET Events
            BY RelayType
        <3>2. q \in Seq(Job)
            BY <3>1, OrdersType
        <3> QED
            BY <3>2 DEF TypeOK
    <2>3. \A j \in Range(q) : Still(j)
        <3>1. \A i \in DOMAIN o : o[i] \in DOMAIN b
            BY DEF Orders
        <3> QED
            BY <1>1, <3>1 DEF Range, AsJob, Still
    <2> HIDE DEF q
    <2>4. Range(queue') = Range(queue) \cup Range(q)
        BY <2>1, <2>2, RangeConcatenation DEF q
    <2>5. \A j \in Range(queue') : Still(j)
        BY <1>0, <2>3, <2>4, StillTold
    <2>6. relay' = [relay EXCEPT ![r] = n] /\ n.batch = b /\ event' = event
        BY <1>5 DEF RelayEnqueue, TypeOK
    <2> HIDE DEF n
    <2> QED
        BY <1>0, <1>1, <1>3, <2>5, <2>6, StillTold
<1>6. CASE RelayCommit(r)
    <2>1. relay' = [relay EXCEPT ![r] = IdleRelay] /\ DOMAIN IdleRelay.batch = {}
        BY <1>6, IdleRelayType DEF RelayCommit
    <2>2. /\ \A e \in Events : event'[e] = None \/ event'[e] = event[e]
          /\ queue' = queue
        BY <1>6 DEF RelayCommit, jobs
    <2> QED
        BY <1>0, <1>3, <2>1, <2>2, StillTold
<1>7. ASSUME NEW e \in Events, RelayBackoff(r, e)
      PROVE  AllTold'
    <2> DEFINE d    == b[e]
               rest == DOMAIN b \ {e}
               n    == IF rest = {} THEN IdleRelay
                       ELSE [step |-> "failed", batch |-> [f \in rest |-> b[f]]]
    <2>1. e \in DOMAIN b /\ relay' = [relay EXCEPT ![r] = n] /\ queue' = queue
        BY <1>7 DEF RelayBackoff, jobs
    <2>2. \A f \in DOMAIN n.batch : Still(n.batch[f])
        BY <1>1, IdleRelayType
    <2> HIDE DEF n
    <2>3. d \in Event /\ Still(d)
        BY <1>1, <2>1, RelayType
    <2>4. \A f \in Events : event'[f] # None => Still(event'[f])
        <3>1. CASE d.attempts + 1 >= MaxAttempts
            <4>1. \A f \in Events : event'[f] = None \/ event'[f] = event[f]
                BY <1>7, <3>1 DEF RelayBackoff, TypeOK
            <4> QED
                BY <1>0, <4>1, StillTold
        <3>2. CASE ~(d.attempts + 1 >= MaxAttempts)
            <4> DEFINE v == [d EXCEPT !.attempts = @ + 1]
            <4>1. v.l = d.l /\ v.act = d.act
                BY <2>3 DEF Event
            <4>2. event' = [event EXCEPT ![e] = v]
                BY <1>7, <3>2 DEF RelayBackoff
            <4> HIDE DEF v
            <4>3. Still(v)
                BY <2>3, <4>1 DEF Still
            <4> QED
                BY <1>0, <4>2, <4>3, StillTold DEF TypeOK
        <3> QED
            BY <3>1, <3>2
    <2> QED
        BY <1>3, <1>0, <2>1, <2>2, <2>4, StillTold
<1>8. CASE RelayFail(r)
    <2> DEFINE n == [relay[r] EXCEPT !.step = "failed"]
    <2>1. /\ relay' = [relay EXCEPT ![r] = n] /\ n.batch = b
          /\ event' = event /\ queue' = queue
        BY <1>8 DEF RelayFail, TypeOK, jobs
    <2> HIDE DEF n
    <2> QED
        BY <1>0, <1>1, <1>3, <2>1, StillTold
<1> QED
    BY <1>4, <1>5, <1>6, <1>7, <1>8 DEF RelayStep

\* A worker goes by its job, and drops on its own account only a row it finds
\* neither live nor hidden by anybody.
LEMMA WorkerTold ==
    ASSUME TypeOK, AtRest, AllTold, NEW r \in Replicas,
           Take(r) \/ WorkStep(r) \/ WorkFail(r) \/ IndexFail(r) \/ Crash(r)
    PROVE  AllTold'
<1> DEFINE w == worker[r]
<1>0. [Next]_vars
    BY DEF Next, ReplicaNext
<1>1. event' = event /\ row' = row
    BY DEF Take, WorkStep, Read, Check, Index, Drop, WorkFail, IndexFail, Crash, rows
<1>2. \A e \in Events : event'[e] # None => Still(event'[e])
    BY <1>0, <1>1, StillTold
<1>3. ASSUME NEW n, worker' = [worker EXCEPT ![r] = n],
             n.step # "idle" => /\ Still(n.job)
                                /\ n.step = "drop" => row[n.job.l] = "gone",
             \/ relay' = relay \/ relay' = [relay EXCEPT ![r] = IdleRelay],
             \A j \in Range(queue') : Still(j),
             \A j \in Job : delayed'[j] > 0 => Still(j)
      PROVE  AllTold'
    <2>1. worker'[r] = n /\ \A q \in Replicas \ {r} : worker'[q] = worker[q]
        BY <1>3 DEF TypeOK
    <2>2. \A q \in Replicas : worker'[q].step # "idle" =>
                /\ Still(worker'[q].job)
                /\ worker'[q].step = "drop" => row'[worker'[q].job.l] = "gone"
        BY <1>0, <1>1, <1>3, <2>1, StillTold DEF Subject
    <2>3. \A q \in Replicas : \A e \in DOMAIN relay'[q].batch : Still(relay'[q].batch[e])
        <3>1. \A q \in Replicas : relay'[q] = relay[q] \/ relay'[q] = IdleRelay
            BY <1>3 DEF TypeOK
        <3> QED
            BY <1>0, <3>1, IdleRelayType, StillTold
    <2> QED
        BY <1>2, <1>3, <2>2, <2>3, ToldAfter
<1>4. CASE Take(r)
    <2> DEFINE n == [step |-> IF Head(queue).act = "DELETE" THEN "drop" ELSE "got",
                     job |-> Head(queue), seen |-> None]
    <2>1. /\ queue \in Seq(Job) /\ queue # <<>> /\ queue' = Tail(queue)
          /\ worker' = [worker EXCEPT ![r] = n] /\ relay' = relay /\ delayed' = delayed
        BY <1>4 DEF Take, TypeOK
    <2>2. Head(queue) \in Range(queue) /\ Range(queue') \subseteq Range(queue)
        BY <2>1, RangeTail
    <2>3. Still(Head(queue)) /\ \A j \in Range(queue') : Still(j)
        BY <1>0, <2>2, StillTold
    <2>4. Still(n.job) /\ (n.step = "drop" => row[n.job.l] = "gone")
        BY <1>1, <2>3 DEF Still
    <2> HIDE DEF n
    <2> QED
        BY <1>0, <1>3, <2>1, <2>3, <2>4, StillTold
<1>5. CASE WorkStep(r) /\ (Read(r) \/ Check(r))
    <2>1. PICK step, seen :
            /\ Become(r, step, seen)
            /\ step = "drop" => Read(r) /\ ~Shown(Subject(r))
        BY <1>5 DEF Read, Check, AtRest, OwnerOk
    <2> DEFINE n == [w EXCEPT !.step = step, !.seen = seen]
    <2>2. w.step # "idle" /\ relay' = relay /\ queue' = queue /\ delayed' = delayed
        BY <1>5 DEF Read, Check, jobs
    <2>3. worker' = [worker EXCEPT ![r] = n] /\ n.step = step /\ n.job = w.job
        BY <2>1 DEF Become, TypeOK
    <2>4. Still(w.job) /\ Subject(r) \in Listings
        BY <1>0, <2>2, StillTold, WorkerType
    <2>5. step = "drop" => row[w.job.l] = "gone"
        BY <1>1, <2>1, <2>4 DEF Shown, AtRest, TypeOK, Still, Subject
    <2> HIDE DEF n
    <2> QED
        BY <1>0, <1>3, <2>2, <2>3, <2>4, <2>5, StillTold
<1>6. CASE Index(r) \/ Drop(r) \/ IndexFail(r)
    <2>1. /\ worker' = [worker EXCEPT ![r] = IdleWork] /\ IdleWork.step = "idle"
          /\ relay' = relay /\ queue' = queue /\ delayed' = delayed
        BY <1>6 DEF Index, Drop, IndexFail, Rest, IdleWork, jobs
    <2> QED
        BY <1>0, <1>3, <2>1, StillTold
<1>7. CASE WorkFail(r)
    <2> DEFINE i == [w.job EXCEPT !.tries = @ + 1]
    <2>1. /\ worker' = [worker EXCEPT ![r] = IdleWork] /\ IdleWork.step = "idle"
          /\ relay' = relay /\ queue' = queue /\ w.step # "idle"
        BY <1>7 DEF WorkFail, Rest, IdleWork
    <2>2. w.job \in Job /\ Still(w.job)
        BY <1>0, <2>1, StillTold, WorkerType
    <2>3. i.l = w.job.l /\ i.act = w.job.act
        BY <2>2 DEF Job
    <2>4. delayed' = delayed \/ delayed' = [delayed EXCEPT ![i] = @ + 1]
        BY <1>7 DEF WorkFail
    <2> HIDE DEF i
    <2>5. Still(i)
        BY <2>2, <2>3 DEF Still
    <2>6. \A j \in Job : delayed'[j] > 0 => Still(j)
        BY <1>0, <2>4, <2>5, StillTold DEF TypeOK
    <2> QED
        BY <1>0, <1>3, <2>1, <2>6, StillTold
<1>8. CASE Crash(r)
    <2>1. /\ worker' = [worker EXCEPT ![r] = IdleWork] /\ IdleWork.step = "idle"
          /\ relay' = [relay EXCEPT ![r] = IdleRelay] /\ delayed' = delayed
        BY <1>8 DEF Crash, Rest, IdleWork
    <2>2. \A j \in Range(queue') : Still(j)
        <3>1. CASE w.step = "idle"
            BY <1>0, <1>8, <3>1, StillTold DEF Crash
        <3>2. CASE w.step # "idle"
            <4>1. w.job \in Job /\ queue \in Seq(Job) /\ queue' = <<w.job>> \o queue
                BY <1>8, <3>2, WorkerType DEF Crash, TypeOK
            <4>2. Range(queue') = {w.job} \cup Range(queue)
                BY <4>1, RangeOne, Zenon
            <4> QED
                BY <1>0, <3>2, <4>2, StillTold
        <3> QED
            BY <3>1, <3>2
    <2> QED
        BY <1>0, <1>3, <2>1, <2>2, StillTold
<1> QED
    BY <1>4, <1>5, <1>6, <1>7, <1>8 DEF WorkStep

LEMMA PromoteTold ==
    ASSUME TypeOK, AllTold, NEW j \in Job, Promote(j)
    PROVE  AllTold'
<1>0. [Next]_vars
    BY DEF Next, ReplicaNext
<1>1. /\ UNCHANGED <<event, relay, worker>> /\ queue \in Seq(Job)
      /\ queue' = queue \o <<j>> /\ delayed[j] > 0
      /\ delayed' = [delayed EXCEPT ![j] = @ - 1]
    BY DEF Promote, TypeOK
<1>2. Range(queue') = Range(queue) \cup {j}
    BY <1>1, RangeOne, Zenon
<1>3. \A i \in Job : delayed'[i] > 0 => Still(i)
    BY <1>0, <1>1, StillTold DEF TypeOK
<1>4. \A i \in Range(queue') : Still(i)
    BY <1>0, <1>1, <1>2, StillTold
<1> QED
    BY <1>0, <1>1, <1>3, <1>4, StillTold, ToldAfter DEF Subject

\* With nothing misplaced no sweep starts.
LEMMA SweepsRest == AtRest /\ SweepNext => FALSE
<1> SUFFICES ASSUME AtRest, NEW s \in Sweeps,
                    \/ SweepStart(s) \/ SweepFail(s)
                    \/ \E l \in Listings : SweepRead(s, l) \/ \E e \in Events : SweepWrite(s, l, e)
             PROVE  FALSE
    BY DEF SweepNext
<1>1. sweep[s].step = "idle" /\ \A l \in Listings : ~Misplaced(l)
    BY DEF AtRest, Misplaced
<1> QED
    BY <1>1 DEF SweepStart, SweepFail, SweepRead, SweepWrite

\* What is under way while the account was never touched tells of what is so.
THEOREM RestInvariant == Spec => []RestInv
<1>1. Init => RestInv
    <2> SUFFICES ASSUME Init PROVE AtRest /\ AllTold
        BY DEF RestInv
    <2>1. AtRest
        BY DEF Init, AtRest, OwnerOk, IdleSweep
    <2>2. AllTold
        BY NoBatch DEF Init, AllTold, IdleRelay, IdleWork
    <2> QED
        BY <2>1, <2>2
<1>2. TypeOK /\ RestInv /\ [Next]_vars => RestInv'
    <2> SUFFICES ASSUME TypeOK, RestInv, [Next]_vars, ~moved'
                 PROVE  AtRest' /\ AllTold'
        BY DEF RestInv
    <2>1. CASE UNCHANGED vars
        BY <2>1 DEF vars, RestInv, AtRest, OwnerOk, AllTold, Told, Subject
    <2>2. CASE SetStatus \/ SetLeaving
        BY <2>2 DEF SetStatus, SetLeaving
    <2>3. ASSUME NEW l \in Listings, NEW e \in Events,
                 Create(l, e) \/ Edit(l, e) \/ Remove(l, e)
          PROVE  ~moved /\ AtRest /\ AllTold /\ AtRest'
        BY <2>3 DEF Create, Edit, Remove, account, RestInv, AtRest, OwnerOk
    <2>4. ASSUME SweepNext
          PROVE  moved' = moved
        BY <2>4 DEF SweepNext, SweepStart, SweepFail, SweepRead, SweepWrite, account
    <2>5. ASSUME ReplicaNext
          PROVE  /\ ~moved /\ AtRest /\ AllTold
                 /\ UNCHANGED <<status, leaving, hidden, sweep>>
        <3>1. UNCHANGED <<account, hidden, sweep>>
            BY <2>5
            DEF ReplicaNext, RelayLock, RelayStep, RelayEnqueue, RelayCommit,
                RelayBackoff, RelayFail, Take, WorkStep, Read, Check, Index, Drop,
                WorkFail, IndexFail, Crash, Promote, rows
        <3>2. UNCHANGED <<status, leaving, moved, hidden, sweep>>
            BY <3>1 DEF account
        <3> QED
            BY <3>2 DEF RestInv
    <2>6. CASE ReplicaNext
        <3>1. AtRest'
            BY <2>5, <2>6 DEF AtRest, OwnerOk
        <3>2. AllTold'
            BY <2>5, <2>6, RelayTold, WorkerTold, PromoteTold DEF ReplicaNext
        <3> QED
            BY <3>1, <3>2
    <2>7. CASE SweepNext
        BY <2>4, <2>7, SweepsRest DEF RestInv
    <2>8. CASE OwnerNext
        BY <2>2, <2>3, <2>8, OwnerTold DEF OwnerNext
    <2> QED
        BY <2>1, <2>6, <2>7, <2>8 DEF Next
<1> QED
    BY <1>1, <1>2, TypeCorrect, PTL DEF Spec

\* With one replica, and while the account was never touched, the index has the
\* document of every row as it is, once nothing is under way for it and no error
\* was swallowed: only a row that is gone is ever dropped.
THEOREM NothingIsMissing ==
    ASSUME OneReplica
    PROVE  Spec => []NothingMissing
<1>1. Init => NothingMissing
    BY DEF Init, NothingMissing, Wanted, Shown
<1>2. IndexInv /\ RestInv /\ NothingMissing /\ [Next]_vars => NothingMissing'
    <2> SUFFICES ASSUME IndexInv, RestInv, NothingMissing, [Next]_vars, ~moved',
                        NEW l \in Listings, Astray(l)'
                 PROVE  FALSE
        BY DEF NothingMissing, Astray
    <2>1. ~moved
        BY DEF Next, OwnerNext, Create, Edit, Remove, SetStatus, SetLeaving, SweepNext,
            SweepStart, SweepFail, SweepRead, SweepWrite, ReplicaNext, RelayLock,
            RelayStep, RelayEnqueue, RelayCommit, RelayBackoff, RelayFail, Take,
            WorkStep, Read, Check, Index, Drop, WorkFail, IndexFail, Crash, Promote,
            account, vars
    <2>2. doc'[l] = None /\ (Astray(l) \/ \E r \in Replicas : Drop(r) /\ Subject(r) = l)
        BY NextStrays DEF NoneStray
    <2>3. ~Astray(l)
        BY <2>1 DEF NothingMissing, Astray
    <2>4. PICK r \in Replicas : Drop(r) /\ Subject(r) = l
        BY <2>2, <2>3
    <2>5. row'[l] = "gone"
        BY <2>1, <2>4 DEF RestInv, AllTold, Drop, rows
    <2> QED
        BY <2>2, <2>5 DEF Astray, Wanted, Shown
<1>3. IndexInv /\ [Next]_vars => IndexInv'
    BY NextIndex
<1> QED
    BY <1>1, <1>2, <1>3, InitIndex, RestInvariant, PTL DEF Spec

-----------------------------------------------------------------------------
(***************************************************************************)
(* With one replica the component implements IndexContract.                *)
(***************************************************************************)
\* Rows only move on.
LEMMA TextGrows ==
    ASSUME TypeOK, [Next]_vars
    PROVE  \A l \in Listings : text[l] <= text'[l]
<1> DEFINE Grown == \A l \in Listings : text[l] <= text'[l]
<1>0. \A l \in Listings : text[l] \in Nat
    BY LimitsAssumption DEF TypeOK
<1>1. ASSUME NEW l \in Listings, NEW e \in Events, Edit(l, e) PROVE Grown
    BY <1>0, <1>1 DEF Edit, TypeOK
<1>2. ASSUME UNCHANGED text PROVE Grown
    BY <1>0, <1>2
<1>3. ASSUME NEW l \in Listings, NEW e \in Events, Create(l, e) \/ Remove(l, e)
      PROVE  UNCHANGED text
    BY <1>3 DEF Create, Remove
<1>4. SetStatus \/ SetLeaving \/ SweepNext => UNCHANGED text
    BY DEF SetStatus, SetLeaving, SweepNext, SweepStart, SweepRead, SweepWrite,
        SweepFail, rows
<1>5. ReplicaNext => UNCHANGED text
    BY DEF ReplicaNext, RelayLock, RelayStep, RelayEnqueue, RelayCommit, RelayBackoff,
        RelayFail, Take, WorkStep, Read, Check, Index, Drop, WorkFail, IndexFail,
        Crash, Promote, rows
<1> QED
    BY <1>1, <1>2, <1>3, <1>4, <1>5 DEF Next, OwnerNext, vars

\* All but the worker leave the index and the workers alone.
LEMMA OthersLeave ==
    ASSUME \/ OwnerNext \/ SweepNext \/ UNCHANGED vars
           \/ \E r \in Replicas : RelayLock(r) \/ RelayStep(r) \/ RelayFail(r)
           \/ \E j \in Job : Promote(j)
    PROVE  UNCHANGED <<doc, worker>>
BY DEF OwnerNext, Create, Edit, Remove, SetStatus, SetLeaving, SweepNext, SweepStart,
    SweepRead, SweepWrite, SweepFail, RelayLock, RelayStep, RelayEnqueue, RelayCommit,
    RelayBackoff, RelayFail, Promote, vars

LEMMA FreshStep ==
    ASSUME OneReplica, TypeOK, FreshInv, [Next]_vars
    PROVE  FreshInv'
<1>0. /\ \A l \in Listings : text[l] <= text'[l] /\ text[l] \in Nat /\ text'[l] \in Nat
      /\ \A l \in Listings : doc[l] # None => doc[l] \in Nat
    BY TextGrows, NextType, LimitsAssumption DEF TypeOK
<1>1. \A r \in Replicas : Holds(r) => worker[r].seen \in Nat /\ Subject(r) \in Listings
    BY WorkerType, LimitsAssumption DEF Holds, TypeOK, Subject
<1>2. ASSUME UNCHANGED <<doc, worker>> PROVE FreshInv'
    BY <1>0, <1>1, <1>2 DEF FreshInv, Holds, Subject
<1>3. ASSUME NEW r \in Replicas, ~Holds(r)',
             \A l \in Listings : doc'[l] # None => doc'[l] <= text'[l]
      PROVE  FreshInv'
    BY <1>3 DEF FreshInv, OneReplica
<1>4. (\A l \in Listings : doc'[l] # None => doc'[l] <= text'[l]) \/ doc' # doc
    BY <1>0 DEF FreshInv
<1>5. ASSUME NEW r \in Replicas,
             Take(r) \/ WorkFail(r) \/ IndexFail(r) \/ Crash(r)
      PROVE  FreshInv'
    <2>1. doc' = doc /\ worker'[r].step \in {"got", "drop", "idle"}
        BY <1>5 DEF Take, WorkFail, IndexFail, Crash, Rest, IdleWork, TypeOK
    <2> QED
        BY <1>3, <1>4, <2>1 DEF Holds
<1>6. ASSUME NEW r \in Replicas, Drop(r) \/ Index(r)
      PROVE  FreshInv'
    <2>1. worker'[r].step = "idle" /\ text' = text /\ Subject(r) \in Listings
        BY <1>6, WorkerType DEF Drop, Index, Rest, IdleWork, TypeOK, Subject, rows
    <2>2. ASSUME NEW l \in Listings, doc'[l] # None PROVE doc'[l] <= text'[l]
        <3>1. CASE Drop(r)
            BY <1>0, <2>1, <2>2, <3>1 DEF Drop, TypeOK, FreshInv
        <3>2. CASE Index(r)
            BY <1>0, <2>1, <2>2, <3>2 DEF Index, Holds, TypeOK, FreshInv
        <3> QED
            BY <1>6, <3>1, <3>2
    <2> QED
        BY <1>3, <2>1, <2>2 DEF Holds
<1>7. ASSUME NEW r \in Replicas, Read(r) \/ Check(r)
      PROVE  FreshInv'
    <2>1. doc' = doc /\ text' = text /\ worker[r].step # "idle"
        BY <1>7 DEF Read, Check, rows
    <2>2. doc' = doc /\ text' = text /\ Subject(r) \in Listings
        BY <2>1, WorkerType DEF Subject
    <2>3. ASSUME NEW step, NEW seen, Become(r, step, seen)
          PROVE  /\ worker'[r].step = step /\ worker'[r].seen = seen
                 /\ Subject(r)' = Subject(r)
        BY <2>3 DEF Become, TypeOK, Subject
    <2>4. CASE Become(r, "drop", None)
        BY <1>3, <1>4, <2>2, <2>4, <2>3 DEF Holds
    <2>5. CASE Read(r) /\ Become(r, "check", text[Subject(r)])
        BY <1>0, <2>2, <2>5, <2>3 DEF FreshInv, OneReplica
    <2>6. CASE Check(r) /\ Become(r, "index", worker[r].seen)
        BY <1>0, <1>1, <2>2, <2>6, <2>3 DEF Check, Holds, FreshInv, OneReplica
    <2> QED
        BY <1>7, <2>4, <2>5, <2>6 DEF Read, Check
<1> QED
    BY <1>2, <1>5, <1>6, <1>7, OthersLeave DEF Next, ReplicaNext, WorkStep

-----------------------------------------------------------------------------
\* What the contract's variables stand for.
Front == [l \in Listings |-> Shown(l)]
Rear  == {l \in Listings : Behind(l)}

\* A step that moves none of them.
LEMMA QuietSearch ==
    ASSUME UNCHANGED <<row, hidden, text, doc, moved>>, Rear' = Rear
    PROVE  UNCHANGED Promise!index
<1>1. Front' = Front
    BY DEF Front, Shown
<1> QED
    BY <1>1 DEF Front, Rear, Promise!index

\* A step that changes no row and no document and brings nothing up to date.
LEMMA AgainKept ==
    ASSUME UNCHANGED <<row, hidden, text, doc, moved>>, StayBehind
    PROVE  Promise!Next
<1>1. Front' = Front
    BY DEF Front, Shown
<1>2. Rear' = Rear \cup Rear' /\ Rear' \in SUBSET Listings
    BY DEF Rear, StayBehind
<1>3. Promise!Again(Rear')
    BY <1>1, <1>2 DEF Front, Rear, Promise!Again
<1> QED
    BY <1>2, <1>3 DEF Promise!Next

\* The transaction of a write to a row, with its event.
LEMMA WriteKept ==
    ASSUME TypeOK, TypeOK', NEW e \in Events, NEW l \in Listings, NEW act \in Acts,
           Record(e, l, act),
           UNCHANGED <<moved, queue, delayed, relay, doc, worker, lost>>,
           \A k \in Listings \ {l} : UNCHANGED <<row[k], hidden[k], text[k]>>,
           text'[l] \in {text[l], text[l] + 1}
    PROVE  Promise!Next
<1> DEFINE d == [l |-> l, act |-> act, attempts |-> 0]
<1>1. /\ event' = [event EXCEPT ![e] = d] /\ event[e] = None
      /\ \A r \in Replicas : e \notin DOMAIN relay[r].batch
    BY DEF Record
<1>2. d \in Event /\ d.l = l
    BY LimitsAssumption DEF Event
<1>3. d # None
    BY <1>2, NoneAssumption
<1>4. event'[e] = d /\ \A f \in Events \ {e} : event'[f] = event[f]
    BY <1>1 DEF TypeOK
<1> HIDE DEF d
<1>5. \A f \in Events : (Enqueued(f)' <=> Enqueued(f)) /\ ~Enqueued(e)
    BY <1>1 DEF Enqueued
<1>6. \A k \in Listings : Unsent(k)' <=> Unsent(k) \/ k = l
    BY <1>1, <1>2, <1>3, <1>4, <1>5 DEF Unsent
<1>7. \A k \in Listings : Coming(k)' <=> Coming(k) \/ k = l
    BY <1>6 DEF Coming, Waiting
<1>8. \A k \in Listings \ {l} : Shown(k)' = Shown(k) /\ Wanted(k)' = Wanted(k)
    BY DEF Shown, Wanted
<1>9. \A k \in Listings : Behind(k)' <=> Behind(k) \/ k = l
    BY <1>7, <1>8 DEF Behind, Settling, Holds, Subject
<1>10. Rear' = Rear \cup {l}
    BY <1>9 DEF Rear
<1>11. Front' = [Front EXCEPT ![l] = Shown(l)'] /\ Shown(l)' \in BOOLEAN
    BY <1>8 DEF Front, Shown
<1>12. text' = [text EXCEPT ![l] = text'[l]]
    BY DEF TypeOK
<1>13. Promise!Write(l)
    BY <1>10, <1>11, <1>12 DEF Front, Rear, Promise!Write
<1> QED
    BY <1>13 DEF Promise!Next

\* The worker brings the document up to date, or to what it read before another
\* write, after which it will look again.
LEMMA LookKept ==
    ASSUME OneReplica, IndexInv, RestInv, FreshInv, NEW r \in Replicas,
           Index(r) \/ Drop(r)
    PROVE  Promise!Next
<1> DEFINE w == worker[r]
<1> USE DEF IndexInv
<1>1. /\ UNCHANGED <<event, queue, delayed, relay, row, hidden, text, moved, lost>>
      /\ w.step \in {"index", "drop"} /\ Rest(r)
    BY DEF Index, Drop, jobs, rows, account
<1>0. PICK l \in Listings : l = Subject(r)
    BY <1>1, WorkerType DEF Subject
<1>2. worker'[r].step = "idle"
    BY <1>1 DEF Rest, IdleWork, TypeOK
<1>3. \A q \in Replicas : q = r
    BY DEF OneReplica
<1>4. \A k \in Listings : Wanted(k)' = Wanted(k) /\ (Coming(k)' <=> Coming(k))
    BY <1>1, StillComing DEF Wanted, Shown
<1>5. \A k \in Listings : Behind(k)' <=> Coming(k) \/ k \in lost
    BY <1>1, <1>2, <1>3, <1>4 DEF Behind, Settling
<1>6. \A k \in Listings \ {l} : Behind(k) <=> Coming(k) \/ k \in lost
    BY <1>0, <1>3 DEF Behind, Settling
<1>7. w.step = "index" =>
        /\ w.seen = Wanted(l) \/ Coming(l) \/ l \in lost
        /\ w.seen \in 0..text[l] /\ (doc[l] # None => doc[l] <= w.seen)
    BY <1>0, WorkerType, LimitsAssumption DEF HeldIsCurrent, FreshInv, Holds, TypeOK
<1>8. Behind(l)
    BY <1>0, <1>1, <1>7 DEF Behind, Settling, Holds
<1>9. l \in Rear /\ Rear' = IF Behind(l)' THEN Rear ELSE Rear \ {l}
    <2>1. l \in Rear
        BY <1>8 DEF Rear
    <2>2. \A k \in Listings \ {l} : Behind(k)' <=> Behind(k)
        BY <1>5, <1>6
    <2> QED
        BY <2>1, <2>2 DEF Rear
<1>10. Front' = Front
    BY <1>1 DEF Front, Shown
<1>11. Front[l] = Shown(l)
    BY DEF Front
<1>12. ASSUME \/ doc' = [doc EXCEPT ![l] = Wanted(l)]
              \/ moved /\ doc' = [doc EXCEPT ![l] = None]
       PROVE  Promise!Look(l)
    BY <1>1, <1>9, <1>10, <1>11, <1>12 DEF Front, Rear, Wanted, Promise!Look, Promise!Wanted
<1>13. CASE Drop(r)
    <2>1. doc' = [doc EXCEPT ![l] = None]
        BY <1>0, <1>13 DEF Drop
    <2>2. ~moved => Wanted(l) = None
        BY <1>0, <1>13 DEF Drop, RestInv, AllTold, Wanted, Shown
    <2> QED
        BY <1>12, <2>1, <2>2 DEF Promise!Next
<1>14. CASE Index(r)
    <2>1. doc' = [doc EXCEPT ![l] = w.seen] /\ w.step = "index"
        BY <1>0, <1>14 DEF Index
    <2>2. CASE w.seen = Wanted(l)
        <3>1. doc' = [doc EXCEPT ![l] = Wanted(l)]
            BY <2>1, <2>2
        <3>2. Promise!Look(l)
            BY <1>12, <3>1
        <3> QED
            BY <3>2 DEF Promise!Next
    <2>3. CASE w.seen # Wanted(l)
        <3>1. Rear' = Rear
            <4>1. Coming(l) \/ l \in lost
                BY <1>7, <2>1, <2>3
            <4> QED
                BY <1>5, <1>9, <4>1
        <3>2. Promise!LookedBefore(l)
            BY <1>1, <1>7, <1>9, <1>10, <2>1, <3>1 DEF Front, Rear, Promise!LookedBefore
        <3> QED
            BY <3>2 DEF Promise!Next
    <2> QED
        BY <2>2, <2>3
<1> QED
    BY <1>13, <1>14

LEMMA OwnerKept ==
    ASSUME IndexInv, TypeOK', OwnerNext \/ SweepNext
    PROVE  [Promise!Next]_(Promise!index)
<1> USE DEF IndexInv
<1>1. ASSUME NEW l \in Listings, NEW e \in Events,
             \/ Create(l, e) \/ Edit(l, e) \/ Remove(l, e)
             \/ \E s \in Sweeps : SweepWrite(s, l, e)
      PROVE  Promise!Next
    <2>1. PICK act \in Acts : Record(e, l, act)
        BY <1>1 DEF Create, Edit, Remove, SweepWrite, Acts
    <2>2. UNCHANGED <<moved, queue, delayed, relay, doc, worker, lost>>
        BY <1>1 DEF Create, Edit, Remove, SweepWrite, account, jobs
    <2>3. /\ \A k \in Listings \ {l} : UNCHANGED <<row[k], hidden[k], text[k]>>
          /\ text'[l] \in {text[l], text[l] + 1}
        BY <1>1 DEF Create, Edit, Remove, SweepWrite, TypeOK
    <2> QED
        BY <2>1, <2>2, <2>3, WriteKept
<1>2. ASSUME UNCHANGED <<event, queue, delayed, relay, row, hidden, text, doc, worker, lost>>
      PROVE  Rear' = Rear /\ Front' = Front
    <2>1. \A k \in Listings : Wanted(k)' = Wanted(k) /\ (Coming(k)' <=> Coming(k))
        BY <1>2, StillComing DEF Wanted, Shown
    <2>2. \A k \in Listings : Behind(k)' <=> Behind(k)
        BY <1>2, <2>1 DEF Behind, Settling, Holds, Subject
    <2> QED
        BY <1>2, <2>2 DEF Rear, Front, Shown
<1>3. CASE SetStatus \/ SetLeaving
    <2>1. /\ UNCHANGED <<event, queue, delayed, relay, row, hidden, text, doc, worker, lost>>
          /\ moved' = TRUE
        BY <1>3 DEF SetStatus, SetLeaving, jobs, rows
    <2>2. Promise!Move
        BY <1>2, <2>1 DEF Front, Rear, Promise!Move
    <2> QED
        BY <2>2 DEF Promise!Next
<1>4. ASSUME NEW s \in Sweeps,
             SweepStart(s) \/ SweepFail(s) \/ \E l \in Listings : SweepRead(s, l)
      PROVE  UNCHANGED Promise!index
    <2>1. UNCHANGED <<event, queue, delayed, relay, row, hidden, text, doc, worker, lost, moved>>
        BY <1>4 DEF SweepStart, SweepFail, SweepRead, account, jobs, rows
    <2> QED
        BY <1>2, <2>1, QuietSearch
<1> QED
    BY <1>1, <1>3, <1>4 DEF OwnerNext, SweepNext

LEMMA ReplicaKept ==
    ASSUME OneReplica, IndexInv, RestInv, FreshInv, ReplicaNext
    PROVE  Promise!Next
<1>1. ASSUME UNCHANGED <<row, hidden, text, doc, moved>>, StayBehind
      PROVE  Promise!Next
    BY <1>1, AgainKept
<1>2. ASSUME NEW r \in Replicas, RelayLock(r) \/ RelayStep(r) \/ RelayFail(r)
      PROVE  Promise!Next
    <2>1. UNCHANGED <<row, hidden, text, doc, moved>>
        BY <1>2 DEF RelayLock, RelayStep, RelayEnqueue, RelayCommit, RelayBackoff,
            RelayFail, rows, account
    <2> QED
        BY <1>1, <1>2, <2>1, RelayIndex
<1>3. ASSUME NEW r \in Replicas, Index(r) \/ Drop(r)
      PROVE  Promise!Next
    BY <1>3, LookKept
<1>4. ASSUME NEW r \in Replicas, ~(Index(r) \/ Drop(r)),
             Take(r) \/ WorkStep(r) \/ WorkFail(r) \/ IndexFail(r) \/ Crash(r)
      PROVE  Promise!Next
    <2>1. UNCHANGED <<row, hidden, text, doc, moved>>
        BY <1>4 DEF Take, WorkStep, Read, Check, WorkFail, IndexFail, Crash, rows, account
    <2> QED
        BY <1>1, <1>4, <2>1, WorkerIndex
<1>5. ASSUME NEW j \in Job, Promote(j)
      PROVE  Promise!Next
    <2>1. UNCHANGED <<row, hidden, text, doc, moved>>
        BY <1>5 DEF Promote, rows, account
    <2> QED
        BY <1>1, <1>5, <2>1, PromoteIndex
<1> QED
    BY <1>2, <1>3, <1>4, <1>5 DEF ReplicaNext

\* With one replica the component implements IndexContract: whatever is relayed
\* twice, out of order, retried or broken off, the index only ever catches up with
\* the rows, or follows them from behind.
THEOREM ImplementsIndex ==
    ASSUME OneReplica
    PROVE  Spec => FollowsRows
<1>1. Init => Promise!Init
    <2> SUFFICES ASSUME Init PROVE Promise!Init
        OBVIOUS
    <2>1. \A l \in Listings : ~Shown(l) /\ ~Behind(l)
        BY DEF Init, Shown, Behind, Settling, Coming, Unsent, Waiting, IdleWork
    <2>2. Front = [l \in Listings |-> FALSE] /\ Rear = {}
        BY <2>1 DEF Front, Rear, Shown
    <2> QED
        BY <2>2 DEF Init, Front, Rear, Promise!Init
<1>2. IndexInv /\ TypeOK' /\ RestInv /\ FreshInv /\ [Next]_vars
        => [Promise!Next]_(Promise!index)
    <2> SUFFICES ASSUME IndexInv, TypeOK', RestInv, FreshInv, [Next]_vars
                 PROVE  [Promise!Next]_(Promise!index)
        OBVIOUS
    <2>1. CASE UNCHANGED vars
        <3>1. /\ UNCHANGED <<row, hidden, text, doc, moved>>
              /\ UNCHANGED <<event, queue, delayed, relay, worker, lost>>
            BY <2>1 DEF vars
        <3>2. Rear' = Rear
            BY <3>1 DEF Rear, Behind, Settling, Coming, Unsent, Enqueued, Waiting, Holds,
                Subject, Wanted, Shown
        <3> QED
            BY <3>1, <3>2, QuietSearch
    <2> QED
        BY <2>1, OwnerKept, ReplicaKept DEF Next
<1>3. Init => FreshInv
    BY DEF Init, FreshInv, Holds, IdleWork
<1>4. IndexInv /\ FreshInv /\ [Next]_vars => FreshInv'
    BY FreshStep DEF IndexInv
<1>5. IndexInv /\ [Next]_vars => IndexInv'
    BY NextIndex
<1> QED
    BY <1>1, <1>2, <1>3, <1>4, <1>5, InitIndex, TypeCorrect, RestInvariant, PTL
    DEF Spec, FollowsRows, Promise!Spec

-----------------------------------------------------------------------------
(***************************************************************************)
(* Updates on their way, with any number of replicas.                      *)
(***************************************************************************)
LEMMA BatchesStep ==
    ASSUME TypeOK, BatchesAgree, [Next]_vars
    PROVE  BatchesAgree'
<1>1. ASSUME UNCHANGED <<event, relay>> PROVE BatchesAgree'
    BY <1>1 DEF BatchesAgree
<1>2. ASSUME NEW e \in Events, NEW l \in Listings, NEW act \in Acts,
             Record(e, l, act), UNCHANGED relay
      PROVE  BatchesAgree'
    <2>1. /\ \A f \in Events \ {e} : event'[f] = event[f]
          /\ \A r \in Replicas : e \notin DOMAIN relay[r].batch
        BY <1>2 DEF Record, TypeOK
    <2> QED
        BY <1>2, <2>1, RelayType DEF BatchesAgree
<1>3. ASSUME NEW l \in Listings, NEW e \in Events,
             \/ Create(l, e) \/ Edit(l, e) \/ Remove(l, e)
             \/ \E s \in Sweeps : SweepWrite(s, l, e)
      PROVE  BatchesAgree'
    <2>1. PICK act \in Acts : Record(e, l, act)
        BY <1>3 DEF Create, Edit, Remove, SweepWrite, Acts
    <2>2. UNCHANGED relay
        BY <1>3 DEF Create, Edit, Remove, SweepWrite
    <2> QED
        BY <1>2, <2>1, <2>2
<1>4. CASE SetStatus \/ SetLeaving
    BY <1>1, <1>4 DEF SetStatus, SetLeaving
<1>5. ASSUME NEW s \in Sweeps,
             SweepStart(s) \/ SweepFail(s) \/ \E l \in Listings : SweepRead(s, l)
      PROVE  BatchesAgree'
    BY <1>1, <1>5 DEF SweepStart, SweepFail, SweepRead
\* A relay that gets a batch gets it from the outbox, and one that has one keeps
\* it or a part of it.
<1>6. ASSUME NEW r \in Replicas, \A q \in Replicas \ {r} : relay'[q] = relay[q],
             \A e \in DOMAIN relay'[r].batch :
                \/ e \in Events /\ event[e] # None /\ relay'[r].batch[e] = event[e]
                \/ e \in DOMAIN relay[r].batch /\ relay'[r].batch[e] = relay[r].batch[e],
             \A e \in Events : event'[e] # None =>
                \/ event'[e] = event[e]
                \/ e \in DOMAIN relay[r].batch /\ Agree(event'[e], relay[r].batch[e])
      PROVE  BatchesAgree'
    <2>1. ASSUME NEW q \in Replicas, NEW e \in DOMAIN relay'[q].batch
          PROVE  /\ e \in Events
                 /\ event[e] # None => Agree(event[e], relay'[q].batch[e])
                 /\ \A p \in Replicas : e \in DOMAIN relay[p].batch =>
                        Agree(relay[p].batch[e], relay'[q].batch[e])
        BY <1>6, RelayType DEF BatchesAgree, Agree
    <2>2. ASSUME NEW q \in Replicas, NEW e \in DOMAIN relay'[q].batch, event'[e] # None
          PROVE  Agree(event'[e], relay'[q].batch[e])
        BY <1>6, <2>1, <2>2 DEF Agree
    <2>3. ASSUME NEW q \in Replicas, NEW e \in DOMAIN relay'[q].batch,
                 NEW p \in Replicas, e \in DOMAIN relay'[p].batch
          PROVE  Agree(relay'[p].batch[e], relay'[q].batch[e])
        <3>1. CASE e \in DOMAIN relay[p].batch /\ relay'[p].batch[e] = relay[p].batch[e]
            BY <2>1, <3>1
        <3>2. CASE event[e] # None /\ relay'[p].batch[e] = event[e]
            BY <2>1, <3>2
        <3> QED
            BY <1>6, <2>3, <3>1, <3>2
    <2> QED
        BY <2>2, <2>3 DEF BatchesAgree
<1>7. ASSUME NEW r \in Replicas, RelayLock(r) PROVE BatchesAgree'
    <2>1. PICK S \in SUBSET Events :
            /\ \A e \in S : event[e] # None
            /\ relay' = [relay EXCEPT ![r] = [step |-> "locked", batch |-> [e \in S |-> event[e]]]]
        BY <1>7 DEF RelayLock
    <2>2. /\ relay'[r].batch = [e \in S |-> event[e]] /\ event' = event
          /\ \A q \in Replicas \ {r} : relay'[q] = relay[q]
        BY <1>7, <2>1 DEF RelayLock, TypeOK
    <2> QED
        BY <1>6, <2>1, <2>2
<1>8. ASSUME NEW r \in Replicas, RelayEnqueue(r) \/ RelayFail(r) PROVE BatchesAgree'
    <2>1. event' = event /\ \E step \in {"queued", "failed"} : relay' = [relay EXCEPT ![r].step = step]
        BY <1>8 DEF RelayEnqueue, RelayFail
    <2>2. relay'[r].batch = relay[r].batch /\ \A q \in Replicas \ {r} : relay'[q] = relay[q]
        BY <2>1, RelaySteps
    <2> QED
        BY <1>6, <2>1, <2>2
<1>9. ASSUME NEW r \in Replicas, RelayCommit(r) \/ Crash(r) PROVE BatchesAgree'
    <2>1. /\ \A q \in Replicas \ {r} : relay'[q] = relay[q]
          /\ relay'[r].batch = <<>>
          /\ \A e \in Events : event'[e] # None => event'[e] = event[e]
        BY <1>9 DEF RelayCommit, Crash, IdleRelay, TypeOK
    <2> QED
        BY <1>6, <2>1, NoBatch
<1>10. ASSUME NEW r \in Replicas, NEW e \in Events, RelayBackoff(r, e)
       PROVE  BatchesAgree'
    <2> DEFINE b == relay[r].batch
               rest == DOMAIN b \ {e}
               n == [b[e] EXCEPT !.attempts = @ + 1]
    <2>1. /\ e \in DOMAIN b /\ b[e] \in Event /\ rest \subseteq Events
          /\ relay' = [relay EXCEPT ![r] = IF rest = {} THEN IdleRelay
                ELSE [step |-> "failed", batch |-> [f \in rest |-> b[f]]]]
          /\ event' = [event EXCEPT ![e] = None] \/ event' = [event EXCEPT ![e] = n]
        BY <1>10, RelayType DEF RelayBackoff
    <2>2. /\ \A q \in Replicas \ {r} : relay'[q] = relay[q]
          /\ relay'[r].batch = IF rest = {} THEN <<>> ELSE [f \in rest |-> b[f]]
        BY <2>1 DEF IdleRelay, TypeOK
    <2>3. \A f \in DOMAIN relay'[r].batch : f \in DOMAIN b /\ relay'[r].batch[f] = b[f]
        BY <2>2, NoBatch
    <2>4. Agree(n, b[e])
        BY <2>1 DEF Agree, Event
    <2> HIDE DEF n
    <2>5. \A f \in Events : event'[f] # None =>
            event'[f] = event[f] \/ (f = e /\ Agree(event'[f], b[f]))
        <3>1. event'[e] \in {None, n} /\ \A f \in Events \ {e} : event'[f] = event[f]
            BY <2>1 DEF TypeOK
        <3> QED
            BY <2>4, <3>1
    <2> QED
        BY <1>6, <2>1, <2>2, <2>3, <2>5
<1>11. ASSUME NEW r \in Replicas, Take(r) \/ WorkStep(r) \/ WorkFail(r) \/ IndexFail(r)
       PROVE  BatchesAgree'
    BY <1>1, <1>11 DEF Take, WorkStep, Read, Check, Index, Drop, WorkFail, IndexFail
<1>12. ASSUME NEW j \in Job, Promote(j) PROVE BatchesAgree'
    BY <1>1, <1>12 DEF Promote
<1>13. CASE UNCHANGED vars
    BY <1>1, <1>13 DEF vars
<1> QED
    BY <1>3, <1>4, <1>5, <1>7, <1>8, <1>9, <1>10, <1>11, <1>12, <1>13
    DEF Next, OwnerNext, SweepNext, ReplicaNext, RelayStep

LEMMA RangeSplit ==
    ASSUME NEW q \in Seq(Job), q # <<>>
    PROVE  Range(q) \subseteq {Head(q)} \cup Range(Tail(q))
<1>1. /\ Len(Tail(q)) = Len(q) - 1 /\ Tail(q) \in Seq(Job)
      /\ \A i \in 1..Len(Tail(q)) : Tail(q)[i] = q[i + 1]
    BY HeadTailProperties, Zenon
<1>2. /\ DOMAIN q = 1..Len(q) /\ Len(q) \in Nat \ {0} /\ Head(q) = q[1]
      /\ DOMAIN Tail(q) = 1..Len(Tail(q))
    BY <1>1, LenProperties, EmptySeq
<1>3. ASSUME NEW i \in DOMAIN q, i # 1
      PROVE  i - 1 \in DOMAIN Tail(q) /\ Tail(q)[i - 1] = q[i]
    BY <1>1, <1>2, <1>3
<1> QED
    BY <1>2, <1>3 DEF Range

\* Each event of a batch has its job among those the relay enqueues.
LEMMA OrdersAll ==
    ASSUME NEW S \in SUBSET Events, NEW b \in [S -> Event], NEW o \in Orders(S),
           NEW e \in S
    PROVE  AsJob(b[e]) \in Range([i \in DOMAIN o |-> AsJob(b[o[i]])])
<1>1. PICK i \in DOMAIN o : o[i] = e
    BY DEF Orders
<1> QED
    BY <1>1 DEF Range

\* An update on its way, by where it is.
Due(l, act)    == \E e \in Events : event[e] # None /\ ~Enqueued(e) /\ Tells(event[e], l, act)
Queued(l, act) == \E j \in Range(queue) : Tells(j, l, act)
Put(l, act)    == \E j \in Job : delayed[j] > 0 /\ Tells(j, l, act)
Held(l, act)   == \E r \in Replicas : worker[r].step # "idle" /\ Tells(worker[r].job, l, act)

LEMMA CarriedParts ==
    ASSUME NEW l, NEW act
    PROVE  /\ Carried(l, act) <=>
                Due(l, act) \/ Queued(l, act) \/ Put(l, act) \/ Held(l, act)
           /\ Carried(l, act)' <=>
                Due(l, act)' \/ Queued(l, act)' \/ Put(l, act)' \/ Held(l, act)'
BY DEF Carried, Due, Queued, Put, Held, Range

\* Writes and sweeps only add to what is due.
LEMMA RowsCarry ==
    ASSUME TypeOK, OwnerNext \/ SweepNext, NEW l, NEW act, Carried(l, act)
    PROVE  Carried(l, act)'
<1>1. UNCHANGED <<queue, delayed, relay, worker>>
    BY DEF OwnerNext, Create, Edit, Remove, SetStatus, SetLeaving, SweepNext, SweepStart,
        SweepRead, SweepWrite, SweepFail, jobs
<1>2. \A e \in Events : event[e] # None => event'[e] = event[e]
    <2>1. ASSUME NEW f \in Events, NEW k \in Listings, NEW a \in Acts, Record(f, k, a)
          PROVE  \A e \in Events : event[e] # None => event'[e] = event[e]
        BY <2>1 DEF Record, TypeOK
    <2>2. \/ event' = event
          \/ \E f \in Events, k \in Listings, a \in Acts : Record(f, k, a)
        BY DEF OwnerNext, Create, Edit, Remove, SetStatus, SetLeaving, SweepNext,
            SweepStart, SweepRead, SweepWrite, SweepFail, Acts
    <2> QED
        BY <2>1, <2>2
<1>3. Due(l, act) => Due(l, act)'
    BY <1>1, <1>2 DEF Due, Enqueued
<1>4. /\ Queued(l, act)' <=> Queued(l, act)
      /\ Put(l, act)' <=> Put(l, act)
      /\ Held(l, act)' <=> Held(l, act)
    BY <1>1 DEF Queued, Put, Held
<1> QED
    BY <1>3, <1>4, CarriedParts

LEMMA RelayCarries ==
    ASSUME TypeOK, BatchesAgree, NEW r \in Replicas,
           RelayLock(r) \/ RelayStep(r) \/ RelayFail(r),
           NEW l \in Listings, NEW act \in Acts, Carried(l, act)
    PROVE  Carried(l, act)' \/ l \in lost'
<1> DEFINE b == relay[r].batch
<1>0. DOMAIN b \in SUBSET Events /\ b \in [DOMAIN b -> Event]
    BY RelayType
<1>1. delayed' = delayed /\ worker' = worker
    BY DEF RelayLock, RelayStep, RelayEnqueue, RelayCommit, RelayBackoff, RelayFail, jobs
<1>2. Put(l, act) \/ Held(l, act) => Carried(l, act)'
    BY <1>1, CarriedParts DEF Put, Held
<1>3. ASSUME Range(queue) \subseteq Range(queue') PROVE Queued(l, act) => Carried(l, act)'
    BY <1>3, CarriedParts DEF Queued
<1>4. CASE RelayLock(r) \/ RelayFail(r)
    <2>1. /\ queue' = queue /\ event' = event
          /\ \E n : relay' = [relay EXCEPT ![r] = n] /\ n.step # "queued"
        <3>1. CASE RelayLock(r)
            BY <3>1 DEF RelayLock, jobs
        <3>2. CASE RelayFail(r)
            <4>1. relay' = [relay EXCEPT ![r] = [relay[r] EXCEPT !.step = "failed"]]
                BY <3>2 DEF RelayFail
            <4>2. [relay[r] EXCEPT !.step = "failed"].step = "failed"
                BY DEF TypeOK
            <4> QED
                BY <3>2, <4>1, <4>2 DEF RelayFail, jobs
        <3> QED
            BY <1>4, <3>1, <3>2
    <2>2. \A e \in Events : Enqueued(e)' => Enqueued(e)
        BY <2>1 DEF Enqueued, TypeOK
    <2>3. Due(l, act) => Due(l, act)'
        BY <2>1, <2>2 DEF Due
    <2> QED
        BY <1>2, <1>3, <2>1, <2>3, CarriedParts
<1>5. CASE RelayEnqueue(r)
    <2>1. PICK o \in Orders(DOMAIN b) :
            queue' = queue \o [i \in DOMAIN o |-> AsJob(b[o[i]])]
        BY <1>5 DEF RelayEnqueue
    <2> DEFINE q == [i \in DOMAIN o |-> AsJob(b[o[i]])]
    <2>2. q \in Seq(Job) /\ queue \in Seq(Job)
        <3>1. q \in Seq(Job)
            BY <1>0, OrdersType
        <3> QED
            BY <3>1 DEF TypeOK
    <2>3. \A e \in DOMAIN b : AsJob(b[e]) \in Range(q)
        BY <1>0, OrdersAll
    <2> HIDE DEF q
    <2>4. Range(queue') = Range(queue) \cup Range(q)
        BY <2>1, <2>2, RangeConcatenation DEF q
    <2>5. event' = event /\ relay' = [relay EXCEPT ![r].step = "queued"]
        BY <1>5 DEF RelayEnqueue
    <2>6. \A p \in Replicas : relay'[p].batch = relay[p].batch /\ (p # r => relay'[p] = relay[p])
        BY <2>5, RelaySteps
    <2>7. ASSUME NEW e \in Events, event[e] # None, ~Enqueued(e), Tells(event[e], l, act)
          PROVE  Carried(l, act)'
        <3>1. CASE e \in DOMAIN b
            <4>1. Tells(AsJob(b[e]), l, act)
                BY <2>7, <3>1 DEF BatchesAgree, Agree, Tells, AsJob
            <4> QED
                BY <2>3, <2>4, <3>1, <4>1, CarriedParts DEF Queued
        <3>2. CASE e \notin DOMAIN b
            <4>1. ~Enqueued(e)'
                BY <2>6, <2>7, <3>2 DEF Enqueued
            <4> QED
                BY <2>5, <2>7, <4>1, CarriedParts DEF Due
        <3> QED
            BY <3>1, <3>2
    <2> QED
        BY <1>2, <1>3, <2>4, <2>7, CarriedParts DEF Due
<1>6. CASE RelayCommit(r)
    <2>1. /\ queue' = queue /\ relay[r].step = "queued"
          /\ \A e \in Events \ DOMAIN b : event'[e] = event[e]
          /\ \A p \in Replicas \ {r} : relay'[p] = relay[p]
          /\ relay'[r].step = "idle"
        BY <1>6 DEF RelayCommit, IdleRelay, TypeOK, jobs
    <2>2. \A e \in Events : Enqueued(e)' => Enqueued(e)
        BY <2>1 DEF Enqueued
    <2>3. Due(l, act) => Due(l, act)'
        BY <2>1, <2>2 DEF Due, Enqueued
    <2> QED
        BY <1>2, <1>3, <2>1, <2>3, CarriedParts
<1>7. ASSUME NEW f \in Events, RelayBackoff(r, f)
      PROVE  Carried(l, act)' \/ l \in lost'
    <2> DEFINE n == [b[f] EXCEPT !.attempts = @ + 1]
    <2>1. /\ queue' = queue /\ f \in DOMAIN b
          /\ \/ event' = [event EXCEPT ![f] = None] /\ lost' = lost \cup {b[f].l}
             \/ event' = [event EXCEPT ![f] = n] /\ ~(b[f].attempts + 1 >= MaxAttempts)
        BY <1>7 DEF RelayBackoff, jobs
    <2>2. \A e \in Events : Enqueued(e)' => Enqueued(e)
        <3> DEFINE rest == DOMAIN b \ {f}
                   m == IF rest = {} THEN IdleRelay
                        ELSE [step |-> "failed", batch |-> [g \in rest |-> b[g]]]
        <3>1. relay' = [relay EXCEPT ![r] = m]
            BY <1>7 DEF RelayBackoff
        <3>2. m.step # "queued"
            BY DEF IdleRelay
        <3> HIDE DEF m
        <3> QED
            BY <3>1, <3>2 DEF Enqueued, TypeOK
    <2>3. n.l = b[f].l /\ n.act = b[f].act /\ (~(b[f].attempts + 1 >= MaxAttempts) => n # None)
        <3>1. b[f] \in Event
            BY <1>0, <2>1
        <3>2. ~(b[f].attempts + 1 >= MaxAttempts) => n \in Event
            BY <3>1, LimitsAssumption DEF Event
        <3> QED
            BY <3>1, <3>2, NoneAssumption DEF Event
    <2> HIDE DEF n
    <2>4. ASSUME NEW e \in Events, event[e] # None, ~Enqueued(e), Tells(event[e], l, act)
          PROVE  Carried(l, act)' \/ l \in lost'
        <3>1. CASE e = f
            <4>1. b[f].l = l /\ b[f].act = act
                BY <2>1, <2>4, <3>1 DEF BatchesAgree, Agree, Tells
            <4>2. CASE event' = [event EXCEPT ![f] = n] /\ ~(b[f].attempts + 1 >= MaxAttempts)
                <5>1. event'[e] = n /\ n # None
                    BY <2>3, <3>1, <4>2 DEF TypeOK
                <5> QED
                    BY <2>2, <2>3, <2>4, <4>1, <5>1, CarriedParts DEF Due, Tells
            <4> QED
                BY <2>1, <4>1, <4>2
        <3>2. CASE e # f
            <4>1. event'[e] = event[e]
                BY <2>1, <3>2 DEF TypeOK
            <4> QED
                BY <2>2, <2>4, <4>1, CarriedParts DEF Due
        <3> QED
            BY <3>1, <3>2
    <2> QED
        BY <1>2, <1>3, <2>1, <2>4, CarriedParts DEF Due
<1> QED
    BY <1>4, <1>5, <1>6, <1>7 DEF RelayStep

LEMMA WorkerCarries ==
    ASSUME TypeOK, NEW r \in Replicas,
           Take(r) \/ WorkStep(r) \/ WorkFail(r) \/ IndexFail(r) \/ Crash(r),
           NEW l \in Listings, NEW act \in Acts, Carried(l, act)
    PROVE  Carried(l, act)' \/ Made(l, act) \/ l \in lost'
<1> DEFINE w == worker[r]
           Mine == w.step # "idle" /\ Tells(w.job, l, act)
<1>1. event' = event
    BY DEF Take, WorkStep, Read, Check, Index, Drop, WorkFail, IndexFail, Crash
<1>2. \A e \in Events : Enqueued(e)' => Enqueued(e)
    <2>1. CASE relay' = relay
        BY <2>1 DEF Enqueued
    <2>2. CASE Crash(r)
        BY <2>2 DEF Crash, IdleRelay, Enqueued, TypeOK
    <2> QED
        BY <2>1, <2>2 DEF Take, WorkStep, Read, Check, Index, Drop, WorkFail, IndexFail
<1>3. Due(l, act) => Carried(l, act)'
    BY <1>1, <1>2, CarriedParts DEF Due
<1>4. \A q \in Replicas \ {r} : worker'[q] = worker[q]
    BY DEF Take, WorkStep, Read, Check, Index, Drop, WorkFail, IndexFail, Crash,
        Become, Rest, TypeOK
<1>5. Held(l, act) => Carried(l, act)' \/ Mine
    BY <1>4, CarriedParts DEF Held
<1>6. \A j \in Job : delayed[j] > 0 => delayed'[j] > 0
    <2>1. CASE UNCHANGED delayed
        BY <2>1
    <2>2. CASE WorkFail(r)
        <3> DEFINE i == [w.job EXCEPT !.tries = @ + 1]
        <3>1. delayed' = delayed \/ delayed' = [delayed EXCEPT ![i] = @ + 1]
            BY <2>2 DEF WorkFail
        <3>2. delayed \in [Job -> Nat]
            BY DEF TypeOK
        <3> HIDE DEF i
        <3> QED
            BY <3>1, <3>2
    <2> QED
        BY <2>1, <2>2 DEF Take, WorkStep, Read, Check, Index, Drop, IndexFail, Crash, jobs
<1>7. Put(l, act) => Carried(l, act)'
    BY <1>6, CarriedParts DEF Put
<1>8. CASE Take(r)
    <2>1. /\ queue \in Seq(Job) /\ queue # <<>> /\ queue' = Tail(queue)
          /\ w.step = "idle" /\ worker'[r].step # "idle" /\ worker'[r].job = Head(queue)
        BY <1>8 DEF Take, TypeOK
    <2>2. Queued(l, act) => Carried(l, act)'
        BY <2>1, RangeSplit, CarriedParts DEF Queued, Held
    <2> QED
        BY <1>3, <1>5, <1>7, <2>1, <2>2, CarriedParts
<1>9. ASSUME Range(queue) \subseteq Range(queue')
      PROVE  Carried(l, act)' \/ Mine
    <2>1. Queued(l, act) => Carried(l, act)'
        BY <1>9, CarriedParts DEF Queued
    <2> QED
        BY <1>3, <1>5, <1>7, <2>1, CarriedParts
<1>10. CASE Read(r) \/ Check(r)
    <2>1. /\ queue' = queue
          /\ \E step \in {"check", "index", "drop"} : \E seen : Become(r, step, seen)
        BY <1>10 DEF Read, Check, jobs
    <2>2. worker'[r].step # "idle" /\ worker'[r].job = w.job
        BY <2>1 DEF Become, TypeOK
    <2>3. Mine => Held(l, act)'
        BY <2>2 DEF Held
    <2> QED
        BY <1>9, <2>1, <2>3, CarriedParts
<1>11. CASE Index(r) \/ Drop(r)
    <2>1. queue' = queue
        BY <1>11 DEF Index, Drop, jobs
    <2> QED
        BY <1>9, <1>11, <2>1 DEF Made
<1>12. CASE IndexFail(r)
    <2>1. queue' = queue /\ lost' = lost \cup {Subject(r)}
        BY <1>12 DEF IndexFail, jobs
    <2> QED
        BY <1>9, <2>1 DEF Tells, Subject
<1>13. CASE WorkFail(r)
    <2> DEFINE j == [w.job EXCEPT !.tries = @ + 1]
    <2>1. /\ queue' = queue /\ w.step # "idle"
          /\ \/ w.job.tries + 1 < MaxTries /\ delayed' = [delayed EXCEPT ![j] = @ + 1]
             \/ lost' = lost \cup {Subject(r)}
        BY <1>13 DEF WorkFail
    <2>2. CASE lost' = lost \cup {Subject(r)}
        BY <1>9, <2>1, <2>2 DEF Tells, Subject
    <2>3. CASE w.job.tries + 1 < MaxTries /\ delayed' = [delayed EXCEPT ![j] = @ + 1]
        <3>1. w.job \in Job
            BY <2>1, WorkerType
        <3>2. j \in Job /\ j.l = w.job.l /\ j.act = w.job.act
            BY <2>3, <3>1, LimitsAssumption DEF Job
        <3> HIDE DEF j
        <3>3. delayed'[j] > 0
            BY <2>3, <3>2 DEF TypeOK
        <3>4. Mine => Put(l, act)'
            BY <3>2, <3>3 DEF Put, Tells
        <3> QED
            BY <1>9, <2>1, <3>4, CarriedParts
    <2> QED
        BY <2>1, <2>2, <2>3
<1>14. CASE Crash(r)
    <2>1. CASE w.step = "idle"
        BY <1>9, <1>14, <2>1 DEF Crash
    <2>2. CASE w.step # "idle"
        <3>1. w.job \in Job /\ queue \in Seq(Job) /\ queue' = <<w.job>> \o queue
            BY <1>14, <2>2, WorkerType DEF Crash, TypeOK
        <3>2. Range(queue') = {w.job} \cup Range(queue)
            BY <3>1, RangeOne, Zenon
        <3>3. Mine => Queued(l, act)'
            BY <3>2 DEF Queued
        <3> QED
            BY <1>9, <3>2, <3>3, CarriedParts
    <2> QED
        BY <2>1, <2>2
<1> QED
    BY <1>8, <1>10, <1>11, <1>12, <1>13, <1>14 DEF WorkStep

LEMMA PromoteCarries ==
    ASSUME TypeOK, NEW j \in Job, Promote(j), NEW l, NEW act, Carried(l, act)
    PROVE  Carried(l, act)'
<1>1. /\ UNCHANGED <<event, relay, worker>> /\ queue \in Seq(Job)
      /\ queue' = queue \o <<j>>
      /\ \A i \in Job \ {j} : delayed'[i] = delayed[i]
    BY DEF Promote, TypeOK
<1>2. Range(queue') = Range(queue) \cup {j}
    BY <1>1, RangeOne, Zenon
<1>3. /\ Due(l, act) => Due(l, act)'
      /\ Held(l, act) => Held(l, act)'
    BY <1>1 DEF Due, Held, Enqueued
<1>4. Queued(l, act) \/ Put(l, act) => Put(l, act)' \/ Queued(l, act)'
    BY <1>1, <1>2 DEF Put, Queued
<1> QED
    BY <1>3, <1>4, CarriedParts

\* An update on its way stays so until a worker makes it, or an error that was
\* only logged ends it: relays that meet over an event, transactions that fail
\* after their jobs are in the queue, and workers that die lose none.
THEOREM NoUpdateIsLost == Spec => UpdatesArrive
<1> DEFINE Step ==
        \A l \in Listings, act \in Acts :
            Carried(l, act) => Carried(l, act)' \/ Made(l, act) \/ l \in lost'
<1>1. Init => BatchesAgree
    BY NoBatch DEF Init, IdleRelay, BatchesAgree
<1>2. TypeOK /\ BatchesAgree /\ [Next]_vars => BatchesAgree'
    BY BatchesStep
<1>3. TypeOK /\ BatchesAgree /\ [Next]_vars => [Step]_vars
    BY RowsCarry, RelayCarries, WorkerCarries, PromoteCarries DEF Next, ReplicaNext
<1> QED
    BY <1>1, <1>2, <1>3, TypeCorrect, PTL DEF Spec, UpdatesArrive
=============================================================================
