--------------------------- MODULE TransportFlow ---------------------------
(***************************************************************************)
(* The life of a transport request: a shipper opens it, carriers offer a   *)
(* price, the shipper accepts one offer, the booking made from it is       *)
(* started and completed or cancelled, a daily job expires the requests    *)
(* nobody accepted, and administrators and the account-deletion job reach  *)
(* into the same rows from outside.                                        *)
(*                                                                         *)
(* Every HTTP handler and every cron firing runs in a call slot.  A        *)
(* handler awaits between the row it reads and the row it writes, so a     *)
(* slot holds what was read (call[p]) and each await is a step of its own. *)
(* The guards that matter are the ones the handler evaluated on what it    *)
(* READ: nearly all of its later writes name the row by id only.  What the *)
(* database does in one transaction is one step, except withdrawQuote,     *)
(* whose READ COMMITTED transaction can see others commit between its      *)
(* statements; the row it has updated stays locked until it commits.       *)
(*                                                                         *)
(* Left out: payloads, prices, notifications, caches, and the daily quota  *)
(* of submitQuote, which is the early return a submission may take.        *)
(* Each request has a shipper of its own.                                  *)
(***************************************************************************)
EXTENDS Naturals, FiniteSets

CONSTANTS
    Requests,   \* transport request rows
    Carriers,   \* carrier profiles
    Calls,      \* slots for handlers in flight, over all replicas
    Nobody,     \* the carrier of a request that has no booking
    Outside,    \* which outside actors run: subset of {"ADMIN", "ERASURE"}
    MaxTrips    \* bound on the completedTrips counter of a carrier

ASSUME NobodyAssumption == Nobody \notin Carriers
ASSUME OutsideAssumption == Outside \subseteq {"ADMIN", "ERASURE"}
ASSUME MaxTripsAssumption == MaxTrips \in Nat

VARIABLES
    request,    \* status of each request row; NONE before, DELETED after
    due,        \* has expiresAt of the request passed?
    quote,      \* status of the one row a (request, carrier) pair may have
    booking,    \* status of the one booking a request may have
    bookedBy,   \* the carrier whose quote the booking refers to
    trips,      \* completedTrips of each carrier
    shipper,    \* is the account of the request's owner still there?
    profile,    \* ... and the account and profile of each carrier?
    call,       \* what each handler in flight has read so far
    raced       \* history: have two handlers overlapped, or outsiders acted?

rows == <<request, due, quote, booking, bookedBy, trips, shipper, profile>>
vars == <<request, due, quote, booking, bookedBy, trips, shipper, profile, call,
          raced>>

Statuses == {"OPEN", "QUOTED", "ACCEPTED", "IN_PROGRESS", "COMPLETED",
             "CANCELLED", "EXPIRED"}
Live     == {"OPEN", "QUOTED"}
Engaged  == {"ACCEPTED", "IN_PROGRESS", "COMPLETED"}
QuoteStatuses   == {"NONE", "PENDING", "ACCEPTED", "REJECTED", "WITHDRAWN"}
BookingStatuses == {"NONE", "ACCEPTED", "IN_PROGRESS", "COMPLETED", "CANCELLED"}

Idle == [step |-> "idle"]

\* What a slot may hold: the handler's position and the values it has read.
CallStates ==
    {Idle}
    \cup [step : {"submitChecked"}, r : Requests, c : Carriers, open : BOOLEAN]
    \cup [step : {"submitInserted", "withdrawRead"}, r : Requests, c : Carriers]
    \cup [step : {"withdrawCounted"}, r : Requests, c : Carriers, last : BOOLEAN]
    \cup [step : {"cancelRead", "repostRead", "startRead", "completeRead",
                  "bookingCancelRead"}, r : Requests]
    \cup [step : {"cancelFetched", "cancelWritten"}, r : Requests,
          offers : SUBSET Carriers]
    \cup [step : {"expireRead"}, batch : SUBSET Requests]

TypeOK ==
    /\ request \in [Requests -> Statuses \cup {"NONE", "DELETED"}]
    /\ due \in [Requests -> BOOLEAN]
    /\ quote \in [Requests -> [Carriers -> QuoteStatuses]]
    /\ booking \in [Requests -> BookingStatuses]
    /\ bookedBy \in [Requests -> Carriers \cup {Nobody}]
    /\ trips \in [Carriers -> 0..MaxTrips]
    /\ shipper \in [Requests -> {"ACTIVE", "ERASED"}]
    /\ profile \in [Carriers -> {"ACTIVE", "ERASED", "REMOVED"}]
    /\ call \in [Calls -> CallStates]
    /\ raced \in BOOLEAN

Init ==
    /\ request = [r \in Requests |-> "NONE"]
    /\ due = [r \in Requests |-> FALSE]
    /\ quote = [r \in Requests |-> [c \in Carriers |-> "NONE"]]
    /\ booking = [r \in Requests |-> "NONE"]
    /\ bookedBy = [r \in Requests |-> Nobody]
    /\ trips = [c \in Carriers |-> 0]
    /\ shipper = [r \in Requests |-> "ACTIVE"]
    /\ profile = [c \in Carriers |-> "ACTIVE"]
    /\ call = [p \in Calls |-> Idle]
    /\ raced = FALSE

-----------------------------------------------------------------------------
(***************************************************************************)
(* Positions of a handler.                                                 *)
(***************************************************************************)
Free(p)        == call[p] = Idle
At(p, step, r) == call[p].step = step /\ call[p].r = r
Go(p, state)   == call' = [call EXCEPT ![p] = state]
Done(p)        == Go(p, Idle)

Present(r)  == request[r] \notin {"NONE", "DELETED"}
Pending(r)  == {c \in Carriers : quote[r][c] = "PENDING"}

\* The row lock withdrawQuote holds from its update to its commit.
Locked(r, c) ==
    \E p \in Calls : At(p, "withdrawCounted", r) /\ call[p].c = c

-----------------------------------------------------------------------------
(***************************************************************************)
(* Requests.                                                               *)
(***************************************************************************)
\* create: a new OPEN row that expires in thirty days.
Create(r) ==
    /\ request[r] = "NONE" /\ shipper[r] = "ACTIVE"
    /\ request' = [request EXCEPT ![r] = "OPEN"]
    /\ UNCHANGED <<due, quote, booking, bookedBy, trips, shipper, profile, call>>

\* The clock passes expiresAt.
Lapse(r) ==
    /\ Present(r) /\ ~due[r]
    /\ due' = [due EXCEPT ![r] = TRUE]
    /\ UNCHANGED <<request, quote, booking, bookedBy, trips, shipper, profile, call>>

\* cancel, up to the status check.
CancelRead(p, r) ==
    /\ Free(p) /\ shipper[r] = "ACTIVE" /\ request[r] \in Live
    /\ Go(p, [step |-> "cancelRead", r |-> r])
    /\ UNCHANGED rows

\* cancel, the list of pending quotes.
CancelFetch(p, r) ==
    /\ At(p, "cancelRead", r)
    /\ Go(p, [step |-> "cancelFetched", r |-> r, offers |-> Pending(r)])
    /\ UNCHANGED rows

\* cancel, the status: by id, and an error if the row is gone.
CancelWrite(p, r) ==
    /\ At(p, "cancelFetched", r) /\ Present(r)
    /\ request' = [request EXCEPT ![r] = "CANCELLED"]
    /\ IF call[p].offers = {} THEN Done(p)
       ELSE Go(p, [step |-> "cancelWritten", r |-> r, offers |-> call[p].offers])
    /\ UNCHANGED <<due, quote, booking, bookedBy, trips, shipper, profile>>

\* cancel, the quotes listed before: by id, whatever their status is by now.
CancelReject(p, r) ==
    /\ At(p, "cancelWritten", r)
    /\ \A c \in call[p].offers : ~Locked(r, c)
    /\ quote' = [quote EXCEPT ![r] = [c \in Carriers |->
            IF c \in call[p].offers /\ quote[r][c] # "NONE"
            THEN "REJECTED" ELSE quote[r][c]]]
    /\ Done(p)
    /\ UNCHANGED <<request, due, booking, bookedBy, trips, shipper, profile>>

\* repost, up to the status check.
RepostRead(p, r) ==
    /\ Free(p) /\ shipper[r] = "ACTIVE" /\ request[r] = "EXPIRED"
    /\ Go(p, [step |-> "repostRead", r |-> r])
    /\ UNCHANGED rows

\* repost, the write: open for another thirty days.
RepostWrite(p, r) ==
    /\ At(p, "repostRead", r) /\ Present(r)
    /\ request' = [request EXCEPT ![r] = "OPEN"]
    /\ due' = [due EXCEPT ![r] = FALSE]
    /\ Done(p)
    /\ UNCHANGED <<quote, booking, bookedBy, trips, shipper, profile>>

\* expireOldRequests, the list of overdue live requests.
ExpireRead(p) ==
    LET overdue == {r \in Requests : request[r] \in Live /\ due[r]} IN
    /\ Free(p) /\ overdue # {}
    /\ Go(p, [step |-> "expireRead", batch |-> overdue])
    /\ UNCHANGED rows

\* expireOldRequests, the write: every listed row, by id.
ExpireWrite(p) ==
    /\ call[p].step = "expireRead"
    /\ request' = [r \in Requests |->
            IF r \in call[p].batch /\ Present(r) THEN "EXPIRED" ELSE request[r]]
    /\ Done(p)
    /\ UNCHANGED <<due, quote, booking, bookedBy, trips, shipper, profile>>

-----------------------------------------------------------------------------
(***************************************************************************)
(* Quotes.                                                                 *)
(***************************************************************************)
\* submitQuote, every check before the insert; remembers whether it saw OPEN.
SubmitCheck(p, r, c) ==
    /\ Free(p) /\ profile[c] = "ACTIVE"
    /\ request[r] \in Live
    /\ quote[r][c] = "NONE"
    /\ Go(p, [step |-> "submitChecked", r |-> r, c |-> c,
              open |-> request[r] = "OPEN"])
    /\ UNCHANGED rows

\* submitQuote, the insert; a second row for the pair, or a row of a request
\* or profile that is gone, breaks a constraint and ends the call (Fail).
SubmitInsert(p, r, c) ==
    /\ At(p, "submitChecked", r) /\ call[p].c = c
    /\ Present(r) /\ profile[c] # "REMOVED" /\ quote[r][c] = "NONE"
    /\ quote' = [quote EXCEPT ![r][c] = "PENDING"]
    /\ IF call[p].open THEN Go(p, [step |-> "submitInserted", r |-> r, c |-> c])
       ELSE Done(p)
    /\ UNCHANGED <<request, due, booking, bookedBy, trips, shipper, profile>>

\* submitQuote, the request: QUOTED because it WAS open.
SubmitMark(p, r) ==
    /\ At(p, "submitInserted", r) /\ Present(r)
    /\ request' = [request EXCEPT ![r] = "QUOTED"]
    /\ Done(p)
    /\ UNCHANGED <<due, quote, booking, bookedBy, trips, shipper, profile>>

\* Mutant: the other pending offers are left alone.
AcceptKeepsOthers(p, r, c) ==
    /\ Free(p) /\ quote[r][c] = "PENDING" /\ request[r] \in Live
    /\ booking[r] = "NONE" /\ ~Locked(r, c)
    /\ quote' = [quote EXCEPT ![r][c] = "ACCEPTED"]
    /\ request' = [request EXCEPT ![r] = "ACCEPTED"]
    /\ booking' = [booking EXCEPT ![r] = "ACCEPTED"]
    /\ bookedBy' = [bookedBy EXCEPT ![r] = c]
    /\ UNCHANGED <<due, trips, shipper, profile, call>>

\* Mutant: no unique key on the booking's request.
AcceptAgain(p, r, c) ==
    /\ Free(p) /\ quote[r][c] = "PENDING" /\ request[r] \in Live
    /\ quote' = [quote EXCEPT ![r][c] = "ACCEPTED"]
    /\ request' = [request EXCEPT ![r] = "ACCEPTED"]
    /\ booking' = [booking EXCEPT ![r] = "ACCEPTED"]
    /\ bookedBy' = [bookedBy EXCEPT ![r] = c]
    /\ UNCHANGED <<due, trips, shipper, profile, call>>

\* Mutant: no transaction, and a failure before the booking is inserted.
AcceptTorn(p, r, c) ==
    /\ Free(p) /\ quote[r][c] = "PENDING" /\ request[r] \in Live
    /\ quote' = [quote EXCEPT ![r][c] = "ACCEPTED"]
    /\ request' = [request EXCEPT ![r] = "ACCEPTED"]
    /\ UNCHANGED <<due, booking, bookedBy, trips, shipper, profile, call>>

\* acceptQuote: one SERIALIZABLE transaction.  It aborts when a row it writes
\* was changed since its snapshot, so what commits is one atomic step; the
\* insert breaks booking.requestId's uniqueness if a booking was ever made.
Accept(p, r, c) ==
    /\ Free(p) /\ shipper[r] = "ACTIVE"
    /\ quote[r][c] = "PENDING" /\ request[r] \in Live
    /\ booking[r] = "NONE"
    /\ \A d \in Pending(r) : ~Locked(r, d)
    /\ quote' = [quote EXCEPT ![r] = [d \in Carriers |->
            IF d = c THEN "ACCEPTED"
            ELSE IF quote[r][d] = "PENDING" THEN "REJECTED" ELSE quote[r][d]]]
    /\ request' = [request EXCEPT ![r] = "ACCEPTED"]
    /\ booking' = [booking EXCEPT ![r] = "ACCEPTED"]
    /\ bookedBy' = [bookedBy EXCEPT ![r] = c]
    /\ UNCHANGED <<due, trips, shipper, profile, call>>

\* withdrawQuote, the read and the status check.
WithdrawRead(p, r, c) ==
    /\ Free(p) /\ profile[c] = "ACTIVE" /\ quote[r][c] = "PENDING"
    /\ Go(p, [step |-> "withdrawRead", r |-> r, c |-> c])
    /\ UNCHANGED rows

\* Mutant: the count still sees the withdrawn offer.
WithdrawCountOwn(p, r, c) ==
    /\ At(p, "withdrawRead", r) /\ call[p].c = c
    /\ quote[r][c] # "NONE" /\ ~Locked(r, c)
    /\ Go(p, [step |-> "withdrawCounted", r |-> r, c |-> c,
              last |-> Pending(r) = {}])
    /\ UNCHANGED rows

\* withdrawQuote, the update (by id, not yet visible to others) and the count
\* of the pending quotes that others have committed.
WithdrawCount(p, r, c) ==
    /\ At(p, "withdrawRead", r) /\ call[p].c = c
    /\ quote[r][c] # "NONE" /\ ~Locked(r, c)
    /\ Go(p, [step |-> "withdrawCounted", r |-> r, c |-> c,
              last |-> Pending(r) \subseteq {c}])
    /\ UNCHANGED rows

\* withdrawQuote, the commit; the request is reopened if none was counted.
WithdrawCommit(p, r, c) ==
    /\ At(p, "withdrawCounted", r) /\ call[p].c = c
    /\ quote' = [quote EXCEPT ![r][c] = "WITHDRAWN"]
    /\ request' = IF call[p].last THEN [request EXCEPT ![r] = "OPEN"] ELSE request
    /\ Done(p)
    /\ UNCHANGED <<due, booking, bookedBy, trips, shipper, profile>>

-----------------------------------------------------------------------------
(***************************************************************************)
(* Bookings: each handler reads and checks outside its transaction, which  *)
(* then writes booking and request by id.                                  *)
(***************************************************************************)
\* markInProgress, the read: the carrier starts an ACCEPTED booking.
StartRead(p, r) ==
    /\ Free(p) /\ booking[r] = "ACCEPTED" /\ profile[bookedBy[r]] = "ACTIVE"
    /\ Go(p, [step |-> "startRead", r |-> r])
    /\ UNCHANGED rows

StartWrite(p, r) ==
    /\ At(p, "startRead", r)
    /\ booking' = [booking EXCEPT ![r] = "IN_PROGRESS"]
    /\ request' = [request EXCEPT ![r] = "IN_PROGRESS"]
    /\ Done(p)
    /\ UNCHANGED <<due, quote, bookedBy, trips, shipper, profile>>

\* Mutant: the status check is gone.
CompleteReadAny(p, r) ==
    /\ Free(p) /\ booking[r] # "NONE" /\ shipper[r] = "ACTIVE"
    /\ Go(p, [step |-> "completeRead", r |-> r])
    /\ UNCHANGED rows

\* complete, the read: the shipper confirms a booking IN_PROGRESS.
CompleteRead(p, r) ==
    /\ Free(p) /\ booking[r] = "IN_PROGRESS" /\ shipper[r] = "ACTIVE"
    /\ Go(p, [step |-> "completeRead", r |-> r])
    /\ UNCHANGED rows

\* Mutant: no transaction, and a failure before the carrier is credited.
CompleteWriteTorn(p, r) ==
    /\ At(p, "completeRead", r)
    /\ booking' = [booking EXCEPT ![r] = "COMPLETED"]
    /\ request' = [request EXCEPT ![r] = "COMPLETED"]
    /\ Done(p)
    /\ UNCHANGED <<due, quote, bookedBy, trips, shipper, profile>>

CompleteWrite(p, r) ==
    /\ At(p, "completeRead", r) /\ trips[bookedBy[r]] < MaxTrips
    /\ booking' = [booking EXCEPT ![r] = "COMPLETED"]
    /\ request' = [request EXCEPT ![r] = "COMPLETED"]
    /\ trips' = [trips EXCEPT ![bookedBy[r]] = @ + 1]
    /\ Done(p)
    /\ UNCHANGED <<due, quote, bookedBy, shipper, profile>>

\* cancel of a booking, the read: either party, unless it is over.
BookingCancelRead(p, r) ==
    /\ Free(p) /\ booking[r] \in {"ACCEPTED", "IN_PROGRESS"}
    /\ shipper[r] = "ACTIVE" \/ profile[bookedBy[r]] = "ACTIVE"
    /\ Go(p, [step |-> "bookingCancelRead", r |-> r])
    /\ UNCHANGED rows

\* ... the write: the request is open for offers again.
BookingCancelWrite(p, r) ==
    /\ At(p, "bookingCancelRead", r)
    /\ booking' = [booking EXCEPT ![r] = "CANCELLED"]
    /\ request' = [request EXCEPT ![r] = "OPEN"]
    /\ Done(p)
    /\ UNCHANGED <<due, quote, bookedBy, trips, shipper, profile>>

-----------------------------------------------------------------------------
(***************************************************************************)
(* Outside actors.                                                         *)
(***************************************************************************)
\* Mutant: the status is not checked against the valid ones.
AdminSetStatusRaw(r, s) ==
    /\ "ADMIN" \in Outside /\ Present(r)
    /\ request' = [request EXCEPT ![r] = "PENDING"]
    /\ UNCHANGED <<due, quote, booking, bookedBy, trips, shipper, profile, call>>

\* An administrator sets any status on any request.
AdminSetStatus(r, s) ==
    /\ "ADMIN" \in Outside /\ Present(r)
    /\ request' = [request EXCEPT ![r] = s]
    /\ UNCHANGED <<due, quote, booking, bookedBy, trips, shipper, profile, call>>

\* Mutant: the booking goes with its request (onDelete: Cascade).
AdminDeleteCascade(r) ==
    /\ "ADMIN" \in Outside /\ Present(r)
    /\ request' = [request EXCEPT ![r] = "DELETED"]
    /\ quote' = [quote EXCEPT ![r] = [c \in Carriers |-> "NONE"]]
    /\ booking' = [booking EXCEPT ![r] = "NONE"]
    /\ bookedBy' = [bookedBy EXCEPT ![r] = Nobody]
    /\ UNCHANGED <<due, trips, shipper, profile, call>>

\* An administrator deletes a request; its quotes go with it, and the foreign
\* key of a booking forbids it.
AdminDelete(r) ==
    /\ "ADMIN" \in Outside /\ Present(r) /\ booking[r] = "NONE"
    /\ \A c \in Carriers : ~Locked(r, c)
    /\ request' = [request EXCEPT ![r] = "DELETED"]
    /\ quote' = [quote EXCEPT ![r] = [c \in Carriers |-> "NONE"]]
    /\ UNCHANGED <<due, booking, bookedBy, trips, shipper, profile, call>>

\* An administrator deletes a carrier profile; its quotes go with it, and the
\* foreign key of a booking on one of them forbids it.
AdminDeleteCarrier(c) ==
    /\ "ADMIN" \in Outside /\ profile[c] # "REMOVED"
    /\ \A r \in Requests : bookedBy[r] # c /\ ~Locked(r, c)
    /\ profile' = [profile EXCEPT ![c] = "REMOVED"]
    /\ quote' = [r \in Requests |-> [quote[r] EXCEPT ![c] = "NONE"]]
    /\ UNCHANGED <<request, due, booking, bookedBy, trips, shipper, call>>

\* The account-deletion job erases a carrier's account: pending quotes are
\* withdrawn, the requests they were on keep their status.
EraseCarrier(c) ==
    /\ "ERASURE" \in Outside /\ profile[c] = "ACTIVE"
    /\ \A r \in Requests : ~Locked(r, c)
    /\ profile' = [profile EXCEPT ![c] = "ERASED"]
    /\ quote' = [r \in Requests |-> [quote[r] EXCEPT ![c] =
            IF @ = "PENDING" THEN "WITHDRAWN" ELSE @]]
    /\ UNCHANGED <<request, due, booking, bookedBy, trips, shipper, call>>

\* ... and a shipper's: live requests are cancelled, the quotes on them are not
\* touched.
EraseShipper(r) ==
    /\ "ERASURE" \in Outside /\ shipper[r] = "ACTIVE"
    /\ shipper' = [shipper EXCEPT ![r] = "ERASED"]
    /\ request' = [request EXCEPT ![r] = IF @ \in Live THEN "CANCELLED" ELSE @]
    /\ UNCHANGED <<due, quote, booking, bookedBy, trips, profile, call>>

\* A handler ends without its remaining steps: an error, a row that is gone, a
\* process that dies.  Nothing of an open transaction remains.
Fail(p) ==
    /\ ~Free(p)
    /\ Done(p)
    /\ UNCHANGED rows

-----------------------------------------------------------------------------
RequestNext ==
    \/ \E r \in Requests : Create(r) \/ Lapse(r)
    \/ \E p \in Calls, r \in Requests :
        \/ CancelRead(p, r) \/ CancelFetch(p, r)
        \/ CancelWrite(p, r) \/ CancelReject(p, r)
        \/ RepostRead(p, r) \/ RepostWrite(p, r)
    \/ \E p \in Calls : ExpireRead(p) \/ ExpireWrite(p)

QuoteNext ==
    \/ \E p \in Calls, r \in Requests, c \in Carriers :
        \/ SubmitCheck(p, r, c) \/ SubmitInsert(p, r, c) \/ Accept(p, r, c)
        \/ WithdrawRead(p, r, c) \/ WithdrawCount(p, r, c)
        \/ WithdrawCommit(p, r, c)
    \/ \E p \in Calls, r \in Requests : SubmitMark(p, r)

BookingNext ==
    \E p \in Calls, r \in Requests :
        \/ StartRead(p, r) \/ StartWrite(p, r)
        \/ CompleteRead(p, r) \/ CompleteWrite(p, r)
        \/ BookingCancelRead(p, r) \/ BookingCancelWrite(p, r)

OutsideNext ==
    \/ \E r \in Requests, s \in Statuses : AdminSetStatus(r, s)
    \/ \E r \in Requests : AdminDelete(r) \/ EraseShipper(r)
    \/ \E c \in Carriers : AdminDeleteCarrier(c) \/ EraseCarrier(c)

Failure == \E p \in Calls : Fail(p)

\* Two handlers are in flight now, or one ran as a whole beside another.
Overlap ==
    \E p, q \in Calls :
        /\ p # q
        /\ \/ call'[p] # Idle /\ call'[q] # Idle
           \/ ~Free(q) /\ \E r \in Requests, c \in Carriers : Accept(p, r, c)

Next ==
    \/ /\ RequestNext \/ QuoteNext \/ BookingNext \/ Failure
       /\ raced' = (raced \/ Overlap)
    \/ /\ OutsideNext
       /\ raced' = TRUE

Spec == Init /\ [][Next]_vars

-----------------------------------------------------------------------------
(***************************************************************************)
(* What holds under every interleaving, failure and outside actor.         *)
(***************************************************************************)
\* Only the offer a booking was made from is ever ACCEPTED, so a request never
\* has two accepted offers: the unique keys of the booking keep this although
\* cancel, withdraw and administrators overwrite statuses by id.
AcceptedIsBooked ==
    \A r \in Requests, c \in Carriers :
        quote[r][c] = "ACCEPTED" => booking[r] # "NONE" /\ bookedBy[r] = c

\* A booking is never lost and never moves to another carrier, however its
\* request is cancelled, reopened, expired, reposted or deleted.
BookingPinned ==
    [][\A r \in Requests : booking[r] # "NONE" =>
            booking'[r] # "NONE" /\ bookedBy'[r] = bookedBy[r]]_vars

\* The offer a booking was made from still exists (its deletion would cascade
\* from the request or the carrier).
BookedOfferExists ==
    \A r \in Requests : booking[r] # "NONE" => quote[r][bookedBy[r]] # "NONE"

\* A handler that writes a booking has read one, and the booking and its
\* carrier are recorded together.  With the three above: inductive.
BookingWhole ==
    /\ \A r \in Requests : booking[r] # "NONE" => bookedBy[r] \in Carriers
    /\ \A p \in Calls, r \in Requests :
        (\E step \in {"startRead", "completeRead", "bookingCancelRead"} :
            At(p, step, r)) => booking[r] # "NONE"

BookingInv == AcceptedIsBooked /\ BookedOfferExists /\ BookingWhole

\* No handler, however late it writes what it decided, brings a request into a
\* booking's part of its life without the booking; only an administrator does.
EngagedByBooking ==
    [][\A r \in Requests : request'[r] \in Engaged /\ booking'[r] = "NONE" =>
            request'[r] = request[r] \/ \E s \in Statuses : AdminSetStatus(r, s)]_vars

\* A carrier is credited at least once for each of its completed bookings.
CompletedOf(c) ==
    {r \in Requests : bookedBy[r] = c /\ booking[r] = "COMPLETED"}
CompletedIsCredited ==
    \A c \in Carriers : Cardinality(CompletedOf(c)) <= trips[c]

(***************************************************************************)
(* What holds while one handler ran at a time, failures included.          *)
(***************************************************************************)
\* A booking and its request agree on where the work stands.
BookingAgrees ==
    ~raced => \A r \in Requests :
        booking[r] \in Engaged => request[r] = booking[r]

\* A carrier is credited exactly once per completed booking.
CreditIsExact ==
    ~raced => \A c \in Carriers : trips[c] = Cardinality(CompletedOf(c))

\* A request shown as QUOTED has an offer to look at.
QuotedHasOffer ==
    ~raced => \A r \in Requests : request[r] = "QUOTED" => Pending(r) # {}

\* At most one slot is busy, and what its handler has read still holds.
Alone == \A p, q \in Calls : ~Free(p) /\ ~Free(q) => p = q

Claim(s) ==
    /\ s.step \in {"cancelRead", "cancelFetched", "submitChecked", "submitInserted"} =>
            request[s.r] \in Live
    /\ s.step = "cancelWritten" => request[s.r] = "CANCELLED"
    /\ s.step = "repostRead" => request[s.r] = "EXPIRED"
    /\ s.step = "expireRead" => \A r \in s.batch : request[r] \in Live
    /\ s.step = "submitChecked" => (s.open <=> request[s.r] = "OPEN")
    /\ s.step \in {"submitInserted", "withdrawRead", "withdrawCounted"} =>
            quote[s.r][s.c] = "PENDING"
    /\ s.step = "withdrawCounted" => (s.last <=> Pending(s.r) \subseteq {s.c})
    /\ s.step = "startRead" => booking[s.r] = "ACCEPTED"
    /\ s.step = "completeRead" => booking[s.r] = "IN_PROGRESS"
    /\ s.step = "bookingCancelRead" => booking[s.r] \in {"ACCEPTED", "IN_PROGRESS"}

\* No offer is left pending beside a booking that stands.
BookedIsClosed == \A r \in Requests : booking[r] \in Engaged => Pending(r) = {}

\* With these, the claims about a booking and its request, and about QUOTED, are
\* inductive; that about credit follows.
AloneInv ==
    /\ BookingAgrees /\ QuotedHasOffer
    /\ ~raced => Alone /\ BookedIsClosed /\ \A p \in Calls : Claim(call[p])

(***************************************************************************)
(* What a comment or a test says and the code does not do.                 *)
(***************************************************************************)
\* After a booking is cancelled the request is "available for new quotes": an
\* offer on a live request is one that acceptQuote can book.
LiveOfferIsBookable ==
    \A r \in Requests :
        request[r] \in Live /\ Pending(r) # {} => booking[r] = "NONE"
=============================================================================
