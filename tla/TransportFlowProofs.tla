------------------------ MODULE TransportFlowProofs ------------------------
(***************************************************************************)
(* Proofs about TransportFlow, for any requests, carriers and number of    *)
(* handlers in flight.                                                     *)
(***************************************************************************)
EXTENDS TransportFlow, TLAPS, FiniteSetTheorems

\* The list a cancellation carries is a set of carriers.
LEMMA OffersType ==
    ASSUME TypeOK, NEW p \in Calls,
           call[p].step \in {"cancelFetched", "cancelWritten"}
    PROVE  call[p].offers \in SUBSET Carriers
<1>1. call[p] \in CallStates
    BY DEF TypeOK
<1> QED
    BY <1>1 DEF CallStates, Idle

\* A slot that moves to a legal position leaves all slots legal.
LEMMA GoType ==
    ASSUME TypeOK, NEW p \in Calls, NEW s \in CallStates, Go(p, s)
    PROVE  call' \in [Calls -> CallStates]
BY DEF TypeOK, Go

LEMMA DoneType ==
    ASSUME TypeOK, NEW p \in Calls, Done(p)
    PROVE  call' \in [Calls -> CallStates]
<1>1. Idle \in CallStates
    BY DEF CallStates
<1> QED
    BY <1>1, GoType DEF Done

\* Type correctness is preserved by the handlers of requests.
LEMMA RequestType ==
    ASSUME TypeOK, RequestNext, raced' \in BOOLEAN
    PROVE  TypeOK'
<1>1. ASSUME NEW r \in Requests, Create(r) \/ Lapse(r)
      PROVE  TypeOK'
    BY <1>1 DEF TypeOK, Create, Lapse, Statuses
<1>2. ASSUME NEW p \in Calls, NEW r \in Requests,
             CancelRead(p, r) \/ RepostRead(p, r)
      PROVE  TypeOK'
    <2>1. [step |-> "cancelRead", r |-> r] \in CallStates
        BY DEF CallStates
    <2>2. [step |-> "repostRead", r |-> r] \in CallStates
        BY DEF CallStates
    <2>3. call' \in [Calls -> CallStates]
        BY <1>2, <2>1, <2>2, GoType DEF CancelRead, RepostRead
    <2> QED
        BY <1>2, <2>3 DEF TypeOK, CancelRead, RepostRead, rows
<1>3. ASSUME NEW p \in Calls, NEW r \in Requests, CancelFetch(p, r)
      PROVE  TypeOK'
    <2>1. [step |-> "cancelFetched", r |-> r, offers |-> Pending(r)] \in CallStates
        BY DEF CallStates, Pending
    <2>2. call' \in [Calls -> CallStates]
        BY <1>3, <2>1, GoType DEF CancelFetch
    <2> QED
        BY <1>3, <2>2 DEF TypeOK, CancelFetch, rows
<1>4. ASSUME NEW p \in Calls, NEW r \in Requests, CancelWrite(p, r)
      PROVE  TypeOK'
    <2>1. call[p].offers \in SUBSET Carriers
        BY <1>4, OffersType DEF CancelWrite, At
    <2>2. [step |-> "cancelWritten", r |-> r, offers |-> call[p].offers] \in CallStates
        BY <2>1 DEF CallStates
    <2>3. call' \in [Calls -> CallStates]
        BY <1>4, <2>2, GoType, DoneType DEF CancelWrite
    <2> QED
        BY <1>4, <2>3 DEF TypeOK, CancelWrite, Statuses
<1>5. ASSUME NEW p \in Calls, NEW r \in Requests, CancelReject(p, r)
      PROVE  TypeOK'
    <2>1. call' \in [Calls -> CallStates]
        BY <1>5, DoneType DEF CancelReject
    <2> QED
        BY <1>5, <2>1 DEF TypeOK, CancelReject, QuoteStatuses
<1>6. ASSUME NEW p \in Calls, NEW r \in Requests, RepostWrite(p, r)
      PROVE  TypeOK'
    <2>1. call' \in [Calls -> CallStates]
        BY <1>6, DoneType DEF RepostWrite
    <2> QED
        BY <1>6, <2>1 DEF TypeOK, RepostWrite, Statuses
<1>7. ASSUME NEW p \in Calls, ExpireRead(p)
      PROVE  TypeOK'
    <2> DEFINE overdue == {r \in Requests : request[r] \in Live /\ due[r]}
    <2>1. [step |-> "expireRead", batch |-> overdue] \in CallStates
        BY DEF CallStates
    <2>2. call' \in [Calls -> CallStates]
        BY <1>7, <2>1, GoType DEF ExpireRead
    <2> QED
        BY <1>7, <2>2 DEF TypeOK, ExpireRead, rows
<1>8. ASSUME NEW p \in Calls, ExpireWrite(p)
      PROVE  TypeOK'
    <2>1. call' \in [Calls -> CallStates]
        BY <1>8, DoneType DEF ExpireWrite
    <2> QED
        BY <1>8, <2>1 DEF TypeOK, ExpireWrite, Statuses
<1> QED
    BY <1>1, <1>2, <1>3, <1>4, <1>5, <1>6, <1>7, <1>8 DEF RequestNext

\* Type correctness is preserved by the handlers of quotes.
LEMMA QuoteType ==
    ASSUME TypeOK, QuoteNext, raced' \in BOOLEAN
    PROVE  TypeOK'
<1>1. ASSUME NEW p \in Calls, NEW r \in Requests, NEW c \in Carriers,
             SubmitCheck(p, r, c) \/ WithdrawRead(p, r, c) \/ WithdrawCount(p, r, c)
      PROVE  TypeOK'
    <2>1. [step |-> "submitChecked", r |-> r, c |-> c,
           open |-> request[r] = "OPEN"] \in CallStates
        BY DEF CallStates
    <2>2. [step |-> "withdrawRead", r |-> r, c |-> c] \in CallStates
        BY DEF CallStates
    <2>3. [step |-> "withdrawCounted", r |-> r, c |-> c,
           last |-> Pending(r) \subseteq {c}] \in CallStates
        BY DEF CallStates
    <2>4. call' \in [Calls -> CallStates]
        BY <1>1, <2>1, <2>2, <2>3, GoType
        DEF SubmitCheck, WithdrawRead, WithdrawCount
    <2> QED
        BY <1>1, <2>4 DEF TypeOK, SubmitCheck, WithdrawRead, WithdrawCount, rows
<1>2. ASSUME NEW p \in Calls, NEW r \in Requests, NEW c \in Carriers,
             SubmitInsert(p, r, c)
      PROVE  TypeOK'
    <2>1. [step |-> "submitInserted", r |-> r, c |-> c] \in CallStates
        BY DEF CallStates
    <2>2. call' \in [Calls -> CallStates]
        BY <1>2, <2>1, GoType, DoneType DEF SubmitInsert
    <2> QED
        BY <1>2, <2>2 DEF TypeOK, SubmitInsert, QuoteStatuses
<1>3. ASSUME NEW p \in Calls, NEW r \in Requests, NEW c \in Carriers,
             Accept(p, r, c)
      PROVE  TypeOK'
    BY <1>3 DEF TypeOK, Accept, Statuses, QuoteStatuses, BookingStatuses
<1>4. ASSUME NEW p \in Calls, NEW r \in Requests, NEW c \in Carriers,
             WithdrawCommit(p, r, c)
      PROVE  TypeOK'
    <2>1. call' \in [Calls -> CallStates]
        BY <1>4, DoneType DEF WithdrawCommit
    <2> QED
        BY <1>4, <2>1 DEF TypeOK, WithdrawCommit, Statuses, QuoteStatuses
<1>5. ASSUME NEW p \in Calls, NEW r \in Requests, SubmitMark(p, r)
      PROVE  TypeOK'
    <2>1. call' \in [Calls -> CallStates]
        BY <1>5, DoneType DEF SubmitMark
    <2> QED
        BY <1>5, <2>1 DEF TypeOK, SubmitMark, Statuses
<1> QED
    BY <1>1, <1>2, <1>3, <1>4, <1>5 DEF QuoteNext

\* Type correctness is preserved by the handlers of bookings.
LEMMA BookingType ==
    ASSUME TypeOK, BookingNext, raced' \in BOOLEAN
    PROVE  TypeOK'
<1>1. ASSUME NEW p \in Calls, NEW r \in Requests,
             StartRead(p, r) \/ CompleteRead(p, r) \/ BookingCancelRead(p, r)
      PROVE  TypeOK'
    <2>1. \A step \in {"startRead", "completeRead", "bookingCancelRead"} :
            [step |-> step, r |-> r] \in CallStates
        BY DEF CallStates
    <2>2. call' \in [Calls -> CallStates]
        BY <1>1, <2>1, GoType DEF StartRead, CompleteRead, BookingCancelRead
    <2> QED
        BY <1>1, <2>2 DEF TypeOK, StartRead, CompleteRead, BookingCancelRead, rows
<1>2. ASSUME NEW p \in Calls, NEW r \in Requests,
             StartWrite(p, r) \/ BookingCancelWrite(p, r)
      PROVE  TypeOK'
    <2>1. call' \in [Calls -> CallStates]
        BY <1>2, DoneType DEF StartWrite, BookingCancelWrite
    <2> QED
        BY <1>2, <2>1
        DEF TypeOK, StartWrite, BookingCancelWrite, Statuses, BookingStatuses
<1>3. ASSUME NEW p \in Calls, NEW r \in Requests, CompleteWrite(p, r)
      PROVE  TypeOK'
    <2>1. call' \in [Calls -> CallStates]
        BY <1>3, DoneType DEF CompleteWrite
    <2>2. trips' \in [Carriers -> 0..MaxTrips]
        <3>1. trips \in [Carriers -> 0..MaxTrips]
            BY DEF TypeOK
        <3>2. trips' = [trips EXCEPT ![bookedBy[r]] = @ + 1]
              /\ trips[bookedBy[r]] < MaxTrips
            BY <1>3 DEF CompleteWrite
        <3>3. CASE bookedBy[r] \in Carriers
            <4>1. trips[bookedBy[r]] + 1 \in 0..MaxTrips
                BY <3>1, <3>2, <3>3, MaxTripsAssumption
            <4> QED
                BY <3>1, <3>2, <4>1
        <3>4. CASE bookedBy[r] \notin Carriers
            BY <3>1, <3>2, <3>4
        <3> QED
            BY <3>3, <3>4
    <2> QED
        BY <1>3, <2>1, <2>2 DEF TypeOK, CompleteWrite, Statuses, BookingStatuses
<1> QED
    BY <1>1, <1>2, <1>3 DEF BookingNext

\* Type correctness is preserved by the outside actors.
LEMMA OutsideType ==
    ASSUME TypeOK, OutsideNext \/ Failure, raced' \in BOOLEAN
    PROVE  TypeOK'
<1>1. ASSUME NEW r \in Requests, NEW s \in Statuses, AdminSetStatus(r, s)
      PROVE  TypeOK'
    BY <1>1 DEF TypeOK, AdminSetStatus
<1>2. ASSUME NEW r \in Requests, AdminDelete(r) \/ EraseShipper(r)
      PROVE  TypeOK'
    <2>1. CASE AdminDelete(r)
        BY <2>1 DEF TypeOK, AdminDelete, QuoteStatuses
    <2>2. CASE EraseShipper(r)
        <3>1. request' \in [Requests -> Statuses \cup {"NONE", "DELETED"}]
            BY <2>2 DEF TypeOK, EraseShipper, Statuses
        <3> QED
            BY <2>2, <3>1 DEF TypeOK, EraseShipper
    <2> QED
        BY <1>2, <2>1, <2>2
<1>3. ASSUME NEW c \in Carriers, AdminDeleteCarrier(c) \/ EraseCarrier(c)
      PROVE  TypeOK'
    <2>1. CASE AdminDeleteCarrier(c)
        <3>1. quote' \in [Requests -> [Carriers -> QuoteStatuses]]
            BY <2>1 DEF TypeOK, AdminDeleteCarrier, QuoteStatuses
        <3> QED
            BY <2>1, <3>1 DEF TypeOK, AdminDeleteCarrier
    <2>2. CASE EraseCarrier(c)
        <3>1. quote' \in [Requests -> [Carriers -> QuoteStatuses]]
            BY <2>2 DEF TypeOK, EraseCarrier, QuoteStatuses
        <3> QED
            BY <2>2, <3>1 DEF TypeOK, EraseCarrier
    <2> QED
        BY <1>3, <2>1, <2>2
<1>4. ASSUME NEW p \in Calls, Fail(p)
      PROVE  TypeOK'
    <2>1. call' \in [Calls -> CallStates]
        BY <1>4, DoneType DEF Fail
    <2> QED
        BY <1>4, <2>1 DEF TypeOK, Fail, rows
<1> QED
    BY <1>1, <1>2, <1>3, <1>4 DEF OutsideNext, Failure

\* Every row and every handler in flight stays in its type.
THEOREM TypeCorrect == Spec => []TypeOK
<1>1. Init => TypeOK
    <2> SUFFICES ASSUME Init
                 PROVE  TypeOK
        OBVIOUS
    <2>1. raced \in BOOLEAN
        BY DEF Init
    <2> QED
        BY <2>1, MaxTripsAssumption
        DEF Init, TypeOK, Statuses, QuoteStatuses, BookingStatuses, CallStates
<1>2. TypeOK /\ [Next]_vars => TypeOK'
    <2> SUFFICES ASSUME TypeOK, [Next]_vars
                 PROVE  TypeOK'
        OBVIOUS
    <2>1. CASE Next
        <3>1. raced' \in BOOLEAN
            <4>1. CASE raced' = (raced \/ Overlap)
                BY <4>1
            <4>2. CASE raced' = TRUE
                BY <4>2
            <4> QED
                BY <2>1, <4>1, <4>2 DEF Next
        <3>2. RequestNext \/ QuoteNext \/ BookingNext \/ Failure \/ OutsideNext
            BY <2>1 DEF Next
        <3> QED
            BY <3>1, <3>2, RequestType, QuoteType, BookingType, OutsideType
    <2>2. CASE UNCHANGED vars
        BY <2>2 DEF vars, TypeOK
    <2> QED
        BY <2>1, <2>2
<1> QED
    BY <1>1, <1>2, PTL DEF Spec

-----------------------------------------------------------------------------
(***************************************************************************)
(* The booking and the offer it was made from.  The invariant follows the  *)
(* three row groups it relates: a step that leaves booking and bookedBy    *)
(* alone can only break it through the offers or a slot that               *)
(* enters a booking handler.                                               *)
(***************************************************************************)
\* What a step may do to the offers and slots without touching a booking.
Harmless ==
    /\ UNCHANGED <<booking, bookedBy>>
    /\ \A r \in Requests, c \in Carriers :
        /\ quote'[r][c] = "ACCEPTED" => quote[r][c] = "ACCEPTED"
        /\ bookedBy[r] = c /\ quote[r][c] # "NONE" => quote'[r][c] # "NONE"
    /\ \A p \in Calls, r \in Requests :
        \A step \in {"startRead", "completeRead", "bookingCancelRead"} :
            At(p, step, r)' => At(p, step, r) \/ booking[r] # "NONE"

LEMMA HarmlessKeeps ==
    ASSUME BookingInv, Harmless
    PROVE  BookingInv'
<1>1. AcceptedIsBooked'
    BY DEF BookingInv, AcceptedIsBooked, Harmless
<1>2. BookedOfferExists'
    BY DEF BookingInv, BookedOfferExists, BookingWhole, Harmless
<1>3. BookingWhole'
    BY DEF BookingInv, BookingWhole, Harmless
<1> QED
    BY <1>1, <1>2, <1>3 DEF BookingInv

\* The slots a step leaves alone stay where they are, and the one that moves
\* to a position outside the booking handlers is of no concern.
LEMMA SlotMoves ==
    ASSUME TypeOK, NEW q \in Calls, NEW s, Go(q, s),
           s.step \notin {"startRead", "completeRead", "bookingCancelRead"}
    PROVE  \A p \in Calls, r \in Requests :
            \A step \in {"startRead", "completeRead", "bookingCancelRead"} :
                At(p, step, r)' => At(p, step, r)
BY DEF TypeOK, Go, At

LEMMA SlotEnds ==
    ASSUME TypeOK, NEW q \in Calls, Done(q)
    PROVE  \A p \in Calls, r \in Requests :
            \A step \in {"startRead", "completeRead", "bookingCancelRead"} :
                At(p, step, r)' => At(p, step, r)
BY SlotMoves DEF Done, Idle

\* No handler of a request touches a booking.
LEMMA RequestKeeps ==
    ASSUME TypeOK, BookingInv, RequestNext
    PROVE  BookingInv'
<1>1. ASSUME NEW r \in Requests, Create(r) \/ Lapse(r)
      PROVE  Harmless
    BY <1>1 DEF Harmless, Create, Lapse, At
<1>2. ASSUME NEW p \in Calls, NEW r \in Requests,
             CancelRead(p, r) \/ CancelFetch(p, r) \/ RepostRead(p, r)
      PROVE  Harmless
    BY <1>2, SlotMoves DEF Harmless, CancelRead, CancelFetch, RepostRead, rows
<1>3. ASSUME NEW p \in Calls, NEW r \in Requests, CancelWrite(p, r)
      PROVE  Harmless
    BY <1>3, SlotMoves, SlotEnds DEF Harmless, CancelWrite
<1>4. ASSUME NEW p \in Calls, NEW r \in Requests, CancelReject(p, r)
      PROVE  Harmless
    BY <1>4, SlotEnds DEF Harmless, CancelReject, TypeOK
<1>5. ASSUME NEW p \in Calls, NEW r \in Requests, RepostWrite(p, r)
      PROVE  Harmless
    BY <1>5, SlotEnds DEF Harmless, RepostWrite
<1>6. ASSUME NEW p \in Calls, ExpireRead(p) \/ ExpireWrite(p)
      PROVE  Harmless
    BY <1>6, SlotMoves, SlotEnds DEF Harmless, ExpireRead, ExpireWrite, rows
<1> QED
    BY <1>1, <1>2, <1>3, <1>4, <1>5, <1>6, HarmlessKeeps DEF RequestNext

\* acceptQuote makes a booking where there was none: by the invariant no offer
\* on the request was accepted before.
LEMMA AcceptKeeps ==
    ASSUME TypeOK, BookingInv,
           NEW p \in Calls, NEW r \in Requests, NEW c \in Carriers, Accept(p, r, c)
    PROVE  BookingInv'
<1>1. /\ booking' = [booking EXCEPT ![r] = "ACCEPTED"]
      /\ bookedBy' = [bookedBy EXCEPT ![r] = c]
      /\ \A q \in Requests, d \in Carriers : q # r => quote'[q][d] = quote[q][d]
      /\ quote'[r][c] = "ACCEPTED"
      /\ \A d \in Carriers :
            d # c /\ quote'[r][d] = "ACCEPTED" => quote[r][d] = "ACCEPTED"
    BY DEF Accept, TypeOK
<1>2. AcceptedIsBooked'
    BY <1>1 DEF BookingInv, AcceptedIsBooked, TypeOK, Accept
<1>3. BookedOfferExists'
    BY <1>1 DEF BookingInv, BookedOfferExists, BookingWhole, TypeOK, Accept
<1>4. BookingWhole'
    BY <1>1 DEF BookingInv, BookingWhole, TypeOK, Accept, At
<1> QED
    BY <1>2, <1>3, <1>4 DEF BookingInv

\* No other handler of a quote touches a booking.
LEMMA QuoteKeeps ==
    ASSUME TypeOK, BookingInv, QuoteNext
    PROVE  BookingInv'
<1>1. ASSUME NEW p \in Calls, NEW r \in Requests, NEW c \in Carriers,
             SubmitCheck(p, r, c) \/ WithdrawRead(p, r, c) \/ WithdrawCount(p, r, c)
      PROVE  Harmless
    BY <1>1, SlotMoves
    DEF Harmless, SubmitCheck, WithdrawRead, WithdrawCount, rows
<1>2. ASSUME NEW p \in Calls, NEW r \in Requests, NEW c \in Carriers,
             SubmitInsert(p, r, c)
      PROVE  Harmless
    <2>1. \A q \in Calls, s \in Requests :
            \A step \in {"startRead", "completeRead", "bookingCancelRead"} :
                At(q, step, s)' => At(q, step, s)
        BY <1>2, SlotMoves, SlotEnds DEF SubmitInsert
    <2> QED
        BY <1>2, <2>1 DEF Harmless, SubmitInsert, TypeOK
<1>3. ASSUME NEW p \in Calls, NEW r \in Requests, NEW c \in Carriers,
             WithdrawCommit(p, r, c)
      PROVE  Harmless
    BY <1>3, SlotEnds DEF Harmless, WithdrawCommit, TypeOK
<1>4. ASSUME NEW p \in Calls, NEW r \in Requests, SubmitMark(p, r)
      PROVE  Harmless
    BY <1>4, SlotEnds DEF Harmless, SubmitMark
<1> QED
    BY <1>1, <1>2, <1>3, <1>4, HarmlessKeeps, AcceptKeeps DEF QuoteNext

\* A booking handler changes the status of a booking that exists.
LEMMA BookingKeeps ==
    ASSUME TypeOK, BookingInv, BookingNext
    PROVE  BookingInv'
<1>1. ASSUME NEW p \in Calls, NEW r \in Requests,
             StartRead(p, r) \/ CompleteRead(p, r) \/ BookingCancelRead(p, r)
      PROVE  Harmless
    <2>1. \A q \in Calls, s \in Requests :
            \A step \in {"startRead", "completeRead", "bookingCancelRead"} :
                At(q, step, s)' => At(q, step, s) \/ booking[s] # "NONE"
        BY <1>1 DEF StartRead, CompleteRead, BookingCancelRead, At, Go, TypeOK
    <2> QED
        BY <1>1, <2>1 DEF Harmless, StartRead, CompleteRead, BookingCancelRead, rows
<1>2. ASSUME NEW p \in Calls, NEW r \in Requests,
             StartWrite(p, r) \/ CompleteWrite(p, r) \/ BookingCancelWrite(p, r)
      PROVE  BookingInv'
    <2>1. booking[r] # "NONE"
        BY <1>2 DEF BookingInv, BookingWhole, StartWrite, CompleteWrite,
                    BookingCancelWrite
    <2>2. /\ \A q \in Requests : booking'[q] # "NONE" <=> booking[q] # "NONE"
          /\ UNCHANGED <<quote, bookedBy>> /\ Done(p)
        BY <1>2, <2>1 DEF TypeOK, StartWrite, CompleteWrite, BookingCancelWrite
    <2>3. \A q \in Calls, s \in Requests :
            \A step \in {"startRead", "completeRead", "bookingCancelRead"} :
                At(q, step, s)' => At(q, step, s)
        BY <2>2, SlotEnds
    <2> QED
        BY <2>2, <2>3
        DEF BookingInv, AcceptedIsBooked, BookedOfferExists, BookingWhole
<1> QED
    BY <1>1, <1>2, HarmlessKeeps DEF BookingNext

\* Outside actors delete only what no booking refers to.
LEMMA OutsideKeeps ==
    ASSUME TypeOK, BookingInv, OutsideNext \/ Failure
    PROVE  BookingInv'
<1>1. ASSUME NEW r \in Requests, NEW s \in Statuses, AdminSetStatus(r, s)
      PROVE  Harmless
    BY <1>1 DEF Harmless, AdminSetStatus, At
<1>2. ASSUME NEW r \in Requests, EraseShipper(r)
      PROVE  Harmless
    BY <1>2 DEF Harmless, EraseShipper, At
<1>3. ASSUME NEW r \in Requests, AdminDelete(r)
      PROVE  BookingInv'
    BY <1>3 DEF AdminDelete, TypeOK, At, BookingInv, AcceptedIsBooked,
                BookedOfferExists, BookingWhole
<1>4. ASSUME NEW c \in Carriers, AdminDeleteCarrier(c) \/ EraseCarrier(c)
      PROVE  Harmless
    BY <1>4 DEF Harmless, AdminDeleteCarrier, EraseCarrier, TypeOK, At
<1>5. ASSUME NEW p \in Calls, Fail(p)
      PROVE  Harmless
    BY <1>5, SlotEnds DEF Harmless, Fail, rows
<1> QED
    BY <1>1, <1>2, <1>3, <1>4, <1>5, HarmlessKeeps DEF OutsideNext, Failure

\* The invariant holds of every interleaving.
THEOREM BookingInvariant == Spec => []BookingInv
<1>1. Init => BookingInv
    BY DEF Init, BookingInv, AcceptedIsBooked, BookedOfferExists, BookingWhole,
           At, Idle
<1>2. TypeOK /\ BookingInv /\ [Next]_vars => BookingInv'
    <2> SUFFICES ASSUME TypeOK, BookingInv, [Next]_vars
                 PROVE  BookingInv'
        OBVIOUS
    <2>1. CASE Next
        BY <2>1, RequestKeeps, QuoteKeeps, BookingKeeps, OutsideKeeps DEF Next
    <2>2. CASE UNCHANGED vars
        BY <2>2 DEF vars, BookingInv, AcceptedIsBooked, BookedOfferExists,
                    BookingWhole, At
    <2> QED
        BY <2>1, <2>2
<1> QED
    BY <1>1, <1>2, TypeCorrect, PTL DEF Spec

\* Only the offer the booking was made from is ever accepted: a request never
\* has two accepted offers, whoever races whom.
THEOREM AcceptedOfferIsBooked == Spec => []AcceptedIsBooked
<1>1. BookingInv => AcceptedIsBooked
    BY DEF BookingInv
<1> QED
    BY <1>1, BookingInvariant, PTL

\* The offer behind a booking is never deleted under it.
THEOREM BookedOfferStays == Spec => []BookedOfferExists
<1>1. BookingInv => BookedOfferExists
    BY DEF BookingInv
<1> QED
    BY <1>1, BookingInvariant, PTL

-----------------------------------------------------------------------------
(***************************************************************************)
(* What a step may do to a booking, and to a request that has none.        *)
(***************************************************************************)
Pinned == \A r \in Requests : booking[r] # "NONE" =>
            booking'[r] # "NONE" /\ bookedBy'[r] = bookedBy[r]

LEMMA StepPins ==
    ASSUME TypeOK, Next
    PROVE  Pinned
<1>1. ASSUME NEW p \in Calls, NEW r \in Requests, NEW c \in Carriers, Accept(p, r, c)
      PROVE  Pinned
    BY <1>1 DEF Pinned, Accept, TypeOK
<1>2. ASSUME BookingNext
      PROVE  Pinned
    <2>1. ASSUME NEW p \in Calls, NEW r \in Requests,
                 StartRead(p, r) \/ CompleteRead(p, r) \/ BookingCancelRead(p, r)
          PROVE  Pinned
        BY <2>1 DEF Pinned, StartRead, CompleteRead, BookingCancelRead, rows
    <2>2. ASSUME NEW p \in Calls, NEW r \in Requests,
                 StartWrite(p, r) \/ CompleteWrite(p, r) \/ BookingCancelWrite(p, r)
          PROVE  Pinned
        BY <2>2 DEF Pinned, TypeOK, StartWrite, CompleteWrite, BookingCancelWrite
    <2> QED
        BY <1>2, <2>1, <2>2 DEF BookingNext
<1>3. CASE RequestNext
    BY <1>3 DEF Pinned, RequestNext, Create, Lapse, CancelRead, CancelFetch,
                CancelWrite, CancelReject, RepostRead, RepostWrite, ExpireRead,
                ExpireWrite, rows
<1>4. CASE QuoteNext
    <2>1. ASSUME NEW p \in Calls, NEW r \in Requests, NEW c \in Carriers,
                 \/ SubmitCheck(p, r, c) \/ SubmitInsert(p, r, c)
                 \/ WithdrawRead(p, r, c) \/ WithdrawCount(p, r, c)
                 \/ WithdrawCommit(p, r, c)
          PROVE  UNCHANGED <<booking, bookedBy>>
        BY <2>1 DEF SubmitCheck, SubmitInsert, WithdrawRead, WithdrawCount,
                    WithdrawCommit, rows
    <2>2. ASSUME UNCHANGED <<booking, bookedBy>>
          PROVE  Pinned
        BY <2>2 DEF Pinned
    <2>3. ASSUME NEW p \in Calls, NEW r \in Requests, SubmitMark(p, r)
          PROVE  UNCHANGED <<booking, bookedBy>>
        BY <2>3 DEF SubmitMark
    <2> QED
        BY <1>1, <1>4, <2>1, <2>2, <2>3 DEF QuoteNext
<1>5. CASE OutsideNext \/ Failure
    BY <1>5 DEF Pinned, OutsideNext, AdminSetStatus, AdminDelete, EraseShipper,
                AdminDeleteCarrier, EraseCarrier, Failure, Fail, rows
<1>6. RequestNext \/ QuoteNext \/ BookingNext \/ Failure \/ OutsideNext
    BY DEF Next
<1> QED
    BY <1>2, <1>3, <1>4, <1>5, <1>6

\* A booking is never lost and never changes hands.
THEOREM BookingStays == Spec => BookingPinned
<1>1. TypeOK /\ [Next]_vars => [Pinned]_vars
    BY StepPins
<1> QED
    BY <1>1, TypeCorrect, PTL DEF Spec, BookingPinned, Pinned

\* A handler that engages a request writes or has read its booking.
ByBooking == \A r \in Requests : request'[r] \in Engaged /\ booking'[r] = "NONE" =>
            request'[r] = request[r] \/ \E s \in Statuses : AdminSetStatus(r, s)

LEMMA StepEngages ==
    ASSUME TypeOK, BookingInv, Next
    PROVE  ByBooking
<1>1. CASE RequestNext
    BY <1>1 DEF RequestNext, ByBooking, Engaged, Live, TypeOK, Create, Lapse,
        CancelRead, CancelFetch, CancelWrite, CancelReject, RepostRead,
        RepostWrite, ExpireRead, ExpireWrite, rows
<1>2. CASE QuoteNext
    <2>1. ASSUME NEW p \in Calls, NEW r \in Requests, NEW c \in Carriers,
                 \/ SubmitCheck(p, r, c) \/ SubmitInsert(p, r, c)
                 \/ WithdrawRead(p, r, c) \/ WithdrawCount(p, r, c)
          PROVE  ByBooking
        BY <2>1 DEF ByBooking, SubmitCheck, SubmitInsert, WithdrawRead,
                    WithdrawCount, rows
    <2>2. ASSUME NEW p \in Calls, NEW r \in Requests, SubmitMark(p, r)
          PROVE  ByBooking
        BY <2>2 DEF ByBooking, Engaged, TypeOK, SubmitMark
    <2>3. ASSUME NEW p \in Calls, NEW r \in Requests, NEW c \in Carriers,
                 WithdrawCommit(p, r, c)
          PROVE  ByBooking
        BY <2>3 DEF ByBooking, Engaged, TypeOK, WithdrawCommit
    <2>4. ASSUME NEW p \in Calls, NEW r \in Requests, NEW c \in Carriers,
                 Accept(p, r, c)
          PROVE  ByBooking
        BY <2>4 DEF ByBooking, TypeOK, Accept
    <2> QED
        BY <1>2, <2>1, <2>2, <2>3, <2>4 DEF QuoteNext
<1>3. CASE BookingNext
    <2>1. ASSUME NEW p \in Calls, NEW r \in Requests,
                 StartRead(p, r) \/ CompleteRead(p, r) \/ BookingCancelRead(p, r)
          PROVE  ByBooking
        BY <2>1 DEF ByBooking, StartRead, CompleteRead, BookingCancelRead, rows
    <2>2. ASSUME NEW p \in Calls, NEW r \in Requests,
                 StartWrite(p, r) \/ CompleteWrite(p, r) \/ BookingCancelWrite(p, r)
          PROVE  ByBooking
        BY <2>2 DEF ByBooking, TypeOK, StartWrite, CompleteWrite, BookingCancelWrite
    <2> QED
        BY <1>3, <2>1, <2>2 DEF BookingNext
<1>4. CASE OutsideNext \/ Failure
    <2>1. ASSUME NEW r \in Requests, NEW s \in Statuses, AdminSetStatus(r, s)
          PROVE  ByBooking
        <3>1. \A q \in Requests \ {r} : request'[q] = request[q]
            BY <2>1 DEF AdminSetStatus, TypeOK
        <3> QED
            BY <2>1, <3>1 DEF ByBooking
    <2>2. ASSUME NEW r \in Requests, AdminDelete(r) \/ EraseShipper(r)
          PROVE  ByBooking
        BY <2>2 DEF ByBooking, Engaged, TypeOK, AdminDelete, EraseShipper
    <2>3. ASSUME NEW c \in Carriers, AdminDeleteCarrier(c) \/ EraseCarrier(c)
          PROVE  ByBooking
        BY <2>3 DEF ByBooking, AdminDeleteCarrier, EraseCarrier
    <2>4. ASSUME NEW p \in Calls, Fail(p)
          PROVE  ByBooking
        BY <2>4 DEF ByBooking, Fail, rows
    <2> QED
        BY <1>4, <2>1, <2>2, <2>3, <2>4 DEF OutsideNext, Failure
<1> QED
    BY <1>1, <1>2, <1>3, <1>4 DEF Next

\* No handler engages a request that has no booking.
THEOREM EngagedHasBooking == Spec => EngagedByBooking
<1>1. TypeOK /\ BookingInv /\ [Next]_vars => [ByBooking]_vars
    BY StepEngages
<1> QED
    BY <1>1, TypeCorrect, BookingInvariant, PTL DEF Spec, EngagedByBooking, ByBooking

-----------------------------------------------------------------------------
(***************************************************************************)
(* Credit.  The completed bookings of a carrier grow by at most one in a   *)
(* step, and then the carrier's counter does too.                          *)
(***************************************************************************)
Credited ==
    \A c \in Carriers :
        IsFiniteSet(CompletedOf(c)) /\ Cardinality(CompletedOf(c)) <= trips[c]

\* A step that completes no booking and takes no credit away keeps it.
LEMMA FewerCompleted ==
    ASSUME Credited, trips' = trips,
           \A c \in Carriers : CompletedOf(c)' \subseteq CompletedOf(c),
           TypeOK
    PROVE  Credited'
<1> SUFFICES ASSUME NEW c \in Carriers
             PROVE  /\ IsFiniteSet(CompletedOf(c)')
                    /\ Cardinality(CompletedOf(c)') <= trips[c]
    BY DEF Credited
<1>1. /\ IsFiniteSet(CompletedOf(c)')
      /\ Cardinality(CompletedOf(c)') <= Cardinality(CompletedOf(c))
    BY FS_Subset DEF Credited
<1>2. /\ Cardinality(CompletedOf(c)) \in Nat /\ Cardinality(CompletedOf(c)') \in Nat
      /\ trips[c] \in Nat
    BY <1>1, FS_CardinalityType, MaxTripsAssumption DEF Credited, TypeOK
<1> QED
    BY <1>1, <1>2 DEF Credited

LEMMA CompletionCredits ==
    ASSUME TypeOK, BookingInv, Credited, NEW p \in Calls, NEW r \in Requests,
           CompleteWrite(p, r)
    PROVE  Credited'
<1>1. bookedBy[r] \in Carriers
    BY DEF BookingInv, BookingWhole, CompleteWrite
<1> SUFFICES ASSUME NEW c \in Carriers
             PROVE  /\ IsFiniteSet(CompletedOf(c)')
                    /\ Cardinality(CompletedOf(c)') <= trips'[c]
    BY DEF Credited
<1>2. /\ IsFiniteSet(CompletedOf(c)) /\ Cardinality(CompletedOf(c)) \in Nat
      /\ Cardinality(CompletedOf(c)) <= trips[c] /\ trips[c] \in Nat
    BY FS_CardinalityType, MaxTripsAssumption DEF Credited, TypeOK
<1>3. CASE c = bookedBy[r]
    <2>1. CompletedOf(c)' = CompletedOf(c) \cup {r}
        BY <1>3 DEF CompletedOf, CompleteWrite, TypeOK
    <2>2. trips'[c] = trips[c] + 1
        BY <1>3 DEF CompleteWrite, TypeOK
    <2>3. /\ IsFiniteSet(CompletedOf(c) \cup {r})
          /\ \/ Cardinality(CompletedOf(c) \cup {r}) = Cardinality(CompletedOf(c))
             \/ Cardinality(CompletedOf(c) \cup {r}) = Cardinality(CompletedOf(c)) + 1
        BY <1>2, FS_AddElement
    <2> QED
        BY <1>2, <2>1, <2>2, <2>3
<1>4. CASE c # bookedBy[r]
    <2>1. CompletedOf(c)' = CompletedOf(c)
        BY <1>4 DEF CompletedOf, CompleteWrite, TypeOK
    <2>2. trips'[c] = trips[c]
        BY <1>4 DEF CompleteWrite, TypeOK
    <2> QED
        BY <1>2, <2>1, <2>2
<1> QED
    BY <1>3, <1>4

LEMMA StepCredits ==
    ASSUME TypeOK, BookingInv, Credited, Next
    PROVE  Credited'
<1>1. ASSUME UNCHANGED <<booking, bookedBy, trips>>
      PROVE  Credited'
    BY <1>1 DEF Credited, CompletedOf
<1>2. CASE RequestNext
    <2>1. UNCHANGED <<booking, bookedBy, trips>>
        BY <1>2 DEF RequestNext, Create, Lapse, CancelRead, CancelFetch, CancelWrite,
            CancelReject, RepostRead, RepostWrite, ExpireRead, ExpireWrite, rows
    <2> QED
        BY <1>1, <2>1
<1>3. CASE QuoteNext
    <2>1. ASSUME NEW p \in Calls, NEW r \in Requests, NEW c \in Carriers,
                 \/ SubmitCheck(p, r, c) \/ SubmitInsert(p, r, c)
                 \/ WithdrawRead(p, r, c) \/ WithdrawCount(p, r, c)
                 \/ WithdrawCommit(p, r, c) \/ SubmitMark(p, r)
          PROVE  UNCHANGED <<booking, bookedBy, trips>>
        BY <2>1 DEF SubmitCheck, SubmitInsert, WithdrawRead, WithdrawCount,
                    WithdrawCommit, SubmitMark, rows
    <2>2. ASSUME NEW p \in Calls, NEW r \in Requests, NEW c \in Carriers, Accept(p, r, c)
          PROVE  Credited'
        <3>1. \A d \in Carriers : CompletedOf(d)' \subseteq CompletedOf(d)
            BY <2>2 DEF CompletedOf, Accept, TypeOK
        <3> QED
            BY <2>2, <3>1, FewerCompleted DEF Accept
    <2>3. ASSUME NEW p \in Calls, NEW r \in Requests, SubmitMark(p, r)
          PROVE  UNCHANGED <<booking, bookedBy, trips>>
        BY <2>3 DEF SubmitMark
    <2> QED
        BY <1>1, <1>3, <2>1, <2>2, <2>3 DEF QuoteNext
<1>4. CASE BookingNext
    <2>1. ASSUME NEW p \in Calls, NEW r \in Requests,
                 StartRead(p, r) \/ CompleteRead(p, r) \/ BookingCancelRead(p, r)
          PROVE  UNCHANGED <<booking, bookedBy, trips>>
        BY <2>1 DEF StartRead, CompleteRead, BookingCancelRead, rows
    <2>2. ASSUME NEW p \in Calls, NEW r \in Requests,
                 StartWrite(p, r) \/ BookingCancelWrite(p, r)
          PROVE  Credited'
        <3>1. \A d \in Carriers : CompletedOf(d)' \subseteq CompletedOf(d)
            BY <2>2 DEF CompletedOf, StartWrite, BookingCancelWrite, TypeOK
        <3> QED
            BY <2>2, <3>1, FewerCompleted DEF StartWrite, BookingCancelWrite
    <2> QED
        BY <1>1, <1>4, <2>1, <2>2, CompletionCredits DEF BookingNext
<1>5. CASE OutsideNext \/ Failure
    <2>1. UNCHANGED <<booking, bookedBy, trips>>
        BY <1>5 DEF OutsideNext, Failure, AdminSetStatus, AdminDelete, EraseShipper,
            AdminDeleteCarrier, EraseCarrier, Fail, rows
    <2> QED
        BY <1>1, <2>1
<1> QED
    BY <1>2, <1>3, <1>4, <1>5 DEF Next

\* A carrier has at least one credit for each of its completed bookings.
THEOREM CompletedWasCredited == Spec => []CompletedIsCredited
<1>1. Init => Credited
    <2> SUFFICES ASSUME Init, NEW c \in Carriers
                 PROVE  /\ IsFiniteSet(CompletedOf(c))
                        /\ Cardinality(CompletedOf(c)) <= trips[c]
        BY DEF Credited
    <2>1. CompletedOf(c) = {} /\ trips[c] = 0
        BY DEF Init, CompletedOf
    <2> QED
        BY <2>1, FS_EmptySet
<1>2. TypeOK /\ BookingInv /\ Credited /\ [Next]_vars => Credited'
    <2> SUFFICES ASSUME TypeOK, BookingInv, Credited, [Next]_vars
                 PROVE  Credited'
        OBVIOUS
    <2>1. CASE UNCHANGED vars
        BY <2>1 DEF vars, Credited, CompletedOf
    <2> QED
        BY <2>1, StepCredits
<1>3. Credited => CompletedIsCredited
    BY DEF Credited, CompletedIsCredited
<1> QED
    BY <1>1, <1>2, <1>3, TypeCorrect, BookingInvariant, PTL DEF Spec

-----------------------------------------------------------------------------
(***************************************************************************)
(* One handler at a time.  While none has overlapped another, the slot     *)
(* that moves is the only busy one, and a row it has read is as it read it *)
(* because nobody else writes: Create makes rows nobody has read, Lapse    *)
(* moves a clock no claim is about, and acceptQuote, which runs in one     *)
(* step, overlaps whoever is busy.                                         *)
(***************************************************************************)
\* What a busy slot refers to is there.
LEMMA SlotType ==
    ASSUME TypeOK, NEW p \in Calls
    PROVE  /\ call[p].step \notin {"idle", "expireRead"} => call[p].r \in Requests
           /\ call[p].step \in {"submitChecked", "submitInserted", "withdrawRead",
                                "withdrawCounted"} => call[p].c \in Carriers
           /\ call[p].step = "expireRead" => call[p].batch \in SUBSET Requests
<1>1. call[p] \in CallStates
    BY DEF TypeOK
<1> QED
    BY <1>1 DEF CallStates, Idle

\* The rows tell one story, and so do the slots: what AloneInv says while no
\* handler has overlapped another.
Story == /\ \A r \in Requests : booking[r] \in Engaged => request[r] = booking[r]
         /\ \A r \in Requests : request[r] = "QUOTED" => Pending(r) # {}
         /\ BookedIsClosed

Tidy == Story /\ Alone /\ \A p \in Calls : Claim(call[p])

LEMMA TidyIsAlone == AloneInv <=> (~raced => Tidy)
BY DEF AloneInv, Tidy, Story, BookingAgrees, QuotedHasOffer

\* The slot that moves is the only busy one, before and after.
LEMMA OnlyMover ==
    ASSUME TypeOK, Tidy, ~Overlap, NEW p \in Calls, NEW s, Go(p, s),
           ~Free(p) \/ s # Idle
    PROVE  /\ call'[p] = s
           /\ \A q \in Calls \ {p} : call'[q] = Idle
<1>1. call'[p] = s /\ \A q \in Calls \ {p} : call'[q] = call[q]
    BY DEF Go, TypeOK
<1>2. CASE ~Free(p)
    BY <1>1, <1>2 DEF Tidy, Alone, Free
<1>3. CASE s # Idle
    BY <1>1, <1>3 DEF Overlap
<1> QED
    BY <1>1, <1>2, <1>3

\* So what is left to show of such a step is what the mover goes on with.
LEMMA MoverClaims ==
    ASSUME TypeOK, Tidy, ~Overlap, NEW p \in Calls, NEW s, Go(p, s),
           ~Free(p) \/ s # Idle, Claim(call[p])', Story'
    PROVE  Tidy'
<1>1. \A q \in Calls \ {p} : call'[q] = Idle
    BY OnlyMover
<1>2. Alone'
    BY <1>1 DEF Alone, Free
<1>3. \A q \in Calls \ {p} : Claim(call[q])'
    BY <1>1 DEF Claim, Idle
<1> QED
    BY <1>2, <1>3 DEF Tidy

\* A slot that comes to rest claims nothing.
LEMMA RestClaims ==
    ASSUME TypeOK, Tidy, ~Overlap, NEW p \in Calls, Done(p), ~Free(p), Story'
    PROVE  Tidy'
<1>1. call'[p] = Idle
    BY OnlyMover DEF Done
<1>2. Claim(call[p])'
    BY <1>1 DEF Claim, Idle
<1> QED
    BY <1>2, MoverClaims DEF Done

\* A step that changes no row keeps the story.
LEMMA StoryStays == Story /\ UNCHANGED <<request, quote, booking>> => Story'
BY DEF Story, BookedIsClosed, Pending

\* So does one that changes the status of one request, if no booking of it
\* stands, and not to QUOTED unless there is an offer.
LEMMA StoryOfRequest ==
    ASSUME TypeOK, Story, NEW r \in Requests, NEW s,
           request' = [request EXCEPT ![r] = s], UNCHANGED <<quote, booking>>,
           booking[r] \notin Engaged, s = "QUOTED" => Pending(r) # {}
    PROVE  Story'
<1>1. request'[r] = s /\ \A q \in Requests \ {r} : request'[q] = request[q]
    BY DEF TypeOK
<1> QED
    BY <1>1 DEF Story, BookedIsClosed, Pending

\* And one that engages a request as its booking, with no offer left pending.
LEMMA StoryOfBooking ==
    ASSUME TypeOK, Story, NEW r \in Requests, NEW s \in Statuses \ {"QUOTED"},
           NEW t, request' = [request EXCEPT ![r] = s],
           booking' = [booking EXCEPT ![r] = t],
           t \in Engaged => t = s /\ Pending(r)' = {},
           \A q \in Requests \ {r} : Pending(q)' = Pending(q)
    PROVE  Story'
<1>1. /\ request'[r] = s /\ \A q \in Requests \ {r} : request'[q] = request[q]
      /\ booking'[r] = t /\ \A q \in Requests \ {r} : booking'[q] = booking[q]
    BY DEF TypeOK
<1> QED
    BY <1>1 DEF Story, BookedIsClosed

\* No booking stands on a request that is live, over or not there.
LEMMA NoneStands ==
    ASSUME Story, NEW r \in Requests,
           request[r] \in Live \cup {"NONE", "EXPIRED", "CANCELLED"}
    PROVE  booking[r] \notin Engaged
BY DEF Story, Engaged, Live

\* The handlers of requests: a cancellation and an expiry find live what they
\* read live, so no booking stands beside what they write.
LEMMA RequestTidy ==
    ASSUME TypeOK, Tidy, ~Overlap, RequestNext
    PROVE  Tidy'
<1>0. Story /\ \A p \in Calls : Claim(call[p])
    BY DEF Tidy
<1>1. ASSUME NEW r \in Requests, Create(r)
      PROVE  Tidy'
    <2>1. Story'
        BY <1>0, <1>1, NoneStands, StoryOfRequest DEF Create
    <2>2. Alone'
        BY <1>1 DEF Create, Tidy, Alone, Free
    <2>3. ASSUME NEW p \in Calls PROVE Claim(call[p])'
        <3>1. /\ \A q \in Requests \ {r} : request'[q] = request[q]
              /\ request[r] = "NONE" /\ UNCHANGED <<quote, booking, call>>
            BY <1>1 DEF Create, TypeOK
        <3>2. Claim(call[p])
            BY <1>0
        <3> QED
            BY <3>1, <3>2, SlotType DEF Claim, Live, Pending
    <2> QED
        BY <2>1, <2>2, <2>3 DEF Tidy
<1>2. ASSUME NEW r \in Requests, Lapse(r)
      PROVE  Tidy'
    BY <1>0, <1>2, StoryStays DEF Lapse, Tidy, Alone, Free, Claim, Pending
<1>3. ASSUME NEW p \in Calls, NEW r \in Requests,
             CancelRead(p, r) \/ CancelFetch(p, r) \/ RepostRead(p, r)
      PROVE  Tidy'
    <2>1. PICK s : /\ Go(p, s) /\ s # Idle /\ s.r = r /\ UNCHANGED rows
                   /\ \/ s.step \in {"cancelRead", "cancelFetched"} /\ request[r] \in Live
                      \/ s.step = "repostRead" /\ request[r] = "EXPIRED"
        <3>1. CASE CancelRead(p, r)
            BY <3>1 DEF CancelRead, Idle
        <3>2. CASE CancelFetch(p, r)
            BY <1>0, <3>2 DEF CancelFetch, Idle, At, Claim
        <3>3. CASE RepostRead(p, r)
            BY <3>3 DEF RepostRead, Idle
        <3> QED
            BY <1>3, <3>1, <3>2, <3>3
    <2>2. Claim(call[p])'
        BY <2>1, OnlyMover DEF Claim, rows
    <2>3. Story'
        BY <1>0, <2>1, StoryStays DEF rows
    <2> QED
        BY <2>1, <2>2, <2>3, MoverClaims
<1>4. ASSUME NEW p \in Calls, NEW r \in Requests, CancelWrite(p, r)
      PROVE  Tidy'
    <2>1. ~Free(p) /\ request[r] \in Live
        BY <1>0, <1>4 DEF CancelWrite, At, Free, Idle, Claim
    <2>2. Story'
        BY <1>0, <1>4, <2>1, NoneStands, StoryOfRequest DEF CancelWrite
    <2>3. CASE Done(p)
        BY <2>1, <2>2, <2>3, RestClaims
    <2>4. CASE ~Done(p)
        <3> DEFINE s == [step |-> "cancelWritten", r |-> r, offers |-> call[p].offers]
        <3>1. Go(p, s) /\ request'[r] = "CANCELLED"
            BY <1>4, <2>4 DEF CancelWrite, TypeOK
        <3>2. Claim(call[p])'
            BY <2>1, <3>1, OnlyMover DEF Claim
        <3> QED
            BY <2>1, <2>2, <3>1, <3>2, MoverClaims
    <2> QED
        BY <2>3, <2>4
<1>5. ASSUME NEW p \in Calls, NEW r \in Requests, CancelReject(p, r)
      PROVE  Tidy'
    <2>1. ~Free(p) /\ request[r] = "CANCELLED" /\ UNCHANGED <<request, booking>>
        BY <1>0, <1>5 DEF CancelReject, At, Free, Idle, Claim
    <2>2. /\ \A q \in Requests \ {r} : Pending(q)' = Pending(q)
          /\ Pending(r)' \subseteq Pending(r)
        BY <1>5 DEF CancelReject, TypeOK, Pending
    <2>3. Story'
        BY <1>0, <2>1, <2>2 DEF Story, BookedIsClosed
    <2> QED
        BY <1>5, <2>1, <2>3, RestClaims DEF CancelReject
<1>6. ASSUME NEW p \in Calls, NEW r \in Requests, RepostWrite(p, r)
      PROVE  Tidy'
    <2>1. ~Free(p) /\ request[r] = "EXPIRED"
        BY <1>0, <1>6 DEF RepostWrite, At, Free, Idle, Claim
    <2>2. Story'
        BY <1>0, <1>6, <2>1, NoneStands, StoryOfRequest DEF RepostWrite
    <2> QED
        BY <1>6, <2>1, <2>2, RestClaims DEF RepostWrite
<1>7. ASSUME NEW p \in Calls, ExpireRead(p)
      PROVE  Tidy'
    <2> DEFINE overdue == {r \in Requests : request[r] \in Live /\ due[r]}
               s == [step |-> "expireRead", batch |-> overdue]
    <2>1. Go(p, s) /\ s # Idle /\ UNCHANGED rows
        BY <1>7 DEF ExpireRead, Idle
    <2>2. Claim(call[p])'
        BY <2>1, OnlyMover DEF Claim, rows
    <2>3. Story'
        BY <1>0, <2>1, StoryStays DEF rows
    <2> QED
        BY <2>1, <2>2, <2>3, MoverClaims
<1>8. ASSUME NEW p \in Calls, ExpireWrite(p)
      PROVE  Tidy'
    <2>1. ~Free(p) /\ \A r \in call[p].batch : request[r] \in Live
        BY <1>0, <1>8 DEF ExpireWrite, Free, Idle, Claim
    <2>2. /\ \A r \in Requests :
                \/ request'[r] = request[r]
                \/ request[r] \in Live /\ request'[r] = "EXPIRED"
          /\ UNCHANGED <<quote, booking>>
        BY <1>8, <2>1 DEF ExpireWrite
    <2>3. Story'
        BY <1>0, <2>2, NoneStands DEF Story, BookedIsClosed, Pending
    <2> QED
        BY <1>8, <2>1, <2>3, RestClaims DEF ExpireWrite
<1> QED
    BY <1>1, <1>2, <1>3, <1>4, <1>5, <1>6, <1>7, <1>8 DEF RequestNext

\* The handlers of offers: only a live request gets one, an acceptance leaves
\* none pending, and a withdrawal that leaves none reopens the request.
LEMMA QuoteTidy ==
    ASSUME TypeOK, Tidy, ~Overlap, QuoteNext
    PROVE  Tidy'
<1>0. Story /\ \A p \in Calls : Claim(call[p])
    BY DEF Tidy
<1>1. ASSUME NEW p \in Calls, NEW r \in Requests, NEW c \in Carriers,
             SubmitCheck(p, r, c) \/ WithdrawRead(p, r, c) \/ WithdrawCount(p, r, c)
      PROVE  Tidy'
    <2> DEFINE checked == [step |-> "submitChecked", r |-> r, c |-> c,
                           open |-> request[r] = "OPEN"]
               read    == [step |-> "withdrawRead", r |-> r, c |-> c]
               counted == [step |-> "withdrawCounted", r |-> r, c |-> c,
                           last |-> Pending(r) \subseteq {c}]
    <2>1. UNCHANGED rows
        BY <1>1 DEF SubmitCheck, WithdrawRead, WithdrawCount
    <2>2. Story'
        BY <1>0, <2>1, StoryStays DEF rows
    <2>3. CASE SubmitCheck(p, r, c)
        <3>1. Go(p, checked) /\ checked # Idle /\ request[r] \in Live
            BY <2>3 DEF SubmitCheck, Idle
        <3>2. call'[p] = checked
            BY <3>1, OnlyMover
        <3>3. /\ call'[p].step = "submitChecked" /\ call'[p].r = r
              /\ call'[p].open = (request[r] = "OPEN")
            BY <3>2
        <3>4. call'[p].open <=> request[r] = "OPEN"
            BY <3>3, Zenon
        <3>5. Claim(call[p])'
            BY <2>1, <3>1, <3>3, <3>4 DEF Claim, rows
        <3> QED
            BY <2>2, <3>1, <3>5, MoverClaims
    <2>4. CASE WithdrawRead(p, r, c)
        <3>1. Go(p, read) /\ read # Idle /\ quote[r][c] = "PENDING"
            BY <2>4 DEF WithdrawRead, Idle
        <3>2. Claim(call[p])'
            BY <2>1, <3>1, OnlyMover DEF Claim, rows
        <3> QED
            BY <2>2, <3>1, <3>2, MoverClaims
    <2>5. CASE WithdrawCount(p, r, c)
        <3>1. Go(p, counted) /\ counted # Idle /\ quote[r][c] = "PENDING"
            BY <1>0, <2>5 DEF WithdrawCount, Idle, At, Claim
        <3>2. call'[p] = counted
            BY <3>1, OnlyMover
        <3>3. /\ call'[p].step = "withdrawCounted" /\ call'[p].r = r
              /\ call'[p].c = c /\ call'[p].last = (Pending(r) \subseteq {c})
            BY <3>2
        <3>4. call'[p].last <=> Pending(r) \subseteq {c}
            BY <3>3, Zenon
        <3>5. Pending(r)' = Pending(r)
            BY <2>1 DEF Pending, rows
        <3>6. Claim(call[p])'
            BY <2>1, <3>1, <3>3, <3>4, <3>5 DEF Claim, rows
        <3> QED
            BY <2>2, <3>1, <3>6, MoverClaims
    <2> QED
        BY <1>1, <2>3, <2>4, <2>5
<1>2. ASSUME NEW p \in Calls, NEW r \in Requests, NEW c \in Carriers,
             SubmitInsert(p, r, c)
      PROVE  Tidy'
    <2>1. /\ ~Free(p) /\ request[r] \in Live /\ (call[p].open <=> request[r] = "OPEN")
          /\ UNCHANGED <<request, booking>>
        BY <1>0, <1>2 DEF SubmitInsert, At, Free, Idle, Claim
    <2>2. /\ quote'[r][c] = "PENDING" /\ Pending(r)' = Pending(r) \cup {c}
          /\ \A q \in Requests \ {r} : Pending(q)' = Pending(q)
        BY <1>2 DEF SubmitInsert, TypeOK, Pending
    <2>3. Story'
        BY <1>0, <2>1, <2>2, NoneStands DEF Story, BookedIsClosed
    <2>4. CASE Done(p)
        BY <2>1, <2>3, <2>4, RestClaims
    <2>5. CASE ~Done(p)
        <3> DEFINE s == [step |-> "submitInserted", r |-> r, c |-> c]
        <3>1. Go(p, s)
            BY <1>2, <2>5 DEF SubmitInsert
        <3>2. Claim(call[p])'
            BY <2>1, <2>2, <3>1, OnlyMover DEF Claim
        <3> QED
            BY <2>1, <2>3, <3>1, <3>2, MoverClaims
    <2> QED
        BY <2>4, <2>5
<1>3. ASSUME NEW p \in Calls, NEW r \in Requests, SubmitMark(p, r)
      PROVE  Tidy'
    <2>1. ~Free(p) /\ request[r] \in Live /\ Pending(r) # {}
        BY <1>0, <1>3, SlotType DEF SubmitMark, At, Free, Idle, Claim, Pending
    <2>2. Story'
        BY <1>0, <1>3, <2>1, NoneStands, StoryOfRequest DEF SubmitMark
    <2> QED
        BY <1>3, <2>1, <2>2, RestClaims DEF SubmitMark
<1>4. ASSUME NEW p \in Calls, NEW r \in Requests, NEW c \in Carriers, Accept(p, r, c)
      PROVE  Tidy'
    <2>1. \A q \in Calls : call'[q] = Idle
        BY <1>4 DEF Accept, Free, Overlap
    <2>2. Pending(r)' = {} /\ \A q \in Requests \ {r} : Pending(q)' = Pending(q)
        BY <1>4 DEF Accept, TypeOK, Pending
    <2>3. Story'
        BY <1>0, <1>4, <2>2, StoryOfBooking DEF Accept, Statuses
    <2>4. Alone' /\ (\A q \in Calls : Claim(call[q]))'
        BY <2>1 DEF Alone, Free, Claim, Idle
    <2> QED
        BY <2>3, <2>4 DEF Tidy
<1>5. ASSUME NEW p \in Calls, NEW r \in Requests, NEW c \in Carriers,
             WithdrawCommit(p, r, c)
      PROVE  Tidy'
    <2>1. /\ ~Free(p) /\ quote[r][c] = "PENDING"
          /\ call[p].last <=> Pending(r) \subseteq {c}
        BY <1>0, <1>5 DEF WithdrawCommit, At, Free, Idle, Claim
    <2>2. /\ Pending(r)' = Pending(r) \ {c} /\ UNCHANGED booking
          /\ \A q \in Requests \ {r} : Pending(q)' = Pending(q)
        BY <1>5 DEF WithdrawCommit, TypeOK, Pending
    <2>3. booking[r] \notin Engaged
        BY <1>0, <2>1 DEF Story, BookedIsClosed, Pending
    <2>4. /\ \A q \in Requests \ {r} : request'[q] = request[q]
          /\ Pending(r)' = {} => request'[r] = "OPEN"
        BY <1>5, <2>1, <2>2 DEF WithdrawCommit, TypeOK
    <2>5. Story'
        BY <1>0, <2>2, <2>3, <2>4 DEF Story, BookedIsClosed
    <2> QED
        BY <1>5, <2>1, <2>5, RestClaims DEF WithdrawCommit
<1> QED
    BY <1>1, <1>2, <1>3, <1>4, <1>5 DEF QuoteNext

\* The handlers of bookings: each finds the booking as it read it, and writes
\* the request with it.
LEMMA BookingTidy ==
    ASSUME TypeOK, Tidy, ~Overlap, BookingNext
    PROVE  Tidy'
<1>0. Story /\ \A p \in Calls : Claim(call[p])
    BY DEF Tidy
<1>1. ASSUME NEW p \in Calls, NEW r \in Requests,
             StartRead(p, r) \/ CompleteRead(p, r) \/ BookingCancelRead(p, r)
      PROVE  Tidy'
    <2>1. PICK s : /\ Go(p, s) /\ s # Idle /\ s.r = r /\ UNCHANGED rows
                   /\ \/ s.step = "startRead" /\ booking[r] = "ACCEPTED"
                      \/ s.step = "completeRead" /\ booking[r] = "IN_PROGRESS"
                      \/ /\ s.step = "bookingCancelRead"
                         /\ booking[r] \in {"ACCEPTED", "IN_PROGRESS"}
        <3>1. CASE StartRead(p, r)
            BY <3>1 DEF StartRead, Idle
        <3>2. CASE CompleteRead(p, r)
            BY <3>2 DEF CompleteRead, Idle
        <3>3. CASE BookingCancelRead(p, r)
            BY <3>3 DEF BookingCancelRead, Idle
        <3> QED
            BY <1>1, <3>1, <3>2, <3>3
    <2>2. Claim(call[p])'
        BY <2>1, OnlyMover DEF Claim, rows
    <2>3. Story'
        BY <1>0, <2>1, StoryStays DEF rows
    <2> QED
        BY <2>1, <2>2, <2>3, MoverClaims
<1>2. ASSUME NEW p \in Calls, NEW r \in Requests,
             StartWrite(p, r) \/ CompleteWrite(p, r) \/ BookingCancelWrite(p, r)
      PROVE  Tidy'
    <2>1. ~Free(p) /\ Done(p) /\ booking[r] \in {"ACCEPTED", "IN_PROGRESS"}
        BY <1>0, <1>2 DEF StartWrite, CompleteWrite, BookingCancelWrite, At, Free,
                          Idle, Claim
    <2>2. \A q \in Requests : Pending(q)' = Pending(q)
        BY <1>2 DEF StartWrite, CompleteWrite, BookingCancelWrite, Pending
    <2>3. Pending(r) = {}
        BY <1>0, <2>1 DEF Story, BookedIsClosed, Engaged
    <2>4. Story'
        <3>1. CASE StartWrite(p, r)
            BY <1>0, <2>2, <2>3, <3>1, StoryOfBooking DEF StartWrite, Statuses
        <3>2. CASE CompleteWrite(p, r)
            BY <1>0, <2>2, <2>3, <3>2, StoryOfBooking DEF CompleteWrite, Statuses
        <3>3. CASE BookingCancelWrite(p, r)
            BY <1>0, <2>2, <3>3, StoryOfBooking
            DEF BookingCancelWrite, Statuses, Engaged
        <3> QED
            BY <1>2, <3>1, <3>2, <3>3
    <2> QED
        BY <2>1, <2>4, RestClaims
<1> QED
    BY <1>1, <1>2 DEF BookingNext

\* While one handler runs at a time, failures included, what each has read holds
\* when it writes, and requests, bookings and offers agree.
THEOREM AloneInvariant == Spec => []AloneInv
<1>1. Init => AloneInv
    BY DEF Init, AloneInv, BookingAgrees, QuotedHasOffer, BookedIsClosed, Alone,
           Free, Claim, Idle, Engaged
<1>2. TypeOK /\ AloneInv /\ [Next]_vars => AloneInv'
    <2> SUFFICES ASSUME TypeOK, AloneInv, [Next]_vars, ~raced'
                 PROVE  Tidy'
        BY DEF AloneInv, Tidy, Story, BookingAgrees, QuotedHasOffer
    <2>1. CASE UNCHANGED vars
        BY <2>1, TidyIsAlone
        DEF vars, Tidy, Story, BookedIsClosed, Pending, Alone, Free, Claim
    <2>2. CASE Next
        <3>1. /\ RequestNext \/ QuoteNext \/ BookingNext \/ Failure
              /\ ~raced /\ ~Overlap
            BY <2>2 DEF Next
        <3>2. Tidy
            BY <3>1, TidyIsAlone
        <3>3. ASSUME NEW p \in Calls, Fail(p)
              PROVE  Tidy'
            <4>1. Story'
                BY <3>2, <3>3, StoryStays DEF Fail, rows, Tidy
            <4> QED
                BY <3>1, <3>2, <3>3, <4>1, RestClaims DEF Fail
        <3> QED
            BY <3>1, <3>2, <3>3, RequestTidy, QuoteTidy, BookingTidy DEF Failure
    <2> QED
        BY <2>1, <2>2
<1> QED
    BY <1>1, <1>2, TypeCorrect, PTL DEF Spec

\* A booking that stands and its request are in the same state.
THEOREM BookingTellsRequest == Spec => []BookingAgrees
<1>1. AloneInv => BookingAgrees
    BY DEF AloneInv
<1> QED
    BY <1>1, AloneInvariant, PTL

\* A request is never shown as QUOTED with no offer to look at.
THEOREM QuotedShowsOffer == Spec => []QuotedHasOffer
<1>1. AloneInv => QuotedHasOffer
    BY DEF AloneInv
<1> QED
    BY <1>1, AloneInvariant, PTL

-----------------------------------------------------------------------------
(***************************************************************************)
(* Credit, exactly.  A booking that is completed is IN_PROGRESS until then *)
(* by the claim of the slot that completes it, and none that is COMPLETED  *)
(* is started, cancelled or completed again.                               *)
(***************************************************************************)
CreditedOnce ==
    \A c \in Carriers :
        IsFiniteSet(CompletedOf(c)) /\ trips[c] = Cardinality(CompletedOf(c))

LEMMA SameCompleted ==
    ASSUME CreditedOnce, trips' = trips,
           \A c \in Carriers : CompletedOf(c)' = CompletedOf(c)
    PROVE  CreditedOnce'
BY DEF CreditedOnce

LEMMA StepCreditsOnce ==
    ASSUME TypeOK, BookingInv, Tidy, CreditedOnce, BookingNext
    PROVE  CreditedOnce'
<1>0. \A p \in Calls : Claim(call[p])
    BY DEF Tidy
<1>1. ASSUME NEW p \in Calls, NEW r \in Requests,
             StartRead(p, r) \/ CompleteRead(p, r) \/ BookingCancelRead(p, r)
      PROVE  CreditedOnce'
    BY <1>1, SameCompleted
    DEF StartRead, CompleteRead, BookingCancelRead, rows, CompletedOf
<1>2. ASSUME NEW p \in Calls, NEW r \in Requests,
             StartWrite(p, r) \/ BookingCancelWrite(p, r)
      PROVE  CreditedOnce'
    <2>1. booking[r] # "COMPLETED"
        BY <1>0, <1>2 DEF StartWrite, BookingCancelWrite, At, Claim
    <2>2. /\ booking'[r] # "COMPLETED" /\ UNCHANGED <<bookedBy, trips>>
          /\ \A q \in Requests \ {r} : booking'[q] = booking[q]
        BY <1>2 DEF StartWrite, BookingCancelWrite, TypeOK
    <2>3. \A c \in Carriers : CompletedOf(c)' = CompletedOf(c)
        BY <2>1, <2>2 DEF CompletedOf
    <2> QED
        BY <2>2, <2>3, SameCompleted
<1>3. ASSUME NEW p \in Calls, NEW r \in Requests, CompleteWrite(p, r),
             NEW c \in Carriers
      PROVE  /\ IsFiniteSet(CompletedOf(c)')
             /\ trips'[c] = Cardinality(CompletedOf(c)')
    <2>1. bookedBy[r] \in Carriers /\ r \notin CompletedOf(c)
        BY <1>0, <1>3
        DEF BookingInv, BookingWhole, CompleteWrite, At, Claim, CompletedOf
    <2>2. IsFiniteSet(CompletedOf(c)) /\ trips[c] = Cardinality(CompletedOf(c))
        BY DEF CreditedOnce
    <2>3. CASE c = bookedBy[r]
        <3>1. CompletedOf(c)' = CompletedOf(c) \cup {r}
            BY <1>3, <2>3 DEF CompletedOf, CompleteWrite, TypeOK
        <3>2. trips'[c] = trips[c] + 1
            BY <1>3, <2>3 DEF CompleteWrite, TypeOK
        <3> QED
            BY <2>1, <2>2, <3>1, <3>2, FS_AddElement
    <2>4. CASE c # bookedBy[r]
        <3>1. CompletedOf(c)' = CompletedOf(c) /\ trips'[c] = trips[c]
            BY <1>3, <2>4 DEF CompletedOf, CompleteWrite, TypeOK
        <3> QED
            BY <2>2, <3>1
    <2> QED
        BY <2>3, <2>4
<1>4. ASSUME NEW p \in Calls, NEW r \in Requests, CompleteWrite(p, r)
      PROVE  CreditedOnce'
    BY <1>3, <1>4 DEF CreditedOnce
<1> QED
    BY <1>1, <1>2, <1>4 DEF BookingNext

\* While one handler runs at a time a carrier has one credit for each of its
\* completed bookings.
THEOREM CreditedExactly == Spec => []CreditIsExact
<1> DEFINE I == ~raced => CreditedOnce
<1>1. Init => I
    <2> SUFFICES ASSUME Init, NEW c \in Carriers
                 PROVE  /\ IsFiniteSet(CompletedOf(c))
                        /\ trips[c] = Cardinality(CompletedOf(c))
        BY DEF CreditedOnce
    <2>1. CompletedOf(c) = {} /\ trips[c] = 0
        BY DEF Init, CompletedOf
    <2> QED
        BY <2>1, FS_EmptySet
<1>2. TypeOK /\ BookingInv /\ AloneInv /\ I /\ [Next]_vars => I'
    <2> SUFFICES ASSUME TypeOK, BookingInv, AloneInv, I, [Next]_vars, ~raced'
                 PROVE  CreditedOnce'
        OBVIOUS
    <2>1. CASE UNCHANGED vars
        BY <2>1, SameCompleted DEF vars, CompletedOf
    <2>2. CASE Next
        <3>1. /\ RequestNext \/ QuoteNext \/ BookingNext \/ Failure
              /\ ~raced /\ Tidy /\ CreditedOnce
            BY <2>2, TidyIsAlone DEF Next
        <3>2. ASSUME UNCHANGED <<booking, bookedBy, trips>>
              PROVE  CreditedOnce'
            BY <3>1, <3>2, SameCompleted DEF CompletedOf
        <3>3. CASE RequestNext \/ Failure
            <4>1. UNCHANGED <<booking, bookedBy, trips>>
                BY <3>3 DEF RequestNext, Create, Lapse, CancelRead, CancelFetch,
                    CancelWrite, CancelReject, RepostRead, RepostWrite, ExpireRead,
                    ExpireWrite, Failure, Fail, rows
            <4> QED
                BY <3>2, <4>1
        <3>4. ASSUME NEW p \in Calls, NEW r \in Requests, NEW c \in Carriers,
                     \/ SubmitCheck(p, r, c) \/ SubmitInsert(p, r, c)
                     \/ WithdrawRead(p, r, c) \/ WithdrawCount(p, r, c)
                     \/ WithdrawCommit(p, r, c)
              PROVE  CreditedOnce'
            BY <3>2, <3>4 DEF SubmitCheck, SubmitInsert, WithdrawRead,
                              WithdrawCount, WithdrawCommit, rows
        <3>5. ASSUME NEW p \in Calls, NEW r \in Requests, SubmitMark(p, r)
              PROVE  CreditedOnce'
            BY <3>2, <3>5 DEF SubmitMark
        <3>6. ASSUME NEW p \in Calls, NEW r \in Requests, NEW c \in Carriers,
                     Accept(p, r, c)
              PROVE  CreditedOnce'
            <4>1. \A d \in Carriers : CompletedOf(d)' = CompletedOf(d)
                BY <3>6 DEF CompletedOf, Accept, TypeOK
            <4> QED
                BY <3>1, <3>6, <4>1, SameCompleted DEF Accept
        <3>7. CASE QuoteNext
            BY <3>4, <3>5, <3>6, <3>7 DEF QuoteNext
        <3> QED
            BY <3>1, <3>3, <3>7, StepCreditsOnce
    <2> QED
        BY <2>1, <2>2
<1>3. I => CreditIsExact
    BY DEF CreditedOnce, CreditIsExact
<1> QED
    BY <1>1, <1>2, <1>3, TypeCorrect, BookingInvariant, AloneInvariant, PTL DEF Spec
=============================================================================
