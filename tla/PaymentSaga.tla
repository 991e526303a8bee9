---------------------------- MODULE PaymentSaga -----------------------------
(***************************************************************************)
(* payment-app: PaymentManager's three operations (request, confirm,       *)
(* cancel), the writes of PaymentWriter and CancelFailedRetryScheduler,    *)
(* between TossPayments (pg) and booking-app (reservation).                *)
(*                                                                         *)
(* confirmPayment and cancelPayment are not transactions.  Each method of  *)
(* PaymentWriter is one, in two steps: findById loads the row without a    *)
(* lock, and the flush sets the new status whatever it is by then (the     *)
(* guarded transitions of Payment are not used).  PaymentEntity has no     *)
(* @Version and no @DynamicUpdate: the UPDATE writes every column as it    *)
(* was loaded or changed, and is left out when nothing was changed.        *)
(* Threads that serve different Idempotency-Keys overlap freely.           *)
(*                                                                         *)
(* booking-app is an instance of ReservationDesk: its confirm reads in one *)
(* step and writes in another, which may follow the caller's read timeout. *)
(*                                                                         *)
(* FaultKinds says what may go wrong:                                      *)
(*   "timeout"  a call is carried out and its answer does not come in time *)
(*   "outage"   a call does not arrive                                     *)
(*   "crash"    the process dies, or the database refuses a write          *)
(***************************************************************************)
EXTENDS Naturals

CONSTANTS
    Reservations,
    Payments,        \* requests for a payment, and the rows they may leave
    Workers,         \* threads that serve confirm and cancel
    Nobody,          \* "no payment", "no reservation", "nothing loaded"
    FaultKinds,
    MaxFaults        \* bound on the number of faults

ASSUME NobodyAssumption == Nobody \notin Payments \cup Reservations
ASSUME FaultAssumption ==
    FaultKinds \subseteq {"timeout", "outage", "crash"} /\ MaxFaults \in Nat

VARIABLES
    reservation,     \* reservation[r]: its status in booking-app
    accepted,        \* reservations of which booking-app serves a confirm
    payment,         \* payment[p]: the row of ticketing_payment.payments
    pg,              \* pg[p]: the order at TossPayments
    job,             \* job[w]: what thread w is doing
    retry,           \* the run of CancelFailedRetryScheduler
    faults           \* faults that have happened

booking == <<reservation, accepted>>
vars    == <<booking, payment, pg, job, retry, faults>>

Desk == INSTANCE ReservationDesk

\* "NONE": no row yet; "CHECKED": none either, but existsByReservationId has
\* answered no; "REJECTED": the request ended without a row.
PaymentStatus == {"NONE", "CHECKED", "REJECTED",
                  "READY", "APPROVED", "FAILED", "REFUNDED", "CANCEL_FAILED"}
Rows     == {"READY", "APPROVED", "FAILED", "REFUNDED", "CANCEL_FAILED"}
PGStatus == {"none", "done", "canceled"}

JobPhases == {"idle", "ready", "captured", "declined", "approved",
              "confirming", "refund", "refunded", "refused"}

\* The columns of a row that change.
Loaded == [status : Rows, key : BOOLEAN] \cup {Nobody}

Idle  == [phase |-> "idle", payment |-> Nobody, loaded |-> Nobody]
NoRun == [todo |-> {}, now |-> Nobody, loaded |-> Nobody]

TypeOK ==
    /\ Desk!TypeOK
    /\ payment \in [Payments -> [status : PaymentStatus,
                                 reservation : Reservations \cup {Nobody},
                                 key : BOOLEAN]]
    /\ pg \in [Payments -> PGStatus]
    /\ job \in [Workers -> [phase : JobPhases, payment : Payments \cup {Nobody},
                             loaded : Loaded]]
    /\ retry \in [todo : SUBSET Payments, now : Payments \cup {Nobody},
                  loaded : Loaded]
    /\ faults \in 0 .. MaxFaults

Init ==
    /\ reservation = [r \in Reservations |-> "PENDING"]
    /\ accepted = {}
    /\ payment = [p \in Payments |->
                     [status |-> "NONE", reservation |-> Nobody, key |-> FALSE]]
    /\ pg = [p \in Payments |-> "none"]
    /\ job = [w \in Workers |-> Idle]
    /\ retry = NoRun
    /\ faults = 0

-----------------------------------------------------------------------------
(* Remote calls and faults.                                                *)

Fault(kind) == kind \in FaultKinds /\ faults < MaxFaults /\ faults' = faults + 1

(* A call that moves f[x] from one status to another; ok is what the       *)
(* caller sees: an exception stands for a refusal and for a lost answer.   *)
Moves(f, x, from, to) == f[x] = from /\ f' = [f EXCEPT ![x] = to]

Call(f, x, from, to, ok) ==
    \/ ok  /\ Moves(f, x, from, to) /\ UNCHANGED faults
    \/ ~ok /\ f[x] # from /\ UNCHANGED <<f, faults>>
    \/ ~ok /\ Moves(f, x, from, to) /\ Fault("timeout")
    \/ ~ok /\ UNCHANGED f /\ Fault("outage")

SetStatus(p, s) == payment' = [payment EXCEPT ![p].status = s]
Columns(p)      == [status |-> payment[p].status, key |-> payment[p].key]

(* The flush of a row that was loaded and then changed to new; touched     *)
(* says whether a column that is not modelled has changed, too.            *)
Flush(p, loaded, new, touched) ==
    IF new = loaded /\ ~touched
    THEN UNCHANGED payment
    ELSE payment' = [payment EXCEPT ![p].status = new.status, ![p].key = new.key]

JobTo(w, phase) == job' = [job EXCEPT ![w].phase = phase, ![w].loaded = Nobody]
EndJob(w)       == job' = [job EXCEPT ![w] = Idle]
Of(w)           == job[w].payment
ReservationOf(p) == payment[p].reservation

-----------------------------------------------------------------------------
(* booking-app by itself: a reservation expires, is cancelled by its user  *)
(* or by the expiry, or is confirmed for a caller who has given up.        *)

ReservationLapses(r) ==
    /\ Desk!Lapse(r)
    /\ UNCHANGED <<payment, pg, job, retry, faults>>

ReservationCancelled(r) ==
    /\ Desk!Cancel(r)
    /\ UNCHANGED <<payment, pg, job, retry, faults>>

Awaited(r) == \E w \in Workers : job[w].phase = "confirming" /\ ReservationOf(Of(w)) = r

ConfirmGoesOn(r) ==
    /\ ~Awaited(r)
    /\ Desk!Confirm(r) \/ Desk!Refuse(r)
    /\ UNCHANGED <<payment, pg, job, retry, faults>>

-----------------------------------------------------------------------------
(* createPaymentRequest.                                                   *)

(* readReservation and existsByReservationId; the column status, which is  *)
(* all that is checked, is PENDING for a lapsed reservation too.           *)
RequestPayment(p, r) ==
    /\ payment[p].status = "NONE"
    /\ reservation[r] \in Desk!Open
    /\ ~ \E q \in Payments : payment[q].status \in Rows /\ ReservationOf(q) = r
    /\ payment' = [payment EXCEPT ![p] =
                      [status |-> "CHECKED", reservation |-> r, key |-> FALSE]]
    /\ UNCHANGED <<booking, pg, job, retry, faults>>

\* Faulty variant: a table without uk_reservation_id.
InsertAnyway(p) ==
    /\ payment[p].status = "CHECKED"
    /\ SetStatus(p, "READY")
    /\ UNCHANGED <<booking, pg, job, retry, faults>>

(* The INSERT, which uk_reservation_id may refuse.                         *)
InsertPayment(p) ==
    /\ payment[p].status = "CHECKED"
    /\ IF \E q \in Payments : /\ payment[q].status \in Rows
                              /\ ReservationOf(q) = ReservationOf(p)
       THEN SetStatus(p, "REJECTED")
       ELSE SetStatus(p, "READY")
    /\ UNCHANGED <<booking, pg, job, retry, faults>>

-----------------------------------------------------------------------------
(* confirmPayment.                                                         *)

ReadReady(w, p) ==
    /\ job[w].phase = "idle"
    /\ payment[p].status = "READY"
    /\ job' = [job EXCEPT ![w] =
                  [phase |-> "ready", payment |-> p, loaded |-> Nobody]]
    /\ UNCHANGED <<booking, payment, pg, retry, faults>>

\* Faulty variant: an answer that does not come is taken for an approval.
CaptureAssumed(w) ==
    /\ job[w].phase = "ready"
    /\ \E ok \in BOOLEAN : Call(pg, Of(w), "none", "done", ok)
    /\ JobTo(w, "captured")
    /\ UNCHANGED <<booking, payment, retry>>

(* TossPayments takes the money of an order once.  It may also decline.    *)
CapturePG(w) ==
    /\ job[w].phase = "ready"
    /\ \/ Call(pg, Of(w), "none", "done", TRUE)  /\ JobTo(w, "captured")
       \/ Call(pg, Of(w), "none", "done", FALSE) /\ JobTo(w, "declined")
       \/ UNCHANGED <<pg, faults>> /\ JobTo(w, "declined")
    /\ UNCHANGED <<booking, payment, retry>>

(* findById in each of the writer's methods.                               *)
LoadRow(w) ==
    /\ job[w].phase \in {"declined", "captured", "refunded", "refused"}
    /\ job[w].loaded = Nobody
    /\ job' = [job EXCEPT ![w].loaded = Columns(Of(w))]
    /\ UNCHANGED <<booking, payment, pg, retry, faults>>

(* updateToFailed.                                                         *)
WriteFailed(w) ==
    LET loaded == job[w].loaded IN
    /\ job[w].phase = "declined" /\ loaded # Nobody
    /\ \E touched \in BOOLEAN :
           Flush(Of(w), loaded, [loaded EXCEPT !.status = "FAILED"], touched)
    /\ EndJob(w)
    /\ UNCHANGED <<booking, pg, retry, faults>>

(* updateToApproved.                                                       *)
WriteApproved(w) ==
    /\ job[w].phase = "captured" /\ job[w].loaded # Nobody
    /\ Flush(Of(w), job[w].loaded, [status |-> "APPROVED", key |-> TRUE], TRUE)
    /\ JobTo(w, "approved")
    /\ UNCHANGED <<booking, pg, retry, faults>>

(* bookingClient.confirmReservation: the request reaches booking-app, whose *)
(* validator accepts or refuses it.                                        *)
ConfirmReservation(w) ==
    LET r == ReservationOf(Of(w)) IN
    /\ job[w].phase = "approved"
    /\ \/ Desk!Accept(r) /\ JobTo(w, "confirming") /\ UNCHANGED faults
       \/ /\ reservation[r] # "PENDING"
          /\ UNCHANGED <<booking, faults>> /\ JobTo(w, "refund")
       \/ UNCHANGED booking /\ JobTo(w, "refund") /\ Fault("outage")
    /\ UNCHANGED <<payment, pg, retry>>

\* Faulty variant: the refund is left to the caller.
AnsweredOrGivenUp(w) ==
    LET r == ReservationOf(Of(w)) IN
    /\ job[w].phase = "confirming"
    /\ \/ (Desk!Confirm(r) \/ Desk!Refuse(r)) /\ UNCHANGED faults
       \/ UNCHANGED booking /\ Fault("timeout")
    /\ EndJob(w)
    /\ UNCHANGED <<payment, pg, retry>>

(* The answer; any exception, a read timeout too, leads to the refund.     *)
ConfirmAnswered(w) ==
    LET r == ReservationOf(Of(w)) IN
    /\ job[w].phase = "confirming"
    /\ \/ Desk!Confirm(r) /\ EndJob(w) /\ UNCHANGED faults
       \/ Desk!Refuse(r) /\ JobTo(w, "refund") /\ UNCHANGED faults
       \/ UNCHANGED booking /\ JobTo(w, "refund") /\ Fault("timeout")
    /\ UNCHANGED <<payment, pg, retry>>

-----------------------------------------------------------------------------
(* cancelPayment and initiateRefund.                                       *)

ReadApproved(w, p) ==
    /\ job[w].phase = "idle"
    /\ payment[p].status = "APPROVED" /\ payment[p].key
    /\ job' = [job EXCEPT ![w] =
                  [phase |-> "refund", payment |-> p, loaded |-> Nobody]]
    /\ UNCHANGED <<booking, payment, pg, retry, faults>>

\* Faulty variant: an exception of the PG is taken for "already cancelled".
CancelPGAnyway(w) ==
    /\ job[w].phase = "refund"
    /\ \E ok \in BOOLEAN : Call(pg, Of(w), "done", "canceled", ok)
    /\ JobTo(w, "refunded")
    /\ UNCHANGED <<booking, payment, retry>>

(* TossPayments refuses to cancel an order that is cancelled already.      *)
CancelPG(w) ==
    /\ job[w].phase = "refund"
    /\ \/ Call(pg, Of(w), "done", "canceled", TRUE)  /\ JobTo(w, "refunded")
       \/ Call(pg, Of(w), "done", "canceled", FALSE) /\ JobTo(w, "refused")
    /\ UNCHANGED <<booking, payment, retry>>

\* Faulty variant: the write after a cancel uses a status that is not known.
WriteCancelPending(w) ==
    /\ job[w].phase = "refunded"
    /\ SetStatus(Of(w), "CANCEL_PENDING") /\ EndJob(w)
    /\ UNCHANGED <<booking, pg, retry, faults>>

(* updateToRefunded is inside the try block: when it fails, CANCEL_FAILED  *)
(* is written although the money is back.                                  *)
WriteRefunded(w) ==
    LET loaded == job[w].loaded IN
    /\ job[w].phase = "refunded"
    /\ \/ /\ loaded # Nobody
          /\ \E touched \in BOOLEAN :
                 Flush(Of(w), loaded, [loaded EXCEPT !.status = "REFUNDED"], touched)
          /\ EndJob(w) /\ UNCHANGED faults
       \/ Fault("crash") /\ JobTo(w, "refused") /\ UNCHANGED payment
    /\ UNCHANGED <<booking, pg, retry>>

\* Faulty variant: the catch block logs the failure and rethrows.
LogCancelFailed(w) ==
    /\ job[w].phase = "refused" /\ job[w].loaded # Nobody
    /\ EndJob(w)
    /\ UNCHANGED <<booking, payment, pg, retry, faults>>

(* updateToCancelFailed, which changes the status only.                    *)
WriteCancelFailed(w) ==
    LET loaded == job[w].loaded IN
    /\ job[w].phase = "refused" /\ loaded # Nobody
    /\ Flush(Of(w), loaded, [loaded EXCEPT !.status = "CANCEL_FAILED"], FALSE)
    /\ EndJob(w)
    /\ UNCHANGED <<booking, pg, retry, faults>>

(* The process dies or a write fails: the rest of the operation is lost.   *)
WorkerDies(w) ==
    /\ job[w].phase # "idle"
    /\ Fault("crash")
    /\ EndJob(w)
    /\ UNCHANGED <<booking, payment, pg, retry>>

-----------------------------------------------------------------------------
(* CancelFailedRetryScheduler.                                             *)

CancelFailed == {p \in Payments : payment[p].status = "CANCEL_FAILED"}

(* The list is read once.  Of a payment without a paymentKey the loop only *)
(* logs that it needs manual work.                                         *)
RetryStart ==
    LET todo == {p \in CancelFailed : payment[p].key} IN
    /\ retry = NoRun
    /\ todo # {}
    /\ retry' = [NoRun EXCEPT !.todo = todo]
    /\ UNCHANGED <<booking, payment, pg, job, faults>>

(* One payment of the list.  An exception of the PG is logged, and the     *)
(* loop goes on.                                                           *)
RetryCancel(p) ==
    /\ p \in retry.todo /\ retry.now = Nobody
    /\ \/ /\ Call(pg, p, "done", "canceled", TRUE)
          /\ retry' = [retry EXCEPT !.todo = @ \ {p}, !.now = p]
       \/ /\ Call(pg, p, "done", "canceled", FALSE)
          /\ retry' = [retry EXCEPT !.todo = @ \ {p}]
    /\ UNCHANGED <<booking, payment, job>>

(* updateToRefunded: findById ...                                          *)
RetryLoad ==
    /\ retry.now # Nobody /\ retry.loaded = Nobody
    /\ retry' = [retry EXCEPT !.loaded = Columns(retry.now)]
    /\ UNCHANGED <<booking, payment, pg, job, faults>>

(* ... and the flush.                                                      *)
RetryWrite ==
    /\ retry.loaded # Nobody
    /\ \E touched \in BOOLEAN :
           Flush(retry.now, retry.loaded,
                 [retry.loaded EXCEPT !.status = "REFUNDED"], touched)
    /\ retry' = [retry EXCEPT !.now = Nobody, !.loaded = Nobody]
    /\ UNCHANGED <<booking, pg, job, faults>>

(* The process dies; or only the write fails, and the loop goes on.        *)
RetryFails ==
    /\ retry # NoRun
    /\ Fault("crash")
    /\ \/ retry' = NoRun
       \/ /\ retry.now # Nobody
          /\ retry' = [retry EXCEPT !.now = Nobody, !.loaded = Nobody]
    /\ UNCHANGED <<booking, payment, pg, job>>

-----------------------------------------------------------------------------
WorkerStep(w) ==
    \/ LoadRow(w)
    \/ CapturePG(w) \/ WriteFailed(w) \/ WriteApproved(w)
    \/ ConfirmReservation(w) \/ ConfirmAnswered(w)
    \/ CancelPG(w) \/ WriteRefunded(w) \/ WriteCancelFailed(w)

RetryStep ==
    \/ RetryStart \/ RetryLoad \/ RetryWrite
    \/ \E p \in Payments : RetryCancel(p)

Next ==
    \/ \E r \in Reservations :
           ReservationLapses(r) \/ ReservationCancelled(r) \/ ConfirmGoesOn(r)
    \/ \E p \in Payments :
           \/ \E r \in Reservations : RequestPayment(p, r)
           \/ InsertPayment(p)
    \/ \E w \in Workers :
           \/ \E p \in Payments : ReadReady(w, p) \/ ReadApproved(w, p)
           \/ WorkerStep(w) \/ WorkerDies(w)
    \/ RetryStep \/ RetryFails

Spec == Init /\ [][Next]_vars

(* A thread that serves a request goes on, and the scheduler runs every    *)
(* five minutes (@Scheduled, @EnableScheduling).  Nobody is obliged to     *)
(* send a request.                                                         *)
FairSpec ==
    /\ Spec
    /\ \A w \in Workers : WF_vars(WorkerStep(w))
    /\ WF_vars(RetryStep)

-----------------------------------------------------------------------------
(* Properties.                                                             *)

\* However many requests, confirms and retries there are for a reservation, its
\* customer is charged on at most one order (existsByReservationId and
\* uk_reservation_id; an order is captured at most once by the PG).
ChargedOnce ==
    \A p, q \in Payments :
        /\ pg[p] # "none" /\ pg[q] # "none"
        /\ ReservationOf(p) = ReservationOf(q)
        => p = q

\* REFUNDED is never written before the PG has returned the money, by any of
\* the threads and the scheduler that may be refunding the same payment
\* (initiateRefund, retryCancel).
RefundedIsReturned ==
    \A p \in Payments : payment[p].status = "REFUNDED" => pg[p] = "canceled"

\* A reservation is confirmed only after its customer has been charged
\* (confirmPayment: capture, approve, then confirmReservation).
ConfirmedWasCharged ==
    \A r \in Reservations :
        reservation[r] = "CONFIRMED" =>
            \E p \in Payments : ReservationOf(p) = r /\ pg[p] # "none"

Booked(p) ==
    \E r \in Reservations : ReservationOf(p) = r /\ reservation[r] = "CONFIRMED"

InFlight(p) == (\E w \in Workers : Of(w) = p) \/ retry.now = p

Agrees(p) ==
    /\ (pg[p] = "done") = (payment[p].status \in {"APPROVED", "CANCEL_FAILED"})
    /\ (pg[p] = "canceled") = (payment[p].status = "REFUNDED")
    /\ payment[p].status = "APPROVED" => Booked(p)

-----------------------------------------------------------------------------
(* What the documents and comments say, and the code does not keep.        *)

\* payment-saga.md, failure matrix: a payment that the PG declined is FAILED
\* and nothing was debited.
FailedIsNotCharged ==
    \A p \in Payments : payment[p].status = "FAILED" => pg[p] = "none"

\* CancelFailedRetryScheduler: without a limit on the retries, a CANCEL_FAILED
\* payment becomes REFUNDED some time after the PG has recovered.
RetryRecovers ==
    \A p \in Payments :
        payment[p].status = "CANCEL_FAILED" ~> payment[p].status = "REFUNDED"

\* docs/observability: the paymentKey of a CANCEL_FAILED payment, with which its
\* refund is made, is looked up in its row.
RetryHasKey ==
    \A p \in CancelFailed : payment[p].key
=============================================================================
