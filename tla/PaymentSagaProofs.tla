------------------------- MODULE PaymentSagaProofs --------------------------
(***************************************************************************)
(* What PaymentSaga guarantees about money for any number of reservations, *)
(* payments, threads and faults of every kind.                             *)
(*                                                                         *)
(* The writes of PaymentWriter do not look at the status they replace, and *)
(* may put old columns back.  What makes them safe all the same is what a  *)
(* thread knows when it writes: a row stays a row, the PG never goes back  *)
(* from "done" or "canceled", and uk_reservation_id keeps rows apart.  The *)
(* inductive invariant says, for each phase of a thread and of the         *)
(* scheduler, which of these facts have been established.                  *)
(*                                                                         *)
(* The second part is about the table and the PG, when calls may only fail *)
(* to arrive, and about the history of MCPaymentLedger.                    *)
(***************************************************************************)
EXTENDS MCPaymentLedger, TLAPS

USE DEF booking, Desk!TypeOK

IsRow(p) == payment[p].status \in Rows

\* Rows name a reservation, and two rows never the same one.
RowsApart ==
    /\ \A p \in Payments :
           IsRow(p) \/ payment[p].status = "CHECKED" => ReservationOf(p) \in Reservations
    /\ \A p, q \in Payments :
           IsRow(p) /\ IsRow(q) /\ ReservationOf(p) = ReservationOf(q) => p = q

\* What the table and the PG say about each other.
RowsTellPG ==
    \A p \in Payments :
        /\ pg[p] # "none" => IsRow(p)
        /\ payment[p].status = "REFUNDED" => pg[p] = "canceled"

\* What a thread knows in each of its phases.
Knows(w) ==
    LET p == Of(w) IN
    /\ job[w].phase # "idle" => p \in Payments /\ IsRow(p)
    /\ job[w].phase \in {"captured", "approved"} => pg[p] # "none"
    /\ job[w].phase = "refunded" => pg[p] = "canceled"

JobsKnow == \A w \in Workers : Knows(w)

\* What the scheduler knows.
RetryKnows ==
    /\ retry.now # Nobody => retry.now \in Payments /\ pg[retry.now] = "canceled"
    /\ retry.loaded # Nobody => retry.now # Nobody

\* A reservation is CONFIRMED, or has a confirm under way, only for a charge.
SeatsArePaid ==
    \A r \in Reservations :
        reservation[r] = "CONFIRMED" \/ r \in accepted =>
            \E p \in Payments : ReservationOf(p) = r /\ pg[p] # "none"

IInv == /\ TypeOK /\ RowsApart /\ RowsTellPG /\ JobsKnow /\ RetryKnows
        /\ SeatsArePaid

-----------------------------------------------------------------------------
LEMMA InitIInv == Init => IInv
BY NobodyAssumption, FaultAssumption DEF Init, IInv, TypeOK, RowsApart, RowsTellPG,
   JobsKnow, Knows, RetryKnows, SeatsArePaid, IsRow, Rows, ReservationOf, Of, Idle, NoRun,
   PaymentStatus, PGStatus, JobPhases, Loaded, Desk!TypeOK, Desk!Status, Desk!Open

LEMMA FaultType ==
    ASSUME faults \in 0 .. MaxFaults, NEW kind, Fault(kind)
    PROVE  faults' \in 0 .. MaxFaults
BY FaultAssumption DEF Fault

\* The work of a thread stays in shape when it goes on or ends.
LEMMA JobType ==
    ASSUME TypeOK, NEW w \in Workers,
           EndJob(w) \/ \E phase \in JobPhases : JobTo(w, phase)
    PROVE  job' \in [Workers -> [phase : JobPhases, payment : Payments \cup {Nobody},
                                loaded : Loaded]]
<1> DEFINE Job == [phase : JobPhases, payment : Payments \cup {Nobody}, loaded : Loaded]
<1>1. Nobody \in Loaded
    BY DEF Loaded
<1>2. Idle \in Job
    BY <1>1 DEF Idle, JobPhases
<1>3. CASE EndJob(w)
    BY <1>2, <1>3 DEF TypeOK, EndJob
<1>4. ASSUME NEW phase \in JobPhases, JobTo(w, phase)
      PROVE  job' \in [Workers -> Job]
    BY <1>1, <1>4 DEF TypeOK, JobTo
<1> QED
    BY <1>3, <1>4

\* What threads and the scheduler know is never taken back.
Grows ==
    \A q \in Payments :
        /\ IsRow(q) => IsRow(q)'
        /\ pg[q] # "none" => pg'[q] # "none"
        /\ pg[q] = "canceled" => pg'[q] = "canceled"

\* A flush by somebody who knows what the new status says of the PG leaves the
\* table in order, whatever was loaded.
LEMMA Flushed ==
    ASSUME IInv, NEW p \in Payments, IsRow(p), NEW loaded, NEW touched,
           NEW new \in [status : Rows, key : BOOLEAN], Flush(p, loaded, new, touched),
           new.status = "REFUNDED" => pg[p] = "canceled",
           UNCHANGED <<booking, pg>>
    PROVE  /\ payment' \in [Payments -> [status : PaymentStatus,
                                         reservation : Reservations \cup {Nobody},
                                         key : BOOLEAN]]
           /\ RowsApart' /\ RowsTellPG' /\ SeatsArePaid' /\ Grows
<1>1. CASE UNCHANGED payment
    BY <1>1 DEF IInv, TypeOK, RowsApart, RowsTellPG, SeatsArePaid, Grows, IsRow,
       ReservationOf
<1>2. CASE payment' = [payment EXCEPT ![p].status = new.status, ![p].key = new.key]
    <2>1. /\ payment'[p].status = new.status
          /\ payment'[p].reservation = payment[p].reservation
          /\ \A q \in Payments : q # p => payment'[q] = payment[q]
          /\ payment' \in [Payments -> [status : PaymentStatus,
                                        reservation : Reservations \cup {Nobody},
                                        key : BOOLEAN]]
        BY <1>2 DEF IInv, TypeOK, Rows, PaymentStatus
    <2>2. \A q \in Payments : ReservationOf(q)' = ReservationOf(q) /\ IsRow(q)' = IsRow(q)
        BY <2>1 DEF IsRow, ReservationOf
    <2>3. RowsApart'
        <3>1. \A q \in Payments :
                  payment'[q].status = "CHECKED" => payment[q].status = "CHECKED"
            BY <2>1 DEF Rows
        <3> QED
            BY <2>2, <3>1 DEF IInv, RowsApart
    <2>4. RowsTellPG' /\ Grows
        BY <2>1, <2>2 DEF IInv, RowsTellPG, Grows
    <2>5. SeatsArePaid'
        BY <2>2 DEF IInv, SeatsArePaid
    <2> QED
        BY <2>1, <2>3, <2>4, <2>5
<1> QED
    BY <1>1, <1>2 DEF Flush

\* Nor does a step of the PG, which takes the money of a row or returns it.
PGStep ==
    /\ \A q \in Payments : \/ pg'[q] = pg[q]
                           \/ IsRow(q) /\ pg[q] = "none" /\ pg'[q] = "done"
                           \/ pg[q] = "done" /\ pg'[q] = "canceled"
    /\ UNCHANGED <<booking, payment>>

LEMMA PGStepped ==
    ASSUME IInv, PGStep
    PROVE  RowsApart' /\ RowsTellPG' /\ SeatsArePaid' /\ Grows
<1>1. RowsApart'
    BY DEF IInv, RowsApart, IsRow, ReservationOf, PGStep
<1>2. RowsTellPG' /\ Grows
    BY DEF IInv, RowsTellPG, Grows, IsRow, PGStep
<1>3. SeatsArePaid'
    BY DEF IInv, SeatsArePaid, ReservationOf, PGStep
<1> QED
    BY <1>1, <1>2, <1>3

LEMMA OthersKnow ==
    ASSUME IInv, Grows, NEW w \in Workers, Knows(w)',
           \A v \in Workers : v # w => job'[v] = job[v]
    PROVE  JobsKnow'
<1>1. ASSUME NEW v \in Workers, v # w
      PROVE  Knows(v)'
    <2>1. job'[v] = job[v] /\ Of(v)' = Of(v) /\ Knows(v)
        BY <1>1 DEF IInv, JobsKnow, Of
    <2> QED
        BY <2>1 DEF IInv, TypeOK, Knows, Grows
<1> QED
    BY <1>1 DEF JobsKnow

LEMMA AllStillKnow ==
    ASSUME IInv, Grows, UNCHANGED job
    PROVE  JobsKnow'
<1>1. ASSUME NEW v \in Workers
      PROVE  Knows(v)'
    <2>1. job'[v] = job[v] /\ Of(v)' = Of(v) /\ Knows(v)
        BY DEF IInv, JobsKnow, Of
    <2> QED
        BY <2>1 DEF IInv, TypeOK, Knows, Grows
<1> QED
    BY <1>1 DEF JobsKnow

LEMMA RetryStillKnows ==
    ASSUME IInv, Grows, UNCHANGED retry
    PROVE  RetryKnows'
BY DEF IInv, RetryKnows, Grows

(* The desk.                                                               *)

LEMMA DeskType ==
    ASSUME Desk!TypeOK, NEW r \in Reservations,
           \/ Desk!Lapse(r) \/ Desk!Cancel(r)
           \/ Desk!Accept(r) \/ Desk!Refuse(r) \/ Desk!Confirm(r)
    PROVE  /\ Desk!TypeOK'
           /\ \A x \in Reservations :
                  \/ reservation'[x] = reservation[x]
                  \/ reservation[x] # "CONFIRMED" /\ reservation'[x] # "CONFIRMED"
                  \/ x = r /\ r \in accepted
           /\ accepted' \ accepted \subseteq {r}
<1> USE DEF Desk!TypeOK, Desk!Status, Desk!Open, Desk!Change
<1>1. CASE Desk!Lapse(r) \/ Desk!Cancel(r)
    BY <1>1 DEF Desk!Lapse, Desk!Cancel
<1>2. CASE Desk!Accept(r) \/ Desk!Refuse(r)
    BY <1>2 DEF Desk!Accept, Desk!Refuse
<1>3. CASE Desk!Confirm(r)
    BY <1>3 DEF Desk!Confirm
<1> QED
    BY <1>1, <1>2, <1>3

\* What a step of the desk on r leaves as it was, and what it needs.
LEMMA DeskStepped ==
    ASSUME IInv, NEW r \in Reservations,
           \/ Desk!Lapse(r) \/ Desk!Cancel(r)
           \/ Desk!Accept(r) \/ Desk!Refuse(r) \/ Desk!Confirm(r),
           \/ accepted' \subseteq accepted
           \/ \E p \in Payments : ReservationOf(p) = r /\ pg[p] # "none",
           UNCHANGED <<payment, pg>>
    PROVE  Desk!TypeOK' /\ RowsApart' /\ RowsTellPG' /\ SeatsArePaid' /\ Grows
<1>1. Desk!TypeOK' /\ \A x \in Reservations : ReservationOf(x)' = ReservationOf(x)
    BY DeskType DEF IInv, TypeOK, ReservationOf
<1>2. RowsApart' /\ RowsTellPG' /\ Grows
    BY DEF IInv, RowsApart, RowsTellPG, Grows, IsRow, ReservationOf
<1>3. \A x \in accepted' :
          x \in accepted \/ \E p \in Payments : ReservationOf(p) = x /\ pg[p] # "none"
    BY DeskType DEF IInv, TypeOK
<1>4. \A x \in Reservations :
          reservation'[x] = "CONFIRMED" => reservation[x] = "CONFIRMED" \/ x \in accepted
    BY DeskType DEF IInv, TypeOK
<1>5. SeatsArePaid'
    BY <1>3, <1>4 DEF IInv, SeatsArePaid, ReservationOf
<1> QED
    BY <1>1, <1>2, <1>5

LEMMA BookingIInv ==
    ASSUME IInv, NEW r \in Reservations,
           ReservationLapses(r) \/ ReservationCancelled(r) \/ ConfirmGoesOn(r)
    PROVE  IInv'
<1>1. /\ Desk!Lapse(r) \/ Desk!Cancel(r) \/ Desk!Refuse(r) \/ Desk!Confirm(r)
      /\ UNCHANGED <<payment, pg, job, retry, faults>>
    BY DEF ReservationLapses, ReservationCancelled, ConfirmGoesOn
<1>2. accepted' \subseteq accepted
    BY <1>1 DEF Desk!Lapse, Desk!Cancel, Desk!Refuse, Desk!Confirm
<1>3. Desk!TypeOK' /\ RowsApart' /\ RowsTellPG' /\ SeatsArePaid' /\ Grows
    BY <1>1, <1>2, DeskStepped
<1>4. TypeOK'
    BY <1>1, <1>3 DEF IInv, TypeOK
<1>5. JobsKnow' /\ RetryKnows'
    BY <1>1, <1>3, AllStillKnow, RetryStillKnows
<1> QED
    BY <1>3, <1>4, <1>5 DEF IInv

LEMMA RequestIInv ==
    ASSUME IInv, NEW p \in Payments, NEW r \in Reservations, RequestPayment(p, r)
    PROVE  IInv'
<1>1. TypeOK'
    BY DEF IInv, TypeOK, RequestPayment, PaymentStatus
<1>2. /\ ~IsRow(p) /\ ~IsRow(p)' /\ pg[p] = "none"
      /\ payment'[p].status = "CHECKED" /\ ReservationOf(p)' = r
      /\ \A q \in Payments : q # p => payment'[q] = payment[q]
    BY DEF IInv, TypeOK, RequestPayment, IsRow, Rows, RowsTellPG, ReservationOf
<1>3. RowsApart'
    BY <1>2 DEF IInv, RowsApart, IsRow, ReservationOf
<1>4. RowsTellPG'
    BY <1>2 DEF IInv, RowsTellPG, RequestPayment, IsRow
<1>5. \A q \in Payments : IsRow(q) => payment'[q] = payment[q]
    BY <1>2
<1>6. Grows
    BY <1>5 DEF Grows, RequestPayment, IsRow
<1>7. JobsKnow' /\ RetryKnows'
    BY <1>6, AllStillKnow, RetryStillKnows DEF RequestPayment
<1>8. SeatsArePaid'
    BY <1>2 DEF IInv, SeatsArePaid, RequestPayment, ReservationOf
<1> QED
    BY <1>1, <1>3, <1>4, <1>7, <1>8 DEF IInv

LEMMA InsertIInv ==
    ASSUME IInv, NEW p \in Payments, InsertPayment(p)
    PROVE  IInv'
<1>1. TypeOK'
    BY DEF IInv, TypeOK, InsertPayment, SetStatus, PaymentStatus
<1>2. /\ ~IsRow(p) /\ pg[p] = "none"
      /\ ReservationOf(p) \in Reservations
      /\ payment'[p].status \in {"REJECTED", "READY"}
      /\ \A q \in Payments : q # p => payment'[q] = payment[q]
      /\ \A q \in Payments : ReservationOf(q)' = ReservationOf(q)
    <2>1. /\ payment'[p].status \in {"REJECTED", "READY"}
          /\ \A q \in Payments : q # p => payment'[q] = payment[q]
          /\ \A q \in Payments : payment'[q].reservation = payment[q].reservation
        BY DEF IInv, TypeOK, InsertPayment, SetStatus
    <2>2. ~IsRow(p)
        BY DEF InsertPayment, IsRow, Rows
    <2>3. pg[p] = "none" /\ ReservationOf(p) \in Reservations
        BY <2>2 DEF IInv, RowsTellPG, RowsApart, InsertPayment
    <2> QED
        BY <2>1, <2>2, <2>3 DEF ReservationOf
<1>3. RowsApart'
    <2>1. IsRow(p)' => \A q \in Payments : IsRow(q) => ReservationOf(q) # ReservationOf(p)
        BY DEF IInv, TypeOK, InsertPayment, SetStatus, IsRow, Rows
    <2>2. \A q \in Payments : q # p => (IsRow(q)' = IsRow(q))
        BY <1>2 DEF IsRow
    <2>3. ASSUME NEW x \in Payments, NEW y \in Payments, IsRow(x)', IsRow(y)',
                 ReservationOf(x) = ReservationOf(y)
          PROVE  x = y
        BY <2>1, <2>2, <2>3 DEF IInv, RowsApart
    <2>4. \A q \in Payments :
              IsRow(q)' \/ payment'[q].status = "CHECKED" => ReservationOf(q) \in Reservations
        BY <1>2 DEF IInv, RowsApart, IsRow
    <2> QED
        BY <1>2, <2>3, <2>4 DEF RowsApart
<1>4. RowsTellPG'
    BY <1>2 DEF IInv, RowsTellPG, InsertPayment, IsRow
<1>5. \A q \in Payments : IsRow(q) => payment'[q] = payment[q]
    BY <1>2
<1>6. Grows
    BY <1>5 DEF Grows, InsertPayment, IsRow
<1>7. JobsKnow' /\ RetryKnows'
    BY <1>6, AllStillKnow, RetryStillKnows DEF InsertPayment
<1>8. SeatsArePaid'
    BY <1>2 DEF IInv, SeatsArePaid, InsertPayment
<1> QED
    BY <1>1, <1>3, <1>4, <1>7, <1>8 DEF IInv

LEMMA ReadIInv ==
    ASSUME IInv, NEW w \in Workers, NEW p \in Payments, ReadReady(w, p) \/ ReadApproved(w, p)
    PROVE  IInv'
<1>1. TypeOK'
    BY DEF IInv, TypeOK, ReadReady, ReadApproved, JobPhases, Loaded
<1>2. RowsApart' /\ RowsTellPG' /\ SeatsArePaid' /\ Grows
    BY DEF IInv, RowsApart, RowsTellPG, SeatsArePaid, Grows, IsRow, ReservationOf,
       ReadReady, ReadApproved
<1>3. JobsKnow'
    <2>1. \A v \in Workers : v # w => job'[v] = job[v]
        BY DEF IInv, TypeOK, ReadReady, ReadApproved
    <2>2. Knows(w)'
        BY DEF IInv, TypeOK, Knows, Of, IsRow, Rows, ReadReady, ReadApproved
    <2> QED
        BY <1>2, <2>1, <2>2, OthersKnow
<1>4. RetryKnows'
    BY <1>2, RetryStillKnows DEF ReadReady, ReadApproved
<1> QED
    BY <1>1, <1>2, <1>3, <1>4 DEF IInv

LEMMA LoadRowIInv ==
    ASSUME IInv, NEW w \in Workers, LoadRow(w)
    PROVE  IInv'
<1>1. TypeOK'
    <2>1. Of(w) \in Payments /\ IsRow(Of(w))
        BY DEF IInv, JobsKnow, Knows, LoadRow
    <2>2. Columns(Of(w)) \in Loaded
        BY <2>1 DEF IInv, TypeOK, IsRow, Columns, Loaded
    <2> QED
        BY <2>2 DEF IInv, TypeOK, LoadRow
<1>2. RowsApart' /\ RowsTellPG' /\ SeatsArePaid' /\ Grows
    BY DEF IInv, RowsApart, RowsTellPG, SeatsArePaid, Grows, IsRow, ReservationOf,
       LoadRow
<1>3. JobsKnow'
    <2>1. \A v \in Workers : v # w => job'[v] = job[v]
        BY DEF IInv, TypeOK, LoadRow
    <2>2. job'[w].phase = job[w].phase /\ job'[w].payment = job[w].payment
        BY DEF IInv, TypeOK, LoadRow
    <2>3. Knows(w)'
        BY <2>2 DEF IInv, JobsKnow, Knows, Of, IsRow, LoadRow
    <2> QED
        BY <1>2, <2>1, <2>3, OthersKnow
<1>4. RetryKnows'
    BY <1>2, RetryStillKnows DEF LoadRow
<1> QED
    BY <1>1, <1>2, <1>3, <1>4 DEF IInv

LEMMA CapturePGIInv ==
    ASSUME IInv, NEW w \in Workers, CapturePG(w)
    PROVE  IInv'
<1>1. TypeOK'
    <2>1. job' \in [Workers -> [phase : JobPhases, payment : Payments \cup {Nobody},
                               loaded : Loaded]]
        BY JobType DEF IInv, CapturePG, JobPhases
    <2>2. pg' \in [Payments -> PGStatus] /\ faults' \in 0 .. MaxFaults
        BY FaultType DEF IInv, TypeOK, CapturePG, Call, Moves, PGStatus
    <2> QED
        BY <2>1, <2>2 DEF IInv, TypeOK, CapturePG
<1>2. RowsApart' /\ RowsTellPG' /\ SeatsArePaid' /\ Grows
    <2>1. PGStep
        BY DEF IInv, TypeOK, JobsKnow, Knows, CapturePG, Call, Moves, PGStep
    <2> QED
        BY <2>1, PGStepped
<1>3. JobsKnow'
    <2>1. \A v \in Workers : v # w => job'[v] = job[v]
        BY DEF IInv, TypeOK, CapturePG, Call, Moves, JobTo
    <2>2. Knows(w)'
        BY <1>2 DEF IInv, TypeOK, JobsKnow, Knows, Grows, Of, CapturePG, Call, Moves, JobTo
    <2> QED
        BY <1>2, <2>1, <2>2, OthersKnow
<1>4. RetryKnows'
    BY <1>2, RetryStillKnows DEF CapturePG
<1> QED
    BY <1>1, <1>2, <1>3, <1>4 DEF IInv

LEMMA WriteFailedIInv ==
    ASSUME IInv, NEW w \in Workers, WriteFailed(w)
    PROVE  IInv'
<1> DEFINE New == [job[w].loaded EXCEPT !.status = "FAILED"]
<1>1. /\ Of(w) \in Payments /\ IsRow(Of(w))
      /\ New \in [status : Rows, key : BOOLEAN] /\ New.status = "FAILED"
      /\ \E touched \in BOOLEAN : Flush(Of(w), job[w].loaded, New, touched)
    BY DEF IInv, TypeOK, JobsKnow, Knows, WriteFailed, Loaded, Rows
<1>2. /\ payment' \in [Payments -> [status : PaymentStatus,
                                    reservation : Reservations \cup {Nobody},
                                    key : BOOLEAN]]
      /\ RowsApart' /\ RowsTellPG' /\ SeatsArePaid' /\ Grows
    <2> HIDE DEF New
    <2> QED
        BY <1>1, Flushed DEF WriteFailed
<1>3. TypeOK'
    BY <1>2 DEF IInv, TypeOK, WriteFailed, EndJob, Idle, JobPhases, Loaded
<1>4. JobsKnow'
    <2>1. \A v \in Workers : v # w => job'[v] = job[v]
        BY DEF IInv, TypeOK, WriteFailed, EndJob, Idle
    <2>2. Knows(w)'
        BY <1>1, <1>2 DEF IInv, TypeOK, JobsKnow, Knows, Grows, Of, WriteFailed, EndJob, Idle
    <2> QED
        BY <1>2, <2>1, <2>2, OthersKnow
<1>5. RetryKnows'
    BY <1>2, RetryStillKnows DEF WriteFailed
<1> QED
    BY <1>2, <1>3, <1>4, <1>5 DEF IInv

LEMMA WriteApprovedIInv ==
    ASSUME IInv, NEW w \in Workers, WriteApproved(w)
    PROVE  IInv'
<1> DEFINE New == [status |-> "APPROVED", key |-> TRUE]
<1>1. /\ Of(w) \in Payments /\ IsRow(Of(w))
      /\ New \in [status : Rows, key : BOOLEAN] /\ New.status = "APPROVED"
      /\ Flush(Of(w), job[w].loaded, New, TRUE)
    BY DEF IInv, TypeOK, JobsKnow, Knows, WriteApproved, Loaded, Rows
<1>2. /\ payment' \in [Payments -> [status : PaymentStatus,
                                    reservation : Reservations \cup {Nobody},
                                    key : BOOLEAN]]
      /\ RowsApart' /\ RowsTellPG' /\ SeatsArePaid' /\ Grows
    <2> HIDE DEF New
    <2> QED
        BY <1>1, Flushed DEF WriteApproved
<1>3. TypeOK'
    BY <1>2 DEF IInv, TypeOK, WriteApproved, JobTo, JobPhases, Loaded
<1>4. JobsKnow'
    <2>1. \A v \in Workers : v # w => job'[v] = job[v]
        BY DEF IInv, TypeOK, WriteApproved, JobTo
    <2>2. Knows(w)'
        BY <1>1, <1>2 DEF IInv, TypeOK, JobsKnow, Knows, Grows, Of, WriteApproved, JobTo
    <2> QED
        BY <1>2, <2>1, <2>2, OthersKnow
<1>5. RetryKnows'
    BY <1>2, RetryStillKnows DEF WriteApproved
<1> QED
    BY <1>2, <1>3, <1>4, <1>5 DEF IInv

LEMMA ConfirmIInv ==
    ASSUME IInv, NEW w \in Workers, ConfirmReservation(w) \/ ConfirmAnswered(w)
    PROVE  IInv'
<1> DEFINE r == ReservationOf(Of(w))
<1>1. /\ r \in Reservations /\ Of(w) \in Payments /\ IsRow(Of(w))
      /\ job[w].phase = "approved" => pg[Of(w)] # "none"
    BY DEF IInv, JobsKnow, Knows, RowsApart, ConfirmReservation, ConfirmAnswered
<1>2. UNCHANGED <<payment, pg, retry>>
    BY DEF ConfirmReservation, ConfirmAnswered
<1>3. Desk!TypeOK' /\ RowsApart' /\ RowsTellPG' /\ SeatsArePaid' /\ Grows
    <2>1. CASE UNCHANGED booking
        BY <1>2, <2>1 DEF IInv, TypeOK, RowsApart, RowsTellPG, SeatsArePaid, Grows, IsRow,
           ReservationOf, booking, Desk!TypeOK
    <2>2. CASE job[w].phase = "approved" /\ Desk!Accept(r)
        BY <1>1, <1>2, <2>2, DeskStepped
    <2>3. CASE Desk!Refuse(r) \/ Desk!Confirm(r)
        <3>1. accepted' \subseteq accepted
            BY <2>3 DEF Desk!Refuse, Desk!Confirm
        <3> QED
            BY <1>1, <1>2, <2>3, <3>1, DeskStepped
    <2> QED
        BY <2>1, <2>2, <2>3 DEF ConfirmReservation, ConfirmAnswered
<1>4. TypeOK'
    <2>1. job' \in [Workers -> [phase : JobPhases, payment : Payments \cup {Nobody},
                               loaded : Loaded]]
        BY JobType DEF IInv, ConfirmReservation, ConfirmAnswered, JobPhases
    <2>2. faults' \in 0 .. MaxFaults
        BY FaultType DEF IInv, TypeOK, ConfirmReservation, ConfirmAnswered
    <2> QED
        BY <1>2, <1>3, <2>1, <2>2 DEF IInv, TypeOK
<1>5. JobsKnow'
    <2>1. \A v \in Workers : v # w => job'[v] = job[v]
        BY DEF IInv, TypeOK, ConfirmReservation, ConfirmAnswered, JobTo, EndJob
    <2>2. \/ job'[w] = Idle
          \/ /\ job'[w].phase \in {"confirming", "refund"}
             /\ job'[w].payment = job[w].payment
        BY DEF IInv, TypeOK, ConfirmReservation, ConfirmAnswered, JobTo, EndJob
    <2>3. Knows(w)'
        BY <1>1, <1>3, <2>2 DEF Knows, Grows, Idle, Of
    <2> QED
        BY <1>3, <2>1, <2>3, OthersKnow
<1>6. RetryKnows'
    BY <1>2, <1>3, RetryStillKnows
<1> QED
    BY <1>3, <1>4, <1>5, <1>6 DEF IInv

LEMMA CancelPGIInv ==
    ASSUME IInv, NEW w \in Workers, CancelPG(w)
    PROVE  IInv'
<1>1. TypeOK'
    <2>1. job' \in [Workers -> [phase : JobPhases, payment : Payments \cup {Nobody},
                               loaded : Loaded]]
        BY JobType DEF IInv, CancelPG, JobPhases
    <2>2. pg' \in [Payments -> PGStatus] /\ faults' \in 0 .. MaxFaults
        BY FaultType DEF IInv, TypeOK, CancelPG, Call, Moves, PGStatus
    <2> QED
        BY <2>1, <2>2 DEF IInv, TypeOK, CancelPG
<1>2. RowsApart' /\ RowsTellPG' /\ SeatsArePaid' /\ Grows
    <2>1. PGStep
        BY DEF IInv, TypeOK, JobsKnow, Knows, CancelPG, Call, Moves, PGStep
    <2> QED
        BY <2>1, PGStepped
<1>3. JobsKnow'
    <2>1. \A v \in Workers : v # w => job'[v] = job[v]
        BY DEF IInv, TypeOK, CancelPG, Call, Moves, JobTo
    <2>2. Knows(w)'
        BY <1>2 DEF IInv, TypeOK, JobsKnow, Knows, Grows, Of, CancelPG, Call, Moves, JobTo
    <2> QED
        BY <1>2, <2>1, <2>2, OthersKnow
<1>4. RetryKnows'
    BY <1>2, RetryStillKnows DEF CancelPG
<1> QED
    BY <1>1, <1>2, <1>3, <1>4 DEF IInv

LEMMA WriteRefundedIInv ==
    ASSUME IInv, NEW w \in Workers, WriteRefunded(w)
    PROVE  IInv'
<1> DEFINE New == [job[w].loaded EXCEPT !.status = "REFUNDED"]
<1>1. Of(w) \in Payments /\ IsRow(Of(w)) /\ pg[Of(w)] = "canceled"
    BY DEF IInv, JobsKnow, Knows, WriteRefunded
<1>2. /\ payment' \in [Payments -> [status : PaymentStatus,
                                    reservation : Reservations \cup {Nobody},
                                    key : BOOLEAN]]
      /\ RowsApart' /\ RowsTellPG' /\ SeatsArePaid' /\ Grows
    <2>1. CASE UNCHANGED payment
        BY <2>1 DEF IInv, TypeOK, RowsApart, RowsTellPG, SeatsArePaid, Grows, IsRow,
           ReservationOf, WriteRefunded
    <2>2. CASE /\ job[w].loaded # Nobody
               /\ \E touched \in BOOLEAN : Flush(Of(w), job[w].loaded, New, touched)
        <3>1. New \in [status : Rows, key : BOOLEAN]
            BY <2>2 DEF IInv, TypeOK, Loaded, Rows
        <3> HIDE DEF New
        <3> QED
            BY <1>1, <2>2, <3>1, Flushed DEF WriteRefunded
    <2> QED
        BY <2>1, <2>2 DEF WriteRefunded
<1>3. TypeOK'
    BY <1>2, FaultType DEF IInv, TypeOK, WriteRefunded, JobTo, EndJob, Idle, JobPhases, Loaded
<1>4. JobsKnow'
    <2>1. \A v \in Workers : v # w => job'[v] = job[v]
        BY DEF IInv, TypeOK, WriteRefunded, JobTo, EndJob, Idle
    <2>2. Knows(w)'
        BY <1>1, <1>2 DEF IInv, TypeOK, JobsKnow, Knows, Grows, Of, WriteRefunded, JobTo,
           EndJob, Idle
    <2> QED
        BY <1>2, <2>1, <2>2, OthersKnow
<1>5. RetryKnows'
    BY <1>2, RetryStillKnows DEF WriteRefunded
<1> QED
    BY <1>2, <1>3, <1>4, <1>5 DEF IInv

LEMMA WriteCancelFailedIInv ==
    ASSUME IInv, NEW w \in Workers, WriteCancelFailed(w)
    PROVE  IInv'
<1> DEFINE New == [job[w].loaded EXCEPT !.status = "CANCEL_FAILED"]
<1>1. /\ Of(w) \in Payments /\ IsRow(Of(w))
      /\ New \in [status : Rows, key : BOOLEAN] /\ New.status = "CANCEL_FAILED"
      /\ Flush(Of(w), job[w].loaded, New, FALSE)
    BY DEF IInv, TypeOK, JobsKnow, Knows, WriteCancelFailed, Loaded, Rows
<1>2. /\ payment' \in [Payments -> [status : PaymentStatus,
                                    reservation : Reservations \cup {Nobody},
                                    key : BOOLEAN]]
      /\ RowsApart' /\ RowsTellPG' /\ SeatsArePaid' /\ Grows
    <2> HIDE DEF New
    <2> QED
        BY <1>1, Flushed DEF WriteCancelFailed
<1>3. TypeOK'
    BY <1>2 DEF IInv, TypeOK, WriteCancelFailed, EndJob, Idle, JobPhases, Loaded
<1>4. JobsKnow'
    <2>1. \A v \in Workers : v # w => job'[v] = job[v]
        BY DEF IInv, TypeOK, WriteCancelFailed, EndJob, Idle
    <2>2. Knows(w)'
        BY <1>1, <1>2 DEF IInv, TypeOK, JobsKnow, Knows, Grows, Of, WriteCancelFailed, EndJob, Idle
    <2> QED
        BY <1>2, <2>1, <2>2, OthersKnow
<1>5. RetryKnows'
    BY <1>2, RetryStillKnows DEF WriteCancelFailed
<1> QED
    BY <1>2, <1>3, <1>4, <1>5 DEF IInv

LEMMA WorkerDiesIInv ==
    ASSUME IInv, NEW w \in Workers, WorkerDies(w)
    PROVE  IInv'
<1>1. TypeOK'
    BY FaultType DEF IInv, TypeOK, WorkerDies, EndJob, Idle, JobPhases, Loaded
<1>2. RowsApart' /\ RowsTellPG' /\ SeatsArePaid' /\ Grows
    BY DEF IInv, RowsApart, RowsTellPG, SeatsArePaid, Grows, IsRow, ReservationOf,
       WorkerDies
<1>3. JobsKnow'
    <2>1. \A v \in Workers : v # w => job'[v] = job[v]
        BY DEF IInv, TypeOK, WorkerDies, EndJob, Idle
    <2>2. Knows(w)'
        BY <1>2 DEF IInv, TypeOK, JobsKnow, Knows, Grows, Of, WorkerDies, EndJob, Idle
    <2> QED
        BY <1>2, <2>1, <2>2, OthersKnow
<1>4. RetryKnows'
    BY <1>2, RetryStillKnows DEF WorkerDies
<1> QED
    BY <1>1, <1>2, <1>3, <1>4 DEF IInv

LEMMA RetryStartIInv ==
    ASSUME IInv, RetryStart
    PROVE  IInv'
BY DEF IInv, TypeOK, RowsApart, RowsTellPG, JobsKnow, Knows, RetryKnows, SeatsArePaid,
   IsRow, Rows, ReservationOf, Of, RetryStart, CancelFailed, NoRun, Loaded

LEMMA RetryCancelIInv ==
    ASSUME IInv, NEW p \in Payments, RetryCancel(p)
    PROVE  IInv'
<1>1. TypeOK'
    <2>1. pg' \in [Payments -> PGStatus] /\ faults' \in 0 .. MaxFaults
        BY FaultType DEF IInv, TypeOK, RetryCancel, Call, Moves, PGStatus
    <2>2. retry' \in [todo : SUBSET Payments, now : Payments \cup {Nobody}, loaded : Loaded]
        BY DEF IInv, TypeOK, RetryCancel
    <2> QED
        BY <2>1, <2>2 DEF IInv, TypeOK, RetryCancel
<1>2. RowsApart' /\ RowsTellPG' /\ SeatsArePaid' /\ Grows
    <2>1. PGStep
        BY DEF IInv, TypeOK, RetryCancel, Call, Moves, PGStep
    <2> QED
        BY <2>1, PGStepped
<1>3. JobsKnow'
    BY <1>2, AllStillKnow DEF RetryCancel
<1>4. RetryKnows'
    BY DEF IInv, TypeOK, RetryKnows, RetryCancel, Call, Moves
<1> QED
    BY <1>1, <1>2, <1>3, <1>4 DEF IInv

LEMMA RetryLoadIInv ==
    ASSUME IInv, RetryLoad
    PROVE  IInv'
<1>1. retry.now \in Payments /\ IsRow(retry.now)
    BY DEF IInv, RowsTellPG, RetryKnows, RetryLoad
<1>2. Columns(retry.now) \in Loaded
    BY <1>1 DEF IInv, TypeOK, IsRow, Columns, Loaded
<1>3. TypeOK'
    BY <1>2 DEF IInv, TypeOK, RetryLoad
<1>4. RetryKnows'
    BY DEF IInv, TypeOK, RetryKnows, RetryLoad
<1>5. RowsApart' /\ RowsTellPG' /\ JobsKnow' /\ SeatsArePaid'
    BY DEF IInv, RowsApart, RowsTellPG, JobsKnow, Knows, SeatsArePaid, IsRow,
       ReservationOf, Of, RetryLoad
<1> QED
    BY <1>3, <1>4, <1>5 DEF IInv

LEMMA RetryWriteIInv ==
    ASSUME IInv, RetryWrite
    PROVE  IInv'
<1> DEFINE New == [retry.loaded EXCEPT !.status = "REFUNDED"]
<1>1. retry.now \in Payments /\ pg[retry.now] = "canceled" /\ IsRow(retry.now)
    BY DEF IInv, RowsTellPG, RetryKnows, RetryWrite
<1>2. /\ payment' \in [Payments -> [status : PaymentStatus,
                                    reservation : Reservations \cup {Nobody},
                                    key : BOOLEAN]]
      /\ RowsApart' /\ RowsTellPG' /\ SeatsArePaid' /\ Grows
    <2>1. /\ New \in [status : Rows, key : BOOLEAN]
          /\ \E touched \in BOOLEAN : Flush(retry.now, retry.loaded, New, touched)
        BY DEF IInv, TypeOK, RetryWrite, Loaded, Rows
    <2> HIDE DEF New
    <2> QED
        BY <1>1, <2>1, Flushed DEF RetryWrite
<1>3. TypeOK'
    BY <1>2 DEF IInv, TypeOK, RetryWrite, Loaded
<1>4. JobsKnow'
    BY <1>2, AllStillKnow DEF RetryWrite
<1>5. RetryKnows'
    BY DEF IInv, TypeOK, RetryKnows, RetryWrite
<1> QED
    BY <1>2, <1>3, <1>4, <1>5 DEF IInv

LEMMA RetryFailsIInv ==
    ASSUME IInv, RetryFails
    PROVE  IInv'
<1>1. retry' \in [todo : SUBSET Payments, now : Payments \cup {Nobody}, loaded : Loaded]
    <2>1. Nobody \in Loaded
        BY DEF Loaded
    <2>2. CASE retry' = NoRun
        BY <2>1, <2>2 DEF NoRun
    <2>3. CASE retry' = [retry EXCEPT !.now = Nobody, !.loaded = Nobody]
        BY <2>1, <2>3 DEF IInv, TypeOK
    <2> QED
        BY <2>2, <2>3 DEF RetryFails
<1>2. TypeOK'
    BY <1>1, FaultType DEF IInv, TypeOK, RetryFails
<1>3. RetryKnows'
    <2>1. retry'.loaded = Nobody /\ retry'.now = Nobody
        <3>1. CASE retry' = NoRun
            BY <3>1 DEF NoRun
        <3>2. CASE retry' = [retry EXCEPT !.now = Nobody, !.loaded = Nobody]
            BY <3>2 DEF IInv, TypeOK
        <3> QED
            BY <3>1, <3>2 DEF RetryFails
    <2> QED
        BY <2>1 DEF RetryKnows
<1>4. RowsApart' /\ RowsTellPG' /\ JobsKnow' /\ SeatsArePaid'
    BY DEF IInv, RowsApart, RowsTellPG, JobsKnow, Knows, SeatsArePaid, IsRow,
       ReservationOf, Of, RetryFails
<1> QED
    BY <1>2, <1>3, <1>4 DEF IInv

LEMMA NextIInv == IInv /\ [Next]_vars => IInv'
<1> SUFFICES ASSUME IInv, [Next]_vars
             PROVE  IInv'
    OBVIOUS
<1>1. ASSUME NEW r \in Reservations,
             ReservationLapses(r) \/ ReservationCancelled(r) \/ ConfirmGoesOn(r)
      PROVE  IInv'
    BY <1>1, BookingIInv
<1>2. ASSUME NEW p \in Payments, NEW r \in Reservations, RequestPayment(p, r)
      PROVE  IInv'
    BY <1>2, RequestIInv
<1>3. ASSUME NEW p \in Payments, InsertPayment(p)
      PROVE  IInv'
    BY <1>3, InsertIInv
<1>4. ASSUME NEW w \in Workers, NEW p \in Payments, ReadReady(w, p) \/ ReadApproved(w, p)
      PROVE  IInv'
    BY <1>4, ReadIInv
<1>5. ASSUME NEW w \in Workers, WorkerStep(w)
      PROVE  IInv'
    BY <1>5, LoadRowIInv, CapturePGIInv, WriteFailedIInv, WriteApprovedIInv, ConfirmIInv, CancelPGIInv,
       WriteRefundedIInv, WriteCancelFailedIInv DEF WorkerStep
<1>6. ASSUME NEW w \in Workers, WorkerDies(w)
      PROVE  IInv'
    BY <1>6, WorkerDiesIInv
<1>7. CASE RetryStep \/ RetryFails
    BY <1>7, RetryStartIInv, RetryCancelIInv, RetryLoadIInv, RetryWriteIInv,
       RetryFailsIInv DEF RetryStep
<1>8. CASE UNCHANGED vars
    BY <1>8 DEF IInv, TypeOK, RowsApart, RowsTellPG, JobsKnow, Knows, RetryKnows,
       SeatsArePaid, IsRow, ReservationOf, Of, vars
<1> QED
    BY <1>1, <1>2, <1>3, <1>4, <1>5, <1>6, <1>7, <1>8 DEF Next

LEMMA Invariance == Spec => []IInv
<1>1. Init => IInv
    BY InitIInv
<1>2. IInv /\ [Next]_vars => IInv'
    BY NextIInv
<1> QED
    BY <1>1, <1>2, PTL DEF Spec

LEMMA Consequences ==
    IInv => /\ TypeOK /\ ChargedOnce /\ RefundedIsReturned
            /\ ConfirmedWasCharged
BY DEF IInv, RowsApart, RowsTellPG, SeatsArePaid, ConfirmedWasCharged, IsRow, ChargedOnce, RefundedIsReturned

\* Every state of the model has the shape TypeOK describes.
THEOREM TypeCorrect == Spec => []TypeOK
BY Consequences, Invariance, PTL

\* A customer is charged on at most one order of a reservation, for any number
\* of concurrent requests and confirms and any faults (uk_reservation_id).
THEOREM NeverChargedTwice == Spec => []ChargedOnce
BY Consequences, Invariance, PTL

\* REFUNDED is never written before the money is back (initiateRefund,
\* retryCancel).
THEOREM RefundsAreReal == Spec => []RefundedIsReturned
BY Consequences, Invariance, PTL

\* No reservation is confirmed without a charge (confirmPayment).
THEOREM NoSeatForFree == Spec => []ConfirmedWasCharged
BY Consequences, Invariance, PTL

-----------------------------------------------------------------------------
(* The ledger.  What holds between operations holds because of what each   *)
(* phase of the one thread that works on a payment implies for both sides, *)
(* up to the columns it has loaded.  A payment belongs to the threads      *)
(* (READY, APPROVED) or to the scheduler (CANCEL_FAILED), never to both.   *)

Is(p, status, money) == payment[p].status = status /\ pg[p] = money

Fresh(loaded, p) == loaded = Nobody \/ loaded = Columns(p)

\* In what state a thread, alone with a payment, has it in each phase.
ThreadHas(w, p) ==
    /\ job[w].phase \in {"ready", "declined"} => Is(p, "READY", "none")
    /\ job[w].phase = "captured" => Is(p, "READY", "done")
    /\ job[w].phase \in {"approved", "confirming", "refund", "refused"} =>
           Is(p, "APPROVED", "done")
    /\ job[w].phase = "refunded" => Is(p, "APPROVED", "canceled")
    /\ payment[p].status = "APPROVED" => payment[p].key
    /\ Fresh(job[w].loaded, p)

Alone(p) == \A v, w \in Workers : Of(v) = p /\ Of(w) = p => v = w

InOrder(p) ==
    /\ Alone(p)
    /\ \A w \in Workers : Of(w) = p => job[w].phase # "idle" /\ ThreadHas(w, p)
    /\ retry.now = p => Is(p, "CANCEL_FAILED", "canceled") /\ Fresh(retry.loaded, p)
    /\ p \in retry.todo => retry.now # p /\ Is(p, "CANCEL_FAILED", "done")
    /\ ~InFlight(p) => Agrees(p)

LedgerInv == IInv /\ \A p \in Payments \ overlapped : InOrder(p)

\* No fault but an outage.
OutageOnly == FaultKinds \subseteq {"outage"}

LEMMA OnlyOutages ==
    ASSUME OutageOnly
    PROVE  ~Fault("timeout") /\ ~Fault("crash")
BY DEF OutageOnly, Fault

-----------------------------------------------------------------------------
(* A payment that nobody touches stays in order.                           *)

LEMMA IdleHasNone ==
    ASSUME TypeOK, NEW w \in Workers, NEW p \in Payments, job'[w] = Idle
    PROVE  Of(w)' # p
BY NobodyAssumption DEF Of, Idle

BookedKept(p) ==
    Booked(p) /\ payment'[p].reservation = payment[p].reservation => Booked(p)'

LEMMA Untouched ==
    ASSUME NEW p \in Payments, InOrder(p), Alone(p)', BookedKept(p),
           payment'[p] = payment[p], pg'[p] = pg[p], UNCHANGED retry,
           \A w \in Workers : Of(w) = p \/ Of(w)' = p => job'[w] = job[w]
    PROVE  InOrder(p)'
<1>1. ASSUME NEW w \in Workers, Of(w)' = p
      PROVE  job'[w].phase # "idle" /\ ThreadHas(w, p)'
    <2>1. job'[w] = job[w] /\ Of(w) = p
        BY <1>1 DEF Of
    <2> QED
        BY <2>1 DEF InOrder, ThreadHas, Is, Fresh, Columns
<1>2. ASSUME ~InFlight(p)'
      PROVE  Agrees(p)'
    <2>1. ~InFlight(p)
        BY <1>2 DEF InFlight, Of
    <2> QED
        BY <2>1 DEF InOrder, Agrees, BookedKept
<1>3. retry'.now = p => Is(p, "CANCEL_FAILED", "canceled")' /\ Fresh(retry.loaded, p)'
    BY DEF InOrder, Is, Fresh, Columns
<1>4. p \in retry'.todo => retry'.now # p /\ Is(p, "CANCEL_FAILED", "done")'
    BY DEF InOrder, Is
<1> QED
    BY <1>1, <1>2, <1>3, <1>4 DEF InOrder

\* CONFIRMED is final, and a row keeps its reservation.
LEMMA BookedStays ==
    ASSUME IInv, NEW p \in Payments, Booked(p), [Next]_vars,
           payment'[p].reservation = payment[p].reservation
    PROVE  Booked(p)'
<1>1. ASSUME NEW r \in Reservations, reservation[r] = "CONFIRMED"
      PROVE  reservation'[r] = "CONFIRMED"
    <2>1. CASE UNCHANGED reservation
        BY <1>1, <2>1
    <2>2. CASE \E x \in Reservations : \/ Desk!Lapse(x) \/ Desk!Cancel(x)
                                       \/ Desk!Refuse(x) \/ Desk!Confirm(x)
        BY <1>1, <2>2 DEF IInv, TypeOK, Desk!Lapse, Desk!Cancel, Desk!Refuse, Desk!Confirm,
           Desk!Change, Desk!Open
    <2>3. ASSUME NEW w \in Workers, ConfirmReservation(w) \/ ConfirmAnswered(w)
          PROVE  UNCHANGED reservation \/ \E x \in Reservations : Desk!Refuse(x) \/ Desk!Confirm(x)
        <3>1. job[w].phase # "idle"
            BY <2>3 DEF ConfirmReservation, ConfirmAnswered
        <3>2. ReservationOf(Of(w)) \in Reservations
            BY <3>1 DEF IInv, JobsKnow, Knows, RowsApart
        <3> QED
            BY <2>3, <3>2 DEF ConfirmReservation, ConfirmAnswered, Desk!Accept
    <2> QED
        BY <2>1, <2>2, <2>3 DEF Next, WorkerStep, RetryStep, ReservationLapses,
           ReservationCancelled, ConfirmGoesOn, RequestPayment, InsertPayment, ReadReady,
           ReadApproved, LoadRow, CapturePG, WriteFailed, WriteApproved, CancelPG,
           WriteRefunded, WriteCancelFailed, WorkerDies, RetryStart, RetryCancel, RetryLoad,
           RetryWrite, RetryFails, vars
<1> QED
    BY <1>1 DEF Booked, ReservationOf

-----------------------------------------------------------------------------
(* The thread that works on a payment.                                     *)

\* It is alone there: neither another thread nor the scheduler has the payment.
LEMMA OwnsIt ==
    ASSUME LedgerInv, NEW p \in Payments \ overlapped, NEW w \in Workers, Of(w) = p
    PROVE  /\ job[w].phase # "idle" /\ ThreadHas(w, p) /\ IsRow(p)
           /\ ReservationOf(p) \in Reservations
           /\ retry.now # p /\ p \notin retry.todo
           /\ \A v \in Workers : v # w => Of(v) # p
<1>1. InOrder(p) /\ job[w].phase # "idle" /\ ThreadHas(w, p)
    BY DEF LedgerInv, InOrder
<1>2. IsRow(p) /\ ReservationOf(p) \in Reservations
    BY <1>1 DEF LedgerInv, IInv, JobsKnow, Knows, RowsApart
<1>3. payment[p].status # "CANCEL_FAILED"
    BY <1>1 DEF LedgerInv, IInv, TypeOK, JobPhases, ThreadHas, Is
<1> QED
    BY <1>1, <1>2, <1>3 DEF InOrder, Alone, Is

\* It goes on with the payment in the state of its next phase, or it ends and the
\* table and the PG agree.
LEMMA OwnKept ==
    ASSUME LedgerInv, NEW p \in Payments \ overlapped, NEW w \in Workers, Of(w) = p,
           UNCHANGED retry, Alone(p)',
           \A v \in Workers : v # w => job'[v] = job[v],
           \/ job'[w] = Idle /\ Agrees(p)'
           \/ Of(w)' = p /\ job'[w].phase # "idle" /\ ThreadHas(w, p)'
    PROVE  InOrder(p)'
<1>1. retry'.now # p /\ p \notin retry'.todo
    BY OwnsIt
<1>2. \A v \in Workers : v # w => Of(v)' # p
    BY OwnsIt DEF Of
<1>3. CASE job'[w] = Idle /\ Agrees(p)'
    <2>1. Of(w)' # p
        BY <1>3, NobodyAssumption DEF Of, Idle
    <2> QED
        BY <1>1, <1>2, <1>3, <2>1 DEF InOrder
<1>4. CASE Of(w)' = p /\ job'[w].phase # "idle" /\ ThreadHas(w, p)'
    BY <1>1, <1>2, <1>4 DEF InOrder, InFlight
<1> QED
    BY <1>3, <1>4

\* What a thread may do with its job, in terms of its record.
LEMMA JobFact ==
    ASSUME TypeOK, NEW w \in Workers
    PROVE  /\ EndJob(w) => job'[w] = Idle /\ \A v \in Workers : v # w => job'[v] = job[v]
           /\ \A phase : JobTo(w, phase) =>
                  /\ job'[w].phase = phase /\ job'[w].loaded = Nobody /\ Of(w)' = Of(w)
                  /\ \A v \in Workers : v # w => job'[v] = job[v]
BY DEF TypeOK, EndJob, JobTo, Of

\* A flush by a thread whose columns are fresh.
LEMMA FlushFact ==
    ASSUME TypeOK, NEW p \in Payments, NEW new \in [status : Rows, key : BOOLEAN], NEW touched,
           NEW loaded, loaded = Columns(p), Flush(p, loaded, new, touched)
    PROVE  payment'[p].status = new.status /\ payment'[p].reservation = payment[p].reservation
BY DEF TypeOK, Flush, Columns

LEMMA LoadInOrder ==
    ASSUME LedgerInv, NEW p \in Payments \ overlapped, NEW w \in Workers, Of(w) = p,
           LoadRow(w), Alone(p)'
    PROVE  InOrder(p)'
<1>1. /\ job'[w].loaded = Columns(p) /\ job'[w].phase = job[w].phase /\ Of(w)' = p
      /\ \A v \in Workers : v # w => job'[v] = job[v]
      /\ UNCHANGED <<payment, pg, retry>>
    BY DEF LedgerInv, IInv, TypeOK, LoadRow, Of
<1>2. job'[w].phase # "idle" /\ ThreadHas(w, p)'
    BY <1>1, OwnsIt DEF ThreadHas, Is, Fresh, Columns
<1> QED
    BY <1>1, <1>2, OwnKept

LEMMA CaptureInOrder ==
    ASSUME OutageOnly, LedgerInv, NEW p \in Payments \ overlapped, NEW w \in Workers, Of(w) = p,
           CapturePG(w), Alone(p)'
    PROVE  InOrder(p)'
<1>1. Is(p, "READY", "none") /\ UNCHANGED <<payment, retry>>
    BY OwnsIt DEF CapturePG, ThreadHas
<1>2. \/ pg'[p] = "done" /\ JobTo(w, "captured")
      \/ pg'[p] = "none" /\ JobTo(w, "declined")
    BY <1>1, OnlyOutages DEF CapturePG, Call, Moves, Is, LedgerInv, IInv, TypeOK
<1>3. /\ \A v \in Workers : v # w => job'[v] = job[v]
      /\ Of(w)' = p /\ job'[w].phase # "idle" /\ ThreadHas(w, p)'
    BY <1>1, <1>2, JobFact DEF LedgerInv, IInv, ThreadHas, Is, Fresh
<1> QED
    BY <1>1, <1>3, OwnKept

LEMMA FailedInOrder ==
    ASSUME LedgerInv, NEW p \in Payments \ overlapped, NEW w \in Workers, Of(w) = p,
           WriteFailed(w), Alone(p)'
    PROVE  InOrder(p)'
<1>1. Is(p, "READY", "none") /\ job[w].loaded = Columns(p) /\ UNCHANGED <<pg, retry>>
    BY OwnsIt DEF WriteFailed, ThreadHas, Fresh
<1>2. payment'[p].status = "FAILED"
    <2>1. /\ [Columns(p) EXCEPT !.status = "FAILED"] \in [status : Rows, key : BOOLEAN]
          /\ [Columns(p) EXCEPT !.status = "FAILED"].status = "FAILED"
        BY DEF Columns, Rows, LedgerInv, IInv, TypeOK
    <2> QED
        BY <1>1, <2>1, FlushFact DEF WriteFailed, LedgerInv, IInv
<1>3. Agrees(p)'
    BY <1>1, <1>2 DEF Agrees, Is
<1>4. job'[w] = Idle /\ \A v \in Workers : v # w => job'[v] = job[v]
    BY JobFact DEF WriteFailed, LedgerInv, IInv
<1> QED
    BY <1>1, <1>3, <1>4, OwnKept

LEMMA ApprovedInOrder ==
    ASSUME LedgerInv, NEW p \in Payments \ overlapped, NEW w \in Workers, Of(w) = p,
           WriteApproved(w), Alone(p)'
    PROVE  InOrder(p)'
<1>1. pg[p] = "done" /\ UNCHANGED <<pg, retry>>
    BY OwnsIt DEF WriteApproved, ThreadHas, Is
<1>2. payment'[p].status = "APPROVED" /\ payment'[p].key
    BY DEF WriteApproved, Flush, LedgerInv, IInv, TypeOK
<1>3. /\ \A v \in Workers : v # w => job'[v] = job[v]
      /\ Of(w)' = p /\ job'[w].phase = "approved" /\ job'[w].loaded = Nobody
    BY JobFact DEF WriteApproved, LedgerInv, IInv
<1>4. ThreadHas(w, p)'
    BY <1>1, <1>2, <1>3 DEF ThreadHas, Is, Fresh
<1> QED
    BY <1>1, <1>3, <1>4, OwnKept

LEMMA ConfirmInOrder ==
    ASSUME OutageOnly, LedgerInv, NEW p \in Payments \ overlapped, NEW w \in Workers, Of(w) = p,
           ConfirmReservation(w) \/ ConfirmAnswered(w), Alone(p)'
    PROVE  InOrder(p)'
<1>1. /\ Is(p, "APPROVED", "done") /\ payment[p].key /\ UNCHANGED <<payment, pg, retry>>
      /\ ReservationOf(p) \in Reservations
    BY OwnsIt DEF ConfirmReservation, ConfirmAnswered, ThreadHas, Is
<1>2. CASE JobTo(w, "confirming") \/ JobTo(w, "refund")
    <2>1. /\ \A v \in Workers : v # w => job'[v] = job[v]
          /\ Of(w)' = p /\ job'[w].phase # "idle" /\ ThreadHas(w, p)'
        BY <1>1, <1>2, JobFact DEF LedgerInv, IInv, ThreadHas, Is, Fresh
    <2> QED
        BY <1>1, <2>1, OwnKept
<1>3. CASE Desk!Confirm(ReservationOf(p)) /\ EndJob(w)
    <2>1. Booked(p)'
        BY <1>1, <1>3 DEF Desk!Confirm, Desk!Change, Booked, ReservationOf, LedgerInv, IInv, TypeOK
    <2>2. Agrees(p)'
        BY <1>1, <2>1 DEF Agrees, Is
    <2>3. job'[w] = Idle /\ \A v \in Workers : v # w => job'[v] = job[v]
        BY <1>3, JobFact DEF LedgerInv, IInv
    <2> QED
        BY <1>1, <2>2, <2>3, OwnKept
<1> QED
    BY <1>2, <1>3 DEF ConfirmReservation, ConfirmAnswered

LEMMA CancelInOrder ==
    ASSUME OutageOnly, LedgerInv, NEW p \in Payments \ overlapped, NEW w \in Workers, Of(w) = p,
           CancelPG(w), Alone(p)'
    PROVE  InOrder(p)'
<1>1. Is(p, "APPROVED", "done") /\ payment[p].key /\ UNCHANGED <<payment, retry>>
    BY OwnsIt DEF CancelPG, ThreadHas, Is
<1>2. \/ pg'[p] = "canceled" /\ JobTo(w, "refunded")
      \/ pg'[p] = "done" /\ JobTo(w, "refused")
    BY <1>1, OnlyOutages DEF CancelPG, Call, Moves, Is, LedgerInv, IInv, TypeOK
<1>3. /\ \A v \in Workers : v # w => job'[v] = job[v]
      /\ Of(w)' = p /\ job'[w].phase # "idle" /\ ThreadHas(w, p)'
    BY <1>1, <1>2, JobFact DEF LedgerInv, IInv, ThreadHas, Is, Fresh
<1> QED
    BY <1>1, <1>3, OwnKept

LEMMA RefundInOrder ==
    ASSUME OutageOnly, LedgerInv, NEW p \in Payments \ overlapped, NEW w \in Workers, Of(w) = p,
           WriteRefunded(w) \/ WriteCancelFailed(w), Alone(p)'
    PROVE  InOrder(p)'
<1>1. /\ payment[p].status = "APPROVED" /\ job[w].loaded = Columns(p) /\ UNCHANGED <<pg, retry>>
      /\ WriteRefunded(w) => pg[p] = "canceled"
      /\ WriteCancelFailed(w) => pg[p] = "done"
    BY OwnsIt, OnlyOutages DEF WriteRefunded, WriteCancelFailed, ThreadHas, Fresh, Is
<1>2. /\ WriteRefunded(w) => payment'[p].status = "REFUNDED"
      /\ WriteCancelFailed(w) => payment'[p].status = "CANCEL_FAILED"
    <2>1. ASSUME NEW status \in Rows
          PROVE  /\ [Columns(p) EXCEPT !.status = status] \in [status : Rows, key : BOOLEAN]
                 /\ [Columns(p) EXCEPT !.status = status].status = status
        BY <2>1 DEF Columns, LedgerInv, IInv, TypeOK
    <2>2. /\ [Columns(p) EXCEPT !.status = "REFUNDED"] \in [status : Rows, key : BOOLEAN]
          /\ [Columns(p) EXCEPT !.status = "REFUNDED"].status = "REFUNDED"
          /\ [Columns(p) EXCEPT !.status = "CANCEL_FAILED"] \in [status : Rows, key : BOOLEAN]
          /\ [Columns(p) EXCEPT !.status = "CANCEL_FAILED"].status = "CANCEL_FAILED"
        BY <2>1 DEF Rows
    <2> QED
        BY <1>1, <2>2, FlushFact, OnlyOutages DEF WriteRefunded, WriteCancelFailed, LedgerInv, IInv
<1>3. Agrees(p)'
    BY <1>1, <1>2 DEF Agrees
<1>4. job'[w] = Idle /\ \A v \in Workers : v # w => job'[v] = job[v]
    BY JobFact, OnlyOutages DEF WriteRefunded, WriteCancelFailed, LedgerInv, IInv
<1> QED
    BY <1>1, <1>3, <1>4, OwnKept

LEMMA OwnInOrder ==
    ASSUME OutageOnly, LedgerInv, NEW p \in Payments \ overlapped, NEW w \in Workers, Of(w) = p,
           WorkerStep(w) \/ WorkerDies(w), Alone(p)'
    PROVE  InOrder(p)'
BY LoadInOrder, CaptureInOrder, FailedInOrder, ApprovedInOrder, ConfirmInOrder, CancelInOrder,
   RefundInOrder, OnlyOutages DEF WorkerStep, WorkerDies

-----------------------------------------------------------------------------
(* Other threads, new threads and booking-app.                             *)

LEMMA TouchesOwnOnly ==
    ASSUME IInv, NEW w \in Workers, WorkerStep(w) \/ WorkerDies(w),
           NEW p \in Payments, Of(w) # p
    PROVE  /\ payment'[p] = payment[p] /\ pg'[p] = pg[p] /\ UNCHANGED retry
           /\ Of(w)' # p /\ \A v \in Workers : v # w => job'[v] = job[v]
<1>1. Of(w) \in Payments
    <2>1. job[w].phase # "idle"
        BY DEF WorkerStep, WorkerDies, LoadRow, CapturePG, WriteFailed, WriteApproved,
           ConfirmReservation, ConfirmAnswered, CancelPG, WriteRefunded, WriteCancelFailed
    <2> QED
        BY <2>1 DEF IInv, JobsKnow, Knows
<1>2. payment'[p] = payment[p]
    <2>1. CASE UNCHANGED payment
        BY <2>1
    <2>2. CASE \E loaded, new, touched : Flush(Of(w), loaded, new, touched)
        BY <1>1, <2>2 DEF IInv, TypeOK, Flush
    <2> QED
        BY <2>1, <2>2 DEF WorkerStep, WorkerDies, LoadRow, CapturePG, WriteFailed, WriteApproved,
           ConfirmReservation, ConfirmAnswered, CancelPG, WriteRefunded, WriteCancelFailed
<1>3. pg'[p] = pg[p] /\ UNCHANGED retry
    BY <1>1 DEF IInv, TypeOK, Call, Moves, WorkerStep, WorkerDies, LoadRow, CapturePG,
       WriteFailed, WriteApproved, ConfirmReservation, ConfirmAnswered, CancelPG,
       WriteRefunded, WriteCancelFailed
<1>4. \/ EndJob(w) \/ (\E phase : JobTo(w, phase)) \/ LoadRow(w)
    BY DEF WorkerStep, WorkerDies, CapturePG, WriteFailed, WriteApproved,
       ConfirmReservation, ConfirmAnswered, CancelPG, WriteRefunded, WriteCancelFailed
<1>5. Of(w)' # p /\ \A v \in Workers : v # w => job'[v] = job[v]
    <2>1. CASE EndJob(w)
        BY <2>1, JobFact, NobodyAssumption DEF IInv, Of, Idle
    <2>2. CASE \E phase : JobTo(w, phase)
        BY <2>2, JobFact DEF IInv
    <2>3. CASE LoadRow(w)
        BY <2>3 DEF IInv, TypeOK, LoadRow, Of
    <2> QED
        BY <1>4, <2>1, <2>2, <2>3
<1> QED
    BY <1>2, <1>3, <1>5

LEMMA WorkerInOrder ==
    ASSUME OutageOnly, LedgerInv, NEW w \in Workers, WorkerStep(w) \/ WorkerDies(w),
           NEW p \in Payments \ overlapped, Alone(p)', BookedKept(p)
    PROVE  InOrder(p)'
<1>1. CASE Of(w) = p
    BY <1>1, OwnInOrder
<1>2. CASE Of(w) # p
    <2>1. \A v \in Workers : Of(v) = p \/ Of(v)' = p => job'[v] = job[v]
        BY <1>2, TouchesOwnOnly DEF LedgerInv
    <2> QED
        BY <1>2, <2>1, TouchesOwnOnly, Untouched DEF LedgerInv
<1> QED
    BY <1>1, <1>2

LEMMA ReadInOrder ==
    ASSUME LedgerInv, NEW w \in Workers, NEW q \in Payments, ReadReady(w, q) \/ ReadApproved(w, q),
           NEW p \in Payments \ overlapped, Alone(p)', BookedKept(p)
    PROVE  InOrder(p)'
<1>1. /\ job[w].phase = "idle" /\ Of(w)' = q /\ UNCHANGED <<payment, pg, retry>>
      /\ job'[w].phase = (IF payment[q].status = "READY" THEN "ready" ELSE "refund")
      /\ job'[w].loaded = Nobody
      /\ payment[q].status = "READY" \/ (payment[q].status = "APPROVED" /\ payment[q].key)
      /\ \A v \in Workers : v # w => job'[v] = job[v]
    <2>1. job[w].phase = "idle" /\ UNCHANGED <<payment, pg, retry>>
        BY DEF ReadReady, ReadApproved
    <2>2. payment[q].status = "READY" \/ (payment[q].status = "APPROVED" /\ payment[q].key)
        <3>1. CASE ReadReady(w, q)
            BY <3>1 DEF ReadReady
        <3>2. CASE ReadApproved(w, q)
            BY <3>2 DEF ReadApproved
        <3> QED
            BY <3>1, <3>2
    <2>3. PICK phase :
              /\ phase = (IF payment[q].status = "READY" THEN "ready" ELSE "refund")
              /\ job' = [job EXCEPT ![w] = [phase |-> phase, payment |-> q, loaded |-> Nobody]]
        BY DEF ReadReady, ReadApproved
    <2> QED
        BY <2>1, <2>2, <2>3 DEF LedgerInv, IInv, TypeOK, Of
<1>2. Of(w) # p
    BY <1>1 DEF LedgerInv, InOrder
<1>3. CASE q # p
    <2>1. \A v \in Workers : Of(v) = p \/ Of(v)' = p => job'[v] = job[v]
        BY <1>1, <1>2, <1>3
    <2> QED
        BY <1>1, <2>1, Untouched DEF LedgerInv
<1>4. CASE q = p
    <2>1. \A v \in Workers : v # w => Of(v) # p /\ Of(v)' # p
        BY <1>1, <1>4 DEF Alone, Of
    <2>2. retry.now # p /\ p \notin retry.todo
        BY <1>1, <1>4 DEF LedgerInv, InOrder, Is
    <2>3. Agrees(p)
        BY <1>2, <2>1, <2>2 DEF LedgerInv, InOrder, InFlight
    <2>4. pg[p] = (IF payment[p].status = "READY" THEN "none" ELSE "done")
        BY <1>1, <1>4, <2>3 DEF Agrees, LedgerInv, IInv, TypeOK, PGStatus
    <2>5. job'[w].phase # "idle" /\ ThreadHas(w, p)'
        BY <1>1, <1>4, <2>4 DEF ThreadHas, Is, Fresh
    <2> QED
        BY <1>1, <1>4, <2>1, <2>2, <2>5 DEF InOrder, InFlight
<1> QED
    BY <1>3, <1>4

LEMMA BookingInOrder ==
    ASSUME LedgerInv, UNCHANGED <<payment, pg, job, retry>>,
           NEW p \in Payments \ overlapped, Alone(p)', BookedKept(p)
    PROVE  InOrder(p)'
BY Untouched DEF LedgerInv

\* A payment without a row is nobody's work and has cost nothing.
LEMMA RequestInOrder ==
    ASSUME LedgerInv, NEW q \in Payments,
           InsertPayment(q) \/ \E r \in Reservations : RequestPayment(q, r),
           NEW p \in Payments \ overlapped, Alone(p)', BookedKept(p)
    PROVE  InOrder(p)'
<1>1. /\ payment[q].status \in {"NONE", "CHECKED"} /\ UNCHANGED <<pg, job, retry>>
      /\ payment'[q].status \in {"CHECKED", "READY", "REJECTED"}
      /\ \A x \in Payments : x # q => payment'[x] = payment[x]
    BY DEF LedgerInv, IInv, TypeOK, RequestPayment, InsertPayment, SetStatus
<1>2. CASE q # p
    BY <1>1, <1>2, Untouched DEF LedgerInv
<1>3. CASE q = p
    <2>1. ~IsRow(p) /\ pg[p] = "none"
        BY <1>1, <1>3 DEF LedgerInv, IInv, RowsTellPG, IsRow, Rows
    <2>2. \A w \in Workers : Of(w) # p /\ Of(w)' # p
        BY <1>1, <2>1, OwnsIt DEF Of
    <2>3. retry.now # p /\ p \notin retry.todo
        BY <2>1 DEF LedgerInv, InOrder, Is
    <2>4. Agrees(p)'
        BY <1>1, <1>3, <2>1 DEF Agrees
    <2> QED
        BY <1>1, <2>2, <2>3, <2>4 DEF InOrder
<1> QED
    BY <1>2, <1>3

-----------------------------------------------------------------------------
(* The scheduler.                                                          *)

\* What belongs to the scheduler belongs to no thread.
LEMMA NoThread ==
    ASSUME LedgerInv, NEW p \in Payments \ overlapped, payment[p].status = "CANCEL_FAILED"
    PROVE  \A w \in Workers : Of(w) # p
<1>1. ASSUME NEW w \in Workers, Of(w) = p
      PROVE  FALSE
    BY <1>1, OwnsIt DEF LedgerInv, IInv, TypeOK, JobPhases, ThreadHas, Is
<1> QED
    BY <1>1

\* The scheduler, and nobody else, is done with the payment or has it on its list.
LEMMA SchedulerKept ==
    ASSUME LedgerInv, NEW p \in Payments \ overlapped, UNCHANGED job, Alone(p)',
           payment[p].status = "CANCEL_FAILED", retry'.now # p, Agrees(p)',
           p \in retry'.todo => Is(p, "CANCEL_FAILED", "done")'
    PROVE  InOrder(p)'
BY NoThread DEF InOrder, Of

LEMMA StartInOrder ==
    ASSUME LedgerInv, RetryStart, NEW p \in Payments \ overlapped,
           Alone(p)', BookedKept(p)
    PROVE  InOrder(p)'
<1>1. /\ retry.now = Nobody /\ retry'.now = Nobody /\ UNCHANGED <<booking, payment, pg, job>>
      /\ p \in retry'.todo => payment[p].status = "CANCEL_FAILED"
      /\ retry'.now # p /\ retry.now # p
    BY NobodyAssumption DEF RetryStart, NoRun, CancelFailed
<1>2. CASE p \in retry'.todo
    <2>1. payment[p].status = "CANCEL_FAILED" /\ Agrees(p)
        BY <1>1, <1>2, NoThread DEF LedgerInv, InOrder, InFlight
    <2>2. Is(p, "CANCEL_FAILED", "done")' /\ Agrees(p)'
        BY <1>1, <2>1 DEF Agrees, Is, Booked, ReservationOf
    <2> QED
        BY <1>1, <2>1, <2>2, SchedulerKept
<1>3. CASE p \notin retry'.todo
    <2>1. InOrder(p)
        BY DEF LedgerInv
    <2>2. \A w \in Workers : Of(w)' = p => job'[w].phase # "idle" /\ ThreadHas(w, p)'
        BY <1>1, <2>1 DEF InOrder, ThreadHas, Is, Fresh, Columns, Of
    <2>3. ~InFlight(p)' => Agrees(p)'
        BY <1>1, <2>1 DEF InOrder, InFlight, Agrees, Booked, Of, ReservationOf
    <2> QED
        BY <1>1, <1>3, <2>2, <2>3 DEF InOrder
<1> QED
    BY <1>2, <1>3

LEMMA RefundByRetryInOrder ==
    ASSUME OutageOnly, LedgerInv, NEW q \in Payments, RetryCancel(q),
           NEW p \in Payments \ overlapped, Alone(p)', BookedKept(p)
    PROVE  InOrder(p)'
<1>1. /\ q \in retry.todo /\ retry.now = Nobody /\ retry.loaded = Nobody
      /\ UNCHANGED <<booking, payment, job>>
      /\ retry'.todo = retry.todo \ {q} /\ retry'.loaded = Nobody
      /\ \A x \in Payments : x # q => pg'[x] = pg[x]
      /\ \/ Call(pg, q, "done", "canceled", TRUE) /\ retry'.now = q
         \/ Call(pg, q, "done", "canceled", FALSE) /\ retry'.now = Nobody
    BY DEF LedgerInv, IInv, TypeOK, RetryKnows, RetryCancel, Call, Moves
<1>2. CASE q = p
    <2>1. Is(p, "CANCEL_FAILED", "done")
        BY <1>1, <1>2 DEF LedgerInv, InOrder
    <2>2. CASE Call(pg, q, "done", "canceled", TRUE) /\ retry'.now = q
        <3>1. Is(p, "CANCEL_FAILED", "canceled")'
            BY <1>1, <1>2, <2>1, <2>2 DEF Call, Moves, Is, LedgerInv, IInv, TypeOK
        <3>2. \A w \in Workers : Of(w)' # p
            BY <1>1, <2>1, NoThread DEF Is, Of
        <3> QED
            BY <1>1, <1>2, <2>2, <3>1, <3>2 DEF InOrder, InFlight, Fresh
    <2>3. CASE Call(pg, q, "done", "canceled", FALSE) /\ retry'.now = Nobody
        <3>1. Is(p, "CANCEL_FAILED", "done")' /\ Agrees(p)'
            BY <1>1, <1>2, <2>1, <2>3, OnlyOutages DEF Call, Moves, Is, Agrees
        <3> QED
            BY <2>1, <1>1, <2>3, <3>1, SchedulerKept, NobodyAssumption DEF Is
    <2> QED
        BY <1>1, <2>2, <2>3
<1>3. CASE q # p
    <2>1. InOrder(p) /\ pg'[p] = pg[p] /\ retry'.now # p /\ retry.now # p
        BY <1>1, <1>3, NobodyAssumption DEF LedgerInv
    <2>2. \A w \in Workers : Of(w)' = p => job'[w].phase # "idle" /\ ThreadHas(w, p)'
        BY <1>1, <2>1 DEF InOrder, ThreadHas, Is, Fresh, Columns, Of
    <2>3. ~InFlight(p)' => Agrees(p)'
        BY <1>1, <2>1 DEF InOrder, InFlight, Agrees, Booked, Of, ReservationOf
    <2> QED
        BY <1>1, <2>1, <2>2, <2>3 DEF InOrder, Is
<1> QED
    BY <1>2, <1>3

LEMMA RetryLoadInOrder ==
    ASSUME LedgerInv, RetryLoad, NEW p \in Payments \ overlapped, Alone(p)'
    PROVE  InOrder(p)'
<1>1. /\ retry'.now = retry.now /\ retry'.todo = retry.todo
      /\ retry'.loaded = Columns(retry.now) /\ UNCHANGED <<booking, payment, pg, job>>
    BY DEF LedgerInv, IInv, TypeOK, RetryLoad
<1>2. InOrder(p)
    BY DEF LedgerInv
<1>3. \A w \in Workers : Of(w)' = p => job'[w].phase # "idle" /\ ThreadHas(w, p)'
    BY <1>1, <1>2 DEF InOrder, ThreadHas, Is, Fresh, Columns, Of
<1>4. ~InFlight(p)' => Agrees(p)'
    BY <1>1, <1>2 DEF InOrder, InFlight, Agrees, Booked, Of, ReservationOf
<1>5. retry'.now = p => Is(p, "CANCEL_FAILED", "canceled")' /\ Fresh(retry.loaded, p)'
    BY <1>1, <1>2 DEF InOrder, Is, Fresh, Columns
<1> QED
    BY <1>1, <1>2, <1>3, <1>4, <1>5 DEF InOrder, Is

LEMMA RetryWriteInOrder ==
    ASSUME LedgerInv, RetryWrite, NEW p \in Payments \ overlapped,
           Alone(p)', BookedKept(p)
    PROVE  InOrder(p)'
<1>1. /\ retry.now \in Payments /\ retry.loaded # Nobody /\ UNCHANGED <<booking, pg, job>>
      /\ retry'.now = Nobody /\ retry'.todo = retry.todo
    BY DEF LedgerInv, IInv, TypeOK, RetryKnows, RetryWrite
<1>2. CASE retry.now = p
    <2>1. Is(p, "CANCEL_FAILED", "canceled") /\ retry.loaded = Columns(p) /\ p \notin retry.todo
        BY <1>1, <1>2 DEF LedgerInv, InOrder, Fresh
    <2>2. payment'[p].status = "REFUNDED"
        <3>1. /\ [Columns(p) EXCEPT !.status = "REFUNDED"] \in [status : Rows, key : BOOLEAN]
              /\ [Columns(p) EXCEPT !.status = "REFUNDED"].status = "REFUNDED"
            BY DEF Columns, Rows, LedgerInv, IInv, TypeOK
        <3> QED
            BY <1>2, <2>1, <3>1, FlushFact DEF RetryWrite, LedgerInv, IInv
    <2>3. Agrees(p)'
        BY <1>1, <2>1, <2>2 DEF Agrees, Is
    <2> QED
        BY <1>1, <2>1, <2>3, SchedulerKept, NobodyAssumption DEF Is
<1>3. CASE retry.now # p
    <2>1. InOrder(p) /\ payment'[p] = payment[p] /\ retry'.now # p
        BY <1>1, <1>3, NobodyAssumption DEF LedgerInv, IInv, TypeOK, RetryWrite, Flush
    <2>2. \A w \in Workers : Of(w)' = p => job'[w].phase # "idle" /\ ThreadHas(w, p)'
        BY <1>1, <2>1 DEF InOrder, ThreadHas, Is, Fresh, Columns, Of
    <2>3. ~InFlight(p)' => Agrees(p)'
        BY <1>1, <1>3, <2>1 DEF InOrder, InFlight, Agrees, Booked, Of, ReservationOf
    <2> QED
        BY <1>1, <1>3, <2>1, <2>2, <2>3 DEF InOrder, Is
<1> QED
    BY <1>2, <1>3

-----------------------------------------------------------------------------
LEMMA StepInOrder ==
    ASSUME OutageOnly, LedgerInv, [Next]_vars, NEW p \in Payments \ overlapped, Alone(p)'
    PROVE  InOrder(p)'
<1>1. BookedKept(p)
    BY BookedStays DEF LedgerInv, BookedKept
<1>2. CASE \E w \in Workers : WorkerStep(w) \/ WorkerDies(w)
    BY <1>1, <1>2, WorkerInOrder
<1>3. CASE \E w \in Workers, q \in Payments : ReadReady(w, q) \/ ReadApproved(w, q)
    BY <1>1, <1>3, ReadInOrder
<1>4. CASE \E q \in Payments :
               InsertPayment(q) \/ \E r \in Reservations : RequestPayment(q, r)
    BY <1>1, <1>4, RequestInOrder
<1>5. CASE RetryStep \/ RetryFails
    BY <1>1, <1>5, StartInOrder, RefundByRetryInOrder, RetryLoadInOrder, RetryWriteInOrder,
       OnlyOutages DEF RetryStep, RetryFails
<1>6. CASE \/ UNCHANGED vars
           \/ \E r \in Reservations :
                  ReservationLapses(r) \/ ReservationCancelled(r) \/ ConfirmGoesOn(r)
    BY <1>1, <1>6, BookingInOrder DEF vars, ReservationLapses, ReservationCancelled,
       ConfirmGoesOn
<1> QED
    BY <1>2, <1>3, <1>4, <1>5, <1>6 DEF Next

LEMMA InitLedger == WatchedInit => LedgerInv
BY InitIInv, NobodyAssumption DEF WatchedInit, Init, LedgerInv, InOrder, Alone, InFlight, Agrees, Of,
   Idle, NoRun

LEMMA NextLedger ==
    ASSUME OutageOnly, LedgerInv, [WatchedNext]_<<vars, overlapped>>
    PROVE  LedgerInv'
<1>1. [Next]_vars
    BY DEF WatchedNext
<1>2. IInv'
    BY <1>1, NextIInv DEF LedgerInv
<1>3. ASSUME NEW p \in Payments \ overlapped'
      PROVE  p \notin overlapped /\ Alone(p)'
    <2>1. CASE UNCHANGED <<vars, overlapped>>
        BY <1>3, <2>1 DEF LedgerInv, InOrder, Alone, Of, vars
    <2>2. CASE WatchedNext
        BY <1>3, <2>2 DEF WatchedNext, WorkedOnTwice, Alone, Of
    <2> QED
        BY <2>1, <2>2
<1>4. ASSUME NEW p \in Payments \ overlapped'
      PROVE  InOrder(p)'
    BY <1>1, <1>3, <1>4, StepInOrder
<1> QED
    BY <1>2, <1>4 DEF LedgerInv

\* However many payments, threads and outages of the PG and of booking-app there
\* are: as long as no two requests have worked on a payment at once, the table
\* and the PG agree about it whenever no operation on it is under way
\* (confirmPayment, initiateRefund, retryCancel).
THEOREM LedgerAgrees ==
    ASSUME OutageOnly
    PROVE  WatchedSpec => []LedgerUntilOverlap
<1>1. WatchedInit => LedgerInv
    BY InitLedger
<1>2. LedgerInv /\ [WatchedNext]_<<vars, overlapped>> => LedgerInv'
    BY NextLedger
<1>3. LedgerInv => LedgerUntilOverlap
    BY DEF LedgerInv, InOrder, LedgerUntilOverlap
<1> QED
    BY <1>1, <1>2, <1>3, PTL DEF WatchedSpec
=============================================================================
