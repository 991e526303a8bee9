------------------------------ MODULE Booking -------------------------------
(***************************************************************************)
(* booking-app: ReservationManager under the transactions of               *)
(* ReservationService, calling concert-app for the seat and                *)
(* waitingroom-app for the token.                                          *)
(*                                                                         *)
(* A reservation is named by the request that creates it.  Its row is      *)
(* visible to others only when the surrounding transaction commits, which  *)
(* is after the seat lock has been given back.  The other commands         *)
(* (cancel, confirm, expire) take no seat lock and no row lock until their *)
(* UPDATE, so each of them acts on a snapshot it read earlier; UPDATE does *)
(* not check the snapshot (ReservationEntity has no @Version).             *)
(*                                                                         *)
(* A remote call ends in one of four ways (Call): applied and answered,    *)
(* refused, applied with the answer lost, or never arrived.  The caller    *)
(* sees an exception in the last three.                                    *)
(***************************************************************************)
EXTENDS Naturals, FiniteSets

CONSTANTS
    Seats,
    Tokens,          \* waiting-room tokens, each of one user for one event
    Reservations,    \* create requests, and the rows they may leave
    Ops,             \* threads that serve cancel, confirm and expire
    Nobody,          \* "no lock owner", "no seat", "no token", "no target"
    SweepOn,         \* whether expiredPendingReservations() is called
    MaxFaults        \* bound on lost messages, failed writes and crashes

ASSUME NobodyAssumption == Nobody \notin Seats \cup Tokens \cup Reservations
ASSUME BatchAssumption  == SweepOn \in BOOLEAN
ASSUME FaultAssumption  == MaxFaults \in Nat

VARIABLES
    status,          \* status[s]: the seat in concert-app
    token,           \* token[t]: the token in waitingroom-app
    lock,            \* lock[s]: owner of Redisson's reservation:lock:seat:s
    create,          \* create[r]: the create request
    row,             \* row[r]: the committed row of ticketing_booking
    op,              \* op[o]: the command thread o is serving
    sweep,           \* the batch of expiredPendingReservations()
    faults           \* faults that have happened

vars == <<status, token, lock, create, row, op, sweep, faults>>

Seat      == INSTANCE SeatRegister
Admission == INSTANCE AdmissionTokens

CreatePhases == {"new", "locked", "validated", "held", "consumed", "unlocked",
                 "undo", "done", "failed", "dead"}
RowStatus    == {"NONE", "PENDING", "CONFIRMED", "CANCELLED"}
Commands     == {"cancel", "confirm", "expire"}
OpPhases     == {"idle", "read", "flushed", "released", "sold"}

Idle  == [phase |-> "idle", command |-> "cancel", target |-> Nobody]
NoRun == [running |-> FALSE, todo |-> {}, now |-> Nobody, flushed |-> {}]

TypeOK ==
    /\ Seat!TypeOK
    /\ Admission!TypeOK
    /\ lock \in [Seats -> Reservations \cup {Nobody}]
    /\ create \in [Reservations -> [phase : CreatePhases,
                                    seat : Seats \cup {Nobody},
                                    token : Tokens \cup {Nobody}]]
    /\ row \in [Reservations -> [status : RowStatus, expired : BOOLEAN]]
    /\ op \in [Ops -> [phase : OpPhases, command : Commands,
                       target : Reservations \cup {Nobody}]]
    /\ sweep \in [running : BOOLEAN, todo : SUBSET Reservations,
                  now : Reservations \cup {Nobody},
                  flushed : SUBSET Reservations]
    /\ faults \in 0 .. MaxFaults

Init ==
    /\ Seat!Init
    /\ token = [t \in Tokens |-> "ACTIVE"]
    /\ lock = [s \in Seats |-> Nobody]
    /\ create = [r \in Reservations |->
                    [phase |-> "new", seat |-> Nobody, token |-> Nobody]]
    /\ row = [r \in Reservations |-> [status |-> "NONE", expired |-> FALSE]]
    /\ op = [o \in Ops |-> Idle]
    /\ sweep = NoRun
    /\ faults = 0

-----------------------------------------------------------------------------
(* Remote calls and faults.                                                *)

Fault   == faults < MaxFaults /\ faults' = faults + 1
NoFault == UNCHANGED faults

(* A call whose effect is the action Applied; ok is what the caller sees.  *)
(* possible says whether the callee accepts the call in this state.        *)
Call(possible, Applied, unchanged, ok) ==
    \/ ok  /\ Applied /\ NoFault               \* applied and answered
    \/ ~ok /\ ~possible /\ unchanged /\ NoFault  \* refused: 409, 410, 422
    \/ ~ok /\ Applied /\ Fault                 \* the answer is lost
    \/ ~ok /\ unchanged /\ Fault               \* it never arrived

HoldCall(s, ok)    == Call(status[s] = "AVAILABLE", Seat!Hold(s), UNCHANGED status, ok)
ReleaseCall(s, ok) == Call(status[s] = "HOLD", Seat!Release(s), UNCHANGED status, ok)
ConfirmCall(s, ok) == Call(status[s] = "HOLD", Seat!Confirm(s), UNCHANGED status, ok)

\* Faulty variant: the UPDATE of the token does not look at its status.
UseTokenAgain(t) == token' = [token EXCEPT ![t] = "USED"]

(* consumeOrThrow: one conditional UPDATE, ACTIVE -> USED.                 *)
UseToken(t) == Admission!Use(t)
ConsumeCall(t, ok) == Call(token[t] = "ACTIVE", UseToken(t), UNCHANGED token, ok)

-----------------------------------------------------------------------------
(* Creating a reservation.                                                 *)

CreateTo(r, phase) == create' = [create EXCEPT ![r].phase = phase]

(* finally: unlock, only if this request still owns the lock.              *)
GiveBackLock(r) ==
    lock' = [s \in Seats |-> IF lock[s] = r THEN Nobody ELSE lock[s]]

(* tryLock succeeds.                                                       *)
AcquireLock(r, s, t) ==
    /\ create[r].phase = "new"
    /\ lock[s] = Nobody
    /\ lock' = [lock EXCEPT ![s] = r]
    /\ create' = [create EXCEPT ![r] = [phase |-> "locked", seat |-> s, token |-> t]]
    /\ UNCHANGED <<status, token, row, op, sweep, faults>>

(* tryLock gives up after its waiting time: RESERVATION_LOCK_CONFLICT.     *)
LockConflict(r, s) ==
    /\ create[r].phase = "new"
    /\ lock[s] # Nobody
    /\ CreateTo(r, "failed")
    /\ UNCHANGED <<status, token, lock, row, op, sweep, faults>>

(* readSeat and validateToken.  An unusable token ends the request.        *)
ValidateToken(r) ==
    /\ create[r].phase = "locked"
    /\ \/ /\ token[create[r].token] = "ACTIVE"
          /\ CreateTo(r, "validated")
          /\ UNCHANGED <<lock, faults>>
       \/ /\ token[create[r].token] # "ACTIVE"
          /\ CreateTo(r, "failed") /\ GiveBackLock(r)
          /\ UNCHANGED faults
       \/ /\ Fault                        \* one of the two reads fails
          /\ CreateTo(r, "failed") /\ GiveBackLock(r)
    /\ UNCHANGED <<status, token, row, op, sweep>>

(* holdSeat is outside the try block: its failure is not compensated.      *)
HoldSeat(r) ==
    /\ create[r].phase = "validated"
    /\ \/ HoldCall(create[r].seat, TRUE) /\ CreateTo(r, "held") /\ UNCHANGED lock
       \/ HoldCall(create[r].seat, FALSE) /\ CreateTo(r, "failed") /\ GiveBackLock(r)
    /\ UNCHANGED <<token, row, op, sweep>>

(* saveWithFlush, then consumeToken.  The inserted row is not visible yet. *)
(* Failure of either leads to the catch block.                             *)
SaveAndConsume(r) ==
    /\ create[r].phase = "held"
    /\ \/ ConsumeCall(create[r].token, TRUE) /\ CreateTo(r, "consumed")
       \/ ConsumeCall(create[r].token, FALSE) /\ CreateTo(r, "undo")
    /\ UNCHANGED <<status, lock, row, op, sweep>>

\* Faulty variant: the catch block only rethrows.
CompensateNothing(r) ==
    /\ create[r].phase = "undo"
    /\ CreateTo(r, "failed") /\ GiveBackLock(r)
    /\ UNCHANGED <<status, token, row, op, sweep, faults>>

(* The catch block: releaseSeat, whose failure is only recorded; then the  *)
(* exception leaves, the lock is given back and the INSERT rolled back.    *)
Compensate(r) ==
    /\ create[r].phase = "undo"
    /\ \E ok \in BOOLEAN : ReleaseCall(create[r].seat, ok)
    /\ CreateTo(r, "failed") /\ GiveBackLock(r)
    /\ UNCHANGED <<token, row, op, sweep>>

(* The manager returns and its finally block unlocks ...                   *)
Unlock(r) ==
    /\ create[r].phase = "consumed"
    /\ CreateTo(r, "unlocked") /\ GiveBackLock(r)
    /\ UNCHANGED <<status, token, row, op, sweep, faults>>

(* ... and only then does the transaction of the service commit.           *)
CommitCreate(r) ==
    /\ create[r].phase = "unlocked"
    /\ CreateTo(r, "done")
    /\ row' = [row EXCEPT ![r].status = "PENDING"]
    /\ UNCHANGED <<status, token, lock, op, sweep, faults>>

(* The process dies, the commit fails, or unlock throws: the row is rolled *)
(* back, nothing is compensated, and a lock still held stays until its     *)
(* lease ends.                                                             *)
CreateDies(r) ==
    /\ create[r].phase \in {"locked", "validated", "held", "consumed",
                            "unlocked", "undo"}
    /\ Fault
    /\ CreateTo(r, "dead")
    /\ UNCHANGED <<status, token, lock, row, op, sweep>>

\* Faulty variant: tryLock without a lease time for a dead owner.
LeaseOfTheLiving(s) ==
    /\ lock[s] # Nobody
    /\ create[lock[s]].phase # "dead"
    /\ lock' = [lock EXCEPT ![s] = Nobody]
    /\ UNCHANGED <<status, token, create, row, op, sweep, faults>>

(* The lease of 15 s ends, whether or not its owner is still at work.      *)
LeaseEnds(s) ==
    /\ lock[s] # Nobody
    /\ lock' = [lock EXCEPT ![s] = Nobody]
    /\ UNCHANGED <<status, token, create, row, op, sweep, faults>>

-----------------------------------------------------------------------------
(* Time and tokens outside this service.                                   *)

(* Five minutes after its creation a reservation is expired.               *)
HoldTimeEnds(r) ==
    /\ row[r].status = "PENDING" /\ ~row[r].expired
    /\ row' = [row EXCEPT ![r].expired = TRUE]
    /\ UNCHANGED <<status, token, lock, create, op, sweep, faults>>

(* Ten minutes after it was issued a token is not accepted any more.       *)
TokenEnds(t) ==
    /\ Admission!Lapse(t)
    /\ UNCHANGED <<status, lock, create, row, op, sweep, faults>>

-----------------------------------------------------------------------------
(* Cancel, confirm and expire.                                             *)

OpTo(o, phase) == op' = [op EXCEPT ![o].phase = phase]
EndOp(o)       == op' = [op EXCEPT ![o] = Idle]
SeatOf(r)      == create[r].seat

(* A flushed UPDATE keeps the row locked until its transaction ends.       *)
RowLocked(r) ==
    \/ \E o \in Ops : op[o].phase \in {"flushed", "released"} /\ op[o].target = r
    \/ sweep.now = r \/ r \in sweep.flushed

\* Faulty variant: validateConfirmable does not look at the expiry.
AcceptsLate(command, r) ==
    /\ row[r].status = "PENDING"
    /\ command = "confirm" \/ row[r].expired = (command = "expire")

(* validateCancellable, validateConfirmable and validateExpirable.         *)
Accepts(command, r) ==
    /\ row[r].status = "PENDING"
    /\ row[r].expired = (command = "expire")

(* read, then the validator; a refused command changes nothing.            *)
ReadRow(o, r, command) ==
    /\ op[o].phase = "idle"
    /\ Accepts(command, r)
    /\ op' = [op EXCEPT ![o] = [phase |-> "read", command |-> command, target |-> r]]
    /\ UNCHANGED <<status, token, lock, create, row, sweep, faults>>

(* cancel and expire flush CANCELLED first, whatever the row is by now.    *)
FlushCancelled(o) ==
    /\ op[o].phase = "read" /\ op[o].command \in {"cancel", "expire"}
    /\ ~RowLocked(op[o].target)
    /\ OpTo(o, "flushed")
    /\ UNCHANGED <<status, token, lock, create, row, sweep, faults>>

\* Faulty variant: a failed releaseSeat is logged and the commit goes on.
ReleaseSeatOrLog(o) ==
    /\ op[o].phase = "flushed"
    /\ \E ok \in BOOLEAN : ReleaseCall(SeatOf(op[o].target), ok)
    /\ OpTo(o, "released")
    /\ UNCHANGED <<token, lock, create, row, sweep>>

(* Then they call releaseSeat; its failure rolls the row back.             *)
ReleaseSeat(o) ==
    /\ op[o].phase = "flushed"
    /\ \/ ReleaseCall(SeatOf(op[o].target), TRUE) /\ OpTo(o, "released")
       \/ ReleaseCall(SeatOf(op[o].target), FALSE) /\ EndOp(o)
    /\ UNCHANGED <<token, lock, create, row, sweep>>

\* Faulty variant: expire writes a status of its own.
CommitExpired(o) ==
    /\ op[o].phase = "released"
    /\ row' = [row EXCEPT ![op[o].target].status =
                  IF op[o].command = "expire" THEN "EXPIRED" ELSE "CANCELLED"]
    /\ EndOp(o)
    /\ UNCHANGED <<status, token, lock, create, sweep, faults>>

CommitCancelled(o) ==
    /\ op[o].phase = "released"
    /\ row' = [row EXCEPT ![op[o].target].status = "CANCELLED"]
    /\ EndOp(o)
    /\ UNCHANGED <<status, token, lock, create, sweep, faults>>

\* Faulty variant: a refused confirmSeat is taken for "already sold to us".
SellSeatAnyway(o) ==
    /\ op[o].phase = "read" /\ op[o].command = "confirm"
    /\ \E ok \in BOOLEAN : ConfirmCall(SeatOf(op[o].target), ok)
    /\ OpTo(o, "sold")
    /\ UNCHANGED <<token, lock, create, row, sweep>>

(* confirm calls confirmSeat first ...                                     *)
SellSeat(o) ==
    /\ op[o].phase = "read" /\ op[o].command = "confirm"
    /\ \/ ConfirmCall(SeatOf(op[o].target), TRUE) /\ OpTo(o, "sold")
       \/ ConfirmCall(SeatOf(op[o].target), FALSE) /\ EndOp(o)
    /\ UNCHANGED <<token, lock, create, row, sweep>>

(* ... and then flushes and commits CONFIRMED over whatever the row is.    *)
CommitConfirmed(o) ==
    /\ op[o].phase = "sold"
    /\ ~RowLocked(op[o].target)
    /\ row' = [row EXCEPT ![op[o].target].status = "CONFIRMED"]
    /\ EndOp(o)
    /\ UNCHANGED <<status, token, lock, create, sweep, faults>>

(* The process dies or the write fails: the transaction is rolled back.    *)
OpDies(o) ==
    /\ op[o].phase # "idle"
    /\ Fault
    /\ EndOp(o)
    /\ UNCHANGED <<status, token, lock, create, row, sweep>>

-----------------------------------------------------------------------------
(* expiredPendingReservations: one transaction over all expired rows.      *)

Due == {r \in Reservations : row[r].status = "PENDING" /\ row[r].expired}

SweepStart ==
    /\ SweepOn /\ ~sweep.running /\ Due # {}
    /\ sweep' = [NoRun EXCEPT !.running = TRUE, !.todo = Due]
    /\ UNCHANGED <<status, token, lock, create, row, op, faults>>

(* expireReservation on the next item: the rows were loaded with the list, *)
(* so the validator sees the status they had then.                         *)
SweepFlush(r) ==
    /\ r \in sweep.todo /\ sweep.now = Nobody
    /\ ~RowLocked(r)
    /\ sweep' = [sweep EXCEPT !.todo = @ \ {r}, !.now = r]
    /\ UNCHANGED <<status, token, lock, create, row, op, faults>>

(* The loop catches the exception of a failed release and goes on; the     *)
(* CANCELLED it flushed stays in the transaction.                          *)
SweepRelease ==
    /\ sweep.now # Nobody
    /\ \E ok \in BOOLEAN : ReleaseCall(SeatOf(sweep.now), ok)
    /\ sweep' = [sweep EXCEPT !.now = Nobody, !.flushed = @ \cup {sweep.now}]
    /\ UNCHANGED <<token, lock, create, row, op>>

SweepCommit ==
    /\ sweep.running /\ sweep.todo = {} /\ sweep.now = Nobody
    /\ row' = [r \in Reservations |->
                  IF r \in sweep.flushed
                  THEN [row[r] EXCEPT !.status = "CANCELLED"] ELSE row[r]]
    /\ sweep' = NoRun
    /\ UNCHANGED <<status, token, lock, create, op, faults>>

SweepDies ==
    /\ sweep.running
    /\ Fault
    /\ sweep' = NoRun
    /\ UNCHANGED <<status, token, lock, create, row, op>>

-----------------------------------------------------------------------------
CreateStep(r) ==
    \/ ValidateToken(r) \/ HoldSeat(r) \/ SaveAndConsume(r)
    \/ Compensate(r) \/ Unlock(r) \/ CommitCreate(r)

OpStep(o) ==
    \/ FlushCancelled(o) \/ ReleaseSeat(o) \/ CommitCancelled(o)
    \/ SellSeat(o) \/ CommitConfirmed(o)

SweepStep ==
    \/ \E r \in Reservations : SweepFlush(r)
    \/ SweepRelease \/ SweepCommit

Next ==
    \/ \E r \in Reservations, s \in Seats :
           \/ \E t \in Tokens : AcquireLock(r, s, t)
           \/ LockConflict(r, s)
    \/ \E r \in Reservations : CreateStep(r) \/ CreateDies(r) \/ HoldTimeEnds(r)
    \/ \E s \in Seats : LeaseEnds(s)
    \/ \E t \in Tokens : TokenEnds(t)
    \/ \E o \in Ops, r \in Reservations, c \in Commands : ReadRow(o, r, c)
    \/ \E o \in Ops : OpStep(o) \/ OpDies(o)
    \/ SweepStart \/ SweepStep \/ SweepDies

Spec == Init /\ [][Next]_vars

(* A request that has begun goes on (its thread runs), a lease ends, time  *)
(* passes.  Nobody is obliged to send a request: no fairness on            *)
(* AcquireLock, ReadRow or SweepStart, for which src/ has no scheduler.    *)
Fairness ==
    /\ \A r \in Reservations : WF_vars(CreateStep(r)) /\ WF_vars(HoldTimeEnds(r))
    /\ \A o \in Ops : WF_vars(OpStep(o))
    /\ \A s \in Seats : WF_vars(LeaseEnds(s))
    /\ WF_vars(SweepStep)

FairSpec == Spec /\ Fairness

-----------------------------------------------------------------------------
(* Properties.                                                             *)

Confirmed(s) == {r \in Reservations : row[r].status = "CONFIRMED" /\ SeatOf(r) = s}

\* Whatever is lost, retried or raced, a seat is confirmed for at most one
\* reservation, and it is SOLD then (confirmReservation).
NoDoubleSale ==
    \A s \in Seats :
        /\ \A r1, r2 \in Confirmed(s) : r1 = r2
        /\ Confirmed(s) # {} => status[s] = "SOLD"

\* A waiting-room token admits to at most one reservation, also when one user
\* sends it for several seats at once, whose locks do not exclude each other
\* (createReservation: consumeToken comes before the commit).
TokenAdmitsOnce ==
    \A r1, r2 \in Reservations :
        /\ row[r1].status # "NONE" /\ row[r2].status # "NONE"
        /\ create[r1].token = create[r2].token
        => r1 = r2

TheOne(S) == IF S = {} THEN Nobody ELSE CHOOSE r \in S : TRUE
Buyer     == [s \in Seats |-> TheOne(Confirmed(s))]

Sale == INSTANCE SeatSale WITH buyer <- Buyer

\* Seen through its CONFIRMED rows, booking-app implements SeatSale: a sale is
\* final and exclusive.
SaleSpec == Sale!Spec

\* What payment-app can tell of a reservation, and the confirms that have passed
\* validateConfirmable and have neither failed nor made their row CONFIRMED.
DeskStatus ==
    [r \in Reservations |->
        IF row[r].status = "PENDING" /\ row[r].expired THEN "LAPSED" ELSE row[r].status]

Confirming(o) ==
    \/ op[o].phase = "sold"
    \/ op[o].phase = "read" /\ op[o].command = "confirm"

DeskAccepted ==
    {r \in Reservations :
        /\ row[r].status # "CONFIRMED"
        /\ \E o \in Ops : Confirming(o) /\ op[o].target = r}

Desk == INSTANCE ReservationDesk
            WITH reservation <- DeskStatus, accepted <- DeskAccepted

\* Seen by payment-app, booking-app implements ReservationDesk: with any number
\* of commands on one reservation in flight, a reservation that is CONFIRMED was
\* PENDING and unexpired when that confirm read it, and stays CONFIRMED; one that
\* has lapsed or been cancelled changes through such a confirm only.
DeskSpec == Desk!Spec

\* Those who would give a seat back or sell it: the requests that hold it and
\* have not ended, and the PENDING reservations, except that a command between
\* its call to concert-app and its commit has already done so.
Owners(s) ==
    {r \in Reservations :
        /\ SeatOf(r) = s
        /\ \/ create[r].phase \in {"held", "consumed", "unlocked", "undo"}
           \/ /\ row[r].status = "PENDING"
              /\ ~ \E o \in Ops : /\ op[o].phase \in {"released", "sold"}
                                  /\ op[o].target = r}

\* While nothing fails and commands on reservations do not overlap, a HOLD
\* belongs to exactly one reservation or request, and nobody else believes to
\* have the seat; a SOLD seat has its CONFIRMED reservation (or is about to).
HoldHasOneOwner ==
    \A s \in Seats :
        /\ Cardinality(Owners(s)) = (IF status[s] = "HOLD" THEN 1 ELSE 0)
        /\ status[s] = "SOLD" =>
              \/ Confirmed(s) # {}
              \/ \E o \in Ops : op[o].phase = "sold" /\ SeatOf(op[o].target) = s

\* A request that got the seat lock comes to an end, and then the lock is not
\* its own any more, also when it died without unlocking
\* (LOCK_LEASE_TIME_SECONDS).
RequestEndsWithoutLock ==
    \A r \in Reservations :
        create[r].phase = "locked" ~>
            /\ create[r].phase \in {"done", "failed", "dead"}
            /\ \A s \in Seats : lock[s] # r

-----------------------------------------------------------------------------
(* What docs/services/booking/seat-locking-design.md says, and the code    *)
(* does not keep.                                                          *)

\* Risk 1: once the expiry has cancelled a reservation, the confirm that races
\* it fails (validateConfirmable).
CancelledStaysCancelled ==
    [][\A r \in Reservations :
          row[r].status = "CANCELLED" => row'[r].status = "CANCELLED"]_vars

\* After the expiry a HOLD left behind by a failed createReservation is released
\* in the end.  ExpirySpec grants what src/ leaves to a scheduler it does not
\* have: that expireReservation is called for every expired reservation.
ExpirySpec ==
    /\ FairSpec
    /\ \A r \in Reservations : WF_vars(\E o \in Ops : ReadRow(o, r, "expire"))

OrphanHoldEnds ==
    \A s \in Seats :
        status[s] = "HOLD" /\ Owners(s) = {} ~> status[s] # "HOLD"
=============================================================================
