--------------------------- MODULE BookingProofs ----------------------------
(***************************************************************************)
(* What Booking guarantees about seats and tokens for any number of        *)
(* reservations, threads and faults, with or without the expiry batch.     *)
(*                                                                         *)
(* The writes of booking-app do not look at the row they replace, and its  *)
(* lock is gone before the commit, so a double sale is excluded by neither.*)
(* The argument is about concert-app's register: SOLD is final, so of all  *)
(* confirms that ever succeed on a seat there is one.  The inductive       *)
(* invariant follows that success from the thread that has it (phase       *)
(* "sold") to the row it writes.                                           *)
(***************************************************************************)
EXTENDS Booking, TLAPS

HasRow(r) == row[r].status # "NONE"

\* A row exists once its request is done, and then the request has a seat and
\* a token.
RowsAreDone ==
    /\ \A r \in Reservations : HasRow(r) => create[r].phase = "done"
    /\ \A r \in Reservations :
           create[r].phase \notin {"new", "failed"} =>
               create[r].seat \in Seats /\ create[r].token \in Tokens

\* Commands and the batch work on rows.
TargetsHaveRows ==
    /\ \A o \in Ops : op[o].phase # "idle" =>
                          op[o].target \in Reservations /\ HasRow(op[o].target)
    /\ \A r \in sweep.todo \cup sweep.flushed : HasRow(r)
    /\ sweep.now # Nobody => HasRow(sweep.now)

\* A confirm that has succeeded at concert-app and the row it leads to are the
\* one sale of their seat.
Sold(o) == op[o].phase = "sold"
SaleIsOne ==
    /\ \A r \in Reservations :
           row[r].status = "CONFIRMED" => status[SeatOf(r)] = "SOLD"
    /\ \A o \in Ops : Sold(o) => status[SeatOf(op[o].target)] = "SOLD"
    /\ \A r1, r2 \in Reservations :
           /\ row[r1].status = "CONFIRMED" /\ row[r2].status = "CONFIRMED"
           /\ SeatOf(r1) = SeatOf(r2)
           => r1 = r2
    /\ \A o1, o2 \in Ops :
           Sold(o1) /\ Sold(o2) /\ SeatOf(op[o1].target) = SeatOf(op[o2].target) => o1 = o2
    /\ \A o \in Ops, r \in Reservations :
           Sold(o) /\ row[r].status = "CONFIRMED" => SeatOf(r) # SeatOf(op[o].target)

\* A request that has consumed its token is the only one.
WasUsed(t) == token[t] = "USED"
Admitted(r) == create[r].phase \in {"consumed", "unlocked", "done"}
AdmittedOnce ==
    /\ \A r \in Reservations : Admitted(r) => WasUsed(create[r].token)
    /\ \A r1, r2 \in Reservations :
           Admitted(r1) /\ Admitted(r2) /\ create[r1].token = create[r2].token => r1 = r2

IInv == TypeOK /\ RowsAreDone /\ TargetsHaveRows /\ SaleIsOne /\ AdmittedOnce

-----------------------------------------------------------------------------
(* Most steps leave sales and admissions as they are.                      *)

SaleQuiet ==
    /\ \A s \in Seats : status[s] = "SOLD" => status'[s] = "SOLD"
    /\ \A r \in Reservations : row'[r].status = "CONFIRMED" => row[r].status = "CONFIRMED"
    /\ \A r \in Reservations : HasRow(r) => create'[r].seat = create[r].seat
    /\ \A o \in Ops : op'[o].phase = "sold" => op'[o] = op[o]

LEMMA SaleKept ==
    ASSUME IInv, SaleQuiet
    PROVE  SaleIsOne'
<1>1. ASSUME NEW r \in Reservations, row'[r].status = "CONFIRMED"
      PROVE  /\ row[r].status = "CONFIRMED" /\ SeatOf(r)' = SeatOf(r) /\ SeatOf(r) \in Seats
             /\ status'[SeatOf(r)] = "SOLD"
    <2>1. row[r].status = "CONFIRMED" /\ HasRow(r) /\ create[r].phase = "done"
        BY <1>1 DEF SaleQuiet, IInv, RowsAreDone, HasRow
    <2> QED
        BY <2>1 DEF SaleQuiet, IInv, RowsAreDone, SaleIsOne, SeatOf
<1>2. ASSUME NEW o \in Ops, op'[o].phase = "sold"
      PROVE  /\ op'[o] = op[o] /\ op[o].target \in Reservations
             /\ create'[op[o].target].seat = create[op[o].target].seat
             /\ create[op[o].target].seat \in Seats
             /\ status'[create[op[o].target].seat] = "SOLD"
    <2>1. /\ op[o].phase = "sold" /\ op'[o] = op[o]
          /\ op[o].target \in Reservations /\ HasRow(op[o].target)
        BY <1>2 DEF SaleQuiet, IInv, TargetsHaveRows
    <2>2. create[op[o].target].seat \in Seats /\ status[create[op[o].target].seat] = "SOLD"
        BY <2>1 DEF IInv, RowsAreDone, SaleIsOne, SeatOf, Sold
    <2> QED
        BY <2>1, <2>2 DEF SaleQuiet
<1> QED
    BY <1>1, <1>2 DEF IInv, SaleIsOne, Sold, SeatOf

TokenQuiet ==
    /\ \A t \in Tokens : WasUsed(t) => WasUsed(t)'
    /\ \A r \in Reservations :
           Admitted(r)' => Admitted(r) /\ create'[r].token = create[r].token

LEMMA AdmissionKept ==
    ASSUME IInv, TokenQuiet
    PROVE  AdmittedOnce'
<1>1. \A r \in Reservations : Admitted(r) => create[r].token \in Tokens
    BY DEF IInv, RowsAreDone, Admitted
<1> QED
    BY <1>1 DEF IInv, AdmittedOnce, TokenQuiet

LEMMA FaultType ==
    ASSUME faults \in 0 .. MaxFaults, Fault \/ NoFault
    PROVE  faults' \in 0 .. MaxFaults
BY FaultAssumption DEF Fault, NoFault

LEMMA CreateToFact ==
    ASSUME IInv, NEW r \in Reservations, NEW phase \in CreatePhases, CreateTo(r, phase)
    PROVE  /\ create' \in [Reservations -> [phase : CreatePhases,
                                           seat : Seats \cup {Nobody},
                                           token : Tokens \cup {Nobody}]]
           /\ create'[r].phase = phase
           /\ create'[r].seat = create[r].seat /\ create'[r].token = create[r].token
           /\ \A x \in Reservations : x # r => create'[x] = create[x]
BY DEF IInv, TypeOK, CreateTo

LEMMA GiveBackLockFact ==
    ASSUME IInv, NEW r, GiveBackLock(r)
    PROVE  lock' \in [Seats -> Reservations \cup {Nobody}]
BY DEF IInv, TypeOK, GiveBackLock

LEMMA OpToFact ==
    ASSUME IInv, NEW o \in Ops, NEW phase \in OpPhases, OpTo(o, phase)
    PROVE  /\ op' \in [Ops -> [phase : OpPhases, command : Commands,
                                target : Reservations \cup {Nobody}]]
           /\ op'[o].phase = phase /\ op'[o].target = op[o].target
           /\ \A x \in Ops : x # o => op'[x] = op[x]
BY DEF IInv, TypeOK, OpTo

LEMMA EndOpFact ==
    ASSUME IInv, NEW o \in Ops, EndOp(o)
    PROVE  /\ op' \in [Ops -> [phase : OpPhases, command : Commands,
                                target : Reservations \cup {Nobody}]]
           /\ op'[o].phase = "idle"
           /\ \A x \in Ops : x # o => op'[x] = op[x]
BY DEF IInv, TypeOK, EndOp, Idle, OpPhases, Commands

(* The four ends of a remote call, in each case as much as is needed here. *)
LEMMA HoldCallFact ==
    ASSUME IInv, NEW s, NEW ok \in BOOLEAN, HoldCall(s, ok)
    PROVE  /\ status' \in [Seats -> Seat!SeatStatus] /\ faults' \in 0 .. MaxFaults
           /\ \A z \in Seats : status[z] = "SOLD" => status'[z] = "SOLD"
BY FaultType DEF IInv, TypeOK, HoldCall, Call, Seat!Hold, Seat!Change, Seat!TypeOK,
   Admission!TypeOK, Seat!SeatStatus

LEMMA ReleaseCallFact ==
    ASSUME IInv, NEW s, NEW ok \in BOOLEAN, ReleaseCall(s, ok)
    PROVE  /\ status' \in [Seats -> Seat!SeatStatus] /\ faults' \in 0 .. MaxFaults
           /\ \A z \in Seats : status[z] = "SOLD" => status'[z] = "SOLD"
BY FaultType DEF IInv, TypeOK, ReleaseCall, Call, Seat!Release, Seat!Change, Seat!TypeOK,
   Admission!TypeOK, Seat!SeatStatus

LEMMA ConfirmCallFact ==
    ASSUME IInv, NEW s \in Seats, NEW ok \in BOOLEAN, ConfirmCall(s, ok)
    PROVE  /\ status' \in [Seats -> Seat!SeatStatus] /\ faults' \in 0 .. MaxFaults
           /\ \A z \in Seats : status[z] = "SOLD" => status'[z] = "SOLD"
           /\ ok => status[s] = "HOLD" /\ status'[s] = "SOLD"
BY FaultType DEF IInv, TypeOK, ConfirmCall, Call, Seat!Confirm, Seat!Change, Seat!TypeOK,
   Admission!TypeOK, Seat!SeatStatus

LEMMA RowsStayDone ==
    ASSUME IInv, NEW r \in Reservations, NEW phase \in CreatePhases, CreateTo(r, phase),
           create[r].phase \notin {"new", "failed", "done"}, UNCHANGED row
    PROVE  RowsAreDone'
<1>1. ~HasRow(r) /\ create[r].seat \in Seats /\ create[r].token \in Tokens
    BY DEF IInv, RowsAreDone
<1> QED
    BY <1>1, CreateToFact DEF IInv, RowsAreDone, HasRow

-----------------------------------------------------------------------------
LEMMA InitIInv == Init => IInv
BY NobodyAssumption, FaultAssumption DEF Init, IInv, TypeOK, RowsAreDone, TargetsHaveRows,
   SaleIsOne, AdmittedOnce, HasRow, Sold, Admitted, SeatOf, Idle, NoRun, CreatePhases,
   Admission!TypeOK, Admission!TokenStatus, RowStatus, Commands, OpPhases, Seat!Init,
   Seat!TypeOK, Admission!TypeOK, Seat!SeatStatus

LEMMA AcquireLockIInv ==
    ASSUME IInv, NEW r \in Reservations, NEW s \in Seats, NEW t \in Tokens,
       AcquireLock(r, s, t)
    PROVE  IInv'
<1>1. TypeOK'
    BY DEF IInv, TypeOK, AcquireLock, CreatePhases, Seat!TypeOK, Admission!TypeOK,
       Seat!SeatStatus
<1>2. RowsAreDone'
    BY DEF IInv, TypeOK, RowsAreDone, TargetsHaveRows, HasRow, AcquireLock
<1>3. TargetsHaveRows'
    BY DEF IInv, TypeOK, TargetsHaveRows, HasRow, AcquireLock
<1>4. SaleQuiet
    BY DEF IInv, TypeOK, SaleQuiet, RowsAreDone, HasRow, AcquireLock
<1>5. TokenQuiet
    BY DEF IInv, TypeOK, TokenQuiet, WasUsed, Admitted, AcquireLock
<1> QED
    BY <1>1, <1>2, <1>3, <1>4, <1>5, SaleKept, AdmissionKept DEF IInv

LEMMA LockConflictIInv ==
    ASSUME IInv, NEW r \in Reservations, NEW s \in Seats, LockConflict(r, s)
    PROVE  IInv'
<1>1. TypeOK'
    BY CreateToFact DEF IInv, TypeOK, LockConflict, CreatePhases, Seat!TypeOK,
       Admission!TypeOK, Seat!SeatStatus
<1>2. RowsAreDone'
    BY CreateToFact DEF IInv, TypeOK, RowsAreDone, TargetsHaveRows, HasRow, LockConflict,
       CreatePhases
<1>3. TargetsHaveRows'
    BY CreateToFact DEF IInv, TypeOK, TargetsHaveRows, HasRow, LockConflict, CreatePhases
<1>4. SaleQuiet
    BY CreateToFact DEF IInv, TypeOK, SaleQuiet, RowsAreDone, HasRow, LockConflict,
       CreatePhases
<1>5. TokenQuiet
    BY CreateToFact DEF IInv, TypeOK, TokenQuiet, WasUsed, Admitted, LockConflict,
       CreatePhases
<1> QED
    BY <1>1, <1>2, <1>3, <1>4, <1>5, SaleKept, AdmissionKept DEF IInv

LEMMA ValidateTokenIInv ==
    ASSUME IInv, NEW r \in Reservations, ValidateToken(r)
    PROVE  IInv'
<1>1. TypeOK'
    BY CreateToFact, GiveBackLockFact, FaultType DEF IInv, TypeOK, ValidateToken,
       CreatePhases, Seat!TypeOK, Admission!TypeOK, Seat!SeatStatus
<1>2. RowsAreDone'
    BY RowsStayDone DEF ValidateToken, CreatePhases
<1>3. TargetsHaveRows'
    BY CreateToFact DEF IInv, TypeOK, TargetsHaveRows, HasRow, ValidateToken, CreatePhases
<1>4. SaleQuiet
    BY CreateToFact DEF IInv, TypeOK, SaleQuiet, RowsAreDone, HasRow, ValidateToken,
       CreatePhases
<1>5. TokenQuiet
    BY CreateToFact DEF IInv, TypeOK, TokenQuiet, WasUsed, Admitted, ValidateToken,
       CreatePhases
<1> QED
    BY <1>1, <1>2, <1>3, <1>4, <1>5, SaleKept, AdmissionKept DEF IInv

LEMMA HoldSeatIInv ==
    ASSUME IInv, NEW r \in Reservations, HoldSeat(r)
    PROVE  IInv'
<1>1. TypeOK'
    BY CreateToFact, GiveBackLockFact, HoldCallFact DEF IInv, TypeOK, HoldSeat,
       CreatePhases, Seat!TypeOK, Admission!TypeOK, Seat!SeatStatus
<1>2. RowsAreDone'
    BY RowsStayDone DEF HoldSeat, CreatePhases
<1>3. TargetsHaveRows'
    BY CreateToFact DEF IInv, TypeOK, TargetsHaveRows, HasRow, HoldSeat, CreatePhases
<1>4. SaleQuiet
    BY HoldCallFact, CreateToFact DEF IInv, TypeOK, SaleQuiet, RowsAreDone, HasRow,
       HoldSeat, CreatePhases
<1>5. TokenQuiet
    BY CreateToFact DEF IInv, TypeOK, TokenQuiet, WasUsed, Admitted, HoldSeat,
       CreatePhases
<1> QED
    BY <1>1, <1>2, <1>3, <1>4, <1>5, SaleKept, AdmissionKept DEF IInv

LEMMA CompensateIInv ==
    ASSUME IInv, NEW r \in Reservations, Compensate(r)
    PROVE  IInv'
<1>1. TypeOK'
    BY CreateToFact, GiveBackLockFact, ReleaseCallFact DEF IInv, TypeOK, Compensate,
       CreatePhases, Seat!TypeOK, Admission!TypeOK, Seat!SeatStatus
<1>2. RowsAreDone'
    BY RowsStayDone DEF Compensate, CreatePhases
<1>3. TargetsHaveRows'
    BY CreateToFact DEF IInv, TypeOK, TargetsHaveRows, HasRow, Compensate, CreatePhases
<1>4. SaleQuiet
    <2>1. PICK ok \in BOOLEAN : ReleaseCall(create[r].seat, ok)
        BY DEF Compensate
    <2>2. \A z \in Seats : status[z] = "SOLD" => status'[z] = "SOLD"
        BY <2>1, ReleaseCallFact
    <2> QED
        BY <2>2, CreateToFact DEF SaleQuiet, Compensate, CreatePhases
<1>5. TokenQuiet
    BY CreateToFact DEF IInv, TypeOK, TokenQuiet, WasUsed, Admitted, Compensate,
       CreatePhases
<1> QED
    BY <1>1, <1>2, <1>3, <1>4, <1>5, SaleKept, AdmissionKept DEF IInv

LEMMA UnlockIInv ==
    ASSUME IInv, NEW r \in Reservations, Unlock(r)
    PROVE  IInv'
<1>1. TypeOK'
    BY CreateToFact, GiveBackLockFact DEF IInv, TypeOK, Unlock, CreatePhases, Seat!TypeOK,
       Admission!TypeOK, Seat!SeatStatus
<1>2. RowsAreDone'
    BY RowsStayDone DEF Unlock, CreatePhases
<1>3. TargetsHaveRows'
    BY CreateToFact DEF IInv, TypeOK, TargetsHaveRows, HasRow, Unlock, CreatePhases
<1>4. SaleQuiet
    BY CreateToFact DEF IInv, TypeOK, SaleQuiet, RowsAreDone, HasRow, Unlock, CreatePhases
<1>5. TokenQuiet
    BY CreateToFact DEF IInv, TypeOK, TokenQuiet, WasUsed, Admitted, Unlock, CreatePhases
<1> QED
    BY <1>1, <1>2, <1>3, <1>4, <1>5, SaleKept, AdmissionKept DEF IInv

LEMMA CommitCreateIInv ==
    ASSUME IInv, NEW r \in Reservations, CommitCreate(r)
    PROVE  IInv'
<1>1. TypeOK'
    BY CreateToFact DEF IInv, TypeOK, CommitCreate, CreatePhases, RowStatus, Seat!TypeOK,
       Admission!TypeOK, Seat!SeatStatus
<1>2. RowsAreDone'
    BY CreateToFact DEF IInv, TypeOK, RowsAreDone, TargetsHaveRows, HasRow, CommitCreate,
       CreatePhases
<1>3. TargetsHaveRows'
    BY CreateToFact DEF IInv, TypeOK, TargetsHaveRows, HasRow, CommitCreate, CreatePhases
<1>4. SaleQuiet
    BY CreateToFact DEF IInv, TypeOK, SaleQuiet, RowsAreDone, HasRow, CommitCreate,
       CreatePhases
<1>5. TokenQuiet
    BY CreateToFact DEF IInv, TypeOK, TokenQuiet, WasUsed, Admitted, CommitCreate,
       CreatePhases
<1> QED
    BY <1>1, <1>2, <1>3, <1>4, <1>5, SaleKept, AdmissionKept DEF IInv

LEMMA CreateDiesIInv ==
    ASSUME IInv, NEW r \in Reservations, CreateDies(r)
    PROVE  IInv'
<1>1. TypeOK'
    BY CreateToFact, FaultType DEF IInv, TypeOK, CreateDies, CreatePhases, Seat!TypeOK,
       Admission!TypeOK, Seat!SeatStatus
<1>2. RowsAreDone'
    BY RowsStayDone DEF CreateDies, CreatePhases
<1>3. TargetsHaveRows'
    BY CreateToFact DEF IInv, TypeOK, TargetsHaveRows, HasRow, CreateDies, CreatePhases
<1>4. SaleQuiet
    BY CreateToFact DEF IInv, TypeOK, SaleQuiet, RowsAreDone, HasRow, CreateDies,
       CreatePhases
<1>5. TokenQuiet
    BY CreateToFact DEF IInv, TypeOK, TokenQuiet, WasUsed, Admitted, CreateDies,
       CreatePhases
<1> QED
    BY <1>1, <1>2, <1>3, <1>4, <1>5, SaleKept, AdmissionKept DEF IInv

LEMMA LeaseEndsIInv ==
    ASSUME IInv, NEW s \in Seats, LeaseEnds(s)
    PROVE  IInv'
<1>1. TypeOK'
    BY DEF IInv, TypeOK, LeaseEnds, Seat!TypeOK, Admission!TypeOK, Seat!SeatStatus
<1>2. RowsAreDone'
    BY DEF IInv, TypeOK, RowsAreDone, TargetsHaveRows, HasRow, LeaseEnds
<1>3. TargetsHaveRows'
    BY DEF IInv, TypeOK, TargetsHaveRows, HasRow, LeaseEnds
<1>4. SaleQuiet
    BY DEF IInv, TypeOK, SaleQuiet, RowsAreDone, HasRow, LeaseEnds
<1>5. TokenQuiet
    BY DEF IInv, TypeOK, TokenQuiet, WasUsed, Admitted, LeaseEnds
<1> QED
    BY <1>1, <1>2, <1>3, <1>4, <1>5, SaleKept, AdmissionKept DEF IInv

LEMMA HoldTimeEndsIInv ==
    ASSUME IInv, NEW r \in Reservations, HoldTimeEnds(r)
    PROVE  IInv'
<1>1. TypeOK'
    BY DEF IInv, TypeOK, HoldTimeEnds, Seat!TypeOK, Admission!TypeOK, Seat!SeatStatus
<1>2. RowsAreDone'
    BY DEF IInv, TypeOK, RowsAreDone, TargetsHaveRows, HasRow, HoldTimeEnds
<1>3. TargetsHaveRows'
    BY DEF IInv, TypeOK, TargetsHaveRows, HasRow, HoldTimeEnds
<1>4. SaleQuiet
    BY DEF IInv, TypeOK, SaleQuiet, RowsAreDone, HasRow, HoldTimeEnds
<1>5. TokenQuiet
    BY DEF IInv, TypeOK, TokenQuiet, WasUsed, Admitted, HoldTimeEnds
<1> QED
    BY <1>1, <1>2, <1>3, <1>4, <1>5, SaleKept, AdmissionKept DEF IInv

LEMMA TokenEndsIInv ==
    ASSUME IInv, NEW t \in Tokens, TokenEnds(t)
    PROVE  IInv'
<1>1. UNCHANGED <<status, lock, create, row, op, sweep, faults>>
    BY DEF TokenEnds
<1>2. Admission!TypeOK' /\ \A u \in Tokens : WasUsed(u) => WasUsed(u)'
    BY DEF IInv, TypeOK, WasUsed, TokenEnds, Admission!TypeOK,
       Admission!TokenStatus, Admission!Lapse, Admission!Change
<1>3. TypeOK'
    BY <1>1, <1>2 DEF IInv, TypeOK, Seat!TypeOK, Admission!TypeOK
<1>4. RowsAreDone' /\ TargetsHaveRows'
    BY <1>1 DEF IInv, RowsAreDone, TargetsHaveRows, HasRow
<1>5. SaleQuiet
    BY <1>1 DEF SaleQuiet
<1>6. TokenQuiet
    BY <1>1, <1>2 DEF TokenQuiet, WasUsed, Admitted
<1> QED
    BY <1>3, <1>4, <1>5, <1>6, SaleKept, AdmissionKept DEF IInv

LEMMA ReadRowIInv ==
    ASSUME IInv, NEW o \in Ops, NEW r \in Reservations, NEW c \in Commands, ReadRow(o, r, c)
    PROVE  IInv'
<1>1. TypeOK'
    BY DEF IInv, TypeOK, ReadRow, Accepts, OpPhases, Seat!TypeOK, Admission!TypeOK,
       Seat!SeatStatus
<1>2. RowsAreDone'
    BY DEF IInv, TypeOK, RowsAreDone, TargetsHaveRows, HasRow, ReadRow, Accepts
<1>3. TargetsHaveRows'
    BY DEF IInv, TypeOK, TargetsHaveRows, HasRow, ReadRow, Accepts
<1>4. SaleQuiet
    BY DEF IInv, TypeOK, SaleQuiet, RowsAreDone, HasRow, ReadRow, Accepts
<1>5. TokenQuiet
    BY DEF IInv, TypeOK, TokenQuiet, WasUsed, Admitted, ReadRow, Accepts
<1> QED
    BY <1>1, <1>2, <1>3, <1>4, <1>5, SaleKept, AdmissionKept DEF IInv

LEMMA FlushCancelledIInv ==
    ASSUME IInv, NEW o \in Ops, FlushCancelled(o)
    PROVE  IInv'
<1>1. TypeOK'
    BY OpToFact DEF IInv, TypeOK, FlushCancelled, OpPhases, Seat!TypeOK, Admission!TypeOK,
       Seat!SeatStatus
<1>2. RowsAreDone'
    BY OpToFact DEF IInv, TypeOK, RowsAreDone, TargetsHaveRows, HasRow, FlushCancelled,
       OpPhases
<1>3. TargetsHaveRows'
    BY OpToFact DEF IInv, TypeOK, TargetsHaveRows, HasRow, FlushCancelled, OpPhases
<1>4. SaleQuiet
    BY OpToFact DEF IInv, TypeOK, SaleQuiet, RowsAreDone, HasRow, FlushCancelled, OpPhases
<1>5. TokenQuiet
    BY OpToFact DEF IInv, TypeOK, TokenQuiet, WasUsed, Admitted, FlushCancelled, OpPhases
<1> QED
    BY <1>1, <1>2, <1>3, <1>4, <1>5, SaleKept, AdmissionKept DEF IInv

LEMMA ReleaseSeatIInv ==
    ASSUME IInv, NEW o \in Ops, ReleaseSeat(o)
    PROVE  IInv'
<1>1. TypeOK'
    BY OpToFact, EndOpFact, ReleaseCallFact DEF IInv, TypeOK, ReleaseSeat, OpPhases,
       Seat!TypeOK, Admission!TypeOK, Seat!SeatStatus
<1>2. RowsAreDone'
    BY OpToFact, EndOpFact DEF IInv, TypeOK, RowsAreDone, TargetsHaveRows, HasRow,
       ReleaseSeat, OpPhases
<1>3. TargetsHaveRows'
    <2>1. op[o].target \in Reservations /\ HasRow(op[o].target)
        BY DEF IInv, TargetsHaveRows, ReleaseSeat
    <2>2. CASE OpTo(o, "released")
        BY <2>1, <2>2, OpToFact DEF IInv, TargetsHaveRows, HasRow, ReleaseSeat, OpPhases
    <2>3. CASE EndOp(o)
        BY <2>3, EndOpFact DEF IInv, TargetsHaveRows, HasRow, ReleaseSeat
    <2> QED
        BY <2>2, <2>3 DEF ReleaseSeat
<1>4. SaleQuiet
    BY ReleaseCallFact, OpToFact, EndOpFact DEF IInv, TypeOK, SaleQuiet, RowsAreDone,
       HasRow, ReleaseSeat, OpPhases
<1>5. TokenQuiet
    BY OpToFact, EndOpFact DEF IInv, TypeOK, TokenQuiet, WasUsed, Admitted,
       ReleaseSeat, OpPhases
<1> QED
    BY <1>1, <1>2, <1>3, <1>4, <1>5, SaleKept, AdmissionKept DEF IInv

LEMMA CommitCancelledIInv ==
    ASSUME IInv, NEW o \in Ops, CommitCancelled(o)
    PROVE  IInv'
<1>1. TypeOK'
    BY EndOpFact DEF IInv, TypeOK, CommitCancelled, RowStatus, Seat!TypeOK,
       Admission!TypeOK, Seat!SeatStatus
<1>2. RowsAreDone'
    BY EndOpFact DEF IInv, TypeOK, RowsAreDone, TargetsHaveRows, HasRow, CommitCancelled
<1>3. TargetsHaveRows'
    BY EndOpFact DEF IInv, TypeOK, TargetsHaveRows, HasRow, CommitCancelled
<1>4. SaleQuiet
    BY EndOpFact DEF IInv, TypeOK, SaleQuiet, RowsAreDone, HasRow, CommitCancelled
<1>5. TokenQuiet
    BY EndOpFact DEF IInv, TypeOK, TokenQuiet, WasUsed, Admitted, CommitCancelled
<1> QED
    BY <1>1, <1>2, <1>3, <1>4, <1>5, SaleKept, AdmissionKept DEF IInv

LEMMA OpDiesIInv ==
    ASSUME IInv, NEW o \in Ops, OpDies(o)
    PROVE  IInv'
<1>1. TypeOK'
    BY EndOpFact, FaultType DEF IInv, TypeOK, OpDies, Seat!TypeOK, Admission!TypeOK,
       Seat!SeatStatus
<1>2. RowsAreDone'
    BY EndOpFact DEF IInv, TypeOK, RowsAreDone, TargetsHaveRows, HasRow, OpDies
<1>3. TargetsHaveRows'
    BY EndOpFact DEF IInv, TypeOK, TargetsHaveRows, HasRow, OpDies
<1>4. SaleQuiet
    BY EndOpFact DEF IInv, TypeOK, SaleQuiet, RowsAreDone, HasRow, OpDies
<1>5. TokenQuiet
    BY EndOpFact DEF IInv, TypeOK, TokenQuiet, WasUsed, Admitted, OpDies
<1> QED
    BY <1>1, <1>2, <1>3, <1>4, <1>5, SaleKept, AdmissionKept DEF IInv

LEMMA SweepStartIInv ==
    ASSUME IInv, SweepStart
    PROVE  IInv'
<1>1. TypeOK'
    BY DEF IInv, TypeOK, SweepStart, Due, NoRun, Seat!TypeOK, Admission!TypeOK,
       Seat!SeatStatus
<1>2. RowsAreDone'
    BY DEF IInv, TypeOK, RowsAreDone, TargetsHaveRows, HasRow, SweepStart, Due, NoRun
<1>3. TargetsHaveRows'
    BY DEF IInv, TypeOK, TargetsHaveRows, HasRow, SweepStart, Due, NoRun
<1>4. SaleQuiet
    BY DEF IInv, TypeOK, SaleQuiet, RowsAreDone, HasRow, SweepStart, Due, NoRun
<1>5. TokenQuiet
    BY DEF IInv, TypeOK, TokenQuiet, WasUsed, Admitted, SweepStart, Due, NoRun
<1> QED
    BY <1>1, <1>2, <1>3, <1>4, <1>5, SaleKept, AdmissionKept DEF IInv

LEMMA SweepFlushIInv ==
    ASSUME IInv, NEW r \in Reservations, SweepFlush(r)
    PROVE  IInv'
<1>1. TypeOK'
    BY DEF IInv, TypeOK, SweepFlush, Seat!TypeOK, Admission!TypeOK, Seat!SeatStatus
<1>2. RowsAreDone'
    BY DEF IInv, TypeOK, RowsAreDone, TargetsHaveRows, HasRow, SweepFlush
<1>3. TargetsHaveRows'
    BY DEF IInv, TypeOK, TargetsHaveRows, HasRow, SweepFlush
<1>4. SaleQuiet
    BY DEF IInv, TypeOK, SaleQuiet, RowsAreDone, HasRow, SweepFlush
<1>5. TokenQuiet
    BY DEF IInv, TypeOK, TokenQuiet, WasUsed, Admitted, SweepFlush
<1> QED
    BY <1>1, <1>2, <1>3, <1>4, <1>5, SaleKept, AdmissionKept DEF IInv

LEMMA SweepReleaseIInv ==
    ASSUME IInv, SweepRelease
    PROVE  IInv'
<1>1. TypeOK'
    <2>1. PICK ok \in BOOLEAN : ReleaseCall(SeatOf(sweep.now), ok)
        BY DEF SweepRelease
    <2>2. status' \in [Seats -> Seat!SeatStatus] /\ faults' \in 0 .. MaxFaults
        BY <2>1, ReleaseCallFact
    <2> QED
        BY <2>2 DEF IInv, TypeOK, SweepRelease, Seat!TypeOK, Admission!TypeOK
<1>2. RowsAreDone'
    BY DEF IInv, TypeOK, RowsAreDone, TargetsHaveRows, HasRow, SweepRelease
<1>3. TargetsHaveRows'
    BY DEF IInv, TypeOK, TargetsHaveRows, HasRow, SweepRelease
<1>4. SaleQuiet
    BY ReleaseCallFact DEF IInv, TypeOK, SaleQuiet, RowsAreDone, HasRow, SweepRelease
<1>5. TokenQuiet
    BY DEF IInv, TypeOK, TokenQuiet, WasUsed, Admitted, SweepRelease
<1> QED
    BY <1>1, <1>2, <1>3, <1>4, <1>5, SaleKept, AdmissionKept DEF IInv

LEMMA SweepCommitIInv ==
    ASSUME IInv, SweepCommit
    PROVE  IInv'
<1>1. TypeOK'
    BY DEF IInv, TypeOK, SweepCommit, NoRun, RowStatus, Seat!TypeOK, Admission!TypeOK,
       Seat!SeatStatus
<1>2. RowsAreDone'
    BY DEF IInv, TypeOK, RowsAreDone, TargetsHaveRows, HasRow, SweepCommit, NoRun
<1>3. TargetsHaveRows'
    BY DEF IInv, TypeOK, TargetsHaveRows, HasRow, SweepCommit, NoRun
<1>4. SaleQuiet
    BY DEF IInv, TypeOK, SaleQuiet, RowsAreDone, HasRow, SweepCommit, NoRun
<1>5. TokenQuiet
    BY DEF IInv, TypeOK, TokenQuiet, WasUsed, Admitted, SweepCommit, NoRun
<1> QED
    BY <1>1, <1>2, <1>3, <1>4, <1>5, SaleKept, AdmissionKept DEF IInv

LEMMA SweepDiesIInv ==
    ASSUME IInv, SweepDies
    PROVE  IInv'
<1>1. TypeOK'
    BY FaultType DEF IInv, TypeOK, SweepDies, NoRun, Seat!TypeOK, Admission!TypeOK,
       Seat!SeatStatus
<1>2. RowsAreDone'
    BY DEF IInv, TypeOK, RowsAreDone, TargetsHaveRows, HasRow, SweepDies, NoRun
<1>3. TargetsHaveRows'
    BY DEF IInv, TypeOK, TargetsHaveRows, HasRow, SweepDies, NoRun
<1>4. SaleQuiet
    BY DEF IInv, TypeOK, SaleQuiet, RowsAreDone, HasRow, SweepDies, NoRun
<1>5. TokenQuiet
    BY DEF IInv, TypeOK, TokenQuiet, WasUsed, Admitted, SweepDies, NoRun
<1> QED
    BY <1>1, <1>2, <1>3, <1>4, <1>5, SaleKept, AdmissionKept DEF IInv

-----------------------------------------------------------------------------
(* The step that admits a request, and the two that sell a seat.           *)

LEMMA SaveAndConsumeIInv ==
    ASSUME IInv, NEW r \in Reservations, SaveAndConsume(r)
    PROVE  IInv'
<1> DEFINE t == create[r].token
<1>1. /\ create[r].phase = "held" /\ t \in Tokens
      /\ Admission!TypeOK
    BY DEF SaveAndConsume, IInv, RowsAreDone, TypeOK
<1>2. /\ Admission!TypeOK' /\ faults' \in 0 .. MaxFaults
      /\ \A u \in Tokens : WasUsed(u) => WasUsed(u)'
    BY <1>1, FaultType DEF IInv, TypeOK, SaveAndConsume, ConsumeCall, Call, UseToken,
       WasUsed, Admission!TypeOK, Admission!TokenStatus, Admission!Use, Admission!Change
<1>3. TypeOK'
    BY <1>2, CreateToFact DEF IInv, TypeOK, SaveAndConsume, CreatePhases, Seat!TypeOK,
       Admission!TypeOK
<1>4. RowsAreDone'
    BY RowsStayDone DEF SaveAndConsume, CreatePhases
<1>5. TargetsHaveRows'
    BY DEF IInv, TargetsHaveRows, HasRow, SaveAndConsume
<1>6. SaleQuiet
    BY CreateToFact DEF SaleQuiet, SaveAndConsume, CreatePhases
<1>7. AdmittedOnce'
    <2>1. CASE ConsumeCall(t, TRUE) /\ CreateTo(r, "consumed")
        <3>1. token[t] = "ACTIVE" /\ token'[t] = "USED"
            BY <1>1, <2>1 DEF ConsumeCall, Call, UseToken, Admission!TypeOK,
               Admission!Use, Admission!Change
        <3>2. \A x \in Reservations : Admitted(x) => create[x].token # t
            BY <3>1 DEF IInv, AdmittedOnce, WasUsed
        <3>3. /\ create'[r].token = t
              /\ \A x \in Reservations : x # r => create'[x] = create[x]
            BY <2>1, CreateToFact DEF CreatePhases
        <3>4. \A x \in Reservations : Admitted(x) => create[x].token \in Tokens
            BY DEF IInv, RowsAreDone, Admitted
        <3> QED
            BY <1>2, <3>1, <3>2, <3>3, <3>4 DEF IInv, AdmittedOnce, WasUsed, Admitted
    <2>2. CASE CreateTo(r, "undo")
        <3>1. TokenQuiet
            BY <1>2, <2>2, CreateToFact DEF TokenQuiet, WasUsed, Admitted, CreatePhases
        <3> QED
            BY <3>1, AdmissionKept
    <2> QED
        BY <2>1, <2>2 DEF SaveAndConsume
<1> QED
    BY <1>3, <1>4, <1>5, <1>6, <1>7, SaleKept DEF IInv

LEMMA SellSeatIInv ==
    ASSUME IInv, NEW o \in Ops, SellSeat(o)
    PROVE  IInv'
<1> DEFINE r == op[o].target
           s == create[op[o].target].seat
<1>1. op[o].phase = "read" /\ r \in Reservations /\ HasRow(r) /\ s \in Seats
    BY DEF SellSeat, IInv, TargetsHaveRows, RowsAreDone
<1>2. PICK ok \in BOOLEAN : /\ ConfirmCall(s, ok)
                            /\ ok => OpTo(o, "sold")
                            /\ ~ok => EndOp(o)
    BY DEF SellSeat, SeatOf
<1>3. /\ status' \in [Seats -> Seat!SeatStatus] /\ faults' \in 0 .. MaxFaults
      /\ \A z \in Seats : status[z] = "SOLD" => status'[z] = "SOLD"
      /\ ok => status[s] = "HOLD" /\ status'[s] = "SOLD"
    BY <1>1, <1>2, ConfirmCallFact
<1>4. /\ op' \in [Ops -> [phase : OpPhases, command : Commands,
                          target : Reservations \cup {Nobody}]]
      /\ op'[o].phase = "idle" \/ (ok /\ op'[o].phase = "sold" /\ op'[o].target = r)
      /\ \A x \in Ops : x # o => op'[x] = op[x]
    BY <1>2, OpToFact, EndOpFact DEF OpPhases
<1>5. TypeOK'
    BY <1>3, <1>4 DEF IInv, TypeOK, SellSeat, Seat!TypeOK, Admission!TypeOK
<1>6. RowsAreDone'
    BY DEF IInv, RowsAreDone, HasRow, SellSeat
<1>7. TargetsHaveRows'
    BY <1>1, <1>4 DEF IInv, TargetsHaveRows, HasRow, SellSeat
<1>8. TokenQuiet
    BY DEF TokenQuiet, WasUsed, Admitted, SellSeat
<1>9. SaleIsOne'
    <2>1. CASE op'[o].phase = "idle"
        <3>1. SaleQuiet
            BY <1>3, <1>4, <2>1 DEF SaleQuiet, SellSeat
        <3> QED
            BY <3>1, SaleKept
    <2>2. CASE ok /\ op'[o].phase = "sold" /\ op'[o].target = r
        \* The seat was on HOLD, so no sale of it was under way or done.
        <3>1. \A x \in Reservations : row[x].status = "CONFIRMED" =>
                  create[x].seat # s /\ create[x].seat \in Seats
            BY <1>3, <2>2 DEF IInv, SaleIsOne, SeatOf, RowsAreDone, HasRow
        <3>2. \A x \in Ops : op[x].phase = "sold" =>
                  /\ op[x].target \in Reservations
                  /\ create[op[x].target].seat # s /\ create[op[x].target].seat \in Seats
            BY <1>3, <2>2 DEF IInv, SaleIsOne, SeatOf, Sold, TargetsHaveRows, RowsAreDone
        <3>3. row' = row /\ create' = create
            BY DEF SellSeat
        <3> QED
            BY <1>1, <1>3, <1>4, <2>2, <3>1, <3>2, <3>3 DEF IInv, SaleIsOne, SeatOf, Sold
    <2> QED
        BY <1>4, <2>1, <2>2
<1> QED
    BY <1>5, <1>6, <1>7, <1>8, <1>9, AdmissionKept DEF IInv

LEMMA CommitConfirmedIInv ==
    ASSUME IInv, NEW o \in Ops, CommitConfirmed(o)
    PROVE  IInv'
<1> DEFINE r == op[o].target
<1>1. op[o].phase = "sold" /\ r \in Reservations /\ HasRow(r)
    BY DEF CommitConfirmed, IInv, TargetsHaveRows
<1>2. /\ row' \in [Reservations -> [status : RowStatus, expired : BOOLEAN]]
      /\ row'[r].status = "CONFIRMED"
      /\ \A x \in Reservations : x # r => row'[x] = row[x]
    BY <1>1 DEF IInv, TypeOK, CommitConfirmed, RowStatus
<1>3. /\ op' \in [Ops -> [phase : OpPhases, command : Commands,
                          target : Reservations \cup {Nobody}]]
      /\ op'[o].phase = "idle"
      /\ \A x \in Ops : x # o => op'[x] = op[x]
    BY EndOpFact DEF CommitConfirmed
<1>4. TypeOK'
    BY <1>2, <1>3 DEF IInv, TypeOK, CommitConfirmed, Seat!TypeOK, Admission!TypeOK
<1>5. RowsAreDone' /\ TargetsHaveRows'
    <2>1. \A x \in Reservations : HasRow(x) <=> HasRow(x)'
        BY <1>1, <1>2 DEF HasRow
    <2>2. \A x \in Ops : op'[x].phase # "idle" => op'[x] = op[x]
        BY <1>3
    <2>3. UNCHANGED create /\ UNCHANGED sweep
        BY DEF CommitConfirmed
    <2>4. RowsAreDone'
        BY <2>1, <2>3 DEF IInv, RowsAreDone
    <2>5. /\ sweep.todo \cup sweep.flushed \subseteq Reservations
          /\ sweep.now \in Reservations \cup {Nobody}
        BY DEF IInv, TypeOK
    <2>6. TargetsHaveRows'
        BY <2>1, <2>2, <2>3, <2>5 DEF IInv, TargetsHaveRows
    <2> QED
        BY <2>4, <2>6
<1>6. TokenQuiet
    BY DEF TokenQuiet, WasUsed, Admitted, CommitConfirmed
<1>7. SaleIsOne'
    BY <1>1, <1>2, <1>3 DEF IInv, SaleIsOne, SeatOf, Sold, CommitConfirmed,
       TargetsHaveRows
<1> QED
    BY <1>4, <1>5, <1>6, <1>7, AdmissionKept DEF IInv

-----------------------------------------------------------------------------
(* Every step keeps the invariant.                                         *)

LEMMA CreateStepIInv ==
    ASSUME IInv, NEW r \in Reservations, CreateStep(r)
    PROVE  IInv'
BY ValidateTokenIInv, HoldSeatIInv, SaveAndConsumeIInv, CompensateIInv, UnlockIInv,
   CommitCreateIInv DEF CreateStep

LEMMA OpStepIInv ==
    ASSUME IInv, NEW o \in Ops, OpStep(o)
    PROVE  IInv'
BY FlushCancelledIInv, ReleaseSeatIInv, CommitCancelledIInv, SellSeatIInv,
   CommitConfirmedIInv DEF OpStep

LEMMA SweepStepIInv ==
    ASSUME IInv, SweepStep
    PROVE  IInv'
BY SweepFlushIInv, SweepReleaseIInv, SweepCommitIInv DEF SweepStep

LEMMA NextIInv ==
    ASSUME IInv, [Next]_vars
    PROVE  IInv'
<1>1. ASSUME NEW r \in Reservations, NEW s \in Seats,
             (\E t \in Tokens : AcquireLock(r, s, t)) \/ LockConflict(r, s)
      PROVE  IInv'
    BY <1>1, AcquireLockIInv, LockConflictIInv
<1>2. ASSUME NEW r \in Reservations, CreateStep(r) \/ CreateDies(r) \/ HoldTimeEnds(r)
      PROVE  IInv'
    BY <1>2, CreateStepIInv, CreateDiesIInv, HoldTimeEndsIInv
<1>3. ASSUME NEW s \in Seats, LeaseEnds(s)
      PROVE  IInv'
    BY <1>3, LeaseEndsIInv
<1>4. ASSUME NEW t \in Tokens, TokenEnds(t)
      PROVE  IInv'
    BY <1>4, TokenEndsIInv
<1>5. ASSUME NEW o \in Ops, NEW r \in Reservations, NEW c \in Commands, ReadRow(o, r, c)
      PROVE  IInv'
    BY <1>5, ReadRowIInv
<1>6. ASSUME NEW o \in Ops, OpStep(o) \/ OpDies(o)
      PROVE  IInv'
    BY <1>6, OpStepIInv, OpDiesIInv
<1>7. CASE SweepStart \/ SweepStep \/ SweepDies
    BY <1>7, SweepStartIInv, SweepStepIInv, SweepDiesIInv
<1>8. CASE UNCHANGED vars
    BY <1>8 DEF vars, IInv, TypeOK, Seat!TypeOK, Admission!TypeOK, RowsAreDone,
       TargetsHaveRows, SaleIsOne, AdmittedOnce, WasUsed, HasRow, Admitted, Sold, SeatOf
<1> QED
    BY <1>1, <1>2, <1>3, <1>4, <1>5, <1>6, <1>7, <1>8 DEF Next

LEMMA Invariance == Spec => []IInv
BY InitIInv, NextIInv, PTL DEF Spec

LEMMA IInvSells ==
    ASSUME IInv
    PROVE  NoDoubleSale
BY DEF IInv, SaleIsOne, NoDoubleSale, Confirmed, SeatOf

LEMMA IInvAdmits ==
    ASSUME IInv
    PROVE  TokenAdmitsOnce
BY DEF IInv, RowsAreDone, AdmittedOnce, WasUsed, HasRow, Admitted, TokenAdmitsOnce

-----------------------------------------------------------------------------
\* Seats, tokens, requests, rows and commands keep their shape.
THEOREM TypeCorrect == Spec => []TypeOK
<1>1. IInv => TypeOK
    BY DEF IInv
<1> QED
    BY <1>1, Invariance, PTL

\* Any number of requests, of confirms racing cancels and expiries, and of lost
\* answers and crashes leave a seat CONFIRMED for one reservation at most, and
\* SOLD then.
THEOREM SeatSoldToOne == Spec => []NoDoubleSale
<1>1. IInv => NoDoubleSale
    BY IInvSells
<1> QED
    BY <1>1, Invariance, PTL

\* A waiting-room token leads to one reservation at most, however many requests
\* carry it at once.
THEOREM TokenUsedOnce == Spec => []TokenAdmitsOnce
<1>1. IInv => TokenAdmitsOnce
    BY IInvAdmits
<1> QED
    BY <1>1, Invariance, PTL

-----------------------------------------------------------------------------
(* Without the expiry batch, which nothing in the code calls, a sale is    *)
(* final: what could replace CONFIRMED is a command that has released the  *)
(* seat, and concert-app does not release a SOLD seat.                     *)

FinalInv ==
    /\ IInv
    /\ ~SweepOn => sweep = NoRun
    /\ \A o \in Ops : op[o].phase = "released" => row[op[o].target].status # "CONFIRMED"

SaleStays ==
    /\ \A r \in Reservations : row'[r].status = "CONFIRMED" <=> row[r].status = "CONFIRMED"
    /\ \A r \in Reservations : HasRow(r) => SeatOf(r)' = SeatOf(r)

OpsQuiet ==
    /\ \A o \in Ops : op'[o].phase = "released" => op'[o] = op[o]
    /\ ~SweepOn => sweep' = NoRun

LEMMA FinalKept ==
    ASSUME FinalInv, IInv', SaleStays, OpsQuiet
    PROVE  FinalInv'
BY DEF FinalInv, IInv, TargetsHaveRows, SaleStays, OpsQuiet

LEMMA CreateStepStays ==
    ASSUME FinalInv, NEW r \in Reservations, CreateStep(r) \/ CreateDies(r)
    PROVE  SaleStays /\ OpsQuiet
<1>1. PICK phase \in CreatePhases : CreateTo(r, phase)
    BY DEF CreateStep, ValidateToken, HoldSeat, SaveAndConsume, Compensate, Unlock,
       CommitCreate, CreateDies, CreatePhases
<1>2. \A x \in Reservations : SeatOf(x)' = SeatOf(x)
    BY <1>1, CreateToFact DEF SeatOf, FinalInv
<1>3. UNCHANGED <<op, sweep>>
    BY DEF CreateStep, ValidateToken, HoldSeat, SaveAndConsume, Compensate, Unlock,
       CommitCreate, CreateDies
<1>4. \A x \in Reservations : row'[x].status = "CONFIRMED" <=> row[x].status = "CONFIRMED"
    <2>1. CASE UNCHANGED row
        BY <2>1
    <2>2. CASE CommitCreate(r)
        BY <2>2 DEF FinalInv, IInv, TypeOK, RowsAreDone, HasRow, CommitCreate
    <2> QED
        BY <2>1, <2>2 DEF CreateStep, ValidateToken, HoldSeat, SaveAndConsume, Compensate,
           Unlock, CreateDies
<1> QED
    BY <1>2, <1>3, <1>4 DEF SaleStays, OpsQuiet, FinalInv

LEMMA OutsideStays ==
    ASSUME FinalInv,
           \/ \E r \in Reservations, s \in Seats :
                  (\E t \in Tokens : AcquireLock(r, s, t)) \/ LockConflict(r, s)
           \/ \E r \in Reservations : HoldTimeEnds(r)
           \/ \E s \in Seats : LeaseEnds(s)
           \/ \E t \in Tokens : TokenEnds(t)
           \/ UNCHANGED vars
    PROVE  SaleStays /\ OpsQuiet
<1>1. CASE \E r \in Reservations, s \in Seats :
               (\E t \in Tokens : AcquireLock(r, s, t)) \/ LockConflict(r, s)
    <2>1. PICK r \in Reservations :
              /\ create[r].phase = "new" /\ UNCHANGED <<row, op, sweep>>
              /\ \A x \in Reservations : x # r => create'[x] = create[x]
        BY <1>1 DEF AcquireLock, LockConflict, CreateTo, FinalInv, IInv, TypeOK
    <2>2. ~HasRow(r)
        BY <2>1 DEF FinalInv, IInv, RowsAreDone
    <2> QED
        BY <2>1, <2>2 DEF SaleStays, OpsQuiet, FinalInv, SeatOf
<1>2. CASE \E r \in Reservations : HoldTimeEnds(r)
    BY <1>2 DEF HoldTimeEnds, SaleStays, OpsQuiet, FinalInv, IInv, TypeOK, SeatOf
<1>3. CASE UNCHANGED <<row, create, op, sweep>>
    BY <1>3 DEF SaleStays, OpsQuiet, FinalInv, SeatOf
<1> QED
    BY <1>1, <1>2, <1>3 DEF LeaseEnds, TokenEnds, vars

LEMMA CommandStays ==
    ASSUME FinalInv, NEW o \in Ops,
           \/ FlushCancelled(o) \/ CommitCancelled(o) \/ SellSeat(o) \/ OpDies(o)
           \/ \E r \in Reservations, c \in Commands : ReadRow(o, r, c)
    PROVE  SaleStays /\ OpsQuiet
<1>1. UNCHANGED <<create, sweep>>
    BY DEF FlushCancelled, CommitCancelled, SellSeat, OpDies, ReadRow
<1>2. \A x \in Ops : op'[x].phase = "released" => op'[x] = op[x]
    <2>1. CASE EndOp(o)
        BY <2>1, EndOpFact DEF FinalInv
    <2>2. CASE OpTo(o, "flushed") \/ OpTo(o, "sold")
        BY <2>2, OpToFact DEF FinalInv, OpPhases
    <2>3. CASE \E r \in Reservations, c \in Commands : ReadRow(o, r, c)
        BY <2>3 DEF ReadRow, FinalInv, IInv, TypeOK
    <2> QED
        BY <2>1, <2>2, <2>3 DEF FlushCancelled, CommitCancelled, SellSeat, OpDies
<1>3. \A x \in Reservations : row'[x].status = "CONFIRMED" <=> row[x].status = "CONFIRMED"
    <2>1. CASE CommitCancelled(o)
        <3>1. /\ op[o].target \in Reservations
              /\ row[op[o].target].status # "CONFIRMED"
            BY <2>1 DEF CommitCancelled, FinalInv, IInv, TargetsHaveRows
        <3> QED
            BY <2>1, <3>1 DEF CommitCancelled, FinalInv, IInv, TypeOK
    <2>2. CASE UNCHANGED row
        BY <2>2
    <2> QED
        BY <2>1, <2>2 DEF FlushCancelled, SellSeat, OpDies, ReadRow
<1> QED
    BY <1>1, <1>2, <1>3 DEF SaleStays, OpsQuiet, FinalInv, SeatOf

\* A release that succeeds finds a HOLD, and so no CONFIRMED row of the seat.
LEMMA ReleaseStays ==
    ASSUME FinalInv, IInv', NEW o \in Ops, ReleaseSeat(o)
    PROVE  SaleStays /\ FinalInv'
<1> DEFINE r == op[o].target
<1>1. r \in Reservations /\ UNCHANGED <<create, row, sweep>>
    BY DEF ReleaseSeat, FinalInv, IInv, TargetsHaveRows
<1>2. SaleStays
    BY <1>1 DEF SaleStays, SeatOf
<1>3. CASE ReleaseCall(SeatOf(r), TRUE) /\ OpTo(o, "released")
    <2>1. row[r].status # "CONFIRMED"
        BY <1>1, <1>3 DEF ReleaseCall, Call, Seat!Release, Seat!Change, FinalInv, IInv,
           SaleIsOne
    <2>2. /\ op'[o].target = r
          /\ \A x \in Ops : x # o => op'[x] = op[x]
        BY <1>3, OpToFact DEF FinalInv, OpPhases
    <2>3. \A x \in Ops : op'[x].phase = "released" => row'[op'[x].target].status # "CONFIRMED"
        BY <1>1, <2>1, <2>2 DEF FinalInv
    <2> QED
        BY <1>1, <1>2, <2>3 DEF FinalInv
<1>4. CASE EndOp(o)
    BY <1>1, <1>2, <1>4, EndOpFact DEF FinalInv
<1> QED
    BY <1>2, <1>3, <1>4 DEF ReleaseSeat

\* A confirm waits for the transaction that has the row locked.
LEMMA ConfirmIsFinal ==
    ASSUME FinalInv, IInv', NEW o \in Ops, CommitConfirmed(o)
    PROVE  FinalInv'
<1> DEFINE r == op[o].target
<1>1. /\ r \in Reservations /\ UNCHANGED sweep
      /\ \A x \in Reservations : x # r => row'[x] = row[x]
    BY DEF CommitConfirmed, FinalInv, IInv, TypeOK, TargetsHaveRows
<1>2. /\ op'[o].phase = "idle"
      /\ \A x \in Ops : x # o => op'[x] = op[x]
    BY EndOpFact DEF CommitConfirmed, FinalInv
<1>3. \A x \in Ops : op[x].phase = "released" => op[x].target \in Reservations \ {r}
    BY DEF CommitConfirmed, RowLocked, FinalInv, IInv, TargetsHaveRows
<1>4. \A x \in Ops : op'[x].phase = "released" => row'[op'[x].target].status # "CONFIRMED"
    BY <1>1, <1>2, <1>3 DEF FinalInv
<1> QED
    BY <1>1, <1>4 DEF FinalInv

LEMMA FinalStep ==
    ASSUME ~SweepOn, FinalInv, [Next]_vars
    PROVE  FinalInv' /\ (SaleStays \/ \E o \in Ops : CommitConfirmed(o))
<1>0. IInv'
    BY NextIInv DEF FinalInv
<1>1. ASSUME NEW r \in Reservations, CreateStep(r) \/ CreateDies(r)
      PROVE  FinalInv' /\ SaleStays
    BY <1>0, <1>1, CreateStepStays, FinalKept
<1>2. ASSUME NEW o \in Ops,
             \/ FlushCancelled(o) \/ CommitCancelled(o) \/ SellSeat(o) \/ OpDies(o)
             \/ \E r \in Reservations, c \in Commands : ReadRow(o, r, c)
      PROVE  FinalInv' /\ SaleStays
    BY <1>0, <1>2, CommandStays, FinalKept
<1>3. ASSUME NEW o \in Ops, ReleaseSeat(o)
      PROVE  FinalInv' /\ SaleStays
    BY <1>0, <1>3, ReleaseStays
<1>4. ASSUME NEW o \in Ops, CommitConfirmed(o)
      PROVE  FinalInv'
    BY <1>0, <1>4, ConfirmIsFinal
<1>5. ~(SweepStart \/ SweepStep \/ SweepDies)
    <2>1. sweep.running = FALSE /\ sweep.todo = {} /\ sweep.now = Nobody
        BY DEF FinalInv, NoRun
    <2> QED
        BY <2>1 DEF SweepStart, SweepStep, SweepFlush, SweepRelease, SweepCommit,
           SweepDies
<1>6. CASE \/ \E r \in Reservations, s \in Seats :
                  (\E t \in Tokens : AcquireLock(r, s, t)) \/ LockConflict(r, s)
           \/ \E r \in Reservations : HoldTimeEnds(r)
           \/ \E s \in Seats : LeaseEnds(s)
           \/ \E t \in Tokens : TokenEnds(t)
           \/ UNCHANGED vars
    BY <1>0, <1>6, OutsideStays, FinalKept
<1> QED
    BY <1>1, <1>2, <1>3, <1>4, <1>5, <1>6 DEF Next, OpStep

-----------------------------------------------------------------------------
(* The refinement: the buyer of a seat is the reservation CONFIRMED for it.*)

LEMMA BuyerFact ==
    ASSUME IInv, NEW s \in Seats
    PROVE  /\ Confirmed(s) = {} => Buyer[s] = Nobody
           /\ \A r \in Confirmed(s) : Buyer[s] = r
BY IInvSells DEF Buyer, TheOne, NoDoubleSale

LEMMA StutterOfSale ==
    ASSUME SaleStays
    PROVE  Buyer' = Buyer
<1>1. ASSUME NEW s \in Seats
      PROVE  Confirmed(s)' = Confirmed(s)
    BY DEF SaleStays, Confirmed, HasRow
<1> QED
    BY <1>1 DEF Buyer

LEMMA ConfirmIsSale ==
    ASSUME FinalInv, IInv', NEW o \in Ops, CommitConfirmed(o)
    PROVE  \E s \in Seats, r \in Reservations :
               /\ Buyer[s] = Nobody
               /\ \A z \in Seats : Buyer[z] # r
               /\ Buyer' = [Buyer EXCEPT ![s] = r]
<1>1. PICK r \in Reservations, s \in Seats :
          r = op[o].target /\ s = SeatOf(r) /\ UNCHANGED create /\ op[o].phase = "sold"
    BY DEF CommitConfirmed, FinalInv, IInv, TargetsHaveRows, RowsAreDone, SeatOf
<1>2. /\ row'[r].status = "CONFIRMED"
      /\ \A x \in Reservations : x # r => row'[x] = row[x]
    BY <1>1 DEF CommitConfirmed, FinalInv, IInv, TypeOK
<1>3. Confirmed(s) = {} /\ row[r].status # "CONFIRMED"
    BY <1>1 DEF FinalInv, IInv, SaleIsOne, Sold, Confirmed
<1>4. Buyer[s] = Nobody
    BY <1>1, <1>3, BuyerFact DEF FinalInv
<1>5. ASSUME NEW z \in Seats
      PROVE  Buyer[z] # r
    <2>1. r \notin Confirmed(z) /\ r # Nobody
        BY <1>1, <1>3, NobodyAssumption DEF Confirmed
    <2> QED
        BY <2>1, BuyerFact DEF FinalInv
<1>6. ASSUME NEW z \in Seats
      PROVE  Confirmed(z)' = Confirmed(z) \cup (IF z = s THEN {r} ELSE {})
    BY <1>1, <1>2 DEF Confirmed, SeatOf
<1>7. Confirmed(s)' = {r} /\ \A z \in Seats : z # s => Confirmed(z)' = Confirmed(z)
    BY <1>1, <1>3, <1>6
<1>8. Buyer' = [Buyer EXCEPT ![s] = r]
    <2>1. TheOne({r}) = r
        BY DEF TheOne
    <2> QED
        BY <1>1, <1>7, <2>1 DEF Buyer
<1> QED
    BY <1>1, <1>4, <1>5, <1>8

\* Without the expiry batch, booking-app with all its races, faults and crashes
\* implements SeatSale: a CONFIRMED reservation stays CONFIRMED and is the only
\* buyer its seat ever has.
THEOREM SaleIsFinal ==
    ASSUME ~SweepOn
    PROVE  Spec => SaleSpec
<1>1. Init => FinalInv
    BY InitIInv DEF FinalInv, Init, Idle
<1>2. FinalInv /\ [Next]_vars => FinalInv'
    BY FinalStep
<1>3. Init => Sale!Init
    BY DEF Init, Sale!Init, Buyer, TheOne, Confirmed
<1>4. FinalInv /\ [Next]_vars => [Sale!Next]_Buyer
    <2> SUFFICES ASSUME FinalInv, [Next]_vars
                 PROVE  [Sale!Next]_Buyer
        OBVIOUS
    <2>1. CASE SaleStays
        BY <2>1, StutterOfSale
    <2>2. CASE \E o \in Ops : CommitConfirmed(o)
        BY <2>2, ConfirmIsSale, NextIInv DEF Sale!Next, Sale!Sell, FinalInv
    <2> QED
        BY <2>1, <2>2, FinalStep
<1> QED
    BY <1>1, <1>2, <1>3, <1>4, PTL DEF Spec, SaleSpec, Sale!Spec

-----------------------------------------------------------------------------
(* The desk: what payment-app sees of a reservation.  Beyond FinalInv the  *)
(* refinement needs that a row is not expired before it exists.            *)

DeskInv == FinalInv /\ \A r \in Reservations : ~HasRow(r) => ~row[r].expired

DeskQuiet == UNCHANGED <<DeskStatus, DeskAccepted>>

LEMMA DeskRow ==
    ASSUME NEW r \in Reservations
    PROVE  DeskStatus[r] = (IF row[r].status = "PENDING" /\ row[r].expired
                            THEN "LAPSED" ELSE row[r].status)
BY DEF DeskStatus

LEMMA DeskRowChanges ==
    ASSUME NEW r \in Reservations, NEW new,
           \A x \in Reservations : x # r => row'[x] = row[x],
           (IF row'[r].status = "PENDING" /\ row'[r].expired THEN "LAPSED" ELSE row'[r].status) = new
    PROVE  DeskStatus' = [DeskStatus EXCEPT ![r] = new]
BY DEF DeskStatus

\* Who is accepted changes only with the thread that confirms.
LEMMA AcceptedKept ==
    ASSUME \A r \in Reservations : (row'[r].status = "CONFIRMED") = (row[r].status = "CONFIRMED"),
           \A o \in Ops : \/ ~Confirming(o) /\ ~Confirming(o)'
                          \/ Confirming(o) /\ Confirming(o)' /\ op'[o].target = op[o].target
    PROVE  DeskAccepted' = DeskAccepted
BY DEF DeskAccepted

LEMMA AcceptedDrops ==
    ASSUME UNCHANGED row, NEW o \in Ops, ~Confirming(o)', \A x \in Ops : x # o => op'[x] = op[x]
    PROVE  \/ DeskAccepted' = DeskAccepted
           \/ op[o].target \in DeskAccepted /\ DeskAccepted' = DeskAccepted \ {op[o].target}
<1>1. \A x \in Ops : x # o => Confirming(x)' = Confirming(x) /\ op'[x].target = op[x].target
    BY DEF Confirming
<1>2. \A r \in Reservations \ {op[o].target} : r \in DeskAccepted' <=> r \in DeskAccepted
    BY <1>1 DEF DeskAccepted
<1>3. op[o].target \in DeskAccepted' => op[o].target \in DeskAccepted
    BY <1>1 DEF DeskAccepted
<1>4. DeskAccepted \subseteq Reservations /\ DeskAccepted' \subseteq Reservations
    BY DEF DeskAccepted
<1> QED
    BY <1>2, <1>3, <1>4

LEMMA CreateOnDesk ==
    ASSUME DeskInv, NEW r \in Reservations, CreateStep(r) \/ CreateDies(r)
    PROVE  /\ DeskQuiet \/ Desk!Create(r)
           /\ \A x \in Reservations : ~HasRow(x)' => ~row'[x].expired
<1>1. UNCHANGED op
    BY DEF CreateStep, ValidateToken, HoldSeat, SaveAndConsume, Compensate, Unlock,
       CommitCreate, CreateDies
<1>2. CASE UNCHANGED row
    BY <1>1, <1>2 DEF DeskInv, DeskQuiet, DeskStatus, DeskAccepted, Confirming, HasRow
<1>3. CASE CommitCreate(r)
    <2>1. /\ row[r].status = "NONE" /\ ~row[r].expired
          /\ row'[r].status = "PENDING" /\ ~row'[r].expired
          /\ \A x \in Reservations : x # r => row'[x] = row[x]
        BY <1>3 DEF DeskInv, FinalInv, IInv, TypeOK, RowsAreDone, HasRow, CommitCreate
    <2>2. DeskAccepted' = DeskAccepted
        BY <1>1, <2>1, AcceptedKept DEF Confirming
    <2>3. DeskStatus[r] = "NONE" /\ DeskStatus' = [DeskStatus EXCEPT ![r] = "PENDING"]
        BY <2>1, DeskRow, DeskRowChanges
    <2>4. \A x \in Reservations : ~HasRow(x)' => ~row'[x].expired
        BY <2>1 DEF DeskInv, HasRow
    <2> QED
        BY <2>2, <2>3, <2>4 DEF Desk!Create, Desk!Change
<1> QED
    BY <1>2, <1>3 DEF CreateStep, ValidateToken, HoldSeat, SaveAndConsume, Compensate,
       Unlock, CreateDies

LEMMA OutsideOnDesk ==
    ASSUME DeskInv,
           \/ \E r \in Reservations, s \in Seats :
                  (\E t \in Tokens : AcquireLock(r, s, t)) \/ LockConflict(r, s)
           \/ \E r \in Reservations : HoldTimeEnds(r)
           \/ \E s \in Seats : LeaseEnds(s)
           \/ \E t \in Tokens : TokenEnds(t)
           \/ UNCHANGED vars
    PROVE  /\ DeskQuiet \/ \E r \in Reservations : Desk!Lapse(r)
           /\ \A x \in Reservations : ~HasRow(x)' => ~row'[x].expired
<1>1. ASSUME NEW r \in Reservations, HoldTimeEnds(r)
      PROVE  /\ Desk!Lapse(r)
             /\ \A x \in Reservations : ~HasRow(x)' => ~row'[x].expired
    <2>1. /\ row[r].status = "PENDING" /\ ~row[r].expired /\ UNCHANGED op
          /\ row'[r].status = "PENDING" /\ row'[r].expired
          /\ \A x \in Reservations : x # r => row'[x] = row[x]
        BY <1>1 DEF DeskInv, FinalInv, IInv, TypeOK, HoldTimeEnds
    <2>2. DeskAccepted' = DeskAccepted
        BY <2>1, AcceptedKept DEF Confirming
    <2>3. DeskStatus[r] = "PENDING" /\ DeskStatus' = [DeskStatus EXCEPT ![r] = "LAPSED"]
        BY <2>1, DeskRow, DeskRowChanges
    <2>4. \A x \in Reservations : ~HasRow(x)' => ~row'[x].expired
        BY <2>1 DEF DeskInv, HasRow
    <2> QED
        BY <2>2, <2>3, <2>4 DEF Desk!Lapse, Desk!Change
<1>2. CASE UNCHANGED <<row, op>>
    BY <1>2 DEF DeskInv, DeskQuiet, DeskStatus, DeskAccepted, Confirming, HasRow
<1> QED
    BY <1>1, <1>2 DEF AcquireLock, LockConflict, LeaseEnds, TokenEnds, vars

LEMMA CommandOnDesk ==
    ASSUME DeskInv, NEW o \in Ops, OpStep(o) \/ OpDies(o), ~CommitConfirmed(o), ~CommitCancelled(o)
    PROVE  /\ DeskQuiet \/ \E r \in Reservations : Desk!Refuse(r)
           /\ UNCHANGED row
<1>1. UNCHANGED row
    BY DEF OpStep, OpDies, FlushCancelled, ReleaseSeat, SellSeat
<1>2. DeskStatus' = DeskStatus
    BY <1>1 DEF DeskStatus
<1>3. CASE EndOp(o)
    <2>1. ~Confirming(o)' /\ \A x \in Ops : x # o => op'[x] = op[x]
        BY <1>3, EndOpFact DEF DeskInv, FinalInv, Confirming
    <2>2. \/ DeskAccepted' = DeskAccepted
          \/ op[o].target \in DeskAccepted /\ DeskAccepted' = DeskAccepted \ {op[o].target}
        BY <1>1, <2>1, AcceptedDrops
    <2>3. DeskAccepted \subseteq Reservations
        BY DEF DeskAccepted
    <2> QED
        BY <1>1, <1>2, <2>2, <2>3 DEF DeskQuiet, Desk!Refuse
<1>4. CASE ~EndOp(o)
    <2>1. /\ op'[o].target = op[o].target
          /\ \/ ~Confirming(o) /\ ~Confirming(o)'
             \/ Confirming(o) /\ Confirming(o)'
          /\ \A x \in Ops : x # o => op'[x] = op[x]
        <3>1. \/ OpTo(o, "flushed") /\ op[o].phase = "read" /\ op[o].command # "confirm"
              \/ OpTo(o, "released") /\ op[o].phase = "flushed"
              \/ OpTo(o, "sold") /\ op[o].phase = "read" /\ op[o].command = "confirm"
            BY <1>4 DEF OpStep, OpDies, FlushCancelled, ReleaseSeat, SellSeat
        <3> QED
            BY <3>1, OpToFact DEF DeskInv, FinalInv, Confirming, OpPhases
    <2>2. \A x \in Ops : \/ ~Confirming(x) /\ ~Confirming(x)'
                         \/ Confirming(x) /\ Confirming(x)' /\ op'[x].target = op[x].target
        BY <2>1 DEF Confirming
    <2> QED
        BY <1>1, <1>2, <2>2, AcceptedKept DEF DeskQuiet
<1> QED
    BY <1>3, <1>4

LEMMA ReadOnDesk ==
    ASSUME DeskInv, NEW o \in Ops, NEW r \in Reservations, NEW c \in Commands, ReadRow(o, r, c)
    PROVE  DeskQuiet \/ Desk!Accept(r)
<1>1. /\ row[r].status = "PENDING" /\ row[r].expired = (c = "expire") /\ UNCHANGED row
      /\ op[o].phase = "idle" /\ op'[o].phase = "read"
      /\ op'[o].command = c /\ op'[o].target = r
      /\ \A x \in Ops : x # o => op'[x] = op[x]
    BY DEF DeskInv, FinalInv, IInv, TypeOK, ReadRow, Accepts
<1>2. DeskStatus' = DeskStatus
    BY <1>1 DEF DeskStatus
<1>3. CASE c = "confirm"
    <2>1. DeskStatus[r] = "PENDING"
        BY <1>1, <1>3, DeskRow
    <2>2. DeskAccepted' = DeskAccepted \cup {r}
        BY <1>1, <1>3 DEF DeskAccepted, Confirming
    <2> QED
        BY <1>2, <2>1, <2>2 DEF Desk!Accept
<1>4. CASE c # "confirm"
    BY <1>1, <1>2, <1>4, AcceptedKept DEF DeskQuiet, Confirming
<1> QED
    BY <1>3, <1>4

LEMMA CancelOnDesk ==
    ASSUME DeskInv, NEW o \in Ops, CommitCancelled(o)
    PROVE  /\ DeskQuiet \/ \E r \in Reservations : Desk!Cancel(r)
           /\ \A x \in Reservations : ~HasRow(x)' => ~row'[x].expired
<1> DEFINE r == op[o].target
<1>1. /\ r \in Reservations /\ HasRow(r) /\ row[r].status # "CONFIRMED"
      /\ op[o].phase = "released"
    BY DEF CommitCancelled, DeskInv, FinalInv, IInv, TargetsHaveRows
<1>2. /\ row'[r].status = "CANCELLED"
      /\ \A x \in Reservations : x # r => row'[x] = row[x]
    BY <1>1 DEF CommitCancelled, DeskInv, FinalInv, IInv, TypeOK
<1>3. ~Confirming(o) /\ ~Confirming(o)' /\ \A x \in Ops : x # o => op'[x] = op[x]
    BY <1>1, EndOpFact DEF CommitCancelled, DeskInv, FinalInv, Confirming
<1>4. \A x \in Reservations : (row'[x].status = "CONFIRMED") = (row[x].status = "CONFIRMED")
    BY <1>1, <1>2
<1>5. \A x \in Ops : \/ ~Confirming(x) /\ ~Confirming(x)'
                     \/ Confirming(x) /\ Confirming(x)' /\ op'[x].target = op[x].target
    BY <1>3 DEF Confirming
<1>6. DeskAccepted' = DeskAccepted
    BY <1>4, <1>5, AcceptedKept
<1>7. DeskStatus' = [DeskStatus EXCEPT ![r] = "CANCELLED"]
    BY <1>1, <1>2, DeskRowChanges
<1>8. DeskStatus[r] \in {"PENDING", "LAPSED", "CANCELLED"}
    BY <1>1, DeskRow DEF DeskInv, FinalInv, IInv, TypeOK, RowStatus, HasRow
<1>9. \A x \in Reservations : ~HasRow(x)' => ~row'[x].expired
    BY <1>1, <1>2 DEF DeskInv, HasRow
<1>10. CASE DeskStatus[r] = "CANCELLED"
    BY <1>6, <1>7, <1>9, <1>10 DEF DeskQuiet, DeskStatus
<1>11. CASE DeskStatus[r] # "CANCELLED"
    BY <1>1, <1>6, <1>7, <1>8, <1>9, <1>11 DEF Desk!Cancel, Desk!Change, Desk!Open
<1> QED
    BY <1>10, <1>11

LEMMA ConfirmOnDesk ==
    ASSUME DeskInv, NEW o \in Ops, CommitConfirmed(o)
    PROVE  /\ \E r \in Reservations : Desk!Confirm(r)
           /\ \A x \in Reservations : ~HasRow(x)' => ~row'[x].expired
<1> DEFINE r == op[o].target
<1>1. /\ r \in Reservations /\ HasRow(r) /\ row[r].status # "CONFIRMED"
      /\ op[o].phase = "sold"
    BY DEF CommitConfirmed, DeskInv, FinalInv, IInv, TargetsHaveRows, SaleIsOne, Sold
<1>2. /\ row'[r].status = "CONFIRMED"
      /\ \A x \in Reservations : x # r => row'[x] = row[x]
    BY <1>1 DEF CommitConfirmed, DeskInv, FinalInv, IInv, TypeOK
<1>3. ~Confirming(o)' /\ \A x \in Ops : x # o => op'[x] = op[x]
    BY EndOpFact DEF CommitConfirmed, DeskInv, FinalInv, Confirming
<1>4. r \in DeskAccepted
    BY <1>1 DEF DeskAccepted, Confirming
<1>5. DeskAccepted' = DeskAccepted \ {r}
    <2>1. \A x \in Ops : x # o => Confirming(x)' = Confirming(x) /\ op'[x].target = op[x].target
        BY <1>3 DEF Confirming
    <2>2. r \notin DeskAccepted' /\ DeskAccepted' \subseteq Reservations
        BY <1>2 DEF DeskAccepted
    <2>3. \A x \in Reservations \ {r} : x \in DeskAccepted' <=> x \in DeskAccepted
        BY <1>2, <1>3, <2>1 DEF DeskAccepted
    <2>4. DeskAccepted \subseteq Reservations
        BY DEF DeskAccepted
    <2> QED
        BY <2>2, <2>3, <2>4
<1>6. DeskStatus' = [DeskStatus EXCEPT ![r] = "CONFIRMED"]
    BY <1>1, <1>2, DeskRowChanges
<1>7. DeskStatus[r] \in {"PENDING", "LAPSED", "CANCELLED"}
    BY <1>1, DeskRow DEF DeskInv, FinalInv, IInv, TypeOK, RowStatus, HasRow
<1>8. \A x \in Reservations : ~HasRow(x)' => ~row'[x].expired
    BY <1>1, <1>2 DEF DeskInv, HasRow
<1> QED
    BY <1>1, <1>4, <1>5, <1>6, <1>7, <1>8 DEF Desk!Confirm, Desk!Change, Desk!Open

LEMMA DeskStep ==
    ASSUME ~SweepOn, DeskInv, [Next]_vars
    PROVE  /\ DeskQuiet \/ Desk!Next
           /\ DeskInv'
<1>0. FinalInv'
    BY FinalStep DEF DeskInv
<1>1. ASSUME NEW r \in Reservations, CreateStep(r) \/ CreateDies(r)
      PROVE  (DeskQuiet \/ Desk!Next) /\ DeskInv'
    BY <1>0, <1>1, CreateOnDesk DEF Desk!Next, DeskInv
<1>2. ASSUME NEW o \in Ops, OpStep(o) \/ OpDies(o)
      PROVE  (DeskQuiet \/ Desk!Next) /\ DeskInv'
    <2>1. CASE CommitCancelled(o)
        BY <1>0, <2>1, CancelOnDesk DEF Desk!Next, DeskInv
    <2>2. CASE CommitConfirmed(o)
        BY <1>0, <2>2, ConfirmOnDesk DEF Desk!Next, DeskInv
    <2>3. CASE ~CommitCancelled(o) /\ ~CommitConfirmed(o)
        BY <1>0, <1>2, <2>3, CommandOnDesk DEF Desk!Next, DeskInv, HasRow
    <2> QED
        BY <2>1, <2>2, <2>3
<1>3. ASSUME NEW o \in Ops, NEW r \in Reservations, NEW c \in Commands, ReadRow(o, r, c)
      PROVE  (DeskQuiet \/ Desk!Next) /\ DeskInv'
    <2>1. UNCHANGED row
        BY <1>3 DEF ReadRow
    <2> QED
        BY <1>0, <1>3, <2>1, ReadOnDesk DEF Desk!Next, DeskInv, HasRow
<1>4. ~(SweepStart \/ SweepStep \/ SweepDies)
    <2>1. sweep.running = FALSE /\ sweep.todo = {} /\ sweep.now = Nobody
        BY DEF DeskInv, FinalInv, NoRun
    <2> QED
        BY <2>1 DEF SweepStart, SweepStep, SweepFlush, SweepRelease, SweepCommit,
           SweepDies
<1>5. CASE \/ \E r \in Reservations, s \in Seats :
                  (\E t \in Tokens : AcquireLock(r, s, t)) \/ LockConflict(r, s)
           \/ \E r \in Reservations : HoldTimeEnds(r)
           \/ \E s \in Seats : LeaseEnds(s)
           \/ \E t \in Tokens : TokenEnds(t)
           \/ UNCHANGED vars
    BY <1>0, <1>5, OutsideOnDesk DEF Desk!Next, DeskInv
<1> QED
    BY <1>1, <1>2, <1>3, <1>4, <1>5 DEF Next

\* Without the expiry batch, booking-app keeps what payment-app relies on: with
\* any number of commands racing on a reservation, it becomes CONFIRMED only by a
\* confirm that read it PENDING and unexpired, and is CONFIRMED for good then.
THEOREM DeskIsKept ==
    ASSUME ~SweepOn
    PROVE  Spec => DeskSpec
<1>1. Init => DeskInv
    BY InitIInv DEF DeskInv, FinalInv, Init, Idle
<1>2. Init => Desk!Init
    <2> SUFFICES ASSUME Init
                 PROVE  Desk!Init
        OBVIOUS
    <2>1. DeskStatus = [r \in Reservations |-> "NONE"]
        BY DEF Init, DeskStatus
    <2>2. DeskAccepted = {}
        BY DEF Init, DeskAccepted, Confirming, Idle
    <2> QED
        BY <2>1, <2>2 DEF Desk!Init
<1>3. DeskInv /\ [Next]_vars => DeskInv' /\ [Desk!Next]_(Desk!desk)
    BY DeskStep DEF DeskQuiet, Desk!desk
<1> QED
    BY <1>1, <1>2, <1>3, PTL DEF Spec, DeskSpec, Desk!Spec
=============================================================================
