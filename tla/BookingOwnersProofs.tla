------------------------ MODULE BookingOwnersProofs -------------------------
(***************************************************************************)
(* OwnedUntilTrouble for any number of seats, requests and commands,       *)
(* without the expiry batch: as long as nothing has failed and no two      *)
(* commands on reservations have overlapped, a HOLD and its owner are one. *)
(*                                                                         *)
(* The inductive invariant is about single reservations: who is a holder   *)
(* has a seat on HOLD and is alone with it, and each HOLD has a holder.    *)
(* A step changes one reservation at most, and it changes a seat only      *)
(* together with its holder.                                               *)
(***************************************************************************)
EXTENDS MCBookingSale, BookingProofs, FiniteSetTheorems

InHand(r) == create[r].phase \in {"held", "consumed", "unlocked", "undo"}
Taken(r)  == \E o \in Ops : op[o].phase \in {"released", "sold"} /\ op[o].target = r
Holder(r) == InHand(r) \/ (row[r].status = "PENDING" /\ ~ Taken(r))
Bought(r) == row[r].status = "CONFIRMED" \/ \E o \in Ops : Sold(o) /\ op[o].target = r

Owned ==
    /\ \A r \in Reservations : Holder(r) => status[SeatOf(r)] = "HOLD"
    /\ \A q, r \in Reservations : Holder(q) /\ Holder(r) /\ SeatOf(q) = SeatOf(r) => q = r
    /\ \A s \in Seats : status[s] = "HOLD" =>
           \E r \in Reservations : Holder(r) /\ SeatOf(r) = s
    /\ \A s \in Seats : status[s] = "SOLD" =>
           \E r \in Reservations : Bought(r) /\ SeatOf(r) = s

\* A command has its reservation to itself: the row is as it was read.
Alone ==
    /\ ~ Overlap /\ sweep = NoRun
    /\ \A o \in Ops : op[o].phase # "idle" => row[op[o].target].status = "PENDING"

Undisturbed == faults = 0 /\ ~ overlapped => Owned /\ Alone

-----------------------------------------------------------------------------
(* What a step may do to a seat and its holder.                            *)

\* Holders and buyers have a seat.
LEMMA HasSeat ==
    ASSUME IInv, NEW r \in Reservations, Holder(r) \/ Bought(r)
    PROVE  create[r].phase # "new" /\ SeatOf(r) \in Seats
<1>1. InHand(r) \/ HasRow(r)
    BY DEF Holder, Bought, HasRow, IInv, TargetsHaveRows, Sold
<1> QED
    BY <1>1 DEF IInv, RowsAreDone, InHand, SeatOf

SeatsKept ==
    \A r \in Reservations : create[r].phase # "new" => create'[r].seat = create[r].seat

OthersKept(h) ==
    /\ SeatsKept
    /\ \A r \in Reservations : r # h => (Holder(r)' <=> Holder(r))
    /\ \A r \in Reservations : Bought(r) => Bought(r)'

\* Nothing happens to a seat.
LEMMA SeatsRest ==
    ASSUME IInv, Owned, NEW h \in Reservations, OthersKept(h), UNCHANGED status,
           Holder(h)' <=> Holder(h)
    PROVE  Owned'
<1>1. \A r \in Reservations : Holder(r)' <=> Holder(r)
    BY DEF OthersKept
<1>2. \A r \in Reservations : Holder(r) \/ Bought(r) =>
          SeatOf(r)' = SeatOf(r) /\ SeatOf(r) \in Seats
    BY HasSeat DEF OthersKept, SeatsKept, SeatOf
<1>3. \A r \in Reservations : Bought(r) => Bought(r)'
    BY DEF OthersKept
<1> QED
    BY <1>1, <1>2, <1>3 DEF Owned

\* A seat goes from one status to another together with its holder.
Changes(h, from, to) ==
    /\ status[SeatOf(h)] = from
    /\ status' = [status EXCEPT ![SeatOf(h)] = to]

LEMMA OthersElsewhere ==
    ASSUME IInv, Owned, NEW h \in Reservations, OthersKept(h),
           create[h].phase # "new", SeatOf(h) \in Seats, NEW from, NEW to, Changes(h, from, to)
    PROVE  /\ SeatOf(h)' = SeatOf(h) /\ status'[SeatOf(h)] = to
           /\ \A s \in Seats : s # SeatOf(h) => status'[s] = status[s]
           /\ \A r \in Reservations \ {h} : (Holder(r)' <=> Holder(r))
           /\ \A r \in Reservations : Holder(r) \/ Bought(r) =>
                  SeatOf(r)' = SeatOf(r) /\ SeatOf(r) \in Seats
           /\ \A r \in Reservations : Bought(r) => Bought(r)'
<1>1. \A r \in Reservations : Holder(r) \/ Bought(r) =>
          SeatOf(r)' = SeatOf(r) /\ SeatOf(r) \in Seats
    BY HasSeat DEF OthersKept, SeatsKept, SeatOf
<1> QED
    BY <1>1 DEF OthersKept, SeatsKept, SeatOf, Changes, IInv, TypeOK, Seat!TypeOK,
       Admission!TypeOK

LEMMA SeatHeld ==
    ASSUME IInv, Owned, NEW h \in Reservations, OthersKept(h),
           create[h].phase # "new", SeatOf(h) \in Seats,
           Changes(h, "AVAILABLE", "HOLD"), Holder(h)'
    PROVE  Owned'
<1>1. \A r \in Reservations : Holder(r) => SeatOf(r) # SeatOf(h)
    BY DEF Owned, Changes
<1>2. \A r \in Reservations : Holder(r)' => r = h \/ Holder(r)
    BY DEF OthersKept
<1>3. PICK t \in Seats : t = SeatOf(h) /\ SeatOf(h)' = t /\ status[t] = "AVAILABLE"
                         /\ status'[t] = "HOLD"
    BY OthersElsewhere DEF Changes
<1>4. /\ \A s \in Seats : s # t => status'[s] = status[s]
      /\ \A r \in Reservations : Holder(r) \/ Bought(r) =>
             SeatOf(r)' = SeatOf(r) /\ SeatOf(r) \in Seats
      /\ \A r \in Reservations : Bought(r) => Bought(r)'
      /\ \A r \in Reservations : Holder(r) => Holder(r)'
    BY <1>3, OthersElsewhere
<1>5. \A r \in Reservations : Holder(r)' => status'[SeatOf(r)'] = "HOLD"
    BY <1>2, <1>3, <1>4 DEF Owned
<1>6. \A q, r \in Reservations :
          Holder(q)' /\ Holder(r)' /\ SeatOf(q)' = SeatOf(r)' => q = r
    BY <1>1, <1>2, <1>3, <1>4 DEF Owned
<1>7. \A s \in Seats : status'[s] = "HOLD" =>
          \E r \in Reservations : Holder(r)' /\ SeatOf(r)' = s
    BY <1>3, <1>4 DEF Owned
<1>8. \A s \in Seats : status'[s] = "SOLD" =>
          \E r \in Reservations : Bought(r)' /\ SeatOf(r)' = s
    BY <1>3, <1>4 DEF Owned
<1> QED
    BY <1>5, <1>6, <1>7, <1>8 DEF Owned

\* The seat of a holder goes, and no other reservation had it.
LEMMA SeatLeft ==
    ASSUME IInv, Owned, NEW h \in Reservations, OthersKept(h), Holder(h), ~ Holder(h)',
           NEW to \in {"AVAILABLE", "SOLD"}, Changes(h, "HOLD", to),
           to = "SOLD" => Bought(h)'
    PROVE  Owned'
<1>1. \A r \in Reservations : r # h /\ Holder(r) => SeatOf(r) # SeatOf(h)
    BY DEF Owned
<1>2. \A r \in Reservations : Holder(r)' <=> r # h /\ Holder(r)
    BY DEF OthersKept
<1>3. create[h].phase # "new" /\ SeatOf(h) \in Seats
    BY HasSeat
<1>4. PICK t \in Seats : t = SeatOf(h) /\ SeatOf(h)' = t /\ status[t] = "HOLD"
                         /\ status'[t] = to
    BY <1>3, OthersElsewhere DEF Changes
<1>5. /\ \A s \in Seats : s # t => status'[s] = status[s]
      /\ \A r \in Reservations : Holder(r) \/ Bought(r) =>
             SeatOf(r)' = SeatOf(r) /\ SeatOf(r) \in Seats
      /\ \A r \in Reservations : Bought(r) => Bought(r)'
    BY <1>3, <1>4, OthersElsewhere
<1>6. \A r \in Reservations : Holder(r)' => status'[SeatOf(r)'] = "HOLD"
    BY <1>1, <1>2, <1>4, <1>5 DEF Owned
<1>7. \A q, r \in Reservations :
          Holder(q)' /\ Holder(r)' /\ SeatOf(q)' = SeatOf(r)' => q = r
    BY <1>2, <1>5 DEF Owned
<1>8. \A s \in Seats : status'[s] = "HOLD" =>
          \E r \in Reservations : Holder(r)' /\ SeatOf(r)' = s
    BY <1>2, <1>4, <1>5 DEF Owned
<1>9. \A s \in Seats : status'[s] = "SOLD" =>
          \E r \in Reservations : Bought(r)' /\ SeatOf(r)' = s
    BY <1>4, <1>5 DEF Owned
<1> QED
    BY <1>6, <1>7, <1>8, <1>9 DEF Owned

-----------------------------------------------------------------------------
(* Calls that do not fail.                                                 *)

LEMMA HoldAnswered ==
    ASSUME NEW s, NEW ok \in BOOLEAN, HoldCall(s, ok), ~ Fault
    PROVE  IF ok THEN status[s] = "AVAILABLE" /\ status' = [status EXCEPT ![s] = "HOLD"]
                 ELSE UNCHANGED status
BY DEF HoldCall, Call, Seat!Hold, Seat!Change

LEMMA ReleaseAnswered ==
    ASSUME NEW s, NEW ok \in BOOLEAN, ReleaseCall(s, ok), ~ Fault
    PROVE  IF ok THEN status[s] = "HOLD" /\ status' = [status EXCEPT ![s] = "AVAILABLE"]
                 ELSE status[s] # "HOLD" /\ UNCHANGED status
BY DEF ReleaseCall, Call, Seat!Release, Seat!Change

LEMMA ConfirmAnswered ==
    ASSUME NEW s, NEW ok \in BOOLEAN, ConfirmCall(s, ok), ~ Fault
    PROVE  IF ok THEN status[s] = "HOLD" /\ status' = [status EXCEPT ![s] = "SOLD"]
                 ELSE UNCHANGED status
BY DEF ConfirmCall, Call, Seat!Confirm, Seat!Change

\* A request moves on: no other reservation, row or command takes notice.
LEMMA RequestMoves ==
    ASSUME IInv, NEW r \in Reservations, UNCHANGED op,
           create[r].phase = "new" \/ create'[r].seat = create[r].seat,
           \A x \in Reservations : x # r => create'[x] = create[x] /\ row'[x] = row[x],
           row'[r].status # row[r].status => row[r].status = "NONE"
    PROVE  /\ OthersKept(r)
           /\ ~ HasRow(r) => ~ Taken(r)'
<1>1. SeatsKept
    BY DEF SeatsKept
<1>2. \A x \in Reservations : (Taken(x)' <=> Taken(x))
    BY DEF Taken
<1>3. \A x \in Reservations : x # r => (Holder(x)' <=> Holder(x))
    BY <1>2 DEF Holder, InHand
<1>4. \A x \in Reservations : Bought(x) => Bought(x)'
    BY DEF Bought, Sold
<1>5. ~ HasRow(r) => ~ Taken(r)'
    BY <1>2 DEF Taken, IInv, TargetsHaveRows
<1> QED
    BY <1>1, <1>3, <1>4, <1>5 DEF OthersKept

LEMMA CreateStepOwned ==
    ASSUME IInv, Owned, NEW r \in Reservations, CreateStep(r), ~ Fault
    PROVE  Owned'
<1>1. ~ HasRow(r) /\ create[r].phase # "new" /\ SeatOf(r) \in Seats /\ UNCHANGED op
    BY DEF IInv, RowsAreDone, SeatOf, CreateStep, ValidateToken, HoldSeat, SaveAndConsume,
       Compensate, Unlock, CommitCreate
<1>2. PICK phase \in CreatePhases : CreateTo(r, phase)
    BY DEF CreateStep, ValidateToken, HoldSeat, SaveAndConsume, Compensate, Unlock,
       CommitCreate, CreatePhases
<1>3. /\ create'[r].phase = phase /\ create'[r].seat = create[r].seat
      /\ \A x \in Reservations : x # r => create'[x] = create[x]
    BY <1>2, CreateToFact
<1>4. /\ \A x \in Reservations : x # r => row'[x] = row[x]
      /\ row'[r].status # row[r].status => row[r].status = "NONE"
    BY <1>1 DEF CreateStep, ValidateToken, HoldSeat, SaveAndConsume, Compensate, Unlock,
       CommitCreate, IInv, TypeOK, HasRow
<1>5. OthersKept(r) /\ ~ Taken(r)'
    BY <1>1, <1>3, <1>4, RequestMoves
<1>6. Holder(r) <=> InHand(r)
    BY <1>1 DEF Holder, HasRow
<1>7. CASE ValidateToken(r)
    <2>1. phase \in {"validated", "failed"} /\ UNCHANGED <<status, row>>
        BY <1>2, <1>3, <1>7, CreateToFact DEF ValidateToken, CreatePhases
    <2>2. ~ Holder(r) /\ ~ Holder(r)'
        BY <1>1, <1>3, <1>6, <1>7, <2>1 DEF Holder, InHand, HasRow, ValidateToken
    <2> QED
        BY <1>5, <2>1, <2>2, SeatsRest
<1>8. CASE HoldSeat(r)
    <2>1. ~ Holder(r) /\ UNCHANGED row
        BY <1>6, <1>8 DEF InHand, HoldSeat
    <2>2. CASE HoldCall(create[r].seat, TRUE) /\ CreateTo(r, "held")
        <3>1. Changes(r, "AVAILABLE", "HOLD")
            BY <2>2, HoldAnswered DEF Changes, SeatOf
        <3>2. Holder(r)'
            BY <2>2, CreateToFact DEF Holder, InHand, CreatePhases
        <3> QED
            BY <1>1, <1>5, <3>1, <3>2, SeatHeld
    <2>3. CASE HoldCall(create[r].seat, FALSE) /\ CreateTo(r, "failed")
        <3>1. UNCHANGED status
            BY <2>3, HoldAnswered
        <3>2. create'[r].phase = "failed"
            BY <2>3, CreateToFact DEF CreatePhases
        <3>3. ~ Holder(r)'
            BY <1>1, <2>1, <3>2 DEF Holder, InHand, HasRow
        <3> QED
            BY <1>5, <2>1, <3>1, <3>3, SeatsRest
    <2> QED
        BY <1>8, <2>2, <2>3 DEF HoldSeat
<1>9. CASE SaveAndConsume(r) \/ Unlock(r)
    <2>1. create'[r].phase \in {"consumed", "undo", "unlocked"} /\ UNCHANGED status
        BY <1>9, CreateToFact DEF SaveAndConsume, Unlock, CreatePhases
    <2>2. Holder(r) /\ Holder(r)'
        BY <1>6, <1>9, <2>1 DEF Holder, InHand, SaveAndConsume, Unlock
    <2> QED
        BY <1>5, <2>1, <2>2, SeatsRest
<1>10. CASE Compensate(r)
    <2>1. Holder(r) /\ status[SeatOf(r)] = "HOLD"
        BY <1>6, <1>10 DEF InHand, Compensate, Owned
    <2>2. Changes(r, "HOLD", "AVAILABLE")
        BY <1>10, <2>1, ReleaseAnswered DEF Compensate, Changes, SeatOf
    <2>3. create'[r].phase = "failed" /\ UNCHANGED row
        BY <1>10, CreateToFact DEF Compensate, CreatePhases
    <2>4. ~ Holder(r)'
        BY <1>1, <2>3 DEF Holder, InHand, HasRow
    <2> QED
        BY <1>5, <2>1, <2>2, <2>4, SeatLeft
<1>11. CASE CommitCreate(r)
    <2>1. row'[r].status = "PENDING" /\ UNCHANGED status
        BY <1>11 DEF CommitCreate, IInv, TypeOK
    <2>2. Holder(r) /\ Holder(r)'
        BY <1>5, <1>6, <1>11, <2>1 DEF Holder, InHand, CommitCreate
    <2> QED
        BY <1>5, <2>1, <2>2, SeatsRest
<1> QED
    BY <1>7, <1>8, <1>9, <1>10, <1>11 DEF CreateStep

\* Beginnings, and time.
LEMMA OutsideOwned ==
    ASSUME IInv, Owned,
           \/ \E r \in Reservations, s \in Seats :
                  (\E t \in Tokens : AcquireLock(r, s, t)) \/ LockConflict(r, s)
           \/ \E r \in Reservations : HoldTimeEnds(r)
           \/ \E s \in Seats : LeaseEnds(s)
           \/ \E t \in Tokens : TokenEnds(t)
           \/ UNCHANGED vars
    PROVE  Owned'
<1>1. ASSUME NEW r \in Reservations, NEW s \in Seats,
             (\E t \in Tokens : AcquireLock(r, s, t)) \/ LockConflict(r, s)
      PROVE  Owned'
    <2>1. /\ create[r].phase = "new" /\ UNCHANGED <<status, row, op>>
          /\ create'[r].phase \in {"locked", "failed"}
          /\ \A x \in Reservations : x # r => create'[x] = create[x]
        BY <1>1 DEF AcquireLock, LockConflict, CreateTo, IInv, TypeOK
    <2>2. ~ HasRow(r)
        BY <2>1 DEF IInv, RowsAreDone
    <2>3. OthersKept(r)
        BY <2>1, RequestMoves
    <2>4. ~ Holder(r) /\ ~ Holder(r)'
        BY <2>1, <2>2 DEF Holder, InHand, HasRow
    <2> QED
        BY <2>1, <2>3, <2>4, SeatsRest
<1>2. ASSUME NEW r \in Reservations, HoldTimeEnds(r)
      PROVE  Owned'
    <2>1. /\ \A x \in Reservations : row'[x].status = row[x].status
          /\ UNCHANGED <<status, create, op>>
        BY <1>2 DEF HoldTimeEnds, IInv, TypeOK
    <2> QED
        BY <2>1 DEF Owned, Holder, InHand, Taken, Bought, Sold, SeatOf
<1>3. CASE UNCHANGED <<status, create, row, op>>
    BY <1>3 DEF Owned, Holder, InHand, Taken, Bought, Sold, SeatOf
<1> QED
    BY <1>1, <1>2, <1>3 DEF LeaseEnds, TokenEnds, vars

-----------------------------------------------------------------------------
(* Commands: while they do not overlap, the one at work has its row.       *)

\* The reservation of a command at work, and everybody else's.
LEMMA CommandMoves ==
    ASSUME IInv, Alone, NEW o \in Ops, NEW h \in Reservations, op[o].phase # "idle",
           h = op[o].target, UNCHANGED create,
           \A x \in Ops : x # o => op'[x] = op[x],
           op'[o].phase = "idle" \/ op'[o].target = h,
           \A x \in Reservations : x # h => row'[x] = row[x],
           Bought(h) => Bought(h)'
    PROVE  /\ row[h].status = "PENDING" /\ ~ InHand(h) /\ ~ InHand(h)'
           /\ OthersKept(h)
           /\ \A x \in Ops : op[x].phase # "idle" => x = o
           /\ \A x \in Ops : op'[x].phase # "idle" => x = o
<1>1. row[h].status = "PENDING"
    BY DEF Alone
<1>2. ~ InHand(h) /\ ~ InHand(h)'
    BY <1>1 DEF IInv, RowsAreDone, HasRow, InHand
<1>3. \A x \in Ops : op[x].phase # "idle" => x = o
    BY DEF Alone, Overlap
<1>4. \A x \in Ops : op'[x].phase # "idle" => x = o
    BY <1>3
<1>5. \A x \in Reservations : x # h => ~ Taken(x) /\ ~ Taken(x)'
    BY <1>3, <1>4 DEF Taken
<1>6. \A x \in Reservations : x # h => (Holder(x)' <=> Holder(x))
    BY <1>5 DEF Holder, InHand
<1>7. \A x \in Reservations : x # h => (Bought(x) => Bought(x)')
    BY <1>3 DEF Bought, Sold
<1> QED
    BY <1>1, <1>2, <1>3, <1>4, <1>6, <1>7 DEF OthersKept, SeatsKept

LEMMA OpStepOwned ==
    ASSUME IInv, Owned, Alone, NEW o \in Ops, OpStep(o), ~ Fault
    PROVE  Owned'
<1>1. PICK h \in Reservations : h = op[o].target
    BY DEF OpStep, FlushCancelled, ReleaseSeat, CommitCancelled, SellSeat,
       CommitConfirmed, IInv, TargetsHaveRows
<1>2. /\ op[o].phase # "idle" /\ UNCHANGED create
      /\ \A x \in Reservations : x # h => row'[x] = row[x]
    BY <1>1 DEF OpStep, FlushCancelled, ReleaseSeat, CommitCancelled, SellSeat,
       CommitConfirmed, IInv, TypeOK
<1>3. PICK phase \in OpPhases :
          OpTo(o, phase) \/ (phase = "idle" /\ EndOp(o))
    BY DEF OpStep, FlushCancelled, ReleaseSeat, CommitCancelled, SellSeat,
       CommitConfirmed, OpPhases
<1>4. /\ op'[o].phase = phase
      /\ phase = "idle" \/ op'[o].target = h
      /\ \A x \in Ops : x # o => op'[x] = op[x]
    BY <1>1, <1>3, OpToFact, EndOpFact
<1>5. row[h].status = "PENDING" /\ \A x \in Ops : op[x].phase # "idle" => x = o
    BY <1>1, <1>2 DEF Alone, Overlap
<1>6. Bought(h) <=> op[o].phase = "sold"
    BY <1>1, <1>5 DEF Bought, Sold
<1>7. Taken(h) <=> op[o].phase \in {"released", "sold"}
    BY <1>1, <1>5 DEF Taken
<1>8. op[o].phase = "sold" => CommitConfirmed(o) /\ row'[h].status = "CONFIRMED"
    BY <1>1 DEF OpStep, FlushCancelled, ReleaseSeat, CommitCancelled, SellSeat,
       CommitConfirmed, IInv, TypeOK
<1>9. /\ ~ InHand(h) /\ ~ InHand(h)' /\ OthersKept(h)
      /\ \A x \in Ops : op'[x].phase # "idle" => x = o
    <2>1. Bought(h) => Bought(h)'
        BY <1>6, <1>8 DEF Bought
    <2> QED
        BY <1>1, <1>2, <1>4, <2>1, CommandMoves
<1>10. Taken(h)' <=> phase \in {"released", "sold"}
    BY <1>4, <1>9 DEF Taken
<1>11. /\ Holder(h) <=> op[o].phase \notin {"released", "sold"}
       /\ UNCHANGED row => (Holder(h)' <=> phase \notin {"released", "sold"})
    BY <1>5, <1>7, <1>9, <1>10 DEF Holder
<1>12. CASE FlushCancelled(o)
    <2>1. phase = "flushed" /\ op[o].phase = "read" /\ UNCHANGED <<status, row>>
        BY <1>4, <1>12, OpToFact DEF FlushCancelled, OpPhases
    <2> QED
        BY <1>9, <1>11, <2>1, SeatsRest
<1>13. CASE ReleaseSeat(o)
    <2>1. op[o].phase = "flushed" /\ UNCHANGED row
        BY <1>13 DEF ReleaseSeat
    <2>2. CASE ReleaseCall(SeatOf(h), TRUE) /\ OpTo(o, "released")
        <3>1. phase = "released"
            BY <1>4, <2>2, OpToFact DEF OpPhases
        <3>2. Changes(h, "HOLD", "AVAILABLE")
            BY <2>2, ReleaseAnswered DEF Changes
        <3> QED
            BY <1>9, <1>11, <2>1, <3>1, <3>2, SeatLeft
    <2>3. CASE ReleaseCall(SeatOf(h), FALSE) /\ EndOp(o)
        <3>1. phase = "idle" /\ UNCHANGED status
            BY <1>4, <2>3, EndOpFact, ReleaseAnswered
        <3> QED
            BY <1>9, <1>11, <2>1, <3>1, SeatsRest
    <2> QED
        BY <1>1, <1>13, <2>2, <2>3 DEF ReleaseSeat
<1>14. CASE CommitCancelled(o)
    <2>1. op[o].phase = "released" /\ row'[h].status = "CANCELLED" /\ UNCHANGED status
        BY <1>1, <1>14 DEF CommitCancelled, IInv, TypeOK
    <2>2. ~ Holder(h) /\ ~ Holder(h)'
        BY <1>9, <1>11, <2>1 DEF Holder
    <2> QED
        BY <1>9, <2>1, <2>2, SeatsRest
<1>15. CASE SellSeat(o)
    <2>1. op[o].phase = "read" /\ UNCHANGED row
        BY <1>15 DEF SellSeat
    <2>2. CASE ConfirmCall(SeatOf(h), TRUE) /\ OpTo(o, "sold")
        <3>1. phase = "sold" /\ op'[o].target = h
            BY <1>1, <1>4, <2>2, OpToFact DEF OpPhases
        <3>2. Changes(h, "HOLD", "SOLD")
            BY <2>2, ConfirmAnswered DEF Changes
        <3>3. Bought(h)'
            BY <1>4, <3>1 DEF Bought, Sold
        <3> QED
            BY <1>9, <1>11, <2>1, <3>1, <3>2, <3>3, SeatLeft
    <2>3. CASE ConfirmCall(SeatOf(h), FALSE) /\ EndOp(o)
        <3>1. phase = "idle" /\ UNCHANGED status
            BY <1>4, <2>3, EndOpFact, ConfirmAnswered
        <3> QED
            BY <1>9, <1>11, <2>1, <3>1, SeatsRest
    <2> QED
        BY <1>1, <1>15, <2>2, <2>3 DEF SellSeat
<1>16. CASE CommitConfirmed(o)
    <2>1. op[o].phase = "sold" /\ row'[h].status = "CONFIRMED" /\ UNCHANGED status
        BY <1>8, <1>16 DEF CommitConfirmed
    <2>2. ~ Holder(h) /\ ~ Holder(h)'
        BY <1>9, <1>11, <2>1 DEF Holder
    <2> QED
        BY <1>9, <2>1, <2>2, SeatsRest
<1> QED
    BY <1>12, <1>13, <1>14, <1>15, <1>16 DEF OpStep

\* A command that reads its row changes nothing yet.
LEMMA ReadRowOwned ==
    ASSUME IInv, Owned, NEW o \in Ops, NEW r \in Reservations, NEW c \in Commands,
           ReadRow(o, r, c)
    PROVE  Owned'
<1>1. /\ op[o].phase = "idle" /\ op'[o].phase = "read"
      /\ \A x \in Ops : x # o => op'[x] = op[x]
      /\ UNCHANGED <<status, create, row>>
    BY DEF ReadRow, IInv, TypeOK
<1>2. \A x \in Reservations : (Taken(x)' <=> Taken(x)) /\ (Bought(x)' <=> Bought(x))
    BY <1>1 DEF Taken, Bought, Sold
<1>3. \A x \in Reservations : (Holder(x)' <=> Holder(x)) /\ SeatOf(x)' = SeatOf(x)
    BY <1>1, <1>2 DEF Holder, InHand, SeatOf
<1> QED
    BY <1>1, <1>2, <1>3 DEF Owned

-----------------------------------------------------------------------------
(* The invariant.                                                          *)

\* Faults are counted and never forgotten.
LEMMA FaultsGrow ==
    ASSUME Next
    PROVE  Fault \/ UNCHANGED faults
<1>1. ASSUME NEW r \in Reservations, CreateStep(r)
      PROVE  Fault \/ UNCHANGED faults
    BY <1>1 DEF CreateStep, ValidateToken, HoldSeat, SaveAndConsume, Compensate, Unlock,
       CommitCreate, HoldCall, ConsumeCall, ReleaseCall, Call, NoFault
<1>2. ASSUME NEW o \in Ops, OpStep(o)
      PROVE  Fault \/ UNCHANGED faults
    BY <1>2 DEF OpStep, FlushCancelled, ReleaseSeat, CommitCancelled, SellSeat,
       CommitConfirmed, ReleaseCall, ConfirmCall, Call, NoFault
<1>3. CASE SweepStart \/ SweepStep \/ SweepDies
    BY <1>3 DEF SweepStart, SweepStep, SweepFlush, SweepRelease, SweepCommit, SweepDies,
       ReleaseCall, Call, NoFault
<1> QED
    BY <1>1, <1>2, <1>3 DEF Next, AcquireLock, LockConflict, CreateDies, HoldTimeEnds,
       LeaseEnds, TokenEnds, ReadRow, OpDies

\* No step takes the row of a command at work away from it.
LEMMA AloneKept ==
    ASSUME ~ SweepOn, IInv, Alone, [Next]_vars, ~ Overlap'
    PROVE  Alone'
<1>1. ASSUME NEW r \in Reservations, CreateStep(r) \/ CreateDies(r) \/ HoldTimeEnds(r)
      PROVE  /\ UNCHANGED <<op, sweep>>
             /\ \A x \in Reservations : row[x].status = "PENDING" => row'[x].status = "PENDING"
    BY <1>1 DEF CreateStep, ValidateToken, HoldSeat, SaveAndConsume, Compensate, Unlock,
       CommitCreate, CreateDies, HoldTimeEnds, IInv, TypeOK
<1>2. ASSUME NEW o \in Ops, OpStep(o) \/ OpDies(o)
      PROVE  /\ UNCHANGED sweep
             /\ \A x \in Ops : op'[x].phase # "idle" =>
                    row'[op'[x].target].status = "PENDING"
    <2>1. /\ UNCHANGED sweep /\ \A x \in Ops : op[x].phase # "idle" => x = o
          /\ row[op[o].target].status = "PENDING"
        BY <1>2 DEF OpStep, FlushCancelled, ReleaseSeat, CommitCancelled, SellSeat,
           CommitConfirmed, OpDies, Alone, Overlap
    <2>2. CASE EndOp(o)
        <3>1. \A x \in Ops : op'[x].phase = "idle"
            BY <2>1, <2>2, EndOpFact
        <3> QED
            BY <2>1, <3>1
    <2>3. CASE UNCHANGED row /\ \E phase \in OpPhases : OpTo(o, phase)
        <3>1. /\ op'[o].target = op[o].target
              /\ \A x \in Ops : op'[x].phase # "idle" => x = o
            BY <2>1, <2>3, OpToFact
        <3> QED
            BY <2>1, <2>3, <3>1
    <2> QED
        BY <1>2, <2>2, <2>3 DEF OpStep, FlushCancelled, ReleaseSeat, CommitCancelled,
           SellSeat, CommitConfirmed, OpDies, OpPhases
<1>3. ASSUME NEW o \in Ops, NEW r \in Reservations, NEW c \in Commands, ReadRow(o, r, c)
      PROVE  /\ UNCHANGED sweep
             /\ \A x \in Ops : op'[x].phase # "idle" =>
                    row'[op'[x].target].status = "PENDING"
    BY <1>3 DEF ReadRow, Accepts, IInv, TypeOK, Alone
<1>4. ~(SweepStart \/ SweepStep \/ SweepDies)
    <2>1. sweep.running = FALSE /\ sweep.todo = {} /\ sweep.now = Nobody
        BY DEF Alone, NoRun
    <2> QED
        BY <2>1 DEF SweepStart, SweepStep, SweepFlush, SweepRelease, SweepCommit,
           SweepDies
<1>5. CASE UNCHANGED <<row, op, sweep>>
    BY <1>5 DEF Alone
<1>6. ASSUME NEW r \in Reservations, CreateStep(r) \/ CreateDies(r) \/ HoldTimeEnds(r)
      PROVE  Alone'
    <2>1. \A x \in Ops : op[x].phase # "idle" => op[x].target \in Reservations
        BY DEF IInv, TargetsHaveRows
    <2> QED
        BY <1>1, <1>6, <2>1 DEF Alone
<1>7. ASSUME NEW o \in Ops,
             \/ OpStep(o) \/ OpDies(o)
             \/ \E r \in Reservations, c \in Commands : ReadRow(o, r, c)
      PROVE  Alone'
    BY <1>2, <1>3, <1>7 DEF Alone
<1> QED
    BY <1>4, <1>5, <1>6, <1>7 DEF Next, AcquireLock, LockConflict, LeaseEnds,
       TokenEnds, vars

LEMMA OwnedKept ==
    ASSUME ~ SweepOn, IInv, Owned, Alone, [Next]_vars, ~ Fault
    PROVE  Owned'
<1>1. ~(SweepStart \/ SweepStep \/ SweepDies)
    <2>1. sweep.running = FALSE /\ sweep.todo = {} /\ sweep.now = Nobody
        BY DEF Alone, NoRun
    <2> QED
        BY <2>1 DEF SweepStart, SweepStep, SweepFlush, SweepRelease, SweepCommit,
           SweepDies
<1>2. ASSUME NEW r \in Reservations, CreateStep(r)
      PROVE  Owned'
    BY <1>2, CreateStepOwned
<1>3. ASSUME NEW o \in Ops, OpStep(o)
      PROVE  Owned'
    BY <1>3, OpStepOwned
<1>4. ASSUME NEW o \in Ops, NEW r \in Reservations, NEW c \in Commands, ReadRow(o, r, c)
      PROVE  Owned'
    BY <1>4, ReadRowOwned
<1>5. \A r \in Reservations : ~ CreateDies(r)
    BY DEF CreateDies
<1>6. \A o \in Ops : ~ OpDies(o)
    BY DEF OpDies
<1> QED
    BY <1>1, <1>2, <1>3, <1>4, <1>5, <1>6, OutsideOwned DEF Next

LEMMA InitUndisturbed == Init => Owned /\ Alone
<1> SUFFICES ASSUME Init
             PROVE  Owned /\ Alone
    OBVIOUS
<1>1. \A r \in Reservations : ~ Holder(r)
    BY DEF Init, Holder, InHand
<1>2. \A s \in Seats : status[s] = "AVAILABLE"
    BY DEF Init, Seat!Init
<1> QED
    BY <1>1, <1>2 DEF Init, Owned, Alone, Overlap, Idle

LEMMA UndisturbedStep ==
    ASSUME ~ SweepOn, IInv, Undisturbed, [WatchedNext]_<<vars, overlapped>>
    PROVE  Undisturbed'
<1> SUFFICES ASSUME faults' = 0, ~ overlapped'
             PROVE  Owned' /\ Alone'
    BY DEF Undisturbed
<1>1. [Next]_vars
    BY DEF WatchedNext
<1>2. ~ Fault /\ faults = 0
    <2>1. faults \in Nat
        BY DEF IInv, TypeOK
    <2>2. ~ Fault
        BY <2>1 DEF Fault
    <2> QED
        BY <1>1, <2>2, FaultsGrow DEF vars
<1>3. ~ overlapped
    BY DEF WatchedNext
<1>4. Owned /\ Alone
    BY <1>2, <1>3 DEF Undisturbed
<1>5. ~ Overlap'
    <2>1. CASE WatchedNext
        BY <2>1 DEF WatchedNext
    <2>2. CASE UNCHANGED <<vars, overlapped>>
        BY <1>4, <2>2 DEF vars, Alone, Overlap
    <2> QED
        BY <2>1, <2>2
<1> QED
    BY <1>1, <1>2, <1>4, <1>5, OwnedKept, AloneKept

\* Holders are the owners, one by one.
LEMMA OwnedSuffices ==
    ASSUME IInv, Owned
    PROVE  HoldHasOneOwner
<1> SUFFICES ASSUME NEW s \in Seats
             PROVE  /\ Cardinality(Owners(s)) = (IF status[s] = "HOLD" THEN 1 ELSE 0)
                    /\ status[s] = "SOLD" =>
                          \/ Confirmed(s) # {}
                          \/ \E o \in Ops : op[o].phase = "sold" /\ SeatOf(op[o].target) = s
    BY DEF HoldHasOneOwner
<1>1. Owners(s) = {r \in Reservations : SeatOf(r) = s /\ Holder(r)}
    BY DEF Owners, Holder, InHand, Taken
<1>2. CASE status[s] = "HOLD"
    <2>1. PICK r \in Reservations : Holder(r) /\ SeatOf(r) = s
        BY <1>2 DEF Owned
    <2>2. Owners(s) = {r}
        BY <1>1, <2>1 DEF Owned
    <2> QED
        BY <1>2, <2>2, FS_Singleton
<1>3. CASE status[s] # "HOLD"
    <2>1. Owners(s) = {}
        BY <1>1, <1>3 DEF Owned
    <2>2. status[s] = "SOLD" =>
              \/ Confirmed(s) # {}
              \/ \E o \in Ops : op[o].phase = "sold" /\ SeatOf(op[o].target) = s
        BY DEF Owned, Bought, Sold, Confirmed
    <2> QED
        BY <1>3, <2>1, <2>2, FS_EmptySet
<1> QED
    BY <1>2, <1>3

\* Until something fails or two commands on reservations overlap, a HOLD belongs
\* to exactly one reservation or request and a SOLD seat to its buyer, for any
\* number of requests that compete for it, of leases that end too early and of
\* commands one after the other (doCreateReservation, cancelReservation).
THEOREM HoldsAreOwned ==
    ASSUME ~ SweepOn
    PROVE  WatchedSpec => []OwnedUntilTrouble
<1>1. WatchedInit => IInv /\ Undisturbed
    BY InitIInv, InitUndisturbed DEF WatchedInit, Undisturbed
<1>2. IInv /\ Undisturbed /\ [WatchedNext]_<<vars, overlapped>> => IInv' /\ Undisturbed'
    <2> SUFFICES ASSUME IInv, Undisturbed, [WatchedNext]_<<vars, overlapped>>
                 PROVE  IInv' /\ Undisturbed'
        OBVIOUS
    <2>1. [Next]_vars
        BY DEF WatchedNext
    <2> QED
        BY <2>1, NextIInv, UndisturbedStep
<1>3. IInv /\ Undisturbed => OwnedUntilTrouble
    BY OwnedSuffices DEF Undisturbed, OwnedUntilTrouble
<1> QED
    BY <1>1, <1>2, <1>3, PTL DEF WatchedSpec
=============================================================================
