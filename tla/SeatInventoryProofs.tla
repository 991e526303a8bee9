------------------------ MODULE SeatInventoryProofs -------------------------
(***************************************************************************)
(* For any number of seats and of concurrent requests: seats are sold      *)
(* once, one transaction wins each version, and the commands are           *)
(* indivisible (SeatInventory implements SeatRegister).                    *)
(*                                                                         *)
(* The invariant that carries the argument is SnapshotsAgree: a            *)
(* transaction whose version is still the row's version has read the       *)
(* row's status, so the check made at the read still holds at the write.   *)
(* With it, each commit moves the balance of holds by one on both sides.   *)
(***************************************************************************)
EXTENDS SeatInventory, FiniteSetTheorems, TLAPS

\* A request that has begun names a seat.
Begun == \A r \in Requests : req[r].phase # "new" => req[r].seat \in Seats

\* The version a transaction read is not ahead of the row, and while it is the
\* row's version the row still has the status the command expects.
SnapshotsAgree ==
    \A r \in Requests :
        req[r].phase = "read" =>
            /\ req[r].version <= seat[req[r].seat].version
            /\ req[r].version = seat[req[r].seat].version
                 => seat[req[r].seat].status = Expected[req[r].kind]

\* A committed transaction has moved the version past the one it read.
WinnersBehind ==
    \A r \in Requests :
        req[r].phase = "ok" => req[r].version < seat[req[r].seat].version

\* Every version a seat has left behind was won by somebody.
VersionsWon ==
    \A s \in Seats, v \in Nat :
        v < seat[s].version =>
            \E w \in Requests : /\ req[w].phase = "ok"
                                /\ req[w].seat = s
                                /\ req[w].version = v

\* A transaction that met a conflict had read a version now left behind.
LosersBehind ==
    \A r \in Requests :
        req[r].phase = "conflict" => req[r].version < seat[req[r].seat].version

\* After a confirm the seat is SOLD.
ConfirmedIsSold ==
    \A r \in Requests :
        req[r].phase = "ok" /\ req[r].kind = "confirm"
            => seat[req[r].seat].status = "SOLD"

IInv ==
    /\ TypeOK
    /\ Begun
    /\ SnapshotsAgree
    /\ WinnersBehind
    /\ VersionsWon
    /\ LosersBehind
    /\ ConfirmedIsSold
    /\ OneWinnerPerVersion
    /\ SoldOnce
-----------------------------------------------------------------------------
LEMMA InitIInv == Init => IInv
<1> SUFFICES ASSUME Init PROVE IInv
  OBVIOUS
<1>1. TypeOK
  BY DEF Init, TypeOK, Fresh, SeatStatus, Phases, Kinds
<1>2. \A r \in Requests : req[r].phase = "new"
  BY DEF Init, Fresh
<1>3. VersionsWon
  BY DEF Init, VersionsWon
<1> QED
  BY <1>1, <1>2, <1>3 DEF IInv, Begun, SnapshotsAgree, WinnersBehind,
     LosersBehind, ConfirmedIsSold, OneWinnerPerVersion, SoldOnce

\* Reading changes no row; the new snapshot agrees because it was just taken.
LEMMA ReadIInv ==
  ASSUME IInv, NEW r \in Requests, NEW s \in Seats, NEW k \in Kinds, Read(r, s, k)
  PROVE  IInv'
<1> USE DEF IInv
<1>1. TypeOK'
  BY DEF Read, TypeOK, Phases
<1>2. /\ seat' = seat
      /\ \A q \in Requests : q # r => req'[q] = req[q]
  BY DEF Read, TypeOK
<1>3. /\ req'[r].phase \in {"read", "rejected"}
      /\ req'[r].kind = k /\ req'[r].seat = s /\ req'[r].version = seat[s].version
      /\ req'[r].phase = "read" => seat[s].status = Expected[k]
  BY DEF Read, TypeOK
<1>4. Begun'
  BY <1>2, <1>3 DEF Begun
<1>5. SnapshotsAgree'
  BY <1>2, <1>3 DEF SnapshotsAgree, TypeOK
<1>6. /\ WinnersBehind' /\ LosersBehind' /\ ConfirmedIsSold'
      /\ OneWinnerPerVersion' /\ SoldOnce'
  BY <1>2, <1>3 DEF WinnersBehind, LosersBehind, ConfirmedIsSold,
     OneWinnerPerVersion, SoldOnce
<1>7. VersionsWon'
  BY <1>2, <1>3 DEF VersionsWon, Read
<1> QED
  BY <1>1, <1>4, <1>5, <1>6, <1>7

\* The write: the version it checks makes the status it read current.
LEMMA WriteIInv ==
  ASSUME IInv, NEW r \in Requests, Write(r)
  PROVE  IInv'
<1> DEFINE s == req[r].seat
<1> USE DEF IInv
<1>1. s \in Seats
  BY DEF Write, Begun
<1>2. /\ seat[s].version = req[r].version
      /\ seat[s].status = Expected[req[r].kind]
      /\ seat[s].version \in Nat /\ req[r].kind \in Kinds
  BY <1>1 DEF Write, SnapshotsAgree, TypeOK
<1>3. /\ seat'[s].version = seat[s].version + 1
      /\ seat'[s].status = Target[req[r].kind]
      /\ \A z \in Seats : z # s => seat'[z] = seat[z]
  BY <1>1, <1>2 DEF Write, TypeOK
<1>4. /\ \A q \in Requests : q # r => req'[q] = req[q]
      /\ req'[r].phase = "ok" /\ req'[r].kind = req[r].kind
      /\ req'[r].seat = s /\ req'[r].version = req[r].version
  BY DEF Write, TypeOK
<1>5. seat[s].status # "SOLD"
  BY <1>2 DEF Kinds, Expected
<1>6. TypeOK'
  BY <1>1, <1>2 DEF Write, TypeOK, Phases, Kinds, SeatStatus, Target
<1>7. Begun'
  BY <1>1, <1>4 DEF Begun
<1>8. SnapshotsAgree'
  <2> SUFFICES ASSUME NEW q \in Requests, req'[q].phase = "read"
               PROVE  /\ req'[q].version <= seat'[req'[q].seat].version
                      /\ req'[q].version = seat'[req'[q].seat].version
                           => seat'[req'[q].seat].status = Expected[req'[q].kind]
    BY DEF SnapshotsAgree
  <2>1. q # r /\ req'[q] = req[q] /\ req[q].seat \in Seats /\ req[q].version \in Nat
    BY <1>4 DEF Begun, TypeOK
  <2>2. req[q].version <= seat[req[q].seat].version
    BY <2>1 DEF SnapshotsAgree
  <2>3. CASE req[q].seat = s
    BY <1>2, <1>3, <2>1, <2>2, <2>3
  <2>4. CASE req[q].seat # s
    BY <1>3, <2>1, <2>4 DEF SnapshotsAgree
  <2> QED
    BY <2>3, <2>4
<1>9. WinnersBehind' /\ LosersBehind'
  <2>1. \A q \in Requests : req[q].phase # "new" =>
           req[q].seat \in Seats /\ req[q].version \in Nat
                                 /\ seat[req[q].seat].version \in Nat
    BY DEF Begun, TypeOK
  <2> QED
    BY <1>2, <1>3, <1>4, <2>1 DEF WinnersBehind, LosersBehind
<1>10. VersionsWon'
  <2> SUFFICES ASSUME NEW z \in Seats, NEW v \in Nat, v < seat'[z].version
               PROVE  \E w \in Requests : /\ req'[w].phase = "ok"
                                          /\ req'[w].seat = z
                                          /\ req'[w].version = v
    BY DEF VersionsWon
  <2>1. CASE z = s /\ v = seat[s].version
    BY <1>2, <1>4, <2>1
  <2>2. CASE ~(z = s /\ v = seat[s].version)
    <3>1. v < seat[z].version
      BY <1>2, <1>3, <2>2
    <3>2. PICK w \in Requests : /\ req[w].phase = "ok"
                                /\ req[w].seat = z
                                /\ req[w].version = v
      BY <3>1 DEF VersionsWon
    <3>3. w # r
      BY <3>2 DEF Write
    <3> QED
      BY <1>4, <3>2, <3>3
  <2> QED
    BY <2>1, <2>2
<1>11. ConfirmedIsSold'
  <2>1. \A q \in Requests : q # r /\ req[q].phase = "ok" /\ req[q].kind = "confirm"
           => req[q].seat # s /\ req[q].seat \in Seats
    BY <1>5 DEF ConfirmedIsSold, Begun
  <2>2. req[r].kind = "confirm" => seat'[s].status = "SOLD"
    BY <1>3 DEF Target
  <2> QED
    BY <1>3, <1>4, <2>1, <2>2 DEF ConfirmedIsSold
<1>12. OneWinnerPerVersion'
  <2>1. \A q \in Requests : q # r /\ req[q].phase = "ok" /\ req[q].seat = s
           => req[q].version # req[r].version
    BY <1>2 DEF WinnersBehind, TypeOK
  <2> QED
    BY <1>4, <2>1 DEF OneWinnerPerVersion
<1>13. SoldOnce'
  <2>1. \A q \in Requests : q # r /\ req[q].phase = "ok" /\ req[q].kind = "confirm"
           => req[q].seat # s
    BY <1>5 DEF ConfirmedIsSold
  <2> QED
    BY <1>4, <1>11, <2>1 DEF SoldOnce, ConfirmedIsSold
<1> QED
  BY <1>6, <1>7, <1>8, <1>9, <1>10, <1>11, <1>12, <1>13

\* A failed or aborted transaction leaves the rows and the winners alone.
LEMMA LoseIInv ==
  ASSUME IInv, NEW r \in Requests, Conflict(r) \/ Abort(r)
  PROVE  IInv'
<1> USE DEF IInv
<1>1. TypeOK'
  BY DEF Conflict, Abort, TypeOK, Phases
<1>2. /\ seat' = seat
      /\ \A q \in Requests : q # r => req'[q] = req[q]
      /\ req[r].phase = "read"
      /\ req'[r].phase \in {"conflict", "aborted"}
      /\ req'[r].kind = req[r].kind /\ req'[r].seat = req[r].seat
      /\ req'[r].version = req[r].version
  BY DEF Conflict, Abort, TypeOK
<1>3. Begun' /\ SnapshotsAgree' /\ WinnersBehind' /\ ConfirmedIsSold'
  BY <1>2 DEF Begun, SnapshotsAgree, WinnersBehind, ConfirmedIsSold
<1>4. OneWinnerPerVersion' /\ SoldOnce'
  BY <1>2 DEF OneWinnerPerVersion, SoldOnce
<1>5. VersionsWon'
  <2> SUFFICES ASSUME NEW z \in Seats, NEW v \in Nat, v < seat'[z].version
               PROVE  \E w \in Requests : /\ req'[w].phase = "ok"
                                          /\ req'[w].seat = z
                                          /\ req'[w].version = v
    BY DEF VersionsWon
  <2>1. PICK w \in Requests : /\ req[w].phase = "ok"
                              /\ req[w].seat = z
                              /\ req[w].version = v
    BY <1>2 DEF VersionsWon
  <2> QED
    BY <1>2, <2>1
<1>6. LosersBehind'
  <2>1. req'[r].phase = "conflict" => req[r].version < seat[req[r].seat].version
    <3>1. /\ req[r].version \in Nat /\ seat[req[r].seat].version \in Nat
          /\ req[r].version <= seat[req[r].seat].version
      BY <1>2 DEF Begun, TypeOK, SnapshotsAgree
    <3>2. ASSUME req'[r].phase = "conflict"
          PROVE  seat[req[r].seat].version # req[r].version
      BY <1>2, <3>2 DEF Conflict, Abort, TypeOK
    <3> QED
      BY <3>1, <3>2
  <2> QED
    BY <1>2, <2>1 DEF LosersBehind
<1> QED
  BY <1>1, <1>3, <1>4, <1>5, <1>6

LEMMA NextIInv == IInv /\ [Next]_vars => IInv'
<1> SUFFICES ASSUME IInv, [Next]_vars PROVE IInv'
  OBVIOUS
<1>1. ASSUME NEW r \in Requests, NEW s \in Seats, NEW k \in Kinds, Read(r, s, k)
      PROVE  IInv'
  BY <1>1, ReadIInv
<1>2. ASSUME NEW r \in Requests, Write(r)
      PROVE  IInv'
  BY <1>2, WriteIInv
<1>3. ASSUME NEW r \in Requests, Conflict(r) \/ Abort(r)
      PROVE  IInv'
  BY <1>3, LoseIInv
<1>4. CASE UNCHANGED vars
  BY <1>4 DEF vars, IInv, TypeOK, Begun, SnapshotsAgree, WinnersBehind,
     VersionsWon, LosersBehind, ConfirmedIsSold, OneWinnerPerVersion, SoldOnce
<1> QED
  BY <1>1, <1>2, <1>3, <1>4 DEF Next

\* IInv is an invariant of the commands of concert-app.
LEMMA Invariance == Spec => []IInv
BY InitIInv, NextIInv, PTL DEF Spec
-----------------------------------------------------------------------------
\* Rows and requests keep their types (SeatEntity, SeatStatus).
THEOREM TypeCorrect == Spec => []TypeOK
<1>1. IInv => TypeOK
  BY DEF IInv
<1> QED
  BY <1>1, Invariance, PTL

\* Of the transactions that read one version of a seat at most one commits
\* (@Version in SeatEntity, updateWithFlush in SeatWriter).
THEOREM OneWinner == Spec => []OneWinnerPerVersion
<1>1. IInv => OneWinnerPerVersion
  BY DEF IInv
<1> QED
  BY <1>1, Invariance, PTL

\* A seat is sold at most once and stays sold (SeatInternalService.confirm).
THEOREM SeatSoldOnce == Spec => []SoldOnce
<1>1. IInv => SoldOnce
  BY DEF IInv
<1> QED
  BY <1>1, Invariance, PTL

\* Whoever is answered SEAT_CONCURRENT_CONFLICT lost to a committed request.
THEOREM LoserHasWinner == Spec => []ConflictHasWinner
<1>1. IInv => ConflictHasWinner
  <2> SUFFICES ASSUME IInv, NEW r \in Requests, req[r].phase = "conflict"
               PROVE  \E w \in Requests : /\ req[w].phase = "ok"
                                          /\ req[w].seat = req[r].seat
                                          /\ req[w].version = req[r].version
    BY DEF ConflictHasWinner
  <2>1. req[r].seat \in Seats /\ req[r].version \in Nat
    BY DEF IInv, Begun, TypeOK
  <2> QED
    BY <2>1 DEF IInv, LosersBehind, VersionsWon
<1> QED
  BY <1>1, Invariance, PTL

\* Seen from outside, every command is one indivisible, checked change of the
\* status: SeatInventory implements SeatRegister.
THEOREM CommandsAreIndivisible == Spec => RegisterSpec
<1> DEFINE status == [s \in Seats |-> seat[s].status]
<1>1. Init => Register!Init
  BY DEF Init, Register!Init
<1>2. ASSUME IInv, [Next]_vars
      PROVE  [Register!Next]_status
  <2> USE DEF IInv
  <2>1. ASSUME NEW r \in Requests, Write(r)
        PROVE  Register!Next
    <3> DEFINE s == req[r].seat
    <3>1. s \in Seats /\ req[r].kind \in Kinds
      BY <1>2, <2>1 DEF Write, Begun, TypeOK
    <3>2. seat[s].status = Expected[req[r].kind]
      BY <1>2, <2>1, <3>1 DEF Write, SnapshotsAgree
    <3>3. status' = [status EXCEPT ![s] = Target[req[r].kind]]
      BY <1>2, <2>1, <3>1 DEF Write, TypeOK
    <3>4. status[s] = Expected[req[r].kind]
      BY <3>1, <3>2
    <3>5. \/ Expected[req[r].kind] = "AVAILABLE" /\ Target[req[r].kind] = "HOLD"
          \/ Expected[req[r].kind] = "HOLD" /\ Target[req[r].kind] = "AVAILABLE"
          \/ Expected[req[r].kind] = "HOLD" /\ Target[req[r].kind] = "SOLD"
      BY <3>1 DEF Kinds, Expected, Target
    <3> HIDE DEF s, status
    <3> QED
      BY <3>1, <3>3, <3>4, <3>5 DEF Register!Next, Register!Hold,
         Register!Release, Register!Confirm, Register!Change, status
  <2>2. ASSUME NEW r \in Requests, NEW s \in Seats, NEW k \in Kinds,
               Read(r, s, k)
        PROVE  UNCHANGED status
    BY <2>2 DEF Read
  <2>3. CASE UNCHANGED vars
    BY <2>3 DEF vars
  <2>4. ASSUME NEW r \in Requests, Conflict(r) \/ Abort(r)
        PROVE  UNCHANGED status
    BY <2>4 DEF Conflict, Abort
  <2> QED
    BY <1>2, <2>1, <2>2, <2>3, <2>4 DEF Next
<1> QED
  BY <1>1, <1>2, Invariance, PTL DEF Spec, RegisterSpec, Register!Spec
-----------------------------------------------------------------------------
(* The balance of holds.                                                   *)

Holds(s) == Succeeded(s, {"pick", "hold"})
Ends(s)  == Succeeded(s, {"release", "confirm"})
InForce(s) == IF seat[s].status = "HOLD" THEN 1 ELSE 0

HoldsCounted ==
    \A s \in Seats :
        /\ IsFiniteSet(Holds(s)) /\ IsFiniteSet(Ends(s))
        /\ Cardinality(Holds(s)) = Cardinality(Ends(s)) + InForce(s)

LEMMA InitCounted == Init => HoldsCounted
<1> SUFFICES ASSUME Init, NEW s \in Seats
             PROVE  /\ IsFiniteSet(Holds(s)) /\ IsFiniteSet(Ends(s))
                    /\ Cardinality(Holds(s)) = Cardinality(Ends(s)) + InForce(s)
  BY DEF HoldsCounted
<1>1. Holds(s) = {} /\ Ends(s) = {}
  BY DEF Init, Fresh, Holds, Ends, Succeeded
<1>2. InForce(s) = 0
  BY DEF Init, InForce
<1> QED
  BY <1>1, <1>2, FS_EmptySet

\* Who has not committed counts nowhere.
LEMMA OthersCounted ==
  ASSUME HoldsCounted, UNCHANGED seat, NEW r \in Requests,
         \A q \in Requests : q # r => req'[q] = req[q],
         req[r].phase # "ok", req'[r].phase # "ok"
  PROVE  HoldsCounted'
<1>1. \A s \in Seats : Holds(s)' = Holds(s) /\ Ends(s)' = Ends(s) /\ InForce(s)' = InForce(s)
  BY DEF Holds, Ends, Succeeded, InForce
<1> QED
  BY <1>1 DEF HoldsCounted

\* A commit adds one hold or one end, and takes or gives the status HOLD.
LEMMA WriteCounted ==
  ASSUME IInv, HoldsCounted, NEW r \in Requests, Write(r)
  PROVE  HoldsCounted'
<1>0. req[r].seat \in Seats /\ req[r].kind \in Kinds
  BY DEF IInv, Begun, TypeOK, Write
<1>1. PICK t \in Seats, k \in Kinds :
           /\ t = req[r].seat /\ k = req[r].kind /\ req[r].phase = "read"
           /\ seat[t].status = Expected[k]
  BY <1>0 DEF IInv, SnapshotsAgree, Write
<1>2. /\ req'[r].phase = "ok" /\ req'[r].seat = t /\ req'[r].kind = k
      /\ \A q \in Requests : q # r => req'[q] = req[q]
      /\ seat'[t].status = Target[k]
      /\ \A s \in Seats : s # t => seat'[s] = seat[s]
  BY <1>1 DEF IInv, TypeOK, Write
<1>3. ASSUME NEW s \in Seats, s # t
      PROVE  Holds(s)' = Holds(s) /\ Ends(s)' = Ends(s) /\ InForce(s)' = InForce(s)
  BY <1>1, <1>2, <1>3 DEF Holds, Ends, Succeeded, InForce
<1>4. /\ IsFiniteSet(Holds(t)) /\ IsFiniteSet(Ends(t))
      /\ Cardinality(Holds(t)) \in Nat /\ Cardinality(Ends(t)) \in Nat
      /\ Cardinality(Holds(t)) = Cardinality(Ends(t)) + InForce(t)
      /\ r \notin Holds(t) /\ r \notin Ends(t)
  BY <1>1, FS_CardinalityType DEF HoldsCounted, Holds, Ends, Succeeded
<1>5. CASE k \in {"pick", "hold"}
  <2>1. Holds(t)' = Holds(t) \cup {r} /\ Ends(t)' = Ends(t)
    BY <1>1, <1>2, <1>5 DEF Holds, Ends, Succeeded
  <2>2. InForce(t) = 0 /\ InForce(t)' = 1
    BY <1>1, <1>2, <1>5 DEF InForce, Expected, Target
  <2>3. IsFiniteSet(Holds(t) \cup {r})
        /\ Cardinality(Holds(t) \cup {r}) = Cardinality(Holds(t)) + 1
    BY <1>4, FS_AddElement
  <2>4. /\ IsFiniteSet(Holds(t))' /\ IsFiniteSet(Ends(t))'
        /\ Cardinality(Holds(t))' = Cardinality(Ends(t))' + InForce(t)'
    BY <1>4, <2>1, <2>2, <2>3
  <2> QED
    BY <1>3, <2>4 DEF HoldsCounted
<1>6. CASE k \in {"release", "confirm"}
  <2>1. Ends(t)' = Ends(t) \cup {r} /\ Holds(t)' = Holds(t)
    BY <1>1, <1>2, <1>6 DEF Holds, Ends, Succeeded
  <2>2. InForce(t) = 1 /\ InForce(t)' = 0
    BY <1>1, <1>2, <1>6 DEF InForce, Expected, Target
  <2>3. IsFiniteSet(Ends(t) \cup {r})
        /\ Cardinality(Ends(t) \cup {r}) = Cardinality(Ends(t)) + 1
    BY <1>4, FS_AddElement
  <2>4. /\ IsFiniteSet(Holds(t))' /\ IsFiniteSet(Ends(t))'
        /\ Cardinality(Holds(t))' = Cardinality(Ends(t))' + InForce(t)'
    BY <1>4, <2>1, <2>2, <2>3
  <2> QED
    BY <1>3, <2>4 DEF HoldsCounted
<1> QED
  BY <1>1, <1>5, <1>6 DEF Kinds

LEMMA NextCounted == IInv /\ HoldsCounted /\ [Next]_vars => HoldsCounted'
<1> SUFFICES ASSUME IInv, HoldsCounted, [Next]_vars PROVE HoldsCounted'
  OBVIOUS
<1>1. ASSUME NEW r \in Requests, NEW s \in Seats, NEW k \in Kinds, Read(r, s, k)
      PROVE  HoldsCounted'
  BY <1>1, OthersCounted DEF Read, IInv, TypeOK
<1>2. ASSUME NEW r \in Requests, Write(r)
      PROVE  HoldsCounted'
  BY <1>2, WriteCounted
<1>3. ASSUME NEW r \in Requests, Conflict(r) \/ Abort(r)
      PROVE  HoldsCounted'
  BY <1>3, OthersCounted DEF Conflict, Abort, IInv, TypeOK
<1>4. CASE UNCHANGED vars
  BY <1>4 DEF vars, HoldsCounted, Holds, Ends, Succeeded, InForce
<1> QED
  BY <1>1, <1>2, <1>3, <1>4 DEF Next

\* No update is lost and none is counted twice: the holds that succeeded are
\* those released, confirmed or in force, for any number of requests
\* (SeatInternalService, @Version in SeatEntity).
THEOREM HoldsAreBalanced == Spec => []HoldsBalance
<1>1. HoldsCounted => HoldsBalance
  BY DEF HoldsCounted, HoldsBalance, Holds, Ends, InForce
<1> QED
  BY <1>1, InitCounted, NextCounted, Invariance, PTL DEF Spec
=============================================================================
