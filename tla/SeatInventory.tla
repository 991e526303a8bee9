--------------------------- MODULE SeatInventory ----------------------------
(***************************************************************************)
(* concert-app's seat commands: the internal hold / release / confirm of   *)
(* SeatInternalService.changeStatus and the public hold of SeatHolder.     *)
(*                                                                         *)
(* A command is one database transaction in two steps, because the row is  *)
(* read without a lock: the read takes a snapshot of (status, version) and *)
(* checks the status, and the write is                                     *)
(*     UPDATE seats SET status = ?, version = v + 1                        *)
(*     WHERE seat_id = ? AND version = v                                   *)
(* which changes no row, and makes the transaction fail, when another      *)
(* transaction has written the row since the read.  Flush and commit are   *)
(* one step: the row lock taken by the flush makes every competing UPDATE  *)
(* wait for the commit and then see the new version.                       *)
(***************************************************************************)
EXTENDS Naturals, FiniteSets

CONSTANTS
    Seats,       \* rows of ticketing_concert.seats
    Requests,    \* requests in flight; each runs one command
    NoSeat       \* the seat of a request that has not begun

ASSUME NoSeatAssumption == NoSeat \notin Seats

VARIABLES
    seat,        \* seat[s]: columns status and version
    req          \* req[r]: what the request has done so far

vars == <<seat, req>>

SeatStatus == {"AVAILABLE", "HOLD", "SOLD"}

\* "pick" is the hold a user asks for directly (SeatHolder), "hold",
\* "release" and "confirm" are the commands of booking-app.
Kinds == {"pick", "hold", "release", "confirm"}

\* The status a command expects, and the one it writes.
Expected == [pick |-> "AVAILABLE", hold |-> "AVAILABLE",
             release |-> "HOLD", confirm |-> "HOLD"]

\* Faulty variant: release writes a status the column does not know.
TargetMisspelt == [pick |-> "HOLD", hold |-> "HOLD",
                   release |-> "FREE", confirm |-> "SOLD"]
Target   == [pick |-> "HOLD", hold |-> "HOLD",
             release |-> "AVAILABLE", confirm |-> "SOLD"]

\* "read": snapshot taken, write still to come.  "ok": committed.
\* "rejected": the status was not the expected one.  "conflict": the version
\* had moved.  "aborted": rolled back (crash, lost connection).
Phases == {"new", "read", "ok", "rejected", "conflict", "aborted"}

Fresh == [phase |-> "new", kind |-> "hold", seat |-> NoSeat, version |-> 0]

TypeOK ==
    /\ seat \in [Seats -> [status : SeatStatus, version : Nat]]
    /\ req \in [Requests -> [phase : Phases, kind : Kinds,
                             seat : Seats \cup {NoSeat}, version : Nat]]

Init ==
    /\ seat = [s \in Seats |-> [status |-> "AVAILABLE", version |-> 0]]
    /\ req = [r \in Requests |-> Fresh]

-----------------------------------------------------------------------------
(* seatReader.read and the comparison with the expected status.            *)
Read(r, s, k) ==
    /\ req[r].phase = "new"
    /\ req' = [req EXCEPT ![r] =
                  [phase |-> IF seat[s].status = Expected[k]
                             THEN "read" ELSE "rejected",
                   kind |-> k, seat |-> s, version |-> seat[s].version]]
    /\ UNCHANGED seat

\* Faulty variant: an entity without @Version, UPDATE ... WHERE seat_id = ?.
WriteUnversioned(r) ==
    LET s == req[r].seat IN
    /\ req[r].phase = "read"
    /\ seat' = [seat EXCEPT ![s] = [status |-> Target[req[r].kind],
                                    version |-> @.version + 1]]
    /\ req' = [req EXCEPT ![r].phase = "ok"]

(* The UPDATE found the version it expected, and the transaction commits.  *)
Write(r) ==
    LET s == req[r].seat IN
    /\ req[r].phase = "read"
    /\ seat[s].version = req[r].version
    /\ seat' = [seat EXCEPT ![s] = [status |-> Target[req[r].kind],
                                    version |-> req[r].version + 1]]
    /\ req' = [req EXCEPT ![r].phase = "ok"]

\* Faulty variant: conflicts reported without looking at the version.
ConflictAnyway(r) ==
    /\ req[r].phase = "read"
    /\ req' = [req EXCEPT ![r].phase = "conflict"]
    /\ UNCHANGED seat

(* The UPDATE changed no row: OptimisticLockingFailureException, answered  *)
(* as 409 SEAT_CONCURRENT_CONFLICT (rethrown as it is by the public hold). *)
Conflict(r) ==
    /\ req[r].phase = "read"
    /\ seat[req[r].seat].version # req[r].version
    /\ req' = [req EXCEPT ![r].phase = "conflict"]
    /\ UNCHANGED seat

(* The transaction ends without its commit: its process or its connection  *)
(* to the database is gone.                                                *)
Abort(r) ==
    /\ req[r].phase = "read"
    /\ req' = [req EXCEPT ![r].phase = "aborted"]
    /\ UNCHANGED seat

Next ==
    \E r \in Requests :
        \/ \E s \in Seats, k \in Kinds : Read(r, s, k)
        \/ Write(r)
        \/ Conflict(r)
        \/ Abort(r)

Spec == Init /\ [][Next]_vars

-----------------------------------------------------------------------------
(* Properties.                                                             *)

Succeeded(s, kinds) ==
    {r \in Requests : req[r].phase = "ok" /\ req[r].seat = s /\ req[r].kind \in kinds}

\* @Version: of the transactions that read one version of a seat, at most one
\* commits; every other one gets a conflict.
OneWinnerPerVersion ==
    \A r1, r2 \in Requests :
        /\ r1 # r2
        /\ req[r1].phase = "ok" /\ req[r2].phase = "ok"
        /\ req[r1].seat = req[r2].seat
        => req[r1].version # req[r2].version

\* A seat is sold once: of all the confirm commands that ever reach a seat
\* (retries and confirms of several reservations), at most one is answered
\* with success, and then the seat stays SOLD.
SoldOnce ==
    \A r1, r2 \in Requests :
        /\ req[r1].phase = "ok" /\ req[r1].kind = "confirm"
        /\ req[r2].phase = "ok" /\ req[r2].kind = "confirm"
        /\ req[r1].seat = req[r2].seat
        => r1 = r2 /\ seat[req[r1].seat].status = "SOLD"

\* No update is lost and none is counted twice: the holds that succeeded are
\* those undone by a release, the one used up by a confirm, and the one that
\* is in force now.
HoldsBalance ==
    \A s \in Seats :
        Cardinality(Succeeded(s, {"pick", "hold"})) =
            Cardinality(Succeeded(s, {"release", "confirm"}))
                + (IF seat[s].status = "HOLD" THEN 1 ELSE 0)

\* Whatever the interleaving of reads and writes, the seats behave as if each
\* successful command had been one indivisible step.
Register == INSTANCE SeatRegister
                WITH status <- [s \in Seats |-> seat[s].status]
RegisterSpec == Register!Spec

\* Conflicts are never spurious in sum: when a transaction that had seen the
\* expected status fails on the version, another request has committed on that
\* very version, so of a crowd that read it somebody got the seat.
ConflictHasWinner ==
    \A r \in Requests :
        req[r].phase = "conflict" =>
            \E w \in Requests : /\ req[w].phase = "ok"
                                /\ req[w].seat = req[r].seat
                                /\ req[w].version = req[r].version
=============================================================================
