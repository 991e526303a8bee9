---------------------------- MODULE Idempotency -----------------------------
(***************************************************************************)
(* payment-app: IdempotencyManager and its use by PaymentController for    *)
(* the operations request and confirm.                                     *)
(*                                                                         *)
(* An attempt is one HTTP request with an Idempotency-Key.  GET and SETNX  *)
(* are two calls to Redis, so attempts interleave between them.  An        *)
(* exception of the operation, and of complete() itself, leads to remove(),*)
(* after which the key is open again, also when the operation had taken    *)
(* effect before it threw.                                                 *)
(*                                                                         *)
(* FaultKinds:  "crash"  the process of an attempt dies                    *)
(*              "redis"  a call to Redis fails, done or not done           *)
(***************************************************************************)
EXTENDS Naturals, FiniteSets

CONSTANTS
    Keys,
    Attempts,
    Nobody,          \* no attempt, no key
    FaultKinds,
    MaxFaults        \* bound on the number of faults of each kind

ASSUME NobodyAssumption == Nobody \notin Attempts \cup Keys
ASSUME FaultAssumption  == FaultKinds \subseteq {"crash", "redis"} /\ MaxFaults \in Nat

VARIABLES
    store,           \* store[k]: payment:idempotency:k in Redis, and its writer
    attempt,         \* attempt[a]: what attempt a has done, and its answer
    settled,         \* settled[k]: attempt that took effect last, if it returned
    again,           \* again[k]: attempts that took effect after one was settled
    faults           \* faults[kind]: how often it has happened

effects == <<settled, again>>
vars == <<store, attempt, effects, faults>>

States == {"absent", "PROCESSING", "answer"}

\* "looked": GET found nothing; "running": SETNX done; "executed": the
\* operation has returned; "failed": an exception is being handled.  Then the
\* HTTP answers, and "dead".
Working == {"running", "executed", "failed"}
Ended   == {"answered", "conflict", "error", "dead"}
Phases  == {"new", "looked"} \cup Working \cup Ended

Absent == [state |-> "absent", by |-> Nobody]
Fresh  == [phase |-> "new", key |-> Nobody, answer |-> Nobody]

TypeOK ==
    /\ store \in [Keys -> [state : States, by : Attempts \cup {Nobody}]]
    /\ attempt \in [Attempts -> [phase : Phases, key : Keys \cup {Nobody},
                                 answer : Attempts \cup {Nobody}]]
    /\ settled \in [Keys -> Attempts \cup {Nobody}]
    /\ again \in [Keys -> SUBSET Attempts]
    /\ faults \in [FaultKinds -> 0 .. MaxFaults]

Init ==
    /\ store = [k \in Keys |-> Absent]
    /\ attempt = [a \in Attempts |-> Fresh]
    /\ settled = [k \in Keys |-> Nobody]
    /\ again = [k \in Keys |-> {}]
    /\ faults = [kind \in FaultKinds |-> 0]

Fault(kind) ==
    /\ kind \in FaultKinds /\ faults[kind] < MaxFaults
    /\ faults' = [faults EXCEPT ![kind] = @ + 1]

KeyOf(a) == attempt[a].key
To(a, phase) == attempt' = [attempt EXCEPT ![a].phase = phase]
Answer(a, b) == attempt' = [attempt EXCEPT ![a].phase = "answered", ![a].answer = b]

-----------------------------------------------------------------------------
(* startProcessing: GET.                                                   *)
Look(a, k) ==
    /\ attempt[a].phase = "new"
    /\ attempt' = [attempt EXCEPT ![a] =
           CASE store[k].state = "absent"     -> [phase |-> "looked", key |-> k, answer |-> Nobody]
             [] store[k].state = "PROCESSING" -> [phase |-> "conflict", key |-> k, answer |-> Nobody]
             [] store[k].state = "answer"     -> [phase |-> "answered", key |-> k,
                                                  answer |-> store[k].by]]
    /\ UNCHANGED <<store, effects, faults>>

\* Faulty variant: SET instead of SETNX.
SetAlways(a) ==
    /\ attempt[a].phase = "looked"
    /\ store' = [store EXCEPT ![KeyOf(a)] = [state |-> "PROCESSING", by |-> a]]
    /\ To(a, "running")
    /\ UNCHANGED <<effects, faults>>

(* startProcessing: SETNX.                                                 *)
SetIfAbsent(a) ==
    /\ attempt[a].phase = "looked"
    /\ \/ /\ store[KeyOf(a)].state = "absent"
          /\ store' = [store EXCEPT ![KeyOf(a)] = [state |-> "PROCESSING", by |-> a]]
          /\ To(a, "running")
       \/ /\ store[KeyOf(a)].state # "absent"
          /\ To(a, "conflict")
          /\ UNCHANGED store
    /\ UNCHANGED <<effects, faults>>

(* GET or SETNX throws.  SETNX may have been carried out, and then nobody  *)
(* removes the key: startProcessing is outside the try block.              *)
StartFails(a) ==
    /\ attempt[a].phase = "looked"
    /\ Fault("redis")
    /\ \/ UNCHANGED store
       \/ /\ store[KeyOf(a)].state = "absent"
          /\ store' = [store EXCEPT ![KeyOf(a)] = [state |-> "PROCESSING", by |-> a]]
    /\ To(a, "error")
    /\ UNCHANGED effects

(* The operation takes effect.  settled is the attempt if it returned.     *)
Effect(a, returned) ==
    LET k == KeyOf(a) IN
    /\ settled' = [settled EXCEPT ![k] = returned]
    /\ again' = IF settled[k] = Nobody THEN again ELSE [again EXCEPT ![k] = @ \cup {a}]

(* The operation returns, or throws: without effect, or after it, as when  *)
(* the answer to the capture is lost, the database fails after it, or the  *)
(* reservation is refused and the money returned.                          *)
Run(a) ==
    /\ attempt[a].phase = "running"
    /\ \/ Effect(a, a) /\ To(a, "executed")
       \/ Effect(a, Nobody) /\ To(a, "failed")
       \/ UNCHANGED effects /\ To(a, "failed")
    /\ UNCHANGED <<store, faults>>

\* Faulty variant: the answer is sent and the key removed.
CompleteByRemoving(a) ==
    /\ attempt[a].phase = "executed"
    /\ store' = [store EXCEPT ![KeyOf(a)] = Absent]
    /\ Answer(a, a)
    /\ UNCHANGED <<effects, faults>>

\* Faulty variant: the answer is stored in a form the reader does not know.
CompleteUnreadable(a) ==
    /\ attempt[a].phase = "executed"
    /\ store' = [store EXCEPT ![KeyOf(a)] = [state |-> "COMPLETED", by |-> a]]
    /\ Answer(a, a)
    /\ UNCHANGED <<effects, faults>>

(* complete: the answer is stored and sent.  When SET throws, done or not, *)
(* the catch block follows although the operation has succeeded.           *)
Complete(a) ==
    LET Stored == store' = [store EXCEPT ![KeyOf(a)] = [state |-> "answer", by |-> a]] IN
    /\ attempt[a].phase = "executed"
    /\ \/ Stored /\ Answer(a, a) /\ UNCHANGED faults
       \/ Stored /\ To(a, "failed") /\ Fault("redis")
       \/ UNCHANGED store /\ To(a, "failed") /\ Fault("redis")
    /\ UNCHANGED effects

\* Faulty variant: the catch block stores the error as the answer.
RememberError(a) ==
    /\ attempt[a].phase = "failed"
    /\ store' = [store EXCEPT ![KeyOf(a)] = [state |-> "answer", by |-> a]]
    /\ To(a, "error")
    /\ UNCHANGED <<effects, faults>>

(* remove, in the catch block.                                             *)
Remove(a) ==
    LET Removed == store' = [store EXCEPT ![KeyOf(a)] = Absent] IN
    /\ attempt[a].phase = "failed"
    /\ \/ Removed /\ UNCHANGED faults
       \/ Removed /\ Fault("redis")
       \/ UNCHANGED store /\ Fault("redis")
    /\ To(a, "error")
    /\ UNCHANGED effects

Dies(a) ==
    /\ attempt[a].phase \in {"looked"} \cup Working
    /\ Fault("crash")
    /\ To(a, "dead")
    /\ UNCHANGED <<store, effects>>

\* Faulty variant: PROCESSING is stored without a time to live.
AnswerExpires(k) ==
    /\ store[k].state = "answer"
    /\ \A a \in Attempts : KeyOf(a) = k => attempt[a].phase \in Ended
    /\ store' = [store EXCEPT ![k] = Absent]
    /\ settled' = [settled EXCEPT ![k] = Nobody]
    /\ again' = [again EXCEPT ![k] = {}]
    /\ UNCHANGED <<attempt, faults>>

(* 24 hours after it was written a key is gone.  No attempt lives as long. *)
(* A key that comes after it begins a new life, without effects.           *)
KeyExpires(k) ==
    /\ store[k].state # "absent"
    /\ \A a \in Attempts : KeyOf(a) = k => attempt[a].phase \in Ended
    /\ store' = [store EXCEPT ![k] = Absent]
    /\ settled' = [settled EXCEPT ![k] = Nobody]
    /\ again' = [again EXCEPT ![k] = {}]
    /\ UNCHANGED <<attempt, faults>>

-----------------------------------------------------------------------------
Step(a) == SetIfAbsent(a) \/ Run(a) \/ Complete(a) \/ Remove(a)

Next ==
    \/ \E a \in Attempts :
           \/ \E k \in Keys : Look(a, k)
           \/ Step(a) \/ StartFails(a) \/ Dies(a)
    \/ \E k \in Keys : KeyExpires(k)

Spec == Init /\ [][Next]_vars

(* A thread goes on, and Redis expires its keys.                           *)
FairSpec ==
    /\ Spec
    /\ \A a \in Attempts : WF_vars(Step(a))
    /\ \A k \in Keys : WF_vars(KeyExpires(k))

-----------------------------------------------------------------------------
(* Properties.                                                             *)

\* Of the attempts with one key at most one is between startProcessing and its
\* complete or remove, whatever fails (SETNX).
OneAtATime ==
    \A a, b \in Attempts :
        /\ attempt[a].phase \in Working /\ attempt[b].phase \in Working
        /\ KeyOf(a) = KeyOf(b)
        => a = b

\* An operation that has returned takes effect again, in the life of its key, once
\* at most for each call to Redis that failed, however often and at whatever moment
\* the client repeats the request, whichever process dies, and whatever operations
\* throw, with or without effect (startProcessing, complete, remove).
RunsOnce ==
    \A k \in Keys :
        Cardinality(again[k]) <= IF "redis" \in FaultKinds THEN faults["redis"] ELSE 0

\* A cached answer is that of the operation that took effect last, and not of one
\* that threw, was repeated since or has been forgotten (complete, cache hit of
\* startProcessing).
ReplayIsCurrent ==
    \A k \in Keys :
        store[k].state = "answer" => store[k].by = settled[k]

\* An attempt that dies does not block its key for ever (TTL).
KeyIsFreed ==
    \A k \in Keys : store[k].state = "PROCESSING" ~> store[k].state # "PROCESSING"
=============================================================================
