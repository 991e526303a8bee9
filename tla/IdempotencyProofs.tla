------------------------- MODULE IdempotencyProofs --------------------------
(***************************************************************************)
(* The mutual exclusion of attempts with one Idempotency-Key, for any      *)
(* number of keys, attempts and faults.                                    *)
(*                                                                         *)
(* OneAtATime is not inductive: it does not say why a second SETNX fails.  *)
(* The invariant adds that an attempt at work is the writer of its key,    *)
(* which Redis then holds, so that two of them would both be its writer.   *)
(* For the cached answer it follows what the operation did: an attempt     *)
(* that is about to store its answer is the settled one of its key, and no *)
(* operation begins on a key that holds an answer.                         *)
(*                                                                         *)
(* RunsOnce is a count: a repetition is paid for by a failed call to Redis.*)
(* EffectsPaid says when the next one may happen: a key that is open, and  *)
(* an attempt before its effect, have paid for the effect that is settled. *)
(***************************************************************************)
EXTENDS Idempotency, FiniteSetTheorems, TLAPS

\* While an attempt works, its key is in Redis and was last written by it; before
\* complete it holds no answer.
WorkerOwnsKey ==
    \A a \in Attempts :
        attempt[a].phase \in Working =>
            /\ KeyOf(a) \in Keys
            /\ store[KeyOf(a)].state # "absent"
            /\ store[KeyOf(a)].by = a
            /\ attempt[a].phase # "failed" => store[KeyOf(a)].state = "PROCESSING"

\* An attempt has a key as soon as it has begun.
BegunHasKey ==
    \A a \in Attempts : attempt[a].phase = "looked" => KeyOf(a) \in Keys

\* An answer, stored or about to be, is that of the last effect.
AnswersRan ==
    /\ ReplayIsCurrent
    /\ \A a \in Attempts : attempt[a].phase = "executed" => settled[KeyOf(a)] = a

IInv == TypeOK /\ BegunHasKey /\ WorkerOwnsKey /\ AnswersRan

-----------------------------------------------------------------------------
LEMMA InitIInv == Init => IInv
BY FaultAssumption, NobodyAssumption DEF Init, IInv, TypeOK, BegunHasKey, WorkerOwnsKey,
   AnswersRan, ReplayIsCurrent, Absent, Fresh, States, Phases, Working, Ended, KeyOf

LEMMA FaultType ==
    ASSUME TypeOK, NEW kind, Fault(kind)
    PROVE  faults' \in [FaultKinds -> 0 .. MaxFaults]
BY FaultAssumption DEF Fault, TypeOK

AttemptType == [phase : Phases, key : Keys \cup {Nobody}, answer : Attempts \cup {Nobody}]

LEMMA ToFact ==
    ASSUME TypeOK, NEW a \in Attempts, NEW phase \in Phases, To(a, phase)
    PROVE  /\ attempt' \in [Attempts -> AttemptType]
           /\ attempt'[a].phase = phase
           /\ \A b \in Attempts : b # a => attempt'[b] = attempt[b]
           /\ \A b \in Attempts : KeyOf(b)' = KeyOf(b)
BY DEF TypeOK, To, KeyOf, AttemptType

\* A step of an attempt that leaves the key alone, or is the last one of the
\* key's writer, disturbs nobody else.
LEMMA KeyKept ==
    ASSUME IInv, NEW a \in Attempts, NEW phase \in Phases \ {"looked", "running", "executed"},
           To(a, phase), UNCHANGED <<store, effects>>,
           phase \in Working => attempt[a].phase \in Working,
           faults' \in [FaultKinds -> 0 .. MaxFaults]
    PROVE  IInv'
<1>1. TypeOK'
    BY ToFact DEF IInv, TypeOK, AttemptType, effects
<1>2. BegunHasKey'
    BY ToFact DEF IInv, BegunHasKey
<1>3. WorkerOwnsKey'
    BY ToFact DEF IInv, WorkerOwnsKey, Working
<1>4. AnswersRan'
    BY ToFact DEF IInv, AnswersRan, ReplayIsCurrent, effects
<1> QED
    BY <1>1, <1>2, <1>3, <1>4 DEF IInv

LEMMA OwnKeyWritten ==
    ASSUME IInv, NEW a \in Attempts, attempt[a].phase \in Working,
           NEW phase \in Ended \cup {"failed"}, NEW state \in {"absent", "answer"},
           NEW by \in {Nobody, a},
           store' = [store EXCEPT ![KeyOf(a)] = [state |-> state, by |-> by]],
           state = "answer" => by = a /\ settled[KeyOf(a)] = a,
           phase = "failed" => state = "answer",
           attempt' \in [Attempts -> AttemptType], attempt'[a].phase = phase,
           \A b \in Attempts : b # a => attempt'[b] = attempt[b],
           \A b \in Attempts : KeyOf(b)' = KeyOf(b),
           UNCHANGED effects, faults' \in [FaultKinds -> 0 .. MaxFaults]
    PROVE  IInv'
<1>1. KeyOf(a) \in Keys /\ store[KeyOf(a)].by = a
    BY DEF IInv, WorkerOwnsKey
<1>2. store' \in [Keys -> [state : States, by : Attempts \cup {Nobody}]]
    BY <1>1 DEF IInv, TypeOK, States
<1>3. \A k \in Keys : k # KeyOf(a) => store'[k] = store[k]
    BY <1>1 DEF IInv, TypeOK
<1>4. store'[KeyOf(a)] = [state |-> state, by |-> by]
    BY <1>1 DEF IInv, TypeOK
<1>5. TypeOK'
    BY <1>2 DEF IInv, TypeOK, AttemptType, effects
<1>6. BegunHasKey'
    BY DEF IInv, BegunHasKey, Ended
<1>7. WorkerOwnsKey'
    <2>1. ASSUME NEW b \in Attempts, b # a, attempt[b].phase \in Working
          PROVE  KeyOf(b) # KeyOf(a) /\ KeyOf(b) \in Keys
        BY <1>1, <2>1 DEF IInv, WorkerOwnsKey
    <2>2. ASSUME NEW b \in Attempts, b # a, attempt'[b].phase \in Working
          PROVE  (/\ KeyOf(b) \in Keys
                  /\ store[KeyOf(b)].state # "absent"
                  /\ store[KeyOf(b)].by = b
                  /\ attempt[b].phase # "failed" => store[KeyOf(b)].state = "PROCESSING")'
        <3>1. attempt[b].phase \in Working /\ KeyOf(b)' = KeyOf(b)
            BY <2>2
        <3> QED
            BY <1>3, <2>1, <2>2, <3>1 DEF IInv, WorkerOwnsKey
    <2>3. ASSUME attempt'[a].phase \in Working
          PROVE  (/\ KeyOf(a) \in Keys
                  /\ store[KeyOf(a)].state # "absent"
                  /\ store[KeyOf(a)].by = a
                  /\ attempt[a].phase # "failed" => store[KeyOf(a)].state = "PROCESSING")'
        BY <1>1, <1>4, <2>3 DEF Working, Ended
    <2> QED
        BY <2>2, <2>3 DEF WorkerOwnsKey
<1>8. AnswersRan'
    BY <1>1, <1>3, <1>4 DEF IInv, AnswersRan, ReplayIsCurrent, Ended, effects
<1> QED
    BY <1>5, <1>6, <1>7, <1>8 DEF IInv

\* SETNX that finds no key, whether its caller learns of it or not.
LEMMA KeyTaken ==
    ASSUME IInv, NEW a \in Attempts, attempt[a].phase = "looked",
           NEW phase \in {"running", "error"}, To(a, phase),
           store[KeyOf(a)].state = "absent",
           store' = [store EXCEPT ![KeyOf(a)] = [state |-> "PROCESSING", by |-> a]],
           UNCHANGED effects, faults' \in [FaultKinds -> 0 .. MaxFaults]
    PROVE  IInv'
<1> DEFINE k == KeyOf(a)
<1>1. k \in Keys
    BY DEF IInv, BegunHasKey
<1>2. store' \in [Keys -> [state : States, by : Attempts \cup {Nobody}]]
    BY DEF IInv, TypeOK, States
<1>3. \A j \in Keys : j # k => store'[j] = store[j]
    BY DEF IInv, TypeOK
<1>4. store'[k] = [state |-> "PROCESSING", by |-> a]
    BY <1>1 DEF IInv, TypeOK
<1>5. /\ attempt' \in [Attempts -> AttemptType]
      /\ attempt'[a].phase = phase
      /\ \A b \in Attempts : b # a => attempt'[b] = attempt[b]
      /\ \A b \in Attempts : KeyOf(b)' = KeyOf(b)
    BY ToFact DEF IInv, Phases, Working, Ended
<1>6. TypeOK'
    BY <1>2, <1>5 DEF IInv, TypeOK, AttemptType, effects
<1>7. BegunHasKey'
    BY <1>5 DEF IInv, BegunHasKey
\* Nobody else was at work on k: its key would have been in Redis.
<1>8. WorkerOwnsKey'
    <2>1. \A b \in Attempts : attempt[b].phase \in Working => KeyOf(b) \in Keys \ {k}
        BY DEF IInv, WorkerOwnsKey
    <2> QED
        BY <1>1, <1>3, <1>4, <1>5, <2>1 DEF IInv, WorkerOwnsKey
<1>9. AnswersRan'
    BY <1>1, <1>3, <1>4, <1>5 DEF IInv, AnswersRan, ReplayIsCurrent, effects
<1> QED
    BY <1>6, <1>7, <1>8, <1>9 DEF IInv

-----------------------------------------------------------------------------
LEMMA LookIInv ==
    ASSUME IInv, NEW a \in Attempts, NEW k \in Keys, Look(a, k)
    PROVE  IInv'
<1>1. /\ attempt' \in [Attempts -> AttemptType]
      /\ attempt'[a].key = k /\ attempt'[a].phase \notin Working
      /\ \A b \in Attempts : b # a => attempt'[b] = attempt[b]
    BY DEF IInv, TypeOK, Look, AttemptType, States, Phases, Working, Ended
<1>2. TypeOK'
    BY <1>1 DEF IInv, TypeOK, Look, AttemptType, effects
<1>3. BegunHasKey'
    BY <1>1 DEF IInv, BegunHasKey, KeyOf
<1>4. WorkerOwnsKey'
    BY <1>1 DEF IInv, WorkerOwnsKey, KeyOf, Look
<1>5. AnswersRan'
    BY <1>1 DEF IInv, AnswersRan, ReplayIsCurrent, KeyOf, Look, Working, effects
<1> QED
    BY <1>2, <1>3, <1>4, <1>5 DEF IInv

LEMMA SetIInv ==
    ASSUME IInv, NEW a \in Attempts, SetIfAbsent(a)
    PROVE  IInv'
<1>1. CASE store[KeyOf(a)].state = "absent"
    BY <1>1, KeyTaken DEF SetIfAbsent, IInv, TypeOK
<1>2. CASE store[KeyOf(a)].state # "absent"
    BY <1>2, KeyKept DEF SetIfAbsent, IInv, TypeOK, Phases, Working, Ended
<1> QED
    BY <1>1, <1>2

LEMMA StartFailsIInv ==
    ASSUME IInv, NEW a \in Attempts, StartFails(a)
    PROVE  IInv'
<1>1. faults' \in [FaultKinds -> 0 .. MaxFaults] /\ To(a, "error") /\ UNCHANGED effects
    BY FaultType DEF IInv, StartFails
<1>2. CASE UNCHANGED store
    BY <1>1, <1>2, KeyKept DEF Phases, Working, Ended
<1>3. CASE store[KeyOf(a)].state = "absent"
           /\ store' = [store EXCEPT ![KeyOf(a)] = [state |-> "PROCESSING", by |-> a]]
    BY <1>1, <1>3, KeyTaken DEF StartFails
<1> QED
    BY <1>2, <1>3 DEF StartFails

\* The effect of an operation concerns its key only.
LEMMA EffectFact ==
    ASSUME TypeOK, NEW a \in Attempts, KeyOf(a) \in Keys,
           NEW returned \in Attempts \cup {Nobody}, Effect(a, returned)
    PROVE  /\ settled' \in [Keys -> Attempts \cup {Nobody}]
           /\ again' \in [Keys -> SUBSET Attempts]
           /\ settled'[KeyOf(a)] = returned
           /\ again'[KeyOf(a)] = IF settled[KeyOf(a)] = Nobody THEN again[KeyOf(a)]
                                 ELSE again[KeyOf(a)] \cup {a}
           /\ \A k \in Keys : k # KeyOf(a) => settled'[k] = settled[k] /\ again'[k] = again[k]
BY DEF TypeOK, Effect

LEMMA RunIInv ==
    ASSUME IInv, NEW a \in Attempts, Run(a)
    PROVE  IInv'
<1>1. /\ attempt[a].phase = "running" /\ KeyOf(a) \in Keys /\ UNCHANGED <<store, faults>>
      /\ store[KeyOf(a)].state = "PROCESSING" /\ store[KeyOf(a)].by = a
    BY DEF IInv, WorkerOwnsKey, Run, Working
<1>2. CASE To(a, "failed") /\ UNCHANGED effects
    BY <1>1, <1>2, KeyKept DEF IInv, TypeOK, Phases, Working
<1>3. ASSUME NEW phase \in {"executed", "failed"}, NEW returned \in {a, Nobody},
             phase = "executed" => returned = a, Effect(a, returned), To(a, phase)
      PROVE  IInv'
    <2>1. /\ attempt' \in [Attempts -> AttemptType]
          /\ attempt'[a].phase = phase
          /\ \A b \in Attempts : b # a => attempt'[b] = attempt[b]
          /\ \A b \in Attempts : KeyOf(b)' = KeyOf(b)
        BY <1>3, ToFact DEF IInv, Phases, Working
    <2>2. /\ settled' \in [Keys -> Attempts \cup {Nobody}]
          /\ again' \in [Keys -> SUBSET Attempts]
          /\ settled'[KeyOf(a)] = returned
          /\ \A k \in Keys : k # KeyOf(a) => settled'[k] = settled[k]
        BY <1>1, <1>3, EffectFact DEF IInv
    <2>3. TypeOK'
        BY <1>1, <2>1, <2>2 DEF IInv, TypeOK, AttemptType
    <2>4. BegunHasKey'
        BY <1>3, <2>1 DEF IInv, BegunHasKey
    <2>5. WorkerOwnsKey'
        BY <1>1, <2>1 DEF IInv, WorkerOwnsKey, Working
    <2>6. ReplayIsCurrent'
        BY <1>1, <2>2 DEF IInv, AnswersRan, ReplayIsCurrent
    <2>7. ASSUME NEW b \in Attempts, attempt'[b].phase = "executed"
          PROVE  settled'[KeyOf(b)'] = b
        <3>1. CASE b = a
            BY <1>3, <2>1, <2>2, <2>7, <3>1
        <3>2. CASE b # a
            <4>1. attempt[b].phase = "executed" /\ KeyOf(b)' = KeyOf(b)
                BY <2>1, <2>7, <3>2
            <4>2. KeyOf(b) \in Keys /\ KeyOf(b) # KeyOf(a) /\ settled[KeyOf(b)] = b
                BY <1>1, <3>2, <4>1 DEF IInv, WorkerOwnsKey, AnswersRan, Working
            <4> QED
                BY <2>2, <4>1, <4>2
        <3> QED
            BY <3>1, <3>2
    <2> QED
        BY <2>3, <2>4, <2>5, <2>6, <2>7 DEF IInv, AnswersRan
<1> QED
    BY <1>2, <1>3 DEF Run

LEMMA CompleteIInv ==
    ASSUME IInv, NEW a \in Attempts, Complete(a)
    PROVE  IInv'
<1>1. /\ attempt[a].phase = "executed" /\ settled[KeyOf(a)] = a
      /\ UNCHANGED effects /\ faults' \in [FaultKinds -> 0 .. MaxFaults]
    BY FaultType DEF IInv, TypeOK, AnswersRan, Complete
<1>2. CASE UNCHANGED store /\ To(a, "failed")
    BY <1>1, <1>2, KeyKept DEF Phases, Working
<1>3. CASE /\ store' = [store EXCEPT ![KeyOf(a)] = [state |-> "answer", by |-> a]]
           /\ To(a, "failed") \/ Answer(a, a)
    <2>1. /\ attempt' \in [Attempts -> AttemptType]
          /\ attempt'[a].phase \in {"failed", "answered"}
          /\ \A b \in Attempts : b # a => attempt'[b] = attempt[b]
          /\ \A b \in Attempts : KeyOf(b)' = KeyOf(b)
        <3>1. CASE To(a, "failed")
            BY <3>1, ToFact DEF IInv, Phases, Working
        <3>2. CASE Answer(a, a)
            BY <3>2 DEF IInv, TypeOK, Answer, KeyOf, AttemptType, Phases, Ended
        <3> QED
            BY <1>3, <3>1, <3>2
    <2> QED
        BY <1>1, <1>3, <2>1, OwnKeyWritten DEF Working, Ended
<1> QED
    BY <1>2, <1>3 DEF Complete

LEMMA RemoveIInv ==
    ASSUME IInv, NEW a \in Attempts, Remove(a)
    PROVE  IInv'
<1>1. /\ attempt[a].phase = "failed" /\ To(a, "error")
      /\ UNCHANGED effects /\ faults' \in [FaultKinds -> 0 .. MaxFaults]
    BY FaultType DEF IInv, TypeOK, Remove
<1>2. CASE UNCHANGED store
    BY <1>1, <1>2, KeyKept DEF Phases, Working, Ended
<1>3. CASE store' = [store EXCEPT ![KeyOf(a)] = Absent]
    <2>1. /\ attempt' \in [Attempts -> AttemptType]
          /\ attempt'[a].phase = "error"
          /\ \A b \in Attempts : b # a => attempt'[b] = attempt[b]
          /\ \A b \in Attempts : KeyOf(b)' = KeyOf(b)
        BY <1>1, ToFact DEF IInv, Phases, Ended
    <2> QED
        BY <1>1, <1>3, <2>1, OwnKeyWritten DEF Working, Ended, Absent
<1> QED
    BY <1>2, <1>3 DEF Remove

LEMMA DiesIInv ==
    ASSUME IInv, NEW a \in Attempts, Dies(a)
    PROVE  IInv'
BY FaultType, KeyKept DEF IInv, Dies, Phases, Working, Ended

\* An expired key had no attempt left that could have been its worker.
LEMMA ExpiresIInv ==
    ASSUME IInv, NEW k \in Keys, KeyExpires(k)
    PROVE  IInv'
<1>1. \A a \in Attempts : attempt[a].phase \in Working => KeyOf(a) # k
    BY DEF KeyExpires, Working, Ended
<1>2. /\ store'[k].state = "absent" /\ UNCHANGED <<attempt, faults>>
      /\ \A j \in Keys : j # k => store'[j] = store[j] /\ settled'[j] = settled[j]
    BY DEF IInv, TypeOK, KeyExpires, Absent
<1>3. TypeOK'
    BY DEF IInv, TypeOK, KeyExpires, Absent, States
<1>4. BegunHasKey'
    BY <1>2 DEF IInv, BegunHasKey, KeyOf
<1>5. WorkerOwnsKey'
    BY <1>1, <1>2 DEF IInv, WorkerOwnsKey, KeyOf
<1>6. ReplayIsCurrent'
    BY <1>2 DEF IInv, AnswersRan, ReplayIsCurrent
<1>7. ASSUME NEW a \in Attempts, attempt[a].phase = "executed"
      PROVE  settled'[KeyOf(a)] = a
    BY <1>1, <1>2, <1>7 DEF IInv, AnswersRan, WorkerOwnsKey, Working
<1> QED
    BY <1>2, <1>3, <1>4, <1>5, <1>6, <1>7 DEF IInv, AnswersRan, KeyOf

LEMMA NextIInv == IInv /\ [Next]_vars => IInv'
<1> SUFFICES ASSUME IInv, [Next]_vars
             PROVE  IInv'
    OBVIOUS
<1>1. ASSUME NEW a \in Attempts, NEW k \in Keys, Look(a, k)
      PROVE  IInv'
    BY <1>1, LookIInv
<1>2. ASSUME NEW a \in Attempts, Step(a)
      PROVE  IInv'
    BY <1>2, SetIInv, RunIInv, CompleteIInv, RemoveIInv DEF Step
<1>3. ASSUME NEW a \in Attempts, StartFails(a) \/ Dies(a)
      PROVE  IInv'
    BY <1>3, StartFailsIInv, DiesIInv
<1>4. ASSUME NEW k \in Keys, KeyExpires(k)
      PROVE  IInv'
    BY <1>4, ExpiresIInv
<1>5. CASE UNCHANGED vars
    BY <1>5 DEF IInv, TypeOK, BegunHasKey, WorkerOwnsKey, AnswersRan, ReplayIsCurrent, KeyOf, vars, effects
<1> QED
    BY <1>1, <1>2, <1>3, <1>4, <1>5 DEF Next

LEMMA Invariance == Spec => []IInv
<1>1. Init => IInv
    BY InitIInv
<1>2. IInv /\ [Next]_vars => IInv'
    BY NextIInv
<1> QED
    BY <1>1, <1>2, PTL DEF Spec

\* Two attempts at work on one key would both be the writer of that key.
LEMMA Exclusion == IInv => OneAtATime
BY DEF IInv, WorkerOwnsKey, OneAtATime

\* Every state of the model has the shape TypeOK describes.
THEOREM TypeCorrect == Spec => []TypeOK
<1>1. IInv => TypeOK
    BY DEF IInv
<1> QED
    BY <1>1, Invariance, PTL

\* At most one attempt with an Idempotency-Key is between startProcessing and
\* complete or remove, for any number of attempts, crashes and Redis failures.
THEOREM OneAttemptAtATime == Spec => []OneAtATime
BY Exclusion, Invariance, PTL

\* A cache hit answers with the result of the operation that took effect last in
\* the life of the key, however attempts, crashes and Redis failures interleave,
\* and whatever operations throw after their effect.
THEOREM ReplayOfWhatRan == Spec => []ReplayIsCurrent
<1>1. IInv => ReplayIsCurrent
    BY DEF IInv, AnswersRan
<1> QED
    BY <1>1, Invariance, PTL
-----------------------------------------------------------------------------
(* Effects and what they cost.                                             *)

RedisFaults == IF "redis" \in FaultKinds THEN faults["redis"] ELSE 0

\* What has to be paid before an operation may begin: the repetitions so far, and
\* the effect that would be repeated.
Effects(k) == Cardinality(again[k]) + (IF settled[k] = Nobody THEN 0 ELSE 1)

EffectsPaid ==
    /\ \A k \in Keys :
           /\ IsFiniteSet(again[k])
           /\ Cardinality(again[k]) <= RedisFaults
           /\ store[k].state = "absent" => Effects(k) <= RedisFaults
    /\ \A a \in Attempts :
           attempt[a].phase \in {"running", "failed"} => Effects(KeyOf(a)) <= RedisFaults

LEMMA CountType ==
    ASSUME TypeOK
    PROVE  RedisFaults \in Nat
BY FaultAssumption DEF TypeOK, RedisFaults

LEMMA EffectsType ==
    ASSUME EffectsPaid, NEW k \in Keys
    PROVE  /\ Cardinality(again[k]) \in Nat /\ Effects(k) \in Nat
           /\ Effects(k) <= Cardinality(again[k]) + 1
BY FS_CardinalityType DEF EffectsPaid, Effects

\* A failed call to Redis is counted, and no fault is forgotten.
LEMMA FaultCounted ==
    ASSUME TypeOK, NEW kind, Fault(kind)
    PROVE  /\ RedisFaults <= RedisFaults'
           /\ kind = "redis" => RedisFaults' = RedisFaults + 1
BY FaultAssumption DEF Fault, TypeOK, RedisFaults

LEMMA NoFaultCounted ==
    ASSUME TypeOK, UNCHANGED faults
    PROVE  RedisFaults <= RedisFaults'
BY CountType DEF RedisFaults

\* Without a new effect it suffices to look at the keys that were opened and
\* at the attempts that came before their effect.
LEMMA PaidKept ==
    ASSUME TypeOK, TypeOK', EffectsPaid, RedisFaults <= RedisFaults', UNCHANGED effects,
           \A k \in Keys : store'[k].state = "absent" =>
               store[k].state = "absent" \/ Effects(k) <= RedisFaults',
           \A a \in Attempts : attempt'[a].phase \in {"running", "failed"} =>
               /\ KeyOf(a)' \in Keys
               /\ \/ Effects(KeyOf(a)') <= RedisFaults'
                  \/ Effects(KeyOf(a)') <= RedisFaults
    PROVE  EffectsPaid'
<1>1. RedisFaults \in Nat /\ RedisFaults' \in Nat
    BY CountType DEF TypeOK, RedisFaults
<1>2. \A k \in Keys : /\ Effects(k) \in Nat /\ Effects(k)' = Effects(k)
                      /\ Cardinality(again[k]) \in Nat /\ again'[k] = again[k]
    BY EffectsType DEF Effects, effects
<1>3. ASSUME NEW k \in Keys
      PROVE  /\ IsFiniteSet(again'[k])
             /\ Cardinality(again'[k]) <= RedisFaults'
             /\ store'[k].state = "absent" => Effects(k)' <= RedisFaults'
    <2>1. /\ Cardinality(again[k]) <= RedisFaults /\ IsFiniteSet(again'[k])
          /\ store[k].state = "absent" => Effects(k) <= RedisFaults
        BY <1>2 DEF EffectsPaid
    <2>2. Cardinality(again'[k]) <= RedisFaults'
        BY <1>1, <1>2, <2>1
    <2>3. store'[k].state = "absent" => Effects(k) <= RedisFaults'
        BY <1>1, <1>2, <2>1
    <2> QED
        BY <1>2, <2>1, <2>2, <2>3
<1>4. ASSUME NEW a \in Attempts, attempt'[a].phase \in {"running", "failed"}
      PROVE  Effects(KeyOf(a))' <= RedisFaults'
    <2>1. Effects(KeyOf(a)') <= RedisFaults' /\ KeyOf(a)' \in Keys
        BY <1>1, <1>2, <1>4
    <2>2. Effects(KeyOf(a))' = Effects(KeyOf(a)')
        BY DEF Effects, effects
    <2> QED
        BY <2>1, <2>2
<1> QED
    BY <1>3, <1>4 DEF EffectsPaid

LEMMA InitPaid == Init => EffectsPaid
BY FS_EmptySet, FaultAssumption DEF Init, EffectsPaid, Effects, RedisFaults, Fresh

\* The effect: nobody else is at work on the key, and the key is taken.
LEMMA RunPaid ==
    ASSUME IInv, IInv', EffectsPaid, NEW a \in Attempts, Run(a)
    PROVE  EffectsPaid'
<1> DEFINE k == KeyOf(a)
<1>1. /\ attempt[a].phase = "running" /\ k \in Keys /\ UNCHANGED <<store, faults>>
      /\ store[k].state # "absent" /\ Effects(k) <= RedisFaults
      /\ TypeOK /\ TypeOK'
    BY DEF IInv, WorkerOwnsKey, Run, Working, EffectsPaid
<1>2. \A b \in Attempts : attempt[b].phase \in Working => KeyOf(b) \in Keys
    BY DEF IInv, WorkerOwnsKey
<1>3. CASE To(a, "failed") /\ UNCHANGED effects
    <2>1. /\ attempt'[a].phase = "failed"
          /\ \A b \in Attempts : b # a => attempt'[b] = attempt[b]
          /\ \A b \in Attempts : KeyOf(b)' = KeyOf(b)
        BY <1>1, <1>3, ToFact DEF Phases, Working
    <2>2. ASSUME NEW b \in Attempts, attempt'[b].phase \in {"running", "failed"}
          PROVE  KeyOf(b)' \in Keys /\ Effects(KeyOf(b)') <= RedisFaults
        BY <1>1, <1>2, <2>1, <2>2 DEF EffectsPaid, Working
    <2> QED
        BY <1>1, <1>3, <2>2, NoFaultCounted, PaidKept
<1>4. ASSUME NEW phase \in {"executed", "failed"}, NEW returned \in {a, Nobody},
             phase = "failed" => returned = Nobody, Effect(a, returned), To(a, phase)
      PROVE  EffectsPaid'
    <2>1. /\ attempt'[a].phase = phase
          /\ \A b \in Attempts : b # a => attempt'[b] = attempt[b]
          /\ \A b \in Attempts : KeyOf(b)' = KeyOf(b)
        BY <1>1, <1>4, ToFact DEF Phases, Working
    <2>2. /\ settled'[k] = returned
          /\ again'[k] = IF settled[k] = Nobody THEN again[k] ELSE again[k] \cup {a}
          /\ \A j \in Keys : j # k => settled'[j] = settled[j] /\ again'[j] = again[j]
        BY <1>1, <1>4, EffectFact
    <2>3. RedisFaults' = RedisFaults /\ RedisFaults \in Nat
        BY <1>1, CountType DEF RedisFaults
    <2>4. IsFiniteSet(again'[k]) /\ Cardinality(again'[k]) <= Effects(k)
        <3>1. IsFiniteSet(again[k]) /\ Cardinality(again[k]) \in Nat
            BY <1>1, EffectsType DEF EffectsPaid
        <3>2. CASE settled[k] = Nobody
            BY <2>2, <3>1, <3>2 DEF Effects
        <3>3. CASE settled[k] # Nobody
            BY <2>2, <3>1, <3>3, FS_AddElement DEF Effects
        <3> QED
            BY <3>2, <3>3
    <2>5. Cardinality(again'[k]) <= RedisFaults'
        <3>1. Effects(k) \in Nat /\ Cardinality(again'[k]) \in Nat
            BY <1>1, <2>4, EffectsType, FS_CardinalityType
        <3> HIDE DEF k
        <3> QED
            BY <1>1, <2>3, <2>4, <3>1
    <2>6. ASSUME NEW j \in Keys
          PROVE  /\ IsFiniteSet(again'[j])
                 /\ Cardinality(again'[j]) <= RedisFaults'
                 /\ store'[j].state = "absent" => Effects(j)' <= RedisFaults'
        <3>1. CASE j = k
            BY <1>1, <2>4, <2>5, <3>1
        <3>2. CASE j # k
            BY <1>1, <2>2, <2>3, <3>2 DEF EffectsPaid, Effects
        <3> QED
            BY <3>1, <3>2
    <2>7. ASSUME NEW b \in Attempts, attempt'[b].phase \in {"running", "failed"}
          PROVE  Effects(KeyOf(b))' <= RedisFaults'
        <3>1. CASE b = a
            <4>1. KeyOf(b)' = k /\ settled'[k] = Nobody
                BY <1>4, <2>1, <2>2, <2>7, <3>1
            <4>2. Cardinality(again'[k]) \in Nat
                BY <2>4, FS_CardinalityType
            <4>3. Effects(KeyOf(b))' = Cardinality(again'[k])
                BY <4>1, <4>2 DEF Effects
            <4> QED
                BY <2>5, <4>3
        <3>2. CASE b # a
            <4>1. attempt[b].phase \in {"running", "failed"} /\ KeyOf(b)' = KeyOf(b)
                BY <2>1, <2>7, <3>2
            <4>2. KeyOf(b) # k /\ KeyOf(b) \in Keys
                BY <1>1, <1>2, <3>2, <4>1, Exclusion DEF OneAtATime, Working
            <4> QED
                BY <2>2, <2>3, <4>1, <4>2 DEF EffectsPaid, Effects
        <3> QED
            BY <3>1, <3>2
    <2> QED
        BY <2>6, <2>7 DEF EffectsPaid
<1> QED
    BY <1>3, <1>4 DEF Run

\* Steps that open no key and bring nobody before the effect.
LEMMA QuietPaid ==
    ASSUME IInv, IInv', EffectsPaid, NEW a \in Attempts, UNCHANGED effects,
           RedisFaults <= RedisFaults',
           \A b \in Attempts : b # a => attempt'[b] = attempt[b],
           \/ attempt'[a].phase \notin {"running", "failed"}
           \/ Effects(KeyOf(a)') <= RedisFaults \/ Effects(KeyOf(a)') <= RedisFaults',
           \A k \in Keys : store'[k].state = "absent" =>
               store[k].state = "absent" \/ Effects(k) <= RedisFaults'
    PROVE  EffectsPaid'
<1>1. TypeOK /\ TypeOK'
    BY DEF IInv
<1>2. ASSUME NEW b \in Attempts, attempt'[b].phase \in {"running", "failed"}
      PROVE  /\ KeyOf(b)' \in Keys
             /\ \/ Effects(KeyOf(b)') <= RedisFaults'
                \/ Effects(KeyOf(b)') <= RedisFaults
    <2>1. KeyOf(b)' \in Keys
        BY <1>2 DEF IInv, WorkerOwnsKey, Working
    <2>2. CASE b # a
        BY <1>2, <2>1, <2>2 DEF EffectsPaid, KeyOf
    <2> QED
        BY <1>2, <2>1, <2>2
<1> QED
    BY <1>1, <1>2, PaidKept

LEMMA SetPaid ==
    ASSUME IInv, IInv', EffectsPaid, NEW a \in Attempts, SetIfAbsent(a)
    PROVE  EffectsPaid'
<1>1. KeyOf(a) \in Keys /\ TypeOK /\ UNCHANGED <<effects, faults>>
    BY DEF IInv, BegunHasKey, SetIfAbsent
<1>2. RedisFaults <= RedisFaults'
    BY <1>1, NoFaultCounted
<1>3. /\ \A b \in Attempts : b # a => attempt'[b] = attempt[b]
      /\ KeyOf(a)' = KeyOf(a)
    BY <1>1, ToFact DEF SetIfAbsent, Phases, Working, Ended
<1>4. \A k \in Keys : store'[k].state = "absent" => store[k].state = "absent"
    BY <1>1 DEF SetIfAbsent, TypeOK
<1>5. attempt'[a].phase \notin {"running", "failed"} \/ Effects(KeyOf(a)') <= RedisFaults
    BY <1>1, <1>3, ToFact DEF SetIfAbsent, EffectsPaid, Phases, Working, Ended
<1> QED
    BY <1>1, <1>2, <1>3, <1>4, <1>5, QuietPaid

LEMMA StartFailsPaid ==
    ASSUME IInv, IInv', EffectsPaid, NEW a \in Attempts, StartFails(a)
    PROVE  EffectsPaid'
<1>1. TypeOK /\ UNCHANGED effects /\ RedisFaults <= RedisFaults'
    BY FaultCounted DEF IInv, StartFails
<1>2. /\ \A b \in Attempts : b # a => attempt'[b] = attempt[b]
      /\ attempt'[a].phase = "error"
    BY <1>1, ToFact DEF StartFails, Phases, Ended
<1>3. \A k \in Keys : store'[k].state = "absent" => store[k].state = "absent"
    BY <1>1 DEF StartFails, TypeOK
<1> QED
    BY <1>1, <1>2, <1>3, QuietPaid

\* What an answer that could not be stored allows is paid by the failed call.
LEMMA CompletePaid ==
    ASSUME IInv, IInv', EffectsPaid, NEW a \in Attempts, Complete(a)
    PROVE  EffectsPaid'
<1>1. /\ TypeOK /\ UNCHANGED effects /\ KeyOf(a) \in Keys /\ RedisFaults \in Nat
      /\ Effects(KeyOf(a)) <= 1 + RedisFaults /\ Effects(KeyOf(a)) \in Nat
    BY CountType, EffectsType DEF IInv, WorkerOwnsKey, Working, Complete, EffectsPaid
<1>2. \A k \in Keys : store'[k].state = "absent" => store[k].state = "absent"
    BY <1>1 DEF Complete, TypeOK
<1>3. CASE Answer(a, a) /\ UNCHANGED faults
    <2>1. /\ \A b \in Attempts : b # a => attempt'[b] = attempt[b]
          /\ attempt'[a].phase = "answered"
        BY <1>1, <1>3 DEF Answer, TypeOK
    <2> QED
        BY <1>1, <1>2, <1>3, <2>1, NoFaultCounted, QuietPaid
<1>4. CASE To(a, "failed") /\ Fault("redis")
    <2>1. /\ \A b \in Attempts : b # a => attempt'[b] = attempt[b]
          /\ KeyOf(a)' = KeyOf(a)
        BY <1>1, <1>4, ToFact DEF Phases, Working
    <2>2. RedisFaults' = RedisFaults + 1
        BY <1>1, <1>4, FaultCounted
    <2>3. Effects(KeyOf(a)') <= RedisFaults' /\ RedisFaults <= RedisFaults'
        BY <1>1, <2>1, <2>2
    <2> QED
        BY <1>1, <1>2, <2>1, <2>3, QuietPaid
<1> QED
    BY <1>3, <1>4 DEF Complete

LEMMA RemovePaid ==
    ASSUME IInv, IInv', EffectsPaid, NEW a \in Attempts, Remove(a)
    PROVE  EffectsPaid'
<1>1. /\ TypeOK /\ TypeOK' /\ UNCHANGED effects /\ KeyOf(a) \in Keys
      /\ Effects(KeyOf(a)) <= RedisFaults /\ Effects(KeyOf(a)) \in Nat
      /\ RedisFaults \in Nat /\ RedisFaults' \in Nat
    BY CountType, EffectsType DEF IInv, WorkerOwnsKey, Working, Remove, EffectsPaid, TypeOK, RedisFaults
<1>2. RedisFaults <= RedisFaults'
    BY <1>1, FaultCounted, NoFaultCounted DEF Remove
<1>3. /\ \A b \in Attempts : b # a => attempt'[b] = attempt[b]
      /\ attempt'[a].phase = "error"
    BY <1>1, ToFact DEF Remove, Phases, Ended
<1>4. \A k \in Keys : k # KeyOf(a) => store'[k] = store[k]
    BY <1>1 DEF Remove, TypeOK
<1>5. Effects(KeyOf(a)) <= RedisFaults'
    BY <1>1, <1>2
<1> QED
    BY <1>1, <1>2, <1>3, <1>4, <1>5, QuietPaid

LEMMA LookPaid ==
    ASSUME IInv, IInv', EffectsPaid, NEW a \in Attempts, NEW k \in Keys, Look(a, k)
    PROVE  EffectsPaid'
<1>1. /\ TypeOK /\ UNCHANGED <<store, effects, faults>>
      /\ attempt'[a].phase \notin {"running", "failed"}
      /\ \A b \in Attempts : b # a => attempt'[b] = attempt[b]
    BY DEF IInv, TypeOK, Look, States
<1> QED
    BY <1>1, NoFaultCounted, QuietPaid

LEMMA DiesPaid ==
    ASSUME IInv, IInv', EffectsPaid, NEW a \in Attempts, Dies(a)
    PROVE  EffectsPaid'
<1>1. TypeOK /\ UNCHANGED <<store, effects>> /\ RedisFaults <= RedisFaults'
    BY FaultCounted DEF IInv, Dies
<1>2. /\ \A b \in Attempts : b # a => attempt'[b] = attempt[b]
      /\ attempt'[a].phase = "dead"
    BY <1>1, ToFact DEF Dies, Phases, Ended
<1> QED
    BY <1>1, <1>2, QuietPaid

\* An expired key starts again without effects, and nobody is at work on it.
LEMMA ExpiresPaid ==
    ASSUME IInv, EffectsPaid, NEW k \in Keys, KeyExpires(k)
    PROVE  EffectsPaid'
<1>1. /\ UNCHANGED <<attempt, faults>> /\ settled'[k] = Nobody /\ again'[k] = {}
      /\ \A j \in Keys : j # k => /\ store'[j] = store[j]
                                /\ settled'[j] = settled[j] /\ again'[j] = again[j]
      /\ TypeOK /\ RedisFaults \in Nat /\ RedisFaults' = RedisFaults
    BY CountType DEF IInv, TypeOK, KeyExpires, RedisFaults
<1>2. IsFiniteSet(again'[k]) /\ Cardinality(again'[k]) = 0 /\ Effects(k)' = 0
    BY <1>1, FS_EmptySet DEF Effects
<1>3. ASSUME NEW a \in Attempts, attempt'[a].phase \in {"running", "failed"}
      PROVE  Effects(KeyOf(a))' <= RedisFaults'
    <2>1. attempt[a].phase \in {"running", "failed"} /\ KeyOf(a)' = KeyOf(a)
        BY <1>1, <1>3 DEF KeyOf
    <2>2. KeyOf(a) \in Keys /\ KeyOf(a) # k
        BY <2>1 DEF IInv, WorkerOwnsKey, Working, KeyExpires, Ended
    <2> QED
        BY <1>1, <2>1, <2>2 DEF EffectsPaid, Effects
<1>4. ASSUME NEW j \in Keys
      PROVE  /\ IsFiniteSet(again'[j])
             /\ Cardinality(again'[j]) <= RedisFaults'
             /\ store'[j].state = "absent" => Effects(j)' <= RedisFaults'
    <2>1. CASE j = k
        BY <1>1, <1>2, <2>1
    <2>2. CASE j # k
        BY <1>1, <2>2 DEF EffectsPaid, Effects
    <2> QED
        BY <2>1, <2>2
<1> QED
    BY <1>3, <1>4 DEF EffectsPaid

LEMMA NextPaid == IInv /\ IInv' /\ EffectsPaid /\ [Next]_vars => EffectsPaid'
<1> SUFFICES ASSUME IInv, IInv', EffectsPaid, [Next]_vars
             PROVE  EffectsPaid'
    OBVIOUS
<1>1. ASSUME NEW a \in Attempts, NEW k \in Keys, Look(a, k)
      PROVE  EffectsPaid'
    BY <1>1, LookPaid
<1>2. ASSUME NEW a \in Attempts, Step(a)
      PROVE  EffectsPaid'
    BY <1>2, SetPaid, RunPaid, CompletePaid, RemovePaid DEF Step
<1>3. ASSUME NEW a \in Attempts, StartFails(a) \/ Dies(a)
      PROVE  EffectsPaid'
    BY <1>3, StartFailsPaid, DiesPaid
<1>4. ASSUME NEW k \in Keys, KeyExpires(k)
      PROVE  EffectsPaid'
    BY <1>4, ExpiresPaid
<1>5. CASE UNCHANGED vars
    BY <1>5 DEF EffectsPaid, Effects, RedisFaults, KeyOf, vars, effects
<1> QED
    BY <1>1, <1>2, <1>3, <1>4, <1>5 DEF Next

\* An operation that has returned takes effect again, in the life of its key, once
\* at most for each failed call to Redis, for any number of attempts, crashes and
\* operations that throw, before or after their effect (startProcessing, complete
\* and remove of IdempotencyManager).
THEOREM EffectsArePaid == Spec => []RunsOnce
<1>1. Init => EffectsPaid
    BY InitPaid
<1>2. IInv /\ IInv' /\ EffectsPaid /\ [Next]_vars => EffectsPaid'
    BY NextPaid
<1>3. EffectsPaid => RunsOnce
    BY DEF EffectsPaid, Effects, RedisFaults, RunsOnce
<1> QED
    BY <1>1, <1>2, <1>3, Invariance, PTL DEF Spec
=============================================================================
