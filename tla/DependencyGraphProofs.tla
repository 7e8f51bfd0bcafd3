----------------------- MODULE DependencyGraphProofs -----------------------
(***************************************************************************)
(* Proofs about DependencyGraph, for every set of names, every order of    *)
(* priorities, every pool size and every set of submitted plans.           *)
(***************************************************************************)
EXTENDS DependencyGraph, FiniteSetTheorems, TLAPS

InLoop == stage \in {"scan", "wave"}

\* Before the loop is reached nothing has happened in the call.
Untouched ==
  stage \in {"idle", "validate"} =>
    /\ successful = {} /\ blocked = {} /\ pending = {}
    /\ DOMAIN outputs = {} /\ DOMAIN completed = {}

\* The pool holds tasks during a wave only.
PoolIdle ==
  stage # "wave" => queued = {} /\ running = {} /\ DOMAIN settled = {}

\* What the loop's locals say about each other.  No task of the call has
\* failed and none is blocked as long as the loop runs.
LoopState ==
  InLoop =>
    /\ Length(plan) # 0 /\ Valid(plan) /\ SeedsAccepted
    /\ DOMAIN completed \subseteq plan.tasks \ DOMAIN seeds
    /\ Failed(completed) = {} /\ blocked = {}
    /\ successful = DOMAIN seeds \cup DOMAIN completed
    /\ DOMAIN outputs = successful
    /\ pending = plan.tasks \ successful

\* The tasks of a wave are pending, and each is in one place.
WaveState ==
  stage = "wave" =>
    /\ Ready \subseteq pending
    /\ \A t \in Ready : plan.deps[t] \subseteq successful
    /\ queued \cap running = {}
    /\ (queued \cup running) \cap DOMAIN settled = {}

\* A task has been dispatched exactly if the pool has taken it.
DispatchCount ==
  \A t \in Name :
    dispatched[t] = IF t \in DOMAIN completed \cup running \cup DOMAIN settled
                    THEN 1 ELSE 0

\* The dependencies of the dispatched tasks count as successful.
StartOrder ==
  \A t \in Name : dispatched[t] > 0 => plan.deps[t] \subseteq successful

SeedsUntouched == DOMAIN completed \cap DOMAIN seeds = {}

\* The dependencies of the dispatched tasks have recorded outputs.
DispatchedInputs ==
  \A t \in Name : dispatched[t] > 0 => plan.deps[t] \subseteq DOMAIN outputs

\* A task that counts as successful was seeded or has succeeded.
Genuine ==
  \A t \in successful :
    t \in DOMAIN seeds \/ (t \in DOMAIN completed /\ completed[t].success)

IInv ==
  /\ TypeOK
  /\ Untouched
  /\ PoolIdle
  /\ LoopState
  /\ WaveState
  /\ DispatchCount
  /\ SeedsUntouched
  /\ DispatchedInputs
  /\ StartOrder
  /\ PayloadFaithful
  /\ AlwaysProgress
  /\ ResultTruthful

-----------------------------------------------------------------------------
LEMMA PartialMember ==
  ASSUME NEW f, NEW D, NEW R, IsPartial(f, D, R)
  PROVE  f \in PartialFunction(D, R)
BY DEF IsPartial, PartialFunction

LEMMA MemberPartial ==
  ASSUME NEW D, NEW R, NEW f \in PartialFunction(D, R)
  PROVE  IsPartial(f, D, R)
BY DEF IsPartial, PartialFunction

LEMMA NothingPartial ==
  ASSUME NEW D, NEW R
  PROVE  /\ IsPartial(Nothing, D, R)
         /\ Nothing \in PartialFunction(D, R)
         /\ DOMAIN Nothing = {}
BY DEF IsPartial, PartialFunction, Nothing

LEMMA CountType ==
  /\ \A S \in SUBSET Name : Cardinality(S) \in Nat
  /\ \A p \in Plan : Length(p) \in Nat
<1>1. \A S \in SUBSET Name : Cardinality(S) \in Nat
  BY NameAssumption, FS_Subset, FS_CardinalityType
<1> QED
  BY <1>1 DEF Plan, Length

LEMMA NoResultType == NoResult \in AEMResult
BY NothingPartial DEF NoResult, AEMResult, Error

LEMMA PlainType ==
  ASSUME plan \in Plan, NEW ok \in BOOLEAN, NEW k \in Nat, NEW e \in Error
  PROVE  /\ Plain(ok, k, e) \in AEMResult
         /\ Plain(ok, k, e).success = ok
         /\ Plain(ok, k, e).completed = k
         /\ Plain(ok, k, e).total = Length(plan)
         /\ Plain(ok, k, e).error = e
<1>1. Length(plan) \in Nat
  BY CountType
<1> QED
  BY <1>1, NothingPartial DEF Plain, NoResult, AEMResult

LEMMA InitInvariant == Init => IInv
<1> SUFFICES ASSUME Init PROVE IInv
  OBVIOUS
<1> USE DEF Init
<1>1. TypeOK
  BY NothingPartial, NoResultType
     DEF TypeOK, Stage, Plan, Payload
<1>2. Untouched /\ PoolIdle /\ LoopState /\ WaveState
  BY NothingPartial DEF Untouched, PoolIdle, LoopState, WaveState, InLoop
<1>3. DispatchCount /\ SeedsUntouched /\ DispatchedInputs
  BY NothingPartial DEF DispatchCount, SeedsUntouched, DispatchedInputs
<1>4. StartOrder /\ PayloadFaithful
  BY DEF StartOrder, PayloadFaithful
<1>5. AlwaysProgress /\ ResultTruthful
  BY DEF AlwaysProgress, ResultTruthful, NoResult
<1> QED
  BY <1>1, <1>2, <1>3, <1>4, <1>5 DEF IInv

LEMMA EnterStep ==
  ASSUME IInv, NEW p \in Plans,
         NEW s \in PartialFunction(Name, Output), Enter(p, s)
  PROVE  IInv'
<1> USE DEF IInv, Enter, pool
<1>1. p \in Plan
  BY CallAssumption
<1>2. TypeOK'
  BY <1>1, MemberPartial DEF TypeOK, Stage
<1>3. /\ \A t \in Name : dispatched[t] = 0
      /\ DOMAIN completed = {} /\ running = {} /\ DOMAIN settled = {}
  BY DEF DispatchCount, Untouched, PoolIdle
<1>4. Untouched' /\ PoolIdle' /\ LoopState' /\ WaveState'
  BY DEF Untouched, PoolIdle, LoopState, WaveState, InLoop
<1>5. DispatchCount' /\ SeedsUntouched' /\ DispatchedInputs'
  BY <1>3 DEF DispatchCount, SeedsUntouched, DispatchedInputs
<1>6. StartOrder' /\ PayloadFaithful'
  BY <1>3 DEF StartOrder, PayloadFaithful
<1>7. AlwaysProgress' /\ ResultTruthful'
  BY DEF AlwaysProgress, ResultTruthful
<1> QED
  BY <1>2, <1>4, <1>5, <1>6, <1>7

LEMMA CallStep == IInv /\ Call => IInv'
<1>1. ASSUME IInv, NEW p \in Plans, Execute(p)
      PROVE  IInv'
  BY <1>1, EnterStep, NothingPartial DEF Execute
<1>2. ASSUME IInv, NEW p \in Plans, NEW s \in Seeds, Resume(p, s)
      PROVE  IInv'
  BY <1>2, EnterStep, CallAssumption DEF Resume
<1> QED
  BY <1>1, <1>2 DEF Call

-----------------------------------------------------------------------------
\* A call that ends before the loop, with a result r that reports neither
\* a failed task nor, unless the list is empty, success.
LEMMA EarlyReturn ==
  ASSUME IInv, stage = "validate", NEW r \in AEMResult, Return(r),
         r.error \notin {"no_progress", "task_failed"},
         r.success => r.completed = r.total /\ Length(plan) = 0,
         UNCHANGED <<locals, pool, dispatched, payload>>
  PROVE  IInv'
<1> USE DEF IInv, Return, locals, pool
<1>1. TypeOK'
  BY DEF TypeOK, Stage
<1>2. Untouched' /\ PoolIdle' /\ LoopState' /\ WaveState'
  BY DEF Untouched, PoolIdle, LoopState, WaveState, InLoop
<1>3. DispatchCount' /\ SeedsUntouched' /\ DispatchedInputs'
  BY DEF DispatchCount, SeedsUntouched, DispatchedInputs
<1>4. StartOrder'
  BY DEF StartOrder
<1>5. PayloadFaithful'
  BY DEF PayloadFaithful, EffectivePayload
<1>6. AlwaysProgress' /\ ResultTruthful'
  BY DEF AlwaysProgress, ResultTruthful, Length
<1> QED
  BY <1>1, <1>2, <1>3, <1>4, <1>5, <1>6

LEMMA ReturnEmptyStep == IInv /\ ReturnEmpty => IInv'
<1> SUFFICES ASSUME IInv, ReturnEmpty PROVE IInv'
  OBVIOUS
<1> DEFINE r == Plain(TRUE, 0, "none")
<1>1. plan \in Plan /\ TRUE \in BOOLEAN /\ 0 \in Nat /\ "none" \in Error
  BY DEF IInv, TypeOK, Error
<1>2. /\ r \in AEMResult /\ r.completed = 0
      /\ r.total = Length(plan) /\ r.error = "none"
  BY <1>1, PlainType
<1>3. stage = "validate" /\ Length(plan) = 0 /\ Return(r)
  BY DEF ReturnEmpty
<1> HIDE DEF r
<1> QED
  BY <1>2, <1>3, EarlyReturn DEF ReturnEmpty

LEMMA RejectCallStep == IInv /\ RejectCall => IInv'
<1> SUFFICES ASSUME IInv, RejectCall PROVE IInv'
  OBVIOUS
<1> DEFINE r == Plain(FALSE, 0, Verdict)
<1>1. Verdict \in {"validation", "resume_validation"}
  BY DEF RejectCall, Verdict
<1>2. plan \in Plan /\ FALSE \in BOOLEAN /\ 0 \in Nat /\ Verdict \in Error
  BY <1>1 DEF IInv, TypeOK, Error
<1>3. r \in AEMResult /\ r.success = FALSE /\ r.error = Verdict
  BY <1>2, PlainType
<1>4. stage = "validate" /\ Return(r)
  BY DEF RejectCall
<1> HIDE DEF r
<1> QED
  BY <1>1, <1>3, <1>4, EarlyReturn DEF RejectCall

LEMMA AcceptStep == IInv /\ Accept => IInv'
<1> SUFFICES ASSUME IInv, Accept PROVE IInv'
  OBVIOUS
<1> USE DEF IInv, Accept, Unseeded, pool
<1>1. /\ Valid(plan) /\ SeedsAccepted /\ Length(plan) # 0
      /\ plan.tasks \subseteq Name
  BY DEF Verdict, TypeOK, Plan
<1>2. TypeOK'
  BY <1>1, NothingPartial DEF TypeOK, Stage, SeedsAccepted
<1>3. DOMAIN completed' = {} /\ Failed(completed') = {}
  BY NothingPartial DEF Failed, Succeeded
<1>4. Untouched' /\ PoolIdle' /\ WaveState'
  BY DEF Untouched, PoolIdle, WaveState
<1>5. LoopState'
  BY <1>1, <1>3 DEF LoopState, InLoop, SeedsAccepted, Length
<1>6. \A t \in Name : dispatched[t] = 0
  BY DEF DispatchCount, Untouched, PoolIdle
<1>7. /\ DispatchCount' /\ SeedsUntouched' /\ DispatchedInputs'
      /\ StartOrder' /\ PayloadFaithful'
  BY <1>3, <1>6
     DEF DispatchCount, SeedsUntouched, DispatchedInputs, StartOrder,
         PayloadFaithful, Untouched, PoolIdle
<1>8. AlwaysProgress' /\ ResultTruthful'
  BY DEF AlwaysProgress, ResultTruthful
<1> QED
  BY <1>2, <1>4, <1>5, <1>7, <1>8

(***************************************************************************)
(* In a valid plan, some pending task has no pending dependency.           *)
(***************************************************************************)
LEMMA SomeReady ==
  ASSUME IInv, InLoop, pending # {}
  PROVE  \E t \in pending : plan.deps[t] \subseteq successful
<1> USE DEF IInv
<1>1. Valid(plan) /\ pending = plan.tasks \ successful
  BY DEF LoopState
<1>2. pending \in SUBSET plan.tasks
  BY <1>1
<1>3. PICK t \in pending : plan.deps[t] \cap pending = {}
  BY <1>1, <1>2 DEF Valid, Acyclic
<1>4. plan.deps[t] \subseteq plan.tasks
  BY <1>1, <1>3 DEF Valid, References
<1> QED
  BY <1>1, <1>3, <1>4

LEMMA NothingBlocks ==
  ASSUME IInv, InLoop, NEW B \in SUBSET pending, BlocksInOnePass(B)
  PROVE  B = {}
<1> USE DEF IInv
<1>1. Valid(plan) /\ B \in SUBSET plan.tasks /\ MustBlock = {}
  BY DEF LoopState, MustBlock
<1>2. \A t \in B : plan.deps[t] \cap B # {}
  BY <1>1 DEF BlocksInOnePass
<1> QED
  BY <1>1, <1>2 DEF Valid, Acyclic

LEMMA ScanStep == IInv /\ Scan => IInv'
<1> SUFFICES ASSUME IInv, Scan PROVE IInv'
  OBVIOUS
<1> USE DEF IInv
<1>0. stage = "scan" /\ InLoop
  BY DEF Scan, InLoop
<1>1. /\ UNCHANGED <<plan, seeds, outputs, successful, completed, running,
                      settled, dispatched, payload>>
      /\ blocked' = {} /\ blocked = {}
      /\ pending' = pending
  <2>1. PICK B \in SUBSET pending :
          /\ BlocksInOnePass(B)
          /\ blocked' = blocked \cup B
          /\ pending' = pending \ (blocked \cup B)
    BY DEF Scan
  <2>2. B = {}
    BY <1>0, <2>1, NothingBlocks
  <2>3. blocked = {}
    BY <1>0 DEF LoopState
  <2> QED
    BY <2>1, <2>2, <2>3 DEF Scan
<1> DEFINE ready == {t \in pending : plan.deps[t] \subseteq successful}
           done  == Cardinality(successful)
           r     == [Plain(TRUE, done, "none") EXCEPT !.outputs = outputs]
<1>2. CASE ready # {}
  <2>1. stage' = "wave" /\ queued' = ready /\ UNCHANGED result
    BY <1>1, <1>2 DEF Scan
  <2>2. running = {} /\ DOMAIN settled = {}
    BY <1>0 DEF PoolIdle
  <2>3. TypeOK'
    BY <1>1, <2>1 DEF TypeOK, Stage
  <2>4. Untouched' /\ PoolIdle'
    BY <2>1 DEF Untouched, PoolIdle
  <2>5. LoopState'
    BY <1>0, <1>1, <2>1 DEF LoopState, InLoop, SeedsAccepted
  <2>6. WaveState'
    BY <1>1, <2>1, <2>2 DEF WaveState, Ready
  <2>7. DispatchCount' /\ SeedsUntouched' /\ DispatchedInputs'
    BY <1>1 DEF DispatchCount, SeedsUntouched, DispatchedInputs
  <2>8. StartOrder' /\ PayloadFaithful'
    BY <1>1 DEF StartOrder, PayloadFaithful, EffectivePayload
  <2>9. AlwaysProgress' /\ ResultTruthful'
    BY <2>1 DEF AlwaysProgress, ResultTruthful
  <2> QED
    BY <2>3, <2>4, <2>5, <2>6, <2>7, <2>8, <2>9
<1>3. CASE ready = {}
  <2>1. pending = {}
    BY <1>0, <1>3, SomeReady
  <2>2. stage' = "returned" /\ result' = r /\ UNCHANGED queued
    BY <1>1, <1>3, <2>1 DEF Scan, Return
  <2>3. done \in Nat /\ Length(plan) \in Nat
    BY CountType DEF TypeOK
  <2>4. outputs \in PartialFunction(Name, Output)
    BY PartialMember DEF TypeOK
  <2>5. /\ Plain(TRUE, done, "none") \in AEMResult
        /\ Plain(TRUE, done, "none").success = TRUE
        /\ Plain(TRUE, done, "none").completed = done
        /\ Plain(TRUE, done, "none").total = Length(plan)
        /\ Plain(TRUE, done, "none").error = "none"
    BY <2>3, PlainType DEF TypeOK, Error
  <2>6. /\ r \in AEMResult /\ r.success /\ r.completed = done
        /\ r.total = Length(plan) /\ r.error = "none"
    <3> HIDE DEF done
    <3> QED
      BY <2>4, <2>5 DEF AEMResult
  <2>7. /\ Valid(plan) /\ SeedsAccepted
        /\ DOMAIN completed \subseteq plan.tasks \ DOMAIN seeds
        /\ Failed(completed) = {}
        /\ successful = DOMAIN seeds \cup DOMAIN completed
        /\ plan.tasks \subseteq successful
    BY <1>0, <2>1 DEF LoopState
  <2>8. successful = plan.tasks /\ Succeeded(completed) = DOMAIN completed
    BY <2>7 DEF SeedsAccepted, Failed, Succeeded
  <2>9. done = Length(plan)
    BY <2>3, <2>7, <2>8 DEF Length, Valid, WellNamed
  <2> HIDE DEF r, done
  <2>10. TypeOK'
    BY <1>1, <2>2, <2>6 DEF TypeOK, Stage
  <2>11. Untouched' /\ PoolIdle' /\ LoopState' /\ WaveState'
    BY <1>0, <1>1, <2>2 DEF Untouched, PoolIdle, LoopState, WaveState, InLoop
  <2>12. DispatchCount' /\ SeedsUntouched' /\ DispatchedInputs'
    BY <1>1 DEF DispatchCount, SeedsUntouched, DispatchedInputs
  <2>13. StartOrder' /\ PayloadFaithful'
    BY <1>1 DEF StartOrder, PayloadFaithful, EffectivePayload
  <2>14. AlwaysProgress' /\ ResultTruthful'
    BY <1>1, <2>2, <2>6, <2>7, <2>8, <2>9
       DEF AlwaysProgress, ResultTruthful
  <2> QED
    BY <2>10, <2>11, <2>12, <2>13, <2>14
<1> QED
  BY <1>2, <1>3

LEMMA PayloadType ==
  ASSUME TypeOK, NEW t \in Name, plan.deps[t] \subseteq DOMAIN outputs
  PROVE  EffectivePayload(t) \in Payload
<1> DEFINE inputs == [d \in plan.deps[t] |-> outputs[d]]
<1>1. plan.deps[t] \in SUBSET Name
  BY DEF TypeOK, Plan
<1>2. inputs \in [plan.deps[t] -> Output]
  BY DEF TypeOK, IsPartial
<1>3. inputs \in PartialFunction(Name, Output)
  <2> HIDE DEF inputs
  <2> QED
    BY <1>1, <1>2 DEF PartialFunction
<1> QED
  BY <1>3, NothingPartial DEF EffectivePayload, Payload

LEMMA StartTaskStep ==
  ASSUME IInv, NEW t \in Name, StartTask(t)
  PROVE  IInv'
<1> USE DEF IInv
<1>1. /\ stage = "wave" /\ t \in queued
      /\ queued' = queued \ {t}
      /\ running' = running \cup {t}
      /\ dispatched' = [dispatched EXCEPT ![t] = dispatched[t] + 1]
      /\ payload' = [payload EXCEPT ![t] = EffectivePayload(t)]
      /\ UNCHANGED <<stage, plan, seeds, outputs, successful, completed,
                     blocked, pending, settled, result>>
  BY DEF StartTask, locals
<1>2. InLoop /\ t \in Ready
  BY <1>1 DEF InLoop, Ready
<1>3. /\ plan.deps[t] \subseteq successful
      /\ DOMAIN outputs = successful
      /\ t \in pending /\ t \notin DOMAIN completed
      /\ t \notin running /\ t \notin DOMAIN settled
  BY <1>1, <1>2 DEF WaveState, LoopState
<1>4. /\ dispatched[t] = 0
      /\ \A u \in Name :
           dispatched'[u] = IF u = t THEN 1 ELSE dispatched[u]
      /\ \A u \in Name :
           payload'[u] = IF u = t THEN EffectivePayload(t) ELSE payload[u]
  BY <1>1, <1>3 DEF DispatchCount, TypeOK
<1>5. TypeOK'
  <2>1. EffectivePayload(t) \in Payload
    BY <1>3, PayloadType
  <2> QED
    BY <1>1, <2>1 DEF TypeOK
<1>6. Untouched' /\ PoolIdle' /\ SeedsUntouched'
  BY <1>1 DEF Untouched, PoolIdle, SeedsUntouched
<1>7. LoopState'
  BY <1>1, <1>2 DEF LoopState, InLoop, SeedsAccepted
<1>8. WaveState'
  BY <1>1, <1>3 DEF WaveState, Ready
<1>9. DispatchCount'
  BY <1>1, <1>4 DEF DispatchCount
<1>10. DispatchedInputs' /\ StartOrder'
  BY <1>1, <1>3, <1>4 DEF DispatchedInputs, StartOrder
<1>11. PayloadFaithful'
  <2>1. \A u \in Name : EffectivePayload(u)' = EffectivePayload(u)
    BY <1>1 DEF EffectivePayload
  <2> QED
    BY <1>4, <2>1 DEF PayloadFaithful
<1>12. AlwaysProgress' /\ ResultTruthful'
  BY <1>1 DEF AlwaysProgress, ResultTruthful
<1> QED
  BY <1>5, <1>6, <1>7, <1>8, <1>9, <1>10, <1>11, <1>12

LEMMA FinishTaskStep ==
  ASSUME IInv, NEW t \in Name, FinishTask(t)
  PROVE  IInv'
<1> USE DEF IInv
<1>1. /\ stage = "wave" /\ t \in running
      /\ running' = running \ {t}
      /\ UNCHANGED <<stage, plan, seeds, outputs, successful, completed,
                     blocked, pending, queued, result, dispatched, payload>>
  BY DEF FinishTask, locals
<1>2. PICK r \in WorkerResult :
        settled' = [u \in DOMAIN settled \cup {t} |->
                      IF u = t THEN r ELSE settled[u]]
  BY DEF FinishTask, DispatchOutcome
<1>3. DOMAIN settled' = DOMAIN settled \cup {t}
  BY <1>2
<1>4. TypeOK'
  <2>1. IsPartial(settled, Name, WorkerResult)'
    BY <1>2, <1>3 DEF TypeOK, IsPartial
  <2> QED
    BY <1>1, <2>1 DEF TypeOK
<1>5. Untouched' /\ PoolIdle' /\ SeedsUntouched'
  BY <1>1 DEF Untouched, PoolIdle, SeedsUntouched
<1>6. LoopState'
  BY <1>1 DEF LoopState, InLoop, SeedsAccepted
<1>7. WaveState'
  BY <1>1, <1>3 DEF WaveState, Ready
<1>8. DispatchCount'
  BY <1>1, <1>3 DEF DispatchCount
<1>9. DispatchedInputs' /\ StartOrder'
  BY <1>1 DEF DispatchedInputs, StartOrder
<1>10. PayloadFaithful'
  BY <1>1 DEF PayloadFaithful, EffectivePayload
<1>11. AlwaysProgress' /\ ResultTruthful'
  BY <1>1 DEF AlwaysProgress, ResultTruthful
<1> QED
  BY <1>4, <1>5, <1>6, <1>7, <1>8, <1>9, <1>10, <1>11

LEMMA CollectWaveStep == IInv /\ CollectWave => IInv'
<1> SUFFICES ASSUME IInv, CollectWave PROVE IInv'
  OBVIOUS
<1> USE DEF IInv
<1> DEFINE ok  == Succeeded(settled)
           bad == Failed(settled)
           W   == DOMAIN settled
<1>1. /\ stage = "wave" /\ queued = {} /\ running = {}
      /\ pending' = pending \ W
      /\ completed' = [t \in DOMAIN completed \cup W |->
                          IF t \in W THEN settled[t] ELSE completed[t]]
      /\ outputs' = [t \in DOMAIN outputs \cup ok |->
                        IF t \in ok THEN settled[t].output ELSE outputs[t]]
      /\ successful' = successful \cup ok
      /\ settled' = Nothing
      /\ UNCHANGED <<plan, seeds, blocked, queued, running, dispatched,
                     payload>>
  BY DEF CollectWave
<1>2. InLoop /\ Ready = W
  BY <1>1 DEF InLoop, Ready
<1>3. /\ Length(plan) # 0 /\ Valid(plan) /\ SeedsAccepted
      /\ DOMAIN completed \subseteq plan.tasks \ DOMAIN seeds
      /\ Failed(completed) = {} /\ blocked = {}
      /\ successful = DOMAIN seeds \cup DOMAIN completed
      /\ DOMAIN outputs = successful
      /\ pending = plan.tasks \ successful
      /\ W \subseteq pending
  BY <1>1, <1>2 DEF LoopState, WaveState
<1>4. ok \subseteq W /\ bad = W \ ok /\ ok \cup bad = W
  BY DEF Succeeded, Failed
<1>5. /\ DOMAIN completed' = DOMAIN completed \cup W
      /\ DOMAIN outputs' = successful \cup ok
      /\ DOMAIN settled' = {}
      /\ \A t \in W : completed'[t] = settled[t]
      /\ \A t \in DOMAIN completed : completed'[t] = completed[t]
      /\ \A t \in successful : outputs'[t] = outputs[t]
  BY <1>1, <1>3, <1>4, NothingPartial
<1>6. Succeeded(completed') = DOMAIN completed \cup ok
  BY <1>3, <1>5 DEF Succeeded, Failed
<1>7. Failed(completed') = bad
  BY <1>3, <1>4, <1>5, <1>6 DEF Failed
<1>8. /\ IsPartial(outputs, Name, Output)'
      /\ IsPartial(completed, Name, WorkerResult)'
      /\ IsPartial(settled, Name, WorkerResult)'
      /\ pending' \in SUBSET Name /\ successful' \in SUBSET Name
  <2>1. W \subseteq Name /\ \A t \in W : settled[t] \in WorkerResult
    BY DEF TypeOK, IsPartial
  <2>2. \A t \in ok : settled[t].output \in Output
    BY <1>4, <2>1 DEF WorkerResult
  <2>3. IsPartial(outputs, Name, Output)'
    BY <1>1, <1>3, <1>4, <1>5, <2>1, <2>2 DEF TypeOK, IsPartial
  <2>4. IsPartial(completed, Name, WorkerResult)'
    BY <1>1, <1>5, <2>1 DEF TypeOK, IsPartial
  <2> QED
    BY <1>1, <1>4, <2>1, <2>3, <2>4, NothingPartial DEF TypeOK
<1>9. /\ DispatchCount' /\ SeedsUntouched' /\ DispatchedInputs'
      /\ StartOrder'
  BY <1>1, <1>3, <1>5
     DEF DispatchCount, SeedsUntouched, DispatchedInputs, StartOrder
<1>10. PayloadFaithful'
  <2> SUFFICES ASSUME NEW t \in Name, dispatched[t] > 0
               PROVE  EffectivePayload(t)' = EffectivePayload(t)
    BY <1>1 DEF PayloadFaithful
  <2>1. \A d \in plan.deps[t] : outputs'[d] = outputs[d]
    BY <1>3, <1>5 DEF DispatchedInputs
  <2> QED
    BY <1>1, <2>1 DEF EffectivePayload
<1>11. CASE bad = {}
  <2>1. stage' = "scan" /\ UNCHANGED result
    BY <1>11 DEF CollectWave, WaveFailed
  <2>2. TypeOK'
    BY <1>1, <1>8, <2>1 DEF TypeOK, Stage
  <2>3. Untouched' /\ PoolIdle' /\ WaveState'
    BY <1>1, <1>5, <2>1 DEF Untouched, PoolIdle, WaveState
  <2>4. LoopState'
    BY <1>1, <1>3, <1>4, <1>5, <1>7, <1>11, <2>1
       DEF LoopState, InLoop, SeedsAccepted
  <2>5. AlwaysProgress' /\ ResultTruthful'
    BY <2>1 DEF AlwaysProgress, ResultTruthful
  <2> QED
    BY <1>9, <1>10, <2>2, <2>3, <2>4, <2>5
<1>12. CASE bad # {}
  <2> DEFINE done == Cardinality(successful')
             base == Plain(FALSE, done, "task_failed")
             ws   == {settled[t].worker : t \in bad}
             r    == [base EXCEPT !.failed = bad,
                                  !.remaining = pending',
                                  !.blocked = blocked,
                                  !.workers = ws,
                                  !.outputs = outputs']
  <2>1. stage' = "returned" /\ result' = r
    BY <1>12 DEF CollectWave, WaveFailed, Return
  <2>2. done \in Nat
    BY <1>8, CountType
  <2>3. /\ base \in AEMResult
        /\ base.success = FALSE
        /\ base.completed = done
        /\ base.total = Length(plan)
        /\ base.error = "task_failed"
    <3>1. FALSE \in BOOLEAN /\ "task_failed" \in Error /\ plan \in Plan
      BY DEF Error, TypeOK
    <3> HIDE DEF done
    <3> QED
      BY <2>2, <3>1, PlainType
  <2>4. /\ bad \in SUBSET Name /\ pending' \in SUBSET Name
        /\ blocked \in SUBSET Name /\ ws \in SUBSET WorkerName
        /\ outputs' \in PartialFunction(Name, Output)
    <3>1. \A t \in bad : t \in Name /\ settled[t] \in WorkerResult
      BY <1>4 DEF TypeOK, IsPartial
    <3>2. \A t \in bad : settled[t].worker \in WorkerName
      BY <3>1 DEF WorkerResult
    <3> QED
      BY <1>8, <3>1, <3>2, PartialMember DEF TypeOK
  <2> HIDE DEF base, done, ws, bad, ok, W
  <2>5. /\ r \in AEMResult
        /\ r.success = FALSE /\ r.completed = done
        /\ r.error = "task_failed" /\ r.failed = bad
        /\ r.remaining = pending' /\ r.outputs = outputs'
    BY <2>3, <2>4 DEF AEMResult
  <2> HIDE DEF r
  <2>6. TypeOK'
    BY <1>1, <1>8, <2>1, <2>5 DEF TypeOK, Stage
  <2>7. Untouched' /\ PoolIdle' /\ LoopState' /\ WaveState'
    BY <1>1, <1>5, <2>1 DEF Untouched, PoolIdle, LoopState, WaveState, InLoop
  <2>8. AlwaysProgress'
    BY <2>1, <2>5 DEF AlwaysProgress
  <2>9. ResultTruthful'
    <3>1. DOMAIN seeds' \cup Succeeded(completed') = successful'
      BY <1>1, <1>3, <1>6
    <3>2. pending' = plan.tasks \ (successful' \cup bad)
      BY <1>1, <1>3, <1>4 DEF W, ok, bad
    <3>3. \A t \in pending' : dispatched'[t] = 0
      BY <1>1, <1>3, <1>8, <2>7 DEF DispatchCount, W
    <3> QED
      BY <1>1, <1>3, <1>5, <1>7, <1>12, <2>1, <2>5, <3>1, <3>2, <3>3
         DEF ResultTruthful, done, W, ok, bad
  <2> QED
    BY <1>9, <1>10, <2>6, <2>7, <2>8, <2>9
<1> QED
  BY <1>11, <1>12

LEMMA StutterStep == IInv /\ UNCHANGED graphVars => IInv'
BY DEF graphVars, locals, pool, IInv, TypeOK, Untouched, PoolIdle,
       LoopState, InLoop, SeedsAccepted, WaveState, Ready, DispatchCount,
       SeedsUntouched, DispatchedInputs, StartOrder, PayloadFaithful,
       EffectivePayload, AlwaysProgress, ResultTruthful

LEMMA NextStep == IInv /\ [Next]_graphVars => IInv'
<1> SUFFICES ASSUME IInv, [Next]_graphVars PROVE IInv'
  OBVIOUS
<1>1. CASE Call
  BY <1>1, CallStep
<1>2. CASE ReturnEmpty
  BY <1>2, ReturnEmptyStep
<1>3. CASE RejectCall
  BY <1>3, RejectCallStep
<1>4. CASE Accept
  BY <1>4, AcceptStep
<1>5. CASE Scan
  BY <1>5, ScanStep
<1>6. CASE \E t \in Name : StartTask(t)
  BY <1>6, StartTaskStep
<1>7. CASE \E t \in Name : FinishTask(t)
  BY <1>7, FinishTaskStep
<1>8. CASE CollectWave
  BY <1>8, CollectWaveStep
<1>9. CASE UNCHANGED graphVars
  BY <1>9, StutterStep
<1> QED
  BY <1>1, <1>2, <1>3, <1>4, <1>5, <1>6, <1>7, <1>8, <1>9 DEF Next, GraphStep

(***************************************************************************)
(* The strengthened invariant the theorems below are read from.            *)
(***************************************************************************)
THEOREM Invariance == Spec => []IInv
BY InitInvariant, NextStep, PTL DEF Spec

LEMMA GenuineStep == IInv /\ Genuine /\ [Next]_graphVars => Genuine'
<1> SUFFICES ASSUME IInv, Genuine, [Next]_graphVars PROVE Genuine'
  OBVIOUS
<1>1. CASE Call
  BY <1>1 DEF Call, Execute, Resume, Enter, Genuine, IInv, Untouched
<1>2. CASE ReturnEmpty \/ RejectCall \/ Scan
  BY <1>2 DEF ReturnEmpty, RejectCall, Scan, locals, Genuine
<1>3. CASE Accept
  BY <1>3 DEF Accept, Genuine
<1>4. CASE \E t \in Name : StartTask(t) \/ FinishTask(t)
  BY <1>4 DEF StartTask, FinishTask, locals, Genuine
<1>5. CASE CollectWave
  <2>1. /\ successful' = successful \cup Succeeded(settled)
        /\ seeds' = seeds
        /\ \A t \in DOMAIN settled :
             t \in DOMAIN completed' /\ completed'[t] = settled[t]
        /\ \A t \in DOMAIN completed \ DOMAIN settled :
             t \in DOMAIN completed' /\ completed'[t] = completed[t]
    BY <1>5 DEF CollectWave
  <2>2. DOMAIN settled \cap successful = {}
    BY <1>5 DEF CollectWave, IInv, LoopState, WaveState, InLoop, Ready
  <2> QED
    BY <2>1, <2>2 DEF Genuine, Succeeded
<1>6. CASE UNCHANGED graphVars
  BY <1>6 DEF graphVars, locals, Genuine
<1> QED
  BY <1>1, <1>2, <1>3, <1>4, <1>5, <1>6 DEF Next, GraphStep

(***************************************************************************)
(* successful_tasks holds seeded tasks and tasks that have succeeded only. *)
(***************************************************************************)
THEOREM GenuineInvariance == Spec => []Genuine
<1>1. Init => Genuine
  BY DEF Init, Genuine
<1> QED
  BY <1>1, GenuineStep, Invariance, PTL DEF Spec

(***************************************************************************)
(* Every variable keeps its type.                                          *)
(***************************************************************************)
THEOREM TypeCorrect == Spec => []TypeOK
<1>1. IInv => TypeOK
  BY DEF IInv
<1> QED
  BY Invariance, <1>1, PTL

(***************************************************************************)
(* No worker is given a task before the task's dependencies have succeeded.*)
(***************************************************************************)
THEOREM DependenciesFirst == Spec => []DependencyOrder
<1>1. IInv /\ Genuine => DependencyOrder
  BY DEF IInv, StartOrder, Genuine, DependencyOrder
<1> QED
  BY Invariance, GenuineInvariance, <1>1, PTL

LEMMA OnceEach == IInv => DispatchedOnce
<1> SUFFICES ASSUME IInv, NEW t \in Name
             PROVE  dispatched[t] <= IF t \in DOMAIN seeds THEN 0 ELSE 1
  BY DEF DispatchedOnce
<1> USE DEF IInv
<1>1. t \in DOMAIN seeds =>
        t \notin DOMAIN completed \cup running \cup DOMAIN settled
  <2>1. CASE stage = "wave"
    BY <2>1 DEF LoopState, WaveState, InLoop, Ready, SeedsUntouched
  <2>2. CASE stage # "wave"
    BY <2>2 DEF PoolIdle, SeedsUntouched
  <2> QED
    BY <2>1, <2>2
<1> QED
  BY <1>1 DEF DispatchCount

(***************************************************************************)
(* No call dispatches a task twice, or a seeded task at all.               *)
(***************************************************************************)
THEOREM OneDispatch == Spec => []DispatchedOnce
BY Invariance, OnceEach, PTL

(***************************************************************************)
(* The payload a task was given stays the one its dependencies' recorded   *)
(* outputs determine.                                                      *)
(***************************************************************************)
THEOREM PayloadsFaithful == Spec => []PayloadFaithful
<1>1. IInv => PayloadFaithful
  BY DEF IInv
<1> QED
  BY Invariance, <1>1, PTL

(***************************************************************************)
(* A validated graph with accepted seeds never gets stuck.                 *)
(***************************************************************************)
THEOREM NeverStuck == Spec => []AlwaysProgress
<1>1. IInv => AlwaysProgress
  BY DEF IInv
<1> QED
  BY Invariance, <1>1, PTL

(***************************************************************************)
(* The AEMResult of every call reports what happened in it.                *)
(***************************************************************************)
THEOREM ResultsTruthful == Spec => []ResultTruthful
<1>1. IInv => ResultTruthful
  BY DEF IInv
<1> QED
  BY Invariance, <1>1, PTL

(***************************************************************************)
(* No task starts after a wave with a failure has been recorded.           *)
(***************************************************************************)
THEOREM StopsOnFailure == Spec => FailStop
<1> DEFINE A == \A t \in Name :
                  dispatched'[t] > dispatched[t] => Failed(completed) = {}
<1>1. IInv /\ [Next]_graphVars => [A]_graphVars
  <2> SUFFICES ASSUME IInv, [Next]_graphVars, dispatched' # dispatched,
                      NEW t \in Name
               PROVE  \/ Failed(completed) = {}
                      \/ ~(dispatched'[t] > dispatched[t])
    BY DEF graphVars, IInv, TypeOK
  <2>1. (\E u \in Name : StartTask(u)) \/ UNCHANGED dispatched
    BY DEF Next, Call, Execute, Resume, Enter, GraphStep, ReturnEmpty,
           RejectCall, Accept, Scan, FinishTask, CollectWave, graphVars
  <2>2. stage = "wave"
    BY <2>1 DEF StartTask
  <2> QED
    BY <2>2 DEF IInv, LoopState, InLoop
<1> QED
  BY Invariance, <1>1, PTL DEF Spec, FailStop

-----------------------------------------------------------------------------
(***************************************************************************)
(* What the AEMResult of a call that has ended says, in the terms of the   *)
(* call's locals; before that there is none.                               *)
(***************************************************************************)
EndedEarly ==
  /\ result.error \in {"validation", "resume_validation"}
  /\ ~result.success
  /\ result.failed = {} /\ result.workers = {} /\ result.outputs = Nothing
  /\ successful = {}

EndedWell ==
  /\ result.error = "none"
  /\ result.success
  /\ result.failed = {} /\ result.workers = {}
  /\ successful = plan.tasks
  /\ plan.extra = 0
  /\ result.outputs = (IF Length(plan) = 0 THEN Nothing ELSE outputs)

EndedByFailure ==
  /\ result.error = "task_failed"
  /\ ~result.success
  /\ result.failed = Failed(completed) /\ result.failed # {}
  /\ result.failed \subseteq plan.tasks \ successful
  /\ successful \subseteq plan.tasks
  /\ result.outputs = outputs

Reported ==
  /\ stage # "returned" => result = NoResult
  /\ stage = "returned" =>
       /\ result.total = Length(plan)
       /\ result.completed = Cardinality(successful)
       /\ EndedEarly \/ EndedWell \/ EndedByFailure
       /\ result.error = "validation" <=> ~Valid(plan) /\ Length(plan) # 0
       /\ result.error = "resume_validation" =>
            Length(plan) # 0 /\ Valid(plan) /\ ~SeedsAccepted
       /\ ~EndedEarly => DOMAIN outputs = successful

LEMMA PlainVerdict ==
  \A k, e : /\ Plain(TRUE, k, e).success = TRUE
            /\ Plain(FALSE, k, e).success = FALSE
BY DEF Plain, NoResult

LEMMA EmptyPlan ==
  ASSUME plan \in Plan, Length(plan) = 0
  PROVE  plan.tasks = {} /\ plan.extra = 0
<1>1. plan.tasks \subseteq Name /\ plan.extra \in Nat
  BY DEF Plan
<1>2. IsFiniteSet(plan.tasks)
  BY <1>1, NameAssumption, FS_Subset
<1>3. /\ Cardinality(plan.tasks) \in Nat
      /\ Cardinality(plan.tasks) = 0 <=> plan.tasks = {}
  BY <1>2, FS_CardinalityType, FS_EmptySet
<1> QED
  BY <1>1, <1>3 DEF Length

LEMMA ReportEmpty == IInv /\ ReturnEmpty => Reported'
<1> SUFFICES ASSUME IInv, ReturnEmpty PROVE Reported'
  OBVIOUS
<1>1. /\ stage = "validate" /\ stage' = "returned" /\ Length(plan) = 0
      /\ result' = Plain(TRUE, 0, "none")
      /\ UNCHANGED <<plan, seeds, outputs, successful>>
  BY DEF ReturnEmpty, Return, locals
<1>2. /\ result'.success = TRUE /\ result'.completed = 0
      /\ result'.total = Length(plan) /\ result'.error = "none"
      /\ result'.failed = {} /\ result'.workers = {}
      /\ result'.outputs = Nothing
  <2>1. result'.success = TRUE
    BY <1>1, PlainVerdict
  <2>2. /\ result'.completed = 0 /\ result'.total = Length(plan)
        /\ result'.error = "none" /\ result'.failed = {}
        /\ result'.workers = {} /\ result'.outputs = Nothing
    BY <1>1 DEF Plain, NoResult
  <2> QED
    BY <2>1, <2>2
<1>3. successful = {} /\ DOMAIN outputs = {} /\ Cardinality({}) = 0
  BY <1>1, FS_EmptySet DEF IInv, Untouched
<1>4. plan.tasks = {} /\ plan.extra = 0
  BY <1>1, EmptyPlan DEF IInv, TypeOK
<1>5. Length(plan)' = Length(plan)
  BY <1>1 DEF Length
<1>6. EndedWell'
  BY <1>1, <1>2, <1>3, <1>4, <1>5 DEF EndedWell
<1> QED
  BY <1>1, <1>2, <1>3, <1>5, <1>6 DEF Reported

LEMMA ReportRejected == IInv /\ RejectCall => Reported'
<1> SUFFICES ASSUME IInv, RejectCall PROVE Reported'
  OBVIOUS
<1>1. /\ stage = "validate" /\ stage' = "returned" /\ Length(plan) # 0
      /\ result' = Plain(FALSE, 0, Verdict) /\ Verdict # "none"
      /\ UNCHANGED <<plan, seeds, outputs, successful>>
  BY DEF RejectCall, Return, locals
<1>2. /\ result'.success = FALSE /\ result'.completed = 0
      /\ result'.total = Length(plan) /\ result'.error = Verdict
      /\ result'.failed = {} /\ result'.workers = {}
      /\ result'.outputs = Nothing
  <2>1. result'.success = FALSE
    BY <1>1, PlainVerdict
  <2>2. /\ result'.completed = 0 /\ result'.total = Length(plan)
        /\ result'.error = Verdict /\ result'.failed = {}
        /\ result'.workers = {} /\ result'.outputs = Nothing
    BY <1>1 DEF Plain, NoResult
  <2> QED
    BY <2>1, <2>2
<1>3. successful = {} /\ Cardinality({}) = 0
  BY <1>1, FS_EmptySet DEF IInv, Untouched
<1>4. /\ Verdict \in {"validation", "resume_validation"}
      /\ Verdict = "validation" <=> ~Valid(plan)
      /\ Verdict = "resume_validation" => Valid(plan) /\ ~SeedsAccepted
  BY <1>1 DEF Verdict
<1>5. /\ Length(plan)' = Length(plan) /\ Valid(plan)' = Valid(plan)
      /\ SeedsAccepted' = SeedsAccepted
  BY <1>1 DEF Length, SeedsAccepted
<1>6. EndedEarly'
  BY <1>1, <1>2, <1>3, <1>4 DEF EndedEarly
<1> QED
  BY <1>1, <1>2, <1>3, <1>4, <1>5, <1>6 DEF Reported

LEMMA ReportScanned == IInv /\ Scan /\ Reported => Reported'
<1> SUFFICES ASSUME IInv, Scan, Reported PROVE Reported'
  OBVIOUS
<1> USE DEF IInv
<1>1. /\ stage = "scan" /\ InLoop
      /\ UNCHANGED <<plan, seeds, outputs, successful, completed>>
  BY DEF Scan, InLoop
<1>2. PICK B \in SUBSET pending :
        /\ BlocksInOnePass(B)
        /\ blocked' = blocked \cup B
        /\ pending' = pending \ (blocked \cup B)
  BY DEF Scan
<1>3. blocked = {} /\ B = {}
  BY <1>1, <1>2, NothingBlocks DEF LoopState
<1>4. pending' = pending /\ blocked' = {}
  BY <1>2, <1>3
<1>5. CASE stage' # "returned"
  BY <1>1, <1>5 DEF Scan, Return, Reported
<1>6. CASE stage' = "returned"
  <2>1. {t \in pending : plan.deps[t] \subseteq successful} = {}
    BY <1>4, <1>6 DEF Scan
  <2>2. pending = {}
    BY <1>1, <2>1, SomeReady
  <2>3. result' = [Plain(TRUE, Cardinality(successful), "none")
                     EXCEPT !.outputs = outputs]
    BY <1>4, <2>1, <2>2 DEF Scan, Return
  <2>6. /\ result'.success = TRUE
        /\ result'.completed = Cardinality(successful)
        /\ result'.total = Length(plan) /\ result'.error = "none"
        /\ result'.failed = {} /\ result'.workers = {}
        /\ result'.outputs = outputs
    BY <2>3 DEF Plain, NoResult
  <2>7. /\ Length(plan) # 0 /\ Valid(plan) /\ successful = plan.tasks
        /\ DOMAIN outputs = successful
    BY <1>1, <2>2 DEF LoopState, SeedsAccepted
  <2>8. Length(plan)' = Length(plan) /\ Valid(plan)' = Valid(plan)
    BY <1>1 DEF Length
  <2>9. EndedWell'
    BY <1>1, <2>6, <2>7, <2>8 DEF EndedWell, Valid, WellNamed
  <2> QED
    BY <1>1, <1>6, <2>6, <2>7, <2>8, <2>9 DEF Reported
<1> QED
  BY <1>5, <1>6

LEMMA ReportCollected == IInv /\ CollectWave /\ Reported => Reported'
<1> SUFFICES ASSUME IInv, CollectWave, Reported PROVE Reported'
  OBVIOUS
<1> USE DEF IInv
<1>1. CASE stage' # "returned"
  <2>1. UNCHANGED result /\ stage = "wave"
    BY <1>1 DEF CollectWave, Return
  <2> QED
    BY <1>1, <2>1 DEF Reported
<1>2. CASE stage' = "returned"
  <2> DEFINE W   == DOMAIN settled
             bad == Failed(settled)
  <2>1. /\ stage = "wave" /\ bad # {}
        /\ completed' = [t \in DOMAIN completed \cup W |->
                            IF t \in W THEN settled[t] ELSE completed[t]]
        /\ DOMAIN outputs' = DOMAIN outputs \cup Succeeded(settled)
        /\ successful' = successful \cup Succeeded(settled)
        /\ UNCHANGED <<plan, seeds>>
    BY <1>2 DEF CollectWave, WaveFailed
  <2>2. /\ Length(plan) # 0 /\ Valid(plan)
        /\ DOMAIN outputs = successful /\ Failed(completed) = {}
        /\ W \subseteq plan.tasks \ successful /\ successful \subseteq plan.tasks
        /\ DOMAIN completed \subseteq successful
    BY <2>1 DEF LoopState, WaveState, InLoop, Ready, SeedsAccepted
  <2>3. /\ result'.success = FALSE
        /\ result'.completed = Cardinality(successful')
        /\ result'.total = Length(plan)
        /\ result'.error = "task_failed"
        /\ result'.failed = bad
        /\ result'.outputs = outputs'
    <3>1. result' = [Plain(FALSE, Cardinality(successful'), "task_failed")
                       EXCEPT !.failed = bad,
                              !.remaining = pending',
                              !.blocked = blocked,
                              !.workers = {settled[t].worker : t \in bad},
                              !.outputs = outputs']
      BY <2>1 DEF CollectWave, WaveFailed, Return
    <3> QED
      BY <3>1 DEF Plain, NoResult
  <2>4. Failed(completed') = bad
    BY <2>1, <2>2 DEF Failed, Succeeded
  <2>5. bad \subseteq W /\ bad \cap Succeeded(settled) = {}
        /\ Succeeded(settled) \subseteq W
    BY DEF Failed, Succeeded
  <2>6. EndedByFailure'
    BY <2>1, <2>2, <2>3, <2>4, <2>5 DEF EndedByFailure
  <2>7. Length(plan)' = Length(plan) /\ Valid(plan)' = Valid(plan)
    BY <2>1 DEF Length
  <2> QED
    BY <1>2, <2>1, <2>2, <2>3, <2>6, <2>7 DEF Reported
<1> QED
  BY <1>1, <1>2

LEMMA ReportedStep == IInv /\ Reported /\ GraphStep => Reported'
<1> SUFFICES ASSUME IInv, Reported, GraphStep PROVE Reported'
  OBVIOUS
<1>1. CASE Accept
  BY <1>1 DEF Accept, Reported
<1>2. CASE \E t \in Name : StartTask(t) \/ FinishTask(t)
  BY <1>2 DEF StartTask, FinishTask, Reported
<1> QED
  BY <1>1, <1>2, ReportEmpty, ReportRejected, ReportScanned, ReportCollected
     DEF GraphStep

-----------------------------------------------------------------------------
(***************************************************************************)
(* DependencyGraph implements PlanExecution: each step of a call is a step *)
(* of the abstract specification or leaves its variables unchanged.        *)
(***************************************************************************)

\* What TaskStatus says of one task.
Done(t)   == t \in successful \/ (t \in DOMAIN settled /\ settled[t].success)
Broken(t) == /\ ~Done(t)
             /\ \/ t \in DOMAIN completed /\ ~completed[t].success
                \/ t \in DOMAIN settled /\ ~settled[t].success

LEMMA StatusOf ==
  ASSUME NEW t \in Name
  PROVE  TaskStatus[t] = IF Done(t) THEN "done"
                         ELSE IF Broken(t) THEN "failed"
                         ELSE IF t \in running THEN "active"
                         ELSE "waiting"
BY DEF TaskStatus, Done, Broken, Succeeded, Failed

LEMMA StatusFunction ==
  /\ TaskStatus = [t \in Name |-> TaskStatus[t]]
  /\ DOMAIN TaskStatus = Name
BY DEF TaskStatus

LEMMA InitRefines == Init => Contract!Init
<1> SUFFICES ASSUME Init PROVE Contract!Init
  OBVIOUS
<1>1. plan \in Plan /\ CallVerdict = "none"
  BY DEF Init, Plan, CallVerdict
<1>2. TaskStatus = [t \in Name |-> "waiting"]
  BY NothingPartial DEF Init, TaskStatus, Succeeded, Failed
<1> QED
  BY <1>1, <1>2 DEF Contract!Init, Contract!Plan, Plan

LEMMA CallRefines ==
  ASSUME IInv, IInv', Call
  PROVE  Contract!Submit
<1>1. /\ UNCHANGED <<successful, completed, settled, running>>
      /\ stage = "idle" /\ stage' = "validate"
  BY DEF Call, Execute, Resume, Enter, pool
<1>2. UNCHANGED TaskStatus
  BY <1>1 DEF TaskStatus, Succeeded, Failed
<1>3. CallVerdict = "none" /\ CallVerdict' = "none"
  BY <1>1 DEF CallVerdict
<1> QED
  BY <1>2, <1>3 DEF Contract!Submit, Contract!Plan, Plan, IInv, TypeOK

LEMMA EarlyReturnRefines ==
  ASSUME IInv, ReturnEmpty \/ RejectCall
  PROVE  Contract!Refuse
<1>1. /\ stage = "validate" /\ stage' = "returned"
      /\ UNCHANGED <<plan, successful, completed, settled, running>>
  BY DEF ReturnEmpty, RejectCall, Return, locals, pool
<1>2. UNCHANGED TaskStatus
  BY <1>1 DEF TaskStatus, Succeeded, Failed
<1>3. result'.success = (Length(plan) = 0)
  <2>1. \A done, error : /\ Plain(TRUE, done, error).success = TRUE
                         /\ Plain(FALSE, done, error).success = FALSE
    BY DEF Plain, NoResult
  <2>2. CASE ReturnEmpty
    BY <2>1, <2>2 DEF ReturnEmpty, Return
  <2>3. CASE RejectCall
    BY <2>1, <2>3 DEF RejectCall, Return
  <2> QED
    BY <2>2, <2>3
<1>4. CallVerdict = "none"
  BY <1>1 DEF CallVerdict
<1>5. CallVerdict' = IF Length(plan) = 0 THEN "success" ELSE "failure"
  BY <1>1, <1>3 DEF CallVerdict
<1>6. Length(plan) = 0 <=> plan.tasks = {} /\ plan.extra = 0
  <2>1. plan.tasks \subseteq Name /\ plan.extra \in Nat
    BY DEF IInv, TypeOK, Plan
  <2>2. IsFiniteSet(plan.tasks)
    BY <2>1, NameAssumption, FS_Subset
  <2>3. /\ Cardinality(plan.tasks) \in Nat
        /\ Cardinality(plan.tasks) = 0 <=> plan.tasks = {}
    BY <2>2, FS_CardinalityType, FS_EmptySet
  <2> QED
    BY <2>1, <2>3 DEF Length
<1>7. CallVerdict' = IF Contract!Empty(plan) THEN "success" ELSE "failure"
  BY <1>5, <1>6 DEF Contract!Empty
<1> QED
  BY <1>1, <1>2, <1>4, <1>7 DEF Contract!Refuse

LEMMA AcceptStatus ==
  ASSUME IInv, Accept
  PROVE  TaskStatus' =
           [t \in Name |-> IF t \in DOMAIN seeds THEN "done" ELSE "waiting"]
<1>1. /\ successful' = DOMAIN seeds
      /\ completed' = Nothing
      /\ UNCHANGED <<settled, running>>
      /\ stage = "validate"
  BY DEF Accept, pool
<1>2. running = {} /\ DOMAIN settled = {} /\ DOMAIN completed' = {}
  BY <1>1, NothingPartial DEF IInv, PoolIdle
<1> QED
  BY <1>1, <1>2 DEF TaskStatus, Succeeded, Failed

LEMMA AcceptRefines ==
  ASSUME IInv, Accept
  PROVE  \E D \in SUBSET plan.tasks : Contract!Open(D)
<1>1. /\ stage = "validate" /\ stage' = "scan"
      /\ Valid(plan) /\ SeedsAccepted
      /\ UNCHANGED plan
  BY DEF Accept, Verdict
<1>2. CallVerdict = "none" /\ CallVerdict' = "open"
  BY <1>1 DEF CallVerdict
<1>3. DOMAIN seeds \in SUBSET plan.tasks /\ ClosedUnder(plan, DOMAIN seeds)
  BY <1>1 DEF SeedsAccepted
<1>4. Contract!Open(DOMAIN seeds)
  BY <1>1, <1>2, <1>3, AcceptStatus
     DEF Contract!Open, Contract!Valid, Contract!WellNamed,
         Contract!References, Contract!Acyclic, Contract!ClosedUnder,
         Valid, WellNamed, References, Acyclic, ClosedUnder
<1> QED
  BY <1>3, <1>4

LEMMA ScanRefines ==
  ASSUME IInv, IInv', Scan
  PROVE  \/ Contract!Close("success")
         \/ UNCHANGED <<plan, TaskStatus, CallVerdict>>
<1> USE DEF IInv
<1>1. /\ stage = "scan" /\ stage' \in {"wave", "returned"}
      /\ UNCHANGED <<plan, successful, completed, settled, running>>
  BY DEF Scan, Return
<1>2. UNCHANGED TaskStatus
  BY <1>1 DEF TaskStatus, Succeeded, Failed
<1>3. CASE stage' = "wave"
  BY <1>1, <1>2, <1>3 DEF CallVerdict
<1>4. CASE stage' = "returned"
  <2>1. \A t \in Name : TaskStatus[t] # "active"
    BY <1>1, StatusOf DEF PoolIdle
  <2>2. result'.success /\ plan.tasks \subseteq successful
    \* the loop is left only when every task has succeeded
    <3>1. InLoop /\ pending' = pending /\ blocked' = {} /\ blocked = {}
      <4>1. PICK B \in SUBSET pending :
              /\ BlocksInOnePass(B)
              /\ blocked' = blocked \cup B
              /\ pending' = pending \ (blocked \cup B)
        BY DEF Scan
      <4>2. InLoop /\ blocked = {}
        BY <1>1 DEF LoopState, InLoop
      <4>3. B = {}
        BY <4>1, <4>2, NothingBlocks
      <4> QED
        BY <4>1, <4>2, <4>3
    <3>2. {t \in pending : plan.deps[t] \subseteq successful} = {}
      BY <1>4, <3>1 DEF Scan
    <3>3. pending = {}
      BY <3>1, <3>2, SomeReady
    <3>4. result' = [Plain(TRUE, Cardinality(successful), "none")
                       EXCEPT !.outputs = outputs]
      BY <1>4, <3>1, <3>2, <3>3 DEF Scan, Return
    <3>5. result'.success = TRUE
      BY <3>4 DEF Plain, NoResult
    <3> QED
      BY <3>1, <3>3, <3>5 DEF LoopState
  <2>3. \A t \in plan.tasks : TaskStatus[t] = "done"
    BY <2>2, StatusOf DEF Done, TypeOK, Plan
  <2>4. CallVerdict = "open" /\ CallVerdict' = "success"
    BY <1>1, <1>4, <2>2 DEF CallVerdict
  <2> QED
    BY <1>1, <1>2, <2>1, <2>3, <2>4 DEF Contract!Close
<1> QED
  BY <1>1, <1>3, <1>4

LEMMA StartRefines ==
  ASSUME IInv, NEW t \in Name, StartTask(t)
  PROVE  Contract!Start(t)
<1> USE DEF IInv
<1>1. /\ stage = "wave" /\ t \in queued /\ t \in Ready
      /\ running' = running \cup {t}
      /\ UNCHANGED <<stage, plan, successful, completed, settled>>
  BY DEF StartTask, locals, Ready
<1>2. /\ plan.deps[t] \subseteq successful /\ plan.deps[t] \subseteq Name
      /\ t \notin successful /\ t \notin DOMAIN settled
      /\ t \notin running /\ t \notin DOMAIN completed
  BY <1>1 DEF WaveState, LoopState, InLoop, TypeOK, Plan
<1>3. TaskStatus[t] = "waiting"
  BY <1>2, StatusOf DEF Done, Broken
<1>4. \A u \in plan.deps[t] : TaskStatus[u] = "done"
  BY <1>2, StatusOf DEF Done
<1>5. TaskStatus' = [TaskStatus EXCEPT ![t] = "active"]
  <2>1. \A u \in Name :
          TaskStatus'[u] = IF u = t THEN "active" ELSE TaskStatus[u]
    BY <1>1, <1>2 DEF TaskStatus, Succeeded, Failed
  <2>2. /\ DOMAIN TaskStatus' = Name
        /\ TaskStatus' = [u \in Name |-> TaskStatus'[u]]
    BY DEF TaskStatus
  <2> QED
    BY <2>1, <2>2, StatusFunction
<1>6. CallVerdict = "open" /\ CallVerdict' = "open"
  BY <1>1 DEF CallVerdict
<1> QED
  BY <1>1, <1>3, <1>4, <1>5, <1>6 DEF Contract!Start

LEMMA FinishRefines ==
  ASSUME IInv, NEW t \in Name, FinishTask(t)
  PROVE  Contract!Finish(t)
<1> USE DEF IInv
<1>1. /\ stage = "wave" /\ t \in running /\ t \in Ready
      /\ running' = running \ {t}
      /\ UNCHANGED <<stage, plan, successful, completed, result>>
  BY DEF FinishTask, locals, Ready
<1>2. PICK r \in WorkerResult :
        settled' = [u \in DOMAIN settled \cup {t} |->
                      IF u = t THEN r ELSE settled[u]]
  BY DEF FinishTask, DispatchOutcome
<1>3. /\ t \notin successful /\ t \notin DOMAIN settled
      /\ t \notin DOMAIN completed
  BY <1>1 DEF WaveState, LoopState, InLoop
<1>4. TaskStatus[t] = "active"
  BY <1>1, <1>3, StatusOf DEF Done, Broken
<1>5. r.success \in BOOLEAN
  BY DEF WorkerResult
<1> DEFINE s == IF r.success THEN "done" ELSE "failed"
<1>6. TaskStatus' = [TaskStatus EXCEPT ![t] = s]
  <2>0. /\ DOMAIN settled' = DOMAIN settled \cup {t}
        /\ settled'[t] = r
        /\ \A u \in DOMAIN settled : settled'[u] = settled[u]
    BY <1>2, <1>3
  <2>1. TaskStatus'[t] = s
    BY <1>1, <1>3, <1>5, <2>0 DEF TaskStatus, Succeeded, Failed
  <2>2. ASSUME NEW u \in Name, u # t
        PROVE  TaskStatus'[u] = TaskStatus[u]
    BY <1>1, <2>0, <2>2 DEF TaskStatus, Succeeded, Failed
  <2>3. /\ DOMAIN TaskStatus' = Name
        /\ TaskStatus' = [u \in Name |-> TaskStatus'[u]]
    BY DEF TaskStatus
  <2> QED
    BY <2>1, <2>2, <2>3, StatusFunction
<1>7. UNCHANGED CallVerdict
  BY <1>1 DEF CallVerdict
<1>8. s \in {"done", "failed"}
  OBVIOUS
<1> HIDE DEF s
<1> QED
  BY <1>1, <1>4, <1>6, <1>7, <1>8 DEF Contract!Finish

LEMMA CollectRefines ==
  ASSUME IInv, IInv', CollectWave
  PROVE  \/ Contract!Close("failure")
         \/ UNCHANGED <<plan, TaskStatus, CallVerdict>>
<1> USE DEF IInv
<1> DEFINE W == DOMAIN settled
<1>1. /\ stage = "wave" /\ queued = {} /\ running = {}
      /\ completed' = [t \in DOMAIN completed \cup W |->
                          IF t \in W THEN settled[t] ELSE completed[t]]
      /\ successful' = successful \cup Succeeded(settled)
      /\ settled' = Nothing
      /\ UNCHANGED <<plan, running>>
  BY DEF CollectWave
<1>2. /\ W \cap (successful \cup DOMAIN completed) = {}
      /\ DOMAIN completed \subseteq successful /\ W \subseteq plan.tasks
      /\ Failed(completed) = {}
  BY <1>1 DEF WaveState, LoopState, InLoop, Ready
<1>3. /\ DOMAIN completed' = DOMAIN completed \cup W /\ DOMAIN settled' = {}
      /\ \A t \in W : completed'[t] = settled[t]
      /\ \A t \in DOMAIN completed : completed'[t] = completed[t]
  BY <1>1, <1>2, NothingPartial
<1>4. Succeeded(settled') = {} /\ Failed(settled') = {}
  BY <1>3 DEF Succeeded, Failed
<1>5. Failed(completed') = Failed(settled)
  BY <1>2, <1>3 DEF Succeeded, Failed
<1>6. UNCHANGED TaskStatus
  BY <1>1, <1>2, <1>4, <1>5 DEF TaskStatus
<1>7. CASE Failed(settled) = {}
  <2>1. stage' = "scan"
    BY <1>7 DEF CollectWave, WaveFailed
  <2> QED
    BY <1>1, <1>6, <2>1 DEF CallVerdict
<1>8. CASE Failed(settled) # {}
  <2>1. /\ stage' = "returned"
        /\ result'.success = FALSE
    BY <1>8 DEF CollectWave, WaveFailed, Return, Plain, NoResult
  <2>2. CallVerdict = "open" /\ CallVerdict' = "failure"
    BY <1>1, <2>1 DEF CallVerdict
  <2>3. \A t \in Name : TaskStatus[t] # "active"
    BY <1>1, StatusOf
  <2>4. PICK t \in Failed(settled) : t \in plan.tasks /\ t \in Name
    BY <1>2, <1>8 DEF Failed, TypeOK, Plan
  <2>5. TaskStatus[t] = "failed"
    BY <1>2, <2>4 DEF TaskStatus, Succeeded, Failed
  <2> QED
    BY <1>1, <1>6, <2>2, <2>3, <2>4, <2>5 DEF Contract!Close
<1> QED
  BY <1>7, <1>8

LEMMA StepRefines ==
  ASSUME IInv, IInv', [Next]_graphVars
  PROVE  [Contract!Next]_Contract!vars
<1> USE DEF Contract!vars
<1>1. CASE Call
  BY <1>1, CallRefines DEF Contract!Next
<1>2. CASE ReturnEmpty \/ RejectCall
  BY <1>2, EarlyReturnRefines DEF Contract!Next
<1>3. CASE Accept
  BY <1>3, AcceptRefines DEF Contract!Next
<1>4. CASE Scan
  BY <1>4, ScanRefines DEF Contract!Next
<1>5. CASE \E t \in Name : StartTask(t)
  BY <1>5, StartRefines DEF Contract!Next
<1>6. CASE \E t \in Name : FinishTask(t)
  BY <1>6, FinishRefines DEF Contract!Next
<1>7. CASE CollectWave
  BY <1>7, CollectRefines DEF Contract!Next
<1>8. CASE UNCHANGED graphVars
  BY <1>8 DEF graphVars, locals, pool, TaskStatus, CallVerdict, Succeeded,
              Failed
<1> QED
  BY <1>1, <1>2, <1>3, <1>4, <1>5, <1>6, <1>7, <1>8 DEF Next, GraphStep

(***************************************************************************)
(* Every behaviour of the graph executor, seen through TaskStatus and      *)
(* CallVerdict, is a behaviour of the abstract plan execution in which no  *)
(* task is repeated.                                                       *)
(***************************************************************************)
THEOREM Refinement == Spec => ImplementsContract
<1>1. IInv /\ IInv' /\ [Next]_graphVars => [Contract!Next]_Contract!vars
  BY StepRefines
<1> QED
  BY InitRefines, <1>1, Invariance, PTL
     DEF Spec, ImplementsContract, Contract!Spec
=============================================================================
