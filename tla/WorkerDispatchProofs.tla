------------------------- MODULE WorkerDispatchProofs -------------------------
(***************************************************************************)
(* Proofs about WorkerDispatch, for any number of threads that dispatch    *)
(* any number of tasks, every registry, every strategy and every use of    *)
(* enable() and disable() meanwhile.                                       *)
(***************************************************************************)
EXTENDS WorkerDispatch, FiniteSetTheorems, SequenceTheorems, TLAPS

\* A thread picks from a list that has a worker in it.
Pickable == \A th \in Thread : pc[th] = "picking" => candidates[th] # << >>

\* Between its two statements disable() or enable() has written the flag.
FlagWritten ==
  control.op # "none" => enabled[control.worker] = (control.op = "enable")

\* w is still ahead of the loop of the thread, or has been kept by it.
InList(seq, w) == \E i \in 1 .. Len(seq) : seq[i] = w
Considered(th, w) == InList(listed[th], w) \/ InList(candidates[th], w)

\* What is steady has been usable ever since, so it is now, and it has not
\* been dropped from the list of candidates.
Watched(th) ==
  /\ pc[th] # "returned" =>
       \A w \in steady[th] : Usable(w) /\ w \in fits[th]
  /\ pc[th] \in {"listing", "screening"} =>
       \A w \in steady[th] : Considered(th, w)
  /\ pc[th] = "returned" =>
       /\ outcome[th] = "no_worker" => steady[th] = {}
       /\ outcome[th] = "rejected" => chosen[th] \notin steady[th]

AllWatched == \A th \in Thread : Watched(th)

IInv ==
  /\ TypeOK
  /\ Pickable
  /\ LoadExact
  /\ HistoryMatchesMetrics
  /\ FlagWritten
  /\ IdleWhenQuiet
  /\ AllWatched

-----------------------------------------------------------------------------
LEMMA FirstWorker == Order[1] \in Worker
BY OrderAssumption, EmptySeq, ElementOfSeq

LEMMA InitInvariant == Init => IInv
<1> SUFFICES ASSUME Init PROVE IInv
  OBVIOUS
<1> USE DEF Init
<1>1. TypeOK
  BY FirstWorker, DispatchAssumption, EmptySeq
     DEF TypeOK, Status, Place, Control
<1>2. LoadExact /\ HistoryMatchesMetrics
  <2>1. \A w \in Worker :
          /\ At(w, Handling) = {}
          /\ Unrecorded(w, "success") = {}
          /\ Unrecorded(w, "failure") = {}
    BY DEF At, Unrecorded, Handling, Finished
  <2>2. Cardinality({}) = 0
    BY FS_EmptySet
  <2>3. \A w \in Worker : /\ started[w] = 0 /\ completed[w] = 0 /\ failed[w] = 0
                         /\ records[w]["success"] = 0
                         /\ records[w]["failure"] = 0
    OBVIOUS
  <2> HIDE DEF Init
  <2>4. LoadExact
    BY <2>1, <2>2, <2>3 DEF LoadExact, Load
  <2>5. HistoryMatchesMetrics
    BY <2>1, <2>2, <2>3 DEF HistoryMatchesMetrics
  <2> QED
    BY <2>4, <2>5
<1>3. Pickable /\ FlagWritten /\ IdleWhenQuiet
  BY DEF Pickable, FlagWritten, IdleWhenQuiet
<1>4. AllWatched
  BY DEF AllWatched, Watched
<1> QED
  BY <1>1, <1>2, <1>3, <1>4 DEF IInv

\* The place the round robin index points to is one of the list.
LEMMA IndexInRange ==
  ASSUME NEW n \in Nat, NEW k \in Nat \ {0}
  PROVE  1 + (n % k) \in 1 .. k
OBVIOUS

LEMMA LoadType ==
  ASSUME TypeOK, NEW w \in Worker
  PROVE  Load(w) \in Int
BY DEF TypeOK, Load

LEMMA VisitType ==
  ASSUME TypeOK, NEW th \in Thread, NEW keep \in BOOLEAN, Visit(th, keep)
  PROVE  /\ listed' \in [Thread -> Seq(Worker)]
         /\ candidates' \in [Thread -> Seq(Worker)]
<1>1. listed[th] \in Seq(Worker) /\ candidates[th] \in Seq(Worker)
  BY DEF TypeOK
<1>2. Head(listed[th]) \in Worker /\ Tail(listed[th]) \in Seq(Worker)
  BY <1>1, HeadTailProperties DEF Visit
<1>3. Append(candidates[th], Head(listed[th])) \in Seq(Worker)
  BY <1>1, <1>2, AppendProperties
<1> QED
  BY <1>2, <1>3 DEF Visit, TypeOK

LEMMA BeginType ==
  ASSUME TypeOK, Pickable, NEW th \in Thread, Begin(th)
  PROVE  TypeOK' /\ Pickable'
<1>1. Pickable'
  BY DEF Begin, Go, Pickable, TypeOK
<1>2. /\ count' \in [Thread -> Nat]
      /\ \A u \in Thread : count'[u] <= MaxDispatches[u]
  <2>1. /\ count \in [Thread -> Nat]
        /\ \A u \in Thread : count[u] <= MaxDispatches[u]
        /\ MaxDispatches[th] \in Nat
    BY DispatchAssumption DEF TypeOK
  <2>2. count' = [count EXCEPT ![th] = @ + 1] /\ count[th] < MaxDispatches[th]
    BY DEF Begin
  <2>3. count' \in [Thread -> Nat]
    BY <2>1, <2>2
  <2>4. ASSUME NEW u \in Thread
        PROVE  count'[u] <= MaxDispatches[u]
    BY <2>1, <2>2
  <2> QED
    BY <2>3, <2>4
<1> USE DEF Begin, Go
<1>3. /\ fits' \in [Thread -> SUBSET Worker]
      /\ steady' \in [Thread -> SUBSET Worker]
  <2>1. PICK F \in Fits :
          /\ fits' = [fits EXCEPT ![th] = F]
          /\ steady' = [steady EXCEPT ![th] = {w \in F : Usable(w)}]
    OBVIOUS
  <2>2. F \in SUBSET Worker /\ {w \in F : Usable(w)} \in SUBSET Worker
    BY FitsAssumption
  <2> QED
    BY <2>1, <2>2 DEF TypeOK
<1>4. /\ listed' \in [Thread -> Seq(Worker)]
      /\ candidates' \in [Thread -> Seq(Worker)]
      /\ weights' \in [Thread -> Seq(Int)]
  BY OrderAssumption, EmptySeq DEF TypeOK
<1>5. TypeOK'
  BY <1>2, <1>3, <1>4 DEF TypeOK, Place, workerVars, metrics, scheduler
<1> QED
  BY <1>1, <1>5

\* The steps that only move a thread on.
LEMMA MoveType ==
  ASSUME TypeOK, Pickable, NEW th \in Thread,
         AdvanceIndex(th) \/ StartWeighing(th) \/ Check(th) \/ Enter(th)
           \/ Handle(th) \/ Leave(th)
  PROVE  TypeOK' /\ Pickable'
<1> USE DEF TypeOK, Pickable, Place, Go, workerVars, metrics, scheduler,
            selection
<1>1. CASE AdvanceIndex(th)
  BY <1>1 DEF AdvanceIndex
<1>2. CASE StartWeighing(th)
  <2>1. strategy \in {"least_busy", "priority"}
    BY <1>2, StrategyAssumption DEF StartWeighing
  <2> QED
    BY <1>2, <2>1 DEF StartWeighing
<1>3. CASE Check(th)
  BY <1>3 DEF Check, Return
<1>4. CASE Enter(th)
  BY <1>4 DEF Enter
<1>5. CASE Handle(th)
  BY <1>5 DEF Handle
<1>6. CASE Leave(th)
  BY <1>6 DEF Leave
<1> QED
  BY <1>1, <1>2, <1>3, <1>4, <1>5, <1>6

LEMMA ListType ==
  ASSUME TypeOK, Pickable, NEW th \in Thread, ListEnabled(th) \/ Screen(th)
  PROVE  TypeOK' /\ Pickable'
<1>1. ASSUME NEW keep \in BOOLEAN, Visit(th, keep),
             UNCHANGED <<workerVars, metrics, scheduler, records, chosen,
                         success, count, control, steady>>,
             pc[th] \in {"listing", "screening"}
      PROVE  TypeOK' /\ Pickable'
  <2>1. /\ listed' \in [Thread -> Seq(Worker)]
        /\ candidates' \in [Thread -> Seq(Worker)]
    BY <1>1, VisitType
  <2>2. TypeOK'
    BY <1>1, <2>1 DEF TypeOK, Visit, workerVars, metrics, scheduler
  <2>3. \A u \in Thread : pc[u] = "picking" => candidates'[u] = candidates[u]
    BY <1>1 DEF Visit, TypeOK
  <2> QED
    BY <1>1, <2>2, <2>3 DEF Pickable, Visit
<1>2. CASE ListEnabled(th)
  <2>1. CASE Visit(th, enabled[Head(listed[th])])
    <3>1. enabled[Head(listed[th])] \in BOOLEAN
      BY <2>1, HeadTailProperties DEF TypeOK, Visit
    <3> QED
      BY <1>1, <1>2, <2>1, <3>1 DEF ListEnabled
  <2>2. CASE Listed(th)
    BY <1>2, <2>2, EmptySeq
       DEF ListEnabled, Listed, TypeOK, Pickable, Place, Go, workerVars,
           metrics, scheduler
  <2> QED
    BY <1>2, <2>1, <2>2 DEF ListEnabled
<1>3. CASE Screen(th)
  <2>1. CASE Visit(th, CanHandle(th, Head(listed[th])))
    <3>1. CanHandle(th, Head(listed[th])) \in BOOLEAN
      BY <2>1, HeadTailProperties DEF TypeOK, Visit, CanHandle, Usable
    <3> QED
      BY <1>1, <1>3, <2>1, <3>1 DEF Screen
  <2>2. CASE Screened(th)
    BY <1>3, <2>2
       DEF Screen, Screened, TypeOK, Pickable, Place, Go, Return, workerVars,
           metrics, scheduler, selection
  <2> QED
    BY <1>3, <2>1, <2>2 DEF Screen
<1> QED
  BY <1>2, <1>3

LEMMA PickType ==
  ASSUME TypeOK, Pickable, NEW th \in Thread,
         PickRoundRobin(th) \/ Weigh(th) \/ PickLeastBusy(th)
  PROVE  TypeOK' /\ Pickable'
<1> USE DEF workerVars, metrics, scheduler, selection, Go
<1>1. ASSUME NEW i \in 1 .. Len(candidates[th])
      PROVE  candidates[th][i] \in Worker
  BY <1>1, ElementOfSeq DEF TypeOK
<1>2. CASE PickRoundRobin(th)
  <2>1. candidates[th] # << >> /\ candidates[th] \in Seq(Worker)
    BY <1>2 DEF PickRoundRobin, Pickable, TypeOK
  <2>2. Len(candidates[th]) \in Nat \ {0} /\ index \in Nat
    BY <2>1, EmptySeq DEF TypeOK
  <2>3. candidates[th][1 + (index % Len(candidates[th]))] \in Worker
    BY <1>1, <2>2, IndexInRange
  <2> QED
    BY <1>2, <2>3 DEF PickRoundRobin, TypeOK, Pickable, Place
<1>3. CASE Weigh(th)
  <2>1. /\ weights[th] \in Seq(Int)
        /\ candidates[th] \in Seq(Worker)
        /\ Len(weights[th]) \in Nat
        /\ Len(candidates[th]) \in Nat
    BY LenProperties DEF TypeOK
  <2>2. Len(weights[th]) + 1 \in 1 .. Len(candidates[th])
    BY <1>3, <2>1 DEF Weigh
  <2>3. Load(candidates[th][Len(weights[th]) + 1]) \in Int
    BY <1>1, <2>2, LoadType
  <2>4. Append(weights[th], Load(candidates[th][Len(weights[th]) + 1]))
          \in Seq(Int)
    BY <2>1, <2>3, AppendProperties
  <2> QED
    BY <1>3, <2>4 DEF Weigh, TypeOK, Pickable
<1>4. CASE PickLeastBusy(th)
  <2>1. PICK i \in 1 .. Len(weights[th]) :
          chosen' = [chosen EXCEPT ![th] = candidates[th][i]]
    BY <1>4 DEF PickLeastBusy
  <2>2. candidates[th][i] \in Worker
    BY <1>1, <1>4 DEF PickLeastBusy
  <2> QED
    BY <1>4, <2>1, <2>2 DEF PickLeastBusy, TypeOK, Pickable, Place
<1> QED
  BY <1>2, <1>3, <1>4

\* The statements of Worker.execute that write a flag or a counter.
LEMMA WriteType ==
  ASSUME TypeOK, Pickable, NEW th \in Thread,
         MarkRunning(th) \/ CountStarted(th) \/ CountFinished(th)
           \/ MarkFinished(th) \/ Rest(th) \/ Record(th)
  PROVE  TypeOK' /\ Pickable'
<1> USE DEF TypeOK, Pickable, Go, workerVars, metrics, scheduler, selection
<1>1. ASSUME NEW from, NEW value \in Status, NEW to \in Place \ {"picking"},
             WriteStatus(th, from, value, to)
      PROVE  TypeOK' /\ Pickable'
  <2>1. steady' \in [Thread -> SUBSET Worker]
    BY <1>1 DEF WriteStatus, Watch
  <2> QED
    BY <1>1, <2>1 DEF WriteStatus, SetStatus
<1>2. CASE MarkRunning(th)
  BY <1>1, <1>2 DEF MarkRunning, Status, Place
<1>3. CASE CountStarted(th)
  <2>1. started' \in [Worker -> Nat]
    BY <1>3 DEF CountStarted
  <2> QED
    BY <1>3, <2>1 DEF CountStarted, Place
<1>4. CASE CountFinished(th)
  <2>1. completed' \in [Worker -> Nat] /\ failed' \in [Worker -> Nat]
    <3>1. \/ /\ completed' = [completed EXCEPT ![chosen[th]] = @ + 1]
             /\ failed' = failed
          \/ /\ failed' = [failed EXCEPT ![chosen[th]] = @ + 1]
             /\ completed' = completed
      BY <1>4 DEF CountFinished, Tally
    <3>2. /\ completed \in [Worker -> Nat] /\ failed \in [Worker -> Nat]
          /\ chosen[th] \in Worker
      OBVIOUS
    <3> HIDE DEF TypeOK, Pickable
    <3> QED
      BY <3>1, <3>2
  <2> QED
    BY <1>4, <2>1 DEF CountFinished, Place
<1>5. CASE MarkFinished(th)
  BY <1>1, <1>5 DEF MarkFinished, FinalStatus, Status, Place
<1>6. CASE Rest(th)
  BY <1>1, <1>6 DEF Rest, Status, Place
<1>7. CASE Record(th)
  <2>1. Verdict(success[th]) \in {"success", "failure"}
    BY DEF Verdict
  <2>2. records' \in [Worker -> [{"success", "failure"} -> Nat]]
    <3> DEFINE r == records[chosen[th]]
               v == Verdict(success[th])
    <3>1. [r EXCEPT ![v] = @ + 1] \in [{"success", "failure"} -> Nat]
      BY <2>1
    <3>2. records' = [records EXCEPT ![chosen[th]] = [r EXCEPT ![v] = @ + 1]]
      BY <1>7 DEF Record
    <3> QED
      BY <3>1, <3>2
  <2>3. outcome' \in [Thread -> {"none", "no_worker", "rejected", "result"}]
    BY <1>7 DEF Record, Return
  <2> QED
    BY <1>7, <2>2, <2>3 DEF Record, Return, Place
<1> QED
  BY <1>2, <1>3, <1>4, <1>5, <1>6, <1>7

LEMMA ControlType ==
  ASSUME TypeOK, Pickable,
         \/ \E w \in Switched, op \in {"disable", "enable"} :
              StartControl(op, w)
         \/ EndControl
         \/ \E s \in Strategies : SetStrategy(s)
  PROVE  TypeOK' /\ Pickable'
<1> USE DEF TypeOK, Pickable, workerVars, metrics, scheduler, selection
<1>1. ASSUME NEW w \in Switched, NEW op \in {"disable", "enable"},
             StartControl(op, w)
      PROVE  TypeOK' /\ Pickable'
  BY <1>1, SwitchedAssumption DEF StartControl, Watch, Control
<1>2. CASE EndControl
  BY <1>2 DEF EndControl, Watch, SetStatus, Control, Status
<1>3. ASSUME NEW s \in Strategies, SetStrategy(s)
      PROVE  TypeOK' /\ Pickable'
  BY <1>3 DEF SetStrategy
<1> QED
  BY <1>1, <1>2, <1>3

LEMMA TypeStep == TypeOK /\ Pickable /\ [Next]_vars => TypeOK' /\ Pickable'
<1> SUFFICES ASSUME TypeOK, Pickable, [Next]_vars
             PROVE  TypeOK' /\ Pickable'
  OBVIOUS
<1>1. ASSUME NEW th \in Thread, Begin(th) \/ DispatchStep(th)
      PROVE  TypeOK' /\ Pickable'
  BY <1>1, BeginType, MoveType, ListType, PickType, WriteType
     DEF DispatchStep
<1>2. CASE UNCHANGED vars
  BY <1>2 DEF TypeOK, Pickable, vars, workerVars, metrics, scheduler, selection
<1> QED
  BY <1>1, <1>2, ControlType DEF Next

(***************************************************************************)
(* Type correctness: whatever the threads and the control thread do, the   *)
(* flags, counters and lists keep their types; select_worker never takes   *)
(* the remainder by the length of an empty list.                           *)
(***************************************************************************)
THEOREM TypeCorrect == Spec => []TypeOK
<1>1. Init => TypeOK /\ Pickable
  BY InitInvariant DEF IInv
<1> QED
  BY <1>1, TypeStep, PTL DEF Spec

-----------------------------------------------------------------------------
(* The counters, and the threads they count.                               *)

\* Sets of threads that differ in one thread at most.
LEMMA CountChange ==
  ASSUME NEW S \in SUBSET Thread, NEW T \in SUBSET Thread, NEW th,
         S \ {th} = T \ {th}
  PROVE  /\ Cardinality(S) \in Nat
         /\ Cardinality(T) =
              Cardinality(S) - (IF th \in S THEN 1 ELSE 0)
                             + (IF th \in T THEN 1 ELSE 0)
<1>1. IsFiniteSet(S) /\ IsFiniteSet(T)
  BY ThreadAssumption, FS_Subset
<1>2. /\ Cardinality(S) \in Nat
      /\ Cardinality(T) \in Nat
      /\ Cardinality(S \ {th}) =
           IF th \in S THEN Cardinality(S) - 1 ELSE Cardinality(S)
      /\ Cardinality(T \ {th}) =
           IF th \in T THEN Cardinality(T) - 1 ELSE Cardinality(T)
  BY <1>1, FS_CardinalityType, FS_RemoveElement
<1> QED
  BY <1>2

\* No counter, no record and no thread that is counted changes.
SameTally ==
  /\ UNCHANGED <<started, completed, failed, records>>
  /\ \A u \in Thread :
       /\ pc'[u] \in Handling <=> pc[u] \in Handling
       /\ pc'[u] \in Finished <=> pc[u] \in Finished
       /\ pc[u] \in Handling \cup Finished => chosen'[u] = chosen[u]
       /\ pc[u] \in Finished => success'[u] = success[u]

Tallied == LoadExact /\ HistoryMatchesMetrics

LEMMA TallyFrame ==
  ASSUME Tallied, SameTally
  PROVE  Tallied'
<1>1. \A w \in Worker : At(w, Handling)' = At(w, Handling)
  BY DEF At, SameTally
<1>2. ASSUME NEW w \in Worker, NEW v
      PROVE  Unrecorded(w, v)' = Unrecorded(w, v)
  BY DEF At, SameTally, Unrecorded
<1>3. LoadExact'
  BY <1>1 DEF Tallied, LoadExact, Load, SameTally
<1>4. HistoryMatchesMetrics'
  BY <1>2 DEF Tallied, HistoryMatchesMetrics, SameTally
<1> QED
  BY <1>3, <1>4 DEF Tallied

LEMMA SameTallySteps ==
  ASSUME TypeOK, NEW th \in Thread,
         \/ Begin(th) \/ ListEnabled(th) \/ Screen(th) \/ PickRoundRobin(th)
         \/ AdvanceIndex(th) \/ StartWeighing(th) \/ Weigh(th)
         \/ PickLeastBusy(th) \/ Check(th) \/ MarkRunning(th) \/ Handle(th)
         \/ MarkFinished(th) \/ Leave(th) \/ Rest(th)
  PROVE  SameTally
<1> USE DEF SameTally, Handling, Finished, Go, Return, metrics, workerVars,
            scheduler, selection
<1>1. /\ pc \in [Thread -> Place]
      /\ strategy \in {"round_robin", "least_busy", "priority"}
  BY StrategyAssumption DEF TypeOK
<1>2. chosen \in [Thread -> Worker] /\ success \in [Thread -> BOOLEAN]
  BY DEF TypeOK
<1>3. CASE Begin(th)
  BY <1>1, <1>3 DEF Begin
<1>4. CASE ListEnabled(th)
  BY <1>1, <1>4 DEF ListEnabled, Visit, Listed
<1>5. CASE Screen(th)
  BY <1>1, <1>5 DEF Screen, Visit, Screened
<1>6. CASE PickRoundRobin(th)
  BY <1>1, <1>2, <1>6 DEF PickRoundRobin
<1>7. CASE AdvanceIndex(th)
  BY <1>1, <1>7 DEF AdvanceIndex
<1>8. CASE StartWeighing(th)
  BY <1>1, <1>8 DEF StartWeighing
<1>9. CASE Weigh(th)
  BY <1>9 DEF Weigh
<1>10. CASE PickLeastBusy(th)
  BY <1>1, <1>2, <1>10 DEF PickLeastBusy
<1>11. CASE Check(th)
  BY <1>1, <1>11 DEF Check
<1>12. CASE MarkRunning(th)
  BY <1>1, <1>12 DEF MarkRunning, WriteStatus
<1>13. CASE Handle(th)
  BY <1>1, <1>2, <1>13 DEF Handle
<1>14. CASE MarkFinished(th)
  BY <1>1, <1>14 DEF MarkFinished, WriteStatus
<1>15. CASE Leave(th)
  BY <1>1, <1>15 DEF Leave
<1>16. CASE Rest(th)
  BY <1>1, <1>16 DEF Rest, WriteStatus
<1> QED
  BY <1>3, <1>4, <1>5, <1>6, <1>7, <1>8, <1>9, <1>10, <1>11, <1>12, <1>13,
     <1>14, <1>15, <1>16

\* What a step of th alone does to the sets that are counted.
LEMMA CountedChange ==
  ASSUME TypeOK, NEW th \in Thread, UNCHANGED chosen,
         \A u \in Thread \ {th} : pc'[u] = pc[u] /\ success'[u] = success[u],
         NEW w \in Worker
  PROVE  /\ Cardinality(At(w, Handling)) \in Nat
         /\ Cardinality(At(w, Handling)') =
              Cardinality(At(w, Handling))
                - (IF th \in At(w, Handling) THEN 1 ELSE 0)
                + (IF th \in At(w, Handling)' THEN 1 ELSE 0)
         /\ \A v \in {"success", "failure"} :
              /\ Cardinality(Unrecorded(w, v)) \in Nat
              /\ Cardinality(Unrecorded(w, v)') =
                   Cardinality(Unrecorded(w, v))
                     - (IF th \in Unrecorded(w, v) THEN 1 ELSE 0)
                     + (IF th \in Unrecorded(w, v)' THEN 1 ELSE 0)
<1>1. /\ At(w, Handling) \in SUBSET Thread
      /\ At(w, Handling)' \in SUBSET Thread
      /\ At(w, Handling) \ {th} = At(w, Handling)' \ {th}
  BY DEF At
<1>2. ASSUME NEW v \in {"success", "failure"}
      PROVE  /\ Unrecorded(w, v) \in SUBSET Thread
             /\ Unrecorded(w, v)' \in SUBSET Thread
             /\ Unrecorded(w, v) \ {th} = Unrecorded(w, v)' \ {th}
  BY DEF At, Unrecorded
<1> QED
  BY <1>1, <1>2, CountChange

LEMMA StartedTally ==
  ASSUME TypeOK, Tallied, NEW th \in Thread, CountStarted(th)
  PROVE  Tallied'
<1>1. /\ chosen' = chosen /\ success' = success /\ pc[th] = "counting"
      /\ pc' = [pc EXCEPT ![th] = "handling"] /\ pc \in [Thread -> Place]
      /\ started' = [started EXCEPT ![chosen[th]] = @ + 1]
      /\ UNCHANGED <<completed, failed, records>>
  BY DEF CountStarted, Go, TypeOK
<1>2. /\ started \in [Worker -> Nat] /\ completed \in [Worker -> Nat]
      /\ failed \in [Worker -> Nat]
  BY DEF TypeOK
<1>3. ASSUME NEW w \in Worker
      PROVE  Load(w)' = Cardinality(At(w, Handling)')
  <2>1. Cardinality(At(w, Handling)') =
          Cardinality(At(w, Handling)) + (IF chosen[th] = w THEN 1 ELSE 0)
    <3>1. th \notin At(w, Handling)
      BY <1>1 DEF At, Handling
    <3>2. th \in At(w, Handling)' <=> chosen[th] = w
      BY <1>1 DEF At, Handling
    <3> QED
      BY <1>1, <3>1, <3>2, CountedChange
  <2>2. Load(w)' = Load(w) + (IF chosen[th] = w THEN 1 ELSE 0)
    BY <1>1, <1>2 DEF Load
  <2> QED
    BY <2>1, <2>2 DEF Tallied, LoadExact
<1>4. ASSUME NEW w \in Worker, NEW v
      PROVE  Unrecorded(w, v)' = Unrecorded(w, v)
  BY <1>1 DEF Unrecorded, At, Finished
<1>5. LoadExact'
  BY <1>3 DEF LoadExact
<1>6. HistoryMatchesMetrics'
  BY <1>1, <1>4 DEF Tallied, HistoryMatchesMetrics
<1> QED
  BY <1>5, <1>6 DEF Tallied

LEMMA FinishedTally ==
  ASSUME TypeOK, Tallied, NEW th \in Thread, CountFinished(th)
  PROVE  Tallied'
<1> DEFINE v == Verdict(success[th])
<1>1. /\ chosen' = chosen /\ success' = success /\ pc[th] = "tallying"
      /\ pc' = [pc EXCEPT ![th] = "settling"] /\ pc \in [Thread -> Place]
      /\ UNCHANGED <<started, records>>
  BY DEF CountFinished, Go, TypeOK
<1>2. \/ /\ v = "success" /\ failed' = failed
         /\ completed' = [completed EXCEPT ![chosen[th]] = @ + 1]
      \/ /\ v = "failure" /\ completed' = completed
         /\ failed' = [failed EXCEPT ![chosen[th]] = @ + 1]
  BY DEF CountFinished, Tally, Verdict
<1>3. /\ started \in [Worker -> Nat] /\ completed \in [Worker -> Nat]
      /\ failed \in [Worker -> Nat] /\ chosen[th] \in Worker
  BY DEF TypeOK
<1>4. \A w \in Worker :
        /\ records[w]["success"] \in Nat
        /\ records[w]["failure"] \in Nat
  BY DEF TypeOK
<1> HIDE DEF v
<1>5. ASSUME NEW w \in Worker
      PROVE  Load(w)' = Cardinality(At(w, Handling)')
  <2>1. Cardinality(At(w, Handling)') =
          Cardinality(At(w, Handling)) - (IF chosen[th] = w THEN 1 ELSE 0)
    <3>1. th \in At(w, Handling) <=> chosen[th] = w
      BY <1>1 DEF At, Handling
    <3>2. th \notin At(w, Handling)'
      BY <1>1 DEF At, Handling
    <3>3. Cardinality(At(w, Handling)) \in Nat
      BY <1>1, CountedChange
    <3> QED
      BY <1>1, <3>1, <3>2, <3>3, CountedChange
  <2>2. Load(w)' = Load(w) - (IF chosen[th] = w THEN 1 ELSE 0)
    BY <1>1, <1>2, <1>3 DEF Load
  <2> QED
    BY <2>1, <2>2 DEF Tallied, LoadExact
<1>6. ASSUME NEW w \in Worker, NEW x \in {"success", "failure"}
      PROVE  /\ Cardinality(Unrecorded(w, x)) \in Nat
             /\ Cardinality(Unrecorded(w, x)') =
                  Cardinality(Unrecorded(w, x))
                    + (IF chosen[th] = w /\ x = v THEN 1 ELSE 0)
  <2>1. th \notin Unrecorded(w, x)
    BY <1>1 DEF Unrecorded, At, Finished
  <2>2. th \in Unrecorded(w, x)' <=> chosen[th] = w /\ x = v
    BY <1>1 DEF Unrecorded, At, Finished, v
  <2> QED
    BY <1>1, <2>1, <2>2, CountedChange
<1>7. ASSUME NEW w \in Worker
      PROVE  /\ completed'[w] = records[w]["success"]
                                  + Cardinality(Unrecorded(w, "success")')
             /\ failed'[w] <= records[w]["failure"]
                                  + Cardinality(Unrecorded(w, "failure")')
  <2>1. /\ completed[w] = records[w]["success"]
                            + Cardinality(Unrecorded(w, "success"))
        /\ failed[w] <= records[w]["failure"]
                            + Cardinality(Unrecorded(w, "failure"))
    BY DEF Tallied, HistoryMatchesMetrics
  <2> QED
    BY <1>2, <1>3, <1>4, <1>6, <2>1
<1>8. LoadExact' /\ HistoryMatchesMetrics'
  BY <1>1, <1>5, <1>7 DEF LoadExact, HistoryMatchesMetrics
<1> QED
  BY <1>8 DEF Tallied

\* A task that is refused on entry is recorded as a failure uncounted.
LEMMA EnterTally ==
  ASSUME TypeOK, Tallied, NEW th \in Thread, Enter(th)
  PROVE  Tallied'
<1>1. /\ chosen' = chosen /\ pc[th] = "entering" /\ pc \in [Thread -> Place]
      /\ UNCHANGED <<started, completed, failed, records>>
      /\ \A u \in Thread \ {th} : pc'[u] = pc[u] /\ success'[u] = success[u]
      /\ \/ pc' = [pc EXCEPT ![th] = "marking"]
         \/ /\ pc' = [pc EXCEPT ![th] = "recording"]
            /\ ~ success'[th]
  BY DEF Enter, Go, TypeOK, metrics
<1>2. \A w \in Worker :
        /\ failed[w] \in Nat
        /\ records[w]["success"] \in Nat
        /\ records[w]["failure"] \in Nat
  BY DEF TypeOK
<1>3. ASSUME NEW w \in Worker
      PROVE  At(w, Handling)' = At(w, Handling)
  BY <1>1 DEF At, Handling
<1>4. ASSUME NEW w \in Worker
      PROVE  Unrecorded(w, "success")' = Unrecorded(w, "success")
  BY <1>1 DEF Unrecorded, At, Finished, Verdict
<1>5. ASSUME NEW w \in Worker
      PROVE  /\ Cardinality(Unrecorded(w, "failure")) \in Nat
             /\ Cardinality(Unrecorded(w, "failure")') \in
                  {Cardinality(Unrecorded(w, "failure")),
                   Cardinality(Unrecorded(w, "failure")) + 1}
  <2>1. th \notin Unrecorded(w, "failure")
    BY <1>1 DEF Unrecorded, At, Finished
  <2> QED
    BY <1>1, <2>1, CountedChange
<1>6. LoadExact'
  BY <1>1, <1>3 DEF Tallied, LoadExact, Load
<1>7. ASSUME NEW w \in Worker
      PROVE  /\ completed[w] = records[w]["success"]
                                 + Cardinality(Unrecorded(w, "success")')
             /\ failed[w] <= records[w]["failure"]
                               + Cardinality(Unrecorded(w, "failure")')
  <2>1. /\ completed[w] = records[w]["success"]
                            + Cardinality(Unrecorded(w, "success"))
        /\ failed[w] <= records[w]["failure"]
                            + Cardinality(Unrecorded(w, "failure"))
    BY DEF Tallied, HistoryMatchesMetrics
  <2> QED
    BY <1>2, <1>4, <1>5, <2>1
<1> QED
  BY <1>1, <1>6, <1>7 DEF Tallied, HistoryMatchesMetrics

LEMMA RecordTally ==
  ASSUME TypeOK, Tallied, NEW th \in Thread, Record(th)
  PROVE  Tallied'
<1> DEFINE v == Verdict(success[th])
<1>1. /\ chosen' = chosen /\ success' = success /\ pc[th] = "recording"
      /\ pc' = [pc EXCEPT ![th] = "returned"] /\ pc \in [Thread -> Place]
      /\ UNCHANGED <<started, completed, failed>>
      /\ records' = [records EXCEPT ![chosen[th]][v] = @ + 1]
  BY DEF Record, Return, TypeOK, metrics
<1>2. v \in {"success", "failure"}
  BY DEF Verdict
<1>3. ASSUME NEW w \in Worker, NEW x \in {"success", "failure"}
      PROVE  th \in Unrecorded(w, x) <=> chosen[th] = w /\ x = v
  BY <1>1 DEF Unrecorded, At, Finished
<1> HIDE DEF v
<1>4. ASSUME NEW w \in Worker, NEW x \in {"success", "failure"}
      PROVE  /\ records[w][x] \in Nat
             /\ records'[w][x] =
                  records[w][x] + (IF chosen[th] = w /\ x = v THEN 1 ELSE 0)
  <2>1. records \in [Worker -> [{"success", "failure"} -> Nat]]
    BY DEF TypeOK
  <2> QED
    BY <1>1, <1>2, <2>1
<1>5. ASSUME NEW w \in Worker, NEW x \in {"success", "failure"}
      PROVE  /\ Cardinality(Unrecorded(w, x)) \in Nat
             /\ Cardinality(Unrecorded(w, x)') =
                  Cardinality(Unrecorded(w, x))
                    - (IF chosen[th] = w /\ x = v THEN 1 ELSE 0)
  <2>1. th \notin Unrecorded(w, x)'
    BY <1>1 DEF Unrecorded, At, Finished
  <2>2. Cardinality(Unrecorded(w, x)) \in Nat
    BY <1>1, CountedChange
  <2> QED
    BY <1>1, <1>3, <2>1, <2>2, CountedChange
<1>6. \A w \in Worker : At(w, Handling)' = At(w, Handling)
  BY <1>1 DEF At, Handling
<1>7. LoadExact'
  BY <1>1, <1>6 DEF Tallied, LoadExact, Load
<1>8. ASSUME NEW w \in Worker
      PROVE  /\ completed[w] = records'[w]["success"]
                                 + Cardinality(Unrecorded(w, "success")')
             /\ failed[w] <= records'[w]["failure"]
                               + Cardinality(Unrecorded(w, "failure")')
  <2>1. /\ completed[w] = records[w]["success"]
                            + Cardinality(Unrecorded(w, "success"))
        /\ failed[w] <= records[w]["failure"]
                            + Cardinality(Unrecorded(w, "failure"))
        /\ failed[w] \in Nat
    BY DEF Tallied, HistoryMatchesMetrics, TypeOK
  <2> QED
    BY <1>4, <1>5, <2>1
<1> QED
  BY <1>1, <1>7, <1>8 DEF Tallied, HistoryMatchesMetrics

LEMMA TallyStep == TypeOK /\ Tallied /\ [Next]_vars => Tallied'
<1> SUFFICES ASSUME TypeOK, Tallied, [Next]_vars PROVE Tallied'
  OBVIOUS
<1>1. ASSUME NEW th \in Thread, Begin(th) \/ DispatchStep(th)
      PROVE  Tallied'
  BY <1>1, SameTallySteps, TallyFrame, StartedTally, FinishedTally,
     EnterTally, RecordTally DEF DispatchStep
<1>2. ASSUME \/ \E w \in Switched, op \in {"disable", "enable"} :
                  StartControl(op, w)
             \/ EndControl
             \/ \E s \in Strategies : SetStrategy(s)
             \/ UNCHANGED vars
      PROVE  SameTally
  BY <1>2 DEF StartControl, EndControl, SetStrategy, SameTally, vars, metrics
<1> QED
  BY <1>1, <1>2, TallyFrame DEF Next

(***************************************************************************)
(* No update of the counters is lost between the threads: the load the     *)
(* strategies and worker_load() compute is the number of threads in the    *)
(* worker's handler, and the history agrees with the metrics, whatever the *)
(* number of threads and however their statements interleave.              *)
(***************************************************************************)
THEOREM CountersAlwaysExact == Spec => []CountersExact
<1>1. Init => TypeOK /\ Pickable /\ Tallied
  BY InitInvariant DEF IInv, Tallied
<1>2. TypeOK /\ Tallied => CountersExact
  BY DEF CountersExact, Tallied
<1> QED
  BY <1>1, <1>2, TypeStep, TallyStep, PTL DEF Spec

-----------------------------------------------------------------------------
(* The status of a worker nobody is using or switching.                    *)

Quiet == FlagWritten /\ IdleWhenQuiet

\* The flags stay, and no thread leaves Worker.execute.
StaysBusy ==
  /\ UNCHANGED <<enabled, status, control>>
  /\ \A u \in Thread :
       pc[u] \in Executing => pc'[u] \in Executing /\ chosen'[u] = chosen[u]

LEMMA QuietFrame ==
  ASSUME Quiet, StaysBusy
  PROVE  Quiet'
<1>1. ASSUME NEW w \in Worker, At(w, Executing)' = {}
      PROVE  At(w, Executing) = {}
  BY <1>1 DEF At, StaysBusy
<1> QED
  BY <1>1 DEF Quiet, FlagWritten, IdleWhenQuiet, StaysBusy

LEMMA StaysBusySteps ==
  ASSUME TypeOK, NEW th \in Thread,
         \/ Begin(th) \/ ListEnabled(th) \/ Screen(th) \/ PickRoundRobin(th)
         \/ AdvanceIndex(th) \/ StartWeighing(th) \/ Weigh(th)
         \/ PickLeastBusy(th) \/ Check(th) \/ Enter(th) \/ CountStarted(th)
         \/ Handle(th) \/ CountFinished(th) \/ Record(th)
  PROVE  StaysBusy
<1> USE DEF StaysBusy, Executing, Go, Return, metrics, workerVars, scheduler,
            selection
<1>1. pc \in [Thread -> Place] /\ chosen \in [Thread -> Worker]
  BY DEF TypeOK
<1>2. CASE Begin(th)
  BY <1>1, <1>2 DEF Begin
<1>3. CASE ListEnabled(th) \/ Screen(th)
  BY <1>1, <1>3 DEF ListEnabled, Screen, Visit, Listed, Screened
<1>4. CASE PickRoundRobin(th) \/ AdvanceIndex(th)
  BY <1>1, <1>4 DEF PickRoundRobin, AdvanceIndex
<1>5. CASE StartWeighing(th) \/ Weigh(th)
  BY <1>1, <1>5 DEF StartWeighing, Weigh
<1>6. CASE PickLeastBusy(th)
  BY <1>1, <1>6 DEF PickLeastBusy
<1>7. CASE Check(th)
  BY <1>1, <1>7 DEF Check
<1>8. CASE Enter(th)
  BY <1>1, <1>8 DEF Enter
<1>9. CASE CountStarted(th)
  BY <1>1, <1>9 DEF CountStarted
<1>10. CASE Handle(th)
  BY <1>1, <1>10 DEF Handle
<1>11. CASE CountFinished(th)
  BY <1>1, <1>11 DEF CountFinished
<1>12. CASE Record(th)
  BY <1>1, <1>12 DEF Record
<1> QED
  BY <1>2, <1>3, <1>4, <1>5, <1>6, <1>7, <1>8, <1>9, <1>10, <1>11, <1>12

\* A thread that writes a status is in Worker.execute afterwards, or has
\* written IDLE.
LEMMA WrittenQuiet ==
  ASSUME TypeOK, Quiet, NEW th \in Thread,
         MarkRunning(th) \/ MarkFinished(th) \/ Rest(th)
  PROVE  Quiet'
<1>1. /\ pc \in [Thread -> Place] /\ chosen \in [Thread -> Worker]
      /\ status \in [Worker -> Status]
  BY DEF TypeOK
<1>2. ASSUME NEW from \in Executing, NEW value, NEW to,
             to \in Executing \/ value = "idle",
             WriteStatus(th, from, value, to)
      PROVE  Quiet'
  <2>1. /\ UNCHANGED <<enabled, control, chosen>>
        /\ status' = [status EXCEPT ![chosen[th]] = value]
        /\ pc' = [pc EXCEPT ![th] = to]
        /\ pc[th] = from
    BY <1>2 DEF WriteStatus, SetStatus, Go
  <2>2. ASSUME NEW w \in Worker, w # chosen[th]
        PROVE  status'[w] = status[w] /\ At(w, Executing)' = At(w, Executing)
    BY <1>1, <2>1, <2>2 DEF At
  <2>3. status'[chosen[th]] = value
    BY <1>1, <2>1
  <2>4. to \in Executing => th \in At(chosen[th], Executing)'
    BY <1>1, <2>1 DEF At
  <2>5. IdleWhenQuiet'
    BY <1>2, <2>1, <2>2, <2>3, <2>4 DEF Quiet, IdleWhenQuiet
  <2> QED
    BY <2>1, <2>5 DEF Quiet, FlagWritten
<1>3. CASE MarkRunning(th)
  BY <1>2, <1>3 DEF MarkRunning, Executing
<1>4. CASE MarkFinished(th)
  BY <1>2, <1>4 DEF MarkFinished, Executing
<1>5. CASE Rest(th)
  BY <1>2, <1>5 DEF Rest, Executing
<1> QED
  BY <1>3, <1>4, <1>5

\* The finally clause skips the reset only for a worker that is disabled.
LEMMA LeaveQuiet ==
  ASSUME TypeOK, Quiet, NEW th \in Thread, Leave(th)
  PROVE  Quiet'
<1>1. CASE enabled[chosen[th]]
  <2>1. StaysBusy
    BY <1>1 DEF Leave, MustRest, StaysBusy, Executing, Go, TypeOK, workerVars
  <2> QED
    BY <2>1, QuietFrame
<1>2. CASE ~ enabled[chosen[th]]
  <2>1. UNCHANGED <<enabled, status, control, chosen>>
    BY DEF Leave, workerVars
  <2>2. ASSUME NEW w \in Worker, w # chosen[th]
        PROVE  At(w, Executing)' = At(w, Executing)
    BY <2>1, <2>2 DEF At, Leave, Go, TypeOK
  <2>3. IdleWhenQuiet'
    BY <1>2, <2>1, <2>2 DEF Quiet, IdleWhenQuiet
  <2> QED
    BY <2>1, <2>3 DEF Quiet, FlagWritten
<1> QED
  BY <1>1, <1>2

LEMMA ControlQuiet ==
  ASSUME TypeOK, Quiet,
         \/ \E w \in Switched, op \in {"disable", "enable"} :
              StartControl(op, w)
         \/ EndControl
  PROVE  Quiet'
<1>1. ASSUME NEW c \in Switched, NEW op \in {"disable", "enable"},
             StartControl(op, c)
      PROVE  Quiet'
  <2>1. /\ c \in Worker
        /\ UNCHANGED <<status, pc, chosen>>
        /\ control.op = "none"
        /\ control' = [op |-> op, worker |-> c]
        /\ enabled' = [enabled EXCEPT ![c] = (op = "enable")]
    BY <1>1, SwitchedAssumption DEF StartControl, selection
  <2>2. FlagWritten'
    BY <2>1 DEF FlagWritten, TypeOK
  <2>3. ASSUME NEW w \in Worker
        PROVE  At(w, Executing)' = At(w, Executing)
    BY <2>1 DEF At
  <2>4. ASSUME NEW w \in Worker, w # c
        PROVE  enabled'[w] = enabled[w]
    BY <2>1, <2>4 DEF TypeOK
  <2>5. control'.op # "none" /\ control'.worker = c
    BY <2>1
  <2>6. IdleWhenQuiet'
    BY <2>1, <2>3, <2>4, <2>5 DEF Quiet, IdleWhenQuiet
  <2> QED
    BY <2>2, <2>6 DEF Quiet
<1>2. CASE EndControl
  <2> DEFINE c == control.worker
  <2>1. /\ UNCHANGED <<enabled, pc, chosen>>
        /\ control.op \in {"disable", "enable"} /\ c \in Worker
        /\ control'.op = "none"
        /\ status' = [status EXCEPT ![c] =
                        IF control.op = "enable" THEN "idle" ELSE "disabled"]
    BY <1>2 DEF EndControl, SetStatus, TypeOK, Control, selection
  <2>2. enabled[c] => status'[c] = "idle"
    BY <2>1 DEF Quiet, FlagWritten, TypeOK
  <2>3. ASSUME NEW w \in Worker, w # c
        PROVE  status'[w] = status[w] /\ At(w, Executing)' = At(w, Executing)
    BY <2>1, <2>3 DEF At, TypeOK
  <2>4. IdleWhenQuiet'
    BY <2>1, <2>2, <2>3 DEF Quiet, IdleWhenQuiet
  <2> QED
    BY <2>1, <2>4 DEF Quiet, FlagWritten
<1> QED
  BY <1>1, <1>2

LEMMA QuietStep == TypeOK /\ Quiet /\ [Next]_vars => Quiet'
<1> SUFFICES ASSUME TypeOK, Quiet, [Next]_vars PROVE Quiet'
  OBVIOUS
<1>1. ASSUME NEW th \in Thread, Begin(th) \/ DispatchStep(th)
      PROVE  Quiet'
  BY <1>1, StaysBusySteps, QuietFrame, WrittenQuiet, LeaveQuiet
     DEF DispatchStep
<1>2. ASSUME (\E s \in Strategies : SetStrategy(s)) \/ UNCHANGED vars
      PROVE  StaysBusy
  BY <1>2 DEF SetStrategy, StaysBusy, vars, workerVars, selection
<1> QED
  BY <1>1, <1>2, QuietFrame, ControlQuiet DEF Next

(***************************************************************************)
(* A worker that is enabled and that nobody is using or switching is idle: *)
(* neither a failure, nor a disable() or an enable() in the middle of a    *)
(* task leaves another status behind.                                      *)
(***************************************************************************)
THEOREM IdleAgain == Spec => []IdleWhenQuiet
<1>1. Init => TypeOK /\ Pickable /\ Quiet
  BY InitInvariant DEF IInv, Quiet
<1>2. Quiet => IdleWhenQuiet
  BY DEF Quiet
<1> QED
  BY <1>1, <1>2, TypeStep, QuietStep, PTL DEF Spec

-----------------------------------------------------------------------------
(* The workers that were usable throughout a dispatch.                     *)

LEMMA InTail ==
  ASSUME NEW seq \in Seq(Worker), seq # << >>, NEW w, InList(seq, w)
  PROVE  w = Head(seq) \/ InList(Tail(seq), w)
<1>1. PICK i \in 1 .. Len(seq) : seq[i] = w
  BY DEF InList
<1>2. CASE i = 1
  BY <1>1, <1>2
<1>3. CASE i # 1
  <2>1. /\ Len(seq) \in Nat
        /\ Len(Tail(seq)) = Len(seq) - 1
        /\ \A k \in 1 .. Len(Tail(seq)) : Tail(seq)[k] = seq[k + 1]
    BY HeadTailProperties, LenProperties
  <2>2. i - 1 \in 1 .. Len(Tail(seq)) /\ (i - 1) + 1 = i
    BY <1>3, <2>1
  <2>3. Tail(seq)[i - 1] = w
    BY <1>1, <2>1, <2>2
  <2> QED
    BY <2>2, <2>3 DEF InList
<1> QED
  BY <1>2, <1>3

LEMMA InAppend ==
  ASSUME NEW seq \in Seq(Worker), NEW e \in Worker, NEW w
  PROVE  /\ InList(Append(seq, e), e)
         /\ InList(seq, w) => InList(Append(seq, e), w)
<1>1. /\ Len(seq) \in Nat
      /\ Len(Append(seq, e)) = Len(seq) + 1
      /\ \A i \in 1 .. Len(seq) : Append(seq, e)[i] = seq[i]
      /\ Append(seq, e)[Len(seq) + 1] = e
  BY AppendProperties, LenProperties
<1> QED
  BY <1>1 DEF InList

LEMMA InNothing == \A w : ~ InList(<< >>, w)
BY EmptySeq DEF InList

\* The dispatch of u is where it was, and Watch has looked at the flags.
Undisturbed(u) ==
  /\ pc'[u] = pc[u] /\ fits'[u] = fits[u] /\ outcome'[u] = outcome[u]
  /\ listed'[u] = listed[u] /\ candidates'[u] = candidates[u]
  /\ chosen'[u] = chosen[u]
  /\ steady'[u] \subseteq steady[u]
  /\ pc[u] # "returned" => \A w \in steady'[u] : Usable(w)'

LEMMA WatchedFrame ==
  ASSUME NEW u \in Thread, Watched(u), Undisturbed(u)
  PROVE  Watched(u)'
BY DEF Watched, Undisturbed, Considered

\* A step of one thread leaves the dispatches of the others alone.
LEMMA OthersWatched ==
  ASSUME TypeOK, AllWatched, NEW th \in Thread, NEW u \in Thread, u # th,
         Begin(th) \/ DispatchStep(th)
  PROVE  Watched(u)'
<1> USE DEF Undisturbed, Go, Return, workerVars, selection
<1>1. \A w : UNCHANGED workerVars => Usable(w)' = Usable(w)
  BY DEF Usable
<1>2. Watched(u)
  BY DEF AllWatched
<1>3. pc[u] # "returned" => \A w \in steady[u] : Usable(w)
  BY <1>2 DEF Watched
<1>4. /\ pc \in [Thread -> Place] /\ fits \in [Thread -> SUBSET Worker]
      /\ listed \in [Thread -> Seq(Worker)]
      /\ candidates \in [Thread -> Seq(Worker)]
      /\ chosen \in [Thread -> Worker]
      /\ outcome \in [Thread -> {"none", "no_worker", "rejected", "result"}]
      /\ steady \in [Thread -> SUBSET Worker]
  BY DEF TypeOK
<1>5. CASE Begin(th)
  BY <1>1, <1>2, <1>3, <1>4, <1>5, WatchedFrame DEF Begin
<1>6. CASE ListEnabled(th)
  BY <1>1, <1>2, <1>3, <1>4, <1>6, WatchedFrame DEF ListEnabled, Visit, Listed
<1>7. CASE Screen(th)
  BY <1>1, <1>2, <1>3, <1>4, <1>7, WatchedFrame DEF Screen, Visit, Screened
<1>8. CASE PickRoundRobin(th) \/ PickLeastBusy(th)
  BY <1>1, <1>2, <1>3, <1>4, <1>8, WatchedFrame
     DEF PickRoundRobin, PickLeastBusy
<1>9. CASE AdvanceIndex(th) \/ StartWeighing(th) \/ Weigh(th)
  BY <1>1, <1>2, <1>3, <1>4, <1>9, WatchedFrame
     DEF AdvanceIndex, StartWeighing, Weigh
<1>10. CASE Check(th) \/ Enter(th)
  BY <1>1, <1>2, <1>3, <1>4, <1>10, WatchedFrame DEF Check, Enter
<1>11. CASE CountStarted(th) \/ Handle(th) \/ CountFinished(th)
  BY <1>1, <1>2, <1>3, <1>4, <1>11, WatchedFrame
     DEF CountStarted, Handle, CountFinished
<1>12. CASE Leave(th) \/ Record(th)
  BY <1>1, <1>2, <1>3, <1>4, <1>12, WatchedFrame DEF Leave, Record
<1>13. CASE MarkRunning(th) \/ MarkFinished(th) \/ Rest(th)
  <2>1. PICK from, value, to : WriteStatus(th, from, value, to)
    BY <1>13 DEF MarkRunning, MarkFinished, Rest
  <2>2. Undisturbed(u)
    BY <1>4, <2>1 DEF WriteStatus, Watch
  <2> QED
    BY <1>2, <2>2, WatchedFrame
<1> QED
  BY <1>5, <1>6, <1>7, <1>8, <1>9, <1>10, <1>11, <1>12, <1>13
     DEF DispatchStep

LEMMA BeginWatched ==
  ASSUME TypeOK, NEW th \in Thread, Begin(th)
  PROVE  Watched(th)'
<1>1. PICK F \in Fits :
        /\ fits' = [fits EXCEPT ![th] = F]
        /\ steady' = [steady EXCEPT ![th] = {w \in F : Usable(w)}]
  BY DEF Begin
<1>2. /\ pc'[th] = "listing" /\ listed'[th] = Order
      /\ fits'[th] = F /\ steady'[th] = {w \in F : Usable(w)}
  BY <1>1 DEF Begin, Go, TypeOK
<1>3. \A w \in F : w \in Worker /\ InList(Order, w)
  BY FitsAssumption, OrderAssumption DEF InList
<1>4. \A w : Usable(w)' = Usable(w)
  BY DEF Begin, workerVars, Usable
<1> QED
  BY <1>2, <1>3, <1>4 DEF Watched, Considered

\* One turn of a loop that keeps what is usable keeps what is steady.
LEMMA VisitWatched ==
  ASSUME TypeOK, NEW th \in Thread, NEW keep \in BOOLEAN, Visit(th, keep),
         UNCHANGED <<workerVars, steady>>, Watched(th),
         pc[th] \in {"listing", "screening"},
         Head(listed[th]) \in steady[th] => keep
  PROVE  Watched(th)'
<1>1. /\ listed[th] \in Seq(Worker) /\ listed[th] # << >>
      /\ candidates[th] \in Seq(Worker)
      /\ Head(listed[th]) \in Worker
  BY HeadTailProperties DEF Visit, TypeOK
<1>2. /\ listed'[th] = Tail(listed[th])
      /\ keep => candidates'[th] = Append(candidates[th], Head(listed[th]))
      /\ ~ keep => candidates'[th] = candidates[th]
      /\ pc'[th] = pc[th] /\ fits'[th] = fits[th] /\ steady'[th] = steady[th]
  BY DEF Visit, TypeOK
<1>3. ASSUME NEW w \in steady[th]
      PROVE  Considered(th, w)'
  <2>1. InList(listed[th], w) \/ InList(candidates[th], w)
    BY DEF Watched, Considered
  <2>2. CASE InList(candidates[th], w)
    BY <1>1, <1>2, <2>2, InAppend DEF Considered
  <2>3. CASE InList(listed[th], w)
    BY <1>1, <1>2, <2>3, InTail, InAppend DEF Considered
  <2> QED
    BY <2>1, <2>2, <2>3
<1>4. \A w : Usable(w)' = Usable(w)
  BY DEF workerVars, Usable
<1> QED
  BY <1>2, <1>3, <1>4 DEF Watched

LEMMA ListWatched ==
  ASSUME TypeOK, NEW th \in Thread, Watched(th),
         ListEnabled(th) \/ Screen(th)
  PROVE  Watched(th)'
<1>1. \A w : UNCHANGED workerVars => Usable(w)' = Usable(w)
  BY DEF workerVars, Usable
<1>2. UNCHANGED <<workerVars, steady>>
  BY DEF ListEnabled, Screen
<1>3. CASE ListEnabled(th) /\ Visit(th, enabled[Head(listed[th])])
  <2>1. enabled[Head(listed[th])] \in BOOLEAN
    BY <1>3, HeadTailProperties DEF TypeOK, Visit
  <2>2. Head(listed[th]) \in steady[th] => enabled[Head(listed[th])]
    BY <1>3 DEF ListEnabled, Watched, Usable
  <2> QED
    BY <1>2, <1>3, <2>1, <2>2, VisitWatched DEF ListEnabled
<1>4. CASE ListEnabled(th) /\ Listed(th)
  <2>1. /\ listed[th] = << >> /\ listed'[th] = candidates[th]
        /\ pc[th] = "listing" /\ pc'[th] = "screening"
        /\ fits'[th] = fits[th] /\ steady'[th] = steady[th]
    BY <1>4 DEF ListEnabled, Listed, Go, TypeOK
  <2> QED
    BY <1>1, <1>2, <2>1, InNothing DEF Watched, Considered
<1>5. CASE Screen(th) /\ Visit(th, CanHandle(th, Head(listed[th])))
  <2>1. CanHandle(th, Head(listed[th])) \in BOOLEAN
    BY <1>5, HeadTailProperties DEF TypeOK, Visit, CanHandle, Usable
  <2>2. Head(listed[th]) \in steady[th] => CanHandle(th, Head(listed[th]))
    BY <1>5 DEF Screen, Watched, CanHandle
  <2> QED
    BY <1>2, <1>5, <2>1, <2>2, VisitWatched DEF Screen
<1>6. CASE Screen(th) /\ Screened(th)
  <2>1. /\ pc[th] = "screening" /\ listed[th] = << >>
        /\ fits'[th] = fits[th] /\ steady'[th] = steady[th]
        /\ \/ candidates[th] = << >> /\ pc'[th] = "returned"
              /\ outcome'[th] = "no_worker"
           \/ pc'[th] = "picking"
    BY <1>6 DEF Screen, Screened, Go, Return, selection, TypeOK
  <2>2. candidates[th] = << >> => steady[th] = {}
    BY <2>1, InNothing DEF Watched, Considered
  <2> QED
    BY <1>1, <1>2, <2>1, <2>2 DEF Watched
<1> QED
  BY <1>3, <1>4, <1>5, <1>6 DEF ListEnabled, Screen

\* The steps between the two lists and the return.
LEMMA MoveWatched ==
  ASSUME TypeOK, NEW th \in Thread, Watched(th),
         \/ PickRoundRobin(th) \/ AdvanceIndex(th) \/ StartWeighing(th)
         \/ Weigh(th) \/ PickLeastBusy(th) \/ Check(th) \/ Enter(th)
         \/ CountStarted(th) \/ Handle(th) \/ CountFinished(th) \/ Leave(th)
         \/ Record(th)
  PROVE  Watched(th)'
<1> USE DEF Go, Return, selection
<1>1. \A w : Usable(w)' = Usable(w)
  BY DEF PickRoundRobin, AdvanceIndex, StartWeighing, Weigh, PickLeastBusy,
         Check, Enter, CountStarted, Handle, CountFinished, Leave, Record,
         workerVars, Usable
<1>2. fits'[th] = fits[th] /\ steady'[th] = steady[th]
  BY DEF PickRoundRobin, AdvanceIndex, StartWeighing, Weigh, PickLeastBusy,
         Check, Enter, CountStarted, Handle, CountFinished, Leave, Record
<1>3. pc \in [Thread -> Place]
  BY DEF TypeOK
<1>4. ASSUME pc[th] # "returned",
             pc'[th] \notin {"listing", "screening", "returned"}
      PROVE  Watched(th)'
  BY <1>1, <1>2, <1>4 DEF Watched
<1>5. CASE PickRoundRobin(th) \/ AdvanceIndex(th) \/ PickLeastBusy(th)
  BY <1>3, <1>4, <1>5 DEF PickRoundRobin, AdvanceIndex, PickLeastBusy
<1>6. CASE StartWeighing(th) \/ Weigh(th)
  <2>1. strategy \in {"round_robin", "least_busy", "priority"}
    BY StrategyAssumption DEF TypeOK
  <2> QED
    BY <1>3, <1>4, <1>6, <2>1 DEF StartWeighing, Weigh
<1>7. CASE Check(th)
  <2>1. CASE CanHandle(th, chosen[th])
    BY <1>3, <1>4, <1>7, <2>1 DEF Check
  <2>2. CASE ~ CanHandle(th, chosen[th])
    <3>1. chosen[th] \notin steady[th]
      BY <1>7, <2>2 DEF Check, Watched, CanHandle
    <3>2. /\ pc'[th] = "returned" /\ outcome'[th] = "rejected"
          /\ chosen'[th] = chosen[th]
      BY <1>7, <2>2 DEF Check, TypeOK
    <3> QED
      BY <1>2, <3>1, <3>2 DEF Watched
  <2> QED
    BY <2>1, <2>2
<1>8. CASE Enter(th)
  BY <1>3, <1>4, <1>8 DEF Enter
<1>9. CASE CountStarted(th) \/ Handle(th) \/ CountFinished(th) \/ Leave(th)
  BY <1>3, <1>4, <1>9 DEF CountStarted, Handle, CountFinished, Leave
<1>10. CASE Record(th)
  BY <1>3, <1>10 DEF Record, Watched, TypeOK
<1> QED
  BY <1>5, <1>6, <1>7, <1>8, <1>9, <1>10

LEMMA WriteWatched ==
  ASSUME TypeOK, NEW th \in Thread, Watched(th),
         MarkRunning(th) \/ MarkFinished(th) \/ Rest(th)
  PROVE  Watched(th)'
<1>1. ASSUME NEW from \in Executing, NEW value,
             NEW to \in Executing \cup {"recording"},
             WriteStatus(th, from, value, to)
      PROVE  Watched(th)'
  <2>1. /\ pc[th] = from /\ pc'[th] = to /\ fits'[th] = fits[th]
    BY <1>1 DEF WriteStatus, Go, TypeOK, selection
  <2>2. steady'[th] = {w \in steady[th] : Usable(w)'}
    BY <1>1, <2>1 DEF WriteStatus, Watch, Executing
  <2> QED
    BY <2>1, <2>2 DEF Watched, Executing
<1> QED
  BY <1>1 DEF MarkRunning, MarkFinished, Rest, Executing

LEMMA WatchedStep == TypeOK /\ AllWatched /\ [Next]_vars => AllWatched'
<1> SUFFICES ASSUME TypeOK, AllWatched, [Next]_vars, NEW u \in Thread
             PROVE  Watched(u)'
  BY DEF AllWatched
<1>1. Watched(u)
  BY DEF AllWatched
<1>2. ASSUME NEW th \in Thread, Begin(th) \/ DispatchStep(th)
      PROVE  Watched(u)'
  <2>1. CASE u # th
    BY <1>2, <2>1, OthersWatched
  <2>2. CASE u = th
    BY <1>1, <1>2, <2>2, BeginWatched, ListWatched, MoveWatched, WriteWatched
       DEF DispatchStep
  <2> QED
    BY <2>1, <2>2
<1>3. ASSUME \/ \E w \in Switched, op \in {"disable", "enable"} :
                  StartControl(op, w)
             \/ EndControl
      PROVE  Watched(u)'
  <2>1. Undisturbed(u)
    BY <1>3 DEF StartControl, EndControl, Watch, Undisturbed, selection
  <2> QED
    BY <1>1, <2>1, WatchedFrame
<1>4. ASSUME (\E s \in Strategies : SetStrategy(s)) \/ UNCHANGED vars
      PROVE  Watched(u)'
  <2>1. Undisturbed(u)
    BY <1>1, <1>4
       DEF SetStrategy, vars, Undisturbed, selection, workerVars, Usable,
           Watched
  <2> QED
    BY <1>1, <2>1, WatchedFrame
<1> QED
  BY <1>2, <1>3, <1>4 DEF Next

(***************************************************************************)
(* "No capable worker is available" and "Worker cannot handle task" are    *)
(* true: the lists a dispatch builds without a lock never lose a worker    *)
(* that fits the task and stays usable, whatever is switched meanwhile.    *)
(***************************************************************************)
THEOREM RefusalsJustified == Spec => []RefusalJustified
<1>1. Init => TypeOK /\ Pickable /\ AllWatched
  BY InitInvariant DEF IInv
<1>2. AllWatched => RefusalJustified
  BY DEF AllWatched, Watched, RefusalJustified
<1> QED
  BY <1>1, <1>2, TypeStep, WatchedStep, PTL DEF Spec
=============================================================================
