------------------------- MODULE ListExecutionProofs -------------------------
(***************************************************************************)
(* Proofs about ListExecution, for every set of tasks and workers, every   *)
(* list, number of retries and size of the pool.                           *)
(***************************************************************************)
EXTENDS ListExecution, FiniteSetTheorems, TLAPS

Active(t) == at[t] \in {"searching", "running"}

\* Nothing has been done before the loop is entered.
Fresh ==
  mode \in {"idle", "called"} =>
    \A t \in Name : at[t] = "waiting" /\ runs[t] = 0

\* Nothing is done that is not in the list.
OnlyListed ==
  \A t \in Name \ Listed : at[t] = "waiting" /\ runs[t] = 0

\* All methods but ParallelAEM have one task in work, and none after a
\* failure.
OneByOne ==
  method # "parallel" =>
    \A t, u \in Listed :
      /\ at[t] \in {"searching", "running", "failed"}
      /\ at[u] \in {"searching", "running", "failed"}
      => t = u

\* A task is not even looked at before those that precede it are done.
InTurn ==
  method # "parallel" =>
    \A t, u \in Listed :
      (at[t] # "waiting" \/ runs[t] > 0) /\ Precedes(u, t) => at[u] = "done"

\* The candidates left for a task, and those it was given to, are workers
\* that are not excluded.
Permitted == Cardinality(Worker \ excluded)

\* What each method counts: RetryAEM its failed attempts, FallbackAEM the
\* candidates it has used up.
Counted(t) ==
  /\ at[t] = "running" => runs[t] > 0
  /\ method = "retry" =>
       /\ at[t] # "searching"
       /\ runs[t] <= MaxRetries + 1
       /\ at[t] = "waiting" =>
            runs[t] = attempts[t] /\ attempts[t] <= MaxRetries
       /\ at[t] = "running" =>
            runs[t] = attempts[t] + 1 /\ attempts[t] <= MaxRetries
  /\ method = "fallback" =>
       /\ at[t] = "waiting" => runs[t] = 0
       /\ runs[t] <= Permitted
       /\ Active(t) => runs[t] + Cardinality(candidates) <= Permitted
  /\ method \notin {"retry", "fallback"} =>
       /\ at[t] # "searching"
       /\ at[t] = "waiting" => runs[t] = 0
       /\ runs[t] <= 1

AllCounted == \A t \in Name : Counted(t)

\* The results hold the outputs of the tasks that are done, and name as
\* failed only tasks that have failed.
Collected ==
  /\ DOMAIN values = In("done")
  /\ \A f \in failures : f.named => f.task \in In("failed")

IInv ==
  /\ TypeOK
  /\ Fresh
  /\ OnlyListed
  /\ OneByOne
  /\ InTurn
  /\ AllCounted
  /\ candidates \subseteq Worker \ excluded
  /\ Collected
  /\ AnswerTruthful

-----------------------------------------------------------------------------
(* The order of the tasks.                                                 *)

LEMMA Types ==
  ASSUME TypeOK
  PROVE  /\ \A t \in Listed : t \in Name /\ place[t] \in Nat
         /\ \A t \in Name : /\ priority[t] \in Int
                            /\ at[t] \in TaskState
                            /\ attempts[t] \in 0 .. MaxRetries + 1
                            /\ runs[t] \in Nat
BY DEF TypeOK, Listed

\* What precedes a task is not taken after it.
LEMMA PrecedesEarlier ==
  ASSUME TypeOK, NEW t \in Listed, NEW u \in Listed, Precedes(u, t)
  PROVE  u # t /\ ~ Earlier(t, u)
<1>1. /\ place[t] \in Nat /\ place[u] \in Nat
      /\ priority[t] \in Int /\ priority[u] \in Int
  BY Types
<1> QED
  BY <1>1 DEF Precedes, Earlier

LEMMA InFinite ==
  ASSUME TypeOK, NEW s
  PROVE  /\ In(s) \subseteq Name /\ IsFiniteSet(In(s))
         /\ Cardinality(In(s)) \in Nat
<1>1. In(s) \subseteq Name
  BY DEF TypeOK, In, Listed
<1> QED
  BY <1>1, ListNameAssumption, FS_Subset, FS_CardinalityType

\* When a task may start, no other of its call is in work or has failed, and
\* those before it are done.
LEMMA MayStartAlone ==
  ASSUME IInv, NEW t \in Name, MayStart(t), method # "parallel"
  PROVE  \A u \in Listed :
           /\ at[u] \in {"waiting", "done"}
           /\ Precedes(u, t) => at[u] = "done"
<1> DEFINE W == In("running") \cup In("searching")
<1>1. /\ t \in Listed /\ In("failed") = {} /\ Cardinality(W) < 1
      /\ \A u \in In("waiting") \ {t} : Earlier(t, u)
  BY DEF MayStart, Stopped
<1>2. W = {}
  <2>1. IsFiniteSet(W)
    BY InFinite, FS_Union DEF IInv
  <2> HIDE DEF W
  <2>2. Cardinality(W) \in Nat /\ (Cardinality(W) = 0 <=> W = {})
    BY <2>1, FS_CardinalityType, FS_EmptySet
  <2> QED
    BY <1>1, <2>2
<1>3. ASSUME NEW u \in Listed
      PROVE  at[u] \in {"waiting", "done"}
  <2>1. at[u] \in TaskState
    BY <1>3, Types DEF IInv
  <2>2. /\ u \notin In("running") /\ u \notin In("searching")
        /\ u \notin In("failed")
    BY <1>1, <1>2
  <2> QED
    BY <2>1, <2>2 DEF In, TaskState
<1>4. ASSUME NEW u \in Listed, Precedes(u, t)
      PROVE  at[u] = "done"
  <2>1. u # t /\ ~ Earlier(t, u)
    BY <1>1, <1>4, PrecedesEarlier DEF IInv
  <2>2. u \notin In("waiting")
    BY <1>1, <2>1
  <2> QED
    BY <1>3, <2>2 DEF In
<1> QED
  BY <1>3, <1>4

\* How a step moves one task of the list.
Moves(t, s) ==
  /\ mode = "running" /\ mode' \in {"running", "raised"}
  /\ t \in Listed /\ s \in TaskState
  /\ at' = [at EXCEPT ![t] = s]
  /\ \A u \in Name \ {t} : runs'[u] = runs[u]
  /\ runs'[t] \in {runs[t], runs[t] + 1}
  /\ UNCHANGED arguments

LEMMA MovesOne ==
  ASSUME IInv, NEW t, NEW s, Moves(t, s)
  PROVE  /\ t \in Name /\ at'[t] = s
         /\ \A u \in Name \ {t} : at'[u] = at[u]
         /\ at' \in [Name -> TaskState]
         /\ Listed' = Listed
         /\ \A u, v : Precedes(u, v)' <=> Precedes(u, v)
<1>1. t \in Name /\ at \in [Name -> TaskState]
  BY Types DEF Moves, IInv, TypeOK
<1>2. Listed' = Listed /\ (\A u, v : Precedes(u, v)' <=> Precedes(u, v))
  BY DEF Moves, Listed, Precedes, arguments
<1> QED
  BY <1>1, <1>2 DEF Moves

\* One task at a time, in their order, if a task that begins may start and
\* one that goes back to wait has been in work.
LEMMA MoveInTurn ==
  ASSUME IInv, NEW t, NEW s, Moves(t, s),
         \/ MayStart(t) /\ s # "waiting"
         \/ Active(t) /\ (s = "waiting" => runs[t] > 0)
  PROVE  OneByOne' /\ InTurn' /\ OnlyListed'
<1>1. /\ t \in Name /\ t \in Listed /\ at'[t] = s
      /\ \A u \in Name \ {t} : at'[u] = at[u] /\ runs'[u] = runs[u]
      /\ Listed' = Listed /\ method' = method
      /\ \A u, v : Precedes(u, v)' <=> Precedes(u, v)
      /\ Listed \subseteq Name
  BY MovesOne DEF Moves, arguments, IInv, TypeOK, Listed
<1>2. OnlyListed'
  BY <1>1 DEF IInv, OnlyListed
<1>3. ASSUME method # "parallel"
      PROVE  \A u \in Listed : Precedes(u, t) => at[u] = "done"
  <2>1. CASE MayStart(t)
    BY <1>1, <1>3, <2>1, MayStartAlone
  <2>2. CASE Active(t)
    BY <1>1, <1>3, <2>2 DEF IInv, InTurn, Active
  <2> QED
    BY <2>1, <2>2
<1>4. ASSUME method # "parallel", NEW u \in Listed, u # t
      PROVE  at[u] \notin {"searching", "running", "failed"}
  <2>1. CASE MayStart(t)
    BY <1>1, <1>4, <2>1, MayStartAlone
  <2>2. CASE Active(t)
    BY <1>1, <1>4, <2>2 DEF IInv, OneByOne, Active
  <2> QED
    BY <2>1, <2>2
<1>5. OneByOne'
  BY <1>1, <1>4 DEF OneByOne
<1>6. at[t] # "done"
  BY DEF MayStart, Active
<1>7. ASSUME method # "parallel", NEW u \in Listed, NEW v \in Listed,
             at'[u] # "waiting" \/ runs'[u] > 0, Precedes(v, u)
      PROVE  at'[v] = "done"
  <2>1. v # u
    BY <1>7, PrecedesEarlier DEF IInv
  <2>2. CASE u = t
    BY <1>1, <1>3, <1>7, <2>1, <2>2
  <2>3. CASE u # t
    <3>1. at[v] = "done"
      BY <1>1, <1>7, <2>3 DEF IInv, InTurn
    <3> QED
      BY <1>1, <1>6, <3>1
  <2> QED
    BY <2>2, <2>3
<1>8. InTurn'
  BY <1>1, <1>7 DEF InTurn
<1> QED
  BY <1>2, <1>5, <1>8

\* A move that leaves the results alone, or adds what the task has come to.
LEMMA MoveCollected ==
  ASSUME IInv, NEW t, NEW s, Moves(t, s), at[t] \notin {"done", "failed"},
         s = "done" => DOMAIN values' = DOMAIN values \cup {t},
         s # "done" => UNCHANGED values,
         \A f \in failures' \ failures :
           f.named => f.task = t /\ s = "failed"
  PROVE  Collected'
<1>1. /\ t \in Name /\ t \in Listed /\ at'[t] = s /\ Listed' = Listed
      /\ \A u \in Name \ {t} : at'[u] = at[u]
      /\ Listed \subseteq Name
  BY MovesOne DEF Moves, IInv, TypeOK, Listed
<1>2. In("done")' = IF s = "done" THEN In("done") \cup {t} ELSE In("done")
  BY <1>1 DEF In
<1>3. DOMAIN values' = In("done")'
  BY <1>2 DEF IInv, Collected
<1>4. ASSUME NEW f \in failures', f.named
      PROVE  f.task \in In("failed")'
  <2>1. CASE f \in failures
    <3>1. f.task \in Listed /\ at[f.task] = "failed"
      BY <1>4, <2>1 DEF IInv, Collected, In
    <3> QED
      BY <1>1, <3>1 DEF In
  <2>2. CASE f \notin failures
    BY <1>1, <1>4, <2>2 DEF In
  <2> QED
    BY <2>1, <2>2
<1> QED
  BY <1>3, <1>4 DEF Collected

-----------------------------------------------------------------------------
(* The steps of a call.                                                    *)

LEMMA MoveStep ==
  ASSUME IInv, NEW t, NEW s, Moves(t, s),
         \/ MayStart(t) /\ s # "waiting"
         \/ Active(t) /\ (s = "waiting" => runs[t] > 0),
         s = "done" => \E o \in Output :
           values' = [u \in DOMAIN values \cup {t} |->
                        IF u = t THEN o ELSE values[u]],
         s # "done" => UNCHANGED values,
         failures' \in SUBSET Failure,
         \A f \in failures' \ failures :
           f.named => f.task = t /\ s = "failed",
         attempts' \in [Name -> 0 .. MaxRetries + 1],
         \A u \in Name \ {t} : attempts'[u] = attempts[u],
         candidates' \subseteq Worker \ excluded,
         \/ candidates' \subseteq candidates
         \/ method = "fallback" /\ MayStart(t),
         Counted(t)',
         runs' \in [Name -> Nat],
         UNCHANGED answer
  PROVE  IInv'
<1>1. /\ t \in Name /\ t \in Listed /\ at'[t] = s /\ Listed' = Listed
      /\ \A u \in Name \ {t} : at'[u] = at[u] /\ runs'[u] = runs[u]
      /\ at' \in [Name -> TaskState]
  BY MovesOne DEF Moves
<1>2. /\ mode = "running" /\ mode' \in {"running", "raised"}
      /\ UNCHANGED <<method, place, priority, excluded>>
  BY DEF Moves, arguments
<1>3. DOMAIN values \subseteq Name /\ values \in [DOMAIN values -> Output]
  BY DEF IInv, TypeOK
<1>4. DOMAIN values' \subseteq Name /\ values' \in [DOMAIN values' -> Output]
  <2>1. CASE s = "done"
    <3>1. PICK o \in Output :
            values' = [u \in DOMAIN values \cup {t} |->
                         IF u = t THEN o ELSE values[u]]
      BY <2>1
    <3>2. DOMAIN values' = DOMAIN values \cup {t}
      BY <3>1
    <3> QED
      BY <1>1, <1>3, <3>1, <3>2
  <2>2. CASE s # "done"
    BY <1>3, <2>2
  <2> QED
    BY <2>1, <2>2
<1>5. TypeOK'
  BY <1>1, <1>2, <1>4 DEF IInv, TypeOK
<1>6. Fresh' /\ AnswerTruthful'
  BY <1>2 DEF Fresh, AnswerTruthful
<1>7. OneByOne' /\ InTurn' /\ OnlyListed'
  BY MoveInTurn
<1>8. Collected'
  <2>1. at[t] \notin {"done", "failed"}
    BY DEF MayStart, Active
  <2>2. s = "done" => DOMAIN values' = DOMAIN values \cup {t}
    OBVIOUS
  <2> QED
    BY <2>1, <2>2, MoveCollected
<1>9. ASSUME NEW u \in Name \ {t}
      PROVE  Counted(u)'
  <2>1. Counted(u)
    BY DEF IInv, AllCounted
  <2>2. /\ at'[u] = at[u] /\ runs'[u] = runs[u] /\ attempts'[u] = attempts[u]
        /\ method' = method /\ Permitted' = Permitted
    BY <1>1, <1>2 DEF Permitted
  <2>3. CASE method # "fallback"
    BY <2>1, <2>2, <2>3 DEF Counted
  <2>4. CASE method = "fallback"
    <3>1. ~ Active(u)
      <4>1. u \in Listed \/ at[u] = "waiting"
        BY DEF IInv, OnlyListed
      <4>2. CASE MayStart(t)
        BY <1>1, <2>4, <4>1, <4>2, MayStartAlone DEF Active
      <4>3. CASE Active(t)
        BY <1>1, <2>4, <4>1, <4>3 DEF IInv, OneByOne, Active
      <4> QED
        BY <4>2, <4>3
    <3> QED
      BY <2>1, <2>2, <2>4, <3>1 DEF Counted, Active
  <2> QED
    BY <2>3, <2>4
<1>10. AllCounted'
  BY <1>9 DEF AllCounted
<1> QED
  BY <1>2, <1>5, <1>6, <1>7, <1>8, <1>10 DEF IInv

\* The counters of a task in work.
LEMMA RunningCounted ==
  ASSUME IInv, NEW t \in Name, at[t] \in {"searching", "running"}
  PROVE  /\ t \in Listed /\ Active(t) /\ Counted(t)
         /\ runs[t] \in Nat /\ attempts[t] \in 0 .. MaxRetries + 1
         /\ IsFiniteSet(candidates) /\ Cardinality(candidates) \in Nat
         /\ Permitted \in Nat
<1>1. t \in Listed /\ Active(t) /\ Counted(t)
  BY DEF IInv, OnlyListed, AllCounted, Active
<1>2. runs[t] \in Nat /\ attempts[t] \in 0 .. MaxRetries + 1
  BY Types DEF IInv
<1>3. /\ IsFiniteSet(candidates) /\ Cardinality(candidates) \in Nat
      /\ Permitted \in Nat
  <2>1. candidates \subseteq Worker /\ Worker \ excluded \subseteq Worker
    BY DEF IInv
  <2> QED
    BY <2>1, ListWorkerAssumption, FS_Subset, FS_CardinalityType DEF Permitted
<1> QED
  BY <1>1, <1>2, <1>3

LEMMA StartStep ==
  ASSUME IInv, NEW t \in Name, StartListed(t)
  PROVE  IInv'
<1>1. /\ MayStart(t) /\ method # "fallback"
      /\ mode = "running" /\ t \in Listed /\ at[t] = "waiting"
      /\ at' = [at EXCEPT ![t] = "running"]
      /\ runs' = [runs EXCEPT ![t] = @ + 1]
      /\ UNCHANGED <<mode, arguments, attempts, candidates, values, failures,
                     answer>>
  BY DEF StartListed, MayStart
<1>2. /\ runs \in [Name -> Nat] /\ attempts \in [Name -> 0 .. MaxRetries + 1]
      /\ at \in [Name -> TaskState]
  BY DEF IInv, TypeOK
<1>3. /\ runs' \in [Name -> Nat] /\ runs'[t] = runs[t] + 1
      /\ \A u \in Name \ {t} : runs'[u] = runs[u]
      /\ at'[t] = "running"
  BY <1>1, <1>2
<1>4. Moves(t, "running")
  BY <1>1, <1>3 DEF Moves, TaskState
<1>5. Counted(t)'
  <2>1. Counted(t)
    BY DEF IInv, AllCounted
  <2>2. method' = method /\ attempts' = attempts /\ MaxRetries \in Nat
    BY <1>1, RetryAssumption DEF arguments
  <2> QED
    BY <1>1, <1>2, <1>3, <2>1, <2>2 DEF Counted
<1>6. /\ failures' = failures /\ failures \in SUBSET Failure
      /\ candidates' = candidates /\ candidates \subseteq Worker \ excluded
      /\ attempts' = attempts /\ values' = values /\ answer' = answer
  BY <1>1 DEF IInv, TypeOK
<1> QED
  BY <1>1, <1>2, <1>3, <1>4, <1>5, <1>6, MoveStep

LEMMA FindStep ==
  ASSUME IInv, NEW t \in Name, FindCandidates(t)
  PROVE  IInv'
<1>1. PICK C \in SUBSET Worker :
        /\ candidates' = Eligible(C)
        /\ at' = [at EXCEPT ![t] = IF Eligible(C) = {} THEN "failed"
                                                       ELSE "searching"]
  BY DEF FindCandidates
<1> DEFINE s == IF Eligible(C) = {} THEN "failed" ELSE "searching"
<1>2. /\ MayStart(t) /\ method = "fallback"
      /\ mode = "running" /\ t \in Listed /\ at[t] = "waiting"
      /\ at' = [at EXCEPT ![t] = s]
      /\ UNCHANGED <<mode, arguments, attempts, values, failures, answer,
                     runs>>
  BY <1>1 DEF FindCandidates, MayStart
<1>3. /\ runs \in [Name -> Nat] /\ attempts \in [Name -> 0 .. MaxRetries + 1]
      /\ at \in [Name -> TaskState]
  BY DEF IInv, TypeOK
<1>4. s \in {"failed", "searching"}
  OBVIOUS
<1> HIDE DEF s
<1>5. Moves(t, s) /\ at'[t] = s
  BY <1>2, <1>3, <1>4 DEF Moves, TaskState
<1>6. candidates' \subseteq Worker \ excluded
  BY <1>1 DEF Eligible
<1>7. Counted(t)'
  <2>1. runs[t] = 0
    BY <1>2 DEF IInv, AllCounted, Counted
  <2>2. /\ method' = method /\ runs' = runs /\ Permitted' = Permitted
    BY <1>2 DEF arguments, Permitted
  <2>3. IsFiniteSet(Worker \ excluded)
    BY ListWorkerAssumption, FS_Subset
  <2>4. /\ Cardinality(candidates') <= Permitted
        /\ Cardinality(candidates') \in Nat /\ Permitted \in Nat
    BY <1>6, <2>3, FS_Subset, FS_CardinalityType DEF Permitted
  <2> QED
    BY <1>2, <1>4, <1>5, <2>1, <2>2, <2>4 DEF Counted
<1>8. /\ failures' = failures /\ failures \in SUBSET Failure
      /\ attempts' = attempts /\ values' = values /\ answer' = answer
      /\ runs' = runs
  BY <1>2 DEF IInv, TypeOK
<1> QED
  BY <1>2, <1>3, <1>4, <1>5, <1>6, <1>7, <1>8, MoveStep

LEMMA TryStep ==
  ASSUME IInv, NEW t \in Name, NEW w \in Worker, TryWorker(t, w)
  PROVE  IInv'
<1>1. /\ mode = "running" /\ at[t] = "searching" /\ w \in candidates
      /\ candidates' = candidates \ {w}
      /\ at' = [at EXCEPT ![t] = "running"]
      /\ runs' = [runs EXCEPT ![t] = @ + 1]
      /\ UNCHANGED <<mode, arguments, attempts, values, failures, answer>>
  BY DEF TryWorker
<1>2. /\ runs \in [Name -> Nat] /\ attempts \in [Name -> 0 .. MaxRetries + 1]
      /\ at \in [Name -> TaskState]
  BY DEF IInv, TypeOK
<1>3. /\ runs' \in [Name -> Nat] /\ runs'[t] = runs[t] + 1
      /\ \A u \in Name \ {t} : runs'[u] = runs[u]
      /\ at'[t] = "running"
  BY <1>1, <1>2
<1>4. /\ t \in Listed /\ Active(t) /\ Counted(t)
      /\ IsFiniteSet(candidates) /\ Cardinality(candidates) \in Nat
      /\ Permitted \in Nat
  BY <1>1, RunningCounted
<1>5. Moves(t, "running")
  BY <1>1, <1>3, <1>4 DEF Moves, TaskState
<1>6. Counted(t)'
  <2>1. method' = method /\ method = "fallback" /\ Permitted' = Permitted
    BY <1>1, <1>4 DEF arguments, Counted, Permitted, IInv, TypeOK
  <2>2. /\ Cardinality(candidates') = Cardinality(candidates) - 1
        /\ Cardinality(candidates') \in Nat
    BY <1>1, <1>4, FS_RemoveElement, FS_CardinalityType
  <2> QED
    BY <1>2, <1>3, <1>4, <2>1, <2>2 DEF Counted, Active
<1>7. /\ failures' = failures /\ failures \in SUBSET Failure
      /\ candidates' \subseteq candidates
      /\ candidates' \subseteq Worker \ excluded
      /\ attempts' = attempts /\ values' = values /\ answer' = answer
  BY <1>1 DEF IInv, TypeOK
<1> QED
  BY <1>2, <1>3, <1>4, <1>5, <1>6, <1>7, MoveStep

LEMMA SucceedStep ==
  ASSUME IInv, NEW t \in Name, Succeed(t)
  PROVE  IInv'
<1>1. /\ mode = "running" /\ at[t] = "running"
      /\ at' = [at EXCEPT ![t] = "done"]
      /\ UNCHANGED <<mode, arguments, attempts, candidates, failures, answer,
                     runs>>
      /\ \E o \in Output :
           values' = [u \in DOMAIN values \cup {t} |->
                        IF u = t THEN o ELSE values[u]]
  BY DEF Succeed
<1>2. /\ runs \in [Name -> Nat] /\ attempts \in [Name -> 0 .. MaxRetries + 1]
      /\ at \in [Name -> TaskState]
  BY DEF IInv, TypeOK
<1>3. t \in Listed /\ Active(t) /\ Counted(t)
  BY <1>1, RunningCounted
<1>4. Moves(t, "done") /\ at'[t] = "done"
  BY <1>1, <1>2, <1>3 DEF Moves, TaskState
<1>5. Counted(t)'
  BY <1>1, <1>2, <1>3, <1>4, RetryAssumption
     DEF Counted, Active, arguments, Permitted
<1>6. /\ failures' = failures /\ failures \in SUBSET Failure
      /\ candidates' = candidates /\ candidates \subseteq Worker \ excluded
      /\ attempts' = attempts /\ answer' = answer /\ runs' = runs
  BY <1>1 DEF IInv, TypeOK
<1> QED
  BY <1>1, <1>2, <1>3, <1>4, <1>5, <1>6, MoveStep

LEMMA FailStep ==
  ASSUME IInv, NEW t \in Name, NEW w \in Worker, FailBy(t, w)
  PROVE  IInv'
<1> DEFINE s == AfterFailure(t)
<1>1. /\ mode = "running" /\ at[t] = "running"
      /\ at' = [at EXCEPT ![t] = s]
      /\ attempts' = IF method = "retry" THEN [attempts EXCEPT ![t] = @ + 1]
                                         ELSE attempts
      /\ failures' = IF KeepsFailures
                     THEN failures \cup {[task |-> t, named |-> TRUE,
                                          worker |-> w]}
                     ELSE failures
      /\ UNCHANGED <<mode, arguments, candidates, values, answer, runs>>
  BY DEF FailBy
<1>2. /\ runs \in [Name -> Nat] /\ attempts \in [Name -> 0 .. MaxRetries + 1]
      /\ at \in [Name -> TaskState] /\ failures \in SUBSET Failure
      /\ candidates \subseteq Worker \ excluded
  BY DEF IInv, TypeOK
<1>3. /\ t \in Listed /\ Active(t) /\ Counted(t)
      /\ runs[t] \in Nat /\ attempts[t] \in 0 .. MaxRetries + 1
  BY <1>1, RunningCounted
<1>4. /\ s \in {"waiting", "searching", "failed"}
      /\ s = "waiting" => method = "retry" /\ attempts[t] + 1 <= MaxRetries
      /\ s = "searching" => method = "fallback"
      /\ method \notin {"retry", "fallback"} => s = "failed"
  BY DEF AfterFailure, MayRepeat
<1> HIDE DEF s
<1>5. Moves(t, s) /\ at'[t] = s
  BY <1>1, <1>2, <1>3, <1>4 DEF Moves, TaskState
<1>6. /\ attempts' \in [Name -> 0 .. MaxRetries + 1]
      /\ \A u \in Name \ {t} : attempts'[u] = attempts[u]
      /\ attempts'[t] = IF method = "retry" THEN attempts[t] + 1
                                            ELSE attempts[t]
  <2>1. CASE method = "retry"
    <3>1. attempts[t] + 1 \in 0 .. MaxRetries + 1
      BY <1>1, <1>3, <2>1, RetryAssumption DEF Counted
    <3> QED
      BY <1>1, <1>2, <2>1, <3>1
  <2>2. CASE method # "retry"
    BY <1>1, <1>2, <2>2
  <2> QED
    BY <2>1, <2>2
<1>7. Counted(t)'
  <2>1. /\ method' = method /\ runs' = runs /\ Permitted' = Permitted
        /\ candidates' = candidates
    BY <1>1 DEF arguments, Permitted
  <2>2. CASE method = "retry"
    BY <1>1, <1>3, <1>4, <1>5, <1>6, <2>1, <2>2, RetryAssumption DEF Counted
  <2>3. CASE method = "fallback"
    BY <1>3, <1>4, <1>5, <2>1, <2>3 DEF Counted
  <2>4. CASE method \notin {"retry", "fallback"}
    BY <1>3, <1>4, <1>5, <2>1, <2>4 DEF Counted
  <2> QED
    BY <2>2, <2>3, <2>4
<1>8. s = "waiting" => runs[t] > 0
  BY <1>1, <1>3, <1>4 DEF Counted
<1>9. /\ failures' \in SUBSET Failure
      /\ \A f \in failures' \ failures :
           f.named => f.task = t /\ s = "failed"
  <2>1. CASE KeepsFailures
    <3> DEFINE new == [task |-> t, named |-> TRUE, worker |-> w]
    <3>1. new \in Failure /\ new.task = t
      BY DEF Failure, ListWorkerName
    <3>2. s = "failed"
      BY <1>4, <2>1 DEF KeepsFailures
    <3>3. failures' = failures \cup {new}
      BY <1>1, <2>1
    <3> HIDE DEF new
    <3>4. failures' \in SUBSET Failure
      BY <1>2, <3>1, <3>3
    <3> QED
      BY <3>1, <3>2, <3>3, <3>4
  <2>2. CASE ~ KeepsFailures
    BY <1>1, <1>2, <2>2
  <2> QED
    BY <2>1, <2>2
<1>10. /\ candidates' = candidates /\ answer' = answer /\ runs' = runs
       /\ values' = values
  BY <1>1
<1> QED
  BY <1>2, <1>3, <1>4, <1>5, <1>6, <1>7, <1>8, <1>9, <1>10, MoveStep

\* The dispatch comes back without the task's WorkerResult.
LEMMA UnansweredStep ==
  ASSUME IInv, NEW t \in Name, Unserved(t) \/ Raise(t)
  PROVE  IInv'
<1> DEFINE s == at'[t]
<1>1. /\ mode = "running" /\ at[t] = "running"
      /\ mode' \in {"running", "raised"}
      /\ UNCHANGED <<arguments, attempts, candidates, values, answer, runs>>
  BY DEF Unserved, Raise
<1>2. /\ runs \in [Name -> Nat] /\ attempts \in [Name -> 0 .. MaxRetries + 1]
      /\ at \in [Name -> TaskState] /\ failures \in SUBSET Failure
      /\ candidates \subseteq Worker \ excluded
  BY DEF IInv, TypeOK
<1>3. /\ t \in Listed /\ Active(t) /\ Counted(t)
      /\ runs[t] \in Nat /\ attempts[t] \in 0 .. MaxRetries + 1
  BY <1>1, RunningCounted
<1>4. /\ at' = [at EXCEPT ![t] = s]
      /\ s \in {"searching", "failed"}
      /\ s = "searching" => method = "fallback"
  BY <1>2 DEF Unserved, Raise
<1>5. /\ failures' \in SUBSET Failure
      /\ \A f \in failures' \ failures : ~ f.named
  <2>1. PICK w \in {"scheduler", "parallel_executor"} :
          failures' \subseteq
            failures \cup {[task |-> t, named |-> FALSE, worker |-> w]}
    BY DEF Unserved, Raise
  <2> DEFINE new == [task |-> t, named |-> FALSE, worker |-> w]
  <2>2. new \in Failure /\ ~ new.named
    BY DEF Failure, ListWorkerName
  <2>3. failures' \subseteq failures \cup {new}
    BY <2>1
  <2> HIDE DEF new
  <2> QED
    BY <1>2, <2>2, <2>3
<1> HIDE DEF s
<1>6. Moves(t, s) /\ at'[t] = s
  BY <1>1, <1>2, <1>3, <1>4 DEF Moves, TaskState
<1>7. Counted(t)'
  <2>1. /\ method' = method /\ runs' = runs /\ Permitted' = Permitted
        /\ candidates' = candidates /\ attempts' = attempts
    BY <1>1 DEF arguments, Permitted
  <2> QED
    BY <1>3, <1>4, <1>6, <2>1 DEF Counted
<1>8. /\ candidates' = candidates /\ answer' = answer /\ runs' = runs
      /\ values' = values /\ attempts' = attempts
  BY <1>1
<1> QED
  BY <1>2, <1>3, <1>4, <1>5, <1>6, <1>7, <1>8, MoveStep

-----------------------------------------------------------------------------
(* The beginning and the end of a call.                                    *)

\* What is listed and nothing else is done or has failed.
LEMMA DoneListed ==
  ASSUME IInv
  PROVE  /\ Listed \subseteq Name /\ IsFiniteSet(Listed)
         /\ Cardinality(Listed) \in Nat
         /\ \A t \in Listed : at[t] \in TaskState
BY ListNameAssumption, FS_Subset, FS_CardinalityType, Types
   DEF IInv, TypeOK, Listed

LEMMA EnterStep ==
  ASSUME IInv, EnterLoop
  PROVE  IInv'
<1>1. /\ mode = "called" /\ mode' \in {"returned", "running"}
      /\ mode' = "returned" =>
           Listed = {} /\ answer' = [NoAnswer EXCEPT !.success = TRUE]
      /\ mode' = "running" => answer' = answer
      /\ UNCHANGED <<method, place, priority, excluded, at, attempts,
                     candidates, values, failures, runs>>
  BY DEF EnterLoop, arguments
<1>2. [NoAnswer EXCEPT !.success = TRUE] \in Answer
  BY DEF NoAnswer, Answer
<1>3. TypeOK'
  BY <1>1, <1>2 DEF IInv, TypeOK
<1>4. Fresh' /\ OnlyListed'
  BY <1>1 DEF IInv, Fresh, OnlyListed, Listed
<1>5. OneByOne' /\ InTurn'
  BY <1>1 DEF IInv, OneByOne, InTurn, Listed, Precedes
<1>6. AllCounted' /\ candidates' \subseteq Worker \ excluded'
  BY <1>1 DEF IInv, AllCounted, Counted, Active, Permitted
<1>7. Collected'
  BY <1>1 DEF IInv, Collected, In, Listed
<1>8. AnswerTruthful'
  <2>1. CASE mode' = "running"
    BY <2>1 DEF AnswerTruthful
  <2>2. CASE mode' = "returned"
    <3>1. Listed' = {} /\ \A s : In(s)' = {}
      BY <1>1, <2>2 DEF Listed, In
    <3>2. /\ answer'.success = TRUE /\ answer'.completed = 0
          /\ answer'.total = 0 /\ answer'.failed = {}
      BY <1>1, <2>2 DEF NoAnswer
    <3> QED
      BY <3>1, <3>2, FS_EmptySet DEF AnswerTruthful
  <2> QED
    BY <1>1, <2>1, <2>2
<1> QED
  BY <1>3, <1>4, <1>5, <1>6, <1>7, <1>8 DEF IInv

LEMMA ReturnStep ==
  ASSUME IInv, ReturnAnswer
  PROVE  IInv'
<1> DEFINE new == [success   |-> In("failed") = {},
                   completed |-> Cardinality(DOMAIN values),
                   total     |-> Cardinality(Listed),
                   failed    |-> {f.task : f \in {g \in failures : g.named}},
                   workers   |-> {f.worker : f \in failures}]
<1>1. /\ mode = "running" /\ mode' = "returned" /\ Drained /\ answer' = new
      /\ UNCHANGED <<method, place, priority, excluded, at, attempts,
                     candidates, values, failures, runs>>
  BY DEF ReturnAnswer, arguments
<1>2. DOMAIN values = In("done") /\ IsFiniteSet(DOMAIN values)
  BY InFinite DEF IInv, Collected
<1>3. new \in Answer
  <2>1. Cardinality(DOMAIN values) \in Nat /\ Cardinality(Listed) \in Nat
    BY <1>2, DoneListed, FS_CardinalityType
  <2>2. \A f \in failures : f.task \in Name /\ f.worker \in ListWorkerName
    BY DEF IInv, TypeOK, Failure
  <2> QED
    BY <2>1, <2>2 DEF Answer
<1>4. /\ new.success <=> In("failed") = {}
      /\ new.completed = Cardinality(In("done"))
      /\ new.total = Cardinality(Listed)
      /\ new.failed = {f.task : f \in {g \in failures : g.named}}
  BY <1>2
<1> HIDE DEF new
<1>5. TypeOK'
  BY <1>1, <1>3 DEF IInv, TypeOK
<1>6. Fresh' /\ OnlyListed'
  BY <1>1 DEF IInv, Fresh, OnlyListed, Listed
<1>7. OneByOne' /\ InTurn'
  BY <1>1 DEF IInv, OneByOne, InTurn, Listed, Precedes
<1>8. AllCounted' /\ candidates' \subseteq Worker \ excluded'
  BY <1>1 DEF IInv, AllCounted, Counted, Active, Permitted
<1>9. Collected'
  BY <1>1 DEF IInv, Collected, In, Listed
<1>10. new.success <=> \A t \in Listed : at[t] = "done"
  BY <1>1, <1>4 DEF Drained, Stopped, In
<1>11. new.failed \subseteq In("failed")
  BY <1>4 DEF IInv, Collected
<1>12. In("running") = {} /\ (method = "parallel" => In("waiting") = {})
  <2>1. CASE Listed = In("done") \cup In("failed")
    BY <2>1 DEF In
  <2>2. CASE Stopped
    BY <2>2 DEF Stopped, IInv, OneByOne, In
  <2> QED
    BY <1>1, <2>1, <2>2 DEF Drained
<1>13. method # "parallel" =>
         \A t, u \in Listed : at[u] = "failed" /\ Precedes(u, t) => runs[t] = 0
  <2>1. ASSUME method # "parallel", NEW t \in Listed, NEW u \in Listed,
               at[u] = "failed", Precedes(u, t)
        PROVE  runs[t] = 0
    <3>1. ~ runs[t] > 0
      BY <2>1 DEF IInv, InTurn
    <3> QED
      BY <3>1, Types DEF IInv
  <2> QED
    BY <2>1
<1>14. /\ Listed' = Listed /\ \A s : In(s)' = In(s)
       /\ \A t, u : Precedes(t, u)' <=> Precedes(t, u)
  BY <1>1 DEF Listed, In, Precedes
<1>15. AnswerTruthful'
  BY <1>1, <1>4, <1>10, <1>11, <1>12, <1>13, <1>14 DEF AnswerTruthful
<1> QED
  BY <1>5, <1>6, <1>7, <1>8, <1>9, <1>15 DEF IInv

LEMMA ListStepInvariant ==
  ASSUME IInv, ListStep
  PROVE  IInv'
BY EnterStep, StartStep, FindStep, TryStep, SucceedStep, FailStep,
   UnansweredStep, ReturnStep DEF ListStep

\* Nothing has been done on a new AEM object.
LEMMA NewCall ==
  ASSUME mode \in {"idle", "called"}, method \in Method,
         DOMAIN place \subseteq Name, place \in [DOMAIN place -> Nat],
         priority \in [Name -> Int], excluded \in SUBSET ListWorkerName,
         at = [t \in Name |-> "waiting"], attempts = [t \in Name |-> 0],
         candidates = {}, values = [t \in {} |-> None], failures = {},
         answer = NoAnswer, runs = [t \in Name |-> 0]
  PROVE  IInv
<1>1. TypeOK
  <2>1. NoAnswer \in Answer
    BY DEF NoAnswer, Answer
  <2>2. 0 \in 0 .. MaxRetries + 1
    BY RetryAssumption
  <2>3. DOMAIN values = {} /\ values \in [{} -> Output]
    OBVIOUS
  <2> QED
    BY <2>1, <2>2, <2>3 DEF TypeOK, TaskState
<1>2. /\ \A t \in Name : at[t] = "waiting" /\ runs[t] = 0 /\ attempts[t] = 0
      /\ Listed \subseteq Name
  BY DEF Listed
<1>3. Fresh /\ OnlyListed /\ OneByOne /\ InTurn
  BY <1>2 DEF Fresh, OnlyListed, OneByOne, InTurn
<1>4. AllCounted
  <2>1. Cardinality(candidates) = 0 /\ Permitted \in Nat
    BY FS_EmptySet, ListWorkerAssumption, FS_Subset, FS_CardinalityType
       DEF Permitted
  <2> QED
    BY <1>2, <2>1, RetryAssumption DEF AllCounted, Counted, Active
<1>5. Collected
  BY <1>2 DEF Collected, In
<1>6. AnswerTruthful
  BY DEF AnswerTruthful
<1> QED
  BY <1>1, <1>3, <1>4, <1>5, <1>6 DEF IInv

LEMMA CallStep ==
  ASSUME NEW m \in Method, NEW list, DOMAIN list \subseteq Name,
         list \in [DOMAIN list -> Nat], NEW prio \in [Name -> Int],
         NEW excl \in SUBSET ListWorkerName, CallMethod(m, list, prio, excl)
  PROVE  IInv'
<1>1. /\ mode' = "called" /\ method' = m /\ place' = list
      /\ priority' = prio /\ excluded' = excl
      /\ at' = [t \in Name |-> "waiting"] /\ attempts' = [t \in Name |-> 0]
      /\ candidates' = {} /\ values' = [t \in {} |-> None]
      /\ failures' = {} /\ answer' = NoAnswer /\ runs' = [t \in Name |-> 0]
  BY DEF CallMethod
<1>2. TypeOK'
  <2>1. NoAnswer \in Answer
    BY DEF NoAnswer, Answer
  <2>2. 0 \in 0 .. MaxRetries + 1
    BY RetryAssumption
  <2>3. DOMAIN values' = {} /\ values' \in [{} -> Output]
    BY <1>1
  <2> QED
    BY <1>1, <2>1, <2>2, <2>3 DEF TypeOK, TaskState
<1>3. /\ \A t \in Name : at'[t] = "waiting" /\ runs'[t] = 0 /\ attempts'[t] = 0
      /\ Listed' \subseteq Name
  BY <1>1 DEF Listed
<1>4. Fresh' /\ OnlyListed' /\ OneByOne' /\ InTurn'
  BY <1>3 DEF Fresh, OnlyListed, OneByOne, InTurn
<1>5. AllCounted'
  <2>1. Cardinality(candidates') = 0 /\ Permitted' \in Nat
    BY <1>1, FS_EmptySet, ListWorkerAssumption, FS_Subset, FS_CardinalityType
       DEF Permitted
  <2> QED
    BY <1>3, <2>1, RetryAssumption DEF AllCounted, Counted, Active
<1>6. Collected' /\ AnswerTruthful' /\ candidates' \subseteq Worker \ excluded'
  BY <1>1, <1>3 DEF Collected, In, AnswerTruthful
<1> QED
  BY <1>2, <1>4, <1>5, <1>6 DEF IInv

LEMMA InitInvariant == Init => IInv
<1> SUFFICES ASSUME Init
             PROVE  IInv
  OBVIOUS
<1>1. DOMAIN place = {} /\ place \in [{} -> Nat]
  BY DEF Init
<1>2. method \in Method /\ priority \in [Name -> Int]
  BY DEF Init, Method
<1> QED
  BY <1>1, <1>2, NewCall DEF Init

LEMMA NextInvariant ==
  ASSUME IInv, [Next]_listVars
  PROVE  IInv'
<1>1. CASE Call
  BY <1>1, CallsAssumption, CallStep DEF Call
<1>2. CASE ListStep
  BY <1>2, ListStepInvariant
<1>3. CASE UNCHANGED listVars
  <2>1. UNCHANGED <<mode, method, place, priority, excluded, at, attempts,
                    candidates, values, failures, answer, runs>>
    BY <1>3 DEF listVars, arguments
  <2>2. TypeOK' /\ Fresh' /\ OnlyListed'
    BY <2>1 DEF IInv, TypeOK, Fresh, OnlyListed, Listed
  <2>3. OneByOne' /\ InTurn'
    BY <2>1 DEF IInv, OneByOne, InTurn, Listed, Precedes
  <2>4. AllCounted' /\ candidates' \subseteq Worker \ excluded'
    BY <2>1 DEF IInv, AllCounted, Counted, Active, Permitted
  <2>5. Collected' /\ AnswerTruthful'
    BY <2>1 DEF IInv, Collected, AnswerTruthful, In, Listed, Precedes
  <2> QED
    BY <2>2, <2>3, <2>4, <2>5 DEF IInv
<1> QED
  BY <1>1, <1>2, <1>3 DEF Next

LEMMA Inductive == Spec => []IInv
<1>1. IInv /\ [Next]_listVars => IInv'
  BY NextInvariant
<1> QED
  BY InitInvariant, <1>1, PTL DEF Spec

\* Only the methods that take one task after another raise, and the task the
\* exception came from has failed.
Raised ==
  mode = "raised" => method # "parallel" /\ In("failed") # {}

LEMMA RaisedStep ==
  ASSUME IInv, Raised, ListStep
  PROVE  Raised'
<1>1. CASE \E t \in Name : Raise(t)
  <2>1. PICK t \in Name : Raise(t)
    BY <1>1
  <2>2. /\ at' = [at EXCEPT ![t] = "failed"] /\ at[t] = "running"
        /\ UNCHANGED <<method, place>>
        /\ mode' = "raised" => method # "parallel"
    BY <2>1 DEF Raise, arguments
  <2>3. t \in Listed /\ at'[t] = "failed" /\ Listed' = Listed
    BY <2>2 DEF IInv, OnlyListed, TypeOK, Listed
  <2> QED
    BY <2>2, <2>3 DEF Raised, In
<1>2. CASE ~ \E t \in Name : Raise(t)
  <2>1. mode' # "raised"
    BY <1>2 DEF ListStep, EnterLoop, StartListed, MayStart, FindCandidates,
                TryWorker, FailBy, Succeed, Unserved, ReturnAnswer
  <2> QED
    BY <2>1 DEF Raised
<1> QED
  BY <1>1, <1>2

\* Nothing is in work before the loop is entered or after the call has ended.
LEMMA Quiet ==
  ASSUME IInv, Raised, mode # "running"
  PROVE  \A t \in Name : at[t] # "running"
<1> SUFFICES ASSUME NEW t \in Name, at[t] = "running"
             PROVE  FALSE
  OBVIOUS
<1>1. t \in Listed
  BY DEF IInv, OnlyListed
<1>2. CASE mode \in {"idle", "called"}
  BY <1>2 DEF IInv, Fresh
<1>3. CASE mode = "returned"
  BY <1>1, <1>3 DEF IInv, AnswerTruthful, In
<1>4. CASE mode = "raised"
  BY <1>1, <1>4 DEF IInv, OneByOne, Raised, In
<1> QED
  BY <1>2, <1>3, <1>4 DEF IInv, TypeOK

\* What a call that has ended reports, and the outputs it has collected.
LEMMA Outcome ==
  ASSUME IInv
  PROVE  /\ DOMAIN values \subseteq Listed
         /\ \A t \in Name : t \in DOMAIN values <=> t \in Listed /\ at[t] = "done"
         /\ mode = "returned" =>
              /\ answer.failed \subseteq Listed \ DOMAIN values
              /\ answer.success <=> DOMAIN values = Listed
              /\ answer.completed = Cardinality(DOMAIN values)
              /\ answer.total = Cardinality(Listed)
              /\ answer.workers \subseteq ListWorkerName
<1>1. DOMAIN values = In("done") /\ Listed \subseteq Name
  BY DEF IInv, Collected, TypeOK, Listed
<1>2. answer.workers \subseteq ListWorkerName
  BY DEF IInv, TypeOK, Answer
<1>3. mode = "returned" =>
        /\ answer.success <=> \A t \in Listed : at[t] = "done"
        /\ answer.completed = Cardinality(In("done"))
        /\ answer.total = Cardinality(Listed)
        /\ answer.failed \subseteq In("failed")
  BY DEF IInv, AnswerTruthful
<1>4. In("failed") \cap In("done") = {} /\ In("failed") \subseteq Listed
      /\ In("done") \subseteq Listed
  BY DEF In
<1>5. (\A t \in Listed : at[t] = "done") <=> In("done") = Listed
  BY DEF In
<1>6. \A t \in Name : t \in In("done") <=> t \in Listed /\ at[t] = "done"
  BY DEF In
<1> QED
  BY <1>1, <1>2, <1>3, <1>4, <1>5, <1>6

-----------------------------------------------------------------------------
(* What holds of every call.                                               *)

\* The methods that take one task after another give a task to a worker only
\* when all that precede it have succeeded, and no method gives it to one
\* more often than it says: max_retries, the candidates, once.
THEOREM DispatchAlwaysInOrder == Spec => []DispatchInOrder
<1>1. ASSUME IInv
      PROVE  DispatchInOrder
  <2>1. OrderKept
    BY <1>1 DEF IInv, InTurn, OrderKept
  <2>2. ASSUME NEW t \in Name
        PROVE  runs[t] <= CASE method = "retry"    -> MaxRetries + 1
                            [] method = "fallback" ->
                                 Cardinality(Worker \ excluded)
                            [] OTHER               -> 1
    <3>1. Counted(t)
      BY <1>1 DEF IInv, AllCounted
    <3>2. CASE method = "retry"
      BY <3>1, <3>2 DEF Counted
    <3>3. CASE method = "fallback"
      BY <3>1, <3>3 DEF Counted, Permitted
    <3>4. CASE method \notin {"retry", "fallback"}
      BY <3>1, <3>4 DEF Counted
    <3> QED
      BY <3>2, <3>3, <3>4
  <2> QED
    BY <1>1, <2>1, <2>2 DEF IInv, DispatchInOrder, AttemptsBounded
<1> QED
  BY Inductive, <1>1, PTL

\* Every AEMResult of the six list methods tells what happened to the tasks,
\* whatever the workers and the threads of the pool did.
THEOREM AnswersTruthful == Spec => []AnswerTruthful
<1>1. IInv => AnswerTruthful
  BY DEF IInv
<1> QED
  BY Inductive, <1>1, PTL

-----------------------------------------------------------------------------
(* Each step is a step of PlanExecution, or none.                          *)

\* What TaskStatus says of a task at s that was dispatched n times.
Looks(s, n) ==
  CASE s = "running" -> "active"
    [] s \in {"done", "failed"} -> s
    [] OTHER -> IF n > 0 THEN "failed" ELSE "waiting"

\* The plan that the abstract specification sees, and what may be repeated.
Seen == [tasks |-> Listed, deps |-> [t \in Name |-> {}], extra |-> 0]
Repeatable == IF method \in {"retry", "fallback"} THEN Listed ELSE {}

LEMMA StatusOf ==
  /\ TaskStatus = [t \in Name |-> Looks(at[t], runs[t])]
  /\ TaskStatus = [t \in Name |-> TaskStatus[t]]
  /\ \A t \in Name : TaskStatus[t] = Looks(at[t], runs[t])
BY DEF TaskStatus, Looks

LEMMA SeenPlan ==
  ASSUME TypeOK
  PROVE  Seen \in Contract!Plan /\ Repeatable \in SUBSET Name
BY DEF TypeOK, Seen, Repeatable, Listed, Contract!Plan

\* A step that moves one task changes what is said of that task alone.
LEMMA MoveStatus ==
  ASSUME IInv, NEW t, NEW s, Moves(t, s)
  PROVE  /\ TaskStatus' = [TaskStatus EXCEPT ![t] = Looks(s, runs'[t])]
         /\ t \in Name /\ TaskStatus[t] = Looks(at[t], runs[t])
         /\ CallVerdict = "open" /\ CallVerdict' = "open"
         /\ UNCHANGED <<Seen, Repeatable>>
<1>1. /\ t \in Name /\ at'[t] = s
      /\ \A u \in Name \ {t} : at'[u] = at[u] /\ runs'[u] = runs[u]
  BY MovesOne DEF Moves
<1>2. \A u \in Name :
        TaskStatus'[u] = IF u = t THEN Looks(s, runs'[t]) ELSE TaskStatus[u]
  BY <1>1 DEF TaskStatus, Looks
<1>3. TaskStatus' = [u \in Name |-> TaskStatus'[u]]
  BY DEF TaskStatus
<1>4. TaskStatus' = [TaskStatus EXCEPT ![t] = Looks(s, runs'[t])]
  BY <1>1, <1>2, <1>3, StatusOf
<1>5. CallVerdict = "open" /\ CallVerdict' = "open"
  BY DEF Moves, CallVerdict
<1>6. UNCHANGED <<Seen, Repeatable>>
  BY DEF Moves, arguments, Seen, Repeatable, Listed
<1> QED
  BY <1>1, <1>4, <1>5, <1>6, StatusOf

LEMMA InitRefines == Init => Contract!Init
<1> SUFFICES ASSUME Init
             PROVE  Contract!Init
  OBVIOUS
<1>1. Seen \in Contract!Plan /\ Repeatable \in SUBSET Name
  BY InitInvariant, SeenPlan DEF IInv
<1>2. TaskStatus = [t \in Name |-> "waiting"] /\ CallVerdict = "none"
  BY DEF Init, TaskStatus, CallVerdict
<1> QED
  BY <1>1, <1>2 DEF Contract!Init, Seen, Repeatable

LEMMA CallRefines ==
  ASSUME IInv, IInv', Call
  PROVE  Contract!Submit
<1>1. /\ mode = "idle" /\ mode' = "called"
      /\ at' = [t \in Name |-> "waiting"] /\ runs' = [t \in Name |-> 0]
  BY DEF Call, CallMethod
<1>2. \A t \in Name : at[t] = "waiting" /\ runs[t] = 0
  BY <1>1 DEF IInv, Fresh
<1>3. UNCHANGED TaskStatus
  BY <1>1, <1>2 DEF TaskStatus
<1>4. CallVerdict = "none" /\ CallVerdict' = "none"
  BY <1>1 DEF CallVerdict
<1>5. Seen' \in Contract!Plan /\ Repeatable' \in SUBSET Name
  <2>1. Listed' \subseteq Name
    BY DEF IInv, TypeOK, Listed
  <2> QED
    BY <2>1 DEF Seen, Repeatable, Contract!Plan
<1> QED
  BY <1>3, <1>4, <1>5 DEF Contract!Submit, Seen, Repeatable

LEMMA EnterRefines ==
  ASSUME IInv, EnterLoop
  PROVE  Contract!Open({}) \/ Contract!Refuse
<1>1. /\ mode = "called"
      /\ UNCHANGED <<method, place, at, runs>>
  BY DEF EnterLoop, arguments
<1>2. UNCHANGED <<TaskStatus, Seen, Repeatable>>
  BY <1>1 DEF TaskStatus, Seen, Repeatable, Listed
<1>3. CallVerdict = "none"
  BY <1>1 DEF CallVerdict
<1>4. CASE Listed = {}
  <2>1. mode' = "returned" /\ answer' = [NoAnswer EXCEPT !.success = TRUE]
    BY <1>4 DEF EnterLoop
  <2>2. CallVerdict' = "success"
    BY <2>1 DEF CallVerdict, NoAnswer
  <2>3. Contract!Empty(Seen)
    BY <1>4 DEF Contract!Empty, Seen
  <2>4. Contract!Refuse
    BY <1>2, <1>3, <2>2, <2>3 DEF Contract!Refuse, Seen, Repeatable
  <2> QED
    BY <2>4
<1>5. CASE Listed # {}
  <2>1. CallVerdict' = "open"
    BY <1>5 DEF EnterLoop, CallVerdict
  <2>2. Contract!Valid(Seen) /\ Contract!ClosedUnder(Seen, {})
    <3>1. /\ Seen.tasks = Listed /\ Seen.extra = 0
          /\ Seen.deps = [t \in Name |-> {}] /\ Listed \subseteq Name
      BY DEF Seen, IInv, TypeOK, Listed
    <3> QED
      BY <3>1 DEF Contract!Valid, Contract!WellNamed, Contract!References,
                  Contract!Acyclic, Contract!ClosedUnder
  <2>3. TaskStatus' = [t \in Name |-> IF t \in {} THEN "done" ELSE "waiting"]
    BY <1>1, <1>2 DEF IInv, Fresh, TaskStatus
  <2>4. Contract!Open({})
    BY <1>2, <1>3, <2>1, <2>2, <2>3 DEF Contract!Open, Seen, Repeatable
  <2> QED
    BY <2>4
<1> QED
  BY <1>4, <1>5

\* A task is given to a worker, for the first time or once more.
LEMMA StartRefines ==
  ASSUME IInv, NEW t \in Name,
         StartListed(t) \/ \E w \in Worker : TryWorker(t, w)
  PROVE  Contract!Start(t)
<1>1. /\ mode = "running" /\ mode' = "running" /\ UNCHANGED arguments
      /\ at' = [at EXCEPT ![t] = "running"]
      /\ runs' = [runs EXCEPT ![t] = @ + 1]
      /\ \/ at[t] = "waiting" /\ t \in Listed /\ method # "fallback"
         \/ at[t] = "searching"
  BY DEF StartListed, TryWorker, MayStart
<1>2. runs \in [Name -> Nat] /\ Counted(t)
  BY DEF IInv, TypeOK, AllCounted
<1>3. t \in Listed
  BY <1>1 DEF IInv, OnlyListed
<1>4. Moves(t, "running")
  BY <1>1, <1>2, <1>3 DEF Moves, TaskState
<1>5. /\ TaskStatus' = [TaskStatus EXCEPT ![t] = "active"]
      /\ TaskStatus[t] = Looks(at[t], runs[t])
      /\ CallVerdict = "open" /\ CallVerdict' = "open"
      /\ UNCHANGED <<Seen, Repeatable>>
  BY <1>4, MoveStatus DEF Looks
<1>6. \/ TaskStatus[t] = "waiting"
      \/ TaskStatus[t] = "failed" /\ t \in Repeatable
  <2>1. runs[t] > 0 => method \in {"retry", "fallback"}
    BY <1>1, <1>2 DEF Counted
  <2>2. at[t] \in {"waiting", "searching"}
    BY <1>1
  <2> QED
    BY <1>3, <1>5, <2>1, <2>2 DEF Looks, Repeatable
<1>7. Seen.deps[t] = {}
  BY DEF Seen
<1> QED
  BY <1>5, <1>6, <1>7 DEF Contract!Start, Seen, Repeatable

\* No candidate is found, or some are.
LEMMA FindRefines ==
  ASSUME IInv, NEW t \in Name, FindCandidates(t)
  PROVE  \/ Contract!Abandon(t)
         \/ UNCHANGED <<Seen, Repeatable, TaskStatus, CallVerdict>>
<1>1. PICK s \in {"failed", "searching"} : at' = [at EXCEPT ![t] = s]
  <2>1. PICK C \in SUBSET Worker :
          at' = [at EXCEPT ![t] = IF Eligible(C) = {} THEN "failed"
                                                      ELSE "searching"]
    BY DEF FindCandidates
  <2> QED
    BY <2>1
<1>2. /\ mode = "running" /\ mode' = "running" /\ t \in Listed
      /\ at[t] = "waiting" /\ method = "fallback"
      /\ UNCHANGED arguments /\ runs' = runs
  BY DEF FindCandidates, MayStart
<1>3. runs[t] = 0
  BY <1>2 DEF IInv, AllCounted, Counted
<1>4. Moves(t, s)
  BY <1>1, <1>2 DEF Moves, TaskState
<1>5. /\ TaskStatus' = [TaskStatus EXCEPT ![t] = Looks(s, 0)]
      /\ TaskStatus[t] = "waiting"
      /\ CallVerdict = "open" /\ CallVerdict' = "open"
      /\ UNCHANGED <<Seen, Repeatable>>
  <2>1. runs'[t] = 0 /\ Looks("waiting", 0) = "waiting"
    BY <1>2, <1>3 DEF Looks
  <2> QED
    BY <1>2, <1>3, <1>4, <2>1, MoveStatus
<1>6. CASE s = "failed"
  BY <1>5, <1>6 DEF Contract!Abandon, Looks, Seen, Repeatable
<1>7. CASE s = "searching"
  <2>1. Looks(s, 0) = "waiting"
    BY <1>7 DEF Looks
  <2>2. TaskStatus' = TaskStatus
    BY <1>2, <1>5, <2>1, StatusOf
  <2> QED
    BY <1>5, <2>2
<1> QED
  BY <1>1, <1>6, <1>7

\* A dispatch comes back.
LEMMA FinishRefines ==
  ASSUME IInv, NEW t \in Name,
         \/ Succeed(t) \/ Unserved(t) \/ Raise(t)
         \/ \E w \in Worker : FailBy(t, w)
  PROVE  Contract!Finish(t)
<1> DEFINE s == at'[t]
<1>1. /\ mode = "running" /\ mode' \in {"running", "raised"}
      /\ at[t] = "running" /\ UNCHANGED <<arguments, runs>>
  BY DEF Succeed, Unserved, Raise, FailBy
<1>2. at \in [Name -> TaskState]
  BY DEF IInv, TypeOK
<1>3. /\ at' = [at EXCEPT ![t] = s]
      /\ s \in {"waiting", "searching", "done", "failed"}
  BY <1>2 DEF Succeed, Unserved, Raise, FailBy, AfterFailure
<1> HIDE DEF s
<1>4. t \in Listed /\ Counted(t) /\ runs[t] \in Nat
  BY <1>1, RunningCounted
<1>5. Moves(t, s)
  BY <1>1, <1>3, <1>4 DEF Moves, TaskState
<1>6. /\ TaskStatus' = [TaskStatus EXCEPT ![t] = Looks(s, runs[t])]
      /\ TaskStatus[t] = "active"
      /\ CallVerdict' = CallVerdict
      /\ UNCHANGED <<Seen, Repeatable>>
  BY <1>1, <1>5, MoveStatus DEF Looks
<1>7. Looks(s, runs[t]) \in {"done", "failed"}
  <2>1. runs[t] > 0
    BY <1>1, <1>4 DEF Counted
  <2> QED
    BY <1>3, <2>1 DEF Looks
<1> QED
  BY <1>6, <1>7 DEF Contract!Finish, Seen, Repeatable

\* The answer leaves no task running, and is a success only when all are done.
LEMMA ReturnRefines ==
  ASSUME IInv, IInv', ReturnAnswer
  PROVE  \E v \in {"success", "failure"} : Contract!Close(v)
<1>1. /\ mode = "running" /\ mode' = "returned"
      /\ UNCHANGED <<method, place, at, runs>>
  BY DEF ReturnAnswer, arguments
<1>2. UNCHANGED <<TaskStatus, Seen, Repeatable>>
  BY <1>1 DEF TaskStatus, Seen, Repeatable, Listed
<1>3. /\ answer'.success <=> \A t \in Listed : at[t] = "done"
      /\ In("running") = {}
  BY <1>1 DEF IInv, AnswerTruthful, In, Listed
<1>4. \A t \in Name : at[t] # "running"
  BY <1>3 DEF IInv, OnlyListed, In
<1>5. \A t \in Name : TaskStatus[t] # "active"
  BY <1>4 DEF TaskStatus
<1>6. answer'.success => \A t \in Listed : TaskStatus[t] = "done"
  BY <1>3 DEF TaskStatus, IInv, TypeOK, Listed
<1>7. CallVerdict = "open"
  BY <1>1 DEF CallVerdict
<1>8. CASE answer'.success
  <2>1. CallVerdict' = "success"
    BY <1>1, <1>8 DEF CallVerdict
  <2>2. Contract!Close("success")
    BY <1>2, <1>5, <1>6, <1>7, <1>8, <2>1
       DEF Contract!Close, Seen, Repeatable
  <2> QED
    BY <2>2
<1>9. CASE ~ answer'.success
  <2>1. CallVerdict' = "failure"
    BY <1>1, <1>9 DEF CallVerdict
  <2>2. Contract!Close("failure")
    BY <1>2, <1>5, <1>7, <2>1 DEF Contract!Close, Seen, Repeatable
  <2> QED
    BY <2>2
<1> QED
  BY <1>8, <1>9

LEMMA NextRefines ==
  ASSUME IInv, IInv', [Next]_listVars
  PROVE  [Contract!Next]_(Contract!vars)
<1>1. CASE Call
  BY <1>1, CallRefines DEF Contract!Next
<1>2. CASE EnterLoop
  <2>1. {} \in SUBSET Seen.tasks
    OBVIOUS
  <2> QED
    BY <1>2, <2>1, EnterRefines DEF Contract!Next, Seen
<1>3. CASE \E t \in Name :
             StartListed(t) \/ \E w \in Worker : TryWorker(t, w)
  BY <1>3, StartRefines DEF Contract!Next
<1>4. CASE \E t \in Name : FindCandidates(t)
  BY <1>4, FindRefines DEF Contract!Next, Contract!vars, Seen, Repeatable
<1>5. CASE \E t \in Name : \/ Succeed(t) \/ Unserved(t) \/ Raise(t)
                          \/ \E w \in Worker : FailBy(t, w)
  BY <1>5, FinishRefines DEF Contract!Next
<1>6. CASE ReturnAnswer
  BY <1>6, ReturnRefines DEF Contract!Next
<1>7. CASE UNCHANGED listVars
  <2>1. UNCHANGED <<mode, method, place, at, answer, runs>>
    BY <1>7 DEF listVars, arguments
  <2>2. UNCHANGED <<Seen, Repeatable, TaskStatus, CallVerdict>>
    BY <2>1 DEF Seen, Repeatable, TaskStatus, CallVerdict, Listed
  <2> QED
    BY <2>2 DEF Contract!vars, Seen, Repeatable
<1> QED
  BY <1>1, <1>2, <1>3, <1>4, <1>5, <1>6, <1>7 DEF Next, ListStep

\* The six methods that look at no dependency do what executing a plan
\* promises: no task runs on after the answer, and none is repeated except by
\* RetryAEM and FallbackAEM, after it has failed.
THEOREM Refinement == Spec => ImplementsContract
<1>1. Spec => Contract!Init
  BY InitRefines DEF Spec
<1>2. IInv /\ IInv' /\ [Next]_listVars => [Contract!Next]_(Contract!vars)
  BY NextRefines
<1> QED
  BY <1>1, <1>2, Inductive, PTL DEF Spec, ImplementsContract, Contract!Spec
=============================================================================
