----------------------- MODULE GraphValidationProofs -----------------------
(***************************************************************************)
(* Proofs about GraphValidation, for every set of names and plans.         *)
(***************************************************************************)
EXTENDS GraphValidation, SequenceTheorems, TLAPS

Searched == verdict \in {"searching", "accepted", "circular"}

\* No name has two active calls.
PathDistinct ==
  \A i, j \in 1..Len(path) : path[i] = path[j] => i = j

\* Each active call was made for a dependency of the one around it.
PathLinked ==
  \A i \in 1..Len(path) : i < Len(path) => path[i + 1] \in plan.deps[path[i]]

\* A dependency an active call has iterated is finished, or is the call
\* it is waiting for.
Iterated ==
  \A i \in 1..Len(path) :
    /\ todo[path[i]] \subseteq plan.deps[path[i]]
    /\ \A e \in plan.deps[path[i]] \ todo[path[i]] :
         visitState[e] = 2 \/ (i < Len(path) /\ e = path[i + 1])

\* Only tasks of the plan are visited, and those the outer loop is past are.
Coverage ==
  /\ \A n \in Name : visitState[n] # 0 => n \in plan.tasks
  /\ roots \subseteq plan.tasks
  /\ verdict # "checking" =>
       \A n \in plan.tasks \ roots : visitState[n] # 0

IInv ==
  /\ TypeOK
  /\ verdict = "checking" => path = << >> /\ \A n \in Name : visitState[n] = 0
  /\ Searched => WellNamed(plan) /\ References(plan)
  /\ ActiveOnPath
  /\ PathDistinct
  /\ PathLinked
  /\ Iterated
  /\ Coverage
  /\ FinishedSound
  /\ VerdictCorrect

-----------------------------------------------------------------------------
\* F is closed under the dependencies D and holds no cycle.
Sound(D, F) ==
  /\ \A t \in F : D[t] \subseteq F
  /\ \A S \in SUBSET F : S # {} => \E t \in S : D[t] \cap S = {}

(***************************************************************************)
(* Adding to a closed set without cycles a name all of whose dependencies  *)
(* it holds keeps both properties: what returning True from visit relies   *)
(* on.                                                                     *)
(***************************************************************************)
LEMMA SoundExtension ==
  ASSUME NEW D, NEW F, NEW n, n \notin F, D[n] \subseteq F, Sound(D, F)
  PROVE  Sound(D, F \cup {n})
<1> USE DEF Sound
<1>1. \A t \in F \cup {n} : D[t] \subseteq F \cup {n}
  OBVIOUS
<1>2. ASSUME NEW S \in SUBSET (F \cup {n}), S # {}
      PROVE  \E t \in S : D[t] \cap S = {}
  <2>1. CASE n \notin S
    BY <1>2, <2>1
  <2>2. CASE S = {n}
    BY <2>2
  <2>3. CASE n \in S /\ S # {n}
    <3>1. S \ {n} \in SUBSET F /\ S \ {n} # {}
      BY <1>2, <2>3
    <3>2. PICK t \in S \ {n} : D[t] \cap (S \ {n}) = {}
      BY <3>1
    <3>3. D[t] \subseteq F
      BY <3>1, <3>2
    <3> QED
      BY <3>2, <3>3
  <2> QED
    BY <2>1, <2>2, <2>3
<1> QED
  BY <1>1, <1>2

(***************************************************************************)
(* A dependency of the innermost call that is itself being visited closes  *)
(* a cycle through the calls between the two.                              *)
(***************************************************************************)
LEMMA CycleFound ==
  ASSUME TypeOK, PathLinked, Iterated, Coverage, ActiveOnPath, path # << >>,
         NEW e \in todo[Top], visitState[e] = 1
  PROVE  ~Acyclic(plan)
<1>1. e \in Name
  BY DEF TypeOK, Top
<1>2. PICK i \in 1..Len(path) : path[i] = e
  BY <1>1 DEF ActiveOnPath
<1> DEFINE S == {path[j] : j \in i..Len(path)}
<1>3. Len(path) \in Nat /\ \A j \in 1..Len(path) : path[j] \in Name
  BY DEF TypeOK
<1>4. S \subseteq plan.tasks
  <2>1. \A j \in i..Len(path) : j \in 1..Len(path)
    BY <1>2, <1>3
  <2>2. \A j \in 1..Len(path) : visitState[path[j]] = 1
    BY <1>3 DEF ActiveOnPath
  <2> QED
    BY <1>3, <2>1, <2>2 DEF Coverage
<1>5. e \in S
  BY <1>2, <1>3
<1>6. ASSUME NEW t \in S
      PROVE  plan.deps[t] \cap S # {}
  <2>1. PICK j \in i..Len(path) : t = path[j]
    BY <1>6
  <2>2. CASE j = Len(path)
    <3>1. e \in plan.deps[t]
      BY <1>3, <1>2, <2>1, <2>2 DEF Iterated, Top
    <3> QED
      BY <3>1, <1>5
  <2>3. CASE j # Len(path)
    <3>1. j \in 1..Len(path) /\ j < Len(path) /\ j + 1 \in i..Len(path)
      BY <1>2, <1>3, <2>1, <2>3
    <3>2. path[j + 1] \in plan.deps[t]
      BY <2>1, <3>1 DEF PathLinked
    <3> QED
      BY <3>1, <3>2
  <2> QED
    BY <2>2, <2>3
<1> QED
  BY <1>4, <1>5, <1>6 DEF Acyclic

-----------------------------------------------------------------------------
LEMMA InitInvariant == Init => IInv
BY PlansAssumption
   DEF Init, IInv, TypeOK, Plan, Verdict, Searched, ActiveOnPath,
       PathDistinct, PathLinked, Iterated, Coverage, FinishedSound,
       Finished, ClosedUnder, VerdictCorrect

\* Entering visit(n) for an unvisited task n, from the outer loop or from
\* the innermost active call, whose pending dependencies become rest.
LEMMA PushPath ==
  ASSUME TypeOK, ActiveOnPath, PathDistinct, NEW n \in Name,
         visitState[n] = 0,
         path' = Append(path, n),
         visitState' = [visitState EXCEPT ![n] = 1]
  PROVE  /\ path' \in Seq(Name)
         /\ Len(path') = Len(path) + 1
         /\ \A i \in 1..Len(path) : path'[i] = path[i] /\ path[i] # n
         /\ path'[Len(path')] = n
         /\ ActiveOnPath'
         /\ PathDistinct'
<1>1. path \in Seq(Name) /\ Len(path) \in Nat
  BY DEF TypeOK
<1>2. /\ path' \in Seq(Name)
      /\ Len(path') = Len(path) + 1
      /\ \A i \in 1..Len(path) : path'[i] = path[i]
      /\ path'[Len(path')] = n
  BY <1>1
<1>3. \A i \in 1..Len(path) : path[i] # n
  BY DEF ActiveOnPath
<1>4. ActiveOnPath'
  <2> SUFFICES ASSUME NEW m \in Name
               PROVE  visitState'[m] = 1
                        <=> \E i \in 1..Len(path') : path'[i] = m
    BY DEF ActiveOnPath
  <2>1. CASE m = n
    BY <1>1, <1>2, <2>1 DEF TypeOK
  <2>2. CASE m # n
    <3>1. visitState'[m] = visitState[m]
      BY <2>2 DEF TypeOK
    <3>2. \A i \in 1..Len(path') : i \in 1..Len(path) \/ i = Len(path')
      BY <1>1, <1>2
    <3>3. \A i \in 1..Len(path) : i \in 1..Len(path')
      BY <1>1, <1>2
    <3> QED
      BY <1>2, <2>2, <3>1, <3>2, <3>3 DEF ActiveOnPath
  <2> QED
    BY <2>1, <2>2
<1>5. PathDistinct'
  <2>1. \A i \in 1..Len(path') : i \in 1..Len(path) \/ i = Len(path')
    BY <1>1, <1>2
  <2> QED
    BY <1>2, <1>3, <2>1 DEF PathDistinct
<1> QED
  BY <1>2, <1>3, <1>4, <1>5

LEMMA CheckListStep == IInv /\ CheckList => IInv'
<1> SUFFICES ASSUME IInv, CheckList
             PROVE  IInv'
  OBVIOUS
<1> USE DEF IInv, CheckList
<1>1. TypeOK'
  BY DEF TypeOK, Verdict, Plan
<1>2. (Searched => WellNamed(plan) /\ References(plan))'
  BY DEF Searched
<1>3. ActiveOnPath' /\ PathDistinct' /\ PathLinked' /\ Iterated'
  BY DEF ActiveOnPath, PathDistinct, PathLinked, Iterated
<1>4. Coverage'
  BY DEF Coverage
<1>5. FinishedSound'
  BY DEF FinishedSound, Finished, ClosedUnder
<1>6. VerdictCorrect'
  BY DEF VerdictCorrect
<1>7. verdict' # "checking"
  OBVIOUS
<1> QED
  BY <1>1, <1>2, <1>3, <1>4, <1>5, <1>6, <1>7

LEMMA VisitRootStep ==
  ASSUME IInv, NEW n \in Name, VisitRoot(n)
  PROVE  IInv'
<1> USE DEF IInv, VisitRoot
<1>1. n \in plan.tasks /\ WellNamed(plan) /\ References(plan)
  BY DEF Coverage, Searched
<1>2. CASE visitState[n] # 0
  <2>1. /\ TypeOK'
        /\ ActiveOnPath' /\ PathDistinct' /\ PathLinked' /\ Iterated'
    BY <1>2 DEF TypeOK, ActiveOnPath, PathDistinct, PathLinked, Iterated
  <2>2. Coverage'
    BY <1>2 DEF Coverage
  <2>3. FinishedSound' /\ VerdictCorrect'
    BY <1>2 DEF FinishedSound, Finished, ClosedUnder, VerdictCorrect
  <2> QED
    BY <1>1, <1>2, <2>1, <2>2, <2>3 DEF Searched
<1>3. CASE visitState[n] = 0
  <2> USE DEF Push
  <2>0. path = << >> /\ Len(path) = 0 /\ n \notin Finished
    BY <1>3 DEF Finished
  <2>1. /\ path' \in Seq(Name)
        /\ Len(path') = 1
        /\ path'[1] = n
        /\ ActiveOnPath'
        /\ PathDistinct'
    BY <1>3, <2>0, PushPath
  <2>2. TypeOK'
    BY <1>3, <2>1 DEF TypeOK, Plan
  <2>3. PathLinked'
    BY <2>1 DEF PathLinked
  <2>4. Iterated'
    BY <1>3, <2>1 DEF Iterated, TypeOK, Plan
  <2>5. Coverage'
    <3>1. /\ visitState' = [visitState EXCEPT ![n] = 1]
          /\ roots' = roots \ {n}
          /\ UNCHANGED <<plan, verdict>>
      BY <1>3
    <3>2. /\ plan.tasks \subseteq Name
          /\ \A m \in Name :
               visitState'[m] = IF m = n THEN 1 ELSE visitState[m]
      BY <3>1 DEF TypeOK, Plan
    <3> HIDE DEF VisitRoot
    <3> QED
      BY <1>1, <3>1, <3>2 DEF Coverage
  <2>6. Finished' = Finished
    BY <1>3 DEF Finished, TypeOK
  <2>7. FinishedSound' /\ VerdictCorrect'
    BY <1>3, <2>6 DEF FinishedSound, ClosedUnder, VerdictCorrect
  <2> QED
    BY <1>1, <1>3, <2>1, <2>2, <2>3, <2>4, <2>5, <2>7 DEF Searched
<1> QED
  BY <1>2, <1>3

LEMMA VisitDependencyStep ==
  ASSUME IInv, NEW d \in Name, VisitDependency(d)
  PROVE  IInv'
<1> USE DEF IInv, VisitDependency
<1>1. /\ Searched /\ WellNamed(plan) /\ References(plan)
      /\ path \in Seq(Name) /\ Len(path) \in Nat \ {0}
      /\ Top \in Name /\ Len(path) \in 1..Len(path)
  BY DEF Searched, TypeOK, Top
<1>2. visitState[Top] = 1 /\ Top \in plan.tasks
  BY <1>1 DEF ActiveOnPath, Coverage, Top
<1>3. d \in plan.deps[Top]
  BY <1>1 DEF Iterated, Top
<1>4. d \in plan.tasks
  BY <1>1, <1>2, <1>3 DEF References
<1>5. visitState[d] \in {0, 1, 2}
  BY DEF TypeOK
<1>6. CASE visitState[d] = 1
  <2>1. ~Acyclic(plan)
    BY <1>6, CycleFound
  <2>2. /\ verdict' = "circular"
        /\ UNCHANGED <<plan, visitState, path, todo, roots>>
    BY <1>6
  <2>3. TypeOK'
    BY <2>2 DEF TypeOK, Verdict, Plan
  <2>4. ActiveOnPath' /\ PathDistinct' /\ PathLinked' /\ Iterated'
    BY <2>2 DEF ActiveOnPath, PathDistinct, PathLinked, Iterated
  <2>5. Coverage' /\ FinishedSound'
    BY <2>2 DEF Coverage, FinishedSound, Finished, ClosedUnder
  <2>6. VerdictCorrect'
    BY <2>1, <2>2 DEF VerdictCorrect
  <2> QED
    BY <1>1, <2>2, <2>3, <2>4, <2>5, <2>6 DEF Searched
<1>7. CASE visitState[d] = 2
  <2>1. /\ todo' = [todo EXCEPT ![Top] = todo[Top] \ {d}]
        /\ UNCHANGED <<plan, verdict, visitState, path, roots>>
    BY <1>7
  <2>2. TypeOK'
    BY <1>1, <2>1 DEF TypeOK, Plan
  <2>3. ActiveOnPath' /\ PathDistinct' /\ PathLinked'
    BY <2>1 DEF ActiveOnPath, PathDistinct, PathLinked
  <2>4. Iterated'
    <3> SUFFICES ASSUME NEW i \in 1..Len(path)
                 PROVE
                   /\ todo'[path[i]] \subseteq plan.deps[path[i]]
                   /\ \A e \in plan.deps[path[i]] \ todo'[path[i]] :
                        visitState[e] = 2 \/ (i < Len(path) /\ e = path[i + 1])
      BY <2>1 DEF Iterated
    <3>1. path[i] \in Name
      BY <1>1
    <3>2. /\ path[i] # Top => todo'[path[i]] = todo[path[i]]
          /\ path[i] = Top => todo'[path[i]] = todo[path[i]] \ {d}
      BY <2>1, <3>1 DEF TypeOK
    <3> QED
      BY <1>7, <3>2 DEF Iterated
  <2>5. Coverage' /\ FinishedSound' /\ VerdictCorrect'
    BY <2>1 DEF Coverage, FinishedSound, Finished, ClosedUnder,
                VerdictCorrect
  <2> QED
    BY <1>1, <2>1, <2>2, <2>3, <2>4, <2>5 DEF Searched
<1>8. CASE visitState[d] = 0
  <2>1. /\ path' = Append(path, d)
        /\ visitState' = [visitState EXCEPT ![d] = 1]
        /\ todo' = [todo EXCEPT ![Top] = todo[Top] \ {d},
                                ![d] = plan.deps[d]]
        /\ UNCHANGED <<plan, verdict, roots>>
    BY <1>1, <1>2, <1>8
  <2>2. /\ path' \in Seq(Name)
        /\ Len(path') = Len(path) + 1
        /\ \A i \in 1..Len(path) : path'[i] = path[i] /\ path[i] # d
        /\ path'[Len(path')] = d
        /\ ActiveOnPath'
        /\ PathDistinct'
    BY <1>8, <2>1, PushPath
  <2>3. TypeOK'
    BY <1>1, <2>1, <2>2 DEF TypeOK, Plan
  <2>4. \A i \in 1..Len(path') : i \in 1..Len(path) \/ i = Len(path')
    BY <1>1, <2>2
  <2>5. PathLinked'
    <3> SUFFICES ASSUME NEW i \in 1..Len(path'), i < Len(path')
                 PROVE  path'[i + 1] \in plan.deps[path'[i]]
      BY <2>1 DEF PathLinked
    <3>1. i \in 1..Len(path) /\ path'[i] = path[i]
      BY <2>2, <2>4
    <3>2. CASE i = Len(path)
      BY <1>3, <2>2, <3>1, <3>2 DEF Top
    <3>3. CASE i # Len(path)
      <4>1. i < Len(path) /\ i + 1 \in 1..Len(path)
        BY <1>1, <3>1, <3>3
      <4> QED
        BY <2>2, <3>1, <4>1 DEF PathLinked
    <3> QED
      BY <3>2, <3>3
  <2>6. Iterated'
    <3> SUFFICES ASSUME NEW i \in 1..Len(path')
                 PROVE
                   /\ todo'[path'[i]] \subseteq plan.deps[path'[i]]
                   /\ \A e \in plan.deps[path'[i]] \ todo'[path'[i]] :
                        \/ visitState'[e] = 2
                        \/ i < Len(path') /\ e = path'[i + 1]
      BY <2>1 DEF Iterated
    <3>1. CASE i = Len(path')
      BY <2>1, <2>2, <3>1 DEF TypeOK
    <3>2. CASE i \in 1..Len(path)
      <4>1. path'[i] = path[i] /\ path[i] # d /\ path[i] \in Name
        BY <1>1, <2>2, <3>2
      <4>2. /\ path[i] # Top => todo'[path[i]] = todo[path[i]]
            /\ path[i] = Top => todo'[path[i]] = todo[path[i]] \ {d}
        BY <2>1, <4>1 DEF TypeOK
      <4>3. todo'[path'[i]] \subseteq plan.deps[path'[i]]
        BY <3>2, <4>1, <4>2 DEF Iterated
      <4>4. ASSUME NEW e \in plan.deps[path'[i]] \ todo'[path'[i]]
            PROVE  \/ visitState'[e] = 2
                   \/ i < Len(path') /\ e = path'[i + 1]
        <5>0. e \in Name
          BY <4>1, <4>4, <2>3, <2>1 DEF TypeOK, Plan
        <5>1. CASE e = d
          <6>1. d \in todo[Top] /\ visitState[d] # 2
            BY <1>8
          <6>2. path[i] # Top => (i < Len(path) /\ d = path[i + 1])
            BY <3>2, <4>1, <4>2, <4>4, <5>1, <6>1 DEF Iterated
          <6>3. path[i] # Top => i + 1 \in 1..Len(path)
            BY <1>1, <3>2, <6>2
          <6>4. path[i] = Top
            BY <2>2, <6>2, <6>3
          <6>5. i = Len(path)
            BY <1>1, <3>2, <6>4 DEF PathDistinct, Top
          <6> QED
            BY <1>1, <2>2, <5>1, <6>5
        <5>2. CASE e # d
          <6>1. e \in plan.deps[path[i]] \ todo[path[i]]
            BY <4>1, <4>2, <4>4, <5>2
          <6>2. visitState[e] = 2 \/ (i < Len(path) /\ e = path[i + 1])
            BY <3>2, <6>1 DEF Iterated
          <6>3. CASE visitState[e] = 2
            BY <1>8, <2>1, <5>0, <5>2, <6>3 DEF TypeOK
          <6>4. CASE i < Len(path) /\ e = path[i + 1]
            <7>1. i + 1 \in 1..Len(path) /\ i < Len(path')
              BY <1>1, <2>2, <3>2, <6>4
            <7> QED
              BY <2>2, <6>4, <7>1
          <6> QED
            BY <6>2, <6>3, <6>4
        <5> QED
          BY <5>1, <5>2
      <4> QED
        BY <4>3, <4>4
    <3> QED
      BY <2>4, <3>1, <3>2
  <2>7. Coverage'
    BY <1>4, <2>1 DEF Coverage, TypeOK
  <2>8. Finished' = Finished
    BY <1>8, <2>1 DEF Finished, TypeOK
  <2>9. FinishedSound' /\ VerdictCorrect'
    BY <2>1, <2>8 DEF FinishedSound, ClosedUnder, VerdictCorrect
  <2> QED
    BY <1>1, <2>1, <2>2, <2>3, <2>5, <2>6, <2>7, <2>9 DEF Searched
<1> QED
  BY <1>5, <1>6, <1>7, <1>8

LEMMA FinishVisitStep == IInv /\ FinishVisit => IInv'
<1> SUFFICES ASSUME IInv, FinishVisit
             PROVE  IInv'
  OBVIOUS
<1> USE DEF IInv
<1>0. /\ verdict = "searching" /\ path # << >> /\ todo[Top] = {}
      /\ visitState' = [visitState EXCEPT ![Top] = 2]
      /\ path' = SubSeq(path, 1, Len(path) - 1)
      /\ UNCHANGED <<plan, verdict, todo, roots>>
  BY DEF FinishVisit
<1>1. /\ Searched /\ WellNamed(plan) /\ References(plan)
      /\ path \in Seq(Name) /\ Len(path) \in Nat \ {0}
      /\ Top \in Name /\ Len(path) \in 1..Len(path)
  BY <1>0 DEF Searched, TypeOK, Top
<1>2. visitState[Top] = 1 /\ Top \in plan.tasks
  BY <1>1 DEF ActiveOnPath, Coverage, Top
<1>3. /\ path' \in Seq(Name)
      /\ Len(path') = Len(path) - 1
      /\ \A i \in 1..Len(path') : path'[i] = path[i]
  <2>1. PICK k \in Nat : k = Len(path) - 1
    BY <1>1
  <2>2. 1 \in Int /\ k \in Int /\ \A i \in 1..k : path[i] \in Name
    BY <1>1, <2>1
  <2>3. /\ SubSeq(path, 1, k) \in Seq(Name)
        /\ Len(SubSeq(path, 1, k)) = IF 1 <= k THEN k - 1 + 1 ELSE 0
        /\ \A i \in 1..(k - 1 + 1) : SubSeq(path, 1, k)[i] = path[1 + i - 1]
    BY ONLY <2>2, SubSeqProperties
  <2>4. \A i \in 1..k : path'[i] = path[i]
    BY <1>0, <2>1, <2>3
  <2> QED
    BY <1>0, <2>1, <2>3, <2>4
<1>4. /\ \A i \in 1..Len(path) : i \in 1..Len(path') \/ i = Len(path)
      /\ \A i \in 1..Len(path') : i \in 1..Len(path) /\ i # Len(path)
  BY <1>1, <1>3
<1>5. TypeOK'
  BY <1>0, <1>1, <1>3 DEF TypeOK, Plan
<1>6. \A m \in Name : visitState'[m] = IF m = Top THEN 2 ELSE visitState[m]
  BY <1>0 DEF TypeOK
<1>7. ActiveOnPath'
  <2>1. \A i \in 1..Len(path') : path'[i] # Top
    BY <1>1, <1>3, <1>4 DEF PathDistinct, Top
  <2>2. \A m \in Name \ {Top} :
          (\E i \in 1..Len(path) : path[i] = m)
            <=> \E i \in 1..Len(path') : path'[i] = m
    BY <1>3, <1>4 DEF Top
  <2> QED
    BY <1>1, <1>6, <2>1, <2>2 DEF ActiveOnPath
<1>8. PathDistinct'
  BY <1>3, <1>4 DEF PathDistinct
<1>9. PathLinked'
  <2> SUFFICES ASSUME NEW i \in 1..Len(path'), i < Len(path')
               PROVE  path'[i + 1] \in plan.deps[path'[i]]
    BY <1>0 DEF PathLinked
  <2>1. i + 1 \in 1..Len(path') /\ i \in 1..Len(path) /\ i < Len(path)
    BY <1>1, <1>3
  <2> QED
    BY <1>3, <2>1 DEF PathLinked
<1>10. Iterated'
  <2> SUFFICES ASSUME NEW i \in 1..Len(path')
               PROVE
                 /\ todo[path'[i]] \subseteq plan.deps[path'[i]]
                 /\ \A e \in plan.deps[path'[i]] \ todo[path'[i]] :
                      \/ visitState'[e] = 2
                      \/ i < Len(path') /\ e = path'[i + 1]
    BY <1>0 DEF Iterated
  <2>1. i \in 1..Len(path) /\ path'[i] = path[i] /\ path[i] \in Name
    BY <1>1, <1>3, <1>4
  <2>2. todo[path'[i]] \subseteq plan.deps[path'[i]]
    BY <2>1 DEF Iterated
  <2>3. ASSUME NEW e \in plan.deps[path'[i]] \ todo[path'[i]]
        PROVE  visitState'[e] = 2 \/ (i < Len(path') /\ e = path'[i + 1])
    <3>1. e \in Name
      BY <2>1 DEF TypeOK, Plan
    <3>2. visitState[e] = 2 \/ (i < Len(path) /\ e = path[i + 1])
      BY <2>1 DEF Iterated
    <3>3. CASE visitState[e] = 2
      BY <1>6, <3>1, <3>3
    <3>4. CASE i < Len(path) /\ e = path[i + 1]
      <4>1. CASE i + 1 = Len(path)
        BY <1>6, <3>1, <3>4, <4>1 DEF Top
      <4>2. CASE i + 1 # Len(path)
        <5>1. i < Len(path') /\ i + 1 \in 1..Len(path')
          BY <1>1, <1>3, <3>4, <4>2
        <5> QED
          BY <1>3, <3>4, <5>1
      <4> QED
        BY <4>1, <4>2
    <3> QED
      BY <3>2, <3>3, <3>4
  <2> QED
    BY <2>2, <2>3
<1>11. Coverage'
  BY <1>0, <1>1, <1>2, <1>6, <1>5 DEF Coverage, TypeOK, Plan
<1>12. FinishedSound'
  <2>1. Finished' = Finished \cup {Top} /\ Top \notin Finished
    BY <1>1, <1>2, <1>6 DEF Finished
  <2>2. plan.deps[Top] \subseteq Finished
    <3>1. \A e \in plan.deps[Top] : visitState[e] = 2
      BY <1>0, <1>1 DEF Iterated, Top
    <3>2. plan.deps[Top] \subseteq Name
      BY <1>1 DEF TypeOK, Plan
    <3> QED
      BY <3>1, <3>2 DEF Finished
  <2>3. /\ \A t \in Finished : plan.deps[t] \subseteq Finished
        /\ \A S \in SUBSET Finished :
             S # {} => \E t \in S : plan.deps[t] \cap S = {}
    BY DEF FinishedSound, ClosedUnder
  <2>4. PICK D, F, n : D = plan.deps /\ F = Finished /\ n = Top
    OBVIOUS
  <2>5. n \notin F /\ D[n] \subseteq F /\ Sound(D, F)
    BY <2>1, <2>2, <2>3, <2>4 DEF Sound
  <2>6. Sound(D, F \cup {n})
    BY <2>5, SoundExtension
  <2> QED
    BY <1>0, <2>1, <2>4, <2>6 DEF FinishedSound, ClosedUnder, Sound
<1>13. VerdictCorrect'
  BY <1>0 DEF VerdictCorrect
<1> QED
  BY <1>0, <1>1, <1>5, <1>7, <1>8, <1>9, <1>10, <1>11, <1>12, <1>13
     DEF Searched

LEMMA AcceptStep == IInv /\ Accept => IInv'
<1> SUFFICES ASSUME IInv, Accept
             PROVE  IInv'
  OBVIOUS
<1> USE DEF IInv, Accept
<1>1. WellNamed(plan) /\ References(plan)
  BY DEF Searched
<1>2. Acyclic(plan)
  <2>1. plan.tasks \subseteq Name
    BY DEF TypeOK, Plan
  <2>2. \A n \in Name : visitState[n] # 1
    BY DEF ActiveOnPath
  <2>3. plan.tasks \subseteq Finished
    BY <2>1, <2>2 DEF Coverage, TypeOK, Finished
  <2> QED
    BY <2>3 DEF Acyclic, FinishedSound
<1>3. TypeOK' /\ ActiveOnPath' /\ PathDistinct' /\ PathLinked' /\ Iterated'
  BY DEF TypeOK, Verdict, Plan, ActiveOnPath, PathDistinct, PathLinked,
         Iterated
<1>4. Coverage' /\ FinishedSound'
  BY DEF Coverage, FinishedSound, Finished, ClosedUnder
<1>5. VerdictCorrect'
  BY <1>1, <1>2 DEF VerdictCorrect, Valid
<1> QED
  BY <1>1, <1>3, <1>4, <1>5 DEF Searched

LEMMA StutterStep == IInv /\ UNCHANGED vars => IInv'
BY DEF IInv, vars, TypeOK, Plan, Searched, ActiveOnPath, PathDistinct,
       PathLinked, Iterated, Coverage, FinishedSound, Finished,
       ClosedUnder, VerdictCorrect

\* In every state of _validate_graph the activations of visit form a path of
\* dependencies, and what is visited is closed under them but for what the
\* activations have still to look at.
THEOREM Invariance == Spec => []IInv
<1>1. IInv /\ [Next]_vars => IInv'
  BY CheckListStep, VisitRootStep, VisitDependencyStep, FinishVisitStep,
     AcceptStep, StutterStep DEF Next
<1> QED
  BY InitInvariant, <1>1, PTL DEF Spec

(***************************************************************************)
(* A name is marked as being visited exactly while a call of visit for it  *)
(* is active, for plans of any size; every variable keeps its type.        *)
(***************************************************************************)
THEOREM MarksAlwaysExact == Spec => []MarksExact
<1>1. IInv => MarksExact
  BY DEF IInv, MarksExact
<1> QED
  BY Invariance, <1>1, PTL

(***************************************************************************)
(* _validate_graph accepts only valid plans and names the true reason when *)
(* it refuses one, for every plan and every iteration order.               *)
(***************************************************************************)
THEOREM ValidationCorrect == Spec => []VerdictCorrect
<1>1. IInv => VerdictCorrect
  BY DEF IInv
<1> QED
  BY Invariance, <1>1, PTL

(***************************************************************************)
(* The names marked as visited are closed under dependencies and hold no   *)
(* cycle at every moment of the search.                                    *)
(***************************************************************************)
THEOREM FinishedAlwaysSound == Spec => []FinishedSound
<1>1. IInv => FinishedSound
  BY DEF IInv
<1> QED
  BY Invariance, <1>1, PTL
=============================================================================
