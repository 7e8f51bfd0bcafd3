------------------------ MODULE ProviderRoutingProofs ------------------------
(***************************************************************************)
(* Proofs about ProviderRouting, for every set of providers, every order   *)
(* of registration, all priorities, thresholds and policies.               *)
(***************************************************************************)
EXTENDS ProviderRouting, SequenceTheorems, FiniteSetTheorems, TLAPS

Distinct(s) == \A i, j \in 1 .. Len(s) : s[i] = s[j] => i = j

\* A provider without a record may have failed, but not often enough to
\* be degraded once it has one.
MissingHealthy ==
  \A p \in Provider : status[p] = "missing" => streak[p] < DegradedAfter

\* Nothing is left to call when generate() has ended, and between two
\* requests none of its locals is left.
QuietState ==
  /\ phase # "calling" => candidates = << >>
  /\ phase = "quiet" =>
       /\ request = NoRequest /\ answer = NoAnswer
       /\ called = << >> /\ entitled = {}

\* While generate() runs there is a provider to call, and a provider the
\* caller has named is the only one.
CallingState ==
  phase = "calling" =>
    /\ candidates # << >> /\ answer = NoAnswer
    /\ Explicit(request) =>
         candidates = <<request.named>> /\ called = << >> /\ entitled = {}

\* The candidates left: none has been called, with those called they hold
\* every entitled provider, and none comes behind one it is ahead of.
QueueSound ==
  phase = "calling" =>
    /\ Distinct(candidates)
    /\ \A i \in 1 .. Len(called), j \in 1 .. Len(candidates) :
         called[i] # candidates[j]
    /\ entitled \subseteq Members(called) \cup Members(candidates)
    /\ \A i, j \in 1 .. Len(candidates) :
         i < j => ~ Ahead(candidates[j], candidates[i])

\* The candidates of a request with a policy are still usable.
QueueUsable ==
  phase = "calling" /\ request.policy # NoPolicy =>
    \A i \in 1 .. Len(candidates) :
      status[candidates[i]] \in {"available", "unknown", "degraded"}

IInv ==
  /\ TypeOK
  /\ Distinct(providers)
  /\ HealthEarned
  /\ MissingHealthy
  /\ QuietState
  /\ CallingState
  /\ QueueSound
  /\ QueueUsable
  /\ FailoverComplete
  /\ FailoverOrder
  /\ TriedOnce

-----------------------------------------------------------------------------
(* The order of failover is a strict order of the registered providers, so *)
(* any set of them can be ranked.                                          *)

Late(p) == IF Rank(p) >= 2 THEN 1 ELSE 0

Position(p) == CHOOSE i \in 1 .. Len(providers) : providers[i] = p

LEMMA BeforeMeans ==
  ASSUME NEW policy, NEW p, NEW q
  PROVE  Before(policy, p, q) <=>
           \/ Turn(policy, p) < Turn(policy, q)
           \/ /\ Turn(policy, p) = Turn(policy, q)
              /\ \/ Late(p) < Late(q)
                 \/ /\ Late(p) = Late(q)
                    /\ \/ Priority[p] < Priority[q]
                       \/ /\ Priority[p] = Priority[q]
                          /\ \/ Rank(p) < Rank(q)
                             \/ /\ Rank(p) = Rank(q)
                                /\ Position(p) < Position(q)
<1> DEFINE Key(x) == << Turn(policy, x), Late(x), Priority[x], Rank(x),
                        Position(x) >>
           Less(i) == /\ Key(p)[i] < Key(q)[i]
                      /\ \A j \in 1 .. i - 1 : Key(p)[j] = Key(q)[j]
<1>1. Before(policy, p, q) <=> \E i \in 1 .. 5 : Less(i)
  BY DEF Before, Late, Position
<1>2. \A x : /\ Key(x)[1] = Turn(policy, x) /\ Key(x)[2] = Late(x)
             /\ Key(x)[3] = Priority[x] /\ Key(x)[4] = Rank(x)
             /\ Key(x)[5] = Position(x)
  OBVIOUS
<1> HIDE DEF Key
<1>3. (\E i \in 1 .. 5 : Less(i)) <=>
        Less(1) \/ Less(2) \/ Less(3) \/ Less(4) \/ Less(5)
  <2> HIDE DEF Less
  <2>1. 1 .. 5 = {1, 2, 3, 4, 5}
    OBVIOUS
  <2> QED
    BY <2>1
<1>4. Less(1) <=> Turn(policy, p) < Turn(policy, q)
  BY <1>2
<1>5. Less(2) <=> Turn(policy, p) = Turn(policy, q) /\ Late(p) < Late(q)
  <2>1. 1 .. 2 - 1 = {1}
    OBVIOUS
  <2> QED
    BY <1>2, <2>1
<1>6. Less(3) <=> /\ Turn(policy, p) = Turn(policy, q) /\ Late(p) = Late(q)
                  /\ Priority[p] < Priority[q]
  <2>1. 1 .. 3 - 1 = {1, 2}
    OBVIOUS
  <2> QED
    BY <1>2, <2>1
<1>7. Less(4) <=> /\ Turn(policy, p) = Turn(policy, q) /\ Late(p) = Late(q)
                  /\ Priority[p] = Priority[q]
                  /\ Rank(p) < Rank(q)
  <2>1. 1 .. 4 - 1 = {1, 2, 3}
    OBVIOUS
  <2> QED
    BY <1>2, <2>1
<1>8. Less(5) <=> /\ Turn(policy, p) = Turn(policy, q) /\ Late(p) = Late(q)
                  /\ Priority[p] = Priority[q] /\ Rank(p) = Rank(q)
                  /\ Position(p) < Position(q)
  <2>1. 1 .. 5 - 1 = {1, 2, 3, 4}
    OBVIOUS
  <2> QED
    BY <1>2, <2>1
<1> HIDE DEF Less
<1> QED
  BY <1>1, <1>3, <1>4, <1>5, <1>6, <1>7, <1>8

LEMMA RankType == \A p : Rank(p) \in {0, 1, 2, 3}
BY DEF Rank

LEMMA KeyType ==
  ASSUME TypeOK, NEW policy \in Policy, NEW p \in Registered
  PROVE  /\ p \in Provider
         /\ Turn(policy, p) \in {0, 1} /\ Late(p) \in {0, 1}
         /\ Priority[p] \in Nat
         /\ Position(p) \in 1 .. Len(providers) /\ providers[Position(p)] = p
<1>1. \E i \in 1 .. Len(providers) : providers[i] = p
  BY DEF Registered, Members
<1>2. Position(p) \in 1 .. Len(providers) /\ providers[Position(p)] = p
  BY <1>1 DEF Position
<1>3. p \in Provider
  BY <1>2, ElementOfSeq DEF TypeOK
<1>4. Turn(policy, p) \in {0, 1}
  BY DEF Turn, Policy, Strategy
<1> QED
  BY <1>2, <1>3, <1>4, PriorityAssumption DEF Late

(***************************************************************************)
(* _ranked_providers sorts by a key that no two registered providers share.*)
(***************************************************************************)
LEMMA StrictOrder ==
  ASSUME TypeOK, NEW policy \in Policy,
         NEW p \in Registered, NEW q \in Registered, NEW r \in Registered
  PROVE  /\ Before(policy, p, q) /\ Before(policy, q, r) => Before(policy, p, r)
         /\ ~ (Before(policy, p, q) /\ Before(policy, q, p))
         /\ p # q => Before(policy, p, q) \/ Before(policy, q, p)
<1>1. \A x \in {p, q, r} :
        /\ Turn(policy, x) \in {0, 1} /\ Late(x) \in {0, 1}
        /\ Priority[x] \in Nat /\ Rank(x) \in Nat /\ Position(x) \in Nat
  BY KeyType, RankType
<1>2. p # q => Position(p) # Position(q)
  BY KeyType
<1>3. Before(policy, p, q) /\ Before(policy, q, r) => Before(policy, p, r)
  BY <1>1, BeforeMeans
<1>4. ~ (Before(policy, p, q) /\ Before(policy, q, p))
  BY <1>1, BeforeMeans
<1>5. p # q => Before(policy, p, q) \/ Before(policy, q, p)
  BY <1>1, <1>2, BeforeMeans
<1> QED
  BY <1>3, <1>4, <1>5

LEMMA FiniteRegistry ==
  ASSUME TypeOK
  PROVE  IsFiniteSet(Registered)
<1>1. Len(providers) \in Nat /\ IsFiniteSet(1 .. Len(providers))
  BY LenProperties, FS_Interval DEF TypeOK
<1>2. providers \in Surjection(1 .. Len(providers), Registered)
  BY LenProperties DEF TypeOK, Registered, Members, Surjection
<1> QED
  BY <1>1, <1>2, FS_Surjection

\* Induction over the sets of registered providers: a family of them that
\* is not empty has a member with no other member below it.
LEMMA MinimalSet ==
  ASSUME TypeOK, NEW F \in SUBSET (SUBSET Registered), F # {}
  PROVE  \E A \in F : \A B \in F : B \subseteq A => B = A
<1>1. IsWellFoundedOn(StrictSubsetOrdering(Registered), SUBSET Registered)
  BY FiniteRegistry, FS_StrictSubsetOrderingWellFounded,
     FS_FiniteSubsetsOfFinite
<1>2. PICK A \in F :
        \A B \in F : ~ (<<B, A>> \in StrictSubsetOrdering(Registered))
  BY <1>1, WFMin
<1>3. ASSUME NEW B \in F, B \subseteq A, B # A
      PROVE  FALSE
  BY <1>2, <1>3 DEF StrictSubsetOrdering
<1> QED
  BY <1>3

LEMMA Hindmost ==
  ASSUME TypeOK, NEW policy \in Policy, NEW S \in SUBSET Registered, S # {}
  PROVE  \E m \in S : \A p \in S \ {m} : Before(policy, p, m)
<1> DEFINE Has(A) == \E m \in A : \A p \in A \ {m} : Before(policy, p, m)
           F == {A \in SUBSET Registered : A # {} /\ ~ Has(A)}
<1>1. SUFFICES ASSUME F # {} PROVE FALSE
  OBVIOUS
<1>2. PICK A \in F : \A B \in F : B \subseteq A => B = A
  <2>1. F \in SUBSET (SUBSET Registered)
    OBVIOUS
  <2> HIDE DEF F
  <2> QED
    BY <1>1, <2>1, MinimalSet
<1>3. /\ A \in SUBSET Registered /\ A # {}
      /\ \A m \in A : \E p \in A \ {m} : ~ Before(policy, p, m)
      /\ \A B \in SUBSET A : B # {} /\ B # A => Has(B)
  BY <1>2
<1>4. PICK x \in A : TRUE
  BY <1>3
<1>5. A \ {x} \in SUBSET A /\ A \ {x} # {} /\ A \ {x} # A
  BY <1>3
<1>6. PICK m \in A \ {x} : \A p \in (A \ {x}) \ {m} : Before(policy, p, m)
  BY <1>3, <1>5
<1> HIDE DEF F, Has
<1>7. CASE Before(policy, x, m)
  <2>1. \A p \in A \ {m} : Before(policy, p, m)
    BY <1>6, <1>7
  <2> QED
    BY <1>3, <2>1
<1>8. CASE ~ Before(policy, x, m)
  <2>1. Before(policy, m, x)
    BY <1>3, <1>6, <1>8, StrictOrder
  <2>2. \A p \in A \ {x} : Before(policy, p, x)
    BY <1>3, <1>6, <2>1, StrictOrder
  <2> QED
    BY <1>3, <2>2
<1> QED
  BY <1>7, <1>8

\* s lists the members of S in the order of Before.
Ranks(policy, s, S) ==
  /\ s \in [1 .. Cardinality(S) -> S]
  /\ \A i, j \in 1 .. Cardinality(S) : i < j => Before(policy, s[i], s[j])

(***************************************************************************)
(* Whatever providers are usable and capable, they can be ranked.          *)
(***************************************************************************)
LEMMA RankingExists ==
  ASSUME TypeOK, NEW policy \in Policy, NEW S \in SUBSET Registered
  PROVE  \E s : Ranks(policy, s, S)
<1> DEFINE F == {A \in SUBSET Registered : ~ \E s : Ranks(policy, s, A)}
<1>1. SUFFICES ASSUME F # {} PROVE FALSE
  OBVIOUS
<1>2. PICK A \in F : \A B \in F : B \subseteq A => B = A
  <2>1. F \in SUBSET (SUBSET Registered)
    OBVIOUS
  <2> HIDE DEF F
  <2> QED
    BY <1>1, <2>1, MinimalSet
<1>3. /\ A \in SUBSET Registered
      /\ ~ \E s : Ranks(policy, s, A)
      /\ \A B \in SUBSET A : B # A => \E s : Ranks(policy, s, B)
  BY <1>2
<1> HIDE DEF F
<1>4. A # {}
  <2>1. SUFFICES ASSUME A = {} PROVE FALSE
    OBVIOUS
  <2>2. Cardinality(A) = 0 /\ 1 .. 0 = {}
    BY <2>1, FS_EmptySet
  <2>3. Ranks(policy, [i \in 1 .. 0 |-> i], A)
    BY <2>1, <2>2 DEF Ranks
  <2> QED
    BY <1>3, <2>3
<1>5. PICK m \in A : \A p \in A \ {m} : Before(policy, p, m)
  BY <1>3, <1>4, Hindmost
<1>6. PICK s : Ranks(policy, s, A \ {m})
  BY <1>3
<1> DEFINE n == Cardinality(A)
           t == [i \in 1 .. n |-> IF i < n THEN s[i] ELSE m]
<1>7. IsFiniteSet(A)
  BY <1>3, FiniteRegistry, FS_Subset
<1>8. n \in Nat /\ Cardinality(A \ {m}) = n - 1 /\ n > 0
  <2>1. n \in Nat /\ n # 0
    BY <1>4, <1>7, FS_CardinalityType, FS_EmptySet
  <2>2. Cardinality(A \ {m}) = n - 1
    BY <1>7, FS_RemoveElement
  <2> QED
    BY <2>1, <2>2
<1> HIDE DEF n
<1>9. /\ \A i \in 1 .. n - 1 : s[i] \in A \ {m}
      /\ \A i, j \in 1 .. n - 1 : i < j => Before(policy, s[i], s[j])
  BY <1>6, <1>8 DEF Ranks
<1>10. t \in [1 .. n -> A]
  BY <1>8, <1>9
<1>11. ASSUME NEW i \in 1 .. n, NEW j \in 1 .. n, i < j
       PROVE  Before(policy, t[i], t[j])
  <2>1. i \in 1 .. n - 1 /\ t[i] = s[i]
    BY <1>8, <1>11
  <2>2. CASE j < n
    BY <1>8, <1>9, <1>11, <2>1, <2>2
  <2>3. CASE ~ j < n
    BY <1>5, <1>8, <1>9, <2>1, <2>3
  <2> QED
    BY <2>2, <2>3
<1> HIDE DEF t
<1>12. Ranks(policy, t, A)
  BY <1>10, <1>11 DEF Ranks, n
<1> QED
  BY <1>3, <1>12

(***************************************************************************)
(* The list _ranked_providers returns: every usable, capable and permitted *)
(* provider, once, and none behind one that comes after it.                *)
(***************************************************************************)
LEMMA RankedList ==
  ASSUME TypeOK, NEW policy \in Policy, NEW S \in SUBSET Registered
  PROVE  /\ Ranked(policy, S) \in Seq(Provider)
         /\ Members(Ranked(policy, S)) = S
         /\ Distinct(Ranked(policy, S))
         /\ S # {} => Ranked(policy, S) # << >>
         /\ \A i, j \in 1 .. Len(Ranked(policy, S)) :
              i < j => Before(policy, Ranked(policy, S)[i],
                                      Ranked(policy, S)[j])
<1> DEFINE n == Cardinality(S)
           s == Ranked(policy, S)
<1>1. Ranks(policy, s, S)
  BY RankingExists DEF Ranks, Ranked
<1>2. IsFiniteSet(S) /\ n \in Nat
  BY FiniteRegistry, FS_Subset, FS_CardinalityType
<1>3. /\ s \in [1 .. n -> S]
      /\ \A i, j \in 1 .. n : i < j => Before(policy, s[i], s[j])
  BY <1>1 DEF Ranks
<1> HIDE DEF s
<1>4. S \subseteq Provider
  BY KeyType
<1>5. s \in Seq(S) /\ s \in Seq(Provider) /\ Len(s) = n
  BY <1>2, <1>3, <1>4
<1>6. Distinct(s)
  <2>1. ASSUME NEW i \in 1 .. n, NEW j \in 1 .. n, i < j
        PROVE  s[i] # s[j]
    BY <1>3, <2>1, StrictOrder
  <2> QED
    BY <1>2, <1>5, <2>1 DEF Distinct
<1>7. Members(s) = S
  <2>1. s \in Injection(1 .. n, S)
    BY <1>3, <1>5, <1>6 DEF Injection, IsInjective, Distinct
  <2>2. IsFiniteSet(1 .. n) /\ Cardinality(1 .. n) = n
    BY <1>2, FS_Interval
  <2>3. s \in Surjection(1 .. n, S)
    BY <1>2, <2>1, <2>2, FS_Injection
  <2> QED
    BY <1>3, <1>5, <2>3 DEF Members, Surjection
<1>8. S # {} => s # << >>
  BY <1>7 DEF Members
<1> QED
  BY <1>3, <1>5, <1>6, <1>7, <1>8 DEF s

-----------------------------------------------------------------------------
LEMMA NoPolicyOther == NoPolicy \notin Policy
BY DEF NoPolicy, Policy, Strategy

LEMMA SingleList ==
  ASSUME NEW p
  PROVE  /\ Distinct(<<p>>) /\ Members(<<p>>) = {p}
         /\ Distinct(<< >>) /\ Members(<< >>) = {} /\ << >> # <<p>>
         /\ p \in Provider => <<p>> \in Seq(Provider)
         /\ << >> \in Seq(Provider)
         /\ Len(<<p>>) = 1 /\ <<p>>[1] = p /\ Len(<< >>) = 0
BY DEF Distinct, Members

LEMMA EmptyList ==
  /\ Distinct(<< >>) /\ Members(<< >>) = {}
  /\ << >> \in Seq(Provider)
  /\ Len(<< >>) = 0 /\ 1 .. Len(<< >>) = {}
BY DEF Distinct, Members

\* The providers generate(r) may be given to.
Entitled(r) ==
  IF r.policy = NoPolicy \/ r.named # NoProvider THEN {}
  ELSE {p \in r.capable : /\ Usable(p)
                          /\ \/ p \in Local /\ r.policy.local
                             \/ p \in Cloud /\ r.policy.cloud}

Chosen(r) == IF r.policy = NoPolicy THEN LegacyCandidates(r)
                                    ELSE PolicyCandidates(r)

UsableStatus == {"available", "unknown", "degraded"}

LEMMA UsableMeans ==
  ASSUME NEW p
  PROVE  Usable(p) <=> p \in Registered \cap configured
                         /\ status[p] \in UsableStatus
BY DEF Usable, Rank, UsableStatus

LEMMA InitInvariant == Init => IInv
<1> SUFFICES ASSUME Init PROVE IInv
  OBVIOUS
<1>1. /\ providers = Order /\ phase = "quiet" /\ request = NoRequest
      /\ candidates = << >> /\ answer = NoAnswer /\ called = << >>
      /\ entitled = {}
      /\ \A p \in Provider : streak[p] = 0
      /\ \A p \in Provider : status[p] \in {"unknown", "missing"}
  BY DEF Init
<1>2. Registered \subseteq Provider
  BY <1>1, ProviderAssumption, ElementOfSeq DEF Registered, Members
<1>3. default \in Provider \cup {NoProvider}
  <2>1. Order # << >> => Order[1] \in Provider
    BY ProviderAssumption, EmptySeq, ElementOfSeq
  <2> QED
    BY <2>1 DEF Init
<1>4. streak \in [Provider -> 0 .. UnavailableAfter]
  BY ThresholdAssumption DEF Init
<1>5. request \in Request /\ answer \in Answer
  BY <1>1 DEF NoRequest, Request, NoAnswer, Answer
<1>6. TypeOK
  BY <1>1, <1>2, <1>3, <1>4, <1>5, ProviderAssumption, EmptySeq
     DEF Init, TypeOK, Status
<1>7. Distinct(providers)
  BY <1>1, ProviderAssumption DEF Distinct
<1>8. HealthEarned /\ MissingHealthy
  BY <1>1, ThresholdAssumption DEF HealthEarned, MissingHealthy
<1>9. QuietState /\ CallingState /\ QueueSound /\ QueueUsable
  BY <1>1 DEF QuietState, CallingState, QueueSound, QueueUsable
<1>10. FailoverComplete /\ FailoverOrder /\ TriedOnce
  BY <1>1, SingleList
     DEF FailoverComplete, FailoverOrder, TriedOnce, NoAnswer, NoRequest
<1> QED
  BY <1>6, <1>7, <1>8, <1>9, <1>10 DEF IInv

LEMMA RegisteredProvider ==
  ASSUME TypeOK
  PROVE  Registered \subseteq Provider
BY ElementOfSeq DEF TypeOK, Registered, Members

LEMMA WithoutOne ==
  ASSUME TypeOK, Distinct(providers), NEW p
  PROVE  /\ Without(p) \in Seq(Provider)
         /\ Distinct(Without(p))
         /\ Without(p) # << >> => Without(p)[1] \in Provider
<1>1. CASE p \notin Registered
  <2>1. providers # << >> => providers[1] \in Provider
    BY EmptySeq, ElementOfSeq DEF TypeOK
  <2> QED
    BY <1>1, <2>1 DEF Without, TypeOK
<1>2. CASE p \in Registered
  <2> DEFINE n == Len(providers)
             k == CHOOSE i \in 1 .. n : providers[i] = p
             e == [i \in 1 .. n - 1 |->
                     IF i < k THEN providers[i] ELSE providers[i + 1]]
  <2>1. n \in Nat /\ k \in 1 .. n /\ providers[k] = p
    BY <1>2, LenProperties DEF TypeOK, Registered, Members
  <2>2. Without(p) = e
    BY <1>2 DEF Without
  <2> HIDE DEF k
  <2>3. \A i \in 1 .. n : providers[i] \in Provider
    BY ElementOfSeq DEF TypeOK
  <2>4. \A i, j \in 1 .. n : providers[i] = providers[j] => i = j
    BY DEF Distinct
  <2> HIDE DEF n
  <2>5. n - 1 \in Nat /\ \A i \in 1 .. n - 1 : e[i] \in Provider
    BY <2>1, <2>3
  <2>6. e \in Seq(Provider) /\ Len(e) = n - 1
    BY <2>5
  <2>7. \A i, j \in 1 .. n - 1 : e[i] = e[j] => i = j
    BY <2>1, <2>4
  <2> HIDE DEF e
  <2>8. e # << >> => e[1] \in Provider
    BY <2>6, EmptySeq, ElementOfSeq
  <2> QED
    BY <2>2, <2>6, <2>7, <2>8 DEF Distinct
<1> QED
  BY <1>1, <1>2

-----------------------------------------------------------------------------
(* The operations between two requests.                                    *)

\* No local of generate() changes.
LEMMA ServingFrame ==
  ASSUME IInv, phase = "quiet", UNCHANGED serving
  PROVE  /\ QuietState' /\ CallingState' /\ QueueSound' /\ QueueUsable'
         /\ FailoverComplete' /\ FailoverOrder' /\ TriedOnce'
<1> USE DEF IInv, serving
<1>1. QuietState' /\ CallingState' /\ QueueSound' /\ QueueUsable'
  BY DEF QuietState, CallingState, QueueSound, QueueUsable
<1>2. FailoverComplete'
  BY DEF FailoverComplete
<1>3. FailoverOrder'
  BY DEF FailoverOrder, Ahead
<1>4. TriedOnce'
  BY DEF TriedOnce
<1> QED
  BY <1>1, <1>2, <1>3, <1>4

LEMMA RegisterStep ==
  ASSUME IInv, NEW p \in Managed, NEW ok \in BOOLEAN, Register(p, ok)
  PROVE  IInv'
<1>1. /\ p \in Provider /\ phase = "quiet"
      /\ UNCHANGED <<streak, proven, serving>>
      /\ status' = [status EXCEPT ![p] = IF @ = "missing" THEN "unknown" ELSE @]
      /\ configured' = configured \cup {p} \/ configured' = configured \ {p}
      /\ default' = p \/ default' = default
      /\ providers' = IF p \in Registered THEN providers
                       ELSE Append(providers, p)
  BY ProviderAssumption DEF Register
<1>2. providers' \in Seq(Provider) /\ Distinct(providers')
  <2>1. CASE p \in Registered
    BY <1>1, <2>1 DEF IInv, TypeOK
  <2>2. CASE p \notin Registered
    <3>1. providers \in Seq(Provider) /\ Len(providers) \in Nat
      BY LenProperties DEF IInv, TypeOK
    <3>2. /\ providers' \in Seq(Provider)
          /\ Len(providers') = Len(providers) + 1
          /\ \A i \in 1 .. Len(providers) : providers'[i] = providers[i]
          /\ providers'[Len(providers) + 1] = p
      BY <1>1, <2>2, <3>1, AppendProperties
    <3>3. \A i \in 1 .. Len(providers) : providers[i] # p
      BY <2>2 DEF Registered, Members
    <3> QED
      BY <3>1, <3>2, <3>3 DEF Distinct, IInv
  <2> QED
    BY <2>1, <2>2
<1>3. TypeOK'
  BY <1>1, <1>2 DEF IInv, TypeOK, Status, serving
<1>4. HealthEarned'
  BY <1>1, ThresholdAssumption DEF IInv, TypeOK, HealthEarned, MissingHealthy
<1>5. MissingHealthy'
  BY <1>1 DEF IInv, TypeOK, MissingHealthy
<1> QED
  BY <1>1, <1>2, <1>3, <1>4, <1>5, ServingFrame DEF IInv

LEMMA RemoveStep ==
  ASSUME IInv, NEW p \in Managed, Remove(p)
  PROVE  IInv'
<1>1. /\ p \in Provider /\ phase = "quiet" /\ UNCHANGED serving
      /\ providers' = Without(p) /\ configured' = configured \ {p}
      /\ status' = [status EXCEPT ![p] = "missing"]
      /\ streak' = [streak EXCEPT ![p] = 0]
      /\ proven' = proven \ {p}
  BY ProviderAssumption DEF Remove
<1>2. \/ default' = default \/ default' = NoProvider
      \/ providers' # << >> /\ default' = providers'[1]
  BY DEF Remove
<1>3. /\ providers' \in Seq(Provider) /\ Distinct(providers')
      /\ default' \in Provider \cup {NoProvider}
  BY <1>1, <1>2, WithoutOne DEF IInv, TypeOK
<1>4. TypeOK'
  BY <1>1, <1>3, ThresholdAssumption DEF IInv, TypeOK, Status, serving
<1>5. HealthEarned'
  BY <1>1 DEF IInv, TypeOK, HealthEarned
<1>6. MissingHealthy'
  BY <1>1, ThresholdAssumption DEF IInv, TypeOK, MissingHealthy
<1> QED
  BY <1>1, <1>3, <1>4, <1>5, <1>6, ServingFrame DEF IInv

LEMMA SettingStep ==
  ASSUME IInv,
         \/ \E p \in Managed : SetDefault(p)
         \/ \E p \in Provider : Disable(p) \/ Enable(p)
  PROVE  IInv'
<1> USE ThresholdAssumption DEF registry, runtime
<1>1. UNCHANGED <<providers, serving>> /\ phase = "quiet"
  BY DEF SetDefault, Disable, Enable
<1>2. ASSUME NEW p \in Managed, SetDefault(p)
      PROVE  TypeOK' /\ HealthEarned' /\ MissingHealthy'
  BY <1>2, ProviderAssumption
     DEF SetDefault, IInv, TypeOK, serving, HealthEarned, MissingHealthy
<1>3. ASSUME NEW p \in Provider, Disable(p)
      PROVE  TypeOK' /\ HealthEarned' /\ MissingHealthy'
  BY <1>3 DEF Disable, IInv, TypeOK, Status, serving, HealthEarned,
              MissingHealthy
<1>4. ASSUME NEW p \in Provider, Enable(p)
      PROVE  TypeOK' /\ HealthEarned' /\ MissingHealthy'
  BY <1>4 DEF Enable, EnabledStatus, IInv, TypeOK, Status, serving,
              HealthEarned, MissingHealthy
<1> QED
  BY <1>1, <1>2, <1>3, <1>4, ServingFrame DEF IInv, Distinct

-----------------------------------------------------------------------------
(* generate() chooses the candidates.                                      *)

LEMMA OnlyMeans ==
  ASSUME NEW p
  PROVE  \/ Only(p) = << >>
         \/ Only(p) = <<p>> /\ p \in Provider /\ Usable(p)
BY DEF Only

\* The candidates of a request, in one of three ways.
LEMMA ChosenCases ==
  ASSUME TypeOK, NEW r \in Request
  PROVE  \/ Chosen(r) = << >> /\ Entitled(r) = {}
         \/ \E p \in Provider :
              /\ Chosen(r) = <<p>> /\ Entitled(r) = {}
              /\ Explicit(r) => p = r.named
              /\ r.policy # NoPolicy => status[p] \in UsableStatus
         \/ \E S \in SUBSET Registered :
              /\ r.policy \in Policy /\ ~ Explicit(r) /\ S # {}
              /\ Chosen(r) = Ranked(r.policy, S)
              /\ Entitled(r) \subseteq S
              /\ \A p \in S : status[p] \in UsableStatus
<1>1. r.policy = NoPolicy \/ r.policy \in Policy
  BY PolicyAssumption DEF Request
<1>2. CASE r.policy = NoPolicy
  <2> DEFINE p == IF r.named # NoProvider THEN r.named ELSE default
  <2>1. Entitled(r) = {} /\ Chosen(r) = LegacyCandidates(r)
    BY <1>2 DEF Entitled, Chosen
  <2>2. CASE p \in Registered \cap configured
    <3>1. LegacyCandidates(r) = <<p>> /\ p \in Provider
      BY <2>2, RegisteredProvider DEF LegacyCandidates
    <3>2. Explicit(r) => p = r.named
      BY DEF Explicit
    <3> QED
      BY <1>2, <2>1, <3>1, <3>2
  <2>3. CASE p \notin Registered \cap configured
    BY <2>1, <2>3 DEF LegacyCandidates
  <2> QED
    BY <2>2, <2>3
<1>3. CASE r.policy \in Policy
  <2> DEFINE S == {p \in r.capable : Usable(p) /\ Permitted(r.policy, p)}
  <2>1. r.policy # NoPolicy /\ Chosen(r) = PolicyCandidates(r)
    BY <1>3, NoPolicyOther DEF Chosen
  <2>2. CASE Explicit(r)
    <3>1. Entitled(r) = {} /\ Chosen(r) = Only(r.named)
      BY <2>1, <2>2 DEF Entitled, Explicit, PolicyCandidates
    <3> QED
      BY <3>1, OnlyMeans, UsableMeans
  <2>3. CASE ~ Explicit(r)
    <3>1. Entitled(r) \subseteq S
      <4>1. ASSUME NEW p \in Entitled(r)
            PROVE  p \in S
        <5>1. /\ p \in r.capable /\ Usable(p)
              /\ \/ p \in Local /\ r.policy.local
                 \/ p \in Cloud /\ r.policy.cloud
          BY <4>1, <2>1, <2>3 DEF Entitled, Explicit
        <5>2. Permitted(r.policy, p)
          BY <1>3, <5>1 DEF Permitted, Policy, Strategy
        <5> QED
          BY <5>1, <5>2
      <4> QED
        BY <4>1
    <3>2. S \in SUBSET Registered /\ \A p \in S : status[p] \in UsableStatus
      BY UsableMeans
    <3>3. CASE S # {}
      <4>1. Chosen(r) = Ranked(r.policy, S)
        BY <2>1, <2>3, <3>3 DEF PolicyCandidates
      <4> QED
        BY <1>3, <2>3, <3>1, <3>2, <3>3, <4>1
    <3>4. CASE S = {}
      <4>1. Chosen(r) = Only(default) /\ Entitled(r) = {}
        BY <2>1, <2>3, <3>1, <3>4 DEF PolicyCandidates
      <4> QED
        BY <2>3, <4>1, OnlyMeans, UsableMeans
    <3> QED
      BY <3>3, <3>4
  <2> QED
    BY <2>2, <2>3
<1> QED
  BY <1>1, <1>2, <1>3

\* What comes ahead by preference or health is called before.
LEMMA AheadBefore ==
  ASSUME TypeOK, NEW r \in Request, r.policy \in Policy,
         request' = r, health' = status,
         NEW p \in Registered, NEW q \in Registered, Ahead(q, p)'
  PROVE  Before(r.policy, q, p)
<1>1. /\ Turn(r.policy, p) \in {0, 1} /\ Turn(r.policy, q) \in {0, 1}
      /\ r.policy.strategy \in Strategy
  BY KeyType DEF Policy
<1>2. \/ Turn(r.policy, q) < Turn(r.policy, p)
      \/ /\ Turn(r.policy, q) = Turn(r.policy, p)
         /\ status[q] \in {"available", "unknown"}
         /\ status[p] = "degraded"
  <2>1. CASE r.policy.strategy = "local"
    BY <2>1 DEF Ahead, Turn
  <2>2. CASE r.policy.strategy = "cloud"
    BY <2>2 DEF Ahead, Turn
  <2>3. CASE r.policy.strategy = "hybrid"
    BY <2>3, RegisteredProvider DEF Ahead, Turn
  <2> QED
    BY <1>1, <2>1, <2>2, <2>3 DEF Strategy
<1>3. /\ status[q] \in {"available", "unknown"} => Late(q) = 0
      /\ status[p] = "degraded" => Late(p) = 1
  BY DEF Late, Rank
<1> QED
  BY <1>1, <1>2, <1>3, BeforeMeans

LEMMA GenerateStep ==
  ASSUME IInv, NEW r \in Request, Generate(r)
  PROVE  IInv'
<1>1. PICK c : c = Chosen(r)
  OBVIOUS
<1>2. /\ phase = "quiet" /\ UNCHANGED <<registry, runtime>>
      /\ request' = r /\ candidates' = c /\ called' = << >>
      /\ health' = status /\ entitled' = Entitled(r)
      /\ c = << >> =>
           /\ answer' = [result |-> "failure", provider |-> NoProvider]
           /\ phase' = "ended"
      /\ c # << >> => phase' = "calling" /\ answer' = answer
  BY <1>1 DEF Generate, Chosen, Entitled
<1>3. TypeOK /\ answer = NoAnswer
  BY <1>2 DEF IInv, QuietState
<1>4. /\ c \in Seq(Provider) /\ Distinct(c)
      /\ Entitled(r) \subseteq Members(c)
      /\ Entitled(r) \in SUBSET Provider
      /\ Explicit(r) /\ c # << >> =>
           c = <<r.named>> /\ Entitled(r) = {}
      /\ r.policy # NoPolicy =>
           \A i \in 1 .. Len(c) : status[c[i]] \in UsableStatus
      /\ \A i, j \in 1 .. Len(c) :
           i < j => ~ Ahead(c[j], c[i])'
  <2>1. CASE c = << >> /\ Entitled(r) = {}
    <3>1. 1 .. Len(c) = {}
      BY <2>1, EmptyList
    <3> QED
      BY <2>1, <3>1, EmptyList
  <2>2. CASE \E p \in Provider :
               /\ c = <<p>> /\ Entitled(r) = {}
               /\ Explicit(r) => p = r.named
               /\ r.policy # NoPolicy => status[p] \in UsableStatus
    BY <2>2, SingleList
  <2>3. CASE \E S \in SUBSET Registered :
               /\ r.policy \in Policy /\ ~ Explicit(r) /\ S # {}
               /\ c = Ranked(r.policy, S)
               /\ Entitled(r) \subseteq S
               /\ \A p \in S : status[p] \in UsableStatus
    <3>1. PICK S \in SUBSET Registered :
               /\ r.policy \in Policy /\ ~ Explicit(r) /\ S # {}
               /\ c = Ranked(r.policy, S)
               /\ Entitled(r) \subseteq S
               /\ \A p \in S : status[p] \in UsableStatus
      BY <2>3
    <3>2. /\ c \in Seq(Provider) /\ Members(c) = S
          /\ Distinct(c)
          /\ \A i, j \in 1 .. Len(c) :
               i < j => Before(r.policy, c[i], c[j])
      BY <1>3, <3>1, RankedList
    <3>3. \A i \in 1 .. Len(c) : c[i] \in S
      BY <3>2 DEF Members
    <3>4. ASSUME NEW i \in 1 .. Len(c), NEW j \in 1 .. Len(c),
                 i < j, Ahead(c[j], c[i])'
          PROVE  FALSE
      <4>1. Before(r.policy, c[i], c[j])
        BY <3>2, <3>4
      <4>2. c[i] \in Registered /\ c[j] \in Registered
        BY <3>1, <3>3
      <4>3. Before(r.policy, c[j], c[i])
        BY <1>2, <1>3, <3>1, <3>4, <4>2, AheadBefore
      <4> QED
        BY <1>3, <3>1, <4>1, <4>2, <4>3, StrictOrder
    <3>5. Entitled(r) \in SUBSET Provider
      BY <1>3, <3>1, RegisteredProvider
    <3> QED
      BY <3>1, <3>2, <3>3, <3>4, <3>5
  <2> QED
    BY <1>1, <1>3, <2>1, <2>2, <2>3, ChosenCases
<1>5. answer' \in Answer /\ phase' \in {"calling", "ended"}
  BY <1>2, <1>3 DEF Answer, NoAnswer
<1>6. TypeOK'
  BY <1>2, <1>3, <1>4, <1>5, EmptySeq DEF TypeOK, registry, runtime
<1>7. HealthEarned' /\ MissingHealthy' /\ Distinct(providers')
  BY <1>2 DEF IInv, HealthEarned, MissingHealthy, registry, runtime
<1>8. QuietState' /\ CallingState'
  BY <1>2, <1>3, <1>4 DEF QuietState, CallingState, NoAnswer
<1>9. QueueSound'
  BY <1>2, <1>4, SingleList DEF QueueSound
<1>10. QueueUsable'
  BY <1>2, <1>4 DEF QueueUsable, runtime, UsableStatus
<1>11. FailoverComplete'
  <2>1. c = << >> => Entitled(r) = {}
    BY <1>4, EmptyList
  <2> QED
    BY <1>2, <1>3, <2>1 DEF FailoverComplete, NoAnswer
<1>12. FailoverOrder'
  BY <1>2, EmptyList DEF FailoverOrder
<1>13. TriedOnce'
  <2>1. answer'.result \notin {"success", "raised"}
    BY <1>2, <1>3 DEF NoAnswer
  <2> QED
    BY <1>2, <2>1, EmptyList DEF TriedOnce
<1> QED
  BY <1>6, <1>7, <1>8, <1>9, <1>10, <1>11, <1>12, <1>13 DEF IInv

-----------------------------------------------------------------------------
(* One provider is called.                                                 *)

\* What a call does to the candidates, whatever its outcome.
LEMMA CallState ==
  ASSUME IInv, Call
  PROVE  LET p == Head(candidates)
         IN  /\ TypeOK /\ phase = "calling" /\ p \in Provider
             /\ Tail(candidates) \in Seq(Provider)
             /\ Len(Tail(candidates)) = Len(candidates) - 1
             /\ Len(candidates) \in Nat \ {0}
             /\ candidates[1] = p
             /\ \A i \in 1 .. Len(Tail(candidates)) :
                  /\ Tail(candidates)[i] = candidates[i + 1]
                  /\ Tail(candidates)[i] # p
             /\ called' \in Seq(Provider)
             /\ Len(called') = Len(called) + 1 /\ Len(called) \in Nat
             /\ \A i \in 1 .. Len(called) : called'[i] = called[i]
             /\ called'[Len(called) + 1] = p
             /\ request.policy # NoPolicy => status[p] \in UsableStatus
<1> DEFINE p == Head(candidates)
<1>1. /\ TypeOK /\ phase = "calling" /\ candidates # << >>
      /\ Distinct(candidates)
      /\ called' = Append(called, p)
  BY DEF IInv, Call, CallingState, QueueSound
<1>2. candidates \in Seq(Provider) /\ called \in Seq(Provider)
  BY <1>1 DEF TypeOK
<1>3. /\ p \in Provider /\ Tail(candidates) \in Seq(Provider)
      /\ Len(Tail(candidates)) = Len(candidates) - 1
      /\ \A i \in 1 .. Len(Tail(candidates)) :
           Tail(candidates)[i] = candidates[i + 1]
  BY <1>1, <1>2, HeadTailProperties
<1>4. Len(candidates) \in Nat \ {0} /\ candidates[1] = p
  BY <1>1, <1>2, EmptySeq
<1>5. ASSUME NEW i \in 1 .. Len(Tail(candidates))
      PROVE  Tail(candidates)[i] # p
  <2>1. /\ i + 1 \in 1 .. Len(candidates) /\ 1 \in 1 .. Len(candidates)
        /\ i + 1 # 1
    BY <1>3, <1>4
  <2> QED
    BY <1>1, <1>3, <1>4, <2>1 DEF Distinct
<1>6. /\ called' \in Seq(Provider)
      /\ Len(called') = Len(called) + 1 /\ Len(called) \in Nat
      /\ \A i \in 1 .. Len(called) : called'[i] = called[i]
      /\ called'[Len(called) + 1] = p
  BY <1>1, <1>2, <1>3, AppendProperties, LenProperties
<1>7. request.policy # NoPolicy => status[p] \in UsableStatus
  BY <1>1, <1>4 DEF IInv, QueueUsable, UsableStatus
<1> QED
  BY <1>1, <1>3, <1>4, <1>5, <1>6, <1>7

\* The histories stay sound when the first candidate is called.
LEMMA CallHistory ==
  ASSUME IInv, Call
  PROVE  /\ FailoverOrder'
         /\ \A i, j \in 1 .. Len(called') : called'[i] = called'[j] => i = j
         /\ request.named # NoProvider => Members(called') = {request.named}
         /\ entitled \subseteq Members(called') \cup Members(Tail(candidates))
<1> DEFINE p == Head(candidates)
           n == Len(called)
<1>1. UNCHANGED <<request, entitled, health>> /\ phase = "calling"
  BY DEF Call
<1>2. /\ n \in Nat /\ Len(called') = n + 1 /\ called'[n + 1] = p
      /\ \A i \in 1 .. n : called'[i] = called[i]
      /\ candidates[1] = p /\ Len(candidates) \in Nat \ {0}
      /\ Len(Tail(candidates)) = Len(candidates) - 1
      /\ \A i \in 1 .. Len(Tail(candidates)) :
           Tail(candidates)[i] = candidates[i + 1]
  BY CallState
<1>3. /\ \A i \in 1 .. n, j \in 1 .. Len(candidates) : called[i] # candidates[j]
      /\ entitled \subseteq Members(called) \cup Members(candidates)
      /\ \A i, j \in 1 .. Len(candidates) :
           i < j => ~ Ahead(candidates[j], candidates[i])
  BY <1>1 DEF IInv, QueueSound
<1>4. /\ \A i, j \in 1 .. n : called[i] = called[j] => i = j
      /\ FailoverOrder
  BY DEF IInv, TriedOnce
<1> HIDE DEF n, p
<1>5. \A i, j \in 1 .. n + 1 : called'[i] = called'[j] => i = j
  BY <1>2, <1>3, <1>4
<1>6. \A q \in Members(candidates) :
        q = p \/ \E j \in 2 .. Len(candidates) : candidates[j] = q
  BY <1>2 DEF Members
<1>7. Members(called') = Members(called) \cup {p}
  BY <1>2 DEF Members, n
<1>8. Members(candidates) \subseteq {p} \cup Members(Tail(candidates))
  <2>1. ASSUME NEW j \in 2 .. Len(candidates)
        PROVE  candidates[j] \in Members(Tail(candidates))
    <3>1. /\ j - 1 \in 1 .. Len(Tail(candidates))
          /\ Tail(candidates)[j - 1] = candidates[j]
      BY <1>2
    <3> QED
      BY <3>1 DEF Members
  <2> QED
    BY <1>6, <2>1
<1>9. \A x, y : Ahead(x, y)' = Ahead(x, y)
  BY <1>1 DEF Ahead
<1>10. ASSUME NEW i \in 1 .. n + 1, NEW q \in entitled \ {called'[i]},
              Ahead(q, called'[i])
       PROVE  \E j \in 1 .. i - 1 : called'[j] = q
  <2>1. CASE i \in 1 .. n
    <3>1. \E j \in 1 .. i - 1 : called[j] = q
      BY <1>2, <1>4, <1>10, <2>1 DEF FailoverOrder, n
    <3> QED
      BY <1>2, <2>1, <3>1
  <2>2. CASE i = n + 1
    <3>1. q # p /\ Ahead(q, p)
      BY <1>2, <1>10, <2>2
    <3>2. q \notin Members(candidates)
      <4>1. SUFFICES ASSUME NEW j \in 2 .. Len(candidates), candidates[j] = q
                     PROVE  FALSE
        BY <1>6, <3>1
      <4>2. j \in 1 .. Len(candidates) /\ 1 \in 1 .. Len(candidates) /\ 1 < j
        BY <1>2
      <4> QED
        BY <1>2, <1>3, <3>1, <4>1, <4>2
    <3>3. q \in Members(called)
      BY <1>3, <3>2
    <3> QED
      BY <1>2, <2>2, <3>3 DEF Members, n
  <2> QED
    BY <1>2, <2>1, <2>2
<1>11. FailoverOrder'
  BY <1>1, <1>2, <1>9, <1>10 DEF FailoverOrder
<1>12. request.named # NoProvider => Members(called') = {request.named}
  <2>1. SUFFICES ASSUME request.named # NoProvider
                 PROVE  Members(called) = {} /\ p = request.named
    BY <1>7
  <2>2. candidates = <<request.named>> /\ called = << >>
    BY <1>1, <2>1 DEF IInv, CallingState, Explicit
  <2> QED
    BY <1>2, <2>2, SingleList
<1>13. entitled \subseteq Members(called') \cup Members(Tail(candidates))
  BY <1>3, <1>7, <1>8
<1> QED
  BY <1>2, <1>5, <1>11, <1>12, <1>13

\* Recording an outcome keeps the health of every provider earned.
LEMMA OutcomeRecorded ==
  ASSUME TypeOK, HealthEarned, MissingHealthy, NEW p \in Provider,
         RecordSuccess(p) \/ RecordFailure(p)
  PROVE  /\ status' \in [Provider -> Status \cup {"missing"}]
         /\ streak' \in [Provider -> 0 .. UnavailableAfter]
         /\ proven' \in SUBSET Provider
         /\ HealthEarned' /\ MissingHealthy'
         /\ \A q \in Provider \ {p} : status'[q] = status[q]
<1> USE ThresholdAssumption DEF TypeOK, HealthEarned, MissingHealthy, Status
<1>1. CASE RecordSuccess(p)
  BY <1>1 DEF RecordSuccess
<1>2. CASE RecordFailure(p)
  <2> DEFINE n == IF streak[p] < UnavailableAfter THEN streak[p] + 1
                                                  ELSE streak[p]
  <2>1. /\ streak' = [streak EXCEPT ![p] = n]
        /\ status' = [status EXCEPT ![p] = FailureStatus(n, status[p])]
        /\ proven' = proven
    BY <1>2 DEF RecordFailure
  <2>2. n \in 0 .. UnavailableAfter /\ n >= streak[p]
    OBVIOUS
  <2>3. FailureStatus(n, status[p]) \in Status \cup {"missing"}
    BY DEF FailureStatus
  <2> HIDE DEF n
  <2>4. /\ status' \in [Provider -> Status \cup {"missing"}]
        /\ streak' \in [Provider -> 0 .. UnavailableAfter]
        /\ streak'[p] = n /\ status'[p] = FailureStatus(n, status[p])
        /\ \A q \in Provider \ {p} :
             status'[q] = status[q] /\ streak'[q] = streak[q]
    BY <2>1, <2>2, <2>3
  <2>5. HealthEarned'
    BY <2>1, <2>2, <2>4 DEF FailureStatus
  <2>6. status'[p] = "missing" => streak'[p] < DegradedAfter
    BY <2>2, <2>4 DEF FailureStatus
  <2>7. MissingHealthy'
    BY <2>4, <2>6
  <2> QED
    BY <2>1, <2>4, <2>5, <2>7
<1> QED
  BY <1>1, <1>2

LEMMA CallEnds ==
  ASSUME IInv, Call,
         RecordSuccess(Head(candidates)) \/ RecordFailure(Head(candidates)),
         NEW result \in {"success", "failure", "raised"},
         result = "failure" => Remaining = << >>,
         End(Head(candidates), result)
  PROVE  IInv'
<1> DEFINE p == Head(candidates)
<1>1. /\ UNCHANGED <<registry, request, entitled, health>>
      /\ phase' = "ended" /\ candidates' = << >>
      /\ answer' = [result |-> result, provider |-> p]
  BY DEF Call, End
<1>2. /\ TypeOK /\ p \in Provider /\ phase = "calling"
      /\ called' \in Seq(Provider) /\ Len(called') = Len(called) + 1
      /\ Len(called) \in Nat /\ called'[Len(called) + 1] = p
  BY CallState
<1>3. /\ status' \in [Provider -> Status \cup {"missing"}]
      /\ streak' \in [Provider -> 0 .. UnavailableAfter]
      /\ proven' \in SUBSET Provider
      /\ HealthEarned' /\ MissingHealthy'
  BY <1>2, OutcomeRecorded DEF IInv
<1>4. answer' \in Answer
  BY <1>1, <1>2 DEF Answer
<1>5. TypeOK'
  BY <1>1, <1>2, <1>3, <1>4, EmptyList DEF TypeOK, registry
<1>6. Distinct(providers')
  BY <1>1 DEF IInv, registry
<1>7. QuietState' /\ CallingState' /\ QueueSound' /\ QueueUsable'
  BY <1>1 DEF QuietState, CallingState, QueueSound, QueueUsable
<1>8. FailoverComplete'
  <2>1. SUFFICES ASSUME result = "failure"
                 PROVE  entitled \subseteq Members(called')
    BY <1>1 DEF FailoverComplete
  <2>2. CASE Explicit(request)
    BY <1>2, <2>2 DEF IInv, CallingState
  <2>3. CASE ~ Explicit(request)
    <3>1. Tail(candidates) = << >>
      BY <2>1, <2>3 DEF Remaining
    <3> QED
      BY <3>1, CallHistory, EmptyList
  <2> QED
    BY <2>2, <2>3
<1>9. FailoverOrder'
  BY CallHistory
<1>10. TriedOnce'
  <2>1. /\ request'.named # NoProvider =>
             Members(called') \subseteq {request'.named}
        /\ \A i, j \in 1 .. Len(called') : called'[i] = called'[j] => i = j
    BY <1>1, CallHistory
  <2>2. called' # << >> /\ answer'.provider = called'[Len(called')]
    BY <1>1, <1>2, EmptyList
  <2> QED
    BY <2>1, <2>2 DEF TriedOnce
<1> QED
  BY <1>3, <1>5, <1>6, <1>7, <1>8, <1>9, <1>10 DEF IInv

LEMMA CallContinues ==
  ASSUME IInv, Call, RecordFailure(Head(candidates)),
         Remaining # << >>, candidates' = Remaining,
         UNCHANGED <<phase, answer>>
  PROVE  IInv'
<1> DEFINE p == Head(candidates)
           n == Len(called)
           t == Tail(candidates)
<1>1. /\ UNCHANGED <<registry, request, entitled, health, phase, answer>>
      /\ ~ Explicit(request) /\ candidates' = t /\ t # << >>
  BY DEF Call, Remaining
<1>2. /\ TypeOK /\ p \in Provider /\ phase = "calling"
      /\ t \in Seq(Provider) /\ Len(t) = Len(candidates) - 1
      /\ Len(candidates) \in Nat \ {0}
      /\ \A i \in 1 .. Len(t) : t[i] = candidates[i + 1] /\ t[i] # p
      /\ called' \in Seq(Provider)
      /\ n \in Nat /\ Len(called') = n + 1 /\ called'[n + 1] = p
      /\ \A i \in 1 .. n : called'[i] = called[i]
  BY CallState
<1>3. /\ status' \in [Provider -> Status \cup {"missing"}]
      /\ streak' \in [Provider -> 0 .. UnavailableAfter]
      /\ proven' \in SUBSET Provider
      /\ HealthEarned' /\ MissingHealthy'
      /\ \A q \in Provider \ {p} : status'[q] = status[q]
  BY <1>2, OutcomeRecorded DEF IInv
<1>4. answer = NoAnswer
  BY <1>2 DEF IInv, CallingState
<1> HIDE DEF n, t, p
<1>5. TypeOK'
  BY <1>1, <1>2, <1>3 DEF TypeOK, registry
<1>6. Distinct(providers')
  BY <1>1 DEF IInv, registry
<1>7. QuietState' /\ CallingState'
  BY <1>1, <1>2, <1>4 DEF QuietState, CallingState, Explicit
<1>8. QueueSound'
  <2>1. /\ Distinct(candidates)
        /\ \A i \in 1 .. n, j \in 1 .. Len(candidates) :
             called[i] # candidates[j]
        /\ \A i, j \in 1 .. Len(candidates) :
             i < j => ~ Ahead(candidates[j], candidates[i])
    BY <1>2 DEF IInv, QueueSound, n
  <2>2. \A i \in 1 .. Len(t) : i + 1 \in 1 .. Len(candidates)
    BY <1>2
  <2>3. Distinct(t)
    BY <1>2, <2>1, <2>2 DEF Distinct
  <2>4. ASSUME NEW i \in 1 .. n + 1, NEW j \in 1 .. Len(t)
        PROVE  called'[i] # t[j]
    <3>1. CASE i \in 1 .. n
      BY <1>2, <2>1, <2>2, <3>1
    <3>2. CASE i = n + 1
      BY <1>2, <3>2
    <3> QED
      BY <1>2, <3>1, <3>2
  <2>5. \A x, y : Ahead(x, y)' = Ahead(x, y)
    BY <1>1 DEF Ahead
  <2>6. \A i, j \in 1 .. Len(t) : i < j => ~ Ahead(t[j], t[i])
    BY <1>2, <2>1, <2>2
  <2>7. entitled \subseteq Members(called') \cup Members(t)
    BY CallHistory DEF t
  <2> QED
    BY <1>1, <1>2, <2>3, <2>4, <2>5, <2>6, <2>7 DEF QueueSound
<1>9. QueueUsable'
  <2>1. SUFFICES ASSUME request.policy # NoPolicy, NEW i \in 1 .. Len(t)
                 PROVE  status'[t[i]] \in UsableStatus
    BY <1>1 DEF QueueUsable, UsableStatus
  <2>2. t[i] \in Provider \ {p} /\ i + 1 \in 1 .. Len(candidates)
    BY <1>2, ElementOfSeq
  <2>3. status[candidates[i + 1]] \in UsableStatus
    BY <1>2, <2>1, <2>2 DEF IInv, QueueUsable, UsableStatus
  <2> QED
    BY <1>2, <1>3, <2>2, <2>3
<1>10. FailoverComplete'
  BY <1>1, <1>4 DEF FailoverComplete, NoAnswer
<1>11. FailoverOrder'
  BY CallHistory
<1>12. TriedOnce'
  <2>1. /\ request'.named = NoProvider
        /\ answer'.result = "pending"
        /\ \A i, j \in 1 .. Len(called') : called'[i] = called'[j] => i = j
    BY <1>1, <1>4, CallHistory DEF Explicit, NoAnswer
  <2> QED
    BY <2>1 DEF TriedOnce
<1> QED
  BY <1>3, <1>5, <1>6, <1>7, <1>8, <1>9, <1>10, <1>11, <1>12 DEF IInv

-----------------------------------------------------------------------------
LEMMA TakeStep ==
  ASSUME IInv, Take
  PROVE  IInv'
<1>1. /\ phase = "ended" /\ phase' = "quiet" /\ request' = NoRequest
      /\ answer' = NoAnswer /\ called' = << >> /\ entitled' = {}
      /\ health' = [p \in Provider |-> "missing"]
      /\ UNCHANGED <<registry, runtime, candidates>>
  BY DEF Take
<1>2. request' \in Request /\ answer' \in Answer
  BY <1>1 DEF NoRequest, Request, NoAnswer, Answer
<1>3. TypeOK'
  BY <1>1, <1>2, EmptyList DEF IInv, TypeOK, registry, runtime
<1>4. HealthEarned' /\ MissingHealthy' /\ Distinct(providers')
  BY <1>1 DEF IInv, HealthEarned, MissingHealthy, registry, runtime
<1>5. QuietState' /\ CallingState' /\ QueueSound' /\ QueueUsable'
  BY <1>1 DEF IInv, QuietState, CallingState, QueueSound, QueueUsable
<1>6. FailoverComplete' /\ FailoverOrder'
  BY <1>1, EmptyList DEF FailoverComplete, FailoverOrder, NoAnswer
<1>7. TriedOnce'
  BY <1>1, EmptyList DEF TriedOnce, NoAnswer, NoRequest
<1> QED
  BY <1>3, <1>4, <1>5, <1>6, <1>7 DEF IInv

LEMMA AskStep ==
  ASSUME IInv, Ask
  PROVE  IInv'
<1>1. PICK policy \in Policies \cup {NoPolicy}, capable \in Needs,
           name \in Named :
        Generate([policy |-> policy, capable |-> capable, named |-> name])
  BY DEF Ask
<1>2. [policy |-> policy, capable |-> capable, named |-> name] \in Request
  BY PolicyAssumption DEF Request
<1> QED
  BY <1>1, <1>2, GenerateStep

LEMMA CallSteps ==
  ASSUME IInv, CallStep
  PROVE  IInv'
<1>1. CASE CallSucceeds
  BY <1>1, CallEnds DEF CallSucceeds
<1>2. CASE CallFails
  <2>1. CASE Remaining = << >>
    BY <1>2, <2>1, CallEnds DEF CallFails
  <2>2. CASE Remaining # << >>
    BY <1>2, <2>2, CallContinues DEF CallFails
  <2> QED
    BY <2>1, <2>2
<1>3. CASE CallRaises
  BY <1>3, CallEnds DEF CallRaises
<1> QED
  BY <1>1, <1>2, <1>3 DEF CallStep

LEMMA NextInvariant == IInv /\ [Next]_vars => IInv'
<1> SUFFICES ASSUME IInv, [Next]_vars PROVE IInv'
  OBVIOUS
<1>1. CASE Control
  BY <1>1, RegisterStep, RemoveStep, SettingStep DEF Control
<1>2. CASE Ask
  BY <1>2, AskStep
<1>3. CASE CallStep
  BY <1>3, CallSteps
<1>4. CASE Take
  BY <1>4, TakeStep
<1>5. CASE UNCHANGED vars
  <2>1. UNCHANGED <<providers, configured, default, status, streak, proven>>
        /\ UNCHANGED serving
    BY <1>5 DEF vars, registry, runtime
  <2> QED
    BY <2>1 DEF IInv, TypeOK, Distinct, HealthEarned, MissingHealthy,
                QuietState, CallingState, QueueSound, QueueUsable,
                FailoverComplete, FailoverOrder, Ahead, TriedOnce, serving
<1> QED
  BY <1>1, <1>2, <1>3, <1>4, <1>5 DEF Next

LEMMA Inductive == Spec => []IInv
<1> QED
  BY InitInvariant, NextInvariant, PTL DEF Spec

-----------------------------------------------------------------------------
(***************************************************************************)
(* The router's registry, its runtime records and the locals of generate() *)
(* keep their types, whatever is registered, removed, asked or answered.   *)
(***************************************************************************)
THEOREM TypeCorrect == Spec => []TypeOK
<1>1. IInv => TypeOK
  BY DEF IInv
<1> QED
  BY <1>1, Inductive, PTL

(***************************************************************************)
(* generate() gives a request to every provider entitled to it before it   *)
(* gives it up, in the order of preference and health, to none twice and   *)
(* to no other than the one the caller named: _policy_candidates, the loop *)
(* of generate() and _generate_with_runtime together.                      *)
(***************************************************************************)
THEOREM FailoverAlwaysSound == Spec => []FailoverSound
<1>1. IInv => FailoverSound
  BY DEF IInv, FailoverSound
<1> QED
  BY <1>1, Inductive, PTL

(***************************************************************************)
(* ProviderRuntime: a status is always earned by the outcomes recorded     *)
(* since the provider was registered, disabled or enabled.                 *)
(***************************************************************************)
THEOREM HealthAlwaysEarned == Spec => []HealthEarned
<1>1. IInv => HealthEarned
  BY DEF IInv
<1> QED
  BY <1>1, Inductive, PTL

LEMMA CallKeepsOut ==
  ASSUME IInv, CallStep, request.policy # NoPolicy,
         NEW p \in Provider, status[p] \in {"disabled", "unavailable"}
  PROVE  status'[p] = status[p]
<1>1. /\ Call
      /\ \/ RecordSuccess(Head(candidates))
         \/ RecordFailure(Head(candidates))
  BY DEF CallStep, CallSucceeds, CallFails, CallRaises
<1>2. /\ TypeOK /\ Head(candidates) \in Provider
      /\ status[Head(candidates)] \in UsableStatus
  BY <1>1, CallState
<1>3. p # Head(candidates)
  BY <1>2 DEF UsableStatus
<1> QED
  BY <1>1, <1>2, <1>3, OutcomeRecorded DEF IInv

(***************************************************************************)
(* No outcome recorded while a request with a policy is served changes a   *)
(* provider that is disabled or unavailable: _policy_candidates leaves it  *)
(* out, and the candidates keep their status until they are called.        *)
(***************************************************************************)
THEOREM NeverResurrected == Spec => NoResurrection
<1> DEFINE Kept ==
      \A p \in Provider :
        /\ status[p] \in {"disabled", "unavailable"}
        /\ phase = "calling" /\ request.policy # NoPolicy
        => status'[p] = status[p]
<1>1. IInv /\ [Next]_vars => [Kept]_vars
  <2> SUFFICES ASSUME IInv, Next, phase = "calling" PROVE Kept
    OBVIOUS
  <2>1. CallStep
    BY DEF Next, Control, Register, Remove, SetDefault, Disable, Enable,
           Ask, Generate, Take
  <2> QED
    BY <2>1, CallKeepsOut
<1>2. [][Kept]_vars => NoResurrection
  BY PTL DEF NoResurrection
<1> QED
  BY <1>1, <1>2, Inductive, PTL DEF Spec
=============================================================================
