---------------------------- MODULE StopPlanProofs ----------------------------
(***************************************************************************)
(* What module StopPlan promises of the order, for manifests of any        *)
(* length, any jobs and any places.  The loops of the code are steps here, *)
(* so that a loop invariant is part of an inductive invariant.             *)
(***************************************************************************)
EXTENDS StopPlan, FiniteSetTheorems, WellFoundedInduction, NaturalsInduction, TLAPS

-----------------------------------------------------------------------------
(* First.                                                                  *)

(* The first job of a group is the one with the lowest position.           *)
LEMMA FirstIsLeast ==
  ASSUME NEW g \in SUBSET Nat, g # {}
  PROVE  First(g) \in g /\ \A j \in g : First(g) <= j
<1>1. IsWellFoundedOn(OpToRel(<, Nat), Nat)
  BY NatLessThanWellFounded
<1>2. PICK i \in g : \A j \in g : ~ <<j, i>> \in OpToRel(<, Nat)
  BY <1>1, WFMin, Zenon
<1>3. \A j \in g : ~ j < i
  BY <1>2, Zenon DEF OpToRel
<1>4. \A j \in g : i <= j
  BY <1>3
<1> QED
  BY <1>4 DEF First

(* The first job of two groups together is the first of one of them.       *)
LEMMA FirstOfBoth ==
  ASSUME NEW g \in SUBSET Nat, NEW h \in SUBSET Nat, g # {}, h # {}
  PROVE  First(g \cup h) \in {First(g), First(h)}
<1>1. /\ First(g) \in g /\ \A j \in g : First(g) <= j
      /\ First(h) \in h /\ \A j \in h : First(h) <= j
  BY FirstIsLeast
<1>2. First(g \cup h) \in g \cup h /\ \A j \in g \cup h : First(g \cup h) <= j
  BY FirstIsLeast
<1>3. First(g) \in Nat /\ First(h) \in Nat /\ First(g \cup h) \in Nat
  BY <1>1, <1>2
<1>4. First(g \cup h) <= First(g) /\ First(g \cup h) <= First(h)
  BY <1>1, <1>2
<1>5. First(g) <= First(g \cup h) \/ First(h) <= First(g \cup h)
  BY <1>1, <1>2
<1> QED
  BY <1>3, <1>4, <1>5

(* The values of a group agree if there are no two of them.                *)
LEMMA OneValue ==
  ASSUME NEW S, IsFiniteSet(S), ~ Cardinality(S) > 1
  PROVE  \A x, y \in S : x = y
<1> SUFFICES ASSUME NEW x \in S, NEW y \in S, x # y PROVE FALSE
  OBVIOUS
<1>1. IsFiniteSet({x, y}) /\ Cardinality({x, y}) = 2
  <2>1. IsFiniteSet({x}) /\ Cardinality({x}) = 1
    BY FS_Singleton
  <2>2. {x, y} = {x} \cup {y}
    OBVIOUS
  <2>3. IsFiniteSet({x} \cup {y})
    BY <2>1, FS_AddElement
  <2>4. Cardinality({x} \cup {y}) = Cardinality({x}) + 1
    BY <2>1, y \notin {x}, FS_AddElement
  <2> QED
    BY <2>1, <2>2, <2>3, <2>4
<1>2. Cardinality({x, y}) <= Cardinality(S)
  BY <1>1, FS_Subset
<1> QED
  BY <1>1, <1>2, FS_CardinalityType


-----------------------------------------------------------------------------
(* Types.  A manifest is normalized before anything is made of it, so what *)
(* is made of it refers to its jobs as they stay.                          *)

Services == Single \cup {"collection_and_delivery", "unset"}

Keyed == [key : {MergeKey(i) : i \in DOMAIN jobs}, jobs : SUBSET DOMAIN jobs]

Driven == [leg : Single, jobs : SUBSET DOMAIN jobs]

PlanTypes ==
    /\ jobs \in Seq(Job) /\ Len(jobs) \in 1..MaxJobs
    /\ manifest \in Manifest
    /\ stage \in {"normalize", "merge", "collapse", "legs", "slots", "booked", "rejected"}
    /\ next \in Nat \ {0}
    /\ groups \in Seq(Keyed)
    /\ stops \in Seq(SUBSET DOMAIN jobs)
    /\ legs \in Seq(Driven)
    /\ slots \in Seq(Seq(Driven))
    /\ stage = "normalize" =>
         groups = <<>> /\ stops = <<>> /\ legs = <<>> /\ slots = <<>>

(* A sequence that is changed place by place is a sequence.                *)
LEMMA SameLength ==
  ASSUME NEW S, NEW T, NEW s \in Seq(S), NEW f,
         f = [i \in DOMAIN s |-> f[i]], \A i \in DOMAIN s : f[i] \in T
  PROVE  f \in Seq(T) /\ Len(f) = Len(s) /\ DOMAIN f = DOMAIN s
<1>1. Len(s) \in Nat /\ DOMAIN s = 1..Len(s)
  OBVIOUS
<1>2. f \in [1..Len(s) -> T]
  BY <1>1
<1> QED
  BY <1>1, <1>2

(* The empty plan of any manifest is of the right types.                   *)
LEMMA TypeInit == Init => PlanTypes
<1> SUFFICES ASSUME Init PROVE PlanTypes
  OBVIOUS
<1>1. PICK n \in 1..MaxJobs : jobs \in [1..n -> JobKinds]
  BY DEF Init
<1>2. MaxJobs \in Nat /\ n \in Nat /\ JobKinds \subseteq Job /\ Manifests \subseteq Manifest
  BY PlanAssumption
<1>3. jobs \in Seq(Job) /\ Len(jobs) = n
  BY <1>1, <1>2
<1> QED
  BY <1>1, <1>2, <1>3 DEF Init, PlanTypes

(* A leg of a group concerns its jobs.                                     *)
LEMMA LegsOfType ==
  ASSUME NEW g \in SUBSET DOMAIN jobs
  PROVE  LegsOf(g) \in Seq(Driven)
<1>1. \A l \in Single : [leg |-> l, jobs |-> g] \in Driven
  BY DEF Driven
<1>2. "collection" \in Single /\ "delivery" \in Single
  BY DEF Single
<1> HIDE DEF Driven
<1>3. \A l \in Single : <<[leg |-> l, jobs |-> g]>> \in Seq(Driven)
  BY <1>1
<1>4. <<[leg |-> "collection", jobs |-> g], [leg |-> "delivery", jobs |-> g]>> \in Seq(Driven)
  BY <1>1, <1>2
<1> QED
  BY <1>3, <1>4 DEF LegsOf

(* Jobs change only when they are normalized.                              *)
LEMMA TypesKept ==
  ASSUME PlanTypes, UNCHANGED input
  PROVE  Keyed' = Keyed /\ Driven' = Driven /\ DOMAIN jobs' = DOMAIN jobs
  BY DEF input, Keyed, Driven, MergeKey, Unmarked, ByTo, ByContact, Rest

(* No step of the pipeline leaves the types.                               *)
LEMMA TypeStep == PlanTypes /\ [Next]_vars => PlanTypes'
<1> SUFFICES ASSUME PlanTypes, [Next]_vars PROVE PlanTypes'
  OBVIOUS
<1> USE DEF Proceed
<1>1. CASE Normalize
  <2>1. \A i \in DOMAIN jobs :
          jobs[i] \in Job /\ [jobs[i] EXCEPT !.service = "collection_and_delivery"] \in Job
    <3>1. \A i \in DOMAIN jobs : jobs[i] \in Job
      BY DEF PlanTypes
    <3>2. \A j \in Job : [j EXCEPT !.service = "collection_and_delivery"] \in Job
      BY DEF Job
    <3> QED
      BY <3>1, <3>2
  <2>2. /\ jobs' = [i \in DOMAIN jobs |-> jobs'[i]]
        /\ \A i \in DOMAIN jobs : jobs'[i] \in Job
    BY <1>1, <2>1 DEF Normalize
  <2>3. jobs \in Seq(Job)
    BY DEF PlanTypes
  <2>4. jobs' \in Seq(Job) /\ Len(jobs') = Len(jobs)
    BY <2>2, <2>3, SameLength
  <2>5. groups' = <<>> /\ stops' = <<>> /\ legs' = <<>> /\ slots' = <<>>
    BY <1>1 DEF Normalize, PlanTypes
  <2>6. \A S : <<>> \in Seq(S)
    OBVIOUS
  <2>7. stage' \in {"merge", "rejected"} /\ next' = 1 /\ manifest' = manifest
    BY <1>1 DEF Normalize
  <2> QED
    BY <2>4, <2>5, <2>6, <2>7 DEF PlanTypes
<1>2. CASE MergeJob
  <2> DEFINE k == [key |-> MergeKey(next), jobs |-> {next}]
             same == {g \in DOMAIN groups : groups[g].key = MergeKey(next)}
  <2>1. k \in Keyed
    BY <1>2 DEF MergeJob, Keyed
  <2>2. groups' \in Seq(Keyed)
    <3>1. CASE same = {}
      <4>1. groups' = Append(groups, k)
        BY <1>2, <3>1 DEF MergeJob
      <4> HIDE DEF k
      <4> QED
        BY <2>1, <4>1 DEF PlanTypes
    <3>2. CASE same # {}
      <4>1. groups' = [g \in DOMAIN groups |->
              IF g \in same THEN [groups[g] EXCEPT !.jobs = @ \cup {next}] ELSE groups[g]]
        BY <1>2, <3>2 DEF MergeJob
      <4>2. \A g \in DOMAIN groups : groups[g] \in Keyed
        BY DEF PlanTypes
      <4>3. \A g \in DOMAIN groups : [groups[g] EXCEPT !.jobs = @ \cup {next}] \in Keyed
        BY <1>2, <4>2 DEF Keyed, MergeJob
      <4>4. \A g \in DOMAIN groups : groups'[g] \in Keyed
        BY <4>1, <4>2, <4>3
      <4>5. groups' = [g \in DOMAIN groups |-> groups'[g]] /\ groups \in Seq(Keyed)
        BY <4>1 DEF PlanTypes
      <4> QED
        BY <4>4, <4>5, SameLength, Zenon
    <3> QED
      BY <3>1, <3>2
  <2> QED
    BY <1>2, <2>2, TypesKept DEF MergeJob, PlanTypes, input
<1>3. CASE Validate
  BY <1>3, TypesKept DEF Validate, PlanTypes, input
<1>4. CASE CollapseGroup
  <2> DEFINE g == groups[next].jobs
  <2>1. g \in SUBSET DOMAIN jobs
    <3>1. groups[next] \in Keyed
      BY <1>4 DEF CollapseGroup, PlanTypes
    <3> QED
      BY <3>1 DEF Keyed
  <2>2. stops' \in Seq(SUBSET DOMAIN jobs)
    <3> HIDE DEF g
    <3>1. CASE Absorbers(g) = {}
      BY <1>4, <2>1, <3>1 DEF CollapseGroup, PlanTypes, g
    <3>2. CASE Absorbers(g) # {}
      <4>1. stops' = [stops EXCEPT ![First(Absorbers(g))] = @ \cup g]
        BY <1>4, <3>2 DEF CollapseGroup, g
      <4>2. \A s \in DOMAIN stops : stops[s] \in SUBSET DOMAIN jobs
        BY DEF PlanTypes
      <4>3. \A s \in DOMAIN stops : stops'[s] \in SUBSET DOMAIN jobs
        BY <2>1, <4>1, <4>2
      <4>4. stops' = [s \in DOMAIN stops |-> stops'[s]] /\ stops \in Seq(SUBSET DOMAIN jobs)
        BY <4>1 DEF PlanTypes
      <4> QED
        BY <4>3, <4>4, SameLength, Zenon
    <3> QED
      BY <3>1, <3>2
  <2> QED
    BY <1>4, <2>2, TypesKept DEF CollapseGroup, PlanTypes, input
<1>5. CASE EndCollapse
  BY <1>5, TypesKept DEF EndCollapse, PlanTypes, input
<1>6. CASE EmitLegs
  <2>1. legs' \in Seq(Driven)
    <3>1. CASE next \in DOMAIN stops
      <4>1. stops[next] \in SUBSET DOMAIN jobs
        BY <3>1 DEF PlanTypes
      <4>2. LegsOf(stops[next]) \in Seq(Driven)
        BY <4>1, LegsOfType
      <4>3. legs' = legs \o LegsOf(stops[next]) /\ legs \in Seq(Driven)
        BY <1>6, <3>1 DEF EmitLegs, PlanTypes
      <4> QED
        BY <4>2, <4>3
    <3>2. CASE next \notin DOMAIN stops
      BY <1>6, <3>2 DEF EmitLegs, PlanTypes
    <3> QED
      BY <3>1, <3>2
  <2> QED
    BY <1>6, <2>1, TypesKept DEF EmitLegs, PlanTypes, input
<1>7. CASE SlotLeg
  <2> DEFINE r == legs[next]
  <2>1. r \in Driven
    BY <1>7 DEF SlotLeg, PlanTypes
  <2>2. slots' \in Seq(Seq(Driven))
    <3> HIDE DEF r
    <3>1. CASE Open(r) = {}
      BY <1>7, <2>1, <3>1 DEF SlotLeg, PlanTypes, r
    <3>2. CASE Open(r) # {}
      <4>1. slots' = [slots EXCEPT ![First(Open(r))] = Append(@, r)]
        BY <1>7, <3>2 DEF SlotLeg, r
      <4>2. \A s \in DOMAIN slots : slots[s] \in Seq(Driven)
        BY DEF PlanTypes
      <4>3. \A s \in DOMAIN slots : Append(slots[s], r) \in Seq(Driven)
        BY <2>1, <4>2
      <4>4. \A s \in DOMAIN slots : slots'[s] \in Seq(Driven)
        BY <4>1, <4>2, <4>3
      <4>5. slots' = [s \in DOMAIN slots |-> slots'[s]] /\ slots \in Seq(Seq(Driven))
        BY <4>1 DEF PlanTypes
      <4> QED
        BY <4>4, <4>5, SameLength, Zenon
    <3> QED
      BY <3>1, <3>2
  <2> QED
    BY <1>7, <2>2, TypesKept DEF SlotLeg, PlanTypes, input
<1>8. CASE Book
  BY <1>8, TypesKept DEF Book, PlanTypes, input
<1>9. CASE UNCHANGED vars
  BY <1>9, TypesKept DEF vars, PlanTypes, input
<1> QED
  BY <1>1, <1>2, <1>3, <1>4, <1>5, <1>6, <1>7, <1>8, <1>9 DEF Next

-----------------------------------------------------------------------------
(* Merging: the jobs before position n are in one group each, by their     *)
(* merge keys.                                                             *)

Merged(n) ==
    /\ \A g \in DOMAIN groups :
         /\ groups[g].jobs # {}
         /\ \A i \in groups[g].jobs : i < n /\ groups[g].key = MergeKey(i)
    /\ \A g, h \in DOMAIN groups : groups[g].key = groups[h].key => g = h
    /\ \A i \in DOMAIN jobs : i < n => \E g \in DOMAIN groups : i \in groups[g].jobs

(* One more job is put into a group.                                       *)
LEMMA MergeStep ==
  ASSUME PlanTypes, MergeJob, Merged(next)
  PROVE  Merged(next)'
<1> DEFINE k == [key |-> MergeKey(next), jobs |-> {next}]
           same == {g \in DOMAIN groups : groups[g].key = MergeKey(next)}
<1>1. /\ next' = next + 1 /\ next \in Nat /\ next \in DOMAIN jobs
      /\ UNCHANGED jobs /\ \A i : MergeKey(i)' = MergeKey(i)
      /\ groups \in Seq(Keyed) /\ DOMAIN jobs \subseteq Nat
      /\ \A g \in DOMAIN groups : groups[g] \in Keyed
  BY DEF MergeJob, PlanTypes, input, MergeKey, Unmarked, ByTo, ByContact, Rest
<1>4. \A g \in DOMAIN groups : groups[g].jobs \subseteq Nat
  BY <1>1 DEF Keyed
<1>5. \A g \in DOMAIN groups : \A i \in groups[g].jobs : i < next + 1
  BY <1>1, <1>4 DEF Merged
<1>6. \A g \in DOMAIN groups :
        groups[g].jobs # {} /\ \A i \in groups[g].jobs : groups[g].key = MergeKey(i)
  BY DEF Merged
<1>2. CASE same = {}
  <2>1. groups' = Append(groups, k)
    BY <1>2 DEF MergeJob
  <2>2. /\ DOMAIN groups' = DOMAIN groups \cup {Len(groups) + 1}
        /\ \A g \in DOMAIN groups : g # Len(groups) + 1 /\ groups'[g] = groups[g]
        /\ groups'[Len(groups) + 1] = k
    <3> HIDE DEF k
    <3> QED
      BY <1>1, <2>1
  <2>3. \A g \in DOMAIN groups' :
          /\ groups'[g].jobs # {}
          /\ \A i \in groups'[g].jobs : i < next + 1 /\ groups'[g].key = MergeKey(i)
    <3> HIDE DEF k, same
    <3>1. ASSUME NEW g \in DOMAIN groups
          PROVE  /\ groups'[g].jobs # {}
                 /\ \A i \in groups'[g].jobs : i < next + 1 /\ groups'[g].key = MergeKey(i)
      BY <1>5, <1>6, <2>2
    <3>2. k.jobs = {next} /\ k.key = MergeKey(next) /\ next < next + 1
      BY <1>1 DEF k
    <3> QED
      BY <2>2, <3>1, <3>2
  <2>4. \A g, h \in DOMAIN groups' : groups'[g].key = groups'[h].key => g = h
    BY <1>2, <2>2 DEF Merged
  <2>5. \A i \in DOMAIN jobs :
          i < next + 1 => \E g \in DOMAIN groups' : i \in groups'[g].jobs
    <3> SUFFICES ASSUME NEW i \in DOMAIN jobs, i < next + 1
                 PROVE  \E g \in DOMAIN groups' : i \in groups'[g].jobs
      OBVIOUS
    <3>1. CASE i = next
      BY <2>2, <3>1
    <3>2. CASE i # next
      <4>1. i < next
        BY <1>1, <3>2
      <4> QED
        BY <2>2, <4>1 DEF Merged
    <3> QED
      BY <3>1, <3>2
  <2> QED
    BY <1>1, <2>3, <2>4, <2>5 DEF Merged
<1>3. CASE same # {}
  <2>1. groups' = [g \in DOMAIN groups |->
          IF g \in same THEN [groups[g] EXCEPT !.jobs = @ \cup {next}] ELSE groups[g]]
    BY <1>3 DEF MergeJob
  <2>2. /\ DOMAIN groups' = DOMAIN groups
        /\ \A g \in DOMAIN groups :
             /\ groups'[g].key = groups[g].key
             /\ groups'[g].jobs = IF g \in same THEN groups[g].jobs \cup {next}
                                  ELSE groups[g].jobs
    BY <1>1, <2>1 DEF Keyed
  <2>3. \A g \in DOMAIN groups :
          /\ groups'[g].jobs # {}
          /\ \A i \in groups'[g].jobs : i < next + 1 /\ groups'[g].key = MergeKey(i)
    <3> SUFFICES ASSUME NEW g \in DOMAIN groups
                 PROVE  /\ groups'[g].jobs # {}
                        /\ \A i \in groups'[g].jobs : i < next + 1 /\ groups'[g].key = MergeKey(i)
      OBVIOUS
    <3>1. CASE g \in same
      <4>1. groups'[g].jobs = groups[g].jobs \cup {next} /\ groups'[g].key = MergeKey(next)
        BY <2>2, <3>1
      <4>2. next < next + 1
        BY <1>1
      <4>3. \A i \in groups[g].jobs : i < next + 1 /\ groups[g].key = MergeKey(i)
        BY <1>5, <1>6
      <4>4. groups'[g].key = groups[g].key
        BY <2>2
      <4> QED
        BY <4>1, <4>2, <4>3, <4>4
    <3>2. CASE g \notin same
      <4>1. groups'[g].jobs = groups[g].jobs /\ groups'[g].key = groups[g].key
        BY <2>2, <3>2
      <4> QED
        BY <1>5, <1>6, <4>1
    <3> QED
      BY <3>1, <3>2
  <2>4. \A i \in DOMAIN jobs :
          i < next + 1 => \E g \in DOMAIN groups : i \in groups'[g].jobs
    <3> SUFFICES ASSUME NEW i \in DOMAIN jobs, i < next + 1
                 PROVE  \E g \in DOMAIN groups : i \in groups'[g].jobs
      OBVIOUS
    <3>1. CASE i = next
      BY <1>3, <2>2, <3>1
    <3>2. CASE i # next
      <4>1. i < next
        BY <1>1, <3>2
      <4> QED
        BY <2>2, <4>1 DEF Merged
    <3> QED
      BY <3>1, <3>2
  <2> QED
    BY <1>1, <2>2, <2>3, <2>4 DEF Merged
<1> QED
  BY <1>2, <1>3

Agreed == \A g \in DOMAIN groups : ~ Conflict(groups[g])

(* The values of a function on a finite set are finitely many.             *)
LEMMA FiniteImage ==
  ASSUME NEW G, IsFiniteSet(G), NEW f, f = [i \in G |-> f[i]]
  PROVE  IsFiniteSet({f[i] : i \in G})
<1> DEFINE T == {f[i] : i \in G}
<1>1. f \in Surjection(G, T)
  BY DEF Surjection
<1> HIDE DEF T
<1>2. IsFiniteSet(T)
  BY <1>1, FS_Surjection
<1> QED
  BY <1>2 DEF T

(* The jobs of a group that was not refused agree on the leg, on their     *)
(* merge key, and unless they were merged by contact on the address.       *)
LEMMA GroupAgrees ==
  ASSUME PlanTypes, Agreed, NEW n, Merged(n), NEW g \in DOMAIN groups
  PROVE  LET G == groups[g].jobs IN
         /\ G # {} /\ G \subseteq DOMAIN jobs /\ G \subseteq Nat /\ First(G) \in G
         /\ \A i \in G : jobs[i].service = Service(G)
         /\ \A i \in G \ ByContact : StopAddress(i) = StopAddress(First(G))
         /\ \A i, j \in G : MergeKey(i) = MergeKey(j)
<1> DEFINE G == groups[g].jobs
<1>1. /\ G # {} /\ G \subseteq DOMAIN jobs /\ DOMAIN jobs = 1..Len(jobs) /\ Len(jobs) \in Nat
      /\ G \subseteq Nat
      /\ \A i \in G : groups[g].key = MergeKey(i)
  <2>1. groups[g] \in Keyed /\ DOMAIN jobs = 1..Len(jobs) /\ Len(jobs) \in Nat
    BY DEF PlanTypes
  <2> QED
    BY <2>1 DEF Merged, Keyed
<1>2. ~ Conflict(groups[g])
  BY DEF Agreed
<1> HIDE DEF G
<1>3. First(G) \in G
  BY <1>1, FirstIsLeast
<1>4. IsFiniteSet(G)
  <2>1. IsFiniteSet(1..Len(jobs))
    BY <1>1, FS_Interval
  <2> QED
    BY <1>1, <2>1, FS_Subset
<1>5. \A i, j \in G : jobs[i].service = jobs[j].service
  <2> DEFINE S == {jobs[i].service : i \in G}
             f == [i \in G |-> jobs[i].service]
  <2>1. IsFiniteSet(S)
    <3>1. S = {f[i] : i \in G} /\ f = [i \in G |-> f[i]]
      OBVIOUS
    <3> HIDE DEF f, S
    <3> QED
      BY <1>4, <3>1, FiniteImage
  <2>2. ~ Cardinality(S) > 1
    BY <1>2 DEF Conflict, G
  <2>3. \A x, y \in S : x = y
    <3> HIDE DEF S
    <3> QED
      BY <2>1, <2>2, OneValue
  <2> QED
    BY <2>3
<1>6. ASSUME NEW i \in G, i \notin ByContact PROVE StopAddress(i) = StopAddress(First(G))
  <2> DEFINE S == {StopAddress(j) : j \in G}
             f == [j \in G |-> StopAddress(j)]
  <2>1. IsFiniteSet(S)
    <3>1. S = {f[j] : j \in G} /\ f = [j \in G |-> f[j]]
      OBVIOUS
    <3> HIDE DEF f, S
    <3> QED
      BY <1>4, <3>1, FiniteImage
  <2>2. groups[g].key[1] # "contact"
    <3>1. MergeKey(i) \in {<<"manual", jobs[i].mark>>, <<"to", jobs[i].to>>, <<"single", i>>}
      BY <1>6 DEF MergeKey
    <3>2. MergeKey(i)[1] \in {"manual", "to", "single"}
      BY <3>1
    <3> QED
      BY <1>1, <1>6, <3>2
  <2>3. ~ Cardinality(S) > 1
    BY <1>2, <2>2 DEF Conflict, G
  <2>4. \A x, y \in S : x = y
    <3> HIDE DEF S
    <3> QED
      BY <2>1, <2>3, OneValue
  <2> QED
    BY <1>3, <1>6, <2>4
<1>7. \A i, j \in G : MergeKey(i) = MergeKey(j)
  BY <1>1
<1> QED
  BY <1>1, <1>3, <1>5, <1>6, <1>7 DEF Service, G

-----------------------------------------------------------------------------
(* Collapsing: no job is in two stops, those of a stop agree, and no two   *)
(* stops that are driven to are one visit of one address.  Groups that are *)
(* driven both ways are not collapsed.                                     *)

Alike(g) ==
    /\ \A i \in g : jobs[i].service = Service(g)
    /\ \A i \in g \ ByContact : StopAddress(i) = StopAddress(First(g))
    /\ Service(g) \notin Single => \A i, j \in g : MergeKey(i) = MergeKey(j)

SameVisit(g, h) ==
    /\ ~ AllBackhaul(g) /\ ~ AllBackhaul(h)
    /\ StopAddress(First(g)) # None
    /\ StopKey(g) = StopKey(h)

StopsInv ==
    /\ \A s \in DOMAIN stops : stops[s] # {} /\ Alike(stops[s])
    /\ \A s, t \in DOMAIN stops : \A i \in stops[s] : i \in stops[t] => s = t
    /\ \A s, t \in DOMAIN stops : SameVisit(stops[s], stops[t]) => s = t

(* The stops are made of the groups before position k.                     *)
Collapsed(k) ==
    /\ StopsInv
    /\ \A s \in DOMAIN stops : \A i \in stops[s] :
         \E g \in DOMAIN groups : g < k /\ i \in groups[g].jobs
    /\ \A g \in DOMAIN groups : g < k => \E s \in DOMAIN stops : groups[g].jobs \subseteq stops[s]

(* A stop keeps what it is when it absorbs a group.                        *)
LEMMA Absorbed ==
  ASSUME PlanTypes, NEW g \in SUBSET DOMAIN jobs, NEW h \in SUBSET DOMAIN jobs,
         g # {}, h # {}, Alike(g), Alike(h), StopKey(g) = StopKey(h), ~ AllBackhaul(g),
         StopAddress(First(g)) # None
  PROVE  /\ Alike(g \cup h) /\ StopKey(g \cup h) = StopKey(g)
         /\ StopAddress(First(g \cup h)) = StopAddress(First(g))
         /\ ~ AllBackhaul(g \cup h)
<1>1. DOMAIN jobs \subseteq Nat
  BY DEF PlanTypes
<1>2. First(g \cup h) \in {First(g), First(h)}
  BY <1>1, FirstOfBoth
<1>3. Service(g) = Service(h) /\ StopAddress(First(g)) = StopAddress(First(h))
  BY DEF StopKey
<1>4. /\ Service(g \cup h) = Service(g)
      /\ StopAddress(First(g \cup h)) = StopAddress(First(g))
  BY <1>2, <1>3 DEF Service
<1>5. Service(g) \in Single
  BY DEF Service, StopAddress, Single
<1> QED
  BY <1>3, <1>4, <1>5 DEF Alike, StopKey, AllBackhaul

(* The stops of the next state, seen from this one.                        *)
LEMMA StopsMade ==
  ASSUME UNCHANGED input,
         \A s \in DOMAIN stops' : stops'[s] # {} /\ Alike(stops'[s]),
         \A s, t \in DOMAIN stops' : \A i \in stops'[s] : i \in stops'[t] => s = t,
         \A s, t \in DOMAIN stops' : SameVisit(stops'[s], stops'[t]) => s = t
  PROVE  StopsInv'
<1>1. jobs' = jobs /\ manifest' = manifest
  BY DEF input
<1>2. \A s \in DOMAIN stops' : Alike(stops[s])' <=> Alike(stops'[s])
  BY <1>1 DEF Alike, Service, StopAddress, MergeKey, ByContact, Rest, ByTo, Unmarked
<1>3. \A s, t \in DOMAIN stops' : SameVisit(stops[s], stops[t])' <=> SameVisit(stops'[s], stops'[t])
  BY <1>1 DEF SameVisit, StopKey, AllBackhaul, Backhaul, EndPoint, StopAddress, Service
<1> QED
  BY <1>2, <1>3 DEF StopsInv

(* Collapsing one group keeps what is known of the stops.                  *)
LEMMA CollapseStep ==
  ASSUME PlanTypes, Agreed, NEW n, Merged(n), Collapsed(next), CollapseGroup
  PROVE  Collapsed(next)'
<1> DEFINE g == groups[next].jobs
<1>1. /\ next' = next + 1 /\ next \in Nat /\ next \in DOMAIN groups
      /\ UNCHANGED <<jobs, groups, manifest, input>>
      /\ stops \in Seq(SUBSET DOMAIN jobs)
      /\ DOMAIN groups \subseteq Nat
  BY DEF CollapseGroup, PlanTypes, input
<1>2. /\ g # {} /\ g \in SUBSET DOMAIN jobs /\ Alike(g)
  BY <1>1, GroupAgrees DEF Alike
<1>3. \A s \in DOMAIN stops : \A i \in stops[s] : i \notin g
  <2> SUFFICES ASSUME NEW s \in DOMAIN stops, NEW i \in stops[s], i \in g PROVE FALSE
    OBVIOUS
  <2>1. PICK h \in DOMAIN groups : h < next /\ i \in groups[h].jobs
    BY DEF Collapsed
  <2>2. groups[h].key = groups[next].key
    BY <1>1, <2>1 DEF Merged
  <2>3. h = next
    BY <1>1, <2>2 DEF Merged
  <2> QED
    BY <1>1, <2>1, <2>3
<1> HIDE DEF g
<1>6. CASE Absorbers(g) = {}
  <2> DEFINE l == Len(stops) + 1
  <2>1. stops' = Append(stops, g)
    BY <1>6 DEF CollapseGroup, g
  <2>2. /\ DOMAIN stops' = DOMAIN stops \cup {l} /\ l \notin DOMAIN stops
        /\ \A s \in DOMAIN stops : stops'[s] = stops[s]
        /\ stops'[l] = g
    BY <1>1, <2>1
  <2> HIDE DEF l
  <2>3. \A s \in DOMAIN stops : ~ SameVisit(stops[s], g) /\ ~ SameVisit(g, stops[s])
    BY <1>6 DEF SameVisit, Absorbers, StopKey
  <2>4. StopsInv'
    <3>1. \A s \in DOMAIN stops' : stops'[s] # {} /\ Alike(stops'[s])
      BY <1>2, <2>2 DEF Collapsed, StopsInv
    <3>2. \A s, t \in DOMAIN stops' : \A i \in stops'[s] : i \in stops'[t] => s = t
      BY <1>3, <2>2 DEF Collapsed, StopsInv
    <3>3. \A s, t \in DOMAIN stops' : SameVisit(stops'[s], stops'[t]) => s = t
      BY <2>2, <2>3 DEF Collapsed, StopsInv
    <3> QED
      BY <1>1, <3>1, <3>2, <3>3, StopsMade
  <2>5. \A s \in DOMAIN stops' : \A i \in stops'[s] :
          \E h \in DOMAIN groups : h < next + 1 /\ i \in groups[h].jobs
    BY <1>1, <2>2 DEF Collapsed, g
  <2>6. \A h \in DOMAIN groups :
          h < next + 1 => \E s \in DOMAIN stops' : groups[h].jobs \subseteq stops'[s]
    BY <1>1, <2>2 DEF Collapsed, g
  <2> QED
    BY <1>1, <2>4, <2>5, <2>6 DEF Collapsed
<1>7. CASE Absorbers(g) # {}
  <2> DEFINE a == First(Absorbers(g))
  <2>1. stops' = [stops EXCEPT ![a] = @ \cup g]
    BY <1>7 DEF CollapseGroup, g
  <2>2. a \in Absorbers(g)
    <3>1. Absorbers(g) \in SUBSET Nat
      BY <1>1 DEF Absorbers
    <3> QED
      BY <1>7, <3>1, FirstIsLeast
  <2> HIDE DEF a
  <2>3. /\ DOMAIN stops' = DOMAIN stops /\ a \in DOMAIN stops
        /\ \A s \in DOMAIN stops \ {a} : stops'[s] = stops[s]
        /\ stops'[a] = stops[a] \cup g
        /\ stops[a] # {} /\ Alike(stops[a]) /\ stops[a] \in SUBSET DOMAIN jobs
        /\ ~ AllBackhaul(stops[a]) /\ StopKey(stops[a]) = StopKey(g)
        /\ StopAddress(First(stops[a])) # None
    BY <1>1, <2>1, <2>2 DEF Absorbers, Collapsed, StopsInv, StopKey
  <2>4. /\ Alike(stops'[a]) /\ StopKey(stops'[a]) = StopKey(stops[a])
        /\ StopAddress(First(stops'[a])) = StopAddress(First(stops[a]))
        /\ ~ AllBackhaul(stops'[a])
    BY <1>2, <2>3, Absorbed
  <2>5. \A s, t \in DOMAIN stops : SameVisit(stops'[s], stops'[t]) => SameVisit(stops[s], stops[t])
    BY <2>3, <2>4 DEF SameVisit
  <2>6. StopsInv'
    <3>1. \A s \in DOMAIN stops' : stops'[s] # {} /\ Alike(stops'[s])
      BY <2>3, <2>4 DEF Collapsed, StopsInv
    <3>2. \A s, t \in DOMAIN stops' : \A i \in stops'[s] : i \in stops'[t] => s = t
      BY <1>3, <2>3 DEF Collapsed, StopsInv
    <3>3. \A s, t \in DOMAIN stops' : SameVisit(stops'[s], stops'[t]) => s = t
      BY <2>3, <2>5 DEF Collapsed, StopsInv
    <3> QED
      BY <1>1, <3>1, <3>2, <3>3, StopsMade
  <2>7. \A s \in DOMAIN stops' : \A i \in stops'[s] :
          \E h \in DOMAIN groups : h < next + 1 /\ i \in groups[h].jobs
    BY <1>1, <2>3 DEF Collapsed, g
  <2>8. \A h \in DOMAIN groups :
          h < next + 1 => \E s \in DOMAIN stops' : groups[h].jobs \subseteq stops'[s]
    <3> SUFFICES ASSUME NEW h \in DOMAIN groups, h < next + 1
                 PROVE  \E s \in DOMAIN stops' : groups[h].jobs \subseteq stops'[s]
      OBVIOUS
    <3>1. CASE h = next
      BY <2>3, <3>1 DEF g
    <3>2. CASE h # next
      <4>1. h < next
        BY <1>1, <3>2
      <4>2. PICK s \in DOMAIN stops : groups[h].jobs \subseteq stops[s]
        BY <4>1 DEF Collapsed
      <4>3. stops[s] \subseteq stops'[s]
        BY <2>3
      <4> QED
        BY <2>3, <4>2, <4>3
    <3> QED
      BY <3>1, <3>2
  <2> QED
    BY <1>1, <2>6, <2>7, <2>8 DEF Collapsed
<1> QED
  BY <1>6, <1>7

-----------------------------------------------------------------------------
(* Legs: the stops before position k that are not skipped have their legs, *)
(* each one once.                                                          *)

LegsFor(g) == IF Service(g) \in Single THEN {Service(g)} ELSE Single

Emitted(k) ==
    /\ \A n \in DOMAIN legs : \E s \in DOMAIN stops :
         /\ s < k /\ ~ AllBackhaul(stops[s])
         /\ legs[n].jobs = stops[s] /\ legs[n].leg \in LegsFor(stops[s])
    /\ \A s \in DOMAIN stops : s < k /\ ~ AllBackhaul(stops[s]) =>
         \A l \in LegsFor(stops[s]) :
            \E n \in DOMAIN legs : legs[n].leg = l /\ legs[n].jobs = stops[s]
    /\ \A n, m \in DOMAIN legs : legs[n] = legs[m] => n = m

(* What LegsOf makes of a group.                                           *)
LEMMA LegsMade ==
  ASSUME NEW g, NEW q, q = LegsOf(g)
  PROVE  /\ Len(q) \in Nat /\ DOMAIN q = 1..Len(q)
         /\ \A n \in DOMAIN q : ~ AllBackhaul(g) /\ q[n].jobs = g /\ q[n].leg \in LegsFor(g)
         /\ ~ AllBackhaul(g) =>
              \A l \in LegsFor(g) : \E n \in DOMAIN q : q[n].leg = l /\ q[n].jobs = g
         /\ \A n, m \in DOMAIN q : q[n] = q[m] => n = m
<1>1. CASE AllBackhaul(g)
  <2>1. q = <<>>
    BY <1>1 DEF LegsOf
  <2> QED
    BY <1>1, <2>1
<1>2. CASE ~ AllBackhaul(g) /\ Service(g) \in Single
  <2>1. q = <<[leg |-> Service(g), jobs |-> g]>> /\ LegsFor(g) = {Service(g)}
    BY <1>2 DEF LegsOf, LegsFor
  <2>2. DOMAIN q = {1} /\ Len(q) = 1 /\ q[1] = [leg |-> Service(g), jobs |-> g]
    BY <2>1
  <2> QED
    BY <1>2, <2>1, <2>2
<1>3. CASE ~ AllBackhaul(g) /\ Service(g) \notin Single
  <2>1. /\ q = <<[leg |-> "collection", jobs |-> g], [leg |-> "delivery", jobs |-> g]>>
        /\ LegsFor(g) = {"collection", "delivery"}
    BY <1>3 DEF LegsOf, LegsFor, Single
  <2>2. /\ DOMAIN q = {1, 2} /\ Len(q) = 2
        /\ q[1] = [leg |-> "collection", jobs |-> g] /\ q[2] = [leg |-> "delivery", jobs |-> g]
    BY <2>1
  <2> QED
    BY <1>3, <2>1, <2>2
<1> QED
  BY <1>1, <1>2, <1>3

(* The legs of one stop are added to those known.                          *)
LEMMA EmitStep ==
  ASSUME PlanTypes, StopsInv, Emitted(next), EmitLegs, next \in DOMAIN stops
  PROVE  Emitted(next)'
<1> DEFINE g == stops[next]
           q == LegsOf(g)
           l == Len(legs)
<1>1. /\ next' = next + 1 /\ next \in Nat
      /\ UNCHANGED <<jobs, manifest, stops, input>>
      /\ legs \in Seq(Driven) /\ g \in SUBSET DOMAIN jobs /\ DOMAIN stops \subseteq Nat
      /\ l \in Nat /\ DOMAIN legs = 1..l /\ stops \in Seq(SUBSET DOMAIN jobs)
  BY DEF EmitLegs, PlanTypes, input
<1>2. legs' = legs \o q
  BY DEF EmitLegs
<1>3. q \in Seq(Driven)
  BY <1>1, LegsOfType
<1> HIDE DEF q
<1>4. /\ DOMAIN legs' = 1..(l + Len(q))
      /\ \A n \in DOMAIN legs : n \in DOMAIN legs' /\ legs'[n] = legs[n]
      /\ \A n \in DOMAIN q : l + n \in DOMAIN legs' /\ legs'[l + n] = q[n]
      /\ \A n \in DOMAIN legs' \ DOMAIN legs : n - l \in DOMAIN q /\ legs'[n] = q[n - l]
  BY <1>1, <1>2, <1>3
<1>5. /\ Len(q) \in Nat /\ DOMAIN q = 1..Len(q)
      /\ \A n \in DOMAIN q : ~ AllBackhaul(g) /\ q[n].jobs = g /\ q[n].leg \in LegsFor(g)
      /\ ~ AllBackhaul(g) =>
           \A x \in LegsFor(g) : \E n \in DOMAIN q : q[n].leg = x /\ q[n].jobs = g
      /\ \A n, m \in DOMAIN q : q[n] = q[m] => n = m
  <2>1. q = LegsOf(g)
    BY DEF q
  <2> HIDE DEF g
  <2> QED
    BY <2>1, LegsMade
<1>6. \A s \in DOMAIN stops : s < next + 1 <=> s < next \/ s = next
  BY <1>1
<1>7. \A n \in DOMAIN legs : legs[n].jobs # g
  <2> SUFFICES ASSUME NEW n \in DOMAIN legs, legs[n].jobs = g PROVE FALSE
    OBVIOUS
  <2>1. PICK s \in DOMAIN stops : s < next /\ legs[n].jobs = stops[s]
    BY DEF Emitted
  <2>2. s = next
    BY <2>1 DEF StopsInv
  <2> QED
    BY <1>1, <2>1, <2>2
<1>8. \A n \in DOMAIN legs' : \E s \in DOMAIN stops :
        /\ s < next + 1 /\ ~ AllBackhaul(stops[s])
        /\ legs'[n].jobs = stops[s] /\ legs'[n].leg \in LegsFor(stops[s])
  <2>1. ASSUME NEW n \in DOMAIN legs
        PROVE  \E s \in DOMAIN stops :
                 /\ s < next + 1 /\ ~ AllBackhaul(stops[s])
                 /\ legs'[n].jobs = stops[s] /\ legs'[n].leg \in LegsFor(stops[s])
    BY <1>4, <1>6, <2>1 DEF Emitted
  <2>2. ASSUME NEW n \in DOMAIN legs' \ DOMAIN legs
        PROVE  \E s \in DOMAIN stops :
                 /\ s < next + 1 /\ ~ AllBackhaul(stops[s])
                 /\ legs'[n].jobs = stops[s] /\ legs'[n].leg \in LegsFor(stops[s])
    BY <1>4, <1>5, <1>6, <2>2
  <2> QED
    BY <2>1, <2>2
<1>9. \A s \in DOMAIN stops : s < next + 1 /\ ~ AllBackhaul(stops[s]) =>
        \A x \in LegsFor(stops[s]) :
           \E n \in DOMAIN legs' : legs'[n].leg = x /\ legs'[n].jobs = stops[s]
  <2> SUFFICES ASSUME NEW s \in DOMAIN stops, s < next + 1, ~ AllBackhaul(stops[s]),
                      NEW x \in LegsFor(stops[s])
               PROVE  \E n \in DOMAIN legs' : legs'[n].leg = x /\ legs'[n].jobs = stops[s]
    OBVIOUS
  <2>1. CASE s < next
    BY <1>4, <2>1 DEF Emitted
  <2>2. CASE s = next
    BY <1>4, <1>5, <2>2
  <2> QED
    BY <1>6, <2>1, <2>2
<1>10. \A n, m \in DOMAIN legs' : legs'[n] = legs'[m] => n = m
  <2> SUFFICES ASSUME NEW n \in DOMAIN legs', NEW m \in DOMAIN legs', legs'[n] = legs'[m]
               PROVE  n = m
    OBVIOUS
  <2>1. CASE n \in DOMAIN legs /\ m \in DOMAIN legs
    BY <1>4, <2>1 DEF Emitted
  <2>2. CASE n \notin DOMAIN legs /\ m \notin DOMAIN legs
    <3>1. n - l = m - l
      BY <1>4, <1>5, <2>2
    <3> QED
      BY <1>1, <1>4, <1>5, <3>1
  <2>3. CASE n \in DOMAIN legs /\ m \notin DOMAIN legs
    BY <1>4, <1>5, <1>7, <2>3
  <2>4. CASE n \notin DOMAIN legs /\ m \in DOMAIN legs
    BY <1>4, <1>5, <1>7, <2>4
  <2> QED
    BY <2>1, <2>2, <2>3, <2>4
<1>11. \A h : (AllBackhaul(h)' <=> AllBackhaul(h)) /\ LegsFor(h)' = LegsFor(h)
  BY <1>1 DEF AllBackhaul, Backhaul, EndPoint, LegsFor, Service
<1> QED
  BY <1>1, <1>8, <1>9, <1>10, <1>11 DEF Emitted

-----------------------------------------------------------------------------
(* Destinations: each leg before position k is in one slot, and two legs   *)
(* of a slot are a collection and a delivery at one place.                 *)

Paired(q) ==
    /\ Len(q) \in {1, 2}
    /\ Len(q) = 2 => q[1].leg # q[2].leg /\ PlaceOf(q[1]) = PlaceOf(q[2])

Slotted(k) ==
    /\ \A s \in DOMAIN slots : Paired(slots[s])
    /\ \A s \in DOMAIN slots : \A x \in DOMAIN slots[s] :
         \E n \in DOMAIN legs : n < k /\ slots[s][x] = legs[n]
    /\ \A n \in DOMAIN legs : n < k =>
         \E s \in DOMAIN slots : \E x \in DOMAIN slots[s] : slots[s][x] = legs[n]
    /\ \A s, t \in DOMAIN slots : \A x \in DOMAIN slots[s], y \in DOMAIN slots[t] :
         slots[s][x] = slots[t][y] => s = t

(* A second leg comes after the first.                                     *)
LEMMA SecondLeg ==
  ASSUME NEW S, NEW u \in Seq(S), NEW r \in S, Len(u) = 1
  PROVE  /\ DOMAIN u = {1} /\ DOMAIN Append(u, r) = {1, 2} /\ Len(Append(u, r)) = 2
         /\ Append(u, r)[1] = u[1] /\ Append(u, r)[2] = r
<1>1. Append(u, r) \in Seq(S) /\ Len(Append(u, r)) = 2
  <2>1. Len(Append(u, r)) = Len(u) + 1
    OBVIOUS
  <2>2. Append(u, r) \in Seq(S)
    OBVIOUS
  <2> QED
    BY <2>1, <2>2
<1>2. DOMAIN u = 1..1 /\ DOMAIN Append(u, r) = 1..2
  BY <1>1
<1> QED
  BY <1>1, <1>2

(* One leg more is in a slot of its own or shares one.                     *)
LEMMA SlotStep ==
  ASSUME PlanTypes, SlotLeg, Slotted(next),
         \A n, m \in DOMAIN legs : legs[n] = legs[m] => n = m
  PROVE  Slotted(next)'
<1> DEFINE r == legs[next]
<1>1. /\ next' = next + 1 /\ next \in Nat /\ next \in DOMAIN legs
      /\ UNCHANGED <<jobs, legs, input>> /\ DOMAIN legs \subseteq Nat /\ r \in Driven
      /\ slots \in Seq(Seq(Driven)) /\ DOMAIN slots \subseteq Nat
      /\ \A s \in DOMAIN slots : slots[s] \in Seq(Driven)
  BY DEF SlotLeg, PlanTypes, input
<1>2. \A n \in DOMAIN legs : n < next + 1 <=> n < next \/ n = next
  BY <1>1
<1>3. \A s \in DOMAIN slots : \A x \in DOMAIN slots[s] : slots[s][x] # r
  <2> SUFFICES ASSUME NEW s \in DOMAIN slots, NEW x \in DOMAIN slots[s], slots[s][x] = r
               PROVE  FALSE
    OBVIOUS
  <2>1. PICK n \in DOMAIN legs : n < next /\ legs[n] = r
    BY DEF Slotted
  <2> QED
    BY <1>1, <2>1
<1>4. \A q : Paired(q)' <=> Paired(q)
  BY <1>1 DEF Paired, PlaceOf
<1> HIDE DEF r
<1>5. ASSUME NEW a, NEW b,
             DOMAIN slots' = DOMAIN slots \cup {a},
             \A s \in DOMAIN slots \ {a} : slots'[s] = slots[s],
             a \in DOMAIN slots => /\ DOMAIN slots'[a] = DOMAIN slots[a] \cup {b}
                                   /\ \A x \in DOMAIN slots[a] : slots'[a][x] = slots[a][x],
             a \notin DOMAIN slots => DOMAIN slots'[a] = {b},
             b \in DOMAIN slots[a] => a \notin DOMAIN slots,
             slots'[a][b] = r, Paired(slots'[a])
      PROVE  Slotted(next)'
  <2>1. \A s \in DOMAIN slots' : Paired(slots'[s])
    BY <1>5 DEF Slotted
  <2>2. \A s \in DOMAIN slots' : \A x \in DOMAIN slots'[s] :
          \/ s \in DOMAIN slots /\ x \in DOMAIN slots[s] /\ slots'[s][x] = slots[s][x]
          \/ s = a /\ x = b /\ slots'[s][x] = r
    BY <1>5
  <2>3. \A s \in DOMAIN slots : \A x \in DOMAIN slots[s] :
          s \in DOMAIN slots' /\ x \in DOMAIN slots'[s] /\ slots'[s][x] = slots[s][x]
    BY <1>5
  <2>4. a \in DOMAIN slots' /\ b \in DOMAIN slots'[a] /\ slots'[a][b] = r
    BY <1>5
  <2>5. \A s \in DOMAIN slots' : \A x \in DOMAIN slots'[s] :
          \E n \in DOMAIN legs : n < next + 1 /\ slots'[s][x] = legs[n]
    BY <1>1, <1>2, <2>2 DEF Slotted, r
  <2>6. \A n \in DOMAIN legs : n < next + 1 =>
          \E s \in DOMAIN slots' : \E x \in DOMAIN slots'[s] : slots'[s][x] = legs[n]
    <3> SUFFICES ASSUME NEW n \in DOMAIN legs, n < next + 1
                 PROVE  \E s \in DOMAIN slots' : \E x \in DOMAIN slots'[s] : slots'[s][x] = legs[n]
      OBVIOUS
    <3>1. CASE n = next
      BY <2>4, <3>1 DEF r
    <3>2. CASE n < next
      <4>1. PICK s \in DOMAIN slots : \E x \in DOMAIN slots[s] : slots[s][x] = legs[n]
        BY <3>2 DEF Slotted
      <4> QED
        BY <2>3, <4>1
    <3> QED
      BY <1>2, <3>1, <3>2
  <2>7. \A s, t \in DOMAIN slots' : \A x \in DOMAIN slots'[s], y \in DOMAIN slots'[t] :
          slots'[s][x] = slots'[t][y] => s = t
    BY <1>3, <2>2 DEF Slotted
  <2> QED
    BY <1>1, <1>4, <2>1, <2>5, <2>6, <2>7 DEF Slotted
<1>6. CASE Open(r) = {}
  <2> DEFINE a == Len(slots) + 1
  <2>1. slots' = Append(slots, <<r>>)
    BY <1>6 DEF SlotLeg, r
  <2>2. /\ DOMAIN slots' = DOMAIN slots \cup {a} /\ a \notin DOMAIN slots
        /\ \A s \in DOMAIN slots : slots'[s] = slots[s]
        /\ slots'[a] = <<r>>
    BY <1>1, <2>1
  <2> HIDE DEF a
  <2>3. DOMAIN slots'[a] = {1} /\ slots'[a][1] = r /\ Len(slots'[a]) = 1
    BY <2>2
  <2>4. Paired(slots'[a])
    BY <2>3 DEF Paired
  <2> QED
    BY <1>5, <2>2, <2>3, <2>4
<1>7. CASE Open(r) # {}
  <2> DEFINE a == First(Open(r))
  <2>1. slots' = [slots EXCEPT ![a] = Append(@, r)]
    BY <1>7 DEF SlotLeg, r
  <2>2. a \in Open(r)
    <3>1. Open(r) \in SUBSET Nat
      BY <1>1 DEF Open
    <3> QED
      BY <1>7, <3>1, FirstIsLeast
  <2> HIDE DEF a
  <2>3. /\ a \in DOMAIN slots /\ Len(slots[a]) = 1 /\ slots[a] \in Seq(Driven)
        /\ slots[a][1].leg # r.leg /\ PlaceOf(slots[a][1]) = PlaceOf(r)
    BY <1>1, <2>2 DEF Open
  <2>4. /\ DOMAIN slots' = DOMAIN slots
        /\ \A s \in DOMAIN slots \ {a} : slots'[s] = slots[s]
        /\ slots'[a] = Append(slots[a], r)
    BY <1>1, <2>1, <2>3
  <2>5. /\ DOMAIN slots[a] = {1} /\ DOMAIN slots'[a] = {1, 2} /\ Len(slots'[a]) = 2
        /\ slots'[a][1] = slots[a][1] /\ slots'[a][2] = r
    BY <1>1, <2>3, <2>4, SecondLeg
  <2>6. Paired(slots'[a])
    BY <2>3, <2>5 DEF Paired
  <2> QED
    BY <1>5, <2>3, <2>4, <2>5, <2>6
<1> QED
  BY <1>6, <1>7

-----------------------------------------------------------------------------
(* The whole plan.                                                         *)

Whole == StopsInv /\ \A i \in DOMAIN jobs : \E s \in DOMAIN stops : i \in stops[s]

Route == Origin \o [s \in DOMAIN slots |-> Destination(slots[s])] \o Point(EndPoint, "delivery")

PlanInv ==
    /\ stage \in {"normalize", "merge"} => stops = <<>>
    /\ stage \in {"normalize", "merge", "collapse"} => legs = <<>>
    /\ stage \in {"normalize", "merge", "collapse", "legs"} => slots = <<>>
    /\ stage = "merge" => Merged(next)
    /\ stage = "collapse" => Agreed /\ Merged(Len(jobs) + 1) /\ Collapsed(next)
    /\ stage \in {"legs", "slots", "booked"} => Whole
    /\ stage = "legs" => Emitted(next)
    /\ stage \in {"slots", "booked"} => Emitted(Len(stops) + 1)
    /\ stage = "slots" => Slotted(next)
    /\ stage = "booked" =>
         /\ Slotted(Len(legs) + 1) /\ slots # <<>>
         /\ route = Route /\ packages = UNION {Lines(s) : s \in DOMAIN slots}

(* A loop that is over leaves what it has made.                            *)
LEMMA Kept ==
  ASSUME UNCHANGED input
  PROVE  /\ UNCHANGED groups => Agreed' = Agreed /\ \A n : Merged(n)' = Merged(n)
         /\ UNCHANGED stops => StopsInv' = StopsInv /\ Whole' = Whole
         /\ UNCHANGED <<groups, stops>> => \A n : Collapsed(n)' = Collapsed(n)
         /\ UNCHANGED <<stops, legs>> => \A n : Emitted(n)' = Emitted(n)
         /\ UNCHANGED <<legs, slots>> => \A n : Slotted(n)' = Slotted(n)
<1> USE DEF input
<1>1. ASSUME UNCHANGED groups PROVE Agreed' = Agreed /\ \A n : Merged(n)' = Merged(n)
  BY <1>1 DEF Agreed, Conflict, StopAddress, Merged, MergeKey, Unmarked, ByTo, ByContact, Rest
<1>2. ASSUME UNCHANGED stops PROVE StopsInv' = StopsInv
  BY <1>2 DEF StopsInv, Alike, SameVisit, StopKey, AllBackhaul, Backhaul, EndPoint,
     StopAddress, Service, MergeKey, ByContact, Rest, ByTo, Unmarked
<1>3. ASSUME UNCHANGED stops PROVE Whole' = Whole
  BY <1>2, <1>3 DEF Whole
<1>4. ASSUME UNCHANGED <<groups, stops>> PROVE \A n : Collapsed(n)' = Collapsed(n)
  BY <1>2, <1>4 DEF Collapsed
<1>5. ASSUME UNCHANGED <<stops, legs>> PROVE \A n : Emitted(n)' = Emitted(n)
  BY <1>5 DEF Emitted, AllBackhaul, Backhaul, EndPoint, LegsFor, Service
<1>6. ASSUME UNCHANGED <<legs, slots>> PROVE \A n : Slotted(n)' = Slotted(n)
  BY <1>6 DEF Slotted, Paired, PlaceOf
<1> QED
  BY <1>1, <1>2, <1>3, <1>4, <1>5, <1>6

(* An empty plan satisfies the invariant.                                  *)
LEMMA PlanInit == Init => PlanInv
  BY DEF Init, PlanInv

(* Each loop keeps its invariant and hands it to the next.                 *)
LEMMA PlanStep == PlanTypes /\ PlanInv /\ [Next]_vars => PlanInv'
<1> SUFFICES ASSUME PlanTypes, PlanInv, [Next]_vars PROVE PlanInv'
  OBVIOUS
<1> USE DEF Proceed
<1>1. /\ DOMAIN jobs = 1..Len(jobs) /\ DOMAIN groups = 1..Len(groups)
      /\ DOMAIN stops = 1..Len(stops) /\ DOMAIN legs = 1..Len(legs)
      /\ {Len(jobs), Len(groups), Len(stops), Len(legs)} \subseteq Nat
      /\ next \in Nat \ {0}
  BY DEF PlanTypes
<1>2. CASE Normalize
  <2>1. /\ groups' = <<>> /\ stops' = <<>> /\ legs' = <<>> /\ slots' = <<>>
        /\ next' = 1 /\ stage' \in {"merge", "rejected"}
    BY <1>2 DEF Normalize, PlanTypes
  <2>2. DOMAIN jobs' = DOMAIN jobs
    BY <1>2 DEF Normalize
  <2>3. Merged(next)'
    BY <1>1, <2>1, <2>2 DEF Merged
  <2> QED
    BY <2>1, <2>3 DEF PlanInv
<1>3. CASE MergeJob
  <2>1. Merged(next)'
    BY <1>3, MergeStep DEF MergeJob, PlanInv
  <2> QED
    BY <1>3, <2>1 DEF MergeJob, PlanInv
<1>4. CASE Validate
  <2>1. /\ stage = "merge" /\ next \notin DOMAIN jobs /\ UNCHANGED input
        /\ UNCHANGED groups /\ UNCHANGED <<stops, legs, slots>>
        /\ stage' \in {"collapse", "rejected"} /\ next' = 1
        /\ stage' = "collapse" => Agreed
    BY <1>4 DEF Validate, Agreed
  <2>2. next >= Len(jobs) + 1
    BY <1>1, <2>1
  <2>3. Merged(Len(jobs) + 1)
    <3>1. Merged(next)
      BY <2>1 DEF PlanInv
    <3>2. \A i \in DOMAIN jobs : i < Len(jobs) + 1 /\ i < next
      BY <1>1, <2>2
    <3>3. \A g \in DOMAIN groups : groups[g].jobs \subseteq DOMAIN jobs
      <4>1. \A g \in DOMAIN groups : groups[g] \in Keyed
        BY DEF PlanTypes
      <4> QED
        BY <4>1 DEF Keyed
    <3> QED
      BY <3>1, <3>2, <3>3 DEF Merged
  <2>4. Len(jobs') = Len(jobs) /\ stops' = <<>>
    BY <2>1 DEF PlanInv, input
  <2>5. Merged(Len(jobs) + 1)' /\ (stage' = "collapse" => Agreed')
    BY <2>1, <2>3, <2>4, Kept
  <2>6. Collapsed(next)'
    BY <1>1, <2>1, <2>4 DEF Collapsed, StopsInv
  <2> QED
    BY <2>1, <2>4, <2>5, <2>6 DEF PlanInv
<1>5. CASE CollapseGroup
  <2>1. stage = "collapse" /\ stage' = "collapse" /\ UNCHANGED <<groups, legs, slots>>
        /\ UNCHANGED input /\ Len(jobs') = Len(jobs)
    BY <1>5 DEF CollapseGroup, input
  <2>2. Agreed /\ Merged(Len(jobs) + 1) /\ Collapsed(next)
    BY <2>1 DEF PlanInv
  <2>3. Collapsed(next)'
    BY <1>5, <2>2, CollapseStep
  <2>4. Agreed' /\ Merged(Len(jobs) + 1)'
    BY <2>1, <2>2, Kept
  <2> QED
    BY <2>1, <2>3, <2>4 DEF PlanInv
<1>6. CASE EndCollapse
  <2>1. /\ stage = "collapse" /\ next \notin DOMAIN groups /\ stage' = "legs" /\ next' = 1
        /\ UNCHANGED input /\ UNCHANGED <<groups, stops, legs, slots>>
    BY <1>6 DEF EndCollapse
  <2>2. Merged(Len(jobs) + 1) /\ Collapsed(next) /\ legs = <<>> /\ slots = <<>>
    BY <2>1 DEF PlanInv
  <2>3. \A g \in DOMAIN groups : g < next
    BY <1>1, <2>1
  <2>4. Whole
    <3>1. \A i \in DOMAIN jobs : i < Len(jobs) + 1
      BY <1>1
    <3>2. \A i \in DOMAIN jobs : \E g \in DOMAIN groups : i \in groups[g].jobs
      BY <2>2, <3>1 DEF Merged
    <3> QED
      BY <2>2, <2>3, <3>2 DEF Whole, Collapsed
  <2>5. Whole'
    BY <2>1, <2>4, Kept
  <2>6. Emitted(next)'
    BY <1>1, <2>1, <2>2 DEF Emitted
  <2> QED
    BY <2>1, <2>2, <2>5, <2>6 DEF PlanInv
<1>7. CASE EmitLegs
  <2>1. stage = "legs" /\ UNCHANGED input /\ UNCHANGED <<groups, stops, slots>>
    BY <1>7 DEF EmitLegs
  <2>2. Whole /\ Emitted(next) /\ slots = <<>>
    BY <2>1 DEF PlanInv
  <2>3. Whole'
    BY <2>1, <2>2, Kept
  <2>4. CASE next \in DOMAIN stops
    <3>1. Emitted(next)'
      BY <1>7, <2>2, <2>4, EmitStep DEF Whole
    <3>2. stage' = "legs"
      BY <1>7, <2>1, <2>4 DEF EmitLegs
    <3> QED
      BY <2>1, <2>2, <2>3, <3>1, <3>2 DEF PlanInv
  <2>5. CASE next \notin DOMAIN stops
    <3>1. stage' = "slots" /\ next' = 1 /\ UNCHANGED legs
      BY <1>7, <2>5 DEF EmitLegs
    <3>2. \A s \in DOMAIN stops : s < next /\ s < Len(stops) + 1
      BY <1>1, <2>5
    <3>3. Emitted(Len(stops) + 1)
      BY <2>2, <3>2 DEF Emitted
    <3>4. Emitted(Len(stops) + 1)'
      BY <2>1, <3>1, <3>3, Kept
    <3>5. Slotted(next)'
      BY <1>1, <2>1, <2>2, <3>1 DEF Slotted
    <3> QED
      BY <2>3, <3>1, <3>4, <3>5 DEF PlanInv
  <2> QED
    BY <2>4, <2>5
<1>8. CASE SlotLeg
  <2>1. /\ stage = "slots" /\ stage' = "slots" /\ UNCHANGED input
        /\ UNCHANGED <<stops, legs>> /\ Len(stops') = Len(stops)
    BY <1>8 DEF SlotLeg
  <2>2. Whole /\ Emitted(Len(stops) + 1) /\ Slotted(next)
    BY <2>1 DEF PlanInv
  <2>3. Whole' /\ Emitted(Len(stops) + 1)'
    BY <2>1, <2>2, Kept
  <2>4. Slotted(next)'
    BY <1>8, <2>2, SlotStep DEF Emitted
  <2> QED
    BY <2>1, <2>3, <2>4 DEF PlanInv
<1>9. CASE Book
  <2>1. /\ stage = "slots" /\ stage' \in {"booked", "rejected"} /\ UNCHANGED input
        /\ UNCHANGED <<stops, legs>> /\ UNCHANGED slots /\ next \notin DOMAIN legs
        /\ Len(stops') = Len(stops) /\ Len(legs') = Len(legs)
    BY <1>9 DEF Book
  <2>2. Whole /\ Emitted(Len(stops) + 1) /\ Slotted(next)
    BY <2>1 DEF PlanInv
  <2>3. Slotted(Len(legs) + 1)
    <3>1. \A n \in DOMAIN legs : n < next /\ n < Len(legs) + 1
      BY <1>1, <2>1
    <3> QED
      BY <2>2, <3>1 DEF Slotted
  <2>4. Whole' /\ Emitted(Len(stops) + 1)' /\ Slotted(Len(legs) + 1)'
    BY <2>1, <2>2, <2>3, Kept
  <2>5. ASSUME stage' = "booked"
        PROVE  /\ slots # <<>> /\ route' = Route
               /\ packages' = UNION {Lines(s) : s \in DOMAIN slots}
    BY <1>9, <2>5 DEF Book, Route
  <2>6. Route' = Route /\ \A s : Lines(s)' = Lines(s)
    BY <2>1 DEF Route, Origin, EndPoint, Lines, Destination, PlaceOf, Members, input
  <2> QED
    BY <2>1, <2>4, <2>5, <2>6 DEF PlanInv
<1>10. CASE UNCHANGED vars
  <2>1. /\ UNCHANGED input /\ UNCHANGED <<stage, next, route, packages>>
        /\ UNCHANGED groups /\ UNCHANGED stops /\ UNCHANGED legs /\ UNCHANGED slots
        /\ Len(jobs') = Len(jobs)
    BY <1>10 DEF vars, input
  <2>2. Route' = Route /\ \A s : Lines(s)' = Lines(s)
    BY <2>1 DEF Route, Origin, EndPoint, Lines, Destination, PlaceOf, Members, input
  <2> QED
    BY <2>1, <2>2, Kept DEF PlanInv
<1> QED
  BY <1>2, <1>3, <1>4, <1>5, <1>6, <1>7, <1>8, <1>9, <1>10 DEF Next

(* Types and plan are as they should be at all times.                      *)
LEMMA PlanHolds == Spec => [](PlanTypes /\ PlanInv)
<1>1. Init => PlanTypes /\ PlanInv
  BY TypeInit, PlanInit
<1>2. PlanTypes /\ PlanInv /\ [Next]_vars => PlanTypes' /\ PlanInv'
  BY TypeStep, PlanStep
<1> QED
  BY <1>1, <1>2, PTL DEF Spec

-----------------------------------------------------------------------------
(* The order that is booked.                                               *)

(* Two sequences in a row.                                                 *)
LEMMA Joined ==
  ASSUME NEW T, NEW u \in Seq(T), NEW v \in Seq(T)
  PROVE  /\ u \o v \in Seq(T) /\ Len(u \o v) = Len(u) + Len(v)
         /\ \A d \in 1..Len(u) : (u \o v)[d] = u[d]
         /\ \A d \in 1..Len(v) : (u \o v)[Len(u) + d] = v[d]
<1>1. u \o v \in Seq(T)
  OBVIOUS
<1>2. Len(u \o v) = Len(u) + Len(v)
  OBVIOUS
<1>3. \A d \in 1..Len(u) : (u \o v)[d] = u[d]
  OBVIOUS
<1>4. \A d \in 1..Len(v) : (u \o v)[Len(u) + d] = v[d]
  OBVIOUS
<1> QED
  BY <1>1, <1>2, <1>3, <1>4

(* A point without an address is no destination.                           *)
LEMMA PointMade ==
  ASSUME NEW T, NEW place, NEW kind, [place |-> place, kind |-> kind, calls |-> {}] \in T
  PROVE  LET q == Point(place, kind) IN
         /\ q \in Seq(T) /\ Len(q) \in Nat
         /\ \A d \in 1..Len(q) : q[d].calls = {} /\ q[d].place = place /\ q[d].kind = kind
         /\ place # None => Len(q) = 1 /\ q[1].place = place
<1> DEFINE p == [place |-> place, kind |-> kind, calls |-> {}]
<1>1. CASE place = None
  <2>1. Point(place, kind) = <<>>
    BY <1>1 DEF Point
  <2>2. <<>> \in Seq(T) /\ Len(<<>>) = 0
    OBVIOUS
  <2> QED
    BY <1>1, <2>1, <2>2
<1>2. CASE place # None
  <2>1. Point(place, kind) = <<p>>
    BY <1>2 DEF Point
  <2>2. p.calls = {} /\ p.place = place /\ p.kind = kind /\ p \in T
    OBVIOUS
  <2> HIDE DEF p
  <2>3. <<p>> \in Seq(T) /\ Len(<<p>>) = 1 /\ <<p>>[1] = p
    BY <2>2
  <2>4. \A d \in 1..1 : d = 1
    OBVIOUS
  <2> QED
    BY <2>1, <2>2, <2>3, <2>4
<1> QED
  BY <1>1, <1>2

(* Between the start point and the end point are the slots.                *)
LEMMA RouteMade ==
  ASSUME PlanTypes, PlanInv, Booked
  PROVE  LET o == Len(Origin) IN
         /\ o \in Nat /\ Len(route) \in Nat /\ DOMAIN route = 1..Len(route)
         /\ DOMAIN slots = 1..Len(slots) /\ Len(slots) \in Nat
         /\ \A s \in DOMAIN slots : o + s \in DOMAIN route /\ route[o + s] = Destination(slots[s])
         /\ \A d \in DOMAIN route :
              \/ d - o \in DOMAIN slots
              \/ /\ d - o \notin DOMAIN slots /\ route[d].calls = {}
                 /\ route[d].place \in {manifest.start, EndPoint} /\ route[d].kind \in Single
         /\ EndPoint # None => route[Len(route)].place = EndPoint
<1> DEFINE o == Len(Origin)
           mid == [s \in DOMAIN slots |-> Destination(slots[s])]
           end == Point(EndPoint, "delivery")
           T == {Destination(slots[s]) : s \in DOMAIN slots}
                \cup [place : {manifest.start, EndPoint}, kind : Single, calls : {{}}]
           Plain(r) == /\ r.calls = {} /\ r.kind \in Single
                       /\ r.place \in {manifest.start, EndPoint}
<1>1. route = (Origin \o mid) \o end
  BY DEF PlanInv, Booked, Route
<1>2. /\ Origin \in Seq(T) /\ o \in Nat
      /\ \A d \in 1..o : Plain(Origin[d])
  <2>1. [place |-> manifest.start, kind |-> "collection", calls |-> {}] \in T
    BY DEF Single
  <2> HIDE DEF T
  <2> QED
    BY <2>1, PointMade DEF Origin, Single
<1>3. /\ mid \in Seq(T) /\ Len(mid) = Len(slots)
      /\ DOMAIN slots = 1..Len(slots) /\ Len(slots) \in Nat
      /\ \A s \in DOMAIN slots : mid[s] = Destination(slots[s])
  <2>1. slots \in Seq(Seq(Driven))
    BY DEF PlanTypes
  <2>2. mid = [s \in DOMAIN slots |-> mid[s]] /\ \A s \in DOMAIN slots : mid[s] \in T
    OBVIOUS
  <2> HIDE DEF T
  <2>3. mid \in Seq(T) /\ Len(mid) = Len(slots)
    <3> HIDE DEF mid
    <3> QED
      BY <2>1, <2>2, SameLength
  <2> QED
    BY <2>1, <2>3
<1>4. /\ end \in Seq(T) /\ Len(end) \in Nat
      /\ \A d \in 1..Len(end) : Plain(end[d])
      /\ EndPoint # None => Len(end) = 1 /\ end[1].place = EndPoint
  <2>1. [place |-> EndPoint, kind |-> "delivery", calls |-> {}] \in T
    BY DEF Single
  <2> HIDE DEF T
  <2>2. /\ end \in Seq(T) /\ Len(end) \in Nat
        /\ \A d \in 1..Len(end) :
             end[d].calls = {} /\ end[d].place = EndPoint /\ end[d].kind = "delivery"
        /\ EndPoint # None => Len(end) = 1 /\ end[1].place = EndPoint
    BY <2>1, PointMade
  <2> HIDE DEF end
  <2> QED
    BY <2>2 DEF Single
<1> HIDE DEF mid, end, T
<1> DEFINE front == Origin \o mid
<1>5. /\ front \in Seq(T) /\ Len(front) \in Nat /\ Len(front) = o + Len(slots)
      /\ \A d \in 1..o : front[d] = Origin[d]
      /\ \A s \in 1..Len(slots) : front[o + s] = mid[s]
  BY <1>2, <1>3
<1> HIDE DEF front
<1>6. /\ route \in Seq(T) /\ Len(route) = Len(front) + Len(end)
      /\ \A d \in 1..Len(front) : route[d] = front[d]
      /\ \A d \in 1..Len(end) : route[Len(front) + d] = end[d]
  <2>1. route = front \o end
    BY <1>1 DEF front
  <2>2. /\ front \o end \in Seq(T) /\ Len(front \o end) = Len(front) + Len(end)
        /\ \A d \in 1..Len(front) : (front \o end)[d] = front[d]
        /\ \A d \in 1..Len(end) : (front \o end)[Len(front) + d] = end[d]
    <3>1. front \in Seq(T) /\ end \in Seq(T)
      BY <1>4, <1>5
    <3> QED
      BY <3>1, Joined
  <2> QED
    BY <2>1, <2>2, Zenon
<1> HIDE DEF o
<1>7. \A s \in DOMAIN slots : o + s \in DOMAIN route /\ route[o + s] = Destination(slots[s])
  <2> SUFFICES ASSUME NEW s \in DOMAIN slots
               PROVE  o + s \in DOMAIN route /\ route[o + s] = Destination(slots[s])
    OBVIOUS
  <2>1. s \in 1..Len(slots) /\ o + s \in 1..Len(front) /\ o + s \in 1..Len(route)
    BY <1>2, <1>3, <1>4, <1>5, <1>6
  <2>2. route[o + s] = front[o + s] /\ front[o + s] = mid[s]
    BY <1>5, <1>6, <2>1
  <2> QED
    BY <1>3, <1>6, <2>1, <2>2
<1>8. ASSUME NEW d \in DOMAIN route, d - o \notin DOMAIN slots PROVE Plain(route[d])
  <2>1. d \in 1..Len(route)
    BY <1>6
  <2>2. CASE d \in 1..o
    <3>1. d \in 1..Len(front)
      BY <1>2, <1>3, <1>5, <2>2
    <3> QED
      BY <1>2, <1>5, <1>6, <2>2, <3>1
  <2>3. CASE d > o + Len(slots)
    <3> DEFINE e == d - Len(front)
    <3>1. e \in 1..Len(end) /\ d = Len(front) + e
      BY <1>2, <1>3, <1>4, <1>5, <1>6, <2>1, <2>3
    <3>2. route[Len(front) + e] = end[e] /\ Plain(end[e])
      BY <1>4, <1>6, <3>1
    <3> QED
      BY <3>1, <3>2
  <2>4. d - o \in 1..Len(slots) \/ d \in 1..o \/ d > o + Len(slots)
    BY <1>2, <1>3, <2>1
  <2> QED
    BY <1>3, <1>8, <2>2, <2>3, <2>4
<1>9. ASSUME EndPoint # None PROVE route[Len(route)].place = EndPoint
  <2>1. 1 \in 1..Len(end) /\ Len(route) = Len(front) + 1 /\ end[1].place = EndPoint
    <3>1. Len(end) = 1 /\ end[1].place = EndPoint
      BY <1>4, <1>9
    <3> QED
      BY <1>6, <3>1
  <2> QED
    BY <1>6, <2>1
<1>10. Len(route) \in Nat /\ DOMAIN route = 1..Len(route)
  BY <1>6
<1> QED
  BY <1>2, <1>3, <1>7, <1>8, <1>9, <1>10 DEF o

(* The leg of a job that a destination calls for is one of its stop's.     *)
LEMMA CallMade ==
  ASSUME PlanTypes, PlanInv, Booked, NEW l \in Single, NEW s \in DOMAIN stops,
         NEW i \in stops[s], NEW d \in Calls(l, i)
  PROVE  /\ d - Len(Origin) \in DOMAIN slots /\ d \in DOMAIN route
         /\ ~ AllBackhaul(stops[s]) /\ l \in LegsFor(stops[s])
         /\ \E x \in DOMAIN slots[d - Len(Origin)] :
              slots[d - Len(Origin)][x] = [leg |-> l, jobs |-> stops[s]]
         /\ route[d].place = PlaceOf([leg |-> l, jobs |-> stops[s]])
<1> DEFINE t == d - Len(Origin)
<1>1. d \in DOMAIN route /\ <<l, i>> \in route[d].calls
  BY DEF Calls
<1>2. t \in DOMAIN slots
  BY <1>1, RouteMade
<1>3. route[d] = Destination(slots[t])
  <2>1. Len(Origin) \in Nat /\ DOMAIN route \subseteq Nat
    BY RouteMade
  <2>2. Len(Origin) + t = d
    BY <1>1, <2>1
  <2> QED
    BY <1>2, <2>2, RouteMade
<1> HIDE DEF t
<1>4. /\ route[d].calls = UNION {{<<r.leg, j>> : j \in r.jobs} : r \in Members(slots[t])}
      /\ route[d].place = PlaceOf(slots[t][1])
  BY <1>3 DEF Destination
<1>5. PICK x \in DOMAIN slots[t] : slots[t][x].leg = l /\ i \in slots[t][x].jobs
  BY <1>1, <1>4 DEF Members
<1>6. Slotted(Len(legs) + 1) /\ Emitted(Len(stops) + 1) /\ Whole
  BY DEF PlanInv, Booked
<1>7. PICK n \in DOMAIN legs : slots[t][x] = legs[n]
  BY <1>2, <1>6 DEF Slotted
<1>8. PICK a \in DOMAIN stops :
        ~ AllBackhaul(stops[a]) /\ legs[n].jobs = stops[a] /\ legs[n].leg \in LegsFor(stops[a])
  BY <1>6 DEF Emitted
<1>9. a = s
  BY <1>5, <1>6, <1>7, <1>8 DEF Whole, StopsInv
<1>10. slots[t][x] = [leg |-> l, jobs |-> stops[s]]
  <2>1. legs[n] \in Driven
    BY DEF PlanTypes
  <2> QED
    BY <1>5, <1>7, <1>8, <1>9, <2>1 DEF Driven
<1>11. PlaceOf(slots[t][1]) = PlaceOf(slots[t][x])
  <2>1. Paired(slots[t]) /\ slots[t] \in Seq(Driven)
    BY <1>2, <1>6 DEF Slotted, PlanTypes
  <2>2. x = 1 \/ (x = 2 /\ Len(slots[t]) = 2)
    BY <2>1 DEF Paired
  <2> QED
    BY <2>1, <2>2 DEF Paired
<1> QED
  BY <1>1, <1>2, <1>4, <1>5, <1>7, <1>8, <1>9, <1>10, <1>11 DEF t

(* A leg of a stop that is driven to is in the order.                      *)
LEMMA LegIsCalled ==
  ASSUME PlanTypes, PlanInv, Booked, NEW s \in DOMAIN stops, ~ AllBackhaul(stops[s]),
         NEW l \in LegsFor(stops[s]), NEW i \in stops[s]
  PROVE  Calls(l, i) # {}
<1>1. Slotted(Len(legs) + 1) /\ Emitted(Len(stops) + 1)
  BY DEF PlanInv, Booked
<1>2. s < Len(stops) + 1
  BY DEF PlanTypes
<1>3. PICK n \in DOMAIN legs : legs[n].leg = l /\ legs[n].jobs = stops[s]
  BY <1>1, <1>2 DEF Emitted
<1>4. n < Len(legs) + 1
  BY DEF PlanTypes
<1>5. PICK t \in DOMAIN slots : \E x \in DOMAIN slots[t] : slots[t][x] = legs[n]
  BY <1>1, <1>4 DEF Slotted
<1>6. PICK x \in DOMAIN slots[t] : slots[t][x] = legs[n]
  BY <1>5
<1>7. /\ Len(Origin) + t \in DOMAIN route
      /\ route[Len(Origin) + t] = Destination(slots[t])
  BY RouteMade
<1>8. <<l, i>> \in {<<legs[n].leg, j>> : j \in legs[n].jobs}
  BY <1>3
<1>9. <<l, i>> \in Destination(slots[t]).calls
  BY <1>6, <1>8 DEF Destination, Members
<1> QED
  BY <1>7, <1>9 DEF Calls

(* Every job is in a stop, which is skipped or has the job's legs.         *)
LEMMA StopOf ==
  ASSUME PlanTypes, PlanInv, Booked, NEW i \in DOMAIN jobs
  PROVE  \E s \in DOMAIN stops :
           /\ i \in stops[s] /\ LegsFor(stops[s]) = LegsOfJob(i)
           /\ jobs[i].service = Service(stops[s])
           /\ i \in Skipped <=> AllBackhaul(stops[s])
<1>1. Whole
  BY DEF PlanInv, Booked
<1>2. PICK s \in DOMAIN stops : i \in stops[s]
  BY <1>1 DEF Whole
<1>3. jobs[i].service = Service(stops[s])
  BY <1>1, <1>2 DEF Whole, StopsInv, Alike
<1>4. i \in Skipped <=> AllBackhaul(stops[s])
  BY <1>1, <1>2 DEF Skipped, Whole, StopsInv
<1> QED
  BY <1>2, <1>3, <1>4 DEF LegsFor, LegsOfJob

-----------------------------------------------------------------------------
(* The properties.                                                         *)

(* Every leg of every job is booked once, whatever groups, stops and slots *)
(* its job went through, and what is skipped is collected at the end.      *)
THEOREM LegsAreBookedOnce == Spec => []EveryLegBookedOnce
<1>1. PlanTypes /\ PlanInv => EveryLegBookedOnce
  <2> SUFFICES ASSUME PlanTypes, PlanInv, Booked, NEW i \in DOMAIN jobs
               PROVE  /\ \A l \in Single : Cardinality(Calls(l, i)) =
                            IF i \notin Skipped /\ l \in LegsOfJob(i) THEN 1 ELSE 0
                      /\ i \in Skipped => jobs[i].service = "collection"
                                          /\ route[Len(route)].place = jobs[i].from
    BY DEF EveryLegBookedOnce
  <2>1. PICK s \in DOMAIN stops :
          /\ i \in stops[s] /\ LegsFor(stops[s]) = LegsOfJob(i)
          /\ i \in Skipped <=> AllBackhaul(stops[s])
    BY StopOf
  <2>2. ASSUME NEW l \in Single
        PROVE  Cardinality(Calls(l, i)) = IF i \notin Skipped /\ l \in LegsOfJob(i) THEN 1 ELSE 0
    <3>1. CASE i \notin Skipped /\ l \in LegsOfJob(i)
      <4>1. PICK d \in Calls(l, i) : TRUE
        BY <2>1, <3>1, LegIsCalled
      <4>2. ASSUME NEW e \in Calls(l, i) PROVE e = d
        <5> DEFINE r == [leg |-> l, jobs |-> stops[s]]
                   t == d - Len(Origin)
                   u == e - Len(Origin)
        <5>1. /\ t \in DOMAIN slots /\ d \in DOMAIN route
              /\ \E x \in DOMAIN slots[t] : slots[t][x] = r
          BY <2>1, CallMade
        <5>2. /\ u \in DOMAIN slots /\ e \in DOMAIN route
              /\ \E y \in DOMAIN slots[u] : slots[u][y] = r
          BY <2>1, CallMade
        <5>3. Slotted(Len(legs) + 1)
          BY DEF PlanInv, Booked
        <5> HIDE DEF r
        <5>4. t = u
          BY <5>1, <5>2, <5>3 DEF Slotted
        <5>5. Len(Origin) \in Nat /\ DOMAIN route \subseteq Nat
          BY RouteMade
        <5> QED
          BY <5>1, <5>2, <5>4, <5>5
      <4>3. Calls(l, i) = {d}
        BY <4>1, <4>2
      <4> QED
        BY <3>1, <4>3, FS_Singleton
    <3>2. CASE ~ (i \notin Skipped /\ l \in LegsOfJob(i))
      <4>1. Calls(l, i) = {}
        BY <2>1, <3>2, CallMade
      <4> QED
        BY <3>2, <4>1, FS_EmptySet
    <3> QED
      BY <3>1, <3>2
  <2>3. ASSUME i \in Skipped
        PROVE  jobs[i].service = "collection" /\ route[Len(route)].place = jobs[i].from
    <3>1. Backhaul(i)
      BY <2>1, <2>3 DEF AllBackhaul
    <3> QED
      BY <3>1, RouteMade DEF Backhaul
  <2> QED
    BY <2>2, <2>3
<1> QED
  BY <1>1, PlanHolds, PTL

(* Every leg of every job that was not merged by contact is driven to the  *)
(* job's own address, with the one exception that the property names: both *)
(* legs of a job driven both ways that follows another in its group, of    *)
(* which the delivery is right if they share the consignee.                *)
THEOREM AddressesAreRight == Spec => []StopsAtOwnAddress
<1>1. PlanTypes /\ PlanInv => StopsAtOwnAddress
  <2> SUFFICES ASSUME PlanTypes, PlanInv, Booked, NEW i \in DOMAIN jobs \ ByContact,
                      NEW l \in Single, NEW d \in Calls(l, i)
               PROVE  \/ route[d].place = OwnAddress(l, i)
                      \/ /\ jobs[i].service \notin Single /\ Follows(i)
                         /\ l = "delivery" => i \notin ByTo
    BY DEF StopsAtOwnAddress
  <2>1. PICK s \in DOMAIN stops : /\ i \in stops[s] /\ jobs[i].service = Service(stops[s])
                                 /\ LegsFor(stops[s]) = LegsOfJob(i)
    BY StopOf
  <2> DEFINE f == First(stops[s])
  <2>2. /\ route[d].place = PlaceOf([leg |-> l, jobs |-> stops[s]])
        /\ l \in LegsOfJob(i)
    BY <2>1, CallMade
  <2>3. route[d].place = OwnAddress(l, f)
    BY <2>2 DEF PlaceOf, OwnAddress
  <2>4. Alike(stops[s])
    BY <2>1 DEF PlanInv, Booked, Whole, StopsInv
  <2>5. jobs[f].service = jobs[i].service
    BY <2>1 DEF Service
  <2>6. CASE jobs[i].service \in Single
    <3>1. StopAddress(i) = StopAddress(f) /\ l = jobs[i].service
      BY <2>1, <2>2, <2>4, <2>6 DEF Alike, LegsOfJob
    <3> HIDE DEF f
    <3> QED
      BY <2>3, <2>5, <2>6, <3>1 DEF OwnAddress, StopAddress, Single
  <2>7. CASE jobs[i].service \notin Single
    <3>1. stops[s] \subseteq DOMAIN jobs /\ DOMAIN jobs \subseteq Nat
      BY DEF PlanTypes
    <3>2. f \in stops[s] /\ f <= i
      BY <2>1, <3>1, FirstIsLeast
    <3>3. MergeKey(f) = MergeKey(i)
      BY <2>1, <2>4, <2>7, <3>2 DEF Alike
    <3> HIDE DEF f
    <3>4. CASE f = i
      BY <2>3, <3>4
    <3>5. CASE f # i
      <4>1. Follows(i)
        BY <3>1, <3>2, <3>3, <3>5 DEF Follows
      <4>2. CASE l = "delivery" /\ i \in ByTo
        <5>1. i \in Unmarked /\ MergeKey(i) = <<"to", jobs[i].to>>
          BY <4>2 DEF MergeKey, ByTo
        <5>2. MergeKey(f) \in {<<"manual", jobs[f].mark>>, <<"to", jobs[f].to>>,
                               <<"contact", jobs[f].contact>>, <<"single", f>>}
          BY DEF MergeKey
        <5>3. jobs[f].to = jobs[i].to
          BY <3>3, <5>1, <5>2
        <5> QED
          BY <2>3, <4>2, <5>3 DEF OwnAddress
      <4> QED
        BY <2>7, <4>1, <4>2
    <3> QED
      BY <3>4, <3>5
  <2> QED
    BY <2>6, <2>7
<1> QED
  BY <1>1, PlanHolds, PTL

(* No address is visited twice for collections, or twice for deliveries,   *)
(* of jobs that are driven one way.                                        *)
THEOREM StopsAreShared == Spec => []NoStopTwice
<1>1. PlanTypes /\ PlanInv => NoStopTwice
  <2> SUFFICES ASSUME PlanTypes, PlanInv, Booked, NEW l \in Single,
                      NEW i \in DOMAIN jobs, jobs[i].service = l,
                      NEW k \in DOMAIN jobs, jobs[k].service = l,
                      NEW d \in Calls(l, i), NEW e \in Calls(l, k), d # e
               PROVE  route[d].place = None \/ route[d].place # route[e].place
    BY DEF NoStopTwice
  <2>1. PICK s \in DOMAIN stops : i \in stops[s] /\ jobs[i].service = Service(stops[s])
    BY StopOf
  <2>2. PICK t \in DOMAIN stops : k \in stops[t] /\ jobs[k].service = Service(stops[t])
    BY StopOf
  <2> DEFINE p == [leg |-> l, jobs |-> stops[s]]
             q == [leg |-> l, jobs |-> stops[t]]
             a == d - Len(Origin)
             b == e - Len(Origin)
  <2>3. /\ a \in DOMAIN slots /\ d \in DOMAIN route /\ ~ AllBackhaul(stops[s])
        /\ \E x \in DOMAIN slots[a] : slots[a][x] = p
        /\ route[d].place = PlaceOf(p)
    BY <2>1, CallMade
  <2>4. /\ b \in DOMAIN slots /\ e \in DOMAIN route /\ ~ AllBackhaul(stops[t])
        /\ \E x \in DOMAIN slots[b] : slots[b][x] = q
        /\ route[e].place = PlaceOf(q)
    BY <2>2, CallMade
  <2>5. PlaceOf(p) = StopAddress(First(stops[s])) /\ PlaceOf(q) = StopAddress(First(stops[t]))
    BY <2>1, <2>2 DEF PlaceOf, StopAddress, Service, Single
  <2>6. CASE s = t
    <3>1. p = q
      BY <2>6
    <3>2. Slotted(Len(legs) + 1)
      BY DEF PlanInv, Booked
    <3> HIDE DEF p, q
    <3>3. a = b
      BY <2>3, <2>4, <3>1, <3>2 DEF Slotted
    <3>4. Len(Origin) \in Nat /\ DOMAIN route \subseteq Nat
      BY RouteMade
    <3> QED
      BY <2>3, <2>4, <3>3, <3>4
  <2>7. CASE s # t
    <3>1. ~ SameVisit(stops[s], stops[t])
      BY <2>7 DEF PlanInv, Booked, Whole, StopsInv
    <3> QED
      BY <2>1, <2>2, <2>3, <2>4, <2>5, <3>1 DEF SameVisit, StopKey
  <2> QED
    BY <2>6, <2>7
<1> QED
  BY <1>1, PlanHolds, PTL

(* A slot delivers for at most one leg, and its jobs are those it calls    *)
(* for to be delivered.                                                    *)
LEMMA SlotDelivers ==
  ASSUME PlanTypes, PlanInv, Booked, NEW s \in DOMAIN slots
  PROVE  LET D == Destination(slots[s]) IN
         /\ D.calls # {}
         /\ D.kind = "collection" => Lines(s) = {}
         /\ D.kind # "collection" =>
              \E J : /\ Lines(s) = {[at |-> Len(Origin) + s, jobs |-> J]}
                     /\ J = {i \in DOMAIN jobs : <<"delivery", i>> \in D.calls}
<1> DEFINE q == slots[s]
           D == Destination(q)
<1>1. Paired(q) /\ q \in Seq(Driven)
  BY DEF PlanInv, Booked, Slotted, PlanTypes
<1>2. \A x \in DOMAIN q : q[x] \in Driven /\ q[x].jobs # {}
  <2> SUFFICES ASSUME NEW x \in DOMAIN q PROVE q[x] \in Driven /\ q[x].jobs # {}
    OBVIOUS
  <2>1. PICK n \in DOMAIN legs : q[x] = legs[n]
    BY DEF PlanInv, Booked, Slotted
  <2>2. PICK t \in DOMAIN stops : legs[n].jobs = stops[t]
    BY DEF PlanInv, Booked, Emitted
  <2> QED
    BY <1>1, <2>1, <2>2 DEF PlanInv, Booked, Whole, StopsInv
<1>3. /\ D.calls = UNION {{<<r.leg, i>> : i \in r.jobs} : r \in Members(q)}
      /\ D.kind = IF Len(q) = 2 THEN "both" ELSE q[1].leg
  BY DEF Destination
<1>4. /\ DOMAIN q = IF Len(q) = 2 THEN {1, 2} ELSE {1}
      /\ Members(q) = IF Len(q) = 2 THEN {q[1], q[2]} ELSE {q[1]}
  <2>1. DOMAIN q = IF Len(q) = 2 THEN {1, 2} ELSE {1}
    BY <1>1 DEF Paired
  <2> QED
    BY <2>1 DEF Members
<1>5. Lines(s) = {[at |-> Len(Origin) + s, jobs |-> r.jobs] :
                    r \in {x \in Members(q) : x.leg = "delivery"}}
  BY DEF Lines
<1> HIDE DEF q, D
<1>6. \A r \in Members(q) : r \in Driven /\ r.jobs # {}
  BY <1>2, <1>4
<1>7. D.calls # {}
  <2>1. q[1] \in Members(q)
    BY <1>4
  <2>2. PICK i \in q[1].jobs : TRUE
    BY <1>6, <2>1
  <2>3. <<q[1].leg, i>> \in D.calls
    BY <1>3, <2>1, <2>2
  <2> QED
    BY <2>3
<1>8. ASSUME D.kind = "collection" PROVE Lines(s) = {}
  BY <1>3, <1>4, <1>5, <1>8
<1>9. ASSUME D.kind # "collection"
      PROVE  \E J : /\ Lines(s) = {[at |-> Len(Origin) + s, jobs |-> J]}
                    /\ J = {i \in DOMAIN jobs : <<"delivery", i>> \in D.calls}
  <2>1. PICK r \in Members(q) :
          r.leg = "delivery" /\ \A x \in Members(q) : x.leg = "delivery" => x = r
    <3>1. q[1].leg \in Single /\ (Len(q) = 2 => q[2].leg \in Single)
      BY <1>4, <1>6 DEF Driven
    <3>2. Len(q) = 2 => q[1].leg # q[2].leg
      BY <1>1 DEF Paired
    <3> QED
      BY <1>3, <1>4, <1>9, <3>1, <3>2 DEF Single
  <2>2. {x \in Members(q) : x.leg = "delivery"} = {r}
    BY <2>1
  <2>3. Lines(s) = {[at |-> Len(Origin) + s, jobs |-> r.jobs]}
    BY <1>5, <2>2
  <2>4. r.jobs = {i \in DOMAIN jobs : <<"delivery", i>> \in D.calls}
    <3>1. r.jobs \subseteq DOMAIN jobs
      BY <1>6, <2>1 DEF Driven
    <3>2. \A i : <<"delivery", i>> \in D.calls <=> i \in r.jobs
      BY <1>3, <2>1
    <3> QED
      BY <3>1, <3>2
  <2> QED
    BY <2>3, <2>4
<1> QED
  BY <1>7, <1>8, <1>9 DEF q, D

(* The packages are at the destinations that deliver, one line each, with  *)
(* the jobs that are delivered there.                                      *)
THEOREM PackagesAreDelivered == Spec => []PackagesFollowDeliveries
<1>1. PlanTypes /\ PlanInv => PackagesFollowDeliveries
  <2> SUFFICES ASSUME PlanTypes, PlanInv, Booked
               PROVE  /\ \A p \in packages : p.at \in DOMAIN route
                      /\ \A d \in DOMAIN route :
                           {p.jobs : p \in {q \in packages : q.at = d}} =
                              IF route[d].kind = "collection" \/ route[d].calls = {} THEN {}
                              ELSE {{i \in DOMAIN jobs : <<"delivery", i>> \in route[d].calls}}
    BY DEF PackagesFollowDeliveries
  <2> DEFINE o == Len(Origin)
  <2>1. packages = UNION {Lines(s) : s \in DOMAIN slots}
    BY DEF PlanInv, Booked
  <2>2. /\ o \in Nat /\ DOMAIN route \subseteq Nat /\ DOMAIN slots \subseteq Nat
        /\ \A s \in DOMAIN slots : o + s \in DOMAIN route /\ route[o + s] = Destination(slots[s])
    BY RouteMade
  <2>3. \A s \in DOMAIN slots : \A p \in Lines(s) : p.at = o + s
    BY DEF Lines
  <2> HIDE DEF o
  <2>4. \A p \in packages : p.at \in DOMAIN route
    BY <2>1, <2>2, <2>3
  <2>5. ASSUME NEW d \in DOMAIN route, d - o \in DOMAIN slots
        PROVE  {p.jobs : p \in {q \in packages : q.at = d}} =
                  IF route[d].kind = "collection" \/ route[d].calls = {} THEN {}
                  ELSE {{i \in DOMAIN jobs : <<"delivery", i>> \in route[d].calls}}
    <3> DEFINE s == d - o
               J == {i \in DOMAIN jobs : <<"delivery", i>> \in route[d].calls}
    <3>1. o + s = d /\ s \in DOMAIN slots /\ route[d] = Destination(slots[s])
      <4>1. o + s = d
        BY <2>2
      <4> QED
        BY <2>2, <2>5, <4>1
    <3> HIDE DEF s
    <3>2. {q \in packages : q.at = d} = Lines(s)
      <4>1. \A t \in DOMAIN slots : o + t = d => t = s
        BY <2>2, <3>1
      <4> QED
        BY <2>1, <2>3, <3>1, <4>1
    <3>3. CASE route[d].kind = "collection"
      <4>1. Lines(s) = {}
        BY <3>1, <3>3, SlotDelivers
      <4> QED
        BY <3>2, <3>3, <4>1
    <3>4. CASE route[d].kind # "collection"
      <4>1. route[d].calls # {} /\ Lines(s) = {[at |-> d, jobs |-> J]}
        BY <3>1, <3>4, SlotDelivers DEF o
      <4> HIDE DEF J
      <4>2. {p.jobs : p \in Lines(s)} = {J}
        BY <4>1
      <4> QED
        BY <3>2, <3>4, <4>1, <4>2 DEF J
    <3> QED
      BY <3>3, <3>4
  <2>6. ASSUME NEW d \in DOMAIN route, d - o \notin DOMAIN slots
        PROVE  {p.jobs : p \in {q \in packages : q.at = d}} =
                  IF route[d].kind = "collection" \/ route[d].calls = {} THEN {}
                  ELSE {{i \in DOMAIN jobs : <<"delivery", i>> \in route[d].calls}}
    <3>1. route[d].calls = {}
      BY <2>6, RouteMade DEF o
    <3>2. \A p \in packages : p.at # d
      <4> SUFFICES ASSUME NEW t \in DOMAIN slots, NEW p \in Lines(t), p.at = d PROVE FALSE
        BY <2>1
      <4>1. o + t = d /\ d - o = t
        BY <2>2, <2>3
      <4> QED
        BY <2>6, <4>1
    <3> QED
      BY <3>1, <3>2
  <2> QED
    BY <2>4, <2>5, <2>6
<1> QED
  BY <1>1, PlanHolds, PTL

-----------------------------------------------------------------------------
(* The type invariant: no list gets longer than the jobs allow.            *)

Sizes ==
    /\ \A g \in DOMAIN groups : groups[g].jobs # {}
    /\ \A s \in DOMAIN stops : stops[s] # {}
    /\ \A s \in DOMAIN slots : Len(slots[s]) \in {1, 2}
    /\ stage = "normalize" => next = 1
    /\ stage = "merge" => next <= Len(jobs) + 1 /\ Len(groups) <= next - 1
    /\ stage = "collapse" =>
         Len(groups) <= Len(jobs) /\ next <= Len(groups) + 1 /\ Len(stops) <= next - 1
    /\ stage = "legs" =>
         Len(stops) <= Len(jobs) /\ next <= Len(stops) + 1 /\ Len(legs) <= 2 * (next - 1)
    /\ stage = "slots" =>
         Len(legs) <= 2 * Len(jobs) /\ next <= Len(legs) + 1 /\ Len(slots) <= next - 1
    /\ stage = "booked" => Len(slots) <= 2 * Len(jobs)
    /\ stage \in {"booked", "rejected"} => next = 1
    /\ stage # "booked" => route = <<>> /\ packages = {}

(* No list outgrows its bound.                                             *)
LEMMA SizesStep == PlanTypes /\ PlanInv /\ Sizes /\ [Next]_vars => Sizes'
<1> SUFFICES ASSUME PlanTypes, PlanInv, Sizes, [Next]_vars PROVE Sizes'
  OBVIOUS
<1> USE DEF Proceed
<1>1. /\ {Len(jobs), Len(groups), Len(stops), Len(legs), Len(slots)} \subseteq Nat
      /\ next \in Nat \ {0}
      /\ DOMAIN jobs = 1..Len(jobs) /\ DOMAIN groups = 1..Len(groups)
      /\ DOMAIN stops = 1..Len(stops) /\ DOMAIN legs = 1..Len(legs)
      /\ DOMAIN slots = 1..Len(slots)
  BY DEF PlanTypes
<1>2. CASE Normalize
  <2>1. /\ groups = <<>> /\ stops = <<>> /\ slots = <<>> /\ stage' \in {"merge", "rejected"}
        /\ next' = 1 /\ DOMAIN jobs' = DOMAIN jobs
        /\ UNCHANGED <<groups, stops, slots, route, packages>> /\ stage = "normalize"
    BY <1>2 DEF Normalize, PlanTypes
  <2>2. Len(jobs') \in Nat /\ Len(groups') = 0
    <3>1. PlanTypes'
      BY TypeStep
    <3> QED
      BY <2>1, <3>1 DEF PlanTypes
  <2> QED
    BY <2>1, <2>2 DEF Sizes
<1>3. CASE MergeJob
  <2>1. /\ stage = "merge" /\ next \in DOMAIN jobs /\ stage' = "merge" /\ next' = next + 1
        /\ UNCHANGED <<jobs, stops, slots, route, packages>>
    BY <1>3 DEF MergeJob, input
  <2>2. Merged(next)'
    BY <1>3, <2>1, MergeStep DEF PlanInv
  <2>3. Len(groups') <= Len(groups) + 1
    <3> DEFINE k == [key |-> MergeKey(next), jobs |-> {next}]
               same == {g \in DOMAIN groups : groups[g].key = MergeKey(next)}
    <3>1. CASE same = {}
      <4>1. groups' = Append(groups, k)
        BY <1>3, <3>1 DEF MergeJob
      <4> HIDE DEF k
      <4> QED
        BY <1>1, <4>1 DEF PlanTypes
    <3>2. CASE same # {}
      <4>1. DOMAIN groups' = DOMAIN groups
        BY <1>3, <3>2 DEF MergeJob
      <4>2. groups' \in Seq(Keyed')
        BY TypeStep DEF PlanTypes
      <4>3. Len(groups') \in Nat /\ DOMAIN groups' = 1..Len(groups')
        BY <4>2
      <4> QED
        BY <1>1, <4>1, <4>3
    <3> QED
      BY <3>1, <3>2
  <2>4. next + 1 <= Len(jobs) + 1
    BY <1>1, <2>1
  <2>5. Len(groups') <= next
    <3>1. Len(groups') \in Nat
      BY TypeStep DEF PlanTypes
    <3> QED
      BY <1>1, <2>1, <2>3, <3>1 DEF Sizes
  <2> QED
    BY <1>1, <2>1, <2>2, <2>4, <2>5 DEF Sizes, Merged
<1>4. CASE Validate
  <2>1. /\ stage = "merge" /\ stage' \in {"collapse", "rejected"} /\ next' = 1
        /\ UNCHANGED <<jobs, groups, stops, slots, route, packages>>
    BY <1>4 DEF Validate, input
  <2>2. stops = <<>>
    BY <2>1 DEF PlanInv
  <2> QED
    BY <1>1, <2>1, <2>2 DEF Sizes
<1>5. CASE CollapseGroup
  <2>1. /\ stage = "collapse" /\ next \in DOMAIN groups /\ stage' = "collapse"
        /\ next' = next + 1 /\ UNCHANGED <<jobs, groups, slots, route, packages>>
    BY <1>5 DEF CollapseGroup, input
  <2>2. Collapsed(next)'
    BY <1>5, <2>1, CollapseStep DEF PlanInv
  <2>3. Len(stops') <= Len(stops) + 1
    <3> DEFINE g == groups[next].jobs
    <3>1. \/ stops' = Append(stops, g)
          \/ stops' = [stops EXCEPT ![First(Absorbers(g))] = @ \cup g]
      BY <1>5 DEF CollapseGroup
    <3> HIDE DEF g
    <3>2. stops' \in Seq(SUBSET DOMAIN jobs') /\ stops \in Seq(SUBSET DOMAIN jobs)
      BY TypeStep DEF PlanTypes
    <3>3. CASE stops' = Append(stops, g)
      BY <1>1, <3>2, <3>3
    <3>4. CASE stops' = [stops EXCEPT ![First(Absorbers(g))] = @ \cup g]
      <4>1. DOMAIN stops' = DOMAIN stops
        BY <3>4
      <4>2. Len(stops') \in Nat /\ DOMAIN stops' = 1..Len(stops')
        BY <3>2
      <4> QED
        BY <1>1, <4>1, <4>2
    <3> QED
      BY <3>1, <3>3, <3>4
  <2>4. Len(stops') \in Nat
    BY TypeStep DEF PlanTypes
  <2> QED
    BY <1>1, <2>1, <2>2, <2>3, <2>4 DEF Sizes, Collapsed, StopsInv
<1>6. CASE EndCollapse
  <2>1. /\ stage = "collapse" /\ stage' = "legs" /\ next' = 1
        /\ UNCHANGED <<jobs, groups, stops, legs, slots, route, packages>>
    BY <1>6 DEF EndCollapse, input
  <2>2. legs = <<>>
    BY <2>1 DEF PlanInv
  <2> QED
    BY <1>1, <2>1, <2>2 DEF Sizes
<1>7. CASE EmitLegs
  <2>1. stage = "legs" /\ UNCHANGED <<jobs, groups, stops, slots, route, packages>>
    BY <1>7 DEF EmitLegs, input
  <2>2. CASE next \in DOMAIN stops
    <3>1. stage' = "legs" /\ next' = next + 1 /\ legs' = legs \o LegsOf(stops[next])
      BY <1>7, <2>1, <2>2 DEF EmitLegs
    <3>2. stops[next] \in SUBSET DOMAIN jobs /\ legs \in Seq(Driven)
      BY <2>2 DEF PlanTypes
    <3> DEFINE q == LegsOf(stops[next])
    <3>3. q \in Seq(Driven)
      BY <3>2, LegsOfType
    <3>4. Len(q) <= 2
      BY DEF LegsOf
    <3> HIDE DEF q
    <3>5. Len(legs') = Len(legs) + Len(q) /\ Len(q) \in Nat
      BY <3>1, <3>2, <3>3 DEF q
    <3> QED
      <4>1. Len(legs) <= 2 * (next - 1) /\ Len(stops) <= Len(jobs)
        BY <2>1 DEF Sizes
      <4>2. Len(legs') <= 2 * (next' - 1) /\ next' <= Len(stops') + 1
        BY <1>1, <2>1, <2>2, <3>1, <3>4, <3>5, <4>1
      <4> QED
        BY <2>1, <3>1, <4>1, <4>2 DEF Sizes
  <2>3. CASE next \notin DOMAIN stops
    <3>1. stage' = "slots" /\ next' = 1 /\ UNCHANGED legs
      BY <1>7, <2>3 DEF EmitLegs
    <3>2. slots = <<>>
      BY <2>1 DEF PlanInv
    <3> QED
      BY <1>1, <2>1, <3>1, <3>2 DEF Sizes
  <2> QED
    BY <2>2, <2>3
<1>8. CASE SlotLeg
  <2>1. /\ stage = "slots" /\ next \in DOMAIN legs /\ stage' = "slots" /\ next' = next + 1
        /\ UNCHANGED <<jobs, groups, stops, legs, route, packages>>
    BY <1>8 DEF SlotLeg, input
  <2>2. Slotted(next)'
    BY <1>8, <2>1, SlotStep DEF PlanInv, Emitted
  <2>3. Len(slots') <= Len(slots) + 1
    <3> DEFINE r == legs[next]
    <3>1. \/ slots' = Append(slots, <<r>>)
          \/ slots' = [slots EXCEPT ![First(Open(r))] = Append(@, r)]
      BY <1>8 DEF SlotLeg
    <3> HIDE DEF r
    <3>2. slots' \in Seq(Seq(Driven')) /\ slots \in Seq(Seq(Driven))
      BY TypeStep DEF PlanTypes
    <3>3. CASE slots' = Append(slots, <<r>>)
      BY <1>1, <3>2, <3>3
    <3>4. CASE slots' = [slots EXCEPT ![First(Open(r))] = Append(@, r)]
      <4>1. DOMAIN slots' = DOMAIN slots
        BY <3>4
      <4>2. Len(slots') \in Nat /\ DOMAIN slots' = 1..Len(slots')
        BY <3>2
      <4> QED
        BY <1>1, <4>1, <4>2
    <3> QED
      BY <3>1, <3>3, <3>4
  <2>4. Len(slots') \in Nat
    BY TypeStep DEF PlanTypes
  <2> QED
    <3>1. \A s \in DOMAIN slots' : Len(slots'[s]) \in {1, 2}
      BY <2>2 DEF Slotted, Paired
    <3>2. Len(slots) <= next - 1 /\ Len(legs) <= 2 * Len(jobs)
      BY <2>1 DEF Sizes
    <3>3. Len(slots') <= next' - 1 /\ next' <= Len(legs') + 1
      BY <1>1, <2>1, <2>3, <2>4, <3>2
    <3> QED
      BY <2>1, <3>1, <3>2, <3>3 DEF Sizes
<1>9. CASE Book
  <2>1. /\ stage = "slots" /\ stage' \in {"booked", "rejected"} /\ next' = 1
        /\ UNCHANGED <<jobs, groups, stops, slots>>
        /\ stage' = "rejected" => UNCHANGED <<route, packages>>
        /\ next \notin DOMAIN legs
    BY <1>9 DEF Book, input
  <2> QED
    BY <1>1, <2>1 DEF Sizes
<1>10. CASE UNCHANGED vars
  BY <1>10 DEF vars, input, Sizes
<1> QED
  BY <1>2, <1>3, <1>4, <1>5, <1>6, <1>7, <1>8, <1>9, <1>10 DEF Next

(* The type invariant: the loops of a plan end, the lists are within the   *)
(* bounds the jobs set, and destinations and packages are well-formed.     *)
THEOREM TypeCorrect == Spec => []TypeOK
<1>1. Init => Sizes
  BY DEF Init, Sizes
<1>2. PlanTypes /\ PlanInv /\ Sizes => TypeOK
  <2> SUFFICES ASSUME PlanTypes, PlanInv, Sizes PROVE TypeOK
    OBVIOUS
  <2>1. /\ MaxJobs \in Nat /\ Len(jobs) \in Nat /\ Len(jobs) <= MaxJobs
        /\ DOMAIN jobs = 1..Len(jobs) /\ next \in Nat \ {0}
        /\ {Len(groups), Len(stops), Len(legs), Len(slots)} \subseteq Nat
    BY PlanAssumption DEF PlanTypes
  <2>2. SUBSET DOMAIN jobs \subseteq Group
    BY <2>1 DEF Group, Positions
  <2>3. Driven \subseteq Leg
    BY <2>2 DEF Driven, Leg
  <2>4. next \in 1..(2 * MaxJobs + 1)
    BY <2>1 DEF Sizes, PlanTypes
  <2>5. \A g \in DOMAIN groups : groups[g].jobs \in Group \ {{}}
    <3>1. \A g \in DOMAIN groups : groups[g] \in Keyed
      BY DEF PlanTypes
    <3> QED
      BY <2>2, <3>1 DEF Sizes, Keyed
  <2>6. stops \in Seq(Group \ {{}})
    <3>1. stops = [s \in DOMAIN stops |-> stops[s]] /\ stops \in Seq(SUBSET DOMAIN jobs)
      BY DEF PlanTypes
    <3>2. \A s \in DOMAIN stops : stops[s] \in Group \ {{}}
      BY <2>2, <3>1 DEF Sizes
    <3> QED
      BY <3>1, <3>2, SameLength
  <2>7. \A q \in Seq(Driven) : q \in Seq(Leg)
    <3> SUFFICES ASSUME NEW q \in Seq(Driven) PROVE q \in Seq(Leg)
      OBVIOUS
    <3>1. q = [n \in DOMAIN q |-> q[n]] /\ \A n \in DOMAIN q : q[n] \in Leg
      BY <2>3
    <3> QED
      BY <3>1, SameLength
  <2>8. legs \in Seq(Leg)
    BY <2>7 DEF PlanTypes
  <2>9. \A s \in DOMAIN slots : slots[s] \in Seq(Leg) /\ Len(slots[s]) \in {1, 2}
    BY <2>7 DEF PlanTypes, Sizes
  <2>10. CASE ~ Booked
    <3>1. route = <<>> /\ packages = {}
      BY <2>10 DEF Booked, Sizes
    <3> QED
      BY <2>1, <2>4, <2>5, <2>6, <2>8, <2>9, <3>1 DEF TypeOK, PlanTypes, Positions
  <2>11. CASE Booked
    <3> DEFINE o == Len(Origin)
    <3>1. /\ o \in 0..1 /\ Len(slots) <= 2 * MaxJobs
      <4>1. o \in 0..1
        BY DEF Origin, Point
      <4> QED
        BY <2>1, <2>11, <4>1 DEF Booked, Sizes
    <3>2. ASSUME NEW s \in DOMAIN slots
          PROVE  /\ Destination(slots[s]).place \in Address
                 /\ Destination(slots[s]).kind \in Single \cup {"both"}
      <4>1. slots[s] \in Seq(Driven) /\ 1 \in DOMAIN slots[s]
        <5>1. slots[s] \in Seq(Driven) /\ Len(slots[s]) \in {1, 2}
          BY <2>9 DEF PlanTypes
        <5>2. DOMAIN slots[s] = 1..Len(slots[s])
          BY <5>1
        <5> QED
          BY <5>1, <5>2
      <4>2. PICK n \in DOMAIN legs : slots[s][1] = legs[n]
        BY <2>11, <4>1 DEF PlanInv, Booked, Slotted
      <4>3. PICK t \in DOMAIN stops : legs[n].jobs = stops[t]
        BY <2>11 DEF PlanInv, Booked, Emitted
      <4>4. slots[s][1] \in Driven /\ slots[s][1].jobs # {}
        BY <4>1, <4>2, <4>3 DEF Sizes
      <4>5. First(slots[s][1].jobs) \in DOMAIN jobs
        BY <2>1, <4>4, FirstIsLeast DEF Driven
      <4>6. jobs[First(slots[s][1].jobs)] \in Job
        BY <4>5 DEF PlanTypes
      <4>7. PlaceOf(slots[s][1]) \in Address
        BY <4>6 DEF PlaceOf, Job
      <4>8. slots[s][1].leg \in Single
        BY <4>4 DEF Driven
      <4> QED
        BY <4>7, <4>8 DEF Destination
    <3>3. manifest.start \in Address /\ EndPoint \in Address
      BY DEF PlanTypes, Manifest, EndPoint, Address
    <3>4. ASSUME NEW d \in DOMAIN route
          PROVE  route[d].place \in Address /\ route[d].kind \in Single \cup {"both"}
      <4>1. CASE d - o \in DOMAIN slots
        <5>1. o + (d - o) = d
          BY <2>11, RouteMade
        <5>2. route[d] = Destination(slots[d - o])
          BY <2>11, <4>1, <5>1, RouteMade
        <5> QED
          BY <3>2, <4>1, <5>2
      <4>2. CASE d - o \notin DOMAIN slots
        BY <2>11, <3>3, <4>2, RouteMade
      <4> QED
        BY <4>1, <4>2
    <3>5. packages \subseteq [at : 1..(2 * MaxJobs + 2), jobs : Group]
      <4> SUFFICES ASSUME NEW s \in DOMAIN slots, NEW p \in Lines(s)
                   PROVE  p \in [at : 1..(2 * MaxJobs + 2), jobs : Group]
        BY <2>11 DEF PlanInv, Booked
      <4>1. PICK x \in DOMAIN slots[s] : p = [at |-> o + s, jobs |-> slots[s][x].jobs]
        BY DEF Lines, Members
      <4>2. slots[s] \in Seq(Driven)
        BY DEF PlanTypes
      <4>3. slots[s][x].jobs \in Group
        BY <2>3, <4>2 DEF Leg
      <4>4. s \in 1..Len(slots)
        BY DEF PlanTypes
      <4>5. o + s \in 1..(2 * MaxJobs + 2)
        <5> HIDE DEF o
        <5>1. o \in {0, 1} /\ s \in Nat /\ s >= 1 /\ s <= 2 * MaxJobs
          BY <2>1, <3>1, <4>4
        <5> QED
          BY <2>1, <5>1
      <4> QED
        BY <4>1, <4>3, <4>5
    <3> QED
      BY <2>1, <2>4, <2>5, <2>6, <2>8, <2>9, <3>4, <3>5 DEF TypeOK, PlanTypes, Positions
  <2> QED
    BY <2>10, <2>11
<1> QED
  BY <1>1, <1>2, SizesStep, PlanHolds, TypeInit, PlanInit, PTL DEF Spec
=============================================================================
