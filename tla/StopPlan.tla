------------------------------ MODULE StopPlan ------------------------------
(***************************************************************************)
(* From the jobs of a manifest to the stops of the order that is booked    *)
(* for it (app/services/mytransport_export.py, called by the booking of    *)
(* module ManifestExport): jobs are merged into groups, the groups are     *)
(* validated and collapsed, each remaining group becomes one or two legs,  *)
(* legs at one address share a destination, and the packages point at the  *)
(* destinations where they are delivered.                                  *)
(*                                                                         *)
(* A place stands for all spellings that address_identity_key takes for    *)
(* one; None is an address without an identity.  Each iteration of a loop  *)
(* of the code is a step.  A group is the set of the positions of its      *)
(* jobs: its first job, the one the code reads, has the lowest position,   *)
(* because groups are in the order of their first jobs and are only        *)
(* absorbed by earlier ones.                                               *)
(***************************************************************************)
EXTENDS Naturals, Sequences, FiniteSets

CONSTANTS
    Places,         \* places with an identity
    UK,             \* those in the United Kingdom
    Contacts,       \* shipper contacts
    Marks,          \* values of manual_group_id
    None,
    JobKinds,       \* the jobs a manifest may have
    Manifests,      \* start point, end point and skip_end_destination
    MaxJobs         \* how many jobs a manifest has at most

Address == Places \cup {None}

Single == {"collection", "delivery"}

Job == [from : Address, to : Address,
        service : Single \cup {"collection_and_delivery", "unset"},
        contact : Contacts \cup {None}, mark : Marks \cup {None}]

Manifest == [start : Address, end : Address, skip : BOOLEAN]

ASSUME PlanAssumption ==
    /\ UK \subseteq Places
    /\ None \notin Places \cup Contacts \cup Marks
    /\ JobKinds \subseteq Job
    /\ Manifests \subseteq Manifest
    /\ MaxJobs \in Nat

VARIABLES
    jobs,           \* the jobs in the order of manifest_sequence
    manifest,       \* its start point, end point and skip flag
    stage,          \* what the code is doing
    next,           \* position in the list that the current loop goes over
    groups,         \* job_groups: merge key and members
    stops,          \* the groups after the collapse
    legs,           \* stop_records: the leg and the members
    slots,          \* one or two legs that share a destination
    route,          \* order_destinations
    packages        \* order_packages

input == <<jobs, manifest>>
vars == <<input, stage, next, groups, stops, legs, slots, route, packages>>

Init ==
    /\ jobs \in UNION {[1..n -> JobKinds] : n \in 1..MaxJobs}
    /\ manifest \in Manifests
    /\ stage = "normalize"
    /\ next = 1
    /\ groups = <<>> /\ stops = <<>> /\ legs = <<>> /\ slots = <<>>
    /\ route = <<>>
    /\ packages = {}

(* A loop ends and the next one begins.                                    *)
Proceed(to) == stage' = to /\ next' = 1

-----------------------------------------------------------------------------
(* Merging.                                                                *)

RoundTrip(j) == j.from \in UK /\ j.to \in UK

(* A job with both ends in the UK is driven both ways; an unset Del/Coll   *)
(* is rejected.                                                            *)
Normalize ==
    /\ stage = "normalize"
    /\ jobs' = [i \in DOMAIN jobs |->
                  IF RoundTrip(jobs[i])
                  THEN [jobs[i] EXCEPT !.service = "collection_and_delivery"]
                  ELSE jobs[i]]
    /\ Proceed(IF \E i \in DOMAIN jobs : jobs'[i].service = "unset"
               THEN "rejected" ELSE "merge")
    /\ UNCHANGED <<manifest, groups, stops, legs, slots, route, packages>>

Unmarked == {i \in DOMAIN jobs : jobs[i].mark = None}

(* 1. the same consignee, 2. among the rest, the same shipper contact;     *)
(* jobs merged or set apart by hand take no part in either.                *)
ByTo ==
    {i \in Unmarked : \E j \in Unmarked \ {i} : jobs[i].to = jobs[j].to /\ jobs[i].to # None}

Rest == Unmarked \ ByTo

ByContact ==
    {i \in Rest : \E j \in Rest \ {i} :
        jobs[i].contact = jobs[j].contact /\ jobs[i].contact # None}

MergeKey(i) ==
    IF i \notin Unmarked THEN <<"manual", jobs[i].mark>>
    ELSE IF i \in ByTo THEN <<"to", jobs[i].to>>
    ELSE IF i \in ByContact THEN <<"contact", jobs[i].contact>>
    ELSE <<"single", i>>

MergeJob ==
    /\ stage = "merge"
    /\ next \in DOMAIN jobs
    /\ LET same == {g \in DOMAIN groups : groups[g].key = MergeKey(next)} IN
         groups' = IF same = {}
                   THEN Append(groups, [key |-> MergeKey(next), jobs |-> {next}])
                   ELSE [g \in DOMAIN groups |->
                           IF g \in same THEN [groups[g] EXCEPT !.jobs = @ \cup {next}]
                           ELSE groups[g]]
    /\ next' = next + 1
    /\ UNCHANGED <<input, stage, stops, legs, slots, route, packages>>

First(g) == CHOOSE i \in g : \A j \in g : i <= j

Service(g) == jobs[First(g)].service

(* The address the driver visits; a job driven both ways has none.         *)
StopAddress(i) ==
    CASE jobs[i].service = "collection" -> jobs[i].from
      [] jobs[i].service = "delivery"   -> jobs[i].to
      [] OTHER                          -> None

(* Mutant: members of a group need not agree on where they stop.           *)
ConflictOfServicesOnly(g) ==
    Cardinality({jobs[i].service : i \in g.jobs}) > 1

(* A merged stop is a single visit, so its members must agree on the leg,  *)
(* and unless they were merged by contact on the address.                  *)
Conflict(g) ==
    \/ Cardinality({jobs[i].service : i \in g.jobs}) > 1
    \/ /\ g.key[1] # "contact"
       /\ Cardinality({StopAddress(i) : i \in g.jobs}) > 1

Validate ==
    /\ stage = "merge"
    /\ next \notin DOMAIN jobs
    /\ Proceed(IF \E g \in DOMAIN groups : Conflict(groups[g])
               THEN "rejected" ELSE "collapse")
    /\ UNCHANGED <<input, groups, stops, legs, slots, route, packages>>

-----------------------------------------------------------------------------
(* Collapsing.                                                             *)

EndPoint ==
    IF manifest.end # None THEN manifest.end
    ELSE IF manifest.skip THEN None ELSE manifest.start

(* A collection at the end point, where the vehicle is headed anyway.      *)
Backhaul(i) ==
    /\ jobs[i].service = "collection"
    /\ jobs[i].from # None
    /\ jobs[i].from = EndPoint

AllBackhaul(g) == \A i \in g : Backhaul(i)

(* The leg and the address by which two groups are the same stop.          *)
StopKey(g) == <<Service(g), StopAddress(First(g))>>

(* Mutant: only the group just before can absorb.                          *)
AbsorbersAdjacent(g) ==
    {s \in DOMAIN stops :
        /\ s = Len(stops)
        /\ ~ AllBackhaul(g)
        /\ StopAddress(First(g)) # None
        /\ ~ AllBackhaul(stops[s])
        /\ StopKey(stops[s]) = StopKey(g)}

(* The earlier groups that may absorb g.                                   *)
Absorbers(g) ==
    {s \in DOMAIN stops :
        /\ ~ AllBackhaul(g)
        /\ StopAddress(First(g)) # None
        /\ ~ AllBackhaul(stops[s])
        /\ StopKey(stops[s]) = StopKey(g)}

(* Mutant: the group that is absorbed is forgotten.                        *)
CollapseGroupForgets ==
    /\ stage = "collapse"
    /\ next \in DOMAIN groups
    /\ LET g == groups[next].jobs IN
         stops' = IF Absorbers(g) = {} THEN Append(stops, g) ELSE stops
    /\ next' = next + 1
    /\ UNCHANGED <<input, stage, groups, legs, slots, route, packages>>

CollapseGroup ==
    /\ stage = "collapse"
    /\ next \in DOMAIN groups
    /\ LET g == groups[next].jobs IN
         stops' = IF Absorbers(g) = {} THEN Append(stops, g)
                  ELSE [stops EXCEPT ![First(Absorbers(g))] = @ \cup g]
    /\ next' = next + 1
    /\ UNCHANGED <<input, stage, groups, legs, slots, route, packages>>

EndCollapse ==
    /\ stage = "collapse"
    /\ next \notin DOMAIN groups
    /\ Proceed("legs")
    /\ UNCHANGED <<input, groups, stops, legs, slots, route, packages>>

-----------------------------------------------------------------------------
(* Legs and destinations.                                                  *)

(* A group to skip has no leg, and one that is driven both ways has two.   *)
LegsOf(g) ==
    IF AllBackhaul(g) THEN <<>>
    ELSE IF Service(g) \in Single THEN <<[leg |-> Service(g), jobs |-> g]>>
    ELSE <<[leg |-> "collection", jobs |-> g], [leg |-> "delivery", jobs |-> g]>>

EmitLegs ==
    /\ stage = "legs"
    /\ IF next \in DOMAIN stops
       THEN /\ legs' = legs \o LegsOf(stops[next])
            /\ next' = next + 1
            /\ UNCHANGED stage
       ELSE /\ Proceed("slots")
            /\ UNCHANGED legs
    /\ UNCHANGED <<input, groups, stops, slots, route, packages>>

(* The first job decides where all of them are visited.                    *)
PlaceOf(r) ==
    IF r.leg = "collection" THEN jobs[First(r.jobs)].from ELSE jobs[First(r.jobs)].to

(* The slots that hold one leg, of the other sort, at the same place.      *)
Open(r) ==
    {s \in DOMAIN slots :
        /\ PlaceOf(r) # None
        /\ Len(slots[s]) = 1
        /\ slots[s][1].leg # r.leg
        /\ PlaceOf(slots[s][1]) = PlaceOf(r)}

SlotLeg ==
    /\ stage = "slots"
    /\ next \in DOMAIN legs
    /\ LET r == legs[next] IN
         slots' = IF Open(r) = {} THEN Append(slots, <<r>>)
                  ELSE [slots EXCEPT ![First(Open(r))] = Append(@, r)]
    /\ next' = next + 1
    /\ UNCHANGED <<input, stage, groups, stops, legs, route, packages>>

Members(slot) == {slot[n] : n \in DOMAIN slot}

Destination(slot) ==
    [place |-> PlaceOf(slot[1]),
     kind |-> IF Len(slot) = 2 THEN "both" ELSE slot[1].leg,
     calls |-> UNION {{<<r.leg, i>> : i \in r.jobs} : r \in Members(slot)}]

Point(place, kind) ==
    IF place = None THEN <<>>
    ELSE <<[place |-> place, kind |-> kind, calls |-> {}]>>

Origin == Point(manifest.start, "collection")

(* Mutant: the start point is not counted.                                 *)
LinesFromSlots(s) ==
    {[at |-> s, jobs |-> r.jobs] : r \in {x \in Members(slots[s]) : x.leg = "delivery"}}

(* One package line for every leg that delivers.                           *)
Lines(s) ==
    {[at |-> Len(Origin) + s, jobs |-> r.jobs] :
       r \in {x \in Members(slots[s]) : x.leg = "delivery"}}

(* A run that visits nothing but its start and its end is not booked.      *)
Book ==
    /\ stage = "slots"
    /\ next \notin DOMAIN legs
    /\ IF slots = <<>>
       THEN /\ Proceed("rejected")
            /\ UNCHANGED <<route, packages>>
       ELSE /\ Proceed("booked")
            /\ route' = Origin \o [s \in DOMAIN slots |-> Destination(slots[s])]
                          \o Point(EndPoint, "delivery")
            /\ packages' = UNION {Lines(s) : s \in DOMAIN slots}
    /\ UNCHANGED <<input, groups, stops, legs, slots>>

Next ==
    \/ Normalize
    \/ MergeJob
    \/ Validate
    \/ CollapseGroup
    \/ EndCollapse
    \/ EmitLegs
    \/ SlotLeg
    \/ Book

Spec == Init /\ [][Next]_vars

-----------------------------------------------------------------------------
(* Properties.                                                             *)

Positions == 1..MaxJobs
Group == SUBSET Positions
Leg == [leg : Single, jobs : Group]

(* Every variable holds a value of its kind.                               *)
TypeOK ==
    /\ jobs \in Seq(Job) /\ Len(jobs) \in Positions
    /\ manifest \in Manifest
    /\ stage \in {"normalize", "merge", "collapse", "legs", "slots", "booked", "rejected"}
    /\ next \in 1..(2 * MaxJobs + 1)
    /\ \A g \in DOMAIN groups : groups[g].jobs \in Group \ {{}}
    /\ stops \in Seq(Group \ {{}})
    /\ legs \in Seq(Leg)
    /\ \A s \in DOMAIN slots : slots[s] \in Seq(Leg) /\ Len(slots[s]) \in {1, 2}
    /\ \A d \in DOMAIN route : /\ route[d].place \in Address
                               /\ route[d].kind \in Single \cup {"both"}
    /\ packages \subseteq [at : 1..(2 * MaxJobs + 2), jobs : Group]

Booked == stage = "booked"

(* Jobs left out of the order because the vehicle passes there at the end. *)
Skipped == UNION {stops[s] : s \in {t \in DOMAIN stops : AllBackhaul(stops[t])}}

LegsOfJob(i) == IF jobs[i].service \in Single THEN {jobs[i].service} ELSE Single

(* The destinations where leg l of job i happens.                          *)
Calls(l, i) == {d \in DOMAIN route : <<l, i>> \in route[d].calls}

(* Every leg of every job is booked once, however the jobs were merged,    *)
(* collapsed and paired, but for those skipped: they are collections where *)
(* the route ends anyway.                                                  *)
EveryLegBookedOnce ==
    Booked => \A i \in DOMAIN jobs :
        /\ \A l \in Single : Cardinality(Calls(l, i)) =
              IF i \notin Skipped /\ l \in LegsOfJob(i) THEN 1 ELSE 0
        /\ i \in Skipped =>
              jobs[i].service = "collection" /\ route[Len(route)].place = jobs[i].from

(* The address on the job's own paperwork at which leg l happens.          *)
OwnAddress(l, i) == IF l = "collection" THEN jobs[i].from ELSE jobs[i].to

(* Job i was merged into the group of an earlier one.                      *)
Follows(i) == \E k \in DOMAIN jobs : k < i /\ MergeKey(k) = MergeKey(i)

(* Each leg of each job, also of one that is driven both ways, takes place *)
(* at the job's own address.  Jobs merged by contact are excepted ("books  *)
(* the first member's address for all of them"), and so are, as run        *)
(* stop_plan_merge shows, the legs of a job driven both ways that was      *)
(* merged into the group of an earlier job; its delivery keeps the right   *)
(* address even so if they were merged by consignee.                       *)
StopsAtOwnAddress ==
    Booked => \A i \in DOMAIN jobs \ ByContact, l \in Single : \A d \in Calls(l, i) :
        \/ route[d].place = OwnAddress(l, i)
        \/ /\ jobs[i].service \notin Single /\ Follows(i)
           /\ l = "delivery" => i \notin ByTo

(* The driver is not sent to one building twice for collections, nor for   *)
(* deliveries, of jobs that are driven one way.                            *)
NoStopTwice ==
    Booked => \A l \in Single :
        \A i, k \in {j \in DOMAIN jobs : jobs[j].service = l} :
            \A d \in Calls(l, i), e \in Calls(l, k) :
                d # e => route[d].place = None \/ route[d].place # route[e].place

(* A destination has a package line, a single one and with the jobs that   *)
(* are delivered there, just when it is a delivery stop: the carrier takes *)
(* no package for any other.                                               *)
PackagesFollowDeliveries ==
    Booked =>
        /\ \A p \in packages : p.at \in DOMAIN route
        /\ \A d \in DOMAIN route :
             {p.jobs : p \in {q \in packages : q.at = d}} =
                IF route[d].kind = "collection" \/ route[d].calls = {} THEN {}
                ELSE {{i \in DOMAIN jobs : <<"delivery", i>> \in route[d].calls}}

(* Every member of a stop that was merged by address or by hand is visited *)
(* where its own paperwork says.                                           *)
MergedStopIsOnePlace ==
    Booked => \A i \in DOMAIN jobs \ ByContact :
        \A l \in Single : \A d \in Calls(l, i) : route[d].place = OwnAddress(l, i)

(* Nothing is delivered before it is collected.                            *)
CollectedBeforeDelivered ==
    Booked => \A i \in DOMAIN jobs :
        \A c \in Calls("collection", i), d \in Calls("delivery", i) : c <= d

=============================================================================
