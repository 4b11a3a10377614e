------------------------ MODULE ManifestExportProofs ------------------------
(***************************************************************************)
(* What module ManifestExport promises, for any jobs and updates, any      *)
(* number of requests that overlap, and any number of edits, orders, lost  *)
(* answers and deaths.                                                     *)
(***************************************************************************)
EXTENDS ManifestExport, FiniteSetTheorems, TLAPS

-----------------------------------------------------------------------------
(* Types.                                                                  *)

USE DEF causes

Booking(q) == Kind(req[q].op) = "book"

(* A request that has reached the carrier is a booking, which had not found *)
(* the manifest booked; if it had, it goes straight to its commit.  What   *)
(* an edit brings is new.                                                  *)
ReqType ==
    {k \in Request :
        /\ k.op = "apply" => k.on \in Updates
        /\ k.op \in Edits => k.version \in 1..MaxEdits
        /\ k.stage = "idle" <=> k.op = "none"
        /\ k.stage \in {"call", "booked", "failed"} =>
              Kind(k.op) = "book" /\ k.row.outcome # "booked"
        /\ k.stage = "commit" /\ Kind(k.op) = "book" => k.row.outcome = "booked"}

(* The orders are counted, so there are finitely many.                     *)
Types ==
    /\ row \in Row
    /\ job \in [Jobs -> Job]
    /\ upd \in [Updates -> {"pending", "applied", "dismissed"}]
    /\ req \in [Requests -> ReqType]
    /\ orders \subseteq Order /\ IsFiniteSet(orders)
    /\ edits \in 0..MaxEdits
    /\ started \in BOOLEAN
    /\ excused \subseteq 1..MaxEdits
    /\ reopened \in BOOLEAN
    /\ overlap \subseteq {"order", "lock"}
    /\ lost \in BOOLEAN
    /\ garbled \in BOOLEAN
    /\ faults \in 0..MaxFaults

(* The bounds are numbers.                                                 *)
LEMMA Bounds == /\ MaxEdits \in Nat /\ MaxOrders \in Nat /\ MaxFaults \in Nat
                /\ 0 \in 0..MaxEdits /\ 0 \in Texts
  BY ManifestAssumption DEF Texts

(* A new manifest, an untouched job and an idle request.                   *)
LEMMA BlankTypes == NewRow \in Row /\ Blank \in Job /\ Idle \in ReqType
<1>2. NewRow \in Row /\ Blank \in Job
  BY Bounds DEF NewRow, Row, Blank, Job, Texts
<1>3. Idle \in Request
  BY Bounds, <1>2 DEF Idle, Request, Ops
<1> QED
  BY <1>2, <1>3 DEF Idle, ReqType, Kind, Edits

(* The parts of a request, of a manifest and of a job.                     *)
LEMMA Parts ==
  ASSUME Types
  PROVE  /\ req \in [Requests -> Request]
         /\ \A q \in Requests :
              /\ req[q] \in ReqType /\ req[q] \in Request
              /\ req[q].op \in Ops
              /\ req[q].on \in Jobs \cup Updates \cup {Nothing}
              /\ req[q].stage \in {"idle", "jobs", "call", "booked", "failed", "commit"}
              /\ req[q].row \in Row
              /\ req[q].jobs \in [Jobs -> Job]
              /\ req[q].reference \in OrderNos \cup {Nothing}
              /\ req[q].version \in 0..MaxEdits
              /\ req[q].op = "apply" => req[q].on \in Updates
              /\ req[q].op \in Edits => req[q].version \in 1..MaxEdits
              /\ req[q].stage = "idle" <=> req[q].op = "none"
              /\ req[q].stage \in {"call", "booked", "failed"} =>
                    Booking(q) /\ req[q].row.outcome # "booked"
              /\ req[q].stage = "commit" /\ Booking(q) => req[q].row.outcome = "booked"
         /\ \A j \in Jobs : job[j] \in Job
<1>1. [Requests -> ReqType] \subseteq [Requests -> Request]
  BY DEF ReqType
<1>2. req \in [Requests -> Request] /\ \A q \in Requests : req[q] \in ReqType
  BY <1>1 DEF Types
<1>3. \A k \in Request :
        /\ k.op \in Ops /\ k.on \in Jobs \cup Updates \cup {Nothing}
        /\ k.stage \in {"idle", "jobs", "call", "booked", "failed", "commit"}
        /\ k.row \in Row /\ k.jobs \in [Jobs -> Job]
        /\ k.reference \in OrderNos \cup {Nothing} /\ k.version \in 0..MaxEdits
  BY DEF Request
<1>4. \A j \in Jobs : job[j] \in Job
  BY DEF Types
<1> QED
  BY <1>2, <1>3, <1>4 DEF ReqType, Booking

(* Nothing has happened to the manifest at the start.                      *)
LEMMA TypeInit == Init => Types
<1> SUFFICES ASSUME Init PROVE Types
  OBVIOUS
<1>1. \A s \in Extracted : [Blank EXCEPT !.status = s] \in Job
  BY BlankTypes DEF Extracted, Job
<1>2. job \in [Jobs -> Job]
  BY <1>1 DEF Init
<1>3. req \in [Requests -> ReqType] /\ row \in Row
  BY BlankTypes DEF Init
<1>4. upd \in [Updates -> {"pending", "applied", "dismissed"}]
  BY DEF Init
<1>5. edits \in 0..MaxEdits /\ faults \in 0..MaxFaults
  BY Bounds DEF Init
<1> QED
  BY <1>2, <1>3, <1>4, <1>5, FS_EmptySet, Zenon DEF Init, Types

(* How a request begins: with what it has read of the manifest.            *)
LEMMA Begins ==
  ASSUME Types, NEW q \in Requests, NEW op \in Ops,
         NEW on \in Jobs \cup Updates \cup {Nothing}, NEW stage \in {"jobs", "commit"},
         op \in Edits => edits < MaxEdits, Begin(q, op, on, stage)
  PROVE  /\ req[q] = Idle /\ req[q].op = "none"
         /\ \A r \in Requests \ {q} : req'[r] = req[r]
         /\ req'[q].op = op /\ req'[q].on = on /\ req'[q].stage = stage
         /\ req'[q].row = IF Kind(op) = "book" THEN row ELSE NewRow
         /\ req'[q].jobs = [j \in Jobs |-> Blank]
         /\ req'[q].reference = Nothing
         /\ req'[q].version = IF op \in Edits THEN edits + 1 ELSE 0
         /\ req'[q] \in Request
         /\ req' = [req EXCEPT ![q] = req'[q]]
<1> DEFINE version == IF op \in Edits THEN edits + 1 ELSE 0
           read == IF Kind(op) = "book" THEN row ELSE NewRow
           k == [Idle EXCEPT !.op = op, !.on = on, !.stage = stage,
                             !.row = read, !.version = version]
<1>1. [Idle EXCEPT !.op = op, !.on = on, !.stage = stage,
                   !.row = IF Kind(op) = "book" THEN row ELSE @, !.version = version] = k
  BY DEF Idle
<1>2. req' = [req EXCEPT ![q] = k] /\ req[q] = Idle
  BY <1>1 DEF Begin
<1>3. version \in 0..MaxEdits /\ read \in Row
  BY Bounds, BlankTypes DEF Types
<1> HIDE DEF version, read
<1>4. k.op = op /\ k.on = on /\ k.stage = stage /\ k.row = read /\ k.version = version
  BY DEF Idle
<1>5. k.reference = Nothing /\ Idle.op = "none"
  BY DEF Idle
<1>6. k.jobs = [j \in Jobs |-> Blank]
  BY DEF Idle
<1>7. k \in Request
  <2>1. Idle \in Request
    BY BlankTypes DEF ReqType
  <2> QED
    BY <1>3, <2>1 DEF Request
<1> HIDE DEF k
<1>8. req'[q] = k /\ \A r \in Requests \ {q} : req'[r] = req[r]
  BY <1>2 DEF Types
<1> QED
  BY <1>2, <1>4, <1>5, <1>6, <1>7, <1>8 DEF read, version

(* What a request that begins changes.                                     *)
LEMMA BeginTypes ==
  ASSUME Types, NEW q \in Requests, NEW op \in Ops \ {"none"},
         NEW on \in Jobs \cup Updates \cup {Nothing}, NEW stage \in {"jobs", "commit"},
         op = "apply" => on \in Updates, Kind(op) = "book" => stage = "jobs",
         op \in Edits => edits < MaxEdits, Begin(q, op, on, stage), started' \in BOOLEAN
  PROVE  Types'
<1>1. edits' \in 0..MaxEdits
  BY Bounds DEF Types, Begin
<1>2. req'[q] \in ReqType
  <2>1. op \in Edits => edits + 1 \in 1..MaxEdits
    BY Bounds DEF Types
  <2> QED
    BY <2>1, Begins DEF ReqType
<1>3. req' \in [Requests -> ReqType]
  BY <1>2, Begins DEF Types
<1>4. overlap' \subseteq {"order", "lock"} /\ excused' \subseteq 1..MaxEdits
  BY DEF Begin, Types, Races, Excuses
<1> QED
  BY <1>1, <1>3, <1>4 DEF Begin, Types

(* What a request that goes on or ends makes of the requests.              *)
LEMMA FinishTypes ==
  ASSUME Types, NEW q \in Requests, Finish(q)
  PROVE  /\ req' \in [Requests -> ReqType]
         /\ req'[q] = Idle
         /\ \A r \in Requests \ {q} : req'[r] = req[r]
  BY BlankTypes DEF Finish, Types

(* A request that goes to another stage keeps its type.                    *)
LEMMA ToTypes ==
  ASSUME Types, NEW q \in Requests, NEW stage \in {"booked", "failed"},
         To(q, stage), req[q].stage = "call"
  PROVE  /\ req' \in [Requests -> ReqType]
         /\ req'[q] = [req[q] EXCEPT !.stage = stage]
         /\ \A r \in Requests \ {q} : req'[r] = req[r]
<1>1. req' = [req EXCEPT ![q] = [req[q] EXCEPT !.stage = stage]]
  BY DEF To
<1>2. [req[q] EXCEPT !.stage = stage] \in Request
  BY Parts DEF Request
<1>3. /\ [req[q] EXCEPT !.stage = stage].op = req[q].op
      /\ [req[q] EXCEPT !.stage = stage].on = req[q].on
      /\ [req[q] EXCEPT !.stage = stage].row = req[q].row
      /\ [req[q] EXCEPT !.stage = stage].version = req[q].version
      /\ [req[q] EXCEPT !.stage = stage].stage = stage
  BY Parts DEF Request
<1>4. [req[q] EXCEPT !.stage = stage] \in ReqType
  BY <1>2, <1>3, Parts DEF ReqType, Booking
<1> QED
  BY <1>1, <1>4 DEF Types

(* The jobs a request has read.                                            *)
LEMMA Reads ==
  ASSUME Types, NEW q \in Requests, ReadJobs(q)
  PROVE  /\ req' \in [Requests -> ReqType]
         /\ \A r \in Requests \ {q} : req'[r] = req[r]
         /\ req'[q].op = req[q].op /\ req'[q].on = req[q].on /\ req'[q].row = req[q].row
         /\ req'[q].reference = req[q].row.order /\ req'[q].version = req[q].version
         /\ req'[q].stage = IF Booking(q) /\ req[q].row.outcome # "booked"
                            THEN "call" ELSE "commit"
         /\ \A j \in Jobs : /\ req'[q].jobs[j].locked = job[j].locked
                            /\ Booking(q) => req'[q].jobs[j].text = job[j].text
<1> DEFINE read == [j \in Jobs |-> [job[j] EXCEPT !.text = IF Booking(q) THEN @ ELSE 0]]
           stage == IF Booking(q) /\ req[q].row.outcome # "booked" THEN "call" ELSE "commit"
           k == [req[q] EXCEPT !.jobs = read, !.stage = stage, !.reference = req[q].row.order]
<1>1. \A j \in Jobs : /\ read[j] \in Job /\ read[j].locked = job[j].locked
                      /\ Booking(q) => read[j].text = job[j].text
  BY Parts, Bounds DEF Job
<1>2. read \in [Jobs -> Job]
  BY <1>1
<1>3. req[q].row.order \in OrderNos \cup {Nothing}
  BY Parts DEF Row
<1>4. req' = [req EXCEPT ![q] = k] /\ req[q].stage = "jobs"
  BY DEF ReadJobs, Booking
<1>5. stage \in {"call", "commit"}
  OBVIOUS
<1> HIDE DEF read
<1>6. /\ k.op = req[q].op /\ k.on = req[q].on /\ k.row = req[q].row
      /\ k.jobs = read /\ k.stage = stage /\ k.reference = req[q].row.order
      /\ k.version = req[q].version
  BY Parts DEF Request
<1>7. k \in Request
  BY <1>2, <1>3, <1>5, Parts, ZenonT(30) DEF Request
<1>8. k \in ReqType
  <2>1. req[q].op # "none"
    BY <1>4, Parts
  <2>2. k.stage = "commit" /\ Kind(k.op) = "book" => k.row.outcome = "booked"
    BY <1>6 DEF Booking
  <2>3. k.stage # "idle" /\ (k.stage = "call" => Kind(k.op) = "book" /\ k.row.outcome # "booked")
    BY <1>5, <1>6 DEF Booking
  <2> HIDE DEF k, stage
  <2> QED
    BY <1>5, <1>6, <1>7, <2>1, <2>2, <2>3, Parts DEF ReqType
<1> HIDE DEF k, stage
<1>9. req' \in [Requests -> ReqType] /\ req'[q] = k /\ \A r \in Requests \ {q} : req'[r] = req[r]
  BY <1>4, <1>8 DEF Types
<1>10. \A j \in Jobs : /\ req'[q].jobs[j].locked = job[j].locked
                       /\ Booking(q) => req'[q].jobs[j].text = job[j].text
  BY <1>1, <1>6, <1>9
<1> QED
  BY <1>6, <1>9, <1>10 DEF stage

(* The order the carrier takes, and what the request makes of the answer.  *)
LEMMA Takes ==
  ASSUME Types, NEW q \in Requests, CarrierTakes(q)
  PROVE  /\ req' \in [Requests -> ReqType]
         /\ \A r \in Requests \ {q} : req'[r] = req[r]
         /\ Booking(q) /\ req[q].row.outcome # "booked"
         /\ req'[q].op = req[q].op /\ req'[q].on = req[q].on
         /\ req'[q].row = req[q].row /\ req'[q].jobs = req[q].jobs
         /\ req'[q].version = req[q].version
         /\ orders' \subseteq Order /\ IsFiniteSet(orders')
         /\ Cardinality(orders) \in Nat
         /\ orders = {} => Cardinality(orders') = 1
         /\ \E n \in OrderNos :
              /\ orders' = orders \cup {[no |-> n, booked |-> Versions(q)]}
              /\ \/ /\ req'[q].stage = "booked" /\ req'[q].reference \in {n, Nothing}
                    /\ UNCHANGED <<lost, faults>>
                 \/ /\ req'[q].stage = "failed" /\ req'[q].reference = req[q].reference
                    /\ Fault /\ lost' = TRUE
<1> DEFINE n == Cardinality(orders) + 1
           o == [no |-> n, booked |-> Versions(q)]
<1>1. n \in OrderNos /\ Cardinality(orders) \in Nat
  BY Bounds, FS_CardinalityType DEF CarrierTakes, OrderNos, Types
<1>2. orders' = orders \cup {o}
  BY DEF CarrierTakes
<1>3. Versions(q) \in [plan : 0..MaxEdits, text : [Jobs -> Texts]]
  <2>1. req[q].row.plan \in 0..MaxEdits
    BY Parts DEF Row
  <2>2. \A j \in Jobs : req[q].jobs[j].text \in Texts
    <3>1. \A j \in Jobs : req[q].jobs[j] \in Job
      BY Parts
    <3> QED
      BY <3>1 DEF Job
  <2> QED
    BY <2>1, <2>2 DEF Versions
<1>4. o \in Order
  BY <1>1, <1>3 DEF Order
<1>5. req[q].stage = "call"
  BY DEF CarrierTakes
<1>6. Booking(q) /\ req[q].row.outcome # "booked"
  BY <1>5, Parts
<1> HIDE DEF o
<1>7. orders' \subseteq Order /\ IsFiniteSet(orders')
  BY <1>2, <1>4, FS_AddElement DEF Types
<1>8. orders = {} => Cardinality(orders') = 1
  BY <1>2, FS_Singleton
<1>9. CASE /\ \E ref \in {n, Nothing} :
                req' = [req EXCEPT ![q].stage = "booked", ![q].reference = ref]
           /\ UNCHANGED <<lost, faults>>
  <2> HIDE DEF n
  <2>1. PICK ref \in {n, Nothing} :
          req' = [req EXCEPT ![q] = [req[q] EXCEPT !.stage = "booked", !.reference = ref]]
    BY <1>9, Parts
  <2> DEFINE k == [req[q] EXCEPT !.stage = "booked", !.reference = ref]
  <2>2. k \in Request
    BY <1>1, Parts DEF Request
  <2>3. /\ k.op = req[q].op /\ k.on = req[q].on /\ k.row = req[q].row
        /\ k.jobs = req[q].jobs /\ k.stage = "booked" /\ k.reference = ref
        /\ k.version = req[q].version
    BY Parts DEF Request
  <2> HIDE DEF k
  <2>4. k \in ReqType
    BY <1>5, <1>6, <2>2, <2>3, Parts DEF ReqType, Booking
  <2>5. /\ req' \in [Requests -> ReqType] /\ req'[q] = k
        /\ \A r \in Requests \ {q} : req'[r] = req[r]
    BY <2>1, <2>4 DEF Types, k
  <2>6. req'[q].stage = "booked" /\ req'[q].reference \in {n, Nothing} /\ UNCHANGED <<lost, faults>>
    BY <1>9, <2>3, <2>5
  <2> QED
    BY <1>1, <1>2, <1>6, <1>7, <1>8, <2>3, <2>5, <2>6 DEF o
<1>10. CASE Fault /\ lost' = TRUE /\ To(q, "failed")
  <2> HIDE DEF n
  <2>1. /\ req' \in [Requests -> ReqType]
        /\ req'[q] = [req[q] EXCEPT !.stage = "failed"]
        /\ \A r \in Requests \ {q} : req'[r] = req[r]
    BY <1>5, <1>10, ToTypes
  <2>2. /\ req'[q].stage = "failed" /\ req'[q].reference = req[q].reference
        /\ req'[q].op = req[q].op /\ req'[q].on = req[q].on
        /\ req'[q].row = req[q].row /\ req'[q].jobs = req[q].jobs
        /\ req'[q].version = req[q].version
    BY <2>1, Parts DEF Request
  <2> QED
    BY <1>1, <1>2, <1>6, <1>7, <1>8, <1>10, <2>1, <2>2 DEF o
<1> QED
  BY <1>9, <1>10 DEF CarrierTakes

(* What a request makes of an answer that is not the carrier's JSON.       *)
LEMMA Garbles ==
  ASSUME Types, NEW q \in Requests, CarrierGarbles(q)
  PROVE  /\ req' \in [Requests -> ReqType]
         /\ \A r \in Requests \ {q} : req'[r] = req[r]
         /\ Booking(q) /\ req[q].row.outcome # "booked"
         /\ req'[q].op = req[q].op /\ req'[q].on = req[q].on
         /\ req'[q].row = req[q].row /\ req'[q].jobs = req[q].jobs
         /\ req'[q].version = req[q].version
         /\ req'[q].stage = "booked" /\ req'[q].reference = Nothing
<1> DEFINE k == [req[q] EXCEPT !.stage = "booked", !.reference = Nothing]
<1>1. req' = [req EXCEPT ![q] = k] /\ req[q].stage = "call"
  BY DEF CarrierGarbles
<1>2. Booking(q) /\ req[q].row.outcome # "booked"
  BY <1>1, Parts
<1>3. k \in Request
  BY Parts DEF Request
<1>4. /\ k.op = req[q].op /\ k.on = req[q].on /\ k.row = req[q].row
      /\ k.jobs = req[q].jobs /\ k.stage = "booked" /\ k.reference = Nothing
      /\ k.version = req[q].version
  BY Parts DEF Request
<1> HIDE DEF k
<1>5. k \in ReqType
  BY <1>1, <1>2, <1>3, <1>4, Parts DEF ReqType, Booking
<1>6. /\ req' \in [Requests -> ReqType] /\ req'[q] = k
      /\ \A r \in Requests \ {q} : req'[r] = req[r]
  BY <1>1, <1>5 DEF Types
<1> QED
  BY <1>2, <1>4, <1>6

(* What a commit makes of the jobs and of the manifest.                    *)
LEMMA ManifestedTypes ==
  ASSUME Types, NEW q \in Requests
  PROVE  /\ Manifested(q) \in [Jobs -> Job]
         /\ \A b \in BOOLEAN : SaveLocked(q, b) \in [Jobs -> Job]
<1>1. \A j \in Jobs : job[j] \in Job /\ req[q].jobs[j] \in Job
  BY Parts
<1> QED
  BY <1>1 DEF Manifested, SaveLocked, Save, Job

(* No request leaves the types.                                            *)
LEMMA TypeStep == Types /\ [Next]_vars => Types'
<1> SUFFICES ASSUME Types, [Next]_vars PROVE Types'
  OBVIOUS
<1>1. ASSUME NEW q \in Requests, Start(q) PROVE Types'
  <2>1. started \in BOOLEAN
    BY DEF Types
  <2>2. ASSUME NEW j \in Jobs, StartApprove(q, j) \/ StartEdit(q, j) PROVE Types'
    BY <2>1, <2>2, BeginTypes DEF StartApprove, StartEdit, Ops, Edits, Kind
  <2>3. ASSUME NEW u \in Updates, StartApply(q, u) \/ StartDismiss(q, u) PROVE Types'
    BY <2>1, <2>3, BeginTypes DEF StartApply, StartDismiss, Ops, Edits, Kind
  <2>4. CASE StartArrange(q) \/ StartCsv(q)
    BY <2>1, <2>4, BeginTypes DEF StartArrange, StartCsv, Ops, Edits, Kind
  <2>5. CASE StartBook(q) \/ StartAuto(q)
    BY <2>1, <2>5, BeginTypes DEF StartBook, StartAuto, Ops, Edits, Kind
  <2>6. CASE StartCancel(q) \/ StartReopen(q)
    BY <2>1, <2>6, BeginTypes DEF StartCancel, StartReopen, Ops, Edits, Kind
  <2> QED
    BY <1>1, <2>2, <2>3, <2>4, <2>5, <2>6 DEF Start
<1>2. ASSUME NEW q \in Requests, Reject(q) PROVE Types'
  BY <1>2, FinishTypes DEF Reject, Types
<1>3. ASSUME NEW q \in Requests, ReadJobs(q) PROVE Types'
  <2>1. req' \in [Requests -> ReqType]
    BY <1>3, Reads
  <2> QED
    BY <1>3, <2>1 DEF ReadJobs, Types
<1>4. ASSUME NEW q \in Requests, CarrierTakes(q) PROVE Types'
  <2>1. req' \in [Requests -> ReqType] /\ orders' \subseteq Order /\ IsFiniteSet(orders')
    BY <1>4, Takes
  <2>2. lost' \in BOOLEAN
    BY <1>4 DEF CarrierTakes, Types
  <2>3. UNCHANGED faults \/ Fault
    BY <1>4 DEF CarrierTakes
  <2>4. faults' \in 0..MaxFaults
    BY <2>3, Bounds DEF Fault, Types
  <2> QED
    BY <1>4, <2>1, <2>2, <2>4 DEF CarrierTakes, Types
<1>5. ASSUME NEW q \in Requests, CarrierRefuses(q) PROVE Types'
  BY <1>5, ToTypes DEF CarrierRefuses, Types
<1>6. ASSUME NEW q \in Requests, CommitApprove(q) PROVE Types'
  <2>1. \A j \in Jobs : [job[j] EXCEPT !.status = "ready_to_manifest"] \in Job
    BY DEF Types, Job
  <2>2. job' = [job EXCEPT ![req[q].on] = [job[req[q].on] EXCEPT !.status = "ready_to_manifest"]]
    BY <1>6 DEF CommitApprove, Types
  <2>3. job' \in [Jobs -> Job]
    BY <2>1, <2>2 DEF Types
  <2> QED
    BY <1>6, <2>3, FinishTypes DEF CommitApprove, Commit, Types
<1>7. ASSUME NEW q \in Requests, CommitEdit(q) PROVE Types'
  <2>1. \A j \in Jobs : [job[j] EXCEPT !.text = req[q].version] \in Job
    BY Parts DEF Types, Job, Texts
  <2>2. job' = [job EXCEPT ![req[q].on] = [job[req[q].on] EXCEPT !.text = req[q].version]]
    BY <1>7 DEF CommitEdit, Types
  <2>3. job' \in [Jobs -> Job]
    BY <2>1, <2>2 DEF Types
  <2> QED
    BY <1>7, <2>3, FinishTypes DEF CommitEdit, Commit, Types
<1>8. ASSUME NEW q \in Requests, CommitArrange(q) PROVE Types'
  <2>1. row' \in Row
    BY <1>8, Parts DEF CommitArrange, Row, Types
  <2> QED
    BY <1>8, <2>1, FinishTypes DEF CommitArrange, Commit, Types
<1>9. ASSUME NEW q \in Requests, CommitApply(q) PROVE Types'
  <2> DEFINE j == JobOf[req[q].on]
             status == IF req[q].jobs[j].locked THEN job[j].status
                       ELSE Save(req[q].jobs[j].status, "pending_review", job[j].status)
  <2>1. j \in Jobs /\ job[j] \in Job /\ req[q].on \in Updates
    BY <1>9, ManifestAssumption, Parts DEF CommitApply, Commit
  <2>2. job' = [job EXCEPT ![j] = [job[j] EXCEPT !.text = req[q].version, !.status = status]]
    BY <1>9, <2>1 DEF CommitApply, Types
  <2>3. status \in {"pending_review", "ready_to_manifest", "manifested"}
    BY <2>1 DEF Save, Job
  <2>4. req[q].version \in Texts
    BY Parts DEF Texts
  <2> HIDE DEF j, status
  <2>5. [job[j] EXCEPT !.text = req[q].version, !.status = status] \in Job
    BY <2>1, <2>3, <2>4 DEF Job
  <2>6. job' \in [Jobs -> Job]
    BY <2>2, <2>5 DEF Types
  <2>7. excused' \subseteq 1..MaxEdits /\ upd' \in [Updates -> {"pending", "applied", "dismissed"}]
    <3>1. req[q].version \in 1..MaxEdits
      BY <1>9, Parts DEF CommitApply, Commit, Edits
    <3> QED
      BY <1>9, <2>1, <3>1 DEF CommitApply, Types
  <2> QED
    BY <1>9, <2>6, <2>7, FinishTypes DEF CommitApply, Commit, Types
<1>10. ASSUME NEW q \in Requests, CommitDismiss(q) PROVE Types'
  BY <1>10, FinishTypes DEF CommitDismiss, Commit, Types
<1>11. ASSUME NEW q \in Requests, CommitCsv(q) PROVE Types'
  <2>1. row' \in Row
    BY <1>11 DEF CommitCsv, Row, Types
  <2>2. job' \in [Jobs -> Job]
    BY <1>11, ManifestedTypes DEF CommitCsv
  <2> QED
    BY <1>11, <2>1, <2>2, FinishTypes DEF CommitCsv, Commit, Types
<1>12. ASSUME NEW q \in Requests, CommitBooked(q) PROVE Types'
  <2>1. row' \in Row
    <3> DEFINE no == Save(req[q].row.order, req[q].reference, row.order)
               outcome == Save(req[q].row.outcome, "booked", row.outcome)
               status == Save(req[q].row.status, "exported", row.status)
    <3>1. no \in OrderNos \cup {Nothing}
      BY Parts DEF Types, Row, Save
    <3>2. outcome \in {"none", "booked", "failed"}
      BY DEF Types, Row, Save
    <3>3. status \in {"open", "exported", "cancelled"}
      BY DEF Types, Row, Save
    <3>4. row' = [row EXCEPT !.order = no, !.outcome = outcome, !.status = status, !.at = TRUE]
      BY <1>12 DEF CommitBooked
    <3> HIDE DEF no, outcome, status
    <3> QED
      BY <3>1, <3>2, <3>3, <3>4 DEF Types, Row
  <2>2. job' \in [Jobs -> Job]
    BY <1>12, ManifestedTypes DEF CommitBooked, Types
  <2> QED
    BY <1>12, <2>1, <2>2, FinishTypes DEF CommitBooked, Types
<1>13. ASSUME NEW q \in Requests, CommitFailed(q) PROVE Types'
  <2>1. row' \in Row
    <3> DEFINE outcome == Save(req[q].row.outcome, "failed", row.outcome)
    <3>1. outcome \in {"none", "booked", "failed"}
      BY DEF Types, Row, Save
    <3>2. row' = [row EXCEPT !.outcome = outcome]
      BY <1>13 DEF CommitFailed
    <3> HIDE DEF outcome
    <3> QED
      BY <3>1, <3>2 DEF Types, Row
  <2> QED
    BY <1>13, <2>1, FinishTypes DEF CommitFailed, Types
<1>14. ASSUME NEW q \in Requests, CommitCancel(q) \/ CommitReopen(q) PROVE Types'
  <2>1. row' \in Row
    <3>1. \A status \in {"open", "cancelled"} : [row EXCEPT !.status = status] \in Row
      BY DEF Types, Row
    <3> QED
      BY <1>14, <3>1 DEF CommitCancel, CommitReopen
  <2>2. job' \in [Jobs -> Job]
    BY <1>14, ManifestedTypes DEF CommitCancel, CommitReopen
  <2> QED
    BY <1>14, <2>1, <2>2, FinishTypes DEF CommitCancel, CommitReopen, Commit, Types
<1>15. ASSUME NEW q \in Requests, Die(q) PROVE Types'
  <2>1. lost' \in BOOLEAN /\ faults' \in 0..MaxFaults
    BY <1>15, Bounds DEF Die, Fault, Types
  <2> QED
    BY <1>15, <2>1, FinishTypes DEF Die, Types
<1>16. CASE UNCHANGED vars
  BY <1>16 DEF vars, causes, Types
<1>17. ASSUME NEW q \in Requests, CarrierGarbles(q) PROVE Types'
  <2>1. faults' \in 0..MaxFaults
    BY <1>17, Bounds DEF CarrierGarbles, Fault, Types
  <2> QED
    BY <1>17, <2>1, Garbles DEF CarrierGarbles, causes, Types
<1> QED
  BY <1>1, <1>2, <1>3, <1>4, <1>5, <1>6, <1>7, <1>8, <1>9, <1>10, <1>11, <1>12, <1>13,
     <1>14, <1>15, <1>16, <1>17 DEF Next, Step

(* Every reachable state is well typed.                                    *)
LEMMA TypesHold == Spec => []Types
  BY TypeInit, TypeStep, PTL DEF Spec

(* The type invariant, for any jobs, updates and requests: whatever        *)
(* overlaps, the columns of the manifest, its jobs and its updates hold    *)
(* one of their values.                                                    *)
THEOREM TypeCorrect == Spec => []TypeOK
<1>1. Types => TypeOK
  BY Parts DEF Types, TypeOK
<1> QED
  BY <1>1, TypesHold, PTL

-----------------------------------------------------------------------------
(* Who runs with whom.                                                     *)

Exporting(q) == req[q].op = "csv" \/ Booking(q)
Unlocking(q) == req[q].op \in {"cancel", "reopen"}
Editing(q) == req[q].op \in Edits

(* The races that the history of a manifest records.                       *)
LEMMA RacesMet ==
  /\ "order" \in Races("book", "book")
  /\ \A a \in {"book", "csv"}, b \in {"cancel", "reopen"} :
       "lock" \in Races(a, b) /\ "lock" \in Races(b, a)
<1>1. "order" \in Races("book", "book")
  BY DEF Races
<1>2. ASSUME NEW a \in {"book", "csv"}, NEW b \in {"cancel", "reopen"}
      PROVE  "lock" \in Races(a, b) /\ "lock" \in Races(b, a)
  BY DEF Races
<1> QED
  BY <1>1, <1>2

(* An idle request takes part in nothing.                                  *)
LEMMA IdleIsOut ==
  /\ Idle.op = "none" /\ Idle.stage = "idle" /\ Idle.reference = Nothing
  /\ Idle.row.outcome = "none" /\ Idle.row.order = Nothing /\ Idle.row.status = "open"
  /\ \A j \in Jobs : ~ Idle.jobs[j].locked
  /\ Kind("none") = "none" /\ "none" \notin Edits
  BY DEF Idle, NewRow, Blank, Kind, Edits

(* A request that starts, what it was allowed to start on, and what it     *)
(* does not compete for unless the history says so.                        *)
LEMMA Starts ==
  ASSUME Types, NEW q \in Requests, Start(q)
  PROVE  /\ req[q].op = "none"
         /\ \A r \in Requests \ {q} : req'[r] = req[r]
         /\ req'[q].stage \in {"jobs", "commit"}
         /\ Booking(q)' \/ req'[q].op = "apply" => req'[q].stage = "jobs"
         /\ req'[q].row = IF Booking(q)' THEN row ELSE NewRow
         /\ req'[q].jobs = [j \in Jobs |-> Blank]
         /\ req'[q].reference = Nothing
         /\ UNCHANGED <<row, job, upd, orders, reopened, garbled, lost>>
         /\ req'[q].op \in {"csv", "cancel"} => row.status = "open" /\ ~ row.at
         /\ Booking(q)' => /\ row.status \in {"open", "exported"}
                           /\ row.status = "exported" => row.outcome # "booked"
         /\ req'[q].op = "reopen" => row.status = "cancelled"
         /\ req'[q].op = "arrange" => row.status = "open"
         /\ req'[q].op = "edit" => \E j \in Jobs : ~ job[j].locked
         /\ overlap \subseteq overlap'
         /\ \A r \in Requests \ {q} :
              /\ Booking(q)' /\ Booking(r) => "order" \in overlap'
              /\ (Exporting(q)' /\ Unlocking(r)) \/ (Unlocking(q)' /\ Exporting(r)) => "lock" \in overlap'
         /\ excused \subseteq excused'
         /\ \A r \in Requests \ {q} :
              /\ Booking(q)' /\ Editing(r) => req[r].version \in excused'
              /\ Editing(q)' /\ Booking(r) => req'[q].version \in excused'
         /\ Editing(q)' /\ reopened => req'[q].version \in excused'
<1>1. ASSUME NEW op \in Ops, NEW on \in Jobs \cup Updates \cup {Nothing},
             NEW stage \in {"jobs", "commit"},
             op \in Edits => edits < MaxEdits, Begin(q, op, on, stage),
             Kind(op) = "book" \/ op = "apply" => stage = "jobs",
             op \in {"csv", "cancel"} => row.status = "open" /\ ~ row.at,
             Kind(op) = "book" => /\ row.status \in {"open", "exported"}
                                  /\ row.status = "exported" => row.outcome # "booked",
             op = "reopen" => row.status = "cancelled",
             op = "arrange" => row.status = "open",
             op = "edit" => \E j \in Jobs : ~ job[j].locked
      PROVE  /\ req[q].op = "none"
             /\ \A r \in Requests \ {q} : req'[r] = req[r]
             /\ req'[q].op = op
             /\ req'[q].stage \in {"jobs", "commit"}
             /\ Booking(q)' \/ req'[q].op = "apply" => req'[q].stage = "jobs"
             /\ req'[q].row = IF Booking(q)' THEN row ELSE NewRow
             /\ req'[q].jobs = [j \in Jobs |-> Blank]
             /\ req'[q].reference = Nothing
             /\ UNCHANGED <<row, job, upd, orders, reopened, garbled, lost>>
             /\ req'[q].op \in {"csv", "cancel"} => row.status = "open" /\ ~ row.at
             /\ Booking(q)' => /\ row.status \in {"open", "exported"}
                               /\ row.status = "exported" => row.outcome # "booked"
             /\ req'[q].op = "reopen" => row.status = "cancelled"
             /\ req'[q].op = "arrange" => row.status = "open"
             /\ req'[q].op = "edit" => \E j \in Jobs : ~ job[j].locked
             /\ req'[q].version = IF op \in Edits THEN edits + 1 ELSE 0
             /\ op \in Edits => edits + 1 \in 1..MaxEdits
             /\ overlap' = overlap \cup UNION {Races(Kind(op), Kind(req[r].op)) : r \in Running}
             /\ excused' = excused \cup Excuses(op)
  <2>1. /\ req[q].op = "none"
        /\ \A r \in Requests \ {q} : req'[r] = req[r]
        /\ req'[q].op = op /\ req'[q].on = on /\ req'[q].stage = stage
        /\ req'[q].row = IF Kind(op) = "book" THEN row ELSE NewRow
        /\ req'[q].jobs = [j \in Jobs |-> Blank]
        /\ req'[q].reference = Nothing
        /\ req'[q].version = IF op \in Edits THEN edits + 1 ELSE 0
    BY <1>1, Begins
  <2>2. op \in Edits => edits + 1 \in 1..MaxEdits
    BY <1>1, Bounds DEF Types
  <2> QED
    BY <1>1, <2>1, <2>2 DEF Begin, Booking
<1>2. \E op \in Ops, on \in Jobs \cup Updates \cup {Nothing}, stage \in {"jobs", "commit"} :
         /\ Begin(q, op, on, stage)
         /\ op \in Edits => edits < MaxEdits
         /\ Kind(op) = "book" \/ op = "apply" => stage = "jobs"
         /\ op \in {"csv", "cancel"} => row.status = "open" /\ ~ row.at
         /\ Kind(op) = "book" => /\ row.status \in {"open", "exported"}
                                 /\ row.status = "exported" => row.outcome # "booked"
         /\ op = "reopen" => row.status = "cancelled"
         /\ op = "arrange" => row.status = "open"
         /\ op = "edit" => \E j \in Jobs : ~ job[j].locked
  <2>1. CASE \E j \in Jobs : StartApprove(q, j) \/ StartEdit(q, j)
    BY <2>1 DEF StartApprove, StartEdit, Ops, Edits, Kind
  <2>2. CASE \E u \in Updates : StartApply(q, u) \/ StartDismiss(q, u)
    BY <2>2 DEF StartApply, StartDismiss, Ops, Edits, Kind
  <2>3. CASE StartArrange(q) \/ StartCsv(q)
    BY <2>3 DEF StartArrange, StartCsv, Ops, Edits, Kind
  <2>4. CASE StartBook(q) \/ StartAuto(q)
    BY <2>4 DEF StartBook, StartAuto, Ops, Edits, Kind
  <2>5. CASE StartCancel(q) \/ StartReopen(q)
    BY <2>5 DEF StartCancel, StartReopen, Ops, Edits, Kind
  <2> QED
    BY <2>1, <2>2, <2>3, <2>4, <2>5 DEF Start
<1>3. PICK op \in Ops, on \in Jobs \cup Updates \cup {Nothing}, stage \in {"jobs", "commit"} :
         /\ Begin(q, op, on, stage)
         /\ op \in Edits => edits < MaxEdits
         /\ Kind(op) = "book" \/ op = "apply" => stage = "jobs"
         /\ op \in {"csv", "cancel"} => row.status = "open" /\ ~ row.at
         /\ Kind(op) = "book" => /\ row.status \in {"open", "exported"}
                                 /\ row.status = "exported" => row.outcome # "booked"
         /\ op = "reopen" => row.status = "cancelled"
         /\ op = "arrange" => row.status = "open"
         /\ op = "edit" => \E j \in Jobs : ~ job[j].locked
  BY <1>2
<1>4. /\ req'[q].op = op
      /\ req'[q].version = IF op \in Edits THEN edits + 1 ELSE 0
      /\ op \in Edits => edits + 1 \in 1..MaxEdits
      /\ overlap' = overlap \cup UNION {Races(Kind(op), Kind(req[r].op)) : r \in Running}
      /\ excused' = excused \cup Excuses(op)
  BY <1>1, <1>3
<1>5. ASSUME NEW r \in Requests \ {q},
             Exporting(r) \/ Unlocking(r) \/ Editing(r)
      PROVE  Races(Kind(op), Kind(req[r].op)) \subseteq overlap'
  <2>1. req[r].op # "none"
    BY <1>5 DEF Exporting, Unlocking, Editing, Booking, Edits, Kind
  <2>2. r \in Running
    BY <2>1, Parts DEF Running
  <2> QED
    BY <1>4, <2>2
<1>6. ASSUME NEW r \in Requests \ {q}
      PROVE  /\ Booking(q)' /\ Booking(r) => "order" \in overlap'
             /\ (Exporting(q)' /\ Unlocking(r)) \/ (Unlocking(q)' /\ Exporting(r)) => "lock" \in overlap'
  <2>1. /\ Booking(q)' <=> Kind(op) = "book"
        /\ Exporting(q)' <=> Kind(op) \in {"book", "csv"}
        /\ Unlocking(q)' <=> Kind(op) \in {"cancel", "reopen"}
        /\ Editing(q)' <=> Kind(op) \in Edits
    BY <1>4 DEF Booking, Exporting, Unlocking, Editing, Kind, Edits
  <2>2. /\ Booking(r) <=> Kind(req[r].op) = "book"
        /\ Exporting(r) <=> Kind(req[r].op) \in {"book", "csv"}
        /\ Unlocking(r) <=> Kind(req[r].op) \in {"cancel", "reopen"}
        /\ Editing(r) <=> Kind(req[r].op) \in Edits
    BY DEF Booking, Exporting, Unlocking, Editing, Kind, Edits
  <2> QED
    BY <1>5, <2>1, <2>2, RacesMet
<1>7. overlap \subseteq overlap' /\ excused \subseteq excused'
  BY <1>4
<1>8. ASSUME NEW r \in Requests \ {q}, Booking(q)', Editing(r)
      PROVE  req[r].version \in excused'
  <2>1. r \in Running /\ req[r].version \in 1..MaxEdits
    BY <1>8, Parts, IdleIsOut DEF Running, Editing
  <2>2. Kind(op) = "book"
    BY <1>4, <1>8 DEF Booking
  <2> QED
    BY <1>4, <2>1, <2>2 DEF Excuses
<1>9. ASSUME Editing(q)'
      PROVE  /\ reopened => req'[q].version \in excused'
             /\ \A r \in Requests \ {q} : Booking(r) => req'[q].version \in excused'
  <2>1. op \in Edits /\ req'[q].version = edits + 1 /\ edits + 1 \in 1..MaxEdits
    BY <1>4, <1>9 DEF Editing
  <2>2. \A r \in Requests : Booking(r) => r \in Bookings
    BY Parts DEF Bookings, Running, Booking, Kind
  <2> QED
    BY <1>4, <2>1, <2>2 DEF Excuses
<1> QED
  BY <1>1, <1>3, <1>6, <1>7, <1>8, <1>9

(* A request that goes on keeps what it is and what it has read of the     *)
(* manifest, or ends.                                                      *)
LEMMA Goes ==
  ASSUME Types, NEW q \in Requests, Step(q)
  PROVE  /\ \A r \in Requests \ {q} : req'[r] = req[r]
         /\ \/ req'[q] = Idle
            \/ /\ req'[q].op = req[q].op /\ req'[q].on = req[q].on
               /\ req'[q].row = req[q].row /\ req'[q].version = req[q].version
         /\ overlap' = overlap
         /\ orders \subseteq orders'
         /\ excused \subseteq excused'
         /\ (lost => lost') /\ (reopened => reopened') /\ (garbled => garbled')
<1>1. CASE Finish(q)
  <2>1. req'[q] = Idle /\ \A r \in Requests \ {q} : req'[r] = req[r]
    BY <1>1, FinishTypes
  <2>2. overlap' = overlap /\ (UNCHANGED orders \/ CarrierTakes(q))
    BY DEF Step, Reject, ReadJobs, CarrierTakes, CarrierRefuses, CarrierGarbles,
           CommitApprove, CommitEdit, CommitArrange, CommitApply, CommitDismiss, CommitCsv,
           CommitBooked, CommitFailed, CommitCancel, CommitReopen, Commit, Die
  <2>3. lost => lost'
    BY DEF Step, Reject, ReadJobs, CarrierTakes, CarrierRefuses, CarrierGarbles,
           CommitApprove, CommitEdit, CommitArrange, CommitApply, CommitDismiss, CommitCsv,
           CommitBooked, CommitFailed, CommitCancel, CommitReopen, Commit, Die
  <2>5. reopened => reopened'
    BY DEF Step, Reject, ReadJobs, CarrierTakes, CarrierRefuses, CarrierGarbles,
           CommitApprove, CommitEdit, CommitArrange, CommitApply, CommitDismiss, CommitCsv,
           CommitBooked, CommitFailed, CommitCancel, CommitReopen, Commit, Die
  <2>6. garbled => garbled'
    BY DEF Step, Reject, ReadJobs, CarrierTakes, CarrierRefuses, CarrierGarbles,
           CommitApprove, CommitEdit, CommitArrange, CommitApply, CommitDismiss, CommitCsv,
           CommitBooked, CommitFailed, CommitCancel, CommitReopen, Commit, Die
  <2>4. excused \subseteq excused'
    BY DEF Step, Reject, ReadJobs, CarrierTakes, CarrierRefuses, CarrierGarbles,
           CommitApprove, CommitEdit, CommitArrange, CommitApply, CommitDismiss, CommitCsv,
           CommitBooked, CommitFailed, CommitCancel, CommitReopen, Commit, Die
  <2> QED
    BY <2>1, <2>2, <2>3, <2>4, <2>5, <2>6 DEF CarrierTakes
<1>2. CASE ReadJobs(q)
  <2>1. /\ \A r \in Requests \ {q} : req'[r] = req[r]
        /\ req'[q].op = req[q].op /\ req'[q].on = req[q].on /\ req'[q].row = req[q].row
        /\ req'[q].version = req[q].version
    BY <1>2, Reads
  <2> QED
    BY <1>2, <2>1 DEF ReadJobs
<1>3. CASE CarrierTakes(q)
  <2>1. /\ \A r \in Requests \ {q} : req'[r] = req[r]
        /\ req'[q].op = req[q].op /\ req'[q].on = req[q].on /\ req'[q].row = req[q].row
        /\ req'[q].version = req[q].version
        /\ orders \subseteq orders'
    BY <1>3, Takes
  <2>2. overlap' = overlap /\ (lost => lost') /\ UNCHANGED <<excused, reopened, garbled>>
    BY <1>3 DEF CarrierTakes
  <2> QED
    BY <2>1, <2>2
<1>4. CASE CarrierRefuses(q)
  <2>1. req'[q] = [req[q] EXCEPT !.stage = "failed"] /\ \A r \in Requests \ {q} : req'[r] = req[r]
    BY <1>4, ToTypes DEF CarrierRefuses
  <2>2. /\ req'[q].op = req[q].op /\ req'[q].on = req[q].on /\ req'[q].row = req[q].row
        /\ req'[q].version = req[q].version
    BY <2>1, Parts DEF Request
  <2> QED
    BY <1>4, <2>1, <2>2 DEF CarrierRefuses
<1>5. CASE CarrierGarbles(q)
  BY <1>5, Garbles DEF CarrierGarbles
<1> QED
  BY <1>1, <1>2, <1>3, <1>4, <1>5 DEF Step, Reject, CommitApprove, CommitEdit, CommitArrange,
     CommitApply, CommitDismiss, CommitCsv, CommitBooked, CommitFailed, CommitCancel,
     CommitReopen, Commit, Die

-----------------------------------------------------------------------------
(* Every number comes from an order.                                       *)

Numbers == {o.no : o \in orders} \cup {Nothing}

(* What a request may take for the result of a booking.                    *)
NumberInv ==
    /\ BookedHasAnOrder
    /\ \A q \in Requests :
         /\ req[q].row.outcome = "booked" => orders # {} \/ garbled
         /\ req[q].stage = "booked" => orders # {} \/ garbled
         /\ req[q].row.order \in Numbers
         /\ req[q].reference \in Numbers

(* No step loses an order or brings a number from elsewhere.               *)
LEMMA NumberStep == Types /\ NumberInv /\ [Next]_vars => NumberInv'
<1> SUFFICES ASSUME Types, NumberInv, [Next]_vars PROVE NumberInv'
  OBVIOUS
<1> USE IdleIsOut DEF Numbers
<1>1. /\ row.outcome = "booked" => orders # {} \/ garbled
      /\ row.order \in Numbers
  BY DEF NumberInv, BookedHasAnOrder
<1>2. ASSUME NEW q \in Requests, \A r \in Requests \ {q} : req'[r] = req[r],
             orders \subseteq orders', garbled => garbled',
             row'.outcome = "booked" => orders # {} \/ garbled, row'.order \in Numbers,
             req'[q].row.outcome = "booked" => orders' # {} \/ garbled',
             req'[q].stage = "booked" => orders' # {} \/ garbled',
             req'[q].row.order \in Numbers', req'[q].reference \in Numbers'
      PROVE  NumberInv'
  <2>1. Numbers \subseteq Numbers' /\ (orders # {} \/ garbled => orders' # {} \/ garbled')
    BY <1>2
  <2>2. BookedHasAnOrder'
    BY <1>2, <2>1 DEF BookedHasAnOrder
  <2> QED
    BY <1>2, <2>1, <2>2 DEF NumberInv
<1>3. ASSUME NEW q \in Requests, Finish(q), UNCHANGED <<orders, garbled>>,
             row'.outcome = "booked" => orders # {} \/ garbled, row'.order \in Numbers
      PROVE  NumberInv'
  BY <1>2, <1>3, FinishTypes
<1>4. ASSUME NEW q \in Requests, Start(q) PROVE NumberInv'
  <2>1. req'[q].row \in {row, NewRow} /\ Idle.row = NewRow
    BY <1>4, Starts DEF Idle
  <2> QED
    BY <1>1, <1>2, <1>4, <2>1, Starts
<1>5. ASSUME NEW q \in Requests, ReadJobs(q) PROVE NumberInv'
  <2>1. /\ req'[q].row = req[q].row /\ req'[q].reference = req[q].row.order
        /\ req'[q].stage \in {"call", "commit"}
        /\ \A r \in Requests \ {q} : req'[r] = req[r]
    BY <1>5, Reads
  <2> QED
    BY <1>1, <1>2, <1>5, <2>1, ZenonT(30) DEF ReadJobs, NumberInv
<1>6. ASSUME NEW q \in Requests, CarrierTakes(q) PROVE NumberInv'
  <2>1. PICK n \in OrderNos :
          /\ orders' = orders \cup {[no |-> n, booked |-> Versions(q)]}
          /\ req'[q].reference \in {n, Nothing, req[q].reference}
    BY <1>6, Takes
  <2>2. n \in Numbers' /\ orders' # {} /\ orders \subseteq orders' /\ Numbers \subseteq Numbers'
    <3> DEFINE o == [no |-> n, booked |-> Versions(q)]
    <3>1. o.no = n /\ orders' = orders \cup {o}
      BY <2>1
    <3> HIDE DEF o
    <3> QED
      BY <3>1
  <2>3. req'[q].row = req[q].row /\ \A r \in Requests \ {q} : req'[r] = req[r]
    BY <1>6, Takes
  <2> QED
    BY <1>1, <1>2, <1>6, <2>1, <2>2, <2>3 DEF CarrierTakes, NumberInv
<1>7. ASSUME NEW q \in Requests, CarrierRefuses(q) PROVE NumberInv'
  <2>1. /\ \A r \in Requests \ {q} : req'[r] = req[r]
        /\ req'[q].row = req[q].row /\ req'[q].reference = req[q].reference
        /\ req'[q].stage = "failed"
    BY <1>7, ToTypes, Parts DEF CarrierRefuses, Request
  <2> QED
    BY <1>1, <1>2, <1>7, <2>1 DEF CarrierRefuses, NumberInv
<1>8. ASSUME NEW q \in Requests, CommitBooked(q) PROVE NumberInv'
  <2>1. orders # {} \/ garbled
    BY <1>8, Parts DEF CommitBooked, Booked, NumberInv, Booking, Kind
  <2>2. row'.order \in Numbers
    BY <1>1, <1>8 DEF CommitBooked, Save, NumberInv, Types, Row
  <2> QED
    BY <1>3, <1>8, <2>1, <2>2 DEF CommitBooked
<1>9. ASSUME NEW q \in Requests, CommitFailed(q) PROVE NumberInv'
  <2>1. row'.order = row.order /\ row'.outcome \in {"failed", row.outcome}
    BY <1>9 DEF CommitFailed, Save, Types, Row
  <2> QED
    BY <1>1, <1>3, <1>9, <2>1 DEF CommitFailed
<1>10. ASSUME NEW q \in Requests,
              \/ Reject(q) \/ CommitApprove(q) \/ CommitEdit(q) \/ CommitArrange(q)
              \/ CommitApply(q) \/ CommitDismiss(q) \/ CommitCsv(q) \/ CommitCancel(q)
              \/ CommitReopen(q) \/ Die(q)
       PROVE  NumberInv'
  <2>1. Finish(q) /\ UNCHANGED <<orders, garbled>> /\ row'.order = row.order /\ row'.outcome = row.outcome
    BY <1>10 DEF Reject, CommitApprove, CommitEdit, CommitArrange, CommitApply, CommitDismiss,
                 CommitCsv, CommitCancel, CommitReopen, Die, Commit, Types, Row
  <2> QED
    BY <1>1, <1>3, <2>1
<1>11. CASE UNCHANGED vars
  BY <1>11 DEF vars, NumberInv, BookedHasAnOrder
<1>12. ASSUME NEW q \in Requests, CarrierGarbles(q) PROVE NumberInv'
  <2>1. /\ \A r \in Requests \ {q} : req'[r] = req[r]
        /\ req'[q].row = req[q].row /\ req'[q].reference = Nothing
    BY <1>12, Garbles
  <2>2. UNCHANGED <<row, orders>> /\ garbled'
    BY <1>12 DEF CarrierGarbles
  <2> QED
    BY <1>1, <1>2, <2>1, <2>2 DEF NumberInv
<1> QED
  BY <1>4, <1>5, <1>6, <1>7, <1>8, <1>9, <1>10, <1>11, <1>12 DEF Next, Step

(* A manifest that says it is booked has an order at the carrier, unless   *)
(* an answer that was not the carrier's JSON passed for a success, and its *)
(* number is that of an order: not even a booking that overlapped another, *)
(* found the manifest booked or took such an answer writes a number nobody *)
(* gave.                                                                   *)
THEOREM BookingsHaveOrders == Spec => []BookedHasAnOrder
<1>1. Init => NumberInv
  BY IdleIsOut DEF Init, NumberInv, BookedHasAnOrder, Numbers, NewRow
<1>2. NumberInv => BookedHasAnOrder
  BY DEF NumberInv
<1> QED
  BY <1>1, <1>2, TypesHold, NumberStep, PTL DEF Spec

-----------------------------------------------------------------------------
(* One order, as long as one booking runs at a time and no answer is lost. *)

OneBooking == \A q, r \in Requests : Booking(q) /\ Booking(r) => q = r

OrderInv ==
    lost \/ "order" \in overlap \/
    /\ OneBooking
    /\ \A q \in Requests : Booking(q) => req[q].row.outcome = row.outcome
    /\ orders # {} => row.outcome = "booked" \/ \E q \in Requests : req[q].stage = "booked"
    /\ Cardinality(orders) <= 1

(* Requests other than bookings leave the bookings alone.                  *)
LEMMA OrderStep == Types /\ OrderInv /\ [Next]_vars => OrderInv'
<1> SUFFICES ASSUME Types, OrderInv, [Next]_vars, ~ lost', "order" \notin overlap'
             PROVE  OrderInv'
  BY DEF OrderInv
<1> USE IdleIsOut
<1>1. ASSUME ~ lost, "order" \notin overlap
      PROVE  /\ OneBooking
             /\ \A q \in Requests : Booking(q) => req[q].row.outcome = row.outcome
             /\ orders # {} => row.outcome = "booked" \/ \E q \in Requests : req[q].stage = "booked"
             /\ Cardinality(orders) <= 1
  BY <1>1 DEF OrderInv
<1>2. ASSUME NEW q \in Requests, Start(q) PROVE OrderInv'
  <2>1. ~ lost /\ "order" \notin overlap
    BY <1>2, Starts
  <2>2. \A r \in Requests \ {q} : (Booking(r)' <=> Booking(r)) /\ req'[r] = req[r]
    BY <1>2, Starts DEF Booking
  <2>3. \A r \in Requests \ {q} : Booking(q)' => ~ Booking(r)
    BY <1>2, Starts
  <2>4. OneBooking'
    BY <1>1, <2>1, <2>2, <2>3 DEF OneBooking
  <2>5. req[q].stage # "booked" /\ (Booking(q)' => req'[q].row = row) /\ UNCHANGED <<row, orders>>
    BY <1>2, Starts, Parts
  <2>6. orders' # {} => row'.outcome = "booked" \/ \E r \in Requests : req'[r].stage = "booked"
    BY <1>1, <2>1, <2>2, <2>5
  <2> QED
    BY <1>1, <2>1, <2>2, <2>4, <2>5, <2>6 DEF OrderInv
<1>3. ASSUME NEW q \in Requests, Step(q)
      PROVE  /\ ~ lost /\ "order" \notin overlap
             /\ \A r \in Requests : Booking(r)' => Booking(r) /\ req'[r].row = req[r].row
             /\ \A r \in Requests \ {q} : req'[r] = req[r]
             /\ OneBooking'
  <2>1. ~ lost /\ "order" \notin overlap
    BY <1>3, Goes
  <2>2. \A r \in Requests : Booking(r)' => Booking(r) /\ req'[r].row = req[r].row
    BY <1>3, Goes DEF Booking
  <2> QED
    BY <1>1, <1>3, <2>1, <2>2, Goes DEF OneBooking
<1>4. ASSUME NEW q \in Requests, Step(q), UNCHANGED orders, row'.outcome = row.outcome,
             req[q].stage = "booked" => req'[q].stage = "booked"
      PROVE  OrderInv'
  BY <1>1, <1>3, <1>4 DEF OrderInv
<1>5. ASSUME NEW q \in Requests, CarrierTakes(q) PROVE OrderInv'
  <2>1. Step(q)
    BY <1>5 DEF Step
  <2>2. Booking(q) /\ req[q].row.outcome # "booked" /\ req[q].stage = "call"
    BY <1>5, Takes DEF CarrierTakes
  <2>3. \A r \in Requests : req[r].stage = "booked" => Booking(r)
    BY Parts
  <2>4. orders = {}
    BY <1>1, <1>3, <2>1, <2>2, <2>3 DEF OneBooking
  <2>5. Cardinality(orders') = 1
    BY <1>5, <2>4, Takes
  <2>6. req'[q].stage = "booked" \/ lost'
    BY <1>5, Takes
  <2>7. row' = row
    BY <1>5 DEF CarrierTakes
  <2> QED
    BY <1>1, <1>3, <2>1, <2>5, <2>6, <2>7 DEF OrderInv
<1>6. ASSUME NEW q \in Requests, CommitBooked(q) PROVE OrderInv'
  <2>1. Step(q)
    BY <1>6 DEF Step
  <2>2. Booking(q)
    BY <1>6, Parts DEF CommitBooked, Booked, Booking, Kind
  <2>3. row'.outcome = "booked" /\ UNCHANGED orders
    BY <1>1, <1>3, <1>6, <2>1, <2>2 DEF CommitBooked, Save, Types, Row
  <2>4. req'[q] = Idle
    BY <1>6, FinishTypes DEF CommitBooked
  <2>5. \A r \in Requests : ~ Booking(r)'
    BY <1>1, <1>3, <2>1, <2>2, <2>4 DEF OneBooking, Booking
  <2> QED
    BY <1>1, <1>3, <2>1, <2>3, <2>5 DEF OrderInv
<1>7. ASSUME NEW q \in Requests, CommitFailed(q) PROVE OrderInv'
  <2>1. Step(q)
    BY <1>7 DEF Step
  <2>2. Booking(q) /\ req[q].row.outcome # "booked" /\ req[q].stage # "booked"
    BY <1>7, Parts DEF CommitFailed
  <2>3. \A r \in Requests : req[r].stage = "booked" => Booking(r)
    BY Parts
  <2>4. orders = {}
    BY <1>1, <1>3, <2>1, <2>2, <2>3 DEF OneBooking
  <2>5. req'[q] = Idle /\ UNCHANGED orders
    BY <1>7, FinishTypes DEF CommitFailed
  <2>6. \A r \in Requests : ~ Booking(r)'
    BY <1>1, <1>3, <2>1, <2>2, <2>5 DEF OneBooking, Booking
  <2> QED
    BY <1>1, <1>3, <2>1, <2>4, <2>5, <2>6 DEF OrderInv
<1>8. ASSUME NEW q \in Requests,
             \/ Reject(q) \/ ReadJobs(q) \/ CarrierRefuses(q) \/ CarrierGarbles(q)
             \/ CommitApprove(q)
             \/ CommitEdit(q) \/ CommitArrange(q) \/ CommitApply(q) \/ CommitDismiss(q)
             \/ CommitCsv(q) \/ CommitCancel(q) \/ CommitReopen(q)
      PROVE  OrderInv'
  <2>1. UNCHANGED orders /\ row'.outcome = row.outcome /\ req[q].stage # "booked"
    BY <1>8 DEF Reject, ReadJobs, CarrierRefuses, CarrierGarbles, CommitApprove, CommitEdit,
                CommitArrange, CommitApply, CommitDismiss, CommitCsv, CommitCancel, CommitReopen, Commit,
                Types, Row
  <2>2. Step(q)
    BY <1>8 DEF Step
  <2> QED
    BY <1>4, <2>1, <2>2
<1>9. ASSUME NEW q \in Requests, Die(q) PROVE OrderInv'
  <2>1. UNCHANGED <<orders, row>> /\ req[q].stage # "booked" /\ Step(q)
    BY <1>9 DEF Die, Step
  <2> QED
    BY <1>4, <2>1
<1>10. CASE UNCHANGED vars
  BY <1>10 DEF vars, OrderInv, OneBooking, Booking
<1> QED
  BY <1>2, <1>5, <1>6, <1>7, <1>8, <1>9, <1>10 DEF Next, Step

(* The carrier gets a second order for a manifest only if two bookings ran *)
(* at the same time or an answer was lost: a failure, a retry, a CSV       *)
(* export, a cancellation and a reopening never make one.                  *)
THEOREM SecondOrdersHaveACause == Spec => []SecondOrderHasACause
<1>1. Init => OrderInv
  BY IdleIsOut, FS_EmptySet DEF Init, OrderInv, OneBooking, Booking
<1>2. Types /\ OrderInv => SecondOrderHasACause
  BY FS_CardinalityType DEF Types, OrderInv, SecondOrderHasACause
<1> QED
  BY <1>1, <1>2, TypesHold, OrderStep, PTL DEF Spec

-----------------------------------------------------------------------------
(* Locks: exports and cancellations that do not overlap.                   *)

Apart ==
    /\ \A q, r \in Requests : ~ (Exporting(q) /\ Unlocking(r))
    /\ row.at => \A q \in Requests : ~ Unlocking(q)
    /\ row.status = "cancelled" => ~ row.at /\ \A q \in Requests : ~ Exporting(q)
    /\ row.at => \A j \in Jobs : job[j].locked
    /\ \A q \in Requests, j \in Jobs :
         Exporting(q) /\ req[q].jobs[j].locked => job[j].locked
    /\ orders # {} => lost \/ row.at \/ \E q \in Requests : req[q].stage = "booked"

LockInv ==
    /\ row.status = "exported" => row.at
    /\ \A q \in Requests : req[q].row.status = "exported" => row.at
    /\ "lock" \in overlap \/ Apart

(* What the commits leave of the locks.                                    *)
LEMMA LocksWritten ==
  ASSUME Types, NEW q \in Requests
  PROVE  \A j \in Jobs :
           /\ Manifested(q)[j].locked = (job[j].locked \/ ~ req[q].jobs[j].locked)
           /\ Manifested(q)[j].text = job[j].text
           /\ \A b \in BOOLEAN : SaveLocked(q, b)[j].text = job[j].text
<1>1. \A j \in Jobs : /\ job[j] \in Job /\ req[q].jobs[j] \in Job
                      /\ job[j].locked \in BOOLEAN /\ req[q].jobs[j].locked \in BOOLEAN
  BY Parts DEF Job
<1>2. ASSUME NEW j \in Jobs
      PROVE  Manifested(q)[j].locked = (job[j].locked \/ ~ req[q].jobs[j].locked)
  <2>1. Manifested(q)[j].locked = Save(req[q].jobs[j].locked, TRUE, job[j].locked)
    BY <1>1 DEF Manifested, Job
  <2> QED
    BY <1>1, <2>1 DEF Save
<1>3. \A j \in Jobs : Manifested(q)[j].text = job[j].text
  BY <1>1 DEF Manifested, Job
<1>4. \A j \in Jobs, b \in BOOLEAN : SaveLocked(q, b)[j].text = job[j].text
  BY <1>1 DEF SaveLocked, Job
<1> QED
  BY <1>2, <1>3, <1>4

(* exported_at is never taken back.                                        *)
LEMMA ExportStays ==
  ASSUME Types, LockInv, [Next]_vars
  PROVE  /\ row.at => row'.at
         /\ row'.status = "exported" => row'.at
         /\ \A q \in Requests : req'[q].row.status = "exported" => row'.at
<1> USE IdleIsOut
<1>1. row' = row \/ (\E q \in Requests : CommitArrange(q) \/ CommitCsv(q) \/ CommitBooked(q)
                                     \/ CommitFailed(q) \/ CommitCancel(q) \/ CommitReopen(q))
  <2>1. ASSUME NEW q \in Requests, Start(q) PROVE row' = row
    BY <2>1, Starts
  <2>2. ASSUME NEW q \in Requests, Step(q)
        PROVE  \/ row' = row
               \/ CommitArrange(q) \/ CommitCsv(q) \/ CommitBooked(q)
               \/ CommitFailed(q) \/ CommitCancel(q) \/ CommitReopen(q)
    BY <2>2 DEF Step, Reject, ReadJobs, CarrierTakes, CarrierRefuses, CarrierGarbles,
                CommitApprove, CommitEdit, CommitApply, CommitDismiss, Die
  <2> QED
    BY <2>1, <2>2 DEF Next, vars
<1>2. /\ row' = row \/ row'.at = row.at \/ row'.at = TRUE
      /\ row.at => row'.at
      /\ row'.status = "exported" => row.status = "exported" \/ row'.at
  <2>1. CASE row' = row
    BY <2>1
  <2>2. ASSUME NEW q \in Requests, CommitArrange(q) \/ CommitFailed(q)
        PROVE  row'.at = row.at /\ row'.status = row.status
    BY <2>2 DEF CommitArrange, CommitFailed, Types, Row
  <2>3. ASSUME NEW q \in Requests, CommitCsv(q) \/ CommitBooked(q) PROVE row'.at = TRUE
    BY <2>3 DEF CommitCsv, CommitBooked, Types, Row
  <2>4. ASSUME NEW q \in Requests, CommitCancel(q) \/ CommitReopen(q)
        PROVE  row'.at = row.at /\ row'.status # "exported"
    BY <2>4 DEF CommitCancel, CommitReopen, Types, Row
  <2> QED
    BY <1>1, <2>1, <2>2, <2>3, <2>4
<1>3. row'.status = "exported" => row'.at
  BY <1>2 DEF LockInv
<1>4. ASSUME NEW q \in Requests
      PROVE  req'[q].row.status \in {req[q].row.status, row.status, "open"}
  <2>1. NewRow.status = "open"
    BY DEF NewRow
  <2>2. ASSUME NEW r \in Requests, Start(r) PROVE req'[q].row \in {req[q].row, row, NewRow}
    BY <2>2, Starts
  <2>3. ASSUME NEW r \in Requests, Step(r) PROVE req'[q].row \in {req[q].row, Idle.row}
    BY <2>3, Goes
  <2> QED
    BY <2>1, <2>2, <2>3 DEF Next, vars
<1> QED
  BY <1>2, <1>3, <1>4 DEF LockInv

(* Without such an overlap, an export keeps the locks and nothing takes     *)
(* them away.                                                              *)
LEMMA LockStep == Types /\ LockInv /\ [Next]_vars => LockInv'
<1> SUFFICES ASSUME Types, LockInv, [Next]_vars, "lock" \notin overlap' PROVE Apart'
  BY ExportStays DEF LockInv
<1> USE IdleIsOut
<1>1. ASSUME "lock" \notin overlap PROVE Apart
  BY <1>1 DEF LockInv
<1>2. ASSUME NEW q \in Requests, Start(q) PROVE Apart'
  <2>1. Apart /\ UNCHANGED <<row, job, orders, lost>>
    BY <1>1, <1>2, Starts
  <2>2. \A r \in Requests \ {q} : /\ req'[r] = req[r]
                                  /\ (Exporting(r)' <=> Exporting(r))
                                  /\ (Unlocking(r)' <=> Unlocking(r))
    BY <1>2, Starts DEF Exporting, Unlocking, Booking
  <2>3. \A r \in Requests \ {q} : /\ Exporting(q)' => ~ Unlocking(r)
                                  /\ Unlocking(q)' => ~ Exporting(r)
    BY <1>2, Starts
  <2>4. ~ (Exporting(q)' /\ Unlocking(q)')
    BY DEF Exporting, Unlocking, Booking, Kind
  <2>5. Exporting(q)' => row.status # "cancelled"
    BY <1>2, Starts DEF Exporting
  <2>6. Unlocking(q)' => ~ row.at
    BY <1>2, <2>1, Starts DEF Unlocking, Apart
  <2>7. \A j \in Jobs : ~ req'[q].jobs[j].locked
    BY <1>2, Starts DEF Blank
  <2>8. \A r, p \in Requests : ~ (Exporting(r)' /\ Unlocking(p)')
    BY <2>1, <2>2, <2>3, <2>4 DEF Apart
  <2>9. req[q].stage # "booked"
    BY <1>2, Starts, Parts
  <2>10. orders # {} => lost \/ row.at \/ \E r \in Requests : req'[r].stage = "booked"
    BY <2>1, <2>2, <2>9 DEF Apart
  <2> QED
    BY <2>1, <2>2, <2>5, <2>6, <2>7, <2>8, <2>10 DEF Apart
<1>3. ASSUME NEW q \in Requests, Step(q)
      PROVE  /\ Apart
             /\ \A r \in Requests : /\ Exporting(r)' => Exporting(r)
                                    /\ Unlocking(r)' => Unlocking(r)
             /\ \A r, p \in Requests : ~ (Exporting(r)' /\ Unlocking(p)')
             /\ \A r \in Requests \ {q} : req'[r] = req[r]
             /\ lost => lost'
  <2>1. Apart
    BY <1>1, <1>3, Goes
  <2>2. \A r \in Requests : /\ Exporting(r)' => Exporting(r)
                            /\ Unlocking(r)' => Unlocking(r)
    BY <1>3, Goes DEF Exporting, Unlocking, Booking
  <2> QED
    BY <1>3, <2>1, <2>2, Goes DEF Apart
(* The manifest stays as it is, and so do the locks.                       *)
<1>4. ASSUME NEW q \in Requests, Step(q), row'.at = row.at, row'.status = row.status,
             \A j \in Jobs : job'[j].locked = job[j].locked,
             orders' # {} => orders # {} \/ lost' \/ req'[q].stage = "booked",
             req[q].stage = "booked" => req'[q].stage = "booked" \/ lost',
             \A j \in Jobs : \/ ~ req'[q].jobs[j].locked
                             \/ req'[q].jobs[j].locked = req[q].jobs[j].locked
                             \/ req'[q].jobs[j].locked = job[j].locked
      PROVE  Apart'
  <2>1. orders' # {} => lost' \/ row'.at \/ \E r \in Requests : req'[r].stage = "booked"
    BY <1>3, <1>4 DEF Apart
  <2>2. \A r \in Requests, j \in Jobs : Exporting(r)' /\ req'[r].jobs[j].locked => job'[j].locked
    BY <1>3, <1>4 DEF Apart
  <2> QED
    BY <1>3, <1>4, <2>1, <2>2 DEF Apart
(* A booking or a CSV export is written.                                   *)
<1>5. ASSUME NEW q \in Requests, Step(q), Exporting(q), row'.at,
             row'.status \in {"exported", row.status},
             \/ row.at /\ job' = job
             \/ job' = Manifested(q)
      PROVE  Apart'
  <2>1. row'.status # "cancelled"
    BY <1>3, <1>5 DEF Apart
  <2>2. \A j \in Jobs : job'[j].locked
    BY <1>3, <1>5, LocksWritten DEF Apart
  <2>3. \A r \in Requests : ~ Unlocking(r)'
    BY <1>3, <1>5 DEF Apart
  <2> QED
    BY <1>3, <1>5, <2>1, <2>2, <2>3 DEF Apart
<1>6. ASSUME NEW q \in Requests, CommitBooked(q) PROVE Apart'
  <2>1. Step(q) /\ Exporting(q)
    BY <1>6, Parts DEF CommitBooked, Booked, Booking, Kind, Exporting, Step
  <2>2. row'.at /\ row'.status \in {"exported", row.status}
    BY <1>6 DEF CommitBooked, Save, Types, Row
  <2>3. (row.at /\ job' = job) \/ job' = Manifested(q)
    BY <1>6 DEF CommitBooked, LockInv
  <2> QED
    BY <1>5, <2>1, <2>2, <2>3
<1>7. ASSUME NEW q \in Requests, CommitCsv(q) PROVE Apart'
  <2>1. Step(q) /\ Exporting(q)
    BY <1>7 DEF CommitCsv, Commit, Exporting, Step
  <2>2. row'.at /\ row'.status = row.status /\ job' = Manifested(q)
    BY <1>7 DEF CommitCsv, Types, Row
  <2> QED
    BY <1>5, <2>1, <2>2
<1>8. ASSUME NEW q \in Requests, CommitCancel(q) \/ CommitReopen(q) PROVE Apart'
  <2>1. Step(q) /\ Unlocking(q) /\ UNCHANGED <<orders, lost>>
    BY <1>8 DEF CommitCancel, CommitReopen, Commit, Unlocking, Step
  <2>2. ~ row.at /\ \A r \in Requests : ~ Exporting(r)
    BY <1>3, <2>1 DEF Apart
  <2>3. row'.at = row.at
    BY <1>8 DEF CommitCancel, CommitReopen, Types, Row
  <2>4. \A r \in Requests : req[r].stage # "booked"
    BY <2>2, Parts DEF Exporting
  <2>5. orders' # {} => lost'
    BY <1>3, <2>1, <2>2, <2>4 DEF Apart
  <2> QED
    BY <1>3, <2>1, <2>2, <2>3, <2>5 DEF Apart
<1>9. ASSUME NEW q \in Requests, ReadJobs(q) PROVE Apart'
  <2>1. Step(q) /\ UNCHANGED <<row, job, orders>> /\ req[q].stage = "jobs"
    BY <1>9 DEF ReadJobs, Step
  <2>2. \A j \in Jobs : req'[q].jobs[j].locked = job[j].locked
    BY <1>9, Reads
  <2> QED
    BY <1>4, <2>1, <2>2
<1>10. ASSUME NEW q \in Requests, CarrierTakes(q) PROVE Apart'
  <2>1. Step(q) /\ UNCHANGED <<row, job>> /\ req[q].stage = "call"
    BY <1>10 DEF CarrierTakes, Step
  <2>2. req'[q].jobs = req[q].jobs /\ (lost' \/ req'[q].stage = "booked")
    BY <1>10, Takes
  <2> QED
    BY <1>4, <2>1, <2>2
<1>11. ASSUME NEW q \in Requests, CarrierRefuses(q) PROVE Apart'
  <2>1. Step(q) /\ UNCHANGED <<row, job, orders>> /\ req[q].stage = "call"
    BY <1>11 DEF CarrierRefuses, Step
  <2>2. req'[q].jobs = req[q].jobs
    <3>1. req'[q] = [req[q] EXCEPT !.stage = "failed"] /\ req[q] \in Request
      BY <1>11, <2>1, ToTypes, Parts DEF CarrierRefuses
    <3> QED
      BY <3>1 DEF Request
  <2> QED
    BY <1>4, <2>1, <2>2
<1>12. ASSUME NEW q \in Requests,
              \/ Reject(q) \/ CommitApprove(q) \/ CommitEdit(q) \/ CommitArrange(q)
              \/ CommitApply(q) \/ CommitDismiss(q) \/ CommitFailed(q) \/ Die(q)
       PROVE  Apart'
  <2>1. Step(q) /\ UNCHANGED orders /\ req'[q] = Idle
    BY <1>12, FinishTypes DEF Step, Reject, CommitApprove, CommitEdit, CommitArrange,
         CommitApply, CommitDismiss, CommitFailed, Die, Commit
  <2>2. row'.at = row.at /\ row'.status = row.status
    BY <1>12 DEF Reject, CommitApprove, CommitEdit, CommitArrange, CommitApply, CommitDismiss,
                 CommitFailed, Die, Commit, Types, Row
  <2>3. req[q].stage = "booked" => lost'
    BY <1>12 DEF Reject, CommitApprove, CommitEdit, CommitArrange, CommitApply, CommitDismiss,
                 CommitFailed, Die, Commit
  <2>4. \A j \in Jobs : job'[j].locked = job[j].locked
    <3>1. CASE job' = job
      BY <3>1
    <3>2. CASE CommitApprove(q)
      BY <3>2, Parts DEF CommitApprove, Types, Job
    <3>3. CASE CommitEdit(q)
      BY <3>3, Parts DEF CommitEdit, Types, Job
    <3>4. CASE CommitApply(q)
      BY <3>4, Parts, ZenonT(30) DEF CommitApply, Types, Job
    <3> QED
      BY <1>12, <3>1, <3>2, <3>3, <3>4 DEF Reject, CommitArrange, CommitDismiss, CommitFailed, Die
  <2> QED
    BY <1>4, <2>1, <2>2, <2>3, <2>4
<1>13. CASE UNCHANGED vars
  <2>1. Apart /\ vars' = vars
    BY <1>1, <1>13 DEF vars
  <2> QED
    BY <2>1 DEF vars, Apart, Exporting, Unlocking, Booking
<1>14. ASSUME NEW q \in Requests, CarrierGarbles(q) PROVE Apart'
  <2>1. Step(q) /\ UNCHANGED <<row, job, orders>> /\ req[q].stage = "call"
    BY <1>14 DEF CarrierGarbles, Step
  <2>2. req'[q].jobs = req[q].jobs
    BY <1>14, Garbles
  <2> QED
    BY <1>4, <2>1, <2>2
<1> QED
  BY <1>2, <1>6, <1>7, <1>8, <1>9, <1>10, <1>11, <1>12, <1>13, <1>14 DEF Next, Step

(* The locks of every reachable state.                                     *)
LEMMA LocksHold == Spec => []LockInv
<1>1. Init => LockInv
  BY IdleIsOut DEF Init, LockInv, Apart, Exporting, Unlocking, Booking, NewRow
<1> QED
  BY <1>1, TypesHold, LockStep, PTL DEF Spec

(* A cancelled manifest has no order at the carrier, unless it was booked  *)
(* while the cancellation ran or the carrier's answer was lost.            *)
THEOREM CancelledIsFree == Spec => []CancelledIsNotBooked
<1>1. Types /\ LockInv => CancelledIsNotBooked
  BY Parts DEF LockInv, Apart, CancelledIsNotBooked, Exporting
<1> QED
  BY <1>1, TypesHold, LocksHold, PTL

(* An exported manifest has all its jobs locked, unless a cancellation or  *)
(* a reopening overlapped the export: what was booked cannot be edited.    *)
THEOREM ExportLocks == Spec => []ExportedIsLocked
<1>1. LockInv => ExportedIsLocked
  BY DEF LockInv, Apart, ExportedIsLocked
<1> QED
  BY <1>1, LocksHold, PTL

-----------------------------------------------------------------------------
(* What is booked is what is shown.                                        *)

(* An edit that runs beside a booking is excused.                          *)
ExcuseInv ==
    \A q, r \in Requests : Booking(q) /\ Editing(r) => req[r].version \in excused

(* No step lets an edit run beside a booking without excuse.               *)
LEMMA ExcuseStep == Types /\ ExcuseInv /\ [Next]_vars => ExcuseInv'
<1> SUFFICES ASSUME Types, ExcuseInv, [Next]_vars PROVE ExcuseInv'
  OBVIOUS
<1> USE IdleIsOut
<1>1. ASSUME NEW q \in Requests, Start(q) PROVE ExcuseInv'
  <2>1. \A r \in Requests \ {q} : /\ req'[r] = req[r]
                                  /\ (Booking(r)' <=> Booking(r))
                                  /\ (Editing(r)' <=> Editing(r))
    BY <1>1, Starts DEF Editing, Booking
  <2>2. ~ (Booking(q)' /\ Editing(q)')
    BY DEF Booking, Editing, Kind, Edits
  <2>3. /\ excused \subseteq excused'
        /\ \A r \in Requests \ {q} :
             /\ Booking(q)' /\ Editing(r) => req[r].version \in excused'
             /\ Editing(q)' /\ Booking(r) => req'[q].version \in excused'
    BY <1>1, Starts
  <2> QED
    BY <2>1, <2>2, <2>3 DEF ExcuseInv
<1>2. ASSUME NEW q \in Requests, Step(q) PROVE ExcuseInv'
  <2>1. \A r \in Requests :
          /\ Booking(r)' => Booking(r)
          /\ Editing(r)' => Editing(r) /\ req'[r].version = req[r].version
    BY <1>2, Goes DEF Editing, Booking
  <2>2. excused \subseteq excused'
    BY <1>2, Goes
  <2> QED
    BY <2>1, <2>2 DEF ExcuseInv
<1>3. CASE UNCHANGED vars
  BY <1>3 DEF vars, ExcuseInv, Booking, Editing
<1> QED
  BY <1>1, <1>2, <1>3 DEF Next

(* What a request that goes on writes of the fields: an edit its version.  *)
LEMMA Writes ==
  ASSUME Types, NEW q \in Requests, Step(q)
  PROVE  /\ \/ row'.plan = row.plan
            \/ Editing(q) /\ row'.plan = req[q].version
         /\ \A j \in Jobs : \/ job'[j].text = job[j].text
                            \/ Editing(q) /\ job'[j].text = req[q].version
<1>1. CASE CommitArrange(q)
  <2>1. row'.plan = req[q].version /\ job' = job /\ Editing(q)
    BY <1>1 DEF CommitArrange, Commit, Editing, Edits, Types, Row
  <2> QED
    BY <2>1
<1>2. CASE CommitEdit(q) \/ CommitApply(q)
  <2>1. row' = row /\ Editing(q)
    BY <1>2 DEF CommitEdit, CommitApply, Commit, Editing, Edits
  <2>2. ASSUME NEW j \in Jobs PROVE job'[j].text \in {job[j].text, req[q].version}
    <3>1. CASE CommitEdit(q)
      BY <3>1, Parts DEF CommitEdit, Types, Job
    <3>2. CASE CommitApply(q)
      BY <3>2, Parts, ZenonT(30) DEF CommitApply, Types, Job
    <3> QED
      BY <1>2, <3>1, <3>2
  <2> QED
    BY <2>1, <2>2
<1>3. CASE CommitApprove(q)
  <2>1. row' = row /\ \A j \in Jobs : job'[j].text = job[j].text
    BY <1>3, Parts DEF CommitApprove, Types, Job
  <2> QED
    BY <2>1
<1>4. CASE CommitCsv(q) \/ CommitBooked(q) \/ CommitCancel(q) \/ CommitReopen(q)
  <2>1. row'.plan = row.plan
    BY <1>4 DEF CommitCsv, CommitBooked, CommitCancel, CommitReopen, Types, Row
  <2>2. \/ job' = job \/ job' = Manifested(q)
        \/ \E b \in BOOLEAN : job' = SaveLocked(q, b)
    BY <1>4 DEF CommitCsv, CommitBooked, CommitCancel, CommitReopen
  <2>3. \A j \in Jobs : job'[j].text = job[j].text
    BY <2>2, LocksWritten
  <2> QED
    BY <2>1, <2>3
<1>5. CASE CommitFailed(q)
  <2>1. row'.plan = row.plan /\ job' = job
    BY <1>5 DEF CommitFailed, Types, Row
  <2> QED
    BY <2>1
<1>6. CASE UNCHANGED <<row, job>>
  BY <1>6
<1> QED
  BY <1>1, <1>2, <1>3, <1>4, <1>5, <1>6 DEF Step, Reject, ReadJobs, CarrierTakes,
     CarrierRefuses, CarrierGarbles, CommitDismiss, Die

(* A field that shows what the order has goes on doing so as long as what  *)
(* is written into it is excused.                                          *)
LEMMA StaysShown ==
  ASSUME NEW b, NEW now, NEW new, Shown(b, now), excused \subseteq excused',
         new = now \/ new \in excused'
  PROVE  Shown(b, new)'
  BY DEF Shown

Locked == \A j \in Jobs : job[j].locked

(* Only a reopening takes a lock away.                                     *)
LEMMA Unlocks ==
  ASSUME Types, NEW q \in Requests, Step(q), ~ CommitReopen(q)
  PROVE  \A j \in Jobs : job[j].locked => job'[j].locked
<1>1. CASE job' = job
  BY <1>1
<1>2. CASE CommitApprove(q)
  BY <1>2, Parts DEF CommitApprove, Types, Job
<1>3. CASE CommitEdit(q)
  BY <1>3, Parts DEF CommitEdit, Types, Job
<1>4. CASE CommitApply(q)
  BY <1>4, Parts, ZenonT(30) DEF CommitApply, Types, Job
<1>5. CASE job' = Manifested(q)
  BY <1>5, LocksWritten
<1>6. CASE CommitCancel(q)
  <2>1. job' = SaveLocked(q, TRUE)
    BY <1>6 DEF CommitCancel
  <2>2. ASSUME NEW j \in Jobs, job[j].locked PROVE SaveLocked(q, TRUE)[j].locked
    <3>1. job[j] \in Job /\ job[j].locked \in BOOLEAN
      BY Parts DEF Job
    <3>2. SaveLocked(q, TRUE)[j].locked = Save(req[q].jobs[j].locked, TRUE, job[j].locked)
      BY <3>1 DEF SaveLocked, Job
    <3> QED
      BY <2>2, <3>2 DEF Save
  <2> QED
    BY <2>1, <2>2
<1> QED
  BY <1>1, <1>2, <1>3, <1>4, <1>5, <1>6 DEF Step, Reject, ReadJobs, CarrierTakes,
     CarrierRefuses, CarrierGarbles, CommitArrange, CommitDismiss, CommitCsv, CommitBooked,
     CommitFailed, Die

(* Until a booked manifest is reopened, or one that is being booked, its   *)
(* jobs are locked and it is not open, and so a booking that found it      *)
(* exported still does.                                                    *)
ReopenInv ==
    reopened \/
    /\ row.outcome = "booked" => row.status # "open"
    /\ row.status = "exported" \/ row.outcome = "booked" => Locked
    /\ \A q \in Requests : Booking(q) =>
         /\ req[q].row.status = "exported" => row.status # "open" /\ Locked
         /\ req[q].stage # "jobs" =>
              \A j \in Jobs : req[q].jobs[j].locked => job[j].locked

(* Only a reopening opens what was booked or loosens its locks.            *)
LEMMA ReopenStep == Types /\ ReopenInv /\ [Next]_vars => ReopenInv'
<1> SUFFICES ASSUME Types, ReopenInv, [Next]_vars, ~ reopened' PROVE ReopenInv'
  BY DEF ReopenInv
<1> USE IdleIsOut
<1>1. ASSUME ~ reopened
      PROVE  /\ row.outcome = "booked" => row.status # "open"
             /\ row.status = "exported" \/ row.outcome = "booked" => Locked
             /\ \A q \in Requests : Booking(q) =>
                  /\ req[q].row.status = "exported" => row.status # "open" /\ Locked
                  /\ req[q].stage # "jobs" =>
                       \A j \in Jobs : req[q].jobs[j].locked => job[j].locked
  BY <1>1 DEF ReopenInv
<1>2. ASSUME NEW q \in Requests, Start(q) PROVE ReopenInv'
  <2>1. ~ reopened /\ UNCHANGED <<row, job>>
    BY <1>2, Starts
  <2>2. \A r \in Requests \ {q} : req'[r] = req[r] /\ (Booking(r)' <=> Booking(r))
    BY <1>2, Starts DEF Booking
  <2>3. Booking(q)' => req'[q].row = row /\ req'[q].stage = "jobs"
    BY <1>2, Starts
  <2>4. Locked' <=> Locked
    BY <2>1 DEF Locked
  <2>5. Booking(q)' /\ req'[q].row.status = "exported" => row'.status # "open" /\ Locked'
    BY <1>1, <2>1, <2>3, <2>4
  <2> QED
    BY <1>1, <2>1, <2>2, <2>3, <2>4, <2>5 DEF ReopenInv
<1>3. ASSUME NEW q \in Requests, Step(q)
      PROVE  /\ ~ reopened
             /\ \A r \in Requests : Booking(r)' => Booking(r) /\ req'[r].row = req[r].row
             /\ \A r \in Requests \ {q} : req'[r] = req[r]
  BY <1>3, Goes DEF Booking
(* The locks stay, and the manifest is not reopened.                       *)
<1>4. ASSUME NEW q \in Requests, Step(q), \A j \in Jobs : job[j].locked => job'[j].locked,
             row'.status \in {row.status, "cancelled"}, row'.outcome \in {row.outcome, "failed"},
             Booking(q)' /\ req'[q].stage # "jobs" =>
               \A j \in Jobs : req'[q].jobs[j].locked => job'[j].locked
      PROVE  ReopenInv'
  <2>2. Locked => Locked'
    BY <1>4 DEF Locked
  <2>3. \A r \in Requests \ {q} : Booking(r)' /\ req'[r].stage # "jobs" =>
           \A j \in Jobs : req'[r].jobs[j].locked => job'[j].locked
    BY <1>1, <1>3, <1>4
  <2>4. \A r \in Requests : Booking(r)' /\ req'[r].row.status = "exported" =>
           row'.status # "open" /\ Locked'
    BY <1>1, <1>3, <1>4, <2>2
  <2> QED
    BY <1>1, <1>3, <1>4, <2>2, <2>3, <2>4 DEF ReopenInv
<1>5. ASSUME NEW q \in Requests, CommitReopen(q) PROVE ReopenInv'
  <2>1. Step(q) /\ row.outcome # "booked" /\ Bookings = {}
    BY <1>5 DEF Step, CommitReopen
  <2>2. \A r \in Requests : ~ Booking(r)'
    <3>1. \A r \in Requests : Booking(r) => r \in Bookings
      BY Parts DEF Bookings, Running, Booking, Kind
    <3> QED
      BY <1>3, <2>1, <3>1
  <2>3. row'.status = "open" /\ row'.outcome = row.outcome
    BY <1>5 DEF CommitReopen, Types, Row
  <2> QED
    BY <2>1, <2>2, <2>3 DEF ReopenInv
<1>6. ASSUME NEW q \in Requests, CommitBooked(q) PROVE ReopenInv'
  <2>1. Step(q) /\ Booking(q) /\ req[q].stage # "jobs"
    BY <1>6, Parts DEF CommitBooked, Booked, Booking, Kind, Step
  <2>2. Locked'
    <3>1. CASE req[q].row.status = "exported"
      BY <1>1, <1>3, <1>6, <2>1, <3>1 DEF CommitBooked, Locked
    <3>2. CASE req[q].row.status # "exported"
      <4>1. job' = Manifested(q)
        BY <1>6, <3>2 DEF CommitBooked
      <4> QED
        BY <1>1, <1>3, <2>1, <4>1, LocksWritten DEF Locked
    <3> QED
      BY <3>1, <3>2
  <2>3. row'.status # "open"
    BY <1>1, <1>3, <1>6, <2>1 DEF CommitBooked, Save, Types, Row
  <2> QED
    BY <2>2, <2>3 DEF ReopenInv, Locked
<1>7. ASSUME NEW q \in Requests, ReadJobs(q) PROVE ReopenInv'
  <2>1. Step(q) /\ UNCHANGED <<row, job>>
    BY <1>7 DEF Step, ReadJobs
  <2>2. \A j \in Jobs : req'[q].jobs[j].locked = job[j].locked
    BY <1>7, Reads
  <2> QED
    BY <1>4, <2>1, <2>2
<1>8. ASSUME NEW q \in Requests, CarrierTakes(q) \/ CarrierRefuses(q) \/ CarrierGarbles(q)
      PROVE  ReopenInv'
  <2>1. Step(q) /\ UNCHANGED <<row, job>> /\ req[q].stage = "call"
    BY <1>8 DEF Step, CarrierTakes, CarrierRefuses, CarrierGarbles
  <2>2. req'[q].jobs = req[q].jobs
    <3>1. CASE CarrierRefuses(q)
      <4>1. req'[q] = [req[q] EXCEPT !.stage = "failed"] /\ req[q] \in Request
        BY <2>1, <3>1, ToTypes, Parts DEF CarrierRefuses
      <4> QED
        BY <4>1 DEF Request
    <3> QED
      BY <1>8, <3>1, Takes, Garbles
  <2>3. Booking(q)
    BY <2>1, Parts
  <2> QED
    BY <1>1, <1>3, <1>4, <2>1, <2>2, <2>3
<1>9. ASSUME NEW q \in Requests,
             \/ Reject(q) \/ CommitApprove(q) \/ CommitEdit(q) \/ CommitArrange(q)
             \/ CommitApply(q) \/ CommitDismiss(q) \/ CommitCsv(q) \/ CommitFailed(q)
             \/ CommitCancel(q) \/ Die(q)
      PROVE  ReopenInv'
  <2>1. Step(q) /\ req'[q] = Idle
    BY <1>9, FinishTypes DEF Step, Reject, CommitApprove, CommitEdit, CommitArrange,
         CommitApply, CommitDismiss, CommitCsv, CommitFailed, CommitCancel, Die, Commit
  <2>2. \A j \in Jobs : job[j].locked => job'[j].locked
    <3>1. CASE job' = job
      BY <3>1
    <3>2. CASE Commit(q, "approve") \/ Commit(q, "edit") \/ Commit(q, "apply")
               \/ Commit(q, "csv") \/ Commit(q, "cancel")
      BY <2>1, <3>2, Unlocks DEF Commit, CommitReopen
    <3> QED
      BY <1>9, <3>1, <3>2 DEF Reject, CommitApprove, CommitEdit, CommitArrange, CommitApply,
         CommitDismiss, CommitCsv, CommitFailed, CommitCancel, Die
  <2>3. row'.status \in {row.status, "cancelled"} /\ row'.outcome \in {row.outcome, "failed"}
    BY <1>9 DEF Reject, CommitApprove, CommitEdit, CommitArrange, CommitApply,
         CommitDismiss, CommitCsv, CommitFailed, CommitCancel, Commit, Die, Save, Types, Row
  <2>4. ~ Booking(q)'
    BY <2>1 DEF Booking
  <2> QED
    BY <1>4, <2>1, <2>2, <2>3, <2>4
<1>10. CASE UNCHANGED vars
  BY <1>1, <1>10 DEF vars, ReopenInv, Locked, Booking
<1> QED
  BY <1>2, <1>5, <1>6, <1>7, <1>8, <1>9, <1>10 DEF Next, Step

(* What a booking has read is still shown, and once the carrier has        *)
(* answered there is an order with it, or the answer was garbled.          *)
Read(q) ==
    /\ Shown(req[q].row.plan, row.plan)
    /\ req[q].stage # "jobs" =>
         \A j \in Jobs : Shown(req[q].jobs[j].text, job[j].text)
    /\ req[q].stage = "commit" => req[q].reference = req[q].row.order
    /\ req[q].stage = "booked" =>
         \/ garbled /\ req[q].reference = Nothing
         \/ \E o \in orders : /\ o.booked = Versions(q)
                              /\ req[q].reference # Nothing => o.no = req[q].reference

ReadInv == \A q \in Requests : Booking(q) => Read(q)

(* No step makes what a booking has read untrue without excuse.            *)
LEMMA ReadStep == Types /\ ExcuseInv /\ ReadInv /\ [Next]_vars => ReadInv'
<1> SUFFICES ASSUME Types, ExcuseInv, ReadInv, [Next]_vars PROVE ReadInv'
  OBVIOUS
<1> USE IdleIsOut
(* The fields that change show an excused version.                         *)
<1>1. ASSUME NEW q \in Requests, Booking(q), Read(q), req'[q] = req[q],
             excused \subseteq excused', garbled => garbled', orders \subseteq orders',
             row'.plan = row.plan \/ row'.plan \in excused',
             \A j \in Jobs : job'[j].text = job[j].text \/ job'[j].text \in excused'
      PROVE  Read(q)'
  <2>1. Shown(req[q].row.plan, row.plan)'
    BY <1>1, StaysShown DEF Read, Shown
  <2>2. req[q].stage # "jobs" => \A j \in Jobs : Shown(req[q].jobs[j].text, job[j].text)'
    BY <1>1 DEF Read, Shown
  <2>3. Versions(q)' = Versions(q)
    BY <1>1 DEF Versions
  <2>4. req[q].stage = "booked" =>
          \/ garbled' /\ req[q].reference = Nothing
          \/ \E o \in orders' : /\ o.booked = Versions(q)
                                /\ req[q].reference # Nothing => o.no = req[q].reference
    BY <1>1 DEF Read
  <2> QED
    BY <1>1, <2>1, <2>2, <2>3, <2>4 DEF Read
<1>2. ASSUME NEW q \in Requests, Start(q) PROVE ReadInv'
  <2>1. UNCHANGED <<row, job, orders, garbled>> /\ excused \subseteq excused'
    BY <1>2, Starts
  <2>2. \A r \in Requests \ {q} : req'[r] = req[r] /\ (Booking(r)' => Booking(r))
    BY <1>2, Starts DEF Booking
  <2>3. ASSUME NEW r \in Requests \ {q}, Booking(r)' PROVE Read(r)'
    <3>1. Booking(r) /\ Read(r) /\ req'[r] = req[r]
      BY <2>2, <2>3 DEF ReadInv
    <3> QED
      BY <1>1, <2>1, <3>1
  <2>4. Booking(q)' => Read(q)'
    <3>1. Booking(q)' => req'[q].row = row /\ req'[q].stage = "jobs"
      BY <1>2, Starts
    <3> QED
      BY <2>1, <3>1 DEF Read, Shown
  <2> QED
    BY <2>3, <2>4 DEF ReadInv
(* The others see what q writes.                                           *)
<1>3. ASSUME NEW q \in Requests, Step(q), NEW r \in Requests \ {q}, Booking(r)'
      PROVE  Read(r)'
  <2>1. /\ req'[r] = req[r] /\ orders \subseteq orders' /\ excused \subseteq excused'
        /\ garbled => garbled'
    BY <1>3, Goes
  <2>2. Booking(r) /\ Read(r)
    BY <1>3, <2>1 DEF ReadInv, Booking
  <2>3. Editing(q) => req[q].version \in excused'
    BY <2>1, <2>2 DEF ExcuseInv
  <2>4. /\ row'.plan = row.plan \/ row'.plan \in excused'
        /\ \A j \in Jobs : job'[j].text = job[j].text \/ job'[j].text \in excused'
    BY <1>3, <2>3, Writes
  <2> QED
    BY <1>1, <2>1, <2>2, <2>4
<1>4. ASSUME NEW q \in Requests, Step(q), Booking(q)' => Read(q)' PROVE ReadInv'
  BY <1>3, <1>4 DEF ReadInv
<1>5. ASSUME NEW q \in Requests, ReadJobs(q) PROVE ReadInv'
  <2>1. Step(q) /\ UNCHANGED <<row, job, excused>>
    BY <1>5 DEF Step, ReadJobs
  <2>2. /\ req'[q].op = req[q].op /\ req'[q].row = req[q].row
        /\ req'[q].reference = req[q].row.order /\ req'[q].stage # "booked"
        /\ \A j \in Jobs : Booking(q) => req'[q].jobs[j].text = job[j].text
    BY <1>5, Reads
  <2>3. Booking(q)' => Booking(q) /\ Read(q)
    BY <2>2 DEF Booking, ReadInv
  <2>4. Booking(q)' => Read(q)'
    BY <2>1, <2>2, <2>3 DEF Read, Shown
  <2> QED
    BY <1>4, <2>1, <2>4
<1>6. ASSUME NEW q \in Requests, CarrierTakes(q) \/ CarrierRefuses(q) \/ CarrierGarbles(q)
      PROVE  ReadInv'
  <2>1. Step(q) /\ UNCHANGED <<row, job, excused>> /\ req[q].stage = "call"
    BY <1>6 DEF Step, CarrierTakes, CarrierRefuses, CarrierGarbles
  <2>2. Booking(q) /\ Read(q)
    BY <2>1, Parts DEF ReadInv
  <2>3. /\ req'[q].row = req[q].row /\ req'[q].jobs = req[q].jobs
        /\ req'[q].stage \in {"booked", "failed"}
    <3>1. CASE CarrierRefuses(q)
      <4>1. req'[q] = [req[q] EXCEPT !.stage = "failed"] /\ req[q] \in Request
        BY <2>1, <3>1, ToTypes, Parts DEF CarrierRefuses
      <4> QED
        BY <4>1 DEF Request
    <3> QED
      BY <1>6, <3>1, Takes, Garbles
  <2>4. Versions(q)' = Versions(q)
    BY <2>3 DEF Versions
  <2>5. req'[q].stage = "booked" =>
          \/ garbled' /\ req'[q].reference = Nothing
          \/ \E o \in orders' : /\ o.booked = Versions(q)
                                /\ req'[q].reference # Nothing => o.no = req'[q].reference
    <3>1. CASE CarrierTakes(q)
      <4>1. PICK n \in OrderNos :
              /\ orders' = orders \cup {[no |-> n, booked |-> Versions(q)]}
              /\ req'[q].stage = "booked" => req'[q].reference \in {n, Nothing}
        BY <3>1, Takes
      <4> DEFINE o == [no |-> n, booked |-> Versions(q)]
      <4>2. o \in orders' /\ o.booked = Versions(q) /\ o.no = n
        BY <4>1
      <4> HIDE DEF o
      <4> QED
        BY <4>1, <4>2
    <3>2. CASE CarrierRefuses(q)
      <4>1. req'[q] = [req[q] EXCEPT !.stage = "failed"] /\ req[q] \in Request
        BY <2>1, <3>2, ToTypes, Parts DEF CarrierRefuses
      <4>2. req'[q].stage = "failed"
        BY <4>1 DEF Request
      <4> QED
        BY <4>2
    <3>3. CASE CarrierGarbles(q)
      BY <3>3, Garbles DEF CarrierGarbles
    <3> QED
      BY <1>6, <3>1, <3>2, <3>3
  <2>6. Shown(req[q].row.plan, row.plan)' /\ \A j \in Jobs : Shown(req[q].jobs[j].text, job[j].text)'
    BY <2>1, <2>2, <2>3 DEF Read, Shown
  <2>7. Read(q)'
    BY <2>3, <2>4, <2>5, <2>6 DEF Read
  <2> QED
    BY <1>4, <2>1, <2>7
<1>7. ASSUME NEW q \in Requests, Step(q), Finish(q) PROVE ReadInv'
  <2>1. ~ Booking(q)'
    BY <1>7, FinishTypes DEF Booking
  <2> QED
    BY <1>4, <1>7, <2>1
<1>8. CASE UNCHANGED vars
  <2>1. \A q \in Requests : Booking(q)' => Booking(q) /\ req'[q] = req[q]
    BY <1>8 DEF vars, Booking
  <2> QED
    BY <1>1, <1>8, <2>1 DEF vars, ReadInv
<1>9. ASSUME NEW q \in Requests, Step(q) PROVE ReadInv'
  <2>1. \/ ReadJobs(q) \/ CarrierTakes(q) \/ CarrierRefuses(q) \/ CarrierGarbles(q)
        \/ Finish(q)
    BY <1>9 DEF Step, Reject, CommitApprove, CommitEdit, CommitArrange, CommitApply,
       CommitDismiss, CommitCsv, CommitBooked, CommitFailed, CommitCancel, CommitReopen,
       Commit, Die
  <2> QED
    BY <1>5, <1>6, <1>7, <1>9, <2>1
<1> QED
  BY <1>2, <1>8, <1>9 DEF Next

(* There is an order with what the manifest and its jobs say.              *)
Faithful ==
    \/ garbled /\ row.order = Nothing
    \/ \E o \in orders :
         /\ row.order # Nothing => o.no = row.order
         /\ Shown(o.booked.plan, row.plan)
         /\ \A j \in Jobs : Shown(o.booked.text[j], job[j].text)

(* A booking was committed that an exported manifest rests on, or that a   *)
(* running booking has found or will find committed.                       *)
Backed ==
    \/ row.status = "exported"
    \/ row.outcome = "booked"
    \/ \E q \in Requests : /\ Booking(q)
                           /\ req[q].row.outcome = "booked" \/ req[q].row.order # row.order

(* What an edit brings is excused, or will be when it is applied.          *)
Harmless(q) ==
    \/ req[q].version \in excused
    \/ /\ req[q].op = "apply"
       /\ req[q].stage = "jobs" \/ reopened \/ req[q].jobs[JobOf[req[q].on]].locked

BackedInv == Backed => Faithful /\ \A q \in Requests : Editing(q) => Harmless(q)

(* No step parts an exported manifest from its order.                      *)
LEMMA BackedStep ==
  Types /\ ExcuseInv /\ ReopenInv /\ ReadInv /\ BackedInv /\ [Next]_vars => BackedInv'
<1> SUFFICES ASSUME Types, ExcuseInv, ReopenInv, ReadInv, BackedInv, [Next]_vars, Backed'
             PROVE  Faithful' /\ \A q \in Requests : Editing(q)' => Harmless(q)'
  BY DEF BackedInv
<1> USE IdleIsOut
(* What is written into the fields is excused, so the order stays right.   *)
<1>1. ASSUME Faithful, row'.order = row.order, orders \subseteq orders',
             excused \subseteq excused', garbled => garbled',
             row'.plan = row.plan \/ row'.plan \in excused',
             \A j \in Jobs : job'[j].text = job[j].text \/ job'[j].text \in excused'
      PROVE  Faithful'
  <2>1. CASE garbled /\ row.order = Nothing
    BY <1>1, <2>1 DEF Faithful
  <2>2. ASSUME NEW o \in orders, row.order # Nothing => o.no = row.order,
               Shown(o.booked.plan, row.plan),
               \A j \in Jobs : Shown(o.booked.text[j], job[j].text)
        PROVE  Faithful'
    <3>1. Shown(o.booked.plan, row.plan)' /\ \A j \in Jobs : Shown(o.booked.text[j], job[j].text)'
      BY <1>1, <2>2 DEF Shown
    <3> QED
      BY <1>1, <2>2, <3>1 DEF Faithful
  <2> QED
    BY <1>1, <2>1, <2>2 DEF Faithful
<1>2. ASSUME NEW q \in Requests, Start(q)
      PROVE  Faithful' /\ \A r \in Requests : Editing(r)' => Harmless(r)'
  <2>1. UNCHANGED <<row, job, orders, garbled, reopened>> /\ excused \subseteq excused'
    BY <1>2, Starts
  <2>2. \A r \in Requests \ {q} : /\ req'[r] = req[r]
                                  /\ (Booking(r)' => Booking(r)) /\ (Editing(r)' => Editing(r))
    BY <1>2, Starts DEF Booking, Editing
  <2>3. Booking(q)' => req'[q].row = row
    BY <1>2, Starts
  <2>4. Backed
    BY <2>1, <2>2, <2>3 DEF Backed
  <2>5. Faithful'
    BY <1>1, <2>1, <2>4 DEF BackedInv
  <2>6. ASSUME NEW r \in Requests \ {q}, Editing(r)' PROVE Harmless(r)'
    <3>1. Harmless(r) /\ req'[r] = req[r]
      BY <2>2, <2>4, <2>6 DEF BackedInv
    <3> QED
      BY <2>1, <3>1 DEF Harmless
  <2>7. ASSUME Editing(q)', req'[q].version \notin excused' PROVE Harmless(q)'
    <3>1. ~ reopened /\ \A r \in Requests \ {q} : ~ Booking(r)
      BY <1>2, <2>7, Starts
    <3>2. ~ Booking(q)
      BY <1>2, Starts DEF Booking
    <3>3. /\ row.status = "exported" \/ row.outcome = "booked"
          /\ row.outcome = "booked" => row.status # "open"
          /\ Locked
      BY <2>4, <3>1, <3>2 DEF Backed, ReopenInv
    <3>4. req'[q].op \notin {"edit", "arrange"} /\ (req'[q].op = "apply" => req'[q].stage = "jobs")
      BY <1>2, <3>3, Starts DEF Locked
    <3> QED
      BY <2>7, <3>4 DEF Harmless, Editing, Edits
  <2>8. Editing(q)' => Harmless(q)'
    BY <2>7 DEF Harmless
  <2> QED
    BY <2>5, <2>6, <2>8
<1>3. ASSUME NEW q \in Requests, Step(q)
      PROVE  /\ \A r \in Requests : /\ Booking(r)' => Booking(r) /\ req'[r].row = req[r].row
                                    /\ Editing(r)' => /\ Editing(r)
                                                      /\ req'[r].version = req[r].version
             /\ \A r \in Requests \ {q} : req'[r] = req[r]
             /\ orders \subseteq orders' /\ excused \subseteq excused'
             /\ (garbled => garbled') /\ (reopened => reopened')
  BY <1>3, Goes DEF Booking, Editing
(* No booking is committed.                                                *)
<1>4. ASSUME NEW q \in Requests, Step(q), row'.order = row.order,
             row'.status = "exported" => row.status = "exported",
             row'.outcome = "booked" => row.outcome = "booked",
             Backed /\ Editing(q) /\ ~ UNCHANGED <<row, job>> => req[q].version \in excused',
             Backed /\ Editing(q)' => Harmless(q)'
      PROVE  Faithful' /\ \A r \in Requests : Editing(r)' => Harmless(r)'
  <2>1. Backed
    BY <1>3, <1>4 DEF Backed
  <2>2. Faithful /\ \A r \in Requests : Editing(r) => Harmless(r)
    BY <2>1 DEF BackedInv
  <2>3. /\ row'.plan = row.plan \/ row'.plan \in excused'
        /\ \A j \in Jobs : job'[j].text = job[j].text \/ job'[j].text \in excused'
    BY <1>4, <2>1, Writes
  <2>4. Faithful'
    BY <1>1, <1>3, <1>4, <2>2, <2>3
  <2>5. \A r \in Requests \ {q} : Editing(r)' => Harmless(r)'
    BY <1>3, <1>4, <2>2 DEF Harmless
  <2> QED
    BY <1>4, <2>1, <2>4, <2>5
(* A booking is committed.                                                 *)
<1>5. ASSUME NEW q \in Requests, CommitBooked(q)
      PROVE  Faithful' /\ \A r \in Requests : Editing(r)' => Harmless(r)'
  <2>1. Step(q) /\ UNCHANGED <<orders, garbled, excused>>
    BY <1>5 DEF Step, CommitBooked
  <2>2. Booking(q) /\ Read(q) /\ req[q].stage \in {"booked", "commit"}
    BY <1>5, Parts DEF CommitBooked, Booked, Booking, Kind, ReadInv
  <2>3. row'.plan = row.plan /\ row'.order = Save(req[q].row.order, req[q].reference, row.order)
    BY <1>5, Parts DEF CommitBooked, Save, Types, Row
  <2>4. \A j \in Jobs : job'[j].text = job[j].text
    BY <1>5, LocksWritten DEF CommitBooked
  <2>5. \A r \in Requests : Editing(r)' => Harmless(r)'
    BY <1>3, <2>1, <2>2 DEF ExcuseInv, Harmless, Editing
(* Its number, and so its order, is not the manifest's.                    *)
  <2>6. CASE row'.order = row.order /\ Backed
    BY <1>1, <2>1, <2>3, <2>4, <2>5, <2>6 DEF BackedInv
(* Its number is written, or was there already.                            *)
  <2>7. ASSUME ~ (row'.order = row.order /\ Backed) PROVE Faithful'
    <3>1. req[q].row.outcome = "booked" => Backed
      BY <2>2 DEF Backed
    <3>2. req[q].row.order # row.order => Backed
      BY <2>2 DEF Backed
    <3>3. req[q].stage = "booked"
      BY <2>2, <2>3, <2>7, <3>1, Parts DEF Read, Save
    <3>4. row'.order = req[q].reference
      BY <2>3, <2>7, <3>2 DEF Save
    <3>5. CASE garbled /\ req[q].reference = Nothing
      BY <2>1, <3>4, <3>5 DEF Faithful
    <3>6. ASSUME NEW o \in orders, o.booked = Versions(q),
                 req[q].reference # Nothing => o.no = req[q].reference
          PROVE  Faithful'
      <4>1. /\ o.booked.plan = req[q].row.plan
            /\ \A j \in Jobs : o.booked.text[j] = req[q].jobs[j].text
        BY <3>6 DEF Versions
      <4>2. /\ Shown(o.booked.plan, row.plan)'
            /\ \A j \in Jobs : Shown(o.booked.text[j], job[j].text)'
        BY <2>1, <2>2, <2>3, <2>4, <3>3, <4>1 DEF Read, Shown
      <4> QED
        BY <2>1, <3>4, <3>6, <4>2 DEF Faithful
    <3> QED
      BY <2>2, <3>3, <3>5, <3>6 DEF Read
  <2> QED
    BY <2>5, <2>6, <2>7
<1>6. ASSUME NEW q \in Requests,
             CommitEdit(q) \/ CommitArrange(q) \/ CommitApply(q)
      PROVE  Faithful' /\ \A r \in Requests : Editing(r)' => Harmless(r)'
  <2>1. /\ Step(q) /\ req'[q] = Idle /\ req[q].stage = "commit"
        /\ Editing(q) /\ (req[q].op = "apply" => CommitApply(q))
    BY <1>6, FinishTypes DEF CommitEdit, CommitArrange, CommitApply, Commit, Editing, Edits, Step
  <2>2. row'.order = row.order /\ row'.status = row.status /\ row'.outcome = row.outcome
    BY <1>6 DEF CommitEdit, CommitArrange, CommitApply, Types, Row
  <2>3. Backed => req[q].version \in excused'
    <3> SUFFICES ASSUME Backed, req[q].version \notin excused PROVE req[q].version \in excused'
      BY <1>3, <2>1
    <3>1. /\ req[q].op = "apply"
          /\ reopened \/ req[q].jobs[JobOf[req[q].on]].locked
      BY <2>1 DEF BackedInv, Harmless
    <3> QED
      BY <2>1, <3>1 DEF CommitApply
  <2>4. ~ Editing(q)'
    BY <2>1 DEF Editing
  <2> QED
    BY <1>4, <2>1, <2>2, <2>3, <2>4
<1>7. ASSUME NEW q \in Requests, ReadJobs(q)
      PROVE  Faithful' /\ \A r \in Requests : Editing(r)' => Harmless(r)'
  <2>1. Step(q) /\ UNCHANGED <<row, job, reopened, excused>>
    BY <1>7 DEF Step, ReadJobs
  <2>2. /\ req'[q].op = req[q].op /\ req'[q].on = req[q].on /\ req'[q].version = req[q].version
        /\ \A j \in Jobs : req'[q].jobs[j].locked = job[j].locked
    BY <1>7, Reads
  <2>3. Backed /\ Editing(q)' => Harmless(q)'
    <3> SUFFICES ASSUME Backed, Editing(q), req[q].version \notin excused, ~ reopened
                 PROVE  Harmless(q)'
      BY <1>3, <2>1, <2>2 DEF BackedInv, Harmless, Editing
    <3>1. req[q].op = "apply"
      BY DEF BackedInv, Harmless
    <3>2. \A r \in Requests : ~ Booking(r)
      BY DEF ExcuseInv
    <3>3. Locked
      BY <3>2 DEF Backed, ReopenInv
    <3>4. JobOf[req[q].on] \in Jobs
      BY <3>1, Parts, ManifestAssumption
    <3> QED
      BY <2>2, <3>1, <3>3, <3>4 DEF Harmless, Locked
  <2> QED
    BY <1>4, <2>1, <2>3
<1>8. ASSUME NEW q \in Requests, CarrierTakes(q) \/ CarrierRefuses(q) \/ CarrierGarbles(q)
      PROVE  Faithful' /\ \A r \in Requests : Editing(r)' => Harmless(r)'
  <2>1. Step(q) /\ UNCHANGED <<row, job>> /\ req[q].stage = "call"
    BY <1>8 DEF Step, CarrierTakes, CarrierRefuses, CarrierGarbles
  <2>2. Booking(q)
    BY <2>1, Parts
  <2>3. ~ Editing(q)'
    BY <1>3, <2>1, <2>2 DEF Editing, Edits, Booking, Kind
  <2> QED
    BY <1>4, <2>1, <2>3
<1>9. ASSUME NEW q \in Requests,
             \/ Reject(q) \/ CommitApprove(q) \/ CommitDismiss(q) \/ CommitCsv(q)
             \/ CommitFailed(q) \/ CommitCancel(q) \/ CommitReopen(q) \/ Die(q)
      PROVE  Faithful' /\ \A r \in Requests : Editing(r)' => Harmless(r)'
  <2>1. Step(q) /\ req'[q] = Idle
    BY <1>9, FinishTypes DEF Step, Reject, CommitApprove, CommitDismiss, CommitCsv,
         CommitFailed, CommitCancel, CommitReopen, Die, Commit
  <2>2. /\ row'.order = row.order
        /\ row'.status = "exported" => row.status = "exported"
        /\ row'.outcome = "booked" => row.outcome = "booked"
    BY <1>9 DEF Reject, CommitApprove, CommitDismiss, CommitCsv, CommitFailed, CommitCancel,
         CommitReopen, Die, Commit, Save, Types, Row
  <2>3. Editing(q) => UNCHANGED <<row, job>>
    BY <1>9, Parts DEF Reject, CommitApprove, CommitDismiss, CommitCsv, CommitFailed,
         CommitCancel, CommitReopen, Die, Commit, Editing, Edits, Booking, Kind
  <2>4. ~ Editing(q)'
    BY <2>1 DEF Editing
  <2> QED
    BY <1>4, <2>1, <2>2, <2>3, <2>4
<1>10. CASE UNCHANGED vars
  <2>1. Backed /\ UNCHANGED <<row, job, req, orders, excused, reopened, garbled>>
    BY <1>10 DEF vars, Backed, Booking
  <2> QED
    BY <1>1, <2>1 DEF BackedInv, Editing, Harmless
<1> QED
  BY <1>2, <1>5, <1>6, <1>7, <1>8, <1>9, <1>10 DEF Next, Step

(* An exported manifest and its jobs say what an order at the carrier      *)
(* says: whatever is done in whatever order, a field can differ only by an *)
(* edit that overlapped a booking, by an update applied to a locked job,   *)
(* or by an edit or update after a reopening of a booked manifest.         *)
THEOREM BookingsAreShown == Spec => []BookedAsShown
<1> USE IdleIsOut
<1>1. Init => ExcuseInv /\ ReopenInv /\ ReadInv /\ BackedInv
  BY DEF Init, ExcuseInv, ReopenInv, ReadInv, BackedInv, Backed, Booking, NewRow
<1>2. Types /\ ExcuseInv /\ ReopenInv /\ ReadInv /\ BackedInv /\ [Next]_vars
        => (ExcuseInv /\ ReopenInv /\ ReadInv /\ BackedInv)'
  BY ExcuseStep, ReopenStep, ReadStep, BackedStep
<1>3. BackedInv => BookedAsShown
  BY DEF BackedInv, Backed, Faithful, BookedAsShown
<1> QED
  BY <1>1, <1>2, <1>3, TypesHold, PTL DEF Spec

=============================================================================
