--------------------------- MODULE ManifestExport ---------------------------
(***************************************************************************)
(* One manifest, its HAWB jobs and the requests that edit it, book it with *)
(* the carrier system (mytransport/EasyTrans), cancel it and reopen it     *)
(* (app/routers/hawb.py, app/services/thinv_auto_export.py).               *)
(*                                                                         *)
(* Every request reads the manifest, then its jobs, and writes in one      *)
(* commit at the end; a booking calls the carrier in between and waits for *)
(* it up to 30 seconds.  No row is locked meanwhile and the isolation is   *)
(* READ COMMITTED, so a commit writes what its request computed from what  *)
(* it had read.  SQLAlchemy writes just the columns whose value differs    *)
(* from the one the request read (Save).                                   *)
(***************************************************************************)
EXTENDS Naturals, FiniteSets

CONSTANTS
    Jobs,           \* the HAWB jobs of the manifest
    Updates,        \* pending updates, each proposed for one of the jobs
    JobOf,          \* JobOf[u]: the job update u is for
    Requests,       \* requests that can be running at the same time
    Thinventory,    \* TRUE: ingest books this manifest automatically
    Nothing,
    MaxEdits,       \* how many edits and applied updates there are
    MaxOrders,      \* how many orders the carrier takes
    MaxFaults       \* how many answers are lost and workers die

ASSUME ManifestAssumption ==
    /\ JobOf \in [Updates -> Jobs]
    /\ Nothing \notin Jobs \cup Updates
    /\ Thinventory \in BOOLEAN
    /\ MaxEdits \in Nat /\ MaxOrders \in Nat /\ MaxFaults \in Nat

VARIABLES
    row,            \* the manifest: status, exported_at, export status,
                    \* order number and the version of its own fields
    job,            \* the jobs: status, locked and the version of the fields
    upd,            \* each update: "pending", "applied" or "dismissed"
    req,            \* the requests, with what each has read
    orders,         \* orders the carrier has, with the versions booked
    edits,          \* edits made so far: source of fresh versions
    started,        \* the automatic booking has been started
    excused,        \* history: the versions that may differ from the order
    reopened,       \* history: reopened although booked, or while booked
    overlap,        \* history: what concurrent requests competed for
    lost,           \* history: the carrier has an order no commit reported
    garbled,        \* history: an answer that is no answer passed for one
    faults

causes == <<excused, reopened, overlap>>

vars == <<row, job, upd, req, orders, edits, started, causes, lost, garbled,
          faults>>

OrderNos == 1..MaxOrders

Row == [status : {"open", "exported", "cancelled"}, at : BOOLEAN,
        outcome : {"none", "booked", "failed"},
        order : OrderNos \cup {Nothing}, plan : 0..MaxEdits]

(* The fields of a job are as extracted (0) or as of some edit or update.  *)
Texts == 0..MaxEdits

Job == [status : {"pending_review", "ready_to_manifest", "manifested"},
        locked : BOOLEAN, text : Texts]

NewRow == [status |-> "open", at |-> FALSE, outcome |-> "none",
           order |-> Nothing, plan |-> 0]

Blank == [status |-> "pending_review", locked |-> FALSE, text |-> 0]

Idle == [op |-> "none", on |-> Nothing, stage |-> "idle", row |-> NewRow,
         jobs |-> [j \in Jobs |-> Blank], reference |-> Nothing, version |-> 0]

(* Thinventory notes always await a review; other jobs do if they are      *)
(* blind.                                                                  *)
Extracted ==
    {"pending_review"} \cup (IF Thinventory THEN {} ELSE {"ready_to_manifest"})

Init ==
    /\ row = NewRow
    /\ job \in [Jobs -> {[Blank EXCEPT !.status = s] : s \in Extracted}]
    /\ upd = [u \in Updates |-> "pending"]
    /\ req = [q \in Requests |-> Idle]
    /\ orders = {}
    /\ edits = 0
    /\ started = FALSE
    /\ excused = {}
    /\ reopened = FALSE
    /\ overlap = {}
    /\ lost = FALSE
    /\ garbled = FALSE
    /\ faults = 0

Fault ==
    /\ faults < MaxFaults
    /\ faults' = faults + 1

-----------------------------------------------------------------------------
(* The start of a request: what it reads first, and the guard on that.  A  *)
(* request keeps what it read if what it does later depends on it.         *)

Kind(op) == IF op = "auto" THEN "book" ELSE op

Running == {q \in Requests : req[q].stage # "idle"}

Bookings == {q \in Running : Kind(req[q].op) = "book"}

(* What two requests that run at the same time may compete for: the order  *)
(* at the carrier, or the lock of the jobs.                                *)
Races(op, other) ==
    {race \in {"order", "lock"} :
       \E a, b \in {op, other} :
          /\ {a, b} = {op, other}
          /\ \/ race = "order" /\ a = "book" /\ b = "book"
             \/ race = "lock" /\ a \in {"book", "csv"} /\ b \in {"cancel", "reopen"}}

(* What an edit or an update brings differs from all that came before.     *)
Edits == {"edit", "arrange", "apply"}

(* The versions a request that starts with op excuses: the one it brings,  *)
(* if a booking is running or a booked manifest was reopened, and those of *)
(* the running edits, if it is a booking.                                  *)
Excuses(op) ==
    {v \in 1..MaxEdits :
       \/ v = edits + 1 /\ op \in Edits /\ (reopened \/ Bookings # {})
       \/ Kind(op) = "book" /\ \E r \in Running : req[r].version = v}

Begin(q, op, on, stage) ==
    /\ req[q] = Idle
    /\ req' = [req EXCEPT ![q] = [Idle EXCEPT
                 !.op = op, !.on = on, !.stage = stage,
                 !.row = IF Kind(op) = "book" THEN row ELSE @,
                 !.version = IF op \in Edits THEN edits + 1 ELSE 0]]
    /\ edits' = IF op \in Edits THEN edits + 1 ELSE edits
    /\ overlap' = overlap \cup UNION {Races(Kind(op), Kind(req[r].op)) : r \in Running}
    /\ excused' = excused \cup Excuses(op)
    /\ UNCHANGED <<row, job, upd, orders, reopened, lost, garbled, faults>>

StartApprove(q, j) ==
    /\ ~ job[j].locked
    /\ job[j].status = "pending_review"
    /\ Begin(q, "approve", j, "commit")
    /\ UNCHANGED started

(* Mutant: a job of a locked manifest can be edited.                       *)
StartEditLocked(q, j) ==
    /\ edits < MaxEdits
    /\ Begin(q, "edit", j, "commit")
    /\ UNCHANGED started

StartEdit(q, j) ==
    /\ ~ job[j].locked
    /\ edits < MaxEdits
    /\ Begin(q, "edit", j, "commit")
    /\ UNCHANGED started

(* update_manifest, and reorder_manifest_jobs: the order of the jobs is    *)
(* part of what is booked.                                                 *)
StartArrange(q) ==
    /\ row.status = "open"
    /\ edits < MaxEdits
    /\ Begin(q, "arrange", Nothing, "commit")
    /\ UNCHANGED started

(* apply_job_update reads the update and then its job, locked or not.      *)
StartApply(q, u) ==
    /\ upd[u] = "pending"
    /\ edits < MaxEdits
    /\ Begin(q, "apply", u, "jobs")
    /\ UNCHANGED started

StartDismiss(q, u) ==
    /\ upd[u] = "pending"
    /\ Begin(q, "dismiss", u, "commit")
    /\ UNCHANGED started

(* export_manifest: the CSV file.                                          *)
StartCsv(q) ==
    /\ row.status = "open"
    /\ ~ row.at
    /\ Begin(q, "csv", Nothing, "jobs")
    /\ UNCHANGED started

(* export_manifest_dual.                                                   *)
StartBook(q) ==
    /\ row.status \in {"open", "exported"}
    /\ ~ (row.status = "exported" /\ row.outcome = "booked")
    /\ Begin(q, "book", Nothing, "jobs")
    /\ UNCHANGED started

(* auto_export_thinventory_manifest, run once, right after ingest.         *)
StartAuto(q) ==
    /\ Thinventory /\ ~ started
    /\ row.status = "open"
    /\ row.outcome # "booked"
    /\ Begin(q, "auto", Nothing, "jobs")
    /\ started' = TRUE

(* Mutant: whatever is not cancelled can be cancelled.                     *)
StartCancelAnything(q) ==
    /\ row.status # "cancelled"
    /\ Begin(q, "cancel", Nothing, "jobs")
    /\ UNCHANGED started

(* Mutant: a manifest whose CSV was exported can be cancelled.             *)
StartCancelExported(q) ==
    /\ row.status = "open"
    /\ Begin(q, "cancel", Nothing, "jobs")
    /\ UNCHANGED started

StartCancel(q) ==
    /\ row.status = "open"
    /\ ~ row.at
    /\ Begin(q, "cancel", Nothing, "jobs")
    /\ UNCHANGED started

StartReopen(q) ==
    /\ row.status = "cancelled"
    /\ Begin(q, "reopen", Nothing, "jobs")
    /\ UNCHANGED started

-----------------------------------------------------------------------------
(* The later reads.                                                        *)

To(q, stage) == req' = [req EXCEPT ![q].stage = stage]

Finish(q) == req' = [req EXCEPT ![q] = Idle]

(* The request ends without a write: a guard on the jobs or on the fields  *)
(* fails (409), or the booking is a dry run.                               *)
Reject(q) ==
    /\ req[q].op \in {"csv", "book"}
    /\ req[q].stage \in {"jobs", "call"}
    /\ Finish(q)
    /\ UNCHANGED <<row, job, upd, orders, edits, started, causes, lost,
                   garbled, faults>>

(* Mutant: the carrier is called no matter what was booked before.         *)
ReadJobsAlwaysCalls(q) ==
    /\ req[q].stage = "jobs"
    /\ req[q].op = "csv" => \A j \in Jobs : job[j].status # "pending_review"
    /\ LET booking == Kind(req[q].op) = "book" IN
         req' = [req EXCEPT
           ![q].jobs = [j \in Jobs |-> [job[j] EXCEPT !.text = IF booking THEN @ ELSE 0]],
           ![q].stage = IF booking THEN "call" ELSE "commit",
           ![q].reference = req[q].row.order]
    /\ UNCHANGED <<row, job, upd, orders, edits, started, causes, lost,
                   garbled, faults>>

(* The jobs are read.  The CSV export wants all of them reviewed; a        *)
(* booking that was made before is not made again.                         *)
ReadJobs(q) ==
    /\ req[q].stage = "jobs"
    /\ req[q].op = "csv" => \A j \in Jobs : job[j].status # "pending_review"
    /\ LET booking == Kind(req[q].op) = "book" IN
         req' = [req EXCEPT
           ![q].jobs = [j \in Jobs |-> [job[j] EXCEPT !.text = IF booking THEN @ ELSE 0]],
           ![q].stage = IF booking /\ req[q].row.outcome # "booked" THEN "call" ELSE "commit",
           ![q].reference = req[q].row.order]
    /\ UNCHANGED <<row, job, upd, orders, edits, started, causes, lost,
                   garbled, faults>>

-----------------------------------------------------------------------------
(* The carrier.  It takes the order as the request read it.                *)

Versions(q) ==
    [plan |-> req[q].row.plan, text |-> [j \in Jobs |-> req[q].jobs[j].text]]

(* The carrier takes the order; its answer need not have a number.  If the *)
(* answer is lost the request goes on with a failure.                      *)
CarrierTakes(q) ==
    /\ req[q].stage = "call"
    /\ Cardinality(orders) < MaxOrders
    /\ LET n == Cardinality(orders) + 1 IN
         /\ orders' = orders \cup {[no |-> n, booked |-> Versions(q)]}
         /\ \/ /\ \E ref \in {n, Nothing} :
                    req' = [req EXCEPT ![q].stage = "booked", ![q].reference = ref]
               /\ UNCHANGED <<lost, faults>>
            \/ /\ Fault
               /\ lost' = TRUE
               /\ To(q, "failed")
    /\ UNCHANGED <<row, job, upd, edits, started, causes, garbled>>

(* Mutant: an error that comes with HTTP status 200 counts as success.     *)
CarrierRefusesAsSuccess(q) ==
    /\ req[q].stage = "call"
    /\ To(q, "booked")
    /\ UNCHANGED <<row, job, upd, orders, edits, started, causes, lost,
                   garbled, faults>>

(* The carrier refuses or cannot be reached; for the automatic booking,    *)
(* any guard that fails as well.                                           *)
CarrierRefuses(q) ==
    /\ req[q].stage = "call"
    /\ To(q, "failed")
    /\ UNCHANGED <<row, job, upd, orders, edits, started, causes, lost,
                   garbled, faults>>

(* An answer below 400 that is not the carrier's JSON (an HTML error page, *)
(* a redirect) counts as success, though nothing was ordered.              *)
CarrierGarbles(q) ==
    /\ req[q].stage = "call"
    /\ Fault
    /\ garbled' = TRUE
    /\ req' = [req EXCEPT ![q].stage = "booked", ![q].reference = Nothing]
    /\ UNCHANGED <<row, job, upd, orders, edits, started, causes, lost>>

-----------------------------------------------------------------------------
(* The commits.                                                            *)

(* A column is written when its new value differs from the one read.       *)
Save(read, new, now) == IF new = read THEN now ELSE new

SaveLocked(q, b) ==
    [j \in Jobs |-> [job[j] EXCEPT !.locked = Save(req[q].jobs[j].locked, b, @)]]

(* job.locked = True, job.status = "manifested".                           *)
Manifested(q) ==
    [j \in Jobs |-> [job[j] EXCEPT
        !.locked = Save(req[q].jobs[j].locked, TRUE, @),
        !.status = Save(req[q].jobs[j].status, "manifested", @)]]

Commit(q, op) ==
    /\ req[q].op = op
    /\ req[q].stage = "commit"
    /\ Finish(q)
    /\ UNCHANGED <<orders, edits, started, overlap, lost, garbled, faults>>

CommitApprove(q) ==
    /\ Commit(q, "approve")
    /\ job' = [job EXCEPT ![req[q].on].status = "ready_to_manifest"]
    /\ UNCHANGED <<row, upd, excused, reopened>>

CommitEdit(q) ==
    /\ Commit(q, "edit")
    /\ job' = [job EXCEPT ![req[q].on].text = req[q].version]
    /\ UNCHANGED <<row, upd, excused, reopened>>

CommitArrange(q) ==
    /\ Commit(q, "arrange")
    /\ row' = [row EXCEPT !.plan = req[q].version]
    /\ UNCHANGED <<job, upd, excused, reopened>>

(* A job that was not locked goes back to review; a locked one changes     *)
(* under the lock.                                                         *)
CommitApply(q) ==
    /\ Commit(q, "apply")
    /\ LET j == JobOf[req[q].on] IN
         /\ job' = [job EXCEPT
              ![j].text = req[q].version,
              ![j].status = IF req[q].jobs[j].locked THEN @
                            ELSE Save(req[q].jobs[j].status, "pending_review", @)]
         /\ excused' = IF req[q].jobs[j].locked \/ reopened
                       THEN excused \cup {req[q].version} ELSE excused
    /\ upd' = [upd EXCEPT ![req[q].on] = "applied"]
    /\ UNCHANGED <<row, reopened>>

CommitDismiss(q) ==
    /\ Commit(q, "dismiss")
    /\ upd' = [upd EXCEPT ![req[q].on] = "dismissed"]
    /\ UNCHANGED <<row, job, excused, reopened>>

(* The status stays "open": exported_at marks the manifest.                *)
CommitCsv(q) ==
    /\ Commit(q, "csv")
    /\ job' = Manifested(q)
    /\ row' = [row EXCEPT !.at = TRUE]
    /\ UNCHANGED <<upd, excused, reopened>>

(* The end of a booking, manual or automatic.  Not to be booked twice, a   *)
(* manual one that found the manifest booked echoes what it had read.      *)
Booked(q) ==
    \/ req[q].stage = "booked"
    \/ req[q].stage = "commit" /\ req[q].op = "book"

CommitBooked(q) ==
    /\ Booked(q)
    /\ row' = [row EXCEPT
         !.order = Save(req[q].row.order, req[q].reference, @),
         !.outcome = Save(req[q].row.outcome, "booked", @),
         !.status = Save(req[q].row.status, "exported", @),
         !.at = TRUE]
    /\ job' = IF req[q].row.status = "exported" THEN job ELSE Manifested(q)
    /\ Finish(q)
    /\ UNCHANGED <<upd, orders, edits, started, causes, lost, garbled, faults>>

CommitFailed(q) ==
    /\ req[q].stage = "failed"
    /\ row' = [row EXCEPT !.outcome = Save(req[q].row.outcome, "failed", @)]
    /\ Finish(q)
    /\ UNCHANGED <<job, upd, orders, edits, started, causes, lost, garbled,
                   faults>>

(* "Soft delete": the jobs stay attached and are locked.                   *)
CommitCancel(q) ==
    /\ Commit(q, "cancel")
    /\ job' = SaveLocked(q, TRUE)
    /\ row' = [row EXCEPT !.status = "cancelled"]
    /\ UNCHANGED <<upd, excused, reopened>>

CommitReopen(q) ==
    /\ Commit(q, "reopen")
    /\ job' = SaveLocked(q, FALSE)
    /\ row' = [row EXCEPT !.status = "open"]
    /\ reopened' = (reopened \/ row.outcome = "booked" \/ Bookings # {})
    /\ UNCHANGED <<upd, excused>>

(* The worker dies, or the request fails otherwise: nothing is written,    *)
(* not even what the carrier has answered.                                 *)
Die(q) ==
    /\ req[q].stage # "idle"
    /\ Fault
    /\ lost' = (lost \/ req[q].stage = "booked")
    /\ Finish(q)
    /\ UNCHANGED <<row, job, upd, orders, edits, started, causes, garbled>>

-----------------------------------------------------------------------------

Start(q) ==
    \/ \E j \in Jobs : StartApprove(q, j) \/ StartEdit(q, j)
    \/ \E u \in Updates : StartApply(q, u) \/ StartDismiss(q, u)
    \/ StartArrange(q)
    \/ StartCsv(q)
    \/ StartBook(q)
    \/ StartAuto(q)
    \/ StartCancel(q)
    \/ StartReopen(q)

Step(q) ==
    \/ Reject(q)
    \/ ReadJobs(q)
    \/ CarrierTakes(q)
    \/ CarrierRefuses(q)
    \/ CarrierGarbles(q)
    \/ CommitApprove(q)
    \/ CommitEdit(q)
    \/ CommitArrange(q)
    \/ CommitApply(q)
    \/ CommitDismiss(q)
    \/ CommitCsv(q)
    \/ CommitBooked(q)
    \/ CommitFailed(q)
    \/ CommitCancel(q)
    \/ CommitReopen(q)
    \/ Die(q)

Next == \E q \in Requests : Start(q) \/ Step(q)

Spec == Init /\ [][Next]_vars

-----------------------------------------------------------------------------
(* Properties.                                                             *)

Ops == {"none", "approve", "edit", "arrange", "apply", "dismiss", "csv",
        "book", "auto", "cancel", "reopen"}

Request ==
    [op : Ops, on : Jobs \cup Updates \cup {Nothing},
     stage : {"idle", "jobs", "call", "booked", "failed", "commit"},
     row : Row, jobs : [Jobs -> Job], reference : OrderNos \cup {Nothing},
     version : 0..MaxEdits]

Order == [no : OrderNos, booked : [plan : 0..MaxEdits, text : [Jobs -> Texts]]]

(* Every variable holds a value of its kind.                               *)
TypeOK ==
    /\ row \in Row
    /\ job \in [Jobs -> Job]
    /\ upd \in [Updates -> {"pending", "applied", "dismissed"}]
    /\ req \in [Requests -> Request]
    /\ orders \subseteq Order
    /\ edits \in 0..MaxEdits
    /\ started \in BOOLEAN
    /\ excused \subseteq 1..MaxEdits
    /\ reopened \in BOOLEAN
    /\ overlap \subseteq {"order", "lock"}
    /\ lost \in BOOLEAN
    /\ garbled \in BOOLEAN
    /\ faults \in 0..MaxFaults

(* The carrier has two orders for a manifest only if two bookings ran at   *)
(* the same time or an answer of the carrier was lost: failures, retries,  *)
(* CSV exports, cancelling and reopening never make a second one.          *)
SecondOrderHasACause ==
    Cardinality(orders) > 1 => lost \/ "order" \in overlap

(* A manifest that says it is booked has an order, unless an answer that   *)
(* was not the carrier's JSON passed for a success; and its number, when   *)
(* it has one, is that of an order the carrier has.                        *)
BookedHasAnOrder ==
    /\ row.outcome = "booked" => orders # {} \/ garbled
    /\ row.order # Nothing => row.order \in {o.no : o \in orders}

(* A cancelled manifest has no order at the carrier, unless it was booked  *)
(* while the cancellation ran or the answer was lost.                      *)
CancelledIsNotBooked ==
    row.status = "cancelled" => orders = {} \/ lost \/ "lock" \in overlap

(* An exported manifest, by CSV or by booking, has all its jobs locked,    *)
(* unless a cancellation or a reopening overlapped the export.             *)
ExportedIsLocked ==
    row.at => (\A j \in Jobs : job[j].locked) \/ "lock" \in overlap

(* What the order has of a field is what the field holds, or the field     *)
(* holds an excused version.                                               *)
Shown(booked, now) == now = booked \/ now \in excused

(* The carrier has an order with what an exported manifest and its jobs    *)
(* say: an edit made before is in the order and none is made after.  This  *)
(* holds of every field but those last written by an edit that overlapped  *)
(* a booking, by an update applied to a locked job, or by an edit or an    *)
(* update after the manifest was reopened although it was, or was just     *)
(* being, booked.  The order is the one the manifest has the number of, if *)
(* it has one; if not, there may be none where an answer was garbled.      *)
BookedAsShown ==
    row.status = "exported" =>
      \/ garbled /\ row.order = Nothing
      \/ \E o \in orders :
           /\ row.order # Nothing => o.no = row.order
           /\ Shown(o.booked.plan, row.plan)
           /\ \A j \in Jobs : Shown(o.booked.text[j], job[j].text)

(* The carrier never gets a manifest twice.                                *)
NeverBookedTwice == Cardinality(orders) <= 1

=============================================================================
