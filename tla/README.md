# Horizon-Api: a verification project

Horizon-Api ("BTS") is the back end of a logistics desk: FastAPI on four uvicorn
workers, Postgres, Redis and Celery. It turns the mail of one mailbox into
*bookings*, keeps the mail thread of each booking, reads HAWB documents out of
attachments into *manifests*, and books each manifest with the carrier system
mytransport/EasyTrans. The repository has no tests. What is hard in it is not
the size of its data but the order in which things happen: several pollers on one
mailbox, requests that read a row, call another system for up to 30 seconds and
then write, and transactions that fail after something has left the building.

The modules here model that part of the code, TLC checks it on small instances
and TLAPS proves every safety property they check for all values of the constants. Paths below
are relative to `src/` or, where it is plain, to `src/app/`.

## The system

| Component | State | Operations | Meets |
|---|---|---|---|
| E-mail intake: `_poll_inbox_async`, phase 1 (`app/tasks/tasks.py`) | `bookings`, `email_messages`, `processed_emails`, `lw_booking_seq` | poll, deduplicate, fetch attachments, hand them to the HAWB pipeline, find the booking, append or open | Graph, HAWB ingest, syncs, the desk, other pollers |
| Thread of a booking: `reply_to_booking`, `sync_booking_emails` (`app/routers/email_messages.py`), phase 2 of the poll | `email_messages`, `processed_emails` | send and record a reply, store what shows up in Sent Items, sync the conversation | Graph, each other |
| HAWB ingest (`app/services/hawb_ingest.py`) | `hawb_processed_emails`, `hawb_documents`, `hawb_manifests`, `hawb_jobs`, `hawb_job_pending_updates` | claim, check file names, placeholders, extract, match, deduplicate, outcome, retry | intake, other batches, TRACE, automatic booking |
| Automatic booking (`app/services/thinv_auto_export.py`), TRACE interface (`app/routers/trace_api.py`) | manifests and jobs | book after ingest; create a manifest from structured data | HAWB ingest; the carrier |
| Manifest life cycle (`app/routers/hawb.py`) | status, lock and fields of a manifest and its jobs | approve, edit, reorder, apply or dismiss an update, CSV export, book, cancel, reopen | the carrier, each other |
| Stops of a booking (`app/services/mytransport_export.py`) | none, a pipeline over the jobs | round trips, merge, validate, collapse, legs, shared stops, packages | called by the booking |
| Booking desk (`app/routers/bookings.py`) | status, agent, supporters, history and allocation log of a booking | create, update, change status, assign, add and remove supporters, delete | each other, pollers, statistics cache |
| Round robin and attendance (`tasks.py:679-751`, `app/routers/attendance.py`) | a row per agent and day; a pointer in Redis | save the attendance; pick an agent for a new booking | pollers, each other |
| Graph subscription (`app/services/graph_subscription.py`) | the id of a subscription in each process | register, renew, register again; a task of Celery beat (`celery_app.py:17-22`, `tasks.py:378-387`) renews in the children of the Celery pool | Graph, the webhook |
| Dashboard statistics (`app/routers/dashboard.py`) | a count of bookings in Redis | count, cache, clear, expire | booking desk |
| Reports, notifications, live events, authentication, shifts, master data, AI calls, scripts | rows of their own, caches | queries and plain create/read/update/delete, calls of outside services | |

How they interact: every uvicorn worker registers a subscription at Graph and
starts a poll loop in its lifespan (`main.py:36-60`), the webhook starts one more
poll per notification and Celery has a task for it, so there are always several
pollers. Two more parts write the tables of the intake: a manual sync stores and
ledgers the inbound mail of a conversation too, and the desk creates bookings
under numbers of its own. They share nothing but the database (READ COMMITTED, no row locks) and
Redis. A poller calls the HAWB pipeline in line; that pipeline commits by itself
and calls the automatic booking after its commit. Requests of the API run next to
all of it, and what one has read may be old by the time it writes.

### What makes each part correct

- **Intake**: a message is recorded once, in the booking it belongs to, by
  whichever of pollers and syncs; it is in the ledger exactly when it is recorded;
  its attachments had their turn before; numbers are unique and rows refer to
  bookings that exist, also when the desk creates and deletes bookings meanwhile;
  a thread is split only by messages out of order; every message is recorded in
  the end.
- **Thread**: a mail is stored once and only if it was sent; nothing the ledger
  closes is missing; what is in the thread is stored in the end.
- **Ingest**: no e-mail is ingested twice, no HAWB number that was read is
  dropped, no file vanishes or is extracted twice, a settled manifest has jobs just
  when it is open, extraction ends, and a Thinventory manifest is booked or
  somebody is told. TRACE has one manifest per reference, with all its jobs.
- **Manifest**: one order per manifest; what the manifest says of its booking is
  so; an exported manifest is locked and is what was booked.
- **Booking desk**: the history, the allocation log, the closing time and the
  supporters say of a booking what is so, also when requests overlap; the
  dashboard is out of date only for a reason that is known.
- **Round robin**: an agent has one row a day, and each agent who is present gets
  every n-th booking.
- **Subscription**: each worker has one that outlives its renewal period, and gets
  one again after any failure; there are no more than processes that renew, and dead
  ones do not pile up.
- **Stops**: each leg of each job is booked once and at its own address, no
  building is visited twice for one purpose, goods are collected before they are
  delivered, packages point at delivery stops.

`PROJECT.json` lists the hazards behind these, each at its line.

## The modules

| Module | Models | State ↔ code |
|---|---|---|
| `OnceLedger` | abstract: an item takes effect in the step that enters it, once | `ledger` ↔ a table of Message-IDs, `effects` ↔ what was done for them |
| `EmailIntake` | phase 1 of the poll, any number of pollers; syncs of inbound mail; the desk's bookings | `pc`, `todo`, `msg`, `target` are the locals of a poll, `dest`, `list`, `held` those of a sync (its booking, what is left, the rows and entries of its open transaction); `processed`, `claimed`, `bookings`, `rows`, `seq` the tables; `recorded`, `unclaimed`, `synced`, `early`, `misled` are history |
| `MailThread` | reply endpoint, Sent Items loop, sync | `ledger` and `rows` are kept per kind of id: the stamp of the reply endpoint (`bts`) or Graph's (`raw`); `draft`/`held` are a sync's uncommitted rows and ledger entries; `raced` is history |
| `HawbIngest` | batches, retries, the automatic booking after them, TRACE deliveries | `doc`, `man` are statuses, `owner` says where a HAWB number has its job, `upds` counts pending updates, `refused` are the manifests whose booking is marked failed and `told` those an alert was sent about, `accepted` the deliveries that have a manifest; `work` holds the locals of a batch; `calls`, `raced`, `rerun`, `met`, `aborted`, `lost`, `missed`, `passed` are history |
| `ManifestExport` | requests on one manifest, and the carrier | `row`, `job`, `upd` are rows; `req` is what each request has read; `orders` is what the carrier has; `overlap`, `lost`, `garbled`, `excused`, `reopened` are history |
| `StopPlan` | from jobs to the stops of an order | one step per iteration of the code's loops; `groups`, `stops`, `legs`, `slots`, `route`, `packages` are its lists |
| `BookingDesk` | requests on one booking, a poller that opens it, the dashboard's cache | `row`, `allocs`, `support` are tables; `told` and `joined` are what the events say; `req` is what each request has read; `stats` is the cache and `fill` a count under way; `had`, `doubt`, `alone` and `stale` are history |
| `RoundRobin` | saves of the attendance and pollers that allocate | `rows` is the table, `pointer` the key in Redis; `save` and `poll` are locals; `doubled`, `turns`, `uneven` are history |
| `GraphSubscription` | the subscriptions of workers and Celery children, day by day | `held` is `_subscription_id` of each process, `due` the sleep of each worker, `beat` that of Celery beat, `tasks` what it sent and no child took, `left` what Graph knows; `last` is history |
| `EmailIntakeProofs`, `MailThreadProofs`, `HawbIngestProofs`, `ManifestExportProofs`, `StopPlanProofs`, `BookingDeskProofs`, `RoundRobinProofs`, `GraphSubscriptionProofs` | theorems about the module they are named after | |
| `MCEmailIntake`, `MCManifestExport`, `MCHawbIngest`, `MCStopPlan`, `MCBookingDesk`, `MCRoundRobin` | instances for TLC | |

A step is the code between two points where somebody else can get in: a call of
another system, or the end of a transaction. What a transaction writes becomes
visible in its commit step; what a request has read before an `await` is kept in
its state and used as it was. A failure is a step that uses up one of
`MaxFaults`, so that each run says how many failures it allows; a crash throws a
process's locals away and keeps the tables. In all modules, variables marked
*history* are not in the code: they say what happened (who overlapped whom, which
answer was lost) so that a property can name the only causes of a bad state.

Abstractions worth knowing:

- A message is a constant with its relations: which messages its headers name,
  its prefix (`Re:`, `Fwd:`, a tag in brackets or none), subject, conversation.
  As in the code, whatever stripping takes off a subject marks it as a reply. Where
  a query has `LIMIT 1` without order, or headers are tried one by one, any hit may
  be the answer.
- In `EmailIntake` the agent of a new booking is reduced to whether there is one,
  because a booking with an `allocation_log` row cannot be deleted (the delete fails
  on the foreign key). Which agent it is, is `RoundRobin`. The desk may give any
  number that is free; a random number and one of the caller's own differ in nothing.
  A transaction that inserts a key which another open transaction has inserted waits
  for it, and a deletion waits for rows that refer to the booking.
- What extraction reads in a file is a constant (`Content`). Label files are read
  as blind ones with no content.
- `ManifestExport` gives every edit a fresh version number and leaves out what a
  booking itself writes to jobs before it is decided (service types, defaults of
  a Thinventory manifest). SQLAlchemy writes the columns whose value differs from
  the one that was read: `Save`. A refused precondition of the export is `Reject`;
  `StopPlan` has the one about merged stops.
- In `StopPlan` a place stands for all spellings `address_identity_key` takes for
  one, a group is a set of positions and its first job is the lowest one. It
  follows `export_manifest_dual`; the automatic booking runs the same functions.
- In `BookingDesk` a request is numbered when its transaction begins, which is at
  its authentication; its events carry that time (`now()` of PostgreSQL) and
  `get_booking_events` lists them by it. `told` keeps, for status and agent, the
  event that comes last in that list. "Ignored" closes a booking like "Completed"
  does. What a request has read is reset in the state when nothing depends on it.
- In `RoundRobin` a body with several records is several saves, because no agent's
  rows depend on another's. The columns of a row are status and shift.
- In `GraphSubscription` time passes in days. A worker renews when its sleep is
  over and no day passes while one is due or a call is under way, since calls take
  seconds; any child of the Celery pool may take a task, on the day or later. An id
  is used again after it expired everywhere.
- In `HawbIngest` the booking with the carrier is one step (`Book`) that is
  committed as booked or as failed; its inside is `ManifestExport`. The alert about a
  failure is a later step (`Alert`), which may fail or never come.
- In `BookingDesk` an event says what the status or the agent became; what it says
  they were before (`old_value`) is left out.

### How they compose

`EmailIntake` instantiates `OnceLedger` with the ledger table and a count of what
was recorded (`ImplementsLedger`): two kinds of writer keep one promise in two ways,
pollers by an insert that fails on a conflict, in the transaction that does the work,
syncs by one that ignores it. `EmailIntake`
calls the ingest in one step (`IngestHawb`), whose inside is `HawbIngest`, which claims the message in a table of its own; where it
opens a booking with an agent or without one, `RoundRobin` says which agent, and
`BookingDesk` begins (`PollerOpens`). `HawbIngest` composes four things that share
the tables of jobs and manifests: batches, retries, the automatic booking after
each commit, and the deliveries of TRACE. `ManifestExport` starts where that one
ends (an open manifest, and for a Thinventory note the automatic booking), and
`StopPlan` is what happens between its reading of the jobs and its call of the
carrier. `MailThread` takes the booking and its opening message, made by
`EmailIntake`, as given; a sync is in both, with what it does to outbound mail in one
and to inbound mail in the other. A notification of `GraphSubscription` starts one more
poller, of which `EmailIntake` has any number.

## The runs

| Run | Question | Bounds | Distinct states |
|---|---|---|---|
| `email_intake` | Is each message recorded once, in one thread and where it belongs, and is the intake a ledger? | 3 messages, 2 pollers, 2 booking numbers, 1 fault | 1 460 000 |
| `email_sync` | The same with a sync and the desk: is it still a ledger, is what a poller closes seen by the HAWB pipeline, do rows and bookings stay together, and is every message recorded in the end? | 2 messages, 1 poller, 1 sync, 1 booking by the desk, 3 booking numbers, 1 fault | 257 000 |
| `mail_thread` | Can a mail be stored twice without a race, be closed unstored, or stay unstored? | 1 reply, 1 other mail, 2 pollers, 2 syncs, 1 fault | 116 000 |
| `manifest_export` | What can two concurrent requests do to a manifest and its order? | 1 job, 1 update, 2 requests, 1 edit, 2 orders, 1 fault | 3 230 000 |
| `hawb_ingest` | Is anything dropped, extracted twice, left unbooked in silence, or extracted for ever? | 2 e-mails, 4 files, 2 TRACE deliveries, 2 HAWBs, 2 workers, 2 retries or deliveries asked for, 1 fault | 306 000 |
| `stop_plan` | Is the order that is booked what the paperwork says? | up to 3 jobs of 21 kinds, 3 places, 4 choices of start and end | 477 000 |
| `round_robin` | Has an agent one row a day, and are turns even? | 2 agents, 1 shift, 2 savers, 2 pollers, 3 rows, 3 saves, 3 bookings, 1 fault | 935 000 |
| `booking_desk` | Do history, log, times, supporters and statistics agree with the booking? | 2 agents, 2 requests at a time and 3 in all, 2 target statuses, 1 count, 1 fault | 2 370 000 |
| `graph_subscription` | Is each worker subscribed, in the end and in between, and do subscriptions pile up? | 2 workers, 2 Celery children, 7 ids, period 2, life 3, 1 waiting task, 1 fault | 388 000 |
| `manifest_double_booking`, `stop_plan_order`, `stop_plan_merge` | violations, see below | 1 or 2 of everything, no fault | |

Why the bounds are enough. The hazards of the intake are between a message and its
reply (by header, conversation or subject), a message without id, and two writers
that do the same. `email_intake` has two pollers, a reply by header, a request that a
gateway tagged and a message without id, all in one conversation; `email_sync` a
poller, a sync and the desk, which gives numbers that the sequence has yet to reach
or that were just deleted, copies messages and gives the subject a forwarded request
is looked up by, and a message that only the sync can store, because it has no
subject. A third poller or a second sync can only do what one of the others could,
and the theorems have any number. One fault per behaviour strikes at every step of
every interleaving; what is retried after it is then unhindered. The two numbers of
`email_intake` are fewer than its messages, so that the sequence also runs out; the
three of `email_sync` are as many as one message, one booking of the desk and one
fault can use, so that it does not, which would end what is promised. A message
that the poll filters out is skipped by it like one that is in the ledger, and to a
sync it is like any other; such messages are in the theorems only. In
`manifest_export` all conflicts are between two requests; two orders are enough to
have one too many, and one job is enough since a request treats all of them alike.
The e-mails of `hawb_ingest` have a note, a blind form for one of its HAWBs, a
file that comes again under its name and a file that is too large, with two HAWB
numbers that appear on both sides; the fault is a batch or an
alert that fails, or a crash; the two TRACE deliveries have one reference and
one of the numbers each, so that they compete with each other and with the e-mails.
In `stop_plan`, merging, collapsing and sharing
relate two jobs and three is the least number where the order of two relations
matters; the kinds of job cover each service, either address in the UK or not, a
missing address, a contact and a manual group. In `round_robin` the turn moves on at
every booking, so three bookings by two agents come round to the first one again;
two overlapping saves make the duplicate and a third repairs it. In `booking_desk`
two requests overlap and a third, alone or not, comes after them; "Open" and
"Completed" are the targets because "In Progress" and "Pending" are reached through
agents and creation. Seven ids of `graph_subscription` are more than four
processes and one failure can use, so an id is always free, and two children show
that each has a subscription of its own. Symmetry is used for
workers and requests, only in runs without liveness.

A run checks deadlock unless the system may really stop: a manifest or a booking
that was closed takes no more requests, bounded saves and bookings are used up, a
mailbox whose e-mails are ingested needs no worker, a plan ends. There
`CHECK_DEADLOCK` is `FALSE`. The intake, the thread and the subscriptions always go
on, and are checked.

### Fairness

- `EmailIntake`: weak fairness of each poller and of each sync that has begun. Every
  worker polls again every five minutes for as long as it lives and a dead one is
  restarted; a request ends; only the number of faults is bounded. Nothing is assumed
  of the order in which messages are taken, of new syncs or of the desk.
- `MailThread`: weak fairness of a running sync, strong fairness of the polls: for
  each mail, that some poller takes it, and for each poller that it finishes.
  A poll starts over every five minutes and goes through its whole list, so a mail
  that stays missing is taken, though not while every poller is busy with another;
  an insert waits while a sync holds the ledger row, and gets its turn although
  syncs come and go. Neither is enabled all the time, hence strong fairness. It
  also means that no mail fails for ever: a mail of the Sent Items whose
  attachments can never be fetched ends every poll, and nothing behind it is stored.
  Nothing is assumed of the reply endpoint, which is a request that may die.
- `HawbIngest`: weak fairness of each worker while it works. No retry or delivery is
  assumed to be asked for.
- `GraphSubscription`: weak fairness of `Day`, of `Send` and of each process's `Step`:
  time goes on, beat sends its task, a call ends (all have timeouts), a worker that
  died is started again by its supervisor, and a child takes a task that waits. It assumes that `WEBHOOK_BASE_URL` is set, without which nothing is
  ever registered. Failures are not fair and bounded in number.

### What the runs show

The properties of the passing runs hold. Several say under which circumstances a
bad state is reached, and TLC shows them to be the only ones: a mail is stored
twice only when two writers overlapped (`DuplicatesNeedARace`); a thread is split
only when a reply was looked up before a message it names was stored
(`SplitsHaveACause`); mail is in a booking it has no link to only if it was on its
way to a booking that was deleted, whose number the desk gave again
(`FiledWhereLinked`); a manifest is booked without an order only after an answer that
was none passed for one (`BookedHasAnOrder`), and differs from its order only in what
an edit that overlapped a booking, an update under the lock or an edit after the
reopening of a booked manifest has written (`BookedAsShown`); there is a second
order only after an overlap or a lost answer (`SecondOrderHasACause`); a cancelled
manifest has an order, or an exported one unlocked jobs, only after an overlap
(`CancelledIsNotBooked`, `ExportedIsLocked`); a failed manifest has jobs only after
two overlapping retries (`FailedHasNoJobs`); a manifest is stuck in extracting, or a
file without document, only after its batch failed (`ExtractionEnds`,
`NoPdfVanishes`); a Thinventory manifest is open in silence only if the worker that
was to book it or to tell of it failed, or if it was cancelled while its booking was
due (`OpenIsDueOrReported`); a reference has two TRACE manifests
only if two deliveries overlapped (`OneManifestPerRef`); an agent has two rows a day
only after overlapping saves, until a save repairs it (`OneRowPerAgent`); turns are
uneven only after overlapping draws, a lost booking or a pool that changed under a
poller (`FairTurns`); the history tells something else than the booking only where
requests overlapped (`HistoryTells`); the dashboard is out of date only after an
assignment, a poller's booking, a request that died or a count that was overtaken
(`StaleHasACause`); a worker is without subscription only after a failure or a
lonely start (`SubscribedUnlessFailed`).

Three runs find what a comment of the code rules out:

1. `manifest_double_booking`: two overlapping exports both call the carrier
   (`schemas/hawb.py:188-191`).
2. `stop_plan_order`: a delivery that joins an earlier collection stop is driven
   before its own collection (`mytransport_export.py:602-607`).
3. `stop_plan_merge`: merged jobs that are driven both ways escape the check that
   a merged stop is one place, and all pick-ups but the first are lost
   (`mytransport_export.py:317-326`).

What modelling also brought up, each the exception that a property of a passing run
names, or without a property:

- A manual sync enters inbound e-mails in the ledger of the pollers without the HAWB
  pipeline (`email_messages.py:676-683`), which then never sees their documents,
  although it "must still get a chance to run" (`tasks.py:473-475`).
  `HawbBeforeLedger` has this exception (`synced`) and no other.
- A new request under a tag such as `[EXTERNAL]` counts as a reply (`IsMarked`) and is
  filed in an older booking of its conversation id, though the conversation is meant
  to be used "only when subject has Re:/Fwd: prefix" (`tasks.py:115-117`, `141`).
  `FiledWhereLinked` takes such a tag for a link, as the code does.
- Any answer below status 400 that is not the carrier's JSON counts as a booking,
  though "there is no other response shape" (`mytransport_export.py:737-750`,
  `774-779`): `garbled` in `BookedHasAnOrder`.
- An edit that overlaps a booking changes the exported manifest away from its order,
  though "what the user merged and reordered on the manifest is exactly what gets
  booked" (`hawb.py:594-596`): `excused` in `BookedAsShown`.
- The renewal task of Celery, meant to extend the subscription and to register one
  only "if subscription is lost" (`graph_subscription.py:66`), registers one more in
  each child of the pool, each of which starts one more poll per e-mail. The bound
  of `NoPileUp` counts the children for this reason.
- A reply is sent before it is recorded; a poll of the Sent Items in between stores
  it too, and it is stored twice (`tasks.py:806-807`). `DuplicatesNeedARace` allows
  this race and no other cause.
- A retry of a manifest whose HAWBs all have jobs queues the same review again, every
  time (`hawb_ingest.py:385-389`); two overlapping retries can set a booked manifest
  back to failed.
- At a cold start no process serves yet, so nobody answers Graph's handshake and
  nobody is subscribed before the first renewal, two days later; the five-minute
  poll bridges the gap.
- A booking that arrives while nobody is present stays without an agent: nothing
  fills the pending queue.
- A booking with rows in the allocation log cannot be deleted; the request fails.
- `create_booking` gives numbers from the range of the sequence (`bookings.py:28-31`).
  When the sequence reaches one, the poller's insert fails and the message waits for
  the next poll, which draws the next number.
- The alert about a Thinventory manifest that could not be booked is only logged if it
  cannot be sent (`thinv_auto_export.py:241-258`).

Each property has a mutant in its module (`(* Mutant: ... *)`): a definition with a
plausible bug, which TLC finds by that property.

## The proofs

The theorems hold for any sets of messages, e-mails, attachments, jobs, pollers, syncs,
workers, requests, agents and processes, and any bounds, from named assumptions on
the constants, which TLC evaluates in the runs:

- `MailAssumption`, `BoundAssumption`, `ThreadAssumption`: types; `NoMessage` and
  `NoBooking` are neither a message nor a booking; a reply is not also a message from
  outside.
- `AttachmentAssumption`: types; Thinventory notes are plain files; a file is not also
  a delivery of TRACE.
- `ManifestAssumption`: types; each update is for one job; `Nothing` is no job and no
  update.
- `PlanAssumption`: types of the kinds of jobs and manifests; `None` is no place, no
  contact and no mark.
- `DeskAssumption`: types; distinct null values.
- `RosterAssumption`: the roster is a list that names each agent once.
- `SubscriptionAssumption`: finite sets; a uvicorn worker is no Celery child; a subscription lives longer than the period
  of renewal, which the proof needs and the code's two constants satisfy.

Each property of a passing run that is not a liveness property is stated by a theorem.

Of the intake and the ledger:

- `TypeCorrect`: the type invariant, which also says that a poller at work has a
  message in hand and one that commits has a booking id. It is inductive.
- `LedgerCorrect`, from it `RecordedOnce`, `LedgerExact` and `IntakeIsALedger`.
  `IngestedOnce` is not inductive: it does not say that a message in the ledger was
  recorded, so a commit for a recorded message could not be ruled out. `LedgerInv`
  adds that the ledger is exactly the set of messages recorded once. Each commit
  then keeps it because the primary key refuses a message that is there
  (`~ IsProcessed`), and is a `Record` step of the ledger; a commit of a message
  without Message-ID, and every other step, leaves the ledger alone.
  A sync counts as recording what it is the first to enter: its commit is one
  `Record` step for the messages that are not in the ledger, of which there may be
  several or none.
- `HawbFirst`: `HawbInv` adds that a poller beyond the HAWB step with a message
  that has files has seen its claim, and a sync marks what it closes. What a sync
  closes has not had its turn.
- `BookingsCorrect`, from it `RowsCorrect`. Numbers come from two sources, the sequence
  and the desk, so uniqueness does not follow from the sequence. `BookInv` says that the
  number a poller holds is at most `seq`, is no other poller's and is free, which
  needs both that the insert of a number in use fails and that the desk waits for a
  poller that is opening the booking; that a booking stays while a sync holds rows of
  it; and that rows and bookings refer to each other.
- `LedgerIsExactlyOnce` is about the abstract ledger: an item has an effect just when
  it was entered, and one. With `IntakeIsALedger` it holds of the intake, and so does
  `EntriesStay`: no entry is ever taken out, whatever is deleted.
- `RepliesAreLinked` (`FiledWhereLinked`): the link between a message and a booking is
  found in one transaction and used in a later one, by pollers and by syncs. `LinkInv`
  says that for as long as the booking exists the link is still there at the commit
  (`Fits` for the messages of pollers, `SyncFits` for those a sync has listed), since
  rows leave a thread only with their booking. When the booking goes, the messages on
  their way to it are `misled`, because the desk may give its number to another one.
- `SplitsAreEarly` (`SplitsHaveACause`): any number of pollers and syncs. `EarlyInv` says
  that a message for which a booking was opened, or is about to be, and which names a
  stored one was looked up before that one was stored: the lookup would have found it,
  and each insert marks what was looked up before it.

Of the thread (each layer uses the ones above it):

- `TypeCorrect`: the type invariant, inductive.
- `HandInv`: whatever a poller or sync has in hand was listed by Graph, and a sync
  holds ledger entries only for rows it has flushed.
- `StoredIfLedgered`, `NothingPhantom`: `LedgeredIsStored` is not inductive, since a
  sync's ledger entries come from what it holds. `StoreInv` adds that a stored mail is
  in the ledger under one of its ids, and that every row a sync has flushed is in the
  ledger, held for it or next to be entered.
- `OnlyRacesDuplicate`: `RaceInv` says that a mail which no two writers were storing
  at once has at most one row and at most one writer, and none of its rows is stored
  while it has one. A poller looks for the mail in the ledger and a sync in the rows;
  `StoreInv` is what makes the two views agree.

Of the HAWB ingest (`TypeCorrect`, with the shape of each worker's locals in
`IngestTypes`, is used by the others):

- `DeliveredOnce` (`OneManifestPerRef`): `RefInv` says that a reference is known to
  have met another delivery as soon as two of it run at a time, or one runs while
  another has its manifest.
- `NumbersAreKept` (`NeverDropped`): `KeptInv` says what keeps a number that was read
  from being dropped: the worker still has to look at it, to insert it or to queue it.
- `OpenManifestsHaveJobs` (`OpenHasJobs`): a job is never moved to another document.
- `OpenIsBookedOrReported` (`OpenIsDueOrReported`): `DueInv` says the same of cancelled
  manifests, which may be reopened: the booking is due, the alert about its failure is
  sent or due, or one of them was cut off or found the manifest cancelled. Nobody but
  the worker a manifest is due with takes it off its list.
- `FilesAreFound` (`NoPdfVanishes`): `FoundInv` says that a batch under way has each of
  its files still in hand, or the file has a document.
- `NamesAreExtractedOnce` (`ExtractedOncePerName`): two files of one name in two
  e-mails are known to race as soon as both are waiting for the extraction or through
  it. The file name is checked against documents that are committed later.
- `FailedManifestsAreEmpty` (`FailedHasNoJobs`): a document has neither jobs nor a retry
  until its batch is over (`JobInv`); a retry asks for a failed manifest, and one
  that is alone at it works on a document without jobs (`RetryInv`).

Of the manifest:

- `TypeCorrect` has the type of what a request has read (`ReqType`) in it.
- `BookingsHaveOrders` (`BookedHasAnOrder`): every order number in the row or in the
  hands of a request comes from an order of the carrier (`NumberInv`), and there is an
  order wherever a booking is said or about to be said, unless an answer that was
  none has passed for one.
- `SecondOrdersHaveACause` (`SecondOrderHasACause`): `OrderInv` says that without an
  overlap or a lost answer one booking runs at a time, that what it has read of an
  earlier booking is still so, and that there is one order at most.
- `CancelledIsFree`, `ExportLocks` (`CancelledIsNotBooked`, `ExportedIsLocked`): one
  invariant, `LockInv`: without an overlap no export runs beside a request that unlocks
  (`Apart`), and the jobs of an exported manifest are locked.
- `BookingsAreShown` (`BookedAsShown`) excuses single versions of fields and no overlap as
  such. `ExcuseInv`: an edit that runs beside a booking is excused. `ReopenInv`: until
  a booked manifest is reopened, its jobs stay locked and it is not open. `ReadInv`:
  what a booking has read is what is there, but for excused versions, and it has an
  order with that when the carrier has answered. `BackedInv`: once a booking was
  committed that the manifest rests on, an order shows the manifest as it is, and no
  edit under way can change that without being excused.

Of the stops. The loops of the code are steps of the model, so what they compute is
an invariant, and holds for manifests of any length without induction over data.
`PlanInv` has a conjunct for each stage: `Merged` (each job gone over is in one
group, by its merge key), `Agreed` (no group is in conflict), `Collapsed` (each job of the
groups gone over is in one stop, the jobs of a stop have one service and, unless a
contact merged them, one address, and no two stops are one visit), `Emitted` (the stops
gone over have each of their legs, once), `Slotted` (each leg is in one slot, and two
that share one are a collection and a delivery at one place) and `Route`. When a
loop ends, its invariant over the whole list is what the next one starts from
(`Whole`). From it `LegsAreBookedOnce`, `AddressesAreRight`, `StopsAreShared` and
`PackagesAreDelivered` (`EveryLegBookedOnce`, `StopsAtOwnAddress`, `NoStopTwice`,
`PackagesFollowDeliveries`); `Sizes` completes it to `TypeCorrect`. `StopsAtOwnAddress`
is about jobs driven both ways too, and names the one group of them that is driven
elsewhere: those merged into the group of an earlier job (`stop_plan_merge`).

Of the booking desk:

- `TypeCorrect` and `SupportersAsTold` are one inductive invariant, `DeskTypes`: that
  a count of "added" less "removed" events is no negative number needs that it
  agrees with the supporters. `BodyInv` says what the body of each request holds.
- `EndsNoted`, `AgentsLogged`: `ClosedHasEnd` and `AgentIsLogged` are not inductive,
  because a commit decides from what its request had read. `HadInv` is that the log
  holds those who have had the booking, no more and no fewer. `LogInv` adds `StillTrue`:
  what a request has read of times and log entries is still so at its commit,
  whoever came in between, because times are never reset, the log only grows, and a
  column that the request leaves as read keeps what others wrote.
- `HistoryTellsTruth`: `Alone` says that a request which overlaps with nobody is the
  only one running and that the booking is as it read it. The lemma
  `TellsWhatItWrites` then covers the three commits that write events.
- `DashboardExplained`: `CacheInv` adds that a count under way which a commit
  overtook is known to be stale before it is cached.

Of the round robin:

- `RowsAreSingle` (`OneRowPerAgent`): `RowsInv` says that an id belongs to one agent
  for ever and to one row of the table, that a save keeps one row at most, and that
  what a save without competitor has read is all the rows its agent has. The table is
  finite because its rows have different ids, so a set of one element is a singleton.
- `TurnsAreFair` (`FairTurns`): `TurnInv` says that, while nothing has disturbed the
  order, the pollers at work have the pool as it is, one ticket at most is out and it is
  the last one, and there are a place s in the pool and a number q such that each agent
  listed once has had q+1 turns if it comes between s and the place whose turn it is,
  going round, and q if not. A draw hands the turn to the place that is next by the
  remainder of the pointer; the lemmas on remainders say that it goes round. When the
  pool changes, the count starts over.
- `TypeCorrect`: `Bounds` says that every turn and every undecided poller is an
  allocation of its own, which bounds the pointer.

Of the subscriptions:

- `TypeCorrect`, inductive.
- `SubscribedAfterSuccess`: `OutliveInv` says that the subscription of a worker whose
  last attempt succeeded has more days left than the process will sleep.
- `FewSubscriptions`: `OrphanInv` counts the live subscriptions that no process knows
  of: each failure makes one at most. Those that are known are not more than the
  workers and Celery children, by an injection; a process asks for one only when it
  knows of none.

The type invariant of every module is proved. That of `HawbIngest` is also checked by
its run, the others are not repeated there.

Only model-checked: all liveness (`EventuallyRecorded`, `EventuallyStored`,
`ExtractionEnds`, `Heals`), which is out of reach of the prover, as are `ENABLED` and
induction over data. The three violations are counterexamples and have nothing to
prove.

## Not modelled

- Of the booking desk: what an event says the status or agent was before, read marks, account code, priority, parent and child
  bookings, config values: single columns that no other behaviour depends on.
  Allocation log and pending queue are also listed by routers of their own; nothing
  ever fills the pending queue.
- Of the dashboard, all but the cached count by status; reports and the history
  pages are queries, some cached for 300 seconds and never cleared.
- Notifications and live events: best-effort rows and messages for the screen.
- Shifts, users, roles, agents, dropdowns, templates: create, read, update and
  delete of single rows. Authentication is stateless tokens.
- AI extraction and Nexus: calls of services, whose answers are constants or choices.
- `confirm`, `hold` and `mark-exported` (`routers/hawb.py:711-763`) act on statuses
  nothing sets any more.
- Maintenance scripts are run by hand, the rest of the repository is configuration.

## Plan

Done, in this order: `EmailIntake` with `OnceLedger`, `MailThread`, `ManifestExport`,
`HawbIngest`, `StopPlan`, `RoundRobin`, `BookingDesk`, `GraphSubscription`, TRACE and
automatic booking in `HawbIngest`; proofs about all of them, of every safety property;
then the writers beside the pollers (sync and desk in `EmailIntake`, Celery in
`GraphSubscription`), answers of the carrier that are none, and the alert after a
failed booking.

1. Read marks of a thread, which the poll, the desk and Graph all set, as a module of
   its own.
2. Larger instances of `manifest_export` (two jobs) with fewer operations at a time.
   The theorems have any number of jobs; it would show that two are of interest.
