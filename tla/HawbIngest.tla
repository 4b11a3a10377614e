----------------------------- MODULE HawbIngest -----------------------------
(***************************************************************************)
(* How the attachments of an e-mail become HAWB documents, jobs and        *)
(* manifests (app/services/hawb_ingest.py, the retry of an extraction in   *)
(* app/routers/hawb.py), how Thinventory manifests are then booked by      *)
(* themselves (app/services/thinv_auto_export.py), and how the TRACE       *)
(* system creates manifests next to them (app/routers/trace_api.py).       *)
(*                                                                         *)
(* A batch claims its e-mail in a transaction of its own, commits one      *)
(* placeholder per document before the slow extraction of that document,   *)
(* and writes everything else in one transaction at the end.  If the batch *)
(* fails in between, the claim and the placeholders stay.  Batches of      *)
(* different e-mails, retries of single documents and TRACE requests run   *)
(* at the same time; a HAWB number is unique in the table of jobs.         *)
(***************************************************************************)
EXTENDS Naturals, FiniteSets

CONSTANTS
    Mails,          \* e-mails with attachments
    Atts,           \* attachments, each of one e-mail
    Hawbs,          \* HAWB numbers
    MailOf,         \* MailOf[a]: the e-mail of attachment a
    Name,           \* Name[a]: its filename
    Sort,           \* Sort[a]: "plain", "blind" (an MF-PCS form or a label),
                    \* "broken" (a PDF that is empty or too large) or "other"
    Thinv,          \* the attachments that are Thinventory delivery notes
    Traces,         \* manifests that TRACE delivers
    RefOf,          \* RefOf[t]: the external_ref of delivery t
    Content,        \* Content[a]: the HAWB numbers that the extraction of
                    \* attachment a yields, or that delivery a lists
    Workers,        \* batches, retries and requests that run at one time
    Nobody,
    MaxAsked,       \* how many retries and TRACE manifests are asked for
    MaxFaults       \* how many batches, retries and requests fail or die

ASSUME AttachmentAssumption ==
    /\ MailOf \in [Atts -> Mails]
    /\ Sort \in [Atts -> {"plain", "blind", "broken", "other"}]
    /\ Thinv \subseteq {a \in Atts : Sort[a] = "plain"}
    /\ Content \in [Atts \cup Traces -> SUBSET Hawbs]
    /\ Atts \cap Traces = {}
    /\ Nobody \notin Atts \cup Mails \cup Traces
    /\ MaxAsked \in Nat /\ MaxFaults \in Nat

VARIABLES
    claims,         \* table hawb_processed_emails
    doc,            \* the document of each attachment: its status
    man,            \* the manifest of each document: its status
    owner,          \* owner[h]: the document whose manifest has job h
    upds,           \* upds[h, a]: pending updates proposed for h by a
    refused,        \* manifests whose automatic booking is marked failed
    told,           \* manifests of whose failed booking an alert was sent
    accepted,       \* the deliveries of TRACE that have a manifest
    work,           \* the workers
    asked,          \* retries and TRACE manifests asked for so far
    faults,
    calls,          \* history: attachments extracted by a batch
    raced,          \* history: filenames two batches had at the same time
    rerun,          \* history: documents two retries had at the same time
    met,            \* history: external_refs delivered twice at one time
    aborted,        \* history: documents whose batch or retry failed
    lost,           \* history: e-mails whose batch failed
    missed,         \* history: manifests whose booking or alert was cut off
    passed          \* history: manifests whose booking found them cancelled

races == <<raced, rerun, met>>
failures == <<aborted, lost, missed, passed>>
hist == <<calls, races, failures>>
tables == <<claims, doc, man, owner, upds, refused, accepted>>
vars == <<tables, told, work, asked, faults, hist>>

Idle == [stage |-> "idle", mail |-> Nobody, att |-> Nobody, todo |-> {},
         dups |-> {}, good |-> {}, bad |-> {}, rows |-> {}, ins |-> {}, ups |-> {}]

(* The stages after the commit, in which Thinventory manifests are booked. *)
After == {"book", "alert"}

AttsOf(m) == {a \in Atts : MailOf[a] = m}

Init ==
    /\ claims = {}
    /\ doc = [a \in Atts |-> "none"]
    /\ man = [a \in Atts |-> "none"]
    /\ owner = [h \in Hawbs |-> Nobody]
    /\ upds = [x \in Hawbs \X Atts |-> 0]
    /\ work = [w \in Workers |-> Idle]
    /\ refused = {} /\ accepted = {} /\ told = {}
    /\ asked = 0 /\ faults = 0
    /\ calls = {} /\ raced = {} /\ rerun = {} /\ met = {}
    /\ aborted = {} /\ lost = {} /\ missed = {} /\ passed = {}

-----------------------------------------------------------------------------
(* A batch.                                                                *)

(* INSERT ... ON CONFLICT DO NOTHING: a caller that inserts no row returns *)
(* at once, and changes nothing.                                           *)
Claim(w, m) ==
    /\ work[w] = Idle
    /\ m \notin claims
    /\ claims' = claims \cup {m}
    /\ work' = [work EXCEPT ![w] = [Idle EXCEPT !.stage = "check", !.mail = m]]
    /\ UNCHANGED <<doc, man, owner, upds, refused, accepted, told, asked, faults, hist>>

Names(as) == {Name[a] : a \in as}

KnownNames == Names({a \in Atts : doc[a] # "none"})

Extractable(m) == {a \in AttsOf(m) : Sort[a] \in {"plain", "blind"}}

(* The files whose name is known: each gets a document and a manifest that *)
(* is "ignored".                                                           *)
Resent(m) == {a \in AttsOf(m) : Name[a] \in KnownNames}

(* Mutant: filenames are not looked up.                                    *)
CheckNoNames(w) ==
    /\ work[w].stage = "check"
    /\ work' = [work EXCEPT ![w].stage = "extract", ![w].todo = Extractable(work[w].mail)]
    /\ UNCHANGED <<tables, told, asked, faults, hist>>

(* Files whose name is known are set aside.  Anything that is no PDF has   *)
(* no document, so it is never known and never gets one.                   *)
CheckNames(w) ==
    LET m == work[w].mail
        dups == Resent(m)
        others == UNION {work[v].todo : v \in Workers \ {w}}
    IN
    /\ work[w].stage = "check"
    /\ work' = [work EXCEPT ![w].stage = "extract",
                            ![w].dups = dups,
                            ![w].todo = Extractable(m) \ dups]
    /\ raced' = raced \cup (Names(Extractable(m) \ dups) \cap Names(others))
    /\ UNCHANGED <<tables, told, asked, faults, calls, rerun, met, failures>>

(* The file is in S3; the document, and for a plain one the placeholder    *)
(* manifest, are committed.  Plain documents come first.                   *)
Placeholder(w, a) ==
    /\ work[w].stage = "extract"
    /\ a \in work[w].todo
    /\ Sort[a] = "blind" => \A b \in work[w].todo : Sort[b] = "blind"
    /\ doc' = [doc EXCEPT ![a] = "processing"]
    /\ man' = [man EXCEPT ![a] = IF Sort[a] = "plain" THEN "extracting" ELSE @]
    /\ work' = [work EXCEPT ![w].stage = "ai", ![w].att = a, ![w].todo = @ \ {a}]
    /\ UNCHANGED <<claims, owner, upds, refused, accepted, told, asked, faults, hist>>

(* The extraction answers, or raises, which makes the document a failed    *)
(* one.  The result is in memory until the end.                            *)
Extract(w) ==
    LET a == work[w].att IN
    /\ work[w].stage = "ai"
    /\ \/ work' = [work EXCEPT ![w].stage = "extract", ![w].good = @ \cup {a}]
       \/ work' = [work EXCEPT ![w].stage = "extract", ![w].bad = @ \cup {a}]
    /\ calls' = IF work[w].mail = Nobody THEN calls ELSE calls \cup {a}
    /\ UNCHANGED <<tables, told, asked, faults, races, failures>>

-----------------------------------------------------------------------------
(* Matching.  A row says which job is to be inserted, for which document,  *)
(* and from which file.                                                    *)

Plain(w) == {a \in work[w].good : Sort[a] # "blind"}
Blind(w) == {a \in work[w].good : Sort[a] = "blind"}

Companions(w, h) == {a \in Plain(w) : h \in Content[a]}

(* A HAWB of a blind file goes to a plain document that has it too (the    *)
(* last one in the e-mail), and then it is not taken from plain files.     *)
Home(w, h, b) ==
    IF Companions(w, h) = {} THEN b ELSE CHOOSE a \in Companions(w, h) : TRUE

BlindHawbs(w) == UNION {Content[b] : b \in Blind(w)}

RowsFrom(w, a) ==
    IF Sort[a] = "blind"
    THEN {[hawb |-> h, doc |-> Home(w, h, a), from |-> a] : h \in Content[a]}
    ELSE {[hawb |-> h, doc |-> a, from |-> a] : h \in Content[a] \ BlindHawbs(w)}

Match(w) ==
    /\ work[w].stage = "extract"
    /\ work[w].todo = {}
    /\ work' = [work EXCEPT
         ![w].stage = "dedupe",
         ![w].rows = UNION {RowsFrom(w, a) : a \in work[w].good}]
    /\ UNCHANGED <<tables, told, asked, faults, hist>>

HasJob(w, h) == owner[h] # Nobody \/ \E r \in work[w].ins : r.hawb = h

(* Mutant: a number that has a job is dropped.                             *)
DedupeDrops(w, r) ==
    /\ work[w].stage = "dedupe"
    /\ r \in work[w].rows
    /\ work' = [work EXCEPT
         ![w].rows = @ \ {r},
         ![w].ins = IF HasJob(w, r.hawb) THEN @ ELSE @ \cup {r}]
    /\ UNCHANGED <<tables, told, asked, faults, hist>>

(* One row: an update is queued if the number has a job, committed or      *)
(* flushed by this batch, and the job is inserted if not.                  *)
Dedupe(w, r) ==
    /\ work[w].stage = "dedupe"
    /\ r \in work[w].rows
    /\ work' = [work EXCEPT
         ![w].rows = @ \ {r},
         ![w].ins = IF HasJob(w, r.hawb) THEN @ ELSE @ \cup {r},
         ![w].ups = IF HasJob(w, r.hawb) THEN @ \cup {r} ELSE @]
    /\ UNCHANGED <<tables, told, asked, faults, hist>>

Inserted(w, a) == {r \in work[w].ins : r.doc = a}

(* Mutant: a plain document's manifest opens even if nothing landed on it. *)
OutcomeAlwaysOpen(w, a) == "open"

(* Mutant: a manifest on which nothing landed is left alone.               *)
OutcomeOpensOnly(w, a) == IF Inserted(w, a) # {} THEN "open" ELSE man[a]

(* The manifest of a document whose batch commits: that of a plain one     *)
(* opens if a job landed on it and fails if none did; a blind one gets an  *)
(* open manifest only then.                                                *)
Outcome(w, a) ==
    IF Inserted(w, a) # {} THEN "open"
    ELSE IF Sort[a] = "blind" THEN man[a] ELSE "failed"

(* Mutant: a batch that has extracted nothing skips the rest.              *)
BrokenOfUseful(w) ==
    {a \in AttsOf(work[w].mail) \ work[w].dups : Sort[a] = "broken" /\ work[w].good # {}}

(* The PDFs that are empty or too large: a failed document and manifest.   *)
BrokenOf(w) ==
    {a \in AttsOf(work[w].mail) \ work[w].dups : Sort[a] = "broken"}

Insertable(w) == \A r \in work[w].ins : owner[r.hawb] = Nobody

(* Mutant: a retry does not book.                                          *)
DueOfBatches(w) ==
    {a \in (work[w].good \cup work[w].bad) \cap Thinv :
        Outcome(w, a) = "open" /\ work[w].mail # Nobody}

(* The manifests that are booked by themselves after the commit.           *)
Due(w) == {a \in (work[w].good \cup work[w].bad) \cap Thinv : Outcome(w, a) = "open"}

(* A worker with nothing left to do is idle.                               *)
Rest(stage, todo) ==
    IF todo = {} THEN Idle ELSE [Idle EXCEPT !.stage = stage, !.todo = todo]

(* Everything else that the batch or the retry did, in one transaction.    *)
Commit(w) ==
    LET k == work[w] IN
    /\ k.stage = "dedupe"
    /\ k.rows = {}
    /\ Insertable(w)
    /\ owner' = [h \in Hawbs |-> IF \E r \in k.ins : r.hawb = h
                                 THEN (CHOOSE r \in k.ins : r.hawb = h).doc
                                 ELSE owner[h]]
    /\ upds' = [x \in Hawbs \X Atts |->
                  upds[x] + Cardinality({r \in k.ups : r.hawb = x[1] /\ r.doc = x[2]})]
    /\ doc' = [a \in Atts |->
                 IF a \in k.good THEN "processed"
                 ELSE IF a \in k.bad \cup k.dups \cup BrokenOf(w) THEN "failed"
                 ELSE doc[a]]
    /\ man' = [a \in Atts |->
                 IF a \in k.good \cup k.bad THEN Outcome(w, a)
                 ELSE IF a \in k.dups THEN "ignored"
                 ELSE IF a \in BrokenOf(w) THEN "failed"
                 ELSE man[a]]
    /\ work' = [work EXCEPT ![w] = Rest("book", Due(w))]
    /\ UNCHANGED <<claims, refused, accepted, told, asked, faults, hist>>

(* The files that a worker has taken out of its list.                      *)
InHand(w) == work[w].good \cup work[w].bad \cup ({work[w].att} \cap Atts)

(* Rollback: the claim and the placeholders stay as they are, and so does  *)
(* what was left to be booked, or to be told.                              *)
GiveUp(w) ==
    /\ IF work[w].stage \in After
       THEN /\ missed' = missed \cup work[w].todo \cup ({work[w].att} \cap Thinv)
            /\ UNCHANGED aborted
       ELSE /\ aborted' = aborted \cup InHand(w)
            /\ UNCHANGED missed
    /\ lost' = lost \cup ({work[w].mail} \cap Mails)
    /\ work' = [work EXCEPT ![w] = Idle]
    /\ UNCHANGED <<tables, told, asked, passed, calls, races>>

(* Another transaction has inserted one of the numbers meanwhile: the      *)
(* unique index refuses the whole batch.                                   *)
Conflict(w) ==
    /\ work[w].stage = "dedupe"
    /\ ~ Insertable(w)
    /\ GiveUp(w)
    /\ UNCHANGED faults

(* An upload or a statement fails, or the process dies.                    *)
Abort(w) ==
    /\ work[w].stage \in After \cup {"check", "extract", "ai", "dedupe", "clash", "create"}
    /\ faults < MaxFaults
    /\ faults' = faults + 1
    /\ GiveUp(w)

-----------------------------------------------------------------------------
(* The retry of one document.                                              *)

(* Mutant: an open manifest can be retried too.                            *)
AskRetryOpen(w, a) ==
    /\ work[w] = Idle
    /\ man[a] \in {"failed", "open"}
    /\ asked < MaxAsked
    /\ asked' = asked + 1
    /\ work' = [work EXCEPT ![w] = [Idle EXCEPT !.stage = "asked", !.att = a]]
    /\ UNCHANGED <<tables, told, faults, hist>>

AskRetry(w, a) ==
    /\ work[w] = Idle
    /\ man[a] = "failed"
    /\ asked < MaxAsked
    /\ asked' = asked + 1
    /\ work' = [work EXCEPT ![w] = [Idle EXCEPT !.stage = "asked", !.att = a]]
    /\ UNCHANGED <<tables, told, faults, hist>>

Retrying(a) ==
    {w \in Workers : /\ work[w].mail = Nobody /\ work[w].att = a
                     /\ work[w].stage \notin After}

(* Mutant: the statuses of manifest and document are mixed up.             *)
BeginRetrySwapped(w) ==
    LET a == work[w].att IN
    /\ work[w].stage = "asked"
    /\ doc' = [doc EXCEPT ![a] = "extracting"]
    /\ man' = [man EXCEPT ![a] = "processing"]
    /\ work' = [work EXCEPT ![w].stage = "ai"]
    /\ UNCHANGED <<claims, owner, upds, refused, accepted, told, asked, faults, hist>>

(* The request commits what it decided; a background task goes on.         *)
BeginRetry(w) ==
    LET a == work[w].att IN
    /\ work[w].stage = "asked"
    /\ doc' = [doc EXCEPT ![a] = "processing"]
    /\ man' = [man EXCEPT ![a] = "extracting"]
    /\ work' = [work EXCEPT ![w].stage = "ai"]
    /\ rerun' = IF Retrying(a) = {w} THEN rerun ELSE rerun \cup {a}
    /\ UNCHANGED <<claims, owner, upds, refused, accepted, told, asked, faults, calls,
                   raced, met, failures>>

-----------------------------------------------------------------------------
(* The automatic booking of Thinventory manifests, after the commit.  What *)
(* the desk does during the call of the carrier is in ManifestExport.      *)

(* One manifest: it is left alone unless it is open, and it is booked, or  *)
(* its booking is committed as failed.                                     *)
Book(w, a) ==
    LET rest == work[w].todo \ {a} IN
    /\ work[w].stage = "book"
    /\ a \in work[w].todo
    /\ \/ /\ man[a] = "open"
          /\ man' = [man EXCEPT ![a] = "exported"]
          /\ work' = [work EXCEPT ![w] = Rest("book", rest)]
          /\ UNCHANGED <<refused, passed>>
       \/ /\ man[a] = "open"
          /\ refused' = refused \cup {a}
          /\ work' = [work EXCEPT ![w] =
               [Idle EXCEPT !.stage = "alert", !.att = a, !.todo = rest]]
          /\ UNCHANGED <<man, passed>>
       \/ /\ man[a] # "open"
          /\ passed' = IF man[a] = "cancelled" THEN passed \cup {a} ELSE passed
          /\ work' = [work EXCEPT ![w] = Rest("book", rest)]
          /\ UNCHANGED <<man, refused>>
    /\ UNCHANGED <<claims, doc, owner, upds, accepted, told, asked, faults, calls, races,
                   aborted, lost, missed>>

(* The alert about it is sent after the commit ...                         *)
Alert(w) ==
    /\ work[w].stage = "alert"
    /\ told' = told \cup {work[w].att}
    /\ work' = [work EXCEPT ![w] = Rest("book", work[w].todo)]
    /\ UNCHANGED <<tables, asked, faults, hist>>

(* ... unless there is nobody to send it, or sending fails: that is logged.*)
AlertFails(w) ==
    /\ work[w].stage = "alert"
    /\ faults < MaxFaults
    /\ faults' = faults + 1
    /\ missed' = missed \cup {work[w].att}
    /\ work' = [work EXCEPT ![w] = Rest("book", work[w].todo)]
    /\ UNCHANGED <<tables, told, asked, calls, races, aborted, lost, passed>>

(* The database fails at one of them: that is logged, the others go on.    *)
BookFails(w, a) ==
    /\ work[w].stage = "book"
    /\ a \in work[w].todo
    /\ faults < MaxFaults
    /\ faults' = faults + 1
    /\ missed' = missed \cup {a}
    /\ work' = [work EXCEPT ![w] = Rest("book", work[w].todo \ {a})]
    /\ UNCHANGED <<tables, told, asked, calls, races, aborted, lost, passed>>

(* At the desk an open manifest is cancelled with its jobs ...             *)
Cancel(a) ==
    /\ man[a] = "open"
    /\ man' = [man EXCEPT ![a] = "cancelled"]
    /\ UNCHANGED <<claims, doc, owner, upds, refused, accepted, told, work, asked, faults,
                   hist>>

(* ... and reopened, which does not book it.                               *)
Reopen(a) ==
    /\ man[a] = "cancelled"
    /\ man' = [man EXCEPT ![a] = "open"]
    /\ UNCHANGED <<claims, doc, owner, upds, refused, accepted, told, work, asked, faults,
                   hist>>

-----------------------------------------------------------------------------
(* A manifest delivered by TRACE.                                          *)

SameRef(t, u) == RefOf[t] = RefOf[u]

Delivering(t) == {v \in Workers : work[v].att \in Traces /\ SameRef(work[v].att, t)}

(* Mutant: only a delivery of the same jobs counts as accepted.            *)
KnownExactly(t) == \E u \in accepted : Content[u] = Content[t]

(* The external_ref has a document.                                        *)
Known(t) == \E u \in accepted : SameRef(t, u)

(* An external_ref that has a manifest is answered with it.                *)
TraceFind(w, t) ==
    /\ work[w] = Idle
    /\ asked < MaxAsked
    /\ asked' = asked + 1
    /\ IF Known(t)
       THEN UNCHANGED <<work, met>>
       ELSE /\ work' = [work EXCEPT ![w] = [Idle EXCEPT !.stage = "clash", !.att = t]]
            /\ met' = IF Delivering(t) = {} THEN met ELSE met \cup {RefOf[t]}
    /\ UNCHANGED <<tables, told, faults, calls, raced, rerun, failures>>

Free(t) == \A h \in Content[t] : owner[h] = Nobody

(* HAWB numbers that exist already are refused.                            *)
TraceCheck(w) ==
    /\ work[w].stage = "clash"
    /\ work' = [work EXCEPT ![w] =
         IF Free(work[w].att) THEN [@ EXCEPT !.stage = "create"] ELSE Idle]
    /\ UNCHANGED <<tables, told, asked, faults, hist>>

(* Manifest, document and jobs are committed together.                     *)
TraceCommit(w) ==
    LET t == work[w].att IN
    /\ work[w].stage = "create"
    /\ Free(t)
    /\ accepted' = accepted \cup {t}
    /\ owner' = [h \in Hawbs |-> IF h \in Content[t] THEN t ELSE owner[h]]
    /\ work' = [work EXCEPT ![w] = Idle]
    /\ UNCHANGED <<claims, doc, man, upds, refused, told, asked, faults, hist>>

(* The unique index refuses a number that came in meanwhile: a rollback,   *)
(* and the same refusal.                                                   *)
TraceRefused(w) ==
    /\ work[w].stage = "create"
    /\ ~ Free(work[w].att)
    /\ work' = [work EXCEPT ![w] = Idle]
    /\ UNCHANGED <<tables, told, asked, faults, hist>>

-----------------------------------------------------------------------------

Work(w) ==
    \/ CheckNames(w)
    \/ \E a \in Atts : Placeholder(w, a)
    \/ Extract(w)
    \/ Match(w)
    \/ \E r \in work[w].rows : Dedupe(w, r)
    \/ Commit(w)
    \/ Conflict(w)
    \/ BeginRetry(w)
    \/ \E a \in Thinv : Book(w, a)
    \/ Alert(w)
    \/ TraceCheck(w)
    \/ TraceCommit(w)
    \/ TraceRefused(w)

Next ==
    \/ \E w \in Workers :
        \/ \E m \in Mails : Claim(w, m)
        \/ \E a \in Atts : AskRetry(w, a)
        \/ \E t \in Traces : TraceFind(w, t)
        \/ Work(w)
        \/ Abort(w)
        \/ \E a \in Thinv : BookFails(w, a)
        \/ AlertFails(w)
    \/ \E a \in Atts : Cancel(a) \/ Reopen(a)

Spec == Init /\ [][Next]_vars

(* A batch or a retry that has begun goes on: extraction ends or raises.   *)
FairSpec == Spec /\ \A w \in Workers : WF_vars(Work(w))

-----------------------------------------------------------------------------
(* Properties.                                                             *)

Alerting(w, a) == work[w].stage = "alert" /\ work[w].att = a

Row == [hawb : Hawbs, doc : Atts, from : Atts]

(* Every variable holds a value of its kind.                               *)
TypeOK ==
    /\ claims \subseteq Mails
    /\ doc \in [Atts -> {"none", "processing", "processed", "failed"}]
    /\ man \in [Atts -> {"none", "extracting", "open", "failed", "ignored", "exported",
                    "cancelled"}]
    /\ owner \in [Hawbs -> Atts \cup Traces \cup {Nobody}]
    /\ refused \subseteq Thinv /\ told \subseteq Thinv /\ accepted \subseteq Traces
    /\ upds \in [Hawbs \X Atts -> Nat]
    /\ work \in [Workers ->
         [stage : {"idle", "asked", "check", "extract", "ai", "dedupe", "book",
                   "alert", "clash", "create"},
          mail : Mails \cup {Nobody}, att : Atts \cup Traces \cup {Nobody},
          todo : SUBSET Atts, dups : SUBSET Atts, good : SUBSET Atts,
          bad : SUBSET Atts, rows : SUBSET Row, ins : SUBSET Row, ups : SUBSET Row]]
    /\ asked \in 0..MaxAsked
    /\ faults \in 0..MaxFaults
    /\ calls \subseteq Atts
    /\ rerun \subseteq Atts /\ met \subseteq {RefOf[t] : t \in Traces}
    /\ aborted \subseteq Atts /\ lost \subseteq Mails
    /\ missed \subseteq Thinv /\ passed \subseteq Thinv

(* An open, cancelled or booked manifest has a job: "a manifest with zero  *)
(* jobs is a real data bug for any settled status" (get_manifest).  One of *)
(* TRACE has every job that was delivered, whatever an ingest inserts.     *)
OpenHasJobs ==
    /\ \A a \in Atts : man[a] \in {"open", "cancelled", "exported"} =>
                        \E h \in Hawbs : owner[h] = a
    /\ \A t \in accepted : \A h \in Content[t] : owner[h] = t

(* A number that extraction found is never silently dropped: a job landed  *)
(* on the document or on a companion of the same e-mail, or an update was  *)
(* queued for the job that was there before.                               *)
NeverDropped ==
    \A a \in Atts : doc[a] = "processed" =>
        \A h \in Content[a] : \E b \in AttsOf(MailOf[a]) :
            owner[h] = b \/ upds[<<h, b>>] > 0

(* A file that is sent again under its name is not extracted again, unless *)
(* two batches had it at the same time.                                    *)
ExtractedOncePerName ==
    \A a, b \in calls :
        Name[a] = Name[b] /\ MailOf[a] # MailOf[b] => Name[a] \in raced

(* A manifest that failed has no jobs, unless two retries of it overlapped. *)
FailedHasNoJobs ==
    \A a \in Atts \ rerun : man[a] = "failed" => \A h \in Hawbs : owner[h] # a

(* Extraction comes to an end: only a batch or a retry that failed as a    *)
(* whole leaves a manifest extracting.                                     *)
ExtractionEnds ==
    \A a \in Atts : man[a] = "extracting" ~> man[a] # "extracting" \/ a \in aborted

(* No PDF of an e-mail that was claimed vanishes: it has a document when   *)
(* the batch is over, unless the batch failed as a whole.                  *)
NoPdfVanishes ==
    \A a \in Atts : LET m == MailOf[a] IN
        /\ m \in claims \ lost
        /\ \A w \in Workers : work[w].mail # m
        /\ Sort[a] # "other"
        => doc[a] # "none"

(* A Thinventory manifest is not left open without anyone being told: its  *)
(* booking is due, or it is marked failed and an alert was sent or is due. *)
(* The exceptions: the worker that was to book it or to send the alert     *)
(* died or failed at that, or it was cancelled while its booking was due   *)
(* and reopened when that had passed.                                      *)
OpenIsDueOrReported ==
    \A a \in Thinv : man[a] = "open" =>
        \/ a \in missed \cup passed
        \/ a \in refused /\ (a \in told \/ \E w \in Workers : Alerting(w, a))
        \/ \E w \in Workers : work[w].stage \in After /\ a \in work[w].todo

(* "Idempotent on external_ref": two manifests of one reference need two   *)
(* requests that overlapped.                                               *)
OneManifestPerRef ==
    \A t, u \in accepted : SameRef(t, u) /\ t # u => RefOf[t] \in met

=============================================================================
