--------------------------- MODULE HawbIngestProofs ---------------------------
(***************************************************************************)
(* What module HawbIngest promises, for any e-mails, attachments, HAWB     *)
(* numbers and TRACE deliveries, any number of workers and any bounds.     *)
(***************************************************************************)
EXTENDS HawbIngest, FiniteSetTheorems, TLAPS

-----------------------------------------------------------------------------
(* Types, and what the locals of a worker hold in each stage.              *)

Statuses == {"none", "extracting", "open", "failed", "ignored", "exported", "cancelled"}

WorkType ==
    [stage : {"idle", "asked", "check", "extract", "ai", "dedupe", "book",
              "alert", "clash", "create"},
     mail : Mails \cup {Nobody}, att : Atts \cup Traces \cup {Nobody},
     todo : SUBSET Atts, dups : SUBSET Atts, good : SUBSET Atts,
     bad : SUBSET Atts, rows : SUBSET Row, ins : SUBSET Row, ups : SUBSET Row]

(* What a worker may extract: a batch the files of its e-mail, a retry its *)
(* document.                                                               *)
Mine(k) == IF k.mail = Nobody THEN {k.att} ELSE AttsOf(k.mail)

(* Whose work it is.                                                       *)
Holder(k) ==
    /\ k.stage \in After \cup {"idle", "clash", "create", "asked"} => k.mail = Nobody
    /\ k.stage = "check" => k.mail \in Mails
    /\ k.stage \in {"idle", "book", "check"} => k.att = Nobody
    /\ k.stage = "alert" => k.att \in Thinv
    /\ k.stage \in {"clash", "create"} => k.att \in Traces
    /\ k.stage \in {"asked", "ai"} => k.att \in Atts \cap Mine(k)
    /\ k.stage \in {"extract", "dedupe"} =>
         k.att \notin Traces /\ (k.mail = Nobody => k.att \in Atts)

(* The files it has in hand.                                               *)
Files(k) ==
    /\ k.stage \in {"extract", "ai"} => k.todo \subseteq AttsOf(k.mail)
    /\ k.stage \in {"asked", "dedupe"} => k.todo = {}
    /\ k.stage \in After => k.todo \subseteq Thinv
    /\ k.dups \subseteq AttsOf(k.mail)
    /\ k.good \cup k.bad \subseteq Mine(k)

(* The rows it has matched: for documents it extracted, and at most one    *)
(* insertion per HAWB number.                                              *)
Matched(k) ==
    /\ k.stage # "dedupe" => k.rows = {} /\ k.ins = {} /\ k.ups = {}
    /\ \A r \in k.rows \cup k.ins \cup k.ups : r.doc \in k.good
    /\ \A r, s \in k.ins : r.hawb = s.hawb => r = s
    /\ IsFiniteSet(k.ups)

Shape(k) == k \in WorkType /\ Holder(k) /\ Files(k) /\ Matched(k)

IngestTypes == TypeOK /\ \A w \in Workers : Shape(work[w])

(* Nobody is no e-mail, no file and no delivery.                           *)
LEMMA NobodyIsNoOne ==
  /\ Nobody \notin Atts /\ Nobody \notin Mails /\ Nobody \notin Traces
  /\ Atts \cap Traces = {} /\ AttsOf(Nobody) = {} /\ Thinv \subseteq Atts
  /\ \A m : AttsOf(m) \subseteq Atts
  BY AttachmentAssumption DEF AttsOf

(* An idle worker has the shape of one.                                    *)
LEMMA IdleShape == Shape(Idle)
<1>1. Idle \in WorkType
  BY DEF Idle, WorkType
<1>2. IsFiniteSet({})
  BY FS_EmptySet
<1> QED
  BY <1>1, <1>2, NobodyIsNoOne DEF Shape, Holder, Files, Matched, Mine, Idle, After

(* Empty tables and idle workers are of the right types.                   *)
LEMMA TypeInit == Init => IngestTypes
<1> SUFFICES ASSUME Init PROVE IngestTypes
  OBVIOUS
<1>1. 0 \in 0..MaxAsked /\ 0 \in 0..MaxFaults
  BY AttachmentAssumption
<1>2. Idle \in WorkType
  BY DEF Idle, WorkType
<1>3. \A w \in Workers : Shape(work[w])
  BY IdleShape DEF Init
<1> QED
  BY <1>1, <1>2, <1>3 DEF Init, IngestTypes, TypeOK, WorkType

(* One worker moves; the others stay as they are.                          *)
LEMMA OneMoves ==
  ASSUME IngestTypes, NEW w \in Workers, NEW k, work' = [work EXCEPT ![w] = k], Shape(k)
  PROVE  /\ work' \in [Workers -> WorkType]
         /\ \A v \in Workers : Shape(work'[v])
         /\ work'[w] = k /\ \A v \in Workers \ {w} : work'[v] = work[v]
<1>1. work \in [Workers -> WorkType]
  BY DEF IngestTypes, TypeOK, WorkType
<1> QED
  BY <1>1 DEF IngestTypes, Shape

(* What rows the matching makes.                                           *)
LEMMA MatchedRows ==
  ASSUME IngestTypes, NEW w \in Workers, NEW r \in UNION {RowsFrom(w, a) : a \in work[w].good}
  PROVE  r \in Row /\ r.doc \in work[w].good
<1> PICK a \in work[w].good : r \in RowsFrom(w, a)
  OBVIOUS
<1>1. work[w].good \subseteq Atts
  BY DEF IngestTypes, Shape, WorkType
<1>2. Content[a] \subseteq Hawbs
  BY <1>1, AttachmentAssumption
<1>3. \A h : Home(w, h, a) \in work[w].good
  BY DEF Home, Companions, Plain
<1> QED
  BY <1>1, <1>2, <1>3 DEF RowsFrom, Row

(* A worker that still has something to book.                              *)
LEMMA RestShape ==
  ASSUME NEW todo, todo \subseteq Thinv
  PROVE  Shape(Rest("book", todo))
<1>1. IsFiniteSet({}) /\ Idle \in WorkType
  BY FS_EmptySet, IdleShape DEF Shape
<1>2. Shape([Idle EXCEPT !.stage = "book", !.todo = todo])
  BY <1>1, NobodyIsNoOne DEF Idle, WorkType, Shape, Holder, Files, Matched, Mine, After
<1> QED
  BY <1>2, IdleShape DEF Rest

(* What each action leaves in the hands of its worker.                     *)
LEMMA ClaimShape ==
  ASSUME IngestTypes, NEW w \in Workers, NEW m \in Mails, Claim(w, m)
  PROVE  LET k == [Idle EXCEPT !.stage = "check", !.mail = m] IN
         work' = [work EXCEPT ![w] = k] /\ Shape(k)
<1>1. IsFiniteSet({}) /\ Idle \in WorkType
  BY FS_EmptySet, IdleShape DEF Shape
<1>2. Shape([Idle EXCEPT !.stage = "check", !.mail = m])
  BY <1>1, NobodyIsNoOne DEF Idle, WorkType, Shape, Holder, Files, Matched, Mine, After
<1> QED
  BY <1>2 DEF Claim

(* A batch that has checked its names keeps its shape.                     *)
LEMMA CheckShape ==
  ASSUME IngestTypes, NEW w \in Workers, CheckNames(w)
  PROVE  LET k == [work[w] EXCEPT !.stage = "extract", !.dups = Resent(work[w].mail),
                     !.todo = Extractable(work[w].mail) \ Resent(work[w].mail)] IN
         work' = [work EXCEPT ![w] = k] /\ Shape(k)
<1> DEFINE k == [work[w] EXCEPT !.stage = "extract", !.dups = Resent(work[w].mail),
                     !.todo = Extractable(work[w].mail) \ Resent(work[w].mail)]
<1>1. work[w].stage = "check" /\ Shape(work[w]) /\ work \in [Workers -> WorkType]
  BY DEF CheckNames, IngestTypes, TypeOK, WorkType
<1>2. work' = [work EXCEPT ![w] = k]
  BY <1>1 DEF CheckNames
<1>3. /\ Resent(work[w].mail) \subseteq AttsOf(work[w].mail)
      /\ Extractable(work[w].mail) \subseteq AttsOf(work[w].mail)
  BY DEF Resent, Extractable
<1>4. Shape(k)
  BY <1>1, <1>3, NobodyIsNoOne, ZenonT(30) DEF WorkType, Shape, Holder, Files, Matched, Mine, After
<1> QED
  BY <1>2, <1>4

(* A batch that commits a placeholder keeps its shape.                     *)
LEMMA PlaceholderShape ==
  ASSUME IngestTypes, NEW w \in Workers, NEW a \in Atts, Placeholder(w, a)
  PROVE  LET k == [work[w] EXCEPT !.stage = "ai", !.att = a, !.todo = @ \ {a}] IN
         work' = [work EXCEPT ![w] = k] /\ Shape(k)
<1> DEFINE k == [work[w] EXCEPT !.stage = "ai", !.att = a, !.todo = @ \ {a}]
<1>1. work[w].stage = "extract" /\ Shape(work[w]) /\ work \in [Workers -> WorkType]
  BY DEF Placeholder, IngestTypes, TypeOK, WorkType
<1>2. work' = [work EXCEPT ![w] = k]
  BY <1>1 DEF Placeholder
<1>3. a \in AttsOf(work[w].mail) /\ work[w].mail # Nobody
  BY <1>1, NobodyIsNoOne DEF Placeholder, Shape, Files
<1>4. Shape(k)
  BY <1>1, <1>3, NobodyIsNoOne DEF WorkType, Shape, Holder, Files, Matched, Mine, After
<1> QED
  BY <1>2, <1>4

(* A batch or retry that has extracted a file keeps its shape.             *)
LEMMA ExtractShape ==
  ASSUME IngestTypes, NEW w \in Workers, Extract(w)
  PROVE  \E k \in {[work[w] EXCEPT !.stage = "extract", !.good = @ \cup {work[w].att}],
                   [work[w] EXCEPT !.stage = "extract", !.bad = @ \cup {work[w].att}]} :
           work' = [work EXCEPT ![w] = k] /\ Shape(k)
<1>1. work[w].stage = "ai" /\ Shape(work[w]) /\ work \in [Workers -> WorkType]
  BY DEF Extract, IngestTypes, TypeOK, WorkType
<1>2. work[w].att \in Atts \cap Mine(work[w])
  BY <1>1 DEF Shape, Holder
<1>3. Shape([work[w] EXCEPT !.stage = "extract", !.good = @ \cup {work[w].att}])
  BY <1>1, <1>2, NobodyIsNoOne, ZenonT(30) DEF WorkType, Shape, Holder, Files, Matched, Mine, After
<1>4. Shape([work[w] EXCEPT !.stage = "extract", !.bad = @ \cup {work[w].att}])
  BY <1>1, <1>2, NobodyIsNoOne, ZenonT(30) DEF WorkType, Shape, Holder, Files, Matched, Mine, After
<1> QED
  BY <1>1, <1>3, <1>4 DEF Extract

(* Matching gives rows of the right type.                                  *)
LEMMA MatchShape ==
  ASSUME IngestTypes, NEW w \in Workers, Match(w)
  PROVE  LET k == [work[w] EXCEPT !.stage = "dedupe",
                     !.rows = UNION {RowsFrom(w, a) : a \in work[w].good}] IN
         work' = [work EXCEPT ![w] = k] /\ Shape(k)
<1> DEFINE rows == UNION {RowsFrom(w, a) : a \in work[w].good}
<1> DEFINE k == [work[w] EXCEPT !.stage = "dedupe", !.rows = rows]
<1>1. work[w].stage = "extract" /\ work[w].todo = {} /\ Shape(work[w]) /\ work \in [Workers -> WorkType]
  BY DEF Match, IngestTypes, TypeOK, WorkType
<1>2. work' = [work EXCEPT ![w] = k]
  BY <1>1 DEF Match
<1>3. \A r \in rows : r \in Row /\ r.doc \in work[w].good
  BY MatchedRows
<1>4. Shape(k)
  <2> HIDE DEF rows
  <2> QED
    BY <1>1, <1>3, NobodyIsNoOne DEF WorkType, Shape, Holder, Files, Matched, Mine, After
<1> QED
  BY <1>2, <1>4

(* A row that is decided goes to the inserts or the updates.               *)
LEMMA DedupeShape ==
  ASSUME IngestTypes, NEW w \in Workers, NEW r \in work[w].rows, Dedupe(w, r)
  PROVE  LET k == [work[w] EXCEPT !.rows = @ \ {r},
                     !.ins = IF HasJob(w, r.hawb) THEN @ ELSE @ \cup {r},
                     !.ups = IF HasJob(w, r.hawb) THEN @ \cup {r} ELSE @] IN
         work' = [work EXCEPT ![w] = k] /\ Shape(k)
<1> DEFINE k == [work[w] EXCEPT !.rows = @ \ {r},
                     !.ins = IF HasJob(w, r.hawb) THEN @ ELSE @ \cup {r},
                     !.ups = IF HasJob(w, r.hawb) THEN @ \cup {r} ELSE @]
<1>1. work[w].stage = "dedupe" /\ Shape(work[w]) /\ work \in [Workers -> WorkType]
  BY DEF Dedupe, IngestTypes, TypeOK, WorkType
<1>2. work' = [work EXCEPT ![w] = k]
  BY <1>1 DEF Dedupe
<1>3. k \in WorkType /\ Holder(k) /\ Files(k)
  BY <1>1, ZenonT(30) DEF WorkType, Shape, Holder, Files, Mine, After
<1>4. Matched(k)
  <2>1. IsFiniteSet(work[w].ups) /\ IsFiniteSet(work[w].ups \cup {r})
    BY <1>1, FS_AddElement DEF Shape, Matched
  <2>2. ~ HasJob(w, r.hawb) => \A s \in work[w].ins : s.hawb # r.hawb
    BY DEF HasJob
  <2> QED
    BY <1>1, <2>1, <2>2 DEF WorkType, Shape, Matched
<1> QED
  BY <1>2, <1>3, <1>4 DEF Shape

(* What is left after a commit has its shape.                              *)
LEMMA CommitShape ==
  ASSUME IngestTypes, NEW w \in Workers, Commit(w)
  PROVE  LET k == Rest("book", Due(w)) IN work' = [work EXCEPT ![w] = k] /\ Shape(k)
  BY RestShape DEF Commit, Due

(* A retry that begins has its shape.                                      *)
LEMMA RetryShape ==
  ASSUME IngestTypes, NEW w \in Workers, BeginRetry(w)
  PROVE  LET k == [work[w] EXCEPT !.stage = "ai"] IN
         work' = [work EXCEPT ![w] = k] /\ Shape(k)
<1>1. work[w].stage = "asked" /\ Shape(work[w]) /\ work \in [Workers -> WorkType]
  BY DEF BeginRetry, IngestTypes, TypeOK, WorkType
<1>2. Shape([work[w] EXCEPT !.stage = "ai"])
  BY <1>1, NobodyIsNoOne DEF WorkType, Shape, Holder, Files, Matched, Mine, After
<1> QED
  BY <1>1, <1>2 DEF BeginRetry

(* A retry that was asked for has its shape.                               *)
LEMMA AskShape ==
  ASSUME IngestTypes, NEW w \in Workers, NEW a \in Atts, AskRetry(w, a)
  PROVE  LET k == [Idle EXCEPT !.stage = "asked", !.att = a] IN
         work' = [work EXCEPT ![w] = k] /\ Shape(k)
<1>1. IsFiniteSet({}) /\ Idle \in WorkType
  BY FS_EmptySet, IdleShape DEF Shape
<1>2. Shape([Idle EXCEPT !.stage = "asked", !.att = a])
  BY <1>1, NobodyIsNoOne DEF Idle, WorkType, Shape, Holder, Files, Matched, Mine, After
<1> QED
  BY <1>2 DEF AskRetry

(* A delivery that was let in has its shape.                               *)
LEMMA FindShape ==
  ASSUME IngestTypes, NEW w \in Workers, NEW t \in Traces, TraceFind(w, t)
  PROVE  LET k == IF Known(t) THEN Idle ELSE [Idle EXCEPT !.stage = "clash", !.att = t] IN
         work' = [work EXCEPT ![w] = k] /\ Shape(k)
<1>1. IsFiniteSet({}) /\ Idle \in WorkType
  BY FS_EmptySet, IdleShape DEF Shape
<1>2. Shape([Idle EXCEPT !.stage = "clash", !.att = t])
  BY <1>1, NobodyIsNoOne DEF Idle, WorkType, Shape, Holder, Files, Matched, Mine, After
<1>3. Known(t) => work' = [work EXCEPT ![w] = Idle]
  BY DEF TraceFind, IngestTypes, TypeOK
<1> QED
  BY <1>2, <1>3, IdleShape DEF TraceFind

(* A delivery whose numbers are free has its shape.                        *)
LEMMA CreateShape ==
  ASSUME IngestTypes, NEW w \in Workers, TraceCheck(w)
  PROVE  LET k == IF Free(work[w].att) THEN [work[w] EXCEPT !.stage = "create"] ELSE Idle IN
         work' = [work EXCEPT ![w] = k] /\ Shape(k)
<1>1. work[w].stage = "clash" /\ Shape(work[w]) /\ work \in [Workers -> WorkType]
  BY DEF TraceCheck, IngestTypes, TypeOK, WorkType
<1>2. Shape([work[w] EXCEPT !.stage = "create"])
  BY <1>1, NobodyIsNoOne DEF WorkType, Shape, Holder, Files, Matched, Mine, After
<1> QED
  BY <1>1, <1>2, IdleShape DEF TraceCheck

(* The steps of the automatic booking.                                     *)
Booking(w) ==
    \/ \E a \in Thinv : Book(w, a) \/ BookFails(w, a)
    \/ Alert(w)
    \/ AlertFails(w)

(* A worker with an alert to send has its shape.                           *)
LEMMA AlertShape ==
  ASSUME NEW a \in Thinv, NEW todo, todo \subseteq Thinv
  PROVE  Shape([Idle EXCEPT !.stage = "alert", !.att = a, !.todo = todo])
<1>1. IsFiniteSet({}) /\ Idle \in WorkType
  BY FS_EmptySet, IdleShape DEF Shape
<1> QED
  BY <1>1, NobodyIsNoOne DEF Idle, WorkType, Shape, Holder, Files, Matched, Mine, After

(* A worker that goes on with its bookings has its shape.                  *)
LEMMA BookingShape ==
  ASSUME IngestTypes, NEW w \in Workers, Booking(w)
  PROVE  \E k : /\ work' = [work EXCEPT ![w] = k] /\ Shape(k) /\ k.mail = Nobody
               /\ k.stage \in After \cup {"idle"} /\ k.att \notin Traces
<1>1. work[w].todo \subseteq Thinv
  <2>1. work[w].stage \in After
    BY DEF Booking, Book, BookFails, Alert, AlertFails, After
  <2> QED
    BY <2>1 DEF IngestTypes, Shape, Files
<1>2. ASSUME NEW todo, todo \subseteq Thinv
      PROVE  /\ Rest("book", todo).mail = Nobody /\ Rest("book", todo).att = Nobody
             /\ Rest("book", todo).stage \in After \cup {"idle"}
  BY DEF Rest, Idle, After
<1>3. ASSUME NEW a \in Thinv, NEW todo, todo \subseteq Thinv
      PROVE  LET k == [Idle EXCEPT !.stage = "alert", !.att = a, !.todo = todo] IN
             k.mail = Nobody /\ k.stage \in After /\ k.att \notin Traces
  BY NobodyIsNoOne DEF Idle, After
<1>4. ASSUME NEW todo, todo \subseteq Thinv, work' = [work EXCEPT ![w] = Rest("book", todo)]
      PROVE  \E k : /\ work' = [work EXCEPT ![w] = k] /\ Shape(k) /\ k.mail = Nobody
                   /\ k.stage \in After \cup {"idle"} /\ k.att \notin Traces
  <2>1. Rest("book", todo).att \notin Traces
    BY <1>2, <1>4, NobodyIsNoOne
  <2>2. Shape(Rest("book", todo))
    BY <1>4, RestShape
  <2> QED
    BY <1>2, <1>4, <2>1, <2>2
<1>5. ASSUME NEW a \in Thinv, NEW todo, todo \subseteq Thinv,
             work' = [work EXCEPT ![w] = [Idle EXCEPT !.stage = "alert", !.att = a, !.todo = todo]]
      PROVE  \E k : /\ work' = [work EXCEPT ![w] = k] /\ Shape(k) /\ k.mail = Nobody
                   /\ k.stage \in After \cup {"idle"} /\ k.att \notin Traces
  BY <1>3, <1>5, AlertShape
<1>6. \A a : work[w].todo \ {a} \subseteq Thinv
  BY <1>1
<1>7. ASSUME NEW a \in Thinv, Book(w, a)
      PROVE  \/ work' = [work EXCEPT ![w] = Rest("book", work[w].todo \ {a})]
             \/ work' = [work EXCEPT ![w] =
                  [Idle EXCEPT !.stage = "alert", !.att = a, !.todo = work[w].todo \ {a}]]
  BY <1>7, Zenon DEF Book
<1>8. ASSUME NEW a \in Thinv, BookFails(w, a)
      PROVE  work' = [work EXCEPT ![w] = Rest("book", work[w].todo \ {a})]
  BY <1>8 DEF BookFails
<1>9. Alert(w) \/ AlertFails(w) => work' = [work EXCEPT ![w] = Rest("book", work[w].todo)]
  BY DEF Alert, AlertFails
<1>10. CASE \E a \in Thinv : Book(w, a)
  <2> PICK a \in Thinv : Book(w, a)
    BY <1>10
  <2>1. work[w].todo \ {a} \subseteq Thinv
    BY <1>6
  <2> QED
    BY <1>4, <1>5, <1>7, <2>1
<1>11. CASE \E a \in Thinv : BookFails(w, a)
  BY <1>4, <1>6, <1>8, <1>11
<1>12. CASE Alert(w) \/ AlertFails(w)
  BY <1>1, <1>4, <1>9, <1>12
<1> QED
  BY <1>10, <1>11, <1>12 DEF Booking

(* What they leave alone, and what they do to the manifests.               *)
LEMMA BookingFrame ==
  ASSUME IngestTypes, NEW w \in Workers, Booking(w)
  PROVE  /\ UNCHANGED <<claims, doc, owner, upds, accepted, asked, calls, races, aborted, lost>>
         /\ work[w].stage \in After
         /\ \A b \in Atts : man'[b] = man[b] \/ (man[b] = "open" /\ man'[b] = "exported")
<1>1. man \in [Atts -> Statuses]
  BY DEF IngestTypes, TypeOK, Statuses
<1> USE DEF tables, hist, races, failures, After
<1>2. ASSUME NEW a \in Thinv, Book(w, a)
      PROVE  \A b \in Atts : man'[b] = man[b] \/ (man[b] = "open" /\ man'[b] = "exported")
  BY <1>1, <1>2 DEF Book
<1>3. ASSUME NEW a \in Thinv, Book(w, a)
      PROVE  /\ UNCHANGED <<claims, doc, owner, upds, accepted, asked, calls, races, aborted, lost>>
             /\ work[w].stage \in After
  BY <1>3 DEF Book
<1>4. ASSUME (\E a \in Thinv : BookFails(w, a)) \/ Alert(w) \/ AlertFails(w)
      PROVE  /\ UNCHANGED <<claims, doc, owner, upds, accepted, asked, calls, races, aborted, lost>>
             /\ work[w].stage \in After /\ man' = man
  BY <1>4 DEF BookFails, Alert, AlertFails
<1> QED
  BY <1>2, <1>3, <1>4 DEF Booking

(* The desk cancels what is open, and opens what is cancelled.             *)
LEMMA DeskFrame ==
  ASSUME IngestTypes, NEW a \in Atts, Cancel(a) \/ Reopen(a)
  PROVE  /\ UNCHANGED <<claims, doc, owner, upds, refused, accepted, told, work, asked, faults, hist>>
         /\ \A b \in Atts : \/ man'[b] = man[b]
                            \/ man[b] = "open" /\ man'[b] = "cancelled"
                            \/ man[b] = "cancelled" /\ man'[b] = "open"
<1>1. man \in [Atts -> Statuses]
  BY DEF IngestTypes, TypeOK, Statuses
<1> QED
  BY <1>1 DEF Cancel, Reopen

(* What is left of the types when the workers have their shape.            *)
LEMMA TypeParts ==
  IngestTypes <=>
    /\ claims \subseteq Mails
    /\ doc \in [Atts -> {"none", "processing", "processed", "failed"}]
    /\ man \in [Atts -> Statuses]
    /\ owner \in [Hawbs -> Atts \cup Traces \cup {Nobody}]
    /\ refused \subseteq Thinv /\ told \subseteq Thinv /\ accepted \subseteq Traces
    /\ upds \in [Hawbs \X Atts -> Nat]
    /\ work \in [Workers -> WorkType] /\ \A w \in Workers : Shape(work[w])
    /\ asked \in 0..MaxAsked
    /\ faults \in 0..MaxFaults
    /\ calls \subseteq Atts
    /\ rerun \subseteq Atts /\ met \subseteq {RefOf[t] : t \in Traces}
    /\ aborted \subseteq Atts /\ lost \subseteq Mails
    /\ missed \subseteq Thinv /\ passed \subseteq Thinv
  BY DEF IngestTypes, TypeOK, WorkType, Statuses

(* What a commit does to the jobs: it inserts its rows and leaves every    *)
(* other job where it is.                                                  *)
LEMMA CommitOwner ==
  ASSUME IngestTypes, NEW w \in Workers, Commit(w)
  PROVE  /\ owner' \in [Hawbs -> Atts \cup Traces \cup {Nobody}]
         /\ \A r \in work[w].ins : owner[r.hawb] = Nobody /\ owner'[r.hawb] = r.doc
         /\ \A h \in Hawbs : \/ owner'[h] = owner[h]
                             \/ \E r \in work[w].ins : r.hawb = h
<1>1. work[w].ins \subseteq Row /\ \A r, s \in work[w].ins : r.hawb = s.hawb => r = s
  BY DEF IngestTypes, Shape, Matched, WorkType
<1>2. owner' = [h \in Hawbs |-> IF \E r \in work[w].ins : r.hawb = h
                                THEN (CHOOSE r \in work[w].ins : r.hawb = h).doc
                                ELSE owner[h]]
  BY DEF Commit
<1>3. \A r \in work[w].ins : r.hawb \in Hawbs /\ r.doc \in Atts
  BY <1>1 DEF Row
<1>4. ASSUME NEW r \in work[w].ins PROVE owner'[r.hawb] = r.doc
  <2>1. (CHOOSE s \in work[w].ins : s.hawb = r.hawb) = r
    BY <1>1
  <2> QED
    BY <1>2, <1>3, <2>1
<1>5. \A h \in Hawbs : \/ owner'[h] = owner[h]
                       \/ \E r \in work[w].ins : r.hawb = h
  BY <1>2
<1>6. owner' \in [Hawbs -> Atts \cup Traces \cup {Nobody}]
  <2>1. owner \in [Hawbs -> Atts \cup Traces \cup {Nobody}]
    BY DEF IngestTypes, TypeOK
  <2>2. \A h \in Hawbs : owner'[h] \in Atts \cup Traces \cup {Nobody}
    BY <1>3, <1>4, <1>5, <2>1
  <2> QED
    BY <1>2, <2>2
<1> QED
  BY <1>4, <1>5, <1>6 DEF Commit, Insertable

(* What it does to the updates: it adds what it has queued.                *)
LEMMA CommitUpdates ==
  ASSUME IngestTypes, NEW w \in Workers, Commit(w)
  PROVE  /\ upds' \in [Hawbs \X Atts -> Nat]
         /\ \A x \in Hawbs \X Atts :
              upds[x] > 0 \/ (\E r \in work[w].ups : r.hawb = x[1] /\ r.doc = x[2]) => upds'[x] > 0
<1> DEFINE queued(x) == {r \in work[w].ups : r.hawb = x[1] /\ r.doc = x[2]}
<1>1. IsFiniteSet(work[w].ups) /\ upds \in [Hawbs \X Atts -> Nat]
  BY DEF IngestTypes, TypeOK, Shape, Matched
<1>2. \A x : IsFiniteSet(queued(x))
  BY <1>1, FS_Subset
<1>3. \A x : Cardinality(queued(x)) \in Nat
  BY <1>2, FS_CardinalityType
<1>4. \A x : queued(x) # {} => Cardinality(queued(x)) # 0
  BY <1>2, FS_EmptySet
<1>5. upds' = [x \in Hawbs \X Atts |-> upds[x] + Cardinality(queued(x))]
  BY DEF Commit
<1>6. \A x : (\E r \in work[w].ups : r.hawb = x[1] /\ r.doc = x[2]) => queued(x) # {}
  OBVIOUS
<1> HIDE DEF queued
<1>7. \A x \in Hawbs \X Atts :
        upds'[x] = upds[x] + Cardinality(queued(x)) /\ upds[x] \in Nat
  BY <1>1, <1>5
<1>8. upds' \in [Hawbs \X Atts -> Nat]
  BY <1>1, <1>3, <1>5
<1>9. \A x \in Hawbs \X Atts : upds[x] > 0 \/ queued(x) # {} => upds'[x] > 0
  BY <1>3, <1>4, <1>7
<1> QED
  BY <1>6, <1>8, <1>9

(* No worker leaves the types.                                             *)
LEMMA TypeStep == IngestTypes /\ [Next]_vars => IngestTypes'
<1> SUFFICES ASSUME IngestTypes, [Next]_vars PROVE IngestTypes'
  OBVIOUS
<1> USE DEF tables, hist, races, failures
<1>1. /\ \A w \in Workers : Shape(work[w])
      /\ doc \in [Atts -> {"none", "processing", "processed", "failed"}]
      /\ man \in [Atts -> Statuses]
      /\ asked \in 0..MaxAsked /\ faults \in 0..MaxFaults
  BY TypeParts
<1>2. /\ \A n \in 0..MaxAsked : n < MaxAsked => n + 1 \in 0..MaxAsked
      /\ \A n \in 0..MaxFaults : n < MaxFaults => n + 1 \in 0..MaxFaults
  BY AttachmentAssumption
<1>3. ASSUME NEW w \in Workers, NEW k, work' = [work EXCEPT ![w] = k], Shape(k),
             UNCHANGED <<tables, told, asked, faults, calls, failures, rerun, met>>
      PROVE  IngestTypes'
  BY <1>3, OneMoves, TypeParts DEF IngestTypes, TypeOK, WorkType, Statuses
<1>4. ASSUME NEW w \in Workers, NEW m \in Mails, Claim(w, m) PROVE IngestTypes'
  <2>1. claims' \subseteq Mails
    BY <1>4, TypeParts DEF Claim
  <2>2. work' \in [Workers -> WorkType] /\ \A v \in Workers : Shape(work'[v])
    BY <1>4, ClaimShape, OneMoves
  <2> QED
    BY <1>4, <2>1, <2>2, TypeParts DEF Claim, IngestTypes, TypeOK, WorkType, Statuses
<1>5. ASSUME NEW w \in Workers, CheckNames(w) PROVE IngestTypes'
  BY <1>3, <1>5, CheckShape DEF CheckNames
<1>6. ASSUME NEW w \in Workers, NEW a \in Atts, Placeholder(w, a) PROVE IngestTypes'
  <2>1. /\ doc' \in [Atts -> {"none", "processing", "processed", "failed"}]
        /\ man' \in [Atts -> Statuses]
    BY <1>1, <1>6 DEF Placeholder, Statuses
  <2>2. work' \in [Workers -> WorkType] /\ \A v \in Workers : Shape(work'[v])
    BY <1>6, PlaceholderShape, OneMoves
  <2> QED
    BY <1>6, <2>1, <2>2, TypeParts DEF Placeholder, IngestTypes, TypeOK, WorkType, Statuses
<1>7. ASSUME NEW w \in Workers, Extract(w) PROVE IngestTypes'
  <2>1. work' \in [Workers -> WorkType] /\ \A v \in Workers : Shape(work'[v])
    BY <1>7, ExtractShape, OneMoves
  <2>2. calls' \subseteq Atts
    BY <1>1, <1>7, TypeParts DEF Extract, Shape, Holder
  <2> QED
    BY <1>7, <2>1, <2>2, TypeParts DEF Extract, IngestTypes, TypeOK, WorkType, Statuses
<1>8. ASSUME NEW w \in Workers, Match(w) PROVE IngestTypes'
  BY <1>3, <1>8, MatchShape DEF Match
<1>9. ASSUME NEW w \in Workers, NEW r \in work[w].rows, Dedupe(w, r) PROVE IngestTypes'
  BY <1>3, <1>9, DedupeShape DEF Dedupe
<1>10. ASSUME NEW w \in Workers, Commit(w) PROVE IngestTypes'
  <2>1. /\ doc' \in [Atts -> {"none", "processing", "processed", "failed"}]
        /\ man' \in [Atts -> Statuses]
    <3>1. \A a \in Atts : Outcome(w, a) \in {"open", "failed"} \cup {man[a]}
      BY DEF Outcome
    <3> QED
      BY <1>1, <1>10, <3>1 DEF Commit, Statuses
  <2>2. work' \in [Workers -> WorkType] /\ \A v \in Workers : Shape(work'[v])
    BY <1>10, CommitShape, OneMoves
  <2> QED
    BY <1>10, <2>1, <2>2, CommitOwner, CommitUpdates, TypeParts DEF Commit, IngestTypes, TypeOK, WorkType, Statuses
<1>11. ASSUME NEW w \in Workers, GiveUp(w), faults' \in 0..MaxFaults PROVE IngestTypes'
  <2>1. work' \in [Workers -> WorkType] /\ \A v \in Workers : Shape(work'[v])
    BY <1>11, IdleShape, OneMoves DEF GiveUp
  <2>2. aborted' \subseteq Atts /\ lost' \subseteq Mails /\ missed' \subseteq Thinv
    <3>1. Shape(work[w]) /\ aborted \subseteq Atts /\ lost \subseteq Mails /\ missed \subseteq Thinv
      BY <1>1, TypeParts
    <3>2. InHand(w) \subseteq Atts
      BY <3>1 DEF InHand, Shape, WorkType
    <3> QED
      BY <1>11, <3>1, <3>2 DEF GiveUp, Shape, Files
  <2> QED
    BY <1>11, <2>1, <2>2, TypeParts DEF GiveUp, IngestTypes, TypeOK, WorkType, Statuses
<1>12. ASSUME NEW w \in Workers, Conflict(w) \/ Abort(w) PROVE IngestTypes'
  BY <1>1, <1>2, <1>11, <1>12 DEF Conflict, Abort
<1>13. ASSUME NEW w \in Workers, NEW a \in Atts, AskRetry(w, a) PROVE IngestTypes'
  <2>1. work' \in [Workers -> WorkType] /\ \A v \in Workers : Shape(work'[v])
    BY <1>13, AskShape, OneMoves
  <2> QED
    BY <1>1, <1>2, <1>13, <2>1, TypeParts DEF AskRetry, IngestTypes, TypeOK, WorkType, Statuses
<1>14. ASSUME NEW w \in Workers, BeginRetry(w) PROVE IngestTypes'
  <2>1. work' \in [Workers -> WorkType] /\ \A v \in Workers : Shape(work'[v])
    BY <1>14, RetryShape, OneMoves
  <2>2. work[w].att \in Atts
    BY <1>1, <1>14 DEF BeginRetry, Shape, Holder
  <2>3. /\ doc' \in [Atts -> {"none", "processing", "processed", "failed"}]
        /\ man' \in [Atts -> Statuses]
    BY <1>1, <1>14 DEF BeginRetry, Statuses
  <2>4. rerun' \subseteq Atts
    BY <1>14, <2>2, TypeParts DEF BeginRetry, Statuses
  <2> QED
    BY <1>14, <2>1, <2>3, <2>4, TypeParts DEF BeginRetry, IngestTypes, TypeOK, WorkType, Statuses
<1>15. ASSUME NEW w \in Workers, Booking(w) PROVE IngestTypes'
  <2>1. work' \in [Workers -> WorkType] /\ \A v \in Workers : Shape(work'[v])
    BY <1>15, BookingShape, OneMoves
  <2>2. man' \in [Atts -> Statuses]
    BY <1>1, <1>15 DEF Booking, Book, BookFails, Alert, AlertFails, Statuses
  <2>3. /\ refused' \subseteq Thinv /\ missed' \subseteq Thinv /\ told' \subseteq Thinv
        /\ passed' \subseteq Thinv /\ faults' \in 0..MaxFaults
    <3>1. work[w].stage = "alert" => work[w].att \in Thinv
      BY <1>1 DEF Shape, Holder
    <3> QED
      BY <1>1, <1>2, <1>15, <3>1, TypeParts DEF Booking, Book, BookFails, Alert, AlertFails
  <2> QED
    BY <1>15, <2>1, <2>2, <2>3, TypeParts, BookingFrame DEF races, IngestTypes, TypeOK, WorkType, Statuses
<1>20. ASSUME NEW a \in Atts, Cancel(a) \/ Reopen(a) PROVE IngestTypes'
  <2>1. man' \in [Atts -> Statuses]
    BY <1>1, <1>20 DEF Cancel, Reopen, Statuses
  <2> QED
    BY <1>20, <2>1, TypeParts DEF Cancel, Reopen, IngestTypes, TypeOK, WorkType, Statuses
<1>16. ASSUME NEW w \in Workers, NEW t \in Traces, TraceFind(w, t) PROVE IngestTypes'
  <2>1. work' \in [Workers -> WorkType] /\ \A v \in Workers : Shape(work'[v])
    BY <1>16, FindShape, OneMoves
  <2>2. met' \subseteq {RefOf[u] : u \in Traces} /\ asked' \in 0..MaxAsked
    BY <1>1, <1>2, <1>16, TypeParts DEF TraceFind
  <2> QED
    BY <1>16, <2>1, <2>2, TypeParts DEF TraceFind, IngestTypes, TypeOK, WorkType, Statuses
<1>17. ASSUME NEW w \in Workers, TraceCheck(w) \/ TraceRefused(w) PROVE IngestTypes'
  BY <1>3, <1>17, CreateShape, IdleShape DEF TraceCheck, TraceRefused
<1>18. ASSUME NEW w \in Workers, TraceCommit(w) PROVE IngestTypes'
  <2>1. work[w].att \in Traces
    BY <1>1, <1>18 DEF TraceCommit, Shape, Holder
  <2>2. owner' \in [Hawbs -> Atts \cup Traces \cup {Nobody}] /\ accepted' \subseteq Traces
    BY <1>18, <2>1, TypeParts DEF TraceCommit
  <2>3. work' \in [Workers -> WorkType] /\ \A v \in Workers : Shape(work'[v])
    BY <1>18, IdleShape, OneMoves DEF TraceCommit
  <2> QED
    BY <1>18, <2>2, <2>3, TypeParts DEF TraceCommit, IngestTypes, TypeOK, WorkType, Statuses
<1>19. CASE UNCHANGED vars
  BY <1>19, TypeParts DEF vars, IngestTypes, TypeOK, WorkType, Statuses
<1> QED
  BY <1>4, <1>5, <1>6, <1>7, <1>8, <1>9, <1>10, <1>12, <1>13, <1>14, <1>15, <1>16, <1>17,
     <1>18, <1>19, <1>20 DEF Next, Work, Booking

(* A step is one of a worker, or one of the desk.                          *)
WorkerStep(w) ==
    \/ Work(w) \/ Abort(w) \/ Booking(w)
    \/ \E m \in Mails : Claim(w, m)
    \/ \E a \in Atts : AskRetry(w, a)
    \/ \E t \in Traces : TraceFind(w, t)

DeskStep == \E a \in Atts : Cancel(a) \/ Reopen(a)

(* Every step is one of the desk or of a worker.                           *)
LEMMA Steps == Next => DeskStep \/ \E w \in Workers : WorkerStep(w)
  BY DEF Next, DeskStep, WorkerStep, Booking

(* The tables, and the locals of every worker, always have their types.    *)
THEOREM TypeCorrect == Spec => []TypeOK
<1>1. IngestTypes => TypeOK
  BY DEF IngestTypes
<1> QED
  BY <1>1, TypeInit, TypeStep, PTL DEF Spec

-----------------------------------------------------------------------------
(* Deliveries of TRACE.  RefInv adds what holds while one is under way:    *)
(* its reference is known to have met another one as soon as another       *)
(* delivery of it runs, or has a manifest.                                 *)

Met(t) == RefOf[t] \in met

RefInv ==
    /\ \A w \in Workers : work[w].att \in Traces =>
         /\ \A u \in accepted : SameRef(u, work[w].att) => Met(work[w].att)
         /\ \A v \in Workers \ {w} :
              work[v].att \in Traces /\ SameRef(work[v].att, work[w].att) => Met(work[w].att)
    /\ OneManifestPerRef

(* Only a new delivery, or the commit of one, matters to RefInv.           *)
LEMMA DeliveriesStay ==
  ASSUME IngestTypes, [Next]_vars
  PROVE  \/ \E w \in Workers, t \in Traces : TraceFind(w, t)
         \/ \E w \in Workers : TraceCommit(w)
         \/ /\ UNCHANGED <<accepted, met>>
            /\ \A v \in Workers : work'[v].att \in Traces => work'[v].att = work[v].att
<1> USE DEF tables, hist, races, failures
<1> DEFINE Stay == /\ UNCHANGED <<accepted, met>>
                   /\ \A v \in Workers : work'[v].att \in Traces => work'[v].att = work[v].att
<1>1. \A w \in Workers : work[w] \in WorkType
  BY DEF IngestTypes, Shape
<1>2. ASSUME NEW w \in Workers, NEW k, work' = [work EXCEPT ![w] = k], UNCHANGED <<accepted, met>>,
             k.att \in Traces => k.att = work[w].att
      PROVE  Stay
  <2>1. work \in [Workers -> WorkType]
    BY DEF IngestTypes, TypeOK, WorkType
  <2> QED
    BY <1>2, <2>1
<1>3. /\ Idle.att \notin Traces /\ \A todo : Rest("book", todo).att \notin Traces
      /\ \A a \in Atts : \A m : [Idle EXCEPT !.stage = "check", !.mail = m].att \notin Traces
      /\ \A a \in Atts : [Idle EXCEPT !.stage = "asked", !.att = a].att \notin Traces
  BY NobodyIsNoOne DEF Idle, Rest
<1> HIDE DEF Stay
<1>4. ASSUME NEW w \in Workers, NEW m \in Mails, Claim(w, m) PROVE Stay
  <2>1. [Idle EXCEPT !.stage = "check", !.mail = m].att = Nobody
    BY DEF Idle
  <2> QED
    BY <1>2, <1>4, <2>1, NobodyIsNoOne, ClaimShape DEF Claim
<1>5. ASSUME NEW w \in Workers, CheckNames(w) PROVE Stay
  BY <1>1, <1>2, <1>5, CheckShape DEF CheckNames, WorkType
<1>6. ASSUME NEW w \in Workers, NEW a \in Atts, Placeholder(w, a) PROVE Stay
  <2>1. [work[w] EXCEPT !.stage = "ai", !.att = a, !.todo = @ \ {a}].att \notin Traces
    BY <1>1, NobodyIsNoOne DEF WorkType
  <2>2. PICK x : x.att \notin Traces /\ work' = [work EXCEPT ![w] = x]
    BY <1>6, <2>1, PlaceholderShape
  <2> QED
    BY <1>2, <1>6, <2>2 DEF Placeholder
<1>7. ASSUME NEW w \in Workers, Extract(w) PROVE Stay
  <2> PICK k \in {[work[w] EXCEPT !.stage = "extract", !.good = @ \cup {work[w].att}],
                  [work[w] EXCEPT !.stage = "extract", !.bad = @ \cup {work[w].att}]} :
        work' = [work EXCEPT ![w] = k]
    BY <1>7, ExtractShape
  <2> QED
    BY <1>1, <1>2, <1>7 DEF Extract, WorkType
<1>8. ASSUME NEW w \in Workers, Match(w) PROVE Stay
  BY <1>1, <1>2, <1>8, MatchShape DEF Match, WorkType
<1>9. ASSUME NEW w \in Workers, NEW r \in work[w].rows, Dedupe(w, r) PROVE Stay
  <2>1. PICK x : x.att = work[w].att /\ work' = [work EXCEPT ![w] = x]
    BY <1>1, <1>9, DedupeShape DEF WorkType
  <2> QED
    BY <1>2, <1>9, <2>1 DEF Dedupe
<1>10. ASSUME NEW w \in Workers, Commit(w) PROVE Stay
  BY <1>2, <1>3, <1>10, CommitShape DEF Commit
<1>11. ASSUME NEW w \in Workers, Conflict(w) \/ Abort(w) PROVE Stay
  BY <1>2, <1>3, <1>11 DEF Conflict, Abort, GiveUp
<1>12. ASSUME NEW w \in Workers, NEW a \in Atts, AskRetry(w, a) PROVE Stay
  BY <1>2, <1>3, <1>12, AskShape DEF AskRetry
<1>13. ASSUME NEW w \in Workers, BeginRetry(w) PROVE Stay
  BY <1>1, <1>2, <1>13, RetryShape DEF BeginRetry, WorkType
<1>14. ASSUME NEW w \in Workers, Booking(w) PROVE Stay
  BY <1>2, <1>14, BookingShape, BookingFrame
<1>18. ASSUME NEW a \in Atts, Cancel(a) \/ Reopen(a) PROVE Stay
  BY <1>18 DEF Cancel, Reopen, Stay
<1>15. ASSUME NEW w \in Workers, TraceCheck(w) PROVE Stay
  <2>1. [work[w] EXCEPT !.stage = "create"].att = work[w].att
    BY <1>1 DEF WorkType
  <2> QED
    BY <1>2, <1>3, <1>15, <2>1, CreateShape DEF TraceCheck
<1>16. ASSUME NEW w \in Workers, TraceRefused(w) PROVE Stay
  BY <1>2, <1>3, <1>16 DEF TraceRefused
<1>17. CASE UNCHANGED vars
  BY <1>17 DEF vars, Stay
<1> QED
  BY <1>4, <1>5, <1>6, <1>7, <1>8, <1>9, <1>10, <1>11, <1>12, <1>13, <1>14, <1>15, <1>16, <1>17,
     <1>18 DEF Next, Work, Stay, Booking

(* No step lets two deliveries of one reference meet unnoticed.            *)
LEMMA RefStep == IngestTypes /\ RefInv /\ [Next]_vars => RefInv'
<1> SUFFICES ASSUME IngestTypes, RefInv, [Next]_vars PROVE RefInv'
  OBVIOUS
<1> USE DEF SameRef, Met
<1>1. ASSUME NEW w \in Workers, NEW t \in Traces, TraceFind(w, t) PROVE RefInv'
  <2>1. /\ work' = [work EXCEPT ![w] = IF Known(t) THEN Idle ELSE [Idle EXCEPT !.stage = "clash", !.att = t]]
        /\ accepted' = accepted /\ met \subseteq met'
    BY <1>1, FindShape DEF TraceFind, tables
  <2>2. work \in [Workers -> WorkType]
    BY DEF IngestTypes, TypeOK, WorkType
  <2>3. CASE Known(t)
    <3>1. \A v \in Workers : work'[v].att \in Traces => work'[v].att = work[v].att
      BY <2>1, <2>2, <2>3, NobodyIsNoOne DEF Idle
    <3> QED
      BY <2>1, <3>1 DEF RefInv, OneManifestPerRef
  <2>4. CASE ~ Known(t)
    <3>1. work'[w].att = t /\ \A v \in Workers \ {w} : work'[v] = work[v]
      BY <2>1, <2>2, <2>4 DEF Idle
    <3>2. \A u \in accepted : ~ SameRef(u, t)
      BY <2>4 DEF Known
    <3>3. \A v \in Workers : work[v].att \in Traces /\ SameRef(work[v].att, t) => Met(t)'
      BY <1>1, <2>4 DEF TraceFind, Delivering
    <3> QED
      BY <2>1, <3>1, <3>2, <3>3 DEF RefInv, OneManifestPerRef
  <2> QED
    BY <2>3, <2>4
<1>2. ASSUME NEW w \in Workers, TraceCommit(w) PROVE RefInv'
  <2>1. work \in [Workers -> WorkType] /\ work[w].att \in Traces
    BY <1>2 DEF IngestTypes, TypeOK, WorkType, Shape, Holder, TraceCommit
  <2>2. /\ accepted' = accepted \cup {work[w].att} /\ met' = met
        /\ work'[w] = Idle /\ \A v \in Workers \ {w} : work'[v] = work[v]
    BY <1>2, <2>1 DEF TraceCommit, hist, races
  <2>3. Idle.att \notin Traces
    BY NobodyIsNoOne DEF Idle
  <2> QED
    BY <2>1, <2>2, <2>3 DEF RefInv, OneManifestPerRef
<1>3. ASSUME UNCHANGED <<accepted, met>>,
             \A v \in Workers : work'[v].att \in Traces => work'[v].att = work[v].att
      PROVE  RefInv'
  BY <1>3 DEF RefInv, OneManifestPerRef
<1> QED
  BY <1>1, <1>2, <1>3, DeliveriesStay

(* An external_ref gets a second manifest only if two deliveries of it     *)
(* were under way at the same time, however many are sent.                 *)
THEOREM DeliveredOnce == Spec => []OneManifestPerRef
<1>1. Init => RefInv
  BY NobodyIsNoOne DEF Init, RefInv, OneManifestPerRef, Idle
<1>2. RefInv => OneManifestPerRef
  BY DEF RefInv
<1> QED
  BY <1>1, <1>2, RefStep, TypeInit, TypeStep, PTL DEF Spec

-----------------------------------------------------------------------------
(* Jobs stay where they are, and with them what depends on their owners.   *)

(* A job that is there is never moved to another document.                 *)
LEMMA OwnersStay ==
  ASSUME IngestTypes, [Next]_vars
  PROVE  \A h \in Hawbs : owner[h] # Nobody => owner'[h] = owner[h]
<1> USE DEF tables, hist, races, failures
<1> DEFINE Stay == \A h \in Hawbs : owner[h] # Nobody => owner'[h] = owner[h]
<1> SUFFICES Stay
  OBVIOUS
<1>1. ASSUME owner' = owner PROVE Stay
  BY <1>1
<1>2. ASSUME NEW w \in Workers, Commit(w) PROVE Stay
  BY <1>2, CommitOwner
<1>3. ASSUME NEW w \in Workers, TraceCommit(w) PROVE Stay
  BY <1>3 DEF TraceCommit, Free
<1> HIDE DEF Stay
<1>4. ASSUME NEW w \in Workers, WorkerStep(w)
      PROVE  Commit(w) \/ TraceCommit(w) \/ owner' = owner
  BY <1>4, BookingFrame DEF Work, Claim, CheckNames, Placeholder, Extract, Match, Dedupe,
     Conflict, GiveUp, BeginRetry, TraceCheck, TraceRefused, Abort, AskRetry, TraceFind,
     Booking, WorkerStep
<1>5. CASE UNCHANGED vars
  BY <1>1, <1>5 DEF vars
<1>6. CASE \E w \in Workers : WorkerStep(w)
  <2> PICK w \in Workers : WorkerStep(w)
    BY <1>6
  <2> QED
    BY <1>1, <1>2, <1>3, <1>4
<1>7. CASE DeskStep
  BY <1>1, <1>7 DEF DeskStep, Cancel, Reopen
<1> QED
  BY <1>5, <1>6, <1>7, Steps

(* The statuses of a manifest that has its jobs.                           *)
Settled == {"open", "cancelled", "exported"}

(* Manifests open in a commit, and settle in no other step.                 *)
LEMMA Opened ==
  ASSUME IngestTypes, [Next]_vars, NEW a \in Atts, man'[a] \in Settled
  PROVE  \/ man[a] \in Settled
         \/ \E w \in Workers : Commit(w) /\ Inserted(w, a) # {}
<1> USE DEF tables, hist, races, failures
<1> DEFINE Goal == \/ man[a] \in Settled
                   \/ \E w \in Workers : Commit(w) /\ Inserted(w, a) # {}
<1> SUFFICES Goal
  OBVIOUS
<1>1. man \in [Atts -> Statuses]
  BY DEF IngestTypes, TypeOK, Statuses
<1>2. ASSUME NEW w \in Workers, Commit(w) PROVE Goal
  BY <1>1, <1>2 DEF Commit, Outcome, Settled
<1>3. ASSUME NEW w \in Workers, NEW b \in Atts, Placeholder(w, b) PROVE Goal
  BY <1>1, <1>3 DEF Placeholder, Settled
<1>4. ASSUME NEW w \in Workers, BeginRetry(w) PROVE Goal
  BY <1>1, <1>4 DEF BeginRetry, Settled
<1>5. ASSUME NEW w \in Workers, Booking(w) PROVE Goal
  BY <1>5, BookingFrame DEF Settled
<1>6. ASSUME man' = man PROVE Goal
  BY <1>6
<1>10. CASE DeskStep
  BY <1>10, DeskFrame DEF DeskStep, Settled
<1> HIDE DEF Goal
<1>7. ASSUME NEW w \in Workers, WorkerStep(w)
      PROVE  \/ Commit(w) \/ BeginRetry(w) \/ man' = man
             \/ \E b \in Atts : Placeholder(w, b)
             \/ Booking(w)
  BY <1>7 DEF Work, Claim, CheckNames, Extract, Match, Dedupe, Conflict, GiveUp, TraceCommit,
     TraceCheck, TraceRefused, Abort, AskRetry, TraceFind, Booking, WorkerStep
<1>8. CASE UNCHANGED vars
  BY <1>6, <1>8 DEF vars
<1>9. CASE \E w \in Workers : WorkerStep(w)
  <2> PICK w \in Workers : WorkerStep(w)
    BY <1>9
  <2> QED
    BY <1>2, <1>3, <1>4, <1>5, <1>6, <1>7
<1> QED
  BY <1>8, <1>9, <1>10, Steps

(* No step takes a job from a manifest that needs one.                     *)
LEMMA OpenStep == IngestTypes /\ OpenHasJobs /\ [Next]_vars => OpenHasJobs'
<1> SUFFICES ASSUME IngestTypes, OpenHasJobs, [Next]_vars PROVE OpenHasJobs'
  OBVIOUS
<1>1. ASSUME NEW a \in Atts, man'[a] \in Settled
      PROVE  \E h \in Hawbs : owner'[h] = a
  <2>1. CASE man[a] \in Settled
    BY <2>1, OwnersStay, NobodyIsNoOne DEF OpenHasJobs, Settled
  <2>2. ASSUME NEW w \in Workers, Commit(w), Inserted(w, a) # {}
        PROVE  \E h \in Hawbs : owner'[h] = a
    <3>1. PICK r \in work[w].ins : r.doc = a
      BY <2>2 DEF Inserted
    <3>2. r.hawb \in Hawbs
      BY DEF IngestTypes, Shape, WorkType, Row
    <3> QED
      BY <2>2, <3>1, <3>2, CommitOwner
  <2> QED
    BY <1>1, <2>1, <2>2, Opened
<1>2. ASSUME NEW t \in accepted', NEW h \in Content[t] PROVE owner'[h] = t
  <2>1. CASE t \in accepted
    <3>1. t \in Traces /\ h \in Hawbs
      BY <2>1, AttachmentAssumption DEF IngestTypes, TypeOK
    <3> QED
      BY <2>1, <3>1, OwnersStay, NobodyIsNoOne DEF OpenHasJobs
  <2>2. CASE t \notin accepted
    <3>1. PICK w \in Workers : TraceCommit(w)
      BY <2>2, DeliveriesStay DEF TraceFind, tables
    <3>2. t = work[w].att /\ t \in Traces
      BY <2>2, <3>1 DEF TraceCommit, IngestTypes, Shape, Holder
    <3>3. h \in Hawbs
      BY <3>2, AttachmentAssumption
    <3> QED
      BY <3>1, <3>2, <3>3 DEF TraceCommit
  <2> QED
    BY <2>1, <2>2
<1> QED
  BY <1>1, <1>2 DEF OpenHasJobs, Settled

(* A settled manifest has a job, and one of TRACE has all its jobs,        *)
(* whatever other batches, retries and deliveries insert meanwhile.        *)
THEOREM OpenManifestsHaveJobs == Spec => []OpenHasJobs
<1>1. Init => OpenHasJobs
  BY DEF Init, OpenHasJobs
<1> QED
  BY <1>1, OpenStep, TypeInit, TypeStep, PTL DEF Spec

-----------------------------------------------------------------------------
(* Nothing that was read is dropped.  KeptInv adds that a batch or retry   *)
(* which has matched still has a row for each number that its files hold:  *)
(* to be looked at, to be inserted or to be queued.                        *)

Kept(k) ==
    k.stage = "dedupe" =>
        \A a \in k.good : \A h \in Content[a] :
            \E r \in k.rows \cup k.ins \cup k.ups :
                r.hawb = h /\ r.doc \in AttsOf(MailOf[a])

KeptInv == NeverDropped /\ \A w \in Workers : Kept(work[w])

(* The files that one worker has extracted belong to one e-mail.           *)
LEMMA OneMail ==
  ASSUME IngestTypes, NEW w \in Workers, NEW a \in work[w].good \cup work[w].bad,
         NEW b \in work[w].good \cup work[w].bad
  PROVE  a \in Atts /\ MailOf[a] = MailOf[b] /\ b \in AttsOf(MailOf[a])
<1>1. a \in Mine(work[w]) /\ b \in Mine(work[w]) /\ a \in Atts /\ b \in Atts
  BY DEF IngestTypes, Shape, Files, WorkType
<1> QED
  BY <1>1 DEF Mine, AttsOf

(* Matching makes a row for every number.                                  *)
LEMMA MatchKeeps ==
  ASSUME IngestTypes, NEW w \in Workers, NEW a \in work[w].good, NEW h \in Content[a]
  PROVE  \E r \in UNION {RowsFrom(w, b) : b \in work[w].good} :
            r.hawb = h /\ r.doc \in AttsOf(MailOf[a])
<1>1. \A b \in work[w].good : Home(w, h, b) \in work[w].good
  BY DEF Home, Companions, Plain
<1>2. \A b \in work[w].good : b \in AttsOf(MailOf[a])
  BY OneMail
<1>3. CASE \E b \in Blind(w) : h \in Content[b]
  <2> PICK b \in Blind(w) : h \in Content[b]
    BY <1>3
  <2> DEFINE r == [hawb |-> h, doc |-> Home(w, h, b), from |-> b]
  <2>1. b \in work[w].good /\ r \in RowsFrom(w, b)
    BY DEF Blind, RowsFrom
  <2>2. r.hawb = h /\ r.doc \in AttsOf(MailOf[a])
    BY <1>1, <1>2, <2>1
  <2> QED
    BY <2>1, <2>2
<1>4. CASE ~ \E b \in Blind(w) : h \in Content[b]
  <2> DEFINE r == [hawb |-> h, doc |-> a, from |-> a]
  <2>1. Sort[a] # "blind" /\ h \notin BlindHawbs(w)
    BY <1>4 DEF Blind, BlindHawbs
  <2>2. r \in RowsFrom(w, a)
    BY <2>1 DEF RowsFrom
  <2>3. r.hawb = h /\ r.doc \in AttsOf(MailOf[a])
    BY <1>2
  <2> QED
    BY <2>2, <2>3
<1> QED
  BY <1>3, <1>4

(* No step drops a number that was read.                                   *)
LEMMA KeptStep == IngestTypes /\ KeptInv /\ [Next]_vars => KeptInv'
<1> SUFFICES ASSUME IngestTypes, KeptInv, [Next]_vars PROVE KeptInv'
  OBVIOUS
<1> USE DEF tables, hist, races, failures
<1>1. /\ \A w \in Workers : work[w] \in WorkType /\ Shape(work[w])
      /\ work \in [Workers -> WorkType]
      /\ doc \in [Atts -> {"none", "processing", "processed", "failed"}]
  BY DEF IngestTypes, TypeOK, WorkType, Shape
<1>2. \A h \in Hawbs, b \in Atts : owner[h] = b => owner'[h] = b
  BY OwnersStay, NobodyIsNoOne
<1>3. \A a \in Atts : Content[a] \subseteq Hawbs /\ AttsOf(MailOf[a]) \subseteq Atts
  BY AttachmentAssumption, NobodyIsNoOne
<1>4. ASSUME upds' = upds, \A a \in Atts : doc'[a] = "processed" => doc[a] = "processed"
      PROVE  NeverDropped'
  BY <1>2, <1>3, <1>4 DEF KeptInv, NeverDropped
<1>5. ASSUME NEW w \in Workers, work'[w].stage # "dedupe",
             \A v \in Workers \ {w} : work'[v] = work[v], upds' = upds, \A a \in Atts : doc'[a] = "processed" => doc[a] = "processed"
      PROVE  KeptInv'
  <2>1. \A v \in Workers : Kept(work'[v])
    BY <1>1, <1>5 DEF KeptInv, Kept
  <2> QED
    BY <1>4, <1>5, <2>1 DEF KeptInv, Kept
<1>6. ASSUME NEW w \in Workers, NEW m \in Mails, Claim(w, m) PROVE KeptInv'
  <2>1. [Idle EXCEPT !.stage = "check", !.mail = m].stage = "check"
    BY DEF Idle
  <2> QED
    BY <1>1, <1>5, <1>6, <2>1 DEF Claim
<1>7. ASSUME NEW w \in Workers, CheckNames(w) PROVE KeptInv'
  <2>0. work'[w].stage = "extract" /\ \A v \in Workers \ {w} : work'[v] = work[v]
    BY <1>1, <1>7 DEF CheckNames, WorkType
  <2> QED
    BY <1>5, <1>7, <2>0 DEF CheckNames
<1>8. ASSUME NEW w \in Workers, NEW a \in Atts, Placeholder(w, a) PROVE KeptInv'
  <2>0. work'[w].stage = "ai" /\ \A v \in Workers \ {w} : work'[v] = work[v]
    BY <1>1, <1>8 DEF Placeholder, WorkType
  <2>1. \A b \in Atts : doc'[b] = "processed" => doc[b] = "processed"
    BY <1>1, <1>8 DEF Placeholder
  <2> QED
    BY <1>5, <1>8, <2>0, <2>1 DEF Placeholder
<1>9. ASSUME NEW w \in Workers, Extract(w) PROVE KeptInv'
  <2>0. work'[w].stage = "extract" /\ \A v \in Workers \ {w} : work'[v] = work[v]
    BY <1>1, <1>9 DEF Extract, WorkType
  <2> QED
    BY <1>5, <1>9, <2>0 DEF Extract
<1>10. ASSUME NEW w \in Workers, Match(w) PROVE KeptInv'
  <2> DEFINE rows == UNION {RowsFrom(w, a) : a \in work[w].good}
  <2> HIDE DEF rows
  <2>1. work' = [work EXCEPT ![w] = [work[w] EXCEPT !.stage = "dedupe", !.rows = rows]]
    BY <1>10, MatchShape DEF rows
  <2>2. /\ work'[w].rows = rows /\ work'[w].good = work[w].good
        /\ \A v \in Workers \ {w} : work'[v] = work[v]
    BY <1>1, <2>1 DEF WorkType
  <2>3. \A a \in work[w].good : \A h \in Content[a] :
          \E r \in rows : r.hawb = h /\ r.doc \in AttsOf(MailOf[a])
    BY MatchKeeps DEF rows
  <2>4. \A v \in Workers : Kept(work'[v])
    BY <2>2, <2>3 DEF KeptInv, Kept
  <2> QED
    BY <1>4, <1>10, <2>4 DEF Match, KeptInv, Kept
<1>11. ASSUME NEW w \in Workers, NEW r \in work[w].rows, Dedupe(w, r) PROVE KeptInv'
  <2>1. work[w].stage = "dedupe" /\ Kept(work[w])
    BY <1>11 DEF Dedupe, KeptInv
  <2>2. /\ work'[w].rows \cup work'[w].ins \cup work'[w].ups
             = work[w].rows \cup work[w].ins \cup work[w].ups
        /\ work'[w].good = work[w].good
        /\ \A v \in Workers \ {w} : work'[v] = work[v]
    BY <1>1, <1>11 DEF Dedupe, WorkType
  <2>3. \A v \in Workers : Kept(work'[v])
    BY <2>1, <2>2 DEF KeptInv, Kept
  <2> QED
    BY <1>4, <1>11, <2>3 DEF Dedupe, KeptInv, Kept
<1>12. ASSUME NEW w \in Workers, Commit(w) PROVE KeptInv'
  <2>1. \A v \in Workers : Kept(work'[v])
    <3>1. Rest("book", Due(w)).stage # "dedupe"
      BY DEF Rest, Idle
    <3> QED
      BY <1>1, <1>12, <3>1, CommitShape DEF KeptInv, Kept
  <2>2. ASSUME NEW a \in Atts, doc'[a] = "processed", NEW h \in Content[a]
        PROVE  \E b \in AttsOf(MailOf[a]) : owner'[h] = b \/ upds'[<<h, b>>] > 0
    <3>1. h \in Hawbs
      BY <1>3
    <3>2. CASE a \in work[w].good
      <4>1. PICK r \in work[w].ins \cup work[w].ups : r.hawb = h /\ r.doc \in AttsOf(MailOf[a])
        BY <1>12, <3>2 DEF Commit, KeptInv, Kept
      <4>2. CASE r \in work[w].ins
        BY <1>12, <4>1, <4>2, CommitOwner
      <4>3. CASE r \in work[w].ups
        <5>1. <<h, r.doc>> \in Hawbs \X Atts /\ <<h, r.doc>>[1] = h /\ <<h, r.doc>>[2] = r.doc
          BY <1>3, <3>1, <4>1
        <5>2. upds'[<<h, r.doc>>] > 0
          BY <1>12, <4>1, <4>3, <5>1, CommitUpdates
        <5> QED
          BY <4>1, <5>2
      <4> QED
        BY <4>1, <4>2, <4>3
    <3>3. CASE a \notin work[w].good
      <4>1. doc[a] = "processed"
        BY <1>12, <2>2, <3>3 DEF Commit
      <4>2. PICK b \in AttsOf(MailOf[a]) : owner[h] = b \/ upds[<<h, b>>] > 0
        BY <4>1 DEF KeptInv, NeverDropped
      <4>3. <<h, b>> \in Hawbs \X Atts
        BY <1>3, <3>1
      <4> QED
        BY <1>2, <1>3, <1>12, <3>1, <4>2, <4>3, CommitUpdates
    <3> QED
      BY <3>2, <3>3
  <2> QED
    BY <2>1, <2>2 DEF KeptInv, NeverDropped, Kept
<1>13. ASSUME NEW w \in Workers, Conflict(w) \/ Abort(w) \/ TraceCommit(w) \/ TraceRefused(w)
       PROVE  KeptInv'
  <2>1. Idle.stage # "dedupe"
    BY DEF Idle
  <2> QED
    BY <1>1, <1>5, <1>13, <2>1 DEF Conflict, Abort, GiveUp, TraceCommit, TraceRefused
<1>14. ASSUME NEW w \in Workers, NEW a \in Atts, AskRetry(w, a) PROVE KeptInv'
  <2>1. [Idle EXCEPT !.stage = "asked", !.att = a].stage = "asked"
    BY DEF Idle
  <2> QED
    BY <1>1, <1>5, <1>14, <2>1 DEF AskRetry
<1>15. ASSUME NEW w \in Workers, BeginRetry(w) PROVE KeptInv'
  <2>0. work'[w].stage = "ai" /\ \A v \in Workers \ {w} : work'[v] = work[v]
    BY <1>1, <1>15 DEF BeginRetry, WorkType
  <2>1. \A b \in Atts : doc'[b] = "processed" => doc[b] = "processed"
    BY <1>1, <1>15 DEF BeginRetry
  <2> QED
    BY <1>5, <1>15, <2>0, <2>1 DEF BeginRetry
<1>16. ASSUME NEW w \in Workers, Booking(w) PROVE KeptInv'
  <2> PICK k : /\ work' = [work EXCEPT ![w] = k] /\ Shape(k)
               /\ k.stage \in After \cup {"idle"}
    BY <1>16, BookingShape
  <2>1. work'[w].stage # "dedupe" /\ \A v \in Workers \ {w} : work'[v] = work[v]
    BY <1>1 DEF After
  <2> QED
    BY <1>5, <1>16, <2>1, BookingFrame
<1>20. ASSUME NEW a \in Atts, Cancel(a) \/ Reopen(a) PROVE KeptInv'
  BY <1>4, <1>20 DEF Cancel, Reopen, KeptInv, Kept
<1>17. ASSUME NEW w \in Workers, NEW t \in Traces, TraceFind(w, t) PROVE KeptInv'
  <2>1. \A v \in Workers : work'[v].stage = "dedupe" => work'[v] = work[v]
    <3>1. \/ work' = work
          \/ work' = [work EXCEPT ![w] = [Idle EXCEPT !.stage = "clash", !.att = t]]
      BY <1>17, Zenon DEF TraceFind
    <3>2. [Idle EXCEPT !.stage = "clash", !.att = t].stage # "dedupe"
      BY DEF Idle
    <3> QED
      BY <1>1, <3>1, <3>2
  <2> QED
    BY <1>4, <1>17, <2>1 DEF TraceFind, KeptInv, Kept
<1>18. ASSUME NEW w \in Workers, TraceCheck(w) PROVE KeptInv'
  <2>1. work'[w].stage # "dedupe" /\ \A v \in Workers \ {w} : work'[v] = work[v]
    BY <1>1, <1>18 DEF TraceCheck, WorkType, Idle
  <2> QED
    BY <1>5, <1>18, <2>1 DEF TraceCheck
<1>19. CASE UNCHANGED vars
  BY <1>4, <1>19 DEF vars, KeptInv, Kept
<1> QED
  BY <1>6, <1>7, <1>8, <1>9, <1>10, <1>11, <1>12, <1>13, <1>14, <1>15, <1>16, <1>17,
     <1>18, <1>19, <1>20 DEF Next, Work, Booking

(* A HAWB number that extraction found in a file has a job on a document   *)
(* of the same e-mail or a pending update, once the file is processed.     *)
THEOREM NumbersAreKept == Spec => []NeverDropped
<1>1. Init => KeptInv
  BY DEF Init, KeptInv, NeverDropped, Kept, Idle
<1>2. KeptInv => NeverDropped
  BY DEF KeptInv
<1> QED
  BY <1>1, <1>2, KeptStep, TypeInit, TypeStep, PTL DEF Spec

-----------------------------------------------------------------------------
(* The automatic booking.  OpenIsDueOrReported is inductive: a manifest    *)
(* opens in the step that makes it due, and stops being due in the step    *)
(* that books it, marks it, or gives it up.  An alert that is due stays so *)
(* until it is sent or given up.  A cancelled manifest is not forgotten    *)
(* either: its booking is due, has passed it by, or has failed before.     *)

IsDue(a, k) == k.stage \in After /\ a \in k.todo

Reports(a, k) == k.stage = "alert" /\ k.att = a

Accounted(a) ==
    \/ a \in missed \cup passed
    \/ a \in refused /\ (a \in told \/ \E w \in Workers : Reports(a, work[w]))
    \/ \E w \in Workers : IsDue(a, work[w])

DueInv == \A a \in Thinv : man[a] \in {"open", "cancelled"} => Accounted(a)

(* No step forgets a manifest that is open or may be again.                *)
LEMMA DueStep == IngestTypes /\ DueInv /\ [Next]_vars => DueInv'
<1> SUFFICES ASSUME IngestTypes, DueInv, [Next]_vars,
                    NEW a \in Thinv, man'[a] \in {"open", "cancelled"}
             PROVE  Accounted(a)'
  BY DEF DueInv
<1> USE DEF tables, hist, races, failures
<1> DEFINE Live == {"open", "cancelled"}
<1>1. /\ \A w \in Workers : work[w] \in WorkType /\ Shape(work[w])
      /\ work \in [Workers -> WorkType] /\ a \in Atts
      /\ man \in [Atts -> Statuses]
  BY NobodyIsNoOne DEF IngestTypes, TypeOK, WorkType, Shape, Statuses
<1>2. man[a] \in Live => Accounted(a)
  BY DEF DueInv
<1>3. ASSUME NEW w \in Workers, work[w].stage \notin After, man'[a] \in Live => man[a] \in Live,
             \A v \in Workers \ {w} : work'[v] = work[v],
             refused \subseteq refused', missed \subseteq missed', told \subseteq told',
             passed \subseteq passed'
      PROVE  Accounted(a)'
  BY <1>2, <1>3 DEF Accounted, IsDue, Reports, After
<1>4. ASSUME NEW w \in Workers, Commit(w) PROVE Accounted(a)'
  <2>1. \A v \in Workers \ {w} : work'[v] = work[v]
    BY <1>1, <1>4 DEF Commit
  <2>2. CASE a \in work[w].good \cup work[w].bad
    <3>1. CASE Outcome(w, a) = "open"
      <4>1. a \in Due(w)
        BY <1>1, <2>2, <3>1 DEF Due
      <4>2. work'[w] = [Idle EXCEPT !.stage = "book", !.todo = Due(w)]
        BY <1>1, <1>4, <4>1 DEF Commit, Rest
      <4> QED
        BY <4>1, <4>2 DEF Accounted, IsDue, Idle, After
    <3>2. CASE Outcome(w, a) # "open"
      <4>1. man'[a] = man[a] /\ work[w].stage \notin After
        BY <1>1, <1>4, <2>2, <3>2 DEF Commit, Outcome, After
      <4> QED
        BY <1>3, <1>4, <2>1, <4>1 DEF Commit
    <3> QED
      BY <3>1, <3>2
  <2>3. CASE a \notin work[w].good \cup work[w].bad
    BY <1>1, <1>3, <1>4, <2>1, <2>3 DEF Commit, After
  <2> QED
    BY <2>2, <2>3
<1>5. ASSUME NEW w \in Workers, GiveUp(w) PROVE Accounted(a)'
  <2>1. /\ man' = man /\ refused' = refused /\ told' = told /\ passed' = passed
        /\ missed \subseteq missed' /\ \A v \in Workers \ {w} : work'[v] = work[v]
        /\ IsDue(a, work[w]) \/ Reports(a, work[w]) => a \in missed'
    BY <1>1, <1>5 DEF GiveUp, IsDue, Reports, After
  <2> QED
    BY <1>2, <2>1 DEF Accounted
<1>6. ASSUME NEW w \in Workers, NEW b \in Thinv, Book(w, b) PROVE Accounted(a)'
  <2> DEFINE rest == work[w].todo \ {b}
  <2>1. /\ work[w].stage = "book" /\ b \in work[w].todo /\ missed' = missed /\ told' = told
        /\ \A v \in Workers \ {w} : work'[v] = work[v]
    BY <1>1, <1>6 DEF Book
  <2>2. \A v \in Workers \ {w} : IsDue(a, work'[v]) = IsDue(a, work[v])
                               /\ Reports(a, work'[v]) = Reports(a, work[v])
    BY <2>1
  <2>3. /\ a \in rest => IsDue(a, Rest("book", rest))
        /\ a \in rest => IsDue(a, [Idle EXCEPT !.stage = "alert", !.att = b, !.todo = rest])
        /\ Reports(b, [Idle EXCEPT !.stage = "alert", !.att = b, !.todo = rest])
    BY DEF IsDue, Reports, Rest, Idle, After
  <2> HIDE DEF rest
  <2>4. CASE man[b] = "open" /\ man' = [man EXCEPT ![b] = "exported"]
             /\ work' = [work EXCEPT ![w] = Rest("book", rest)] /\ UNCHANGED <<refused, passed>>
    <3>1. a # b /\ man[a] \in Live
      BY <1>1, <2>4
    <3>2. IsDue(a, work[w]) => IsDue(a, work'[w])
      BY <1>1, <2>3, <2>4, <3>1 DEF IsDue, rest
    <3>3. ~ Reports(a, work[w])
      BY <2>1 DEF Reports
    <3> QED
      BY <1>2, <2>1, <2>2, <2>4, <3>1, <3>2, <3>3 DEF Accounted
  <2>5. CASE man[b] = "open" /\ refused' = refused \cup {b} /\ UNCHANGED <<man, passed>>
             /\ work' = [work EXCEPT ![w] =
                  [Idle EXCEPT !.stage = "alert", !.att = b, !.todo = rest]]
    <3>1. CASE a = b
      BY <1>1, <2>3, <2>5, <3>1 DEF Accounted
    <3>2. CASE a # b
      <4>1. IsDue(a, work[w]) => IsDue(a, work'[w])
        BY <1>1, <2>3, <2>5, <3>2 DEF IsDue, rest
      <4>2. ~ Reports(a, work[w])
        BY <2>1 DEF Reports
      <4> QED
        BY <1>2, <2>1, <2>2, <2>5, <4>1, <4>2 DEF Accounted
    <3> QED
      BY <3>1, <3>2
  <2>6. CASE man[b] # "open" /\ passed' = (IF man[b] = "cancelled" THEN passed \cup {b} ELSE passed)
             /\ work' = [work EXCEPT ![w] = Rest("book", rest)] /\ UNCHANGED <<man, refused>>
    <3>1. CASE a = b
      BY <2>6, <3>1 DEF Accounted
    <3>2. CASE a # b
      <4>1. IsDue(a, work[w]) => IsDue(a, work'[w])
        BY <1>1, <2>3, <2>6, <3>2 DEF IsDue, rest
      <4>2. ~ Reports(a, work[w])
        BY <2>1 DEF Reports
      <4> QED
        BY <1>2, <2>1, <2>2, <2>6, <4>1, <4>2 DEF Accounted
    <3> QED
      BY <3>1, <3>2
  <2> QED
    BY <1>6, <2>4, <2>5, <2>6, Zenon DEF Book, rest
<1>7. ASSUME NEW w \in Workers, NEW b \in Thinv, BookFails(w, b) PROVE Accounted(a)'
  <2>1. /\ UNCHANGED <<man, refused, told, passed>> /\ missed' = missed \cup {b}
        /\ ~ Reports(a, work[w])
    BY <1>7 DEF BookFails, Reports
  <2>2. a # b /\ IsDue(a, work[w]) => IsDue(a, work'[w])
    BY <1>1, <1>7 DEF BookFails, Rest, Idle, IsDue, After
  <2>3. \A v \in Workers \ {w} : work'[v] = work[v]
    BY <1>1, <1>7 DEF BookFails
  <2>4. man[a] \in Live
    BY <2>1
  <2>5. CASE \E v \in Workers : IsDue(a, work[v])
    BY <2>1, <2>2, <2>3, <2>5 DEF Accounted
  <2>6. CASE \E v \in Workers : Reports(a, work[v]) /\ a \in refused
    BY <2>1, <2>3, <2>6 DEF Accounted
  <2> QED
    BY <1>2, <2>1, <2>4, <2>5, <2>6 DEF Accounted
<1>13. ASSUME NEW w \in Workers, Alert(w) \/ AlertFails(w) PROVE Accounted(a)'
  <2>1. /\ UNCHANGED <<man, refused, passed>> /\ missed \subseteq missed' /\ told \subseteq told'
        /\ Reports(a, work[w]) => a \in told' \cup missed'
    BY <1>13 DEF Alert, AlertFails, Reports
  <2>2. IsDue(a, work[w]) => IsDue(a, work'[w])
    BY <1>1, <1>13 DEF Alert, AlertFails, Rest, Idle, IsDue, After
  <2>3. \A v \in Workers \ {w} : work'[v] = work[v]
    BY <1>1, <1>13 DEF Alert, AlertFails
  <2>4. man[a] \in Live
    BY <2>1
  <2>5. CASE \E v \in Workers : IsDue(a, work[v])
    BY <2>1, <2>2, <2>3, <2>5 DEF Accounted
  <2>6. CASE \E v \in Workers : Reports(a, work[v]) /\ a \in refused
    BY <2>1, <2>3, <2>6 DEF Accounted
  <2> QED
    BY <1>2, <2>1, <2>4, <2>5, <2>6 DEF Accounted
<1>14. CASE DeskStep
  BY <1>1, <1>2, <1>14, DeskFrame DEF DeskStep, Accounted
<1>8. ASSUME NEW w \in Workers, NEW b \in Atts, Placeholder(w, b) PROVE Accounted(a)'
  <2>1. work[w].stage \notin After /\ \A v \in Workers \ {w} : work'[v] = work[v]
    BY <1>1, <1>8 DEF Placeholder, After
  <2> QED
    BY <1>1, <1>3, <1>8, <2>1 DEF Placeholder
<1>9. ASSUME NEW w \in Workers, BeginRetry(w) PROVE Accounted(a)'
  <2>1. work[w].stage \notin After /\ \A v \in Workers \ {w} : work'[v] = work[v]
    BY <1>1, <1>9 DEF BeginRetry, After
  <2> QED
    BY <1>1, <1>3, <1>9, <2>1 DEF BeginRetry
<1>10. ASSUME NEW w \in Workers,
              \/ CheckNames(w) \/ Extract(w) \/ Match(w) \/ TraceCheck(w) \/ TraceCommit(w)
              \/ TraceRefused(w)
              \/ \E r \in work[w].rows : Dedupe(w, r)
       PROVE  Accounted(a)'
  <2>1. work[w].stage \notin After /\ UNCHANGED <<man, refused, told, missed, passed>>
    BY <1>10 DEF CheckNames, Extract, Match, TraceCheck, TraceCommit, TraceRefused, Dedupe, After
  <2>2. \A v \in Workers \ {w} : work'[v] = work[v]
    BY <1>1, <1>10 DEF CheckNames, Extract, Match, TraceCheck, TraceCommit, TraceRefused, Dedupe
  <2> QED
    BY <1>3, <2>1, <2>2
<1>11. ASSUME NEW w \in Workers,
              \/ \E m \in Mails : Claim(w, m)
              \/ \E b \in Atts : AskRetry(w, b)
              \/ \E t \in Traces : TraceFind(w, t)
       PROVE  Accounted(a)'
  <2>1. work[w].stage \notin After /\ UNCHANGED <<man, refused, told, missed, passed>>
    <3>1. Idle.stage = "idle"
      BY DEF Idle
    <3> QED
      BY <1>11, <3>1 DEF Claim, AskRetry, TraceFind, After
  <2>2. \A v \in Workers \ {w} : work'[v] = work[v]
    BY <1>1, <1>11 DEF Claim, AskRetry, TraceFind
  <2> QED
    BY <1>3, <2>1, <2>2
<1>12. CASE UNCHANGED vars
  BY <1>2, <1>12 DEF vars, Accounted
<1> QED
  BY <1>4, <1>5, <1>6, <1>7, <1>8, <1>9, <1>10, <1>11, <1>12, <1>13, <1>14, Steps
  DEF WorkerStep, Work, Booking, Conflict, Abort

(* A Thinventory manifest is never left open in silence, unless the worker *)
(* that was to book it or to tell of the failure failed at that, or the    *)
(* desk had cancelled it when its booking came.                            *)
THEOREM OpenIsBookedOrReported == Spec => []OpenIsDueOrReported
<1>1. Init => DueInv
  BY NobodyIsNoOne DEF Init, DueInv
<1>2. DueInv => OpenIsDueOrReported
  BY DEF DueInv, Accounted, OpenIsDueOrReported, IsDue, Reports, Alerting
<1> QED
  BY <1>1, <1>2, DueStep, TypeInit, TypeStep, PTL DEF Spec

-----------------------------------------------------------------------------
(* No file vanishes.  FoundInv adds that a batch which is under way still  *)
(* has every file of its e-mail in hand, or its document is there.         *)

Found(k) ==
    k.stage \in {"extract", "ai", "dedupe"} =>
        \A a \in AttsOf(k.mail) :
            Sort[a] \in {"plain", "blind"} => doc[a] # "none" \/ a \in k.todo \cup k.dups

FoundInv == NoPdfVanishes /\ \A w \in Workers : Found(work[w])

(* A document is there for good.                                           *)
LEMMA DocumentsStay ==
  ASSUME IngestTypes, [Next]_vars, NEW a \in Atts, doc[a] # "none"
  PROVE  doc'[a] # "none"
<1> USE DEF tables, hist, races, failures
<1>1. doc \in [Atts -> {"none", "processing", "processed", "failed"}]
  BY DEF IngestTypes, TypeOK
<1>2. ASSUME NEW w \in Workers, Commit(w) PROVE doc'[a] # "none"
  BY <1>2 DEF Commit
<1>3. ASSUME NEW w \in Workers, NEW b \in Atts, Placeholder(w, b) PROVE doc'[a] # "none"
  BY <1>1, <1>3 DEF Placeholder
<1>4. ASSUME NEW w \in Workers, BeginRetry(w) PROVE doc'[a] # "none"
  BY <1>1, <1>4 DEF BeginRetry
<1>5. ASSUME NEW w \in Workers, WorkerStep(w)
      PROVE  \/ Commit(w) \/ BeginRetry(w) \/ doc' = doc
             \/ \E b \in Atts : Placeholder(w, b)
  BY <1>5, BookingFrame DEF Work, Claim, CheckNames, Extract, Match, Dedupe, Conflict, GiveUp, TraceCommit,
     TraceCheck, TraceRefused, Abort, AskRetry, TraceFind, WorkerStep, Booking
<1>6. CASE UNCHANGED vars
  BY <1>6 DEF vars
<1>7. CASE \E w \in Workers : WorkerStep(w)
  <2> PICK w \in Workers : WorkerStep(w)
    BY <1>7
  <2> QED
    BY <1>2, <1>3, <1>4, <1>5
<1>8. CASE DeskStep
  BY <1>8 DEF DeskStep, Cancel, Reopen
<1> QED
  BY <1>6, <1>7, <1>8, Steps

(* An e-mail leaves the hands of its worker in a commit or is given up.    *)
LEMMA HandedOver ==
  ASSUME IngestTypes, [Next]_vars, NEW w \in Workers, work[w].mail \in Mails
  PROVE  work'[w].mail = work[w].mail \/ Commit(w) \/ GiveUp(w)
<1> USE DEF tables, hist, races, failures
<1>1. /\ \A v \in Workers : work[v] \in WorkType /\ Shape(work[v])
      /\ work \in [Workers -> WorkType]
  BY DEF IngestTypes, TypeOK, WorkType, Shape
<1>2. work[w].stage \notin After \cup {"idle", "clash", "create", "asked"} /\ work[w] # Idle
  BY <1>1, NobodyIsNoOne DEF Shape, Holder, Idle
<1>3. ASSUME NEW v \in Workers,
             \/ \E m \in Mails : Claim(v, m)
             \/ \E a \in Atts : AskRetry(v, a)
             \/ \E t \in Traces : TraceFind(v, t)
      PROVE  work'[w] = work[w]
  BY <1>1, <1>2, <1>3 DEF Claim, AskRetry, TraceFind
<1>4. ASSUME NEW v \in Workers,
             BeginRetry(v) \/ TraceCheck(v) \/ TraceCommit(v) \/ TraceRefused(v)
      PROVE  work'[w] = work[w]
  BY <1>1, <1>2, <1>4 DEF BeginRetry, TraceCheck, TraceCommit, TraceRefused
<1>9. ASSUME NEW v \in Workers, Booking(v) PROVE work'[w] = work[w]
  BY <1>1, <1>2, <1>9, BookingShape, BookingFrame
<1>10. CASE DeskStep
  BY <1>10 DEF DeskStep, Cancel, Reopen
<1>5. ASSUME NEW v \in Workers, CheckNames(v) \/ Extract(v) \/ Match(v)
      PROVE  work'[w].mail = work[w].mail
  BY <1>1, <1>5 DEF CheckNames, Extract, Match, WorkType
<1>6. ASSUME NEW v \in Workers,
             \/ \E a \in Atts : Placeholder(v, a)
             \/ \E r \in work[v].rows : Dedupe(v, r)
      PROVE  work'[w].mail = work[w].mail
  <2>1. CASE v # w
    BY <1>1, <1>6, <2>1 DEF Placeholder, Dedupe
  <2>2. ASSUME NEW a \in Atts, Placeholder(w, a) PROVE work'[w].mail = work[w].mail
    BY <1>1, <2>2 DEF Placeholder, WorkType
  <2>3. ASSUME NEW r \in work[w].rows, Dedupe(w, r) PROVE work'[w].mail = work[w].mail
    BY <1>1, <2>3 DEF Dedupe, WorkType
  <2> QED
    BY <1>6, <2>1, <2>2, <2>3
<1>7. ASSUME NEW v \in Workers, Commit(v) \/ Conflict(v) \/ Abort(v)
      PROVE  work'[w] = work[w] \/ Commit(w) \/ GiveUp(w)
  <2>1. CASE v # w
    BY <1>1, <1>7, <2>1 DEF Commit, Conflict, Abort, GiveUp
  <2>2. CASE v = w
    BY <1>7, <2>2 DEF Conflict, Abort
  <2> QED
    BY <2>1, <2>2
<1>8. CASE UNCHANGED vars
  BY <1>8 DEF vars
<1> QED
  BY <1>3, <1>4, <1>5, <1>6, <1>7, <1>8, <1>9, <1>10, Steps DEF WorkerStep, Work, Booking

(* No step loses a file of a batch.                                        *)
LEMMA FoundStep == IngestTypes /\ FoundInv /\ [Next]_vars => FoundInv'
<1> SUFFICES ASSUME IngestTypes, FoundInv, [Next]_vars PROVE FoundInv'
  OBVIOUS
<1> USE DEF tables, hist, races, failures
<1>1. /\ \A v \in Workers : work[v] \in WorkType /\ Shape(work[v])
      /\ work \in [Workers -> WorkType] /\ \A m : AttsOf(m) \subseteq Atts
      /\ doc \in [Atts -> {"none", "processing", "processed", "failed"}]
  BY NobodyIsNoOne DEF IngestTypes, TypeOK, WorkType, Shape
<1>2. \A a \in Atts : doc[a] # "none" => doc'[a] # "none"
  BY DocumentsStay
<1>3. NoPdfVanishes'
  <2> SUFFICES ASSUME NEW a \in Atts, MailOf[a] \in claims' \ lost', Sort[a] # "other",
                      \A w \in Workers : work'[w].mail # MailOf[a]
               PROVE  doc'[a] # "none"
    BY DEF NoPdfVanishes
  <2> DEFINE m == MailOf[a]
  <2>1. m \in Mails /\ a \in AttsOf(m)
    BY AttachmentAssumption DEF AttsOf
  <2>2. m \in claims
    <3>1. ASSUME NEW w \in Workers, NEW n \in Mails, Claim(w, n), m \notin claims PROVE FALSE
      <4>1. work'[w].mail = n
        BY <1>1, <3>1 DEF Claim, Idle
      <4> QED
        BY <3>1, <4>1 DEF Claim
    <3>2. ASSUME NEW w \in Workers,
                 \/ Work(w) \/ Abort(w)
                 \/ \E b \in Atts : AskRetry(w, b)
                 \/ \E t \in Traces : TraceFind(w, t)
                 \/ Booking(w)
          PROVE  claims' = claims
      BY <3>2, BookingFrame DEF Work, CheckNames, Placeholder, Extract, Match, Dedupe, Commit,
         Conflict, GiveUp, BeginRetry, TraceCheck, TraceCommit, TraceRefused, Abort, AskRetry,
         TraceFind, Booking
    <3>3. DeskStep => claims' = claims
      BY DEF DeskStep, Cancel, Reopen
    <3> QED
      BY <3>1, <3>2, <3>3, Steps DEF WorkerStep, vars
  <2>3. CASE \E w \in Workers : work[w].mail = m
    <3> PICK w \in Workers : work[w].mail = m
      BY <2>3
    <3>1. CASE Commit(w)
      <4>1. work[w].stage = "dedupe" /\ work[w].todo = {} /\ Found(work[w])
        BY <1>1, <3>1 DEF Commit, Shape, Files, FoundInv
      <4>2. CASE Sort[a] \in {"plain", "blind"}
        BY <2>1, <3>1, <4>1, <4>2 DEF Commit, Found
      <4>3. CASE Sort[a] = "broken"
        BY <2>1, <3>1, <4>3 DEF Commit, BrokenOf
      <4> QED
        BY <4>2, <4>3, AttachmentAssumption
    <3>2. CASE GiveUp(w)
      BY <2>1, <3>2 DEF GiveUp
    <3> QED
      BY <2>1, <3>1, <3>2, HandedOver
  <2>4. CASE \A w \in Workers : work[w].mail # m
    <3>1. lost \subseteq lost'
      <4>1. ASSUME NEW w \in Workers, WorkerStep(w)
            PROVE  lost' = lost \/ GiveUp(w)
        BY <4>1, BookingFrame DEF Work, Claim, CheckNames, Placeholder, Extract, Match, Dedupe,
           Commit, Conflict, BeginRetry, TraceCheck, TraceCommit, TraceRefused, Abort, AskRetry,
           TraceFind, WorkerStep, Booking
      <4>2. DeskStep => lost' = lost
        BY DEF DeskStep, Cancel, Reopen
      <4> QED
        BY <4>1, <4>2, Steps DEF vars, GiveUp
    <3> QED
      BY <1>2, <2>2, <2>4, <3>1 DEF FoundInv, NoPdfVanishes
  <2> QED
    BY <2>3, <2>4
<1> DEFINE Reading == {"extract", "ai", "dedupe"}
<1> DEFINE Goal == \A w \in Workers : Found(work[w])'
<1>4. ASSUME NEW w \in Workers, \A v \in Workers \ {w} : work'[v] = work[v], Found(work[w])'
      PROVE  Goal
  BY <1>1, <1>2, <1>4 DEF FoundInv, Found
<1>5. ASSUME NEW w \in Workers, \A v \in Workers \ {w} : work'[v] = work[v],
             work'[w].stage \notin Reading
      PROVE  Goal
  BY <1>4, <1>5 DEF Found
<1>6. ASSUME NEW w \in Workers, \A v \in Workers \ {w} : work'[v] = work[v],
             work[w].stage \in Reading, work'[w].mail = work[w].mail,
             work'[w].todo = work[w].todo, work'[w].dups = work[w].dups
      PROVE  Goal
  <2>1. Found(work[w])
    BY DEF FoundInv
  <2> QED
    BY <1>1, <1>2, <1>4, <1>6, <2>1 DEF Found
<1>7. ASSUME NEW w \in Workers, CheckNames(w) PROVE Goal
  <2>1. /\ \A v \in Workers \ {w} : work'[v] = work[v]
        /\ work'[w].mail = work[w].mail /\ work'[w].dups = Resent(work[w].mail)
        /\ work'[w].todo = Extractable(work[w].mail) \ Resent(work[w].mail)
    BY <1>1, <1>7 DEF CheckNames, WorkType
  <2> QED
    BY <1>4, <2>1 DEF Found, Extractable
<1>8. ASSUME NEW w \in Workers, NEW a \in Atts, Placeholder(w, a) PROVE Goal
  <2>1. /\ \A v \in Workers \ {w} : work'[v] = work[v]
        /\ work'[w].mail = work[w].mail /\ work'[w].dups = work[w].dups
        /\ work'[w].todo = work[w].todo \ {a} /\ doc'[a] # "none"
    BY <1>1, <1>8 DEF Placeholder, WorkType
  <2>2. Found(work[w]) /\ work[w].stage = "extract"
    BY <1>8 DEF FoundInv, Placeholder
  <2> QED
    BY <1>1, <1>2, <1>4, <2>1, <2>2 DEF Found
<1>9. ASSUME NEW w \in Workers, Extract(w) \/ Match(w) PROVE Goal
  <2>1. /\ \A v \in Workers \ {w} : work'[v] = work[v]
        /\ work'[w].mail = work[w].mail /\ work'[w].dups = work[w].dups
        /\ work'[w].todo = work[w].todo /\ work[w].stage \in Reading
    BY <1>1, <1>9 DEF Extract, Match, WorkType
  <2> QED
    BY <1>6, <2>1
<1>10. ASSUME NEW w \in Workers, NEW r \in work[w].rows, Dedupe(w, r) PROVE Goal
  <2>1. /\ \A v \in Workers \ {w} : work'[v] = work[v]
        /\ work'[w].mail = work[w].mail /\ work'[w].dups = work[w].dups
        /\ work'[w].todo = work[w].todo /\ work[w].stage \in Reading
    BY <1>1, <1>10 DEF Dedupe, WorkType
  <2> QED
    BY <1>6, <2>1
<1>11. ASSUME NEW w \in Workers, BeginRetry(w) PROVE Goal
  <2>1. /\ \A v \in Workers \ {w} : work'[v] = work[v]
        /\ work'[w].mail = Nobody
    BY <1>1, <1>11 DEF BeginRetry, WorkType, Shape, Holder
  <2> QED
    BY <1>4, <2>1, NobodyIsNoOne DEF Found
<1>12. ASSUME NEW w \in Workers,
              \/ Commit(w) \/ GiveUp(w) \/ TraceCheck(w) \/ TraceCommit(w) \/ TraceRefused(w)
              \/ \E m \in Mails : Claim(w, m)
              \/ \E a \in Atts : AskRetry(w, a)
              \/ \E t \in Traces : TraceFind(w, t)
       PROVE  Goal
  <2>1. /\ Idle.stage \notin Reading /\ \A todo : Rest("book", todo).stage \notin Reading
        /\ \A a, m : /\ [Idle EXCEPT !.stage = "check", !.mail = m].stage \notin Reading
                     /\ [Idle EXCEPT !.stage = "asked", !.att = a].stage \notin Reading
                     /\ [Idle EXCEPT !.stage = "clash", !.att = a].stage \notin Reading
    BY DEF Idle, Rest
  <2>2. work[w].stage = "clash" => [work[w] EXCEPT !.stage = "create"].stage \notin Reading
    BY <1>1 DEF WorkType
  <2>3. \A v \in Workers \ {w} : work'[v] = work[v]
    BY <1>1, <1>12 DEF Commit, GiveUp, TraceCheck, TraceCommit, TraceRefused, Claim, AskRetry,
       TraceFind
  <2>4. work'[w].stage \notin Reading
    <3>1. CASE Commit(w) \/ GiveUp(w) \/ TraceCommit(w) \/ TraceRefused(w)
      BY <1>1, <2>1, <3>1 DEF Commit, GiveUp, TraceCommit, TraceRefused
    <3>2. CASE TraceCheck(w)
      BY <1>1, <2>1, <2>2, <3>2 DEF TraceCheck
    <3>3. CASE \E m \in Mails : Claim(w, m)
      BY <1>1, <2>1, <3>3 DEF Claim
    <3>4. CASE \E a \in Atts : AskRetry(w, a)
      BY <1>1, <2>1, <3>4 DEF AskRetry
    <3>5. CASE \E t \in Traces : TraceFind(w, t)
      <4>1. (work'[w] = work[w] /\ work[w] = Idle) \/ (\E t : work'[w] = [Idle EXCEPT !.stage = "clash", !.att = t])
        BY <1>1, <3>5 DEF TraceFind
      <4> QED
        BY <2>1, <4>1
    <3> QED
      BY <1>12, <3>1, <3>2, <3>3, <3>4, <3>5
  <2> QED
    BY <1>5, <2>3, <2>4
<1>13. CASE UNCHANGED vars
  BY <1>3, <1>13 DEF vars, FoundInv, Found
<1>15. ASSUME NEW w \in Workers, Booking(w) PROVE Goal
  <2> PICK k : work' = [work EXCEPT ![w] = k] /\ k.stage \in After \cup {"idle"}
    BY <1>15, BookingShape
  <2>1. work'[w].stage \notin Reading /\ \A v \in Workers \ {w} : work'[v] = work[v]
    BY <1>1 DEF After
  <2> QED
    BY <1>5, <2>1
<1>16. ASSUME DeskStep PROVE Goal
  <2>1. work' = work /\ doc' = doc
    BY <1>16 DEF DeskStep, Cancel, Reopen
  <2> QED
    BY <2>1 DEF FoundInv, Found
<1> HIDE DEF Goal
<1>17. ASSUME NEW w \in Workers, Work(w) \/ Abort(w) PROVE Goal
  BY <1>7, <1>8, <1>9, <1>10, <1>11, <1>12, <1>15, <1>17
  DEF Work, Booking, Conflict, Abort
<1>14. Next => Goal
  BY <1>12, <1>15, <1>16, <1>17, Steps DEF WorkerStep
<1> QED
  BY <1>3, <1>13, <1>14 DEF FoundInv, Goal

(* Every PDF of an e-mail whose batch is over has a document, unless the   *)
(* batch failed as a whole.                                                *)
THEOREM FilesAreFound == Spec => []NoPdfVanishes
<1>1. Init => FoundInv
  BY DEF Init, FoundInv, NoPdfVanishes, Found, Idle
<1>2. FoundInv => NoPdfVanishes
  BY DEF FoundInv
<1> QED
  BY <1>1, <1>2, FoundStep, TypeInit, TypeStep, PTL DEF Spec

-----------------------------------------------------------------------------
(* A file name is extracted once.  A file that a batch has extracted, or   *)
(* is extracting, is taken; one that a batch has looked up and not found   *)
(* awaits its turn.  Two of them with one name in different e-mails are    *)
(* known to race, because a taken one has a document by which a later      *)
(* look-up finds it.                                                       *)

Reads(a, k) == k.stage = "ai" /\ k.mail # Nobody /\ k.att = a

Taken(a) == a \in calls \/ \E w \in Workers : Reads(a, work[w])

Awaits(a, k) == k.stage \in {"extract", "ai"} /\ a \in k.todo

Waiting(a) == \E w \in Workers : Awaits(a, work[w])

Twins(a, b) == Name[a] = Name[b] /\ MailOf[a] # MailOf[b]

NameInv ==
    \A a \in Atts :
        /\ Taken(a) => doc[a] # "none"
        /\ \A b \in Atts : Twins(a, b) /\ (Taken(a) \/ Waiting(a)) /\ (Taken(b) \/ Waiting(b))
             => Name[a] \in raced

(* No step extracts a name twice but in a race that is known.              *)
LEMMA NameStep == IngestTypes /\ NameInv /\ [Next]_vars => NameInv'
<1> SUFFICES ASSUME IngestTypes, NameInv, [Next]_vars PROVE NameInv'
  OBVIOUS
<1> USE DEF tables, hist, races, failures
<1>1. /\ \A v \in Workers : work[v] \in WorkType /\ Shape(work[v])
      /\ work \in [Workers -> WorkType] /\ \A m : AttsOf(m) \subseteq Atts
      /\ doc \in [Atts -> {"none", "processing", "processed", "failed"}]
  BY NobodyIsNoOne DEF IngestTypes, TypeOK, WorkType, Shape
<1>2. \A a \in Atts : doc[a] # "none" => doc'[a] # "none"
  BY DocumentsStay
<1>3. ASSUME raced \subseteq raced', \A a \in Atts : Taken(a)' => Taken(a),
             \A a \in Atts : Waiting(a)' => Taken(a) \/ Waiting(a)
      PROVE  NameInv'
  BY <1>2, <1>3 DEF NameInv, Twins
<1>4. ASSUME NEW w \in Workers, \A v \in Workers \ {w} : work'[v] = work[v],
             raced \subseteq raced', calls' = calls,
             work'[w].stage \in {"extract", "ai"} => work'[w].mail = Nobody /\ work'[w].todo = {}
      PROVE  NameInv'
  <2>1. \A a \in Atts : Taken(a)' => Taken(a)
    BY <1>4 DEF Taken, Reads
  <2>2. \A a \in Atts : Waiting(a)' => Waiting(a)
    BY <1>4 DEF Waiting, Awaits
  <2> QED
    BY <1>3, <1>4, <2>1, <2>2
<1>5. ASSUME NEW w \in Workers, CheckNames(w) PROVE NameInv'
  <2> DEFINE m == work[w].mail
  <2> DEFINE new == Extractable(m) \ Resent(m)
  <2> DEFINE others == UNION {work[v].todo : v \in Workers \ {w}}
  <2>1. /\ \A v \in Workers \ {w} : work'[v] = work[v]
        /\ work'[w].stage = "extract" /\ work'[w].todo = new
        /\ raced' = raced \cup (Names(new) \cap Names(others))
        /\ calls' = calls /\ doc' = doc
    BY <1>1, <1>5 DEF CheckNames, WorkType
  <2>2. \A a \in Atts : Taken(a)' => Taken(a)
    BY <2>1 DEF Taken, Reads
  <2>3. \A a \in Atts : Waiting(a)' => Waiting(a) \/ a \in new
    BY <2>1 DEF Waiting, Awaits
  <2>4. new \subseteq AttsOf(m)
    BY DEF Extractable
  <2>5. ASSUME NEW a \in Atts, NEW b \in new, Twins(a, b), Taken(a) PROVE FALSE
    <3>1. doc[a] # "none"
      BY <2>5 DEF NameInv
    <3>2. Name[b] \in KnownNames
      BY <2>5, <3>1 DEF KnownNames, Names, Twins
    <3> QED
      BY <2>4, <3>2 DEF Resent
  <2>6. ASSUME NEW a \in Atts, NEW b \in new, Twins(a, b), Waiting(a)
        PROVE  Name[a] \in raced' /\ Name[b] \in raced'
    <3>1. PICK v \in Workers : Awaits(a, work[v])
      BY <2>6 DEF Waiting
    <3>2. v # w
      BY <1>5, <3>1 DEF CheckNames, Awaits
    <3>3. Name[a] \in Names(others) /\ Name[b] \in Names(new)
      BY <3>1, <3>2 DEF Names, Awaits
    <3> QED
      BY <2>1, <2>6, <3>3 DEF Twins
  <2>7. \A a, b \in new : ~ Twins(a, b)
    BY <2>4 DEF AttsOf, Twins
  <2>8. ASSUME NEW a \in Atts, NEW b \in Atts, Twins(a, b),
               Taken(a) \/ Waiting(a) \/ a \in new, Taken(b) \/ Waiting(b) \/ b \in new
        PROVE  Name[a] \in raced'
    <3>1. Twins(b, a)
      BY <2>8 DEF Twins
    <3>2. CASE a \notin new /\ b \notin new
      BY <2>1, <2>8, <3>2 DEF NameInv
    <3>3. CASE b \in new
      BY <2>5, <2>6, <2>7, <2>8, <3>3
    <3>4. CASE a \in new
      BY <2>5, <2>6, <2>7, <2>8, <3>1, <3>4
    <3> QED
      BY <3>2, <3>3, <3>4
  <2>9. \A a \in Atts : Taken(a)' => doc'[a] # "none"
    BY <2>1, <2>2 DEF NameInv
  <2>10. \A a, b \in Atts : Twins(a, b)' => Twins(a, b)
    BY DEF Twins
  <2> HIDE DEF new, others
  <2> QED
    BY <2>2, <2>3, <2>8, <2>9, <2>10 DEF NameInv
<1>6. ASSUME NEW w \in Workers, NEW b \in Atts, Placeholder(w, b) PROVE NameInv'
  <2>1. /\ \A v \in Workers \ {w} : work'[v] = work[v]
        /\ work'[w].att = b /\ work'[w].todo = work[w].todo \ {b}
        /\ work[w].stage = "extract" /\ b \in work[w].todo
        /\ calls' = calls /\ raced' = raced /\ doc'[b] # "none"
    BY <1>1, <1>6 DEF Placeholder, WorkType
  <2>2. Waiting(b)
    BY <2>1 DEF Waiting, Awaits
  <2>3. \A a \in Atts : Taken(a)' => Taken(a) \/ a = b
    BY <2>1 DEF Taken, Reads
  <2>4. \A a \in Atts : Waiting(a)' => Waiting(a)
    BY <2>1 DEF Waiting, Awaits
  <2>5. \A a \in Atts : Taken(a)' => doc'[a] # "none"
    BY <1>2, <2>1, <2>3 DEF NameInv
  <2> QED
    BY <2>1, <2>2, <2>3, <2>4, <2>5 DEF NameInv, Twins
<1>7. ASSUME NEW w \in Workers, Extract(w) PROVE NameInv'
  <2>1. /\ \A v \in Workers \ {w} : work'[v] = work[v]
        /\ work'[w].stage = "extract" /\ work'[w].todo = work[w].todo
        /\ work[w].stage = "ai" /\ raced' = raced
        /\ calls' = IF work[w].mail = Nobody THEN calls ELSE calls \cup {work[w].att}
    BY <1>1, <1>7 DEF Extract, WorkType
  <2>2. \A a \in Atts : Taken(a)' => Taken(a)
    BY <2>1 DEF Taken, Reads
  <2>3. \A a \in Atts : Waiting(a)' => Waiting(a)
    BY <2>1 DEF Waiting, Awaits
  <2> QED
    BY <1>3, <2>1, <2>2, <2>3
<1>8. ASSUME NEW w \in Workers, Match(w) PROVE NameInv'
  <2>1. /\ \A v \in Workers \ {w} : work'[v] = work[v]
        /\ raced' = raced /\ calls' = calls
        /\ work'[w].stage = "dedupe"
    BY <1>1, <1>8 DEF Match, WorkType
  <2> QED
    BY <1>4, <2>1
<1>9. ASSUME NEW w \in Workers, NEW r \in work[w].rows, Dedupe(w, r) PROVE NameInv'
  <2>1. /\ \A v \in Workers \ {w} : work'[v] = work[v]
        /\ raced' = raced /\ calls' = calls
        /\ work'[w].stage = "dedupe"
    BY <1>1, <1>9 DEF Dedupe, WorkType
  <2> QED
    BY <1>4, <2>1
<1>10. ASSUME NEW w \in Workers, BeginRetry(w) PROVE NameInv'
  <2>1. /\ \A v \in Workers \ {w} : work'[v] = work[v]
        /\ raced' = raced /\ calls' = calls
        /\ work'[w].mail = Nobody /\ work'[w].todo = {}
    BY <1>1, <1>10 DEF BeginRetry, WorkType, Shape, Holder, Files
  <2> QED
    BY <1>4, <2>1
<1>11. ASSUME NEW w \in Workers, TraceCheck(w) PROVE NameInv'
  <2>1. [work[w] EXCEPT !.stage = "create"].stage = "create" /\ Idle.stage = "idle"
    BY <1>1 DEF WorkType, Idle
  <2>2. /\ \A v \in Workers \ {w} : work'[v] = work[v]
        /\ raced' = raced /\ calls' = calls
        /\ work'[w].stage \in {"create", "idle"}
    BY <1>1, <1>11, <2>1 DEF TraceCheck
  <2> QED
    BY <1>4, <2>2
<1>12. ASSUME NEW w \in Workers,
              Commit(w) \/ GiveUp(w) \/ TraceCommit(w) \/ TraceRefused(w)
       PROVE  NameInv'
  <2>1. Idle.stage = "idle" /\ \A todo : Rest("book", todo).stage \in {"idle", "book"}
    BY DEF Idle, Rest
  <2>2. /\ \A v \in Workers \ {w} : work'[v] = work[v]
        /\ raced' = raced /\ calls' = calls
        /\ work'[w].stage \in {"idle", "book"}
    BY <1>1, <1>12, <2>1 DEF Commit, GiveUp, TraceCommit, TraceRefused
  <2> QED
    BY <1>4, <2>2
<1>13. ASSUME NEW w \in Workers,
              \/ \E m \in Mails : Claim(w, m)
              \/ \E a \in Atts : AskRetry(w, a)
              \/ \E t \in Traces : TraceFind(w, t)
       PROVE  NameInv'
  <2>1. /\ Idle.stage = "idle"
        /\ \A a, m : /\ [Idle EXCEPT !.stage = "check", !.mail = m].stage = "check"
                     /\ [Idle EXCEPT !.stage = "asked", !.att = a].stage = "asked"
                     /\ [Idle EXCEPT !.stage = "clash", !.att = a].stage = "clash"
    BY DEF Idle
  <2>2. /\ \A v \in Workers \ {w} : work'[v] = work[v]
        /\ raced' = raced /\ calls' = calls
        /\ work'[w].stage \in {"idle", "check", "asked", "clash"}
    <3>1. CASE \E m \in Mails : Claim(w, m)
      BY <1>1, <2>1, <3>1 DEF Claim
    <3>2. CASE \E a \in Atts : AskRetry(w, a)
      BY <1>1, <2>1, <3>2 DEF AskRetry
    <3>3. CASE \E t \in Traces : TraceFind(w, t)
      <4> PICK t \in Traces : TraceFind(w, t)
        BY <3>3
      <4>1. \/ work'[w] = Idle
            \/ work'[w] = [Idle EXCEPT !.stage = "clash", !.att = t]
        BY <1>1 DEF TraceFind
      <4>2. \A v \in Workers \ {w} : work'[v] = work[v]
        BY <1>1 DEF TraceFind
      <4>3. work'[w].stage \in {"idle", "clash"}
        <5>1. [Idle EXCEPT !.stage = "clash", !.att = t].stage = "clash"
          BY DEF Idle
        <5> QED
          BY <2>1, <4>1, <5>1
      <4> QED
        BY <4>2, <4>3 DEF TraceFind
    <3> QED
      BY <1>13, <3>1, <3>2, <3>3
  <2> QED
    BY <1>4, <2>2
<1>14. CASE UNCHANGED vars
  BY <1>3, <1>14 DEF vars, Taken, Waiting
<1>15. ASSUME NEW w \in Workers, Booking(w) PROVE NameInv'
  <2> PICK k : work' = [work EXCEPT ![w] = k] /\ k.stage \in After \cup {"idle"}
    BY <1>15, BookingShape
  <2>1. /\ work'[w].stage \notin {"extract", "ai"}
        /\ \A v \in Workers \ {w} : work'[v] = work[v]
    BY <1>1 DEF After
  <2> QED
    BY <1>4, <1>15, <2>1, BookingFrame
<1>16. CASE DeskStep
  BY <1>3, <1>16 DEF DeskStep, Cancel, Reopen, Taken, Waiting
<1> QED
  BY <1>5, <1>6, <1>7, <1>8, <1>9, <1>10, <1>11, <1>12, <1>13, <1>14, <1>15, <1>16, Steps
  DEF WorkerStep, Work, Booking, Conflict, Abort

(* A file that is sent again under its name is not extracted a second      *)
(* time, unless two batches had it at the same time.                       *)
THEOREM NamesAreExtractedOnce == Spec => []ExtractedOncePerName
<1>1. Init => NameInv
  BY DEF Init, NameInv, Taken, Waiting, Reads, Awaits, Idle
<1>2. IngestTypes /\ NameInv => ExtractedOncePerName
  BY DEF NameInv, ExtractedOncePerName, Taken, Twins, IngestTypes, TypeOK
<1> QED
  BY <1>1, <1>2, NameStep, TypeInit, TypeStep, PTL DEF Spec

-----------------------------------------------------------------------------
(* A failed manifest has no jobs.  Until its batch is over, a document     *)
(* has neither jobs nor a retry; a retry asks for a manifest that failed,  *)
(* and while it works it is alone and the document has no jobs.            *)

Landless(a) == \A h \in Hawbs : owner[h] # a

Batched(a) == MailOf[a] \notin claims \/ \E w \in Workers : work[w].mail = MailOf[a]

Fresh(a) == man[a] \in {"none", "extracting"} /\ Landless(a)

RetryInv ==
    /\ \A w \in Workers : work[w].mail \in Mails =>
         /\ work[w].mail \in claims
         /\ \A v \in Workers \ {w} : work[v].mail # work[w].mail
    /\ \A a \in Atts : Batched(a) => Fresh(a) /\ Retrying(a) = {}
    /\ \A a \in Atts \ rerun : \A w \in Retrying(a) :
         IF work[w].stage = "asked" THEN man[a] = "failed"
         ELSE Fresh(a) /\ Retrying(a) \subseteq {w}

JobInv == RetryInv /\ FailedHasNoJobs

(* A step that moves no job, and no manifest but settled ones, and takes   *)
(* up no e-mail and no retry.                                              *)
OnlySettled ==
    \A a \in Atts : man'[a] = man[a] \/ (man[a] \in Settled /\ man'[a] \in Settled)

(* A step that inserts no job keeps what is known of jobs.                 *)
LEMMA JobsUntouched ==
  ASSUME IngestTypes, JobInv, OnlySettled, claims' = claims, rerun \subseteq rerun',
         \A a \in Atts : Landless(a) => Landless(a)',
         \A v \in Workers :
           /\ work'[v].mail \in {work[v].mail, Nobody}
           /\ \A a \in Atts : v \in Retrying(a)' =>
                /\ v \in Retrying(a)
                /\ work'[v].stage = "asked" <=> work[v].stage = "asked"
  PROVE  JobInv'
<1>1. \A w \in Workers : work'[w].mail \in Mails =>
        /\ work'[w].mail \in claims'
        /\ \A v \in Workers \ {w} : work'[v].mail # work'[w].mail
  BY NobodyIsNoOne DEF JobInv, RetryInv
<1>2. \A a \in Atts : Fresh(a) => Fresh(a)'
  BY DEF Fresh, OnlySettled, Settled
<1>3. \A a \in Atts : Retrying(a)' \subseteq Retrying(a)
  BY DEF Retrying
<1>4. \A a \in Atts : Batched(a)' => Batched(a)
  BY NobodyIsNoOne, AttachmentAssumption DEF Batched
<1>5. \A a \in Atts : Batched(a)' => Fresh(a)' /\ Retrying(a)' = {}
  BY <1>2, <1>3, <1>4 DEF JobInv, RetryInv
<1>6. ASSUME NEW a \in Atts \ rerun', NEW w \in Retrying(a)'
      PROVE  IF work'[w].stage = "asked" THEN man'[a] = "failed"
             ELSE Fresh(a)' /\ Retrying(a)' \subseteq {w}
  <2>1. w \in Workers /\ w \in Retrying(a) /\ a \in Atts \ rerun
    BY <1>3, <1>6 DEF Retrying
  <2>2. work'[w].stage = "asked" <=> work[w].stage = "asked"
    BY <1>6, <2>1
  <2> QED
    BY <1>2, <1>3, <2>1, <2>2 DEF JobInv, RetryInv, OnlySettled, Settled
<1>7. FailedHasNoJobs'
  BY DEF JobInv, FailedHasNoJobs, Landless, OnlySettled, Settled
<1> QED
  BY <1>1, <1>5, <1>6, <1>7 DEF JobInv, RetryInv

(* The documents a commit may touch are the worker's own, and they have    *)
(* been fresh until then.                                                  *)
LEMMA OwnFiles ==
  ASSUME IngestTypes, JobInv, NEW w \in Workers, work[w].stage = "dedupe",
         NEW a \in Atts, a \in Mine(work[w])
  PROVE  /\ a \notin rerun => Fresh(a)
         /\ \/ work[w].mail = MailOf[a] /\ Batched(a)
            \/ work[w].mail = Nobody /\ w \in Retrying(a)
<1>1. Holder(work[w]) /\ work[w] \in WorkType
  BY DEF IngestTypes, Shape
<1>2. CASE work[w].mail = Nobody
  <2>1. w \in Retrying(a)
    BY <1>2 DEF Mine, Retrying, After
  <2> QED
    BY <1>2, <2>1 DEF JobInv, RetryInv
<1>3. CASE work[w].mail # Nobody
  <2>1. work[w].mail = MailOf[a]
    BY <1>3 DEF Mine, AttsOf
  <2> QED
    BY <2>1 DEF Batched, JobInv, RetryInv
<1> QED
  BY <1>2, <1>3

(* A commit gives jobs only to the documents in its hands.                 *)
LEMMA JobCommit ==
  ASSUME IngestTypes, JobInv, NEW w \in Workers, Commit(w)
  PROVE  JobInv'
<1>1. /\ work \in [Workers -> WorkType] /\ work[w] \in WorkType
      /\ work[w].stage = "dedupe" /\ claims' = claims /\ rerun' = rerun
      /\ Files(work[w]) /\ Matched(work[w])
      /\ man \in [Atts -> Statuses]
  BY DEF Commit, IngestTypes, TypeOK, WorkType, Shape, Statuses, tables, hist, races
<1>2. /\ \A v \in Workers \ {w} : work'[v] = work[v]
      /\ work'[w].mail = Nobody /\ work'[w].att = Nobody
  <2>1. \A todo : Rest("book", todo).mail = Nobody /\ Rest("book", todo).att = Nobody
    BY DEF Rest, Idle
  <2> QED
    BY <1>1, <2>1 DEF Commit
<1>3. \A a \in Atts : Retrying(a)' \subseteq Retrying(a) \ {w}
  BY <1>2, NobodyIsNoOne DEF Retrying
<1>4. \A a \in Atts : Batched(a)' => Batched(a)
  BY <1>1, <1>2, NobodyIsNoOne, AttachmentAssumption DEF Batched
<1>5. ASSUME NEW a \in Atts, a \notin work[w].good, Landless(a) PROVE Landless(a)'
  BY <1>1, <1>5, CommitOwner DEF Landless, Matched
<1>6. ASSUME NEW a \in Atts, a \notin Mine(work[w]) PROVE man'[a] = man[a] /\ a \notin work[w].good
  <2>1. a \notin AttsOf(work[w].mail)
    BY <1>6, NobodyIsNoOne DEF Mine
  <2>2. a \notin work[w].good \cup work[w].bad \cup work[w].dups \cup BrokenOf(w)
    BY <1>1, <1>6, <2>1 DEF Files, BrokenOf
  <2> QED
    BY <2>2 DEF Commit
<1>7. ASSUME NEW a \in Atts, Fresh(a), a \notin Mine(work[w]) PROVE Fresh(a)'
  BY <1>5, <1>6, <1>7 DEF Fresh
<1>8. ASSUME NEW a \in Atts, Batched(a)' PROVE a \notin Mine(work[w])
  <2> SUFFICES ASSUME a \in Mine(work[w]) PROVE FALSE
    OBVIOUS
  <2>1. CASE work[w].mail = MailOf[a]
    <3>1. MailOf[a] \in Mails
      BY AttachmentAssumption
    <3>2. MailOf[a] \in claims' /\ \A v \in Workers : work'[v].mail # MailOf[a]
      BY <1>1, <1>2, <2>1, <3>1, NobodyIsNoOne DEF JobInv, RetryInv
    <3> QED
      BY <1>8, <3>2 DEF Batched
  <2>2. CASE w \in Retrying(a)
    BY <1>4, <1>8, <2>2 DEF JobInv, RetryInv
  <2> QED
    BY <1>1, <2>1, <2>2, OwnFiles
<1>9. \A v \in Workers : work'[v].mail \in Mails =>
        /\ work'[v].mail \in claims'
        /\ \A u \in Workers \ {v} : work'[u].mail # work'[v].mail
  BY <1>1, <1>2, NobodyIsNoOne DEF JobInv, RetryInv
<1>10. \A a \in Atts : Batched(a)' => Fresh(a)' /\ Retrying(a)' = {}
  BY <1>3, <1>4, <1>7, <1>8 DEF JobInv, RetryInv
<1>11. ASSUME NEW a \in Atts \ rerun', NEW v \in Retrying(a)'
       PROVE  IF work'[v].stage = "asked" THEN man'[a] = "failed"
              ELSE Fresh(a)' /\ Retrying(a)' \subseteq {v}
  <2>1. v \in Retrying(a) /\ v # w /\ v \in Workers /\ a \notin rerun
    BY <1>1, <1>3 DEF Retrying
  <2>2. a \notin Mine(work[w])
    <3> SUFFICES ASSUME a \in Mine(work[w]) PROVE FALSE
      OBVIOUS
    <3>1. ~ Batched(a)
      BY <2>1 DEF JobInv, RetryInv
    <3>2. w \in Retrying(a)
      BY <1>1, <3>1, OwnFiles
    <3> QED
      BY <1>1, <2>1, <3>2 DEF JobInv, RetryInv
  <2> QED
    BY <1>2, <1>3, <1>6, <1>7, <2>1, <2>2 DEF JobInv, RetryInv
<1>12. ASSUME NEW a \in Atts \ rerun', man'[a] = "failed" PROVE Landless(a)'
  <2>1. CASE a \notin Mine(work[w])
    <3>1. man[a] = "failed" /\ a \notin work[w].good
      BY <1>6, <1>12, <2>1
    <3>2. Landless(a)
      BY <1>1, <1>12, <3>1 DEF JobInv, FailedHasNoJobs, Landless
    <3> QED
      BY <1>5, <3>1, <3>2
  <2>2. CASE a \in Mine(work[w])
    <3>1. Landless(a)
      BY <1>1, <1>12, <2>2, OwnFiles DEF Fresh
    <3>2. Inserted(w, a) = {}
      <4>1. CASE a \in work[w].good \cup work[w].bad
        BY <1>12, <4>1 DEF Commit, Outcome
      <4>2. CASE a \notin work[w].good \cup work[w].bad
        BY <1>1, <4>2 DEF Matched, Inserted
      <4> QED
        BY <4>1, <4>2
    <3> QED
      BY <1>1, <3>1, <3>2, CommitOwner DEF Inserted, Landless
  <2> QED
    BY <2>1, <2>2
<1> QED
  BY <1>9, <1>10, <1>11, <1>12 DEF JobInv, RetryInv, FailedHasNoJobs, Landless

(* No step gives jobs to a manifest that failed.                           *)
LEMMA JobStep == IngestTypes /\ JobInv /\ [Next]_vars => JobInv'
<1> SUFFICES ASSUME IngestTypes, JobInv, [Next]_vars PROVE JobInv'
  OBVIOUS
<1> USE DEF tables, hist, races, failures
<1>1. /\ \A v \in Workers : work[v] \in WorkType /\ Shape(work[v])
      /\ work \in [Workers -> WorkType]
      /\ man \in [Atts -> Statuses]
  BY DEF IngestTypes, TypeOK, WorkType, Shape, Statuses
<1>2. \A v \in Workers, a \in Atts :
         v \in Retrying(a) <=>
            work[v].mail = Nobody /\ work[v].att = a /\ work[v].stage \notin After
  BY DEF Retrying
<1>3. \A v \in Workers, a \in Atts :
         v \in Retrying(a)' <=>
            work'[v].mail = Nobody /\ work'[v].att = a /\ work'[v].stage \notin After
  BY DEF Retrying
(* One worker moves, and manifests and jobs are left alone.                *)
<1>4. ASSUME NEW w \in Workers, \A v \in Workers \ {w} : work'[v] = work[v],
             work'[w].mail \in {work[w].mail, Nobody},
             \/ work'[w].mail # Nobody
             \/ work'[w].att \notin Atts \/ work'[w].stage \in After
             \/ /\ work'[w].att = work[w].att /\ work'[w].mail = work[w].mail
                /\ work'[w].stage # "asked" /\ work[w].stage \notin After \cup {"asked"},
             OnlySettled, claims' = claims, rerun \subseteq rerun',
             \A a \in Atts : Landless(a) => Landless(a)'
      PROVE  JobInv'
  <2>1. \A v \in Workers :
           /\ work'[v].mail \in {work[v].mail, Nobody}
           /\ \A a \in Atts : v \in Retrying(a)' =>
                /\ v \in Retrying(a)
                /\ work'[v].stage = "asked" <=> work[v].stage = "asked"
    BY <1>2, <1>3, <1>4
  <2> QED
    BY <1>4, <2>1, JobsUntouched
<1>5. owner' = owner => \A a \in Atts : Landless(a) => Landless(a)'
  BY DEF Landless
<1>18. man' = man => OnlySettled
  BY DEF OnlySettled
<1>6. ASSUME NEW w \in Workers, NEW m \in Mails, Claim(w, m) PROVE JobInv'
  <2>1. /\ \A v \in Workers \ {w} : work'[v] = work[v]
        /\ work'[w].mail = m /\ work[w].mail = Nobody /\ m \notin claims
        /\ claims' = claims \cup {m} /\ UNCHANGED <<man, owner, rerun>>
    BY <1>1, <1>6 DEF Claim, Idle
  <2>2. \A v \in Workers \ {w} : work[v].mail # m
    BY <2>1 DEF JobInv, RetryInv
  <2>3. \A a \in Atts : Batched(a)' => Batched(a)
    BY <2>1, NobodyIsNoOne, AttachmentAssumption DEF Batched
  <2>4. \A a \in Atts : Retrying(a)' \subseteq Retrying(a) \ {w}
    BY <2>1, NobodyIsNoOne DEF Retrying
  <2>5. \A v \in Workers : work'[v].mail \in Mails =>
          /\ work'[v].mail \in claims'
          /\ \A u \in Workers \ {v} : work'[u].mail # work'[v].mail
    BY <2>1, <2>2 DEF JobInv, RetryInv
  <2>6. \A a \in Atts : Fresh(a)' <=> Fresh(a)
    BY <2>1 DEF Fresh, Landless
  <2>7. ASSUME NEW a \in Atts \ rerun', NEW v \in Retrying(a)'
        PROVE  IF work'[v].stage = "asked" THEN man'[a] = "failed"
               ELSE Fresh(a)' /\ Retrying(a)' \subseteq {v}
    <3>1. v \in Retrying(a) /\ v \in Workers \ {w} /\ a \in Atts \ rerun
      BY <2>1, <2>4 DEF Retrying
    <3> QED
      BY <2>1, <2>4, <2>6, <3>1 DEF JobInv, RetryInv
  <2> QED
    BY <2>1, <2>3, <2>4, <2>5, <2>6, <2>7 DEF JobInv, RetryInv, FailedHasNoJobs
<1>7. ASSUME NEW w \in Workers, CheckNames(w) PROVE JobInv'
  <2>1. /\ \A v \in Workers \ {w} : work'[v] = work[v]
        /\ work'[w].mail = work[w].mail /\ work[w].mail # Nobody
    BY <1>1, <1>7, NobodyIsNoOne DEF CheckNames, WorkType, Shape, Holder
  <2> QED
    BY <1>4, <1>5, <1>7, <1>18, <2>1 DEF CheckNames
<1>8. ASSUME NEW w \in Workers, Extract(w) \/ Match(w) PROVE JobInv'
  <2>1. /\ \A v \in Workers \ {w} : work'[v] = work[v]
        /\ work'[w].mail = work[w].mail /\ work'[w].att = work[w].att
        /\ work'[w].stage # "asked" /\ work[w].stage \notin After \cup {"asked"}
        /\ UNCHANGED <<man, claims, owner, rerun>>
    BY <1>1, <1>8 DEF Extract, Match, WorkType, After
  <2> QED
    BY <1>4, <1>5, <1>18, <2>1
<1>9. ASSUME NEW w \in Workers, NEW r \in work[w].rows, Dedupe(w, r) PROVE JobInv'
  <2>1. /\ \A v \in Workers \ {w} : work'[v] = work[v]
        /\ work'[w].mail = work[w].mail /\ work'[w].att = work[w].att
        /\ work'[w].stage # "asked" /\ work[w].stage \notin After \cup {"asked"}
        /\ UNCHANGED <<man, claims, owner, rerun>>
    BY <1>1, <1>9 DEF Dedupe, WorkType, After
  <2> QED
    BY <1>4, <1>5, <1>18, <2>1
<1>10. ASSUME NEW w \in Workers, GiveUp(w) \/ TraceRefused(w) \/ TraceCommit(w) PROVE JobInv'
  <2>1. /\ \A v \in Workers \ {w} : work'[v] = work[v]
        /\ work'[w] = Idle /\ UNCHANGED <<man, claims, rerun>>
    BY <1>1, <1>10 DEF GiveUp, TraceRefused, TraceCommit
  <2>2. Idle.mail = Nobody /\ Idle.att \notin Atts
    BY NobodyIsNoOne DEF Idle
  <2>3. \A a \in Atts : Landless(a) => Landless(a)'
    <3>1. CASE owner' = owner
      BY <1>5, <3>1
    <3>2. CASE TraceCommit(w)
      BY <1>1, <3>2, NobodyIsNoOne DEF TraceCommit, Landless, Shape, Holder
    <3> QED
      BY <1>10, <3>1, <3>2 DEF GiveUp, TraceRefused
  <2> QED
    BY <1>4, <1>18, <2>1, <2>2, <2>3
<1>11. ASSUME NEW w \in Workers, NEW t \in Traces, TraceFind(w, t) PROVE JobInv'
  <2>1. /\ Idle.mail = Nobody /\ Idle.att \notin Atts
        /\ [Idle EXCEPT !.stage = "clash", !.att = t].mail = Nobody
        /\ [Idle EXCEPT !.stage = "clash", !.att = t].att \notin Atts
    BY NobodyIsNoOne DEF Idle
  <2>2. \/ work'[w] = Idle
        \/ work'[w] = [Idle EXCEPT !.stage = "clash", !.att = t]
    BY <1>1, <1>11 DEF TraceFind
  <2>3. /\ \A v \in Workers \ {w} : work'[v] = work[v]
        /\ UNCHANGED <<man, claims, owner, rerun>>
    BY <1>1, <1>11 DEF TraceFind
  <2>4. work'[w].mail = Nobody /\ work'[w].att \notin Atts
    BY <2>1, <2>2
  <2> QED
    BY <1>4, <1>5, <1>18, <2>3, <2>4
<1>12. ASSUME NEW w \in Workers, TraceCheck(w) PROVE JobInv'
  <2>1. Idle.mail = Nobody /\ Idle.att \notin Atts
    BY NobodyIsNoOne DEF Idle
  <2>2. /\ [work[w] EXCEPT !.stage = "create"].mail = work[w].mail
        /\ [work[w] EXCEPT !.stage = "create"].att \notin Atts
    BY <1>1, <1>12, NobodyIsNoOne DEF TraceCheck, WorkType, Shape, Holder
  <2>3. /\ \A v \in Workers \ {w} : work'[v] = work[v]
        /\ UNCHANGED <<man, claims, owner, rerun>>
        /\ work'[w].mail \in {work[w].mail, Nobody} /\ work'[w].att \notin Atts
    BY <1>1, <1>12, <2>1, <2>2 DEF TraceCheck
  <2> QED
    BY <1>4, <1>5, <1>18, <2>3
<1>13. ASSUME NEW w \in Workers, Booking(w) PROVE JobInv'
  <2> PICK k : /\ work' = [work EXCEPT ![w] = k] /\ Shape(k) /\ k.mail = Nobody
               /\ k.stage \in After \cup {"idle"}
    BY <1>13, BookingShape
  <2>1. k.att \notin Atts \/ k.stage \in After
    BY NobodyIsNoOne DEF Shape, Holder
  <2>2. /\ \A v \in Workers \ {w} : work'[v] = work[v]
        /\ work'[w].mail = Nobody /\ (work'[w].att \notin Atts \/ work'[w].stage \in After)
    BY <1>1, <2>1
  <2>3. OnlySettled
    BY <1>13, BookingFrame DEF OnlySettled, Settled
  <2> QED
    BY <1>4, <1>5, <1>13, <2>2, <2>3, BookingFrame
<1>19. CASE DeskStep
  <2>1. OnlySettled /\ UNCHANGED <<claims, owner, work, rerun>>
    BY <1>19, DeskFrame DEF DeskStep, OnlySettled, Settled
  <2>2. \A v \in Workers : work'[v] = work[v]
    BY <2>1
  <2> QED
    BY <1>2, <1>3, <1>5, <2>1, <2>2, JobsUntouched
<1>14. ASSUME NEW w \in Workers, NEW a \in Atts, Placeholder(w, a) PROVE JobInv'
  <2>1. /\ \A v \in Workers \ {w} : work'[v] = work[v]
        /\ UNCHANGED <<claims, owner, rerun>>
        /\ work'[w].mail = work[w].mail /\ work[w].mail = MailOf[a]
        /\ \A b \in Atts \ {a} : man'[b] = man[b]
        /\ man'[a] \in {man[a], "extracting"}
    BY <1>1, <1>14 DEF Placeholder, WorkType, Shape, Files, AttsOf
  <2>2. work[w].mail \in Mails
    BY <2>1, AttachmentAssumption
  <2>3. Batched(a)
    BY <2>1 DEF Batched
  <2>4. \A b \in Atts : Fresh(b) => Fresh(b)'
    BY <2>1 DEF Fresh, Landless
  <2>5. \A b \in Atts : Retrying(b)' \subseteq Retrying(b) \ {w}
    BY <2>1, <2>2, NobodyIsNoOne DEF Retrying
  <2>6. \A b \in Atts : Batched(b)' => Batched(b)
    BY <2>1 DEF Batched
  <2>7. \A v \in Workers : work'[v].mail \in Mails =>
          /\ work'[v].mail \in claims'
          /\ \A u \in Workers \ {v} : work'[u].mail # work'[v].mail
    BY <2>1 DEF JobInv, RetryInv
  <2>8. ASSUME NEW b \in Atts \ rerun', NEW v \in Retrying(b)'
        PROVE  IF work'[v].stage = "asked" THEN man'[b] = "failed"
               ELSE Fresh(b)' /\ Retrying(b)' \subseteq {v}
    <3>1. v \in Retrying(b) /\ v \in Workers \ {w} /\ b \in Atts \ rerun
      BY <2>1, <2>5 DEF Retrying
    <3>2. b # a
      BY <2>3, <3>1 DEF JobInv, RetryInv
    <3> QED
      BY <2>1, <2>4, <2>5, <3>1, <3>2 DEF JobInv, RetryInv
  <2>9. FailedHasNoJobs'
    BY <2>1 DEF JobInv, FailedHasNoJobs
  <2> QED
    BY <2>4, <2>5, <2>6, <2>7, <2>8, <2>9 DEF JobInv, RetryInv
<1>15. ASSUME NEW w \in Workers, NEW a \in Atts, AskRetry(w, a) PROVE JobInv'
  <2>1. /\ \A v \in Workers \ {w} : work'[v] = work[v]
        /\ UNCHANGED <<claims, owner, rerun, man>> /\ man[a] = "failed"
        /\ work'[w].mail = Nobody /\ work'[w].att = a /\ work'[w].stage = "asked"
        /\ work[w].mail = Nobody /\ work[w].att = Nobody
    BY <1>1, <1>15 DEF AskRetry, Idle
  <2>2. ~ Batched(a)
    BY <2>1 DEF JobInv, RetryInv, Fresh
  <2>3. \A b \in Atts : Fresh(b)' <=> Fresh(b)
    BY <2>1 DEF Fresh, Landless
  <2>4. \A b \in Atts \ {a} : Retrying(b)' = Retrying(b)
    BY <2>1, NobodyIsNoOne DEF Retrying
  <2>5. Retrying(a)' = Retrying(a) \cup {w}
    BY <2>1 DEF Retrying, After
  <2>6. \A b \in Atts : Batched(b)' => Batched(b)
    BY <2>1, NobodyIsNoOne, AttachmentAssumption DEF Batched
  <2>7. \A v \in Workers : work'[v].mail \in Mails =>
          /\ work'[v].mail \in claims'
          /\ \A u \in Workers \ {v} : work'[u].mail # work'[v].mail
    BY <2>1, NobodyIsNoOne DEF JobInv, RetryInv
  <2>8. ASSUME NEW b \in Atts \ rerun', NEW v \in Retrying(b)'
        PROVE  IF work'[v].stage = "asked" THEN man'[b] = "failed"
               ELSE Fresh(b)' /\ Retrying(b)' \subseteq {v}
    <3>1. CASE b = a
      <4>1. CASE v = w
        BY <2>1, <3>1, <4>1
      <4>2. CASE v # w
        <5>1. v \in Retrying(a) /\ v \in Workers /\ a \in Atts \ rerun
          BY <2>1, <2>5, <3>1, <4>2 DEF Retrying
        <5>2. work[v].stage = "asked"
          BY <2>1, <5>1 DEF JobInv, RetryInv, Fresh
        <5> QED
          BY <2>1, <3>1, <4>2, <5>1, <5>2
      <4> QED
        BY <4>1, <4>2
    <3>2. CASE b # a
      <4>1. v \in Retrying(b) /\ v \in Workers \ {w} /\ b \in Atts \ rerun
        BY <2>1, <2>4, <3>2, NobodyIsNoOne DEF Retrying
      <4> QED
        BY <2>1, <2>3, <2>4, <3>2, <4>1 DEF JobInv, RetryInv
    <3> QED
      BY <3>1, <3>2
  <2>9. FailedHasNoJobs'
    BY <2>1 DEF JobInv, FailedHasNoJobs
  <2>10. \A b \in Atts : Batched(b)' => Fresh(b)' /\ Retrying(b)' = {}
    BY <2>2, <2>3, <2>4, <2>6 DEF JobInv, RetryInv
  <2> QED
    BY <2>7, <2>8, <2>9, <2>10 DEF JobInv, RetryInv
<1>16. ASSUME NEW w \in Workers, BeginRetry(w) PROVE JobInv'
  <2> DEFINE a == work[w].att
  <2>1. /\ \A v \in Workers \ {w} : work'[v] = work[v]
        /\ UNCHANGED <<claims, owner>> /\ work[w].stage = "asked" /\ a \in Atts
        /\ work[w].mail = Nobody /\ work'[w].mail = Nobody /\ work'[w].att = a
        /\ work'[w].stage = "ai" /\ man'[a] = "extracting"
        /\ \A b \in Atts \ {a} : man'[b] = man[b]
        /\ rerun' = IF Retrying(a) = {w} THEN rerun ELSE rerun \cup {a}
    BY <1>1, <1>16 DEF BeginRetry, WorkType, Shape, Holder
  <2>2. w \in Retrying(a)
    BY <2>1 DEF Retrying, After
  <2>3. \A b \in Atts : Fresh(b) => Fresh(b)'
    BY <2>1 DEF Fresh, Landless
  <2>4. \A b \in Atts : Retrying(b)' = Retrying(b)
    BY <2>1 DEF Retrying, After
  <2>5. \A b \in Atts : Batched(b)' => Batched(b)
    BY <2>1 DEF Batched
  <2>6. \A v \in Workers : work'[v].mail \in Mails =>
          /\ work'[v].mail \in claims'
          /\ \A u \in Workers \ {v} : work'[u].mail # work'[v].mail
    BY <2>1, NobodyIsNoOne DEF JobInv, RetryInv
  <2>7. ASSUME a \notin rerun' PROVE Fresh(a)' /\ Retrying(a) = {w}
    <3>1. Retrying(a) = {w} /\ a \notin rerun
      BY <2>1, <2>7
    <3>2. man[a] = "failed"
      BY <2>1, <2>2, <3>1 DEF JobInv, RetryInv
    <3>3. Landless(a)
      BY <2>1, <3>1, <3>2 DEF JobInv, FailedHasNoJobs, Landless
    <3> QED
      BY <2>1, <3>1, <3>3 DEF Fresh, Landless
  <2>8. ASSUME NEW b \in Atts \ rerun', NEW v \in Retrying(b)'
        PROVE  IF work'[v].stage = "asked" THEN man'[b] = "failed"
               ELSE Fresh(b)' /\ Retrying(b)' \subseteq {v}
    <3>1. CASE b = a
      BY <2>1, <2>4, <2>7, <2>8, <3>1
    <3>2. CASE b # a
      <4>1. v \in Retrying(b) /\ v \in Workers \ {w} /\ b \in Atts \ rerun
        BY <2>1, <2>4, <3>2 DEF Retrying
      <4> QED
        BY <2>1, <2>3, <2>4, <3>2, <4>1 DEF JobInv, RetryInv
    <3> QED
      BY <3>1, <3>2
  <2>9. FailedHasNoJobs'
    BY <2>1 DEF JobInv, FailedHasNoJobs
  <2> QED
    BY <2>3, <2>4, <2>5, <2>6, <2>8, <2>9 DEF JobInv, RetryInv
<1>17. CASE UNCHANGED vars
  <2>1. \A v \in Workers : work'[v] = work[v]
    BY <1>17 DEF vars
  <2> QED
    BY <1>2, <1>3, <1>5, <1>17, <1>18, <2>1, JobsUntouched DEF vars
<1> QED
  BY <1>6, <1>7, <1>8, <1>9, <1>10, <1>11, <1>12, <1>13, <1>14, <1>15, <1>16, <1>17,
     <1>19, JobCommit, Steps DEF WorkerStep, Work, Booking, Conflict, Abort

(* A manifest that failed has no jobs, unless two retries of it            *)
(* overlapped: of two that run one after the other, or of a batch and what *)
(* follows it, none can take a manifest back that has jobs.                *)
THEOREM FailedManifestsAreEmpty == Spec => []FailedHasNoJobs
<1>1. Init => JobInv
  <2> SUFFICES ASSUME Init PROVE JobInv
    OBVIOUS
  <2>1. \A w \in Workers : work[w].mail = Nobody /\ work[w].att = Nobody
    BY DEF Init, Idle
  <2>2. \A a \in Atts : Fresh(a) /\ Retrying(a) = {}
    BY <2>1, NobodyIsNoOne DEF Init, Fresh, Landless, Retrying
  <2> QED
    BY <2>1, <2>2, NobodyIsNoOne DEF Init, JobInv, RetryInv, FailedHasNoJobs
<1>2. JobInv => FailedHasNoJobs
  BY DEF JobInv
<1> QED
  BY <1>1, <1>2, JobStep, TypeInit, TypeStep, PTL DEF Spec

=============================================================================
