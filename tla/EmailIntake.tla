----------------------------- MODULE EmailIntake -----------------------------
(***************************************************************************)
(* Phase 1 of _poll_inbox_async (app/tasks/tasks.py): how an inbound       *)
(* e-mail becomes a booking, or a message of an existing booking; and      *)
(* whoever else writes the same tables: "sync e-mails", which stores and   *)
(* ledgers what it finds in a conversation (sync_booking_emails), and the  *)
(* desk, which creates, edits and deletes bookings (routers/bookings.py).  *)
(*                                                                         *)
(* Several pollers run at once: every uvicorn worker has its own fallback  *)
(* loop (main.py), every webhook notification starts one more in the       *)
(* background (routers/graph_webhook.py) and Celery has a task.  They      *)
(* share only the database.  A poller reads the ledger processed_emails in *)
(* one session, talks to Graph for a while, and inserts into the ledger in *)
(* the transaction that inserts the booking or the message; the primary    *)
(* key of the ledger makes a second insert fail, which rolls back.         *)
(*                                                                         *)
(* One step of a poller is the code between two points where another       *)
(* process can get in: a call of Graph, or the end of a transaction.  What *)
(* a transaction writes becomes visible in its commit step.                *)
(***************************************************************************)
EXTENDS Naturals, FiniteSets

CONSTANTS
    Messages,       \* inbound e-mails
    Pollers,        \* concurrent executions of _poll_inbox_async
    Syncs,          \* concurrent requests of sync-emails
    Identified,     \* messages that have an internetMessageId
    Titled,         \* messages with a non-empty subject
    WithFiles,      \* messages with regular (not inline) attachments
    Filtered,       \* before the cutoff, sent by the mailbox itself, or alerts
    Refs,           \* Refs[m]: messages named by In-Reply-To and References
    Prefix,         \* Prefix[m]: how the subject starts: "none", "re", "fwd"
                    \* or "tag", which is anything else in brackets
    Topic,          \* Topic[m]: the subject without its prefixes and tags
    Conversation,   \* Conversation[m]: the conversationId
    DeskTitles,     \* subjects the desk gives: those of these messages, or
                    \* NoMessage for one that no message has
    NoMessage, NoBooking,
    MaxBookings,    \* the last booking number
    MaxDesk,        \* how many bookings the desk creates
    MaxFaults       \* how many calls fail and processes crash

ASSUME MailAssumption ==
    /\ Identified \subseteq Messages
    /\ Titled \subseteq Messages
    /\ WithFiles \subseteq Messages
    /\ Filtered \subseteq Messages
    /\ Refs \in [Messages -> SUBSET Messages]
    /\ \A m \in Messages : m \notin Refs[m]
    /\ Prefix \in [Messages -> {"none", "re", "fwd", "tag"}]
    /\ DeskTitles \subseteq Messages \cup {NoMessage}
    /\ NoMessage \notin Messages

ASSUME BoundAssumption ==
    /\ MaxBookings \in Nat
    /\ MaxDesk \in Nat
    /\ MaxFaults \in Nat
    /\ NoBooking \notin 1..MaxBookings

VARIABLES
    mailbox,        \* messages Graph returns: received in the last 24 hours
    processed,      \* table processed_emails
    claimed,        \* table hawb_processed_emails
    unclaimed,      \* history: messages whose HAWB claim raised
    bookings,       \* table bookings
    rows,           \* table email_messages: pairs <<booking, message>>
    seq,            \* the sequence lw_booking_seq
    recorded,       \* history: how often a poller committed each message,
                    \* or a sync that was the first to enter it
    synced,         \* history: messages a sync stored
    early,          \* history: messages looked up before one they name
                    \* was stored
    misled,         \* history: what was on its way to a booking when that
                    \* booking was deleted
    made,           \* bookings the desk has created
    pc, todo,       \* each poller: where it is, what is left of its list,
    msg, target,    \* the message in hand and the booking it goes to
    dest, list,     \* each sync: its booking, what is left of its list,
    held,           \* and what its open transaction has inserted
    faults          \* failures so far

histVars == <<recorded, synced, early, misled>>
dbVars == <<processed, bookings, rows, seq, made, histVars>>
hawbVars == <<claimed, unclaimed>>
syncVars == <<dest, list, held>>
vars == <<mailbox, dbVars, hawbVars, pc, todo, msg, target, syncVars, faults>>

BookingIds == 1..MaxBookings

(* `by' is the message that opened the booking, or the one the desk copied *)
(* into it; `title' is the message whose subject it has now and `titles'   *)
(* (history) those it has had; `assigned' tells whether an agent was ever  *)
(* assigned, so that an allocation_log row refers to the booking.          *)
Booking ==
    [id : BookingIds, by : Messages \cup {NoMessage},
     title : Messages \cup {NoMessage}, titles : SUBSET (Messages \cup {NoMessage}),
     assigned : BOOLEAN, desk : BOOLEAN]

Ids(bs) == {b.id : b \in bs}

-----------------------------------------------------------------------------
(* Finding the booking a message replies to, in order of precision.  Where *)
(* several bookings qualify any of them may be the answer: the order of    *)
(* the ids in the headers and the rows a LIMIT 1 returns are left open.    *)

(* 1. a row whose Message-ID one of the threading headers names            *)
HeaderHits(m) ==
    {r[1] : r \in {s \in rows : s[2] \in Refs[m] \cap Identified}}

(* is_reply_or_forward: stripping changes the subject.  _strip_re_prefix   *)
(* strips [EXTERNAL] and every other tag in brackets along with Re: and    *)
(* Fwd:, so a new request that a mail gateway tagged counts as a reply.    *)
IsMarked(m) == Prefix[m] # "none"

(* 2. a row of the same Outlook conversation, only for marked subjects     *)
ConversationHits(m) ==
    {r[1] : r \in {s \in rows : IsMarked(m) /\ Conversation[s[2]] = Conversation[m]}}

(* 3. a booking with the same subject, only for marked subjects; the       *)
(*    stored subject may carry a Fw:, no other prefix and no tag           *)
SubjectHits(m) ==
    {b.id : b \in {c \in bookings : /\ IsMarked(m)
                                    /\ c.title \in Messages
                                    /\ Topic[c.title] = Topic[m]
                                    /\ Prefix[c.title] \in {"none", "fwd"}}}

(* Mutant: the condition on the subject of strategy 2 is lost.             *)
FindExistingAnyConversation(m) ==
    IF HeaderHits(m) # {} THEN HeaderHits(m)
    ELSE IF \E s \in rows : Conversation[s[2]] = Conversation[m]
         THEN {r[1] : r \in {s \in rows : Conversation[s[2]] = Conversation[m]}}
         ELSE SubjectHits(m)

(* Mutant: the threading headers are never consulted.                      *)
FindExistingNoHeaders(m) ==
    IF ConversationHits(m) # {} THEN ConversationHits(m) ELSE SubjectHits(m)

FindExisting(m) ==
    IF HeaderHits(m) # {} THEN HeaderHits(m)
    ELSE IF ConversationHits(m) # {} THEN ConversationHits(m)
    ELSE SubjectHits(m)

-----------------------------------------------------------------------------

Init ==
    /\ mailbox = {} /\ processed = {} /\ claimed = {} /\ unclaimed = {}
    /\ bookings = {} /\ rows = {} /\ seq = 0
    /\ recorded = [m \in Messages |-> 0]
    /\ synced = {} /\ early = {} /\ misled = {} /\ made = 0
    /\ pc = [p \in Pollers |-> "idle"]
    /\ todo = [p \in Pollers |-> {}]
    /\ msg = [p \in Pollers |-> NoMessage]
    /\ target = [p \in Pollers |-> NoBooking]
    /\ dest = [s \in Syncs |-> NoBooking]
    /\ list = [s \in Syncs |-> {}]
    /\ held = [s \in Syncs |-> {}]
    /\ faults = 0

(* Something fails: one of the bounded number of faults is used up.        *)
Fault ==
    /\ faults < MaxFaults
    /\ faults' = faults + 1

(* A new message reaches the mailbox.                                      *)
Arrive(m) ==
    /\ m \notin mailbox
    /\ mailbox' = mailbox \cup {m}
    /\ UNCHANGED <<dbVars, syncVars, hawbVars, pc, todo, msg, target, faults>>

(* The list of messages is fetched once, at the start.  Graph gives no     *)
(* order, so the loop may take the messages in any order.                  *)
StartPoll(p) ==
    /\ pc[p] = "idle"
    /\ pc' = [pc EXCEPT ![p] = "loop"]
    /\ todo' = [todo EXCEPT ![p] = mailbox]
    /\ UNCHANGED <<mailbox, dbVars, syncVars, hawbVars, msg, target, faults>>

EndPoll(p) ==
    /\ pc[p] = "loop"
    /\ todo[p] = {}
    /\ pc' = [pc EXCEPT ![p] = "idle"]
    /\ UNCHANGED <<mailbox, dbVars, syncVars, hawbVars, todo, msg, target, faults>>

(* `continue': the loop goes on with its next message.                     *)
Continue(p) ==
    /\ pc' = [pc EXCEPT ![p] = "loop"]
    /\ msg' = [msg EXCEPT ![p] = NoMessage]
    /\ target' = [target EXCEPT ![p] = NoBooking]

Goto(p, label) == pc' = [pc EXCEPT ![p] = label]

IsProcessed(m) == m \in Identified \cap processed

(* The cutoff, own-mailbox and alert filters, and the dedup check.         *)
Skip(p, m) ==
    /\ pc[p] = "loop"
    /\ m \in todo[p]
    /\ m \in Filtered \/ IsProcessed(m)
    /\ todo' = [todo EXCEPT ![p] = @ \ {m}]
    /\ UNCHANGED <<mailbox, dbVars, syncVars, hawbVars, pc, msg, target, faults>>

(* A message that passes the dedup check, or whose check itself fails      *)
(* ("continuing anyway").                                                  *)
Take(p, m) ==
    /\ pc[p] = "loop"
    /\ m \in todo[p] \ Filtered
    /\ IF IsProcessed(m) THEN Fault ELSE UNCHANGED faults
    /\ todo' = [todo EXCEPT ![p] = @ \ {m}]
    /\ msg' = [msg EXCEPT ![p] = m]
    /\ Goto(p, IF m \in WithFiles THEN "files" ELSE "lookup")
    /\ UNCHANGED <<mailbox, dbVars, syncVars, hawbVars, target>>

FetchFiles(p) ==
    /\ pc[p] = "files"
    /\ Goto(p, IF msg[p] \in Identified THEN "ingest" ELSE "lookup")
    /\ UNCHANGED <<mailbox, dbVars, syncVars, hawbVars, todo, msg, target, faults>>

(* The attachments cannot be fetched: the message is left for a later poll.*)
FetchFails(p) ==
    /\ pc[p] = "files"
    /\ Fault
    /\ Continue(p)
    /\ UNCHANGED <<mailbox, dbVars, syncVars, hawbVars, todo>>

(* Mutant: the HAWB pipeline is not called.                                *)
IngestNothing(p) ==
    /\ pc[p] = "ingest"
    /\ Goto(p, "lookup")
    /\ UNCHANGED <<mailbox, dbVars, syncVars, hawbVars, todo, msg, target, faults>>

(* The HAWB pipeline claims the message in its own table, in a transaction *)
(* of its own; what it does with the attachments is module HawbIngest.     *)
IngestHawb(p) ==
    /\ pc[p] = "ingest"
    /\ claimed' = claimed \cup {msg[p]}
    /\ Goto(p, "lookup")
    /\ UNCHANGED <<mailbox, dbVars, syncVars, unclaimed, todo, msg, target, faults>>

(* An error in the HAWB pipeline is swallowed, and the poll goes on.       *)
IngestFails(p) ==
    /\ pc[p] = "ingest"
    /\ Fault
    /\ unclaimed' = unclaimed \cup {msg[p]}
    /\ Goto(p, "lookup")
    /\ UNCHANGED <<mailbox, dbVars, syncVars, claimed, todo, msg, target>>

-----------------------------------------------------------------------------
(* The transaction that records the message.                               *)

(* Mutant: a Re: or Fwd: whose thread is not found opens no booking.       *)
LookupDropsReplies(p) ==
    /\ pc[p] = "lookup"
    /\ \/ \E b \in FindExisting(msg[p]) :
            /\ target' = [target EXCEPT ![p] = b]
            /\ Goto(p, "append")
            /\ UNCHANGED msg
       \/ /\ FindExisting(msg[p]) = {}
          /\ msg[p] \in Titled /\ ~ IsMarked(msg[p])
          /\ Goto(p, "create")
          /\ UNCHANGED <<msg, target>>
       \/ /\ FindExisting(msg[p]) = {}
          /\ msg[p] \notin Titled \/ IsMarked(msg[p])
          /\ Continue(p)
    /\ UNCHANGED <<mailbox, dbVars, syncVars, hawbVars, todo, faults>>

Lookup(p) ==
    /\ pc[p] = "lookup"
    /\ \/ \E b \in FindExisting(msg[p]) :
            /\ target' = [target EXCEPT ![p] = b]
            /\ Goto(p, "append")
            /\ UNCHANGED msg
       \/ /\ FindExisting(msg[p]) = {}
          /\ msg[p] \in Titled
          /\ Goto(p, "create")
          /\ UNCHANGED <<msg, target>>
       \/ \* no subject: nothing is recorded, not even in the ledger
          /\ FindExisting(msg[p]) = {}
          /\ msg[p] \notin Titled
          /\ Continue(p)
    /\ UNCHANGED <<mailbox, dbVars, syncVars, hawbVars, todo, faults>>

(* nextval is not undone by a rollback.  The desk may have taken the       *)
(* number before: then the insert of the booking fails on its primary key. *)
NextVal(p) ==
    /\ pc[p] = "create"
    /\ seq < MaxBookings
    /\ seq' = seq + 1
    /\ \/ /\ seq + 1 \notin Ids(bookings)
          /\ target' = [target EXCEPT ![p] = seq + 1]
          /\ Goto(p, "open")
          /\ UNCHANGED msg
       \/ /\ seq + 1 \in Ids(bookings)
          /\ Continue(p)
    /\ UNCHANGED <<mailbox, processed, bookings, rows, made, histVars, syncVars,
                   hawbVars, todo, faults>>

Stored(m) == \E r \in rows : r[2] = m

(* Messages whose booking has been looked up, and is or will be recorded.  *)
LookedUp ==
    {m \in Messages : \/ recorded[m] > 0
                      \/ \E p \in Pollers : /\ msg[p] = m
                                            /\ pc[p] \in {"append", "create", "open"}}

(* Messages become rows of booking b; what named one of them and was       *)
(* looked up before was early.                                             *)
Insert(b, ms) ==
    /\ rows' = rows \cup {<<b, m>> : m \in ms}
    /\ early' = early \cup {m \in LookedUp : \E x \in ms \cap Refs[m] : ~ Stored(x)}

(* The ledger row that the transaction inserts along with its message.  It *)
(* waits for a sync whose open transaction has inserted the same row.      *)
Enter(m) ==
    /\ m \in Identified => \A s \in Syncs : m \notin held[s]
    /\ processed' = processed \cup ({m} \cap Identified)

Tally(m) == recorded' = [recorded EXCEPT ![m] = @ + 1]

CommitAppend(p) ==
    /\ pc[p] = "append"
    /\ target[p] \in Ids(bookings)
    /\ ~ IsProcessed(msg[p])
    /\ Insert(target[p], {msg[p]})
    /\ Enter(msg[p])
    /\ Tally(msg[p])
    /\ Continue(p)
    /\ UNCHANGED <<mailbox, bookings, seq, made, synced, misled, syncVars, hawbVars,
                   todo, faults>>

(* What the poller opens for m: it has m's subject, and an agent if one is *)
(* present.                                                                *)
Opened(id, m) ==
    {[id |-> id, by |-> m, title |-> m, titles |-> {m}, assigned |-> present,
      desk |-> FALSE] : present \in BOOLEAN}

(* Mutant: the insert into the ledger ignores a conflict, as the one of    *)
(* sync_booking_emails does, instead of failing on it.                     *)
CommitOpenOnConflictDoNothing(p) ==
    /\ pc[p] = "open"
    /\ \E b \in Opened(target[p], msg[p]) : bookings' = bookings \cup {b}
    /\ Insert(target[p], {msg[p]})
    /\ Enter(msg[p])
    /\ Tally(msg[p])
    /\ Continue(p)
    /\ UNCHANGED <<mailbox, seq, made, synced, misled, syncVars, hawbVars, todo, faults>>

(* A new booking, its first message and, when the message has an id, the   *)
(* ledger row, in one commit.  Which agents are present, and which of them *)
(* is assigned, is left open.                                              *)
CommitOpen(p) ==
    /\ pc[p] = "open"
    /\ ~ IsProcessed(msg[p])
    /\ \E b \in Opened(target[p], msg[p]) : bookings' = bookings \cup {b}
    /\ Insert(target[p], {msg[p]})
    /\ Enter(msg[p])
    /\ Tally(msg[p])
    /\ Continue(p)
    /\ UNCHANGED <<mailbox, seq, made, synced, misled, syncVars, hawbVars, todo, faults>>

(* The database refuses the transaction: the ledger already has the        *)
(* message, the booking is gone, or the sequence is exhausted.             *)
Refused(p) ==
    /\ \/ pc[p] \in {"append", "open"} /\ IsProcessed(msg[p])
       \/ pc[p] = "append" /\ target[p] \notin Ids(bookings)
       \/ pc[p] = "create" /\ seq = MaxBookings
    /\ Continue(p)
    /\ UNCHANGED <<mailbox, dbVars, syncVars, hawbVars, todo, faults>>

(* Any other exception inside the transaction: rollback, next message.     *)
Rollback(p) ==
    /\ pc[p] \in {"lookup", "append", "create", "open"}
    /\ Fault
    /\ Continue(p)
    /\ UNCHANGED <<mailbox, dbVars, syncVars, hawbVars, todo>>

(* The process of a poller dies; a new one will start over.                *)
Crash(p) ==
    /\ pc[p] # "idle"
    /\ Fault
    /\ pc' = [pc EXCEPT ![p] = "idle"]
    /\ todo' = [todo EXCEPT ![p] = {}]
    /\ msg' = [msg EXCEPT ![p] = NoMessage]
    /\ target' = [target EXCEPT ![p] = NoBooking]
    /\ UNCHANGED <<mailbox, dbVars, syncVars, hawbVars>>

-----------------------------------------------------------------------------
(* sync-emails: one transaction for everything it stores.  It looks for    *)
(* rows, not at the ledger; it never asks the HAWB pipeline nor whether a  *)
(* subject is marked.                                                      *)

(* Graph lists the conversation of some message of the booking.            *)
StartSync(s, b) ==
    /\ dest[s] = NoBooking
    /\ dest' = [dest EXCEPT ![s] = b.id]
    /\ \E r \in rows :
         /\ r[1] = b.id
         /\ list' = [list EXCEPT ![s] = {m \in mailbox : Conversation[m] = Conversation[r[2]]}]
    /\ UNCHANGED <<mailbox, dbVars, hawbVars, pc, todo, msg, target, held, faults>>

Known(m) == m \in Identified /\ Stored(m)

SyncSkip(s, m) ==
    /\ m \in list[s]
    /\ Known(m)
    /\ list' = [list EXCEPT ![s] = @ \ {m}]
    /\ UNCHANGED <<mailbox, dbVars, hawbVars, pc, todo, msg, target, dest, held, faults>>

(* Row and ledger entry are inserted.  The entry waits for another sync    *)
(* that has inserted the same one; whatever is in the ledger is left.      *)
SyncInsert(s, m) ==
    /\ m \in list[s]
    /\ ~ Known(m)
    /\ dest[s] \in Ids(bookings)
    /\ m \in Identified => \A t \in Syncs : m \notin held[t]
    /\ list' = [list EXCEPT ![s] = @ \ {m}]
    /\ held' = [held EXCEPT ![s] = @ \cup {m}]
    /\ UNCHANGED <<mailbox, dbVars, hawbVars, pc, todo, msg, target, dest, faults>>

EndSync(s) ==
    /\ dest' = [dest EXCEPT ![s] = NoBooking]
    /\ list' = [list EXCEPT ![s] = {}]
    /\ held' = [held EXCEPT ![s] = {}]


CommitSync(s) ==
    /\ dest[s] # NoBooking
    /\ list[s] = {}
    /\ Insert(dest[s], held[s])
    /\ processed' = processed \cup (held[s] \cap Identified)
    /\ recorded' = [m \in Messages |->
         IF m \in (held[s] \cap Identified) \ processed THEN recorded[m] + 1 ELSE recorded[m]]
    /\ synced' = synced \cup held[s]
    /\ EndSync(s)
    /\ UNCHANGED <<mailbox, bookings, seq, made, misled, hawbVars, pc, todo, msg,
                   target, faults>>

(* The booking was deleted before its first new row: the insert fails.     *)
SyncRefused(s) ==
    /\ dest[s] \notin Ids(bookings)
    /\ \E m \in list[s] : ~ Known(m)
    /\ EndSync(s)
    /\ UNCHANGED <<mailbox, dbVars, hawbVars, pc, todo, msg, target, faults>>

(* Graph, the storage or the database fails, or two syncs are deadlocked:  *)
(* nothing of it is stored.                                                *)
SyncFails(s) ==
    /\ dest[s] # NoBooking
    /\ Fault
    /\ EndSync(s)
    /\ UNCHANGED <<mailbox, dbVars, hawbVars, pc, todo, msg, target>>

-----------------------------------------------------------------------------
(* The desk.                                                               *)

(* create_booking: its number is random or the caller's, any that is free  *)
(* (it waits for a poller that is opening the booking of that number), and *)
(* a source message of another booking is copied into it.                  *)
CreateBooking(id, title, source) ==
    /\ made < MaxDesk
    /\ made' = made + 1
    /\ id \notin Ids(bookings)
    /\ ~ \E p \in Pollers : pc[p] = "open" /\ target[p] = id
    /\ source # NoMessage => Stored(source)
    /\ bookings' = bookings \cup
         {[id |-> id, by |-> source, title |-> title, titles |-> {title},
           assigned |-> FALSE, desk |-> TRUE]}
    /\ rows' = rows \cup ({id} \X ({source} \ {NoMessage}))
    /\ UNCHANGED <<mailbox, processed, seq, histVars, syncVars, hawbVars, pc, todo, msg,
                   target, faults>>

(* PUT /bookings/{id} can give it another subject and an agent.            *)
UpdateBooking(b, title, assigned) ==
    /\ b \in bookings
    /\ bookings' = (bookings \ {b}) \cup
         {[b EXCEPT !.title = title, !.titles = @ \cup {title},
                    !.assigned = @ \/ assigned]}
    /\ UNCHANGED <<mailbox, processed, rows, seq, made, histVars, syncVars, hawbVars,
                   pc, todo, msg, target, faults>>

(* Mutant: a deletion does not wait for the rows of an open transaction.   *)
DeletableUnderSync(b) == b \in bookings /\ ~ b.assigned

(* A booking an agent was assigned to has an allocation_log row whose      *)
(* relationship does not cascade and whose foreign key is not nullable:    *)
(* its deletion fails and changes nothing.  A deletion waits for a sync    *)
(* that has inserted rows of the booking.                                  *)
Deletable(b) ==
    /\ b \in bookings
    /\ ~ b.assigned
    /\ \A s \in Syncs : dest[s] = b.id => held[s] = {}

(* History: the messages that are on their way to booking number id.       *)
Coming(id) ==
    {<<id, msg[p]>> : p \in {q \in Pollers : pc[q] = "append" /\ target[q] = id}}
      \cup UNION {{id} \X list[s] : s \in {t \in Syncs : dest[t] = id}}

(* Mutant: deleting a booking also forgets that its messages were seen.    *)
DeleteBookingForgets(b) ==
    /\ Deletable(b)
    /\ bookings' = bookings \ {b}
    /\ processed' = processed \ {r[2] : r \in {s \in rows : s[1] = b.id}}
    /\ rows' = {r \in rows : r[1] # b.id}
    /\ misled' = misled \cup Coming(b.id)
    /\ UNCHANGED <<mailbox, seq, made, recorded, synced, early, syncVars, hawbVars, pc,
                   todo, msg, target, faults>>

(* DELETE /bookings/{id} cascades to the messages and leaves the ledger    *)
(* alone.                                                                  *)
DeleteBooking(b) ==
    /\ Deletable(b)
    /\ bookings' = bookings \ {b}
    /\ rows' = {r \in rows : r[1] # b.id}
    /\ misled' = misled \cup Coming(b.id)
    /\ UNCHANGED <<mailbox, processed, seq, made, recorded, synced, early, syncVars,
                   hawbVars, pc, todo, msg, target, faults>>

-----------------------------------------------------------------------------

PollerStep(p) ==
    \/ StartPoll(p)
    \/ EndPoll(p)
    \/ \E m \in Messages : Skip(p, m) \/ Take(p, m)
    \/ FetchFiles(p)
    \/ IngestHawb(p)
    \/ Lookup(p)
    \/ NextVal(p)
    \/ CommitAppend(p)
    \/ CommitOpen(p)
    \/ Refused(p)

PollerFault(p) ==
    FetchFails(p) \/ IngestFails(p) \/ Rollback(p) \/ Crash(p)

SyncStep(s) ==
    \/ \E m \in Messages : SyncSkip(s, m) \/ SyncInsert(s, m)
    \/ CommitSync(s)
    \/ SyncRefused(s)

DeskStep ==
    \/ \E id \in BookingIds, t \in DeskTitles, m \in Messages \cup {NoMessage} :
         CreateBooking(id, t, m)
    \/ \E b \in bookings : \E t \in DeskTitles \cup {b.title}, a \in BOOLEAN :
         UpdateBooking(b, t, a)
    \/ \E b \in bookings : DeleteBooking(b)

Next ==
    \/ \E m \in Messages : Arrive(m)
    \/ \E p \in Pollers : PollerStep(p) \/ PollerFault(p)
    \/ \E s \in Syncs, b \in bookings : StartSync(s, b)
    \/ \E s \in Syncs : SyncStep(s) \/ SyncFails(s)
    \/ DeskStep

Spec == Init /\ [][Next]_vars

(* A poll loop sleeps and polls again for as long as its process lives,    *)
(* and a process that died is started again; a sync that has begun ends.   *)
(* Nothing is promised about faults, arrivals, new syncs and the desk.     *)
Fairness ==
    /\ \A p \in Pollers : WF_vars(PollerStep(p))
    /\ \A s \in Syncs : WF_vars(SyncStep(s))

FairSpec == Spec /\ Fairness

-----------------------------------------------------------------------------
(* Properties.                                                             *)

Busy == {"files", "ingest", "lookup", "append", "create", "open"}

(* Every variable holds a value of its kind, and a poller that works on a  *)
(* message has one in hand.                                                *)
TypeOK ==
    /\ mailbox \subseteq Messages
    /\ processed \subseteq Identified
    /\ claimed \subseteq Messages
    /\ unclaimed \subseteq Messages
    /\ bookings \subseteq Booking
    /\ rows \subseteq BookingIds \X Messages
    /\ seq \in 0..MaxBookings
    /\ recorded \in [Messages -> Nat]
    /\ synced \subseteq Messages
    /\ early \subseteq Messages
    /\ misled \subseteq BookingIds \X Messages
    /\ made \in 0..MaxDesk
    /\ pc \in [Pollers -> {"idle", "loop"} \cup Busy]
    /\ todo \in [Pollers -> SUBSET Messages]
    /\ msg \in [Pollers -> Messages \cup {NoMessage}]
    /\ target \in [Pollers -> BookingIds \cup {NoBooking}]
    /\ dest \in [Syncs -> BookingIds \cup {NoBooking}]
    /\ list \in [Syncs -> SUBSET Messages]
    /\ held \in [Syncs -> SUBSET Messages]
    /\ faults \in 0..MaxFaults
    /\ \A p \in Pollers : pc[p] \in Busy => msg[p] \in Messages
    /\ \A p \in Pollers : pc[p] \in {"append", "open"} => target[p] \in BookingIds
    /\ \A s \in Syncs : dest[s] = NoBooking => list[s] = {} /\ held[s] = {}

(* A message with a Message-ID is recorded at most once, as a booking or   *)
(* as a reply, by a poller or by a sync that enters it in the ledger,      *)
(* whatever interleaving, crashes, retries and deletions of bookings do    *)
(* (the promise of models/processed_email.py).                             *)
IngestedOnce == \A m \in Identified : recorded[m] <= 1

(* A message is in the ledger only if it was recorded in the same          *)
(* transaction, and recorded only if it is in the ledger: a poller that    *)
(* dies half-way neither loses a message nor leaves it to be seen again.   *)
LedgerIsExact == processed = {m \in Identified : recorded[m] > 0}

(* A poller never closes a message with attachments before the HAWB        *)
(* pipeline had its turn: the claim comes first, or the attempt raised.    *)
(* Only a sync does, which asks no HAWB pipeline.                          *)
HawbBeforeLedger ==
    processed \cap WithFiles \subseteq claimed \cup unclaimed \cup synced

(* Every stored message belongs to a live booking and every live booking   *)
(* still has the message that opened it, even when a deletion comes        *)
(* between the lookup and the commit of a reply, or in the middle of a     *)
(* sync.                                                                   *)
RowsMatchBookings ==
    /\ \A r \in rows : r[1] \in Ids(bookings)
    /\ \A b \in bookings : b.by # NoMessage => <<b.id, b.by>> \in rows

(* Two bookings never have one number, although pollers draw numbers from  *)
(* a sequence and the desk takes any.                                      *)
UniqueIds == \A b, c \in bookings : b.id = c.id => b = c

(* What makes a message belong to the thread of booking b: another message *)
(* of b that it names, or that has its conversation, or a subject b had.   *)
(* Only a marked message is looked for by conversation and subject; a sync *)
(* goes by the conversation alone.                                         *)
LinkedTo(m, b) ==
    \/ \E r \in rows : r[1] = b.id /\ r[2] \in Refs[m]
    \/ /\ IsMarked(m) \/ m \in synced
       /\ \E r \in rows : r[1] = b.id /\ r[2] # m /\ Conversation[r[2]] = Conversation[m]
    \/ /\ IsMarked(m)
       /\ \E t \in b.titles \cap Messages : Topic[t] = Topic[m]

(* No message sits in a booking it has no link to, though the booking is   *)
(* found in one transaction and written in a later one: it opened the      *)
(* booking or was copied into it, or some link of its thread leads there.  *)
(* The exception is a message that was on its way to a booking when that   *)
(* was deleted, and whose number the desk gave to another one.             *)
FiledWhereLinked ==
    \A b \in bookings : \A r \in rows :
        r[1] = b.id => r[2] = b.by \/ LinkedTo(r[2], b) \/ r \in misled

(* A thread is split between the booking of a reply and that of a message  *)
(* it names only if the reply was looked up before that message was        *)
(* stored: no failure, retry or other poller splits one whose messages     *)
(* came in order.                                                          *)
SplitsHaveACause ==
    \A b \in bookings : ~ b.desk =>
        \A r \in rows : r[1] # b.id /\ r[2] \in Refs[b.by] \cap Identified => b.by \in early

(* The intake implements the ledger.                                       *)
Ledger == INSTANCE OnceLedger
    WITH Items <- Identified,
         ledger <- processed,
         effects <- [m \in Identified |-> recorded[m]]

ImplementsLedger == Ledger!Spec

(* Every message that can be recorded is recorded in the end: fetch        *)
(* failures, rollbacks, lost races and crashes only delay it.              *)
Recordable == (Identified \cap Titled) \ Filtered

EventuallyRecorded ==
    \A m \in Recordable : m \in mailbox ~> m \in processed

=============================================================================
