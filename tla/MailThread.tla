----------------------------- MODULE MailThread -----------------------------
(***************************************************************************)
(* The messages of one booking's e-mail thread, and the writers that store *)
(* them in the table email_messages:                                       *)
(*   - the reply endpoint, which sends through Graph and then persists     *)
(*     (reply_to_booking, app/routers/email_messages.py);                  *)
(*   - the pollers, which store inbound mail and what shows up in Sent     *)
(*     Items (both phases of _poll_inbox_async, app/tasks/tasks.py);       *)
(*   - "sync e-mails", which fetches the whole conversation and adds what  *)
(*     is missing (sync_booking_emails).                                   *)
(*                                                                         *)
(* A reply sent from the application has two ids: the one the endpoint     *)
(* makes up and stamps as X-BTS-Message-ID ("bts"), and the                *)
(* internetMessageId Graph gives it ("raw").  Other mail has only the      *)
(* latter.  The message that opened the booking is stored and ledgered     *)
(* before anything here happens; every writer recognises it, and it is     *)
(* left out.  All messages modelled are ones the thread lookup links to    *)
(* the booking (module EmailIntake has the lookup).  Nothing in the schema *)
(* makes email_messages.message_id unique; the ledger processed_emails has *)
(* a primary key.                                                          *)
(***************************************************************************)
EXTENDS Naturals, FiniteSets

CONSTANTS
    Replies,        \* messages sent from the application
    Others,         \* inbound messages, and outbound ones typed in Outlook
    Pollers,        \* concurrent executions of _poll_inbox_async
    Syncs,          \* concurrent requests of sync-emails
    NoMail,
    MaxFaults       \* how many requests fail and processes crash

Mails == Replies \cup Others

ASSUME ThreadAssumption ==
    /\ Replies \cap Others = {}
    /\ NoMail \notin Mails
    /\ MaxFaults \in Nat

VARIABLES
    visible,        \* messages Graph lists
    ledger,         \* table processed_emails: pairs <<kind of id, message>>
    rows,           \* rows[k, m]: rows of m whose message_id is of kind k
    reply,          \* each reply: "new", "sending", "sent", "stored" or "dead"
    pc, mail,       \* each poller: "idle" or "store", and the message in hand
    sync,           \* each sync: "idle", "scan" or "enter"
    list,           \* each sync: messages of its list still to look at
    entry,          \* each sync: the message whose row it has just flushed
    draft,          \* each sync: flushed rows, not yet committed
    held,           \* each sync: ledger rows inserted, not yet committed
    raced,          \* history: messages two writers were storing at once
    faults

replyVars == <<reply>>
pollVars == <<pc, mail>>
syncVars == <<sync, list, entry, draft, held>>
vars == <<visible, ledger, rows, replyVars, pollVars, syncVars, raced, faults>>

Kinds == {"raw", "bts"}

RowsOf(m) == rows[<<"raw", m>>] + rows[<<"bts", m>>]

Init ==
    /\ visible = {}
    /\ ledger = {}
    /\ rows = [x \in Kinds \X Mails |-> 0]
    /\ reply = [r \in Replies |-> "new"]
    /\ pc = [p \in Pollers |-> "idle"]
    /\ mail = [p \in Pollers |-> NoMail]
    /\ sync = [s \in Syncs |-> "idle"]
    /\ list = [s \in Syncs |-> {}]
    /\ entry = [s \in Syncs |-> NoMail]
    /\ draft = [s \in Syncs |-> {}]
    /\ held = [s \in Syncs |-> {}]
    /\ raced = {}
    /\ faults = 0

Fault ==
    /\ faults < MaxFaults
    /\ faults' = faults + 1

(* The writers that are between their check for m and their commit: for a  *)
(* reply, between the moment Graph has it and the commit.                  *)
Writers(m) ==
    {r \in Replies : r = m /\ reply[r] = "sent"}
      \cup {p \in Pollers : mail[p] = m}
      \cup {s \in Syncs : m \in draft[s]}

(* One more writer starts on m while others are at work on it.             *)
Overlap(m) == raced' = IF Writers(m) = {} THEN raced ELSE raced \cup {m}

-----------------------------------------------------------------------------
(* Mail from outside the application.                                      *)

Appear(m) ==
    /\ m \in Others \ visible
    /\ visible' = visible \cup {m}
    /\ UNCHANGED <<ledger, rows, replyVars, pollVars, syncVars, raced, faults>>

-----------------------------------------------------------------------------
(* The reply endpoint.                                                     *)

(* Recipients, Message-ID and attachments are ready and Graph is called.   *)
StartReply(r) ==
    /\ reply[r] = "new"
    /\ reply' = [reply EXCEPT ![r] = "sending"]
    /\ UNCHANGED <<visible, ledger, rows, pollVars, syncVars, raced, faults>>

(* Graph sends the message, and from now on lists it in Sent Items.        *)
GraphSends(r) ==
    /\ reply[r] = "sending"
    /\ visible' = visible \cup {r}
    /\ reply' = [reply EXCEPT ![r] = "sent"]
    /\ UNCHANGED <<ledger, rows, pollVars, syncVars, raced, faults>>

(* Graph refuses it: the request ends with an error, nothing is sent.      *)
SendFails(r) ==
    /\ reply[r] = "sending"
    /\ Fault
    /\ reply' = [reply EXCEPT ![r] = "dead"]
    /\ UNCHANGED <<visible, ledger, rows, pollVars, syncVars, raced>>

PersistReply(r) ==
    /\ reply[r] = "sent"
    /\ reply' = [reply EXCEPT ![r] = "stored"]
    /\ rows' = [rows EXCEPT ![<<"bts", r>>] = @ + 1]
    /\ ledger' = ledger \cup {<<"bts", r>>}
    /\ UNCHANGED <<visible, pollVars, syncVars, raced, faults>>

(* The answer of Graph is lost, the commit fails or the worker dies: the   *)
(* message is out and the endpoint has no record of it.                    *)
ReplyDies(r) ==
    /\ reply[r] = "sent"
    /\ Fault
    /\ reply' = [reply EXCEPT ![r] = "dead"]
    /\ UNCHANGED <<visible, ledger, rows, pollVars, syncVars, raced>>

-----------------------------------------------------------------------------
(* The pollers.                                                            *)

(* Mutant: the Sent Items loop does not look at X-BTS-Message-ID.          *)
SeenByPollerRawOnly(m) == <<"raw", m>> \in ledger

(* The dedup checks.  The two reads of the Sent Items loop are one step:   *)
(* the ledger only grows, and only a reply's commit could come between.    *)
SeenByPoller(m) == <<"raw", m>> \in ledger \/ <<"bts", m>> \in ledger

PollerTakes(p, m) ==
    /\ pc[p] = "idle"
    /\ m \in visible
    /\ ~ SeenByPoller(m)
    /\ pc' = [pc EXCEPT ![p] = "store"]
    /\ mail' = [mail EXCEPT ![p] = m]
    /\ Overlap(m)
    /\ UNCHANGED <<visible, ledger, rows, replyVars, syncVars, faults>>

PollerDone(p) ==
    /\ pc' = [pc EXCEPT ![p] = "idle"]
    /\ mail' = [mail EXCEPT ![p] = NoMail]

(* Mutant: the ledger row is committed ahead of the message.               *)
PollerStoresLate(p) ==
    /\ pc[p] = "store"
    /\ <<"raw", mail[p]>> \notin ledger
    /\ ledger' = ledger \cup {<<"raw", mail[p]>>}
    /\ PollerDone(p)
    /\ UNCHANGED <<visible, rows, replyVars, syncVars, raced, faults>>

(* The message and its ledger row, in one transaction.  While a sync holds *)
(* an uncommitted row with the same key the insert waits for it.           *)
PollerStores(p) ==
    /\ pc[p] = "store"
    /\ <<"raw", mail[p]>> \notin ledger
    /\ \A s \in Syncs : mail[p] \notin held[s]
    /\ rows' = [rows EXCEPT ![<<"raw", mail[p]>>] = @ + 1]
    /\ ledger' = ledger \cup {<<"raw", mail[p]>>}
    /\ PollerDone(p)
    /\ UNCHANGED <<visible, replyVars, syncVars, raced, faults>>

(* The primary key of the ledger refuses the transaction.                  *)
PollerRefused(p) ==
    /\ pc[p] = "store"
    /\ <<"raw", mail[p]>> \in ledger
    /\ PollerDone(p)
    /\ UNCHANGED <<visible, ledger, rows, replyVars, syncVars, raced, faults>>

(* The attachments cannot be fetched, the transaction fails otherwise, or  *)
(* the process dies.                                                       *)
PollerFails(p) ==
    /\ pc[p] = "store"
    /\ Fault
    /\ PollerDone(p)
    /\ UNCHANGED <<visible, ledger, rows, replyVars, syncVars, raced>>

-----------------------------------------------------------------------------
(* The sync request.  One transaction spans the whole list.                *)

StartSync(s) ==
    /\ sync[s] = "idle"
    /\ sync' = [sync EXCEPT ![s] = "scan"]
    /\ list' = [list EXCEPT ![s] = visible]
    /\ UNCHANGED <<visible, ledger, rows, replyVars, pollVars, entry, draft,
                   held, raced, faults>>

(* Mutant: only the raw id is looked up.                                   *)
AlreadySavedRawOnly(s, m) == rows[<<"raw", m>>] > 0

(* "Skip messages already saved": under either id, in the committed rows.  *)
(* (Its own flushed rows are for other messages of the list.)              *)
AlreadySaved(s, m) == rows[<<"raw", m>>] > 0 \/ rows[<<"bts", m>>] > 0

SyncSkips(s, m) ==
    /\ sync[s] = "scan"
    /\ m \in list[s]
    /\ AlreadySaved(s, m)
    /\ list' = [list EXCEPT ![s] = @ \ {m}]
    /\ UNCHANGED <<visible, ledger, rows, replyVars, pollVars, sync, entry,
                   draft, held, raced, faults>>

(* The row is added and flushed; its attachments are fetched and uploaded. *)
SyncAdds(s, m) ==
    /\ sync[s] = "scan"
    /\ m \in list[s]
    /\ ~ AlreadySaved(s, m)
    /\ list' = [list EXCEPT ![s] = @ \ {m}]
    /\ draft' = [draft EXCEPT ![s] = @ \cup {m}]
    /\ entry' = [entry EXCEPT ![s] = m]
    /\ sync' = [sync EXCEPT ![s] = "enter"]
    /\ Overlap(m)
    /\ UNCHANGED <<visible, ledger, rows, replyVars, pollVars, held, faults>>

(* INSERT ... ON CONFLICT DO NOTHING into the ledger: it waits for another *)
(* transaction that has inserted the key and not yet ended.                *)
SyncEnters(s) ==
    /\ sync[s] = "enter"
    /\ \A t \in Syncs \ {s} : entry[s] \notin held[t]
    /\ held' = [held EXCEPT ![s] = IF <<"raw", entry[s]>> \in ledger
                                   THEN @ ELSE @ \cup {entry[s]}]
    /\ entry' = [entry EXCEPT ![s] = NoMail]
    /\ sync' = [sync EXCEPT ![s] = "scan"]
    /\ UNCHANGED <<visible, ledger, rows, replyVars, pollVars, list, draft,
                   raced, faults>>

SyncEnds(s) ==
    /\ sync' = [sync EXCEPT ![s] = "idle"]
    /\ list' = [list EXCEPT ![s] = {}]
    /\ entry' = [entry EXCEPT ![s] = NoMail]
    /\ draft' = [draft EXCEPT ![s] = {}]
    /\ held' = [held EXCEPT ![s] = {}]

SyncCommits(s) ==
    /\ sync[s] = "scan"
    /\ list[s] = {}
    /\ rows' = [x \in Kinds \X Mails |->
                  IF x[1] = "raw" /\ x[2] \in draft[s] THEN rows[x] + 1 ELSE rows[x]]
    /\ ledger' = ledger \cup {<<"raw", m>> : m \in held[s]}
    /\ SyncEnds(s)
    /\ UNCHANGED <<visible, replyVars, pollVars, raced, faults>>

(* Graph or S3 fails, the database picks the transaction as the victim of  *)
(* a deadlock, or the worker dies: everything is rolled back.              *)
SyncFails(s) ==
    /\ sync[s] # "idle"
    /\ SyncEnds(s)
    /\ UNCHANGED <<visible, ledger, rows, replyVars, pollVars, raced, faults>>

-----------------------------------------------------------------------------

ReplyStep(r) == StartReply(r) \/ GraphSends(r) \/ PersistReply(r)

PollerStep(p) ==
    \/ \E m \in Mails : PollerTakes(p, m)
    \/ PollerStores(p)
    \/ PollerRefused(p)

SyncStep(s) ==
    \/ \E m \in Mails : SyncSkips(s, m) \/ SyncAdds(s, m)
    \/ SyncEnters(s)
    \/ SyncCommits(s)
    \/ SyncFails(s)

Next ==
    \/ \E m \in Others : Appear(m)
    \/ \E r \in Replies : ReplyStep(r) \/ SendFails(r) \/ ReplyDies(r)
    \/ \E p \in Pollers : PollerStep(p) \/ PollerFails(p)
    \/ \E s \in Syncs : StartSync(s) \/ SyncStep(s)

Spec == Init /\ [][Next]_vars

(* The pollers go on polling, and every HTTP request ends, with or without *)
(* success (client timeouts, deadlock detection).  Nobody has to send a    *)
(* reply or to ask for a sync.  A poll goes through its whole list, so a   *)
(* message that stays missing is taken by some poller; an insert that      *)
(* waits for a lock gets it, even if syncs come and go.                    *)
Fairness ==
    /\ \A m \in Mails : SF_vars(\E p \in Pollers : PollerTakes(p, m))
    /\ \A p \in Pollers : SF_vars(PollerStores(p) \/ PollerRefused(p))
    /\ \A s \in Syncs : WF_vars(SyncStep(s))

FairSpec == Spec /\ Fairness

-----------------------------------------------------------------------------
(* Properties.                                                             *)

(* Every variable holds a value of its kind, and a writer that is about to *)
(* store or to enter a message has one in hand.                            *)
TypeOK ==
    /\ visible \subseteq Mails
    /\ ledger \subseteq Kinds \X Mails
    /\ rows \in [Kinds \X Mails -> Nat]
    /\ reply \in [Replies -> {"new", "sending", "sent", "stored", "dead"}]
    /\ pc \in [Pollers -> {"idle", "store"}]
    /\ mail \in [Pollers -> Mails \cup {NoMail}]
    /\ \A p \in Pollers : pc[p] = "store" <=> mail[p] # NoMail
    /\ sync \in [Syncs -> {"idle", "scan", "enter"}]
    /\ list \in [Syncs -> SUBSET Mails]
    /\ entry \in [Syncs -> Mails \cup {NoMail}]
    /\ \A s \in Syncs : sync[s] = "enter" => entry[s] \in Mails
    /\ draft \in [Syncs -> SUBSET Mails]
    /\ held \in [Syncs -> SUBSET Mails]
    /\ raced \subseteq Mails
    /\ faults \in 0..MaxFaults

(* A message is stored twice only when two writers were storing it at the  *)
(* same time: used one after the other, in any order and with any number   *)
(* of failures between sending and storing, the reply endpoint, the        *)
(* pollers and the sync recognise each other's rows under both ids.        *)
DuplicatesNeedARace ==
    \A m \in Mails : RowsOf(m) > 1 => m \in raced

(* The ledger never closes a message that is not stored: its writers enter *)
(* it in the transaction that stores the message, or after seeing it.      *)
LedgeredIsStored ==
    \A x \in ledger : RowsOf(x[2]) > 0

(* The thread shows no message that did not go out: a reply Graph refused  *)
(* leaves no row behind.                                                   *)
NoPhantomReply == \A m \in Mails : RowsOf(m) > 0 => m \in visible

(* What is in the thread is stored in the end, a reply included whose      *)
(* request died between sending and storing: the Sent Items poll finds it. *)
EventuallyStored == \A m \in Mails : m \in visible ~> RowsOf(m) > 0

=============================================================================
